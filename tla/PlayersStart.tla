---------------------------- MODULE PlayersStart ----------------------------
(***************************************************************************)
(* The operator's commands, one at a time: `players start` (cli/players.py *)
(* _run: preflight, seeding, then the pipeline), `reset` (cli/main.py) and *)
(* the scripts that fetch one page.  Any of them can be interrupted, or    *)
(* lose the database, between two commits.                                 *)
(***************************************************************************)
EXTENDS Pipeline, Seeding

CONSTANT MaxSeedRetries   \* _MAX_SEED_RETRIES

ASSUME RetriesAssumption == MaxSeedRetries \in Nat \ {0}

VARIABLES
  cmd,          \* what the command does
  attempt,      \* of _seed_with_retry
  checks,       \* the preflight: "skipped", "passed" or "failed"
  interrupted   \* the last reset did not return

command == <<cmd, attempt, checks, interrupted>>
all == <<vars, database, command>>

After == [p \in Pages |->
  CASE p = "countries" -> "squads" [] p = "squads" -> "players_url"
    [] p = "players_url" -> "competitions" [] p = "competitions" -> "sync countries"]
Steps == {"idle", "checks", "migrate"} \cup Pages \cup {"sync countries", "sync squads", "verdict", "launch",
          "pipeline", "drop backend", "drop infra", "drop shared", "drop football", "bootstrap", "upgrade",
          "finish upgrade", "truncate", "insert genders"}

\* A database that was never migrated.
StartInit ==
  /\ Init
  /\ schemas = {} /\ revision = "none" /\ genders = FALSE /\ table = [t \in Tables |-> {}]
  /\ cmd = "idle" /\ attempt = 1 /\ checks = "skipped" /\ interrupted = FALSE

\* What the command knew goes with it.
Goes(step) ==
  /\ cmd' = step /\ attempt' = 1
  /\ checks' = IF step = "idle" THEN "skipped" ELSE checks
  /\ UNCHANGED interrupted
Only(step) == Goes(step) /\ UNCHANGED <<vars, database>>

----------------------------------------------------------------------------
(* players start *)

StartCommand ==
  /\ cmd = "idle"
  /\ \/ cmd' = "checks"
     \/ cmd' = "launch"         \* --skip-preflight
  /\ checks' = "skipped"
  /\ UNCHANGED <<vars, database, attempt, interrupted>>

\* A fatal failure returns at once, without the migrations; the seeding goes on.
RunChecks ==
  /\ cmd = "checks"
  /\ checks' = IF ChecksPass THEN "passed" ELSE "failed"
  /\ cmd' = IF ChecksPass THEN "migrate" ELSE "countries"
  /\ UNCHANGED <<vars, database, attempt, interrupted>>

\* Mutant: tables that exist are taken to be up to date.
RunMigrations_Trusting == cmd = "migrate" /\ Only("countries")
RunMigrations ==
  /\ cmd = "migrate"
  /\ UpgradeTo("head") /\ Goes("countries")
  /\ UNCHANGED vars

Skip(page) ==
  /\ cmd = page /\ "shared" \in schemas /\ ~Needed(page)
  /\ Only(After[page])

\* However many rows were stored, none included, the command goes on.
Seed(page) ==
  /\ cmd = page /\ "shared" \in schemas /\ Needed(page)
  /\ \E rows \in Parsed(page) : Stores(page, rows) \/ LosesPage(page, rows)
  /\ Goes(After[page])
  /\ UNCHANGED vars

SeedRaises(page) ==
  /\ cmd = page /\ "shared" \in schemas /\ Needed(page)
  /\ \E rows \in Parsed(page) : Raises(page, rows)
  /\ Only("idle")

\* ScraperError: waits and tries again; after the last attempt the command exits.
SeedFails(page) ==
  /\ cmd = page /\ "shared" \in schemas /\ Needed(page)
  /\ IF attempt < MaxSeedRetries
     THEN attempt' = attempt + 1 /\ UNCHANGED <<cmd, checks, interrupted>>
     ELSE Goes("idle")
  /\ UNCHANGED <<vars, database>>

SyncCountries ==
  /\ cmd = "sync countries" /\ {"shared", "backend"} \subseteq schemas
  /\ SyncCountryUrls /\ Goes("sync squads")
  /\ UNCHANGED vars

SyncSquads ==
  /\ cmd = "sync squads" /\ {"shared", "backend"} \subseteq schemas
  /\ SyncSquadUrls /\ Goes("verdict")
  /\ UNCHANGED vars

\* The fatal failures of the checks are looked at after the seeding.
Verdict ==
  /\ cmd = "verdict"
  /\ Only(IF checks = "failed" THEN "idle" ELSE "launch")

\* main(): step 2 takes the countries asked for with a players_url, step 1 the club
\* pages of those that --country names, or of all; --all asks for every country.
\* Nothing to do ends the command, and so does the want of both options.
Launch ==
  /\ cmd = "launch" /\ {"backend", "infra", "shared"} \subseteq schemas
  /\ \E named \in SUBSET Countries, allCountries, teams \in BOOLEAN :
       LET wanted == (IF allCountries THEN Countries ELSE named) \cap table["players_url"]
           clubs == (IF allCountries /\ named = {} THEN Countries ELSE named) \cap table["clubs"]
       IN IF clubs \cup wanted = {}
          THEN Goes("idle") /\ UNCHANGED vars
          ELSE Goes("pipeline") /\ (teams => clubs # {}) /\ Start(wanted, teams)
  /\ UNCHANGED database

Return ==
  /\ cmd = "pipeline" /\ main \in {"returned", "raised"}
  /\ ProcessEnds /\ Goes("idle")
  /\ UNCHANGED database

\* A table the step reads is not there.
MissingTable ==
  /\ \/ cmd \in Pages /\ "shared" \notin schemas
     \/ cmd \in {"sync countries", "sync squads"} /\ ~({"shared", "backend"} \subseteq schemas)
     \/ cmd = "launch" /\ ~({"backend", "infra", "shared"} \subseteq schemas)
  /\ Only("idle")

----------------------------------------------------------------------------
(* reset: each statement commits on its own until the upgrade *)

Reset ==
  /\ cmd = "idle"
  /\ cmd' = "drop backend" /\ interrupted' = TRUE
  /\ UNCHANGED <<vars, database, attempt, checks>>

Drops(schema) == schemas' = schemas \ {schema}

DropBackend ==
  /\ cmd = "drop backend"
  /\ Drops("backend") /\ table' = Empty(Registries) /\ Goes("drop infra")
  /\ UNCHANGED <<vars, revision, genders>>

\* alembic_version and the queue go with it.
DropInfra ==
  /\ cmd = "drop infra"
  /\ Drops("infra") /\ revision' = "none"
  /\ country' = [c \in Countries |-> "ABSENT"] /\ row' = [p \in Players |-> "ABSENT"]
  /\ Goes("drop shared")
  /\ UNCHANGED <<genders, table, players, step1, step2, step3, ready, done, watcher, reseeder, main>>

DropShared ==
  /\ cmd = "drop shared"
  /\ Drops("shared") /\ table' = Empty(Tables \ Registries) /\ genders' = FALSE /\ players' = {}
  /\ Goes("drop football")
  /\ UNCHANGED <<revision, country, row, step1, step2, step3, ready, done, watcher, reseeder, main>>

DropFootball ==
  /\ cmd = "drop football"
  /\ Drops("football") /\ Goes("bootstrap")
  /\ UNCHANGED <<vars, revision, genders, table>>

\* env.py creates sch_fbref_infra in a transaction of its own.
Bootstrap ==
  /\ cmd = "bootstrap"
  /\ schemas' = schemas \cup {"infra"} /\ Goes("upgrade")
  /\ UNCHANGED <<vars, revision, genders, table>>

Upgrade ==
  /\ cmd = "upgrade" /\ UpgradeTo("p55a") /\ Goes("finish upgrade")
  /\ UNCHANGED vars
FinishUpgrade ==
  /\ cmd = "finish upgrade" /\ UpgradeTo("head") /\ Goes("truncate")
  /\ UNCHANGED vars

\* The tables are new and empty, but for the genders a revision inserted.
Truncate ==
  /\ cmd = "truncate" /\ genders' = FALSE /\ Goes("insert genders")
  /\ UNCHANGED <<vars, schemas, revision, table>>

\* Mutant: the genders are left to the revision that inserts them.
InsertGenders_Migrated ==
  /\ cmd = "insert genders" /\ cmd' = "idle" /\ interrupted' = FALSE
  /\ UNCHANGED <<vars, database, attempt, checks>>
InsertGenders ==
  /\ cmd = "insert genders" /\ genders' = TRUE /\ cmd' = "idle" /\ interrupted' = FALSE
  /\ UNCHANGED <<vars, schemas, revision, table, attempt, checks>>

----------------------------------------------------------------------------
(* The scripts of one page, and interruptions *)

\* scrape_countries and scrape_country_squads fetch whatever is stored.
ScrapePage(page) ==
  /\ cmd = "idle" /\ "shared" \in schemas
  /\ \E rows \in Parsed(page) : Stores(page, rows)
  /\ UNCHANGED <<vars, command>>

\* The process is killed, or the database or the site answers an error that nothing
\* catches: what was committed stays.
Interrupt ==
  /\ cmd # "idle"
  /\ IF cmd = "pipeline" THEN ProcessEnds ELSE UNCHANGED vars
  /\ Goes("idle")
  /\ UNCHANGED database

ResetStep ==
  \/ DropBackend \/ DropInfra \/ DropShared \/ DropFootball
  \/ Bootstrap \/ Upgrade \/ FinishUpgrade \/ Truncate \/ InsertGenders

CommandStep ==
  \/ RunChecks \/ RunMigrations
  \/ \E page \in Pages : Skip(page) \/ Seed(page) \/ SeedRaises(page) \/ SeedFails(page)
  \/ SyncCountries \/ SyncSquads \/ Verdict \/ Launch \/ Return \/ MissingTable

StartNext ==
  \/ StartCommand \/ Reset \/ CommandStep \/ ResetStep \/ Interrupt
  \/ \E page \in {"countries", "squads"} : ScrapePage(page)
  \/ cmd = "pipeline" /\ Runs /\ UNCHANGED <<database, command>>

\* The command runs while it is alive; the pipeline's own fairness is Pipeline's.
StartSpec ==
  /\ StartInit /\ [][StartNext]_all
  /\ WF_all(CommandStep) /\ WF_all(ResetStep) /\ Fairness

----------------------------------------------------------------------------
(* Properties *)

StartTypeOK ==
  /\ TypeOK
  /\ schemas \subseteq Schemas /\ revision \in Revisions /\ genders \in BOOLEAN
  /\ table \in [Tables -> SUBSET (Countries \cup Competitions)]
  /\ cmd \in Steps /\ attempt \in 1..MaxSeedRetries
  /\ checks \in {"skipped", "passed", "failed"} /\ interrupted \in BOOLEAN

\* After a preflight the pipeline runs on a whole database at head, whatever was
\* interrupted before.  A reset that stopped after its first DROP keeps alembic's
\* version and passes every check (the sync and main() notice); an upgrade that
\* stopped in p56a passes them too (the migrations that always run go on).
PipelineAtHead ==
  cmd = "pipeline" /\ checks # "skipped" => schemas = Schemas /\ revision = "head"

\* What was stored is registered.  As long as the registries exist, the clubs page
\* of every stored squad is in them: nothing adds it later, the sync has no clubs
\* URL to copy.  After a preflight every players_url and national team page is in
\* them when the pipeline starts, also what an interrupted command or a script
\* stored.
StoredIsRegistered ==
  /\ "backend" \in schemas => table["squads"] \subseteq table["clubs"]
  /\ cmd = "pipeline" /\ checks # "skipped" =>
       /\ table["players_url"] \subseteq table["players_list"]
       /\ table["squads"] \cap NationalTeams \subseteq table["nat_team"]

\* Only a reset that did not return leaves a migrated database without genders,
\* where no competition can be stored and nothing inserts them again.
GendersKept == revision # "none" /\ ~genders => interrupted

\* The state of the database and of the command, with its genders.
DatabaseInv == StartTypeOK /\ GendersKept

\* Every command ends: the retries of the seeding are bounded, no step waits, and
\* in the pipeline the two events, the reseeder and the workers never wait for each
\* other.  Excepted is a main() whose trigger is lost: the watcher died of its query,
\* or every step-2 worker returned before the trigger count was reached; then only
\* Ctrl+C ends it.
CommandEnds == (cmd # "idle") ~> (cmd = "idle" \/ TriggerLost)
=============================================================================
