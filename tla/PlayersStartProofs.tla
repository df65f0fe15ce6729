-------------------------- MODULE PlayersStartProofs --------------------------
(***************************************************************************)
(* The invariants of PlayersStart, for any countries, players, workers,    *)
(* competitions, trigger count and number of seeding attempts.             *)
(***************************************************************************)
EXTENDS PlayersStart, TLAPS

----------------------------------------------------------------------------
(* Types of the pipeline *)

\* The drain gives a PENDING row to every player without one, and only to them.
LEMMA DrainSeeds ==
  ASSUME row \in [Players -> {"ABSENT", "PENDING", "IN_PROGRESS", "DONE", "FAILED"}], Drain
  PROVE  /\ row' \in [Players -> {"ABSENT", "PENDING", "IN_PROGRESS", "DONE", "FAILED"}]
         /\ \A p \in players \cap Players : row'[p] # "ABSENT"
<1>1. \A p \in Players : row'[p] = IF p \in players /\ row[p] = "ABSENT" THEN "PENDING" ELSE row[p]
  BY DEF Drain, Enqueued
<1>2. row' \in [Players -> {"ABSENT", "PENDING", "IN_PROGRESS", "DONE", "FAILED"}]
  BY DEF Drain, Enqueued
<1> QED BY <1>1, <1>2

LEMMA RunsKeepsType ==
  ASSUME TypeOK, Runs
  PROVE  TypeOK'
<1> USE DEF TypeOK
<1>1. CASE \E w \in Step2Workers : Step2(w) \/ ScrapeCountry(w) \/ CountryFails(w) \/ CountryInDoubt(w)
  <2>1. PICK w \in Step2Workers : Step2(w) \/ ScrapeCountry(w) \/ CountryFails(w) \/ CountryInDoubt(w)
    BY <1>1
  <2>2. ASSUME NEW c \in Countries, ClaimCountry(w, c) PROVE TypeOK'
    BY <2>2 DEF ClaimCountry
  <2>3. CASE Step2Exit(w)
    BY <2>3 DEF Step2Exit
  <2>4. CASE ScrapeCountry(w)
    <3>1. step2[w] \in Countries /\ players' \subseteq Players
      BY <2>4, PlayersAssumption DEF ScrapeCountry, FindsPlayers
    <3> QED BY <2>4, <3>1 DEF ScrapeCountry
  <2>5. CASE CountryFails(w)
    BY <2>5 DEF CountryFails
  <2>6. CASE CountryInDoubt(w)
    <3>1. step2[w] \in Countries /\ players' \subseteq Players
      BY <2>6, PlayersAssumption, DoubtfulAssumption DEF CountryInDoubt, FindsPlayers
    <3> QED BY <2>6, <3>1 DEF CountryInDoubt
  <2> QED BY <2>1, <2>2, <2>3, <2>4, <2>5, <2>6 DEF Step2
<1>2. CASE \E w \in Step3Workers : Step3(w) \/ SettleForGood(w) \/ Settle(w, "PENDING") \/ Settle(w, "IN_PROGRESS")
  <2>1. PICK w \in Step3Workers : Step3(w) \/ SettleForGood(w) \/ Settle(w, "PENDING") \/ Settle(w, "IN_PROGRESS")
    BY <1>2
  <2>2. ASSUME NEW p \in Players, ClaimPlayer(w, p) PROVE TypeOK'
    BY <2>2 DEF ClaimPlayer
  <2>3. CASE Step3Exit(w)
    BY <2>3 DEF Step3Exit
  <2>4. ASSUME NEW status \in {"PENDING", "IN_PROGRESS", "DONE", "FAILED"}, Settle(w, status) PROVE TypeOK'
    BY <2>4 DEF Settle
  <2> QED BY <2>1, <2>2, <2>3, <2>4 DEF Step3, SettleForGood
<1>3. CASE Trigger \/ WatcherDies \/ ReseederDies \/ TeamsOver
  BY <1>3 DEF Trigger, WatcherDies, ReseederDies, TeamsOver
<1>4. CASE Reseed \/ FinalReseed
  BY <1>4, DrainSeeds DEF Reseed, FinalReseed
<1>5. CASE ReseedCheck
  BY <1>5 DEF ReseedCheck
<1>6. CASE StartStep3
  BY <1>6 DEF StartStep3, Enqueued, Recovered
<1>7. CASE Step2Over \/ ReseederOver \/ Step3Over \/ Step1Over
  BY <1>7 DEF Step2Over, ReseederOver, Step3Over, Step1Over
<1> QED BY <1>1, <1>2, <1>3, <1>4, <1>5, <1>6, <1>7 DEF Runs, MainStep

LEMMA StartKeepsType ==
  ASSUME TypeOK, NEW wanted \in SUBSET Countries, NEW teams \in BOOLEAN, Start(wanted, teams)
  PROVE  TypeOK'
  BY DEF TypeOK, Start

LEMMA EndKeepsType ==
  ASSUME TypeOK, ProcessEnds
  PROVE  TypeOK'
  BY DEF TypeOK, ProcessEnds

----------------------------------------------------------------------------
(* Types of the database and of the command *)

DatabaseOK ==
  /\ schemas \subseteq Schemas /\ revision \in Revisions /\ genders \in BOOLEAN
  /\ table \in [Tables -> SUBSET (Countries \cup Competitions)]

CommandOK ==
  /\ cmd \in Steps /\ attempt \in 1..MaxSeedRetries
  /\ checks \in {"skipped", "passed", "failed"} /\ interrupted \in BOOLEAN

LEMMA GoesKeepsType ==
  ASSUME CommandOK, NEW step \in Steps, Goes(step)
  PROVE  CommandOK'
  BY RetriesAssumption DEF CommandOK, Goes

LEMMA EmptyType ==
  ASSUME DatabaseOK, NEW tables \in SUBSET Tables
  PROVE  Empty(tables) \in [Tables -> SUBSET (Countries \cup Competitions)]
  BY DEF DatabaseOK, Empty

LEMMA UpgradeKeepsType ==
  ASSUME DatabaseOK, NEW rev \in Revisions, UpgradeTo(rev)
  PROVE  DatabaseOK'
  BY EmptyType DEF DatabaseOK, UpgradeTo

LEMMA StoredType ==
  ASSUME DatabaseOK, NEW page \in Pages, NEW rows \in Parsed(page)
  PROVE  Stored(page, rows) \in [Tables -> SUBSET (Countries \cup Competitions)]
<1> USE DEF DatabaseOK, Stored, Parsed, Tables, Registries
<1>1. CASE page = "countries"
  BY <1>1 DEF CountriesStored, CountriesParsed
<1>2. CASE page = "squads"
  BY <1>2, SeedingAssumption DEF SquadsStored, SquadsParsed
<1>3. CASE page = "players_url"
  BY <1>3 DEF PlayersUrlsStored, CountryPlayersParsed
<1>4. CASE page = "competitions"
  BY <1>4 DEF CompetitionsStored, CompetitionsParsed
<1> QED BY <1>1, <1>2, <1>3, <1>4 DEF Pages

LEMMA StoresKeepsType ==
  ASSUME DatabaseOK, NEW page \in Pages, NEW rows \in Parsed(page), Stores(page, rows)
  PROVE  DatabaseOK'
  BY StoredType DEF DatabaseOK, Stores

LEMMA AfterType ==
  ASSUME NEW page \in Pages
  PROVE  After[page] \in {"squads", "players_url", "competitions", "sync countries"}
  BY DEF After, Pages

LEMMA CommandKeepsType ==
  ASSUME TypeOK, DatabaseOK, CommandOK, CommandStep
  PROVE  TypeOK' /\ DatabaseOK' /\ CommandOK'
<1> USE DEF Only, Steps, Pages
<1>1. /\ UNCHANGED vars => TypeOK'
      /\ UNCHANGED database => DatabaseOK'
  BY DEF vars, TypeOK, database, DatabaseOK
<1>2. CASE RunChecks
  <2>1. CommandOK'
    BY <1>2 DEF RunChecks, CommandOK
  <2> QED BY <1>1, <1>2, <2>1 DEF RunChecks
<1>3. CASE RunMigrations
  BY <1>1, <1>3, UpgradeKeepsType, GoesKeepsType DEF RunMigrations, Revisions
<1>4. ASSUME NEW page \in Pages, Skip(page) \/ Seed(page) PROVE TypeOK' /\ DatabaseOK' /\ CommandOK'
  <2>1. UNCHANGED vars /\ Goes(After[page])
    BY <1>4 DEF Skip, Seed
  <2>2. CommandOK'
    BY <2>1, AfterType, GoesKeepsType
  <2>3. UNCHANGED database \/ \E rows \in Parsed(page) : Stores(page, rows)
    BY <1>4 DEF Skip, Seed, LosesPage
  <2> QED BY <1>1, <2>1, <2>2, <2>3, StoresKeepsType
<1>5. ASSUME NEW page \in Pages, SeedRaises(page) PROVE TypeOK' /\ DatabaseOK' /\ CommandOK'
  BY <1>1, <1>5, GoesKeepsType DEF SeedRaises
<1>6. ASSUME NEW page \in Pages, SeedFails(page) PROVE TypeOK' /\ DatabaseOK' /\ CommandOK'
  <2>1. CASE attempt < MaxSeedRetries
    <3>1. attempt' = attempt + 1 /\ UNCHANGED <<cmd, checks, interrupted>>
      BY <1>6, <2>1 DEF SeedFails, Goes
    <3>2. attempt + 1 \in 1..MaxSeedRetries
      <4>1. attempt \in 1..MaxSeedRetries /\ MaxSeedRetries \in Nat
        BY RetriesAssumption DEF CommandOK
      <4> QED BY <2>1, <4>1
    <3>3. CommandOK'
      BY <3>1, <3>2 DEF CommandOK
    <3> QED BY <1>1, <1>6, <3>3 DEF SeedFails
  <2>2. CASE ~(attempt < MaxSeedRetries)
    BY <1>1, <1>6, <2>2, GoesKeepsType DEF SeedFails
  <2> QED BY <2>1, <2>2
<1>7. CASE SyncCountries \/ SyncSquads
  <2>1. UNCHANGED vars /\ CommandOK'
    BY <1>7, GoesKeepsType DEF SyncCountries, SyncSquads
  <2>2. DatabaseOK'
    BY <1>7 DEF SyncCountries, SyncSquads, SyncCountryUrls, SyncSquadUrls, DatabaseOK, Tables, Registries
  <2> QED BY <1>1, <2>1, <2>2
<1>8. CASE Verdict
  BY <1>1, <1>8, GoesKeepsType DEF Verdict
<1>9. CASE Launch
  <2>1. \/ Goes("idle") /\ UNCHANGED vars
        \/ \E wanted \in SUBSET Countries, teams \in BOOLEAN : Goes("pipeline") /\ Start(wanted, teams)
    BY <1>9 DEF Launch
  <2>2. CommandOK'
    BY <2>1, GoesKeepsType
  <2>3. TypeOK'
    BY <1>1, <2>1, StartKeepsType
  <2> QED BY <1>1, <1>9, <2>2, <2>3 DEF Launch
<1>10. CASE Return
  BY <1>1, <1>10, EndKeepsType, GoesKeepsType DEF Return
<1>11. CASE MissingTable
  BY <1>1, <1>11, GoesKeepsType DEF MissingTable
<1> QED BY <1>2, <1>3, <1>4, <1>5, <1>6, <1>7, <1>8, <1>9, <1>10, <1>11 DEF CommandStep

LEMMA ResetKeepsType ==
  ASSUME TypeOK, DatabaseOK, CommandOK, ResetStep
  PROVE  TypeOK' /\ DatabaseOK' /\ CommandOK'
<1> USE DEF Steps
<1>1. UNCHANGED vars => TypeOK'
  BY DEF vars, TypeOK
<1>2. /\ Empty(Registries) \in [Tables -> SUBSET (Countries \cup Competitions)]
      /\ Empty(Tables \ Registries) \in [Tables -> SUBSET (Countries \cup Competitions)]
  BY EmptyType DEF Tables
<1>3. CASE DropBackend
  <2>1. CommandOK'
    BY <1>3, GoesKeepsType DEF DropBackend
  <2> QED BY <1>1, <1>2, <1>3, <2>1 DEF DropBackend, Drops, DatabaseOK
<1>4. CASE DropInfra
  <2>1. CommandOK'
    BY <1>4, GoesKeepsType DEF DropInfra
  <2>2. TypeOK'
    BY <1>4 DEF DropInfra, TypeOK
  <2> QED BY <1>4, <2>1, <2>2 DEF DropInfra, Drops, DatabaseOK, Revisions
<1>5. CASE DropShared
  <2>1. CommandOK'
    BY <1>5, GoesKeepsType DEF DropShared
  <2>2. TypeOK'
    BY <1>5 DEF DropShared, TypeOK
  <2> QED BY <1>2, <1>5, <2>1, <2>2 DEF DropShared, Drops, DatabaseOK
<1>6. CASE DropFootball \/ Bootstrap
  <2>1. CommandOK' /\ UNCHANGED vars
    BY <1>6, GoesKeepsType DEF DropFootball, Bootstrap
  <2> QED BY <1>1, <1>6, <2>1 DEF DropFootball, Bootstrap, Drops, DatabaseOK, Schemas
<1>7. CASE Upgrade \/ FinishUpgrade
  <2>1. UNCHANGED vars /\ \E step \in {"finish upgrade", "truncate"} : Goes(step)
    BY <1>7 DEF Upgrade, FinishUpgrade
  <2>2. CommandOK'
    BY <2>1, GoesKeepsType DEF Steps
  <2>3. \E rev \in {"p55a", "head"} : UpgradeTo(rev)
    BY <1>7 DEF Upgrade, FinishUpgrade
  <2>4. DatabaseOK'
    BY <2>3, UpgradeKeepsType DEF Revisions
  <2> QED BY <1>1, <2>1, <2>2, <2>4
<1>8. CASE Truncate
  <2>1. CommandOK'
    BY <1>8, GoesKeepsType DEF Truncate
  <2> QED BY <1>1, <1>8, <2>1 DEF Truncate, DatabaseOK
<1>9. CASE InsertGenders
  BY <1>1, <1>9 DEF InsertGenders, DatabaseOK, CommandOK
<1> QED BY <1>3, <1>4, <1>5, <1>6, <1>7, <1>8, <1>9 DEF ResetStep

LEMMA TypeStep ==
  ASSUME TypeOK, DatabaseOK, CommandOK, [StartNext]_all
  PROVE  TypeOK' /\ DatabaseOK' /\ CommandOK'
<1>1. /\ UNCHANGED vars => TypeOK'
      /\ UNCHANGED database => DatabaseOK'
      /\ UNCHANGED command => CommandOK'
  <2>1. UNCHANGED vars => TypeOK'
    BY DEF vars, TypeOK
  <2>2. UNCHANGED database => DatabaseOK'
    BY DEF database, DatabaseOK
  <2>3. UNCHANGED command => CommandOK'
    BY DEF command, CommandOK
  <2> QED BY <2>1, <2>2, <2>3
<1>2. CASE StartCommand \/ Reset
  <2>1. CommandOK'
    BY <1>2 DEF StartCommand, Reset, CommandOK, Steps
  <2> QED BY <1>1, <1>2, <2>1 DEF StartCommand, Reset
<1>3. CASE CommandStep
  BY <1>3, CommandKeepsType
<1>4. CASE ResetStep
  BY <1>4, ResetKeepsType
<1>5. CASE Interrupt
  <2>1. CommandOK'
    BY <1>5, GoesKeepsType DEF Interrupt, Steps
  <2> QED BY <1>1, <1>5, <2>1, EndKeepsType DEF Interrupt
<1>6. ASSUME NEW page \in {"countries", "squads"}, ScrapePage(page)
      PROVE  TypeOK' /\ DatabaseOK' /\ CommandOK'
  <2>1. PICK rows \in Parsed(page) : Stores(page, rows)
    BY <1>6 DEF ScrapePage
  <2>2. DatabaseOK'
    BY <2>1, StoresKeepsType DEF Pages
  <2> QED BY <1>1, <1>6, <2>2 DEF ScrapePage
<1>7. CASE Runs /\ UNCHANGED <<database, command>>
  BY <1>1, <1>7, RunsKeepsType
<1>8. CASE UNCHANGED all
  BY <1>1, <1>8 DEF all
<1> QED BY <1>2, <1>3, <1>4, <1>5, <1>6, <1>7, <1>8 DEF StartNext

----------------------------------------------------------------------------
(* The reset and the schemas *)

ResetCmds == {"drop backend", "drop infra", "drop shared", "drop football",
              "bootstrap", "upgrade", "finish upgrade", "truncate", "insert genders"}

\* The backend schema is the first to go and comes back with the others; a
\* reset that is under way has not returned.
ResetInv ==
  /\ GendersKept
  /\ cmd \in ResetCmds => interrupted
  /\ "backend" \in schemas => schemas = Schemas
  /\ cmd \in {"drop infra", "drop shared", "drop football", "bootstrap"} => "backend" \notin schemas

\* From the verdict on the checks to the pipeline.
PreflightCmds == Pages \cup {"sync countries", "sync squads", "verdict", "launch", "pipeline"}

PreflightInv ==
  /\ checks = "passed" /\ cmd \in PreflightCmds => revision = "head"
  /\ cmd \in {"launch", "pipeline"} => checks # "failed"
  /\ cmd = "pipeline" => "backend" \in schemas

\* Each registry is filled from its sync on, and by the page of the squads.
RegisterInv ==
  /\ "backend" \in schemas => table["squads"] \subseteq table["clubs"]
  /\ cmd \in {"sync squads", "verdict"} \/ (cmd \in {"launch", "pipeline"} /\ checks # "skipped") =>
       table["players_url"] \subseteq table["players_list"]
  /\ cmd = "verdict" \/ (cmd \in {"launch", "pipeline"} /\ checks # "skipped") =>
       table["squads"] \cap NationalTeams \subseteq table["nat_team"]

StoredInv == ResetInv /\ PreflightInv /\ RegisterInv

LEMMA UpgradeSchemas ==
  ASSUME DatabaseOK, StoredInv, NEW rev \in {"p55a", "head"}, UpgradeTo(rev)
  PROVE  /\ revision' = rev
         /\ schemas' = Schemas \/ UNCHANGED schemas
         /\ genders' = TRUE \/ (UNCHANGED genders /\ revision # "none")
         /\ "backend" \in schemas' => table'["squads"] \subseteq table'["clubs"]
<1>1. CASE revision = "none"
  <2>1. table' = Empty(Tables) /\ schemas' = Schemas /\ genders' = TRUE /\ revision' = rev
    BY <1>1 DEF UpgradeTo
  <2>2. table'["squads"] = {}
    BY <2>1 DEF Empty, Tables, Registries
  <2> QED BY <2>1, <2>2
<1>2. CASE revision # "none"
  BY <1>2 DEF UpgradeTo, StoredInv, RegisterInv
<1> QED BY <1>1, <1>2

LEMMA StoresRegisters ==
  ASSUME DatabaseOK, StoredInv, NEW page \in Pages, NEW rows \in Parsed(page), Stores(page, rows)
  PROVE  "backend" \in schemas' => table'["squads"] \subseteq table'["clubs"]
<1> USE DEF DatabaseOK, StoredInv, RegisterInv, Stores, Stored, Tables, Registries
<1>1. CASE page = "squads"
  BY <1>1 DEF SquadsStored
<1>2. CASE page = "countries"
  BY <1>2 DEF CountriesStored
<1>3. CASE page = "players_url"
  BY <1>3 DEF PlayersUrlsStored
<1>4. CASE page = "competitions"
  BY <1>4 DEF CompetitionsStored
<1> QED BY <1>1, <1>2, <1>3, <1>4 DEF Pages

\* A step of the command towards the pipeline that leaves the database alone.
LEMMA OnlyStored ==
  ASSUME StoredInv, UNCHANGED <<database, interrupted>>, cmd' \notin ResetCmds,
         cmd' \notin PreflightCmds \/ (checks' = "failed" /\ cmd' \in Pages)
  PROVE  StoredInv'
  BY DEF StoredInv, ResetInv, GendersKept, PreflightInv, RegisterInv, database, PreflightCmds, ResetCmds, Pages

LEMMA CommandStored ==
  ASSUME DatabaseOK, CommandOK, StoredInv, CommandStep
  PROVE  StoredInv'
<1> USE DEF Goes, Only, database, ResetCmds
<1>1. CASE RunChecks
  BY <1>1 DEF RunChecks, StoredInv, ResetInv, GendersKept, PreflightInv, RegisterInv, PreflightCmds, Pages
<1>2. CASE RunMigrations
  <2>1. /\ revision' = "head" /\ cmd' = "countries" /\ UNCHANGED interrupted
        /\ schemas' = Schemas \/ UNCHANGED schemas
        /\ genders' = TRUE \/ (UNCHANGED genders /\ revision # "none")
        /\ "backend" \in schemas' => table'["squads"] \subseteq table'["clubs"]
    BY <1>2, UpgradeSchemas DEF RunMigrations
  <2>2. ResetInv'
    <3>1. GendersKept'
      <4>1. CASE genders' = TRUE
        BY <4>1 DEF GendersKept
      <4>2. CASE UNCHANGED <<genders, interrupted>> /\ revision # "none"
        BY <4>2 DEF StoredInv, ResetInv, GendersKept
      <4> QED BY <2>1, <4>1, <4>2
    <3>2. ("backend" \in schemas => schemas = Schemas)'
      BY <2>1 DEF StoredInv, ResetInv
    <3> QED BY <2>1, <3>1, <3>2 DEF ResetInv
  <2>3. PreflightInv' /\ RegisterInv'
    BY <2>1 DEF PreflightInv, RegisterInv
  <2> QED BY <2>2, <2>3 DEF StoredInv
<1>3. ASSUME NEW page \in Pages, Skip(page) \/ Seed(page) PROVE StoredInv'
  <2>1. /\ cmd \in Pages /\ cmd' = After[page] /\ UNCHANGED <<checks, interrupted, schemas, revision, genders>>
        /\ UNCHANGED table \/ \E rows \in Parsed(page) : Stores(page, rows)
    BY <1>3, AfterType DEF Skip, Seed, LosesPage, Stores
  <2>2. cmd' \in {"squads", "players_url", "competitions", "sync countries"}
    BY <2>1, AfterType
  <2>3. "backend" \in schemas' => table'["squads"] \subseteq table'["clubs"]
    BY <2>1, StoresRegisters DEF StoredInv, RegisterInv
  <2> QED BY <2>1, <2>2, <2>3 DEF StoredInv, ResetInv, GendersKept, PreflightInv, RegisterInv, PreflightCmds, Pages
<1>4. ASSUME NEW page \in Pages, SeedRaises(page) PROVE StoredInv'
  BY <1>4, OnlyStored DEF SeedRaises, PreflightCmds, Pages
<1>5. ASSUME NEW page \in Pages, SeedFails(page) PROVE StoredInv'
  <2>1. CASE UNCHANGED <<cmd, checks, interrupted, database>>
    BY <2>1 DEF StoredInv, ResetInv, GendersKept, PreflightInv, RegisterInv
  <2>2. CASE Only("idle")
    BY <2>2, OnlyStored DEF PreflightCmds, Pages
  <2> QED BY <1>5, <2>1, <2>2 DEF SeedFails
<1>6. CASE SyncCountries
  <2>1. /\ cmd = "sync countries" /\ cmd' = "sync squads"
        /\ UNCHANGED <<checks, interrupted, schemas, revision, genders>>
        /\ table' = [table EXCEPT !["players_list"] = @ \cup table["players_url"]]
    BY <1>6 DEF SyncCountries, SyncCountryUrls
  <2>2. /\ table'["players_url"] \subseteq table'["players_list"]
        /\ table'["squads"] = table["squads"] /\ table'["clubs"] = table["clubs"]
    BY <2>1 DEF DatabaseOK, Tables, Registries
  <2> QED BY <2>1, <2>2 DEF StoredInv, ResetInv, GendersKept, PreflightInv, RegisterInv, PreflightCmds
<1>7. CASE SyncSquads
  <2>1. /\ cmd = "sync squads" /\ cmd' = "verdict"
        /\ UNCHANGED <<checks, interrupted, schemas, revision, genders>>
        /\ table' = [table EXCEPT !["nat_team"] = @ \cup (table["squads"] \cap NationalTeams)]
    BY <1>7 DEF SyncSquads, SyncSquadUrls
  <2>2. /\ table'["squads"] \cap NationalTeams \subseteq table'["nat_team"]
        /\ table'["squads"] = table["squads"] /\ table'["clubs"] = table["clubs"]
        /\ table'["players_url"] = table["players_url"] /\ table'["players_list"] = table["players_list"]
    BY <2>1 DEF DatabaseOK, Tables, Registries
  <2> QED BY <2>1, <2>2 DEF StoredInv, ResetInv, GendersKept, PreflightInv, RegisterInv, PreflightCmds
<1>8. CASE Verdict
  <2>1. CASE checks = "failed"
    BY <1>8, <2>1, OnlyStored DEF Verdict, PreflightCmds, Pages
  <2>2. CASE checks # "failed"
    BY <1>8, <2>2 DEF Verdict, StoredInv, ResetInv, GendersKept, PreflightInv, RegisterInv, PreflightCmds
  <2> QED BY <2>1, <2>2
<1>9. CASE Launch
  <2>1. CASE cmd' = "idle"
    BY <1>9, <2>1, OnlyStored DEF Launch, PreflightCmds, Pages
  <2>2. CASE cmd' = "pipeline"
    BY <1>9, <2>2 DEF Launch, StoredInv, ResetInv, GendersKept, PreflightInv, RegisterInv, PreflightCmds
  <2> QED BY <1>9, <2>1, <2>2 DEF Launch
<1>10. CASE Return \/ MissingTable
  BY <1>10, OnlyStored DEF Return, MissingTable, PreflightCmds, Pages
<1> QED BY <1>1, <1>2, <1>3, <1>4, <1>5, <1>6, <1>7, <1>8, <1>9, <1>10 DEF CommandStep

LEMMA ResetStored ==
  ASSUME DatabaseOK, CommandOK, StoredInv, ResetStep
  PROVE  StoredInv'
<1> USE DEF Goes, StoredInv, ResetInv, GendersKept, PreflightInv, RegisterInv, ResetCmds, PreflightCmds, Pages
<1>1. CASE DropBackend
  BY <1>1 DEF DropBackend, Drops
<1>2. CASE DropInfra
  BY <1>2 DEF DropInfra, Drops
<1>3. CASE DropShared
  BY <1>3 DEF DropShared, Drops
<1>4. CASE DropFootball
  BY <1>4 DEF DropFootball, Drops
<1>5. CASE Bootstrap
  BY <1>5 DEF Bootstrap
<1>6. CASE Upgrade \/ FinishUpgrade
  <2>1. PICK rev \in {"p55a", "head"} : UpgradeTo(rev) /\ cmd' \in {"finish upgrade", "truncate"} /\ UNCHANGED interrupted
                                        /\ cmd \in {"upgrade", "finish upgrade"}
    BY <1>6 DEF Upgrade, FinishUpgrade
  <2>2. /\ schemas' = Schemas \/ UNCHANGED schemas
        /\ "backend" \in schemas' => table'["squads"] \subseteq table'["clubs"]
    BY <2>1, UpgradeSchemas
  <2> QED BY <2>1, <2>2
<1>7. CASE Truncate
  BY <1>7 DEF Truncate
<1>8. CASE InsertGenders
  BY <1>8 DEF InsertGenders
<1> QED BY <1>1, <1>2, <1>3, <1>4, <1>5, <1>6, <1>7, <1>8 DEF ResetStep

LEMMA StoredStep ==
  ASSUME DatabaseOK, CommandOK, StoredInv, [StartNext]_all
  PROVE  StoredInv'
<1>1. CASE UNCHANGED <<database, command>>
  BY <1>1 DEF database, command, StoredInv, ResetInv, GendersKept, PreflightInv, RegisterInv
<1>2. CASE StartCommand
  BY <1>2 DEF StartCommand, database, StoredInv, ResetInv, GendersKept, PreflightInv, RegisterInv, ResetCmds, PreflightCmds, Pages
<1>3. CASE Reset
  BY <1>3 DEF Reset, database, StoredInv, ResetInv, GendersKept, PreflightInv, RegisterInv, ResetCmds, PreflightCmds, Pages
<1>4. CASE CommandStep
  BY <1>4, CommandStored
<1>5. CASE ResetStep
  BY <1>5, ResetStored
<1>6. CASE Interrupt
  BY <1>6, OnlyStored DEF Interrupt, Goes, ResetCmds, PreflightCmds, Pages
<1>7. ASSUME NEW page \in {"countries", "squads"}, ScrapePage(page) PROVE StoredInv'
  <2>1. PICK rows \in Parsed(page) : Stores(page, rows)
    BY <1>7 DEF ScrapePage
  <2>2. cmd = "idle" /\ UNCHANGED command /\ UNCHANGED <<schemas, revision, genders>>
    BY <1>7, <2>1 DEF ScrapePage, Stores
  <2>3. "backend" \in schemas' => table'["squads"] \subseteq table'["clubs"]
    BY <2>1, StoresRegisters DEF Pages
  <2> QED BY <2>2, <2>3 DEF command, StoredInv, ResetInv, GendersKept, PreflightInv, RegisterInv
<1> QED BY <1>1, <1>2, <1>3, <1>4, <1>5, <1>6, <1>7 DEF StartNext, all

----------------------------------------------------------------------------
(* The order of the pipeline's steps *)

Over == {"reseeder", "step 3", "step 1", "returned", "raised"}

AllSeeded == \A p \in players : row[p] # "ABSENT"

\* Step 2 is over, and with it the growth of players, before main() waits for
\* the reseeder; the reseeder cannot have returned before that, because it ends
\* with the drain that follows step2_done.
OrderInv ==
  /\ main # "none" => cmd = "pipeline"
  /\ main = "trigger" => ~done /\ reseeder = "none"
  /\ main = "step 2" => ~done /\ reseeder \in {"checking", "sleeping", "dead"}
  /\ main \in Over => \A w \in Step2Workers : step2[w] = "exited"
  /\ main \in Over /\ reseeder = "returned" => AllSeeded
  /\ main \in {"step 3", "step 1", "returned"} => reseeder = "returned"

LEMMA RunsOrder ==
  ASSUME TypeOK, OrderInv, Runs, cmd = "pipeline", UNCHANGED cmd
  PROVE  OrderInv'
<1> USE DEF TypeOK, OrderInv, Over, AllSeeded
<1>1. CASE \E w \in Step2Workers : Step2(w) \/ ScrapeCountry(w) \/ CountryFails(w) \/ CountryInDoubt(w)
  <2>1. PICK w \in Step2Workers : Step2(w) \/ ScrapeCountry(w) \/ CountryFails(w) \/ CountryInDoubt(w)
    BY <1>1
  <2>2. step2[w] # "exited" /\ UNCHANGED <<row, done, reseeder, main>>
    BY <2>1, NoneAssumption, DoubtfulAssumption
       DEF Step2, ClaimCountry, Step2Exit, ScrapeCountry, CountryFails, CountryInDoubt
  <2>3. main \notin Over
    BY <2>2
  <2> QED BY <2>2, <2>3
<1>2. CASE \E w \in Step3Workers : Step3(w) \/ SettleForGood(w) \/ Settle(w, "PENDING") \/ Settle(w, "IN_PROGRESS")
  <2>1. /\ UNCHANGED <<players, step2, done, reseeder, main>>
        /\ UNCHANGED row \/ \E p \in Players, status \in {"IN_PROGRESS", "PENDING", "DONE", "FAILED"} :
                              row' = [row EXCEPT ![p] = status]
    BY <1>2 DEF Step3, ClaimPlayer, Step3Exit, SettleForGood, Settle
  <2>2. AllSeeded => AllSeeded'
    BY <2>1
  <2> QED BY <2>1, <2>2
<1>3. CASE Trigger \/ WatcherDies \/ TeamsOver
  <2>1. UNCHANGED <<players, row, step2, done, reseeder, main>>
    BY <1>3 DEF Trigger, WatcherDies, TeamsOver
  <2> QED BY <2>1
<1>4. CASE ReseederDies
  BY <1>4 DEF ReseederDies
<1>5. CASE Reseed \/ FinalReseed
  <2>1. AllSeeded'
    BY <1>5, DrainSeeds DEF Reseed, FinalReseed
  <2>2. /\ reseeder \in {"sleeping", "final"} /\ UNCHANGED <<step2, done, main>>
        /\ reseeder = "sleeping" => reseeder' = "checking"
    BY <1>5 DEF Reseed, FinalReseed
  <2> QED BY <2>1, <2>2
<1>6. CASE ReseedCheck
  BY <1>6 DEF ReseedCheck
<1>7. CASE StartStep3
  BY <1>7 DEF StartStep3
<1>8. CASE Step2Over \/ ReseederOver \/ Step3Over \/ Step1Over
  BY <1>8 DEF Step2Over, ReseederOver, Step3Over, Step1Over
<1> QED BY <1>1, <1>2, <1>3, <1>4, <1>5, <1>6, <1>7, <1>8 DEF Runs, MainStep

LEMMA OrderStep ==
  ASSUME TypeOK, OrderInv, [StartNext]_all
  PROVE  OrderInv'
<1> USE DEF OrderInv, Over, AllSeeded
<1>1. CASE UNCHANGED vars /\ (cmd # "pipeline" \/ cmd' = "pipeline")
  BY <1>1 DEF vars
<1>2. ASSUME main' = "none" PROVE OrderInv'
  BY <1>2
<1>3. ASSUME NEW wanted, NEW teams, Start(wanted, teams), cmd' = "pipeline" PROVE OrderInv'
  BY <1>3 DEF Start
<1>4. CASE ProcessEnds
  BY <1>2, <1>4 DEF ProcessEnds
<1>5. CASE CommandStep
  <2>1. CASE Launch
    BY <1>1, <1>3, <2>1 DEF Launch, Goes
  <2>2. CASE Return
    BY <1>4, <2>2 DEF Return
  <2>3. CASE ~Launch /\ ~Return
    <3>1. cmd # "pipeline" /\ UNCHANGED vars
      BY <1>5, <2>3
         DEF CommandStep, RunChecks, RunMigrations, Skip, Seed, SeedRaises, SeedFails, SyncCountries, SyncSquads,
             Verdict, MissingTable, Only, Pages
    <3> QED BY <1>1, <3>1
  <2> QED BY <2>1, <2>2, <2>3
<1>6. CASE ResetStep
  <2>1. cmd # "pipeline" /\ UNCHANGED main
    BY <1>6 DEF ResetStep, DropBackend, DropInfra, DropShared, DropFootball, Bootstrap, Upgrade,
                FinishUpgrade, Truncate, InsertGenders, vars
  <2> QED BY <1>2, <2>1
<1>7. CASE Interrupt
  BY <1>1, <1>4, <1>7 DEF Interrupt
<1>8. CASE Runs /\ cmd = "pipeline" /\ UNCHANGED command
  BY <1>8, RunsOrder DEF command
<1> QED BY <1>1, <1>5, <1>6, <1>7, <1>8
        DEF StartNext, StartCommand, Reset, ScrapePage, all, command

----------------------------------------------------------------------------
(* Theorems *)

IInv == TypeOK /\ DatabaseOK /\ CommandOK /\ StoredInv /\ OrderInv

LEMMA InvInit == StartInit => IInv
<1> SUFFICES ASSUME StartInit PROVE IInv
  OBVIOUS
<1> USE DEF StartInit, Init
<1>1. TypeOK
  <2>1. players \subseteq Players
    BY TriggerAssumption
  <2>2. step2 \in [Step2Workers -> {"exited"}] /\ step3 \in [Step3Workers -> {"exited"}]
    OBVIOUS
  <2> QED BY <2>1, <2>2 DEF TypeOK
<1>2. DatabaseOK
  BY DEF DatabaseOK, Revisions
<1>3. CommandOK
  <2>1. 1 \in 1..MaxSeedRetries
    BY RetriesAssumption
  <2> QED BY <2>1 DEF CommandOK, Steps
<1>4. StoredInv
  BY DEF StoredInv, ResetInv, GendersKept, PreflightInv, RegisterInv, ResetCmds, PreflightCmds, Pages
<1>5. OrderInv
  BY DEF OrderInv, Over
<1> QED BY <1>1, <1>2, <1>3, <1>4, <1>5 DEF IInv

LEMMA InvStep == IInv /\ [StartNext]_all => IInv'
  BY TypeStep, StoredStep, OrderStep DEF IInv

LEMMA InvCorrect == StartSpec => []IInv
  BY InvInit, InvStep, PTL DEF StartSpec

\* Every state of the commands is well typed, and only a reset that did not
\* return leaves a migrated database without its genders (cli/main.py: reset).
THEOREM DatabaseCorrect == StartSpec => []DatabaseInv
<1>1. IInv => DatabaseInv
  BY DEF IInv, DatabaseOK, CommandOK, StoredInv, ResetInv, DatabaseInv, StartTypeOK
<1> QED BY <1>1, InvCorrect, PTL

\* When main() of the pipeline joins its step-3 workers every player of
\* tbl_players has a queue row: the last drain follows step2_done
\* (scrape_pipeline.py: _player_info_reseeder).
THEOREM SeededCorrect == StartSpec => []EveryPlayerSeeded
<1>1. IInv => EveryPlayerSeeded
  BY DEF IInv, OrderInv, Over, AllSeeded, EveryPlayerSeeded
<1> QED BY <1>1, InvCorrect, PTL

\* After a preflight the pipeline runs on a whole database at head, whatever
\* was interrupted before (cli/players.py: _run; cli/main.py: reset).
THEOREM AtHeadCorrect == StartSpec => []PipelineAtHead
<1>1. IInv => PipelineAtHead
  BY DEF IInv, CommandOK, StoredInv, ResetInv, PreflightInv, PreflightCmds, PipelineAtHead
<1> QED BY <1>1, InvCorrect, PTL

\* What was stored is registered: the clubs page of a squad always, the
\* players_url and the national team when the pipeline starts after a
\* preflight (squad_repository, sync_preflight of backfill_backend_urls).
THEOREM RegisteredCorrect == StartSpec => []StoredIsRegistered
<1>1. IInv => StoredIsRegistered
  BY DEF IInv, StoredInv, RegisterInv, StoredIsRegistered
<1> QED BY <1>1, InvCorrect, PTL
=============================================================================
