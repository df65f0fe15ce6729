------------------------------ MODULE Seeding ------------------------------
(***************************************************************************)
(* The database the players command starts from: its schemas, its alembic  *)
(* revision, and the tables that one page of the site fills each (the      *)
(* scrapers countries, country_squads, country_players and competitions    *)
(* with their repositories), with the URL registries they co-insert into.  *)
(*                                                                         *)
(* A table is the set of its keys.  A page is stored in one transaction.   *)
(* The flag of a country is stored with it, as is every confederation.     *)
(***************************************************************************)
EXTENDS PipelineConstants

CONSTANTS
  Competitions,    \* what /en/comps/ lists
  HostOf,          \* the country of a competition, or None
  NationalTeams    \* countries with a national team URL

ASSUME SeedingAssumption ==
  /\ HostOf \in [Competitions -> Countries \cup {None}]
  /\ NationalTeams \subseteq Countries

VARIABLES
  schemas,    \* the schemas that exist
  revision,   \* alembic_version
  genders,    \* tbl_gender has its two rows
  table       \* the keys in each table

database == <<schemas, revision, genders, table>>

Schemas == {"backend", "infra", "shared", "football"}
Registries == {"clubs", "nat_team", "players_list", "index"}
Tables == {"countries", "players_url", "squads", "competitions"} \cup Registries
Pages == {"countries", "squads", "players_url", "competitions"}
Revisions == {"none", "p55a", "head"}

Empty(tables) == [t \in Tables |-> IF t \in tables THEN {} ELSE table[t]]

----------------------------------------------------------------------------
(* core/preflight *)

\* Every table the phase reads exists at each revision this model distinguishes.
CheckAlembic == "infra" \in schemas /\ revision # "none"
CheckSchemas == {"infra", "shared"} \subseteq schemas
CheckTables == {"infra", "shared"} \subseteq schemas /\ revision \in {"p55a", "head"}
\* The first check that fails ends run_checks.  None looks at the backend schema.
ChecksPass == CheckAlembic /\ CheckSchemas /\ CheckTables

\* alembic upgrade heads runs all revisions in one transaction, but for the
\* autocommit block of p56a, which commits what comes before it.  The blocks of
\* p51a, p53a and p55a do the same; no table the phase reads, no schema and no
\* gender changes from p50a to p55a, which stands for them all.
UpgradeTo(rev) ==
  /\ revision' = rev
  /\ IF revision = "none"
     THEN schemas' = Schemas /\ genders' = TRUE /\ table' = Empty(Tables)
     ELSE UNCHANGED <<schemas, genders, table>>

----------------------------------------------------------------------------
(* The pages *)

\* What a page yields.  A row without its link, its code or a valid value is
\* skipped; on /en/comps/ also every section without its heading or its table.
CountriesParsed == SUBSET Countries
SquadsParsed == SUBSET Countries
CountryPlayersParsed == SUBSET Countries
CompetitionsParsed == SUBSET Competitions

Parsed(page) ==
  CASE page = "countries"    -> CountriesParsed
    [] page = "squads"       -> SquadsParsed
    [] page = "players_url"  -> CountryPlayersParsed
    [] page = "competitions" -> CompetitionsParsed

\* Whether the command fetches the page: a table without a row, or a country
\* without a players_url.
Needed(page) ==
  IF page = "players_url" THEN table["countries"] \ table["players_url"] # {} ELSE table[page] = {}

\* The database refuses the rows: a foreign key without its row, no gender.
CompetitionRefused(k) == ~genders \/ HostOf[k] \notin table["countries"] \cup {None}
Refused(page, rows) ==
  \/ page = "squads" /\ ~(rows \subseteq table["countries"])
  \/ page = "competitions" /\ \E k \in rows : CompetitionRefused(k)

\* The table after a page.  players_url is an UPDATE of the countries there are.
CountriesStored(rows) == [table EXCEPT !["countries"] = @ \cup rows]
PlayersUrlsStored(rows) == [table EXCEPT !["players_url"] = @ \cup (rows \cap table["countries"])]

\* Mutant: the co-insert is left to the preflight's sync.
SquadsStored_WithoutUrls(rows) == [table EXCEPT !["squads"] = @ \cup rows]
\* The registries are filled in the same transaction.
SquadsStored(rows) ==
  IF rows = {} THEN table
  ELSE [table EXCEPT !["squads"] = @ \cup rows, !["clubs"] = @ \cup rows,
                     !["nat_team"] = @ \cup ((table["squads"] \cup rows) \cap NationalTeams)]
CompetitionsStored(rows) == [table EXCEPT !["competitions"] = @ \cup rows, !["index"] = @ \cup rows]

Stored(page, rows) ==
  CASE page = "countries"    -> CountriesStored(rows)
    [] page = "squads"       -> SquadsStored(rows)
    [] page = "players_url"  -> PlayersUrlsStored(rows)
    [] page = "competitions" -> CompetitionsStored(rows)

CoInserts(page, rows) == page \in {"squads", "competitions"} /\ rows # {}

\* The page is stored, registries included.
Stores(page, rows) ==
  /\ ~Refused(page, rows) /\ (CoInserts(page, rows) => "backend" \in schemas)
  /\ table' = Stored(page, rows)
  /\ UNCHANGED <<schemas, revision, genders>>

\* The co-insert fails and its error is caught, which leaves the transaction
\* aborted: the commit that follows rolls it back and reports success.  For a
\* competition that is not the last the next statement raises.
LosesPage(page, rows) ==
  /\ ~Refused(page, rows) /\ CoInserts(page, rows)
  /\ page = "competitions" /\ "backend" \notin schemas => Cardinality(rows) = 1
  /\ UNCHANGED database

\* RepositoryError, which the command does not catch.
Raises(page, rows) ==
  /\ Refused(page, rows) \/ (page = "competitions" /\ Cardinality(rows) > 1)
  /\ UNCHANGED database

----------------------------------------------------------------------------
(* backfill_backend_urls.sync_preflight: ON CONFLICT DO NOTHING, a commit each *)

SyncCountryUrls ==
  /\ table' = [table EXCEPT !["players_list"] = @ \cup table["players_url"]]
  /\ UNCHANGED <<schemas, revision, genders>>
SyncSquadUrls ==
  /\ table' = [table EXCEPT !["nat_team"] = @ \cup (table["squads"] \cap NationalTeams)]
  /\ UNCHANGED <<schemas, revision, genders>>
=============================================================================
