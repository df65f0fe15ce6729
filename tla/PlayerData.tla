----------------------------- MODULE PlayerData -----------------------------
(***************************************************************************)
(* The transaction in which a player_info worker stores a page:            *)
(* ScrapeJobProcessor.process, PlayerInfoRepository and the repositories   *)
(* of the statistics, for the workers of one process, which share the      *)
(* cache of position ids and the rows of the lookup tables.                *)
(*                                                                         *)
(* PostgreSQL: an INSERT ... ON CONFLICT DO NOTHING of a key that another  *)
(* transaction has inserted waits for its end; a foreign key sees what is  *)
(* committed or its own; a sequence never gives a number twice; one        *)
(* transaction of a cycle of waits is aborted.                             *)
(***************************************************************************)
EXTENDS Naturals, Sequences, FiniteSets

CONSTANTS
  Jobs, Workers,
  None,
  Codes,            \* position codes: rows of tbl_player_positions
  Teams, Cities,    \* lookups that are not cached
  Junk,             \* what stands in a page where a position or a link should
  Pages,            \* the pages that a profile may have
  MaxQueueRetries,  \* SCRAPING__MAX_QUEUE_RETRIES
  MaxRestarts       \* bound: restarts of the process

Tables == {"std", "shooting", "playing_time", "misc"}

\* Competitions and countries are listed in tbl_competition and tbl_countries or
\* not, or not given.
Reference == {"listed", "unlisted", "none"}

\* A row of one of the tables of statistics; Junk where there is no team's link:
\* a header, an aggregate over clubs, a season that is none.
Line == [team : Teams \cup {Junk}, comp : Reference, country : Reference]
PageSet == [positions : Seq(Codes \cup {Junk}), city : Cities \cup {None}, nation : Reference,
            club : Teams \cup {Junk, None}, rows : [Tables -> Seq(Line)]]

\* A parsed row of statistics, and what is stored of a page.
Item == [in : Tables, team : Teams, comp : Reference, country : Reference]
StoredPlayer == [ids : Seq(Nat), nation : BOOLEAN, stats : SUBSET (Tables \X Teams)]

ASSUME DataAssumption ==
  /\ None \notin Jobs \cup Codes \cup Teams \cup Cities /\ Junk \notin Codes \cup Teams \cup {None}
  /\ Codes \cap (Teams \cup Cities) = {} /\ Teams \cap Cities = {}
  /\ Item \cap (Codes \cup Teams \cup Cities \cup {None}) = {} /\ None \notin StoredPlayer
  /\ Pages \subseteq PageSet /\ MaxQueueRetries \in Nat \ {0} /\ MaxRestarts \in Nat

VARIABLES
  page,      \* the page of each player
  queue,     \* the scrape_queue rows
  table,     \* committed lookup rows: the id of a key, 0 when there is none
  sequence,  \* the sequence behind position_id
  stored,    \* committed player rows
  cache,     \* position_cache, shared by the workers; 0: not in it
  tx,        \* the transaction of each worker
  failures,  \* history: transactions rolled back since the process started
  restarts

vars == <<page, queue, table, sequence, stored, cache, tx, failures, restarts>>

Keys == Codes \cup Teams \cup Cities
Nothing == [k \in Keys |-> 0]
NoCache == [c \in Codes |-> 0]

NoTx == [pc |-> "idle", job |-> None, todo |-> <<>>, ids |-> <<>>, mine |-> Nothing, stats |-> {}]

Init ==
  /\ page \in [Jobs -> Pages]
  /\ queue = [j \in Jobs |-> [status |-> "PENDING", retry |-> 0]]
  /\ table = Nothing /\ sequence = 0
  /\ stored = [j \in Jobs |-> None]
  /\ cache = NoCache /\ tx = [w \in Workers |-> NoTx] /\ failures = 0 /\ restarts = 0

----------------------------------------------------------------------------
(* The parsers, which read nothing but the page *)

\* The elements of s at these places, in their order: SelectSeq, in a form
\* without recursion.
Chosen(s, places) ==
  [k \in 1 .. Cardinality(places) |->
    s[CHOOSE i \in places : Cardinality({m \in places : m <= i}) = k]]

\* Tokens that are no codes are dropped; three positions at most.
ParsePositions(p) ==
  LET codes == Chosen(p.positions, {i \in 1 .. Len(p.positions) : p.positions[i] # Junk}) IN
  SubSeq(codes, 1, IF Len(codes) < 3 THEN Len(codes) ELSE 3)
ParseBirth(p) == p.city
ParseClub(p) == IF p.club = Junk THEN None ELSE p.club
ParseProfile(p) == [codes |-> ParsePositions(p), city |-> ParseBirth(p), club |-> ParseClub(p)]

\* The rows with a team's link, as work for the repository of the table.
Parsed(p, name) ==
  LET all  == p.rows[name]
      rows == Chosen(all, {i \in 1 .. Len(all) : all[i].team # Junk}) IN
  [i \in 1 .. Len(rows) |-> [in |-> name, team |-> rows[i].team,
                             comp |-> rows[i].comp, country |-> rows[i].country]]
ParseStd(p) == Parsed(p, "std")
ParseShooting(p) == Parsed(p, "shooting")
ParsePlayingTime(p) == Parsed(p, "playing_time")
ParseMisc(p) == Parsed(p, "misc")

----------------------------------------------------------------------------
(* The steps of a transaction.  todo holds what is left of process() and of *)
(* the upsert_bulk calls: codes, city and club, then None for the player    *)
(* row, then the rows of statistics, table by table.                        *)

Given(key) == IF key = None THEN <<>> ELSE <<key>>
Work(p) ==
  LET profile == ParseProfile(p) IN
  profile.codes \o Given(profile.city) \o Given(profile.club) \o <<None>>
    \o ParseStd(p) \o ParseShooting(p) \o ParsePlayingTime(p) \o ParseMisc(p)

In(w, pc) == tx[w].pc = pc
Current(w) == Head(tx[w].todo)
Key(item) == IF item \in Keys THEN item ELSE item.team
Change(w, new) == tx' = [tx EXCEPT ![w] = new]

Outside == <<page, queue, table, stored, failures, restarts>>

\* The job is claimed and its page is there.
Begin(w, j) ==
  /\ In(w, "idle") /\ queue[j].status = "PENDING"
  /\ queue' = [queue EXCEPT ![j].status = "IN_PROGRESS"]
  /\ Change(w, [NoTx EXCEPT !.pc = "next", !.job = j, !.todo = Work(page[j])])
  /\ UNCHANGED <<page, table, sequence, stored, cache, failures, restarts>>

\* _resolve_positions finds the code in the cache: no statement.
CachedPosition(w) ==
  /\ In(w, "next") /\ tx[w].todo # <<>> /\ Current(w) \in Codes /\ cache[Current(w)] # 0
  /\ Change(w, [tx[w] EXCEPT !.todo = Tail(@), !.ids = Append(@, cache[Current(w)])])
  /\ UNCHANGED <<Outside, sequence, cache>>

\* Otherwise the upsert is awaited; the other workers go on.
StartUpsert(w) ==
  /\ In(w, "next") /\ tx[w].todo # <<>> /\ Current(w) # None
  /\ Current(w) \in Codes => cache[Current(w)] = 0
  /\ Change(w, [tx[w] EXCEPT !.pc = "upserting"])
  /\ UNCHANGED <<Outside, sequence, cache>>

WaitsFor(w, v) == v # w /\ In(w, "upserting") /\ tx[v].mine[Key(Current(w))] # 0
Waits(w) == \E v \in Workers : WaitsFor(w, v)

Visible(w, k) == IF tx[w].mine[k] # 0 THEN tx[w].mine[k] ELSE table[k]

\* Mutant: the id that the insert drew, although the row was there.
UpsertPosition_LastValue(w) ==
  LET c == Current(w)
      new == Visible(w, c) = 0 IN
  /\ In(w, "upserting") /\ c \in Codes /\ ~Waits(w)
  /\ sequence' = sequence + 1
  /\ cache' = [cache EXCEPT ![c] = sequence']
  /\ Change(w, [tx[w] EXCEPT !.pc = "next", !.todo = Tail(@), !.ids = Append(@, sequence'),
                             !.mine[c] = IF new THEN sequence' ELSE @])
  /\ UNCHANGED Outside

\* upsert_position: the id goes into the cache before the transaction commits.
UpsertPosition(w) ==
  LET c == Current(w)
      new == Visible(w, c) = 0
      id == IF new THEN sequence + 1 ELSE Visible(w, c) IN
  /\ In(w, "upserting") /\ c \in Codes /\ ~Waits(w)
  /\ sequence' = IF new THEN id ELSE sequence
  /\ cache' = [cache EXCEPT ![c] = id]
  /\ Change(w, [tx[w] EXCEPT !.pc = "next", !.todo = Tail(@), !.ids = Append(@, id),
                             !.mine[c] = IF new THEN id ELSE @])
  /\ UNCHANGED Outside

WithKey(w, k) == [tx[w] EXCEPT !.pc = "next", !.todo = Tail(@),
                               !.mine[k] = IF Visible(w, k) = 0 THEN 1 ELSE @]

UpsertCity(w) ==
  /\ In(w, "upserting") /\ Current(w) \in Cities /\ ~Waits(w)
  /\ Change(w, WithKey(w, Current(w)))
  /\ UNCHANGED <<Outside, sequence, cache>>

UpsertTeamStub(w) ==
  /\ In(w, "upserting") /\ Current(w) \in Teams /\ ~Waits(w)
  /\ Change(w, WithKey(w, Current(w)))
  /\ UNCHANGED <<Outside, sequence, cache>>

\* Stored only with its competition listed; nobody has looked at the country.
Stores(s) == s.comp = "listed"
CountryMissing(s) == Stores(s) /\ s.country = "unlisted"

\* Mutant: no row of statistics is stored.
UpsertRow_DropsAll(w, name) ==
  LET s == Current(w) IN
  /\ In(w, "upserting") /\ s \notin Keys /\ s.in = name /\ ~Waits(w) /\ ~CountryMissing(s)
  /\ Change(w, WithKey(w, s.team))
  /\ UNCHANGED <<Outside, sequence, cache>>

\* upsert_bulk, one row: the team's stub even where the row is then skipped.
UpsertRow(w, name) ==
  LET s == Current(w) IN
  /\ In(w, "upserting") /\ s \notin Keys /\ s.in = name /\ ~Waits(w) /\ ~CountryMissing(s)
  /\ Change(w, [WithKey(w, s.team) EXCEPT
       !.stats = IF Stores(s) THEN @ \cup {<<name, s.team>>} ELSE @])
  /\ UNCHANGED <<Outside, sequence, cache>>

UpsertStd(w) == UpsertRow(w, "std")
UpsertShooting(w) == UpsertRow(w, "shooting")
UpsertPlayingTime(w) == UpsertRow(w, "playing_time")
UpsertMisc(w) == UpsertRow(w, "misc")

\* The foreign keys fk_ply_pos_1 .. 3.
Exists(w, id) == \E c \in Codes : id = table[c] \/ id = tx[w].mine[c]
KeysHold(w) == \A i \in 1 .. Len(tx[w].ids) : Exists(w, tx[w].ids[i])

\* country_name_cache and valid_countries: a name they do not have is NULL.
Resolved(p) == p.nation = "listed"

\* Mutant: the foreign keys are not there.
StorePlayer_Unchecked(w) ==
  /\ In(w, "next") /\ tx[w].todo # <<>> /\ Current(w) = None
  /\ Change(w, [tx[w] EXCEPT !.todo = Tail(@)])
  /\ UNCHANGED <<Outside, sequence, cache>>

\* upsert_player_info, photo, citizenship and mark_done, in the transaction.
StorePlayer(w) ==
  /\ In(w, "next") /\ tx[w].todo # <<>> /\ Current(w) = None
  /\ KeysHold(w)
  /\ Change(w, [tx[w] EXCEPT !.todo = Tail(@)])
  /\ UNCHANGED <<Outside, sequence, cache>>

Commit(w) ==
  LET t == tx[w] IN
  /\ In(w, "next") /\ t.todo = <<>>
  /\ table' = [k \in Keys |-> Visible(w, k)]
  /\ stored' = [stored EXCEPT ![t.job] =
       [ids |-> t.ids, nation |-> Resolved(page[t.job]), stats |-> t.stats]]
  /\ queue' = [queue EXCEPT ![t.job].status = "DONE"]
  /\ Change(w, NoTx)
  /\ UNCHANGED <<page, sequence, cache, failures, restarts>>

----------------------------------------------------------------------------
(* Failures *)

\* get_session rolls back; the cache keeps what it has.
Rollback(w) ==
  /\ Change(w, [NoTx EXCEPT !.pc = "failing", !.job = tx[w].job])
  /\ failures' = 1
  /\ UNCHANGED <<page, queue, table, sequence, stored, cache, restarts>>

\* A statement, or the commit, raises.
StatementRaises(w) == tx[w].pc \in {"next", "upserting"} /\ Rollback(w)

\* Mutant: the error is ignored and the statement tried again.
ForeignKeyFails_TriesAgain(w) ==
  /\ In(w, "next") /\ tx[w].todo # <<>> /\ Current(w) = None /\ ~KeysHold(w)
  /\ UNCHANGED vars

\* A position's id, or the country of a row of statistics.
ForeignKeyFails(w) ==
  /\ tx[w].todo # <<>>
  /\ \/ In(w, "next") /\ Current(w) = None /\ ~KeysHold(w)
     \/ In(w, "upserting") /\ Current(w) \notin Keys /\ ~Waits(w) /\ CountryMissing(Current(w))
  /\ Rollback(w)

Deadlocked(w) == \E S \in SUBSET Workers :
  w \in S /\ \A v \in S : (\E u \in S : WaitsFor(v, u)) /\ (\E u \in S : WaitsFor(u, v))

DeadlockDetected(w) == Deadlocked(w) /\ Rollback(w)

\* record_job_failure, in a transaction of its own.
RecordFailure(w) ==
  LET j == tx[w].job IN
  /\ In(w, "failing")
  /\ queue' = [queue EXCEPT ![j] =
       [status |-> IF @.retry + 1 >= MaxQueueRetries THEN "FAILED" ELSE "PENDING", retry |-> @.retry + 1]]
  /\ Change(w, NoTx)
  /\ UNCHANGED <<page, table, sequence, stored, cache, failures, restarts>>

\* The process ends anywhere; the next one recovers the rows and has an empty cache.
Restart ==
  /\ restarts < MaxRestarts /\ restarts' = restarts + 1
  /\ queue' = [j \in Jobs |-> IF queue[j].status = "IN_PROGRESS" THEN [queue[j] EXCEPT !.status = "PENDING"]
                              ELSE queue[j]]
  /\ tx' = [w \in Workers |-> NoTx] /\ cache' = NoCache /\ failures' = 0
  /\ UNCHANGED <<page, table, sequence, stored>>

----------------------------------------------------------------------------
Progress(w) ==
  \/ CachedPosition(w) \/ StartUpsert(w) \/ UpsertPosition(w) \/ UpsertCity(w) \/ UpsertTeamStub(w)
  \/ UpsertStd(w) \/ UpsertShooting(w) \/ UpsertPlayingTime(w) \/ UpsertMisc(w)
  \/ StorePlayer(w) \/ Commit(w) \/ ForeignKeyFails(w) \/ DeadlockDetected(w) \/ RecordFailure(w)

Next ==
  \/ Restart
  \/ \E w \in Workers : Progress(w) \/ StatementRaises(w) \/ \E j \in Jobs : Begin(w, j)

Spec == Init /\ [][Next]_vars

\* The workers run, and PostgreSQL looks for deadlocks; nothing has to fail
\* otherwise.
Fairness == \A w \in Workers : WF_vars(Progress(w))

FairSpec == Spec /\ Fairness

----------------------------------------------------------------------------
(* Properties *)

Ids == 0 .. sequence

TypeOK ==
  /\ page \in [Jobs -> Pages]
  /\ queue \in [Jobs -> [status : {"PENDING", "IN_PROGRESS", "DONE", "FAILED"}, retry : 0 .. MaxQueueRetries]]
  /\ sequence \in Nat /\ table \in [Keys -> Ids \cup {1}] /\ cache \in [Codes -> Ids]
  /\ \A j \in Jobs : stored[j] # None => stored[j].ids \in Seq(Ids) /\ stored[j].stats \subseteq Tables \X Teams /\ stored[j].nation \in BOOLEAN
  /\ \A w \in Workers :
       /\ tx[w].pc \in {"idle", "next", "upserting", "failing"} /\ tx[w].job \in Jobs \cup {None}
       /\ tx[w].mine \in [Keys -> Ids \cup {1}]
  /\ failures \in {0, 1} /\ restarts \in 0 .. MaxRestarts

\* A stored player points at rows that are there and carry the codes of its
\* page, whatever stale or phantom ids the shared cache held on the way.
PositionsRight ==
  \A j \in Jobs : stored[j] # None =>
    LET codes == ParsePositions(page[j]) IN
    stored[j].ids = [i \in 1 .. Len(codes) |-> table[codes[i]]]

\* A job is DONE exactly when all of its page is stored: the player, its
\* statistics in listed competitions in each of the four tables, and the stub of
\* every team it names.  No page with a country that is missing gets there.
DoneIsWhole ==
  \A j \in Jobs :
    LET rows == UNION {{<<t, page[j].rows[t][i]>> : i \in 1 .. Len(page[j].rows[t])} : t \in Tables}
        read == {r \in rows : r[2].team # Junk}
        kept == {r \in read : r[2].comp = "listed"} IN
    /\ queue[j].status = "DONE" <=> stored[j] # None
    /\ stored[j] # None =>
         /\ stored[j].nation = (page[j].nation = "listed")
         /\ stored[j].stats = {<<r[1], r[2].team>> : r \in kept}
         /\ \A r \in kept : r[2].country # "unlisted"
         /\ \A r \in read : table[r[2].team] # 0

\* Nothing of a transaction that failed is left: every lookup row is named by a
\* page that is stored.
NothingHalf ==
  \A k \in Keys : table[k] # 0 =>
    \E j \in Jobs : stored[j] # None /\ \E i \in 1 .. Len(Work(page[j])) :
      Work(page[j])[i] # None /\ Key(Work(page[j])[i]) = k

\* As long as no transaction was rolled back, a cached id is the id of the code's
\* row, committed or about to be.
CacheTrueUntilRollback ==
  failures = 0 => \A c \in Codes : cache[c] # 0 =>
    cache[c] = table[c] \/ \E w \in Workers : tx[w].mine[c] = cache[c]

\* The lookup tables and their cache: the types, nothing of a failed transaction,
\* and a cache that only a rollback spoils.
LookupInv == TypeOK /\ NothingHalf /\ CacheTrueUntilRollback

\* Every transaction ends and its failure is recorded: workers that insert the
\* same codes and teams in different orders do not wait for each other for ever.
TransactionsEnd == \A w \in Workers : ~In(w, "idle") ~> In(w, "idle")
=============================================================================
