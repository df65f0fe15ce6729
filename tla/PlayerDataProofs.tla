--------------------------- MODULE PlayerDataProofs ---------------------------
(***************************************************************************)
(* LookupInv, PositionsRight and DoneIsWhole of PlayerData, for any pages, *)
(* players, workers, codes, teams and cities.                              *)
(***************************************************************************)
EXTENDS PlayerData, FiniteSetTheorems, SequenceTheorems, TLAPS

----------------------------------------------------------------------------
(* The parsers *)

\* The place of an element among the chosen ones is a bijection: Chosen keeps
\* exactly the elements at these places.
LEMMA ChosenFacts ==
  ASSUME NEW n \in Nat, NEW s, NEW I \in SUBSET (1 .. n), NEW T, \A i \in I : s[i] \in T
  PROVE  /\ Chosen(s, I) \in Seq(T)
         /\ \A k \in 1 .. Len(Chosen(s, I)) : \E i \in I : Chosen(s, I)[k] = s[i]
         /\ \A i \in I : \E k \in 1 .. Len(Chosen(s, I)) : Chosen(s, I)[k] = s[i]
<1> DEFINE upTo(i) == {m \in I : m <= i}
           rank == [i \in I |-> Cardinality(upTo(i))]
           size == Cardinality(I)
           nth(k) == CHOOSE i \in I : Cardinality(upTo(i)) = k
<1>1. IsFiniteSet(I) /\ size \in Nat
  <2>1. IsFiniteSet(1 .. n)
    BY FS_Interval
  <2>2. IsFiniteSet(I)
    BY <2>1, FS_Subset
  <2> QED BY <2>2, FS_CardinalityType
<1>2. ASSUME NEW i \in I
      PROVE  IsFiniteSet(upTo(i)) /\ Cardinality(upTo(i)) \in 1 .. size
  <2>1. upTo(i) \in SUBSET I
    OBVIOUS
  <2>2. IsFiniteSet(upTo(i)) /\ Cardinality(upTo(i)) <= size
    BY <1>1, <2>1, FS_Subset
  <2>3. Cardinality(upTo(i)) \in Nat
    BY <2>2, FS_CardinalityType
  <2>4. i \in upTo(i)
    OBVIOUS
  <2>5. Cardinality(upTo(i)) # 0
    BY <2>2, <2>4, FS_EmptySet
  <2> QED BY <1>1, <2>2, <2>3, <2>5
<1>3. ASSUME NEW i \in I, NEW m \in I, i < m
      PROVE  Cardinality(upTo(i)) # Cardinality(upTo(m))
  <2>1. upTo(i) \in SUBSET upTo(m)
    <3>1. \A l \in I : l \in 1 .. n /\ i \in 1 .. n /\ m \in 1 .. n
      OBVIOUS
    <3>2. \A l \in I : l <= i => l <= m
      BY <1>3, <3>1
    <3> QED BY <3>2
  <2>2. m \in upTo(m) /\ m \notin upTo(i)
    BY <1>3
  <2>3. IsFiniteSet(upTo(m))
    BY <1>2
  <2> HIDE DEF upTo
  <2>4. Cardinality(upTo(m)) = Cardinality(upTo(i)) => upTo(m) = upTo(i)
    BY <2>1, <2>3, FS_Subset
  <2> QED BY <2>2, <2>4
<1>4. rank \in Injection(I, 1 .. size)
  <2>1. rank \in [I -> 1 .. size]
    BY <1>2
  <2>2. ASSUME NEW i \in I, NEW m \in I, rank[i] = rank[m] PROVE i = m
    <3>1. i \in Nat /\ m \in Nat
      OBVIOUS
    <3>2. ~(i < m) /\ ~(m < i)
      BY <1>3, <2>2
    <3> QED BY <3>1, <3>2
  <2> QED BY <2>1, <2>2 DEF Injection, IsInjective
<1>5. rank \in Surjection(I, 1 .. size)
  <2>1. IsFiniteSet(1 .. size) /\ Cardinality(1 .. size) = size
    BY <1>1, FS_Interval
  <2> HIDE DEF rank
  <2> QED BY <1>4, <2>1, FS_Injection
<1>6. ASSUME NEW k \in 1 .. size PROVE \E i \in I : Cardinality(upTo(i)) = k
  BY <1>5 DEF Surjection
<1>7. ASSUME NEW k \in 1 .. size PROVE nth(k) \in I /\ Cardinality(upTo(nth(k))) = k
  BY <1>6
<1>8. ASSUME NEW i \in I PROVE nth(Cardinality(upTo(i))) = i
  <2> DEFINE m == nth(Cardinality(upTo(i)))
  <2>1. m \in I /\ Cardinality(upTo(m)) = Cardinality(upTo(i))
    BY <1>2, <1>7
  <2>2. rank[m] = rank[i]
    BY <2>1
  <2> HIDE DEF m, rank
  <2> QED BY <1>4, <2>1, <2>2 DEF Injection, IsInjective, m
<1>9. Chosen(s, I) = [k \in 1 .. size |-> s[nth(k)]]
  BY DEF Chosen
<1> HIDE DEF nth, upTo, size
<1>10. Chosen(s, I) \in [1 .. size -> T]
  BY <1>7, <1>9
<1>11. Chosen(s, I) \in Seq(T) /\ Len(Chosen(s, I)) = size
  BY <1>1, <1>10
<1>12. ASSUME NEW k \in 1 .. size PROVE \E i \in I : Chosen(s, I)[k] = s[i]
  BY <1>7, <1>9
<1>13. ASSUME NEW i \in I PROVE \E k \in 1 .. size : Chosen(s, I)[k] = s[i]
  <2>1. Cardinality(upTo(i)) \in 1 .. size
    BY <1>2
  <2> QED BY <1>8, <1>9, <2>1
<1> QED BY <1>11, <1>12, <1>13

Elements(s) == {s[i] : i \in 1 .. Len(s)}

LEMMA ConcatElements ==
  ASSUME NEW S, NEW s \in Seq(S), NEW t \in Seq(S)
  PROVE  s \o t \in Seq(S) /\ Elements(s \o t) = Elements(s) \cup Elements(t)
<1>1. Len(s) \in Nat /\ Len(t) \in Nat
  OBVIOUS
<1>2. /\ s \o t \in Seq(S) /\ Len(s \o t) = Len(s) + Len(t)
      /\ \A i \in 1 .. Len(s) + Len(t) : (s \o t)[i] = IF i <= Len(s) THEN s[i] ELSE t[i - Len(s)]
  BY ConcatProperties
<1>3. ASSUME NEW i \in 1 .. Len(s) + Len(t) PROVE (s \o t)[i] \in Elements(s) \cup Elements(t)
  <2>1. CASE i <= Len(s)
    BY <1>1, <1>2, <2>1 DEF Elements
  <2>2. CASE ~(i <= Len(s))
    <3>1. i - Len(s) \in 1 .. Len(t)
      BY <1>1, <2>2
    <3> QED BY <1>2, <2>2, <3>1 DEF Elements
  <2> QED BY <2>1, <2>2
<1>4. ASSUME NEW i \in 1 .. Len(s) PROVE s[i] \in Elements(s \o t)
  <2>1. i \in 1 .. Len(s) + Len(t) /\ i <= Len(s)
    BY <1>1
  <2> QED BY <1>2, <2>1 DEF Elements
<1>5. ASSUME NEW i \in 1 .. Len(t) PROVE t[i] \in Elements(s \o t)
  <2>1. i + Len(s) \in 1 .. Len(s) + Len(t) /\ ~(i + Len(s) <= Len(s)) /\ i + Len(s) - Len(s) = i
    BY <1>1
  <2> QED BY <1>2, <2>1 DEF Elements
<1>6. Elements(s \o t) \subseteq Elements(s) \cup Elements(t)
  BY <1>2, <1>3 DEF Elements
<1>7. Elements(s) \subseteq Elements(s \o t) /\ Elements(t) \subseteq Elements(s \o t)
  BY <1>4, <1>5 DEF Elements
<1> QED BY <1>2, <1>6, <1>7

LEMMA CodesParsed ==
  ASSUME NEW p \in PageSet
  PROVE  ParsePositions(p) \in Seq(Codes)
<1> DEFINE places == {i \in 1 .. Len(p.positions) : p.positions[i] # Junk}
           codes == Chosen(p.positions, places)
           limit == IF Len(codes) < 3 THEN Len(codes) ELSE 3
<1>1. p.positions \in Seq(Codes \cup {Junk})
  BY DEF PageSet
<1>2. Len(p.positions) \in Nat /\ \A i \in places : p.positions[i] \in Codes
  BY <1>1
<1>3. codes \in Seq(Codes)
  BY <1>2, ChosenFacts
<1> HIDE DEF codes
<1>4. limit \in Int /\ \A i \in 1 .. limit : codes[i] \in Codes
  BY <1>3
<1>5. SubSeq(codes, 1, limit) \in Seq(Codes)
  BY <1>4, SubSeqProperties
<1> QED BY <1>5 DEF ParsePositions, codes

\* The row of a page as the repositories get it.
AsItem(name, line) == [in |-> name, team |-> line.team, comp |-> line.comp, country |-> line.country]

\* What parse() of a table returns: the rows with a team's link.
LEMMA RowsParsed ==
  ASSUME NEW p \in PageSet, NEW name \in Tables
  PROVE  /\ Parsed(p, name) \in Seq(Item)
         /\ Elements(Parsed(p, name)) = {AsItem(name, p.rows[name][i]) :
              i \in {m \in 1 .. Len(p.rows[name]) : p.rows[name][m].team # Junk}}
<1> DEFINE all == p.rows[name]
           places == {i \in 1 .. Len(all) : all[i].team # Junk}
           rows == Chosen(all, places)
           read == [team : Teams, comp : Reference, country : Reference]
<1>1. all \in Seq(Line)
  BY DEF PageSet
<1>a. ASSUME NEW line \in Line, line.team # Junk PROVE line \in read
  BY <1>a DEF Line
<1>b. Len(all) \in Nat /\ \A i \in 1 .. Len(all) : all[i] \in Line
  BY <1>1, ElementOfSeq
<1>2. Len(all) \in Nat /\ \A i \in places : all[i] \in read
  BY <1>a, <1>b
<1>3. /\ rows \in Seq(read)
      /\ \A k \in 1 .. Len(rows) : \E i \in places : rows[k] = all[i]
      /\ \A i \in places : \E k \in 1 .. Len(rows) : rows[k] = all[i]
  <2>1. places \in SUBSET (1 .. Len(all)) /\ Len(all) \in Nat
    BY <1>2
  <2>2. \A i \in places : all[i] \in read
    BY <1>2
  <2> HIDE DEF places, all, read
  <2>3. /\ Chosen(all, places) \in Seq(read)
        /\ \A k \in 1 .. Len(Chosen(all, places)) : \E i \in places : Chosen(all, places)[k] = all[i]
        /\ \A i \in places : \E k \in 1 .. Len(Chosen(all, places)) : Chosen(all, places)[k] = all[i]
    BY <2>1, <2>2, ChosenFacts, ZenonT(40)
  <2> QED BY <2>3 DEF rows
<1>4. Parsed(p, name) = [k \in 1 .. Len(rows) |-> AsItem(name, rows[k])]
  BY DEF Parsed, AsItem
<1> HIDE DEF rows, places, all
<1>5. ASSUME NEW k \in 1 .. Len(rows) PROVE AsItem(name, rows[k]) \in Item
  <2> HIDE DEF read
  <2>1. rows[k] \in read
    BY <1>3, ElementOfSeq
  <2> USE DEF read
  <2> QED BY <2>1 DEF AsItem, Item
<1>6. Len(rows) \in Nat
  BY <1>3
<1>7. Parsed(p, name) \in [1 .. Len(rows) -> Item]
  BY <1>4, <1>5
<1>8. Parsed(p, name) \in Seq(Item) /\ Len(Parsed(p, name)) = Len(rows)
  BY <1>6, <1>7
<1>9. Elements(Parsed(p, name)) = {AsItem(name, rows[k]) : k \in 1 .. Len(rows)}
  BY <1>4, <1>8 DEF Elements
<1>10. {AsItem(name, rows[k]) : k \in 1 .. Len(rows)} = {AsItem(name, all[i]) : i \in places}
  BY <1>3
<1> QED BY <1>8, <1>9, <1>10 DEF places, all

\* What todo may hold.
Entry == Keys \cup {None} \cup Item

Sorts == /\ Codes \cap (Teams \cup Cities \cup {None} \cup Item) = {}
         /\ (Keys \cup {None}) \cap Item = {} /\ None \notin Keys

LEMMA SortsHold == Sorts
  BY DataAssumption DEF Sorts, Keys

\* s is these codes, and then entries that are none.
Begins(s, codes) ==
  /\ Len(codes) <= Len(s)
  /\ \A i \in 1 .. Len(codes) : s[i] = codes[i]
  /\ \A i \in 1 .. Len(s) : i > Len(codes) => s[i] \notin Codes

LEMMA AppendBegins ==
  ASSUME NEW codes \in Seq(Codes), NEW s \in Seq(Entry), NEW t \in Seq(Entry),
         Begins(s, codes), Elements(t) \cap Codes = {}
  PROVE  /\ s \o t \in Seq(Entry) /\ Begins(s \o t, codes)
         /\ Elements(s \o t) = Elements(s) \cup Elements(t)
<1>1. Len(s) \in Nat /\ Len(t) \in Nat /\ Len(codes) \in Nat
  OBVIOUS
<1>2. /\ s \o t \in Seq(Entry) /\ Len(s \o t) = Len(s) + Len(t)
      /\ \A i \in 1 .. Len(s) + Len(t) : (s \o t)[i] = IF i <= Len(s) THEN s[i] ELSE t[i - Len(s)]
  BY ConcatProperties
<1>3. ASSUME NEW i \in 1 .. Len(codes) PROVE (s \o t)[i] = codes[i]
  BY <1>1, <1>2 DEF Begins
<1>4. ASSUME NEW i \in 1 .. Len(s) + Len(t), i > Len(codes) PROVE (s \o t)[i] \notin Codes
  <2>1. CASE i <= Len(s)
    BY <1>1, <1>2, <1>4, <2>1 DEF Begins
  <2>2. CASE ~(i <= Len(s))
    <3>1. i - Len(s) \in 1 .. Len(t)
      BY <1>1, <2>2
    <3>2. t[i - Len(s)] \in Elements(t)
      BY <3>1 DEF Elements
    <3> QED BY <1>2, <2>2, <3>2
  <2> QED BY <2>1, <2>2
<1>5. Begins(s \o t, codes)
  BY <1>1, <1>2, <1>3, <1>4 DEF Begins
<1> QED BY <1>2, <1>5, ConcatElements

\* The rows of a page that its parsers return.
Read(p) == UNION {{AsItem(name, p.rows[name][i]) :
  i \in {m \in 1 .. Len(p.rows[name]) : p.rows[name][m].team # Junk}} : name \in Tables}

\* What the transaction of a page does: first its positions, in their order, then
\* no position any more, the player, and every row that was parsed.
LEMMA WorkFacts ==
  ASSUME NEW p \in PageSet
  PROVE  /\ Work(p) \in Seq(Entry)
         /\ Begins(Work(p), ParsePositions(p))
         /\ None \in Elements(Work(p))
         /\ Elements(Work(p)) \cap Item = Read(p)
<1> DEFINE codes == ParsePositions(p)
           home  == Given(ParseBirth(p))
           club  == Given(ParseClub(p))
           rows(name) == Parsed(p, name)
<1>1. codes \in Seq(Codes)
  BY CodesParsed
<1>2. ASSUME NEW k \in Teams \cup Cities \cup {None}
      PROVE  /\ Given(k) \in Seq(Entry) /\ Elements(Given(k)) \cap Codes = {}
             /\ Elements(Given(k)) \cap Item = {}
  <2>1. Given(k) \in Seq(Entry) /\ Elements(Given(k)) \subseteq {k}
    <3>1. k \in Entry
      BY DEF Entry, Keys
    <3>2. CASE k = None
      BY <3>2 DEF Given, Elements
    <3>3. CASE k # None
      BY <3>1, <3>3 DEF Given, Elements
    <3> QED BY <3>2, <3>3
  <2> QED BY <2>1, SortsHold DEF Sorts, Keys
<1>3. /\ home \in Seq(Entry) /\ Elements(home) \cap Codes = {} /\ Elements(home) \cap Item = {}
      /\ club \in Seq(Entry) /\ Elements(club) \cap Codes = {} /\ Elements(club) \cap Item = {}
  BY <1>2 DEF PageSet, ParseBirth, ParseClub
<1> DEFINE player == <<None>>
<1>4. player \in Seq(Entry) /\ Elements(player) = {None}
  BY DEF Entry, Elements
<1>5. ASSUME NEW name \in Tables
      PROVE  rows(name) \in Seq(Entry) /\ Elements(rows(name)) \cap Codes = {} /\ Elements(rows(name)) \subseteq Item
  <2>1. rows(name) \in Seq(Item)
    BY RowsParsed
  <2>2. rows(name) \in Seq(Entry)
    BY <2>1 DEF Entry
  <2>3. Elements(rows(name)) \subseteq Item
    BY <2>1 DEF Elements
  <2> QED BY <2>2, <2>3, SortsHold DEF Sorts
<1>6. codes \in Seq(Entry) /\ Begins(codes, codes) /\ Elements(codes) \subseteq Codes
  BY <1>1 DEF Entry, Keys, Begins, Elements
<1>7. {"std", "shooting", "playing_time", "misc"} = Tables
  BY DEF Tables
<1> DEFINE s1 == codes \o home
           s2 == s1 \o club
           s3 == s2 \o player
           s4 == s3 \o rows("std")
           s5 == s4 \o rows("shooting")
           s6 == s5 \o rows("playing_time")
           s7 == s6 \o rows("misc")
<1>8. Work(p) = s7
  BY DEF Work, ParseProfile, ParseStd, ParseShooting, ParsePlayingTime, ParseMisc
<1>9. None \notin Codes
  BY SortsHold DEF Sorts
<1> HIDE DEF codes, home, club, rows, player
<1>10. s1 \in Seq(Entry) /\ Begins(s1, codes) /\ Elements(s1) = Elements(codes) \cup Elements(home)
  BY <1>1, <1>3, <1>6, AppendBegins
<1> HIDE DEF s1
<1>11. s2 \in Seq(Entry) /\ Begins(s2, codes) /\ Elements(s2) = Elements(s1) \cup Elements(club)
  BY <1>1, <1>3, <1>10, AppendBegins
<1> HIDE DEF s2
<1>12. s3 \in Seq(Entry) /\ Begins(s3, codes) /\ Elements(s3) = Elements(s2) \cup {None}
  BY <1>1, <1>4, <1>9, <1>11, AppendBegins
<1> HIDE DEF s3
<1>13. s4 \in Seq(Entry) /\ Begins(s4, codes) /\ Elements(s4) = Elements(s3) \cup Elements(rows("std"))
  BY <1>1, <1>5, <1>7, <1>12, AppendBegins
<1> HIDE DEF s4
<1>14. s5 \in Seq(Entry) /\ Begins(s5, codes) /\ Elements(s5) = Elements(s4) \cup Elements(rows("shooting"))
  BY <1>1, <1>5, <1>7, <1>13, AppendBegins
<1> HIDE DEF s5
<1>15. s6 \in Seq(Entry) /\ Begins(s6, codes) /\ Elements(s6) = Elements(s5) \cup Elements(rows("playing_time"))
  BY <1>1, <1>5, <1>7, <1>14, AppendBegins
<1> HIDE DEF s6
<1>16. s7 \in Seq(Entry) /\ Begins(s7, codes) /\ Elements(s7) = Elements(s6) \cup Elements(rows("misc"))
  BY <1>1, <1>5, <1>7, <1>15, AppendBegins
<1> HIDE DEF s7
<1>17. Elements(s7) = Elements(codes) \cup Elements(home) \cup Elements(club) \cup {None}
                        \cup UNION {Elements(rows(name)) : name \in Tables}
  <2>1. UNION {Elements(rows(name)) : name \in Tables}
          = Elements(rows("std")) \cup Elements(rows("shooting"))
              \cup Elements(rows("playing_time")) \cup Elements(rows("misc"))
    BY DEF Tables
  <2> QED BY <1>10, <1>11, <1>12, <1>13, <1>14, <1>15, <1>16, <2>1, Zenon
<1>18. Elements(s7) \cap Item = UNION {Elements(rows(name)) : name \in Tables}
  BY <1>3, <1>5, <1>6, <1>17, SortsHold DEF Sorts
<1>19. UNION {Elements(rows(name)) : name \in Tables} = Read(p)
  BY RowsParsed DEF Read, rows
<1> QED BY <1>8, <1>16, <1>17, <1>18, <1>19 DEF codes

----------------------------------------------------------------------------
(* The inductive invariant *)

TxType == [pc : {"idle", "next", "upserting", "failing"}, job : Jobs \cup {None}, todo : Seq(Entry),
           ids : Seq(Nat), mine : [Keys -> Nat], stats : SUBSET (Tables \X Teams)]

Types ==
  /\ page \in [Jobs -> Pages]
  /\ queue \in [Jobs -> [status : {"PENDING", "IN_PROGRESS", "DONE", "FAILED"}, retry : 0 .. MaxQueueRetries]]
  /\ sequence \in Nat /\ table \in [Keys -> Nat] /\ cache \in [Codes -> Nat]
  /\ stored \in [Jobs -> StoredPlayer \cup {None}]
  /\ tx \in [Workers -> TxType]
  /\ failures \in {0, 1} /\ restarts \in 0 .. MaxRestarts

Active(w) == tx[w].pc \in {"next", "upserting"}

\* The list of a transaction's work, and how much of it is done.
List(w) == Work(page[tx[w].job])
Count(w) == Len(List(w)) - Len(tx[w].todo)

\* A job has one holder, which found it PENDING, and is stored when it is DONE.
JobInv ==
  /\ \A w \in Workers : tx[w].pc = "idle" => tx[w].job = None
  /\ \A w \in Workers : tx[w].pc # "idle" => tx[w].job \in Jobs /\ queue[tx[w].job].status = "IN_PROGRESS"
  /\ \A v, w \in Workers : tx[v].job # None /\ tx[v].job = tx[w].job => v = w
  /\ \A j \in Jobs : queue[j].status = "DONE" <=> stored[j] # None
  /\ \A j \in Jobs : queue[j].status \in {"PENDING", "IN_PROGRESS"} => queue[j].retry < MaxQueueRetries

\* One transaction at a time inserts a key, and only a key without a row.
InsertInv ==
  /\ \A v, w \in Workers, k \in Keys : tx[v].mine[k] # 0 /\ tx[w].mine[k] # 0 => v = w
  /\ \A w \in Workers, k \in Keys : tx[w].mine[k] # 0 => table[k] = 0

\* An id is the code's: its row has it, the cache, an open transaction's row, or
\* a transaction that took it for the code, from the row or from the cache.
Holds(c, id) ==
  \/ table[c] = id \/ cache[c] = id
  \/ \E w \in Workers : tx[w].mine[c] = id
  \/ \E w \in Workers : Active(w) /\ \E i \in 1 .. Len(tx[w].ids) :
       tx[w].ids[i] = id /\ ParsePositions(page[tx[w].job])[i] = c

\* The sequence gives no id to two codes, wherever rollbacks leave the ids.
IdInv == \A c \in Codes, id \in Nat \ {0} :
  Holds(c, id) => id <= sequence /\ \A d \in Codes : Holds(d, id) => c = d

\* Other keys are there or not.
KeyInv == \A k \in Keys \ Codes :
  table[k] \in {0, 1} /\ \A w \in Workers : tx[w].mine[k] \in {0, 1}

\* What a transaction has, by what it has done of its list: the ids of the first
\* codes, the keys that it inserted, the rows that it stored, every team's stub,
\* and after the player, ids that exist.
TodoInv(w) ==
  /\ Len(tx[w].todo) <= Len(List(w))
  /\ \A i \in 1 .. Len(tx[w].todo) : tx[w].todo[i] = List(w)[Count(w) + i]
IdsInv(w) ==
  LET codes == ParsePositions(page[tx[w].job]) IN
  /\ Len(tx[w].ids) = IF Count(w) < Len(codes) THEN Count(w) ELSE Len(codes)
  /\ \A i \in 1 .. Len(tx[w].ids) : tx[w].ids[i] # 0
MineInv(w) == \A k \in Keys : tx[w].mine[k] # 0 =>
  \E i \in 1 .. Count(w) : List(w)[i] # None /\ Key(List(w)[i]) = k
StatsInv(w) == tx[w].stats =
  {<<List(w)[i].in, List(w)[i].team>> : i \in {m \in 1 .. Count(w) : List(w)[m] \in Item /\ Stores(List(w)[m])}}
RowsInv(w) == \A i \in 1 .. Count(w) : List(w)[i] \in Item =>
  Visible(w, List(w)[i].team) # 0 /\ ~CountryMissing(List(w)[i])
PlayerInv(w) == (\E i \in 1 .. Count(w) : List(w)[i] = None) => KeysHold(w)

TxInv(w) == TodoInv(w) /\ IdsInv(w) /\ MineInv(w) /\ StatsInv(w) /\ RowsInv(w) /\ PlayerInv(w)

\* A worker without a transaction has nothing of one.
ListInv == \A w \in Workers :
  /\ Active(w) => TxInv(w)
  /\ ~Active(w) => tx[w].mine = Nothing
  /\ tx[w].pc = "upserting" => tx[w].todo # <<>> /\ Current(w) # None

\* The ids of a stored player came from the sequence.
StoredIds == \A j \in Jobs : stored[j] # None =>
  \A i \in 1 .. Len(stored[j].ids) : stored[j].ids[i] \in 1 .. sequence

StoredInv == StoredIds /\ PositionsRight /\ DoneIsWhole /\ NothingHalf

IInv ==
  /\ Types /\ JobInv /\ InsertInv /\ IdInv /\ KeyInv /\ ListInv /\ StoredInv
  /\ CacheTrueUntilRollback

----------------------------------------------------------------------------
(* The steps of a transaction *)

\* The transaction w does the next entry of its list, e.
Does(w, e, ids, mine, stats) ==
  /\ Active(w) /\ tx[w].todo # <<>> /\ e = Head(tx[w].todo)
  /\ tx' \in [Workers -> TxType] /\ \A v \in Workers \ {w} : tx'[v] = tx[v]
  /\ tx'[w].pc = "next" /\ tx'[w].job = tx[w].job /\ tx'[w].todo = Tail(tx[w].todo)
  /\ tx'[w].ids = ids /\ tx'[w].mine = mine /\ tx'[w].stats = stats
  /\ UNCHANGED <<page, queue, table, stored, failures, restarts>>

DoesCached(w, e) ==
  /\ e \in Codes /\ cache[e] # 0
  /\ Does(w, e, Append(tx[w].ids, cache[e]), tx[w].mine, tx[w].stats)
  /\ UNCHANGED <<sequence, cache>>

DoesFound(w, e) ==
  /\ e \in Codes /\ Visible(w, e) # 0
  /\ Does(w, e, Append(tx[w].ids, Visible(w, e)), tx[w].mine, tx[w].stats)
  /\ cache' = [cache EXCEPT ![e] = Visible(w, e)] /\ UNCHANGED sequence

\* Nobody else has inserted the key.
Free(w, k) == table[k] = 0 /\ \A v \in Workers : tx[v].mine[k] = 0

DoesNew(w, e) ==
  /\ e \in Codes /\ Free(w, e)
  /\ Does(w, e, Append(tx[w].ids, sequence + 1), [tx[w].mine EXCEPT ![e] = sequence + 1], tx[w].stats)
  /\ sequence' = sequence + 1 /\ cache' = [cache EXCEPT ![e] = sequence + 1]

DoesKey(w, e, mine, stats) ==
  /\ e \notin Codes /\ e # None /\ Key(e) \in Keys \ Codes
  /\ \/ Visible(w, Key(e)) # 0 /\ mine = tx[w].mine
     \/ Free(w, Key(e)) /\ mine = [tx[w].mine EXCEPT ![Key(e)] = 1]
  /\ IF e \in Item THEN /\ ~CountryMissing(e)
                        /\ stats = IF Stores(e) THEN tx[w].stats \cup {<<e.in, e.team>>} ELSE tx[w].stats
                   ELSE stats = tx[w].stats
  /\ Does(w, e, tx[w].ids, mine, stats)
  /\ UNCHANGED <<sequence, cache>>

DoesPlayer(w) ==
  /\ KeysHold(w)
  /\ Does(w, None, tx[w].ids, tx[w].mine, tx[w].stats)
  /\ UNCHANGED <<sequence, cache>>

DoesNext(w) ==
  \/ \E e \in Codes : DoesCached(w, e) \/ DoesFound(w, e) \/ DoesNew(w, e)
  \/ \E e \in Entry, mine \in [Keys -> Nat], stats \in SUBSET (Tables \X Teams) : DoesKey(w, e, mine, stats)
  \/ DoesPlayer(w)

\* The fields of an updated transaction.
LEMMA Updated ==
  ASSUME Types, NEW w \in Workers, NEW t \in TxType, Change(w, t)
  PROVE  tx' \in [Workers -> TxType] /\ tx'[w] = t /\ \A v \in Workers \ {w} : tx'[v] = tx[v]
  BY DEF Types, Change

LEMMA TodoFacts ==
  ASSUME NEW S, NEW s \in Seq(S), s # <<>>
  PROVE  /\ Head(s) \in S /\ Head(s) = s[1] /\ Tail(s) \in Seq(S) /\ Len(s) \in Nat \ {0}
         /\ Len(Tail(s)) = Len(s) - 1 /\ \A i \in 1 .. Len(s) - 1 : Tail(s)[i] = s[i + 1]
  OBVIOUS

\* An insert that does not wait finds the key visible, or free.
LEMMA NotWaiting ==
  ASSUME Types, NEW w \in Workers, In(w, "upserting"), ~Waits(w), Key(Current(w)) \in Keys
  PROVE  Visible(w, Key(Current(w))) = 0 => Free(w, Key(Current(w)))
<1>1. \A v \in Workers \ {w} : tx[v].mine[Key(Current(w))] = 0
  BY DEF Waits, WaitsFor
<1> QED BY <1>1 DEF Visible, Free

LEMMA PositionDoes ==
  ASSUME Types, ListInv, NEW w \in Workers, CachedPosition(w) \/ UpsertPosition(w)
  PROVE  DoesNext(w)
<1> DEFINE t == tx[w]
           c == Current(w)
<1>1. t \in TxType /\ t.todo # <<>> /\ c \in Codes
  BY DEF Types, CachedPosition, UpsertPosition, ListInv, In
<1>2. c = Head(t.todo) /\ Key(c) = c /\ c \in Keys
  BY <1>1 DEF Current, Key, Keys
<1>3. t.todo \in Seq(Entry) /\ t.ids \in Seq(Nat) /\ Tail(t.todo) \in Seq(Entry)
  BY <1>1 DEF TxType
<1> HIDE DEF c
<1>4. CASE CachedPosition(w)
  <2>1. PICK u : u = [t EXCEPT !.todo = Tail(@), !.ids = Append(@, cache[c])]
    OBVIOUS
  <2>2. cache[c] \in Nat /\ cache[c] # 0 /\ t.pc = "next"
    BY <1>1, <1>4 DEF CachedPosition, Types, In, c
  <2>3. Append(t.ids, cache[c]) \in Seq(Nat)
    BY <1>3, <2>2
  <2>4. /\ u \in TxType
        /\ u.pc = "next" /\ u.job = t.job /\ u.todo = Tail(t.todo)
        /\ u.ids = Append(t.ids, cache[c]) /\ u.mine = t.mine /\ u.stats = t.stats
    BY <1>1, <1>3, <2>1, <2>2, <2>3 DEF TxType
  <2>5. Change(w, u) /\ UNCHANGED <<page, queue, table, stored, failures, restarts, sequence, cache>>
    BY <1>4, <2>1 DEF CachedPosition, Outside, c
  <2>6. tx' \in [Workers -> TxType] /\ tx'[w] = u /\ \A v \in Workers \ {w} : tx'[v] = tx[v]
    BY <2>4, <2>5, Updated
  <2>7. DoesCached(w, c)
    BY <1>1, <1>2, <2>2, <2>4, <2>5, <2>6 DEF DoesCached, Does, Active
  <2> QED BY <1>1, <2>7 DEF DoesNext
<1>5. CASE UpsertPosition(w)
  <2> DEFINE new == Visible(w, c) = 0
             id == IF new THEN sequence + 1 ELSE Visible(w, c)
             mine == [t.mine EXCEPT ![c] = IF new THEN id ELSE @]
  <2>1. PICK u : u = [t EXCEPT !.pc = "next", !.todo = Tail(@), !.ids = Append(@, id), !.mine[c] = IF new THEN id ELSE @]
    OBVIOUS
  <2>2. t.pc = "upserting" /\ ~Waits(w)
    BY <1>5 DEF UpsertPosition, In
  <2>3. t.mine \in [Keys -> Nat] /\ table \in [Keys -> Nat] /\ sequence \in Nat
    BY <1>1 DEF TxType, Types
  <2>4. Visible(w, c) \in Nat
    BY <1>2, <2>3 DEF Visible
  <2>5. id \in Nat /\ mine \in [Keys -> Nat] /\ Append(t.ids, id) \in Seq(Nat)
    BY <1>2, <1>3, <2>3, <2>4
  <2>6. /\ Change(w, u) /\ UNCHANGED <<page, queue, table, stored, failures, restarts>>
        /\ sequence' = IF new THEN id ELSE sequence
        /\ cache' = [cache EXCEPT ![c] = id]
    BY <1>5, <2>1 DEF UpsertPosition, Outside, c
  <2>7. new => Free(w, c)
    BY <1>2, <2>2, NotWaiting DEF In, c
  <2>8. u = [t EXCEPT !.pc = "next", !.todo = Tail(t.todo), !.ids = Append(t.ids, id), !.mine = mine]
    BY <2>1
  <2> HIDE DEF id, mine, new
  <2>9. /\ u \in TxType
        /\ u.pc = "next" /\ u.job = t.job /\ u.todo = Tail(t.todo)
        /\ u.ids = Append(t.ids, id) /\ u.mine = mine /\ u.stats = t.stats
    BY <1>1, <1>3, <2>5, <2>8 DEF TxType
  <2>10. tx' \in [Workers -> TxType] /\ tx'[w] = u /\ \A v \in Workers \ {w} : tx'[v] = tx[v]
    BY <2>6, <2>9, Updated
  <2>11. Does(w, c, Append(t.ids, id), mine, t.stats)
    BY <1>1, <1>2, <2>2, <2>6, <2>9, <2>10 DEF Does, Active
  <2>12. CASE new
    <3>1. id = sequence + 1 /\ mine = [t.mine EXCEPT ![c] = sequence + 1]
      BY <2>12 DEF id, mine
    <3>2. DoesNew(w, c)
      BY <1>1, <2>6, <2>7, <2>11, <2>12, <3>1 DEF DoesNew
    <3> QED BY <1>1, <3>2 DEF DoesNext
  <2>13. CASE ~new
    <3>1. id = Visible(w, c) /\ mine = t.mine /\ Visible(w, c) # 0
      BY <2>3, <2>13 DEF id, mine, new
    <3>2. DoesFound(w, c)
      BY <1>1, <2>6, <2>11, <2>13, <3>1 DEF DoesFound
    <3> QED BY <1>1, <3>2 DEF DoesNext
  <2> QED BY <2>12, <2>13
<1> QED BY <1>4, <1>5

\* The insert of a key that is no position.
LEMMA KeyDoes ==
  ASSUME Types, ListInv, NEW w \in Workers, NEW e, e = Current(w), In(w, "upserting"), ~Waits(w),
         e \notin Codes, e \in Item => ~CountryMissing(e),
         NEW stats \in SUBSET (Tables \X Teams),
         stats = IF e \in Item /\ Stores(e) THEN tx[w].stats \cup {<<e.in, e.team>>} ELSE tx[w].stats,
         Change(w, [WithKey(w, Key(e)) EXCEPT !.stats = stats]),
         UNCHANGED <<Outside, sequence, cache>>
  PROVE  DoesNext(w)
<1> DEFINE t == tx[w]
           k == Key(e)
           mine == [t.mine EXCEPT ![k] = IF Visible(w, k) = 0 THEN 1 ELSE @]
           u == [WithKey(w, k) EXCEPT !.stats = stats]
<1>1. t \in TxType /\ t.todo # <<>> /\ e # None
  BY DEF Types, ListInv, In
<1>2. t.todo \in Seq(Entry) /\ Tail(t.todo) \in Seq(Entry) /\ e = Head(t.todo) /\ e \in Entry
  BY <1>1 DEF TxType, Current
<1>3. k \in Keys \ Codes /\ k = Key(Current(w))
  <2>1. CASE e \in Keys
    BY <2>1 DEF Key
  <2>2. CASE e \notin Keys
    <3>1. e \in Item
      BY <1>1, <1>2, <2>2 DEF Entry
    <3>2. e.team \in Teams
      BY <3>1 DEF Item
    <3> QED BY <2>2, <3>2, SortsHold DEF Key, Keys, Sorts
  <2> QED BY <2>1, <2>2
<1>4. t.mine \in [Keys -> Nat] /\ Visible(w, k) \in Nat
  BY <1>1, <1>3 DEF TxType, Types, Visible
<1>5. mine \in [Keys -> Nat]
  BY <1>3, <1>4
<1>6. u = [t EXCEPT !.pc = "next", !.todo = Tail(t.todo), !.mine = mine, !.stats = stats]
  BY DEF WithKey
<1> HIDE DEF mine, u
<1>7. /\ u \in TxType
      /\ u.pc = "next" /\ u.job = t.job /\ u.todo = Tail(t.todo)
      /\ u.ids = t.ids /\ u.mine = mine /\ u.stats = stats
  BY <1>1, <1>2, <1>5, <1>6 DEF TxType
<1>8. tx' \in [Workers -> TxType] /\ tx'[w] = u /\ \A v \in Workers \ {w} : tx'[v] = tx[v]
  BY <1>7, Updated DEF u
<1>9. Does(w, e, t.ids, mine, stats)
  BY <1>1, <1>2, <1>7, <1>8 DEF Does, Active, In, Outside
<1>10. \/ Visible(w, k) # 0 /\ mine = t.mine
       \/ Free(w, k) /\ mine = [t.mine EXCEPT ![k] = 1]
  <2>1. CASE Visible(w, k) = 0
    BY <1>3, <2>1, NotWaiting DEF mine
  <2>2. CASE Visible(w, k) # 0
    BY <1>3, <1>4, <2>2 DEF mine
  <2> QED BY <2>1, <2>2
<1>11. DoesKey(w, e, mine, stats)
  BY <1>1, <1>3, <1>9, <1>10 DEF DoesKey
<1> QED BY <1>2, <1>5, <1>11 DEF DoesNext

LEMMA RowDoes ==
  ASSUME Types, ListInv, NEW w \in Workers, NEW name \in Tables, UpsertRow(w, name)
  PROVE  DoesNext(w)
<1> DEFINE e == Current(w)
           stats == IF Stores(e) THEN tx[w].stats \cup {<<name, e.team>>} ELSE tx[w].stats
<1>1. /\ In(w, "upserting") /\ e \notin Keys /\ e.in = name /\ ~Waits(w) /\ ~CountryMissing(e)
      /\ Change(w, [WithKey(w, e.team) EXCEPT !.stats = IF Stores(e) THEN @ \cup {<<name, e.team>>} ELSE @])
      /\ UNCHANGED <<Outside, sequence, cache>>
  BY DEF UpsertRow
<1>2. tx[w] \in TxType /\ tx[w].todo # <<>> /\ e # None
  BY <1>1 DEF Types, ListInv, In
<1>3. e \in Entry
  BY <1>2 DEF TxType, Current
<1>4. e \in Item /\ e \notin Codes /\ Key(e) = e.team
  BY <1>1, <1>2, <1>3 DEF Entry, Key, Keys
<1>5. e.team \in Teams
  BY <1>4 DEF Item
<1>6. WithKey(w, e.team).stats = tx[w].stats
  BY <1>2 DEF WithKey, TxType
<1>7. Change(w, [WithKey(w, e.team) EXCEPT !.stats = stats])
  BY <1>1, <1>6
<1>8. stats \in SUBSET (Tables \X Teams)
  BY <1>2, <1>5 DEF TxType
<1> HIDE DEF e
<1>9. stats = IF e \in Item /\ Stores(e) THEN tx[w].stats \cup {<<e.in, e.team>>} ELSE tx[w].stats
  BY <1>1, <1>4
<1> HIDE DEF stats
<1> QED BY <1>1, <1>4, <1>7, <1>8, <1>9, KeyDoes DEF e

LEMMA ProgressDoes ==
  ASSUME Types, ListInv, NEW w \in Workers,
         \/ CachedPosition(w) \/ UpsertPosition(w) \/ UpsertCity(w) \/ UpsertTeamStub(w)
         \/ UpsertStd(w) \/ UpsertShooting(w) \/ UpsertPlayingTime(w) \/ UpsertMisc(w)
         \/ StorePlayer(w)
  PROVE  DoesNext(w)
<1>1. tx[w] \in TxType
  BY DEF Types
<1>2. CASE UpsertCity(w) \/ UpsertTeamStub(w)
  <2> DEFINE e == Current(w)
  <2>1. /\ In(w, "upserting") /\ e \in Cities \cup Teams /\ ~Waits(w)
        /\ Change(w, WithKey(w, e)) /\ UNCHANGED <<Outside, sequence, cache>>
    BY <1>2 DEF UpsertCity, UpsertTeamStub
  <2>2. e \notin Codes /\ e \notin Item /\ Key(e) = e
    BY <2>1, SortsHold DEF Sorts, Keys, Key
  <2>3. WithKey(w, e) = [WithKey(w, e) EXCEPT !.stats = tx[w].stats]
    BY <1>1 DEF WithKey, TxType
  <2>4. tx[w].stats \in SUBSET (Tables \X Teams)
    BY <1>1 DEF TxType
  <2> HIDE DEF e
  <2> QED BY <2>1, <2>2, <2>3, <2>4, KeyDoes DEF e
<1>3. CASE UpsertStd(w) \/ UpsertShooting(w) \/ UpsertPlayingTime(w) \/ UpsertMisc(w)
  BY <1>3, RowDoes DEF UpsertStd, UpsertShooting, UpsertPlayingTime, UpsertMisc, Tables
<1>4. CASE StorePlayer(w)
  <2> DEFINE t == tx[w]
  <2>1. /\ t.pc = "next" /\ t.todo # <<>> /\ Head(t.todo) = None /\ KeysHold(w)
        /\ Change(w, [t EXCEPT !.todo = Tail(@)])
        /\ UNCHANGED <<Outside, sequence, cache>>
    BY <1>4 DEF StorePlayer, In, Current
  <2>2. PICK u : u = [t EXCEPT !.todo = Tail(t.todo)]
    OBVIOUS
  <2>3. t.todo \in Seq(Entry) /\ Tail(t.todo) \in Seq(Entry)
    BY <1>1, <2>1 DEF TxType
  <2>4. /\ u \in TxType
        /\ u.pc = "next" /\ u.job = t.job /\ u.todo = Tail(t.todo)
        /\ u.ids = t.ids /\ u.mine = t.mine /\ u.stats = t.stats
    BY <1>1, <2>1, <2>2, <2>3 DEF TxType
  <2>5. tx' \in [Workers -> TxType] /\ tx'[w] = u /\ \A v \in Workers \ {w} : tx'[v] = tx[v]
    BY <2>1, <2>2, <2>4, Updated
  <2> QED BY <2>1, <2>4, <2>5 DEF DoesNext, DoesPlayer, Does, Active, Outside
<1> QED BY <1>2, <1>3, <1>4, PositionDoes

----------------------------------------------------------------------------
(* The next entry keeps the invariant *)

LEMMA DoesTypes ==
  ASSUME Types, NEW w \in Workers, DoesNext(w)
  PROVE  Types'
<1>1. PICK e, ids, mine, stats : Does(w, e, ids, mine, stats)
  BY DEF DoesNext, DoesCached, DoesFound, DoesNew, DoesKey, DoesPlayer
<1>2. /\ tx' \in [Workers -> TxType]
      /\ UNCHANGED <<page, queue, table, stored, failures, restarts>>
  BY <1>1 DEF Does
<1>3. sequence' \in Nat /\ cache' \in [Codes -> Nat]
  <2>1. CASE UNCHANGED <<sequence, cache>>
    BY <2>1 DEF Types
  <2>2. ASSUME NEW c \in Codes, DoesFound(w, c) PROVE sequence' \in Nat /\ cache' \in [Codes -> Nat]
    <3>1. Visible(w, c) \in Nat
      BY DEF Visible, Types, TxType, Keys
    <3> QED BY <2>2, <3>1 DEF DoesFound, Types
  <2>3. ASSUME NEW c \in Codes, DoesNew(w, c) PROVE sequence' \in Nat /\ cache' \in [Codes -> Nat]
    BY <2>3 DEF DoesNew, Types
  <2> QED BY <2>1, <2>2, <2>3 DEF DoesNext, DoesCached, DoesKey, DoesPlayer
<1> QED BY <1>2, <1>3 DEF Types

\* The list of a running transaction.
LEMMA ActiveList ==
  ASSUME Types, JobInv, ListInv, NEW w \in Workers, Active(w)
  PROVE  LET codes == ParsePositions(page[tx[w].job]) IN
         /\ tx[w].job \in Jobs /\ page[tx[w].job] \in PageSet
         /\ codes \in Seq(Codes) /\ List(w) \in Seq(Entry)
         /\ Begins(List(w), codes)
         /\ None \in Elements(List(w)) /\ Elements(List(w)) \cap Item = Read(page[tx[w].job])
         /\ Len(tx[w].todo) \in Nat /\ Len(List(w)) \in Nat /\ Len(codes) \in Nat
         /\ Count(w) \in 0 .. Len(List(w)) /\ Len(tx[w].todo) = Len(List(w)) - Count(w)
         /\ TxInv(w)
<1>1. tx[w].job \in Jobs /\ TxInv(w) /\ tx[w] \in TxType
  BY DEF Active, JobInv, ListInv, Types
<1>2. page[tx[w].job] \in PageSet
  BY <1>1, DataAssumption DEF Types
<1>3. ParsePositions(page[tx[w].job]) \in Seq(Codes)
  BY <1>2, CodesParsed
<1>4. /\ List(w) \in Seq(Entry)
      /\ Begins(List(w), ParsePositions(page[tx[w].job]))
      /\ None \in Elements(List(w)) /\ Elements(List(w)) \cap Item = Read(page[tx[w].job])
  BY <1>2, WorkFacts DEF List
<1>5. Len(tx[w].todo) \in Nat /\ Len(List(w)) \in Nat /\ Len(ParsePositions(page[tx[w].job])) \in Nat
  BY <1>1, <1>3, <1>4 DEF TxType
<1>6. Count(w) \in 0 .. Len(List(w)) /\ Len(tx[w].todo) = Len(List(w)) - Count(w)
  BY <1>1, <1>5 DEF TxInv, TodoInv, Count
<1> QED BY <1>1, <1>2, <1>3, <1>4, <1>5, <1>6

\* The entry that is done is the next one of the list.
LEMMA DoesCounts ==
  ASSUME Types, JobInv, ListInv, NEW w \in Workers, NEW e, NEW ids, NEW mine, NEW stats,
         Does(w, e, ids, mine, stats)
  PROVE  /\ UNCHANGED List(w) /\ Count(w) \in 0 .. Len(List(w)) - 1
         /\ Count(w)' = Count(w) + 1 /\ e = List(w)[Count(w) + 1]
         /\ TodoInv(w)'
<1>1. /\ Active(w) /\ tx[w].todo # <<>> /\ e = Head(tx[w].todo)
      /\ tx'[w].job = tx[w].job /\ tx'[w].todo = Tail(tx[w].todo) /\ UNCHANGED page
  BY DEF Does
<1>2. tx[w].todo \in Seq(Entry)
  BY DEF Types, TxType
<1>3. /\ e = tx[w].todo[1] /\ Len(tx[w].todo) \in Nat \ {0}
      /\ Len(tx'[w].todo) = Len(tx[w].todo) - 1
      /\ \A i \in 1 .. Len(tx[w].todo) - 1 : tx'[w].todo[i] = tx[w].todo[i + 1]
  BY <1>1, <1>2, TodoFacts
<1>4. UNCHANGED List(w)
  BY <1>1 DEF List
<1>5. Len(List(w)) \in Nat /\ Count(w) \in 0 .. Len(List(w)) /\ Len(tx[w].todo) = Len(List(w)) - Count(w) /\ TxInv(w)
  BY <1>1, ActiveList
<1>6. Count(w)' = Count(w) + 1 /\ Count(w) \in 0 .. Len(List(w)) - 1
  BY <1>3, <1>4, <1>5 DEF Count
<1>7. e = List(w)[Count(w) + 1]
  BY <1>3, <1>5 DEF TxInv, TodoInv
<1>8. TodoInv(w)'
  <2>1. Len(tx'[w].todo) <= Len(List(w)')
    BY <1>3, <1>4, <1>5
  <2>2. ASSUME NEW i \in 1 .. Len(tx'[w].todo) PROVE tx'[w].todo[i] = List(w)'[Count(w)' + i]
    <3>1. i + 1 \in 1 .. Len(tx[w].todo) /\ i \in 1 .. Len(tx[w].todo) - 1
      BY <1>3
    <3>2. tx[w].todo[i + 1] = List(w)[Count(w) + (i + 1)]
      BY <1>5, <3>1 DEF TxInv, TodoInv
    <3>3. Count(w) + (i + 1) = Count(w)' + i
      BY <1>5, <1>6
    <3> QED BY <1>3, <1>4, <3>1, <3>2, <3>3
  <2> QED BY <2>1, <2>2 DEF TodoInv
<1> QED BY <1>4, <1>6, <1>7, <1>8

\* The codes are the first entries: a code finds one id for each code before it,
\* any other entry finds the ids complete.
LEMMA DoesIds ==
  ASSUME Types, JobInv, ListInv, NEW w \in Workers, NEW e, NEW ids, NEW mine, NEW stats,
         Does(w, e, ids, mine, stats),
         NEW id \in Nat \ {0}, ids = IF e \in Codes THEN Append(tx[w].ids, id) ELSE tx[w].ids
  PROVE  /\ IdsInv(w)'
         /\ e \in Codes => ParsePositions(page[tx[w].job])[Len(tx[w].ids) + 1] = e
<1> DEFINE codes == ParsePositions(page[tx[w].job])
           n == Count(w)
           old == tx[w].ids
<1>1. /\ UNCHANGED List(w) /\ n \in 0 .. Len(List(w)) - 1 /\ Count(w)' = n + 1 /\ e = List(w)[n + 1]
  BY DoesCounts
<1>2. Active(w) /\ tx'[w].job = tx[w].job /\ UNCHANGED page /\ tx'[w].ids = ids
  BY DEF Does
<1>3. Len(codes) \in Nat /\ Len(List(w)) \in Nat /\ Begins(List(w), codes) /\ TxInv(w) /\ codes \in Seq(Codes)
  BY <1>2, ActiveList
<1>4. Len(old) = (IF n < Len(codes) THEN n ELSE Len(codes)) /\ \A i \in 1 .. Len(old) : old[i] # 0
  BY <1>3 DEF TxInv, IdsInv
<1>5. old \in Seq(Nat)
  BY DEF Types, TxType
<1>6. n + 1 \in 1 .. Len(List(w)) /\ n \in Nat
  BY <1>1, <1>3
<1> HIDE DEF n, old, codes
<1>7. e \in Codes => n + 1 <= Len(codes) /\ codes[n + 1] = e
  <2>1. ASSUME n + 1 > Len(codes) PROVE e \notin Codes
    BY <1>1, <1>3, <1>6, <2>1 DEF Begins
  <2>2. ASSUME n + 1 <= Len(codes) PROVE codes[n + 1] = e
    BY <1>1, <1>3, <1>6, <2>2 DEF Begins
  <2> QED BY <1>3, <1>6, <2>1, <2>2
<1>8. e \notin Codes => n >= Len(codes)
  <2>1. ASSUME n + 1 \in 1 .. Len(codes) PROVE e \in Codes
    <3>1. codes[n + 1] = e
      BY <1>1, <1>3, <2>1 DEF Begins
    <3> QED BY <1>3, <2>1, <3>1
  <2> QED BY <1>3, <1>6, <2>1
<1>9. codes' = codes
  BY <1>2 DEF codes
<1>10. CASE e \in Codes
  <2>1. Len(old) = n
    BY <1>3, <1>4, <1>6, <1>7, <1>10
  <2>2. ids = Append(old, id)
    BY <1>10 DEF old
  <2>3. Len(ids) = n + 1 /\ \A i \in 1 .. n + 1 : ids[i] = IF i <= n THEN old[i] ELSE id
    <3>1. Len(ids) = Len(old) + 1
      BY <1>5, <2>2, AppendProperties
    <3>2. \A i \in 1 .. Len(old) : ids[i] = old[i]
      BY <1>5, <2>2, AppendProperties
    <3>3. ids[Len(old) + 1] = id
      BY <1>5, <2>2, AppendProperties
    <3> QED BY <1>6, <2>1, <3>1, <3>2, <3>3
  <2>4. \A i \in 1 .. Len(ids) : ids[i] # 0
    BY <1>4, <1>6, <2>1, <2>3
  <2>5. Len(ids) = IF n + 1 < Len(codes) THEN n + 1 ELSE Len(codes)
    BY <1>3, <1>6, <1>7, <1>10, <2>3
  <2>6. IdsInv(w)'
    BY <1>1, <1>2, <1>9, <2>4, <2>5 DEF IdsInv, codes
  <2> QED BY <1>7, <1>10, <2>1, <2>6 DEF codes, old
<1>11. CASE e \notin Codes
  <2>1. ids = old
    BY <1>11 DEF old
  <2>2. Len(ids) = IF n + 1 < Len(codes) THEN n + 1 ELSE Len(codes)
    BY <1>3, <1>4, <1>6, <1>8, <1>11, <2>1
  <2>3. IdsInv(w)'
    BY <1>1, <1>2, <1>4, <1>9, <2>1, <2>2 DEF IdsInv, codes
  <2> QED BY <1>11, <2>3
<1> QED BY <1>10, <1>11

\* A key that the step inserted is the entry's.
LEMMA DoesMine ==
  ASSUME Types, JobInv, ListInv, NEW w \in Workers, NEW e, NEW ids, NEW mine, NEW stats,
         Does(w, e, ids, mine, stats),
         \A k \in Keys : mine[k] = tx[w].mine[k] \/ (e # None /\ Key(e) = k)
  PROVE  MineInv(w)'
<1>1. /\ UNCHANGED List(w) /\ Count(w) \in 0 .. Len(List(w)) - 1 /\ Count(w)' = Count(w) + 1
      /\ e = List(w)[Count(w) + 1]
  BY DoesCounts
<1>2. Active(w) /\ tx'[w].mine = mine
  BY DEF Does
<1>3. MineInv(w) /\ Len(List(w)) \in Nat
  BY <1>2, ActiveList DEF TxInv
<1>4. ASSUME NEW k \in Keys, mine[k] # 0
      PROVE  \E i \in 1 .. Count(w) + 1 : List(w)[i] # None /\ Key(List(w)[i]) = k
  <2>1. CASE e # None /\ Key(e) = k
    BY <1>1, <1>3, <2>1
  <2>2. CASE mine[k] = tx[w].mine[k]
    BY <1>1, <1>3, <1>4, <2>2 DEF MineInv
  <2> QED BY <2>1, <2>2
<1> QED BY <1>1, <1>2, <1>4 DEF MineInv

\* A row that is stored is the entry.
LEMMA DoesStats ==
  ASSUME Types, JobInv, ListInv, NEW w \in Workers, NEW e, NEW ids, NEW mine, NEW stats,
         Does(w, e, ids, mine, stats),
         stats = IF e \in Item /\ Stores(e) THEN tx[w].stats \cup {<<e.in, e.team>>} ELSE tx[w].stats
  PROVE  StatsInv(w)'
<1>1. /\ UNCHANGED List(w) /\ Count(w) \in 0 .. Len(List(w)) - 1 /\ Count(w)' = Count(w) + 1
      /\ e = List(w)[Count(w) + 1]
  BY DoesCounts
<1>2. Active(w) /\ tx'[w].stats = stats
  BY DEF Does
<1>3. StatsInv(w) /\ Len(List(w)) \in Nat
  BY <1>2, ActiveList DEF TxInv
<1> DEFINE kept(n) == {m \in 1 .. n : List(w)[m] \in Item /\ Stores(List(w)[m])}
           of(n) == {<<List(w)[i].in, List(w)[i].team>> : i \in kept(n)}
<1>4. kept(Count(w) + 1) = IF e \in Item /\ Stores(e) THEN kept(Count(w)) \cup {Count(w) + 1} ELSE kept(Count(w))
  BY <1>1, <1>3
<1> HIDE DEF kept
<1>5. of(Count(w) + 1) = IF e \in Item /\ Stores(e) THEN of(Count(w)) \cup {<<e.in, e.team>>} ELSE of(Count(w))
  BY <1>1, <1>4
<1>6. tx[w].stats = of(Count(w))
  BY <1>3 DEF StatsInv, kept
<1>7. stats = of(Count(w) + 1)
  BY <1>5, <1>6
<1>8. StatsInv(w)' <=> tx'[w].stats = of(Count(w) + 1)
  BY <1>1 DEF StatsInv, kept
<1> QED BY <1>2, <1>7, <1>8

\* Keys are only added to a transaction.
Adds(w, mine) == \A k \in Keys : mine[k] = tx[w].mine[k] \/ (Free(w, k) /\ mine[k] # 0)

LEMMA DoesRows ==
  ASSUME Types, JobInv, ListInv, NEW w \in Workers, NEW e, NEW ids, NEW mine, NEW stats,
         Does(w, e, ids, mine, stats), Adds(w, mine),
         e \in Item => ~CountryMissing(e) /\ (IF mine[e.team] # 0 THEN mine[e.team] ELSE table[e.team]) # 0
  PROVE  RowsInv(w)'
<1>1. /\ UNCHANGED List(w) /\ Count(w) \in 0 .. Len(List(w)) - 1 /\ Count(w)' = Count(w) + 1
      /\ e = List(w)[Count(w) + 1]
  BY DoesCounts
<1>2. Active(w) /\ tx'[w].mine = mine /\ UNCHANGED table
  BY DEF Does
<1>3. RowsInv(w) /\ Len(List(w)) \in Nat
  BY <1>2, ActiveList DEF TxInv
<1> DEFINE sees(k) == IF mine[k] # 0 THEN mine[k] ELSE table[k]
<1>4. ASSUME NEW i \in 1 .. Count(w) + 1, List(w)[i] \in Item
      PROVE  sees(List(w)[i].team) # 0 /\ ~CountryMissing(List(w)[i])
  <2>1. List(w)[i].team \in Keys
    BY <1>4 DEF Item, Keys
  <2>2. CASE i = Count(w) + 1
    BY <1>1, <1>4, <2>2
  <2>3. CASE i # Count(w) + 1
    <3>1. i \in 1 .. Count(w)
      BY <1>1, <1>3, <2>3
    <3>2. Visible(w, List(w)[i].team) # 0 /\ ~CountryMissing(List(w)[i])
      BY <1>3, <1>4, <3>1 DEF RowsInv
    <3> QED BY <2>1, <3>2 DEF Adds, Free, Visible
  <2> QED BY <2>2, <2>3
<1>5. \A k : Visible(w, k)' = sees(k)
  BY <1>2 DEF Visible
<1> QED BY <1>1, <1>4, <1>5 DEF RowsInv, CountryMissing, Stores

\* The ids that the player's row points at exist, and go on to exist.
LEMMA DoesKeysHold ==
  ASSUME Types, JobInv, ListInv, NEW w \in Workers, NEW e, NEW ids, NEW mine, NEW stats,
         Does(w, e, ids, mine, stats), Adds(w, mine),
         e \notin Codes => ids = tx[w].ids,
         e = None => KeysHold(w)
  PROVE  PlayerInv(w)'
<1> DEFINE codes == ParsePositions(page[tx[w].job])
           n == Count(w)
<1>1. /\ UNCHANGED List(w) /\ n \in 0 .. Len(List(w)) - 1 /\ Count(w)' = n + 1 /\ e = List(w)[n + 1]
  BY DoesCounts
<1>2. Active(w) /\ tx'[w].mine = mine /\ tx'[w].ids = ids /\ UNCHANGED table
  BY DEF Does
<1>3. /\ PlayerInv(w) /\ IdsInv(w) /\ Len(List(w)) \in Nat /\ Len(codes) \in Nat
      /\ Begins(List(w), codes) /\ codes \in Seq(Codes)
  BY <1>2, ActiveList DEF TxInv
<1>4. n + 1 \in 1 .. Len(List(w)) /\ n \in Nat
  BY <1>1, <1>3
<1> HIDE DEF n, codes
<1>5. CASE e \in Codes
  <2>1. n + 1 <= Len(codes)
    BY <1>1, <1>3, <1>4, <1>5 DEF Begins
  <2>2. ASSUME NEW i \in 1 .. n + 1 PROVE List(w)[i] # None
    <3>1. i \in 1 .. Len(codes)
      BY <1>3, <1>4, <2>1
    <3>2. List(w)[i] = codes[i] /\ codes[i] \in Codes
      BY <1>3, <3>1 DEF Begins
    <3> QED BY <3>2, SortsHold DEF Sorts
  <2> QED BY <1>1, <2>2 DEF PlayerInv
<1>6. CASE e \notin Codes /\ \E i \in 1 .. n + 1 : List(w)[i] = None
  <2>1. KeysHold(w)
    <3>1. PICK i \in 1 .. n + 1 : List(w)[i] = None
      BY <1>6
    <3>2. CASE i = n + 1
      BY <1>1, <3>1, <3>2
    <3>3. CASE i # n + 1
      BY <1>3, <1>4, <3>1, <3>3 DEF PlayerInv, n
    <3> QED BY <3>2, <3>3
  <2>2. ASSUME NEW i \in 1 .. Len(ids) PROVE Exists(w, ids[i])'
    <3>1. ids = tx[w].ids /\ Exists(w, ids[i]) /\ ids[i] # 0
      BY <1>3, <1>6, <2>1, <2>2 DEF KeysHold, IdsInv
    <3>2. PICK c \in Codes : ids[i] = table[c] \/ ids[i] = tx[w].mine[c]
      BY <3>1 DEF Exists
    <3>3. ids[i] = table[c] \/ ids[i] = mine[c]
      BY <3>1, <3>2 DEF Adds, Free, Keys
    <3> QED BY <1>2, <3>3 DEF Exists
  <2> QED BY <1>2, <2>2 DEF PlayerInv, KeysHold, Exists
<1>7. CASE ~\E i \in 1 .. n + 1 : List(w)[i] = None
  BY <1>1, <1>7 DEF PlayerInv
<1> QED BY <1>5, <1>6, <1>7

\* The kinds of entries in one.
LEMMA DoesSummary ==
  ASSUME Types, NEW w \in Workers, DoesNext(w)
  PROVE  \E e, ids, mine, stats : \E id \in Nat \ {0} :
           /\ Does(w, e, ids, mine, stats) /\ Adds(w, mine)
           /\ ids = IF e \in Codes THEN Append(tx[w].ids, id) ELSE tx[w].ids
           /\ \A k \in Keys : mine[k] = tx[w].mine[k] \/ (e # None /\ Key(e) = k)
           /\ stats = IF e \in Item /\ Stores(e) THEN tx[w].stats \cup {<<e.in, e.team>>} ELSE tx[w].stats
           /\ e \in Item => ~CountryMissing(e) /\ (IF mine[e.team] # 0 THEN mine[e.team] ELSE table[e.team]) # 0
           /\ e = None => KeysHold(w)
<1> DEFINE t == tx[w]
           Summary(e, ids, mine, stats, id) ==
           /\ Does(w, e, ids, mine, stats) /\ Adds(w, mine)
           /\ ids = IF e \in Codes THEN Append(t.ids, id) ELSE t.ids
           /\ \A k \in Keys : mine[k] = t.mine[k] \/ (e # None /\ Key(e) = k)
           /\ stats = IF e \in Item /\ Stores(e) THEN t.stats \cup {<<e.in, e.team>>} ELSE t.stats
           /\ e \in Item => ~CountryMissing(e) /\ (IF mine[e.team] # 0 THEN mine[e.team] ELSE table[e.team]) # 0
           /\ e = None => KeysHold(w)
<1>1. t \in TxType /\ t.mine \in [Keys -> Nat] /\ table \in [Keys -> Nat] /\ cache \in [Codes -> Nat] /\ sequence \in Nat
  BY DEF Types, TxType
<1>2. ASSUME NEW e \in Codes PROVE e \in Keys /\ Key(e) = e /\ e \notin Item /\ e # None
  BY SortsHold DEF Sorts, Keys, Key
<1>3. ASSUME NEW e \in Codes, DoesCached(w, e)
      PROVE  \E ids, mine, stats : \E id \in Nat \ {0} : Summary(e, ids, mine, stats, id)
  <2>1. cache[e] \in Nat \ {0}
    BY <1>1, <1>3 DEF DoesCached
  <2>2. Summary(e, Append(t.ids, cache[e]), t.mine, t.stats, cache[e])
    BY <1>2, <1>3 DEF DoesCached, Adds
  <2> QED BY <2>1, <2>2
<1>4. ASSUME NEW e \in Codes, DoesFound(w, e)
      PROVE  \E ids, mine, stats : \E id \in Nat \ {0} : Summary(e, ids, mine, stats, id)
  <2>1. Visible(w, e) \in Nat \ {0}
    BY <1>1, <1>2, <1>4 DEF DoesFound, Visible
  <2>2. Summary(e, Append(t.ids, Visible(w, e)), t.mine, t.stats, Visible(w, e))
    BY <1>2, <1>4 DEF DoesFound, Adds
  <2> QED BY <2>1, <2>2
<1>5. ASSUME NEW e \in Codes, DoesNew(w, e)
      PROVE  \E ids, mine, stats : \E id \in Nat \ {0} : Summary(e, ids, mine, stats, id)
  <2> DEFINE mine == [t.mine EXCEPT ![e] = sequence + 1]
  <2>1. sequence + 1 \in Nat \ {0}
    BY <1>1
  <2>2. \A k \in Keys : mine[k] = IF k = e THEN sequence + 1 ELSE t.mine[k]
    BY <1>1, <1>2
  <2>3. Free(w, e) /\ Does(w, e, Append(t.ids, sequence + 1), mine, t.stats)
    BY <1>5 DEF DoesNew
  <2> HIDE DEF mine
  <2>4. Summary(e, Append(t.ids, sequence + 1), mine, t.stats, sequence + 1)
    BY <1>2, <2>1, <2>2, <2>3 DEF Adds
  <2> QED BY <2>1, <2>4
<1>6. ASSUME NEW e, NEW mine, NEW stats, DoesKey(w, e, mine, stats)
      PROVE  Summary(e, t.ids, mine, stats, 1)
  <2>1. /\ e \notin Codes /\ e # None /\ Key(e) \in Keys
        /\ Does(w, e, t.ids, mine, stats)
        /\ stats = IF e \in Item /\ Stores(e) THEN t.stats \cup {<<e.in, e.team>>} ELSE t.stats
        /\ e \in Item => ~CountryMissing(e)
    BY <1>6 DEF DoesKey
  <2>2. \/ Visible(w, Key(e)) # 0 /\ mine = t.mine
        \/ Free(w, Key(e)) /\ mine = [t.mine EXCEPT ![Key(e)] = 1]
    BY <1>6 DEF DoesKey
  <2>3. /\ \A k \in Keys : mine[k] = t.mine[k] \/ (Free(w, k) /\ mine[k] # 0 /\ Key(e) = k)
        /\ (IF mine[Key(e)] # 0 THEN mine[Key(e)] ELSE table[Key(e)]) # 0
    <3>1. CASE Visible(w, Key(e)) # 0 /\ mine = t.mine
      BY <3>1 DEF Visible
    <3>2. CASE Free(w, Key(e)) /\ mine = [t.mine EXCEPT ![Key(e)] = 1]
      <4>1. \A k \in Keys : mine[k] = IF k = Key(e) THEN 1 ELSE t.mine[k]
        BY <1>1, <3>2
      <4> QED BY <2>1, <3>2, <4>1
    <3> QED BY <2>2, <3>1, <3>2
  <2>4. e \in Item => Key(e) = e.team
    BY SortsHold DEF Sorts, Key
  <2> QED BY <2>1, <2>3, <2>4 DEF Adds
<1>7. ASSUME DoesPlayer(w) PROVE Summary(None, t.ids, t.mine, t.stats, 1)
  <2>1. None \notin Codes /\ None \notin Item
    BY SortsHold DEF Sorts
  <2> QED BY <1>7, <2>1 DEF DoesPlayer, Adds
<1>8. 1 \in Nat \ {0}
  OBVIOUS
<1>9. \E e, ids, mine, stats : \E id \in Nat \ {0} : Summary(e, ids, mine, stats, id)
  <2> HIDE DEF Summary, t
  <2> QED BY <1>3, <1>4, <1>5, <1>6, <1>7, <1>8, Zenon DEF DoesNext
<1> QED BY <1>9, Zenon

LEMMA DoesTx ==
  ASSUME Types, JobInv, ListInv, NEW w \in Workers, DoesNext(w)
  PROVE  TxInv(w)' /\ tx'[w].pc = "next"
<1>1. PICK e, ids, mine, stats : \E id \in Nat \ {0} :
           /\ Does(w, e, ids, mine, stats) /\ Adds(w, mine)
           /\ ids = IF e \in Codes THEN Append(tx[w].ids, id) ELSE tx[w].ids
           /\ \A k \in Keys : mine[k] = tx[w].mine[k] \/ (e # None /\ Key(e) = k)
           /\ stats = IF e \in Item /\ Stores(e) THEN tx[w].stats \cup {<<e.in, e.team>>} ELSE tx[w].stats
           /\ e \in Item => ~CountryMissing(e) /\ (IF mine[e.team] # 0 THEN mine[e.team] ELSE table[e.team]) # 0
           /\ e = None => KeysHold(w)
  BY DoesSummary
<1>2. TodoInv(w)'
  BY <1>1, DoesCounts
<1>3. IdsInv(w)'
  BY <1>1, DoesIds
<1>4. MineInv(w)'
  BY <1>1, DoesMine
<1>5. StatsInv(w)'
  BY <1>1, DoesStats
<1>6. RowsInv(w)'
  BY <1>1, DoesRows
<1>7. PlayerInv(w)'
  BY <1>1, DoesKeysHold
<1> QED BY <1>1, <1>2, <1>3, <1>4, <1>5, <1>6, <1>7 DEF TxInv, Does

\* A transaction that the step leaves alone.
LEMMA TxStays ==
  ASSUME ListInv, NEW v \in Workers, tx'[v] = tx[v], UNCHANGED <<page, table>>
  PROVE  /\ Active(v)' => TxInv(v)'
         /\ ~Active(v)' => tx'[v].mine = Nothing
         /\ tx'[v].pc = "upserting" => tx'[v].todo # <<>> /\ Current(v)' # None
<1>1. /\ UNCHANGED List(v) /\ UNCHANGED Count(v) /\ UNCHANGED Current(v)
      /\ (Active(v)' <=> Active(v)) /\ (KeysHold(v)' <=> KeysHold(v))
      /\ \A k : Visible(v, k)' = Visible(v, k)
  BY DEF List, Count, Current, Active, KeysHold, Exists, Visible
<1>2. TxInv(v) => TodoInv(v)' /\ IdsInv(v)'
  BY <1>1 DEF TxInv, TodoInv, IdsInv
<1>3. TxInv(v) => MineInv(v)' /\ StatsInv(v)' /\ PlayerInv(v)'
  BY <1>1 DEF TxInv, MineInv, StatsInv, PlayerInv
<1>4. TxInv(v) => RowsInv(v)'
  BY <1>1 DEF TxInv, RowsInv, CountryMissing, Stores
<1>5. TxInv(v) => TxInv(v)'
  BY <1>2, <1>3, <1>4 DEF TxInv
<1> QED BY <1>1, <1>5 DEF ListInv

\* What is stored, when no transaction commits.
LEMMA StoredStays ==
  ASSUME Types, StoredInv, UNCHANGED <<page, table, stored>>,
         sequence' \in Nat, sequence <= sequence',
         \A j \in Jobs : queue'[j].status = "DONE" <=> queue[j].status = "DONE"
  PROVE  StoredInv'
<1>1. StoredIds'
  BY DEF StoredInv, StoredIds, Types
<1>2. PositionsRight' /\ NothingHalf'
  BY DEF StoredInv, PositionsRight, NothingHalf
<1>3. DoneIsWhole'
  BY DEF StoredInv, DoneIsWhole
<1> QED BY <1>1, <1>2, <1>3 DEF StoredInv

LEMMA DoesList ==
  ASSUME Types, JobInv, ListInv, StoredInv, NEW w \in Workers, DoesNext(w)
  PROVE  JobInv' /\ ListInv' /\ StoredInv'
<1>1. PICK e, ids, mine, stats : Does(w, e, ids, mine, stats)
  BY DEF DoesNext, DoesCached, DoesFound, DoesNew, DoesKey, DoesPlayer
<1>2. /\ Active(w) /\ tx'[w].pc = "next" /\ tx'[w].job = tx[w].job
      /\ \A v \in Workers \ {w} : tx'[v] = tx[v]
      /\ UNCHANGED <<page, queue, table, stored>>
  BY <1>1 DEF Does
<1>3. JobInv'
  BY <1>2 DEF JobInv, Active
<1>4. ListInv'
  <2>1. TxInv(w)' /\ Active(w)'
    BY <1>2, DoesTx DEF Active
  <2>2. ASSUME NEW v \in Workers \ {w}
        PROVE  /\ Active(v)' => TxInv(v)'
               /\ ~Active(v)' => tx'[v].mine = Nothing
               /\ tx'[v].pc = "upserting" => tx'[v].todo # <<>> /\ Current(v)' # None
    BY <1>2, TxStays
  <2> QED BY <1>2, <2>1, <2>2 DEF ListInv, Nothing
<1>5. sequence' \in Nat /\ sequence \in Nat /\ sequence <= sequence'
  <2>1. sequence' = sequence \/ sequence' = sequence + 1
    BY DEF DoesNext, DoesCached, DoesFound, DoesNew, DoesKey, DoesPlayer
  <2> QED BY <2>1 DEF Types
<1>6. StoredInv'
  BY <1>2, <1>5, StoredStays
<1> QED BY <1>3, <1>4, <1>6

LEMMA DoesInsert ==
  ASSUME Types, InsertInv, KeyInv, NEW w \in Workers, DoesNext(w)
  PROVE  InsertInv' /\ KeyInv'
<1>1. PICK e, ids, mine, stats : Does(w, e, ids, mine, stats) /\ Adds(w, mine)
  BY DoesSummary
<1>2. /\ tx'[w].mine = mine /\ UNCHANGED table /\ \A v \in Workers \ {w} : tx'[v] = tx[v]
  BY <1>1 DEF Does
<1>3. \A k \in Keys : mine[k] # 0 => mine[k] = tx[w].mine[k] \/ Free(w, k)
  BY <1>1 DEF Adds
<1>4. InsertInv'
  <2>1. ASSUME NEW k \in Keys, mine[k] # 0
        PROVE  table[k] = 0 /\ \A v \in Workers \ {w} : tx[v].mine[k] = 0
    BY <1>3, <2>1 DEF Free, InsertInv
  <2> QED BY <1>2, <2>1 DEF InsertInv
<1>5. KeyInv'
  <2>1. tx[w].mine \in [Keys -> Nat]
    BY DEF Types, TxType
  <2>2. ASSUME NEW k \in Keys \ Codes PROVE mine[k] \in {0, 1}
    <3>1. tx[w].mine[k] \in {0, 1}
      BY DEF KeyInv
    <3>2. CASE \E c \in Codes : DoesCached(w, c) \/ DoesFound(w, c)
      BY <1>2, <3>1, <3>2 DEF DoesCached, DoesFound, Does
    <3>3. ASSUME NEW c \in Codes, DoesNew(w, c) PROVE mine[k] \in {0, 1}
      <4>1. mine = [tx[w].mine EXCEPT ![c] = sequence + 1] /\ k # c
        BY <1>2, <3>3 DEF DoesNew, Does
      <4> QED BY <2>1, <3>1, <4>1
    <3>4. ASSUME NEW d, NEW m, NEW s, DoesKey(w, d, m, s) PROVE mine[k] \in {0, 1}
      <4>1. mine = m /\ (m = tx[w].mine \/ m = [tx[w].mine EXCEPT ![Key(d)] = 1])
        BY <1>2, <3>4 DEF DoesKey, Does
      <4> QED BY <2>1, <3>1, <4>1
    <3>5. CASE DoesPlayer(w)
      BY <1>2, <3>1, <3>5 DEF DoesPlayer, Does
    <3> QED BY <3>2, <3>3, <3>4, <3>5 DEF DoesNext
  <2> QED BY <1>2, <2>2 DEF KeyInv
<1> QED BY <1>4, <1>5

\* The entry gets an id, if it is a code.
Gets(w, e, ids, mine, new) ==
  /\ ids = IF e \in Codes THEN Append(tx[w].ids, new) ELSE tx[w].ids
  /\ \A c \in Codes : mine[c] = tx[w].mine[c] \/ (c = e /\ mine[c] = new)
  /\ \A c \in Codes : cache'[c] = cache[c] \/ (c = e /\ cache'[c] = new)

\* An id that is held after a step was held before it, for the same code, or is
\* the one that the entry got.
LEMMA DoesHolds ==
  ASSUME Types, JobInv, ListInv, NEW w \in Workers, NEW e, NEW ids, NEW mine, NEW stats,
         Does(w, e, ids, mine, stats),
         NEW new \in Nat \ {0}, Gets(w, e, ids, mine, new),
         NEW c \in Codes, NEW id \in Nat \ {0}, Holds(c, id)'
  PROVE  Holds(c, id) \/ (c = e /\ id = new)
<1>1. /\ Active(w) /\ tx'[w].mine = mine /\ tx'[w].ids = ids /\ tx'[w].job = tx[w].job
      /\ \A v \in Workers \ {w} : tx'[v] = tx[v]
      /\ UNCHANGED <<page, table>>
  BY DEF Does
<1>a. /\ ids = IF e \in Codes THEN Append(tx[w].ids, new) ELSE tx[w].ids
      /\ \A d \in Codes : mine[d] = tx[w].mine[d] \/ (d = e /\ mine[d] = new)
      /\ \A d \in Codes : cache'[d] = cache[d] \/ (d = e /\ cache'[d] = new)
  BY DEF Gets
<1>2. CASE table'[c] = id \/ cache'[c] = id
  BY <1>1, <1>a, <1>2 DEF Holds
<1>3. ASSUME NEW v \in Workers, tx'[v].mine[c] = id PROVE Holds(c, id) \/ (c = e /\ id = new)
  BY <1>1, <1>a, <1>3 DEF Holds
<1>4. ASSUME NEW v \in Workers, Active(v)', NEW i \in 1 .. Len(tx'[v].ids), tx'[v].ids[i] = id,
             ParsePositions(page'[tx'[v].job])[i] = c
      PROVE  Holds(c, id) \/ (c = e /\ id = new)
  <2>1. CASE v # w
    <3>1. tx'[v] = tx[v] /\ Active(v)
      BY <1>1, <1>4, <2>1 DEF Active
    <3> QED BY <1>1, <1>4, <3>1 DEF Holds
  <2>2. CASE v = w
    <3>1. tx[w].ids \in Seq(Nat)
      BY DEF Types, TxType
    <3>2. e \in Codes => ParsePositions(page[tx[w].job])[Len(tx[w].ids) + 1] = e
      <4>1. ids = IF e \in Codes THEN Append(tx[w].ids, new) ELSE tx[w].ids
        BY <1>a
      <4> HIDE <1>1, <1>a
      <4> QED BY <4>1, DoesIds
    <3>3. ids[i] = id /\ i \in 1 .. Len(ids) /\ ParsePositions(page[tx[w].job])[i] = c
      BY <1>1, <1>4, <2>2
    <3>4. CASE i \in 1 .. Len(tx[w].ids)
      <4>1. tx[w].ids[i] = id
        BY <1>a, <3>1, <3>3, <3>4
      <4> QED BY <1>1, <3>3, <3>4, <4>1 DEF Holds
    <3>5. CASE i \notin 1 .. Len(tx[w].ids)
      <4>1. e \in Codes /\ i = Len(tx[w].ids) + 1 /\ ids[i] = new
        BY <1>a, <3>1, <3>3, <3>5
      <4> QED BY <3>2, <3>3, <4>1
    <3> QED BY <3>4, <3>5
  <2> QED BY <2>1, <2>2
<1> QED BY <1>2, <1>3, <1>4 DEF Holds

\* Either the id was the code's already, or the sequence has just given it.
LEMMA DoesId ==
  ASSUME Types, JobInv, ListInv, IdInv, CacheTrueUntilRollback, NEW w \in Workers, DoesNext(w)
  PROVE  IdInv' /\ CacheTrueUntilRollback'
<1> DEFINE t == tx[w]
           Step(e, ids, mine, stats, new) ==
             /\ Does(w, e, ids, mine, stats) /\ Adds(w, mine)
             /\ Gets(w, e, ids, mine, new)
             /\ \/ UNCHANGED <<sequence, cache>> /\ (e \in Codes => Holds(e, new))
                \/ /\ e \in Codes /\ UNCHANGED sequence /\ new \in {table[e], t.mine[e]} /\ mine = t.mine
                \/ /\ e \in Codes /\ sequence' = sequence + 1 /\ new = sequence + 1 /\ mine[e] = new
<1>1. t \in TxType /\ t.mine \in [Keys -> Nat] /\ table \in [Keys -> Nat] /\ cache \in [Codes -> Nat] /\ sequence \in Nat
  BY DEF Types, TxType
<1>2. Codes \subseteq Keys
  BY DEF Keys
<1>3. ASSUME NEW e \in Codes, DoesCached(w, e)
      PROVE  cache[e] \in Nat \ {0} /\ Step(e, Append(t.ids, cache[e]), t.mine, t.stats, cache[e])
  BY <1>1, <1>3 DEF DoesCached, Adds, Holds, Gets
<1>4. ASSUME NEW e \in Codes, DoesFound(w, e)
      PROVE  Visible(w, e) \in Nat \ {0} /\ Step(e, Append(t.ids, Visible(w, e)), t.mine, t.stats, Visible(w, e))
  <2>1. Visible(w, e) \in {table[e], t.mine[e]}
    BY DEF Visible
  <2>2. Visible(w, e) \in Nat \ {0}
    BY <1>1, <1>2, <1>4, <2>1 DEF DoesFound
  <2> QED BY <1>1, <1>4, <2>1, <2>2 DEF DoesFound, Adds, Gets
<1>5. ASSUME NEW e \in Codes, DoesNew(w, e)
      PROVE  Step(e, Append(t.ids, sequence + 1), [t.mine EXCEPT ![e] = sequence + 1], t.stats, sequence + 1)
  <2> DEFINE mine == [t.mine EXCEPT ![e] = sequence + 1]
  <2>1. \A k \in Keys : mine[k] = IF k = e THEN sequence + 1 ELSE t.mine[k]
    BY <1>1, <1>2
  <2> HIDE DEF mine
  <2>2. Does(w, e, Append(t.ids, sequence + 1), mine, t.stats) /\ Free(w, e)
    BY <1>5 DEF DoesNew, mine
  <2> QED BY <1>1, <1>2, <1>5, <2>1, <2>2 DEF DoesNew, Adds, Gets
<1>6. ASSUME NEW e, NEW mine, NEW stats, DoesKey(w, e, mine, stats)
      PROVE  Step(e, t.ids, mine, stats, 1)
  <2>1. /\ Does(w, e, t.ids, mine, stats) /\ UNCHANGED <<sequence, cache>> /\ e \notin Codes /\ Key(e) \notin Codes
    BY <1>6 DEF DoesKey
  <2>2. \A k \in Keys : mine[k] = t.mine[k] \/ (Free(w, k) /\ mine[k] # 0 /\ k = Key(e))
    <3>1. CASE mine = t.mine
      BY <3>1
    <3>2. CASE Free(w, Key(e)) /\ mine = [t.mine EXCEPT ![Key(e)] = 1]
      BY <1>1, <3>2
    <3> QED BY <1>6, <3>1, <3>2 DEF DoesKey
  <2> QED BY <1>2, <2>1, <2>2 DEF Adds, Gets
<1>7. ASSUME DoesPlayer(w) PROVE Step(None, t.ids, t.mine, t.stats, 1)
  <2>1. None \notin Codes
    BY SortsHold DEF Sorts
  <2> QED BY <1>7, <2>1 DEF DoesPlayer, Adds, Gets
<1>8. 1 \in Nat \ {0} /\ sequence + 1 \in Nat \ {0}
  BY <1>1
<1>9. \E e, ids, mine, stats : \E new \in Nat \ {0} : Step(e, ids, mine, stats, new)
  <2> HIDE DEF Step, t
  <2> QED BY <1>3, <1>4, <1>5, <1>6, <1>7, <1>8, Zenon DEF DoesNext
<1>10. PICK e, ids, mine, stats : \E new \in Nat \ {0} : Step(e, ids, mine, stats, new)
  BY <1>9, Zenon
<1>11. PICK new \in Nat \ {0} : Step(e, ids, mine, stats, new)
  BY <1>10, Zenon
<1>12. \A c \in Codes, id \in Nat \ {0} : Holds(c, id)' => Holds(c, id) \/ (c = e /\ id = new)
  <2>1. Does(w, e, ids, mine, stats) /\ Gets(w, e, ids, mine, new)
    BY <1>11
  <2> QED BY <2>1, DoesHolds
<1>13. \/ UNCHANGED sequence /\ (e \in Codes => Holds(e, new))
       \/ sequence' = sequence + 1 /\ new = sequence + 1
  BY <1>11 DEF Holds
<1>14. IdInv'
  <2>1. CASE UNCHANGED sequence /\ (e \in Codes => Holds(e, new))
    BY <1>12, <2>1 DEF IdInv
  <2>2. CASE sequence' = sequence + 1 /\ new = sequence + 1
    <3>1. \A c \in Codes : ~Holds(c, new)
      BY <1>1, <1>8, <2>2 DEF IdInv
    <3>2. \A c \in Codes, id \in Nat \ {0} : Holds(c, id) => id <= sequence'
      BY <1>1, <2>2 DEF IdInv
    <3>3. new <= sequence'
      BY <1>1, <2>2
    <3> QED BY <1>12, <3>1, <3>2, <3>3 DEF IdInv
  <2> QED BY <1>13, <2>1, <2>2
<1>15. CacheTrueUntilRollback'
  <2>1. /\ UNCHANGED <<table, failures>> /\ tx'[w].mine = mine /\ \A v \in Workers \ {w} : tx'[v] = tx[v]
    BY <1>11 DEF Does
  <2>2. ASSUME failures = 0, NEW c \in Codes, cache'[c] # 0, cache'[c] = cache[c]
        PROVE  cache'[c] = table[c] \/ \E v \in Workers : tx'[v].mine[c] = cache'[c]
    <3>1. CASE cache[c] = table[c]
      BY <2>2, <3>1
    <3>2. ASSUME NEW v \in Workers, tx[v].mine[c] = cache[c]
          PROVE  tx'[v].mine[c] = cache[c]
      <4>1. ~Free(w, c)
        BY <2>2, <3>2 DEF Free
      <4>2. mine[c] = t.mine[c]
        BY <1>2, <1>11, <4>1 DEF Adds
      <4> QED BY <2>1, <3>2, <4>2
    <3> QED BY <2>2, <3>1, <3>2 DEF CacheTrueUntilRollback
  <2>3. ASSUME NEW c \in Codes, cache'[c] # cache[c]
        PROVE  cache'[c] = table[c] \/ \E v \in Workers : tx'[v].mine[c] = cache'[c]
    <3>1. c = e /\ cache'[c] = new /\ ((new \in {table[e], t.mine[e]} /\ mine = t.mine) \/ mine[e] = new)
      BY <1>11, <2>3 DEF Gets
    <3> QED BY <2>1, <3>1
  <2> QED BY <2>1, <2>2, <2>3 DEF CacheTrueUntilRollback
<1> QED BY <1>14, <1>15

----------------------------------------------------------------------------
(* The other steps keep the invariant *)

LEMMA NextEntry ==
  ASSUME IInv, NEW w \in Workers, DoesNext(w)
  PROVE  IInv'
<1>1. Types'
  BY DoesTypes DEF IInv
<1>2. JobInv' /\ ListInv' /\ StoredInv'
  BY DoesList DEF IInv
<1>3. InsertInv' /\ KeyInv'
  BY DoesInsert DEF IInv
<1>4. IdInv' /\ CacheTrueUntilRollback'
  BY DoesId DEF IInv
<1> QED BY <1>1, <1>2, <1>3, <1>4 DEF IInv

\* The transaction v keeps its keys and ids or gives them up.
Keeps(v) ==
  /\ tx'[v].mine \in {Nothing, tx[v].mine}
  /\ Active(v)' => tx'[v].ids = <<>> \/ (Active(v) /\ tx'[v].ids = tx[v].ids /\ tx'[v].job = tx[v].job)

\* A step that takes no id: a row's may become visible.
LEMMA IdsKept ==
  ASSUME Types, IdInv, UNCHANGED <<page, sequence>>,
         \A c \in Codes : table'[c] = table[c] \/ \E w \in Workers : table'[c] = tx[w].mine[c],
         \A c \in Codes : cache'[c] \in {0, cache[c]},
         \A v \in Workers : Keeps(v)
  PROVE  IdInv'
<1>1. ASSUME NEW c \in Codes, NEW id \in Nat \ {0}, Holds(c, id)' PROVE Holds(c, id)
  <2>1. CASE table'[c] = id \/ cache'[c] = id
    BY <2>1 DEF Holds
  <2>2. ASSUME NEW v \in Workers, tx'[v].mine[c] = id PROVE Holds(c, id)
    <3>1. c \in Keys
      BY DEF Keys
    <3> QED BY <2>2, <3>1 DEF Holds, Keeps, Nothing
  <2>3. ASSUME NEW v \in Workers, Active(v)', NEW i \in 1 .. Len(tx'[v].ids), tx'[v].ids[i] = id,
               ParsePositions(page'[tx'[v].job])[i] = c
        PROVE  Holds(c, id)
    <3>1. tx'[v].ids # <<>>
      <4>1. CASE tx'[v].ids = <<>>
        <5>1. 1 .. Len(tx'[v].ids) = {}
          BY <4>1
        <5> QED BY <2>3, <5>1
      <4> QED BY <4>1
    <3> QED BY <2>3, <3>1 DEF Keeps, Holds
  <2> QED BY <1>1, <2>1, <2>2, <2>3 DEF Holds
<1>2. UNCHANGED sequence
  OBVIOUS
<1> HIDE DEF Holds
<1> QED BY <1>1, <1>2 DEF IdInv

LEMMA InsertsKept ==
  ASSUME InsertInv, KeyInv, UNCHANGED table, \A v \in Workers : Keeps(v)
  PROVE  InsertInv' /\ KeyInv'
<1>1. \A v \in Workers, k \in Keys : tx'[v].mine[k] \in {0, tx[v].mine[k]}
  BY DEF Keeps, Nothing
<1>2. InsertInv'
  BY <1>1 DEF InsertInv
<1>3. KeyInv'
  BY <1>1 DEF KeyInv
<1> QED BY <1>2, <1>3

LEMMA ActiveType == ASSUME Types, NEW w \in Workers PROVE tx[w] \in TxType
  BY DEF Types

LEMMA KeepUpsert ==
  ASSUME IInv, NEW w \in Workers, StartUpsert(w)
  PROVE  IInv'
<1>1. tx[w] \in TxType
  BY ActiveType DEF IInv
<1>2. PICK u : u = [tx[w] EXCEPT !.pc = "upserting"]
  OBVIOUS
<1>3. /\ u \in TxType /\ u.pc = "upserting" /\ u.job = tx[w].job /\ u.todo = tx[w].todo
      /\ u.ids = tx[w].ids /\ u.mine = tx[w].mine /\ u.stats = tx[w].stats
  BY <1>1, <1>2 DEF TxType
<1>4. tx[w].pc = "next" /\ tx[w].todo # <<>> /\ Current(w) # None /\ Change(w, u)
  BY <1>2 DEF StartUpsert, In
<1>5. UNCHANGED <<page, queue, table, stored, failures, restarts, sequence, cache>>
  BY DEF StartUpsert, Outside
<1>6. tx' \in [Workers -> TxType] /\ tx'[w] = u /\ \A v \in Workers \ {w} : tx'[v] = tx[v]
  BY <1>3, <1>4, Updated DEF IInv
<1>7. \A v \in Workers : Keeps(v)
  BY <1>3, <1>4, <1>6 DEF Keeps, Active
<1>8. Types'
  BY <1>5, <1>6 DEF Types, IInv
<1>9. JobInv'
  BY <1>3, <1>4, <1>5, <1>6 DEF JobInv, IInv
<1>10. InsertInv' /\ KeyInv'
  BY <1>5, <1>7, InsertsKept DEF IInv
<1>11. IdInv'
  BY <1>5, <1>7, IdsKept DEF IInv
<1>12. ListInv'
  <2>1. /\ UNCHANGED List(w) /\ UNCHANGED Count(w) /\ UNCHANGED Current(w) /\ UNCHANGED tx[w].todo
        /\ (KeysHold(w)' <=> KeysHold(w)) /\ \A k : Visible(w, k)' = Visible(w, k)
    <3>1. /\ tx'[w].job = tx[w].job /\ tx'[w].todo = tx[w].todo /\ tx'[w].ids = tx[w].ids
          /\ tx'[w].mine = tx[w].mine /\ UNCHANGED <<page, table>>
      BY <1>3, <1>5, <1>6
    <3>2. UNCHANGED List(w) /\ UNCHANGED Count(w) /\ UNCHANGED Current(w)
      BY <3>1 DEF List, Count, Current
    <3>3. KeysHold(w)' <=> KeysHold(w)
      BY <3>1 DEF KeysHold, Exists
    <3>4. \A k : Visible(w, k)' = Visible(w, k)
      BY <3>1 DEF Visible
    <3> QED BY <3>1, <3>2, <3>3, <3>4
  <2>2. TxInv(w)
    BY <1>4 DEF IInv, ListInv, Active
  <2>3. TodoInv(w)' /\ IdsInv(w)' /\ MineInv(w)' /\ StatsInv(w)' /\ PlayerInv(w)'
    BY <1>3, <1>5, <1>6, <2>1, <2>2 DEF TxInv, TodoInv, IdsInv, MineInv, StatsInv, PlayerInv
  <2>4. RowsInv(w)'
    BY <2>1, <2>2 DEF TxInv, RowsInv, CountryMissing, Stores
  <2>5. TxInv(w)'
    BY <2>3, <2>4 DEF TxInv
  <2>6. ASSUME NEW v \in Workers \ {w}
        PROVE  /\ Active(v)' => TxInv(v)'
               /\ ~Active(v)' => tx'[v].mine = Nothing
               /\ tx'[v].pc = "upserting" => tx'[v].todo # <<>> /\ Current(v)' # None
    BY <1>5, <1>6, TxStays DEF IInv
  <2>7. Active(w)' /\ tx'[w].todo # <<>> /\ Current(w)' # None
    BY <1>3, <1>4, <1>6, <2>1 DEF Active
  <2> QED BY <2>5, <2>6, <2>7 DEF ListInv, Nothing
<1>13. StoredInv'
  BY <1>5, <1>8, StoredStays DEF IInv, Types
<1>14. CacheTrueUntilRollback'
  BY <1>3, <1>5, <1>6 DEF CacheTrueUntilRollback, IInv
<1> QED BY <1>8, <1>9, <1>10, <1>11, <1>12, <1>13, <1>14 DEF IInv

LEMMA NoTxFacts ==
  /\ NoTx \in TxType /\ NoTx.pc = "idle" /\ NoTx.job = None /\ NoTx.ids = <<>>
  /\ NoTx.mine = Nothing /\ NoTx.stats = {} /\ NoTx.todo = <<>>
  BY DEF NoTx, TxType, Nothing

\* A job that is PENDING has no holder.
LEMMA KeepBegin ==
  ASSUME IInv, NEW w \in Workers, NEW j \in Jobs, Begin(w, j)
  PROVE  IInv'
<1> DEFINE list == Work(page[j])
           codes == ParsePositions(page[j])
<1>1. Types /\ JobInv /\ InsertInv /\ KeyInv /\ IdInv /\ ListInv /\ StoredInv /\ CacheTrueUntilRollback
  BY DEF IInv
<1>2. page[j] \in PageSet
  BY <1>1, DataAssumption DEF Types
<1>3. list \in Seq(Entry) /\ codes \in Seq(Codes)
  BY <1>2, WorkFacts, CodesParsed
<1>4. PICK u : u = [NoTx EXCEPT !.pc = "next", !.job = j, !.todo = list]
  OBVIOUS
<1> HIDE DEF list
<1>5. /\ u \in TxType /\ u.pc = "next" /\ u.job = j /\ u.todo = list
      /\ u.ids = <<>> /\ u.mine = Nothing /\ u.stats = {}
  <2>1. NoTx \in TxType /\ NoTx.ids = <<>> /\ NoTx.mine = Nothing /\ NoTx.stats = {}
    BY NoTxFacts
  <2> HIDE DEF NoTx
  <2> QED BY <1>3, <1>4, <2>1 DEF TxType
<1>6. /\ Change(w, u) /\ tx[w].pc = "idle" /\ queue[j].status = "PENDING"
      /\ queue' = [queue EXCEPT ![j].status = "IN_PROGRESS"]
      /\ UNCHANGED <<page, table, sequence, stored, cache, failures, restarts>>
  BY <1>4 DEF Begin, In, list
<1>7. tx' \in [Workers -> TxType] /\ tx'[w] = u /\ \A v \in Workers \ {w} : tx'[v] = tx[v]
  BY <1>1, <1>5, <1>6, Updated
<1>8. /\ queue'[j].status = "IN_PROGRESS" /\ queue'[j].retry = queue[j].retry
      /\ \A i \in Jobs \ {j} : queue'[i] = queue[i]
  BY <1>1, <1>6 DEF Types
<1>9. \A v \in Workers : Keeps(v)
  BY <1>5, <1>7 DEF Keeps, Active
<1>10. Types'
  BY <1>1, <1>6, <1>7 DEF Types
<1>11. JobInv'
  <2>1. \A v \in Workers : tx[v].job # j
    BY <1>1, <1>6, DataAssumption DEF JobInv
  <2>2. j # None
    BY DataAssumption
  <2> QED BY <1>1, <1>5, <1>6, <1>7, <1>8, <2>1, <2>2 DEF JobInv
<1>12. InsertInv' /\ KeyInv'
  BY <1>1, <1>6, <1>9, InsertsKept
<1>13. IdInv'
  BY <1>1, <1>6, <1>9, IdsKept
<1>14. ListInv'
  <2>1. tx'[w].job = j /\ tx'[w].todo = list /\ tx'[w].ids = <<>> /\ tx'[w].mine = Nothing /\ tx'[w].stats = {} /\ page' = page
    BY <1>5, <1>6, <1>7
  <2>2. List(w)' = list /\ Len(list) \in Nat /\ Count(w)' = 0
    BY <1>3, <2>1 DEF List, Count, list
  <2>3. 1 .. Count(w)' = {}
    BY <2>2
  <2>4. TodoInv(w)'
    BY <2>1, <2>2 DEF TodoInv
  <2>5. IdsInv(w)'
    <3>1. Len(codes) \in Nat /\ Len(tx'[w].ids) = 0
      BY <1>3, <2>1
    <3> QED BY <2>1, <2>2, <3>1 DEF IdsInv
  <2>6. MineInv(w)'
    BY <2>1 DEF MineInv, Nothing
  <2>7. StatsInv(w)'
    BY <2>1, <2>3 DEF StatsInv
  <2>8. RowsInv(w)' /\ PlayerInv(w)'
    BY <2>3 DEF RowsInv, PlayerInv
  <2>9. TxInv(w)' /\ Active(w)'
    BY <1>5, <1>7, <2>4, <2>5, <2>6, <2>7, <2>8 DEF TxInv, Active
  <2>10. ASSUME NEW v \in Workers \ {w}
        PROVE  /\ Active(v)' => TxInv(v)'
               /\ ~Active(v)' => tx'[v].mine = Nothing
               /\ tx'[v].pc = "upserting" => tx'[v].todo # <<>> /\ Current(v)' # None
    BY <1>1, <1>6, <1>7, TxStays
  <2>11. tx'[w].pc # "upserting"
    BY <1>5, <1>7
  <2> QED BY <2>9, <2>10, <2>11 DEF ListInv, Nothing
<1>15. StoredInv'
  BY <1>1, <1>6, <1>8, <1>10, StoredStays DEF Types
<1>16. CacheTrueUntilRollback'
  <2>1. tx[w].mine = Nothing
    BY <1>1, <1>6 DEF ListInv, Active
  <2> QED BY <1>1, <1>5, <1>6, <1>7, <2>1 DEF CacheTrueUntilRollback
<1> QED BY <1>10, <1>11, <1>12, <1>13, <1>14, <1>15, <1>16 DEF IInv

\* The transaction is given up: what the other workers see is as before.
LEMMA KeepRollback ==
  ASSUME IInv, NEW w \in Workers, StatementRaises(w) \/ ForeignKeyFails(w) \/ DeadlockDetected(w)
  PROVE  IInv'
<1>1. Types /\ JobInv /\ InsertInv /\ KeyInv /\ IdInv /\ ListInv /\ StoredInv
  BY DEF IInv
<1>2. Rollback(w) /\ tx[w].pc \in {"next", "upserting"}
  <2>1. DeadlockDetected(w) => In(w, "upserting")
    BY DEF DeadlockDetected, Deadlocked, WaitsFor
  <2> QED BY <2>1 DEF StatementRaises, ForeignKeyFails, DeadlockDetected, In
<1>3. PICK u : u = [NoTx EXCEPT !.pc = "failing", !.job = tx[w].job]
  OBVIOUS
<1>4. tx[w].job \in Jobs
  BY <1>1, <1>2 DEF JobInv
<1>5. u \in TxType /\ u.pc = "failing" /\ u.job = tx[w].job /\ u.ids = <<>> /\ u.mine = Nothing
  <2>1. NoTx \in TxType /\ NoTx.ids = <<>> /\ NoTx.mine = Nothing
    BY NoTxFacts
  <2> HIDE DEF NoTx
  <2> QED BY <1>3, <1>4, <2>1 DEF TxType
<1>6. /\ Change(w, u) /\ failures' = 1
      /\ UNCHANGED <<page, queue, table, sequence, stored, cache, restarts>>
  BY <1>2, <1>3 DEF Rollback
<1>7. tx' \in [Workers -> TxType] /\ tx'[w] = u /\ \A v \in Workers \ {w} : tx'[v] = tx[v]
  BY <1>1, <1>5, <1>6, Updated
<1>8. \A v \in Workers : Keeps(v)
  BY <1>5, <1>7 DEF Keeps, Active
<1>9. Types'
  BY <1>1, <1>6, <1>7 DEF Types
<1>10. JobInv'
  BY <1>1, <1>2, <1>5, <1>6, <1>7 DEF JobInv
<1>11. InsertInv' /\ KeyInv'
  BY <1>1, <1>6, <1>8, InsertsKept
<1>12. IdInv'
  BY <1>1, <1>6, <1>8, IdsKept
<1>13. ListInv'
  <2>1. ~Active(w)' /\ tx'[w].mine = Nothing /\ tx'[w].pc # "upserting"
    BY <1>5, <1>7 DEF Active
  <2>2. ASSUME NEW v \in Workers \ {w}
        PROVE  /\ Active(v)' => TxInv(v)'
               /\ ~Active(v)' => tx'[v].mine = Nothing
               /\ tx'[v].pc = "upserting" => tx'[v].todo # <<>> /\ Current(v)' # None
    BY <1>1, <1>6, <1>7, TxStays
  <2> QED BY <2>1, <2>2 DEF ListInv, Nothing
<1>14. StoredInv'
  BY <1>1, <1>6, <1>9, StoredStays DEF Types
<1>15. CacheTrueUntilRollback'
  BY <1>6 DEF CacheTrueUntilRollback
<1> QED BY <1>9, <1>10, <1>11, <1>12, <1>13, <1>14, <1>15 DEF IInv

\* A job that fails is PENDING only while its retries last.
LEMMA KeepRecord ==
  ASSUME IInv, NEW w \in Workers, RecordFailure(w)
  PROVE  IInv'
<1> DEFINE j == tx[w].job
           next == [status |-> IF queue[j].retry + 1 >= MaxQueueRetries THEN "FAILED" ELSE "PENDING",
                    retry |-> queue[j].retry + 1]
<1>1. Types /\ JobInv /\ InsertInv /\ KeyInv /\ IdInv /\ ListInv /\ StoredInv /\ CacheTrueUntilRollback
  BY DEF IInv
<1>2. /\ tx[w].pc = "failing" /\ Change(w, NoTx)
      /\ queue' = [queue EXCEPT ![j] = next]
      /\ UNCHANGED <<page, table, sequence, stored, cache, failures, restarts>>
  BY DEF RecordFailure, In
<1>3. j \in Jobs /\ queue[j].status = "IN_PROGRESS"
  BY <1>1, <1>2 DEF JobInv
<1>4. /\ NoTx \in TxType /\ NoTx.pc = "idle" /\ NoTx.job = None /\ NoTx.ids = <<>> /\ NoTx.mine = Nothing
  BY NoTxFacts
<1>5. tx' \in [Workers -> TxType] /\ tx'[w] = NoTx /\ \A v \in Workers \ {w} : tx'[v] = tx[v]
  BY <1>1, <1>2, <1>4, Updated
<1> HIDE DEF NoTx
<1>6. queue[j].retry \in 0 .. MaxQueueRetries /\ queue[j].retry < MaxQueueRetries /\ MaxQueueRetries \in Nat
  BY <1>1, <1>3, DataAssumption DEF Types, JobInv
<1>7. /\ next.retry \in 0 .. MaxQueueRetries /\ next.status \in {"PENDING", "FAILED"}
      /\ next.status = "PENDING" => next.retry < MaxQueueRetries
  BY <1>6
<1>8. next \in [status : {"PENDING", "IN_PROGRESS", "DONE", "FAILED"}, retry : 0 .. MaxQueueRetries]
  BY <1>7
<1> HIDE DEF next
<1>9. /\ queue' \in [Jobs -> [status : {"PENDING", "IN_PROGRESS", "DONE", "FAILED"}, retry : 0 .. MaxQueueRetries]]
      /\ queue'[j] = next /\ \A i \in Jobs \ {j} : queue'[i] = queue[i]
  BY <1>1, <1>2, <1>3, <1>8 DEF Types
<1>10. \A v \in Workers : Keeps(v)
  BY <1>4, <1>5 DEF Keeps, Active
<1>11. Types'
  BY <1>1, <1>2, <1>5, <1>9 DEF Types
<1>12. JobInv'
  <2>1. \A v \in Workers \ {w} : tx[v].job # j
    BY <1>1, <1>3, DataAssumption DEF JobInv
  <2>2. \A i \in Jobs : queue'[i].status = "DONE" <=> stored[i] # None
    BY <1>1, <1>3, <1>7, <1>9 DEF JobInv
  <2>3. \A i \in Jobs : queue'[i].status \in {"PENDING", "IN_PROGRESS"} => queue'[i].retry < MaxQueueRetries
    BY <1>1, <1>7, <1>9 DEF JobInv
  <2>4. \A v \in Workers : tx'[v].pc # "idle" => tx'[v].job \in Jobs /\ queue'[tx'[v].job].status = "IN_PROGRESS"
    BY <1>1, <1>4, <1>5, <1>9, <2>1 DEF JobInv
  <2> QED BY <1>1, <1>2, <1>4, <1>5, <2>2, <2>3, <2>4 DEF JobInv
<1>13. InsertInv' /\ KeyInv'
  BY <1>1, <1>2, <1>10, InsertsKept
<1>14. IdInv'
  BY <1>1, <1>2, <1>10, IdsKept
<1>15. ListInv'
  <2>1. ~Active(w)' /\ tx'[w].mine = Nothing /\ tx'[w].pc # "upserting"
    BY <1>4, <1>5 DEF Active
  <2>2. ASSUME NEW v \in Workers \ {w}
        PROVE  /\ Active(v)' => TxInv(v)'
               /\ ~Active(v)' => tx'[v].mine = Nothing
               /\ tx'[v].pc = "upserting" => tx'[v].todo # <<>> /\ Current(v)' # None
    BY <1>1, <1>2, <1>5, TxStays
  <2> QED BY <2>1, <2>2 DEF ListInv, Nothing
<1>16. StoredInv'
  <2>1. \A i \in Jobs : queue'[i].status = "DONE" <=> queue[i].status = "DONE"
    BY <1>3, <1>7, <1>9
  <2> QED BY <1>1, <1>2, <1>11, <2>1, StoredStays DEF Types
<1>17. CacheTrueUntilRollback'
  <2>1. tx[w].mine = Nothing
    BY <1>1, <1>2 DEF ListInv, Active
  <2> QED BY <1>1, <1>2, <1>4, <1>5, <2>1 DEF CacheTrueUntilRollback
<1> QED BY <1>11, <1>12, <1>13, <1>14, <1>15, <1>16, <1>17 DEF IInv

LEMMA KeepRestart ==
  ASSUME IInv, Restart
  PROVE  IInv'
<1>1. Types /\ JobInv /\ InsertInv /\ KeyInv /\ IdInv /\ ListInv /\ StoredInv
  BY DEF IInv
<1>2. /\ restarts < MaxRestarts /\ restarts' = restarts + 1 /\ cache' = NoCache /\ failures' = 0
      /\ tx' = [w \in Workers |-> NoTx] /\ UNCHANGED <<page, table, sequence, stored>>
  BY DEF Restart
<1>3. NoTx \in TxType /\ NoTx.pc = "idle" /\ NoTx.job = None /\ NoTx.ids = <<>> /\ NoTx.mine = Nothing
  BY NoTxFacts
<1> HIDE DEF NoTx
<1>4. /\ queue' \in [Jobs -> [status : {"PENDING", "IN_PROGRESS", "DONE", "FAILED"}, retry : 0 .. MaxQueueRetries]]
      /\ \A j \in Jobs : /\ queue'[j].status = IF queue[j].status = "IN_PROGRESS" THEN "PENDING" ELSE queue[j].status
                         /\ queue'[j].retry = queue[j].retry
  BY <1>1 DEF Restart, Types
<1>5. \A w \in Workers : tx'[w] = NoTx
  BY <1>2
<1>6. Types'
  BY <1>1, <1>2, <1>3, <1>4, DataAssumption DEF Types, NoCache
<1>7. JobInv'
  BY <1>1, <1>2, <1>3, <1>4, <1>5 DEF JobInv
<1>8. \A v \in Workers : Keeps(v)
  BY <1>3, <1>5 DEF Keeps
<1>9. InsertInv' /\ KeyInv'
  BY <1>1, <1>2, <1>8, InsertsKept
<1>10. IdInv'
  BY <1>1, <1>2, <1>8, IdsKept DEF NoCache
<1>11. ListInv'
  BY <1>3, <1>5 DEF ListInv, Active, Nothing
<1>12. StoredInv'
  BY <1>1, <1>2, <1>4, <1>6, StoredStays DEF Types
<1>13. CacheTrueUntilRollback'
  BY <1>2 DEF CacheTrueUntilRollback, NoCache
<1> QED BY <1>6, <1>7, <1>9, <1>10, <1>11, <1>12, <1>13 DEF IInv

----------------------------------------------------------------------------
(* A commit *)

\* The rows of a page with their tables, and those with a team's link.
PageRows(p) == UNION {{<<t, p.rows[t][i]>> : i \in 1 .. Len(p.rows[t])} : t \in Tables}
TeamRows(p) == {r \in PageRows(p) : r[2].team # Junk}
KeptRows(p) == {r \in TeamRows(p) : r[2].comp = "listed"}

\* All of the page p is stored in s and in the lookup rows rows.
Whole(p, s, rows) ==
  /\ s.nation = (p.nation = "listed")
  /\ s.stats = {<<r[1], r[2].team>> : r \in KeptRows(p)}
  /\ \A r \in KeptRows(p) : r[2].country # "unlisted"
  /\ \A r \in TeamRows(p) : rows[r[2].team] # 0

LEMMA DoneIsWholeFacts ==
  /\ DoneIsWhole <=> \A j \in Jobs :
       /\ queue[j].status = "DONE" <=> stored[j] # None
       /\ stored[j] # None => Whole(page[j], stored[j], table)
  /\ DoneIsWhole' <=> \A j \in Jobs :
       /\ queue'[j].status = "DONE" <=> stored'[j] # None
       /\ stored'[j] # None => Whole(page'[j], stored'[j], table')
  BY DEF DoneIsWhole, Whole, PageRows, TeamRows, KeptRows

\* The work of a page and its rows: every row with a team's link, once for each.
LEMMA TeamRowsRead ==
  ASSUME NEW p \in PageSet
  PROVE  /\ \A r \in TeamRows(p) : AsItem(r[1], r[2]) \in Read(p)
         /\ \A x \in Read(p) : \E r \in TeamRows(p) : x = AsItem(r[1], r[2])
         /\ \A r \in TeamRows(p) : r[2].team \in Teams
<1>1. ASSUME NEW r \in TeamRows(p)
      PROVE  AsItem(r[1], r[2]) \in Read(p) /\ r[2].team \in Teams
  <2>1. PICK t \in Tables : \E i \in 1 .. Len(p.rows[t]) : r = <<t, p.rows[t][i]>>
    BY DEF TeamRows, PageRows
  <2>2. PICK i \in 1 .. Len(p.rows[t]) : r = <<t, p.rows[t][i]>>
    BY <2>1
  <2>3. r[1] = t /\ r[2] = p.rows[t][i] /\ p.rows[t][i].team # Junk
    BY <2>2 DEF TeamRows
  <2>4. i \in {m \in 1 .. Len(p.rows[t]) : p.rows[t][m].team # Junk}
    BY <2>3
  <2>5. p.rows[t] \in Seq(Line)
    BY DEF PageSet
  <2>6. p.rows[t][i] \in Line
    BY <2>5, ElementOfSeq
  <2>7. r[2].team \in Teams
    BY <2>3, <2>6 DEF Line
  <2>8. AsItem(t, p.rows[t][i]) \in Read(p)
    BY <2>4 DEF Read
  <2> QED BY <2>3, <2>7, <2>8
<1>2. ASSUME NEW x \in Read(p) PROVE \E r \in TeamRows(p) : x = AsItem(r[1], r[2])
  <2>1. PICK t \in Tables : \E i \in {m \in 1 .. Len(p.rows[t]) : p.rows[t][m].team # Junk} : x = AsItem(t, p.rows[t][i])
    BY DEF Read
  <2>2. PICK i \in {m \in 1 .. Len(p.rows[t]) : p.rows[t][m].team # Junk} : x = AsItem(t, p.rows[t][i])
    BY <2>1
  <2>3. <<t, p.rows[t][i]>> \in TeamRows(p)
    BY <2>2 DEF TeamRows, PageRows
  <2> QED BY <2>2, <2>3
<1> QED BY <1>1, <1>2

LEMMA AsItemFields ==
  ASSUME NEW name, NEW line
  PROVE  /\ AsItem(name, line).in = name /\ AsItem(name, line).team = line.team
         /\ AsItem(name, line).comp = line.comp /\ AsItem(name, line).country = line.country
  BY DEF AsItem

\* What a transaction has when nothing is left of its work.
LEMMA AllDone ==
  ASSUME Types, JobInv, InsertInv, IdInv, ListInv, NEW w \in Workers, Active(w), tx[w].todo = <<>>
  PROVE  LET p == page[tx[w].job]
             codes == ParsePositions(p) IN
         /\ tx[w].ids = [i \in 1 .. Len(codes) |-> Visible(w, codes[i])]
         /\ \A i \in 1 .. Len(tx[w].ids) : tx[w].ids[i] \in 1 .. sequence
         /\ tx[w].stats = {<<r[1], r[2].team>> : r \in KeptRows(p)}
         /\ \A r \in KeptRows(p) : r[2].country # "unlisted"
         /\ \A r \in TeamRows(p) : Visible(w, r[2].team) # 0
         /\ \A k \in Keys : tx[w].mine[k] # 0 =>
              \E i \in 1 .. Len(Work(p)) : Work(p)[i] # None /\ Key(Work(p)[i]) = k
<1> DEFINE p == page[tx[w].job]
           codes == ParsePositions(p)
           list == List(w)
           t == tx[w]
<1>1. /\ p \in PageSet /\ codes \in Seq(Codes) /\ list \in Seq(Entry) /\ Begins(list, codes)
      /\ None \in Elements(list) /\ Elements(list) \cap Item = Read(p)
      /\ Len(list) \in Nat /\ Len(codes) \in Nat /\ TxInv(w)
  BY ActiveList
<1>2. Count(w) = Len(list)
  BY <1>1 DEF Count
<1>3. t.ids \in Seq(Nat) /\ t.mine \in [Keys -> Nat] /\ table \in [Keys -> Nat] /\ sequence \in Nat
  BY DEF Types, TxType
<1>4. list = Work(p)
  BY DEF List
<1> HIDE DEF p, codes, list
<1>5. Len(t.ids) = Len(codes) /\ \A i \in 1 .. Len(t.ids) : t.ids[i] \in Nat \ {0}
  <2>1. Len(t.ids) = (IF Count(w) < Len(codes) THEN Count(w) ELSE Len(codes)) /\ \A i \in 1 .. Len(t.ids) : t.ids[i] # 0
    BY <1>1 DEF TxInv, IdsInv, codes, p
  <2>2. Len(codes) <= Len(list)
    BY <1>1 DEF Begins
  <2>3. Len(t.ids) = Len(codes)
    BY <1>1, <1>2, <2>1, <2>2
  <2>4. \A i \in 1 .. Len(t.ids) : t.ids[i] \in Nat
    BY <1>3, ElementOfSeq
  <2> QED BY <2>1, <2>3, <2>4
<1>6. KeysHold(w)
  <2>1. \E i \in 1 .. Count(w) : list[i] = None
    BY <1>1, <1>2 DEF Elements
  <2> QED BY <1>1, <2>1 DEF TxInv, PlayerInv, list
<1>7. ASSUME NEW i \in 1 .. Len(codes) PROVE t.ids[i] = Visible(w, codes[i]) /\ t.ids[i] \in 1 .. sequence
  <2>1. PICK c \in Codes : t.ids[i] = table[c] \/ t.ids[i] = t.mine[c]
    BY <1>5, <1>6 DEF KeysHold, Exists
  <2>2. codes[i] \in Codes /\ i \in 1 .. Len(t.ids) /\ t.ids[i] \in Nat \ {0}
    BY <1>1, <1>5, ElementOfSeq
  <2>3. Holds(c, t.ids[i])
    BY <2>1 DEF Holds
  <2>4. Holds(codes[i], t.ids[i])
    BY <2>2 DEF Holds, codes, p
  <2>5. c = codes[i] /\ t.ids[i] <= sequence
    BY <2>2, <2>3, <2>4 DEF IdInv
  <2>6. t.mine[c] # 0 => table[c] = 0
    BY DEF InsertInv, Keys
  <2>7. t.ids[i] = Visible(w, codes[i])
    BY <2>1, <2>2, <2>5, <2>6 DEF Visible
  <2> QED BY <1>3, <2>2, <2>5, <2>7
<1>8. t.ids = [i \in 1 .. Len(codes) |-> Visible(w, codes[i])]
  <2>1. t.ids \in [1 .. Len(codes) -> Nat]
    BY <1>3, <1>5
  <2> HIDE DEF t
  <2> QED BY <1>7, <2>1
<1>9. t.stats = {<<r[1], r[2].team>> : r \in KeptRows(p)}
  <2>1. t.stats = {<<list[i].in, list[i].team>> : i \in {m \in 1 .. Len(list) : list[m] \in Item /\ Stores(list[m])}}
    BY <1>1, <1>2 DEF TxInv, StatsInv, list
  <2>2. ASSUME NEW i \in 1 .. Len(list), list[i] \in Item, Stores(list[i])
        PROVE  \E r \in KeptRows(p) : <<list[i].in, list[i].team>> = <<r[1], r[2].team>>
    <3>1. list[i] \in Read(p)
      BY <1>1, <2>2 DEF Elements
    <3>2. PICK r \in TeamRows(p) : list[i] = AsItem(r[1], r[2])
      BY <1>1, <3>1, TeamRowsRead
    <3>3. r \in KeptRows(p)
      BY <2>2, <3>2, AsItemFields DEF KeptRows, Stores
    <3> QED BY <3>2, <3>3, AsItemFields
  <2>3. ASSUME NEW r \in KeptRows(p)
        PROVE  \E i \in {m \in 1 .. Len(list) : list[m] \in Item /\ Stores(list[m])} :
                 <<list[i].in, list[i].team>> = <<r[1], r[2].team>>
    <3>1. r \in TeamRows(p) /\ r[2].comp = "listed"
      BY DEF KeptRows
    <3>2. AsItem(r[1], r[2]) \in Elements(list) \cap Item
      BY <1>1, <3>1, TeamRowsRead
    <3>3. PICK i \in 1 .. Len(list) : list[i] = AsItem(r[1], r[2])
      BY <3>2 DEF Elements
    <3>4. Stores(list[i]) /\ list[i] \in Item
      BY <3>1, <3>2, <3>3, AsItemFields DEF Stores
    <3> QED BY <3>3, <3>4, AsItemFields
  <2> DEFINE places == {m \in 1 .. Len(list) : list[m] \in Item /\ Stores(list[m])}
             entry(i) == <<list[i].in, list[i].team>>
             row(r) == <<r[1], r[2].team>>
  <2>4. (\A i \in places : \E r \in KeptRows(p) : entry(i) = row(r))
          /\ (\A r \in KeptRows(p) : \E i \in places : entry(i) = row(r))
    BY <2>2, <2>3
  <2>5. t.stats = {entry(i) : i \in places}
    BY <2>1
  <2> HIDE DEF entry, row, places, t
  <2>6. t.stats = {row(r) : r \in KeptRows(p)}
    BY <2>4, <2>5
  <2> QED BY <2>6 DEF row
<1>10. ASSUME NEW r \in TeamRows(p)
       PROVE  Visible(w, r[2].team) # 0 /\ (r \in KeptRows(p) => r[2].country # "unlisted")
  <2>1. AsItem(r[1], r[2]) \in Elements(list) \cap Item
    BY <1>1, TeamRowsRead
  <2>2. PICK i \in 1 .. Len(list) : list[i] = AsItem(r[1], r[2])
    BY <2>1 DEF Elements
  <2>3. Visible(w, list[i].team) # 0 /\ ~CountryMissing(list[i])
    BY <1>1, <1>2, <2>1, <2>2 DEF TxInv, RowsInv, list
  <2> QED BY <2>2, <2>3, AsItemFields DEF CountryMissing, Stores, KeptRows
<1>11. \A k \in Keys : t.mine[k] # 0 => \E i \in 1 .. Len(list) : list[i] # None /\ Key(list[i]) = k
  BY <1>1, <1>2 DEF TxInv, MineInv, list
<1>12. /\ \A i \in 1 .. Len(t.ids) : t.ids[i] \in 1 .. sequence
       /\ \A r \in KeptRows(p) : r[2].country # "unlisted"
       /\ \A r \in TeamRows(p) : Visible(w, r[2].team) # 0
  BY <1>5, <1>7, <1>10 DEF KeptRows
<1> QED BY <1>4, <1>8, <1>9, <1>11, <1>12 DEF p, codes

LEMMA KeepCommit ==
  ASSUME IInv, NEW w \in Workers, Commit(w)
  PROVE  IInv'
<1> DEFINE t == tx[w]
           j == t.job
           record == [ids |-> t.ids, nation |-> Resolved(page[j]), stats |-> t.stats]
<1>1. Types /\ JobInv /\ InsertInv /\ KeyInv /\ IdInv /\ ListInv /\ StoredInv /\ CacheTrueUntilRollback
  BY DEF IInv
<1>2. /\ t.pc = "next" /\ Active(w) /\ t.todo = <<>> /\ Change(w, NoTx)
      /\ table' = [k \in Keys |-> Visible(w, k)]
      /\ stored' = [stored EXCEPT ![j] = record]
      /\ queue' = [queue EXCEPT ![j].status = "DONE"]
      /\ UNCHANGED <<page, sequence, cache, failures, restarts>>
  BY DEF Commit, In, Active
<1>3. /\ t \in TxType /\ t.mine \in [Keys -> Nat] /\ table \in [Keys -> Nat] /\ sequence \in Nat
      /\ t.ids \in Seq(Nat) /\ t.stats \in SUBSET (Tables \X Teams)
  BY <1>1 DEF Types, TxType
<1>4. j \in Jobs /\ queue[j].status = "IN_PROGRESS"
  BY <1>1, <1>2 DEF JobInv
<1>5. NoTx \in TxType /\ NoTx.pc = "idle" /\ NoTx.job = None /\ NoTx.ids = <<>> /\ NoTx.mine = Nothing
  BY NoTxFacts
<1>6. tx' \in [Workers -> TxType] /\ tx'[w] = NoTx /\ \A v \in Workers \ {w} : tx'[v] = tx[v]
  BY <1>1, <1>2, <1>5, Updated
<1> HIDE DEF NoTx
<1>7. record \in StoredPlayer /\ record # None
  <2>1. Resolved(page[j]) \in BOOLEAN
    BY DEF Resolved
  <2> HIDE DEF t, j
  <2>2. record \in StoredPlayer
    BY <1>3, <2>1 DEF StoredPlayer
  <2> HIDE DEF record
  <2> QED BY <2>2, DataAssumption
<1>8. record.ids = t.ids /\ record.nation = (page[j].nation = "listed") /\ record.stats = t.stats
  BY DEF Resolved
<1> HIDE DEF record
<1>9. stored' \in [Jobs -> StoredPlayer \cup {None}] /\ stored'[j] = record /\ \A i \in Jobs \ {j} : stored'[i] = stored[i]
  BY <1>1, <1>2, <1>4, <1>7 DEF Types
<1>10. /\ queue' \in [Jobs -> [status : {"PENDING", "IN_PROGRESS", "DONE", "FAILED"}, retry : 0 .. MaxQueueRetries]]
       /\ queue'[j].status = "DONE" /\ \A i \in Jobs \ {j} : queue'[i] = queue[i]
  BY <1>1, <1>2, <1>4 DEF Types
<1>11. /\ table' \in [Keys -> Nat] /\ \A k \in Keys : table'[k] = Visible(w, k)
       /\ \A k \in Keys : table[k] # 0 => table'[k] = table[k]
  BY <1>1, <1>2, <1>3 DEF Visible, InsertInv
<1>12. \A v \in Workers : Keeps(v)
  BY <1>5, <1>6 DEF Keeps, Active
<1>13. \A v \in Workers \ {w} : tx[v].job # j
  BY <1>1, <1>4, DataAssumption DEF JobInv
<1>14. /\ t.ids = [i \in 1 .. Len(ParsePositions(page[j])) |-> Visible(w, ParsePositions(page[j])[i])]
       /\ \A i \in 1 .. Len(t.ids) : t.ids[i] \in 1 .. sequence
       /\ t.stats = {<<r[1], r[2].team>> : r \in KeptRows(page[j])}
       /\ \A r \in KeptRows(page[j]) : r[2].country # "unlisted"
       /\ \A r \in TeamRows(page[j]) : Visible(w, r[2].team) # 0
       /\ \A k \in Keys : t.mine[k] # 0 =>
            \E i \in 1 .. Len(Work(page[j])) : Work(page[j])[i] # None /\ Key(Work(page[j])[i]) = k
  BY <1>1, <1>2, AllDone
<1>15. \A i \in Jobs : page[i] \in PageSet
  BY <1>1, DataAssumption DEF Types
<1> HIDE DEF t, j
<1>16. Types'
  BY <1>1, <1>2, <1>6, <1>9, <1>10, <1>11 DEF Types
<1>17. JobInv'
  BY <1>1, <1>2, <1>4, <1>5, <1>6, <1>7, <1>9, <1>10, <1>13 DEF JobInv, t, j
<1>18. InsertInv'
  <2>1. \A v \in Workers, k \in Keys : tx'[v].mine[k] # 0 => v # w /\ tx'[v].mine[k] = tx[v].mine[k]
    BY <1>5, <1>6 DEF Nothing
  <2>2. \A v \in Workers, k \in Keys : tx'[v].mine[k] # 0 => table'[k] = table[k]
    BY <1>1, <1>11, <2>1 DEF Visible, InsertInv
  <2> QED BY <1>1, <2>1, <2>2 DEF InsertInv
<1>19. KeyInv'
  <2>1. \A k \in Keys \ Codes : table'[k] \in {0, 1}
    BY <1>1, <1>11 DEF KeyInv, Visible
  <2>2. \A v \in Workers, k \in Keys \ Codes : tx'[v].mine[k] \in {0, 1}
    BY <1>1, <1>12 DEF KeyInv, Keeps, Nothing
  <2> QED BY <2>1, <2>2 DEF KeyInv
<1>20. IdInv'
  <2>1. \A c \in Codes : table'[c] = table[c] \/ \E v \in Workers : table'[c] = tx[v].mine[c]
    BY <1>11 DEF Visible, Keys
  <2> QED BY <1>1, <1>2, <1>12, <2>1, IdsKept
<1>21. ListInv'
  <2>1. ~Active(w)' /\ tx'[w].mine = Nothing /\ tx'[w].pc # "upserting"
    BY <1>5, <1>6 DEF Active
  <2>2. ASSUME NEW v \in Workers \ {w}
        PROVE  /\ Active(v)' => TxInv(v)'
               /\ ~Active(v)' => tx'[v].mine = Nothing
               /\ tx'[v].pc = "upserting" => tx'[v].todo # <<>> /\ Current(v)' # None
    <3>1. tx'[v] = tx[v] /\ UNCHANGED page
      BY <1>2, <1>6
    <3>2. /\ UNCHANGED List(v) /\ UNCHANGED Count(v) /\ UNCHANGED Current(v) /\ (Active(v)' <=> Active(v))
      BY <3>1 DEF List, Count, Current, Active
    <3>3. ASSUME Active(v) PROVE TxInv(v)'
      <4>1. TxInv(v)
        BY <1>1, <3>3 DEF ListInv
      <4>2. TodoInv(v)' /\ IdsInv(v)' /\ MineInv(v)' /\ StatsInv(v)'
        BY <3>1, <3>2, <4>1 DEF TxInv, TodoInv, IdsInv, MineInv, StatsInv
      <4>3. RowsInv(v)'
        <5>1. \A k \in Keys : Visible(v, k) # 0 => Visible(v, k)' # 0
          BY <1>11, <3>1 DEF Visible
        <5>2. \A x \in Item : x.team \in Keys
          BY DEF Item, Keys
        <5>3. \A i \in 1 .. Count(v) : List(v)[i] \in Item =>
                Visible(v, List(v)[i].team) # 0 /\ ~CountryMissing(List(v)[i])
          BY <4>1 DEF TxInv, RowsInv
        <5> QED BY <3>2, <5>1, <5>2, <5>3 DEF RowsInv, CountryMissing, Stores
      <4>4. PlayerInv(v)'
        <5>1. ASSUME KeysHold(v) PROVE KeysHold(v)'
          <6>1. ASSUME NEW i \in 1 .. Len(tx[v].ids) PROVE Exists(v, tx[v].ids[i])'
            <7>1. PICK c \in Codes : tx[v].ids[i] = table[c] \/ tx[v].ids[i] = tx[v].mine[c]
              BY <5>1 DEF KeysHold, Exists
            <7>2. tx[v].ids[i] # 0
              BY <4>1 DEF TxInv, IdsInv
            <7>3. tx'[v].ids[i] = table'[c] \/ tx'[v].ids[i] = tx'[v].mine[c]
              BY <1>11, <3>1, <7>1, <7>2 DEF Keys
            <7> QED BY <3>1, <7>3 DEF Exists
          <6> QED BY <3>1, <6>1 DEF KeysHold, Exists
        <5> QED BY <3>2, <4>1, <5>1 DEF TxInv, PlayerInv
      <4> QED BY <4>2, <4>3, <4>4 DEF TxInv
    <3> QED BY <1>1, <3>1, <3>2, <3>3 DEF ListInv
  <2> QED BY <2>1, <2>2 DEF ListInv, Nothing
<1>22. StoredIds'
  BY <1>1, <1>2, <1>8, <1>9, <1>14 DEF StoredInv, StoredIds
<1>23. PositionsRight'
  <2>1. ASSUME NEW i \in Jobs, stored'[i] # None
        PROVE  stored'[i].ids = [m \in 1 .. Len(ParsePositions(page[i])) |-> table'[ParsePositions(page[i])[m]]]
    <3> DEFINE codes == ParsePositions(page[i])
    <3>1. codes \in Seq(Codes) /\ Len(codes) \in Nat /\ \A m \in 1 .. Len(codes) : codes[m] \in Keys
      <4>1. codes \in Seq(Codes)
        BY <1>15, CodesParsed
      <4> HIDE DEF codes
      <4> QED BY <4>1, ElementOfSeq DEF Keys
    <3> HIDE DEF codes
    <3>2. CASE i = j
      <4>1. stored'[i].ids = [m \in 1 .. Len(codes) |-> Visible(w, codes[m])]
        BY <1>8, <1>9, <1>14, <3>2 DEF codes
      <4> QED BY <1>11, <3>1, <4>1 DEF codes
    <3>3. CASE i # j
      <4>1. stored'[i] = stored[i] /\ stored[i] # None
        BY <1>9, <2>1, <3>3
      <4>2. stored[i].ids = [m \in 1 .. Len(codes) |-> table[codes[m]]]
        BY <1>1, <4>1 DEF StoredInv, PositionsRight, codes
      <4>3. \A m \in 1 .. Len(stored[i].ids) : stored[i].ids[m] \in 1 .. sequence
        BY <1>1, <4>1 DEF StoredInv, StoredIds
      <4>4. Len(stored[i].ids) = Len(codes)
        BY <3>1, <4>2
      <4>5. ASSUME NEW m \in 1 .. Len(codes) PROVE table[codes[m]] # 0
        <5>1. stored[i].ids[m] = table[codes[m]]
          BY <4>2
        <5> QED BY <4>3, <4>4, <5>1
      <4>6. \A m \in 1 .. Len(codes) : table'[codes[m]] = table[codes[m]]
        BY <1>11, <3>1, <4>5
      <4>7. stored[i].ids = [m \in 1 .. Len(codes) |-> table'[codes[m]]]
        BY <4>2, <4>6
      <4> QED BY <4>1, <4>7 DEF codes
    <3> QED BY <3>2, <3>3
  <2>2. page' = page
    BY <1>2
  <2> HIDE DEF ParsePositions
  <2> QED BY <2>1, <2>2 DEF PositionsRight
<1>24. DoneIsWhole'
  <2>1. \A i \in Jobs : queue'[i].status = "DONE" <=> stored'[i] # None
    BY <1>17 DEF JobInv
  <2>2. ASSUME NEW i \in Jobs, stored'[i] # None PROVE Whole(page[i], stored'[i], table')
    <3>1. \A r \in TeamRows(page[i]) : r[2].team \in Keys
      BY <1>15, TeamRowsRead DEF Keys
    <3>2. CASE i = j
      <4>1. \A r \in TeamRows(page[j]) : table'[r[2].team] # 0
        BY <1>11, <1>14, <3>1, <3>2
      <4> QED BY <1>8, <1>9, <1>14, <3>2, <4>1 DEF Whole
    <3>3. CASE i # j
      <4>1. Whole(page[i], stored[i], table) /\ stored'[i] = stored[i]
        BY <1>1, <1>9, <2>2, <3>3, DoneIsWholeFacts DEF StoredInv
      <4>2. \A r \in TeamRows(page[i]) : table'[r[2].team] # 0
        BY <1>11, <3>1, <4>1 DEF Whole
      <4> QED BY <4>1, <4>2 DEF Whole
    <3> QED BY <3>2, <3>3
  <2>3. \A i \in Jobs : page'[i] = page[i]
    BY <1>2
  <2> QED BY <2>1, <2>2, <2>3, DoneIsWholeFacts
<1>25. NothingHalf'
  <2>1. ASSUME NEW k \in Keys, table'[k] # 0
        PROVE  \E i \in Jobs : stored'[i] # None /\ \E m \in 1 .. Len(Work(page[i])) :
                 Work(page[i])[m] # None /\ Key(Work(page[i])[m]) = k
    <3>1. CASE table[k] # 0
      <4>1. PICK i \in Jobs : stored[i] # None /\ \E m \in 1 .. Len(Work(page[i])) :
              Work(page[i])[m] # None /\ Key(Work(page[i])[m]) = k
        BY <1>1, <3>1 DEF StoredInv, NothingHalf
      <4>2. stored'[i] # None
        BY <1>7, <1>9, <4>1
      <4> QED BY <4>1, <4>2
    <3>2. CASE table[k] = 0
      <4>1. t.mine[k] # 0
        BY <1>11, <2>1, <3>2 DEF Visible, t
      <4> QED BY <1>4, <1>7, <1>9, <1>14, <4>1
    <3> QED BY <3>1, <3>2
  <2> QED BY <1>2, <2>1 DEF NothingHalf
<1>26. CacheTrueUntilRollback'
  <2>1. ASSUME failures = 0, NEW c \in Codes, cache[c] # 0
        PROVE  cache[c] = table'[c] \/ \E v \in Workers : tx'[v].mine[c] = cache[c]
    <3>1. c \in Keys
      BY DEF Keys
    <3>2. CASE cache[c] = table[c]
      BY <1>11, <2>1, <3>1, <3>2
    <3>3. ASSUME NEW v \in Workers, tx[v].mine[c] = cache[c]
          PROVE  cache[c] = table'[c] \/ tx'[v].mine[c] = cache[c]
      BY <1>6, <1>11, <2>1, <3>1, <3>3 DEF Visible
    <3> QED BY <1>1, <2>1, <3>2, <3>3 DEF CacheTrueUntilRollback
  <2> QED BY <1>2, <2>1 DEF CacheTrueUntilRollback
<1> QED BY <1>16, <1>17, <1>18, <1>19, <1>20, <1>21, <1>22, <1>23, <1>24, <1>25, <1>26 DEF IInv, StoredInv

----------------------------------------------------------------------------
(* The theorems *)

LEMMA InitInv == Init => IInv
<1> SUFFICES ASSUME Init PROVE IInv
  OBVIOUS
<1>1. /\ page \in [Jobs -> Pages] /\ queue = [j \in Jobs |-> [status |-> "PENDING", retry |-> 0]]
      /\ table = Nothing /\ sequence = 0 /\ stored = [j \in Jobs |-> None] /\ cache = NoCache
      /\ tx = [w \in Workers |-> NoTx] /\ failures = 0 /\ restarts = 0
  BY DEF Init
<1>2. NoTx \in TxType /\ NoTx.pc = "idle" /\ NoTx.job = None /\ NoTx.ids = <<>> /\ NoTx.mine = Nothing
  BY NoTxFacts
<1> HIDE DEF NoTx
<1>3. MaxQueueRetries \in Nat \ {0} /\ MaxRestarts \in Nat
  BY DataAssumption
<1>4. Types
  BY <1>1, <1>2, <1>3 DEF Types, Nothing, NoCache
<1>5. JobInv
  BY <1>1, <1>2, <1>3 DEF JobInv
<1>6. \A w \in Workers : tx[w].mine = Nothing /\ ~Active(w) /\ tx[w].pc = "idle"
  BY <1>1, <1>2 DEF Active
<1>7. InsertInv /\ KeyInv
  BY <1>1, <1>6 DEF InsertInv, KeyInv, Nothing
<1>8. ListInv
  BY <1>6 DEF ListInv
<1>9. IdInv
  <2>1. ASSUME NEW c \in Codes, NEW id \in Nat \ {0} PROVE ~Holds(c, id)
    <3>1. c \in Keys
      BY DEF Keys
    <3> QED BY <1>1, <1>6, <3>1 DEF Holds, Nothing, NoCache
  <2> QED BY <2>1 DEF IdInv
<1>10. \A j \in Jobs : stored[j] = None /\ queue[j].status = "PENDING"
  BY <1>1
<1>11. StoredInv
  <2>1. NothingHalf
    BY <1>1 DEF NothingHalf, Nothing
  <2>2. StoredIds /\ PositionsRight
    BY <1>10 DEF StoredIds, PositionsRight
  <2>3. DoneIsWhole
    BY <1>10 DEF DoneIsWhole
  <2> QED BY <2>1, <2>2, <2>3 DEF StoredInv
<1>12. CacheTrueUntilRollback
  BY <1>1 DEF CacheTrueUntilRollback, NoCache
<1> QED BY <1>4, <1>5, <1>7, <1>8, <1>9, <1>11, <1>12 DEF IInv

LEMMA NextInv == IInv /\ [Next]_vars => IInv'
<1> SUFFICES ASSUME IInv, [Next]_vars PROVE IInv'
  OBVIOUS
<1>1. CASE Restart
  BY <1>1, KeepRestart
<1>2. ASSUME NEW w \in Workers, NEW j \in Jobs, Begin(w, j) PROVE IInv'
  BY <1>2, KeepBegin
<1>3. ASSUME NEW w \in Workers, Progress(w) \/ StatementRaises(w) PROVE IInv'
  <2>1. CASE \/ CachedPosition(w) \/ UpsertPosition(w) \/ UpsertCity(w) \/ UpsertTeamStub(w)
             \/ UpsertStd(w) \/ UpsertShooting(w) \/ UpsertPlayingTime(w) \/ UpsertMisc(w)
             \/ StorePlayer(w)
    <3>1. DoesNext(w)
      BY <2>1, ProgressDoes DEF IInv
    <3> QED BY <3>1, NextEntry
  <2>2. CASE StartUpsert(w)
    BY <2>2, KeepUpsert
  <2>3. CASE Commit(w)
    BY <2>3, KeepCommit
  <2>4. CASE StatementRaises(w) \/ ForeignKeyFails(w) \/ DeadlockDetected(w)
    BY <2>4, KeepRollback
  <2>5. CASE RecordFailure(w)
    BY <2>5, KeepRecord
  <2> QED BY <1>3, <2>1, <2>2, <2>3, <2>4, <2>5 DEF Progress
<1>4. CASE UNCHANGED vars
  <2>1. UNCHANGED <<page, queue, table, sequence, stored, cache, tx, failures, restarts>>
    BY <1>4 DEF vars
  <2>2. Types' /\ JobInv' /\ InsertInv' /\ KeyInv' /\ CacheTrueUntilRollback'
    BY <2>1 DEF IInv, Types, JobInv, InsertInv, KeyInv, CacheTrueUntilRollback
  <2>3. \A v \in Workers : Keeps(v)
    BY <2>1 DEF Keeps, Active
  <2>4. IdInv'
    BY <2>1, <2>3, IdsKept DEF IInv
  <2>5. ListInv'
    <3>1. ASSUME NEW v \in Workers
          PROVE  /\ Active(v)' => TxInv(v)'
                 /\ ~Active(v)' => tx'[v].mine = Nothing
                 /\ tx'[v].pc = "upserting" => tx'[v].todo # <<>> /\ Current(v)' # None
      BY <2>1, TxStays DEF IInv
    <3> QED BY <3>1 DEF ListInv, Nothing
  <2>6. StoredInv'
    BY <2>1, StoredStays DEF IInv, Types
  <2> QED BY <2>2, <2>4, <2>5, <2>6 DEF IInv
<1> QED BY <1>1, <1>2, <1>3, <1>4 DEF Next

\* The bounds of TypeOK: an id that anything has is one that the sequence gave.
LEMMA IdsBounded == IInv => TypeOK
<1> SUFFICES ASSUME IInv PROVE TypeOK
  OBVIOUS
<1>1. Types /\ IdInv /\ KeyInv /\ StoredIds
  BY DEF IInv, StoredInv
<1>2. sequence \in Nat /\ Ids = 0 .. sequence
  BY <1>1 DEF Types, Ids
<1>3. ASSUME NEW c \in Codes
      PROVE  /\ table[c] \in Ids /\ cache[c] \in Ids
             /\ \A w \in Workers : tx[w].mine[c] \in Ids
  <2>1. ASSUME NEW id \in Nat, id # 0 => Holds(c, id) PROVE id \in Ids
    BY <1>1, <1>2, <2>1 DEF IdInv
  <2>2. table[c] \in Nat /\ cache[c] \in Nat /\ \A w \in Workers : tx[w].mine[c] \in Nat
    BY <1>1 DEF Types, TxType, Keys
  <2>3. Holds(c, table[c]) /\ Holds(c, cache[c]) /\ \A w \in Workers : Holds(c, tx[w].mine[c])
    BY DEF Holds
  <2> QED BY <2>1, <2>2, <2>3
<1>4. 0 \in Ids \cup {1} /\ 1 \in Ids \cup {1}
  BY <1>2
<1>5. table \in [Keys -> Ids \cup {1}]
  <2>1. \A k \in Keys : table[k] \in Ids \cup {1}
    BY <1>1, <1>3, <1>4 DEF KeyInv
  <2> QED BY <1>1, <2>1 DEF Types
<1>6. cache \in [Codes -> Ids]
  BY <1>1, <1>3 DEF Types
<1>7. ASSUME NEW w \in Workers PROVE tx[w].mine \in [Keys -> Ids \cup {1}]
  <2>1. \A k \in Keys : tx[w].mine[k] \in Ids \cup {1}
    BY <1>1, <1>3, <1>4 DEF KeyInv
  <2>2. tx[w].mine \in [Keys -> Nat]
    BY <1>1 DEF Types, TxType
  <2> QED BY <2>1, <2>2
<1>8. ASSUME NEW j \in Jobs, stored[j] # None
      PROVE  stored[j].ids \in Seq(Ids) /\ stored[j].stats \subseteq Tables \X Teams /\ stored[j].nation \in BOOLEAN
  <2>1. stored[j] \in StoredPlayer
    BY <1>1, <1>8 DEF Types
  <2>2. stored[j].ids \in Seq(Nat) /\ stored[j].stats \subseteq Tables \X Teams /\ stored[j].nation \in BOOLEAN
    BY <2>1 DEF StoredPlayer
  <2>3. \A i \in 1 .. Len(stored[j].ids) : stored[j].ids[i] \in Ids
    BY <1>1, <1>2, <1>8 DEF StoredIds
  <2> QED BY <2>2, <2>3
<1>9. \A w \in Workers : tx[w].pc \in {"idle", "next", "upserting", "failing"} /\ tx[w].job \in Jobs \cup {None}
  BY <1>1 DEF Types, TxType
<1> QED BY <1>1, <1>2, <1>5, <1>6, <1>7, <1>8, <1>9 DEF TypeOK, Types

LEMMA InvHolds == Spec => []IInv
  BY InitInv, NextInv, PTL DEF Spec

\* LookupInv: the types with every id one that the sequence gave; nothing that a
\* failed transaction inserted is left in the lookup tables; and until a
\* transaction is rolled back, position_cache has the ids of the codes' rows, with
\* any number of workers that share it.
THEOREM LookupCorrect == Spec => []LookupInv
<1>1. IInv => LookupInv
  BY IdsBounded DEF IInv, StoredInv, LookupInv
<1> QED BY <1>1, InvHolds, PTL

\* PositionsRight: the position ids of a stored player are the rows of the codes
\* of its page, in their order, although the cache that _resolve_positions
\* reads may hold ids of rows that a rollback has taken away, and another
\* worker may insert a code again.
THEOREM PositionsCorrect == Spec => []PositionsRight
<1>1. IInv => PositionsRight
  BY DEF IInv, StoredInv
<1> QED BY <1>1, InvHolds, PTL

\* DoneIsWhole: mark_done commits with all of the page, the player and every row
\* of the four tables with its team's stub, or none of it.
THEOREM WholeCorrect == Spec => []DoneIsWhole
<1>1. IInv => DoneIsWhole
  BY DEF IInv, StoredInv
<1> QED BY <1>1, InvHolds, PTL
=============================================================================
