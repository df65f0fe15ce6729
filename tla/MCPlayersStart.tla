--------------------------- MODULE MCPlayersStart ---------------------------
(***************************************************************************)
(* The instance of PlayersStart for TLC: two countries with a player each, *)
(* one of them without a national team; a competition of the first one.    *)
(***************************************************************************)
EXTENDS PlayersStart, PipelineDocs, TLC

CONSTANTS c1, c2, a, b, cup, league

ListedPlayers == (c1 :> {a}) @@ (c2 :> {b})
Hosts == [k \in Competitions |-> IF k = cup THEN None ELSE c1]
=============================================================================
