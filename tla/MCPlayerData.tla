---------------------------- MODULE MCPlayerData ----------------------------
(***************************************************************************)
(* Instances of PlayerData for TLC: pages that name the same two codes and *)
(* two teams in either order.                                              *)
(***************************************************************************)
EXTENDS PlayerData

CONSTANTS FW, MF, t1, t2, city

Row(t, comp, country) == [team |-> t, comp |-> comp, country |-> country]
Page(positions, home, nation, club, std, shooting, playing, misc) ==
  [positions |-> positions, city |-> home, nation |-> nation, club |-> club,
   rows |-> [t \in Tables |-> CASE t = "std" -> std [] t = "shooting" -> shooting
                               [] t = "playing_time" -> playing [] t = "misc" -> misc]]

SmallPages == {
  Page(<<FW, MF>>, None, "listed", None, <<Row(t1, "listed", "listed")>>, <<>>, <<Row(Junk, "none", "none")>>, <<>>),
  Page(<<MF, Junk, FW>>, None, "none", t1, <<>>, <<Row(t1, "listed", "none")>>, <<>>, <<>>),
  Page(<<FW>>, city, "unlisted", t1, <<>>, <<>>, <<Row(t2, "none", "none")>>, <<>>),
  Page(<<>>, None, "listed", t2, <<>>, <<>>, <<>>, <<Row(t1, "unlisted", "unlisted"), Row(t2, "listed", "listed")>>),
  Page(<<MF>>, None, "listed", Junk, <<Row(t1, "listed", "unlisted")>>, <<>>, <<>>, <<>>)}

\* Chosen filters as SelectSeq does.
ASSUME ChosenIsSelectSeq ==
  \A n \in 0 .. 4 : \A s \in [1 .. n -> {FW, MF, Junk}] :
    Chosen(s, {i \in 1 .. n : s[i] # Junk}) = SelectSeq(s, LAMBDA c : c # Junk)
=============================================================================
