------------------------- MODULE PipelineConstants -------------------------
(***************************************************************************)
(* What the site lists, for the modules of the players command.            *)
(***************************************************************************)
EXTENDS Naturals, FiniteSets

CONSTANTS
  Countries,     \* the countries the site lists
  Players,       \* player profile URLs
  PlayersOf,     \* the players that the page of a country lists
  None           \* no job, no country

ASSUME CountriesAssumption == IsFiniteSet(Countries) /\ IsFiniteSet(Players)
ASSUME PlayersAssumption == PlayersOf \in [Countries -> SUBSET Players]
ASSUME NoneAssumption == {None, "exited"} \cap (Countries \cup Players) = {} /\ None # "exited"
=============================================================================
