SPECIFICATION StartSpec
CONSTANTS
  c1 = c1
  c2 = c2
  a = a
  b = b
  cup = cup
  league = league
  None = None
  Countries = {c1, c2}
  Players = {a, b}
  PlayersOf <- ListedPlayers
  KnownPlayers = {}
  TriggerCount = 1
  Step2Workers = {"s1"}
  Step3Workers = {"t1"}
  Doubtful = {c2}
  Competitions = {league}
  HostOf <- Hosts
  NationalTeams = {c1}
  MaxSeedRetries = 2
INVARIANTS DatabaseInv EveryPlayerSeeded PipelineAtHead StoredIsRegistered
PROPERTIES CommandEnds
