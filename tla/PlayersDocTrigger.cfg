SPECIFICATION StartSpec
CONSTANTS
  c1 = c1
  c2 = c2
  a = a
  b = b
  cup = cup
  league = league
  None = None
  Countries = {c1, c2}
  Players = {a, b}
  PlayersOf <- ListedPlayers
  KnownPlayers = {}
  TriggerCount = 3
  Step2Workers = {"s1", "s2"}
  Step3Workers = {"t1"}
  Doubtful = {c2}
  Competitions = {cup, league}
  HostOf <- Hosts
  NationalTeams = {c1}
  MaxSeedRetries = 2
PROPERTIES Step3Starts
