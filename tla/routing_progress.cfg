SPECIFICATION FairSpec
CONSTANTS
  Source = {a}
  Player = {p}
  LocalPlayer = p
  Caller = {c1, c2}
  Solo = Solo
  None = None
PROPERTIES RequestsEnd FedIsHeard UnfedGoesIdle
