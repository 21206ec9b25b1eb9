SPECIFICATION SpecInSession
CONSTANTS
  Source = {a, b}
  Player = {p, q}
  LocalPlayer = p
  Caller = {c1, c2}
  Solo = Solo
  None = None
PROPERTY BystandersKeepListening
CONSTRAINT Bystanders
SYMMETRY UnitSymmetry
