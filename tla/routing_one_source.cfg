SPECIFICATION Spec
CONSTANTS
  Source = {a}
  Player = {p, q}
  LocalPlayer = p
  Caller = {c1, c2}
  Solo = Solo
  None = None
SYMMETRY CallerSymmetry
INVARIANTS HeardByMembers ChangeIsQuiet
PROPERTIES IdleIsTrueNone KeepsPromise
