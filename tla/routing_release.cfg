SPECIFICATION SpecInSession
CONSTANTS
  Source = {a}
  Player = {p}
  LocalPlayer = p
  Caller = {c1}
  Solo = Solo
  None = None
PROPERTY ReleaseSparesPlaying
