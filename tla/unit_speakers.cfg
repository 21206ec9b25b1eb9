SPECIFICATION BudgetSpec
CONSTANTS
  Caller = {c1, c2}
  Task = {t1, t2, t3, t4}
  d1 = d1
  d2 = d2
  v1 = v1
  v2 = v2
  k1 = k1
  k2 = k2
  MaxAttempts = 2
  MaxPairDrops = 1
  Settable <- Levels
  MaxSets = 3
  MaxDrops = 2
  MaxTasks = 2
  Card <- Cards
  Boot = boot
  BootCard <- Default
  NoOutput = noOutput
  Retries = 1
  MaxOutputTrouble = 4
  Block = 2
  Chunk = 2
  MaxFrames = 4
  Hard = 2
  Deadband = 0
  TrimEvery = 2
  Lead = {1, 5}
  MaxRenderTrouble = 2
  Gui = {g1}
  MaxRelayFrames = 2
  MaxRelayDrops = 1
  MaxVisits = 2
  Volume <- Levels
  Server <- Servers
  MaxEchoes = 2
  MaxReportTrouble = 4
  Track <- Tracks
  Unknown = unknown
  MaxArtChanges = 4
  Length = 1
  MaxLineChanges = 3
  None = None
INVARIANTS OneDial NoEvictionPending ReleaseSticks PlayingIsNotCut HeldForIt InPhase
PROPERTIES RequestsEnd AttemptsEnd ChoiceIsHeard PagesSettle SaidIsSo ArtSettles TimelineSettles
CHECK_DEADLOCK FALSE
