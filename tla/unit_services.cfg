SPECIFICATION BudgetSpec
CONSTANTS
  p1 = p1
  p2 = p2
  Own = {p1}
  Guest = guest
  Alias = alias
  Source = {s1}
  Remote = {s1}
  Level = {1, 2}
  Caller = {c1}
  Watch = watch
  Matching = {p1, p2}
  Foreign = {p2}
  LouderBy <- Louder1
  Trim <- NoTrim
  Ceiling <- FullScale
  Following = {p1, p2}
  MaxVolume = 2
  MaxMoves = 3
  Careful = TRUE
  Thread = {c1, c2}
  Page = {g1}
  e1 = e1
  e2 = e2
  a = a
  b = b
  Endpoint = {e1, e2}
  Config <- Settable
  Daemons = 2
  Off = Off
  MaxTrouble = 3
  Room = {p1}
  MaxHand = 1
  Unit = {1, 2}
  Clock <- Backwards
  MaxSaves = 3
  Me = me
  Other = {u1}
  Stranger = {x1}
  MaxPeers = 1
  Ttl = 1
  MaxPeerChanges = 2
  MaxNoise = 2
  Phones = {q1, q2}
  Handlers = {t1, t2}
  Loops = {1, 2, 3}
  MaxPhoneChanges = 4
  None = None
INVARIANTS ConfigInForce OneOfEach NothingLeft PutBack ToldIsKept LaterWins
PROPERTIES OthersUntouched FollowsSettings NoiseStops Settles OnlyHandsLead ViewSettles CaptureSettles
CHECK_DEADLOCK FALSE
