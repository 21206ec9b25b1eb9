SPECIFICATION Spec
CONSTANTS
  Request = {r1, r2}
  Page = {}
  Endpoint = {e1, e2}
  Room = {u1}
  MaxHand = 0
INVARIANT EndpointEditsKept
