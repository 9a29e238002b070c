SPECIFICATION Spec
CONSTANTS
  None = None
  Users = {u1, u2, u3}
  Early = {u1}
  Serials = {c1, c2}
  Requests = {r1, r2}
  MaxRequests = 4
INVARIANTS SerialOnce LicenceBound ResetOnce ResetEndsSessions SuccessorsBound
PROPERTIES RequestsEnd
CHECK_DEADLOCK FALSE
