\* The handler leaves the slot to the caller, whose resets end the call.
CONSTANTS
  c1 = c1
  c2 = c2
  Null = Null
  W16 = {0, 65535}
  W32 = {0, 268435456}
  IntEncoding = "varint"
  Callers <- MCCallers
  MaxCalls = 2
  HandlerClears = "none"
SYMMETRY Symmetry
SPECIFICATION Spec
INVARIANT TypeOK
INVARIANT SlotExclusive
INVARIANT IdleWhenFree
INVARIANT ResponseIntegrity
INVARIANT NoEncodeFailure
PROPERTY SlotRefinement
\* Every caller stops after MaxCalls calls.
CHECK_DEADLOCK FALSE
