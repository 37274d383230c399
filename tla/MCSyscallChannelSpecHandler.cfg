\* The handler as spec 4.4 step 4 words it: all four fields reset before it returns.
CONSTANTS
  c1 = c1
  c2 = c2
  Null = Null
  W16 = {0, 65535}
  W32 = {0, 268435456}
  IntEncoding = "varint"
  Callers <- MCCallers
  MaxCalls = 1
  HandlerClears = "all"
SPECIFICATION Spec
INVARIANT ResponseIntegrity
CHECK_DEADLOCK FALSE
