SPECIFICATION MiniSpec
CONSTANTS
  NoRequest = NoRequest
  Requests = {r1, r2}
  MaxRenders = 4
CHECK_DEADLOCK FALSE
INVARIANTS
  LoadingHasARun
