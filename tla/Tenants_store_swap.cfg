SPECIFICATION TenantServiceSpec
CHECK_DEADLOCK FALSE
CONSTANTS
  Reqs = {r1, r2}
  MaxChanges = 4
INVARIANT SwapIsTemporary
