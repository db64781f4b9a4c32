SPECIFICATION Spec
CONSTANTS
  Requests = {r1, r2}
  Tools = {"unknown", "get_policy", "check_repo"}
  Earlier = Earlier
  None = None
INVARIANT AuditFailureEndsUnhealthy
CHECK_DEADLOCK FALSE
