SPECIFICATION FairSpec
INVARIANTS AnswersAreRecorded CommandsRunAlone EndOfInputDrains
PROPERTIES ServerEnds
CONSTANTS
  Requests = {r1, r2}
  Tools = {"tools/list", "unknown", "get_policy", "explain_diff", "check_repo", "start_session"}
  Earlier = Earlier
  None = None
CHECK_DEADLOCK FALSE
