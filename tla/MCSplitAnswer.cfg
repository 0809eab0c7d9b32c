SPECIFICATION Spec
CONSTANTS
  dashboard = dashboard
  user = user
  None = None
  Requests <- MCRequests
  AnswerSize = 3
INVARIANT CommandFrameAnswersRequest
CHECK_DEADLOCK FALSE
