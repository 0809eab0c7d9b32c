SPECIFICATION Spec
CONSTANTS
  dashboard = dashboard
  user = user
  None = None
  Requests <- MCRequests
  AnswerSize = 3
INVARIANTS
  ResultIsTheTranscript
PROPERTIES
  RequestSettles
CHECK_DEADLOCK FALSE
