SPECIFICATION Spec
CONSTANTS
  Starts = {s1}
  Requests <- WholeRequests
INVARIANTS
  DeclarationTellsPolicy
  QuestionsAskOwnData
  PlanSaysTranscript
CHECK_DEADLOCK FALSE
