SPECIFICATION Spec
CONSTANTS
  NULL = NULL
  Configs <- MCConfigs
  Greetings <- MCGreetings
  Logins <- MCLogins
  Requests <- MCRequests
  CharMax = 127
INVARIANTS NothingHeldBack AnswersHeard
PROPERTIES ImplementsDialogue Concludes
CHECK_DEADLOCK FALSE
