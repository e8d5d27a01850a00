SPECIFICATION ClientSpec
CONSTANTS
  MaxRead = 2
  MaxSaid = 1
  CharMax = 7
  Methods <- MCMethods
  Logins <- MCLogins
  Replies <- MCReplies
INVARIANTS FreedUnlessFault AsksInTurn NoAnswerHeldBack LikeAnySession
CHECK_DEADLOCK FALSE
