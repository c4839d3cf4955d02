SPECIFICATION FairContainer
CONSTANTS
  WaitSeconds = 3
  Requests = {q1, q2}
  q1 = q1
  q2 = q2
INVARIANT AgentStartsPrepared
INVARIANT NoGatewayLeftBehind
INVARIANT GraceGiven
PROPERTY ServesUnlessDeaf
PROPERTY StopsWhenTold
CHECK_DEADLOCK FALSE
