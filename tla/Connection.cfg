SPECIFICATION Spec
CONSTANTS
  Clients = {c1}
  NoClient = NoClient
  MaxClients = 2
  MaxChallenges = 2
  MaxChallengesMulti = 1
  MaxChallenge = 2
  MaxAccepts = 2
  MaxConnects = 2
  MaxSequence = 2
  MaxInFlight = 2
INVARIANTS
  IInv
  GameAgrees
  AnswersThisAttempt
  StuckOnlyIf
PROPERTIES
  FindsOut
  EventuallyFreed
CHECK_DEADLOCK FALSE
