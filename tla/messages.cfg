SPECIFICATION Spec
CONSTANTS
  h1 = h1
  h2 = h2
  h3 = h3
  Slots <- TwoSlots
  Requests <- MessageRequests
  Text <- MCText
  Apostrophed <- Apostrophes
  MaxRows = 2
  Faults = TRUE
  Restarts = TRUE
  InitTables <- AllTables
  InitUsers <- BotsAnnBea
  InitContacts <- AllKnown
  BobRaises <- StopsBob
  JoeRaises <- StopsJoe
  JoeSpeaks <- JoeAnswers
INVARIANTS
  BotReplyAdjacent
  PostOutcome
  PollAttribution
PROPERTIES
  IsAtomic
  Answered
