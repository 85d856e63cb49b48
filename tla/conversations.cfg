SPECIFICATION Spec
CONSTANTS
  h1 = h1
  h2 = h2
  h3 = h3
  Slots <- TwoSlots
  Requests <- ConversationRequests
  Text <- MCText
  Apostrophed <- Apostrophes
  MaxRows = 2
  Faults = TRUE
  Restarts = TRUE
  InitTables <- AllTables
  InitUsers <- BotsAnnBea
  InitContacts <- AllKnown
  BobRaises <- NoText
  JoeRaises <- NoText
  JoeSpeaks <- NoText
INVARIANTS
  TypeOK
  LastIdIsMine
  MembersAreContacts
  MakeConversationOutcome
  LookupsFind
PROPERTIES
  IsAtomic
  Answered
