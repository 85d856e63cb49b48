SPECIFICATION Spec
CONSTANTS
  h1 = h1
  h2 = h2
  h3 = h3
  Slots <- TwoSlots
  Requests <- SchemaRequests
  Text <- MCText
  Apostrophed <- Apostrophes
  MaxRows = 4
  Faults = FALSE
  Restarts = FALSE
  InitTables <- NoTables
  InitUsers <- Nothing
  InitContacts <- Nothing
  BobRaises <- NoText
  JoeRaises <- NoText
  JoeSpeaks <- NoText
INVARIANTS
  BotIds
  NoOrphanTables
PROPERTIES
  Answered
