SPECIFICATION Spec
CONSTANTS
  h1 = h1
  h2 = h2
  h3 = h3
  Slots <- OneSlot
  Requests <- NamesakeRequests
  Text <- MCText
  Apostrophed <- Apostrophes
  MaxRows = 1
  Faults = FALSE
  Restarts = FALSE
  InitTables <- AllTables
  InitUsers <- BotsAnnBea
  InitContacts <- AnnKnowsBea
  BobRaises <- NoText
  JoeRaises <- NoText
  JoeSpeaks <- NoText
INVARIANTS
  LoginDecides
