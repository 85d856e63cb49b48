SPECIFICATION Spec
CONSTANTS
  h1 = h1
  h2 = h2
  h3 = h3
  Slots <- TwoSlots
  Requests <- AccountRequests
  Text <- MCText
  Apostrophed <- Apostrophes
  MaxRows = 4
  Faults = TRUE
  Restarts = TRUE
  InitTables <- NoTables
  InitUsers <- Nothing
  InitContacts <- Nothing
  BobRaises <- NoText
  JoeRaises <- NoText
  JoeSpeaks <- NoText
INVARIANTS
  EmailUnique
  ContactUnique
  RegisterOutcome
  CreateOutcome
PROPERTIES
  IsAtomic
  UsernameFresh
SYMMETRY SlotSymmetry
