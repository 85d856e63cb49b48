SPECIFICATION Spec
CONSTANTS
  t1 = t1
  t2 = t2
  Null = Null
  Threads <- TwoThreads
  Emails <- AnnAndBea
  Names <- TwoNames
  NewNames <- Bea
  Forms <- ThreeForms
  Friends <- Bob
  InitAccounts <- BeaAccount
  InitContacts <- BeaContacts
INVARIANTS
  GuardedViews
  RegisteredHasBots
PROPERTIES
  ProcessingEnds
