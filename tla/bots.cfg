SPECIFICATION Spec
CONSTANTS
  Words <- Vocabulary
  IntOf <- Numerals
  Half = 8
  MaxWords = 4
INVARIANTS
  BotsBreakOn
  GreetingIsRest
  JoeReckons
PROPERTIES
  JoeStandsBy
CHECK_DEADLOCK FALSE
