SPECIFICATION Spec
CONSTANTS
  p1 = p1
  p2 = p2
  q1 = q1
  q2 = q2
  Convos <- TwoConvos
  Texts <- OneText
  Other = "hello"
  MaxViews = 2
  MaxLog = 2
  Polls <- TwoPolls
  Posts <- OnePost
  Patient = TRUE
INVARIANTS
  ShownBelongs
  SubmittedIsKept
PROPERTIES
  Converges
