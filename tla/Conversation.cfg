SPECIFICATION Spec
CONSTANTS
  None = None
  Words = {"a", "b"}
  MaxWords = 4
  Calls = {1, 2}
  MaxWire = 2
  Rows = 4

  
  
PROPERTIES
  ShowsTranscript
  ResponseEnds
CHECK_DEADLOCK FALSE
