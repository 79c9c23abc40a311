SPECIFICATION StdioSpec
CONSTANTS
  MaxMessages = 3
  NoMessage = NoMessage
PROPERTIES
  KeepsItsPromise
  AllSettled
CHECK_DEADLOCK FALSE
