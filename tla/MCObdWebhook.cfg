SPECIFICATION ObdSpec
CONSTANTS
  StdTimeout = 2
  Ecus = {"e1", "e2"}
  AtCommands <- Commands
  Expected = {0, 2}
  Others = {"x"}
  RxDepth = 1
  MaxAnswers = 2
  File <- TheFile
  CarData <- TheCar
  Answers <- TheAnswers
  ScanProtocols = {"7", "3"}
  ScanRequests = 2
  MaxScans = 1
  QueueSize = 3
  Readers = {"webhook"}
  Operators = {"|", "<", "-", "/"}
  MaxTokens = 8
  Urls = {"http:a", "https:b"}
  PlainUrls = {"http:a"}
  Keys = {"k", "l"}
  Values = {"0", "1"}
  MaxEdits = 2
INVARIANT LatestConfig
CHECK_DEADLOCK FALSE
