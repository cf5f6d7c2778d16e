SPECIFICATION Spec
CONSTANTS
  FailureModes = {"open", "closed", "Closed"}
  Name = {1}
  Text = {s}
  SentGaps = {"one"}
  ChunkSize = {1}
  MaxMessageSize = 1
  MaxHeaders = 1
  MaxBody = 2
  MaxRepeat = 1
INVARIANTS ClosedTempFails
