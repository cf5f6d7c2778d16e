SPECIFICATION Spec
CONSTANTS
  FailureModes = {"open", "closed"}
  Name = {1, 2}
  Text = {s, t}
  SentGaps = {"fold", "ragged", "front"}
  ChunkSize = {1, 2}
  MaxMessageSize = 1
  MaxHeaders = 3
  MaxBody = 2
  MaxRepeat = 2
INVARIANTS ReconcileExact UnchangedUntouched
