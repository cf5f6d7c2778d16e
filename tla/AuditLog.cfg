SPECIFICATION Spec
CONSTANTS
  Message = {m1}  NoMessage = none  Writer = {w1, w2}  Client = {c1}
  Retention = 1  Limit = 1  MaxEvents = 4  MaxTime = 3
SYMMETRY WriterSymmetry
INVARIANTS TypeOK ChainVerifies SeqNeverReused NoSilentGap TamperEvident
PROPERTIES HeldEventsKept RecentEventsKept
