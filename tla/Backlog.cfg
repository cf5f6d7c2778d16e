SPECIFICATION Spec
CONSTANTS
  m1 = m1  a1 = a1  a2 = a2  a3 = a3
  Message = {m1}  Attachment = {a1, a2, a3}  Recipient = {r1}
  MessageOf <- OneMessage  Deadline <- OldestFirst
  MaxTime = 4  ChunkSize = 2  Faulty = {a1}  Broken = {a1}
PROPERTIES BacklogDrains AuditRuns
