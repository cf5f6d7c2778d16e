SPECIFICATION Spec
CONSTANTS
  m1 = m1  a1 = a1  a2 = a2  r1 = r1
  Message = {m1}  Attachment = {a1}  Recipient = {r1}
  MessageOf <- OneMessage
  FirstRecipient = r1
  PolicyParams <- OnlyUnset
  DefaultTTL = 1  DefaultRetention = 0  DefaultMax = 0
  ChunkSize = 1  Faulty = {}  Broken = {}
  Downloader = {}  Operator = {o1, o2}
  MaxTime = 1  MaxGrants = 0  MaxCrashes = 0
PROPERTIES HeldNotRevoked
