SPECIFICATION Spec
CONSTANTS
  m1 = m1  a1 = a1  a2 = a2  r1 = r1
  Message = {m1}  Attachment = {a1, a2}  Recipient = {r1}
  MessageOf <- OneMessageTwoAttachments
  FirstRecipient = r1
  PolicyParams <- OnlyNoRetention
  DefaultTTL = 1  DefaultRetention = 0  DefaultMax = 0
  ChunkSize = 1  Faulty = {a1, a2}  Broken = {}
  Downloader = {}  Operator = {o1}
  MaxTime = 4  MaxGrants = 2  MaxCrashes = 1
SYMMETRY AttachmentSymmetry
INVARIANTS TypeOK RefIntegrity NoDeadLink NoOrphanObject
PROPERTIES HeldRowsSurvive HeldBytesSurvive
