SPECIFICATION Spec
CONSTANTS
  m1 = m1  a1 = a1  a2 = a2  r1 = r1
  Message = {m1}  Attachment = {a1}  Recipient = {r1, r2}
  MessageOf <- OneMessage
  FirstRecipient = r1
  PolicyParams <- OnlyShortRetention
  DefaultTTL = 1  DefaultRetention = 0  DefaultMax = 0
  ChunkSize = 1  Faulty = {}  Broken = {}
  Downloader = {d1, d2}  Operator = {o1}
  MaxTime = 3  MaxGrants = 2  MaxCrashes = 0
SYMMETRY DownloaderSymmetry
INVARIANTS DownloadBudget BudgetIsolation
PROPERTIES RevokedIsFinal
