SPECIFICATION Spec
CONSTANTS
  Nil = Nil  Malformed = Malformed  DomainOf <- MCDomainOf
  Trees <- AllTrees  Policies <- PolicyDocs  Envelopes <- MCEnvelopes
  MaxDepth = 4  MaxParts = 8  MaxHeaders = 8  MaxPartSize = 5  MaxTotalSize = 9  MaxAttachmentSize = 3
  InlineMaxSize = 1  MaxHTMLScan = 3  MaxAggregateScan = 4  MaxAggregateTokens = 1  Faults = TRUE  MaxLines = 5
INVARIANTS PartsAccounted BlockOnce BodyKeptNotExempt EmbeddedImageKept PolicyFollowed LimitsHold CutsExact
