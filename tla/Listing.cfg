SPECIFICATION Spec
CONSTANTS
  Second = 1  Digit = {0, 1}  Precision = 1
  Id = {1, 2, 3}  Class = {"on", "off"}  Domain <- MCDomain
  Kind = {"links", "messages", "attachments", "tokens", "report"}
  DefaultPage = 1  MaxPage = 2
INVARIANTS PagesExact ReportComplete
CHECK_DEADLOCK FALSE
