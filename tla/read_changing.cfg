SPECIFICATION Spec
CONSTANTS
  Protocols <- AllProtocols
  Limit = 2
  MaxLength = 4
  MaxChanges = 2
INVARIANTS ReadsBounded ResolvedReadsExamined QuietReadExact
PROPERTIES ReturnsWholeFile
