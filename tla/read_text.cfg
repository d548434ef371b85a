SPECIFICATION Spec
CONSTANTS
  Protocols = {"text"}
  Limit = 2
  MaxLength = 4
  MaxChanges = 1
INVARIANTS TextBounded
