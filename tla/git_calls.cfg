SPECIFICATION FairSpec
CONSTANTS
  Main = Main
  b1 = b1
  b2 = b2
  Refs = Refs
  Outside = Outside
  Borrowed = {b1, b2}
  Lists <- AFewLists
  Leads <- ALead
  MaxStores = 2
  MaxVisits = 4
  MaxLoose = 1
  MaxReads = 2
  Plans <- AllPlans
INVARIANTS OneVersion WalkExact QuietCallExact
PROPERTIES CallEnds
