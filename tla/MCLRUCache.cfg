CONSTANTS
  Page = {1, 2, 3, 4}
  Data = {"a", "b"}
  IntRange = 8
  MaxCapacity = 3
  NoPage = 0
SPECIFICATION MCSpec
INVARIANTS LRUTypeOK MapMatchesList
PROPERTY ImplementsRecency
