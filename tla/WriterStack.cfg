\* Two items, three attempts each as in the code.
SPECIFICATION FairSpec
CONSTANTS
  Items = {i1, i2}
  NoItem = NoItem
  Retries = 3
INVARIANTS
  NilMeansKept
  QuarantinedAfterRetries
  InsertedOnce
PROPERTIES
  WriteReturns
  ImplementsItemWriter
