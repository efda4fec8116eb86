\* Two workers; two reports of one instance and one of another; two attempts; one crash.
SPECIFICATION MCSpec
CONSTANTS
  Workers = {w1, w2}
  Reports = {"a", "b", "d"}
  Instances = {1, 3}
  InstanceOf <- MCInstanceOf
  Known = {1}
  Players = {1, 2}
  Toons <- MCToons
  PlayerOf <- MCPlayerOf
  Used <- MCUsed
  Names = {"n1", "n2"}
  NameIn <- MCNameIn
  Retries = 2
  MaxCrashes = 1
  NoReport = NoReport
  Number <- MCNumber
  Samples <- MCSamples
INVARIANTS
  InstanceAllOrNothing
  WaitsEmptyHanded
  NamedAfterWrite
  OnlyUnknownActivityFails
  FreshByEra
  RowsFit
PROPERTIES
  NamesKept
  ImplementsStore
  WriteEnds
