CONSTANTS
  MaxArchivals = 1
  Coordinators = {c1, c2}
  Batches = {b1, b2}
  NoBatch = NoBatch
  Nobody = Nobody
  MaxAttempts = 2
  MaxCrashes = 1
  MaxFaults = 1
SPECIFICATION FairSpec
INVARIANTS PublishedWithReceipt ExtractionsCounted WorkIsFenced
PROPERTIES ImplementsPromise EventuallyTerminal
