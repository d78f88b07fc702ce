SPECIFICATION FairSpec
CONSTANTS
  Step = {1, 2, 3}
  MaxWorkers = 2
INVARIANTS FailureBlocks NothingDropped
PROPERTY Ends
