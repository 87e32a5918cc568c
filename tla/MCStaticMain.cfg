\* Four endpoints, every call can fail, and one unasked loss of the access
\* point, which the driver mends by itself.
SPECIFICATION FairSpec
CONSTANTS
  Kind <- MCKind
  MaxDrops = 1
INVARIANTS TypeOK FinalizedExactlyOnce SpinIsReady ReconnectedIsReal
PROPERTIES DependentsFirst MainSettles
