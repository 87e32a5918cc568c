\* The board has accepted a command and is not reset; --sequence is newer.
SPECIFICATION Spec
CONSTANTS
  Prior = {1}
  Sequence = 2
  PeerTimeout = 2
  MaxResets = 0
INVARIANTS NewerSequencePasses
