\* Two threads on every kernel a build can meet.  A wait without a timeout that
\* nobody signals lasts for good.  One of the two patched trees is discarded
\* between complete setups: each layer alone has to be enough.
SPECIFICATION FirmwareSpec
CONSTANTS
  Thread = {t1, t2}
  NoThread = NoThread
  Repo <- MCRepo
  File <- MCFile
  MaxRestores = 1
  MaxUpdates = 1
INVARIANTS HeldOnce SetupIsComplete SetupResumes
PROPERTY TimedWaitReturns
CHECK_DEADLOCK FALSE
