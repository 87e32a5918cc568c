\* Builds of eight projects in one directory, saved over each other once, and
\* interrupted anywhere.
SPECIFICATION Spec
CONSTANTS
  None = None
  Project <- MCProject
  Image <- MCImage
  Layout <- MCLayout
  Noinit <- MCNoinit
  Target = "esp32c6"
  MaxEdits = 1
INVARIANTS TypeOK ConsistentBuild AdmittedBuild GeneratedAsDescribed
           RamVerdictsRight AdmittedImageFits StackRowsExact
