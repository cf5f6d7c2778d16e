SPECIFICATION CommandSpec
CONSTANTS
  MaxVersion = 2
  Broken <- MCBroken
  MaxRuns = 2
  Inputs <- MCInputs
INVARIANTS ServerInv SetupSafe ConfigSound
PROPERTIES StopsCleanly HupNotLost
