SPECIFICATION Spec
CONSTANTS
  Key <- MCKey  Content <- MCContent  Caller = {c1, c2}  Inode = {1, 2, 3}
SYMMETRY CallerSymmetry
INVARIANTS TreeSound
PROPERTIES ImplementsDriver
