SPECIFICATION Spec
CONSTANTS
  Decls <- MCDecls
  Atoms <- MCAtoms
  Wraps <- MCWraps
  Bodies <- MCBodies
  Signatures <- MCSignatures
  Probe <- MCProbe
  Expected <- MCExpected
  MaxDepth = 2
INVARIANTS LoweredAsChecked PureCallsPure HolesPure
