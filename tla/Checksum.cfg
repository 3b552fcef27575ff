SPECIFICATION Spec
CONSTANTS
  Length = 6
  BitTest = 4
  Iterations <- MCIterations
  Contents <- MCContents
  Bits <- MCBits
INVARIANTS NothingIsBad 
