CONSTANTS
  d = 4
  height = 2
  WordSize = 65536
  zero = zero
  a = a
  Zero = zero
  Value <- MCValue
  checksum <- MCchecksum
SPECIFICATION Spec
INVARIANTS
  TypeOK
  TreesMatch
  LengthsAgree
  UnanimityKept
