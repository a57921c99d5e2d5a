CONSTANTS
  Proc = {p1, p2, p3, p4}
  Suspect = {p4}
  MaxFaulty = 1
  max_rounds = 2
  zero = zero
  a = a
  Zero = zero
  Value <- MCValue
  checksum <- MCchecksum
SYMMETRY Symmetry
ACTION_CONSTRAINT ReductionFirst
SPECIFICATION Spec
INVARIANTS
  TypeOK
  
  
  
 
