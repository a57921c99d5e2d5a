CONSTANTS
  Proc = {p1, p2, p3, p4}
  Suspect = {p1, p2, p3, p4}
  MaxFaulty = 1
  max_rounds = 2
  zero = zero
  a = a
  Zero = zero
  Value = {zero}
  checksum <- MCchecksum1
SPECIFICATION FairSpec
PROPERTY JobsEnd
