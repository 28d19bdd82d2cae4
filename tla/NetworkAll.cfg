SPECIFICATION FairSpec
CONSTANTS
  v1 = v1 v2 = v2 q1 = q1 q2 = q2
  None = None
  AddrSize = 8
  MACSize = 9
  UintSize = 18
  QemuBaseMAC = 1
  RangeLimit = 4
  Procs = {q1, q2}
  VM = {v1, v2}
  Wanted <- MCWanted
  Existing <- MCExisting
  Additions <- MCAdditions
  Users <- MCUsers
  MaxGen = 2
INVARIANT TypeOK
INVARIANT EntriesInside
 
INVARIANT AutoIDLegal
PROPERTY CommandsEnd
