CONSTANTS
  q1 = q1
  q2 = q2
  k1 = k1
  k2 = k2
  s1 = s1
  s2 = s2
  NoReq = NoReq
  Req = {q1, q2}
  Key = {k1}
  Student = {s1}
  KeyOf <- MCKeyOf
  StudentOf <- MCOneStudent
  Desired <- MCDesired
  Expected <- MCVersions
  PoolSize = 3
  MaxVersion = 3
  MaxSeq = 2
SPECIFICATION FairCheckinSpec
INVARIANTS OneWritePerKey  
 
