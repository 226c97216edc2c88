SPECIFICATION FileLiveSpec
CONSTANTS
  k1 = k1
  x = x
  y = y
  city = city
  sn = sn
  None = None
  Torn = Torn
  Callers = {c1, c2}
  Keys <- MCKeys
  Fields <- MCFields
  Values <- MCValues
  Serials <- MCSerials
  Ops <- MCOps
  MaxVersion = 2
INVARIANTS FileTypeOK WholeRecords CriticalSection
PROPERTIES Implements FollowsLife LockReleased
