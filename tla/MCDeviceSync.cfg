SPECIFICATION Spec
CONSTANTS
  k1 = k1
  k2 = k2
  x = x
  y = y
  z = z
  city = city
  sn = sn
  None = None
  Handlers = {h1, h2}
  Kinds = {"sync", "fetch"}
  Keys <- MCKeys
  Fields <- MCFields
  Values <- MCValues
  Serials <- MCSerials
  StageUpdates <- MCStage
  ProvisionUpdates <- MCProvision
  DeviceSerial = None
  MaxVersion = 3
  MaxFloor = 0
  Faults = TRUE
INVARIANTS TypeOK VersionIdentifiesPayload Agreement DeviceReachable
  BadSignatureIsDue
PROPERTIES PromotionIsProved FollowsLife NumbersRise
SYMMETRY SlotSymmetry
CONSTRAINT NumbersAreUnique
