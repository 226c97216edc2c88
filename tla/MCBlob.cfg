SPECIFICATION Spec
CONSTANTS
  k1 = k1
  k2 = k2
  x = x
  y = y
  z = z
  city = city
  sn = sn
  None = None
  Handlers = {h1}
  Kinds = {"sync", "fetch"}
  Keys <- MCKeys
  Fields <- MCFields
  Values <- MCValues
  Serials <- MCSerials
  StageUpdates <- MCStage
  ProvisionUpdates <- MCProvision
  DeviceSerial = sn
  MaxVersion = 3
  MaxFloor = 0
  Faults = FALSE
INVARIANTS BlobReadable
