SPECIFICATION LiveSpec
CONSTANTS
  k1 = k1
  k2 = k2
  x = x
  y = y
  z = z
  city = city
  sn = sn
  None = None
  Handlers = {h1}
  Kinds = {"sync"}
  Keys <- MCKeys
  Fields <- MCFields
  Values <- MCValues
  Serials <- MCSerials
  StageUpdates <- LiveStage
  ProvisionUpdates <- MCProvision
  DeviceSerial = sn
  MaxVersion = 4
  MaxFloor = 1
  Faults = FALSE
PROPERTIES EditsSettle FloorIsMirrored
CONSTRAINT Undisturbed
