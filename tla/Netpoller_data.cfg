SPECIFICATION FairSpec
CONSTANTS
  Gs = {g1}
  FDs = {f1}
  NoG = NoG
  MaxEvents = 1
  MaxPackets = 1
PROPERTIES
  DataWakesReader
