CONSTANTS
  Servers = {s1}
  Address <- MCAddress
  Texts <- MCTexts
  PortMax = 7
  Thousand = 3
  Word = 16
  MaxEdits = 2
SPECIFICATION Spec
INVARIANTS TypeOK AllOrNothing OneLateWrite OnlyEdited PaneTruth
