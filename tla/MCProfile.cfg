SPECIFICATION ProfileSpec
CONSTANTS
  Users = {u}
  Uploads = {i1, i2}
  NoPicture = NoPicture
  Wanted = {TRUE}
INVARIANTS
  ProfileInv
  ShownStored
  OfferedIsFilled
  NoIsMeant
  InOrder
PROPERTIES
  UploadEnds
