SPECIFICATION ProfileSpec
CONSTANTS
  Users = {u}
  Uploads = {i1, i2}
  NoPicture = NoPicture
  Wanted = {TRUE}
\* One claim at a time.
INVARIANT StatusDerived
\* INVARIANT TwoPhotos
\* INVARIANT ClosedIsEmpty
\* INVARIANT PictureFits
\* INVARIANT WishCounts
\* PROPERTY OwnUploadEnds
