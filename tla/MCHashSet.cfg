SPECIFICATION Spec
CONSTANTS
  Key <- MCKey
  Hash <- MCHash
  Sizes <- MCSizes
  Empty = Empty
  Deleted = Deleted
  MinBuckets = 2
INVARIANTS TypeOK NotAborted Findable SizeOK
PROPERTY Implements
