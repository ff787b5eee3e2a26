\* Three pages of two rows; rows change their status three times on the way.
CONSTANTS
  Rows = {1, 2, 3, 4, 5}
  PageSize = 2
  MaxChanges = 3
SPECIFICATION ListingSpec
INVARIANTS ListingTypeOK WalkAccounted
CHECK_DEADLOCK FALSE
