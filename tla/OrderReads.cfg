SPECIFICATION LiveSpec
CONSTANTS
  Orders = {"o1", "o2", "o3"}
  Me = "me"
  DriverType <- MCDriverType
  Trip <- MCTrip
  Moves = {"completed"}
  Ratings = {5}
  Comments <- MCComments
  Now = 3
  Limits = {0, 3}
  Offsets <- MCOffsets
  DefaultLimit = 1
  MaxLimit = 2
  Searches <- MCSearches
INVARIANTS
  NothingIsMissed
  ListsAgree
  PricesFollowTrips
  SearchIsExact
PROPERTY PagingEnds
CHECK_DEADLOCK FALSE
