SPECIFICATION FairSpec
CONSTANTS
  Routes = {"direct", "socks5", "http"}
  is_use_split = TRUE
  split_position = 2
  MaxUnits = 2
INVARIANTS StreamsKept GrantedUnlessMisread
PROPERTY PassedOn
CHECK_DEADLOCK FALSE
