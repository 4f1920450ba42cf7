SPECIFICATION Spec
CONSTANTS
  Routes = {"direct", "socks5", "http"}
  is_use_split = TRUE
  split_position = 2
  MaxUnits = 1
INVARIANT GrantedFirst
CHECK_DEADLOCK FALSE
