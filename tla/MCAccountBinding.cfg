SPECIFICATION FairSpec
CONSTANTS
  None = None
  Source = {dex, idp}
  KeyedByOther = {idp}
  Text = {x, y}
  Login = {l1, l2, l3}
  Bearer = {b1}
CHECK_DEADLOCK FALSE
INVARIANTS TypeOK OneUserPerIdentity UsersAreAccountedFor BearerFindsLogin
PROPERTY LoginsEnd
