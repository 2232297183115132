CONSTANTS
  u1 = u1
  u2 = u2
  a1 = a1
  team = team
  own = own
  c1 = c1
  d1 = d1
  Root = Root
  Legacy = Legacy
  NoOne = NoOne
  Users = {u1, u2}
  Agents = {a1}
  Teams = {team}
  Personal = {own}
  Collections = {c1}
  Docs = {d1}
  Founder = u1
  OwnerOf <- MCOwnerOf
  PersonalOwner <- MCPersonalOwner
  Roles = {"owner", "member"}
  MaxRows = 1
  Holders = {u1, a1}

SPECIFICATION Spec
INVARIANT TypeOK
PROPERTIES AccessIsDelegated CrossingsAreVouchedFor
