SPECIFICATION Spec

CONSTANTS
  Spaces = {s1}
  Collections = {k1, k2}
  Docs = {d1}
  Users = {u1}
  Calls = {c1, c2}
  Root = Root
  NoSpace = NoSpace

SYMMETRY Symmetry

INVARIANTS
  LiveStandsOnLive
  CollectionsAreRooted
  SubtreesShareTheirSpace
