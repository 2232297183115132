SPECIFICATION Spec

CONSTANTS
  Spaces = {s1, s2}
  Collections = {c1, c2, c3}
  Docs = {d1, d2}
  Users = {u1}
  Slugs = {a, b}
  Root = Root
  NoSpace = NoSpace
  NoSlug = NoSlug
  MaxDepth = 2

SYMMETRY Symmetry

CONSTRAINT SmallTrees

INVARIANTS
  IInv
  NoLiveUnderTrashed
  SpaceIsInherited
  NoCycles
  DepthWithinCap
  SlugsAreUnique
  PublicAddresses
  ReplayIsExact

PROPERTIES
  AclTransitionsAreWhole
