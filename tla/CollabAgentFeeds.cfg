SPECIFICATION Spec
CONSTANTS
    u1 = u1  u0 = u0  a1 = a1  s1 = s1  s2 = s2  t1 = t1  b1 = b1  b2 = b2
    Users = {u1}
    Agents = {a1}
    Sessions = {s1, s2}
    Tokens = {t1}
    Spaces = {b1, b2}
    Root = Root
    Creator = u0
    Holder <- MCHolder
    OwnerOf <- MCOwnerOf
    Starts <- MCStarts
    Sockets = {k1}
    MaxCommits = 1
INVARIANT
    AgentFeedsFollowStanding
SYMMETRY Interchangeable
CHECK_DEADLOCK FALSE
