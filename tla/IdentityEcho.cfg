SPECIFICATION Spec
CONSTANTS
  u1 = u1
  u2 = u2
  u3 = u3
  a1 = a1
  a2 = a2
  t1 = t1
  t2 = t2
  n1 = n1
  n2 = n2
  c1 = c1
  c2 = c2
  Users <- MCUsers
  Agents <- MCAgents
  Tokens <- MCTokens
  Names <- MCNames
  Calls <- MCCalls
  Roles <- MCRoles
  Mintable <- MCMintable
  Founder = u1
  NoRow = NoRow
  NoOne = NoOne
  MaxLog = 4
SYMMETRY Interchangeable
INVARIANTS
  EchoesConverge
