CONSTANTS
  a = a
  b = b
  Clients = {c1, c2}
  Ids = {1, 2, 3, 4, 5}
  Entities = {11, 12, 13}
  Names = {a, b}
  About <- MCAbout
  Mentions <- MCMentions
  Ours = "ours"
  None = None
  Dim <- MCDim
  Extractions <- MCExtractions
  Existing <- MCExisting
  Ttl = 1
  MaxItems = 1
  TopK = 1
  Page = 2
  MaxTime = 4
  MaxOps = 3
  MaxFaults = 1
SYMMETRY Symmetry
SPECIFICATION Spec
INVARIANTS
  DeadStayDead
  OverflowOnly
  LinksSound
  NamespacesApart
CHECK_DEADLOCK FALSE
