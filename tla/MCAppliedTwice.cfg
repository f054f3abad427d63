SPECIFICATION OverlapSpec
CONSTANTS
  o1 = o1
  o2 = o2
  None = None
  Fingerprints = {f1}
  Sessions = {s1, s2}
  Operators = {p1, p2}
  Offers <- MCOffers
  Commands <- MCCommands
  MaxDecisions = 2
PROPERTY
  AppliedOnce
