SPECIFICATION OverlapSpec
CONSTANTS
  o1 = o1
  o2 = o2
  None = None
  Fingerprints = {f1}
  Sessions = {s1, s2}
  Operators = {p1, p2}
  Offers <- MCOffers
  Commands <- MCCommands
  MaxDecisions = 2
SYMMETRY MCSymmetry
INVARIANTS
  TypeOK
  AuditTrail
  StatusFollowsDecisions
  FieldsAreDecided
  DecisionsAreSound
  RowIsConsistent
  StatusIsLatest
  ChainIsLinear
PROPERTY
  AppliedOnceApart
