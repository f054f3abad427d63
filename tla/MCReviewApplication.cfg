SPECIFICATION ReviewSpec
CONSTANTS
  o1 = o1
  o2 = o2
  f1 = f1
  f2 = f2
  r1 = r1
  r2 = r2
  None = None
  Free = Free
  Writers = {w1}
  Appliers = {a1}
  Offers <- MCOffers
  Fingerprints <- MCFingerprints
  Reasons <- MCReasons
  Commands <- MCCommands
  Parses <- MCParses
  MaxJournal = 2
INVARIANTS
  OutputIsFaithful
  FilesAgree
PROPERTIES
  AuditFollowsOutput
  AuditOnlyGrows
