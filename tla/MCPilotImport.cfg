SPECIFICATION FairSpec
CONSTANTS
  o1 = o1
  o2 = o2
  p1 = p1
  p2 = p2
  None = None
  Offers <- MCOffers
  Parsed <- MCParsed
  Reports <- MCReports
  Keys = {k1, k2, k3}
  Sessions = {s1, s2}
INVARIANTS
  ImportTypeOK
  AllOrNothing
  LinksAreTrue
  CountsAreTrue
PROPERTIES
  OffersAreKept
  JobsEnd
