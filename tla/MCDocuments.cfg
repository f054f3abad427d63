SPECIFICATION Spec
SYMMETRY Symmetry
CHECK_DEADLOCK FALSE
CONSTANTS
  s1 = s1
  s2 = s2
  None = None
  Keys = {k1}
  Payloads <- MCPayloads
  Types = {"QUOTE", "INVOICE"}
  Deals = {d1}
  Sessions <- MCSessions
  MaxVersions = 2
  MaxRenderings = 3
INVARIANT
  PdfIsTheFile
PROPERTY
  ImplementsRegister
