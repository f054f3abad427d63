SPECIFICATION Spec
SYMMETRY Symmetry
CHECK_DEADLOCK FALSE
CONSTANTS
  r1 = r1
  r2 = r2
  x = x
  a = a
  b = b
  None = None
  Requests = {r1, r2}
  RequestKey <- MCRequestKey
  Mails <- MCMails
  MessageIds = {x}
  Attachments = {a, b}
  Accepted = {a}
  Sessions = {s1, s2}
  MaxRetries = 2
  MaxFailures = 2
  MaxMails = 2
INVARIANTS
  SentIsTrue
  DeadLettersTried
  RepliesAreLinked
  MessagesAreWhole
  StoredOnce
