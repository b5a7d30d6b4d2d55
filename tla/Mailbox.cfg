CONSTANTS
  q1 = q1
  q2 = q2
  r1 = r1
  r2 = r2
  r3 = r3
  Questions = {q1, q2}
  Replies = {r1, r2, r3}
  About <- AboutTwo
  Overlap = FALSE
  Faults = TRUE
  ClientsDie = TRUE
  Impatient = TRUE
SPECIFICATION FairMailSpec
INVARIANTS MailTypeOK OneReply Answerable
PROPERTIES EveryQuestionEnds
CHECK_DEADLOCK FALSE
