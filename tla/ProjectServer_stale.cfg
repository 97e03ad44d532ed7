SPECIFICATION FairSpec
CONSTANTS
  Requests = {r1, r2, r3}
  None = None
  Kinds = {"edit", "chatMessage", "chatApply"}
CHECK_DEADLOCK FALSE
PROPERTIES
  OldProposalRefused
