SPECIFICATION FairSpec
CONSTANTS
  Senders = {s1, s2}
  Tags = {a}
  Wants = {{}, {a}}
  Limits = {1, 2}
  MaxLimit = 2
  MaxHeld = 2
  NoMessage = NoMessage
INVARIANTS UsersBounded OwnerAttends SendersAttended QueueExact LateMessagesFew
PROPERTIES ImplementsMailbox ReceiveReturns SomeSenderGetsIn
