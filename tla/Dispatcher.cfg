\* One client and the handler, queues of one, two commands, three events, any of which may
\* end at the receiver: every queue fills, and the target can be wedged.
SPECIFICATION FairSpec
CONSTANTS
  Nil = Nil
  Handler = Handler
  Clients = {c1}
  CmdCap = 1
  IncomingCap = 1
  MessageCap = 1
  SyncCap = 1
  MaxCommands = 2
  MaxEvents = 3
  MaxWire = 1
INVARIANTS TypeOK NothingLost AnswerOutstanding
PROPERTIES PipeSpec ExecuteReturns
CHECK_DEADLOCK FALSE
