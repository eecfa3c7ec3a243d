\* Two clients poll one job with a webhook (two attempts instead of three)
\* across a restart: jobs share nothing but the sweep.  Beside it a connection
\* with two lines and a channel of one frame instead of sixteen: fewer frames
\* than a call reports and answers.
SPECIFICATION McpFairSpec
CONSTANTS
  Clients = {c1, c2}
  Jobs = {j1}
  TTL = 1
  MaxAttempts = 2
  MaxRestarts = 1
  None = None
  Asks = {a1, a2}
  Room = 1
  MaxProgress = 2
INVARIANTS AnswersAreWhole NoneLostUnread ReceiversHearTheSame AnswersInOrder
PROPERTIES WebhookSettles TakenIsAnswered ServersEnd ImplementsDialogue
CHECK_DEADLOCK FALSE
