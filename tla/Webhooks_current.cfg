\* Two jobs on the shared clone, main moving between them.
SPECIFICATION WebhookSpec
CONSTANTS
  Deliveries = {d1, d2}
  MaxMerges = 1
  Nowhere = Nowhere
PROPERTY CloneIsCurrent
CHECK_DEADLOCK FALSE
