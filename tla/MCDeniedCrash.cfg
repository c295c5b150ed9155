SPECIFICATION Spec
CONSTANTS
  w1 = w1
  w2 = w2
  Policies = {"scripted"}
  Keys = {"k1"}
  Workers = {w1}
  Consumers = {w1}
  Approvers = {"alice"}
  Trigger <- MCTrigger
  Target <- MCTarget
  Proposals <- MCProposals
  Duration <- MCDuration
  Cooldown <- MCCooldown
  RetriesBelow <- MCRetries
  NeedsApproval <- MCApproval
  ApprovalTimeout <- MCTimeout
  Lease = 2
  BatchSize = 1
  MaxClock = 3
  MaxOpenings = 1
  MaxCrashes = 1
  MaxFaults = 0
INVARIANTS
  NothingStuck
