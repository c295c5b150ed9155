SPECIFICATION Spec
CONSTANTS
  w1 = w1
  w2 = w2
  Policies = {"scripted"}
  Keys = {"k1"}
  Workers = {w1, w2}
  Consumers = {w1}
  Approvers = {"alice"}
  Trigger <- MCTrigger
  Target <- MCTarget
  Proposals <- MCProposals
  Duration <- MCDuration
  Cooldown <- MCCooldown
  RetriesBelow <- MCRetries
  NeedsApproval <- MCApproval
  ApprovalTimeout <- MCTimeout
  Lease = 1
  BatchSize = 1
  MaxClock = 2
  MaxOpenings = 2
  MaxCrashes = 0
  MaxFaults = 0
INVARIANTS
  TypeOK
  LeaseProtectsExecution
  LimitsHoldUnlessConcurrent
