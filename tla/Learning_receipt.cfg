SPECIFICATION Spec
CONSTANTS
  Packets = {p1, p2}
  Rewards = {"deadline_loss_v1"}
  Algorithms = {"ddqn", "qlearning"}
  BatchSize = 2
  ReplaySize = 3
  TargetInterval = 2
  ResearchDeadline = 1
  Horizon = 2
  MaxChoices = 3
  MaxRuns = 1
SYMMETRY Alike
INVARIANTS
  ReceiptAccepts
CHECK_DEADLOCK FALSE
