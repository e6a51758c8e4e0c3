SPECIFICATION Spec
CONSTANTS
  Packets = {p1, p2}
  Rewards = {"queue", "deadline_loss_v1"}
  Algorithms = {"ddqn", "qlearning"}
  BatchSize = 2
  ReplaySize = 3
  TargetInterval = 2
  ResearchDeadline = 1
  Horizon = 2
  MaxChoices = 3
  MaxRuns = 2
SYMMETRY Alike
INVARIANTS
  EpisodeEndsOnce
  
  LearningIsAccounted
  TrainingIsExact
CHECK_DEADLOCK FALSE
