SPECIFICATION FairSpec
CONSTANTS
  Plans <- MCPlans
  MaxTrouble = 2
INVARIANTS
  ProgressIsReal
  WaitingIsStopped
  PauseIsPrompt
  MachineFollows
  DrivenIsRecoverable
PROPERTIES
  SuccessIsComplete
  CancelIsHonoured
CHECK_DEADLOCK FALSE
