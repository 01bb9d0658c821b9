SPECIFICATION FairSpec
CHECK_DEADLOCK FALSE
PROPERTY BranchWaitsForFlags
CONSTANTS
  REG_FILE_SIZE = 6
  PHYSICAL_REG_FILE_SIZE = 12
  CC_REG_FILE_SIZE = 8
  ISSUE_QUEUE_SIZE = 6
  BRANCH_QUEUE_SIZE = 2
  LSQ_SIZE = 4
  ROB_SIZE = 8
  BTB_SIZE = 2
  DATA_MEMORY_SIZE = 16
  MIN_COUNTER_START = 999
  num_of_cycles_to_run = 0
  Programs <- BranchBehindMultiply
  BitwiseResult <- MCBitwise
