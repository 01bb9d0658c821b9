SPECIFICATION SimSpec
CHECK_DEADLOCK FALSE
PROPERTY AlwaysEnds
CONSTANTS
  REG_FILE_SIZE = 5
  PHYSICAL_REG_FILE_SIZE = 12
  CC_REG_FILE_SIZE = 6
  ISSUE_QUEUE_SIZE = 6
  BRANCH_QUEUE_SIZE = 2
  LSQ_SIZE = 4
  ROB_SIZE = 8
  BTB_SIZE = 2
  BIS_SIZE = 2
  DATA_MEMORY_SIZE = 16
  MIN_COUNTER_START = 999
  MAX_COMPLETED = 40
  num_of_cycles_to_run = 0
  argv2 = "simulator"
  argv3 = 30
  Programs <- Hanging
  BitwiseResult <- MCBitwise
