SPECIFICATION FairSpec
CHECK_DEADLOCK FALSE
INVARIANTS TypeOK RoBContiguous LSQFollowsRoB RoomWhenDispatched BTBUnique BusesDistinct FindsEntry MAUUndisturbed
PROPERTIES EarliestIssued StoresInProgramOrder MulFUNotPipelined
CONSTANTS
  REG_FILE_SIZE = 4
  PHYSICAL_REG_FILE_SIZE = 8
  CC_REG_FILE_SIZE = 6
  ISSUE_QUEUE_SIZE = 2
  BRANCH_QUEUE_SIZE = 2
  LSQ_SIZE = 2
  ROB_SIZE = 5
  BTB_SIZE = 2
  DATA_MEMORY_SIZE = 32
  MIN_COUNTER_START = 999
  num_of_cycles_to_run = 50
  Programs <- MCPrograms
  BitwiseResult <- MCBitwise
