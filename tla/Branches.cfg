SPECIFICATION FairSpec
CHECK_DEADLOCK FALSE
INVARIANTS NoRegisterShared FlagsRegisterGiven SourcesNameProducers WaitingIsInFlight SquashesCleanly
PROPERTIES RefinesISA Terminates
CONSTANTS
  REG_FILE_SIZE = 6
  PHYSICAL_REG_FILE_SIZE = 20
  CC_REG_FILE_SIZE = 4
  ISSUE_QUEUE_SIZE = 8
  BRANCH_QUEUE_SIZE = 3
  LSQ_SIZE = 6
  ROB_SIZE = 12
  BTB_SIZE = 2
  DATA_MEMORY_SIZE = 32
  MIN_COUNTER_START = 999
  num_of_cycles_to_run = 0
  Programs <- MCPrograms
  BitwiseResult <- MCBitwise
