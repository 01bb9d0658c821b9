SPECIFICATION FairSpec
CHECK_DEADLOCK FALSE
INVARIANTS RegistersConserved CCConserved NoInstructionForgotten TableNamesYoungest Undisturbed
PROPERTIES RefinesISA RenamesInOrder Terminates
CONSTANTS
  REG_FILE_SIZE = 4
  PHYSICAL_REG_FILE_SIZE = 12
  CC_REG_FILE_SIZE = 6
  ISSUE_QUEUE_SIZE = 5
  BRANCH_QUEUE_SIZE = 2
  LSQ_SIZE = 4
  ROB_SIZE = 7
  BTB_SIZE = 2
  DATA_MEMORY_SIZE = 32
  MIN_COUNTER_START = 999
  num_of_cycles_to_run = 0
  Programs <- MCPrograms
  BitwiseResult <- MCBitwise
