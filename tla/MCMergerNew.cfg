\* The Merger that new returns, against its own assertion.
CONSTANTS
    Byte <- MC_Byte
    MAX_RUN_LEN = 2
    MAX_INST_SIZE = 3
    Chains <- MC_Chains
SPECIFICATION MergerSpec
INVARIANT MergerHasCopies
CHECK_DEADLOCK FALSE
