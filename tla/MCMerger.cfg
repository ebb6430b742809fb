\* Two and three patches merged, or fewer of them.
CONSTANTS
    Byte <- MC_Byte
    MAX_RUN_LEN = 2
    MAX_INST_SIZE = 3
    Chains <- MC_Chains
SPECIFICATION MergerSpec
INVARIANTS MergerTypeOK UnwrapsSucceed CopyIndicesExact MergedMeaning
PROPERTIES EarlySummaryHasNoCopies MergeEnds
CHECK_DEADLOCK FALSE
