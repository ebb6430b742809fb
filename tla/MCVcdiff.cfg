\* Convert every file of MC_Files.
CONSTANTS
    Byte <- MC_Byte
    MAX_RUN_LEN = 2
    MAX_INST_SIZE = 3
    MAX_WIN_SIZE = 5
    Files <- MC_Files
SPECIFICATION ConvertSpec
INVARIANTS
    ConvertTypeOK ConvertedMeaning HeadersMatch FailsOnlyOnLongPeriods
CHECK_DEADLOCK FALSE
