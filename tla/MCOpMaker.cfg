\* translate_inner_ops on every list of at most three ordered matches.
CONSTANTS
    Byte <- MC_Byte
    MAX_RUN_LEN = 1
    MAX_INST_SIZE = 3
    NearSpan = 4
    NearStart = 1
    Cases <- MC_Cases
    MaxMatches = 3
    MinMatch = 2
SPECIFICATION OpMakerSpec
INVARIANTS OpMakerTypeOK AssertionsHold
PROPERTIES OpsRebuildTarget TranslationEnds
CHECK_DEADLOCK FALSE
