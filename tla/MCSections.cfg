\* make_sections on all lists of up to five operations.
CONSTANTS
    Byte <- MC_Byte
    MAX_RUN_LEN = 2
    MAX_INST_SIZE = 3
    MAX_WIN_SIZE = 6
    OpLists <- MC_OpLists
    SectionSizes <- MC_SectionSizes
    MaxOps = 5
SPECIFICATION SectionsSpec
INVARIANTS SectionsTypeOK SectionsTile SectionsWellFormed TotalsExact CutsOnlyWhenFull
CHECK_DEADLOCK FALSE
