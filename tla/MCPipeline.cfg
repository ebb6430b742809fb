\* Write, read back and apply: every patch of MC_Patches, whole or cut short.
CONSTANTS
    Byte <- MC_Byte
    MAX_RUN_LEN = 1
    MAX_INST_SIZE = 3
    MAX_WIN_SIZE = 5
    VARINT_BASE = 2
    U32_SIZE = 8
    Src <- MC_Src
    Sections <- MC_Sections
    Sinks <- MC_Sinks
    Patches <- MC_Patches
SPECIFICATION PipelineSpec
INVARIANTS
    PipelineTypeOK ReadsWhatWasWritten AcceptedIsReadable NoSilentTruncation
    OutputIsMeaning
PROPERTY ApplyEnds
CHECK_DEADLOCK FALSE
