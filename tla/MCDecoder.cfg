\* Decoder over fresh and reused sinks.
CONSTANTS
    Byte <- MC_Byte
    MAX_RUN_LEN = 2
    MAX_INST_SIZE = 3
    Src <- MC_Src
    Sections <- MC_Sections
    Sinks <- MC_Sinks
    MaxOps = 2
    MaxOutput = 5
SPECIFICATION MCSpec
INVARIANTS DecoderTypeOK CursorAtOutputEnd
PROPERTIES ImplementsMeaning SectionFinishes
CHECK_DEADLOCK FALSE
