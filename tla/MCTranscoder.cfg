\* Join and cut every patch of MC_Inputs.
CONSTANTS
    Byte <- MC_Byte
    MAX_RUN_LEN = 2
    MAX_INST_SIZE = 3
    Inputs <- MC_Inputs
SPECIFICATION TranscoderSpec
INVARIANTS
    TranscoderTypeOK SameMeaning SizesFit NotMoreOps
PROPERTY Transcodes
CHECK_DEADLOCK FALSE
