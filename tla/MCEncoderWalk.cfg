\* A source with zeros appended, found by the naive test, and the target's matcher.
CONSTANTS
    Byte <- MC_Byte
    MAX_RUN_LEN = 1
    MAX_INST_SIZE = 3
    HASH_MULT = 3
    MOD_INV = 11
    HASH_SIZE = 16
    Buckets <- MC_Buckets
    BucketOf <- MC_BucketOf
    MIN_MATCH = 3
    SRC_HASH_LEN = 5
    DEFAULT_PREV_SIZE = 8
    Files <- MC_Padded
    Configs <- MC_AppendOnly
    Srcs <- MC_Srcs
    Prefixes <- MC_Prefixes
    Suffixes <- MC_Suffixes
    MinPiece = 11
SPECIFICATION FairEncoderSpec
PROPERTY WalksEnd
