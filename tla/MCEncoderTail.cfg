\* A long match that ends four bytes before the target does.
CONSTANTS
    Byte <- MC_Byte
    MAX_RUN_LEN = 1
    MAX_INST_SIZE = 3
    HASH_MULT = 3
    MOD_INV = 11
    HASH_SIZE = 16
    Buckets <- MC_Buckets
    BucketOf <- MC_BucketOf
    MIN_MATCH = 3
    SRC_HASH_LEN = 5
    DEFAULT_PREV_SIZE = 8
    Files <- MC_ChangedTail
    Configs <- MC_SrcOnly
    Srcs <- MC_Srcs
    Prefixes <- MC_Prefixes
    Suffixes <- MC_Suffixes
    MinPiece = 11
SPECIFICATION EncoderSpec
INVARIANT EncodeReturns
