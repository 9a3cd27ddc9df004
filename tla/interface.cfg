CONSTANTS
    t1 = t1  t2 = t2  c2 = c2  c8 = c8  r1 = r1  r2 = r2  w = w
    NULL = NULL  MAGIC = MAGIC  LINK = LINK
    Threads = {t1, t2}
    SUPERBLOCK_SIZE = 18  HEADER_SIZE = 2  MIN_BLOCK_SIZE = 2
    SIZE_RATIO = 250  MAX_BLOCK_SIZE_THRESHOLD_RATIO = 80  MAX_NUM_BINS = 4
    Table <- ThreeSizes  NumBins = 3
    Mappings = {r1, r2}  PAGE = 4  SIZE_MOD = 64  MaxCells = 20  MaxBlocks = 2
    Chunks = {c2, c8}  ChunkBin <- TwoChunks  SmallBlocks <- ThreeBlocks
    Words = {MAGIC}
    MallocRequests = {8, 9, 63}  ReallocRequests = {8, 9, 13}
    CallocRequests <- EightCells
SYMMETRY Alike
SPECIFICATION Spec
INVARIANTS TypeOK TableReady ContentsKept LargeEnough NothingLeaked HeadersKept OnlyKnownFaults LookupFindsFirst
PROPERTY TableStable
