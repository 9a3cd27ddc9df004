CONSTANTS
    t1 = t1  t2 = t2  h1 = h1  h2 = h2  s1 = s1  s2 = s2  s3 = s3
    NULL = NULL  GlobalHeap = GlobalHeap
    Threads = {t1, t2}
    ThreadHeaps = {h1}
    HeapOf <- OneHeap
    Superblocks = {s1, s2, s3}
    num_size_bins = 1  SizeTable <- OneClass  Requests = {4}
    SUPERBLOCK_SIZE = 10  HEADER_SIZE = 2  MIN_BLOCK_SIZE = 2
    UINT_MOD = 64  SIZE_MOD = 1024
    NUM_EMPTINESS_CLASSES = 5
    FREE_SB_THRESH = 0
    MmapMayFail = TRUE
    MaxInFlight = 2  MaxInUse = 9
SPECIFICATION FairSpec
INVARIANTS LockDiscipline NoDeadlock OnlyMappedReachable
PROPERTIES OneTransferIsEnough CallsReturn
