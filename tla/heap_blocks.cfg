SPECIFICATION HeapSpec
CONSTANTS
    Users = {t1, t2}
    mem_size_aligned = 108
    Sizes = {0, 5, 40}
    MaxObjects = 2
    MayRealloc = TRUE
SYMMETRY Alike
INVARIANTS HeapSound ObjectsHaveRoom CopyStaysInside
