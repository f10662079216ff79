SPECIFICATION Spec
CONSTANTS
    Requests <- const_Requests
    UINT32 = 64
    PageSize = 4
    STUB_MMAP_MAX_PAGES = 3
    DromStart = 1
    DromEnd = 3
    FlashPages = 3
    MaxChange = 1
INVARIANTS TypeOK ReadsRight TableRestored LinesMatchTable NoDirtyLost
