-------------------------------- MODULE Mmu --------------------------------
(***************************************************************************)
(* Reading flash through the cache (mmu.c): stub_lib_mmu_read_flash        *)
(* borrows the last entries of the DROM part of the MMU table, copies      *)
(* through them and puts them back.  The cache holds one line per virtual  *)
(* page; lines of PSRAM pages can be dirty.  The MMU and the cache are     *)
(* reached through the target's mmu.c and cache.c.                         *)
(*                                                                         *)
(* Virtual addresses are counted from the start of the DROM region.        *)
(***************************************************************************)
EXTENDS Integers, Sequences, MmuTargets

CONSTANTS
    Requests,             \* [addr, size]: the calls the client may make
    UINT32,               \* the number of 32-bit values (2^32)
    PageSize,             \* the MMU's page size
    STUB_MMAP_MAX_PAGES,  \* 8
    DromStart, DromEnd,   \* the MMU entries of the DROM region
    FlashPages,           \* bound: flash pages 0 .. FlashPages - 1
    MaxChange             \* bound: times a page of flash is rewritten

ASSUME MmuAssumption ==
    /\ PageSize \in Nat \ {0} /\ UINT32 \in Nat /\ PageSize < UINT32
    /\ STUB_MMAP_MAX_PAGES \in Nat \ {0}
    /\ DromStart \in Nat /\ DromEnd \in Nat /\ DromStart < DromEnd
    /\ FlashPages \in Nat \ {0} /\ MaxChange \in Nat
    /\ Requests \subseteq [addr : 0 .. UINT32 - 1, size : 0 .. UINT32 - 1]

VARIABLES
    target,               \* the chip this runs on
    encrypted,            \* is its flash encrypted?
    home,                 \* the MMU table as the application has set it up
    table,                \* the MMU table
    cache,                \* the line cached for each virtual page
    stopped,              \* is the cache stopped?
    flash,                \* how often each page has been rewritten
    lost,                 \* has dirty data been dropped, or written to a wrong place?
    s_mmap_state,         \* the entries that are borrowed, and what they held
    pc, req, rc,          \* the call, its arguments, its result
    got                   \* where each byte copied came from

vars == <<target, encrypted, home, table, cache, stopped, flash, lost, s_mmap_state,
          pc, req, rc, got>>
app == <<target, encrypted, home>>
hw == <<table, cache, stopped, lost>>
call == <<s_mmap_state, pc, req, rc, got>>

Entries == 0 .. DromEnd - 1
Page(kind, n, sensitive) == [kind |-> kind, n |-> n, sensitive |-> sensitive]
Invalid == Page("invalid", 0, FALSE)
Psram == Page("psram", 0, FALSE)

\* What stub_target_mmu_write_entry writes for flash page n
FlashEntry(n) == Page("flash", n, encrypted /\ target.mmu.sensitive)
Pages == {Invalid, Psram} \cup
         {Page("flash", n, s) : n \in 0 .. FlashPages - 1, s \in BOOLEAN}

\* Encrypted flash is read in the clear if its entry, or the target, has it decrypted.
Decrypted(p) == p.sensitive \/ ~target.mmu.sensitive

NoLine == [page |-> Invalid, seen |-> 0, clear |-> TRUE, dirty |-> FALSE]
Filled(p) == [page |-> p, seen |-> IF p.kind = "flash" THEN flash[p.n] ELSE 0,
              clear |-> p.kind = "flash" /\ encrypted => Decrypted(p), dirty |-> FALSE]
Dirty(e) == cache[e].dirty

\* The entries a call may borrow; no PSRAM is mapped there.
Borrowable == {e \in Entries : e >= DromStart /\ e >= DromEnd - STUB_MMAP_MAX_PAGES}

(***************************************************************************)
(* The cache operations                                                    *)
(***************************************************************************)
\* Mutant: nothing is written back before everything is dropped.
invalidate_region_NoWriteback(S) ==
    IF target.cache.invalidateAddr
    THEN /\ cache' = [e \in Entries |-> IF e \in S THEN NoLine ELSE cache[e]]
         /\ lost' = (lost \/ \E e \in S : Dirty(e))
    ELSE /\ cache' = [e \in Entries |-> NoLine]
         /\ lost' = (lost \/ \E e \in Entries : Dirty(e))

\* The lines of S are dropped as they are; or all lines are written back, through the
\* table as it now is, and dropped.
mmu_invalidate_region(S) ==
    IF target.cache.invalidateAddr
    THEN /\ cache' = [e \in Entries |-> IF e \in S THEN NoLine ELSE cache[e]]
         /\ lost' = (lost \/ \E e \in S : Dirty(e))
    ELSE /\ cache' = [e \in Entries |-> NoLine]
         /\ lost' = (lost \/ \E e \in Entries : Dirty(e) /\ table[e] # cache[e].page)

(***************************************************************************)
(* The arithmetic of mmu_mmap                                              *)
(***************************************************************************)
offset(r) == r.addr % PageSize
map_size(r) == r.size + offset(r)

page_count(r) == ((map_size(r) + PageSize - 1) % UINT32) \div PageSize

\* Mutant: the DROM region is taken for large enough.
Refused_NoDromCount(r) ==
    \/ r.size = 0
    \/ r.size > UINT32 - 1 - offset(r)
    \/ page_count(r) > STUB_MMAP_MAX_PAGES

Refused(r) ==
    \/ r.size = 0
    \/ r.size > UINT32 - 1 - offset(r)
    \/ page_count(r) > STUB_MMAP_MAX_PAGES
    \/ page_count(r) > DromEnd - DromStart

entry_start(r) == DromEnd - page_count(r)
vaddr_base(r) == (entry_start(r) - DromStart) * PageSize
flash_page(r) == r.addr \div PageSize

Borrowed == s_mmap_state.entry_start .. s_mmap_state.entry_start + s_mmap_state.page_count - 1

(***************************************************************************)
(* State                                                                   *)
(***************************************************************************)
Init ==
    /\ target \in Targets /\ encrypted \in BOOLEAN
    /\ home \in [Entries -> {Invalid, Psram, FlashEntry(0)}]
    /\ \A e \in Borrowable : home[e].kind # "psram"
    /\ table = home
    /\ cache = [e \in Entries |-> NoLine]
    /\ stopped = FALSE /\ lost = FALSE
    /\ flash = [n \in 0 .. FlashPages - 1 |-> 0]
    /\ s_mmap_state = [entry_start |-> 0, page_count |-> 0, saved_entries |-> <<>>]
    /\ pc = "idle" /\ req = [addr |-> 0, size |-> 0] /\ rc = "none" /\ got = <<>>

\* The arguments are refused, or the cache is stopped.
mmu_mmap(r) ==
    /\ pc = "idle"
    /\ req' = r /\ got' = <<>>
    /\ IF Refused(r)
       THEN rc' = "INVALID_ARG" /\ UNCHANGED <<pc, stopped>>
       ELSE rc' = "none" /\ pc' = "map" /\ stopped' = TRUE
    /\ UNCHANGED <<app, table, cache, lost, flash, s_mmap_state>>

\* Mutant: the old entries are read after the new ones have been written.
MapEntries_SavesLate ==
    /\ pc = "map"
    /\ table' = [e \in Entries |->
                    IF e >= entry_start(req)
                    THEN FlashEntry(flash_page(req) + (e - entry_start(req))) ELSE table[e]]
    /\ s_mmap_state' = [entry_start |-> entry_start(req), page_count |-> page_count(req),
                        saved_entries |-> [i \in 1 .. page_count(req) |->
                                              table'[entry_start(req) + i - 1]]]
    /\ pc' = "map_invalidate"
    /\ UNCHANGED <<app, cache, stopped, lost, flash, req, rc, got>>

\* Save the old entries, write the new ones, remember both
MapEntries ==
    /\ pc = "map"
    /\ s_mmap_state' = [entry_start |-> entry_start(req), page_count |-> page_count(req),
                        saved_entries |-> [i \in 1 .. page_count(req) |->
                                              table[entry_start(req) + i - 1]]]
    /\ table' = [e \in Entries |->
                    IF e >= entry_start(req)
                    THEN FlashEntry(flash_page(req) + (e - entry_start(req))) ELSE table[e]]
    /\ pc' = "map_invalidate"
    /\ UNCHANGED <<app, cache, stopped, lost, flash, req, rc, got>>

\* Mutant: what the cache holds for the borrowed pages stays there.
MapInvalidate_Skipped ==
    /\ pc = "map_invalidate"
    /\ stopped' = FALSE /\ pc' = "copy"
    /\ UNCHANGED <<app, table, cache, lost, flash, s_mmap_state, req, rc, got>>

\* Drop what the cache holds for the borrowed pages and start it again
MapInvalidate ==
    /\ pc = "map_invalidate"
    /\ mmu_invalidate_region(Borrowed)
    /\ stopped' = FALSE /\ pc' = "copy"
    /\ UNCHANGED <<app, table, flash, s_mmap_state, req, rc, got>>

\* memcpy from the mapped region, through the cache
EntryOf(v) == DromStart + (v \div PageSize)
Copy ==
    LET base == vaddr_base(req) + offset(req)
        touched == {EntryOf(base + k) : k \in 0 .. req.size - 1}
        lines == [e \in Entries |->
                     IF e \in touched /\ cache[e] = NoLine THEN Filled(table[e]) ELSE cache[e]]
    IN  /\ pc = "copy"
        /\ cache' = lines
        /\ got' = [k \in 1 .. req.size |->
                      LET l == lines[EntryOf(base + k - 1)]
                      IN  [page |-> l.page, off |-> (base + k - 1) % PageSize, seen |-> l.seen,
                           clear |-> l.clear]]
        /\ pc' = "unmap"
        /\ UNCHANGED <<app, table, stopped, lost, flash, s_mmap_state, req, rc>>

\* mmu_munmap: stop the cache and put the saved entries back
UnmapEntries ==
    /\ pc = "unmap"
    /\ IF s_mmap_state.page_count = 0
       THEN pc' = "idle" /\ rc' = "OK" /\ UNCHANGED <<table, stopped>>
       ELSE /\ stopped' = TRUE
            /\ table' = [e \in Entries |->
                            IF e \in Borrowed
                            THEN s_mmap_state.saved_entries[e - s_mmap_state.entry_start + 1]
                            ELSE table[e]]
            /\ pc' = "unmap_invalidate" /\ UNCHANGED rc
    /\ UNCHANGED <<app, cache, lost, flash, s_mmap_state, req, got>>

\* Mutant: the lines filled through the mapping stay in the cache.
UnmapInvalidate_Skipped ==
    /\ pc = "unmap_invalidate"
    /\ stopped' = FALSE
    /\ s_mmap_state' = [s_mmap_state EXCEPT !.page_count = 0]
    /\ pc' = "idle" /\ rc' = "OK"
    /\ UNCHANGED <<app, table, cache, lost, flash, req, got>>

\* Drop what the mapping left in the cache, start it again and return
UnmapInvalidate ==
    /\ pc = "unmap_invalidate"
    /\ mmu_invalidate_region(Borrowed)
    /\ stopped' = FALSE
    /\ s_mmap_state' = [s_mmap_state EXCEPT !.page_count = 0]
    /\ pc' = "idle" /\ rc' = "OK"
    /\ UNCHANGED <<app, table, flash, req, got>>

(***************************************************************************)
(* The application, the flash and the cache between calls                  *)
(***************************************************************************)
\* The application reads a page it has mapped, or writes to one in PSRAM.
Touch(e) ==
    /\ pc = "idle" /\ table[e] # Invalid
    /\ \E write \in BOOLEAN :
          /\ write => table[e].kind = "psram" /\ target.cache.dirty
          /\ LET l == IF cache[e] = NoLine THEN Filled(table[e]) ELSE cache[e]
             IN  cache' = [cache EXCEPT ![e] = [l EXCEPT !.dirty = l.dirty \/ write]]
    /\ UNCHANGED <<app, table, stopped, flash, lost, call>>

\* A cache that runs, or whose autoload alone is stopped, replaces a line and writes it back if it is dirty.
Evict(e) ==
    /\ ~(stopped /\ target.cache.freezes) /\ cache[e] # NoLine
    /\ lost' = (lost \/ (Dirty(e) /\ table[e] # cache[e].page))
    /\ cache' = [cache EXCEPT ![e] = NoLine]
    /\ UNCHANGED <<app, table, stopped, flash, call>>

\* stub_lib_flash_write_buff and the erase calls change flash behind the cache.
Rewrite(n) ==
    /\ pc = "idle" /\ flash[n] < MaxChange
    /\ flash' = [flash EXCEPT ![n] = @ + 1]
    /\ UNCHANGED <<app, hw, call>>

(***************************************************************************)
(* Specification                                                           *)
(***************************************************************************)
Next ==
    \/ \E r \in Requests : mmu_mmap(r)
    \/ MapEntries \/ MapInvalidate \/ Copy \/ UnmapEntries \/ UnmapInvalidate
    \/ \E e \in Entries : Touch(e) \/ Evict(e)
    \/ \E n \in DOMAIN flash : Rewrite(n)

Spec == Init /\ [][Next]_vars

(***************************************************************************)
(* Properties                                                              *)
(***************************************************************************)
\* Types: saved_entries never overflows, and only DROM entries are borrowed.
TypeOK ==
    /\ target \in Targets /\ encrypted \in BOOLEAN /\ stopped \in BOOLEAN /\ lost \in BOOLEAN
    /\ home \in [Entries -> Pages] /\ table \in [Entries -> Pages]
    /\ cache \in [Entries -> [page : Pages, seen : 0 .. MaxChange, clear : BOOLEAN,
                               dirty : BOOLEAN]]
    /\ Len(s_mmap_state.saved_entries) <= STUB_MMAP_MAX_PAGES
    /\ Borrowed \subseteq DromStart .. DromEnd - 1
    /\ pc \in {"idle", "map", "map_invalidate", "copy", "unmap", "unmap_invalidate"}
    /\ rc \in {"none", "OK", "INVALID_ARG"}

\* A call that is accepted copies, for every byte asked for, the byte of flash at
\* that address as it is now and in the clear: neither a neighbouring page, nor what the
\* application had there, nor what flash held when the page was last read.
ReadsRight ==
    pc \in {"unmap", "unmap_invalidate"} =>
        \A k \in 0 .. req.size - 1 :
            LET n == (req.addr + k) \div PageSize
            IN  got[k + 1] = [page |-> FlashEntry(n), off |-> (req.addr + k) % PageSize,
                              seen |-> flash[n], clear |-> TRUE]

\* Between calls the MMU table is the one the application has set up.
TableRestored == pc = "idle" => table = home

\* Between calls no line of the cache comes from another page than the one mapped
\* there: the application never reads flash through a mapping that is gone.
LinesMatchTable ==
    pc = "idle" => \A e \in Entries : cache[e] # NoLine => cache[e].page = table[e]

\* Data the application has written to PSRAM and that is still in the cache gets to
\* PSRAM, whichever way the target invalidates.
NoDirtyLost == ~lost
=============================================================================
