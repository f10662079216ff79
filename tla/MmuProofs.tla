----------------------------- MODULE MmuProofs -----------------------------
(***************************************************************************)
(* Proofs about Mmu: for every page size, DROM region and set of requests, *)
(* a call leaves table and cache to the application as they were, and what *)
(* it has read is what flash holds, in the clear.                          *)
(***************************************************************************)
EXTENDS Mmu, TLAPS

\* The number of pages of a request is a natural number.
LEMMA PageCountType ==
    ASSUME NEW r \in Requests
    PROVE  page_count(r) \in Nat
<1>1. r.addr \in Nat /\ r.size \in Nat
  BY MmuAssumption
<1>2. PageSize \in Nat /\ PageSize > 0 /\ UINT32 \in Nat /\ UINT32 > 0
  BY MmuAssumption
<1>3. offset(r) \in Nat
  BY <1>1, <1>2 DEF offset
<1>4. map_size(r) + PageSize - 1 \in Nat
  BY <1>1, <1>2, <1>3 DEF map_size
<1>5. (map_size(r) + PageSize - 1) % UINT32 \in Nat
  BY <1>2, <1>4
<1>6. ((map_size(r) + PageSize - 1) % UINT32) \div PageSize \in Nat
  BY <1>2, <1>5
<1>. QED  BY <1>6 DEF page_count

\* Division by the page size gives the number of whole pages and what is left.
LEMMA PageDivision ==
    ASSUME NEW a \in Nat
    PROVE  /\ a \div PageSize \in Nat /\ a % PageSize \in Nat /\ a % PageSize < PageSize
           /\ a = PageSize * (a \div PageSize) + (a % PageSize)
BY MmuAssumption

\* Pages do not overlap.
LEMMA PagesApart ==
    ASSUME NEW p \in Int, NEW q \in Int, p < q
    PROVE  PageSize * p \in Int /\ PageSize * q \in Int /\ PageSize * p + PageSize <= PageSize * q
BY MmuAssumption

\* An address lies in one page only.
LEMMA OnePage ==
    ASSUME NEW a \in Nat, NEW q \in Nat, NEW r \in Nat, r < PageSize, a = PageSize * q + r
    PROVE  a \div PageSize = q /\ a % PageSize = r
<1>. DEFINE s == a \div PageSize
            t == a % PageSize
<1>1. s \in Int /\ t \in Int /\ 0 <= t /\ t < PageSize /\ a = PageSize * s + t
  BY PageDivision
<1>2. PageSize \in Int /\ PageSize * s \in Int /\ PageSize * q \in Int
  BY <1>1, MmuAssumption
<1>. HIDE DEF s, t
<1>3. ~(q < s)
  <2>. SUFFICES ASSUME q < s PROVE FALSE
    OBVIOUS
  <2>1. PageSize * q + PageSize <= PageSize * s
    BY <1>1, PagesApart
  <2>. QED  BY <1>1, <1>2, <2>1
<1>4. ~(s < q)
  <2>. SUFFICES ASSUME s < q PROVE FALSE
    OBVIOUS
  <2>1. PageSize * s + PageSize <= PageSize * q
    BY <1>1, PagesApart
  <2>. QED  BY <1>1, <1>2, <2>1
<1>5. s = q
  BY <1>1, <1>3, <1>4
<1>6. t = r
  BY <1>1, <1>2, <1>5
<1>. QED  BY <1>5, <1>6 DEF s, t

\* Whole pages more move an address by whole pages.
LEMMA PageShift ==
    ASSUME NEW d \in Nat, NEW x \in Nat
    PROVE  /\ (d * PageSize + x) \div PageSize = d + (x \div PageSize)
           /\ (d * PageSize + x) % PageSize = x % PageSize
<1>. DEFINE q == x \div PageSize
            r == x % PageSize
<1>1. q \in Nat /\ r \in Nat /\ r < PageSize /\ x = PageSize * q + r
  BY PageDivision
<1>. HIDE DEF q, r
<1>2. d * PageSize + x = PageSize * (d + q) + r
  <2>1. PageSize * (d + q) = PageSize * d + PageSize * q /\ PageSize * d = d * PageSize
    BY <1>1, MmuAssumption
  <2>2. PageSize * d \in Int /\ PageSize * q \in Int
    BY <1>1, MmuAssumption
  <2>. QED  BY <1>1, <2>1, <2>2
<1>3. d * PageSize + x \in Nat /\ d + q \in Nat
  BY <1>1, MmuAssumption
<1>4. (d * PageSize + x) \div PageSize = d + q /\ (d * PageSize + x) % PageSize = r
  BY <1>1, <1>2, <1>3, OnePage
<1>. QED  BY <1>4 DEF q, r

\* The entries an accepted request borrows are the last of the table, and no others than
\* those in which the application has no PSRAM.
LEMMA BorrowedEntries ==
    ASSUME NEW r \in Requests, ~Refused(r)
    PROVE  /\ entry_start(r) \in Nat
           /\ entry_start(r) + page_count(r) = DromEnd
           /\ \A e \in Entries : e >= entry_start(r) => e \in Borrowable
<1>1. page_count(r) \in Nat
  BY PageCountType
<1>2. page_count(r) <= STUB_MMAP_MAX_PAGES /\ page_count(r) <= DromEnd - DromStart
  BY <1>1, MmuAssumption DEF Refused
<1>. QED  BY <1>1, <1>2, MmuAssumption DEF entry_start, Entries, Borrowable

(***************************************************************************)
(* The inductive invariant                                                 *)
(***************************************************************************)
\* The table while request r is mapped
Mapped(r) ==
    [e \in Entries |-> IF e >= entry_start(r)
                       THEN FlashEntry(flash_page(r) + (e - entry_start(r))) ELSE home[e]]

\* What mmu_mmap has remembered of it
Saved(r) ==
    [entry_start |-> entry_start(r), page_count |-> page_count(r),
     saved_entries |-> [i \in 1 .. page_count(r) |-> home[entry_start(r) + i - 1]]]

HomeOK ==
    /\ home = [e \in Entries |-> home[e]]
    /\ \A e \in Borrowable : home[e].kind # "psram"

CallOK ==
    /\ pc \in {"idle", "map", "map_invalidate", "copy", "unmap", "unmap_invalidate"}
    /\ pc # "idle" => req \in Requests /\ ~Refused(req)
    /\ pc \in {"map_invalidate", "copy", "unmap", "unmap_invalidate"} =>
          s_mmap_state = Saved(req)

TableOK ==
    /\ pc \in {"idle", "map", "unmap_invalidate"} => table = home
    /\ pc \in {"map_invalidate", "copy", "unmap"} => table = Mapped(req)

\* Lines belong to the page mapped now, but for the borrowed entries while the table
\* has changed under them and they are not invalidated yet.
LineOK(e) ==
    \/ cache[e] = NoLine
    \/ cache[e].page = table[e]
    \/ pc \in {"map_invalidate", "unmap_invalidate"} /\ e >= entry_start(req)

\* Only lines of the application's own PSRAM are dirty.
DirtyOK(e) ==
    /\ cache[e] = [page |-> cache[e].page, seen |-> cache[e].seen,
                   clear |-> cache[e].clear, dirty |-> cache[e].dirty]
    /\ cache[e].dirty \in BOOLEAN
    /\ cache[e].dirty => cache[e].page = home[e] /\ home[e].kind = "psram"

CacheOK ==
    /\ cache = [e \in Entries |-> cache[e]]
    /\ \A e \in Entries : LineOK(e)
    /\ \A e \in Entries : DirtyOK(e)

MmuInv == HomeOK /\ CallOK /\ TableOK /\ CacheOK /\ ~lost

\* While a request is mapped, what mmu_munmap works on are the entries from its first one
\* on, and none of them is the application's PSRAM.
LEMMA BorrowedIsMapped ==
    ASSUME MmuInv, pc \in {"map_invalidate", "copy", "unmap", "unmap_invalidate"}
    PROVE  /\ Borrowed = {e \in Entries : e >= entry_start(req)}
           /\ Borrowed \subseteq Borrowable
<1>1. req \in Requests /\ ~Refused(req) /\ s_mmap_state = Saved(req)
  BY DEF MmuInv, CallOK
<1>2. /\ entry_start(req) \in Nat
      /\ entry_start(req) + page_count(req) = DromEnd
      /\ \A e \in Entries : e >= entry_start(req) => e \in Borrowable
  BY <1>1, BorrowedEntries
<1>3. Borrowed = entry_start(req) .. DromEnd - 1
  <2>1. s_mmap_state.entry_start = entry_start(req) /\ s_mmap_state.page_count = page_count(req)
    BY <1>1 DEF Saved
  <2>2. entry_start(req) + page_count(req) - 1 = DromEnd - 1
    BY <1>1, <1>2, PageCountType
  <2>. QED  BY <2>1, <2>2 DEF Borrowed
<1>4. Borrowed = {e \in Entries : e >= entry_start(req)}
  BY <1>2, <1>3, MmuAssumption DEF Entries
<1>. QED  BY <1>2, <1>4

\* A dirty line can be written back at any time: its page is mapped where it was, for
\* it is not among the entries that are borrowed.
LEMMA DirtyAtHome ==
    ASSUME MmuInv, NEW e \in Entries, cache[e].dirty
    PROVE  table[e] = cache[e].page /\ e \notin Borrowable
<1>1. cache[e].page = home[e] /\ home[e].kind = "psram"
  BY DEF MmuInv, CacheOK, DirtyOK
<1>2. e \notin Borrowable
  BY <1>1 DEF MmuInv, HomeOK
<1>3. CASE pc \in {"idle", "map", "unmap_invalidate"}
  BY <1>1, <1>2, <1>3 DEF MmuInv, TableOK
<1>4. CASE pc \in {"map_invalidate", "copy", "unmap"}
  <2>1. req \in Requests /\ ~Refused(req) /\ table = Mapped(req)
    BY <1>4 DEF MmuInv, CallOK, TableOK
  <2>2. ~(e >= entry_start(req))
    BY <1>2, <2>1, BorrowedEntries
  <2>. QED  BY <1>1, <1>2, <2>1, <2>2 DEF Mapped
<1>. QED  BY <1>3, <1>4 DEF MmuInv, CallOK

\* The cache starts empty.
LEMMA InitMmuInv == Init => MmuInv
<1>. SUFFICES ASSUME Init PROVE MmuInv
  OBVIOUS
<1>1. HomeOK /\ CallOK /\ TableOK /\ ~lost
  BY DEF Init, HomeOK, CallOK, TableOK
<1>2. CacheOK
  BY DEF Init, CacheOK, LineOK, DirtyOK, NoLine
<1>. QED  BY <1>1, <1>2 DEF MmuInv

(***************************************************************************)
(* The steps                                                               *)
(***************************************************************************)
\* Neither a refused nor an accepted call has touched table or cache yet.
LEMMA StepMmap ==
    ASSUME MmuInv, NEW r \in Requests, mmu_mmap(r)
    PROVE  MmuInv'
<1>1. HomeOK'
  BY DEF MmuInv, HomeOK, mmu_mmap, app
<1>2. CallOK'
  BY DEF MmuInv, CallOK, mmu_mmap
<1>3. TableOK'
  BY DEF MmuInv, TableOK, CallOK, mmu_mmap, app
<1>4. CacheOK'
  BY DEF MmuInv, CacheOK, LineOK, DirtyOK, NoLine, mmu_mmap, app
<1>. QED  BY <1>1, <1>2, <1>3, <1>4 DEF MmuInv, mmu_mmap

\* The borrowed entries change under their lines, the others do not.
LEMMA StepMapEntries ==
    ASSUME MmuInv, MapEntries
    PROVE  MmuInv'
<1>1. HomeOK'
  BY DEF MmuInv, HomeOK, MapEntries, app
<1>2. table = home /\ table' = Mapped(req) /\ pc' = "map_invalidate"
  BY DEF MmuInv, TableOK, MapEntries, Mapped
<1>3. s_mmap_state' = Saved(req)
  BY <1>2 DEF MapEntries, Saved
<1>4. Saved(req)' = Saved(req) /\ Mapped(req)' = Mapped(req)
  BY DEF MapEntries, app, Saved, Mapped, FlashEntry
<1>5. CallOK'
  BY <1>3, <1>4 DEF MmuInv, CallOK, MapEntries
<1>6. TableOK'
  BY <1>2, <1>4 DEF TableOK
<1>7. CacheOK'
  <2>1. ASSUME NEW e \in Entries PROVE LineOK(e)'
    <3>1. cache[e] = NoLine \/ cache[e].page = table[e]
      BY DEF MmuInv, CacheOK, LineOK, MapEntries
    <3>2. e >= entry_start(req) \/ table'[e] = table[e]
      BY <1>2 DEF Mapped
    <3>. QED  BY <1>2, <3>1, <3>2 DEF LineOK, MapEntries, NoLine
  <2>2. cache' = cache /\ home' = home
    BY DEF MapEntries, app
  <2>. QED  BY <2>1, <2>2 DEF MmuInv, CacheOK, DirtyOK
<1>. QED  BY <1>1, <1>5, <1>6, <1>7 DEF MmuInv, MapEntries

\* Invalidating the borrowed entries leaves only lines of mapped pages and loses nothing,
\* whether it drops these entries alone or writes everything back.
LEMMA InvalidateBorrowed ==
    ASSUME MmuInv, pc \in {"map_invalidate", "unmap_invalidate"},
           mmu_invalidate_region(Borrowed), UNCHANGED <<app, table>>
    PROVE  /\ CacheOK' /\ ~lost'
           /\ \A e \in Entries : cache'[e] = NoLine \/ cache'[e].page = table[e]
<1>1. /\ Borrowed = {e \in Entries : e >= entry_start(req)}
      /\ Borrowed \subseteq Borrowable
  BY BorrowedIsMapped
<1>2. \A e \in Entries : cache'[e] = NoLine \/ (cache'[e] = cache[e] /\ e \notin Borrowed)
  BY DEF mmu_invalidate_region
<1>3. \A e \in Entries : cache'[e] = NoLine \/ cache'[e].page = table[e]
  BY <1>1, <1>2 DEF MmuInv, CacheOK, LineOK
<1>4. \A e \in Entries : LineOK(e)'
  BY <1>3 DEF LineOK, NoLine
<1>5. \A e \in Entries : DirtyOK(e)'
  <2>. SUFFICES ASSUME NEW e \in Entries PROVE DirtyOK(e)'
    OBVIOUS
  <2>1. DirtyOK(e) /\ home' = home
    BY DEF MmuInv, CacheOK, app
  <2>2. CASE cache'[e] = NoLine
    BY <2>2 DEF DirtyOK, NoLine
  <2>3. CASE cache'[e] = cache[e]
    BY <2>1, <2>3 DEF DirtyOK
  <2>. QED  BY <1>2, <2>2, <2>3
<1>6. cache' = [e \in Entries |-> cache'[e]]
  BY DEF mmu_invalidate_region
<1>7. ~lost'
  <2>1. ~lost
    BY DEF MmuInv
  <2>2. ~\E e \in Borrowed : Dirty(e)
    BY <1>1, DirtyAtHome DEF Dirty
  <2>3. ~\E e \in Entries : Dirty(e) /\ table[e] # cache[e].page
    BY DirtyAtHome DEF Dirty
  <2>. QED  BY <2>1, <2>2, <2>3 DEF mmu_invalidate_region
<1>. QED  BY <1>3, <1>4, <1>5, <1>6, <1>7 DEF CacheOK

\* The lines under the entries that were written are gone.
LEMMA StepMapInvalidate ==
    ASSUME MmuInv, MapInvalidate
    PROVE  MmuInv'
<1>1. CacheOK' /\ ~lost'
  BY InvalidateBorrowed DEF MapInvalidate
<1>2. HomeOK'
  BY DEF MmuInv, HomeOK, MapInvalidate, app
<1>3. Saved(req)' = Saved(req) /\ Mapped(req)' = Mapped(req)
  BY DEF MapInvalidate, app, Saved, Mapped, FlashEntry
<1>4. CallOK'
  BY <1>3 DEF MmuInv, CallOK, MapInvalidate
<1>5. TableOK'
  BY <1>3 DEF MmuInv, TableOK, MapInvalidate
<1>. QED  BY <1>1, <1>2, <1>4, <1>5 DEF MmuInv

\* Copying fills lines, with the page that is mapped and clean.
LEMMA FilledLine ==
    ASSUME NEW p
    PROVE  Filled(p).page = p /\ Filled(p).dirty = FALSE /\
           Filled(p) = [page |-> Filled(p).page, seen |-> Filled(p).seen,
                        clear |-> Filled(p).clear, dirty |-> Filled(p).dirty]
BY DEF Filled

\* A copy changes neither the table nor what is dirty.
LEMMA StepCopy ==
    ASSUME MmuInv, Copy
    PROVE  MmuInv'
<1>1. HomeOK'
  BY DEF MmuInv, HomeOK, Copy, app
<1>2. Saved(req)' = Saved(req) /\ Mapped(req)' = Mapped(req)
  BY DEF Copy, app, Saved, Mapped, FlashEntry
<1>3. CallOK'
  BY <1>2 DEF MmuInv, CallOK, Copy
<1>4. TableOK'
  BY <1>2 DEF MmuInv, TableOK, Copy
<1>5. CacheOK'
  <2>1. /\ cache' = [e \in Entries |-> cache'[e]]
        /\ \A e \in Entries : cache'[e] = cache[e] \/ cache'[e] = Filled(table[e])
    BY DEF Copy
  <2>. SUFFICES ASSUME NEW e \in Entries PROVE LineOK(e)' /\ DirtyOK(e)'
    BY <2>1 DEF CacheOK
  <2>2. LineOK(e) /\ DirtyOK(e) /\ home' = home /\ table' = table /\ pc = "copy"
    BY DEF MmuInv, CacheOK, Copy, app
  <2>3. CASE cache'[e] = cache[e]
    BY <2>2, <2>3 DEF LineOK, DirtyOK, NoLine
  <2>4. CASE cache'[e] = Filled(table[e])
    BY <2>2, <2>4, FilledLine DEF LineOK, DirtyOK
  <2>. QED  BY <2>1, <2>3, <2>4
<1>. QED  BY <1>1, <1>3, <1>4, <1>5 DEF MmuInv, Copy

\* Putting back what was saved gives the application's table; the lines under the
\* entries that change are invalidated next.
LEMMA StepUnmapEntries ==
    ASSUME MmuInv, UnmapEntries
    PROVE  MmuInv'
<1>1. HomeOK'
  BY DEF MmuInv, HomeOK, UnmapEntries, app
<1>2. /\ req \in Requests /\ ~Refused(req) /\ s_mmap_state = Saved(req)
      /\ table = Mapped(req) /\ pc = "unmap"
  BY DEF MmuInv, CallOK, TableOK, UnmapEntries
<1>3. Borrowed = {e \in Entries : e >= entry_start(req)}
  BY <1>2, BorrowedIsMapped
<1>4. /\ entry_start(req) \in Nat /\ page_count(req) \in Nat
      /\ entry_start(req) + page_count(req) = DromEnd
  BY <1>2, BorrowedEntries, PageCountType
<1>5. \A e \in Borrowed :
         s_mmap_state.saved_entries[e - s_mmap_state.entry_start + 1] = home[e]
  <2>. SUFFICES ASSUME NEW e \in Borrowed
                PROVE  s_mmap_state.saved_entries[e - s_mmap_state.entry_start + 1] = home[e]
    OBVIOUS
  <2>1. e \in Int /\ e >= entry_start(req) /\ e < DromEnd
    BY <1>3, MmuAssumption DEF Entries
  <2>2. e - entry_start(req) + 1 \in 1 .. page_count(req)
    BY <1>4, <2>1, MmuAssumption
  <2>3. entry_start(req) + (e - entry_start(req) + 1) - 1 = e
    BY <1>4, <2>1
  <2>. QED  BY <1>2, <2>2, <2>3 DEF Saved
<1>6. table' = home
  <2>1. CASE s_mmap_state.page_count = 0
    <3>1. \A e \in Entries : ~(e >= entry_start(req))
      BY <1>2, <1>4, <2>1, MmuAssumption DEF Saved, Entries
    <3>. QED  BY <1>1, <1>2, <2>1, <3>1 DEF MmuInv, HomeOK, Mapped, UnmapEntries
  <2>2. CASE s_mmap_state.page_count # 0
    <3>1. table' = [e \in Entries |->
                       IF e \in Borrowed
                       THEN s_mmap_state.saved_entries[e - s_mmap_state.entry_start + 1]
                       ELSE table[e]]
      BY <2>2 DEF UnmapEntries
    <3>2. \A e \in Entries : e \notin Borrowed => table[e] = home[e]
      BY <1>2, <1>3 DEF Mapped
    <3>3. table' = [e \in Entries |-> home[e]]
      BY <1>5, <3>1, <3>2
    <3>. QED  BY <3>3 DEF MmuInv, HomeOK
  <2>. QED  BY <2>1, <2>2
<1>7. Saved(req)' = Saved(req)
  BY DEF UnmapEntries, app, Saved
<1>8. CallOK'
  BY <1>2, <1>7 DEF CallOK, UnmapEntries
<1>9. TableOK'
  BY <1>6 DEF TableOK, UnmapEntries, app
<1>10. CacheOK'
  <2>1. cache' = cache /\ home' = home
    BY DEF UnmapEntries, app
  <2>2. ASSUME NEW e \in Entries PROVE LineOK(e)'
    <3>1. cache[e] = NoLine \/ cache[e].page = table[e]
      BY <1>2 DEF MmuInv, CacheOK, LineOK
    <3>2. CASE e >= entry_start(req)
      <4>1. e \in Borrowed /\ e \in Int
        BY <1>3, <3>2, MmuAssumption DEF Entries
      <4>2. s_mmap_state.page_count # 0
        BY <1>2, <1>4, <3>2, MmuAssumption DEF Saved, Entries
      <4>3. pc' = "unmap_invalidate" /\ req' = req
        BY <4>2 DEF UnmapEntries
      <4>. QED  BY <3>2, <4>3 DEF LineOK
    <3>3. CASE ~(e >= entry_start(req))
      <4>1. table[e] = home[e] /\ table'[e] = home[e]
        BY <1>2, <1>6, <3>3 DEF Mapped
      <4>. QED  BY <2>1, <3>1, <4>1 DEF LineOK, NoLine
    <3>. QED  BY <3>2, <3>3
  <2>. QED  BY <2>1, <2>2 DEF MmuInv, CacheOK, DirtyOK
<1>. QED  BY <1>1, <1>8, <1>9, <1>10 DEF MmuInv, UnmapEntries

\* The lines that the copy has filled are gone, and the call is over.
LEMMA StepUnmapInvalidate ==
    ASSUME MmuInv, UnmapInvalidate
    PROVE  MmuInv'
<1>1. CacheOK' /\ ~lost'
  BY InvalidateBorrowed DEF UnmapInvalidate
<1>2. HomeOK'
  BY DEF MmuInv, HomeOK, UnmapInvalidate, app
<1>3. CallOK'
  BY DEF CallOK, UnmapInvalidate
<1>4. TableOK'
  BY DEF MmuInv, TableOK, UnmapInvalidate, app
<1>. QED  BY <1>1, <1>2, <1>3, <1>4 DEF MmuInv

\* The application dirties lines of its own PSRAM only.
LEMMA StepTouch ==
    ASSUME MmuInv, NEW e \in Entries, Touch(e)
    PROVE  MmuInv'
<1>1. HomeOK' /\ CallOK' /\ TableOK' /\ ~lost'
  BY DEF MmuInv, HomeOK, CallOK, TableOK, Touch, app, call
<1>2. pc = "idle" /\ table = home /\ UNCHANGED <<pc, table, home, req>>
  BY DEF MmuInv, TableOK, Touch, app, call
<1>. DEFINE l == IF cache[e] = NoLine THEN Filled(table[e]) ELSE cache[e]
<1>3. PICK write \in BOOLEAN :
         /\ write => table[e].kind = "psram"
         /\ cache' = [cache EXCEPT ![e] = [l EXCEPT !.dirty = l.dirty \/ write]]
  BY DEF Touch
<1>4. /\ l.page = table[e] /\ l.dirty \in BOOLEAN
      /\ l.dirty => home[e].kind = "psram"
      /\ l = [page |-> l.page, seen |-> l.seen, clear |-> l.clear, dirty |-> l.dirty]
  <2>1. CASE cache[e] = NoLine
    BY <2>1, FilledLine
  <2>2. CASE cache[e] # NoLine
    BY <1>2, <2>2 DEF MmuInv, CacheOK, LineOK, DirtyOK
  <2>. QED  BY <2>1, <2>2
<1>5. CacheOK'
  <2>. HIDE DEF l
  <2>1. cache' = [x \in Entries |-> IF x = e THEN [page |-> l.page, seen |-> l.seen,
                                     clear |-> l.clear, dirty |-> l.dirty \/ write]
                                   ELSE cache[x]]
    <3>1. cache = [x \in Entries |-> cache[x]]
      BY DEF MmuInv, CacheOK
    <3>2. [l EXCEPT !.dirty = l.dirty \/ write] =
          [page |-> l.page, seen |-> l.seen, clear |-> l.clear, dirty |-> l.dirty \/ write]
      BY <1>4
    <3>. QED  BY <1>3, <3>1, <3>2
  <2>. SUFFICES ASSUME NEW x \in Entries PROVE LineOK(x)' /\ DirtyOK(x)'
    BY <2>1 DEF CacheOK
  <2>2. CASE x = e
    <3>1. cache'[x].page = table[x] /\ cache'[x].dirty = (l.dirty \/ write)
      BY <1>4, <2>1, <2>2
    <3>2. cache'[x] = [page |-> cache'[x].page, seen |-> cache'[x].seen,
                       clear |-> cache'[x].clear, dirty |-> cache'[x].dirty]
      BY <2>1, <2>2
    <3>. QED  BY <1>2, <1>3, <1>4, <2>2, <3>1, <3>2 DEF LineOK, DirtyOK
  <2>3. CASE x # e
    <3>1. cache'[x] = cache[x]
      BY <2>1, <2>3
    <3>2. LineOK(x) /\ DirtyOK(x)
      BY DEF MmuInv, CacheOK
    <3>. QED  BY <1>2, <3>1, <3>2 DEF LineOK, DirtyOK, NoLine
  <2>. QED  BY <2>2, <2>3
<1>. QED  BY <1>1, <1>5 DEF MmuInv

\* What is replaced while the table is changed was not dirty, or is mapped where it was.
LEMMA StepEvict ==
    ASSUME MmuInv, NEW e \in Entries, Evict(e)
    PROVE  MmuInv'
<1>1. HomeOK' /\ CallOK' /\ TableOK'
  BY DEF MmuInv, HomeOK, CallOK, TableOK, Evict, app, call, Saved, Mapped, FlashEntry
<1>2. ~lost'
  BY DirtyAtHome DEF MmuInv, Evict, Dirty
<1>3. CacheOK'
  <2>1. /\ cache' = [x \in Entries |-> IF x = e THEN NoLine ELSE cache[x]]
        /\ UNCHANGED <<pc, table, home, req>>
    BY DEF MmuInv, CacheOK, Evict, app, call
  <2>. SUFFICES ASSUME NEW x \in Entries PROVE LineOK(x)' /\ DirtyOK(x)'
    BY <2>1 DEF CacheOK
  <2>2. LineOK(x) /\ DirtyOK(x)
    BY DEF MmuInv, CacheOK
  <2>3. CASE x = e
    BY <2>1, <2>3 DEF LineOK, DirtyOK, NoLine
  <2>4. CASE x # e
    BY <2>1, <2>2, <2>4 DEF LineOK, DirtyOK, NoLine
  <2>. QED  BY <2>3, <2>4
<1>. QED  BY <1>1, <1>2, <1>3 DEF MmuInv

\* Neither flash nor a stuttering step is in the invariant.
LEMMA StepOther ==
    ASSUME MmuInv, UNCHANGED <<app, hw, call>>
    PROVE  MmuInv'
<1>1. HomeOK' /\ CallOK' /\ TableOK' /\ ~lost'
  BY DEF MmuInv, HomeOK, CallOK, TableOK, app, hw, call, Saved, Mapped, FlashEntry
<1>2. CacheOK'
  BY DEF MmuInv, CacheOK, LineOK, DirtyOK, NoLine, app, hw, call
<1>. QED  BY <1>1, <1>2 DEF MmuInv

(***************************************************************************)
(* The theorems                                                            *)
(***************************************************************************)
\* Every step of a call, of the application, of the cache and of flash keeps MmuInv.
THEOREM MmuInvariant == Spec => []MmuInv
<1>1. Init => MmuInv
  BY InitMmuInv
<1>2. MmuInv /\ [Next]_vars => MmuInv'
  <2>. SUFFICES ASSUME MmuInv, [Next]_vars PROVE MmuInv'
    OBVIOUS
  <2>1. ASSUME NEW r \in Requests, mmu_mmap(r) PROVE MmuInv'
    BY <2>1, StepMmap
  <2>2. CASE MapEntries
    BY <2>2, StepMapEntries
  <2>3. CASE MapInvalidate
    BY <2>3, StepMapInvalidate
  <2>4. CASE Copy
    BY <2>4, StepCopy
  <2>5. CASE UnmapEntries
    BY <2>5, StepUnmapEntries
  <2>6. CASE UnmapInvalidate
    BY <2>6, StepUnmapInvalidate
  <2>7. ASSUME NEW e \in Entries, Touch(e) PROVE MmuInv'
    BY <2>7, StepTouch
  <2>8. ASSUME NEW e \in Entries, Evict(e) PROVE MmuInv'
    BY <2>8, StepEvict
  <2>9. ASSUME NEW n \in DOMAIN flash, Rewrite(n) PROVE MmuInv'
    BY <2>9, StepOther DEF Rewrite
  <2>10. CASE UNCHANGED vars
    BY <2>10, StepOther DEF vars, app, hw, call
  <2>. QED  BY <2>1, <2>2, <2>3, <2>4, <2>5, <2>6, <2>7, <2>8, <2>9, <2>10 DEF Next
<1>. QED  BY <1>1, <1>2, PTL DEF Spec

\* After every call of stub_lib_mmu_read_flash, accepted or refused, the MMU table is the
\* one the application has set up, for every page size, DROM region and request.
THEOREM TableIsRestored == Spec => []TableRestored
<1>1. MmuInv => TableRestored
  BY DEF MmuInv, TableOK, TableRestored
<1>. QED  BY <1>1, MmuInvariant, PTL

\* After every call the cache holds lines of mapped pages only: what mmu_mmap and
\* mmu_munmap invalidate is all that they have changed.
THEOREM CacheMatchesTable == Spec => []LinesMatchTable
<1>1. MmuInv => LinesMatchTable
  BY DEF MmuInv, CacheOK, LineOK, LinesMatchTable
<1>. QED  BY <1>1, MmuInvariant, PTL

\* No call loses data the application has written to PSRAM, on targets that invalidate a
\* range without writing it back as well as on those that write back the whole cache.
THEOREM DirtyDataIsKept == Spec => []NoDirtyLost
<1>1. MmuInv => NoDirtyLost
  BY DEF MmuInv, NoDirtyLost
<1>. QED  BY <1>1, MmuInvariant, PTL

(***************************************************************************)
(* What is read                                                            *)
(***************************************************************************)
\* The sum that mmu_mmap rounds up to whole pages has 32 bits.
NoWrap(r) == map_size(r) + PageSize - 1 < UINT32

\* The k-th byte of an accepted request is read through an entry that is mapped to its page
\* of flash, and at the byte's offset in that page.
LEMMA ByteMapped ==
    ASSUME NEW r \in Requests, ~Refused(r), NoWrap(r), NEW k \in 0 .. r.size - 1
    PROVE  LET v == vaddr_base(r) + offset(r) + k
           IN  /\ EntryOf(v) \in Entries /\ EntryOf(v) >= entry_start(r)
               /\ flash_page(r) + (EntryOf(v) - entry_start(r)) = (r.addr + k) \div PageSize
               /\ v % PageSize = (r.addr + k) % PageSize
<1>. DEFINE o == offset(r)
            x == o + k
            n == page_count(r)
            d == entry_start(r) - DromStart
            f == flash_page(r)
<1>1. /\ r.addr \in Nat /\ r.size \in Nat /\ k \in Nat /\ k < r.size
      /\ PageSize \in Nat /\ PageSize > 0 /\ UINT32 \in Nat
      /\ DromStart \in Nat /\ DromEnd \in Nat
  BY MmuAssumption
<1>2. o \in Nat /\ f \in Nat /\ r.addr = PageSize * f + o
  BY <1>1, PageDivision DEF offset, flash_page
<1>3. n \in Nat /\ n <= DromEnd - DromStart /\ d \in Nat /\ entry_start(r) = DromEnd - n
  <2>1. n \in Nat
    BY PageCountType
  <2>. QED  BY <1>1, <2>1 DEF Refused, entry_start
<1>4. x \in Nat /\ x \div PageSize \in Nat /\ x < o + r.size
  BY <1>1, <1>2, PageDivision
<1>5. x \div PageSize < n
  <2>. DEFINE m == o + r.size + PageSize - 1
              q == x \div PageSize
  <2>1. m \in Nat /\ m < UINT32 /\ n = m \div PageSize
    <3>1. m \in Nat /\ m = map_size(r) + PageSize - 1
      BY <1>1, <1>2 DEF map_size
    <3>2. m % UINT32 = m
      BY <1>1, <3>1 DEF NoWrap
    <3>. QED  BY <3>1, <3>2 DEF NoWrap, page_count
  <2>2. m = PageSize * n + (m % PageSize) /\ m % PageSize \in Nat /\ m % PageSize < PageSize
    BY <2>1, PageDivision
  <2>3. q \in Nat /\ x = PageSize * q + (x % PageSize) /\ x % PageSize \in Nat
    BY <1>4, PageDivision
  <2>. DEFINE rm == m % PageSize
              rx == x % PageSize
              pn == PageSize * n
              pq == PageSize * q
  <2>4. pn \in Int /\ pq \in Int /\ (n = q => pn = pq) /\ (n < q => pn + PageSize <= pq)
    <3>1. pn \in Int /\ pq \in Int
      BY <1>1, <1>3, <2>3
    <3>2. n < q => pn + PageSize <= pq
      BY <1>3, <2>3, PagesApart
    <3>. QED  BY <3>1, <3>2
  <2>5. rm \in Nat /\ rm < PageSize /\ m = pn + rm /\ rx \in Nat /\ x = pq + rx
    BY <2>2, <2>3
  <2>6. x + PageSize <= m
    BY <1>1, <1>2, <1>4
  <2>. HIDE DEF rm, rx, pn, pq, m, x, q, n
  <2>7. ~(n <= q)
    BY <1>1, <1>3, <1>4, <2>1, <2>3, <2>4, <2>5, <2>6
  <2>. QED  BY <1>3, <2>3, <2>7 DEF q
<1>6. /\ (vaddr_base(r) + o + k) \div PageSize = d + (x \div PageSize)
      /\ (vaddr_base(r) + o + k) % PageSize = x % PageSize
  <2>1. d * PageSize + x = vaddr_base(r) + o + k
    <3>1. d * PageSize \in Int /\ vaddr_base(r) = d * PageSize
      BY <1>1, <1>3 DEF vaddr_base
    <3>. HIDE DEF d, o
    <3>. QED  BY <1>1, <1>2, <3>1
  <2>. QED  BY <1>3, <1>4, <2>1, PageShift
<1>7. /\ (r.addr + k) \div PageSize = f + (x \div PageSize)
      /\ (r.addr + k) % PageSize = x % PageSize
  <2>1. f * PageSize + x = r.addr + k
    <3>1. f * PageSize = PageSize * f /\ f * PageSize \in Int
      BY <1>1, <1>2
    <3>. HIDE DEF f, o
    <3>. QED  BY <1>1, <1>2, <3>1
  <2>. QED  BY <1>2, <1>4, <2>1, PageShift
<1>8. EntryOf(vaddr_base(r) + o + k) = entry_start(r) + (x \div PageSize)
  BY <1>1, <1>3, <1>4, <1>6 DEF EntryOf
<1>. HIDE DEF o, x, n, d, f
<1>9. /\ entry_start(r) + (x \div PageSize) \in Entries
      /\ entry_start(r) + (x \div PageSize) >= entry_start(r)
      /\ (entry_start(r) + (x \div PageSize)) - entry_start(r) = x \div PageSize
  BY <1>1, <1>3, <1>4, <1>5 DEF Entries, d
<1>. QED  BY <1>6, <1>7, <1>8, <1>9 DEF o, f

\* Lines of an entry that mmu_mmap has written hold flash as it is now, in the clear.
LEMMA FilledInTheClear ==
    ASSUME NEW n
    PROVE  /\ Filled(FlashEntry(n)).page = FlashEntry(n)
           /\ Filled(FlashEntry(n)).seen = flash[n]
           /\ Filled(FlashEntry(n)).clear = TRUE
<1>. DEFINE p == FlashEntry(n)
<1>1. p.kind = "flash" /\ p.n = n /\ p.sensitive = (encrypted /\ target.mmu.sensitive)
  BY DEF FlashEntry, Page
<1>. HIDE DEF p
<1>2. p.kind = "flash" /\ encrypted => Decrypted(p)
  BY <1>1 DEF Decrypted
<1>. QED  BY <1>1, <1>2 DEF Filled, p

\* Before it is read the mapped region is empty in the cache.
ReadInv ==
    NoWrap(req) =>
        /\ pc = "copy" => \A e \in Entries : e >= entry_start(req) => cache[e] = NoLine
        /\ ReadsRight

\* memcpy fills the lines it needs and finds every byte in its place.
LEMMA CopyReads ==
    ASSUME MmuInv, ReadInv, Copy
    PROVE  ReadInv'
<1>. SUFFICES ASSUME NoWrap(req)
              PROVE  pc' = "unmap" /\ ReadsRight'
  BY DEF ReadInv, Copy, NoWrap, map_size, offset
<1>1. /\ pc = "copy" /\ pc' = "unmap"
      /\ req' = req /\ flash' = flash /\ encrypted' = encrypted /\ target' = target
  BY DEF Copy, app
<1>2. /\ req \in Requests /\ ~Refused(req) /\ table = Mapped(req)
      /\ \A e \in Entries : e >= entry_start(req) => cache[e] = NoLine
  BY <1>1 DEF MmuInv, CallOK, TableOK, ReadInv
<1>. DEFINE base == vaddr_base(req) + offset(req)
            touched == {EntryOf(base + k) : k \in 0 .. req.size - 1}
            lines == [e \in Entries |->
                         IF e \in touched /\ cache[e] = NoLine THEN Filled(table[e]) ELSE cache[e]]
<1>3. got' = [k \in 1 .. req.size |->
                 [page |-> lines[EntryOf(base + k - 1)].page, off |-> (base + k - 1) % PageSize,
                  seen |-> lines[EntryOf(base + k - 1)].seen,
                  clear |-> lines[EntryOf(base + k - 1)].clear]]
  BY DEF Copy
<1>4. ASSUME NEW k \in 0 .. req.size - 1
      PROVE  got'[k + 1] = [page |-> FlashEntry((req.addr + k) \div PageSize),
                            off |-> (req.addr + k) % PageSize,
                            seen |-> flash[(req.addr + k) \div PageSize], clear |-> TRUE]
  <2>. DEFINE e == EntryOf(base + k)
              n == (req.addr + k) \div PageSize
  <2>1. /\ e \in Entries /\ e >= entry_start(req)
        /\ flash_page(req) + (e - entry_start(req)) = n
        /\ (base + k) % PageSize = (req.addr + k) % PageSize
    BY <1>2, ByteMapped
  <2>2. table[e] = FlashEntry(n)
    BY <1>2, <2>1 DEF Mapped
  <2>3. lines[e] = Filled(FlashEntry(n))
    <3>1. e \in touched
      OBVIOUS
    <3>. HIDE DEF touched, e
    <3>. QED  BY <1>2, <2>1, <2>2, <3>1
  <2>4. base \in Int /\ req.size \in Nat
    <3>1. req.addr \in Nat /\ req.size \in Nat /\ page_count(req) \in Nat
      BY <1>2, MmuAssumption, PageCountType
    <3>2. entry_start(req) - DromStart \in Int /\ offset(req) \in Int
      BY <3>1, MmuAssumption DEF entry_start, offset
    <3>. QED  BY <3>1, <3>2, MmuAssumption DEF vaddr_base
  <2>5. k + 1 \in 1 .. req.size /\ base + (k + 1) - 1 = base + k
    <3>. HIDE DEF base
    <3>. QED  BY <2>4
  <2>6. got'[k + 1] = [page |-> lines[e].page, off |-> (base + k) % PageSize,
                       seen |-> lines[e].seen, clear |-> lines[e].clear]
    <3>. HIDE DEF base, lines
    <3>. QED  BY <1>3, <2>5
  <2>. HIDE DEF e, n, lines, base
  <2>7. got'[k + 1] = [page |-> FlashEntry(n), off |-> (req.addr + k) % PageSize,
                       seen |-> flash[n], clear |-> TRUE]
    BY <2>1, <2>3, <2>6, FilledInTheClear
  <2>. QED  BY <2>7 DEF n
<1>. HIDE DEF base, touched, lines
<1>. QED  BY <1>1, <1>4 DEF ReadsRight, FlashEntry

\* No other step changes what was read, or flash, before the call is over.
LEMMA ReadStep ==
    ASSUME MmuInv, ReadInv, [Next]_vars
    PROVE  ReadInv'
<1>1. ASSUME NEW r \in Requests, mmu_mmap(r) PROVE ReadInv'
  BY <1>1 DEF mmu_mmap, ReadInv, ReadsRight
<1>2. CASE MapEntries
  BY <1>2 DEF MapEntries, ReadInv, ReadsRight
<1>3. CASE MapInvalidate
  <2>1. pc = "map_invalidate" /\ pc' = "copy" /\ req' = req
    BY <1>3 DEF MapInvalidate
  <2>2. Borrowed = {e \in Entries : e >= entry_start(req)}
    BY <2>1, BorrowedIsMapped
  <2>3. \A e \in Entries : e >= entry_start(req) => cache'[e] = NoLine
    BY <1>3, <2>2 DEF MapInvalidate, mmu_invalidate_region
  <2>. QED  BY <2>1, <2>3 DEF ReadInv, ReadsRight, NoLine, entry_start, page_count, map_size,
               offset
<1>4. CASE Copy
  BY <1>4, CopyReads
<1>5. CASE UnmapEntries
  <2>1. /\ pc = "unmap" /\ pc' # "copy"
        /\ UNCHANGED <<req, got, flash, encrypted, target>>
    BY <1>5 DEF UnmapEntries, app
  <2>. QED  BY <2>1 DEF ReadInv, ReadsRight, FlashEntry, NoWrap, map_size, offset
<1>6. CASE UnmapInvalidate
  BY <1>6 DEF UnmapInvalidate, ReadInv, ReadsRight
<1>7. ASSUME NEW e \in Entries, Touch(e) PROVE ReadInv'
  BY <1>7 DEF Touch, call, ReadInv, ReadsRight
<1>8. ASSUME NEW e \in Entries, Evict(e) PROVE ReadInv'
  <2>1. UNCHANGED <<pc, req, got, flash, encrypted, target>>
    BY <1>8 DEF Evict, call, app
  <2>2. \A x \in Entries : cache[x] = NoLine => cache'[x] = NoLine
    BY <1>8 DEF MmuInv, CacheOK, Evict
  <2>. QED  BY <2>1, <2>2 DEF ReadInv, ReadsRight, FlashEntry, NoWrap, map_size, offset, NoLine,
               entry_start, page_count
<1>9. ASSUME NEW n \in DOMAIN flash, Rewrite(n) PROVE ReadInv'
  BY <1>9 DEF Rewrite, call, ReadInv, ReadsRight
<1>10. CASE UNCHANGED vars
  BY <1>10 DEF vars, ReadInv, ReadsRight, FlashEntry, NoWrap, map_size, offset, NoLine,
     entry_start, page_count
<1>. QED  BY <1>1, <1>2, <1>3, <1>4, <1>5, <1>6, <1>7, <1>8, <1>9, <1>10 DEF Next

\* Every byte an accepted call copies is the byte of flash at its address as flash is now,
\* in the clear, for every page size, DROM region and request of which mmu_mmap can count
\* the pages in 32 bits.
THEOREM ReadsAreRight == Spec => [](NoWrap(req) => ReadsRight)
<1>1. Init => ReadInv
  BY DEF Init, ReadInv, ReadsRight
<1>2. MmuInv /\ ReadInv /\ [Next]_vars => ReadInv'
  BY ReadStep
<1>3. ReadInv => (NoWrap(req) => ReadsRight)
  BY DEF ReadInv
<1>. QED  BY <1>1, <1>2, <1>3, MmuInvariant, PTL DEF Spec

(***************************************************************************)
(* Types                                                                   *)
(***************************************************************************)
\* The requests that are accepted stay inside the flash chip.
InFlash == \A r \in Requests : ~Refused(r) => flash_page(r) + page_count(r) <= FlashPages

LineType == [page : Pages, seen : 0 .. MaxChange, clear : BOOLEAN, dirty : BOOLEAN]

\* Between calls nothing is borrowed; saved_entries stays as it was.
StateOK ==
    /\ s_mmap_state.entry_start \in Nat /\ s_mmap_state.page_count \in Nat
    /\ pc \in {"idle", "map"} => s_mmap_state.page_count = 0
    /\ Len(s_mmap_state.saved_entries) <= STUB_MMAP_MAX_PAGES

TypeInv ==
    /\ target \in Targets /\ encrypted \in BOOLEAN /\ stopped \in BOOLEAN /\ lost \in BOOLEAN
    /\ rc \in {"none", "OK", "INVALID_ARG"}
    /\ StateOK
    /\ flash \in [0 .. FlashPages - 1 -> 0 .. MaxChange]
    /\ home \in [Entries -> Pages]
    /\ cache \in [Entries -> LineType]

\* What stub_target_mmu_write_entry writes for a page of the chip is an entry.
LEMMA FlashEntryType ==
    ASSUME NEW n \in 0 .. FlashPages - 1
    PROVE  FlashEntry(n) \in Pages
<1>1. PICK s \in BOOLEAN : s = (encrypted /\ target.mmu.sensitive)
  BY Zenon
<1>2. FlashEntry(n) = Page("flash", n, s)
  BY <1>1 DEF FlashEntry
<1>. QED  BY <1>2 DEF Pages

\* A mapped request points its entries to pages of the chip.
LEMMA MappedType ==
    ASSUME InFlash, home \in [Entries -> Pages], NEW r \in Requests, ~Refused(r)
    PROVE  Mapped(r) \in [Entries -> Pages]
<1>. SUFFICES ASSUME NEW e \in Entries, e >= entry_start(r)
              PROVE  FlashEntry(flash_page(r) + (e - entry_start(r))) \in Pages
  BY DEF Mapped
<1>1. /\ entry_start(r) \in Nat /\ page_count(r) \in Nat
      /\ entry_start(r) + page_count(r) = DromEnd
  BY BorrowedEntries, PageCountType
<1>2. flash_page(r) \in Nat
  <2>1. r.addr \in Nat
    BY MmuAssumption
  <2>. QED  BY <2>1, PageDivision DEF flash_page
<1>3. flash_page(r) + page_count(r) <= FlashPages /\ FlashPages \in Nat
  BY MmuAssumption DEF InFlash
<1>4. e \in Nat /\ e < DromEnd
  BY MmuAssumption DEF Entries
<1>5. flash_page(r) + (e - entry_start(r)) \in 0 .. FlashPages - 1
  BY <1>1, <1>2, <1>3, <1>4
<1>. QED  BY <1>5, FlashEntryType

\* So is the page under every line that the cache fills.
LEMMA TableType ==
    ASSUME InFlash, MmuInv, TypeInv
    PROVE  table \in [Entries -> Pages]
<1>1. CASE table = home
  BY <1>1 DEF TypeInv
<1>2. CASE table = Mapped(req) /\ req \in Requests /\ ~Refused(req)
  BY <1>2, MappedType DEF TypeInv
<1>. QED  BY <1>1, <1>2 DEF MmuInv, CallOK, TableOK

\* An empty line is a line.
LEMMA NoLineType == NoLine \in LineType
BY MmuAssumption DEF NoLine, LineType, Pages

\* So is one filled from a page of the chip.
LEMMA FilledType ==
    ASSUME TypeInv, NEW p \in Pages
    PROVE  Filled(p) \in LineType
<1>1. PICK c \in BOOLEAN : c = (p.kind = "flash" /\ encrypted => Decrypted(p))
  BY Zenon
<1>2. p.kind = "flash" => p.n \in 0 .. FlashPages - 1
  BY DEF Pages, Page, Invalid, Psram
<1>3. (IF p.kind = "flash" THEN flash[p.n] ELSE 0) \in 0 .. MaxChange
  BY <1>2, MmuAssumption DEF TypeInv
<1>. QED  BY <1>1, <1>3 DEF Filled, LineType

\* The cache has lines for the entries of the table and no others.
LEMMA CacheTypeStep ==
    ASSUME InFlash, MmuInv, TypeInv, [Next]_vars
    PROVE  cache' \in [Entries -> LineType]
<1>0. cache \in [Entries -> LineType] /\ table \in [Entries -> Pages]
  BY TableType DEF TypeInv
<1>1. ASSUME NEW r \in Requests, mmu_mmap(r) PROVE cache' = cache
  BY <1>1 DEF mmu_mmap
<1>2. CASE MapEntries \/ UnmapEntries
  BY <1>0, <1>2 DEF MapEntries, UnmapEntries
<1>3. CASE MapInvalidate \/ UnmapInvalidate
  BY <1>0, <1>3, NoLineType DEF MapInvalidate, UnmapInvalidate, mmu_invalidate_region
<1>4. CASE Copy
  <2>1. /\ cache' = [e \in Entries |-> cache'[e]]
        /\ \A e \in Entries : cache'[e] = cache[e] \/ cache'[e] = Filled(table[e])
    BY <1>4 DEF Copy
  <2>. QED  BY <1>0, <2>1, FilledType
<1>5. ASSUME NEW e \in Entries, Touch(e) PROVE cache' \in [Entries -> LineType]
  <2>. DEFINE l == IF cache[e] = NoLine THEN Filled(table[e]) ELSE cache[e]
  <2>1. l \in LineType
    BY <1>0, FilledType
  <2>2. PICK write \in BOOLEAN :
           cache' = [cache EXCEPT ![e] = [l EXCEPT !.dirty = l.dirty \/ write]]
    BY <1>5 DEF Touch
  <2>. HIDE DEF l
  <2>3. PICK d \in BOOLEAN : d = (l.dirty \/ write)
    BY Zenon
  <2>4. [l EXCEPT !.dirty = l.dirty \/ write] \in LineType
    BY <2>1, <2>3 DEF LineType
  <2>. QED  BY <1>0, <2>2, <2>4
<1>6. ASSUME NEW e \in Entries, Evict(e) PROVE cache' \in [Entries -> LineType]
  BY <1>0, <1>6, NoLineType DEF Evict
<1>7. ASSUME NEW n \in DOMAIN flash, Rewrite(n) PROVE cache' = cache
  BY <1>7 DEF Rewrite, hw
<1>8. CASE UNCHANGED vars
  BY <1>0, <1>8 DEF vars
<1>. QED  BY <1>0, <1>1, <1>2, <1>3, <1>4, <1>5, <1>6, <1>7, <1>8 DEF Next

\* What mmu_mmap remembers fits into saved_entries.
LEMMA StateStep ==
    ASSUME MmuInv, StateOK, [Next]_vars
    PROVE  StateOK'
<1>1. ASSUME NEW r \in Requests, mmu_mmap(r) PROVE StateOK'
  BY <1>1 DEF mmu_mmap, StateOK
<1>2. CASE MapEntries
  <2>1. req \in Requests /\ ~Refused(req)
    BY <1>2 DEF MapEntries, MmuInv, CallOK
  <2>2. /\ entry_start(req) \in Nat /\ page_count(req) \in Nat
        /\ page_count(req) <= STUB_MMAP_MAX_PAGES
    BY <2>1, BorrowedEntries, PageCountType, MmuAssumption DEF Refused
  <2>3. /\ pc' = "map_invalidate"
        /\ s_mmap_state' = [entry_start |-> entry_start(req), page_count |-> page_count(req),
                            saved_entries |-> [i \in 1 .. page_count(req) |->
                                                  table[entry_start(req) + i - 1]]]
    BY <1>2 DEF MapEntries
  <2>4. Len([i \in 1 .. page_count(req) |-> table[entry_start(req) + i - 1]]) = page_count(req)
    BY <2>2
  <2>. QED  BY <2>2, <2>3, <2>4 DEF StateOK
<1>3. CASE MapInvalidate \/ Copy
  BY <1>3 DEF MapInvalidate, Copy, StateOK
<1>4. CASE UnmapEntries
  BY <1>4 DEF UnmapEntries, StateOK
<1>5. CASE UnmapInvalidate
  <2>1. s_mmap_state = Saved(req) /\ s_mmap_state' = [s_mmap_state EXCEPT !.page_count = 0]
    BY <1>5 DEF UnmapInvalidate, MmuInv, CallOK
  <2>2. /\ s_mmap_state'.entry_start = s_mmap_state.entry_start
        /\ s_mmap_state'.page_count = 0
        /\ s_mmap_state'.saved_entries = s_mmap_state.saved_entries
    BY <2>1 DEF Saved
  <2>. QED  BY <2>2 DEF StateOK
<1>6. ASSUME NEW e \in Entries, Touch(e) \/ Evict(e) PROVE StateOK'
  BY <1>6 DEF Touch, Evict, call, StateOK
<1>7. ASSUME NEW n \in DOMAIN flash, Rewrite(n) PROVE StateOK'
  BY <1>7 DEF Rewrite, call, StateOK
<1>8. CASE UNCHANGED vars
  BY <1>8 DEF vars, StateOK
<1>. QED  BY <1>1, <1>2, <1>3, <1>4, <1>5, <1>6, <1>7, <1>8 DEF Next

\* Every step keeps the types.
LEMMA TypeStep ==
    ASSUME InFlash, MmuInv, TypeInv, [Next]_vars
    PROVE  TypeInv'
<1>1. cache' \in [Entries -> LineType] /\ StateOK'
  BY CacheTypeStep, StateStep DEF TypeInv
<1>2. target' = target /\ encrypted' = encrypted /\ home' = home
  BY DEF Next, vars, app, mmu_mmap, MapEntries, MapInvalidate, Copy, UnmapEntries,
     UnmapInvalidate, Touch, Evict, Rewrite
<1>3. stopped' \in {stopped, TRUE, FALSE} /\ rc' \in {rc, "none", "OK", "INVALID_ARG"}
  BY DEF Next, vars, hw, call, mmu_mmap, MapEntries, MapInvalidate, Copy, UnmapEntries,
     UnmapInvalidate, Touch, Evict, Rewrite
<1>4. flash' = flash \/ \E n \in DOMAIN flash : Rewrite(n)
  BY DEF Next, vars, mmu_mmap, MapEntries, MapInvalidate, Copy, UnmapEntries,
     UnmapInvalidate, Touch, Evict
<1>5. flash' \in [0 .. FlashPages - 1 -> 0 .. MaxChange]
  BY <1>4, MmuAssumption DEF TypeInv, Rewrite
<1>6. lost' \in BOOLEAN
  <2>1. lost \in BOOLEAN
    BY DEF TypeInv
  <2>2. lost' = lost \/ \E x : lost' = (lost \/ x)
    BY DEF Next, vars, hw, mmu_mmap, MapEntries, MapInvalidate, Copy, UnmapEntries,
       UnmapInvalidate, Touch, Evict, Rewrite, mmu_invalidate_region
  <2>. QED  BY <2>1, <2>2, Zenon
<1>. QED  BY <1>1, <1>2, <1>3, <1>5, <1>6 DEF TypeInv

\* saved_entries never overflows, no entry outside the DROM region is borrowed, and every
\* entry written is one of a page of flash, if the requests are.
THEOREM MmuTypeCorrect == Spec => [](InFlash => TypeOK)
<1>1. Init => (InFlash => TypeInv)
  <2>. SUFFICES ASSUME Init PROVE TypeInv
    OBVIOUS
  <2>1. home \in [Entries -> Pages]
    <3>1. FlashEntry(0) \in Pages
      BY FlashEntryType, MmuAssumption
    <3>. QED  BY <3>1 DEF Init, Pages
  <2>2. cache \in [Entries -> LineType]
    BY NoLineType DEF Init
  <2>3. flash \in [0 .. FlashPages - 1 -> 0 .. MaxChange]
    BY MmuAssumption DEF Init
  <2>4. StateOK
    BY MmuAssumption DEF Init, StateOK
  <2>. QED  BY <2>1, <2>2, <2>3, <2>4 DEF Init, TypeInv
<1>2. MmuInv /\ (InFlash => TypeInv) /\ [Next]_vars => (InFlash => TypeInv)'
  <2>. SUFFICES ASSUME MmuInv, InFlash => TypeInv, [Next]_vars, InFlash'
                PROVE  TypeInv'
    OBVIOUS
  <2>1. InFlash
    BY DEF InFlash
  <2>. QED  BY <2>1, TypeStep
<1>3. MmuInv /\ (InFlash => TypeInv) => (InFlash => TypeOK)
  <2>. SUFFICES ASSUME MmuInv, InFlash, TypeInv PROVE TypeOK
    OBVIOUS
  <2>1. table \in [Entries -> Pages]
    BY TableType
  <2>2. Borrowed \subseteq DromStart .. DromEnd - 1
    <3>1. CASE pc \in {"idle", "map"}
      BY <3>1 DEF TypeInv, StateOK, Borrowed
    <3>2. CASE pc \in {"map_invalidate", "copy", "unmap", "unmap_invalidate"}
      BY <3>2, BorrowedIsMapped, MmuAssumption DEF Borrowable, Entries
    <3>. QED  BY <3>1, <3>2 DEF MmuInv, CallOK
  <2>. QED  BY <2>1, <2>2 DEF TypeInv, StateOK, LineType, TypeOK, MmuInv, CallOK
<1>. QED  BY <1>1, <1>2, <1>3, MmuInvariant, PTL DEF Spec
=============================================================================
