---------------------------- MODULE FlashProofs ----------------------------
(***************************************************************************)
(* The erase paths proved for every set of requests, every chip and every  *)
(* target: EraseInv is inductive, and with it an erase follows its cursor, *)
(* stays inside its request and, when it reports OK, is complete.          *)
(***************************************************************************)
EXTENDS Flash, TLAPS

(***************************************************************************)
(* Sectors                                                                 *)
(***************************************************************************)
\* Two runs of whole sectors, one right after the other, are one run.
LEMMA SectorsJoin ==
    ASSUME NEW a \in Nat, NEW b \in Nat, NEW n \in Nat, NEW c, NEW d,
           a <= b, IsAligned(a, 16), IsAligned(b, 16), IsAligned(n, 16),
           c = b - a, d = (b + n) - a
    PROVE  Sectors(a, c) \cup Sectors(b, n) = Sectors(a, d)
  BY DEF Sectors, IsAligned, STUB_FLASH_SECTOR_SIZE

\* An empty run, wherever it starts, has no sectors.
LEMMA SectorsEmpty ==
    ASSUME NEW a \in Nat
    PROVE  Sectors(a, 0) = {}
  BY DEF Sectors, STUB_FLASH_SECTOR_SIZE

\* Sums of sector-aligned numbers.
LEMMA AlignedSum ==
    ASSUME NEW x \in Nat, NEW y \in Nat, x % 16 = 0, y % 16 = 0
    PROVE  (x + y) % 16 = 0
  BY SMT

\* One interval inside another.
LEMMA IntervalSubset ==
    ASSUME NEW a \in Int, NEW b \in Int, NEW c \in Int, b <= c
    PROVE  (a .. b) \subseteq (a .. c)
  OBVIOUS

\* 32-bit addition that does not reach the end of the range.
LEMMA UINT32Facts ==
    /\ UINT32 \in Nat
    /\ \A x \in Nat : x < UINT32 => x % UINT32 = x
  BY SMT DEF UINT32

\* Sector numbers are natural numbers.
LEMMA SectorsNat ==
    ASSUME NEW a \in Nat, NEW n \in Nat
    PROVE  Sectors(a, n) \subseteq Nat
  BY DEF Sectors, STUB_FLASH_SECTOR_SIZE

(***************************************************************************)
(* Jobs                                                                    *)
(***************************************************************************)
\* What a job record is made of.
LEMMA JobFields ==
    ASSUME NEW j \in JobType
    PROVE  /\ j.req \in Requests \cup {NoRequest}
           /\ j.next \in 0 .. UINT32 - 1
           /\ j.remaining \in 0 .. UINT32 - 1
           /\ j.ret \in Returns
           /\ j.touched \in SUBSET Nat
           /\ j.lost \in SUBSET Sessions
           /\ j = [req |-> j.req, next |-> j.next, remaining |-> j.remaining,
                   ret |-> j.ret, touched |-> j.touched, lost |-> j.lost]
  BY DEF JobType

\* A cursor is a pair of 32-bit numbers.
LEMMA JobNat ==
    ASSUME NEW j \in JobType
    PROVE  j.next \in Nat /\ j.remaining \in Nat /\ j.next < UINT32 /\ j.remaining < UINT32
  BY UINT32Facts, JobFields

\* No request reaches the end of the 32-bit address space.
LEMMA ReqFields ==
    ASSUME NEW r \in Requests \cup {NoRequest}
    PROVE  /\ r.addr \in Nat /\ r.size \in Nat
           /\ r.addr + r.size + STUB_FLASH_SECTOR_SIZE < UINT32
  BY RequestsAssumption, SMT DEF NoRequest, STUB_FLASH_SECTOR_SIZE, UINT32

\* Where a cursor n can be that has r of the s bytes from a to go: the sectors it has
\* passed end within those of the request, and are all of them when r = 0.
LEMMA CursorArith ==
    ASSUME NEW a \in Nat, NEW n \in Nat, NEW s \in Nat, NEW r \in Nat,
           a <= n,
           r > 0 => (n - a) + r = s,
           r = 0 => s <= n - a /\ n - a < s + 16,
           n = a \/ (a % 16 = 0 /\ n % 16 = 0)
    PROVE  /\ s = 0 => n = a
           /\ s > 0 => n \div 16 - 1 <= (a + s - 1) \div 16
           /\ s > 0 /\ r = 0 => (a + s - 1) \div 16 <= n \div 16 - 1
  <1>1. CASE n = a
    BY <1>1, SMT
  <1>2. CASE a % 16 = 0 /\ n % 16 = 0 /\ a < n
    <2>1. s > 0 /\ n < (a + s) + 16
      BY <1>2, SMT
    <2>2. r = 0 => a + s <= n
      BY SMT
    <2> QED BY <1>2, <2>1, <2>2, SMT
  <1> QED BY <1>1, <1>2, SMT

\* The part of a request a cursor has passed lies inside the request, and is
\* all of it once nothing remains.
LEMMA CursorRegion ==
    ASSUME NEW j \in JobType, CursorOK(j)
    PROVE  /\ Sectors(j.req.addr, j.next - j.req.addr) \subseteq Region(j.req)
           /\ j.remaining = 0 =>
                Region(j.req) \subseteq Sectors(j.req.addr, j.next - j.req.addr)
  <1>1. /\ j.next \in Nat /\ j.remaining \in Nat
        /\ j.req.addr \in Nat /\ j.req.size \in Nat
    BY JobNat, JobFields, ReqFields
  <1>2. PICK a \in Nat, n \in Nat, s \in Nat, r \in Nat :
            a = j.req.addr /\ n = j.next /\ s = j.req.size /\ r = j.remaining
    BY <1>1
  <1>3. /\ a <= n
        /\ r > 0 => (n - a) + r = s
        /\ r = 0 => s <= n - a /\ n - a < s + 16
        /\ n = a \/ (a % 16 = 0 /\ n % 16 = 0)
    BY <1>2 DEF CursorOK, IsAligned, STUB_FLASH_SECTOR_SIZE
  <1>4. /\ s = 0 => n = a
        /\ s > 0 => n \div 16 - 1 <= (a + s - 1) \div 16
        /\ s > 0 /\ r = 0 => (a + s - 1) \div 16 <= n \div 16 - 1
    BY ONLY <1>3, CursorArith
  <1>5. Sectors(a, n - a) = (a \div 16) .. (n \div 16 - 1)
    BY SMT DEF Sectors, STUB_FLASH_SECTOR_SIZE
  <1>6. CASE s = 0
    <2>1. Region(j.req) = {}
      BY <1>2, <1>6 DEF Region
    <2>2. Sectors(a, n - a) = {}
      BY <1>4, <1>5, <1>6, SMT
    <2> QED BY <1>2, <2>1, <2>2
  <1>7. CASE s > 0
    <2>1. Region(j.req) = (a \div 16) .. ((a + s - 1) \div 16)
      BY <1>2, <1>7 DEF Region, STUB_FLASH_SECTOR_SIZE
    <2>2. a \div 16 \in Int /\ n \div 16 - 1 \in Int /\ (a + s - 1) \div 16 \in Int
      BY SMT
    <2>3. /\ Sectors(a, n - a) \subseteq Region(j.req)
          /\ r = 0 => Region(j.req) \subseteq Sectors(a, n - a)
      BY <1>4, <1>5, <1>7, <2>1, <2>2, IntervalSubset
    <2> QED BY <1>2, <2>3
  <1> QED BY <1>6, <1>7, SMT

\* What EraseInv says of one job.
JobOK(j) ==
    /\ j \in JobType
    /\ CursorOK(j)
    /\ Addressable(j.req) => j.touched = Sectors(j.req.addr, j.next - j.req.addr)

\* A call starts with nothing passed and nothing touched.
LEMMA NewJobOK ==
    ASSUME NEW r \in Requests \cup {NoRequest}, NEW ret \in Returns
    PROVE  JobOK(NewJob(r, ret))
  <1> DEFINE j == NewJob(r, ret)
  <1>1. /\ r.addr \in Nat /\ r.size \in Nat
        /\ r.addr \in 0 .. UINT32 - 1 /\ r.size \in 0 .. UINT32 - 1
    BY ReqFields, UINT32Facts DEF STUB_FLASH_SECTOR_SIZE
  <1>2. j \in JobType
    BY <1>1 DEF NewJob, JobType
  <1>3. CursorOK(j)
    BY <1>1, SMT DEF NewJob, CursorOK, STUB_FLASH_SECTOR_SIZE
  <1>4. j.touched = Sectors(j.req.addr, j.next - j.req.addr)
    BY <1>1, SectorsEmpty DEF NewJob
  <1> QED BY <1>2, <1>3, <1>4 DEF JobOK

\* Only the result of a call changes.
LEMMA SetRetOK ==
    ASSUME NEW j, JobOK(j), NEW ret \in Returns
    PROVE  JobOK([j EXCEPT !.ret = ret])
  BY JobFields DEF JobOK, JobType, CursorOK

\* Starting a block or a sector at the cursor and moving past it.
LEMMA AdvanceOK ==
    ASSUME NEW j, JobOK(j), j.remaining > 0,
           UseBlock(j) \/ IsAligned(j.next, STUB_FLASH_SECTOR_SIZE),
           NEW p \in Nat, Addressable(j.req) => p = j.next,
           NEW ret \in Returns, NEW lost \in SUBSET Sessions
    PROVE  JobOK([req |-> j.req, next |-> NextAddr(j), remaining |-> NextRemaining(j),
                  ret |-> ret, touched |-> j.touched \cup Sectors(p, EraseSize(j)),
                  lost |-> lost])
  <1> DEFINE n == EraseSize(j)
             hit == Sectors(p, n)
             jj == [req |-> j.req, next |-> NextAddr(j), remaining |-> NextRemaining(j),
                    ret |-> ret, touched |-> j.touched \cup hit, lost |-> lost]
  <1>1. /\ j.next \in Nat /\ j.remaining \in Nat
        /\ j.req.addr \in Nat /\ j.req.size \in Nat
        /\ (j.req.addr + j.req.size) + 16 < UINT32
    BY JobNat, JobFields, ReqFields DEF JobOK, STUB_FLASH_SECTOR_SIZE
  <1>2. /\ n \in {16, 256}
        /\ n = 256 => j.remaining >= 256
        /\ IsAligned(j.next, 16) /\ IsAligned(j.req.addr, 16)
    BY <1>1, SMT DEF JobOK, CursorOK, EraseSize, UseBlock, IsAligned,
                     STUB_FLASH_SECTOR_SIZE, STUB_FLASH_BLOCK_SIZE
  <1>3. /\ jj.req = j.req /\ jj.ret = ret /\ jj.lost = lost
        /\ jj.touched = j.touched \cup hit
        /\ jj.next = (j.next + n) % UINT32
        /\ jj.remaining = IF j.remaining >= n THEN j.remaining - n ELSE 0
    BY DEF NextAddr, NextRemaining
  <1>4. /\ j.req.addr <= j.next
        /\ (j.next - j.req.addr) + j.remaining = j.req.size
    BY <1>1 DEF JobOK, CursorOK
  <1>5. jj.next = j.next + n
    <2>1. j.next + n \in Nat /\ j.next + n < UINT32
      BY <1>1, <1>2, <1>4, UINT32Facts, SMT
    <2> QED BY <1>3, <2>1, UINT32Facts
  <1>6. CursorOK(jj)
    BY <1>1, <1>2, <1>3, <1>4, <1>5, SMT DEF CursorOK, IsAligned, STUB_FLASH_SECTOR_SIZE
  <1>7. hit \subseteq Nat
    BY <1>2, SectorsNat
  <1>8. jj \in JobType
    <2>1. jj.next \in 0 .. UINT32 - 1 /\ jj.remaining \in 0 .. UINT32 - 1
      BY <1>1, <1>2, <1>3, <1>4, <1>5, UINT32Facts, SMT
    <2>3. j.req \in Requests \cup {NoRequest} /\ j.touched \cup hit \in SUBSET Nat
      BY <1>7, JobFields DEF JobOK
    <2> QED BY <2>1, <2>3 DEF JobType
  <1>9. Addressable(jj.req) => jj.touched = Sectors(jj.req.addr, jj.next - jj.req.addr)
    <2>1. SUFFICES ASSUME Addressable(j.req)
                   PROVE  j.touched \cup hit = Sectors(j.req.addr, (j.next + n) - j.req.addr)
      BY <1>3, <1>5
    <2>2. j.touched = Sectors(j.req.addr, j.next - j.req.addr) /\ hit = Sectors(j.next, n)
      BY <2>1 DEF JobOK
    <2>3. n \in Nat /\ IsAligned(n, 16)
      BY <1>2, SMT DEF IsAligned
    <2>4. Sectors(j.req.addr, j.next - j.req.addr) \cup Sectors(j.next, n)
             = Sectors(j.req.addr, (j.next + n) - j.req.addr)
      <3> DEFINE a == j.req.addr
                 b == j.next
                 c == b - a
                 d == (b + n) - a
      <3>1. /\ a \in Nat /\ b \in Nat /\ n \in Nat /\ a <= b
            /\ IsAligned(a, 16) /\ IsAligned(b, 16) /\ IsAligned(n, 16)
            /\ c = b - a /\ d = (b + n) - a
        BY <1>1, <1>2, <1>4, <2>3
      <3> HIDE DEF n, a, b, c, d
      <3>2. Sectors(a, c) \cup Sectors(b, n) = Sectors(a, d)
        BY <3>1, SectorsJoin
      <3> QED BY <3>2 DEF a, b, c, d
    <2> QED BY <2>2, <2>4
  <1> QED BY <1>6, <1>8, <1>9 DEF JobOK

(***************************************************************************)
(* The inductive invariant                                                 *)
(***************************************************************************)
\* EraseInv, job by job.
LEMMA EraseInvJobs ==
    EraseInv <=> /\ TypeOK
                 /\ \A k \in Jobs : JobOK(job[k])
                 /\ SessionOK
                 /\ ProgressOK
  BY DEF EraseInv, TypeOK, JobOK, EraseFollowsCursor

\* Before the first call every cursor is empty and the chip idle.
LEMMA InitEraseInv == Init => EraseInv
  <1> SUFFICES ASSUME Init PROVE EraseInv
    OBVIOUS
  <1>1. "none" \in Returns /\ \A k \in Jobs : job[k] = NewJob(NoRequest, "none")
    BY DEF Init, Returns
  <1>2. \A k \in Jobs : JobOK(job[k])
    BY <1>1, NewJobOK
  <1>3. TypeOK
    BY <1>1, <1>2 DEF Init, TypeOK, JobOK, Sessions
  <1>4. SessionOK
    BY DEF Init, SessionOK, Idle, NewJob, Jobs
  <1>5. ProgressOK
    BY <1>1 DEF Init, ProgressOK, NewJob, Jobs
  <1> QED BY <1>2, <1>3, <1>4, <1>5, EraseInvJobs

\* In an open session the command for the cursor of an addressable request goes
\* to the cursor's own address, whichever width is in use.
LEMMA PhysicalAddrOK ==
    ASSUME TypeOK, SessionOK, session # "closed", NEW k \in Jobs,
           JobOK(job[k]), job[k].remaining > 0
    PROVE  /\ PhysicalAddr(job[k].next) \in Nat
           /\ Addressable(job[k].req) => PhysicalAddr(job[k].next) = job[k].next
  <1> DEFINE j == job[k]
  <1>1. /\ j.next \in Nat /\ j.remaining \in Nat
        /\ j.req.addr \in Nat /\ j.req.size \in Nat
    BY JobNat, JobFields, ReqFields DEF JobOK
  <1>2. PhysicalAddr(j.next) \in Nat
    BY <1>1, SMT DEF PhysicalAddr, MIB16
  <1>3. CASE large_flash_mode
    BY <1>2, <1>3 DEF PhysicalAddr
  <1>4. CASE ~large_flash_mode
    <2>1. Addressable(j.req) => j.req.addr + j.req.size <= MIB16
      BY <1>4 DEF SessionOK, Addressable
    <2>2. (j.next - j.req.addr) + j.remaining = j.req.size
      BY <1>1 DEF JobOK, CursorOK
    <2>3. j.req.addr + j.req.size <= MIB16 => j.next % MIB16 = j.next
      BY <1>1, <2>2, SMT DEF MIB16
    <2> QED BY <1>2, <1>4, <2>1, <2>3 DEF PhysicalAddr
  <1> QED BY <1>3, <1>4

\* The one step of start_next_erase, on behalf of a client or of erase_area.
LEMMA StartNextErase ==
    ASSUME EraseInv, session # "closed", NEW k \in {"area", "async"},
           NEW ret \in {"OK", "running"}, k = "async" <=> ret = "OK",
           stub_lib_flash_start_next_erase(k, ret), UNCHANGED blank
    PROVE  /\ chip' \in [busy : BOOLEAN, sectors : SUBSET Nat]
           /\ job' \in [Jobs -> JobType]
           /\ \A i \in Jobs : JobOK(job'[i])
           /\ \A i \in Jobs \ {k} : job'[i] = job[i]
           /\ ProgressOK'
  <1> DEFINE j == job[k]
             hit == Sectors(PhysicalAddr(j.next), EraseSize(j))
             lost == j.lost \cup (IF Accepts THEN {} ELSE {session})
             jj == [req |-> j.req, next |-> NextAddr(j), remaining |-> NextRemaining(j),
                    ret |-> ret, touched |-> j.touched \cup hit, lost |-> lost]
  <1>1. /\ TypeOK /\ SessionOK /\ ProgressOK
        /\ \A i \in Jobs : JobOK(job[i])
        /\ k \in Jobs /\ job \in [Jobs -> JobType]
    BY EraseInvJobs DEF Jobs, TypeOK
  <1>2. ASSUME NEW r \in Returns, job' = [job EXCEPT ![k].ret = r], UNCHANGED chip,
               k = "area" => r # "OK"
        PROVE  /\ chip' \in [busy : BOOLEAN, sectors : SUBSET Nat]
               /\ job' \in [Jobs -> JobType]
               /\ \A i \in Jobs : JobOK(job'[i])
               /\ \A i \in Jobs \ {k} : job'[i] = job[i]
               /\ ProgressOK'
    <2>1. job'[k] = [j EXCEPT !.ret = r] /\ \A i \in Jobs \ {k} : job'[i] = job[i]
      BY <1>1, <1>2
    <2>2. JobOK(job'[k])
      BY <1>1, <1>2, <2>1, SetRetOK
    <2>3. \A i \in Jobs : JobOK(job'[i])
      BY <1>1, <2>1, <2>2
    <2>4. job' \in [Jobs -> JobType]
      BY <1>1, <1>2, <2>3 DEF JobOK
    <2>5. /\ job'[k].touched = j.touched /\ job'[k].lost = j.lost /\ job'[k].ret = r
      BY <1>1, <2>1, JobFields
    <2>6. ProgressOK'
      BY <1>1, <1>2, <2>1, <2>5 DEF ProgressOK, Jobs
    <2> QED BY <1>1, <1>2, <2>1, <2>3, <2>4, <2>6 DEF TypeOK
  <1>3. CASE WaitTimesOut(k)
    BY <1>2, <1>3 DEF WaitTimesOut, Returns
  <1>4. CASE job' = [job EXCEPT ![k].ret = ret] /\ UNCHANGED chip
    BY <1>2, <1>4 DEF Returns
  <1>5. CASE job' = [job EXCEPT ![k].ret = "INVALID_ARG"] /\ UNCHANGED chip
    BY <1>2, <1>5 DEF Returns
  <1>6. CASE /\ ~chip.busy
             /\ j.remaining > 0
             /\ UseBlock(j) \/ IsAligned(j.next, STUB_FLASH_SECTOR_SIZE)
             /\ IssueErase(k, ret)
    <2>1. /\ job' = [job EXCEPT ![k] = jj]
          /\ chip' = IF Accepts THEN [busy |-> TRUE, sectors |-> hit] ELSE chip
      BY <1>6 DEF IssueErase
    <2>2. /\ PhysicalAddr(j.next) \in Nat
          /\ Addressable(j.req) => PhysicalAddr(j.next) = j.next
      BY <1>1, <1>6, PhysicalAddrOK
    <2>3. lost \in SUBSET Sessions /\ ret \in Returns
      BY <1>1, JobFields DEF TypeOK, Returns
    <2>5. JobOK(jj)
      BY <1>1, <1>6, <2>2, <2>3, AdvanceOK
    <2>6. job'[k] = jj /\ \A i \in Jobs \ {k} : job'[i] = job[i]
      BY <1>1, <2>1
    <2>7. \A i \in Jobs : JobOK(job'[i])
      BY <1>1, <2>5, <2>6
    <2>8. job' \in [Jobs -> JobType]
      BY <1>1, <2>1, <2>7 DEF JobOK
    <2>9. hit \subseteq Nat
      <3>1. EraseSize(j) \in Nat
        BY SMT DEF EraseSize, STUB_FLASH_SECTOR_SIZE, STUB_FLASH_BLOCK_SIZE
      <3> QED BY <2>2, <3>1, SectorsNat
    <2>10. chip' \in [busy : BOOLEAN, sectors : SUBSET Nat]
      BY <1>1, <2>1, <2>9 DEF TypeOK
    <2>11. /\ jj.touched = j.touched \cup hit /\ jj.lost = lost /\ jj.ret = ret
      OBVIOUS
    <2>12. chip.sectors = {}
      BY <1>1, <1>6 DEF ProgressOK
    <2>13. ProgressOK'
      BY <1>1, <2>1, <2>6, <2>11, <2>12 DEF ProgressOK, Jobs
    <2> QED BY <2>6, <2>7, <2>8, <2>10, <2>13
  <1> QED
    BY <1>3, <1>4, <1>5, <1>6 DEF stub_lib_flash_start_next_erase

\* A new call of any kind replaces its job.
LEMMA ReplaceJob ==
    ASSUME EraseInv, NEW k \in Jobs, NEW j, JobOK(j), job' = [job EXCEPT ![k] = j]
    PROVE  /\ job' \in [Jobs -> JobType]
           /\ \A i \in Jobs : JobOK(job'[i])
           /\ job'[k] = j
           /\ \A i \in Jobs \ {k} : job'[i] = job[i]
  <1>1. job \in [Jobs -> JobType] /\ \A i \in Jobs : JobOK(job[i])
    BY EraseInvJobs DEF TypeOK
  <1>2. job'[k] = j /\ \A i \in Jobs \ {k} : job'[i] = job[i]
    BY <1>1
  <1>3. \A i \in Jobs : JobOK(job'[i])
    BY <1>1, <1>2
  <1> QED BY <1>1, <1>2, <1>3 DEF JobOK

\* The ROM's erase of a prefix of an aligned request.
LEMMA RomJobOK ==
    ASSUME TypeOK, SessionOK, session # "closed",
           ~(FourByteSupported /\ large_flash_mode),
           NEW r \in Requests, NEW n \in {0, STUB_FLASH_SECTOR_SIZE, r.size}, n <= r.size,
           IsAligned(r.addr, STUB_FLASH_SECTOR_SIZE), IsAligned(r.size, STUB_FLASH_SECTOR_SIZE)
    PROVE  /\ Sectors(PhysicalAddr(r.addr), n) \subseteq Nat
           /\ JobOK([req |-> r, next |-> r.addr + n, remaining |-> r.size - n,
                     ret |-> IF n = r.size THEN "OK" ELSE "FAIL",
                     touched |-> Sectors(PhysicalAddr(r.addr), n), lost |-> {}])
  <1> DEFINE hit == Sectors(PhysicalAddr(r.addr), n)
             ret == IF n = r.size THEN "OK" ELSE "FAIL"
             j == [req |-> r, next |-> r.addr + n, remaining |-> r.size - n,
                   ret |-> ret, touched |-> hit, lost |-> {}]
  <1>1. /\ r.addr \in Nat /\ r.size \in Nat /\ n \in Nat
        /\ r.addr + n \in 0 .. UINT32 - 1 /\ r.size - n \in 0 .. UINT32 - 1
    BY ReqFields, UINT32Facts DEF STUB_FLASH_SECTOR_SIZE
  <1>2. PhysicalAddr(r.addr) \in Nat
    BY <1>1, SMT DEF PhysicalAddr, MIB16
  <1>3. hit \subseteq Nat
    BY <1>1, <1>2, SectorsNat
  <1>4. j \in JobType
    BY <1>1, <1>3 DEF JobType, Returns
  <1>5. /\ j.req = r /\ j.next = r.addr + n /\ j.remaining = r.size - n
        /\ j.touched = hit
    OBVIOUS
  <1>7. CursorOK(j)
    <2> HIDE DEF j
    <2>1. n % 16 = 0 /\ r.addr % 16 = 0
      BY DEF IsAligned, STUB_FLASH_SECTOR_SIZE
    <2>2. (r.addr + n) % 16 = 0
      BY <1>1, <2>1, AlignedSum
    <2>3. /\ r.addr \in Nat /\ r.size \in Nat /\ n \in Nat /\ n <= r.size
      BY <1>1
    <2>4. /\ IsAligned(j.req.addr, STUB_FLASH_SECTOR_SIZE)
          /\ IsAligned(j.next, STUB_FLASH_SECTOR_SIZE)
      BY <1>5, <2>1, <2>2, Zenon DEF IsAligned, STUB_FLASH_SECTOR_SIZE
    <2>5. /\ r.addr <= r.addr + n
          /\ ((r.addr + n) - r.addr) + (r.size - n) = r.size
          /\ r.size - n = 0 => /\ r.size <= (r.addr + n) - r.addr
                               /\ (r.addr + n) - r.addr < r.size + STUB_FLASH_SECTOR_SIZE
      BY <2>3 DEF STUB_FLASH_SECTOR_SIZE
    <2> QED BY <1>5, <2>4, <2>5, Zenon DEF CursorOK
  <1>6. Addressable(r) => hit = Sectors(r.addr, (r.addr + n) - r.addr)
    <2>1. (r.addr + n) - r.addr = n
      BY <1>1
    <2>2. CASE n = 0
      BY <1>1, <1>2, <2>1, <2>2, SectorsEmpty
    <2>3. CASE n # 0
      <3>1. Addressable(r) => large_flash_mode \/ r.addr + r.size <= MIB16
        BY DEF Addressable, SessionOK
      <3>2. r.addr + r.size <= MIB16 => r.addr % MIB16 = r.addr
        BY <1>1, <2>3, SMT DEF MIB16
      <3> QED BY <2>1, <3>1, <3>2 DEF PhysicalAddr
    <2> QED BY <2>2, <2>3
  <1> HIDE DEF hit, j
  <1>8. JobOK(j)
    BY <1>4, <1>5, <1>7, <1>6 DEF JobOK
  <1> QED BY <1>3, <1>8 DEF hit, j

\* Every step of the library, the client and the chip keeps EraseInv.
LEMMA NextEraseInv == EraseInv /\ [Next]_vars => EraseInv'
  <1> SUFFICES ASSUME EraseInv, [Next]_vars PROVE EraseInv'
    OBVIOUS
  <1>1. /\ TypeOK /\ SessionOK /\ ProgressOK
        /\ \A k \in Jobs : JobOK(job[k])
        /\ job \in [Jobs -> JobType]
        /\ chip \in [busy : BOOLEAN, sectors : SUBSET Nat]
    BY EraseInvJobs DEF TypeOK
  <1>2. SUFFICES /\ TypeOK' /\ SessionOK' /\ ProgressOK'
                 /\ \A k \in Jobs : JobOK(job'[k])
    BY DEF EraseInv, TypeOK, JobOK, EraseFollowsCursor
  <1>3. ASSUME NEW id \in ReadIds, NEW enable4B \in BOOLEAN, NEW configOk \in BOOLEAN,
               stub_lib_flash_init_ex(id, enable4B, configOk)
        PROVE  /\ TypeOK' /\ SessionOK' /\ ProgressOK'
               /\ \A k \in Jobs : JobOK(job'[k])
    <2>1. UNCHANGED <<job, chip, blank>> /\ Idle
      BY <1>3 DEF stub_lib_flash_init_ex
    <2>2. TypeOK'
      BY <1>1, <1>3, <2>1 DEF stub_lib_flash_init_ex, TypeOK, Sessions
    <2>3. SessionOK'
      <3>1. session' # "closed" /\ Idle'
        BY <1>3, <2>1 DEF stub_lib_flash_init_ex, Idle
      <3>2. FlashIdToSize(id) \in {0, ChipSize}
        BY IdAssumption
      <3>3. FourByteSupported /\ ChipSize > MIB16 => large_flash_mode'
        BY <1>3, <3>2, TargetAssumption DEF stub_lib_flash_init_ex
      <3> QED BY <3>1, <3>3 DEF SessionOK
    <2>4. ProgressOK'
      BY <1>1, <2>1 DEF ProgressOK
    <2> QED BY <1>1, <2>1, <2>2, <2>3, <2>4
  <1>4. CASE stub_lib_flash_deinit
    <2>1. UNCHANGED <<flash_size, job, chip, blank>> /\ Idle /\ session' = "closed"
      BY <1>4 DEF stub_lib_flash_deinit, Ready
    <2>2. TypeOK'
      BY <1>1, <1>4, <2>1 DEF stub_lib_flash_deinit, TypeOK, Sessions
    <2>3. SessionOK' /\ ProgressOK'
      BY <1>1, <2>1 DEF SessionOK, ProgressOK, Idle
    <2> QED BY <1>1, <2>1, <2>2, <2>3
  <1>5. ASSUME NEW r \in Requests, NEW k \in {"area", "async", "rom"},
               NEW ret \in Returns \ {"OK"}, session # "closed",
               job' = [job EXCEPT ![k] = NewJob(r, ret)],
               UNCHANGED <<session, large_flash_mode, cacheMode4B, flash_size, chip, blank>>
        PROVE  /\ TypeOK' /\ SessionOK' /\ ProgressOK'
               /\ \A i \in Jobs : JobOK(job'[i])
    <2>1. k \in Jobs /\ JobOK(NewJob(r, ret))
      BY NewJobOK DEF Jobs
    <2>2. /\ job' \in [Jobs -> JobType]
          /\ \A i \in Jobs : JobOK(job'[i])
          /\ job'[k] = NewJob(r, ret)
          /\ \A i \in Jobs \ {k} : job'[i] = job[i]
      BY <1>5, <2>1, ReplaceJob
    <2>3. TypeOK' /\ SessionOK'
      BY <1>1, <1>5, <2>2 DEF TypeOK, SessionOK
    <2>4. job'[k].touched = {} /\ job'[k].ret = ret
      BY <2>2 DEF NewJob
    <2>5. ProgressOK'
      BY <1>1, <1>5, <2>1, <2>2, <2>4 DEF ProgressOK, Jobs
    <2> QED BY <2>2, <2>3, <2>5
  <1>6. ASSUME NEW r \in Requests, AsyncBegin(r)
        PROVE  /\ TypeOK' /\ SessionOK' /\ ProgressOK'
               /\ \A k \in Jobs : JobOK(job'[k])
    <2>1. "none" \in Returns \ {"OK"}
      BY DEF Returns
    <2> QED BY <1>5, <1>6, <2>1 DEF AsyncBegin, Ready
  <1>7. ASSUME NEW k \in {"area", "async"}, NEW ret \in {"OK", "running"},
               k = "async" <=> ret = "OK", session # "closed",
               stub_lib_flash_start_next_erase(k, ret),
               UNCHANGED <<session, large_flash_mode, cacheMode4B, flash_size, blank>>
        PROVE  /\ TypeOK' /\ SessionOK' /\ ProgressOK'
               /\ \A i \in Jobs : JobOK(job'[i])
    <2>1. /\ chip' \in [busy : BOOLEAN, sectors : SUBSET Nat]
          /\ job' \in [Jobs -> JobType]
          /\ \A i \in Jobs : JobOK(job'[i])
          /\ ProgressOK'
      BY <1>7, StartNextErase
    <2>2. TypeOK' /\ SessionOK'
      BY <1>1, <1>7, <2>1 DEF TypeOK, SessionOK
    <2> QED BY <2>1, <2>2
  <1>8. CASE AsyncStep
    BY <1>7, <1>8 DEF AsyncStep, Ready
  <1>9. ASSUME NEW r \in Requests, stub_lib_flash_erase_area(r)
        PROVE  /\ TypeOK' /\ SessionOK' /\ ProgressOK'
               /\ \A k \in Jobs : JobOK(job'[k])
    <2>1. "running" \in Returns \ {"OK"} /\ "INVALID_ARG" \in Returns \ {"OK"}
      BY DEF Returns
    <2> QED BY <1>5, <1>9, <2>1 DEF stub_lib_flash_erase_area, Ready
  <1>10. CASE EraseAreaLoop
    BY <1>1, <1>7, <1>10 DEF EraseAreaLoop, SessionOK
  <1>11. CASE EraseAreaWait
    <2>1. PICK r \in {"TIMEOUT", "OK"} :
            /\ job' = [job EXCEPT !["area"].ret = r]
            /\ r = "OK" => ~chip.busy
            /\ UNCHANGED <<session, large_flash_mode, cacheMode4B, flash_size, chip, blank>>
      BY <1>11 DEF EraseAreaWait, WaitTimesOut
    <2>2. /\ r \in Returns /\ "area" \in Jobs /\ session # "closed"
      BY <1>1, <1>11 DEF Returns, Jobs, EraseAreaWait, SessionOK
    <2>3. JobOK([job["area"] EXCEPT !.ret = r])
      BY <1>1, <2>2, SetRetOK
    <2>4. job' = [job EXCEPT !["area"] = [job["area"] EXCEPT !.ret = r]]
      BY <2>1
    <2>5. /\ job' \in [Jobs -> JobType]
          /\ \A i \in Jobs : JobOK(job'[i])
          /\ job'["area"] = [job["area"] EXCEPT !.ret = r]
          /\ \A i \in Jobs \ {"area"} : job'[i] = job[i]
      BY <2>2, <2>3, <2>4, ReplaceJob
    <2>6. TypeOK' /\ SessionOK'
      BY <1>1, <2>1, <2>2, <2>5 DEF TypeOK, SessionOK
    <2>7. /\ job'["area"].touched = job["area"].touched /\ job'["area"].lost = job["area"].lost
          /\ job'["area"].ret = r
      BY <1>1, <2>2, <2>5, JobFields DEF JobOK
    <2>8. ProgressOK'
      BY <1>1, <2>1, <2>2, <2>5, <2>7 DEF ProgressOK, Jobs
    <2> QED BY <2>5, <2>6, <2>8
  <1>12. ASSUME NEW r \in Requests, stub_lib_flash_rom_erase_area(r)
         PROVE  /\ TypeOK' /\ SessionOK' /\ ProgressOK'
                /\ \A k \in Jobs : JobOK(job'[k])
    <2>1. /\ session # "closed" /\ Idle
          /\ UNCHANGED <<session, large_flash_mode, cacheMode4B, flash_size>>
      BY <1>12 DEF stub_lib_flash_rom_erase_area, Ready
    <2>2. CASE RomRefuses(r, "NOT_SUPPORTED") \/ RomRefuses(r, "INVALID_ARG")
      BY <1>5, <2>1, <2>2 DEF RomRefuses, Returns
    <2>3. CASE /\ ~(FourByteSupported /\ large_flash_mode)
               /\ IsAligned(r.addr, STUB_FLASH_SECTOR_SIZE)
               /\ IsAligned(r.size, STUB_FLASH_SECTOR_SIZE)
               /\ \E n \in {0, STUB_FLASH_SECTOR_SIZE, r.size} : n <= r.size /\ RomErase(r, n)
      <3>1. PICK n \in {0, STUB_FLASH_SECTOR_SIZE, r.size} : n <= r.size /\ RomErase(r, n)
        BY <2>3
      <3> DEFINE hit == Sectors(PhysicalAddr(r.addr), n)
                 j == [req |-> r, next |-> r.addr + n, remaining |-> r.size - n,
                       ret |-> IF n = r.size THEN "OK" ELSE "FAIL",
                       touched |-> hit, lost |-> {}]
      <3>2. hit \subseteq Nat /\ JobOK(j)
        BY <1>1, <2>1, <2>3, <3>1, RomJobOK
      <3>3. /\ job' = [job EXCEPT !["rom"] = j]
            /\ chip' = [busy |-> FALSE, sectors |-> {}]
            /\ blank' = blank \cup chip.sectors \cup hit
        BY <3>1 DEF RomErase
      <3>4. j.touched = hit
        OBVIOUS
      <3> HIDE DEF hit, j
      <3>5. /\ job' \in [Jobs -> JobType]
            /\ \A i \in Jobs : JobOK(job'[i])
            /\ job'["rom"] = j
            /\ \A i \in Jobs \ {"rom"} : job'[i] = job[i]
        BY <3>2, <3>3, ReplaceJob DEF Jobs
      <3>6. TypeOK'
        BY <1>1, <2>1, <3>2, <3>3, <3>5 DEF TypeOK
      <3>7. SessionOK'
        BY <1>1, <2>1 DEF SessionOK
      <3>8. ProgressOK'
        BY <1>1, <3>3, <3>4, <3>5 DEF ProgressOK, Jobs
      <3> QED BY <3>5, <3>6, <3>7, <3>8
    <2> QED BY <1>12, <2>2, <2>3 DEF stub_lib_flash_rom_erase_area
  <1>13. ASSUME NEW ok \in BOOLEAN, stub_lib_flash_erase_chip(ok)
         PROVE  /\ TypeOK' /\ SessionOK' /\ ProgressOK'
                /\ \A k \in Jobs : JobOK(job'[k])
    <2> DEFINE all == IF ok THEN UNION {Region(r) : r \in Requests} ELSE {}
    <2>1. /\ UNCHANGED <<session, large_flash_mode, cacheMode4B, flash_size, job>>
          /\ chip' = [busy |-> FALSE, sectors |-> {}]
          /\ blank' = blank \cup chip.sectors \cup all
      BY <1>13 DEF stub_lib_flash_erase_chip
    <2>2. ASSUME NEW r \in Requests PROVE Region(r) \subseteq Nat
      <3>1. r.addr \in Nat /\ r.size \in Nat
        BY ReqFields
      <3> QED BY <3>1, SMT DEF Region, STUB_FLASH_SECTOR_SIZE
    <2>3. all \subseteq Nat
      BY <2>2
    <2> HIDE DEF all
    <2>4. TypeOK'
      BY <1>1, <2>1, <2>3 DEF TypeOK
    <2>5. SessionOK' /\ ProgressOK'
      BY <1>1, <2>1 DEF SessionOK, ProgressOK, Idle
    <2> QED BY <1>1, <2>1, <2>4, <2>5
  <1>14. CASE ChipDone
    <2>1. /\ UNCHANGED <<session, large_flash_mode, cacheMode4B, flash_size, job>>
          /\ chip' = [busy |-> FALSE, sectors |-> {}]
          /\ blank' = blank \cup chip.sectors
      BY <1>14 DEF ChipDone
    <2>2. TypeOK'
      BY <1>1, <2>1 DEF TypeOK
    <2>3. SessionOK' /\ ProgressOK'
      BY <1>1, <2>1 DEF SessionOK, ProgressOK, Idle
    <2> QED BY <1>1, <2>1, <2>2, <2>3
  <1>15. CASE UNCHANGED vars
    BY <1>1, <1>15 DEF vars, TypeOK, SessionOK, ProgressOK, Idle
  <1> QED
    BY <1>3, <1>4, <1>6, <1>8, <1>9, <1>10, <1>11, <1>12, <1>13, <1>14, <1>15 DEF Next

(***************************************************************************)
(* The theorems                                                            *)
(***************************************************************************)
\* EraseInv holds throughout: the state is well typed, cursors stay inside
\* their requests, and commanded sectors are erased or being erased.
THEOREM EraseInvariant == Spec => []EraseInv
  BY InitEraseInv, NextEraseInv, PTL DEF Spec

\* The variables keep their types.
THEOREM TypeCorrect == Spec => []TypeOK
  <1>1. EraseInv => TypeOK
    BY DEF EraseInv
  <1> QED BY <1>1, EraseInvariant, PTL

\* The 32-bit sum by which start_next_erase moves a cursor stays inside the range for as
\* long as something is left to erase.
SumInRange(j) == j.remaining > 0 => j.next + EraseSize(j) < UINT32

\* A request that does not reach the last sector of the address space (RequestsAssumption)
\* keeps it so to its end: no cursor of start_next_erase ever wraps to address 0, whatever
\* steps, timeouts and sessions lie in between.
THEOREM CursorsNeverWrap == Spec => [](\A k \in Jobs : SumInRange(job[k]))
  <1>1. ASSUME EraseInv, NEW k \in Jobs PROVE SumInRange(job[k])
    <2> DEFINE j == job[k]
    <2>1. j \in JobType /\ CursorOK(j)
      BY <1>1 DEF EraseInv, TypeOK
    <2>2. /\ j.next \in Nat /\ j.remaining \in Nat
          /\ j.req.addr \in Nat /\ j.req.size \in Nat
          /\ (j.req.addr + j.req.size) + 16 < UINT32
      BY <2>1, JobNat, JobFields, ReqFields DEF STUB_FLASH_SECTOR_SIZE
    <2>3. j.remaining > 0 => /\ j.req.addr <= j.next
                             /\ (j.next - j.req.addr) + j.remaining = j.req.size
      BY <2>1 DEF CursorOK
    <2>4. EraseSize(j) \in {16, 256} /\ (EraseSize(j) = 256 => j.remaining >= 256)
      BY <2>2 DEF EraseSize, UseBlock, STUB_FLASH_SECTOR_SIZE, STUB_FLASH_BLOCK_SIZE
    <2> HIDE DEF j
    <2>5. SumInRange(j)
      BY <2>2, <2>3, <2>4, UINT32Facts, SMT DEF SumInRange
    <2> QED BY <2>5 DEF j
  <1>2. EraseInv => \A k \in Jobs : SumInRange(job[k])
    BY <1>1
  <1> QED BY <1>2, EraseInvariant, PTL

\* The sectors a job commanded are those its cursor has passed.
THEOREM EraseFollows == Spec => []EraseFollowsCursor
  <1>1. EraseInv => EraseFollowsCursor
    BY DEF EraseInv
  <1> QED BY <1>1, EraseInvariant, PTL

\* No erase addresses a sector outside its request.
THEOREM EraseStaysInside == Spec => []EraseInside
  <1>1. EraseInv => EraseInside
    <2> SUFFICES ASSUME EraseInv, NEW k \in Jobs, Addressable(job[k].req)
                 PROVE  job[k].touched \subseteq Region(job[k].req)
      BY DEF EraseInside
    <2>1. job[k] \in JobType /\ CursorOK(job[k])
      BY DEF EraseInv, TypeOK
    <2>2. job[k].touched = Sectors(job[k].req.addr, job[k].next - job[k].req.addr)
      BY DEF EraseInv, EraseFollowsCursor
    <2> QED BY <2>1, <2>2, CursorRegion
  <1> QED BY <1>1, EraseInvariant, PTL

\* When an erase call reports OK its whole region has been erased.
THEOREM EraseCompletes == Spec => []EraseOkIsComplete
  <1>1. EraseInv => EraseOkIsComplete
    <2> SUFFICES ASSUME EraseInv, NEW k \in Jobs,
                        job[k].ret = "OK", job[k].remaining = 0,
                        job[k].lost = {}, Addressable(job[k].req)
                 PROVE  Region(job[k].req) \subseteq
                          blank \cup (IF k = "async" THEN chip.sectors ELSE {})
      BY DEF EraseOkIsComplete
    <2>1. job[k] \in JobType /\ CursorOK(job[k])
      BY DEF EraseInv, TypeOK
    <2>2. job[k].touched = Sectors(job[k].req.addr, job[k].next - job[k].req.addr)
      BY DEF EraseInv, EraseFollowsCursor
    <2>3. Region(job[k].req) \subseteq job[k].touched
      BY <2>1, <2>2, CursorRegion
    <2>4. job[k].touched \subseteq blank \cup (IF k = "async" THEN chip.sectors ELSE {})
      BY DEF EraseInv, ProgressOK, Jobs
    <2> QED BY <2>3, <2>4
  <1> QED BY <1>1, EraseInvariant, PTL

\* LargeModeOK is inductive beside EraseInv.
LEMMA LargeModeInvariant == Spec => []LargeModeOK
  <1>1. Init => LargeModeOK
    BY DEF Init, LargeModeOK
  <1>2. EraseInv /\ LargeModeOK /\ [Next]_vars => LargeModeOK'
    <2> SUFFICES ASSUME EraseInv, LargeModeOK, [Next]_vars PROVE LargeModeOK'
      OBVIOUS
    <2>1. ASSUME NEW id \in ReadIds, NEW enable4B \in BOOLEAN, NEW configOk \in BOOLEAN,
                 stub_lib_flash_init_ex(id, enable4B, configOk)
          PROVE  LargeModeOK'
      <3>1. FlashIdToSize(id) \in {0, ChipSize}
        BY IdAssumption
      <3> QED BY <2>1, <3>1 DEF LargeModeOK, stub_lib_flash_init_ex
    <2>2. CASE stub_lib_flash_deinit
      BY <2>2 DEF LargeModeOK, stub_lib_flash_deinit
    <2>3. CASE UNCHANGED <<session, large_flash_mode, cacheMode4B>>
      BY <2>3 DEF LargeModeOK
    <2> QED
      BY <2>1, <2>2, <2>3 DEF Next, vars, AsyncBegin, AsyncStep, stub_lib_flash_erase_area,
           EraseAreaLoop, EraseAreaWait, stub_lib_flash_rom_erase_area,
           stub_lib_flash_erase_chip, ChipDone
  <1> QED BY <1>1, <1>2, EraseInvariant, PTL DEF Spec

\* After deinit neither the flag nor the cache is left in four-byte mode.
THEOREM DeinitUndoes == Spec => []DeinitUndoesLargeMode
  <1>1. LargeModeOK => DeinitUndoesLargeMode
    BY DEF LargeModeOK, DeinitUndoesLargeMode
  <1> QED BY <1>1, LargeModeInvariant, PTL

\* If clients pair every init with a deinit, a session opened with OK loses no
\* erase command.
THEOREM NothingLost == ASSUME ~ReinitAllowed PROVE Spec => []NoCommandLost
  <1>1. Init => NoCommandLost
    BY DEF Init, NoCommandLost, NewJob
  <1>2. EraseInv /\ LargeModeOK /\ NoCommandLost /\ [Next]_vars => NoCommandLost'
    <2> SUFFICES ASSUME EraseInv, LargeModeOK, NoCommandLost, [Next]_vars
                 PROVE  NoCommandLost'
      OBVIOUS
    <2>1. job \in [Jobs -> JobType]
      BY DEF EraseInv, TypeOK
    <2>2. ASSUME NEW k \in {"area", "async"}, NEW ret, stub_lib_flash_start_next_erase(k, ret)
          PROVE  NoCommandLost'
      <3>1. ASSUME NEW r, job' = [job EXCEPT ![k].ret = r] PROVE NoCommandLost'
        <4>1. \A i \in Jobs : job'[i].lost = job[i].lost
          BY <2>1, <3>1, JobFields DEF Jobs
        <4> QED BY <4>1 DEF NoCommandLost
      <3>2. CASE IssueErase(k, ret) /\ ~chip.busy
        <4>1. session = "OK" => Accepts
          BY <3>2 DEF LargeModeOK, Accepts
        <4>2. /\ job'[k].lost = job[k].lost \cup (IF Accepts THEN {} ELSE {session})
              /\ \A i \in Jobs \ {k} : job'[i] = job[i]
          BY <2>1, <3>2 DEF IssueErase, Jobs
        <4>3. "OK" \notin job'[k].lost
          BY <4>1, <4>2 DEF NoCommandLost, Jobs
        <4> QED BY <4>2, <4>3 DEF NoCommandLost
      <3> QED
        BY <2>2, <3>1, <3>2 DEF stub_lib_flash_start_next_erase, WaitTimesOut
    <2>3. ASSUME NEW k \in Jobs, NEW j, job' = [job EXCEPT ![k] = j], j.lost = {}
          PROVE  NoCommandLost'
      <3>1. job'[k].lost = {} /\ \A i \in Jobs \ {k} : job'[i] = job[i]
        BY <2>1, <2>3
      <3> QED BY <3>1 DEF NoCommandLost
    <2>4. ASSUME NEW r, NEW ret PROVE NewJob(r, ret).lost = {}
      BY DEF NewJob
    <2>5. CASE UNCHANGED job
      BY <2>5 DEF NoCommandLost
    <2>6. ASSUME NEW r \in Requests, AsyncBegin(r) \/ stub_lib_flash_erase_area(r)
          PROVE  NoCommandLost'
      BY <2>3, <2>4, <2>6 DEF AsyncBegin, stub_lib_flash_erase_area, Jobs
    <2>7. CASE EraseAreaWait
      <3>1. PICK r : job' = [job EXCEPT !["area"].ret = r]
        BY <2>7 DEF EraseAreaWait, WaitTimesOut
      <3>2. \A i \in Jobs : job'[i].lost = job[i].lost
        BY <2>1, <3>1, JobFields DEF Jobs
      <3> QED BY <3>2 DEF NoCommandLost
    <2>8. ASSUME NEW r \in Requests, stub_lib_flash_rom_erase_area(r)
          PROVE  NoCommandLost'
      <3>1. PICK j : job' = [job EXCEPT !["rom"] = j] /\ j.lost = {}
        BY <2>4, <2>8 DEF stub_lib_flash_rom_erase_area, RomRefuses, RomErase
      <3> QED BY <2>3, <3>1 DEF Jobs
    <2> QED
      BY <2>2, <2>5, <2>6, <2>7, <2>8 DEF Next, vars, stub_lib_flash_init_ex,
           stub_lib_flash_deinit, AsyncStep, EraseAreaLoop, stub_lib_flash_erase_chip, ChipDone
  <1> QED BY <1>1, <1>2, EraseInvariant, LargeModeInvariant, PTL DEF Spec

=============================================================================
