------------------------------- MODULE Flash -------------------------------
(***************************************************************************)
(* The flash session and the erase paths of esp-stub-lib: flash.c, the     *)
(* erase half of common/src/flash.c and of common/src/flash_4byte.c, on    *)
(* one SPI flash chip that carries out an accepted erase in the background *)
(* and ignores whatever it is sent meanwhile.                              *)
(*                                                                         *)
(* Addresses and sizes are counted in pages of 256 bytes, so that a        *)
(* uint32_t, which is 2^24 pages, keeps its width.  An address that is not *)
(* a multiple of the sector size is represented by one that is off by some *)
(* pages.                                                                  *)
(***************************************************************************)
EXTENDS Integers

CONSTANTS
    Requests,           \* [addr, size] records a client may ask to erase
    ReadIds,            \* low bytes of the ids the chip may answer to RDID
    ChipSize,           \* the capacity of the chip on the board, in pages
    FourByteSupported,  \* SOC_SPI_FLASH_4B_ADDR_SUPPORTED of the target
    MaxFlashSize,       \* stub_target_get_max_supported_flash_size()
    ReinitAllowed       \* may a client call init again without a deinit?

STUB_FLASH_SECTOR_SIZE == 16
STUB_FLASH_BLOCK_SIZE == 256
MIB16 == 65536
UINT32 == 16777216

ASSUME RequestsAssumption ==
    \A r \in Requests :
        /\ r.addr \in Nat /\ r.size \in Nat
        /\ r = [addr |-> r.addr, size |-> r.size]
        /\ r.addr + r.size + STUB_FLASH_SECTOR_SIZE < UINT32

ASSUME TargetAssumption ==
    /\ FourByteSupported \in BOOLEAN /\ ReinitAllowed \in BOOLEAN
    /\ ChipSize \in Nat /\ MaxFlashSize \in Nat
    /\ MaxFlashSize > MIB16 <=> FourByteSupported

FlashIdToSize(id) ==
    CASE id \in 18..28 -> 2 ^ (id - 8)
      [] id = 57       -> 131072
      [] OTHER         -> 0

(***************************************************************************)
(* The chip answers with its own id or, when the bus is not up yet, with   *)
(* one the table does not know.                                            *)
(***************************************************************************)
ASSUME IdAssumption ==
    \A id \in ReadIds : FlashIdToSize(id) \in {0, ChipSize}

VARIABLES
    session,           \* "closed", or what the last init returned
    large_flash_mode,  \* the static flag of flash.c
    cacheMode4B,       \* SPI0 cache switched to 32-bit addresses
    flash_size,        \* chip_size in the ROM's flash configuration
    job,               \* the erase calls and their cursors, see JobType
    chip,              \* [busy, sectors]: the erase the chip carries out
    blank              \* sectors an erase has completed on

vars == <<session, large_flash_mode, cacheMode4B, flash_size, job, chip, blank>>

(***************************************************************************)
(* "area" is a call of stub_lib_flash_erase_area, which owns its cursor    *)
(* until it returns; "async" is a client that steps its own cursor with    *)
(* stub_lib_flash_start_next_erase; "rom" is a call of                     *)
(* stub_lib_flash_rom_erase_area.  "touched" and "lost" are history: the   *)
(* sectors the job's commands addressed on the chip, and the sessions in   *)
(* which the chip ignored one of them.                                     *)
(***************************************************************************)
Jobs == {"area", "async", "rom"}
Sessions == {"closed", "OK", "UNKNOWN_FLASH_ID", "FAIL"}
Returns == {"none", "running", "OK", "INVALID_ARG", "TIMEOUT", "NOT_SUPPORTED", "FAIL"}
NoRequest == [addr |-> 0, size |-> 0]

JobType ==
    [req : Requests \cup {NoRequest}, next : 0 .. UINT32 - 1, remaining : 0 .. UINT32 - 1,
     ret : Returns, touched : SUBSET Nat, lost : SUBSET Sessions]

NewJob(r, ret) ==
    [req |-> r, next |-> r.addr, remaining |-> r.size, ret |-> ret,
     touched |-> {}, lost |-> {}]

TypeOK ==
    /\ session \in Sessions
    /\ large_flash_mode \in BOOLEAN
    /\ cacheMode4B \in BOOLEAN
    /\ flash_size \in {FlashIdToSize(id) : id \in ReadIds} \cup {0, MaxFlashSize}
    /\ job \in [Jobs -> JobType]
    /\ chip \in [busy : BOOLEAN, sectors : SUBSET Nat]
    /\ blank \in SUBSET Nat

Init ==
    /\ session = "closed"
    /\ large_flash_mode = FALSE
    /\ cacheMode4B = FALSE
    /\ flash_size = 0
    /\ job = [k \in Jobs |-> NewJob(NoRequest, "none")]
    /\ chip = [busy |-> FALSE, sectors |-> {}]
    /\ blank = {}

(***************************************************************************)
(* Helpers                                                                 *)
(***************************************************************************)
IsAligned(x, n) == x % n = 0

Sectors(a, n) ==
    (a \div STUB_FLASH_SECTOR_SIZE) .. ((a + n) \div STUB_FLASH_SECTOR_SIZE - 1)

\* The sectors a request names, whole or in part.
Region(r) ==
    IF r.size = 0 THEN {}
    ELSE (r.addr \div STUB_FLASH_SECTOR_SIZE) ..
         ((r.addr + r.size - 1) \div STUB_FLASH_SECTOR_SIZE)

\* Mutant: the four-byte path masks the address too.
PhysicalAddr_Always24(a) == a % MIB16

\* Where a command's address lands: three-byte commands send addr & 0xffffff.
PhysicalAddr(a) == IF large_flash_mode THEN a ELSE a % MIB16

\* The chip takes a command when it is idle, a four-byte opcode only if it has any.
Accepts == ~chip.busy /\ (large_flash_mode => ChipSize > MIB16)

\* No call of the library is on the stack.
Idle == job["area"].ret # "running"

\* Erase calls need a session; the library itself does not keep track of it.
Ready == Idle /\ session # "closed"

\* Mutant: takes a block whenever a sector fits.
UseBlock_AnySize(j) ==
    j.remaining >= STUB_FLASH_SECTOR_SIZE /\ IsAligned(j.next, STUB_FLASH_BLOCK_SIZE)

UseBlock(j) ==
    j.remaining >= STUB_FLASH_BLOCK_SIZE /\ IsAligned(j.next, STUB_FLASH_BLOCK_SIZE)

EraseSize(j) ==
    IF UseBlock(j) THEN STUB_FLASH_BLOCK_SIZE ELSE STUB_FLASH_SECTOR_SIZE

\* Mutant: the address advances by a sector after a block.
NextAddr_SectorStep(j) == (j.next + STUB_FLASH_SECTOR_SIZE) % UINT32

NextAddr(j) == (j.next + EraseSize(j)) % UINT32

NextRemaining(j) ==
    IF j.remaining >= EraseSize(j) THEN j.remaining - EraseSize(j) ELSE 0

(***************************************************************************)
(* init_ex and deinit                                                      *)
(***************************************************************************)
stub_lib_flash_init_ex(id, enable4B, configOk) ==
    LET known == FlashIdToSize(id)
        size  == IF known = 0 THEN MaxFlashSize ELSE known
        large == FourByteSupported /\ size > MIB16
    IN  /\ Idle
        /\ session = "closed" \/ ReinitAllowed
        /\ large_flash_mode' = (large_flash_mode \/ large)
        /\ cacheMode4B' = (cacheMode4B \/ (large /\ enable4B))
        /\ flash_size' = IF configOk THEN size ELSE flash_size
        /\ session' = IF ~configOk THEN "FAIL"
                      ELSE IF known = 0 THEN "UNKNOWN_FLASH_ID" ELSE "OK"
        /\ UNCHANGED <<job, chip, blank>>

\* Mutant: deinit clears the flag before it tests it.
deinit_ClearsFirst ==
    /\ Ready
    /\ large_flash_mode' = FALSE
    /\ session' = "closed"
    /\ UNCHANGED <<cacheMode4B, flash_size, job, chip, blank>>

stub_lib_flash_deinit ==
    /\ Ready
    /\ large_flash_mode' = FALSE
    /\ cacheMode4B' = (cacheMode4B /\ ~(FourByteSupported /\ large_flash_mode))
    /\ session' = "closed"
    /\ UNCHANGED <<flash_size, job, chip, blank>>

(***************************************************************************)
(* start_next_erase: wait for the chip, then start one block or sector     *)
(***************************************************************************)
\* The wait gave up: the chip is busy and the cursor stays where it is.
WaitTimesOut(k) ==
    /\ chip.busy
    /\ job' = [job EXCEPT ![k].ret = "TIMEOUT"]
    /\ UNCHANGED chip

\* Mutant: the cursor is not written back.
IssueErase_NoWriteBack(k, ret) ==
    LET hit == Sectors(PhysicalAddr(job[k].next), EraseSize(job[k]))
    IN  /\ chip' = IF Accepts THEN [busy |-> TRUE, sectors |-> hit] ELSE chip
        /\ job' = [job EXCEPT ![k].ret = ret, ![k].touched = @ \cup hit]

\* WREN and the erase command, at the width large_flash_mode selects, and the
\* cursor update.  The four-byte path waits once more, on a chip found idle.
IssueErase(k, ret) ==
    LET j   == job[k]
        hit == Sectors(PhysicalAddr(j.next), EraseSize(j))
    IN  /\ chip' = IF Accepts THEN [busy |-> TRUE, sectors |-> hit] ELSE chip
        /\ job' = [job EXCEPT ![k] =
             [req |-> j.req, next |-> NextAddr(j), remaining |-> NextRemaining(j), ret |-> ret,
              touched |-> j.touched \cup hit,
              lost |-> j.lost \cup (IF Accepts THEN {} ELSE {session})]]

\* Mutant: no wait before the command.
start_next_erase_NoWait(k, ret) ==
    \/ /\ job[k].remaining = 0
       /\ job' = [job EXCEPT ![k].ret = ret]
       /\ UNCHANGED chip
    \/ /\ job[k].remaining > 0
       /\ UseBlock(job[k]) \/ IsAligned(job[k].next, STUB_FLASH_SECTOR_SIZE)
       /\ IssueErase(k, ret)

stub_lib_flash_start_next_erase(k, ret) ==
    \/ WaitTimesOut(k)
    \/ /\ ~chip.busy
       /\ job[k].remaining = 0
       /\ job' = [job EXCEPT ![k].ret = ret]
       /\ UNCHANGED chip
    \/ /\ ~chip.busy
       /\ job[k].remaining > 0
       /\ ~UseBlock(job[k]) /\ ~IsAligned(job[k].next, STUB_FLASH_SECTOR_SIZE)
       /\ job' = [job EXCEPT ![k].ret = "INVALID_ARG"]
       /\ UNCHANGED chip
    \/ /\ ~chip.busy
       /\ job[k].remaining > 0
       /\ UseBlock(job[k]) \/ IsAligned(job[k].next, STUB_FLASH_SECTOR_SIZE)
       /\ IssueErase(k, ret)

\* A client sets up a cursor of its own ...
AsyncBegin(r) ==
    /\ Ready
    /\ job' = [job EXCEPT !["async"] = NewJob(r, "none")]
    /\ UNCHANGED <<session, large_flash_mode, cacheMode4B, flash_size, chip, blank>>

\* ... and keeps passing it to start_next_erase, after a TIMEOUT too.
AsyncStep ==
    /\ Ready
    /\ stub_lib_flash_start_next_erase("async", "OK")
    /\ UNCHANGED <<session, large_flash_mode, cacheMode4B, flash_size, blank>>

(***************************************************************************)
(* erase_area: the same steps in a loop, then wait for the last one        *)
(***************************************************************************)
stub_lib_flash_erase_area(r) ==
    /\ Ready
    /\ job' = [job EXCEPT !["area"] =
                 NewJob(r, IF /\ IsAligned(r.addr, STUB_FLASH_SECTOR_SIZE)
                              /\ IsAligned(r.size, STUB_FLASH_SECTOR_SIZE)
                           THEN "running" ELSE "INVALID_ARG")]
    /\ UNCHANGED <<session, large_flash_mode, cacheMode4B, flash_size, chip, blank>>

EraseAreaLoop ==
    /\ ~Idle
    /\ job["area"].remaining > 0
    /\ stub_lib_flash_start_next_erase("area", "running")
    /\ UNCHANGED <<session, large_flash_mode, cacheMode4B, flash_size, blank>>

\* Mutant: returns once the last erase is started.
EraseAreaWait_NoWait ==
    /\ ~Idle
    /\ job["area"].remaining = 0
    /\ job' = [job EXCEPT !["area"].ret = "OK"]
    /\ UNCHANGED <<session, large_flash_mode, cacheMode4B, flash_size, chip, blank>>

EraseAreaWait ==
    /\ ~Idle
    /\ job["area"].remaining = 0
    /\ \/ WaitTimesOut("area")
       \/ /\ ~chip.busy
          /\ job' = [job EXCEPT !["area"].ret = "OK"]
          /\ UNCHANGED chip
    /\ UNCHANGED <<session, large_flash_mode, cacheMode4B, flash_size, blank>>

(***************************************************************************)
(* The ROM's routines wait for the chip before and after what they do      *)
(***************************************************************************)
\* The ROM erases n pages from the start of the request; it stops early if it fails.
RomErase(r, n) ==
    LET hit == Sectors(PhysicalAddr(r.addr), n)
    IN  /\ chip' = [busy |-> FALSE, sectors |-> {}]
        /\ blank' = blank \cup chip.sectors \cup hit
        /\ job' = [job EXCEPT !["rom"] =
             [req |-> r, next |-> r.addr + n, remaining |-> r.size - n,
              ret |-> IF n = r.size THEN "OK" ELSE "FAIL", touched |-> hit, lost |-> {}]]

RomRefuses(r, ret) ==
    /\ job' = [job EXCEPT !["rom"] = NewJob(r, ret)]
    /\ UNCHANGED <<chip, blank>>

stub_lib_flash_rom_erase_area(r) ==
    LET aligned == /\ IsAligned(r.addr, STUB_FLASH_SECTOR_SIZE)
                   /\ IsAligned(r.size, STUB_FLASH_SECTOR_SIZE)
        large   == FourByteSupported /\ large_flash_mode
    IN  /\ Ready
        /\ \/ large /\ RomRefuses(r, "NOT_SUPPORTED")
           \/ ~large /\ ~aligned /\ RomRefuses(r, "INVALID_ARG")
           \/ /\ ~large /\ aligned
              /\ \E n \in {0, STUB_FLASH_SECTOR_SIZE, r.size} :
                    n <= r.size /\ RomErase(r, n)
        /\ UNCHANGED <<session, large_flash_mode, cacheMode4B, flash_size>>

\* A chip erase, which the ROM waits out; of all its sectors the model keeps
\* the ones some request names.
stub_lib_flash_erase_chip(ok) ==
    /\ Ready
    /\ chip' = [busy |-> FALSE, sectors |-> {}]
    /\ blank' = blank \cup chip.sectors \cup (IF ok THEN UNION {Region(r) : r \in Requests} ELSE {})
    /\ UNCHANGED <<session, large_flash_mode, cacheMode4B, flash_size, job>>

\* The chip finishes the erase in its own time.
ChipDone ==
    /\ chip.busy
    /\ chip' = [busy |-> FALSE, sectors |-> {}]
    /\ blank' = blank \cup chip.sectors
    /\ UNCHANGED <<session, large_flash_mode, cacheMode4B, flash_size, job>>

Next ==
    \/ \E id \in ReadIds, enable4B, configOk \in BOOLEAN :
          stub_lib_flash_init_ex(id, enable4B, configOk)
    \/ stub_lib_flash_deinit
    \/ \E r \in Requests : AsyncBegin(r)
    \/ AsyncStep
    \/ \E r \in Requests : stub_lib_flash_erase_area(r)
    \/ EraseAreaLoop
    \/ EraseAreaWait
    \/ \E r \in Requests : stub_lib_flash_rom_erase_area(r)
    \/ \E ok \in BOOLEAN : stub_lib_flash_erase_chip(ok)
    \/ ChipDone

Spec == Init /\ [][Next]_vars

(***************************************************************************)
(* Safety                                                                  *)
(***************************************************************************)
\* The commands the target can send reach every sector of the request.
Addressable(r) ==
    (FourByteSupported /\ ChipSize > MIB16) \/ r.addr + r.size <= MIB16

\* A request is erased from its first sector on, in order and without gaps: at
\* any moment, whatever timeouts, retries, other calls and re-opened sessions
\* lie in between, the sectors that were commanded are those the cursor of
\* start_next_erase / erase_area has passed.
EraseFollowsCursor ==
    \A k \in Jobs :
        Addressable(job[k].req) =>
            job[k].touched = Sectors(job[k].req.addr, job[k].next - job[k].req.addr)

\* No erase call ever addresses a sector outside the one it was asked for, not
\* even when its 64 KB block shortcut, a timeout or an error ends it early.
EraseInside ==
    \A k \in Jobs :
        Addressable(job[k].req) => job[k].touched \subseteq Region(job[k].req)

\* When erase_area or rom_erase_area has returned OK its whole region is erased
\* and nothing of it is still under way; a client whose cursor has run out has
\* at most the last erase to wait for.
EraseOkIsComplete ==
    \A k \in Jobs :
        LET j == job[k] IN
        j.ret = "OK" /\ j.remaining = 0 /\ j.lost = {} /\ Addressable(j.req) =>
            Region(j.req) \subseteq blank \cup (IF k = "async" THEN chip.sectors ELSE {})

\* In a session that init_ex opened with OK the chip never ignores an erase
\* command: none is sent while it is busy, none with an opcode it lacks.
NoCommandLost == \A k \in Jobs : "OK" \notin job[k].lost

\* A closed session leaves nothing behind of large-flash mode: deinit undoes
\* the flag and the cache's 32-bit addressing init_ex had switched on.
DeinitUndoesLargeMode == session = "closed" => ~large_flash_mode /\ ~cacheMode4B

(***************************************************************************)
(* What makes the properties above inductive                               *)
(***************************************************************************)
\* The cursor stays on sector boundaries between the ends of its request.
CursorOK(j) ==
    /\ j.req.addr <= j.next
    /\ j.remaining > 0 => (j.next - j.req.addr) + j.remaining = j.req.size
    /\ j.remaining = 0 => /\ j.req.size <= j.next - j.req.addr
                          /\ j.next - j.req.addr < j.req.size + STUB_FLASH_SECTOR_SIZE
    /\ \/ j.next = j.req.addr
       \/ /\ IsAligned(j.req.addr, STUB_FLASH_SECTOR_SIZE)
          /\ IsAligned(j.next, STUB_FLASH_SECTOR_SIZE)

\* A call runs inside a session, and a session on a large chip uses four bytes.
SessionOK ==
    /\ ~Idle => session # "closed"
    /\ FourByteSupported /\ ChipSize > MIB16 /\ session # "closed" => large_flash_mode

\* What was commanded and not lost is erased already or being erased now.
ProgressOK ==
    /\ ~chip.busy => chip.sectors = {}
    /\ \A k \in Jobs : job[k].lost = {} => job[k].touched \subseteq blank \cup chip.sectors
    /\ \A k \in {"area", "rom"} :
          job[k].ret = "OK" /\ job[k].lost = {} => job[k].touched \subseteq blank

\* Large-flash mode is confined to open sessions of targets that have it, and
\* to chips that need it unless the id was not recognised.
LargeModeOK ==
    /\ large_flash_mode => FourByteSupported /\ session # "closed"
    /\ cacheMode4B => large_flash_mode
    /\ ~ReinitAllowed /\ session = "OK" /\ large_flash_mode => ChipSize > MIB16

EraseInv ==
    /\ TypeOK
    /\ \A k \in Jobs : CursorOK(job[k])
    /\ SessionOK
    /\ EraseFollowsCursor
    /\ ProgressOK

(***************************************************************************)
(* Liveness.  The chip finishes what it started, a call in progress runs   *)
(* on, and a client that has set up a cursor keeps calling                 *)
(* start_next_erase for as long as the session is open.                    *)
(***************************************************************************)
Fairness ==
    /\ WF_vars(ChipDone)
    /\ WF_vars(EraseAreaLoop \/ EraseAreaWait)
    /\ WF_vars(AsyncStep)

FairSpec == Spec /\ Fairness

\* A client that restarts its cursor, or blocks in erase_area, again and again
\* has only itself to blame.
ClientSettles ==
    <>[][~\E r \in Requests : AsyncBegin(r) \/ stub_lib_flash_erase_area(r)]_vars

AsyncPending ==
    /\ job["async"].remaining > 0
    /\ IsAligned(job["async"].req.addr, STUB_FLASH_SECTOR_SIZE)

\* A client that keeps stepping its cursor gets to the end of its request, past
\* any number of timeouts and of other calls that occupy the chip, unless the
\* session is closed under it.
AsyncEraseCompletes ==
    ClientSettles => (AsyncPending ~> (~AsyncPending \/ session = "closed"))

\* Every call of erase_area returns.
EraseAreaReturns == ~Idle ~> Idle

=============================================================================
