----------------------------- MODULE FlashWrite -----------------------------
(***************************************************************************)
(* Writing to flash: stub_lib_flash_write_buff (flash.c), which cuts an    *)
(* unaligned write into words padded with 0xFF and an aligned middle part, *)
(* and the page programming loops of flash_4byte.c it uses for large       *)
(* flash, plain and through the AES-XTS engine.  On the other targets and  *)
(* for small flash a part is written by the ROM in one go.                 *)
(* stub_lib_flash_read_buff, the raw read through the controller, is here  *)
(* too: it meets the same chip.                                            *)
(*                                                                         *)
(* Addresses and sizes are bytes.  Programming 0xFF changes nothing, so    *)
(* the flash is the set of bytes programmed by the current call: where,    *)
(* from which place of the caller's buffer, and whether encrypted.         *)
(***************************************************************************)
EXTENDS Integers, FiniteSets

CONSTANTS
    Requests,   \* [addr, size, encrypt]: the writes the client may ask for
    Reads,      \* [addr, size, encrypt]: the reads, which do not decrypt
    MayFail     \* may waits run out, unlocking fail and the ROM report an error?

ASSUME FlashWriteAssumption ==
    /\ Requests \subseteq [addr : Nat, size : Nat, encrypt : BOOLEAN]
    /\ Reads \subseteq [addr : Nat, size : Nat, encrypt : {FALSE}]
    /\ MayFail \in BOOLEAN

VARIABLES
    large_flash_mode,  \* is this a four-byte target in large-flash mode?
    op,       \* is the call a write or a read?
    pc,       \* where the call is
    req,      \* its arguments
    part,     \* which part of the request is being written
    pos,      \* bytes of the part the loop has passed
    enc,      \* is the controller's encryption enabled?
    aes,      \* the block in the AES-XTS engine, and its state
    busy,     \* is the chip busy?
    wel,      \* is its write enable latch set?
    mem,      \* the bytes programmed by this call
    got,      \* the bytes read by this call: where to, where from, was the chip busy
    ignored,  \* has the chip ignored a command of this call?
    ret       \* the last call's result

vars == <<large_flash_mode, op, pc, req, part, pos, enc, aes, busy, wel, mem, got, ignored,
          ret>>

STUB_FLASH_PAGE_SIZE == 256
FLASH_WRITE_CHUNK_SIZE == 32
FLASH_READ_CHUNK_SIZE == 16
AES_XTS_MIN_BLOCK_SIZE == 16
AES_XTS_DOUBLE_BLOCK_SIZE == 32
AES_XTS_QUAD_BLOCK_SIZE == 64

Pcs == {"idle", "write", "program", "trigger", "encrypted", "wait", "next", "read", "read_loop"}
Results == {"none", "OK", "FAIL", "TIMEOUT", "WRITE_UNALIGNED", "WRITE",
            "READ_UNALIGNED", "READ"}
Parts == {"head", "mid", "tail"}

IsAligned(x, n) == x % n = 0
AlignDown(x, n) == x - (x % n)
Lesser(a, b) == IF a <= b THEN a ELSE b

(***************************************************************************)
(* The parts of a request.                                                 *)
(***************************************************************************)
\* Written as it is: everything encrypted, and whole words
Direct(r) == r.encrypt \/ (IsAligned(r.addr, 4) /\ IsAligned(r.size, 4))

HeadSize(r) ==
    IF Direct(r) \/ IsAligned(r.addr, 4) THEN 0 ELSE Lesser(r.size, 4 - (r.addr % 4))

MidAddr(r) == IF HeadSize(r) = 0 THEN r.addr ELSE AlignDown(r.addr, 4) + 4

MidSize(r) == IF Direct(r) THEN r.size ELSE AlignDown(r.size - HeadSize(r), 4)

TailSize(r) == r.size - HeadSize(r) - MidSize(r)

\* A part goes to addr, len bytes; its bytes pad .. pad + n - 1 are those of the
\* caller's buffer from off on, the others 0xFF (flash_write_partial_word).
Part(r, p) ==
    CASE p = "head" -> [addr |-> AlignDown(r.addr, 4), len |-> 4,
                        pad |-> r.addr % 4, n |-> HeadSize(r), off |-> 0]
      [] p = "mid"  -> [addr |-> MidAddr(r), len |-> MidSize(r),
                        pad |-> 0, n |-> MidSize(r), off |-> HeadSize(r)]
      [] p = "tail" -> [addr |-> MidAddr(r) + MidSize(r), len |-> 4,
                        pad |-> 0, n |-> TailSize(r), off |-> HeadSize(r) + MidSize(r)]

cur == Part(req, part)

\* The parts that are there, in the order in which they are written
Rank(p) == CASE p = "head" -> 1 [] p = "mid" -> 2 [] p = "tail" -> 3
Present(r) == {p \in Parts : Part(r, p).n > 0}

\* Mutant: what is left after whole words is not written.
After_NoTail(r, p) == {q \in Present(r) : Rank(q) > Rank(p) /\ q # "tail"}

After(r, p) == {q \in Present(r) : Rank(q) > Rank(p)}
FirstOf(S) == CHOOSE p \in S : \A q \in S : Rank(p) <= Rank(q)

(***************************************************************************)
(* The programming loop.                                                   *)
(***************************************************************************)
flash_addr == cur.addr + pos
remaining == cur.len - pos

\* Mutant: the last byte of a page does not count.
page_space_OffByOne == STUB_FLASH_PAGE_SIZE - 1 - (flash_addr % STUB_FLASH_PAGE_SIZE)

page_space == STUB_FLASH_PAGE_SIZE - (flash_addr % STUB_FLASH_PAGE_SIZE)

get_write_chunk_size_unencrypted ==
    Lesser(Lesser(remaining, FLASH_WRITE_CHUNK_SIZE), page_space)

FitsBlock(n) == IsAligned(flash_addr, n) /\ remaining >= n /\ page_space >= n

\* Mutant: the alignment of the address decides alone.
write_block_AnySize ==
    IF IsAligned(flash_addr, AES_XTS_QUAD_BLOCK_SIZE) THEN AES_XTS_QUAD_BLOCK_SIZE
    ELSE IF IsAligned(flash_addr, AES_XTS_DOUBLE_BLOCK_SIZE) THEN AES_XTS_DOUBLE_BLOCK_SIZE
    ELSE AES_XTS_MIN_BLOCK_SIZE

get_write_block_size_encrypted ==
    IF FitsBlock(AES_XTS_QUAD_BLOCK_SIZE) THEN AES_XTS_QUAD_BLOCK_SIZE
    ELSE IF FitsBlock(AES_XTS_DOUBLE_BLOCK_SIZE) THEN AES_XTS_DOUBLE_BLOCK_SIZE
    ELSE AES_XTS_MIN_BLOCK_SIZE

chunk_size ==
    IF req.encrypt THEN get_write_block_size_encrypted ELSE get_write_chunk_size_unencrypted

\* The chip programs inside one page: an address past its end starts over.
PageAddr(a, i) == (a - (a % STUB_FLASH_PAGE_SIZE)) + ((a + i) % STUB_FLASH_PAGE_SIZE)

\* What programming the part's bytes pos .. pos + n - 1 at address a leaves behind
Programmed(a, n) ==
    {[at |-> PageAddr(a, i), src |-> cur.off + pos + i - cur.pad, enc |-> enc] :
        i \in {j \in 0 .. n - 1 : pos + j \in cur.pad .. cur.pad + cur.n - 1}}

(***************************************************************************)
(* State                                                                   *)
(***************************************************************************)
NoRequest == [addr |-> 0, size |-> 0, encrypt |-> FALSE]

Init ==
    /\ large_flash_mode \in BOOLEAN
    /\ op = "write" /\ got = {}
    /\ pc = "idle" /\ req = NoRequest /\ part = "mid" /\ pos = 0
    /\ enc = FALSE /\ aes = "idle"
    /\ busy \in BOOLEAN /\ wel = FALSE
    /\ mem = {} /\ ignored = FALSE /\ ret = "none"

\* Mutant: only success turns the encryption off again.
Return_KeepsEncryption(result) ==
    /\ pc' = "idle" /\ ret' = result
    /\ enc' = IF result = "OK" THEN FALSE ELSE enc

\* Return to the client.  On the encrypted path this includes the cleanup label.
Return(result) ==
    /\ pc' = "idle" /\ ret' = result
    /\ enc' = FALSE

\* stub_lib_flash_write_buff: nothing to do, refused, or start with the first part
stub_lib_flash_write_buff(r) ==
    /\ pc = "idle"
    /\ op' = "write" /\ got' = {}
    /\ req' = r /\ mem' = {} /\ ignored' = FALSE /\ pos' = 0
    /\ IF r.size = 0
       THEN pc' = "idle" /\ ret' = "OK" /\ UNCHANGED part
       ELSE IF r.encrypt /\ ~(IsAligned(r.addr, 16) /\ IsAligned(r.size, 16))
       THEN pc' = "idle" /\ ret' = "WRITE_UNALIGNED" /\ UNCHANGED part
       ELSE pc' = "write" /\ ret' = "none" /\ part' = FirstOf(Present(r))
    /\ UNCHANGED <<enc, aes, busy, wel>>

\* The first k bytes of the part that come from the caller's buffer
RomWritten(k) ==
    {[at |-> cur.addr + cur.pad + i, src |-> cur.off + i, enc |-> req.encrypt] :
        i \in 0 .. k - 1}

\* stub_target_flash_write_buff: the ROM writes the part, or some of it and an error
RomWrite ==
    /\ pc = "write" /\ ~large_flash_mode
    /\ \/ /\ mem' = mem \cup RomWritten(cur.n)
          /\ pc' = "next"
          /\ UNCHANGED <<enc, ret>>
       \/ /\ MayFail /\ Return("WRITE")
          /\ \E k \in 0 .. cur.n - 1 : mem' = mem \cup RomWritten(k)
    /\ busy' = FALSE /\ wel' = FALSE
    /\ UNCHANGED <<req, part, pos, aes, ignored>>

\* Mutant: the chip may still be busy.
WriteUnencrypted_NoWait ==
    /\ pc = "write" /\ large_flash_mode /\ ~req.encrypt
    /\ pc' = "program"
    /\ UNCHANGED <<req, part, pos, enc, aes, busy, wel, mem, ignored, ret>>

\* 4byte_write_unencrypted: wait for the chip, then enter the loop
WriteUnencrypted ==
    /\ pc = "write" /\ large_flash_mode /\ ~req.encrypt
    /\ \/ ~busy /\ pc' = "program" /\ UNCHANGED <<enc, ret>>
       \/ busy /\ MayFail /\ Return("TIMEOUT")
    /\ UNCHANGED <<req, part, pos, aes, busy, wel, mem, ignored>>

\* 4byte_write_encrypted: encryption on, unlock, wait for the chip
WriteEncrypted ==
    /\ pc = "write" /\ large_flash_mode /\ req.encrypt
    /\ \/ ~busy /\ pc' = "trigger" /\ enc' = TRUE /\ UNCHANGED ret
       \/ busy /\ MayFail /\ Return("TIMEOUT")
       \/ MayFail /\ Return("FAIL")
    /\ UNCHANGED <<req, part, pos, aes, busy, wel, mem, ignored>>

\* stub_target_aes_xts_encrypt_trigger, then write enable, which a busy chip ignores
Trigger ==
    /\ pc = "trigger"
    /\ aes' = "busy"
    /\ wel' = (wel \/ ~busy)
    /\ pc' = "encrypted"
    /\ UNCHANGED <<req, part, pos, enc, busy, mem, ignored, ret>>

\* stub_target_aes_xts_wait_data_ready: released to the controller, or out of time
WaitDataReady ==
    /\ pc = "encrypted"
    /\ \/ aes' = "visible" /\ pc' = "program" /\ UNCHANGED <<enc, ret>>
       \/ MayFail /\ Return("TIMEOUT") /\ UNCHANGED aes
    /\ UNCHANGED <<req, part, pos, busy, wel, mem, ignored>>

\* Page program, after write enable on the plain path; a busy chip ignores both, and
\* without its latch it ignores the program.  On the encrypted path the data are the
\* engine's, which is cleared.
Program ==
    /\ pc = "program"
    /\ IF busy \/ (req.encrypt /\ ~wel)
       THEN ignored' = TRUE /\ UNCHANGED <<mem, busy, wel>>
       ELSE /\ mem' = mem \cup Programmed(flash_addr, chunk_size)
            /\ busy' = TRUE /\ wel' = FALSE
            /\ UNCHANGED ignored
    /\ aes' = "idle"
    /\ pc' = "wait"
    /\ UNCHANGED <<req, part, pos, enc, ret>>

\* Wait for the chip, then advance by the chunk
WaitProgrammed ==
    /\ pc = "wait"
    /\ \/ /\ ~busy
          /\ pos' = pos + chunk_size
          /\ pc' = IF pos' < cur.len
                   THEN (IF req.encrypt THEN "trigger" ELSE "program") ELSE "next"
          /\ UNCHANGED <<enc, ret>>
       \/ busy /\ MayFail /\ Return("TIMEOUT") /\ UNCHANGED pos
    /\ UNCHANGED <<req, part, aes, busy, wel, mem, ignored>>

\* The part is written: go on with the next one, or return OK
NextPart ==
    /\ pc = "next"
    /\ IF After(req, part) = {}
       THEN Return("OK") /\ UNCHANGED <<part, pos>>
       ELSE /\ part' = FirstOf(After(req, part)) /\ pos' = 0
            /\ pc' = "write"
            /\ UNCHANGED <<enc, ret>>
    /\ UNCHANGED <<req, aes, busy, wel, mem, ignored>>

(***************************************************************************)
(* Reading                                                                 *)
(***************************************************************************)
\* stub_lib_flash_read_buff: whole words only
stub_lib_flash_read_buff(r) ==
    /\ pc = "idle"
    /\ op' = "read" /\ got' = {}
    /\ req' = r /\ mem' = {} /\ ignored' = FALSE /\ pos' = 0
    /\ IF IsAligned(r.addr, 4) /\ IsAligned(r.size, 4)
       THEN pc' = "read" /\ ret' = "none"
       ELSE pc' = "idle" /\ ret' = "READ_UNALIGNED"
    /\ UNCHANGED <<part, enc, aes, busy, wel>>

\* The bytes pos .. pos + n - 1 of the request, as the chip sends them
Sent(n) == {[at |-> req.addr + k, dst |-> k, garbled |-> busy] : k \in pos .. pos + n - 1}

\* stub_target_flash_read_buff: the ROM waits for the chip and reads, or reports an error
RomRead ==
    /\ pc = "read" /\ ~large_flash_mode /\ ~busy
    /\ \/ got' = Sent(req.size) /\ Return("OK")
       \/ MayFail /\ Return("READ") /\ UNCHANGED got
    /\ UNCHANGED <<req, part, pos, aes, busy, wel, mem, ignored>>

\* stub_target_flash_4byte_read: wait for the chip ...
ReadWait ==
    /\ pc = "read" /\ large_flash_mode
    /\ \/ ~busy /\ pc' = "read_loop" /\ UNCHANGED <<enc, ret>>
       \/ busy /\ MayFail /\ Return("TIMEOUT")
    /\ UNCHANGED <<req, part, pos, aes, busy, wel, mem, got, ignored>>

\* ... and read chunk after chunk
ReadChunk ==
    /\ pc = "read_loop" /\ pos < req.size
    /\ LET n == Lesser(req.size - pos, FLASH_READ_CHUNK_SIZE)
       IN  got' = got \cup Sent(n) /\ pos' = pos + n
    /\ UNCHANGED <<pc, req, part, enc, aes, busy, wel, mem, ignored, ret>>

ReadDone ==
    /\ pc = "read_loop" /\ pos = req.size
    /\ Return("OK")
    /\ UNCHANGED <<req, part, pos, aes, busy, wel, mem, got, ignored>>

ChipDone ==
    /\ busy
    /\ busy' = FALSE
    /\ UNCHANGED <<pc, req, part, pos, enc, aes, wel, mem, ignored, ret>>

\* stub_lib_flash_start_next_erase leaves the chip busy for the next call.
StartErase ==
    /\ pc = "idle" /\ ~busy
    /\ busy' = TRUE
    /\ UNCHANGED <<pc, req, part, pos, enc, aes, wel, mem, ignored, ret>>

(***************************************************************************)
(* Specification                                                           *)
(***************************************************************************)
WriteStep == \/ RomWrite \/ WriteUnencrypted \/ WriteEncrypted \/ Trigger \/ WaitDataReady
             \/ Program \/ WaitProgrammed \/ NextPart
ReadStep == RomRead \/ ReadWait \/ ReadChunk \/ ReadDone
Step == ((WriteStep /\ UNCHANGED got) \/ ReadStep) /\ UNCHANGED op
Chip == (ChipDone \/ StartErase) /\ UNCHANGED <<op, got>>

Next ==
    /\ \/ \E r \in Requests : stub_lib_flash_write_buff(r)
       \/ \E r \in Reads : stub_lib_flash_read_buff(r)
       \/ Step \/ Chip
    /\ UNCHANGED large_flash_mode

Spec == Init /\ [][Next]_vars

\* The call in progress goes on and a busy chip gets done.
FairSpec ==
    /\ Spec
    /\ WF_vars(Step /\ UNCHANGED large_flash_mode)
    /\ WF_vars(ChipDone /\ UNCHANGED <<large_flash_mode, op, got>>)

(***************************************************************************)
(* Properties                                                              *)
(***************************************************************************)
\* Types, and the loop never runs past the end of its part.
TypeOK ==
    /\ pc \in Pcs /\ ret \in Results /\ part \in Parts
    /\ op \in {"write", "read"} /\ req \in Requests \cup Reads \cup {NoRequest}
    /\ pos \in 0 .. IF op = "write" THEN cur.len ELSE req.size
    /\ got \subseteq [at : Nat, dst : Nat, garbled : BOOLEAN]
    /\ large_flash_mode \in BOOLEAN /\ enc \in BOOLEAN /\ busy \in BOOLEAN /\ wel \in BOOLEAN /\ ignored \in BOOLEAN
    /\ aes \in {"idle", "busy", "visible"}

\* Whatever a write has programmed so far, also one that fails half way or that follows
\* one that failed, is a prefix of the caller's buffer at the caller's addresses, encrypted
\* exactly when asked for: the cut into head, middle, tail and chunks moves no byte and
\* leaves no gap, no chunk wraps around in its page, and no earlier encrypted write
\* has left the controller's encryption on.
WrittenIsPrefix ==
    /\ Cardinality(mem) <= req.size
    /\ mem = {[at |-> req.addr + k, src |-> k, enc |-> req.encrypt] :
                 k \in 0 .. Cardinality(mem) - 1}

\* A write that returns OK has programmed every byte of the request; a read that returns
\* OK has read every byte, and none from a chip that is still erasing.
OkIsComplete ==
    pc = "idle" /\ ret = "OK" =>
        IF op = "write" THEN {b.src : b \in mem} = 0 .. req.size - 1
        ELSE got = {[at |-> req.addr + k, dst |-> k, garbled |-> FALSE] : k \in 0 .. req.size - 1}

\* The chip is sent nothing while it is busy, also when the client writes right after
\* starting an erase in the background.
NoCommandIgnored == ~ignored

\* Every call returns.
CallReturns == pc # "idle" ~> pc = "idle"
=============================================================================
