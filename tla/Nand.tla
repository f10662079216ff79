-------------------------------- MODULE Nand --------------------------------
(***************************************************************************)
(* The SPI NAND driver (target/esp32s3/src/nand.c) on its W25N01GV, as far *)
(* as the driver's comments describe the chip: a command starts an         *)
(* operation the chip carries out by itself, and until it is done the chip *)
(* takes nothing but RESET and a read of its status.  Pages go through two *)
(* caches, one for the even and one for the odd blocks.                    *)
(*                                                                         *)
(* A call is the sequence of its commands and waits; an error ends it.  A  *)
(* page is Chunks pieces of 64 bytes and the marker bytes of its spare     *)
(* area, each the set of its bits that read 0, so that programming, which  *)
(* can only clear bits, is union, and erasing leaves the empty set.        *)
(***************************************************************************)
EXTENDS Integers, Sequences

CONSTANTS
    Blocks,           \* erase blocks of the chip
    pages_per_block,
    Chunks,           \* pieces of page_size in one transaction each
    Bits,             \* what a piece can hold
    Data,             \* the pages a client writes
    BadPages,         \* pages with a factory bad-block mark
    MaxCalls,         \* bound: calls of the driver
    MaxCareless       \* bound: calls among the first that ignore an earlier bus error

ASSUME NandAssumption ==
    /\ Blocks \in Nat \ {0} /\ pages_per_block \in Nat \ {0}
    /\ Chunks \in Nat \ {0} /\ Bits # {}
    /\ MaxCalls \in Nat /\ MaxCareless \in Nat
    /\ Data \subseteq [1 .. Chunks -> SUBSET Bits]

VARIABLES
    initialized,      \* s_nand_config.initialized
    status,           \* s_last_status_byte
    call,             \* the call that is running, or has returned
    chip,             \* what the chip does, its registers and status bits
    cache,            \* ECA and OCA, the caches of the even and the odd blocks
    cells,            \* the pages themselves
    trusted,          \* history: attach returned 0, and no call a bus error since
    calls             \* calls made so far

vars == <<initialized, status, call, chip, cache, cells, trusted, calls>>

Pages == 0 .. Blocks * pages_per_block - 1
Columns == 1 .. Chunks + 1
Spare == Chunks + 1
Erased == [c \in Columns |-> {}]
Zeros == [c \in Columns |-> Bits]
Program(image, over) == [c \in Columns |-> image[c] \cup over[c]]

Block(page) == page \div pages_per_block
plane_bit(page) == Block(page) % 2

Ops == {"attach", "read_bbm", "write_bbm", "write_page", "erase_block", "read_page"}
StatusBits == {"BUSY", "ERASE_FAILED", "PROGRAM_FAILED", "ECC_UNCORR"}
BusErrors == {"SPI_FAIL", "TIMEOUT", "RESET_FAILED"}

\* A step of a call: a command, and the column and the cache it names
At(cmd, col, plane) == [cmd |-> cmd, col |-> col, plane |-> plane]
Do(cmd) == At(cmd, 1, 0)

NewCall(op, page, image, len, steps, ret) ==
    [op |-> op, page |-> page, image |-> image, len |-> len, steps |-> steps, ret |-> ret,
     before |-> cells[page], buf |-> Erased, failed |-> FALSE, garbled |-> FALSE]

\* The chip after power-up: protected, both caches zero, blocks with a factory mark
Init ==
    /\ initialized = FALSE /\ status = {}
    /\ chip \in [op : {"idle"}, page : {0}, wel : {FALSE}, bits : {{}},
                 protect : {TRUE}, config : SUBSET {"BUF", "ECC_EN"}]
    /\ cache = [p \in {0, 1} |-> Zeros]
    /\ cells = [p \in Pages |-> [Erased EXCEPT ![Spare] = IF p \in BadPages THEN Bits ELSE {}]]
    /\ call = NewCall("read_page", 0, Erased, 0, <<>>, "NOT_INITIALIZED")
    /\ trusted = FALSE /\ calls = 0

(***************************************************************************)
(* The calls: what each sends and waits for                                *)
(***************************************************************************)
\* Mutant: buffer mode is left alone.
attach_steps_NoConfig ==
    <<Do("spi_nand_init"), Do("RESET"), Do("wait_ready"), Do("set_initialized"),
      Do("SET_PROTECT"), Do("GET_PROTECT")>>

attach_steps ==
    <<Do("spi_nand_init"), Do("RESET"), Do("wait_ready"), Do("set_initialized"),
      Do("SET_PROTECT"), Do("GET_PROTECT"),
      Do("READ_CONFIG"), Do("SET_CONFIG"), Do("GET_CONFIG")>>

\* The spare area is read without the plane bit.
read_bbm_steps(page) ==
    <<Do("PAGE_READ"), Do("wait_ready"), At("READ_FROM_CACHE", Spare, 0)>>

\* Mutant: the page is not read into its cache first.
write_bbm_steps_NoRead(page) ==
    <<Do("WRITE_ENABLE"), At("PROGRAM_LOAD_RANDOM", Spare, plane_bit(page)),
      Do("PROGRAM_EXECUTE"), Do("wait_program_erase")>>

write_bbm_steps(page) ==
    <<Do("PAGE_READ"), Do("wait_ready"), Do("WRITE_ENABLE"),
      At("PROGRAM_LOAD_RANDOM", Spare, plane_bit(page)),
      Do("PROGRAM_EXECUTE"), Do("wait_program_erase")>>

write_page_steps(page, len) ==
    <<Do("WRITE_ENABLE")>>
    \o [i \in 1 .. len |-> At(IF i = 1 THEN "PROGRAM_LOAD" ELSE "PROGRAM_LOAD_RANDOM", i,
                              plane_bit(page))]
    \o <<Do("PROGRAM_EXECUTE"), Do("wait_program_erase")>>

erase_block_steps ==
    <<Do("WRITE_ENABLE"), Do("ERASE_BLOCK"), Do("wait_program_erase")>>

\* Mutant: the fail bits an earlier call left are looked at.
read_page_steps_Strict(page, len) ==
    <<Do("PAGE_READ"), Do("wait_program_erase"), Do("check_ecc")>>
    \o [i \in 1 .. len |-> At("READ_FROM_CACHE", i, plane_bit(page))]

read_page_steps(page, len) ==
    <<Do("PAGE_READ"), Do("wait_ready"), Do("check_ecc")>>
    \o [i \in 1 .. len |-> At("READ_FROM_CACHE", i, plane_bit(page))]

\* Another call, with or without an attach after a bus error
MayCall(op) ==
    /\ calls < MaxCalls /\ call.ret # "running"
    /\ op = "attach" \/ trusted \/ ~initialized \/ calls < MaxCareless

\* A call that has nothing to do returns 0 at once, and all but attach want the
\* initialized flag.
Begin(op, page, image, len, steps) ==
    /\ MayCall(op)
    /\ calls' = calls + 1
    /\ call' = NewCall(op, page, image, len,
                       IF initialized \/ op = "attach" THEN steps ELSE <<>>,
                       IF ~initialized /\ op # "attach" THEN "NOT_INITIALIZED"
                       ELSE IF steps = <<>> THEN "OK" ELSE "running")
    /\ UNCHANGED <<chip, cache, cells>>

stub_target_nand_attach ==
    /\ Begin("attach", 0, Erased, 0, attach_steps)
    /\ initialized' = FALSE /\ status' = StatusBits /\ trusted' = FALSE

stub_target_nand_read_bbm(page) ==
    /\ Begin("read_bbm", page, Erased, 0, read_bbm_steps(page))
    /\ UNCHANGED <<initialized, status, trusted>>

\* A pointer that is not 4-byte aligned
read_bbm_Unaligned ==
    /\ initialized /\ MayCall("read_bbm")
    /\ calls' = calls + 1
    /\ call' = NewCall("read_bbm", 0, Erased, 0, <<>>, "INVALID_ARG")
    /\ UNCHANGED <<initialized, status, chip, cache, cells, trusted>>

\* A good mark is all ones, which programs nothing.
stub_target_nand_write_bbm(page, is_bad) ==
    /\ Begin("write_bbm", page, [Erased EXCEPT ![Spare] = IF is_bad THEN Bits ELSE {}], 0,
             write_bbm_steps(page))
    /\ UNCHANGED <<initialized, status, trusted>>

\* buf_size is cut to the page, and nothing to write is no error.
stub_target_nand_write_page(page, data, buf_size) ==
    LET write_len == IF buf_size < Chunks THEN buf_size ELSE Chunks
    IN  /\ Begin("write_page", page,
                 [c \in Columns |-> IF c <= write_len THEN data[c] ELSE {}], write_len,
                 IF write_len = 0 THEN <<>> ELSE write_page_steps(page, write_len))
        /\ UNCHANGED <<initialized, status, trusted>>

stub_target_nand_erase_block(page) ==
    /\ Begin("erase_block", page, Erased, 0, erase_block_steps)
    /\ UNCHANGED <<initialized, status, trusted>>

stub_target_nand_read_page(page, buf_size) ==
    LET read_len == IF buf_size > Chunks THEN Chunks ELSE buf_size
    IN  /\ Begin("read_page", page, Erased, read_len, read_page_steps(page, read_len))
        /\ UNCHANGED <<initialized, status, trusted>>

(***************************************************************************)
(* How a call goes on                                                      *)
(***************************************************************************)
step == Head(call.steps)
Running(cmds) == call.ret = "running" /\ step.cmd \in cmds

\* The call c returns ret.
Return(c, ret) ==
    /\ call' = [c EXCEPT !.steps = <<>>, !.ret = ret]
    /\ trusted' = CASE c.op = "attach" -> ret = "OK"
                    [] c.op # "attach" -> trusted /\ ret \notin BusErrors

\* The call c has done its first step; with none left it returns 0.
Advance(c) ==
    IF Len(c.steps) = 1 THEN Return(c, "OK")
    ELSE call' = [c EXCEPT !.steps = Tail(@)] /\ UNCHANGED trusted

\* spi_nand_transaction gave up, and with it the call.
SpiError == IF step.cmd = "RESET" THEN "RESET_FAILED" ELSE "SPI_FAIL"

(***************************************************************************)
(* The chip, command by command                                            *)
(***************************************************************************)
Start(op) == chip' = [chip EXCEPT !.op = op, !.page = call.page]

\* Program and erase want a write enable, forget old failures, and fail on a protected chip.
StartProgram(op) ==
    IF chip.wel
    THEN chip' = [chip EXCEPT !.op = op, !.page = call.page,
                              !.bits = @ \ {"ERASE_FAILED", "PROGRAM_FAILED"}]
    ELSE UNCHANGED chip

\* The pages once the operation under way is complete, and when it is broken off
Completed ==
    CASE chip.op = "PROGRAM_EXECUTE" ->
            [cells EXCEPT ![chip.page] = Program(@, cache[plane_bit(chip.page)])]
      [] chip.op = "ERASE_BLOCK" ->
            [p \in Pages |-> IF Block(p) = Block(chip.page) THEN Erased ELSE cells[p]]
      [] OTHER -> cells
Aborts == {cells, Completed}

\* In continuous mode the chip reads on by itself after READ_FROM_CACHE.
ReadOut ==
    chip' = IF "BUF" \in chip.config THEN chip
            ELSE [chip EXCEPT !.op = "PAGE_READ", !.page = (@ + 1) % (Blocks * pages_per_block)]

ChipTakes ==
    \/ /\ step.cmd = "RESET"
       /\ chip' = [chip EXCEPT !.op = "RESET", !.wel = FALSE, !.bits = {}]
       /\ cells' \in Aborts
       /\ UNCHANGED cache
    \/ /\ step.cmd # "RESET" /\ chip.op # "idle"
       /\ UNCHANGED <<chip, cache, cells>>
    \/ /\ chip.op = "idle"
       /\ \/ step.cmd = "WRITE_ENABLE" /\ chip' = [chip EXCEPT !.wel = TRUE]
          \/ step.cmd = "PAGE_READ" /\ Start("PAGE_READ")
          \/ step.cmd \in {"PROGRAM_EXECUTE", "ERASE_BLOCK"} /\ StartProgram(step.cmd)
          \/ step.cmd = "READ_FROM_CACHE" /\ ReadOut
          \/ step.cmd = "READ_CONFIG" /\ UNCHANGED chip
          \/ step.cmd = "SET_PROTECT" /\ \E kept \in BOOLEAN :
                chip' = [chip EXCEPT !.protect = @ /\ kept]
          \/ step.cmd = "SET_CONFIG" /\ \E kept \in BOOLEAN :
                chip' = [chip EXCEPT !.config = IF kept THEN @ ELSE {"BUF", "ECC_EN"}]
       /\ UNCHANGED <<cache, cells>>
    \/ /\ chip.op = "idle" /\ step.cmd \in {"PROGRAM_LOAD", "PROGRAM_LOAD_RANDOM"}
       /\ cache' = [cache EXCEPT ![step.plane] =
             [(IF step.cmd = "PROGRAM_LOAD" THEN Erased ELSE @)
                 EXCEPT ![step.col] = call.image[step.col]]]
       /\ UNCHANGED <<chip, cells>>

\* What an uncorrectable read leaves in a cache: anything in the data area.  The error
\* correction does not cover the marker bytes of the spare area.
Garbled(page) ==
    {image \in [Columns -> SUBSET Bits] : image[Spare] = page[Spare]}

\* The chip is done with what it was doing.
ChipReads ==
    /\ chip.op = "PAGE_READ"
    /\ \E garbled \in BOOLEAN :
          /\ chip' = [chip EXCEPT !.op = "idle",
                 !.bits = (@ \ {"ECC_UNCORR"})
                          \cup (IF garbled /\ "ECC_EN" \in chip.config THEN {"ECC_UNCORR"} ELSE {})]
          /\ call' = [call EXCEPT !.garbled = garbled]
          /\ \E image \in (IF garbled THEN Garbled(cells[chip.page]) ELSE {cells[chip.page]}) :
                cache' = [cache EXCEPT ![plane_bit(chip.page)] = image]
    /\ UNCHANGED <<initialized, status, cells, trusted, calls>>

ChipPrograms ==
    /\ chip.op \in {"PROGRAM_EXECUTE", "ERASE_BLOCK"}
    /\ \E ok \in BOOLEAN :
          /\ ok => ~chip.protect
          /\ cells' \in (IF ok THEN {Completed} ELSE IF chip.protect THEN {cells} ELSE Aborts)
          /\ chip' = [chip EXCEPT !.op = "idle", !.wel = FALSE,
                 !.bits = @ \cup (IF ok THEN {} ELSE IF chip.op = "ERASE_BLOCK"
                                                   THEN {"ERASE_FAILED"} ELSE {"PROGRAM_FAILED"})]
          /\ call' = [call EXCEPT !.failed = ~ok]
    /\ UNCHANGED <<initialized, status, cache, trusted, calls>>

ChipResets ==
    /\ chip.op = "RESET"
    /\ chip' = [chip EXCEPT !.op = "idle"]
    /\ UNCHANGED <<initialized, status, call, cache, cells, trusted, calls>>

(***************************************************************************)
(* The driver, step by step                                                *)
(***************************************************************************)
Commands == {"RESET", "SET_PROTECT", "READ_CONFIG", "SET_CONFIG", "PAGE_READ", "WRITE_ENABLE",
             "PROGRAM_LOAD", "PROGRAM_LOAD_RANDOM", "PROGRAM_EXECUTE", "ERASE_BLOCK",
             "READ_FROM_CACHE"}

\* What comes back is put into the caller's buffer; a busy chip sends nothing.
Received ==
    IF step.cmd = "READ_FROM_CACHE"
    THEN [call EXCEPT !.buf[step.col] =
             IF chip.op = "idle" THEN cache[step.plane][step.col] ELSE Bits]
    ELSE call

\* spi_nand_transaction: it may give up before the command has gone out, or after.
spi_nand_transaction ==
    /\ Running(Commands)
    /\ \/ ChipTakes /\ Advance(Received)
       \/ ChipTakes /\ Return(call, SpiError)
       \/ UNCHANGED <<chip, cache, cells>> /\ Return(call, SpiError)
    /\ UNCHANGED <<initialized, status, calls>>

spi_nand_init ==
    /\ Running({"spi_nand_init"})
    /\ Advance(call) \/ Return(call, "PIN_INVALID")
    /\ UNCHANGED <<initialized, status, chip, cache, cells, calls>>

SetInitialized ==
    /\ Running({"set_initialized"})
    /\ initialized' = TRUE
    /\ Advance(call)
    /\ UNCHANGED <<status, chip, cache, cells, calls>>

\* attach reads back what it has set.
GetRegister ==
    /\ Running({"GET_PROTECT", "GET_CONFIG"})
    /\ \/ Return(call, "SPI_FAIL")
       \/ step.cmd = "GET_PROTECT" /\ chip.protect /\ Return(call, "PROTECTION")
       \/ step.cmd = "GET_PROTECT" /\ ~chip.protect /\ Advance(call)
       \/ step.cmd = "GET_CONFIG" /\ chip.config # {"BUF", "ECC_EN"} /\ Return(call, "SPI_FAIL")
       \/ step.cmd = "GET_CONFIG" /\ chip.config = {"BUF", "ECC_EN"} /\ Advance(call)
    /\ UNCHANGED <<initialized, status, chip, cache, cells, calls>>

\* The polls of nand_wait_ready: the chip is ready, a second has passed, or the bus fails.
WaitReturns(ret) ==
    \/ /\ chip.op = "idle" /\ status' = chip.bits
       /\ IF ret = "OK" THEN Advance(call) ELSE Return(call, ret)
    \/ chip.op # "idle" /\ status' = chip.bits \cup {"BUSY"} /\ Return(call, "TIMEOUT")
    \/ UNCHANGED status /\ Return(call, "SPI_FAIL")

nand_wait_ready ==
    /\ Running({"wait_ready"})
    /\ WaitReturns("OK")
    /\ UNCHANGED <<initialized, chip, cache, cells, calls>>

\* Mutant: the fail bits are not looked at.
wait_program_erase_NoBits ==
    /\ Running({"wait_program_erase"})
    /\ WaitReturns("OK")
    /\ UNCHANGED <<initialized, chip, cache, cells, calls>>

nand_wait_program_erase ==
    /\ Running({"wait_program_erase"})
    /\ WaitReturns(IF "ERASE_FAILED" \in chip.bits THEN "ERASE_FAILED"
                   ELSE IF "PROGRAM_FAILED" \in chip.bits THEN "PROGRAM_FAILED" ELSE "OK")
    /\ UNCHANGED <<initialized, chip, cache, cells, calls>>

nand_check_ecc_after_read ==
    /\ Running({"check_ecc"})
    /\ IF "ECC_UNCORR" \in status THEN Return(call, "ECC_UNCORRECTABLE") ELSE Advance(call)
    /\ UNCHANGED <<initialized, status, chip, cache, cells, calls>>

(***************************************************************************)
(* Specification                                                           *)
(***************************************************************************)
Calls ==
    \/ stub_target_nand_attach
    \/ read_bbm_Unaligned
    \/ \E page \in Pages :
          \/ stub_target_nand_read_bbm(page)
          \/ stub_target_nand_erase_block(page)
          \/ \E is_bad \in BOOLEAN : stub_target_nand_write_bbm(page, is_bad)
          \/ \E size \in 0 .. Chunks + 1 :
                \/ stub_target_nand_read_page(page, size)
                \/ \E data \in Data : stub_target_nand_write_page(page, data, size)

Driver == spi_nand_transaction \/ spi_nand_init \/ SetInitialized \/ GetRegister
          \/ nand_wait_ready \/ nand_wait_program_erase \/ nand_check_ecc_after_read
Chip == ChipReads \/ ChipPrograms \/ ChipResets

Next == Calls \/ Driver \/ Chip

Spec == Init /\ [][Next]_vars

(***************************************************************************)
(* Properties.  From an attach that returns 0 to the next bus error or     *)
(* timeout the client can rely on what the calls tell it, whatever earlier *)
(* calls have left behind in the chip: an operation under way, fail bits,  *)
(* a write enable, half a page in a cache.                                 *)
(***************************************************************************)
Returned(ops, ret) == trusted /\ call.op \in ops /\ call.ret = ret

\* When stub_target_nand_read_page returns 0 its buffer holds the bytes of the page: the
\* read had no uncorrectable error, and nothing came from the cache of another block.
\* The same is true of the marker stub_target_nand_read_bbm reads in an even block.
ReadRight ==
    /\ Returned({"read_page"}, "OK") =>
          \A c \in 1 .. call.len : ~call.garbled /\ call.buf[c] = cells[call.page][c]
    /\ Returned({"read_bbm"}, "OK") /\ plane_bit(call.page) = 0 =>
          call.buf[Spare] = cells[call.page][Spare]

\* stub_target_nand_write_bbm reads the page into its cache, does not look at the result
\* of the error correction, and programs the whole cache back.  Of a page that could not
\* be corrected it keeps nothing but the spare area.
Preserved == IF call.op = "write_bbm" /\ call.garbled THEN {Spare} ELSE Columns
Programmed(old, new) == \A c \in Preserved : new[c] = old[c] \cup call.image[c]

\* When write_page, write_bbm or erase_block returns 0, the page holds what it held
\* before and the new bytes, the spare area included, and the block is blank.  For a
\* write_bbm whose page could not be corrected that is said of the marker only.
OkIsDone ==
    /\ Returned({"write_page", "write_bbm"}, "OK") => Programmed(call.before, cells[call.page])
    /\ Returned({"erase_block"}, "OK") =>
           \A p \in Pages : Block(p) = Block(call.page) => cells[p] = Erased

\* A PROGRAM_FAILED or ERASE_FAILED is about an operation of the call that returns it,
\* not about one an earlier call has failed with: the bits stay set in the chip.
FailureIsOwn ==
    /\ Returned(Ops, "PROGRAM_FAILED") => call.op \in {"write_page", "write_bbm"} /\ call.failed
    /\ Returned(Ops, "ERASE_FAILED") => call.op = "erase_block" /\ call.failed

\* Whatever happens to a call, the chip changes nothing but what the call names: the
\* bytes of its page, the marker of its page, or its block.  Only a write_bbm whose page
\* could not be corrected changes more, the data area of that page.
Confined ==
    [][trusted => \A p \in Pages : cells'[p] # cells[p] =>
          \/ call.op = "erase_block" /\ Block(p) = Block(call.page) /\ cells'[p] = Erased
          \/ /\ call.op \in {"write_page", "write_bbm"} /\ p = call.page
             /\ Programmed(cells[p], cells'[p])]_vars

\* When stub_target_nand_read_bbm returns 0 the buffer holds the marker of the page it was
\* asked for.
BbmReadRight ==
    Returned({"read_bbm"}, "OK") => call.buf[Spare] = cells[call.page][Spare]
=============================================================================
