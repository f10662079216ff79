----------------------------- MODULE NandProofs -----------------------------
(***************************************************************************)
(* Proofs about Nand, for every geometry of the chip, every page contents, *)
(* every number of calls and every place at which the bus or the chip      *)
(* fails.                                                                  *)
(***************************************************************************)
EXTENDS Nand, TLAPS

(***************************************************************************)
(* The inductive invariant                                                 *)
(***************************************************************************)
Image == [Columns -> SUBSET Bits]
Planes == {0, 1}
ConfigBits == {"BUF", "ECC_EN"}
FailBits == {"ERASE_FAILED", "PROGRAM_FAILED"}
ChipOps == {"idle", "RESET", "PAGE_READ", "PROGRAM_EXECUTE", "ERASE_BLOCK"}
StepNames == Commands \cup {"spi_nand_init", "wait_ready", "set_initialized", "GET_PROTECT",
                            "GET_CONFIG", "check_ecc", "wait_program_erase"}
Steps == [cmd : StepNames, col : Columns, plane : Planes]
Rets == BusErrors \cup {"running", "OK", "NOT_INITIALIZED", "INVALID_ARG", "PIN_INVALID",
                       "PROTECTION", "ERASE_FAILED", "PROGRAM_FAILED", "ECC_UNCORRECTABLE"}

CallType == [op : Ops, page : Pages, image : Image, len : 0 .. Chunks, steps : Seq(Steps),
             ret : Rets, before : Image, buf : Image, failed : BOOLEAN, garbled : BOOLEAN]
ChipType == [op : ChipOps, page : Pages, wel : BOOLEAN, bits : SUBSET StatusBits,
             protect : BOOLEAN, config : SUBSET ConfigBits]

TypeOK ==
    /\ initialized \in BOOLEAN /\ status \subseteq StatusBits
    /\ call \in CallType /\ chip \in ChipType
    /\ cache \in [Planes -> Image] /\ cells \in [Pages -> Image]
    /\ trusted \in BOOLEAN /\ calls \in Nat

\* How many steps a call has, and the p-th of them
Total(c) == CASE c.op = "attach" -> 9
              [] c.op = "write_bbm" -> 6
              [] c.op \in {"read_page", "write_page"} -> c.len + 3
              [] OTHER -> 3

StepOf(c, p) ==
    CASE c.op = "attach" -> attach_steps[p]
      [] c.op = "read_bbm" -> read_bbm_steps(c.page)[p]
      [] c.op = "write_bbm" -> write_bbm_steps(c.page)[p]
      [] c.op = "erase_block" -> erase_block_steps[p]
      [] c.op = "read_page" ->
            IF p <= 3 THEN <<Do("PAGE_READ"), Do("wait_ready"), Do("check_ecc")>>[p]
            ELSE At("READ_FROM_CACHE", p - 3, plane_bit(c.page))
      [] OTHER ->
            IF p = 1 THEN Do("WRITE_ENABLE")
            ELSE IF p = c.len + 2 THEN Do("PROGRAM_EXECUTE")
            ELSE IF p = c.len + 3 THEN Do("wait_program_erase")
            ELSE At(IF p = 2 THEN "PROGRAM_LOAD" ELSE "PROGRAM_LOAD_RANDOM", p - 1,
                    plane_bit(c.page))

\* The place of the next step among them
Place(c) == Total(c) - Len(c.steps) + 1
Pos == Place(call)

\* The steps that are left are the last of those the call began with.
StepsInv ==
    call.ret = "running" =>
        /\ Len(call.steps) \in 1 .. Total(call)
        /\ \A i \in 1 .. Len(call.steps) :
               call.steps[i] = StepOf(call, Total(call) - Len(call.steps) + i)
        /\ call.op = "write_page" => call.len > 0
        /\ call.op \in {"write_page", "write_bbm"} =>
               \A c \in Columns : call.image[c] # {} => IF call.op = "write_bbm" THEN c = Spare
                                                                       ELSE c <= call.len

\* attach leaves an idle chip that is set up.
AttachInv ==
    call.ret = "running" /\ call.op = "attach" =>
        /\ ~trusted
        /\ Pos >= 4 => chip.op = "idle"
        /\ Pos >= 5 => initialized
        /\ Pos >= 7 => ~chip.protect

Idle == chip.op = "idle"
Plane == plane_bit(call.page)

\* The page is in its cache, or of a page that could not be corrected the spare area;
\* and the chip has told if it could correct it.
Loaded == /\ Idle /\ cache[Plane][Spare] = cells[call.page][Spare]
          /\ ~call.garbled => cache[Plane] = cells[call.page]
Told == call.garbled <=> "ECC_UNCORR" \in chip.bits
Fetching == chip.op = "PAGE_READ" /\ chip.page = call.page

ReadPageInv ==
    call.op = "read_page" =>
        /\ Pos = 1 => Idle
        /\ Pos = 2 => Fetching \/ (Loaded /\ Told)
        /\ Pos = 3 => Loaded /\ Told /\ status = chip.bits
        /\ Pos >= 4 => /\ Loaded /\ ~call.garbled
                       /\ \A c \in 1 .. Pos - 4 : call.buf[c] = cells[call.page][c]

ReadBbmInv ==
    call.op = "read_bbm" =>
        /\ Pos = 1 => Idle
        /\ Pos = 2 => Fetching \/ Loaded
        /\ Pos = 3 => Loaded

\* Programming what the cache holds programs what the call was given.
Prepared ==
    /\ cells[call.page] = call.before
    /\ Programmed(call.before, Program(call.before, cache[Plane]))

\* The program operation under way, or what has become of it
Programming ==
    \/ /\ chip.op = "PROGRAM_EXECUTE" /\ chip.page = call.page
       /\ Prepared /\ chip.bits \cap FailBits = {}
    \/ /\ Idle /\ chip.bits \cap FailBits = {}
       /\ Programmed(call.before, cells[call.page])
    \/ Idle /\ chip.bits \cap FailBits = {"PROGRAM_FAILED"} /\ call.failed

WriteBbmInv ==
    call.op = "write_bbm" =>
        /\ Pos = 1 => Idle
        /\ Pos = 2 => Fetching \/ Loaded
        /\ Pos \in {3, 4} => Loaded
        /\ Pos \in {4, 5} => Idle /\ chip.wel
        /\ Pos <= 4 => cells[call.page] = call.before
        /\ Pos = 5 => Prepared
        /\ Pos = 6 => Programming

WritePageInv ==
    call.op = "write_page" =>
        /\ Pos <= call.len + 2 => Idle /\ cells[call.page] = call.before
        /\ Pos \in 2 .. call.len + 2 => chip.wel
        /\ Pos \in 3 .. call.len + 2 =>
               \A c \in Columns : cache[Plane][c] = IF c <= Pos - 2 THEN call.image[c] ELSE {}
        /\ Pos = call.len + 3 => Programming

\* The erase under way, or what has become of it
Erasing ==
    \/ chip.op = "ERASE_BLOCK" /\ chip.page = call.page /\ chip.bits \cap FailBits = {}
    \/ /\ Idle /\ chip.bits \cap FailBits = {}
       /\ \A p \in Pages : Block(p) = Block(call.page) => cells[p] = Erased
    \/ Idle /\ chip.bits \cap FailBits = {"ERASE_FAILED"} /\ call.failed

EraseInv ==
    call.op = "erase_block" =>
        /\ Pos <= 2 => Idle
        /\ Pos = 2 => chip.wel
        /\ Pos = 3 => Erasing

\* Between an attach that returns 0 and a bus error
TrustedInv ==
    trusted =>
        /\ initialized /\ ~chip.protect /\ chip.config = ConfigBits
        /\ call.ret # "running" => Idle
        /\ call.ret = "running" =>
               ReadPageInv /\ ReadBbmInv /\ WriteBbmInv /\ WritePageInv /\ EraseInv

NandInv ==
    /\ TypeOK /\ StepsInv /\ AttachInv /\ TrustedInv
    /\ ReadRight /\ OkIsDone /\ FailureIsOwn

(***************************************************************************)
(* Facts about the geometry and the images of pages                        *)
(***************************************************************************)
\* Pages and planes
LEMMA PageFacts ==
    /\ 0 \in Pages
    /\ \A page \in Pages : plane_bit(page) \in Planes
    /\ \A page \in Pages : (page + 1) % (Blocks * pages_per_block) \in Pages
  <1>1. PICK n \in Nat \ {0} : n = Blocks * pages_per_block
    BY NandAssumption
  <1>2. Pages = 0 .. n - 1
    BY <1>1 DEF Pages
  <1>3. \A page \in Pages : page \div pages_per_block \in Int
    BY <1>2, NandAssumption
  <1>4. \A page \in Pages : plane_bit(page) \in Planes
    BY <1>3 DEF plane_bit, Block, Planes
  <1>5. \A page \in Pages : (page + 1) % n \in 0 .. n - 1
    BY <1>1, <1>2
  <1> QED BY <1>1, <1>2, <1>4, <1>5

\* The columns of a page: its pieces, and the spare area after them
LEMMA ColumnFacts ==
    /\ 1 \in Columns /\ Spare \in Columns /\ 1 .. Chunks \subseteq Columns
    /\ Spare \notin 1 .. Chunks /\ Chunks \in Nat
  BY NandAssumption DEF Columns, Spare

\* Images of pages
LEMMA ImageFacts ==
    /\ Erased \in Image /\ Zeros \in Image
    /\ \A a, b \in Image : Program(a, b) \in Image
  BY DEF Image, Erased, Zeros, Program

\* A column whose cache holds the new bytes, or the old ones where there are none, is
\* programmed with the new bytes.
LEMMA ProgramFacts ==
    ASSUME TypeOK, NEW image \in Image,
           \A i \in Preserved : \/ image[i] = call.image[i]
                                \/ image[i] = call.before[i] /\ call.image[i] = {}
    PROVE  Programmed(call.before, Program(call.before, image))
  <1>1. Preserved \subseteq Columns
    BY ColumnFacts DEF Preserved
  <1>2. SUFFICES ASSUME NEW i \in Preserved
                 PROVE  Program(call.before, image)[i] = call.before[i] \cup call.image[i]
    BY DEF Programmed
  <1>3. Program(call.before, image)[i] = call.before[i] \cup image[i]
    BY <1>1 DEF Program
  <1>4. CASE image[i] = call.image[i]
    BY <1>3, <1>4
  <1>5. CASE image[i] = call.before[i] /\ call.image[i] = {}
    BY <1>3, <1>5
  <1> QED BY <1>4, <1>5

(***************************************************************************)
(* The scripts of the calls                                                *)
(***************************************************************************)
\* Every step a call is made of
LEMMA DoFacts ==
    /\ \A cmd \in StepNames : Do(cmd) \in Steps
    /\ \A cmd \in StepNames, col \in Columns, plane \in Planes : At(cmd, col, plane) \in Steps
  BY ColumnFacts DEF Do, At, Steps, Planes

\* The call begins with all of its steps.
Scripted(c, steps) ==
    /\ steps \in Seq(Steps) /\ Len(steps) = Total(c)
    /\ \A i \in 1 .. Total(c) : steps[i] = StepOf(c, i)

\* The script of attach
LEMMA AttachScript == ASSUME NEW c, c.op = "attach" PROVE Scripted(c, attach_steps)
  BY DoFacts DEF Scripted, attach_steps, Total, StepOf, StepNames, Commands

\* The script of read_bbm
LEMMA ReadBbmScript ==
    ASSUME NEW c, c.op = "read_bbm", c.page \in Pages
    PROVE  Scripted(c, read_bbm_steps(c.page))
  BY DoFacts, ColumnFacts DEF Scripted, read_bbm_steps, Total, StepOf, StepNames, Commands, Planes

\* The script of write_bbm
LEMMA WriteBbmScript ==
    ASSUME NEW c, c.op = "write_bbm", c.page \in Pages
    PROVE  Scripted(c, write_bbm_steps(c.page))
  BY DoFacts, ColumnFacts, PageFacts
     DEF Scripted, write_bbm_steps, Total, StepOf, StepNames, Commands

\* The script of erase_block
LEMMA EraseScript ==
    ASSUME NEW c, c.op = "erase_block"
    PROVE  Scripted(c, erase_block_steps)
  BY DoFacts DEF Scripted, erase_block_steps, Total, StepOf, StepNames, Commands

\* The script of read_page, piece by piece
LEMMA ReadPageScript ==
    ASSUME NEW c, c.op = "read_page", c.page \in Pages, c.len \in 0 .. Chunks
    PROVE  Scripted(c, read_page_steps(c.page, c.len))
  <1> DEFINE head == <<Do("PAGE_READ"), Do("wait_ready"), Do("check_ecc")>>
             rest == [i \in 1 .. c.len |-> At("READ_FROM_CACHE", i, plane_bit(c.page))]
  <1>1. head \in Seq(Steps) /\ Len(head) = 3
    BY DoFacts DEF StepNames, Commands
  <1>2. rest \in Seq(Steps) /\ Len(rest) = c.len
    <2>1. \A i \in 1 .. c.len : At("READ_FROM_CACHE", i, plane_bit(c.page)) \in Steps
      BY DoFacts, ColumnFacts, PageFacts DEF StepNames, Commands
    <2> QED BY <2>1, ColumnFacts
  <1>3. read_page_steps(c.page, c.len) = head \o rest
    BY DEF read_page_steps
  <1>4. Total(c) = c.len + 3 /\ c.len \in Nat
    BY ColumnFacts DEF Total
  <1>5. \A i \in 1 .. c.len + 3 : (head \o rest)[i] = IF i <= 3 THEN head[i] ELSE rest[i - 3]
    BY <1>1, <1>2, <1>4
  <1>6. \A i \in 1 .. c.len + 3 : (head \o rest)[i] = StepOf(c, i)
    BY <1>5, <1>4 DEF StepOf
  <1>7. head \o rest \in Seq(Steps) /\ Len(head \o rest) = c.len + 3
    BY <1>1, <1>2, <1>4
  <1> QED BY <1>3, <1>4, <1>6, <1>7 DEF Scripted

\* The script of write_page, piece by piece
LEMMA WritePageScript ==
    ASSUME NEW c, c.op = "write_page", c.page \in Pages, c.len \in 1 .. Chunks
    PROVE  Scripted(c, write_page_steps(c.page, c.len))
  <1> DEFINE head == <<Do("WRITE_ENABLE")>>
             load(i) == At(IF i = 1 THEN "PROGRAM_LOAD" ELSE "PROGRAM_LOAD_RANDOM", i,
                           plane_bit(c.page))
             rest == [i \in 1 .. c.len |-> load(i)]
             last == <<Do("PROGRAM_EXECUTE"), Do("wait_program_erase")>>
  <1>1. head \in Seq(Steps) /\ Len(head) = 1 /\ last \in Seq(Steps) /\ Len(last) = 2
    BY DoFacts DEF StepNames, Commands
  <1>2. rest \in Seq(Steps) /\ Len(rest) = c.len
    <2>1. \A i \in 1 .. c.len : load(i) \in Steps
      BY DoFacts, ColumnFacts, PageFacts DEF StepNames, Commands
    <2> QED BY <2>1, ColumnFacts
  <1>3. write_page_steps(c.page, c.len) = (head \o rest) \o last
    BY DEF write_page_steps
  <1>4. Total(c) = c.len + 3 /\ c.len \in Nat \ {0}
    BY ColumnFacts DEF Total
  <1>5. /\ head \o rest \in Seq(Steps) /\ Len(head \o rest) = c.len + 1
        /\ \A i \in 1 .. c.len + 1 : (head \o rest)[i] = IF i = 1 THEN head[1] ELSE rest[i - 1]
    BY <1>1, <1>2, <1>4
  <1>6. /\ (head \o rest) \o last \in Seq(Steps) /\ Len((head \o rest) \o last) = c.len + 3
        /\ \A i \in 1 .. c.len + 3 :
              ((head \o rest) \o last)[i] = IF i <= c.len + 1 THEN (head \o rest)[i]
                                            ELSE last[i - (c.len + 1)]
    BY <1>1, <1>4, <1>5
  <1>7. ASSUME NEW i \in 1 .. c.len + 3
        PROVE  ((head \o rest) \o last)[i] = StepOf(c, i)
    <2>1. CASE i = 1
      <3>1. ((head \o rest) \o last)[i] = head[1]
        BY <1>4, <1>5, <1>6, <2>1
      <3> QED BY <2>1, <3>1, <1>4 DEF StepOf
    <2>2. CASE i \in 2 .. c.len + 1
      <3>1. ((head \o rest) \o last)[i] = rest[i - 1]
        BY <1>4, <1>5, <1>6, <2>2
      <3>2. rest[i - 1] = load(i - 1) /\ (i - 1 = 1 <=> i = 2)
        BY <1>4, <2>2
      <3> QED BY <2>2, <3>1, <3>2, <1>4 DEF StepOf
    <2>3. CASE i \in {c.len + 2, c.len + 3}
      <3>1. ((head \o rest) \o last)[i] = last[i - (c.len + 1)]
        BY <1>4, <1>6, <2>3
      <3>2. i # 1 /\ (i = c.len + 2 => i - (c.len + 1) = 1 /\ i # c.len + 3)
                  /\ (i = c.len + 3 => i - (c.len + 1) = 2 /\ i # c.len + 2)
        BY <1>4, <2>3
      <3>3. StepOf(c, i) = IF i = c.len + 2 THEN Do("PROGRAM_EXECUTE")
                           ELSE Do("wait_program_erase")
        BY <2>3, <3>2 DEF StepOf
      <3>4. last[1] = Do("PROGRAM_EXECUTE") /\ last[2] = Do("wait_program_erase")
        OBVIOUS
      <3> HIDE DEF last, head, rest
      <3>5. CASE i = c.len + 2
        BY <3>1, <3>2, <3>3, <3>4, <3>5
      <3>6. CASE i = c.len + 3
        BY <3>1, <3>2, <3>3, <3>4, <3>6
      <3> QED BY <2>3, <3>5, <3>6
    <2> QED BY <1>4, <1>7, <2>1, <2>2, <2>3
  <1> QED BY <1>3, <1>4, <1>6, <1>7 DEF Scripted

(***************************************************************************)
(* How a call goes on                                                      *)
(***************************************************************************)
\* A call that is running has a next step, the one its script names.
LEMMA StepFacts ==
    ASSUME TypeOK, StepsInv, call.ret = "running"
    PROVE  /\ Pos \in 1 .. Total(call) /\ Total(call) \in Nat
           /\ step = StepOf(call, Pos) /\ step \in Steps
  <1>1. call.steps \in Seq(Steps) /\ call.len \in 0 .. Chunks /\ Chunks \in Nat
    BY NandAssumption DEF TypeOK, CallType
  <1>2. Total(call) \in Nat
    BY <1>1 DEF Total
  <1>3. /\ Len(call.steps) \in 1 .. Total(call)
        /\ call.steps[1] = StepOf(call, Total(call) - Len(call.steps) + 1)
    BY <1>1, <1>2 DEF StepsInv
  <1>4. step = call.steps[1] /\ step \in Steps
    BY <1>1, <1>2, <1>3 DEF step
  <1> QED BY <1>2, <1>3, <1>4 DEF Pos, Place

\* A call that returns
LEMMA ReturnFacts ==
    ASSUME TypeOK, NEW c \in CallType, NEW ret \in Rets, Return(c, ret)
    PROVE  /\ call' \in CallType /\ call'.ret = ret
           /\ call'.op = c.op /\ call'.page = c.page /\ call'.image = c.image
           /\ call'.len = c.len /\ call'.before = c.before /\ call'.buf = c.buf
           /\ call'.failed = c.failed /\ call'.garbled = c.garbled
           /\ trusted' \in BOOLEAN
           /\ c.op = "attach" => trusted' = (ret = "OK")
           /\ c.op # "attach" => trusted' = (trusted /\ ret \notin BusErrors)
  <1>1. <<>> \in Seq(Steps)
    OBVIOUS
  <1>2. /\ call' \in CallType /\ call'.ret = ret
        /\ call'.op = c.op /\ call'.page = c.page /\ call'.image = c.image
        /\ call'.len = c.len /\ call'.before = c.before /\ call'.buf = c.buf
        /\ call'.failed = c.failed /\ call'.garbled = c.garbled
    BY <1>1 DEF Return, CallType
  <1>3. /\ c.op = "attach" => trusted' = (ret = "OK")
        /\ c.op # "attach" => trusted' = (trusted /\ ret \notin BusErrors)
    BY DEF Return
  <1>4. trusted' \in BOOLEAN
    <2>1. trusted' = (ret = "OK") \/ trusted' = (trusted /\ ret \notin BusErrors)
      BY <1>3
    <2> QED BY <2>1, Zenon
  <1> QED BY <1>2, <1>3, <1>4

\* A call that has done a step and has another one, and one that has done its last
LEMMA AdvanceFacts ==
    ASSUME TypeOK, StepsInv, call.ret = "running", NEW c \in CallType,
           c.op = call.op, c.page = call.page, c.image = call.image, c.len = call.len,
           c.steps = call.steps, c.ret = "running", Advance(c)
    PROVE  /\ call' \in CallType
           /\ call'.op = call.op /\ call'.page = call.page /\ call'.image = call.image
           /\ call'.len = call.len /\ call'.before = c.before /\ call'.buf = c.buf
           /\ call'.failed = c.failed /\ call'.garbled = c.garbled
           /\ StepsInv' /\ trusted' \in BOOLEAN
           /\ Pos = Total(call) =>
                 /\ call'.ret = "OK"
                 /\ call.op = "attach" => trusted'
                 /\ call.op # "attach" => trusted' = trusted
           /\ Pos # Total(call) =>
                 call'.ret = "running" /\ Pos' = Pos + 1 /\ trusted' = trusted
  <1>1. call.steps \in Seq(Steps) /\ call.len \in 0 .. Chunks /\ Chunks \in Nat
    BY NandAssumption DEF TypeOK, CallType
  <1>2. Total(call) \in Nat
    BY <1>1 DEF Total
  <1>3. Len(call.steps) \in 1 .. Total(call)
    BY DEF StepsInv
  <1>4. CASE Len(call.steps) = 1
    <2>1. Return(c, "OK") /\ "OK" \in Rets
      BY <1>4 DEF Advance, Rets
    <2>2. Pos = Total(call)
      BY <1>2, <1>4 DEF Pos, Place
    <2>3. /\ call' \in CallType /\ call'.ret = "OK"
          /\ call'.op = call.op /\ call'.page = call.page /\ call'.image = call.image
          /\ call'.len = call.len /\ call'.before = c.before /\ call'.buf = c.buf
          /\ call'.failed = c.failed /\ call'.garbled = c.garbled
          /\ trusted' \in BOOLEAN
          /\ call.op = "attach" => trusted'
          /\ call.op # "attach" => trusted' = (trusted /\ "OK" \notin BusErrors)
      BY <2>1, ReturnFacts
    <2>4. call.op # "attach" => trusted' = trusted
      BY <2>3 DEF BusErrors, TypeOK
    <2>5. StepsInv'
      BY <2>3 DEF StepsInv
    <2> QED BY <2>2, <2>3, <2>4, <2>5
  <1>5. CASE Len(call.steps) # 1
    <2>1. call' = [c EXCEPT !.steps = Tail(call.steps)] /\ trusted' = trusted
      BY <1>5 DEF Advance
    <2>2. /\ Tail(call.steps) \in Seq(Steps) /\ Len(Tail(call.steps)) = Len(call.steps) - 1
          /\ \A i \in 1 .. Len(call.steps) - 1 : Tail(call.steps)[i] = call.steps[i + 1]
      BY <1>1, <1>2, <1>3
    <2>3. /\ call' \in CallType /\ call'.ret = "running" /\ call'.steps = Tail(call.steps)
          /\ call'.op = call.op /\ call'.page = call.page /\ call'.image = call.image
          /\ call'.len = call.len /\ call'.before = c.before /\ call'.buf = c.buf
          /\ call'.failed = c.failed /\ call'.garbled = c.garbled
      BY <2>1, <2>2 DEF CallType
    <2>4. Total(call') = Total(call)
      BY <2>3 DEF Total
    <2>5. \A p : StepOf(call', p) = StepOf(call, p)
      BY <2>3 DEF StepOf
    <2>n. PICK n \in Nat, t \in Nat : n = Len(call.steps) /\ t = Total(call)
      BY <1>2, <1>3
    <2>m. Len(call'.steps) = n - 1 /\ Total(call') = t /\ n \in 2 .. t
      <3>1. n \in 1 .. t /\ n # 1
        BY <1>3, <1>5, <2>n
      <3>2. Len(Tail(call.steps)) = n - 1 /\ call'.steps = Tail(call.steps)
        BY <2>2, <2>3, <2>n
      <3>3. n \in 2 .. t
        BY <3>1
      <3>4. Len(call'.steps) = n - 1
        BY <3>2
      <3>5. Total(call') = t
        BY <2>4, <2>n
      <3> QED BY <3>3, <3>4, <3>5
    <2>6. Pos' = Pos + 1 /\ Pos # Total(call)
      <3>1. Pos = t - n + 1 /\ Pos' = t - (n - 1) + 1
        BY <2>n, <2>m DEF Pos, Place
      <3> QED BY <2>n, <2>m, <3>1
    <2>7. StepsInv'
      <3>1. Len(call'.steps) \in 1 .. Total(call')
        BY <2>m
      <3>2. ASSUME NEW i \in 1 .. Len(call'.steps)
            PROVE  call'.steps[i] = StepOf(call', Total(call') - Len(call'.steps) + i)
        <4>1. i + 1 \in 1 .. Len(call.steps) /\ i \in Int
          BY <1>1, <1>2, <1>3, <1>5, <2>2, <2>3
        <4>2. call.steps[i + 1] = StepOf(call, Total(call) - Len(call.steps) + (i + 1))
          BY <4>1 DEF StepsInv
        <4>3. Total(call) - Len(call.steps) + (i + 1) = Total(call') - Len(call'.steps) + i
          BY <1>1, <1>2, <1>3, <2>2, <2>3, <2>4, <4>1
        <4>4. call'.steps[i] = call.steps[i + 1]
          BY <2>2, <2>3, <3>2
        <4> QED BY <2>5, <4>2, <4>3, <4>4
      <3>3. /\ call'.op = "write_page" => call'.len > 0
            /\ call'.op \in {"write_page", "write_bbm"} =>
                  \A k \in Columns :
                     call'.image[k] # {} => IF call'.op = "write_bbm" THEN k = Spare
                                                                     ELSE k <= call'.len
        BY <2>3 DEF StepsInv
      <3> QED BY <3>1, <3>2, <3>3 DEF StepsInv
    <2>8. trusted' \in BOOLEAN
      BY <2>1 DEF TypeOK
    <2> QED BY <2>1, <2>3, <2>6, <2>7, <2>8
  <1> QED BY <1>4, <1>5

(***************************************************************************)
(* A call begins                                                           *)
(***************************************************************************)
\* What every call begins with
LEMMA BeginFacts ==
    ASSUME TypeOK, NEW op \in Ops, NEW page \in Pages, NEW image \in Image,
           NEW len \in 0 .. Chunks, NEW steps \in Seq(Steps), Begin(op, page, image, len, steps)
    PROVE  /\ call.ret # "running" /\ calls' \in Nat /\ UNCHANGED <<chip, cache, cells>>
           /\ call' \in CallType /\ call'.op = op /\ call'.page = page /\ call'.image = image
           /\ call'.len = len /\ call'.before = cells[page]
           /\ ~initialized /\ op # "attach" => call'.ret = "NOT_INITIALIZED"
           /\ (initialized \/ op = "attach") /\ steps = <<>> => call'.ret = "OK"
           /\ (initialized \/ op = "attach") /\ steps # <<>> =>
                 call'.ret = "running" /\ call'.steps = steps
  <1> DEFINE left == IF initialized \/ op = "attach" THEN steps ELSE <<>>
             ret == IF ~initialized /\ op # "attach" THEN "NOT_INITIALIZED"
                    ELSE IF steps = <<>> THEN "OK" ELSE "running"
  <1>1. left \in Seq(Steps) /\ ret \in Rets /\ cells[page] \in Image
    BY DEF Rets, TypeOK
  <1>2. call' = [op |-> op, page |-> page, image |-> image, len |-> len, steps |-> left,
                 ret |-> ret, before |-> cells[page], buf |-> Erased, failed |-> FALSE,
                 garbled |-> FALSE]
    BY DEF Begin, NewCall
  <1>3. call' \in CallType
    BY <1>1, <1>2, ImageFacts DEF CallType
  <1>4. call.ret # "running" /\ calls' \in Nat /\ UNCHANGED <<chip, cache, cells>>
    BY DEF Begin, MayCall, TypeOK
  <1> QED BY <1>2, <1>3, <1>4

\* A call other than attach that begins, and one that has nothing to do
LEMMA BeginStep ==
    ASSUME NandInv, NEW op \in Ops \ {"attach"}, NEW page \in Pages, NEW image \in Image,
           NEW len \in 0 .. Chunks, NEW steps \in Seq(Steps), Begin(op, page, image, len, steps),
           UNCHANGED <<initialized, status, trusted>>,
           steps = <<>> => op = "write_page" /\ image = Erased,
           steps # <<>> => Scripted(call', steps),
           op = "write_page" /\ steps # <<>> =>
               len > 0 /\ \A c \in Columns : image[c] # {} => c <= len,
           op = "write_bbm" => \A c \in Columns : image[c] # {} => c = Spare
    PROVE  NandInv'
  <1>1. TypeOK /\ TrustedInv
    BY DEF NandInv
  <1>2. /\ call.ret # "running" /\ calls' \in Nat /\ UNCHANGED <<chip, cache, cells>>
        /\ call' \in CallType /\ call'.op = op /\ call'.page = page /\ call'.image = image
        /\ call'.len = len /\ call'.before = cells[page]
        /\ ~initialized => call'.ret = "NOT_INITIALIZED"
        /\ initialized /\ steps = <<>> => call'.ret = "OK"
        /\ initialized /\ steps # <<>> => call'.ret = "running" /\ call'.steps = steps
    BY <1>1, BeginFacts
  <1>3. TypeOK'
    BY <1>1, <1>2 DEF TypeOK
  <1>4. AttachInv'
    BY <1>2 DEF AttachInv
  <1>5. CASE call'.ret = "running"
    <2>1. call'.steps = steps /\ Scripted(call', steps) /\ steps # <<>>
      BY <1>2, <1>5
    <2>2. PICK t \in Nat : t = Total(call') /\ t = Len(steps)
      BY <2>1 DEF Scripted
    <2>3. t \in 1 .. t
      BY <2>1, <2>2
    <2>4. StepsInv'
      <3>1. \A i \in 1 .. t : call'.steps[i] = StepOf(call', t - t + i)
        BY <2>1, <2>2 DEF Scripted
      <3>2. call'.op \in {"write_page", "write_bbm"} =>
                \A c \in Columns : call'.image[c] # {} => IF call'.op = "write_bbm" THEN c = Spare
                                                          ELSE c <= call'.len
        BY <1>2, <2>1
      <3>3. call'.op = "write_page" => call'.len > 0
        BY <1>2, <2>1
      <3> QED BY <2>1, <2>2, <2>3, <3>1, <3>2, <3>3 DEF StepsInv
    <2>5. Pos' = 1
      BY <2>1, <2>2 DEF Pos, Place
    <2>6. TrustedInv'
      <3>1. CASE trusted
        <4>1. Idle' /\ initialized' /\ ~chip'.protect /\ chip'.config = ConfigBits
          BY <1>1, <1>2, <3>1 DEF TrustedInv, Idle
        <4>2. cells'[call'.page] = call'.before
          BY <1>2
        <4>3. call'.len \in Nat
          BY <1>2, ColumnFacts
        <4>4. (ReadPageInv /\ ReadBbmInv /\ WriteBbmInv /\ WritePageInv /\ EraseInv)'
          BY <2>5, <4>1, <4>2, <4>3 DEF ReadPageInv, ReadBbmInv, WriteBbmInv, WritePageInv,
                                        EraseInv
        <4> QED BY <1>5, <4>1, <4>4 DEF TrustedInv
      <3>2. CASE ~trusted
        BY <3>2 DEF TrustedInv
      <3> QED BY <3>1, <3>2
    <2>7. (ReadRight /\ OkIsDone /\ FailureIsOwn)'
      BY <1>5 DEF ReadRight, OkIsDone, FailureIsOwn, Returned
    <2> QED BY <1>3, <1>4, <2>4, <2>6, <2>7 DEF NandInv
  <1>6. CASE call'.ret # "running"
    <2>1. StepsInv'
      BY <1>6 DEF StepsInv
    <2>2. TrustedInv'
      BY <1>1, <1>2, <1>6 DEF TrustedInv, Idle
    <2>3. call'.ret = "OK" => op = "write_page" /\ image = Erased
      BY <1>2, <1>6
    <2>4. call'.ret = "OK" => Programmed(call.before, cells[call.page])'
      <3>1. Preserved' \subseteq Columns
        BY ColumnFacts DEF Preserved
      <3>2. call'.ret = "OK" => \A c \in Columns : call'.image[c] = {}
        BY <1>2, <2>3 DEF Erased
      <3> QED BY <1>2, <3>1, <3>2 DEF Programmed
    <2>5. OkIsDone'
      BY <1>2, <2>3, <2>4 DEF OkIsDone, Returned
    <2>6. (ReadRight /\ FailureIsOwn)'
      BY <1>2, <1>6, <2>3 DEF ReadRight, FailureIsOwn, Returned
    <2> QED BY <1>3, <1>4, <2>1, <2>2, <2>5, <2>6 DEF NandInv
  <1> QED BY <1>5, <1>6

\* attach begins: nothing is relied upon until it returns 0.
LEMMA AttachBegins == ASSUME NandInv, stub_target_nand_attach PROVE NandInv'
  <1> DEFINE s == attach_steps
  <1>1. Scripted(call', s) /\ call'.op = "attach"
    <2>1. call'.op = "attach"
      BY DEF stub_target_nand_attach, Begin, NewCall
    <2> QED BY <2>1, AttachScript
  <1>2. s \in Seq(Steps) /\ Total(call') = 9 /\ Len(s) = 9 /\ s # <<>>
    <2>1. Total(call') = 9
      BY <1>1 DEF Total
    <2> HIDE DEF s
    <2>2. s \in Seq(Steps) /\ Len(s) = 9
      BY <1>1, <2>1 DEF Scripted
    <2> QED BY <2>1, <2>2
  <1>3. "attach" \in Ops /\ 0 \in 0 .. Chunks /\ TypeOK
    BY NandAssumption DEF Ops, NandInv
  <1> HIDE DEF s
  <1>4. Begin("attach", 0, Erased, 0, s) /\ initialized' = FALSE /\ status' = StatusBits
    BY DEF stub_target_nand_attach, s
  <1>5. /\ calls' \in Nat /\ UNCHANGED <<chip, cache, cells>>
        /\ call' \in CallType /\ call'.ret = "running" /\ call'.steps = s
    BY <1>2, <1>3, <1>4, BeginFacts, PageFacts, ImageFacts
  <1>6. ~trusted' /\ trusted' \in BOOLEAN /\ initialized' \in BOOLEAN
    BY Zenon DEF stub_target_nand_attach
  <1>7. TypeOK'
    BY <1>3, <1>4, <1>5, <1>6 DEF TypeOK
  <1>8. StepsInv'
    <2>1. \A i \in 1 .. 9 : call'.steps[i] = StepOf(call', 9 - 9 + i)
      BY <1>1, <1>2, <1>5 DEF Scripted
    <2>2. Len(call'.steps) = 9 /\ Total(call') = 9
      BY <1>2, <1>5
    <2> QED BY <1>1, <2>1, <2>2 DEF StepsInv
  <1>9. Pos' = 1
    <2>1. Len(call'.steps) = 9 /\ Total(call') = 9
      BY <1>2, <1>5
    <2> QED BY <2>1 DEF Pos, Place
  <1>10. AttachInv'
    BY <1>6, <1>9 DEF AttachInv
  <1>11. (TrustedInv /\ ReadRight /\ OkIsDone /\ FailureIsOwn)'
    BY <1>6 DEF TrustedInv, ReadRight, OkIsDone, FailureIsOwn, Returned
  <1> QED BY <1>7, <1>8, <1>10, <1>11 DEF NandInv

\* A call with a wrong pointer returns at once.
LEMMA UnalignedStep == ASSUME NandInv, read_bbm_Unaligned PROVE NandInv'
  <1>1. TypeOK /\ TrustedInv
    BY DEF NandInv
  <1>2. call.ret # "running" /\ calls' \in Nat
    BY <1>1 DEF read_bbm_Unaligned, MayCall, TypeOK
  <1>3. UNCHANGED <<initialized, status, chip, cache, cells, trusted>>
    BY DEF read_bbm_Unaligned
  <1>4. call' = [op |-> "read_bbm", page |-> 0, image |-> Erased, len |-> 0, steps |-> <<>>,
                 ret |-> "INVALID_ARG", before |-> cells[0], buf |-> Erased, failed |-> FALSE,
                 garbled |-> FALSE]
    BY DEF read_bbm_Unaligned, NewCall
  <1>5. call' \in CallType
    <2>1. "read_bbm" \in Ops /\ "INVALID_ARG" \in Rets /\ 0 \in 0 .. Chunks
      BY NandAssumption DEF Ops, Rets
    <2>2. <<>> \in Seq(Steps) /\ cells[0] \in Image
      BY <1>1, PageFacts DEF TypeOK
    <2> QED BY <1>4, <2>1, <2>2, PageFacts, ImageFacts DEF CallType
  <1>6. TypeOK'
    BY <1>1, <1>2, <1>3, <1>5 DEF TypeOK
  <1>7. call'.ret = "INVALID_ARG"
    BY <1>4
  <1>8. TrustedInv'
    BY <1>1, <1>2, <1>3, <1>7 DEF TrustedInv, Idle
  <1>9. (StepsInv /\ AttachInv /\ ReadRight /\ OkIsDone /\ FailureIsOwn)'
    BY <1>7 DEF StepsInv, AttachInv, ReadRight, OkIsDone, FailureIsOwn, Returned
  <1> QED BY <1>6, <1>8, <1>9 DEF NandInv

\* Every call begins in the invariant.
LEMMA CallsStep == ASSUME NandInv, Calls PROVE NandInv'
  <1>1. 0 \in 0 .. Chunks /\ Erased \in Image /\ TypeOK
    BY NandAssumption, ImageFacts DEF NandInv
  <1>2. ASSUME NEW page \in Pages, stub_target_nand_read_bbm(page) PROVE NandInv'
    <2> DEFINE s == read_bbm_steps(page)
    <2>1. call'.op = "read_bbm" /\ call'.page = page
      BY <1>2 DEF stub_target_nand_read_bbm, Begin, NewCall
    <2>2. Scripted(call', s) /\ s \in Seq(Steps) /\ s # <<>>
      <3>1. Scripted(call', s)
        BY <2>1, ReadBbmScript
      <3> QED BY <3>1 DEF Scripted, read_bbm_steps
    <2> HIDE DEF s
    <2>3. Begin("read_bbm", page, Erased, 0, s) /\ UNCHANGED <<initialized, status, trusted>>
      BY <1>2 DEF stub_target_nand_read_bbm, s
    <2> QED BY <1>1, <2>2, <2>3, BeginStep DEF Ops
  <1>3. ASSUME NEW page \in Pages, stub_target_nand_erase_block(page) PROVE NandInv'
    <2> DEFINE s == erase_block_steps
    <2>1. call'.op = "erase_block"
      BY <1>3 DEF stub_target_nand_erase_block, Begin, NewCall
    <2>2. Scripted(call', s) /\ s \in Seq(Steps) /\ s # <<>>
      <3>1. Scripted(call', s)
        BY <2>1, EraseScript
      <3> QED BY <3>1 DEF Scripted, erase_block_steps
    <2> HIDE DEF s
    <2>3. Begin("erase_block", page, Erased, 0, s) /\ UNCHANGED <<initialized, status, trusted>>
      BY <1>3 DEF stub_target_nand_erase_block, s
    <2> QED BY <1>1, <2>2, <2>3, BeginStep DEF Ops
  <1>4. ASSUME NEW page \in Pages, NEW is_bad \in BOOLEAN,
               stub_target_nand_write_bbm(page, is_bad)
        PROVE  NandInv'
    <2> DEFINE s == write_bbm_steps(page)
               mark == [Erased EXCEPT ![Spare] = IF is_bad THEN Bits ELSE {}]
    <2>1. call'.op = "write_bbm" /\ call'.page = page
      BY <1>4 DEF stub_target_nand_write_bbm, Begin, NewCall
    <2>2. Scripted(call', s) /\ s \in Seq(Steps) /\ s # <<>>
      <3>1. Scripted(call', s)
        BY <2>1, WriteBbmScript
      <3> QED BY <3>1 DEF Scripted, write_bbm_steps
    <2>3. mark \in Image /\ \A c \in Columns : mark[c] # {} => c = Spare
      BY DEF Erased, Image
    <2> HIDE DEF s, mark
    <2>4. Begin("write_bbm", page, mark, 0, s) /\ UNCHANGED <<initialized, status, trusted>>
      BY <1>4 DEF stub_target_nand_write_bbm, s, mark
    <2> QED BY <1>1, <2>2, <2>3, <2>4, BeginStep DEF Ops
  <1>5. ASSUME NEW page \in Pages, NEW size \in 0 .. Chunks + 1,
               stub_target_nand_read_page(page, size)
        PROVE  NandInv'
    <2> DEFINE len == IF size > Chunks THEN Chunks ELSE size
               s == read_page_steps(page, len)
    <2>1. len \in 0 .. Chunks
      BY NandAssumption
    <2>2. call'.op = "read_page" /\ call'.page = page /\ call'.len = len
      BY <1>5 DEF stub_target_nand_read_page, Begin, NewCall
    <2> HIDE DEF len
    <2>3. Scripted(call', s) /\ s \in Seq(Steps) /\ s # <<>>
      <3>1. Scripted(call', s)
        BY <2>1, <2>2, ReadPageScript
      <3>2. Total(call') # 0
        BY <2>1, <2>2, NandAssumption DEF Total
      <3> QED BY <3>1, <3>2 DEF Scripted
    <2> HIDE DEF s
    <2>4. Begin("read_page", page, Erased, len, s) /\ UNCHANGED <<initialized, status, trusted>>
      BY <1>5 DEF stub_target_nand_read_page, s, len
    <2> QED BY <1>1, <2>1, <2>3, <2>4, BeginStep DEF Ops
  <1>6. ASSUME NEW page \in Pages, NEW data \in Data, NEW size \in 0 .. Chunks + 1,
               stub_target_nand_write_page(page, data, size)
        PROVE  NandInv'
    <2> DEFINE len == IF size < Chunks THEN size ELSE Chunks
               image == [c \in Columns |-> IF c <= len THEN data[c] ELSE {}]
               s == IF len = 0 THEN <<>> ELSE write_page_steps(page, len)
    <2>1. len \in 0 .. Chunks
      BY NandAssumption
    <2>2. call'.op = "write_page" /\ call'.page = page /\ call'.len = len
      BY <1>6 DEF stub_target_nand_write_page, Begin, NewCall
    <2>3. Begin("write_page", page, image, len, s) /\ UNCHANGED <<initialized, status, trusted>>
      BY <1>6 DEF stub_target_nand_write_page
    <2> HIDE DEF len
    <2>4. image \in Image
      <3>1. ASSUME NEW c \in Columns, c <= len PROVE data[c] \in SUBSET Bits
        BY <2>1, <3>1, NandAssumption DEF Columns
      <3> QED BY <3>1 DEF Image
    <2>5. \A c \in Columns : image[c] # {} => c <= len
      OBVIOUS
    <2>6. len = 0 => image = Erased
      BY NandAssumption DEF Erased, Columns
    <2>7. s # <<>> => Scripted(call', s) /\ len > 0
      <3>1. ASSUME len # 0 PROVE Scripted(call', write_page_steps(page, len))
        BY <2>1, <2>2, <3>1, NandAssumption, WritePageScript
      <3> QED BY <2>1, <3>1, NandAssumption
    <2>8. s = <<>> => len = 0
      <3>1. ASSUME len # 0 PROVE write_page_steps(page, len) # <<>>
        <4>1. Scripted(call', write_page_steps(page, len))
          BY <2>1, <2>2, <3>1, NandAssumption, WritePageScript
        <4>2. Total(call') # 0
          BY <2>1, <2>2, NandAssumption DEF Total
        <4> QED BY <4>1, <4>2 DEF Scripted
      <3> QED BY <3>1
    <2>9. s \in Seq(Steps)
      <3>1. CASE s = <<>>
        <4>1. <<>> \in Seq(Steps)
          OBVIOUS
        <4> QED BY <3>1, <4>1
      <3>2. CASE s # <<>>
        <4> HIDE DEF s
        <4> QED BY <2>7, <3>2 DEF Scripted
      <3> QED BY <3>1, <3>2
    <2> HIDE DEF s, image
    <2> QED BY <2>1, <2>3, <2>4, <2>5, <2>6, <2>7, <2>8, <2>9, BeginStep DEF Ops
  <1> QED BY <1>2, <1>3, <1>4, <1>5, <1>6, AttachBegins, UnalignedStep DEF Calls

(***************************************************************************)
(* A step of a call                                                        *)
(***************************************************************************)
\* What READ_FROM_CACHE brings
LEMMA ReceivedFacts ==
    ASSUME TypeOK, step \in Steps
    PROVE  /\ Received \in CallType
           /\ Received.op = call.op /\ Received.page = call.page /\ Received.image = call.image
           /\ Received.len = call.len /\ Received.steps = call.steps
           /\ Received.ret = call.ret /\ Received.before = call.before
           /\ Received.failed = call.failed /\ Received.garbled = call.garbled
           /\ step.cmd = "READ_FROM_CACHE" /\ Idle =>
                 Received.buf = [call.buf EXCEPT ![step.col] = cache[step.plane][step.col]]
  <1>1. CASE step.cmd # "READ_FROM_CACHE"
    BY <1>1 DEF Received, TypeOK
  <1>2. CASE step.cmd = "READ_FROM_CACHE"
    <2> DEFINE v == IF Idle THEN cache[step.plane][step.col] ELSE Bits
    <2>1. v \in SUBSET Bits /\ step.col \in Columns
      BY DEF TypeOK, Steps, Image
    <2>2. Received = [call EXCEPT !.buf[step.col] = v]
      BY <1>2 DEF Received, Idle
    <2> HIDE DEF v
    <2>3. call.buf \in Image /\ [call.buf EXCEPT ![step.col] = v] \in Image
      BY <2>1 DEF TypeOK, CallType, Image
    <2>4. Received = [call EXCEPT !.buf = [call.buf EXCEPT ![step.col] = v]]
      BY <2>2
    <2>5. /\ Received \in CallType /\ Received.buf = [call.buf EXCEPT ![step.col] = v]
          /\ Received.op = call.op /\ Received.page = call.page /\ Received.image = call.image
          /\ Received.len = call.len /\ Received.steps = call.steps
          /\ Received.ret = call.ret /\ Received.before = call.before
          /\ Received.failed = call.failed /\ Received.garbled = call.garbled
      BY <2>3, <2>4 DEF TypeOK, CallType
    <2> QED BY <2>5 DEF v
  <1> QED BY <1>1, <1>2

\* What a program or an erase leaves are pages.
LEMMA CompletedType == ASSUME TypeOK PROVE Completed \in [Pages -> Image]
  <1>1. CASE chip.op = "PROGRAM_EXECUTE"
    <2>1. chip.page \in Pages /\ plane_bit(chip.page) \in Planes
      BY PageFacts DEF TypeOK, ChipType
    <2>2. Program(cells[chip.page], cache[plane_bit(chip.page)]) \in Image
      BY <2>1, ImageFacts DEF TypeOK
    <2> QED BY <1>1, <2>1, <2>2 DEF Completed, TypeOK
  <1>2. CASE chip.op = "ERASE_BLOCK"
    BY <1>2, ImageFacts DEF Completed, TypeOK
  <1>3. CASE chip.op \notin {"PROGRAM_EXECUTE", "ERASE_BLOCK"}
    BY <1>3 DEF Completed, TypeOK
  <1> QED BY <1>1, <1>2, <1>3

\* A command leaves the chip in its type.
LEMMA TakesType ==
    ASSUME TypeOK, step \in Steps, ChipTakes
    PROVE  chip' \in ChipType /\ cache' \in [Planes -> Image] /\ cells' \in [Pages -> Image]
  <1>1. chip \in ChipType /\ call.page \in Pages
    BY DEF TypeOK, CallType
  <1>2. CASE /\ step.cmd = "RESET" /\ cells' \in Aborts /\ UNCHANGED cache
             /\ chip' = [chip EXCEPT !.op = "RESET", !.wel = FALSE, !.bits = {}]
    <2>1. cells' \in [Pages -> Image]
      BY <1>2, CompletedType DEF Aborts, TypeOK
    <2>2. chip' \in ChipType
      BY <1>1, <1>2 DEF ChipType, ChipOps
    <2> QED BY <1>2, <2>1, <2>2 DEF TypeOK
  <1>3. CASE UNCHANGED <<chip, cache, cells>>
    BY <1>3 DEF TypeOK
  <1>4. CASE /\ UNCHANGED <<cache, cells>>
             /\ \/ chip' = [chip EXCEPT !.wel = TRUE]
                \/ Start("PAGE_READ")
                \/ step.cmd \in {"PROGRAM_EXECUTE", "ERASE_BLOCK"} /\ StartProgram(step.cmd)
                \/ ReadOut
                \/ \E kept \in BOOLEAN : chip' = [chip EXCEPT !.protect = @ /\ kept]
                \/ \E kept \in BOOLEAN :
                      chip' = [chip EXCEPT !.config = IF kept THEN @ ELSE {"BUF", "ECC_EN"}]
    <2>1. CASE chip' = [chip EXCEPT !.wel = TRUE]
      BY <1>1, <1>4, <2>1 DEF ChipType, TypeOK
    <2>2. CASE Start("PAGE_READ")
      BY <1>1, <1>4, <2>2 DEF ChipType, ChipOps, TypeOK, Start
    <2>3. CASE step.cmd \in {"PROGRAM_EXECUTE", "ERASE_BLOCK"} /\ StartProgram(step.cmd)
      <3>1. PICK bits \in SUBSET StatusBits :
                chip' = chip \/ chip' = [chip EXCEPT !.op = step.cmd, !.page = call.page,
                                                    !.bits = bits]
        BY <1>1, <2>3 DEF StartProgram, ChipType
      <3>2. chip' \in ChipType
        BY <1>1, <2>3, <3>1 DEF ChipType, ChipOps
      <3> QED BY <1>4, <3>2 DEF TypeOK
    <2>4. CASE ReadOut
      <3>1. (chip.page + 1) % (Blocks * pages_per_block) \in Pages
        BY <1>1, PageFacts DEF ChipType
      <3> DEFINE q == (chip.page + 1) % (Blocks * pages_per_block)
      <3>2. chip' = chip \/ chip' = [chip EXCEPT !.op = "PAGE_READ", !.page = q]
        BY <2>4 DEF ReadOut
      <3> HIDE DEF q
      <3>3. q \in Pages
        BY <3>1 DEF q
      <3> QED BY <1>1, <1>4, <3>2, <3>3 DEF ChipType, ChipOps, TypeOK
    <2>5. ASSUME NEW kept \in BOOLEAN, chip' = [chip EXCEPT !.protect = @ /\ kept]
          PROVE  chip' \in ChipType
      <3>1. (chip.protect /\ kept) \in BOOLEAN
        BY <2>5, Zenon
      <3> QED BY <1>1, <2>5, <3>1 DEF ChipType
    <2>6. ASSUME NEW kept \in BOOLEAN,
                 chip' = [chip EXCEPT !.config = IF kept THEN @ ELSE {"BUF", "ECC_EN"}]
          PROVE  chip' \in ChipType
      BY <1>1, <2>6 DEF ChipType, ConfigBits
    <2> QED BY <1>4, <2>1, <2>2, <2>3, <2>4, <2>5, <2>6 DEF TypeOK
  <1>5. CASE /\ UNCHANGED <<chip, cells>>
             /\ cache' = [cache EXCEPT ![step.plane] =
                   [(IF step.cmd = "PROGRAM_LOAD" THEN Erased ELSE @)
                       EXCEPT ![step.col] = call.image[step.col]]]
    <2>1. /\ step.col \in Columns /\ step.plane \in Planes
          /\ call.image[step.col] \in SUBSET Bits
      BY DEF TypeOK, CallType, Image, Steps
    <2>2. \A im \in Image : [im EXCEPT ![step.col] = call.image[step.col]] \in Image
      BY <2>1 DEF Image
    <2>3. (IF step.cmd = "PROGRAM_LOAD" THEN Erased ELSE cache[step.plane]) \in Image
      BY <2>1, ImageFacts DEF TypeOK
    <2> QED BY <1>5, <2>1, <2>2, <2>3 DEF TypeOK
  <1> QED BY <1>2, <1>3, <1>4, <1>5 DEF ChipTakes

\* The call goes on to its next step or returns.
LEMMA DriverMoves ==
    ASSUME NandInv, Driver
    PROVE  /\ call.ret = "running"
           /\ \E c \in {call, Received} :
                 Advance(c) \/ \E ret \in Rets \ {"running"} : Return(c, ret)
           /\ chip' \in ChipType /\ cache' \in [Planes -> Image] /\ cells' \in [Pages -> Image]
           /\ initialized' \in BOOLEAN /\ status' \subseteq StatusBits /\ calls' = calls
  <1>1. TypeOK /\ StepsInv
    BY DEF NandInv
  <1>2. call.ret = "running"
    BY DEF Driver, spi_nand_transaction, spi_nand_init, SetInitialized, GetRegister,
           nand_wait_ready, nand_wait_program_erase, nand_check_ecc_after_read, Running
  <1>3. step \in Steps
    BY <1>1, <1>2, StepFacts
  <1>4. CASE spi_nand_transaction
    <2>1. SpiError \in Rets \ {"running"}
      BY DEF SpiError, Rets, BusErrors
    <2>2. \E c \in {call, Received} :
              Advance(c) \/ \E ret \in Rets \ {"running"} : Return(c, ret)
      BY <1>4, <2>1 DEF spi_nand_transaction
    <2>3. ChipTakes \/ UNCHANGED <<chip, cache, cells>>
      BY <1>4 DEF spi_nand_transaction
    <2>4. chip' \in ChipType /\ cache' \in [Planes -> Image] /\ cells' \in [Pages -> Image]
      BY <1>1, <1>3, <2>3, TakesType DEF TypeOK
    <2> QED BY <1>1, <1>2, <1>4, <2>2, <2>4 DEF spi_nand_transaction, TypeOK
  <1>5. CASE spi_nand_init
    BY <1>1, <1>2, <1>5 DEF spi_nand_init, TypeOK, Rets
  <1>6. CASE SetInitialized
    <2>1. initialized' \in BOOLEAN
      BY <1>6, Zenon DEF SetInitialized
    <2> QED BY <1>1, <1>2, <1>6, <2>1 DEF SetInitialized, TypeOK
  <1>7. CASE GetRegister
    BY <1>1, <1>2, <1>7 DEF GetRegister, TypeOK, Rets, BusErrors
  <1>8. ASSUME NEW ret \in Rets \ {"running"}, WaitReturns(ret)
        PROVE  /\ \E c \in {call, Received} :
                     Advance(c) \/ \E r \in Rets \ {"running"} : Return(c, r)
               /\ status' \subseteq StatusBits
    <2>1. \E c \in {call, Received} : Advance(c) \/ \E r \in Rets \ {"running"} : Return(c, r)
      BY <1>8 DEF WaitReturns, Rets, BusErrors
    <2>2. status' \subseteq StatusBits
      BY <1>1, <1>8 DEF WaitReturns, TypeOK, ChipType, StatusBits
    <2> QED BY <2>1, <2>2
  <1>9. CASE nand_wait_ready
    BY <1>1, <1>2, <1>8, <1>9 DEF nand_wait_ready, TypeOK, Rets
  <1>10. CASE nand_wait_program_erase
    BY <1>1, <1>2, <1>8, <1>10 DEF nand_wait_program_erase, TypeOK, Rets
  <1>11. CASE nand_check_ecc_after_read
    BY <1>1, <1>2, <1>11 DEF nand_check_ecc_after_read, TypeOK, Rets
  <1> QED BY <1>4, <1>5, <1>6, <1>7, <1>9, <1>10, <1>11 DEF Driver

\* Every step of a call keeps the types and the script.
LEMMA DriverBase == ASSUME NandInv, Driver PROVE TypeOK' /\ StepsInv'
  <1>1. TypeOK /\ StepsInv /\ call.ret = "running"
    BY DriverMoves DEF NandInv
  <1>2. step \in Steps
    BY <1>1, StepFacts
  <1>3. PICK c \in {call, Received} :
            Advance(c) \/ \E ret \in Rets \ {"running"} : Return(c, ret)
    BY DriverMoves
  <1>4. /\ c \in CallType /\ c.op = call.op /\ c.page = call.page /\ c.image = call.image
        /\ c.len = call.len /\ c.steps = call.steps /\ c.ret = "running"
    BY <1>1, <1>2, <1>3, ReceivedFacts DEF TypeOK
  <1>5. call' \in CallType /\ trusted' \in BOOLEAN /\ StepsInv'
    <2>1. CASE Advance(c)
      BY <1>1, <1>4, <2>1, AdvanceFacts
    <2>2. ASSUME NEW ret \in Rets \ {"running"}, Return(c, ret)
          PROVE  call' \in CallType /\ trusted' \in BOOLEAN /\ call'.ret # "running"
      BY <1>1, <1>4, <2>2, ReturnFacts
    <2>3. CASE \E ret \in Rets \ {"running"} : Return(c, ret)
      BY <2>2, <2>3 DEF StepsInv
    <2> QED BY <1>3, <2>1, <2>3
  <1> QED BY <1>1, <1>5, DriverMoves DEF TypeOK

(***************************************************************************)
(* The steps that count                                                    *)
(***************************************************************************)
\* After the step the client relies on the chip, or attach is still running.
Kept == trusted' \/ (call.op = "attach" /\ call'.ret = "running")

\* A bus error is the end of that, and so is any error of attach.
LEMMA ErrorEnds ==
    ASSUME TypeOK, NEW ret \in Rets \ {"running", "OK"}, Return(call, ret),
           ret \in BusErrors \/ call.op = "attach"
    PROVE  ~Kept
  <1>1. call \in CallType
    BY DEF TypeOK
  <1>2. /\ call'.ret = ret
        /\ call.op = "attach" => trusted' = (ret = "OK")
        /\ call.op # "attach" => trusted' = (trusted /\ ret \notin BusErrors)
    BY <1>1, ReturnFacts
  <1> QED BY <1>2 DEF Kept

\* A transaction that counts has reached the chip.
LEMMA KeptTransaction ==
    ASSUME TypeOK, spi_nand_transaction, Kept
    PROVE  ChipTakes /\ Advance(Received) /\ UNCHANGED <<initialized, status>>
  <1>1. SpiError \in Rets \ {"running", "OK"} /\ SpiError \in BusErrors
    BY DEF SpiError, Rets, BusErrors
  <1>2. ~Return(call, SpiError)
    BY <1>1, ErrorEnds
  <1> QED BY <1>2 DEF spi_nand_transaction

\* A wait that counts has found the chip idle.
LEMMA KeptWait ==
    ASSUME TypeOK, NEW ret, WaitReturns(ret), Kept
    PROVE  /\ Idle /\ status' = chip.bits
           /\ IF ret = "OK" THEN Advance(call) ELSE Return(call, ret)
  <1>1. ~Return(call, "TIMEOUT") /\ ~Return(call, "SPI_FAIL")
    BY ErrorEnds DEF Rets, BusErrors
  <1> QED BY <1>1 DEF WaitReturns, Idle

\* Which function makes a step
LEMMA DriverCmd ==
    ASSUME Driver
    PROVE  /\ step.cmd \in Commands => spi_nand_transaction
           /\ step.cmd = "wait_ready" => nand_wait_ready
           /\ step.cmd = "wait_program_erase" => nand_wait_program_erase
           /\ step.cmd = "check_ecc" => nand_check_ecc_after_read
           /\ step.cmd = "spi_nand_init" => spi_nand_init
           /\ step.cmd = "set_initialized" => SetInitialized
           /\ step.cmd \in {"GET_PROTECT", "GET_CONFIG"} => GetRegister
  BY DEF Driver, spi_nand_transaction, spi_nand_init, SetInitialized, GetRegister,
         nand_wait_ready, nand_wait_program_erase, nand_check_ecc_after_read, Running, Commands

\* What an idle chip does with a command
LEMMA CommandFacts ==
    ASSUME TypeOK, ChipTakes, Idle
    PROVE  /\ step.cmd = "PAGE_READ" =>
                 /\ chip'.op = "PAGE_READ" /\ chip'.page = call.page
                 /\ chip'.protect = chip.protect /\ chip'.config = chip.config
                 /\ UNCHANGED <<cache, cells>>
           /\ step.cmd = "WRITE_ENABLE" =>
                 /\ chip'.op = "idle" /\ chip'.wel
                 /\ chip'.protect = chip.protect /\ chip'.config = chip.config
                 /\ UNCHANGED <<cache, cells>>
           /\ step.cmd \in {"PROGRAM_EXECUTE", "ERASE_BLOCK"} /\ chip.wel =>
                 /\ chip'.op = step.cmd /\ chip'.page = call.page
                 /\ chip'.bits = chip.bits \ {"ERASE_FAILED", "PROGRAM_FAILED"}
                 /\ chip'.protect = chip.protect /\ chip'.config = chip.config
                 /\ UNCHANGED <<cache, cells>>
           /\ step.cmd = "READ_FROM_CACHE" /\ "BUF" \in chip.config =>
                 UNCHANGED <<chip, cache, cells>>
           /\ step.cmd = "READ_CONFIG" => UNCHANGED <<chip, cache, cells>>
           /\ step.cmd = "SET_PROTECT" => chip'.op = "idle"
           /\ step.cmd = "SET_CONFIG" => chip'.op = "idle" /\ chip'.protect = chip.protect
           /\ step.cmd \in {"PROGRAM_LOAD", "PROGRAM_LOAD_RANDOM"} =>
                 /\ UNCHANGED <<chip, cells>>
                 /\ cache' = [cache EXCEPT ![step.plane] =
                       [(IF step.cmd = "PROGRAM_LOAD" THEN Erased ELSE @)
                           EXCEPT ![step.col] = call.image[step.col]]]
  <1> USE DEF TypeOK, ChipType, Idle
  <1>1. CASE step.cmd = "PAGE_READ"
    BY <1>1 DEF ChipTakes, Start
  <1>2. CASE step.cmd = "WRITE_ENABLE"
    BY <1>2 DEF ChipTakes
  <1>3. CASE step.cmd \in {"PROGRAM_EXECUTE", "ERASE_BLOCK"}
    BY <1>3 DEF ChipTakes, StartProgram
  <1>4. CASE step.cmd = "READ_FROM_CACHE"
    BY <1>4 DEF ChipTakes, ReadOut
  <1>5. CASE step.cmd \in {"READ_CONFIG", "SET_PROTECT", "SET_CONFIG"}
    BY <1>5 DEF ChipTakes
  <1>6. CASE step.cmd \in {"PROGRAM_LOAD", "PROGRAM_LOAD_RANDOM"}
    BY <1>6 DEF ChipTakes
  <1> QED BY <1>1, <1>2, <1>3, <1>4, <1>5, <1>6

\* What holds of a state nobody relies on
LEMMA NotKept == ASSUME ~Kept, call'.op = call.op
                 PROVE  (AttachInv /\ TrustedInv /\ ReadRight /\ OkIsDone /\ FailureIsOwn)'
  BY DEF Kept, AttachInv, TrustedInv, ReadRight, OkIsDone, FailureIsOwn, Returned

(***************************************************************************)
(* attach                                                                  *)
(***************************************************************************)
\* What attach does at each of its places
LEMMA AttachScriptAt ==
    ASSUME TypeOK, StepsInv, call.ret = "running", call.op = "attach"
    PROVE  /\ Pos \in 1 .. 9 /\ Total(call) = 9
           /\ Pos = 1 => step.cmd = "spi_nand_init"
           /\ Pos = 2 => step.cmd = "RESET"
           /\ Pos = 3 => step.cmd = "wait_ready"
           /\ Pos = 4 => step.cmd = "set_initialized"
           /\ Pos = 5 => step.cmd = "SET_PROTECT"
           /\ Pos = 6 => step.cmd = "GET_PROTECT"
           /\ Pos = 7 => step.cmd = "READ_CONFIG"
           /\ Pos = 8 => step.cmd = "SET_CONFIG"
           /\ Pos = 9 => step.cmd = "GET_CONFIG"
  <1>1. Total(call) = 9
    BY DEF Total
  <1>2. Pos \in 1 .. 9 /\ step = StepOf(call, Pos)
    BY <1>1, StepFacts
  <1>3. step = attach_steps[Pos]
    BY <1>2 DEF StepOf
  <1> QED BY <1>1, <1>2, <1>3 DEF attach_steps, Do, At

\* attach goes on only while the chip does what it is told, and returns 0 only when
\* the chip is idle, not protected, in buffer mode and with its error correction on.
LEMMA AttachStep ==
    ASSUME NandInv, Driver, call.op = "attach"
    PROVE  (AttachInv /\ TrustedInv /\ ReadRight /\ OkIsDone /\ FailureIsOwn)'
  <1>1. TypeOK /\ StepsInv /\ AttachInv /\ call.ret = "running" /\ call \in CallType
    BY DriverMoves DEF NandInv, TypeOK
  <1>2. step \in Steps
    BY <1>1, StepFacts
  <1>3. /\ Received \in CallType /\ Received.op = call.op /\ Received.page = call.page
        /\ Received.image = call.image /\ Received.len = call.len
        /\ Received.steps = call.steps /\ Received.ret = "running"
    BY <1>1, <1>2, ReceivedFacts
  <1>4. CASE ~Kept
    <2>1. PICK c \in {call, Received} :
              Advance(c) \/ \E ret \in Rets \ {"running"} : Return(c, ret)
      BY DriverMoves
    <2>2. call'.op = call.op
      BY <1>1, <1>3, <2>1, AdvanceFacts, ReturnFacts
    <2> QED BY <1>4, <2>2, NotKept
  <1>5. CASE Kept
    <2>1. \A ret \in Rets \ {"running", "OK"} : ~Return(call, ret)
      BY <1>1, <1>5, ErrorEnds
    <2>2. ASSUME NEW c \in {call, Received}, Advance(c)
          PROVE  /\ call'.op = "attach" /\ (trusted' => call'.ret = "OK")
                 /\ Pos = 9 => call'.ret = "OK" /\ trusted'
                 /\ Pos # 9 => call'.ret = "running" /\ Pos' = Pos + 1 /\ ~trusted'
      <3>1. Total(call) = 9 /\ ~trusted
        BY <1>1, AttachScriptAt DEF AttachInv
      <3>2. /\ c \in CallType /\ c.op = call.op /\ c.page = call.page /\ c.image = call.image
            /\ c.len = call.len /\ c.steps = call.steps /\ c.ret = "running"
        BY <1>1, <1>3, <2>2
      <3>3. /\ call'.op = call.op
            /\ Pos = Total(call) => call'.ret = "OK" /\ trusted'
            /\ Pos # Total(call) => call'.ret = "running" /\ Pos' = Pos + 1 /\ trusted' = trusted
        BY <1>1, <2>2, <3>2, AdvanceFacts
      <3> QED BY <3>1, <3>3
    <2>3. Pos \in 1 .. 9
      BY <1>1, AttachScriptAt
    <2>4. ASSUME Pos # 9, call'.op = "attach", call'.ret = "running", Pos' = Pos + 1, ~trusted',
                 Pos >= 3 => Idle',
                 Pos >= 4 => initialized',
                 Pos >= 6 => ~chip'.protect
          PROVE  (AttachInv /\ TrustedInv /\ ReadRight /\ OkIsDone /\ FailureIsOwn)'
      <3>1. AttachInv'
        BY <2>3, <2>4 DEF AttachInv, Idle
      <3> QED BY <2>4, <3>1 DEF TrustedInv, ReadRight, OkIsDone, FailureIsOwn, Returned
    <2>5. CASE Pos = 1
      <3>1. spi_nand_init
        BY <1>1, <2>5, AttachScriptAt, DriverCmd
      <3>2. Advance(call)
        BY <2>1, <3>1 DEF spi_nand_init, Rets
      <3> QED BY <2>2, <2>4, <2>5, <3>2
    <2>6. CASE Pos = 2
      <3>1. spi_nand_transaction
        BY <1>1, <2>6, AttachScriptAt, DriverCmd DEF Commands
      <3>2. Advance(Received)
        BY <1>1, <1>5, <3>1, KeptTransaction
      <3> QED BY <2>2, <2>4, <2>6, <3>2
    <2>7. CASE Pos = 3
      <3>1. nand_wait_ready
        BY <1>1, <2>7, AttachScriptAt, DriverCmd
      <3>2. Idle /\ Advance(call) /\ chip' = chip
        BY <1>1, <1>5, <3>1, KeptWait DEF nand_wait_ready
      <3>3. Idle'
        BY <3>2 DEF Idle
      <3> QED BY <2>2, <2>4, <2>7, <3>2, <3>3
    <2>8. CASE Pos = 4
      <3>1. SetInitialized
        BY <1>1, <2>8, AttachScriptAt, DriverCmd
      <3>2. Advance(call) /\ chip' = chip /\ initialized'
        BY <3>1 DEF SetInitialized
      <3>3. Idle'
        BY <1>1, <2>8, <3>2 DEF AttachInv, Idle
      <3> QED BY <2>2, <2>4, <2>8, <3>2, <3>3
    <2>9. CASE Pos \in {5, 7, 8}
      <3>1. spi_nand_transaction
        BY <1>1, <2>9, AttachScriptAt, DriverCmd DEF Commands
      <3>2. ChipTakes /\ Advance(Received) /\ initialized' = initialized
        BY <1>1, <1>5, <3>1, KeptTransaction
      <3>3. Idle /\ initialized /\ (Pos >= 7 => ~chip.protect)
        BY <1>1, <2>9 DEF AttachInv, Idle
      <3>4. step.cmd \in {"SET_PROTECT", "READ_CONFIG", "SET_CONFIG"} /\
            (step.cmd = "SET_PROTECT" <=> Pos = 5)
        BY <1>1, <2>9, AttachScriptAt
      <3>5. Idle' /\ (Pos >= 7 => ~chip'.protect)
        BY <1>1, <2>9, <3>2, <3>3, <3>4, CommandFacts DEF Idle
      <3> QED BY <2>2, <2>4, <2>9, <3>2, <3>3, <3>5
    <2>10. CASE Pos = 6
      <3>1. GetRegister /\ step.cmd = "GET_PROTECT"
        BY <1>1, <2>10, AttachScriptAt, DriverCmd
      <3>2. ~chip.protect /\ Advance(call) /\ chip' = chip /\ initialized' = initialized
        BY <2>1, <3>1 DEF GetRegister, Rets, BusErrors
      <3>3. Idle' /\ initialized
        BY <1>1, <2>10, <3>2 DEF AttachInv, Idle
      <3> QED BY <2>2, <2>4, <2>10, <3>2, <3>3
    <2>11. CASE Pos = 9
      <3>1. GetRegister /\ step.cmd = "GET_CONFIG"
        BY <1>1, <2>11, AttachScriptAt, DriverCmd
      <3>2. /\ chip.config = ConfigBits /\ Advance(call) /\ chip' = chip
            /\ initialized' = initialized
        BY <2>1, <3>1 DEF GetRegister, Rets, BusErrors, ConfigBits
      <3>3. call'.op = "attach" /\ call'.ret = "OK"
        BY <2>2, <2>11, <3>2
      <3>4. Idle /\ initialized /\ ~chip.protect
        BY <1>1, <2>11 DEF AttachInv, Idle
      <3>5. TrustedInv'
        BY <3>2, <3>3, <3>4 DEF TrustedInv, Idle
      <3> QED BY <3>3, <3>5 DEF AttachInv, ReadRight, OkIsDone, FailureIsOwn, Returned
    <2> QED BY <2>3, <2>5, <2>6, <2>7, <2>8, <2>9, <2>10, <2>11
  <1> QED BY <1>4, <1>5

(***************************************************************************)
(* The other calls, while the client relies on the chip                    *)
(***************************************************************************)
\* A call that the client relies on
Relied == NandInv /\ Driver /\ call.op # "attach" /\ trusted /\ trusted'

\* What is left to show of it: its new place, or its result
Sound == TrustedInv /\ ReadRight /\ OkIsDone /\ FailureIsOwn

\* What is known of such a call
LEMMA ReliedFacts ==
    ASSUME Relied
    PROVE  /\ TypeOK /\ StepsInv /\ call.ret = "running" /\ call \in CallType /\ Kept
           /\ initialized /\ ~chip.protect /\ chip.config = ConfigBits
           /\ ReadPageInv /\ ReadBbmInv /\ WriteBbmInv /\ WritePageInv /\ EraseInv
           /\ Pos \in 1 .. Total(call) /\ Total(call) \in Nat
           /\ step = StepOf(call, Pos) /\ step \in Steps
           /\ call.page \in Pages /\ call.len \in Nat /\ call.len <= Chunks
           /\ Plane \in Planes
  <1>1. TypeOK /\ StepsInv /\ call.ret = "running" /\ call \in CallType /\ Kept /\ TrustedInv
    BY DriverMoves DEF Relied, NandInv, TypeOK, Kept
  <1>2. /\ initialized /\ ~chip.protect /\ chip.config = ConfigBits
        /\ ReadPageInv /\ ReadBbmInv /\ WriteBbmInv /\ WritePageInv /\ EraseInv
    BY <1>1 DEF TrustedInv, Relied
  <1>3. call.page \in Pages /\ call.len \in 0 .. Chunks
    BY <1>1 DEF CallType
  <1>4. Plane \in Planes
    BY <1>3, PageFacts DEF Plane
  <1> QED BY <1>1, <1>2, <1>3, <1>4, StepFacts, NandAssumption

\* The call goes on, with the same arguments.
LEMMA ReliedAdvance ==
    ASSUME Relied, NEW c \in {call, Received}, Advance(c)
    PROVE  /\ call'.op = call.op /\ call'.page = call.page /\ call'.image = call.image
           /\ call'.len = call.len /\ call'.before = call.before /\ call'.buf = c.buf
           /\ call'.failed = call.failed /\ call'.garbled = call.garbled
           /\ Pos = Total(call) => call'.ret = "OK"
           /\ Pos # Total(call) => call'.ret = "running" /\ Pos' = Pos + 1
  <1>1. TypeOK /\ StepsInv /\ call.ret = "running" /\ call \in CallType /\ step \in Steps
    BY ReliedFacts
  <1>2. /\ c \in CallType /\ c.op = call.op /\ c.page = call.page /\ c.image = call.image
        /\ c.len = call.len /\ c.steps = call.steps /\ c.ret = "running"
        /\ c.before = call.before /\ c.failed = call.failed /\ c.garbled = call.garbled
    BY <1>1, ReceivedFacts
  <1> QED BY <1>1, <1>2, AdvanceFacts

\* The call returns an error the chip has told of.
LEMMA ReliedReturn ==
    ASSUME Relied, NEW ret \in Rets \ {"running", "OK"}, Return(call, ret), Idle,
           UNCHANGED <<initialized, chip, cache, cells>>,
           ret = "PROGRAM_FAILED" => call.op \in {"write_page", "write_bbm"} /\ call.failed,
           ret = "ERASE_FAILED" => call.op = "erase_block" /\ call.failed
    PROVE  Sound'
  <1>1. TypeOK /\ call \in CallType /\ initialized /\ ~chip.protect /\ chip.config = ConfigBits
    BY ReliedFacts
  <1>2. call'.ret = ret /\ call'.op = call.op /\ call'.failed = call.failed
    BY <1>1, ReturnFacts
  <1>3. TrustedInv'
    BY <1>1, <1>2 DEF TrustedInv, Idle
  <1> QED BY <1>2, <1>3 DEF Sound, ReadRight, OkIsDone, FailureIsOwn, Returned

\* A transaction of such a call reaches the chip.
LEMMA ReliedTransaction ==
    ASSUME Relied, step.cmd \in Commands
    PROVE  ChipTakes /\ Advance(Received) /\ UNCHANGED <<initialized, status>>
  <1>1. spi_nand_transaction
    BY DriverCmd DEF Relied
  <1> QED BY <1>1, ReliedFacts, KeptTransaction

\* A wait of such a call finds the chip idle.
LEMMA ReliedWait ==
    ASSUME Relied, step.cmd = "wait_ready"
    PROVE  /\ Idle /\ status' = chip.bits /\ Advance(call)
           /\ UNCHANGED <<initialized, chip, cache, cells>>
  <1>1. nand_wait_ready
    BY DriverCmd DEF Relied
  <1>2. WaitReturns("OK") /\ UNCHANGED <<initialized, chip, cache, cells>>
    BY <1>1 DEF nand_wait_ready
  <1> QED BY <1>2, ReliedFacts, KeptWait

\* nand_wait_program_erase tells what the fail bits tell.
LEMMA ReliedWaitProgram ==
    ASSUME Relied, step.cmd = "wait_program_erase"
    PROVE  /\ Idle /\ UNCHANGED <<initialized, chip, cache, cells>>
           /\ chip.bits \cap FailBits = {} => Advance(call)
           /\ chip.bits \cap FailBits = {"PROGRAM_FAILED"} => Return(call, "PROGRAM_FAILED")
           /\ chip.bits \cap FailBits = {"ERASE_FAILED"} => Return(call, "ERASE_FAILED")
  <1> DEFINE ret == IF "ERASE_FAILED" \in chip.bits THEN "ERASE_FAILED"
                    ELSE IF "PROGRAM_FAILED" \in chip.bits THEN "PROGRAM_FAILED" ELSE "OK"
  <1>1. nand_wait_program_erase
    BY DriverCmd DEF Relied
  <1>2. WaitReturns(ret) /\ UNCHANGED <<initialized, chip, cache, cells>>
    BY <1>1 DEF nand_wait_program_erase
  <1>3. /\ chip.bits \cap FailBits = {} => ret = "OK"
        /\ chip.bits \cap FailBits = {"PROGRAM_FAILED"} => ret = "PROGRAM_FAILED"
        /\ chip.bits \cap FailBits = {"ERASE_FAILED"} => ret = "ERASE_FAILED"
    BY DEF FailBits
  <1> HIDE DEF ret
  <1>4. Idle /\ IF ret = "OK" THEN Advance(call) ELSE Return(call, ret)
    BY <1>2, ReliedFacts, KeptWait
  <1> QED BY <1>2, <1>3, <1>4

\* read_page: a page is read into its own cache, its error correction is looked at, and
\* the pieces come from that cache.
LEMMA ReadPageStep == ASSUME Relied, call.op = "read_page" PROVE Sound'
  <1>1. Total(call) = call.len + 3 /\ call.len \in Nat /\ Pos \in 1 .. call.len + 3
    BY ReliedFacts DEF Total
  <1>2. /\ Pos = 1 => step.cmd = "PAGE_READ"
        /\ Pos = 2 => step.cmd = "wait_ready"
        /\ Pos = 3 => step.cmd = "check_ecc"
        /\ Pos >= 4 => step = At("READ_FROM_CACHE", Pos - 3, Plane)
    BY <1>1, ReliedFacts DEF StepOf, Do, At, Plane
  <1>3. ReadPageInv /\ initialized /\ ~chip.protect /\ chip.config = ConfigBits /\ TypeOK
    BY ReliedFacts
  <1>4. ASSUME call'.op = "read_page", call'.ret = "running", ReadPageInv',
               initialized', ~chip'.protect, chip'.config = ConfigBits
        PROVE  Sound'
    BY <1>4 DEF Sound, TrustedInv, ReadBbmInv, WriteBbmInv, WritePageInv, EraseInv, ReadRight,
                OkIsDone, FailureIsOwn, Returned
  <1>5. CASE Pos = 1
    <2>1. ChipTakes /\ Advance(Received) /\ initialized' = initialized
      BY <1>2, <1>5, ReliedTransaction DEF Commands
    <2>2. Idle
      BY <1>3, <1>5 DEF ReadPageInv
    <2>3. /\ chip'.op = "PAGE_READ" /\ chip'.page = call.page
          /\ chip'.protect = chip.protect /\ chip'.config = chip.config
      BY <1>2, <1>3, <1>5, <2>1, <2>2, CommandFacts
    <2>4. call'.op = "read_page" /\ call'.page = call.page /\ call'.ret = "running" /\ Pos' = 2
      BY <1>1, <1>5, <2>1, ReliedAdvance
    <2>5. ReadPageInv'
      BY <2>3, <2>4 DEF ReadPageInv, Fetching
    <2> QED BY <1>3, <1>4, <2>1, <2>3, <2>4, <2>5
  <1>6. CASE Pos = 2
    <2>1. /\ Idle /\ status' = chip.bits /\ Advance(call)
          /\ UNCHANGED <<initialized, chip, cache, cells>>
      BY <1>2, <1>6, ReliedWait
    <2>2. Loaded /\ Told
      BY <1>3, <1>6, <2>1 DEF ReadPageInv, Fetching, Idle
    <2>3. /\ call'.op = "read_page" /\ call'.page = call.page /\ call'.garbled = call.garbled
          /\ call'.ret = "running" /\ Pos' = 3
      BY <1>1, <1>6, <2>1, ReliedAdvance
    <2>4. (Loaded /\ Told)' /\ status' = chip'.bits
      BY <2>1, <2>2, <2>3 DEF Loaded, Told, Idle, Plane
    <2>5. ReadPageInv'
      BY <2>3, <2>4 DEF ReadPageInv
    <2> QED BY <1>3, <1>4, <2>1, <2>3, <2>5
  <1>7. CASE Pos = 3
    <2>1. nand_check_ecc_after_read
      BY <1>2, <1>7, DriverCmd DEF Relied
    <2>2. UNCHANGED <<initialized, status, chip, cache, cells>>
      BY <2>1 DEF nand_check_ecc_after_read
    <2>3. Loaded /\ Told /\ status = chip.bits
      BY <1>3, <1>7 DEF ReadPageInv
    <2>4. CASE "ECC_UNCORR" \in status
      <3>1. Return(call, "ECC_UNCORRECTABLE")
        BY <2>1, <2>4 DEF nand_check_ecc_after_read
      <3> QED BY <2>2, <2>3, <3>1, ReliedReturn DEF Rets, Loaded
    <2>5. CASE "ECC_UNCORR" \notin status
      <3>1. Advance(call)
        BY <2>1, <2>5 DEF nand_check_ecc_after_read
      <3>2. ~call.garbled
        BY <2>3, <2>5 DEF Told
      <3>3. /\ call'.op = "read_page" /\ call'.page = call.page /\ call'.len = call.len
            /\ call'.garbled = call.garbled
            /\ call.len = 0 => call'.ret = "OK"
            /\ call.len # 0 => call'.ret = "running" /\ Pos' = 4
        BY <1>1, <1>7, <3>1, ReliedAdvance
      <3>4. Loaded'
        BY <2>2, <2>3, <3>3 DEF Loaded, Idle, Plane
      <3>5. CASE call.len = 0
        <4>1. TrustedInv'
          BY <1>3, <2>2, <3>3, <3>4, <3>5 DEF TrustedInv, Loaded
        <4>2. 1 .. call'.len = {}
          BY <3>3, <3>5
        <4>3. ReadRight'
          BY <3>3, <4>2 DEF ReadRight, Returned
        <4> QED BY <3>3, <3>5, <4>1, <4>3 DEF Sound, OkIsDone, FailureIsOwn, Returned
      <3>6. CASE call.len # 0
        <4>1. 1 .. Pos' - 4 = {}
          BY <3>3, <3>6
        <4>2. ReadPageInv'
          BY <3>2, <3>3, <3>4, <3>6, <4>1 DEF ReadPageInv
        <4> QED BY <1>3, <1>4, <2>2, <3>3, <3>6, <4>2
      <3> QED BY <3>5, <3>6
    <2> QED BY <2>4, <2>5
  <1>8. CASE Pos >= 4
    <2> DEFINE n == Pos - 3
    <2>0. n \in 1 .. call.len /\ Pos = n + 3 /\ n \in Nat
      BY <1>1, <1>8
    <2>1. step.cmd = "READ_FROM_CACHE" /\ step.col = n /\ step.plane = Plane
      BY <1>2, <1>8 DEF At
    <2>2. ChipTakes /\ Advance(Received) /\ initialized' = initialized
      BY <2>1, ReliedTransaction DEF Commands
    <2>3. /\ Loaded /\ ~call.garbled
          /\ \A c \in 1 .. Pos - 4 : call.buf[c] = cells[call.page][c]
      BY <1>3, <1>8 DEF ReadPageInv
    <2> HIDE DEF n
    <2>4. Idle /\ UNCHANGED <<chip, cache, cells>>
      BY <1>3, <2>1, <2>2, <2>3, CommandFacts DEF Loaded, ConfigBits
    <2>5. Received.buf = [call.buf EXCEPT ![n] = cache[Plane][n]]
      BY <1>3, <2>1, <2>4, ReceivedFacts, ReliedFacts
    <2>6. /\ call'.op = "read_page" /\ call'.page = call.page /\ call'.len = call.len
          /\ call'.garbled = call.garbled /\ call'.buf = Received.buf
          /\ n = call.len => call'.ret = "OK"
          /\ n # call.len => call'.ret = "running" /\ Pos' = n + 4
      BY <1>1, <2>0, <2>2, ReliedAdvance
    <2>7. \A c \in 1 .. n : call'.buf[c] = cells'[call'.page][c]
      <3> TAKE c \in 1 .. n
      <3>1. c \in Columns /\ call.buf \in Image
        BY <2>0, ColumnFacts, ReliedFacts DEF CallType
      <3>2. CASE c = n
        BY <2>3, <2>4, <2>5, <2>6, <3>1, <3>2 DEF Loaded, Image
      <3>3. CASE c # n
        <4>1. c \in 1 .. Pos - 4
          BY <2>0, <3>3
        <4> QED BY <2>3, <2>4, <2>5, <2>6, <3>1, <3>3, <4>1 DEF Image
      <3> QED BY <3>2, <3>3
    <2>8. Loaded' /\ ~call'.garbled
      BY <2>3, <2>4, <2>6 DEF Loaded, Idle, Plane
    <2>9. CASE n = call.len
      <3>1. TrustedInv'
        BY <1>3, <2>2, <2>4, <2>6, <2>8, <2>9 DEF TrustedInv, Loaded
      <3>2. ReadRight'
        BY <2>6, <2>7, <2>8, <2>9 DEF ReadRight, Returned
      <3> QED BY <2>6, <2>9, <3>1, <3>2 DEF Sound, OkIsDone, FailureIsOwn, Returned
    <2>10. CASE n # call.len
      <3>1. 1 .. Pos' - 4 = 1 .. n /\ Pos' >= 4 /\ Pos' # 1 /\ Pos' # 2 /\ Pos' # 3
        BY <2>0, <2>6, <2>10
      <3>2. ReadPageInv'
        BY <2>7, <2>8, <3>1 DEF ReadPageInv
      <3> QED BY <1>3, <1>4, <2>2, <2>4, <2>6, <2>10, <3>2
    <2> QED BY <2>9, <2>10
  <1> QED BY <1>1, <1>5, <1>6, <1>7, <1>8

\* read_bbm: the marker of a page in an even block comes from that page.
LEMMA ReadBbmStep == ASSUME Relied, call.op = "read_bbm" PROVE Sound'
  <1>1. Total(call) = 3 /\ Pos \in 1 .. 3
    BY ReliedFacts DEF Total
  <1>2. /\ Pos = 1 => step.cmd = "PAGE_READ"
        /\ Pos = 2 => step.cmd = "wait_ready"
        /\ Pos = 3 => step = At("READ_FROM_CACHE", Spare, 0)
    BY <1>1, ReliedFacts DEF StepOf, read_bbm_steps, Do, At
  <1>3. ReadBbmInv /\ initialized /\ ~chip.protect /\ chip.config = ConfigBits /\ TypeOK
    BY ReliedFacts
  <1>4. ASSUME call'.op = "read_bbm", call'.ret = "running", ReadBbmInv',
               initialized', ~chip'.protect, chip'.config = ConfigBits
        PROVE  Sound'
    BY <1>4 DEF Sound, TrustedInv, ReadPageInv, WriteBbmInv, WritePageInv, EraseInv, ReadRight,
                OkIsDone, FailureIsOwn, Returned
  <1>5. CASE Pos = 1
    <2>1. ChipTakes /\ Advance(Received) /\ initialized' = initialized
      BY <1>2, <1>5, ReliedTransaction DEF Commands
    <2>2. Idle
      BY <1>3, <1>5 DEF ReadBbmInv
    <2>3. /\ chip'.op = "PAGE_READ" /\ chip'.page = call.page
          /\ chip'.protect = chip.protect /\ chip'.config = chip.config
      BY <1>2, <1>3, <1>5, <2>1, <2>2, CommandFacts
    <2>4. call'.op = "read_bbm" /\ call'.page = call.page /\ call'.ret = "running" /\ Pos' = 2
      BY <1>1, <1>5, <2>1, ReliedAdvance
    <2>5. ReadBbmInv'
      BY <2>3, <2>4 DEF ReadBbmInv, Fetching
    <2> QED BY <1>3, <1>4, <2>1, <2>3, <2>4, <2>5
  <1>6. CASE Pos = 2
    <2>1. Idle /\ Advance(call) /\ UNCHANGED <<initialized, chip, cache, cells>>
      BY <1>2, <1>6, ReliedWait
    <2>2. Loaded
      BY <1>3, <1>6, <2>1 DEF ReadBbmInv, Fetching, Idle
    <2>3. /\ call'.op = "read_bbm" /\ call'.page = call.page /\ call'.garbled = call.garbled
          /\ call'.ret = "running" /\ Pos' = 3
      BY <1>1, <1>6, <2>1, ReliedAdvance
    <2>4. ReadBbmInv'
      BY <2>1, <2>2, <2>3 DEF ReadBbmInv, Loaded, Idle, Plane
    <2> QED BY <1>3, <1>4, <2>1, <2>3, <2>4
  <1>7. CASE Pos = 3
    <2>1. step.cmd = "READ_FROM_CACHE" /\ step.col = Spare /\ step.plane = 0
      BY <1>2, <1>7 DEF At
    <2>2. ChipTakes /\ Advance(Received) /\ initialized' = initialized
      BY <2>1, ReliedTransaction DEF Commands
    <2>3. Loaded
      BY <1>3, <1>7 DEF ReadBbmInv
    <2>4. Idle /\ UNCHANGED <<chip, cache, cells>>
      BY <1>3, <2>1, <2>2, <2>3, CommandFacts DEF Loaded, ConfigBits
    <2>5. Received.buf = [call.buf EXCEPT ![Spare] = cache[0][Spare]]
      BY <1>3, <2>1, <2>4, ReceivedFacts, ReliedFacts
    <2>6. /\ call'.op = "read_bbm" /\ call'.page = call.page /\ call'.ret = "OK"
          /\ call'.buf = Received.buf
      BY <1>1, <1>7, <2>2, ReliedAdvance
    <2>7. plane_bit(call.page) = 0 => call'.buf[Spare] = cells[call.page][Spare]
      <3>1. call.buf \in Image
        BY ReliedFacts DEF CallType
      <3> QED BY <2>3, <2>5, <2>6, <3>1, ColumnFacts DEF Loaded, Plane, Image
    <2>8. TrustedInv'
      BY <1>3, <2>2, <2>4, <2>6 DEF TrustedInv, Idle
    <2>9. ReadRight'
      BY <2>4, <2>6, <2>7 DEF ReadRight, Returned
    <2> QED BY <2>6, <2>8, <2>9 DEF Sound, OkIsDone, FailureIsOwn, Returned
  <1> QED BY <1>1, <1>5, <1>6, <1>7

\* The last step of write_page and write_bbm tells what has become of the program.
LEMMA ProgramEnds ==
    ASSUME Relied, call.op \in {"write_page", "write_bbm"}, step.cmd = "wait_program_erase",
           Programming, Pos = Total(call)
    PROVE  Sound'
  <1>1. /\ Idle /\ UNCHANGED <<initialized, chip, cache, cells>>
        /\ chip.bits \cap FailBits = {} => Advance(call)
        /\ chip.bits \cap FailBits = {"PROGRAM_FAILED"} => Return(call, "PROGRAM_FAILED")
    BY ReliedWaitProgram
  <1>2. initialized /\ ~chip.protect /\ chip.config = ConfigBits
    BY ReliedFacts
  <1>3. CASE chip.bits \cap FailBits = {"PROGRAM_FAILED"} /\ call.failed
    BY <1>1, <1>3, ReliedReturn DEF Rets
  <1>4. CASE /\ chip.bits \cap FailBits = {}
             /\ Programmed(call.before, cells[call.page])
    <2>1. /\ call'.op = call.op /\ call'.page = call.page /\ call'.before = call.before
          /\ call'.image = call.image /\ call'.garbled = call.garbled /\ call'.ret = "OK"
      BY <1>1, <1>4, ReliedAdvance
    <2>2. TrustedInv'
      BY <1>1, <1>2, <2>1 DEF TrustedInv, Idle
    <2>3. Programmed(call.before, cells[call.page])'
      BY <1>1, <1>4, <2>1 DEF Programmed, Preserved
    <2>4. OkIsDone'
      BY <2>1, <2>3 DEF OkIsDone, Returned
    <2> QED BY <2>1, <2>2, <2>4 DEF Sound, ReadRight, FailureIsOwn, Returned
  <1> QED BY <1>1, <1>3, <1>4 DEF Programming, Idle

\* The program is started.
LEMMA ProgramStarts ==
    ASSUME Relied, step.cmd = "PROGRAM_EXECUTE", Idle, chip.wel, Prepared, Pos # Total(call)
    PROVE  /\ Programming' /\ initialized' /\ ~chip'.protect /\ chip'.config = ConfigBits
           /\ call'.op = call.op /\ call'.len = call.len
           /\ call'.ret = "running" /\ Pos' = Pos + 1
  <1>1. ChipTakes /\ Advance(Received) /\ initialized' = initialized
    BY ReliedTransaction DEF Commands
  <1>2. /\ chip'.op = "PROGRAM_EXECUTE" /\ chip'.page = call.page
        /\ chip'.bits = chip.bits \ {"ERASE_FAILED", "PROGRAM_FAILED"}
        /\ chip'.protect = chip.protect /\ chip'.config = chip.config
        /\ UNCHANGED <<cache, cells>>
    BY <1>1, ReliedFacts, CommandFacts
  <1>3. /\ call'.op = call.op /\ call'.page = call.page /\ call'.before = call.before
        /\ call'.image = call.image /\ call'.garbled = call.garbled /\ call'.len = call.len
        /\ call'.ret = "running" /\ Pos' = Pos + 1
    BY <1>1, ReliedAdvance
  <1>4. Prepared'
    <2>1. cache'[Plane'] = cache[Plane] /\ Preserved' = Preserved
      BY <1>2, <1>3 DEF Plane, Preserved
    <2> QED BY <1>2, <1>3, <2>1 DEF Prepared, Programmed, Program
  <1>5. chip'.bits \cap FailBits = {}
    BY <1>2 DEF FailBits
  <1>6. initialized /\ ~chip.protect /\ chip.config = ConfigBits
    BY ReliedFacts
  <1> QED BY <1>1, <1>2, <1>3, <1>4, <1>5, <1>6 DEF Programming

\* write_bbm: the page is read into its cache, so that only the marker is programmed,
\* unless the page could not be corrected.
LEMMA WriteBbmStep == ASSUME Relied, call.op = "write_bbm" PROVE Sound'
  <1>1. Total(call) = 6 /\ Pos \in 1 .. 6
    BY ReliedFacts DEF Total
  <1>2. /\ Pos = 1 => step.cmd = "PAGE_READ"
        /\ Pos = 2 => step.cmd = "wait_ready"
        /\ Pos = 3 => step.cmd = "WRITE_ENABLE"
        /\ Pos = 4 => step = At("PROGRAM_LOAD_RANDOM", Spare, Plane)
        /\ Pos = 5 => step.cmd = "PROGRAM_EXECUTE"
        /\ Pos = 6 => step.cmd = "wait_program_erase"
    <2>1. step = write_bbm_steps(call.page)[Pos]
      BY <1>1, ReliedFacts DEF StepOf
    <2> QED BY <1>1, <2>1 DEF write_bbm_steps, Do, At, Plane
  <1>3. WriteBbmInv /\ initialized /\ ~chip.protect /\ chip.config = ConfigBits /\ TypeOK
    BY ReliedFacts
  <1>4. ASSUME call'.op = "write_bbm", call'.ret = "running", WriteBbmInv',
               initialized', ~chip'.protect, chip'.config = ConfigBits
        PROVE  Sound'
    BY <1>4 DEF Sound, TrustedInv, ReadPageInv, ReadBbmInv, WritePageInv, EraseInv, ReadRight,
                OkIsDone, FailureIsOwn, Returned
  <1>5. CASE Pos = 1
    <2>1. ChipTakes /\ Advance(Received) /\ initialized' = initialized
      BY <1>2, <1>5, ReliedTransaction DEF Commands
    <2>2. Idle /\ cells[call.page] = call.before
      BY <1>3, <1>5 DEF WriteBbmInv
    <2>3. /\ chip'.op = "PAGE_READ" /\ chip'.page = call.page /\ UNCHANGED <<cache, cells>>
          /\ chip'.protect = chip.protect /\ chip'.config = chip.config
      BY <1>2, <1>3, <1>5, <2>1, <2>2, CommandFacts
    <2>4. /\ call'.op = "write_bbm" /\ call'.page = call.page /\ call'.before = call.before
          /\ call'.ret = "running" /\ Pos' = 2
      BY <1>1, <1>5, <2>1, ReliedAdvance
    <2>5. WriteBbmInv'
      BY <2>2, <2>3, <2>4 DEF WriteBbmInv, Fetching
    <2> QED BY <1>3, <1>4, <2>1, <2>3, <2>4, <2>5
  <1>6. CASE Pos = 2
    <2>1. Idle /\ Advance(call) /\ UNCHANGED <<initialized, chip, cache, cells>>
      BY <1>2, <1>6, ReliedWait
    <2>2. Loaded /\ cells[call.page] = call.before
      BY <1>3, <1>6, <2>1 DEF WriteBbmInv, Fetching, Idle
    <2>3. /\ call'.op = "write_bbm" /\ call'.page = call.page /\ call'.before = call.before
          /\ call'.garbled = call.garbled /\ call'.ret = "running" /\ Pos' = 3
      BY <1>1, <1>6, <2>1, ReliedAdvance
    <2>4. WriteBbmInv'
      BY <2>1, <2>2, <2>3 DEF WriteBbmInv, Loaded, Idle, Plane
    <2> QED BY <1>3, <1>4, <2>1, <2>3, <2>4
  <1>7. CASE Pos = 3
    <2>1. ChipTakes /\ Advance(Received) /\ initialized' = initialized
      BY <1>2, <1>7, ReliedTransaction DEF Commands
    <2>2. Loaded /\ cells[call.page] = call.before
      BY <1>3, <1>7 DEF WriteBbmInv
    <2>3. /\ chip'.op = "idle" /\ chip'.wel /\ UNCHANGED <<cache, cells>>
          /\ chip'.protect = chip.protect /\ chip'.config = chip.config
      BY <1>2, <1>3, <1>7, <2>1, <2>2, CommandFacts DEF Loaded
    <2>4. /\ call'.op = "write_bbm" /\ call'.page = call.page /\ call'.before = call.before
          /\ call'.garbled = call.garbled /\ call'.ret = "running" /\ Pos' = 4
      BY <1>1, <1>7, <2>1, ReliedAdvance
    <2>5. WriteBbmInv'
      BY <2>2, <2>3, <2>4 DEF WriteBbmInv, Loaded, Idle, Plane
    <2> QED BY <1>3, <1>4, <2>1, <2>3, <2>4, <2>5
  <1>8. CASE Pos = 4
    <2>1. step.cmd = "PROGRAM_LOAD_RANDOM" /\ step.col = Spare /\ step.plane = Plane
      BY <1>2, <1>8 DEF At
    <2>2. ChipTakes /\ Advance(Received) /\ initialized' = initialized
      BY <2>1, ReliedTransaction DEF Commands
    <2>3. Loaded /\ Idle /\ chip.wel /\ cells[call.page] = call.before
      BY <1>3, <1>8 DEF WriteBbmInv
    <2>4. /\ UNCHANGED <<chip, cells>>
          /\ cache' = [cache EXCEPT ![Plane] = [@ EXCEPT ![Spare] = call.image[Spare]]]
      BY <1>3, <2>1, <2>2, <2>3, CommandFacts
    <2>5. /\ call'.op = "write_bbm" /\ call'.page = call.page /\ call'.before = call.before
          /\ call'.image = call.image /\ call'.garbled = call.garbled
          /\ call'.ret = "running" /\ Pos' = 5
      BY <1>1, <1>8, <2>2, ReliedAdvance
    <2>6. /\ cache'[Plane] \in Image
          /\ \A i \in Columns : cache'[Plane][i] = IF i = Spare THEN call.image[Spare]
                                                               ELSE cache[Plane][i]
      <3>1. Plane \in Planes /\ cache[Plane] \in Image
        BY <1>3, ReliedFacts DEF TypeOK
      <3>2. cache'[Plane] = [cache[Plane] EXCEPT ![Spare] = call.image[Spare]]
        BY <1>3, <2>4, <3>1 DEF TypeOK
      <3>3. call.image[Spare] \in SUBSET Bits
        BY ColumnFacts, ReliedFacts DEF CallType, Image
      <3> QED BY <3>1, <3>2, <3>3, ColumnFacts DEF Image
    <2>7. \A i \in Columns : i # Spare => call.image[i] = {}
      BY ReliedFacts DEF StepsInv
    <2>8. \A i \in Preserved : \/ cache'[Plane][i] = call.image[i]
                               \/ cache'[Plane][i] = call.before[i] /\ call.image[i] = {}
      <3>1. CASE call.garbled
        <4>1. Preserved = {Spare}
          BY <3>1 DEF Preserved
        <4>2. cache'[Plane][Spare] = call.image[Spare]
          BY <2>6, ColumnFacts
        <4> QED BY <4>1, <4>2, Zenon
      <3>2. CASE ~call.garbled
        <4>1. Preserved = Columns /\ cache[Plane] = call.before
          BY <2>3, <3>2 DEF Preserved, Loaded
        <4> TAKE i \in Preserved
        <4>2. i \in Columns
          BY <4>1
        <4>3. CASE i = Spare
          <5>1. cache'[Plane][Spare] = call.image[Spare]
            BY <2>6, ColumnFacts
          <5> QED BY <4>3, <5>1, Zenon
        <4>4. CASE i # Spare
          BY <2>6, <2>7, <4>1, <4>2, <4>4
        <4> QED BY <4>3, <4>4
      <3> QED BY <3>1, <3>2
    <2>9. Programmed(call.before, Program(call.before, cache'[Plane]))
      BY <1>3, <2>6, <2>8, ProgramFacts
    <2>10. Prepared' /\ Idle' /\ chip'.wel
      <3>1. cache'[Plane'] = cache'[Plane] /\ Preserved' = Preserved
        BY <2>5 DEF Plane, Preserved
      <3>2. Programmed(call.before, Program(call.before, cache[Plane]))'
        BY <2>5, <2>9, <3>1 DEF Programmed, Program
      <3> QED BY <2>3, <2>4, <2>5, <3>2 DEF Prepared, Idle
    <2>11. WriteBbmInv'
      BY <2>5, <2>10 DEF WriteBbmInv
    <2> QED BY <1>3, <1>4, <2>2, <2>4, <2>5, <2>11
  <1>9. CASE Pos = 5
    <2>1. Idle /\ chip.wel /\ Prepared
      BY <1>3, <1>9 DEF WriteBbmInv
    <2>2. /\ Programming' /\ initialized' /\ ~chip'.protect /\ chip'.config = ConfigBits
          /\ call'.op = call.op /\ call'.ret = "running" /\ Pos' = 6
      BY <1>1, <1>2, <1>9, <2>1, ProgramStarts
    <2>3. WriteBbmInv'
      BY <2>2 DEF WriteBbmInv
    <2> QED BY <1>4, <2>2, <2>3
  <1>10. CASE Pos = 6
    <2>1. Programming
      BY <1>3, <1>10 DEF WriteBbmInv
    <2> QED BY <1>1, <1>2, <1>10, <2>1, ProgramEnds
  <1> QED BY <1>1, <1>5, <1>6, <1>7, <1>8, <1>9, <1>10

\* erase_block: the erase is carried out or has failed when the call returns.
LEMMA EraseStep == ASSUME Relied, call.op = "erase_block" PROVE Sound'
  <1>1. Total(call) = 3 /\ Pos \in 1 .. 3
    BY ReliedFacts DEF Total
  <1>2. /\ Pos = 1 => step.cmd = "WRITE_ENABLE"
        /\ Pos = 2 => step.cmd = "ERASE_BLOCK"
        /\ Pos = 3 => step.cmd = "wait_program_erase"
    BY <1>1, ReliedFacts DEF StepOf, erase_block_steps, Do, At
  <1>3. EraseInv /\ initialized /\ ~chip.protect /\ chip.config = ConfigBits /\ TypeOK
    BY ReliedFacts
  <1>4. ASSUME call'.op = "erase_block", call'.ret = "running", EraseInv',
               initialized', ~chip'.protect, chip'.config = ConfigBits
        PROVE  Sound'
    BY <1>4 DEF Sound, TrustedInv, ReadPageInv, ReadBbmInv, WriteBbmInv, WritePageInv,
                ReadRight, OkIsDone, FailureIsOwn, Returned
  <1>5. CASE Pos = 1
    <2>1. ChipTakes /\ Advance(Received) /\ initialized' = initialized
      BY <1>2, <1>5, ReliedTransaction DEF Commands
    <2>2. Idle
      BY <1>3, <1>5 DEF EraseInv
    <2>3. /\ chip'.op = "idle" /\ chip'.wel
          /\ chip'.protect = chip.protect /\ chip'.config = chip.config
      BY <1>2, <1>3, <1>5, <2>1, <2>2, CommandFacts
    <2>4. call'.op = "erase_block" /\ call'.ret = "running" /\ Pos' = 2
      BY <1>1, <1>5, <2>1, ReliedAdvance
    <2>5. EraseInv'
      BY <2>3, <2>4 DEF EraseInv, Idle
    <2> QED BY <1>3, <1>4, <2>1, <2>3, <2>4, <2>5
  <1>6. CASE Pos = 2
    <2>1. ChipTakes /\ Advance(Received) /\ initialized' = initialized
      BY <1>2, <1>6, ReliedTransaction DEF Commands
    <2>2. Idle /\ chip.wel
      BY <1>3, <1>6 DEF EraseInv
    <2>3. /\ chip'.op = "ERASE_BLOCK" /\ chip'.page = call.page
          /\ chip'.bits = chip.bits \ {"ERASE_FAILED", "PROGRAM_FAILED"}
          /\ chip'.protect = chip.protect /\ chip'.config = chip.config
      BY <1>2, <1>3, <1>6, <2>1, <2>2, CommandFacts
    <2>4. call'.op = "erase_block" /\ call'.page = call.page /\ call'.ret = "running" /\ Pos' = 3
      BY <1>1, <1>6, <2>1, ReliedAdvance
    <2>5. chip'.bits \cap FailBits = {}
      BY <2>3 DEF FailBits
    <2>6. EraseInv'
      BY <2>3, <2>4, <2>5 DEF EraseInv, Erasing
    <2> QED BY <1>3, <1>4, <2>1, <2>3, <2>4, <2>6
  <1>7. CASE Pos = 3
    <2>1. /\ Idle /\ UNCHANGED <<initialized, chip, cache, cells>>
          /\ chip.bits \cap FailBits = {} => Advance(call)
          /\ chip.bits \cap FailBits = {"ERASE_FAILED"} => Return(call, "ERASE_FAILED")
      BY <1>2, <1>7, ReliedWaitProgram
    <2>2. Erasing
      BY <1>3, <1>7 DEF EraseInv
    <2>3. CASE chip.bits \cap FailBits = {"ERASE_FAILED"} /\ call.failed
      BY <2>1, <2>3, ReliedReturn DEF Rets
    <2>4. CASE /\ chip.bits \cap FailBits = {}
               /\ \A p \in Pages : Block(p) = Block(call.page) => cells[p] = Erased
      <3>1. call'.op = "erase_block" /\ call'.page = call.page /\ call'.ret = "OK"
        BY <1>1, <1>7, <2>1, <2>4, ReliedAdvance
      <3>2. TrustedInv'
        BY <1>3, <2>1, <3>1 DEF TrustedInv, Idle
      <3>3. OkIsDone'
        BY <2>1, <2>4, <3>1 DEF OkIsDone, Returned
      <3> QED BY <3>1, <3>2, <3>3 DEF Sound, ReadRight, FailureIsOwn, Returned
    <2> QED BY <2>1, <2>2, <2>3, <2>4 DEF Erasing, Idle
  <1> QED BY <1>1, <1>5, <1>6, <1>7

\* write_page: every piece goes into the cache of the page, the first one after the cache
\* was cleared, so that nothing but the client's bytes is programmed.
LEMMA WritePageStep == ASSUME Relied, call.op = "write_page" PROVE Sound'
  <1>0. call.len \in Nat /\ call.len > 0 /\ call.len <= Chunks
    BY ReliedFacts DEF StepsInv
  <1>1. Total(call) = call.len + 3 /\ Pos \in 1 .. call.len + 3
    BY ReliedFacts DEF Total
  <1>2. /\ Pos = 1 => step.cmd = "WRITE_ENABLE"
        /\ Pos \in 2 .. call.len + 1 =>
              step = At(IF Pos = 2 THEN "PROGRAM_LOAD" ELSE "PROGRAM_LOAD_RANDOM", Pos - 1, Plane)
        /\ Pos = call.len + 2 => step.cmd = "PROGRAM_EXECUTE"
        /\ Pos = call.len + 3 => step.cmd = "wait_program_erase"
    BY <1>0, <1>1, ReliedFacts DEF StepOf, Do, At, Plane
  <1>3. WritePageInv /\ initialized /\ ~chip.protect /\ chip.config = ConfigBits /\ TypeOK
    BY ReliedFacts
  <1>4. ASSUME call'.op = "write_page", call'.ret = "running", WritePageInv',
               initialized', ~chip'.protect, chip'.config = ConfigBits
        PROVE  Sound'
    BY <1>4 DEF Sound, TrustedInv, ReadPageInv, ReadBbmInv, WriteBbmInv, EraseInv, ReadRight,
                OkIsDone, FailureIsOwn, Returned
  <1>5. CASE Pos = 1
    <2>1. ChipTakes /\ Advance(Received) /\ initialized' = initialized
      BY <1>2, <1>5, ReliedTransaction DEF Commands
    <2>2. Idle /\ cells[call.page] = call.before
      BY <1>0, <1>3, <1>5 DEF WritePageInv
    <2>3. /\ chip'.op = "idle" /\ chip'.wel /\ UNCHANGED <<cache, cells>>
          /\ chip'.protect = chip.protect /\ chip'.config = chip.config
      BY <1>2, <1>3, <1>5, <2>1, <2>2, CommandFacts
    <2>4. /\ call'.op = "write_page" /\ call'.page = call.page /\ call'.before = call.before
          /\ call'.len = call.len /\ call'.ret = "running" /\ Pos' = 2
      BY <1>0, <1>1, <1>5, <2>1, ReliedAdvance
    <2>5. 2 \notin 3 .. call.len + 2 /\ 2 # call.len + 3
      BY <1>0
    <2>6. WritePageInv'
      BY <2>2, <2>3, <2>4, <2>5 DEF WritePageInv, Idle
    <2> QED BY <1>3, <1>4, <2>1, <2>3, <2>4, <2>6
  <1>6. CASE Pos \in 2 .. call.len + 1
    <2> DEFINE n == Pos - 1
    <2>0. n \in 1 .. call.len /\ Pos = n + 1 /\ n \in Nat /\ (Pos = 2 <=> n = 1) /\ n \in Columns
      BY <1>0, <1>6, ColumnFacts DEF Columns
    <2>1. /\ step.cmd = (IF n = 1 THEN "PROGRAM_LOAD" ELSE "PROGRAM_LOAD_RANDOM")
          /\ step.col = n /\ step.plane = Plane
      BY <1>2, <1>6, <2>0 DEF At
    <2> HIDE DEF n
    <2>2. ChipTakes /\ Advance(Received) /\ initialized' = initialized
      BY <2>1, ReliedTransaction DEF Commands
    <2>3. /\ Idle /\ cells[call.page] = call.before /\ chip.wel
          /\ n # 1 => \A c \in Columns :
                cache[Plane][c] = IF c <= n - 1 THEN call.image[c] ELSE {}
      <3>1. Pos <= call.len + 2 /\ Pos \in 2 .. call.len + 2 /\ Pos - 2 = n - 1
        BY <1>0, <2>0
      <3>2. n # 1 => Pos \in 3 .. call.len + 2
        BY <1>0, <2>0
      <3> QED BY <1>3, <3>1, <3>2 DEF WritePageInv
    <2> DEFINE old == IF n = 1 THEN Erased ELSE cache[Plane]
    <2>4. /\ UNCHANGED <<chip, cells>>
          /\ cache' = [cache EXCEPT ![Plane] = [old EXCEPT ![n] = call.image[n]]]
      BY <1>3, <2>1, <2>2, <2>3, CommandFacts
    <2>5. old \in Image /\ \A c \in Columns : old[c] = IF c <= n - 1 THEN call.image[c] ELSE {}
      <3>1. Plane \in Planes /\ cache[Plane] \in Image
        BY <1>3, ReliedFacts DEF TypeOK
      <3>2. CASE n = 1
        BY <3>2, ImageFacts DEF Erased, Columns
      <3>3. CASE n # 1
        BY <2>3, <3>1, <3>3
      <3> QED BY <3>2, <3>3
    <2> HIDE DEF old
    <2>6. /\ call'.op = "write_page" /\ call'.page = call.page /\ call'.before = call.before
          /\ call'.image = call.image /\ call'.len = call.len
          /\ call'.ret = "running" /\ Pos' = n + 2
      BY <1>0, <1>1, <2>0, <2>2, ReliedAdvance
    <2>7. \A c \in Columns : cache'[Plane][c] = IF c <= n THEN call.image[c] ELSE {}
      <3>1. cache'[Plane] = [old EXCEPT ![n] = call.image[n]]
        BY <1>3, <2>4, ReliedFacts DEF TypeOK
      <3>2. \A c \in Columns : cache'[Plane][c] = IF c = n THEN call.image[n] ELSE old[c]
        BY <2>0, <2>5, <3>1 DEF Image
      <3>3. \A c \in Columns : c <= n <=> (c = n \/ c <= n - 1)
        BY <2>0 DEF Columns
      <3> QED BY <2>0, <2>5, <3>2, <3>3
    <2>8. /\ Pos' - 2 = n /\ Pos' # call'.len + 3 /\ Plane' = Plane
      BY <1>0, <2>0, <2>6 DEF Plane
    <2>9. WritePageInv'
      BY <2>3, <2>4, <2>6, <2>7, <2>8 DEF WritePageInv, Idle
    <2> QED BY <1>3, <1>4, <2>2, <2>4, <2>6, <2>9
  <1>7. CASE Pos = call.len + 2
    <2>1. /\ Idle /\ cells[call.page] = call.before /\ chip.wel
          /\ \A c \in Columns : cache[Plane][c] = IF c <= call.len THEN call.image[c] ELSE {}
      <3>1. /\ Pos <= call.len + 2 /\ Pos \in 2 .. call.len + 2 /\ Pos \in 3 .. call.len + 2
            /\ Pos - 2 = call.len
        BY <1>0, <1>7
      <3> QED BY <1>3, <3>1 DEF WritePageInv
    <2>2. \A c \in Columns : cache[Plane][c] = call.image[c]
      BY <2>1, ReliedFacts DEF StepsInv
    <2>3. call.before \in Image /\ call.image \in Image /\ cache[Plane] \in Image
      BY <1>3, ReliedFacts DEF CallType, TypeOK
    <2>4. Prepared
      <3>1. Preserved \subseteq Columns
        BY ColumnFacts DEF Preserved
      <3>2. \A c \in Preserved : cache[Plane][c] = call.image[c]
        BY <2>2, <3>1, Zenon
      <3>3. Programmed(call.before, Program(call.before, cache[Plane]))
        BY <1>3, <2>3, <3>2, ProgramFacts
      <3> QED BY <2>1, <3>3 DEF Prepared
    <2>5. Pos # Total(call)
      BY <1>0, <1>1, <1>7
    <2>6. /\ Programming' /\ initialized' /\ ~chip'.protect /\ chip'.config = ConfigBits
          /\ call'.op = call.op /\ call'.len = call.len /\ call'.ret = "running"
          /\ Pos' = call.len + 3
      BY <1>0, <1>2, <1>7, <2>1, <2>4, <2>5, ProgramStarts
    <2>7. /\ ~(Pos' <= call'.len + 2) /\ Pos' \notin 2 .. call'.len + 2
          /\ Pos' \notin 3 .. call'.len + 2
      BY <1>0, <2>6
    <2>8. WritePageInv'
      BY <2>6, <2>7 DEF WritePageInv
    <2> QED BY <1>4, <2>6, <2>8
  <1>8. CASE Pos = call.len + 3
    <2>1. Programming
      BY <1>3, <1>8 DEF WritePageInv
    <2> QED BY <1>1, <1>2, <1>8, <2>1, ProgramEnds
  <1> QED BY <1>0, <1>1, <1>5, <1>6, <1>7, <1>8

(***************************************************************************)
(* Every step of a call                                                    *)
(***************************************************************************)
\* Every step of the driver keeps the invariant.
LEMMA DriverStep == ASSUME NandInv, Driver PROVE NandInv'
  <1>1. TypeOK' /\ StepsInv'
    BY DriverBase
  <1>2. TypeOK /\ StepsInv /\ call.ret = "running" /\ call \in CallType
    BY DriverMoves DEF NandInv, TypeOK
  <1>3. step \in Steps
    BY <1>2, StepFacts
  <1>4. PICK c \in {call, Received} :
            Advance(c) \/ \E ret \in Rets \ {"running"} : Return(c, ret)
    BY DriverMoves
  <1>5. /\ c \in CallType /\ c.op = call.op /\ c.page = call.page /\ c.image = call.image
        /\ c.len = call.len /\ c.steps = call.steps /\ c.ret = "running"
    BY <1>2, <1>3, <1>4, ReceivedFacts
  <1>6. call'.op = call.op
    BY <1>2, <1>4, <1>5, AdvanceFacts, ReturnFacts
  <1>7. call.op # "attach" /\ trusted' => trusted
    BY <1>2, <1>4, <1>5, AdvanceFacts, ReturnFacts
  <1>8. CASE call.op = "attach"
    BY <1>1, <1>8, AttachStep DEF NandInv
  <1>9. CASE call.op # "attach" /\ ~trusted'
    BY <1>1, <1>6, <1>9, NotKept DEF NandInv, Kept
  <1>10. CASE call.op # "attach" /\ trusted'
    <2>1. Relied
      BY <1>7, <1>10 DEF Relied
    <2>2. call.op \in {"read_bbm", "write_bbm", "write_page", "erase_block", "read_page"}
      BY <1>2, <1>10 DEF CallType, Ops
    <2>3. Sound'
      BY <2>1, <2>2, ReadBbmStep, WriteBbmStep, WritePageStep, EraseStep, ReadPageStep
    <2>4. AttachInv'
      BY <1>6, <1>10 DEF AttachInv
    <2> QED BY <1>1, <2>3, <2>4 DEF NandInv, Sound
  <1> QED BY <1>8, <1>9, <1>10

(***************************************************************************)
(* The chip by itself                                                      *)
(***************************************************************************)
\* When the chip is done it is idle, and of the call only the history has changed.
LEMMA ChipFrame ==
    ASSUME NandInv, Chip
    PROVE  /\ TypeOK' /\ StepsInv' /\ ~Idle /\ Idle'
           /\ call'.op = call.op /\ call'.page = call.page /\ call'.image = call.image
           /\ call'.len = call.len /\ call'.ret = call.ret /\ call'.before = call.before
           /\ chip'.protect = chip.protect /\ chip'.config = chip.config
           /\ Pos' = Pos /\ UNCHANGED <<initialized, trusted>>
  <1>1. TypeOK /\ StepsInv /\ call \in CallType /\ chip \in ChipType
    BY DEF NandInv, TypeOK
  <1>2. /\ call' \in CallType /\ call'.steps = call.steps
        /\ call'.op = call.op /\ call'.page = call.page /\ call'.image = call.image
        /\ call'.len = call.len /\ call'.ret = call.ret /\ call'.before = call.before
    <2>1. CASE ChipReads
      BY <1>1, <2>1 DEF ChipReads, CallType
    <2>2. CASE ChipPrograms
      <3>1. PICK ok \in BOOLEAN : call' = [call EXCEPT !.failed = ~ok]
        BY <2>2 DEF ChipPrograms
      <3>2. (~ok) \in BOOLEAN
        BY Zenon
      <3> QED BY <1>1, <3>1, <3>2 DEF CallType
    <2>3. CASE ChipResets
      BY <1>1, <2>3 DEF ChipResets
    <2> QED BY <2>1, <2>2, <2>3 DEF Chip
  <1>3. /\ chip' \in ChipType /\ ~Idle /\ Idle'
        /\ chip'.protect = chip.protect /\ chip'.config = chip.config
    <2>1. CASE ChipReads
      <3>1. PICK b : b \subseteq {"ECC_UNCORR"} /\
                 chip' = [chip EXCEPT !.op = "idle", !.bits = (@ \ {"ECC_UNCORR"}) \cup b]
        BY <2>1 DEF ChipReads
      <3>2. (chip.bits \ {"ECC_UNCORR"}) \cup b \in SUBSET StatusBits
        BY <1>1, <3>1 DEF ChipType, StatusBits
      <3>3. chip.op # "idle"
        BY <2>1 DEF ChipReads
      <3> QED BY <1>1, <3>1, <3>2, <3>3 DEF ChipType, ChipOps, Idle
    <2>2. CASE ChipPrograms
      <3>1. PICK b : b \subseteq {"ERASE_FAILED", "PROGRAM_FAILED"} /\
                 chip' = [chip EXCEPT !.op = "idle", !.wel = FALSE, !.bits = @ \cup b]
        BY <2>2 DEF ChipPrograms
      <3>2. chip.bits \cup b \in SUBSET StatusBits
        BY <1>1, <3>1 DEF ChipType, StatusBits
      <3>3. chip.op # "idle"
        BY <2>2 DEF ChipPrograms
      <3> QED BY <1>1, <3>1, <3>2, <3>3 DEF ChipType, ChipOps, Idle
    <2>3. CASE ChipResets
      BY <1>1, <2>3 DEF ChipResets, ChipType, ChipOps, Idle
    <2> QED BY <2>1, <2>2, <2>3 DEF Chip
  <1>4. cache' \in [Planes -> Image]
    <2>1. CASE ChipReads
      <3>1. chip.page \in Pages /\ plane_bit(chip.page) \in Planes
        BY <1>1, PageFacts DEF ChipType
      <3>2. PICK image \in Image : cache' = [cache EXCEPT ![plane_bit(chip.page)] = image]
        BY <1>1, <2>1, <3>1 DEF ChipReads, Garbled, TypeOK, Image
      <3> QED BY <1>1, <3>1, <3>2 DEF TypeOK
    <2> QED BY <1>1, <2>1 DEF Chip, ChipPrograms, ChipResets, TypeOK
  <1>5. cells' \in [Pages -> Image]
    BY <1>1, CompletedType DEF Chip, ChipReads, ChipPrograms, ChipResets, Aborts, TypeOK
  <1>6. UNCHANGED <<initialized, status, trusted, calls>>
    BY DEF Chip, ChipReads, ChipPrograms, ChipResets
  <1>7. TypeOK'
    BY <1>1, <1>2, <1>3, <1>4, <1>5, <1>6 DEF TypeOK
  <1>8. Total(call') = Total(call) /\ Pos' = Pos
    BY <1>2 DEF Total, Pos, Place
  <1>9. \A p : StepOf(call', p) = StepOf(call, p)
    BY <1>2 DEF StepOf
  <1>10. StepsInv'
    BY <1>1, <1>2, <1>8, <1>9 DEF StepsInv
  <1> QED BY <1>2, <1>3, <1>6, <1>7, <1>8, <1>10

\* What the chip can be doing while the client relies on it: what the running call waits
\* for, and nothing else.
AtWork ==
    \/ /\ ChipReads /\ Fetching /\ Pos = 2 /\ call.op \in {"read_page", "read_bbm", "write_bbm"}
       /\ call.op = "write_bbm" => cells[call.page] = call.before
    \/ /\ ChipPrograms /\ chip.op = "PROGRAM_EXECUTE" /\ chip.page = call.page
       /\ Prepared /\ chip.bits \cap FailBits = {}
       /\ \/ call.op = "write_bbm" /\ Pos = 6
          \/ call.op = "write_page" /\ Pos = call.len + 3
    \/ /\ ChipPrograms /\ chip.op = "ERASE_BLOCK" /\ chip.page = call.page
       /\ chip.bits \cap FailBits = {} /\ call.op = "erase_block" /\ Pos = 3

\* The chip works for the running call only: an operation an earlier call has started
\* is over when that call returns.
LEMMA AtWorkFacts ==
    ASSUME NandInv, Chip, trusted
    PROVE  AtWork /\ call.ret = "running"
  <1>1. TypeOK /\ StepsInv /\ AttachInv /\ TrustedInv /\ call \in CallType
    BY DEF NandInv, TypeOK
  <1>2. ~Idle
    BY ChipFrame
  <1>3. call.ret = "running" /\ call.op # "attach"
    BY <1>1, <1>2 DEF TrustedInv, AttachInv
  <1>4. ReadPageInv /\ ReadBbmInv /\ WriteBbmInv /\ WritePageInv /\ EraseInv
    BY <1>1, <1>3 DEF TrustedInv
  <1>5. Pos \in 1 .. Total(call) /\ call.len \in Nat
    BY <1>1, <1>3, StepFacts, NandAssumption DEF CallType
  <1>6. /\ chip.op = "PAGE_READ" => ChipReads
        /\ chip.op \in {"PROGRAM_EXECUTE", "ERASE_BLOCK"} => ChipPrograms
    BY DEF Chip, ChipReads, ChipPrograms, ChipResets
  <1>7. CASE call.op = "read_page"
    <2>1. Pos \in 1 .. call.len + 3
      BY <1>5, <1>7 DEF Total
    <2>2. Pos \in {1, 2, 3} \/ Pos >= 4
      BY <1>5, <2>1
    <2>3. Pos = 2 /\ Fetching
      BY <1>2, <1>4, <1>7, <2>2 DEF ReadPageInv, Loaded
    <2> QED BY <1>3, <1>6, <1>7, <2>3 DEF AtWork, Fetching
  <1>8. CASE call.op = "read_bbm"
    <2>1. Pos \in 1 .. 3
      BY <1>5, <1>8 DEF Total
    <2>2. Pos = 2 /\ Fetching
      BY <1>2, <1>4, <1>8, <2>1 DEF ReadBbmInv, Loaded
    <2> QED BY <1>3, <1>6, <1>8, <2>2 DEF AtWork, Fetching
  <1>9. CASE call.op = "write_bbm"
    <2>1. Pos \in 1 .. 6
      BY <1>5, <1>9 DEF Total
    <2>2. \/ Pos = 2 /\ Fetching /\ cells[call.page] = call.before
          \/ Pos = 6 /\ Programming
      BY <1>2, <1>4, <1>9, <2>1 DEF WriteBbmInv, Loaded
    <2> QED BY <1>2, <1>3, <1>6, <1>9, <2>2 DEF AtWork, Fetching, Programming
  <1>10. CASE call.op = "write_page"
    <2>1. Pos \in 1 .. call.len + 3
      BY <1>5, <1>10 DEF Total
    <2>2. Pos <= call.len + 2 \/ Pos = call.len + 3
      BY <1>5, <2>1
    <2>3. Pos = call.len + 3 /\ Programming
      BY <1>2, <1>4, <1>10, <2>2 DEF WritePageInv
    <2> QED BY <1>2, <1>3, <1>6, <1>10, <2>3 DEF AtWork, Programming
  <1>11. CASE call.op = "erase_block"
    <2>1. Pos \in 1 .. 3
      BY <1>5, <1>11 DEF Total
    <2>2. Pos = 3 /\ Erasing
      BY <1>2, <1>4, <1>11, <2>1 DEF EraseInv
    <2> QED BY <1>2, <1>3, <1>6, <1>11, <2>2 DEF AtWork, Erasing
  <1>12. call.op \in Ops
    BY <1>1 DEF CallType
  <1> QED BY <1>3, <1>7, <1>8, <1>9, <1>10, <1>11, <1>12 DEF Ops

\* The page has been read into its cache.
LEMMA ReadsDone ==
    ASSUME NandInv, trusted, ChipReads, Fetching
    PROVE  (Loaded /\ Told)' /\ cells' = cells
  <1>1. TypeOK /\ chip \in ChipType /\ call \in CallType /\ chip.config = ConfigBits
    BY DEF NandInv, TypeOK, TrustedInv
  <1>2. Idle' /\ call'.page = call.page
    BY ChipFrame DEF Chip
  <1>3. chip.page = call.page /\ Plane \in Planes
    BY <1>1, PageFacts DEF Fetching, Plane, CallType
  <1>4. PICK garbled \in BOOLEAN :
            /\ chip' = [chip EXCEPT !.op = "idle",
                   !.bits = (@ \ {"ECC_UNCORR"})
                       \cup (IF garbled /\ "ECC_EN" \in chip.config THEN {"ECC_UNCORR"} ELSE {})]
            /\ call' = [call EXCEPT !.garbled = garbled]
            /\ \E image \in (IF garbled THEN Garbled(cells[chip.page]) ELSE {cells[chip.page]}) :
                  cache' = [cache EXCEPT ![plane_bit(chip.page)] = image]
    BY DEF ChipReads
  <1>5. call'.garbled = garbled /\ ("ECC_UNCORR" \in chip'.bits <=> garbled)
    BY <1>1, <1>4 DEF ConfigBits, CallType, ChipType
  <1>6. /\ cache'[Plane][Spare] = cells[call.page][Spare]
        /\ ~garbled => cache'[Plane] = cells[call.page]
    <2>1. PICK image \in (IF garbled THEN Garbled(cells[call.page]) ELSE {cells[call.page]}) :
              cache' = [cache EXCEPT ![Plane] = image]
      BY <1>3, <1>4 DEF Plane
    <2>2. cache'[Plane] = image
      BY <1>1, <1>3, <2>1 DEF TypeOK
    <2>3. image[Spare] = cells[call.page][Spare] /\ (~garbled => image = cells[call.page])
      BY <2>1 DEF Garbled
    <2> QED BY <2>2, <2>3
  <1>7. cells' = cells
    BY DEF ChipReads
  <1> QED BY <1>2, <1>5, <1>6, <1>7 DEF Loaded, Told, Plane

\* A program or an erase has been carried out, or has failed.
LEMMA ProgramsDone ==
    ASSUME NandInv, trusted, ChipPrograms, chip.page = call.page, chip.bits \cap FailBits = {}
    PROVE  /\ (cells' = Completed \/ cells' = cells) /\ call'.garbled = call.garbled
           /\ \/ cells' = Completed /\ chip'.bits \cap FailBits = {}
              \/ /\ call'.failed
                 /\ chip.op = "PROGRAM_EXECUTE" => chip'.bits \cap FailBits = {"PROGRAM_FAILED"}
                 /\ chip.op = "ERASE_BLOCK" => chip'.bits \cap FailBits = {"ERASE_FAILED"}
  <1>1. TypeOK /\ chip \in ChipType /\ call \in CallType
    BY DEF NandInv, TypeOK
  <1>2. PICK ok \in BOOLEAN :
          /\ cells' \in (IF ok THEN {Completed} ELSE IF chip.protect THEN {cells} ELSE Aborts)
          /\ chip' = [chip EXCEPT !.op = "idle", !.wel = FALSE,
                 !.bits = @ \cup (IF ok THEN {} ELSE IF chip.op = "ERASE_BLOCK"
                                                   THEN {"ERASE_FAILED"} ELSE {"PROGRAM_FAILED"})]
          /\ call' = [call EXCEPT !.failed = ~ok]
    BY DEF ChipPrograms
  <1>3. (cells' = Completed \/ cells' = cells) /\ call'.garbled = call.garbled
    BY <1>1, <1>2 DEF Aborts, CallType
  <1>4. CASE ok
    <2>1. cells' = Completed /\ chip'.bits = chip.bits
      BY <1>1, <1>2, <1>4 DEF ChipType
    <2> QED BY <1>3, <2>1
  <1>5. CASE ~ok
    <2>1. call'.failed
      BY <1>1, <1>2, <1>5 DEF CallType
    <2>2. chip'.bits = chip.bits \cup (IF chip.op = "ERASE_BLOCK" THEN {"ERASE_FAILED"}
                                       ELSE {"PROGRAM_FAILED"})
      BY <1>1, <1>2, <1>5 DEF ChipType
    <2>3. chip.op = "PROGRAM_EXECUTE" => chip'.bits \cap FailBits = {"PROGRAM_FAILED"}
      BY <2>2 DEF FailBits
    <2>4. chip.op = "ERASE_BLOCK" => chip'.bits \cap FailBits = {"ERASE_FAILED"}
      BY <2>2 DEF FailBits
    <2> QED BY <1>3, <2>1, <2>3, <2>4
  <1> QED BY <1>4, <1>5

\* What a completed operation has done to the pages
LEMMA CompletedFacts ==
    ASSUME TypeOK, chip.page = call.page
    PROVE  /\ chip.op = "PROGRAM_EXECUTE" => \A p \in Pages :
                 Completed[p] = IF p = call.page THEN Program(cells[p], cache[Plane])
                                ELSE cells[p]
           /\ chip.op = "ERASE_BLOCK" => \A p \in Pages :
                 Completed[p] = IF Block(p) = Block(call.page) THEN Erased ELSE cells[p]
  BY DEF Completed, Plane, TypeOK

\* Every step the chip makes by itself keeps the invariant.
LEMMA ChipStep == ASSUME NandInv, Chip PROVE NandInv'
  <1>1. TypeOK' /\ StepsInv' /\ Idle' /\ TypeOK
    BY ChipFrame DEF NandInv
  <1>2. /\ call'.op = call.op /\ call'.page = call.page /\ call'.image = call.image
        /\ call'.len = call.len /\ call'.ret = call.ret /\ call'.before = call.before
        /\ chip'.protect = chip.protect /\ chip'.config = chip.config
        /\ Pos' = Pos /\ UNCHANGED <<initialized, trusted>>
    BY ChipFrame
  <1>3. AttachInv'
    BY <1>1, <1>2 DEF NandInv, AttachInv, Idle
  <1>4. CASE ~trusted
    BY <1>1, <1>2, <1>3, <1>4
       DEF NandInv, TrustedInv, ReadRight, OkIsDone, FailureIsOwn, Returned
  <1>5. CASE trusted
    <2>1. AtWork /\ call.ret = "running"
      BY <1>5, AtWorkFacts
    <2>2. (ReadRight /\ OkIsDone /\ FailureIsOwn)'
      BY <1>2, <2>1 DEF ReadRight, OkIsDone, FailureIsOwn, Returned
    <2>3. initialized' /\ ~chip'.protect /\ chip'.config = ConfigBits
      BY <1>2, <1>5 DEF NandInv, TrustedInv
    <2>4. (ReadPageInv /\ ReadBbmInv /\ WriteBbmInv /\ WritePageInv /\ EraseInv)'
      <3>1. CASE /\ ChipReads /\ Fetching /\ Pos = 2
                 /\ call.op \in {"read_page", "read_bbm", "write_bbm"}
                 /\ call.op = "write_bbm" => cells[call.page] = call.before
        <4>1. (Loaded /\ Told)' /\ cells' = cells
          BY <1>5, <3>1, ReadsDone
        <4> QED BY <1>2, <3>1, <4>1
                DEF ReadPageInv, ReadBbmInv, WriteBbmInv, WritePageInv, EraseInv
      <3>2. CASE /\ ChipPrograms /\ chip.op = "PROGRAM_EXECUTE" /\ chip.page = call.page
                 /\ Prepared /\ chip.bits \cap FailBits = {}
                 /\ \/ call.op = "write_bbm" /\ Pos = 6
                    \/ call.op = "write_page" /\ Pos = call.len + 3
        <4>1. call.page \in Pages /\ call.len \in Nat
          BY <1>1, NandAssumption DEF TypeOK, CallType
        <4>2. Programmed(call.before, Completed[call.page])
          BY <1>1, <3>2, <4>1, CompletedFacts DEF Prepared
        <4>3. Programming'
          <5>1. Preserved' = Preserved
            BY <1>2, <1>5, <3>2, ProgramsDone DEF Preserved
          <5>2. cells' = Completed => Programmed(call.before, cells[call.page])'
            BY <1>2, <4>2, <5>1 DEF Programmed
          <5> QED BY <1>1, <1>2, <1>5, <3>2, <5>2, ProgramsDone DEF Programming
        <4>4. call.op = "write_page" =>
                 ~(Pos <= call.len + 2) /\ Pos \notin 2 .. call.len + 2
                 /\ Pos \notin 3 .. call.len + 2
          BY <3>2, <4>1
        <4>5. WritePageInv'
          BY <1>2, <4>3, <4>4 DEF WritePageInv
        <4>6. WriteBbmInv'
          BY <1>2, <3>2, <4>3 DEF WriteBbmInv
        <4> QED BY <1>2, <3>2, <4>5, <4>6 DEF ReadPageInv, ReadBbmInv, EraseInv
      <3>3. CASE /\ ChipPrograms /\ chip.op = "ERASE_BLOCK" /\ chip.page = call.page
                 /\ chip.bits \cap FailBits = {} /\ call.op = "erase_block" /\ Pos = 3
        <4>1. \A p \in Pages : Block(p) = Block(call.page) => Completed[p] = Erased
          BY <1>1, <3>3, CompletedFacts
        <4>2. Erasing'
          BY <1>1, <1>2, <1>5, <3>3, <4>1, ProgramsDone DEF Erasing
        <4>3. EraseInv'
          BY <1>2, <3>3, <4>2 DEF EraseInv
        <4> QED BY <1>2, <3>3, <4>3 DEF ReadPageInv, ReadBbmInv, WriteBbmInv, WritePageInv
      <3> QED BY <2>1, <3>1, <3>2, <3>3 DEF AtWork
    <2>5. TrustedInv'
      BY <1>1, <2>3, <2>4 DEF TrustedInv
    <2> QED BY <1>1, <1>3, <2>2, <2>5 DEF NandInv
  <1> QED BY <1>4, <1>5

(***************************************************************************)
(* The theorems                                                            *)
(***************************************************************************)
\* The chip after power-up satisfies the invariant.
LEMMA InitNand == Init => NandInv
  <1> SUFFICES ASSUME Init PROVE NandInv
    OBVIOUS
  <1>1. chip \in ChipType /\ cache \in [Planes -> Image]
    BY PageFacts, ImageFacts DEF Init, ChipType, ChipOps, ConfigBits, Planes
  <1>2. cells \in [Pages -> Image]
    <2>1. \A p \in Pages :
              [Erased EXCEPT ![Spare] = IF p \in BadPages THEN Bits ELSE {}] \in Image
      BY ImageFacts, ColumnFacts DEF Image
    <2> QED BY <2>1 DEF Init
  <1>3. call \in CallType /\ call.ret = "NOT_INITIALIZED"
    <2>1. cells[0] \in Image /\ <<>> \in Seq(Steps) /\ 0 \in 0 .. Chunks
      BY <1>2, PageFacts, NandAssumption
    <2> QED BY <2>1, PageFacts, ImageFacts
            DEF Init, NewCall, CallType, Ops, Rets
  <1>4. ~trusted
    BY DEF Init
  <1>5. TypeOK
    <2>1. initialized \in BOOLEAN /\ trusted \in BOOLEAN
      BY Zenon DEF Init
    <2> QED BY <1>1, <1>2, <1>3, <2>1 DEF Init, TypeOK
  <1> QED BY <1>3, <1>4, <1>5
          DEF NandInv, StepsInv, AttachInv, TrustedInv, ReadRight, OkIsDone, FailureIsOwn,
              Returned

\* A step that changes nothing keeps the invariant.
LEMMA NandStutter == NandInv /\ UNCHANGED vars => NandInv'
  <1> SUFFICES ASSUME NandInv, UNCHANGED vars PROVE NandInv'
    OBVIOUS
  <1>1. (TypeOK /\ StepsInv /\ AttachInv)'
    BY DEF NandInv, vars, TypeOK, StepsInv, AttachInv, Pos, Place
  <1>2. /\ Pos' = Pos /\ Preserved' = Preserved /\ Plane' = Plane
        /\ UNCHANGED <<initialized, status, call, chip, cache, cells, trusted>>
    BY DEF vars, Pos, Place, Preserved, Plane
  <1>3. (ReadPageInv /\ ReadBbmInv /\ WriteBbmInv /\ WritePageInv /\ EraseInv)'
        <=> (ReadPageInv /\ ReadBbmInv /\ WriteBbmInv /\ WritePageInv /\ EraseInv)
    BY <1>2 DEF ReadPageInv, ReadBbmInv, WriteBbmInv, WritePageInv, EraseInv, Idle, Loaded, Told,
                Fetching, Prepared, Programming, Erasing, Programmed
  <1>4. TrustedInv'
    BY <1>2, <1>3 DEF NandInv, TrustedInv, Idle
  <1>5. (ReadRight /\ OkIsDone /\ FailureIsOwn)'
    BY <1>2 DEF NandInv, ReadRight, OkIsDone, FailureIsOwn, Returned, Programmed
  <1> QED BY <1>1, <1>4, <1>5 DEF NandInv

\* The inductive invariant holds of the driver and its chip in every state.
THEOREM NandInvariant == Spec => []NandInv
  <1>1. NandInv /\ [Next]_vars => NandInv'
    BY CallsStep, DriverStep, ChipStep, NandStutter DEF Next
  <1> QED BY InitNand, <1>1, PTL DEF Spec

\* When stub_target_nand_read_page returns 0 its buffer holds the page, whatever the calls
\* before it have left behind in the chip (ReadRight).
THEOREM NandReadRight == Spec => []ReadRight
  <1>1. NandInv => ReadRight
    BY DEF NandInv
  <1> QED BY <1>1, NandInvariant, PTL

\* When write_page, write_bbm or erase_block returns 0 the cells hold the result, for a
\* write_bbm on a page that could not be corrected its marker (OkIsDone).
THEOREM NandOkIsDone == Spec => []OkIsDone
  <1>1. NandInv => OkIsDone
    BY DEF NandInv
  <1> QED BY <1>1, NandInvariant, PTL

\* A failure a call returns is one of its own operation (FailureIsOwn).
THEOREM NandFailureIsOwn == Spec => []FailureIsOwn
  <1>1. NandInv => FailureIsOwn
    BY DEF NandInv
  <1> QED BY <1>1, NandInvariant, PTL

\* Only attach resets the chip.
LEMMA DriverCells ==
    ASSUME NandInv, Driver, trusted
    PROVE  cells' = cells
  <1>1. TypeOK /\ StepsInv /\ AttachInv /\ call.ret = "running" /\ call \in CallType
    BY DriverMoves DEF NandInv, TypeOK
  <1>2. call.op # "attach" /\ call.op \in Ops
    BY <1>1 DEF AttachInv, CallType
  <1>3. step = StepOf(call, Pos) /\ Pos \in 1 .. Total(call) /\ call.len \in Nat
    BY <1>1, StepFacts, NandAssumption DEF CallType
  <1>4. step.cmd # "RESET"
    <2>1. CASE call.op = "read_bbm"
      BY <1>3, <2>1 DEF Total, StepOf, read_bbm_steps, Do, At
    <2>2. CASE call.op = "write_bbm"
      <3>1. Pos \in 1 .. 6 /\ step = write_bbm_steps(call.page)[Pos]
        BY <1>3, <2>2 DEF Total, StepOf
      <3> QED BY <3>1 DEF write_bbm_steps, Do, At
    <2>3. CASE call.op = "erase_block"
      BY <1>3, <2>3 DEF Total, StepOf, erase_block_steps, Do, At
    <2>4. CASE call.op = "read_page"
      BY <1>3, <2>4 DEF Total, StepOf, Do, At
    <2>5. CASE call.op = "write_page"
      BY <1>3, <2>5 DEF Total, StepOf, Do, At
    <2> QED BY <1>2, <2>1, <2>2, <2>3, <2>4, <2>5 DEF Ops
  <1>5. ChipTakes => cells' = cells
    BY <1>4 DEF ChipTakes
  <1> QED BY <1>5 DEF Driver, spi_nand_transaction, spi_nand_init, SetInitialized, GetRegister,
                      nand_wait_ready, nand_wait_program_erase, nand_check_ecc_after_read

\* Whatever happens to a call the chip changes no page but those the call names, and
\* those only as the call says; the one exception is the data area of a page that
\* write_bbm marks although it could not be corrected (Confined).
THEOREM NandConfined == Spec => Confined
  <1> DEFINE Only == trusted => \A p \in Pages : cells'[p] # cells[p] =>
                \/ call.op = "erase_block" /\ Block(p) = Block(call.page) /\ cells'[p] = Erased
                \/ /\ call.op \in {"write_page", "write_bbm"} /\ p = call.page
                   /\ Programmed(cells[p], cells'[p])
  <1>1. ASSUME NandInv, [Next]_vars PROVE [Only]_vars
    <2>1. CASE UNCHANGED vars
      BY <2>1
    <2>2. CASE Calls
      BY <2>2 DEF Calls, stub_target_nand_attach, read_bbm_Unaligned, stub_target_nand_read_bbm,
                  stub_target_nand_erase_block, stub_target_nand_write_bbm,
                  stub_target_nand_read_page, stub_target_nand_write_page, Begin
    <2>3. CASE Driver
      BY <1>1, <2>3, DriverCells
    <2>4. CASE Chip
      <3> SUFFICES ASSUME trusted, NEW p \in Pages, cells'[p] # cells[p]
                   PROVE  \/ /\ call.op = "erase_block" /\ Block(p) = Block(call.page)
                             /\ cells'[p] = Erased
                          \/ /\ call.op \in {"write_page", "write_bbm"} /\ p = call.page
                             /\ Programmed(cells[p], cells'[p])
        OBVIOUS
      <3>1. AtWork /\ TypeOK
        BY <1>1, <2>4, AtWorkFacts DEF NandInv
      <3>2. ~ChipReads
        BY DEF ChipReads
      <3>3. ChipPrograms /\ chip.page = call.page /\ chip.bits \cap FailBits = {}
        BY <3>1, <3>2 DEF AtWork
      <3>4. cells' = Completed
        BY <1>1, <3>3, ProgramsDone
      <3>5. CASE /\ chip.op = "PROGRAM_EXECUTE" /\ Prepared
                 /\ call.op \in {"write_page", "write_bbm"}
        BY <3>1, <3>3, <3>4, <3>5, CompletedFacts DEF Prepared
      <3>6. CASE chip.op = "ERASE_BLOCK" /\ call.op = "erase_block"
        BY <3>1, <3>3, <3>4, <3>6, CompletedFacts
      <3> QED BY <3>1, <3>2, <3>5, <3>6 DEF AtWork
    <2> QED BY <1>1, <2>1, <2>2, <2>3, <2>4 DEF Next
  <1> QED BY <1>1, NandInvariant, PTL DEF Spec, Confined
=============================================================================
