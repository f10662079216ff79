-------------------------- MODULE FlashWriteProofs --------------------------
(***************************************************************************)
(* Proofs about FlashWrite: whatever is asked for, and wherever a write    *)
(* stops, what it has programmed is a prefix of the caller's buffer, and   *)
(* OK means all of it.                                                     *)
(***************************************************************************)
EXTENDS FlashWrite, FiniteSetTheorems, TLAPS

(***************************************************************************)
(* The inductive invariant                                                 *)
(***************************************************************************)
RequestType == [addr : Nat, size : Nat, encrypt : BOOLEAN]

\* The first n bytes of the request, as they should be in flash, and as they should be read
Prefix(n) == {[at |-> req.addr + k, src |-> k, enc |-> req.encrypt] : k \in 0 .. n - 1}
ReadPrefix(n) == {[at |-> req.addr + k, dst |-> k, garbled |-> FALSE] : k \in 0 .. n - 1}

\* Bytes of the caller's buffer among the first p of the current part
Covered(p) == IF p <= cur.pad THEN 0 ELSE Lesser(p - cur.pad, cur.n)

\* A request that is worked on: not empty, encrypted only in whole blocks
Accepted(r) ==
    /\ r \in RequestType /\ r.size > 0
    /\ r.encrypt => IsAligned(r.addr, 16) /\ IsAligned(r.size, 16)

LoopPcs == {"trigger", "encrypted", "program", "wait"}

FlagsOK ==
    /\ large_flash_mode \in BOOLEAN /\ enc \in BOOLEAN /\ busy \in BOOLEAN /\ wel \in BOOLEAN
    /\ ignored \in BOOLEAN /\ aes \in {"idle", "busy", "visible"}

\* Where the call is, in a request it has accepted
CallOK ==
    /\ pc \in Pcs /\ ret \in Results /\ part \in Parts /\ op \in {"write", "read"}
    /\ req \in RequestType /\ req \in Requests \cup Reads \cup {NoRequest}
    /\ op = "read" => pc \in {"idle", "read", "read_loop"}
    /\ op = "write" => pc \notin {"read", "read_loop"}
    /\ op = "write" /\ pc # "idle" => Accepted(req) /\ part \in Present(req)
    /\ pos \in Nat

\* Where its loop is
LoopOK ==
    /\ op = "write" => pos <= cur.len
    /\ op = "read" => pos <= req.size
    /\ pc \in {"write", "read"} => pos = 0
    /\ pc \in LoopPcs => pos < cur.len /\ (req.encrypt => IsAligned(pos, 16))
    /\ pc \in {"trigger", "encrypted"} => req.encrypt

\* The chip is ready and enabled when it is sent a program command, and the controller
\* encrypts what it should.
ChipOK ==
    /\ ~ignored
    /\ pc \in {"trigger", "encrypted", "program", "read_loop"} => ~busy
    /\ pc \in {"encrypted", "program"} /\ req.encrypt => wel
    /\ pc = "idle" \/ ~req.encrypt => ~enc
    /\ pc \in LoopPcs => enc = req.encrypt

\* How far the flash is written
WrittenOK ==
    /\ \E n \in 0 .. req.size : mem = Prefix(n)
    /\ pc = "write" => mem = Prefix(cur.off)
    /\ pc \in {"trigger", "encrypted", "program"} => mem = Prefix(cur.off + Covered(pos))
    /\ pc = "wait" => mem = Prefix(cur.off + Covered(pos + chunk_size))
    /\ pc = "next" => mem = Prefix(cur.off + cur.n)
    /\ pc = "idle" /\ ret = "OK" /\ op = "write" => mem = Prefix(req.size)

\* How far the buffer is read
ReadOK ==
    /\ got \subseteq [at : Nat, dst : Nat, garbled : BOOLEAN]
    /\ pc \in {"read", "read_loop"} => got = ReadPrefix(pos)
    /\ pc = "idle" /\ ret = "OK" /\ op = "read" => got = ReadPrefix(req.size)

WriteInv == FlagsOK /\ CallOK /\ LoopOK /\ ChipOK /\ WrittenOK /\ ReadOK

(***************************************************************************)
(* Requests and their parts                                                *)
(***************************************************************************)
\* Lengths and addresses are numbers.
LEMMA RequestFacts ==
    ASSUME NEW r \in Requests \cup Reads \cup {NoRequest}
    PROVE  r \in RequestType
<1>1. CASE r \in Requests
  BY <1>1, FlashWriteAssumption DEF RequestType
<1>2. CASE r \in Reads
  <2>1. r \in [addr : Nat, size : Nat, encrypt : {FALSE}]
    BY <1>2, FlashWriteAssumption
  <2>2. [addr : Nat, size : Nat, encrypt : {FALSE}] \subseteq RequestType
    BY DEF RequestType
  <2>. QED  BY <2>1, <2>2
<1>3. CASE r = NoRequest
  BY <1>3 DEF NoRequest, RequestType
<1>. QED  BY <1>1, <1>2, <1>3

\* Words are four bytes.
LEMMA AlignFacts ==
    ASSUME NEW a \in Nat
    PROVE  /\ AlignDown(a, 4) + (a % 4) = a
           /\ AlignDown(a, 4) \in Nat /\ a % 4 \in Nat /\ a % 4 < 4
BY DEF AlignDown

\* A request is cut at word boundaries: the head ends at the first one, the middle part is
\* whole words, the tail less than one, and together they are the request.
LEMMA SizesFacts ==
    ASSUME NEW r \in RequestType
    PROVE  /\ HeadSize(r) \in Nat /\ MidSize(r) \in Nat /\ TailSize(r) \in Nat
           /\ HeadSize(r) + MidSize(r) + TailSize(r) = r.size
           /\ TailSize(r) < 4 /\ (r.addr % 4) + HeadSize(r) <= 4
           /\ r.encrypt => HeadSize(r) = 0 /\ MidSize(r) = r.size /\ TailSize(r) = 0
           /\ MidSize(r) > 0 \/ TailSize(r) > 0 => MidAddr(r) = r.addr + HeadSize(r)
           /\ AlignDown(r.addr, 4) + (r.addr % 4) = r.addr
           /\ AlignDown(r.addr, 4) \in Nat /\ r.addr % 4 \in Nat
<1>1. r.addr \in Nat /\ r.size \in Nat /\ r.encrypt \in BOOLEAN
  BY DEF RequestType
<1>2. /\ AlignDown(r.addr, 4) + (r.addr % 4) = r.addr
      /\ AlignDown(r.addr, 4) \in Nat /\ r.addr % 4 \in Nat /\ r.addr % 4 < 4
  BY <1>1, AlignFacts
<1>3. CASE Direct(r)
  <2>1. HeadSize(r) = 0 /\ MidSize(r) = r.size /\ TailSize(r) = 0
    BY <1>1, <1>3 DEF HeadSize, MidSize, TailSize
  <2>. QED  BY <1>1, <1>2, <2>1 DEF MidAddr
<1>4. CASE ~Direct(r)
  <2>. DEFINE h == HeadSize(r)
              m == MidSize(r)
  <2>1. /\ h = (IF r.addr % 4 = 0 THEN 0 ELSE Lesser(r.size, 4 - (r.addr % 4)))
        /\ m = AlignDown(r.size - h, 4)
    BY <1>4 DEF HeadSize, MidSize, IsAligned
  <2>. HIDE DEF h, m
  <2>2. /\ h \in Nat /\ m \in Nat
        /\ h + m <= r.size /\ (r.size - h) - m < 4 /\ (r.addr % 4) + h <= 4
        /\ m > 0 \/ (r.size - h) - m > 0 =>
              (IF h = 0 THEN r.addr ELSE AlignDown(r.addr, 4) + 4) = r.addr + h
    <3>1. PICK a \in Nat, s \in Nat : a = r.addr /\ s = r.size
      BY <1>1
    <3>2. /\ h = (IF a % 4 = 0 THEN 0 ELSE Lesser(s, 4 - (a % 4)))
          /\ m = AlignDown(s - h, 4)
      BY <2>1, <3>1
    <3>3. /\ h \in Nat /\ m \in Nat
          /\ h + m <= s /\ (s - h) - m < 4 /\ (a % 4) + h <= 4
          /\ m > 0 \/ (s - h) - m > 0 => (IF h = 0 THEN a ELSE AlignDown(a, 4) + 4) = a + h
      BY <3>2 DEF Lesser, AlignDown
    <3>. QED  BY <3>1, <3>3
  <2>3. TailSize(r) = (r.size - h) - m /\ ~r.encrypt
    BY <1>4 DEF TailSize, Direct, h, m
  <2>4. MidAddr(r) = IF h = 0 THEN r.addr ELSE AlignDown(r.addr, 4) + 4
    BY DEF MidAddr, h
  <2>5. TailSize(r) \in Nat /\ h + m + TailSize(r) = r.size
    BY <1>1, <2>2, <2>3
  <2>. QED  BY <1>2, <2>2, <2>3, <2>4, <2>5 DEF h, m
<1>. QED  BY <1>3, <1>4

\* A part lies where its bytes belong.
LEMMA PartFacts ==
    ASSUME NEW r \in RequestType, NEW p \in Parts
    PROVE  /\ Part(r, p).len \in Nat
           /\ p \in Present(r) =>
                 /\ Part(r, p).addr \in Nat /\ Part(r, p).pad \in Nat
                 /\ Part(r, p).n \in Nat /\ Part(r, p).off \in Nat
                 /\ Part(r, p).n > 0 /\ Part(r, p).pad + Part(r, p).n <= Part(r, p).len
                 /\ Part(r, p).addr + Part(r, p).pad = r.addr + Part(r, p).off
                 /\ Part(r, p).off + Part(r, p).n <= r.size
                 /\ r.encrypt => /\ Part(r, p).addr = r.addr /\ Part(r, p).len = r.size
                                 /\ Part(r, p).pad = 0 /\ Part(r, p).n = r.size
<1>1. /\ HeadSize(r) \in Nat /\ MidSize(r) \in Nat /\ TailSize(r) \in Nat
      /\ HeadSize(r) + MidSize(r) + TailSize(r) = r.size
      /\ TailSize(r) < 4 /\ (r.addr % 4) + HeadSize(r) <= 4
      /\ r.encrypt => HeadSize(r) = 0 /\ MidSize(r) = r.size /\ TailSize(r) = 0
      /\ MidSize(r) > 0 \/ TailSize(r) > 0 => MidAddr(r) = r.addr + HeadSize(r)
      /\ AlignDown(r.addr, 4) + (r.addr % 4) = r.addr
      /\ AlignDown(r.addr, 4) \in Nat /\ r.addr % 4 \in Nat
      /\ r.addr \in Nat /\ r.size \in Nat
  BY SizesFacts DEF RequestType
<1>2. p \in Present(r) => Part(r, p).n > 0
  BY DEF Present
<1>3. CASE p = "head"
  <2>1. Part(r, p) = [addr |-> AlignDown(r.addr, 4), len |-> 4,
                      pad |-> r.addr % 4, n |-> HeadSize(r), off |-> 0]
    BY <1>3 DEF Part
  <2>. QED  BY <1>1, <1>2, <2>1
<1>4. CASE p = "mid"
  <2>1. Part(r, p) = [addr |-> MidAddr(r), len |-> MidSize(r),
                      pad |-> 0, n |-> MidSize(r), off |-> HeadSize(r)]
    BY <1>4 DEF Part
  <2>. QED  BY <1>1, <1>2, <2>1
<1>5. CASE p = "tail"
  <2>1. Part(r, p) = [addr |-> MidAddr(r) + MidSize(r), len |-> 4,
                      pad |-> 0, n |-> TailSize(r), off |-> HeadSize(r) + MidSize(r)]
    BY <1>5 DEF Part
  <2>. QED  BY <1>1, <1>2, <2>1
<1>. QED  BY <1>3, <1>4, <1>5 DEF Parts

\* The first of some parts.
LEMMA FirstOfFacts ==
    ASSUME NEW S \in SUBSET Parts, S # {}
    PROVE  /\ FirstOf(S) \in S
           /\ FirstOf(S) = IF "head" \in S THEN "head" ELSE IF "mid" \in S THEN "mid" ELSE "tail"
<1>. DEFINE f == IF "head" \in S THEN "head" ELSE IF "mid" \in S THEN "mid" ELSE "tail"
<1>1. f \in S /\ \A q \in S : Rank(f) <= Rank(q)
  BY DEF Parts, Rank
<1>2. \A p \in S : (\A q \in S : Rank(p) <= Rank(q)) => p = f
  BY <1>1 DEF Parts, Rank
<1>. QED  BY <1>1, <1>2 DEF FirstOf

\* Writing starts with the caller's first byte ...
LEMMA FirstPart ==
    ASSUME NEW r, Accepted(r)
    PROVE  FirstOf(Present(r)) \in Present(r) /\ Part(r, FirstOf(Present(r))).off = 0
<1>1. /\ HeadSize(r) \in Nat /\ MidSize(r) \in Nat /\ TailSize(r) \in Nat
      /\ HeadSize(r) + MidSize(r) + TailSize(r) > 0
  BY SizesFacts DEF Accepted
<1>2. /\ Part(r, "head").n = HeadSize(r) /\ Part(r, "head").off = 0
      /\ Part(r, "mid").n = MidSize(r) /\ Part(r, "mid").off = HeadSize(r)
      /\ Part(r, "tail").n = TailSize(r) /\ Part(r, "tail").off = HeadSize(r) + MidSize(r)
  BY DEF Part
<1>3. Present(r) \in SUBSET Parts /\ Present(r) # {}
  BY <1>1, <1>2 DEF Present, Parts
<1>. QED  BY <1>1, <1>2, <1>3, FirstOfFacts DEF Present, Parts

\* ... each part goes on where the one before it ended, and the last ends with the request.
LEMMA FollowingPart ==
    ASSUME NEW r \in RequestType, NEW p \in Present(r)
    PROVE  IF After(r, p) = {} THEN Part(r, p).off + Part(r, p).n = r.size
           ELSE /\ FirstOf(After(r, p)) \in Present(r)
                /\ Part(r, FirstOf(After(r, p))).off = Part(r, p).off + Part(r, p).n
<1>1. /\ HeadSize(r) \in Nat /\ MidSize(r) \in Nat /\ TailSize(r) \in Nat
      /\ HeadSize(r) + MidSize(r) + TailSize(r) = r.size
  BY SizesFacts
<1>2. /\ Part(r, "head").n = HeadSize(r) /\ Part(r, "head").off = 0
      /\ Part(r, "mid").n = MidSize(r) /\ Part(r, "mid").off = HeadSize(r)
      /\ Part(r, "tail").n = TailSize(r) /\ Part(r, "tail").off = HeadSize(r) + MidSize(r)
  BY DEF Part
<1>3. After(r, p) \in SUBSET Parts /\ After(r, p) \subseteq Present(r)
  BY DEF After, Present
<1>4. CASE p = "head"
  <2>1. After(r, p) = Present(r) \cap {"mid", "tail"}
    BY <1>4 DEF After, Present, Parts, Rank
  <2>. QED  BY <1>1, <1>2, <1>3, <1>4, <2>1, FirstOfFacts DEF Present, Parts
<1>5. CASE p = "mid"
  <2>1. After(r, p) = Present(r) \cap {"tail"}
    BY <1>5 DEF After, Present, Parts, Rank
  <2>. QED  BY <1>1, <1>2, <1>3, <1>5, <2>1, FirstOfFacts DEF Present, Parts
<1>6. CASE p = "tail"
  <2>1. After(r, p) = {}
    BY <1>6 DEF After, Present, Parts, Rank
  <2>. QED  BY <1>1, <1>2, <1>6, <2>1
<1>. QED  BY <1>4, <1>5, <1>6 DEF Present, Parts

(***************************************************************************)
(* The loop and what it leaves in flash                                    *)
(***************************************************************************)
\* What is derived from the request and its part changes with them only.
LEMMA SamePart ==
    ASSUME req' = req, part' = part
    PROVE  /\ cur' = cur
           /\ \A n : Prefix(n)' = Prefix(n)
           /\ \A n : Covered(n)' = Covered(n)
           /\ pos' = pos => chunk_size' = chunk_size
<1>1. cur' = cur
  BY DEF cur
<1>2. \A n : Prefix(n)' = Prefix(n)
  BY DEF Prefix
<1>3. \A n : Covered(n)' = Covered(n)
  BY <1>1 DEF Covered
<1>4. ASSUME pos' = pos PROVE chunk_size' = chunk_size
  BY <1>1, <1>4 DEF chunk_size, get_write_block_size_encrypted, get_write_chunk_size_unencrypted,
     FitsBlock, remaining, page_space, flash_addr
<1>. QED  BY <1>1, <1>2, <1>3, <1>4

\* The part that is being written lies where its bytes belong.
LEMMA CurFacts ==
    ASSUME CallOK, op = "write", pc # "idle"
    PROVE  /\ cur.addr \in Nat /\ cur.pad \in Nat /\ cur.n \in Nat /\ cur.off \in Nat
           /\ cur.len \in Nat
           /\ cur.n > 0 /\ cur.pad + cur.n <= cur.len
           /\ cur.addr + cur.pad = req.addr + cur.off
           /\ cur.off + cur.n <= req.size
           /\ req.encrypt => cur.addr = req.addr /\ cur.len = req.size
           /\ req.addr \in Nat /\ req.size \in Nat /\ req.encrypt \in BOOLEAN
<1>1. req \in RequestType /\ part \in Present(req) /\ part \in Parts
  BY DEF CallOK, Accepted
<1>. QED  BY <1>1, PartFacts DEF cur, RequestType

\* The arithmetic of a block: it ends with the part and with the page at the latest.
LEMMA BlockArith ==
    ASSUME NEW a \in Nat, NEW p \in Nat, NEW l \in Nat, NEW b \in {16, 32, 64},
           a % 16 = 0, l % 16 = 0, p % 16 = 0, p < l,
           b = 16 \/ (l - p >= b /\ 256 - ((a + p) % 256) >= b)
    PROVE  p + b <= l /\ b <= 256 - ((a + p) % 256) /\ (p + b) % 16 = 0
<1>1. (p + b) % 16 = 0
  OBVIOUS
<1>2. p + 16 <= l
  OBVIOUS
<1>3. 16 <= 256 - ((a + p) % 256)
  OBVIOUS
<1>. QED  BY <1>1, <1>2, <1>3

\* A chunk is not empty and ends inside its part and its page; a block of AES-XTS does so
\* because the request is aligned.
LEMMA ChunkFacts ==
    ASSUME CallOK, LoopOK, pc \in LoopPcs
    PROVE  /\ chunk_size \in Nat /\ chunk_size > 0 /\ pos + chunk_size <= cur.len
           /\ chunk_size <= page_space
           /\ req.encrypt => IsAligned(pos + chunk_size, 16)
<1>1. /\ op = "write" /\ pos \in Nat /\ pos < cur.len
      /\ req.encrypt => Accepted(req) /\ IsAligned(pos, 16)
  BY DEF CallOK, LoopOK, LoopPcs
<1>2. /\ cur.addr \in Nat /\ cur.len \in Nat /\ req.encrypt \in BOOLEAN
      /\ req.encrypt => cur.addr = req.addr /\ cur.len = req.size
  BY <1>1, CurFacts DEF LoopPcs
<1>. DEFINE a == cur.addr
            l == cur.len
<1>3. /\ remaining = l - pos /\ flash_addr = a + pos
      /\ page_space = 256 - ((a + pos) % 256)
  BY DEF remaining, page_space, flash_addr, STUB_FLASH_PAGE_SIZE
<1>4. a \in Nat /\ l \in Nat
  BY <1>2
<1>. HIDE DEF a, l
<1>5. (a + pos) % 256 \in 0 .. 255
  BY <1>1, <1>4
<1>6. CASE ~req.encrypt
  <2>1. chunk_size = Lesser(Lesser(l - pos, 32), 256 - ((a + pos) % 256))
    BY <1>3, <1>6 DEF chunk_size, get_write_chunk_size_unencrypted, FLASH_WRITE_CHUNK_SIZE
  <2>2. PICK m \in 0 .. 255 : m = (a + pos) % 256
    BY <1>5
  <2>3. l - pos \in Nat /\ l - pos > 0
    BY <1>1, <1>4 DEF l
  <2>4. chunk_size \in Nat /\ chunk_size > 0 /\ chunk_size <= l - pos /\ chunk_size <= 256 - m
    BY <2>1, <2>2, <2>3 DEF Lesser
  <2>5. pos + chunk_size <= l
    BY <1>1, <1>4, <2>4
  <2>. QED  BY <1>3, <1>6, <2>2, <2>4, <2>5 DEF l
<1>7. CASE req.encrypt
  <2>1. /\ chunk_size \in {16, 32, 64}
        /\ chunk_size = 16 \/ (l - pos >= chunk_size /\ 256 - ((a + pos) % 256) >= chunk_size)
    BY <1>3, <1>7 DEF chunk_size, get_write_block_size_encrypted, FitsBlock,
       AES_XTS_MIN_BLOCK_SIZE, AES_XTS_DOUBLE_BLOCK_SIZE, AES_XTS_QUAD_BLOCK_SIZE
  <2>2. a % 16 = 0 /\ l % 16 = 0 /\ pos % 16 = 0 /\ pos < l
    BY <1>1, <1>2, <1>7 DEF Accepted, IsAligned, a, l
  <2>3. /\ pos + chunk_size <= l /\ chunk_size <= 256 - ((a + pos) % 256)
        /\ (pos + chunk_size) % 16 = 0
    BY <1>1, <1>4, <2>1, <2>2, BlockArith
  <2>. QED  BY <1>3, <2>1, <2>3 DEF IsAligned, l
<1>. QED  BY <1>2, <1>6, <1>7

\* Up to the end of the page the chip programs where it is told to.
LEMMA InPage ==
    ASSUME NEW a \in Nat, NEW i \in Nat, i < STUB_FLASH_PAGE_SIZE - (a % STUB_FLASH_PAGE_SIZE)
    PROVE  PageAddr(a, i) = a + i
BY DEF PageAddr, STUB_FLASH_PAGE_SIZE

\* A prefix and the bytes after it are a longer prefix.
LEMMA PrefixGrows ==
    ASSUME NEW m \in Nat, NEW n \in Nat, m <= n
    PROVE  Prefix(m) \cup
               {[at |-> req.addr + k, src |-> k, enc |-> req.encrypt] : k \in m .. n - 1}
           = Prefix(n)
BY DEF Prefix

\* So they are of a buffer that is read, from a chip that is ready.
LEMMA ReadGrows ==
    ASSUME req.addr \in Nat, pos \in Nat, busy = FALSE, NEW n \in Nat
    PROVE  /\ ReadPrefix(pos) \cup Sent(n) = ReadPrefix(pos + n)
           /\ ReadPrefix(pos + n) \subseteq [at : Nat, dst : Nat, garbled : BOOLEAN]
<1>. DEFINE Read(k) == [at |-> req.addr + k, dst |-> k, garbled |-> FALSE]
<1>1. Sent(n) = {Read(k) : k \in pos .. (pos + n) - 1}
  <2>1. pos + n - 1 = (pos + n) - 1
    OBVIOUS
  <2>. QED  BY <2>1 DEF Sent
<1>2. ReadPrefix(pos) = {Read(k) : k \in 0 .. pos - 1}
  BY DEF ReadPrefix
<1>3. ReadPrefix(pos + n) = {Read(k) : k \in 0 .. (pos + n) - 1}
  BY DEF ReadPrefix
<1>4. 0 .. (pos + n) - 1 = (0 .. pos - 1) \cup (pos .. (pos + n) - 1)
  OBVIOUS
<1>5. \A k \in 0 .. (pos + n) - 1 : Read(k) \in [at : Nat, dst : Nat, garbled : BOOLEAN]
  OBVIOUS
<1>. HIDE DEF Read
<1>6. ReadPrefix(pos) \cup Sent(n) = ReadPrefix(pos + n)
  BY <1>1, <1>2, <1>3, <1>4
<1>. QED  BY <1>3, <1>5, <1>6

\* The length of a prefix is the number of its bytes.
LEMMA PrefixCardinality ==
    ASSUME NEW n \in Nat
    PROVE  Cardinality(Prefix(n)) = n
<1>. DEFINE f == [k \in 0 .. n - 1 |-> [at |-> req.addr + k, src |-> k, enc |-> req.encrypt]]
<1>1. f \in Bijection(0 .. n - 1, Prefix(n))
  <2>1. f \in [0 .. n - 1 -> Prefix(n)]
    BY DEF Prefix
  <2>2. \A x, y \in 0 .. n - 1 : f[x] = f[y] => x = y
    OBVIOUS
  <2>3. \A t \in Prefix(n) : \E x \in 0 .. n - 1 : f[x] = t
    BY DEF Prefix
  <2>. HIDE DEF f
  <2>. QED  BY <2>1, <2>2, <2>3 DEF Bijection, Injection, Surjection, IsInjective
<1>2. ExistsBijection(0 .. n - 1, Prefix(n))
  BY <1>1 DEF ExistsBijection
<1>3. IsFiniteSet(0 .. n - 1) /\ Cardinality(0 .. n - 1) = n
  BY FS_Interval
<1>. QED  BY <1>2, <1>3, FS_Bijection

\* What one page program adds.
LEMMA ProgramAdds ==
    ASSUME CallOK, LoopOK, ChipOK, pc = "program", mem = Prefix(cur.off + Covered(pos))
    PROVE  /\ mem \cup Programmed(flash_addr, chunk_size)
                 = Prefix(cur.off + Covered(pos + chunk_size))
           /\ cur.off + Covered(pos + chunk_size) \in 0 .. req.size
<1>1. /\ chunk_size \in Nat /\ chunk_size > 0 /\ pos + chunk_size <= cur.len
      /\ chunk_size <= page_space
  BY ChunkFacts DEF LoopPcs
<1>2. op = "write" /\ pos \in Nat /\ enc = req.encrypt
  BY DEF CallOK, ChipOK, LoopPcs
<1>3. /\ cur.addr \in Nat /\ cur.pad \in Nat /\ cur.n \in Nat /\ cur.off \in Nat
      /\ cur.addr + cur.pad = req.addr + cur.off
      /\ cur.off + cur.n <= req.size
      /\ req.addr \in Nat /\ req.size \in Nat
  BY <1>2, CurFacts
<1>4. PICK c \in Nat, a \in Nat, d \in Nat, n \in Nat, o \in Nat :
         c = chunk_size /\ a = cur.addr /\ d = cur.pad /\ n = cur.n /\ o = cur.off
  BY <1>1, <1>3
<1>. DEFINE lo == o + Covered(pos)
            hi == o + Covered(pos + c)
<1>5. /\ Covered(pos) = IF pos <= d THEN 0 ELSE Lesser(pos - d, n)
      /\ Covered(pos + c) = IF pos + c <= d THEN 0 ELSE Lesser((pos + c) - d, n)
  <2>1. \A x : Covered(x) = IF x <= d THEN 0 ELSE Lesser(x - d, n)
    BY <1>4 DEF Covered
  <2>. QED  BY <2>1
<1>6. lo \in Nat /\ hi \in Nat /\ lo <= hi /\ hi <= o + n
  BY <1>2, <1>4, <1>5 DEF Lesser
<1>7. \A i \in 0 .. c - 1 : pos + i \in d .. d + n - 1 <=> o + pos + i - d \in lo .. hi - 1
  BY <1>2, <1>4, <1>5 DEF Lesser
<1>8. \A k \in lo .. hi - 1 : k - o - pos + d \in 0 .. c - 1
  BY <1>2, <1>4, <1>5 DEF Lesser
<1>9. \A i \in 0 .. c - 1 : PageAddr(flash_addr, i) = a + pos + i
  <2>1. flash_addr = a + pos /\ flash_addr \in Nat
    BY <1>2, <1>4 DEF flash_addr
  <2>2. c <= STUB_FLASH_PAGE_SIZE - (flash_addr % STUB_FLASH_PAGE_SIZE)
    BY <1>1, <1>4 DEF page_space
  <2>3. STUB_FLASH_PAGE_SIZE - (flash_addr % STUB_FLASH_PAGE_SIZE) \in Int
    BY <2>1 DEF STUB_FLASH_PAGE_SIZE
  <2>4. \A i \in 0 .. c - 1 : PageAddr(flash_addr, i) = flash_addr + i
    BY <2>1, <2>2, <2>3, InPage
  <2>. QED  BY <2>1, <2>4
<1>10. Programmed(flash_addr, c)
          = {[at |-> req.addr + k, src |-> k, enc |-> req.encrypt] : k \in lo .. hi - 1}
  <2>. DEFINE I == {j \in 0 .. c - 1 : pos + j \in d .. d + n - 1}
  <2>1. Programmed(flash_addr, c) =
          {[at |-> PageAddr(flash_addr, i), src |-> o + pos + i - d, enc |-> enc] : i \in I}
    BY <1>4 DEF Programmed
  <2>. HIDE DEF lo, hi
  <2>2. \A i \in I : /\ o + pos + i - d \in lo .. hi - 1
                    /\ PageAddr(flash_addr, i) = req.addr + (o + pos + i - d)
    <3>. SUFFICES ASSUME NEW i \in I
                  PROVE  /\ o + pos + i - d \in lo .. hi - 1
                         /\ PageAddr(flash_addr, i) = req.addr + (o + pos + i - d)
      OBVIOUS
    <3>1. i \in 0 .. c - 1 /\ pos + i \in d .. d + n - 1
      OBVIOUS
    <3>2. PICK b \in Nat : b = req.addr /\ a + d = b + o
      BY <1>3, <1>4
    <3>3. a + pos + i = b + (o + pos + i - d)
      BY <1>2, <3>1, <3>2
    <3>. QED  BY <1>7, <1>9, <3>1, <3>2, <3>3
  <2>3. \A k \in lo .. hi - 1 : \E i \in I : k = o + pos + i - d
    <3>. SUFFICES ASSUME NEW k \in lo .. hi - 1 PROVE \E i \in I : k = o + pos + i - d
      OBVIOUS
    <3>1. k \in Int /\ k - o - pos + d \in 0 .. c - 1 /\ o + pos + (k - o - pos + d) - d = k
      BY <1>2, <1>4, <1>6, <1>8
    <3>2. k - o - pos + d \in I
      BY <1>7, <3>1
    <3>. QED  BY <3>1, <3>2
  <2>. HIDE DEF I
  <2>. QED  BY <1>2, <2>1, <2>2, <2>3
<1>11. mem \cup Programmed(flash_addr, chunk_size) = Prefix(hi)
  <2>1. mem = Prefix(lo)
    BY <1>4
  <2>. HIDE DEF lo, hi
  <2>. QED  BY <1>4, <1>6, <1>10, <2>1, PrefixGrows
<1>12. hi \in 0 .. req.size
  <2>. HIDE DEF hi
  <2>. QED  BY <1>3, <1>4, <1>6
<1>. QED  BY <1>4, <1>11, <1>12

\* What the ROM adds when it has written k bytes of a part.
LEMMA RomAdds ==
    ASSUME CallOK, op = "write", pc # "idle", mem = Prefix(cur.off), NEW k \in 0 .. cur.n
    PROVE  /\ mem \cup RomWritten(k) = Prefix(cur.off + k)
           /\ cur.off + k \in 0 .. req.size
<1>1. /\ cur.addr \in Nat /\ cur.pad \in Nat /\ cur.n \in Nat /\ cur.off \in Nat
      /\ cur.addr + cur.pad = req.addr + cur.off
      /\ cur.off + cur.n <= req.size
      /\ req.addr \in Nat /\ req.size \in Nat
  BY CurFacts
<1>2. PICK a \in Nat, d \in Nat, o \in Nat, b \in Nat :
         a = cur.addr /\ d = cur.pad /\ o = cur.off /\ b = req.addr
  BY <1>1
<1>3. a + d = b + o /\ k \in Nat /\ o + k \in 0 .. req.size
  BY <1>1, <1>2
<1>4. RomWritten(k) = {[at |-> a + d + i, src |-> o + i, enc |-> req.encrypt] : i \in 0 .. k - 1}
  BY <1>2 DEF RomWritten
<1>5. RomWritten(k) = {[at |-> b + j, src |-> j, enc |-> req.encrypt] : j \in o .. o + k - 1}
  <2>1. \A i \in 0 .. k - 1 : o + i \in o .. o + k - 1 /\ a + d + i = b + (o + i)
    BY <1>3
  <2>2. \A j \in o .. o + k - 1 : j - o \in 0 .. k - 1 /\ a + d + (j - o) = b + j
                                                    /\ o + (j - o) = j
    BY <1>3
  <2> DEFINE W(at, src) == [at |-> at, src |-> src, enc |-> req.encrypt]
             From == 0 .. k - 1
             To == o .. o + k - 1
  <2>3. \A i \in From : \E j \in To : W(a + d + i, o + i) = W(b + j, j)
    BY <2>1
  <2>4. \A j \in To : \E i \in From : W(b + j, j) = W(a + d + i, o + i)
    BY <2>2
  <2>5. RomWritten(k) = {W(a + d + i, o + i) : i \in From}
    BY <1>4
  <2> HIDE DEF W, From, To
  <2>6. RomWritten(k) = {W(b + j, j) : j \in To}
    BY <2>3, <2>4, <2>5
  <2>. QED  BY <2>6 DEF W, To
<1>. QED  BY <1>2, <1>3, <1>5, PrefixGrows

(***************************************************************************)
(* The steps                                                               *)
(***************************************************************************)
\* A step of a write, of a read, and of the chip, with what they leave alone
InWrite(A) == A /\ UNCHANGED <<got, op, large_flash_mode>>
InRead(A) == A /\ UNCHANGED <<op, large_flash_mode>>

\* Where the call is.
LEMMA CallStep ==
    ASSUME WriteInv, [Next]_vars
    PROVE  CallOK'
<1>. USE DEF CallOK, Pcs, Results, Parts
<1>0. CallOK
  BY DEF WriteInv
<1>1. ASSUME NEW r \in Requests, stub_lib_flash_write_buff(r) PROVE CallOK'
  <2>1. r \in RequestType
    BY RequestFacts
  <2>2. /\ req' = r /\ op' = "write" /\ pos' = 0
        /\ \/ pc' = "idle" /\ ret' \in {"OK", "WRITE_UNALIGNED"} /\ part' = part
           \/ pc' = "write" /\ ret' = "none" /\ Accepted(r) /\ part' = FirstOf(Present(r))
    BY <1>1, <2>1 DEF stub_lib_flash_write_buff, Accepted, RequestType
  <2>3. Accepted(r) => FirstOf(Present(r)) \in Present(r) /\ Present(r) \subseteq Parts
    BY FirstPart DEF Present
  <2>. QED  BY <1>0, <2>1, <2>2, <2>3
<1>2. ASSUME NEW r \in Reads, stub_lib_flash_read_buff(r) PROVE CallOK'
  <2>1. r \in RequestType
    BY RequestFacts
  <2>. QED  BY <1>0, <1>2, <2>1 DEF stub_lib_flash_read_buff
<1>3. CASE InWrite(RomWrite)
  BY <1>0, <1>3 DEF InWrite, RomWrite, Return
<1>4. CASE InWrite(WriteUnencrypted) \/ InWrite(WriteEncrypted)
  BY <1>0, <1>4 DEF InWrite, WriteUnencrypted, WriteEncrypted, Return
<1>5. CASE InWrite(Trigger) \/ InWrite(WaitDataReady) \/ InWrite(Program)
  BY <1>0, <1>5 DEF InWrite, Trigger, WaitDataReady, Program, Return
<1>6. CASE InWrite(WaitProgrammed)
  <2>1. pos' \in Nat
    BY <1>0, <1>6, ChunkFacts DEF InWrite, WaitProgrammed, WriteInv, LoopPcs
  <2>. QED  BY <1>0, <1>6, <2>1 DEF InWrite, WaitProgrammed, Return
<1>7. CASE InWrite(NextPart)
  <2>1. pc = "next" /\ op = "write" /\ req \in RequestType /\ part \in Present(req)
    BY <1>0, <1>7 DEF InWrite, NextPart
  <2>2. After(req, part) # {} => FirstOf(After(req, part)) \in Present(req)
    BY <2>1, FollowingPart
  <2>3. Present(req) \subseteq Parts
    BY DEF Present
  <2>. QED  BY <1>0, <1>7, <2>2, <2>3 DEF InWrite, NextPart, Return
<1>8. CASE InRead(RomRead) \/ InRead(ReadWait) \/ InRead(ReadDone)
  BY <1>0, <1>8 DEF InRead, RomRead, ReadWait, ReadDone, Return
<1>9. CASE InRead(ReadChunk)
  <2>1. pos' \in Nat
    BY <1>0, <1>9 DEF InRead, ReadChunk, RequestType, Lesser, FLASH_READ_CHUNK_SIZE
  <2>. QED  BY <1>0, <1>9, <2>1 DEF InRead, ReadChunk
<1>10. CASE InWrite(ChipDone) \/ InWrite(StartErase)
  BY <1>0, <1>10 DEF InWrite, ChipDone, StartErase
<1>11. CASE UNCHANGED vars
  BY <1>0, <1>11 DEF vars
<1>. QED  BY <1>1, <1>2, <1>3, <1>4, <1>5, <1>6, <1>7, <1>8, <1>9, <1>10, <1>11
          DEF Next, Step, WriteStep, ReadStep, Chip, InWrite, InRead

\* Flags stay flags.
LEMMA FlagsStep ==
    ASSUME WriteInv, [Next]_vars
    PROVE  FlagsOK'
<1>0. FlagsOK
  BY DEF WriteInv
<1>1. aes' \in {aes, "idle", "busy", "visible"} /\ large_flash_mode' = large_flash_mode
  BY DEF Next, Step, WriteStep, ReadStep, Chip, stub_lib_flash_write_buff,
     stub_lib_flash_read_buff, RomWrite, WriteUnencrypted, WriteEncrypted, Trigger,
     WaitDataReady, Program, WaitProgrammed, NextPart, RomRead, ReadWait, ReadChunk, ReadDone,
     ChipDone, StartErase, vars
<1>2. enc' \in {enc, TRUE, FALSE} /\ busy' \in {busy, TRUE, FALSE}
      /\ ignored' \in {ignored, TRUE, FALSE}
  BY DEF Next, Step, WriteStep, ReadStep, Chip, stub_lib_flash_write_buff,
     stub_lib_flash_read_buff, RomWrite, WriteUnencrypted, WriteEncrypted, Trigger,
     WaitDataReady, Program, WaitProgrammed, NextPart, RomRead, ReadWait, ReadChunk, ReadDone,
     ChipDone, StartErase, vars, Return
<1>3. wel' \in {wel, FALSE} \/ wel' = (wel \/ ~busy)
  BY DEF Next, Step, WriteStep, ReadStep, Chip, stub_lib_flash_write_buff,
     stub_lib_flash_read_buff, RomWrite, WriteUnencrypted, WriteEncrypted, Trigger,
     WaitDataReady, Program, WaitProgrammed, NextPart, RomRead, ReadWait, ReadChunk, ReadDone,
     ChipDone, StartErase, vars
<1>4. wel' \in BOOLEAN
  <2>1. wel \in BOOLEAN
    BY <1>0 DEF FlagsOK
  <2>. QED  BY <1>3, <2>1, Zenon
<1>. QED  BY <1>0, <1>1, <1>2, <1>4 DEF FlagsOK

\* Where the loop is.
LEMMA LoopStep ==
    ASSUME WriteInv, CallOK', [Next]_vars
    PROVE  LoopOK'
<1>. USE DEF LoopOK, LoopPcs
<1>0. CallOK /\ LoopOK
  BY DEF WriteInv
<1>1. ASSUME NEW r \in Requests, stub_lib_flash_write_buff(r) PROVE LoopOK'
  <2>1. req' \in RequestType /\ part' \in Parts
    BY DEF CallOK
  <2>2. cur'.len \in Nat
    BY <2>1, PartFacts DEF cur
  <2>. QED  BY <1>1, <2>2 DEF stub_lib_flash_write_buff
<1>2. ASSUME NEW r \in Reads, stub_lib_flash_read_buff(r) PROVE LoopOK'
  <2>1. req'.size \in Nat
    BY DEF CallOK, RequestType
  <2>. QED  BY <1>2, <2>1 DEF stub_lib_flash_read_buff
<1>3. CASE InWrite(RomWrite)
  BY <1>0, <1>3, SamePart DEF InWrite, RomWrite, Return
<1>4. CASE InWrite(WriteUnencrypted) \/ InWrite(WriteEncrypted)
  <2>1. pc = "write" /\ op = "write" /\ pos = 0 /\ IsAligned(0, 16)
    BY <1>0, <1>4 DEF InWrite, WriteUnencrypted, WriteEncrypted, CallOK, IsAligned
  <2>2. cur.len \in Nat /\ cur.len > 0
    BY <1>0, <2>1, CurFacts
  <2>. QED  BY <1>0, <1>4, <2>1, <2>2, SamePart
            DEF InWrite, WriteUnencrypted, WriteEncrypted, Return
<1>5. CASE InWrite(Trigger) \/ InWrite(WaitDataReady) \/ InWrite(Program)
  BY <1>0, <1>5, SamePart DEF InWrite, Trigger, WaitDataReady, Program, Return
<1>6. CASE InWrite(WaitProgrammed)
  <2>1. /\ chunk_size \in Nat /\ pos + chunk_size <= cur.len
        /\ req.encrypt => IsAligned(pos + chunk_size, 16)
    BY <1>0, <1>6, ChunkFacts DEF InWrite, WaitProgrammed
  <2>2. op = "write" /\ op' = op
    BY <1>0, <1>6 DEF InWrite, WaitProgrammed, CallOK
  <2>3. req' = req /\ cur' = cur
    BY <1>6, SamePart DEF InWrite, WaitProgrammed
  <2>. QED  BY <1>0, <1>6, <2>1, <2>2, <2>3 DEF InWrite, WaitProgrammed, Return
<1>7. CASE InWrite(NextPart)
  <2>1. op' = "write" /\ (After(req, part) = {} => cur' = cur /\ pos' = pos /\ pc' = "idle")
    BY <1>0, <1>7, SamePart DEF InWrite, NextPart, CallOK, Return
  <2>2. req' \in RequestType /\ part' \in Parts
    BY DEF CallOK
  <2>3. cur'.len \in Nat
    BY <2>2, PartFacts DEF cur
  <2>. QED  BY <1>0, <1>7, <2>1, <2>3 DEF InWrite, NextPart
<1>8. CASE InRead(RomRead) \/ InRead(ReadWait) \/ InRead(ReadDone)
  BY <1>0, <1>8, SamePart DEF InRead, RomRead, ReadWait, ReadDone, Return
<1>9. CASE InRead(ReadChunk)
  <2>1. pos < req.size /\ pos \in Nat /\ req.size \in Nat /\ op' = "read"
    BY <1>0, <1>9 DEF InRead, ReadChunk, CallOK, RequestType
  <2>2. pos' <= req.size
    BY <1>9, <2>1 DEF InRead, ReadChunk, Lesser, FLASH_READ_CHUNK_SIZE
  <2>. QED  BY <1>9, <2>1, <2>2 DEF InRead, ReadChunk
<1>10. CASE InWrite(ChipDone) \/ InWrite(StartErase)
  BY <1>0, <1>10, SamePart DEF InWrite, ChipDone, StartErase
<1>11. CASE UNCHANGED vars
  BY <1>0, <1>11, SamePart DEF vars
<1>. QED  BY <1>1, <1>2, <1>3, <1>4, <1>5, <1>6, <1>7, <1>8, <1>9, <1>10, <1>11
          DEF Next, Step, WriteStep, ReadStep, Chip, InWrite, InRead

\* The chip is never sent a command it would not take.
LEMMA ChipStep ==
    ASSUME WriteInv, [Next]_vars
    PROVE  ChipOK'
<1>. USE DEF ChipOK, LoopPcs
<1>0. ChipOK /\ FlagsOK /\ CallOK /\ LoopOK
  BY DEF WriteInv
<1>1. ASSUME NEW r \in Requests, stub_lib_flash_write_buff(r) PROVE ChipOK'
  BY <1>0, <1>1 DEF stub_lib_flash_write_buff
<1>2. ASSUME NEW r \in Reads, stub_lib_flash_read_buff(r) PROVE ChipOK'
  BY <1>0, <1>2 DEF stub_lib_flash_read_buff
<1>3. CASE InWrite(RomWrite)
  BY <1>0, <1>3 DEF InWrite, RomWrite, Return
<1>4. CASE InWrite(WriteUnencrypted)
  <2>1. req.encrypt \in BOOLEAN /\ enc \in BOOLEAN
    BY <1>0 DEF CallOK, RequestType, FlagsOK
  <2>. QED  BY <1>0, <1>4, <2>1 DEF InWrite, WriteUnencrypted, Return
<1>5. CASE InWrite(WriteEncrypted)
  <2>1. req.encrypt \in BOOLEAN /\ enc \in BOOLEAN
    BY <1>0 DEF CallOK, RequestType, FlagsOK
  <2>. QED  BY <1>0, <1>5, <2>1 DEF InWrite, WriteEncrypted, Return
<1>6. CASE InWrite(Trigger)
  BY <1>0, <1>6 DEF InWrite, Trigger
<1>7. CASE InWrite(WaitDataReady)
  BY <1>0, <1>7 DEF InWrite, WaitDataReady, Return
<1>8. CASE InWrite(Program)
  BY <1>0, <1>8 DEF InWrite, Program
<1>9. CASE InWrite(WaitProgrammed)
  BY <1>0, <1>9 DEF InWrite, WaitProgrammed, Return
<1>10. CASE InWrite(NextPart)
  BY <1>0, <1>10 DEF InWrite, NextPart, Return
<1>11. CASE InRead(RomRead) \/ InRead(ReadWait) \/ InRead(ReadDone) \/ InRead(ReadChunk)
  BY <1>0, <1>11 DEF InRead, RomRead, ReadWait, ReadDone, ReadChunk, Return
<1>12. CASE InWrite(ChipDone) \/ InWrite(StartErase)
  BY <1>0, <1>12 DEF InWrite, ChipDone, StartErase
<1>13. CASE UNCHANGED vars
  BY <1>0, <1>13 DEF vars
<1>. QED  BY <1>1, <1>2, <1>3, <1>4, <1>5, <1>6, <1>7, <1>8, <1>9, <1>10, <1>11, <1>12, <1>13
          DEF Next, Step, WriteStep, ReadStep, Chip, InWrite, InRead

\* How far the flash is written.
LEMMA WrittenStep ==
    ASSUME WriteInv, CallOK', [Next]_vars
    PROVE  WrittenOK'
<1>. USE DEF WrittenOK
<1>0. CallOK /\ LoopOK /\ ChipOK /\ WrittenOK /\ req.size \in Nat
  BY DEF WriteInv, CallOK, RequestType
<1>1. ASSUME NEW r \in Requests, stub_lib_flash_write_buff(r) PROVE WrittenOK'
  <2>1. mem' = {} /\ req'.size \in Nat
    BY <1>1 DEF stub_lib_flash_write_buff, CallOK, RequestType
  <2>2. Prefix(0)' = {}
    BY DEF Prefix
  <2>3. pc' = "write" => cur'.off = 0
    <3>. SUFFICES ASSUME pc' = "write" PROVE cur'.off = 0
      OBVIOUS
    <3>1. op' = "write" /\ req' = r /\ part' = FirstOf(Present(r))
      BY <1>1 DEF stub_lib_flash_write_buff
    <3>2. Accepted(req)'
      BY <3>1 DEF CallOK
    <3>. QED  BY <3>1, <3>2, FirstPart DEF cur, Accepted
  <2>4. pc' \in {"idle", "write"} /\ (pc' = "idle" /\ ret' = "OK" => req'.size = 0)
    BY <1>1 DEF stub_lib_flash_write_buff
  <2>. QED  BY <2>1, <2>2, <2>3, <2>4
<1>2. ASSUME NEW r \in Reads, stub_lib_flash_read_buff(r) PROVE WrittenOK'
  <2>1. mem' = {} /\ req'.size \in Nat /\ op' = "read" /\ pc' \in {"idle", "read"}
    BY <1>2 DEF stub_lib_flash_read_buff, CallOK, RequestType
  <2>2. Prefix(0)' = {}
    BY DEF Prefix
  <2>. QED  BY <2>1, <2>2
<1>3. CASE InWrite(RomWrite)
  <2>1. op = "write" /\ pc = "write" /\ mem = Prefix(cur.off)
    BY <1>0, <1>3 DEF InWrite, RomWrite, CallOK
  <2>2. \A k \in 0 .. cur.n : /\ mem \cup RomWritten(k) = Prefix(cur.off + k)
                             /\ cur.off + k \in 0 .. req.size
    BY <1>0, <2>1, RomAdds
  <2>3. req' = req /\ cur' = cur /\ (\A n : Prefix(n)' = Prefix(n))
    BY <1>3, SamePart DEF InWrite, RomWrite
  <2>4. cur.n \in Nat
    BY <1>0, <2>1, CurFacts
  <2>5. CASE pc' = "next" /\ mem' = mem \cup RomWritten(cur.n)
    BY <2>2, <2>3, <2>4, <2>5
  <2>6. CASE /\ pc' = "idle" /\ ret' = "WRITE"
             /\ \E k \in 0 .. cur.n - 1 : mem' = mem \cup RomWritten(k)
    <3>1. PICK k \in 0 .. cur.n - 1 : mem' = mem \cup RomWritten(k)
      BY <2>6
    <3>2. k \in 0 .. cur.n
      BY <2>4
    <3>. QED  BY <2>2, <2>3, <2>6, <3>1, <3>2
  <2>. QED  BY <1>3, <2>5, <2>6 DEF InWrite, RomWrite, Return
<1>4. CASE InWrite(WriteUnencrypted) \/ InWrite(WriteEncrypted)
  <2>1. /\ pc = "write" /\ op = "write" /\ pos = 0 /\ pos' = pos /\ mem' = mem /\ req' = req
        /\ pc' \in {"trigger", "program"} \/ (pc' = "idle" /\ ret' # "OK")
    BY <1>0, <1>4 DEF InWrite, WriteUnencrypted, WriteEncrypted, Return, CallOK, LoopOK
  <2>2. cur.pad \in Nat /\ cur.off \in Nat
    BY <1>0, <2>1, CurFacts
  <2>3. cur.off + Covered(0) = cur.off
    BY <2>2 DEF Covered
  <2>4. cur' = cur /\ (\A n : Prefix(n)' = Prefix(n)) /\ (\A n : Covered(n)' = Covered(n))
    BY <1>4, SamePart DEF InWrite, WriteUnencrypted, WriteEncrypted
  <2>. QED  BY <1>0, <2>1, <2>3, <2>4
<1>5. CASE InWrite(Trigger) \/ InWrite(WaitDataReady)
  <2>1. /\ pos' = pos /\ mem' = mem /\ req' = req
        /\ pc \in {"trigger", "encrypted"}
        /\ pc' \in {"encrypted", "program"} \/ (pc' = "idle" /\ ret' # "OK")
    BY <1>5 DEF InWrite, Trigger, WaitDataReady, Return
  <2>2. cur' = cur /\ (\A n : Prefix(n)' = Prefix(n)) /\ (\A n : Covered(n)' = Covered(n))
    BY <1>5, SamePart DEF InWrite, Trigger, WaitDataReady
  <2>. QED  BY <1>0, <2>1, <2>2
<1>6. CASE InWrite(Program)
  <2>1. /\ pc = "program" /\ pc' = "wait" /\ pos' = pos /\ req' = req
        /\ mem' = mem \cup Programmed(flash_addr, chunk_size)
    BY <1>0, <1>6 DEF InWrite, Program, ChipOK
  <2>2. /\ mem' = Prefix(cur.off + Covered(pos + chunk_size))
        /\ cur.off + Covered(pos + chunk_size) \in 0 .. req.size
    BY <1>0, <2>1, ProgramAdds
  <2>3. /\ cur' = cur /\ (\A n : Prefix(n)' = Prefix(n)) /\ (\A n : Covered(n)' = Covered(n))
        /\ chunk_size' = chunk_size
    BY <1>6, SamePart DEF InWrite, Program
  <2>. QED  BY <2>1, <2>2, <2>3
<1>7. CASE InWrite(WaitProgrammed)
  <2>1. /\ pc = "wait" /\ op = "write" /\ req' = req /\ mem' = mem /\ op' = op
        /\ mem = Prefix(cur.off + Covered(pos + chunk_size))
    BY <1>0, <1>7 DEF InWrite, WaitProgrammed, CallOK
  <2>2. cur' = cur /\ (\A n : Prefix(n)' = Prefix(n)) /\ (\A n : Covered(n)' = Covered(n))
    BY <1>7, SamePart DEF InWrite, WaitProgrammed
  <2>3. CASE pc' = "idle" /\ ret' = "TIMEOUT"
    BY <1>0, <2>1, <2>2, <2>3
  <2>4. CASE pos' = pos + chunk_size /\ pos' < cur.len /\ pc' \in {"trigger", "program"}
    BY <1>0, <2>1, <2>2, <2>4
  <2>5. CASE pos' = pos + chunk_size /\ ~(pos' < cur.len) /\ pc' = "next"
    <3>1. chunk_size \in Nat /\ pos + chunk_size <= cur.len /\ pos \in Nat
      BY <1>0, <2>1, ChunkFacts DEF LoopPcs, CallOK
    <3>2. /\ cur.pad \in Nat /\ cur.n \in Nat /\ cur.n > 0 /\ cur.pad + cur.n <= cur.len
          /\ cur.len \in Nat
      BY <1>0, <2>1, CurFacts
    <3>3. pos + chunk_size = cur.len
      BY <2>5, <3>1, <3>2
    <3>4. Covered(pos + chunk_size) = cur.n
      BY <3>2, <3>3 DEF Covered, Lesser
    <3>. QED  BY <1>0, <2>1, <2>2, <2>5, <3>4
  <2>. QED  BY <1>7, <2>3, <2>4, <2>5 DEF InWrite, WaitProgrammed, Return
<1>8. CASE InWrite(NextPart)
  <2>1. /\ pc = "next" /\ op = "write" /\ op' = op /\ mem' = mem /\ req' = req
        /\ mem = Prefix(cur.off + cur.n)
        /\ req \in RequestType /\ part \in Present(req)
    BY <1>0, <1>8 DEF InWrite, NextPart, CallOK
  <2>2. \A n : Prefix(n)' = Prefix(n)
    BY <2>1 DEF Prefix
  <2>3. CASE After(req, part) = {}
    <3>1. pc' = "idle" /\ cur.off + cur.n = req.size
      BY <1>8, <2>1, <2>3, FollowingPart DEF InWrite, NextPart, Return, cur
    <3>. QED  BY <1>0, <2>1, <2>2, <3>1
  <2>4. CASE After(req, part) # {}
    <3>1. pc' = "write" /\ cur'.off = cur.off + cur.n
      BY <1>8, <2>1, <2>4, FollowingPart DEF InWrite, NextPart, cur
    <3>. QED  BY <1>0, <2>1, <2>2, <3>1
  <2>. QED  BY <2>3, <2>4
<1>9. CASE InRead(RomRead) \/ InRead(ReadWait) \/ InRead(ReadDone) \/ InRead(ReadChunk)
  <2>1. mem' = mem /\ req' = req /\ op' = "read" /\ pc' \in {"idle", "read", "read_loop"}
    BY <1>0, <1>9 DEF InRead, RomRead, ReadWait, ReadDone, ReadChunk, CallOK, Return
  <2>2. \A n : Prefix(n)' = Prefix(n)
    BY <2>1 DEF Prefix
  <2>. QED  BY <1>0, <2>1, <2>2
<1>10. CASE InWrite(ChipDone) \/ InWrite(StartErase) \/ UNCHANGED vars
  <2>1. UNCHANGED <<pc, req, part, pos, op, mem, ret>>
    BY <1>10 DEF InWrite, ChipDone, StartErase, vars
  <2>2. /\ cur' = cur /\ (\A n : Prefix(n)' = Prefix(n)) /\ (\A n : Covered(n)' = Covered(n))
        /\ chunk_size' = chunk_size
    BY <2>1, SamePart
  <2>. QED  BY <1>0, <2>1, <2>2
<1>. QED  BY <1>1, <1>2, <1>3, <1>4, <1>5, <1>6, <1>7, <1>8, <1>9, <1>10
          DEF Next, Step, WriteStep, ReadStep, Chip, InWrite, InRead

\* How far the buffer is read.
LEMMA BufferStep ==
    ASSUME WriteInv, CallOK', [Next]_vars
    PROVE  ReadOK'
<1>. USE DEF ReadOK
<1>0. CallOK /\ LoopOK /\ ChipOK /\ ReadOK /\ FlagsOK /\ req.addr \in Nat /\ req.size \in Nat
  BY DEF WriteInv, CallOK, RequestType
<1>1. ASSUME NEW r \in Requests, stub_lib_flash_write_buff(r) PROVE ReadOK'
  BY <1>1 DEF stub_lib_flash_write_buff
<1>2. ASSUME NEW r \in Reads, stub_lib_flash_read_buff(r) PROVE ReadOK'
  <2>1. got' = {} /\ pos' = 0 /\ pc' \in {"idle", "read"} /\ (pc' = "idle" => ret' # "OK")
    BY <1>2 DEF stub_lib_flash_read_buff
  <2>2. ReadPrefix(0)' = {}
    BY DEF ReadPrefix
  <2>. QED  BY <2>1, <2>2
<1>3. CASE \/ InWrite(RomWrite) \/ InWrite(WriteUnencrypted) \/ InWrite(WriteEncrypted)
           \/ InWrite(Trigger) \/ InWrite(WaitDataReady) \/ InWrite(Program)
           \/ InWrite(WaitProgrammed) \/ InWrite(NextPart)
  <2>1. got' = got /\ op' = op /\ op = "write"
    BY <1>0, <1>3 DEF InWrite, RomWrite, WriteUnencrypted, WriteEncrypted, Trigger,
       WaitDataReady, Program, WaitProgrammed, NextPart, CallOK
  <2>. QED  BY <1>0, <2>1 DEF CallOK
<1>4. CASE InRead(RomRead)
  <2>1. pc = "read" /\ busy = FALSE /\ pos = 0 /\ req' = req /\ pc' = "idle"
    BY <1>0, <1>4 DEF InRead, RomRead, FlagsOK, LoopOK, Return
  <2>2. ReadPrefix(0) = {} /\ 0 + req.size = req.size
    BY <1>0 DEF ReadPrefix
  <2>3. /\ Sent(req.size) = ReadPrefix(req.size)
        /\ ReadPrefix(req.size) \subseteq [at : Nat, dst : Nat, garbled : BOOLEAN]
    BY <1>0, <2>1, <2>2, ReadGrows
  <2>4. ReadPrefix(req.size)' = ReadPrefix(req.size)
    BY <2>1 DEF ReadPrefix
  <2>. QED  BY <1>0, <1>4, <2>1, <2>3, <2>4 DEF InRead, RomRead, Return
<1>5. CASE InRead(ReadWait)
  <2>1. got' = got /\ pos' = pos /\ (\A n : ReadPrefix(n)' = ReadPrefix(n))
    BY <1>5 DEF InRead, ReadWait, ReadPrefix
  <2>. QED  BY <1>0, <1>5, <2>1 DEF InRead, ReadWait, Return
<1>6. CASE InRead(ReadChunk)
  <2>1. /\ pc = "read_loop" /\ pc' = pc /\ busy = FALSE /\ pos \in Nat /\ pos < req.size
        /\ req' = req
    BY <1>0, <1>6 DEF InRead, ReadChunk, FlagsOK, ChipOK, CallOK
  <2>. DEFINE n == Lesser(req.size - pos, FLASH_READ_CHUNK_SIZE)
  <2>2. got' = got \cup Sent(n) /\ pos' = pos + n
    BY <1>6 DEF InRead, ReadChunk
  <2>3. n \in Nat
    BY <1>0, <2>1 DEF Lesser, FLASH_READ_CHUNK_SIZE
  <2>. HIDE DEF n
  <2>4. /\ ReadPrefix(pos) \cup Sent(n) = ReadPrefix(pos + n)
        /\ ReadPrefix(pos + n) \subseteq [at : Nat, dst : Nat, garbled : BOOLEAN]
    BY <1>0, <2>1, <2>3, ReadGrows
  <2>5. \A m : ReadPrefix(m)' = ReadPrefix(m)
    BY <2>1 DEF ReadPrefix
  <2>. QED  BY <1>0, <2>1, <2>2, <2>4, <2>5
<1>7. CASE InRead(ReadDone)
  <2>1. got' = got /\ req' = req /\ pos = req.size /\ pc = "read_loop" /\ pc' = "idle"
        /\ (\A n : ReadPrefix(n)' = ReadPrefix(n))
    BY <1>7 DEF InRead, ReadDone, ReadPrefix, Return
  <2>. QED  BY <1>0, <2>1
<1>8. CASE InWrite(ChipDone) \/ InWrite(StartErase) \/ UNCHANGED vars
  <2>1. UNCHANGED <<pc, req, pos, op, got, ret>> /\ (\A n : ReadPrefix(n)' = ReadPrefix(n))
    BY <1>8 DEF InWrite, ChipDone, StartErase, vars, ReadPrefix
  <2>. QED  BY <1>0, <2>1
<1>. QED  BY <1>1, <1>2, <1>3, <1>4, <1>5, <1>6, <1>7, <1>8
          DEF Next, Step, WriteStep, ReadStep, Chip, InWrite, InRead

(***************************************************************************)
(* The theorems                                                            *)
(***************************************************************************)
\* Every step of a write, of a read and of the chip keeps WriteInv.
THEOREM WriteInvariant == Spec => []WriteInv
<1>1. Init => WriteInv
  <2>. SUFFICES ASSUME Init PROVE WriteInv
    OBVIOUS
  <2>1. NoRequest \in RequestType /\ NoRequest.size = 0 /\ ~NoRequest.encrypt
    BY DEF NoRequest, RequestType
  <2>2. FlagsOK /\ CallOK
    BY <2>1 DEF Init, FlagsOK, CallOK, Pcs, Results, Parts
  <2>3. LoopOK /\ ChipOK
    <3>1. cur.len \in Nat
      BY <2>2, PartFacts DEF cur, CallOK
    <3>. QED  BY <3>1 DEF Init, LoopOK, ChipOK, LoopPcs
  <2>4. WrittenOK /\ ReadOK
    <3>1. Prefix(0) = {}
      BY DEF Prefix
    <3>. QED  BY <2>1, <3>1 DEF Init, WrittenOK, ReadOK
  <2>. QED  BY <2>2, <2>3, <2>4 DEF WriteInv
<1>2. WriteInv /\ [Next]_vars => WriteInv'
  BY CallStep, FlagsStep, LoopStep, ChipStep, WrittenStep, BufferStep DEF WriteInv
<1>. QED  BY <1>1, <1>2, PTL DEF Spec

\* The loops of flash_4byte.c never run past the end of what they write or read.
THEOREM WriteTypeCorrect == Spec => []TypeOK
<1>1. WriteInv => TypeOK
  <2>. SUFFICES ASSUME WriteInv PROVE TypeOK
    OBVIOUS
  <2>1. pos \in 0 .. IF op = "write" THEN cur.len ELSE req.size
    <3>1. cur.len \in Nat /\ req.size \in Nat
      BY PartFacts DEF WriteInv, CallOK, cur, RequestType
    <3>. QED  BY <3>1 DEF WriteInv, CallOK, LoopOK
  <2>. QED  BY <2>1 DEF WriteInv, FlagsOK, CallOK, ReadOK, TypeOK
<1>. QED  BY <1>1, WriteInvariant, PTL

\* Whatever the address, the size and the encryption asked for, and wherever a write stops,
\* it has programmed a prefix of the caller's buffer at the caller's addresses, encrypted as
\* asked for.
THEOREM WritesArePrefixes == Spec => []WrittenIsPrefix
<1>1. WriteInv => WrittenIsPrefix
  <2>. SUFFICES ASSUME WriteInv PROVE WrittenIsPrefix
    OBVIOUS
  <2>1. req.size \in Nat
    BY DEF WriteInv, CallOK, RequestType
  <2>2. PICK n \in 0 .. req.size : mem = Prefix(n)
    BY DEF WriteInv, WrittenOK
  <2>3. n \in Nat /\ n <= req.size
    BY <2>1
  <2>4. Cardinality(mem) = n
    BY <2>2, <2>3, PrefixCardinality
  <2>. QED  BY <2>2, <2>3, <2>4 DEF WrittenIsPrefix, Prefix
<1>. QED  BY <1>1, WriteInvariant, PTL

\* A write that returns OK has programmed all of the request, and a read has read all of it
\* from a chip that was not busy.
THEOREM OkMeansComplete == Spec => []OkIsComplete
<1>1. WriteInv => OkIsComplete
  <2>. SUFFICES ASSUME WriteInv, pc = "idle", ret = "OK"
                PROVE  IF op = "write" THEN {b.src : b \in mem} = 0 .. req.size - 1
                       ELSE got = {[at |-> req.addr + k, dst |-> k, garbled |-> FALSE] :
                                      k \in 0 .. req.size - 1}
    BY DEF OkIsComplete
  <2>1. CASE op = "write"
    <3>1. mem = Prefix(req.size)
      BY <2>1 DEF WriteInv, WrittenOK
    <3>2. {b.src : b \in Prefix(req.size)} = 0 .. req.size - 1
      <4>. DEFINE Byte(k) == [at |-> req.addr + k, src |-> k, enc |-> req.encrypt]
      <4>1. \A k : Byte(k).src = k
        OBVIOUS
      <4>2. Prefix(req.size) = {Byte(k) : k \in 0 .. req.size - 1}
        BY DEF Prefix
      <4>. HIDE DEF Byte
      <4>. QED  BY <4>1, <4>2
    <3>. QED  BY <2>1, <3>1, <3>2
  <2>2. CASE op = "read"
    BY <2>2 DEF WriteInv, ReadOK, ReadPrefix
  <2>. QED  BY <2>1, <2>2 DEF WriteInv, CallOK
<1>. QED  BY <1>1, WriteInvariant, PTL

\* The chip ignores no command of a write, also of one that follows the start of an erase.
THEOREM CommandsAreTaken == Spec => []NoCommandIgnored
<1>1. WriteInv => NoCommandIgnored
  BY DEF WriteInv, ChipOK, NoCommandIgnored
<1>. QED  BY <1>1, WriteInvariant, PTL
=============================================================================
