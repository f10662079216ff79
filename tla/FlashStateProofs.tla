-------------------------- MODULE FlashStateProofs --------------------------
(***************************************************************************)
(* Proofs about FlashState: what stub_lib_flash_deinit gives back to the   *)
(* application, on every target, for any number of sessions and of calls   *)
(* of init_ex.                                                             *)
(***************************************************************************)
EXTENDS FlashState, TLAPS

(***************************************************************************)
(* The inductive invariant                                                 *)
(***************************************************************************)
Octal == target = "esp32s3_octal"
Modes == {"SPI", "STR", "DTR"}
InitPcs == {"attach", "spi_init", "reset", "id", "session"}
DeinitPcs == {"chip", "spi0", "restore"}

RegsType == [Regs -> Int]
AppType == [no : Nat \ {0}, live : BOOLEAN, wide : BOOLEAN, mode : Modes]
Addr32Type == [applied : BOOLEAN, saved : RegsType]
BufferType == [spi1 : RegsType, spi0 : RegsType, target_cr2 : {"STR", "DTR"},
               octal_active : BOOLEAN]
CallType == [pc : {"app"} \cup InitPcs \cup DeinitPcs, given : BOOLEAN, wide : BOOLEAN]
SessionType == [inits : Nat, attached : BOOLEAN, spi0 : RegsType, spi1 : RegsType, chip : Modes]

StateTypeOK ==
    /\ target \in Targets /\ big \in BOOLEAN
    /\ app \in AppType
    /\ spi0 \in RegsType /\ spi1 \in RegsType
    /\ chip \in Modes /\ cache \in BOOLEAN /\ large_flash_mode \in BOOLEAN
    /\ s_addr32_state \in Addr32Type
    /\ buffer \in BufferType
    /\ call \in CallType
    /\ session \in SessionType

\* Only an octal chip is ever in another mode than SPI, and only its state is marked as
\* active in a buffer that deinit will use; the cache stands still while it is restored.
OctalInv ==
    /\ ~Octal => app.mode = "SPI" /\ chip = "SPI"
    /\ target = "esp32s3" /\ call.pc # "app" /\ call.given => ~buffer.octal_active
    /\ IF call.pc \in {"chip", "spi0"}
       THEN Octal /\ call.given /\ buffer.octal_active /\ ~cache
       ELSE cache

\* The 32-bit mode of the cache ends with the session.
Addr32Inv ==
    s_addr32_state.applied =>
        large_flash_mode /\ call.pc \in InitPcs /\ target \in S3 \cup P4

\* Registers of an octal configuration come and go together: CTRL tells the mode of the
\* lines, DDR which octal mode that is.
Whole(regs) == regs["CTRL"] = app.no => regs["DDR"] = app.no
TogetherInv ==
    Octal =>
        /\ Whole(spi0) /\ Whole(session.spi0)
        /\ call.pc # "app" /\ call.given /\ buffer.octal_active => Whole(buffer.spi0)
        /\ call.pc \in {"reset", "id", "session", "chip", "spi0"} => spi0["CTRL"] # app.no
        /\ s_addr32_state.applied => s_addr32_state.saved["CTRL"] # app.no

\* What of the application's registers is where, between init_ex and deinit
SavedInv ==
    call.pc # "app" =>
        /\ session.inits > 0
        /\ call.pc = "attach" => session.attached
        /\ call.pc = "spi_init" /\ session.inits = 1 => ~session.attached
        /\ call.given /\ session.inits = 1 => \A r \in Saved1 : buffer.spi1[r] = session.spi1[r]
        /\ Octal /\ session.inits = 1 /\ call.given /\ buffer.octal_active =>
              /\ \A r \in Saved0 : buffer.spi0[r] = session.spi0[r]
              /\ buffer.target_cr2 = IF session.spi0["DDR"] = app.no /\ app.mode = "DTR"
                                     THEN "DTR" ELSE "STR"

\* Where the 32-bit mode of the cache has been, and what it has covered
WideInv ==
    call.pc # "app" /\ Once =>
        /\ \A r \in Regs : spi0[r] = Wide =>
              session.spi0[r] = Wide \/ (s_addr32_state.applied /\ r \in Wide0)
        /\ s_addr32_state.applied =>
              /\ \A r \in Wide0 : s_addr32_state.saved[r] = Wide => session.spi0[r] = Wide
              /\ target \in Trimmed => call.pc = "session"
              /\ \/ spi0["USER1"] = Wide
                 \/ session.attached /\ \A r \in Regs : spi0[r] # Wide

\* Without an attach, SPI0 is the application's outside octal mode ...
PlainInv ==
    call.pc # "app" /\ Once /\ ~session.attached /\ target \notin S3 \cup {"esp32s2"} =>
        \A r \in Regs : session.spi0[r] = IF s_addr32_state.applied /\ r \in Wide0
                                          THEN s_addr32_state.saved[r] ELSE spi0[r]

\* ... and in octal mode it is found in the buffer, and the chip follows.
OctalSessionInv ==
    call.pc # "app" /\ Octal /\ session.inits = 1 /\ ~session.attached =>
        /\ spi0["SLAVE"] = session.spi0["SLAVE"]
        /\ call.pc = "spi_init" => spi0 = session.spi0 /\ chip = session.chip
        /\ call.pc \in {"reset", "id", "session", "chip", "spi0"} /\ call.given =>
              buffer.octal_active
        /\ call.pc \in {"id", "session", "chip"} => chip = "SPI"
        /\ call.pc = "spi0" => chip = buffer.target_cr2
        /\ call.pc = "restore" => IF call.given
                                  THEN /\ spi0 = session.spi0 /\ buffer.octal_active
                                       /\ chip = buffer.target_cr2
                                  ELSE spi0["CTRL"] # app.no /\ chip = "SPI"

StateInv ==
    /\ StateTypeOK /\ OctalInv /\ Addr32Inv /\ TogetherInv /\ SavedInv /\ WideInv /\ PlainInv
    /\ OctalSessionInv /\ GivenBack /\ ModesAgree

(***************************************************************************)
(* Facts about the operators                                               *)
(***************************************************************************)
\* The values that are not the application's are no configuration's number.
LEMMA Constants == Stub \in Int /\ Wide \in Int /\ Garbage \in Int /\ Stub # Wide /\ Wide < 0
  BY DEF Stub, Wide, Garbage

\* What a controller that is set up anew holds.
LEMMA AllFacts ==
    ASSUME NEW v \in Int
    PROVE  All(v) \in RegsType /\ \A r \in Regs : All(v)[r] = v
  BY DEF All, RegsType

\* Setting some registers leaves the others.
LEMMA SetFacts ==
    ASSUME NEW regs \in RegsType, NEW names, NEW v \in Int
    PROVE  /\ Set(regs, names, v) \in RegsType
           /\ \A r \in Regs : Set(regs, names, v)[r] = IF r \in names THEN v ELSE regs[r]
  BY DEF Set, RegsType

\* So does copying them.
LEMMA CopyFacts ==
    ASSUME NEW regs \in RegsType, NEW names, NEW from \in RegsType
    PROVE  /\ Copy(regs, names, from) \in RegsType
           /\ \A r \in Regs :
                 Copy(regs, names, from)[r] = IF r \in names THEN from[r] ELSE regs[r]
  BY DEF Copy, RegsType

\* Two controllers with the same registers are equal.
LEMMA RegsEqual ==
    ASSUME NEW f \in RegsType, NEW g \in RegsType, \A r \in Regs : f[r] = g[r]
    PROVE  f = g
  BY DEF RegsType

\* What the octal mode of the esp32s3 touches: all registers of SPI0 but SLAVE are in
\* the buffer, and CTRL and DDR are among those that are set up anew.
LEMMA OctalFacts ==
    ASSUME Octal
    PROVE  /\ target \in S3 /\ target \in Trimmed /\ target \notin P4 /\ target # "esp32s3"
           /\ Saved0 \subseteq Regs /\ Saved0 = Regs \ {"SLAVE"}
           /\ Wide0 \subseteq Saved0 /\ "CTRL" \in Wide0
           /\ SpiInit.spi0 \subseteq Saved0 /\ {"CTRL", "DDR"} \subseteq SpiInit.spi0
           /\ {"CTRL", "DDR", "SLAVE"} \subseteq Regs
  <1>1. target \in S3 /\ target \in Trimmed /\ target \notin P4 /\ target # "esp32s3"
    BY DEF Octal, S3, P4, Trimmed
  <1>2. /\ Saved0 \subseteq Regs /\ Saved0 = Regs \ {"SLAVE"}
        /\ {"CTRL", "DDR", "SLAVE"} \subseteq Regs
    BY DEF Saved0, Regs
  <1>3. Wide0 \subseteq Saved0 /\ "CTRL" \in Wide0
    BY <1>1 DEF Wide0, esp32s3_addr32, Saved0
  <1>4. SpiInit = esp32s3_spi_init
    BY <1>1 DEF SpiInit, Octal, S3
  <1>5. SpiInit.spi0 \subseteq Saved0 /\ {"CTRL", "DDR"} \subseteq SpiInit.spi0
    BY <1>4 DEF esp32s3_spi_init, esp32s2_spi_init, Saved0
  <1> QED BY <1>1, <1>2, <1>3, <1>5

\* enable_4byte_cache_mode does nothing, or saves the registers it sets.
LEMMA EnableFacts ==
    ASSUME StateTypeOK, enable_4byte_cache_mode
    PROVE  \/ s_addr32_state' = s_addr32_state /\ spi0' = spi0
           \/ /\ s_addr32_state' \in Addr32Type /\ s_addr32_state'.applied
              /\ spi0' \in RegsType
              /\ \A r \in Regs : spi0'[r] = IF r \in Wide0 THEN Wide ELSE spi0[r]
              /\ \A r \in Wide0 \cap Regs : s_addr32_state'.saved[r] = spi0[r]
              /\ spi0["USER1"] # Wide
  <1>1. CASE IsWide
    BY <1>1 DEF enable_4byte_cache_mode
  <1>2. CASE ~IsWide
    <2>1. /\ s_addr32_state' = [applied |-> TRUE, saved |-> Copy(All(Garbage), Wide0, spi0)]
          /\ spi0' = Set(spi0, Wide0, Wide)
      BY <1>2 DEF enable_4byte_cache_mode
    <2>2. spi0 \in RegsType /\ All(Garbage) \in RegsType
      BY AllFacts, Constants DEF StateTypeOK
    <2>3. spi0' \in RegsType /\ \A r \in Regs : spi0'[r] = IF r \in Wide0 THEN Wide ELSE spi0[r]
      BY <2>1, <2>2, SetFacts, Constants
    <2>4. /\ Copy(All(Garbage), Wide0, spi0) \in RegsType
          /\ \A r \in Wide0 \cap Regs : Copy(All(Garbage), Wide0, spi0)[r] = spi0[r]
      BY <2>2, CopyFacts
    <2>5. spi0["USER1"] # Wide
      BY <1>2 DEF IsWide
    <2> QED BY <2>1, <2>3, <2>4, <2>5 DEF Addr32Type
  <1> QED BY <1>1, <1>2

\* disable_4byte_cache_mode does nothing, or puts them back.
LEMMA DisableFacts ==
    ASSUME StateTypeOK, disable_4byte_cache_mode
    PROVE  /\ s_addr32_state' \in Addr32Type /\ ~s_addr32_state'.applied
           /\ spi0' \in RegsType
           /\ \A r \in Regs : spi0'[r] = IF s_addr32_state.applied /\ r \in Wide0
                                         THEN s_addr32_state.saved[r] ELSE spi0[r]
  <1>1. CASE s_addr32_state.applied
    <2>1. /\ spi0' = Copy(spi0, Wide0, s_addr32_state.saved)
          /\ s_addr32_state' = [s_addr32_state EXCEPT !.applied = FALSE]
      BY <1>1 DEF disable_4byte_cache_mode
    <2>2. spi0 \in RegsType /\ s_addr32_state.saved \in RegsType
      BY DEF StateTypeOK, Addr32Type
    <2>3. /\ spi0' \in RegsType
          /\ \A r \in Regs : spi0'[r] = IF r \in Wide0 THEN s_addr32_state.saved[r] ELSE spi0[r]
      BY <2>1, <2>2, CopyFacts
    <2>4. s_addr32_state' \in Addr32Type /\ ~s_addr32_state'.applied
      BY <2>1 DEF StateTypeOK, Addr32Type
    <2> QED BY <1>1, <2>3, <2>4
  <1>2. CASE ~s_addr32_state.applied
    BY <1>2 DEF disable_4byte_cache_mode, StateTypeOK
  <1> QED BY <1>1, <1>2

\* The wrapper of the ROM's erase leaves SPI0 as it was.
LEMMA EraseFacts ==
    ASSUME StateTypeOK, stub_target_rom_spiflash_erase_area
    PROVE  spi0' = spi0 /\ spi1' \in RegsType
  <1>1. /\ spi0 \in RegsType /\ spi1 \in RegsType /\ All(Stub) \in RegsType
        /\ Set(spi0, RomEraseChanges, Stub) \in RegsType
        /\ \A r \in Regs : Set(spi0, RomEraseChanges, Stub)[r] =
                              IF r \in RomEraseChanges THEN Stub ELSE spi0[r]
    BY AllFacts, SetFacts, Constants DEF StateTypeOK
  <1>2. /\ spi0' = Copy(Set(spi0, RomEraseChanges, Stub), {"CTRL", "USER", "USER1", "USER2"}, spi0)
        /\ spi1' = Copy(All(Stub), {"CTRL"}, spi1)
    BY DEF stub_target_rom_spiflash_erase_area
  <1>3. spi1' \in RegsType /\ spi0' \in RegsType /\ \A r \in Regs : spi0'[r] = spi0[r]
    BY <1>1, <1>2, CopyFacts DEF RomEraseChanges
  <1> QED BY <1>1, <1>3, RegsEqual

\* InitSizes sets the 32-bit mode or leaves it, and only sets it on chips that it takes
\* for large.
LEMMA SizesFacts ==
    ASSUME StateTypeOK, InitSizes
    PROVE  /\ call.pc = "id" /\ call' = [call EXCEPT !.pc = "session"]
           /\ target' = target /\ app' = app /\ chip' = chip /\ cache' = cache
           /\ buffer' = buffer /\ session' = session /\ big' = big
           /\ spi1' \in RegsType /\ large_flash_mode' \in BOOLEAN
           /\ large_flash_mode => large_flash_mode'
           /\ \/ s_addr32_state' = s_addr32_state /\ spi0' = spi0
              \/ /\ s_addr32_state' \in Addr32Type /\ s_addr32_state'.applied
                 /\ large_flash_mode' /\ target \in S3 \cup P4
                 /\ spi0' \in RegsType
                 /\ \A r \in Regs : spi0'[r] = IF r \in Wide0 THEN Wide ELSE spi0[r]
                 /\ \A r \in Wide0 \cap Regs : s_addr32_state'.saved[r] = spi0[r]
                 /\ spi0["USER1"] # Wide
  <1>1. /\ call.pc = "id" /\ call' = [call EXCEPT !.pc = "session"]
        /\ target' = target /\ app' = app /\ chip' = chip /\ cache' = cache
        /\ buffer' = buffer /\ session' = session /\ big' = big
    BY DEF InitSizes, Goto
  <1>2. spi1' \in RegsType
    <2>1. Set(spi1, {"USER"}, Stub) \in RegsType /\ spi1 \in RegsType
      BY SetFacts, Constants DEF StateTypeOK
    <2> QED BY <2>1 DEF InitSizes
  <1>3. PICK flash_large \in {big, TRUE} :
          LET large == flash_large /\ target \notin {"esp32", "esp32s2", "esp32c6", "esp32c3"}
          IN  /\ large_flash_mode' = (large_flash_mode \/ large)
              /\ IF large /\ call.wide /\ target \in S3 \cup P4
                 THEN enable_4byte_cache_mode
                 ELSE UNCHANGED <<s_addr32_state, spi0>>
    BY Zenon DEF InitSizes
  <1>l. PICK large \in BOOLEAN :
          /\ large_flash_mode' = (large_flash_mode \/ large)
          /\ IF large /\ call.wide /\ target \in S3 \cup P4
             THEN enable_4byte_cache_mode
             ELSE UNCHANGED <<s_addr32_state, spi0>>
    BY <1>3, Zenon
  <1>4. large_flash_mode' \in BOOLEAN /\ (large_flash_mode => large_flash_mode')
    BY <1>l, Zenon DEF StateTypeOK
  <1>5. CASE large /\ call.wide /\ target \in S3 \cup P4
    <2>1. enable_4byte_cache_mode /\ large_flash_mode'
      BY <1>l, <1>5, Zenon
    <2> QED BY <1>1, <1>2, <1>4, <1>5, <2>1, EnableFacts
  <1>6. CASE ~(large /\ call.wide /\ target \in S3 \cup P4)
    <2>1. s_addr32_state' = s_addr32_state /\ spi0' = spi0
      BY <1>l, <1>6
    <2> QED BY <1>1, <1>2, <1>4, <2>1
  <1> QED BY <1>5, <1>6

\* What deinit does first: the 32-bit mode is over, and no register has its value.
LEMMA DeinitFacts ==
    ASSUME StateTypeOK, Addr32Inv, stub_lib_flash_deinit
    PROVE  /\ call.pc = "session"
           /\ target' = target /\ app' = app /\ chip' = chip /\ big' = big /\ spi1' = spi1
           /\ buffer' = buffer /\ session' = session
           /\ large_flash_mode' = FALSE
           /\ s_addr32_state' \in Addr32Type /\ ~s_addr32_state'.applied
           /\ spi0' \in RegsType
           /\ \A r \in Regs : spi0'[r] = IF s_addr32_state.applied /\ r \in Wide0
                                         THEN s_addr32_state.saved[r] ELSE spi0[r]
           /\ \/ /\ call.given /\ buffer.octal_active /\ target \in S3
                 /\ call' = [call EXCEPT !.pc = "chip"] /\ cache' = FALSE
              \/ /\ ~(call.given /\ buffer.octal_active /\ target \in S3)
                 /\ call' = [call EXCEPT !.pc = "restore"] /\ cache' = cache
  <1>1. /\ call.pc = "session"
        /\ target' = target /\ app' = app /\ chip' = chip /\ big' = big /\ spi1' = spi1
        /\ buffer' = buffer /\ session' = session
        /\ large_flash_mode' = FALSE
        /\ \/ /\ call.given /\ buffer.octal_active /\ target \in S3
              /\ call' = [call EXCEPT !.pc = "chip"] /\ cache' = FALSE
           \/ /\ ~(call.given /\ buffer.octal_active /\ target \in S3)
              /\ call' = [call EXCEPT !.pc = "restore"] /\ cache' = cache
    BY DEF stub_lib_flash_deinit, Goto
  <1>2. CASE large_flash_mode
    <2>1. disable_4byte_cache_mode
      BY <1>2 DEF stub_lib_flash_deinit
    <2> QED BY <1>1, <2>1, DisableFacts
  <1>3. CASE ~large_flash_mode
    <2>1. s_addr32_state' = s_addr32_state /\ spi0' = spi0 /\ ~s_addr32_state.applied
      BY <1>3 DEF stub_lib_flash_deinit, Addr32Inv
    <2>2. spi0 \in RegsType /\ s_addr32_state \in Addr32Type
      BY DEF StateTypeOK
    <2> QED BY <1>1, <2>1, <2>2
  <1> QED BY <1>2, <1>3

\* What init_ex does before it looks at the controllers.
LEMMA InitExFacts ==
    ASSUME StateTypeOK, NEW given \in BOOLEAN, NEW wide \in BOOLEAN,
           NEW policy \in {"ALWAYS", "IF_NEEDED"}, stub_target_flash_init(given, policy, wide)
    PROVE  /\ call.pc \in {"app", "session"} /\ call' \in CallType /\ call'.given = given
           /\ call'.pc \in {"attach", "spi_init"}
           /\ call'.pc = "attach" => session'.attached
           /\ target' = target /\ app' = app /\ chip' = chip /\ big' = big
           /\ spi0' = spi0 /\ spi1' = spi1
           /\ cache' = cache /\ large_flash_mode' = large_flash_mode
           /\ s_addr32_state' = s_addr32_state
           /\ buffer' \in BufferType /\ session' \in SessionType
           /\ buffer'.spi0 = buffer.spi0 /\ buffer'.target_cr2 = buffer.target_cr2
           /\ given => \A r \in Saved1 \cap Regs : buffer'.spi1[r] = spi1[r]
           /\ given /\ target \in S3 => ~buffer'.octal_active
           /\ IF call.pc = "app"
              THEN /\ session'.inits = 1 /\ session'.spi0 = spi0 /\ session'.spi1 = spi1
                   /\ session'.chip = chip
                   /\ call'.pc = "spi_init" => ~session'.attached
              ELSE /\ session'.inits = session.inits + 1 /\ session'.spi0 = session.spi0
                   /\ session'.spi1 = session.spi1 /\ session'.chip = session.chip
                   /\ session.attached => session'.attached
  <1> DEFINE found == IF call.pc = "app" THEN NewSession ELSE session
  <1>1. /\ call.pc \in {"app", "session"}
        /\ target' = target /\ app' = app /\ chip' = chip /\ big' = big
        /\ spi0' = spi0 /\ spi1' = spi1
        /\ cache' = cache /\ large_flash_mode' = large_flash_mode
        /\ s_addr32_state' = s_addr32_state
    BY DEF stub_target_flash_init
  <1>2. PICK attach \in BOOLEAN :
          /\ call' = [pc |-> IF attach THEN "attach" ELSE "spi_init", given |-> given,
                      wide |-> wide]
          /\ session' = [found EXCEPT !.inits = @ + 1, !.attached = @ \/ attach]
    <2>1. (policy = "ALWAYS" \/ stub_target_flash_needs_attach) \in BOOLEAN
      OBVIOUS
    <2> QED BY <2>1 DEF stub_target_flash_init
  <1>3. found \in SessionType
    BY DEF NewSession, SessionType, StateTypeOK
  <1>8. /\ found.spi0 = IF call.pc = "app" THEN spi0 ELSE session.spi0
        /\ found.spi1 = IF call.pc = "app" THEN spi1 ELSE session.spi1
        /\ found.chip = IF call.pc = "app" THEN chip ELSE session.chip
        /\ found.inits = IF call.pc = "app" THEN 0 ELSE session.inits
        /\ found.attached = IF call.pc = "app" THEN FALSE ELSE session.attached
    BY DEF NewSession
  <1> HIDE DEF found
  <1>a. PICK a \in BOOLEAN : a = (found.attached \/ attach)
    OBVIOUS
  <1>b. session' = [found EXCEPT !.inits = found.inits + 1, !.attached = a]
    BY <1>2, <1>a
  <1>4. /\ session' \in SessionType /\ session'.inits = found.inits + 1
        /\ session'.spi0 = found.spi0 /\ session'.spi1 = found.spi1
        /\ session'.chip = found.chip /\ session'.attached = a
    <2>1. /\ found.inits \in Nat /\ found.spi0 \in RegsType /\ found.spi1 \in RegsType
          /\ found.chip \in Modes
          /\ session' = [inits |-> found.inits + 1, attached |-> a, spi0 |-> found.spi0,
                         spi1 |-> found.spi1, chip |-> found.chip]
      BY <1>3, <1>b DEF SessionType
    <2> QED BY <2>1 DEF SessionType
  <1>5. session'.attached <=> found.attached \/ attach
    BY <1>a, <1>4
  <1>6. /\ call' \in CallType /\ call'.given = given
        /\ call'.pc = IF attach THEN "attach" ELSE "spi_init"
    BY <1>2 DEF CallType, InitPcs
  <1>7. /\ buffer' \in BufferType
        /\ buffer'.spi0 = buffer.spi0 /\ buffer'.target_cr2 = buffer.target_cr2
        /\ given => \A r \in Saved1 \cap Regs : buffer'.spi1[r] = spi1[r]
        /\ given /\ target \in S3 => ~buffer'.octal_active
    <2>1. CASE ~given
      BY <2>1 DEF stub_target_flash_init, stub_target_flash_state_save, StateTypeOK
    <2>2. CASE given
      <3>1. buffer' = [buffer EXCEPT !.spi1 = Copy(buffer.spi1, Saved1, spi1),
                                     !.octal_active = buffer.octal_active /\ target \notin S3]
        BY <2>2 DEF stub_target_flash_init, stub_target_flash_state_save
      <3>2. buffer \in BufferType /\ buffer.spi1 \in RegsType /\ spi1 \in RegsType
        BY DEF StateTypeOK, BufferType
      <3>3. /\ Copy(buffer.spi1, Saved1, spi1) \in RegsType
            /\ \A r \in Saved1 \cap Regs : Copy(buffer.spi1, Saved1, spi1)[r] = spi1[r]
        BY <3>2, CopyFacts
      <3>4. (buffer.octal_active /\ target \notin S3) \in BOOLEAN
        OBVIOUS
      <3> QED BY <2>2, <3>1, <3>2, <3>3, <3>4 DEF BufferType
    <2> QED BY <2>1, <2>2
  <1> QED BY <1>1, <1>4, <1>5, <1>6, <1>7, <1>8

\* What stub_target_spi_init does: in octal mode SPI0 goes into the buffer before it is
\* set up anew; on targets that leave it to the weak default nothing happens.
LEMMA SpiInitFacts ==
    ASSUME StateTypeOK, stub_target_spi_init
    PROVE  /\ call.pc = "spi_init" /\ call' = [call EXCEPT !.pc = "reset"]
           /\ target' = target /\ app' = app /\ chip' = chip /\ big' = big
           /\ cache' = cache /\ large_flash_mode' = large_flash_mode
           /\ s_addr32_state' = s_addr32_state /\ session' = session
           /\ spi0' \in RegsType /\ spi1' \in RegsType /\ buffer' \in BufferType
           /\ buffer'.spi1 = buffer.spi1
           /\ target \notin S3 \cup {"esp32s2"} => spi0' = spi0
           /\ \A r \in Regs : spi0'[r] = spi0[r] \/ spi0'[r] = Stub
           /\ IF Octal /\ call.given
              THEN /\ \A r \in Saved0 \cap Regs : buffer'.spi0[r] = spi0[r]
                   /\ buffer'.target_cr2 = IF spi0["DDR"] = app.no /\ app.mode = "DTR"
                                           THEN "DTR" ELSE "STR"
                   /\ buffer'.octal_active
              ELSE buffer' = buffer
           /\ Octal => /\ spi0'["CTRL"] = Stub /\ spi0'["DDR"] = Stub
                       /\ spi0'["SLAVE"] = spi0["SLAVE"]
  <1>0. /\ spi0 \in RegsType /\ spi1 \in RegsType /\ buffer \in BufferType
    BY DEF StateTypeOK
  <1>1. /\ call.pc = "spi_init" /\ call' = [call EXCEPT !.pc = "reset"]
        /\ target' = target /\ app' = app /\ chip' = chip /\ big' = big
        /\ cache' = cache /\ large_flash_mode' = large_flash_mode
        /\ s_addr32_state' = s_addr32_state /\ session' = session
    BY DEF stub_target_spi_init, Goto
  <1>2. CASE target \notin Trimmed
    <2>1. spi0' = spi0 /\ spi1' = spi1 /\ buffer' = buffer
      BY <1>2 DEF stub_target_spi_init
    <2>2. ~Octal
      BY <1>2, OctalFacts
    <2> QED BY <1>0, <1>1, <2>1, <2>2
  <1>3. CASE target \in Trimmed
    <2>1. /\ buffer' = octal_save_spi0_state
          /\ spi0' = Set(spi0, SpiInit.spi0, Stub) /\ spi1' = Set(spi1, SpiInit.spi1, Stub)
      BY <1>3 DEF stub_target_spi_init
    <2>2. /\ spi0' \in RegsType /\ spi1' \in RegsType
          /\ \A r \in Regs : spi0'[r] = IF r \in SpiInit.spi0 THEN Stub ELSE spi0[r]
      BY <1>0, <2>1, SetFacts, Constants
    <2>3. target \notin S3 \cup {"esp32s2"} => spi0' = spi0
      <3>1. target \notin S3 \cup {"esp32s2"} => SpiInit.spi0 = {}
        BY <1>3 DEF Trimmed, SpiInit, esp32_spi_init
      <3> QED BY <1>0, <2>2, <3>1, RegsEqual
    <2>4. Octal => /\ spi0'["CTRL"] = Stub /\ spi0'["DDR"] = Stub
                   /\ spi0'["SLAVE"] = spi0["SLAVE"]
      BY <2>2, OctalFacts
    <2>5. CASE Octal /\ call.given
      <3>1. buffer' = [buffer EXCEPT !.spi0 = Copy(buffer.spi0, Saved0, spi0),
                          !.target_cr2 = IF spi0["DDR"] = app.no /\ app.mode = "DTR"
                                         THEN "DTR" ELSE "STR",
                          !.octal_active = TRUE]
        BY <2>1, <2>5 DEF octal_save_spi0_state, Octal
      <3>2. buffer.spi0 \in RegsType
        BY <1>0 DEF BufferType
      <3>3. /\ Copy(buffer.spi0, Saved0, spi0) \in RegsType
            /\ \A r \in Saved0 \cap Regs : Copy(buffer.spi0, Saved0, spi0)[r] = spi0[r]
        BY <1>0, <3>2, CopyFacts
      <3>4. /\ buffer' \in BufferType /\ buffer'.spi1 = buffer.spi1
            /\ buffer'.spi0 = Copy(buffer.spi0, Saved0, spi0)
            /\ buffer'.target_cr2 = IF spi0["DDR"] = app.no /\ app.mode = "DTR"
                                    THEN "DTR" ELSE "STR"
            /\ buffer'.octal_active
        BY <1>0, <3>1, <3>3 DEF BufferType
      <3> QED BY <1>1, <2>2, <2>3, <2>4, <2>5, <3>3, <3>4
    <2>6. CASE ~(Octal /\ call.given)
      <3>1. buffer' = buffer
        BY <2>1, <2>6 DEF octal_save_spi0_state, Octal
      <3> QED BY <1>0, <1>1, <2>2, <2>3, <2>4, <2>6, <3>1
    <2> QED BY <2>5, <2>6
  <1> QED BY <1>2, <1>3

\* What octal_restore_spi0_state puts back.
LEMMA RestoreFacts ==
    ASSUME StateTypeOK, octal_restore_spi0_state
    PROVE  /\ call.pc = "spi0" /\ call' = [call EXCEPT !.pc = "restore"] /\ cache' = TRUE
           /\ target' = target /\ app' = app /\ chip' = chip /\ big' = big /\ spi1' = spi1
           /\ large_flash_mode' = large_flash_mode /\ s_addr32_state' = s_addr32_state
           /\ buffer' = buffer /\ session' = session
           /\ spi0' \in RegsType
           /\ \A r \in Regs : spi0'[r] = IF r \in Saved0 THEN buffer.spi0[r] ELSE spi0[r]
  <1>1. spi0 \in RegsType /\ buffer.spi0 \in RegsType
    BY DEF StateTypeOK, BufferType
  <1>2. spi0' = Copy(spi0, Saved0, buffer.spi0)
    BY DEF octal_restore_spi0_state
  <1>3. /\ spi0' \in RegsType
        /\ \A r \in Regs : spi0'[r] = IF r \in Saved0 THEN buffer.spi0[r] ELSE spi0[r]
    BY <1>1, <1>2, CopyFacts
  <1> QED BY <1>3 DEF octal_restore_spi0_state, Goto

\* What the last step of deinit puts back.
LEMMA RestoreSpi1Facts ==
    ASSUME StateTypeOK, stub_target_flash_state_restore
    PROVE  /\ spi1' \in RegsType
           /\ call.given => \A r \in Saved1 \cap Regs : spi1'[r] = buffer.spi1[r]
  <1>1. spi1 \in RegsType /\ buffer.spi1 \in RegsType
    BY DEF StateTypeOK, BufferType
  <1>2. spi1' = IF call.given THEN Copy(spi1, Saved1, buffer.spi1) ELSE spi1
    BY DEF stub_target_flash_state_restore
  <1> QED BY <1>1, <1>2, CopyFacts

\* Only registers are saved.
LEMMA Saved1Regs == Saved1 \subseteq Regs
  <1>1. /\ esp32_state \subseteq Regs /\ esp32s2_state \subseteq Regs
        /\ esp32s3_state \subseteq Regs
    BY DEF esp32_state, esp32s2_state, esp32s3_state, Regs
  <1> QED BY <1>1 DEF Saved1

\* Only registers of the 32-bit mode are covered by it.
LEMMA Wide0Regs == Wide0 \subseteq Regs /\ "USER1" \in Wide0
  BY DEF Wide0, esp32s3_addr32, esp32p4_addr32, Regs

\* What depends on the target alone stays.
LEMMA SameTarget ==
    ASSUME target' = target
    PROVE  /\ Octal' = Octal /\ Saved1' = Saved1 /\ Wide0' = Wide0
           /\ Once' = (session'.inits = 1 \/ (target \notin Trimmed /\ session'.inits > 0))
  BY DEF Octal, Saved1, Wide0, Once

\* The number of a configuration is not a value of the stub's.
LEMMA AppFacts ==
    ASSUME StateTypeOK
    PROVE  app.no # Stub /\ app.no # Wide /\ app.no \in Int
  BY DEF StateTypeOK, AppType, Stub, Wide

\* The next application.
LEMMA AppStartsFacts ==
    ASSUME StateTypeOK, AppStarts
    PROVE  /\ call.pc = "app" /\ call' = call /\ app' \in AppType
           /\ target' = target /\ big' = big /\ cache' = cache
           /\ large_flash_mode' = large_flash_mode
           /\ s_addr32_state' = s_addr32_state /\ buffer' = buffer
           /\ app'.mode # "SPI" => Octal
           /\ chip' = app'.mode /\ spi0' \in RegsType /\ spi1' \in RegsType
           /\ \A r \in Regs : spi0'[r] = app'.no
           /\ session' \in SessionType /\ session'.inits = 0 /\ session'.spi0 = spi0'
  <1>1. /\ call.pc = "app" /\ call' = call
        /\ target' = target /\ big' = big /\ cache' = cache
        /\ large_flash_mode' = large_flash_mode
        /\ s_addr32_state' = s_addr32_state /\ buffer' = buffer
        /\ spi0' = All(app.no + 1) /\ spi1' = All(app.no + 1) /\ chip' = app'.mode
        /\ app' \in Configs(app.no + 1)
        /\ session' = [NewSession EXCEPT !.spi0 = spi0', !.spi1 = spi1', !.chip = chip']
    BY DEF AppStarts
  <1>2. app.no + 1 \in Nat \ {0}
    BY DEF StateTypeOK, AppType
  <1>3. /\ app' \in AppType /\ app'.no = app.no + 1
        /\ app'.mode # "SPI" => Octal
    BY <1>1, <1>2 DEF Configs, AppType, Modes, Octal
  <1>4. /\ spi0' \in RegsType /\ spi1' \in RegsType
        /\ \A r \in Regs : spi0'[r] = app'.no
    BY <1>1, <1>2, <1>3, AllFacts
  <1>5. chip' \in Modes
    BY <1>1, <1>3 DEF AppType
  <1>6. session' \in SessionType /\ session'.inits = 0 /\ session'.spi0 = spi0'
    BY <1>1, <1>4, <1>5 DEF NewSession, SessionType
  <1> QED BY <1>1, <1>3, <1>4, <1>6

(***************************************************************************)
(* Every step keeps the invariant                                          *)
(***************************************************************************)
\* Registers, buffer, call and session keep their types.
LEMMA TypeStep ==
    ASSUME StateInv, Next
    PROVE  StateTypeOK'
  <1> USE DEF StateInv
  <1>1. CASE AppStarts
    <2>1. /\ call' = call /\ app' \in AppType /\ target' = target /\ big' = big /\ cache' = cache
          /\ large_flash_mode' = large_flash_mode /\ s_addr32_state' = s_addr32_state
          /\ buffer' = buffer /\ chip' = app'.mode /\ spi0' \in RegsType /\ spi1' \in RegsType
          /\ session' \in SessionType
      BY <1>1, AppStartsFacts
    <2>2. chip' \in Modes
      BY <2>1 DEF AppType
    <2> QED BY <2>1, <2>2 DEF StateTypeOK
  <1>2. ASSUME NEW given \in BOOLEAN, NEW wide \in BOOLEAN,
               NEW policy \in {"ALWAYS", "IF_NEEDED"},
               stub_target_flash_init(given, policy, wide)
        PROVE  StateTypeOK'
    BY <1>2, InitExFacts DEF StateTypeOK, CallType, InitPcs, DeinitPcs, SessionType, BufferType,
       Modes
  <1>3. CASE stub_target_flash_attach
    BY <1>3, AllFacts, Constants DEF stub_target_flash_attach, Goto, StateTypeOK, CallType,
       InitPcs, DeinitPcs, SessionType, BufferType, Modes
  <1>4. CASE stub_target_spi_init
    BY <1>4, SpiInitFacts DEF StateTypeOK, CallType, InitPcs, DeinitPcs, SessionType, BufferType,
       Modes
  <1>5. CASE esp_rom_opiflash_mode_reset
    BY <1>5, AllFacts, Constants DEF esp_rom_opiflash_mode_reset, Goto, StateTypeOK, CallType,
       InitPcs, DeinitPcs, SessionType, BufferType, Modes
  <1>6. CASE InitSizes
    BY <1>6, SizesFacts DEF StateTypeOK, CallType, InitPcs, DeinitPcs, SessionType, BufferType,
       Modes
  <1>7. CASE stub_lib_flash_attach
    BY <1>7, AllFacts, Constants DEF stub_lib_flash_attach, StateTypeOK, CallType, InitPcs,
       DeinitPcs, SessionType, BufferType, Modes
  <1>8. CASE FlashCommand
    BY <1>8, AllFacts, Constants DEF FlashCommand, StateTypeOK, CallType, InitPcs, DeinitPcs,
       SessionType, BufferType, Modes
  <1>9. CASE stub_target_rom_spiflash_erase_area
    BY <1>9, EraseFacts DEF stub_target_rom_spiflash_erase_area, StateTypeOK, CallType, InitPcs,
       DeinitPcs, SessionType, BufferType, Modes
  <1>10. CASE stub_lib_flash_deinit
    BY <1>10, DeinitFacts DEF StateTypeOK, CallType, InitPcs, DeinitPcs, SessionType, BufferType,
       Modes
  <1>11. CASE octal_restore_chip_mode
    BY <1>11, AllFacts, Constants DEF octal_restore_chip_mode, Goto, StateTypeOK, CallType,
       InitPcs, DeinitPcs, SessionType, BufferType, Modes
  <1>12. CASE octal_restore_spi0_state
    BY <1>12, RestoreFacts DEF StateTypeOK, CallType, InitPcs, DeinitPcs, SessionType,
       BufferType, Modes
  <1>13. CASE stub_target_flash_state_restore
    BY <1>13, RestoreSpi1Facts DEF stub_target_flash_state_restore, Goto, StateTypeOK, CallType,
       InitPcs, DeinitPcs, SessionType, BufferType, Modes
  <1> QED
    BY <1>1, <1>2, <1>3, <1>4, <1>5, <1>6, <1>7, <1>8, <1>9, <1>10, <1>11, <1>12, <1>13 DEF Next

\* Only an octal chip leaves the SPI mode.
LEMMA OctalStep ==
    ASSUME StateInv, StateTypeOK', Next
    PROVE  OctalInv'
  <1> USE DEF StateInv
  <1>1. CASE AppStarts
    BY <1>1, AppStartsFacts DEF OctalInv, Octal, StateTypeOK, CallType, S3, InitPcs, DeinitPcs
  <1>2. ASSUME NEW given \in BOOLEAN, NEW wide \in BOOLEAN,
               NEW policy \in {"ALWAYS", "IF_NEEDED"},
               stub_target_flash_init(given, policy, wide)
        PROVE  OctalInv'
    BY <1>2, InitExFacts DEF OctalInv, Octal, StateTypeOK, CallType, S3, InitPcs, DeinitPcs
  <1>3. CASE stub_target_flash_attach
    BY <1>3, AllFacts, Constants DEF stub_target_flash_attach, Goto, OctalInv, Octal,
       StateTypeOK, CallType, S3, InitPcs, DeinitPcs
  <1>4. CASE stub_target_spi_init
    BY <1>4, SpiInitFacts DEF OctalInv, Octal, StateTypeOK, CallType, S3, InitPcs, DeinitPcs
  <1>5. CASE esp_rom_opiflash_mode_reset
    BY <1>5, AllFacts, Constants DEF esp_rom_opiflash_mode_reset, Goto, OctalInv, Octal,
       StateTypeOK, CallType, S3, InitPcs, DeinitPcs
  <1>6. CASE InitSizes
    BY <1>6, SizesFacts DEF OctalInv, Octal, StateTypeOK, CallType, S3, InitPcs, DeinitPcs
  <1>7. CASE stub_lib_flash_attach
    BY <1>7, AllFacts, Constants DEF stub_lib_flash_attach, OctalInv, Octal, StateTypeOK,
       CallType, S3, InitPcs, DeinitPcs
  <1>8. CASE FlashCommand
    BY <1>8, AllFacts, Constants DEF FlashCommand, OctalInv, Octal, StateTypeOK, CallType, S3,
       InitPcs, DeinitPcs
  <1>9. CASE stub_target_rom_spiflash_erase_area
    BY <1>9, EraseFacts DEF stub_target_rom_spiflash_erase_area, OctalInv, Octal, StateTypeOK,
       CallType, S3, InitPcs, DeinitPcs
  <1>10. CASE stub_lib_flash_deinit
    BY <1>10, DeinitFacts DEF OctalInv, Octal, StateTypeOK, CallType, S3, InitPcs, DeinitPcs
  <1>11. CASE octal_restore_chip_mode
    BY <1>11, AllFacts, Constants DEF octal_restore_chip_mode, Goto, OctalInv, Octal,
       StateTypeOK, CallType, S3, InitPcs, DeinitPcs
  <1>12. CASE octal_restore_spi0_state
    BY <1>12, RestoreFacts DEF OctalInv, Octal, StateTypeOK, CallType, S3, InitPcs, DeinitPcs
  <1>13. CASE stub_target_flash_state_restore
    BY <1>13, RestoreSpi1Facts DEF stub_target_flash_state_restore, Goto, OctalInv, Octal,
       StateTypeOK, CallType, S3, InitPcs, DeinitPcs
  <1> QED
    BY <1>1, <1>2, <1>3, <1>4, <1>5, <1>6, <1>7, <1>8, <1>9, <1>10, <1>11, <1>12, <1>13 DEF Next

\* The 32-bit mode of the cache ends with the session.
LEMMA Addr32Step ==
    ASSUME StateInv, StateTypeOK', Next
    PROVE  Addr32Inv'
  <1> USE DEF StateInv
  <1>1. CASE AppStarts
    BY <1>1, AppStartsFacts DEF Addr32Inv, StateTypeOK, CallType, InitPcs, DeinitPcs
  <1>2. ASSUME NEW given \in BOOLEAN, NEW wide \in BOOLEAN,
               NEW policy \in {"ALWAYS", "IF_NEEDED"},
               stub_target_flash_init(given, policy, wide)
        PROVE  Addr32Inv'
    BY <1>2, InitExFacts DEF Addr32Inv, StateTypeOK, CallType, InitPcs, DeinitPcs
  <1>3. CASE stub_target_flash_attach
    BY <1>3, AllFacts, Constants DEF stub_target_flash_attach, Goto, Addr32Inv, StateTypeOK,
       CallType, InitPcs, DeinitPcs
  <1>4. CASE stub_target_spi_init
    BY <1>4, SpiInitFacts DEF Addr32Inv, StateTypeOK, CallType, InitPcs, DeinitPcs
  <1>5. CASE esp_rom_opiflash_mode_reset
    BY <1>5, AllFacts, Constants DEF esp_rom_opiflash_mode_reset, Goto, Addr32Inv, StateTypeOK,
       CallType, InitPcs, DeinitPcs
  <1>6. CASE InitSizes
    BY <1>6, SizesFacts DEF Addr32Inv, StateTypeOK, CallType, InitPcs, DeinitPcs
  <1>7. CASE stub_lib_flash_attach
    BY <1>7, AllFacts, Constants DEF stub_lib_flash_attach, Addr32Inv, StateTypeOK, CallType,
       InitPcs, DeinitPcs
  <1>8. CASE FlashCommand
    BY <1>8, AllFacts, Constants DEF FlashCommand, Addr32Inv, StateTypeOK, CallType, InitPcs,
       DeinitPcs
  <1>9. CASE stub_target_rom_spiflash_erase_area
    BY <1>9, EraseFacts DEF stub_target_rom_spiflash_erase_area, Addr32Inv, StateTypeOK,
       CallType, InitPcs, DeinitPcs
  <1>10. CASE stub_lib_flash_deinit
    BY <1>10, DeinitFacts DEF Addr32Inv, StateTypeOK, CallType, InitPcs, DeinitPcs
  <1>11. CASE octal_restore_chip_mode
    BY <1>11, AllFacts, Constants DEF octal_restore_chip_mode, Goto, Addr32Inv, StateTypeOK,
       CallType, InitPcs, DeinitPcs
  <1>12. CASE octal_restore_spi0_state
    BY <1>12, RestoreFacts DEF Addr32Inv, StateTypeOK, CallType, InitPcs, DeinitPcs
  <1>13. CASE stub_target_flash_state_restore
    BY <1>13, RestoreSpi1Facts DEF stub_target_flash_state_restore, Goto, Addr32Inv, StateTypeOK,
       CallType, InitPcs, DeinitPcs
  <1> QED
    BY <1>1, <1>2, <1>3, <1>4, <1>5, <1>6, <1>7, <1>8, <1>9, <1>10, <1>11, <1>12, <1>13 DEF Next

\* CTRL and DDR of an octal configuration come and go together.
LEMMA TogetherStep ==
    ASSUME StateInv, StateTypeOK', Next
    PROVE  TogetherInv'
  <1> USE DEF StateInv
  <1>1. CASE AppStarts
    <2>1. /\ call.pc = "app" /\ call' = call /\ s_addr32_state' = s_addr32_state
          /\ session'.spi0 = spi0' /\ target' = target
          /\ \A r \in Regs : spi0'[r] = app'.no
      BY <1>1, AppStartsFacts
    <2>2. ~s_addr32_state.applied
      BY <2>1 DEF Addr32Inv, InitPcs
    <2>3. "DDR" \in Regs
      BY DEF Regs
    <2> HIDE DEF StateInv
    <2> QED BY <2>1, <2>2, <2>3 DEF TogetherInv, Whole
  <1>2. ASSUME NEW given \in BOOLEAN, NEW wide \in BOOLEAN,
               NEW policy \in {"ALWAYS", "IF_NEEDED"},
               stub_target_flash_init(given, policy, wide)
        PROVE  TogetherInv'
    BY <1>2, InitExFacts, AppFacts, OctalFacts DEF TogetherInv, Whole, StateTypeOK, CallType,
       Octal
  <1>3. CASE stub_target_flash_attach
    BY <1>3, AllFacts, Constants, AppFacts, OctalFacts DEF stub_target_flash_attach, Goto,
       TogetherInv, Whole, StateTypeOK, CallType, Octal
  <1>4. CASE stub_target_spi_init
    BY <1>4, SpiInitFacts, AppFacts, OctalFacts DEF TogetherInv, Whole, StateTypeOK, CallType,
       Octal
  <1>5. CASE esp_rom_opiflash_mode_reset
    BY <1>5, AllFacts, Constants, AppFacts, OctalFacts DEF esp_rom_opiflash_mode_reset, Goto,
       TogetherInv, Whole, StateTypeOK, CallType, Octal
  <1>6. CASE InitSizes
    BY <1>6, SizesFacts, AppFacts, OctalFacts DEF TogetherInv, Whole, StateTypeOK, CallType,
       Octal
  <1>7. CASE stub_lib_flash_attach
    BY <1>7, AllFacts, Constants, AppFacts, OctalFacts DEF stub_lib_flash_attach, TogetherInv,
       Whole, StateTypeOK, CallType, Octal
  <1>8. CASE FlashCommand
    BY <1>8, AllFacts, Constants, AppFacts, OctalFacts DEF FlashCommand, TogetherInv, Whole,
       StateTypeOK, CallType, Octal
  <1>9. CASE stub_target_rom_spiflash_erase_area
    BY <1>9, EraseFacts, AppFacts, OctalFacts DEF stub_target_rom_spiflash_erase_area,
       TogetherInv, Whole, StateTypeOK, CallType, Octal
  <1>10. CASE stub_lib_flash_deinit
    BY <1>10, DeinitFacts, AppFacts, OctalFacts DEF TogetherInv, Whole, StateTypeOK, CallType,
       Octal
  <1>11. CASE octal_restore_chip_mode
    BY <1>11, AllFacts, Constants, AppFacts, OctalFacts DEF octal_restore_chip_mode, Goto,
       TogetherInv, Whole, StateTypeOK, CallType, Octal
  <1>12. CASE octal_restore_spi0_state
    <2>1. /\ call.pc = "spi0" /\ call' = [call EXCEPT !.pc = "restore"] /\ app' = app
          /\ s_addr32_state' = s_addr32_state /\ buffer' = buffer /\ session' = session
          /\ target' = target
          /\ \A r \in Regs : spi0'[r] = IF r \in Saved0 THEN buffer.spi0[r] ELSE spi0[r]
      BY <1>12, RestoreFacts
    <2>2. call'.pc = "restore" /\ call'.given = call.given
      BY <2>1 DEF StateTypeOK, CallType
    <2>3. Octal /\ call.given /\ buffer.octal_active
      BY <2>1 DEF OctalInv
    <2>4. {"CTRL", "DDR"} \subseteq Saved0 /\ {"CTRL", "DDR"} \subseteq Regs
      BY DEF Saved0, Regs
    <2>5. spi0'["CTRL"] = buffer.spi0["CTRL"] /\ spi0'["DDR"] = buffer.spi0["DDR"]
      BY <2>1, <2>4
    <2>6. TogetherInv
      OBVIOUS
    <2> HIDE DEF StateInv
    <2> QED BY <2>1, <2>2, <2>3, <2>5, <2>6 DEF TogetherInv, Whole
  <1>13. CASE stub_target_flash_state_restore
    BY <1>13, RestoreSpi1Facts, AppFacts, OctalFacts DEF stub_target_flash_state_restore, Goto,
       TogetherInv, Whole, StateTypeOK, CallType, Octal
  <1> QED
    BY <1>1, <1>2, <1>3, <1>4, <1>5, <1>6, <1>7, <1>8, <1>9, <1>10, <1>11, <1>12, <1>13 DEF Next

\* What init_ex has saved stays in the buffer.
LEMMA SavedStep ==
    ASSUME StateInv, StateTypeOK', Next
    PROVE  SavedInv'
  <1> USE DEF StateInv
  <1>1. CASE AppStarts
    BY <1>1, AppStartsFacts, OctalFacts, Saved1Regs DEF SavedInv, StateTypeOK, CallType,
       SessionType, Octal, Saved1
  <1>2. ASSUME NEW given \in BOOLEAN, NEW wide \in BOOLEAN,
               NEW policy \in {"ALWAYS", "IF_NEEDED"},
               stub_target_flash_init(given, policy, wide)
        PROVE  SavedInv'
    BY <1>2, InitExFacts, OctalFacts, Saved1Regs DEF SavedInv, StateTypeOK, CallType,
       SessionType, Octal, Saved1
  <1>3. CASE stub_target_flash_attach
    BY <1>3, AllFacts, Constants, OctalFacts, Saved1Regs DEF stub_target_flash_attach, Goto,
       SavedInv, StateTypeOK, CallType, SessionType, Octal, Saved1
  <1>4. CASE stub_target_spi_init
    <2>1. /\ call.pc = "spi_init" /\ call' = [call EXCEPT !.pc = "reset"] /\ app' = app
          /\ target' = target /\ session' = session /\ buffer'.spi1 = buffer.spi1
          /\ IF Octal /\ call.given
             THEN /\ \A r \in Saved0 \cap Regs : buffer'.spi0[r] = spi0[r]
                  /\ buffer'.target_cr2 = IF spi0["DDR"] = app.no /\ app.mode = "DTR"
                                          THEN "DTR" ELSE "STR"
             ELSE buffer' = buffer
      BY <1>4, SpiInitFacts
    <2>2. call'.pc = "reset" /\ call'.given = call.given
      BY <2>1 DEF StateTypeOK, CallType
    <2>3. Octal /\ session.inits = 1 => spi0 = session.spi0
      BY <2>1 DEF OctalSessionInv, SavedInv
    <2>4. Octal' = Octal /\ Saved1' = Saved1
      BY <2>1, SameTarget
    <2>5. Octal => Saved0 \subseteq Regs
      BY OctalFacts
    <2>6. SavedInv
      OBVIOUS
    <2> HIDE DEF StateInv
    <2> QED BY <2>1, <2>2, <2>3, <2>4, <2>5, <2>6 DEF SavedInv
  <1>5. CASE esp_rom_opiflash_mode_reset
    BY <1>5, AllFacts, Constants, OctalFacts, Saved1Regs DEF esp_rom_opiflash_mode_reset, Goto,
       SavedInv, StateTypeOK, CallType, SessionType, Octal, Saved1
  <1>6. CASE InitSizes
    BY <1>6, SizesFacts, OctalFacts, Saved1Regs DEF SavedInv, StateTypeOK, CallType, SessionType,
       Octal, Saved1
  <1>7. CASE stub_lib_flash_attach
    BY <1>7, AllFacts, Constants, OctalFacts, Saved1Regs DEF stub_lib_flash_attach, SavedInv,
       StateTypeOK, CallType, SessionType, Octal, Saved1
  <1>8. CASE FlashCommand
    BY <1>8, AllFacts, Constants, OctalFacts, Saved1Regs DEF FlashCommand, SavedInv, StateTypeOK,
       CallType, SessionType, Octal, Saved1
  <1>9. CASE stub_target_rom_spiflash_erase_area
    BY <1>9, EraseFacts, OctalFacts, Saved1Regs DEF stub_target_rom_spiflash_erase_area,
       SavedInv, StateTypeOK, CallType, SessionType, Octal, Saved1
  <1>10. CASE stub_lib_flash_deinit
    <2>1. /\ call.pc = "session" /\ target' = target /\ app' = app
          /\ buffer' = buffer /\ session' = session
      BY <1>10, DeinitFacts
    <2>2. call'.pc \in {"chip", "restore"} /\ call'.given = call.given
      BY <1>10, DeinitFacts DEF StateTypeOK, CallType
    <2>3. Octal' = Octal /\ Saved1' = Saved1
      BY <2>1, SameTarget
    <2>4. SavedInv
      OBVIOUS
    <2> HIDE DEF StateInv
    <2> QED BY <2>1, <2>2, <2>3, <2>4 DEF SavedInv
  <1>11. CASE octal_restore_chip_mode
    BY <1>11, AllFacts, Constants, OctalFacts, Saved1Regs DEF octal_restore_chip_mode, Goto,
       SavedInv, StateTypeOK, CallType, SessionType, Octal, Saved1
  <1>12. CASE octal_restore_spi0_state
    <2>1. /\ call.pc = "spi0" /\ target' = target /\ app' = app
          /\ buffer' = buffer /\ session' = session
      BY <1>12, RestoreFacts
    <2>2. call'.pc \in {"restore"} /\ call'.given = call.given
      BY <1>12, RestoreFacts DEF StateTypeOK, CallType
    <2>3. Octal' = Octal /\ Saved1' = Saved1
      BY <2>1, SameTarget
    <2>4. SavedInv
      OBVIOUS
    <2> HIDE DEF StateInv
    <2> QED BY <2>1, <2>2, <2>3, <2>4 DEF SavedInv
  <1>13. CASE stub_target_flash_state_restore
    BY <1>13, RestoreSpi1Facts, OctalFacts, Saved1Regs DEF stub_target_flash_state_restore, Goto,
       SavedInv, StateTypeOK, CallType, SessionType, Octal, Saved1
  <1> QED
    BY <1>1, <1>2, <1>3, <1>4, <1>5, <1>6, <1>7, <1>8, <1>9, <1>10, <1>11, <1>12, <1>13 DEF Next

\* The 32-bit mode covers what it has saved.
LEMMA WideStep ==
    ASSUME StateInv, StateTypeOK', Next
    PROVE  WideInv'
  <1> USE DEF StateInv
  <1>1. CASE AppStarts
    BY <1>1, AppStartsFacts, Constants, Wide0Regs DEF WideInv, Once, Wide0, StateTypeOK,
       CallType, SessionType
  <1>2. ASSUME NEW given \in BOOLEAN, NEW wide \in BOOLEAN,
               NEW policy \in {"ALWAYS", "IF_NEEDED"},
               stub_target_flash_init(given, policy, wide)
        PROVE  WideInv'
    <2>1. /\ call.pc \in {"app", "session"} /\ call' \in CallType
          /\ call'.pc \in {"attach", "spi_init"}
          /\ target' = target /\ app' = app /\ chip' = chip /\ spi0' = spi0
          /\ s_addr32_state' = s_addr32_state
          /\ cache' = cache /\ call'.pc = "attach" => session'.attached
          /\ IF call.pc = "app"
             THEN /\ session'.inits = 1 /\ session'.spi0 = spi0 /\ session'.chip = chip
             ELSE /\ session'.inits = session.inits + 1 /\ session'.spi0 = session.spi0
                  /\ session.attached => session'.attached
      BY <1>2, InitExFacts
    <2>2. call.pc = "app" => ~s_addr32_state.applied
      BY <2>1 DEF Addr32Inv, InitPcs
    <2>3. call.pc # "app" => session.inits \in Nat /\ session.inits > 0
      BY DEF SavedInv, StateTypeOK, SessionType
    <2>4. Octal' = Octal /\ Wide0' = Wide0
      BY <2>1, SameTarget
    <2>5. Once' /\ call.pc # "app" => Once
      BY <2>1, <2>3 DEF Once
    <2>6. WideInv
      OBVIOUS
    <2>7. Once' /\ target \in Trimmed => call.pc = "app"
      BY <2>1, <2>3 DEF Once
    <2> HIDE DEF StateInv
    <2>8. CASE call.pc = "app"
      BY <2>1, <2>2, <2>4, <2>8 DEF WideInv
    <2>9. CASE call.pc = "session"
      BY <2>1, <2>4, <2>5, <2>6, <2>7, <2>9 DEF WideInv
    <2> QED BY <2>1, <2>8, <2>9
  <1>3. CASE stub_target_flash_attach
    <2>1. /\ call.pc = "attach" /\ call' = [call EXCEPT !.pc = "id"] /\ target' = target
          /\ session' = session /\ s_addr32_state' = s_addr32_state /\ spi0' = All(Stub)
      BY <1>3 DEF stub_target_flash_attach, Goto
    <2>2. session.attached /\ call'.pc = "id" /\ WideInv
      BY <2>1 DEF SavedInv, StateTypeOK, CallType
    <2>3. \A r \in Regs : spi0'[r] # Wide
      BY <2>1, AllFacts, Constants
    <2>4. Wide0' = Wide0 /\ Once' = Once
      BY <2>1, SameTarget DEF Once
    <2> HIDE DEF StateInv
    <2> QED BY <2>1, <2>2, <2>3, <2>4 DEF WideInv
  <1>4. CASE stub_target_spi_init
    <2>1. /\ call.pc = "spi_init" /\ call' = [call EXCEPT !.pc = "reset"] /\ target' = target
          /\ session' = session /\ s_addr32_state' = s_addr32_state
          /\ target \notin S3 \cup {"esp32s2"} => spi0' = spi0
          /\ \A r \in Regs : spi0'[r] = spi0[r] \/ spi0'[r] = Stub
      BY <1>4, SpiInitFacts
    <2>2. call'.pc = "reset" /\ WideInv
      BY <2>1 DEF StateTypeOK, CallType
    <2>3. Once /\ s_addr32_state.applied => spi0' = spi0
      BY <2>1, <2>2 DEF WideInv, Trimmed
    <2>4. Wide0' = Wide0 /\ Once' = Once
      BY <2>1, SameTarget DEF Once
    <2> HIDE DEF StateInv
    <2> QED BY <2>1, <2>2, <2>3, <2>4, Constants DEF WideInv
  <1>5. CASE esp_rom_opiflash_mode_reset
    BY <1>5, AllFacts, Constants, Constants, Wide0Regs DEF esp_rom_opiflash_mode_reset, Goto,
       WideInv, Once, Wide0, StateTypeOK, CallType, SessionType
  <1>6. CASE InitSizes
    <2>1. /\ call.pc = "id" /\ call' = [call EXCEPT !.pc = "session"]
          /\ target' = target /\ app' = app /\ chip' = chip /\ cache' = cache
          /\ session' = session /\ buffer' = buffer
          /\ \/ s_addr32_state' = s_addr32_state /\ spi0' = spi0
             \/ /\ s_addr32_state'.applied
                /\ \A r \in Regs : spi0'[r] = IF r \in Wide0 THEN Wide ELSE spi0[r]
                /\ \A r \in Wide0 \cap Regs : s_addr32_state'.saved[r] = spi0[r]
                /\ spi0["USER1"] # Wide
      BY <1>6, SizesFacts
    <2>2. call'.pc = "session" /\ call'.given = call.given
      BY <2>1 DEF StateTypeOK, CallType
    <2>3. Octal' = Octal /\ Wide0' = Wide0 /\ Once' = Once
      BY <2>1, SameTarget DEF Once
    <2>4. WideInv
      OBVIOUS
    <2> HIDE DEF StateInv
    <2>5. CASE s_addr32_state' = s_addr32_state /\ spi0' = spi0
      BY <2>1, <2>2, <2>3, <2>4, <2>5 DEF WideInv
    <2>6. CASE /\ s_addr32_state'.applied
               /\ \A r \in Regs : spi0'[r] = IF r \in Wide0 THEN Wide ELSE spi0[r]
               /\ \A r \in Wide0 \cap Regs : s_addr32_state'.saved[r] = spi0[r]
               /\ spi0["USER1"] # Wide
      <3>1. CASE s_addr32_state.applied
        BY <2>1, <2>2, <2>3, <2>4, <2>6, <3>1, Wide0Regs DEF WideInv
      <3>2. CASE ~s_addr32_state.applied
        BY <2>1, <2>2, <2>3, <2>4, <2>6, <3>2, Wide0Regs DEF WideInv
      <3> QED BY <3>1, <3>2
    <2> QED BY <2>1, <2>5, <2>6
  <1>7. CASE stub_lib_flash_attach
    BY <1>7, AllFacts, Constants, Constants, Wide0Regs DEF stub_lib_flash_attach, WideInv, Once,
       Wide0, StateTypeOK, CallType, SessionType
  <1>8. CASE FlashCommand
    BY <1>8, AllFacts, Constants, Constants, Wide0Regs DEF FlashCommand, WideInv, Once, Wide0,
       StateTypeOK, CallType, SessionType
  <1>9. CASE stub_target_rom_spiflash_erase_area
    BY <1>9, EraseFacts, Constants, Wide0Regs DEF stub_target_rom_spiflash_erase_area, WideInv,
       Once, Wide0, StateTypeOK, CallType, SessionType
  <1>10. CASE stub_lib_flash_deinit
    BY <1>10, DeinitFacts, Constants, Wide0Regs DEF WideInv, Once, Wide0, StateTypeOK, CallType,
       SessionType
  <1>11. CASE octal_restore_chip_mode
    BY <1>11, AllFacts, Constants, Constants, Wide0Regs DEF octal_restore_chip_mode, Goto,
       WideInv, Once, Wide0, StateTypeOK, CallType, SessionType
  <1>12. CASE octal_restore_spi0_state
    <2>1. /\ call.pc = "spi0" /\ call' = [call EXCEPT !.pc = "restore"] /\ cache' = TRUE
          /\ target' = target /\ app' = app /\ chip' = chip
          /\ s_addr32_state' = s_addr32_state /\ buffer' = buffer /\ session' = session
          /\ spi0' \in RegsType
          /\ \A r \in Regs : spi0'[r] = IF r \in Saved0 THEN buffer.spi0[r] ELSE spi0[r]
      BY <1>12, RestoreFacts
    <2>2. call'.pc = "restore" /\ call'.given = call.given
      BY <2>1 DEF StateTypeOK, CallType
    <2>3. Octal /\ call.given /\ buffer.octal_active /\ ~s_addr32_state.applied
      BY <2>1 DEF OctalInv, Addr32Inv, InitPcs
    <2>4. Octal' = Octal /\ Wide0' = Wide0 /\ Once' = Once
      BY <2>1, SameTarget DEF Once
    <2>5. target \in S3 /\ Saved0 = Regs \ {"SLAVE"}
      BY <2>3, OctalFacts
    <2>6. Once => session.inits = 1
      BY <2>3, OctalFacts DEF Once
    <2>7. session.inits = 1 => \A r \in Saved0 : buffer.spi0[r] = session.spi0[r]
      BY <2>1, <2>3 DEF SavedInv
    <2>8. WideInv
      OBVIOUS
    <2> HIDE DEF StateInv
    <2> QED BY <2>1, <2>2, <2>3, <2>4, <2>5, <2>6, <2>7, <2>8 DEF WideInv
  <1>13. CASE stub_target_flash_state_restore
    BY <1>13, RestoreSpi1Facts, Constants, Wide0Regs DEF stub_target_flash_state_restore, Goto,
       WideInv, Once, Wide0, StateTypeOK, CallType, SessionType
  <1> QED
    BY <1>1, <1>2, <1>3, <1>4, <1>5, <1>6, <1>7, <1>8, <1>9, <1>10, <1>11, <1>12, <1>13 DEF Next

\* Outside octal mode SPI0 stays the application's.
LEMMA PlainStep ==
    ASSUME StateInv, StateTypeOK', Next
    PROVE  PlainInv'
  <1> USE DEF StateInv
  <1>1. CASE AppStarts
    BY <1>1, AppStartsFacts, Wide0Regs DEF PlainInv, Once, Wide0, StateTypeOK, CallType,
       SessionType
  <1>2. ASSUME NEW given \in BOOLEAN, NEW wide \in BOOLEAN,
               NEW policy \in {"ALWAYS", "IF_NEEDED"},
               stub_target_flash_init(given, policy, wide)
        PROVE  PlainInv'
    <2>1. /\ call.pc \in {"app", "session"} /\ call' \in CallType
          /\ call'.pc \in {"attach", "spi_init"}
          /\ target' = target /\ app' = app /\ chip' = chip /\ spi0' = spi0
          /\ s_addr32_state' = s_addr32_state
          /\ cache' = cache /\ call'.pc = "attach" => session'.attached
          /\ IF call.pc = "app"
             THEN /\ session'.inits = 1 /\ session'.spi0 = spi0 /\ session'.chip = chip
             ELSE /\ session'.inits = session.inits + 1 /\ session'.spi0 = session.spi0
                  /\ session.attached => session'.attached
      BY <1>2, InitExFacts
    <2>2. call.pc = "app" => ~s_addr32_state.applied
      BY <2>1 DEF Addr32Inv, InitPcs
    <2>3. call.pc # "app" => session.inits \in Nat /\ session.inits > 0
      BY DEF SavedInv, StateTypeOK, SessionType
    <2>4. Octal' = Octal /\ Wide0' = Wide0
      BY <2>1, SameTarget
    <2>5. Once' /\ call.pc # "app" => Once
      BY <2>1, <2>3 DEF Once
    <2>6. PlainInv
      OBVIOUS
    <2> HIDE DEF StateInv
    <2> QED BY <2>1, <2>2, <2>4, <2>5, <2>6 DEF PlainInv
  <1>3. CASE stub_target_flash_attach
    <2>1. call.pc = "attach" /\ session' = session
      BY <1>3 DEF stub_target_flash_attach
    <2>2. session.attached
      BY <2>1 DEF SavedInv
    <2> QED BY <2>1, <2>2 DEF PlainInv
  <1>4. CASE stub_target_spi_init
    BY <1>4, SpiInitFacts, Wide0Regs DEF PlainInv, Once, Wide0, StateTypeOK, CallType,
       SessionType
  <1>5. CASE esp_rom_opiflash_mode_reset
    BY <1>5, AllFacts, Constants, Wide0Regs DEF esp_rom_opiflash_mode_reset, Goto, PlainInv,
       Once, Wide0, StateTypeOK, CallType, SessionType
  <1>6. CASE InitSizes
    <2>1. /\ call.pc = "id" /\ call' = [call EXCEPT !.pc = "session"]
          /\ target' = target /\ app' = app /\ chip' = chip /\ cache' = cache
          /\ session' = session /\ buffer' = buffer
          /\ \/ s_addr32_state' = s_addr32_state /\ spi0' = spi0
             \/ /\ s_addr32_state'.applied
                /\ \A r \in Regs : spi0'[r] = IF r \in Wide0 THEN Wide ELSE spi0[r]
                /\ \A r \in Wide0 \cap Regs : s_addr32_state'.saved[r] = spi0[r]
                /\ spi0["USER1"] # Wide
      BY <1>6, SizesFacts
    <2>2. call'.pc = "session" /\ call'.given = call.given
      BY <2>1 DEF StateTypeOK, CallType
    <2>3. Octal' = Octal /\ Wide0' = Wide0 /\ Once' = Once
      BY <2>1, SameTarget DEF Once
    <2>4. PlainInv /\ WideInv
      OBVIOUS
    <2> HIDE DEF StateInv
    <2>5. CASE s_addr32_state' = s_addr32_state /\ spi0' = spi0
      BY <2>1, <2>2, <2>3, <2>4, <2>5 DEF PlainInv
    <2>6. CASE /\ s_addr32_state'.applied
               /\ \A r \in Regs : spi0'[r] = IF r \in Wide0 THEN Wide ELSE spi0[r]
               /\ \A r \in Wide0 \cap Regs : s_addr32_state'.saved[r] = spi0[r]
               /\ spi0["USER1"] # Wide
      <3>1. Once /\ ~session.attached => ~s_addr32_state.applied
        BY <2>1, <2>4, <2>6 DEF WideInv
      <3> QED BY <2>1, <2>2, <2>3, <2>4, <2>6, <3>1, Wide0Regs DEF PlainInv
    <2> QED BY <2>1, <2>5, <2>6
  <1>7. CASE stub_lib_flash_attach
    BY <1>7, AllFacts, Constants, Wide0Regs DEF stub_lib_flash_attach, PlainInv, Once, Wide0,
       StateTypeOK, CallType, SessionType
  <1>8. CASE FlashCommand
    BY <1>8, AllFacts, Constants, Wide0Regs DEF FlashCommand, PlainInv, Once, Wide0, StateTypeOK,
       CallType, SessionType
  <1>9. CASE stub_target_rom_spiflash_erase_area
    BY <1>9, EraseFacts, Wide0Regs DEF stub_target_rom_spiflash_erase_area, PlainInv, Once,
       Wide0, StateTypeOK, CallType, SessionType
  <1>10. CASE stub_lib_flash_deinit
    BY <1>10, DeinitFacts, Wide0Regs DEF PlainInv, Once, Wide0, StateTypeOK, CallType,
       SessionType
  <1>11. CASE octal_restore_chip_mode
    BY <1>11, AllFacts, Constants, Wide0Regs DEF octal_restore_chip_mode, Goto, PlainInv, Once,
       Wide0, StateTypeOK, CallType, SessionType
  <1>12. CASE octal_restore_spi0_state
    <2>1. /\ call.pc = "spi0" /\ call' = [call EXCEPT !.pc = "restore"] /\ cache' = TRUE
          /\ target' = target /\ app' = app /\ chip' = chip
          /\ s_addr32_state' = s_addr32_state /\ buffer' = buffer /\ session' = session
          /\ spi0' \in RegsType
          /\ \A r \in Regs : spi0'[r] = IF r \in Saved0 THEN buffer.spi0[r] ELSE spi0[r]
      BY <1>12, RestoreFacts
    <2>2. call'.pc = "restore" /\ call'.given = call.given
      BY <2>1 DEF StateTypeOK, CallType
    <2>3. Octal /\ call.given /\ buffer.octal_active /\ ~s_addr32_state.applied
      BY <2>1 DEF OctalInv, Addr32Inv, InitPcs
    <2>4. Octal' = Octal /\ Wide0' = Wide0 /\ Once' = Once
      BY <2>1, SameTarget DEF Once
    <2>5. target \in S3 /\ Saved0 = Regs \ {"SLAVE"}
      BY <2>3, OctalFacts
    <2>6. Once => session.inits = 1
      BY <2>3, OctalFacts DEF Once
    <2>7. session.inits = 1 => \A r \in Saved0 : buffer.spi0[r] = session.spi0[r]
      BY <2>1, <2>3 DEF SavedInv
    <2> HIDE DEF StateInv
    <2> QED BY <2>1, <2>5 DEF PlainInv
  <1>13. CASE stub_target_flash_state_restore
    BY <1>13, RestoreSpi1Facts, Wide0Regs DEF stub_target_flash_state_restore, Goto, PlainInv,
       Once, Wide0, StateTypeOK, CallType, SessionType
  <1> QED
    BY <1>1, <1>2, <1>3, <1>4, <1>5, <1>6, <1>7, <1>8, <1>9, <1>10, <1>11, <1>12, <1>13 DEF Next

\* In octal mode SPI0 goes into the buffer and comes back.
LEMMA OctalSessionStep ==
    ASSUME StateInv, StateTypeOK', Next
    PROVE  OctalSessionInv'
  <1> USE DEF StateInv
  <1>1. CASE AppStarts
    BY <1>1, AppStartsFacts, OctalFacts, RegsEqual DEF OctalSessionInv, Octal, StateTypeOK,
       CallType, SessionType
  <1>2. ASSUME NEW given \in BOOLEAN, NEW wide \in BOOLEAN,
               NEW policy \in {"ALWAYS", "IF_NEEDED"},
               stub_target_flash_init(given, policy, wide)
        PROVE  OctalSessionInv'
    <2>1. /\ call.pc \in {"app", "session"} /\ call' \in CallType
          /\ call'.pc \in {"attach", "spi_init"}
          /\ target' = target /\ app' = app /\ chip' = chip /\ spi0' = spi0
          /\ s_addr32_state' = s_addr32_state
          /\ cache' = cache /\ call'.pc = "attach" => session'.attached
          /\ IF call.pc = "app"
             THEN /\ session'.inits = 1 /\ session'.spi0 = spi0 /\ session'.chip = chip
             ELSE /\ session'.inits = session.inits + 1 /\ session'.spi0 = session.spi0
                  /\ session.attached => session'.attached
      BY <1>2, InitExFacts
    <2>2. call.pc = "app" => ~s_addr32_state.applied
      BY <2>1 DEF Addr32Inv, InitPcs
    <2>3. call.pc # "app" => session.inits \in Nat /\ session.inits > 0
      BY DEF SavedInv, StateTypeOK, SessionType
    <2>4. Octal' = Octal /\ Wide0' = Wide0
      BY <2>1, SameTarget
    <2>5. Once' /\ call.pc # "app" => Once
      BY <2>1, <2>3 DEF Once
    <2>6. session'.inits = 1 => call.pc = "app"
      BY <2>1, <2>3
    <2> HIDE DEF StateInv
    <2> QED BY <2>1, <2>6 DEF OctalSessionInv
  <1>3. CASE stub_target_flash_attach
    <2>1. call.pc = "attach" /\ session' = session
      BY <1>3 DEF stub_target_flash_attach
    <2>2. session.attached
      BY <2>1 DEF SavedInv
    <2> QED BY <2>1, <2>2 DEF OctalSessionInv
  <1>4. CASE stub_target_spi_init
    BY <1>4, SpiInitFacts, OctalFacts, RegsEqual DEF OctalSessionInv, Octal, StateTypeOK,
       CallType, SessionType
  <1>5. CASE esp_rom_opiflash_mode_reset
    BY <1>5, AllFacts, Constants, OctalFacts, RegsEqual DEF esp_rom_opiflash_mode_reset, Goto,
       OctalSessionInv, Octal, StateTypeOK, CallType, SessionType
  <1>6. CASE InitSizes
    BY <1>6, SizesFacts, OctalFacts, RegsEqual DEF OctalSessionInv, Octal, StateTypeOK, CallType,
       SessionType
  <1>7. CASE stub_lib_flash_attach
    BY <1>7, AllFacts, Constants, OctalFacts, RegsEqual DEF stub_lib_flash_attach,
       OctalSessionInv, Octal, StateTypeOK, CallType, SessionType
  <1>8. CASE FlashCommand
    BY <1>8, AllFacts, Constants, OctalFacts, RegsEqual DEF FlashCommand, OctalSessionInv, Octal,
       StateTypeOK, CallType, SessionType
  <1>9. CASE stub_target_rom_spiflash_erase_area
    BY <1>9, EraseFacts, OctalFacts, RegsEqual DEF stub_target_rom_spiflash_erase_area,
       OctalSessionInv, Octal, StateTypeOK, CallType, SessionType
  <1>10. CASE stub_lib_flash_deinit
    <2>1. /\ call.pc = "session" /\ target' = target /\ app' = app /\ chip' = chip
          /\ buffer' = buffer /\ session' = session
          /\ \A r \in Regs : spi0'[r] = IF s_addr32_state.applied /\ r \in Wide0
                                        THEN s_addr32_state.saved[r] ELSE spi0[r]
          /\ \/ /\ call.given /\ buffer.octal_active /\ target \in S3
                /\ call' = [call EXCEPT !.pc = "chip"]
             \/ /\ ~(call.given /\ buffer.octal_active /\ target \in S3)
                /\ call' = [call EXCEPT !.pc = "restore"]
      BY <1>10, DeinitFacts
    <2>2. call'.given = call.given /\ call'.pc \in {"chip", "restore"}
      BY <2>1 DEF StateTypeOK, CallType
    <2>3. call'.pc = "restore" => ~(call.given /\ buffer.octal_active /\ target \in S3)
      BY <2>1 DEF StateTypeOK, CallType
    <2>4. Octal' = Octal
      BY <2>1, SameTarget
    <2>5. OctalSessionInv /\ TogetherInv
      OBVIOUS
    <2> HIDE DEF StateInv
    <2>6. Octal => /\ target \in S3 /\ "CTRL" \in Regs /\ "SLAVE" \in Regs /\ "CTRL" \in Wide0
                   /\ "SLAVE" \notin Wide0
      BY OctalFacts
    <2>7. Octal => /\ spi0'["CTRL"] # app.no
                   /\ spi0'["SLAVE"] = spi0["SLAVE"]
      BY <2>1, <2>5, <2>6 DEF TogetherInv
    <2> QED BY <2>1, <2>2, <2>3, <2>4, <2>5, <2>6, <2>7 DEF OctalSessionInv
  <1>11. CASE octal_restore_chip_mode
    BY <1>11, AllFacts, Constants, OctalFacts, RegsEqual DEF octal_restore_chip_mode, Goto,
       OctalSessionInv, Octal, StateTypeOK, CallType, SessionType
  <1>12. CASE octal_restore_spi0_state
    <2>1. /\ call.pc = "spi0" /\ call' = [call EXCEPT !.pc = "restore"] /\ cache' = TRUE
          /\ target' = target /\ app' = app /\ chip' = chip
          /\ s_addr32_state' = s_addr32_state /\ buffer' = buffer /\ session' = session
          /\ spi0' \in RegsType
          /\ \A r \in Regs : spi0'[r] = IF r \in Saved0 THEN buffer.spi0[r] ELSE spi0[r]
      BY <1>12, RestoreFacts
    <2>2. call'.pc = "restore" /\ call'.given = call.given
      BY <2>1 DEF StateTypeOK, CallType
    <2>3. Octal /\ call.given /\ buffer.octal_active /\ ~s_addr32_state.applied
      BY <2>1 DEF OctalInv, Addr32Inv, InitPcs
    <2>4. Octal' = Octal /\ Wide0' = Wide0 /\ Once' = Once
      BY <2>1, SameTarget DEF Once
    <2>5. target \in S3 /\ Saved0 = Regs \ {"SLAVE"}
      BY <2>3, OctalFacts
    <2>6. Once => session.inits = 1
      BY <2>3, OctalFacts DEF Once
    <2>7. session.inits = 1 => \A r \in Saved0 : buffer.spi0[r] = session.spi0[r]
      BY <2>1, <2>3 DEF SavedInv
    <2>8. OctalSessionInv /\ session.spi0 \in RegsType
      BY DEF StateTypeOK, SessionType
    <2> HIDE DEF StateInv
    <2>9. session.inits = 1 /\ ~session.attached => spi0' = session.spi0
      <3> SUFFICES ASSUME session.inits = 1, ~session.attached PROVE spi0' = session.spi0
        OBVIOUS
      <3>1. spi0["SLAVE"] = session.spi0["SLAVE"]
        BY <2>1, <2>3, <2>8 DEF OctalSessionInv
      <3>2. \A r \in Regs : spi0'[r] = session.spi0[r]
        BY <2>1, <2>5, <2>7, <3>1
      <3> QED BY <2>1, <2>8, <3>2, RegsEqual
    <2> QED BY <2>1, <2>2, <2>3, <2>8, <2>9 DEF OctalSessionInv
  <1>13. CASE stub_target_flash_state_restore
    BY <1>13, RestoreSpi1Facts, OctalFacts, RegsEqual DEF stub_target_flash_state_restore, Goto,
       OctalSessionInv, Octal, StateTypeOK, CallType, SessionType
  <1> QED
    BY <1>1, <1>2, <1>3, <1>4, <1>5, <1>6, <1>7, <1>8, <1>9, <1>10, <1>11, <1>12, <1>13 DEF Next

\* The application gets its registers back.
LEMMA GivenBackStep ==
    ASSUME StateInv, StateTypeOK', Next
    PROVE  GivenBack'
  <1> USE DEF StateInv
  <1>1. CASE AppStarts
    BY <1>1, AppStartsFacts, SameTarget DEF GivenBack, Once, StateTypeOK, CallType, SessionType
  <1>2. ASSUME NEW given \in BOOLEAN, NEW wide \in BOOLEAN,
               NEW policy \in {"ALWAYS", "IF_NEEDED"},
               stub_target_flash_init(given, policy, wide)
        PROVE  GivenBack'
    BY <1>2, InitExFacts, SameTarget DEF GivenBack, Once, StateTypeOK, CallType, SessionType
  <1>3. CASE stub_target_flash_attach
    BY <1>3, AllFacts, Constants, SameTarget DEF stub_target_flash_attach, Goto, GivenBack, Once,
       StateTypeOK, CallType, SessionType
  <1>4. CASE stub_target_spi_init
    BY <1>4, SpiInitFacts, SameTarget DEF GivenBack, Once, StateTypeOK, CallType, SessionType
  <1>5. CASE esp_rom_opiflash_mode_reset
    BY <1>5, AllFacts, Constants, SameTarget DEF esp_rom_opiflash_mode_reset, Goto, GivenBack,
       Once, StateTypeOK, CallType, SessionType
  <1>6. CASE InitSizes
    BY <1>6, SizesFacts, SameTarget DEF GivenBack, Once, StateTypeOK, CallType, SessionType
  <1>7. CASE stub_lib_flash_attach
    BY <1>7, AllFacts, Constants, SameTarget DEF stub_lib_flash_attach, GivenBack, Once,
       StateTypeOK, CallType, SessionType
  <1>8. CASE FlashCommand
    BY <1>8, AllFacts, Constants, SameTarget DEF FlashCommand, GivenBack, Once, StateTypeOK,
       CallType, SessionType
  <1>9. CASE stub_target_rom_spiflash_erase_area
    BY <1>9, EraseFacts, SameTarget DEF stub_target_rom_spiflash_erase_area, GivenBack, Once,
       StateTypeOK, CallType, SessionType
  <1>10. CASE stub_lib_flash_deinit
    BY <1>10, DeinitFacts, SameTarget DEF GivenBack, Once, StateTypeOK, CallType, SessionType
  <1>11. CASE octal_restore_chip_mode
    BY <1>11, AllFacts, Constants, SameTarget DEF octal_restore_chip_mode, Goto, GivenBack, Once,
       StateTypeOK, CallType, SessionType
  <1>12. CASE octal_restore_spi0_state
    BY <1>12, RestoreFacts, SameTarget DEF GivenBack, Once, StateTypeOK, CallType, SessionType
  <1>13. CASE stub_target_flash_state_restore
    <2>1. /\ call.pc = "restore" /\ call' = [call EXCEPT !.pc = "app"]
          /\ target' = target /\ spi0' = spi0 /\ session' = session
      BY <1>13 DEF stub_target_flash_state_restore, Goto
    <2>2. call'.given = call.given
      BY <2>1 DEF StateTypeOK, CallType
    <2>3. Octal' = Octal /\ Saved1' = Saved1 /\ Once' = Once
      BY <2>1, SameTarget DEF Once
    <2>4. /\ call.given => \A r \in Saved1 : spi1'[r] = buffer.spi1[r]
          /\ ~s_addr32_state.applied
      BY <1>13, <2>1, RestoreSpi1Facts, Saved1Regs DEF Addr32Inv, InitPcs
    <2>5. Once /\ call.given => \A r \in Saved1 : buffer.spi1[r] = session.spi1[r]
      <3>1. target \notin Trimmed => Saved1 = {}
        BY DEF Saved1, Trimmed
      <3> QED BY <2>1, <3>1 DEF SavedInv, Once
    <2>6. \A r \in Regs : Once /\ spi0[r] = Wide => session.spi0[r] = Wide
      BY <2>1, <2>4 DEF WideInv
    <2>7. Once /\ ~session.attached /\ target \notin {"esp32s2", "esp32s3"}
            /\ (target = "esp32s3_octal" => call.given)
          => spi0 = session.spi0
      <3>1. spi0 \in RegsType /\ session.spi0 \in RegsType
        BY DEF StateTypeOK, SessionType
      <3>2. CASE Octal
        <4>1. Once => session.inits = 1
          BY <3>2, OctalFacts DEF Once
        <4> QED BY <2>1, <3>2, <4>1 DEF OctalSessionInv, Octal
      <3>3. CASE ~Octal
        <4>1. target \notin {"esp32s2", "esp32s3"} => target \notin S3 \cup {"esp32s2"}
          BY <3>3 DEF S3, Octal
        <4>2. Once /\ ~session.attached /\ target \notin {"esp32s2", "esp32s3"}
                 => \A r \in Regs : spi0[r] = session.spi0[r]
          BY <2>1, <2>4, <4>1 DEF PlainInv
        <4> QED BY <3>1, <4>2, RegsEqual
      <3> QED BY <3>2, <3>3
    <2> HIDE DEF StateInv
    <2> QED BY <2>1, <2>2, <2>3, <2>4, <2>5, <2>6, <2>7 DEF GivenBack
  <1> QED
    BY <1>1, <1>2, <1>3, <1>4, <1>5, <1>6, <1>7, <1>8, <1>9, <1>10, <1>11, <1>12, <1>13 DEF Next

\* Between init_ex and the end of deinit the other parts of the invariant say enough about
\* the modes.
LEMMA ModesInSession ==
    ASSUME StateTypeOK, OctalInv, TogetherInv, SavedInv, OctalSessionInv, call.pc # "app"
    PROVE  ModesAgree
  <1>1. CASE ~Octal
    BY <1>1 DEF OctalInv, ModesAgree, Lines
  <1>2. CASE Octal
    <2> SUFFICES ASSUME cache, call.pc # "reset", Once, ~session.attached,
                        session.chip # "SPI", Lines(session.spi0) = session.chip
                 PROVE  Lines(spi0) = chip
      BY <1>2 DEF ModesAgree, Octal
    <2>1. session.inits = 1
      BY <1>2, OctalFacts DEF Once
    <2>2. call.pc \in {"spi_init", "id", "session", "restore"}
      BY DEF StateTypeOK, CallType, InitPcs, DeinitPcs, OctalInv, SavedInv
    <2>3. session.spi0["CTRL"] = app.no /\ app.mode = session.chip
      BY DEF Lines
    <2>4. CASE call.pc = "spi_init"
      BY <1>2, <2>1, <2>4 DEF OctalSessionInv
    <2>5. CASE call.pc \in {"id", "session"}
      BY <1>2, <2>1, <2>5 DEF OctalSessionInv, TogetherInv, Lines
    <2>6. CASE call.pc = "restore" /\ ~call.given
      BY <1>2, <2>1, <2>6 DEF OctalSessionInv, Lines
    <2>7. CASE call.pc = "restore" /\ call.given
      <3>1. spi0 = session.spi0 /\ buffer.octal_active /\ chip = buffer.target_cr2
        BY <1>2, <2>1, <2>7 DEF OctalSessionInv
      <3>2. session.spi0["DDR"] = app.no
        BY <1>2, <2>3 DEF TogetherInv, Whole
      <3>3. chip = IF app.mode = "DTR" THEN "DTR" ELSE "STR"
        BY <1>2, <2>1, <2>7, <3>1, <3>2 DEF SavedInv
      <3>4. app.mode \in {"STR", "DTR"}
        BY <2>3 DEF StateTypeOK, AppType, Modes
      <3> QED BY <2>3, <3>1, <3>3, <3>4 DEF Lines
    <2> QED BY <2>2, <2>4, <2>5, <2>6, <2>7
  <1> QED BY <1>1, <1>2

\* The last step of deinit leaves the modes, and before the first init_ex of a session
\* there is nothing to say.
LEMMA ModesStep ==
    ASSUME StateInv, StateTypeOK', OctalInv', TogetherInv', SavedInv', OctalSessionInv', Next
    PROVE  ModesAgree'
  <1>1. CASE call'.pc # "app"
    <2>1. (call.pc # "app")'
      BY <1>1
    <2> QED BY <2>1, ModesInSession, PTL
  <1>2. CASE AppStarts
    <2>1. session'.inits = 0 /\ target' = target
      BY <1>2, AppStartsFacts DEF StateInv
    <2> QED BY <2>1 DEF ModesAgree, Once
  <1>3. CASE stub_target_flash_state_restore
    <2>1. /\ call.pc = "restore" /\ target' = target /\ app' = app /\ spi0' = spi0
          /\ chip' = chip /\ cache' = cache /\ session' = session
      BY <1>3 DEF stub_target_flash_state_restore
    <2>2. ModesAgree
      BY DEF StateInv
    <2> QED BY <2>1, <2>2 DEF ModesAgree, Once, Lines
  <1>4. CASE call'.pc = "app" /\ ~AppStarts /\ ~stub_target_flash_state_restore
    <2>1. call \in CallType
      BY DEF StateInv, StateTypeOK
    <2> QED BY <1>4, <2>1 DEF Next, CallType, stub_target_flash_init, stub_target_flash_attach,
             stub_target_spi_init, esp_rom_opiflash_mode_reset, InitSizes,
             stub_lib_flash_attach, FlashCommand, stub_target_rom_spiflash_erase_area,
             stub_lib_flash_deinit, octal_restore_chip_mode, octal_restore_spi0_state, Goto
  <1> QED BY <1>1, <1>2, <1>3, <1>4

(***************************************************************************)
(* Theorems                                                                *)
(***************************************************************************)
\* The application runs, and the client's buffer and the statics hold anything.
LEMMA InitState == Init => StateInv
  <1> SUFFICES ASSUME Init PROVE StateInv
    OBVIOUS
  <1>1. /\ target \in Targets /\ big \in BOOLEAN /\ app \in Configs(1)
        /\ spi0 = All(1) /\ spi1 = All(1) /\ chip = app.mode /\ cache = TRUE
        /\ large_flash_mode = FALSE
        /\ s_addr32_state = [applied |-> FALSE, saved |-> All(Garbage)]
        /\ buffer \in [spi1 : {All(Garbage)}, spi0 : {All(Garbage)}, target_cr2 : {"STR", "DTR"},
                       octal_active : BOOLEAN]
        /\ call = [pc |-> "app", given |-> FALSE, wide |-> FALSE]
        /\ session = [inits |-> 0, attached |-> FALSE, spi0 |-> spi0, spi1 |-> spi1,
                      chip |-> chip]
    BY DEF Init, NewSession
  <1>2. /\ All(1) \in RegsType /\ All(Garbage) \in RegsType
        /\ \A r \in Regs : All(1)[r] = 1
    BY AllFacts, Constants
  <1>3. app \in AppType /\ app.no = 1 /\ (~Octal => app.mode = "SPI")
    BY <1>1 DEF Configs, AppType, Modes, Octal
  <1>4. chip \in Modes
    BY <1>1, <1>3 DEF AppType
  <1>5. s_addr32_state \in Addr32Type /\ buffer \in BufferType
    BY <1>1, <1>2 DEF Addr32Type, BufferType
  <1>6. call \in CallType /\ session \in SessionType
    BY <1>1, <1>2, <1>4 DEF CallType, SessionType
  <1>7. StateTypeOK
    BY <1>1, <1>2, <1>3, <1>4, <1>5, <1>6 DEF StateTypeOK
  <1>8. OctalInv /\ Addr32Inv
    BY <1>1, <1>3 DEF OctalInv, Addr32Inv
  <1>9. TogetherInv
    BY <1>1, <1>2, <1>3, OctalFacts DEF TogetherInv, Whole
  <1>10. SavedInv /\ WideInv /\ PlainInv /\ OctalSessionInv
    BY <1>1 DEF SavedInv, WideInv, PlainInv, OctalSessionInv
  <1>11. GivenBack /\ ModesAgree
    BY <1>1 DEF GivenBack, ModesAgree, Once
  <1> QED BY <1>7, <1>8, <1>9, <1>10, <1>11 DEF StateInv

\* A step, or none, keeps the invariant.
LEMMA StateStep == StateInv /\ [Next]_vars => StateInv'
  <1>1. ASSUME StateInv, Next PROVE StateInv'
    <2>1. StateTypeOK'
      BY <1>1, TypeStep
    <2>2. OctalInv' /\ Addr32Inv' /\ TogetherInv'
      BY <1>1, <2>1, OctalStep, Addr32Step, TogetherStep
    <2>3. SavedInv' /\ WideInv' /\ PlainInv' /\ OctalSessionInv'
      BY <1>1, <2>1, SavedStep, WideStep, PlainStep, OctalSessionStep
    <2>4. GivenBack' /\ ModesAgree'
      BY <1>1, <2>1, <2>2, <2>3, GivenBackStep, ModesStep
    <2> QED BY <2>1, <2>2, <2>3, <2>4 DEF StateInv
  <1>2. ASSUME StateInv, UNCHANGED vars PROVE StateInv'
    <2> USE <1>2 DEF StateInv, vars
    <2>1. StateTypeOK' /\ OctalInv' /\ Addr32Inv' /\ TogetherInv'
      BY DEF StateTypeOK, OctalInv, Addr32Inv, TogetherInv, Octal, Whole
    <2>2. SavedInv' /\ OctalSessionInv'
      BY DEF SavedInv, OctalSessionInv, Octal, Saved1
    <2>3. WideInv' /\ PlainInv'
      BY DEF WideInv, PlainInv, Once, Wide0
    <2>4. GivenBack' /\ ModesAgree'
      BY DEF GivenBack, ModesAgree, Once, Lines, Saved1
    <2> QED BY <2>1, <2>2, <2>3, <2>4
  <1> QED BY <1>1, <1>2

\* What init_ex saves, what the 32-bit mode covers and where the octal state lies stay in
\* step through every sequence of sessions.
THEOREM StateInvariant == Spec => []StateInv
  BY InitState, StateStep, PTL DEF Spec

\* stub_lib_flash_deinit gives the registers back, on every target and after any number of
\* earlier sessions: those of SPI1 that stub_target_flash_state_save puts into the buffer,
\* all of SPI0 if nothing was attached, and nothing stays in 32-bit mode.
THEOREM DeinitGivesBack == Spec => []GivenBack
  <1>1. StateInv => GivenBack
    BY DEF StateInv
  <1> QED BY <1>1, StateInvariant, PTL

\* Whenever the cache runs, SPI0 and the flash chip are in the same mode, also while
\* octal_restore_chip_mode and octal_restore_spi0_state are at work.
THEOREM CacheAgreesWithChip == Spec => []ModesAgree
  <1>1. StateInv => ModesAgree
    BY DEF StateInv
  <1> QED BY <1>1, StateInvariant, PTL
=============================================================================
