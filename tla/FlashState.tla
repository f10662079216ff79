----------------------------- MODULE FlashState -----------------------------
(***************************************************************************)
(* What a flash session does to the two flash controllers of an            *)
(* application that was running before the stub: stub_target_flash_init,   *)
(* stub_target_flash_deinit and the 32-bit cache mode of every target, and *)
(* stub_lib_flash_init_ex and stub_lib_flash_deinit around them.  SPI0     *)
(* serves the cache, SPI1 the stub's own commands.  In octal mode the      *)
(* flash chip itself is taken out of its octal mode and put back into it.  *)
(*                                                                         *)
(* A register holds the value of the application's n-th configuration, or  *)
(* what the stub or the ROM has put there; a field the code reads back is  *)
(* derived from that.                                                      *)
(***************************************************************************)
EXTENDS Integers

CONSTANTS
    MaxConfig,     \* bound: configurations of the application, one per session
    MaxInits       \* bound: calls of init_ex in a session

ASSUME FlashStateAssumption == MaxConfig \in Nat \ {0} /\ MaxInits \in Nat \ {0}

VARIABLES
    target,        \* the target, with "esp32s3_octal" for ets_efuse_flash_octal_mode
    big,           \* is the chip larger than 16 MB?
    app,           \* [no, live, wide, mode]: the application's configuration: its number,
                   \* does it use the cache, with 32-bit addresses, the chip's mode
    spi0, spi1,    \* the controllers' registers, dummy_len_plus of the ROM among them
    chip,          \* the mode the flash chip is in
    cache,         \* does the cache run?
    large_flash_mode,
    s_addr32_state,\* [applied, saved]
    buffer,        \* [spi1, spi0, target_cr2, octal_active]: the client's state buffer
    call,          \* [pc, given, wide]: the call and its arguments (is state not NULL?)
    session        \* history: [inits, attached, spi0, spi1, chip]: calls of init_ex, was one
                   \* an attach, and what they found

vars == <<target, big, app, spi0, spi1, chip, cache, large_flash_mode, s_addr32_state, buffer, call,
          session>>

\* Register values that are not the application's
Stub == 0
Wide == -1
Garbage == -2

Regs == {"USER", "USER1", "USER2", "SLAVE", "CTRL", "CTRL2", "CLOCK", "DDR", "TIMING_CALI",
         "CACHE_FCTRL", "MISC", "MISO_DLEN", "MOSI_DLEN", "dummy_len_plus"}
All(v) == [r \in Regs |-> v]
Set(regs, names, v) == [r \in Regs |-> IF r \in names THEN v ELSE regs[r]]
Copy(regs, names, from) == [r \in Regs |-> IF r \in names THEN from[r] ELSE regs[r]]

(***************************************************************************)
(* Targets                                                                 *)
(***************************************************************************)
S3 == {"esp32s3", "esp32s3_octal"}
P4 == {"esp32p4"}
Trimmed == {"esp32", "esp32s2"} \cup S3
\* esp32c5 stands for esp32c61, esp32h4 and esp32s31, esp32c6 for esp32h2, and esp32c3 for
\* the targets that leave stub_target_flash_init to the weak default.
Targets == Trimmed \cup P4 \cup {"esp32c5", "esp32c6", "esp32c3"}

\* The registers of SPI1 that stub_target_flash_state_save puts into the buffer
esp32_state == {"USER", "USER1", "USER2", "SLAVE", "CLOCK", "CTRL", "dummy_len_plus"}
esp32s2_state == {"USER", "CLOCK", "CTRL"}
esp32s3_state == {"USER", "CTRL", "CTRL2", "CLOCK", "DDR", "TIMING_CALI", "dummy_len_plus"}
Saved1 ==
    CASE target = "esp32"   -> esp32_state
      [] target = "esp32s2" -> esp32s2_state
      [] target \in S3      -> esp32s3_state
      [] OTHER              -> {}

\* The registers of SPI0 that octal_save_spi0_state puts there
Saved0 == {"USER", "USER1", "USER2", "CTRL", "CTRL2", "CACHE_FCTRL", "DDR", "TIMING_CALI",
           "CLOCK", "MISC", "MISO_DLEN", "MOSI_DLEN", "dummy_len_plus"}

\* The registers of each controller that stub_target_spi_init changes, by itself or in
\* spi_common_set_flash_cs_timing and spi_cache_mode_switch of the ROM
esp32_spi_init == [spi0 |-> {}, spi1 |-> {"CTRL", "CLOCK", "USER1", "dummy_len_plus"}]
esp32s2_spi_init ==
    [spi0 |-> {"MISC", "CTRL2", "CLOCK", "CTRL", "MISO_DLEN", "MOSI_DLEN", "USER", "USER1",
               "USER2", "CACHE_FCTRL", "DDR"},
     spi1 |-> {"CLOCK", "CTRL", "CTRL2", "DDR"}]
esp32s3_spi_init ==
    [spi0 |-> esp32s2_spi_init.spi0,
     spi1 |-> {"CLOCK", "CTRL", "CTRL2", "USER", "USER1", "USER2", "DDR", "TIMING_CALI",
               "dummy_len_plus"}]
SpiInit ==
    CASE target = "esp32"   -> esp32_spi_init
      [] target = "esp32s2" -> esp32s2_spi_init
      [] target \in S3      -> esp32s3_spi_init

\* The registers of SPI0 that enable_4byte_cache_mode saves; it changes no others.
esp32s3_addr32 == {"USER", "USER1", "USER2", "CACHE_FCTRL", "CTRL", "TIMING_CALI", "dummy_len_plus"}
esp32p4_addr32 == esp32s3_addr32 \cup {"DDR"}
Wide0 == IF target \in P4 THEN esp32p4_addr32 ELSE esp32s3_addr32

\* Fields of SPI0: 32-bit addresses, the command phase of the cache, the mode of the lines
IsWide ==
    \E r \in {"USER1"} \cup (IF target \in P4 THEN {"CACHE_FCTRL"} ELSE {}) :
        spi0[r] = Wide \/ (spi0[r] = app.no /\ app.wide)
UsrCmd == spi0["CACHE_FCTRL"] # app.no \/ app.live
Lines(regs) == IF regs["CTRL"] = app.no THEN app.mode ELSE "SPI"

stub_target_flash_needs_attach ==
    CASE target \in Trimmed   -> ~UsrCmd
      [] target = "esp32c3"   -> TRUE
      [] OTHER                -> ~app.live

(***************************************************************************)
(* The application                                                         *)
(***************************************************************************)
\* One that uses the cache of an octal chip has switched it to one of its octal modes.
Configs(n) ==
    {c \in [no : {n}, live : BOOLEAN, wide : BOOLEAN, mode : {"SPI", "STR", "DTR"}] :
        /\ c.wide => c.live /\ big
        /\ c.mode # "SPI" <=> c.live /\ target = "esp32s3_octal"}

NewSession == [inits |-> 0, attached |-> FALSE, spi0 |-> spi0, spi1 |-> spi1, chip |-> chip]

\* The client's buffer is uninitialized.
Init ==
    /\ target \in Targets /\ big \in BOOLEAN
    /\ app \in Configs(1)
    /\ spi0 = All(1) /\ spi1 = All(1) /\ chip = app.mode /\ cache = TRUE
    /\ large_flash_mode = FALSE
    /\ s_addr32_state = [applied |-> FALSE, saved |-> All(Garbage)]
    /\ buffer \in [spi1 : {All(Garbage)}, spi0 : {All(Garbage)}, target_cr2 : {"STR", "DTR"},
                   octal_active : BOOLEAN]
    /\ call = [pc |-> "app", given |-> FALSE, wide |-> FALSE]
    /\ session = NewSession

\* It starts again, with another configuration.
AppStarts ==
    /\ call.pc = "app" /\ app.no < MaxConfig
    /\ app' \in Configs(app.no + 1)
    /\ spi0' = All(app.no + 1) /\ spi1' = All(app.no + 1) /\ chip' = app'.mode
    /\ session' = [NewSession EXCEPT !.spi0 = spi0', !.spi1 = spi1', !.chip = chip']
    /\ UNCHANGED <<target, big, cache, large_flash_mode, s_addr32_state, buffer, call>>

(***************************************************************************)
(* stub_lib_flash_init_ex                                                  *)
(***************************************************************************)
\* Mutant: a buffer that was used before keeps its octal_active.
state_save_Stale(given) ==
    buffer' = IF given THEN [buffer EXCEPT !.spi1 = Copy(@, Saved1, spi1)] ELSE buffer

\* stub_target_flash_state_save and the lines after it
stub_target_flash_state_save(given) ==
    buffer' = IF ~given THEN buffer
              ELSE [buffer EXCEPT !.spi1 = Copy(@, Saved1, spi1),
                                  !.octal_active = @ /\ target \notin S3]

stub_target_flash_init(given, policy, wide) ==
    /\ \/ call.pc = "app"
       \/ call.pc = "session" /\ session.inits < MaxInits
    /\ stub_target_flash_state_save(given)
    /\ LET attach == policy = "ALWAYS" \/ stub_target_flash_needs_attach
           found == IF call.pc = "app" THEN NewSession ELSE session
       IN  /\ call' = [pc |-> IF attach THEN "attach" ELSE "spi_init",
                       given |-> given, wide |-> wide]
           /\ session' = [found EXCEPT !.inits = @ + 1, !.attached = @ \/ attach]
    /\ UNCHANGED <<target, big, app, spi0, spi1, chip, cache, large_flash_mode, s_addr32_state>>

Goto(pc) == call' = [call EXCEPT !.pc = pc]

\* The ROM sets up both controllers anew.
stub_target_flash_attach ==
    /\ call.pc = "attach"
    /\ spi0' = All(Stub) /\ spi1' = All(Stub)
    /\ Goto("id")
    /\ UNCHANGED <<target, big, app, chip, cache, large_flash_mode, s_addr32_state, buffer,
                   session>>

octal_save_spi0_state ==
    IF target = "esp32s3_octal" /\ call.given
    THEN [buffer EXCEPT !.spi0 = Copy(@, Saved0, spi0),
                        !.target_cr2 = IF spi0["DDR"] = app.no /\ app.mode = "DTR"
                                       THEN "DTR" ELSE "STR",
                        !.octal_active = TRUE]
    ELSE buffer

\* The cache runs on, but nothing is fetched from flash until the chip has followed.
stub_target_spi_init ==
    /\ call.pc = "spi_init"
    /\ IF target \in Trimmed
       THEN /\ buffer' = octal_save_spi0_state
            /\ spi0' = Set(spi0, SpiInit.spi0, Stub) /\ spi1' = Set(spi1, SpiInit.spi1, Stub)
       ELSE UNCHANGED <<buffer, spi0, spi1>>
    /\ Goto("reset")
    /\ UNCHANGED <<target, big, app, chip, cache, large_flash_mode, s_addr32_state, session>>

esp_rom_opiflash_mode_reset ==
    /\ call.pc = "reset"
    /\ IF target = "esp32s3_octal"
       THEN chip' = "SPI" /\ spi1' = All(Stub)
       ELSE UNCHANGED <<chip, spi1>>
    /\ Goto("id")
    /\ UNCHANGED <<target, big, app, spi0, cache, large_flash_mode, s_addr32_state, buffer,
                   session>>

\* Mutant: it is not looked at whether the mode is on already.
enable_4byte_cache_mode_Again ==
    /\ s_addr32_state' = [applied |-> TRUE, saved |-> Copy(All(Garbage), Wide0, spi0)]
    /\ spi0' = Set(spi0, Wide0, Wide)

enable_4byte_cache_mode ==
    IF IsWide THEN UNCHANGED <<s_addr32_state, spi0>>
    ELSE /\ s_addr32_state' = [applied |-> TRUE, saved |-> Copy(All(Garbage), Wide0, spi0)]
         /\ spi0' = Set(spi0, Wide0, Wide)

\* The command phase of SPI1 is switched on, the chip's id read, and the sizes follow.
\* The id of a small chip may be misread.
InitSizes ==
    /\ call.pc = "id"
    /\ spi1' = IF target \in {"esp32c6", "esp32c3"} THEN spi1 ELSE Set(spi1, {"USER"}, Stub)
    /\ \E flash_large \in {big, TRUE} :
          LET large == flash_large /\ target \notin {"esp32", "esp32s2", "esp32c6", "esp32c3"}
          IN  /\ large_flash_mode' = (large_flash_mode \/ large)
              /\ IF large /\ call.wide /\ target \in S3 \cup P4
                 THEN enable_4byte_cache_mode
                 ELSE UNCHANGED <<s_addr32_state, spi0>>
    /\ Goto("session")
    /\ UNCHANGED <<target, big, app, chip, cache, buffer, session>>

(***************************************************************************)
(* The session, and stub_lib_flash_deinit                                  *)
(***************************************************************************)
\* A client may attach by itself.
stub_lib_flash_attach ==
    /\ call.pc = "session"
    /\ spi0' = All(Stub) /\ spi1' = All(Stub)
    /\ session' = [session EXCEPT !.attached = TRUE]
    /\ UNCHANGED <<target, big, app, chip, cache, large_flash_mode, s_addr32_state, buffer, call>>

\* Commands set up in SPI1 what they need.
FlashCommand ==
    /\ call.pc = "session"
    /\ spi1' = All(Stub)
    /\ UNCHANGED <<target, big, app, spi0, chip, cache, large_flash_mode, s_addr32_state, buffer,
                   call, session>>

\* On the esp32 the ROM's erase puts SPI0 into slow read mode.
RomEraseChanges == {"CTRL", "USER", "USER1", "USER2"}

\* ... which the wrapper undoes.
stub_target_rom_spiflash_erase_area ==
    /\ call.pc = "session" /\ target = "esp32"
    /\ LET kept == {"CTRL", "USER", "USER1", "USER2"}
       IN  spi0' = Copy(Set(spi0, RomEraseChanges, Stub), kept, spi0)
    /\ spi1' = Copy(All(Stub), {"CTRL"}, spi1)
    /\ UNCHANGED <<target, big, app, chip, cache, large_flash_mode, s_addr32_state, buffer, call,
                   session>>

disable_4byte_cache_mode ==
    IF ~s_addr32_state.applied THEN UNCHANGED <<s_addr32_state, spi0>>
    ELSE /\ spi0' = Copy(spi0, Wide0, s_addr32_state.saved)
         /\ s_addr32_state' = [s_addr32_state EXCEPT !.applied = FALSE]

\* 4byte cache mode goes first, with the cache stopped around it.  The buffer is the one
\* init_ex was given.
stub_lib_flash_deinit ==
    /\ call.pc = "session"
    /\ IF large_flash_mode THEN disable_4byte_cache_mode ELSE UNCHANGED <<s_addr32_state, spi0>>
    /\ large_flash_mode' = FALSE
    /\ IF call.given /\ buffer.octal_active /\ target \in S3
       THEN Goto("chip") /\ cache' = FALSE
       ELSE Goto("restore") /\ UNCHANGED cache
    /\ UNCHANGED <<target, big, app, spi1, chip, buffer, session>>

\* The commands that do so go through SPI1.
octal_restore_chip_mode ==
    /\ call.pc = "chip"
    /\ chip' = buffer.target_cr2
    /\ spi1' = All(Stub)
    /\ Goto("spi0")
    /\ UNCHANGED <<target, big, app, spi0, cache, large_flash_mode, s_addr32_state, buffer,
                   session>>

octal_restore_spi0_state ==
    /\ call.pc = "spi0"
    /\ spi0' = Copy(spi0, Saved0, buffer.spi0)
    /\ cache' = TRUE
    /\ Goto("restore")
    /\ UNCHANGED <<target, big, app, spi1, chip, large_flash_mode, s_addr32_state, buffer, session>>

stub_target_flash_state_restore ==
    /\ call.pc = "restore"
    /\ spi1' = IF call.given THEN Copy(spi1, Saved1, buffer.spi1) ELSE spi1
    /\ Goto("app")
    /\ UNCHANGED <<target, big, app, spi0, chip, cache, large_flash_mode, s_addr32_state, buffer,
                   session>>

(***************************************************************************)
(* Specification                                                           *)
(***************************************************************************)
Next ==
    \/ AppStarts
    \/ \E given, wide \in BOOLEAN, policy \in {"ALWAYS", "IF_NEEDED"} :
           stub_target_flash_init(given, policy, wide)
    \/ stub_target_flash_attach \/ stub_target_spi_init \/ esp_rom_opiflash_mode_reset
    \/ InitSizes \/ stub_lib_flash_attach \/ FlashCommand \/ stub_target_rom_spiflash_erase_area
    \/ stub_lib_flash_deinit \/ octal_restore_chip_mode \/ octal_restore_spi0_state
    \/ stub_target_flash_state_restore

Spec == Init /\ [][Next]_vars

(***************************************************************************)
(* Properties                                                              *)
(***************************************************************************)
\* A second init without a deinit saves what the first has set; on targets with nothing to
\* save it does no harm.
Once == session.inits = 1 \/ (target \notin Trimmed /\ session.inits > 0)

\* When stub_lib_flash_deinit returns, the application has the registers of SPI1 that the
\* buffer is for as they were before init_ex, whatever commands were sent.  It has all of
\* SPI0 as it was if no attach was needed, except on an esp32s2 or esp32s3 outside octal
\* mode, and nothing is left of the 32-bit cache mode anywhere.
GivenBack ==
    call.pc = "app" /\ Once =>
        /\ call.given => \A r \in Saved1 : spi1[r] = session.spi1[r]
        /\ /\ ~session.attached /\ target \notin {"esp32s2", "esp32s3"}
           /\ target = "esp32s3_octal" => call.given
           => spi0 = session.spi0
        /\ \A r \in Regs : spi0[r] = Wide => session.spi0[r] = Wide

\* Whenever the cache runs, once init has taken the chip out of its octal mode, SPI0 talks
\* to the chip in the mode the chip is in: also between the steps of deinit, and when the
\* application runs again.  (In octal mode init_ex must have found
\* the chip in one of its octal modes, which the code takes for granted.)
ModesAgree ==
    /\ cache /\ call.pc # "reset"
    /\ Once /\ ~session.attached
    /\ target = "esp32s3_octal" => session.chip # "SPI" /\ Lines(session.spi0) = session.chip
    => Lines(spi0) = chip
=============================================================================
