# Verification of esp-stub-lib

esp-stub-lib is the C library from which the flasher stubs of esptool and
OpenOCD are built: code that is loaded into the RAM of an Espressif chip,
initialises flash, cache and a transport, and then serves read, erase and write
requests of a host.  It has no operating system under it.  Concurrency comes
from four places: the SPI flash chip, which erases and programs in the
background; DMA engines, which move transport frames; the host on the other
side of the transport; and interrupt handlers that run between any two
instructions of the main loop.

This directory holds TLA+ models of the parts of the library with state,
TLC configurations that check them on small instances and TLAPS proofs of what
matters most.  All paths below are relative to the repository.  `PROJECT.json`
maps every definition to the lines it stands for.

## Inventory

| Part | State | Operations | What is hard | What makes it correct |
|---|---|---|---|---|
| flash session and erase (`src/flash.c`, `src/target/common/src/flash.c`, `flash_4byte.c`) | `large_flash_mode`, the ROM's flash configuration, the client's erase cursor, the chip | init_ex, deinit, wait_ready, start_next_erase, erase_area, rom_erase_area, erase_chip | a chip that works in the background and ignores what it is sent meanwhile, timeouts and retries, two address widths, failure half way | what was erased is what the cursor has passed, inside the request, all of it after OK; no command is lost; deinit undoes init |
| flash write (`src/flash.c`, `flash_4byte.c`, `aes_xts.c`) | the call's position, the AES engine, the controller's encryption switch, the chip | write_buff | unaligned heads and tails, page ends, four ways out of an encrypted write | a prefix of the data at its place at any time, all of it after OK; encryption off afterwards |
| flash read (`src/flash.c`, `flash_4byte.c`) | the call's position | read_buff | chunk arithmetic, a chip that is still erasing | every byte from its address after OK |
| target flash controllers (`src/target/*/src/flash.c`) | the state buffer, `s_addr32_state`, the registers of SPI0 and SPI1, the chip's octal mode | init, attach, 32-bit cache mode, deinit | saved states on top of each other, reused and uninitialized buffers, a controller and a chip that must change mode together, attach policies | deinit gives the application its controllers back; cache and chip agree |
| read through the cache (`src/mmu.c`, `src/target/*/src/mmu.c`) | `s_mmap_state`, the MMU table, the cache | read_flash | stale lines, dirty lines of PSRAM, a cache that works while the table changes, page arithmetic | the current bytes are read; table, cache and PSRAM are as before |
| cache control (`src/cache.c`, `src/target/*/src/cache.c`) | the cache | stop, start, invalidate, writeback | which targets can do what | used by the part above |
| SDIO transport (`src/sdio.c`, `src/target/esp32c{5,6}/src/sdio.c`) | armed and ready flags, descriptors, credits | init, rearm, take_rx_frame, tx_frame, interrupt handler | handler against main loop, a host beyond its credits, descriptor errors, timeouts | frames are handed out whole, once, in order; the window opens again; a reply does not outlive its call |
| SPI slave transport (`src/slave_spi.c`, `src/target/*/src/slave_spi.c`) | toggle words, armed flag, DMA, event bits | init, rearm, take_rx_frame, tx_frame | one DMA for two directions, toggles as announcements, events that come late | as above, and an open window is visible to the host |
| USB OTG (`src/usb_otg.c`) | `s_cdcacm_txbuf`, the old RTS, the reset request | attach, receive and line state callbacks, tx_one_char, tx_flush, rx_async_enable, handle_reset | the ROM's callbacks against the main loop, RTS edges while interrupts are off | bytes in order and once; a reset exactly on a falling RTS |
| USB serial JTAG (`src/usb_serial_jtag.c`) | the controller's FIFOs and flags | attach, clear_intr_flags, rx, tx_one_char, tx_flush | a full packet commits itself and needs an empty one behind it, 50 ms timeouts, a packet that comes while the handler runs | as above; the host gets the end of every reply |
| UART (`src/uart.c`) | none | rx/tx of bytes, interrupt attach | nothing the library does itself | |
| NAND (`src/target/esp32s3/src/nand.c`) | `initialized`, the last status byte, the chip with one page cache per plane | attach, read and write of pages and of bad block marks, erase_block | status bits that outlive their operation, bus errors and timeouts in the middle of a call, the two caches | what is read is the page, what returned 0 is done, nothing else changes |
| AES-XTS engine (`src/target/*/src/aes_xts.c`) | engine state | trigger, wait, release | used from the encrypted write only | with flash write |
| clock and watchdogs (`src/clock.c`) | PLL, dividers, watchdogs | init | order of register writes | the processor is never without clock |
| security, digests, log, memory helpers, ROM wrappers, trace memory | little or none | single calls | nothing that interleaves | |

Parts interact in a few ways.  The client (the stub's main loop) calls one part
at a time.  Flash session, write and erase share `large_flash_mode` and the one
chip: an erase that was only started is still under way when the next call
begins.  Reading through the cache shares MMU and cache with the application
that was running before the stub.  Transports share flags, descriptors and
event bits with an interrupt handler (SDIO) or a DMA engine and the host (SPI).

## Modules

| Module | Models | Checked by |
|---|---|---|
| `Flash` | session and erase paths, the chip | `MCFlash`, `FlashProofs` |
| `FlashState` | the controllers between init and deinit, on every target, and the application | `MCFlashState`, `FlashStateProofs` |
| `FlashWrite` | `stub_lib_flash_write_buff`, `stub_lib_flash_read_buff` and what they call, the AES engine, the chip | `MCFlashWrite`, `FlashWriteProofs` |
| `MmuTargets`, `Mmu` | `stub_lib_mmu_read_flash`, the MMUs and caches of 13 targets, the application | `MCMmu`, `MmuProofs` |
| `FrameTransport` | what a frame transport promises its client: an abstract specification, no code | implemented by the next two |
| `SdioTransport` | the ESP32-C6 driver, its interrupt handler, the DMA, the ROM's chain handling, the host | `MCSdio`, `SdioProofs` |
| `SlaveSpiTargets`, `SlaveSpi` | the drivers of the S3, C2, C3, S2 and P4, the DMA engine, the P4's cache, the host | `MCSlaveSpi`, `SlaveSpiProofs` |
| `UsbSerial` | the USB serial JTAG and the USB OTG transport, their interrupt handlers, the client's loop, the host | `MCUsb`, `UsbProofs` |
| `Nand` | the SPI NAND driver and its chip | `MCNand`, `NandProofs` |

**Flash.**  Numbers are pages of 256 bytes, so that a `uint32_t` of 2^24 pages
keeps its width.  `job` holds one cursor per kind of erase call: `next_erase_addr`
and the remaining size as the client's pointers or the local variables hold
them, the sectors commanded so far and what a lost command was sent under.  A
call that polls (`erase_area`) is several actions, a call that cannot be
interrupted by anything that matters is one.  The chip takes a command only when
it is ready and understands the opcode (four-byte opcodes need a chip above
16 MB); `ChipDone` ends its work.

**FlashState.**  A register holds the number of the configuration the application
has given it, or says that the stub put something there; the few fields the code
looks at (32-bit addresses, the cache's command phase, the mode of the lines) are
derived from that.  `session` is history: what init_ex found.  The state buffer
starts with anything in it and is used again by later sessions.

**FlashWrite.**  Real sizes.  A write is cut into head, middle and tail
(`Part`), the middle by the loops of `flash_4byte.c` into chunks or AES blocks;
`mem` holds, for every byte programmed, its address, its place in the caller's
buffer and whether it was encrypted.  A page program command that crosses the
end of its page wraps around (`PageAddr`).  A read takes chunks of up to 16 bytes
from the same chip; what a busy chip answers is nothing of its content.

**Mmu.**  One cache line per virtual page; a line remembers which page it was
filled from, how often flash had been rewritten then, whether encrypted flash
was decrypted and whether it is dirty.  The application touches its pages
between calls, the cache replaces lines whenever it is not frozen, flash is
rewritten behind it.  `MmuTargets` has one definition per target and file with
what makes a difference; `target` is chosen in `Init`.

**SdioTransport and SlaveSpi.**  Every access to state another actor can see is
a step of its own: the armed flag and the DMA start are set in different
actions because a handler can run in between.  A frame is a number, a buffer
holds blocks of frames.  The client owns two buffers and opens the next window
before or after its reply, as the code allows.  `SlaveSpi` chooses its target in
`Init`: on the S2 the DMA is part of the SPI slave and one event tells of both,
on the P4 the processor sees the buffers through a cache that fills and evicts
lines whenever it likes, and the client dirties buffers it has not lent.  What
the host and the engines may do is a record `env`, chosen in `Init` from
`Environments`, so that one run covers polite and rude hosts.  SDIO has one static
descriptor for replies: a reply sent while the DMA still has an earlier one, after
a timeout, takes the place of everything the engine has not begun with (`TxSend`).
Calls that are refused for their arguments (no buffer or one too small, a reply
longer than a descriptor holds) return before they touch anything; they are
stuttering steps and have no action.  Of the P4's cache maintenance the model has
that of the receive buffers, where the order of flush, DMA and invalidation
matters; the write-back of replies and of descriptors in front of their DMA
(`src/target/esp32p4/src/slave_spi.c:135`, `232`) is left out, and buffers of replies are
taken to be in RAM.

**FrameTransport.**  Send, take, release, answer, give up.  Both drivers are shown
to implement it with the mapping `sent` to the host's frame counter, `taken` to
the client's, `held` to whether the client has a buffer, `waiting` to the host's
flag; a host is `patient` when its environment says that it waits for its reply.
It is the promise of `include/esp-stub-lib/sdio.h` and `slave_spi.h`: frames are
handed out one at a time, in order and none twice, and only the client that has
the frame answers it.

**UsbSerial.**  A byte is its place in all that was sent and whether it ends a
reply.  The host sees a transfer when a packet that is not full has ended it,
which makes the empty packet behind a full one matter.  The main loop, the two
handlers and the host interleave freely; `slow` hosts let the 50 ms waits run
out.  The console is chosen in `Init`.

**Nand.**  A call is the sequence of its commands and waits (`attach_steps`,
`write_page_steps`, ...), each of which can fail on the bus, before or after the
chip has seen it.  A piece of a page is the set of its bits that read 0, so that
programming is union.  A page read that cannot be corrected leaves anything in the
data area of the cache (`Garbled`), as the comment at
`src/target/esp32s3/src/nand.c:735` warns, and the page's own marker in the spare area,
which the error correction does not cover.  `trusted` is history: an attach has returned 0 and no call
has met a bus error since.

Outside the repository, and modelled from how it is used: the flash chip, the
DMA engines, the ROM's erase and write functions and its SDIO chain handling,
the NAND chip, the ROM's USB stack, the hosts, the client's main loop.

## Runs

| Run | Bounds | What it shows |
|---|---|---|
| `flash_small` | 4 MB chip, no four-byte addressing, 3 requests (sector+block+sector, size not whole sectors, misaligned) | every erase follows its cursor, stays inside its request, is complete after OK; no command is lost |
| `flash_large` | 32 MB chip, requests across and below the 16 MB line, fairness | the inductive invariant of the proof; deinit undoes large mode; stepped erases get to their end, `erase_area` returns |
| `session` | 8 kinds of target, 2 configurations of the application, 2 inits in a session | SPI1, and SPI0 where promised, are given back; cache controller and octal chip agree |
| `write` | every offset in a word and length up to 9 bytes around a page end, a long middle part; every AES block size; reads of 0, 16, 20, 22 and 36 bytes; failures anywhere | a prefix of the data in place, in the right form, all of it after OK; encryption off afterwards; reads complete after OK; chip never sent anything while busy; calls return |
| `mmu` | 13 targets, encrypted or not, 3 entries, 2 of them DROM, pages of 4 bytes, 2^32 scaled to 64, each flash page rewritten once | current bytes are read, in the clear; table, lines and dirty data are kept |
| `sdio` | 3 frames, buffer of 2 blocks; a rude host with descriptor errors, the same with replies that time out, a polite host with failing fetches; fairness | frames whole; the armed flag tells the truth; replies end with their call; implements `FrameTransport`; windows come back, frames are answered |
| `sdio_race` | a host that is quick enough | *violated*, see findings |
| `spi` | all targets, 4 frames; a host that waits for each call to end while receiving is slow, a prompt host (it writes before `tx_frame` has returned) with slow receiving and sending, and a prompt host with every fault; fairness | frames whole, right replies, open windows visible, replies end with their call; implements `FrameTransport`; frames are answered |
| `spi_timeout` | a reply that times out over an open window | *violated*, see findings |
| `usb` | both consoles, packets of 2 bytes for 64, requests of 3 bytes, replies of 1 to 4, 2 requests, 3 line states, slow and prompt hosts; fairness | bytes in order; every request answered to its end; a reset exactly on a falling RTS |
| `nand` | 2 blocks of 2 pages of 2 pieces, 4 calls, the first 3 of which may go on after a bus error without an attach | reads are right, OK means done, failures are the call's own, nothing else changes, but for the data area of an uncorrectable page that `write_bbm` marks |
| `nand_bbm` | the same | *violated*, see findings |

Why the bounds are enough.  Three frames are one more than there are SDIO
buffers and four let both SPI toggles go round once after the announcement with
the INIT bit; after that the drivers' flags repeat.  A buffer of two blocks lets
a frame fill it, leave room or overrun it.  The erase requests reach both
branches of the block test, the clamp, the alignment error and both sides of the
16 MB line; the write requests are all residues of the word, chunk and block
arithmetic next to a page end.  The MMU instance has entries that can and cannot
be borrowed, and requests of one and two pages and of too many.  With two
configurations every buffer and static of a session is met with old contents.
Replies of 1 to 4 bytes are short of a packet, fill one, spill into a second and
fill that; two requests show what the first has left behind.  Two blocks are one
per plane; four NAND calls are an attach, two calls that leave something behind
and one that meets it.  All of the safety properties of the passing runs
are proved for every value of the bounds, under the conditions the next section
names; the bounds matter to liveness
and to the mutants.

Deadlock is checked except in `usb`, where the stub restarts, and in `nand`, where
the number of calls is bounded.  Each passing property has a mutant: a plausible
mistake in the code, given as an operator next to the definition it replaces,
under which TLC finds the property violated.  The hazards in `PROJECT.json` that no
property covers are those where the code itself does what should not happen; each
has a note and an item under the known limits.

**Fairness.**  The chip ends what it has begun (`ChipDone`).  The running call
goes on: nothing preempts it but handlers that return.  A client that steps an
erase keeps polling, as the interface asks; it need not start one.  A DMA engine
with data finishes.  An interrupt that is let through is taken.  Hosts end the
transactions they have begun, fetch packets and poll for the replies they wait
for; they need not begin a frame or a request.  Weak fairness is enough
throughout.

## Proofs

Every invariant, action property and refinement of the passing runs is proved
for every value of the constants; what stays with TLC is at the end of this
section.  The `*Proofs` modules have one lemma per action or group of actions
that touches a part of the invariant, one that puts the actions together, and
the theorems at the end.  The inductive invariants were checked by TLC on the
instances of the runs before they were proved.

**`FlashProofs`** (all requests, chips and targets; assumptions: request ends plus a
sector stay below 2^32, the target's maximal size exceeds 16 MB exactly if it
has four-byte addressing, the chip answers with its own id or an unknown one).
`EraseInv` is the inductive invariant.  "What was commanded is what the cursor
has passed" is not inductive alone: the argument needs the cursor's arithmetic
(`CursorOK`: passed and remaining make up the size until the last, possibly
partial, sector; the cursor stays on sector boundaries), that a session on a
large chip sends four-byte commands (`SessionOK`, without which the address is
cut to 24 bits), and that what was commanded and not lost is erased or being
erased (`ProgressOK`).  `LargeModeOK` is a second invariant, about the flag and
the cache mode.  `StartNextErase` and `AdvanceOK` carry the arithmetic of one
step, `NextEraseInv` has one step per action.  From them follow `EraseFollowsCursor`,
`EraseInside`, `EraseOkIsComplete`, `DeinitUndoesLargeMode` and types.  Types say
nothing about overflow, because `NextAddr` reduces modulo 2^32 as the code does;
`CursorsNeverWrap` shows that under the assumption on the requests the sum it
reduces stays below 2^32 in every reachable state.
`NothingLost` shows `NoCommandLost` for clients that pair init with deinit; the
first item of the known limits is why the condition is needed.

**`FlashStateProofs`** (all targets, any number of sessions and inits): `GivenBack`
and `ModesAgree`.  `StateInv` says where the application's value of each register
is at each point of a session: in the register, in the state buffer (`SavedInv`),
or in `s_addr32_state` (`WideInv`, `PlainInv`).  On the octal ESP32-S3 it adds that
the registers of a configuration come and go together (`TogetherInv`: the code
looks at CTRL to find out the mode, and at DDR to find out which) and how chip
and controller follow one another through init and deinit (`OctalSessionInv`).
Where a second init of a session saves over the first is excluded by `Once`, a
condition of the properties.

**`FlashWriteProofs`** (all requests and reads): `WrittenIsPrefix`, `OkIsComplete`,
`NoCommandIgnored` and types.  `WriteInv` relates the position of the loop to the
number of bytes of the caller's buffer that are in flash (`WrittenOK`; `Covered`
takes the padding of the head and the tail off) or in the caller's hands
(`ReadOK`), keeps positions on AES blocks and inside the part (`LoopOK`), and says
when the chip is ready and enabled and the controller encrypts (`ChipOK`).  The
arithmetic is in lemmas about one chunk: a chunk stays inside its page, so that
no address wraps, and the bytes it adds are those that follow the prefix
(`PrefixGrows`).

**`MmuProofs`** (all page sizes, DROM regions and requests, also those whose page
count wraps; assumption in `Init`: the application has no PSRAM in the entries
that may be borrowed, as the comment at `src/mmu.c:112` has it).  `MmuInv` says
what the table and `s_mmap_state` are at each point of a call (`CallOK`,
`TableOK`), that a line belongs to the page mapped there unless its entry was
borrowed and is about to be invalidated (`LineOK`), and that dirty lines are
lines of the application's own PSRAM where it mapped it (`DirtyOK`).  The last
is what makes invalidation safe: the borrowed entries have no PSRAM, so what is
dropped there is not dirty, and what is written back elsewhere goes through an
unchanged entry (`DirtyAtHome`).  From it follow `TableRestored`,
`LinesMatchTable` and `NoDirtyLost`.  `ReadsRight` is proved for requests whose
size does not wrap (`NoWrap`, see the known limits): `ByteMapped` shows that byte
k of a request is read through the entry mapped to its page, and the invariant
that the line found there is current and in the clear.  Types hold if the
requests `mmu_mmap` accepts are inside the chip (`InFlash`); the code does not
check that.

**`SdioProofs`** (any number of descriptors and frames, any environments that are
`Tame`: where the ROM's fetch can fail the host is polite, the reason being in
the known limits): `FrameIntact`, `ReplyReleased`, types, the refinement of
`FrameTransport`, and `ArmedMeansListening` for hosts that write nothing between
the DMA start and the end of `rearm` (`env.slow`; `sdio_race` shows that it fails
for others).  `SdioInv` follows a frame: `WindowInv` says that an open window
begins with the frame the host is writing or with a whole frame that is new to
the client, `AnnouncedInv` that what the handler announces is one whole frame,
`FlagInv` what each event in the registers, and in the copy of them the handler
works on, still implies, `GivenUpInv` that a window the ROM lost its frame in is
quiet.  Without the last, the next `rearm` could open a window in the middle of a
frame.

**`SlaveSpiProofs`** (all targets, any number of frames, any environments):
`FrameWhole`, `ReplyMatches`, `WindowVisible`, `ReplyReleased` and the refinement.
The invariant comes in layers.  `SpiInv` holds always: which direction has the
DMA, and which frames are in buffers and cache lines (`DmaInv`, `FrameInv`).
`InTimeInv` holds while replies are fetched in time, and is about the reply toggle
and about which event means that a frame has arrived (`ReplyInv`, `ArrivedInv`), and
that nothing is dirty over a claimed frame (`ClaimedInv`).  `ReleasedInv` and
`VisibleInv` add what needs an engine in time and a host that is not prompt.  The
conditions are those of the properties themselves; `spi_timeout` shows that they
are needed.  The refinements are step simulations: each step is one of
`FrameTransport` or leaves the mapped state alone.

**`NandProofs`** (every geometry, contents, number of calls and place of failure):
`ReadRight`, `OkIsDone`, `FailureIsOwn` and the action property `Confined`.  `NandInv`
says that the steps a call has left are the tail of its script (`StepsInv`), and for
each call what chip, caches and status are at each of its places (`ReadPageInv`,
`WritePageInv`, ...), as long as no bus error has come since an attach that returned
0.  The heart of it is that the chip works in the background only for the call
that is running, so that what it changes, and the bits it sets, are that call's.
What a cache holds of a page is exact, or, after a read that could not be
corrected, exact in the spare area; `Preserved` names the columns about which
`OkIsDone` and `Confined` speak in that case, and it is all of them except in
`write_bbm`.

**`UsbProofs`** (all packet and reply sizes, any number of packets): `TxInOrder`, and
that the stub resets only after a falling RTS, the safety half of `ResetOnFall`.
`OneBuffer` says that each transport uses its own buffer and that attaching
drops nothing; `LineInv` that the RTS the driver remembers is the one the device
last had, also over masked interrupts.  `TxInOrder` is about `FlattenSeq`, a
recursive function, and what that does to a packet more and to one less at the
front is shown for every length by least counterexample: the lengths at which a
claim fails are a set of naturals, whose least member (`LeastNatural`, from the
library's `WFMin`) contradicts the one before it.  No induction theorem with an
operator as a parameter is needed for that.

Only model-checked: liveness, because the prover handles neither fairness nor
ENABLED.  These are `AsyncEraseCompletes`, `EraseAreaReturns`, `WindowReopens`,
`FrameAnswered` of both frame transports, `RequestAnswered`, the first half of
`ResetOnFall` and `CallReturns`.  The three violations are TLC's as well.

## Findings

- `sdio_race`: `rearm` starts the DMA and hands out credits before it sets
  `s_rx_armed`, with interrupts on.  A frame that completes in between leaves
  the flag set over a closed window for good.
- `spi_timeout`: a timeout of `tx_frame` over an open window makes the next
  `rearm` flip the toggle back to what the host saw last.
- `nand_bbm`: `read_bbm` reads the marker without the plane bit, so that for a page
  of an odd block it comes from the cache of the even blocks
  (`src/target/esp32s3/src/nand.c:535`).

Known limits without a run:

- `init_ex` only ever sets `large_flash_mode` (`src/flash.c:101`).  After an init
  with a misread id, a second and successful init of a small chip without a
  deinit in between keeps the flag, and the chip is sent four-byte opcodes.
- `stub_lib_flash_rom_erase_area` refuses chips above 16 MB only on targets
  with four-byte addressing, while `include/esp-stub-lib/flash.h:154` promises
  it for all.
- ESP32-S3: `octal_save_spi0_state` takes it for granted that the chip is in an
  octal mode.  If it is not, because an earlier session without a buffer, an
  attach or an init in the same session (as in `handle_test_flash` of
  `example/stub_main.c`) has taken it out, deinit switches the chip to octal mode
  under a controller that is not (`src/target/esp32s3/src/flash.c:256`);
  `ModesAgree` asks for an octal chip.  `rom_spiflash_legacy_funcs` keeps pointing
  into the stub.  Outside octal mode SPI0 of the S2 and S3 is left in slow read
  mode; `GivenBack` excludes it.
- SDIO: after a timeout of `tx_frame` (`src/target/esp32c6/src/sdio.c:247`) the DMA
  still owns the caller's buffer, against the comment at lines 21 to 23;
  `ReplyReleased` is about environments without that timeout.  A fetch that finds
  nothing gives the window up without a reset (line 175); with a host that is in
  the middle of a frame the next window starts inside it, so that the environment
  with failing fetches has a polite host.
- A host that writes its next SPI frame right after it has read the reply,
  before `tx_frame` has armed the receive DMA again
  (`src/target/esp32s3/src/slave_spi.c:235`), loses that frame; `FrameAnswered`
  and `WindowVisible` are about environments without such a host (`~env.prompt`)
  and without replies that time out (`TxInTime`).
- The same drivers give up on a reply after a timeout (line 216) while the engine
  still owns the descriptor and the caller's buffer, and an OUT_DONE that comes
  late is taken by the next call for its own; `ReplyReleased` is about environments
  with `TxInTime`.
- `src/mmu.c:94` wraps for sizes within a page of 2^32 and accepts the call.  If the
  application maps PSRAM in the last DROM entries, against the comment at line
  112, its dirty lines are dropped.
- `src/target/common/src/flash_4byte.c:181`: the AES engine is not cleared after
  a timeout; what it does with a second trigger is not in the repository.
- `src/usb_otg.c:116`: what `esp_rom_cdc_acm_fifo_fill` returns is not looked at; the
  model takes it at the word of the caller.  With a slow host a flush of the USB
  serial JTAG can leave a transfer without its end; `RequestAnswered` is about
  prompt hosts.
- The NAND driver does not wait for a chip that an earlier call has left busy after
  a bus error, and sets `initialized` before attach has checked protection and
  buffer mode (line 441); the properties of `Nand` begin with an attach that returned 0.
- `stub_target_nand_write_bbm` reads the page, does not look at the ECC status
  (`src/target/esp32s3/src/nand.c:566`; `read_page` does, because "the cache may hold
  corrupted data", line 736) and programs the whole cache back.  If the page could
  not be corrected its data area can be damaged further, and the call returns 0.
  `OkIsDone` and `Confined` then speak of the marker and of the other pages only.

## Not modelled

UART, security information, digests, logging, the ROM wrappers and trace memory
keep no state that two actors share: single register accesses and calls of the
ROM.  The clock is one sequence of register writes at start-up.  miniz is
third-party code, register headers and linker scripts are generated, `example/`
is a client.  Of the quarter of a million lines of the repository about nine in
ten are those headers and scripts and miniz.

## Plan

Done: the models of all parts with state that two actors share, the two frame
transports with their common specification, and the proofs of every safety
property and of both refinements.  Left:

1. `NoCommandLost`, `ArmedMeansListening` and `ReadsRight` are proved under
   conditions that the known limits explain; a change of the code there should
   make the conditions go.
2. The clock, should its start-up sequence get branches worth a model.
