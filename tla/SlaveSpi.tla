------------------------------ MODULE SlaveSpi ------------------------------
(***************************************************************************)
(* The SPI download transport of esp-stub-lib, from esp32s3/src/slave_spi.c*)
(* and what SlaveSpiTargets tells of the others.  One SPI slave serves     *)
(* both directions but only one at a time: turning the transmit DMA on     *)
(* turns the receive DMA off.  Stub and host tell each other about windows *)
(* and replies through toggle bits in the RXSTA and TXSTA words, and       *)
(* nothing interrupts the stub: it polls.                                  *)
(*                                                                         *)
(* A frame is a number; a buffer holds the number of the frame last written*)
(* to it and whether the DMA engine has finished writing it.  The main loop*)
(* is the client's: poll for a frame, open the other buffer before or after*)
(* the reply, reply.                                                       *)
(***************************************************************************)
EXTENDS Integers, SlaveSpiTargets

CONSTANTS
    MaxFrames,      \* bound: frames a host writes
    Environments    \* the hosts and the hardware the driver may meet

\* The DMA engine takes longer than SPI_SLV_DMA_DONE_TIMEOUT_US to fill the buffer;
\* the host takes longer than SPI_SLV_TX_TIMEOUT_US to fetch a reply, or stops waiting
\* for one; the engine takes too long to fetch the reply from RAM.
AllFaults == {"rx_slow", "tx_timeout", "out_slow"}

\* prompt: the host may write its next frame before tx_frame has returned; faults: which
\* bounded waits may run out; frames: how many frames the host writes
EnvironmentType == [prompt : BOOLEAN, faults : SUBSET AllFaults, frames : 0 .. MaxFrames]

ASSUME SlaveSpiAssumption ==
    MaxFrames \in Nat /\ Environments \subseteq EnvironmentType

VARIABLES
    env,                 \* the environment, one of Environments
    target,              \* the chip this runs on
    s_seq_rx, s_seq_tx,  \* the driver's status words, TOGGLE = 1 and INIT = 2
    s_rx_armed, s_rx_buf,
    RXSTA, TXSTA,        \* the words as the host sees them, without their lengths
    cmd,                 \* the CMD word; "ECHO" is READY written back by the stub
    dma,                 \* [ena, in, drain, out, ram]: SPI_DMA_CONF; the buffer received
                         \* into, is a frame on its way there; the reply, is it still in RAM
    raw,                 \* the RAW event bits
    content,             \* [frame, whole] of each buffer, in RAM
    line,                \* what the cache holds for each buffer, and is it dirty?
    main,                \* [pc, back]
    client,              \* [cur, held, frame]: next buffer, claimed buffer, claimed frame
    host                 \* [rx, tx, frame, writing, waiting, reading]

vars == <<env, target, s_seq_rx, s_seq_tx, s_rx_armed, s_rx_buf, RXSTA, TXSTA, cmd, dma, raw,
          content, line, main, client, host>>
driver == <<s_seq_rx, s_seq_tx, s_rx_armed, s_rx_buf>>
words == <<RXSTA, TXSTA>>
mem == <<content, line>>

Buffers == {1, 2}
Bytes(frame, whole) == [frame |-> frame, whole |-> whole]
NoLine == [valid |-> FALSE, bytes |-> Bytes(0, TRUE), dirty |-> FALSE]

\* What the processor reads in a buffer
Seen(b) == IF line[b].valid THEN line[b].bytes ELSE content[b]
Events == {"RX_DONE", "IN_SUC_EOF", "TX_DONE", "OUT_DONE"}
TxPcs == {"tx_announce", "tx_done", "tx_out"}
\* SPI_SLV_STA_TOGGLE and SPI_SLV_STA_INIT of a status word
ToggleBit(w) == w % 2
HasInit(w) == w >= 2
FlipToggle(w) == IF ToggleBit(w) = 1 THEN w - 1 ELSE w + 1
ClearInit(w) == w % 2

\* The ROM has loaded the stub over SPI and left CMD at DONE, the last download's
\* words in the registers; the host connects anew.
Init ==
    /\ s_seq_rx = 0 /\ s_seq_tx = 0 /\ s_rx_armed = FALSE /\ s_rx_buf = 0
    /\ RXSTA \in {0, 1} /\ TXSTA \in {0, 1}
    /\ cmd = "DONE"
    /\ dma = [ena |-> "off", in |-> 0, drain |-> FALSE, out |-> 0, ram |-> FALSE]
    /\ raw = {}
    /\ env \in Environments /\ target \in SpiTargets
    /\ content = [b \in Buffers |-> Bytes(0, TRUE)]
    /\ line = [b \in Buffers |-> NoLine]
    /\ main = [pc |-> "init", back |-> "take"]
    /\ client = [cur |-> 1, held |-> 0, frame |-> 0]
    /\ host = [rx |-> 2, tx |-> 2, frame |-> 0, writing |-> FALSE,
               waiting |-> FALSE, reading |-> FALSE]

(***************************************************************************)
(* The stub                                                                *)
(***************************************************************************)
Goto(pc) == main' = [main EXCEPT !.pc = pc]
RearmThen(pc) == main' = [pc |-> "arm_test", back |-> pc]

stub_target_slave_spi_init ==
    /\ main.pc = "init"
    /\ cmd' = "IDLE"
    /\ s_seq_rx' = 3 /\ s_seq_tx' = 3 /\ s_rx_armed' = FALSE
    /\ RearmThen("take")
    /\ UNCHANGED <<target, s_rx_buf, words, dma, raw, mem, client, host>>

\* dcache_flush and dcache_invalidate of buffer b, for targets without a cache nothing
dcache_flush(b) ==
    /\ content' = IF line[b].dirty THEN [content EXCEPT ![b] = line[b].bytes] ELSE content
    /\ line' = [line EXCEPT ![b] = NoLine]

dcache_invalidate(b) == line' = [line EXCEPT ![b] = NoLine]

\* Mutant: the old RX_DONE survives.
rxdma_arm_KeepsDone(b, events) ==
    /\ dcache_flush(b)
    /\ dma' = [dma EXCEPT !.ena = "rx", !.in = b, !.drain = FALSE]
    /\ raw' = events

\* Mutant: dirty lines of the buffer stay in the cache.
rxdma_arm_NoFlush(b, events) ==
    /\ dma' = [dma EXCEPT !.ena = "rx", !.in = b, !.drain = FALSE]
    /\ raw' = events \ {"RX_DONE"}
    /\ UNCHANGED mem

\* spi_slv_rxdma_arm: reset the engine, forget RX_DONE (not IN_SUC_EOF), receive into b
spi_slv_rxdma_arm(b, events) ==
    /\ dcache_flush(b)
    /\ dma' = [dma EXCEPT !.ena = "rx", !.in = b, !.drain = FALSE]
    /\ raw' = events \ {"RX_DONE"}

\* Mutant: rearm forgets to test s_rx_armed.
RearmArm_NoTest ==
    /\ main.pc = "arm_test"
    /\ spi_slv_rxdma_arm(client.cur, raw)
    /\ s_rx_buf' = client.cur
    /\ Goto("arm_announce")
    /\ UNCHANGED <<target, s_seq_rx, s_seq_tx, s_rx_armed, words, cmd, client, host>>

\* rearm: nothing if armed, else start the receive DMA ...
RearmArm ==
    /\ main.pc = "arm_test"
    /\ IF s_rx_armed
       THEN Goto(main.back) /\ UNCHANGED <<dma, raw, mem, s_rx_buf>>
       ELSE /\ spi_slv_rxdma_arm(client.cur, raw)
            /\ s_rx_buf' = client.cur
            /\ Goto("arm_announce")
    /\ UNCHANGED <<target, s_seq_rx, s_seq_tx, s_rx_armed, words, cmd, client, host>>

\* ... and announce the window with the other toggle
RearmAnnounce ==
    /\ main.pc = "arm_announce"
    /\ RXSTA' = FlipToggle(s_seq_rx)
    /\ s_seq_rx' = ClearInit(FlipToggle(s_seq_rx))
    /\ s_rx_armed' = TRUE
    /\ Goto(main.back)
    /\ UNCHANGED <<target, s_seq_tx, s_rx_buf, TXSTA, cmd, dma, raw, mem, client, host>>

\* take_rx_frame: answer the connect handshake, then look for a finished transaction,
\* which is all where the SPI slave has no engine of its own to wait for
TakeTest ==
    /\ main.pc = "take"
    /\ cmd' = IF cmd = "READY" THEN "ECHO" ELSE cmd
    /\ IF "RX_DONE" \in raw THEN Goto(IF target.engine THEN "take_eof" ELSE "claim")
                            ELSE RearmThen("take")
    /\ UNCHANGED <<target, driver, words, dma, raw, mem, client, host>>

\* Mutant: RX_DONE is taken for the end of the frame.
TakeEof_NoWait ==
    /\ main.pc = "take_eof"
    /\ Goto("claim")
    /\ UNCHANGED <<target, driver, words, cmd, dma, raw, mem, client, host>>

\* take_rx_frame: wait for the engine; on a timeout the frame stays pending.  An
\* engine with nothing to write never reports.
TakeEof ==
    /\ main.pc = "take_eof"
    /\ \/ "IN_SUC_EOF" \in raw /\ Goto("claim")
       \/ /\ "IN_SUC_EOF" \notin raw
          /\ "rx_slow" \in env.faults \/ ~dma.drain
          /\ RearmThen("take")
    /\ UNCHANGED <<target, driver, words, cmd, dma, raw, mem, client, host>>

\* The frame is the client's, which works on it and takes the other buffer next.
ClaimFrame ==
    client' = [cur |-> 3 - s_rx_buf, held |-> s_rx_buf, frame |-> content[s_rx_buf].frame]

\* take_rx_frame: clear both events and drop what the cache has of the buffer; the
\* window is used up
TakeClaim ==
    /\ main.pc = "claim"
    /\ raw' = raw \ {"IN_SUC_EOF", "RX_DONE"}
    /\ dcache_invalidate(s_rx_buf)
    /\ s_rx_armed' = FALSE
    /\ ClaimFrame
    /\ Goto("process")
    /\ UNCHANGED <<target, s_seq_rx, s_seq_tx, s_rx_buf, words, cmd, dma, content, host>>

\* The client opens the next window before its reply, or replies first.
ClientProcess ==
    /\ main.pc = "process"
    /\ RearmThen("tx_start") \/ Goto("tx_start")
    /\ UNCHANGED <<target, driver, words, cmd, dma, raw, mem, client, host>>

\* Mutant: the reply is announced before its DMA runs.
TxStart_Announces ==
    /\ main.pc = "tx_start"
    /\ raw' = raw \ {"TX_DONE"}
    /\ TXSTA' = FlipToggle(s_seq_tx)
    /\ s_seq_tx' = ClearInit(FlipToggle(s_seq_tx))
    /\ Goto("tx_done")
    /\ UNCHANGED <<target, s_seq_rx, s_rx_armed, s_rx_buf, RXSTA, cmd, dma, mem, client, host>>

\* tx_frame: give the reply to the transmit DMA, which takes SPI_DMA_CONF over from
\* the receive DMA; what was still on its way to RAM may get there or not.
TxStart ==
    /\ main.pc = "tx_start"
    /\ raw' = raw \ {"TX_DONE"}
    /\ \E d \in {dma.drain, FALSE} :
           dma' = [dma EXCEPT !.ena = "tx", !.drain = d, !.out = client.frame,
                              !.ram = TRUE]
    /\ Goto("tx_announce")
    /\ UNCHANGED <<target, driver, words, cmd, mem, client, host>>

\* tx_frame: flip the toggle of the reply
TxAnnounce ==
    /\ main.pc = "tx_announce"
    /\ TXSTA' = FlipToggle(s_seq_tx)
    /\ s_seq_tx' = ClearInit(FlipToggle(s_seq_tx))
    /\ Goto("tx_done")
    /\ UNCHANGED <<target, s_seq_rx, s_rx_armed, s_rx_buf, RXSTA, cmd, dma, raw, mem, client, host>>

\* tx_frame returns and the client gives up the claimed buffer.
TxReturn ==
    /\ client' = [client EXCEPT !.held = 0]
    /\ RearmThen("take")

\* tx_frame: wait for the host; on a timeout fail and consider RX disarmed
TxWaitDone ==
    /\ main.pc = "tx_done"
    /\ \/ /\ "TX_DONE" \in raw
          /\ raw' = raw \ {"TX_DONE"}
          /\ Goto("tx_out")
          /\ UNCHANGED <<s_rx_armed, client>>
       \/ /\ "TX_DONE" \notin raw /\ "tx_timeout" \in env.faults
          /\ s_rx_armed' = FALSE
          /\ TxReturn
          /\ UNCHANGED raw
    /\ UNCHANGED <<target, s_seq_rx, s_seq_tx, s_rx_buf, words, cmd, dma, mem, host>>

\* Mutant: the engine's OUT_DONE is not waited for.
TxWaitOut_NoWait ==
    /\ main.pc = "tx_out"
    /\ IF s_rx_armed THEN spi_slv_rxdma_arm(s_rx_buf, raw \ {"OUT_DONE"})
                     ELSE raw' = raw \ {"OUT_DONE"} /\ UNCHANGED <<dma, mem>>
    /\ TxReturn
    /\ UNCHANGED <<target, driver, words, cmd, host>>

\* tx_frame: wait for the engine if it reports by itself, then give an open window its DMA back
TxWaitOut ==
    /\ main.pc = "tx_out" /\ (target.engine => "OUT_DONE" \in raw)
    /\ IF s_rx_armed THEN spi_slv_rxdma_arm(s_rx_buf, raw \ {"OUT_DONE"})
                     ELSE raw' = raw \ {"OUT_DONE"} /\ UNCHANGED <<dma, mem>>
    /\ TxReturn
    /\ UNCHANGED <<target, driver, words, cmd, host>>

\* ... or fail as above
TxOutTimeout ==
    /\ main.pc = "tx_out" /\ target.engine
    /\ "OUT_DONE" \notin raw /\ "out_slow" \in env.faults
    /\ s_rx_armed' = FALSE
    /\ TxReturn
    /\ UNCHANGED <<target, s_seq_rx, s_seq_tx, s_rx_buf, words, cmd, dma, raw, mem, host>>

(***************************************************************************)
(* The DMA engine and the host                                             *)
(***************************************************************************)
\* The host keys off the toggle bit: it waits for a word with INIT after it has
\* connected, and from then on for a toggle other than the one it saw last.
Fresh == 2
Ready(word, seen) == IF seen = Fresh THEN HasInit(word) ELSE ToggleBit(word) # seen

HostConnect ==
    /\ cmd = "IDLE"
    /\ cmd' = "READY"
    /\ UNCHANGED <<target, driver, words, dma, raw, mem, main, client, host>>

\* The host has its reply, sees a window and starts a frame.
HostBegin ==
    /\ cmd = "ECHO" /\ host.frame < env.frames
    /\ ~host.writing /\ ~host.reading
    /\ ~host.waiting
    /\ main.pc \in TxPcs => env.prompt
    /\ Ready(RXSTA, host.rx)
    /\ host' = [host EXCEPT !.rx = ToggleBit(RXSTA), !.frame = @ + 1,
                            !.writing = TRUE, !.waiting = TRUE]
    /\ UNCHANGED <<target, driver, words, cmd, dma, raw, mem, main, client>>

\* The write transaction ends; without a receive DMA its bytes go nowhere.
HostWrite ==
    /\ host.writing
    /\ host' = [host EXCEPT !.writing = FALSE]
    /\ raw' = IF target.engine THEN raw \cup {"RX_DONE"} ELSE raw
    /\ IF dma.ena = "rx"
       THEN /\ content' = [content EXCEPT ![dma.in] = Bytes(host.frame, FALSE)]
            /\ dma' = [dma EXCEPT !.drain = TRUE]
       ELSE UNCHANGED <<content, dma>>
    /\ UNCHANGED <<target, line, driver, words, cmd, main, client>>

\* The last bytes of the frame reach RAM.
DmaIn ==
    /\ dma.drain
    /\ content' = [content EXCEPT ![dma.in].whole = TRUE]
    /\ dma' = [dma EXCEPT !.drain = FALSE]
    /\ raw' = raw \cup {IF target.engine THEN "IN_SUC_EOF" ELSE "RX_DONE"}
    /\ UNCHANGED <<target, line, driver, words, cmd, main, client, host>>

\* The host has seen a reply announced and starts to read it.
HostFetch ==
    /\ cmd = "ECHO" /\ host.waiting /\ ~host.writing /\ ~host.reading
    /\ Ready(TXSTA, host.tx)
    /\ host' = [host EXCEPT !.tx = ToggleBit(TXSTA), !.reading = TRUE]
    /\ UNCHANGED <<target, driver, words, cmd, dma, raw, mem, main, client>>

\* The read transaction ends, without an engine of its own not before the last byte has
\* left RAM; it answers the host's last frame if the DMA had that reply.
HostRead ==
    /\ host.reading
    /\ ~target.engine => ~(dma.ena = "tx" /\ dma.ram)
    /\ host' = [host EXCEPT !.reading = FALSE,
                  !.waiting = ~(dma.ena = "tx" /\ dma.out = host.frame)]
    /\ raw' = raw \cup {"TX_DONE"}
    /\ UNCHANGED <<target, driver, words, cmd, dma, mem, main, client>>

\* The host drops its request; the stub may still be about to answer it.
HostGivesUp ==
    /\ "tx_timeout" \in env.faults /\ host.waiting /\ ~host.writing /\ ~host.reading
    /\ host' = [host EXCEPT !.waiting = FALSE]
    /\ UNCHANGED <<target, driver, words, cmd, dma, raw, mem, main, client>>

\* The engine has fetched the whole reply from RAM, before or after the host reads it.
DmaOut ==
    /\ dma.ena = "tx" /\ dma.ram
    /\ dma' = [dma EXCEPT !.ram = FALSE]
    /\ raw' = IF target.engine THEN raw \cup {"OUT_DONE"} ELSE raw
    /\ UNCHANGED <<target, driver, words, cmd, mem, main, client, host>>

(***************************************************************************)
(* The cache, and the client's use of the buffers it has not lent          *)
(***************************************************************************)
CacheFills(b) ==
    /\ target.cached /\ ~line[b].valid
    /\ line' = [line EXCEPT ![b] = [valid |-> TRUE, bytes |-> content[b], dirty |-> FALSE]]
    /\ UNCHANGED <<target, driver, words, cmd, dma, raw, content, main, client, host>>

CacheEvicts(b) ==
    /\ line[b].valid
    /\ dcache_flush(b)
    /\ UNCHANGED <<target, driver, words, cmd, dma, raw, main, client, host>>

\* Between two calls the client writes to a buffer that is neither armed nor claimed.
ClientWrites(b) ==
    /\ target.cached /\ main.pc \in {"arm_test", "take", "process", "tx_start"}
    /\ b # client.held /\ ~(s_rx_armed /\ b = s_rx_buf)
    /\ line' = [line EXCEPT ![b] = [valid |-> TRUE, bytes |-> Bytes(0, FALSE), dirty |-> TRUE]]
    /\ UNCHANGED <<target, driver, words, cmd, dma, raw, content, main, client, host>>

(***************************************************************************)
(* Specification                                                           *)
(***************************************************************************)
rearm == RearmArm \/ RearmAnnounce
take_rx_frame == TakeTest \/ TakeEof \/ TakeClaim
tx_frame == TxStart \/ TxAnnounce \/ TxWaitDone \/ TxWaitOut \/ TxOutTimeout
Main == stub_target_slave_spi_init \/ rearm \/ take_rx_frame \/ ClientProcess \/ tx_frame
Host == HostConnect \/ HostBegin \/ HostWrite \/ HostFetch \/ HostRead
        \/ HostGivesUp
Dma == DmaIn \/ DmaOut
Cache == \E b \in Buffers : CacheFills(b) \/ CacheEvicts(b) \/ ClientWrites(b)

Next == (Main \/ Host \/ Dma \/ Cache) /\ UNCHANGED env

Spec == Init /\ [][Next]_vars

\* The processor and the DMA engine run; the host connects, ends what it has begun
\* and polls for the replies it waits for.  It need not begin a frame.
FairSpec ==
    /\ Spec
    /\ WF_vars(Main /\ UNCHANGED env)
    /\ WF_vars(DmaIn /\ UNCHANGED env) /\ WF_vars(DmaOut /\ UNCHANGED env)
    /\ WF_vars(HostConnect /\ UNCHANGED env) /\ WF_vars(HostWrite /\ UNCHANGED env)
    /\ WF_vars(HostFetch /\ UNCHANGED env) /\ WF_vars(HostRead /\ UNCHANGED env)

(***************************************************************************)
(* Properties                                                              *)
(***************************************************************************)
\* The host fetches every reply before tx_frame gives up on it ...
HostInTime == "tx_timeout" \notin env.faults

\* ... and the engine, too, is done in time.
TxInTime == env.faults \subseteq {"rx_slow"}

\* A claimed frame lies in its buffer as a whole while the client works on it: it
\* was not claimed before the engine had written it, no window was opened over it, and
\* neither an old copy in the cache is read instead nor an old dirty line written over it
\* (stub_target_slave_spi_take_rx_frame against spi_slv_rxdma_arm).
FrameWhole ==
    HostInTime /\ client.held # 0 => Seen(client.held) = Bytes(client.frame, TRUE)

\* A read the host makes because it saw TXSTA toggle finds the reply to its frame in
\* the transmit DMA.
ReplyMatches ==
    HostInTime /\ host.reading => dma.ena = "tx" /\ dma.out = host.frame

\* A window that is open and unused is visible to the host: the toggle that announces
\* it (stub_target_slave_spi_rearm) differs from the one the host saw last.
WindowSeen ==
    s_rx_armed /\ dma.ena = "rx" /\ "RX_DONE" \notin raw /\ ~dma.drain /\ ~host.writing
               /\ main.pc # "arm_announce"
        => Ready(RXSTA, host.rx)

\* Open windows stay visible unless tx_frame has given up on a reply, or the host wrote
\* into a window before tx_frame had re-armed it.
WindowVisible == TxInTime /\ ~env.prompt => WindowSeen

\* Outside tx_frame the DMA engine does not read the caller's reply any more.
ReplyReleased == TxInTime /\ main.pc \notin TxPcs => ~dma.ram

\* A host that has written a frame gets its reply, unless the stub has given up on one
\* or the host writes before tx_frame has re-armed the receive DMA.
FrameAnswered == host.waiting /\ TxInTime /\ ~env.prompt ~> ~host.waiting

(***************************************************************************)
(* The driver, the DMA engine and the toggles are a FrameTransport         *)
(***************************************************************************)
Transport == INSTANCE FrameTransport WITH
    sent <- host.frame, taken <- client.frame, held <- client.held # 0,
    waiting <- host.waiting, patient <- HostInTime

\* Whatever runs out or is given up, take_rx_frame hands out every frame at most once
\* and in order, and a host that is waiting is answered by the client that has its frame.
IsFrameTransport == Transport!Spec
=============================================================================
