--------------------------- MODULE SdioTransport ---------------------------
(***************************************************************************)
(* The SDIO transport of esp-stub-lib (target/esp32c6/src/sdio.c, which    *)
(* the ESP32-C5 shares): a main loop that arms a receive window, claims    *)
(* frames and sends replies, an interrupt handler that closes the window,  *)
(* the SLC DMA engine, and a host that writes frames and reads replies.    *)
(* Hardware and host move between any two steps of the main loop or of the *)
(* handler; the handler interrupts the main loop and runs to its end.      *)
(*                                                                         *)
(* Lengths are counted in 512-byte blocks; a block is known by the frame   *)
(* it belongs to and by its place in it.                                   *)
(***************************************************************************)
EXTENDS Integers, Sequences, FiniteSets

CONSTANTS
    Descs,          \* descriptors a receive buffer gives room for
    MaxFrames,      \* bound: frames the host writes
    Environments    \* the hosts and the hardware the driver may meet

\* The host does not fetch a reply in time; the reply's descriptor is refused;
\* a receive descriptor is refused; the ROM finds no frame behind an EOF.
AllFaults == {"tx_timeout", "tx_error", "rx_error", "fetch_null"}

\* rude: the host exceeds its credits and stops waiting for replies; slow: no block
\* arrives between TXLINK_START and s_rx_armed = true; faults: what goes wrong
EnvironmentType == [rude : BOOLEAN, slow : BOOLEAN, faults : SUBSET AllFaults]

ASSUME SdioAssumption ==
    /\ Descs \in Nat \ {0} /\ MaxFrames \in Nat
    /\ Environments \subseteq EnvironmentType

VARIABLES
    env,     \* the environment, one of Environments
    s_rx_armed, s_rx_frame_ready, s_rx_received_len,   \* the driver's statics
    rx,      \* [running, buf, filled]: the descriptor chain, its used descriptors
    credits, \* TOKEN1, what the host believes it may write
    raw,     \* SLC0INT_RAW
    isr,     \* [pc, snap]: the handler and the raw flags it read
    main,    \* [pc, back]: the main loop, and where rearm returns to
    client,  \* [cur, held, len, frame]: its next buffer, the claimed one
    content, \* what the blocks of each buffer hold
    txq,     \* replies the DMA engine still owns, oldest first
    host     \* [frame, of, done, waiting]: the frame, its blocks, those written

vars == <<env, s_rx_armed, s_rx_frame_ready, s_rx_received_len, rx, credits, raw, isr, main,
          client, content, txq, host>>
driver == <<s_rx_armed, s_rx_frame_ready, s_rx_received_len>>

Buffers == {1, 2}
Frames == 1 .. MaxFrames
Blocks == [frame : Frames, no : 1 .. Descs + 1, of : 1 .. Descs + 1]
NoBlock == [frame |-> 0, no |-> 0, of |-> 0]
RxFlags == {"TX_SUC_EOF", "TX_DSCR_ERR", "TX_DSCR_EMPTY"}
TxFlags == {"RX_EOF", "RX_DSCR_ERR"}
ArmPcs == {"arm_armed", "arm_ready", "arm_start", "arm_credits", "arm_set"}
MainPcs == {"init", "take", "claim", "process", "tx_send", "tx_wait", "tx_read"} \cup ArmPcs

RxType == [running : BOOLEAN, buf : Buffers, filled : 0 .. Descs]
FlagType == SUBSET (RxFlags \cup TxFlags)
IsrType == [pc : {"off", "eof", "reset", "err", "empty"}, snap : FlagType]
MainType == [pc : MainPcs, back : {"take", "tx_send"}]
ClientType == [cur : Buffers, held : Buffers \cup {0}, len : 0 .. Descs, frame : 0 .. MaxFrames]
ContentType == [Buffers -> [1 .. Descs -> Blocks \cup {NoBlock}]]
HostType == {h \in [frame : 0 .. MaxFrames, of : 0 .. Descs + 1, done : 0 .. Descs + 1,
                    waiting : BOOLEAN] : h.done <= h.of}

TypeOK ==
    /\ env \in Environments
    /\ s_rx_armed \in BOOLEAN /\ s_rx_frame_ready \in BOOLEAN
    /\ s_rx_received_len \in 0 .. Descs
    /\ rx \in RxType
    /\ credits \in 0 .. Descs
    /\ raw \in FlagType /\ isr \in IsrType
    /\ main \in MainType /\ client \in ClientType
    /\ content \in ContentType
    /\ txq \in Seq(Frames)
    /\ host \in HostType

\* The ROM has enumerated the card; stale events of its own may still be latched.
Init ==
    /\ env \in Environments
    /\ s_rx_armed = FALSE /\ s_rx_frame_ready = FALSE /\ s_rx_received_len = 0
    /\ rx = [running |-> FALSE, buf |-> 1, filled |-> 0]
    /\ credits = 0
    /\ raw \in SUBSET (RxFlags \cup TxFlags)
    /\ isr = [pc |-> "off", snap |-> {}]
    /\ main = [pc |-> "init", back |-> "take"]
    /\ client = [cur |-> 1, held |-> 0, len |-> 0, frame |-> 0]
    /\ content = [b \in Buffers |-> [i \in 1 .. Descs |-> NoBlock]]
    /\ txq = <<>>
    /\ host = [frame |-> 0, of |-> 0, done |-> 0, waiting |-> FALSE]

(***************************************************************************)
(* Main loop.  It stands still while the handler runs.                     *)
(***************************************************************************)
Running(pc) == isr.pc = "off" /\ main.pc = pc
Goto(pc) == main' = [main EXCEPT !.pc = pc]

\* Mutant: the armed flag is left set.
ResetWindow_KeepsArmed(events) ==
    /\ rx' = [rx EXCEPT !.running = FALSE, !.filled = 0]
    /\ raw' = raw \ events
    /\ s_rx_armed' = s_rx_armed
    /\ host' = IF host.done = 0 THEN host ELSE [host EXCEPT !.done = host.of]

\* sdio_reset_from_host_window: stop the DMA, forget its events and the armed
\* flag (init forgets every event).  A frame in transit is lost; the credits stay as they are.
ResetWindow(events) ==
    /\ rx' = [rx EXCEPT !.running = FALSE, !.filled = 0]
    /\ raw' = raw \ events
    /\ s_rx_armed' = FALSE
    /\ host' = IF host.done = 0 THEN host ELSE [host EXCEPT !.done = host.of]

stub_target_sdio_init ==
    /\ Running("init")
    /\ ResetWindow(RxFlags \cup TxFlags)
    /\ credits' = 0
    /\ s_rx_frame_ready' = FALSE /\ s_rx_received_len' = 0
    /\ main' = [pc |-> "arm_armed", back |-> "take"]
    /\ UNCHANGED <<isr, client, content, txq>>

\* rearm: nothing to do if armed already
RearmTestArmed ==
    /\ Running("arm_armed")
    /\ Goto(IF s_rx_armed THEN main.back ELSE "arm_ready")
    /\ UNCHANGED <<driver, rx, credits, raw, isr, client, content, txq, host>>

\* Mutant: the unclaimed frame is not looked at.
RearmTestReady_NoTest ==
    /\ Running("arm_ready")
    /\ Goto("arm_start")
    /\ UNCHANGED <<driver, rx, credits, raw, isr, client, content, txq, host>>

\* rearm: FAIL while a frame is unclaimed
RearmTestReady ==
    /\ Running("arm_ready")
    /\ Goto(IF s_rx_frame_ready THEN main.back ELSE "arm_start")
    /\ UNCHANGED <<driver, rx, credits, raw, isr, client, content, txq, host>>

\* rearm: build the descriptors over the buffer, point the DMA at them, start it
RearmStart ==
    /\ Running("arm_start")
    /\ rx' = [running |-> TRUE, buf |-> client.cur, filled |-> 0]
    /\ Goto("arm_credits")
    /\ UNCHANGED <<driver, credits, raw, isr, client, content, txq, host>>

\* Mutant: one credit more than there are descriptors.
RearmCredits_TooMany ==
    /\ Running("arm_credits")
    /\ credits' = Descs + 1
    /\ Goto("arm_set")
    /\ UNCHANGED <<driver, rx, raw, isr, client, content, txq, host>>

\* rearm: tell the host how many blocks it may write
RearmCredits ==
    /\ Running("arm_credits")
    /\ credits' = Descs
    /\ Goto("arm_set")
    /\ UNCHANGED <<driver, rx, raw, isr, client, content, txq, host>>

\* rearm: only now is the window marked as armed
RearmSetArmed ==
    /\ Running("arm_set")
    /\ s_rx_armed' = TRUE
    /\ Goto(main.back)
    /\ UNCHANGED <<s_rx_frame_ready, s_rx_received_len, rx, credits, raw, isr, client,
                   content, txq, host>>

\* take_rx_frame: nothing there, or read the length ...
TakeTest ==
    /\ Running("take")
    /\ IF s_rx_frame_ready
       THEN Goto("claim") /\ client' = [client EXCEPT !.len = s_rx_received_len]
       ELSE main' = [pc |-> "arm_armed", back |-> "take"] /\ UNCHANGED client
    /\ UNCHANGED <<driver, rx, credits, raw, isr, content, txq, host>>

\* Mutant: the flag stays set.
TakeClaim_KeepsFlag ==
    /\ Running("claim")
    /\ client' = [client EXCEPT !.held = client.cur, !.cur = 3 - client.cur,
                                !.frame = content[client.cur][1].frame]
    /\ Goto("process")
    /\ UNCHANGED <<driver, rx, credits, raw, isr, content, txq, host>>

\* ... and clear the flag; the frame is now the client's.
TakeClaim ==
    /\ Running("claim")
    /\ s_rx_frame_ready' = FALSE
    /\ client' = [client EXCEPT !.held = client.cur, !.cur = 3 - client.cur,
                                !.frame = content[client.cur][1].frame]
    /\ Goto("process")
    /\ UNCHANGED <<s_rx_armed, s_rx_received_len, rx, credits, raw, isr, content, txq, host>>

\* The client opens the other buffer before it works on this one, or replies first.
ClientProcess ==
    /\ Running("process")
    /\ \/ main' = [pc |-> "arm_armed", back |-> "tx_send"]
       \/ Goto("tx_send")
    /\ UNCHANGED <<driver, rx, credits, raw, isr, client, content, txq, host>>

\* tx_frame: fill in the descriptor, clear old events, hand it to the DMA.  There is only
\* the one s_tx_desc: an earlier reply that the engine has not begun is written over, and
\* its place in the chain, if it keeps one, is now the new reply's.
TxSend ==
    /\ Running("tx_send")
    /\ raw' = raw \ TxFlags
    /\ \E begun \in 0 .. Len(txq) : \E total \in begun + 1 .. Len(txq) + 1 :
          txq' = [i \in 1 .. total |-> IF i <= begun THEN txq[i] ELSE client.frame]
    /\ Goto("tx_wait")
    /\ UNCHANGED <<driver, rx, credits, isr, client, content, host>>

\* Back in the client, which gives up the claimed buffer and its reply.
TxReturn ==
    /\ client' = [client EXCEPT !.held = 0]
    /\ main' = [pc |-> "arm_armed", back |-> "take"]

\* Mutant: tx_frame does not wait for the host.
TxWait_NoWait ==
    /\ Running("tx_wait")
    /\ TxReturn
    /\ UNCHANGED <<driver, rx, credits, raw, isr, content, txq, host>>

\* sdio_wait_tx_done: an event, or one second has passed: for sure when the DMA has
\* nothing more to report, and otherwise if the host may be that slow
TxWait ==
    /\ Running("tx_wait")
    /\ \/ raw \cap TxFlags # {} /\ Goto("tx_read") /\ UNCHANGED client
       \/ raw \cap TxFlags = {} /\ ("tx_timeout" \in env.faults \/ txq = <<>>) /\ TxReturn
    /\ UNCHANGED <<driver, rx, credits, raw, isr, content, txq, host>>

\* sdio_wait_tx_done: read the events again, the handler may have cleared one
TxRead ==
    /\ Running("tx_read")
    /\ raw' = IF "RX_EOF" \in raw THEN raw \ {"RX_EOF"} ELSE raw \ {"RX_DSCR_ERR"}
    /\ TxReturn
    /\ UNCHANGED <<driver, rx, credits, isr, content, txq, host>>

(***************************************************************************)
(* sdio_slc_isr                                                            *)
(***************************************************************************)
IsrEnter ==
    /\ isr.pc = "off" /\ main.pc # "init"
    /\ raw \cap RxFlags # {}
    /\ isr' = [pc |-> "eof", snap |-> raw]
    /\ UNCHANGED <<driver, rx, credits, raw, main, client, content, txq, host>>

IsrGoto(pc) == isr' = [isr EXCEPT !.pc = pc]

IsrNoEof ==
    /\ isr.pc = "eof" /\ "TX_SUC_EOF" \notin isr.snap
    /\ IsrGoto("err")
    /\ UNCHANGED <<driver, rx, credits, raw, main, client, content, txq, host>>

\* slc_from_host_chain_fetch: the descriptors up to the first one with its eof set
Eofs == {i \in 1 .. rx.filled : content[rx.buf][i].no = content[rx.buf][i].of}
FetchedLen == CHOOSE i \in Eofs : \A j \in Eofs : i <= j

\* Mutant: the window stays marked as armed.
IsrFetchNull_KeepsArmed ==
    /\ isr.pc = "eof" /\ "TX_SUC_EOF" \in isr.snap
    /\ Eofs = {} \/ "fetch_null" \in env.faults
    /\ raw' = raw \ {"TX_SUC_EOF"}
    /\ IsrGoto("err")
    /\ UNCHANGED <<driver, rx, credits, main, client, content, txq, host>>

\* fetch found nothing: the window is given up but not reset
IsrFetchNull ==
    /\ isr.pc = "eof" /\ "TX_SUC_EOF" \in isr.snap
    /\ Eofs = {} \/ "fetch_null" \in env.faults
    /\ raw' = raw \ {"TX_SUC_EOF"}
    /\ s_rx_armed' = FALSE
    /\ IsrGoto("err")
    /\ UNCHANGED <<s_rx_frame_ready, s_rx_received_len, rx, credits, main, client, content,
                   txq, host>>

\* Mutant: the frame is not announced.
IsrFetch_NotAnnounced ==
    /\ isr.pc = "eof" /\ "TX_SUC_EOF" \in isr.snap
    /\ Eofs # {}
    /\ raw' = raw \ {"TX_SUC_EOF"}
    /\ s_rx_received_len' = FetchedLen
    /\ IsrGoto("reset")
    /\ UNCHANGED <<s_rx_armed, s_rx_frame_ready, rx, credits, main, client, content, txq, host>>

\* sdio_process_from_host: latch the length, announce the frame, close the window
IsrFetch ==
    /\ isr.pc = "eof" /\ "TX_SUC_EOF" \in isr.snap
    /\ Eofs # {}
    /\ raw' = raw \ {"TX_SUC_EOF"}
    /\ s_rx_received_len' = FetchedLen
    /\ s_rx_frame_ready' = TRUE
    /\ IsrGoto("reset")
    /\ UNCHANGED <<s_rx_armed, rx, credits, main, client, content, txq, host>>

IsrReset ==
    /\ isr.pc = "reset"
    /\ ResetWindow(RxFlags)
    /\ IsrGoto("err")
    /\ UNCHANGED <<s_rx_frame_ready, s_rx_received_len, credits, main, client, content, txq>>

\* Both descriptor errors are cleared, the transmit one too.
IsrClearErrors ==
    /\ isr.pc = "err"
    /\ raw' = raw \ (isr.snap \cap {"TX_DSCR_ERR", "RX_DSCR_ERR"})
    /\ IsrGoto("empty")
    /\ UNCHANGED <<driver, rx, credits, main, client, content, txq, host>>

\* The chain ran out under the host: start over with a closed window
IsrEmpty ==
    /\ isr.pc = "empty"
    /\ isr' = [pc |-> "off", snap |-> {}]
    /\ IF "TX_DSCR_EMPTY" \in isr.snap
       THEN ResetWindow(RxFlags)
       ELSE UNCHANGED <<rx, s_rx_armed, host, raw>>
    /\ UNCHANGED <<s_rx_frame_ready, s_rx_received_len, credits, main, client, content, txq>>

(***************************************************************************)
(* The DMA engine and the host                                             *)
(***************************************************************************)
\* The host may not write while the main loop is between START and s_rx_armed.
MayWrite == ~(env.slow /\ main.pc \in {"arm_credits", "arm_set"})

\* A new frame, once the last one is written and, if the host is polite, answered
HostBegin ==
    /\ main.pc # "init"
    /\ host.done = host.of /\ host.frame < MaxFrames
    /\ ~host.waiting
    /\ \E n \in 1 .. Descs + 1 :
           /\ n <= credits \/ env.rude
           /\ host' = [frame |-> host.frame + 1, of |-> n, done |-> 0, waiting |-> TRUE]
    /\ UNCHANGED <<driver, rx, credits, raw, isr, main, client, content, txq>>

\* One block goes through an open window into the next descriptor
HostBlock ==
    /\ host.done < host.of /\ rx.running /\ rx.filled < Descs /\ MayWrite
    /\ rx' = [rx EXCEPT !.filled = @ + 1]
    /\ content' = [content EXCEPT ![rx.buf][rx.filled + 1] =
                      [frame |-> host.frame, no |-> host.done + 1, of |-> host.of]]
    /\ host' = [host EXCEPT !.done = @ + 1]
    /\ credits' = IF credits = 0 THEN 0 ELSE credits - 1
    /\ raw' = IF host.done + 1 = host.of THEN raw \cup {"TX_SUC_EOF"} ELSE raw
    /\ UNCHANGED <<driver, isr, main, client, txq>>

\* ... or finds no descriptor left
HostBlockNoDesc ==
    /\ host.done < host.of /\ rx.running /\ rx.filled = Descs /\ MayWrite
    /\ raw' = raw \cup {"TX_DSCR_EMPTY"}
    /\ UNCHANGED <<driver, rx, credits, isr, main, client, content, txq, host>>

DmaRxError ==
    /\ "rx_error" \in env.faults /\ rx.running /\ MayWrite
    /\ raw' = raw \cup {"TX_DSCR_ERR"}
    /\ UNCHANGED <<driver, rx, credits, isr, main, client, content, txq, host>>

\* The host reads the oldest reply; a polite host goes on when it is its frame's.
HostRead ==
    /\ txq # <<>>
    /\ txq' = Tail(txq)
    /\ raw' = raw \cup {"RX_EOF"}
    /\ host' = IF Head(txq) = host.frame THEN [host EXCEPT !.waiting = FALSE] ELSE host
    /\ UNCHANGED <<driver, rx, credits, isr, main, client, content>>

HostGivesUp ==
    /\ env.rude /\ host.waiting
    /\ host' = [host EXCEPT !.waiting = FALSE]
    /\ UNCHANGED <<driver, rx, credits, raw, isr, main, client, content, txq>>

DmaTxError ==
    /\ "tx_error" \in env.faults /\ txq # <<>>
    /\ txq' = Tail(txq)
    /\ raw' = raw \cup {"RX_DSCR_ERR"}
    /\ UNCHANGED <<driver, rx, credits, isr, main, client, content, host>>

(***************************************************************************)
(* Specification                                                           *)
(***************************************************************************)
rearm == RearmTestArmed \/ RearmTestReady \/ RearmStart \/ RearmCredits \/ RearmSetArmed
take_rx_frame == TakeTest \/ TakeClaim
tx_frame == TxSend \/ TxWait \/ TxRead
Main == stub_target_sdio_init \/ rearm \/ take_rx_frame \/ ClientProcess \/ tx_frame
sdio_slc_isr == \/ IsrEnter \/ IsrNoEof \/ IsrFetchNull \/ IsrFetch \/ IsrReset
                \/ IsrClearErrors \/ IsrEmpty
Host == HostBegin \/ HostBlock \/ HostBlockNoDesc \/ HostRead \/ HostGivesUp
Dma == DmaRxError \/ DmaTxError

Next == (Main \/ sdio_slc_isr \/ Host \/ Dma) /\ UNCHANGED env

Spec == Init /\ [][Next]_vars

\* The processor keeps executing, an enabled interrupt is taken, and a host that
\* has begun a frame writes it to the end and fetches its replies.
FairSpec ==
    /\ Spec
    /\ WF_vars(Main /\ UNCHANGED env) /\ WF_vars(sdio_slc_isr /\ UNCHANGED env)
    /\ WF_vars((HostBlock \/ HostBlockNoDesc) /\ UNCHANGED env)
    /\ WF_vars(HostRead /\ UNCHANGED env)

(***************************************************************************)
(* Properties                                                              *)
(***************************************************************************)
\* The first n blocks of buffer b are one frame, whole and in order.
OneFrame(b, n) ==
    /\ n > 0
    /\ \A i \in 1 .. n : content[b][i] = [frame |-> content[b][1].frame, no |-> i, of |-> n]

\* A frame that is announced to the main loop, and one the client has claimed, is
\* one whole frame of the length the driver gives for it: neither a later window nor
\* a second frame of the host writes over it (sdio_process_from_host against
\* stub_target_sdio_rearm).
FrameIntact ==
    /\ s_rx_frame_ready => OneFrame(client.cur, s_rx_received_len)
    /\ client.held # 0 => OneFrame(client.held, client.len)

\* While no handler runs, s_rx_armed says the truth about the DMA: rearm, which
\* does nothing when it is set, would otherwise leave the stub deaf for good.
ArmedMeansListening == s_rx_armed /\ isr.pc = "off" => rx.running

\* When stub_target_sdio_tx_frame is not running, the DMA owns no reply: the caller may
\* reuse the memory the reply was in.  Only a wait that timed out leaves one behind.
ReplyReleased ==
    "tx_timeout" \notin env.faults /\ main.pc \notin {"tx_wait", "tx_read"} => txq = <<>>

\* Again and again the host finds a window with credits to write to: what the handler has
\* closed or given up, after a fetch that found nothing too, the main loop opens again.
WindowReopens == []<>(rx.running /\ credits > 0)

\* The handler has just given up a window whose frame it could not fetch.
FetchFailed == isr.pc = "err" /\ ~s_rx_armed /\ rx.running

\* A frame that a polite host begins is answered, unless fetching it fails.
FrameAnswered ==
    ~env.rude /\ host.waiting /\ host.done = 0 ~> ~host.waiting \/ FetchFailed

(***************************************************************************)
(* The driver, its handler and the DMA engine are a FrameTransport         *)
(***************************************************************************)
Transport == INSTANCE FrameTransport WITH
    sent <- host.frame, taken <- client.frame, held <- client.held # 0,
    waiting <- host.waiting, patient <- ~env.rude

\* Whatever the handler does between two steps of the main loop, and whatever a rude
\* host or the hardware does wrong, take_rx_frame hands out every frame at most once and in
\* order, and nobody but the client that took a frame answers it.
IsFrameTransport == Transport!Spec
=============================================================================
