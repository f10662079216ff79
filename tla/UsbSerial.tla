----------------------------- MODULE UsbSerial -----------------------------
(***************************************************************************)
(* The two USB byte transports of esp-stub-lib: the USB serial JTAG        *)
(* controller (usb_serial_jtag.c) and the CDC device on the ROM's USB OTG  *)
(* stack (usb_otg.c).  The main loop sends the bytes of a reply one by one *)
(* and flushes; an interrupt handler takes the bytes of a request from the *)
(* receive FIFO and, on USB OTG, watches the line state: a host that       *)
(* lowers RTS asks for a reset.                                            *)
(*                                                                         *)
(* A byte is known by its place in all that the stub sends and by whether  *)
(* it ends a reply; received bytes are counted.  A host reads in transfers:*)
(* it sees nothing of a transfer before a packet that is not full ends it. *)
(***************************************************************************)
EXTENDS Integers, Sequences, SequencesExt

CONSTANTS
    PacketSize,    \* bytes of a full packet, ACM_BYTES_PER_TX
    RequestSize,   \* bytes of a request
    ReplySizes,    \* how many bytes a reply may have
    MaxRequests,   \* bound: requests the host sends
    MaxLine        \* bound: line states the host sets

ASSUME UsbSerialAssumption ==
    /\ PacketSize \in Nat \ {0} /\ RequestSize \in Nat \ {0}
    /\ ReplySizes \subseteq Nat \ {0}
    /\ MaxRequests \in Nat /\ MaxLine \in Nat

VARIABLES
    device,     \* the ROM's console: "usj" or "otg"
    slow,       \* may the host leave a packet lying for more than 50 ms?
    s_cdcacm_txbuf, s_cdcacm_old_rts, s_reset_requested,   \* the statics of usb_otg.c
    raw,        \* is SERIAL_OUT_RECV_PKT set?
    masked,     \* is the USB interrupt masked?
    rxfifo,     \* bytes received and not read yet
    fifo,       \* USB serial JTAG: bytes written to EP1 and not committed
    wire,       \* packets committed and not fetched by the host
    isr,        \* [pc, status]: the interrupt handler and the flags it has read
    main,       \* [pc, left]: the main loop and the bytes of the reply to come
    client,     \* [got, sent]: request bytes it was given, bytes it was told are sent
    line,       \* [rts, want, pending, sets, fell]: RTS as the device has it, what the
                \* host asks for, has the device seen that, and the history
    host        \* [left, asked, waiting, part, got]: see the actions of the host

vars == <<device, slow, s_cdcacm_txbuf, s_cdcacm_old_rts, s_reset_requested, raw, masked,
          rxfifo, fifo, wire, isr, main, client, line, host>>
config == <<device, slow>>
otg == <<s_cdcacm_txbuf, s_cdcacm_old_rts, s_reset_requested>>

Init ==
    /\ device \in {"usj", "otg"} /\ slow \in BOOLEAN
    /\ s_cdcacm_txbuf = <<>> /\ s_cdcacm_old_rts = FALSE /\ s_reset_requested = FALSE
    /\ raw \in BOOLEAN /\ masked = TRUE
    /\ rxfifo = 0 /\ fifo = <<>> /\ wire = <<>>
    /\ isr = [pc |-> "off", status |-> FALSE]
    /\ main = [pc |-> "attach", left |-> 0]
    /\ client = [got |-> 0, sent |-> <<>>]
    /\ line \in [rts : BOOLEAN, want : BOOLEAN, pending : {FALSE}, sets : {0}, fell : {FALSE}]
    /\ line.want = line.rts
    /\ host = [left |-> 0, asked |-> 0, waiting |-> FALSE, part |-> <<>>, got |-> <<>>]

Running(pc) == isr.pc = "off" /\ main.pc = pc
Goto(pc) == main' = [main EXCEPT !.pc = pc]

(***************************************************************************)
(* Attaching the handler                                                   *)
(***************************************************************************)
\* Mutant: the line state at the start is not looked at.
otg_intr_attach_NoRts ==
    /\ device = "otg" /\ Running("attach")
    /\ s_cdcacm_txbuf' = <<>> /\ s_reset_requested' = FALSE
    /\ Goto("unmask")
    /\ UNCHANGED <<config, s_cdcacm_old_rts, raw, masked, rxfifo, fifo, wire, isr, client, line,
                   host>>

otg_intr_attach ==
    /\ device = "otg" /\ Running("attach")
    /\ s_cdcacm_txbuf' = <<>> /\ s_reset_requested' = FALSE
    /\ s_cdcacm_old_rts' = line.rts
    /\ Goto("unmask")
    /\ UNCHANGED <<config, raw, masked, rxfifo, fifo, wire, isr, client, line, host>>

\* stub_target_usb_otg_rominit_intr_attach: install the callback, let interrupts through
otg_target_intr_attach ==
    /\ Running("unmask")
    /\ masked' = FALSE
    /\ Goto("poll")
    /\ UNCHANGED <<config, otg, raw, rxfifo, fifo, wire, isr, client, line, host>>

\* Old events are forgotten before the interrupt is let through.
usj_intr_attach ==
    /\ device = "usj" /\ Running("attach")
    /\ raw' = FALSE /\ masked' = FALSE
    /\ Goto("poll")
    /\ UNCHANGED <<config, otg, rxfifo, fifo, wire, isr, client, line, host>>

(***************************************************************************)
(* Receiving, in the interrupt handler                                     *)
(***************************************************************************)
\* The client's handler calls clear_intr_flags, which reads the flags ...
usj_IsrEnter ==
    /\ device = "usj" /\ isr.pc = "off" /\ ~masked /\ raw
    /\ isr' = [pc |-> "clear", status |-> raw]
    /\ UNCHANGED <<config, otg, raw, masked, rxfifo, fifo, wire, main, client, line, host>>

\* ... and clears those it has read; with the receive flag among them the handler goes on.
clear_intr_flags ==
    /\ isr.pc = "clear"
    /\ raw' = (raw /\ ~isr.status)
    /\ isr' = [isr EXCEPT !.pc = IF isr.status THEN "drain" ELSE "off"]
    /\ UNCHANGED <<config, otg, masked, rxfifo, fifo, wire, main, client, line, host>>

\* stub_lib_usb_otg_cdcacm_callback: ACM_STATUS_RX
callback_rx ==
    /\ device = "otg" /\ isr.pc = "off" /\ ~masked /\ rxfifo > 0
    /\ isr' = [isr EXCEPT !.pc = "drain"]
    /\ UNCHANGED <<config, otg, raw, masked, rxfifo, fifo, wire, main, client, line, host>>

\* Both handlers read byte after byte until the FIFO is empty.
read_byte ==
    /\ isr.pc = "drain" /\ rxfifo > 0
    /\ rxfifo' = rxfifo - 1
    /\ client' = [client EXCEPT !.got = @ + 1]
    /\ UNCHANGED <<config, otg, raw, masked, fifo, wire, isr, main, line, host>>

drained ==
    /\ isr.pc = "drain" /\ rxfifo = 0
    /\ isr' = [pc |-> "off", status |-> FALSE]
    /\ UNCHANGED <<config, otg, raw, masked, rxfifo, fifo, wire, main, client, line, host>>

\* stub_lib_usb_otg_cdcacm_callback: ACM_STATUS_LINESTATE_CHANGED
callback_linestate ==
    /\ device = "otg" /\ isr.pc = "off" /\ ~masked /\ line.pending
    /\ s_reset_requested' = (s_reset_requested \/ (s_cdcacm_old_rts /\ ~line.want))
    /\ s_cdcacm_old_rts' = line.want
    /\ line' = [line EXCEPT !.pending = FALSE, !.rts = line.want]
    /\ UNCHANGED <<config, s_cdcacm_txbuf, raw, masked, rxfifo, fifo, wire, isr, main, client, host>>

(***************************************************************************)
(* The main loop of the client                                             *)
(***************************************************************************)
rx_async_enable(enable) == masked' = ~enable

\* A reset goes first; a request that is complete is worked on, on USB OTG with
\* interrupts on or off.
Poll ==
    /\ Running("poll")
    /\ \/ s_reset_requested /\ Goto("reset") /\ UNCHANGED <<client, masked>>
       \/ /\ ~s_reset_requested /\ client.got = RequestSize
          /\ client' = [client EXCEPT !.got = 0]
          /\ \E n \in ReplySizes : main' = [pc |-> "work", left |-> n]
          /\ \E on \in IF device = "otg" THEN BOOLEAN ELSE {TRUE} : rx_async_enable(on)
    /\ UNCHANGED <<config, otg, raw, rxfifo, fifo, wire, isr, line, host>>

Work ==
    /\ Running("work")
    /\ rx_async_enable(TRUE)
    /\ Goto("send")
    /\ UNCHANGED <<config, otg, raw, rxfifo, fifo, wire, isr, client, line, host>>

NextByte == [no |-> Len(client.sent) + 1, end |-> main.left = 1]
ByteDone == main' = [pc |-> IF main.left = 1 THEN "flush" ELSE "send", left |-> main.left - 1]
Accepted == client' = [client EXCEPT !.sent = Append(@, NextByte)]

\* SERIAL_IN_EP_DATA_FREE; a full FIFO commits itself, and a write without room is lost.
DataFree == wire = <<>>
WriteEp1(c) ==
    IF ~DataFree THEN UNCHANGED <<fifo, wire>>
    ELSE IF Len(fifo) + 1 < PacketSize THEN fifo' = Append(fifo, c) /\ UNCHANGED wire
    ELSE wire' = <<Append(fifo, c)>> /\ fifo' = <<>>

\* Mutant: the byte is written without waiting for room.
usj_tx_one_char_NoWait ==
    /\ device = "usj" /\ Running("send")
    /\ WriteEp1(NextByte) /\ Accepted
    /\ ByteDone
    /\ UNCHANGED <<config, otg, raw, masked, rxfifo, isr, line, host>>

\* Wait for room for 50 ms; without any the byte is refused.
usj_tx_one_char ==
    /\ device = "usj" /\ Running("send")
    /\ \/ DataFree /\ WriteEp1(NextByte) /\ Accepted
       \/ ~DataFree /\ slow /\ UNCHANGED <<fifo, wire, client>>
    /\ ByteDone
    /\ UNCHANGED <<config, otg, raw, masked, rxfifo, isr, line, host>>

\* WR_DONE commits what is in the FIFO, be it nothing; before the last packet has been
\* fetched it does nothing.
WrDone ==
    IF DataFree THEN wire' = <<fifo>> /\ fifo' = <<>> ELSE UNCHANGED <<fifo, wire>>

\* Mutant: WR_DONE at once.
usj_tx_flush_NoWait ==
    /\ device = "usj" /\ Running("flush")
    /\ WrDone
    /\ Goto("poll")
    /\ UNCHANGED <<config, otg, raw, masked, rxfifo, isr, client, line, host>>

\* Wait for room for 50 ms, and set WR_DONE in any case.
usj_tx_flush ==
    /\ device = "usj" /\ Running("flush")
    /\ DataFree \/ slow
    /\ WrDone
    /\ Goto("poll")
    /\ UNCHANGED <<config, otg, raw, masked, rxfifo, isr, client, line, host>>

\* esp_rom_cdc_acm_fifo_fill takes all it is given; stub_lib_usb_otg_tx_flush does not
\* look at what it returns.
FifoFill(bytes) == wire' = IF bytes = <<>> THEN wire ELSE Append(wire, bytes)

otg_tx_one_char ==
    /\ device = "otg" /\ Running("send")
    /\ LET txbuf == Append(s_cdcacm_txbuf, NextByte)
       IN  IF Len(txbuf) = PacketSize
           THEN FifoFill(txbuf) /\ s_cdcacm_txbuf' = <<>>
           ELSE s_cdcacm_txbuf' = txbuf /\ UNCHANGED wire
    /\ Accepted
    /\ ByteDone
    /\ UNCHANGED <<config, s_cdcacm_old_rts, s_reset_requested, raw, masked, rxfifo, fifo,
                   isr, line, host>>

otg_tx_flush ==
    /\ device = "otg" /\ Running("flush")
    /\ FifoFill(s_cdcacm_txbuf) /\ s_cdcacm_txbuf' = <<>>
    /\ Goto("poll")
    /\ UNCHANGED <<config, s_cdcacm_old_rts, s_reset_requested, raw, masked, rxfifo, fifo,
                   isr, client, line, host>>

\* stub_lib_usb_otg_handle_reset: the interrupt is masked ...
handle_reset ==
    /\ Running("reset")
    /\ s_reset_requested' = FALSE
    /\ masked' = TRUE
    /\ Goto("settle")
    /\ UNCHANGED <<config, s_cdcacm_txbuf, s_cdcacm_old_rts, raw, rxfifo, fifo, wire, isr, client, line, host>>

\* ... what is pending is polled for, and the processor starts anew, into the application.
target_handle_reset ==
    /\ Running("settle")
    /\ line' = [line EXCEPT !.pending = FALSE, !.rts = line.want]
    /\ s_cdcacm_old_rts' = line.want
    /\ s_reset_requested' = (s_cdcacm_old_rts /\ ~line.want)
    /\ Goto("restarted")
    /\ UNCHANGED <<config, s_cdcacm_txbuf, raw, masked, rxfifo, fifo, wire, isr, client, host>>

(***************************************************************************)
(* The host                                                                *)
(***************************************************************************)
\* It starts a request when the stub has greeted it and the last reply is complete.
HostAsk ==
    /\ main.pc \notin {"attach", "unmask"}
    /\ ~host.waiting /\ host.asked < MaxRequests
    /\ host' = [host EXCEPT !.left = RequestSize, !.asked = @ + 1, !.waiting = TRUE]
    /\ UNCHANGED <<config, otg, raw, masked, rxfifo, fifo, wire, isr, main, client, line>>

\* A packet is taken when the FIFO is empty.
HostSend ==
    /\ host.left > 0 /\ rxfifo = 0 /\ main.pc # "restarted"
    /\ rxfifo' = IF host.left < PacketSize THEN host.left ELSE PacketSize
    /\ host' = [host EXCEPT !.left = @ - rxfifo']
    /\ raw' = TRUE
    /\ UNCHANGED <<config, otg, masked, fifo, wire, isr, main, client, line>>

\* It fetches a packet; one that is not full ends the transfer (the ROM's stack ends one
\* with every fifo_fill), and with the end of the reply in it the host goes on.
HostFetch ==
    /\ wire # <<>>
    /\ LET part == host.part \o Head(wire)
           ends == device = "otg" \/ Len(Head(wire)) < PacketSize
           done == ends /\ \E i \in DOMAIN part : part[i].end
       IN  host' = [host EXCEPT !.part = IF ends THEN <<>> ELSE part,
                                !.got = IF ends THEN @ \o part ELSE @,
                                !.waiting = @ /\ ~done]
    /\ wire' = Tail(wire)
    /\ UNCHANGED <<config, otg, raw, masked, rxfifo, fifo, isr, main, client, line>>

\* SET_CONTROL_LINE_STATE, with RTS as it was or not; a request the device has not
\* seen yet holds up the next.
HostSetLine ==
    /\ device = "otg" /\ main.pc # "restarted"
    /\ ~line.pending /\ line.sets < MaxLine
    /\ \E v \in BOOLEAN :
           line' = [line EXCEPT !.want = v, !.pending = TRUE, !.sets = @ + 1,
                                !.fell = @ \/ (line.rts /\ ~v)]
    /\ UNCHANGED <<config, otg, raw, masked, rxfifo, fifo, wire, isr, main, client, host>>

(***************************************************************************)
(* Specification                                                           *)
(***************************************************************************)
Main == \/ otg_intr_attach \/ otg_target_intr_attach \/ usj_intr_attach \/ Poll \/ Work
        \/ usj_tx_one_char \/ usj_tx_flush \/ otg_tx_one_char \/ otg_tx_flush
        \/ handle_reset \/ target_handle_reset
Isr == \/ usj_IsrEnter \/ clear_intr_flags \/ callback_rx \/ read_byte \/ drained
       \/ callback_linestate
Host == HostAsk \/ HostSend \/ HostFetch \/ HostSetLine

Next == Main \/ Isr \/ Host

\* The processor runs, an interrupt that is let through is taken, and the host sends the
\* request it has begun and fetches packets.
Spec ==
    /\ Init /\ [][Next]_vars
    /\ WF_vars(Main) /\ WF_vars(Isr) /\ WF_vars(HostSend) /\ WF_vars(HostFetch)

(***************************************************************************)
(* Properties                                                              *)
(***************************************************************************)
\* Every byte that tx_one_char has accepted is with the host or still on its way to it,
\* once and in order, however slow the host is.
TxInOrder ==
    client.sent = host.got \o host.part \o FlattenSeq(wire) \o fifo \o s_cdcacm_txbuf

\* A host that fetches packets in time gets a reply to its request, to the last byte: no
\* packet's interrupt is lost, and what tx_flush leaves behind ends the transfer, also when
\* the reply fills its last packet.  A reset ends the conversation.
RequestAnswered ==
    host.waiting /\ ~slow ~> ~host.waiting \/ main.pc = "restarted"

\* The stub restarts if, and only if, the host has lowered RTS: no edge is missed while
\* interrupts are off, and no other line state is taken for one.
ResetOnFall ==
    /\ line.fell ~> main.pc = "restarted"
    /\ [](main.pc \in {"reset", "settle", "restarted"} => line.fell)
=============================================================================
