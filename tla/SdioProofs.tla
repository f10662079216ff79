----------------------------- MODULE SdioProofs -----------------------------
(***************************************************************************)
(* Proofs about SdioTransport, for every number of descriptors and frames  *)
(* and every set of environments.                                          *)
(***************************************************************************)
EXTENDS SdioTransport, TLAPS

(***************************************************************************)
(* The inductive invariant                                                 *)
(***************************************************************************)
\* A host that sends on after the ROM has lost its frame could write into a window that
\* rearm is about to set up anew.
Tame == "fetch_null" \in env.faults => ~env.rude

Between == main.pc \in {"arm_credits", "arm_set"}

\* Before stub_target_sdio_init nothing has happened.
InitInv ==
    main.pc = "init" =>
        /\ isr.pc = "off" /\ isr.snap = {} /\ ~s_rx_armed /\ ~s_rx_frame_ready /\ ~rx.running
        /\ host.frame = 0 /\ host.of = 0 /\ txq = <<>>

\* Where a frame is the client's
HeldInv ==
    /\ client.held # 0 <=> \/ main.pc \in {"process", "tx_send", "tx_wait", "tx_read"}
                           \/ main.pc \in ArmPcs /\ main.back = "tx_send"
    /\ client.held # 0 => client.held = 3 - client.cur /\ client.frame > 0
    /\ client.frame <= host.frame

\* Replies are to frames the client was handed.
TxqInv == \A i \in 1 .. Len(txq) : txq[i] <= client.frame

\* An open window: it begins with the frame the host is writing, or with a whole frame
\* that is not the client's yet.
Begun ==
    \/ rx.filled = 0 /\ host.done = host.of
    \/ /\ rx.filled = host.done /\ host.done < host.of
       /\ \A i \in 1 .. rx.filled :
             content[rx.buf][i] = [frame |-> host.frame, no |-> i, of |-> host.of]

Ended ==
    \E e \in Eofs : /\ \A j \in Eofs : e <= j
                    /\ OneFrame(rx.buf, e)
                    /\ content[rx.buf][e].frame = host.frame => host.done = host.of

WindowInv ==
    IF rx.running
    THEN /\ rx.buf = client.cur
         /\ \A i \in 1 .. rx.filled : content[rx.buf][i].frame \in client.frame + 1 .. host.frame
         /\ (Eofs = {} /\ Begun) \/ Ended
    ELSE host.done = 0 \/ host.done = host.of

\* A frame that is announced, and one that is being written, are new to the client; what
\* is announced and what is claimed is one whole frame.
AnnouncedInv ==
    /\ host.done < host.of => client.frame < host.frame
    /\ s_rx_frame_ready =>
          /\ OneFrame(client.cur, s_rx_received_len)
          /\ content[client.cur][1].frame \in client.frame + 1 .. host.frame
          /\ content[client.cur][1].frame = host.frame => host.done = host.of
    /\ client.held # 0 => OneFrame(client.held, client.len)

\* What the events mean, in the registers and in the handler's copy of them, and that a
\* window is open beside an announced frame only while the handler closes it
FlagInv ==
    main.pc # "init" =>
        /\ "TX_SUC_EOF" \in raw => rx.running /\ Eofs # {}
        /\ "TX_DSCR_EMPTY" \in raw => rx.running /\ rx.filled = Descs /\ host.done < host.of
        /\ isr.pc = "eof" /\ "TX_SUC_EOF" \in isr.snap => "TX_SUC_EOF" \in raw
        /\ isr.pc = "off" => isr.snap = {}
        /\ isr.pc = "reset" => rx.running /\ s_rx_frame_ready /\ (s_rx_armed \/ Between)
        /\ rx.running /\ s_rx_frame_ready => isr.pc = "reset" /\ s_rx_received_len <= rx.filled
        /\ main.pc = "claim" => s_rx_frame_ready /\ client.len = s_rx_received_len
        /\ main.pc = "arm_start" => ~s_rx_frame_ready

\* The window whose frame the ROM did not find: it still runs, but nothing comes
\* through it any more, because the host waits for an answer.
GivenUp == rx.running /\ ~s_rx_armed /\ ~Between

GivenUpInv ==
    /\ main.pc \in ArmPcs \ {"arm_armed"} => ~s_rx_armed
    /\ ~env.rude => \/ client.frame = host.frame
                    \/ host.waiting /\ client.frame = host.frame - 1
    /\ GivenUp => /\ ~env.rude /\ host.waiting /\ host.done = host.of
                  /\ client.frame < host.frame /\ ~s_rx_frame_ready
                  /\ "TX_SUC_EOF" \notin raw /\ "TX_DSCR_EMPTY" \notin raw

SdioInv ==
    /\ TypeOK /\ Tame /\ InitInv /\ HeldInv /\ TxqInv /\ WindowInv /\ AnnouncedInv /\ FlagInv
    /\ GivenUpInv

\* Without blocks between TXLINK_START and s_rx_armed, the window rearm has opened is
\* still open when it is marked as armed.
ListenInv ==
    env.slow =>
        /\ s_rx_armed => rx.running
        /\ Between => /\ rx.running /\ rx.filled = 0 /\ isr.pc # "reset"
                      /\ raw \cap {"TX_SUC_EOF", "TX_DSCR_EMPTY"} = {}
                      /\ isr.snap \cap {"TX_SUC_EOF", "TX_DSCR_EMPTY"} = {}

\* A reply that is fetched in time is fetched before tx_frame returns.
ReplyInv ==
    "tx_timeout" \notin env.faults =>
        IF main.pc = "tx_wait"
        THEN Len(txq) <= 1 /\ (txq # <<>> => raw \cap TxFlags = {})
        ELSE txq = <<>>

(***************************************************************************)
(* Facts about the operators                                               *)
(***************************************************************************)
\* The fetch takes the first descriptor with an eof.
LEMMA FetchedFirst ==
    ASSUME NEW e \in Eofs, \A j \in Eofs : e <= j, Eofs \subseteq Int
    PROVE  FetchedLen = e
  <1>1. FetchedLen \in Eofs /\ \A j \in Eofs : FetchedLen <= j
    BY DEF FetchedLen
  <1> QED BY <1>1, SMT

(***************************************************************************)
(* Initial states                                                          *)
(***************************************************************************)
LEMMA InitSdio == Init /\ Tame => SdioInv /\ ListenInv /\ ReplyInv
  <1> SUFFICES ASSUME Init, Tame PROVE SdioInv /\ ListenInv /\ ReplyInv
    OBVIOUS
  <1>1. TypeOK
    <2>1. content \in ContentType
      BY DEF Init, ContentType
    <2>2. txq \in Seq(Frames)
      BY DEF Init
    <2>3. rx \in RxType /\ credits \in 0 .. Descs /\ s_rx_received_len \in 0 .. Descs
      BY SdioAssumption DEF Init, RxType, Buffers
    <2>4. isr \in IsrType /\ main \in MainType
      BY DEF Init, IsrType, FlagType, MainType, MainPcs
    <2>5. client \in ClientType /\ host \in HostType
      BY SdioAssumption DEF Init, ClientType, HostType, Buffers
    <2>6. /\ env \in Environments /\ s_rx_armed \in BOOLEAN /\ s_rx_frame_ready \in BOOLEAN
          /\ raw \in FlagType
      BY Zenon DEF Init, FlagType
    <2> QED BY <2>1, <2>2, <2>3, <2>4, <2>5, <2>6 DEF TypeOK
  <1>2. InitInv /\ HeldInv /\ TxqInv
    BY DEF Init, InitInv, HeldInv, TxqInv, ArmPcs
  <1>3. WindowInv /\ AnnouncedInv /\ FlagInv /\ GivenUpInv
    BY DEF Init, WindowInv, AnnouncedInv, FlagInv, GivenUpInv, GivenUp, ArmPcs
  <1>4. ListenInv /\ ReplyInv
    BY DEF Init, ListenInv, ReplyInv, Between
  <1> QED BY <1>1, <1>2, <1>3, <1>4 DEF SdioInv

(***************************************************************************)
(* What the steps do                                                       *)
(***************************************************************************)
\* sdio_reset_from_host_window closes the window; a frame in transit counts as written.
LEMMA ResetFacts ==
    ASSUME TypeOK, NEW events, ResetWindow(events)
    PROVE  /\ rx' \in RxType /\ rx'.running = FALSE /\ rx'.filled = 0 /\ rx'.buf = rx.buf
           /\ raw' \in FlagType /\ raw' = raw \ events
           /\ s_rx_armed' = FALSE
           /\ host' \in HostType
           /\ host'.frame = host.frame /\ host'.of = host.of /\ host'.waiting = host.waiting
           /\ host'.done = host.done \/ host'.done = host.of
           /\ host'.done = 0 \/ host'.done = host'.of
  <1>1. /\ rx' \in RxType /\ rx'.running = FALSE /\ rx'.filled = 0 /\ rx'.buf = rx.buf
    <2>1. rx' = [rx EXCEPT !.running = FALSE, !.filled = 0]
      BY DEF ResetWindow
    <2>2. rx \in [running : BOOLEAN, buf : Buffers, filled : 0 .. Descs] /\ 0 \in 0 .. Descs
      BY SdioAssumption DEF TypeOK, RxType
    <2> QED BY <2>1, <2>2 DEF RxType
  <1>2. raw' \in FlagType /\ raw' = raw \ events /\ s_rx_armed' = FALSE
    BY Zenon DEF ResetWindow, TypeOK, FlagType
  <1>3. CASE host.done = 0
    BY <1>1, <1>2, <1>3 DEF ResetWindow, TypeOK
  <1>4. CASE host.done # 0
    <2>1. host' = [host EXCEPT !.done = host.of]
      BY <1>4 DEF ResetWindow
    <2>2. /\ host' \in HostType
          /\ host'.frame = host.frame /\ host'.of = host.of /\ host'.waiting = host.waiting
          /\ host'.done = host.of
      BY <2>1 DEF TypeOK, HostType
    <2> QED BY <1>1, <1>2, <2>2
  <1> QED BY <1>3, <1>4

\* A block goes into the next free descriptor and nowhere else.
LEMMA BlockFacts ==
    ASSUME TypeOK, HostBlock, host.frame > 0
    PROVE  /\ rx' \in RxType /\ rx'.running /\ rx'.filled = rx.filled + 1 /\ rx'.buf = rx.buf
           /\ rx.filled + 1 \in 1 .. Descs
           /\ raw' \in FlagType
           /\ host' \in HostType
           /\ host'.frame = host.frame /\ host'.of = host.of /\ host'.waiting = host.waiting
           /\ host'.done = host.done + 1
           /\ content' \in ContentType
           /\ \A b \in Buffers : \A i \in 1 .. Descs :
                content'[b][i] = IF b = rx.buf /\ i = rx.filled + 1
                                 THEN [frame |-> host.frame, no |-> host.done + 1, of |-> host.of]
                                 ELSE content[b][i]
           /\ credits' \in 0 .. Descs
  <1>1. /\ rx' \in RxType /\ rx'.running /\ rx'.filled = rx.filled + 1 /\ rx'.buf = rx.buf
        /\ rx.filled + 1 \in 1 .. Descs
    BY SdioAssumption DEF HostBlock, TypeOK, RxType
  <1>2. raw' \in FlagType
    BY DEF HostBlock, TypeOK, FlagType, RxFlags
  <1>3. /\ host' \in HostType
        /\ host'.frame = host.frame /\ host'.of = host.of /\ host'.waiting = host.waiting
        /\ host'.done = host.done + 1
    BY SdioAssumption DEF HostBlock, TypeOK, HostType
  <1>4. credits' \in 0 .. Descs
    BY SdioAssumption DEF HostBlock, TypeOK
  <1> DEFINE block == [frame |-> host.frame, no |-> host.done + 1, of |-> host.of]
  <1>5. block \in Blocks
    BY SdioAssumption DEF HostBlock, TypeOK, HostType, Blocks, Frames
  <1>6. content' = [content EXCEPT ![rx.buf] = [@ EXCEPT ![rx.filled + 1] = block]]
    BY DEF HostBlock
  <1>7. rx.buf \in Buffers
    BY DEF TypeOK, RxType
  <1> HIDE DEF block
  <1>8. /\ content' \in ContentType
        /\ \A b \in Buffers : \A i \in 1 .. Descs :
                content'[b][i] = IF b = rx.buf /\ i = rx.filled + 1 THEN block ELSE content[b][i]
    BY <1>1, <1>5, <1>6, <1>7 DEF TypeOK, ContentType
  <1> QED BY <1>1, <1>2, <1>3, <1>4, <1>8 DEF block

\* What the handler fetches when it has seen an eof: one whole frame
LEMMA FetchFacts ==
    ASSUME SdioInv, isr.pc = "eof", "TX_SUC_EOF" \in isr.snap
    PROVE  /\ main.pc # "init" /\ rx.running /\ rx.buf = client.cur /\ "TX_SUC_EOF" \in raw
           /\ FetchedLen \in 1 .. rx.filled /\ FetchedLen \in 0 .. Descs
           /\ OneFrame(client.cur, FetchedLen)
           /\ content[client.cur][1].frame \in client.frame + 1 .. host.frame
           /\ content[client.cur][1].frame = host.frame => host.done = host.of
           /\ Eofs # {}
  <1>1. main.pc # "init"
    BY DEF SdioInv, InitInv
  <1>2. /\ rx.running /\ Eofs # {} /\ rx.buf = client.cur /\ Ended /\ "TX_SUC_EOF" \in raw
        /\ \A i \in 1 .. rx.filled : content[rx.buf][i].frame \in client.frame + 1 .. host.frame
    BY <1>1 DEF SdioInv, FlagInv, WindowInv
  <1>3. PICK e \in Eofs : /\ \A j \in Eofs : e <= j
                          /\ OneFrame(rx.buf, e)
                          /\ content[rx.buf][e].frame = host.frame => host.done = host.of
    BY <1>2 DEF Ended
  <1>4. rx.filled \in Nat /\ rx.filled <= Descs
    BY SdioAssumption DEF SdioInv, TypeOK, RxType
  <1>5. e \in 1 .. rx.filled /\ Eofs \subseteq Int
    BY <1>4 DEF Eofs
  <1>6. FetchedLen = e
    BY <1>3, <1>5, FetchedFirst
  <1>7. content[rx.buf][e].frame = content[rx.buf][1].frame
    <2>1. e \in 1 .. e
      BY <1>4, <1>5
    <2>2. content[rx.buf][e] = [frame |-> content[rx.buf][1].frame, no |-> e, of |-> e]
      BY <1>3, <2>1 DEF OneFrame
    <2> QED BY <2>2
  <1>8. 1 \in 1 .. rx.filled
    BY <1>4, <1>5
  <1>9. e \in 0 .. Descs
    BY SdioAssumption, <1>4, <1>5
  <1> QED BY <1>1, <1>2, <1>3, <1>5, <1>6, <1>7, <1>8, <1>9

\* What the client gets: the frame that was announced, which is new to it.
LEMMA ClaimFacts ==
    ASSUME SdioInv, TakeClaim
    PROVE  /\ client' \in ClientType
           /\ client'.cur = 3 - client.cur /\ client'.held = client.cur
           /\ client'.cur \in Buffers /\ client'.held \in Buffers
           /\ client'.len = s_rx_received_len
           /\ client'.frame = content[client.cur][1].frame
           /\ client'.frame \in client.frame + 1 .. host.frame
           /\ client'.frame = host.frame => host.done = host.of
           /\ OneFrame(client.cur, client'.len)
           /\ s_rx_frame_ready /\ ~rx.running
  <1>1. /\ s_rx_frame_ready /\ client.len = s_rx_received_len /\ ~rx.running
        /\ OneFrame(client.cur, s_rx_received_len)
        /\ content[client.cur][1].frame \in client.frame + 1 .. host.frame
        /\ content[client.cur][1].frame = host.frame => host.done = host.of
    BY DEF SdioInv, AnnouncedInv, FlagInv, TakeClaim, Running
  <1>2. client.cur \in Buffers /\ 3 - client.cur \in Buffers
    BY DEF SdioInv, TypeOK, ClientType, Buffers
  <1>3. content[client.cur][1].frame \in 0 .. MaxFrames
    BY <1>1, SdioAssumption DEF SdioInv, TypeOK, ClientType, HostType
  <1>4. client' = [client EXCEPT !.held = client.cur, !.cur = 3 - client.cur,
                                 !.frame = content[client.cur][1].frame]
    BY DEF TakeClaim
  <1>5. /\ client' \in ClientType
        /\ client'.cur = 3 - client.cur /\ client'.held = client.cur
        /\ client'.len = client.len
        /\ client'.frame = content[client.cur][1].frame
    BY <1>2, <1>3, <1>4 DEF SdioInv, TypeOK, ClientType
  <1> QED BY <1>1, <1>2, <1>5

\* What the DMA has to send after tx_frame has filled in its descriptor: the new reply,
\* after replies of before that it had begun.
LEMMA SendFacts ==
    ASSUME SdioInv, TxSend
    PROVE  /\ txq' \in Seq(Frames) /\ client' = client
           /\ \A i \in 1 .. Len(txq') : txq'[i] <= client.frame
           /\ txq = <<>> => Len(txq') = 1
  <1>1. client.frame \in Frames /\ client.frame \in Nat /\ txq \in Seq(Frames)
    BY DEF TxSend, Running, SdioInv, TypeOK, HeldInv, ClientType, Frames
  <1>2. PICK begun \in 0 .. Len(txq) : \E total \in begun + 1 .. Len(txq) + 1 :
            txq' = [i \in 1 .. total |-> IF i <= begun THEN txq[i] ELSE client.frame]
    BY DEF TxSend
  <1>3. PICK total \in begun + 1 .. Len(txq) + 1 :
            txq' = [i \in 1 .. total |-> IF i <= begun THEN txq[i] ELSE client.frame]
    BY <1>2
  <1>4. total \in Nat /\ begun \in Nat /\ Len(txq) \in Nat /\ begun <= Len(txq)
    BY <1>1, <1>2, <1>3
  <1>5. \A i \in 1 .. Len(txq) : txq[i] \in Frames /\ txq[i] <= client.frame
    BY <1>1 DEF SdioInv, TxqInv
  <1>6. ASSUME NEW i \in 1 .. total
        PROVE  txq'[i] \in Frames /\ txq'[i] <= client.frame
    <2>1. CASE i <= begun
      <3>1. i \in 1 .. Len(txq)
        BY <1>4, <1>6, <2>1
      <3> QED BY <1>3, <1>5, <2>1, <3>1
    <2>2. CASE ~(i <= begun)
      BY <1>1, <1>3, <2>2
    <2> QED BY <2>1, <2>2
  <1>7. txq' \in Seq(Frames) /\ Len(txq') = total
    <2>1. txq' = [i \in 1 .. total |-> txq'[i]]
      BY <1>3
    <2> QED BY <1>4, <1>6, <2>1
  <1>8. txq = <<>> => total = 1
    BY <1>2, <1>3, <1>4
  <1>9. client' = client
    BY DEF TxSend
  <1> QED BY <1>6, <1>7, <1>8, <1>9

\* Every step keeps the types.
LEMMA TypeStep ==
    ASSUME SdioInv, Next
    PROVE  TypeOK'
  <1> USE SdioAssumption DEF SdioInv, TypeOK
  <1>0. env' = env
    BY DEF Next
  <1>1. CASE stub_target_sdio_init
    <2>1. /\ rx' \in RxType /\ raw' \in FlagType /\ s_rx_armed' = FALSE
          /\ host' \in HostType
      BY <1>1, ResetFacts DEF stub_target_sdio_init
    <2>2. credits' \in 0 .. Descs /\ s_rx_received_len' \in 0 .. Descs /\ main' \in MainType
      BY <1>1 DEF stub_target_sdio_init, MainType, MainPcs, ArmPcs
    <2> QED BY <1>0, <1>1, <2>1, <2>2 DEF stub_target_sdio_init
  <1>2. CASE RearmTestArmed
    BY <1>0, <1>2 DEF RearmTestArmed, Running, Goto, MainType, MainPcs, ArmPcs, driver
  <1>3. CASE RearmTestReady
    BY <1>0, <1>3 DEF RearmTestReady, Running, Goto, MainType, MainPcs, ArmPcs, driver
  <1>4. CASE RearmStart
    BY <1>0, <1>4 DEF RearmStart, Running, Goto, RxType, MainType, MainPcs, ClientType, ArmPcs,
       driver
  <1>5. CASE RearmCredits
    BY <1>0, <1>5 DEF RearmCredits, Running, Goto, MainType, MainPcs, ArmPcs, driver
  <1>6. CASE RearmSetArmed
    BY <1>0, <1>6 DEF RearmSetArmed, Running, Goto, MainType, MainPcs, driver
  <1>7. CASE TakeTest
    BY <1>0, <1>7 DEF TakeTest, Running, Goto, MainType, MainPcs, ArmPcs, ClientType, driver
  <1>8. CASE TakeClaim
    <2>1. main' \in MainType
      BY <1>8 DEF TakeClaim, Goto, MainType, MainPcs
    <2> QED BY <1>0, <1>8, <2>1, ClaimFacts DEF TakeClaim
  <1>9. CASE ClientProcess
    BY <1>0, <1>9 DEF ClientProcess, Running, Goto, MainType, MainPcs, ArmPcs, driver
  <1>10. CASE TxSend
    <2>1. txq' \in Seq(Frames)
      BY <1>10, SendFacts
    <2> QED BY <1>0, <1>10, <2>1 DEF TxSend, Running, Goto, MainType, MainPcs, FlagType, driver
  <1>11. CASE TxWait
    BY <1>0, <1>11 DEF TxWait, Running, Goto, TxReturn, MainType, MainPcs, ArmPcs, ClientType,
       driver
  <1>12. CASE TxRead
    BY <1>0, <1>12 DEF TxRead, Running, TxReturn, MainType, MainPcs, ArmPcs, ClientType,
       FlagType, driver
  <1>13. CASE IsrEnter
    BY <1>0, <1>13 DEF IsrEnter, IsrType, driver
  <1>14. CASE IsrNoEof
    BY <1>0, <1>14 DEF IsrNoEof, IsrGoto, IsrType, driver
  <1>15. CASE IsrFetchNull
    BY <1>0, <1>15 DEF IsrFetchNull, IsrGoto, IsrType, FlagType, driver
  <1>16. CASE IsrFetch
    <2>1. s_rx_received_len' \in 0 .. Descs
      BY <1>16, FetchFacts DEF IsrFetch
    <2> QED BY <1>0, <1>16, <2>1 DEF IsrFetch, IsrGoto, IsrType, FlagType
  <1>17. CASE IsrReset
    <2>1. /\ rx' \in RxType /\ raw' \in FlagType /\ s_rx_armed' = FALSE
          /\ host' \in HostType
      BY <1>17, ResetFacts DEF IsrReset
    <2> QED BY <1>0, <1>17, <2>1 DEF IsrReset, IsrGoto, IsrType
  <1>18. CASE IsrClearErrors
    BY <1>0, <1>18 DEF IsrClearErrors, IsrGoto, IsrType, FlagType, driver
  <1>19. CASE IsrEmpty
    <2>1. CASE "TX_DSCR_EMPTY" \in isr.snap
      <3>1. /\ rx' \in RxType /\ raw' \in FlagType /\ s_rx_armed' = FALSE
            /\ host' \in HostType
        BY <1>19, <2>1, ResetFacts DEF IsrEmpty
      <3> QED BY <1>0, <1>19, <3>1 DEF IsrEmpty, IsrType, FlagType
    <2>2. CASE "TX_DSCR_EMPTY" \notin isr.snap
      BY <1>0, <1>19, <2>2 DEF IsrEmpty, IsrType, FlagType
    <2> QED BY <2>1, <2>2
  <1>20. CASE HostBegin
    BY <1>0, <1>20 DEF HostBegin, HostType, driver
  <1>21. CASE HostBlock
    <2>1. host.frame > 0
      BY <1>21 DEF HostBlock, AnnouncedInv, ClientType, HostType
    <2> QED BY <1>0, <1>21, <2>1, BlockFacts DEF HostBlock, driver
  <1>22. CASE HostBlockNoDesc
    BY <1>0, <1>22 DEF HostBlockNoDesc, MayWrite, FlagType, RxFlags, driver
  <1>23. CASE HostRead
    <2>1. host' \in HostType
      BY <1>23 DEF HostRead, HostType
    <2>2. txq' \in Seq(Frames)
      BY <1>23 DEF HostRead
    <2> QED BY <1>0, <1>23, <2>1, <2>2 DEF HostRead, FlagType, TxFlags, driver
  <1>24. CASE HostGivesUp
    BY <1>0, <1>24 DEF HostGivesUp, HostType, driver
  <1>25. CASE DmaRxError
    BY <1>0, <1>25 DEF DmaRxError, MayWrite, FlagType, RxFlags, driver
  <1>26. CASE DmaTxError
    BY <1>0, <1>26 DEF DmaTxError, FlagType, TxFlags, driver
  <1> QED
    BY <1>1, <1>2, <1>3, <1>4, <1>5, <1>6, <1>7, <1>8, <1>9, <1>10, <1>11, <1>12, <1>13, <1>14,
       <1>15, <1>16, <1>17, <1>18, <1>19, <1>20, <1>21, <1>22, <1>23, <1>24, <1>25, <1>26
       DEF Next, Main, rearm, take_rx_frame, tx_frame, sdio_slc_isr, Host, Dma

\* Nothing happens before stub_target_sdio_init.
LEMMA InitStep ==
    ASSUME SdioInv, TypeOK', Next
    PROVE  InitInv'
  <1> USE SdioAssumption DEF SdioInv, TypeOK
  <1>0. env' = env
    BY DEF Next
  <1>1. CASE stub_target_sdio_init
    BY <1>0, <1>1, ResetFacts DEF stub_target_sdio_init, Running, MainType, InitInv, ArmPcs
  <1>2. CASE RearmTestArmed
    BY <1>0, <1>2 DEF RearmTestArmed, Running, Goto, MainType, InitInv, ArmPcs, driver
  <1>3. CASE RearmTestReady
    BY <1>0, <1>3 DEF RearmTestReady, Running, Goto, MainType, InitInv, ArmPcs, driver
  <1>4. CASE RearmStart
    BY <1>0, <1>4 DEF RearmStart, Running, Goto, MainType, RxType, ClientType, InitInv, ArmPcs,
       driver
  <1>5. CASE RearmCredits
    BY <1>0, <1>5 DEF RearmCredits, Running, Goto, MainType, InitInv, ArmPcs, driver
  <1>6. CASE RearmSetArmed
    BY <1>0, <1>6 DEF RearmSetArmed, Running, Goto, MainType, InitInv, ArmPcs, driver
  <1>7. CASE TakeTest
    BY <1>0, <1>7 DEF TakeTest, Running, Goto, MainType, ClientType, InitInv, ArmPcs, driver
  <1>8. CASE TakeClaim
    BY <1>0, <1>8 DEF TakeClaim, Running, Goto, MainType, ClientType, InitInv, ArmPcs, driver
  <1>9. CASE ClientProcess
    BY <1>0, <1>9 DEF ClientProcess, Running, Goto, MainType, InitInv, ArmPcs, driver
  <1>10. CASE TxSend
    BY <1>0, <1>10 DEF TxSend, Running, Goto, MainType, InitInv, ArmPcs, driver
  <1>11. CASE TxWait
    BY <1>0, <1>11 DEF TxWait, Running, Goto, TxReturn, MainType, ClientType, InitInv, ArmPcs,
       driver
  <1>12. CASE TxRead
    BY <1>0, <1>12 DEF TxRead, Running, TxReturn, MainType, ClientType, InitInv, ArmPcs, driver
  <1>13. CASE IsrEnter
    BY <1>0, <1>13 DEF IsrEnter, IsrType, InitInv, MainType, ArmPcs, driver
  <1>14. CASE IsrNoEof
    BY <1>0, <1>14 DEF IsrNoEof, IsrGoto, IsrType, InitInv, MainType, ArmPcs, driver
  <1>15. CASE IsrFetchNull
    BY <1>0, <1>15 DEF IsrFetchNull, IsrGoto, IsrType, InitInv, MainType, ArmPcs, driver
  <1>16. CASE IsrFetch
    BY <1>0, <1>16 DEF IsrFetch, IsrGoto, IsrType, InitInv, MainType, ArmPcs, driver
  <1>17. CASE IsrReset
    BY <1>0, <1>17, ResetFacts DEF IsrReset, IsrGoto, IsrType, InitInv, MainType, ArmPcs
  <1>18. CASE IsrClearErrors
    BY <1>0, <1>18 DEF IsrClearErrors, IsrGoto, IsrType, InitInv, MainType, ArmPcs, driver
  <1>19. CASE IsrEmpty
    BY <1>0, <1>19, ResetFacts DEF IsrEmpty, IsrType, InitInv, MainType, ArmPcs
  <1>20. CASE HostBegin
    BY <1>0, <1>20 DEF HostBegin, HostType, InitInv, MainType, ArmPcs, driver
  <1>21. CASE HostBlock
    BY <1>0, <1>21 DEF HostBlock, MayWrite, HostType, RxType, InitInv, MainType, ArmPcs, driver
  <1>22. CASE HostBlockNoDesc
    BY <1>0, <1>22 DEF HostBlockNoDesc, MayWrite, InitInv, MainType, ArmPcs, driver
  <1>23. CASE HostRead
    BY <1>0, <1>23 DEF HostRead, HostType, InitInv, MainType, ArmPcs, driver
  <1>24. CASE HostGivesUp
    BY <1>0, <1>24 DEF HostGivesUp, HostType, InitInv, MainType, ArmPcs, driver
  <1>25. CASE DmaRxError
    BY <1>0, <1>25 DEF DmaRxError, MayWrite, InitInv, MainType, ArmPcs, driver
  <1>26. CASE DmaTxError
    BY <1>0, <1>26 DEF DmaTxError, InitInv, MainType, ArmPcs, driver
  <1> QED
    BY <1>1, <1>2, <1>3, <1>4, <1>5, <1>6, <1>7, <1>8, <1>9, <1>10, <1>11, <1>12, <1>13, <1>14,
       <1>15, <1>16, <1>17, <1>18, <1>19, <1>20, <1>21, <1>22, <1>23, <1>24, <1>25, <1>26 DEF
       Next, Main, rearm, take_rx_frame, tx_frame, sdio_slc_isr, Host, Dma

\* The client has a frame from take_rx_frame to the end of tx_frame.
LEMMA HeldStep ==
    ASSUME SdioInv, TypeOK', Next
    PROVE  HeldInv'
  <1> USE SdioAssumption DEF SdioInv, TypeOK
  <1>0. env' = env
    BY DEF Next
  <1>1. CASE stub_target_sdio_init
    BY <1>0, <1>1, ResetFacts DEF stub_target_sdio_init, Running, MainType, HeldInv, ClientType,
       HostType, ArmPcs, MainPcs, Buffers
  <1>2. CASE RearmTestArmed
    BY <1>0, <1>2 DEF RearmTestArmed, Running, Goto, MainType, HeldInv, ClientType, HostType,
       ArmPcs, MainPcs, Buffers, driver
  <1>3. CASE RearmTestReady
    BY <1>0, <1>3 DEF RearmTestReady, Running, Goto, MainType, HeldInv, ClientType, HostType,
       ArmPcs, MainPcs, Buffers, driver
  <1>4. CASE RearmStart
    BY <1>0, <1>4 DEF RearmStart, Running, Goto, MainType, RxType, ClientType, HeldInv, HostType,
       ArmPcs, MainPcs, Buffers, driver
  <1>5. CASE RearmCredits
    BY <1>0, <1>5 DEF RearmCredits, Running, Goto, MainType, HeldInv, ClientType, HostType,
       ArmPcs, MainPcs, Buffers, driver
  <1>6. CASE RearmSetArmed
    BY <1>0, <1>6 DEF RearmSetArmed, Running, Goto, MainType, HeldInv, ClientType, HostType,
       ArmPcs, MainPcs, Buffers, driver
  <1>7. CASE TakeTest
    BY <1>0, <1>7, SMTT(30) DEF TakeTest, Running, Goto, MainType, ClientType, HeldInv, HostType,
       ArmPcs,
       MainPcs, Buffers, driver
  <1>8. CASE TakeClaim
    <2>1. main'.pc = "process"
      BY <1>8 DEF TakeClaim, Goto, MainType
    <2>2. client.frame \in Nat /\ host.frame \in Nat /\ client.cur \in {1, 2} /\ host' = host
      BY <1>8 DEF ClientType, HostType, Buffers, TakeClaim
    <2>3. /\ client'.cur = 3 - client.cur /\ client'.held = client.cur
          /\ client'.frame \in client.frame + 1 .. host.frame
      BY <1>8, ClaimFacts
    <2> HIDE DEF SdioInv, TypeOK
    <2> QED BY <2>1, <2>2, <2>3 DEF HeldInv
  <1>9. CASE ClientProcess
    BY <1>0, <1>9 DEF ClientProcess, Running, Goto, MainType, HeldInv, ClientType, HostType,
       ArmPcs, MainPcs, Buffers, driver
  <1>10. CASE TxSend
    BY <1>0, <1>10 DEF TxSend, Running, Goto, MainType, HeldInv, ClientType, HostType, ArmPcs,
       MainPcs, Buffers, driver
  <1>11. CASE TxWait
    BY <1>0, <1>11, SMTT(30) DEF TxWait, Running, Goto, TxReturn, MainType, ClientType, HeldInv,
       HostType,
       ArmPcs, MainPcs, Buffers, driver
  <1>12. CASE TxRead
    BY <1>0, <1>12 DEF TxRead, Running, TxReturn, MainType, ClientType, HeldInv, HostType,
       ArmPcs, MainPcs, Buffers, driver
  <1>13. CASE IsrEnter
    BY <1>0, <1>13 DEF IsrEnter, IsrType, HeldInv, MainType, ClientType, HostType, ArmPcs,
       MainPcs, Buffers, driver
  <1>14. CASE IsrNoEof
    BY <1>0, <1>14 DEF IsrNoEof, IsrGoto, IsrType, HeldInv, MainType, ClientType, HostType,
       ArmPcs, MainPcs, Buffers, driver
  <1>15. CASE IsrFetchNull
    BY <1>0, <1>15 DEF IsrFetchNull, IsrGoto, IsrType, HeldInv, MainType, ClientType, HostType,
       ArmPcs, MainPcs, Buffers, driver
  <1>16. CASE IsrFetch
    BY <1>0, <1>16 DEF IsrFetch, IsrGoto, IsrType, HeldInv, MainType, ClientType, HostType,
       ArmPcs, MainPcs, Buffers, driver
  <1>17. CASE IsrReset
    BY <1>0, <1>17, ResetFacts DEF IsrReset, IsrGoto, IsrType, HeldInv, MainType, ClientType,
       HostType, ArmPcs, MainPcs, Buffers
  <1>18. CASE IsrClearErrors
    BY <1>0, <1>18 DEF IsrClearErrors, IsrGoto, IsrType, HeldInv, MainType, ClientType, HostType,
       ArmPcs, MainPcs, Buffers, driver
  <1>19. CASE IsrEmpty
    BY <1>0, <1>19, ResetFacts DEF IsrEmpty, IsrType, HeldInv, MainType, ClientType, HostType,
       ArmPcs, MainPcs, Buffers
  <1>20. CASE HostBegin
    BY <1>0, <1>20 DEF HostBegin, HostType, HeldInv, MainType, ClientType, ArmPcs, MainPcs,
       Buffers, driver
  <1>21. CASE HostBlock
    BY <1>0, <1>21 DEF HostBlock, MayWrite, HostType, RxType, HeldInv, MainType, ClientType,
       ArmPcs, MainPcs, Buffers, driver
  <1>22. CASE HostBlockNoDesc
    BY <1>0, <1>22 DEF HostBlockNoDesc, MayWrite, HeldInv, MainType, ClientType, HostType,
       ArmPcs, MainPcs, Buffers, driver
  <1>23. CASE HostRead
    BY <1>0, <1>23 DEF HostRead, HostType, HeldInv, MainType, ClientType, ArmPcs, MainPcs,
       Buffers, driver
  <1>24. CASE HostGivesUp
    BY <1>0, <1>24 DEF HostGivesUp, HostType, HeldInv, MainType, ClientType, ArmPcs, MainPcs,
       Buffers, driver
  <1>25. CASE DmaRxError
    BY <1>0, <1>25 DEF DmaRxError, MayWrite, HeldInv, MainType, ClientType, HostType, ArmPcs,
       MainPcs, Buffers, driver
  <1>26. CASE DmaTxError
    BY <1>0, <1>26 DEF DmaTxError, HeldInv, MainType, ClientType, HostType, ArmPcs, MainPcs,
       Buffers, driver
  <1> QED
    BY <1>1, <1>2, <1>3, <1>4, <1>5, <1>6, <1>7, <1>8, <1>9, <1>10, <1>11, <1>12, <1>13, <1>14,
       <1>15, <1>16, <1>17, <1>18, <1>19, <1>20, <1>21, <1>22, <1>23, <1>24, <1>25, <1>26 DEF
       Next, Main, rearm, take_rx_frame, tx_frame, sdio_slc_isr, Host, Dma

\* Replies are to frames the client was handed.
LEMMA TxqStep ==
    ASSUME SdioInv, TypeOK', Next
    PROVE  TxqInv'
  <1> USE SdioAssumption DEF SdioInv, TypeOK
  <1>0. env' = env
    BY DEF Next
  <1>1. CASE stub_target_sdio_init
    BY <1>0, <1>1, ResetFacts DEF stub_target_sdio_init, Running, MainType, TxqInv, ClientType
  <1>2. CASE RearmTestArmed
    BY <1>0, <1>2 DEF RearmTestArmed, Running, Goto, MainType, TxqInv, ClientType, driver
  <1>3. CASE RearmTestReady
    BY <1>0, <1>3 DEF RearmTestReady, Running, Goto, MainType, TxqInv, ClientType, driver
  <1>4. CASE RearmStart
    BY <1>0, <1>4 DEF RearmStart, Running, Goto, MainType, RxType, ClientType, TxqInv, driver
  <1>5. CASE RearmCredits
    BY <1>0, <1>5 DEF RearmCredits, Running, Goto, MainType, TxqInv, ClientType, driver
  <1>6. CASE RearmSetArmed
    BY <1>0, <1>6 DEF RearmSetArmed, Running, Goto, MainType, TxqInv, ClientType, driver
  <1>7. CASE TakeTest
    BY <1>0, <1>7 DEF TakeTest, Running, Goto, MainType, ClientType, TxqInv, driver
  <1>8. CASE TakeClaim
    <2>1. client'.frame >= client.frame
      BY <1>8, ClaimFacts, SMTT(30) DEF ClientType, HostType
    <2>2. \A i \in 1 .. Len(txq) : txq[i] \in Nat
      BY DEF Frames
    <2>3. txq' = txq /\ client.frame \in Nat /\ TxqInv
      BY <1>8 DEF TakeClaim, ClientType
    <2>4. client' \in ClientType
      BY <1>8, ClaimFacts
    <2>5. client'.frame \in Nat
      BY <2>4 DEF ClientType
    <2> HIDE DEF SdioInv, TypeOK
    <2> QED BY <2>1, <2>2, <2>3, <2>5 DEF TxqInv
  <1>9. CASE ClientProcess
    BY <1>0, <1>9 DEF ClientProcess, Running, Goto, MainType, TxqInv, ClientType, driver
  <1>10. CASE TxSend
    BY <1>10, SendFacts DEF TxqInv
  <1>11. CASE TxWait
    BY <1>0, <1>11 DEF TxWait, Running, Goto, TxReturn, MainType, ClientType, TxqInv, driver
  <1>12. CASE TxRead
    BY <1>0, <1>12 DEF TxRead, Running, TxReturn, MainType, ClientType, TxqInv, driver
  <1>13. CASE IsrEnter
    BY <1>0, <1>13 DEF IsrEnter, IsrType, TxqInv, ClientType, driver
  <1>14. CASE IsrNoEof
    BY <1>0, <1>14 DEF IsrNoEof, IsrGoto, IsrType, TxqInv, ClientType, driver
  <1>15. CASE IsrFetchNull
    BY <1>0, <1>15 DEF IsrFetchNull, IsrGoto, IsrType, TxqInv, ClientType, driver
  <1>16. CASE IsrFetch
    BY <1>0, <1>16 DEF IsrFetch, IsrGoto, IsrType, TxqInv, ClientType, driver
  <1>17. CASE IsrReset
    BY <1>0, <1>17, ResetFacts DEF IsrReset, IsrGoto, IsrType, TxqInv, ClientType
  <1>18. CASE IsrClearErrors
    BY <1>0, <1>18 DEF IsrClearErrors, IsrGoto, IsrType, TxqInv, ClientType, driver
  <1>19. CASE IsrEmpty
    BY <1>0, <1>19, ResetFacts DEF IsrEmpty, IsrType, TxqInv, ClientType
  <1>20. CASE HostBegin
    BY <1>0, <1>20 DEF HostBegin, HostType, TxqInv, ClientType, driver
  <1>21. CASE HostBlock
    BY <1>0, <1>21 DEF HostBlock, MayWrite, HostType, RxType, TxqInv, ClientType, driver
  <1>22. CASE HostBlockNoDesc
    BY <1>0, <1>22 DEF HostBlockNoDesc, MayWrite, TxqInv, ClientType, driver
  <1>23. CASE HostRead
    <2>1. txq # <<>> /\ txq' = Tail(txq) /\ client' = client
      BY <1>23 DEF HostRead
    <2>2. /\ Len(txq') = Len(txq) - 1
          /\ \A i \in 1 .. Len(txq') : i + 1 \in 1 .. Len(txq) /\ txq'[i] = txq[i + 1]
      BY <2>1
    <2> QED BY <2>1, <2>2 DEF TxqInv
  <1>24. CASE HostGivesUp
    BY <1>0, <1>24 DEF HostGivesUp, HostType, TxqInv, ClientType, driver
  <1>25. CASE DmaRxError
    BY <1>0, <1>25 DEF DmaRxError, MayWrite, TxqInv, ClientType, driver
  <1>26. CASE DmaTxError
    BY <1>0, <1>26 DEF DmaTxError, TxqInv, ClientType, driver
  <1> QED
    BY <1>1, <1>2, <1>3, <1>4, <1>5, <1>6, <1>7, <1>8, <1>9, <1>10, <1>11, <1>12, <1>13, <1>14,
       <1>15, <1>16, <1>17, <1>18, <1>19, <1>20, <1>21, <1>22, <1>23, <1>24, <1>25, <1>26 DEF
       Next, Main, rearm, take_rx_frame, tx_frame, sdio_slc_isr, Host, Dma

\* A step that leaves the descriptors, the buffers, the host's frame and the client's
\* alone leaves the window as it is.
LEMMA WindowSame ==
    ASSUME WindowInv, rx' = rx, content' = content,
           host'.frame = host.frame, host'.of = host.of, host'.done = host.done,
           client'.cur = client.cur, client'.frame = client.frame
    PROVE  WindowInv'
  <1>1. Eofs' = Eofs
    BY DEF Eofs
  <1>2. Begun' <=> Begun
    BY DEF Begun
  <1>3. Ended' <=> Ended
    BY <1>1 DEF Ended, OneFrame
  <1> QED BY <1>1, <1>2, <1>3 DEF WindowInv

\* A closed window, with the host between two frames
LEMMA WindowClosed ==
    ASSUME ~rx'.running, host'.done = 0 \/ host'.done = host'.of
    PROVE  WindowInv'
  BY DEF WindowInv

\* A block continues the frame at the head of the window, ends it, or comes after it.
LEMMA BlockWindow ==
    ASSUME SdioInv, HostBlock
    PROVE  WindowInv'
  <1> DEFINE b == rx.buf
             block == [frame |-> host.frame, no |-> host.done + 1, of |-> host.of]
  <1>1. /\ TypeOK /\ WindowInv /\ rx.running /\ host.done < host.of
        /\ client.frame < host.frame /\ client' = client
    BY DEF SdioInv, AnnouncedInv, HostBlock
  <1>2. /\ host.frame \in Nat /\ host.of \in Nat /\ host.done \in Nat /\ rx.filled \in Nat
        /\ client.frame \in Nat /\ host.frame > 0 /\ b \in Buffers /\ Descs \in Nat
    BY <1>1, SdioAssumption DEF TypeOK, HostType, RxType, ClientType
  <1>k. PICK k \in Nat : k = rx.filled + 1
    BY <1>2
  <1>3. /\ rx'.running /\ rx'.filled = k /\ rx'.buf = b /\ k \in 1 .. Descs
        /\ host'.frame = host.frame /\ host'.of = host.of /\ host'.done = host.done + 1
        /\ content'[b][k] = block
        /\ \A i \in 1 .. rx.filled : content'[b][i] = content[b][i]
    BY <1>1, <1>2, <1>k, BlockFacts
  <1>4. /\ b = client.cur
        /\ \A i \in 1 .. rx.filled : content[b][i].frame \in client.frame + 1 .. host.frame
        /\ (Eofs = {} /\ Begun) \/ Ended
    BY <1>1 DEF WindowInv
  <1>5. \A i \in 1 .. k : content'[b][i].frame \in client.frame + 1 .. host.frame
    <2>1. block.frame \in client.frame + 1 .. host.frame
      BY <1>1, <1>2, <1>k
    <2>2. \A i \in 1 .. k : i = k \/ i \in 1 .. rx.filled
      BY <1>2, <1>k
    <2> QED BY <1>3, <1>4, <2>1, <2>2
  <1>6. Eofs' = Eofs \cup (IF host.done + 1 = host.of THEN {k} ELSE {})
    <2>1. 1 .. k = (1 .. rx.filled) \cup {k}
      BY <1>2, <1>k
    <2>2. content'[b][k].no = content'[b][k].of <=> host.done + 1 = host.of
      BY <1>3
    <2>3. Eofs = {i \in 1 .. rx.filled : content'[b][i].no = content'[b][i].of}
      BY <1>3 DEF Eofs
    <2>4. Eofs' = {i \in 1 .. k : content'[b][i].no = content'[b][i].of}
      BY <1>3 DEF Eofs
    <2> HIDE DEF b, block
    <2> QED BY <2>1, <2>2, <2>3, <2>4
  <1>7. Eofs \subseteq 1 .. rx.filled
    BY DEF Eofs
  <1>8. CASE Eofs = {} /\ Begun
    <2>1. /\ rx.filled = host.done
          /\ \A i \in 1 .. rx.filled :
                content[b][i] = [frame |-> host.frame, no |-> i, of |-> host.of]
      BY <1>1, <1>2, <1>k, <1>8 DEF Begun
    <2>2. \A i \in 1 .. k :
             content'[b][i] = [frame |-> host.frame, no |-> i, of |-> host.of]
      <3>1. \A i \in 1 .. k : i = k \/ i \in 1 .. rx.filled
        BY <1>2, <1>k
      <3>2. block = [frame |-> host.frame, no |-> k, of |-> host.of]
        BY <1>2, <1>k, <2>1
      <3> QED BY <1>3, <2>1, <3>1, <3>2
    <2>3. CASE host.done + 1 < host.of
      <3>1. Eofs' = {}
        BY <1>2, <1>k, <1>6, <1>8, <2>3
      <3>2. Begun'
        BY <1>2, <1>k, <1>3, <2>1, <2>2, <2>3 DEF Begun
      <3> QED BY <1>1, <1>3, <1>4, <1>5, <3>1, <3>2 DEF WindowInv
    <2>4. CASE host.done + 1 = host.of
      <3>1. Eofs' = {k} /\ k = host.of
        BY <1>2, <1>k, <1>6, <1>8, <2>1, <2>4
      <3>2. OneFrame(rx.buf, k)'
        <4>1. 1 \in 1 .. k /\ k > 0
          BY <1>3
        <4>2. content'[b][1] = [frame |-> host.frame, no |-> 1, of |-> host.of]
          BY <2>2, <4>1
        <4>3. content'[b][1].frame = host.frame
          BY <4>2
        <4> QED BY <1>3, <2>2, <3>1, <4>1, <4>3 DEF OneFrame
      <3>3. Ended'
        BY <1>2, <1>k, <1>3, <2>4, <3>1, <3>2 DEF Ended
      <3> QED BY <1>1, <1>3, <1>4, <1>5, <3>3 DEF WindowInv
    <2> QED BY <1>1, <1>2, <1>k, <2>3, <2>4
  <1>9. CASE Ended
    <2>1. PICK e \in Eofs : /\ \A j \in Eofs : e <= j
                            /\ OneFrame(b, e)
                            /\ content[b][e].frame = host.frame => host.done = host.of
      BY <1>9 DEF Ended
    <2>2. e \in 1 .. rx.filled /\ content[b][e].frame # host.frame
      BY <1>1, <1>2, <1>k, <1>7, <2>1
    <2>3. e \in Eofs' /\ \A j \in Eofs' : e <= j
      BY <1>2, <1>k, <1>6, <2>1, <2>2
    <2>4. \A i \in 1 .. e : content'[b][i] = content[b][i] /\ content'[b][1] = content[b][1]
      BY <1>2, <1>k, <1>3, <2>2
    <2>5. OneFrame(rx.buf, e)'
      BY <1>3, <2>1, <2>4 DEF OneFrame
    <2>6. content'[rx'.buf][e].frame # host'.frame
      BY <1>2, <1>k, <1>3, <2>2
    <2>7. Ended'
      BY <2>3, <2>5, <2>6 DEF Ended
    <2> QED BY <1>1, <1>3, <1>4, <1>5, <2>7 DEF WindowInv
  <1> QED BY <1>4, <1>8, <1>9

\* The window stays as described.
LEMMA WindowStep ==
    ASSUME SdioInv, TypeOK', Next
    PROVE  WindowInv'
  <1> USE SdioAssumption DEF SdioInv, TypeOK
  <1>0. env' = env
    BY DEF Next
  <1>1. CASE stub_target_sdio_init
    BY <1>1, ResetFacts, WindowClosed DEF stub_target_sdio_init
  <1>2. CASE RearmTestArmed
    <2>1. /\ rx' = rx /\ content' = content
          /\ host'.frame = host.frame /\ host'.of = host.of /\ host'.done = host.done
          /\ client'.cur = client.cur /\ client'.frame = client.frame
      BY <1>2 DEF RearmTestArmed, Running, Goto, MainType
    <2> QED BY <2>1, WindowSame
  <1>3. CASE RearmTestReady
    <2>1. /\ rx' = rx /\ content' = content
          /\ host'.frame = host.frame /\ host'.of = host.of /\ host'.done = host.done
          /\ client'.cur = client.cur /\ client'.frame = client.frame
      BY <1>3 DEF RearmTestReady, Running, Goto, MainType
    <2> QED BY <2>1, WindowSame
  <1>4. CASE RearmStart
    <2>1. /\ rx' = [running |-> TRUE, buf |-> client.cur, filled |-> 0]
          /\ client' = client /\ host' = host
      BY <1>4 DEF RearmStart
    <2>2. ~s_rx_armed /\ ~Between
      BY <1>4 DEF RearmStart, Running, Between, GivenUpInv, ArmPcs
    <2>3. host.done = 0 \/ host.done = host.of
      BY <2>2 DEF WindowInv, GivenUpInv, GivenUp
    <2>4. Eofs' = {}
      BY <2>1 DEF Eofs
    <2>5. Begun'
      BY <2>1, <2>3 DEF Begun, HostType
    <2>6. rx'.running /\ rx'.buf = client'.cur /\ 1 .. rx'.filled = {}
      BY <2>1
    <2> QED BY <2>4, <2>5, <2>6 DEF WindowInv
  <1>5. CASE RearmCredits
    <2>1. /\ rx' = rx /\ content' = content
          /\ host'.frame = host.frame /\ host'.of = host.of /\ host'.done = host.done
          /\ client'.cur = client.cur /\ client'.frame = client.frame
      BY <1>5 DEF RearmCredits, Running, Goto, MainType
    <2> QED BY <2>1, WindowSame
  <1>6. CASE RearmSetArmed
    <2>1. /\ rx' = rx /\ content' = content
          /\ host'.frame = host.frame /\ host'.of = host.of /\ host'.done = host.done
          /\ client'.cur = client.cur /\ client'.frame = client.frame
      BY <1>6 DEF RearmSetArmed, Running, Goto, MainType
    <2> QED BY <2>1, WindowSame
  <1>7. CASE TakeTest
    <2>1. /\ rx' = rx /\ content' = content
          /\ host'.frame = host.frame /\ host'.of = host.of /\ host'.done = host.done
          /\ client'.cur = client.cur /\ client'.frame = client.frame
      BY <1>7 DEF TakeTest, Running, Goto, MainType, ClientType
    <2> QED BY <2>1, WindowSame
  <1>8. CASE TakeClaim
    <2>1. rx' = rx /\ host' = host /\ ~rx.running
      BY <1>8, ClaimFacts DEF TakeClaim
    <2> QED BY <2>1, WindowClosed DEF WindowInv
  <1>9. CASE ClientProcess
    <2>1. /\ rx' = rx /\ content' = content
          /\ host'.frame = host.frame /\ host'.of = host.of /\ host'.done = host.done
          /\ client'.cur = client.cur /\ client'.frame = client.frame
      BY <1>9 DEF ClientProcess, Running, Goto, MainType
    <2> QED BY <2>1, WindowSame
  <1>10. CASE TxSend
    <2>1. /\ rx' = rx /\ content' = content
          /\ host'.frame = host.frame /\ host'.of = host.of /\ host'.done = host.done
          /\ client'.cur = client.cur /\ client'.frame = client.frame
      BY <1>10 DEF TxSend, Running, Goto, MainType
    <2> QED BY <2>1, WindowSame
  <1>11. CASE TxWait
    <2>1. /\ rx' = rx /\ content' = content
          /\ host'.frame = host.frame /\ host'.of = host.of /\ host'.done = host.done
          /\ client'.cur = client.cur /\ client'.frame = client.frame
      BY <1>11 DEF TxWait, Running, Goto, TxReturn, MainType, ClientType
    <2> QED BY <2>1, WindowSame
  <1>12. CASE TxRead
    <2>1. /\ rx' = rx /\ content' = content
          /\ host'.frame = host.frame /\ host'.of = host.of /\ host'.done = host.done
          /\ client'.cur = client.cur /\ client'.frame = client.frame
      BY <1>12 DEF TxRead, Running, TxReturn, MainType, ClientType
    <2> QED BY <2>1, WindowSame
  <1>13. CASE IsrEnter
    <2>1. /\ rx' = rx /\ content' = content
          /\ host'.frame = host.frame /\ host'.of = host.of /\ host'.done = host.done
          /\ client'.cur = client.cur /\ client'.frame = client.frame
      BY <1>13 DEF IsrEnter
    <2> QED BY <2>1, WindowSame
  <1>14. CASE IsrNoEof
    <2>1. /\ rx' = rx /\ content' = content
          /\ host'.frame = host.frame /\ host'.of = host.of /\ host'.done = host.done
          /\ client'.cur = client.cur /\ client'.frame = client.frame
      BY <1>14 DEF IsrNoEof, IsrGoto
    <2> QED BY <2>1, WindowSame
  <1>15. CASE IsrFetchNull
    <2>1. /\ rx' = rx /\ content' = content
          /\ host'.frame = host.frame /\ host'.of = host.of /\ host'.done = host.done
          /\ client'.cur = client.cur /\ client'.frame = client.frame
      BY <1>15 DEF IsrFetchNull, IsrGoto
    <2> QED BY <2>1, WindowSame
  <1>16. CASE IsrFetch
    <2>1. /\ rx' = rx /\ content' = content
          /\ host'.frame = host.frame /\ host'.of = host.of /\ host'.done = host.done
          /\ client'.cur = client.cur /\ client'.frame = client.frame
      BY <1>16 DEF IsrFetch, IsrGoto
    <2> QED BY <2>1, WindowSame
  <1>17. CASE IsrReset
    BY <1>17, ResetFacts, WindowClosed DEF IsrReset
  <1>18. CASE IsrClearErrors
    <2>1. /\ rx' = rx /\ content' = content
          /\ host'.frame = host.frame /\ host'.of = host.of /\ host'.done = host.done
          /\ client'.cur = client.cur /\ client'.frame = client.frame
      BY <1>18 DEF IsrClearErrors, IsrGoto
    <2> QED BY <2>1, WindowSame
  <1>19. CASE IsrEmpty
    <2>1. CASE "TX_DSCR_EMPTY" \in isr.snap
      BY <1>19, <2>1, ResetFacts, WindowClosed DEF IsrEmpty
    <2>2. CASE "TX_DSCR_EMPTY" \notin isr.snap
      <3>1. rx' = rx /\ content' = content /\ host' = host /\ client' = client
        BY <1>19, <2>2 DEF IsrEmpty
      <3> QED BY <3>1, WindowSame
    <2> QED BY <2>1, <2>2
  <1>20. CASE HostBegin
    <2>1. PICK n \in 1 .. Descs + 1 :
            host' = [frame |-> host.frame + 1, of |-> n, done |-> 0, waiting |-> TRUE]
      BY <1>20 DEF HostBegin
    <2>2. rx' = rx /\ content' = content /\ client' = client /\ host.done = host.of
      BY <1>20 DEF HostBegin
    <2>3. /\ host'.frame = host.frame + 1 /\ host'.of = n /\ host'.done = 0
          /\ n \in Nat /\ n > 0 /\ host.frame \in Nat /\ client.frame \in Nat
      BY <2>1 DEF HostType, ClientType
    <2>4. CASE ~rx.running
      BY <2>2, <2>3, <2>4, WindowClosed
    <2>5. CASE rx.running
      <3>1. Eofs' = Eofs
        BY <2>2 DEF Eofs
      <3>2. Eofs = {} /\ Begun => Begun'
        <4>1. host.done \in Nat /\ host.of \in Nat
          BY DEF HostType
        <4>2. Begun => rx.filled = 0
          BY <2>2, <4>1 DEF Begun
        <4>3. rx.filled = 0 => Begun'
          BY <2>2, <2>3 DEF Begun
        <4> QED BY <4>2, <4>3
      <3>3. \A i \in 1 .. rx.filled : content[rx.buf][i].frame \in client.frame + 1 .. host.frame
        BY <2>5 DEF WindowInv
      <3>4. Ended => Ended'
        <4>1. SUFFICES ASSUME NEW e \in Eofs, \A j \in Eofs : e <= j, OneFrame(rx.buf, e)
                       PROVE  Ended'
          BY DEF Ended
        <4>2. content[rx.buf][e].frame \in client.frame + 1 .. host.frame
          BY <3>3 DEF Eofs
        <4>3. content'[rx'.buf][e].frame # host'.frame
          BY <2>2, <2>3, <4>2
        <4>4. OneFrame(rx.buf, e)'
          BY <2>2, <4>1 DEF OneFrame
        <4> QED BY <2>2, <3>1, <4>1, <4>3, <4>4 DEF Ended
      <3>5. \A i \in 1 .. rx'.filled :
               content'[rx'.buf][i].frame \in client'.frame + 1 .. host'.frame
        BY <2>2, <2>3, <3>3, SMTT(30)
      <3> QED BY <2>2, <2>5, <3>1, <3>2, <3>4, <3>5 DEF WindowInv
    <2> QED BY <2>4, <2>5
  <1>21. CASE HostBlock
    BY <1>21, BlockWindow
  <1>22. CASE HostBlockNoDesc
    <2>1. /\ rx' = rx /\ content' = content
          /\ host'.frame = host.frame /\ host'.of = host.of /\ host'.done = host.done
          /\ client'.cur = client.cur /\ client'.frame = client.frame
      BY <1>22 DEF HostBlockNoDesc, MayWrite
    <2> QED BY <2>1, WindowSame
  <1>23. CASE HostRead
    <2>1. /\ rx' = rx /\ content' = content
          /\ host'.frame = host.frame /\ host'.of = host.of /\ host'.done = host.done
          /\ client'.cur = client.cur /\ client'.frame = client.frame
      BY <1>23 DEF HostRead, HostType
    <2> QED BY <2>1, WindowSame
  <1>24. CASE HostGivesUp
    <2>1. /\ rx' = rx /\ content' = content
          /\ host'.frame = host.frame /\ host'.of = host.of /\ host'.done = host.done
          /\ client'.cur = client.cur /\ client'.frame = client.frame
      BY <1>24 DEF HostGivesUp, HostType
    <2> QED BY <2>1, WindowSame
  <1>25. CASE DmaRxError
    <2>1. /\ rx' = rx /\ content' = content
          /\ host'.frame = host.frame /\ host'.of = host.of /\ host'.done = host.done
          /\ client'.cur = client.cur /\ client'.frame = client.frame
      BY <1>25 DEF DmaRxError, MayWrite
    <2> QED BY <2>1, WindowSame
  <1>26. CASE DmaTxError
    <2>1. /\ rx' = rx /\ content' = content
          /\ host'.frame = host.frame /\ host'.of = host.of /\ host'.done = host.done
          /\ client'.cur = client.cur /\ client'.frame = client.frame
      BY <1>26 DEF DmaTxError
    <2> QED BY <2>1, WindowSame
  <1> QED
    BY <1>1, <1>2, <1>3, <1>4, <1>5, <1>6, <1>7, <1>8, <1>9, <1>10, <1>11, <1>12, <1>13, <1>14,
       <1>15, <1>16, <1>17, <1>18, <1>19, <1>20, <1>21, <1>22, <1>23, <1>24, <1>25, <1>26 DEF
       Next, Main, rearm, take_rx_frame, tx_frame, sdio_slc_isr, Host, Dma

\* A step that leaves the buffers and the frames of host and client alone, and announces
\* and claims nothing
LEMMA AnnouncedSame ==
    ASSUME AnnouncedInv, content' = content, s_rx_received_len' = s_rx_received_len,
           s_rx_frame_ready' => s_rx_frame_ready,
           host'.frame = host.frame, host'.of = host.of,
           host'.done = host.done \/ host'.done = host'.of, host'.of \in Int,
           client'.cur = client.cur, client'.frame = client.frame,
           client'.held # 0 => client'.held = client.held /\ client'.len = client.len
    PROVE  AnnouncedInv'
  BY DEF AnnouncedInv, OneFrame

\* Announced and claimed frames stay whole and in order.
LEMMA AnnouncedStep ==
    ASSUME SdioInv, TypeOK', Next
    PROVE  AnnouncedInv'
  <1> USE SdioAssumption DEF SdioInv, TypeOK
  <1>0. env' = env
    BY DEF Next
  <1>1. CASE stub_target_sdio_init
    <2>1. ~s_rx_frame_ready' /\ client' = client /\ main.pc = "init"
      BY <1>1 DEF stub_target_sdio_init, Running
    <2>2. client.held = 0
      BY <2>1 DEF HeldInv, ArmPcs
    <2>3. host'.of = 0 /\ host'.done \in {0, host'.of}
      BY <1>1, <2>1, ResetFacts DEF stub_target_sdio_init, InitInv
    <2> QED BY <2>1, <2>2, <2>3 DEF AnnouncedInv
  <1>2. CASE RearmTestArmed
    <2>1. /\ content' = content /\ s_rx_received_len' = s_rx_received_len
          /\ s_rx_frame_ready' => s_rx_frame_ready
          /\ host'.frame = host.frame /\ host'.of = host.of /\ host'.of \in Int
          /\ host'.done = host.done \/ host'.done = host'.of
          /\ client'.cur = client.cur /\ client'.frame = client.frame
          /\ client'.held # 0 => client'.held = client.held /\ client'.len = client.len
      BY <1>2 DEF RearmTestArmed, Running, Goto, MainType, driver, HostType
    <2> QED BY <2>1, AnnouncedSame
  <1>3. CASE RearmTestReady
    <2>1. /\ content' = content /\ s_rx_received_len' = s_rx_received_len
          /\ s_rx_frame_ready' => s_rx_frame_ready
          /\ host'.frame = host.frame /\ host'.of = host.of /\ host'.of \in Int
          /\ host'.done = host.done \/ host'.done = host'.of
          /\ client'.cur = client.cur /\ client'.frame = client.frame
          /\ client'.held # 0 => client'.held = client.held /\ client'.len = client.len
      BY <1>3 DEF RearmTestReady, Running, Goto, MainType, driver, HostType
    <2> QED BY <2>1, AnnouncedSame
  <1>4. CASE RearmStart
    <2>1. /\ content' = content /\ s_rx_received_len' = s_rx_received_len
          /\ s_rx_frame_ready' => s_rx_frame_ready
          /\ host'.frame = host.frame /\ host'.of = host.of /\ host'.of \in Int
          /\ host'.done = host.done \/ host'.done = host'.of
          /\ client'.cur = client.cur /\ client'.frame = client.frame
          /\ client'.held # 0 => client'.held = client.held /\ client'.len = client.len
      BY <1>4 DEF RearmStart, Running, Goto, MainType, ClientType, driver, HostType
    <2> QED BY <2>1, AnnouncedSame
  <1>5. CASE RearmCredits
    <2>1. /\ content' = content /\ s_rx_received_len' = s_rx_received_len
          /\ s_rx_frame_ready' => s_rx_frame_ready
          /\ host'.frame = host.frame /\ host'.of = host.of /\ host'.of \in Int
          /\ host'.done = host.done \/ host'.done = host'.of
          /\ client'.cur = client.cur /\ client'.frame = client.frame
          /\ client'.held # 0 => client'.held = client.held /\ client'.len = client.len
      BY <1>5 DEF RearmCredits, Running, Goto, MainType, driver, HostType
    <2> QED BY <2>1, AnnouncedSame
  <1>6. CASE RearmSetArmed
    <2>1. /\ content' = content /\ s_rx_received_len' = s_rx_received_len
          /\ s_rx_frame_ready' => s_rx_frame_ready
          /\ host'.frame = host.frame /\ host'.of = host.of /\ host'.of \in Int
          /\ host'.done = host.done \/ host'.done = host'.of
          /\ client'.cur = client.cur /\ client'.frame = client.frame
          /\ client'.held # 0 => client'.held = client.held /\ client'.len = client.len
      BY <1>6 DEF RearmSetArmed, Running, Goto, MainType, HostType
    <2> QED BY <2>1, AnnouncedSame
  <1>7. CASE TakeTest
    <2>1. /\ content' = content /\ s_rx_received_len' = s_rx_received_len
          /\ s_rx_frame_ready' => s_rx_frame_ready
          /\ host'.frame = host.frame /\ host'.of = host.of /\ host'.of \in Int
          /\ host'.done = host.done \/ host'.done = host'.of
          /\ client'.cur = client.cur /\ client'.frame = client.frame
          /\ client'.held # 0 => client'.held = client.held /\ client'.len = client.len
      BY <1>7 DEF TakeTest, Running, Goto, MainType, ClientType, driver, HostType, HeldInv, ArmPcs
    <2> QED BY <2>1, AnnouncedSame
  <1>8. CASE TakeClaim
    <2>1. ~s_rx_frame_ready' /\ content' = content /\ host' = host
      BY <1>8 DEF TakeClaim
    <2>2. host.frame \in Nat /\ host.done \in Nat /\ host.of \in Nat /\ client'.frame \in Nat
      BY <1>8, ClaimFacts DEF HostType, ClientType
    <2>3. host.done < host.of => client'.frame < host.frame
      BY <1>8, <2>2, ClaimFacts
    <2>4. OneFrame(client.held, client.len)'
      BY <1>8, <2>1, ClaimFacts DEF OneFrame
    <2> QED BY <2>1, <2>3, <2>4 DEF AnnouncedInv
  <1>9. CASE ClientProcess
    <2>1. /\ content' = content /\ s_rx_received_len' = s_rx_received_len
          /\ s_rx_frame_ready' => s_rx_frame_ready
          /\ host'.frame = host.frame /\ host'.of = host.of /\ host'.of \in Int
          /\ host'.done = host.done \/ host'.done = host'.of
          /\ client'.cur = client.cur /\ client'.frame = client.frame
          /\ client'.held # 0 => client'.held = client.held /\ client'.len = client.len
      BY <1>9 DEF ClientProcess, Running, Goto, MainType, driver, HostType
    <2> QED BY <2>1, AnnouncedSame
  <1>10. CASE TxSend
    <2>1. /\ content' = content /\ s_rx_received_len' = s_rx_received_len
          /\ s_rx_frame_ready' => s_rx_frame_ready
          /\ host'.frame = host.frame /\ host'.of = host.of /\ host'.of \in Int
          /\ host'.done = host.done \/ host'.done = host'.of
          /\ client'.cur = client.cur /\ client'.frame = client.frame
          /\ client'.held # 0 => client'.held = client.held /\ client'.len = client.len
      BY <1>10 DEF TxSend, Running, Goto, MainType, driver, HostType
    <2> QED BY <2>1, AnnouncedSame
  <1>11. CASE TxWait
    <2>1. /\ content' = content /\ s_rx_received_len' = s_rx_received_len
          /\ s_rx_frame_ready' => s_rx_frame_ready
          /\ host'.frame = host.frame /\ host'.of = host.of /\ host'.of \in Int
          /\ host'.done = host.done \/ host'.done = host'.of
          /\ client'.cur = client.cur /\ client'.frame = client.frame
          /\ client'.held # 0 => client'.held = client.held /\ client'.len = client.len
      BY <1>11 DEF TxWait, Running, Goto, TxReturn, MainType, ClientType, driver, HostType
    <2> QED BY <2>1, AnnouncedSame
  <1>12. CASE TxRead
    <2>1. /\ content' = content /\ s_rx_received_len' = s_rx_received_len
          /\ s_rx_frame_ready' => s_rx_frame_ready
          /\ host'.frame = host.frame /\ host'.of = host.of /\ host'.of \in Int
          /\ host'.done = host.done \/ host'.done = host'.of
          /\ client'.cur = client.cur /\ client'.frame = client.frame
          /\ client'.held # 0 => client'.held = client.held /\ client'.len = client.len
      BY <1>12 DEF TxRead, Running, TxReturn, MainType, ClientType, driver, HostType
    <2> QED BY <2>1, AnnouncedSame
  <1>13. CASE IsrEnter
    <2>1. /\ content' = content /\ s_rx_received_len' = s_rx_received_len
          /\ s_rx_frame_ready' => s_rx_frame_ready
          /\ host'.frame = host.frame /\ host'.of = host.of /\ host'.of \in Int
          /\ host'.done = host.done \/ host'.done = host'.of
          /\ client'.cur = client.cur /\ client'.frame = client.frame
          /\ client'.held # 0 => client'.held = client.held /\ client'.len = client.len
      BY <1>13 DEF IsrEnter, driver, HostType
    <2> QED BY <2>1, AnnouncedSame
  <1>14. CASE IsrNoEof
    <2>1. /\ content' = content /\ s_rx_received_len' = s_rx_received_len
          /\ s_rx_frame_ready' => s_rx_frame_ready
          /\ host'.frame = host.frame /\ host'.of = host.of /\ host'.of \in Int
          /\ host'.done = host.done \/ host'.done = host'.of
          /\ client'.cur = client.cur /\ client'.frame = client.frame
          /\ client'.held # 0 => client'.held = client.held /\ client'.len = client.len
      BY <1>14 DEF IsrNoEof, IsrGoto, driver, HostType
    <2> QED BY <2>1, AnnouncedSame
  <1>15. CASE IsrFetchNull
    <2>1. /\ content' = content /\ s_rx_received_len' = s_rx_received_len
          /\ s_rx_frame_ready' => s_rx_frame_ready
          /\ host'.frame = host.frame /\ host'.of = host.of /\ host'.of \in Int
          /\ host'.done = host.done \/ host'.done = host'.of
          /\ client'.cur = client.cur /\ client'.frame = client.frame
          /\ client'.held # 0 => client'.held = client.held /\ client'.len = client.len
      BY <1>15 DEF IsrFetchNull, IsrGoto, HostType
    <2> QED BY <2>1, AnnouncedSame
  <1>16. CASE IsrFetch
    <2>1. /\ content' = content /\ host' = host /\ client' = client
          /\ s_rx_received_len' = FetchedLen
          /\ isr.pc = "eof" /\ "TX_SUC_EOF" \in isr.snap
      BY <1>16 DEF IsrFetch
    <2>2. OneFrame(client.cur, s_rx_received_len)'
      BY <2>1, FetchFacts DEF OneFrame
    <2>3. client.held # 0 => OneFrame(client.held, client.len)'
      BY <2>1 DEF AnnouncedInv, OneFrame
    <2>4. /\ content[client.cur][1].frame \in client.frame + 1 .. host.frame
          /\ content[client.cur][1].frame = host.frame => host.done = host.of
          /\ host.done < host.of => client.frame < host.frame
      BY <2>1, FetchFacts DEF AnnouncedInv
    <2> QED BY <2>1, <2>2, <2>3, <2>4 DEF AnnouncedInv
  <1>17. CASE IsrReset
    <2>1. /\ content' = content /\ s_rx_received_len' = s_rx_received_len
          /\ s_rx_frame_ready' = s_rx_frame_ready /\ client' = client
      BY <1>17 DEF IsrReset
    <2>2. /\ host'.frame = host.frame /\ host'.of = host.of /\ host'.of \in Int
          /\ host'.done = host.done \/ host'.done = host'.of
      <3>1. /\ host'.frame = host.frame /\ host'.of = host.of /\ host' \in HostType
            /\ host'.done = host.done \/ host'.done = host.of
        BY <1>17, ResetFacts DEF IsrReset
      <3> QED BY <3>1 DEF HostType
    <2> QED BY <2>1, <2>2, AnnouncedSame
  <1>18. CASE IsrClearErrors
    <2>1. /\ content' = content /\ s_rx_received_len' = s_rx_received_len
          /\ s_rx_frame_ready' => s_rx_frame_ready
          /\ host'.frame = host.frame /\ host'.of = host.of /\ host'.of \in Int
          /\ host'.done = host.done \/ host'.done = host'.of
          /\ client'.cur = client.cur /\ client'.frame = client.frame
          /\ client'.held # 0 => client'.held = client.held /\ client'.len = client.len
      BY <1>18 DEF IsrClearErrors, IsrGoto, driver, HostType
    <2> QED BY <2>1, AnnouncedSame
  <1>19. CASE IsrEmpty
    <2>1. /\ content' = content /\ s_rx_received_len' = s_rx_received_len
          /\ s_rx_frame_ready' = s_rx_frame_ready /\ client' = client
      BY <1>19 DEF IsrEmpty
    <2>2. CASE "TX_DSCR_EMPTY" \in isr.snap
      <3>1. /\ host'.frame = host.frame /\ host'.of = host.of /\ host'.of \in Int
            /\ host'.done = host.done \/ host'.done = host'.of
        <4>1. /\ host'.frame = host.frame /\ host'.of = host.of /\ host' \in HostType
              /\ host'.done = host.done \/ host'.done = host.of
          BY <1>19, <2>2, ResetFacts DEF IsrEmpty
        <4> QED BY <4>1 DEF HostType
      <3> QED BY <2>1, <3>1, AnnouncedSame
    <2>3. CASE "TX_DSCR_EMPTY" \notin isr.snap
      <3>1. host' = host /\ host'.of \in Int
        BY <1>19, <2>3 DEF IsrEmpty, HostType
      <3> QED BY <2>1, <3>1, AnnouncedSame
    <2> QED BY <2>2, <2>3
  <1>20. CASE HostBegin
    <2>1. PICK n \in 1 .. Descs + 1 :
            host' = [frame |-> host.frame + 1, of |-> n, done |-> 0, waiting |-> TRUE]
      BY <1>20 DEF HostBegin
    <2>2. /\ content' = content /\ client' = client
          /\ s_rx_frame_ready' = s_rx_frame_ready /\ s_rx_received_len' = s_rx_received_len
      BY <1>20 DEF HostBegin, driver
    <2>3. /\ host'.frame = host.frame + 1 /\ host.frame \in Nat /\ client.frame \in Nat
          /\ client.frame <= host.frame
      BY <2>1 DEF HostType, ClientType, HeldInv
    <2>4. s_rx_frame_ready => OneFrame(client.cur, s_rx_received_len)'
      BY <2>2 DEF AnnouncedInv, OneFrame
    <2>5. client.held # 0 => OneFrame(client.held, client.len)'
      BY <2>2 DEF AnnouncedInv, OneFrame
    <2>6. s_rx_frame_ready => content[client.cur][1].frame \in client.frame + 1 .. host.frame
      BY DEF AnnouncedInv
    <2> HIDE DEF SdioInv, TypeOK
    <2> QED BY <2>2, <2>3, <2>4, <2>5, <2>6 DEF AnnouncedInv
  <1>21. CASE HostBlock
    <2>1. /\ client' = client /\ s_rx_frame_ready' = s_rx_frame_ready
          /\ s_rx_received_len' = s_rx_received_len
          /\ host.done < host.of /\ rx.running /\ main.pc # "init"
      BY <1>21 DEF HostBlock, driver, InitInv
    <2>2. /\ client.frame < host.frame /\ client.frame \in Nat /\ host.frame \in Nat
          /\ host.done \in Nat /\ host.of \in Nat
      BY <2>1 DEF AnnouncedInv, ClientType, HostType
    <2>3. /\ host'.frame = host.frame /\ rx.filled + 1 \in 1 .. Descs
          /\ \A c \in Buffers : \A i \in 1 .. Descs :
                c # rx.buf \/ i # rx.filled + 1 => content'[c][i] = content[c][i]
      BY <1>21, <2>2, BlockFacts
    <2>4. rx.buf = client.cur /\ client.cur \in Buffers /\ Descs \in Nat /\ rx.filled \in Nat
      BY <2>1 DEF WindowInv, ClientType, RxType
    <2>5. s_rx_frame_ready => s_rx_received_len <= rx.filled
      BY <2>1 DEF FlagInv
    <2>6. s_rx_frame_ready =>
             /\ OneFrame(client.cur, s_rx_received_len)'
             /\ content'[client.cur][1] = content[client.cur][1]
      <3> SUFFICES ASSUME s_rx_frame_ready
                   PROVE  /\ OneFrame(client.cur, s_rx_received_len)'
                          /\ content'[client.cur][1] = content[client.cur][1]
        OBVIOUS
      <3>1. OneFrame(client.cur, s_rx_received_len) /\ s_rx_received_len \in Nat
        BY DEF AnnouncedInv
      <3>2. \A i \in 1 .. s_rx_received_len : content'[client.cur][i] = content[client.cur][i]
        BY <2>3, <2>4, <2>5, <3>1, SMTT(30)
      <3>3. 1 \in 1 .. s_rx_received_len
        BY <3>1 DEF OneFrame
      <3> QED BY <2>1, <3>1, <3>2, <3>3 DEF OneFrame
    <2>7. client.held # 0 => OneFrame(client.held, client.len)'
      <3> SUFFICES ASSUME client.held # 0 PROVE OneFrame(client.held, client.len)'
        OBVIOUS
      <3>1. /\ OneFrame(client.held, client.len) /\ client.len \in 0 .. Descs
            /\ client.held \in Buffers /\ client.held # rx.buf
        BY <2>4 DEF AnnouncedInv, HeldInv, ClientType, Buffers
      <3>2. \A i \in 1 .. client.len : content'[client.held][i] = content[client.held][i]
        BY <2>3, <2>4, <3>1
      <3>3. 1 \in 1 .. client.len
        BY <3>1 DEF OneFrame
      <3> QED BY <2>1, <3>1, <3>2, <3>3 DEF OneFrame
    <2>8. s_rx_frame_ready => /\ content[client.cur][1].frame \in client.frame + 1 .. host.frame
                               /\ content[client.cur][1].frame # host.frame
      BY <2>1, <2>2 DEF AnnouncedInv
    <2> HIDE DEF SdioInv, TypeOK
    <2> QED BY <2>1, <2>2, <2>3, <2>6, <2>7, <2>8 DEF AnnouncedInv
  <1>22. CASE HostBlockNoDesc
    <2>1. /\ content' = content /\ s_rx_received_len' = s_rx_received_len
          /\ s_rx_frame_ready' => s_rx_frame_ready
          /\ host'.frame = host.frame /\ host'.of = host.of /\ host'.of \in Int
          /\ host'.done = host.done \/ host'.done = host'.of
          /\ client'.cur = client.cur /\ client'.frame = client.frame
          /\ client'.held # 0 => client'.held = client.held /\ client'.len = client.len
      BY <1>22 DEF HostBlockNoDesc, MayWrite, driver, HostType
    <2> QED BY <2>1, AnnouncedSame
  <1>23. CASE HostRead
    <2>1. /\ content' = content /\ s_rx_received_len' = s_rx_received_len
          /\ s_rx_frame_ready' => s_rx_frame_ready
          /\ host'.frame = host.frame /\ host'.of = host.of /\ host'.of \in Int
          /\ host'.done = host.done \/ host'.done = host'.of
          /\ client'.cur = client.cur /\ client'.frame = client.frame
          /\ client'.held # 0 => client'.held = client.held /\ client'.len = client.len
      BY <1>23 DEF HostRead, HostType, driver
    <2> QED BY <2>1, AnnouncedSame
  <1>24. CASE HostGivesUp
    <2>1. /\ content' = content /\ s_rx_received_len' = s_rx_received_len
          /\ s_rx_frame_ready' => s_rx_frame_ready
          /\ host'.frame = host.frame /\ host'.of = host.of /\ host'.of \in Int
          /\ host'.done = host.done \/ host'.done = host'.of
          /\ client'.cur = client.cur /\ client'.frame = client.frame
          /\ client'.held # 0 => client'.held = client.held /\ client'.len = client.len
      BY <1>24 DEF HostGivesUp, HostType, driver
    <2> QED BY <2>1, AnnouncedSame
  <1>25. CASE DmaRxError
    <2>1. /\ content' = content /\ s_rx_received_len' = s_rx_received_len
          /\ s_rx_frame_ready' => s_rx_frame_ready
          /\ host'.frame = host.frame /\ host'.of = host.of /\ host'.of \in Int
          /\ host'.done = host.done \/ host'.done = host'.of
          /\ client'.cur = client.cur /\ client'.frame = client.frame
          /\ client'.held # 0 => client'.held = client.held /\ client'.len = client.len
      BY <1>25 DEF DmaRxError, MayWrite, driver, HostType
    <2> QED BY <2>1, AnnouncedSame
  <1>26. CASE DmaTxError
    <2>1. /\ content' = content /\ s_rx_received_len' = s_rx_received_len
          /\ s_rx_frame_ready' => s_rx_frame_ready
          /\ host'.frame = host.frame /\ host'.of = host.of /\ host'.of \in Int
          /\ host'.done = host.done \/ host'.done = host'.of
          /\ client'.cur = client.cur /\ client'.frame = client.frame
          /\ client'.held # 0 => client'.held = client.held /\ client'.len = client.len
      BY <1>26 DEF DmaTxError, driver, HostType
    <2> QED BY <2>1, AnnouncedSame
  <1> QED
    BY <1>1, <1>2, <1>3, <1>4, <1>5, <1>6, <1>7, <1>8, <1>9, <1>10, <1>11, <1>12, <1>13, <1>14,
       <1>15, <1>16, <1>17, <1>18, <1>19, <1>20, <1>21, <1>22, <1>23, <1>24, <1>25, <1>26 DEF
       Next, Main, rearm, take_rx_frame, tx_frame, sdio_slc_isr, Host, Dma

\* Events mean what FlagInv says.
LEMMA FlagStep ==
    ASSUME SdioInv, TypeOK', Next
    PROVE  FlagInv'
  <1> USE SdioAssumption DEF SdioInv, TypeOK
  <1>0. env' = env
    BY DEF Next
  <1>1. CASE stub_target_sdio_init
    <2>1. /\ raw' = {} /\ isr' = isr /\ isr.pc = "off" /\ isr.snap = {} /\ ~s_rx_frame_ready'
          /\ main'.pc = "arm_armed"
      <3>1. raw' = raw \ (RxFlags \cup TxFlags)
        BY <1>1, ResetFacts DEF stub_target_sdio_init
      <3>2. raw' = {}
        BY <3>1 DEF FlagType
      <3>3. isr' = isr /\ isr.pc = "off" /\ isr.snap = {} /\ ~s_rx_frame_ready'
        BY <1>1 DEF stub_target_sdio_init, Running, InitInv
      <3> QED BY <1>1, <3>2, <3>3 DEF stub_target_sdio_init
    <2> HIDE DEF SdioInv, TypeOK
    <2> QED BY <2>1 DEF FlagInv
  <1>2. CASE RearmTestArmed
    BY <1>0, <1>2 DEF RearmTestArmed, Running, Goto, MainType, FlagInv, Eofs, IsrType, HostType,
       RxType, ClientType, FlagType, Between, RxFlags, TxFlags, driver
  <1>3. CASE RearmTestReady
    BY <1>0, <1>3 DEF RearmTestReady, Running, Goto, MainType, FlagInv, Eofs, IsrType, HostType,
       RxType, ClientType, FlagType, Between, RxFlags, TxFlags, driver
  <1>4. CASE RearmStart
    <2>1. /\ raw' = raw /\ isr' = isr /\ isr.pc = "off" /\ s_rx_frame_ready' = s_rx_frame_ready
          /\ main.pc = "arm_start" /\ main'.pc = "arm_credits"
      BY <1>4 DEF RearmStart, Running, Goto, MainType, driver
    <2>2. "TX_SUC_EOF" \notin raw /\ "TX_DSCR_EMPTY" \notin raw /\ ~s_rx_frame_ready
      BY <2>1 DEF FlagInv, GivenUpInv, GivenUp, Between, ArmPcs
    <2>3. isr.snap = {}
      BY <2>1 DEF FlagInv
    <2> HIDE DEF SdioInv, TypeOK
    <2> QED BY <2>1, <2>2, <2>3 DEF FlagInv
  <1>5. CASE RearmCredits
    BY <1>0, <1>5 DEF RearmCredits, Running, Goto, MainType, FlagInv, Eofs, IsrType, HostType,
       RxType, ClientType, FlagType, Between, RxFlags, TxFlags, driver
  <1>6. CASE RearmSetArmed
    BY <1>0, <1>6 DEF RearmSetArmed, Running, Goto, MainType, FlagInv, Eofs, IsrType, HostType,
       RxType, ClientType, FlagType, Between, RxFlags, TxFlags, driver
  <1>7. CASE TakeTest
    BY <1>0, <1>7 DEF TakeTest, Running, Goto, MainType, ClientType, FlagInv, Eofs, IsrType,
       HostType, RxType, FlagType, Between, RxFlags, TxFlags, driver
  <1>8. CASE TakeClaim
    BY <1>0, <1>8 DEF TakeClaim, Running, Goto, MainType, ClientType, FlagInv, Eofs, IsrType,
       HostType, RxType, FlagType, Between, RxFlags, TxFlags, driver
  <1>9. CASE ClientProcess
    BY <1>0, <1>9 DEF ClientProcess, Running, Goto, MainType, FlagInv, Eofs, IsrType, HostType,
       RxType, ClientType, FlagType, Between, RxFlags, TxFlags, driver
  <1>10. CASE TxSend
    <2>1. /\ raw' = raw \ TxFlags /\ rx' = rx /\ host' = host /\ isr' = isr
          /\ content' = content /\ s_rx_received_len' = s_rx_received_len
          /\ s_rx_armed' = s_rx_armed /\ s_rx_frame_ready' = s_rx_frame_ready
          /\ main.pc = "tx_send" /\ main'.pc = "tx_wait"
      BY <1>10 DEF TxSend, Running, Goto, MainType, driver
    <2>2. Eofs' = Eofs /\ Between' = Between
      BY <2>1 DEF Eofs, Between
    <2>3. FlagInv
      OBVIOUS
    <2> HIDE DEF SdioInv, TypeOK
    <2> QED BY <2>1, <2>2, <2>3 DEF FlagInv, TxFlags
  <1>11. CASE TxWait
    BY <1>0, <1>11 DEF TxWait, Running, Goto, TxReturn, MainType, ClientType, FlagInv, Eofs,
       IsrType, HostType, RxType, FlagType, Between, RxFlags, TxFlags, driver
  <1>12. CASE TxRead
    BY <1>0, <1>12 DEF TxRead, Running, TxReturn, MainType, ClientType, FlagInv, Eofs, IsrType,
       HostType, RxType, FlagType, Between, RxFlags, TxFlags, driver
  <1>13. CASE IsrEnter
    BY <1>0, <1>13 DEF IsrEnter, IsrType, FlagInv, Eofs, MainType, HostType, RxType, ClientType,
       FlagType, Between, RxFlags, TxFlags, driver
  <1>14. CASE IsrNoEof
    BY <1>0, <1>14 DEF IsrNoEof, IsrGoto, IsrType, FlagInv, Eofs, MainType, HostType, RxType,
       ClientType, FlagType, Between, RxFlags, TxFlags, driver
  <1>15. CASE IsrFetchNull
    BY <1>0, <1>15 DEF IsrFetchNull, IsrGoto, IsrType, FlagInv, Eofs, MainType, HostType, RxType,
       ClientType, FlagType, Between, RxFlags, TxFlags, driver
  <1>16. CASE IsrFetch
    <2>1. /\ rx' = rx /\ host' = host /\ client' = client /\ main' = main
          /\ s_rx_armed' = s_rx_armed /\ content' = content
          /\ s_rx_frame_ready' /\ s_rx_received_len' = FetchedLen
          /\ raw' = raw \ {"TX_SUC_EOF"} /\ isr'.pc = "reset"
          /\ isr.pc = "eof" /\ "TX_SUC_EOF" \in isr.snap
      BY <1>16 DEF IsrFetch, IsrGoto, IsrType
    <2>2. /\ main.pc # "init" /\ rx.running /\ "TX_SUC_EOF" \in raw
          /\ FetchedLen \in 1 .. rx.filled
      BY <2>1, FetchFacts
    <2>3. ~s_rx_frame_ready /\ main.pc # "claim"
      BY <2>1, <2>2 DEF FlagInv
    <2>4. (s_rx_armed \/ Between) /\ main.pc # "arm_start"
      BY <2>2 DEF GivenUpInv, GivenUp, ArmPcs, Between
    <2>5. "TX_DSCR_EMPTY" \in raw => rx.filled = Descs /\ host.done < host.of
      BY <2>2 DEF FlagInv
    <2>6. FetchedLen <= rx.filled
      BY <2>2 DEF RxType
    <2> HIDE DEF SdioInv, TypeOK
    <2> QED BY <2>1, <2>2, <2>3, <2>4, <2>5, <2>6 DEF FlagInv, Between
  <1>17. CASE IsrReset
    <2>1. raw' = raw \ RxFlags /\ rx'.running = FALSE
      BY <1>17, ResetFacts DEF IsrReset
    <2>2. /\ isr'.pc = "err" /\ main' = main /\ client' = client
          /\ s_rx_frame_ready' = s_rx_frame_ready /\ s_rx_received_len' = s_rx_received_len
      BY <1>17 DEF IsrReset, IsrGoto, IsrType
    <2>3. /\ "TX_SUC_EOF" \notin raw' /\ "TX_DSCR_EMPTY" \notin raw'
      BY <2>1 DEF RxFlags
    <2>4. FlagInv
      OBVIOUS
    <2> HIDE DEF SdioInv, TypeOK
    <2> QED BY <2>1, <2>2, <2>3, <2>4 DEF FlagInv
  <1>18. CASE IsrClearErrors
    BY <1>0, <1>18 DEF IsrClearErrors, IsrGoto, IsrType, FlagInv, Eofs, MainType, HostType,
       RxType, ClientType, FlagType, Between, RxFlags, TxFlags, driver
  <1>19. CASE IsrEmpty
    <2>1. /\ isr' = [pc |-> "off", snap |-> {}] /\ isr.pc = "empty" /\ main' = main
          /\ client' = client
          /\ s_rx_frame_ready' = s_rx_frame_ready /\ s_rx_received_len' = s_rx_received_len
          /\ content' = content
      BY <1>19 DEF IsrEmpty
    <2>2. FlagInv
      OBVIOUS
    <2>3. CASE "TX_DSCR_EMPTY" \in isr.snap
      <3>1. raw' = raw \ RxFlags /\ rx'.running = FALSE
        BY <1>19, <2>3, ResetFacts DEF IsrEmpty
      <3>2. "TX_SUC_EOF" \notin raw' /\ "TX_DSCR_EMPTY" \notin raw'
        BY <3>1 DEF RxFlags
      <3> HIDE DEF SdioInv, TypeOK
      <3> QED BY <2>1, <2>2, <3>1, <3>2 DEF FlagInv
    <2>4. CASE "TX_DSCR_EMPTY" \notin isr.snap
      <3>1. rx' = rx /\ host' = host /\ raw' = raw
        BY <1>19, <2>4 DEF IsrEmpty
      <3> HIDE DEF SdioInv, TypeOK
      <3> QED BY <2>1, <2>2, <3>1 DEF FlagInv, Eofs
    <2> QED BY <2>3, <2>4
  <1>20. CASE HostBegin
    BY <1>0, <1>20 DEF HostBegin, HostType, FlagInv, Eofs, MainType, IsrType, RxType, ClientType,
       FlagType, Between, RxFlags, TxFlags, driver
  <1>21. CASE HostBlock
    <2>1. /\ client' = client /\ main' = main /\ isr' = isr
          /\ s_rx_frame_ready' = s_rx_frame_ready /\ s_rx_received_len' = s_rx_received_len
          /\ s_rx_armed' = s_rx_armed
          /\ host.done < host.of /\ rx.running /\ rx.filled < Descs
      BY <1>21 DEF HostBlock, driver
    <2>2. main.pc # "init"
      BY <2>1 DEF InitInv
    <2>3. /\ host.frame \in Nat /\ host.done \in Nat /\ host.of \in Nat /\ host.frame > 0
          /\ rx.filled \in Nat /\ s_rx_received_len \in Nat /\ rx.buf \in Buffers
      BY <2>1, SMTT(30) DEF AnnouncedInv, ClientType, HostType, RxType
    <2>r. Descs \in Nat /\ \A i \in 1 .. rx.filled : i \in 1 .. Descs /\ i # rx.filled + 1
      BY <2>1, <2>3
    <2>c. \A b \in Buffers : \A i \in 1 .. Descs :
           content'[b][i] = IF b = rx.buf /\ i = rx.filled + 1
                            THEN [frame |-> host.frame, no |-> host.done + 1, of |-> host.of]
                            ELSE content[b][i]
      BY <1>21, <2>3, BlockFacts
    <2>s. /\ rx'.running /\ rx'.filled = rx.filled + 1 /\ rx'.buf = rx.buf
          /\ rx.filled + 1 \in 1 .. Descs
      BY <1>21, <2>3, BlockFacts
    <2>4. /\ rx'.running /\ rx'.filled = rx.filled + 1 /\ rx'.buf = rx.buf
          /\ rx.filled + 1 \in 1 .. Descs
          /\ content'[rx.buf][rx.filled + 1] =
                 [frame |-> host.frame, no |-> host.done + 1, of |-> host.of]
          /\ \A i \in 1 .. rx.filled : content'[rx.buf][i] = content[rx.buf][i]
      <3> HIDE DEF SdioInv, TypeOK
      <3> QED BY <2>3, <2>r, <2>c, <2>s
    <2>5. Eofs \subseteq Eofs'
      BY <2>3, <2>4, SMTT(30) DEF Eofs
    <2>6. raw' = raw \/ (raw' = raw \cup {"TX_SUC_EOF"} /\ host.done + 1 = host.of)
      BY <1>21 DEF HostBlock
    <2>7. host.done + 1 = host.of => rx.filled + 1 \in Eofs'
      BY <2>3, <2>4, SMTT(30) DEF Eofs
    <2>8. FlagInv
      OBVIOUS
    <2>9. "TX_DSCR_EMPTY" \notin raw
      BY <2>1, <2>2, <2>3 DEF FlagInv
    <2> HIDE DEF SdioInv, TypeOK
    <2> QED BY <2>1, <2>2, <2>3, <2>4, <2>5, <2>6, <2>7, <2>8, <2>9 DEF FlagInv, Between
  <1>22. CASE HostBlockNoDesc
    BY <1>0, <1>22 DEF HostBlockNoDesc, MayWrite, FlagInv, Eofs, MainType, IsrType, HostType,
       RxType, ClientType, FlagType, Between, RxFlags, TxFlags, driver
  <1>23. CASE HostRead
    BY <1>0, <1>23, SMTT(30) DEF HostRead, HostType, FlagInv, Eofs, MainType, IsrType, RxType,
       ClientType,
       FlagType, Between, RxFlags, TxFlags, driver
  <1>24. CASE HostGivesUp
    BY <1>0, <1>24 DEF HostGivesUp, HostType, FlagInv, Eofs, MainType, IsrType, RxType,
       ClientType, FlagType, Between, RxFlags, TxFlags, driver
  <1>25. CASE DmaRxError
    BY <1>0, <1>25 DEF DmaRxError, MayWrite, FlagInv, Eofs, MainType, IsrType, HostType, RxType,
       ClientType, FlagType, Between, RxFlags, TxFlags, driver
  <1>26. CASE DmaTxError
    BY <1>0, <1>26 DEF DmaTxError, FlagInv, Eofs, MainType, IsrType, HostType, RxType,
       ClientType, FlagType, Between, RxFlags, TxFlags, driver
  <1> QED
    BY <1>1, <1>2, <1>3, <1>4, <1>5, <1>6, <1>7, <1>8, <1>9, <1>10, <1>11, <1>12, <1>13, <1>14,
       <1>15, <1>16, <1>17, <1>18, <1>19, <1>20, <1>21, <1>22, <1>23, <1>24, <1>25, <1>26 DEF
       Next, Main, rearm, take_rx_frame, tx_frame, sdio_slc_isr, Host, Dma

\* A window that is given up stays quiet.
LEMMA GivenUpStep ==
    ASSUME SdioInv, TypeOK', Next
    PROVE  GivenUpInv'
  <1> USE SdioAssumption DEF SdioInv, TypeOK
  <1>0. env' = env
    BY DEF Next
  <1>1. CASE stub_target_sdio_init
    BY <1>0, <1>1, ResetFacts DEF stub_target_sdio_init, Running, MainType, GivenUpInv, GivenUp,
       Between, IsrType, HostType, RxType, ClientType, FlagType, ArmPcs, MainPcs
  <1>2. CASE RearmTestArmed
    BY <1>0, <1>2 DEF RearmTestArmed, Running, Goto, MainType, GivenUpInv, GivenUp, Between,
       IsrType, HostType, RxType, ClientType, FlagType, ArmPcs, MainPcs, driver
  <1>3. CASE RearmTestReady
    BY <1>0, <1>3 DEF RearmTestReady, Running, Goto, MainType, GivenUpInv, GivenUp, Between,
       IsrType, HostType, RxType, ClientType, FlagType, ArmPcs, MainPcs, driver
  <1>4. CASE RearmStart
    BY <1>0, <1>4 DEF RearmStart, Running, Goto, MainType, RxType, ClientType, GivenUpInv,
       GivenUp, Between, IsrType, HostType, FlagType, ArmPcs, MainPcs, driver
  <1>5. CASE RearmCredits
    BY <1>0, <1>5 DEF RearmCredits, Running, Goto, MainType, GivenUpInv, GivenUp, Between,
       IsrType, HostType, RxType, ClientType, FlagType, ArmPcs, MainPcs, driver
  <1>6. CASE RearmSetArmed
    BY <1>0, <1>6 DEF RearmSetArmed, Running, Goto, MainType, GivenUpInv, GivenUp, Between,
       IsrType, HostType, RxType, ClientType, FlagType, ArmPcs, MainPcs, driver
  <1>7. CASE TakeTest
    BY <1>0, <1>7, SMTT(30) DEF TakeTest, Running, Goto, MainType, ClientType, GivenUpInv,
       GivenUp,
       Between, IsrType, HostType, RxType, FlagType, ArmPcs, MainPcs, driver
  <1>8. CASE TakeClaim
    <2>1. /\ rx' = rx /\ host' = host /\ raw' = raw /\ s_rx_armed' = s_rx_armed
          /\ main'.pc = "process"
      BY <1>8 DEF TakeClaim, Goto, MainType
    <2>2. ~rx.running /\ client'.frame \in client.frame + 1 .. host.frame
      BY <1>8, ClaimFacts
    <2>3. ~env.rude => \/ client.frame = host.frame
                       \/ host.waiting /\ client.frame = host.frame - 1
      BY DEF GivenUpInv
    <2>4. client.frame \in Nat /\ host.frame \in Nat
      BY DEF ClientType, HostType
    <2> HIDE DEF SdioInv, TypeOK
    <2> QED BY <1>0, <2>1, <2>2, <2>3, <2>4 DEF GivenUpInv, GivenUp, ArmPcs
  <1>9. CASE ClientProcess
    BY <1>0, <1>9 DEF ClientProcess, Running, Goto, MainType, GivenUpInv, GivenUp, Between,
       IsrType, HostType, RxType, ClientType, FlagType, ArmPcs, MainPcs, driver
  <1>10. CASE TxSend
    BY <1>0, <1>10 DEF TxSend, Running, Goto, MainType, GivenUpInv, GivenUp, Between, IsrType,
       HostType, RxType, ClientType, FlagType, ArmPcs, MainPcs, driver
  <1>11. CASE TxWait
    BY <1>0, <1>11, SMTT(30) DEF TxWait, Running, Goto, TxReturn, MainType, ClientType,
       GivenUpInv,
       GivenUp, Between, IsrType, HostType, RxType, FlagType, ArmPcs, MainPcs, driver
  <1>12. CASE TxRead
    BY <1>0, <1>12 DEF TxRead, Running, TxReturn, MainType, ClientType, GivenUpInv, GivenUp,
       Between, IsrType, HostType, RxType, FlagType, ArmPcs, MainPcs, driver
  <1>13. CASE IsrEnter
    BY <1>0, <1>13 DEF IsrEnter, IsrType, GivenUpInv, GivenUp, Between, MainType, HostType,
       RxType, ClientType, FlagType, ArmPcs, MainPcs, driver
  <1>14. CASE IsrNoEof
    BY <1>0, <1>14 DEF IsrNoEof, IsrGoto, IsrType, GivenUpInv, GivenUp, Between, MainType,
       HostType, RxType, ClientType, FlagType, ArmPcs, MainPcs, driver
  <1>15. CASE IsrFetchNull
    <2>1. /\ rx' = rx /\ host' = host /\ client' = client /\ main' = main /\ s_rx_armed' = FALSE
          /\ s_rx_frame_ready' = s_rx_frame_ready
          /\ isr.pc = "eof" /\ "TX_SUC_EOF" \in isr.snap
          /\ raw' = raw \ {"TX_SUC_EOF"}
      BY <1>15 DEF IsrFetchNull
    <2>2. /\ rx.running /\ "TX_SUC_EOF" \in raw /\ Eofs # {} /\ main.pc # "init"
          /\ content[client.cur][1].frame \in client.frame + 1 .. host.frame
          /\ content[client.cur][1].frame = host.frame => host.done = host.of
      BY <2>1, FetchFacts
    <2>3. ~env.rude
      BY <1>15, <2>2 DEF IsrFetchNull, Tame
    <2>4. /\ client.frame = host.frame \/ (host.waiting /\ client.frame = host.frame - 1)
          /\ client.frame \in Nat /\ host.frame \in Nat /\ host.done \in Nat /\ host.of \in Nat
      BY <2>3 DEF GivenUpInv, ClientType, HostType
    <2>5. client.frame < host.frame /\ host.waiting /\ host.done = host.of
      BY <2>2, <2>4
    <2>6. ~s_rx_frame_ready
      BY <2>1, <2>2 DEF FlagInv
    <2>7. "TX_DSCR_EMPTY" \notin raw
      BY <2>2, <2>4, <2>5 DEF FlagInv
    <2> HIDE DEF SdioInv, TypeOK
    <2> QED BY <1>0, <2>1, <2>3, <2>4, <2>5, <2>6, <2>7 DEF GivenUpInv
  <1>16. CASE IsrFetch
    <2>1. /\ rx' = rx /\ host' = host /\ client' = client /\ main' = main
          /\ s_rx_armed' = s_rx_armed
          /\ isr.pc = "eof" /\ "TX_SUC_EOF" \in isr.snap
      BY <1>16 DEF IsrFetch
    <2>2. rx.running /\ "TX_SUC_EOF" \in raw
      BY <2>1, FetchFacts
    <2>3. ~GivenUp /\ GivenUpInv
      BY <2>2 DEF GivenUpInv
    <2> HIDE DEF SdioInv, TypeOK
    <2> QED BY <1>0, <2>1, <2>3 DEF GivenUpInv, GivenUp, Between
  <1>17. CASE IsrReset
    BY <1>0, <1>17, ResetFacts DEF IsrReset, IsrGoto, IsrType, GivenUpInv, GivenUp, Between,
       MainType, HostType, RxType, ClientType, FlagType, ArmPcs, MainPcs
  <1>18. CASE IsrClearErrors
    BY <1>0, <1>18 DEF IsrClearErrors, IsrGoto, IsrType, GivenUpInv, GivenUp, Between, MainType,
       HostType, RxType, ClientType, FlagType, ArmPcs, MainPcs, driver
  <1>19. CASE IsrEmpty
    <2>1. /\ main' = main /\ client' = client /\ s_rx_frame_ready' = s_rx_frame_ready
      BY <1>19 DEF IsrEmpty
    <2>2. GivenUpInv
      OBVIOUS
    <2>3. CASE "TX_DSCR_EMPTY" \in isr.snap
      <3>1. /\ rx'.running = FALSE /\ s_rx_armed' = FALSE
            /\ host'.frame = host.frame /\ host'.waiting = host.waiting
        BY <1>19, <2>3, ResetFacts DEF IsrEmpty
      <3> HIDE DEF SdioInv, TypeOK
      <3> QED BY <1>0, <2>1, <2>2, <3>1 DEF GivenUpInv, GivenUp
    <2>4. CASE "TX_DSCR_EMPTY" \notin isr.snap
      <3>1. rx' = rx /\ host' = host /\ raw' = raw /\ s_rx_armed' = s_rx_armed
        BY <1>19, <2>4 DEF IsrEmpty
      <3> HIDE DEF SdioInv, TypeOK
      <3> QED BY <1>0, <2>1, <2>2, <3>1 DEF GivenUpInv, GivenUp, Between
    <2> QED BY <2>3, <2>4
  <1>20. CASE HostBegin
    BY <1>0, <1>20 DEF HostBegin, HostType, GivenUpInv, GivenUp, Between, MainType, IsrType,
       RxType, ClientType, FlagType, ArmPcs, MainPcs, driver
  <1>21. CASE HostBlock
    BY <1>0, <1>21 DEF HostBlock, MayWrite, HostType, RxType, GivenUpInv, GivenUp, Between,
       MainType, IsrType, ClientType, FlagType, ArmPcs, MainPcs, driver
  <1>22. CASE HostBlockNoDesc
    BY <1>0, <1>22 DEF HostBlockNoDesc, MayWrite, GivenUpInv, GivenUp, Between, MainType,
       IsrType, HostType, RxType, ClientType, FlagType, ArmPcs, MainPcs, driver
  <1>23. CASE HostRead
    <2>1. /\ rx' = rx /\ client' = client /\ main' = main /\ s_rx_armed' = s_rx_armed
          /\ s_rx_frame_ready' = s_rx_frame_ready
          /\ raw' = raw \cup {"RX_EOF"} /\ txq # <<>>
      BY <1>23 DEF HostRead, driver
    <2>2. Head(txq) <= client.frame
      <3>1. 1 \in 1 .. Len(txq) /\ Head(txq) = txq[1]
        BY <2>1
      <3> QED BY <3>1 DEF TxqInv
    <2>3. /\ host'.frame = host.frame /\ host'.of = host.of /\ host'.done = host.done
          /\ host'.waiting = host.waiting \/ Head(txq) = host.frame
      BY <1>23 DEF HostRead, HostType
    <2>4. client.frame <= host.frame /\ client.frame \in Nat /\ host.frame \in Nat
      BY DEF HeldInv, ClientType, HostType
    <2>5. host'.waiting = host.waiting \/ client.frame = host.frame
      BY <2>2, <2>3, <2>4
    <2>6. GivenUpInv
      OBVIOUS
    <2> HIDE DEF SdioInv, TypeOK
    <2> QED BY <1>0, <2>1, <2>3, <2>4, <2>5, <2>6 DEF GivenUpInv, GivenUp, Between
  <1>24. CASE HostGivesUp
    BY <1>0, <1>24 DEF HostGivesUp, HostType, GivenUpInv, GivenUp, Between, MainType, IsrType,
       RxType, ClientType, FlagType, ArmPcs, MainPcs, driver
  <1>25. CASE DmaRxError
    BY <1>0, <1>25 DEF DmaRxError, MayWrite, GivenUpInv, GivenUp, Between, MainType, IsrType,
       HostType, RxType, ClientType, FlagType, ArmPcs, MainPcs, driver
  <1>26. CASE DmaTxError
    BY <1>0, <1>26 DEF DmaTxError, GivenUpInv, GivenUp, Between, MainType, IsrType, HostType,
       RxType, ClientType, FlagType, ArmPcs, MainPcs, driver
  <1> QED
    BY <1>1, <1>2, <1>3, <1>4, <1>5, <1>6, <1>7, <1>8, <1>9, <1>10, <1>11, <1>12, <1>13, <1>14,
       <1>15, <1>16, <1>17, <1>18, <1>19, <1>20, <1>21, <1>22, <1>23, <1>24, <1>25, <1>26 DEF
       Next, Main, rearm, take_rx_frame, tx_frame, sdio_slc_isr, Host, Dma

\* The window that rearm has opened stays open.
LEMMA ListenStep ==
    ASSUME SdioInv, ListenInv, TypeOK', Next
    PROVE  ListenInv'
  <1> USE SdioAssumption DEF SdioInv, TypeOK
  <1>0. env' = env
    BY DEF Next
  <1>1. CASE stub_target_sdio_init
    BY <1>0, <1>1, ResetFacts DEF stub_target_sdio_init, Running, MainType, ListenInv, Between,
       IsrType, RxType, FlagInv
  <1>2. CASE RearmTestArmed
    BY <1>0, <1>2 DEF RearmTestArmed, Running, Goto, MainType, ListenInv, Between, IsrType,
       RxType, FlagInv, driver
  <1>3. CASE RearmTestReady
    BY <1>0, <1>3 DEF RearmTestReady, Running, Goto, MainType, ListenInv, Between, IsrType,
       RxType, FlagInv, driver
  <1>4. CASE RearmStart
    <2>1. /\ rx' = [running |-> TRUE, buf |-> client.cur, filled |-> 0] /\ raw' = raw
          /\ isr' = isr
          /\ isr.pc = "off" /\ main.pc = "arm_start"
      BY <1>4 DEF RearmStart, Running
    <2>2. raw \cap {"TX_SUC_EOF", "TX_DSCR_EMPTY"} = {} /\ isr.snap = {}
      BY <2>1 DEF FlagInv, GivenUpInv, GivenUp, Between, ArmPcs
    <2> HIDE DEF SdioInv, TypeOK
    <2> QED BY <1>0, <2>1, <2>2 DEF ListenInv
  <1>5. CASE RearmCredits
    BY <1>0, <1>5 DEF RearmCredits, Running, Goto, MainType, ListenInv, Between, IsrType, RxType,
       FlagInv, driver
  <1>6. CASE RearmSetArmed
    BY <1>0, <1>6 DEF RearmSetArmed, Running, Goto, MainType, ListenInv, Between, IsrType,
       RxType, FlagInv, driver
  <1>7. CASE TakeTest
    BY <1>0, <1>7 DEF TakeTest, Running, Goto, MainType, ClientType, ListenInv, Between, IsrType,
       RxType, FlagInv, driver
  <1>8. CASE TakeClaim
    BY <1>0, <1>8 DEF TakeClaim, Running, Goto, MainType, ClientType, ListenInv, Between,
       IsrType, RxType, FlagInv, driver
  <1>9. CASE ClientProcess
    BY <1>0, <1>9 DEF ClientProcess, Running, Goto, MainType, ListenInv, Between, IsrType,
       RxType, FlagInv, driver
  <1>10. CASE TxSend
    BY <1>0, <1>10 DEF TxSend, Running, Goto, MainType, ListenInv, Between, IsrType, RxType,
       FlagInv, driver
  <1>11. CASE TxWait
    BY <1>0, <1>11 DEF TxWait, Running, Goto, TxReturn, MainType, ClientType, ListenInv, Between,
       IsrType, RxType, FlagInv, driver
  <1>12. CASE TxRead
    BY <1>0, <1>12 DEF TxRead, Running, TxReturn, MainType, ClientType, ListenInv, Between,
       IsrType, RxType, FlagInv, driver
  <1>13. CASE IsrEnter
    BY <1>0, <1>13 DEF IsrEnter, IsrType, ListenInv, Between, MainType, RxType, FlagInv, driver
  <1>14. CASE IsrNoEof
    BY <1>0, <1>14 DEF IsrNoEof, IsrGoto, IsrType, ListenInv, Between, MainType, RxType, FlagInv,
       driver
  <1>15. CASE IsrFetchNull
    BY <1>0, <1>15 DEF IsrFetchNull, IsrGoto, IsrType, ListenInv, Between, MainType, RxType,
       FlagInv, driver
  <1>16. CASE IsrFetch
    BY <1>0, <1>16 DEF IsrFetch, IsrGoto, IsrType, ListenInv, Between, MainType, RxType, FlagInv,
       driver
  <1>17. CASE IsrReset
    BY <1>0, <1>17, ResetFacts DEF IsrReset, IsrGoto, IsrType, ListenInv, Between, MainType,
       RxType, FlagInv
  <1>18. CASE IsrClearErrors
    BY <1>0, <1>18 DEF IsrClearErrors, IsrGoto, IsrType, ListenInv, Between, MainType, RxType,
       FlagInv, driver
  <1>19. CASE IsrEmpty
    BY <1>0, <1>19, ResetFacts DEF IsrEmpty, IsrType, ListenInv, Between, MainType, RxType,
       FlagInv
  <1>20. CASE HostBegin
    BY <1>0, <1>20 DEF HostBegin, HostType, ListenInv, Between, MainType, IsrType, RxType,
       FlagInv, driver
  <1>21. CASE HostBlock
    BY <1>0, <1>21 DEF HostBlock, MayWrite, HostType, RxType, ListenInv, Between, MainType,
       IsrType, FlagInv, driver
  <1>22. CASE HostBlockNoDesc
    BY <1>0, <1>22 DEF HostBlockNoDesc, MayWrite, ListenInv, Between, MainType, IsrType, RxType,
       FlagInv, driver
  <1>23. CASE HostRead
    BY <1>0, <1>23 DEF HostRead, HostType, ListenInv, Between, MainType, IsrType, RxType,
       FlagInv, driver
  <1>24. CASE HostGivesUp
    BY <1>0, <1>24 DEF HostGivesUp, HostType, ListenInv, Between, MainType, IsrType, RxType,
       FlagInv, driver
  <1>25. CASE DmaRxError
    BY <1>0, <1>25 DEF DmaRxError, MayWrite, ListenInv, Between, MainType, IsrType, RxType,
       FlagInv, driver
  <1>26. CASE DmaTxError
    BY <1>0, <1>26 DEF DmaTxError, ListenInv, Between, MainType, IsrType, RxType, FlagInv, driver
  <1> QED
    BY <1>1, <1>2, <1>3, <1>4, <1>5, <1>6, <1>7, <1>8, <1>9, <1>10, <1>11, <1>12, <1>13, <1>14,
       <1>15, <1>16, <1>17, <1>18, <1>19, <1>20, <1>21, <1>22, <1>23, <1>24, <1>25, <1>26 DEF
       Next, Main, rearm, take_rx_frame, tx_frame, sdio_slc_isr, Host, Dma

\* A reply that is fetched in time is fetched before tx_frame returns.
LEMMA ReplyStep ==
    ASSUME SdioInv, ReplyInv, TypeOK', Next
    PROVE  ReplyInv'
  <1> USE SdioAssumption DEF SdioInv, TypeOK
  <1>0. env' = env
    BY DEF Next
  <1>1. CASE stub_target_sdio_init
    BY <1>0, <1>1, ResetFacts DEF stub_target_sdio_init, Running, MainType, ReplyInv, FlagType,
       RxFlags, TxFlags
  <1>2. CASE RearmTestArmed
    BY <1>0, <1>2 DEF RearmTestArmed, Running, Goto, MainType, ReplyInv, FlagType, RxFlags,
       TxFlags, driver
  <1>3. CASE RearmTestReady
    BY <1>0, <1>3 DEF RearmTestReady, Running, Goto, MainType, ReplyInv, FlagType, RxFlags,
       TxFlags, driver
  <1>4. CASE RearmStart
    BY <1>0, <1>4 DEF RearmStart, Running, Goto, MainType, RxType, ClientType, ReplyInv,
       FlagType, RxFlags, TxFlags, driver
  <1>5. CASE RearmCredits
    BY <1>0, <1>5 DEF RearmCredits, Running, Goto, MainType, ReplyInv, FlagType, RxFlags,
       TxFlags, driver
  <1>6. CASE RearmSetArmed
    BY <1>0, <1>6 DEF RearmSetArmed, Running, Goto, MainType, ReplyInv, FlagType, RxFlags,
       TxFlags, driver
  <1>7. CASE TakeTest
    BY <1>0, <1>7 DEF TakeTest, Running, Goto, MainType, ClientType, ReplyInv, FlagType, RxFlags,
       TxFlags, driver
  <1>8. CASE TakeClaim
    BY <1>0, <1>8 DEF TakeClaim, Running, Goto, MainType, ClientType, ReplyInv, FlagType,
       RxFlags, TxFlags, driver
  <1>9. CASE ClientProcess
    BY <1>0, <1>9 DEF ClientProcess, Running, Goto, MainType, ReplyInv, FlagType, RxFlags,
       TxFlags, driver
  <1>10. CASE TxSend
    <2>1. /\ main.pc = "tx_send" /\ main'.pc = "tx_wait"
          /\ raw' \cap TxFlags = {} /\ (txq = <<>> => Len(txq') = 1)
      BY <1>10, SendFacts DEF TxSend, Running, Goto, MainType
    <2>2. ReplyInv
      OBVIOUS
    <2> HIDE DEF SdioInv, TypeOK
    <2>3. ASSUME "tx_timeout" \notin env.faults
          PROVE  Len(txq') <= 1
      <3>1. Len(txq') = 1
        BY <2>1, <2>2, <2>3 DEF ReplyInv
      <3> QED BY <3>1
    <2>4. (raw \cap TxFlags = {})'
      BY <2>1 DEF TxFlags
    <2> QED BY <1>0, <2>1, <2>3, <2>4, Zenon DEF ReplyInv
  <1>11. CASE TxWait
    BY <1>0, <1>11 DEF TxWait, Running, Goto, TxReturn, MainType, ClientType, ReplyInv, FlagType,
       RxFlags, TxFlags, driver
  <1>12. CASE TxRead
    BY <1>0, <1>12 DEF TxRead, Running, TxReturn, MainType, ClientType, ReplyInv, FlagType,
       RxFlags, TxFlags, driver
  <1>13. CASE IsrEnter
    BY <1>0, <1>13 DEF IsrEnter, IsrType, ReplyInv, MainType, FlagType, RxFlags, TxFlags, driver
  <1>14. CASE IsrNoEof
    BY <1>0, <1>14 DEF IsrNoEof, IsrGoto, IsrType, ReplyInv, MainType, FlagType, RxFlags,
       TxFlags, driver
  <1>15. CASE IsrFetchNull
    BY <1>0, <1>15 DEF IsrFetchNull, IsrGoto, IsrType, ReplyInv, MainType, FlagType, RxFlags,
       TxFlags, driver
  <1>16. CASE IsrFetch
    BY <1>0, <1>16 DEF IsrFetch, IsrGoto, IsrType, ReplyInv, MainType, FlagType, RxFlags,
       TxFlags, driver
  <1>17. CASE IsrReset
    <2>1. raw' = raw \ RxFlags /\ main' = main /\ txq' = txq
      BY <1>17, ResetFacts DEF IsrReset
    <2> HIDE DEF SdioInv, TypeOK
    <2> QED BY <1>0, <2>1 DEF ReplyInv
  <1>18. CASE IsrClearErrors
    BY <1>0, <1>18 DEF IsrClearErrors, IsrGoto, IsrType, ReplyInv, MainType, FlagType, RxFlags,
       TxFlags, driver
  <1>19. CASE IsrEmpty
    <2>1. main' = main /\ txq' = txq
      BY <1>19 DEF IsrEmpty
    <2>2. raw' \subseteq raw
      <3>1. CASE "TX_DSCR_EMPTY" \in isr.snap
        BY <1>19, <3>1, ResetFacts DEF IsrEmpty
      <3>2. CASE "TX_DSCR_EMPTY" \notin isr.snap
        BY <1>19, <3>2 DEF IsrEmpty
      <3> QED BY <3>1, <3>2
    <2> HIDE DEF SdioInv, TypeOK
    <2> QED BY <1>0, <2>1, <2>2 DEF ReplyInv
  <1>20. CASE HostBegin
    BY <1>0, <1>20 DEF HostBegin, HostType, ReplyInv, MainType, FlagType, RxFlags, TxFlags,
       driver
  <1>21. CASE HostBlock
    BY <1>0, <1>21 DEF HostBlock, MayWrite, HostType, RxType, ReplyInv, MainType, FlagType,
       RxFlags, TxFlags, driver
  <1>22. CASE HostBlockNoDesc
    BY <1>0, <1>22 DEF HostBlockNoDesc, MayWrite, ReplyInv, MainType, FlagType, RxFlags, TxFlags,
       driver
  <1>23. CASE HostRead
    BY <1>0, <1>23 DEF HostRead, HostType, ReplyInv, MainType, FlagType, RxFlags, TxFlags, driver
  <1>24. CASE HostGivesUp
    BY <1>0, <1>24 DEF HostGivesUp, HostType, ReplyInv, MainType, FlagType, RxFlags, TxFlags,
       driver
  <1>25. CASE DmaRxError
    BY <1>0, <1>25 DEF DmaRxError, MayWrite, ReplyInv, MainType, FlagType, RxFlags, TxFlags,
       driver
  <1>26. CASE DmaTxError
    BY <1>0, <1>26 DEF DmaTxError, ReplyInv, MainType, FlagType, RxFlags, TxFlags, driver
  <1> QED
    BY <1>1, <1>2, <1>3, <1>4, <1>5, <1>6, <1>7, <1>8, <1>9, <1>10, <1>11, <1>12, <1>13, <1>14,
       <1>15, <1>16, <1>17, <1>18, <1>19, <1>20, <1>21, <1>22, <1>23, <1>24, <1>25, <1>26 DEF
       Next, Main, rearm, take_rx_frame, tx_frame, sdio_slc_isr, Host, Dma

(***************************************************************************)
(* Theorems                                                                *)
(***************************************************************************)
\* A step of the system, or none, keeps the invariant.
LEMMA SdioStep ==
    SdioInv /\ ListenInv /\ ReplyInv /\ [Next]_vars => (SdioInv /\ ListenInv /\ ReplyInv)'
  <1>1. ASSUME SdioInv, ListenInv, ReplyInv, Next
        PROVE  (SdioInv /\ ListenInv /\ ReplyInv)'
    <2>1. TypeOK'
      BY <1>1, TypeStep DEF SdioInv
    <2>2. Tame'
      <3>1. env' = env /\ Tame
        BY <1>1 DEF Next, SdioInv
      <3> QED BY <3>1 DEF Tame
    <2>3. InitInv' /\ HeldInv' /\ TxqInv'
      BY <1>1, <2>1, InitStep, HeldStep, TxqStep
    <2>4. WindowInv' /\ AnnouncedInv'
      BY <1>1, <2>1, WindowStep, AnnouncedStep
    <2>5. FlagInv' /\ GivenUpInv'
      BY <1>1, <2>1, FlagStep, GivenUpStep
    <2>6. ListenInv' /\ ReplyInv'
      BY <1>1, <2>1, ListenStep, ReplyStep
    <2> QED BY <2>1, <2>2, <2>3, <2>4, <2>5, <2>6 DEF SdioInv
  <1>2. ASSUME SdioInv, ListenInv, ReplyInv, UNCHANGED vars
        PROVE  (SdioInv /\ ListenInv /\ ReplyInv)'
    <2>1. TypeOK' /\ Tame' /\ InitInv' /\ HeldInv' /\ TxqInv'
      BY <1>2 DEF SdioInv, TypeOK, Tame, InitInv, HeldInv, TxqInv, vars
    <2>2. WindowInv' /\ AnnouncedInv'
      BY <1>2 DEF SdioInv, WindowInv, AnnouncedInv, Begun, Ended, Eofs, OneFrame, vars
    <2>3. FlagInv' /\ GivenUpInv'
      BY <1>2 DEF SdioInv, FlagInv, GivenUpInv, GivenUp, Between, Eofs, vars
    <2>4. ListenInv' /\ ReplyInv'
      BY <1>2 DEF ListenInv, ReplyInv, Between, vars
    <2> QED BY <2>1, <2>2, <2>3, <2>4 DEF SdioInv
  <1> QED BY <1>1, <1>2

\* In every environment but the one where the host presses on after the ROM has lost its
\* frame, the driver, its handler and the DMA engine keep the invariant above.
THEOREM SdioInvariant == Spec /\ Tame => [](SdioInv /\ ListenInv /\ ReplyInv)
  BY InitSdio, SdioStep, PTL DEF Spec

\* Every variable of the driver, the hardware and the host keeps its type: no descriptor
\* index or length leaves the receive buffer.
THEOREM SdioTypeCorrect == Spec /\ Tame => []TypeOK
  <1>1. SdioInv => TypeOK
    BY DEF SdioInv
  <1> QED BY <1>1, SdioInvariant, PTL

\* A frame that sdio_process_from_host has announced, and one that take_rx_frame has
\* handed out, is one whole frame of the length the driver gives, until the client gives
\* it up: no window that rearm opens and nothing the host sends writes over it.
THEOREM SdioFrameIntact == Spec /\ Tame => []FrameIntact
  <1>1. SdioInv => FrameIntact
    BY DEF SdioInv, AnnouncedInv, FrameIntact
  <1> QED BY <1>1, SdioInvariant, PTL

\* If no block arrives between TXLINK_START and s_rx_armed = true, s_rx_armed is only set
\* while the DMA runs, so that rearm never skips a window that is closed.
THEOREM SdioArmedMeansListening == Spec /\ Tame => [](env.slow => ArmedMeansListening)
  <1>1. ListenInv => (env.slow => ArmedMeansListening)
    BY DEF ListenInv, ArmedMeansListening
  <1> QED BY <1>1, SdioInvariant, PTL

\* When the host fetches its replies in time, the DMA owns no reply once
\* stub_target_sdio_tx_frame has returned, whatever else goes wrong.
THEOREM SdioReplyReleased == Spec /\ Tame => []ReplyReleased
  <1>1. ReplyInv => ReplyReleased
    BY DEF ReplyInv, ReplyReleased
  <1> QED BY <1>1, SdioInvariant, PTL

(***************************************************************************)
(* The driver implements FrameTransport                                    *)
(***************************************************************************)
\* A step of the driver, the hardware or the host that FrameTransport does not see.
LEMMA SilentStep ==
    ASSUME host'.frame = host.frame, host'.waiting = host.waiting, client'.frame = client.frame,
           client'.held = client.held, env' = env
    PROVE  UNCHANGED Transport!vars
  BY DEF Transport!vars

\* Every step of SdioTransport is one of FrameTransport or none.
LEMMA TransportStep ==
    ASSUME SdioInv, Next
    PROVE  [Transport!Next]_Transport!vars
  <1>0. env' = env /\ TypeOK
    BY DEF Next, SdioInv
  <1>1. CASE stub_target_sdio_init
    <2>1. client' = client
      BY <1>1 DEF stub_target_sdio_init
    <2>2. host'.frame = host.frame /\ host'.waiting = host.waiting
      BY <1>1, <1>0, ResetFacts DEF stub_target_sdio_init, TypeOK, HostType
    <2> QED BY <1>0, <2>1, <2>2, SilentStep
  <1>2. CASE RearmTestArmed
    BY <1>0, <1>2, SilentStep DEF RearmTestArmed
  <1>3. CASE RearmTestReady
    BY <1>0, <1>3, SilentStep DEF RearmTestReady
  <1>4. CASE RearmStart
    BY <1>0, <1>4, SilentStep DEF RearmStart
  <1>5. CASE RearmCredits
    BY <1>0, <1>5, SilentStep DEF RearmCredits
  <1>6. CASE RearmSetArmed
    BY <1>0, <1>6, SilentStep DEF RearmSetArmed
  <1>7. CASE TakeTest
    <2>1. client'.frame = client.frame /\ client'.held = client.held /\ host' = host
      BY <1>7, <1>0 DEF TakeTest, TypeOK, ClientType
    <2> QED BY <1>0, <2>1, SilentStep
  <1>8. CASE TakeClaim
    <2>1. client'.frame \in client.frame + 1 .. host.frame /\ client'.held # 0
      <3>1. client'.held = client.cur /\ client.cur \in {1, 2}
        BY <1>8, <1>0, ClaimFacts DEF TypeOK, ClientType, Buffers
      <3> QED BY <1>8, <3>1, ClaimFacts
    <2>2. client.held = 0 /\ host' = host
      BY <1>8 DEF SdioInv, HeldInv, TakeClaim, Running, ArmPcs
    <2>3. Transport!Take
      BY <1>0, <2>1, <2>2 DEF Transport!Take
    <2> QED BY <2>3 DEF Transport!Next
  <1>9. CASE ClientProcess
    BY <1>0, <1>9, SilentStep DEF ClientProcess
  <1>10. CASE TxSend
    BY <1>0, <1>10, SilentStep DEF TxSend
  <1>11. CASE TxWait
    <2>1. CASE UNCHANGED client
      BY <1>11, <1>0, <2>1, SilentStep DEF TxWait
    <2>2. CASE TxReturn
      <3>1. client'.held = 0 /\ client'.frame = client.frame /\ client.held # 0 /\ host' = host
        BY <1>11, <1>0, <2>2 DEF TxWait, Running, TxReturn, SdioInv, HeldInv, TypeOK, ClientType
      <3>2. Transport!Release
        BY <1>0, <3>1 DEF Transport!Release
      <3> QED BY <3>2 DEF Transport!Next
    <2> QED BY <1>11, <2>1, <2>2 DEF TxWait
  <1>12. CASE TxRead
    <2>1. client'.held = 0 /\ client'.frame = client.frame /\ client.held # 0 /\ host' = host
      BY <1>12, <1>0 DEF TxRead, Running, TxReturn, SdioInv, HeldInv, TypeOK, ClientType
    <2>2. Transport!Release
      BY <1>0, <2>1 DEF Transport!Release
    <2> QED BY <2>2 DEF Transport!Next
  <1>13. CASE IsrEnter
    BY <1>0, <1>13, SilentStep DEF IsrEnter
  <1>14. CASE IsrNoEof
    BY <1>0, <1>14, SilentStep DEF IsrNoEof
  <1>15. CASE IsrFetchNull
    BY <1>0, <1>15, SilentStep DEF IsrFetchNull
  <1>16. CASE IsrFetch
    BY <1>0, <1>16, SilentStep DEF IsrFetch
  <1>17. CASE IsrReset
    <2>1. client' = client
      BY <1>17 DEF IsrReset
    <2>2. host'.frame = host.frame /\ host'.waiting = host.waiting
      BY <1>17, <1>0, ResetFacts DEF IsrReset, TypeOK, HostType
    <2> QED BY <1>0, <2>1, <2>2, SilentStep
  <1>18. CASE IsrClearErrors
    BY <1>0, <1>18, SilentStep DEF IsrClearErrors
  <1>19. CASE IsrEmpty
    <2>1. client' = client
      BY <1>19 DEF IsrEmpty
    <2>2. host'.frame = host.frame /\ host'.waiting = host.waiting
      BY <1>19, <1>0, ResetFacts DEF IsrEmpty, TypeOK, HostType
    <2> QED BY <1>0, <2>1, <2>2, SilentStep
  <1>20. CASE HostBegin
    <2>1. /\ ~host.waiting /\ host'.frame = host.frame + 1 /\ host'.waiting = TRUE
          /\ client' = client
      BY <1>20 DEF HostBegin
    <2>2. Transport!Send
      BY <1>0, <2>1 DEF Transport!Send
    <2> QED BY <2>2 DEF Transport!Next
  <1>21. CASE HostBlock
    <2>1. client' = client /\ host'.frame = host.frame /\ host'.waiting = host.waiting
      BY <1>21, <1>0 DEF HostBlock, TypeOK, HostType
    <2> QED BY <1>0, <2>1, SilentStep
  <1>22. CASE HostBlockNoDesc
    BY <1>0, <1>22, SilentStep DEF HostBlockNoDesc
  <1>23. CASE HostRead
    <2>1. CASE host.waiting /\ Head(txq) = host.frame
      <3>1. host'.frame = host.frame /\ host'.waiting = FALSE /\ client' = client /\ txq # <<>>
        BY <1>23, <1>0, <2>1 DEF HostRead, TypeOK, HostType
      <3>2. client.frame = host.frame
        <4>1. Head(txq) = txq[1] /\ 1 \in 1 .. Len(txq)
          BY <1>0, <3>1 DEF TypeOK
        <4>2. Head(txq) <= client.frame /\ client.frame <= host.frame
          BY <4>1 DEF SdioInv, TxqInv, HeldInv
        <4>3. client.frame \in Nat /\ host.frame \in Nat
          BY <1>0 DEF TypeOK, ClientType, HostType
        <4> QED BY <2>1, <4>2, <4>3
      <3>3. Transport!Answer
        BY <1>0, <2>1, <3>1, <3>2 DEF Transport!Answer
      <3> QED BY <3>3 DEF Transport!Next
    <2>2. CASE ~(host.waiting /\ Head(txq) = host.frame)
      <3>1. host'.frame = host.frame /\ client' = client
        BY <1>23, <1>0 DEF HostRead, TypeOK, HostType
      <3>2. host'.waiting = host.waiting
        BY <1>23, <1>0, <2>2 DEF HostRead, TypeOK, HostType
      <3> QED BY <1>0, <3>1, <3>2, SilentStep
    <2> QED BY <2>1, <2>2
  <1>24. CASE HostGivesUp
    <2>1. /\ env.rude /\ host.waiting /\ host'.frame = host.frame /\ host'.waiting = FALSE
          /\ client' = client
      BY <1>24, <1>0 DEF HostGivesUp, TypeOK, HostType
    <2>2. Transport!GiveUp
      BY <1>0, <2>1 DEF Transport!GiveUp
    <2> QED BY <2>2 DEF Transport!Next
  <1>25. CASE DmaRxError
    BY <1>0, <1>25, SilentStep DEF DmaRxError
  <1>26. CASE DmaTxError
    BY <1>0, <1>26, SilentStep DEF DmaTxError
  <1> QED
    BY <1>1, <1>2, <1>3, <1>4, <1>5, <1>6, <1>7, <1>8, <1>9, <1>10, <1>11, <1>12, <1>13, <1>14,
       <1>15, <1>16, <1>17, <1>18, <1>19, <1>20, <1>21, <1>22, <1>23, <1>24, <1>25, <1>26 DEF
       Next, Main, rearm, take_rx_frame, tx_frame, sdio_slc_isr, Host, Dma

\* stub_target_sdio_take_rx_frame hands out frames in the order they were sent and none
\* twice, and nobody but the client that has taken a frame answers it, whatever the
\* handler, the hardware and the host do in between: the specification of the driver
\* implies that of a FrameTransport.
THEOREM SdioIsFrameTransport == Spec /\ Tame => IsFrameTransport
  <1>1. Init => Transport!Init
    <2> SUFFICES ASSUME Init PROVE Transport!Init
      OBVIOUS
    <2>1. env.rude \in BOOLEAN
      BY SdioAssumption DEF Init, EnvironmentType
    <2> QED BY <2>1 DEF Init, Transport!Init
  <1>2. SdioInv /\ [Next]_vars => [Transport!Next]_Transport!vars
    <2>1. ASSUME SdioInv, UNCHANGED vars PROVE UNCHANGED Transport!vars
      BY <2>1 DEF vars, Transport!vars
    <2> QED BY <2>1, TransportStep
  <1> QED BY <1>1, <1>2, SdioInvariant, PTL DEF Spec, IsFrameTransport, Transport!Spec
=============================================================================
