--------------------------- MODULE SlaveSpiProofs ---------------------------
(***************************************************************************)
(* Proofs about SlaveSpi, for every number of frames, every set of         *)
(* environments and every target.                                          *)
(***************************************************************************)
EXTENDS SlaveSpi, TLAPS

(***************************************************************************)
(* The inductive invariant                                                 *)
(***************************************************************************)
MainPcs == {"init", "arm_test", "arm_announce", "take", "take_eof", "claim", "process",
            "tx_start"} \cup TxPcs
DmaType == [ena : {"off", "rx", "tx"}, in : {0, 1, 2}, drain : BOOLEAN, out : Nat, ram : BOOLEAN]
MainType == [pc : MainPcs, back : {"take", "tx_start"}]
ClientType == [cur : Buffers, held : {0, 1, 2}, frame : Nat]
HostType == [rx : {0, 1, 2}, tx : {0, 1, 2}, frame : Nat, writing : BOOLEAN, waiting : BOOLEAN,
             reading : BOOLEAN]
BytesType == [frame : Nat, whole : BOOLEAN]
LineType == [valid : BOOLEAN, bytes : BytesType, dirty : BOOLEAN]
TargetType == [engine : BOOLEAN, cached : BOOLEAN]

TypeOK ==
    /\ env \in EnvironmentType /\ target \in TargetType
    /\ s_seq_rx \in 0 .. 3 /\ s_seq_tx \in 0 .. 3
    /\ s_rx_armed \in BOOLEAN /\ s_rx_buf \in {0, 1, 2}
    /\ RXSTA \in 0 .. 3 /\ TXSTA \in 0 .. 3
    /\ cmd \in {"DONE", "IDLE", "READY", "ECHO"}
    /\ dma \in DmaType /\ raw \subseteq Events
    /\ content \in [Buffers -> BytesType] /\ line \in [Buffers -> LineType]
    /\ main \in MainType /\ client \in ClientType /\ host \in HostType

\* Before stub_target_slave_spi_init nothing has happened.
InitInv ==
    main.pc = "init" =>
        /\ cmd = "DONE" /\ RXSTA \in {0, 1} /\ TXSTA \in {0, 1} /\ dma.ena = "off" /\ ~dma.drain
        /\ raw = {} /\ host.rx = Fresh /\ host.tx = Fresh
        /\ ~host.writing /\ ~host.waiting /\ ~host.reading

\* Where a frame is the client's
HeldInv ==
    /\ client.held # 0 <=> \/ main.pc \in {"process", "tx_start"} \cup TxPcs
                           \/ /\ main.pc \in {"arm_test", "arm_announce"}
                              /\ main.back = "tx_start"
    /\ client.held # 0 => client.cur = 3 - client.held

\* What the driver knows of its window at each step
ArmedInv ==
    /\ main.pc \in {"take", "take_eof", "claim"} => s_rx_armed
    /\ main.pc \in {"init", "process", "arm_announce"} => ~s_rx_armed
    /\ main.pc \in {"take_eof", "claim"} => "RX_DONE" \in raw
    /\ main.pc = "claim" /\ target.engine => "IN_SUC_EOF" \in raw

\* A window is open, in the driver's books or about to be entered there.
Opened == s_rx_armed \/ main.pc = "arm_announce"

\* Which of the two directions has the DMA, and what for
DmaInv ==
    /\ main.pc \in TxPcs => dma.ena = "tx"
    /\ Opened /\ main.pc \notin TxPcs => dma.ena = "rx"
    /\ Opened => dma.in = s_rx_buf /\ s_rx_buf \in Buffers /\ ~line[s_rx_buf].dirty
    /\ dma.drain \/ dma.ena = "rx" => dma.in \in Buffers
    /\ dma.ena = "rx" => Opened \/ client.held # 0
    /\ dma.ena = "tx" => \/ main.pc \in TxPcs
                         \/ (main.pc = "arm_test" /\ main.back = "take" /\ ~s_rx_armed)
    /\ dma.ena = "tx" => dma.out = client.frame

\* The frames in the buffers and in the cache are the host's; the one it is writing is in
\* none of them, and what has been received into the open window is new to the client.
FrameInv ==
    /\ host.writing \/ host.reading => host.waiting
    /\ client.frame <= host.frame
    /\ \A b \in Buffers : content[b].frame <= host.frame /\ line[b].bytes.frame <= host.frame
    /\ host.writing =>
           /\ client.frame < host.frame
           /\ \A b \in Buffers : content[b].frame < host.frame /\ line[b].bytes.frame < host.frame
    /\ Opened /\ dma.ena = "rx" /\ ("RX_DONE" \in raw \/ dma.drain) =>
           client.frame < content[dma.in].frame

SpiInv == TypeOK /\ InitInv /\ HeldInv /\ ArmedInv /\ DmaInv /\ FrameInv

\* The toggle a host has seen that is up to date with the driver's word
UpToDate(seq) == IF seq = 3 THEN Fresh ELSE seq

\* The driver's word and the one in the register
WordInv(seq, word) == /\ seq \in {0, 1, 3}
                      /\ seq = 3 => word \in {0, 1}
                      /\ seq # 3 => ToggleBit(word) = seq

\* A reply is announced and the host has not begun to read it; the host has read it.
Offered == main.pc = "tx_done" /\ "TX_DONE" \notin raw /\ ~host.reading
Fetched == main.pc = "tx_out" \/ (main.pc = "tx_done" /\ "TX_DONE" \in raw)

ReplyInv ==
    main.pc # "init" =>
        /\ WordInv(s_seq_tx, TXSTA)
        /\ main.pc \in {"tx_done", "tx_out"} => s_seq_tx # 3
        /\ IF Offered THEN Ready(TXSTA, host.tx) ELSE host.tx = UpToDate(s_seq_tx)
        /\ "TX_DONE" \in raw => main.pc = "tx_done"
        /\ host.reading => main.pc = "tx_done" /\ "TX_DONE" \notin raw
        /\ client.held # 0 /\ ~Fetched =>
               host.waiting /\ ~host.writing /\ client.frame = host.frame

\* Of what the host has written, something has arrived in the open window.
Arrived == "RX_DONE" \in raw \/ "IN_SUC_EOF" \in raw \/ dma.drain

ArrivedInv ==
    /\ dma.ena # "rx" => ~dma.drain /\ "IN_SUC_EOF" \notin raw
    /\ dma.ena = "rx" /\ Arrived =>
           /\ Opened /\ host.waiting /\ ~host.writing
           /\ client.frame < host.frame /\ content[dma.in].frame = host.frame
           /\ ~dma.drain => content[dma.in].whole
           /\ target.engine => "RX_DONE" \in raw /\ ("IN_SUC_EOF" \in raw <=> ~dma.drain)
           /\ ~target.engine => ("RX_DONE" \in raw <=> ~dma.drain)

\* The claimed frame, in RAM and in the cache
ClaimedInv ==
    client.held # 0 =>
        /\ ~line[client.held].dirty
        /\ line[client.held].valid => line[client.held].bytes = content[client.held]
        /\ content[client.held] = Bytes(client.frame, TRUE)

\* While the host fetches its replies in time
InTimeInv == HostInTime => ReplyInv /\ ArrivedInv /\ ClaimedInv

\* While the engine, too, is in time: when it still reads the reply
ReleasedInv ==
    TxInTime =>
        /\ main.pc \notin TxPcs => ~dma.ram /\ "OUT_DONE" \notin raw
        /\ target.engine /\ "OUT_DONE" \in raw => ~dma.ram
        /\ ~target.engine /\ Fetched => ~dma.ram

\* The window is open and the host has not used it.
Unused == s_rx_armed /\ "RX_DONE" \notin raw /\ ~dma.drain /\ ~host.writing

\* While, besides, the host does not write before tx_frame has returned
VisibleInv ==
    TxInTime /\ ~env.prompt /\ main.pc # "init" =>
        /\ WordInv(s_seq_rx, RXSTA)
        /\ s_rx_armed => s_seq_rx # 3
        /\ IF Unused THEN Ready(RXSTA, host.rx) ELSE host.rx = UpToDate(s_seq_rx)
        /\ "RX_DONE" \in raw \/ dma.drain \/ host.writing => s_rx_armed /\ client.held = 0

FullInv == SpiInv /\ InTimeInv /\ ReleasedInv /\ VisibleInv
(***************************************************************************)
(* What the operations on the buffers do                                   *)
(***************************************************************************)
\* A line the cache does not have is neither valid nor dirty.
LEMMA NoLineFacts == ~NoLine.valid /\ ~NoLine.dirty /\ NoLine.bytes.frame = 0
  BY DEF NoLine, Bytes

\* A whole buffer is its frame.
LEMMA BytesFacts ==
    ASSUME NEW bytes \in BytesType, bytes.whole
    PROVE  bytes = Bytes(bytes.frame, TRUE)
  BY DEF Bytes, BytesType

\* spi_slv_rxdma_arm gives the receive DMA to b, loses RX_DONE and writes back b only.
LEMMA ArmFacts ==
    ASSUME TypeOK, NEW b \in Buffers, NEW events \in SUBSET Events,
           spi_slv_rxdma_arm(b, events)
    PROVE  /\ dma' \in DmaType /\ dma'.ena = "rx" /\ dma'.in = b /\ dma'.drain = FALSE
           /\ dma'.out = dma.out /\ dma'.ram = dma.ram
           /\ raw' = events \ {"RX_DONE"} /\ raw' \subseteq Events
           /\ content' \in [Buffers -> BytesType] /\ line' \in [Buffers -> LineType]
           /\ line'[b] = NoLine
           /\ content'[b] = IF line[b].dirty THEN line[b].bytes ELSE content[b]
           /\ \A c \in Buffers : c # b => content'[c] = content[c] /\ line'[c] = line[c]
  <1>1. /\ dma' \in DmaType /\ dma'.ena = "rx" /\ dma'.in = b /\ dma'.drain = FALSE
        /\ dma'.out = dma.out /\ dma'.ram = dma.ram
    BY DEF TypeOK, spi_slv_rxdma_arm, DmaType, Buffers
  <1>2. raw' = events \ {"RX_DONE"} /\ raw' \subseteq Events
    BY DEF spi_slv_rxdma_arm
  <1>3. NoLine \in LineType
    BY DEF NoLine, Bytes, LineType, BytesType
  <1>4. /\ line' \in [Buffers -> LineType] /\ line'[b] = NoLine
        /\ \A c \in Buffers : c # b => line'[c] = line[c]
    BY <1>3 DEF TypeOK, spi_slv_rxdma_arm, dcache_flush
  <1>5. line[b].bytes \in BytesType
    BY DEF TypeOK, LineType
  <1>6. /\ content' \in [Buffers -> BytesType]
        /\ content'[b] = IF line[b].dirty THEN line[b].bytes ELSE content[b]
        /\ \A c \in Buffers : c # b => content'[c] = content[c]
    BY <1>5 DEF TypeOK, spi_slv_rxdma_arm, dcache_flush
  <1> QED BY <1>1, <1>2, <1>4, <1>6

(***************************************************************************)
(* Initial states                                                          *)
(***************************************************************************)
\* The ROM's leftovers: no window, no reply, nothing in the cache.
LEMMA InitSpi == Init => FullInv
  <1> SUFFICES ASSUME Init PROVE FullInv
    OBVIOUS
  <1>1. TypeOK
    <2>1. env \in EnvironmentType
      BY SlaveSpiAssumption DEF Init
    <2>2. target \in TargetType
      <3>1. ASSUME NEW e \in BOOLEAN, NEW c \in BOOLEAN PROVE SpiTraits(e, c) \in TargetType
        BY <3>1 DEF SpiTraits, TargetType
      <3> QED BY <3>1 DEF Init, SpiTargets, Esp32s3Spi, Esp32c2Spi, Esp32c3Spi, Esp32s2Spi,
                          Esp32p4Spi
    <2>3. dma \in DmaType /\ main \in MainType /\ client \in ClientType /\ host \in HostType
      BY DEF Init, DmaType, MainType, MainPcs, ClientType, HostType, Buffers
    <2>4. content \in [Buffers -> BytesType] /\ line \in [Buffers -> LineType]
      BY DEF Init, NoLine, Bytes, LineType, BytesType
    <2>5. /\ s_seq_rx \in 0 .. 3 /\ s_seq_tx \in 0 .. 3 /\ s_rx_buf \in {0, 1, 2}
          /\ RXSTA \in 0 .. 3 /\ TXSTA \in 0 .. 3 /\ raw \subseteq Events
          /\ cmd \in {"DONE", "IDLE", "READY", "ECHO"}
      BY DEF Init
    <2>6. s_rx_armed \in BOOLEAN
      BY Zenon DEF Init
    <2> QED BY <2>1, <2>2, <2>3, <2>4, <2>5, <2>6 DEF TypeOK
  <1>2. InitInv /\ HeldInv /\ ArmedInv /\ DmaInv /\ FrameInv
    BY DEF Init, InitInv, HeldInv, ArmedInv, DmaInv, FrameInv, Opened, Fresh, TxPcs, Buffers,
           Bytes, NoLine
  <1>3. InTimeInv /\ ReleasedInv /\ VisibleInv
    BY DEF Init, InTimeInv, ReplyInv, ArrivedInv, Arrived, ClaimedInv, ReleasedInv, VisibleInv,
           TxPcs, Fetched
  <1> QED BY <1>1, <1>2, <1>3 DEF FullInv, SpiInv

(***************************************************************************)
(* Types                                                                   *)
(***************************************************************************)
\* The status words are two bits wide.
LEMMA WordFacts ==
    ASSUME NEW w \in 0 .. 3
    PROVE  /\ FlipToggle(w) \in 0 .. 3 /\ ClearInit(FlipToggle(w)) \in 0 .. 3
           /\ ToggleBit(w) \in {0, 1}
  BY DEF FlipToggle, ClearInit, ToggleBit

\* Every step keeps the variables in their types.
LEMMA TypeStep == ASSUME SpiInv, Next PROVE TypeOK'
  <1> USE DEF SpiInv, TypeOK
  <1>0. env' \in EnvironmentType
    BY DEF Next
  <1>a. ASSUME NEW pc \in MainPcs, Goto(pc) PROVE main' \in MainType
    BY <1>a DEF Goto, MainType
  <1>b. ASSUME NEW pc \in {"take", "tx_start"}, RearmThen(pc) PROVE main' \in MainType
    BY <1>b DEF RearmThen, MainType, MainPcs
  <1>c. main.back \in MainPcs
    BY DEF MainType, MainPcs
  <1>d. ASSUME TxReturn PROVE client' \in ClientType /\ main' \in MainType
    BY <1>b, <1>d DEF TxReturn, ClientType
  <1>e. NoLine \in LineType
    BY DEF NoLine, Bytes, LineType, BytesType
  <1>1. CASE stub_target_slave_spi_init
    <2>1. main' \in MainType
      BY <1>1, <1>b DEF stub_target_slave_spi_init
    <2>2. s_rx_armed' \in BOOLEAN
      BY <1>1, Zenon DEF stub_target_slave_spi_init
    <2> QED BY <1>0, <1>1, <2>1, <2>2 DEF stub_target_slave_spi_init, words, mem
  <1>2. CASE RearmArm
    <2>1. CASE s_rx_armed
      BY <1>0, <1>2, <1>a, <1>c, <2>1 DEF RearmArm, words, mem
    <2>2. CASE ~s_rx_armed
      <3>1. main' \in MainType
        BY <1>2, <1>a, <2>2 DEF RearmArm, MainPcs
      <3>2. client.cur \in Buffers /\ raw \in SUBSET Events
        BY DEF ClientType
      <3>3. /\ dma' \in DmaType /\ raw' \subseteq Events
            /\ content' \in [Buffers -> BytesType] /\ line' \in [Buffers -> LineType]
        BY <1>2, <2>2, <3>2, ArmFacts DEF RearmArm
      <3>4. s_rx_buf' \in {0, 1, 2}
        BY <1>2, <2>2, <3>2 DEF RearmArm, Buffers
      <3> QED BY <1>0, <1>2, <3>1, <3>3, <3>4 DEF RearmArm, words
    <2> QED BY <2>1, <2>2
  <1>3. CASE RearmAnnounce
    <2>1. main' \in MainType
      BY <1>3, <1>a, <1>c DEF RearmAnnounce
    <2>2. s_rx_armed' \in BOOLEAN
      BY <1>3, Zenon DEF RearmAnnounce
    <2> QED BY <1>0, <1>3, <2>1, <2>2, WordFacts DEF RearmAnnounce, mem
  <1>4. CASE TakeTest
    <2>1. main' \in MainType
      BY <1>4, <1>a, <1>b DEF TakeTest, MainPcs
    <2> QED BY <1>0, <1>4, <2>1 DEF TakeTest, driver, words, mem
  <1>5. CASE TakeEof
    <2>1. main' \in MainType
      BY <1>5, <1>a, <1>b DEF TakeEof, MainPcs
    <2> QED BY <1>0, <1>5, <2>1 DEF TakeEof, driver, words, mem
  <1>6. CASE TakeClaim
    <2>1. main' \in MainType
      BY <1>6, <1>a DEF TakeClaim, MainPcs
    <2>2. s_rx_armed' \in BOOLEAN
      BY <1>6, Zenon DEF TakeClaim
    <2>3. s_rx_buf \in Buffers
      BY <1>6 DEF TakeClaim, ArmedInv, DmaInv, Opened
    <2>4. client' \in ClientType
      BY <1>6, <2>3 DEF TakeClaim, ClaimFrame, ClientType, Buffers, BytesType
    <2>5. line' \in [Buffers -> LineType]
      BY <1>6, <1>e DEF TakeClaim, dcache_invalidate
    <2> QED BY <1>0, <1>6, <2>1, <2>2, <2>4, <2>5 DEF TakeClaim, words
  <1>7. CASE ClientProcess
    <2>1. main' \in MainType
      BY <1>7, <1>a, <1>b DEF ClientProcess, MainPcs
    <2> QED BY <1>0, <1>7, <2>1 DEF ClientProcess, driver, words, mem
  <1>8. CASE TxStart
    <2>1. main' \in MainType
      BY <1>8, <1>a DEF TxStart, MainPcs, TxPcs
    <2>2. client.frame \in Nat /\ dma.drain \in BOOLEAN
      BY DEF ClientType, DmaType
    <2>3. dma' \in DmaType
      BY <1>8, <2>2 DEF TxStart, DmaType
    <2> QED BY <1>0, <1>8, <2>1, <2>3 DEF TxStart, driver, words, mem
  <1>9. CASE TxAnnounce
    <2>1. main' \in MainType
      BY <1>9, <1>a DEF TxAnnounce, MainPcs, TxPcs
    <2> QED BY <1>0, <1>9, <2>1, WordFacts DEF TxAnnounce, mem
  <1>10. CASE TxWaitDone
    <2>1. main' \in MainType /\ client' \in ClientType
      BY <1>10, <1>a, <1>d DEF TxWaitDone, MainPcs, TxPcs
    <2>2. s_rx_armed' \in BOOLEAN
      BY <1>10, Zenon DEF TxWaitDone
    <2> QED BY <1>0, <1>10, <2>1, <2>2 DEF TxWaitDone, words, mem
  <1>11. CASE TxWaitOut
    <2>1. main' \in MainType /\ client' \in ClientType
      BY <1>11, <1>d DEF TxWaitOut
    <2>2. CASE s_rx_armed
      <3>1. s_rx_buf \in Buffers /\ raw \ {"OUT_DONE"} \in SUBSET Events
        BY <2>2 DEF DmaInv, Opened
      <3>2. /\ dma' \in DmaType /\ raw' \subseteq Events
            /\ content' \in [Buffers -> BytesType] /\ line' \in [Buffers -> LineType]
        BY <1>11, <2>2, <3>1, ArmFacts DEF TxWaitOut
      <3> QED BY <1>0, <1>11, <2>1, <3>2 DEF TxWaitOut, driver, words
    <2>3. CASE ~s_rx_armed
      BY <1>0, <1>11, <2>1, <2>3 DEF TxWaitOut, driver, words, mem
    <2> QED BY <2>2, <2>3
  <1>12. CASE TxOutTimeout
    <2>1. main' \in MainType /\ client' \in ClientType
      BY <1>12, <1>d DEF TxOutTimeout
    <2>2. s_rx_armed' \in BOOLEAN
      BY <1>12, Zenon DEF TxOutTimeout
    <2> QED BY <1>0, <1>12, <2>1, <2>2 DEF TxOutTimeout, words, mem
  <1>13. CASE HostConnect
    BY <1>0, <1>13 DEF HostConnect, driver, words, mem
  <1>14. CASE HostBegin
    <2>1. ToggleBit(RXSTA) \in {0, 1, 2}
      BY WordFacts
    <2>2. host.frame + 1 \in Nat
      BY DEF HostType
    <2>3. host' \in HostType
      BY <1>14, <2>1, <2>2 DEF HostBegin, HostType
    <2> QED BY <1>0, <1>14, <2>3 DEF HostBegin, driver, words, mem
  <1>15. CASE HostWrite
    <2>1. host' \in HostType
      BY <1>15 DEF HostWrite, HostType
    <2>2. raw' \subseteq Events
      BY <1>15 DEF HostWrite, Events
    <2>3. Bytes(host.frame, FALSE) \in BytesType
      BY DEF Bytes, BytesType, HostType
    <2>4. content' \in [Buffers -> BytesType]
      BY <1>15, <2>3 DEF HostWrite
    <2>5. dma' \in DmaType
      BY <1>15 DEF HostWrite, DmaType
    <2> QED BY <1>0, <1>15, <2>1, <2>2, <2>4, <2>5 DEF HostWrite, driver, words
  <1>16. CASE DmaIn
    <2>1. raw' \subseteq Events
      BY <1>16 DEF DmaIn, Events
    <2>2. content' \in [Buffers -> BytesType]
      BY <1>16 DEF DmaIn, BytesType
    <2>3. dma' \in DmaType
      BY <1>16 DEF DmaIn, DmaType
    <2> QED BY <1>0, <1>16, <2>1, <2>2, <2>3 DEF DmaIn, driver, words
  <1>17. CASE HostFetch
    <2>1. ToggleBit(TXSTA) \in {0, 1, 2}
      BY WordFacts
    <2>2. host' \in HostType
      BY <1>17, <2>1 DEF HostFetch, HostType
    <2> QED BY <1>0, <1>17, <2>2 DEF HostFetch, driver, words, mem
  <1>18. CASE HostRead
    <2>1. host' \in HostType
      BY <1>18 DEF HostRead, HostType
    <2>2. raw' \subseteq Events
      BY <1>18 DEF HostRead, Events
    <2> QED BY <1>0, <1>18, <2>1, <2>2 DEF HostRead, driver, words, mem
  <1>19. CASE HostGivesUp
    <2>1. host' \in HostType
      BY <1>19 DEF HostGivesUp, HostType
    <2> QED BY <1>0, <1>19, <2>1 DEF HostGivesUp, driver, words, mem
  <1>20. CASE DmaOut
    <2>1. raw' \subseteq Events
      BY <1>20 DEF DmaOut, Events
    <2>2. dma' \in DmaType
      BY <1>20 DEF DmaOut, DmaType
    <2> QED BY <1>0, <1>20, <2>1, <2>2 DEF DmaOut, driver, words, mem
  <1>21. ASSUME NEW b \in Buffers, CacheFills(b) PROVE TypeOK'
    <2>1. line' \in [Buffers -> LineType]
      BY <1>21 DEF CacheFills, LineType
    <2> QED BY <1>0, <1>21, <2>1 DEF CacheFills, driver, words
  <1>22. ASSUME NEW b \in Buffers, CacheEvicts(b) PROVE TypeOK'
    <2>1. line' \in [Buffers -> LineType]
      BY <1>22, <1>e DEF CacheEvicts, dcache_flush
    <2>2. line[b].bytes \in BytesType
      BY <1>22 DEF LineType
    <2>3. content' \in [Buffers -> BytesType]
      BY <1>22, <2>2 DEF CacheEvicts, dcache_flush
    <2> QED BY <1>0, <1>22, <2>1, <2>3 DEF CacheEvicts, driver, words
  <1>23. ASSUME NEW b \in Buffers, ClientWrites(b) PROVE TypeOK'
    <2>1. Bytes(0, FALSE) \in BytesType
      BY DEF Bytes, BytesType
    <2>2. line' \in [Buffers -> LineType]
      BY <1>23, <2>1 DEF ClientWrites, LineType
    <2> QED BY <1>0, <1>23, <2>2 DEF ClientWrites, driver, words
  <1> HIDE DEF SpiInv, TypeOK
  <1> QED
    BY <1>1, <1>2, <1>3, <1>4, <1>5, <1>6, <1>7, <1>8, <1>9, <1>10, <1>11, <1>12, <1>13, <1>14,
       <1>15, <1>16, <1>17, <1>18, <1>19, <1>20, <1>21, <1>22, <1>23
    DEF Next, Main, rearm, take_rx_frame, tx_frame, Host, Dma, Cache

(***************************************************************************)
(* Steps                                                                   *)
(***************************************************************************)
\* Host, engine and cache leave the driver's variables alone.
LEMMA OutsideFacts ==
    ASSUME Host \/ Dma \/ Cache
    PROVE  UNCHANGED <<target, driver, main, client>>
  BY DEF Host, HostConnect, HostBegin, HostWrite, HostFetch, HostRead, HostGivesUp, Dma, DmaIn,
         DmaOut, Cache, CacheFills, CacheEvicts, ClientWrites, driver

\* RearmArm with no window open
LEMMA RearmFacts ==
    ASSUME SpiInv, RearmArm, ~s_rx_armed
    PROVE  /\ main.pc = "arm_test" /\ main'.pc = "arm_announce" /\ main'.back = main.back
           /\ s_rx_buf' = client.cur /\ client.cur \in Buffers
           /\ dma'.ena = "rx" /\ dma'.in = client.cur /\ dma'.drain = FALSE
           /\ dma'.ram = dma.ram /\ raw' = raw \ {"RX_DONE"}
           /\ line'[client.cur] = NoLine
           /\ content'[client.cur] = IF line[client.cur].dirty THEN line[client.cur].bytes
                                                               ELSE content[client.cur]
           /\ \A c \in Buffers : c # client.cur => content'[c] = content[c] /\ line'[c] = line[c]
           /\ UNCHANGED <<target, s_seq_rx, s_rx_armed, RXSTA, client, host>>
  <1>1. client.cur \in Buffers /\ raw \in SUBSET Events
    BY DEF SpiInv, TypeOK, ClientType
  <1>2. spi_slv_rxdma_arm(client.cur, raw) /\ s_rx_buf' = client.cur /\ TypeOK
    BY DEF RearmArm, SpiInv
  <1>3. main.pc = "arm_test" /\ main'.pc = "arm_announce" /\ main'.back = main.back
    BY DEF RearmArm, Goto, SpiInv, TypeOK, MainType
  <1>4. UNCHANGED <<target, s_seq_rx, s_rx_armed, RXSTA, client, host>>
    BY DEF RearmArm, words
  <1> QED BY <1>1, <1>2, <1>3, <1>4, ArmFacts

\* tx_frame gives an open window its DMA back.
LEMMA TxReArmFacts ==
    ASSUME SpiInv, TxWaitOut, s_rx_armed
    PROVE  /\ main.pc = "tx_out" /\ main'.pc = "arm_test" /\ main'.back = "take"
           /\ s_rx_buf \in Buffers /\ client'.held = 0 /\ client'.frame = client.frame
           /\ dma'.ena = "rx" /\ dma'.in = s_rx_buf /\ dma'.drain = FALSE
           /\ dma'.ram = dma.ram /\ raw' = (raw \ {"OUT_DONE"}) \ {"RX_DONE"}
           /\ line'[s_rx_buf] = NoLine
           /\ content'[s_rx_buf] = IF line[s_rx_buf].dirty THEN line[s_rx_buf].bytes
                                                           ELSE content[s_rx_buf]
           /\ \A c \in Buffers : c # s_rx_buf => content'[c] = content[c] /\ line'[c] = line[c]
           /\ target.engine => "OUT_DONE" \in raw
           /\ UNCHANGED <<target, s_rx_armed, s_rx_buf, host>>
  <1>1. s_rx_buf \in Buffers /\ raw \ {"OUT_DONE"} \in SUBSET Events
    BY DEF SpiInv, TypeOK, DmaInv, Opened
  <1>2. spi_slv_rxdma_arm(s_rx_buf, raw \ {"OUT_DONE"}) /\ TypeOK
    BY DEF TxWaitOut, SpiInv
  <1>3. main.pc = "tx_out" /\ main'.pc = "arm_test" /\ main'.back = "take"
    BY DEF TxWaitOut, TxReturn, RearmThen
  <1>4. client'.held = 0 /\ client'.frame = client.frame
    BY DEF TxWaitOut, TxReturn, SpiInv, TypeOK, ClientType
  <1>5. UNCHANGED <<target, s_rx_armed, s_rx_buf, host>> /\ (target.engine => "OUT_DONE" \in raw)
    BY DEF TxWaitOut, driver
  <1> QED BY <1>1, <1>2, <1>3, <1>4, <1>5, ArmFacts

\* rearm: the receive DMA gets the buffer the driver notes, and no dirty line is left.
LEMMA RearmDma == ASSUME SpiInv, RearmArm, ~s_rx_armed PROVE DmaInv'
  <1>1. ~line'[client.cur].dirty
    BY RearmFacts, NoLineFacts
  <1> QED BY <1>1, RearmFacts DEF DmaInv, Opened, TxPcs

\* rearm: the buffer holds what it held, or the client's own writes to it.
LEMMA RearmFrame == ASSUME SpiInv, RearmArm, ~s_rx_armed PROVE FrameInv'
  <1>1. FrameInv
    BY DEF SpiInv
  <1>2. ASSUME NEW c \in Buffers
        PROVE  /\ content'[c].frame <= host.frame /\ line'[c].bytes.frame <= host.frame
               /\ host.writing =>
                      content'[c].frame < host.frame /\ line'[c].bytes.frame < host.frame
    <2>1. CASE c = client.cur
      <3>1. line'[c].bytes.frame = 0 /\ host.frame \in Nat /\ client.frame \in Nat
        BY <2>1, RearmFacts, NoLineFacts DEF SpiInv, TypeOK, HostType, ClientType
      <3>2. content'[c] = line[c].bytes \/ content'[c] = content[c]
        BY <2>1, RearmFacts
      <3> QED BY <1>1, <3>1, <3>2 DEF FrameInv
    <2>2. CASE c # client.cur
      BY <1>1, <1>2, <2>2, RearmFacts DEF FrameInv
    <2> QED BY <2>1, <2>2
  <1> QED BY <1>1, <1>2, RearmFacts DEF FrameInv, Opened

\* tx_frame: the DMA is the window's again.
LEMMA TxReArmDma == ASSUME SpiInv, TxWaitOut, s_rx_armed PROVE DmaInv'
  <1>1. ~line'[s_rx_buf].dirty
    BY TxReArmFacts, NoLineFacts
  <1> QED BY <1>1, TxReArmFacts DEF DmaInv, Opened, TxPcs

\* tx_frame: RX_DONE is forgotten, so that nothing counts as received.
LEMMA TxReArmFrame == ASSUME SpiInv, TxWaitOut, s_rx_armed PROVE FrameInv'
  <1>1. FrameInv
    BY DEF SpiInv
  <1>2. ASSUME NEW c \in Buffers
        PROVE  /\ content'[c].frame <= host.frame /\ line'[c].bytes.frame <= host.frame
               /\ host.writing =>
                      content'[c].frame < host.frame /\ line'[c].bytes.frame < host.frame
    <2>1. CASE c = s_rx_buf
      <3>1. line'[c].bytes.frame = 0 /\ host.frame \in Nat /\ client.frame \in Nat
        BY <2>1, TxReArmFacts, NoLineFacts DEF SpiInv, TypeOK, HostType, ClientType
      <3>2. content'[c] = line[c].bytes \/ content'[c] = content[c]
        BY <2>1, TxReArmFacts
      <3> QED BY <1>1, <3>1, <3>2 DEF FrameInv
    <2>2. CASE c # s_rx_buf
      BY <1>1, <1>2, <2>2, TxReArmFacts DEF FrameInv
    <2> QED BY <2>1, <2>2
  <1> QED BY <1>1, <1>2, TxReArmFacts DEF FrameInv, Opened

\* take_rx_frame hands out a frame.
LEMMA ClaimFacts ==
    ASSUME SpiInv, TakeClaim
    PROVE  /\ s_rx_buf \in Buffers /\ client'.held = s_rx_buf /\ client'.cur = 3 - s_rx_buf
           /\ client'.frame = content[s_rx_buf].frame
           /\ client'.frame \in client.frame + 1 .. host.frame
           /\ client.held = 0 /\ s_rx_armed' = FALSE /\ main'.pc = "process"
           /\ dma.ena = "rx" /\ dma.in = s_rx_buf /\ "RX_DONE" \in raw
           /\ target.engine => "IN_SUC_EOF" \in raw
           /\ line'[s_rx_buf] = NoLine /\ ~line'[s_rx_buf].valid /\ ~line'[s_rx_buf].dirty
           /\ \A c \in Buffers : c # s_rx_buf => line'[c] = line[c]
           /\ UNCHANGED <<target, dma, content, host>>
  <1>1. main.pc = "claim" /\ s_rx_armed /\ s_rx_buf \in Buffers
    BY DEF TakeClaim, SpiInv, ArmedInv, DmaInv, Opened
  <1>2. /\ client'.held = s_rx_buf /\ client'.cur = 3 - s_rx_buf
        /\ client'.frame = content[s_rx_buf].frame
    BY DEF TakeClaim, ClaimFrame
  <1>3. /\ dma.ena = "rx" /\ dma.in = s_rx_buf /\ "RX_DONE" \in raw
        /\ target.engine => "IN_SUC_EOF" \in raw
    BY <1>1 DEF SpiInv, ArmedInv, DmaInv, Opened, TxPcs
  <1>4. client.frame < content[s_rx_buf].frame /\ content[s_rx_buf].frame <= host.frame
    BY <1>1, <1>3 DEF SpiInv, FrameInv, Opened
  <1>5. client.frame \in Nat /\ host.frame \in Nat /\ content[s_rx_buf].frame \in Nat
    BY <1>1 DEF SpiInv, TypeOK, ClientType, HostType, BytesType
  <1>6. client.held = 0
    BY <1>1 DEF SpiInv, HeldInv, TxPcs
  <1>7. s_rx_armed' = FALSE /\ main'.pc = "process" /\ UNCHANGED <<target, dma, content, host>>
    BY DEF TakeClaim, Goto, SpiInv, TypeOK, MainType
  <1>8. /\ line'[s_rx_buf] = NoLine
        /\ \A c \in Buffers : c # s_rx_buf => line'[c] = line[c]
    BY <1>1 DEF TakeClaim, dcache_invalidate, SpiInv, TypeOK
  <1>9. ~line'[s_rx_buf].valid /\ ~line'[s_rx_buf].dirty
    BY <1>8, NoLineFacts
  <1> QED BY <1>1, <1>2, <1>3, <1>4, <1>5, <1>6, <1>7, <1>8, <1>9


\* take_rx_frame: the frame handed out is not the one the host is writing.
LEMMA ClaimFrameInv == ASSUME SpiInv, TakeClaim PROVE FrameInv'
  <1>1. FrameInv
    BY DEF SpiInv
  <1>2. /\ s_rx_armed' = FALSE /\ main'.pc = "process" /\ s_rx_buf \in Buffers
        /\ client'.frame = content[s_rx_buf].frame /\ host' = host /\ content' = content
    BY ClaimFacts
  <1>3. host.frame \in Nat /\ client.frame \in Nat
    BY DEF SpiInv, TypeOK, HostType, ClientType
  <1>4. ASSUME NEW c \in Buffers
        PROVE  line'[c].bytes.frame = 0 \/ line'[c].bytes.frame = line[c].bytes.frame
    <2>1. CASE c = s_rx_buf
      BY <2>1, ClaimFacts, NoLineFacts
    <2>2. CASE c # s_rx_buf
      BY <1>4, <2>2, ClaimFacts
    <2> QED BY <2>1, <2>2
  <1>5. ASSUME NEW c \in Buffers
        PROVE  /\ line'[c].bytes.frame <= host.frame
               /\ host.writing => line'[c].bytes.frame < host.frame
    BY <1>1, <1>3, <1>4, <1>5 DEF FrameInv
  <1> QED BY <1>1, <1>2, <1>5 DEF FrameInv, Opened

\* rearm, when the engine is done with the last reply
LEMMA RearmReleased ==
    ASSUME SpiInv, ReleasedInv, TxInTime, RearmArm, ~s_rx_armed
    PROVE  ReleasedInv'
  <1>1. ~dma.ram /\ "OUT_DONE" \notin raw
    BY RearmFacts DEF ReleasedInv, TxPcs
  <1>2. ~dma'.ram /\ "OUT_DONE" \notin raw'
    BY <1>1, RearmFacts
  <1> QED BY <1>2 DEF ReleasedInv

\* tx_frame, when it has waited for the engine
LEMMA TxReArmReleased ==
    ASSUME SpiInv, ReleasedInv, TxInTime, TxWaitOut, s_rx_armed
    PROVE  ReleasedInv'
  <1>1. main.pc = "tx_out" /\ (target.engine => "OUT_DONE" \in raw)
    BY TxReArmFacts
  <1>2. ~dma.ram
    BY <1>1 DEF ReleasedInv, Fetched
  <1>3. ~dma'.ram /\ "OUT_DONE" \notin raw'
    BY <1>2, TxReArmFacts
  <1> QED BY <1>3 DEF ReleasedInv

\* tx_frame: what the engine has reported of the last frame is used up.
LEMMA TxReArmArrived ==
    ASSUME SpiInv, ArrivedInv, TxWaitOut, s_rx_armed
    PROVE  ArrivedInv'
  <1>1. main.pc = "tx_out" /\ dma.ena = "tx"
    BY TxReArmFacts DEF SpiInv, DmaInv, TxPcs
  <1>2. "IN_SUC_EOF" \notin raw
    BY <1>1 DEF ArrivedInv
  <1>3. dma'.ena = "rx" /\ ~Arrived'
    BY <1>2, TxReArmFacts DEF Arrived
  <1> QED BY <1>3 DEF ArrivedInv

\* rearm: the host has used the last window up, and knows.
LEMMA RearmVisible ==
    ASSUME SpiInv, VisibleInv, TxInTime, ~env.prompt, RearmArm, ~s_rx_armed
    PROVE  VisibleInv'
  <1>1. main.pc = "arm_test"
    BY RearmFacts
  <1>2. /\ WordInv(s_seq_rx, RXSTA) /\ host.rx = UpToDate(s_seq_rx)
        /\ "RX_DONE" \notin raw /\ ~dma.drain /\ ~host.writing
    BY <1>1 DEF VisibleInv, Unused
  <1>3. /\ s_rx_armed' = s_rx_armed /\ s_seq_rx' = s_seq_rx /\ RXSTA' = RXSTA /\ host' = host
        /\ "RX_DONE" \notin raw' /\ ~dma'.drain
    BY RearmFacts
  <1>4. ~Unused'
    BY <1>3 DEF Unused
  <1> QED BY <1>2, <1>3, <1>4 DEF VisibleInv, WordInv

\* tx_frame: the window the host has not used is still there.
LEMMA TxReArmVisible ==
    ASSUME SpiInv, VisibleInv, TxInTime, ~env.prompt, TxWaitOut, s_rx_armed
    PROVE  VisibleInv'
  <1>1. main.pc = "tx_out" /\ client.held # 0
    BY TxReArmFacts DEF SpiInv, HeldInv, TxPcs
  <1>2. WordInv(s_seq_rx, RXSTA) /\ s_seq_rx # 3 /\ Unused /\ Ready(RXSTA, host.rx)
    BY <1>1 DEF VisibleInv, Unused
  <1>3. s_rx_armed' = s_rx_armed /\ s_seq_rx' = s_seq_rx /\ RXSTA' = RXSTA /\ host' = host
    BY DEF TxWaitOut, driver, words
  <1>4. "RX_DONE" \notin raw' /\ ~dma'.drain
    BY TxReArmFacts
  <1>5. Unused'
    BY <1>2, <1>3, <1>4 DEF Unused
  <1>6. Ready(RXSTA, host.rx)'
    BY <1>2, <1>3 DEF Ready
  <1>7. ~host.writing
    BY <1>2 DEF Unused
  <1> QED BY <1>2, <1>3, <1>4, <1>5, <1>6, <1>7 DEF VisibleInv, WordInv

\* Only stub_target_slave_spi_init leaves its state behind.
LEMMA InitStep == ASSUME SpiInv, Next PROVE InitInv'
  <1> USE DEF SpiInv, InitInv, TypeOK, MainPcs, TxPcs, DmaType, MainType, ClientType, HostType,
           BytesType, LineType, TargetType, Buffers, Events, Fresh
  <1>0. env' = env
    BY DEF Next
  <1>1. CASE stub_target_slave_spi_init
    BY <1>0, <1>1 DEF stub_target_slave_spi_init, words, mem, RearmThen
  <1>2. CASE RearmArm
    BY <1>0, <1>2 DEF RearmArm, words, Goto, spi_slv_rxdma_arm, dcache_flush, NoLine, Bytes, mem
  <1>3. CASE RearmAnnounce
    BY <1>0, <1>3 DEF RearmAnnounce, Goto, FlipToggle, ClearInit, ToggleBit, mem
  <1>4. CASE TakeTest
    BY <1>0, <1>4 DEF TakeTest, Goto, RearmThen, driver, words, mem
  <1>5. CASE TakeEof
    BY <1>0, <1>5 DEF TakeEof, Goto, RearmThen, driver, words, mem
  <1>6. CASE TakeClaim
    BY <1>0, <1>6 DEF TakeClaim, Goto, ClaimFrame, dcache_invalidate, NoLine, Bytes, words
  <1>7. CASE ClientProcess
    BY <1>0, <1>7 DEF ClientProcess, Goto, RearmThen, driver, words, mem
  <1>8. CASE TxStart
    BY <1>0, <1>8 DEF TxStart, Goto, driver, words, mem
  <1>9. CASE TxAnnounce
    BY <1>0, <1>9 DEF TxAnnounce, Goto, FlipToggle, ClearInit, ToggleBit, mem
  <1>10. CASE TxWaitDone
    BY <1>0, <1>10 DEF TxWaitDone, Goto, TxReturn, RearmThen, words, mem
  <1>11. CASE TxWaitOut
    BY <1>0, <1>11 DEF TxWaitOut, TxReturn, RearmThen, spi_slv_rxdma_arm, dcache_flush, NoLine,
           Bytes, driver, words, mem
  <1>12. CASE TxOutTimeout
    BY <1>0, <1>12 DEF TxOutTimeout, TxReturn, RearmThen, words, mem
  <1>13. CASE HostConnect
    BY <1>0, <1>13 DEF HostConnect, driver, words, mem
  <1>14. CASE HostBegin
    BY <1>0, <1>14 DEF HostBegin, driver, words, mem, ToggleBit, Ready
  <1>15. CASE HostWrite
    BY <1>0, <1>15 DEF HostWrite, driver, words, Bytes
  <1>16. CASE DmaIn
    BY <1>0, <1>16 DEF DmaIn, driver, words
  <1>17. CASE HostFetch
    BY <1>0, <1>17 DEF HostFetch, driver, words, mem, ToggleBit, Ready
  <1>18. CASE HostRead
    BY <1>0, <1>18 DEF HostRead, driver, words, mem
  <1>19. CASE HostGivesUp
    BY <1>0, <1>19 DEF HostGivesUp, driver, words, mem
  <1>20. CASE DmaOut
    BY <1>0, <1>20 DEF DmaOut, driver, words, mem
  <1>21. ASSUME NEW b \in Buffers, CacheFills(b) PROVE InitInv'
    BY <1>0, <1>21 DEF CacheFills, driver, words
  <1>22. ASSUME NEW b \in Buffers, CacheEvicts(b) PROVE InitInv'
    BY <1>0, <1>22 DEF CacheEvicts, dcache_flush, NoLine, Bytes, driver, words
  <1>23. ASSUME NEW b \in Buffers, ClientWrites(b) PROVE InitInv'
    BY <1>0, <1>23 DEF ClientWrites, Bytes, driver, words
  <1> HIDE DEF SpiInv, InitInv, TypeOK, MainPcs, TxPcs, DmaType, MainType, ClientType, HostType,
           BytesType, LineType, TargetType, Buffers, Events, Fresh
  <1> QED
    BY <1>1, <1>2, <1>3, <1>4, <1>5, <1>6, <1>7, <1>8, <1>9, <1>10, <1>11, <1>12, <1>13, <1>14,
       <1>15, <1>16, <1>17, <1>18, <1>19, <1>20, <1>21, <1>22, <1>23
    DEF Next, Main, rearm, take_rx_frame, tx_frame, Host, Dma, Cache

\* The client has a frame from take_rx_frame until tx_frame returns.
LEMMA HeldStep == ASSUME SpiInv, Next PROVE HeldInv'
  <1> USE DEF SpiInv, HeldInv, ArmedInv, DmaInv, Opened, TypeOK, MainPcs, TxPcs, DmaType,
           MainType, ClientType, HostType, BytesType, LineType, TargetType, Buffers, Events,
           Fresh
  <1>0. env' = env
    BY DEF Next
  <1>1. CASE stub_target_slave_spi_init
    BY <1>0, <1>1 DEF stub_target_slave_spi_init, words, mem, RearmThen
  <1>2. CASE RearmArm
    BY <1>0, <1>2 DEF RearmArm, words, Goto, spi_slv_rxdma_arm, dcache_flush, NoLine, Bytes, mem
  <1>3. CASE RearmAnnounce
    BY <1>0, <1>3 DEF RearmAnnounce, Goto, FlipToggle, ClearInit, ToggleBit, mem
  <1>4. CASE TakeTest
    BY <1>0, <1>4 DEF TakeTest, Goto, RearmThen, driver, words, mem
  <1>5. CASE TakeEof
    BY <1>0, <1>5 DEF TakeEof, Goto, RearmThen, driver, words, mem
  <1>6. CASE TakeClaim
    BY <1>0, <1>6 DEF TakeClaim, Goto, ClaimFrame, dcache_invalidate, NoLine, Bytes, words
  <1>7. CASE ClientProcess
    BY <1>0, <1>7 DEF ClientProcess, Goto, RearmThen, driver, words, mem
  <1>8. CASE TxStart
    BY <1>0, <1>8 DEF TxStart, Goto, driver, words, mem
  <1>9. CASE TxAnnounce
    BY <1>0, <1>9 DEF TxAnnounce, Goto, FlipToggle, ClearInit, ToggleBit, mem
  <1>10. CASE TxWaitDone
    BY <1>0, <1>10 DEF TxWaitDone, Goto, TxReturn, RearmThen, words, mem
  <1>11. CASE TxWaitOut
    BY <1>0, <1>11 DEF TxWaitOut, TxReturn, RearmThen, spi_slv_rxdma_arm, dcache_flush, NoLine,
           Bytes, driver, words, mem
  <1>12. CASE TxOutTimeout
    BY <1>0, <1>12 DEF TxOutTimeout, TxReturn, RearmThen, words, mem
  <1>13. CASE Host \/ Dma \/ Cache
    BY <1>13, OutsideFacts
  <1> HIDE DEF SpiInv, HeldInv, ArmedInv, DmaInv, Opened, TypeOK, MainPcs, TxPcs, DmaType,
           MainType, ClientType, HostType, BytesType, LineType, TargetType, Buffers, Events,
           Fresh
  <1> QED
    BY <1>1, <1>2, <1>3, <1>4, <1>5, <1>6, <1>7, <1>8, <1>9, <1>10, <1>11, <1>12, <1>13
    DEF Next, Main, rearm, take_rx_frame, tx_frame

\* Nothing but the driver closes its window, and the events it has seen stay.
LEMMA ArmedStep == ASSUME SpiInv, Next PROVE ArmedInv'
  <1> USE DEF SpiInv, ArmedInv, HeldInv, DmaInv, TypeOK, MainPcs, TxPcs, DmaType, MainType,
           ClientType, HostType, BytesType, LineType, TargetType, Buffers, Events, Fresh
  <1>0. env' = env
    BY DEF Next
  <1>1. CASE stub_target_slave_spi_init
    BY <1>0, <1>1 DEF stub_target_slave_spi_init, words, mem, RearmThen
  <1>2. CASE RearmArm
    BY <1>0, <1>2 DEF RearmArm, words, Goto, spi_slv_rxdma_arm, dcache_flush, NoLine, Bytes, mem
  <1>3. CASE RearmAnnounce
    BY <1>0, <1>3 DEF RearmAnnounce, Goto, FlipToggle, ClearInit, ToggleBit, mem
  <1>4. CASE TakeTest
    BY <1>0, <1>4 DEF TakeTest, Goto, RearmThen, driver, words, mem
  <1>5. CASE TakeEof
    BY <1>0, <1>5 DEF TakeEof, Goto, RearmThen, driver, words, mem
  <1>6. CASE TakeClaim
    BY <1>0, <1>6 DEF TakeClaim, Goto, ClaimFrame, dcache_invalidate, NoLine, Bytes, words
  <1>7. CASE ClientProcess
    BY <1>0, <1>7 DEF ClientProcess, Goto, RearmThen, driver, words, mem
  <1>8. CASE TxStart
    BY <1>0, <1>8 DEF TxStart, Goto, driver, words, mem
  <1>9. CASE TxAnnounce
    BY <1>0, <1>9 DEF TxAnnounce, Goto, FlipToggle, ClearInit, ToggleBit, mem
  <1>10. CASE TxWaitDone
    BY <1>0, <1>10 DEF TxWaitDone, Goto, TxReturn, RearmThen, words, mem
  <1>11. CASE TxWaitOut
    BY <1>0, <1>11 DEF TxWaitOut, TxReturn, RearmThen, spi_slv_rxdma_arm, dcache_flush, NoLine,
           Bytes, driver, words, mem
  <1>12. CASE TxOutTimeout
    BY <1>0, <1>12 DEF TxOutTimeout, TxReturn, RearmThen, words, mem
  <1>13. CASE HostConnect
    BY <1>0, <1>13 DEF HostConnect, driver, words, mem
  <1>14. CASE HostBegin
    BY <1>0, <1>14 DEF HostBegin, driver, words, mem, ToggleBit, Ready
  <1>15. CASE HostWrite
    BY <1>0, <1>15 DEF HostWrite, driver, words, Bytes
  <1>16. CASE DmaIn
    BY <1>0, <1>16 DEF DmaIn, driver, words
  <1>17. CASE HostFetch
    BY <1>0, <1>17 DEF HostFetch, driver, words, mem, ToggleBit, Ready
  <1>18. CASE HostRead
    BY <1>0, <1>18 DEF HostRead, driver, words, mem
  <1>19. CASE HostGivesUp
    BY <1>0, <1>19 DEF HostGivesUp, driver, words, mem
  <1>20. CASE DmaOut
    BY <1>0, <1>20 DEF DmaOut, driver, words, mem
  <1>21. ASSUME NEW b \in Buffers, CacheFills(b) PROVE ArmedInv'
    BY <1>0, <1>21 DEF CacheFills, driver, words
  <1>22. ASSUME NEW b \in Buffers, CacheEvicts(b) PROVE ArmedInv'
    BY <1>0, <1>22 DEF CacheEvicts, dcache_flush, NoLine, Bytes, driver, words
  <1>23. ASSUME NEW b \in Buffers, ClientWrites(b) PROVE ArmedInv'
    BY <1>0, <1>23 DEF ClientWrites, Bytes, driver, words
  <1> HIDE DEF SpiInv, ArmedInv, HeldInv, DmaInv, TypeOK, MainPcs, TxPcs, DmaType, MainType,
           ClientType, HostType, BytesType, LineType, TargetType, Buffers, Events, Fresh
  <1> QED
    BY <1>1, <1>2, <1>3, <1>4, <1>5, <1>6, <1>7, <1>8, <1>9, <1>10, <1>11, <1>12, <1>13, <1>14,
       <1>15, <1>16, <1>17, <1>18, <1>19, <1>20, <1>21, <1>22, <1>23
    DEF Next, Main, rearm, take_rx_frame, tx_frame, Host, Dma, Cache

\* The DMA is the reply's within tx_frame and the window's outside it.
LEMMA DmaStep == ASSUME SpiInv, Next PROVE DmaInv'
  <1> USE DEF SpiInv, DmaInv, Opened, HeldInv, ArmedInv, TypeOK, MainPcs, TxPcs, DmaType,
           MainType, ClientType, HostType, BytesType, LineType, TargetType, Buffers, Events,
           Fresh
  <1>0. env' = env
    BY DEF Next
  <1>1. CASE stub_target_slave_spi_init
    BY <1>0, <1>1 DEF stub_target_slave_spi_init, words, mem, RearmThen
  <1>2. CASE RearmArm
    <2>1. CASE s_rx_armed
      BY <1>0, <1>2, <2>1 DEF RearmArm, Goto, words, mem
    <2>2. CASE ~s_rx_armed
      BY <1>2, <2>2, RearmDma
    <2> QED BY <2>1, <2>2
  <1>3. CASE RearmAnnounce
    BY <1>0, <1>3 DEF RearmAnnounce, Goto, FlipToggle, ClearInit, ToggleBit, mem
  <1>4. CASE TakeTest
    BY <1>0, <1>4 DEF TakeTest, Goto, RearmThen, driver, words, mem
  <1>5. CASE TakeEof
    BY <1>0, <1>5 DEF TakeEof, Goto, RearmThen, driver, words, mem
  <1>6. CASE TakeClaim
    BY <1>0, <1>6 DEF TakeClaim, Goto, ClaimFrame, dcache_invalidate, NoLine, Bytes, words
  <1>7. CASE ClientProcess
    BY <1>0, <1>7 DEF ClientProcess, Goto, RearmThen, driver, words, mem
  <1>8. CASE TxStart
    BY <1>0, <1>8 DEF TxStart, Goto, driver, words, mem
  <1>9. CASE TxAnnounce
    BY <1>0, <1>9 DEF TxAnnounce, Goto, FlipToggle, ClearInit, ToggleBit, mem
  <1>10. CASE TxWaitDone
    BY <1>0, <1>10 DEF TxWaitDone, Goto, TxReturn, RearmThen, words, mem
  <1>11. CASE TxWaitOut
    <2>1. CASE s_rx_armed
      BY <1>11, <2>1, TxReArmDma
    <2>2. CASE ~s_rx_armed
      BY <1>0, <1>11, <2>2 DEF TxWaitOut, TxReturn, RearmThen, driver, words, mem
    <2> QED BY <2>1, <2>2
  <1>12. CASE TxOutTimeout
    BY <1>0, <1>12 DEF TxOutTimeout, TxReturn, RearmThen, words, mem
  <1>13. CASE HostConnect
    BY <1>0, <1>13 DEF HostConnect, driver, words, mem
  <1>14. CASE HostBegin
    BY <1>0, <1>14 DEF HostBegin, driver, words, mem, ToggleBit, Ready
  <1>15. CASE HostWrite
    BY <1>0, <1>15 DEF HostWrite, driver, words, Bytes
  <1>16. CASE DmaIn
    BY <1>0, <1>16 DEF DmaIn, driver, words
  <1>17. CASE HostFetch
    BY <1>0, <1>17 DEF HostFetch, driver, words, mem, ToggleBit, Ready
  <1>18. CASE HostRead
    BY <1>0, <1>18 DEF HostRead, driver, words, mem
  <1>19. CASE HostGivesUp
    BY <1>0, <1>19 DEF HostGivesUp, driver, words, mem
  <1>20. CASE DmaOut
    BY <1>0, <1>20 DEF DmaOut, driver, words, mem
  <1>21. ASSUME NEW b \in Buffers, CacheFills(b) PROVE DmaInv'
    BY <1>0, <1>21 DEF CacheFills, driver, words
  <1>22. ASSUME NEW b \in Buffers, CacheEvicts(b) PROVE DmaInv'
    BY <1>0, <1>22 DEF CacheEvicts, dcache_flush, NoLine, Bytes, driver, words
  <1>23. ASSUME NEW b \in Buffers, ClientWrites(b) PROVE DmaInv'
    BY <1>0, <1>23 DEF ClientWrites, Bytes, driver, words
  <1> HIDE DEF SpiInv, DmaInv, Opened, HeldInv, ArmedInv, TypeOK, MainPcs, TxPcs, DmaType,
           MainType, ClientType, HostType, BytesType, LineType, TargetType, Buffers, Events,
           Fresh
  <1> QED
    BY <1>1, <1>2, <1>3, <1>4, <1>5, <1>6, <1>7, <1>8, <1>9, <1>10, <1>11, <1>12, <1>13, <1>14,
       <1>15, <1>16, <1>17, <1>18, <1>19, <1>20, <1>21, <1>22, <1>23
    DEF Next, Main, rearm, take_rx_frame, tx_frame, Host, Dma, Cache

\* A frame that is received is newer than the one the client has had.
LEMMA FrameStep == ASSUME SpiInv, Next PROVE FrameInv'
  <1> USE DEF SpiInv, FrameInv, DmaInv, Opened, HeldInv, ArmedInv, TypeOK, MainPcs, TxPcs,
           DmaType, MainType, ClientType, HostType, BytesType, LineType, TargetType, Buffers,
           Events, Fresh
  <1>0. env' = env
    BY DEF Next
  <1>1. CASE stub_target_slave_spi_init
    BY <1>0, <1>1 DEF stub_target_slave_spi_init, words, mem, RearmThen
  <1>2. CASE RearmArm
    <2>1. CASE s_rx_armed
      BY <1>0, <1>2, <2>1 DEF RearmArm, Goto, words, mem
    <2>2. CASE ~s_rx_armed
      BY <1>2, <2>2, RearmFrame
    <2> QED BY <2>1, <2>2
  <1>3. CASE RearmAnnounce
    BY <1>0, <1>3 DEF RearmAnnounce, Goto, FlipToggle, ClearInit, ToggleBit, mem
  <1>4. CASE TakeTest
    BY <1>0, <1>4 DEF TakeTest, Goto, RearmThen, driver, words, mem
  <1>5. CASE TakeEof
    BY <1>0, <1>5 DEF TakeEof, Goto, RearmThen, driver, words, mem
  <1>6. CASE TakeClaim
    BY <1>6, ClaimFrameInv
  <1>7. CASE ClientProcess
    BY <1>0, <1>7 DEF ClientProcess, Goto, RearmThen, driver, words, mem
  <1>8. CASE TxStart
    BY <1>0, <1>8 DEF TxStart, Goto, driver, words, mem
  <1>9. CASE TxAnnounce
    BY <1>0, <1>9 DEF TxAnnounce, Goto, FlipToggle, ClearInit, ToggleBit, mem
  <1>10. CASE TxWaitDone
    BY <1>0, <1>10 DEF TxWaitDone, Goto, TxReturn, RearmThen, words, mem
  <1>11. CASE TxWaitOut
    <2>1. CASE s_rx_armed
      BY <1>11, <2>1, TxReArmFrame
    <2>2. CASE ~s_rx_armed
      BY <1>0, <1>11, <2>2 DEF TxWaitOut, TxReturn, RearmThen, driver, words, mem
    <2> QED BY <2>1, <2>2
  <1>12. CASE TxOutTimeout
    BY <1>0, <1>12 DEF TxOutTimeout, TxReturn, RearmThen, words, mem
  <1>13. CASE HostConnect
    BY <1>0, <1>13 DEF HostConnect, driver, words, mem
  <1>14. CASE HostBegin
    BY <1>0, <1>14 DEF HostBegin, driver, words, mem, ToggleBit, Ready
  <1>15. CASE HostWrite
    BY <1>0, <1>15 DEF HostWrite, driver, words, Bytes
  <1>16. CASE DmaIn
    BY <1>0, <1>16 DEF DmaIn, driver, words
  <1>17. CASE HostFetch
    BY <1>0, <1>17 DEF HostFetch, driver, words, mem, ToggleBit, Ready
  <1>18. CASE HostRead
    BY <1>0, <1>18 DEF HostRead, driver, words, mem
  <1>19. CASE HostGivesUp
    BY <1>0, <1>19 DEF HostGivesUp, driver, words, mem
  <1>20. CASE DmaOut
    BY <1>0, <1>20 DEF DmaOut, driver, words, mem
  <1>21. ASSUME NEW b \in Buffers, CacheFills(b) PROVE FrameInv'
    BY <1>0, <1>21 DEF CacheFills, driver, words
  <1>22. ASSUME NEW b \in Buffers, CacheEvicts(b) PROVE FrameInv'
    BY <1>0, <1>22 DEF CacheEvicts, dcache_flush, NoLine, Bytes, driver, words
  <1>23. ASSUME NEW b \in Buffers, ClientWrites(b) PROVE FrameInv'
    BY <1>0, <1>23 DEF ClientWrites, Bytes, driver, words
  <1> HIDE DEF SpiInv, FrameInv, DmaInv, Opened, HeldInv, ArmedInv, TypeOK, MainPcs, TxPcs,
           DmaType, MainType, ClientType, HostType, BytesType, LineType, TargetType, Buffers,
           Events, Fresh
  <1> QED
    BY <1>1, <1>2, <1>3, <1>4, <1>5, <1>6, <1>7, <1>8, <1>9, <1>10, <1>11, <1>12, <1>13, <1>14,
       <1>15, <1>16, <1>17, <1>18, <1>19, <1>20, <1>21, <1>22, <1>23
    DEF Next, Main, rearm, take_rx_frame, tx_frame, Host, Dma, Cache

\* The toggles of the reply stay in step.
LEMMA ReplyStep == ASSUME SpiInv, ReplyInv, ArrivedInv, HostInTime, Next PROVE ReplyInv'
  <1> USE DEF SpiInv, ReplyInv, WordInv, UpToDate, Offered, Fetched, ToggleBit, HasInit, Ready,
           HostInTime, FrameInv, InitInv, HeldInv, ArmedInv, DmaInv, Opened, ArrivedInv, Arrived,
           TypeOK, MainPcs, TxPcs, DmaType, MainType, ClientType, HostType, BytesType, LineType,
           TargetType, Buffers, Events, Fresh
  <1>0. env' = env
    BY DEF Next
  <1>1. CASE stub_target_slave_spi_init
    BY <1>0, <1>1 DEF stub_target_slave_spi_init, words, mem, RearmThen
  <1>2. CASE RearmArm
    BY <1>0, <1>2 DEF RearmArm, words, Goto, spi_slv_rxdma_arm, dcache_flush, NoLine, Bytes, mem
  <1>3. CASE RearmAnnounce
    BY <1>0, <1>3 DEF RearmAnnounce, Goto, FlipToggle, ClearInit, mem
  <1>4. CASE TakeTest
    BY <1>0, <1>4 DEF TakeTest, Goto, RearmThen, driver, words, mem
  <1>5. CASE TakeEof
    BY <1>0, <1>5 DEF TakeEof, Goto, RearmThen, driver, words, mem
  <1>6. CASE TakeClaim
    BY <1>0, <1>6 DEF TakeClaim, Goto, ClaimFrame, dcache_invalidate, NoLine, Bytes, words
  <1>7. CASE ClientProcess
    BY <1>0, <1>7 DEF ClientProcess, Goto, RearmThen, driver, words, mem
  <1>8. CASE TxStart
    BY <1>0, <1>8 DEF TxStart, Goto, driver, words, mem
  <1>9. CASE TxAnnounce
    BY <1>0, <1>9 DEF TxAnnounce, Goto, FlipToggle, ClearInit, mem
  <1>10. CASE TxWaitDone
    BY <1>0, <1>10 DEF TxWaitDone, Goto, TxReturn, RearmThen, words, mem
  <1>11. CASE TxWaitOut
    BY <1>0, <1>11 DEF TxWaitOut, TxReturn, RearmThen, spi_slv_rxdma_arm, dcache_flush, NoLine,
           Bytes, driver, words, mem
  <1>12. CASE TxOutTimeout
    BY <1>0, <1>12 DEF TxOutTimeout, TxReturn, RearmThen, words, mem
  <1>13. CASE HostConnect
    BY <1>0, <1>13 DEF HostConnect, driver, words, mem
  <1>14. CASE HostBegin
    BY <1>0, <1>14 DEF HostBegin, driver, words, mem
  <1>15. CASE HostWrite
    BY <1>0, <1>15 DEF HostWrite, driver, words, Bytes
  <1>16. CASE DmaIn
    BY <1>0, <1>16 DEF DmaIn, driver, words
  <1>17. CASE HostFetch
    BY <1>0, <1>17 DEF HostFetch, driver, words, mem
  <1>18. CASE HostRead
    BY <1>0, <1>18 DEF HostRead, driver, words, mem
  <1>19. CASE HostGivesUp
    BY <1>0, <1>19 DEF HostGivesUp, driver, words, mem
  <1>20. CASE DmaOut
    BY <1>0, <1>20 DEF DmaOut, driver, words, mem
  <1>21. ASSUME NEW b \in Buffers, CacheFills(b) PROVE ReplyInv'
    BY <1>0, <1>21 DEF CacheFills, driver, words
  <1>22. ASSUME NEW b \in Buffers, CacheEvicts(b) PROVE ReplyInv'
    BY <1>0, <1>22 DEF CacheEvicts, dcache_flush, NoLine, Bytes, driver, words
  <1>23. ASSUME NEW b \in Buffers, ClientWrites(b) PROVE ReplyInv'
    BY <1>0, <1>23 DEF ClientWrites, Bytes, driver, words
  <1> HIDE DEF SpiInv, ReplyInv, WordInv, UpToDate, Offered, Fetched, ToggleBit, HasInit, Ready,
           HostInTime, FrameInv, InitInv, HeldInv, ArmedInv, DmaInv, Opened, ArrivedInv, Arrived,
           TypeOK, MainPcs, TxPcs, DmaType, MainType, ClientType, HostType, BytesType, LineType,
           TargetType, Buffers, Events, Fresh
  <1> QED
    BY <1>1, <1>2, <1>3, <1>4, <1>5, <1>6, <1>7, <1>8, <1>9, <1>10, <1>11, <1>12, <1>13, <1>14,
       <1>15, <1>16, <1>17, <1>18, <1>19, <1>20, <1>21, <1>22, <1>23
    DEF Next, Main, rearm, take_rx_frame, tx_frame, Host, Dma, Cache

\* What arrives in the window is the frame the host waits for the reply to.
LEMMA ArrivedStep == ASSUME SpiInv, ReplyInv, ArrivedInv, HostInTime, Next PROVE ArrivedInv'
  <1> USE DEF SpiInv, ArrivedInv, Arrived, ReplyInv, Fetched, HostInTime, FrameInv, InitInv,
           HeldInv, ArmedInv, DmaInv, Opened, TypeOK, MainPcs, TxPcs, DmaType, MainType,
           ClientType, HostType, BytesType, LineType, TargetType, Buffers, Events, Fresh
  <1>0. env' = env
    BY DEF Next
  <1>1. CASE stub_target_slave_spi_init
    BY <1>0, <1>1 DEF stub_target_slave_spi_init, words, mem, RearmThen
  <1>2. CASE RearmArm
    <2>1. CASE s_rx_armed
      BY <1>0, <1>2, <2>1 DEF RearmArm, Goto, words, mem
    <2>2. CASE ~s_rx_armed
      BY <1>0, <1>2, <2>2, RearmFacts
    <2> QED BY <2>1, <2>2
  <1>3. CASE RearmAnnounce
    BY <1>0, <1>3 DEF RearmAnnounce, Goto, FlipToggle, ClearInit, ToggleBit, mem
  <1>4. CASE TakeTest
    BY <1>0, <1>4 DEF TakeTest, Goto, RearmThen, driver, words, mem
  <1>5. CASE TakeEof
    BY <1>0, <1>5 DEF TakeEof, Goto, RearmThen, driver, words, mem
  <1>6. CASE TakeClaim
    BY <1>0, <1>6 DEF TakeClaim, Goto, ClaimFrame, dcache_invalidate, NoLine, Bytes, words
  <1>7. CASE ClientProcess
    BY <1>0, <1>7 DEF ClientProcess, Goto, RearmThen, driver, words, mem
  <1>8. CASE TxStart
    <2>1. dma.ena = "rx" => ~Arrived
      BY <1>8 DEF TxStart
    <2>2. ~dma.drain /\ "IN_SUC_EOF" \notin raw
      BY <2>1
    <2>3. dma'.drain = FALSE /\ dma'.ena = "tx" /\ raw' = raw \ {"TX_DONE"}
      <3>1. PICK d \in {dma.drain, FALSE} :
                dma' = [dma EXCEPT !.ena = "tx", !.drain = d, !.out = client.frame, !.ram = TRUE]
        BY <1>8 DEF TxStart
      <3>2. d = FALSE
        BY <2>2
      <3> QED BY <1>8, <3>1, <3>2 DEF TxStart
    <2> QED BY <2>2, <2>3
  <1>9. CASE TxAnnounce
    BY <1>0, <1>9 DEF TxAnnounce, Goto, FlipToggle, ClearInit, ToggleBit, mem
  <1>10. CASE TxWaitDone
    BY <1>0, <1>10 DEF TxWaitDone, Goto, TxReturn, RearmThen, words, mem
  <1>11. CASE TxWaitOut
    <2>1. CASE s_rx_armed
      BY <1>11, <2>1, TxReArmArrived
    <2>2. CASE ~s_rx_armed
      BY <1>0, <1>11, <2>2 DEF TxWaitOut, TxReturn, RearmThen, driver, words, mem
    <2> QED BY <2>1, <2>2
  <1>12. CASE TxOutTimeout
    BY <1>0, <1>12 DEF TxOutTimeout, TxReturn, RearmThen, words, mem
  <1>13. CASE HostConnect
    BY <1>0, <1>13 DEF HostConnect, driver, words, mem
  <1>14. CASE HostBegin
    BY <1>0, <1>14 DEF HostBegin, driver, words, mem, ToggleBit, Ready
  <1>15. CASE HostWrite
    BY <1>0, <1>15 DEF HostWrite, driver, words, Bytes
  <1>16. CASE DmaIn
    BY <1>0, <1>16 DEF DmaIn, driver, words
  <1>17. CASE HostFetch
    BY <1>0, <1>17 DEF HostFetch, driver, words, mem, ToggleBit, Ready
  <1>18. CASE HostRead
    BY <1>0, <1>18 DEF HostRead, driver, words, mem
  <1>19. CASE HostGivesUp
    BY <1>0, <1>19 DEF HostGivesUp, driver, words, mem
  <1>20. CASE DmaOut
    BY <1>0, <1>20 DEF DmaOut, driver, words, mem
  <1>21. ASSUME NEW b \in Buffers, CacheFills(b) PROVE ArrivedInv'
    BY <1>0, <1>21 DEF CacheFills, driver, words
  <1>22. ASSUME NEW b \in Buffers, CacheEvicts(b) PROVE ArrivedInv'
    BY <1>0, <1>22 DEF CacheEvicts, dcache_flush, NoLine, Bytes, driver, words
  <1>23. ASSUME NEW b \in Buffers, ClientWrites(b) PROVE ArrivedInv'
    BY <1>0, <1>23 DEF ClientWrites, Bytes, driver, words
  <1> HIDE DEF SpiInv, ArrivedInv, Arrived, ReplyInv, Fetched, HostInTime, FrameInv, InitInv,
           HeldInv, ArmedInv, DmaInv, Opened, TypeOK, MainPcs, TxPcs, DmaType, MainType,
           ClientType, HostType, BytesType, LineType, TargetType, Buffers, Events, Fresh
  <1> QED
    BY <1>1, <1>2, <1>3, <1>4, <1>5, <1>6, <1>7, <1>8, <1>9, <1>10, <1>11, <1>12, <1>13, <1>14,
       <1>15, <1>16, <1>17, <1>18, <1>19, <1>20, <1>21, <1>22, <1>23
    DEF Next, Main, rearm, take_rx_frame, tx_frame, Host, Dma, Cache

\* Nothing writes to the claimed buffer.
LEMMA ClaimedStep ==
    ASSUME SpiInv, ReplyInv, ArrivedInv, ClaimedInv, HostInTime, Next
    PROVE  ClaimedInv'
  <1> USE DEF SpiInv, ClaimedInv, Bytes, ArrivedInv, Arrived, ReplyInv, Fetched, HostInTime,
           HeldInv, ArmedInv, DmaInv, Opened, TypeOK, MainPcs, TxPcs, DmaType, MainType,
           ClientType, HostType, BytesType, LineType, TargetType, Buffers, Events, Fresh
  <1>0. env' = env
    BY DEF Next
  <1>1. CASE stub_target_slave_spi_init
    BY <1>0, <1>1 DEF stub_target_slave_spi_init, words, mem, RearmThen
  <1>2. CASE RearmArm
    BY <1>0, <1>2 DEF RearmArm, words, Goto, spi_slv_rxdma_arm, dcache_flush, NoLine, mem
  <1>3. CASE RearmAnnounce
    BY <1>0, <1>3 DEF RearmAnnounce, Goto, FlipToggle, ClearInit, ToggleBit, mem
  <1>4. CASE TakeTest
    BY <1>0, <1>4 DEF TakeTest, Goto, RearmThen, driver, words, mem
  <1>5. CASE TakeEof
    BY <1>0, <1>5 DEF TakeEof, Goto, RearmThen, driver, words, mem
  <1>6. CASE TakeClaim
    <2>1. content[s_rx_buf] = Bytes(client'.frame, TRUE)
      <3>1. content[s_rx_buf].whole /\ content[s_rx_buf].frame = client'.frame
        BY <1>6, ClaimFacts
      <3>2. content[s_rx_buf] \in BytesType
        BY <1>6, ClaimFacts
      <3> QED BY <3>1, <3>2, BytesFacts
    <2> QED BY <1>6, <2>1, ClaimFacts
  <1>7. CASE ClientProcess
    BY <1>0, <1>7 DEF ClientProcess, Goto, RearmThen, driver, words, mem
  <1>8. CASE TxStart
    BY <1>0, <1>8 DEF TxStart, Goto, driver, words, mem
  <1>9. CASE TxAnnounce
    BY <1>0, <1>9 DEF TxAnnounce, Goto, FlipToggle, ClearInit, ToggleBit, mem
  <1>10. CASE TxWaitDone
    BY <1>0, <1>10 DEF TxWaitDone, Goto, TxReturn, RearmThen, words, mem
  <1>11. CASE TxWaitOut
    BY <1>0, <1>11 DEF TxWaitOut, TxReturn, RearmThen, spi_slv_rxdma_arm, dcache_flush, NoLine,
           driver, words, mem
  <1>12. CASE TxOutTimeout
    BY <1>0, <1>12 DEF TxOutTimeout, TxReturn, RearmThen, words, mem
  <1>13. CASE HostConnect
    BY <1>0, <1>13 DEF HostConnect, driver, words, mem
  <1>14. CASE HostBegin
    BY <1>0, <1>14 DEF HostBegin, driver, words, mem, ToggleBit, Ready
  <1>15. CASE HostWrite
    BY <1>0, <1>15 DEF HostWrite, driver, words
  <1>16. CASE DmaIn
    BY <1>0, <1>16 DEF DmaIn, driver, words
  <1>17. CASE HostFetch
    BY <1>0, <1>17 DEF HostFetch, driver, words, mem, ToggleBit, Ready
  <1>18. CASE HostRead
    BY <1>0, <1>18 DEF HostRead, driver, words, mem
  <1>19. CASE HostGivesUp
    BY <1>0, <1>19 DEF HostGivesUp, driver, words, mem
  <1>20. CASE DmaOut
    BY <1>0, <1>20 DEF DmaOut, driver, words, mem
  <1>21. ASSUME NEW b \in Buffers, CacheFills(b) PROVE ClaimedInv'
    BY <1>0, <1>21 DEF CacheFills, driver, words
  <1>22. ASSUME NEW b \in Buffers, CacheEvicts(b) PROVE ClaimedInv'
    BY <1>0, <1>22 DEF CacheEvicts, dcache_flush, NoLine, driver, words
  <1>23. ASSUME NEW b \in Buffers, ClientWrites(b) PROVE ClaimedInv'
    BY <1>0, <1>23 DEF ClientWrites, driver, words
  <1> HIDE DEF SpiInv, ClaimedInv, Bytes, ArrivedInv, Arrived, ReplyInv, Fetched, HostInTime,
           HeldInv, ArmedInv, DmaInv, Opened, TypeOK, MainPcs, TxPcs, DmaType, MainType,
           ClientType, HostType, BytesType, LineType, TargetType, Buffers, Events, Fresh
  <1> QED
    BY <1>1, <1>2, <1>3, <1>4, <1>5, <1>6, <1>7, <1>8, <1>9, <1>10, <1>11, <1>12, <1>13, <1>14,
       <1>15, <1>16, <1>17, <1>18, <1>19, <1>20, <1>21, <1>22, <1>23
    DEF Next, Main, rearm, take_rx_frame, tx_frame, Host, Dma, Cache

\* tx_frame returns when the engine is done with the reply.
LEMMA ReleasedStep == ASSUME SpiInv, ReplyInv, ReleasedInv, TxInTime, Next PROVE ReleasedInv'
  <1> USE DEF SpiInv, ReleasedInv, TxInTime, ReplyInv, Fetched, ArmedInv, HeldInv, InitInv,
           DmaInv, Opened, TypeOK, MainPcs, TxPcs, DmaType, MainType, ClientType, HostType,
           BytesType, LineType, TargetType, Buffers, Events, Fresh
  <1>0. env' = env
    BY DEF Next
  <1>1. CASE stub_target_slave_spi_init
    BY <1>0, <1>1 DEF stub_target_slave_spi_init, words, mem, RearmThen
  <1>2. CASE RearmArm
    <2>1. CASE s_rx_armed
      BY <1>0, <1>2, <2>1 DEF RearmArm, Goto, words, mem
    <2>2. CASE ~s_rx_armed
      BY <1>2, <2>2, RearmReleased
    <2> QED BY <2>1, <2>2
  <1>3. CASE RearmAnnounce
    BY <1>0, <1>3 DEF RearmAnnounce, Goto, FlipToggle, ClearInit, ToggleBit, mem
  <1>4. CASE TakeTest
    BY <1>0, <1>4 DEF TakeTest, Goto, RearmThen, driver, words, mem
  <1>5. CASE TakeEof
    BY <1>0, <1>5 DEF TakeEof, Goto, RearmThen, driver, words, mem
  <1>6. CASE TakeClaim
    BY <1>0, <1>6 DEF TakeClaim, Goto, ClaimFrame, dcache_invalidate, NoLine, Bytes, words
  <1>7. CASE ClientProcess
    BY <1>0, <1>7 DEF ClientProcess, Goto, RearmThen, driver, words, mem
  <1>8. CASE TxStart
    BY <1>0, <1>8 DEF TxStart, Goto, driver, words, mem
  <1>9. CASE TxAnnounce
    BY <1>0, <1>9 DEF TxAnnounce, Goto, FlipToggle, ClearInit, ToggleBit, mem
  <1>10. CASE TxWaitDone
    BY <1>0, <1>10 DEF TxWaitDone, Goto, TxReturn, RearmThen, words, mem
  <1>11. CASE TxWaitOut
    <2>1. CASE s_rx_armed
      BY <1>11, <2>1, TxReArmReleased
    <2>2. CASE ~s_rx_armed
      BY <1>0, <1>11, <2>2 DEF TxWaitOut, TxReturn, RearmThen, driver, words, mem
    <2> QED BY <2>1, <2>2
  <1>12. CASE TxOutTimeout
    BY <1>0, <1>12 DEF TxOutTimeout, TxReturn, RearmThen, words, mem
  <1>13. CASE HostConnect
    BY <1>0, <1>13 DEF HostConnect, driver, words, mem
  <1>14. CASE HostBegin
    BY <1>0, <1>14 DEF HostBegin, driver, words, mem, ToggleBit, Ready
  <1>15. CASE HostWrite
    BY <1>0, <1>15 DEF HostWrite, driver, words, Bytes
  <1>16. CASE DmaIn
    BY <1>0, <1>16 DEF DmaIn, driver, words
  <1>17. CASE HostFetch
    BY <1>0, <1>17 DEF HostFetch, driver, words, mem, ToggleBit, Ready
  <1>18. CASE HostRead
    BY <1>0, <1>18 DEF HostRead, driver, words, mem
  <1>19. CASE HostGivesUp
    BY <1>0, <1>19 DEF HostGivesUp, driver, words, mem
  <1>20. CASE DmaOut
    BY <1>0, <1>20 DEF DmaOut, driver, words, mem
  <1>21. ASSUME NEW b \in Buffers, CacheFills(b) PROVE ReleasedInv'
    BY <1>0, <1>21 DEF CacheFills, driver, words
  <1>22. ASSUME NEW b \in Buffers, CacheEvicts(b) PROVE ReleasedInv'
    BY <1>0, <1>22 DEF CacheEvicts, dcache_flush, NoLine, Bytes, driver, words
  <1>23. ASSUME NEW b \in Buffers, ClientWrites(b) PROVE ReleasedInv'
    BY <1>0, <1>23 DEF ClientWrites, Bytes, driver, words
  <1> HIDE DEF SpiInv, ReleasedInv, TxInTime, ReplyInv, Fetched, ArmedInv, HeldInv, InitInv,
           DmaInv, Opened, TypeOK, MainPcs, TxPcs, DmaType, MainType, ClientType, HostType,
           BytesType, LineType, TargetType, Buffers, Events, Fresh
  <1> QED
    BY <1>1, <1>2, <1>3, <1>4, <1>5, <1>6, <1>7, <1>8, <1>9, <1>10, <1>11, <1>12, <1>13, <1>14,
       <1>15, <1>16, <1>17, <1>18, <1>19, <1>20, <1>21, <1>22, <1>23
    DEF Next, Main, rearm, take_rx_frame, tx_frame, Host, Dma, Cache

\* The toggles of the window stay in step.
LEMMA VisibleStep ==
    ASSUME SpiInv, ReplyInv, ArrivedInv, VisibleInv, TxInTime, ~env.prompt, Next
    PROVE  VisibleInv'
  <1> USE DEF SpiInv, VisibleInv, Unused, ArrivedInv, Arrived, ReplyInv, Fetched, Offered,
           WordInv, UpToDate, ToggleBit, HasInit, Ready, TxInTime, FrameInv, InitInv, HeldInv,
           ArmedInv, DmaInv, Opened, TypeOK, MainPcs, TxPcs, DmaType, MainType, ClientType,
           HostType, BytesType, LineType, TargetType, Buffers, Events, Fresh
  <1>0. env' = env
    BY DEF Next
  <1>1. CASE stub_target_slave_spi_init
    BY <1>0, <1>1 DEF stub_target_slave_spi_init, words, mem, RearmThen
  <1>2. CASE RearmArm
    <2>1. CASE s_rx_armed
      BY <1>0, <1>2, <2>1 DEF RearmArm, Goto, words, mem
    <2>2. CASE ~s_rx_armed
      BY <1>2, <2>2, RearmVisible
    <2> QED BY <2>1, <2>2
  <1>3. CASE RearmAnnounce
    BY <1>0, <1>3 DEF RearmAnnounce, Goto, FlipToggle, ClearInit, mem
  <1>4. CASE TakeTest
    BY <1>0, <1>4 DEF TakeTest, Goto, RearmThen, driver, words, mem
  <1>5. CASE TakeEof
    BY <1>0, <1>5 DEF TakeEof, Goto, RearmThen, driver, words, mem
  <1>6. CASE TakeClaim
    BY <1>0, <1>6 DEF TakeClaim, Goto, ClaimFrame, dcache_invalidate, NoLine, Bytes, words
  <1>7. CASE ClientProcess
    BY <1>0, <1>7 DEF ClientProcess, Goto, RearmThen, driver, words, mem
  <1>8. CASE TxStart
    BY <1>0, <1>8 DEF TxStart, Goto, driver, words, mem
  <1>9. CASE TxAnnounce
    BY <1>0, <1>9 DEF TxAnnounce, Goto, FlipToggle, ClearInit, mem
  <1>10. CASE TxWaitDone
    BY <1>0, <1>10 DEF TxWaitDone, Goto, TxReturn, RearmThen, words, mem
  <1>11. CASE TxWaitOut
    <2>1. CASE s_rx_armed
      BY <1>11, <2>1, TxReArmVisible
    <2>2. CASE ~s_rx_armed
      BY <1>0, <1>11, <2>2 DEF TxWaitOut, TxReturn, RearmThen, driver, words, mem
    <2> QED BY <2>1, <2>2
  <1>12. CASE TxOutTimeout
    BY <1>0, <1>12 DEF TxOutTimeout, TxReturn, RearmThen, words, mem
  <1>13. CASE HostConnect
    BY <1>0, <1>13 DEF HostConnect, driver, words, mem
  <1>14. CASE HostBegin
    BY <1>0, <1>14 DEF HostBegin, driver, words, mem
  <1>15. CASE HostWrite
    BY <1>0, <1>15 DEF HostWrite, driver, words, Bytes
  <1>16. CASE DmaIn
    BY <1>0, <1>16 DEF DmaIn, driver, words
  <1>17. CASE HostFetch
    BY <1>0, <1>17 DEF HostFetch, driver, words, mem
  <1>18. CASE HostRead
    BY <1>0, <1>18 DEF HostRead, driver, words, mem
  <1>19. CASE HostGivesUp
    BY <1>0, <1>19 DEF HostGivesUp, driver, words, mem
  <1>20. CASE DmaOut
    BY <1>0, <1>20 DEF DmaOut, driver, words, mem
  <1>21. ASSUME NEW b \in Buffers, CacheFills(b) PROVE VisibleInv'
    BY <1>0, <1>21 DEF CacheFills, driver, words
  <1>22. ASSUME NEW b \in Buffers, CacheEvicts(b) PROVE VisibleInv'
    BY <1>0, <1>22 DEF CacheEvicts, dcache_flush, NoLine, Bytes, driver, words
  <1>23. ASSUME NEW b \in Buffers, ClientWrites(b) PROVE VisibleInv'
    BY <1>0, <1>23 DEF ClientWrites, Bytes, driver, words
  <1> HIDE DEF SpiInv, VisibleInv, Unused, ArrivedInv, Arrived, ReplyInv, Fetched, Offered,
           WordInv, UpToDate, ToggleBit, HasInit, Ready, TxInTime, FrameInv, InitInv, HeldInv,
           ArmedInv, DmaInv, Opened, TypeOK, MainPcs, TxPcs, DmaType, MainType, ClientType,
           HostType, BytesType, LineType, TargetType, Buffers, Events, Fresh
  <1> QED
    BY <1>1, <1>2, <1>3, <1>4, <1>5, <1>6, <1>7, <1>8, <1>9, <1>10, <1>11, <1>12, <1>13, <1>14,
       <1>15, <1>16, <1>17, <1>18, <1>19, <1>20, <1>21, <1>22, <1>23
    DEF Next, Main, rearm, take_rx_frame, tx_frame, Host, Dma, Cache

(***************************************************************************)
(* The invariants                                                          *)
(***************************************************************************)
\* Every step keeps the invariant.
LEMMA FullStep == ASSUME FullInv, [Next]_vars PROVE FullInv'
  <1>1. CASE UNCHANGED vars
    <2>1. SpiInv'
      <3>1. TypeOK'
        BY <1>1 DEF vars, FullInv, SpiInv, TypeOK
      <3>2. InitInv' /\ HeldInv' /\ ArmedInv' /\ DmaInv' /\ FrameInv'
        BY <1>1 DEF vars, FullInv, SpiInv, InitInv, HeldInv, ArmedInv, DmaInv, Opened, FrameInv
      <3> QED BY <3>1, <3>2 DEF SpiInv
    <2>2. InTimeInv'
      BY <1>1 DEF vars, FullInv, InTimeInv, HostInTime, ReplyInv, WordInv, Offered, Fetched,
                  Ready, ArrivedInv, Arrived, Opened, ClaimedInv
    <2>3. ReleasedInv' /\ VisibleInv'
      BY <1>1 DEF vars, FullInv, ReleasedInv, TxInTime, Fetched, VisibleInv, WordInv, Unused,
                  Ready
    <2> QED BY <2>1, <2>2, <2>3 DEF FullInv
  <1>2. CASE Next
    <2>1. SpiInv' /\ env' = env
      BY <1>2, TypeStep, InitStep, HeldStep, ArmedStep, DmaStep, FrameStep DEF FullInv, SpiInv,
         Next
    <2>2. InTimeInv'
      BY <1>2, <2>1, ReplyStep, ArrivedStep, ClaimedStep DEF FullInv, InTimeInv, HostInTime
    <2>3. TxInTime => ReplyInv /\ ArrivedInv
      BY DEF FullInv, InTimeInv, HostInTime, TxInTime
    <2>4. ReleasedInv'
      <3>1. CASE TxInTime
        BY <1>2, <2>3, <3>1, ReleasedStep DEF FullInv
      <3>2. CASE ~TxInTime
        BY <2>1, <3>2 DEF ReleasedInv, TxInTime
      <3> QED BY <3>1, <3>2
    <2>5. VisibleInv'
      <3>1. CASE TxInTime /\ ~env.prompt
        BY <1>2, <2>3, <3>1, VisibleStep DEF FullInv
      <3>2. CASE ~(TxInTime /\ ~env.prompt)
        BY <2>1, <3>2 DEF VisibleInv, TxInTime
      <3> QED BY <3>1, <3>2
    <2> QED BY <2>1, <2>2, <2>4, <2>5 DEF FullInv
  <1> QED BY <1>1, <1>2

\* The inductive invariant holds in every environment: the driver's books and the DMA
\* agree at every step of rearm, take_rx_frame and tx_frame, and so do the toggles
\* as far as the waits do not run out.
THEOREM SpiInvariant == Spec => []FullInv
  <1> QED BY InitSpi, FullStep, PTL DEF Spec

\* take_rx_frame claims a frame only when the engine has written all of it, and until
\* tx_frame returns nothing takes the claimed buffer away from the client.
THEOREM SpiFrameWhole == Spec => []FrameWhole
  <1>1. FullInv => FrameWhole
    BY DEF FullInv, InTimeInv, ClaimedInv, FrameWhole, Seen
  <1> QED BY <1>1, SpiInvariant, PTL

\* A host that sees TXSTA toggle reads the reply to the frame it wrote last.
THEOREM SpiReplyMatches == Spec => []ReplyMatches
  <1>1. ASSUME FullInv, HostInTime, host.reading PROVE dma.ena = "tx" /\ dma.out = host.frame
    <2>1. ReplyInv /\ InitInv /\ HeldInv /\ DmaInv
      BY <1>1 DEF FullInv, SpiInv, InTimeInv
    <2>2. main.pc = "tx_done" /\ "TX_DONE" \notin raw
      BY <1>1, <2>1 DEF ReplyInv, InitInv
    <2>3. client.held # 0 /\ ~Fetched
      BY <2>1, <2>2 DEF HeldInv, TxPcs, Fetched
    <2>4. client.frame = host.frame
      BY <2>1, <2>2, <2>3 DEF ReplyInv
    <2>5. dma.ena = "tx" /\ dma.out = client.frame
      BY <2>1, <2>2 DEF DmaInv, TxPcs
    <2> QED BY <2>4, <2>5
  <1>2. FullInv => ReplyMatches
    BY <1>1 DEF ReplyMatches
  <1> QED BY <1>2, SpiInvariant, PTL

\* The toggle that announces an open window differs from the one the host saw last, so
\* that the driver never listens to a host that takes the window for an old one.
THEOREM SpiWindowVisible == Spec => []WindowVisible
  <1>1. ASSUME FullInv, TxInTime, ~env.prompt, s_rx_armed, "RX_DONE" \notin raw, ~dma.drain,
               ~host.writing
        PROVE  Ready(RXSTA, host.rx)
    <2>1. main.pc # "init"
      BY <1>1 DEF FullInv, SpiInv, ArmedInv
    <2> QED BY <1>1, <2>1 DEF FullInv, VisibleInv, Unused
  <1>2. FullInv => WindowVisible
    BY <1>1 DEF WindowVisible, WindowSeen
  <1> QED BY <1>2, SpiInvariant, PTL

\* When tx_frame has returned the engine does not read the caller's reply any more.
THEOREM SpiReplyReleased == Spec => []ReplyReleased
  <1>1. FullInv => ReplyReleased
    BY DEF FullInv, ReleasedInv, ReplyReleased
  <1> QED BY <1>1, SpiInvariant, PTL

(***************************************************************************)
(* The driver is a FrameTransport                                          *)
(***************************************************************************)
\* A step that neither sends, hands out, releases nor answers a frame
LEMMA SilentStep ==
    ASSUME env' = env, client'.frame = client.frame, client'.held = client.held,
           host'.frame = host.frame, host'.waiting = host.waiting
    PROVE  [Transport!Next]_Transport!vars
  BY DEF Transport!vars, HostInTime

\* tx_frame returns and the client has no frame any more.
LEMMA ReleaseStep ==
    ASSUME SpiInv, env' = env, main.pc \in TxPcs, TxReturn, host' = host
    PROVE  [Transport!Next]_Transport!vars
  <1>1. client'.held = 0 /\ client'.frame = client.frame /\ client.held # 0
    BY DEF TxReturn, SpiInv, HeldInv, TypeOK, ClientType
  <1>2. Transport!Release
    BY <1>1 DEF Transport!Release, HostInTime
  <1> QED BY <1>2 DEF Transport!Next

\* Every step of SlaveSpi is one of FrameTransport or none.
LEMMA TransportStep ==
    ASSUME SpiInv, Next
    PROVE  [Transport!Next]_Transport!vars
  <1>0. env' = env /\ TypeOK
    BY DEF Next, SpiInv
  <1>1. CASE \/ stub_target_slave_spi_init \/ rearm \/ TakeTest \/ TakeEof \/ ClientProcess
             \/ TxStart \/ TxAnnounce
    <2>1. client' = client /\ host' = host
      BY <1>1 DEF stub_target_slave_spi_init, rearm, RearmArm, RearmAnnounce, TakeTest, TakeEof,
                  ClientProcess, TxStart, TxAnnounce
    <2> QED BY <1>0, <2>1, SilentStep
  <1>2. CASE TakeClaim
    <2>1. /\ client'.frame \in client.frame + 1 .. host.frame /\ client'.held # 0
          /\ client.held = 0 /\ host' = host
      BY <1>2, ClaimFacts DEF Buffers
    <2>2. Transport!Take
      BY <1>0, <2>1 DEF Transport!Take, HostInTime
    <2> QED BY <2>2 DEF Transport!Next
  <1>3. CASE TxWaitDone
    <2>1. CASE UNCHANGED client
      BY <1>0, <1>3, <2>1, SilentStep DEF TxWaitDone
    <2>2. CASE TxReturn
      BY <1>0, <1>3, <2>2, ReleaseStep DEF TxWaitDone, TxPcs
    <2> QED BY <1>3, <2>1, <2>2 DEF TxWaitDone
  <1>4. CASE TxWaitOut
    BY <1>0, <1>4, ReleaseStep DEF TxWaitOut, TxPcs
  <1>5. CASE TxOutTimeout
    BY <1>0, <1>5, ReleaseStep DEF TxOutTimeout, TxPcs
  <1>6. CASE HostConnect \/ Dma \/ Cache
    <2>1. client' = client /\ host' = host
      BY <1>6 DEF HostConnect, Dma, DmaIn, DmaOut, Cache, CacheFills, CacheEvicts, ClientWrites
    <2> QED BY <1>0, <2>1, SilentStep
  <1>7. CASE HostBegin
    <2>1. /\ ~host.waiting /\ host'.frame = host.frame + 1 /\ host'.waiting = TRUE
          /\ client' = client
      BY <1>0, <1>7 DEF HostBegin, TypeOK, HostType
    <2>2. Transport!Send
      BY <1>0, <2>1 DEF Transport!Send, HostInTime
    <2> QED BY <2>2 DEF Transport!Next
  <1>8. CASE HostWrite \/ HostFetch
    <2>1. client' = client /\ host'.frame = host.frame /\ host'.waiting = host.waiting
      BY <1>0, <1>8 DEF HostWrite, HostFetch, TypeOK, HostType
    <2> QED BY <1>0, <2>1, SilentStep
  <1>9. CASE HostRead
    <2>1. host.waiting /\ host'.frame = host.frame /\ client' = client
      BY <1>0, <1>9 DEF HostRead, SpiInv, FrameInv, TypeOK, HostType
    <2>2. CASE dma.ena = "tx" /\ dma.out = host.frame
      <3>1. host'.waiting = FALSE
        BY <1>0, <1>9, <2>2 DEF HostRead, TypeOK, HostType
      <3>2. client.frame = host.frame
        BY <2>2 DEF SpiInv, DmaInv
      <3>3. Transport!Answer
        BY <1>0, <2>1, <3>1, <3>2 DEF Transport!Answer, HostInTime
      <3> QED BY <3>3 DEF Transport!Next
    <2>3. CASE ~(dma.ena = "tx" /\ dma.out = host.frame)
      <3>1. host'.waiting = TRUE /\ host.waiting = TRUE
        BY <1>0, <1>9, <2>1, <2>3 DEF HostRead, TypeOK, HostType
      <3> QED BY <1>0, <2>1, <3>1, SilentStep
    <2> QED BY <2>2, <2>3
  <1>10. CASE HostGivesUp
    <2>1. /\ ~HostInTime /\ host.waiting /\ host'.waiting = FALSE /\ host'.frame = host.frame
          /\ client' = client
      BY <1>0, <1>10 DEF HostGivesUp, HostInTime, TypeOK, HostType
    <2>2. Transport!GiveUp
      BY <1>0, <2>1 DEF Transport!GiveUp, HostInTime
    <2> QED BY <2>2 DEF Transport!Next
  <1> QED
    BY <1>1, <1>2, <1>3, <1>4, <1>5, <1>6, <1>7, <1>8, <1>9, <1>10
    DEF Next, Main, take_rx_frame, tx_frame, Host

\* take_rx_frame hands out frames in the order they were sent and none twice, and nobody
\* but the client that has taken a frame answers it, whichever waits run out: the
\* specification of the driver implies that of a FrameTransport.
THEOREM SpiIsFrameTransport == Spec => IsFrameTransport
  <1>1. Init => Transport!Init
    BY DEF Init, Transport!Init, HostInTime
  <1>2. SpiInv /\ [Next]_vars => [Transport!Next]_Transport!vars
    <2>1. ASSUME UNCHANGED vars PROVE UNCHANGED Transport!vars
      BY <2>1 DEF vars, Transport!vars, HostInTime
    <2> QED BY <2>1, TransportStep
  <1>3. FullInv => SpiInv
    BY DEF FullInv
  <1> QED BY <1>1, <1>2, <1>3, SpiInvariant, PTL DEF Spec, IsFrameTransport, Transport!Spec
=============================================================================
