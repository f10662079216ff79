--------------------------- MODULE FrameTransport ---------------------------
(***************************************************************************)
(* What a frame transport of esp-stub-lib promises its client, whatever    *)
(* bus it runs on (sdio.h, slave_spi.h): rearm, take_rx_frame and tx_frame *)
(* as the client sees them.  The host sends a frame and waits for its      *)
(* reply; the client is handed frames one at a time, in the order they     *)
(* were sent and none twice, and the host is answered by the client that   *)
(* has its frame and by nobody else.  Frames may get lost.                 *)
(***************************************************************************)
EXTENDS Integers

VARIABLES
    sent,     \* frames the host has begun to send
    taken,    \* the frame last handed to the client
    held,     \* is the client working on it?
    waiting,  \* is the host waiting for the reply to its last frame?
    patient   \* a host that does not stop waiting before it has its reply

vars == <<sent, taken, held, waiting, patient>>

Init ==
    /\ sent = 0 /\ taken = 0 /\ held = FALSE /\ waiting = FALSE
    /\ patient \in BOOLEAN

Send ==
    /\ ~waiting
    /\ sent' = sent + 1 /\ waiting' = TRUE
    /\ UNCHANGED <<taken, held, patient>>

\* take_rx_frame hands out a frame; the ones before it that it never saw are lost.
Take ==
    /\ ~held
    /\ taken' \in taken + 1 .. sent
    /\ held' = TRUE
    /\ UNCHANGED <<sent, waiting, patient>>

\* tx_frame has returned, with or without an error.
Release ==
    /\ held
    /\ held' = FALSE
    /\ UNCHANGED <<sent, taken, waiting, patient>>

\* The host has the reply to its last frame, which the client must have taken.
Answer ==
    /\ waiting /\ taken = sent
    /\ waiting' = FALSE
    /\ UNCHANGED <<sent, taken, held, patient>>

GiveUp ==
    /\ waiting /\ ~patient
    /\ waiting' = FALSE
    /\ UNCHANGED <<sent, taken, held, patient>>

Next == Send \/ Take \/ Release \/ Answer \/ GiveUp

Spec == Init /\ [][Next]_vars
=============================================================================
