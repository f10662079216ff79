----------------------------- MODULE MCSlaveSpi -----------------------------
(***************************************************************************)
(* SlaveSpi for TLC.  Four frames let both toggles go round once after the *)
(* announcement that carries the INIT bit; with every wait running out,    *)
(* three let a frame meet what two failed replies have left behind.        *)
(***************************************************************************)
EXTENDS SlaveSpi

Env(prompt, faults, frames) == [prompt |-> prompt, faults |-> faults, frames |-> frames]

\* A dependable host; one that writes at once over a slow engine; one that everything
\* goes wrong with
TestedEnvironments == {Env(FALSE, {"rx_slow"}, 4), Env(TRUE, {"rx_slow", "out_slow"}, 4),
                       Env(TRUE, AllFaults, 3)}

\* Replies are not fetched in time, and nothing else goes wrong.
LateEnvironment == {Env(FALSE, {"tx_timeout"}, 4)}
=============================================================================
