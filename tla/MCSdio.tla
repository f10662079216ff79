------------------------------- MODULE MCSdio -------------------------------
(***************************************************************************)
(* SdioTransport for TLC: a receive buffer of two blocks, so that a frame  *)
(* can fill it, leave room behind it or not fit, and three frames, one     *)
(* more than there are buffers.                                            *)
(***************************************************************************)
EXTENDS SdioTransport

const_Descs == 2

Env(rude, slow, faults) == [rude |-> rude, slow |-> slow, faults |-> faults]

\* A host that breaks the rules over hardware that fails, with replies that it fetches or
\* leaves lying, and a polite host whose frames the ROM may not find
FaultyEnvironments == {Env(TRUE, TRUE, {"tx_error", "rx_error"}),
                       Env(TRUE, TRUE, {"tx_error", "rx_error", "tx_timeout"}),
                       Env(FALSE, TRUE, {"fetch_null"})}

\* Blocks that arrive at once
FastEnvironment == {Env(FALSE, FALSE, {})}
=============================================================================
