---------------------------- MODULE MCFlashWrite ----------------------------
(***************************************************************************)
(* Instances of FlashWrite for TLC, with the real sizes: pages of 256      *)
(* bytes, chunks of 32, blocks of 16, 32 and 64.                           *)
(***************************************************************************)
EXTENDS FlashWrite

Req(addr, size, encrypt) == [addr |-> addr, size |-> size, encrypt |-> encrypt]

\* Every offset in a word, every length up to two words, up to and across the end of
\* a page; and a middle part of several chunks across it.
PlainRequests ==
    {Req(a, n, FALSE) : a \in 248 .. 256, n \in 0 .. 9} \cup {Req(221, 76, FALSE)}

\* Every block size, up to and across the end of a page, and misaligned requests.
EncryptedRequests ==
    {Req(a, n, TRUE) : a \in {16, 176, 192, 224, 240}, n \in {0, 16, 48, 112}}
        \cup {Req(8, 16, TRUE), Req(16, 8, TRUE)}

\* Nothing, one chunk, more than one and not whole chunks, and misaligned reads
ReadRequests == {Req(a, n, FALSE) : a \in {192, 6}, n \in {0, 16, 20, 22, 36}}

AllRequests == PlainRequests \cup EncryptedRequests
=============================================================================
