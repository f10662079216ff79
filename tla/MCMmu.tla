------------------------------- MODULE MCMmu -------------------------------
(***************************************************************************)
(* Mmu for TLC, scaled down: 2^32 becomes 64 and a page 4 bytes.  Entry 0  *)
(* is not DROM, entries 1 and 2 are, so that three pages are too many for  *)
(* DROM and four too many for saved_entries.                               *)
(***************************************************************************)
EXTENDS Mmu

Req(addr, size) == [addr |-> addr, size |-> size]

\* A whole page; two pages from inside the first, ending inside and with the second;
\* one byte; nothing; three and four pages; a size that overflows with its offset.
const_Requests ==
    {Req(0, 4), Req(2, 4), Req(5, 7), Req(7, 1), Req(4, 0), Req(3, 6), Req(1, 12), Req(1, 63)}
=============================================================================
