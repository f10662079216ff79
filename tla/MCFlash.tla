------------------------------ MODULE MCFlash ------------------------------
(***************************************************************************)
(* Instances of Flash for TLC.  All numbers are pages of 256 bytes: 16 is  *)
(* a sector, 256 a block, 65536 is 16 MB.                                  *)
(***************************************************************************)
EXTENDS Flash

Req(addr, size) == [addr |-> addr, size |-> size]

\* Sector, block, sector; a region too short for a block; a misaligned start;
\* a size that is not whole sectors.
SmallRequests == {Req(240, 288), Req(256, 20), Req(8, 16)}

\* Across the 16 MB line, on and off a block boundary, and near the start.
LargeRequests == {Req(65520, 288), Req(0, 32)}

\* 0x16 is a 4 MB chip, 0x19 32 MB; 0xFF is what an idle bus reads as.
Ids4MB == {22, 255}
Ids32MB == {25, 255}
=============================================================================
