------------------------------- MODULE MCUsb -------------------------------
(***************************************************************************)
(* UsbSerial for TLC: packets of two bytes stand for those of 64.  Replies *)
(* fill no packet, one packet or two exactly; a request takes two packets. *)
(***************************************************************************)
EXTENDS UsbSerial

const_ReplySizes == {1, 2, 3, 4}
=============================================================================
