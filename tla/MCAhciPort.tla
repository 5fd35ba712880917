----------------------------- MODULE MCAhciPort -----------------------------
(* Two slots, two requests.                                                 *)
EXTENDS AhciPort
MCSlots == 0 .. 1
=============================================================================
