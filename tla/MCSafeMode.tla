----------------------------- MODULE MCSafeMode -----------------------------
(***************************************************************************)
(* Instances of SafeMode for TLC.                                          *)
(***************************************************************************)
EXTENDS SafeMode
=============================================================================
