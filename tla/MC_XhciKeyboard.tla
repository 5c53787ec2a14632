--------------------------- MODULE MC_XhciKeyboard ---------------------------
(* Bounds for XhciKeyboard; a controller of one or two ports. *)
EXTENDS XhciKeyboard
=============================================================================
