---------------------------- MODULE MCI8259Nesting ----------------------------
(* The instances of MCI8259, with the nesting history. *)
EXTENDS MCI8259, I8259Nesting
=============================================================================
