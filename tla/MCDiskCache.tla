----------------------------- MODULE MCDiskCache -----------------------------
(* Instances of DiskCache for TLC: two slots under three sectors of two      *)
(* words, so that sectors share slots, and FIFOs shorter than a burst.        *)
EXTENDS DiskCache

\* a store and a load out of range, a word that is no request
SomeStrays == {Req("write32", MEM), Req("read32", MEM), Zero}
NoStrays == {}
=============================================================================
