------------------------------ MODULE MCHtable ------------------------------
(* Htable with words of five bits.  Entries come from malloc, so the low   *)
(* bit of their addresses is zero.                                         *)
EXTENDS Htable

(* Addresses with the same highest bit, as in one heap. *)
OneHeap == {{4}, {4, 1}, {4, 2, 1}, {4, 3}}

ASSUME OneHeapAssumption == SameTopBit

(* Hash values with neighbouring home buckets, which collide in small      *)
(* tables, in their hash bits, or in both.                                 *)
Neighbours == {{}, {1}, {0, 1}}
=============================================================================
