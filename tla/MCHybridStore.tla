--------------------------- MODULE MCHybridStore ---------------------------
(***************************************************************************)
(* HybridStore for TLC: three threads, two slots, and three values.  An    *)
(* ordinary number is read from the tag; Nil and the NaN whose bits are    *)
(* the sentinel are read under the lock, so two values can be told apart   *)
(* on either path, and every step from one path to the other happens.      *)
(* Thread p3 may stop for ever at any point, a guard in its hand or        *)
(* queueing for one.                                                       *)
(***************************************************************************)
EXTENDS HybridStore

CONSTANTS p1, p2, p3, nil

MCProc == {p1, p2, p3}
MCSlot == {1, 2}
MCOther == {nil}
\* A number stands for its own bits.
MCNum == {10, 11}
MCToBits == [n \in MCNum |-> n]
MCLive == {p1, p2}
=============================================================================
