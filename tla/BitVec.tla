------------------------------- MODULE BitVec -------------------------------
(***************************************************************************)
(* collections/bit_vec.rs: a vector of bits kept in whole bytes.  Its      *)
(* length moves freely below the bytes it owns, which never shrink and are *)
(* never cleared when the length changes: bits at and beyond the length    *)
(* may be set, and show again when the length grows.                       *)
(***************************************************************************)
EXTENDS Naturals

CONSTANTS ByteBits,   \* 8 in the code; smaller values bring the edges closer
          NoBit       \* first_set_index finds nothing

ASSUME ByteBitsAssumption == ByteBits \in Nat \ {0}
ASSUME NoBitAssumption == NoBit \notin Nat

\* set: the indices of the bits that are 1, whatever the length.
BitVecs == [set : SUBSET Nat, bytes : Nat \ {0}, len : Nat]

News(len) == [set |-> {}, bytes |-> len \div ByteBits + 1, len |-> len]

\* The bits the bytes have room for.
Room(b) == 0..(b.bytes * ByteBits - 1)

SetLen(b, len) ==
  [b EXCEPT !.len = len,
            !.bytes = IF len > @ * ByteBits THEN len \div ByteBits + 1 ELSE @]

\* set_bit, for an index below the length; it panics on any other.
SetBit(b, i) == [b EXCEPT !.set = @ \cup {i}]
ClearBits(b, is) == [b EXCEPT !.set = @ \ is]

\* set_all(true) fills the bytes, beyond the length too.
SetAll(b) == [b EXCEPT !.set = Room(b)]

\* The bits that first_set_index can see, and the one it finds.
Visible(b) == {i \in b.set : i < b.len}

FirstSet(b) ==
  IF Visible(b) = {} THEN NoBit
  ELSE CHOOSE i \in Visible(b) : \A j \in Visible(b) : i <= j
=============================================================================
