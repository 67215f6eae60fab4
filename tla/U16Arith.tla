------------------------------ MODULE U16Arith ------------------------------
(***************************************************************************)
(* Arithmetic of the 16 bit length field of a PROXY v2 header.            *)
(***************************************************************************)
EXTENDS Naturals, TLAPS

U16 == 65536

(* The values a u16 holds. *)
U16Values == {n \in Nat : n < U16}

(* A remainder modulo 2^16 is a u16, and a value that already fits is its *)
(* own remainder: the big-endian u16 the v2 builder writes.               *)
LEMMA U16Mod ==
    ASSUME NEW x \in Nat
    PROVE  /\ x % U16 \in U16Values
           /\ x < U16 => x % U16 = x
<1>1. x % 65536 \in Nat
  BY SMT
<1>2. x % 65536 < 65536
  BY SMT
<1>3. x < 65536 => x % 65536 = x
  BY SMT
<1>4. x % U16 \in U16Values
  BY <1>1, <1>2 DEF U16, U16Values
<1>5. QED
  BY <1>3, <1>4 DEF U16
=============================================================================
