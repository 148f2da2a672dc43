---------------------------------- MODULE U32 ----------------------------------
(***************************************************************************)
(* The u32 arithmetic of the nvhost driver, for an arbitrary even modulus  *)
(* M (2^32 in the code).  Sub and Add are C's unsigned "-" and "+", and    *)
(* S32 is the cast (s32).  They are written without % so that the          *)
(* provers stay within linear arithmetic.                                  *)
(***************************************************************************)
EXTENDS Integers

CONSTANT Half   \* 2^31 in the code

ASSUME HalfAssumption == Half \in Nat /\ Half >= 2

M == Half + Half
Word == 0 .. M - 1

(* a slip: the sum is not taken modulo M *)
Add_NoWrap(a, b) == a + b

Add(a, b) == IF a + b < M THEN a + b ELSE a + b - M

Sub(a, b) == IF a >= b THEN a - b ELSE a - b + M

S32(w) == IF w < Half THEN w ELSE w - M

================================================================================
