------------------------------ MODULE RudpSeq ------------------------------
(***************************************************************************)
(* Arithmetic on RUDP sequence numbers.  The code keeps them in u_int32_t  *)
(* fields and lets them wrap; SeqMod is the number of values of the type   *)
(* (2^32 in the code, a small number in the model-checked instances).      *)
(***************************************************************************)
EXTENDS Integers

CONSTANT SeqMod

ASSUME SeqModAssumption == SeqMod \in Nat /\ SeqMod > 2

SeqNo == 0 .. SeqMod - 1

\* Mutant of SeqAdd: a wider type, in which the sum does not wrap.
AddWide(a, b) == a + b

\* u_int32_t addition and subtraction, both operands below SeqMod.
SeqAdd(a, b) == IF a + b >= SeqMod THEN a + b - SeqMod ELSE a + b

SeqSub(a, b) == IF a >= b THEN a - b ELSE a - b + SeqMod

SeqNext(a) == SeqAdd(a, 1)

SeqPrev(a) == SeqSub(a, 1)

(***************************************************************************)
(* The comparison macros of rudp.h, a header the repository includes but   *)
(* does not hold: a precedes b when the difference, read as a signed       *)
(* number, is negative.                                                    *)
(***************************************************************************)
SEQ_LT(a, b) == 2 * SeqSub(a, b) >= SeqMod

SEQ_GEQ(a, b) == ~ SEQ_LT(a, b)

=============================================================================
