------------------------------ MODULE Counters ------------------------------
(***************************************************************************)
(* The uint32_t work-request counters of a connection (src/src/utils.h and *)
(* next_wr_id of src/src/verbs_wrap.h): they wrap around, and two of them  *)
(* are compared by the sign of their difference.                           *)
(***************************************************************************)
EXTENDS Integers

CONSTANT Wrap   \* the modulus of uint32_t: 2^32 in the build, small in TLC

ASSUME WrapAssumption == Wrap \in Nat /\ Wrap >= 4

Counter == 0 .. Wrap - 1

\* UINT32_MAX / 2: a difference of at least this much counts as negative.
HalfRange == (Wrap - 1) \div 2

\* Mutant: counters of a wider type, which do not wrap at Wrap.
CounterAdd_Wide(a, n) == a + n

\* uint32_t a + n and a - b, for n below the modulus.
CounterAdd(a, n) == IF a + n >= Wrap THEN a + n - Wrap ELSE a + n

CounterSub(a, b) == IF a >= b THEN a - b ELSE a - b + Wrap

\* Mutant: the numbers are compared as they are.
cmp_counters_Plain(a, b) == IF a = b THEN 0 ELSE IF a > b THEN 1 ELSE -1

\* Where counter a stands relative to b: 0 the same, 1 ahead, -1 behind.
cmp_counters(a, b) ==
  IF a = b THEN 0
  ELSE IF CounterSub(a, b) < HalfRange THEN 1
  ELSE -1
=============================================================================
