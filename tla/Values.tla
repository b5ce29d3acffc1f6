------------------------------- MODULE Values -------------------------------
(***************************************************************************)
(* runtime/value.c: a value is a 64-bit word.  A word with its low bit set *)
(* is a fixnum, whose payload is the word shifted right by one.            *)
(***************************************************************************)
EXTENDS Integers

CONSTANT Half  \* 2^62: fixnums are the numbers from -Half to Half - 1

\* psl_value and int64_t.
WordRange == 0..(4 * Half - 1)
Numbers == (-2 * Half)..(2 * Half - 1)

\* The conversion of an int64_t to uint64_t, and a shift to the left by one.
Unsigned(number) == IF number < 0 THEN number + 4 * Half ELSE number
Doubled(word) == IF word < 2 * Half THEN 2 * word ELSE 2 * word - 4 * Half

\* psl_rt_fixnum aborts for other numbers.
Fixnums == {number \in Numbers : -Half <= number /\ number < Half}
Fixnum(number) == Doubled(Unsigned(number)) + 1

\* psl_rt_fixnum_p.
FixnumP(word) == word % 2 = 1

\* psl_rt_unbox_fixnum of an odd word.
Payload(word) == word \div 2
Unbox(word) ==
    IF Payload(word) < Half THEN Payload(word)
    ELSE -1 - (2 * Half - 1 - Payload(word))
=============================================================================
