---------------------------- MODULE SerialArith ----------------------------
(***************************************************************************)
(* SOA serial arithmetic (RFC 1982) as the server computes it.  A serial   *)
(* is a u32; here it is a number below 2 * Half, so that the half of the   *)
(* number space that counts as "newer" can be made small enough for TLC.   *)
(***************************************************************************)
EXTENDS Integers

CONSTANT Half   \* half of the serial number space (2^31 in the program)

ASSUME HalfAssumption == Half \in Nat /\ Half > 2

Space  == 2 * Half
Serial == 0 .. Space - 1

\* u32::wrapping_add(1)
WrappingInc(s) == IF s = Space - 1 THEN 0 ELSE s + 1

\* u32::wrapping_sub
WrappingSub(a, b) == IF a >= b THEN a - b ELSE a - b + Space

\* bump_serial_in: the next serial, never 0.
BumpSerial(s) == IF WrappingInc(s) = 0 THEN 1 ELSE WrappingInc(s)

\* Mutant of SerialNewer: serials compared as plain numbers.
SerialNewerPlain(master, local) == master > local

\* serial_newer: the difference, read as an i32, is positive.
SerialNewer(master, local) ==
  /\ master # local
  /\ WrappingSub(master, local) < Half
=============================================================================
