------------------------------ MODULE IqSample ------------------------------
(***************************************************************************)
(* IQ samples on the wire: e2_srs_handler packs a complex float into one   *)
(* 32-bit word, and the collector's reader and the xApp unpack it.         *)
(*                                                                         *)
(* A part of a sample, times iq_quant_scale, is counted in half quanta: an *)
(* even number is a value that 16 bits hold exactly, an odd one lies half  *)
(* way between two, which is where rounding has a choice.                  *)
(***************************************************************************)
EXTENDS Integers

CONSTANT IntHalf  \* int32_t is -IntHalf .. IntHalf - 1

ASSUME IntHalfAssumption == IntHalf \in Nat /\ IntHalf > 32768

(* std::lrint rounds to the nearest integer, a tie to the even one. *)
Lrint(half) ==
  LET floor == half \div 2
  IN  IF half % 2 = 1 /\ floor % 2 = 1 THEN floor + 1 ELSE floor

(* The cast of lrint's long to int32_t keeps the low bits. *)
ToInt32(n) == ((n + IntHalf) % (2 * IntHalf)) - IntHalf

(* Mutant of Clamp: none. *)
ClampNone(n) == n

Clamp(n) == IF n < -32768 THEN -32768 ELSE IF n > 32767 THEN 32767 ELSE n

Quantum(half) == Clamp(ToInt32(Lrint(half)))

(* The cast to uint16_t, and the two sign extensions: of the collector's    *)
(* reader, a cast to int16_t; of the xApp, a test of the top bit.          *)
Low16(n)     == n % 65536
Signed(h)    == IF h < 32768 THEN h ELSE h - 65536

pack_iq_sample(sample) ==
  [high |-> Low16(Quantum(sample.real)), low |-> Low16(Quantum(sample.imag))]

unpack_iq_sample(word) ==
  [real |-> 2 * Signed(word.high), imag |-> 2 * Signed(word.low)]

_unpack_iq_samples(words) == [i \in DOMAIN words |-> unpack_iq_sample(words[i])]

-----------------------------------------------------------------------------
(* A part of a sample survives as the nearest value that 16 bits hold. *)
Survives(part, read) ==
  IF part < -65536 THEN read = -65536
  ELSE IF part > 65534 THEN read = 65534
  ELSE read - part \in -1..1
=============================================================================
