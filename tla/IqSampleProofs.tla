--------------------------- MODULE IqSampleProofs ---------------------------
(***************************************************************************)
(* What becomes of a sample between pack_iq_sample and unpack_iq_sample,   *)
(* for every int32_t and every sample that fits it after scaling.          *)
(***************************************************************************)
EXTENDS IqSample, TLAPS

(* The parts, in half quanta, that lrint rounds to an int32_t. *)
Part == (-2 * IntHalf) .. (2 * IntHalf - 2)

(* Rounding errs by half a quantum at most. *)
LEMMA LrintNearest ==
  ASSUME NEW half \in Int
  PROVE  /\ Lrint(half) \in Int
         /\ 2 * Lrint(half) - half \in -1..1
<1> DEFINE floor == half \div 2
<1>1. floor \in Int /\ half = 2 * floor + (half % 2) /\ half % 2 \in 0..1
  OBVIOUS
<1>2. CASE half % 2 = 1 /\ floor % 2 = 1
  BY <1>1, <1>2 DEF Lrint
<1>3. CASE ~(half % 2 = 1 /\ floor % 2 = 1)
  BY <1>1, <1>3 DEF Lrint
<1> QED
  BY <1>2, <1>3

LEMMA SmallModulo ==
  ASSUME NEW m \in Nat \ {0}, NEW a \in Nat, a < m
  PROVE  a % m = a
  OBVIOUS

(* Within int32_t the cast changes nothing. *)
LEMMA ToInt32Identity ==
  ASSUME NEW n \in (-IntHalf)..(IntHalf - 1)
  PROVE  ToInt32(n) = n
<1>1. IntHalf \in Nat /\ IntHalf > 0
  BY IntHalfAssumption
<1>2. 2 * IntHalf \in Nat \ {0} /\ n + IntHalf \in Nat /\ n + IntHalf < 2 * IntHalf
  BY <1>1
<1>3. (n + IntHalf) % (2 * IntHalf) = n + IntHalf
  BY <1>2, SmallModulo
<1> QED
  BY <1>1, <1>3 DEF ToInt32

(* Sixteen bits carry a clamped value there and back. *)
LEMMA SixteenBitsCarry ==
  ASSUME NEW n \in Int, -32768 <= n, n <= 32767
  PROVE  Signed(Low16(n)) = n
<1>1. CASE n >= 0
  <2>1. n % 65536 = n
    BY <1>1, SmallModulo
  <2> QED
    BY <1>1, <2>1 DEF Signed, Low16
<1>2. CASE n < 0
  <2>1. n % 65536 = n + 65536
    BY <1>2
  <2> QED
    BY <1>2, <2>1 DEF Signed, Low16
<1> QED
  BY <1>1, <1>2

LEMMA PartSurvives ==
  ASSUME NEW half \in Part
  PROVE  Survives(half, 2 * Signed(Low16(Quantum(half))))
<1> DEFINE n == Lrint(half)
<1>1. IntHalf \in Nat /\ IntHalf > 32768
  BY IntHalfAssumption
<1>2. half \in Int /\ -2 * IntHalf <= half /\ half <= 2 * IntHalf - 2
  BY <1>1 DEF Part
<1>3. n \in Int /\ 2 * n - half \in -1..1
  BY <1>2, LrintNearest
<1>4. n \in (-IntHalf)..(IntHalf - 1)
  BY <1>1, <1>2, <1>3
<1>5. Quantum(half) = Clamp(n)
  BY <1>4, ToInt32Identity DEF Quantum
<1>6. Clamp(n) \in Int /\ -32768 <= Clamp(n) /\ Clamp(n) <= 32767
  BY <1>3 DEF Clamp
<1>7. Signed(Low16(Quantum(half))) = Clamp(n)
  BY <1>5, <1>6, SixteenBitsCarry
<1> QED
  BY <1>2, <1>3, <1>7 DEF Clamp, Survives

(* However many samples a stream has, the reader has as many, and each part *)
(* of each is the one sent up to the rounding, or the nearest end of the   *)
(* 16 bits: pack_iq_sample and both unpackers agree on sign and order.     *)
THEOREM SamplesSurvive ==
  ASSUME NEW n \in Nat,
         NEW srs \in [1..n -> [real : Part, imag : Part]]
  PROVE  LET read == _unpack_iq_samples([i \in 1..n |-> pack_iq_sample(srs[i])])
         IN  /\ DOMAIN read = 1..n
             /\ \A i \in 1..n : /\ Survives(srs[i].real, read[i].real)
                               /\ Survives(srs[i].imag, read[i].imag)
<1> DEFINE read == _unpack_iq_samples([i \in 1..n |-> pack_iq_sample(srs[i])])
<1>1. read = [i \in 1..n |-> unpack_iq_sample(pack_iq_sample(srs[i]))]
  BY DEF _unpack_iq_samples
<1>2. ASSUME NEW i \in 1..n
      PROVE  Survives(srs[i].real, read[i].real) /\ Survives(srs[i].imag, read[i].imag)
  <2>1. srs[i].real \in Part /\ srs[i].imag \in Part
    OBVIOUS
  <2>2. /\ read[i].real = 2 * Signed(Low16(Quantum(srs[i].real)))
        /\ read[i].imag = 2 * Signed(Low16(Quantum(srs[i].imag)))
    BY <1>1 DEF unpack_iq_sample, pack_iq_sample
  <2>3. /\ Survives(srs[i].real, 2 * Signed(Low16(Quantum(srs[i].real))))
        /\ Survives(srs[i].imag, 2 * Signed(Low16(Quantum(srs[i].imag))))
    BY <2>1, PartSurvives
  <2> QED
    BY <2>2, <2>3
<1> QED
  BY <1>1, <1>2
=============================================================================
