----------------------- MODULE MmpEstimatorsProofs -----------------------
(***************************************************************************)
(* Proofs about MmpEstimators for every set of samples and every choice of *)
(* the bounds.  The shifts are integer divisions, so the argument is about *)
(* truncation: v - v \div k is monotone in v, and for v = m it gives back  *)
(* together with m \div k exactly m, which makes every bound m of the      *)
(* samples a bound of the estimate.                                        *)
(***************************************************************************)
EXTENDS MmpEstimators, TLAPS

\* What one division by a positive constant does.
LEMMA DivEight ==
    ASSUME NEW x \in Nat
    PROVE  /\ x \div 8 \in Nat
           /\ 8 * (x \div 8) <= x /\ x < 8 * (x \div 8) + 8
  OBVIOUS

LEMMA DivFour ==
    ASSUME NEW x \in Nat
    PROVE  /\ x \div 4 \in Nat
           /\ 4 * (x \div 4) <= x /\ x < 4 * (x \div 4) + 4
  OBVIOUS

LEMMA DivSixteen ==
    ASSUME NEW x \in Nat
    PROVE  /\ x \div 16 \in Nat
           /\ 16 * (x \div 16) <= x /\ x < 16 * (x \div 16) + 16
  OBVIOUS

\* An average with weights 7/8 and 1/8, truncated as the code does it, stays
\* between any two bounds of its arguments.
LEMMA SmoothedWithinBounds ==
    ASSUME NEW s \in Nat, NEW r \in Nat, NEW lo \in Nat, NEW hi \in Nat,
           lo <= s, s <= hi, lo <= r, r <= hi
    PROVE  /\ s - (s \div 8) + (r \div 8) \in Nat
           /\ lo <= s - (s \div 8) + (r \div 8)
           /\ s - (s \div 8) + (r \div 8) <= hi
  BY DivEight

\* The same for weights 3/4 and 1/4, from above.
LEMMA VariationWithinBounds ==
    ASSUME NEW v \in Nat, NEW d \in Nat, NEW hi \in Nat, v <= hi, d <= hi
    PROVE  /\ v - (v \div 4) + (d \div 4) \in Nat
           /\ v - (v \div 4) + (d \div 4) <= hi
  BY DivFour

\* The jitter filter keeps its value in sixteenths below 16 * (w + 1).
LEMMA JitterStep ==
    ASSUME NEW q \in Nat, NEW d \in Nat, NEW w \in Nat, q \div 16 <= w, d <= w
    PROVE  /\ q + d - (q \div 16) \in Nat
           /\ (q + d - (q \div 16)) \div 16 <= w
  <1> DEFINE k == q \div 16
  <1>1. k \in Nat /\ 16 * k <= q /\ q < 16 * k + 16 /\ k <= w
    BY DivSixteen
  <1>2. q + d - k \in Nat
    BY <1>1
  <1>3. q + d - k < 16 * w + 16
    BY <1>1
  <1>4. (q + d - k) \div 16 <= w
    <2> DEFINE n == q + d - k
    <2>1. n \in Nat /\ n < 16 * w + 16
      BY <1>2, <1>3
    <2> HIDE DEF n, k
    <2>2. 16 * (n \div 16) <= n /\ n \div 16 \in Nat
      BY <2>1, DivSixteen
    <2>3. n \div 16 <= w
      BY <2>1, <2>2
    <2> QED BY <2>3 DEF n
  <1> QED BY <1>2, <1>4

----------------------------------------------------------------------------
(* The invariant *)

\* The three properties together with the types; inductive as it stands.
EstInv ==
    /\ est \in [srtt : Nat, rttvar : Nat, known : BOOLEAN, min : Nat]
    /\ longest \in Nat /\ samples \in Nat /\ txMs \in Nat /\ rxMs \in Nat
    /\ jitter \in Nat /\ worst \in Nat
    /\ SrttWithinSamples /\ JitterWithinSamples /\ IntervalsBounded

\* The timeout is a floor above the smoothed time whatever the variation.
LEMMA RtoAboveSrtt ==
    ASSUME NEW e \in [srtt : Nat, rttvar : Nat, known : BOOLEAN, min : Nat]
    PROVE  e.srtt + RtoFloor <= Rto(e)
  BY EstAssumption DEF Rto, AtLeast

\* SrttEstimator::update keeps the estimate within its samples.
LEMMA UpdateKeepsBounds ==
    ASSUME NEW e \in [srtt : Nat, rttvar : Nat, known : BOOLEAN, min : Nat],
           NEW top \in Nat, NEW rtt \in Nat,
           e.known => e.min <= e.srtt /\ e.srtt <= top /\ e.rttvar <= top
    PROVE  LET f == UpdateEst(e, rtt)
               high == IF e.known THEN AtLeast(top, rtt) ELSE rtt
           IN  /\ f \in [srtt : Nat, rttvar : Nat, known : BOOLEAN, min : Nat]
               /\ f.min <= f.srtt /\ f.srtt <= high /\ f.rttvar <= high
  <1>1. CASE ~e.known
    BY <1>1 DEF UpdateEst
  <1>2. CASE e.known
    <2> DEFINE lo == AtMost(e.min, rtt)
               hi == AtLeast(top, rtt)
               err == Magnitude(e.srtt - rtt)
    <2>1. /\ lo \in Nat /\ hi \in Nat /\ err \in Nat /\ err <= hi
          /\ lo <= e.srtt /\ e.srtt <= hi /\ lo <= rtt /\ rtt <= hi
          /\ e.srtt \in Nat /\ e.rttvar \in Nat /\ e.rttvar <= hi
      BY <1>2 DEF AtMost, AtLeast, Magnitude
    <2> HIDE DEF lo, hi, err
    <2>2. /\ e.srtt - (e.srtt \div 8) + (rtt \div 8) \in Nat
          /\ lo <= e.srtt - (e.srtt \div 8) + (rtt \div 8)
          /\ e.srtt - (e.srtt \div 8) + (rtt \div 8) <= hi
      BY <2>1, SmoothedWithinBounds
    <2>3. /\ e.rttvar - (e.rttvar \div 4) + (err \div 4) \in Nat
          /\ e.rttvar - (e.rttvar \div 4) + (err \div 4) <= hi
      BY <2>1, VariationWithinBounds
    <2>4. UpdateEst(e, rtt) =
            [srtt |-> e.srtt - (e.srtt \div 8) + (rtt \div 8),
             rttvar |-> e.rttvar - (e.rttvar \div 4) + (err \div 4),
             known |-> TRUE, min |-> lo]
      BY <1>2 DEF UpdateEst, lo, err
    <2> QED BY <1>2, <2>1, <2>2, <2>3, <2>4 DEF hi
  <1> QED BY <1>1, <1>2

\* The two intervals that follow from one estimate.
LEMMA ClampedIntervals ==
    ASSUME NEW srtt \in Nat, NEW n \in Nat
    PROVE  LET tx == Clamp((2 * srtt) \div Milli, Floor(n), MaxMs)
               rx == Clamp(srtt \div Milli, Floor(n), MaxMs)
           IN  /\ tx \in Nat /\ rx \in Nat
               /\ ColdMs <= rx /\ rx <= tx /\ tx <= MaxMs
               /\ n > ColdSamples => MinMs <= rx
  <1> DEFINE x == srtt \div Milli
             y == (2 * srtt) \div Milli
  <1>1. x \in Nat /\ y \in Nat /\ x <= y
    BY EstAssumption
  <1>2. /\ Floor(n) \in Nat /\ ColdMs <= Floor(n) /\ Floor(n) <= MaxMs
        /\ n > ColdSamples => Floor(n) = MinMs
    BY EstAssumption DEF Floor
  <1> HIDE DEF x, y
  <1>3. /\ Clamp(y, Floor(n), MaxMs) \in Nat /\ Clamp(x, Floor(n), MaxMs) \in Nat
        /\ Floor(n) <= Clamp(x, Floor(n), MaxMs)
        /\ Clamp(x, Floor(n), MaxMs) <= Clamp(y, Floor(n), MaxMs)
        /\ Clamp(y, Floor(n), MaxMs) <= MaxMs
    BY <1>1, <1>2, EstAssumption DEF Clamp, AtLeast, AtMost
  <1> QED BY <1>2, <1>3, EstAssumption DEF x, y

LEMMA EstInitOk == EstInit => EstInv
  BY EstAssumption DEF EstInit, EstInv, NewEst, SrttWithinSamples, JitterWithinSamples, IntervalsBounded

LEMMA RttSampledOk ==
    ASSUME EstInv, NEW rtt \in RttSamples, RttSampled(rtt)
    PROVE  EstInv'
  <1> DEFINE n == AtMost(samples + 1, ColdSamples + 1)
  <1>1. rtt \in Nat /\ n \in Nat
    BY EstAssumption DEF EstInv, AtMost
  <1>2. /\ est' \in [srtt : Nat, rttvar : Nat, known : BOOLEAN, min : Nat]
        /\ est'.min <= est'.srtt /\ est'.srtt <= longest' /\ est'.rttvar <= longest'
    BY <1>1, UpdateKeepsBounds DEF EstInv, SrttWithinSamples, RttSampled
  <1>3. longest' \in Nat
    BY <1>1 DEF EstInv, RttSampled, AtLeast
  <1>4. est'.srtt + RtoFloor <= Rto(est')
    BY <1>2, RtoAboveSrtt
  <1>5. SrttWithinSamples'
    BY <1>2, <1>3, <1>4 DEF SrttWithinSamples, Rto
  <1>6. /\ txMs' \in Nat /\ rxMs' \in Nat
        /\ ColdMs <= rxMs' /\ rxMs' <= txMs' /\ txMs' <= MaxMs
        /\ n > ColdSamples => MinMs <= rxMs'
    <2>1. est'.srtt \in Nat
      BY <1>2
    <2>2. /\ txMs' = Clamp((2 * est'.srtt) \div Milli, Floor(n), MaxMs)
          /\ rxMs' = Clamp(est'.srtt \div Milli, Floor(n), MaxMs)
      BY DEF RttSampled
    <2> HIDE DEF n
    <2> QED BY <1>1, <2>1, <2>2, ClampedIntervals
  <1>7. samples' = n /\ jitter' = jitter /\ worst' = worst
    BY DEF RttSampled
  <1>8. IntervalsBounded' /\ JitterWithinSamples'
    BY <1>6, <1>7 DEF IntervalsBounded, JitterWithinSamples, EstInv
  <1> QED BY <1>1, <1>2, <1>3, <1>5, <1>6, <1>7, <1>8 DEF EstInv

LEMMA TransitSampledOk ==
    ASSUME EstInv, NEW d \in Transits, TransitSampled(d)
    PROVE  EstInv'
  <1> DEFINE w == AtLeast(worst, Magnitude(d))
  <1>1. Magnitude(d) \in Nat /\ w \in Nat /\ Magnitude(d) <= w /\ worst <= w
    BY EstAssumption DEF EstInv, Magnitude, AtLeast
  <1>2. jitter \in Nat /\ jitter \div 16 <= w
    BY <1>1, DivSixteen DEF EstInv, JitterWithinSamples
  <1> HIDE DEF w
  <1>3. jitter' \in Nat /\ jitter' \div 16 <= w
    BY <1>1, <1>2, JitterStep DEF TransitSampled
  <1>4. worst' = w
    BY DEF TransitSampled, w
  <1>5. JitterWithinSamples'
    BY <1>3, <1>4 DEF JitterWithinSamples
  <1>6. SrttWithinSamples' /\ IntervalsBounded'
    BY DEF EstInv, TransitSampled, SrttWithinSamples, IntervalsBounded, Rto
  <1> QED BY <1>1, <1>3, <1>4, <1>5, <1>6 DEF EstInv, TransitSampled

\* Whatever the samples are, the smoothed round-trip time, its variation, the
\* jitter and the two report intervals never leave their bounds.
THEOREM EstimatesBounded ==
    EstSpec => [](SrttWithinSamples /\ JitterWithinSamples /\ IntervalsBounded)
  <1>1. EstInit => EstInv
    BY EstInitOk
  <1>2. EstInv /\ [EstNext]_estVars => EstInv'
    <2> SUFFICES ASSUME EstInv, [EstNext]_estVars PROVE EstInv'
      OBVIOUS
    <2>1. CASE \E rtt \in RttSamples : RttSampled(rtt)
      BY <2>1, RttSampledOk
    <2>2. CASE \E d \in Transits : TransitSampled(d)
      BY <2>2, TransitSampledOk
    <2>3. CASE ResetSrtt
      BY <2>3 DEF ResetSrtt, NewEst, EstInv, SrttWithinSamples, JitterWithinSamples, IntervalsBounded
    <2>4. CASE ResetJitter
      BY <2>4 DEF ResetJitter, EstInv, SrttWithinSamples, JitterWithinSamples, IntervalsBounded, Rto
    <2>5. CASE UNCHANGED estVars
      BY <2>5 DEF estVars, EstInv, SrttWithinSamples, JitterWithinSamples, IntervalsBounded, Rto
    <2> QED BY <2>1, <2>2, <2>3, <2>4, <2>5 DEF EstNext
  <1>3. EstInv => SrttWithinSamples /\ JitterWithinSamples /\ IntervalsBounded
    BY DEF EstInv
  <1> QED BY <1>1, <1>2, <1>3, PTL DEF EstSpec

============================================================================
