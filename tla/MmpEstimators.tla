-------------------------- MODULE MmpEstimators --------------------------
(***************************************************************************)
(* What a node keeps of the round-trip and transit samples of its link:    *)
(* the smoothed round-trip time, its variation and minimum                 *)
(* (SrttEstimator), the interarrival jitter in sixteenths                  *)
(* (JitterEstimator), and the intervals at which it sends its two kinds of *)
(* report (update_report_interval_from_srtt).  All of it is integer        *)
(* arithmetic with shifts; the question is whether the truncation can make *)
(* an estimate drift away from the samples.                                *)
(***************************************************************************)
EXTENDS Integers

CONSTANTS
    RttSamples,    \* round-trip samples, in microseconds
    Transits,      \* differences of transit time between two frames
    Milli,         \* microseconds per millisecond (1000)
    ColdMs,        \* DEFAULT_COLD_START_INTERVAL_MS
    MinMs, MaxMs,  \* MIN_REPORT_INTERVAL_MS, MAX_REPORT_INTERVAL_MS
    ColdSamples,   \* COLD_START_SAMPLES
    RtoFloor       \* the second RFC 6298 asks for

ASSUME EstAssumption ==
    /\ RttSamples \subseteq Nat \ {0} /\ Transits \subseteq Int
    /\ Milli \in Nat \ {0} /\ ColdMs \in Nat /\ MinMs \in Nat /\ MaxMs \in Nat
    /\ ColdMs <= MinMs /\ MinMs <= MaxMs /\ ColdSamples \in Nat /\ RtoFloor \in Nat

VARIABLES
    est,       \* SrttEstimator: [srtt, rttvar, known, min]
    longest,   \* the longest round-trip sample since the last reset
    samples,   \* srtt_sample_count, saturating just above ColdSamples
    txMs,      \* report interval of the sender half
    rxMs,      \* report interval of the receiver half
    jitter,    \* jitter_q4
    worst      \* the largest transit difference so far

estVars == <<est, longest, samples, txMs, rxMs, jitter, worst>>

AtMost(a, b) == IF a < b THEN a ELSE b
AtLeast(a, b) == IF a < b THEN b ELSE a
Magnitude(a) == IF a < 0 THEN -a ELSE a
Clamp(x, lo, hi) == AtLeast(lo, AtMost(x, hi))

\* SrttEstimator::new and reset; no minimum is known.
NewEst == [srtt |-> 0, rttvar |-> 0, known |-> FALSE, min |-> 0]

\* SrttEstimator::update; v >> k is v \div 2^k.
UpdateEst(e, rtt) ==
    [srtt   |-> IF e.known THEN e.srtt - (e.srtt \div 8) + (rtt \div 8) ELSE rtt,
     rttvar |-> IF e.known THEN e.rttvar - (e.rttvar \div 4) + (Magnitude(e.srtt - rtt) \div 4)
                           ELSE rtt \div 2,
     known  |-> TRUE,
     min    |-> IF e.known THEN AtMost(e.min, rtt) ELSE rtt]

\* SrttEstimator::rto_us
Rto(e) == AtLeast(RtoFloor, e.srtt + AtLeast(RtoFloor, e.rttvar * 4))

Floor(n) == IF n <= ColdSamples THEN ColdMs ELSE MinMs

\* A receiver report with a round-trip sample: the estimate, then both
\* intervals (twice the round trip for the sender, once for the receiver).
RttSampled(rtt) ==
    LET e == UpdateEst(est, rtt)
        n == AtMost(samples + 1, ColdSamples + 1)
    IN  /\ est' = e /\ longest' = IF est.known THEN AtLeast(longest, rtt) ELSE rtt
        /\ samples' = n
        /\ txMs' = Clamp((2 * e.srtt) \div Milli, Floor(n), MaxMs)
        /\ rxMs' = Clamp(e.srtt \div Milli, Floor(n), MaxMs)
        /\ UNCHANGED <<jitter, worst>>

\* MmpMetrics::reset_srtt, for a new path.
ResetSrtt ==
    /\ est' = NewEst
    /\ UNCHANGED <<longest, samples, txMs, rxMs, jitter, worst>>

\* JitterEstimator::update
TransitSampled(d) ==
    /\ jitter' = jitter + Magnitude(d) - (jitter \div 16)
    /\ worst' = AtLeast(worst, Magnitude(d))
    /\ UNCHANGED <<est, longest, samples, txMs, rxMs>>

\* reset_for_rekey starts a new jitter estimate.
ResetJitter ==
    /\ jitter' = 0 /\ worst' = 0
    /\ UNCHANGED <<est, longest, samples, txMs, rxMs>>

EstInit ==
    /\ est = NewEst /\ longest = 0 /\ samples = 0
    /\ txMs = ColdMs /\ rxMs = ColdMs /\ jitter = 0 /\ worst = 0

EstNext ==
    \/ \E rtt \in RttSamples : RttSampled(rtt)
    \/ \E d \in Transits : TransitSampled(d)
    \/ ResetSrtt \/ ResetJitter

EstSpec == EstInit /\ [][EstNext]_estVars

----------------------------------------------------------------------------
(* Properties *)

\* Truncation does not make the smoothed round-trip time drift: it stays
\* between the shortest and the longest sample, and the variation never
\* exceeds the longest one; the timeout is at least its floor above it.
SrttWithinSamples ==
    est.known => /\ est.min <= est.srtt /\ est.srtt <= longest
                 /\ 0 <= est.rttvar /\ est.rttvar <= longest
                 /\ est.srtt + RtoFloor <= Rto(est)

\* The jitter that is reported never exceeds the largest transit difference.
JitterWithinSamples == 0 <= jitter /\ jitter \div 16 <= worst

\* Both report intervals stay within their bounds, the receiver reports at
\* least as often as the sender, and once the cold start is over nothing is
\* sent more often than MinMs allows.
IntervalsBounded ==
    /\ ColdMs <= rxMs /\ rxMs <= txMs /\ txMs <= MaxMs
    /\ samples > ColdSamples => MinMs <= rxMs

============================================================================
