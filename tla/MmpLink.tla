------------------------------ MODULE MmpLink ------------------------------
(***************************************************************************)
(* The link metrics protocol (microfips-protocol/src/mmp,                  *)
(* microfips-core/src/mmp): one node "a" sends data and sender reports,    *)
(* its peer "b" answers with receiver reports, and "a" derives loss and    *)
(* round-trip time from them.  Both reset their counters at a rekey, each  *)
(* at its own cutover.  Frames are delayed, lost and reordered; a frame of *)
(* the previous epoch is still accepted.                                   *)
(*                                                                         *)
(* Both nodes run the same code; the model follows one direction of data,  *)
(* so only the receiver half of "b" and the sender and metrics half of "a" *)
(* are in it.  Sizes in bytes, jitter and trends are left out.             *)
(***************************************************************************)
EXTENDS Integers, FiniteSets, FiniteSetsExt

CONSTANTS
    Wires,      \* report layouts: subset of {"ik", "xx"}
    DwellMax,   \* u16::MAX: the longest dwell a report can carry, in ticks
    ByteBase,   \* values of a byte (256)
    WordMod,    \* values of a two-byte field (65536)
    LongMod,    \* values of a four-byte field (2^32)
    MaxCtr,     \* bound: frames of "a" before the rekey; after it, one less
    MaxFlight,  \* bound: frames under way at once
    MaxReports, \* bound: reports in a behaviour
    MaxClock    \* bound: ticks in a behaviour

ASSUME MmpAssumption == DwellMax \in Nat /\ MaxCtr \in Nat \ {0}

VARIABLES
    layout,  \* the report layout of this build
    clock,   \* time in ticks
    epoch,   \* epoch[p]: key epoch in which p seals
    ctr,     \* the next counter of "a"
    frames,  \* frames of "a" under way: [epoch, ctr, ts]
    rcv,     \* ReceiverState of "b"
    reports, \* receiver reports under way
    met,     \* MmpMetrics of "a"
    built    \* number of reports built

mmpVars == <<layout, clock, epoch, ctr, frames, rcv, reports, met, built>>

----------------------------------------------------------------------------
(* Receiver *)

NewGaps == [expected |-> {}, inBurst |-> FALSE, current |-> 0, count |-> 0, max |-> 0, total |-> 0]

NewReceiver ==
    [packets |-> 0, reorder |-> 0, highest |-> 0, hasData |-> FALSE, echo |-> 0, at |-> {},
     gaps |-> NewGaps, skipped |-> 0, seen |-> {}, stray |-> FALSE]

Larger(a, b) == IF a > b THEN a ELSE b

\* GapTracker::finish_burst
FinishBurst(g) ==
    IF g.inBurst THEN [g EXCEPT !.max = Larger(g.max, g.current), !.total = @ + g.current,
                                !.inBurst = FALSE, !.current = 0]
                 ELSE g

\* GapTracker::observe
ObserveGap(g, c) ==
    IF g.expected = {} THEN [g EXCEPT !.expected = {c + 1}]
    ELSE LET want == CHOOSE e \in g.expected : TRUE
             gap == c - want
             h == IF gap <= 0 THEN FinishBurst(g)
                  ELSE IF g.inBurst THEN [g EXCEPT !.current = @ + gap]
                  ELSE [g EXCEPT !.inBurst = TRUE, !.current = gap, !.count = @ + 1]
         IN  IF gap >= 0 THEN [h EXCEPT !.expected = {c + 1}] ELSE h

\* What ObserveGap calls lost, for the bookkeeping of the property below.
Skipped(g, c) == IF \E e \in g.expected : c > e THEN c - (CHOOSE e \in g.expected : TRUE) ELSE 0

\* A plausible slip: a late frame is not counted as received.
RecordRecvLateUncounted(r, f) ==
    [r EXCEPT !.hasData = TRUE, !.packets = IF f.ctr < r.highest THEN @ ELSE @ + 1,
              !.reorder = IF f.ctr < r.highest THEN @ + 1 ELSE @,
              !.highest = IF f.ctr < r.highest THEN @ ELSE f.ctr,
              !.gaps = ObserveGap(r.gaps, f.ctr),
              !.skipped = @ + Skipped(r.gaps, f.ctr),
              !.seen = IF f.epoch >= epoch["b"] THEN @ \union {f.ctr} ELSE @,
              !.stray = @ \/ f.epoch < epoch["b"],
              !.echo = f.ts, !.at = {[got |-> clock, sent |-> f.ts]}]

\* ReceiverState::record_recv
RecordRecv(r, f) ==
    [r EXCEPT !.hasData = TRUE, !.packets = @ + 1,
              !.reorder = IF f.ctr < r.highest THEN @ + 1 ELSE @,
              !.highest = IF f.ctr < r.highest THEN @ ELSE f.ctr,
              !.gaps = ObserveGap(r.gaps, f.ctr),
              !.skipped = @ + Skipped(r.gaps, f.ctr),
              !.seen = IF f.epoch >= epoch["b"] THEN @ \union {f.ctr} ELSE @,
              !.stray = @ \/ f.epoch < epoch["b"],
              !.echo = f.ts, !.at = {[got |-> clock, sent |-> f.ts]}]

\* ReceiverState::reset_for_rekey: the packet total survives.
ResetReceiver(r) ==
    [NewReceiver EXCEPT !.packets = r.packets]

\* The counters "a" has not reached in the epoch of "b".
Unsent == IF epoch["b"] < epoch["a"] THEN {} ELSE ctr..MaxCtr

\* ReceiverState::build_report; a dwell that does not fit suppresses the echo.
\* For the properties below: "up", "held" and "at" are what the echo stands for,
\* "top" is the highest counter whatever the layout makes of it, "missing" are the
\* counters up to it that were sent in the epoch of "b" and have not come, "unsent"
\* those that have not been sent in it, "stray" tells that a frame of the previous
\* epoch was recorded since the reset.
Report(r) ==
    LET last == CHOOSE t \in r.at : TRUE
        dwell == clock - last.got
        fits == r.at # {} /\ dwell <= DwellMax
        g == FinishBurst(r.gaps)
    IN  [highest |-> r.highest, packets |-> r.packets, reorder |-> r.reorder,
         echo |-> IF fits THEN r.echo ELSE 0,
         dwell |-> IF fits THEN dwell ELSE IF r.at = {} THEN 0 ELSE DwellMax,
         bursts |-> g.count, maxBurst |-> g.max, total |-> g.total, skipped |-> r.skipped,
         up |-> IF r.at = {} THEN 0 ELSE last.got - last.sent,
         held |-> IF r.at = {} THEN DwellMax + 1 ELSE dwell, at |-> clock, no |-> built + 1,
         epoch |-> epoch["b"], top |-> r.highest, stray |-> r.stray,
         missing |-> {c \in (0..r.highest) \ r.seen : c \notin Unsent},
         unsent |-> Unsent \intersect (0..r.highest)]

AfterReport(r) ==
    [r EXCEPT !.hasData = FALSE, !.skipped = 0,
              !.gaps = [FinishBurst(r.gaps) EXCEPT !.count = 0, !.max = 0, !.total = 0]]

----------------------------------------------------------------------------
(* The wire *)

\* encode, send_link_message and decode.  The IK encoding starts with the
\* message type, send_link_message puts the type in front once more, and decode
\* skips three bytes: every little-endian field is read one byte early, its lowest
\* byte being the highest one of the field before it.
OnWire(rr) ==
    IF layout = "xx" THEN rr
    ELSE [rr EXCEPT !.highest = @ * ByteBase, !.packets = @ * ByteBase,
                    !.reorder = (@ * ByteBase) % LongMod,
                    !.echo = (@ * ByteBase) % LongMod,
                    !.dwell = ((@ * ByteBase) % WordMod) + rr.echo \div (LongMod \div ByteBase)]

----------------------------------------------------------------------------
(* Metrics *)

NewMetrics ==
    [packets |-> 0, highest |-> 0, reorder |-> 0, hasPrev |-> FALSE,
     delivered |-> 1, span |-> 1, sample |-> {},
     latest |-> 0, epoch |-> 0, top |-> 0, stray |-> FALSE, missing |-> {}, unsent |-> {}]

\* MmpMetrics::reset_for_rekey; the round-trip estimate, which survives it, is the
\* subject of MmpEstimators.
ResetMetrics == NewMetrics

\* MmpMetrics::is_stale_or_duplicate
StaleOrDuplicate(m, rr) ==
    \/ rr.highest < m.highest \/ rr.packets < m.packets \/ rr.reorder < m.reorder
    \/ rr.highest = m.highest /\ rr.packets = m.packets /\ rr.reorder = m.reorder

Accepts(m, rr) == ~(m.hasPrev /\ StaleOrDuplicate(m, rr))

\* A plausible slip: the dwell time is not taken off.
RttSampleWithDwell(rr) ==
    {d \in {clock - rr.echo} : rr.echo > 0 /\ d > 0}

\* The round-trip sample of a report: none without an echo, none when the
\* subtraction would go below zero, none when it is zero.
RttSample(rr) ==
    {d \in {clock - (rr.echo + rr.dwell)} : rr.echo > 0 /\ d > 0}

\* MmpMetrics::process_receiver_report
ProcessReport(m, rr) ==
    LET span == rr.highest - m.highest
        delta == rr.packets - m.packets
    IN  [packets |-> rr.packets, highest |-> rr.highest, reorder |-> rr.reorder, hasPrev |-> TRUE,
         delivered |-> IF m.hasPrev /\ span > 0 THEN (IF delta < span THEN delta ELSE span) ELSE m.delivered,
         span |-> IF m.hasPrev /\ span > 0 THEN span ELSE m.span,
         sample |-> RttSample(rr),
         latest |-> rr.no, epoch |-> rr.epoch, top |-> rr.top, stray |-> rr.stray,
         missing |-> IF m.hasPrev /\ span > 0 THEN {c \in rr.missing : c > m.top} ELSE m.missing,
         unsent |-> IF m.hasPrev /\ span > 0 THEN {c \in rr.unsent : c > m.top} ELSE m.unsent]

----------------------------------------------------------------------------
(* Steps *)

MmpTick ==
    /\ clock < MaxClock /\ clock' = clock + 1
    /\ UNCHANGED <<layout, epoch, ctr, frames, rcv, reports, met, built>>

SendData ==
    /\ ctr < MaxCtr - epoch["a"] /\ Cardinality(frames) < MaxFlight
    /\ frames' = frames \union {[epoch |-> epoch["a"], ctr |-> ctr, ts |-> clock]}
    /\ ctr' = ctr + 1
    /\ UNCHANGED <<layout, clock, epoch, rcv, reports, met, built>>

\* "a" starts to seal in the new epoch: its counter restarts, its metrics and
\* its receiver are reset.
CutOver ==
    /\ epoch["a"] = 0 /\ epoch' = [epoch EXCEPT !["a"] = 1]
    /\ ctr' = 0 /\ met' = ResetMetrics
    /\ UNCHANGED <<layout, clock, frames, rcv, reports, built>>

\* A frame of either epoch; the first one of the new epoch is "b"'s cutover.
ReceiveData(f) ==
    /\ f \in frames /\ frames' = frames \ {f}
    /\ LET fresh == f.epoch > epoch["b"]
       IN  /\ epoch' = [epoch EXCEPT !["b"] = IF fresh THEN 1 ELSE @]
           /\ rcv' = RecordRecv(IF fresh THEN ResetReceiver(rcv) ELSE rcv, f)
    /\ UNCHANGED <<layout, clock, ctr, reports, met, built>>

LoseData(f) ==
    /\ f \in frames /\ frames' = frames \ {f}
    /\ UNCHANGED <<layout, clock, epoch, ctr, rcv, reports, met, built>>

\* The report timer, or the answer to a sender report, when the interval is
\* over.
SendReport ==
    /\ rcv.hasData /\ built < MaxReports
    /\ reports' = reports \union {Report(rcv)}
    /\ rcv' = AfterReport(rcv)
    /\ built' = built + 1
    /\ UNCHANGED <<layout, clock, epoch, ctr, frames, met>>

ReceiveReport(rr) ==
    /\ rr \in reports /\ reports' = reports \ {rr}
    /\ met' = IF Accepts(met, OnWire(rr)) THEN ProcessReport(met, OnWire(rr)) ELSE met
    /\ UNCHANGED <<layout, clock, epoch, ctr, frames, rcv, built>>

MmpInit ==
    /\ layout \in Wires /\ clock = 1 /\ epoch = [p \in {"a", "b"} |-> 0]
    /\ ctr = 0 /\ frames = {} /\ rcv = NewReceiver
    /\ reports = {} /\ met = NewMetrics /\ built = 0

MmpNext ==
    \/ MmpTick \/ SendData \/ CutOver \/ SendReport
    \/ \E f \in frames : ReceiveData(f) \/ LoseData(f)
    \/ \E rr \in reports : ReceiveReport(rr)

MmpSpec == MmpInit /\ [][MmpNext]_mmpVars

----------------------------------------------------------------------------
(* Properties *)

\* What the layout multiplies the counters of a report by.
Scale == IF layout = "xx" THEN 1 ELSE ByteBase

\* The loss that "a" derives is real: of the frames between two reports it
\* counts as lost no more than were sent and "b" had not received when it built
\* the later one, whatever the layout multiplies both counts by.  There is one
\* exception: a frame of the previous epoch that comes after the reset of "b" is
\* recorded with its old counter, and the counters of the new epoch up to it that
\* "a" has not used yet can then count as lost, too.
NoPhantomLoss ==
    /\ met.span - met.delivered <= Scale * (Cardinality(met.missing) + Cardinality(met.unsent))
    /\ met.unsent # {} => met.stray

\* In the XX layout the round-trip sample of an accepted report is the time its
\* frame took one way plus the time the report took the other way: what "b" held on
\* to in between does not count.  When that was too long for the dwell field, or the
\* trip took no time, there is no sample at all.
RttMeasured ==
    [][layout = "xx" => \A rr \in reports :
         reports' = reports \ {rr} /\ met' # met
           => met'.sample = {d \in {rr.up + clock - rr.at} : rr.held <= DwellMax /\ d > 0}
      ]_mmpVars

\* A report that "a" accepts has the counters "b" built it with, as the test
\* receiver_report_roundtrip has it (microfips-core/src/mmp/report.rs).
ReportReadAsBuilt ==
    [][\A rr \in reports :
         reports' = reports \ {rr} /\ met' # met
           => <<met'.highest, met'.packets, met'.reorder>> = <<rr.highest, rr.packets, rr.reorder>>
      ]_mmpVars

\* Bursts add up: the bursts of a report hold exactly the counters that were
\* skipped during its interval, also when a burst spans two reports or ends
\* with a late frame.
BurstsAddUp ==
    \A rr \in reports :
        /\ rr.total = rr.skipped
        /\ rr.maxBurst <= rr.total /\ rr.bursts <= rr.total
        /\ rr.total > 0 => rr.bursts > 0

\* The baseline was built before the cutover of "b", the report after it.
Straddles(rr) == met.hasPrev /\ met.epoch < rr.epoch

\* A report that is older than an accepted one is never accepted, and a newer one
\* always is, except when the accepted one was built before the cutover of "b" and
\* came after that of "a": the counters then seem to go back.
\* is_stale_or_duplicate tells the two apart in either layout.
FreshReportsAccepted ==
    [][\A rr \in reports :
         reports' = reports \ {rr}
           => /\ rr.no < met.latest => met' = met
              /\ rr.no > met.latest => met'.latest = rr.no \/ Straddles(rr)]_mmpVars

\* A report is used for what it is: accepted when it is news and, in the XX layout,
\* then timed right.
ReportsAreUsedRight == FreshReportsAccepted /\ RttMeasured

============================================================================
