----------------------------- MODULE AntiReplay -----------------------------
(***************************************************************************)
(* What the anti-replay window of crates/fips-noise/src/replay.rs promises *)
(* to the receive path of one key epoch: out of the counters a peer sends, *)
(* each is accepted at most once, and a counter that lies a full window    *)
(* behind the highest accepted one is never accepted.                      *)
(***************************************************************************)
EXTENDS Naturals

CONSTANTS
    Window,   \* REPLAY_WINDOW_SIZE
    Ceiling   \* u64::MAX, the counter a conforming sender never emits

VARIABLE accepted  \* the counters accepted since the last reset

(* A counter may be accepted when it is new and inside the window.         *)
Acceptable(seen, c) ==
    /\ c # Ceiling
    /\ c \notin seen
    /\ \A d \in seen : d < c + Window

Init == accepted = {}

Accept(c) ==
    /\ Acceptable(accepted, c)
    /\ accepted' = accepted \cup {c}

Reset == accepted' = {}

Next == Reset \/ \E c \in 0 .. Ceiling : Accept(c)

Spec == Init /\ [][Next]_accepted
=============================================================================
