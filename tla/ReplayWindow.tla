---------------------------- MODULE ReplayWindow ----------------------------
(***************************************************************************)
(* The sliding window of crates/fips-noise/src/replay.rs: the highest      *)
(* accepted counter and a bitmap in which bit i stands for the counter     *)
(* highest - i.  The bitmap is the set of its set bits; how it is kept in  *)
(* machine words is the subject of ReplayBitmap.                           *)
(*                                                                         *)
(* Counters are u64.  The code narrows counter differences with `as usize' *)
(* before it compares them with the window, so the model carries the width *)
(* of usize: UsizeRange is 2^64 on the host and 2^32 on the ESP32 and      *)
(* STM32 targets, scaled down with the window.                             *)
(***************************************************************************)
EXTENDS Naturals

CONSTANTS
    Window,      \* REPLAY_WINDOW_SIZE
    Ceiling,     \* u64::MAX
    UsizeRange   \* number of values of usize

ASSUME SizesAssumption ==
    /\ Window \in Nat \ {0}
    /\ Ceiling \in Nat \ {0}
    /\ UsizeRange \in Nat \ {0}
    /\ Window < UsizeRange

VARIABLES
    highest,
    bitmap,
    accepted   \* history: the counters accepted since the last reset

vars == <<highest, bitmap, accepted>>

Counters == 0 .. Ceiling
Offsets == 0 .. Window - 1

Usize(x) == x % UsizeRange

(* The bitmap has bits of the window only, and every counter is a u64.     *)
TypeOK ==
    /\ highest \in Counters
    /\ bitmap \subseteq Offsets
    /\ accepted \subseteq Counters

-----------------------------------------------------------------------------
Init ==
    /\ highest = 0
    /\ bitmap = {}
    /\ accepted = {}

(* A plausible slip in check: the window is one counter too wide.          *)
CheckOffByOne(c) ==
    /\ c # Ceiling
    /\ \/ c > highest
       \/ /\ c <= highest
          /\ Usize(highest - c) <= Window
          /\ Usize(highest - c) \notin bitmap

Check(c) ==
    /\ c # Ceiling
    /\ \/ c > highest
       \/ /\ c <= highest
          /\ Usize(highest - c) < Window
          /\ Usize(highest - c) \notin bitmap

(* shift_bitmap: every bit moves up, bits pushed past the window fall off. *)
ShiftBitmap(bits, shift) == {i \in Offsets : i >= shift /\ i - shift \in bits}

AcceptedBits(c) ==
    IF c > highest
    THEN LET shift == c - highest
         IN  (IF Usize(shift) >= Window THEN {}
              ELSE ShiftBitmap(bitmap, Usize(shift))) \cup {0}
    ELSE bitmap \cup {Usize(highest - c)}

(* decrypt_established_frame: check, AEAD-open, accept.                    *)
Accept(c) ==
    /\ Check(c)
    /\ bitmap' = AcceptedBits(c)
    /\ highest' = IF c > highest THEN c ELSE highest
    /\ accepted' = accepted \cup {c}

Reset ==
    /\ highest' = 0
    /\ bitmap' = {}
    /\ accepted' = {}

Next == Reset \/ \E c \in Counters : Accept(c)

Spec == Init /\ [][Next]_vars

-----------------------------------------------------------------------------
(* The window and the set of accepted counters tell the same story: bit i  *)
(* is set exactly when highest - i has been accepted.                      *)
WindowInv ==
    /\ Ceiling \notin accepted
    /\ \A d \in accepted : d <= highest
    /\ accepted = {} => highest = 0
    /\ accepted # {} => highest \in accepted
    /\ \A i \in Offsets : i \in bitmap <=> i <= highest /\ highest - i \in accepted

Abstract == INSTANCE AntiReplay

(* replay.rs promises "Counters below the window or already seen are       *)
(* rejected", and check/accept reject nothing else: what the window        *)
(* accepts is exactly what AntiReplay lets it accept.                      *)
AcceptsAsPromised == Abstract!Spec

(* The same sentence of replay.rs read as a statement about check alone:   *)
(* in every reachable state check agrees with the promise, for every       *)
(* counter.                                                                *)
CheckAgrees ==
    \A c \in Counters : Check(c) <=> Abstract!Acceptable(accepted, c)
=============================================================================
