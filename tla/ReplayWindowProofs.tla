------------------------- MODULE ReplayWindowProofs -------------------------
(***************************************************************************)
(* Proofs about ReplayWindow for every window size and every counter       *)
(* range, on targets whose usize holds every counter (WideUsize: 64-bit    *)
(* hosts).  On 32-bit targets that holds for the first 2^32 frames of an   *)
(* epoch only.                                                             *)
(***************************************************************************)
EXTENDS ReplayWindow, TLAPS

WideUsize == Ceiling < UsizeRange

IInv == TypeOK /\ WindowInv

(* `as usize' loses nothing when usize holds every counter.                *)
LEMMA UsizeExact ==
    ASSUME WideUsize, NEW x \in Counters
    PROVE  Usize(x) = x
BY SizesAssumption DEF WideUsize, Counters, Usize

(* Under the window invariant, check is the promise of AntiReplay.         *)
LEMMA CheckIsAcceptable ==
    ASSUME WideUsize, IInv, NEW c \in Counters
    PROVE  Check(c) <=> Abstract!Acceptable(accepted, c)
<1>1. CASE c > highest
  BY <1>1, SizesAssumption DEF IInv, TypeOK, WindowInv, Check, Counters,
     Abstract!Acceptable
<1>2. CASE c <= highest
  <2>1. highest - c \in Counters /\ highest - c \in Nat
    BY <1>2, SizesAssumption DEF IInv, TypeOK, Counters
  <2>2. Usize(highest - c) = highest - c
    BY <2>1, UsizeExact
  <2>3. accepted # {} => highest \in accepted
    BY DEF IInv, WindowInv
  <2>4. Check(c) <=> c # Ceiling /\ highest - c < Window /\ highest - c \notin bitmap
    BY <1>2, <2>2 DEF Check, IInv, TypeOK, Counters
  <2>5. ASSUME highest - c < Window
        PROVE  highest - c \in bitmap <=> c \in accepted
    <3>1. highest - c \in Offsets /\ highest - (highest - c) = c /\ highest - c <= highest
      BY <1>2, <2>1, <2>5, SizesAssumption DEF Offsets, IInv, TypeOK, Counters
    <3>2. QED
      BY <3>1 DEF IInv, WindowInv
  <2>6. (\A d \in accepted : d < c + Window) <=> (accepted = {} \/ highest < c + Window)
    BY <2>3, SizesAssumption DEF IInv, TypeOK, WindowInv, Counters
  <2>7. accepted = {} => highest < c + Window
    BY <1>2, SizesAssumption DEF IInv, WindowInv, Counters
  <2>8. highest - c < Window <=> highest < c + Window
    BY <1>2, SizesAssumption DEF IInv, TypeOK, Counters
  <2>9. QED
    BY <2>4, <2>5, <2>6, <2>7, <2>8 DEF Abstract!Acceptable
<1>3. QED
  BY <1>1, <1>2 DEF IInv, TypeOK, Counters

LEMMA InitEstablishes == Init => IInv
BY SizesAssumption DEF Init, IInv, TypeOK, WindowInv, Counters, Offsets

LEMMA AcceptPreserves ==
    ASSUME WideUsize, IInv, NEW c \in Counters, Accept(c)
    PROVE  IInv'
<1> USE SizesAssumption
<1>0. c # Ceiling
  BY DEF Accept, Check
<1>1. CASE c > highest
  <2>1. c - highest \in Counters
    BY <1>1 DEF IInv, TypeOK, Counters
  <2>2. Usize(c - highest) = c - highest
    BY <2>1, UsizeExact
  <2>3. /\ highest' = c
        /\ accepted' = accepted \cup {c}
        /\ bitmap' = (IF c - highest >= Window THEN {}
                      ELSE ShiftBitmap(bitmap, c - highest)) \cup {0}
    BY <1>1, <2>2 DEF Accept, AcceptedBits
  <2>4. TypeOK'
    BY <2>3 DEF IInv, TypeOK, ShiftBitmap, Counters, Offsets
  <2>5. \A d \in accepted : d <= highest /\ d \in Counters
    BY DEF IInv, TypeOK, WindowInv
  <2>6. /\ Ceiling \notin accepted'
        /\ \A d \in accepted' : d <= highest'
        /\ highest' \in accepted'
    BY <1>0, <1>1, <2>3, <2>5 DEF IInv, TypeOK, WindowInv, Counters
  <2>7. ASSUME NEW i \in Offsets
        PROVE  i \in bitmap' <=> i <= highest' /\ highest' - i \in accepted'
    <3>1. CASE i = 0
      BY <2>3, <3>1 DEF Counters
    <3>2. CASE i # 0
      <4>1. c - i \in accepted' <=> c - i \in accepted
        BY <2>3, <3>2 DEF Offsets, Counters
      <4>2. CASE i < c - highest
        <5>1. i \notin bitmap'
          BY <2>3, <3>2, <4>2 DEF ShiftBitmap, Offsets, Counters, IInv, TypeOK
        <5>2. c - i > highest
          BY <4>2 DEF Offsets, Counters, IInv, TypeOK
        <5>3. QED
          BY <2>3, <2>5, <4>1, <5>1, <5>2 DEF Counters, Offsets, IInv, TypeOK
      <4>3. CASE i >= c - highest
        <5> DEFINE j == i - (c - highest)
        <5>1. /\ j \in Offsets
              /\ c - highest < Window
              /\ highest - j = c - i
              /\ j <= highest <=> i <= c
          BY <1>1, <4>3 DEF Offsets, Counters, IInv, TypeOK
        <5>2. i \in bitmap' <=> j \in bitmap
          BY <2>3, <3>2, <4>3, <5>1 DEF ShiftBitmap, Counters, Offsets, IInv, TypeOK
        <5>3. j \in bitmap <=> j <= highest /\ highest - j \in accepted
          BY <5>1 DEF IInv, WindowInv
        <5>4. QED
          BY <2>3, <4>1, <5>1, <5>2, <5>3
      <4>4. QED
        BY <4>2, <4>3 DEF Offsets, Counters, IInv, TypeOK
    <3>3. QED
      BY <3>1, <3>2
  <2>8. QED
    BY <2>4, <2>6, <2>7 DEF IInv, WindowInv
<1>2. CASE ~(c > highest)
  <2>1. c <= highest /\ highest - c \in Counters
    BY <1>2 DEF IInv, TypeOK, Counters
  <2>2. Usize(highest - c) = highest - c
    BY <2>1, UsizeExact
  <2>3. /\ highest' = highest
        /\ accepted' = accepted \cup {c}
        /\ bitmap' = bitmap \cup {highest - c}
        /\ highest - c < Window
    BY <1>2, <2>2 DEF Accept, AcceptedBits, Check
  <2>4. TypeOK'
    BY <2>1, <2>3 DEF IInv, TypeOK, Counters, Offsets
  <2>5. /\ Ceiling \notin accepted'
        /\ \A d \in accepted' : d <= highest'
    BY <1>0, <2>1, <2>3 DEF IInv, WindowInv
  <2>6. highest' \in accepted'
    BY <2>1, <2>3 DEF IInv, WindowInv, Counters
  <2>7. ASSUME NEW i \in Offsets
        PROVE  i \in bitmap' <=> i <= highest' /\ highest' - i \in accepted'
    <3>1. i \in bitmap' <=> i \in bitmap \/ i = highest - c
      BY <2>3
    <3>2. i <= highest => (i = highest - c <=> highest - i = c)
      BY <2>1 DEF Offsets, IInv, TypeOK, Counters
    <3>3. i = highest - c => i <= highest
      BY <2>1 DEF IInv, TypeOK, Counters
    <3>4. i \in bitmap <=> i <= highest /\ highest - i \in accepted
      BY DEF IInv, WindowInv
    <3>5. QED
      BY <2>3, <3>1, <3>2, <3>3, <3>4
  <2>8. QED
    BY <2>4, <2>5, <2>6, <2>7 DEF IInv, WindowInv
<1>3. QED
  BY <1>1, <1>2

LEMMA ResetPreserves == Reset => IInv'
BY SizesAssumption DEF Reset, IInv, TypeOK, WindowInv, Counters, Offsets

LEMMA StepPreserves ==
    ASSUME WideUsize, IInv, [Next]_vars
    PROVE  IInv'
<1>1. CASE Reset
  BY <1>1, ResetPreserves
<1>2. ASSUME NEW c \in Counters, Accept(c) PROVE IInv'
  BY <1>2, AcceptPreserves
<1>3. CASE UNCHANGED vars
  BY <1>3 DEF vars, IInv, TypeOK, WindowInv
<1>4. QED
  BY <1>1, <1>2, <1>3 DEF Next

(* check/accept keep the bitmap in step with the counters accepted so far, *)
(* whatever the window size and the counter range.                         *)
THEOREM WindowInvariant ==
    ASSUME WideUsize
    PROVE  Spec => [](TypeOK /\ WindowInv)
<1>1. Init => IInv
  BY InitEstablishes
<1>2. IInv /\ [Next]_vars => IInv'
  BY StepPreserves
<1>3. QED
  BY <1>1, <1>2, PTL DEF Spec, IInv

(* check rejects exactly the counters that are below the window, already   *)
(* seen, or the u64::MAX ceiling, in every reachable state.                *)
THEOREM CheckIsThePromise ==
    ASSUME WideUsize
    PROVE  Spec => []CheckAgrees
<1>1. IInv => CheckAgrees
  BY CheckIsAcceptable DEF CheckAgrees
<1>2. QED
  BY <1>1, WindowInvariant, PTL DEF IInv

(* The window implements AntiReplay: a counter is accepted at most once    *)
(* between two resets, and never from below the window.                    *)
THEOREM WindowImplementsAntiReplay ==
    ASSUME WideUsize
    PROVE  Spec => AcceptsAsPromised
<1>1. Init => Abstract!Init
  BY DEF Init, Abstract!Init
<1>2. IInv /\ [Next]_vars => [Abstract!Next]_accepted
  <2>1. ASSUME IInv, NEW c \in Counters, Accept(c)
        PROVE  Abstract!Next
    <3>1. Abstract!Acceptable(accepted, c)
      BY <2>1, CheckIsAcceptable DEF Accept
    <3>2. QED
      BY <2>1, <3>1 DEF Accept, Abstract!Next, Abstract!Accept, Counters
  <2>2. ASSUME Reset PROVE Abstract!Next
    BY <2>2 DEF Reset, Abstract!Next, Abstract!Reset
  <2>3. QED
    BY <2>1, <2>2 DEF Next, vars
<1>3. QED
  BY <1>1, <1>2, WindowInvariant, PTL
  DEF Spec, AcceptsAsPromised, Abstract!Spec, IInv
=============================================================================
