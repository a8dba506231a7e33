---------------------------- MODULE ReplayBitmap ----------------------------
(***************************************************************************)
(* The bitmap of ReplayWindow as crates/fips-noise/src/replay.rs keeps it: *)
(* an array of machine words, moved by shift_bitmap with a word shift      *)
(* followed by a bit shift that carries between neighbouring words.  A     *)
(* word is the set of its set bits.  The module shows that this array      *)
(* implements the flat window of ReplayWindow.                             *)
(***************************************************************************)
EXTENDS Naturals

CONSTANTS
    Words,       \* number of words (REPLAY_WINDOW_SIZE / 64)
    WordBits,    \* bits of a word (64)
    Ceiling,     \* u64::MAX
    UsizeRange   \* number of values of usize

Window == Words * WordBits
WordIndex == 0 .. Words - 1
BitIndex == 0 .. WordBits - 1

ASSUME BitmapAssumption ==
    /\ Words \in Nat \ {0}
    /\ WordBits \in Nat \ {0}
    /\ Window < UsizeRange

VARIABLES highest, words, accepted

vars == <<highest, words, accepted>>

Usize(x) == x % UsizeRange

NoBits == [i \in WordIndex |-> {}]

(* `w << n' and `w >> n' on a word.                                        *)
ShiftUp(w, n) == {b \in BitIndex : b >= n /\ b - n \in w}
ShiftDown(w, n) == {b \in BitIndex : b + n \in w}

(* The first loop pair of shift_bitmap: whole words move up, the vacated   *)
(* low words are cleared.                                                  *)
WordShift(ws, n) ==
    [i \in WordIndex |-> IF i >= n THEN ws[i - n] ELSE {}]

(* A plausible slip in the second loop: the carry is taken from the word   *)
(* after it has been shifted.                                              *)
BitShiftLateCarry(ws, n) ==
    [i \in WordIndex |->
        ShiftUp(ws[i], n) \cup
        (IF i = 0 THEN {} ELSE ShiftDown(ShiftUp(ws[i - 1], n), WordBits - n))]

(* The second loop: each word moves up by n bits and receives the bits its *)
(* lower neighbour pushes out (the carry, taken before that word moves).   *)
BitShift(ws, n) ==
    [i \in WordIndex |->
        ShiftUp(ws[i], n) \cup
        (IF i = 0 THEN {} ELSE ShiftDown(ws[i - 1], WordBits - n))]

ShiftBitmap(ws, shift) ==
    IF shift >= Window THEN NoBits
    ELSE LET moved == WordShift(ws, shift \div WordBits)
             bits  == shift % WordBits
         IN  IF bits > 0 THEN BitShift(moved, bits) ELSE moved

SetBit(ws, offset) ==
    [ws EXCEPT ![offset \div WordBits] = @ \cup {offset % WordBits}]

-----------------------------------------------------------------------------
Init ==
    /\ highest = 0
    /\ words = NoBits
    /\ accepted = {}

Check(c) ==
    /\ c # Ceiling
    /\ \/ c > highest
       \/ LET diff == Usize(highest - c)
          IN  /\ c <= highest
              /\ diff < Window
              /\ diff % WordBits \notin words[diff \div WordBits]

Accept(c) ==
    /\ Check(c)
    /\ words' =
         IF c > highest
         THEN SetBit(IF Usize(c - highest) >= Window THEN NoBits
                     ELSE ShiftBitmap(words, Usize(c - highest)), 0)
         ELSE SetBit(words, Usize(highest - c))
    /\ highest' = IF c > highest THEN c ELSE highest
    /\ accepted' = accepted \cup {c}

Reset ==
    /\ highest' = 0
    /\ words' = NoBits
    /\ accepted' = {}

Next == Reset \/ \E c \in 0 .. Ceiling : Accept(c)

Spec == Init /\ [][Next]_vars

-----------------------------------------------------------------------------
Flat == INSTANCE ReplayWindow WITH
    bitmap <- {o \in 0 .. Window - 1 : o % WordBits \in words[o \div WordBits]}

(* The word array with its carries implements the flat bitmap: shift_bitmap *)
(* loses no bit, moves none to a wrong counter and invents none.           *)
WordsImplementWindow == Flat!Spec
=============================================================================
