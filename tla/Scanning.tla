------------------------------ MODULE Scanning ------------------------------
(***************************************************************************)
(* How a detector walks a long value.                                      *)
(*                                                                         *)
(* internal/scan, Windows: where the windows over a value begin and end.   *)
(***************************************************************************)
EXTENDS Integers, FiniteSets

CONSTANTS MinOverlap, MaxOverlap

AtLeast(a, b) == IF a < b THEN b ELSE a
AtMost(a, b) == IF a > b THEN b ELSE a

\* Mutation of OverlapFor: the last clamp is missing.
OverlapUnclamped(w) == AtMost(AtLeast(w \div 8, MinOverlap), MaxOverlap)

OverlapFor(w) ==
  IF w <= 1 THEN 0
  ELSE AtMost(AtMost(AtLeast(w \div 8, MinOverlap), MaxOverlap), w \div 2)

\* Mutation of StepOf: without the floors, for an overlap without its clamp.
StepUnfloored(w) == w - OverlapUnclamped(w)

StepOf(w) ==
  LET step == w - OverlapFor(w)
      half == IF step <= 0 THEN w \div 2 ELSE step
  IN IF half <= 0 THEN 1 ELSE half

\* A value that fits is passed through whole.
Whole(n, w) == w <= 0 \/ n <= w

EndOf(n, w, o) == IF Whole(n, w) THEN n ELSE AtMost(o + w, n)

-----------------------------------------------------------------------------
(***************************************************************************)
(* internal/scan: covering a value of any length with bounded windows, and *)
(* the detectors' Eval, which analyses one window after another until one  *)
(* holds enough evidence.                                                  *)
(*                                                                         *)
(* A value is its length and the signals that lie in it; which signals     *)
(* together reach the threshold is a constant.  A signal is local: it is   *)
(* seen by the analysis of a window exactly when it lies whole in it.      *)
(***************************************************************************)
CONSTANTS
  WindowSizes,   \* maxScan of the detectors
  Lengths,       \* the lengths of the values scanned
  Marked,        \* the sets of signals a value may hold: [at, len, kind]
  Enough         \* the sets of kinds whose weights add up to the threshold

ASSUME ScanningAssumption ==
  /\ MinOverlap \in Nat /\ MaxOverlap \in Nat
  /\ WindowSizes \subseteq Int /\ Lengths \subseteq Nat
  /\ \A ms \in Marked : \A m \in ms : m.at \in Nat /\ m.len \in Nat

VARIABLES
  size, marks, window,   \* the value and the detector's bound (rigid)
  off,                   \* where the next window begins
  seen,                  \* the windows analysed: [from, to]
  found, done            \* the operator's answer

scanVars == <<size, marks, window, off, seen, found, done>>

-----------------------------------------------------------------------------
(* The detectors *)

Inside(m, from, to) == from <= m.at /\ m.at + m.len <= to

\* Analyze: the score is the sum of the weights of the kinds seen.
Reaches(ms) == \E kinds \in Enough : kinds \subseteq {m.kind : m \in ms}

ScanInit ==
  /\ size \in Lengths /\ window \in WindowSizes
  /\ marks \in {ms \in Marked : \A m \in ms : m.at + m.len <= size}
  /\ off = 0 /\ seen = {} /\ found = FALSE /\ done = FALSE

\* The window at off is analysed and found to hold enough.
Hit(ms) ==
  /\ Reaches(ms)
  /\ found' = TRUE /\ done' = TRUE /\ off' = off

\* It is not, and the scan goes on unless it was the last.
Miss(ms, end) ==
  /\ ~Reaches(ms)
  /\ IF end = size \/ Whole(size, window)
     THEN done' = TRUE /\ off' = off
     ELSE /\ off' = off + StepOf(window)
          /\ IF off' < size THEN UNCHANGED done ELSE done' = TRUE
  /\ UNCHANGED found

Analyze ==
  LET end == EndOf(size, window, off)
      ms == {m \in marks : Inside(m, off, end)}
  IN /\ ~done
     /\ seen' = seen \cup {[from |-> off, to |-> end]}
     /\ Hit(ms) \/ Miss(ms, end)
     /\ UNCHANGED <<size, marks, window>>

\* The scan has returned.
Returned == done /\ UNCHANGED scanVars

ScanNext == Analyze \/ Returned

\* The scan runs on its caller's goroutine and waits for nothing.
ScanSpec == ScanInit /\ [][ScanNext]_scanVars /\ WF_scanVars(Analyze)

-----------------------------------------------------------------------------
(* Properties *)

\* The signals of ms lie together in a stretch of at most n bytes.
Together(ms, n) == \A a, b \in ms : b.at + b.len - a.at <= n

(* Enough evidence within one overlap's length is never missed, wherever in  *)
(* the value it lies; in a value that fits one window, never at all (the     *)
(* guarantee of overlapFor, for the detectors' Eval).                         *)
NothingMissed ==
  done /\ ~found =>
    /\ \A ms \in SUBSET marks : Together(ms, OverlapFor(window)) => ~Reaches(ms)
    /\ Whole(size, window) => ~Reaches(marks)

(* A scan ends: every window moves forward by at least one byte (Windows).   *)
ScanEnds == <>done
=============================================================================
