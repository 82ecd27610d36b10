----------------------------- MODULE ScanningMC -----------------------------
(* Model values for Scanning: overlaps of one to three bytes, windows below, *)
(* at and above them, and one to three signals, near and far from one        *)
(* another, of which one kind is enough, or two others together.             *)
EXTENDS Scanning

M(at, len, kind) == [at |-> at, len |-> len, kind |-> kind]
MCEnough == {{"strong"}, {"close", "open"}}
MCMarked ==
  {{}} \cup {{M(at, len, "strong")} : at \in 0..27, len \in 1..3}
       \cup {{M(at, 1, "close"), M(at + gap, 1, "open")} : at \in 0..27, gap \in {0, 1, 2, 5, 13}}
       \cup {{M(at, 1, "close"), M(at + 1, 1, "close"), M(20, 2, "open")} : at \in 0..27}
=============================================================================
