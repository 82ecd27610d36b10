---------------------------- MODULE MiddlewareMC ----------------------------
(* Model values for Middleware: bodies around the limit of 2, with a length and *)
(* chunked, and bodies that break off, within the limit and beyond it.          *)
EXTENDS Middleware

MCRequests ==
  { [size |-> n, length |-> n, fails |-> FALSE] : n \in 0..4 }
  \cup { [size |-> n, length |-> -1, fails |-> FALSE] : n \in {0, 2, 4} }
  \cup { [size |-> n, length |-> m, fails |-> TRUE] : n \in {1, 3}, m \in {-1, 4} }
=============================================================================
