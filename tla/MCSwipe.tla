------------------------------ MODULE MCSwipe ------------------------------
(***************************************************************************)
(* Instances of SwipeTransaction for TLC: profile a is registered, profile *)
(* b is not; both are swiped on.                                           *)
(***************************************************************************)
EXTENDS SwipeTransaction

CONSTANTS a, b
=============================================================================
