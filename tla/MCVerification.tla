--------------------------- MODULE MCVerification ---------------------------
(***************************************************************************)
(* Instances of VerificationFlow for TLC: two addresses of approved        *)
(* universities, one of another domain and one without "@".  The devices   *)
(* run the same app, so exchanging them changes nothing.                   *)
(***************************************************************************)
EXTENDS VerificationFlow, TLC, FiniteSetsExt

CONSTANTS mit, yale, other, plain

DeviceSymmetry == Permutations(Devices)

\* Bound: two submissions, of one device or of two.
TwoSubmissions == MapThenSumSet(LAMBDA d : submits[d], Devices) <= 2
=============================================================================
