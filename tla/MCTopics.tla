------------------------------ MODULE MCTopics ------------------------------
(***************************************************************************)
(* Instances of TopicSubscription for TLC.  Exchanging users changes       *)
(* nothing.                                                                *)
(***************************************************************************)
EXTENDS TopicSubscription, TLC

UserSymmetry == Permutations(Users)
=============================================================================
