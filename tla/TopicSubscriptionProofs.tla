---------------------- MODULE TopicSubscriptionProofs ----------------------
(***************************************************************************)
(* Theorems about TopicSubscription, for any users and any number of       *)
(* calls.                                                                  *)
(*                                                                         *)
(* SettledAsAsked speaks of topics with nothing pending only.  The proof   *)
(* needs to know what the list will do to the others: as long as no batch  *)
(* was overtaken, the current batch is the first one, and the last batch   *)
(* that names a topic carries the operation that was asked for last        *)
(* (QueuedAsAsked).                                                        *)
(***************************************************************************)
EXTENDS TopicSubscription, TLAPS

\* The last batch that names topic t has the action asked for last.
LastIs(t) ==
  \E i \in 1..Len(batches) :
    /\ t \in batches[i].topics
    /\ batches[i].action = asked[t]
    /\ \A j \in 1..Len(batches) : j > i => t \notin batches[j].topics

\* What the server knows of topic t, or will once the list is done.
WillBeAsAsked(t) ==
  LastIs(t) \/ (~Pending(t) /\ (t \in subscribed <=> asked[t] = "subscribe"))

QueuedAsAsked ==
  ~overtaken =>
    /\ current \in {0, 1}
    /\ \A t \in Users \ failed : WillBeAsAsked(t)

(* removeObject on a sequence: what Without returns.                       *)
LEMMA WithoutProps ==
  ASSUME NEW S, NEW s \in Seq(S), NEW i \in 1..Len(s)
  PROVE  /\ Without(s, i) \in Seq(S)
         /\ Len(Without(s, i)) = Len(s) - 1
         /\ \A j \in 1..(Len(s) - 1) :
              Without(s, i)[j] = IF j < i THEN s[j] ELSE s[j + 1]
  BY DEF Without

(* What AddOperation does to the batches: the last one, which may be new,  *)
(* has the operation's action and gains its topic; the others stay.        *)
Added(o, last) ==
  /\ last = Len(batches) \/ last = Len(batches) + 1
  /\ batches' \in Seq(Batches)
  /\ Len(batches') = last
  /\ batches'[last].action = o.action
  /\ o.topic \in batches'[last].topics
  /\ \A t \in batches'[last].topics :
       t = o.topic \/ (last = Len(batches) /\ t \in batches[last].topics)
  /\ last = Len(batches) =>
       /\ batches[last].action = o.action
       /\ batches[last].topics \subseteq batches'[last].topics
  /\ \A i \in 1..Len(batches) : i # last => batches'[i] = batches[i]
  /\ current' = IF current = 0 THEN last ELSE current
  /\ overtaken' = (overtaken \/ current' # 1)
  /\ resuming' = (resuming \/ (current' = last
       /\ ~(last = Len(batches) /\ o.topic \in batches[last].topics)))
  /\ inFlight' = inFlight
  /\ stalled' = stalled

LEMMA AddedBatches ==
  ASSUME TypeOK, NEW o \in Operations, AddOperation(o)
  PROVE  \E last \in 1..(Len(batches) + 1) : Added(o, last)
<1> DEFINE fresh == batches = <<>> \/ batches[Len(batches)].action # o.action
           new == [action |-> o.action, topics |-> {o.topic}]
<1>0. batches \in Seq(Batches) /\ Len(batches) \in Nat /\ o.action \in Actions
      /\ o.topic \in Users /\ new \in Batches
  BY DEF TypeOK, Operations, Batches
<1>1. CASE fresh
  <2>1. /\ batches' = Append(batches, new)
        /\ current' = IF current = 0 THEN Len(batches) + 1 ELSE current
        /\ overtaken' = (overtaken \/ current' # 1)
        /\ resuming' = (resuming \/ current' = Len(batches) + 1)
        /\ inFlight' = inFlight /\ stalled' = stalled
    BY <1>1 DEF AddOperation
  <2>2. /\ batches' \in Seq(Batches)
        /\ Len(batches') = Len(batches) + 1
        /\ batches'[Len(batches) + 1] = new
        /\ \A i \in 1..Len(batches) : batches'[i] = batches[i]
    BY <1>0, <2>1
  <2>3. WITNESS Len(batches) + 1 \in 1..(Len(batches) + 1)
  <2>4. Len(batches) + 1 # Len(batches)
    BY <1>0
  <2> QED BY <1>0, <2>1, <2>2, <2>4 DEF Added
<1>2. CASE ~fresh
  <2> DEFINE n == Len(batches)
             grown == [batches[n] EXCEPT !.topics = @ \cup {o.topic}]
  <2>0. n \in 1..n /\ batches[n] \in Batches /\ batches[n].action = o.action
    BY <1>0, <1>2
  <2>1. /\ batches' = [batches EXCEPT ![n].topics = @ \cup {o.topic}]
        /\ current' = IF current = 0 THEN n ELSE current
        /\ overtaken' = (overtaken \/ current' # 1)
        /\ resuming' = (resuming \/ (current' = n /\ ~(o.topic \in batches[n].topics)))
        /\ inFlight' = inFlight /\ stalled' = stalled
    BY <1>2 DEF AddOperation
  <2>2. grown \in Batches /\ grown.action = o.action
        /\ grown.topics = batches[n].topics \cup {o.topic}
    BY <1>0, <2>0 DEF Batches
  <2>3. batches' = [batches EXCEPT ![n] = grown]
    BY <2>1
  <2>4. /\ batches' \in Seq(Batches)
        /\ Len(batches') = n
        /\ batches'[n] = grown
        /\ \A i \in 1..n : i # n => batches'[i] = batches[i]
    <3>1. batches \in [1..n -> Batches]
      BY <1>0
    <3>2. batches' \in [1..n -> Batches] /\ batches'[n] = grown
      BY <2>0, <2>2, <2>3, <3>1
    <3>3. batches' \in Seq(Batches) /\ Len(batches') = n
      BY <1>0, <3>2
    <3> QED BY <2>0, <2>3, <3>1, <3>2, <3>3
  <2> n \in 1..(Len(batches) + 1)
    BY <2>0
  <2> WITNESS n \in 1..(Len(batches) + 1)
  <2> QED BY <2>0, <2>1, <2>2, <2>4 DEF Added
<1> QED BY <1>1, <1>2

(* What RemoveTopic does to the batches: the current one loses the topic,  *)
(* and leaves the list if that was its last.                               *)
Emptied(t) ==
  /\ batches[current].topics = {t}
  /\ current' = 0
  /\ Len(batches') = Len(batches) - 1
  /\ \A j \in 1..Len(batches') :
       batches'[j] = IF j < current THEN batches[j] ELSE batches[j + 1]

Reduced(t) ==
  /\ batches[current].topics # {t}
  /\ current' = current
  /\ Len(batches') = Len(batches)
  /\ batches'[current].action = batches[current].action
  /\ batches'[current].topics = batches[current].topics \ {t}
  /\ \A j \in 1..Len(batches) : j # current => batches'[j] = batches[j]

LEMMA RemovedBatches ==
  ASSUME TypeOK, NEW t \in inFlight, RemoveTopic(t)
  PROVE  /\ current \in 1..Len(batches)
         /\ t \in batches[current].topics
         /\ batches' \in Seq(Batches)
         /\ inFlight' = inFlight \ {t} /\ resuming' = TRUE /\ stalled' = stalled
         /\ Emptied(t) \/ Reduced(t)
<1> DEFINE n == Len(batches)
           b == batches[current]
           less == [b EXCEPT !.topics = b.topics \ {t}]
<1>1. /\ batches \in Seq(Batches) /\ n \in Nat /\ current \in 1..n
      /\ batches \in [1..n -> Batches] /\ b \in Batches /\ t \in b.topics
  BY DEF TypeOK
<1>2. less \in Batches /\ less.action = b.action /\ less.topics = b.topics \ {t}
  BY <1>1 DEF Batches
<1>3. inFlight' = inFlight \ {t} /\ resuming' = TRUE /\ stalled' = stalled
  BY DEF RemoveTopic
<1>4. CASE b.topics \ {t} = {}
  <2>1. b.topics = {t}
    BY <1>1, <1>4
  <2>2. batches' = Without(batches, current) /\ current' = 0
    BY <1>4 DEF RemoveTopic
  <2> QED BY <1>1, <1>3, <2>1, <2>2, WithoutProps DEF Emptied
<1>5. CASE b.topics \ {t} # {}
  <2>1. b.topics # {t}
    BY <1>5
  <2>2. /\ batches' = [batches EXCEPT ![current].topics = b.topics \ {t}]
        /\ current' = current
    BY <1>5 DEF RemoveTopic
  <2>3. batches' = [batches EXCEPT ![current] = less]
    BY <2>2
  <2>4. batches' \in [1..n -> Batches] /\ batches'[current] = less
    BY <1>1, <1>2, <2>3
  <2>5. batches' \in Seq(Batches) /\ Len(batches') = n
    BY <1>1, <2>4
  <2>6. \A j \in 1..n : j # current => batches'[j] = batches[j]
    BY <1>1, <2>3
  <2> QED BY <1>1, <1>2, <1>3, <2>1, <2>2, <2>4, <2>5, <2>6 DEF Reduced
<1> QED BY <1>4, <1>5
-----------------------------------------------------------------------------
(* The type invariant: it is inductive.                                    *)
LEMMA TypeInit == Init => TypeOK
<1> SUFFICES ASSUME Init PROVE TypeOK
  OBVIOUS
<1>1. issued \in 0..MaxCalls /\ calls \in Seq(Operations) /\ batches \in Seq(Batches)
      /\ Len(batches) = 0
  BY MaxCallsAssumption DEF Init
<1>2. asked \in [Users -> Actions]
  BY DEF Init, Actions
<1>3. resuming \in BOOLEAN /\ overtaken \in BOOLEAN
  BY DEF Init
<1> QED BY <1>1, <1>2, <1>3 DEF Init, TypeOK

LEMMA TypeStep == TypeOK /\ [Next]_vars => TypeOK'
<1> SUFFICES ASSUME TypeOK, [Next]_vars PROVE TypeOK'
  OBVIOUS
<1>1. ASSUME NEW action \in Actions, NEW u \in Users, Call(action, u),
             currentUserId' \in Users \cup {None}
      PROVE  TypeOK'
  <2>1. [action |-> action, topic |-> u] \in Operations
    BY DEF Operations
  <2>2. calls' \in Seq(Operations)
    BY <1>1, <2>1 DEF Call, TypeOK
  <2>3. issued' \in 0..MaxCalls
    BY <1>1, MaxCallsAssumption DEF Call, TypeOK
  <2>4. UNCHANGED <<batches, current, inFlight, resuming, stalled, subscribed,
                    failed, asked, overtaken>>
    BY <1>1 DEF Call, list, server
  <2> QED BY <1>1, <2>2, <2>3, <2>4 DEF TypeOK
<1>2. CASE \E u \in Users : SetCurrentUser(u)
  BY <1>1, <1>2 DEF SetCurrentUser, Actions
<1>3. CASE ClearCurrentUser
  <2>1. currentUserId \in Users
    BY <1>3 DEF ClearCurrentUser, TypeOK
  <2> QED BY <1>1, <1>3, <2>1 DEF ClearCurrentUser, Actions
<1>4. CASE TokenReady
  <2> DEFINE o == Head(calls)
  <2>1. o \in Operations /\ o.action \in Actions /\ o.topic \in Users
        /\ calls' \in Seq(Operations)
    <3>1. calls \in Seq(Operations) /\ calls # <<>> /\ calls' = Tail(calls)
      BY <1>4 DEF TokenReady, TypeOK
    <3>2. o \in Operations /\ calls' \in Seq(Operations)
      BY <3>1
    <3> QED BY <3>2 DEF Operations
  <2>2. AddOperation(o)
    BY <1>4 DEF TokenReady
  <2>3. PICK last \in 1..(Len(batches) + 1) : Added(o, last)
    BY <2>1, <2>2, AddedBatches
  <2>4. Len(batches) \in Nat /\ batches \in Seq(Batches) /\ current \in 0..Len(batches)
    BY DEF TypeOK
  <2>5. batches' \in Seq(Batches) /\ current' \in 1..Len(batches')
    BY <2>3, <2>4 DEF Added
  <2>6. ASSUME NEW i \in 1..Len(batches') PROVE batches'[i].topics # {}
    <3>1. CASE i = last
      BY <2>3, <3>1 DEF Added
    <3>2. CASE i # last
      <4>1. i \in 1..Len(batches) /\ batches'[i] = batches[i]
        BY <2>3, <2>4, <2>6, <3>2 DEF Added
      <4> QED BY <4>1 DEF TypeOK
    <3> QED BY <3>1, <3>2
  <2>7. ASSUME inFlight' # {} PROVE inFlight' \subseteq batches'[current'].topics
    <3>1. inFlight' = inFlight /\ current' = IF current = 0 THEN last ELSE current
      BY <2>3 DEF Added
    <3>2. current # 0 /\ inFlight \subseteq batches[current].topics
      BY <2>7, <3>1 DEF TypeOK
    <3>3. batches[current].topics \subseteq batches'[current].topics
      <4>1. CASE current = last
        BY <2>3, <2>4, <4>1 DEF Added
      <4>2. CASE current # last
        BY <2>3, <2>4, <3>2, <4>2 DEF Added
      <4> QED BY <4>1, <4>2
    <3> QED BY <3>1, <3>2, <3>3
  <2>8. resuming' \in BOOLEAN /\ overtaken' \in BOOLEAN
    BY <2>3 DEF Added
  <2>9. asked' \in [Users -> Actions]
    BY <1>4, <2>1 DEF TokenReady, TypeOK
  <2>10. /\ UNCHANGED <<currentUserId, issued, subscribed, failed>>
         /\ inFlight' = inFlight /\ stalled' = stalled
    BY <1>4, <2>3 DEF TokenReady, Added, server
  <2>11. current' \in 0..Len(batches') /\ current' # 0
    BY <2>5
  <2> QED
    BY <2>1, <2>5, <2>6, <2>7, <2>8, <2>9, <2>10, <2>11 DEF TypeOK
<1>5. CASE TokenFails
  <2>1. Head(calls).topic \in Users /\ calls' \in Seq(Operations)
    <3>1. calls \in Seq(Operations) /\ calls # <<>> /\ calls' = Tail(calls)
      BY <1>5 DEF TokenFails, TypeOK
    <3>2. Head(calls) \in Operations /\ calls' \in Seq(Operations)
      BY <3>1
    <3> QED BY <3>2 DEF Operations
  <2> QED BY <1>5, <2>1 DEF TokenFails, TypeOK, list
<1>6. ASSUME ResumeOperations, resuming' \in BOOLEAN PROVE TypeOK'
  <2> DEFINE cur == Chosen
  <2>1. /\ batches \in Seq(Batches) /\ Len(batches) \in Nat
        /\ cur \in 0..Len(batches)
        /\ cur # 0 => batches[cur] \in Batches
    BY DEF TypeOK, Chosen
  <2>2. /\ current' = cur
        /\ inFlight' = inFlight \cup (IF cur = 0 THEN {} ELSE batches[cur].topics)
        /\ stalled' = {}
        /\ UNCHANGED <<currentUserId, issued, calls, batches, subscribed, failed, asked,
                       overtaken>>
    BY <1>6 DEF ResumeOperations, server
  <2>3. inFlight \subseteq IF cur = 0 THEN {} ELSE batches[cur].topics
    BY DEF TypeOK, Chosen
  <2>4. /\ inFlight' \subseteq Users
        /\ inFlight' # {} => cur # 0 /\ inFlight' \subseteq batches[cur].topics
    BY <2>1, <2>2, <2>3 DEF Batches
  <2> QED BY <1>6, <2>1, <2>2, <2>4 DEF TypeOK
<1>7. CASE Resume
  BY <1>6, <1>7 DEF Resume
<1>8. CASE ScheduleSync
  BY <1>6, <1>8 DEF ScheduleSync, TypeOK
<1>16. CASE ResumeWithoutToken
  <2>1. /\ Chosen \in 0..Len(batches)
        /\ inFlight # {} => Chosen = current
    BY DEF TypeOK, Chosen
  <2>2. resuming' \in BOOLEAN /\ stalled' \subseteq Users
    BY <1>16 DEF ResumeWithoutToken
  <2>3. /\ current' = Chosen
        /\ UNCHANGED <<currentUserId, issued, calls, batches, inFlight, subscribed,
                       failed, asked, overtaken>>
    BY <1>16 DEF ResumeWithoutToken, server
  <2> QED BY <2>1, <2>2, <2>3 DEF TypeOK
<1>9. ASSUME NEW t \in inFlight, RemoveTopic(t), subscribed' \subseteq Users,
             failed' \subseteq Users,
             UNCHANGED <<currentUserId, issued, calls, asked, overtaken>>
      PROVE  TypeOK'
  <2>1. /\ current \in 1..Len(batches)
        /\ batches' \in Seq(Batches)
        /\ inFlight' = inFlight \ {t} /\ resuming' = TRUE /\ stalled' = stalled
        /\ Emptied(t) \/ Reduced(t)
    BY <1>9, RemovedBatches
  <2>2. inFlight \subseteq batches[current].topics /\ Len(batches) \in Nat
    BY <1>9 DEF TypeOK
  <2>3. CASE Emptied(t)
    <3>1. inFlight' = {} /\ current' \in 0..Len(batches')
      BY <2>1, <2>2, <2>3 DEF Emptied
    <3>2. \A i \in 1..Len(batches') : batches'[i].topics # {}
      <4> TAKE i \in 1..Len(batches')
      <4>1. i \in 1..Len(batches) /\ i + 1 \in 1..Len(batches)
        BY <2>1, <2>2, <2>3 DEF Emptied
      <4>2. batches'[i] = batches[i] \/ batches'[i] = batches[i + 1]
        BY <2>3 DEF Emptied
      <4> QED BY <4>1, <4>2 DEF TypeOK
    <3> QED BY <1>9, <2>1, <3>1, <3>2 DEF TypeOK
  <2>4. CASE Reduced(t)
    <3>1. inFlight' \subseteq batches'[current'].topics /\ current' \in 1..Len(batches')
      BY <2>1, <2>2, <2>4 DEF Reduced
    <3>2. \A i \in 1..Len(batches') : batches'[i].topics # {}
      BY <1>9, <2>1, <2>2, <2>4 DEF Reduced, TypeOK
    <3>3. current' \in 0..Len(batches') /\ current' # 0 /\ inFlight' \subseteq Users
      BY <2>1, <3>1 DEF TypeOK
    <3> QED BY <1>9, <2>1, <3>1, <3>2, <3>3 DEF TypeOK
  <2> QED BY <2>1, <2>3, <2>4
<1>10. ASSUME NEW t \in Users, Apply(t) PROVE subscribed' \subseteq Users
  BY <1>10 DEF Apply, TypeOK
<1>11. CASE \E t \in Users : Succeeded(t)
  <2> PICK t \in Users : Succeeded(t)
    BY <1>11
  <2> QED BY <1>9, <1>10 DEF Succeeded, TypeOK
<1>12. CASE \E t \in Users : GivenUp(t)
  <2> PICK t \in Users : GivenUp(t)
    BY <1>12
  <2>1. subscribed' \subseteq Users /\ failed' \subseteq Users
    BY <1>10 DEF GivenUp, TypeOK
  <2> QED BY <1>9, <2>1 DEF GivenUp
<1>13. CASE \E t \in Users : Interrupted(t)
  <2> PICK t \in Users : Interrupted(t)
    BY <1>13
  <2>1. subscribed' \subseteq Users
    BY <1>10 DEF Interrupted, TypeOK
  <2> QED BY <2>1 DEF Interrupted, TypeOK
<1>14. CASE Relaunch
  <2>1. subscribed' \subseteq Users
    BY <1>14 DEF Relaunch, TypeOK
  <2>2. resuming' \in BOOLEAN /\ stalled' \subseteq Users
    BY <1>14 DEF Relaunch
  <2>4. batches' = batches /\ current' = 0 /\ Len(batches) \in Nat
    BY <1>14 DEF Relaunch, TypeOK
  <2>5. current' \in 0..Len(batches')
    BY <2>4
  <2>3. inFlight' = {} /\ calls' \in Seq(Operations) /\ currentUserId' = None
    BY <1>14 DEF Relaunch
  <2> QED BY <1>14, <2>1, <2>2, <2>3, <2>5 DEF Relaunch, TypeOK
<1>15. CASE UNCHANGED vars
  BY <1>15 DEF vars, TypeOK
<1> QED
  BY <1>2, <1>3, <1>4, <1>5, <1>7, <1>8, <1>11, <1>12, <1>13, <1>14, <1>15, <1>16
  DEF Next

(* Every variable has its type in every reachable state, and requests are  *)
(* under way for topics of the current batch only, for any users and calls *)
(* (FIRMessagingPendingTopicsList.m:149-268).                              *)
THEOREM TypeCorrect == Spec => []TypeOK
  BY TypeInit, TypeStep, PTL DEF Spec
-----------------------------------------------------------------------------
(* No wake-up is lost: the property is inductive over the type invariant.  *)
LEMMA WakeupStep == TypeOK /\ TypeOK' /\ NoLostWakeup /\ [Next]_vars => NoLostWakeup'
<1> SUFFICES ASSUME TypeOK, TypeOK', NoLostWakeup, [Next]_vars, batches' # <<>>
             PROVE  \/ resuming'
                    \/ stalled' # {}
                    \/ current' # 0 /\ inFlight' = batches'[current'].topics
  BY DEF NoLostWakeup
<1>1. CASE UNCHANGED list
  BY <1>1 DEF list, NoLostWakeup
<1>2. CASE TokenReady
  <2> DEFINE o == Head(calls)
  <2>1. o \in Operations
    BY <1>2 DEF TokenReady, TypeOK
  <2>2. PICK last \in 1..(Len(batches) + 1) : Added(o, last)
    BY <1>2, <2>1, AddedBatches DEF TokenReady
  <2>3. batches \in Seq(Batches) /\ Len(batches) \in Nat /\ current \in 0..Len(batches)
    BY DEF TypeOK
  <2>4. CASE resuming \/ stalled # {}
    BY <2>2, <2>4 DEF Added
  <2>5. CASE batches = <<>>
    <3>1. Len(batches) = 0 /\ current = 0 /\ last = 1
      BY <2>3, <2>5
    <3>2. current' = last /\ last # Len(batches)
      BY <2>2, <3>1 DEF Added
    <3> QED BY <2>2, <3>2 DEF Added
  <2>6. CASE current # 0 /\ inFlight = batches[current].topics
    <3>1. current' = current /\ inFlight' = inFlight
      BY <2>2, <2>6 DEF Added
    <3>2. CASE current # last
      BY <2>2, <2>3, <2>6, <3>1, <3>2 DEF Added
    <3>3. CASE current = last /\ o.topic \in batches[last].topics
      <4>1. last = Len(batches)
        BY <2>2, <2>3, <3>3 DEF Added
      <4>2. batches'[last].topics = batches[last].topics
        BY <2>2, <3>3, <4>1 DEF Added
      <4> QED BY <2>6, <3>1, <3>3, <4>2
    <3>4. CASE current = last /\ o.topic \notin batches[last].topics
      BY <2>2, <3>1, <3>4 DEF Added
    <3> QED BY <3>2, <3>3, <3>4
  <2> QED BY <2>4, <2>5, <2>6 DEF NoLostWakeup
<1>3. CASE ResumeOperations
  <2> DEFINE cur == Chosen
  <2>1. /\ batches' = batches /\ current' = cur
        /\ inFlight' = inFlight \cup (IF cur = 0 THEN {} ELSE batches[cur].topics)
    BY <1>3 DEF ResumeOperations
  <2>2. cur # 0
    BY <2>1 DEF Chosen
  <2>3. inFlight \subseteq batches[cur].topics
    BY <2>2 DEF TypeOK, Chosen
  <2> QED BY <2>1, <2>2, <2>3
<1>4. ASSUME NEW t, RemoveTopic(t) PROVE resuming'
  BY <1>4 DEF RemoveTopic
<1>5. ASSUME NEW t, Interrupted(t) PROVE stalled' # {}
  BY <1>5 DEF Interrupted
<1>6. CASE Relaunch \/ ResumeWithoutToken
  <2>1. batches' = batches /\ stalled' = Users
    BY <1>6 DEF Relaunch, ResumeWithoutToken
  <2>2. batches \in Seq(Batches) /\ 1 \in 1..Len(batches)
    BY <2>1 DEF TypeOK
  <2>3. batches[1].topics # {}
    BY <2>2 DEF TypeOK
  <2>4. batches[1] \in Batches
    BY <2>2
  <2>5. batches[1].topics \subseteq Users
    BY <2>4 DEF Batches
  <2> QED BY <2>1, <2>3, <2>5
<1> QED
  BY <1>1, <1>2, <1>3, <1>4, <1>5, <1>6
  DEF Next, vars, list, SetCurrentUser, ClearCurrentUser, Call, TokenFails, Resume,
      ScheduleSync, Succeeded, GivenUp

(* The pending list never forgets a batch: whatever calls, errors, network *)
(* changes and launches happen, something is under way or will resume it   *)
(* (FIRMessagingPendingTopicsList.m:175-215).                              *)
THEOREM NeverLosesWakeup == Spec => []NoLostWakeup
<1>1. Init => NoLostWakeup
  BY DEF Init, NoLostWakeup
<1> QED BY <1>1, TypeInit, TypeStep, WakeupStep, PTL DEF Spec
-----------------------------------------------------------------------------
(* A removed topic: the other topics keep their place among the batches    *)
(* relative to each other, and it keeps the places it has further back.    *)
LEMMA RemovedFromFirst ==
  ASSUME TypeOK, NEW t \in inFlight, RemoveTopic(t), current = 1,
         NEW u \in Users, asked'[u] = asked[u]
  PROVE  /\ u # t /\ LastIs(u) => LastIs(u)'
         /\ u # t /\ ~Pending(u) => ~Pending(u)'
         /\ LastIs(t) /\ u = t =>
              LastIs(t)' \/ (~Pending(t)' /\ batches[1].action = asked[t])
<1> DEFINE n == Len(batches)
           m == Len(batches')
           In(i) == u \in batches[i].topics
           InP(i) == u \in batches'[i].topics
<1>1. /\ n \in Nat /\ m \in Nat /\ 1 \in 1..n
      /\ t \in batches[1].topics
      /\ Emptied(t) \/ Reduced(t)
  <2>1. batches' \in Seq(Batches) /\ current \in 1..Len(batches)
        /\ t \in batches[current].topics /\ (Emptied(t) \/ Reduced(t))
    BY RemovedBatches
  <2>2. Len(batches) \in Nat
    BY DEF TypeOK
  <2> QED BY <2>1, <2>2
<1>2. CASE Emptied(t)
  <2>1. m = n - 1 /\ batches[1].topics = {t}
        /\ \A j \in 1..m : batches'[j] = batches[j + 1]
    BY <1>1, <1>2 DEF Emptied
  <2>2. ASSUME NEW i \in 1..n, i # 1, In(i), batches[i].action = asked[u],
               \A j \in 1..n : j > i => ~In(j)
        PROVE  LastIs(u)'
    <3>1. i - 1 \in 1..m /\ batches'[i - 1] = batches[i]
      BY <1>1, <2>1, <2>2
    <3>2. \A j \in 1..m : j > i - 1 => ~InP(j)
      BY <1>1, <2>1, <2>2
    <3> QED BY <2>2, <3>1, <3>2 DEF LastIs
  <2>3. ASSUME \A j \in 1..n : j # 1 => ~In(j) PROVE ~Pending(u)'
    BY <1>1, <2>1, <2>3 DEF Pending
  <2>4. ASSUME u # t, LastIs(u) PROVE LastIs(u)'
    BY <2>1, <2>2, <2>4 DEF LastIs
  <2>5. ASSUME u # t, ~Pending(u) PROVE ~Pending(u)'
    BY <2>3, <2>5 DEF Pending
  <2>6. ASSUME LastIs(t), u = t
        PROVE  LastIs(t)' \/ (~Pending(t)' /\ batches[1].action = asked[t])
    <3>1. PICK i \in 1..n : /\ In(i) /\ batches[i].action = asked[u]
                            /\ \A j \in 1..n : j > i => ~In(j)
      BY <2>6 DEF LastIs
    <3>2. CASE i # 1
      BY <2>2, <2>6, <3>1, <3>2
    <3>3. CASE i = 1
      BY <1>1, <2>3, <2>6, <3>1, <3>3
    <3> QED BY <3>2, <3>3
  <2> QED BY <2>4, <2>5, <2>6
<1>3. CASE Reduced(t)
  <2>1. /\ m = n
        /\ batches'[1].action = batches[1].action
        /\ batches'[1].topics = batches[1].topics \ {t}
        /\ \A j \in 1..n : j # 1 => batches'[j] = batches[j]
    BY <1>3 DEF Reduced
  <2>2. \A i \in 1..n : /\ batches'[i].action = batches[i].action
                        /\ u # t \/ i # 1 => (InP(i) <=> In(i))
    BY <2>1
  <2>3. ASSUME u # t, LastIs(u) PROVE LastIs(u)'
    <3>1. PICK i \in 1..n : /\ In(i) /\ batches[i].action = asked[u]
                            /\ \A j \in 1..n : j > i => ~In(j)
      BY <2>3 DEF LastIs
    <3> QED BY <2>1, <2>2, <2>3, <3>1 DEF LastIs
  <2>4. ASSUME u # t, ~Pending(u) PROVE ~Pending(u)'
    BY <2>1, <2>2, <2>4 DEF Pending
  <2>5. ASSUME LastIs(t), u = t
        PROVE  LastIs(t)' \/ (~Pending(t)' /\ batches[1].action = asked[t])
    <3>1. PICK i \in 1..n : /\ In(i) /\ batches[i].action = asked[u]
                            /\ \A j \in 1..n : j > i => ~In(j)
      BY <2>5 DEF LastIs
    <3>2. CASE i # 1
      <4>1. \A j \in 1..n : j > i => j # 1
        BY <1>1
      <4>2. \A j \in 1..n : j > i => ~InP(j)
        BY <2>2, <3>1, <4>1
      <4> QED BY <2>1, <2>2, <2>5, <3>1, <3>2, <4>2 DEF LastIs
    <3>3. CASE i = 1
      <4>1. \A j \in 1..n : j # 1 => ~In(j)
        BY <1>1, <3>1, <3>3
      <4>2. ~InP(1)
        BY <2>1, <2>5
      <4>3. \A j \in 1..n : ~InP(j)
        BY <2>2, <4>1, <4>2
      <4> QED BY <2>1, <2>5, <3>1, <3>3, <4>3 DEF Pending
    <3> QED BY <3>2, <3>3
  <2> QED BY <2>3, <2>4, <2>5
<1> QED BY <1>1, <1>2, <1>3

(* QueuedAsAsked is inductive over the type invariant.                     *)
LEMMA QueueStep == TypeOK /\ QueuedAsAsked /\ [Next]_vars => QueuedAsAsked'
<1> SUFFICES ASSUME TypeOK, QueuedAsAsked, [Next]_vars, ~overtaken'
             PROVE  /\ current' \in {0, 1}
                    /\ \A u \in Users \ failed' : WillBeAsAsked(u)'
  BY DEF QueuedAsAsked
<1>1. CASE TokenReady
  <2> DEFINE o == Head(calls)
             n == Len(batches)
  <2>1. o \in Operations
    BY <1>1 DEF TokenReady, TypeOK
  <2>2. PICK last \in 1..(n + 1) : Added(o, last)
    BY <1>1, <2>1, AddedBatches DEF TokenReady
  <2>3. n \in Nat /\ asked \in [Users -> Actions] /\ Len(batches') = last
        /\ (last = n \/ last = n + 1)
    BY <2>2 DEF TypeOK, Added
  <2>4. ~overtaken /\ current' = 1 /\ failed' = failed /\ subscribed' = subscribed
    BY <1>1, <2>2 DEF Added, TokenReady, server
  <2>5. \A u \in Users \ failed : WillBeAsAsked(u)
    BY <2>4 DEF QueuedAsAsked
  <2>6. asked' = [asked EXCEPT ![o.topic] = o.action]
    BY <1>1 DEF TokenReady
  <2>7. ASSUME NEW u \in Users \ failed, u = o.topic PROVE LastIs(u)'
    <3>1. asked'[u] = o.action
      BY <2>3, <2>6, <2>7
    <3>2. /\ last \in 1..last /\ u \in batches'[last].topics
          /\ batches'[last].action = o.action
      BY <2>2, <2>3, <2>7 DEF Added
    <3>3. \A j \in 1..last : ~(j > last)
      BY <2>3
    <3> QED BY <2>3, <3>1, <3>2, <3>3 DEF LastIs
  <2>8. ASSUME NEW u \in Users \ failed, u # o.topic PROVE WillBeAsAsked(u)'
    <3>1. asked'[u] = asked[u]
      BY <2>3, <2>6, <2>8
    <3>2. \A i \in 1..n : /\ batches'[i].action = batches[i].action
                          /\ u \in batches'[i].topics <=> u \in batches[i].topics
      BY <2>2, <2>8 DEF Added
    <3>3. \A i \in 1..last : i \notin 1..n => u \notin batches'[i].topics
      BY <2>2, <2>3, <2>8 DEF Added
    <3>4. 1..n \subseteq 1..last
      BY <2>3
    <3>5. CASE LastIs(u)
      <4>1. PICK i \in 1..n : /\ u \in batches[i].topics /\ batches[i].action = asked[u]
                              /\ \A j \in 1..n : j > i => u \notin batches[j].topics
        BY <3>5 DEF LastIs
      <4>2. \A j \in 1..last : j > i => u \notin batches'[j].topics
        BY <3>2, <3>3, <4>1
      <4>3. i \in 1..last /\ u \in batches'[i].topics /\ batches'[i].action = asked'[u]
        BY <3>1, <3>2, <3>4, <4>1
      <4> QED BY <2>3, <4>2, <4>3 DEF LastIs, WillBeAsAsked
    <3>6. CASE ~Pending(u) /\ (u \in subscribed <=> asked[u] = "subscribe")
      <4>1. \A j \in 1..last : u \notin batches'[j].topics
        BY <3>2, <3>3, <3>6 DEF Pending
      <4> QED BY <2>3, <2>4, <3>1, <3>6, <4>1 DEF Pending, WillBeAsAsked
    <3> QED BY <2>5, <3>5, <3>6 DEF WillBeAsAsked
  <2> QED BY <2>4, <2>7, <2>8 DEF WillBeAsAsked
<1>2. CASE UNCHANGED <<batches, asked, overtaken>>
  <2>1. ~overtaken /\ \A u \in Users \ failed : WillBeAsAsked(u)
    BY <1>2 DEF QueuedAsAsked
  <2>2. ASSUME current' \in {0, 1}, failed \subseteq failed',
               \A u \in Users \ failed' :
                 Pending(u) \/ (u \in subscribed' <=> u \in subscribed)
        PROVE  /\ current' \in {0, 1}
               /\ \A u \in Users \ failed' : WillBeAsAsked(u)'
    BY <1>2, <2>1, <2>2 DEF WillBeAsAsked, LastIs, Pending
  <2>3. current \in {0, 1}
    BY <2>1 DEF QueuedAsAsked
  <2>4. CASE UNCHANGED <<current, subscribed>> /\ failed \subseteq failed'
    BY <2>2, <2>3, <2>4
  <2>5. CASE ResumeOperations
    BY <2>2, <2>3, <2>5 DEF ResumeOperations, Chosen, server
  <2>11. CASE ResumeWithoutToken
    BY <2>2, <2>3, <2>11 DEF ResumeWithoutToken, Chosen, server
  <2>6. ASSUME NEW u \in inFlight PROVE Pending(u)
    <3>1. current \in 1..Len(batches) /\ u \in batches[current].topics
      BY <2>6 DEF TypeOK
    <3> QED BY <3>1 DEF Pending
  <2>7. CASE \E t \in Users : Interrupted(t)
    <3> PICK t \in Users : Interrupted(t)
      BY <2>7
    <3>1. /\ t \in inFlight /\ UNCHANGED <<current, failed>>
          /\ \A u : u = t \/ (u \in subscribed' <=> u \in subscribed)
      BY DEF Interrupted, Apply
    <3> QED BY <2>2, <2>3, <2>6, <3>1
  <2>8. CASE Relaunch
    <3>1. /\ current' = 0 /\ failed' = failed
          /\ \A u : u \in inFlight \/ (u \in subscribed' <=> u \in subscribed)
      BY <2>8 DEF Relaunch
    <3> QED BY <2>2, <2>6, <3>1
  <2>9. CASE UNCHANGED vars
    BY <2>4, <2>9 DEF vars
  <2>10. CASE (\E t \in Users : Succeeded(t) \/ GivenUp(t)) \/ TokenReady
    <3>1. ASSUME NEW t, Succeeded(t) \/ GivenUp(t) PROVE FALSE
      <4>1. t \in inFlight /\ RemoveTopic(t)
        BY <3>1 DEF Succeeded, GivenUp
      <4>2. /\ current \in 1..Len(batches) /\ t \in batches[current].topics
            /\ Emptied(t) \/ Reduced(t)
        BY <4>1, RemovedBatches
      <4>3. Len(batches) \in Nat
        BY DEF TypeOK
      <4> QED BY <1>2, <4>2, <4>3 DEF Emptied, Reduced
    <3> QED BY <1>1, <2>10, <3>1
  <2> QED
    BY <2>4, <2>5, <2>7, <2>8, <2>9, <2>10, <2>11
    DEF Next, SetCurrentUser, ClearCurrentUser, Call, TokenFails, Resume, ScheduleSync,
        list, server
<1>3. ASSUME NEW t \in Users, Succeeded(t) \/ GivenUp(t)
      PROVE  /\ current' \in {0, 1}
             /\ \A u \in Users \ failed' : WillBeAsAsked(u)'
  <2>1. /\ t \in inFlight /\ RemoveTopic(t)
        /\ overtaken' = overtaken /\ asked' = asked
        /\ \A u : u = t \/ (u \in subscribed' <=> u \in subscribed)
        /\ failed \subseteq failed'
        /\ t \notin failed' =>
             (t \in subscribed' <=> batches[current].action = "subscribe")
    BY <1>3 DEF Succeeded, GivenUp, Apply
  <2>2. /\ current \in 1..Len(batches) /\ t \in batches[current].topics
        /\ Emptied(t) \/ Reduced(t)
    BY <2>1, RemovedBatches
  <2>3. ~overtaken /\ current = 1 /\ \A u \in Users \ failed : WillBeAsAsked(u)
    BY <2>1, <2>2 DEF QueuedAsAsked
  <2>4. current' \in {0, 1}
    BY <2>2, <2>3 DEF Emptied, Reduced
  <2>5. ASSUME NEW u \in Users \ failed' PROVE WillBeAsAsked(u)'
    <3>1. WillBeAsAsked(u) /\ asked'[u] = asked[u]
      BY <2>1, <2>3
    <3>2. CASE u # t
      <4>1. (LastIs(u) => LastIs(u)') /\ (~Pending(u) => ~Pending(u)')
        BY <2>1, <2>3, <3>1, <3>2, RemovedFromFirst
      <4> QED BY <2>1, <3>1, <3>2, <4>1 DEF WillBeAsAsked
    <3>3. CASE u = t
      <4>1. Pending(t)
        BY <2>2 DEF Pending
      <4>2. LastIs(t)
        BY <3>1, <3>3, <4>1 DEF WillBeAsAsked
      <4>3. LastIs(t)' \/ (~Pending(t)' /\ batches[1].action = asked[t])
        BY <2>1, <2>3, <3>1, <3>3, <4>2, RemovedFromFirst
      <4> QED BY <2>1, <2>3, <2>5, <3>1, <3>3, <4>3 DEF WillBeAsAsked
    <3> QED BY <3>2, <3>3
  <2> QED BY <2>4, <2>5
<1> QED
  BY <1>1, <1>2, <1>3
  DEF Next, vars, SetCurrentUser, ClearCurrentUser, Call, TokenFails, Resume,
      ScheduleSync, ResumeWithoutToken, ResumeOperations, Interrupted, Relaunch,
      list, server

(* Once nothing is pending for a topic, the server agrees with the last    *)
(* operation asked for, for any users, any number of calls and any errors  *)
(* and launches in between, unless an operation for the topic failed or a  *)
(* batch overtook an older one (FIRMessagingPendingTopicsList.m:149-188).  *)
THEOREM SettlesAsAsked == Spec => []SettledAsAsked
<1>1. Init => QueuedAsAsked
  BY DEF Init, QueuedAsAsked, WillBeAsAsked, Pending
<1>2. QueuedAsAsked => SettledAsAsked
  BY DEF QueuedAsAsked, SettledAsAsked, WillBeAsAsked, LastIs, Pending
<1> QED BY <1>1, <1>2, TypeInit, TypeStep, QueueStep, PTL DEF Spec
=============================================================================
