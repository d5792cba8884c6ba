------------------------- MODULE TopicSubscription -------------------------
(***************************************************************************)
(* The personal topics of FirebaseMessagingManager and the Firebase        *)
(* library's list of pending topic updates (FIRMessagingPendingTopicsList) *)
(* that carries them out.                                                  *)
(*                                                                         *)
(* setCurrentUser and clearCurrentUser ask the library to subscribe to and *)
(* to unsubscribe from the user's topic and do not wait for the answer.    *)
(* Each call first waits for the FCM token, then joins the pending list: a *)
(* queue of batches of equal action, of which one at a time, the current   *)
(* batch, is sent to the server.  The list is archived at every change and *)
(* restored at launch; which batch is current, and which requests are      *)
(* under way, is not.                                                      *)
(***************************************************************************)
EXTENDS Integers, Sequences

CONSTANTS
  Users,     \* user ids; the topic of a user is named by its id
  MaxCalls,  \* bound: calls of setCurrentUser and clearCurrentUser
  None       \* no current user

ASSUME MaxCallsAssumption == MaxCalls \in Nat

ASSUME NoneAssumption == None \notin Users

VARIABLES
  currentUserId,  \* the manager's field
  issued,         \* calls made so far
  calls,          \* topic operations that wait for the FCM token, in order
  batches,        \* topicBatches, as in memory and as archived
  current,        \* position of currentBatch in batches, 0 for nil
  inFlight,       \* topicsInFlight
  resuming,       \* a dispatched resumeOperationsIfNeeded has not run yet
  stalled,        \* topics that wait for a network change or a new token
  subscribed,     \* server: the topics this installation is subscribed to
  asked,          \* history: the last operation the list took for each topic
  failed,         \* history: topics of which an operation ended in an error
  overtaken       \* history: a batch became current before older ones

vars == <<currentUserId, issued, calls, batches, current, inFlight, resuming, stalled,
          subscribed, asked, failed, overtaken>>
list == <<batches, current, inFlight, resuming, stalled>>
server == <<subscribed, failed>>
-----------------------------------------------------------------------------
Actions == {"subscribe", "unsubscribe"}
Operations == [action : Actions, topic : Users]
Batches == [action : Actions, topics : SUBSET Users]

Init ==
  /\ currentUserId = None
  /\ issued = 0
  /\ calls = <<>>
  /\ batches = <<>>
  /\ current = 0
  /\ inFlight = {}
  /\ resuming = FALSE
  /\ stalled = {}
  /\ subscribed = {}
  /\ asked = [u \in Users |-> "unsubscribe"]
  /\ failed = {}
  /\ overtaken = FALSE
-----------------------------------------------------------------------------
(* FirebaseMessagingManager.  The user that was set before stays           *)
(* subscribed; clearing without a user changes nothing.                    *)
Call(action, u) ==
  /\ issued < MaxCalls
  /\ issued' = issued + 1
  /\ calls' = Append(calls, [action |-> action, topic |-> u])
  /\ UNCHANGED <<list, server, asked, overtaken>>

SetCurrentUser(u) ==
  /\ Call("subscribe", u)
  /\ currentUserId' = u

ClearCurrentUser ==
  /\ currentUserId # None
  /\ Call("unsubscribe", currentUserId)
  /\ currentUserId' = None
-----------------------------------------------------------------------------
\* Mutant of AddOperation: the last batch takes operations of both actions.
AddToLastBatch(o) ==
  LET fresh == batches = <<>>
      last == IF fresh THEN 1 ELSE Len(batches)
      cur == IF current = 0 THEN last ELSE current
  IN  /\ batches' = IF fresh
                    THEN <<[action |-> o.action, topics |-> {o.topic}]>>
                    ELSE [batches EXCEPT ![last].topics = @ \cup {o.topic}]
      /\ current' = cur
      /\ resuming' = (resuming \/ cur = last)
      /\ overtaken' = (overtaken \/ cur # 1)
      /\ UNCHANGED <<inFlight, stalled>>

(* addOperationForTopic: the operation joins the last batch if that has    *)
(* the same action, and a new one otherwise.  Without a current batch the  *)
(* last one becomes current, whether or not older ones wait before it.     *)
AddOperation(o) ==
  LET fresh == batches = <<>> \/ batches[Len(batches)].action # o.action
      last == IF fresh THEN Len(batches) + 1 ELSE Len(batches)
      existed == ~fresh /\ o.topic \in batches[last].topics
      cur == IF current = 0 THEN last ELSE current
  IN  /\ batches' = IF fresh
                    THEN Append(batches, [action |-> o.action, topics |-> {o.topic}])
                    ELSE [batches EXCEPT ![last].topics = @ \cup {o.topic}]
      /\ current' = cur
      /\ resuming' = (resuming \/ (cur = last /\ ~existed))
      /\ overtaken' = (overtaken \/ cur # 1)
      /\ UNCHANGED <<inFlight, stalled>>

\* The token is there: the oldest waiting call joins the list.
TokenReady ==
  /\ calls # <<>>
  /\ AddOperation(Head(calls))
  /\ asked' = [asked EXCEPT ![Head(calls).topic] = Head(calls).action]
  /\ calls' = Tail(calls)
  /\ UNCHANGED <<currentUserId, issued, server>>

\* The token cannot be had, or the topic's name is not valid: the call ends in
\* an error, which is logged.
TokenFails ==
  /\ calls # <<>>
  /\ failed' = failed \cup {Head(calls).topic}
  /\ calls' = Tail(calls)
  /\ UNCHANGED <<currentUserId, issued, list, subscribed, asked, overtaken>>

\* The first batch becomes current if none is.
Chosen == IF current = 0 /\ batches # <<>> THEN 1 ELSE current

\* Mutant of ResumeOperations: the topics of every batch are sent at once.
ResumeAllBatches ==
  /\ current' = Chosen
  /\ inFlight' = UNION {batches[i].topics : i \in 1..Len(batches)}
  /\ stalled' = {}
  /\ UNCHANGED <<currentUserId, issued, calls, batches, server, asked, overtaken>>

(* resumeOperationsIfNeeded: every topic of the current batch that is not  *)
(* under way is sent.                                                      *)
ResumeOperations ==
  /\ current' = Chosen
  /\ inFlight' = inFlight \cup (IF Chosen = 0 THEN {} ELSE batches[Chosen].topics)
  /\ stalled' = {}
  /\ UNCHANGED <<currentUserId, issued, calls, batches, server, asked, overtaken>>

Resume ==
  /\ resuming
  /\ resuming' = FALSE
  /\ ResumeOperations

\* The token the calls waited for is gone again: the resume returns before it
\* sends anything, and the topics wait for a new one.
ResumeWithoutToken ==
  /\ resuming
  /\ resuming' = FALSE
  /\ current' = Chosen
  /\ stalled' = Users
  /\ UNCHANGED <<currentUserId, issued, calls, batches, inFlight, server, asked,
                 overtaken>>

\* scheduleSync: the network has changed or a token has arrived.
ScheduleSync ==
  /\ ResumeOperations
  /\ UNCHANGED resuming
-----------------------------------------------------------------------------
\* What a request for topic t does at the server.
Apply(t) ==
  subscribed' = IF batches[current].action = "subscribe"
                THEN subscribed \cup {t} ELSE subscribed \ {t}

\* removeObject: the sequence without its i-th element.
Without(s, i) == [j \in 1..(Len(s) - 1) |-> IF j < i THEN s[j] ELSE s[j + 1]]

\* Mutant of RemoveTopic: nobody sees to the batches that remain.
RemoveTopicOnly(t) ==
  LET rest == batches[current].topics \ {t}
  IN  /\ inFlight' = inFlight \ {t}
      /\ batches' = IF rest = {}
                    THEN Without(batches, current)
                    ELSE [batches EXCEPT ![current].topics = rest]
      /\ current' = IF rest = {} THEN 0 ELSE current
      /\ UNCHANGED <<stalled, resuming>>

(* The completion handler when the operation is over: the topic leaves the *)
(* current batch, and an empty batch leaves the list.                      *)
RemoveTopic(t) ==
  LET rest == batches[current].topics \ {t}
  IN  /\ inFlight' = inFlight \ {t}
      /\ batches' = IF rest = {}
                    THEN Without(batches, current)
                    ELSE [batches EXCEPT ![current].topics = rest]
      /\ current' = IF rest = {} THEN 0 ELSE current
      /\ resuming' = TRUE
      /\ UNCHANGED stalled

Succeeded(t) ==
  /\ t \in inFlight
  /\ Apply(t)
  /\ RemoveTopic(t)
  /\ UNCHANGED <<currentUserId, issued, calls, asked, failed, overtaken>>

\* An error of the service: the operation is given up, done or not.
GivenUp(t) ==
  /\ t \in inFlight
  /\ Apply(t) \/ UNCHANGED subscribed
  /\ failed' = failed \cup {t}
  /\ RemoveTopic(t)
  /\ UNCHANGED <<currentUserId, issued, calls, asked, overtaken>>

\* A network error: the topic stays in the batch, and nothing resumes it.
Interrupted(t) ==
  /\ t \in inFlight
  /\ Apply(t) \/ UNCHANGED subscribed
  /\ inFlight' = inFlight \ {t}
  /\ stalled' = stalled \cup {t}
  /\ UNCHANGED <<currentUserId, issued, calls, batches, current, resuming, asked,
                 failed, overtaken>>

\* The app is killed and launched again: the archived batches come back;
\* the server may have served any of the requests that were under way.
Relaunch ==
  /\ currentUserId' = None
  /\ calls' = <<>>
  /\ current' = 0
  /\ inFlight' = {}
  /\ resuming' = FALSE
  /\ stalled' = Users
  /\ \E served \in SUBSET inFlight :
       subscribed' = IF inFlight = {} THEN subscribed
                     ELSE IF batches[current].action = "subscribe"
                     THEN subscribed \cup served ELSE subscribed \ served
  /\ UNCHANGED <<issued, batches, asked, failed, overtaken>>
-----------------------------------------------------------------------------
Next ==
  \/ \E u \in Users : SetCurrentUser(u)
  \/ ClearCurrentUser
  \/ TokenReady
  \/ TokenFails
  \/ Resume
  \/ ResumeWithoutToken
  \/ ScheduleSync
  \/ \E t \in Users : Succeeded(t) \/ GivenUp(t) \/ Interrupted(t)
  \/ Relaunch

Spec == Init /\ [][Next]_vars
-----------------------------------------------------------------------------
(* Every variable has its type; requests are under way for topics of the   *)
(* current batch only, and no batch is empty: the completion handler finds *)
(* its topic in currentBatch (FIRMessagingPendingTopicsList.m:221-268).    *)
TypeOK ==
  /\ currentUserId \in Users \cup {None}
  /\ issued \in 0..MaxCalls
  /\ calls \in Seq(Operations)
  /\ batches \in Seq(Batches)
  /\ \A i \in 1..Len(batches) : batches[i].topics # {}
  /\ current \in 0..Len(batches)
  /\ inFlight \subseteq Users
  /\ inFlight # {} => current # 0 /\ inFlight \subseteq batches[current].topics
  /\ resuming \in BOOLEAN
  /\ stalled \subseteq Users
  /\ subscribed \subseteq Users
  /\ asked \in [Users -> Actions]
  /\ failed \subseteq Users
  /\ overtaken \in BOOLEAN

(* No wake-up is lost: while operations are pending, a batch is chosen and *)
(* its topics are under way, or a resume is due, or a topic waits for the  *)
(* network after an error or a launch (FIRMessagingPendingTopicsList.m:    *)
(* 175-186 and 190-215).                                                   *)
NoLostWakeup ==
  batches # <<>> =>
    \/ resuming
    \/ stalled # {}
    \/ current # 0 /\ inFlight = batches[current].topics

Pending(t) == \E i \in 1..Len(batches) : t \in batches[i].topics

(* Once nothing is pending for a topic, the server agrees with the last    *)
(* operation the list took for it, whatever batches, retries and launches  *)
(* lay between, unless an operation failed or a batch overtook an older    *)
(* one (FIRMessagingPendingTopicsList.m:149-188).                          *)
SettledAsAsked ==
  ~overtaken =>
    \A t \in Users \ failed :
      ~Pending(t) => (t \in subscribed <=> asked[t] = "subscribe")
=============================================================================
