----------------------- MODULE VerificationFlowProofs -----------------------
(***************************************************************************)
(* Proofs about VerificationFlow, for any set of addresses, any number of  *)
(* devices and any number of submissions and checks under way.             *)
(***************************************************************************)
EXTENDS VerificationFlow, TLAPS

\* Which facts about the server a submission has established.
Owner == {"created", "send", "store", "ok", "unstored"}
SubInv(s) ==
  /\ s.email \in Eligible
  /\ s.stage \in Owner => accounts[s.email] = s.dev
  /\ s.stage \in {"created", "send"} => mails[s.email] = 0
  /\ s.stage \in {"store", "ok"} => mails[s.email] = 1
  /\ s.stage = "ok" => s.email \in records
  /\ s.stage \in {"send", "store", "ok"} => currentUser[s.dev] # None

\* Only one submission of an address is about to send the mail.
OneSender ==
  \A s, z \in subs :
    /\ s.stage \in {"created", "send"} /\ z.stage \in {"created", "send"}
    /\ s.email = z.email
    => s = z

PollInv(p) ==
  /\ p.user # None => accounts[p.user] = p.dev
  /\ p.stage = "reload" => p.user # None
  /\ p.stage = "yes" => \E e \in verified : accounts[e] = p.dev

ServerInv ==
  \A e \in Emails :
    /\ accounts[e] # None => e \in Eligible
    /\ mails[e] > 0 \/ e \in verified \/ e \in records => accounts[e] # None
    /\ mails[e] <= 1

\* Auth's current user is an account this device created.
UserInv == \A d \in Devices : currentUser[d] # None => accounts[currentUser[d]] = d

VInv ==
  /\ TypeOK
  /\ ServerInv
  /\ OneSender
  /\ \A s \in subs : SubInv(s)
  /\ \A p \in polls : PollInv(p)
  /\ UserInv
  /\ CheckingMeansSent
  /\ VerifiedMeansFollowed
-----------------------------------------------------------------------------
Stages == {"create", "created", "send", "store", "ok", "unstored", "failed"}

LEMMA SubFacts ==
  ASSUME NEW s \in Subs
  PROVE  /\ s.dev \in Devices /\ s.n \in 1..MaxSubmits /\ s.email \in Emails
         /\ s.live \in BOOLEAN /\ s.stage \in Stages
         /\ \A g \in Stages : /\ [s EXCEPT !.stage = g] \in Subs
                              /\ [s EXCEPT !.stage = g].stage = g
                              /\ [s EXCEPT !.stage = g].email = s.email
                              /\ [s EXCEPT !.stage = g].dev = s.dev
  BY DEF Subs, Stages

LEMMA PollFacts ==
  ASSUME NEW p \in Polls
  PROVE  /\ p.dev \in Devices /\ p.user \in Emails \cup {None}
         /\ p.stage \in {"reload", "yes", "no"} /\ p.live \in BOOLEAN
         /\ \A g \in {"yes", "no"} : /\ [p EXCEPT !.stage = g] \in Polls
                                     /\ [p EXCEPT !.stage = g].stage = g
                                     /\ [p EXCEPT !.stage = g].user = p.user
                                     /\ [p EXCEPT !.stage = g].dev = p.dev
  BY DEF Polls

\* What Move leaves in subs: the others, and s at its new stage.
LEMMA MoveFacts ==
  ASSUME TypeOK, NEW s \in subs, NEW g \in Stages, Move(s, g)
  PROVE  /\ subs' \subseteq Subs
         /\ s.email \in Emails /\ s.dev \in Devices
         /\ \A z \in subs' :
              \/ z \in subs /\ z # s
              \/ z.stage = g /\ z.email = s.email /\ z.dev = s.dev
                 /\ z = [s EXCEPT !.stage = g]
  <1>1. s \in Subs /\ subs \subseteq Subs
    BY DEF TypeOK
  <1> DEFINE m == [s EXCEPT !.stage = g]
  <1>2. /\ s.email \in Emails /\ s.dev \in Devices
        /\ m \in Subs /\ m.stage = g /\ m.email = s.email /\ m.dev = s.dev
    BY <1>1, SubFacts
  <1>3. subs' = (subs \ {s}) \cup {m}
    BY DEF Move
  <1> HIDE DEF m
  <1>4. /\ subs' \subseteq Subs
        /\ \A z \in subs' :
             (z \in subs /\ z # s)
             \/ (z.stage = g /\ z.email = s.email /\ z.dev = s.dev /\ z = m)
    BY <1>1, <1>2, <1>3
  <1> QED
    BY <1>2, <1>4 DEF m

LEMMA TypeInit == Init => TypeOK
  <1> SUFFICES ASSUME Init PROVE TypeOK
    OBVIOUS
  <1>1. "" \in Messages
    BY DEF Messages
  <1>2. 0 \in 0..MaxSubmits /\ 0 \in 0..MaxChecks /\ 0 \in Nat
    BY BoundsAssumption
  <1>3. /\ email \in [Devices -> Emails \cup {None}]
        /\ status \in [Devices -> Messages]
        /\ isCheckingStatus \in [Devices -> BOOLEAN]
        /\ currentUser \in [Devices -> Emails \cup {None}]
        /\ isEmailVerified \in [Devices -> BOOLEAN]
    BY <1>1 DEF Init
  <1>4. /\ submits \in [Devices -> 0..MaxSubmits]
        /\ checks \in [Devices -> 0..MaxChecks]
        /\ mails \in [Emails -> Nat]
        /\ accounts \in [Emails -> Devices \cup {None}]
    BY <1>2 DEF Init
  <1>5. subs \subseteq Subs /\ polls \subseteq Polls /\ verified \subseteq Emails
        /\ records \subseteq Emails
    BY DEF Init
  <1> QED
    BY <1>3, <1>4, <1>5 DEF TypeOK

LEMMA ClearFormType ==
  ASSUME TypeOK, NEW d \in Devices, ClearForm(d)
  PROVE  /\ email' \in [Devices -> Emails \cup {None}]
         /\ status' \in [Devices -> Messages]
         /\ isCheckingStatus' \in [Devices -> BOOLEAN]
  BY DEF ClearForm, TypeOK, Messages

LEMMA TypeNext == TypeOK /\ [Next]_vars => TypeOK'
  <1> SUFFICES ASSUME TypeOK, [Next]_vars PROVE TypeOK'
    OBVIOUS
  <1> USE DEF form, backend
  <1>1. ASSUME NEW d \in Devices, NEW e \in Emails \cup {None}, Type(d, e) PROVE TypeOK'
    BY <1>1 DEF Type, TypeOK
  <1>2. ASSUME NEW d \in Devices, SubmitRefused(d) PROVE TypeOK'
    BY <1>2 DEF SubmitRefused, Refusal, TypeOK, Messages
  <1>3. ASSUME NEW d \in Devices, Submit(d) PROVE TypeOK'
    <2>1. submits[d] + 1 \in 1..MaxSubmits /\ email[d] \in Emails
      BY <1>3, BoundsAssumption, EligibleAssumption DEF Submit, TypeOK
    <2>2. [dev |-> d, n |-> submits[d] + 1, email |-> email[d], live |-> TRUE,
           stage |-> "create"] \in Subs
      BY <2>1 DEF Subs
    <2>3. subs' \subseteq Subs
      BY <1>3, <2>2 DEF Submit, TypeOK
    <2>4. submits' \in [Devices -> 0..MaxSubmits]
      BY <1>3, <2>1, BoundsAssumption DEF Submit, TypeOK
    <2> QED
      BY <1>3, <2>3, <2>4 DEF Submit, TypeOK
  <1>4. ASSUME NEW d \in Devices, ResetForm(d) PROVE TypeOK'
    BY <1>4, ClearFormType DEF ResetForm, TypeOK
  <1>5. ASSUME NEW d \in Devices, NEW s \in subs
        PROVE  [s EXCEPT !.live = @ /\ s.dev # d] \in Subs
    <2>1. s \in Subs
      BY DEF TypeOK
    <2> QED
      BY <2>1 DEF Subs
  <1>6. ASSUME NEW d \in Devices, Reopen(d) PROVE TypeOK'
    <2>1. subs' \subseteq Subs
      BY <1>5, <1>6 DEF Reopen
    <2>2. polls' \subseteq Polls
      <3> SUFFICES ASSUME NEW p \in polls
                   PROVE  [p EXCEPT !.live = @ /\ p.dev # d] \in Polls
        BY <1>6 DEF Reopen
      <3>1. p \in Polls
        BY DEF TypeOK
      <3> QED
        BY <3>1 DEF Polls
    <2> QED
      BY <1>6, <2>1, <2>2, ClearFormType DEF Reopen, TypeOK
  <1>12. ASSUME NEW d \in Devices, Relaunch(d) PROVE TypeOK'
    <2>1. subs' \subseteq Subs
      BY <1>5, <1>12 DEF Relaunch
    <2> QED
      BY <1>12, <2>1, ClearFormType DEF Relaunch, TypeOK
  <1>7. ASSUME NEW d \in Devices, Check(d) PROVE TypeOK'
    <2>1. checks[d] + 1 \in 1..MaxChecks /\ currentUser[d] \in Emails \cup {None}
      BY <1>7, BoundsAssumption DEF Check, TypeOK
    <2>2. [dev |-> d, n |-> checks[d] + 1, user |-> currentUser[d], live |-> TRUE,
           stage |-> IF currentUser[d] = None THEN "no" ELSE "reload"] \in Polls
      BY <2>1 DEF Polls
    <2>3. polls' \subseteq Polls
      BY <1>7, <2>2 DEF Check, TypeOK
    <2>4. checks' \in [Devices -> 0..MaxChecks]
      BY <1>7, <2>1, BoundsAssumption DEF Check, TypeOK
    <2> QED
      BY <1>7, <2>3, <2>4 DEF Check, TypeOK
  <1>8. ASSUME NEW s \in subs, SubStep(s) PROVE TypeOK'
    <2>1. s \in Subs
      BY DEF TypeOK
    <2>2. s.dev \in Devices /\ s.email \in Emails
      BY <2>1, SubFacts
    <2>3. \A g \in Stages : Move(s, g) => subs' \subseteq Subs
      BY MoveFacts
    <2>4. "created" \in Stages /\ "send" \in Stages /\ "store" \in Stages
          /\ "ok" \in Stages /\ "unstored" \in Stages /\ "failed" \in Stages
      BY DEF Stages
    <2>5. CASE CreateUser(s)
      BY <2>2, <2>3, <2>4, <2>5 DEF CreateUser, TypeOK
    <2>6. CASE UserCreated(s)
      BY <2>2, <2>3, <2>4, <2>6 DEF UserCreated, TypeOK
    <2>7. CASE CreateFails(s) \/ StoreFails(s)
      BY <2>3, <2>4, <2>7 DEF CreateFails, StoreFails, TypeOK
    <2>8. CASE SendEmailVerification(s) \/ SendFails(s)
      <3>1. mails' \in [Emails -> Nat]
        BY <2>2, <2>8 DEF SendEmailVerification, SendFails, TypeOK
      <3> QED
        BY <2>3, <2>4, <2>8, <3>1 DEF SendEmailVerification, SendFails, TypeOK
    <2>9. CASE StoreVerification(s)
      BY <2>2, <2>3, <2>4, <2>9 DEF StoreVerification, TypeOK
    <2>10. CASE SubmitDone(s)
      <3>1. Report(s.stage) \in Messages
        BY <2>10 DEF SubmitDone, Report, Messages
      <3> QED
        BY <2>2, <2>10, <3>1 DEF SubmitDone, TypeOK
    <2> QED
      BY <1>8, <2>5, <2>6, <2>7, <2>8, <2>9, <2>10 DEF SubStep
  <1>9. ASSUME NEW p \in polls, PollStep(p) PROVE TypeOK'
    <2>1. p \in Polls
      BY DEF TypeOK
    <2>2. p.dev \in Devices
      BY <2>1, PollFacts
    <2>a. \A g \in {"yes", "no"} : [p EXCEPT !.stage = g] \in Polls
      BY <2>1, PollFacts
    <2>3. CASE Reload(p)
      <3>1. PICK g \in {"yes", "no"} : polls' = (polls \ {p}) \cup {[p EXCEPT !.stage = g]}
        BY <2>3 DEF Reload
      <3>2. polls' \subseteq Polls
        BY <2>a, <3>1 DEF TypeOK
      <3>3. isEmailVerified' \in [Devices -> BOOLEAN]
        <4>1. \A b \in BOOLEAN : [isEmailVerified EXCEPT ![p.dev] = b]
                                    \in [Devices -> BOOLEAN]
          BY <2>2 DEF TypeOK
        <4>2. (p.user \in verified) \in BOOLEAN
          OBVIOUS
        <4> QED
          BY <2>3, <4>1, <4>2 DEF Reload
      <3> QED
        BY <2>3, <3>2, <3>3 DEF Reload, TypeOK
    <2>4. CASE ReloadFails(p)
      <3>1. polls' \subseteq Polls
        BY <2>a, <2>4 DEF ReloadFails, TypeOK
      <3> QED
        BY <2>4, <3>1 DEF ReloadFails, TypeOK
    <2>5. CASE CheckDone(p)
      BY <2>2, <2>5 DEF CheckDone, TypeOK, Messages
    <2> QED
      BY <1>9, <2>3, <2>4, <2>5 DEF PollStep
  <1>10. ASSUME NEW e \in Emails, FollowLink(e) PROVE TypeOK'
    BY <1>10 DEF FollowLink, TypeOK
  <1>11. CASE UNCHANGED vars
    BY <1>11 DEF vars, TypeOK
  <1> QED
    BY <1>1, <1>2, <1>3, <1>4, <1>6, <1>7, <1>8, <1>9, <1>10, <1>11, <1>12
       DEF Next, User
-----------------------------------------------------------------------------
\* What no step takes back.
Grows ==
  /\ \A e \in Emails : accounts[e] # None => accounts'[e] = accounts[e]
  /\ \A e \in Emails : mails[e] = 1 => mails'[e] = 1
  /\ verified \subseteq verified' /\ records \subseteq records'
  /\ \A d \in Devices : currentUser[d] # None => currentUser'[d] # None

LEMMA DeviceNotNone == \A d \in Devices : d # None
  BY EmptyAssumption

LEMMA EmailNotNone == \A e \in Emails : e # None
  BY EmptyAssumption

\* The form's promises survive a step that does not make new ones.
LEMMA PromisesKept ==
  ASSUME VInv, TypeOK', Grows, UserInv',
         \A d \in Devices : isCheckingStatus'[d] => isCheckingStatus[d],
         \A d \in Devices : status'[d] = "verified" => status[d] = "verified",
         \A d \in Devices : isEmailVerified'[d] => isEmailVerified[d]
  PROVE  CheckingMeansSent' /\ VerifiedMeansFollowed'
  <1>1. CheckingMeansSent'
    <2> SUFFICES ASSUME NEW d \in Devices, isCheckingStatus'[d]
                 PROVE  /\ \E e \in Emails : accounts'[e] = d /\ mails'[e] = 1 /\ e \in records'
                        /\ \E e \in Emails : accounts'[e] = d /\ currentUser'[d] = e
      BY DEF CheckingMeansSent
    <2>1. isCheckingStatus[d]
      OBVIOUS
    <2>2. PICK e \in Emails : accounts[e] = d /\ mails[e] = 1 /\ e \in records
      BY <2>1 DEF VInv, CheckingMeansSent
    <2>3. PICK u \in Emails : accounts[u] = d /\ currentUser[d] = u
      BY <2>1 DEF VInv, CheckingMeansSent
    <2>4. accounts'[e] = d /\ mails'[e] = 1 /\ e \in records'
      BY <2>2, DeviceNotNone DEF Grows
    <2>5. currentUser'[d] # None
      BY <2>3, EmailNotNone DEF Grows
    <2>6. currentUser'[d] \in Emails /\ accounts'[currentUser'[d]] = d
      BY <2>5 DEF UserInv, TypeOK
    <2> QED
      BY <2>4, <2>6
  <1>2. VerifiedMeansFollowed'
    <2> SUFFICES ASSUME NEW d \in Devices, status'[d] = "verified" \/ isEmailVerified'[d]
                 PROVE  \E e \in verified' : accounts'[e] = d
      BY DEF VerifiedMeansFollowed
    <2>1. status[d] = "verified" \/ isEmailVerified[d]
      OBVIOUS
    <2>2. PICK e \in verified : accounts[e] = d
      BY <2>1 DEF VInv, VerifiedMeansFollowed
    <2>3. e \in Emails
      BY <2>2 DEF VInv, TypeOK
    <2> QED
      BY <2>2, <2>3, DeviceNotNone DEF Grows
  <1> QED
    BY <1>1, <1>2

\* A submission that does not move keeps its facts.
LEMMA SubKept ==
  ASSUME VInv, Grows, NEW z \in subs,
         z.stage \in {"created", "send"} => mails'[z.email] = mails[z.email]
  PROVE  SubInv(z)'
  <1>1. z \in Subs /\ SubInv(z)
    BY DEF VInv, TypeOK
  <1>2. z.email \in Emails /\ z.dev \in Devices
    BY <1>1, SubFacts
  <1> QED
    BY <1>1, <1>2, DeviceNotNone DEF SubInv, Grows, Owner

LEMMA PollKept ==
  ASSUME VInv, Grows, NEW p \in polls
  PROVE  PollInv(p)'
  <1>1. p \in Polls /\ PollInv(p) /\ verified \subseteq Emails
    BY DEF VInv, TypeOK
  <1>2. p.user \in Emails \cup {None} /\ p.dev \in Devices
    BY <1>1, PollFacts
  <1> QED
    BY <1>1, <1>2, DeviceNotNone DEF PollInv, Grows

\* A step of the form only.
LEMMA BackendSame ==
  ASSUME VInv, UNCHANGED <<accounts, mails, verified, records, currentUser>>
  PROVE  /\ Grows /\ ServerInv' /\ UserInv'
         /\ \A z \in subs : SubInv(z)'
         /\ \A p \in polls : PollInv(p)'
  <1>1. Grows
    BY DEF Grows
  <1>2. ServerInv' /\ UserInv'
    BY DEF VInv, ServerInv, UserInv
  <1>3. \A z \in subs : SubInv(z)'
    BY <1>1, SubKept
  <1>4. \A p \in polls : PollInv(p)'
    BY <1>1, PollKept
  <1> QED
    BY <1>1, <1>2, <1>3, <1>4
-----------------------------------------------------------------------------
\* The buttons of the form, and the app's own starts and stops.
LEMMA UserKeeps ==
  ASSUME VInv, TypeOK', NEW d \in Devices, User(d)
  PROVE  VInv'
  <1> USE DEF form, backend
  <1>0. UNCHANGED <<accounts, mails, verified, records, currentUser>>
    BY DEF User, Type, SubmitRefused, Submit, ResetForm, Reopen, Relaunch, Check
  <1>1. /\ Grows /\ ServerInv' /\ UserInv'
        /\ \A z \in subs : SubInv(z)'
        /\ \A p \in polls : PollInv(p)'
    BY <1>0, BackendSame
  <1>2. /\ \A c \in Devices : isCheckingStatus'[c] => isCheckingStatus[c]
        /\ \A c \in Devices : status'[c] = "verified" => status[c] = "verified"
        /\ \A c \in Devices : isEmailVerified'[c] => isEmailVerified[c]
    <2>1. CASE UNCHANGED <<isCheckingStatus, status, isEmailVerified>>
      BY <2>1
    <2>2. CASE SubmitRefused(d)
      BY <2>2 DEF SubmitRefused, Refusal, VInv, TypeOK
    <2>3. CASE ClearForm(d) /\ UNCHANGED isEmailVerified
      BY <2>3 DEF ClearForm, VInv, TypeOK
    <2>4. CASE Relaunch(d)
      BY <2>4 DEF Relaunch, ClearForm, VInv, TypeOK
    <2> QED
      BY <2>1, <2>2, <2>3, <2>4 DEF User, Type, Submit, ResetForm, Reopen, Check
  <1>3. CheckingMeansSent' /\ VerifiedMeansFollowed'
    BY <1>1, <1>2, PromisesKept
  <1>4. SUFFICES /\ \A z \in subs' : SubInv(z)'
                 /\ OneSender'
                 /\ \A p \in polls' : PollInv(p)'
    BY <1>1, <1>3 DEF VInv
  <1>5. CASE UNCHANGED <<subs, polls>>
    BY <1>1, <1>5 DEF VInv, OneSender
  <1>6. CASE Submit(d)
    <2>1. PICK new : /\ subs' = subs \cup {new} /\ UNCHANGED polls
                     /\ new.stage = "create" /\ new.email \in Eligible
      <3> DEFINE r == [dev |-> d, n |-> submits[d] + 1, email |-> email[d],
                       live |-> TRUE, stage |-> "create"]
      <3>1. r.stage = "create" /\ r.email = email[d]
        OBVIOUS
      <3> HIDE DEF r
      <3>2. subs' = subs \cup {r} /\ polls' = polls /\ email[d] \in Eligible
        BY <1>6 DEF Submit, r
      <3> QED
        BY <3>1, <3>2
    <2>2. SubInv(new)'
      BY <2>1 DEF SubInv, Owner
    <2>3. OneSender'
      BY <2>1 DEF VInv, OneSender
    <2> QED
      BY <1>1, <2>1, <2>2, <2>3
  \* Who made a submission, with which address and how far it is, all stay.
  <1>7. CASE Reopen(d) \/ Relaunch(d)
    <2>1. \A z \in subs' : \E s \in subs : /\ z = [s EXCEPT !.live = @ /\ s.dev # d]
                                           /\ z.stage = s.stage /\ z.email = s.email
                                           /\ z.dev = s.dev
      <3> SUFFICES ASSUME NEW s \in subs,
                          NEW z, z = [s EXCEPT !.live = @ /\ s.dev # d]
                   PROVE  z.stage = s.stage /\ z.email = s.email /\ z.dev = s.dev
        BY <1>7 DEF Reopen, Relaunch
      <3>1. s \in Subs
        BY DEF VInv, TypeOK
      <3> QED
        BY <3>1 DEF Subs
    <2>2. \A z \in polls' : \E p \in polls : /\ z.stage = p.stage /\ z.user = p.user
                                             /\ z.dev = p.dev
      <3> SUFFICES ASSUME NEW p \in polls, NEW z,
                          z = p \/ z = [p EXCEPT !.live = @ /\ p.dev # d]
                   PROVE  z.stage = p.stage /\ z.user = p.user /\ z.dev = p.dev
        BY <1>7 DEF Reopen, Relaunch
      <3>1. p \in Polls
        BY DEF VInv, TypeOK
      <3> QED
        BY <3>1 DEF Polls
    <2>3. \A z \in subs' : SubInv(z)'
      <3> SUFFICES ASSUME NEW z \in subs' PROVE SubInv(z)'
        OBVIOUS
      <3>1. PICK s \in subs : z.stage = s.stage /\ z.email = s.email /\ z.dev = s.dev
        BY <2>1
      <3> QED
        BY <1>1, <3>1 DEF SubInv
    <2>4. \A z \in polls' : PollInv(z)'
      <3> SUFFICES ASSUME NEW z \in polls' PROVE PollInv(z)'
        OBVIOUS
      <3>1. PICK p \in polls : z.stage = p.stage /\ z.user = p.user /\ z.dev = p.dev
        BY <2>2
      <3> QED
        BY <1>1, <3>1 DEF PollInv
    <2>5. OneSender'
      <3> SUFFICES ASSUME NEW y \in subs', NEW z \in subs',
                          y.stage \in {"created", "send"}, z.stage \in {"created", "send"},
                          y.email = z.email
                   PROVE  y = z
        BY DEF OneSender
      <3>1. PICK s \in subs : /\ y = [s EXCEPT !.live = @ /\ s.dev # d]
                              /\ y.stage = s.stage /\ y.email = s.email
        BY <2>1
      <3>2. PICK r \in subs : /\ z = [r EXCEPT !.live = @ /\ r.dev # d]
                              /\ z.stage = r.stage /\ z.email = r.email
        BY <2>1
      <3>3. s = r
        BY <3>1, <3>2 DEF VInv, OneSender
      <3> QED
        BY <3>1, <3>2, <3>3
    <2> QED
      BY <2>3, <2>4, <2>5
  <1>9. CASE Check(d)
    <2>1. PICK new : /\ polls' = polls \cup {new} /\ UNCHANGED subs
                     /\ new.stage = IF currentUser[d] = None THEN "no" ELSE "reload"
                     /\ new.user = currentUser[d] /\ new.dev = d
      <3> DEFINE g == IF currentUser[d] = None THEN "no" ELSE "reload"
      <3> DEFINE r == [dev |-> d, n |-> checks[d] + 1, user |-> currentUser[d],
                       live |-> TRUE, stage |-> g]
      <3>1. r.stage = g /\ r.user = currentUser[d] /\ r.dev = d
        OBVIOUS
      <3> HIDE DEF r
      <3>2. polls' = polls \cup {r} /\ subs' = subs
        BY <1>9 DEF Check, r
      <3> QED
        BY <3>1, <3>2
    <2>2. PollInv(new)'
      BY <1>0, <2>1 DEF PollInv, VInv, UserInv
    <2> QED
      BY <1>1, <2>1, <2>2 DEF VInv, OneSender
  <1> QED
    BY <1>5, <1>6, <1>7, <1>9 DEF User, Type, SubmitRefused, ResetForm
\* A submission that moves on does not make a second sender.
LEMMA OneSenderMoves ==
  ASSUME VInv, NEW s \in subs, NEW g \in Stages, Move(s, g),
         g \in {"created", "send"} => s.stage \in {"created", "send"}
  PROVE  OneSender'
  <1>1. TypeOK
    BY DEF VInv
  <1>2. \A z \in subs' : \/ z \in subs /\ z # s
                         \/ /\ z.stage = g /\ z.email = s.email
                            /\ z = [s EXCEPT !.stage = g]
    BY <1>1, MoveFacts
  <1> QED
    BY <1>2 DEF VInv, OneSender
-----------------------------------------------------------------------------
\* The calls of a submission.
LEMMA SubKeeps ==
  ASSUME VInv, TypeOK', NEW s \in subs, SubStep(s)
  PROVE  VInv'
  <1> USE DEF form, backend
  <1>0. /\ s \in Subs /\ SubInv(s) /\ TypeOK
        /\ s.dev \in Devices /\ s.email \in Emails
    <2>1. s \in Subs /\ SubInv(s) /\ TypeOK
      BY DEF VInv, TypeOK
    <2> QED
      BY <2>1, SubFacts
  <1>1. \A g \in Stages : Move(s, g) =>
          \A z \in subs' : \/ z \in subs /\ z # s
                           \/ z.stage = g /\ z.email = s.email /\ z.dev = s.dev
    <2> TAKE g \in Stages
    <2> HAVE Move(s, g)
    <2>1. TypeOK
      BY <1>0
    <2> QED
      BY <2>1, MoveFacts
  <1>2. "created" \in Stages /\ "send" \in Stages /\ "store" \in Stages
        /\ "ok" \in Stages /\ "unstored" \in Stages /\ "failed" \in Stages
    BY DEF Stages
  <1>3. CASE CreateUser(s)
    <2>1. accounts' = [accounts EXCEPT ![s.email] = s.dev] /\ accounts[s.email] = None
      BY <1>3 DEF CreateUser
    <2>2. UNCHANGED <<mails, verified, records, currentUser, polls, status,
                      isCheckingStatus, isEmailVerified>>
      BY <1>3 DEF CreateUser
    <2>3. Grows
      BY <1>0, <2>1, <2>2 DEF Grows, TypeOK
    <2>4. ServerInv'
      BY <1>0, <2>1, <2>2, DeviceNotNone DEF ServerInv, SubInv, VInv, TypeOK
    <2>5. UserInv'
      <3> SUFFICES ASSUME NEW d \in Devices, currentUser[d] # None
                   PROVE  accounts'[currentUser[d]] = d
        BY <2>2 DEF UserInv
      <3>1. currentUser[d] \in Emails /\ accounts[currentUser[d]] = d
        BY DEF VInv, UserInv, TypeOK
      <3> QED
        BY <2>3, <3>1, DeviceNotNone DEF Grows
    <2>6. CheckingMeansSent' /\ VerifiedMeansFollowed'
      BY <2>2, <2>3, <2>5, PromisesKept
    <2>7. \A p \in polls' : PollInv(p)'
      BY <2>2, <2>3, PollKept
    <2>8. \A z \in subs' : \/ z \in subs /\ z # s
                           \/ z.stage = "created" /\ z.email = s.email /\ z.dev = s.dev
      BY <1>1, <1>2, <1>3 DEF CreateUser
    <2>9. \A z \in subs' : SubInv(z)'
      <3> SUFFICES ASSUME NEW z \in subs' PROVE SubInv(z)'
        OBVIOUS
      <3>1. CASE z \in subs
        BY <2>2, <2>3, <3>1, SubKept
      <3>2. CASE z.stage = "created" /\ z.email = s.email /\ z.dev = s.dev
        <4>1. mails[s.email] = 0
          BY <1>0, <2>1 DEF VInv, ServerInv, TypeOK
        <4>2. accounts'[s.email] = s.dev
          BY <1>0, <2>1 DEF TypeOK
        <4> QED
          BY <1>0, <2>2, <3>2, <4>1, <4>2 DEF SubInv, Owner
      <3> QED
        BY <2>8, <3>1, <3>2
    \* The others of this address would have an account: it has none.
    <2>10. OneSender'
      <3>1. \A z \in subs : z.stage \in {"created", "send"} => z.email # s.email
        <4> SUFFICES ASSUME NEW z \in subs, z.stage \in {"created", "send"}
                     PROVE  z.email # s.email
          OBVIOUS
        <4>1. SubInv(z) /\ z \in Subs
          BY DEF VInv, TypeOK
        <4>2. z.dev \in Devices
          BY <4>1, SubFacts
        <4>3. accounts[z.email] = z.dev
          BY <4>1 DEF SubInv, Owner
        <4> QED
          BY <2>1, <4>2, <4>3, DeviceNotNone
      <3>2. subs' = (subs \ {s}) \cup {[s EXCEPT !.stage = "created"]}
        BY <1>3 DEF CreateUser, Move
      <3>3. [s EXCEPT !.stage = "created"].email = s.email
        BY <1>0, <1>2, SubFacts
      <3> QED
        BY <3>1, <3>2, <3>3 DEF VInv, OneSender
    <2> QED
      BY <2>4, <2>5, <2>6, <2>7, <2>9, <2>10 DEF VInv
  <1>4. CASE UserCreated(s)
    <2>1. /\ s.stage = "created"
          /\ currentUser' = [currentUser EXCEPT ![s.dev] = s.email]
      BY <1>4 DEF UserCreated
    <2>2. UNCHANGED <<accounts, mails, verified, records, polls, status,
                      isCheckingStatus, isEmailVerified>>
      BY <1>4 DEF UserCreated
    <2>3. Grows
      BY <1>0, <2>1, <2>2, EmailNotNone DEF Grows, TypeOK
    <2>4. accounts[s.email] = s.dev /\ mails[s.email] = 0 /\ s.email \in Eligible
      BY <1>0, <2>1 DEF SubInv, Owner
    <2>5. ServerInv' /\ UserInv'
      BY <1>0, <2>1, <2>2, <2>4 DEF ServerInv, UserInv, VInv, TypeOK
    <2>6. CheckingMeansSent' /\ VerifiedMeansFollowed'
      BY <2>2, <2>3, <2>5, PromisesKept
    <2>7. \A p \in polls' : PollInv(p)'
      BY <2>2, <2>3, PollKept
    <2>8. Move(s, "send")
      BY <1>4 DEF UserCreated
    <2>9. \A z \in subs' : SubInv(z)'
      <3> SUFFICES ASSUME NEW z \in subs' PROVE SubInv(z)'
        OBVIOUS
      <3>1. CASE z \in subs
        BY <2>2, <2>3, <3>1, SubKept
      <3>2. CASE z.stage = "send" /\ z.email = s.email /\ z.dev = s.dev
        <4>1. currentUser'[s.dev] # None
          BY <1>0, <2>1, EmailNotNone DEF TypeOK
        <4> QED
          BY <2>2, <2>4, <3>2, <4>1 DEF SubInv, Owner
      <3> QED
        BY <1>1, <1>2, <2>8, <3>1, <3>2
    <2>10. OneSender'
      BY <1>2, <2>1, <2>8, OneSenderMoves
    <2> QED
      BY <2>5, <2>6, <2>7, <2>9, <2>10 DEF VInv
  <1>5. CASE CreateFails(s) \/ StoreFails(s)
    <2>1. UNCHANGED <<accounts, mails, verified, records, currentUser, polls, status,
                      isCheckingStatus, isEmailVerified>>
      BY <1>5 DEF CreateFails, StoreFails
    <2>2. PICK g \in Stages : /\ Move(s, g) /\ g \in {"failed", "unstored"}
                              /\ g = "unstored" => s.stage = "store"
      BY <1>2, <1>5 DEF CreateFails, StoreFails
    <2>3. /\ Grows /\ ServerInv' /\ UserInv'
          /\ \A z \in subs : SubInv(z)'
          /\ \A p \in polls : PollInv(p)'
      BY <2>1, BackendSame
    <2>4. CheckingMeansSent' /\ VerifiedMeansFollowed'
      BY <2>1, <2>3, PromisesKept
    <2>5. \A z \in subs' : SubInv(z)'
      <3> SUFFICES ASSUME NEW z \in subs', z.stage = g, z.email = s.email, z.dev = s.dev
                   PROVE  SubInv(z)'
        BY <1>1, <2>2, <2>3
      <3> QED
        BY <1>0, <2>1, <2>2 DEF SubInv, Owner
    <2>6. OneSender'
      BY <2>2, OneSenderMoves
    <2> QED
      BY <2>1, <2>3, <2>4, <2>5, <2>6 DEF VInv
  <1>6. CASE SendEmailVerification(s) \/ SendFails(s)
    <2>1. /\ s.stage = "send"
          /\ UNCHANGED <<accounts, verified, records, currentUser, polls, status,
                         isCheckingStatus, isEmailVerified>>
      BY <1>6 DEF SendEmailVerification, SendFails
    <2>2. /\ accounts[s.email] = s.dev /\ mails[s.email] = 0 /\ s.email \in Eligible
          /\ currentUser[s.dev] # None
      BY <1>0, <2>1 DEF SubInv, Owner
    <2>3. PICK g \in Stages : /\ Move(s, g) /\ g \in {"store", "failed"}
                              /\ g = "store" => mails'[s.email] = 1
      BY <1>0, <1>2, <1>6, <2>2 DEF SendEmailVerification, SendFails, TypeOK
    <2>4. /\ mails'[s.email] \in {0, 1}
          /\ \A e \in Emails : e # s.email => mails'[e] = mails[e]
      BY <1>0, <1>6, <2>2 DEF SendEmailVerification, SendFails, TypeOK
    <2>5. Grows
      BY <2>1, <2>2, <2>4 DEF Grows
    <2>6. ServerInv' /\ UserInv'
      BY <1>0, <2>1, <2>2, <2>4, DeviceNotNone DEF ServerInv, UserInv, VInv
    <2>7. CheckingMeansSent' /\ VerifiedMeansFollowed'
      BY <2>1, <2>5, <2>6, PromisesKept
    <2>8. \A p \in polls' : PollInv(p)'
      BY <2>1, <2>5, PollKept
    <2>9. \A z \in subs' : SubInv(z)'
      <3> SUFFICES ASSUME NEW z \in subs' PROVE SubInv(z)'
        OBVIOUS
      \* Another sender of this address would be s itself.
      <3>1. CASE z \in subs /\ z # s
        <4>1. z \in Subs
          BY <1>0, <3>1 DEF TypeOK
        <4>2. z.email \in Emails
          BY <4>1, SubFacts
        <4>3. z.stage \in {"created", "send"} => z.email # s.email
          BY <2>1, <3>1 DEF VInv, OneSender
        <4>4. z.stage \in {"created", "send"} => mails'[z.email] = mails[z.email]
          BY <2>4, <4>2, <4>3
        <4> QED
          BY <2>5, <3>1, <4>4, SubKept
      <3>2. CASE z.stage = g /\ z.email = s.email /\ z.dev = s.dev
        BY <2>1, <2>2, <2>3, <3>2 DEF SubInv, Owner
      <3> QED
        BY <1>1, <2>3, <3>1, <3>2
    <2>10. OneSender'
      BY <2>3, OneSenderMoves
    <2> QED
      BY <2>6, <2>7, <2>8, <2>9, <2>10 DEF VInv
  <1>7. CASE StoreVerification(s)
    <2>1. /\ s.stage = "store" /\ records' = records \cup {s.email} /\ Move(s, "ok")
          /\ UNCHANGED <<accounts, mails, verified, currentUser, polls, status,
                         isCheckingStatus, isEmailVerified>>
      BY <1>7 DEF StoreVerification
    <2>2. /\ accounts[s.email] = s.dev /\ mails[s.email] = 1 /\ s.email \in Eligible
          /\ currentUser[s.dev] # None
      BY <1>0, <2>1 DEF SubInv, Owner
    <2>3. Grows
      BY <2>1 DEF Grows
    <2>4. ServerInv' /\ UserInv'
      BY <1>0, <2>1, <2>2, DeviceNotNone DEF ServerInv, UserInv, VInv
    <2>5. CheckingMeansSent' /\ VerifiedMeansFollowed'
      BY <2>1, <2>3, <2>4, PromisesKept
    <2>6. \A p \in polls' : PollInv(p)'
      BY <2>1, <2>3, PollKept
    <2>7. \A z \in subs' : SubInv(z)'
      <3> SUFFICES ASSUME NEW z \in subs' PROVE SubInv(z)'
        OBVIOUS
      <3>1. CASE z \in subs
        BY <2>1, <2>3, <3>1, SubKept
      <3>2. CASE z.stage = "ok" /\ z.email = s.email /\ z.dev = s.dev
        BY <2>1, <2>2, <3>2 DEF SubInv, Owner
      <3> QED
        BY <1>1, <1>2, <2>1, <3>1, <3>2
    <2>8. OneSender'
      BY <1>2, <2>1, OneSenderMoves
    <2> QED
      BY <2>4, <2>5, <2>6, <2>7, <2>8 DEF VInv
  <1>8. CASE SubmitDone(s)
    <2>1. /\ subs' = subs \ {s}
          /\ UNCHANGED <<accounts, mails, verified, records, currentUser, polls,
                         isEmailVerified>>
      BY <1>8 DEF SubmitDone
    <2>2. /\ Grows /\ ServerInv' /\ UserInv'
          /\ \A z \in subs : SubInv(z)'
          /\ \A p \in polls : PollInv(p)'
      BY <2>1, BackendSame
    <2>3. \A d \in Devices :
            isCheckingStatus'[d] => isCheckingStatus[d] \/ (d = s.dev /\ s.stage = "ok")
      BY <1>0, <1>8 DEF SubmitDone, TypeOK
    <2>4. \A d \in Devices : status'[d] = "verified" => status[d] = "verified"
      <3>1. Report(s.stage) # "verified"
        BY <1>8 DEF SubmitDone, Report
      <3> QED
        BY <1>0, <1>8, <3>1 DEF SubmitDone, TypeOK
    <2>5. VerifiedMeansFollowed'
      BY <2>1, <2>4 DEF VInv, VerifiedMeansFollowed
    <2>6. CheckingMeansSent'
      <3> SUFFICES ASSUME NEW d \in Devices, isCheckingStatus'[d]
                   PROVE  /\ \E e \in Emails : accounts[e] = d /\ mails[e] = 1 /\ e \in records
                          /\ \E e \in Emails : accounts[e] = d /\ currentUser[d] = e
        BY <2>1 DEF CheckingMeansSent
      <3>1. CASE isCheckingStatus[d]
        BY <3>1 DEF VInv, CheckingMeansSent
      <3>2. CASE d = s.dev /\ s.stage = "ok"
        <4>1. accounts[s.email] = d /\ mails[s.email] = 1 /\ s.email \in records
              /\ currentUser[d] # None
          BY <1>0, <3>2 DEF SubInv, Owner
        <4>2. currentUser[d] \in Emails /\ accounts[currentUser[d]] = d
          BY <1>0, <4>1 DEF VInv, UserInv, TypeOK
        <4> QED
          BY <1>0, <4>1, <4>2
      <3> QED
        BY <2>3, <3>1, <3>2
    <2> QED
      BY <2>1, <2>2, <2>5, <2>6 DEF VInv, OneSender
  <1> QED
    BY <1>3, <1>4, <1>5, <1>6, <1>7, <1>8 DEF SubStep
-----------------------------------------------------------------------------
\* The reload of a status check and its report.
LEMMA PollKeeps ==
  ASSUME VInv, TypeOK', NEW p \in polls, PollStep(p)
  PROVE  VInv'
  <1> USE DEF form, backend
  <1>0. p \in Polls /\ PollInv(p) /\ TypeOK
    BY DEF VInv, TypeOK
  <1>1. /\ p.dev \in Devices
        /\ \A g \in {"yes", "no"} : /\ [p EXCEPT !.stage = g].stage = g
                                    /\ [p EXCEPT !.stage = g].user = p.user
                                    /\ [p EXCEPT !.stage = g].dev = p.dev
    <2>1. p \in Polls
      BY <1>0
    <2>2. p.dev \in Devices
      BY <2>1, PollFacts
    <2>3. ASSUME NEW g \in {"yes", "no"}
          PROVE  /\ [p EXCEPT !.stage = g].stage = g
                 /\ [p EXCEPT !.stage = g].user = p.user
                 /\ [p EXCEPT !.stage = g].dev = p.dev
      BY <2>1 DEF Polls
    <2> QED
      BY <2>2, <2>3
  <1>2. UNCHANGED <<accounts, mails, verified, records, currentUser, subs,
                    isCheckingStatus>>
    BY DEF PollStep, Reload, ReloadFails, CheckDone
  <1>3. /\ Grows /\ ServerInv' /\ UserInv'
        /\ \A z \in subs : SubInv(z)'
        /\ \A q \in polls : PollInv(q)'
    BY <1>2, BackendSame
  <1>4. CheckingMeansSent' /\ OneSender' /\ (\A z \in subs' : SubInv(z)')
    BY <1>2, <1>3 DEF VInv, CheckingMeansSent, OneSender
  <1>5. SUFFICES VerifiedMeansFollowed' /\ (\A q \in polls' : PollInv(q)')
    BY <1>3, <1>4 DEF VInv
  <1>6. CASE Reload(p)
    <2>1. p.user # None /\ accounts[p.user] = p.dev
      BY <1>0, <1>6 DEF Reload, PollInv
    <2>2. PICK g \in {"yes", "no"} :
            /\ g = "yes" => p.user \in verified
            /\ polls' = (polls \ {p}) \cup {[p EXCEPT !.stage = g]}
      BY <1>6 DEF Reload
    <2>3. PICK q : /\ q.stage = g /\ q.user = p.user /\ q.dev = p.dev
                   /\ polls' = (polls \ {p}) \cup {q}
      BY <1>1, <2>2
    <2>4. PollInv(q)'
      BY <1>2, <2>1, <2>2, <2>3 DEF PollInv
    <2>5. \A d \in Devices : isEmailVerified'[d] =>
            isEmailVerified[d] \/ (d = p.dev /\ p.user \in verified)
      BY <1>0, <1>1, <1>6 DEF Reload, TypeOK
    <2>6. VerifiedMeansFollowed'
      <3>1. UNCHANGED status
        BY <1>6 DEF Reload
      <3> QED
        BY <1>2, <2>1, <2>5, <3>1 DEF VInv, VerifiedMeansFollowed
    <2> QED
      BY <1>3, <2>3, <2>4, <2>6
  <1>7. CASE ReloadFails(p)
    <2>1. UNCHANGED <<status, isEmailVerified>>
          /\ polls' = (polls \ {p}) \cup {[p EXCEPT !.stage = "no"]}
      BY <1>7 DEF ReloadFails
    <2>2. PICK q : /\ q.stage = "no" /\ q.user = p.user /\ q.dev = p.dev
                   /\ polls' = (polls \ {p}) \cup {q}
      BY <1>1, <2>1
    <2>3. PollInv(q)'
      BY <1>0, <1>2, <2>2 DEF PollInv
    <2>4. VerifiedMeansFollowed'
      BY <1>2, <2>1 DEF VInv, VerifiedMeansFollowed
    <2> QED
      BY <1>3, <2>2, <2>3, <2>4
  <1>8. CASE CheckDone(p)
    <2>1. polls' = polls \ {p} /\ UNCHANGED isEmailVerified
      BY <1>8 DEF CheckDone
    <2>2. \A d \in Devices : status'[d] = "verified" =>
            status[d] = "verified" \/ (d = p.dev /\ p.stage = "yes")
      BY <1>0, <1>1, <1>8 DEF CheckDone, TypeOK
    <2>3. p.stage = "yes" => \E e \in verified : accounts[e] = p.dev
      BY <1>0 DEF PollInv
    <2>4. VerifiedMeansFollowed'
      BY <1>2, <2>1, <2>2, <2>3 DEF VInv, VerifiedMeansFollowed
    <2> QED
      BY <1>3, <2>1, <2>4
  <1> QED
    BY <1>6, <1>7, <1>8 DEF PollStep

LEMMA LinkKeeps ==
  ASSUME VInv, TypeOK', NEW e \in Emails, FollowLink(e)
  PROVE  VInv'
  <1> USE DEF form, backend
  <1>1. /\ mails[e] > 0 /\ verified' = verified \cup {e}
        /\ UNCHANGED <<accounts, mails, records, currentUser, subs, polls, status,
                       isCheckingStatus, isEmailVerified>>
    BY DEF FollowLink
  <1>2. Grows
    BY <1>1 DEF Grows
  <1>3. ServerInv' /\ UserInv' /\ OneSender'
    BY <1>1 DEF VInv, ServerInv, UserInv, OneSender
  <1>4. CheckingMeansSent' /\ VerifiedMeansFollowed'
    BY <1>1, <1>2, <1>3, PromisesKept
  <1>5. \A z \in subs' : SubInv(z)'
    BY <1>1, <1>2, SubKept
  <1>6. \A p \in polls' : PollInv(p)'
    BY <1>1, <1>2, PollKept
  <1> QED
    BY <1>3, <1>4, <1>5, <1>6 DEF VInv
-----------------------------------------------------------------------------
LEMMA VInvInit == Init => VInv
  <1> SUFFICES ASSUME Init PROVE VInv
    OBVIOUS
  <1>1. TypeOK
    BY TypeInit
  <1>2. ServerInv
    <2> SUFFICES ASSUME NEW e \in Emails
                 PROVE  accounts[e] = None /\ mails[e] = 0 /\ e \notin verified \cup records
      BY DEF ServerInv
    <2> QED
      BY DEF Init
  <1>3. UserInv /\ CheckingMeansSent
    BY DEF Init, UserInv, CheckingMeansSent
  <1>5. VerifiedMeansFollowed
    BY DEF Init, VerifiedMeansFollowed
  <1>4. OneSender /\ (\A s \in subs : SubInv(s)) /\ (\A p \in polls : PollInv(p))
    BY DEF Init, OneSender
  <1> QED
    BY <1>1, <1>2, <1>3, <1>5, <1>4 DEF VInv

LEMMA VInvNext == VInv /\ [Next]_vars => VInv'
  <1> SUFFICES ASSUME VInv, [Next]_vars PROVE VInv'
    OBVIOUS
  <1>1. TypeOK'
    BY TypeNext DEF VInv
  <1>2. ASSUME NEW d \in Devices, User(d) PROVE VInv'
    BY <1>1, <1>2, UserKeeps
  <1>3. ASSUME NEW s \in subs, SubStep(s) PROVE VInv'
    BY <1>1, <1>3, SubKeeps
  <1>4. ASSUME NEW p \in polls, PollStep(p) PROVE VInv'
    BY <1>1, <1>4, PollKeeps
  <1>5. ASSUME NEW e \in Emails, FollowLink(e) PROVE VInv'
    BY <1>1, <1>5, LinkKeeps
  <1>6. CASE UNCHANGED vars
    <2>1. /\ Grows /\ ServerInv' /\ UserInv'
          /\ \A z \in subs : SubInv(z)'
          /\ \A p \in polls : PollInv(p)'
      BY <1>6, BackendSame DEF vars
    <2>2. CheckingMeansSent' /\ VerifiedMeansFollowed' /\ OneSender'
      BY <1>6 DEF vars, VInv, CheckingMeansSent, VerifiedMeansFollowed, OneSender
    <2> QED
      BY <1>1, <1>6, <2>1, <2>2 DEF VInv, vars
  <1> QED
    BY <1>2, <1>3, <1>4, <1>5, <1>6 DEF Next

LEMMA VInvAlways == Spec => []VInv
  BY VInvInit, VInvNext, PTL DEF Spec

(* Every variable of the sign-up keeps its type.                           *)
THEOREM TypeCorrect == Spec => []TypeOK
  <1>1. VInv => TypeOK
    BY DEF VInv
  <1> QED
    BY <1>1, VInvAlways, PTL

(* Whatever is typed while submissions are under way, an address the       *)
(* university check rejects reaches neither Auth nor Firestore             *)
(* (VerificationPage.submitEmail, FirebaseManager.storeVerification).      *)
THEOREM OnlyEligibleEverJoin == Spec => []OnlyEligibleJoin
  <1>1. VInv => OnlyEligibleJoin
    BY DEF VInv, ServerInv, OnlyEligibleJoin
  <1> QED
    BY <1>1, VInvAlways, PTL

(* Any number of devices and repeated submissions send one mail to an      *)
(* address at most (FirebaseManager.createUserAndSendVerification).        *)
THEOREM OneMailEver == Spec => []OneMailPerAddress
  <1>1. VInv => OneMailPerAddress
    BY DEF VInv, ServerInv, OneMailPerAddress
  <1> QED
    BY <1>1, VInvAlways, PTL

(* The page waits for the link only after this device's account, mail and  *)
(* record exist (VerificationPage.submitEmail's completion).               *)
THEOREM CheckingAlwaysMeansSent == Spec => []CheckingMeansSent
  <1>1. VInv => CheckingMeansSent
    BY DEF VInv
  <1> QED
    BY <1>1, VInvAlways, PTL

(* No report of success without a followed link of an account of this      *)
(* device (checkEmailVerificationStatus and its completion).               *)
THEOREM VerifiedAlwaysMeansFollowed == Spec => []VerifiedMeansFollowed
  <1>1. VInv => VerifiedMeansFollowed
    BY DEF VInv
  <1> QED
    BY <1>1, VInvAlways, PTL
=============================================================================
