-------------------------- MODULE VerificationFlow --------------------------
(***************************************************************************)
(* Joining with a university address: VerificationPage (the form),         *)
(* FirebaseManager (create an account, send the mail, store the record)    *)
(* and what they use of Firebase Auth and Firestore.                       *)
(*                                                                         *)
(* A submission is a chain of three asynchronous calls with a completion   *)
(* on the main queue.  While it is under way the form stays active: the    *)
(* field can be edited, the button pressed again, the page left and        *)
(* reopened, the app killed.  Every call can fail, before or after the     *)
(* server has acted on it.                                                 *)
(***************************************************************************)
EXTENDS Integers, FiniteSets

CONSTANTS
  Emails,      \* what users type, other than nothing at all
  WellFormed,  \* those that contain "@"
  Eligible,    \* those that isValidUniversityEmail accepts
  Devices,
  MaxSubmits,  \* bound: submissions per device
  MaxChecks,   \* bound: status checks per device
  None         \* the empty field; nobody signed in; no account

ASSUME EligibleAssumption == Eligible \subseteq WellFormed /\ WellFormed \subseteq Emails
ASSUME EmptyAssumption == None \notin Emails \cup Devices
ASSUME BoundsAssumption == MaxSubmits \in Nat /\ MaxChecks \in Nat

VARIABLES
  email, status, isCheckingStatus,  \* per device: the form's @State
  currentUser,      \* per device: auth.currentUser, kept across launches
  isEmailVerified,  \* per device: the published flag of FirebaseManager
  submits, checks,  \* per device: how often each button was pressed
  subs,             \* submissions under way
  polls,            \* status checks under way
  accounts,         \* Auth: the device that created the account of an address
  mails,            \* Auth: verification mails sent to each address
  verified,         \* Auth: addresses whose link was followed
  records           \* Firestore: addresses with a document in "verifications"

form == <<email, status, isCheckingStatus>>
backend == <<accounts, mails, verified, records>>
vars == <<email, status, isCheckingStatus, currentUser, isEmailVerified, submits,
          checks, subs, polls, accounts, mails, verified, records>>
-----------------------------------------------------------------------------
\* What submissionStatus says.  "sent" names the university; "mailed" is the
\* text "Verification email sent! Please check your inbox.".
Messages == {"", "enter", "invalid", "ineligible", "failed", "mailed", "sent",
             "verified", "unverified"}

\* A submission: who made it, with which address, and which call is next.
\* live is FALSE once the page that made it is gone.
Subs == [dev : Devices, n : 1..MaxSubmits, email : Emails, live : BOOLEAN,
         stage : {"create", "created", "send", "store", "ok", "unstored", "failed"}]

\* A status check: the user captured when the button was pressed.
Polls == [dev : Devices, n : 1..MaxChecks, user : Emails \cup {None},
          live : BOOLEAN, stage : {"reload", "yes", "no"}]

Init ==
  /\ email = [d \in Devices |-> None]
  /\ status = [d \in Devices |-> ""]
  /\ isCheckingStatus = [d \in Devices |-> FALSE]
  /\ currentUser = [d \in Devices |-> None]
  /\ isEmailVerified = [d \in Devices |-> FALSE]
  /\ submits = [d \in Devices |-> 0]
  /\ checks = [d \in Devices |-> 0]
  /\ subs = {} /\ polls = {}
  /\ accounts = [e \in Emails |-> None]
  /\ mails = [e \in Emails |-> 0]
  /\ verified = {} /\ records = {}
-----------------------------------------------------------------------------
(* The form.                                                               *)
Type(d, e) ==
  /\ ~isCheckingStatus[d]
  /\ email' = [email EXCEPT ![d] = e]
  /\ UNCHANGED <<status, isCheckingStatus, currentUser, isEmailVerified, submits,
                 checks, subs, polls, backend>>

\* submitEmail: the three guards, in their order.
Refusal(e) ==
  IF e = None THEN "enter"
  ELSE IF e \notin WellFormed THEN "invalid"
  ELSE "ineligible"

SubmitRefused(d) ==
  /\ ~isCheckingStatus[d]
  /\ email[d] \notin Eligible
  /\ status' = [status EXCEPT ![d] = Refusal(email[d])]
  /\ UNCHANGED <<email, isCheckingStatus, currentUser, isEmailVerified, submits,
                 checks, subs, polls, backend>>

\* Mutant of Submit: the guards do not return.
SubmitUnchecked(d) ==
  /\ ~isCheckingStatus[d]
  /\ submits[d] < MaxSubmits
  /\ submits' = [submits EXCEPT ![d] = @ + 1]
  /\ subs' = subs \cup {[dev |-> d, n |-> submits[d] + 1, email |-> email[d],
                         live |-> TRUE, stage |-> "create"]}
  /\ UNCHANGED <<form, currentUser, isEmailVerified, checks, polls, backend>>

Submit(d) ==
  /\ ~isCheckingStatus[d]
  /\ email[d] \in Eligible
  /\ submits[d] < MaxSubmits
  /\ submits' = [submits EXCEPT ![d] = @ + 1]
  /\ subs' = subs \cup {[dev |-> d, n |-> submits[d] + 1, email |-> email[d],
                         live |-> TRUE, stage |-> "create"]}
  /\ UNCHANGED <<form, currentUser, isEmailVerified, checks, polls, backend>>

ClearForm(d) ==
  /\ email' = [email EXCEPT ![d] = None]
  /\ status' = [status EXCEPT ![d] = ""]
  /\ isCheckingStatus' = [isCheckingStatus EXCEPT ![d] = FALSE]

\* "Verify Different Email": submissions and checks under way still report.
ResetForm(d) ==
  /\ isCheckingStatus[d]
  /\ ClearForm(d)
  /\ UNCHANGED <<currentUser, isEmailVerified, submits, checks, subs, polls, backend>>

\* The page is left and opened again: a new form, the old completions go nowhere.
Reopen(d) ==
  /\ ClearForm(d)
  /\ subs' = {[s EXCEPT !.live = @ /\ s.dev # d] : s \in subs}
  /\ polls' = {[p EXCEPT !.live = @ /\ p.dev # d] : p \in polls}
  /\ UNCHANGED <<currentUser, isEmailVerified, submits, checks, backend>>

\* The app is killed and launched again: Auth still knows its user, and the
\* writes in Firestore's local queue are still sent.
Relaunch(d) ==
  /\ ClearForm(d)
  /\ isEmailVerified' = [isEmailVerified EXCEPT ![d] = FALSE]
  /\ subs' = {[s EXCEPT !.live = @ /\ s.dev # d] :
                s \in {z \in subs : z.dev # d \/ z.stage = "store"}}
  /\ polls' = {p \in polls : p.dev # d}
  /\ UNCHANGED <<currentUser, submits, checks, backend>>
-----------------------------------------------------------------------------
(* createUserAndSendVerification, call by call.                            *)
Move(s, stage) == subs' = (subs \ {s}) \cup {[s EXCEPT !.stage = stage]}

\* Mutant of CreateUser: an address that is in use gets another account.
CreateUserAgain(s) ==
  /\ s.stage = "create"
  /\ accounts' = [accounts EXCEPT ![s.email] = s.dev]
  /\ Move(s, "created")
  /\ UNCHANGED <<form, currentUser, isEmailVerified, submits, checks, polls, mails,
                 verified, records>>

\* The server creates the account; its answer is on the way.
CreateUser(s) ==
  /\ s.stage = "create"
  /\ accounts[s.email] = None
  /\ accounts' = [accounts EXCEPT ![s.email] = s.dev]
  /\ Move(s, "created")
  /\ UNCHANGED <<form, currentUser, isEmailVerified, submits, checks, polls, mails,
                 verified, records>>

\* The answer arrives: the new account is the device's current user.
UserCreated(s) ==
  /\ s.stage = "created"
  /\ currentUser' = [currentUser EXCEPT ![s.dev] = s.email]
  /\ Move(s, "send")
  /\ UNCHANGED <<form, isEmailVerified, submits, checks, polls, backend>>

\* emailAlreadyInUse, or a call that fails before or after the server acted.
CreateFails(s) ==
  /\ s.stage \in {"create", "created"}
  /\ Move(s, "failed")
  /\ UNCHANGED <<form, currentUser, isEmailVerified, submits, checks, polls, backend>>

SendEmailVerification(s) ==
  /\ s.stage = "send"
  /\ mails' = [mails EXCEPT ![s.email] = @ + 1]
  /\ Move(s, "store")
  /\ UNCHANGED <<form, currentUser, isEmailVerified, submits, checks, polls, accounts,
                 verified, records>>

\* The call fails; the mail may have been sent all the same.
SendFails(s) ==
  /\ s.stage = "send"
  /\ mails' \in {mails, [mails EXCEPT ![s.email] = @ + 1]}
  /\ Move(s, "failed")
  /\ UNCHANGED <<form, currentUser, isEmailVerified, submits, checks, polls, accounts,
                 verified, records>>

\* Mutant of StoreVerification: the address is read from the form, late.
StoreFromField(s) ==
  /\ s.stage = "store"
  /\ records' = records \cup {email[s.dev]}
  /\ Move(s, "ok")
  /\ UNCHANGED <<form, currentUser, isEmailVerified, submits, checks, polls, accounts,
                 mails, verified>>

StoreVerification(s) ==
  /\ s.stage = "store"
  /\ records' = records \cup {s.email}
  /\ Move(s, "ok")
  /\ UNCHANGED <<form, currentUser, isEmailVerified, submits, checks, polls, accounts,
                 mails, verified>>

\* A failed store reports failure with the text of a success.
StoreFails(s) ==
  /\ s.stage = "store"
  /\ Move(s, "unstored")
  /\ UNCHANGED <<form, currentUser, isEmailVerified, submits, checks, polls, backend>>

\* The completion on the main queue.
Report(stage) ==
  CASE stage = "ok"       -> "sent"
    [] stage = "unstored" -> "mailed"
    [] stage = "failed"   -> "failed"

\* Mutant of SubmitDone: the page moves on whenever a mail was sent.
SubmitDoneMailed(s) ==
  /\ s.stage \in {"ok", "unstored", "failed"}
  /\ subs' = subs \ {s}
  /\ status' = IF s.live THEN [status EXCEPT ![s.dev] = Report(s.stage)] ELSE status
  /\ isCheckingStatus' = IF s.live /\ s.stage # "failed"
                         THEN [isCheckingStatus EXCEPT ![s.dev] = TRUE]
                         ELSE isCheckingStatus
  /\ UNCHANGED <<email, currentUser, isEmailVerified, submits, checks, polls, backend>>

SubmitDone(s) ==
  /\ s.stage \in {"ok", "unstored", "failed"}
  /\ subs' = subs \ {s}
  /\ status' = IF s.live THEN [status EXCEPT ![s.dev] = Report(s.stage)] ELSE status
  /\ isCheckingStatus' = IF s.live /\ s.stage = "ok"
                         THEN [isCheckingStatus EXCEPT ![s.dev] = TRUE]
                         ELSE isCheckingStatus
  /\ UNCHANGED <<email, currentUser, isEmailVerified, submits, checks, polls, backend>>
-----------------------------------------------------------------------------
(* checkEmailVerificationStatus: reloads the user that is current now; the *)
(* address it is given plays no part.                                      *)
Check(d) ==
  /\ isCheckingStatus[d]
  /\ checks[d] < MaxChecks
  /\ checks' = [checks EXCEPT ![d] = @ + 1]
  /\ polls' = polls \cup {[dev |-> d, n |-> checks[d] + 1, user |-> currentUser[d],
                           live |-> TRUE,
                           stage |-> IF currentUser[d] = None THEN "no" ELSE "reload"]}
  /\ UNCHANGED <<form, currentUser, isEmailVerified, submits, subs, backend>>

Reload(p) ==
  /\ p.stage = "reload"
  /\ isEmailVerified' = [isEmailVerified EXCEPT ![p.dev] = p.user \in verified]
  /\ polls' = (polls \ {p}) \cup
                {[p EXCEPT !.stage = IF p.user \in verified THEN "yes" ELSE "no"]}
  /\ UNCHANGED <<form, currentUser, submits, checks, subs, backend>>

\* Mutant of ReloadFails: the error of the reload is ignored.
ReloadErrorIgnored(p) ==
  /\ p.stage = "reload"
  /\ polls' = (polls \ {p}) \cup {[p EXCEPT !.stage = "yes"]}
  /\ UNCHANGED <<form, currentUser, isEmailVerified, submits, checks, subs, backend>>

ReloadFails(p) ==
  /\ p.stage = "reload"
  /\ polls' = (polls \ {p}) \cup {[p EXCEPT !.stage = "no"]}
  /\ UNCHANGED <<form, currentUser, isEmailVerified, submits, checks, subs, backend>>

CheckDone(p) ==
  /\ p.stage \in {"yes", "no"}
  /\ polls' = polls \ {p}
  /\ status' = IF p.live
               THEN [status EXCEPT ![p.dev] =
                       IF p.stage = "yes" THEN "verified" ELSE "unverified"]
               ELSE status
  /\ UNCHANGED <<email, isCheckingStatus, currentUser, isEmailVerified, submits, checks,
                 subs, backend>>

\* The link in the mail is followed.
FollowLink(e) ==
  /\ mails[e] > 0
  /\ verified' = verified \cup {e}
  /\ UNCHANGED <<form, currentUser, isEmailVerified, submits, checks, subs, polls,
                 accounts, mails, records>>
-----------------------------------------------------------------------------
User(d) ==
  \/ \E e \in Emails \cup {None} : Type(d, e)
  \/ SubmitRefused(d)
  \/ Submit(d)
  \/ ResetForm(d)
  \/ Reopen(d)
  \/ Relaunch(d)
  \/ Check(d)

SubStep(s) ==
  \/ CreateUser(s)
  \/ UserCreated(s)
  \/ CreateFails(s)
  \/ SendEmailVerification(s)
  \/ SendFails(s)
  \/ StoreVerification(s)
  \/ StoreFails(s)
  \/ SubmitDone(s)

PollStep(p) == Reload(p) \/ ReloadFails(p) \/ CheckDone(p)

Next ==
  \/ \E d \in Devices : User(d)
  \/ \E s \in subs : SubStep(s)
  \/ \E p \in polls : PollStep(p)
  \/ \E e \in Emails : FollowLink(e)

Spec == Init /\ [][Next]_vars
-----------------------------------------------------------------------------
(* Every variable has its type.                                            *)
TypeOK ==
  /\ email \in [Devices -> Emails \cup {None}]
  /\ status \in [Devices -> Messages]
  /\ isCheckingStatus \in [Devices -> BOOLEAN]
  /\ currentUser \in [Devices -> Emails \cup {None}]
  /\ isEmailVerified \in [Devices -> BOOLEAN]
  /\ submits \in [Devices -> 0..MaxSubmits]
  /\ checks \in [Devices -> 0..MaxChecks]
  /\ subs \subseteq Subs
  /\ polls \subseteq Polls
  /\ accounts \in [Emails -> Devices \cup {None}]
  /\ mails \in [Emails -> Nat]
  /\ verified \subseteq Emails
  /\ records \subseteq Emails

(* No address that UniversityValidator rejects gets an account, a mail, a  *)
(* record or a verification, although the field can change while a         *)
(* submission is under way (VerificationPage.swift:125-131).               *)
OnlyEligibleJoin ==
  \A e \in Emails :
    accounts[e] # None \/ mails[e] > 0 \/ e \in verified \cup records => e \in Eligible

(* However often the button is pressed, on however many devices, an        *)
(* address gets one verification mail at most (FirebaseManager.swift:45,   *)
(* 79-92: the mail follows a successful createUser).                       *)
OneMailPerAddress == \A e \in Emails : mails[e] <= 1

(* The page asks the user to check the inbox only when this device created *)
(* an account, had the mail sent to it and stored its record, and is       *)
(* signed in to an account of its own: after double submissions, edits and *)
(* late completions too (VerificationPage.swift:132-140).                  *)
CheckingMeansSent ==
  \A d \in Devices : isCheckingStatus[d] =>
    /\ \E e \in Emails : accounts[e] = d /\ mails[e] = 1 /\ e \in records
    /\ \E e \in Emails : accounts[e] = d /\ currentUser[d] = e

(* "Email verified successfully!", and the flag FirebaseManager publishes, *)
(* appear only when the link of an address this device signed up was       *)
(* followed, however old the check that reports it (lines 143-158).        *)
VerifiedMeansFollowed ==
  \A d \in Devices : (status[d] = "verified" \/ isEmailVerified[d]) =>
    \E e \in verified : accounts[e] = d
-----------------------------------------------------------------------------
(* Properties the repository claims and the code does not have.            *)

(* VerificationPage.swift:148-151, "Store the university information" and  *)
(* "Verified email from ...": when the page reports success and the        *)
(* address in the field is one it takes a university from (line 149), that *)
(* address is one that was verified.                                       *)
ShownAddressIsVerified ==
  \A d \in Devices :
    status[d] = "verified" /\ isCheckingStatus[d] /\ email[d] \in Eligible =>
      email[d] \in verified
=============================================================================
