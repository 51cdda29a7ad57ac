---------------------------- MODULE DirectUpload ----------------------------
(* Direct uploads: the server opens a session (a CaseFile row), the client    *)
(* puts its file into the firm's own storage, and asks the server to finalize *)
(* the session, which checks the file and creates the docket's attachment.    *)
(*                                                                            *)
(* finalizeIntent reads the session, locks it with a conditional update, asks *)
(* the provider about the file, creates the attachment and saves the session, *)
(* each behind an await: two calls for one session interleave, and a call can *)
(* stop anywhere.  A call that reads a session somebody has locked takes the  *)
(* work over, because the one who locked it may be gone.                      *)
(*                                                                            *)
(* Three kinds of storage serve a session; the attachment's schema knows one  *)
(* of them, so a call for another gets as far as Attachment.create and throws.*)
EXTENDS Naturals, FiniteSets

CONSTANTS
  Sessions,   \* upload sessions
  Calls,      \* requests to finalize being served; a client may send another
  MaxFaults   \* bound on calls that stop before their end

ASSUME FaultsAssumption == MaxFaults \in Nat
ASSUME CallsAssumption  == IsFiniteSet(Calls)

VARIABLES
  session,      \* the CaseFile rows: status, provider, the attachment linked to it
  expired,      \* whether expiresAt has passed
  file,         \* what the client has put into the storage
  attachments,  \* how many attachments were created for a session
  call,         \* where each call is, the status it read, the attachment it made
  resumed,      \* how many of them by calls that took the session over; no code keeps it
  faults

vars == <<session, expired, file, attachments, call, resumed, faults>>

Terminal == {"verified", "failed", "abandoned"}
Open     == {"initiated", "uploaded"}
Statuses == {"absent"} \cup Open \cup Terminal
Points   == {"expire", "reject", "lock", "reread", "verify", "create", "log", "link"}

\* The names the providers give themselves, and those Attachment's schema takes.
Providers == {"google-drive", "docketra_managed", "s3"}
Accepted  == {"google-drive"}

Idle  == [pc |-> "idle"]
Works == [pc: Points, s: Sessions, read: Open, made: Nat]

Init ==
  /\ session = [s \in Sessions |->
                  [status |-> "absent", provider |-> "none", attachment |-> 0]]
  /\ expired = [s \in Sessions |-> FALSE]
  /\ file = [s \in Sessions |-> "none"]
  /\ attachments = [s \in Sessions |-> 0]
  /\ call = [c \in Calls |-> Idle]
  /\ resumed = [s \in Sessions |-> 0]
  /\ faults = 0

\* Call c goes on at pc.
GoTo(c, pc) == call' = [call EXCEPT ![c].pc = pc]

\* Call c has answered; its client may call again.
Answer(c) == call' = [call EXCEPT ![c] = Idle]

\* markUploadSessionStatus saves the fields it sets, whatever the row holds now.
Mark(s, status) == session' = [session EXCEPT ![s].status = status]

-----------------------------------------------------------------------------
\* createIntent, with the provider the firm has connected or the managed one.
CreateIntent(s) ==
  /\ session[s].status = "absent"
  /\ \E p \in Providers :
       session' = [session EXCEPT ![s] =
                     [status |-> "initiated", provider |-> p, attachment |-> 0]]
  /\ UNCHANGED <<expired, file, attachments, call, resumed, faults>>

\* The client sends its file, or another than the one it announced: once to a
\* resumable session of Google's, any number of times to a presigned URL of S3,
\* which ends before the upload session does.
Put(s) ==
  /\ session[s].status # "absent"
  /\ IF session[s].provider = "s3" THEN ~expired[s] ELSE file[s] = "none"
  /\ file' \in {[file EXCEPT ![s] = content] : content \in {"good", "wrong"}}
  /\ UNCHANGED <<session, expired, attachments, call, resumed, faults>>

Expire(s) ==
  /\ session[s].status # "absent" /\ ~expired[s]
  /\ expired' = [expired EXCEPT ![s] = TRUE]
  /\ UNCHANGED <<session, file, attachments, call, resumed, faults>>

-----------------------------------------------------------------------------
(* finalizeIntent.                                                            *)

\* Mutant: only a session nobody has locked is taken on.
StartIfInitiated(c, s) ==
  /\ call[c].pc = "idle" /\ session[s].status = "initiated"
  /\ \E pc \in IF expired[s] THEN {"expire"} ELSE {"reject", "lock"} :
       call' = [call EXCEPT ![c] =
                  [pc |-> pc, s |-> s, read |-> "initiated", made |-> 0]]
  /\ UNCHANGED <<session, expired, file, attachments, resumed, faults>>

\* The first read.  A terminal session is answered without a change; the
\* client's checksum may differ from the announced one.
Start(c, s) ==
  /\ call[c].pc = "idle" /\ session[s].status \in Open
  /\ \E pc \in IF expired[s] THEN {"expire"} ELSE {"reject", "lock"} :
       call' = [call EXCEPT ![c] =
                  [pc |-> pc, s |-> s, read |-> session[s].status, made |-> 0]]
  /\ UNCHANGED <<session, expired, file, attachments, resumed, faults>>

\* The session is given up: expired, announced with another checksum, or found
\* with another file.
GiveUp(c) ==
  /\ call[c].pc \in {"expire", "reject"}
  /\ Mark(call[c].s, IF call[c].pc = "expire" THEN "abandoned" ELSE "failed")
  /\ Answer(c)
  /\ UNCHANGED <<expired, file, attachments, resumed, faults>>

\* Mutant: the update names the row and not its status.
LockUnconditional(c) ==
  LET s == call[c].s IN
  /\ call[c].pc = "lock"
  /\ Mark(s, "uploaded") /\ GoTo(c, "verify")
  /\ UNCHANGED <<expired, file, attachments, resumed, faults>>

\* findOneAndUpdate on an initiated row; a call that missed it goes on only
\* when it had read the session locked.
Lock(c) ==
  LET s == call[c].s IN
  /\ call[c].pc = "lock"
  /\ UNCHANGED <<expired, file, attachments, resumed, faults>>
  /\ \/ /\ session[s].status = "initiated"
        /\ Mark(s, "uploaded") /\ GoTo(c, "verify")
     \/ /\ session[s].status # "initiated" /\ call[c].read = "uploaded"
        /\ GoTo(c, "verify")
        /\ UNCHANGED session
     \/ /\ session[s].status # "initiated" /\ call[c].read # "uploaded"
        /\ GoTo(c, "reread")
        /\ UNCHANGED session

\* The loser answers the attachment linked meanwhile, or a conflict.
Reread(c) ==
  /\ call[c].pc = "reread"
  /\ Answer(c)
  /\ UNCHANGED <<session, expired, file, attachments, resumed, faults>>

\* Mutant: a call that takes a session over trusts the first one's check.
VerifyUnlessResumed(c) ==
  LET s == call[c].s IN
  /\ call[c].pc = "verify"
  /\ GoTo(c, IF file[s] = "good" \/ call[c].read = "uploaded" THEN "create" ELSE "reject")
  /\ UNCHANGED <<session, expired, file, attachments, resumed, faults>>

\* verifyUploadedObject: size, type and checksum of what the storage holds.  S3's
\* provider answers an error of its own as if the object were wrong.
Verify(c) ==
  LET s == call[c].s IN
  /\ call[c].pc = "verify"
  /\ \/ file[s] = "good" /\ GoTo(c, "create")
     \/ (file[s] # "good" \/ session[s].provider = "s3") /\ GoTo(c, "reject")
  /\ UNCHANGED <<session, expired, file, attachments, resumed, faults>>

\* Google's files.get of a file that is not there throws.
VerifyThrows(c) ==
  LET s == call[c].s IN
  /\ call[c].pc = "verify"
  /\ file[s] = "none" /\ session[s].provider # "s3"
  /\ Answer(c)
  /\ UNCHANGED <<session, expired, file, attachments, resumed, faults>>

\* c has taken over the session it works on.
TookOver(c) == call[c].read = "uploaded"

\* Mutant: the call goes on before the attachment is stored.
CreateLater(c) ==
  /\ call[c].pc = "create" /\ session[call[c].s].provider \in Accepted
  /\ call' = [call EXCEPT ![c].pc = "log", ![c].made = attachments[call[c].s] + 1]
  /\ UNCHANGED <<session, expired, file, attachments, resumed, faults>>

\* Attachment.create; `made` is the attachment this call will link.
Create(c) ==
  LET s == call[c].s IN
  /\ call[c].pc = "create" /\ session[s].provider \in Accepted
  /\ attachments' = [attachments EXCEPT ![s] = @ + 1]
  /\ resumed' = IF TookOver(c) THEN [resumed EXCEPT ![s] = @ + 1] ELSE resumed
  /\ call' = [call EXCEPT ![c].pc = "log", ![c].made = attachments[s] + 1]
  /\ UNCHANGED <<session, expired, file, faults>>

\* The schema refuses the provider's name: the call throws, the session stays
\* as it is.
Refuse(c) ==
  /\ call[c].pc = "create" /\ session[call[c].s].provider \notin Accepted
  /\ Answer(c)
  /\ UNCHANGED <<session, expired, file, attachments, resumed, faults>>

\* logCaseHistory never fails its caller.
Log(c) ==
  /\ call[c].pc = "log"
  /\ GoTo(c, "link")
  /\ UNCHANGED <<session, expired, file, attachments, resumed, faults>>

\* The last save: verified, with this call's attachment.
Link(c) ==
  /\ call[c].pc = "link"
  /\ session' = [session EXCEPT ![call[c].s] =
                   [@ EXCEPT !.status = "verified", !.attachment = call[c].made]]
  /\ Answer(c)
  /\ UNCHANGED <<expired, file, attachments, resumed, faults>>

\* The process stops, or the next database or provider call fails.
Fail(c) ==
  /\ call[c].pc # "idle" /\ faults < MaxFaults
  /\ Answer(c)
  /\ faults' = faults + 1
  /\ UNCHANGED <<session, expired, file, attachments, resumed>>

Step(c) == \/ GiveUp(c) \/ Lock(c) \/ Reread(c) \/ Verify(c) \/ VerifyThrows(c)
           \/ Create(c) \/ Refuse(c) \/ Log(c) \/ Link(c)

Next ==
  \/ \E s \in Sessions : CreateIntent(s) \/ Put(s) \/ Expire(s)
  \/ \E c \in Calls, s \in Sessions : Start(c, s)
  \/ \E c \in Calls : Step(c) \/ Fail(c)

Spec == Init /\ [][Next]_vars

-----------------------------------------------------------------------------
(* Properties.                                                                *)

\* Every row is one the schema allows; a session is linked, or about to be, to an
\* attachment that was created.
TypeOK ==
  /\ session \in [Sessions -> [status: Statuses, provider: Providers \cup {"none"},
                              attachment: Nat]]
  /\ expired \in [Sessions -> BOOLEAN]
  /\ file \in [Sessions -> {"none", "good", "wrong"}]
  /\ attachments \in [Sessions -> Nat]
  /\ call \in [Calls -> {Idle} \cup Works]
  /\ resumed \in [Sessions -> Nat]
  /\ faults \in 0..MaxFaults
  /\ \A s \in Sessions : session[s].attachment <= attachments[s]
  /\ \A c \in Calls : call[c].pc \in {"log", "link"} =>
                       call[c].made <= attachments[call[c].s]

\* Of all the calls for a session that have not taken it over, one at most makes
\* an attachment (the update locks an initiated session only); a second one is
\* made only by a call that read the session locked, which `uploaded` lets pass.
OneUnlessTakenOver == \A s \in Sessions : attachments[s] <= 1 + resumed[s]

\* No attachment of a session shows a file that is not the announced one, whoever
\* took over from whom: each call checks anew.  That a file cannot be replaced
\* after the check rests on the schema, which refuses the sessions of S3.
AttachmentsAreVerified == \A s \in Sessions : attachments[s] > 0 => file[s] = "good"

\* A session that was settled is never open again: no later call works on it anew.
SettledStaysSettled ==
  [][\A s \in Sessions : session[s].status \in Terminal
                           => session'[s].status \in Terminal]_vars

\* Once a call has linked an attachment, a repeated finalize answers the same one.
SameAttachment ==
  [][\A s \in Sessions : session[s].attachment > 0
                           => session'[s].attachment = session[s].attachment]_vars

\* What a call needs to settle a session, as soon as it gets through.
CanSettle(s) == expired[s] \/ (session[s].provider \in Accepted /\ file[s] # "none")

\* A session that a client keeps asking to finalize is settled, though the call
\* that locked it may have died: at once if Google's storage holds the file, and
\* otherwise when the session has expired, which is all that ends a session whose
\* provider the schema refuses.
SessionSettles ==
  \A s \in Sessions :
    (session[s].status \in Open /\ CanSettle(s)) ~> session[s].status \in Terminal

\* Calls are served to their end or stopped, and the client repeats its request;
\* nothing is asked of the clock.
Fairness ==
  /\ \A c \in Calls : WF_vars(Step(c))
  /\ \A s \in Sessions : WF_vars(\E c \in Calls : Start(c, s))

FairSpec == Spec /\ Fairness
=============================================================================
