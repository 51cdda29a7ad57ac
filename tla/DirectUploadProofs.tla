------------------------- MODULE DirectUploadProofs -------------------------
(* Proofs about DirectUpload, for any sessions, calls and faults.             *)
(*                                                                            *)
(* That the calls which have not taken a session over make one attachment is  *)
(* not inductive: a call that has passed the lock has yet to create its       *)
(* attachment.  CountInv counts those calls with the attachments.  That an    *)
(* attachment shows the right file needs to know whose files can be replaced: *)
(* AttachedInv says that a session with an attachment is not of S3.           *)
EXTENDS DirectUpload, FiniteSetTheorems, TLAPS

\* Not yet locked.
Fresh == {"absent", "initiated"}

Locked(s) == IF session[s].status \in Fresh THEN 0 ELSE 1

\* The calls past the lock that won it and may create their attachment.
Making(s) == {c \in Calls : /\ call[c].pc \in {"verify", "create"} /\ call[c].s = s
                            /\ ~TookOver(c)}

CountInv == \A s \in Sessions :
  attachments[s] + Cardinality(Making(s)) <= Locked(s) + resumed[s]

\* A row has a provider from the start, and a call works on a row.
RowInv ==
  /\ \A s \in Sessions : session[s].status = "absent" <=> session[s].provider = "none"
  /\ \A c \in Calls : call[c].pc # "idle" => session[call[c].s].provider # "none"

CheckedInv == \A c \in Calls :
  call[c].pc = "create" /\ session[call[c].s].provider \in Accepted
    => file[call[c].s] = "good"

AttachedInv == \A s \in Sessions : attachments[s] > 0 => session[s].provider \in Accepted

Inv == /\ TypeOK /\ CountInv /\ RowInv /\ CheckedInv /\ AttachedInv
       /\ AttachmentsAreVerified

USE FaultsAssumption, CallsAssumption

Rows == [status: Statuses, provider: Providers \cup {"none"}, attachment: Nat]

-----------------------------------------------------------------------------
(* Calls.                                                                     *)

LEMMA WorkingCall ==
  ASSUME TypeOK, NEW c \in Calls, call[c].pc # "idle"
  PROVE  call[c] \in Works
BY DEF TypeOK, Idle

LEMMA GoToCall ==
  ASSUME TypeOK, NEW c \in Calls, call[c].pc # "idle", NEW pc \in Points, GoTo(c, pc)
  PROVE  /\ call' \in [Calls -> {Idle} \cup Works]
         /\ call'[c].pc = pc /\ call'[c].s = call[c].s
         /\ call'[c].made = call[c].made /\ call'[c].read = call[c].read
         /\ \A d \in Calls : d # c => call'[d] = call[d]
BY WorkingCall DEF TypeOK, GoTo, Works

LEMMA AnswerCall ==
  ASSUME TypeOK, NEW c \in Calls, Answer(c)
  PROVE  /\ call' \in [Calls -> {Idle} \cup Works]
         /\ call'[c] = Idle
         /\ \A d \in Calls : d # c => call'[d] = call[d]
BY DEF TypeOK, Answer

\* Marking a session changes its status and nothing else.
LEMMA MarkSession ==
  ASSUME TypeOK, NEW s \in Sessions, NEW status \in Statuses, Mark(s, status)
  PROVE  /\ session' \in [Sessions -> Rows]
         /\ session'[s].status = status
         /\ \A t \in Sessions : /\ session'[t].attachment = session[t].attachment
                                /\ session'[t].provider = session[t].provider
         /\ \A t \in Sessions : t # s => session'[t] = session[t]
BY DEF TypeOK, Mark, Rows

LEMMA MakingFinite == \A s : IsFiniteSet(Making(s)) /\ Cardinality(Making(s)) \in Nat
BY FS_Subset, FS_CardinalityType DEF Making

\* The count does not rise while no call joins those that will create.
LEMMA CountKept ==
  ASSUME Inv, UNCHANGED <<attachments, resumed>>,
         \A s \in Sessions : Making(s)' \subseteq Making(s),
         \A s \in Sessions : session'[s].status \in Fresh => session[s].status \in Fresh
  PROVE  CountInv'
  <1> SUFFICES ASSUME NEW s \in Sessions
               PROVE  attachments[s] + Cardinality(Making(s)') <= Locked(s)' + resumed[s]
    BY DEF CountInv
  <1>1. Cardinality(Making(s)') <= Cardinality(Making(s)) /\ Cardinality(Making(s)') \in Nat
    BY MakingFinite, FS_Subset, FS_CardinalityType
  <1>2. /\ attachments[s] \in Nat /\ resumed[s] \in Nat
        /\ Locked(s) \in Nat /\ Locked(s)' \in Nat /\ Locked(s) <= Locked(s)'
    BY DEF Inv, TypeOK, Locked
  <1>3. attachments[s] + Cardinality(Making(s)) <= Locked(s) + resumed[s]
    BY DEF Inv, CountInv
  <1> HIDE DEF Making, Locked
  <1> QED
    BY <1>1, <1>2, <1>3, MakingFinite

-----------------------------------------------------------------------------
(* Each action preserves the invariant.                                       *)

LEMMA InitInv == Init => Inv
  <1> SUFFICES ASSUME Init PROVE Inv
    OBVIOUS
  <1>1. TypeOK
    BY DEF Init, TypeOK, Statuses, Idle
  <1>2. CountInv
    <2>1. \A s \in Sessions : Making(s) = {}
      BY DEF Init, Making, Idle
    <2> QED
      BY <2>1, FS_EmptySet DEF Init, CountInv, Locked, Fresh
  <1>3. RowInv /\ CheckedInv /\ AttachedInv /\ AttachmentsAreVerified
    BY DEF Init, RowInv, CheckedInv, AttachedInv, AttachmentsAreVerified, Idle
  <1> QED
    BY <1>1, <1>2, <1>3 DEF Inv

\* The provider of a row that is not there yet has no attachment and no call.
LEMMA CreateIntentInv == ASSUME Inv, NEW s \in Sessions, CreateIntent(s) PROVE Inv'
  <1>1. PICK p \in Providers :
          session' = [session EXCEPT ![s] =
                        [status |-> "initiated", provider |-> p, attachment |-> 0]]
    BY DEF CreateIntent
  <1>2. /\ session[s].status = "absent" /\ session[s].provider = "none"
        /\ UNCHANGED <<expired, file, attachments, call, resumed, faults>>
    BY DEF CreateIntent, Inv, RowInv
  <1>3. /\ session' \in [Sessions -> Rows]
        /\ session'[s].status = "initiated" /\ session'[s].provider = p
        /\ session'[s].attachment = 0
        /\ \A t \in Sessions : t # s => session'[t] = session[t]
    BY <1>1 DEF Inv, TypeOK, Rows, Statuses, Open
  <1>4. attachments[s] = 0 /\ \A c \in Calls : call[c].pc # "idle" => call[c].s # s
    BY <1>2 DEF Inv, TypeOK, AttachedInv, RowInv, Accepted
  <1>5. TypeOK'
    BY <1>2, <1>3, <1>4 DEF Inv, TypeOK, Rows
  <1>6. CountInv'
    <2>1. \A t \in Sessions : Making(t)' = Making(t)
      BY <1>2 DEF Making, TookOver
    <2>2. \A t \in Sessions : session'[t].status \in Fresh => session[t].status \in Fresh
      BY <1>2, <1>3 DEF Fresh
    <2> QED
      BY <1>2, <2>1, <2>2, CountKept
  <1>7. RowInv' /\ CheckedInv'
    <2>1. \A c \in Calls : call[c].pc # "idle" => call[c].s \in Sessions
      BY WorkingCall DEF Inv, Works
    <2>2. p # "none"
      BY DEF Providers
    <2>3. \A c \in Calls : call[c].pc = "create" => call[c].pc # "idle"
      OBVIOUS
    <2> QED
      BY <1>2, <1>3, <1>4, <2>1, <2>2, <2>3 DEF Inv, RowInv, CheckedInv
  <1>8. AttachedInv' /\ AttachmentsAreVerified'
    BY <1>2, <1>3, <1>4 DEF Inv, AttachedInv, AttachmentsAreVerified
  <1> QED
    BY <1>5, <1>6, <1>7, <1>8 DEF Inv

\* Only what S3 stores can be replaced, and that has no attachment.
LEMMA PutInv == ASSUME Inv, NEW s \in Sessions, Put(s) PROVE Inv'
  <1>1. /\ UNCHANGED <<session, expired, attachments, call, resumed, faults>>
        /\ file' \in [Sessions -> {"none", "good", "wrong"}]
        /\ \A t \in Sessions : t # s => file'[t] = file[t]
        /\ session[s].provider \in Accepted => file[s] = "none"
    BY DEF Put, Inv, TypeOK, Accepted
  <1>2. TypeOK'
    BY <1>1 DEF Inv, TypeOK
  <1>3. CountInv'
    <2>1. \A t \in Sessions : Making(t)' = Making(t)
      BY <1>1 DEF Making, TookOver
    <2> QED
      BY <1>1, <2>1, CountKept
  <1>4. RowInv' /\ AttachedInv'
    BY <1>1 DEF Inv, RowInv, AttachedInv
  <1>5. CheckedInv'
    <2>1. \A c \in Calls : call[c].pc = "create" => call[c].s \in Sessions
      BY WorkingCall DEF Inv, Works
    <2> QED
      BY <1>1, <2>1 DEF Inv, CheckedInv
  <1>6. AttachmentsAreVerified'
    BY <1>1 DEF Inv, AttachedInv, AttachmentsAreVerified
  <1> QED
    BY <1>2, <1>3, <1>4, <1>5, <1>6 DEF Inv

LEMMA ExpireInv == ASSUME Inv, NEW s \in Sessions, Expire(s) PROVE Inv'
  <1>1. UNCHANGED <<session, file, attachments, call, resumed, faults>>
    BY DEF Expire
  <1>2. TypeOK'
    BY <1>1 DEF Inv, TypeOK, Expire
  <1>3. CountInv'
    <2>1. \A t \in Sessions : Making(t)' = Making(t)
      BY <1>1 DEF Making, TookOver
    <2> QED
      BY <1>1, <2>1, CountKept
  <1> QED
    BY <1>1, <1>2, <1>3
    DEF Inv, RowInv, CheckedInv, AttachedInv, AttachmentsAreVerified

\* A call moves on or answers, and nothing else changes but, perhaps, the status
\* of a session and the count of faults.
LEMMA MoveInv ==
  ASSUME Inv, NEW c \in Calls,
         call' \in [Calls -> {Idle} \cup Works],
         \A d \in Calls : d # c => call'[d] = call[d],
         call'[c].pc # "idle" => session[call'[c].s].provider # "none",
         \A s \in Sessions : Making(s)' \subseteq Making(s),
         call'[c].pc = "create" => file[call'[c].s] = "good",
         call'[c].pc \in {"log", "link"} => call'[c].made <= attachments[call'[c].s],
         session' \in [Sessions -> Rows],
         \A s \in Sessions : /\ session'[s].attachment <= attachments[s]
                             /\ session'[s].provider = session[s].provider,
         \A s \in Sessions : \/ session'[s].status = session[s].status
                             \/ /\ session[s].status # "absent"
                                /\ session'[s].status \notin Fresh,
         faults' \in 0..MaxFaults,
         UNCHANGED <<expired, file, attachments, resumed>>
  PROVE  Inv'
  <1>1. CountInv'
    <2>1. \A s \in Sessions : session'[s].status \in Fresh => session[s].status \in Fresh
      OBVIOUS
    <2> QED
      BY <2>1, CountKept
  <1>2. TypeOK'
    BY DEF Inv, TypeOK, Rows
  <1>3. RowInv' /\ CheckedInv'
    <2>1. \A d \in Calls : call'[d].pc # "idle" => call'[d].s \in Sessions
      BY DEF Works, Idle
    <2>2. \A d \in Calls : d # c /\ call'[d].pc = "create"
                             /\ session[call'[d].s].provider \in Accepted
                             => file[call'[d].s] = "good"
      BY DEF Inv, CheckedInv
    <2>3. RowInv'
      BY <2>1 DEF Inv, RowInv, Fresh
    <2> QED
      BY <2>1, <2>2, <2>3 DEF CheckedInv
  <1>4. AttachedInv' /\ AttachmentsAreVerified'
    BY DEF Inv, AttachedInv, AttachmentsAreVerified
  <1> QED
    BY <1>1, <1>2, <1>3, <1>4 DEF Inv

\* A call starts on a row that is open, without touching it.
LEMMA StartInv == ASSUME Inv, NEW c \in Calls, NEW s \in Sessions, Start(c, s) PROVE Inv'
  <1>1. PICK pc \in {"expire", "reject", "lock"} :
          call' = [call EXCEPT ![c] =
                     [pc |-> pc, s |-> s, read |-> session[s].status, made |-> 0]]
    BY DEF Start
  <1>2. /\ call' \in [Calls -> {Idle} \cup Works]
        /\ call'[c].pc = pc /\ call'[c].s = s
        /\ \A d \in Calls : d # c => call'[d] = call[d]
    <2>1. [pc |-> pc, s |-> s, read |-> session[s].status, made |-> 0] \in Works
      BY DEF Start, Works, Points
    <2> QED
      BY <1>1, <2>1 DEF Inv, TypeOK
  <1>3. UNCHANGED <<session, expired, file, attachments, resumed, faults>>
    BY DEF Start
  <1>4. /\ session' \in [Sessions -> Rows]
        /\ \A t \in Sessions : session'[t].attachment <= attachments[t]
        /\ faults' \in 0..MaxFaults
        /\ session[s].provider # "none"
    BY <1>3 DEF Inv, TypeOK, Rows, RowInv, Start, Open
  <1>5. \A t \in Sessions : Making(t)' \subseteq Making(t)
    BY <1>2 DEF Making, TookOver
  <1> QED
    BY <1>2, <1>3, <1>4, <1>5, MoveInv

\* A call answers, having settled its session or left it alone.
LEMMA AnswerInv ==
  ASSUME Inv, NEW c \in Calls, call[c].pc # "idle", Answer(c),
         session' = session \/ \E status \in Terminal : Mark(call[c].s, status),
         faults' \in 0..MaxFaults,
         UNCHANGED <<expired, file, attachments, resumed>>
  PROVE  Inv'
  <1>1. call[c].s \in Sessions /\ session[call[c].s].status # "absent"
    BY WorkingCall DEF Inv, Works, RowInv
  <1>2. /\ session' \in [Sessions -> Rows]
        /\ \A s \in Sessions : /\ session'[s].attachment = session[s].attachment
                               /\ session'[s].provider = session[s].provider
                               /\ \/ session'[s].status = session[s].status
                                  \/ /\ session[s].status # "absent"
                                     /\ session'[s].status \in Terminal
    <2>1. CASE session' = session
      BY <2>1 DEF Inv, TypeOK, Rows
    <2>2. CASE \E status \in Terminal : Mark(call[c].s, status)
      BY <1>1, <2>2, MarkSession DEF Inv, Statuses
    <2> QED
      BY <2>1, <2>2
  <1>3. \A s \in Sessions : /\ session'[s].attachment <= attachments[s]
                            /\ \/ session'[s].status = session[s].status
                               \/ /\ session[s].status # "absent"
                                  /\ session'[s].status \notin Fresh
    BY <1>2 DEF Inv, TypeOK, Terminal, Fresh
  <1>4. /\ call' \in [Calls -> {Idle} \cup Works]
        /\ call'[c].pc = "idle"
        /\ \A d \in Calls : d # c => call'[d] = call[d]
    BY AnswerCall DEF Inv, Idle
  <1>5. \A t \in Sessions : Making(t)' \subseteq Making(t)
    BY <1>4 DEF Making, TookOver
  <1> QED
    BY <1>2, <1>3, <1>4, <1>5, MoveInv

\* A call that goes on and leaves its session alone.
LEMMA GoToInv ==
  ASSUME Inv, NEW c \in Calls, call[c].pc # "idle", NEW pc \in Points, GoTo(c, pc),
         pc \in {"verify", "create"} => call[c].pc = "verify" \/ TookOver(c),
         pc = "create" => file[call[c].s] = "good",
         pc \in {"log", "link"} => call[c].pc \in {"log", "link"},
         UNCHANGED <<session, expired, file, attachments, resumed, faults>>
  PROVE  Inv'
  <1>1. /\ call' \in [Calls -> {Idle} \cup Works]
        /\ call'[c].pc = pc /\ call'[c].s = call[c].s
        /\ call'[c].made = call[c].made /\ call'[c].read = call[c].read
        /\ \A d \in Calls : d # c => call'[d] = call[d]
    BY GoToCall DEF Inv
  <1>2. /\ session' \in [Sessions -> Rows]
        /\ \A t \in Sessions : session'[t].attachment <= attachments[t]
        /\ faults' \in 0..MaxFaults
        /\ session[call[c].s].provider # "none"
        /\ pc \in {"log", "link"} => call[c].made <= attachments[call[c].s]
    BY DEF Inv, TypeOK, Rows, RowInv
  <1>3. \A t \in Sessions : Making(t)' \subseteq Making(t)
    BY <1>1 DEF Making, TookOver
  <1> QED
    BY <1>1, <1>2, <1>3, MoveInv

\* The one that locks the session is counted from now on, and the session with it.
LEMMA WinInv ==
  ASSUME Inv, NEW c \in Calls, call[c].pc = "lock",
         session[call[c].s].status = "initiated", Mark(call[c].s, "uploaded"),
         GoTo(c, "verify"),
         UNCHANGED <<expired, file, attachments, resumed, faults>>
  PROVE  Inv'
  <1> DEFINE s == call[c].s
  <1>1. s \in Sessions
    BY WorkingCall DEF Inv, Works
  <1>2. /\ call' \in [Calls -> {Idle} \cup Works]
        /\ call'[c].pc = "verify" /\ call'[c].s = s /\ call'[c].read = call[c].read
        /\ \A d \in Calls : d # c => call'[d] = call[d]
    BY GoToCall DEF Inv, Points
  <1>3. /\ session' \in [Sessions -> Rows]
        /\ session'[s].status = "uploaded"
        /\ \A t \in Sessions : /\ session'[t].attachment = session[t].attachment
                               /\ session'[t].provider = session[t].provider
        /\ \A t \in Sessions : t # s => session'[t] = session[t]
    BY <1>1, MarkSession DEF Inv, Statuses, Open
  <1>4. CountInv'
    <2> SUFFICES ASSUME NEW t \in Sessions
                 PROVE  attachments[t] + Cardinality(Making(t)') <= Locked(t)' + resumed[t]
      BY DEF CountInv
    <2>1. attachments[t] \in Nat /\ resumed[t] \in Nat
      BY DEF Inv, TypeOK
    <2>2. attachments[t] + Cardinality(Making(t)) <= Locked(t) + resumed[t]
      BY DEF Inv, CountInv
    <2>3. CASE t = s
      <3>1. Making(t)' \subseteq Making(t) \cup {c} /\ c \notin Making(t)
        BY <1>2, <2>3 DEF Making, TookOver
      <3>2. /\ IsFiniteSet(Making(t) \cup {c})
            /\ Cardinality(Making(t) \cup {c}) = Cardinality(Making(t)) + 1
        BY <3>1, MakingFinite, FS_AddElement
      <3>3. /\ Cardinality(Making(t)') <= Cardinality(Making(t)) + 1
            /\ Cardinality(Making(t)') \in Nat
        BY <3>1, <3>2, FS_Subset, FS_CardinalityType
      <3>4. Locked(t) = 0 /\ Locked(t)' = 1
        BY <1>3, <2>3 DEF Locked, Fresh
      <3> HIDE DEF Making, Locked, s
      <3> QED
        BY <2>1, <2>2, <3>3, <3>4, MakingFinite
    <2>4. CASE t # s
      <3>1. Making(t)' = Making(t) /\ Locked(t)' = Locked(t)
        BY <1>2, <1>3, <2>4 DEF Making, TookOver, Locked
      <3> QED
        BY <2>2, <3>1
    <2> QED
      BY <2>3, <2>4
  <1>5. TypeOK'
    BY <1>2, <1>3 DEF Inv, TypeOK, Rows
  <1>6. RowInv' /\ CheckedInv'
    <2>1. \A d \in Calls : call[d].pc # "idle" => call[d].s \in Sessions
      BY WorkingCall DEF Inv, Works
    <2>2. \A d \in Calls : call'[d].pc = "create" => call[d].pc = "create" /\ call'[d] = call[d]
      BY <1>2
    <2>3. \A d \in Calls : call'[d].pc # "idle" => call[d].pc # "idle" /\ call'[d].s = call[d].s
      BY <1>2
    <2>4. CheckedInv'
      BY <1>3, <2>1, <2>2 DEF Inv, CheckedInv
    <2> QED
      BY <1>1, <1>3, <2>1, <2>3, <2>4 DEF Inv, RowInv
  <1>7. AttachedInv' /\ AttachmentsAreVerified'
    BY <1>3 DEF Inv, AttachedInv, AttachmentsAreVerified
  <1> QED
    BY <1>4, <1>5, <1>6, <1>7 DEF Inv

\* The three ways out of the lock.
LEMMA LockStepInv == ASSUME Inv, NEW c \in Calls, Lock(c) PROVE Inv'
  <1>1. /\ call[c].pc = "lock" /\ {"verify", "reread"} \subseteq Points
        /\ UNCHANGED <<expired, file, attachments, resumed, faults>>
    BY DEF Lock, Points
  <1>2. CASE GoTo(c, "reread") /\ UNCHANGED session
    BY <1>1, <1>2, GoToInv
  <1>3. CASE TookOver(c) /\ GoTo(c, "verify") /\ UNCHANGED session
    BY <1>1, <1>3, GoToInv
  <1>4. CASE session[call[c].s].status = "initiated" /\ Mark(call[c].s, "uploaded")
             /\ GoTo(c, "verify")
    BY <1>1, <1>4, WinInv
  <1> QED
    BY <1>2, <1>3, <1>4 DEF Lock, TookOver

LEMMA VerifyInv == ASSUME Inv, NEW c \in Calls, Verify(c) PROVE Inv'
  <1>1. /\ call[c].pc = "verify" /\ {"create", "reject"} \subseteq Points
        /\ UNCHANGED <<session, expired, file, attachments, resumed, faults>>
    BY DEF Verify, Points
  <1>2. CASE file[call[c].s] = "good" /\ GoTo(c, "create")
    BY <1>1, <1>2, GoToInv
  <1>3. CASE GoTo(c, "reject")
    BY <1>1, <1>3, GoToInv
  <1> QED
    BY <1>2, <1>3 DEF Verify

\* A call stores its attachment and will link it: a winner is counted no longer, a
\* call that took over is counted by `resumed`.
LEMMA CreateInv == ASSUME Inv, NEW c \in Calls, Create(c) PROVE Inv'
  <1> DEFINE s == call[c].s
  <1>1. /\ call[c].pc = "create" /\ s \in Sessions /\ call[c] \in Works
        /\ session[s].provider \in Accepted
    BY WorkingCall DEF Inv, Create, Works
  <1>2. /\ attachments' \in [Sessions -> Nat]
        /\ attachments'[s] = attachments[s] + 1 /\ attachments[s] \in Nat
        /\ \A t \in Sessions : t # s => attachments'[t] = attachments[t]
    BY <1>1 DEF Inv, TypeOK, Create
  <1>3. /\ resumed' \in [Sessions -> Nat]
        /\ resumed'[s] = IF TookOver(c) THEN resumed[s] + 1 ELSE resumed[s]
        /\ \A t \in Sessions : t # s => resumed'[t] = resumed[t]
    BY <1>1 DEF Inv, TypeOK, Create
  <1>4. /\ call' \in [Calls -> {Idle} \cup Works]
        /\ call'[c].pc = "log" /\ call'[c].s = s /\ call'[c].made = attachments'[s]
        /\ \A d \in Calls : d # c => call'[d] = call[d]
    <2>1. call' = [call EXCEPT ![c].pc = "log", ![c].made = attachments[s] + 1]
      BY DEF Create
    <2>2. [call[c] EXCEPT !.pc = "log", !.made = attachments[s] + 1] \in Works
      BY <1>1, <1>2 DEF Works, Points
    <2> QED
      BY <1>1, <1>2, <2>1, <2>2 DEF Inv, TypeOK, Works
  <1>5. UNCHANGED <<session, expired, file, faults>>
    BY DEF Create
  <1>6. CountInv'
    <2> SUFFICES ASSUME NEW t \in Sessions
                 PROVE  attachments'[t] + Cardinality(Making(t)') <= Locked(t) + resumed'[t]
      BY <1>5 DEF CountInv, Locked
    <2>1. attachments[t] \in Nat /\ resumed[t] \in Nat /\ Locked(t) \in Nat
      BY DEF Inv, TypeOK, Locked
    <2>2. attachments[t] + Cardinality(Making(t)) <= Locked(t) + resumed[t]
      BY DEF Inv, CountInv
    <2>3. CASE t = s /\ ~TookOver(c)
      <3>1. Making(t)' = Making(t) \ {c} /\ c \in Making(t)
        BY <1>1, <1>4, <2>3 DEF Making, TookOver
      <3>2. Cardinality(Making(t)') = Cardinality(Making(t)) - 1
        BY <3>1, MakingFinite, FS_RemoveElement
      <3> HIDE DEF Making, Locked, s
      <3> QED
        BY <1>2, <1>3, <2>1, <2>2, <2>3, <3>2, MakingFinite
    <2>4. CASE t = s /\ TookOver(c)
      <3>1. Making(t)' = Making(t)
        BY <1>1, <1>4, <2>4 DEF Making, TookOver
      <3> HIDE DEF Making, Locked, s
      <3> QED
        BY <1>2, <1>3, <2>1, <2>2, <2>4, <3>1, MakingFinite
    <2>5. CASE t # s
      <3>1. Making(t)' = Making(t)
        BY <1>1, <1>4, <2>5 DEF Making, TookOver
      <3> QED
        BY <1>2, <1>3, <2>2, <2>5, <3>1
    <2> QED
      BY <2>3, <2>4, <2>5
  <1>7. \A t \in Sessions : attachments[t] <= attachments'[t]
    BY <1>2 DEF Inv, TypeOK
  <1>8. TypeOK'
    <2>1. \A t \in Sessions : session'[t].attachment <= attachments'[t]
      <3> SUFFICES ASSUME NEW t \in Sessions PROVE session[t].attachment <= attachments'[t]
        BY <1>5
      <3>1. session[t].attachment \in Nat /\ session[t].attachment <= attachments[t]
            /\ attachments[t] \in Nat /\ attachments'[t] \in Nat
        BY <1>2 DEF Inv, TypeOK
      <3> QED
        BY <1>7, <3>1
    <2>2. ASSUME NEW d \in Calls, call'[d].pc \in {"log", "link"}
          PROVE  call'[d].made <= attachments'[call'[d].s]
      <3>1. CASE d = c
        BY <1>2, <1>4, <3>1
      <3>2. CASE d # c
        <4>1. call[d] \in Works /\ call'[d] = call[d]
          BY <1>4, <2>2, <3>2, WorkingCall DEF Inv
        <4>2. /\ call[d].s \in Sessions /\ call[d].made \in Nat
              /\ call[d].made <= attachments[call[d].s]
          BY <2>2, <4>1 DEF Inv, TypeOK, Works
        <4>3. attachments[call[d].s] \in Nat /\ attachments'[call[d].s] \in Nat
          BY <1>2, <4>2 DEF Inv, TypeOK
        <4> QED
          BY <1>7, <4>1, <4>2, <4>3
      <3> QED
        BY <3>1, <3>2
    <2> QED
      BY <1>2, <1>3, <1>4, <1>5, <2>1, <2>2 DEF Inv, TypeOK
  <1>9. RowInv' /\ CheckedInv'
    <2>1. \A d \in Calls : call'[d].pc = "create" => call[d].pc = "create" /\ call'[d] = call[d]
      BY <1>4
    <2>2. \A d \in Calls : call'[d].pc # "idle" => call[d].pc # "idle" /\ call'[d].s = call[d].s
      BY <1>1, <1>4
    <2> QED
      BY <1>5, <2>1, <2>2 DEF Inv, RowInv, CheckedInv
  <1>10. AttachedInv' /\ AttachmentsAreVerified'
    BY <1>1, <1>2, <1>5 DEF Inv, CheckedInv, AttachedInv, AttachmentsAreVerified
  <1> QED
    BY <1>6, <1>8, <1>9, <1>10 DEF Inv

LEMMA LogInv == ASSUME Inv, NEW c \in Calls, Log(c) PROVE Inv'
BY GoToInv DEF Log, Points

LEMMA LinkInv == ASSUME Inv, NEW c \in Calls, Link(c) PROVE Inv'
  <1> DEFINE s == call[c].s
  <1>1. /\ call[c].pc = "link" /\ s \in Sessions
        /\ call[c].made \in Nat /\ call[c].made <= attachments[s]
        /\ session[s].status # "absent"
    BY WorkingCall DEF Inv, TypeOK, Link, Works, RowInv
  <1>2. /\ call' \in [Calls -> {Idle} \cup Works]
        /\ call'[c].pc = "idle"
        /\ \A d \in Calls : d # c => call'[d] = call[d]
    BY AnswerCall DEF Inv, Link, Idle
  <1>3. session' = [session EXCEPT ![s] = [@ EXCEPT !.status = "verified",
                                                    !.attachment = call[c].made]]
    BY DEF Link
  <1>4. /\ session' \in [Sessions -> Rows]
        /\ session'[s].status = "verified" /\ session'[s].attachment = call[c].made
        /\ session'[s].provider = session[s].provider
        /\ \A t \in Sessions : t # s => session'[t] = session[t]
    BY <1>1, <1>3 DEF Inv, TypeOK, Rows, Statuses, Terminal
  <1>5. \A t \in Sessions : /\ session'[t].attachment <= attachments[t]
                            /\ session'[t].provider = session[t].provider
                            /\ \/ session'[t].status = session[t].status
                               \/ /\ session[t].status # "absent"
                                  /\ session'[t].status \notin Fresh
    BY <1>1, <1>4 DEF Inv, TypeOK, Fresh
  <1>6. UNCHANGED <<expired, file, attachments, resumed, faults>> /\ faults' \in 0..MaxFaults
    BY DEF Inv, TypeOK, Link
  <1>7. \A t \in Sessions : Making(t)' \subseteq Making(t)
    BY <1>2 DEF Making, TookOver
  <1> QED
    BY <1>2, <1>4, <1>5, <1>6, <1>7, MoveInv

LEMMA NextInv == ASSUME Inv, [Next]_vars PROVE Inv'
  <1>1. ASSUME NEW s \in Sessions, CreateIntent(s) \/ Put(s) \/ Expire(s) PROVE Inv'
    BY <1>1, CreateIntentInv, PutInv, ExpireInv
  <1>2. ASSUME NEW c \in Calls, NEW s \in Sessions, Start(c, s) PROVE Inv'
    BY <1>2, StartInv
  <1>3. ASSUME NEW c \in Calls, GiveUp(c) PROVE Inv'
    BY <1>3, AnswerInv DEF GiveUp, Inv, TypeOK, Terminal
  <1>4. ASSUME NEW c \in Calls, Reread(c) \/ VerifyThrows(c) \/ Refuse(c) \/ Fail(c)
        PROVE  Inv'
    <2>1. faults' \in 0..MaxFaults
      BY <1>4 DEF Reread, VerifyThrows, Refuse, Fail, Inv, TypeOK
    <2> QED
      BY <1>4, <2>1, AnswerInv DEF Reread, VerifyThrows, Refuse, Fail
  <1>5. ASSUME NEW c \in Calls, Lock(c) \/ Verify(c) \/ Create(c) \/ Log(c) \/ Link(c)
        PROVE  Inv'
    BY <1>5, LockStepInv, VerifyInv, CreateInv, LogInv, LinkInv
  <1>6. CASE UNCHANGED vars
    BY <1>6 DEF vars, Inv, TypeOK, CountInv, RowInv, CheckedInv, AttachedInv,
                AttachmentsAreVerified, Making, TookOver, Locked
  <1> QED
    BY <1>1, <1>2, <1>3, <1>4, <1>5, <1>6 DEF Next, Step

-----------------------------------------------------------------------------
(* The theorems.                                                              *)

\* The inductive invariant.
THEOREM UploadInvariance == Spec => []Inv
  <1>1. Init => Inv
    BY InitInv
  <1>2. Inv /\ [Next]_vars => Inv'
    BY NextInv
  <1> QED
    BY <1>1, <1>2, PTL DEF Spec

\* Rows and calls keep their types, and what a session links to was created
\* (Attachment.create comes before the last save).
THEOREM UploadTypeCorrect == Spec => []TypeOK
BY UploadInvariance, PTL DEF Inv

\* A session gets at most one attachment more than the calls that took it over have
\* made of it (finalizeIntent locks with a conditional update).
THEOREM OneAttachmentUnlessTakenOver == Spec => []OneUnlessTakenOver
  <1>1. Inv => OneUnlessTakenOver
    <2> SUFFICES ASSUME Inv, NEW s \in Sessions PROVE attachments[s] <= 1 + resumed[s]
      BY DEF OneUnlessTakenOver
    <2>1. attachments[s] \in Nat /\ resumed[s] \in Nat /\ Locked(s) \in 0..1
      BY DEF Inv, TypeOK, Locked
    <2>2. attachments[s] + Cardinality(Making(s)) <= Locked(s) + resumed[s]
      BY DEF Inv, CountInv
    <2> HIDE DEF Making, Locked
    <2> QED
      BY <2>1, <2>2, MakingFinite
  <1> QED
    BY <1>1, UploadInvariance, PTL

\* An attachment shows the announced file (every call checks it anew).
THEOREM AttachmentsWereVerified == Spec => []AttachmentsAreVerified
BY UploadInvariance, PTL DEF Inv

\* No call opens a settled session again (the lock matches initiated rows only).
THEOREM SettledForGood == Spec => SettledStaysSettled
  <1> DEFINE Stays == \A s \in Sessions :
               session[s].status \in Terminal => session'[s].status \in Terminal
  <1>1. ASSUME Inv, Next PROVE Stays
    <2> SUFFICES ASSUME NEW s \in Sessions, session[s].status \in Terminal
                 PROVE  session'[s].status \in Terminal
      OBVIOUS
    <2>1. session \in [Sessions -> Rows]
      BY <1>1 DEF Inv, TypeOK, Rows
    <2>2. ASSUME NEW t \in Sessions, CreateIntent(t) \/ Put(t) \/ Expire(t)
          PROVE  session'[s].status \in Terminal
      BY <2>1, <2>2 DEF CreateIntent, Put, Expire, Terminal
    <2>3. ASSUME NEW c \in Calls, NEW t \in Sessions, Start(c, t)
          PROVE  session'[s].status \in Terminal
      BY <2>3 DEF Start
    <2>4. ASSUME NEW c \in Calls, GiveUp(c) PROVE session'[s].status \in Terminal
      BY <2>1, <2>4 DEF GiveUp, Mark, Rows, Terminal
    <2>5. ASSUME NEW c \in Calls, Lock(c) PROVE session'[s].status \in Terminal
      BY <2>1, <2>5 DEF Lock, Mark, Rows, Terminal
    <2>6. ASSUME NEW c \in Calls, Link(c) PROVE session'[s].status \in Terminal
      BY <2>1, <2>6 DEF Link, Rows, Terminal
    <2>7. ASSUME NEW c \in Calls,
                 \/ Reread(c) \/ Verify(c) \/ VerifyThrows(c) \/ Create(c) \/ Refuse(c)
                 \/ Log(c) \/ Fail(c)
          PROVE  session'[s].status \in Terminal
      BY <2>7 DEF Reread, Verify, VerifyThrows, Create, Refuse, Log, Fail
    <2> QED
      BY <1>1, <2>2, <2>3, <2>4, <2>5, <2>6, <2>7 DEF Next, Step
  <1>2. Inv /\ [Next]_vars => [Stays]_vars
    BY <1>1
  <1> QED
    BY <1>2, UploadInvariance, PTL DEF Spec, SettledStaysSettled
=============================================================================
