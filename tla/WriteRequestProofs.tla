------------------------- MODULE WriteRequestProofs -------------------------
(* Proofs about WriteRequest, for any number of requests, retries and mishaps.*)
(*                                                                            *)
(* At most one execution per key, plus those released, is not inductive: what *)
(* is counted must also cover the requests that may still succeed, and those  *)
(* whose end may yet delete a key that is by now another's.  CountInv counts  *)
(* them all, a committed request whose answer was lost twice, against the     *)
(* releases and the key itself.                                               *)
EXTENDS WriteRequest, FiniteSetTheorems, SequenceTheorems, TLAPS

\* A request that has taken effect, that still may, and that may end the key.
Wins(q)    == q.tx \in {"committed", "plainDone"}
Live(q)    == q.phase \in {"accepted", "running", "commit"} /\ q.status # "error"
Counted(q) == Wins(q) \/ Live(q) \/ q.hook = "armed"
Lost(q)    == Wins(q) /\ q.status = "error" /\ q.hook = "armed"

\* How far a request can be, by its phase.
PhaseOK(q) ==
  /\ q.phase \in {"new", "asking"} => q.hook = "none" /\ q.flush = "none"
  /\ q.phase \in {"new", "asking", "accepted"} => q.tx = "none" /\ q.status = "none"
  /\ q.phase = "running" => q.tx \in {"open", "plain"}
  /\ q.phase = "commit" => q.tx = "open" /\ q.status = "ok"
  /\ q.phase = "ended" => q.tx # "none" /\ q.status # "none"
  /\ q.phase = "dead" => q.hook = "none" /\ q.flush = "none"
  /\ q.tx = "none" => ~q.sent
  /\ q.tx = "none" /\ q.phase = "done" => q.hook = "none" /\ q.flush = "none"
  /\ q.tx = "open" => q.phase \in {"running", "commit"}
  /\ q.sent => q.status # "none"
  /\ q.status = "error" =>
       q.phase \in {"ended", "done", "dead"} \/ (q.phase = "running" /\ q.step = "answered")

\* Handlers that return their result leave the answer to the end.
ReturnsOK(q) ==
  /\ q.sent => q.phase \in {"done", "dead"}
  /\ q.phase \in {"ended", "done"} /\ q.status = "ok" => Wins(q)
  /\ q.step # "answered"

Accounted(e) == e.recorded = e.pending + Len(e.queue) + e.ran + e.gaveUp

\* Effects are queued when the transaction is over, and none gets lost.
EffectsOK(q, e) ==
  /\ q.tx = "none" => e.pending = 0
  /\ q.tx \in {"none", "open"} => e.queue = <<>> /\ e.ran = 0
  /\ q.flush = "now" => q.hook = "closedEarly" \/ q.tx \in {"plain", "plainDone", "plainFailed"}
  /\ q.tx \in {"none", "open", "committed"} /\ q.phase # "dead" /\ q.hook # "closedEarly" =>
       Accounted(e)

Sound(how, q, e) ==
  PhaseOK(q) /\ (how = "returns" => ReturnsOK(q)) /\ EffectsOK(q, e)

LocalInv == \A r \in Attempts : Sound(style, req[r], effects[r])

KeyCount == IF key = "none" THEN 0 ELSE 1

AllCounted == {r \in Attempts : Counted(req[r])}
AllLost    == {r \in Attempts : Lost(req[r])}

CountInv == Cardinality(AllCounted) + Cardinality(AllLost) <= released + KeyCount

EarnedInv ==
  style = "returns" /\ (key = "ok" \/ \E r \in Attempts : req[r].told = "ok") =>
    \E r \in Attempts : Wins(req[r])

Inv == /\ TypeOK /\ released <= mishaps
       /\ LocalInv /\ CountInv /\ EarnedInv

-----------------------------------------------------------------------------
(* The effects of a request.                                                  *)

LEMMA Tails ==
  ASSUME NEW S, NEW s \in Seq(S), s # <<>>
  PROVE  /\ Tail(s) \in Seq(S) /\ Head(s) \in S
         /\ \E len \in Nat : Len(s) = len + 1 /\ Len(Tail(s)) = len
  <1>1. Tail(s) \in Seq(S) /\ Head(s) \in S /\ Len(Tail(s)) = Len(s) - 1
    BY HeadTailProperties
  <1>2. Len(s) \in Nat /\ Len(Tail(s)) \in Nat /\ Len(s) # 0
    BY <1>1, EmptySeq, LenProperties
  <1>3. PICK n \in Nat : n = Len(s)
    BY <1>2
  <1>4. PICK m \in Nat : m = Len(Tail(s))
    BY <1>2
  <1>5. m = n - 1
    BY <1>1, <1>3, <1>4
  <1>6. n = m + 1
    BY <1>5
  <1> QED
    BY <1>1, <1>3, <1>4, <1>6

LEMMA RecordEffect ==
  ASSUME NEW e \in Effects, NEW g, g = [e EXCEPT !.recorded = @ + 1, !.pending = @ + 1]
  PROVE  /\ g \in Effects /\ g.queue = e.queue /\ g.ran = e.ran
         /\ Accounted(e) => Accounted(g)
  <1>1. /\ e.recorded \in Nat /\ e.pending \in Nat /\ e.ran \in Nat /\ e.gaveUp \in Nat
        /\ Len(e.queue) \in Nat
    BY DEF Effects
  <1>2. PICK m \in Nat : m = e.recorded + 1
    BY <1>1
  <1>3. PICK n \in Nat : n = e.pending + 1
    BY <1>1
  <1>4. g = [e EXCEPT !.recorded = m, !.pending = n]
    BY <1>2, <1>3
  <1>5. /\ g \in Effects /\ g.recorded = m /\ g.pending = n
        /\ g.queue = e.queue /\ g.ran = e.ran /\ g.gaveUp = e.gaveUp
    BY <1>4 DEF Effects
  <1>6. ASSUME Accounted(e) PROVE Accounted(g)
    <2>1. e.recorded = e.pending + Len(e.queue) + e.ran + e.gaveUp
      BY <1>6 DEF Accounted
    <2>2. PICK len \in Nat : len = Len(e.queue)
      BY <1>1
    <2>3. e.recorded = e.pending + len + e.ran + e.gaveUp
      BY <2>1, <2>2
    <2>4. m = n + len + e.ran + e.gaveUp
      BY <1>1, <1>2, <1>3, <2>3
    <2> QED
      BY <1>5, <2>2, <2>4 DEF Accounted
  <1> QED
    BY <1>5, <1>6

LEMMA QueueEffects ==
  ASSUME NEW e \in Effects, NEW g,
         g = [e EXCEPT !.pending = 0, !.queue = @ \o [i \in 1..e.pending |-> 0]],
         MaxRetries \in Nat
  PROVE  /\ g \in Effects /\ g.ran = e.ran
         /\ g.pending = 0
         /\ e.pending = 0 => g.queue = e.queue
         /\ Accounted(e) => Accounted(g)
  <1> DEFINE more == [i \in 1..e.pending |-> 0]
             queue == e.queue \o more
  <1>1. /\ e.recorded \in Nat /\ e.pending \in Nat /\ e.ran \in Nat /\ e.gaveUp \in Nat
        /\ e.queue \in Seq(0..MaxRetries) /\ Len(e.queue) \in Nat
    BY DEF Effects
  <1>2. more \in Seq(0..MaxRetries) /\ Len(more) = e.pending
    <2>1. PICK n \in Nat : n = e.pending
      BY <1>1
    <2>2. [i \in 1..n |-> 0] \in Seq(0..MaxRetries) /\ Len([i \in 1..n |-> 0]) = n
      OBVIOUS
    <2> QED
      BY <2>1, <2>2
  <1>3. queue \in Seq(0..MaxRetries) /\ Len(queue) = Len(e.queue) + Len(more)
    BY <1>1, <1>2
  <1>4. e.pending = 0 => queue = e.queue
    BY <1>1, <1>2
  <1> HIDE DEF more, queue
  <1>5. /\ g \in Effects /\ g.recorded = e.recorded /\ g.pending = 0
        /\ g.queue = queue /\ g.ran = e.ran /\ g.gaveUp = e.gaveUp
    BY <1>3 DEF Effects, queue, more
  <1>6. ASSUME Accounted(e) PROVE Accounted(g)
    BY <1>1, <1>2, <1>3, <1>5, <1>6 DEF Accounted
  <1> QED
    BY <1>4, <1>5, <1>6

LEMMA RunEffects ==
  ASSUME NEW e \in Effects, e.queue # <<>>, NEW g,
         LET attempts == Head(e.queue) + 1 IN
           \/ g = [e EXCEPT !.queue = Tail(@), !.ran = @ + 1]
           \/ attempts <= MaxRetries /\ g = [e EXCEPT !.queue = Append(Tail(@), attempts)]
           \/ g = [e EXCEPT !.queue = Tail(@), !.gaveUp = @ + 1],
         MaxRetries \in Nat
  PROVE  g \in Effects /\ g.pending = e.pending /\ (Accounted(e) => Accounted(g))
  <1>1. /\ e.recorded \in Nat /\ e.pending \in Nat /\ e.ran \in Nat /\ e.gaveUp \in Nat
        /\ e.queue \in Seq(0..MaxRetries)
    BY DEF Effects
  <1> DEFINE rest == Tail(e.queue)
  <1>2. rest \in Seq(0..MaxRetries) /\ Head(e.queue) \in 0..MaxRetries
    BY <1>1, Tails
  <1>3. PICK len \in Nat : Len(e.queue) = len + 1 /\ Len(rest) = len
    BY <1>1, Tails
  <1> HIDE DEF rest
  <1>4. PICK a \in Nat, b \in Nat, c \in Nat, d \in Nat :
          e.recorded = a /\ e.pending = b /\ e.ran = c /\ e.gaveUp = d
    BY <1>1
  <1>5. PICK ran \in Nat, gaveUp \in Nat : ran = c + 1 /\ gaveUp = d + 1
    OBVIOUS
  <1>6. Accounted(e) => a = b + (len + 1) + c + d
    BY <1>3, <1>4 DEF Accounted
  <1>7. CASE g = [e EXCEPT !.queue = rest, !.ran = ran]
    <2>1. /\ g \in Effects /\ g.recorded = e.recorded /\ g.pending = e.pending
          /\ g.queue = rest /\ g.ran = ran /\ g.gaveUp = e.gaveUp
      BY <1>2, <1>7 DEF Effects
    <2>2. Accounted(e) => a = b + len + ran + d
      BY <1>5, <1>6
    <2> QED
      BY <1>3, <1>4, <2>1, <2>2 DEF Accounted
  <1>8. CASE g = [e EXCEPT !.queue = rest, !.gaveUp = gaveUp]
    <2>1. /\ g \in Effects /\ g.recorded = e.recorded /\ g.pending = e.pending
          /\ g.queue = rest /\ g.ran = e.ran /\ g.gaveUp = gaveUp
      BY <1>2, <1>8 DEF Effects
    <2>2. Accounted(e) => a = b + len + c + gaveUp
      BY <1>5, <1>6
    <2> QED
      BY <1>3, <1>4, <2>1, <2>2 DEF Accounted
  <1>9. ASSUME NEW attempts \in 0..MaxRetries, g = [e EXCEPT !.queue = Append(rest, attempts)]
        PROVE  g \in Effects /\ g.pending = e.pending /\ (Accounted(e) => Accounted(g))
    <2> DEFINE queue == Append(rest, attempts)
    <2>1. queue \in Seq(0..MaxRetries) /\ Len(queue) = Len(rest) + 1
      BY <1>2, AppendProperties
    <2> HIDE DEF queue
    <2>2. /\ g \in Effects /\ g.recorded = e.recorded /\ g.pending = e.pending
          /\ g.queue = queue /\ g.ran = e.ran /\ g.gaveUp = e.gaveUp
      BY <1>9, <2>1 DEF Effects, queue
    <2>3. Len(queue) = len + 1
      BY <1>3, <2>1
    <2> QED
      BY <1>4, <1>6, <2>2, <2>3 DEF Accounted
  <1>10. \A h \in 0..MaxRetries : h + 1 <= MaxRetries => h + 1 \in 0..MaxRetries
    OBVIOUS
  <1>11. \/ g = [e EXCEPT !.queue = rest, !.ran = ran]
         \/ g = [e EXCEPT !.queue = rest, !.gaveUp = gaveUp]
         \/ /\ Head(e.queue) + 1 <= MaxRetries
            /\ g = [e EXCEPT !.queue = Append(rest, Head(e.queue) + 1)]
    BY <1>4, <1>5 DEF rest
  <1> QED
    BY <1>2, <1>7, <1>8, <1>9, <1>10, <1>11, Zenon

USE StylesAssumption, BoundsAssumption, AttemptsAssumption

-----------------------------------------------------------------------------
(* Counting.                                                                  *)

LEMMA Counts ==
  /\ IsFiniteSet(AllCounted) /\ Cardinality(AllCounted) \in Nat
  /\ IsFiniteSet(AllLost) /\ Cardinality(AllLost) \in Nat
BY FS_Subset, FS_CardinalityType DEF AllCounted, AllLost

LEMMA CountsNext ==
  /\ IsFiniteSet(AllCounted') /\ Cardinality(AllCounted') \in Nat
  /\ IsFiniteSet(AllLost') /\ Cardinality(AllLost') \in Nat
BY FS_Subset, FS_CardinalityType DEF AllCounted, AllLost

LEMMA Sums ==
  ASSUME NEW a \in Nat, NEW b \in Nat, NEW c \in Nat, NEW d \in Nat,
         NEW m \in Nat, NEW k \in Nat, NEW n \in Nat, NEW l \in Nat,
         a + b <= m + k, c <= a, d <= b, m + k <= n + l
  PROVE  c + d <= n + l
OBVIOUS

\* While no request joins those that count, the count does not rise.
LEMMA CountKept ==
  ASSUME Inv, AllCounted' \subseteq AllCounted, AllLost' \subseteq AllLost,
         released' \in Nat, released + KeyCount <= released' + KeyCount'
  PROVE  CountInv'
  <1>1. /\ Cardinality(AllCounted') <= Cardinality(AllCounted)
        /\ Cardinality(AllLost') <= Cardinality(AllLost)
    BY Counts, FS_Subset
  <1>2. released \in Nat /\ released' \in Nat /\ KeyCount \in Nat /\ KeyCount' \in Nat
    BY DEF Inv, TypeOK, KeyCount
  <1>3. Cardinality(AllCounted) + Cardinality(AllLost) <= released + KeyCount
    BY DEF Inv, CountInv
  <1>4. Cardinality(AllCounted') + Cardinality(AllLost') <= released' + KeyCount'
    BY <1>1, <1>2, <1>3, Counts, CountsNext, Sums, Zenon
  <1> QED
    BY <1>4 DEF CountInv

-----------------------------------------------------------------------------
(* One request's step.                                                        *)

\* A step of one request keeps the rest of the invariant if it keeps the count.
LEMMA OneStep ==
  ASSUME Inv, NEW r \in Attempts, NEW q \in Requests, NEW e \in Effects,
         req' = [req EXCEPT ![r] = q], effects' = [effects EXCEPT ![r] = e],
         style' = style, key' \in Keys,
         Sound(style, q, e),
         Wins(req[r]) => Wins(q),
         style = "returns" /\ (q.told = "ok" \/ key' = "ok") =>
           req[r].told = "ok" \/ key = "ok" \/ Wins(q),
         mishaps' \in 0..MaxMishaps, released' \in Nat, released' <= mishaps',
         CountInv'
  PROVE  Inv'
  <1>1. /\ req' \in [Attempts -> Requests] /\ req'[r] = q
        /\ \A s \in Attempts : s # r => req'[s] = req[s]
    BY DEF Inv, TypeOK
  <1>2. /\ effects' \in [Attempts -> Effects] /\ effects'[r] = e
        /\ \A s \in Attempts : s # r => effects'[s] = effects[s]
    BY DEF Inv, TypeOK
  <1>3. released' \in 0..MaxMishaps
    OBVIOUS
  <1>4. TypeOK'
    BY <1>1, <1>2, <1>3 DEF Inv, TypeOK
  <1>5. LocalInv'
    <2> SUFFICES ASSUME NEW s \in Attempts PROVE Sound(style, req'[s], effects'[s])
      BY DEF LocalInv
    <2> QED
      BY <1>1, <1>2 DEF Inv, LocalInv
  <1>6. EarnedInv'
    <2> SUFFICES ASSUME style = "returns", key' = "ok" \/ \E s \in Attempts : req'[s].told = "ok"
                 PROVE  \E s \in Attempts : Wins(req'[s])
      BY DEF EarnedInv
    <2>1. CASE Wins(q)
      BY <1>1, <2>1
    <2>2. CASE ~Wins(q)
      <3>1. key = "ok" \/ \E s \in Attempts : req[s].told = "ok"
        BY <1>1, <2>2
      <3>2. PICK s \in Attempts : Wins(req[s])
        BY <3>1 DEF Inv, EarnedInv
      <3> QED
        BY <1>1, <2>2, <3>2
    <2> QED
      BY <2>1, <2>2
  <1> QED
    BY <1>4, <1>5, <1>6 DEF Inv

\* A step that lets its request neither count nor be lost anew.
LEMMA QuietStep ==
  ASSUME Inv, NEW r \in Attempts, NEW q \in Requests, NEW e \in Effects,
         req' = [req EXCEPT ![r] = q], effects' = [effects EXCEPT ![r] = e],
         UNCHANGED <<style, key>>,
         Sound(style, q, e),
         Counted(q) => Counted(req[r]),
         Lost(q) => Lost(req[r]),
         Wins(req[r]) => Wins(q),
         style = "returns" /\ q.told = "ok" => req[r].told = "ok" \/ key = "ok" \/ Wins(q),
         mishaps' \in 0..MaxMishaps, mishaps <= mishaps', released' = released
  PROVE  Inv'
  <1>1. \A s \in Attempts : req'[s] = IF s = r THEN q ELSE req[s]
    BY DEF Inv, TypeOK
  <1>2. AllCounted' \subseteq AllCounted /\ AllLost' \subseteq AllLost
    BY <1>1 DEF AllCounted, AllLost
  <1>3. KeyCount' = KeyCount /\ released' \in Nat /\ key' \in Keys
    BY DEF KeyCount, Inv, TypeOK
  <1>4. released + KeyCount <= released' + KeyCount'
    BY <1>3 DEF KeyCount, Inv, TypeOK
  <1>5. CountInv'
    BY <1>2, <1>3, <1>4, CountKept
  <1>6. released' <= mishaps'
    BY DEF Inv, TypeOK
  <1> QED
    BY <1>3, <1>5, <1>6, OneStep

LEMMA Here ==
  ASSUME Inv, NEW r \in Attempts
  PROVE  /\ req[r] \in Requests /\ effects[r] \in Effects
         /\ PhaseOK(req[r]) /\ EffectsOK(req[r], effects[r])
         /\ style = "returns" => ReturnsOK(req[r])
         /\ mishaps \in 0..MaxMishaps
BY DEF Inv, TypeOK, LocalInv, Sound

\* The same, when the effects are left alone.
LEMMA QuietRequest ==
  ASSUME Inv, NEW r \in Attempts, NEW q \in Requests,
         req' = [req EXCEPT ![r] = q],
         UNCHANGED <<style, key, effects, released>>,
         PhaseOK(q), style = "returns" => ReturnsOK(q), EffectsOK(q, effects[r]),
         Counted(q) => Counted(req[r]),
         Lost(q) => Lost(req[r]),
         Wins(req[r]) => Wins(q),
         style = "returns" /\ q.told = "ok" => req[r].told = "ok" \/ key = "ok" \/ Wins(q),
         mishaps' = mishaps \/ Mishap
  PROVE  Inv'
  <1>1. effects[r] \in Effects /\ effects' = [effects EXCEPT ![r] = effects[r]]
    BY Here DEF Inv, TypeOK
  <1>2. mishaps' \in 0..MaxMishaps /\ mishaps <= mishaps'
    BY Here DEF Mishap
  <1> QED
    BY <1>1, <1>2, QuietStep DEF Sound

-----------------------------------------------------------------------------
(* The actions that are such steps.                                           *)

LEMMA AskInv == ASSUME Inv, NEW r \in Attempts, Ask(r) PROVE Inv'
  <1> DEFINE told == IF key # "inProgress" /\ key # "none" THEN key ELSE "duplicate"
             q    == [req[r] EXCEPT !.phase = "done", !.told = told]
  <1>1. req[r] \in Requests /\ req[r].phase = "asking" /\ told \in Statuses \cup {"duplicate"}
    BY Here DEF Ask, Inv, TypeOK, Keys, Statuses
  <1>2. told = "ok" => key = "ok"
    OBVIOUS
  <1>3. req' = [req EXCEPT ![r] = q] /\ UNCHANGED <<style, key, effects, mishaps, released>>
    BY DEF Ask, Inv, TypeOK
  <1> HIDE DEF told
  <1>4. q \in Requests
    BY <1>1 DEF Requests, Phases
  <1>5. /\ PhaseOK(q) /\ EffectsOK(q, effects[r])
        /\ style = "returns" => ReturnsOK(q)
    BY <1>1, Here DEF PhaseOK, ReturnsOK, EffectsOK, Requests
  <1>6. /\ Counted(q) => Counted(req[r])
        /\ Lost(q) => Lost(req[r])
        /\ Wins(req[r]) => Wins(q)
        /\ q.told = told
    BY <1>1 DEF Counted, Live, Lost, Wins, Requests
  <1> QED
    BY <1>2, <1>3, <1>4, <1>5, <1>6, QuietRequest

LEMMA BeginInv == ASSUME Inv, NEW r \in Attempts, Begin(r) PROVE Inv'
  <1>1. PICK tx \in {"open", "plain"} :
          req' = [req EXCEPT ![r] = [req[r] EXCEPT !.phase = "running", !.tx = tx]]
    BY DEF Begin, Inv, TypeOK
  <1> DEFINE q == [req[r] EXCEPT !.phase = "running", !.tx = tx]
  <1>2. req[r] \in Requests /\ req[r].phase = "accepted"
    BY Here DEF Begin
  <1>3. UNCHANGED <<style, key, effects, mishaps, released>>
    BY DEF Begin
  <1>4. q \in Requests
    BY <1>2 DEF Requests, Phases
  <1>5. /\ PhaseOK(q) /\ EffectsOK(q, effects[r])
        /\ style = "returns" => ReturnsOK(q)
    BY <1>2, Here DEF PhaseOK, ReturnsOK, EffectsOK, Requests
  <1>6. /\ Counted(q) => Counted(req[r])
        /\ Lost(q) => Lost(req[r])
        /\ Wins(req[r]) => Wins(q)
        /\ q.told = req[r].told
    BY <1>2, Here DEF PhaseOK, Counted, Live, Lost, Wins, Requests
  <1> QED
    BY <1>1, <1>3, <1>4, <1>5, <1>6, QuietRequest

LEMMA WorkInv == ASSUME Inv, NEW r \in Attempts, Work(r) PROVE Inv'
  <1> DEFINE q == [req[r] EXCEPT !.step = "wrote"]
             e == [effects[r] EXCEPT !.recorded = @ + 1, !.pending = @ + 1]
  <1>1. req[r] \in Requests /\ req[r].phase = "running" /\ req[r].step = "start"
    BY Here DEF Work
  <1>2. /\ req' = [req EXCEPT ![r] = q] /\ effects' = [effects EXCEPT ![r] = e]
        /\ UNCHANGED <<style, key, mishaps, released>>
    BY DEF Work, Inv, TypeOK
  <1>3. /\ e \in Effects /\ e.queue = effects[r].queue /\ e.ran = effects[r].ran
        /\ Accounted(effects[r]) => Accounted(e)
    <2> effects[r] \in Effects
      BY Here
    <2> QED
      BY RecordEffect
  <1> HIDE DEF e
  <1>4. q \in Requests
    BY <1>1 DEF Requests
  <1>5. PhaseOK(q) /\ (style = "returns" => ReturnsOK(q))
    <2>1. req[r].status # "error"
      BY <1>1, Here DEF PhaseOK
    <2> QED
      BY <1>1, <2>1, Here DEF PhaseOK, ReturnsOK, Requests, Wins
  <1>6. EffectsOK(q, e)
    <2>1. /\ q.phase = req[r].phase /\ q.tx = req[r].tx /\ q.flush = req[r].flush
          /\ q.hook = req[r].hook /\ q.tx # "none"
      BY <1>1, Here DEF Requests, PhaseOK
    <2> HIDE DEF q
    <2> QED
      BY <1>3, <2>1, Here DEF EffectsOK
  <1>7. /\ Counted(q) => Counted(req[r])
        /\ Lost(q) => Lost(req[r])
        /\ Wins(req[r]) => Wins(q)
        /\ q.told = req[r].told
    BY <1>1 DEF Counted, Live, Lost, Wins, Requests
  <1>8. mishaps' \in 0..MaxMishaps /\ mishaps <= mishaps'
    BY <1>2, Here
  <1> QED
    BY <1>2, <1>3, <1>4, <1>5, <1>6, <1>7, <1>8, QuietStep DEF Sound

LEMMA AnswerDirectlyInv == ASSUME Inv, NEW r \in Attempts, AnswerDirectly(r) PROVE Inv'
  <1>1. PICK status \in Statuses :
          req' = [req EXCEPT ![r] = [Send(r, status) EXCEPT !.step = "answered"]]
    BY DEF AnswerDirectly
  <1> DEFINE q == [Send(r, status) EXCEPT !.step = "answered"]
  <1>2. /\ style = "direct" /\ req[r] \in Requests
        /\ req[r].phase = "running" /\ req[r].step = "wrote"
        /\ UNCHANGED <<style, key, effects, mishaps, released>>
    BY Here DEF AnswerDirectly
  <1>3. /\ q \in Requests /\ q.phase = "running" /\ q.step = "answered" /\ q.status = status
        /\ q.tx = req[r].tx /\ q.hook = req[r].hook /\ q.flush = req[r].flush
        /\ status # "none"
    BY <1>2 DEF Requests, Send, Statuses
  <1>4. /\ PhaseOK(q) /\ EffectsOK(q, effects[r])
        /\ Counted(q) => Counted(req[r])
        /\ Lost(q) => Lost(req[r])
        /\ Wins(req[r]) => Wins(q)
    <2>1. req[r].tx \in {"open", "plain"} /\ req[r].status # "error"
      BY <1>2, Here DEF PhaseOK
    <2> HIDE DEF q
    <2> QED
      BY <1>2, <1>3, <2>1, Here DEF PhaseOK, EffectsOK, Counted, Live, Lost, Wins
  <1> HIDE DEF q
  <1> QED
    BY <1>1, <1>2, <1>3, <1>4, QuietRequest DEF q

LEMMA ReturnInv == ASSUME Inv, NEW r \in Attempts, Return(r) PROVE Inv'
  <1>1. /\ req[r] \in Requests /\ req[r].phase = "running"
        /\ UNCHANGED <<style, key, effects, mishaps, released>>
    BY Here DEF Return
  <1>2. req[r].tx \in {"open", "plain"} /\ (req[r].status = "error" => req[r].step = "answered")
    BY <1>1, Here DEF PhaseOK
  <1>3. PICK status \in Statuses :
          /\ \/ style = "returns" /\ req[r].step = "wrote"
             \/ style = "direct" /\ req[r].step = "answered" /\ status = req[r].status
          /\ \/ /\ status = "ok" /\ req[r].tx = "open"
                /\ req' = [req EXCEPT ![r].phase = "commit", ![r].status = status]
             \/ /\ status = "ok" /\ req[r].tx = "plain"
                /\ req' = [req EXCEPT ![r].phase = "ended", ![r].status = status,
                                      ![r].tx = "plainDone"]
             \/ /\ status # "ok"
                /\ req' = [req EXCEPT ![r].phase = "ended", ![r].status = status,
                                      ![r].tx = GivenUp(@)]
    BY DEF Return
  <1> DEFINE Outcome(phase, tx) ==
               \/ status = "ok" /\ req[r].tx = "open" /\ phase = "commit" /\ tx = "open"
               \/ status = "ok" /\ req[r].tx = "plain" /\ phase = "ended" /\ tx = "plainDone"
               \/ status # "ok" /\ phase = "ended" /\ tx = GivenUp(req[r].tx)
             Moved(phase, tx) == [req[r] EXCEPT !.phase = phase, !.status = status, !.tx = tx]
  <1>4. \E phase \in {"commit", "ended"}, tx \in {"open", "plainDone", "aborted", "plainFailed"} :
          Outcome(phase, tx) /\ req' = [req EXCEPT ![r] = Moved(phase, tx)]
    <2>1. CASE status = "ok" /\ req[r].tx = "open"
      <3>1. req' = [req EXCEPT ![r] = [req[r] EXCEPT !.phase = "commit", !.status = status]]
        BY <1>3, <2>1 DEF Inv, TypeOK
      <3>2. [req[r] EXCEPT !.phase = "commit", !.status = status] = Moved("commit", "open")
        BY <1>1, <2>1 DEF Requests
      <3> QED
        BY <2>1, <3>1, <3>2
    <2>2. CASE status = "ok" /\ req[r].tx = "plain"
      <3>1. req' = [req EXCEPT ![r] = Moved("ended", "plainDone")]
        BY <1>3, <2>2 DEF Inv, TypeOK
      <3> QED
        BY <2>2, <3>1
    <2>3. CASE status # "ok"
      <3>1. req' = [req EXCEPT ![r] = Moved("ended", GivenUp(req[r].tx))]
        BY <1>3, <2>3 DEF Inv, TypeOK
      <3> QED
        BY <2>3, <3>1 DEF GivenUp
    <2> QED
      BY <1>2, <2>1, <2>2, <2>3
  <1>5. PICK phase \in {"commit", "ended"}, tx \in {"open", "plainDone", "aborted", "plainFailed"} :
          Outcome(phase, tx) /\ req' = [req EXCEPT ![r] = Moved(phase, tx)]
    BY <1>4
  <1> DEFINE q == Moved(phase, tx)
  <1>6. /\ q \in Requests /\ q.phase = phase /\ q.status = status /\ q.tx = tx
        /\ q.step = req[r].step /\ q.hook = req[r].hook /\ q.flush = req[r].flush
        /\ q.told = req[r].told /\ q.sent = req[r].sent
    <2>1. q = [req[r] EXCEPT !.phase = phase, !.status = status, !.tx = tx]
      OBVIOUS
    <2> HIDE DEF q, Moved, Outcome
    <2> QED
      BY <1>1, <2>1 DEF Requests, Statuses, Phases
  <1> HIDE DEF q
  <1>7. status # "none" /\ (style = "direct" \/ req[r].status # "error")
        /\ (style = "direct" => status = req[r].status)
    BY <1>2, <1>3 DEF Statuses
  <1>8. style \in {"returns", "direct"}
    BY DEF Inv, TypeOK
  <1>9. PhaseOK(q) /\ EffectsOK(q, effects[r])
    BY <1>1, <1>2, <1>5, <1>6, <1>7, Here DEF PhaseOK, EffectsOK, GivenUp
  <1>10. style = "returns" => ReturnsOK(q)
    BY <1>1, <1>2, <1>5, <1>6, Here DEF ReturnsOK, Wins, GivenUp
  <1>11. /\ Counted(q) => Counted(req[r])
         /\ Lost(q) => Lost(req[r])
         /\ Wins(req[r]) => Wins(q)
    BY <1>1, <1>2, <1>5, <1>6, <1>7, <1>8 DEF Counted, Live, Lost, Wins, GivenUp
  <1>12. req' = [req EXCEPT ![r] = q]
    BY <1>5 DEF q
  <1> QED
    BY <1>1, <1>6, <1>9, <1>10, <1>11, <1>12, QuietRequest

LEMMA ThrowInv == ASSUME Inv, NEW r \in Attempts, Throw(r) PROVE Inv'
  <1>1. PICK status \in {"refused", "error"} :
          req' = [req EXCEPT ![r] = [req[r] EXCEPT !.phase = "ended", !.status = status,
                                                   !.tx = GivenUp(req[r].tx)]]
    BY DEF Throw, Inv, TypeOK
  <1> DEFINE q == [req[r] EXCEPT !.phase = "ended", !.status = status, !.tx = GivenUp(req[r].tx)]
  <1>2. /\ req[r] \in Requests /\ req[r].phase = "running"
        /\ UNCHANGED <<style, key, effects, mishaps, released>>
    BY Here DEF Throw
  <1>3. req[r].tx \in {"open", "plain"}
    BY <1>2, Here DEF PhaseOK
  <1>4. /\ q \in Requests /\ q.phase = "ended" /\ q.status = status /\ q.tx = GivenUp(req[r].tx)
        /\ q.step = req[r].step /\ q.hook = req[r].hook /\ q.flush = req[r].flush
        /\ q.told = req[r].told /\ q.sent = req[r].sent
    BY <1>2, <1>3 DEF Requests, Statuses, Phases, GivenUp
  <1>5. req' = [req EXCEPT ![r] = q]
    BY <1>1
  <1> HIDE DEF q
  <1>6. PhaseOK(q) /\ EffectsOK(q, effects[r])
    BY <1>2, <1>3, <1>4, Here DEF PhaseOK, EffectsOK, GivenUp
  <1>7. style = "returns" => ReturnsOK(q)
    BY <1>2, <1>3, <1>4, Here DEF ReturnsOK, Wins, GivenUp
  <1>8. /\ Counted(q) => Counted(req[r])
        /\ Lost(q) => Lost(req[r])
        /\ Wins(req[r]) => Wins(q)
    BY <1>2, <1>3, <1>4 DEF Counted, Live, Lost, Wins, GivenUp
  <1> QED
    BY <1>2, <1>4, <1>5, <1>6, <1>7, <1>8, QuietRequest

LEMMA RerunInv == ASSUME Inv, NEW r \in Attempts, Rerun(r) PROVE Inv'
  <1> DEFINE q == [req[r] EXCEPT !.phase = "running", !.step = "start"]
  <1>1. /\ req[r] \in Requests /\ req[r].tx = "open"
        /\ (req[r].phase = "running" /\ req[r].step # "answered") \/ req[r].phase = "commit"
        /\ req' = [req EXCEPT ![r] = q] /\ UNCHANGED <<style, key, effects, released>> /\ Mishap
    BY Here DEF Rerun, Inv, TypeOK
  <1>2. /\ q \in Requests /\ q.phase = "running" /\ q.step = "start" /\ q.status = req[r].status
        /\ q.tx = req[r].tx /\ q.hook = req[r].hook /\ q.flush = req[r].flush
        /\ q.told = req[r].told /\ q.sent = req[r].sent
    BY <1>1 DEF Requests, Phases
  <1>3. req[r].status # "error"
    BY <1>1, Here DEF PhaseOK
  <1> HIDE DEF q
  <1>4. PhaseOK(q) /\ EffectsOK(q, effects[r]) /\ (style = "returns" => ReturnsOK(q))
    BY <1>1, <1>2, <1>3, Here DEF PhaseOK, EffectsOK, ReturnsOK
  <1>5. /\ Counted(q) => Counted(req[r])
        /\ Lost(q) => Lost(req[r])
        /\ Wins(req[r]) => Wins(q)
    BY <1>1, <1>2, <1>3 DEF Counted, Live, Lost, Wins
  <1> QED
    BY <1>1, <1>2, <1>4, <1>5, QuietRequest

LEMMA RespondInv == ASSUME Inv, NEW r \in Attempts, Respond(r) PROVE Inv'
  <1> DEFINE q == [Send(r, req[r].status) EXCEPT !.phase = "done"]
  <1>1. /\ req[r] \in Requests /\ req[r].phase = "ended"
        /\ req' = [req EXCEPT ![r] = q] /\ UNCHANGED <<style, key, effects, mishaps, released>>
    BY Here DEF Respond
  <1>2. /\ q \in Requests /\ q.phase = "done" /\ q.step = req[r].step
        /\ q.status = req[r].status /\ q.tx = req[r].tx /\ q.hook = req[r].hook
        /\ q.flush = req[r].flush
        /\ q.told = "ok" => req[r].told = "ok" \/ req[r].status = "ok"
    <2>1. req[r].status \in Statuses
      BY <1>1, Here DEF PhaseOK, Requests
    <2> DEFINE told == IF ~req[r].sent /\ Connected(r) THEN req[r].status ELSE req[r].told
    <2>2. told \in Statuses \cup {"none", "duplicate"}
      BY <1>1, <2>1 DEF Requests
    <2>3. told = "ok" => req[r].told = "ok" \/ req[r].status = "ok"
      OBVIOUS
    <2>4. q = [req[r] EXCEPT !.status = req[r].status, !.sent = TRUE, !.told = told, !.phase = "done"]
      BY <1>1 DEF Send, Requests
    <2> HIDE DEF told, q
    <2>5. /\ q \in Requests /\ q.phase = "done" /\ q.step = req[r].step
          /\ q.status = req[r].status /\ q.tx = req[r].tx /\ q.hook = req[r].hook
          /\ q.flush = req[r].flush /\ q.told = told
      BY <1>1, <2>1, <2>2, <2>4 DEF Requests, Phases
    <2> QED
      BY <2>3, <2>5
  <1> HIDE DEF q
  <1>3. PhaseOK(q) /\ EffectsOK(q, effects[r]) /\ (style = "returns" => ReturnsOK(q))
    BY <1>1, <1>2, Here DEF PhaseOK, EffectsOK, ReturnsOK, Wins
  <1>4. /\ Counted(q) => Counted(req[r])
        /\ Lost(q) => Lost(req[r])
        /\ Wins(req[r]) => Wins(q)
        /\ style = "returns" /\ req[r].status = "ok" => Wins(q)
    BY <1>1, <1>2, Here DEF Counted, Live, Lost, Wins, ReturnsOK
  <1> QED
    BY <1>1, <1>2, <1>3, <1>4, QuietRequest

LEMMA CloseEventInv == ASSUME Inv, NEW r \in Attempts, CloseEvent(r) PROVE Inv'
  <1> DEFINE hook == IF req[r].phase = "accepted" THEN "closedEarly" ELSE "closed"
             q == [req[r] EXCEPT !.hook = hook, !.flush = Scheduled(req[r].tx)]
  <1>1. /\ req[r] \in Requests /\ req[r].hook = "armed"
        /\ req[r].phase \in {"accepted", "running", "commit", "ended", "done"}
        /\ req' = [req EXCEPT ![r] = q] /\ UNCHANGED <<style, key, effects, released>> /\ Mishap
    BY Here DEF CloseEvent, Connected, Inv, TypeOK
  <1>2. /\ q \in Requests /\ q.phase = req[r].phase /\ q.step = req[r].step
        /\ q.status = req[r].status /\ q.tx = req[r].tx /\ q.told = req[r].told
        /\ q.sent = req[r].sent /\ q.hook = hook /\ q.flush = Scheduled(req[r].tx)
    <2>1. hook \in {"closed", "closedEarly"} /\ Scheduled(req[r].tx) \in {"waiting", "now"}
      BY DEF Scheduled
    <2> HIDE DEF hook
    <2> QED
      BY <1>1, <2>1 DEF Requests
  <1>3. req[r].tx = "none" => req[r].phase = "accepted"
    BY <1>1, Here DEF PhaseOK
  <1> HIDE DEF q
  <1>4. PhaseOK(q) /\ (style = "returns" => ReturnsOK(q))
    BY <1>1, <1>2, <1>3, Here DEF PhaseOK, ReturnsOK, Wins
  <1>5. EffectsOK(q, effects[r])
    BY <1>1, <1>2, <1>3, Here DEF EffectsOK, Scheduled, Requests
  <1>6. /\ Counted(q) => Counted(req[r])
        /\ Lost(q) => Lost(req[r])
        /\ Wins(req[r]) => Wins(q)
    BY <1>1, <1>2 DEF Counted, Live, Lost, Wins
  <1> QED
    BY <1>1, <1>2, <1>4, <1>5, <1>6, QuietRequest

LEMMA FlushInv == ASSUME Inv, NEW r \in Attempts, Flush(r) PROVE Inv'
  <1> DEFINE more == [i \in 1..effects[r].pending |-> 0]
             q == [req[r] EXCEPT !.flush = "done"]
             e == [effects[r] EXCEPT !.pending = 0,
                                     !.queue = IF ShouldRun(req[r].tx) THEN @ \o more ELSE @]
  <1>1. /\ req[r] \in Requests /\ effects[r] \in Effects
        /\ req' = [req EXCEPT ![r] = q] /\ effects' = [effects EXCEPT ![r] = e]
        /\ UNCHANGED <<style, key, mishaps, released>>
    BY Here DEF Flush, Inv, TypeOK
  <1>2. /\ q \in Requests /\ q.phase = req[r].phase /\ q.step = req[r].step
        /\ q.status = req[r].status /\ q.tx = req[r].tx /\ q.told = req[r].told
        /\ q.sent = req[r].sent /\ q.hook = req[r].hook /\ q.flush = "done"
    BY <1>1 DEF Requests
  <1>3. req[r].flush \in {"now", "waiting"}
        /\ (req[r].flush = "waiting" => req[r].phase \in {"ended", "done"})
    BY DEF Flush, FlushReady
  <1>4. /\ e \in Effects /\ e.ran = effects[r].ran /\ e.pending = 0
        /\ req[r].tx = "open" \/ effects[r].pending = 0 => e.queue = effects[r].queue
        /\ req[r].tx # "open" /\ Accounted(effects[r]) => Accounted(e)
    <2>1. CASE req[r].tx # "open"
      <3>1. e = [effects[r] EXCEPT !.pending = 0, !.queue = @ \o more]
        BY <2>1 DEF ShouldRun
      <3> HIDE DEF e
      <3> QED
        BY <1>1, <2>1, <3>1, QueueEffects
    <2>2. CASE req[r].tx = "open"
      <3>1. e = [effects[r] EXCEPT !.pending = 0]
        BY <1>1, <2>2 DEF ShouldRun, Effects
      <3> HIDE DEF e
      <3> QED
        BY <1>1, <2>2, <3>1 DEF Effects
    <2> QED
      BY <2>1, <2>2
  <1> HIDE DEF q, e
  <1>5. PhaseOK(q) /\ (style = "returns" => ReturnsOK(q))
    BY <1>2, <1>3, Here DEF PhaseOK, ReturnsOK, Wins
  <1>6. EffectsOK(q, e)
    BY <1>2, <1>3, <1>4, Here DEF EffectsOK, PhaseOK
  <1>7. /\ Counted(q) => Counted(req[r])
        /\ Lost(q) => Lost(req[r])
        /\ Wins(req[r]) => Wins(q)
    BY <1>2 DEF Counted, Live, Lost, Wins
  <1>8. mishaps' \in 0..MaxMishaps /\ mishaps <= mishaps'
    BY <1>1, Here
  <1> QED
    BY <1>1, <1>2, <1>4, <1>5, <1>6, <1>7, <1>8, QuietStep DEF Sound

LEMMA RunEffectInv == ASSUME Inv, NEW r \in Attempts, RunEffect(r) PROVE Inv'
  <1> DEFINE attempts == Head(effects[r].queue) + 1
  <1>1. /\ req[r] \in Requests /\ effects[r] \in Effects /\ effects[r].queue # <<>>
        /\ UNCHANGED <<style, key, req, mishaps, released>>
    BY Here DEF RunEffect
  <1>2. PICK e :
          /\ effects' = [effects EXCEPT ![r] = e]
          /\ \/ e = [effects[r] EXCEPT !.queue = Tail(@), !.ran = @ + 1]
             \/ attempts <= MaxRetries /\ e = [effects[r] EXCEPT !.queue = Append(Tail(@), attempts)]
             \/ e = [effects[r] EXCEPT !.queue = Tail(@), !.gaveUp = @ + 1]
    BY DEF RunEffect, Inv, TypeOK
  <1>3. e \in Effects /\ e.pending = effects[r].pending
        /\ (Accounted(effects[r]) => Accounted(e))
    BY <1>1, <1>2, RunEffects
  <1>4. EffectsOK(req[r], e)
    BY <1>1, <1>3, Here DEF EffectsOK
  <1>5. req' = [req EXCEPT ![r] = req[r]]
    BY <1>1 DEF Inv, TypeOK
  <1>6. Sound(style, req[r], e)
    BY <1>4, Here DEF Sound
  <1>7. mishaps' \in 0..MaxMishaps /\ mishaps <= mishaps'
    BY <1>1, Here
  <1> QED
    BY <1>1, <1>2, <1>3, <1>5, <1>6, <1>7, QuietStep

LEMMA CrashInv == ASSUME Inv, NEW r \in Attempts, Crash(r) PROVE Inv'
  <1> DEFINE tx == IF req[r].tx \in {"open", "plain"} THEN GivenUp(req[r].tx) ELSE req[r].tx
             q == [req[r] EXCEPT !.phase = "dead", !.hook = "none", !.flush = "none", !.tx = tx]
             e == [effects[r] EXCEPT !.pending = 0, !.queue = <<>>]
  <1>1. /\ req[r] \in Requests /\ effects[r] \in Effects
        /\ req' = [req EXCEPT ![r] = q] /\ effects' = [effects EXCEPT ![r] = e]
        /\ UNCHANGED <<style, key, released>> /\ Mishap
    BY Here DEF Crash, Inv, TypeOK
  <1>2. req[r].phase \notin {"new", "dead"}
    BY DEF Crash
  <1>3. /\ tx \in {"none", "committed", "aborted", "plainDone", "plainFailed"}
        /\ tx \in {"committed", "plainDone"} <=> Wins(req[r])
        /\ tx \in {"none", "committed"} => tx = req[r].tx
        /\ tx = "none" <=> req[r].tx = "none"
    BY <1>1 DEF Requests, GivenUp, Wins
  <1> HIDE DEF tx
  <1>4. /\ q \in Requests /\ q.phase = "dead" /\ q.step = req[r].step
        /\ q.status = req[r].status /\ q.tx = tx /\ q.told = req[r].told
        /\ q.sent = req[r].sent /\ q.hook = "none" /\ q.flush = "none"
    <2>1. req[r] \in Requests
      BY <1>1
    <2>2. tx \in {"none", "committed", "aborted", "plainDone", "plainFailed"}
      BY <1>3
    <2>3. q = [req[r] EXCEPT !.phase = "dead", !.hook = "none", !.flush = "none", !.tx = tx]
      OBVIOUS
    <2> HIDE DEF q, e
    <2>4. q \in Requests
      BY <2>1, <2>2, <2>3 DEF Requests, Phases
    <2> QED
      BY <2>1, <2>3, <2>4 DEF Requests
  <1>5. e \in Effects /\ e.ran = effects[r].ran /\ e.pending = 0 /\ e.queue = <<>>
    <2>1. effects[r] \in Effects /\ <<>> \in Seq(0..MaxRetries)
      BY <1>1
    <2> QED
      BY <2>1 DEF Effects
  <1> HIDE DEF q, e
  <1>6. PhaseOK(q) /\ (style = "returns" => ReturnsOK(q)) /\ EffectsOK(q, e)
    BY <1>3, <1>4, <1>5, Here DEF PhaseOK, ReturnsOK, EffectsOK, Wins
  <1>7. /\ Counted(q) => Counted(req[r])
        /\ Lost(q) => Lost(req[r])
        /\ Wins(req[r]) => Wins(q)
    BY <1>3, <1>4 DEF Counted, Live, Lost, Wins
  <1>8. mishaps' \in 0..MaxMishaps /\ mishaps <= mishaps'
    BY <1>1, Here DEF Mishap
  <1> QED
    BY <1>1, <1>4, <1>5, <1>6, <1>7, <1>8, QuietStep DEF Sound

-----------------------------------------------------------------------------
(* The actions that touch the key or the releases.                            *)

\* The count after a step of one request that leaves the effects alone.
LEMMA Frame ==
  ASSUME Inv, NEW r \in Attempts, NEW q, req' = [req EXCEPT ![r] = q]
  PROVE  /\ \A s \in Attempts : req'[s] = IF s = r THEN q ELSE req[s]
         /\ AllCounted' \subseteq AllCounted \cup {r}
         /\ AllLost' \subseteq AllLost \cup {r}
         /\ (Counted(q) => Counted(req[r])) => AllCounted' \subseteq AllCounted
         /\ (Lost(q) => Lost(req[r])) => AllLost' \subseteq AllLost
         /\ ~Counted(q) => r \notin AllCounted'
         /\ ~Lost(q) => r \notin AllLost'
BY DEF Inv, TypeOK, AllCounted, AllLost

LEMMA ExpireInv == ASSUME Inv, Expire PROVE Inv'
  <1>1. /\ key # "none" /\ key' = "none" /\ released' = released + 1 /\ mishaps < MaxMishaps
        /\ mishaps' = mishaps + 1 /\ UNCHANGED <<style, req, effects>>
    BY DEF Expire, Mishap
  <1>2. released \in 0..MaxMishaps /\ mishaps \in 0..MaxMishaps /\ released <= mishaps
    BY DEF Inv, TypeOK
  <1>3. released' \in 0..MaxMishaps /\ mishaps' \in 0..MaxMishaps /\ released' <= mishaps'
    BY <1>1, <1>2
  <1>4. TypeOK' /\ LocalInv' /\ EarnedInv'
    BY <1>1, <1>3 DEF Inv, TypeOK, Keys, LocalInv, EarnedInv
  <1>5. AllCounted' = AllCounted /\ AllLost' = AllLost
    BY <1>1 DEF AllCounted, AllLost
  <1>6. released + KeyCount <= released' + KeyCount'
    BY <1>1, <1>2 DEF KeyCount
  <1>7. released' \in Nat
    BY <1>3
  <1>8. CountInv'
    BY <1>5, <1>6, <1>7, CountKept
  <1> QED
    BY <1>3, <1>4, <1>8 DEF Inv

\* One more may count, if the key or the releases make up for it.
LEMMA CountRaised ==
  ASSUME Inv, NEW r \in Attempts,
         \/ AllCounted' \subseteq AllCounted \cup {r} /\ AllLost' \subseteq AllLost
         \/ AllCounted' \subseteq AllCounted /\ AllLost' \subseteq AllLost \cup {r},
         released' \in Nat, released' + KeyCount' = released + KeyCount + 1
  PROVE  CountInv'
  <1> DEFINE c == Cardinality(AllCounted)   l == Cardinality(AllLost)
             cc == Cardinality(AllCounted') ll == Cardinality(AllLost')
  <1>1. /\ c \in Nat /\ l \in Nat /\ cc \in Nat /\ ll \in Nat
        /\ released \in Nat /\ KeyCount \in Nat
    BY Counts, CountsNext DEF Inv, TypeOK, KeyCount
  <1>2. c + l <= released + KeyCount
    BY DEF Inv, CountInv
  <1>3. \/ cc <= c + 1 /\ ll <= l
        \/ cc <= c /\ ll <= l + 1
    <2>1. ASSUME NEW S, NEW T, IsFiniteSet(S), T \subseteq S \cup {r}
          PROVE  Cardinality(T) <= Cardinality(S) + 1
      <3>1. /\ IsFiniteSet(S \cup {r}) /\ Cardinality(S) \in Nat
            /\ Cardinality(S \cup {r}) \in {Cardinality(S), Cardinality(S) + 1}
        BY <2>1, FS_AddElement, FS_CardinalityType, Zenon
      <3>2. Cardinality(T) <= Cardinality(S \cup {r}) /\ Cardinality(T) \in Nat
            /\ Cardinality(S \cup {r}) \in Nat
        BY <2>1, <3>1, FS_Subset, FS_CardinalityType
      <3> QED
        BY <3>1, <3>2
    <2> QED
      BY <2>1, Counts, FS_Subset
  <1> HIDE DEF c, l, cc, ll
  <1>4. PICK t \in Nat : t = released + KeyCount
    BY <1>1
  <1>5. cc + ll <= t + 1
    BY <1>1, <1>2, <1>3, <1>4
  <1>6. t + 1 = released' + KeyCount'
    BY <1>4, Zenon
  <1> QED
    BY <1>5, <1>6, Zenon DEF CountInv, cc, ll

LEMMA ArriveInv == ASSUME Inv, NEW r \in Attempts, Arrive(r) PROVE Inv'
  <1>1. /\ req[r] \in Requests /\ effects[r] \in Effects /\ req[r].phase = "new"
        /\ UNCHANGED <<style, effects, mishaps, released>>
    BY Here DEF Arrive
  <1>2. /\ req[r].hook = "none" /\ req[r].flush = "none" /\ req[r].tx = "none"
        /\ req[r].status = "none" /\ ~req[r].sent
    BY <1>1, Here DEF PhaseOK
  <1>3. CASE key = "none" /\ key' = "inProgress"
             /\ req' = [req EXCEPT ![r].phase = "accepted", ![r].hook = "armed"]
    <2> DEFINE q == [req[r] EXCEPT !.phase = "accepted", !.hook = "armed"]
    <2>1. req' = [req EXCEPT ![r] = q] /\ effects' = [effects EXCEPT ![r] = effects[r]]
      BY <1>1, <1>3 DEF Inv, TypeOK
    <2>2. /\ q \in Requests /\ q.phase = "accepted" /\ q.hook = "armed" /\ q.step = req[r].step
          /\ q.status = req[r].status /\ q.tx = req[r].tx /\ q.told = req[r].told
          /\ q.sent = req[r].sent /\ q.flush = req[r].flush
      BY <1>1 DEF Requests, Phases
    <2> HIDE DEF q
    <2>3. PhaseOK(q) /\ (style = "returns" => ReturnsOK(q)) /\ EffectsOK(q, effects[r])
      BY <1>1, <1>2, <2>2, Here DEF PhaseOK, ReturnsOK, EffectsOK
    <2>4. ~Lost(q) /\ ~Wins(req[r])
      BY <1>2, <2>2 DEF Lost, Wins
    <2>5. AllCounted' \subseteq AllCounted \cup {r} /\ AllLost' \subseteq AllLost
      BY <2>1, <2>4, Frame
    <2>6. released' \in Nat /\ released' + KeyCount' = released + KeyCount + 1
      BY <1>1, <1>3 DEF Inv, TypeOK, KeyCount
    <2>7. CountInv'
      BY <2>5, <2>6, CountRaised
    <2>8. key' \in Keys /\ mishaps' \in 0..MaxMishaps /\ released' <= mishaps'
      BY <1>1, <1>3 DEF Inv, TypeOK, Keys
    <2> QED
      BY <1>1, <1>3, <2>1, <2>2, <2>3, <2>4, <2>6, <2>7, <2>8, OneStep DEF Sound
  <1>4. CASE key' = key /\ req' = [req EXCEPT ![r].phase = "asking"]
    <2> DEFINE q == [req[r] EXCEPT !.phase = "asking"]
    <2>1. req' = [req EXCEPT ![r] = q]
      BY <1>4 DEF Inv, TypeOK
    <2>2. /\ q \in Requests /\ q.phase = "asking" /\ q.hook = req[r].hook /\ q.step = req[r].step
          /\ q.status = req[r].status /\ q.tx = req[r].tx /\ q.told = req[r].told
          /\ q.sent = req[r].sent /\ q.flush = req[r].flush
      BY <1>1 DEF Requests, Phases
    <2> HIDE DEF q
    <2>3. PhaseOK(q) /\ (style = "returns" => ReturnsOK(q)) /\ EffectsOK(q, effects[r])
      BY <1>1, <1>2, <2>2, Here DEF PhaseOK, ReturnsOK, EffectsOK
    <2>4. /\ Counted(q) => Counted(req[r])
          /\ Lost(q) => Lost(req[r])
          /\ Wins(req[r]) => Wins(q)
      BY <1>1, <2>2 DEF Counted, Live, Lost, Wins
    <2> QED
      BY <1>1, <1>4, <2>1, <2>2, <2>3, <2>4, QuietRequest
  <1> QED
    BY <1>3, <1>4 DEF Arrive

LEMMA CommitInv == ASSUME Inv, NEW r \in Attempts, Commit(r) PROVE Inv'
  <1> DEFINE Outcome(tx, status) == [req[r] EXCEPT !.phase = "ended", !.tx = tx, !.status = status]
  <1>1. /\ req[r] \in Requests /\ effects[r] \in Effects /\ req[r].phase = "commit"
        /\ UNCHANGED <<style, key, effects>>
    BY Here DEF Commit
  <1>2. req[r].tx = "open" /\ req[r].status = "ok"
    BY <1>1, Here DEF PhaseOK
  <1>3. ASSUME NEW tx \in {"committed", "aborted"}, NEW status \in {"ok", "error"},
               tx = "aborted" => status = "error",
               req' = [req EXCEPT ![r] = Outcome(tx, status)]
        PROVE  \E q \in Requests :
                 /\ req' = [req EXCEPT ![r] = q]
                 /\ PhaseOK(q) /\ (style = "returns" => ReturnsOK(q)) /\ EffectsOK(q, effects[r])
                 /\ Counted(q) => Counted(req[r])
                 /\ status = "ok" \/ tx = "aborted" => ~Lost(q)
                 /\ ~Wins(req[r]) /\ q.told = req[r].told
    <2> DEFINE q == Outcome(tx, status)
    <2>1. /\ q \in Requests /\ q.phase = "ended" /\ q.tx = tx /\ q.status = status
          /\ q.step = req[r].step /\ q.told = req[r].told /\ q.sent = req[r].sent
          /\ q.hook = req[r].hook /\ q.flush = req[r].flush
      BY <1>1 DEF Requests, Phases, Statuses
    <2>2. req' = [req EXCEPT ![r] = q]
      BY <1>3
    <2> HIDE DEF q
    <2>3. PhaseOK(q) /\ (style = "returns" => ReturnsOK(q)) /\ EffectsOK(q, effects[r])
      BY <1>1, <1>2, <1>3, <2>1, Here DEF PhaseOK, ReturnsOK, EffectsOK, Wins
    <2>4. /\ Counted(q) => Counted(req[r])
          /\ status = "ok" \/ tx = "aborted" => ~Lost(q)
          /\ ~Wins(req[r])
      BY <1>1, <1>2, <2>1 DEF Counted, Live, Lost, Wins
    <2> QED
      BY <2>1, <2>2, <2>3, <2>4
  <1>4. ASSUME NEW tx \in {"committed", "aborted"}, NEW status \in {"ok", "error"},
               tx = "aborted" => status = "error", status = "ok" \/ tx = "aborted",
               req' = [req EXCEPT ![r] = Outcome(tx, status)], NoMishap
        PROVE  Inv'
    <2>1. PICK q \in Requests :
             /\ req' = [req EXCEPT ![r] = q]
             /\ PhaseOK(q) /\ (style = "returns" => ReturnsOK(q)) /\ EffectsOK(q, effects[r])
             /\ Counted(q) => Counted(req[r])
             /\ ~Lost(q) /\ ~Wins(req[r]) /\ q.told = req[r].told
      BY <1>3, <1>4
    <2>2. mishaps' = mishaps /\ released' = released
      BY <1>4 DEF NoMishap
    <2> QED
      BY <1>1, <2>1, <2>2, QuietRequest
  <1>5. CASE req' = [req EXCEPT ![r].phase = "ended", ![r].tx = "committed"] /\ NoMishap
    <2>1. req' = [req EXCEPT ![r] = Outcome("committed", "ok")]
      <3>1. req' = [req EXCEPT ![r] = [req[r] EXCEPT !.phase = "ended", !.tx = "committed"]]
        BY <1>5 DEF Inv, TypeOK
      <3>2. [req[r] EXCEPT !.phase = "ended", !.tx = "committed"] = Outcome("committed", "ok")
        BY <1>1, <1>2 DEF Requests
      <3> QED
        BY <3>1, <3>2
    <2> QED
      BY <1>4, <1>5, <2>1
  <1>6. CASE /\ req' = [req EXCEPT ![r].phase = "ended", ![r].tx = "aborted", ![r].status = "error"]
             /\ NoMishap
    <2>1. req' = [req EXCEPT ![r] = Outcome("aborted", "error")]
      BY <1>6 DEF Inv, TypeOK
    <2> QED
      BY <1>4, <1>6, <2>1
  <1>7. CASE /\ req' = [req EXCEPT ![r].phase = "ended", ![r].tx = "committed", ![r].status = "error"]
             /\ Mishap /\ released' = released + 1
    <2>1. req' = [req EXCEPT ![r] = Outcome("committed", "error")]
      BY <1>7 DEF Inv, TypeOK
    <2>2. PICK q \in Requests :
             /\ req' = [req EXCEPT ![r] = q]
             /\ PhaseOK(q) /\ (style = "returns" => ReturnsOK(q)) /\ EffectsOK(q, effects[r])
             /\ Counted(q) => Counted(req[r])
             /\ ~Wins(req[r]) /\ q.told = req[r].told
      BY <1>3, <2>1
    <2>3. AllCounted' \subseteq AllCounted /\ AllLost' \subseteq AllLost \cup {r}
      BY <2>2, Frame
    <2>4. /\ mishaps' \in 0..MaxMishaps /\ released' \in Nat /\ released' <= mishaps'
          /\ released' + KeyCount' = released + KeyCount + 1
      BY <1>1, <1>7 DEF Mishap, Inv, TypeOK, KeyCount
    <2>5. CountInv'
      BY <2>3, <2>4, CountRaised
    <2>6. /\ key' \in Keys /\ key' = key /\ style' = style
          /\ effects' = [effects EXCEPT ![r] = effects[r]]
      BY <1>1 DEF Inv, TypeOK
    <2> QED
      BY <1>1, <2>2, <2>4, <2>5, <2>6, OneStep DEF Sound
  <1> QED
    BY <1>5, <1>6, <1>7 DEF Commit

\* The key may go when one request fewer counts.
LEMMA CountLowered ==
  ASSUME Inv, NEW r \in Attempts,
         AllCounted' \subseteq AllCounted, AllLost' \subseteq AllLost,
         \/ r \in AllCounted /\ r \notin AllCounted'
         \/ r \in AllLost /\ r \notin AllLost',
         released' = released
  PROVE  CountInv'
  <1> DEFINE c == Cardinality(AllCounted)   l == Cardinality(AllLost)
             cc == Cardinality(AllCounted') ll == Cardinality(AllLost')
  <1>1. /\ c \in Nat /\ l \in Nat /\ cc \in Nat /\ ll \in Nat
        /\ released \in Nat /\ KeyCount \in {0, 1} /\ KeyCount' \in {0, 1}
    BY Counts, CountsNext DEF Inv, TypeOK, KeyCount
  <1>2. c + l <= released + KeyCount
    BY DEF Inv, CountInv
  <1>3. \/ cc < c /\ ll <= l
        \/ cc <= c /\ ll < l
    <2>1. ASSUME NEW S, NEW T, IsFiniteSet(S), T \subseteq S, r \in S, r \notin T
          PROVE  Cardinality(T) < Cardinality(S)
      <3>1. /\ IsFiniteSet(S \ {r}) /\ Cardinality(S \ {r}) = Cardinality(S) - 1
            /\ Cardinality(S) \in Nat
        BY <2>1, FS_RemoveElement, FS_CardinalityType
      <3>2. T \subseteq S \ {r}
        BY <2>1
      <3>3. Cardinality(T) <= Cardinality(S \ {r}) /\ Cardinality(T) \in Nat
        BY <3>1, <3>2, FS_Subset, FS_CardinalityType
      <3> QED
        BY <3>1, <3>3
    <2>2. cc <= c /\ ll <= l
      BY Counts, FS_Subset
    <2> QED
      BY <2>1, <2>2, Counts
  <1> HIDE DEF c, l, cc, ll
  <1>4. PICK n \in Nat, k \in {0, 1} : n = released /\ k = KeyCount'
    BY <1>1
  <1>5. cc + ll <= n + k
    <2>1. c + l <= n + 1
      BY <1>1, <1>2, <1>4
    <2> QED
      BY <1>1, <1>3, <2>1
  <1>6. n = released' /\ k = KeyCount'
    BY <1>4
  <1> QED
    BY <1>5, <1>6, Zenon DEF CountInv, cc, ll

LEMMA FinishEventInv == ASSUME Inv, NEW r \in Attempts, FinishEvent(r) PROVE Inv'
  <1> DEFINE q == [req[r] EXCEPT !.hook = "finished", !.flush = Scheduled(req[r].tx)]
  <1>1. /\ req[r] \in Requests /\ effects[r] \in Effects
        /\ req[r].sent /\ req[r].hook = "armed"
        /\ req' = [req EXCEPT ![r] = q] /\ UNCHANGED <<style, effects, released>>
    BY Here DEF FinishEvent, Connected, Inv, TypeOK
  <1>2. /\ q \in Requests /\ q.phase = req[r].phase /\ q.step = req[r].step
        /\ q.status = req[r].status /\ q.tx = req[r].tx /\ q.told = req[r].told
        /\ q.sent = req[r].sent /\ q.hook = "finished" /\ q.flush = Scheduled(req[r].tx)
    <2>1. Scheduled(req[r].tx) \in {"waiting", "now"}
      BY DEF Scheduled
    <2> QED
      BY <1>1, <2>1 DEF Requests
  <1> HIDE DEF q
  <1>3. /\ req[r].tx # "none" /\ req[r].status # "none"
        /\ req[r].phase \notin {"new", "asking", "accepted", "dead"}
    BY <1>1, Here DEF PhaseOK
  <1>4. /\ PhaseOK(q)
        /\ style = "returns" => ReturnsOK(q)
        /\ Wins(req[r]) => Wins(q)
    BY <1>1, <1>2, <1>3, Here DEF PhaseOK, ReturnsOK, Wins
  <1>5. EffectsOK(q, effects[r])
    BY <1>1, <1>2, <1>3, Here DEF EffectsOK, Scheduled, Requests
  <1>6. /\ Counted(q) => Counted(req[r])
        /\ Lost(q) => Lost(req[r])
    BY <1>1, <1>2 DEF Counted, Live, Lost, Wins
  <1>7. CASE UNCHANGED key /\ Mishap
    BY <1>1, <1>2, <1>4, <1>5, <1>6, <1>7, QuietRequest
  <1>8. CASE key' = Kept(req[r].status) /\ UNCHANGED mishaps
    <2>1. req[r].status \in Statuses
      BY <1>1, <1>3 DEF Requests
    <2>2. AllCounted' \subseteq AllCounted /\ AllLost' \subseteq AllLost
      BY <1>1, <1>6, Frame
    <2>3. CountInv'
      <3>1. CASE req[r].status = "error"
        <4>1. ~Lost(q) /\ (Counted(q) => Wins(q))
          BY <1>2, <3>1 DEF Lost, Counted, Live
        <4>2. CASE Wins(q)
          <5>1. Lost(req[r])
            BY <1>1, <1>2, <3>1, <4>2 DEF Lost, Wins
          <5>2. r \in AllLost /\ r \notin AllLost'
            BY <1>1, <4>1, <5>1, Frame DEF AllLost
          <5> QED
            BY <1>1, <2>2, <5>2, CountLowered
        <4>3. CASE ~Wins(q)
          <5>1. r \in AllCounted
            BY <1>1 DEF AllCounted, Counted
          <5>2. r \notin AllCounted'
            BY <1>1, <4>1, <4>3, Frame
          <5> QED
            BY <1>1, <2>2, <5>1, <5>2, CountLowered
        <4> QED
          BY <4>2, <4>3
      <3>2. CASE req[r].status # "error"
        <4>1. key' # "none"
          BY <1>3, <1>8, <3>2 DEF Kept
        <4>2. released' \in Nat /\ released + KeyCount <= released' + KeyCount'
          BY <1>1, <4>1 DEF KeyCount, Inv, TypeOK
        <4> QED
          BY <2>2, <4>2, CountKept
      <3> QED
        BY <3>1, <3>2
    <2>4. style = "returns" /\ key' = "ok" => Wins(q)
      <3>1. key' = "ok" => req[r].status = "ok"
        BY <1>8 DEF Kept
      <3>2. style = "returns" => req[r].phase = "done"
        BY <1>1, <1>3, Here DEF ReturnsOK
      <3> QED
        BY <1>4, <3>1, <3>2, Here DEF ReturnsOK
    <2>5. key' \in Keys
      BY <1>8, <2>1 DEF Kept, Keys, Statuses
    <2>6. /\ mishaps' \in 0..MaxMishaps /\ released' \in Nat /\ released' <= mishaps'
          /\ effects' = [effects EXCEPT ![r] = effects[r]]
      BY <1>1, <1>8 DEF Inv, TypeOK
    <2> QED
      BY <1>1, <1>2, <1>4, <1>5, <2>3, <2>4, <2>5, <2>6, OneStep DEF Sound
  <1> QED
    BY <1>7, <1>8 DEF FinishEvent

-----------------------------------------------------------------------------
(* The invariant and what follows from it.                                    *)

LEMMA InitInv == ASSUME Init PROVE Inv
  <1>1. /\ style \in Styles /\ key = "none" /\ mishaps = 0 /\ released = 0
        /\ req = [r \in Attempts |-> NewRequest] /\ effects = [r \in Attempts |-> NoEffects]
    BY DEF Init
  <1>2. NewRequest \in Requests /\ NoEffects \in Effects
    <2>1. <<>> \in Seq(0..MaxRetries)
      OBVIOUS
    <2>2. NoEffects \in Effects
      BY <2>1 DEF NoEffects, Effects
    <2>3. NewRequest \in Requests
      BY DEF NewRequest, Requests, Phases, Statuses
    <2> QED
      BY <2>2, <2>3
  <1>3. TypeOK /\ released <= mishaps
    BY <1>1, <1>2 DEF TypeOK, Keys
  <1>4. Sound(style, NewRequest, NoEffects)
    <2>1. Accounted(NoEffects)
      BY DEF Accounted, NoEffects
    <2> QED
      BY <2>1 DEF Sound, PhaseOK, ReturnsOK, EffectsOK, NewRequest, NoEffects
  <1>5. LocalInv
    BY <1>1, <1>4 DEF LocalInv
  <1>6. CountInv
    <2>1. AllCounted = {} /\ AllLost = {}
      BY <1>1 DEF AllCounted, AllLost, Counted, Lost, Wins, Live, NewRequest
    <2>2. Cardinality({}) = 0
      BY FS_EmptySet
    <2> QED
      BY <1>1, <2>1, <2>2 DEF CountInv, KeyCount
  <1>7. EarnedInv
    BY <1>1 DEF EarnedInv, NewRequest
  <1> QED
    BY <1>3, <1>5, <1>6, <1>7 DEF Inv

LEMMA NextInv == ASSUME Inv, [Next]_vars PROVE Inv'
  <1>1. ASSUME NEW r \in Attempts,
               \/ Arrive(r) \/ Ask(r) \/ Begin(r) \/ Work(r) \/ AnswerDirectly(r)
               \/ Return(r) \/ Throw(r) \/ Rerun(r) \/ Commit(r) \/ Respond(r)
               \/ FinishEvent(r) \/ CloseEvent(r) \/ Flush(r) \/ RunEffect(r) \/ Crash(r)
        PROVE  Inv'
    BY <1>1, ArriveInv, AskInv, BeginInv, WorkInv, AnswerDirectlyInv, ReturnInv, ThrowInv,
       RerunInv, CommitInv, RespondInv, FinishEventInv, CloseEventInv, FlushInv, RunEffectInv,
       CrashInv
  <1>2. CASE UNCHANGED vars
    BY <1>2 DEF vars, Inv, TypeOK, LocalInv, CountInv, EarnedInv, KeyCount, AllCounted, AllLost
  <1> QED
    BY <1>1, <1>2, ExpireInv DEF Next

\* Whatever the requests, mishaps and crashes, the invariant above holds.
THEOREM WriteInvariance == Spec => []Inv
  <1>1. Init => Inv
    BY InitInv
  <1>2. Inv /\ [Next]_vars => Inv'
    BY NextInv
  <1> QED
    BY <1>1, <1>2, PTL DEF Spec

\* The requests, their effects and the key keep their types.
THEOREM WriteTypeCorrect == Spec => []TypeOK
  <1>1. Inv => TypeOK
    BY DEF Inv
  <1> QED
    BY <1>1, WriteInvariance, PTL

\* One Idempotency-Key executes its write once, and once more for each expiry of
\* the key and each lost answer to a commit, however often the client tries.
THEOREM WriteExecutedOnce == Spec => []ExecutedOnce
  <1>1. ASSUME Inv PROVE ExecutedOnce
    <2> DEFINE W == {r \in Attempts : Succeeded(r)}
    <2>1. W \subseteq AllCounted
      BY DEF AllCounted, Counted, Wins, Succeeded
    <2>2. Cardinality(W) <= Cardinality(AllCounted) /\ Cardinality(W) \in Nat
      BY <2>1, Counts, FS_Subset, FS_CardinalityType
    <2>3. Cardinality(AllCounted) + Cardinality(AllLost) <= released + KeyCount
      BY <1>1 DEF Inv, CountInv
    <2>4. released \in Nat /\ KeyCount \in {0, 1}
      BY <1>1 DEF Inv, TypeOK, KeyCount
    <2> HIDE DEF W
    <2>5. Cardinality(W) <= 1 + released
      BY <2>2, <2>3, <2>4, Counts
    <2> QED
      BY <2>5 DEF ExecutedOnce, W
  <1> QED
    BY <1>1, WriteInvariance, PTL

\* A client told of success has had its write executed, where handlers return
\* their result.
THEOREM WriteAnswersAreEarned == Spec => []AnswersAreEarned
  <1>1. Inv => AnswersAreEarned
    BY DEF Inv, EarnedInv, AnswersAreEarned, Wins, Succeeded
  <1> QED
    BY <1>1, WriteInvariance, PTL

\* No effect is queued or run while its transaction is open.
THEOREM WriteEffectsAwaitTransaction == Spec => []EffectsAwaitTransaction
  <1>1. Inv => EffectsAwaitTransaction
    BY DEF Inv, LocalInv, Sound, EffectsOK, EffectsAwaitTransaction
  <1> QED
    BY <1>1, WriteInvariance, PTL

\* No effect of a committed request is lost, crashes and early closes apart.
THEOREM WriteNoEffectLost == Spec => []NoEffectLost
  <1>1. Inv => NoEffectLost
    BY DEF Inv, LocalInv, Sound, EffectsOK, Accounted, NoEffectLost
  <1> QED
    BY <1>1, WriteInvariance, PTL
=============================================================================
