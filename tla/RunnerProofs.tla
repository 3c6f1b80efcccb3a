---------------------------- MODULE RunnerProofs ----------------------------
(***************************************************************************)
(* Proofs about what a runner of the executors does. First the publication *)
(* of runners' changes, for any set of runners, other writers and attempts:*)
(* what publish() reports is true. Then one task in the deterministic      *)
(* executor, for any number of actions, edits and lost publications: its   *)
(* dispatch moves by fences only, a continuation has its result, and a     *)
(* terminal event tells the outcome; the invariant relates the checkout a  *)
(* job started from (base), what it made of it (tree) and the branch       *)
(* (main).                                                                 *)
(***************************************************************************)
EXTENDS Publisher, StageRun, FiniteSetTheorems, TLAPS

\* An attempt is left where one is begun.
TriesLeft ==
    \A r \in Runners :
        /\ publish[r].at = "start" => publish[r].tries = 0
        /\ publish[r].at = "fetch" => publish[r].tries < MaxTries

\* A call or a push of runner r is based on a part of the branch that has no
\* commit of r; only a change that is there is no commit of its own.
BasedOn(branch, r, base, own) ==
    /\ base <= Len(branch)
    /\ own => \A i \in 1..base : branch[i] # r
    /\ ~own => \E i \in DOMAIN branch : branch[i] = r

BasesSound ==
    /\ \A r \in Runners : BasedOn(trunk, r, publish[r].base, publish[r].own)
    /\ \A q \in wire : BasedOn(trunk, q.by, q.base, q.own)

AnswersTrue == \A q \in wire : q.answer = "ok" => On(q.by)

Once == \A r \in Runners : \A i, j \in DOMAIN trunk : trunk[i] = r /\ trunk[j] = r => i = j

OkIsThere == \A r \in Runners : publish[r].at = "ok" => On(r)

\* As long as no push of the call timed out the runner knows where it is: at most
\* one push is under way, of the present base, and only that one can bring the
\* change to the branch, as the head the runner looks for.
SentBy(r) == {q \in wire : q.by = r}

Sure(r) ==
    LET p == publish[r] IN
    /\ p.at \in {"start", "fetch", "push", "failed"} => ~On(r) /\ SentBy(r) = {}
    /\ p.at = "wait" =>
         /\ \A q \in SentBy(r) : q.base = p.base /\ (q.answer # "ok" => ~On(r))
         /\ \A q1, q2 \in SentBy(r) : q1 = q2
         /\ On(r) => Holds(r)
    /\ p.at = "confirm" => SentBy(r) = {} /\ p.cause = "broken" /\ (On(r) => Holds(r))

SureUnlessTimedOut == \A r \in Runners : ~publish[r].unsure => Sure(r)

\* The inductive invariant.
PublisherIInv ==
    /\ PublisherTypeOK
    /\ TriesLeft
    /\ BasesSound
    /\ AnswersTrue
    /\ Once
    /\ OkIsThere
    /\ SureUnlessTimedOut

-----------------------------------------------------------------------------
(* What the steps change of a call.                                          *)

\* The call of r is now there, with the same change on the same base.
Stays(r, at) ==
    /\ publish' \in [Runners -> Calls]
    /\ publish'[r].at = at
    /\ publish'[r].base = publish[r].base /\ publish'[r].own = publish[r].own
    /\ publish'[r].tries = publish[r].tries
    /\ \A s \in Runners \ {r} : publish'[s] = publish[s]

\* And what it knows of the pushes before is the same.
Same(r) == publish'[r].unsure = publish[r].unsure /\ publish'[r].cause = publish[r].cause

LEMMA CallTypes ==
    ASSUME PublisherTypeOK, NEW r \in Runners
    PROVE  /\ publish \in [Runners -> Calls] /\ publish[r] \in Calls
           /\ publish[r].base \in Nat /\ publish[r].tries \in 0..MaxTries
           /\ publish[r].own \in BOOLEAN /\ publish[r].unsure \in BOOLEAN
           /\ Len(trunk) \in Nat /\ DOMAIN trunk = 1..Len(trunk)
           /\ MaxTries \in Nat \ {0}
BY PublisherAssumption DEF PublisherTypeOK, Calls

LEMMA GoesEffect ==
    ASSUME PublisherTypeOK, NEW r \in Runners, NEW to \in Phases, Goes(r, to)
    PROVE  Stays(r, to) /\ Same(r)
<1> DEFINE new == [publish[r] EXCEPT !.at = to]
<1>1. /\ new \in Calls /\ new.at = to /\ new.base = publish[r].base /\ new.own = publish[r].own
      /\ new.tries = publish[r].tries /\ new.unsure = publish[r].unsure
      /\ new.cause = publish[r].cause
  BY CallTypes DEF Calls
<1>2. publish' = [publish EXCEPT ![r] = new] /\ publish \in [Runners -> Calls]
  BY CallTypes DEF Goes
<1> HIDE DEF new
<1> QED
  BY <1>1, <1>2 DEF Stays, Same

LEMMA RecoverEffect ==
    ASSUME PublisherTypeOK, NEW r \in Runners, Recover(r)
    PROVE  \E to \in {"fetch", "failed"} : Stays(r, to) /\ Same(r)
<1> DEFINE cleared == \/ publish[r].leftover \in {"none", "abortable"}
                      \/ publish[r].leftover = "metadata" /\ publish[r].owned
           to == IF cleared THEN "fetch" ELSE "failed"
           left == IF cleared THEN "none" ELSE publish[r].leftover
           new == [publish[r] EXCEPT !.at = to, !.leftover = left]
<1>1. to \in {"fetch", "failed"} /\ left \in Leftovers
  BY CallTypes DEF Calls, Leftovers
<1>2. publish' = [publish EXCEPT ![r] = new]
  BY CallTypes DEF Recover
<1> HIDE DEF cleared, to, left
<1>3. /\ new \in Calls /\ new.at = to /\ new.base = publish[r].base /\ new.own = publish[r].own
      /\ new.tries = publish[r].tries /\ new.unsure = publish[r].unsure
      /\ new.cause = publish[r].cause
  BY <1>1, CallTypes DEF Calls, Phases, Reported
<1> HIDE DEF new
<1>4. Stays(r, to) /\ Same(r)
  BY <1>2, <1>3, CallTypes DEF Stays, Same
<1> QED
  BY <1>1, <1>4

\* The change is put on the head of the branch, or dropped as it is there, or
\* it conflicts with what is there.
LEMMA FetchEffect ==
    ASSUME PublisherTypeOK, TriesLeft, NEW r \in Runners, FetchRebase(r)
    PROVE  \/ /\ publish' \in [Runners -> Calls]
              /\ publish'[r].at = "push" /\ publish'[r].base = Len(trunk)
              /\ publish'[r].own <=> publish[r].own /\ ~On(r)
              /\ publish'[r].unsure = publish[r].unsure
              /\ \A s \in Runners \ {r} : publish'[s] = publish[s]
           \/ Stays(r, "failed") /\ Same(r) /\ ~On(r)
<1>1. CASE On(r) \/ ~publish[r].own \/ ~Conflicts(r)
  <2> DEFINE kept == publish[r].own /\ ~On(r)
             new == [publish[r] EXCEPT !.at = "push", !.tries = publish[r].tries + 1,
                                       !.base = Len(trunk), !.own = kept]
  <2>1. publish' = [publish EXCEPT ![r] = new]
    BY <1>1, CallTypes DEF FetchRebase
  <2>2. kept \in BOOLEAN
    OBVIOUS
  <2>3. publish[r].tries + 1 \in 0..MaxTries
    BY CallTypes DEF TriesLeft, FetchRebase
  <2> HIDE DEF kept
  <2>4. /\ new \in Calls /\ new.at = "push" /\ new.base = Len(trunk) /\ new.own = kept
        /\ new.unsure = publish[r].unsure
    BY <2>2, <2>3, CallTypes DEF Calls, Phases
  <2> HIDE DEF new
  <2>5. /\ publish' \in [Runners -> Calls] /\ publish'[r] = new
        /\ \A s \in Runners \ {r} : publish'[s] = publish[s]
    BY <2>1, <2>4, CallTypes
  <2>6. publish'[r].own = kept
    BY <2>4, <2>5
  <2>7. publish'[r].own <=> publish[r].own /\ ~On(r)
    BY <2>6 DEF kept
  <2> QED
    BY <2>4, <2>5, <2>7
<1>2. CASE ~(On(r) \/ ~publish[r].own \/ ~Conflicts(r))
  <2>1. Goes(r, "failed")
    BY <1>2 DEF FetchRebase
  <2> QED
    BY <1>2, <2>1, GoesEffect DEF Phases, Reported
<1> QED
  BY <1>1, <1>2

LEMMA TimeoutEffect ==
    ASSUME PublisherTypeOK, NEW r \in Runners, AnswerTimesOut(r)
    PROVE  Stays(r, "confirm") /\ publish'[r].unsure
<1> DEFINE new == [publish[r] EXCEPT !.at = "confirm", !.cause = "timeout", !.unsure = TRUE]
<1>1. /\ new \in Calls /\ new.at = "confirm" /\ new.base = publish[r].base
      /\ new.own = publish[r].own /\ new.tries = publish[r].tries /\ new.unsure = TRUE
  BY CallTypes DEF Calls, Phases
<1>2. publish' = [publish EXCEPT ![r] = new] /\ publish \in [Runners -> Calls]
  BY CallTypes DEF AnswerTimesOut
<1> HIDE DEF new
<1> QED
  BY <1>1, <1>2 DEF Stays

LEMMA BreakEffect ==
    ASSUME PublisherTypeOK, NEW r \in Runners, AnswerBreaks(r)
    PROVE  /\ Stays(r, "confirm")
           /\ publish'[r].unsure = publish[r].unsure /\ publish'[r].cause = "broken"
<1> DEFINE new == [publish[r] EXCEPT !.at = "confirm", !.cause = "broken"]
<1>1. /\ new \in Calls /\ new.at = "confirm" /\ new.base = publish[r].base
      /\ new.own = publish[r].own /\ new.tries = publish[r].tries
      /\ new.unsure = publish[r].unsure /\ new.cause = "broken"
  BY CallTypes DEF Calls, Phases
<1>2. publish' = [publish EXCEPT ![r] = new] /\ publish \in [Runners -> Calls]
  BY CallTypes DEF AnswerBreaks
<1> HIDE DEF new
<1> QED
  BY <1>1, <1>2 DEF Stays

\* An answer or a confirmation: where the call goes from there.
LEMMA AnswerEffect ==
    ASSUME PublisherTypeOK, NEW r \in Runners, NEW q \in wire, Answer(r, q)
    PROVE  \E to \in {"ok", "fetch", "failed"} :
             /\ Stays(r, to) /\ Same(r)
             /\ to = "ok" <=> q.answer = "ok"
             /\ to = "fetch" => publish[r].tries < MaxTries
<1> DEFINE to == IF q.answer = "ok" THEN "ok"
                 ELSE IF publish[r].tries < MaxTries THEN "fetch" ELSE "failed"
<1>1. to \in {"ok", "fetch", "failed"} /\ (to = "ok" <=> q.answer = "ok")
      /\ (to = "fetch" => publish[r].tries < MaxTries)
  OBVIOUS
<1>2. Goes(r, to)
  BY DEF Answer
<1> HIDE DEF to
<1> QED
  BY <1>1, <1>2, GoesEffect DEF Phases, Reported

LEMMA ConfirmEffect ==
    ASSUME PublisherTypeOK, NEW r \in Runners, Confirm(r)
    PROVE  \E to \in {"ok", "fetch", "failed", "unknown"} :
             /\ Stays(r, to) /\ Same(r)
             /\ to = "ok" <=> Holds(r)
             /\ to = "fetch" => publish[r].tries < MaxTries /\ publish[r].cause # "broken"
             /\ to = "unknown" => publish[r].cause # "broken"
<1> DEFINE to == IF Holds(r) THEN "ok"
                 ELSE IF publish[r].cause = "broken" THEN "failed"
                 ELSE IF publish[r].tries < MaxTries THEN "fetch" ELSE "unknown"
<1>1. /\ to \in {"ok", "fetch", "failed", "unknown"} /\ (to = "ok" <=> Holds(r))
      /\ to = "fetch" => publish[r].tries < MaxTries /\ publish[r].cause # "broken"
      /\ to = "unknown" => publish[r].cause # "broken"
  OBVIOUS
<1>2. Goes(r, to)
  BY DEF Confirm
<1> HIDE DEF to
<1> QED
  BY <1>1, <1>2, GoesEffect DEF Phases, Reported

-----------------------------------------------------------------------------
(* What the steps change of the branch and of the pushes under way.          *)

Changes == Runners \cup Peers

\* A branch only grows.
Grows(old, new) ==
    /\ new \in Seq(Changes) /\ Len(old) <= Len(new)
    /\ \A i \in 1..Len(old) : new[i] = old[i]

LEMMA GrowsKeepsBase ==
    ASSUME NEW old \in Seq(Changes), NEW new \in Seq(Changes), Grows(old, new),
           NEW r \in Runners, NEW base \in Nat, NEW own \in BOOLEAN, BasedOn(old, r, base, own)
    PROVE  BasedOn(new, r, base, own)
<1>1. Len(old) \in Nat /\ Len(new) \in Nat /\ DOMAIN old = 1..Len(old) /\ DOMAIN new = 1..Len(new)
  OBVIOUS
<1>2. base <= Len(new) /\ (own => \A i \in 1..base : new[i] # r)
  BY <1>1 DEF Grows, BasedOn
<1>3. ~own => \E i \in DOMAIN new : new[i] = r
  BY <1>1 DEF Grows, BasedOn
<1> QED
  BY <1>2, <1>3 DEF BasedOn

LEMMA Appended ==
    ASSUME PublisherTypeOK, NEW c \in Changes, trunk' = Append(trunk, c)
    PROVE  /\ Grows(trunk, trunk')
           /\ Len(trunk') = Len(trunk) + 1 /\ trunk'[Len(trunk) + 1] = c
           /\ \A r : On(r)' <=> On(r) \/ r = c
<1>1. trunk \in Seq(Changes) /\ Len(trunk) \in Nat
  BY DEF PublisherTypeOK, Changes
<1>2. /\ trunk' \in Seq(Changes) /\ Len(trunk') = Len(trunk) + 1 /\ trunk'[Len(trunk) + 1] = c
      /\ \A i \in 1..Len(trunk) : trunk'[i] = trunk[i]
  BY <1>1
<1>3. DOMAIN trunk = 1..Len(trunk) /\ DOMAIN trunk' = 1..(Len(trunk) + 1)
  BY <1>1, <1>2
<1> QED
  BY <1>1, <1>2, <1>3 DEF Grows, On

LEMMA Unchanged ==
    ASSUME PublisherTypeOK, trunk' = trunk
    PROVE  /\ Grows(trunk, trunk')
           /\ \A r : On(r)' <=> On(r)
<1>1. trunk \in Seq(Changes) /\ Len(trunk) \in Nat
  BY DEF PublisherTypeOK, Changes
<1> QED
  BY <1>1 DEF Grows, On

\* The push q is served with an answer.
AnsweredPush(q, answer) ==
    \E done \in Requests :
        /\ done.by = q.by /\ done.base = q.base /\ done.own = q.own /\ done.answer = answer
        /\ wire' = (wire \ {q}) \cup {done}

\* A fast-forward brings the change, another answer is ok only if it is there.
LEMMA ServeEffect ==
    ASSUME PublisherTypeOK, NEW q \in wire, Serve(q)
    PROVE  /\ publish' = publish /\ netFaults' = netFaults
           /\ q \in Requests /\ q.answer = "none"
           /\ \/ /\ q.own /\ Len(trunk) = q.base
                 /\ trunk' = Append(trunk, q.by) /\ AnsweredPush(q, "ok")
              \/ /\ trunk' = trunk /\ AnsweredPush(q, "ok")
                 /\ ~q.own \/ On(q.by)
              \/ trunk' = trunk /\ AnsweredPush(q, "rejected")
<1> DEFINE forward == Len(trunk) = q.base
           there == q.own /\ Len(trunk) = q.base + 1 /\ trunk[q.base + 1] = q.by
           answer == IF forward \/ there THEN "ok" ELSE "rejected"
           done == [q EXCEPT !.answer = answer]
<1>1. q \in Requests /\ q.by \in Runners /\ q.base \in Nat /\ q.own \in BOOLEAN
  BY DEF PublisherTypeOK, Requests
<1>2. /\ done \in Requests /\ done.by = q.by /\ done.base = q.base /\ done.own = q.own
      /\ done.answer = answer
  BY <1>1 DEF Requests
<1>3. wire' = (wire \ {q}) \cup {done}
  BY DEF Serve
<1> HIDE DEF done
<1>4. AnsweredPush(q, answer)
  BY <1>2, <1>3 DEF AnsweredPush
<1>5. there => On(q.by)
  BY <1>1, CallTypes DEF On, PublisherTypeOK
<1>6. trunk' = IF forward /\ q.own THEN Append(trunk, q.by) ELSE trunk
  BY DEF Serve
<1>7. publish' = publish /\ netFaults' = netFaults /\ q.answer = "none"
  BY DEF Serve
<1> QED
  BY <1>1, <1>4, <1>5, <1>6, <1>7

LEMMA PushEffect ==
    ASSUME PublisherTypeOK, NEW r \in Runners, Push(r)
    PROVE  \E new \in Requests :
             /\ new.by = r /\ new.base = publish[r].base /\ new.own = publish[r].own
             /\ new.answer = "none"
             /\ new \in wire' /\ wire' \subseteq wire \cup {new}
             /\ wire \ SentBy(r) \subseteq wire'
<1> DEFINE new == [by |-> r, base |-> publish[r].base, own |-> publish[r].own, answer |-> "none"]
<1>1. new \in Requests
  BY CallTypes DEF Requests
<1>2. wire' = {q \in wire : ~(q.by = r /\ q.base = publish[r].base)} \cup {new}
  BY DEF Push
<1> QED
  BY <1>1, <1>2 DEF SentBy

-----------------------------------------------------------------------------
(* The invariant, part by part.                                              *)

\* Every step keeps the types.
LEMMA StepTypes == ASSUME PublisherTypeOK, TriesLeft, PublisherNext PROVE PublisherTypeOK'
<1>1. ASSUME NEW r \in Runners, Recover(r) PROVE PublisherTypeOK'
  BY <1>1, RecoverEffect DEF Recover, Stays, PublisherTypeOK
<1>2. ASSUME NEW r \in Runners, FetchRebase(r) PROVE PublisherTypeOK'
  BY <1>2, FetchEffect DEF FetchRebase, Stays, PublisherTypeOK
<1>3. ASSUME NEW r \in Runners, LocalCommandFails(r) PROVE PublisherTypeOK'
  BY <1>3, GoesEffect, PublisherAssumption DEF LocalCommandFails, Fault, Phases, Reported,
     Stays, PublisherTypeOK
<1>4. ASSUME NEW r \in Runners, Push(r) PROVE PublisherTypeOK'
  <2>1. publish' \in [Runners -> Calls]
    BY <1>4, GoesEffect DEF Push, Phases, Stays
  <2>2. wire' \subseteq Requests
    BY <1>4, PushEffect DEF PublisherTypeOK
  <2> QED
    BY <1>4, <2>1, <2>2 DEF Push, PublisherTypeOK
<1>5. ASSUME NEW r \in Runners, NEW q \in wire, Answer(r, q) PROVE PublisherTypeOK'
  BY <1>5, AnswerEffect DEF Answer, Stays, PublisherTypeOK
<1>6. ASSUME NEW r \in Runners, AnswerTimesOut(r) PROVE PublisherTypeOK'
  <2>1. Fault /\ trunk' = trunk /\ wire' = wire
    BY <1>6 DEF AnswerTimesOut
  <2> QED
    BY <1>6, <2>1, TimeoutEffect, PublisherAssumption DEF Fault, Stays, PublisherTypeOK
<1>7. ASSUME NEW r \in Runners, AnswerBreaks(r) PROVE PublisherTypeOK'
  <2>1. Fault /\ trunk' = trunk /\ wire' \subseteq wire
    BY <1>7 DEF AnswerBreaks
  <2> QED
    BY <1>7, <2>1, BreakEffect, PublisherAssumption DEF Fault, Stays, PublisherTypeOK
<1>8. ASSUME NEW r \in Runners, Confirm(r) PROVE PublisherTypeOK'
  BY <1>8, ConfirmEffect DEF Confirm, Stays, PublisherTypeOK
<1>9. ASSUME NEW r \in Runners, ConfirmFails(r) PROVE PublisherTypeOK'
  BY <1>9, GoesEffect, PublisherAssumption DEF ConfirmFails, Fault, Phases, Reported, Stays,
     PublisherTypeOK
<1>10. ASSUME NEW q \in wire, Serve(q) PROVE PublisherTypeOK'
  <2>1. q.by \in Changes
    BY DEF PublisherTypeOK, Requests, Changes
  <2>2. trunk' \in Seq(Changes)
    BY <1>10, <2>1, ServeEffect, Appended, Unchanged DEF Grows
  <2>3. wire' \subseteq Requests
    BY <1>10, ServeEffect DEF AnsweredPush, PublisherTypeOK
  <2> QED
    BY <1>10, <2>2, <2>3, ServeEffect DEF PublisherTypeOK, Changes
<1>11. ASSUME NEW c \in Peers, PeerPush(c) PROVE PublisherTypeOK'
  BY <1>11, Appended DEF PeerPush, Changes, Grows, PublisherTypeOK
<1> QED
  BY <1>1, <1>2, <1>3, <1>4, <1>5, <1>6, <1>7, <1>8, <1>9, <1>10, <1>11 DEF PublisherNext

\* An attempt is left where one is begun.
LEMMA StepTries == ASSUME PublisherTypeOK, TriesLeft, PublisherNext PROVE TriesLeft'
<1>1. ASSUME NEW r \in Runners, Recover(r) PROVE TriesLeft'
  BY <1>1, RecoverEffect, CallTypes DEF TriesLeft, Stays, Recover
<1>2. ASSUME NEW r \in Runners, FetchRebase(r) PROVE TriesLeft'
  BY <1>2, FetchEffect DEF TriesLeft, Stays
<1>3. ASSUME NEW r \in Runners, LocalCommandFails(r) PROVE TriesLeft'
  BY <1>3, GoesEffect DEF TriesLeft, Stays, LocalCommandFails, Phases, Reported
<1>4. ASSUME NEW r \in Runners, Push(r) PROVE TriesLeft'
  BY <1>4, GoesEffect DEF TriesLeft, Stays, Push, Phases
<1>5. ASSUME NEW r \in Runners, NEW q \in wire, Answer(r, q) PROVE TriesLeft'
  BY <1>5, AnswerEffect DEF TriesLeft, Stays
<1>6. ASSUME NEW r \in Runners, AnswerTimesOut(r) PROVE TriesLeft'
  BY <1>6, TimeoutEffect DEF TriesLeft, Stays
<1>7. ASSUME NEW r \in Runners, AnswerBreaks(r) PROVE TriesLeft'
  BY <1>7, BreakEffect DEF TriesLeft, Stays
<1>8. ASSUME NEW r \in Runners, Confirm(r) PROVE TriesLeft'
  BY <1>8, ConfirmEffect DEF TriesLeft, Stays
<1>9. ASSUME NEW r \in Runners, ConfirmFails(r) PROVE TriesLeft'
  BY <1>9, GoesEffect DEF TriesLeft, Stays, ConfirmFails, Phases, Reported
<1>10. ASSUME NEW q \in wire, Serve(q) PROVE TriesLeft'
  BY <1>10 DEF Serve, TriesLeft
<1>11. ASSUME NEW c \in Peers, PeerPush(c) PROVE TriesLeft'
  BY <1>11 DEF PeerPush, TriesLeft
<1> QED
  BY <1>1, <1>2, <1>3, <1>4, <1>5, <1>6, <1>7, <1>8, <1>9, <1>10, <1>11 DEF PublisherNext

\* The branch only grows.
LEMMA StepGrows == ASSUME PublisherTypeOK, PublisherNext PROVE Grows(trunk, trunk')
<1>1. ASSUME NEW r \in Runners, Recover(r) PROVE Grows(trunk, trunk')
  BY <1>1, Unchanged DEF Recover
<1>2. ASSUME NEW r \in Runners, FetchRebase(r) PROVE Grows(trunk, trunk')
  BY <1>2, Unchanged DEF FetchRebase
<1>3. ASSUME NEW r \in Runners, LocalCommandFails(r) PROVE Grows(trunk, trunk')
  BY <1>3, Unchanged DEF LocalCommandFails
<1>4. ASSUME NEW r \in Runners, Push(r) PROVE Grows(trunk, trunk')
  BY <1>4, Unchanged DEF Push
<1>5. ASSUME NEW r \in Runners, NEW q \in wire, Answer(r, q) PROVE Grows(trunk, trunk')
  BY <1>5, Unchanged DEF Answer
<1>6. ASSUME NEW r \in Runners, AnswerTimesOut(r) PROVE Grows(trunk, trunk')
  BY <1>6, Unchanged DEF AnswerTimesOut
<1>7. ASSUME NEW r \in Runners, AnswerBreaks(r) PROVE Grows(trunk, trunk')
  BY <1>7, Unchanged DEF AnswerBreaks
<1>8. ASSUME NEW r \in Runners, Confirm(r) PROVE Grows(trunk, trunk')
  BY <1>8, Unchanged DEF Confirm
<1>9. ASSUME NEW r \in Runners, ConfirmFails(r) PROVE Grows(trunk, trunk')
  BY <1>9, Unchanged DEF ConfirmFails
<1>10. ASSUME NEW q \in wire, Serve(q) PROVE Grows(trunk, trunk')
  <2>1. q.by \in Changes
    BY DEF PublisherTypeOK, Requests, Changes
  <2> QED
    BY <1>10, <2>1, ServeEffect, Appended, Unchanged
<1>11. ASSUME NEW c \in Peers, PeerPush(c) PROVE Grows(trunk, trunk')
  BY <1>11, Appended DEF PeerPush, Changes
<1> QED
  BY <1>1, <1>2, <1>3, <1>4, <1>5, <1>6, <1>7, <1>8, <1>9, <1>10, <1>11 DEF PublisherNext

\* The bases of calls and pushes stay sound while the branch grows.
LEMMA StepBases == ASSUME PublisherIInv, PublisherNext PROVE BasesSound'
<1>1. trunk \in Seq(Changes) /\ trunk' \in Seq(Changes) /\ Grows(trunk, trunk')
  BY StepGrows DEF Grows, PublisherIInv, PublisherTypeOK, Changes
<1>2. \A r \in Runners : BasedOn(trunk', r, publish[r].base, publish[r].own)
  BY <1>1, GrowsKeepsBase, CallTypes DEF PublisherIInv, BasesSound
<1>3. \A q \in wire : q \in Requests /\ BasedOn(trunk', q.by, q.base, q.own)
  BY <1>1, GrowsKeepsBase DEF PublisherIInv, BasesSound, PublisherTypeOK, Requests
<1>4. \A r \in Runners : BasedOn(trunk', r, publish'[r].base, publish'[r].own)
  <2>1. ASSUME NEW s \in Runners,
               Recover(s) \/ LocalCommandFails(s) \/ Push(s) \/ (\E q \in wire : Answer(s, q))
               \/ AnswerTimesOut(s) \/ AnswerBreaks(s) \/ Confirm(s) \/ ConfirmFails(s)
        PROVE  \E at \in Phases : Stays(s, at)
    <3>1. PublisherTypeOK
      BY DEF PublisherIInv
    <3> QED
      BY <2>1, <3>1, RecoverEffect, GoesEffect, AnswerEffect, TimeoutEffect, BreakEffect,
         ConfirmEffect
         DEF LocalCommandFails, Push, ConfirmFails, Phases, Reported
  <2>2. ASSUME NEW s \in Runners, NEW at \in Phases, Stays(s, at)
        PROVE  \A r \in Runners : BasedOn(trunk', r, publish'[r].base, publish'[r].own)
    BY <1>2, <2>2 DEF Stays
  <2>3. ASSUME NEW s \in Runners, FetchRebase(s)
        PROVE  \A r \in Runners : BasedOn(trunk', r, publish'[r].base, publish'[r].own)
    <3>1. trunk' = trunk /\ Len(trunk) \in Nat /\ DOMAIN trunk = 1..Len(trunk)
      BY <2>3, CallTypes DEF FetchRebase, PublisherIInv
    <3>2. CASE Stays(s, "failed")
      BY <3>2, <2>2 DEF Phases, Reported
    <3>3. CASE /\ publish'[s].base = Len(trunk) /\ (publish'[s].own <=> publish[s].own /\ ~On(s))
               /\ \A r \in Runners \ {s} : publish'[r] = publish[r]
      <4>1. publish'[s].own => \A i \in 1..Len(trunk) : trunk'[i] # s
        BY <3>1, <3>3 DEF On
      <4>2. ~publish[s].own => On(s)
        BY DEF PublisherIInv, BasesSound, BasedOn, On
      <4>3. ~publish'[s].own => \E i \in DOMAIN trunk' : trunk'[i] = s
        BY <3>1, <3>3, <4>2 DEF On
      <4>4. BasedOn(trunk', s, publish'[s].base, publish'[s].own)
        BY <3>1, <3>3, <4>1, <4>3 DEF BasedOn
      <4> QED
        BY <1>2, <3>3, <4>4
    <3> QED
      BY <2>3, <3>2, <3>3, FetchEffect DEF PublisherIInv
  <2>4. CASE publish' = publish
    BY <1>2, <2>4
  <2> QED
    BY <2>1, <2>2, <2>3, <2>4 DEF PublisherNext, Serve, PeerPush
<1>5. \A q \in wire' : BasedOn(trunk', q.by, q.base, q.own)
  <2>1. ASSUME NEW r \in Runners, Push(r)
        PROVE  \A q \in wire' : BasedOn(trunk', q.by, q.base, q.own)
    BY <1>2, <1>3, <2>1, PushEffect DEF PublisherIInv
  <2>2. ASSUME NEW q \in wire, Serve(q)
        PROVE  \A p \in wire' : BasedOn(trunk', p.by, p.base, p.own)
    BY <1>3, <2>2, ServeEffect DEF AnsweredPush, PublisherIInv
  <2>3. CASE wire' \subseteq wire
    BY <1>3, <2>3
  <2> QED
    BY <2>1, <2>2, <2>3 DEF PublisherNext, Recover, FetchRebase, LocalCommandFails, Answer,
       AnswerTimesOut, AnswerBreaks, Confirm, ConfirmFails, PeerPush
<1> QED
  BY <1>4, <1>5 DEF BasesSound

\* What is appended is not there yet, or is no change of a runner.
LEMMA AppendsOnce ==
    ASSUME PublisherTypeOK, Once, NEW c \in Changes, trunk' = Append(trunk, c),
           c \in Runners => \A i \in DOMAIN trunk : trunk[i] # c
    PROVE  Once'
<1>1. trunk \in Seq(Changes) /\ Len(trunk) \in Nat /\ DOMAIN trunk = 1..Len(trunk)
  BY CallTypes DEF PublisherTypeOK, Changes
<1>2. /\ DOMAIN trunk' = 1..(Len(trunk) + 1)
      /\ trunk'[Len(trunk) + 1] = c /\ \A i \in 1..Len(trunk) : trunk'[i] = trunk[i]
  BY <1>1
<1> QED
  BY <1>1, <1>2 DEF Once

\* A head that the branch holds is a change that is there.
LEMMA HoldsIsOn ==
    ASSUME PublisherIInv, NEW r \in Runners, Holds(r)
    PROVE  On(r)
<1>1. CASE publish[r].own
  BY <1>1, CallTypes DEF Holds, On, PublisherIInv
<1>2. CASE ~publish[r].own
  BY <1>2 DEF PublisherIInv, BasesSound, BasedOn, On
<1> QED
  BY <1>1, <1>2

\* An answer ok is true.
LEMMA StepAnswers == ASSUME PublisherIInv, PublisherNext PROVE AnswersTrue'
<1>1. ASSUME NEW r \in Runners, Recover(r) PROVE AnswersTrue'
  BY <1>1, Unchanged DEF Recover, AnswersTrue, PublisherIInv
<1>2. ASSUME NEW r \in Runners, FetchRebase(r) PROVE AnswersTrue'
  BY <1>2, Unchanged DEF FetchRebase, AnswersTrue, PublisherIInv
<1>3. ASSUME NEW r \in Runners, LocalCommandFails(r) PROVE AnswersTrue'
  BY <1>3, Unchanged DEF LocalCommandFails, AnswersTrue, PublisherIInv
<1>4. ASSUME NEW r \in Runners, Push(r) PROVE AnswersTrue'
  BY <1>4, PushEffect, Unchanged DEF Push, PublisherIInv, AnswersTrue
<1>5. ASSUME NEW r \in Runners, NEW q \in wire, Answer(r, q) PROVE AnswersTrue'
  BY <1>5, Unchanged DEF Answer, AnswersTrue, PublisherIInv
<1>6. ASSUME NEW r \in Runners, AnswerTimesOut(r) PROVE AnswersTrue'
  BY <1>6, Unchanged DEF AnswerTimesOut, AnswersTrue, PublisherIInv
<1>7. ASSUME NEW r \in Runners, AnswerBreaks(r) PROVE AnswersTrue'
  BY <1>7, Unchanged DEF AnswerBreaks, AnswersTrue, PublisherIInv
<1>8. ASSUME NEW r \in Runners, Confirm(r) PROVE AnswersTrue'
  BY <1>8, Unchanged DEF Confirm, AnswersTrue, PublisherIInv
<1>9. ASSUME NEW r \in Runners, ConfirmFails(r) PROVE AnswersTrue'
  BY <1>9, Unchanged DEF ConfirmFails, AnswersTrue, PublisherIInv
<1>10. ASSUME NEW q \in wire, Serve(q) PROVE AnswersTrue'
  <2>1. CASE trunk' = Append(trunk, q.by) /\ AnsweredPush(q, "ok")
    <3>1. \A r : On(r)' <=> On(r) \/ r = q.by
      BY <2>1, Appended DEF PublisherIInv, PublisherTypeOK, Requests, Changes
    <3> QED
      BY <2>1, <3>1 DEF AnsweredPush, AnswersTrue, PublisherIInv
  <2>2. CASE trunk' = trunk /\ AnsweredPush(q, "ok") /\ (~q.own \/ On(q.by))
    <3>1. On(q.by)
      BY <2>2 DEF PublisherIInv, BasesSound, BasedOn, On
    <3> QED
      BY <2>2, <3>1, Unchanged DEF AnsweredPush, AnswersTrue, PublisherIInv
  <2>3. CASE trunk' = trunk /\ AnsweredPush(q, "rejected")
    BY <2>3, Unchanged DEF AnsweredPush, AnswersTrue, PublisherIInv
  <2> QED
    BY <1>10, <2>1, <2>2, <2>3, ServeEffect DEF PublisherIInv
<1>11. ASSUME NEW c \in Peers, PeerPush(c) PROVE AnswersTrue'
  BY <1>11, Appended DEF PeerPush, Changes, AnswersTrue, PublisherIInv
<1> QED
  BY <1>1, <1>2, <1>3, <1>4, <1>5, <1>6, <1>7, <1>8, <1>9, <1>10, <1>11 DEF PublisherNext

\* No change comes to the branch twice.
LEMMA StepOnce == ASSUME PublisherIInv, PublisherNext PROVE Once'
<1>1. ASSUME NEW r \in Runners, Recover(r) PROVE Once'
  BY <1>1 DEF Recover, Once, PublisherIInv
<1>2. ASSUME NEW r \in Runners, FetchRebase(r) PROVE Once'
  BY <1>2 DEF FetchRebase, Once, PublisherIInv
<1>3. ASSUME NEW r \in Runners, LocalCommandFails(r) PROVE Once'
  BY <1>3 DEF LocalCommandFails, Once, PublisherIInv
<1>4. ASSUME NEW r \in Runners, Push(r) PROVE Once'
  BY <1>4 DEF Push, Once, PublisherIInv
<1>5. ASSUME NEW r \in Runners, NEW q \in wire, Answer(r, q) PROVE Once'
  BY <1>5 DEF Answer, Once, PublisherIInv
<1>6. ASSUME NEW r \in Runners, AnswerTimesOut(r) PROVE Once'
  BY <1>6 DEF AnswerTimesOut, Once, PublisherIInv
<1>7. ASSUME NEW r \in Runners, AnswerBreaks(r) PROVE Once'
  BY <1>7 DEF AnswerBreaks, Once, PublisherIInv
<1>8. ASSUME NEW r \in Runners, Confirm(r) PROVE Once'
  BY <1>8 DEF Confirm, Once, PublisherIInv
<1>9. ASSUME NEW r \in Runners, ConfirmFails(r) PROVE Once'
  BY <1>9 DEF ConfirmFails, Once, PublisherIInv
<1>10. ASSUME NEW q \in wire, Serve(q) PROVE Once'
  <2>1. CASE q.own /\ Len(trunk) = q.base /\ trunk' = Append(trunk, q.by)
    <3>1. \A i \in DOMAIN trunk : trunk[i] # q.by
      BY <2>1, CallTypes DEF PublisherIInv, BasesSound, BasedOn
    <3>2. q.by \in Runners /\ q.by \in Changes
      BY DEF PublisherIInv, PublisherTypeOK, Requests, Changes
    <3> QED
      BY <2>1, <3>1, <3>2, AppendsOnce DEF PublisherIInv
  <2> QED
    BY <1>10, <2>1, ServeEffect DEF Once, PublisherIInv
<1>11. ASSUME NEW c \in Peers, PeerPush(c) PROVE Once'
  <2>1. c \notin Runners /\ c \in Changes
    BY PublisherAssumption DEF Changes
  <2> QED
    BY <1>11, <2>1, AppendsOnce DEF PeerPush, PublisherIInv
<1> QED
  BY <1>1, <1>2, <1>3, <1>4, <1>5, <1>6, <1>7, <1>8, <1>9, <1>10, <1>11 DEF PublisherNext

\* What is reported as published is there.
LEMMA StepOk == ASSUME PublisherIInv, PublisherNext PROVE OkIsThere'
<1>1. ASSUME NEW r \in Runners, Recover(r) PROVE OkIsThere'
  BY <1>1, RecoverEffect, Unchanged DEF Recover, Stays, OkIsThere, PublisherIInv
<1>2. ASSUME NEW r \in Runners, FetchRebase(r) PROVE OkIsThere'
  BY <1>2, FetchEffect, Unchanged DEF FetchRebase, Stays, OkIsThere, PublisherIInv
<1>3. ASSUME NEW r \in Runners, LocalCommandFails(r) PROVE OkIsThere'
  BY <1>3, GoesEffect, Unchanged DEF LocalCommandFails, Phases, Reported, Stays, OkIsThere,
     PublisherIInv
<1>4. ASSUME NEW r \in Runners, Push(r) PROVE OkIsThere'
  BY <1>4, GoesEffect, Unchanged DEF Push, Phases, Stays, OkIsThere, PublisherIInv
<1>5. ASSUME NEW r \in Runners, NEW q \in wire, Answer(r, q) PROVE OkIsThere'
  <2>1. q.by = r /\ trunk' = trunk
    BY <1>5 DEF Answer
  <2>2. q.answer = "ok" => On(r)
    BY <2>1 DEF PublisherIInv, AnswersTrue
  <2> QED
    BY <1>5, <2>1, <2>2, AnswerEffect, Unchanged DEF Stays, OkIsThere, PublisherIInv
<1>6. ASSUME NEW r \in Runners, AnswerTimesOut(r) PROVE OkIsThere'
  BY <1>6, TimeoutEffect, Unchanged DEF AnswerTimesOut, Stays, OkIsThere, PublisherIInv
<1>7. ASSUME NEW r \in Runners, AnswerBreaks(r) PROVE OkIsThere'
  BY <1>7, BreakEffect, Unchanged DEF AnswerBreaks, Stays, OkIsThere, PublisherIInv
<1>8. ASSUME NEW r \in Runners, Confirm(r) PROVE OkIsThere'
  <2>1. Holds(r) => On(r)
    BY HoldsIsOn DEF PublisherIInv
  <2>2. trunk' = trunk
    BY <1>8 DEF Confirm
  <2> QED
    BY <1>8, <2>1, <2>2, ConfirmEffect, Unchanged DEF Stays, OkIsThere, PublisherIInv
<1>9. ASSUME NEW r \in Runners, ConfirmFails(r) PROVE OkIsThere'
  BY <1>9, GoesEffect, Unchanged DEF ConfirmFails, Phases, Reported, Stays, OkIsThere, PublisherIInv
<1>10. ASSUME NEW q \in wire, Serve(q) PROVE OkIsThere'
  <2>1. q.by \in Changes
    BY DEF PublisherIInv, PublisherTypeOK, Requests, Changes
  <2> QED
    BY <1>10, <2>1, ServeEffect, Appended, Unchanged DEF OkIsThere, PublisherIInv
<1>11. ASSUME NEW c \in Peers, PeerPush(c) PROVE OkIsThere'
  BY <1>11, Appended DEF PeerPush, Changes, OkIsThere, PublisherIInv
<1> QED
  BY <1>1, <1>2, <1>3, <1>4, <1>5, <1>6, <1>7, <1>8, <1>9, <1>10, <1>11 DEF PublisherNext

\* A head that the branch holds stays where it is.
LEMMA HoldsStays ==
    ASSUME PublisherIInv, PublisherNext, NEW r \in Runners, publish'[r].base = publish[r].base,
           publish'[r].own = publish[r].own, Holds(r)
    PROVE  Holds(r)'
<1>1. trunk' \in Seq(Changes) /\ Grows(trunk, trunk')
  BY StepGrows DEF Grows, PublisherIInv
<1>2. Len(trunk') \in Nat /\ Len(trunk) \in Nat /\ publish[r].base \in Nat
  BY <1>1, CallTypes DEF PublisherIInv
<1>3. CASE publish[r].own
  <2>1. Len(trunk) > publish[r].base /\ trunk[publish[r].base + 1] = r
    BY <1>3 DEF Holds
  <2>2. trunk'[publish[r].base + 1] = r /\ Len(trunk') > publish[r].base
    BY <1>1, <1>2, <2>1 DEF Grows
  <2> QED
    BY <2>2 DEF Holds
<1>4. CASE ~publish[r].own
  BY <1>4 DEF Holds
<1> QED
  BY <1>3, <1>4

\* A step that changes neither the call of r, nor its pushes, nor whether its
\* change is on the branch leaves it sure.
LEMMA OtherStaysSure ==
    ASSUME PublisherIInv, PublisherNext, NEW r \in Runners, publish'[r] = publish[r],
           SentBy(r)' = SentBy(r), On(r)' <=> On(r), Sure(r)
    PROVE  Sure(r)'
<1>1. Holds(r) => Holds(r)'
  BY HoldsStays
<1> QED
  BY <1>1 DEF Sure

\* What a step of runner s leaves alone for another.
LEMMA OwnStep ==
    ASSUME PublisherIInv, NEW s \in Runners,
           \/ Recover(s) \/ FetchRebase(s) \/ LocalCommandFails(s) \/ Push(s)
           \/ (\E q \in wire : Answer(s, q)) \/ AnswerTimesOut(s) \/ AnswerBreaks(s)
           \/ Confirm(s) \/ ConfirmFails(s)
    PROVE  /\ \A r \in Runners \ {s} : publish'[r] = publish[r] /\ SentBy(r)' = SentBy(r)
           /\ \A r : On(r)' <=> On(r)
<1>1. PublisherTypeOK /\ TriesLeft
  BY DEF PublisherIInv
<1>2. \A r \in Runners \ {s} : publish'[r] = publish[r]
  <2>1. ASSUME NEW at \in Phases, Stays(s, at)
        PROVE  \A r \in Runners \ {s} : publish'[r] = publish[r]
    BY <2>1 DEF Stays
  <2> QED
    BY <1>1, <2>1, RecoverEffect, FetchEffect, GoesEffect, AnswerEffect, TimeoutEffect,
       BreakEffect,
       ConfirmEffect DEF LocalCommandFails, Push, ConfirmFails, Phases, Reported
<1>3. \A r \in Runners \ {s} : SentBy(r)' = SentBy(r)
  <2>1. CASE Push(s)
    BY <1>1, <2>1, PushEffect DEF SentBy
  <2>2. CASE AnswerBreaks(s)
    BY <2>2 DEF AnswerBreaks, SentBy
  <2>3. ASSUME NEW q \in wire, Answer(s, q) PROVE \A r \in Runners \ {s} : SentBy(r)' = SentBy(r)
    BY <2>3 DEF Answer, SentBy
  <2>4. CASE wire' = wire
    BY <2>4 DEF SentBy
  <2> QED
    BY <2>1, <2>2, <2>3, <2>4 DEF Recover, FetchRebase, LocalCommandFails, AnswerTimesOut,
       Confirm,
       ConfirmFails
<1>4. trunk' = trunk
  BY DEF Recover, FetchRebase, LocalCommandFails, Push, Answer, AnswerTimesOut, AnswerBreaks,
     Confirm,
     ConfirmFails
<1> QED
  BY <1>1, <1>2, <1>3, <1>4, Unchanged

\* The runner itself.
LEMMA OwnStaysSure ==
    ASSUME PublisherIInv, PublisherNext, NEW r \in Runners, ~publish'[r].unsure,
           \/ Recover(r) \/ FetchRebase(r) \/ LocalCommandFails(r) \/ Push(r)
           \/ (\E q \in wire : Answer(r, q)) \/ AnswerTimesOut(r) \/ AnswerBreaks(r)
           \/ Confirm(r) \/ ConfirmFails(r)
    PROVE  Sure(r)'
<1>1. PublisherTypeOK /\ TriesLeft /\ (On(r)' <=> On(r)) /\ (~publish[r].unsure => Sure(r))
  BY OwnStep DEF PublisherIInv, SureUnlessTimedOut
<1>2. CASE Recover(r)
  <2>1. publish[r].at = "start" /\ wire' = wire
    BY <1>2 DEF Recover
  <2> QED
    BY <1>1, <1>2, <2>1, RecoverEffect DEF Sure, SentBy, Stays, Same
<1>3. CASE FetchRebase(r)
  <2>1. publish[r].at = "fetch" /\ wire' = wire
    BY <1>3 DEF FetchRebase
  <2> QED
    BY <1>1, <1>3, <2>1, FetchEffect DEF Sure, SentBy, Stays, Same
<1>4. CASE LocalCommandFails(r)
  <2>1. publish[r].at = "fetch" /\ wire' = wire
    BY <1>4 DEF LocalCommandFails
  <2> QED
    BY <1>1, <1>4, <2>1, GoesEffect DEF LocalCommandFails, Phases, Reported, Sure, SentBy, Stays,
       Same
<1>5. CASE Push(r)
  <2>1. publish[r].at = "push"
    BY <1>5 DEF Push
  <2>2. Stays(r, "wait") /\ Same(r)
    BY <1>1, <1>5, GoesEffect DEF Push, Phases
  <2>3. ~On(r) /\ SentBy(r) = {}
    BY <1>1, <2>1, <2>2 DEF Sure, Same
  <2>4. PICK new \in Requests : /\ new.base = publish[r].base /\ new.by = r
                                /\ wire' \subseteq wire \cup {new}
    BY <1>1, <1>5, PushEffect
  <2>5. SentBy(r)' \subseteq {new}
    BY <2>3, <2>4 DEF SentBy
  <2> QED
    BY <1>1, <2>2, <2>3, <2>4, <2>5 DEF Sure, Stays
<1>6. ASSUME NEW q \in wire, Answer(r, q) PROVE Sure(r)'
  <2>1. publish[r].at = "wait" /\ q \in SentBy(r) /\ wire' = wire \ {q}
    BY <1>6 DEF Answer, SentBy
  <2>2. PICK to \in {"ok", "fetch", "failed"} : /\ Stays(r, to) /\ Same(r)
                                                /\ to = "ok" <=> q.answer = "ok"
    BY <1>1, <1>6, AnswerEffect
  <2>3. SentBy(r)' = {} /\ (q.answer # "ok" => ~On(r))
    BY <1>1, <2>1, <2>2 DEF Sure, Same, SentBy
  <2> QED
    BY <1>1, <2>2, <2>3 DEF Sure, Stays
<1>7. CASE AnswerTimesOut(r)
  BY <1>1, <1>7, TimeoutEffect
<1>8. CASE AnswerBreaks(r)
  <2>1. publish[r].at = "wait"
    BY <1>8 DEF AnswerBreaks
  <2>2. Stays(r, "confirm") /\ publish'[r].unsure = publish[r].unsure /\ publish'[r].cause = "broken"
    BY <1>1, <1>8, BreakEffect
  <2>3. SentBy(r)' = {} /\ (On(r) => Holds(r))
    BY <1>1, <1>8, <2>1, <2>2 DEF AnswerBreaks, Sure, SentBy
  <2>4. Holds(r) => Holds(r)'
    BY <2>2, HoldsStays DEF Stays
  <2> QED
    BY <1>1, <2>2, <2>3, <2>4 DEF Sure, Stays
<1>9. CASE Confirm(r)
  <2>1. publish[r].at = "confirm" /\ wire' = wire
    BY <1>9 DEF Confirm
  <2>2. PICK to \in {"ok", "fetch", "failed", "unknown"} :
          /\ Stays(r, to) /\ Same(r)
          /\ to = "ok" <=> Holds(r)
          /\ to = "fetch" => publish[r].tries < MaxTries /\ publish[r].cause # "broken"
    BY <1>1, <1>9, ConfirmEffect
  <2>3. publish[r].cause = "broken" /\ SentBy(r) = {} /\ (On(r) => Holds(r))
    BY <1>1, <2>1, <2>2 DEF Sure, Same
  <2> QED
    BY <1>1, <2>1, <2>2, <2>3 DEF Sure, SentBy, Stays
<1>10. CASE ConfirmFails(r)
  BY <1>1, <1>10, GoesEffect DEF ConfirmFails, Phases, Reported, Sure, Stays
<1> QED
  BY <1>2, <1>3, <1>4, <1>5, <1>6, <1>7, <1>8, <1>9, <1>10

\* The remote serves a push: that of a sure runner is the only one it has sent.
LEMMA ServeStaysSure ==
    ASSUME PublisherIInv, PublisherNext, NEW q \in wire, Serve(q), ~publish[q.by].unsure
    PROVE  Sure(q.by)'
<1>1. PublisherTypeOK /\ q \in Requests /\ q.by \in Runners /\ q.by \in Changes /\ q.base \in Nat
  BY DEF PublisherIInv, PublisherTypeOK, Requests, Changes
<1>2. publish' = publish /\ q.answer = "none"
  BY <1>1, ServeEffect
<1>3. Sure(q.by) /\ q \in SentBy(q.by)
  BY <1>1 DEF PublisherIInv, SureUnlessTimedOut, SentBy
<1>4. CASE publish[q.by].at = "wait"
  <2>1. q.base = publish[q.by].base /\ ~On(q.by) /\ SentBy(q.by) = {q}
    BY <1>2, <1>3, <1>4 DEF Sure
  <2>2. q.own
    BY <2>1 DEF PublisherIInv, BasesSound, BasedOn, On
  <2>3. ASSUME NEW answer, AnsweredPush(q, answer)
        PROVE  /\ \A p1, p2 \in SentBy(q.by)' : p1 = p2
               /\ \A p \in SentBy(q.by)' : p.base = q.base /\ p.answer = answer
    BY <2>1, <2>3 DEF AnsweredPush, SentBy
  <2>4. CASE /\ q.own /\ Len(trunk) = q.base
             /\ trunk' = Append(trunk, q.by) /\ AnsweredPush(q, "ok")
    <3>1. Len(trunk') = q.base + 1 /\ trunk'[q.base + 1] = q.by
      BY <1>1, <2>4, Appended
    <3>2. Holds(q.by)'
      BY <1>1, <1>2, <2>1, <3>1 DEF Holds
    <3> QED
      BY <1>2, <1>4, <2>1, <2>3, <2>4, <3>2 DEF Sure
  <2>5. CASE trunk' = trunk /\ AnsweredPush(q, "rejected")
    <3>1. ~On(q.by)'
      BY <1>1, <2>1, <2>5, Unchanged
    <3> QED
      BY <1>2, <1>4, <2>1, <2>3, <2>5, <3>1 DEF Sure
  <2> QED
    BY <1>1, <2>1, <2>2, <2>4, <2>5, ServeEffect
<1>5. CASE publish[q.by].at # "wait"
  <2>1. publish[q.by].at \notin {"start", "fetch", "push", "failed", "confirm"}
    BY <1>3, <1>5 DEF Sure
  <2> QED
    BY <1>2, <1>5, <2>1 DEF Sure
<1> QED
  BY <1>4, <1>5

\* A runner none of whose pushes timed out knows where it is.
LEMMA StepSure == ASSUME PublisherIInv, PublisherNext PROVE SureUnlessTimedOut'
<1> SUFFICES ASSUME NEW r \in Runners, ~publish'[r].unsure PROVE Sure(r)'
  BY DEF SureUnlessTimedOut
<1>1. ASSUME NEW s \in Runners,
             \/ Recover(s) \/ FetchRebase(s) \/ LocalCommandFails(s) \/ Push(s)
             \/ (\E q \in wire : Answer(s, q)) \/ AnswerTimesOut(s) \/ AnswerBreaks(s)
             \/ Confirm(s) \/ ConfirmFails(s)
      PROVE  Sure(r)'
  <2>1. CASE r = s
    BY <1>1, <2>1, OwnStaysSure
  <2>2. CASE r # s
    <3>1. publish'[r] = publish[r] /\ SentBy(r)' = SentBy(r) /\ (On(r)' <=> On(r))
      BY <1>1, <2>2, OwnStep
    <3>2. Sure(r)
      BY <3>1 DEF PublisherIInv, SureUnlessTimedOut
    <3> QED
      BY <3>1, <3>2, OtherStaysSure
  <2> QED
    BY <2>1, <2>2
<1>2. ASSUME NEW q \in wire, Serve(q) PROVE Sure(r)'
  <2>1. publish' = publish /\ Sure(r)
    BY <1>2, ServeEffect DEF PublisherIInv, SureUnlessTimedOut
  <2>2. CASE r = q.by
    BY <1>2, <2>1, <2>2, ServeStaysSure
  <2>3. CASE r # q.by
    <3>1. q.by \in Changes
      BY DEF PublisherIInv, PublisherTypeOK, Requests, Changes
    <3>2. SentBy(r)' = SentBy(r) /\ (On(r)' <=> On(r))
      BY <1>2, <2>3, <3>1, ServeEffect, Appended, Unchanged DEF AnsweredPush, SentBy, PublisherIInv
    <3> QED
      BY <2>1, <3>2, OtherStaysSure
  <2> QED
    BY <2>2, <2>3
<1>3. ASSUME NEW c \in Peers, PeerPush(c) PROVE Sure(r)'
  <2>1. publish' = publish /\ Sure(r) /\ SentBy(r)' = SentBy(r)
    BY <1>3 DEF PeerPush, PublisherIInv, SureUnlessTimedOut, SentBy
  <2>2. On(r)' <=> On(r)
    BY <1>3, Appended, PublisherAssumption DEF PeerPush, Changes, PublisherIInv
  <2> QED
    BY <2>1, <2>2, OtherStaysSure
<1> QED
  BY <1>1, <1>2, <1>3 DEF PublisherNext

-----------------------------------------------------------------------------
(* The theorems.                                                             *)

LEMMA StartIsCall ==
    ASSUME NEW l \in Leftovers, NEW o \in BOOLEAN
    PROVE  [at |-> "start", base |-> 0, own |-> TRUE, tries |-> 0, unsure |-> FALSE,
            cause |-> "none", leftover |-> l, owned |-> o] \in Calls
BY PublisherAssumption DEF Calls, Phases

LEMMA InitIInv == PublisherInit => PublisherIInv
<1> SUFFICES ASSUME PublisherInit PROVE PublisherIInv
  OBVIOUS
<1>1. \A r \in Runners :
        /\ publish[r] \in Calls
        /\ publish[r].at = "start" /\ publish[r].base = 0 /\ publish[r].own
        /\ publish[r].tries = 0 /\ ~publish[r].unsure
  <2> SUFFICES ASSUME NEW r \in Runners
               PROVE  /\ publish[r] \in Calls
                      /\ publish[r].at = "start" /\ publish[r].base = 0 /\ publish[r].own
                      /\ publish[r].tries = 0 /\ ~publish[r].unsure
    OBVIOUS
  <2>1. publish[r] \in [at : {"start"}, base : {0}, own : {TRUE}, tries : {0}, unsure : {FALSE},
                        cause : {"none"}, leftover : Leftovers, owned : BOOLEAN]
    BY DEF PublisherInit
  <2>2. publish[r].own = TRUE /\ publish[r].unsure = FALSE
    BY <2>1
  <2>3. publish[r].at = "start" /\ publish[r].base = 0 /\ publish[r].tries = 0
    BY <2>1
  <2>4. /\ publish[r].leftover \in Leftovers /\ publish[r].owned \in BOOLEAN
        /\ publish[r] = [at |-> "start", base |-> 0, own |-> TRUE, tries |-> 0, unsure |-> FALSE,
                         cause |-> "none", leftover |-> publish[r].leftover,
                         owned |-> publish[r].owned]
    BY <2>1
  <2>5. publish[r] \in Calls
    BY <2>4, StartIsCall
  <2> QED
    BY <2>2, <2>3, <2>5
<1>2. PublisherTypeOK
  BY <1>1, PublisherAssumption DEF PublisherInit, PublisherTypeOK
<1>3. Len(trunk) = 0 /\ DOMAIN trunk = {} /\ wire = {}
  BY DEF PublisherInit
<1>4. BasesSound
  BY <1>1, <1>3 DEF BasesSound, BasedOn
<1>5. SureUnlessTimedOut
  BY <1>1, <1>3 DEF SureUnlessTimedOut, Sure, On, SentBy
<1> QED
  BY <1>1, <1>2, <1>3, <1>4, <1>5 DEF PublisherIInv, TriesLeft, AnswersTrue, Once, OkIsThere

LEMMA NextIInv == PublisherIInv /\ [PublisherNext]_publisherVars => PublisherIInv'
<1> SUFFICES ASSUME PublisherIInv, [PublisherNext]_publisherVars PROVE PublisherIInv'
  OBVIOUS
<1>1. CASE PublisherNext
  <2>1. PublisherTypeOK /\ TriesLeft
    BY DEF PublisherIInv
  <2> QED
    BY <1>1, <2>1, StepTypes, StepTries, StepBases, StepAnswers, StepOnce, StepOk,
       StepSure DEF PublisherIInv
<1>2. CASE UNCHANGED publisherVars
  BY <1>2 DEF publisherVars, PublisherIInv, PublisherTypeOK, TriesLeft, BasesSound, AnswersTrue, Once,
     OkIsThere,
     SureUnlessTimedOut, Sure, SentBy, On, Holds
<1> QED
  BY <1>1, <1>2

\* At most one position of the branch holds a change, so at most one is counted.
LEMMA OnceCounts ==
    ASSUME Once, PublisherTypeOK, NEW r \in Runners
    PROVE  Cardinality({i \in DOMAIN trunk : trunk[i] = r}) <= 1
<1> DEFINE at == {i \in DOMAIN trunk : trunk[i] = r}
<1>1. CASE at = {}
  BY <1>1, FS_EmptySet
<1>2. CASE at # {}
  <2>1. PICK i \in DOMAIN trunk : at = {i}
    BY <1>2 DEF Once
  <2>2. Cardinality({i}) = 1
    BY FS_Singleton
  <2> QED
    BY <2>1, <2>2
<1> QED
  BY <1>1, <1>2

\* Every variable keeps its type: in particular no call takes more attempts than
\* publish() has.
THEOREM PublisherTypes == PublisherSpec => []PublisherTypeOK
<1>1. PublisherIInv => PublisherTypeOK
  BY DEF PublisherIInv
<1> QED
  BY <1>1, InitIInv, NextIInv, PTL DEF PublisherSpec

\* publish() tells the job the truth, whatever the other writers push, whatever
\* answers get lost and however late the remote serves a push: the change is on
\* the branch at most once, ok means that it is there, and a plain failure that
\* it is not, unless a push of the call timed out.
THEOREM PublishersAreHonest == PublisherSpec => []PublishHonest
<1>1. PublisherIInv => PublishHonest
  <2> SUFFICES ASSUME PublisherIInv, NEW r \in Runners
               PROVE  /\ Cardinality({i \in DOMAIN trunk : trunk[i] = r}) <= 1
                      /\ publish[r].at = "ok" => On(r)
                      /\ publish[r].at = "failed" /\ ~publish[r].unsure => ~On(r)
    BY DEF PublishHonest
  <2>1. Cardinality({i \in DOMAIN trunk : trunk[i] = r}) <= 1
    BY OnceCounts DEF PublisherIInv
  <2>2. publish[r].at = "ok" => On(r)
    BY DEF PublisherIInv, OkIsThere
  <2>3. publish[r].at = "failed" /\ ~publish[r].unsure => ~On(r)
    BY DEF PublisherIInv, SureUnlessTimedOut, Sure
  <2> QED
    BY <2>1, <2>2, <2>3
<1> QED
  BY <1>1, InitIInv, NextIInv, PTL DEF PublisherSpec


-----------------------------------------------------------------------------
(* One task in the deterministic executor.                                   *)

\* The steps in which a job writes.
Working == stage.at \in {"claim", "execute", "verify", "continue"}

\* The actions are numbered in order; the job runs the last one.
ActionsCounted ==
    /\ main.result.action <= counts.actions
    /\ stage.at # "idle" => stage.action = counts.actions /\ stage.action > 0

\* Only the job writes the result file, and it holds the branch's last one.
ResultIsBase == stage.base.result = main.result

\* What a job makes of a backend CL before it continues the dispatch.
Kept(old, new) ==
    /\ new.gen = old.gen /\ new.continues = old.continues
    /\ \/ new.state = old.state
       \/ new.state = "WAIT_RESOURCE" /\ old.state \in {"RUNNING", "WAIT_RESULT", "WAIT_RESOURCE"}

\* A job's tree is its base with these steps, and with a result of its action.
TreeOfBase ==
    Working =>
        /\ Kept(stage.base.bg, stage.tree.bg)
        /\ stage.tree.result = stage.base.result \/ stage.tree.result.action = stage.action
        /\ stage.at = "verify" => stage.tree.result.action = stage.action
        /\ Continues(kind) \/ stage.at # "continue" => stage.tree.fg.event = stage.base.fg.event

\* The probe's tree is the next generation of a dispatch that waits for a resource.
ProbeOfBase ==
    probe.at = "publish" =>
        /\ probe.tree.fg = probe.base.fg /\ probe.tree.result = probe.base.result
        /\ probe.base.bg.state = "WAIT_RESOURCE"
        /\ probe.tree.bg.gen = probe.base.bg.gen + 1 /\ probe.tree.bg.state = "READY"
        /\ probe.tree.bg.continues = probe.base.bg.continues

\* No event is one that was consumed.
NoEventIsConsumed ==
    \A e \in {main.fg.event, stage.tree.fg.event} : e.action = 0 => e.delivery = "CONSUMED"

\* What is continued has its result, on the branch and in the job.
Continued ==
    /\ main.bg.continues <= main.result.action
    /\ Working => stage.tree.bg.continues <= stage.tree.result.action

\* The inductive invariant.
StageIInv ==
    /\ StageTypeOK
    /\ ActionsCounted
    /\ ResultIsBase
    /\ TreeOfBase
    /\ ProbeOfBase
    /\ NoEventIsConsumed
    /\ Continued

-----------------------------------------------------------------------------
(* Command lists and trees.                                                  *)

LEMMA WroteBackend ==
    ASSUME NEW file \in Backends, NEW new \in Backends
    PROVE  /\ Wrote(file, new) \in Backends
           /\ Wrote(file, new).gen = new.gen /\ Wrote(file, new).state = new.state
           /\ Wrote(file, new).continues = new.continues
BY DEF Wrote, Backends

LEMMA WroteForeground ==
    ASSUME NEW file \in Foregrounds, NEW new \in Foregrounds
    PROVE  Wrote(file, new) \in Foregrounds /\ Wrote(file, new).event = new.event
BY DEF Wrote, Foregrounds

LEMMA TreeTypes ==
    ASSUME NEW t \in Trees
    PROVE  /\ t.bg \in Backends /\ t.fg \in Foregrounds /\ t.result \in Results
           /\ t.bg.gen \in Nat /\ t.bg.continues \in Nat /\ t.bg.state \in DispatchStates
           /\ t.result.action \in Nat /\ t.result.status \in ResultStatus
           /\ t.fg.event \in TerminalEvents /\ MaxActions \in Nat
BY StageRunAssumption DEF Trees, Backends, Foregrounds, Results

LEMMA StageTypes ==
    ASSUME StageTypeOK
    PROVE  /\ main \in Trees /\ stage \in Jobs /\ stage.base \in Trees /\ stage.tree \in Trees
           /\ probe.base \in Trees /\ probe.tree \in Trees
           /\ stage.at \in JobSteps /\ stage.action \in 0..MaxActions
           /\ counts.actions \in 0..MaxActions /\ counts.mishaps \in 0..MaxMishaps
           /\ kind \in TaskKinds
BY DEF StageTypeOK, Jobs

\* Another overall condition: what it is made of stays.
LEMMA OverallKept ==
    ASSUME NEW bg \in Backends, NEW overall \in Overalls
    PROVE  [bg EXCEPT !.overall = overall] \in Backends /\ Kept(bg, [bg EXCEPT !.overall = overall])
BY DEF Backends, Kept

LEMMA ForegroundKept ==
    ASSUME NEW fg \in Foregrounds, NEW overall \in Overalls
    PROVE  /\ [fg EXCEPT !.overall = overall] \in Foregrounds
           /\ [fg EXCEPT !.overall = overall].event = fg.event
BY DEF Foregrounds

LEMMA WaitKept ==
    ASSUME NEW bg \in Backends
    PROVE  EnterResourceWait(bg) \in Backends /\ Kept(bg, EnterResourceWait(bg))
<1>1. CASE bg.state \in {"RUNNING", "WAIT_RESULT", "WAIT_RESOURCE"}
  <2> DEFINE new == [bg EXCEPT !.state = "WAIT_RESOURCE", !.wait = 0, !.overall = "RUNNING"]
  <2>1. 0 \in 0..MaxActions
    BY StageRunAssumption
  <2>2. /\ new \in Backends /\ new.gen = bg.gen /\ new.continues = bg.continues
        /\ new.state = "WAIT_RESOURCE"
    BY <2>1 DEF Backends, DispatchStates, Overalls
  <2> QED
    BY <1>1, <2>2 DEF Kept, EnterResourceWait
<1>2. CASE bg.state \notin {"RUNNING", "WAIT_RESULT", "WAIT_RESOURCE"}
  BY <1>2 DEF EnterResourceWait, Kept
<1> QED
  BY <1>1, <1>2

LEMMA KeptTwice ==
    ASSUME NEW a, NEW b, NEW c, Kept(a, b), Kept(b, c)
    PROVE  Kept(a, c)
BY DEF Kept

LEMMA KeptWritten ==
    ASSUME NEW file \in Backends, NEW old \in Backends, NEW new \in Backends, Kept(old, new)
    PROVE  Wrote(file, new) \in Backends /\ Kept(old, Wrote(file, new))
BY WroteBackend DEF Kept

LEMMA Verdicts ==
    /\ \A status : Verdict(status) \in Overalls
    /\ \A o \in {"READY", "RUNNING", "GREEN", "ERROR", "BLOCKED"} : o \in Overalls
BY DEF Verdict, Overalls

\* The tree a job makes of t before it continues the dispatch: a backend CL of the
\* same generation, and its event unless it writes one.
Makes(t, new) ==
    new \in Trees /\ Kept(t.bg, new.bg)

LEMMA ClaimMakes ==
    ASSUME NEW t \in Trees
    PROVE  /\ Makes(t, ClaimTree(t)) /\ ClaimTree(t).result = t.result
           /\ ClaimTree(t).fg.event = t.fg.event
<1> DEFINE bg == Wrote(t.bg, [t.bg EXCEPT !.overall = "RUNNING"])
           f == IF kind = "branch" THEN [t.fg EXCEPT !.overall = "RUNNING"] ELSE t.fg
           fg == Wrote(t.fg, f)
<1>1. bg \in Backends /\ Kept(t.bg, bg)
  BY TreeTypes, OverallKept, KeptWritten, Verdicts
<1>2. f \in Foregrounds /\ f.event = t.fg.event
  BY TreeTypes, ForegroundKept, Verdicts
<1>3. fg \in Foregrounds /\ fg.event = t.fg.event
  BY <1>2, TreeTypes, WroteForeground
<1>4. ClaimTree(t) = [t EXCEPT !.bg = bg, !.fg = fg]
  BY DEF ClaimTree
<1> HIDE DEF bg, fg
<1>5. /\ ClaimTree(t) \in Trees /\ ClaimTree(t).bg = bg /\ ClaimTree(t).fg = fg
      /\ ClaimTree(t).result = t.result
  BY <1>1, <1>3, <1>4 DEF Trees
<1> QED
  BY <1>1, <1>3, <1>5 DEF Makes

LEMMA ExecuteMakes ==
    ASSUME StageTypeOK, NEW t \in Trees, NEW status \in ResultStatus
    PROVE  /\ Makes(t, Executed(t, status)) /\ Executed(t, status).fg.event = t.fg.event
           /\ Executed(t, status).result = [action |-> stage.action, status |-> status]
<1> DEFINE goesOn == kind = "branch" \/ status = "PASS"
           o1 == IF goesOn THEN "RUNNING" ELSE Verdict(status)
           b1 == [t.bg EXCEPT !.overall = o1]
           b2 == IF kind = "branch" /\ status = "NEED" THEN EnterResourceWait(b1) ELSE b1
           bg == Wrote(t.bg, b2)
           o2 == IF kind = "branch" THEN "RUNNING"
                 ELSE IF goesOn THEN t.fg.overall ELSE Verdict(status)
           fg == Wrote(t.fg, [t.fg EXCEPT !.overall = o2])
           result == [action |-> stage.action, status |-> status]
           new == [t EXCEPT !.result = result, !.bg = bg, !.fg = fg]
<1>1. o1 \in Overalls /\ o2 \in Overalls
  BY TreeTypes, Verdicts DEF Foregrounds
<1>2. Executed(t, status) = new
  BY DEF Executed
<1> HIDE DEF o1, o2
<1>3. b1 \in Backends /\ Kept(t.bg, b1)
  BY <1>1, TreeTypes, OverallKept
<1> HIDE DEF b1
<1>4. b2 \in Backends /\ Kept(t.bg, b2)
  BY <1>3, WaitKept, KeptTwice
<1> HIDE DEF b2
<1>5. bg \in Backends /\ Kept(t.bg, bg)
  BY <1>4, TreeTypes, KeptWritten
<1>6. fg \in Foregrounds /\ fg.event = t.fg.event
  BY <1>1, TreeTypes, ForegroundKept, WroteForeground
<1>7. result \in Results
  BY StageTypes DEF Results
<1> HIDE DEF bg, fg, result
<1>8. /\ new \in Trees /\ new.bg = bg /\ new.fg = fg /\ new.result = result
  BY <1>5, <1>6, <1>7 DEF Trees
<1> HIDE DEF new
<1> QED
  BY <1>2, <1>5, <1>6, <1>8 DEF Makes, result

LEMMA VerifyMakes ==
    ASSUME NEW t \in Trees, NEW verified \in BOOLEAN,
           NEW new, new = IF kind = "branch" THEN VerifiedBranch(t, verified)
                          ELSE VerifiedTask(t, verified)
    PROVE  /\ Makes(t, new) /\ new.result = t.result /\ new.fg.event = t.fg.event
<1>1. ASSUME NEW o1 \in Overalls, NEW o2 \in Overalls, NEW b \in Backends, Kept(t.bg, b),
             new = [t EXCEPT !.bg = [b EXCEPT !.overall = o1], !.fg.overall = o2]
      PROVE  /\ Makes(t, new) /\ new.result = t.result /\ new.fg.event = t.fg.event
  <2> DEFINE bg == [b EXCEPT !.overall = o1]
             fg == [t.fg EXCEPT !.overall = o2]
  <2>1. bg \in Backends /\ Kept(t.bg, bg)
    BY <1>1, OverallKept, KeptTwice
  <2>2. fg \in Foregrounds /\ fg.event = t.fg.event
    BY TreeTypes, ForegroundKept
  <2>3. new = [t EXCEPT !.bg = bg, !.fg = fg]
    BY <1>1
  <2> HIDE DEF bg, fg
  <2>4. new \in Trees /\ new.bg = bg /\ new.fg = fg /\ new.result = t.result
    BY <2>1, <2>2, <2>3 DEF Trees
  <2> QED
    BY <2>1, <2>2, <2>4 DEF Makes
<1>2. Kept(t.bg, t.bg)
  BY DEF Kept
<1>3. CASE kind = "branch"
  <2> DEFINE need == t.result.status = "NEED"
             b == IF need THEN EnterResourceWait(t.bg) ELSE t.bg
  <2>1. b \in Backends /\ Kept(t.bg, b)
    BY <1>2, TreeTypes, WaitKept
  <2>2. CASE need /\ ~verified
    <3>1. new = [t EXCEPT !.bg = [t.bg EXCEPT !.overall = "ERROR"], !.fg.overall = t.fg.overall]
      BY <1>3, <2>2, TreeTypes DEF VerifiedBranch, Trees, Foregrounds
    <3> QED
      BY <1>1, <1>2, <3>1, TreeTypes, Verdicts DEF Foregrounds
  <2>3. CASE ~(need /\ ~verified)
    <3>1. new = [t EXCEPT !.bg = [b EXCEPT !.overall = "RUNNING"], !.fg.overall = "RUNNING"]
      BY <1>3, <2>3 DEF VerifiedBranch
    <3> HIDE DEF b
    <3> QED
      BY <1>1, <2>1, <3>1, Verdicts
  <2> QED
    BY <2>2, <2>3
<1>4. CASE kind # "branch"
  <2> DEFINE o == IF kind = "worker" THEN "RUNNING"
                  ELSE IF kind = "plain" /\ t.result.status = "PASS" /\ verified THEN "GREEN"
                  ELSE Verdict(t.result.status)
  <2>1. o \in Overalls
    BY Verdicts
  <2>2. new = [t EXCEPT !.bg.overall = o, !.fg.overall = o]
    BY <1>4 DEF VerifiedTask
  <2> HIDE DEF o
  <2>3. new = [t EXCEPT !.bg = [t.bg EXCEPT !.overall = o], !.fg.overall = o]
    BY <2>2
  <2> QED
    BY <1>1, <1>2, <2>1, <2>3, TreeTypes
<1> QED
  BY <1>3, <1>4

\* A verified tree is written with an event.
WithEvent(t, new, event) ==
    [new EXCEPT !.bg = Wrote(t.bg, new.bg), !.fg = Wrote(t.fg, [new.fg EXCEPT !.event = event])]

LEMMA EventWritten ==
    ASSUME NEW t \in Trees, NEW new \in Trees, NEW event \in TerminalEvents, Makes(t, new)
    PROVE  /\ Makes(t, WithEvent(t, new, event))
           /\ WithEvent(t, new, event).result = new.result
           /\ WithEvent(t, new, event).fg.event = event
<1> DEFINE bg == Wrote(t.bg, new.bg)
           f == [new.fg EXCEPT !.event = event]
           fg == Wrote(t.fg, f)
           tree == WithEvent(t, new, event)
<1>0. tree = [new EXCEPT !.bg = bg, !.fg = fg]
  BY DEF WithEvent
<1> HIDE DEF tree
<1>1. bg \in Backends /\ Kept(t.bg, bg)
  BY TreeTypes, KeptWritten DEF Makes
<1>2. f \in Foregrounds /\ f.event = event
  BY TreeTypes DEF Foregrounds
<1> HIDE DEF f
<1>3. fg \in Foregrounds /\ fg.event = event
  BY <1>2, TreeTypes, WroteForeground
<1> HIDE DEF bg, fg
<1>4. tree \in Trees /\ tree.bg = bg /\ tree.fg = fg /\ tree.result = new.result
  BY <1>0, <1>1, <1>3 DEF Trees
<1> QED
  BY <1>1, <1>3, <1>4 DEF Makes, tree

-----------------------------------------------------------------------------
(* Publication.                                                              *)

\* Without a conflict a file of the result is the job's, who then started from
\* the branch's, or the branch's, which the job did not change.
LEMMA RebasedFiles ==
    ASSUME StageTypeOK, NEW base \in Trees, NEW tree \in Trees, ~Conflicting(base, tree)
    PROVE  LET r == Rebased(base, tree)
           IN  /\ r \in Trees
               /\ \/ r.bg = tree.bg /\ main.bg = base.bg
                  \/ r.bg = main.bg /\ tree.bg = base.bg
               /\ \/ r.fg = tree.fg /\ main.fg = base.fg
                  \/ r.fg = main.fg /\ tree.fg = base.fg
               /\ \/ r.result = tree.result /\ main.result = base.result
                  \/ r.result = main.result /\ tree.result = base.result
<1>1. /\ ~(tree.bg # base.bg /\ main.bg # base.bg)
      /\ ~(tree.fg # base.fg /\ main.fg # base.fg)
      /\ ~(tree.result # base.result /\ main.result # base.result)
  BY DEF Conflicting, Changed
<1>2. /\ Rebased(base, tree).bg = IF tree.bg # base.bg THEN tree.bg ELSE main.bg
      /\ Rebased(base, tree).fg = IF tree.fg # base.fg THEN tree.fg ELSE main.fg
      /\ Rebased(base, tree).result = IF tree.result # base.result THEN tree.result ELSE main.result
  BY DEF Rebased, Changed
<1>3. main \in Trees
  BY StageTypes
<1>4. Rebased(base, tree) \in Trees
  BY <1>3, TreeTypes DEF Rebased, Trees
<1> QED
  BY <1>1, <1>2, <1>4

\* What becomes of the tree a job made: it conflicts with the branch, or it is
\* rebased and published, with the answer or without, or not published.
Published(tree, ok, else) ==
    LET r == Rebased(stage.base, tree) IN
    \/ main' = main /\ stage'.at = else /\ stage'.base = stage.base /\ stage'.tree = tree
    \/ /\ ~Conflicting(stage.base, tree)
       /\ main' = r /\ stage'.at \in {ok, else} /\ stage'.base = r /\ stage'.tree = r
    \/ /\ ~Conflicting(stage.base, tree)
       /\ main' = main /\ stage'.at = else /\ stage'.base = main /\ stage'.tree = r

LEMMA MishapCounts ==
    ASSUME StageTypeOK, Mishap
    PROVE  /\ counts' \in [actions : 0..MaxActions, edits : 0..MaxEdits, mishaps : 0..MaxMishaps]
           /\ counts'.actions = counts.actions
BY StageRunAssumption DEF StageTypeOK, Mishap

LEMMA PublishEffect ==
    ASSUME StageTypeOK, NEW tree \in Trees, NEW ok \in JobSteps, NEW else \in JobSteps,
           NEW job \in Jobs, job.base = stage.base, PublishStep(tree, ok, else, job)
    PROVE  /\ Published(tree, ok, else)
           /\ main' \in Trees /\ stage' \in Jobs /\ stage'.action = job.action
           /\ counts' \in [actions : 0..MaxActions, edits : 0..MaxEdits, mishaps : 0..MaxMishaps]
           /\ counts'.actions = counts.actions
<1> DEFINE r == Rebased(stage.base, tree)
<1>1. main \in Trees /\ stage.base \in Trees
  BY StageTypes
<1>2. ~Conflicting(stage.base, tree) => r \in Trees
  BY <1>1, RebasedFiles
<1> HIDE DEF r
<1>3. CASE /\ Conflicting(stage.base, tree)
           /\ stage' = [job EXCEPT !.at = else, !.tree = tree]
           /\ UNCHANGED <<main, counts>>
  <2>1. /\ stage' \in Jobs /\ stage'.at = else /\ stage'.base = stage.base /\ stage'.tree = tree
        /\ stage'.action = job.action
    BY <1>1, <1>3 DEF Jobs
  <2> QED
    BY <1>1, <1>3, <2>1 DEF Published, StageTypeOK
<1>4. CASE /\ ~Conflicting(stage.base, tree)
           /\ main' = r
           /\ stage' = [job EXCEPT !.at = ok, !.tree = r, !.base = r]
           /\ UNCHANGED counts
  <2>1. /\ stage' \in Jobs /\ stage'.at = ok /\ stage'.base = r /\ stage'.tree = r
        /\ stage'.action = job.action
    BY <1>2, <1>4 DEF Jobs
  <2> QED
    BY <1>2, <1>4, <2>1 DEF Published, StageTypeOK, r
<1>5. CASE /\ ~Conflicting(stage.base, tree)
           /\ Mishap
           /\ \/ /\ main' = main
                 /\ stage' = [job EXCEPT !.at = else, !.tree = r, !.base = main]
              \/ /\ main' = r
                 /\ stage' = [job EXCEPT !.at = else, !.tree = r, !.base = r]
  <2>1. main' \in Trees
    BY <1>1, <1>2, <1>5
  <2>2. /\ stage' \in Jobs /\ stage'.at = else /\ stage'.base = main' /\ stage'.tree = r
        /\ stage'.action = job.action
    BY <1>1, <1>2, <1>5 DEF Jobs
  <2>3. Published(tree, ok, else)
    BY <1>5, <2>2 DEF Published, r
  <2> QED
    BY <1>5, <2>1, <2>2, <2>3, MishapCounts
<1> QED
  BY <1>3, <1>4, <1>5 DEF PublishStep, r

-----------------------------------------------------------------------------
(* The steps of the job.                                                     *)

\* An event is written only by verify, for a task without a Worker, about the
\* result of this action, in the place of one that was consumed.
WritesEvent(tree) ==
    /\ stage.at = "verify" /\ ~Continues(kind)
    /\ tree.fg.event.action = stage.action /\ tree.fg.event.status = tree.result.status
    /\ tree.result = stage.tree.result
    /\ stage.tree.fg.event.action # stage.action
    /\ ~Refused(stage.tree.fg.event)

\* claim, execute and verify make a tree of the job's and publish it.
JobMakes(tree, ok) ==
    /\ Working /\ stage.at # "continue"
    /\ Makes(stage.tree, tree)
    /\ tree.result = stage.tree.result \/ tree.result.action = stage.action
    /\ ok = "verify" => tree.result.action = stage.action
    /\ tree.fg.event = stage.tree.fg.event \/ (WritesEvent(tree) /\ ok = "continue")

LEMMA ClaimPublishes ==
    ASSUME StageTypeOK, Claim
    PROVE  \E tree \in Trees, ok \in {"execute", "verify", "continue"} :
             JobMakes(tree, ok) /\ PublishStep(tree, ok, "continue", stage)
<1>1. stage.tree \in Trees /\ stage.at = "claim"
  BY StageTypes DEF Claim
<1>2. JobMakes(ClaimTree(stage.tree), "execute") /\ ClaimTree(stage.tree) \in Trees
  BY <1>1, ClaimMakes DEF JobMakes, Working, Makes
<1> QED
  BY <1>2 DEF Claim

LEMMA ExecutePublishes ==
    ASSUME StageTypeOK, NEW status \in ResultStatus, Execute(status)
    PROVE  \E tree \in Trees, ok \in {"execute", "verify", "continue"} :
             JobMakes(tree, ok) /\ PublishStep(tree, ok, "continue", stage)
<1> DEFINE tree == Executed(stage.tree, status)
<1>1. stage.tree \in Trees /\ stage.at = "execute"
  BY StageTypes DEF Execute
<1>2. /\ Makes(stage.tree, tree) /\ tree.fg.event = stage.tree.fg.event
      /\ tree.result = [action |-> stage.action, status |-> status]
  <2> HIDE DEF tree
  <2> QED
    BY <1>1, ExecuteMakes DEF tree
<1>3. PublishStep(tree, "verify", "continue", stage)
  BY DEF Execute
<1> HIDE DEF tree
<1>4. JobMakes(tree, "verify") /\ tree \in Trees
  BY <1>1, <1>2 DEF JobMakes, Working, Makes
<1> QED
  BY <1>3, <1>4

LEMMA VerifyPublishes ==
    ASSUME StageTypeOK, NEW verified \in BOOLEAN, Verify(verified)
    PROVE  \E tree \in Trees, ok \in {"execute", "verify", "continue"} :
             JobMakes(tree, ok) /\ PublishStep(tree, ok, "continue", stage)
<1> DEFINE t == stage.tree
           old == t.fg.event
           event == IF ~verified \/ Continues(kind) \/ old.action = stage.action
                    THEN old ELSE Event(t.result.status)
           new == IF kind = "branch" THEN VerifiedBranch(t, verified)
                  ELSE VerifiedTask(t, verified)
           tree == WithEvent(t, new, event)
<1>1. t \in Trees /\ stage.at = "verify" /\ stage.action \in 0..MaxActions
  BY StageTypes DEF Verify
<1>2. CASE event # old /\ Refused(old)
  <2>1. PublishStep(t, "continue", "continue", stage)
    BY <1>2 DEF Verify
  <2>2. JobMakes(t, "continue")
    BY <1>1 DEF JobMakes, Working, Makes, Kept
  <2> QED
    BY <1>1, <2>1, <2>2
<1>3. CASE ~(event # old /\ Refused(old))
  <2>1. PublishStep(tree, "continue", "continue", stage)
    BY <1>3 DEF Verify, WithEvent
  <2>2. /\ old \in TerminalEvents /\ Event(t.result.status) \in TerminalEvents
        /\ Event(t.result.status).action = stage.action
        /\ Event(t.result.status).status = t.result.status
    BY <1>1, TreeTypes DEF Event, TerminalEvents, Deliveries
  <2>3. event \in TerminalEvents
    BY <2>2
  <2>4. \/ event = old
        \/ /\ event = Event(t.result.status) /\ ~Continues(kind) /\ old.action # stage.action
           /\ ~Refused(old)
    BY <1>3
  <2>5. Makes(t, new) /\ new.result = t.result /\ new.fg.event = t.fg.event
    BY <1>1, VerifyMakes
  <2> HIDE DEF event, new
  <2>6. new \in Trees
    BY <2>5 DEF Makes
  <2>7. Makes(t, tree) /\ tree.result = new.result /\ tree.fg.event = event
    BY <1>1, <2>3, <2>5, <2>6, EventWritten
  <2> HIDE DEF tree
  <2>8. JobMakes(tree, "continue")
    BY <1>1, <2>2, <2>4, <2>5, <2>7 DEF JobMakes, Working, WritesEvent
  <2> QED
    BY <2>1, <2>7, <2>8 DEF Makes
<1> QED
  BY <1>2, <1>3


-----------------------------------------------------------------------------
(* The invariant and the two action properties, step by step.                *)

\* One step of FencedAdvance and one of TerminalTruthful.
Fences ==
    /\ main'.bg.gen # main.bg.gen
         => /\ main'.bg.gen = main.bg.gen + 1
            /\ main.bg.state \in {"NONE", "WAIT_RESULT", "WAIT_RESOURCE"}
            /\ main'.bg.state = "READY"
    /\ main.bg.state = "DONE" => main'.bg.state = "DONE"
Tells ==
    main'.fg.event.action # main.fg.event.action
      => /\ main.fg.event.delivery = "CONSUMED"
         /\ main'.fg.event.action = main'.result.action
         /\ main'.fg.event.status = main'.result.status

Probes == [at : {"idle", "publish"}, base : Trees, tree : Trees]
Counts == [actions : 0..MaxActions, edits : 0..MaxEdits, mishaps : 0..MaxMishaps]

LEMMA KeptFences ==
    ASSUME Kept(main.bg, main'.bg)
    PROVE  Fences
BY DEF Kept, Fences

\* A job publishes its result in every case, or its tree still has the old one;
\* the backend CL stays the branch's generation.
LEMMA RebasedJob ==
    ASSUME StageIInv, NEW ok \in JobSteps, NEW tree \in Trees, JobMakes(tree, ok),
           ~Conflicting(stage.base, tree), NEW r, r = Rebased(stage.base, tree)
    PROVE  /\ r \in Trees /\ r.result = tree.result /\ Kept(main.bg, r.bg)
           /\ \/ r.fg.event = main.fg.event
              \/ r.fg.event = tree.fg.event /\ main.fg.event = stage.base.fg.event
<1>1. /\ r \in Trees
      /\ \/ r.bg = tree.bg /\ main.bg = stage.base.bg
         \/ r.bg = main.bg /\ tree.bg = stage.base.bg
      /\ \/ r.fg = tree.fg /\ main.fg = stage.base.fg
         \/ r.fg = main.fg /\ tree.fg = stage.base.fg
      /\ \/ r.result = tree.result /\ main.result = stage.base.result
         \/ r.result = main.result /\ tree.result = stage.base.result
  BY StageTypes, RebasedFiles DEF StageIInv
<1>2. r.result = tree.result
  BY <1>1 DEF StageIInv, ResultIsBase
<1>3. Kept(stage.base.bg, tree.bg)
  BY KeptTwice DEF StageIInv, TreeOfBase, JobMakes, Makes
<1>4. Kept(main.bg, main.bg)
  BY DEF Kept
<1> QED
  BY <1>1, <1>2, <1>3, <1>4

\* The result of the tree a job makes: the branch's, or that of its action.
LEMMA MadeResult ==
    ASSUME StageIInv, NEW ok \in JobSteps, NEW tree \in Trees, JobMakes(tree, ok)
    PROVE  /\ tree.result = main.result \/ tree.result.action = counts.actions
           /\ tree.result.action \in Nat /\ main.result.action \in Nat
           /\ main.result.action <= tree.result.action
           /\ tree.result.action <= counts.actions
           /\ stage.tree.result.action <= tree.result.action
           /\ stage.action = counts.actions /\ stage.action > 0
           /\ counts.actions \in Nat
<1>1. /\ tree.result.action \in Nat /\ main.result.action \in Nat /\ counts.actions \in Nat
      /\ stage.tree.result.action \in Nat
  BY StageTypes, TreeTypes DEF StageIInv
<1>2. /\ stage.action = counts.actions /\ stage.action > 0
      /\ main.result.action <= counts.actions
  BY DEF StageIInv, ActionsCounted, JobMakes, Working
<1>3. stage.tree.result = main.result \/ stage.tree.result.action = stage.action
  BY DEF StageIInv, TreeOfBase, ResultIsBase, JobMakes
<1>4. tree.result = stage.tree.result \/ tree.result.action = stage.action
  BY DEF JobMakes
<1> QED
  BY <1>1, <1>2, <1>3, <1>4

\* A step of the job that makes a tree and publishes it.
LEMMA JobStep ==
    ASSUME StageIInv, NEW ok \in {"execute", "verify", "continue"}, NEW tree \in Trees,
           JobMakes(tree, ok), PublishStep(tree, ok, "continue", stage),
           UNCHANGED <<kind, probe, sentWakes>>
    PROVE  StageIInv' /\ Fences /\ Tells
<1> DEFINE r == Rebased(stage.base, tree)
           event == tree.fg.event
<1>1. /\ Published(tree, ok, "continue")
      /\ main' \in Trees /\ stage' \in Jobs /\ stage'.action = stage.action
      /\ counts' \in Counts /\ counts'.actions = counts.actions
      /\ UNCHANGED <<kind, probe, sentWakes>>
  BY StageTypes, PublishEffect DEF StageIInv, JobSteps, Counts
<1>2. ~Conflicting(stage.base, tree) =>
        /\ r \in Trees /\ r.result = tree.result /\ Kept(main.bg, r.bg)
        /\ \/ r.fg.event = main.fg.event
           \/ r.fg.event = event /\ main.fg.event = stage.base.fg.event
  BY RebasedJob DEF JobSteps
<1>3. /\ tree.result = main.result \/ tree.result.action = counts.actions
      /\ tree.result.action \in Nat /\ main.result.action \in Nat
      /\ main.result.action <= tree.result.action
      /\ tree.result.action <= counts.actions
      /\ stage.tree.result.action <= tree.result.action
      /\ stage.action = counts.actions /\ stage.action > 0
      /\ counts.actions \in Nat
  BY MadeResult DEF JobSteps
<1>4. /\ Kept(stage.tree.bg, tree.bg)
      /\ ok = "verify" => tree.result.action = stage.action
      /\ event = stage.tree.fg.event \/ (WritesEvent(tree) /\ ok = "continue")
      /\ Kept(stage.base.bg, stage.tree.bg)
      /\ stage.tree.fg.event = stage.base.fg.event
      /\ stage.at = "verify" => stage.tree.result.action = stage.action
  BY DEF StageIInv, TreeOfBase, JobMakes, Makes, Working
<1>5. \/ main' = main /\ stage'.at = "continue" /\ stage'.base = stage.base /\ stage'.tree = tree
      \/ /\ ~Conflicting(stage.base, tree)
         /\ main' = r /\ stage'.at \in {ok, "continue"} /\ stage'.base = r /\ stage'.tree = r
      \/ /\ ~Conflicting(stage.base, tree)
         /\ main' = main /\ stage'.at = "continue" /\ stage'.base = main /\ stage'.tree = r
  BY <1>1 DEF Published
<1> HIDE DEF r, event
<1>6. StageTypeOK'
  BY <1>1 DEF StageIInv, StageTypeOK, Counts
<1>7. ActionsCounted'
  BY <1>1, <1>2, <1>3, <1>5 DEF StageIInv, ActionsCounted
<1>8. ResultIsBase'
  BY <1>5 DEF StageIInv, ResultIsBase
<1>9. TreeOfBase'
  <2>1. Kept(stage.base.bg, tree.bg)
    BY <1>4, KeptTwice
  <2>2. \A bg : Kept(bg, bg)
    BY DEF Kept
  <2>3. Kept(stage'.base.bg, stage'.tree.bg)
    BY <1>2, <1>5, <2>1, <2>2
  <2>4. stage'.tree.result = stage'.base.result \/ stage'.tree.result.action = stage.action
    BY <1>2, <1>3, <1>5 DEF StageIInv, ResultIsBase
  <2>5. stage'.at = "verify" => stage'.tree.result.action = stage.action
    BY <1>2, <1>4, <1>5
  <2>6. Continues(kind) \/ stage'.at # "continue" => stage'.tree.fg.event = stage'.base.fg.event
    BY <1>2, <1>4, <1>5 DEF WritesEvent, event
  <2> QED
    BY <1>1, <2>3, <2>4, <2>5, <2>6 DEF TreeOfBase, Continues
<1>10. ProbeOfBase'
  BY <1>1 DEF StageIInv, ProbeOfBase
<1>11. NoEventIsConsumed'
  <2>1. event.action = 0 => event.delivery = "CONSUMED"
    BY <1>3, <1>4 DEF StageIInv, NoEventIsConsumed, WritesEvent, event
  <2>2. main.fg.event.action = 0 => main.fg.event.delivery = "CONSUMED"
    BY DEF StageIInv, NoEventIsConsumed
  <2>3. main'.fg.event \in {main.fg.event, event} /\ stage'.tree.fg.event \in {main.fg.event, event}
    BY <1>2, <1>5 DEF event
  <2> QED
    BY <2>1, <2>2, <2>3 DEF NoEventIsConsumed
<1>12. Continued'
  <2>1. /\ tree.bg.continues = stage.tree.bg.continues
        /\ ~Conflicting(stage.base, tree) => r.bg.continues = main.bg.continues
    BY <1>2, <1>4 DEF Kept
  <2>2. /\ main.bg.continues <= main.result.action
        /\ stage.tree.bg.continues <= stage.tree.result.action
    BY DEF StageIInv, Continued, JobMakes
  <2>3. /\ main.bg.continues \in Nat /\ stage.tree.bg.continues \in Nat
        /\ stage.tree.result.action \in Nat
    BY StageTypes, TreeTypes DEF StageIInv
  <2>4. main.bg.continues <= tree.result.action /\ tree.bg.continues <= tree.result.action
    BY <1>3, <2>1, <2>2, <2>3
  <2>5. /\ main'.bg.continues <= main'.result.action
        /\ stage'.tree.bg.continues <= stage'.tree.result.action
    BY <1>2, <1>5, <2>1, <2>2, <2>4
  <2> QED
    BY <2>5 DEF Continued
<1>13. Fences
  <2>1. Kept(main.bg, main.bg)
    BY DEF Kept
  <2> QED
    BY <1>2, <1>5, <2>1, KeptFences
<1>14. Tells
  <2>1. CASE main'.fg.event = main.fg.event
    BY <2>1 DEF Tells
  <2>2. CASE main'.fg.event # main.fg.event
    <3>1. /\ main' = r /\ r.fg.event = event /\ main.fg.event = stage.base.fg.event
          /\ r.result = tree.result /\ event # stage.tree.fg.event
      BY <1>2, <1>4, <1>5, <2>2
    <3>2. WritesEvent(tree)
      BY <1>4, <3>1
    <3>3. stage.tree.fg.event.delivery = "CONSUMED"
      BY <3>2 DEF WritesEvent, Refused, StageIInv, NoEventIsConsumed
    <3>4. event.action = tree.result.action /\ event.status = tree.result.status
      BY <1>4, <3>2 DEF WritesEvent, event
    <3> QED
      BY <1>4, <3>1, <3>3, <3>4 DEF Tells
  <2> QED
    BY <2>1, <2>2
<1> QED
  BY <1>6, <1>7, <1>8, <1>9, <1>10, <1>11, <1>12, <1>13, <1>14 DEF StageIInv

LEMMA ClaimStep ==
    ASSUME StageIInv, Claim PROVE StageIInv' /\ Fences /\ Tells
<1>1. PICK tree \in Trees, ok \in {"execute", "verify", "continue"} :
        JobMakes(tree, ok) /\ PublishStep(tree, ok, "continue", stage)
  BY ClaimPublishes DEF StageIInv
<1>2. UNCHANGED <<kind, probe, sentWakes>>
  BY DEF Claim
<1> QED
  BY <1>1, <1>2, JobStep

LEMMA ExecuteStep ==
    ASSUME StageIInv, NEW status \in ResultStatus, Execute(status) PROVE StageIInv' /\ Fences /\ Tells
<1>1. PICK tree \in Trees, ok \in {"execute", "verify", "continue"} :
        JobMakes(tree, ok) /\ PublishStep(tree, ok, "continue", stage)
  BY ExecutePublishes DEF StageIInv
<1>2. UNCHANGED <<kind, probe, sentWakes>>
  BY DEF Execute
<1> QED
  BY <1>1, <1>2, JobStep

LEMMA VerifyStep ==
    ASSUME StageIInv, NEW verified \in BOOLEAN, Verify(verified) PROVE StageIInv' /\ Fences /\ Tells
<1>1. PICK tree \in Trees, ok \in {"execute", "verify", "continue"} :
        JobMakes(tree, ok) /\ PublishStep(tree, ok, "continue", stage)
  BY VerifyPublishes DEF StageIInv
<1>2. UNCHANGED <<kind, probe, sentWakes>>
  BY DEF Verify
<1> QED
  BY <1>1, <1>2, JobStep

\* The next generation of the dispatch t waits with.
NextBackend(t) == [t.bg EXCEPT !.gen = t.bg.gen + 1, !.state = "READY", !.wait = 0,
                         !.continues = stage.action, !.overall = "READY"]
NextTree(t) == [t EXCEPT !.bg = Wrote(t.bg, NextBackend(t))]

LEMMA NextTrees ==
    ASSUME StageTypeOK, NEW t \in Trees
    PROVE  /\ NextTree(t) \in Trees /\ NextBackend(t).gen \in Nat
           /\ NextTree(t).bg.gen = t.bg.gen + 1 /\ NextTree(t).bg.state = "READY"
           /\ NextTree(t).bg.continues = stage.action
           /\ NextTree(t).fg = t.fg /\ NextTree(t).result = t.result
<1> DEFINE bg == NextBackend(t)
           new == Wrote(t.bg, bg)
<1>1. /\ t.bg \in Backends /\ stage.action \in 0..MaxActions /\ 0 \in 0..MaxActions
      /\ "READY" \in DispatchStates /\ "READY" \in Overalls
      /\ t.bg.gen + 1 \in Nat
  BY StageTypes, TreeTypes, StageRunAssumption DEF DispatchStates, Overalls
<1>2. /\ bg \in Backends /\ bg.gen = t.bg.gen + 1 /\ bg.state = "READY"
      /\ bg.continues = stage.action
  BY <1>1 DEF Backends, NextBackend
<1> HIDE DEF bg
<1>3. /\ new \in Backends /\ new.gen = t.bg.gen + 1 /\ new.state = "READY"
      /\ new.continues = stage.action
  BY <1>1, <1>2, WroteBackend
<1>4. NextTree(t) = [t EXCEPT !.bg = new]
  BY DEF NextTree, bg
<1> HIDE DEF new
<1>5. NextTree(t) \in Trees /\ NextTree(t).bg = new /\ NextTree(t).fg = t.fg
      /\ NextTree(t).result = t.result
  BY <1>3, <1>4 DEF Trees
<1>6. bg.gen \in Nat
  BY <1>2 DEF Backends
<1> QED
  BY <1>3, <1>5, <1>6 DEF bg

\* continue publishes the next generation.
LEMMA ContinuePublishes ==
    ASSUME StageIInv, stage.at = "continue", Continues(kind), MaySchedule(stage.tree),
           NEW job \in Jobs, job.base = stage.base, job.action = stage.action,
           PublishStep(NextTree(stage.tree), "wake", "wake", job),
           UNCHANGED <<kind, probe, sentWakes>>
    PROVE  StageIInv' /\ Fences /\ Tells
<1> DEFINE t == stage.tree
           tree == NextTree(t)
           r == Rebased(stage.base, tree)
<1>1. t \in Trees /\ stage.base \in Trees /\ main \in Trees
  BY StageTypes DEF StageIInv
<1>2. /\ tree \in Trees /\ tree.bg.gen = t.bg.gen + 1 /\ tree.bg.state = "READY"
      /\ tree.bg.continues = stage.action /\ tree.fg = t.fg /\ tree.result = t.result
  BY <1>1, NextTrees DEF StageIInv
<1> HIDE DEF tree
<1>3. /\ Published(tree, "wake", "wake")
      /\ main' \in Trees /\ stage' \in Jobs /\ stage'.action = stage.action
      /\ counts' \in Counts /\ counts'.actions = counts.actions
  BY <1>2, PublishEffect DEF StageIInv, JobSteps, Counts, tree
<1>4. ~Conflicting(stage.base, tree) =>
        /\ r \in Trees
        /\ \/ r.bg = tree.bg /\ main.bg = stage.base.bg
           \/ r.bg = main.bg
        /\ \/ r.fg = tree.fg /\ main.fg = stage.base.fg
           \/ r.fg = main.fg
        /\ \/ r.result = tree.result /\ main.result = stage.base.result
           \/ r.result = main.result /\ tree.result = stage.base.result
  BY <1>1, <1>2, RebasedFiles DEF StageIInv
<1>5. /\ stage'.at = "wake"
      /\ \/ main' = main /\ stage'.base = stage.base /\ stage'.tree = tree
         \/ /\ ~Conflicting(stage.base, tree)
            /\ main' = r /\ stage'.base = r /\ stage'.tree = r
         \/ /\ ~Conflicting(stage.base, tree)
            /\ main' = main /\ stage'.base = main /\ stage'.tree = r
  BY <1>3 DEF Published
<1>6. /\ t.result.action = stage.action /\ t.bg.state \in {"NONE", "WAIT_RESULT"}
      /\ Kept(stage.base.bg, t.bg) /\ t.fg.event = stage.base.fg.event
  BY DEF MaySchedule, StageIInv, TreeOfBase, Working
<1>7. ~Conflicting(stage.base, tree) => r.result = tree.result
  BY <1>4 DEF StageIInv, ResultIsBase
<1> HIDE DEF r, t
<1>8. StageTypeOK'
  BY <1>3 DEF StageIInv, StageTypeOK, Counts
<1>9. ActionsCounted'
  <2>1. stage.action = counts.actions /\ stage.action > 0 /\ main.result.action <= counts.actions
    BY DEF StageIInv, ActionsCounted
  <2>2. stage.action <= stage.action
    BY StageTypes DEF StageIInv
  <2> QED
    BY <1>2, <1>3, <1>5, <1>6, <1>7, <2>1, <2>2 DEF ActionsCounted
<1>10. ResultIsBase'
  BY <1>5 DEF StageIInv, ResultIsBase
<1>11. TreeOfBase' /\ ~Working'
  BY <1>5 DEF TreeOfBase, Working
<1>12. ProbeOfBase'
  BY DEF StageIInv, ProbeOfBase
<1>13. NoEventIsConsumed'
  BY <1>2, <1>4, <1>5 DEF StageIInv, NoEventIsConsumed, t
<1>14. Continued'
  <2>1. /\ main.bg.continues <= main.result.action /\ main.result.action <= counts.actions
        /\ stage.action = counts.actions
    BY DEF StageIInv, Continued, ActionsCounted
  <2>2. main.bg.continues \in Nat /\ main.result.action \in Nat /\ stage.action \in Nat
    BY <1>1, StageTypes, TreeTypes DEF StageIInv
  <2>3. main.bg.continues <= stage.action /\ stage.action <= stage.action
    BY <2>1, <2>2
  <2>4. main'.bg.continues <= main'.result.action
    <3>1. ~Conflicting(stage.base, tree) => r.bg.continues \in {main.bg.continues, stage.action}
      BY <1>2, <1>4
    <3>2. ~Conflicting(stage.base, tree) => r.result.action = stage.action
      BY <1>2, <1>6, <1>7
    <3> QED
      BY <1>5, <2>1, <2>3, <3>1, <3>2
  <2> QED
    BY <1>11, <2>4 DEF Continued
<1>15. Fences
  <2>1. CASE main'.bg = main.bg
    BY <2>1 DEF Fences
  <2>2. CASE main'.bg # main.bg
    <3>1. main'.bg = tree.bg /\ main.bg = stage.base.bg
      BY <1>4, <1>5, <2>2
    <3> QED
      BY <1>2, <1>6, <3>1 DEF Fences, Kept
  <2> QED
    BY <2>1, <2>2
<1>16. Tells
  <2>1. main'.fg.event = main.fg.event
    BY <1>2, <1>4, <1>5, <1>6
  <2> QED
    BY <2>1 DEF Tells
<1> QED
  BY <1>8, <1>9, <1>10, <1>11, <1>12, <1>13, <1>14, <1>15, <1>16 DEF StageIInv

LEMMA ContinueStep ==
    ASSUME StageIInv, Continue PROVE StageIInv' /\ Fences /\ Tells
<1> DEFINE t == stage.tree
           job == [stage EXCEPT !.scheduled = NextBackend(t).gen]
<1>1. CASE Continues(kind) /\ t.bg.state # "WAIT_RESOURCE" /\ MaySchedule(t)
  <2>1. /\ PublishStep(NextTree(t), "wake", "wake", job)
        /\ stage.at = "continue" /\ UNCHANGED <<kind, probe, sentWakes>>
    BY <1>1 DEF Continue, NextTree, NextBackend
  <2>2. NextBackend(t).gen \in Nat /\ stage \in Jobs
    BY StageTypes, NextTrees DEF StageIInv
  <2>3. job \in Jobs /\ job.base = stage.base /\ job.action = stage.action
    BY <2>2 DEF Jobs
  <2> HIDE DEF job
  <2> QED
    BY <1>1, <2>1, <2>3, ContinuePublishes
<1>2. CASE ~(Continues(kind) /\ t.bg.state # "WAIT_RESOURCE" /\ MaySchedule(t))
  <2>1. /\ stage' = [stage EXCEPT !.at = "wake",
                                  !.resourceWait = t.bg.state = "WAIT_RESOURCE"]
        /\ UNCHANGED <<kind, main, probe, sentWakes, counts>> /\ stage.at = "continue"
    BY <1>2 DEF Continue
  <2>2. /\ stage' \in Jobs /\ stage'.at = "wake" /\ stage'.base = stage.base
        /\ stage'.tree = stage.tree /\ stage'.action = stage.action
    BY <2>1, StageTypes DEF StageIInv, Jobs, JobSteps
  <2>3. StageTypeOK'
    BY <2>1, <2>2 DEF StageIInv, StageTypeOK
  <2>4. ActionsCounted' /\ ResultIsBase' /\ ProbeOfBase' /\ NoEventIsConsumed'
    BY <2>1, <2>2 DEF StageIInv, ActionsCounted, ResultIsBase, ProbeOfBase, NoEventIsConsumed
  <2>5. TreeOfBase' /\ Continued'
    BY <2>1, <2>2 DEF StageIInv, TreeOfBase, Continued, Working
  <2>6. Fences /\ Tells
    BY <2>1 DEF Fences, Tells
  <2> QED
    BY <2>3, <2>4, <2>5, <2>6 DEF StageIInv
<1> QED
  BY <1>1, <1>2

\* The action is submitted; the dispatch keeps its generation.
LEMMA SubmitStep ==
    ASSUME StageIInv, Submit PROVE StageIInv' /\ Fences /\ Tells
<1> DEFINE n == counts.actions + 1
           b == [main.bg EXCEPT !.state = "WAIT_RESULT", !.overall = "RUNNING", !.wait = n]
           bg == Wrote(main.bg, b)
           f == [main.fg EXCEPT !.overall = "RUNNING"]
           fg == Wrote(main.fg, f)
<1>1. /\ main \in Trees /\ main.bg \in Backends /\ main.fg \in Foregrounds
      /\ counts.actions \in 0..MaxActions /\ MaxActions \in Nat /\ counts \in Counts
  BY StageTypes, StageRunAssumption DEF StageIInv, StageTypeOK, Counts, Trees
<1>2. /\ counts.actions < MaxActions
      /\ \/ main' = main
         \/ main.bg.state = "RUNNING" /\ main' = [main EXCEPT !.bg = bg, !.fg = fg]
      /\ counts' = [counts EXCEPT !.actions = n]
      /\ stage' = [Idle(main') EXCEPT !.at = "claim", !.action = n]
      /\ UNCHANGED <<kind, probe, sentWakes>>
  BY DEF Submit
<1>3. n \in 0..MaxActions /\ n > 0 /\ n \in Nat /\ counts.actions < n
  BY <1>1, <1>2
<1> HIDE DEF n
<1>4. b \in Backends /\ b.gen = main.bg.gen /\ b.continues = main.bg.continues
  BY <1>1, <1>3 DEF Backends, DispatchStates, Overalls
<1>5. f \in Foregrounds /\ f.event = main.fg.event
  BY <1>1, ForegroundKept, Verdicts
<1> HIDE DEF b, f
<1>6. /\ bg \in Backends /\ bg.gen = main.bg.gen /\ bg.continues = main.bg.continues
      /\ fg \in Foregrounds /\ fg.event = main.fg.event
  BY <1>1, <1>4, <1>5, WroteBackend, WroteForeground
<1> HIDE DEF bg, fg
<1>7. /\ main' \in Trees /\ main'.result = main.result
      /\ main'.bg.gen = main.bg.gen /\ main'.bg.continues = main.bg.continues
      /\ main'.fg.event = main.fg.event
      /\ main.bg.state = "DONE" => main'.bg.state = "DONE"
  BY <1>1, <1>2, <1>6 DEF Trees
<1>8. /\ stage' \in Jobs /\ stage'.at = "claim" /\ stage'.action = n
      /\ stage'.base = main' /\ stage'.tree = main'
  <2>1. Idle(main') \in Jobs /\ Idle(main').base = main' /\ Idle(main').tree = main'
    BY <1>3, <1>7, StageRunAssumption DEF Idle, Jobs, JobSteps
  <2> QED
    BY <1>2, <1>3, <2>1 DEF Jobs, JobSteps
<1>9. counts' \in Counts /\ counts'.actions = n
  BY <1>1, <1>2, <1>3 DEF Counts
<1>10. main.result.action <= counts.actions /\ main.bg.continues <= main.result.action
  BY DEF StageIInv, ActionsCounted, Continued
<1>11. main.result.action \in Nat
  BY <1>1, TreeTypes
<1>12. StageTypeOK'
  BY <1>2, <1>7, <1>8, <1>9 DEF StageIInv, StageTypeOK, Counts
<1>13. ActionsCounted'
  BY <1>1, <1>3, <1>7, <1>8, <1>9, <1>10, <1>11 DEF ActionsCounted
<1>14. ResultIsBase' /\ TreeOfBase' /\ Continued'
  BY <1>7, <1>8, <1>10 DEF ResultIsBase, TreeOfBase, Continued, Kept
<1>15. ProbeOfBase' /\ NoEventIsConsumed'
  BY <1>2, <1>7, <1>8 DEF StageIInv, ProbeOfBase, NoEventIsConsumed
<1>16. Fences /\ Tells
  BY <1>7 DEF Fences, Tells
<1> QED
  BY <1>12, <1>13, <1>14, <1>15, <1>16 DEF StageIInv

LEMMA WakeStep ==
    ASSUME StageIInv, Wake PROVE StageIInv' /\ Fences /\ Tells
<1>1. /\ stage' = Idle(main) /\ UNCHANGED <<kind, main, probe, counts>>
      /\ sentWakes' \in {sentWakes, sentWakes \cup {stage.scheduled}}
  BY DEF Wake
<1>2. /\ stage' \in Jobs /\ stage'.at = "idle" /\ stage'.base = main /\ stage'.tree = main
  <2>1. main \in Trees /\ 0 \in 0..MaxActions /\ 0 \in Nat
    BY StageTypes, StageRunAssumption DEF StageIInv
  <2> QED
    BY <1>1, <2>1 DEF Idle, Jobs, JobSteps
<1>3. sentWakes' \subseteq Nat
  <2>1. stage.scheduled \in Nat /\ sentWakes \subseteq Nat
    BY DEF StageIInv, StageTypeOK, Jobs
  <2> QED
    BY <1>1, <2>1
<1>4. StageTypeOK'
  BY <1>1, <1>2, <1>3 DEF StageIInv, StageTypeOK
<1>5. ActionsCounted' /\ ResultIsBase' /\ ProbeOfBase' /\ NoEventIsConsumed'
  BY <1>1, <1>2 DEF StageIInv, ActionsCounted, ResultIsBase, ProbeOfBase, NoEventIsConsumed
<1>6. TreeOfBase' /\ Continued'
  BY <1>1, <1>2 DEF StageIInv, TreeOfBase, Continued, Working
<1>7. Fences /\ Tells
  BY <1>1 DEF Fences, Tells
<1> QED
  BY <1>4, <1>5, <1>6, <1>7 DEF StageIInv

\* A step of another actor: it writes no result, and no event of another action.
LEMMA OthersStep ==
    ASSUME StageIInv, Fences, main' \in Trees, main'.result = main.result,
           main'.bg.continues = main.bg.continues,
           main'.fg.event.action = main.fg.event.action,
           main.fg.event.action = 0 => main'.fg.event.delivery = main.fg.event.delivery,
           probe' = probe \/ (probe' \in Probes /\ (probe'.at = "publish" => ProbeOfBase')),
           sentWakes' \subseteq Nat, counts' \in Counts, counts'.actions = counts.actions,
           UNCHANGED <<kind, stage>>
    PROVE  StageIInv' /\ Fences /\ Tells
<1>1. StageTypeOK'
  BY DEF StageIInv, StageTypeOK, Counts, Probes
<1>2. ActionsCounted' /\ ResultIsBase' /\ NoEventIsConsumed'
  BY DEF StageIInv, ActionsCounted, ResultIsBase, NoEventIsConsumed
<1>3. TreeOfBase' /\ Continued'
  BY DEF StageIInv, TreeOfBase, Continued, Working
<1>4. ProbeOfBase'
  BY DEF StageIInv, ProbeOfBase
<1>5. Tells
  BY DEF Tells
<1> QED
  BY <1>1, <1>2, <1>3, <1>4, <1>5 DEF StageIInv

LEMMA Typed ==
    ASSUME StageIInv
    PROVE  /\ sentWakes \subseteq Nat /\ counts \in Counts /\ probe \in Probes
           /\ main \in Trees /\ main.bg \in Backends /\ main.fg \in Foregrounds
           /\ main.result \in Results /\ main.fg.event \in TerminalEvents
BY TreeTypes DEF StageIInv, StageTypeOK, Counts, Probes

LEMMA AdmitStep ==
    ASSUME StageIInv, Admit PROVE StageIInv' /\ Fences /\ Tells
<1> DEFINE b == [main.bg EXCEPT !.state = "RUNNING", !.overall = "RUNNING"]
           bg == Wrote(main.bg, b)
<1>1. /\ main.bg.state = "READY" /\ main' = [main EXCEPT !.bg = bg]
      /\ UNCHANGED <<kind, stage, probe, sentWakes, counts>>
  BY DEF Admit
<1>2. b \in Backends /\ b.gen = main.bg.gen /\ b.continues = main.bg.continues
  BY Typed DEF Backends, DispatchStates, Overalls
<1> HIDE DEF b
<1>3. bg \in Backends /\ bg.gen = main.bg.gen /\ bg.continues = main.bg.continues
  BY <1>2, Typed, WroteBackend
<1> HIDE DEF bg
<1>4. main' \in Trees /\ main'.bg = bg /\ main'.fg = main.fg /\ main'.result = main.result
  BY <1>1, <1>3, Typed DEF Trees
<1>5. Fences
  BY <1>1, <1>3, <1>4 DEF Fences
<1> QED
  BY <1>1, <1>3, <1>4, <1>5, Typed, OthersStep

LEMMA BranchEndsStep ==
    ASSUME StageIInv, BranchEnds PROVE StageIInv' /\ Fences /\ Tells
<1> DEFINE b == [main.bg EXCEPT !.state = "DONE", !.wait = 0, !.overall = "GREEN"]
           bg == Wrote(main.bg, b)
           fg == Wrote(main.fg, main.fg)
<1>1. /\ main.bg.state # "DONE" /\ main' = [main EXCEPT !.bg = bg, !.fg = fg]
      /\ UNCHANGED <<kind, stage, probe, sentWakes, counts>>
  BY DEF BranchEnds
<1>2. b \in Backends /\ b.gen = main.bg.gen /\ b.continues = main.bg.continues
  <2>1. 0 \in 0..MaxActions
    BY StageRunAssumption
  <2> QED
    BY <2>1, Typed DEF Backends, DispatchStates, Overalls
<1> HIDE DEF b
<1>3. /\ bg \in Backends /\ bg.gen = main.bg.gen /\ bg.continues = main.bg.continues
      /\ fg \in Foregrounds /\ fg.event = main.fg.event
  BY <1>2, Typed, WroteBackend, WroteForeground
<1> HIDE DEF bg, fg
<1>4. main' \in Trees /\ main'.bg = bg /\ main'.fg = fg /\ main'.result = main.result
  BY <1>1, <1>3, Typed DEF Trees
<1>5. Fences
  BY <1>1, <1>3, <1>4 DEF Fences
<1> QED
  BY <1>1, <1>3, <1>4, <1>5, Typed, OthersStep

LEMMA ProbeResumeStep ==
    ASSUME StageIInv, ProbeResume PROVE StageIInv' /\ Fences /\ Tells
<1> DEFINE b == [main.bg EXCEPT !.gen = @ + 1, !.state = "READY", !.wait = 0,
                                !.overall = "READY"]
           bg == Wrote(main.bg, b)
           tree == [main EXCEPT !.bg = bg]
<1>1. /\ main.bg.state = "WAIT_RESOURCE"
      /\ probe' = [at |-> "publish", base |-> main, tree |-> tree]
      /\ UNCHANGED <<kind, main, stage, sentWakes, counts>>
  BY DEF ProbeResume
<1>2. /\ b \in Backends /\ b.gen = main.bg.gen + 1 /\ b.continues = main.bg.continues
      /\ b.state = "READY"
  <2>1. 0 \in 0..MaxActions /\ main.bg.gen + 1 \in Nat
    BY Typed, StageRunAssumption DEF Backends
  <2> QED
    BY <2>1, Typed DEF Backends, DispatchStates, Overalls
<1> HIDE DEF b
<1>3. /\ bg \in Backends /\ bg.gen = main.bg.gen + 1 /\ bg.continues = main.bg.continues
      /\ bg.state = "READY"
  BY <1>2, Typed, WroteBackend
<1> HIDE DEF bg
<1>4. tree \in Trees /\ tree.bg = bg /\ tree.fg = main.fg /\ tree.result = main.result
  BY <1>3, Typed DEF Trees
<1> HIDE DEF tree
<1>5. probe' \in Probes /\ ProbeOfBase'
  BY <1>1, <1>3, <1>4, Typed DEF Probes, ProbeOfBase
<1>6. Fences
  BY <1>1 DEF Fences
<1> QED
  BY <1>1, <1>5, <1>6, Typed, OthersStep

\* What the probe publishes is the next generation, or the branch's own.
LEMMA ProbePublishStep ==
    ASSUME StageIInv, ProbePublish PROVE StageIInv' /\ Fences /\ Tells
<1> DEFINE base == probe.base
           tree == probe.tree
           r == Rebased(base, tree)
<1>1. /\ probe.at = "publish" /\ base \in Trees /\ tree \in Trees /\ tree.bg.gen \in Nat
  BY StageTypes, TreeTypes DEF StageIInv, ProbePublish
<1>2. /\ \/ main' = main
         \/ ~Conflicting(base, tree) /\ main' = r
      /\ sentWakes' \in {sentWakes, sentWakes \cup {tree.bg.gen}}
      /\ UNCHANGED counts \/ Mishap
      /\ probe' = [probe EXCEPT !.at = "idle", !.base = main', !.tree = main']
      /\ UNCHANGED <<kind, stage>>
  BY DEF ProbePublish
<1>3. ~Conflicting(base, tree) =>
        /\ r \in Trees
        /\ \/ r.bg = tree.bg /\ main.bg = base.bg
           \/ r.bg = main.bg
        /\ \/ r.fg = tree.fg /\ main.fg = base.fg
           \/ r.fg = main.fg
        /\ \/ r.result = tree.result /\ main.result = base.result
           \/ r.result = main.result
  BY <1>1, RebasedFiles DEF StageIInv
<1>4. /\ tree.fg = base.fg /\ tree.result = base.result
      /\ base.bg.state = "WAIT_RESOURCE"
      /\ tree.bg.gen = base.bg.gen + 1 /\ tree.bg.state = "READY"
      /\ tree.bg.continues = base.bg.continues
  BY <1>1 DEF StageIInv, ProbeOfBase
<1> HIDE DEF r, base, tree
<1>5. /\ main' \in Trees /\ main'.result = main.result /\ main'.fg = main.fg
      /\ \/ main'.bg = main.bg
         \/ main'.bg = tree.bg /\ main.bg = base.bg
  BY <1>2, <1>3, <1>4, Typed
<1>6. probe' \in Probes /\ probe'.at = "idle"
  BY <1>2, <1>5, Typed DEF Probes
<1>7. counts' \in Counts /\ counts'.actions = counts.actions
  <2>1. CASE UNCHANGED counts
    BY <2>1, Typed
  <2>2. CASE Mishap
    BY <2>2, MishapCounts DEF StageIInv, Counts
  <2> QED
    BY <1>2, <2>1, <2>2
<1>8. Fences
  BY <1>4, <1>5 DEF Fences
<1>9. sentWakes' \subseteq Nat
  BY <1>1, <1>2, Typed
<1> QED
  BY <1>2, <1>4, <1>5, <1>6, <1>7, <1>8, <1>9, OthersStep

LEMMA AdvanceDeliveryStep ==
    ASSUME StageIInv, AdvanceDelivery PROVE StageIInv' /\ Fences /\ Tells
<1>1. PICK d \in Deliveries :
        main' = [main EXCEPT !.fg = Wrote(@, [@ EXCEPT !.event.delivery = d])]
  BY DEF AdvanceDelivery, Deliveries
<1> DEFINE e == [main.fg.event EXCEPT !.delivery = d]
           f == [main.fg EXCEPT !.event = e]
           fg == Wrote(main.fg, f)
<1>2. /\ main' = [main EXCEPT !.fg = fg] /\ main.fg.event.action # 0
      /\ UNCHANGED <<kind, stage, probe, sentWakes, counts>>
  BY <1>1 DEF AdvanceDelivery
<1>3. e \in TerminalEvents /\ e.action = main.fg.event.action
  BY Typed DEF TerminalEvents
<1> HIDE DEF e
<1>4. f \in Foregrounds /\ f.event = e
  BY <1>3, Typed DEF Foregrounds
<1> HIDE DEF f
<1>5. fg \in Foregrounds /\ fg.event = e
  BY <1>4, Typed, WroteForeground
<1> HIDE DEF fg
<1>6. main' \in Trees /\ main'.bg = main.bg /\ main'.fg = fg /\ main'.result = main.result
  BY <1>2, <1>5, Typed DEF Trees
<1>7. Fences
  BY <1>6 DEF Fences
<1> QED
  BY <1>2, <1>3, <1>5, <1>6, <1>7, Typed, OthersStep

LEMMA EditForegroundStep ==
    ASSUME StageIInv, EditForeground PROVE StageIInv' /\ Fences /\ Tells
<1> DEFINE fg == Wrote(main.fg, main.fg)
<1>1. /\ main' = [main EXCEPT !.fg = fg] /\ counts.edits < MaxEdits
      /\ counts' = [counts EXCEPT !.edits = @ + 1]
      /\ UNCHANGED <<kind, stage, probe, sentWakes>>
  BY DEF EditForeground
<1>2. fg \in Foregrounds /\ fg.event = main.fg.event
  BY Typed, WroteForeground
<1> HIDE DEF fg
<1>3. main' \in Trees /\ main'.bg = main.bg /\ main'.fg = fg /\ main'.result = main.result
  BY <1>1, <1>2, Typed DEF Trees
<1>4. counts' \in Counts /\ counts'.actions = counts.actions
  BY <1>1, Typed, StageRunAssumption DEF Counts
<1>5. Fences
  BY <1>3 DEF Fences
<1> QED
  BY <1>1, <1>2, <1>3, <1>4, <1>5, Typed, OthersStep

-----------------------------------------------------------------------------
LEMMA StartHolds ==
    ASSUME StageInit PROVE StageIInv
<1>1. /\ Start(kind) \in Trees /\ Start(kind).bg.continues = 0
      /\ Start(kind).result.action = 0 /\ Start(kind).fg.event = NoEvent
  <2>1. 0 \in 0..MaxActions
    BY StageRunAssumption
  <2>2. NoEvent \in TerminalEvents
    BY <2>1 DEF NoEvent, TerminalEvents, Deliveries, ResultStatus
  <2>3. Start(kind).bg \in Backends /\ Start(kind).bg.continues = 0
    BY <2>1 DEF Start, Backends, DispatchStates, Overalls
  <2>4. Start(kind).fg \in Foregrounds /\ Start(kind).fg.event = NoEvent
    BY <2>2 DEF Start, Foregrounds, Overalls
  <2>5. Start(kind).result \in Results /\ Start(kind).result.action = 0
    BY <2>1 DEF Start, Results, ResultStatus
  <2>6. Start(kind) = [bg |-> Start(kind).bg, fg |-> Start(kind).fg, result |-> Start(kind).result]
    BY DEF Start
  <2> HIDE DEF Start
  <2> QED
    BY <2>3, <2>4, <2>5, <2>6 DEF Trees
<1>2. /\ kind \in TaskKinds /\ main = Start(kind) /\ stage = Idle(Start(kind))
      /\ probe = [at |-> "idle", base |-> Start(kind), tree |-> Start(kind)]
      /\ sentWakes = {} /\ counts = [actions |-> 0, edits |-> 0, mishaps |-> 0]
  BY DEF StageInit
<1> DEFINE s == Start(kind)
<1> HIDE DEF s
<1>3. /\ stage \in Jobs /\ stage.at = "idle" /\ stage.base = Start(kind)
      /\ stage.tree = Start(kind)
  BY <1>1, <1>2, StageRunAssumption DEF Idle, Jobs, JobSteps
<1>4. StageTypeOK
  BY <1>1, <1>2, <1>3, StageRunAssumption DEF StageTypeOK
<1>5. ActionsCounted /\ ResultIsBase /\ ProbeOfBase
  BY <1>1, <1>2, <1>3 DEF ActionsCounted, ResultIsBase, ProbeOfBase
<1>6. NoEventIsConsumed
  BY <1>1, <1>2, <1>3 DEF NoEventIsConsumed, NoEvent
<1>7. TreeOfBase /\ Continued
  BY <1>1, <1>2, <1>3 DEF TreeOfBase, Continued, Working
<1> QED
  BY <1>4, <1>5, <1>6, <1>7 DEF StageIInv

LEMMA StageStep ==
    ASSUME StageIInv, [StageNext]_stageVars PROVE StageIInv' /\ [Fences /\ Tells]_stageVars
<1>1. CASE StageNext
  <2>1. CASE Submit
    BY <2>1, SubmitStep
  <2>2. CASE Claim
    BY <2>2, ClaimStep
  <2>3. ASSUME NEW s \in ResultStatus, Execute(s)
        PROVE  StageIInv' /\ Fences /\ Tells
    BY <2>3, ExecuteStep
  <2>4. ASSUME NEW v \in BOOLEAN, Verify(v)
        PROVE  StageIInv' /\ Fences /\ Tells
    BY <2>4, VerifyStep
  <2>5. CASE Continue
    BY <2>5, ContinueStep
  <2>6. CASE Wake
    BY <2>6, WakeStep
  <2>7. CASE Admit
    BY <2>7, AdmitStep
  <2>8. CASE BranchEnds
    BY <2>8, BranchEndsStep
  <2>9. CASE ProbeResume
    BY <2>9, ProbeResumeStep
  <2>10. CASE ProbePublish
    BY <2>10, ProbePublishStep
  <2>11. CASE AdvanceDelivery
    BY <2>11, AdvanceDeliveryStep
  <2>12. CASE EditForeground
    BY <2>12, EditForegroundStep
  <2> QED
    BY <1>1, <2>1, <2>2, <2>3, <2>4, <2>5, <2>6, <2>7, <2>8, <2>9, <2>10, <2>11, <2>12
    DEF StageNext
<1>2. CASE UNCHANGED stageVars
  BY <1>2 DEF stageVars, StageIInv, StageTypeOK, ActionsCounted, ResultIsBase, TreeOfBase,
              ProbeOfBase, NoEventIsConsumed, Continued, Working
<1> QED
  BY <1>1, <1>2

LEMMA Invariant == StageSpec => []StageIInv
BY StartHolds, StageStep, PTL DEF StageSpec

-----------------------------------------------------------------------------
\* Type correctness: command lists, jobs and counters stay what they are, for any
\* number of actions, edits and mishaps.
THEOREM StageIsTyped == StageSpec => []StageTypeOK
<1>1. StageIInv => StageTypeOK
  BY DEF StageIInv
<1> QED
  BY <1>1, Invariant, PTL

\* A dispatch that continues an action is on the branch together with the result
\* it continues (continue_after_result looks for the result in its own checkout,
\* which the branch may have refused).
THEOREM ContinuationsAreDurable == StageSpec => []ContinuationHasResult
<1>1. StageIInv => ContinuationHasResult
  <2> SUFFICES ASSUME StageIInv PROVE ContinuationHasResult
    OBVIOUS
  <2>1. main.bg.continues \in Nat /\ main.result.action \in Nat
    BY Typed DEF Backends, Results
  <2>2. main.bg.continues <= main.result.action
    BY DEF StageIInv, Continued
  <2> QED
    BY <2>1, <2>2 DEF ContinuationHasResult
<1> QED
  BY <1>1, Invariant, PTL

\* The dispatch of the task moves by fences only, although job and probe publish
\* what they made of old checkouts.
THEOREM DispatchIsFenced == StageSpec => FencedAdvance
<1> DEFINE A == /\ main'.bg.gen # main.bg.gen
                     => /\ main'.bg.gen = main.bg.gen + 1
                        /\ main.bg.state \in {"NONE", "WAIT_RESULT", "WAIT_RESOURCE"}
                        /\ main'.bg.state = "READY"
                /\ main.bg.state = "DONE" => main'.bg.state = "DONE"
<1>1. StageIInv /\ [StageNext]_stageVars => [A]_stageVars
  BY StageStep DEF Fences
<1> HIDE DEF A
<1>2. StageSpec => [][A]_stageVars
  BY <1>1, Invariant, PTL DEF StageSpec
<1> QED
  BY <1>2 DEF FencedAdvance, A

\* A terminal event tells the outcome its action has on the branch, and replaces
\* only one that was consumed (publish_foreground_terminal_event).
THEOREM EventsAreTruthful == StageSpec => TerminalTruthful
<1> DEFINE A == main'.fg.event.action # main.fg.event.action
                  => /\ main.fg.event.delivery = "CONSUMED"
                     /\ main'.fg.event.action = main'.result.action
                     /\ main'.fg.event.status = main'.result.status
<1>1. StageIInv /\ [StageNext]_stageVars => [A]_stageVars
  BY StageStep DEF Tells
<1> HIDE DEF A
<1>2. StageSpec => [][A]_stageVars
  BY <1>1, Invariant, PTL DEF StageSpec
<1> QED
  BY <1>2 DEF TerminalTruthful, A
====
