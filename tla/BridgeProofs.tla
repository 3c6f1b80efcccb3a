----------------------------- MODULE BridgeProofs ----------------------------
(*****************************************************************************)
(* Proofs about two loops of the Bridge. First the request drains, for any   *)
(* ledger of requests, any number of drains and of attempts of a             *)
(* transaction: a receipt that says DONE is true, a final receipt is never   *)
(* rewritten, and a result is projected once; the invariant says what a      *)
(* head of the branch can be (HeadSound), what its DONE receipts stand for   *)
(* (DoneTrue) and what a consumer in the middle of its transactions has      *)
(* already done (WorkSound). Then the terminal deliveries of the Host, for   *)
(* any final deliveries, wakes and conversations: what the host's round      *)
(* stands on (RoundSound), when a message was sent (SentIsShown) and what    *)
(* the receipts list (Books).                                                *)
(*****************************************************************************)
EXTENDS RequestDrain, TerminalDelivery, SequenceTheorems, WellFoundedInduction, TLAPS

\* The task carries the outcome of the request.
Carried(h, r) == h.task.result = r.file /\ h.task.state = Outcome(r)

\* A head: only a wake is claimed, a task with a result has ended, and no request
\* is of a dispatch to come.
HeadSound(h) ==
    /\ h \in Heads
    /\ \A r \in Ledger : h.receipt[r].phase = "CLAIMED" => r.kind = "wake"
    /\ h.task.result # "none" => h.task.state \in {"DONE", "BLOCKED"}
    /\ \A f \in Files : h.at[f].gen <= h.task.gen

\* DoneIsTrue on the head h with the wakes q in the wake store.
DoneTrue(h, q) ==
    \A r \in Ledger : h.receipt[r].phase = "DONE" =>
        IF r.kind = "wake" THEN h.receipt[r].wake => r \in q
        ELSE r.gen <= h.task.gen /\ (r.gen = h.task.gen => Carried(h, r))

\* A batch has wakes only, or one request.
Alike(batch) == \A r, p \in batch : r = p \/ (r.kind = "wake" /\ p.kind = "wake")

\* What a consumer is doing: a fetch is an attempt that is left, and what it sent
\* is in the wake store, all of it before the transaction that says so.
WorkSound(w, q) ==
    /\ w \in Work
    /\ w.at = "fetch" => w.tries < Attempts
    /\ Alike(w.batch)
    /\ \A r \in w.claimed : r.kind = "wake"
    /\ w.sent \ w.unsent \subseteq q
    /\ w.closing => w.claimed \subseteq w.sent

\* The inductive invariant.
DrainIInv ==
    /\ DrainTypeOK
    /\ HeadSound(canon)
    /\ DoneTrue(canon, queued)
    /\ \A c \in Consumers : WorkSound(consumer[c], queued)

\* One step of FinalSticks, from the head h to the head new.
Sticks(h, new) ==
    /\ \A r \in Ledger : Final(h, r) => new.receipt[r] = h.receipt[r]
    /\ new.task.result # h.task.result =>
         /\ h.task.result = "none"
         /\ \E r \in Ledger : /\ r.file = new.task.result /\ r.gen = h.task.gen
                               /\ ~Final(h, r) /\ new.receipt[r].phase = "DONE"

-----------------------------------------------------------------------------
(* LedgerTypes and heads.                                                       *)

LEMMA LedgerTypes ==
    /\ \A r \in Ledger : /\ r.gen \in Nat /\ r.kind \in {"wake", "finalize"} /\ r.file \in Files
                          /\ r.file # "none"
    /\ Blank.gen = 0 /\ Attempts \in Nat /\ 0 < Attempts /\ 0 \in 0..Attempts
BY DrainAssumption DEF LedgerEntries, Files, Blank

LEMMA HeadTypes ==
    ASSUME NEW h \in Heads
    PROVE  /\ \A f \in Files : h.at[f] \in Ledger \cup {Blank} /\ h.at[f].gen \in Nat
           /\ \A r \in Ledger : /\ h.receipt[r].phase \in ReceiptPhases
                                 /\ h.receipt[r].wake \in BOOLEAN
           /\ h.task \in Tasks /\ h.task.gen \in Nat /\ h.task.state \in TaskStates
           /\ h.task.result \in Files \cup {"none"}
BY LedgerTypes DEF Heads, Tasks

LEMMA WakeDecides ==
    ASSUME NEW h, NEW r
    PROVE  WakeDecision(h, r, FALSE) \in {"REJECTED", "SUPERSEDED", "DONE", "raises", "CLAIMED"}
BY DEF WakeDecision

LEMMA FinalizeDecides ==
    ASSUME NEW h, NEW r
    PROVE  /\ FinalizeDecision(h, r)
                \in {"REJECTED", "SUPERSEDED", "DONE", "WAIT_VALID_RESULT", "project"}
           /\ FinalizeDecision(h, r) \in {"DONE", "project"} => r.gen = h.task.gen
           /\ FinalizeDecision(h, r) = "DONE" => Carried(h, r)
           /\ FinalizeDecision(h, r) = "project" => h.task.state \in {"READY", "RUNNING"}
BY DEF FinalizeDecision, OtherDispatch, AlreadyProjected, Carried

\* The receipt of a decision: claimed is a wake, and done a wake that needs none
\* or the outcome that is there or is written with it.
LEMMA Receipts ==
    ASSUME NEW h, NEW r \in Ledger
    PROVE  /\ Receipt(h, r) \in [phase : ReceiptPhases, wake : BOOLEAN]
           /\ Receipt(h, r).phase = "CLAIMED" => r.kind = "wake"
           /\ Receipt(h, r).phase = "DONE" /\ r.kind = "wake" => ~Receipt(h, r).wake
           /\ Receipt(h, r).phase = "DONE" /\ r.kind # "wake"
                => FinalizeDecision(h, r) \in {"DONE", "project"}
           /\ r.kind # "wake" /\ FinalizeDecision(h, r) = "project" => Receipt(h, r).phase = "DONE"
<1> DEFINE d == IF r.kind = "wake" THEN WakeDecision(h, r, FALSE) ELSE FinalizeDecision(h, r)
           phase == IF d = "raises" THEN "NEEDS_RECONCILE" ELSE IF d = "project" THEN "DONE" ELSE d
<1>1. Receipt(h, r) = [phase |-> phase, wake |-> d = "CLAIMED"]
  BY DEF Receipt
<1>2. CASE r.kind = "wake"
  <2>1. d \in {"REJECTED", "SUPERSEDED", "DONE", "raises", "CLAIMED"}
    BY <1>2, WakeDecides
  <2>2. CASE d = "CLAIMED"
    <3>1. Receipt(h, r) = [phase |-> "CLAIMED", wake |-> TRUE]
      BY <1>1, <2>2
    <3> QED
      BY <1>2, <3>1 DEF ReceiptPhases
  <2>3. CASE d # "CLAIMED"
    <3> HIDE DEF d
    <3>1. Receipt(h, r) = [phase |-> phase, wake |-> FALSE]
      BY <1>1, <2>3
    <3> QED
      BY <1>2, <2>1, <2>3, <3>1 DEF ReceiptPhases, FinalPhases, HeldPhases
  <2> QED
    BY <2>2, <2>3
<1>3. CASE r.kind # "wake"
  <2>1. /\ d \in {"REJECTED", "SUPERSEDED", "DONE", "WAIT_VALID_RESULT", "project"}
        /\ d = FinalizeDecision(h, r)
    BY <1>3, FinalizeDecides
  <2> HIDE DEF d
  <2> QED
    BY <1>1, <1>3, <2>1 DEF ReceiptPhases, FinalPhases, HeldPhases
<1> QED
  BY <1>2, <1>3

LEMMA Projects ==
    ASSUME NEW task \in Tasks, NEW r \in Ledger
    PROVE  /\ Projected(task, r) \in Tasks /\ Projected(task, r).gen = task.gen
           /\ Projected(task, r).result = r.file /\ Projected(task, r).state = Outcome(r)
           /\ Outcome(r) \in {"DONE", "BLOCKED"}
<1>1. Outcome(r) \in {"DONE", "BLOCKED"}
  BY DEF Outcome
<1> QED
  BY <1>1, LedgerTypes DEF Projected, Tasks, TaskStates

\* A batch is decided: receipts, and with the one of a finalizer its projection.
LEMMA PreparedSound ==
    ASSUME NEW h, NEW q, HeadSound(h), DoneTrue(h, q), NEW c, consumer[c].batch \subseteq Ledger,
           Alike(consumer[c].batch)
    PROVE  /\ HeadSound(Prepared(h, c)) /\ DoneTrue(Prepared(h, c), q) /\ Sticks(h, Prepared(h, c))
<1> DEFINE todo == {r \in consumer[c].batch : ~Untouched(h, r)}
           done == {r \in todo : r.kind = "finalize" /\ FinalizeDecision(h, r) = "project"}
           p == CHOOSE r \in done : TRUE
           marks == [r \in Ledger |-> IF r \in todo THEN Receipt(h, r) ELSE h.receipt[r]]
           task == IF done = {} THEN h.task ELSE Projected(h.task, p)
           new == Prepared(h, c)
<1>1. /\ h \in Heads /\ h.task \in Tasks /\ h.task.gen \in Nat
      /\ \A r \in Ledger : h.receipt[r] \in [phase : ReceiptPhases, wake : BOOLEAN]
      /\ h.at \in [Files -> Ledger \cup {Blank}]
  BY HeadTypes DEF HeadSound, Heads
<1>2. new = [h EXCEPT !.receipt = marks, !.task = task]
  BY DEF Prepared
<1>3. /\ todo \subseteq Ledger /\ done \subseteq todo
      /\ \A r \in todo : ~Final(h, r) /\ Presented(h, r)
      /\ done # {} => p \in done
      /\ \A r \in done : r.kind = "finalize" /\ FinalizeDecision(h, r) = "project"
      /\ \A r \in todo : r.kind = "finalize" /\ FinalizeDecision(h, r) = "project" => r \in done
      /\ \A r, s \in done : r = s
  BY DEF Untouched, Alike
<1> HIDE DEF todo, done, p
<1>4. /\ marks \in [Ledger -> [phase : ReceiptPhases, wake : BOOLEAN]]
      /\ \A r \in Ledger : marks[r] = IF r \in todo THEN Receipt(h, r) ELSE h.receipt[r]
  BY <1>1, Receipts
<1>5. /\ task \in Tasks /\ task.gen = h.task.gen
      /\ done = {} => task = h.task
      /\ done # {} => task.result = p.file /\ task.state = Outcome(p) /\ Outcome(p) \in {"DONE", "BLOCKED"}
  BY <1>1, <1>3, Projects
<1> HIDE DEF marks, task
<1>6. new \in Heads /\ new.at = h.at /\ new.receipt = marks /\ new.task = task
  BY <1>1, <1>2, <1>4, <1>5 DEF Heads
<1> HIDE DEF new
<1>7. /\ done # {} => h.task.state \in {"READY", "RUNNING"} /\ p.gen = h.task.gen /\ h.task.result = "none"
  BY <1>3, FinalizeDecides DEF HeadSound
<1>8. HeadSound(new)
  <2>1. \A r \in Ledger : new.receipt[r].phase = "CLAIMED" => r.kind = "wake"
    BY <1>4, <1>6, Receipts DEF HeadSound
  <2>2. new.task.result # "none" => new.task.state \in {"DONE", "BLOCKED"}
    BY <1>5, <1>6 DEF HeadSound
  <2>3. \A f \in Files : new.at[f].gen <= new.task.gen
    BY <1>5, <1>6 DEF HeadSound
  <2> QED
    BY <1>6, <2>1, <2>2, <2>3 DEF HeadSound
<1>9. DoneTrue(new, q)
  <2> SUFFICES ASSUME NEW r \in Ledger, new.receipt[r].phase = "DONE"
               PROVE  IF r.kind = "wake" THEN new.receipt[r].wake => r \in q
                      ELSE r.gen <= new.task.gen /\ (r.gen = new.task.gen => Carried(new, r))
    BY DEF DoneTrue
  <2>1. CASE r.kind = "wake"
    BY <1>4, <1>6, <2>1, Receipts DEF DoneTrue
  <2>2. CASE r.kind # "wake" /\ r \notin todo
    <3>1. r.gen <= h.task.gen /\ (r.gen = h.task.gen => Carried(h, r))
      BY <1>4, <1>6, <2>2 DEF DoneTrue
    <3>2. Carried(h, r) => done = {}
      BY <1>7, Projects DEF Carried, Outcome
    <3> QED
      BY <1>5, <1>6, <2>2, <3>1, <3>2 DEF Carried
  <2>3. CASE r.kind # "wake" /\ r \in todo
    <3>1. FinalizeDecision(h, r) \in {"DONE", "project"}
      BY <1>4, <1>6, <2>3, Receipts
    <3>2. r.gen = h.task.gen /\ r.gen <= h.task.gen
      BY <1>1, <3>1, FinalizeDecides, LedgerTypes
    <3>3. CASE FinalizeDecision(h, r) = "DONE"
      <4>1. Carried(h, r) /\ done = {}
        BY <1>7, <3>3, FinalizeDecides DEF Carried, Outcome
      <4> QED
        BY <1>5, <1>6, <2>3, <3>2, <4>1 DEF Carried
    <3>4. CASE FinalizeDecision(h, r) = "project"
      <4>1. r \in done
        BY <1>3, <2>3, <3>4, LedgerTypes
      <4>2. r = p
        BY <1>3, <4>1
      <4> QED
        BY <1>5, <1>6, <2>3, <3>2, <4>1, <4>2 DEF Carried
    <3> QED
      BY <3>1, <3>3, <3>4
  <2> QED
    BY <2>1, <2>2, <2>3
<1>10. Sticks(h, new)
  <2>1. \A r \in Ledger : Final(h, r) => new.receipt[r] = h.receipt[r]
    BY <1>3, <1>4, <1>6
  <2>2. CASE done = {}
    BY <1>5, <1>6, <2>1, <2>2 DEF Sticks
  <2>3. CASE done # {}
    <3>1. p \in Ledger /\ p.file = new.task.result /\ ~Final(h, p)
      BY <1>3, <1>5, <1>6, <2>3
    <3>2. new.receipt[p].phase = "DONE"
      BY <1>3, <1>4, <1>6, <2>3, <3>1, Receipts
    <3> QED
      BY <1>7, <2>1, <2>3, <3>1, <3>2 DEF Sticks
  <2> QED
    BY <2>2, <2>3
<1> QED
  BY <1>8, <1>9, <1>10 DEF new

\* The closing transaction: what was sent is done.
LEMMA FinishedSound ==
    ASSUME NEW h, NEW q, HeadSound(h), DoneTrue(h, q), NEW c,
           WorkSound(consumer[c], q), consumer[c].closing
    PROVE  /\ HeadSound(Finished(h, c)) /\ DoneTrue(Finished(h, c), q) /\ Sticks(h, Finished(h, c))
<1> DEFINE w == consumer[c]
           todo == {r \in w.claimed : ~Final(h, r)}
           Ends(r) == [h.receipt[r] EXCEPT !.phase = IF r \in w.unsent THEN "UNKNOWN" ELSE "DONE"]
           marks == [r \in Ledger |-> IF r \in todo THEN Ends(r) ELSE h.receipt[r]]
           new == Finished(h, c)
<1>1. /\ h \in Heads
      /\ \A r \in Ledger : h.receipt[r] \in [phase : ReceiptPhases, wake : BOOLEAN]
  BY DEF HeadSound, Heads
<1>2. new = [h EXCEPT !.receipt = marks]
  BY DEF Finished
<1>3. \A r \in todo : ~Final(h, r) /\ r.kind = "wake" /\ (r \notin w.unsent => r \in q)
  BY DEF WorkSound
<1>4. \A r \in Ledger : /\ Ends(r) \in [phase : ReceiptPhases, wake : BOOLEAN]
                         /\ Ends(r).phase = IF r \in w.unsent THEN "UNKNOWN" ELSE "DONE"
  BY <1>1 DEF ReceiptPhases, FinalPhases
<1> HIDE DEF todo, Ends
<1>5. /\ marks \in [Ledger -> [phase : ReceiptPhases, wake : BOOLEAN]]
      /\ \A r \in Ledger : marks[r] = IF r \in todo THEN Ends(r) ELSE h.receipt[r]
  BY <1>1, <1>4
<1> HIDE DEF marks
<1>6. new \in Heads /\ new.at = h.at /\ new.receipt = marks /\ new.task = h.task
  BY <1>1, <1>2, <1>5 DEF Heads
<1> HIDE DEF new
<1>7. HeadSound(new)
  BY <1>4, <1>5, <1>6 DEF HeadSound
<1>8. DoneTrue(new, q)
  BY <1>3, <1>4, <1>5, <1>6 DEF DoneTrue, Carried
<1>9. Sticks(h, new)
  BY <1>3, <1>5, <1>6 DEF Sticks
<1> QED
  BY <1>7, <1>8, <1>9 DEF new

LEMMA AfterSound ==
    ASSUME NEW h, NEW q, HeadSound(h), DoneTrue(h, q), NEW c, WorkSound(consumer[c], q)
    PROVE  /\ HeadSound(After(h, c)) /\ DoneTrue(After(h, c), q) /\ Sticks(h, After(h, c))
<1>1. consumer[c].batch \subseteq Ledger /\ Alike(consumer[c].batch)
  BY DEF WorkSound, Work
<1> QED
  BY <1>1, PreparedSound, FinishedSound DEF After

-----------------------------------------------------------------------------
(* What the consumers are doing.                                             *)

Memories == [last : [Files -> Ledger \cup {Blank}], blocked : BOOLEAN,
             pending : SUBSET Ledger, tried : SUBSET Ledger]

LEMMA DrainFacts ==
    ASSUME DrainIInv
    PROVE  /\ canon \in Heads /\ view \in Heads /\ discovery \in Memories
           /\ HeadSound(canon) /\ DoneTrue(canon, queued)
           /\ consumer \in [Consumers -> Work] /\ resting \subseteq Ledger /\ queued \subseteq Ledger
           /\ upsets \in 0..MaxUpsets
           /\ \A c \in Consumers : WorkSound(consumer[c], queued) /\ consumer[c] \in Work
BY DEF DrainIInv, DrainTypeOK, Memories, WorkSound

LEMMA StartHeadSound == StartHead \in Heads /\ HeadSound(StartHead) /\ \A q : DoneTrue(StartHead, q)
<1>1. StartHead \in Heads
  BY LedgerTypes DEF StartHead, Heads, Tasks, TaskStates, ReceiptPhases
<1>2. /\ \A r \in Ledger : StartHead.receipt[r].phase = "none"
      /\ StartHead.task.result = "none" /\ StartHead.task.gen = 1
      /\ \A f \in Files : StartHead.at[f].gen = 0
  BY LedgerTypes DEF StartHead
<1> QED
  BY <1>1, <1>2 DEF HeadSound, DoneTrue

LEMMA MoreQueued ==
    ASSUME NEW h, NEW w, NEW q, NEW more, q \subseteq more
    PROVE  /\ WorkSound(w, q) => WorkSound(w, more)
           /\ DoneTrue(h, q) => DoneTrue(h, more)
BY DEF WorkSound, DoneTrue

LEMMA NoWorkSound ==
    ASSUME NEW q, NEW at \in {"idle", "over"}
    PROVE  WorkSound(NoWork, q) /\ WorkSound([NoWork EXCEPT !.at = at], q)
BY LedgerTypes DEF NoWork, WorkSound, Work, Alike

LEMMA BeginSound ==
    ASSUME NEW q, NEW at \in {"next", "fetch"}, NEW todo \in SUBSET Ledger,
           NEW batch \in SUBSET Ledger, Alike(batch),
           NEW w, w = [NoWork EXCEPT !.at = at, !.batch = batch, !.todo = todo]
    PROVE  WorkSound(w, q)
<1>1. /\ w \in Work /\ w.at = at /\ w.batch = batch /\ w.tries = 0
      /\ w.claimed = {} /\ w.sent = {} /\ w.unsent = {} /\ w.closing = FALSE
  BY LedgerTypes DEF NoWork, Work
<1> QED
  BY <1>1, LedgerTypes DEF WorkSound

LEMMA LeftSound ==
    ASSUME NEW q, NEW c, NEW todo \in SUBSET Ledger
    PROVE  WorkSound(LeftWith(c, todo), q)
<1> DEFINE wakes == {r \in todo : r.kind = "wake"}
           batch == IF wakes # {} THEN wakes ELSE {CHOOSE r \in todo : TRUE}
<1>1. CASE todo = {}
  BY <1>1, NoWorkSound DEF LeftWith
<1>2. CASE todo # {} /\ c = Bridge
  <2>1. LeftWith(c, todo) = [NoWork EXCEPT !.at = "next", !.todo = todo]
    BY <1>2 DEF LeftWith
  <2> DEFINE w == LeftWith(c, todo)
  <2>2. /\ w \in Work /\ w.at = "next" /\ w.batch = {}
        /\ w.claimed = {} /\ w.sent = {} /\ w.unsent = {} /\ w.closing = FALSE
    BY <2>1, LedgerTypes DEF NoWork, Work
  <2> HIDE DEF w
  <2> QED
    BY <2>2 DEF WorkSound, Alike, w
<1>3. CASE todo # {} /\ c # Bridge
  <2>1. batch \in SUBSET Ledger /\ Alike(batch)
    BY <1>3 DEF Alike
  <2>2. LeftWith(c, todo) = [NoWork EXCEPT !.at = "fetch", !.batch = batch, !.todo = todo \ batch]
    BY <1>3 DEF LeftWith
  <2>3. todo \ batch \in SUBSET Ledger
    OBVIOUS
  <2> HIDE DEF batch
  <2> QED
    BY <2>1, <2>2, <2>3, BeginSound
<1> QED
  BY <1>1, <1>2, <1>3

LEMMA NextSound ==
    ASSUME DrainIInv, NEW c \in Consumers, NEW q
    PROVE  WorkSound(NextItem(c), q) /\ WorkSound(RaisedTo(c), q)
<1>1. consumer[c].todo \in SUBSET Ledger
  BY DrainFacts DEF Work
<1> QED
  BY <1>1, LeftSound, NoWorkSound DEF NextItem, RaisedTo

\* The transaction of c goes on: it is refused before its last attempt, or pushes.
LEMMA TriesSound ==
    ASSUME DrainIInv, NEW c \in Consumers
    PROVE  /\ WorkSound(Stale(c), queued)
           /\ \A fresh \in BOOLEAN : WorkSound([consumer[c] EXCEPT !.fresh = fresh], queued)
           /\ ~LastTry(c) => WorkSound(Refetch(c), queued)
           /\ consumer[c].at = "fetch" =>
                WorkSound([consumer[c] EXCEPT !.at = "push", !.fresh = TRUE, !.tries = @ + 1], queued)
<1>1. consumer[c] \in Work /\ WorkSound(consumer[c], queued)
  BY DrainFacts
<1>2. /\ consumer[c].tries \in 0..Attempts
      /\ ~LastTry(c) => consumer[c].tries < Attempts
      /\ consumer[c].at = "fetch" => consumer[c].tries + 1 \in 0..Attempts
  BY <1>1, LedgerTypes DEF Work, LastTry, WorkSound
<1> QED
  BY <1>1, <1>2 DEF WorkSound, Work, Stale, Refetch

LEMMA GoesOnSound ==
    ASSUME DrainIInv, NEW d \in Consumers, NEW h, HeadSound(h)
    PROVE  WorkSound(DrainGoesOn(d, h), queued)
<1> DEFINE w == consumer[d]
           claimed == {r \in w.batch : Presented(h, r) /\ h.receipt[r].phase = "CLAIMED"}
<1>1. w \in Work /\ WorkSound(w, queued)
  BY DrainFacts
<1>2. CASE w.closing \/ claimed = {}
  BY <1>2, NextSound DEF DrainGoesOn
<1>3. CASE ~(w.closing \/ claimed = {})
  <2>1. claimed \in SUBSET Ledger /\ \A r \in claimed : r.kind = "wake"
    BY <1>1 DEF Work, HeadSound
  <2>2. DrainGoesOn(d, h) = [w EXCEPT !.at = "emit", !.claimed = claimed]
    BY <1>3 DEF DrainGoesOn
  <2> HIDE DEF claimed
  <2> QED
    BY <1>1, <1>3, <2>1, <2>2 DEF WorkSound, Work
<1> QED
  BY <1>2, <1>3

\* A wake is emitted, or its emit failed; the last one ends with the closing
\* transaction.
LEMMA SentSound ==
    ASSUME DrainIInv, NEW d \in Consumers, NEW r \in consumer[d].claimed, NEW q, queued \subseteq q
    PROVE  /\ r \in q => WorkSound(Sent(d, r), q)
           /\ WorkSound([Sent(d, r) EXCEPT !.unsent = @ \cup {r}], q)
<1> DEFINE w == [consumer[d] EXCEPT !.sent = @ \cup {r}]
           s == Sent(d, r)
<1>1. consumer[d] \in Work /\ WorkSound(consumer[d], q) /\ r \in Ledger
  BY DrainFacts, MoreQueued DEF Work
<1>2. /\ w \in Work /\ w.sent = consumer[d].sent \cup {r} /\ w.unsent = consumer[d].unsent
      /\ w.claimed = consumer[d].claimed /\ w.closing = consumer[d].closing
      /\ w.at = consumer[d].at /\ w.tries = consumer[d].tries /\ w.batch = consumer[d].batch
  BY <1>1 DEF Work
<1>3. s = IF w.sent = w.claimed THEN [w EXCEPT !.at = "fetch", !.closing = TRUE, !.tries = 0] ELSE w
  BY DEF Sent
<1> HIDE DEF w
<1>4. /\ s \in Work /\ s.sent = w.sent /\ s.unsent = w.unsent /\ s.claimed = w.claimed
      /\ s.batch = w.batch
      /\ s.at = "fetch" => s.tries < Attempts
      /\ s.closing => s.claimed \subseteq s.sent
  <2>1. CASE w.sent = w.claimed
    <3>1. s = [w EXCEPT !.at = "fetch", !.closing = TRUE, !.tries = 0]
      BY <1>3, <2>1
    <3>2. s \in Work
      BY <1>2, <3>1, LedgerTypes DEF Work
    <3>3. /\ s.sent = w.sent /\ s.unsent = w.unsent /\ s.claimed = w.claimed
          /\ s.batch = w.batch /\ s.tries = 0
      BY <1>2, <3>1 DEF Work
    <3> QED
      BY <2>1, <3>2, <3>3, LedgerTypes
  <2>2. CASE w.sent # w.claimed
    BY <1>1, <1>2, <1>3, <2>2 DEF WorkSound
  <2> QED
    BY <2>1, <2>2
<1> HIDE DEF s
<1>5. r \in q => WorkSound(s, q)
  BY <1>1, <1>2, <1>4 DEF WorkSound
<1>6. WorkSound([s EXCEPT !.unsent = @ \cup {r}], q)
  BY <1>1, <1>2, <1>4 DEF WorkSound, Work
<1> QED
  BY <1>5, <1>6 DEF s

\* A step of one consumer.
LEMMA DoesSound ==
    ASSUME DrainIInv, NEW c \in Consumers, NEW w, Does(c, w), WorkSound(w, queued'),
           queued \subseteq queued'
    PROVE  /\ consumer' \in [Consumers -> Work]
           /\ \A x \in Consumers : WorkSound(consumer'[x], queued')
<1>1. /\ consumer \in [Consumers -> Work] /\ w \in Work
      /\ \A x \in Consumers : WorkSound(consumer[x], queued')
  BY DrainFacts, MoreQueued DEF WorkSound
<1>2. consumer' = [consumer EXCEPT ![c] = w]
  BY DEF Does
<1> QED
  BY <1>1, <1>2

\* Somebody moved the branch.
LEMMA AllStale ==
    ASSUME DrainIInv, NEW w, WorkSound(w, queued), NEW c \in Consumers,
           consumer' = [x \in Consumers |-> IF x = c THEN w ELSE Stale(x)]
    PROVE  /\ consumer' \in [Consumers -> Work]
           /\ \A x \in Consumers : WorkSound(consumer'[x], queued)
<1>1. \A x \in Consumers : WorkSound(Stale(x), queued) /\ Stale(x) \in Work
  BY TriesSound DEF WorkSound
<1>2. w \in Work
  BY DEF WorkSound
<1> QED
  BY <1>1, <1>2

LEMMA ViewTyped ==
    ASSUME NEW h \in Heads, Sees(h)
    PROVE  view' \in Heads
BY StartHeadSound DEF Sees

LEMMA MemoryTyped ==
    ASSUME DrainIInv, NEW r \in Ledger, NEW hold \in BOOLEAN
    PROVE  Forget(r, hold) \in Memories /\ Retry(r) \in Memories
<1>1. discovery \in Memories
  BY DrainFacts
<1>2. (discovery.blocked \/ hold) \in BOOLEAN
  OBVIOUS
<1>3. [discovery EXCEPT !.pending = @ \ {r}, !.tried = @ \ {r}] \in Memories
  BY <1>1 DEF Memories
<1>4. Forget(r, hold) \in Memories
  BY <1>1, <1>2 DEF Memories, Forget
<1>5. Retry(r) \in Memories
  BY <1>1 DEF Memories, Retry
<1> QED
  BY <1>4, <1>5

-----------------------------------------------------------------------------
(* The steps.                                                                *)

LEMMA Settles ==
    ASSUME DrainIInv, HeadSound(canon'), DoneTrue(canon', queued'), view' \in Heads,
           discovery' \in Memories, consumer' \in [Consumers -> Work],
           \A c \in Consumers : WorkSound(consumer'[c], queued'),
           resting' \subseteq Ledger, queued' \subseteq Ledger, upsets' \in 0..MaxUpsets
    PROVE  DrainIInv'
<1>1. canon' \in Heads
  BY DEF HeadSound
<1>2. DrainTypeOK'
  BY <1>1 DEF DrainTypeOK, Memories
<1> QED
  BY <1>2 DEF DrainIInv

\* A step that leaves the branch alone.
LEMMA SettlesHere ==
    ASSUME DrainIInv, UNCHANGED canon, queued \subseteq queued', view' \in Heads,
           discovery' \in Memories, consumer' \in [Consumers -> Work],
           \A c \in Consumers : WorkSound(consumer'[c], queued'),
           resting' \subseteq Ledger, queued' \subseteq Ledger, upsets' \in 0..MaxUpsets
    PROVE  DrainIInv' /\ Sticks(canon, canon')
<1>1. HeadSound(canon) /\ DoneTrue(canon, queued')
  BY DrainFacts, MoreQueued
<1>2. HeadSound(canon') /\ DoneTrue(canon', queued')
  BY <1>1
<1>3. Sticks(canon, canon')
  BY DEF Sticks
<1> QED
  BY <1>2, <1>3, Settles

LEMMA UpsetCounts ==
    ASSUME DrainIInv, Upset PROVE upsets' \in 0..MaxUpsets
BY DrainFacts, DrainAssumption DEF Upset

\* prepare returned the head h to the Bridge.
LEMMA LearnsTyped ==
    ASSUME DrainIInv, NEW h \in Heads, NEW r \in Ledger, BridgeLearns(h, r)
    PROVE  view' \in Heads /\ discovery' \in Memories
<1>1. Sees(h) /\ discovery' \in {Forget(r, TRUE), Forget(r, FALSE), Retry(r)}
  BY DEF BridgeLearns
<1> QED
  BY <1>1, ViewTyped, MemoryTyped

\* The last attempt of the Bridge raised.
LEMMA RaisesTyped ==
    ASSUME DrainIInv, NEW h \in Heads, BridgeRaises(h), Bridge \in Consumers
    PROVE  view' \in Heads /\ discovery' \in Memories /\ resting' \subseteq Ledger
<1>1. consumer[Bridge].batch \subseteq Ledger /\ discovery \in Memories /\ resting \subseteq Ledger
  BY DrainFacts DEF Work
<1>2. /\ Sees(h) /\ discovery' = [discovery EXCEPT !.tried = @ \cup consumer[Bridge].batch]
      /\ resting' = resting \cup consumer[Bridge].batch \cup Rests(h)
  BY DEF BridgeRaises
<1>3. discovery' \in Memories
  BY <1>1, <1>2 DEF Memories
<1>4. Rests(h) \subseteq Ledger
  BY DEF Rests
<1> QED
  BY <1>1, <1>2, <1>3, <1>4, ViewTyped

LEMMA FetchStep ==
    ASSUME DrainIInv, NEW c \in Consumers, Fetch(c)
    PROVE  DrainIInv' /\ Sticks(canon, canon')
<1>1. UNCHANGED <<canon, resting, queued, upsets>> /\ consumer[c].at = "fetch"
  BY DEF Fetch
<1>2. \/ /\ Does(c, NextItem(c)) \/ Does(c, DrainGoesOn(c, canon))
              \/ Does(c, [consumer[c] EXCEPT !.at = "push", !.fresh = TRUE, !.tries = @ + 1])
         /\ UNCHANGED <<view, discovery>>
      \/ Does(c, NextItem(c)) /\ \E r \in consumer[c].batch : BridgeLearns(canon, r)
  BY DEF Fetch
<1>3. /\ WorkSound(NextItem(c), queued') /\ WorkSound(DrainGoesOn(c, canon), queued')
      /\ WorkSound([consumer[c] EXCEPT !.at = "push", !.fresh = TRUE, !.tries = @ + 1], queued')
  BY <1>1, DrainFacts, NextSound, GoesOnSound, TriesSound
<1>4. /\ consumer' \in [Consumers -> Work]
      /\ \A x \in Consumers : WorkSound(consumer'[x], queued')
  BY <1>1, <1>2, <1>3, DoesSound
<1>5. view' \in Heads /\ discovery' \in Memories
  <2>1. \A r \in consumer[c].batch : r \in Ledger
    BY DrainFacts DEF Work
  <2> QED
    BY <1>2, <2>1, DrainFacts, LearnsTyped
<1> QED
  BY <1>1, <1>4, <1>5, DrainFacts, SettlesHere

LEMMA PushLandsStep ==
    ASSUME DrainIInv, NEW c \in Consumers, PushLands(c)
    PROVE  DrainIInv' /\ Sticks(canon, canon')
<1> DEFINE h == After(canon, c)
<1>1. HeadSound(h) /\ DoneTrue(h, queued) /\ Sticks(canon, h)
  BY DrainFacts, AfterSound
<1> HIDE DEF h
<1>2. UNCHANGED <<queued, upsets>>
  BY DEF PushLands
<1>3. \/ Lands(h, c, NextItem(c)) /\ \E r \in consumer[c].batch : BridgeLearns(h, r)
      \/ Lands(h, c, DrainGoesOn(c, h)) /\ UNCHANGED <<view, discovery>>
  BY DEF PushLands, h
<1>4. canon' = h /\ resting' = resting \cup Rests(h)
  BY <1>3 DEF Lands, Pushed
<1>5. WorkSound(NextItem(c), queued) /\ WorkSound(DrainGoesOn(c, h), queued)
  BY <1>1, NextSound, GoesOnSound
<1>6. /\ consumer' \in [Consumers -> Work]
      /\ \A x \in Consumers : WorkSound(consumer'[x], queued)
  BY <1>3, <1>5, AllStale DEF Lands
<1>7. view' \in Heads /\ discovery' \in Memories
  <2>1. (\A r \in consumer[c].batch : r \in Ledger) /\ h \in Heads
    BY <1>1, DrainFacts DEF Work, HeadSound
  <2> QED
    BY <1>3, <2>1, DrainFacts, LearnsTyped
<1>8. Rests(h) \subseteq Ledger
  BY DEF Rests
<1> QED
  BY <1>1, <1>2, <1>4, <1>6, <1>7, <1>8, DrainFacts, Settles

LEMMA PushRefusedStep ==
    ASSUME DrainIInv, NEW c \in Consumers, PushRefused(c)
    PROVE  DrainIInv' /\ Sticks(canon, canon')
<1>1. /\ UNCHANGED <<canon, queued, upsets>>
      /\ \/ LastTry(c) /\ Does(c, RaisedTo(c))
         \/ ~LastTry(c) /\ Does(c, Refetch(c))
      /\ \/ c = Bridge /\ BridgeRaises(canon)
         \/ UNCHANGED <<view, discovery, resting>>
  BY DEF PushRefused
<1>2. /\ consumer' \in [Consumers -> Work]
      /\ \A x \in Consumers : WorkSound(consumer'[x], queued')
  BY <1>1, NextSound, TriesSound, DoesSound
<1>3. view' \in Heads /\ discovery' \in Memories /\ resting' \subseteq Ledger
  BY <1>1, DrainFacts, RaisesTyped
<1> QED
  BY <1>1, <1>2, <1>3, DrainFacts, SettlesHere

LEMMA PushUnknownStep ==
    ASSUME DrainIInv, NEW c \in Consumers, PushUnknown(c)
    PROVE  DrainIInv' /\ Sticks(canon, canon')
<1>1. PICK h \in {canon, After(canon, c)} :
        /\ canon' = h
        /\ consumer' = [x \in Consumers |->
              IF x # c THEN [consumer[x] EXCEPT !.fresh = @ /\ h = canon]
              ELSE IF LastTry(c) THEN RaisedTo(c) ELSE Refetch(c)]
        /\ IF LastTry(c) /\ c = Bridge THEN BridgeRaises(h)
           ELSE resting' = resting \cup Rests(h) /\ UNCHANGED <<view, discovery>>
  BY DEF PushUnknown
<1>2. Upset /\ UNCHANGED queued
  BY DEF PushUnknown
<1>3. HeadSound(h) /\ DoneTrue(h, queued) /\ Sticks(canon, h) /\ h \in Heads
  <2>1. Sticks(canon, canon)
    BY DEF Sticks
  <2> QED
    BY <2>1, DrainFacts, AfterSound DEF HeadSound
<1>4. /\ consumer' \in [Consumers -> Work]
      /\ \A x \in Consumers : WorkSound(consumer'[x], queued)
  <2> DEFINE Other(x) == [consumer[x] EXCEPT !.fresh = @ /\ h = canon]
             mine == IF LastTry(c) THEN RaisedTo(c) ELSE Refetch(c)
  <2>1. \A x \in Consumers : WorkSound(Other(x), queued)
    <3> SUFFICES ASSUME NEW x \in Consumers PROVE WorkSound(Other(x), queued)
      OBVIOUS
    <3>1. (consumer[x].fresh /\ h = canon) \in BOOLEAN
      OBVIOUS
    <3> QED
      BY <3>1, TriesSound
  <2>2. WorkSound(mine, queued)
    BY NextSound, TriesSound
  <2>3. consumer' = [x \in Consumers |-> IF x # c THEN Other(x) ELSE mine]
    BY <1>1
  <2> HIDE DEF Other, mine
  <2>4. mine \in Work /\ \A x \in Consumers : Other(x) \in Work
    BY <2>1, <2>2 DEF WorkSound
  <2> QED
    BY <2>1, <2>2, <2>3, <2>4
<1>5. view' \in Heads /\ discovery' \in Memories /\ resting' \subseteq Ledger
  <2>1. Rests(h) \subseteq Ledger
    BY DEF Rests
  <2> QED
    BY <1>1, <1>3, <2>1, DrainFacts, RaisesTyped
<1> QED
  BY <1>1, <1>2, <1>3, <1>4, <1>5, DrainFacts, UpsetCounts, Settles

LEMMA DrainRuns ==
    ASSUME DrainIInv, NEW d \in Drains, StartDrain(d) \/ DrainStops(d)
    PROVE  DrainIInv' /\ Sticks(canon, canon')
<1> DEFINE todo == {r \in Ledger : r.kind \in Asked[d] /\ ~Untouched(canon, r)}
<1>1. /\ d \in Consumers /\ Upset
      /\ Does(d, LeftWith(d, todo)) \/ Does(d, LeftWith(d, {}))
      /\ UNCHANGED <<canon, view, discovery, resting, queued>>
  BY DEF StartDrain, DrainStops, Consumers
<1>2. WorkSound(LeftWith(d, todo), queued') /\ WorkSound(LeftWith(d, {}), queued')
  BY LeftSound
<1> HIDE DEF todo
<1>3. /\ consumer' \in [Consumers -> Work]
      /\ \A x \in Consumers : WorkSound(consumer'[x], queued')
  BY <1>1, <1>2, DoesSound
<1> QED
  BY <1>1, <1>3, DrainFacts, UpsetCounts, SettlesHere

LEMMA EmitStep ==
    ASSUME DrainIInv, NEW d \in Drains, NEW r \in Ledger, Emit(d, r) \/ EmitFails(d, r)
    PROVE  DrainIInv' /\ Sticks(canon, canon')
<1>1. /\ d \in Consumers /\ r \in consumer[d].claimed
      /\ UNCHANGED <<canon, view, discovery, resting>>
      /\ Upset \/ UNCHANGED upsets
      /\ \/ queued' = queued \cup {r} /\ Does(d, Sent(d, r))
         \/ /\ queued' \in {queued, queued \cup {r}}
            /\ Does(d, [Sent(d, r) EXCEPT !.unsent = @ \cup {r}])
  BY DEF Emit, EmitFails, Consumers
<1>2. queued \subseteq queued' /\ queued' \subseteq Ledger
  BY <1>1, DrainFacts
<1>3. /\ r \in queued' => WorkSound(Sent(d, r), queued')
      /\ WorkSound([Sent(d, r) EXCEPT !.unsent = @ \cup {r}], queued')
  BY <1>1, <1>2, SentSound
<1>4. /\ consumer' \in [Consumers -> Work]
      /\ \A x \in Consumers : WorkSound(consumer'[x], queued')
  BY <1>1, <1>2, <1>3, DoesSound
<1> QED
  BY <1>1, <1>2, <1>4, DrainFacts, UpsetCounts, SettlesHere

LEMMA PageStep ==
    ASSUME DrainIInv, NEW recovery \in BOOLEAN, Page(recovery)
    PROVE  DrainIInv' /\ Sticks(canon, canon')
<1> DEFINE seen == Discovered(recovery)
           open == {r \in seen \cup discovery.pending : ~Final(canon, r) /\ ~HeldBack(canon, r)}
           known == {q \in open : \A r \in open \cap seen : r.file = q.file => r = q}
           held == \E r \in seen \cup discovery.pending : HeldBack(canon, r)
<1>1. /\ discovery' = [discovery EXCEPT
             !.last = canon.at,
             !.blocked = @ \/ held, !.pending = known, !.tried = @ \cap known]
      /\ Does(Bridge, LeftWith(Bridge, known \ resting))
      /\ Sees(canon) /\ UNCHANGED <<canon, resting, queued, upsets>>
  BY DEF Page
<1>2. discovery \in Memories /\ canon.at \in [Files -> Ledger \cup {Blank}]
  BY DrainFacts DEF Heads
<1>3. known \subseteq Ledger /\ known \ resting \in SUBSET Ledger
  BY <1>2 DEF Discovered, Memories
<1>4. (discovery.blocked \/ held) \in BOOLEAN
  OBVIOUS
<1> HIDE DEF known, held
<1>5. discovery' \in Memories
  BY <1>1, <1>2, <1>3, <1>4 DEF Memories
<1>6. WorkSound(LeftWith(Bridge, known \ resting), queued') /\ Bridge \in Consumers
  BY <1>3, LeftSound DEF Consumers
<1>7. /\ consumer' \in [Consumers -> Work]
      /\ \A x \in Consumers : WorkSound(consumer'[x], queued')
  BY <1>1, <1>6, DoesSound
<1> QED
  BY <1>1, <1>5, <1>7, DrainFacts, ViewTyped, SettlesHere

\* The page goes on, with r served, forgotten or kept for a retry.
LEMMA BridgeStep ==
    ASSUME DrainIInv, NEW r \in Ledger, BridgePasses(r) \/ BridgeWakes(r) \/ BridgeFinalizes(r)
    PROVE  DrainIInv' /\ Sticks(canon, canon')
<1> DEFINE left == consumer[Bridge].todo \ {r}
           fetch == [NoWork EXCEPT !.at = "fetch", !.batch = {r}, !.todo = left]
<1>1. /\ UNCHANGED canon /\ Sees(view)
      /\ Upset \/ UNCHANGED upsets
      /\ Does(Bridge, LeftWith(Bridge, left)) \/ Does(Bridge, fetch)
      /\ resting' \in {resting, resting \cup {r}} /\ queued' \in {queued, queued \cup {r}}
      /\ \/ discovery' = Retry(r)
         \/ \E hold \in BOOLEAN : discovery' = Forget(r, hold)
  BY DEF BridgePasses, BridgeWakes, BridgeFinalizes, Served
<1>2. Bridge \in Consumers /\ left \in SUBSET Ledger
  BY DrainFacts DEF Consumers, Work
<1> HIDE DEF left
<1>3. WorkSound(LeftWith(Bridge, left), queued') /\ WorkSound(fetch, queued')
  BY <1>2, LeftSound, BeginSound DEF Alike
<1> HIDE DEF fetch
<1>4. queued \subseteq queued' /\ queued' \subseteq Ledger /\ resting' \subseteq Ledger
  BY <1>1, DrainFacts
<1>5. /\ consumer' \in [Consumers -> Work]
      /\ \A x \in Consumers : WorkSound(consumer'[x], queued')
  BY <1>1, <1>2, <1>3, <1>4, DoesSound
<1>6. discovery' \in Memories /\ view' \in Heads
  BY <1>1, DrainFacts, MemoryTyped, ViewTyped
<1> QED
  BY <1>1, <1>4, <1>5, <1>6, DrainFacts, UpsetCounts, SettlesHere

LEMMA BridgeRestartsStep ==
    ASSUME DrainIInv, BridgeRestarts
    PROVE  DrainIInv' /\ Sticks(canon, canon')
<1>1. /\ Upset /\ Does(Bridge, NoWork) /\ Sees(view) /\ discovery' = NoMemory
      /\ UNCHANGED <<canon, resting, queued>> /\ Bridge \in Consumers
  BY DEF BridgeRestarts, Consumers
<1>2. NoMemory \in Memories
  BY DEF NoMemory, Memories
<1>3. /\ consumer' \in [Consumers -> Work]
      /\ \A x \in Consumers : WorkSound(consumer'[x], queued')
  BY <1>1, NoWorkSound, DoesSound
<1> QED
  BY <1>1, <1>2, <1>3, DrainFacts, ViewTyped, UpsetCounts, SettlesHere

LEMMA ElapseStep ==
    ASSUME DrainIInv, Elapse
    PROVE  DrainIInv' /\ Sticks(canon, canon')
<1>1. UNCHANGED <<canon, view, discovery, consumer, queued, upsets>> /\ resting' = {}
  BY DEF Elapse
<1>2. \A c \in Consumers : WorkSound(consumer'[c], queued')
  BY <1>1, DrainFacts
<1> QED
  BY <1>1, <1>2, DrainFacts, SettlesHere

\* Another writer pushes the head h.
LEMMA OthersSound ==
    ASSUME DrainIInv, NEW h, Others(h), HeadSound(h), DoneTrue(h, queued), Sticks(canon, h),
           upsets' \in 0..MaxUpsets
    PROVE  DrainIInv' /\ Sticks(canon, canon')
<1>1. /\ canon' = h /\ consumer' = [x \in Consumers |-> Stale(x)]
      /\ UNCHANGED <<view, discovery, resting, queued>>
  BY DEF Others
<1>2. /\ consumer' \in [Consumers -> Work]
      /\ \A x \in Consumers : WorkSound(consumer'[x], queued')
  BY <1>1, TriesSound DEF WorkSound
<1> QED
  BY <1>1, <1>2, DrainFacts, Settles

LEMMA WriteRequestStep ==
    ASSUME DrainIInv, NEW r \in Ledger, WriteRequest(r)
    PROVE  DrainIInv' /\ Sticks(canon, canon')
<1> DEFINE h == [canon EXCEPT !.at[r.file] = r]
<1>1. r.gen <= canon.task.gen /\ Others(h) /\ UNCHANGED upsets
  BY DEF WriteRequest
<1>2. /\ h \in Heads /\ h.receipt = canon.receipt /\ h.task = canon.task
      /\ \A f \in Files : h.at[f] = IF f = r.file THEN r ELSE canon.at[f]
  BY DrainFacts, LedgerTypes DEF Heads
<1> HIDE DEF h
<1>3. HeadSound(h) /\ DoneTrue(h, queued) /\ Sticks(canon, h)
  BY <1>1, <1>2, DrainFacts DEF HeadSound, DoneTrue, Carried, Sticks
<1> QED
  BY <1>1, <1>3, DrainFacts, OthersSound

LEMMA ReleaseStep ==
    ASSUME DrainIInv, NEW r \in Ledger, Release(r)
    PROVE  DrainIInv' /\ Sticks(canon, canon')
<1> DEFINE h == [canon EXCEPT !.receipt[r] = [phase |-> "none", wake |-> FALSE]]
<1>1. HeldBack(canon, r) /\ Others(h) /\ Upset
  BY DEF Release
<1>2. /\ h \in Heads /\ h.at = canon.at /\ h.task = canon.task
      /\ h.receipt[r].phase = "none"
      /\ \A p \in Ledger \ {r} : h.receipt[p] = canon.receipt[p]
  BY DrainFacts DEF Heads, ReceiptPhases
<1> HIDE DEF h
<1>3. ~Final(canon, r)
  BY <1>1 DEF HeldBack, Final, HeldPhases, FinalPhases
<1>4. HeadSound(h) /\ DoneTrue(h, queued) /\ Sticks(canon, h)
  BY <1>2, <1>3, DrainFacts DEF HeadSound, DoneTrue, Carried, Sticks
<1> QED
  BY <1>1, <1>4, UpsetCounts, OthersSound

\* A task that has a result does not move any more.
LEMMA Flip ==
    ASSUME NEW t \in Tasks, NEW v \in BOOLEAN
    PROVE  /\ [t EXCEPT !.paused = v] \in Tasks /\ [t EXCEPT !.lane = v] \in Tasks
           /\ [t EXCEPT !.paused = v].result = t.result /\ [t EXCEPT !.lane = v].result = t.result
           /\ [t EXCEPT !.paused = v].gen = t.gen /\ [t EXCEPT !.lane = v].gen = t.gen
           /\ [t EXCEPT !.paused = v].state = t.state /\ [t EXCEPT !.lane = v].state = t.state
BY DEF Tasks

LEMMA TaskMovesStep ==
    ASSUME DrainIInv, TaskMoves
    PROVE  DrainIInv' /\ Sticks(canon, canon')
<1> DEFINE old == canon.task
<1>1. PICK t : /\ Becomes(t)
               /\ \/ old.state \in {"WAIT_RESULT", "READY", "RUNNING"} /\ t = NextDispatch(old)
                  \/ old.state = "READY" /\ t = [old EXCEPT !.state = "RUNNING"]
                  \/ old.state \in {"READY", "RUNNING"} /\ t = [old EXCEPT !.state = "WAIT_RESULT"]
                  \/ t = [old EXCEPT !.paused = ~@]
                  \/ t = [old EXCEPT !.lane = ~@]
  BY DEF TaskMoves
<1>2. Upset /\ old \in Tasks /\ old.gen \in Nat /\ HeadSound(canon) /\ DoneTrue(canon, queued)
  BY DrainFacts, HeadTypes DEF TaskMoves
<1>3. /\ t \in Tasks /\ t.result = old.result
      /\ \/ t.gen = old.gen /\ t.state = old.state
         \/ t.gen = old.gen /\ old.state \notin {"DONE", "BLOCKED"}
         \/ t.gen = old.gen + 1 /\ old.state \notin {"DONE", "BLOCKED"}
  <2>1. CASE old.state \in {"WAIT_RESULT", "READY", "RUNNING"} /\ t = NextDispatch(old)
    <3>1. /\ t = [old EXCEPT !.gen = old.gen + 1, !.state = "READY", !.active = TRUE]
          /\ old.gen + 1 \in Nat /\ TRUE \in BOOLEAN
      BY <1>2, <2>1 DEF NextDispatch
    <3>2. t \in Tasks /\ t.result = old.result /\ t.gen = old.gen + 1
      BY <1>2, <3>1 DEF Tasks, TaskStates
    <3> QED
      BY <2>1, <3>2
  <2>2. CASE old.state = "READY" /\ t = [old EXCEPT !.state = "RUNNING"]
    BY <1>2, <2>2 DEF Tasks, TaskStates
  <2>3. CASE old.state \in {"READY", "RUNNING"} /\ t = [old EXCEPT !.state = "WAIT_RESULT"]
    BY <1>2, <2>3 DEF Tasks, TaskStates
  <2>4. CASE t = [old EXCEPT !.paused = ~@]
    <3> DEFINE v == ~old.paused
    <3>1. v \in BOOLEAN /\ t = [old EXCEPT !.paused = v]
      BY <2>4
    <3> HIDE DEF v
    <3> QED
      BY <1>2, <3>1, Flip
  <2>5. CASE t = [old EXCEPT !.lane = ~@]
    <3> DEFINE v == ~old.lane
    <3>1. v \in BOOLEAN /\ t = [old EXCEPT !.lane = v]
      BY <2>5
    <3> HIDE DEF v
    <3> QED
      BY <1>2, <3>1, Flip
  <2> QED
    BY <1>1, <2>1, <2>2, <2>3, <2>4, <2>5
<1> DEFINE h == [canon EXCEPT !.task = t]
<1>4. h \in Heads /\ h.at = canon.at /\ h.receipt = canon.receipt /\ h.task = t
  BY <1>3, DrainFacts DEF Heads
<1>5. Others(h)
  BY <1>1 DEF Becomes
<1> HIDE DEF h
<1>6. HeadSound(h)
  <2>1. \A f \in Files : canon.at[f].gen \in Nat
    BY DrainFacts, HeadTypes
  <2> QED
    BY <1>2, <1>3, <1>4, <2>1 DEF HeadSound
<1>7. DoneTrue(h, queued)
  <2> SUFFICES ASSUME NEW r \in Ledger, canon.receipt[r].phase = "DONE", r.kind # "wake"
               PROVE  r.gen <= t.gen /\ (r.gen = t.gen => Carried(h, r))
    BY <1>2, <1>4 DEF DoneTrue
  <2>1. /\ r.gen \in Nat /\ r.gen <= old.gen
        /\ r.gen = old.gen => old.result = r.file /\ old.state = Outcome(r)
    BY <1>2, LedgerTypes DEF DoneTrue, Carried
  <2>2. Outcome(r) \in {"DONE", "BLOCKED"}
    BY DEF Outcome
  <2> QED
    BY <1>2, <1>3, <1>4, <2>1, <2>2 DEF Carried
<1>8. Sticks(canon, h)
  BY <1>3, <1>4 DEF Sticks
<1> QED
  BY <1>2, <1>5, <1>6, <1>7, <1>8, UpsetCounts, OthersSound

-----------------------------------------------------------------------------
LEMMA DrainStarts ==
    ASSUME DrainInit PROVE DrainIInv
<1>1. /\ canon = StartHead /\ view = StartHead /\ discovery = NoMemory
      /\ consumer = [c \in Consumers |-> NoWork]
      /\ resting = {} /\ queued = {} /\ upsets = 0
  BY DEF DrainInit
<1>2. NoMemory \in Memories /\ WorkSound(NoWork, queued) /\ NoWork \in Work
  BY NoWorkSound DEF NoMemory, Memories, WorkSound
<1>3. DrainTypeOK
  BY <1>1, <1>2, StartHeadSound, DrainAssumption DEF DrainTypeOK, Memories
<1> QED
  BY <1>1, <1>2, <1>3, StartHeadSound DEF DrainIInv

LEMMA DrainStep ==
    ASSUME DrainIInv, [DrainNext]_drainVars
    PROVE  DrainIInv' /\ [Sticks(canon, canon')]_drainVars
<1>1. CASE DrainNext
  <2>1. ASSUME NEW c \in Consumers, Fetch(c) \/ PushLands(c) \/ PushRefused(c) \/ PushUnknown(c)
        PROVE  DrainIInv' /\ Sticks(canon, canon')
    BY <2>1, FetchStep, PushLandsStep, PushRefusedStep, PushUnknownStep
  <2>2. CASE Page(FALSE) \/ Page(TRUE)
    BY <2>2, PageStep
  <2>3. ASSUME NEW r \in Ledger, BridgePasses(r) \/ BridgeWakes(r) \/ BridgeFinalizes(r)
        PROVE  DrainIInv' /\ Sticks(canon, canon')
    BY <2>3, BridgeStep
  <2>4. ASSUME NEW d \in Drains, StartDrain(d) \/ DrainStops(d)
        PROVE  DrainIInv' /\ Sticks(canon, canon')
    BY <2>4, DrainRuns
  <2>5. ASSUME NEW d \in Drains, NEW r \in Ledger, Emit(d, r) \/ EmitFails(d, r)
        PROVE  DrainIInv' /\ Sticks(canon, canon')
    BY <2>5, EmitStep
  <2>6. CASE BridgeRestarts
    BY <2>6, BridgeRestartsStep
  <2>7. CASE Elapse
    BY <2>7, ElapseStep
  <2>8. ASSUME NEW r \in Ledger, WriteRequest(r) \/ Release(r)
        PROVE  DrainIInv' /\ Sticks(canon, canon')
    BY <2>8, WriteRequestStep, ReleaseStep
  <2>9. CASE TaskMoves
    BY <2>9, TaskMovesStep
  <2>10. Bridge \in Consumers /\ Drains \subseteq Consumers
    BY DEF Consumers
  <2> QED
    BY <1>1, <2>1, <2>2, <2>3, <2>4, <2>5, <2>6, <2>7, <2>8, <2>9, <2>10
    DEF DrainNext, BridgeServes, DrainServes
<1>2. CASE UNCHANGED drainVars
  <2>1. \A c \in Consumers : WorkSound(consumer'[c], queued')
    BY <1>2, DrainFacts DEF drainVars
  <2> QED
    BY <1>2, <2>1, DrainFacts, SettlesHere DEF drainVars
<1> QED
  BY <1>1, <1>2

LEMMA DrainInvariant == DrainSpec => []DrainIInv
BY DrainStarts, DrainStep, PTL DEF DrainSpec

\* Type correctness: heads, receipts, transactions and the Bridge's memory stay
\* what they are, for any ledger of requests and any number of drains.
THEOREM DrainTypes == DrainSpec => []DrainTypeOK
<1>1. DrainIInv => DrainTypeOK
  BY DEF DrainIInv
<1> QED
  BY <1>1, DrainInvariant, PTL

\* A receipt that says DONE is true: its wake is in the wake store, or the command
\* lists carry its outcome (prepare and finish, with transactions whose outcome is
\* unknown and that are computed again).
THEOREM ReceiptsAreTrue == DrainSpec => []DoneIsTrue
<1>1. DrainIInv => DoneIsTrue
  BY DEF DrainIInv, DoneTrue, Carried, Outcome, DoneIsTrue
<1> QED
  BY <1>1, DrainInvariant, PTL

\* A final receipt is never rewritten and a result is projected once, with the
\* receipt of a request of the current dispatch.
THEOREM ReceiptsAreFinal == DrainSpec => FinalSticks
<1> DEFINE A == /\ \A r \in Ledger : Final(canon, r) => canon'.receipt[r] = canon.receipt[r]
                /\ canon'.task.result # canon.task.result =>
                     /\ canon.task.result = "none"
                     /\ \E r \in Ledger : /\ r.file = canon'.task.result /\ r.gen = canon.task.gen
                                           /\ ~Final(canon, r) /\ canon'.receipt[r].phase = "DONE"
<1>1. DrainIInv /\ [DrainNext]_drainVars => [A]_drainVars
  BY DrainStep DEF Sticks
<1> HIDE DEF A
<1>2. DrainSpec => [][A]_drainVars
  BY <1>1, DrainInvariant, PTL DEF DrainSpec
<1> QED
  BY <1>2 DEF FinalSticks, A

-----------------------------------------------------------------------------

\* What the round of the Host stands on: it cleans for a final delivery, and the
\* end of a reply is one it has seen.
RoundSound ==
    /\ host.at \in {"clean", "message", "report", "finish"} => host.todo # << >>
    /\ host.at = "clean" => Current.id \in Finals
    /\ host.at \in {"report", "finish"} /\ host.ended => page.reply[Current.id] = "ended"

\* A message is sent only while the page does not show it.
SentIsShown ==
    \A e \in Messages : page.sent[e] <= 1 /\ (page.reply[e] = "none" => page.sent[e] = 0)

\* The receipt lists conversations the Host knew; those deleted are gone.
ReceiptSound(f) ==
    /\ bindings[f].now \subseteq bindings[f].ever
    /\ receipt[f].targets \subseteq bindings[f].ever
    /\ receipt[f].deleted \subseteq receipt[f].targets
    /\ ~receipt[f].frozen => receipt[f].deleted = {}
    /\ receipt[f].deleted \cap chats[f] = {}

\* A task is closed after the conversations of its receipt, and consumed last.
ClosedInOrder(f) ==
    /\ event[f].cleaned => receipt[f].frozen /\ receipt[f].deleted = receipt[f].targets
    /\ event[f].state = "CONSUMED" => event[f].cleaned

ConsumedIsAnswered ==
    \A e \in Messages : event[e].state = "CONSUMED" => page.reply[e] = "ended"

Books ==
    /\ \A f \in Finals : ReceiptSound(f) /\ ClosedInOrder(f)
    /\ ConsumedIsAnswered

\* The inductive invariant.
DeliveryIInv == DeliveryTypeOK /\ RoundSound /\ SentIsShown /\ Books

-----------------------------------------------------------------------------
\* The steps of every list of views the Host has.
LEMMA Lists ==
    ASSUME NEW s \in Seq(Views)
    PROVE  /\ s # << >> => Head(s) \in Views /\ Tail(s) \in Seq(Views) /\ Head(s) = s[1] /\ 1 \in DOMAIN s
           /\ \A v \in Views :
                /\ Append(s, v) \in Seq(Views) /\ <<v>> \in Seq(Views)
                /\ s # << >> => /\ [s EXCEPT ![1] = v] \in Seq(Views)
                                /\ [s EXCEPT ![1] = v] # << >>
                                /\ Head([s EXCEPT ![1] = v]) = v
<1>1. s # << >> => Head(s) \in Views /\ Tail(s) \in Seq(Views) /\ Head(s) = s[1] /\ 1 \in DOMAIN s
  OBVIOUS
<1>2. ASSUME NEW v \in Views
      PROVE  /\ Append(s, v) \in Seq(Views) /\ <<v>> \in Seq(Views)
             /\ s # << >> => /\ [s EXCEPT ![1] = v] \in Seq(Views)
                             /\ [s EXCEPT ![1] = v] # << >>
                             /\ Head([s EXCEPT ![1] = v]) = v
  <2>1. Append(s, v) \in Seq(Views) /\ <<v>> \in Seq(Views)
    OBVIOUS
  <2>2. ASSUME s # << >>
        PROVE  LET n == [s EXCEPT ![1] = v] IN n \in Seq(Views) /\ n # << >> /\ Head(n) = v
    <3> DEFINE n == [s EXCEPT ![1] = v]
    <3>1. n \in Seq(Views) /\ Len(n) = Len(s) /\ n[1] = v
      BY <1>1, <2>2, ExceptSeq
    <3> QED
      BY <2>2, <3>1
  <2> QED
    BY <2>1, <2>2
<1> QED
  BY <1>1, <1>2

\* An order has a first event of every nonempty set of its events.
LEMMA FirstExists ==
    ASSUME NEW E, NEW order \in Seq(E), NEW events \in SUBSET Elements(order), events # {}
    PROVE  First(order, events) \in events
<1> DEFINE I == {i \in DOMAIN order : order[i] \in events}
<1>1. I \subseteq Nat /\ I # {} /\ DOMAIN order = 1..Len(order) /\ Len(order) \in Nat
  BY DEF Elements
<1>2. PICK i \in I : \A j \in I : <<j, i>> \notin OpToRel(<, Nat)
  BY <1>1, WFMin, NatLessThanWellFounded
<1>3. \A j \in I : ~(j < i)
  BY <1>1, <1>2 DEF OpToRel
<1>4. i \in 1..Len(order) /\ order[i] \in events
  BY <1>1
<1>5. ASSUME NEW j \in 1..(i - 1)
      PROVE  order[j] \notin events
  <2>1. j \in DOMAIN order /\ j < i
    BY <1>1, <1>4
  <2> QED
    BY <1>3, <2>1
<1> QED
  BY <1>4, <1>5 DEF First

LEMMA Assumed ==
    /\ TerminalOrder \in Seq(Terminals) /\ PlannerOrder \in Seq(PlannerEvents)
    /\ Terminals \cap Finals = {} /\ Finals \subseteq Messages /\ Terminals \subseteq Messages
    /\ PlannerEvents \subseteq Messages /\ NoMessage \notin Messages
    /\ MaxTroubles \in Nat /\ MaxUserTurns \in Nat
BY TerminalDeliveryAssumption DEF Messages, Finals

Events == [Messages -> [state : DeliveryStates, cleaned : BOOLEAN]]
ReceiptMaps == [Finals -> [frozen : BOOLEAN, targets : SUBSET (Bound \cup Late), deleted : SUBSET (Bound \cup Late)]]
Pages == [reply : [Messages -> Replies], sent : [Messages -> 0..2], taken : BOOLEAN]
Hosts == [at : Steps, todo : Seq(Views), ended : BOOLEAN]

\* What every proof uses of the types.
LEMMA DeliveryTypes ==
    ASSUME DeliveryTypeOK
    PROVE  /\ event \in Events /\ page \in Pages /\ receipt \in ReceiptMaps /\ host \in Hosts
           /\ chats \in [Finals -> SUBSET (Bound \cup Late)]
           /\ bindings \in [Finals -> [now : SUBSET (Bound \cup Late), ever : SUBSET (Bound \cup Late)]]
           /\ pending \in Terminals \cup {NoMessage} /\ dropped \subseteq Terminals
           /\ trouble \in [faults : 0..MaxTroubles, turns : 0..MaxUserTurns]
BY DEF DeliveryTypeOK, Events, Pages, ReceiptMaps, Hosts

LEMMA TypesAgain ==
    ASSUME event' \in Events, page' \in Pages, receipt' \in ReceiptMaps, host' \in Hosts,
           chats' \in [Finals -> SUBSET (Bound \cup Late)],
           bindings' \in [Finals -> [now : SUBSET (Bound \cup Late), ever : SUBSET (Bound \cup Late)]],
           pending' \in Terminals \cup {NoMessage}, dropped' \subseteq Terminals,
           trouble' \in [faults : 0..MaxTroubles, turns : 0..MaxUserTurns]
    PROVE  DeliveryTypeOK'
BY DEF DeliveryTypeOK, Events, Pages, ReceiptMaps, Hosts

\* An event that is marked: what it says of clean-ups is kept, and nothing but an
\* answered message that is no open final delivery becomes CONSUMED.
Marked(old, new) ==
    /\ new \in Events
    /\ \A e \in Messages :
         /\ new[e].cleaned = old[e].cleaned
         /\ new[e].state = "CONSUMED" =>
              \/ old[e].state = "CONSUMED"
              \/ page.reply[e] = "ended" /\ (e \in Finals => old[e].cleaned)

LEMMA StateChange ==
    ASSUME event \in Events, NEW e \in Messages, NEW s \in DeliveryStates,
           s = "CONSUMED" => \/ event[e].state = "CONSUMED"
                             \/ page.reply[e] = "ended" /\ (e \in Finals => event[e].cleaned)
    PROVE  Marked(event, [event EXCEPT ![e].state = s])
BY DEF Marked, Events

LEMMA MarkedBooks ==
    ASSUME Books, Marked(event, event'), UNCHANGED <<page, chats, bindings, receipt>>
    PROVE  Books'
<1>0. page' = page /\ chats' = chats /\ bindings' = bindings /\ receipt' = receipt
  OBVIOUS
<1>1. ASSUME NEW f \in Finals
      PROVE  ReceiptSound(f)' /\ ClosedInOrder(f)'
  <2>1. f \in Messages /\ ReceiptSound(f) /\ ClosedInOrder(f)
    BY Assumed DEF Books
  <2>2. ReceiptSound(f)'
    BY <1>0, <2>1 DEF ReceiptSound
  <2>3. /\ event'[f].cleaned = event[f].cleaned
        /\ event'[f].state = "CONSUMED" => event[f].state = "CONSUMED" \/ event[f].cleaned
    BY <2>1 DEF Marked
  <2>4. ClosedInOrder(f)'
    BY <1>0, <2>1, <2>3 DEF ClosedInOrder
  <2> QED
    BY <2>2, <2>4
<1>2. ASSUME NEW e \in Messages, event'[e].state = "CONSUMED"
      PROVE  page.reply[e] = "ended"
  <2>1. event[e].state = "CONSUMED" \/ page.reply[e] = "ended"
    BY <1>2 DEF Marked
  <2> QED
    BY <2>1 DEF Books, ConsumedIsAnswered
<1>3. ConsumedIsAnswered'
  BY <1>0, <1>2 DEF ConsumedIsAnswered
<1> QED
  BY <1>1, <1>3 DEF Books

LEMMA TroubleTyped ==
    ASSUME DeliveryTypeOK, Trouble
    PROVE  trouble' \in [faults : 0..MaxTroubles, turns : 0..MaxUserTurns]
<1>1. /\ trouble' = [trouble EXCEPT !.faults = trouble.faults + 1]
      /\ trouble.faults \in 0..MaxTroubles /\ trouble.faults < MaxTroubles
  BY DeliveryTypes DEF Trouble
<1>2. trouble.faults + 1 \in 0..MaxTroubles
  BY <1>1, Assumed
<1> QED
  BY <1>1, <1>2, DeliveryTypes

\* The Host goes on with the next event.
LEMMA Leaves ==
    ASSUME DeliveryTypeOK, host.todo # << >>, NEW lost, lost \subseteq Terminals, Leave(lost)
    PROVE  host' \in Hosts /\ dropped' \subseteq Terminals /\ RoundSound'
<1>1. Tail(host.todo) \in Seq(Views) /\ host \in Hosts /\ dropped \subseteq Terminals
  BY Lists, DeliveryTypes DEF Hosts
<1>2. /\ host' = [at |-> "next", todo |-> Tail(host.todo), ended |-> FALSE]
      /\ dropped' = dropped \cup lost
  BY <1>1 DEF Leave, Hosts
<1> QED
  BY <1>1, <1>2 DEF Hosts, Steps, RoundSound

\* The event the Host is at.
LEMMA AtEvent ==
    ASSUME DeliveryTypeOK, RoundSound, host.at \in {"clean", "message", "report", "finish"}
    PROVE  /\ host.todo # << >> /\ Current \in Views /\ Current.id \in Messages
           /\ Current = host.todo[1] /\ host.todo \in Seq(Views)
           /\ ({Current.id} \cap Terminals) \subseteq Terminals
BY Lists, DeliveryTypes DEF RoundSound, Current, Hosts, Views

LEMMA SeenTyped ==
    ASSUME NEW ev \in Events, NEW e \in Messages
    PROVE  View(e, ev) \in Views /\ View(e, ev).id = e
BY DEF View, Views, Events

\* A step of the Host or the Bridge that only marks events.
LEMMA Marks ==
    ASSUME DeliveryIInv, Marked(event, event'), UNCHANGED <<page, chats, bindings, receipt>>,
           host' \in Hosts, RoundSound', dropped' \subseteq Terminals,
           pending' \in Terminals \cup {NoMessage},
           trouble' \in [faults : 0..MaxTroubles, turns : 0..MaxUserTurns]
    PROVE  DeliveryIInv'
<1>1. event' \in Events
  BY DEF Marked
<1>2. DeliveryTypeOK'
  BY <1>1, DeliveryTypes, TypesAgain DEF DeliveryIInv
<1>3. SentIsShown'
  BY DEF DeliveryIInv, SentIsShown
<1> QED
  BY <1>2, <1>3, MarkedBooks DEF DeliveryIInv

LEMMA Unmarked ==
    ASSUME DeliveryTypeOK
    PROVE  Marked(event, event)
BY DeliveryTypes DEF Marked

-----------------------------------------------------------------------------
LEMMA DeliveryStarts == DeliveryInit => DeliveryIInv
<1> SUFFICES ASSUME DeliveryInit PROVE DeliveryIInv
  OBVIOUS
<1>1. Quiet \in Hosts /\ << >> \in Seq(Views)
  BY DEF Quiet, Hosts, Steps
<1>2. DeliveryTypeOK
  BY <1>1, Assumed DEF DeliveryInit, DeliveryTypeOK, DeliveryStates, Replies, Hosts
<1>3. RoundSound
  BY DEF DeliveryInit, RoundSound, Quiet
<1>4. SentIsShown /\ ConsumedIsAnswered
  BY DEF DeliveryInit, SentIsShown, ConsumedIsAnswered
<1>5. ASSUME NEW f \in Finals
      PROVE  ReceiptSound(f) /\ ClosedInOrder(f)
  BY <1>5, Assumed DEF DeliveryInit, ReceiptSound, ClosedInOrder
<1> QED
  BY <1>2, <1>3, <1>4, <1>5 DEF DeliveryIInv, Books

LEMMA ClaimMarks ==
    ASSUME DeliveryTypeOK, NEW e \in Messages
    PROVE  Marked(event, Claimed(e)) /\ View(e, Claimed(e)) \in Views
<1>1. event \in Events /\ event[e].state \in DeliveryStates
  BY DeliveryTypes DEF Events
<1> DEFINE s == IF event[e].state = "PENDING" THEN "CLAIMED" ELSE event[e].state
<1>2. Claimed(e) = [event EXCEPT ![e].state = s] /\ s \in DeliveryStates
  BY <1>1 DEF Claimed, DeliveryStates
<1>3. s = "CONSUMED" => event[e].state = "CONSUMED"
  OBVIOUS
<1> HIDE DEF s
<1>4. Marked(event, Claimed(e))
  BY <1>1, <1>2, <1>3, StateChange
<1> QED
  BY <1>4, SeenTyped DEF Marked

LEMMA PlannerStatusStep ==
    ASSUME DeliveryIInv, PlannerStatus
    PROVE  DeliveryIInv'
<1>1. /\ DeliveryTypeOK /\ host \in Hosts /\ host.todo \in Seq(Views) /\ host.ended \in BOOLEAN
      /\ UNCHANGED <<page, chats, bindings, receipt, pending, dropped, trouble>>
  BY DeliveryTypes DEF DeliveryIInv, PlannerStatus, Hosts
<1>2. CASE OpenEvents = {}
  <2>1. event' = event /\ host' = [host EXCEPT !.at = "terminal"]
    BY <1>2 DEF PlannerStatus
  <2>2. host' \in Hosts /\ RoundSound'
    BY <1>1, <2>1 DEF Hosts, Steps, RoundSound
  <2> QED
    BY <1>1, <2>1, <2>2, Marks, Unmarked, DeliveryTypes
<1>3. CASE OpenEvents # {}
  <2> DEFINE e == First(PlannerOrder, IF Uncleaned # {} THEN Uncleaned ELSE OpenEvents)
  <2>1. e \in Messages
    <3> DEFINE S == IF Uncleaned # {} THEN Uncleaned ELSE OpenEvents
    <3>1. S \in SUBSET Elements(PlannerOrder) /\ S # {}
      BY <1>3 DEF OpenEvents, Uncleaned, PlannerEvents
    <3> HIDE DEF S
    <3>2. First(PlannerOrder, S) \in S
      BY <3>1, Assumed, FirstExists
    <3> QED
      BY <3>1, <3>2, Assumed DEF S, PlannerEvents
  <2>2. /\ event' = Claimed(e)
        /\ host' = [host EXCEPT !.at = "terminal", !.todo = <<View(e, Claimed(e))>>]
    BY <1>3 DEF PlannerStatus
  <2> HIDE DEF e
  <2>3. Marked(event, Claimed(e)) /\ <<View(e, Claimed(e))>> \in Seq(Views)
    BY <1>1, <2>1, ClaimMarks, Lists
  <2>4. host' \in Hosts /\ RoundSound'
    BY <1>1, <2>2, <2>3 DEF Hosts, Steps, RoundSound
  <2> QED
    BY <1>1, <2>2, <2>3, <2>4, Marks, DeliveryTypes
<1> QED
  BY <1>2, <1>3

LEMMA TerminalStatusStep ==
    ASSUME DeliveryIInv, TerminalStatus
    PROVE  DeliveryIInv'
<1>1. /\ DeliveryTypeOK /\ host \in Hosts /\ host.todo \in Seq(Views) /\ host.ended \in BOOLEAN
      /\ UNCHANGED <<page, chats, bindings, receipt, pending, dropped, trouble>>
  BY DeliveryTypes DEF DeliveryIInv, TerminalStatus, Hosts
<1> DEFINE waiting == {e \in Terminals : event[e].state = "PENDING"}
<1>2. CASE waiting = {}
  <2>1. event' = event /\ host' = [host EXCEPT !.at = "ready"]
    BY <1>2 DEF TerminalStatus
  <2>2. host' \in Hosts /\ RoundSound'
    BY <1>1, <2>1 DEF Hosts, Steps, RoundSound
  <2> QED
    BY <1>1, <2>1, <2>2, Marks, Unmarked, DeliveryTypes
<1>3. CASE waiting # {}
  <2> DEFINE e == First(TerminalOrder, waiting)
  <2>1. e \in Messages
    <3>1. waiting \in SUBSET Elements(TerminalOrder)
      BY DEF Terminals
    <3>2. e \in waiting
      BY <1>3, <3>1, Assumed, FirstExists
    <3> QED
      BY <3>2, Assumed
  <2>2. /\ event' = Claimed(e)
        /\ host' = [host EXCEPT !.at = "ready", !.todo = Append(host.todo, View(e, Claimed(e)))]
    BY <1>3 DEF TerminalStatus
  <2> HIDE DEF e
  <2>3. Marked(event, Claimed(e)) /\ Append(host.todo, View(e, Claimed(e))) \in Seq(Views)
    BY <1>1, <2>1, ClaimMarks, Lists
  <2>4. host' \in Hosts /\ RoundSound'
    BY <1>1, <2>2, <2>3 DEF Hosts, Steps, RoundSound
  <2> QED
    BY <1>1, <2>2, <2>3, <2>4, Marks, DeliveryTypes
<1> QED
  BY <1>2, <1>3

LEMMA TakeStep ==
    ASSUME DeliveryIInv, Take
    PROVE  DeliveryIInv'
<1>1. /\ DeliveryTypeOK /\ host \in Hosts /\ host.todo \in Seq(Views)
      /\ UNCHANGED <<event, page, chats, bindings, receipt, pending, dropped, trouble>>
  BY DeliveryTypes DEF DeliveryIInv, Take, Hosts
<1>2. host' \in Hosts /\ RoundSound'
  <2>1. CASE host.todo = << >>
    BY <2>1 DEF Take, Quiet, Hosts, Steps, RoundSound
  <2>2. CASE host.todo # << >>
    <3> DEFINE v == Head(host.todo)
               at == IF v.id \in Finals /\ ~v.cleaned THEN "clean" ELSE "message"
    <3>1. host' = [host EXCEPT !.at = at]
      BY <2>2 DEF Take
    <3>2. at \in {"clean", "message"} /\ (at = "clean" => v.id \in Finals)
      OBVIOUS
    <3> HIDE DEF at
    <3> QED
      BY <1>1, <2>2, <3>1, <3>2 DEF Hosts, Steps, RoundSound, Current
  <2> QED
    BY <2>1, <2>2
<1> QED
  BY <1>1, <1>2, Marks, Unmarked, DeliveryTypes

LEMMA FreezeStep ==
    ASSUME DeliveryIInv, Freeze
    PROVE  DeliveryIInv'
<1> DEFINE k == Current.id
<1>1. /\ DeliveryTypeOK /\ RoundSound /\ SentIsShown /\ Books /\ k \in Finals /\ ~receipt[k].frozen
      /\ receipt' = [receipt EXCEPT ![k].frozen = TRUE, ![k].targets = bindings[k].now]
      /\ UNCHANGED <<event, page, chats, bindings, pending, host, dropped, trouble>>
  BY DEF DeliveryIInv, Freeze, RoundSound
<1> HIDE DEF k
<1>2. receipt' \in ReceiptMaps
  BY <1>1, DeliveryTypes DEF ReceiptMaps
<1>3. /\ receipt'[k].frozen /\ receipt'[k].targets = bindings[k].now
      /\ receipt'[k].deleted = receipt[k].deleted
      /\ \A f \in Finals \ {k} : receipt'[f] = receipt[f]
  BY <1>1, DeliveryTypes DEF ReceiptMaps
<1>4. ASSUME NEW f \in Finals
      PROVE  ReceiptSound(f)' /\ ClosedInOrder(f)'
  <2>1. ReceiptSound(f) /\ ClosedInOrder(f)
    BY <1>1 DEF Books
  <2>2. CASE f # k
    BY <1>1, <1>3, <2>1, <2>2 DEF ReceiptSound, ClosedInOrder
  <2>3. CASE f = k
    BY <1>1, <1>3, <2>1, <2>3 DEF ReceiptSound, ClosedInOrder
  <2> QED
    BY <2>2, <2>3
<1>5. RoundSound' /\ SentIsShown' /\ ConsumedIsAnswered'
  BY <1>1 DEF RoundSound, Current, SentIsShown, Books, ConsumedIsAnswered
<1>6. DeliveryTypeOK'
  BY <1>1, <1>2, DeliveryTypes, TypesAgain
<1> QED
  BY <1>4, <1>5, <1>6 DEF DeliveryIInv, Books

LEMMA DeleteChatStep ==
    ASSUME DeliveryIInv, NEW c \in Bound \cup Late, DeleteChat(c)
    PROVE  DeliveryIInv'
<1> DEFINE k == Current.id
<1>1. /\ DeliveryTypeOK /\ RoundSound /\ SentIsShown /\ Books /\ k \in Finals /\ host.todo # << >>
      /\ receipt[k].frozen /\ c \in receipt[k].targets /\ UNCHANGED <<event, page, bindings, pending>>
  BY DEF DeliveryIInv, DeleteChat, RoundSound
<1>2. CASE /\ chats' = [chats EXCEPT ![k] = @ \ {c}]
           /\ receipt' = [receipt EXCEPT ![k].deleted = @ \cup {c}]
           /\ UNCHANGED <<host, dropped, trouble>>
  <2> HIDE DEF k
  <2>1. /\ receipt' \in ReceiptMaps /\ chats' \in [Finals -> SUBSET (Bound \cup Late)]
        /\ receipt'[k].frozen /\ receipt'[k].targets = receipt[k].targets
        /\ receipt'[k].deleted = receipt[k].deleted \cup {c} /\ chats'[k] = chats[k] \ {c}
        /\ \A f \in Finals \ {k} : receipt'[f] = receipt[f] /\ chats'[f] = chats[f]
    BY <1>1, <1>2, DeliveryTypes DEF ReceiptMaps
  <2>2. ASSUME NEW f \in Finals
        PROVE  ReceiptSound(f)' /\ ClosedInOrder(f)'
    <3>1. ReceiptSound(f) /\ ClosedInOrder(f)
      BY <1>1 DEF Books
    <3>2. CASE f # k
      BY <1>1, <2>1, <3>1, <3>2 DEF ReceiptSound, ClosedInOrder
    <3>3. CASE f = k
      <4>1. ReceiptSound(f)'
        BY <1>1, <2>1, <3>1, <3>3 DEF ReceiptSound
      <4>2. ClosedInOrder(f)'
        BY <1>1, <2>1, <3>1, <3>3 DEF ClosedInOrder
      <4> QED
        BY <4>1, <4>2
    <3> QED
      BY <3>2, <3>3
  <2>3. RoundSound' /\ SentIsShown' /\ ConsumedIsAnswered'
    BY <1>1, <1>2 DEF RoundSound, Current, SentIsShown, Books, ConsumedIsAnswered
  <2>4. DeliveryTypeOK'
    BY <1>1, <1>2, <2>1, DeliveryTypes, TypesAgain
  <2> QED
    BY <2>2, <2>3, <2>4 DEF DeliveryIInv, Books
<1>3. CASE Trouble /\ Leave({}) /\ UNCHANGED <<chats, receipt>>
  BY <1>1, <1>3, Leaves, TroubleTyped, Marks, Unmarked, DeliveryTypes
<1> QED
  BY <1>2, <1>3 DEF DeleteChat

LEMMA ReportCleanedStep ==
    ASSUME DeliveryIInv, ReportCleaned
    PROVE  DeliveryIInv'
<1> DEFINE k == Current.id
           closed == [event EXCEPT ![k].cleaned = TRUE]
<1>1. /\ DeliveryTypeOK /\ RoundSound /\ SentIsShown /\ Books /\ k \in Finals /\ host.todo # << >>
      /\ host.at = "clean" /\ AllDeleted(k) /\ UNCHANGED <<page, chats, receipt, pending>>
  BY DEF DeliveryIInv, ReportCleaned, RoundSound
<1>2. k \in Messages /\ host.todo \in Seq(Views) /\ host \in Hosts
  BY <1>1, AtEvent, DeliveryTypes
<1>3. /\ closed \in Events /\ \A e \in Messages : closed[e].state = event[e].state
      /\ closed[k].cleaned /\ \A e \in Messages \ {k} : closed[e] = event[e]
  <2> HIDE DEF k
  <2> QED
    BY <1>1, <1>2, DeliveryTypes DEF Events
<1>4. ASSUME event' \in {event, closed},
             \A f \in Finals : bindings'[f].now \subseteq bindings[f].now /\ bindings'[f].ever = bindings[f].ever
      PROVE  Books'
  <2> HIDE DEF k, closed
  <2>1. ASSUME NEW f \in Finals
        PROVE  ReceiptSound(f)' /\ ClosedInOrder(f)'
    <3>1. ReceiptSound(f) /\ ClosedInOrder(f) /\ f \in Messages
      BY <1>1, Assumed DEF Books
    <3>2. ReceiptSound(f)'
      BY <1>1, <1>4, <3>1 DEF ReceiptSound
    <3>3. ClosedInOrder(f)'
      BY <1>1, <1>3, <1>4, <3>1 DEF ClosedInOrder, AllDeleted
    <3> QED
      BY <3>2, <3>3
  <2>2. ConsumedIsAnswered'
    BY <1>1, <1>3, <1>4 DEF Books, ConsumedIsAnswered
  <2> QED
    BY <2>1, <2>2 DEF Books
<1>5. SentIsShown'
  BY <1>1 DEF SentIsShown
<1>6. CASE /\ event' = closed
           /\ bindings' = [bindings EXCEPT ![k].now = {}]
           /\ host' = [host EXCEPT !.at = "message", !.todo[1] = View(k, event')]
           /\ UNCHANGED <<dropped, trouble>>
  <2> DEFINE v == View(k, closed)
  <2>1. v \in Views
    BY <1>2, <1>3, SeenTyped
  <2>2. host' = [host EXCEPT !.at = "message", !.todo = [host.todo EXCEPT ![1] = v]]
    BY <1>2, <1>6 DEF Hosts
  <2> HIDE DEF k, closed, v
  <2>3. [host.todo EXCEPT ![1] = v] \in Seq(Views) /\ [host.todo EXCEPT ![1] = v] # << >>
    BY <1>1, <1>2, <2>1, Lists
  <2>4. host' \in Hosts /\ RoundSound'
    BY <1>2, <2>2, <2>3 DEF Hosts, Steps, RoundSound
  <2>5. /\ bindings' \in [Finals -> [now : SUBSET (Bound \cup Late), ever : SUBSET (Bound \cup Late)]]
        /\ \A f \in Finals : bindings'[f].now \subseteq bindings[f].now /\ bindings'[f].ever = bindings[f].ever
    BY <1>1, <1>6, DeliveryTypes
  <2>6. DeliveryTypeOK'
    BY <1>1, <1>3, <1>6, <2>4, <2>5, DeliveryTypes, TypesAgain
  <2> QED
    BY <1>4, <1>5, <1>6, <2>4, <2>5, <2>6 DEF DeliveryIInv
<1>7. CASE Trouble /\ event' \in {event, closed} /\ Leave({}) /\ UNCHANGED bindings
  <2>1. host' \in Hosts /\ dropped' \subseteq Terminals /\ RoundSound'
    BY <1>1, <1>7, Leaves
  <2>2. event' \in Events
    BY <1>1, <1>3, <1>7, DeliveryTypes
  <2>3. DeliveryTypeOK'
    BY <1>1, <1>7, <2>1, <2>2, DeliveryTypes, TypesAgain, TroubleTyped
  <2> QED
    BY <1>4, <1>5, <1>7, <2>1, <2>3 DEF DeliveryIInv
<1> QED
  BY <1>6, <1>7 DEF ReportCleaned

\* The page gets a message, or its answer goes on.
Shows(e, reply, sent) ==
    page' = [page EXCEPT !.reply = [page.reply EXCEPT ![e] = reply],
                         !.sent = [page.sent EXCEPT ![e] = sent]]

LEMMA PageSound ==
    ASSUME DeliveryTypeOK, SentIsShown, Books, NEW e \in Messages, NEW reply \in Replies \ {"none"},
           NEW sent \in 0..1, Shows(e, reply, sent), reply = "ended" \/ page.reply[e] # "ended",
           UNCHANGED <<event, chats, bindings, receipt>>
    PROVE  page' \in Pages /\ SentIsShown' /\ Books' /\ page'.reply[e] = reply
           /\ \A x \in Messages \ {e} : page'.reply[x] = page.reply[x]
<1>1. page \in Pages
  BY DeliveryTypes
<1>2. /\ page' \in Pages /\ page'.reply[e] = reply /\ page'.sent[e] = sent
      /\ \A x \in Messages \ {e} : page'.reply[x] = page.reply[x] /\ page'.sent[x] = page.sent[x]
  <2> DEFINE replies == [page.reply EXCEPT ![e] = reply]
             counts == [page.sent EXCEPT ![e] = sent]
  <2>1. /\ page.reply \in [Messages -> Replies] /\ page.sent \in [Messages -> 0..2]
        /\ page.taken \in BOOLEAN /\ sent \in 0..2
    BY <1>1 DEF Pages
  <2>2. /\ replies \in [Messages -> Replies] /\ replies[e] = reply
        /\ \A x \in Messages \ {e} : replies[x] = page.reply[x]
    BY <2>1
  <2>3. /\ counts \in [Messages -> 0..2] /\ counts[e] = sent
        /\ \A x \in Messages \ {e} : counts[x] = page.sent[x]
    BY <2>1
  <2>4. page' = [page EXCEPT !.reply = replies, !.sent = counts]
    BY DEF Shows
  <2> HIDE DEF replies, counts
  <2> QED
    BY <1>1, <2>1, <2>2, <2>3, <2>4 DEF Pages
<1>3. SentIsShown'
  BY <1>2 DEF SentIsShown
<1>4. event' = event /\ chats' = chats /\ bindings' = bindings /\ receipt' = receipt
  OBVIOUS
<1>5. ConsumedIsAnswered'
  <2> SUFFICES ASSUME NEW x \in Messages, event[x].state = "CONSUMED"
               PROVE  page'.reply[x] = "ended"
    BY <1>4 DEF ConsumedIsAnswered
  <2>1. page.reply[x] = "ended"
    BY DEF Books, ConsumedIsAnswered
  <2> QED
    BY <1>2, <2>1
<1>6. \A f \in Finals : ReceiptSound(f)' /\ ClosedInOrder(f)'
  BY <1>4 DEF Books, ReceiptSound, ClosedInOrder
<1> QED
  BY <1>2, <1>3, <1>5, <1>6 DEF Books

LEMMA MessageStep ==
    ASSUME DeliveryIInv, Message
    PROVE  DeliveryIInv'
<1> DEFINE e == Current.id
<1>1. /\ DeliveryTypeOK /\ RoundSound /\ SentIsShown /\ Books /\ host.at = "message"
      /\ UNCHANGED <<event, chats, bindings, receipt, pending, trouble>>
  BY DEF DeliveryIInv, Message
<1>2. /\ e \in Messages /\ host.todo # << >> /\ ({e} \cap Terminals) \subseteq Terminals
      /\ page \in Pages /\ host \in Hosts
  BY <1>1, AtEvent, DeliveryTypes
<1>3. CASE /\ page.reply[e] # "none"
           /\ host' = [host EXCEPT !.at = "report", !.ended = page.reply[e] = "ended"]
           /\ UNCHANGED <<page, dropped>>
  <2> DEFINE ended == page.reply[e] = "ended"
  <2>1. ended \in BOOLEAN /\ host' = [host EXCEPT !.at = "report", !.ended = ended]
    BY <1>3
  <2>2. host' \in Hosts /\ host'.ended = ended /\ host'.todo = host.todo /\ host'.at = "report"
    <3> HIDE DEF ended
    <3> QED
      BY <1>2, <2>1 DEF Hosts, Steps
  <2>3. RoundSound'
    BY <1>2, <1>3, <2>2 DEF RoundSound, Current
  <2> QED
    BY <1>1, <1>3, <2>2, <2>3, Marks, Unmarked, DeliveryTypes
<1>4. ASSUME NEW reply \in {"shown", "running", "ended"}, page.reply[e] = "none",
             page' = [page EXCEPT !.reply[e] = reply, !.sent[e] = @ + 1],
             IF reply = "shown" THEN Leave({e} \cap Terminals)
             ELSE /\ host' = [host EXCEPT !.at = "report", !.ended = reply = "ended"]
                  /\ UNCHANGED dropped
      PROVE  DeliveryIInv'
  <2>1. Shows(e, reply, 1) /\ reply \in Replies \ {"none"}
    <3>1. page.sent[e] = 0
      BY <1>1, <1>2, <1>4 DEF SentIsShown
    <3>2. page' = [page EXCEPT !.reply = [page.reply EXCEPT ![e] = reply],
                               !.sent = [page.sent EXCEPT ![e] = page.sent[e] + 1]]
      BY <1>2, <1>4 DEF Pages
    <3> HIDE DEF e
    <3> QED
      BY <3>1, <3>2 DEF Shows, Replies
  <2>2. page' \in Pages /\ SentIsShown' /\ Books' /\ page'.reply[e] = reply
    BY <1>1, <1>2, <1>4, <2>1, PageSound
  <2>3. host' \in Hosts /\ dropped' \subseteq Terminals /\ RoundSound'
    <3>1. CASE reply = "shown"
      BY <1>1, <1>2, <1>4, <3>1, Leaves
    <3>2. CASE reply # "shown"
      <4> DEFINE ended == reply = "ended"
      <4>1. ended \in BOOLEAN /\ host' = [host EXCEPT !.at = "report", !.ended = ended]
        BY <1>4, <3>2
      <4>2. host' \in Hosts /\ host'.ended = ended /\ host'.todo = host.todo /\ host'.at = "report"
        <5> HIDE DEF ended
        <5> QED
          BY <1>2, <4>1 DEF Hosts, Steps
      <4>3. RoundSound'
        BY <1>2, <2>2, <4>2 DEF RoundSound, Current
      <4> QED
        BY <1>1, <1>4, <3>2, <4>2, <4>3, DeliveryTypes
    <3> QED
      BY <3>1, <3>2
  <2>4. DeliveryTypeOK'
    BY <1>1, <2>2, <2>3, DeliveryTypes, TypesAgain
  <2> QED
    BY <2>2, <2>3, <2>4 DEF DeliveryIInv
<1>5. CASE Leave({e} \cap Terminals) /\ UNCHANGED page
  BY <1>1, <1>2, <1>5, Leaves, Marks, Unmarked, DeliveryTypes
<1> QED
  BY <1>3, <1>4, <1>5 DEF Message

\* Advance marks an event: one is consumed after its answer, a task after its close.
LEMMA AdvanceMarks ==
    ASSUME DeliveryTypeOK, NEW e \in Messages, NEW from, NEW to \in DeliveryStates,
           to = "CONSUMED" => page.reply[e] = "ended" /\ (e \in Finals => event[e].cleaned)
    PROVE  Marked(event, Advance(e, from, to))
<1> DEFINE s == IF event[e].state = from THEN to ELSE event[e].state
<1>1. event \in Events /\ event[e].state \in DeliveryStates
  BY DeliveryTypes DEF Events
<1>2. Advance(e, from, to) = [event EXCEPT ![e].state = s] /\ s \in DeliveryStates
  BY <1>1 DEF Advance
<1>3. s = "CONSUMED" => \/ event[e].state = "CONSUMED"
                        \/ page.reply[e] = "ended" /\ (e \in Finals => event[e].cleaned)
  OBVIOUS
<1> HIDE DEF s
<1> QED
  BY <1>1, <1>2, <1>3, StateChange

LEMMA ReportDeliveredStep ==
    ASSUME DeliveryIInv, ReportDelivered
    PROVE  DeliveryIInv'
<1> DEFINE e == Current.id
           told == Advance(e, "CLAIMED", "DELIVERED")
<1>1. /\ DeliveryTypeOK /\ RoundSound /\ SentIsShown /\ Books /\ host.at = "report"
      /\ UNCHANGED <<page, chats, bindings, receipt, pending>>
  BY DEF DeliveryIInv, ReportDelivered
<1>2. /\ e \in Messages /\ host.todo # << >> /\ ({e} \cap Terminals) \subseteq Terminals
      /\ host.todo \in Seq(Views) /\ host \in Hosts /\ Current \in Views /\ Current = host.todo[1]
  BY <1>1, AtEvent, DeliveryTypes
<1>3. Marked(event, told) /\ Marked(event, event)
  BY <1>1, <1>2, AdvanceMarks, Unmarked DEF DeliveryStates
<1> HIDE DEF told
<1>4. CASE /\ event' = told
           /\ host' = [host EXCEPT !.at = "finish", !.todo[1].state = "DELIVERED"]
           /\ UNCHANGED <<dropped, trouble>>
  <2> DEFINE v == [Current EXCEPT !.state = "DELIVERED"]
  <2>1. v \in Views /\ v.id = e
    BY <1>2 DEF Views, DeliveryStates
  <2>2. host' = [host EXCEPT !.at = "finish", !.todo = [host.todo EXCEPT ![1] = v]]
    BY <1>2, <1>4 DEF Hosts
  <2> HIDE DEF v
  <2>3. /\ [host.todo EXCEPT ![1] = v] \in Seq(Views) /\ [host.todo EXCEPT ![1] = v] # << >>
        /\ Head([host.todo EXCEPT ![1] = v]) = v
    BY <1>2, <2>1, Lists
  <2>4. host' \in Hosts /\ host'.at = "finish" /\ host'.ended = host.ended /\ Current' = v /\ host'.todo # << >>
    BY <1>2, <2>2, <2>3 DEF Hosts, Steps, Current
  <2>5. RoundSound'
    BY <1>1, <2>1, <2>4 DEF RoundSound
  <2> QED
    BY <1>1, <1>3, <1>4, <2>4, <2>5, Marks, DeliveryTypes
<1>5. CASE Trouble /\ event' \in {event, told} /\ Leave({e} \cap Terminals)
  BY <1>1, <1>2, <1>3, <1>5, Leaves, TroubleTyped, Marks, DeliveryTypes
<1>6. CASE host' = [host EXCEPT !.at = "finish"] /\ UNCHANGED <<event, dropped, trouble>>
  <2>1. host' \in Hosts /\ RoundSound'
    BY <1>1, <1>2, <1>6 DEF Hosts, Steps, RoundSound, Current
  <2> QED
    BY <1>1, <1>3, <1>6, <2>1, Marks, DeliveryTypes
<1> QED
  BY <1>4, <1>5, <1>6 DEF ReportDelivered, told

LEMMA ConsumeStep ==
    ASSUME DeliveryIInv, Consume
    PROVE  DeliveryIInv'
<1> DEFINE e == Current.id
           told == Advance(e, "DELIVERED", "CONSUMED")
<1>1. /\ DeliveryTypeOK /\ RoundSound /\ SentIsShown /\ Books /\ host.at = "finish" /\ host.ended
      /\ e \in Finals => event[e].cleaned
      /\ UNCHANGED <<page, chats, receipt>>
  BY DEF DeliveryIInv, Consume
<1>2. /\ e \in Messages /\ host.todo # << >> /\ ({e} \cap Terminals) \subseteq Terminals
      /\ page.reply[e] = "ended"
  BY <1>1, AtEvent DEF RoundSound
<1>3. Marked(event, told) /\ Marked(event, event)
  BY <1>1, <1>2, AdvanceMarks, Unmarked DEF DeliveryStates
<1> HIDE DEF told
<1>4. ASSUME event' = told,
             bindings' = IF e \in Finals THEN [bindings EXCEPT ![e].now = @ \cap Late] ELSE bindings,
             pending' = IF e \in Terminals THEN NoMessage ELSE pending,
             Leave(IF e \in Terminals THEN {pending} \ {e, NoMessage} ELSE {}),
             UNCHANGED trouble
      PROVE  DeliveryIInv'
  <2>1. pending' \in Terminals \cup {NoMessage}
    BY <1>1, <1>4, DeliveryTypes
  <2>2. host' \in Hosts /\ dropped' \subseteq Terminals /\ RoundSound'
    <3> DEFINE lost == IF e \in Terminals THEN {pending} \ {e, NoMessage} ELSE {}
    <3>1. lost \subseteq Terminals
      BY <1>1, DeliveryTypes
    <3>2. Leave(lost)
      BY <1>4
    <3> HIDE DEF lost
    <3> QED
      BY <1>1, <1>2, <3>1, <3>2, Leaves
  <2>3. /\ bindings' \in [Finals -> [now : SUBSET (Bound \cup Late), ever : SUBSET (Bound \cup Late)]]
        /\ \A f \in Finals : bindings'[f].now \subseteq bindings[f].now /\ bindings'[f].ever = bindings[f].ever
    <3>1. bindings \in [Finals -> [now : SUBSET (Bound \cup Late), ever : SUBSET (Bound \cup Late)]]
      BY <1>1, DeliveryTypes
    <3> HIDE DEF e
    <3>2. CASE e \in Finals
      BY <1>4, <3>1, <3>2
    <3>3. CASE e \notin Finals
      BY <1>4, <3>1, <3>3
    <3> QED
      BY <3>2, <3>3
  <2>4. DeliveryTypeOK'
    BY <1>1, <1>3, <1>4, <2>1, <2>2, <2>3, DeliveryTypes, TypesAgain DEF Marked
  <2>5. ASSUME NEW f \in Finals
        PROVE  ReceiptSound(f)' /\ ClosedInOrder(f)'
    <3>1. ReceiptSound(f) /\ ClosedInOrder(f) /\ f \in Messages
      BY <1>1, Assumed DEF Books
    <3>2. receipt' = receipt /\ chats' = chats
      BY <1>1
    <3>3. ReceiptSound(f)'
      BY <2>3, <3>1, <3>2 DEF ReceiptSound
    <3>4. /\ event'[f].cleaned = event[f].cleaned
          /\ event'[f].state = "CONSUMED" => event[f].state = "CONSUMED" \/ event[f].cleaned
      BY <1>3, <1>4, <3>1 DEF Marked
    <3>5. ClosedInOrder(f)'
      BY <3>1, <3>2, <3>4 DEF ClosedInOrder
    <3> QED
      BY <3>3, <3>5
  <2>6. ASSUME NEW x \in Messages, event'[x].state = "CONSUMED"
        PROVE  page'.reply[x] = "ended"
    <3>1. event[x].state = "CONSUMED" \/ page.reply[x] = "ended"
      BY <1>3, <1>4, <2>6 DEF Marked
    <3> QED
      BY <1>1, <3>1 DEF Books, ConsumedIsAnswered
  <2>7. SentIsShown'
    BY <1>1 DEF SentIsShown
  <2> QED
    BY <2>2, <2>4, <2>5, <2>6, <2>7 DEF DeliveryIInv, Books, ConsumedIsAnswered
<1>5. CASE /\ Trouble /\ event' \in {event, told} /\ Leave({e} \cap Terminals)
           /\ UNCHANGED <<bindings, pending>>
  BY <1>1, <1>2, <1>3, <1>5, Leaves, TroubleTyped, Marks, DeliveryTypes
<1> QED
  BY <1>4, <1>5 DEF Consume, told

LEMMA RememberStep ==
    ASSUME DeliveryIInv, Remember
    PROVE  DeliveryIInv'
<1> DEFINE e == Current.id
           lost == IF e \in Terminals THEN {pending} \ {e, NoMessage} ELSE {}
<1>1. /\ DeliveryTypeOK /\ RoundSound /\ host.at = "finish"
      /\ UNCHANGED <<event, page, chats, bindings, receipt, trouble>>
      /\ pending' = IF e \in Terminals THEN e ELSE pending
      /\ Leave(lost)
  BY DEF DeliveryIInv, Remember
<1>2. lost \subseteq Terminals /\ pending' \in Terminals \cup {NoMessage} /\ host.todo # << >>
  BY <1>1, DeliveryTypes, AtEvent
<1> HIDE DEF lost
<1> QED
  BY <1>1, <1>2, Leaves, Marks, Unmarked, DeliveryTypes

LEMMA ObserveTerminalStep ==
    ASSUME DeliveryIInv, ObserveTerminal
    PROVE  DeliveryIInv'
<1> DEFINE told == [event EXCEPT ![pending].state = "CONSUMED"]
<1>1. /\ DeliveryTypeOK /\ RoundSound /\ Waiting /\ pending # NoMessage /\ page.reply[pending] = "ended"
      /\ UNCHANGED <<page, chats, bindings, receipt, host, dropped>>
  BY DEF DeliveryIInv, ObserveTerminal
<1>2. pending \in Terminals /\ pending \in Messages /\ pending \notin Finals /\ event \in Events
  BY <1>1, DeliveryTypes, Assumed
<1>3. Marked(event, told) /\ Marked(event, event)
  BY <1>1, <1>2, StateChange, Unmarked DEF DeliveryStates
<1> HIDE DEF told
<1>4. host' \in Hosts /\ RoundSound'
  BY <1>1, DeliveryTypes DEF RoundSound, Waiting, Current
<1>5. CASE event' = told /\ pending' = NoMessage /\ UNCHANGED trouble
  BY <1>1, <1>3, <1>4, <1>5, Marks, DeliveryTypes
<1>6. CASE Trouble /\ event' \in {event, told} /\ UNCHANGED pending
  BY <1>1, <1>3, <1>4, <1>6, Marks, DeliveryTypes, TroubleTyped
<1> QED
  BY <1>5, <1>6 DEF ObserveTerminal, told

LEMMA HostStopsStep ==
    ASSUME DeliveryIInv, HostStops
    PROVE  DeliveryIInv'
<1>1. /\ DeliveryTypeOK /\ host' = Quiet /\ Trouble /\ dropped' \subseteq Terminals
      /\ UNCHANGED <<event, page, chats, bindings, receipt, pending>>
  BY DeliveryTypes DEF DeliveryIInv, HostStops, Held
<1>2. << >> \in Seq(Views)
  OBVIOUS
<1>3. host' \in Hosts /\ RoundSound'
  BY <1>1, <1>2 DEF Quiet, Hosts, Steps, RoundSound
<1> QED
  BY <1>1, <1>3, Marks, Unmarked, DeliveryTypes, TroubleTyped

LEMMA StartLateWorkerStep ==
    ASSUME DeliveryIInv, NEW k \in Finals, NEW c \in Late, StartLateWorker(k, c)
    PROVE  DeliveryIInv'
<1>1. /\ DeliveryTypeOK /\ RoundSound /\ SentIsShown /\ Books /\ c \notin bindings[k].ever
      /\ chats' = [chats EXCEPT ![k] = @ \cup {c}]
      /\ bindings' = IF event[k].cleaned THEN bindings
                     ELSE [bindings EXCEPT ![k].now = @ \cup {c}, ![k].ever = @ \cup {c}]
      /\ UNCHANGED <<event, page, receipt, pending, host, dropped, trouble>>
  BY DEF DeliveryIInv, StartLateWorker
<1>2. /\ chats' \in [Finals -> SUBSET (Bound \cup Late)] /\ chats'[k] = chats[k] \cup {c}
      /\ \A f \in Finals \ {k} : chats'[f] = chats[f]
  BY <1>1, DeliveryTypes
<1>3. /\ bindings' \in [Finals -> [now : SUBSET (Bound \cup Late), ever : SUBSET (Bound \cup Late)]]
      /\ \A f \in Finals \ {k} : bindings'[f] = bindings[f]
      /\ bindings'[k].now \subseteq bindings'[k].ever /\ bindings[k].ever \subseteq bindings'[k].ever
  <2>1. bindings[k].now \subseteq bindings[k].ever
    BY <1>1 DEF Books, ReceiptSound
  <2>2. CASE event[k].cleaned
    BY <1>1, <2>1, <2>2, DeliveryTypes
  <2>3. CASE ~event[k].cleaned
    BY <1>1, <2>1, <2>3, DeliveryTypes
  <2> QED
    BY <2>2, <2>3
<1>4. ASSUME NEW f \in Finals
      PROVE  ReceiptSound(f)' /\ ClosedInOrder(f)'
  <2>1. ReceiptSound(f) /\ ClosedInOrder(f) /\ receipt' = receipt /\ event' = event
    BY <1>1 DEF Books
  <2>2. ClosedInOrder(f)'
    BY <2>1 DEF ClosedInOrder
  <2>3. ReceiptSound(f)'
    <3>1. CASE f # k
      BY <1>2, <1>3, <2>1, <3>1 DEF ReceiptSound
    <3>2. CASE f = k
      BY <1>1, <1>2, <1>3, <2>1, <3>2 DEF ReceiptSound
    <3> QED
      BY <3>1, <3>2
  <2> QED
    BY <2>2, <2>3
<1>5. RoundSound' /\ SentIsShown' /\ ConsumedIsAnswered'
  BY <1>1 DEF RoundSound, Current, SentIsShown, Books, ConsumedIsAnswered
<1>6. DeliveryTypeOK'
  BY <1>1, <1>2, <1>3, DeliveryTypes, TypesAgain
<1> QED
  BY <1>4, <1>5, <1>6 DEF DeliveryIInv, Books

LEMMA ReplyStep ==
    ASSUME DeliveryIInv, NEW e \in Messages, ReplyStarts(e) \/ ReplyEnds(e)
    PROVE  DeliveryIInv'
<1>1. /\ DeliveryTypeOK /\ RoundSound /\ SentIsShown /\ Books
      /\ UNCHANGED <<event, chats, bindings, receipt, pending, host, dropped, trouble>>
  BY DEF DeliveryIInv, ReplyStarts, ReplyEnds
<1>2. PICK reply \in {"running", "ended"} :
        /\ page' = [page EXCEPT !.reply[e] = reply]
        /\ page.reply[e] \in {"shown", "running"}
  BY DEF ReplyStarts, ReplyEnds
<1>3. Shows(e, reply, page.sent[e]) /\ page.sent[e] \in 0..1
  <2>1. page \in Pages /\ page.sent[e] \in 0..1
    BY <1>1, DeliveryTypes DEF SentIsShown, Pages
  <2> QED
    BY <1>2, <2>1 DEF Shows, Pages
<1>4. /\ page' \in Pages /\ SentIsShown' /\ Books'
      /\ \A x \in Messages \ {e} : page'.reply[x] = page.reply[x]
  <2>1. reply \in Replies \ {"none"} /\ (reply = "ended" \/ page.reply[e] # "ended")
    BY <1>2 DEF Replies
  <2> QED
    BY <1>1, <1>3, <2>1, PageSound
<1>5. RoundSound'
  <2>1. CASE host.at \in {"report", "finish"} /\ host.ended
    <3>1. Current.id \in Messages /\ page.reply[Current.id] = "ended"
      BY <1>1, <2>1, AtEvent DEF RoundSound
    <3>2. Current.id # e
      BY <1>2, <3>1
    <3>3. page'.reply[Current.id] = "ended" /\ host' = host
      BY <1>1, <1>4, <3>1, <3>2
    <3> QED
      BY <1>1, <3>3 DEF RoundSound, Current
  <2>2. CASE ~(host.at \in {"report", "finish"} /\ host.ended)
    BY <1>1, <2>2 DEF RoundSound, Current
  <2> QED
    BY <2>1, <2>2
<1>6. DeliveryTypeOK'
  BY <1>1, <1>4, DeliveryTypes, TypesAgain
<1> QED
  BY <1>4, <1>5, <1>6 DEF DeliveryIInv

LEMMA UserStep ==
    ASSUME DeliveryIInv, UserTakesPage \/ UserLeavesPage
    PROVE  DeliveryIInv'
<1>1. /\ DeliveryTypeOK /\ RoundSound /\ SentIsShown /\ Books
      /\ UNCHANGED <<event, chats, bindings, receipt, pending, host, dropped>>
  BY DEF DeliveryIInv, UserTakesPage, UserLeavesPage
<1>2. page' \in Pages /\ page'.reply = page.reply /\ page'.sent = page.sent
  BY <1>1, DeliveryTypes DEF UserTakesPage, UserLeavesPage, Pages
<1>3. trouble' \in [faults : 0..MaxTroubles, turns : 0..MaxUserTurns]
  <2>1. CASE UserTakesPage
    <3>1. /\ trouble.turns \in 0..MaxUserTurns /\ trouble.turns < MaxUserTurns
          /\ trouble' = [trouble EXCEPT !.turns = trouble.turns + 1]
      BY <1>1, <2>1, DeliveryTypes DEF UserTakesPage
    <3>2. trouble.turns + 1 \in 0..MaxUserTurns
      BY <3>1, Assumed
    <3> QED
      BY <1>1, <3>1, <3>2, DeliveryTypes
  <2>2. CASE UserLeavesPage
    BY <1>1, <2>2, DeliveryTypes DEF UserLeavesPage
  <2> QED
    BY <2>1, <2>2
<1>4. DeliveryTypeOK'
  BY <1>1, <1>2, <1>3, DeliveryTypes, TypesAgain
<1>5. RoundSound' /\ SentIsShown' /\ Books'
  BY <1>1, <1>2 DEF RoundSound, Current, SentIsShown, Books, ConsumedIsAnswered, ReceiptSound,
     ClosedInOrder
<1> QED
  BY <1>4, <1>5 DEF DeliveryIInv

LEMMA DeliveryStep == DeliveryIInv /\ [DeliveryNext]_deliveryVars => DeliveryIInv'
<1> SUFFICES ASSUME DeliveryIInv, [DeliveryNext]_deliveryVars PROVE DeliveryIInv'
  OBVIOUS
<1>1. CASE HostRound
  BY <1>1, PlannerStatusStep, TerminalStatusStep, TakeStep, FreezeStep, DeleteChatStep,
     ReportCleanedStep,
     MessageStep, ReportDeliveredStep, ConsumeStep, RememberStep
  DEF HostRound
<1>2. CASE \E f \in Finals, c \in Late : StartLateWorker(f, c)
  BY <1>2, StartLateWorkerStep
<1>3. CASE Replying
  BY <1>3, ReplyStep DEF Replying
<1>4. CASE ObserveTerminal \/ HostStops \/ UserTakesPage \/ UserLeavesPage
  BY <1>4, ObserveTerminalStep, HostStopsStep, UserStep
<1>5. CASE UNCHANGED deliveryVars
  BY <1>5 DEF deliveryVars, DeliveryIInv, DeliveryTypeOK, RoundSound, Current, SentIsShown,
     Books,
     ConsumedIsAnswered, ReceiptSound, ClosedInOrder
<1> QED
  BY <1>1, <1>2, <1>3, <1>4, <1>5 DEF DeliveryNext

LEMMA DeliveryInvariant == DeliverySpec => []DeliveryIInv
BY DeliveryStarts, DeliveryStep, PTL DEF DeliverySpec

\* Events, receipts, bindings and the Host's round keep their types, for any
\* number of events, conversations and troubles.
THEOREM DeliveryTypesHold == DeliverySpec => []DeliveryTypeOK
<1>1. DeliveryIInv => DeliveryTypeOK
  BY DEF DeliveryIInv
<1> QED
  BY <1>1, DeliveryInvariant, PTL

\* What the branch records as done was done: the Foreground answered the message of
\* a consumed event, which was sent once; a task is closed after the conversations
\* of its receipt, and consumed after that.
THEOREM DeliveriesAreHonest == DeliverySpec => []DeliveryHonest
<1>1. DeliveryIInv => DeliveryHonest
  <2> SUFFICES ASSUME DeliveryIInv PROVE DeliveryHonest
    OBVIOUS
  <2>1. \A e \in Messages : (event[e].state = "CONSUMED" => page.reply[e] = "ended") /\ page.sent[e] <= 1
    BY DEF DeliveryIInv, Books, ConsumedIsAnswered, SentIsShown
  <2>2. ASSUME NEW f \in Finals
        PROVE  /\ event[f].cleaned => receipt[f].frozen /\ receipt[f].targets \cap chats[f] = {}
               /\ event[f].state = "CONSUMED" => event[f].cleaned
    <3>1. ReceiptSound(f) /\ ClosedInOrder(f)
      BY DEF DeliveryIInv, Books
    <3> QED
      BY <3>1 DEF ReceiptSound, ClosedInOrder
  <2> QED
    BY <2>1, <2>2 DEF DeliveryHonest
<1> QED
  BY <1>1, DeliveryInvariant, PTL
=============================================================================
