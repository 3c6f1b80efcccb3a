------------------------- MODULE WorkerDispatchProofs -------------------------
(***************************************************************************)
(* Proofs about the dispatches of Worker children, for any number of       *)
(* children, generations and responses: who is admitted, who the Host      *)
(* believes, who owns the lineage, what the Child Reply holds, and that    *)
(* every step is a step of DispatchLifecycle.                              *)
(***************************************************************************)
EXTENDS WorkerDispatch, FiniteSetTheorems, TLAPS

\* What a state of a dispatch says of it: a generation exists, a running one
\* has its Worker, and the lineage has an owner once anybody was admitted.
DispatchSound ==
    \A c \in Children :
        /\ IF dispatch[c].state = "NONE" THEN dispatch[c].gen = 0 ELSE dispatch[c].gen \in Gens
        /\ dispatch[c].state = "RUNNING" => dispatch[c].acked \in Refs
        /\ dispatch[c].state \notin {"NONE", "READY"} => owner \in Refs

\* Owning the lineage takes an admission.
OwnerWasAdmitted == owner # NoWorker => \E id \in admitted : id[1] = owner

\* The Child Reply is not ahead of the dispatch, and behind it until it ends.
ReplyBehind ==
    \A c \in Children : \A i \in 1..Len(reply[c]) :
        reply[c][i] <= dispatch[c].gen /\ (~Terminal(c) => reply[c][i] < dispatch[c].gen)

\* The inductive invariant.
IInv ==
    /\ TypeOK
    /\ DispatchSound
    /\ AdmissionEarned
    /\ OwnerWasAdmitted
    /\ CurrentWasAdmitted
    /\ ReplyBehind
    /\ ReplyOnce
    /\ RunningChildOwnsLineage

-----------------------------------------------------------------------------
\* What the proofs need of the constants and of the bound on dispatches.

LEMMA ConstantFacts ==
    /\ MaxChild \in Nat /\ MaxGen \in Nat
    /\ Gens \subseteq 0..MaxGen /\ Gens \subseteq Nat /\ 0 \notin Gens /\ 0 \notin Children
    /\ NoWorker \notin Refs
    /\ \A id \in Ids : /\ id[1] \in Refs /\ id[2] \in Children /\ id[3] \in Gens
                       /\ id = <<id[1], id[2], id[3]>>
BY WorkerDispatchAssumption DEF Gens, Children, Ids

\* As long as a dispatch may be issued, no child is at the last generation:
\* that child alone would have issued as many as the bound allows.
LEMMA RoomForNext ==
    ASSUME TypeOK, CanIssue, NEW c \in Children
    PROVE  dispatch[c].gen + 1 \in Gens
<1>1. dispatch[c].gen \in 0..MaxGen /\ MaxGen \in Nat /\ MaxChild \in Nat
  BY WorkerDispatchAssumption DEF TypeOK, Dispatches
<1>2. SUFFICES ASSUME dispatch[c].gen = MaxGen PROVE FALSE
  BY <1>1 DEF Gens
<1>3. IsFiniteSet(Gens) /\ Cardinality(Gens) = MaxGen
  BY <1>1, FS_Interval DEF Gens
<1>4. IsFiniteSet(Children)
  BY <1>1, FS_Interval DEF Children
<1>5. IsFiniteSet(Children \X Gens)
  BY <1>3, <1>4, FS_Product
<1>6. IsFiniteSet(Issued)
  BY <1>5, FS_Subset DEF Issued
<1> DEFINE f == [g \in Gens |-> <<c, g>>]
<1>7. f \in [Gens -> Issued]
  BY <1>1, <1>2 DEF Issued, Gens
<1>8. \A x, y \in Gens : x # y => f[x] # f[y]
  OBVIOUS
<1>9. Cardinality(Issued) < Cardinality(Gens)
  BY <1>3 DEF CanIssue
<1> HIDE DEF f
<1> QED
  BY <1>3, <1>6, <1>7, <1>8, <1>9, FS_PigeonHole

\* A step is one of the twelve actions, on a Worker, a child and a generation.
LEMMA NextIs ==
    ASSUME TypeOK, Next
    PROVE  \/ \E ref \in Refs, c \in Children, g \in Gens :
                /\ <<ref, c, g>> \in started
                /\ \/ Accept(ref, c, g) \/ AcceptAgain(ref, c, g)
                   \/ Submit(ref, c, g) \/ Finalize(ref, c, g)
           \/ \E ref \in Refs, c \in Children, g \in Gens : Handoff(ref, c, g)
           \/ ConsumeTurn \/ Advance
           \/ \E c \in Children : StartResponse(c) \/ WorkerReports(c) \/ RequestRollover(c)
                                    \/ ExecutorContinues(c)
           \/ PlannerWrites
<1>1. CASE Call
  <2>1. ASSUME NEW id \in started,
               \/ Accept(id[1], id[2], id[3]) \/ AcceptAgain(id[1], id[2], id[3])
               \/ Submit(id[1], id[2], id[3]) \/ Finalize(id[1], id[2], id[3])
        PROVE  \E ref \in Refs, c \in Children, g \in Gens :
                /\ <<ref, c, g>> \in started
                /\ \/ Accept(ref, c, g) \/ AcceptAgain(ref, c, g)
                   \/ Submit(ref, c, g) \/ Finalize(ref, c, g)
    <3>1. id \in Ids
      BY DEF TypeOK
    <3>2. id[1] \in Refs /\ id[2] \in Children /\ id[3] \in Gens /\ <<id[1], id[2], id[3]>> \in started
      BY <3>1, ConstantFacts
    <3> QED
      BY <2>1, <3>2
  <2> QED
    BY <1>1, <2>1 DEF Call
<1> QED
  BY <1>1 DEF Next

-----------------------------------------------------------------------------
\* What the commits change of the dispatches.

\* The dispatch of c is now in this state, admitted to acked, of the same generation.
Moves(c, state, acked) ==
    /\ dispatch' \in [Children -> Dispatches]
    /\ dispatch'[c].gen = dispatch[c].gen
    /\ dispatch'[c].state = state /\ dispatch'[c].acked = acked
    /\ \A b \in Children \ {c} : dispatch'[b] = dispatch[b]

\* The next generation of c is issued.
Issues(c) ==
    /\ dispatch' \in [Children -> Dispatches]
    /\ dispatch'[c].gen = dispatch[c].gen + 1 /\ dispatch'[c].gen \in Gens
    /\ dispatch'[c].state = "READY" /\ dispatch'[c].acked = NoWorker
    /\ \A b \in Children \ {c} : dispatch'[b] = dispatch[b]

LEMMA FreshEffect ==
    ASSUME TypeOK, CanIssue, NEW c \in Children, NEW pred \in Refs \cup {NoWorker},
           NEW origin \in Origins, dispatch' = [dispatch EXCEPT ![c] = Fresh(c, pred, origin)]
    PROVE  Issues(c)
<1>1. dispatch[c].gen + 1 \in Gens
  BY RoomForNext
<1>2. /\ Fresh(c, pred, origin) \in Dispatches
      /\ Fresh(c, pred, origin).gen = dispatch[c].gen + 1
      /\ Fresh(c, pred, origin).state = "READY" /\ Fresh(c, pred, origin).acked = NoWorker
  BY <1>1, ConstantFacts DEF Fresh, NoDispatch, Dispatches, States, Statuses
<1>3. dispatch \in [Children -> Dispatches]
  BY DEF TypeOK
<1> QED
  BY <1>1, <1>2, <1>3 DEF Issues

LEMMA AckedIsRef ==
    ASSUME TypeOK, NEW c \in Children
    PROVE  dispatch[c] \in Dispatches /\ dispatch[c].acked \in Refs \cup {NoWorker}
BY DEF TypeOK, Dispatches

LEMMA AcceptMoves ==
    ASSUME TypeOK, NEW ref \in Refs, NEW c \in Children, CommitAccept(ref, c)
    PROVE  Moves(c, "RUNNING", ref)
<1> DEFINE new == [dispatch[c] EXCEPT !.state = "RUNNING", !.acked = ref]
<1>1. new \in Dispatches /\ new.gen = dispatch[c].gen /\ new.state = "RUNNING" /\ new.acked = ref
  BY AckedIsRef DEF Dispatches, States
<1>2. dispatch' = [dispatch EXCEPT ![c] = new] /\ dispatch \in [Children -> Dispatches]
  BY DEF CommitAccept, TypeOK
<1> HIDE DEF new
<1> QED
  BY <1>1, <1>2 DEF Moves

\* All that an accepted call does.
LEMMA AcceptEffect ==
    ASSUME TypeOK, NEW ref \in Refs, NEW c \in Children, NEW g \in Gens, Accept(ref, c, g)
    PROVE  /\ Moves(c, "RUNNING", ref)
           /\ dispatch[c].gen = g /\ dispatch[c].state = "READY"
           /\ owner' = ref /\ rollover' = NoWorker
           /\ admitted' = admitted \cup {<<ref, c, g>>}
           /\ late' = IF c = owned THEN late ELSE late \cup {<<ref, c, g>>}
           /\ current' \in {ref, current}
           /\ UNCHANGED <<owned, direction, reply, started>>
<1>1. CommitAccept(ref, c) /\ dispatch[c].gen = g /\ dispatch[c].state = "READY"
  BY DEF Accept, AcceptOpen, Exact
<1>2. Moves(c, "RUNNING", ref)
  BY <1>1, AcceptMoves
<1>3. /\ owner' = ref /\ rollover' = NoWorker
      /\ admitted' = admitted \cup {<<ref, c, dispatch[c].gen>>}
      /\ late' = IF c = owned THEN late ELSE late \cup {<<ref, c, dispatch[c].gen>>}
      /\ owned' = owned /\ direction' = direction /\ reply' = reply
  BY <1>1 DEF CommitAccept
<1> QED
  BY <1>1, <1>2, <1>3 DEF Accept

LEMMA StateMoves ==
    ASSUME TypeOK, NEW c \in Children, NEW state \in States,
           dispatch' = [dispatch EXCEPT ![c].state = state]
    PROVE  Moves(c, state, dispatch[c].acked)
<1> DEFINE new == [dispatch[c] EXCEPT !.state = state]
<1>1. new \in Dispatches /\ new.gen = dispatch[c].gen /\ new.state = state
      /\ new.acked = dispatch[c].acked
  BY AckedIsRef DEF Dispatches
<1>2. dispatch' = [dispatch EXCEPT ![c] = new] /\ dispatch \in [Children -> Dispatches]
  BY DEF TypeOK
<1> HIDE DEF new
<1> QED
  BY <1>1, <1>2 DEF Moves

LEMMA SubmitMoves ==
    ASSUME TypeOK, NEW c \in Children, CommitAction(c)
    PROVE  Moves(c, "WAIT_RESULT", dispatch[c].acked)
BY StateMoves DEF CommitAction, States

LEMMA FinalizeMoves ==
    ASSUME TypeOK, NEW c \in Children, CommitFinalize(c), dispatch[c].status # "none"
    PROVE  \E s \in {"DONE", "BLOCKED", "ERROR"} : Moves(c, s, dispatch[c].acked)
<1> DEFINE s == IF dispatch[c].status \in {"PASS", "CONTINUE"} THEN "DONE" ELSE dispatch[c].status
<1>1. dispatch[c].status \in Reports
  BY AckedIsRef DEF Dispatches, Statuses
<1>2. s \in {"DONE", "BLOCKED", "ERROR"}
  BY <1>1, WorkerDispatchAssumption
<1>3. dispatch' = [dispatch EXCEPT ![c].state = s]
  BY DEF CommitFinalize
<1> HIDE DEF s
<1>4. Moves(c, s, dispatch[c].acked)
  BY <1>2, <1>3, StateMoves DEF States
<1> QED
  BY <1>2, <1>4

LEMMA ReportMoves ==
    ASSUME TypeOK, NEW c \in Children, WorkerReports(c)
    PROVE  Moves(c, dispatch[c].state, dispatch[c].acked)
<1>1. CASE dispatch' = [dispatch EXCEPT ![c].entry = TRUE]
  <2> DEFINE new == [dispatch[c] EXCEPT !.entry = TRUE]
  <2>1. new \in Dispatches /\ new.gen = dispatch[c].gen /\ new.state = dispatch[c].state
        /\ new.acked = dispatch[c].acked
    BY AckedIsRef DEF Dispatches
  <2>2. dispatch' = [dispatch EXCEPT ![c] = new] /\ dispatch \in [Children -> Dispatches]
    BY <1>1 DEF TypeOK
  <2> HIDE DEF new
  <2> QED
    BY <2>1, <2>2 DEF Moves
<1>2. ASSUME NEW s \in Reports, dispatch' = [dispatch EXCEPT ![c].status = s]
      PROVE  Moves(c, dispatch[c].state, dispatch[c].acked)
  <2> DEFINE new == [dispatch[c] EXCEPT !.status = s]
  <2>1. new \in Dispatches /\ new.gen = dispatch[c].gen /\ new.state = dispatch[c].state
        /\ new.acked = dispatch[c].acked
    BY AckedIsRef DEF Dispatches, Statuses
  <2>2. dispatch' = [dispatch EXCEPT ![c] = new] /\ dispatch \in [Children -> Dispatches]
    BY <1>2 DEF TypeOK
  <2> HIDE DEF new
  <2> QED
    BY <2>1, <2>2 DEF Moves
<1> QED
  BY <1>1, <1>2 DEF WorkerReports

LEMMA HandoffIssues ==
    ASSUME TypeOK, NEW ref \in Refs, NEW c \in Children, NEW g \in Gens, Handoff(ref, c, g)
    PROVE  Issues(c)
BY AckedIsRef, FreshEffect DEF Handoff, HandoffOpen, CommitHandoff, Origins

LEMMA ExecutorIssues ==
    ASSUME TypeOK, NEW c \in Children, ExecutorContinues(c)
    PROVE  Issues(c)
BY FreshEffect DEF ExecutorContinues, Origins

\* A turn or the tick issues for the child that is, or becomes, the owned one.
LEMMA OwnedIssues ==
    ASSUME TypeOK
    PROVE  /\ ConsumeTurn => \/ owned' = 0 /\ dispatch' = dispatch
                             \/ owned' \in Children /\ Issues(owned')
           /\ Advance => owned' \in Children /\ owned' = owned /\ Issues(owned)
<1>1. owned # 0 => owned \in Children
  BY DEF TypeOK
<1>2. ASSUME owned # 0, CanIssue, Continue(owned) PROVE Issues(owned)
  BY <1>1, <1>2, AckedIsRef, FreshEffect DEF Continue, Origins
<1>3. ASSUME NEW c \in Children, CanIssue, NewChild(c) PROVE Issues(c)
  BY <1>3, FreshEffect DEF NewChild, Origins
<1>4. ASSUME ConsumeTurn
      PROVE  \/ owned' = 0 /\ dispatch' = dispatch
             \/ owned' \in Children /\ Issues(owned')
  <2>1. CASE direction = "retire"
    BY <1>4, <2>1 DEF ConsumeTurn, CommitTurn
  <2>2. CASE direction = "direct" /\ owned # 0
    BY <1>1, <1>2, <1>4, <2>2 DEF ConsumeTurn, TurnOpen, CommitTurn
  <2>3. CASE direction = "direct" /\ owned = 0
    <3>1. PICK c \in Children : NewChild(c)
      BY <1>4, <2>3 DEF ConsumeTurn, CommitTurn
    <3>2. CanIssue /\ owned' = c
      BY <1>4, <2>3, <3>1 DEF ConsumeTurn, TurnOpen, NewChild
    <3> QED
      BY <1>3, <3>1, <3>2
  <2> QED
    BY <1>4, <2>1, <2>2, <2>3 DEF ConsumeTurn, TurnOpen
<1>5. ASSUME Advance PROVE owned' \in Children /\ owned' = owned /\ Issues(owned)
  BY <1>1, <1>2, <1>5 DEF Advance, AdvanceOpen, CommitAdvance
<1> QED
  BY <1>4, <1>5

-----------------------------------------------------------------------------
(* The Child Reply.                                                          *)

LEMMA ReplyTypes ==
    ASSUME TypeOK, NEW c \in Children
    PROVE  /\ reply[c] \in Seq(Gens) /\ Len(reply[c]) \in Nat
           /\ \A i \in 1..Len(reply[c]) : reply[c][i] \in Nat
           /\ dispatch[c].gen \in Nat
<1>1. reply[c] \in Seq(Gens) /\ dispatch[c].gen \in 0..MaxGen
  BY DEF TypeOK, Dispatches
<1> QED
  BY <1>1, ConstantFacts

\* Whatever leaves the Child Reply alone and ends no dispatch keeps it behind.
LEMMA KeepsBehind ==
    ASSUME TypeOK, ReplyBehind, reply' = reply, NEW c \in Children,
           \/ Issues(c)
           \/ Moves(c, "RUNNING", dispatch'[c].acked) /\ ~Terminal(c)
           \/ Moves(c, "WAIT_RESULT", dispatch'[c].acked) /\ ~Terminal(c)
           \/ Moves(c, dispatch[c].state, dispatch'[c].acked)
           \/ dispatch' = dispatch
    PROVE  ReplyBehind'
<1> SUFFICES ASSUME NEW b \in Children, NEW i \in 1..Len(reply[b])
             PROVE  /\ reply[b][i] <= dispatch'[b].gen
                    /\ ~Terminal(b)' => reply[b][i] < dispatch'[b].gen
  BY DEF ReplyBehind
<1>1. reply[b][i] \in Nat /\ dispatch[b].gen \in Nat
  BY ReplyTypes
<1>2. reply[b][i] <= dispatch[b].gen /\ (~Terminal(b) => reply[b][i] < dispatch[b].gen)
  BY DEF ReplyBehind
<1> QED
  BY <1>1, <1>2 DEF Issues, Moves, Terminal

\* The end of the running generation is the next entry.
LEMMA FinalizeAppends ==
    ASSUME TypeOK, ReplyBehind, NEW ref \in Refs, NEW c \in Children, NEW g \in Gens,
           Finalize(ref, c, g)
    PROVE  /\ Len(reply'[c]) = Len(reply[c]) + 1
           /\ \A i \in 1..Len(reply[c]) : reply'[c][i] = reply[c][i] /\ reply[c][i] < g
           /\ reply'[c][Len(reply[c]) + 1] = g
           /\ dispatch'[c].gen = g /\ dispatch[c].gen = g
           /\ \A b \in Children \ {c} : reply'[b] = reply[b] /\ dispatch'[b] = dispatch[b]
<1>1. dispatch[c].gen = g /\ dispatch[c].state = "RUNNING" /\ CommitFinalize(c)
      /\ dispatch[c].status # "none"
  BY DEF Finalize, FinalizeOpen, Exact
<1>2. PICK s \in {"DONE", "BLOCKED", "ERROR"} : Moves(c, s, dispatch[c].acked)
  BY <1>1, FinalizeMoves
<1>3. reply' = [reply EXCEPT ![c] = Append(reply[c], g)] /\ reply \in [Children -> Seq(Gens)]
  BY <1>1 DEF CommitFinalize, TypeOK
<1>4. reply'[c] = Append(reply[c], g) /\ \A b \in Children \ {c} : reply'[b] = reply[b]
  BY <1>3
<1>5. \A i \in 1..Len(reply[c]) : reply[c][i] < g
  BY <1>1 DEF ReplyBehind, Terminal
<1> QED
  BY <1>1, <1>2, <1>4, <1>5 DEF Moves

-----------------------------------------------------------------------------
(* The invariant, part by part.                                              *)

\* Every step keeps the types.
LEMMA StepTypes == ASSUME TypeOK, DispatchSound, Next PROVE TypeOK'
<1>1. ASSUME NEW ref \in Refs, NEW c \in Children, NEW g \in Gens, <<ref, c, g>> \in started,
             Accept(ref, c, g)
      PROVE  TypeOK'
  <2>1. <<ref, c, g>> \in Ids
    BY DEF Ids
  <2>2. dispatch' \in [Children -> Dispatches]
    BY <1>1, AcceptEffect DEF Moves
  <2>3. /\ owner' = ref /\ rollover' = NoWorker /\ current' \in {ref, current}
        /\ admitted' = admitted \cup {<<ref, c, g>>}
        /\ late' \subseteq late \cup {<<ref, c, g>>}
        /\ UNCHANGED <<owned, direction, reply, started>>
    BY <1>1, AcceptEffect
  <2>4. admitted' \subseteq Ids /\ late' \subseteq Ids
    BY <2>1, <2>3 DEF TypeOK
  <2> QED
    BY <2>2, <2>3, <2>4 DEF TypeOK
<1>2. ASSUME NEW ref \in Refs, NEW c \in Children, NEW g \in Gens, <<ref, c, g>> \in started,
             AcceptAgain(ref, c, g)
      PROVE  TypeOK'
  BY <1>2 DEF AcceptAgain, head, TypeOK
<1>3. ASSUME NEW ref \in Refs, NEW c \in Children, NEW g \in Gens, <<ref, c, g>> \in started,
             Submit(ref, c, g)
      PROVE  TypeOK'
  BY <1>3, SubmitMoves DEF Submit, CommitAction, TypeOK, Moves
<1>4. ASSUME NEW ref \in Refs, NEW c \in Children, NEW g \in Gens, <<ref, c, g>> \in started,
             Finalize(ref, c, g)
      PROVE  TypeOK'
  <2>1. PICK s \in {"DONE", "BLOCKED", "ERROR"} : Moves(c, s, dispatch[c].acked)
    BY <1>4, FinalizeMoves DEF Finalize, FinalizeOpen
  <2>2. dispatch[c].gen \in Gens
    BY <1>4 DEF Finalize, FinalizeOpen, Exact
  <2>3. reply' \in [Children -> Seq(Gens)]
    BY <1>4, <2>2 DEF Finalize, CommitFinalize, TypeOK
  <2> QED
    BY <1>4, <2>1, <2>3 DEF Finalize, CommitFinalize, TypeOK, Moves
<1>5. ASSUME NEW ref \in Refs, NEW c \in Children, NEW g \in Gens, Handoff(ref, c, g)
      PROVE  TypeOK'
  BY <1>5, HandoffIssues DEF Handoff, CommitHandoff, TypeOK, Issues
<1>6. ASSUME ConsumeTurn
      PROVE  TypeOK'
  BY <1>6, OwnedIssues DEF ConsumeTurn, CommitTurn, TypeOK, Issues
<1>7. ASSUME Advance
      PROVE  TypeOK'
  BY <1>7, OwnedIssues DEF Advance, CommitAdvance, TypeOK, Issues
<1>8. ASSUME NEW c \in Children, StartResponse(c)
      PROVE  TypeOK'
  <2>1. dispatch[c].gen \in Gens
    BY <1>8 DEF StartResponse, DispatchSound
  <2>2. current # NoWorker => current \in Refs
    BY DEF TypeOK
  <2>3. started' \subseteq Ids
    BY <1>8, <2>1, <2>2 DEF StartResponse, Ids, Refs, WakeRef, SuccessorRef, TypeOK
  <2> QED
    BY <1>8, <2>3 DEF StartResponse, head, TypeOK
<1>9. ASSUME NEW c \in Children, WorkerReports(c)
      PROVE  TypeOK'
  BY <1>9, ReportMoves DEF WorkerReports, Elsewhere, TypeOK, Moves
<1>10. ASSUME NEW c \in Children, RequestRollover(c)
      PROVE  TypeOK'
  <2>1. owner \in Refs /\ dispatch[c].gen \in Gens
    BY <1>10 DEF RequestRollover, DispatchSound
  <2>2. rollover' \in Ids
    BY <1>10, <2>1 DEF RequestRollover, Ids
  <2> QED
    BY <1>10, <2>2 DEF RequestRollover, Elsewhere, TypeOK
<1>11. ASSUME NEW c \in Children, ExecutorContinues(c)
      PROVE  TypeOK'
  BY <1>11, ExecutorIssues DEF ExecutorContinues, Elsewhere, TypeOK, Issues
<1>12. ASSUME PlannerWrites
      PROVE  TypeOK'
  BY <1>12 DEF PlannerWrites, Elsewhere, TypeOK
<1> QED
  BY <1>1, <1>2, <1>3, <1>4, <1>5, <1>6, <1>7, <1>8, <1>9, <1>10, <1>11, <1>12, NextIs

\* What a state says of a dispatch.
LEMMA StepSound == ASSUME IInv, Next PROVE DispatchSound'
<1>1. ASSUME NEW ref \in Refs, NEW c \in Children, NEW g \in Gens, <<ref, c, g>> \in started,
             Accept(ref, c, g)
      PROVE  DispatchSound'
  <2>1. /\ Moves(c, "RUNNING", ref) /\ owner' = ref
        /\ dispatch[c].gen = g
    BY <1>1, AcceptEffect DEF IInv
  <2>2. \A b \in Children \ {c} : dispatch'[b] = dispatch[b]
    BY <2>1 DEF Moves
  <2>3. dispatch'[c].state = "RUNNING" /\ dispatch'[c].acked = ref /\ dispatch'[c].gen = g
    BY <2>1 DEF Moves
  <2>4. DispatchSound
    BY DEF IInv
  <2> QED
    BY <2>1, <2>2, <2>3, <2>4 DEF DispatchSound
<1>2. ASSUME NEW ref \in Refs, NEW c \in Children, NEW g \in Gens, <<ref, c, g>> \in started,
             AcceptAgain(ref, c, g)
      PROVE  DispatchSound'
  BY <1>2 DEF AcceptAgain, head, DispatchSound, IInv
<1>3. ASSUME NEW ref \in Refs, NEW c \in Children, NEW g \in Gens, <<ref, c, g>> \in started,
             Submit(ref, c, g)
      PROVE  DispatchSound'
  BY <1>3 DEF Submit, ActionOpen, CommitAction, DispatchSound, IInv
<1>4. ASSUME NEW ref \in Refs, NEW c \in Children, NEW g \in Gens, <<ref, c, g>> \in started,
             Finalize(ref, c, g)
      PROVE  DispatchSound'
  BY <1>4, FinalizeMoves DEF Finalize, FinalizeOpen, CommitFinalize, DispatchSound, Moves, IInv
<1>5. ASSUME NEW ref \in Refs, NEW c \in Children, NEW g \in Gens, Handoff(ref, c, g)
      PROVE  DispatchSound'
  BY <1>5, HandoffIssues DEF Handoff, CommitHandoff, DispatchSound, Issues, IInv
<1>6. ASSUME ConsumeTurn
      PROVE  DispatchSound'
  BY <1>6, OwnedIssues DEF ConsumeTurn, CommitTurn, DispatchSound, Issues, IInv
<1>7. ASSUME Advance
      PROVE  DispatchSound'
  BY <1>7, OwnedIssues DEF Advance, CommitAdvance, DispatchSound, Issues, IInv
<1>8. ASSUME NEW c \in Children, StartResponse(c)
      PROVE  DispatchSound'
  BY <1>8 DEF StartResponse, head, DispatchSound, IInv
<1>9. ASSUME NEW c \in Children, WorkerReports(c)
      PROVE  DispatchSound'
  BY <1>9, ReportMoves DEF WorkerReports, DispatchSound, Moves, IInv
<1>10. ASSUME NEW c \in Children, RequestRollover(c)
      PROVE  DispatchSound'
  BY <1>10 DEF RequestRollover, DispatchSound, IInv
<1>11. ASSUME NEW c \in Children, ExecutorContinues(c)
      PROVE  DispatchSound'
  BY <1>11, ExecutorIssues DEF ExecutorContinues, DispatchSound, Issues, IInv
<1>12. ASSUME PlannerWrites
      PROVE  DispatchSound'
  BY <1>12 DEF PlannerWrites, DispatchSound, IInv
<1> QED
  BY <1>1, <1>2, <1>3, <1>4, <1>5, <1>6, <1>7, <1>8, <1>9, <1>10, <1>11, <1>12, NextIs DEF IInv

\* Only a response that started is admitted.
LEMMA StepEarned == ASSUME IInv, Next PROVE AdmissionEarned'
<1>1. ASSUME NEW ref \in Refs, NEW c \in Children, NEW g \in Gens, <<ref, c, g>> \in started,
             Accept(ref, c, g)
      PROVE  AdmissionEarned'
  BY <1>1, AcceptEffect DEF AdmissionEarned, IInv
<1>2. ASSUME NEW ref \in Refs, NEW c \in Children, NEW g \in Gens, <<ref, c, g>> \in started,
             AcceptAgain(ref, c, g)
      PROVE  AdmissionEarned'
  BY <1>2 DEF AcceptAgain, AdmissionEarned, IInv
<1>3. ASSUME NEW ref \in Refs, NEW c \in Children, NEW g \in Gens, <<ref, c, g>> \in started,
             Submit(ref, c, g)
      PROVE  AdmissionEarned'
  BY <1>3 DEF Submit, CommitAction, AdmissionEarned, IInv
<1>4. ASSUME NEW ref \in Refs, NEW c \in Children, NEW g \in Gens, <<ref, c, g>> \in started,
             Finalize(ref, c, g)
      PROVE  AdmissionEarned'
  BY <1>4 DEF Finalize, CommitFinalize, AdmissionEarned, IInv
<1>5. ASSUME NEW ref \in Refs, NEW c \in Children, NEW g \in Gens, Handoff(ref, c, g)
      PROVE  AdmissionEarned'
  BY <1>5 DEF Handoff, CommitHandoff, AdmissionEarned, IInv
<1>6. ASSUME ConsumeTurn
      PROVE  AdmissionEarned'
  BY <1>6 DEF ConsumeTurn, CommitTurn, AdmissionEarned, IInv
<1>7. ASSUME Advance
      PROVE  AdmissionEarned'
  BY <1>7 DEF Advance, CommitAdvance, AdmissionEarned, IInv
<1>8. ASSUME NEW c \in Children, StartResponse(c)
      PROVE  AdmissionEarned'
  BY <1>8 DEF StartResponse, AdmissionEarned, IInv
<1>9. ASSUME NEW c \in Children, WorkerReports(c)
      PROVE  AdmissionEarned'
  BY <1>9 DEF WorkerReports, Elsewhere, AdmissionEarned, IInv
<1>10. ASSUME NEW c \in Children, RequestRollover(c)
      PROVE  AdmissionEarned'
  BY <1>10 DEF RequestRollover, Elsewhere, AdmissionEarned, IInv
<1>11. ASSUME NEW c \in Children, ExecutorContinues(c)
      PROVE  AdmissionEarned'
  BY <1>11 DEF ExecutorContinues, Elsewhere, AdmissionEarned, IInv
<1>12. ASSUME PlannerWrites
      PROVE  AdmissionEarned'
  BY <1>12 DEF PlannerWrites, Elsewhere, AdmissionEarned, IInv
<1> QED
  BY <1>1, <1>2, <1>3, <1>4, <1>5, <1>6, <1>7, <1>8, <1>9, <1>10, <1>11, <1>12, NextIs DEF IInv

\* An owner was admitted.
LEMMA StepOwner == ASSUME IInv, Next PROVE OwnerWasAdmitted'
<1>1. ASSUME NEW ref \in Refs, NEW c \in Children, NEW g \in Gens, <<ref, c, g>> \in started,
             Accept(ref, c, g)
      PROVE  OwnerWasAdmitted'
  BY <1>1, AcceptEffect DEF OwnerWasAdmitted, IInv
<1>2. ASSUME NEW ref \in Refs, NEW c \in Children, NEW g \in Gens, <<ref, c, g>> \in started,
             AcceptAgain(ref, c, g)
      PROVE  OwnerWasAdmitted'
  BY <1>2 DEF AcceptAgain, head, OwnerWasAdmitted, IInv
<1>3. ASSUME NEW ref \in Refs, NEW c \in Children, NEW g \in Gens, <<ref, c, g>> \in started,
             Submit(ref, c, g)
      PROVE  OwnerWasAdmitted'
  BY <1>3 DEF Submit, CommitAction, OwnerWasAdmitted, IInv
<1>4. ASSUME NEW ref \in Refs, NEW c \in Children, NEW g \in Gens, <<ref, c, g>> \in started,
             Finalize(ref, c, g)
      PROVE  OwnerWasAdmitted'
  BY <1>4 DEF Finalize, CommitFinalize, OwnerWasAdmitted, IInv
<1>5. ASSUME NEW ref \in Refs, NEW c \in Children, NEW g \in Gens, Handoff(ref, c, g)
      PROVE  OwnerWasAdmitted'
  BY <1>5 DEF Handoff, CommitHandoff, OwnerWasAdmitted, IInv
<1>6. ASSUME ConsumeTurn
      PROVE  OwnerWasAdmitted'
  BY <1>6 DEF ConsumeTurn, CommitTurn, OwnerWasAdmitted, IInv
<1>7. ASSUME Advance
      PROVE  OwnerWasAdmitted'
  BY <1>7 DEF Advance, CommitAdvance, OwnerWasAdmitted, IInv
<1>8. ASSUME NEW c \in Children, StartResponse(c)
      PROVE  OwnerWasAdmitted'
  BY <1>8 DEF StartResponse, head, OwnerWasAdmitted, IInv
<1>9. ASSUME NEW c \in Children, WorkerReports(c)
      PROVE  OwnerWasAdmitted'
  BY <1>9 DEF WorkerReports, Elsewhere, OwnerWasAdmitted, IInv
<1>10. ASSUME NEW c \in Children, RequestRollover(c)
      PROVE  OwnerWasAdmitted'
  BY <1>10 DEF RequestRollover, Elsewhere, OwnerWasAdmitted, IInv
<1>11. ASSUME NEW c \in Children, ExecutorContinues(c)
      PROVE  OwnerWasAdmitted'
  BY <1>11 DEF ExecutorContinues, Elsewhere, OwnerWasAdmitted, IInv
<1>12. ASSUME PlannerWrites
      PROVE  OwnerWasAdmitted'
  BY <1>12 DEF PlannerWrites, Elsewhere, OwnerWasAdmitted, IInv
<1> QED
  BY <1>1, <1>2, <1>3, <1>4, <1>5, <1>6, <1>7, <1>8, <1>9, <1>10, <1>11, <1>12, NextIs DEF IInv

\* The Host's Worker was admitted.
LEMMA StepCurrent == ASSUME IInv, Next PROVE CurrentWasAdmitted'
<1>1. ASSUME NEW ref \in Refs, NEW c \in Children, NEW g \in Gens, <<ref, c, g>> \in started,
             Accept(ref, c, g)
      PROVE  CurrentWasAdmitted'
  BY <1>1, AcceptEffect DEF CurrentWasAdmitted, IInv
<1>2. ASSUME NEW ref \in Refs, NEW c \in Children, NEW g \in Gens, <<ref, c, g>> \in started,
             AcceptAgain(ref, c, g)
      PROVE  CurrentWasAdmitted'
  <2>1. dispatch[c].gen = g /\ dispatch[c].state # "READY" /\ ~OwnerRefuses(ref, c, g)
    BY <1>2 DEF AcceptAgain, AcceptAlready, Exact
  <2>2. dispatch[c].state # "NONE"
    BY <2>1, ConstantFacts DEF IInv, DispatchSound
  <2>3. owner \in Refs
    BY <2>1, <2>2 DEF IInv, DispatchSound
  <2>4. owner = ref
    BY <2>1, <2>3, ConstantFacts DEF OwnerRefuses, CanReplaceOwner
  <2> QED
    BY <1>2, <2>3, <2>4 DEF AcceptAgain, IInv, OwnerWasAdmitted, CurrentWasAdmitted
<1>3. ASSUME NEW ref \in Refs, NEW c \in Children, NEW g \in Gens, <<ref, c, g>> \in started,
             Submit(ref, c, g)
      PROVE  CurrentWasAdmitted'
  BY <1>3 DEF Submit, CommitAction, CurrentWasAdmitted, IInv
<1>4. ASSUME NEW ref \in Refs, NEW c \in Children, NEW g \in Gens, <<ref, c, g>> \in started,
             Finalize(ref, c, g)
      PROVE  CurrentWasAdmitted'
  BY <1>4 DEF Finalize, CommitFinalize, CurrentWasAdmitted, IInv
<1>5. ASSUME NEW ref \in Refs, NEW c \in Children, NEW g \in Gens, Handoff(ref, c, g)
      PROVE  CurrentWasAdmitted'
  BY <1>5 DEF Handoff, CommitHandoff, CurrentWasAdmitted, IInv
<1>6. ASSUME ConsumeTurn
      PROVE  CurrentWasAdmitted'
  BY <1>6 DEF ConsumeTurn, CommitTurn, CurrentWasAdmitted, IInv
<1>7. ASSUME Advance
      PROVE  CurrentWasAdmitted'
  BY <1>7 DEF Advance, CommitAdvance, CurrentWasAdmitted, IInv
<1>8. ASSUME NEW c \in Children, StartResponse(c)
      PROVE  CurrentWasAdmitted'
  BY <1>8 DEF StartResponse, CurrentWasAdmitted, IInv
<1>9. ASSUME NEW c \in Children, WorkerReports(c)
      PROVE  CurrentWasAdmitted'
  BY <1>9 DEF WorkerReports, Elsewhere, CurrentWasAdmitted, IInv
<1>10. ASSUME NEW c \in Children, RequestRollover(c)
      PROVE  CurrentWasAdmitted'
  BY <1>10 DEF RequestRollover, Elsewhere, CurrentWasAdmitted, IInv
<1>11. ASSUME NEW c \in Children, ExecutorContinues(c)
      PROVE  CurrentWasAdmitted'
  BY <1>11 DEF ExecutorContinues, Elsewhere, CurrentWasAdmitted, IInv
<1>12. ASSUME PlannerWrites
      PROVE  CurrentWasAdmitted'
  BY <1>12 DEF PlannerWrites, Elsewhere, CurrentWasAdmitted, IInv
<1> QED
  BY <1>1, <1>2, <1>3, <1>4, <1>5, <1>6, <1>7, <1>8, <1>9, <1>10, <1>11, <1>12, NextIs DEF IInv

\* The Child Reply stays behind.
LEMMA StepBehind == ASSUME IInv, Next PROVE ReplyBehind'
<1>1. ASSUME NEW ref \in Refs, NEW c \in Children, NEW g \in Gens, <<ref, c, g>> \in started,
             Accept(ref, c, g)
      PROVE  ReplyBehind'
  BY <1>1, AcceptEffect, KeepsBehind DEF Moves, Terminal, IInv
<1>2. ASSUME NEW ref \in Refs, NEW c \in Children, NEW g \in Gens, <<ref, c, g>> \in started,
             AcceptAgain(ref, c, g)
      PROVE  ReplyBehind'
  BY <1>2 DEF AcceptAgain, head, ReplyBehind, Terminal, IInv
<1>3. ASSUME NEW ref \in Refs, NEW c \in Children, NEW g \in Gens, <<ref, c, g>> \in started,
             Submit(ref, c, g)
      PROVE  ReplyBehind'
  BY <1>3, SubmitMoves, KeepsBehind DEF Submit, ActionOpen, CommitAction, Terminal, Moves, IInv
<1>4. ASSUME NEW ref \in Refs, NEW c \in Children, NEW g \in Gens, <<ref, c, g>> \in started,
             Finalize(ref, c, g)
      PROVE  ReplyBehind'
  <2>1. /\ Len(reply'[c]) = Len(reply[c]) + 1
        /\ \A i \in 1..Len(reply[c]) : reply'[c][i] = reply[c][i] /\ reply[c][i] < g
        /\ reply'[c][Len(reply[c]) + 1] = g
        /\ dispatch'[c].gen = g
        /\ \A b \in Children \ {c} : reply'[b] = reply[b] /\ dispatch'[b] = dispatch[b]
    BY <1>4, FinalizeAppends DEF IInv
  <2>2. \E s \in {"DONE", "BLOCKED", "ERROR"} : dispatch'[c].state = s
    BY <1>4, FinalizeMoves DEF Finalize, FinalizeOpen, Moves, IInv
  <2>3. \A i \in 1..Len(reply'[c]) : reply'[c][i] <= g
    BY <2>1, ReplyTypes, ConstantFacts DEF IInv
  <2>4. ReplyBehind /\ TypeOK
    BY DEF IInv
  <2> QED
    BY <2>1, <2>2, <2>3, <2>4 DEF ReplyBehind, Terminal
<1>5. ASSUME NEW ref \in Refs, NEW c \in Children, NEW g \in Gens, Handoff(ref, c, g)
      PROVE  ReplyBehind'
  BY <1>5, HandoffIssues, KeepsBehind DEF Handoff, CommitHandoff, IInv
<1>6. ASSUME ConsumeTurn
      PROVE  ReplyBehind'
  BY <1>6, OwnedIssues, KeepsBehind DEF ConsumeTurn, CommitTurn, ReplyBehind, IInv
<1>7. ASSUME Advance
      PROVE  ReplyBehind'
  BY <1>7, OwnedIssues, KeepsBehind DEF Advance, CommitAdvance, IInv
<1>8. ASSUME NEW c \in Children, StartResponse(c)
      PROVE  ReplyBehind'
  BY <1>8 DEF StartResponse, head, ReplyBehind, Terminal, IInv
<1>9. ASSUME NEW c \in Children, WorkerReports(c)
      PROVE  ReplyBehind'
  BY <1>9, ReportMoves, KeepsBehind DEF WorkerReports, Moves, IInv
<1>10. ASSUME NEW c \in Children, RequestRollover(c)
      PROVE  ReplyBehind'
  BY <1>10 DEF RequestRollover, ReplyBehind, Terminal, IInv
<1>11. ASSUME NEW c \in Children, ExecutorContinues(c)
      PROVE  ReplyBehind'
  BY <1>11, ExecutorIssues, KeepsBehind DEF ExecutorContinues, IInv
<1>12. ASSUME PlannerWrites
      PROVE  ReplyBehind'
  BY <1>12 DEF PlannerWrites, ReplyBehind, Terminal, IInv
<1> QED
  BY <1>1, <1>2, <1>3, <1>4, <1>5, <1>6, <1>7, <1>8, <1>9, <1>10, <1>11, <1>12, NextIs DEF IInv

\* The Child Reply grows in order.
LEMMA StepReply == ASSUME IInv, Next PROVE ReplyOnce'
<1>1. ASSUME NEW ref \in Refs, NEW c \in Children, NEW g \in Gens, <<ref, c, g>> \in started,
             Accept(ref, c, g)
      PROVE  ReplyOnce'
  BY <1>1, AcceptEffect DEF ReplyOnce, IInv
<1>2. ASSUME NEW ref \in Refs, NEW c \in Children, NEW g \in Gens, <<ref, c, g>> \in started,
             AcceptAgain(ref, c, g)
      PROVE  ReplyOnce'
  BY <1>2 DEF AcceptAgain, head, ReplyOnce, IInv
<1>3. ASSUME NEW ref \in Refs, NEW c \in Children, NEW g \in Gens, <<ref, c, g>> \in started,
             Submit(ref, c, g)
      PROVE  ReplyOnce'
  BY <1>3 DEF Submit, CommitAction, ReplyOnce, IInv
<1>4. ASSUME NEW ref \in Refs, NEW c \in Children, NEW g \in Gens, <<ref, c, g>> \in started,
             Finalize(ref, c, g)
      PROVE  ReplyOnce'
  <2>1. /\ Len(reply'[c]) = Len(reply[c]) + 1
        /\ \A i \in 1..Len(reply[c]) : reply'[c][i] = reply[c][i] /\ reply[c][i] < g
        /\ reply'[c][Len(reply[c]) + 1] = g
        /\ \A b \in Children \ {c} : reply'[b] = reply[b]
    BY <1>4, FinalizeAppends DEF IInv
  <2>2. \A i, j \in 1..Len(reply[c]) : i < j => reply[c][i] < reply[c][j]
    BY DEF IInv, ReplyOnce
  <2>3. Len(reply[c]) \in Nat /\ 1..Len(reply'[c]) = 1..Len(reply[c]) \cup {Len(reply[c]) + 1}
    BY <2>1
  <2>4. ASSUME NEW i \in 1..Len(reply'[c]), NEW j \in 1..Len(reply'[c]), i < j
        PROVE  reply'[c][i] < reply'[c][j]
    <3>1. i \in 1..Len(reply[c])
      BY <2>1, <2>3, <2>4
    <3>2. CASE j \in 1..Len(reply[c])
      BY <2>1, <2>2, <2>4, <3>1, <3>2
    <3>3. CASE j = Len(reply[c]) + 1
      BY <2>1, <3>1, <3>3
    <3> QED
      BY <2>3, <3>2, <3>3
  <2> QED
    BY <2>1, <2>4 DEF ReplyOnce, IInv
<1>5. ASSUME NEW ref \in Refs, NEW c \in Children, NEW g \in Gens, Handoff(ref, c, g)
      PROVE  ReplyOnce'
  BY <1>5 DEF Handoff, CommitHandoff, ReplyOnce, IInv
<1>6. ASSUME ConsumeTurn
      PROVE  ReplyOnce'
  BY <1>6 DEF ConsumeTurn, CommitTurn, ReplyOnce, IInv
<1>7. ASSUME Advance
      PROVE  ReplyOnce'
  BY <1>7 DEF Advance, CommitAdvance, ReplyOnce, IInv
<1>8. ASSUME NEW c \in Children, StartResponse(c)
      PROVE  ReplyOnce'
  BY <1>8 DEF StartResponse, head, ReplyOnce, IInv
<1>9. ASSUME NEW c \in Children, WorkerReports(c)
      PROVE  ReplyOnce'
  BY <1>9 DEF WorkerReports, ReplyOnce, IInv
<1>10. ASSUME NEW c \in Children, RequestRollover(c)
      PROVE  ReplyOnce'
  BY <1>10 DEF RequestRollover, ReplyOnce, IInv
<1>11. ASSUME NEW c \in Children, ExecutorContinues(c)
      PROVE  ReplyOnce'
  BY <1>11 DEF ExecutorContinues, ReplyOnce, IInv
<1>12. ASSUME PlannerWrites
      PROVE  ReplyOnce'
  BY <1>12 DEF PlannerWrites, ReplyOnce, IInv
<1> QED
  BY <1>1, <1>2, <1>3, <1>4, <1>5, <1>6, <1>7, <1>8, <1>9, <1>10, <1>11, <1>12, NextIs DEF IInv

\* The running child's Worker owns the lineage.
LEMMA StepOwns == ASSUME IInv, Next PROVE RunningChildOwnsLineage'
<1>1. ASSUME NEW ref \in Refs, NEW c \in Children, NEW g \in Gens, <<ref, c, g>> \in started,
             Accept(ref, c, g)
      PROVE  RunningChildOwnsLineage'
  <2>1. CASE c = owned
    BY <1>1, <2>1, AcceptEffect DEF RunningChildOwnsLineage, Moves, IInv
  <2>2. CASE c # owned
    <3>1. <<ref, c, g>> \in late' /\ <<ref, c, g>>[1] = owner'
      BY <1>1, <2>2, AcceptEffect DEF IInv
    <3> QED
      BY <3>1 DEF RunningChildOwnsLineage
  <2> QED
    BY <2>1, <2>2
<1>2. ASSUME NEW ref \in Refs, NEW c \in Children, NEW g \in Gens, <<ref, c, g>> \in started,
             AcceptAgain(ref, c, g)
      PROVE  RunningChildOwnsLineage'
  BY <1>2 DEF AcceptAgain, head, RunningChildOwnsLineage, IInv
<1>3. ASSUME NEW ref \in Refs, NEW c \in Children, NEW g \in Gens, <<ref, c, g>> \in started,
             Submit(ref, c, g)
      PROVE  RunningChildOwnsLineage'
  BY <1>3 DEF Submit, CommitAction, RunningChildOwnsLineage, IInv
<1>4. ASSUME NEW ref \in Refs, NEW c \in Children, NEW g \in Gens, <<ref, c, g>> \in started,
             Finalize(ref, c, g)
      PROVE  RunningChildOwnsLineage'
  BY <1>4 DEF Finalize, FinalizeOpen, CommitFinalize, RunningChildOwnsLineage, IInv
<1>5. ASSUME NEW ref \in Refs, NEW c \in Children, NEW g \in Gens, Handoff(ref, c, g)
      PROVE  RunningChildOwnsLineage'
  BY <1>5, HandoffIssues DEF Handoff, CommitHandoff, RunningChildOwnsLineage, TypeOK, Issues,
     IInv
<1>6. ASSUME ConsumeTurn
      PROVE  RunningChildOwnsLineage'
  BY <1>6, OwnedIssues DEF RunningChildOwnsLineage, Issues, IInv
<1>7. ASSUME Advance
      PROVE  RunningChildOwnsLineage'
  BY <1>7, OwnedIssues DEF RunningChildOwnsLineage, Issues, IInv
<1>8. ASSUME NEW c \in Children, StartResponse(c)
      PROVE  RunningChildOwnsLineage'
  BY <1>8 DEF StartResponse, head, RunningChildOwnsLineage, IInv
<1>9. ASSUME NEW c \in Children, WorkerReports(c)
      PROVE  RunningChildOwnsLineage'
  BY <1>9, ReportMoves DEF WorkerReports, Elsewhere, RunningChildOwnsLineage, TypeOK, Moves,
     IInv
<1>10. ASSUME NEW c \in Children, RequestRollover(c)
      PROVE  RunningChildOwnsLineage'
  BY <1>10 DEF RequestRollover, Elsewhere, RunningChildOwnsLineage, IInv
<1>11. ASSUME NEW c \in Children, ExecutorContinues(c)
      PROVE  RunningChildOwnsLineage'
  BY <1>11, ExecutorIssues DEF ExecutorContinues, Elsewhere, RunningChildOwnsLineage, TypeOK,
     Issues, IInv
<1>12. ASSUME PlannerWrites
      PROVE  RunningChildOwnsLineage'
  BY <1>12 DEF PlannerWrites, Elsewhere, RunningChildOwnsLineage, IInv
<1> QED
  BY <1>1, <1>2, <1>3, <1>4, <1>5, <1>6, <1>7, <1>8, <1>9, <1>10, <1>11, <1>12, NextIs DEF IInv

-----------------------------------------------------------------------------
(* The theorems.                                                             *)

LEMMA InitIInv == Init => IInv
<1> SUFFICES ASSUME Init PROVE IInv
  OBVIOUS
<1>1. NoDispatch \in Dispatches
  BY ConstantFacts DEF NoDispatch, Dispatches, States, Statuses, Origins
<1>2. TypeOK
  BY <1>1 DEF Init, TypeOK
<1>3. DispatchSound
  BY DEF Init, DispatchSound, NoDispatch
<1> QED
  BY <1>2, <1>3 DEF Init, IInv, AdmissionEarned, OwnerWasAdmitted, CurrentWasAdmitted,
     ReplyBehind, ReplyOnce, RunningChildOwnsLineage

LEMMA NextIInv == IInv /\ [Next]_vars => IInv'
<1> SUFFICES ASSUME IInv, [Next]_vars PROVE IInv'
  OBVIOUS
<1>1. CASE Next
  <2>1. TypeOK /\ DispatchSound
    BY DEF IInv
  <2> QED
    BY <1>1, <2>1, StepTypes, StepSound, StepEarned, StepOwner, StepCurrent, StepBehind,
       StepReply, StepOwns DEF IInv
<1>2. CASE UNCHANGED vars
  BY <1>2 DEF vars, IInv, TypeOK, DispatchSound, AdmissionEarned, OwnerWasAdmitted,
     CurrentWasAdmitted, ReplyBehind, Terminal, ReplyOnce, RunningChildOwnsLineage
<1> QED
  BY <1>1, <1>2

LEMMA InvariantHolds == Spec => []IInv
BY InitIInv, NextIInv, PTL DEF Spec

\* Every variable keeps its type: in particular no generation goes past the bound,
\* although the bound is on the dispatches of all children together.
THEOREM DispatchTypes == Spec => []TypeOK
<1>1. IInv => TypeOK
  BY DEF IInv
<1> QED
  BY <1>1, InvariantHolds, PTL

\* dispatch_accept admits a Worker only for a response that started for exactly
\* that dispatch.
THEOREM AdmissionsAreEarned == Spec => []AdmissionEarned
<1>1. IInv => AdmissionEarned
  BY DEF IInv
<1> QED
  BY <1>1, InvariantHolds, PTL

\* The Worker the Host believes current has its admission on the branch, also when
\* the reply of the push was lost and the accept repeated.
THEOREM HostBelievesAdmissions == Spec => []CurrentWasAdmitted
<1>1. IInv => CurrentWasAdmitted
  BY DEF IInv
<1> QED
  BY <1>1, InvariantHolds, PTL

\* The Child Reply holds a generation once, in order, however often
\* the end of a Worker's turn is finalized.
THEOREM RepliesInOrder == Spec => []ReplyOnce
<1>1. IInv => ReplyOnce
  BY DEF IInv
<1> QED
  BY <1>1, InvariantHolds, PTL

\* Only a child that the Planner let go takes the lineage from the running one.
THEOREM RunningChildKeepsLineage == Spec => []RunningChildOwnsLineage
<1>1. IInv => RunningChildOwnsLineage
  BY DEF IInv
<1> QED
  BY <1>1, InvariantHolds, PTL

-----------------------------------------------------------------------------
(* The refinement of DispatchLifecycle.                                      *)

LEMMA Phases ==
    /\ Phase("NONE") = "none" /\ Phase("READY") = "ready" /\ Phase("RUNNING") = "running"
    /\ Phase("WAIT_RESULT") = "parked"
    /\ \A s \in {"DONE", "BLOCKED", "ERROR"} : Phase(s) = "ended"
BY Zenon DEF Phase

\* A new generation is an Issue.
LEMMA IssuesRefines ==
    ASSUME NEW c \in Children, Issues(c)
    PROVE  Lifecycle!Issue(c)
<1>1. \A b \in Children \ {c} : dispatch'[b] = dispatch[b]
  BY DEF Issues
<1>2. /\ dispatch'[c].gen = dispatch[c].gen + 1 /\ Phase(dispatch'[c].state) = "ready"
      /\ dispatch'[c].acked = NoWorker
  BY Phases DEF Issues
<1> QED
  BY <1>1, <1>2 DEF Lifecycle!Issue

\* An admission is an Admit.
LEMMA AdmitRefines ==
    ASSUME NEW c \in Children, NEW ref \in Refs, dispatch[c].state = "READY",
           Moves(c, "RUNNING", ref)
    PROVE  Lifecycle!Admit(c)
<1>1. \A b \in Children \ {c} : dispatch'[b] = dispatch[b]
  BY DEF Moves
<1>2. /\ dispatch'[c].gen = dispatch[c].gen /\ Phase(dispatch'[c].state) = "running"
      /\ Phase(dispatch[c].state) = "ready" /\ dispatch'[c].acked = ref
  BY Phases DEF Moves
<1> QED
  BY <1>1, <1>2 DEF Lifecycle!Admit

\* The running generation parks or ends.
LEMMA LeaveRefines ==
    ASSUME NEW c \in Children, dispatch[c].state = "RUNNING",
           NEW s \in {"WAIT_RESULT", "DONE", "BLOCKED", "ERROR"}, Moves(c, s, dispatch[c].acked)
    PROVE  Lifecycle!Park(c) \/ Lifecycle!Finish(c)
<1>1. \A b \in Children \ {c} : dispatch'[b] = dispatch[b]
  BY DEF Moves
<1>2. /\ dispatch'[c].gen = dispatch[c].gen /\ dispatch'[c].acked = dispatch[c].acked
      /\ Phase(dispatch[c].state) = "running"
  BY Phases DEF Moves
<1>3. Phase(dispatch'[c].state) \in {"parked", "ended"}
  BY Phases DEF Moves
<1> QED
  BY <1>1, <1>2, <1>3 DEF Lifecycle!Park, Lifecycle!Finish

\* What changes neither generation nor state nor Worker is no step of it.
LEMMA SameRefines ==
    ASSUME \/ dispatch' = dispatch
           \/ \E c \in Children : Moves(c, dispatch[c].state, dispatch[c].acked)
    PROVE  UNCHANGED Lifecycle!vars
<1>1. \A b \in Children : /\ dispatch'[b].gen = dispatch[b].gen
                          /\ dispatch'[b].state = dispatch[b].state
                          /\ dispatch'[b].acked = dispatch[b].acked
  BY DEF Moves
<1> QED
  BY <1>1 DEF Lifecycle!vars

LEMMA InitRefines == Init => Lifecycle!Init
BY Phases DEF Init, NoDispatch, Lifecycle!Init

\* Every step is a step of the life of a dispatch, or none.
LEMMA NextRefines == ASSUME IInv, Next PROVE Lifecycle!Next \/ UNCHANGED Lifecycle!vars
<1>1. ASSUME NEW ref \in Refs, NEW c \in Children, NEW g \in Gens, <<ref, c, g>> \in started,
             Accept(ref, c, g)
      PROVE  Lifecycle!Next \/ UNCHANGED Lifecycle!vars
  <2>1. Moves(c, "RUNNING", ref) /\ dispatch[c].state = "READY"
    BY <1>1, AcceptEffect DEF IInv
  <2> QED
    BY <2>1, AdmitRefines DEF Lifecycle!Next
<1>2. ASSUME NEW ref \in Refs, NEW c \in Children, NEW g \in Gens, <<ref, c, g>> \in started,
             AcceptAgain(ref, c, g)
      PROVE  Lifecycle!Next \/ UNCHANGED Lifecycle!vars
  BY <1>2, SameRefines DEF AcceptAgain, head
<1>3. ASSUME NEW ref \in Refs, NEW c \in Children, NEW g \in Gens, <<ref, c, g>> \in started,
             Submit(ref, c, g)
      PROVE  Lifecycle!Next \/ UNCHANGED Lifecycle!vars
  <2>1. Moves(c, "WAIT_RESULT", dispatch[c].acked) /\ dispatch[c].state = "RUNNING"
    BY <1>3, SubmitMoves DEF Submit, ActionOpen, IInv
  <2> QED
    BY <2>1, LeaveRefines DEF Lifecycle!Next
<1>4. ASSUME NEW ref \in Refs, NEW c \in Children, NEW g \in Gens, <<ref, c, g>> \in started,
             Finalize(ref, c, g)
      PROVE  Lifecycle!Next \/ UNCHANGED Lifecycle!vars
  <2>1. dispatch[c].state = "RUNNING" /\ CommitFinalize(c) /\ dispatch[c].status # "none"
    BY <1>4 DEF Finalize, FinalizeOpen
  <2>2. \E s \in {"DONE", "BLOCKED", "ERROR"} : Moves(c, s, dispatch[c].acked)
    BY <2>1, FinalizeMoves DEF IInv
  <2> QED
    BY <2>1, <2>2, LeaveRefines DEF Lifecycle!Next
<1>5. ASSUME NEW ref \in Refs, NEW c \in Children, NEW g \in Gens, Handoff(ref, c, g)
      PROVE  Lifecycle!Next \/ UNCHANGED Lifecycle!vars
  BY <1>5, HandoffIssues, IssuesRefines DEF IInv, Lifecycle!Next
<1>6. ASSUME ConsumeTurn
      PROVE  Lifecycle!Next \/ UNCHANGED Lifecycle!vars
  BY <1>6, OwnedIssues, IssuesRefines, SameRefines DEF IInv, Lifecycle!Next
<1>7. ASSUME Advance
      PROVE  Lifecycle!Next \/ UNCHANGED Lifecycle!vars
  BY <1>7, OwnedIssues, IssuesRefines DEF IInv, Lifecycle!Next
<1>8. ASSUME NEW c \in Children, StartResponse(c)
      PROVE  Lifecycle!Next \/ UNCHANGED Lifecycle!vars
  BY <1>8, SameRefines DEF StartResponse, head
<1>9. ASSUME NEW c \in Children, WorkerReports(c)
      PROVE  Lifecycle!Next \/ UNCHANGED Lifecycle!vars
  BY <1>9, ReportMoves, SameRefines DEF IInv
<1>10. ASSUME NEW c \in Children, RequestRollover(c)
      PROVE  Lifecycle!Next \/ UNCHANGED Lifecycle!vars
  BY <1>10, SameRefines DEF RequestRollover
<1>11. ASSUME NEW c \in Children, ExecutorContinues(c)
      PROVE  Lifecycle!Next \/ UNCHANGED Lifecycle!vars
  BY <1>11, ExecutorIssues, IssuesRefines DEF IInv, Lifecycle!Next
<1>12. ASSUME PlannerWrites
      PROVE  Lifecycle!Next \/ UNCHANGED Lifecycle!vars
  BY <1>12, SameRefines DEF PlannerWrites
<1> QED
  BY <1>1, <1>2, <1>3, <1>4, <1>5, <1>6, <1>7, <1>8, <1>9, <1>10, <1>11, <1>12, NextIs DEF IInv

LEMMA StepRefines == IInv /\ [Next]_vars => [Lifecycle!Next]_(Lifecycle!vars)
<1> SUFFICES ASSUME IInv, [Next]_vars PROVE Lifecycle!Next \/ UNCHANGED Lifecycle!vars
  OBVIOUS
<1>1. CASE Next
  BY <1>1, NextRefines
<1>2. CASE UNCHANGED vars
  BY <1>2, SameRefines DEF vars
<1> QED
  BY <1>1, <1>2

\* Every behaviour of the calls, the Host, the Workers and the Planner is a life of
\* dispatches: a generation is admitted at most once, to one Worker, and ends at most
\* once.
THEOREM DispatchesLive == Spec => ImplementsLifecycle
BY InitRefines, InvariantHolds, StepRefines, PTL DEF Spec, ImplementsLifecycle, Lifecycle!Spec
===============================================================================
