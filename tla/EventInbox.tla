----------------------------- MODULE EventInbox -----------------------------
(***************************************************************************)
(* What a Task Cell promises about its events, whatever prompts, dispatches*)
(* and rotations it takes to get there.  One turn is open at a time; it    *)
(* belongs to one generation of the Planner and to a set of events.  An    *)
(* event waits, belongs to the open turn, and is consumed by its outcome.  *)
(* A generation that gives up passes its events, and all that wait, on to  *)
(* the next one, which answers from a blank sheet.                         *)
(***************************************************************************)
EXTENDS Naturals

CONSTANTS
    Events,
    Outcomes  \* what a turn may end with

VARIABLES
    state,    \* state[e]: where event e is
    turn,     \* the open turn: whose it is, and its events
    answer,   \* the outcome written for it
    gen,      \* the generation that answers
    closed    \* no more turns for events

vars == <<state, turn, answer, gen, closed>>

NoTurn == [gen |-> 0, events |-> {}]
Waiting == {e \in Events : state[e] = "PENDING"}

Init ==
    /\ state = [e \in Events |-> "ABSENT"]
    /\ turn = [gen |-> 1, events |-> {}] /\ answer = ""
    /\ gen = 1 /\ closed = FALSE

Raise(e) ==
    /\ state[e] = "ABSENT"
    /\ state' = [state EXCEPT ![e] = "PENDING"]
    /\ UNCHANGED <<turn, answer, gen, closed>>

Answer(outcome) ==
    /\ turn # NoTurn /\ answer = "" /\ answer' = outcome
    /\ UNCHANGED <<state, turn, gen, closed>>

Give(g, E) ==
    /\ state' = [e \in Events |-> IF e \in E THEN "CLAIMED" ELSE state[e]]
    /\ turn' = [gen |-> g, events |-> E] /\ answer' = ""
    /\ UNCHANGED closed

Open(E) ==
    /\ ~closed /\ turn = NoTurn
    /\ E # {}
    /\ Give(gen, E) /\ UNCHANGED gen

PassOn ==
    /\ Give(gen + 1, Waiting \cup turn.events)
    /\ gen' = gen + 1

Consume ==
    /\ turn # NoTurn /\ turn' = NoTurn /\ answer' = ""
    /\ state' = [e \in Events |-> IF e \in turn.events THEN "CONSUMED" ELSE state[e]]
    /\ UNCHANGED gen

Commit == answer \in Outcomes \ {"COMPLETE", "ERROR"} /\ Consume /\ UNCHANGED closed

Fail == answer = "ERROR" /\ Consume /\ closed' = TRUE

\* The end drops whatever is left, after COMPLETE or for a task that is closed.
End ==
    /\ closed \/ (turn # NoTurn /\ answer = "COMPLETE")
    /\ state' = [e \in Events |-> "ABSENT"]
    /\ turn' = NoTurn /\ answer' = "" /\ closed' = TRUE
    /\ UNCHANGED gen

Next ==
    \/ \E e \in Events : Raise(e)
    \/ \E outcome \in Outcomes \cup {"HANDOFF"} : Answer(outcome)
    \/ \E E \in SUBSET Waiting : Open(E)
    \/ PassOn \/ Commit \/ Fail \/ End

Spec == Init /\ [][Next]_vars

=============================================================================
