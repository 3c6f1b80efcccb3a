-------------------------- MODULE DispatchLifecycle --------------------------
(***************************************************************************)
(* What the dispatches of a Worker child promise, whatever the Bridge does *)
(* to get there: each generation is issued once, admitted at most once, by *)
(* one Worker that stays its Worker, may park once and ends at most once;  *)
(* only a newer generation replaces it.                                    *)
(***************************************************************************)
EXTENDS Naturals

CONSTANTS
    Children,   \* child tasks of the parent
    Refs,       \* Worker references
    NoWorker    \* nobody

VARIABLES
    generation, \* generation[c]: the current generation of child c, 0: none yet
    phase,      \* phase[c]: how far that generation is
    worker      \* worker[c]: the Worker admitted to it

vars == <<generation, phase, worker>>

Init ==
    /\ generation = [c \in Children |-> 0]
    /\ phase = [c \in Children |-> "none"]
    /\ worker = [c \in Children |-> NoWorker]

Issue(c) ==
    /\ generation' = [generation EXCEPT ![c] = @ + 1]
    /\ phase' = [phase EXCEPT ![c] = "ready"]
    /\ worker' = [worker EXCEPT ![c] = NoWorker]

Admit(c) ==
    /\ phase[c] = "ready"
    /\ phase' = [phase EXCEPT ![c] = "running"]
    /\ \E r \in Refs : worker' = [worker EXCEPT ![c] = r]
    /\ UNCHANGED generation

Park(c) ==
    /\ phase[c] = "running"
    /\ phase' = [phase EXCEPT ![c] = "parked"]
    /\ UNCHANGED <<generation, worker>>

Finish(c) ==
    /\ phase[c] = "running"
    /\ phase' = [phase EXCEPT ![c] = "ended"]
    /\ UNCHANGED <<generation, worker>>

Next == \E c \in Children : Issue(c) \/ Admit(c) \/ Park(c) \/ Finish(c)

Spec == Init /\ [][Next]_vars

=============================================================================
