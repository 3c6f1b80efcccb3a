------------------------------ MODULE Publisher ------------------------------
(***************************************************************************)
(* The transport of the runners (harness/git_publish.py, git_process.py):  *)
(* a runner has committed a change in its workspace and publishes it to    *)
(* the canonical branch by fetch, rebase and push.  Other writers push     *)
(* meanwhile; a push can be refused, its answer can be lost, and the remote*)
(* can serve a push after the runner stopped waiting for it.               *)
(* The commit a runner pushes is identified by its change and its parent,  *)
(* so <<r, b>> is change r on top of the first b commits of the branch.    *)
(***************************************************************************)
EXTENDS Naturals, Sequences, FiniteSets

CONSTANTS
    Runners,      \* jobs, each with one committed change to publish
    Peers,        \* commits other writers push to the same branch
    Paths,        \* files
    Touches,      \* Touches[c]: the files the change c writes
    MaxTries,     \* the attempts of publish()
    MaxNetFaults  \* bound: lost answers and failed commands in a behaviour

ASSUME PublisherAssumption ==
    /\ Runners \cap Peers = {}
    /\ Touches \in [Runners \cup Peers -> SUBSET Paths]
    /\ MaxTries \in Nat \ {0}
    /\ MaxNetFaults \in Nat

VARIABLES
    trunk,    \* the canonical branch: the changes on it, in order
    publish,  \* publish[r]: the call of runner r
    wire,     \* pushes the remote has received, served or not
    netFaults \* faults so far

publisherVars == <<trunk, publish, wire, netFaults>>

Leftovers == {"none", "abortable", "metadata", "active"}
Reported  == {"ok", "failed", "unknown"}
Phases    == {"start", "fetch", "push", "wait", "confirm"} \cup Reported

\* base: the length of the branch the change was last put on; own: the change
\* is still a commit of its own there; unsure: a push of the call timed out;
\* cause: why the call confirms; leftover, owned: what an earlier job left.
Calls == [at : Phases, base : Nat, own : BOOLEAN, tries : 0..MaxTries,
          unsure : BOOLEAN, cause : {"none", "timeout", "broken"},
          leftover : Leftovers, owned : BOOLEAN]

Requests == [by : Runners, base : Nat, own : BOOLEAN, answer : {"none", "ok", "rejected"}]

PublisherTypeOK ==
    /\ trunk \in Seq(Runners \cup Peers)
    /\ publish \in [Runners -> Calls]
    /\ wire \subseteq Requests
    /\ netFaults \in 0..MaxNetFaults

On(r) == \E i \in DOMAIN trunk : trunk[i] = r

\* Mutant of Holds: the branch has moved on, to whatever commit.
HoldsAny(r) == publish[r].own => Len(trunk) > publish[r].base

\* The head <<r, b>> of the runner is an ancestor of the branch.
Holds(r) ==
    LET p == publish[r] IN
    p.own => Len(trunk) > p.base /\ trunk[p.base + 1] = r

Fault == netFaults < MaxNetFaults /\ netFaults' = netFaults + 1

Goes(r, to) == publish' = [publish EXCEPT ![r].at = to]

PublisherInit ==
    /\ trunk = << >>
    /\ publish \in [Runners -> [at : {"start"}, base : {0}, own : {TRUE}, tries : {0},
                                unsure : {FALSE}, cause : {"none"},
                                leftover : Leftovers, owned : BOOLEAN]]
    /\ wire = {}
    /\ netFaults = 0

\* Metadata of a rebase an earlier job left: abort it, remove what remains only
\* in a workspace of the harness that has no active rebase, else refuse.
Recover(r) ==
    /\ publish[r].at = "start"
    /\ LET p == publish[r]
           cleared == \/ p.leftover \in {"none", "abortable"}
                      \/ p.leftover = "metadata" /\ p.owned
       IN  publish' = [publish EXCEPT ![r].at = IF cleared THEN "fetch" ELSE "failed",
                                      ![r].leftover = IF cleared THEN "none" ELSE @]
    /\ UNCHANGED <<trunk, wire, netFaults>>

Conflicts(r) ==
    \E i \in (publish[r].base + 1)..Len(trunk) : Touches[trunk[i]] \cap Touches[r] # {}

\* Fetch the branch and rebase: a change that is there already is dropped; a
\* conflict is aborted and reported.
FetchRebase(r) ==
    /\ publish[r].at = "fetch"
    /\ IF On(r) \/ ~publish[r].own \/ ~Conflicts(r)
       THEN publish' = [publish EXCEPT ![r].at = "push",
                                       ![r].tries = @ + 1,
                                       ![r].base = Len(trunk),
                                       ![r].own = @ /\ ~On(r)]
       ELSE Goes(r, "failed")
    /\ UNCHANGED <<trunk, wire, netFaults>>

\* fetch fails or times out (nothing was changed), or rebase times out.
LocalCommandFails(r) ==
    /\ publish[r].at = "fetch"
    /\ Fault
    /\ \E to \in {"failed", "unknown"} : Goes(r, to)
    /\ UNCHANGED <<trunk, wire>>

Push(r) ==
    /\ publish[r].at = "push"
    /\ LET p == publish[r] IN
       wire' = {q \in wire : ~(q.by = r /\ q.base = p.base)}
               \cup {[by |-> r, base |-> p.base, own |-> p.own, answer |-> "none"]}
    /\ Goes(r, "wait")
    /\ UNCHANGED <<trunk, netFaults>>

\* The remote serves a push: a fast-forward, a commit it has as its head
\* already, or a rejection.
Serve(q) ==
    /\ q \in wire /\ q.answer = "none"
    /\ LET forward == Len(trunk) = q.base
           there   == q.own /\ Len(trunk) = q.base + 1 /\ trunk[q.base + 1] = q.by
       IN  /\ trunk' = IF forward /\ q.own THEN Append(trunk, q.by) ELSE trunk
           /\ wire' = (wire \ {q}) \cup
                      {[q EXCEPT !.answer = IF forward \/ there THEN "ok" ELSE "rejected"]}
    /\ UNCHANGED <<publish, netFaults>>

\* Mutant of Answer: one attempt more than there are.
AnswerLate(r, q) ==
    /\ publish[r].at = "wait"
    /\ q \in wire /\ q.by = r /\ q.base = publish[r].base /\ q.answer # "none"
    /\ wire' = wire \ {q}
    /\ Goes(r, IF q.answer = "ok" THEN "ok"
               ELSE IF publish[r].tries <= MaxTries THEN "fetch" ELSE "failed")
    /\ UNCHANGED <<trunk, netFaults>>

Answer(r, q) ==
    /\ publish[r].at = "wait"
    /\ q \in wire /\ q.by = r /\ q.base = publish[r].base /\ q.answer # "none"
    /\ wire' = wire \ {q}
    /\ Goes(r, IF q.answer = "ok" THEN "ok"
               ELSE IF publish[r].tries < MaxTries THEN "fetch" ELSE "failed")
    /\ UNCHANGED <<trunk, netFaults>>

\* The answer does not come in time: the push may still be served.
AnswerTimesOut(r) ==
    /\ publish[r].at = "wait"
    /\ Fault
    /\ publish' = [publish EXCEPT ![r].at = "confirm", ![r].cause = "timeout", ![r].unsure = TRUE]
    /\ UNCHANGED <<trunk, wire>>

\* The connection breaks: a push served before is served, another is lost.
AnswerBreaks(r) ==
    /\ publish[r].at = "wait"
    /\ Fault
    /\ publish' = [publish EXCEPT ![r].at = "confirm", ![r].cause = "broken"]
    /\ wire' = {q \in wire : ~(q.by = r /\ q.base = publish[r].base)}
    /\ UNCHANGED trunk

\* remote_contains_commit and the decision on it.
Confirm(r) ==
    /\ publish[r].at = "confirm"
    /\ LET p == publish[r] IN
       Goes(r, IF Holds(r) THEN "ok"
               ELSE IF p.cause = "broken" THEN "failed"
               ELSE IF p.tries < MaxTries THEN "fetch" ELSE "unknown")
    /\ UNCHANGED <<trunk, wire, netFaults>>

ConfirmFails(r) ==
    /\ publish[r].at = "confirm"
    /\ Fault
    /\ Goes(r, "unknown")
    /\ UNCHANGED <<trunk, wire>>

PeerPush(c) ==
    /\ ~On(c)
    /\ trunk' = Append(trunk, c)
    /\ UNCHANGED <<publish, wire, netFaults>>

PublisherNext ==
    \/ \E r \in Runners :
         \/ Recover(r)
         \/ FetchRebase(r)
         \/ LocalCommandFails(r)
         \/ Push(r)
         \/ \E q \in wire : Answer(r, q)
         \/ AnswerTimesOut(r)
         \/ AnswerBreaks(r)
         \/ Confirm(r)
         \/ ConfirmFails(r)
    \/ \E q \in wire : Serve(q)
    \/ \E c \in Peers : PeerPush(c)

PublisherSpec == PublisherInit /\ [][PublisherNext]_publisherVars

-----------------------------------------------------------------------------
\* publish() tells the job the truth, although it pushes again after an unknown
\* outcome and the remote may serve the older push late: a change is on the
\* branch at most once; ok is reported only for a change that is there, a plain
\* failure, of which the job stops, only for one that is not, unless a push of
\* the call timed out (git_publish.py: an ambiguous outcome is resolved through
\* Git before it is reported or retried).
PublishHonest ==
    \A r \in Runners :
        /\ Cardinality({i \in DOMAIN trunk : trunk[i] = r}) <= 1
        /\ publish[r].at = "ok" => On(r)
        /\ publish[r].at = "failed" /\ ~publish[r].unsure => ~On(r)
=============================================================================
