----------------------------- MODULE GitSnapshot -----------------------------
(***************************************************************************)
(* The Bridge's shared view of the remote branch (local_bridge/            *)
(* git_snapshot.py and the read scopes of server.py): many request threads *)
(* read one cached commit, forced reads coalesce behind the Git lock, and  *)
(* the transactions that push under the same lock record or discard it.    *)
(* Commits of the branch are numbered in push order; time is two flags,    *)
(* "the cached commit is unexpired" and "the failure backoff still runs".  *)
(***************************************************************************)
EXTENDS Naturals

CONSTANTS
    Threads,     \* request threads of the Bridge
    None,        \* Python's None
    NoThread,    \* the lock is free
    NoScope,     \* the thread is in no read scope
    Raised,      \* the call raised the stored error
    MaxCommits   \* bound: commits pushed to the branch in a behaviour

Commits == 0..MaxCommits

ASSUME GitSnapshotAssumption ==
    /\ MaxCommits \in Nat
    /\ NoThread \notin Threads
    /\ None \notin Commits /\ NoScope \notin Commits \cup {None}
    /\ Raised \notin Commits \cup {None}

VARIABLES
    remote,     \* the head of the remote branch
    sha,        \* _sha
    hint,       \* the commit of _hint (its expiry is _expires_at: fresh)
    fresh,      \* now < _expires_at
    error,      \* _error is set
    backoff,    \* now < _retry_at
    lock,       \* owner of git_lock
    call,       \* call[t]: what thread t does, and how far it is
    moved,      \* moved[t]: _version differs from the one t read before locking
    scope,      \* scope[t]: the commit t's read scope pins
    answer,     \* answer[t]: what t's last read returned
    pushed,     \* history: the last commit this Bridge got onto the branch
    seen,       \* history: the newest commit a completed shared read returned
    floor       \* floor[t]: pushed, seen, and whether a refresh has failed since t's call

snap == <<sha, hint, fresh, error, backoff>>
vars == <<remote, sha, hint, fresh, error, backoff, lock, call, moved, scope,
          answer, pushed, seen, floor>>

Calls == [op : {"none", "pinned", "peek", "read", "force", "push"},
          step : {"idle", "waiting", "fetching", "fetched", "pushing", "confirmed", "unknown"},
          got : Commits \cup {None}]

Idle == [op |-> "none", step |-> "idle", got |-> None]

Holding == {"fetching", "fetched", "pushing", "confirmed", "unknown"}

\* Types, and what git_lock is for: one thread at a time is at a fetch or push.
TypeOK ==
    /\ \A t \in Threads : call[t].step \in Holding <=> lock = t
    /\ hint # None => hint = sha
    /\ remote \in Commits
    /\ sha \in Commits \cup {None} /\ hint \in Commits \cup {None}
    /\ fresh \in BOOLEAN /\ error \in BOOLEAN /\ backoff \in BOOLEAN
    /\ lock \in Threads \cup {NoThread}
    /\ call \in [Threads -> Calls]
    /\ moved \in [Threads -> BOOLEAN]
    /\ scope \in [Threads -> Commits \cup {None, NoScope}]
    /\ answer \in [Threads -> Commits \cup {None, Raised}]
    /\ pushed \in Commits /\ seen \in Commits
    /\ floor \in [Threads -> [pushed : Commits, seen : Commits, failed : BOOLEAN]]

Init ==
    /\ remote = 0 /\ pushed = 0 /\ seen = 0
    /\ sha = None /\ hint = None
    /\ fresh = FALSE /\ error = FALSE /\ backoff = FALSE
    /\ lock = NoThread
    /\ call = [t \in Threads |-> Idle]
    /\ moved = [t \in Threads |-> FALSE]
    /\ scope = [t \in Threads |-> NoScope]
    /\ answer = [t \in Threads |-> None]
    /\ floor = [t \in Threads |-> [pushed |-> 0, seen |-> 0, failed |-> FALSE]]

Is(t, op, step) == call[t].op = op /\ call[t].step = step

Goto(t, step, got) == call' = [call EXCEPT ![t].step = step, ![t].got = got]

-----------------------------------------------------------------------------
(* What the methods do to the cache.                                        *)

Bump == moved' = [t \in Threads |-> TRUE]

Record(commit) ==
    /\ sha' = commit /\ hint' = commit
    /\ fresh' = TRUE /\ backoff' = FALSE /\ error' = FALSE
    /\ Bump

\* The except branch of read: the old _sha stays, but it has expired.
RecordFailure ==
    /\ hint' = None /\ fresh' = FALSE
    /\ error' = TRUE /\ backoff' = TRUE
    /\ Bump
    /\ UNCHANGED sha

\* invalidate forgets the commit and keeps _error and _retry_at.
Invalidate ==
    /\ hint' = None /\ sha' = None /\ fresh' = FALSE
    /\ Bump
    /\ UNCHANGED <<error, backoff>>

\* A scope follows what its thread's reads and pushes find out.
Rescope(t, commit) ==
    scope' = IF scope[t] = NoScope THEN scope ELSE [scope EXCEPT ![t] = commit]

\* The read of t ends: with a commit, or with the stored error.
Return(t, commit) ==
    /\ answer' = [answer EXCEPT ![t] = commit]
    /\ call' = [call EXCEPT ![t].step = "idle"]
    /\ seen' = IF commit > seen THEN commit ELSE seen
    /\ Rescope(t, commit)

Raise(t) ==
    /\ answer' = [answer EXCEPT ![t] = Raised]
    /\ call' = [call EXCEPT ![t].step = "idle"]
    /\ UNCHANGED seen
    /\ Rescope(t, None)

-----------------------------------------------------------------------------
(* read                                                                     *)

\* The version is read before the lock is asked for.
Begin(t, op) ==
    /\ call[t].step = "idle"
    /\ op = "read" => scope[t] \in {NoScope, None}
    /\ call' = [call EXCEPT ![t] = [op |-> op, step |-> "waiting", got |-> None]]
    /\ moved' = [moved EXCEPT ![t] = FALSE]
    /\ floor' = [floor EXCEPT ![t] = [pushed |-> pushed, seen |-> seen, failed |-> FALSE]]
    /\ answer' = [answer EXCEPT ![t] = None]
    /\ UNCHANGED <<remote, snap, lock, scope, pushed, seen>>

\* In a scope an ordinary read is answered without the lock.
ReadPinned(t) ==
    /\ call[t].step = "idle" /\ scope[t] \in Commits
    /\ answer' = [answer EXCEPT ![t] = scope[t]]
    /\ call' = [call EXCEPT ![t] = [Idle EXCEPT !.op = "pinned"]]
    /\ UNCHANGED <<remote, snap, lock, moved, scope, pushed, seen, floor>>

\* peek: an unexpired hint, without the lock.
Peek(t) ==
    /\ call[t].step = "idle" /\ hint # None /\ fresh
    /\ answer' = [answer EXCEPT ![t] = hint]
    /\ call' = [call EXCEPT ![t] = [Idle EXCEPT !.op = "peek"]]
    /\ seen' = IF hint > seen THEN hint ELSE seen
    /\ floor' = [floor EXCEPT ![t].seen = seen]
    /\ UNCHANGED <<remote, snap, lock, moved, scope, pushed>>

\* Mutant: a forced read takes whatever the cache holds.
JoinsAnyCached(t) == Is(t, "force", "waiting") /\ (error \/ sha # None)

\* A forced read that queued behind a change of the cache uses its outcome.
Joins(t) == Is(t, "force", "waiting") /\ moved[t] /\ (error \/ sha # None)
Cached(t) == Is(t, "read", "waiting") /\ sha # None /\ fresh
BackedOff(t) == Is(t, "read", "waiting") /\ ~Cached(t) /\ error /\ backoff

ReadShared(t) ==
    /\ lock = NoThread
    /\ (Joins(t) /\ ~error) \/ Cached(t)
    /\ Return(t, sha)
    /\ UNCHANGED <<remote, snap, lock, moved, pushed, floor>>

ReadSharedError(t) ==
    /\ lock = NoThread
    /\ (Joins(t) /\ error) \/ BackedOff(t)
    /\ Raise(t)
    /\ UNCHANGED <<remote, snap, lock, moved, pushed, floor>>

\* Mutant: the fetch runs without the lock, as peek does.
ReadRefreshUnlocked(t) ==
    /\ lock = NoThread
    /\ Is(t, "read", "waiting") \/ Is(t, "force", "waiting")
    /\ ~Joins(t) /\ ~Cached(t) /\ ~BackedOff(t)
    /\ Goto(t, "fetching", None)
    /\ UNCHANGED <<remote, snap, lock, moved, scope, answer, pushed, seen, floor>>

ReadRefresh(t) ==
    /\ lock = NoThread
    /\ Is(t, "read", "waiting") \/ Is(t, "force", "waiting")
    /\ ~Joins(t) /\ ~Cached(t) /\ ~BackedOff(t)
    /\ lock' = t
    /\ Goto(t, "fetching", None)
    /\ UNCHANGED <<remote, snap, moved, scope, answer, pushed, seen, floor>>

\* The remote answers the fetch at one instant; the answer arrives later.
RefreshAnswered(t) ==
    /\ call[t].step = "fetching"
    /\ Goto(t, "fetched", remote)
    /\ UNCHANGED <<remote, snap, lock, moved, scope, answer, pushed, seen, floor>>

RefreshDone(t) ==
    /\ call[t].step = "fetched"
    /\ Record(call[t].got)
    /\ Return(t, call[t].got)
    /\ lock' = NoThread
    /\ UNCHANGED <<remote, pushed, floor>>

\* Mutant: the lock is not released when the fetch raises.
RefreshFailedLocked(t) ==
    /\ call[t].step \in {"fetching", "fetched"}
    /\ RecordFailure
    /\ Raise(t)
    /\ floor' = [u \in Threads |-> [floor[u] EXCEPT !.failed = TRUE]]
    /\ UNCHANGED <<remote, pushed, lock>>

RefreshFailed(t) ==
    /\ call[t].step \in {"fetching", "fetched"}
    /\ RecordFailure
    /\ Raise(t)
    /\ lock' = NoThread
    /\ floor' = [u \in Threads |-> [floor[u] EXCEPT !.failed = TRUE]]
    /\ UNCHANGED <<remote, pushed>>

-----------------------------------------------------------------------------
(* A transaction: fetch directly, build a commit, push it as a fast-forward,*)
(* then record it, or discard the cache when the outcome is unknown.        *)

PushBase(t) ==
    /\ Is(t, "push", "waiting") /\ lock = NoThread
    /\ lock' = t
    /\ Goto(t, "pushing", remote)
    /\ UNCHANGED <<remote, snap, moved, scope, answer, pushed, seen, floor>>

\* The remote accepts the commit; the reply arrives, or is lost.
PushAccepted(t) ==
    /\ call[t].step = "pushing" /\ call[t].got = remote /\ remote < MaxCommits
    /\ remote' = remote + 1 /\ pushed' = remote + 1
    /\ \E step \in {"confirmed", "unknown"} : Goto(t, step, remote + 1)
    /\ UNCHANGED <<snap, lock, moved, scope, answer, seen, floor>>

\* Not a fast-forward, or the remote was never reached.
\* Mutant: a rejected push is recorded like an accepted one.
PushFailedRecorded(t) ==
    /\ call[t].step = "pushing" /\ call[t].got < MaxCommits
    /\ Goto(t, "confirmed", call[t].got + 1)
    /\ UNCHANGED <<remote, snap, lock, moved, scope, answer, pushed, seen, floor>>

PushFailed(t) ==
    /\ call[t].step = "pushing"
    /\ Goto(t, "unknown", None)
    /\ UNCHANGED <<remote, snap, lock, moved, scope, answer, pushed, seen, floor>>

PushRecord(t) ==
    /\ call[t].step = "confirmed"
    /\ Record(call[t].got)
    /\ Goto(t, "idle", None)
    /\ Rescope(t, call[t].got)
    /\ lock' = NoThread
    /\ UNCHANGED <<remote, answer, pushed, seen, floor>>

\* worker_retry.py pushes without telling the cache.
PushUnrecorded(t) ==
    /\ call[t].step \in {"confirmed", "unknown"}
    /\ Goto(t, "idle", None)
    /\ lock' = NoThread
    /\ UNCHANGED <<remote, snap, moved, scope, answer, pushed, seen, floor>>

PushUnknown(t) ==
    /\ call[t].step = "unknown"
    /\ Invalidate
    /\ Goto(t, "idle", None)
    /\ Rescope(t, None)
    /\ lock' = NoThread
    /\ UNCHANGED <<remote, answer, pushed, seen, floor>>

-----------------------------------------------------------------------------
(* Read scopes, time and the other writers of the branch.                   *)

\* control_poll opens a scope empty, observed_control_status at confirmed().
EnterScope(t) ==
    /\ call[t].step = "idle" /\ scope[t] = NoScope
    /\ \E commit \in {None, hint} : scope' = [scope EXCEPT ![t] = commit]
    /\ UNCHANGED <<remote, snap, lock, call, moved, answer, pushed, seen, floor>>

LeaveScope(t) ==
    /\ call[t].step = "idle" /\ scope[t] # NoScope
    /\ scope' = [scope EXCEPT ![t] = NoScope]
    /\ UNCHANGED <<remote, snap, lock, call, moved, answer, pushed, seen, floor>>

Tick ==
    /\ \/ fresh /\ fresh' = FALSE /\ UNCHANGED backoff
       \/ backoff /\ backoff' = FALSE /\ UNCHANGED fresh
    /\ UNCHANGED <<remote, sha, hint, error, lock, call, moved, scope, answer, pushed, seen, floor>>

OtherWriter ==
    /\ remote < MaxCommits
    /\ remote' = remote + 1
    /\ UNCHANGED <<snap, lock, call, moved, scope, answer, pushed, seen, floor>>

Step(t) ==
    \/ \E op \in {"read", "force", "push"} : Begin(t, op)
    \/ ReadPinned(t) \/ Peek(t)
    \/ ReadShared(t) \/ ReadSharedError(t) \/ ReadRefresh(t)
    \/ RefreshAnswered(t) \/ RefreshDone(t) \/ RefreshFailed(t)
    \/ PushBase(t) \/ PushAccepted(t) \/ PushFailed(t)
    \/ PushRecord(t) \/ PushUnrecorded(t) \/ PushUnknown(t)
    \/ EnterScope(t) \/ LeaveScope(t)

Next == (\E t \in Threads : Step(t)) \/ Tick \/ OtherWriter

Spec == Init /\ [][Next]_vars

-----------------------------------------------------------------------------
(* Correctness.                                                             *)

\* Whatever the cache, a scope or a caller holds is a commit of the branch: a
\* push whose outcome is unknown or a rejection never shows up as canonical.
PublishedOnly ==
    \A commit \in {sha, hint} \cup {scope[t] : t \in Threads} \cup {answer[t] : t \in Threads} :
        commit \in Commits => commit <= remote

\* Shared reads never go back: a read or peek that starts after another one
\* returned does not answer an older commit, in any thread.
SharedReadsMonotone ==
    \A t \in Threads :
        call[t].op \in {"peek", "read", "force"} /\ answer[t] \in Commits
            => answer[t] >= floor[t].seen

\* A forced read is a transaction input: even one that coalesced sees every
\* commit this Bridge had pushed before the call, recorded or not, and also a
\* push whose reply was lost.
ForcedSeesOwnPushes ==
    \A t \in Threads :
        call[t].op = "force" /\ answer[t] \in Commits => answer[t] >= floor[t].pushed

\* Within one read scope the pinned commit only moves forward.
ScopeNeverRewinds ==
    [][\A t \in Threads :
          scope[t] \in Commits /\ scope'[t] \in Commits => scope'[t] >= scope[t]]_vars

\* What the comment in read says: a queued caller shares the outcome, failure
\* included, of the refresh it queued behind.  So a forced read raises only when
\* a refresh failed during the call.
ForcedFailureIsShared ==
    \A t \in Threads :
        call[t].op = "force" /\ answer[t] = Raised => floor[t].failed

=============================================================================
