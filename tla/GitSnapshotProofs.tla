-------------------------- MODULE GitSnapshotProofs --------------------------
(***************************************************************************)
(* Proofs about the shared Git snapshot, for any set of request threads and*)
(* any number of commits.  What reads return is published, never goes back *)
(* and, for a transaction's input, holds everything this Bridge has pushed.*)
(* The argument is an order: remote is at least what a lock holder has     *)
(* fetched, which is at least the cache, which is at least every scope and *)
(* every shared answer.                                                    *)
(***************************************************************************)
EXTENDS GitSnapshot, TLAPS

\* TypeOK in two parts: one holder of the Git lock, and the types.
OneHolder == \A t \in Threads : call[t].step \in Holding <=> lock = t

Types ==
    /\ hint # None => hint = sha
    /\ remote \in Commits
    /\ sha \in Commits \cup {None} /\ hint \in Commits \cup {None}
    /\ fresh \in BOOLEAN /\ error \in BOOLEAN /\ backoff \in BOOLEAN
    /\ lock \in Threads \cup {NoThread}
    /\ call \in [Threads -> Calls]
    /\ moved \in [Threads -> BOOLEAN]
    /\ scope \in [Threads -> Commits \cup {None, NoScope}]
    /\ answer \in [Threads -> Commits \cup {None, Raised}]
    /\ pushed \in Commits /\ seen \in Commits
    /\ floor \in [Threads -> [pushed : Commits, seen : Commits, failed : BOOLEAN]]

\* The types of all but the calls.
CacheTypes ==
    /\ hint # None => hint = sha
    /\ remote \in Commits
    /\ sha \in Commits \cup {None} /\ hint \in Commits \cup {None}
    /\ fresh \in BOOLEAN /\ error \in BOOLEAN /\ backoff \in BOOLEAN
    /\ lock \in Threads \cup {NoThread}
    /\ moved \in [Threads -> BOOLEAN]
    /\ scope \in [Threads -> Commits \cup {None, NoScope}]
    /\ answer \in [Threads -> Commits \cup {None, Raised}]
    /\ pushed \in Commits /\ seen \in Commits
    /\ floor \in [Threads -> [pushed : Commits, seen : Commits, failed : BOOLEAN]]

\* What a lock holder carries as a commit of the branch.
Carries(t) == call[t].step \in {"fetched", "confirmed"}

\* A commit is at least as new as the cache, the scopes and the answers.
Newest(commit) ==
    /\ commit \in Commits
    /\ seen <= commit
    /\ \A t \in Threads : scope[t] \in Commits => scope[t] <= commit

\* Nothing is newer than the branch.
Bounded ==
    /\ seen <= remote /\ pushed <= remote
    /\ sha \in Commits => sha <= remote
    /\ \A t \in Threads :
         /\ scope[t] \in Commits => scope[t] <= remote
         /\ answer[t] \in Commits => answer[t] <= remote
         /\ Carries(t) => call[t].got \in Commits /\ call[t].got <= remote

\* The cache is the newest commit anybody was told of.
CacheIsNewest == sha # None => Newest(sha)

\* What was fetched or pushed under the lock is newer than the cache it will
\* replace, and holds everything this Bridge has pushed.
CarriedIsNewest ==
    \A t \in Threads :
        Carries(t) => /\ Newest(call[t].got)
                      /\ pushed <= call[t].got
                      /\ sha # None => sha <= call[t].got

\* What a call must not go behind was true when it began.
FloorsHeld == \A t \in Threads : floor[t].seen <= seen /\ floor[t].pushed <= pushed

\* A queued forced read that finds a changed cache without an error finds there
\* what had been pushed before it was called.
QueuedSees ==
    \A t \in Threads :
        call[t].step = "waiting" /\ moved[t] /\ ~error /\ sha # None => floor[t].pushed <= sha

\* The inductive invariant.
IInv ==
    /\ OneHolder
    /\ Types
    /\ Bounded
    /\ CacheIsNewest
    /\ CarriedIsNewest
    /\ FloorsHeld
    /\ QueuedSees
    /\ SharedReadsMonotone
    /\ ForcedSeesOwnPushes

-----------------------------------------------------------------------------
\* Types, and the Git lock.

LEMMA ConstantFacts ==
    /\ MaxCommits \in Nat /\ 0 \in Commits
    /\ \A c \in Commits : c \in Nat /\ c <= MaxCommits
    /\ \A c \in Nat : c <= MaxCommits => c \in Commits
    /\ NoThread \notin Threads
    /\ None \notin Commits /\ NoScope \notin Commits \cup {None}
    /\ Raised \notin Commits \cup {None}
BY GitSnapshotAssumption DEF Commits

\* One commit more than the head fits in the bound.
LEMMA NextCommit ==
    ASSUME remote \in Commits, remote < MaxCommits
    PROVE  remote + 1 \in Commits /\ remote \in Nat
<1>1. remote \in Nat /\ MaxCommits \in Nat
  BY ConstantFacts
<1> QED
  BY <1>1 DEF Commits

\* How far calls are.
CallSteps == {"idle", "waiting", "fetching", "fetched", "pushing", "confirmed", "unknown"}

LEMMA GotoEffect ==
    ASSUME call \in [Threads -> Calls], NEW t \in Threads, NEW step \in CallSteps,
           NEW got \in Commits \cup {None}, Goto(t, step, got)
    PROVE  /\ call' \in [Threads -> Calls]
           /\ call'[t].step = step /\ call'[t].got = got /\ call'[t].op = call[t].op
           /\ \A u \in Threads \ {t} : call'[u] = call[u]
<1>1. call[t] \in Calls
  OBVIOUS
<1> DEFINE new == [call[t] EXCEPT !.step = step, !.got = got]
<1>2. new \in Calls /\ new.step = step /\ new.got = got /\ new.op = call[t].op
  BY <1>1 DEF Calls, CallSteps
<1>3. call' = [call EXCEPT ![t] = new]
  BY DEF Goto
<1> HIDE DEF new
<1> QED
  BY <1>2, <1>3

\* Calls stay calls.
LEMMA StepCalls ==
    ASSUME Types, NEW t \in Threads, Step(t)
    PROVE  (call \in [Threads -> Calls])'
<1>1. ASSUME NEW op \in {"read", "force", "push"}, Begin(t, op) PROVE (call \in [Threads -> Calls])'
  BY <1>1 DEF Begin, snap, Types, Calls
<1>2. CASE ReadPinned(t)
  BY <1>2 DEF ReadPinned, Idle, snap, Types, Calls
<1>3. CASE Peek(t)
  BY <1>3 DEF Peek, Idle, snap, Types, Calls
<1>4. CASE ReadShared(t)
  BY <1>4 DEF ReadShared, Joins, Cached, Is, Return, Rescope, snap, Types, Calls
<1>5. CASE ReadSharedError(t)
  BY <1>5 DEF ReadSharedError, Joins, BackedOff, Is, Raise, Rescope, snap, Types, Calls
<1>6. CASE ReadRefresh(t)
  BY ConstantFacts, <1>6, GotoEffect, NextCommit DEF ReadRefresh, Types, CallSteps
<1>7. CASE RefreshAnswered(t)
  BY ConstantFacts, <1>7, GotoEffect, NextCommit DEF RefreshAnswered, Types, CallSteps
<1>8. CASE RefreshDone(t)
  BY <1>8 DEF RefreshDone, Record, Bump, Return, Rescope, Types, Calls
<1>9. CASE RefreshFailed(t)
  BY <1>9 DEF RefreshFailed, RecordFailure, Bump, Raise, Rescope, Types, Calls
<1>10. CASE PushBase(t)
  BY ConstantFacts, <1>10, GotoEffect, NextCommit DEF PushBase, Types, CallSteps
<1>11. CASE PushAccepted(t)
  BY ConstantFacts, <1>11, GotoEffect, NextCommit DEF PushAccepted, Types, CallSteps
<1>12. CASE PushFailed(t)
  BY ConstantFacts, <1>12, GotoEffect, NextCommit DEF PushFailed, Types, CallSteps
<1>13. CASE PushRecord(t)
  BY ConstantFacts, <1>13, GotoEffect, NextCommit DEF PushRecord, Types, CallSteps
<1>14. CASE PushUnrecorded(t)
  BY ConstantFacts, <1>14, GotoEffect, NextCommit DEF PushUnrecorded, Types, CallSteps
<1>15. CASE PushUnknown(t)
  BY ConstantFacts, <1>15, GotoEffect, NextCommit DEF PushUnknown, Types, CallSteps
<1>16. CASE EnterScope(t)
  BY <1>16 DEF EnterScope, snap, Types, Calls
<1>17. CASE LeaveScope(t)
  BY <1>17 DEF LeaveScope, snap, Types, Calls
<1> QED
  BY <1>1, <1>2, <1>3, <1>4, <1>5, <1>6, <1>7, <1>8, <1>9, <1>10, <1>11, <1>12, <1>13, <1>14,
     <1>15, <1>16, <1>17 DEF Step

\* So do the cache, the scopes and the answers.
LEMMA StepCache ==
    ASSUME Types, Bounded, NEW t \in Threads, Step(t)
    PROVE  CacheTypes'
<1>1. ASSUME NEW op \in {"read", "force", "push"}, Begin(t, op) PROVE CacheTypes'
  BY ConstantFacts, NextCommit, <1>1 DEF Begin, snap, Types, CacheTypes, Carries, Bounded
<1>2. CASE ReadPinned(t)
  BY ConstantFacts, NextCommit, <1>2 DEF ReadPinned, Idle, snap, Types, CacheTypes, Carries,
     Bounded
<1>3. CASE Peek(t)
  BY ConstantFacts, NextCommit, <1>3 DEF Peek, Idle, snap, Types, CacheTypes, Carries, Bounded
<1>4. CASE ReadShared(t)
  BY ConstantFacts, NextCommit, <1>4 DEF ReadShared, Joins, Cached, Is, Return, Rescope, snap,
     Types, CacheTypes, Carries,
     Bounded
<1>5. CASE ReadSharedError(t)
  BY ConstantFacts, NextCommit, <1>5 DEF ReadSharedError, Joins, BackedOff, Is, Raise, Rescope,
     snap, Types, CacheTypes,
     Carries, Bounded
<1>6. CASE ReadRefresh(t)
  BY ConstantFacts, NextCommit, <1>6 DEF ReadRefresh, Is, Goto, snap, Types, CacheTypes,
     Carries, Bounded
<1>7. CASE RefreshAnswered(t)
  BY ConstantFacts, NextCommit, <1>7 DEF RefreshAnswered, Goto, snap, Types, CacheTypes,
     Carries, Bounded
<1>8. CASE RefreshDone(t)
  BY ConstantFacts, NextCommit, <1>8 DEF RefreshDone, Record, Bump, Return, Rescope, Types,
     CacheTypes, Carries, Bounded
<1>9. CASE RefreshFailed(t)
  BY ConstantFacts, NextCommit, <1>9 DEF RefreshFailed, RecordFailure, Bump, Raise, Rescope,
     Types, CacheTypes, Carries,
     Bounded
<1>10. CASE PushBase(t)
  BY ConstantFacts, NextCommit, <1>10 DEF PushBase, Is, Goto, snap, Types, CacheTypes, Carries,
     Bounded
<1>11. CASE PushAccepted(t)
  BY ConstantFacts, NextCommit, <1>11 DEF PushAccepted, Goto, snap, Types, CacheTypes, Carries,
     Bounded
<1>12. CASE PushFailed(t)
  BY ConstantFacts, NextCommit, <1>12 DEF PushFailed, Goto, snap, Types, CacheTypes, Carries,
     Bounded
<1>13. CASE PushRecord(t)
  BY ConstantFacts, NextCommit, <1>13 DEF PushRecord, Record, Bump, Goto, Rescope, Types,
     CacheTypes, Carries, Bounded
<1>14. CASE PushUnrecorded(t)
  BY ConstantFacts, NextCommit, <1>14 DEF PushUnrecorded, Goto, snap, Types, CacheTypes,
     Carries, Bounded
<1>15. CASE PushUnknown(t)
  BY ConstantFacts, NextCommit, <1>15 DEF PushUnknown, Invalidate, Bump, Goto, Rescope, Types,
     CacheTypes, Carries, Bounded
<1>16. CASE EnterScope(t)
  BY ConstantFacts, NextCommit, <1>16 DEF EnterScope, snap, Types, CacheTypes, Carries, Bounded
<1>17. CASE LeaveScope(t)
  BY ConstantFacts, NextCommit, <1>17 DEF LeaveScope, snap, Types, CacheTypes, Carries, Bounded
<1> QED
  BY ConstantFacts, NextCommit, <1>1, <1>2, <1>3, <1>4, <1>5, <1>6, <1>7, <1>8, <1>9, <1>10,
     <1>11, <1>12, <1>13, <1>14,
     <1>15, <1>16, <1>17 DEF Step

\* A thread fetches or pushes only while it holds the Git lock.
LEMMA StepHolder ==
    ASSUME OneHolder, Types, NEW t \in Threads, Step(t)
    PROVE  OneHolder'
<1>1. ASSUME NEW op \in {"read", "force", "push"}, Begin(t, op) PROVE OneHolder'
  BY ConstantFacts, <1>1 DEF Begin, snap, OneHolder, Types, Holding
<1>2. CASE ReadPinned(t)
  BY ConstantFacts, <1>2 DEF ReadPinned, Idle, snap, OneHolder, Types, Holding
<1>3. CASE Peek(t)
  BY ConstantFacts, <1>3 DEF Peek, Idle, snap, OneHolder, Types, Holding
<1>4. CASE ReadShared(t)
  BY ConstantFacts, <1>4 DEF ReadShared, Joins, Cached, Is, Return, Rescope, snap, OneHolder,
     Types, Holding
<1>5. CASE ReadSharedError(t)
  BY ConstantFacts, <1>5 DEF ReadSharedError, Joins, BackedOff, Is, Raise, Rescope, snap,
     OneHolder, Types,
     Holding
<1>6. CASE ReadRefresh(t)
  BY ConstantFacts, <1>6 DEF ReadRefresh, Is, Goto, snap, OneHolder, Types, Holding
<1>7. CASE RefreshAnswered(t)
  BY ConstantFacts, <1>7 DEF RefreshAnswered, Goto, snap, OneHolder, Types, Holding
<1>8. CASE RefreshDone(t)
  BY ConstantFacts, <1>8 DEF RefreshDone, Record, Bump, Return, Rescope, OneHolder, Types,
     Holding
<1>9. CASE RefreshFailed(t)
  BY ConstantFacts, <1>9 DEF RefreshFailed, RecordFailure, Bump, Raise, Rescope, OneHolder,
     Types, Holding
<1>10. CASE PushBase(t)
  BY ConstantFacts, <1>10 DEF PushBase, Is, Goto, snap, OneHolder, Types, Holding
<1>11. CASE PushAccepted(t)
  BY ConstantFacts, <1>11 DEF PushAccepted, Goto, snap, OneHolder, Types, Holding
<1>12. CASE PushFailed(t)
  BY ConstantFacts, <1>12 DEF PushFailed, Goto, snap, OneHolder, Types, Holding
<1>13. CASE PushRecord(t)
  BY ConstantFacts, <1>13 DEF PushRecord, Record, Bump, Goto, Rescope, OneHolder, Types, Holding
<1>14. CASE PushUnrecorded(t)
  BY ConstantFacts, <1>14 DEF PushUnrecorded, Goto, snap, OneHolder, Types, Holding
<1>15. CASE PushUnknown(t)
  BY ConstantFacts, <1>15 DEF PushUnknown, Invalidate, Bump, Goto, Rescope, OneHolder, Types,
     Holding
<1>16. CASE EnterScope(t)
  BY ConstantFacts, <1>16 DEF EnterScope, snap, OneHolder, Types, Holding
<1>17. CASE LeaveScope(t)
  BY ConstantFacts, <1>17 DEF LeaveScope, snap, OneHolder, Types, Holding
<1> QED
  BY ConstantFacts, <1>1, <1>2, <1>3, <1>4, <1>5, <1>6, <1>7, <1>8, <1>9, <1>10, <1>11, <1>12,
     <1>13, <1>14,
     <1>15, <1>16, <1>17 DEF Step


\* The step that ScopeNeverRewinds is about.
ScopeForward ==
    \A t \in Threads : scope[t] \in Commits /\ scope'[t] \in Commits => scope'[t] >= scope[t]

\* Where the calls that Goto are after a step.
To(t, step, got) ==
    /\ call'[t].step = step /\ call'[t].got = got /\ call'[t].op = call[t].op
    /\ \A u \in Threads \ {t} : call'[u] = call[u]

LEMMA Moves ==
    ASSUME Types, NEW t \in Threads
    PROVE  /\ ReadRefresh(t) => To(t, "fetching", None)
           /\ RefreshAnswered(t) => To(t, "fetched", remote)
           /\ PushBase(t) => To(t, "pushing", remote)
           /\ PushAccepted(t) => To(t, "confirmed", remote + 1) \/ To(t, "unknown", remote + 1)
           /\ PushFailed(t) => To(t, "unknown", None)
           /\ PushRecord(t) \/ PushUnrecorded(t) \/ PushUnknown(t) => To(t, "idle", None)
BY ConstantFacts, NextCommit, GotoEffect DEF Types, CallSteps, To, ReadRefresh, RefreshAnswered,
   PushBase, PushAccepted, PushFailed, PushRecord, PushUnrecorded, PushUnknown

\* Whatever is recorded, pinned or returned is on the branch by then.
LEMMA StepBounded ==
    ASSUME Types, Bounded, NEW t \in Threads, Step(t)
    PROVE  Bounded'
<1>1. ASSUME NEW op \in {"read", "force", "push"}, Begin(t, op) PROVE Bounded'
  BY ConstantFacts, NextCommit, <1>1 DEF Begin, snap, Types, Bounded, Carries, OneHolder,
     Holding
<1>2. CASE ReadPinned(t)
  BY ConstantFacts, NextCommit, <1>2 DEF ReadPinned, Idle, snap, Types, Bounded, Carries,
     OneHolder, Holding
<1>3. CASE Peek(t)
  BY ConstantFacts, NextCommit, <1>3 DEF Peek, Idle, snap, Types, Bounded, Carries, OneHolder,
     Holding
<1>4. CASE ReadShared(t)
  BY ConstantFacts, NextCommit, <1>4 DEF ReadShared, Joins, Cached, Is, Return, Rescope, snap,
     Types, Bounded, Carries, OneHolder, Holding
<1>5. CASE ReadSharedError(t)
  BY ConstantFacts, NextCommit, <1>5 DEF ReadSharedError, Joins, BackedOff, Is, Raise, Rescope,
     snap, Types, Bounded, Carries, OneHolder, Holding
<1>6. CASE ReadRefresh(t)
  BY ConstantFacts, NextCommit, Moves, <1>6 DEF ReadRefresh, Is, To, snap, Types, Bounded,
     Carries, OneHolder, Holding
<1>7. CASE RefreshAnswered(t)
  BY ConstantFacts, NextCommit, Moves, <1>7 DEF RefreshAnswered, To, snap, Types, Bounded,
     Carries, OneHolder, Holding
<1>8. CASE RefreshDone(t)
  BY ConstantFacts, NextCommit, <1>8 DEF RefreshDone, Record, Bump, Return, Rescope, Types,
     Bounded, Carries, OneHolder, Holding
<1>9. CASE RefreshFailed(t)
  BY ConstantFacts, NextCommit, <1>9 DEF RefreshFailed, RecordFailure, Bump, Raise, Rescope,
     Types, Bounded, Carries, OneHolder, Holding
<1>10. CASE PushBase(t)
  BY ConstantFacts, NextCommit, Moves, <1>10 DEF PushBase, Is, To, snap, Types, Bounded,
     Carries, OneHolder, Holding
<1>11. CASE PushAccepted(t)
  BY ConstantFacts, NextCommit, Moves, <1>11 DEF PushAccepted, To, snap, Types, Bounded,
     Carries, OneHolder, Holding
<1>12. CASE PushFailed(t)
  BY ConstantFacts, NextCommit, Moves, <1>12 DEF PushFailed, To, snap, Types, Bounded, Carries,
     OneHolder, Holding
<1>13. CASE PushRecord(t)
  BY ConstantFacts, NextCommit, Moves, <1>13 DEF PushRecord, Record, Bump, To, Rescope, Types,
     Bounded, Carries, OneHolder, Holding
<1>14. CASE PushUnrecorded(t)
  BY ConstantFacts, NextCommit, Moves, <1>14 DEF PushUnrecorded, To, snap, Types, Bounded,
     Carries, OneHolder, Holding
<1>15. CASE PushUnknown(t)
  BY ConstantFacts, NextCommit, Moves, <1>15 DEF PushUnknown, Invalidate, Bump, To, Rescope,
     Types, Bounded, Carries, OneHolder, Holding
<1>16. CASE EnterScope(t)
  BY ConstantFacts, NextCommit, <1>16 DEF EnterScope, snap, Types, Bounded, Carries, OneHolder,
     Holding
<1>17. CASE LeaveScope(t)
  BY ConstantFacts, NextCommit, <1>17 DEF LeaveScope, snap, Types, Bounded, Carries, OneHolder,
     Holding
<1> QED
  BY <1>1, <1>2, <1>3, <1>4, <1>5, <1>6, <1>7, <1>8, <1>9, <1>10, <1>11, <1>12, <1>13, <1>14,
     <1>15, <1>16, <1>17 DEF Step

\* What had been pushed and seen only grows.
LEMMA StepFloors ==
    ASSUME Types, Bounded, FloorsHeld, NEW t \in Threads, Step(t)
    PROVE  FloorsHeld'
<1>1. ASSUME NEW op \in {"read", "force", "push"}, Begin(t, op) PROVE FloorsHeld'
  BY ConstantFacts, NextCommit, <1>1 DEF Begin, snap, Types, Bounded, FloorsHeld, Carries
<1>2. CASE ReadPinned(t)
  BY ConstantFacts, NextCommit, <1>2 DEF ReadPinned, Idle, snap, Types, Bounded, FloorsHeld,
     Carries
<1>3. CASE Peek(t)
  BY ConstantFacts, NextCommit, <1>3 DEF Peek, Idle, snap, Types, Bounded, FloorsHeld, Carries
<1>4. CASE ReadShared(t)
  BY ConstantFacts, NextCommit, <1>4 DEF ReadShared, Joins, Cached, Is, Return, Rescope, snap,
     Types, Bounded, FloorsHeld, Carries
<1>5. CASE ReadSharedError(t)
  BY ConstantFacts, NextCommit, <1>5 DEF ReadSharedError, Joins, BackedOff, Is, Raise, Rescope,
     snap, Types, Bounded, FloorsHeld, Carries
<1>6. CASE ReadRefresh(t)
  BY ConstantFacts, NextCommit, Moves, <1>6 DEF ReadRefresh, Is, To, snap, Types, Bounded,
     FloorsHeld, Carries
<1>7. CASE RefreshAnswered(t)
  BY ConstantFacts, NextCommit, Moves, <1>7 DEF RefreshAnswered, To, snap, Types, Bounded,
     FloorsHeld, Carries
<1>8. CASE RefreshDone(t)
  BY ConstantFacts, NextCommit, <1>8 DEF RefreshDone, Record, Bump, Return, Rescope, Types,
     Bounded, FloorsHeld, Carries
<1>9. CASE RefreshFailed(t)
  BY ConstantFacts, NextCommit, <1>9 DEF RefreshFailed, RecordFailure, Bump, Raise, Rescope,
     Types, Bounded, FloorsHeld, Carries
<1>10. CASE PushBase(t)
  BY ConstantFacts, NextCommit, Moves, <1>10 DEF PushBase, Is, To, snap, Types, Bounded,
     FloorsHeld, Carries
<1>11. CASE PushAccepted(t)
  BY ConstantFacts, NextCommit, Moves, <1>11 DEF PushAccepted, To, snap, Types, Bounded,
     FloorsHeld, Carries
<1>12. CASE PushFailed(t)
  BY ConstantFacts, NextCommit, Moves, <1>12 DEF PushFailed, To, snap, Types, Bounded,
     FloorsHeld, Carries
<1>13. CASE PushRecord(t)
  BY ConstantFacts, NextCommit, Moves, <1>13 DEF PushRecord, Record, Bump, To, Rescope, Types,
     Bounded, FloorsHeld, Carries
<1>14. CASE PushUnrecorded(t)
  BY ConstantFacts, NextCommit, Moves, <1>14 DEF PushUnrecorded, To, snap, Types, Bounded,
     FloorsHeld, Carries
<1>15. CASE PushUnknown(t)
  BY ConstantFacts, NextCommit, Moves, <1>15 DEF PushUnknown, Invalidate, Bump, To, Rescope,
     Types, Bounded, FloorsHeld, Carries
<1>16. CASE EnterScope(t)
  BY ConstantFacts, NextCommit, <1>16 DEF EnterScope, snap, Types, Bounded, FloorsHeld, Carries
<1>17. CASE LeaveScope(t)
  BY ConstantFacts, NextCommit, <1>17 DEF LeaveScope, snap, Types, Bounded, FloorsHeld, Carries
<1> QED
  BY <1>1, <1>2, <1>3, <1>4, <1>5, <1>6, <1>7, <1>8, <1>9, <1>10, <1>11, <1>12, <1>13, <1>14,
     <1>15, <1>16, <1>17 DEF Step

\* A commit is recorded under the lock, where it holds all that was pushed; a
\* failure sets the error, and invalidation leaves nothing to join.
LEMMA StepQueued ==
    ASSUME Types, CarriedIsNewest, FloorsHeld, QueuedSees, NEW t \in Threads, Step(t)
    PROVE  QueuedSees'
<1>1. ASSUME NEW op \in {"read", "force", "push"}, Begin(t, op) PROVE QueuedSees'
  BY ConstantFacts, NextCommit, <1>1 DEF Begin, snap, Types, QueuedSees, Carries,
     CarriedIsNewest, Newest, FloorsHeld
<1>2. CASE ReadPinned(t)
  BY ConstantFacts, NextCommit, <1>2 DEF ReadPinned, Idle, snap, Types, QueuedSees, Carries,
     CarriedIsNewest, Newest, FloorsHeld
<1>3. CASE Peek(t)
  BY ConstantFacts, NextCommit, <1>3 DEF Peek, Idle, snap, Types, QueuedSees, Carries,
     CarriedIsNewest, Newest, FloorsHeld
<1>4. CASE ReadShared(t)
  BY ConstantFacts, NextCommit, <1>4 DEF ReadShared, Joins, Cached, Is, Return, Rescope, snap,
     Types, QueuedSees, Carries, CarriedIsNewest, Newest, FloorsHeld
<1>5. CASE ReadSharedError(t)
  BY ConstantFacts, NextCommit, <1>5 DEF ReadSharedError, Joins, BackedOff, Is, Raise, Rescope,
     snap, Types, QueuedSees, Carries, CarriedIsNewest, Newest, FloorsHeld
<1>6. CASE ReadRefresh(t)
  BY ConstantFacts, NextCommit, Moves, <1>6 DEF ReadRefresh, Is, To, snap, Types, QueuedSees,
     Carries, CarriedIsNewest, Newest, FloorsHeld
<1>7. CASE RefreshAnswered(t)
  BY ConstantFacts, NextCommit, Moves, <1>7 DEF RefreshAnswered, To, snap, Types, QueuedSees,
     Carries, CarriedIsNewest, Newest, FloorsHeld
<1>8. CASE RefreshDone(t)
  BY ConstantFacts, NextCommit, <1>8 DEF RefreshDone, Record, Bump, Return, Rescope, Types,
     QueuedSees, Carries, CarriedIsNewest, Newest, FloorsHeld
<1>9. CASE RefreshFailed(t)
  BY ConstantFacts, NextCommit, <1>9 DEF RefreshFailed, RecordFailure, Bump, Raise, Rescope,
     Types, QueuedSees, Carries, CarriedIsNewest, Newest, FloorsHeld
<1>10. CASE PushBase(t)
  BY ConstantFacts, NextCommit, Moves, <1>10 DEF PushBase, Is, To, snap, Types, QueuedSees,
     Carries, CarriedIsNewest, Newest, FloorsHeld
<1>11. CASE PushAccepted(t)
  BY ConstantFacts, NextCommit, Moves, <1>11 DEF PushAccepted, To, snap, Types, QueuedSees,
     Carries, CarriedIsNewest, Newest, FloorsHeld
<1>12. CASE PushFailed(t)
  BY ConstantFacts, NextCommit, Moves, <1>12 DEF PushFailed, To, snap, Types, QueuedSees,
     Carries, CarriedIsNewest, Newest, FloorsHeld
<1>13. CASE PushRecord(t)
  BY ConstantFacts, NextCommit, Moves, <1>13 DEF PushRecord, Record, Bump, To, Rescope, Types,
     QueuedSees, Carries, CarriedIsNewest, Newest, FloorsHeld
<1>14. CASE PushUnrecorded(t)
  BY ConstantFacts, NextCommit, Moves, <1>14 DEF PushUnrecorded, To, snap, Types, QueuedSees,
     Carries, CarriedIsNewest, Newest, FloorsHeld
<1>15. CASE PushUnknown(t)
  BY ConstantFacts, NextCommit, Moves, <1>15 DEF PushUnknown, Invalidate, Bump, To, Rescope,
     Types, QueuedSees, Carries, CarriedIsNewest, Newest, FloorsHeld
<1>16. CASE EnterScope(t)
  BY ConstantFacts, NextCommit, <1>16 DEF EnterScope, snap, Types, QueuedSees, Carries,
     CarriedIsNewest, Newest, FloorsHeld
<1>17. CASE LeaveScope(t)
  BY ConstantFacts, NextCommit, <1>17 DEF LeaveScope, snap, Types, QueuedSees, Carries,
     CarriedIsNewest, Newest, FloorsHeld
<1> QED
  BY <1>1, <1>2, <1>3, <1>4, <1>5, <1>6, <1>7, <1>8, <1>9, <1>10, <1>11, <1>12, <1>13, <1>14,
     <1>15, <1>16, <1>17 DEF Step

\* Only what a lock holder carries, the newest, becomes the cache.
LEMMA StepCacheNewest ==
    ASSUME Types, CacheIsNewest, CarriedIsNewest, NEW t \in Threads, Step(t)
    PROVE  CacheIsNewest'
<1>1. ASSUME NEW op \in {"read", "force", "push"}, Begin(t, op) PROVE CacheIsNewest'
  BY ConstantFacts, NextCommit, <1>1 DEF Begin, snap, Types, CacheIsNewest, Newest, Carries,
     CarriedIsNewest
<1>2. CASE ReadPinned(t)
  BY ConstantFacts, NextCommit, <1>2 DEF ReadPinned, Idle, snap, Types, CacheIsNewest, Newest,
     Carries, CarriedIsNewest
<1>3. CASE Peek(t)
  BY ConstantFacts, NextCommit, <1>3 DEF Peek, Idle, snap, Types, CacheIsNewest, Newest,
     Carries, CarriedIsNewest
<1>4. CASE ReadShared(t)
  BY ConstantFacts, NextCommit, <1>4 DEF ReadShared, Joins, Cached, Is, Return, Rescope, snap,
     Types, CacheIsNewest, Newest, Carries, CarriedIsNewest
<1>5. CASE ReadSharedError(t)
  BY ConstantFacts, NextCommit, <1>5 DEF ReadSharedError, Joins, BackedOff, Is, Raise, Rescope,
     snap, Types, CacheIsNewest, Newest, Carries, CarriedIsNewest
<1>6. CASE ReadRefresh(t)
  BY ConstantFacts, NextCommit, Moves, <1>6 DEF ReadRefresh, Is, To, snap, Types, CacheIsNewest,
     Newest, Carries, CarriedIsNewest
<1>7. CASE RefreshAnswered(t)
  BY ConstantFacts, NextCommit, Moves, <1>7 DEF RefreshAnswered, To, snap, Types, CacheIsNewest,
     Newest, Carries, CarriedIsNewest
<1>8. CASE RefreshDone(t)
  BY ConstantFacts, NextCommit, <1>8 DEF RefreshDone, Record, Bump, Return, Rescope, Types,
     CacheIsNewest, Newest, Carries, CarriedIsNewest
<1>9. CASE RefreshFailed(t)
  BY ConstantFacts, NextCommit, <1>9 DEF RefreshFailed, RecordFailure, Bump, Raise, Rescope,
     Types, CacheIsNewest, Newest, Carries, CarriedIsNewest
<1>10. CASE PushBase(t)
  BY ConstantFacts, NextCommit, Moves, <1>10 DEF PushBase, Is, To, snap, Types, CacheIsNewest,
     Newest, Carries, CarriedIsNewest
<1>11. CASE PushAccepted(t)
  BY ConstantFacts, NextCommit, Moves, <1>11 DEF PushAccepted, To, snap, Types, CacheIsNewest,
     Newest, Carries, CarriedIsNewest
<1>12. CASE PushFailed(t)
  BY ConstantFacts, NextCommit, Moves, <1>12 DEF PushFailed, To, snap, Types, CacheIsNewest,
     Newest, Carries, CarriedIsNewest
<1>13. CASE PushRecord(t)
  BY ConstantFacts, NextCommit, Moves, <1>13 DEF PushRecord, Record, Bump, To, Rescope, Types,
     CacheIsNewest, Newest, Carries, CarriedIsNewest
<1>14. CASE PushUnrecorded(t)
  BY ConstantFacts, NextCommit, Moves, <1>14 DEF PushUnrecorded, To, snap, Types, CacheIsNewest,
     Newest, Carries, CarriedIsNewest
<1>15. CASE PushUnknown(t)
  BY ConstantFacts, NextCommit, Moves, <1>15 DEF PushUnknown, Invalidate, Bump, To, Rescope,
     Types, CacheIsNewest, Newest, Carries, CarriedIsNewest
<1>16. CASE EnterScope(t)
  BY ConstantFacts, NextCommit, <1>16 DEF EnterScope, snap, Types, CacheIsNewest, Newest,
     Carries, CarriedIsNewest
<1>17. CASE LeaveScope(t)
  BY ConstantFacts, NextCommit, <1>17 DEF LeaveScope, snap, Types, CacheIsNewest, Newest,
     Carries, CarriedIsNewest
<1> QED
  BY <1>1, <1>2, <1>3, <1>4, <1>5, <1>6, <1>7, <1>8, <1>9, <1>10, <1>11, <1>12, <1>13, <1>14,
     <1>15, <1>16, <1>17 DEF Step

\* What the lock holder carries stays the newest: the cache changes only under the lock.
LEMMA StepCarried ==
    ASSUME OneHolder, Types, Bounded, CacheIsNewest, CarriedIsNewest, NEW t \in Threads, Step(t)
    PROVE  CarriedIsNewest'
<1>1. ASSUME NEW op \in {"read", "force", "push"}, Begin(t, op) PROVE CarriedIsNewest'
  BY ConstantFacts, NextCommit, <1>1 DEF Begin, snap, Types, CacheIsNewest, Newest, Carries,
     CarriedIsNewest, Bounded,
     OneHolder, Holding
<1>2. CASE ReadPinned(t)
  BY ConstantFacts, NextCommit, <1>2 DEF ReadPinned, Idle, snap, Types, CacheIsNewest, Newest,
     Carries, CarriedIsNewest, Bounded, OneHolder, Holding
<1>3. CASE Peek(t)
  BY ConstantFacts, NextCommit, <1>3 DEF Peek, Idle, snap, Types, CacheIsNewest, Newest,
     Carries, CarriedIsNewest, Bounded, OneHolder, Holding
<1>4. CASE ReadShared(t)
  BY ConstantFacts, NextCommit, <1>4 DEF ReadShared, Joins, Cached, Is, Return, Rescope, snap,
     Types, CacheIsNewest, Newest, Carries, CarriedIsNewest, Bounded, OneHolder, Holding
<1>5. CASE ReadSharedError(t)
  BY ConstantFacts, NextCommit, <1>5 DEF ReadSharedError, Joins, BackedOff, Is, Raise, Rescope,
     snap, Types, CacheIsNewest, Newest, Carries, CarriedIsNewest, Bounded, OneHolder, Holding
<1>6. CASE ReadRefresh(t)
  BY ConstantFacts, NextCommit, Moves, <1>6 DEF ReadRefresh, Is, To, snap, Types, CacheIsNewest,
     Newest, Carries, CarriedIsNewest, Bounded, OneHolder, Holding
<1>7. CASE RefreshAnswered(t)
  BY ConstantFacts, NextCommit, Moves, <1>7 DEF RefreshAnswered, To, snap, Types, CacheIsNewest,
     Newest, Carries, CarriedIsNewest, Bounded, OneHolder, Holding
<1>8. CASE RefreshDone(t)
  BY ConstantFacts, NextCommit, <1>8 DEF RefreshDone, Record, Bump, Return, Rescope, Types,
     CacheIsNewest, Newest, Carries, CarriedIsNewest, Bounded, OneHolder, Holding
<1>9. CASE RefreshFailed(t)
  BY ConstantFacts, NextCommit, <1>9 DEF RefreshFailed, RecordFailure, Bump, Raise, Rescope,
     Types, CacheIsNewest, Newest, Carries, CarriedIsNewest, Bounded, OneHolder, Holding
<1>10. CASE PushBase(t)
  BY ConstantFacts, NextCommit, Moves, <1>10 DEF PushBase, Is, To, snap, Types, CacheIsNewest,
     Newest, Carries, CarriedIsNewest, Bounded, OneHolder, Holding
<1>11. CASE PushAccepted(t)
  BY ConstantFacts, NextCommit, Moves, <1>11 DEF PushAccepted, To, snap, Types, CacheIsNewest,
     Newest, Carries, CarriedIsNewest, Bounded, OneHolder, Holding
<1>12. CASE PushFailed(t)
  BY ConstantFacts, NextCommit, Moves, <1>12 DEF PushFailed, To, snap, Types, CacheIsNewest,
     Newest, Carries, CarriedIsNewest, Bounded, OneHolder, Holding
<1>13. CASE PushRecord(t)
  <2>1. To(t, "idle", None) /\ lock = t
    BY Moves, <1>13 DEF PushRecord, OneHolder, Holding
  <2>2. \A u \in Threads : ~Carries(u)'
    BY <2>1 DEF To, Carries, OneHolder, Holding
  <2> QED
    BY <2>2 DEF CarriedIsNewest
<1>14. CASE PushUnrecorded(t)
  BY ConstantFacts, NextCommit, Moves, <1>14 DEF PushUnrecorded, To, snap, Types, CacheIsNewest,
     Newest, Carries, CarriedIsNewest, Bounded, OneHolder, Holding
<1>15. CASE PushUnknown(t)
  BY ConstantFacts, NextCommit, Moves, <1>15 DEF PushUnknown, Invalidate, Bump, To, Rescope,
     Types, CacheIsNewest, Newest, Carries, CarriedIsNewest, Bounded, OneHolder, Holding
<1>16. CASE EnterScope(t)
  BY ConstantFacts, NextCommit, <1>16 DEF EnterScope, snap, Types, CacheIsNewest, Newest,
     Carries, CarriedIsNewest, Bounded, OneHolder, Holding
<1>17. CASE LeaveScope(t)
  BY ConstantFacts, NextCommit, <1>17 DEF LeaveScope, snap, Types, CacheIsNewest, Newest,
     Carries, CarriedIsNewest, Bounded, OneHolder, Holding
<1> QED
  BY <1>1, <1>2, <1>3, <1>4, <1>5, <1>6, <1>7, <1>8, <1>9, <1>10, <1>11, <1>12, <1>13, <1>14,
     <1>15, <1>16, <1>17 DEF Step

\* A read answers the cache, or what replaces it.
LEMMA StepShared ==
    ASSUME Types, CacheIsNewest, CarriedIsNewest, FloorsHeld, SharedReadsMonotone, NEW t \in Threads, Step(t)
    PROVE  SharedReadsMonotone'
<1>1. ASSUME NEW op \in {"read", "force", "push"}, Begin(t, op) PROVE SharedReadsMonotone'
  BY ConstantFacts, NextCommit, <1>1 DEF Begin, snap, Types, SharedReadsMonotone, CacheIsNewest,
     Newest, Carries,
     CarriedIsNewest, FloorsHeld
<1>2. CASE ReadPinned(t)
  BY ConstantFacts, NextCommit, <1>2 DEF ReadPinned, Idle, snap, Types, SharedReadsMonotone,
     CacheIsNewest, Newest, Carries, CarriedIsNewest, FloorsHeld
<1>3. CASE Peek(t)
  BY ConstantFacts, NextCommit, <1>3 DEF Peek, Idle, snap, Types, SharedReadsMonotone,
     CacheIsNewest, Newest, Carries, CarriedIsNewest, FloorsHeld
<1>4. CASE ReadShared(t)
  BY ConstantFacts, NextCommit, <1>4 DEF ReadShared, Joins, Cached, Is, Return, Rescope, snap,
     Types, SharedReadsMonotone, CacheIsNewest, Newest, Carries, CarriedIsNewest, FloorsHeld
<1>5. CASE ReadSharedError(t)
  BY ConstantFacts, NextCommit, <1>5 DEF ReadSharedError, Joins, BackedOff, Is, Raise, Rescope,
     snap, Types, SharedReadsMonotone, CacheIsNewest, Newest, Carries, CarriedIsNewest,
     FloorsHeld
<1>6. CASE ReadRefresh(t)
  BY ConstantFacts, NextCommit, Moves, <1>6 DEF ReadRefresh, Is, To, snap, Types,
     SharedReadsMonotone, CacheIsNewest, Newest, Carries, CarriedIsNewest, FloorsHeld
<1>7. CASE RefreshAnswered(t)
  BY ConstantFacts, NextCommit, Moves, <1>7 DEF RefreshAnswered, To, snap, Types,
     SharedReadsMonotone, CacheIsNewest, Newest, Carries, CarriedIsNewest, FloorsHeld
<1>8. CASE RefreshDone(t)
  BY ConstantFacts, NextCommit, <1>8 DEF RefreshDone, Record, Bump, Return, Rescope, Types,
     SharedReadsMonotone, CacheIsNewest, Newest, Carries, CarriedIsNewest, FloorsHeld
<1>9. CASE RefreshFailed(t)
  BY ConstantFacts, NextCommit, <1>9 DEF RefreshFailed, RecordFailure, Bump, Raise, Rescope,
     Types, SharedReadsMonotone, CacheIsNewest, Newest, Carries, CarriedIsNewest, FloorsHeld
<1>10. CASE PushBase(t)
  BY ConstantFacts, NextCommit, Moves, <1>10 DEF PushBase, Is, To, snap, Types,
     SharedReadsMonotone, CacheIsNewest, Newest, Carries, CarriedIsNewest, FloorsHeld
<1>11. CASE PushAccepted(t)
  BY ConstantFacts, NextCommit, Moves, <1>11 DEF PushAccepted, To, snap, Types,
     SharedReadsMonotone, CacheIsNewest, Newest, Carries, CarriedIsNewest, FloorsHeld
<1>12. CASE PushFailed(t)
  BY ConstantFacts, NextCommit, Moves, <1>12 DEF PushFailed, To, snap, Types,
     SharedReadsMonotone, CacheIsNewest, Newest, Carries, CarriedIsNewest, FloorsHeld
<1>13. CASE PushRecord(t)
  BY ConstantFacts, NextCommit, Moves, <1>13 DEF PushRecord, Record, Bump, To, Rescope, Types,
     SharedReadsMonotone, CacheIsNewest, Newest, Carries, CarriedIsNewest, FloorsHeld
<1>14. CASE PushUnrecorded(t)
  BY ConstantFacts, NextCommit, Moves, <1>14 DEF PushUnrecorded, To, snap, Types,
     SharedReadsMonotone, CacheIsNewest, Newest, Carries, CarriedIsNewest, FloorsHeld
<1>15. CASE PushUnknown(t)
  BY ConstantFacts, NextCommit, Moves, <1>15 DEF PushUnknown, Invalidate, Bump, To, Rescope,
     Types, SharedReadsMonotone, CacheIsNewest, Newest, Carries, CarriedIsNewest, FloorsHeld
<1>16. CASE EnterScope(t)
  BY ConstantFacts, NextCommit, <1>16 DEF EnterScope, snap, Types, SharedReadsMonotone,
     CacheIsNewest, Newest, Carries, CarriedIsNewest, FloorsHeld
<1>17. CASE LeaveScope(t)
  BY ConstantFacts, NextCommit, <1>17 DEF LeaveScope, snap, Types, SharedReadsMonotone,
     CacheIsNewest, Newest, Carries, CarriedIsNewest, FloorsHeld
<1> QED
  BY <1>1, <1>2, <1>3, <1>4, <1>5, <1>6, <1>7, <1>8, <1>9, <1>10, <1>11, <1>12, <1>13, <1>14,
     <1>15, <1>16, <1>17 DEF Step

\* A forced read answers what it fetched, or a cache that changed while it queued.
LEMMA StepForced ==
    ASSUME Types, CarriedIsNewest, FloorsHeld, QueuedSees, ForcedSeesOwnPushes, NEW t \in Threads, Step(t)
    PROVE  ForcedSeesOwnPushes'
<1>1. ASSUME NEW op \in {"read", "force", "push"}, Begin(t, op) PROVE ForcedSeesOwnPushes'
  BY ConstantFacts, NextCommit, <1>1 DEF Begin, snap, Types, ForcedSeesOwnPushes, Carries,
     CarriedIsNewest, FloorsHeld,
     QueuedSees
<1>2. CASE ReadPinned(t)
  BY ConstantFacts, NextCommit, <1>2 DEF ReadPinned, Idle, snap, Types, ForcedSeesOwnPushes,
     Carries, CarriedIsNewest, FloorsHeld, QueuedSees
<1>3. CASE Peek(t)
  BY ConstantFacts, NextCommit, <1>3 DEF Peek, Idle, snap, Types, ForcedSeesOwnPushes, Carries,
     CarriedIsNewest, FloorsHeld, QueuedSees
<1>4. CASE ReadShared(t)
  BY ConstantFacts, NextCommit, <1>4 DEF ReadShared, Joins, Cached, Is, Return, Rescope, snap,
     Types, ForcedSeesOwnPushes, Carries, CarriedIsNewest, FloorsHeld, QueuedSees
<1>5. CASE ReadSharedError(t)
  BY ConstantFacts, NextCommit, <1>5 DEF ReadSharedError, Joins, BackedOff, Is, Raise, Rescope,
     snap, Types, ForcedSeesOwnPushes, Carries, CarriedIsNewest, FloorsHeld, QueuedSees
<1>6. CASE ReadRefresh(t)
  BY ConstantFacts, NextCommit, Moves, <1>6 DEF ReadRefresh, Is, To, snap, Types,
     ForcedSeesOwnPushes, Carries, CarriedIsNewest, FloorsHeld, QueuedSees
<1>7. CASE RefreshAnswered(t)
  BY ConstantFacts, NextCommit, Moves, <1>7 DEF RefreshAnswered, To, snap, Types,
     ForcedSeesOwnPushes, Carries, CarriedIsNewest, FloorsHeld, QueuedSees
<1>8. CASE RefreshDone(t)
  BY ConstantFacts, NextCommit, <1>8 DEF RefreshDone, Record, Bump, Return, Rescope, Types,
     ForcedSeesOwnPushes, Carries, CarriedIsNewest, FloorsHeld, QueuedSees
<1>9. CASE RefreshFailed(t)
  BY ConstantFacts, NextCommit, <1>9 DEF RefreshFailed, RecordFailure, Bump, Raise, Rescope,
     Types, ForcedSeesOwnPushes, Carries, CarriedIsNewest, FloorsHeld, QueuedSees
<1>10. CASE PushBase(t)
  BY ConstantFacts, NextCommit, Moves, <1>10 DEF PushBase, Is, To, snap, Types,
     ForcedSeesOwnPushes, Carries, CarriedIsNewest, FloorsHeld, QueuedSees
<1>11. CASE PushAccepted(t)
  BY ConstantFacts, NextCommit, Moves, <1>11 DEF PushAccepted, To, snap, Types,
     ForcedSeesOwnPushes, Carries, CarriedIsNewest, FloorsHeld, QueuedSees
<1>12. CASE PushFailed(t)
  BY ConstantFacts, NextCommit, Moves, <1>12 DEF PushFailed, To, snap, Types,
     ForcedSeesOwnPushes, Carries, CarriedIsNewest, FloorsHeld, QueuedSees
<1>13. CASE PushRecord(t)
  BY ConstantFacts, NextCommit, Moves, <1>13 DEF PushRecord, Record, Bump, To, Rescope, Types,
     ForcedSeesOwnPushes, Carries, CarriedIsNewest, FloorsHeld, QueuedSees
<1>14. CASE PushUnrecorded(t)
  BY ConstantFacts, NextCommit, Moves, <1>14 DEF PushUnrecorded, To, snap, Types,
     ForcedSeesOwnPushes, Carries, CarriedIsNewest, FloorsHeld, QueuedSees
<1>15. CASE PushUnknown(t)
  BY ConstantFacts, NextCommit, Moves, <1>15 DEF PushUnknown, Invalidate, Bump, To, Rescope,
     Types, ForcedSeesOwnPushes, Carries, CarriedIsNewest, FloorsHeld, QueuedSees
<1>16. CASE EnterScope(t)
  BY ConstantFacts, NextCommit, <1>16 DEF EnterScope, snap, Types, ForcedSeesOwnPushes, Carries,
     CarriedIsNewest, FloorsHeld, QueuedSees
<1>17. CASE LeaveScope(t)
  BY ConstantFacts, NextCommit, <1>17 DEF LeaveScope, snap, Types, ForcedSeesOwnPushes, Carries,
     CarriedIsNewest, FloorsHeld, QueuedSees
<1> QED
  BY <1>1, <1>2, <1>3, <1>4, <1>5, <1>6, <1>7, <1>8, <1>9, <1>10, <1>11, <1>12, <1>13, <1>14,
     <1>15, <1>16, <1>17 DEF Step

\* A scope follows the cache.
LEMMA StepScope ==
    ASSUME Types, CacheIsNewest, CarriedIsNewest, NEW t \in Threads, Step(t)
    PROVE  ScopeForward
<1>1. ASSUME NEW op \in {"read", "force", "push"}, Begin(t, op) PROVE ScopeForward
  BY ConstantFacts, NextCommit, <1>1 DEF Begin, snap, Types, ScopeForward, CacheIsNewest,
     Newest, Carries, CarriedIsNewest
<1>2. CASE ReadPinned(t)
  BY ConstantFacts, NextCommit, <1>2 DEF ReadPinned, Idle, snap, Types, ScopeForward,
     CacheIsNewest, Newest, Carries, CarriedIsNewest
<1>3. CASE Peek(t)
  BY ConstantFacts, NextCommit, <1>3 DEF Peek, Idle, snap, Types, ScopeForward, CacheIsNewest,
     Newest, Carries, CarriedIsNewest
<1>4. CASE ReadShared(t)
  BY ConstantFacts, NextCommit, <1>4 DEF ReadShared, Joins, Cached, Is, Return, Rescope, snap,
     Types, ScopeForward, CacheIsNewest, Newest, Carries, CarriedIsNewest
<1>5. CASE ReadSharedError(t)
  BY ConstantFacts, NextCommit, <1>5 DEF ReadSharedError, Joins, BackedOff, Is, Raise, Rescope,
     snap, Types, ScopeForward, CacheIsNewest, Newest, Carries, CarriedIsNewest
<1>6. CASE ReadRefresh(t)
  BY ConstantFacts, NextCommit, Moves, <1>6 DEF ReadRefresh, Is, To, snap, Types, ScopeForward,
     CacheIsNewest, Newest, Carries, CarriedIsNewest
<1>7. CASE RefreshAnswered(t)
  BY ConstantFacts, NextCommit, Moves, <1>7 DEF RefreshAnswered, To, snap, Types, ScopeForward,
     CacheIsNewest, Newest, Carries, CarriedIsNewest
<1>8. CASE RefreshDone(t)
  BY ConstantFacts, NextCommit, <1>8 DEF RefreshDone, Record, Bump, Return, Rescope, Types,
     ScopeForward, CacheIsNewest, Newest, Carries, CarriedIsNewest
<1>9. CASE RefreshFailed(t)
  BY ConstantFacts, NextCommit, <1>9 DEF RefreshFailed, RecordFailure, Bump, Raise, Rescope,
     Types, ScopeForward, CacheIsNewest, Newest, Carries, CarriedIsNewest
<1>10. CASE PushBase(t)
  BY ConstantFacts, NextCommit, Moves, <1>10 DEF PushBase, Is, To, snap, Types, ScopeForward,
     CacheIsNewest, Newest, Carries, CarriedIsNewest
<1>11. CASE PushAccepted(t)
  BY ConstantFacts, NextCommit, Moves, <1>11 DEF PushAccepted, To, snap, Types, ScopeForward,
     CacheIsNewest, Newest, Carries, CarriedIsNewest
<1>12. CASE PushFailed(t)
  BY ConstantFacts, NextCommit, Moves, <1>12 DEF PushFailed, To, snap, Types, ScopeForward,
     CacheIsNewest, Newest, Carries, CarriedIsNewest
<1>13. CASE PushRecord(t)
  BY ConstantFacts, NextCommit, Moves, <1>13 DEF PushRecord, Record, Bump, To, Rescope, Types,
     ScopeForward, CacheIsNewest, Newest, Carries, CarriedIsNewest
<1>14. CASE PushUnrecorded(t)
  BY ConstantFacts, NextCommit, Moves, <1>14 DEF PushUnrecorded, To, snap, Types, ScopeForward,
     CacheIsNewest, Newest, Carries, CarriedIsNewest
<1>15. CASE PushUnknown(t)
  BY ConstantFacts, NextCommit, Moves, <1>15 DEF PushUnknown, Invalidate, Bump, To, Rescope,
     Types, ScopeForward, CacheIsNewest, Newest, Carries, CarriedIsNewest
<1>16. CASE EnterScope(t)
  BY ConstantFacts, NextCommit, <1>16 DEF EnterScope, snap, Types, ScopeForward, CacheIsNewest,
     Newest, Carries, CarriedIsNewest
<1>17. CASE LeaveScope(t)
  BY ConstantFacts, NextCommit, <1>17 DEF LeaveScope, snap, Types, ScopeForward, CacheIsNewest,
     Newest, Carries, CarriedIsNewest
<1> QED
  BY <1>1, <1>2, <1>3, <1>4, <1>5, <1>6, <1>7, <1>8, <1>9, <1>10, <1>11, <1>12, <1>13, <1>14,
     <1>15, <1>16, <1>17 DEF Step


LEMMA ElsewhereStep == IInv /\ (Tick \/ OtherWriter \/ UNCHANGED vars) => IInv' /\ ScopeForward
<1> SUFFICES ASSUME IInv, Tick \/ OtherWriter \/ UNCHANGED vars PROVE IInv' /\ ScopeForward
  OBVIOUS
<1>1. /\ UNCHANGED <<sha, hint, error, lock, call, moved, scope, answer, pushed, seen, floor>>
      /\ remote' \in Commits /\ remote <= remote'
      /\ fresh' \in BOOLEAN /\ backoff' \in BOOLEAN
  <2>1. CASE Tick
    <3>1. UNCHANGED <<remote, sha, hint, error, lock, call, moved, scope, answer, pushed, seen, floor>>
      BY <2>1 DEF Tick
    <3>2. fresh' \in BOOLEAN /\ backoff' \in BOOLEAN
      BY <2>1 DEF Tick, IInv, Types
    <3>3. remote \in Commits
      BY DEF IInv, Types
    <3> QED
      BY <3>1, <3>2, <3>3, ConstantFacts
  <2>2. CASE OtherWriter
    BY <2>2, ConstantFacts, NextCommit DEF IInv, Types, OtherWriter, snap
  <2>3. CASE UNCHANGED vars
    BY <2>3, ConstantFacts DEF IInv, Types, vars
  <2> QED
    BY <2>1, <2>2, <2>3
<1>2. Types' /\ OneHolder'
  BY <1>1 DEF IInv, Types, OneHolder
<1>3. Bounded'
  <2>1. \A c \in Commits : c <= remote => c <= remote'
    BY <1>1, ConstantFacts DEF IInv, Types
  <2> QED
    BY <1>1, <2>1 DEF IInv, Types, Bounded, Carries
<1>4. CacheIsNewest' /\ CarriedIsNewest' /\ FloorsHeld' /\ QueuedSees'
  BY <1>1 DEF IInv, CacheIsNewest, CarriedIsNewest, FloorsHeld, QueuedSees, Newest, Carries
<1>5. SharedReadsMonotone' /\ ForcedSeesOwnPushes'
  BY <1>1 DEF IInv, SharedReadsMonotone, ForcedSeesOwnPushes
<1>6. ScopeForward
  BY <1>1, ConstantFacts DEF ScopeForward
<1> QED
  BY <1>2, <1>3, <1>4, <1>5, <1>6 DEF IInv

LEMMA InitIInv == Init => IInv
<1> SUFFICES ASSUME Init PROVE IInv
  OBVIOUS
<1>1. \A t \in Threads : /\ call[t] = Idle /\ scope[t] = NoScope /\ answer[t] = None
                         /\ floor[t].seen = 0 /\ floor[t].pushed = 0
  BY DEF Init
<1>2. Idle \in Calls /\ Idle.step = "idle" /\ Idle.op = "none"
  BY DEF Idle, Calls
<1>3. Types
  BY <1>2, ConstantFacts DEF Init, Types
<1>4. OneHolder
  BY <1>1, <1>2, ConstantFacts DEF Init, OneHolder, Holding
<1>5. Bounded /\ CacheIsNewest /\ CarriedIsNewest /\ FloorsHeld /\ QueuedSees
  BY <1>1, <1>2, ConstantFacts DEF Init, Bounded, CacheIsNewest, CarriedIsNewest, FloorsHeld,
     QueuedSees, Carries
<1>6. SharedReadsMonotone /\ ForcedSeesOwnPushes
  BY <1>1, <1>2, ConstantFacts DEF SharedReadsMonotone, ForcedSeesOwnPushes
<1> QED
  BY <1>3, <1>4, <1>5, <1>6 DEF IInv

LEMMA NextIInv == IInv /\ [Next]_vars => IInv' /\ ScopeForward
<1> SUFFICES ASSUME IInv, [Next]_vars PROVE IInv' /\ ScopeForward
  OBVIOUS
<1>1. ASSUME NEW t \in Threads, Step(t) PROVE IInv' /\ ScopeForward
  <2>1. Types' /\ OneHolder'
    BY <1>1, StepHolder, StepCalls, StepCache DEF IInv, Types, CacheTypes
  <2>2. Bounded' /\ CacheIsNewest' /\ CarriedIsNewest' /\ FloorsHeld' /\ QueuedSees'
    BY <1>1, StepBounded, StepCacheNewest, StepCarried, StepFloors, StepQueued DEF IInv
  <2>3. SharedReadsMonotone' /\ ForcedSeesOwnPushes' /\ ScopeForward
    BY <1>1, StepShared, StepForced, StepScope DEF IInv
  <2> QED
    BY <2>1, <2>2, <2>3 DEF IInv
<1> QED
  BY <1>1, ElsewhereStep DEF Next

LEMMA Invariance == Spec => []IInv
BY InitIInv, NextIInv, PTL DEF Spec

\* Every variable keeps its type, the hint is the cached commit, and one thread
\* at a time is at a fetch or a push under git_lock.
THEOREM TypeCorrect == Spec => []TypeOK
<1>1. IInv => TypeOK
  BY DEF IInv, OneHolder, Types, TypeOK
<1> QED
  BY <1>1, Invariance, PTL

\* Nothing that is not on the branch shows up in the cache, a scope or an answer,
\* however pushes end and their replies get lost.
THEOREM ReadsArePublished == Spec => []PublishedOnly
<1>1. IInv => PublishedOnly
  <2> SUFFICES ASSUME IInv PROVE PublishedOnly
    OBVIOUS
  <2>1. hint \in Commits => hint <= remote
    BY ConstantFacts DEF IInv, Types, Bounded
  <2> QED
    BY <2>1 DEF IInv, Bounded, PublishedOnly
<1> QED
  BY <1>1, Invariance, PTL

\* A read or peek that starts after another one returned answers no older
\* commit, in any thread.
THEOREM SharedReadsAreMonotone == Spec => []SharedReadsMonotone
BY Invariance, PTL DEF IInv

\* A forced read, also one that coalesced with another, holds everything this
\* Bridge had pushed before the call.
THEOREM ForcedReadsSeePushes == Spec => []ForcedSeesOwnPushes
BY Invariance, PTL DEF IInv

\* The commit a read scope pins only moves forward.
THEOREM ScopesMoveForward == Spec => ScopeNeverRewinds
<1>1. IInv /\ [Next]_vars => [ScopeForward]_vars
  BY NextIInv
<1>2. [][ScopeForward]_vars => ScopeNeverRewinds
  BY DEF ScopeForward, ScopeNeverRewinds
<1> QED
  BY <1>1, <1>2, Invariance, PTL DEF Spec
=============================================================================
