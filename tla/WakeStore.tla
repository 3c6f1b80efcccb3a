------------------------------ MODULE WakeStore ------------------------------
(***************************************************************************)
(* The Bridge's wake queue (local_bridge/server.py, class WakeStore).      *)
(* A wake is one JSON file that lives in up to three folders: inbox/,      *)
(* claimed/ and consumed/.  Every operation runs under the store's lock,   *)
(* but it touches several files one after the other, so a Bridge crash or  *)
(* an OSError in the middle leaves the files half moved.  A same-generation*)
(* Worker retry (local_bridge/worker_retry.py) rewrites the same files.    *)
(***************************************************************************)
EXTENDS Naturals, FiniteSets

CONSTANTS
    Wakes,      \* wake identities
    Clients,    \* client identities: Playwright Hosts
    Lanes,      \* lane ids
    LaneOf,     \* the lane each wake is addressed to
    Rank,       \* order of (created_at, file name), distinct per wake
    Retries,    \* request ids of same-generation retry controls
    RetryOf,    \* the wake each retry control names
    NoFile,     \* "there is no such file"
    Plain,      \* the tag of a wake without _same_generation_retry
    AnyLane,    \* a claim that names no lane
    NoOne,      \* no client, and no wake: the fields of an idle operation
    MaxFaults   \* bound: crashes and failed file operations in a behaviour

Tags   == Retries \cup {Plain}
Claims == [client : Clients, live : BOOLEAN, tag : Tags]

ASSUME WakeStoreAssumption ==
    /\ LaneOf \in [Wakes -> Lanes]
    /\ Rank \in [Wakes -> Nat]
    /\ \A v, w \in Wakes : Rank[v] = Rank[w] => v = w
    /\ RetryOf \in [Retries -> Wakes]
    /\ Plain \notin Retries
    /\ NoFile \notin Tags \cup Claims
    /\ AnyLane \notin Lanes
    /\ NoOne \notin Clients \cup Wakes
    /\ MaxFaults \in Nat

VARIABLES
    inbox,      \* inbox[w]: the tag of w's file in inbox/, or NoFile
    claimed,    \* claimed[w]: the record in claimed/ (live: lease not expired)
    consumed,   \* the wakes with a file in consumed/
    op,         \* the operation that holds store.lock
    handed,     \* <<client, wake, tag>>: what claims have returned
    control,    \* control[r]: the durable status of retry control r
    begun,      \* retries whose first begin call is between its push and the lock
    saved,      \* retries whose replacement conversation a Host has saved
    ended,      \* wakes whose dispatch has left RUNNING or was replaced
    emitted,    \* history: the wakes emit wrote to the inbox
    torn,       \* history: the wakes a broken-off operation left half moved
    faults      \* crashes and failed file operations so far

files   == <<inbox, claimed, consumed>>
retry   == <<control, begun, saved, ended>>
history == <<emitted, torn>>
vars    == <<inbox, claimed, consumed, op, handed, control, begun, saved, ended,
             emitted, torn, faults>>

\* The lock holder: what it does, how far it is, its arguments, the wake whose
\* expired claim is being moved back, and the claims it found expired
\* (todo: not recovered yet, dead: all of them).
Ops == [kind : {"none", "emit", "claim", "consume", "release", "requeue"},
        step : {"idle", "recover", "recoverUnlink", "main", "unlinkInbox",
                "unlinkClaim", "unlinkConsumed", "write"},
        client : Clients \cup {NoOne}, wake : Wakes \cup {NoOne},
        lane : Lanes \cup {AnyLane}, tag : Tags, moving : Wakes \cup {NoOne},
        todo : SUBSET Wakes, dead : SUBSET Wakes]

Idle == [kind |-> "none", step |-> "idle", client |-> NoOne, wake |-> NoOne,
         lane |-> AnyLane, tag |-> Plain, moving |-> NoOne, todo |-> {}, dead |-> {}]

TypeOK ==
    /\ inbox \in [Wakes -> Tags \cup {NoFile}]
    /\ claimed \in [Wakes -> Claims \cup {NoFile}]
    /\ consumed \subseteq Wakes
    /\ op \in Ops
    /\ handed \subseteq Clients \X Wakes \X Tags
    /\ control \in [Retries -> {"none", "applying", "done"}]
    /\ begun \subseteq Retries /\ saved \subseteq Retries
    /\ ended \subseteq Wakes
    /\ emitted \subseteq Wakes
    /\ torn \subseteq Wakes
    /\ faults \in 0..MaxFaults

Init ==
    /\ inbox = [w \in Wakes |-> NoFile]
    /\ claimed = [w \in Wakes |-> NoFile]
    /\ consumed = {}
    /\ op = Idle
    /\ handed = {}
    /\ control = [r \in Retries |-> "none"]
    /\ begun = {} /\ saved = {} /\ ended = {}
    /\ emitted = {} /\ torn = {}
    /\ faults = 0

Working(kind, step) == op.kind = kind /\ op.step = step

Expired == {w \in Wakes : claimed[w] # NoFile /\ ~claimed[w].live}

HeldByOther(w, c) == claimed[w].client # c /\ claimed[w].live

Received(c, w) == \E t \in Tags : <<c, w, t>> \in handed

Without(folder, w) == [folder EXCEPT ![w] = NoFile]

-----------------------------------------------------------------------------
(* emit and claim first recover the claims whose lease ran out.             *)

StartEmit(w) ==
    /\ op.step = "idle"
    /\ op' = [Idle EXCEPT !.kind = "emit", !.step = "recover", !.wake = w,
                          !.todo = Expired, !.dead = Expired]
    /\ UNCHANGED <<files, handed, retry, history, faults>>

StartClaim(c, lane) ==
    /\ op.step = "idle"
    /\ op' = [Idle EXCEPT !.kind = "claim", !.step = "recover", !.client = c,
                          !.lane = lane, !.todo = Expired, !.dead = Expired]
    /\ UNCHANGED <<files, handed, retry, history, faults>>

\* Mutant: files the whole claim record instead of the wake inside it.
RecoverWriteRecord(w) ==
    /\ op.step = "recover" /\ w \in op.todo
    /\ inbox' = [inbox EXCEPT ![w] = claimed[w]]
    /\ op' = [op EXCEPT !.step = "recoverUnlink", !.moving = w, !.todo = @ \ {w}]
    /\ UNCHANGED <<claimed, consumed, handed, retry, history, faults>>

\* _recover_expired, per file: put the wake back unless a copy exists ...
RecoverWrite(w) ==
    /\ op.step = "recover" /\ w \in op.todo
    /\ inbox' = IF inbox[w] = NoFile /\ w \notin consumed
                THEN [inbox EXCEPT ![w] = claimed[w].tag] ELSE inbox
    /\ op' = [op EXCEPT !.step = "recoverUnlink", !.moving = w, !.todo = @ \ {w}]
    /\ UNCHANGED <<claimed, consumed, handed, retry, history, faults>>

\* Mutant: leaves the claim file alone when the wake is already consumed.
RecoverUnlinkUnlessConsumed ==
    /\ op.step = "recoverUnlink"
    /\ claimed' = IF op.moving \in consumed THEN claimed ELSE Without(claimed, op.moving)
    /\ op' = [op EXCEPT !.step = "recover", !.moving = NoOne]
    /\ UNCHANGED <<inbox, consumed, handed, retry, history, faults>>

\* ... then unlink the claim.
RecoverUnlink ==
    /\ op.step = "recoverUnlink"
    /\ claimed' = Without(claimed, op.moving)
    /\ op' = [op EXCEPT !.step = "recover", !.moving = NoOne]
    /\ UNCHANGED <<inbox, consumed, handed, retry, history, faults>>

\* An error while one claim is recovered is swallowed: the loop goes on.
RecoverFail ==
    /\ op.step = "recoverUnlink" /\ faults < MaxFaults
    /\ op' = [op EXCEPT !.step = "recover", !.moving = NoOne]
    /\ torn' = torn \cup {op.moving}
    /\ faults' = faults + 1
    /\ UNCHANGED <<files, handed, retry, emitted>>

RecoverDone ==
    /\ op.step = "recover" /\ op.todo = {}
    /\ op' = [op EXCEPT !.step = "main"]
    /\ UNCHANGED <<files, handed, retry, history, faults>>

-----------------------------------------------------------------------------
(* emit: publish a wake unless any folder already has it.                   *)

\* Mutant: looks for a duplicate in the inbox only.
EmitChecksInboxOnly ==
    /\ Working("emit", "main")
    /\ inbox' = [inbox EXCEPT ![op.wake] = IF @ = NoFile THEN Plain ELSE @]
    /\ emitted' = emitted \cup {op.wake}
    /\ op' = Idle
    /\ UNCHANGED <<claimed, consumed, handed, retry, torn, faults>>

EmitMain ==
    /\ Working("emit", "main")
    /\ IF inbox[op.wake] # NoFile \/ claimed[op.wake] # NoFile \/ op.wake \in consumed
       THEN UNCHANGED <<inbox, emitted>>
       ELSE /\ inbox' = [inbox EXCEPT ![op.wake] = Plain]
            /\ emitted' = emitted \cup {op.wake}
    /\ op' = Idle
    /\ UNCHANGED <<claimed, consumed, handed, retry, torn, faults>>

-----------------------------------------------------------------------------
(* claim: this client's own unexpired claim again, or else the oldest wake. *)

OnLane(w) == op.lane \in {AnyLane, LaneOf[w]}

OwnClaims == {w \in Wakes \ op.dead : /\ claimed[w] # NoFile
                                      /\ claimed[w].client = op.client
                                      /\ OnLane(w)}

Candidates == {w \in Wakes : inbox[w] # NoFile /\ OnLane(w)}

Oldest(w) == w \in Candidates /\ \A v \in Candidates : Rank[w] <= Rank[v]

ClaimAgain(w) ==
    /\ Working("claim", "main")
    /\ w \in OwnClaims
    /\ handed' = handed \cup {<<op.client, w, claimed[w].tag>>}
    /\ op' = Idle
    /\ UNCHANGED <<files, retry, history, faults>>

ClaimNothing ==
    /\ Working("claim", "main")
    /\ OwnClaims = {} /\ Candidates = {}
    /\ op' = Idle
    /\ UNCHANGED <<files, handed, retry, history, faults>>

ClaimWrite(w) ==
    /\ Working("claim", "main")
    /\ OwnClaims = {} /\ Oldest(w)
    /\ claimed' = [claimed EXCEPT ![w] =
                     [client |-> op.client, live |-> TRUE, tag |-> inbox[w]]]
    /\ op' = [op EXCEPT !.step = "unlinkInbox", !.wake = w]
    /\ UNCHANGED <<inbox, consumed, handed, retry, history, faults>>

ClaimUnlink ==
    /\ Working("claim", "unlinkInbox")
    /\ inbox' = Without(inbox, op.wake)
    /\ handed' = handed \cup {<<op.client, op.wake, claimed[op.wake].tag>>}
    /\ op' = Idle
    /\ UNCHANGED <<claimed, consumed, retry, history, faults>>

-----------------------------------------------------------------------------
(* consume: file the wake as done, then unlink its claim and inbox files.   *)

\* The Host consumes a retry wake only after its control is complete, or, and
\* then without completing it, when the dispatch is not RUNNING any more.
RetrySettled(w) ==
    claimed[w] # NoFile /\ claimed[w].tag # Plain
        => control[claimed[w].tag] = "done" \/ w \in ended

\* Mutant: the lease of another client is no reason to refuse.
ConsumeRefusedUnlessClaimed(c, w) == w \in consumed \/ claimed[w] = NoFile

\* Already consumed, not claimed, or another client's: nothing changes.
ConsumeRefused(c, w) ==
    w \in consumed \/ claimed[w] = NoFile \/ HeldByOther(w, c)

StartConsume(c, w) ==
    /\ op.step = "idle" /\ Received(c, w)
    /\ ~ConsumeRefused(c, w) /\ RetrySettled(w)
    /\ consumed' = consumed \cup {w}
    /\ op' = [Idle EXCEPT !.kind = "consume", !.step = "unlinkClaim", !.client = c, !.wake = w]
    /\ UNCHANGED <<inbox, claimed, handed, retry, emitted, torn, faults>>

ConsumeUnlinkClaim ==
    /\ Working("consume", "unlinkClaim")
    /\ claimed' = Without(claimed, op.wake)
    /\ op' = [op EXCEPT !.step = "unlinkInbox"]
    /\ UNCHANGED <<inbox, consumed, handed, retry, history, faults>>

ConsumeUnlinkInbox ==
    /\ Working("consume", "unlinkInbox")
    /\ inbox' = Without(inbox, op.wake)
    /\ op' = Idle
    /\ UNCHANGED <<claimed, consumed, handed, retry, history, faults>>

-----------------------------------------------------------------------------
(* release: put a claimed wake back for any client.                         *)

\* Mutant: only the claim is unlinked, nothing is put back.
StartReleaseNoCopy(c, w) ==
    /\ op.step = "idle" /\ Received(c, w)
    /\ w \notin consumed /\ claimed[w] # NoFile /\ ~HeldByOther(w, c)
    /\ op' = [Idle EXCEPT !.kind = "release", !.step = "unlinkClaim", !.client = c, !.wake = w]
    /\ UNCHANGED <<files, handed, retry, history, faults>>

StartRelease(c, w) ==
    /\ op.step = "idle" /\ Received(c, w)
    /\ w \notin consumed /\ claimed[w] # NoFile /\ ~HeldByOther(w, c)
    /\ inbox' = [inbox EXCEPT ![w] = claimed[w].tag]
    /\ op' = [Idle EXCEPT !.kind = "release", !.step = "unlinkClaim", !.client = c, !.wake = w]
    /\ UNCHANGED <<claimed, consumed, handed, retry, history, faults>>

ReleaseUnlinkClaim ==
    /\ Working("release", "unlinkClaim")
    /\ claimed' = Without(claimed, op.wake)
    /\ op' = Idle
    /\ UNCHANGED <<inbox, consumed, handed, retry, history, faults>>

-----------------------------------------------------------------------------
(* Same-generation retry: one control request at a time; its wake is put    *)
(* back into the inbox although it was consumed, tagged with the request.   *)

\* begin, of a PENDING control whose dispatch is RUNNING (so its wake was handed
\* to a Host): push APPLYING.  The call goes on to the queue, or it ends here:
\* the push is reported as failed, or the Bridge stops.
RetryApply(r) ==
    /\ control[r] = "none" /\ RetryOf[r] \notin ended
    /\ \A q \in Retries : control[q] # "applying"
    /\ \E c \in Clients : Received(c, RetryOf[r])
    /\ control' = [control EXCEPT ![r] = "applying"]
    /\ begun' \in {begun, begun \cup {r}}
    /\ UNCHANGED <<files, op, handed, saved, ended, history, faults>>

\* Mutant: any copy of the wake counts, whatever request it carries.
RequeuedAnyCopy(r) ==
    inbox[RetryOf[r]] # NoFile \/ claimed[RetryOf[r]] # NoFile \/ RetryOf[r] \in consumed

\* A copy of this very request in the inbox or under a claim is left alone.
Requeued(r) ==
    \/ inbox[RetryOf[r]] = r
    \/ claimed[RetryOf[r]] # NoFile /\ claimed[RetryOf[r]].tag = r

\* begin goes on with the files.  Re-entered for an APPLYING control it looks at
\* the dispatch first, and refuses, changing nothing, once it is not RUNNING.
StartRequeue(r) ==
    /\ op.step = "idle" /\ control[r] = "applying" /\ ~Requeued(r)
    /\ r \in begun \/ RetryOf[r] \notin ended
    /\ begun' = begun \ {r}
    /\ inbox' = Without(inbox, RetryOf[r])
    /\ op' = [Idle EXCEPT !.kind = "requeue", !.step = "unlinkClaim",
                          !.wake = RetryOf[r], !.tag = r]
    /\ UNCHANGED <<claimed, consumed, handed, control, saved, ended, history, faults>>

RequeueUnlinkClaim ==
    /\ Working("requeue", "unlinkClaim")
    /\ claimed' = Without(claimed, op.wake)
    /\ op' = [op EXCEPT !.step = "unlinkConsumed"]
    /\ UNCHANGED <<inbox, consumed, handed, retry, history, faults>>

RequeueUnlinkConsumed ==
    /\ Working("requeue", "unlinkConsumed")
    /\ consumed' = consumed \ {op.wake}
    /\ op' = [op EXCEPT !.step = "write"]
    /\ UNCHANGED <<inbox, claimed, handed, retry, history, faults>>

RequeueWrite ==
    /\ Working("requeue", "write")
    /\ inbox' = [inbox EXCEPT ![op.wake] = op.tag]
    /\ op' = Idle
    /\ UNCHANGED <<claimed, consumed, handed, retry, history, faults>>

\* A Host that was handed the retry wake starts the replacement conversation and
\* saves it.  The dispatch may end between its look at the dispatch and the save.
ReplacementSaved(r) ==
    /\ control[r] = "applying" /\ r \notin saved
    /\ \E c \in Clients : <<c, RetryOf[r], r>> \in handed
    /\ saved' = saved \cup {r}
    /\ UNCHANGED <<files, op, handed, control, begun, ended, history, faults>>

\* complete: the receipt of a saved replacement, from the lane or from a later
\* tick of the control; whether the dispatch is still RUNNING does not matter.
RetryComplete(r) ==
    /\ control[r] = "applying" /\ r \in saved
    /\ control' = [control EXCEPT ![r] = "done"]
    /\ UNCHANGED <<files, op, handed, begun, saved, ended, history, faults>>

-----------------------------------------------------------------------------
(* The environment.                                                         *)

\* Time passes: the lease of a claim runs out.
Expire(w) ==
    /\ claimed[w] # NoFile /\ claimed[w].live
    /\ claimed' = [claimed EXCEPT ![w].live = FALSE]
    /\ UNCHANGED <<inbox, consumed, op, handed, retry, history, faults>>

\* The dispatch of a wake ends or is replaced; the retry control is not told.
DispatchEnds(w) ==
    /\ w \in emitted \ ended
    /\ ended' = ended \cup {w}
    /\ UNCHANGED <<files, op, handed, control, begun, saved, history, faults>>

HalfMoved ==
    IF op.step = "recoverUnlink" THEN {op.moving}
    ELSE IF op.step \in {"recover", "main"} THEN {} ELSE {op.wake}

\* The Bridge stops, or a file operation raises, in the middle of an operation.
\* A stop also ends the begin calls that wait for the lock.
Crash ==
    /\ op.step # "idle" /\ faults < MaxFaults
    /\ torn' = torn \cup HalfMoved
    /\ faults' = faults + 1
    /\ op' = Idle
    /\ begun' \in {begun, {}}
    /\ UNCHANGED <<files, handed, control, saved, ended, emitted>>

Emit == \E w \in Wakes : StartEmit(w)
Claim == \E c \in Clients, lane \in Lanes \cup {AnyLane} : StartClaim(c, lane)
Consume == \E c \in Clients, w \in Wakes : StartConsume(c, w)
Release == \E c \in Clients, w \in Wakes : StartRelease(c, w)

\* The steps of the operation that holds the lock.
Proceed ==
    \/ \E w \in Wakes : RecoverWrite(w)
    \/ RecoverUnlink \/ RecoverDone
    \/ EmitMain
    \/ \E w \in Wakes : ClaimAgain(w)
    \/ ClaimNothing
    \/ \E w \in Wakes : ClaimWrite(w)
    \/ ClaimUnlink
    \/ ConsumeUnlinkClaim \/ ConsumeUnlinkInbox
    \/ ReleaseUnlinkClaim
    \/ RequeueUnlinkClaim \/ RequeueUnlinkConsumed \/ RequeueWrite

Next ==
    \/ Emit \/ Claim \/ Consume \/ Release
    \/ Proceed
    \/ RecoverFail \/ Crash
    \/ \E w \in Wakes : Expire(w) \/ DispatchEnds(w)
    \/ \E r \in Retries : \/ RetryApply(r) \/ StartRequeue(r)
                           \/ ReplacementSaved(r) \/ RetryComplete(r)

Spec == Init /\ [][Next]_vars

\* r's wake lies claimed by the Host that is to start the replacement.
AtHost(r) == claimed[RetryOf[r]] # NoFile /\ claimed[RetryOf[r]].tag = r

\* The lock holder runs on, leases run out, the Hosts poll every lane.  A wake
\* may be released time and again: the Host is only sure to consume it when it
\* finds its dispatch ended.  A Host whose retry is APPLYING re-enters begin, and
\* while the dispatch is RUNNING it starts the replacement in the end; what it
\* saved it reports until the report is taken.
Fairness ==
    /\ WF_vars(Proceed)
    /\ \A w \in Wakes : WF_vars(Expire(w))
    /\ \A c \in Clients, lane \in Lanes : SF_vars(StartClaim(c, lane))
    /\ \A w \in Wakes : SF_vars(w \in ended /\ \E c \in Clients : StartConsume(c, w))
    /\ \A r \in Retries :
          /\ SF_vars(StartRequeue(r))
          /\ SF_vars(RetryOf[r] \notin ended /\ AtHost(r) /\ ReplacementSaved(r))
          /\ WF_vars(RetryComplete(r))

FairSpec == Spec /\ Fairness

-----------------------------------------------------------------------------
(* Correctness.                                                             *)

InSomeFolder(w) == inbox[w] # NoFile \/ claimed[w] # NoFile \/ w \in consumed

RetryUnsettled(w) == \E r \in Retries : RetryOf[r] = w /\ control[r] = "applying"

\* No wake is lost: from the moment emit publishes it until a client consumes
\* it, every wake has a file in some folder, whatever operation broke off
\* where.  The only gap is inside a retry's requeue: then the durable control
\* is APPLYING, so the Host re-enters it (RetryReaches says what comes of that).
NoWakeLost ==
    \A w \in emitted : InSomeFolder(w) \/ RetryUnsettled(w)

\* Between operations a wake that no broken-off operation touched has at most
\* one file: it waits, or is claimed, or is consumed.  So a consumed wake is
\* never delivered again and a claimed one is not offered to a second client.
OneCopy ==
    op.step = "idle" =>
        \A w \in Wakes \ torn :
            /\ inbox[w] # NoFile => claimed[w] = NoFile /\ w \notin consumed
            /\ claimed[w] # NoFile => w \notin consumed

\* A live lease is exclusive: no step hands the claim of an unexpired lease
\* straight to another client, unless an interrupted claim left the inbox copy
\* behind.
LeaseExclusive ==
    [][\A w \in Wakes \ torn :
          claimed[w] # NoFile /\ claimed[w].live /\ claimed'[w] # NoFile
              => claimed'[w].client = claimed[w].client]_vars

\* Where the files say that a wake is: a consumed file tells before a claim, and
\* a claim before a copy in the inbox.
Place(w) ==
    IF w \in consumed THEN "consumed"
    ELSE IF claimed[w] = NoFile THEN IF inbox[w] = NoFile THEN "out" ELSE "waiting"
    ELSE IF claimed[w].live THEN "leased" ELSE "lapsed"

Holder(w) == IF w \notin consumed /\ claimed[w] # NoFile THEN claimed[w].client ELSE NoOne

Queue == INSTANCE WakeQueue WITH
    place <- [w \in Wakes |-> Place(w)],
    holder <- [w \in Wakes |-> Holder(w)],
    received <- {<<h[1], h[2]>> : h \in handed},
    retried <- {RetryOf[r] : r \in {q \in Retries : control[q] # "none"}},
    broken <- torn

\* Whatever files are moved, in between operations that break off, a wake goes
\* the way WakeQueue promises: it waits, is leased to one Host until that Host or
\* time ends the lease, and is consumed by a Host that was handed it; a retry
\* alone takes it back, and a second copy exists of broken wakes only.
ImplementsWakeQueue == Queue!Spec

\* A Host holds an older wake of w's lane, for a dispatch that goes on: claim
\* hands out the oldest first, so w has to wait.
OlderServed(w) ==
    \E v \in Wakes \ ended :
        LaneOf[v] = LaneOf[w] /\ Rank[v] < Rank[w] /\ Place(v) = "leased"


\* The copies an interrupted consume or claim leaves of a consumed wake go away:
\* they are claimed at most until the lease runs out and recovery drops them
\* (if an older wake of the lane does not take its place at every claim).
LeftoversVanish ==
    \A w \in Wakes :
        (w \in consumed /\ (inbox[w] # NoFile \/ claimed[w] # NoFile))
            ~> \/ w \notin consumed \/ (inbox[w] = NoFile /\ claimed[w] = NoFile)
               \/ OlderServed(w)

\* However often its requeue breaks off, an APPLYING retry reaches a Host, which
\* completes it, unless its dispatch ends before a replacement is saved: then begin
\* refuses and the control may stay APPLYING for ever, but what is saved is reported
\* also after that.  (As above, if no older wake is in the way.)
RetryReaches ==
    \A r \in Retries :
        control[r] = "applying" ~> \/ control[r] = "done"
                                   \/ RetryOf[r] \in ended /\ r \notin saved
                                   \/ OlderServed(RetryOf[r])

=============================================================================
