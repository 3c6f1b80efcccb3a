--------------------------- MODULE WakeStoreProofs ---------------------------
(***************************************************************************)
(* Proofs about the wake queue, for any sets of wakes, Hosts, lanes and    *)
(* retry controls and any number of faults.  The inductive invariant says  *)
(* what the lock holder can rely on between its file operations, and how   *)
(* the tags of the copies relate to the retry controls.                    *)
(***************************************************************************)
EXTENDS WakeStore, TLAPS

\* A copy of wake w that carries tag t waits in the inbox or is claimed.
Tagged(w, t) == inbox[w] = t \/ (claimed[w] # NoFile /\ claimed[w].tag = t)

\* Some Host was handed the wake of retry r, tagged with r.
HandedOut(r) == \E c \in Clients : <<c, RetryOf[r], r>> \in handed

\* The lock holder has the arguments its steps use.
OpShape ==
    /\ op.step \in {"recover", "recoverUnlink", "main"} => op.kind \in {"emit", "claim"}
    /\ op.step = "idle" => op.wake = NoOne
    /\ op.kind = "emit" => op.wake \in Wakes
    /\ op.kind = "claim" => op.client \in Clients
    /\ op.step \in {"unlinkInbox", "unlinkClaim", "unlinkConsumed", "write"} => op.wake \in Wakes
    /\ op.step = "recoverUnlink" => op.moving \in Wakes \ op.todo
    /\ op.kind = "requeue" => op.tag \in Retries /\ op.wake = RetryOf[op.tag]

\* What the files look like at each step of the lock holder.
StepFiles ==
    /\ op.step \in {"recover", "recoverUnlink"} => \A w \in op.todo : claimed[w] # NoFile
    /\ op.step = "recoverUnlink" => inbox[op.moving] # NoFile \/ op.moving \in consumed
    /\ Working("claim", "unlinkInbox") => claimed[op.wake] # NoFile
    /\ op.kind = "consume" => op.wake \in consumed
    /\ op.kind = "release" => inbox[op.wake] # NoFile
    /\ op.kind = "requeue" => inbox[op.wake] = NoFile
    /\ op.kind = "requeue" /\ op.step \in {"unlinkConsumed", "write"} => claimed[op.wake] = NoFile
    /\ Working("requeue", "write") => op.wake \notin consumed

\* Two copies of a wake carry the same tag, and a copy of a consumed wake
\* belongs to a retry that is done or whose dispatch has ended.
CopyTags ==
    \A w \in Wakes :
        /\ inbox[w] # NoFile /\ claimed[w] # NoFile => inbox[w] = claimed[w].tag
        /\ w \in consumed => \A r \in Retries : Tagged(w, r) => control[r] = "done" \/ w \in ended

\* One retry control is applied at a time.
OneApplying ==
    \A q, r \in Retries : control[q] = "applying" /\ control[r] = "applying" => q = r

\* The queue and the Hosts know nothing of a retry that was not applied, or
\* whose first begin call has not reached the queue.
Unknown ==
    \A r \in Retries : control[r] = "none" \/ r \in begun =>
        \A w \in Wakes : ~Tagged(w, r) /\ \A c \in Clients : <<c, w, r>> \notin handed

\* A retry wake that a Host was handed has a copy until its control is done, or
\* is consumed because its dispatch has ended.
ConsumedAtEnd(w) == w \in ended /\ w \in consumed

HandedKept ==
    \A r \in Retries : control[r] = "applying" /\ HandedOut(r) =>
        Tagged(RetryOf[r], r) \/ ConsumedAtEnd(RetryOf[r])

\* A replacement was saved by a Host that was handed the retry's wake.
SavedHanded == \A r \in saved : HandedOut(r)

\* A requeue works for a control that is open and that no Host can complete.
RequeueOpen ==
    op.kind = "requeue" =>
        /\ control[op.tag] = "applying" /\ op.tag \notin begun
        /\ \A r \in Retries : control[r] = "applying" /\ RetryOf[r] = op.wake => ~HandedOut(r)

Apart(w) ==
    /\ inbox[w] # NoFile => claimed[w] = NoFile /\ w \notin consumed
    /\ claimed[w] # NoFile => w \notin consumed

\* Of the wakes no operation broke off on, only the one the lock holder is
\* moving may have two files, and that one is about to lose the right one.
CopiesApart ==
    /\ \A w \in Wakes \ torn : w \notin HalfMoved => Apart(w)
    /\ op.step = "recoverUnlink" /\ op.moving \notin torn => op.moving \notin consumed
    /\ Working("claim", "unlinkInbox") /\ op.wake \notin torn => op.wake \notin consumed
    /\ Working("consume", "unlinkInbox") => claimed[op.wake] = NoFile
    /\ op.kind = "release" => op.wake \notin consumed

IInv ==
    /\ TypeOK /\ OpShape /\ StepFiles
    /\ CopyTags /\ OneApplying /\ Unknown /\ HandedKept /\ SavedHanded /\ RequeueOpen
    /\ NoWakeLost /\ CopiesApart

-----------------------------------------------------------------------------
(* What the steps that write or change a claim file leave in it.            *)

LEMMA ClaimFile ==
  ASSUME TypeOK, NEW w \in Wakes, claimed[w] # NoFile
  PROVE  /\ claimed[w] \in Claims
         /\ claimed[w].tag \in Tags
         /\ claimed[w].tag # NoFile
<1>1. claimed[w] \in Claims
  BY DEF TypeOK
<1>2. QED
  BY <1>1, WakeStoreAssumption DEF Claims

LEMMA ClaimWriteEffect ==
  ASSUME TypeOK, NEW w \in Wakes, op.client \in Clients, ClaimWrite(w)
  PROVE  /\ claimed'[w] \in Claims
         /\ claimed'[w] # NoFile
         /\ claimed'[w].tag = inbox[w]
         /\ \A v \in Wakes : v # w => claimed'[v] = claimed[v]
<1> DEFINE record == [client |-> op.client, live |-> TRUE, tag |-> inbox[w]]
<1>1. inbox[w] \in Tags
  BY DEF ClaimWrite, Oldest, Candidates, TypeOK
<1>2. record \in Claims
  BY <1>1 DEF Claims
<1>3. claimed' = [claimed EXCEPT ![w] = record]
  BY DEF ClaimWrite
<1>4. QED
  BY <1>2, <1>3, WakeStoreAssumption DEF TypeOK

LEMMA ExpireEffect ==
  ASSUME TypeOK, NEW w \in Wakes, Expire(w)
  PROVE  /\ claimed'[w] \in Claims
         /\ claimed'[w] # NoFile
         /\ claimed'[w].client = claimed[w].client
         /\ claimed'[w].tag = claimed[w].tag
         /\ \A v \in Wakes : v # w => claimed'[v] = claimed[v]
<1> DEFINE record == [claimed[w] EXCEPT !.live = FALSE]
<1>1. claimed[w] \in Claims
  BY DEF Expire, TypeOK
<1>2. record \in Claims /\ record.tag = claimed[w].tag /\ record.client = claimed[w].client
  BY <1>1 DEF Claims
<1>3. claimed' = [claimed EXCEPT ![w] = record]
  BY DEF Expire
<1>4. QED
  BY <1>2, <1>3, WakeStoreAssumption DEF TypeOK

-----------------------------------------------------------------------------
(* Every step keeps every part of the invariant.                            *)

\* Every step keeps the types.
LEMMA TypeStep ==
  ASSUME TypeOK, OpShape, StepFiles, [Next]_vars
  PROVE  TypeOK'
<1> USE WakeStoreAssumption DEF TypeOK, Ops, Idle, Claims, Tags, Working, Without,
        files, retry, history, OpShape, StepFiles
<1>1. ASSUME NEW w \in Wakes, StartEmit(w) PROVE TypeOK'
  BY <1>1 DEF StartEmit, Expired
<1>2. ASSUME NEW c \in Clients, NEW lane \in Lanes \cup {AnyLane}, StartClaim(c, lane) PROVE TypeOK'
  BY <1>2 DEF StartClaim, Expired
<1>3. ASSUME NEW w \in Wakes, RecoverWrite(w) PROVE TypeOK'
  BY <1>3 DEF RecoverWrite
<1>4. ASSUME RecoverUnlink PROVE TypeOK'
  BY <1>4 DEF RecoverUnlink
<1>5. ASSUME RecoverFail PROVE TypeOK'
  <2>1. op' \in Ops
    BY WakeStoreAssumption, <1>5 DEF RecoverFail, TypeOK, Ops
  <2>2. torn' \subseteq Wakes
    BY <1>5 DEF RecoverFail, TypeOK, OpShape
  <2>3. faults' \in 0..MaxFaults
    BY WakeStoreAssumption, <1>5 DEF RecoverFail, TypeOK
  <2>4. QED
    BY <1>5, <2>1, <2>2, <2>3 DEF RecoverFail
<1>6. ASSUME RecoverDone PROVE TypeOK'
  BY <1>6 DEF RecoverDone
<1>7. ASSUME EmitMain PROVE TypeOK'
  BY <1>7 DEF EmitMain
<1>8. ASSUME NEW w \in Wakes, ClaimAgain(w) PROVE TypeOK'
  BY <1>8 DEF ClaimAgain, OwnClaims
<1>9. ASSUME ClaimNothing PROVE TypeOK'
  BY <1>9 DEF ClaimNothing
<1>10. ASSUME NEW w \in Wakes, ClaimWrite(w) PROVE TypeOK'
  BY <1>10 DEF ClaimWrite, Oldest, Candidates
<1>11. ASSUME ClaimUnlink PROVE TypeOK'
  BY <1>11 DEF ClaimUnlink
<1>12. ASSUME NEW c \in Clients, NEW w \in Wakes, StartConsume(c, w) PROVE TypeOK'
  BY <1>12 DEF StartConsume
<1>13. ASSUME ConsumeUnlinkClaim PROVE TypeOK'
  BY <1>13 DEF ConsumeUnlinkClaim
<1>14. ASSUME ConsumeUnlinkInbox PROVE TypeOK'
  BY <1>14 DEF ConsumeUnlinkInbox
<1>15. ASSUME NEW c \in Clients, NEW w \in Wakes, StartRelease(c, w) PROVE TypeOK'
  BY <1>15 DEF StartRelease
<1>16. ASSUME ReleaseUnlinkClaim PROVE TypeOK'
  BY <1>16 DEF ReleaseUnlinkClaim
<1>17. ASSUME NEW r \in Retries, RetryApply(r) PROVE TypeOK'
  BY <1>17 DEF RetryApply
<1>18. ASSUME NEW r \in Retries, StartRequeue(r) PROVE TypeOK'
  BY <1>18 DEF StartRequeue
<1>19. ASSUME RequeueUnlinkClaim PROVE TypeOK'
  BY <1>19 DEF RequeueUnlinkClaim
<1>20. ASSUME RequeueUnlinkConsumed PROVE TypeOK'
  BY <1>20 DEF RequeueUnlinkConsumed
<1>21. ASSUME RequeueWrite PROVE TypeOK'
  BY <1>21 DEF RequeueWrite
<1>22. ASSUME NEW r \in Retries, RetryComplete(r) PROVE TypeOK'
  BY <1>22 DEF RetryComplete
<1>23. ASSUME NEW r \in Retries, ReplacementSaved(r) PROVE TypeOK'
  BY <1>23 DEF ReplacementSaved
<1>24. ASSUME NEW w \in Wakes, DispatchEnds(w) PROVE TypeOK'
  BY <1>24 DEF DispatchEnds
<1>25. ASSUME NEW w \in Wakes, Expire(w) PROVE TypeOK'
  <2>1. claimed' \in [Wakes -> Claims \cup {NoFile}]
    BY <1>25, ExpireEffect DEF TypeOK, Expire
  <2>2. QED
    BY <1>25, <2>1 DEF Expire
<1>26. ASSUME Crash PROVE TypeOK'
  BY <1>26 DEF Crash, HalfMoved
<1>27. ASSUME UNCHANGED vars PROVE TypeOK'
  BY <1>27 DEF vars
<1>28. QED
  BY <1>1, <1>2, <1>3, <1>4, <1>5, <1>6, <1>7, <1>8, <1>9, <1>10, <1>11, <1>12,
     <1>13, <1>14, <1>15, <1>16, <1>17, <1>18, <1>19, <1>20, <1>21, <1>22, <1>23, <1>24,
     <1>25, <1>26, <1>27 DEF Next, Emit, Claim, Consume, Release, Proceed

\* Every step leaves the lock holder with the arguments its next step needs.
LEMMA ShapeStep ==
  ASSUME TypeOK, OpShape, [Next]_vars
  PROVE  OpShape'
<1> USE WakeStoreAssumption DEF TypeOK, Ops, Idle, Claims, Tags, Working, Without,
        files, retry, history, OpShape
<1>1. ASSUME NEW w \in Wakes, StartEmit(w) PROVE OpShape'
  BY <1>1 DEF StartEmit
<1>2. ASSUME NEW c \in Clients, NEW lane \in Lanes \cup {AnyLane}, StartClaim(c, lane) PROVE OpShape'
  BY <1>2 DEF StartClaim
<1>3. ASSUME NEW w \in Wakes, RecoverWrite(w) PROVE OpShape'
  BY <1>3 DEF RecoverWrite
<1>4. ASSUME RecoverUnlink PROVE OpShape'
  BY <1>4 DEF RecoverUnlink
<1>5. ASSUME RecoverFail PROVE OpShape'
  BY <1>5 DEF RecoverFail
<1>6. ASSUME RecoverDone PROVE OpShape'
  BY <1>6 DEF RecoverDone
<1>7. ASSUME EmitMain PROVE OpShape'
  BY <1>7 DEF EmitMain
<1>8. ASSUME NEW w \in Wakes, ClaimAgain(w) PROVE OpShape'
  BY <1>8 DEF ClaimAgain
<1>9. ASSUME ClaimNothing PROVE OpShape'
  BY <1>9 DEF ClaimNothing
<1>10. ASSUME NEW w \in Wakes, ClaimWrite(w) PROVE OpShape'
  BY <1>10 DEF ClaimWrite
<1>11. ASSUME ClaimUnlink PROVE OpShape'
  BY <1>11 DEF ClaimUnlink
<1>12. ASSUME NEW c \in Clients, NEW w \in Wakes, StartConsume(c, w) PROVE OpShape'
  BY <1>12 DEF StartConsume
<1>13. ASSUME ConsumeUnlinkClaim PROVE OpShape'
  BY <1>13 DEF ConsumeUnlinkClaim
<1>14. ASSUME ConsumeUnlinkInbox PROVE OpShape'
  BY <1>14 DEF ConsumeUnlinkInbox
<1>15. ASSUME NEW c \in Clients, NEW w \in Wakes, StartRelease(c, w) PROVE OpShape'
  BY <1>15 DEF StartRelease
<1>16. ASSUME ReleaseUnlinkClaim PROVE OpShape'
  BY <1>16 DEF ReleaseUnlinkClaim
<1>17. ASSUME NEW r \in Retries, RetryApply(r) PROVE OpShape'
  BY <1>17 DEF RetryApply
<1>18. ASSUME NEW r \in Retries, StartRequeue(r) PROVE OpShape'
  BY <1>18 DEF StartRequeue
<1>19. ASSUME RequeueUnlinkClaim PROVE OpShape'
  BY <1>19 DEF RequeueUnlinkClaim
<1>20. ASSUME RequeueUnlinkConsumed PROVE OpShape'
  BY <1>20 DEF RequeueUnlinkConsumed
<1>21. ASSUME RequeueWrite PROVE OpShape'
  BY <1>21 DEF RequeueWrite
<1>22. ASSUME NEW r \in Retries, RetryComplete(r) PROVE OpShape'
  BY <1>22 DEF RetryComplete
<1>23. ASSUME NEW r \in Retries, ReplacementSaved(r) PROVE OpShape'
  BY <1>23 DEF ReplacementSaved
<1>24. ASSUME NEW w \in Wakes, DispatchEnds(w) PROVE OpShape'
  BY <1>24 DEF DispatchEnds
<1>25. ASSUME NEW w \in Wakes, Expire(w) PROVE OpShape'
  BY <1>25 DEF Expire
<1>26. ASSUME Crash PROVE OpShape'
  BY <1>26 DEF Crash
<1>27. ASSUME UNCHANGED vars PROVE OpShape'
  BY <1>27 DEF vars
<1>28. QED
  BY <1>1, <1>2, <1>3, <1>4, <1>5, <1>6, <1>7, <1>8, <1>9, <1>10, <1>11, <1>12,
     <1>13, <1>14, <1>15, <1>16, <1>17, <1>18, <1>19, <1>20, <1>21, <1>22, <1>23, <1>24,
     <1>25, <1>26, <1>27 DEF Next, Emit, Claim, Consume, Release, Proceed

\* Every step leaves the files as the lock holder's next step needs them.
LEMMA FilesStep ==
  ASSUME TypeOK, OpShape, StepFiles, [Next]_vars
  PROVE  StepFiles'
<1> USE WakeStoreAssumption DEF TypeOK, Ops, Idle, Claims, Tags, Working, Without,
        files, retry, history, OpShape, StepFiles
<1>1. ASSUME NEW w \in Wakes, StartEmit(w) PROVE StepFiles'
  BY <1>1 DEF StartEmit, Expired
<1>2. ASSUME NEW c \in Clients, NEW lane \in Lanes \cup {AnyLane}, StartClaim(c, lane) PROVE StepFiles'
  BY <1>2 DEF StartClaim, Expired
<1>3. ASSUME NEW w \in Wakes, RecoverWrite(w) PROVE StepFiles'
  <2>1. claimed[w].tag # NoFile /\ claimed[w].tag \in Tags
    BY <1>3, ClaimFile DEF RecoverWrite, StepFiles
  <2>2. QED
    BY <1>3, <2>1 DEF RecoverWrite
<1>4. ASSUME RecoverUnlink PROVE StepFiles'
  BY <1>4 DEF RecoverUnlink
<1>5. ASSUME RecoverFail PROVE StepFiles'
  BY <1>5 DEF RecoverFail
<1>6. ASSUME RecoverDone PROVE StepFiles'
  BY <1>6 DEF RecoverDone
<1>7. ASSUME EmitMain PROVE StepFiles'
  BY <1>7 DEF EmitMain
<1>8. ASSUME NEW w \in Wakes, ClaimAgain(w) PROVE StepFiles'
  BY <1>8 DEF ClaimAgain
<1>9. ASSUME ClaimNothing PROVE StepFiles'
  BY <1>9 DEF ClaimNothing
<1>10. ASSUME NEW w \in Wakes, ClaimWrite(w) PROVE StepFiles'
  <2>1. op.client \in Clients
    BY <1>10 DEF ClaimWrite, Working, OpShape
  <2>2. /\ claimed'[w] # NoFile /\ claimed'[w].tag = inbox[w]
        /\ \A v \in Wakes : v # w => claimed'[v] = claimed[v]
    BY <1>10, <2>1, ClaimWriteEffect
  <2>3. QED
    BY <1>10, <2>1, <2>2 DEF ClaimWrite
<1>11. ASSUME ClaimUnlink PROVE StepFiles'
  BY <1>11 DEF ClaimUnlink
<1>12. ASSUME NEW c \in Clients, NEW w \in Wakes, StartConsume(c, w) PROVE StepFiles'
  BY <1>12 DEF StartConsume, ConsumeRefused
<1>13. ASSUME ConsumeUnlinkClaim PROVE StepFiles'
  BY <1>13 DEF ConsumeUnlinkClaim
<1>14. ASSUME ConsumeUnlinkInbox PROVE StepFiles'
  BY <1>14 DEF ConsumeUnlinkInbox
<1>15. ASSUME NEW c \in Clients, NEW w \in Wakes, StartRelease(c, w) PROVE StepFiles'
  <2>1. claimed[w].tag # NoFile /\ claimed[w].tag \in Tags
    BY <1>15, ClaimFile DEF StartRelease
  <2>2. QED
    BY <1>15, <2>1 DEF StartRelease
<1>16. ASSUME ReleaseUnlinkClaim PROVE StepFiles'
  BY <1>16 DEF ReleaseUnlinkClaim
<1>17. ASSUME NEW r \in Retries, RetryApply(r) PROVE StepFiles'
  BY <1>17 DEF RetryApply
<1>18. ASSUME NEW r \in Retries, StartRequeue(r) PROVE StepFiles'
  BY <1>18 DEF StartRequeue
<1>19. ASSUME RequeueUnlinkClaim PROVE StepFiles'
  BY <1>19 DEF RequeueUnlinkClaim
<1>20. ASSUME RequeueUnlinkConsumed PROVE StepFiles'
  BY <1>20 DEF RequeueUnlinkConsumed
<1>21. ASSUME RequeueWrite PROVE StepFiles'
  BY <1>21 DEF RequeueWrite
<1>22. ASSUME NEW r \in Retries, RetryComplete(r) PROVE StepFiles'
  BY <1>22 DEF RetryComplete
<1>23. ASSUME NEW r \in Retries, ReplacementSaved(r) PROVE StepFiles'
  BY <1>23 DEF ReplacementSaved
<1>24. ASSUME NEW w \in Wakes, DispatchEnds(w) PROVE StepFiles'
  BY <1>24 DEF DispatchEnds
<1>25. ASSUME NEW w \in Wakes, Expire(w) PROVE StepFiles'
  <2>1. /\ claimed'[w] # NoFile /\ claimed'[w].tag = claimed[w].tag
        /\ \A v \in Wakes : v # w => claimed'[v] = claimed[v]
    BY <1>25, ExpireEffect
  <2>2. QED
    BY <1>25, <2>1 DEF Expire
<1>26. ASSUME Crash PROVE StepFiles'
  BY <1>26 DEF Crash
<1>27. ASSUME UNCHANGED vars PROVE StepFiles'
  BY <1>27 DEF vars
<1>28. QED
  BY <1>1, <1>2, <1>3, <1>4, <1>5, <1>6, <1>7, <1>8, <1>9, <1>10, <1>11, <1>12,
     <1>13, <1>14, <1>15, <1>16, <1>17, <1>18, <1>19, <1>20, <1>21, <1>22, <1>23, <1>24,
     <1>25, <1>26, <1>27 DEF Next, Emit, Claim, Consume, Release, Proceed

\* The two copies of a wake stay the same wake, a consumed one stays settled.
LEMMA TagsStep ==
  ASSUME TypeOK, OpShape, StepFiles, CopyTags, Unknown, [Next]_vars
  PROVE  CopyTags'
<1> USE WakeStoreAssumption DEF TypeOK, Ops, Idle, Claims, Tags, Working, Without,
        files, retry, history, OpShape, StepFiles, CopyTags, Tagged
<1>1. ASSUME UNCHANGED <<inbox, claimed, consumed, control, ended>> PROVE CopyTags'
  BY <1>1
<1>2. ASSUME NEW w \in Wakes, RecoverWrite(w) PROVE CopyTags'
  BY <1>2 DEF RecoverWrite
<1>3. ASSUME RecoverUnlink PROVE CopyTags'
  BY <1>3 DEF RecoverUnlink
<1>4. ASSUME EmitMain PROVE CopyTags'
  BY <1>4 DEF EmitMain
<1>5. ASSUME NEW w \in Wakes, ClaimAgain(w) PROVE CopyTags'
  BY <1>5 DEF ClaimAgain
<1>6. ASSUME NEW w \in Wakes, ClaimWrite(w) PROVE CopyTags'
  BY <1>6 DEF ClaimWrite, Oldest, Candidates
<1>7. ASSUME ClaimUnlink PROVE CopyTags'
  BY <1>7 DEF ClaimUnlink
<1>8. ASSUME NEW c \in Clients, NEW w \in Wakes, StartConsume(c, w) PROVE CopyTags'
  BY <1>8 DEF StartConsume, ConsumeRefused, RetrySettled
<1>9. ASSUME ConsumeUnlinkClaim PROVE CopyTags'
  BY <1>9 DEF ConsumeUnlinkClaim
<1>10. ASSUME ConsumeUnlinkInbox PROVE CopyTags'
  BY <1>10 DEF ConsumeUnlinkInbox
<1>11. ASSUME NEW c \in Clients, NEW w \in Wakes, StartRelease(c, w) PROVE CopyTags'
  BY <1>11 DEF StartRelease
<1>12. ASSUME ReleaseUnlinkClaim PROVE CopyTags'
  BY <1>12 DEF ReleaseUnlinkClaim
<1>13. ASSUME NEW r \in Retries, RetryApply(r) PROVE CopyTags'
  BY <1>13 DEF RetryApply, Unknown
<1>14. ASSUME NEW r \in Retries, StartRequeue(r) PROVE CopyTags'
  BY <1>14 DEF StartRequeue
<1>15. ASSUME RequeueUnlinkClaim PROVE CopyTags'
  BY <1>15 DEF RequeueUnlinkClaim
<1>16. ASSUME RequeueUnlinkConsumed PROVE CopyTags'
  BY <1>16 DEF RequeueUnlinkConsumed
<1>17. ASSUME RequeueWrite PROVE CopyTags'
  BY <1>17 DEF RequeueWrite
<1>18. ASSUME NEW r \in Retries, RetryComplete(r) PROVE CopyTags'
  BY <1>18 DEF RetryComplete
<1>19. ASSUME NEW r \in Retries, ReplacementSaved(r) PROVE CopyTags'
  BY <1>19 DEF ReplacementSaved
<1>20. ASSUME NEW w \in Wakes, DispatchEnds(w) PROVE CopyTags'
  BY <1>20 DEF DispatchEnds
<1>21. ASSUME NEW w \in Wakes, Expire(w) PROVE CopyTags'
  BY <1>21 DEF Expire
<1>22. QED
  BY <1>1, <1>2, <1>3, <1>4, <1>5, <1>6, <1>7, <1>8, <1>9, <1>10, <1>11, <1>12,
     <1>13, <1>14, <1>15, <1>16, <1>17, <1>18, <1>19, <1>20, <1>21 DEF Next, Emit, Claim,
     Consume, Release, Proceed, vars, files, retry, history, StartEmit, StartClaim,
     RecoverFail, RecoverDone, ClaimNothing, Crash

\* Retries are applied one at a time.
LEMMA OneApplyingStep ==
  ASSUME TypeOK, OneApplying, [Next]_vars
  PROVE  OneApplying'
<1> USE WakeStoreAssumption DEF TypeOK, OneApplying
<1>1. ASSUME UNCHANGED <<control>> PROVE OneApplying'
  BY <1>1
<1>2. ASSUME NEW r \in Retries, RetryApply(r) PROVE OneApplying'
  BY <1>2 DEF RetryApply
<1>3. ASSUME NEW r \in Retries, RetryComplete(r) PROVE OneApplying'
  BY <1>3 DEF RetryComplete
<1>4. QED
  BY <1>1, <1>2, <1>3 DEF Next, Emit, Claim, Consume, Release, Proceed, vars,
     files, retry, history, StartEmit, StartClaim, RecoverWrite, RecoverUnlink,
     RecoverFail, RecoverDone, EmitMain, ClaimAgain, ClaimNothing, ClaimWrite,
     ClaimUnlink, StartConsume, ConsumeUnlinkClaim, ConsumeUnlinkInbox,
     StartRelease, ReleaseUnlinkClaim, StartRequeue, RequeueUnlinkClaim,
     RequeueUnlinkConsumed, RequeueWrite, ReplacementSaved, Expire, DispatchEnds, Crash

\* The queue does not know a retry before its control is applied.
LEMMA UnknownStep ==
  ASSUME TypeOK, OpShape, StepFiles, Unknown, RequeueOpen, [Next]_vars
  PROVE  Unknown'
<1> USE WakeStoreAssumption DEF TypeOK, Ops, Idle, Claims, Tags, Working, Without,
        files, retry, history, OpShape, StepFiles, Unknown, Tagged
<1>1. ASSUME UNCHANGED <<inbox, claimed, handed, control>>, begun' \subseteq begun PROVE Unknown'
  BY <1>1
<1>2. ASSUME NEW w \in Wakes, RecoverWrite(w) PROVE Unknown'
  BY <1>2 DEF RecoverWrite
<1>3. ASSUME RecoverUnlink PROVE Unknown'
  BY <1>3 DEF RecoverUnlink
<1>4. ASSUME EmitMain PROVE Unknown'
  BY <1>4 DEF EmitMain
<1>5. ASSUME NEW w \in Wakes, ClaimAgain(w) PROVE Unknown'
  BY <1>5 DEF ClaimAgain, OwnClaims
<1>6. ASSUME NEW w \in Wakes, ClaimWrite(w) PROVE Unknown'
  BY <1>6 DEF ClaimWrite, Oldest, Candidates
<1>7. ASSUME ClaimUnlink PROVE Unknown'
  BY <1>7 DEF ClaimUnlink
<1>8. ASSUME NEW c \in Clients, NEW w \in Wakes, StartConsume(c, w) PROVE Unknown'
  BY <1>8 DEF StartConsume
<1>9. ASSUME ConsumeUnlinkClaim PROVE Unknown'
  BY <1>9 DEF ConsumeUnlinkClaim
<1>10. ASSUME ConsumeUnlinkInbox PROVE Unknown'
  BY <1>10 DEF ConsumeUnlinkInbox
<1>11. ASSUME NEW c \in Clients, NEW w \in Wakes, StartRelease(c, w) PROVE Unknown'
  BY <1>11 DEF StartRelease
<1>12. ASSUME ReleaseUnlinkClaim PROVE Unknown'
  BY <1>12 DEF ReleaseUnlinkClaim
<1>13. ASSUME NEW r \in Retries, RetryApply(r) PROVE Unknown'
  BY <1>13 DEF RetryApply
<1>14. ASSUME NEW r \in Retries, StartRequeue(r) PROVE Unknown'
  BY <1>14 DEF StartRequeue
<1>15. ASSUME RequeueUnlinkClaim PROVE Unknown'
  BY <1>15 DEF RequeueUnlinkClaim
<1>16. ASSUME RequeueUnlinkConsumed PROVE Unknown'
  BY <1>16 DEF RequeueUnlinkConsumed
<1>17. ASSUME RequeueWrite PROVE Unknown'
  BY <1>17 DEF RequeueWrite, RequeueOpen
<1>18. ASSUME NEW r \in Retries, RetryComplete(r) PROVE Unknown'
  BY <1>18 DEF RetryComplete
<1>19. ASSUME NEW r \in Retries, ReplacementSaved(r) PROVE Unknown'
  BY <1>19 DEF ReplacementSaved
<1>20. ASSUME NEW w \in Wakes, DispatchEnds(w) PROVE Unknown'
  BY <1>20 DEF DispatchEnds
<1>21. ASSUME NEW w \in Wakes, Expire(w) PROVE Unknown'
  BY <1>21 DEF Expire
<1>22. QED
  BY <1>1, <1>2, <1>3, <1>4, <1>5, <1>6, <1>7, <1>8, <1>9, <1>10, <1>11, <1>12,
     <1>13, <1>14, <1>15, <1>16, <1>17, <1>18, <1>19, <1>20, <1>21 DEF Next, Emit, Claim,
     Consume, Release, Proceed, vars, files, retry, history, StartEmit, StartClaim,
     RecoverFail, RecoverDone, ClaimNothing, Crash

\* The wake of a retry that a Host was handed keeps its copy while the control
\* is APPLYING: whatever removes one copy leaves the other, or is another wake's.
LEMMA HandedKeptStep ==
  ASSUME TypeOK, OpShape, StepFiles, CopyTags, OneApplying, Unknown, HandedKept,
         RequeueOpen, [Next]_vars
  PROVE  HandedKept'
<1> SUFFICES ASSUME NEW p \in Retries, control'[p] = "applying", HandedOut(p)'
             PROVE  (Tagged(RetryOf[p], p) \/ ConsumedAtEnd(RetryOf[p]))'
  BY DEF HandedKept
<1>a. RetryOf[p] \in Wakes /\ p # NoFile /\ p \in Tags
  BY WakeStoreAssumption DEF Tags
<1>b. HandedOut(p) /\ control[p] = "applying" => Tagged(RetryOf[p], p) \/ ConsumedAtEnd(RetryOf[p])
  BY DEF HandedKept
<1>c. RetryOf[p] \in consumed /\ control[p] = "applying" /\ Tagged(RetryOf[p], p)
         => RetryOf[p] \in ended
  BY <1>a DEF CopyTags
<1>d. inbox[RetryOf[p]] # NoFile /\ claimed[RetryOf[p]] # NoFile
         => inbox[RetryOf[p]] = claimed[RetryOf[p]].tag
  BY <1>a DEF CopyTags
<1> USE WakeStoreAssumption, <1>a, <1>b, <1>c, <1>d DEF Tagged, ConsumedAtEnd, HandedOut,
        TypeOK, StepFiles, OpShape, Working, Without, files, retry, history
<1>1. ASSUME UNCHANGED <<inbox, claimed, consumed, handed, control, ended>>
      PROVE (Tagged(RetryOf[p], p) \/ ConsumedAtEnd(RetryOf[p]))'
  BY <1>1
<1>2. ASSUME NEW w \in Wakes, RecoverWrite(w) PROVE (Tagged(RetryOf[p], p) \/ ConsumedAtEnd(RetryOf[p]))'
  <2>1. claimed[w].tag # NoFile /\ claimed[w].tag \in Tags
    BY <1>2, ClaimFile DEF RecoverWrite, StepFiles
  <2>2. QED
    BY <1>2, <2>1 DEF RecoverWrite
<1>3. ASSUME RecoverUnlink PROVE (Tagged(RetryOf[p], p) \/ ConsumedAtEnd(RetryOf[p]))'
  BY <1>3 DEF RecoverUnlink
<1>4. ASSUME EmitMain PROVE (Tagged(RetryOf[p], p) \/ ConsumedAtEnd(RetryOf[p]))'
  BY <1>4 DEF EmitMain
<1>5. ASSUME NEW w \in Wakes, ClaimAgain(w) PROVE (Tagged(RetryOf[p], p) \/ ConsumedAtEnd(RetryOf[p]))'
  BY <1>5 DEF ClaimAgain, OwnClaims
<1>6. ASSUME NEW w \in Wakes, ClaimWrite(w) PROVE (Tagged(RetryOf[p], p) \/ ConsumedAtEnd(RetryOf[p]))'
  <2>1. op.client \in Clients
    BY <1>6 DEF ClaimWrite, Working, OpShape
  <2>2. /\ claimed'[w] # NoFile /\ claimed'[w].tag = inbox[w]
        /\ \A v \in Wakes : v # w => claimed'[v] = claimed[v]
    BY <1>6, <2>1, ClaimWriteEffect
  <2>3. QED
    BY <1>6, <2>1, <2>2 DEF ClaimWrite, Oldest, Candidates
<1>7. ASSUME ClaimUnlink PROVE (Tagged(RetryOf[p], p) \/ ConsumedAtEnd(RetryOf[p]))'
  BY <1>7 DEF ClaimUnlink
<1>8. ASSUME NEW c \in Clients, NEW w \in Wakes, StartConsume(c, w) PROVE (Tagged(RetryOf[p], p) \/ ConsumedAtEnd(RetryOf[p]))'
  BY <1>8 DEF StartConsume
<1>9. ASSUME ConsumeUnlinkClaim PROVE (Tagged(RetryOf[p], p) \/ ConsumedAtEnd(RetryOf[p]))'
  BY <1>9 DEF ConsumeUnlinkClaim
<1>10. ASSUME ConsumeUnlinkInbox PROVE (Tagged(RetryOf[p], p) \/ ConsumedAtEnd(RetryOf[p]))'
  BY <1>10 DEF ConsumeUnlinkInbox
<1>11. ASSUME NEW c \in Clients, NEW w \in Wakes, StartRelease(c, w) PROVE (Tagged(RetryOf[p], p) \/ ConsumedAtEnd(RetryOf[p]))'
  <2>1. claimed[w].tag # NoFile /\ claimed[w].tag \in Tags
    BY <1>11, ClaimFile DEF StartRelease
  <2>2. QED
    BY <1>11, <2>1 DEF StartRelease
<1>12. ASSUME ReleaseUnlinkClaim PROVE (Tagged(RetryOf[p], p) \/ ConsumedAtEnd(RetryOf[p]))'
  BY <1>12 DEF ReleaseUnlinkClaim
<1>13. ASSUME NEW r \in Retries, RetryApply(r) PROVE (Tagged(RetryOf[p], p) \/ ConsumedAtEnd(RetryOf[p]))'
  BY <1>13 DEF RetryApply, Unknown
<1>14. ASSUME NEW r \in Retries, StartRequeue(r) PROVE (Tagged(RetryOf[p], p) \/ ConsumedAtEnd(RetryOf[p]))'
  BY <1>14 DEF StartRequeue, OneApplying, Requeued
<1>15. ASSUME RequeueUnlinkClaim PROVE (Tagged(RetryOf[p], p) \/ ConsumedAtEnd(RetryOf[p]))'
  BY <1>15 DEF RequeueUnlinkClaim, RequeueOpen
<1>16. ASSUME RequeueUnlinkConsumed PROVE (Tagged(RetryOf[p], p) \/ ConsumedAtEnd(RetryOf[p]))'
  BY <1>16 DEF RequeueUnlinkConsumed, RequeueOpen
<1>17. ASSUME RequeueWrite PROVE (Tagged(RetryOf[p], p) \/ ConsumedAtEnd(RetryOf[p]))'
  BY <1>17 DEF RequeueWrite, RequeueOpen
<1>18. ASSUME NEW r \in Retries, RetryComplete(r) PROVE (Tagged(RetryOf[p], p) \/ ConsumedAtEnd(RetryOf[p]))'
  BY <1>18 DEF RetryComplete
<1>19. ASSUME NEW r \in Retries, ReplacementSaved(r) PROVE (Tagged(RetryOf[p], p) \/ ConsumedAtEnd(RetryOf[p]))'
  BY <1>19 DEF ReplacementSaved
<1>20. ASSUME NEW w \in Wakes, DispatchEnds(w) PROVE (Tagged(RetryOf[p], p) \/ ConsumedAtEnd(RetryOf[p]))'
  BY <1>20 DEF DispatchEnds
<1>21. ASSUME NEW w \in Wakes, Expire(w) PROVE (Tagged(RetryOf[p], p) \/ ConsumedAtEnd(RetryOf[p]))'
  <2>1. /\ claimed'[w] # NoFile /\ claimed'[w].tag = claimed[w].tag
        /\ \A v \in Wakes : v # w => claimed'[v] = claimed[v]
    BY <1>21, ExpireEffect
  <2>2. QED
    BY <1>21, <2>1 DEF Expire
<1>22. QED
  BY <1>1, <1>2, <1>3, <1>4, <1>5, <1>6, <1>7, <1>8, <1>9, <1>10, <1>11, <1>12,
     <1>13, <1>14, <1>15, <1>16, <1>17, <1>18, <1>19, <1>20, <1>21 DEF Next, Emit, Claim,
     Consume, Release, Proceed, vars, files, retry, history, StartEmit, StartClaim,
     RecoverFail, RecoverDone, ClaimNothing, Crash

\* What was handed out stays handed out; a save needs it.
LEMMA SavedHandedStep ==
  ASSUME SavedHanded, [Next]_vars
  PROVE  SavedHanded'
<1>1. handed \subseteq handed'
  BY DEF Next, Emit, Claim, Consume, Release, Proceed, vars, files, retry, history,
     StartEmit, StartClaim, RecoverWrite, RecoverUnlink, RecoverFail, RecoverDone,
     EmitMain, ClaimAgain, ClaimNothing, ClaimWrite, ClaimUnlink, StartConsume,
     ConsumeUnlinkClaim, ConsumeUnlinkInbox, StartRelease, ReleaseUnlinkClaim,
     RetryApply, StartRequeue, RequeueUnlinkClaim, RequeueUnlinkConsumed, RequeueWrite,
     RetryComplete, ReplacementSaved, Expire, DispatchEnds, Crash
<1>2. saved' = saved \/ \E r \in Retries : ReplacementSaved(r)
  BY DEF Next, Emit, Claim, Consume, Release, Proceed, vars, files, retry, history,
     StartEmit, StartClaim, RecoverWrite, RecoverUnlink, RecoverFail, RecoverDone,
     EmitMain, ClaimAgain, ClaimNothing, ClaimWrite, ClaimUnlink, StartConsume,
     ConsumeUnlinkClaim, ConsumeUnlinkInbox, StartRelease, ReleaseUnlinkClaim,
     RetryApply, StartRequeue, RequeueUnlinkClaim, RequeueUnlinkConsumed, RequeueWrite,
     RetryComplete, Expire, DispatchEnds, Crash
<1>3. \A r : HandedOut(r) => HandedOut(r)'
  BY <1>1 DEF HandedOut
<1>4. CASE saved' = saved
  BY <1>3, <1>4 DEF SavedHanded
<1>5. ASSUME NEW r \in Retries, ReplacementSaved(r) PROVE SavedHanded'
  BY <1>3, <1>5 DEF ReplacementSaved, SavedHanded, HandedOut
<1>6. QED
  BY <1>2, <1>4, <1>5

\* While a requeue is under way, its control is open and its wake in no hand.
LEMMA RequeueOpenStep ==
  ASSUME TypeOK, OpShape, Unknown, OneApplying, HandedKept, SavedHanded, RequeueOpen,
         [Next]_vars
  PROVE  RequeueOpen'
<1> USE WakeStoreAssumption DEF TypeOK, Ops, Idle, Claims, Tags, Working, Without,
        files, retry, history, OpShape, RequeueOpen, HandedOut
<1>1. ASSUME NEW w \in Wakes, StartEmit(w) PROVE RequeueOpen'
  BY <1>1 DEF StartEmit
<1>2. ASSUME NEW c \in Clients, NEW lane \in Lanes \cup {AnyLane}, StartClaim(c, lane) PROVE RequeueOpen'
  BY <1>2 DEF StartClaim
<1>3. ASSUME NEW w \in Wakes, RecoverWrite(w) PROVE RequeueOpen'
  BY <1>3 DEF RecoverWrite
<1>4. ASSUME RecoverUnlink PROVE RequeueOpen'
  BY <1>4 DEF RecoverUnlink
<1>5. ASSUME RecoverFail PROVE RequeueOpen'
  BY <1>5 DEF RecoverFail
<1>6. ASSUME RecoverDone PROVE RequeueOpen'
  BY <1>6 DEF RecoverDone
<1>7. ASSUME EmitMain PROVE RequeueOpen'
  BY <1>7 DEF EmitMain
<1>8. ASSUME NEW w \in Wakes, ClaimAgain(w) PROVE RequeueOpen'
  BY <1>8 DEF ClaimAgain
<1>9. ASSUME ClaimNothing PROVE RequeueOpen'
  BY <1>9 DEF ClaimNothing
<1>10. ASSUME NEW w \in Wakes, ClaimWrite(w) PROVE RequeueOpen'
  BY <1>10 DEF ClaimWrite
<1>11. ASSUME ClaimUnlink PROVE RequeueOpen'
  BY <1>11 DEF ClaimUnlink
<1>12. ASSUME NEW c \in Clients, NEW w \in Wakes, StartConsume(c, w) PROVE RequeueOpen'
  BY <1>12 DEF StartConsume
<1>13. ASSUME ConsumeUnlinkClaim PROVE RequeueOpen'
  BY <1>13 DEF ConsumeUnlinkClaim
<1>14. ASSUME ConsumeUnlinkInbox PROVE RequeueOpen'
  BY <1>14 DEF ConsumeUnlinkInbox
<1>15. ASSUME NEW c \in Clients, NEW w \in Wakes, StartRelease(c, w) PROVE RequeueOpen'
  BY <1>15 DEF StartRelease
<1>16. ASSUME ReleaseUnlinkClaim PROVE RequeueOpen'
  BY <1>16 DEF ReleaseUnlinkClaim
<1>17. ASSUME NEW r \in Retries, RetryApply(r) PROVE RequeueOpen'
  BY <1>17 DEF RetryApply, Unknown
<1>18. ASSUME NEW r \in Retries, StartRequeue(r) PROVE RequeueOpen'
  <2>1. ~HandedOut(r)
    <3>1. CASE r \in begun
      BY <3>1, WakeStoreAssumption DEF Unknown, HandedOut
    <3>2. CASE RetryOf[r] \notin ended
      BY <1>18, <3>2, WakeStoreAssumption DEF StartRequeue, HandedKept, ConsumedAtEnd, Tagged, Requeued
    <3> QED
      BY <1>18, <3>1, <3>2 DEF StartRequeue
  <2>2. \A q \in Retries : control[q] = "applying" => ~HandedOut(q)
    BY <1>18, <2>1 DEF StartRequeue, OneApplying
  <2>3. /\ control' = control /\ handed' = handed
        /\ op'.tag = r /\ op'.wake = RetryOf[r] /\ control[r] = "applying" /\ r \notin begun'
    BY <1>18 DEF StartRequeue, Idle
  <2> QED
    BY <2>2, <2>3 DEF HandedOut
<1>19. ASSUME RequeueUnlinkClaim PROVE RequeueOpen'
  BY <1>19 DEF RequeueUnlinkClaim
<1>20. ASSUME RequeueUnlinkConsumed PROVE RequeueOpen'
  BY <1>20 DEF RequeueUnlinkConsumed
<1>21. ASSUME RequeueWrite PROVE RequeueOpen'
  BY <1>21 DEF RequeueWrite
<1>22. ASSUME NEW r \in Retries, RetryComplete(r) PROVE RequeueOpen'
  <2>1. HandedOut(r) /\ control[r] = "applying" /\ op' = op
    BY <1>22 DEF RetryComplete, SavedHanded
  <2>2. CASE op.kind = "requeue"
    BY <2>1, <2>2, WakeStoreAssumption DEF OpShape, OneApplying
  <2> QED
    BY <2>1, <2>2
<1>23. ASSUME NEW r \in Retries, ReplacementSaved(r) PROVE RequeueOpen'
  BY <1>23 DEF ReplacementSaved
<1>24. ASSUME NEW w \in Wakes, DispatchEnds(w) PROVE RequeueOpen'
  BY <1>24 DEF DispatchEnds
<1>25. ASSUME NEW w \in Wakes, Expire(w) PROVE RequeueOpen'
  BY <1>25 DEF Expire
<1>26. ASSUME Crash PROVE RequeueOpen'
  BY <1>26 DEF Crash
<1>27. ASSUME UNCHANGED vars PROVE RequeueOpen'
  BY <1>27 DEF vars
<1>28. QED
  BY <1>1, <1>2, <1>3, <1>4, <1>5, <1>6, <1>7, <1>8, <1>9, <1>10, <1>11, <1>12,
     <1>13, <1>14, <1>15, <1>16, <1>17, <1>18, <1>19, <1>20, <1>21, <1>22, <1>23, <1>24,
     <1>25, <1>26, <1>27 DEF Next, Emit, Claim, Consume, Release, Proceed

\* No step removes the last file of an emitted wake, the requeue's excepted.
LEMMA NoWakeLostStep ==
  ASSUME TypeOK, OpShape, StepFiles, HandedKept, SavedHanded, RequeueOpen, NoWakeLost,
         [Next]_vars
  PROVE  NoWakeLost'
<1> USE WakeStoreAssumption DEF TypeOK, Ops, Idle, Claims, Tags, Working, Without,
        files, retry, history, OpShape, StepFiles, NoWakeLost, InSomeFolder, RetryUnsettled
<1>1. ASSUME UNCHANGED <<inbox, claimed, consumed, control, emitted>> PROVE NoWakeLost'
  BY <1>1
<1>2. ASSUME NEW w \in Wakes, RecoverWrite(w) PROVE NoWakeLost'
  <2>1. claimed[w].tag # NoFile /\ claimed[w].tag \in Tags
    BY <1>2, ClaimFile DEF RecoverWrite, StepFiles
  <2>2. QED
    BY <1>2, <2>1 DEF RecoverWrite
<1>3. ASSUME RecoverUnlink PROVE NoWakeLost'
  BY <1>3 DEF RecoverUnlink
<1>4. ASSUME EmitMain PROVE NoWakeLost'
  BY <1>4 DEF EmitMain
<1>5. ASSUME NEW w \in Wakes, ClaimAgain(w) PROVE NoWakeLost'
  BY <1>5 DEF ClaimAgain
<1>6. ASSUME NEW w \in Wakes, ClaimWrite(w) PROVE NoWakeLost'
  <2>1. op.client \in Clients
    BY <1>6 DEF ClaimWrite, Working, OpShape
  <2>2. /\ claimed'[w] # NoFile /\ claimed'[w].tag = inbox[w]
        /\ \A v \in Wakes : v # w => claimed'[v] = claimed[v]
    BY <1>6, <2>1, ClaimWriteEffect
  <2>3. QED
    BY <1>6, <2>1, <2>2 DEF ClaimWrite
<1>7. ASSUME ClaimUnlink PROVE NoWakeLost'
  BY <1>7 DEF ClaimUnlink
<1>8. ASSUME NEW c \in Clients, NEW w \in Wakes, StartConsume(c, w) PROVE NoWakeLost'
  BY <1>8 DEF StartConsume
<1>9. ASSUME ConsumeUnlinkClaim PROVE NoWakeLost'
  BY <1>9 DEF ConsumeUnlinkClaim
<1>10. ASSUME ConsumeUnlinkInbox PROVE NoWakeLost'
  BY <1>10 DEF ConsumeUnlinkInbox
<1>11. ASSUME NEW c \in Clients, NEW w \in Wakes, StartRelease(c, w) PROVE NoWakeLost'
  <2>1. claimed[w].tag # NoFile /\ claimed[w].tag \in Tags
    BY <1>11, ClaimFile DEF StartRelease
  <2>2. QED
    BY <1>11, <2>1 DEF StartRelease
<1>12. ASSUME ReleaseUnlinkClaim PROVE NoWakeLost'
  BY <1>12 DEF ReleaseUnlinkClaim
<1>13. ASSUME NEW r \in Retries, RetryApply(r) PROVE NoWakeLost'
  BY <1>13 DEF RetryApply
<1>14. ASSUME NEW r \in Retries, StartRequeue(r) PROVE NoWakeLost'
  BY <1>14 DEF StartRequeue, RequeueOpen
<1>15. ASSUME RequeueUnlinkClaim PROVE NoWakeLost'
  BY <1>15 DEF RequeueUnlinkClaim, RequeueOpen
<1>16. ASSUME RequeueUnlinkConsumed PROVE NoWakeLost'
  BY <1>16 DEF RequeueUnlinkConsumed, RequeueOpen
<1>17. ASSUME RequeueWrite PROVE NoWakeLost'
  BY <1>17 DEF RequeueWrite
<1>18. ASSUME NEW r \in Retries, RetryComplete(r) PROVE NoWakeLost'
  <2>1. HandedOut(r) /\ control[r] = "applying"
    BY <1>18 DEF RetryComplete, SavedHanded
  <2>2. (Tagged(RetryOf[r], r) /\ r # NoFile) \/ RetryOf[r] \in consumed
    BY <2>1 DEF HandedKept, ConsumedAtEnd
  <2>3. InSomeFolder(RetryOf[r])'
    BY <1>18, <2>2 DEF RetryComplete, Tagged
  <2>4. \A q \in Retries : q # r => control'[q] = control[q]
    BY <1>18 DEF RetryComplete
  <2>5. QED
    BY <1>18, <2>1, <2>2, <2>3, <2>4 DEF RetryComplete
<1>19. ASSUME NEW r \in Retries, ReplacementSaved(r) PROVE NoWakeLost'
  BY <1>19 DEF ReplacementSaved
<1>20. ASSUME NEW w \in Wakes, DispatchEnds(w) PROVE NoWakeLost'
  BY <1>20 DEF DispatchEnds
<1>21. ASSUME NEW w \in Wakes, Expire(w) PROVE NoWakeLost'
  <2>1. /\ claimed'[w] # NoFile /\ claimed'[w].tag = claimed[w].tag
        /\ \A v \in Wakes : v # w => claimed'[v] = claimed[v]
    BY <1>21, ExpireEffect
  <2>2. QED
    BY <1>21, <2>1 DEF Expire
<1>22. QED
  BY <1>1, <1>2, <1>3, <1>4, <1>5, <1>6, <1>7, <1>8, <1>9, <1>10, <1>11, <1>12,
     <1>13, <1>14, <1>15, <1>16, <1>17, <1>18, <1>19, <1>20, <1>21 DEF Next, Emit, Claim,
     Consume, Release, Proceed, vars, files, retry, history, StartEmit, StartClaim,
     RecoverFail, RecoverDone, ClaimNothing, Crash

\* Only the wake of the lock holder, and those broken off, have two files.
LEMMA ApartStep ==
  ASSUME TypeOK, OpShape, StepFiles, CopiesApart, [Next]_vars
  PROVE  CopiesApart'
<1> USE WakeStoreAssumption DEF TypeOK, Ops, Idle, Claims, Tags, Working, Without,
        files, retry, history, OpShape, StepFiles, CopiesApart, Apart, HalfMoved
<1>1. ASSUME NEW w \in Wakes, StartEmit(w) PROVE CopiesApart'
  BY <1>1 DEF StartEmit
<1>2. ASSUME NEW c \in Clients, NEW lane \in Lanes \cup {AnyLane}, StartClaim(c, lane) PROVE CopiesApart'
  BY <1>2 DEF StartClaim
<1>3. ASSUME NEW w \in Wakes, RecoverWrite(w) PROVE CopiesApart'
  <2>1. claimed[w].tag # NoFile /\ claimed[w].tag \in Tags
    BY <1>3, ClaimFile DEF RecoverWrite, StepFiles
  <2>2. QED
    BY <1>3, <2>1 DEF RecoverWrite
<1>4. ASSUME RecoverUnlink PROVE CopiesApart'
  BY <1>4 DEF RecoverUnlink
<1>5. ASSUME RecoverFail PROVE CopiesApart'
  BY <1>5 DEF RecoverFail
<1>6. ASSUME RecoverDone PROVE CopiesApart'
  BY <1>6 DEF RecoverDone
<1>7. ASSUME EmitMain PROVE CopiesApart'
  BY <1>7 DEF EmitMain
<1>8. ASSUME NEW w \in Wakes, ClaimAgain(w) PROVE CopiesApart'
  BY <1>8 DEF ClaimAgain
<1>9. ASSUME ClaimNothing PROVE CopiesApart'
  BY <1>9 DEF ClaimNothing
<1>10. ASSUME NEW w \in Wakes, ClaimWrite(w) PROVE CopiesApart'
  <2>1. op.client \in Clients
    BY <1>10 DEF ClaimWrite, Working, OpShape
  <2>2. /\ claimed'[w] # NoFile /\ claimed'[w].tag = inbox[w]
        /\ \A v \in Wakes : v # w => claimed'[v] = claimed[v]
    BY <1>10, <2>1, ClaimWriteEffect
  <2>3. QED
    BY <1>10, <2>1, <2>2 DEF ClaimWrite, Oldest, Candidates
<1>11. ASSUME ClaimUnlink PROVE CopiesApart'
  BY <1>11 DEF ClaimUnlink
<1>12. ASSUME NEW c \in Clients, NEW w \in Wakes, StartConsume(c, w) PROVE CopiesApart'
  BY <1>12 DEF StartConsume, ConsumeRefused
<1>13. ASSUME ConsumeUnlinkClaim PROVE CopiesApart'
  BY <1>13 DEF ConsumeUnlinkClaim
<1>14. ASSUME ConsumeUnlinkInbox PROVE CopiesApart'
  BY <1>14 DEF ConsumeUnlinkInbox
<1>15. ASSUME NEW c \in Clients, NEW w \in Wakes, StartRelease(c, w) PROVE CopiesApart'
  <2>1. claimed[w].tag # NoFile /\ claimed[w].tag \in Tags
    BY <1>15, ClaimFile DEF StartRelease
  <2>2. QED
    BY <1>15, <2>1 DEF StartRelease
<1>16. ASSUME ReleaseUnlinkClaim PROVE CopiesApart'
  BY <1>16 DEF ReleaseUnlinkClaim
<1>17. ASSUME NEW r \in Retries, RetryApply(r) PROVE CopiesApart'
  BY <1>17 DEF RetryApply
<1>18. ASSUME NEW r \in Retries, StartRequeue(r) PROVE CopiesApart'
  BY <1>18 DEF StartRequeue
<1>19. ASSUME RequeueUnlinkClaim PROVE CopiesApart'
  BY <1>19 DEF RequeueUnlinkClaim
<1>20. ASSUME RequeueUnlinkConsumed PROVE CopiesApart'
  BY <1>20 DEF RequeueUnlinkConsumed
<1>21. ASSUME RequeueWrite PROVE CopiesApart'
  BY <1>21 DEF RequeueWrite
<1>22. ASSUME NEW r \in Retries, RetryComplete(r) PROVE CopiesApart'
  BY <1>22 DEF RetryComplete
<1>23. ASSUME NEW r \in Retries, ReplacementSaved(r) PROVE CopiesApart'
  BY <1>23 DEF ReplacementSaved
<1>24. ASSUME NEW w \in Wakes, DispatchEnds(w) PROVE CopiesApart'
  BY <1>24 DEF DispatchEnds
<1>25. ASSUME NEW w \in Wakes, Expire(w) PROVE CopiesApart'
  <2>1. /\ claimed'[w] # NoFile /\ claimed'[w].tag = claimed[w].tag
        /\ \A v \in Wakes : v # w => claimed'[v] = claimed[v]
    BY <1>25, ExpireEffect
  <2>2. QED
    BY <1>25, <2>1 DEF Expire
<1>26. ASSUME Crash PROVE CopiesApart'
  BY <1>26 DEF Crash
<1>27. ASSUME UNCHANGED vars PROVE CopiesApart'
  BY <1>27 DEF vars
<1>28. QED
  BY <1>1, <1>2, <1>3, <1>4, <1>5, <1>6, <1>7, <1>8, <1>9, <1>10, <1>11, <1>12,
     <1>13, <1>14, <1>15, <1>16, <1>17, <1>18, <1>19, <1>20, <1>21, <1>22, <1>23, <1>24,
     <1>25, <1>26, <1>27 DEF Next, Emit, Claim, Consume, Release, Proceed

-----------------------------------------------------------------------------

LEMMA InitIInv == Init => IInv
<1> SUFFICES ASSUME Init PROVE IInv
  OBVIOUS
<1> USE DEF Init, Idle
<1>1. TypeOK
  BY WakeStoreAssumption DEF TypeOK, Ops, Tags
<1>2. OpShape /\ StepFiles
  BY DEF OpShape, StepFiles, Working
<1>3. CopyTags /\ OneApplying /\ HandedKept /\ SavedHanded /\ RequeueOpen
  BY DEF CopyTags, OneApplying, HandedKept, SavedHanded, HandedOut, RequeueOpen
<1>4. Unknown
  BY WakeStoreAssumption DEF Unknown, Tagged, Tags
<1>5. NoWakeLost /\ CopiesApart
  BY DEF NoWakeLost, CopiesApart, Apart, Working
<1>6. QED
  BY <1>1, <1>2, <1>3, <1>4, <1>5 DEF IInv

LEMMA NextIInv == IInv /\ [Next]_vars => IInv'
BY TypeStep, ShapeStep, FilesStep, TagsStep, OneApplyingStep, UnknownStep,
   HandedKeptStep, SavedHandedStep, RequeueOpenStep, NoWakeLostStep, ApartStep DEF IInv

LEMMA Invariant == Spec => []IInv
<1>1. Init => IInv
  BY InitIInv
<1>2. IInv /\ [Next]_vars => IInv'
  BY NextIInv
<1>3. QED
  BY <1>1, <1>2, PTL DEF Spec

\* The queue's files, the lock holder and the controls keep their types.
THEOREM TypeCorrect == Spec => []TypeOK
<1>1. IInv => TypeOK
  BY DEF IInv
<1>2. QED
  BY <1>1, Invariant, PTL

\* However operations break off, an emitted wake always has a file (or an open
\* retry control that will put it back).
THEOREM WakesAreKept == Spec => []NoWakeLost
<1>1. IInv => NoWakeLost
  BY DEF IInv
<1>2. QED
  BY <1>1, Invariant, PTL

\* Between operations an undisturbed wake has at most one file.
THEOREM WakesHaveOneCopy == Spec => []OneCopy
<1>1. IInv => OneCopy
  <2> SUFFICES ASSUME IInv, op.step = "idle", NEW w \in Wakes \ torn PROVE Apart(w)
    BY DEF OneCopy, Apart
  <2>1. HalfMoved = {NoOne}
    BY DEF IInv, OpShape, HalfMoved
  <2>2. QED
    BY <2>1, WakeStoreAssumption DEF IInv, CopiesApart
<1>2. QED
  BY <1>1, Invariant, PTL

\* No step hands a live claim of an undisturbed wake to another Host.
THEOREM LeasesAreExclusive == Spec => LeaseExclusive
<1> DEFINE KeepsClient ==
      \A w \in Wakes \ torn :
          claimed[w] # NoFile /\ claimed[w].live /\ claimed'[w] # NoFile
              => claimed'[w].client = claimed[w].client
<1>1. IInv /\ [Next]_vars => KeepsClient
  <2> SUFFICES ASSUME IInv, [Next]_vars PROVE KeepsClient
    OBVIOUS
  <2> USE DEF IInv, TypeOK
  <2>1. ASSUME NEW w \in Wakes, ClaimWrite(w) PROVE KeepsClient
    <3>1. \A v \in Wakes : v # w => claimed'[v] = claimed[v]
      BY <2>1, ClaimWriteEffect DEF ClaimWrite, Working, OpShape
    <3>2. w \notin torn => claimed[w] = NoFile
      BY <2>1 DEF ClaimWrite, Working, Oldest, Candidates, CopiesApart, Apart, HalfMoved
    <3>3. QED
      BY <3>1, <3>2
  <2>2. ASSUME NEW w \in Wakes, Expire(w) PROVE KeepsClient
    BY <2>2, ExpireEffect
  <2>3. ASSUME NEW w \in Wakes \cup {NoOne}, claimed' = Without(claimed, w) PROVE KeepsClient
    BY <2>3 DEF Without
  <2>4. ASSUME claimed' = claimed PROVE KeepsClient
    BY <2>4
  <2>5. RecoverUnlink \/ ConsumeUnlinkClaim \/ ReleaseUnlinkClaim \/ RequeueUnlinkClaim
          => \E w \in Wakes \cup {NoOne} : claimed' = Without(claimed, w)
    BY DEF RecoverUnlink, ConsumeUnlinkClaim, ReleaseUnlinkClaim, RequeueUnlinkClaim, Ops
  <2>6. QED
    BY <2>1, <2>2, <2>3, <2>4, <2>5
    DEF Next, Emit, Claim, Consume, Release, Proceed, vars, files, StartEmit, StartClaim,
        RecoverWrite, RecoverFail, RecoverDone, EmitMain, ClaimAgain, ClaimNothing,
        ClaimUnlink, StartConsume, ConsumeUnlinkInbox, StartRelease, RetryApply,
        StartRequeue, RequeueUnlinkConsumed, RequeueWrite, RetryComplete, ReplacementSaved,
        DispatchEnds, Crash
<1>2. Spec => [][KeepsClient]_vars
  BY <1>1, Invariant, PTL DEF Spec
<1>3. QED
  BY <1>2 DEF LeaseExclusive

-----------------------------------------------------------------------------
(* The refinement of WakeQueue.                                             *)

\* What the lock holder knows of the lease it is about to end or hands out: it
\* has lapsed, or is its own.
LeaseKnown ==
    /\ op.step \in {"recover", "recoverUnlink"} =>
          \A w \in op.todo : claimed[w] # NoFile /\ ~claimed[w].live
    /\ op.step = "recoverUnlink" => claimed[op.moving] # NoFile /\ ~claimed[op.moving].live
    /\ Working("claim", "unlinkInbox") => claimed[op.wake].client = op.client
    /\ op.kind = "release" =>
          /\ op.client \in Clients /\ op.wake \in Wakes /\ claimed[op.wake] # NoFile
          /\ claimed[op.wake].live => claimed[op.wake].client = op.client

\* A claim that is written is a live lease of the client that asked.
LEMMA ClaimWriteLease ==
    ASSUME TypeOK, NEW w \in Wakes, ClaimWrite(w)
    PROVE  claimed'[w].client = op.client /\ claimed'[w].live
BY DEF ClaimWrite, TypeOK

LEMMA ExpireLease ==
    ASSUME TypeOK, NEW w \in Wakes, Expire(w)
    PROVE  ~claimed'[w].live
<1>1. claimed[w] \in Claims
  BY DEF Expire, TypeOK
<1>2. claimed'[w] = [claimed[w] EXCEPT !.live = FALSE]
  BY DEF Expire, TypeOK
<1> QED
  BY <1>1, <1>2 DEF Claims

LEMMA LeaseKnownStep ==
    ASSUME IInv, LeaseKnown, [Next]_vars
    PROVE  LeaseKnown'
<1> USE WakeStoreAssumption
     DEF IInv, TypeOK, Ops, Idle, Working, Without, files, retry, history, OpShape, StepFiles, LeaseKnown
<1>1. ASSUME NEW w \in Wakes, StartEmit(w) PROVE LeaseKnown'
  BY <1>1 DEF StartEmit, Expired
<1>2. ASSUME NEW c \in Clients, NEW lane \in Lanes \cup {AnyLane}, StartClaim(c, lane) PROVE LeaseKnown'
  BY <1>2 DEF StartClaim, Expired
<1>3. ASSUME NEW w \in Wakes, RecoverWrite(w) PROVE LeaseKnown'
  BY <1>3 DEF RecoverWrite
<1>4. ASSUME RecoverUnlink PROVE LeaseKnown'
  BY <1>4 DEF RecoverUnlink
<1>5. ASSUME RecoverFail PROVE LeaseKnown'
  BY <1>5 DEF RecoverFail
<1>6. ASSUME RecoverDone PROVE LeaseKnown'
  BY <1>6 DEF RecoverDone
<1>7. ASSUME EmitMain PROVE LeaseKnown'
  BY <1>7 DEF EmitMain
<1>8. ASSUME NEW w \in Wakes, ClaimAgain(w) PROVE LeaseKnown'
  BY <1>8 DEF ClaimAgain
<1>9. ASSUME ClaimNothing PROVE LeaseKnown'
  BY <1>9 DEF ClaimNothing
<1>10. ASSUME NEW w \in Wakes, ClaimWrite(w) PROVE LeaseKnown'
  <2>1. claimed'[w].client = op.client
    BY <1>10, ClaimWriteLease
  <2>2. op'.wake = w /\ op'.client = op.client /\ op'.kind = "claim" /\ op'.step = "unlinkInbox"
    BY <1>10 DEF ClaimWrite
  <2> QED
    BY <2>1, <2>2
<1>11. ASSUME ClaimUnlink PROVE LeaseKnown'
  BY <1>11 DEF ClaimUnlink
<1>12. ASSUME NEW c \in Clients, NEW w \in Wakes, StartConsume(c, w) PROVE LeaseKnown'
  BY <1>12 DEF StartConsume
<1>13. ASSUME ConsumeUnlinkClaim PROVE LeaseKnown'
  BY <1>13 DEF ConsumeUnlinkClaim
<1>14. ASSUME ConsumeUnlinkInbox PROVE LeaseKnown'
  BY <1>14 DEF ConsumeUnlinkInbox
<1>15. ASSUME NEW c \in Clients, NEW w \in Wakes, StartRelease(c, w) PROVE LeaseKnown'
  BY <1>15 DEF StartRelease, HeldByOther
<1>16. ASSUME ReleaseUnlinkClaim PROVE LeaseKnown'
  BY <1>16 DEF ReleaseUnlinkClaim
<1>17. ASSUME NEW r \in Retries, RetryApply(r) PROVE LeaseKnown'
  BY <1>17 DEF RetryApply
<1>18. ASSUME NEW r \in Retries, StartRequeue(r) PROVE LeaseKnown'
  BY <1>18 DEF StartRequeue
<1>19. ASSUME RequeueUnlinkClaim PROVE LeaseKnown'
  BY <1>19 DEF RequeueUnlinkClaim
<1>20. ASSUME RequeueUnlinkConsumed PROVE LeaseKnown'
  BY <1>20 DEF RequeueUnlinkConsumed
<1>21. ASSUME RequeueWrite PROVE LeaseKnown'
  BY <1>21 DEF RequeueWrite
<1>22. ASSUME NEW r \in Retries, RetryComplete(r) PROVE LeaseKnown'
  BY <1>22 DEF RetryComplete
<1>23. ASSUME NEW r \in Retries, ReplacementSaved(r) PROVE LeaseKnown'
  BY <1>23 DEF ReplacementSaved
<1>24. ASSUME NEW w \in Wakes, DispatchEnds(w) PROVE LeaseKnown'
  BY <1>24 DEF DispatchEnds
<1>25. ASSUME NEW w \in Wakes, Expire(w) PROVE LeaseKnown'
  <2>1. /\ claimed'[w] # NoFile /\ claimed'[w].client = claimed[w].client
        /\ \A v \in Wakes : v # w => claimed'[v] = claimed[v]
    BY <1>25, ExpireEffect
  <2>2. ~claimed'[w].live /\ op' = op /\ claimed[w] # NoFile
    BY <1>25, ExpireLease DEF Expire
  <2>3. \A v \in Wakes : claimed[v] # NoFile =>
             /\ claimed'[v] # NoFile /\ claimed'[v].client = claimed[v].client
             /\ claimed'[v].live => claimed[v].live
    BY <2>1, <2>2
  <2> QED
    BY <2>2, <2>3
<1>26. ASSUME Crash PROVE LeaseKnown'
  BY <1>26 DEF Crash
<1>27. ASSUME UNCHANGED vars PROVE LeaseKnown'
  BY <1>27 DEF vars
<1>28. QED
  BY <1>1, <1>2, <1>3, <1>4, <1>5, <1>6, <1>7, <1>8, <1>9, <1>10, <1>11, <1>12,
     <1>13, <1>14, <1>15, <1>16, <1>17, <1>18, <1>19, <1>20, <1>21, <1>22, <1>23, <1>24,
     <1>25, <1>26, <1>27 DEF Next, Emit, Claim, Consume, Release, Proceed

\* What the abstract queue sees of a step: the place and the holder of a wake ...
Seen(w) == <<Place(w), Holder(w)>>
Becomes(w, to, host) ==
    /\ Place(w)' = to /\ Holder(w)' = host
    /\ \A v \in Wakes \ {w} : Seen(v)' = Seen(v)

\* ... and what was handed out, asked for and broken off.
Books == <<handed, control, torn>>

LEMMA MoveRefines ==
    ASSUME NEW w \in Wakes, NEW to, NEW host, Becomes(w, to, host), UNCHANGED Books
    PROVE  Queue!Move(w, to, host)
<1>1. \A v \in Wakes : /\ Place(v)' = (IF v = w THEN to ELSE Place(v))
                        /\ Holder(v)' = (IF v = w THEN host ELSE Holder(v))
  BY DEF Becomes, Seen
<1>2. handed' = handed /\ control' = control /\ torn' = torn
  BY DEF Books
<1> QED
  BY <1>1, <1>2 DEF Queue!Move

LEMMA StayRefines ==
    ASSUME \A v \in Wakes : Seen(v)' = Seen(v), UNCHANGED Books
    PROVE  UNCHANGED Queue!vars
<1>1. \A v \in Wakes : Place(v)' = Place(v) /\ Holder(v)' = Holder(v)
  BY DEF Seen
<1>2. handed' = handed /\ control' = control /\ torn' = torn
  BY DEF Books
<1> QED
  BY <1>1, <1>2 DEF Queue!vars

\* A wake whose files are left alone is seen where it was.
LEMMA SeenStays ==
    ASSUME NEW v, inbox'[v] = inbox[v], claimed'[v] = claimed[v], v \in consumed' <=> v \in consumed
    PROVE  Seen(v)' = Seen(v)
BY DEF Seen, Place, Holder

\* Where a wake is, by its files.
LEMMA SeenPlaces ==
    ASSUME TypeOK, NEW w \in Wakes
    PROVE  /\ w \in consumed => Place(w) = "consumed" /\ Holder(w) = NoOne
           /\ w \notin consumed /\ claimed[w] # NoFile =>
                /\ Holder(w) = claimed[w].client
                /\ claimed[w].live => Place(w) = "leased"
                /\ ~claimed[w].live => Place(w) = "lapsed"
           /\ w \notin consumed /\ claimed[w] = NoFile =>
                /\ Holder(w) = NoOne
                /\ inbox[w] # NoFile => Place(w) = "waiting"
                /\ inbox[w] = NoFile => Place(w) = "out"
BY DEF Place, Holder

-----------------------------------------------------------------------------
(* What each operation does, seen as a step of the queue.                   *)

\* Recovery puts a wake back whose lease lapsed, and emit one that is out.
LEMMA RecoverWriteRefines ==
    ASSUME IInv, LeaseKnown, NEW w \in Wakes, RecoverWrite(w)
    PROVE  UNCHANGED Queue!vars
<1>1. claimed[w] # NoFile /\ claimed[w].tag # NoFile
  BY ClaimFile DEF RecoverWrite, LeaseKnown, IInv
<1>2. \A v \in Wakes \ {w} : inbox'[v] = inbox[v]
  BY DEF RecoverWrite, IInv, TypeOK
<1>3. claimed' = claimed /\ consumed' = consumed /\ UNCHANGED Books
  BY DEF RecoverWrite, retry, history, Books
<1>4. Seen(w)' = Seen(w)
  BY <1>1, <1>3 DEF Seen, Place, Holder
<1>5. \A v \in Wakes \ {w} : Seen(v)' = Seen(v)
  BY <1>2, <1>3, SeenStays
<1> QED
  BY <1>3, <1>4, <1>5, StayRefines

LEMMA RecoverUnlinkRefines ==
    ASSUME IInv, LeaseKnown, RecoverUnlink
    PROVE  Queue!Next \/ UNCHANGED Queue!vars
<1>0. PICK w \in Wakes : w = op.moving
  BY DEF RecoverUnlink, IInv, OpShape
<1>1. claimed[w] # NoFile /\ ~claimed[w].live /\ claimed[w] \in Claims
  BY <1>0, ClaimFile DEF RecoverUnlink, LeaseKnown, IInv
<1>2. inbox[w] # NoFile \/ w \in consumed
  BY <1>0 DEF RecoverUnlink, IInv, StepFiles
<1>3. inbox' = inbox /\ consumed' = consumed /\ UNCHANGED Books
  BY DEF RecoverUnlink, retry, history, Books
<1>4. claimed'[w] = NoFile /\ \A v \in Wakes \ {w} : claimed'[v] = claimed[v]
  BY <1>0 DEF RecoverUnlink, Without, IInv, TypeOK
<1>5. \A v \in Wakes \ {w} : Seen(v)' = Seen(v)
  BY <1>3, <1>4, SeenStays
<1>6. CASE w \in consumed
  <2>1. Seen(w)' = Seen(w)
    BY <1>3, <1>6 DEF Seen, Place, Holder
  <2> QED
    BY <2>1, <1>3, <1>5, StayRefines
<1>7. CASE w \notin consumed
  <2>1. Becomes(w, "waiting", NoOne)
    BY <1>1, <1>2, <1>3, <1>4, <1>5, <1>7 DEF Becomes, Place, Holder
  <2>2. Place(w) = "lapsed"
    BY <1>1, <1>7 DEF Place
  <2>3. PICK c \in Clients : c = claimed[w].client
    BY <1>1 DEF Claims
  <2>4. Queue!PutBack(c, w)
    BY <1>1, <1>3, <2>1, <2>2, MoveRefines DEF Queue!PutBack, Queue!MayEnd
  <2> QED
    BY <1>1, <2>4 DEF Queue!Next
<1> QED
  BY <1>6, <1>7

LEMMA EmitRefines ==
    ASSUME IInv, EmitMain
    PROVE  Queue!Next \/ UNCHANGED Queue!vars
<1>1. PICK w \in Wakes : w = op.wake
  BY DEF EmitMain, Working, IInv, OpShape
<1>2. claimed' = claimed /\ consumed' = consumed /\ UNCHANGED Books
  BY DEF EmitMain, Books, retry
<1>3. CASE inbox[w] # NoFile \/ claimed[w] # NoFile \/ w \in consumed
  <2>1. \A v \in Wakes : Seen(v)' = Seen(v)
    BY <1>1, <1>2, <1>3, SeenStays DEF EmitMain
  <2> QED
    BY <1>2, <2>1, StayRefines
<1>4. CASE inbox[w] = NoFile /\ claimed[w] = NoFile /\ w \notin consumed
  <2>1. inbox'[w] # NoFile /\ \A v \in Wakes \ {w} : inbox'[v] = inbox[v]
    BY <1>1, <1>4, WakeStoreAssumption DEF EmitMain, IInv, TypeOK, Tags
  <2>2. \A v \in Wakes \ {w} : Seen(v)' = Seen(v)
    BY <1>2, <2>1, SeenStays
  <2>3. Becomes(w, "waiting", NoOne)
    BY <1>2, <1>4, <2>1, <2>2 DEF Becomes, Place, Holder
  <2>4. Place(w) = "out"
    BY <1>4 DEF Place
  <2>5. Queue!Publish(w)
    BY <1>1, <1>2, <2>3, <2>4, MoveRefines DEF Queue!Publish
  <2> QED
    BY <1>1, <2>5 DEF Queue!Next
<1> QED
  BY <1>3, <1>4

\* A claim hands out what the Host holds: its own lease again, or a new one.
LEMMA HandRefines ==
    ASSUME IInv, NEW w \in Wakes, NEW c \in Clients, NEW t,
           claimed[w] # NoFile, claimed[w].client = c, w \in consumed => w \in torn,
           handed' = handed \cup {<<c, w, t>>}, control' = control, torn' = torn,
           \A v \in Wakes : Seen(v)' = Seen(v)
    PROVE  Queue!Hand(c, w)
<1>1. \A v \in Wakes : Place(v)' = Place(v) /\ Holder(v)' = Holder(v)
  BY DEF Seen
<1>2. {<<h[1], h[2]>> : h \in handed'} = {<<h[1], h[2]>> : h \in handed} \cup {<<c, w>>}
  <2> DEFINE new == <<c, w, t>>
  <2>1. <<new[1], new[2]>> = <<c, w>> /\ handed' = handed \cup {new}
    OBVIOUS
  <2> HIDE DEF new
  <2> QED
    BY <2>1
<1>3. Holder(w) = c \/ w \in torn
  BY DEF Holder
<1> QED
  BY <1>1, <1>2, <1>3 DEF Queue!Hand

LEMMA ClaimAgainRefines ==
    ASSUME IInv, NEW w \in Wakes, ClaimAgain(w)
    PROVE  Queue!Next
<1>1. /\ op.client \in Clients /\ claimed[w] # NoFile /\ claimed[w].client = op.client
      /\ handed' = handed \cup {<<op.client, w, claimed[w].tag>>}
  BY DEF ClaimAgain, OwnClaims, Working, IInv, OpShape
<1>2. w \in consumed => w \in torn
  BY <1>1 DEF ClaimAgain, Working, IInv, CopiesApart, Apart, HalfMoved
<1>3. \A v \in Wakes : Seen(v)' = Seen(v)
  BY SeenStays DEF ClaimAgain, files
<1>4. control' = control /\ torn' = torn
  BY DEF ClaimAgain, retry, history
<1>5. Queue!Hand(op.client, w)
  BY <1>1, <1>2, <1>3, <1>4, HandRefines
<1> QED
  BY <1>1, <1>5 DEF Queue!Next

LEMMA ClaimUnlinkRefines ==
    ASSUME IInv, LeaseKnown, ClaimUnlink
    PROVE  Queue!Next
<1>0. PICK w \in Wakes : w = op.wake
  BY DEF ClaimUnlink, Working, IInv, OpShape
<1>1. /\ op.client \in Clients /\ claimed[w] # NoFile /\ claimed[w].client = op.client
      /\ handed' = handed \cup {<<op.client, w, claimed[w].tag>>}
  BY <1>0 DEF ClaimUnlink, Working, IInv, OpShape, StepFiles, LeaseKnown
<1>2. w \in consumed => w \in torn
  BY <1>0 DEF ClaimUnlink, Working, IInv, CopiesApart
<1>3. /\ claimed' = claimed /\ consumed' = consumed /\ control' = control /\ torn' = torn
      /\ \A v \in Wakes \ {w} : inbox'[v] = inbox[v]
  BY <1>0 DEF ClaimUnlink, retry, history, Without, IInv, TypeOK
<1>4. Seen(w)' = Seen(w)
  BY <1>1, <1>3 DEF Seen, Place, Holder
<1>5. \A v \in Wakes : Seen(v)' = Seen(v)
  BY <1>3, <1>4, SeenStays
<1>6. Queue!Hand(op.client, w)
  BY <1>1, <1>2, <1>3, <1>5, HandRefines
<1> QED
  BY <1>1, <1>6 DEF Queue!Next

LEMMA ClaimWriteRefines ==
    ASSUME IInv, NEW w \in Wakes, ClaimWrite(w)
    PROVE  Queue!Next \/ UNCHANGED Queue!vars
<1>1. op.client \in Clients
  BY DEF ClaimWrite, Working, IInv, OpShape
<1>2. /\ claimed'[w] # NoFile /\ claimed'[w].client = op.client /\ claimed'[w].live
      /\ \A v \in Wakes \ {w} : claimed'[v] = claimed[v]
  BY <1>1, ClaimWriteEffect, ClaimWriteLease DEF IInv
<1>3. inbox' = inbox /\ consumed' = consumed /\ inbox[w] # NoFile /\ UNCHANGED Books
  BY DEF ClaimWrite, Oldest, Candidates, retry, history, Books
<1>4. w \notin torn => claimed[w] = NoFile /\ w \notin consumed
  BY <1>3 DEF ClaimWrite, Working, IInv, CopiesApart, Apart, HalfMoved
<1>5. \A v \in Wakes \ {w} : Seen(v)' = Seen(v)
  BY <1>2, <1>3, SeenStays
<1>6. CASE w \in consumed
  <2>1. Seen(w)' = Seen(w)
    BY <1>3, <1>6 DEF Seen, Place, Holder
  <2> QED
    BY <2>1, <1>3, <1>5, StayRefines
<1>7. CASE w \notin consumed
  <2>1. Queue!Move(w, "leased", op.client)
    <3>1. Becomes(w, "leased", op.client)
      BY <1>2, <1>3, <1>5, <1>7 DEF Becomes, Place, Holder
    <3> QED
      BY <1>3, <3>1, MoveRefines
  <2>2. CASE claimed[w] = NoFile
    <3>1. Place(w) = "waiting"
      BY <1>3, <1>7, <2>2 DEF Place
    <3>2. Queue!Lease(op.client, w)
      BY <2>1, <3>1 DEF Queue!Lease
    <3> QED
      BY <1>1, <3>2 DEF Queue!Next
  <2>3. CASE claimed[w] # NoFile
    <3>1. w \in torn /\ Place(w) \in {"leased", "lapsed"}
      BY <1>4, <1>7, <2>3 DEF Place
    <3>2. Queue!LeaseCopy(op.client, w)
      BY <2>1, <3>1 DEF Queue!LeaseCopy
    <3> QED
      BY <1>1, <3>2 DEF Queue!Next
  <2> QED
    BY <2>2, <2>3
<1> QED
  BY <1>6, <1>7

\* Consume files what the Host was handed and holds, or nobody holds any more.
LEMMA ConsumeRefines ==
    ASSUME IInv, NEW c \in Clients, NEW w \in Wakes, StartConsume(c, w)
    PROVE  Queue!Next
<1>1. /\ w \notin consumed /\ claimed[w] # NoFile
      /\ claimed[w].live => claimed[w].client = c
  BY DEF StartConsume, ConsumeRefused, HeldByOther
<1>2. <<c, w>> \in {<<h[1], h[2]>> : h \in handed}
  <2>1. PICK t \in Tags : <<c, w, t>> \in handed
    BY DEF StartConsume, Received
  <2>2. <<c, w, t>>[1] = c /\ <<c, w, t>>[2] = w
    OBVIOUS
  <2> QED
    BY <2>1, <2>2
<1>3. inbox' = inbox /\ claimed' = claimed /\ consumed' = consumed \cup {w} /\ UNCHANGED Books
  BY DEF StartConsume, Books, retry
<1>4. \A v \in Wakes \ {w} : Seen(v)' = Seen(v)
  BY <1>3, SeenStays
<1>5. Becomes(w, "consumed", NoOne)
  BY <1>3, <1>4 DEF Becomes, Place, Holder
<1>6. (Place(w) = "leased" /\ Holder(w) = c) \/ Place(w) = "lapsed"
  BY <1>1 DEF Place, Holder
<1>7. Queue!Finish(c, w)
  BY <1>2, <1>3, <1>5, <1>6, MoveRefines DEF Queue!Finish, Queue!MayEnd
<1> QED
  BY <1>7 DEF Queue!Next

\* Of a consumed wake the other files do not count.
LEMMA ConsumedRefines ==
    ASSUME NEW w \in Wakes, w \in consumed, consumed' = consumed, UNCHANGED Books,
           \A v \in Wakes \ {w} : inbox'[v] = inbox[v] /\ claimed'[v] = claimed[v]
    PROVE  UNCHANGED Queue!vars
<1>1. Seen(w)' = Seen(w)
  BY DEF Seen, Place, Holder
<1>2. \A v \in Wakes : Seen(v)' = Seen(v)
  BY <1>1, SeenStays
<1> QED
  BY <1>2, StayRefines

LEMMA ConsumeUnlinkRefines ==
    ASSUME IInv, ConsumeUnlinkClaim \/ ConsumeUnlinkInbox
    PROVE  UNCHANGED Queue!vars
<1>1. op.kind = "consume" /\ op.step \in {"unlinkClaim", "unlinkInbox"}
  BY DEF ConsumeUnlinkClaim, ConsumeUnlinkInbox, Working
<1>2. PICK w \in Wakes : w = op.wake
  BY <1>1 DEF IInv, OpShape
<1>3. w \in consumed
  BY <1>1, <1>2 DEF IInv, StepFiles
<1>4. /\ consumed' = consumed /\ UNCHANGED Books
      /\ \A v \in Wakes \ {w} : inbox'[v] = inbox[v] /\ claimed'[v] = claimed[v]
  BY <1>2 DEF ConsumeUnlinkClaim, ConsumeUnlinkInbox, retry, history, Books, Without, IInv, TypeOK
<1> QED
  BY <1>3, <1>4, ConsumedRefines

\* Release first writes the copy, then gives the lease up.
LEMMA ReleaseRefines ==
    ASSUME IInv, NEW c \in Clients, NEW w \in Wakes, StartRelease(c, w)
    PROVE  UNCHANGED Queue!vars
<1>1. claimed[w] # NoFile /\ claimed' = claimed /\ consumed' = consumed /\ UNCHANGED Books
  BY DEF StartRelease, retry, history, Books
<1>2. \A v \in Wakes \ {w} : inbox'[v] = inbox[v]
  BY DEF StartRelease, IInv, TypeOK
<1>3. Seen(w)' = Seen(w)
  BY <1>1 DEF Seen, Place, Holder
<1>4. \A v \in Wakes : Seen(v)' = Seen(v)
  BY <1>1, <1>2, <1>3, SeenStays
<1> QED
  BY <1>1, <1>4, StayRefines

LEMMA ReleaseUnlinkRefines ==
    ASSUME IInv, LeaseKnown, ReleaseUnlinkClaim
    PROVE  Queue!Next
<1>0. PICK w \in Wakes : w = op.wake
  BY DEF ReleaseUnlinkClaim, Working, LeaseKnown
<1>1. /\ op.client \in Clients /\ claimed[w] # NoFile
      /\ claimed[w].live => claimed[w].client = op.client
  BY <1>0 DEF ReleaseUnlinkClaim, Working, LeaseKnown
<1>2. inbox[w] # NoFile /\ w \notin consumed
  BY <1>0 DEF ReleaseUnlinkClaim, Working, IInv, StepFiles, CopiesApart
<1>3. inbox' = inbox /\ consumed' = consumed /\ UNCHANGED Books
  BY DEF ReleaseUnlinkClaim, retry, history, Books
<1>4. claimed'[w] = NoFile /\ \A v \in Wakes \ {w} : claimed'[v] = claimed[v]
  BY <1>0 DEF ReleaseUnlinkClaim, Without, IInv, TypeOK
<1>5. \A v \in Wakes \ {w} : Seen(v)' = Seen(v)
  BY <1>3, <1>4, SeenStays
<1>6. Becomes(w, "waiting", NoOne)
  BY <1>2, <1>3, <1>4, <1>5 DEF Becomes, Place, Holder
<1>7. (Place(w) = "leased" /\ Holder(w) = op.client) \/ Place(w) = "lapsed"
  BY <1>1, <1>2 DEF Place, Holder
<1>8. Queue!PutBack(op.client, w)
  BY <1>3, <1>6, <1>7, MoveRefines DEF Queue!PutBack, Queue!MayEnd
<1> QED
  BY <1>1, <1>8 DEF Queue!Next

\* A requeue takes a wake out only when a retry was admitted for it.
LEMMA TakeOutRefines ==
    ASSUME NEW r \in Retries, control[r] # "none", RetryOf[r] \in Wakes,
           Becomes(RetryOf[r], "out", NoOne), UNCHANGED Books
    PROVE  Queue!Next
<1>1. RetryOf[r] \in {RetryOf[q] : q \in {p \in Retries : control[p] # "none"}}
  OBVIOUS
<1>2. Queue!TakeOut(RetryOf[r])
  BY <1>1, MoveRefines DEF Queue!TakeOut
<1> QED
  BY <1>2 DEF Queue!Next

LEMMA RequeueRefines ==
    ASSUME IInv, NEW r \in Retries, StartRequeue(r)
    PROVE  Queue!Next \/ UNCHANGED Queue!vars
<1>0. PICK w \in Wakes : w = RetryOf[r]
  BY WakeStoreAssumption
<1>1. claimed' = claimed /\ consumed' = consumed /\ control[r] # "none" /\ UNCHANGED Books
  BY DEF StartRequeue, retry, history, Books
<1>2. inbox'[w] = NoFile /\ \A v \in Wakes \ {w} : inbox'[v] = inbox[v]
  BY <1>0 DEF StartRequeue, Without, IInv, TypeOK
<1>3. \A v \in Wakes \ {w} : Seen(v)' = Seen(v)
  BY <1>1, <1>2, SeenStays
<1>4. CASE w \in consumed \/ claimed[w] # NoFile
  <2>1. Seen(w)' = Seen(w)
    BY <1>1, <1>4 DEF Seen, Place, Holder
  <2> QED
    BY <1>1, <1>3, <2>1, StayRefines
<1>5. CASE w \notin consumed /\ claimed[w] = NoFile
  <2>1. Becomes(w, "out", NoOne)
    BY <1>1, <1>2, <1>3, <1>5 DEF Becomes, Place, Holder
  <2> QED
    BY <1>0, <1>1, <2>1, TakeOutRefines
<1> QED
  BY <1>4, <1>5

LEMMA RequeueUnlinkRefines ==
    ASSUME IInv, RequeueUnlinkClaim \/ RequeueUnlinkConsumed
    PROVE  Queue!Next \/ UNCHANGED Queue!vars
<1>1. op.kind = "requeue" /\ op.step \in {"unlinkClaim", "unlinkConsumed"}
  BY DEF RequeueUnlinkClaim, RequeueUnlinkConsumed, Working
<1>2. PICK r \in Retries : r = op.tag
  BY <1>1 DEF IInv, OpShape
<1>3. PICK w \in Wakes : w = RetryOf[r]
  BY WakeStoreAssumption
<1>4. op.wake = w /\ control[r] # "none" /\ inbox[w] = NoFile
  BY <1>1, <1>2, <1>3 DEF IInv, OpShape, StepFiles, RequeueOpen
<1>5. inbox' = inbox /\ UNCHANGED Books
  BY DEF RequeueUnlinkClaim, RequeueUnlinkConsumed, retry, history, Books
<1>6. \A v \in Wakes \ {w} : claimed'[v] = claimed[v] /\ (v \in consumed' <=> v \in consumed)
  BY <1>4 DEF RequeueUnlinkClaim, RequeueUnlinkConsumed, Without, IInv, TypeOK
<1>7. \A v \in Wakes \ {w} : Seen(v)' = Seen(v)
  BY <1>5, <1>6, SeenStays
<1>8. \/ claimed'[w] = NoFile /\ (w \in consumed' <=> w \in consumed)
      \/ claimed[w] = NoFile /\ claimed' = claimed /\ w \notin consumed'
  BY <1>4 DEF RequeueUnlinkClaim, RequeueUnlinkConsumed, Working, Without, IInv, TypeOK, StepFiles
<1>9. CASE w \in consumed'
  <2>1. Seen(w)' = Seen(w)
    BY <1>8, <1>9 DEF Seen, Place, Holder
  <2> QED
    BY <1>5, <1>7, <2>1, StayRefines
<1>10. CASE w \notin consumed'
  <2>1. Becomes(w, "out", NoOne)
    BY <1>4, <1>5, <1>7, <1>8, <1>10 DEF Becomes, Place, Holder
  <2> QED
    BY <1>3, <1>4, <1>5, <2>1, TakeOutRefines
<1> QED
  BY <1>9, <1>10

LEMMA RequeueWriteRefines ==
    ASSUME IInv, RequeueWrite
    PROVE  Queue!Next
<1>0. PICK w \in Wakes : w = op.wake
  BY DEF RequeueWrite, Working, IInv, OpShape
<1>1. inbox[w] = NoFile /\ claimed[w] = NoFile /\ w \notin consumed
  BY <1>0 DEF RequeueWrite, Working, IInv, StepFiles
<1>2. claimed' = claimed /\ consumed' = consumed /\ UNCHANGED Books
  BY DEF RequeueWrite, retry, history, Books
<1>3. inbox'[w] # NoFile /\ \A v \in Wakes \ {w} : inbox'[v] = inbox[v]
  BY <1>0, WakeStoreAssumption DEF RequeueWrite, Working, IInv, OpShape, TypeOK, Tags
<1>4. \A v \in Wakes \ {w} : Seen(v)' = Seen(v)
  BY <1>2, <1>3, SeenStays
<1>5. Becomes(w, "waiting", NoOne)
  BY <1>1, <1>2, <1>3, <1>4 DEF Becomes, Place, Holder
<1>6. Place(w) = "out"
  BY <1>1 DEF Place
<1>7. Queue!Publish(w)
  BY <1>2, <1>5, <1>6, MoveRefines DEF Queue!Publish
<1> QED
  BY <1>7 DEF Queue!Next

\* The controls: a retry is admitted for a wake a Host was handed; what becomes
\* of it later is not seen.
LEMMA RetryApplyRefines ==
    ASSUME IInv, NEW r \in Retries, RetryApply(r)
    PROVE  Queue!Next
<1>0. PICK w \in Wakes : w = RetryOf[r]
  BY WakeStoreAssumption
<1>1. PICK c \in Clients : Received(c, w)
  BY <1>0 DEF RetryApply
<1>2. <<c, w>> \in {<<h[1], h[2]>> : h \in handed}
  <2>1. PICK t \in Tags : <<c, w, t>> \in handed
    BY <1>1 DEF Received
  <2>2. <<c, w, t>>[1] = c /\ <<c, w, t>>[2] = w
    OBVIOUS
  <2> QED
    BY <2>1, <2>2
<1>3. \A q \in Retries : control'[q] # "none" <=> control[q] # "none" \/ q = r
  BY DEF RetryApply, IInv, TypeOK
<1>4. {RetryOf[q] : q \in {p \in Retries : control'[p] # "none"}}
        = {RetryOf[q] : q \in {p \in Retries : control[p] # "none"}} \cup {w}
  BY <1>0, <1>3
<1>5. \A v \in Wakes : Seen(v)' = Seen(v)
  BY SeenStays DEF RetryApply, files
<1>6. \A v \in Wakes : Place(v)' = Place(v) /\ Holder(v)' = Holder(v)
  BY <1>5 DEF Seen
<1>7. handed' = handed /\ torn' = torn
  BY DEF RetryApply, retry, history
<1>8. Queue!AskRetry(w)
  BY <1>2, <1>4, <1>6, <1>7 DEF Queue!AskRetry
<1> QED
  BY <1>8 DEF Queue!Next

LEMMA ControlRefines ==
    ASSUME IInv, NEW r \in Retries, RetryComplete(r)
    PROVE  UNCHANGED Queue!vars
<1>1. \A q \in Retries : control'[q] # "none" <=> control[q] # "none"
  BY DEF RetryComplete, IInv, TypeOK
<1>2. \A v \in Wakes : Seen(v)' = Seen(v)
  BY SeenStays DEF RetryComplete, files
<1>3. \A v \in Wakes : Place(v)' = Place(v) /\ Holder(v)' = Holder(v)
  BY <1>2 DEF Seen
<1>4. handed' = handed /\ torn' = torn
  BY DEF RetryComplete, retry, history
<1> QED
  BY <1>1, <1>3, <1>4 DEF Queue!vars

\* Time ends a lease, a fault breaks an operation off.
LEMMA ExpireRefines ==
    ASSUME IInv, NEW w \in Wakes, Expire(w)
    PROVE  Queue!Next \/ UNCHANGED Queue!vars
<1>1. /\ claimed'[w] # NoFile /\ claimed'[w].client = claimed[w].client /\ ~claimed'[w].live
      /\ \A v \in Wakes \ {w} : claimed'[v] = claimed[v]
  BY ExpireEffect, ExpireLease DEF IInv
<1>2. /\ inbox' = inbox /\ consumed' = consumed /\ claimed[w] # NoFile /\ claimed[w].live
      /\ UNCHANGED Books
  BY DEF Expire, retry, history, Books
<1>3. \A v \in Wakes \ {w} : Seen(v)' = Seen(v)
  BY <1>1, <1>2, SeenStays
<1>4. CASE w \in consumed
  <2>1. Seen(w)' = Seen(w)
    BY <1>2, <1>4 DEF Seen, Place, Holder
  <2> QED
    BY <1>2, <1>3, <2>1, StayRefines
<1>5. CASE w \notin consumed
  <2>1. Becomes(w, "lapsed", claimed[w].client)
    BY <1>1, <1>2, <1>3, <1>5 DEF Becomes, Place, Holder
  <2>2. Place(w) = "leased" /\ Holder(w) = claimed[w].client
    BY <1>2, <1>5 DEF Place, Holder
  <2>3. Queue!Move(w, "lapsed", claimed[w].client)
    BY <1>2, <2>1, MoveRefines
  <2>4. Queue!Lapse(w)
    BY <2>2, <2>3 DEF Queue!Lapse
  <2> QED
    BY <2>4 DEF Queue!Next
<1> QED
  BY <1>4, <1>5

LEMMA BreakRefines ==
    ASSUME IInv, RecoverFail \/ Crash
    PROVE  Queue!Next \/ UNCHANGED Queue!vars
<1>1. UNCHANGED <<inbox, claimed, consumed, handed, control>>
  BY DEF RecoverFail, Crash, files, retry
<1>2. torn' = torn \/ \E w \in Wakes : torn' = torn \cup {w}
  BY DEF RecoverFail, Crash, HalfMoved, IInv, TypeOK, Ops, OpShape
<1>3. \A v \in Wakes : Seen(v)' = Seen(v)
  BY <1>1, SeenStays
<1>4. \A v \in Wakes : Place(v)' = Place(v) /\ Holder(v)' = Holder(v)
  BY <1>3 DEF Seen
<1>5. CASE torn' = torn
  BY <1>1, <1>3, <1>5, StayRefines DEF Books
<1>6. CASE \E w \in Wakes : torn' = torn \cup {w}
  <2>1. PICK w \in Wakes : torn' = torn \cup {w}
    BY <1>6
  <2>2. Queue!Break(w)
    BY <1>1, <1>4, <2>1 DEF Queue!Break
  <2> QED
    BY <2>2 DEF Queue!Next
<1> QED
  BY <1>2, <1>5, <1>6

\* The steps that touch neither files nor books.
LEMMA RestRefines ==
    ASSUME UNCHANGED <<inbox, claimed, consumed, handed, control, torn>>
    PROVE  UNCHANGED Queue!vars
BY SeenStays, StayRefines DEF Books

LEMMA QueueInit == Init => Queue!Init /\ LeaseKnown
BY DEF Init, Idle, Place, Holder, Queue!Init, LeaseKnown, Working

LEMMA QueueNext ==
    ASSUME IInv, LeaseKnown, [Next]_vars
    PROVE  Queue!Next \/ UNCHANGED Queue!vars
<1>1. ASSUME \/ \E w \in Wakes : StartEmit(w)
             \/ \E c \in Clients, lane \in Lanes \cup {AnyLane} : StartClaim(c, lane)
             \/ RecoverDone \/ ClaimNothing \/ UNCHANGED vars
             \/ \E w \in Wakes : DispatchEnds(w)
             \/ \E r \in Retries : ReplacementSaved(r)
      PROVE  Queue!Next \/ UNCHANGED Queue!vars
  BY <1>1, RestRefines
     DEF StartEmit, StartClaim, RecoverDone, ClaimNothing, ReplacementSaved, DispatchEnds,
         vars, files, retry, history
<1>2. ASSUME NEW w \in Wakes, RecoverWrite(w) \/ ClaimAgain(w) \/ ClaimWrite(w) \/ Expire(w)
      PROVE  Queue!Next \/ UNCHANGED Queue!vars
  BY <1>2, RecoverWriteRefines, ClaimAgainRefines, ClaimWriteRefines, ExpireRefines
<1>3. ASSUME RecoverUnlink \/ EmitMain \/ ClaimUnlink \/ RecoverFail \/ Crash
      PROVE  Queue!Next \/ UNCHANGED Queue!vars
  BY <1>3, RecoverUnlinkRefines, EmitRefines, ClaimUnlinkRefines, BreakRefines
<1>4. ASSUME NEW c \in Clients, NEW w \in Wakes, StartConsume(c, w) \/ StartRelease(c, w)
      PROVE  Queue!Next \/ UNCHANGED Queue!vars
  BY <1>4, ConsumeRefines, ReleaseRefines
<1>5. ASSUME ConsumeUnlinkClaim \/ ConsumeUnlinkInbox \/ ReleaseUnlinkClaim
      PROVE  Queue!Next \/ UNCHANGED Queue!vars
  BY <1>5, ConsumeUnlinkRefines, ReleaseUnlinkRefines
<1>6. ASSUME RequeueUnlinkClaim \/ RequeueUnlinkConsumed \/ RequeueWrite
      PROVE  Queue!Next \/ UNCHANGED Queue!vars
  BY <1>6, RequeueUnlinkRefines, RequeueWriteRefines
<1>7. ASSUME NEW r \in Retries,
             RetryApply(r) \/ StartRequeue(r) \/ RetryComplete(r)
      PROVE  Queue!Next \/ UNCHANGED Queue!vars
  BY <1>7, RetryApplyRefines, RequeueRefines, ControlRefines
<1> QED
  BY <1>1, <1>2, <1>3, <1>4, <1>5, <1>6, <1>7 DEF Next, Emit, Claim, Consume, Release, Proceed

\* Refinement: whatever files the Bridge moves, whoever calls and wherever an
\* operation breaks off, every wake goes the way the abstract queue promises.
THEOREM QueueIsKept == Spec => ImplementsWakeQueue
<1>1. Init => Queue!Init /\ LeaseKnown
  BY QueueInit
<1>2. IInv /\ LeaseKnown /\ [Next]_vars => LeaseKnown'
  BY LeaseKnownStep
<1>3. IInv /\ LeaseKnown /\ [Next]_vars => [Queue!Next]_(Queue!vars)
  BY QueueNext
<1>4. QED
  BY <1>1, <1>2, <1>3, Invariant, PTL DEF Spec, ImplementsWakeQueue, Queue!Spec

\* A consumed wake stays consumed, whatever broke off before, unless its own
\* same-generation retry was asked for, which alone requeues it.
ConsumedStays ==
    [][\A w \in consumed : w \in consumed' \/ \E r \in Retries : RetryOf[r] = w /\ control[r] # "none"]_vars

\* In the abstract queue only a retry takes a wake from where it was consumed.
LEMMA ConsumedLeavesByRetry ==
    ASSUME NEW w \in Wakes, Place(w) = "consumed", [Queue!Next]_(Queue!vars)
    PROVE  Place(w)' = "consumed" \/ \E r \in Retries : RetryOf[r] = w /\ control[r] # "none"
<1> DEFINE at == [u \in Wakes |-> Place(u)]
           asked == {RetryOf[r] : r \in {q \in Retries : control[q] # "none"}}
<1>1. at[w] = "consumed" /\ at'[w] = Place(w)'
  OBVIOUS
<1>2. at'[w] = "consumed" \/ w \in asked
  <2> HIDE DEF at, asked
  <2>1. CASE UNCHANGED Queue!vars
    BY <1>1, <2>1 DEF Queue!vars, at
  <2>2. ASSUME NEW u \in Wakes,
               \/ Queue!Publish(u) \/ Queue!Lapse(u) \/ Queue!AskRetry(u) \/ Queue!TakeOut(u)
               \/ Queue!Break(u)
               \/ \E c \in Clients : \/ Queue!Lease(c, u) \/ Queue!PutBack(c, u)
                                     \/ Queue!Finish(c, u) \/ Queue!Hand(c, u)
                                     \/ Queue!LeaseCopy(c, u)
        PROVE  \/ at' = at
               \/ (at[u] # "consumed" \/ u \in asked) /\ \E to : at' = [at EXCEPT ![u] = to]
    BY <2>2
       DEF Queue!Publish, Queue!Lapse, Queue!AskRetry, Queue!TakeOut, Queue!Break,
           Queue!Lease, Queue!PutBack, Queue!Finish, Queue!Hand, Queue!LeaseCopy,
           Queue!MayEnd, Queue!Move, at, asked
  <2>3. ASSUME NEW u \in Wakes, u # w, NEW to PROVE [at EXCEPT ![u] = to][w] = at[w]
    BY <2>3 DEF at
  <2>4. CASE Queue!Next
    <3>1. PICK u \in Wakes :
             \/ at' = at
             \/ (at[u] # "consumed" \/ u \in asked) /\ \E to : at' = [at EXCEPT ![u] = to]
      BY <2>2, <2>4 DEF Queue!Next
    <3> QED
      BY <1>1, <2>3, <3>1
  <2> QED
    BY <2>1, <2>4
<1> QED
  BY <1>1, <1>2

\* Hence no late, repeated or broken-off operation revives a consumed wake.
THEOREM ConsumedIsFinal == Spec => ConsumedStays
<1>1. ASSUME IInv, [Queue!Next]_(Queue!vars), NEW w \in consumed
      PROVE  w \in consumed' \/ \E r \in Retries : RetryOf[r] = w /\ control[r] # "none"
  <2>1. w \in Wakes /\ Place(w) = "consumed"
    <3>1. consumed \subseteq Wakes
      BY <1>1 DEF IInv, TypeOK
    <3>2. Place(w) = "consumed"
      BY <1>1 DEF Place
    <3> QED
      BY <1>1, <3>1, <3>2
  <2>2. Place(w)' = "consumed" \/ \E r \in Retries : RetryOf[r] = w /\ control[r] # "none"
    BY <1>1, <2>1, ConsumedLeavesByRetry
  <2>3. CASE w \notin consumed'
    <3>1. Place(w)' = IF claimed'[w] = NoFile
                      THEN IF inbox'[w] = NoFile THEN "out" ELSE "waiting"
                      ELSE IF claimed'[w].live THEN "leased" ELSE "lapsed"
      BY <2>3 DEF Place
    <3>2. Place(w)' # "consumed"
      BY <3>1
    <3> QED
      BY <2>2, <3>2
  <2> QED
    BY <2>2, <2>3
<1>2. IInv /\ [Queue!Next]_(Queue!vars) =>
        [\A w \in consumed :
            w \in consumed' \/ \E r \in Retries : RetryOf[r] = w /\ control[r] # "none"]_vars
  BY <1>1
<1> QED
  BY <1>2, Invariant, QueueIsKept, PTL DEF ConsumedStays, ImplementsWakeQueue, Queue!Spec

==============================================================================
