------------------------ MODULE IndexWorkerProofs --------------------------
(* Proofs about IndexWorker, for every set of monitors, chain height, batch *)
(* size, concurrency and number of faults.                                  *)
EXTENDS IndexWorker, TLAPS

USE MonitorAssumption, SizeAssumption DEF Height, BlockNumber

-----------------------------------------------------------------------------
(* The operators on rows.                                                  *)

LEMMA NextBlockType ==
    ASSUME NEW r \in Row PROVE next_block(r) \in BlockNumber
BY DEF Row, next_block, CursorNext, saturating_add

LEMMA PlanToType ==
    ASSUME NEW r \in Row, NEW h \in Height
    PROVE  /\ PlanTo(r, h, BatchSize) \in BlockNumber
           /\ PlanTo(r, h, BatchSize) <= h
           /\ r.end_block # None => PlanTo(r, h, BatchSize) <= r.end_block
BY NextBlockType DEF Row, PlanTo, AtMost, saturating_add

\* A planned block is within the chain and within the monitor's range.
LEMMA PlanRangeBounds ==
    ASSUME NEW r \in Row, NEW h \in Height, NEW b \in PlanRange(r, h, BatchSize)
    PROVE  /\ b \in Height
           /\ b <= h
           /\ next_block(r) <= b
           /\ r.end_block # None => b <= r.end_block
<1>1. /\ next_block(r) \in BlockNumber
      /\ PlanTo(r, h, BatchSize) \in BlockNumber
      /\ PlanTo(r, h, BatchSize) <= h
      /\ r.end_block # None => PlanTo(r, h, BatchSize) <= r.end_block
  BY NextBlockType, PlanToType
<1>2. b \in next_block(r) .. PlanTo(r, h, BatchSize)
  BY DEF PlanRange
<1>3. r.end_block # None => r.end_block \in Int
  BY DEF Row
<1>4. QED
  BY <1>1, <1>2, <1>3

LEMMA RowExceptFlag ==
    ASSUME NEW r \in Row, NEW c \in BOOLEAN
    PROVE  /\ [r EXCEPT !.enabled = c] \in Row
           /\ [r EXCEPT !.completed = c] \in Row
BY DEF Row

LEMMA RowExceptCursor ==
    ASSUME NEW r \in Row, NEW b \in Height
    PROVE  [r EXCEPT !.cursor = b] \in Row
BY DEF Row

LEMMA NewRowType ==
    ASSUME NEW s \in Height, NEW e \in Height \cup {None}
    PROVE  NewRow(s, e) \in Row
BY DEF Row, NewRow

LEMMA BlankRowType == BlankRow \in Row
<1>1. NewRow(0, None) \in Row
  BY DEF NewRow, Row
<1>2. QED
  BY <1>1, RowExceptFlag DEF BlankRow

LEMMA AdvanceRowType ==
    ASSUME NEW r \in Row, NEW b \in Height
    PROVE  /\ AdvanceRow(r, b) \in Row
           /\ AdvanceRow(r, b).start_block = r.start_block
           /\ AdvanceRow(r, b).end_block = r.end_block
           /\ AdvanceRow(r, b).cursor = b
           /\ AdvanceRow(r, b).enabled = r.enabled
           /\ AdvanceRow(r, b).completed <=> (r.end_block # None /\ r.end_block <= b)
<1> DEFINE c == r.end_block # None /\ r.end_block <= b
<1>1. c \in BOOLEAN
  OBVIOUS
<1>2. AdvanceRow(r, b) = [r EXCEPT !.cursor = b, !.completed = c]
  BY DEF AdvanceRow
<1> HIDE DEF c
<1>3. AdvanceRow(r, b) = [[r EXCEPT !.cursor = b] EXCEPT !.completed = c]
  BY <1>2
<1>4. AdvanceRow(r, b) \in Row
  <2>1. [r EXCEPT !.cursor = b] \in Row
    BY RowExceptCursor
  <2>2. QED
    BY <1>1, <1>3, <2>1, RowExceptFlag
<1>5. /\ AdvanceRow(r, b).start_block = r.start_block
      /\ AdvanceRow(r, b).end_block = r.end_block
      /\ AdvanceRow(r, b).cursor = b
      /\ AdvanceRow(r, b).enabled = r.enabled
      /\ AdvanceRow(r, b).completed = c
  BY <1>2 DEF Row
<1>6. QED
  BY <1>4, <1>5 DEF c

-----------------------------------------------------------------------------
(* Types.                                                                  *)

LEMMA NoMonitorsType ==
    /\ NoMonitors \in [{} -> Row]
    /\ NoMonitors \in [{} -> Height \cup {None}]
    /\ DOMAIN NoMonitors = {}
BY DEF NoMonitors

LEMMA NoResultsType == NoResults \in [Height -> Nat]
BY DEF NoResults

LEMMA InitType == Init => TypeOK
<1> SUFFICES ASSUME Init PROVE TypeOK
  OBVIOUS
<1>1. StoreTypeOK
  <2>1. /\ row \in [Monitors -> Row]
        /\ results \in [Monitors -> [Height -> Nat]]
        /\ sunk \in [Monitors -> SUBSET Height]
    BY BlankRowType, NoResultsType DEF Init
  <2>2. QED
    BY <2>1 DEF Init, StoreTypeOK
<1>2. TaskTypeOK
  <2>1. pc = "stopped" /\ cancel = FALSE /\ status = "none" /\ faults = 0
    BY DEF Init
  <2>2. cancel \in BOOLEAN
    BY <2>1
  <2>3. pc \in PC /\ status \in {"none", "starting", "running", "degraded"}
    BY <2>1 DEF PC
  <2>4. faults \in 0 .. MaxFaults
    BY <2>1
  <2>5. QED
    BY <2>2, <2>3, <2>4 DEF TaskTypeOK
<1>3. PollTypeOK
  <2>1. /\ head = 0 /\ snap = NoMonitors /\ progress = NoMonitors
        /\ lo = 0 /\ hi = 0 /\ blk = 0 /\ logs = "none"
        /\ prepared = {} /\ failed = {}
    BY DEF Init
  <2>2. QED
    BY <2>1, NoMonitorsType DEF PollTypeOK, Active
<1>4. QED
  BY <1>1, <1>2, <1>3 DEF TypeOK

\* Ending a poll leaves the poll's variables well typed.
LEMMA ForgetPollType == ForgetPoll => PollTypeOK'
BY NoMonitorsType DEF ForgetPoll, PollTypeOK, Active

LEMMA PlannedType ==
    ASSUME NEW b
    PROVE  PlannedAt(b) \subseteq Active /\ DecodedAt(b) \subseteq PlannedAt(b)
BY DEF PlannedAt, DecodedAt

-----------------------------------------------------------------------------
(* What a step that leaves the store or the poll alone preserves.          *)

\* A step that touches neither the database nor the sink.
LEMMA StoreFrame ==
    StoreInv /\ UNCHANGED <<finalized, store, orphans, sunk>> => StoreInv'
<1> SUFFICES ASSUME StoreInv, UNCHANGED <<finalized, store, orphans, sunk>>
             PROVE  StoreInv'
  OBVIOUS
<1>1. StoreTypeOK'
  BY DEF store, StoreInv, StoreTypeOK
<1>2. StoredExactly' /\ CursorInRange'
  BY DEF store, StoreInv, StoredExactly, CursorInRange
<1>3. SinkStored' /\ FreshEmpty'
  BY DEF store, StoreInv, SinkStored, FreshEmpty
<1>4. OrphansApplicable'
  BY DEF store, StoreInv, OrphansApplicable, CanApply
<1>5. QED
  BY <1>1, <1>2, <1>3, <1>4 DEF StoreInv

\* A step after which no poll is under way.
LEMMA IdleFrame ==
    ASSUME PollTypeOK', ~ Polling', head' <= finalized',
           pc' \in {"stopped", "poll", "load", "sleep"} => blk' = 0
    PROVE  PollInv'
BY DEF PollInv, SnapshotValid, ProgressValid, PositionValid, TransactionValid, Polling

\* Every way a poll ends.
LEMMA EndOfPoll ==
    ASSUME WorkerInv, ForgetPoll, pc' \in {"sleep", "stopped"}, UNCHANGED finalized
    PROVE  PollInv'
<1>1. head' = 0 /\ blk' = 0 /\ finalized' \in Height
  BY DEF WorkerInv, StoreInv, StoreTypeOK, ForgetPoll
<1>2. ~ Polling'
  BY DEF Polling
<1>3. QED
  BY <1>1, <1>2, ForgetPollType, IdleFrame

\* A step within a poll that moves only the task's position.
LEMMA PollFrame ==
    ASSUME WorkerInv, Polling, Polling',
           UNCHANGED <<finalized, store, orphans, sunk, head, snap, progress, blk>>
    PROVE  SnapshotValid' /\ ProgressValid'
<1>1. \A m : LockedByOrphan(m)' <=> LockedByOrphan(m)
  BY DEF LockedByOrphan
<1>2. SnapshotValid'
  BY <1>1 DEF WorkerInv, PollInv, SnapshotValid, Active, store, NextOf
<1>3. ProgressValid'
  BY DEF WorkerInv, PollInv, ProgressValid, Active, NextOf
<1>4. QED
  BY <1>2, <1>3

-----------------------------------------------------------------------------
(* The steps of a poll that do not reach the database.                     *)

LEMMA FaultType == TaskTypeOK /\ Fault => faults' \in 0 .. MaxFaults
BY DEF TaskTypeOK, Fault

LEMMA TaskTypeStep == TaskTypeOK /\ Next => TaskTypeOK'
<1> SUFFICES ASSUME TaskTypeOK, Next PROVE TaskTypeOK'
  OBVIOUS
<1> USE DEF TaskTypeOK, PC
<1>1. CASE Finalize
  BY <1>1 DEF Finalize
<1>2. CASE Api
  BY <1>2 DEF Api, CreateMonitor, SetEnabled, DeleteMonitor
<1>3. CASE Lifecycle
  BY <1>3, FaultType DEF Lifecycle, Start, Cancel, Crash
<1>4. CASE WorkerStep
  <2>1. CASE \/ StopOnCancel \/ LoadMonitors \/ FinishEmptyPoll \/ NextWindow \/ FinishPoll
    BY <2>1 DEF StopOnCancel, LoadMonitors, FinishEmptyPoll, NextWindow, FinishPoll, PollCompleted
  <2>2. ASSUME NEW h \in Height, FetchHead(h) PROVE TaskTypeOK'
    BY <2>2, FaultType DEF FetchHead
  <2>3. CASE \/ TakeBlock \/ TakeFailedBlock \/ AcquirePermit \/ LockRows \/ CommitRejected
             \/ ServerCommit \/ CommitAcknowledged \/ Wake \/ FetchLogs
    BY <2>3 DEF TakeBlock, TakeFailedBlock, AcquirePermit, LockRows, CommitRejected,
                ServerCommit, CommitAcknowledged, Wake, FetchLogs, PollFailed
  <2>4. ASSUME NEW b \in Height, PrepareBlock(b) PROVE TaskTypeOK'
    BY <2>4 DEF PrepareBlock
  <2>5. QED
    BY <1>4, <2>1, <2>2, <2>3, <2>4 DEF WorkerStep
<1>5. CASE WorkerFault
  BY <1>5, FaultType DEF WorkerFault, RequestFailed, PrepareFailed, FetchLogsFailed,
                         CommitFailed, CommitInDoubt, PollFailed
<1>6. CASE OrphanStep
  BY <1>6 DEF OrphanStep, OrphanCommit, OrphanAbort
<1>7. QED
  BY <1>1, <1>2, <1>3, <1>4, <1>5, <1>6 DEF Next

\* Steps after which the poll is over and the store is as it was.
QuietEnd ==
    \/ StopOnCancel \/ RequestFailed \/ FinishEmptyPoll \/ FinishPoll \/ FetchLogsFailed
    \/ TakeFailedBlock \/ CommitRejected \/ CommitFailed

LEMMA QuietEndStep == WorkerInv /\ QuietEnd => StoreInv' /\ PollInv'
<1> SUFFICES ASSUME WorkerInv, QuietEnd PROVE StoreInv' /\ PollInv'
  OBVIOUS
<1>1. /\ ForgetPoll
      /\ pc' \in {"sleep", "stopped"}
      /\ UNCHANGED <<finalized, store, orphans, sunk>>
  BY DEF QuietEnd, StopOnCancel, RequestFailed, FinishEmptyPoll, FinishPoll, FetchLogsFailed,
         TakeFailedBlock, CommitRejected, CommitFailed, PollFailed, PollCompleted
<1>2. QED
  BY <1>1, StoreFrame, EndOfPoll DEF WorkerInv

\* Steps before the poll has loaded anything.
LEMMA IdleStep ==
    ASSUME WorkerInv, Start \/ Wake \/ (\E h \in Height : FetchHead(h))
    PROVE  StoreInv' /\ PollInv'
<1>1. StoreInv'
  BY StoreFrame DEF WorkerInv, Start, Wake, FetchHead
<1>2. /\ ~ Polling'
      /\ head' \in Height /\ head' <= finalized'
      /\ blk' = 0
  BY DEF WorkerInv, StoreInv, StoreTypeOK, PollInv, PositionValid, PollTypeOK, Polling,
         Start, Wake, FetchHead, poll
<1>3. PollTypeOK'
  BY <1>2 DEF WorkerInv, PollInv, PollTypeOK, Active, Start, Wake, FetchHead, poll
<1>4. QED
  BY <1>1, <1>2, <1>3, IdleFrame

\* Steps within a poll that prepare blocks or hand the next one out.
LEMMA PrepareStep ==
    ASSUME WorkerInv,
           \/ \E b \in Height : PrepareBlock(b) \/ PrepareFailed(b)
           \/ FetchLogs \/ TakeBlock \/ AcquirePermit
    PROVE  StoreInv' /\ PollInv'
<1>1. /\ pc \in {"prepare", "permit"} /\ pc' \in {"prepare", "permit", "begin"}
      /\ UNCHANGED <<finalized, store, orphans, sunk, head, snap, progress, lo, hi, blk>>
  BY DEF PrepareBlock, PrepareFailed, FetchLogs, TakeBlock, AcquirePermit, poll
<1>2. Polling /\ Polling'
  BY <1>1 DEF Polling
<1>3. StoreInv'
  BY <1>1, StoreFrame DEF WorkerInv
<1>4. PollTypeOK'
  <2>1. prepared' \in SUBSET Height /\ failed' \in SUBSET Height
        /\ logs' \in {"none", "calls", "pending", "ready"}
    BY DEF WorkerInv, PollInv, PollTypeOK,
           PrepareBlock, PrepareFailed, FetchLogs, TakeBlock, AcquirePermit, poll
  <2>2. QED
    BY <1>1, <2>1 DEF WorkerInv, PollInv, PollTypeOK, Active
<1>5. SnapshotValid' /\ ProgressValid'
  BY <1>1, <1>2, PollFrame
<1>6. PositionValid' /\ TransactionValid'
  BY <1>1, <1>2 DEF WorkerInv, PollInv, PositionValid, TransactionValid, Polling
<1>7. QED
  BY <1>3, <1>4, <1>5, <1>6 DEF PollInv

LEMMA CancelStep == WorkerInv /\ Cancel => StoreInv' /\ PollInv'
<1> SUFFICES ASSUME WorkerInv, Cancel PROVE StoreInv' /\ PollInv'
  OBVIOUS
<1>1. UNCHANGED <<finalized, store, orphans, sunk, pc, poll>>
  BY DEF Cancel
<1>2. StoreInv'
  BY <1>1, StoreFrame DEF WorkerInv
<1>3. PollTypeOK' /\ PositionValid'
  BY <1>1 DEF WorkerInv, PollInv, PollTypeOK, PositionValid, Active, poll, Polling
<1>4. \A m : LockedByOrphan(m)' <=> LockedByOrphan(m)
  BY <1>1 DEF LockedByOrphan
<1>5. \A b : PlannedAt(b)' = PlannedAt(b) /\ DecodedAt(b)' = DecodedAt(b)
  BY <1>1 DEF PlannedAt, DecodedAt, Active, poll
<1>6. TransactionValid'
  BY <1>1, <1>4, <1>5 DEF WorkerInv, PollInv, TransactionValid, CanApply, poll, store
<1>7. SnapshotValid' /\ ProgressValid'
  <2>1. CASE Polling
    BY <1>1, <2>1, PollFrame DEF Polling, poll
  <2>2. CASE ~ Polling
    BY <1>1, <2>2 DEF SnapshotValid, ProgressValid, Polling
  <2>3. QED
    BY <2>1, <2>2
<1>8. QED
  BY <1>2, <1>3, <1>6, <1>7 DEF PollInv

-----------------------------------------------------------------------------
(* The block at hand.                                                      *)

LEMMA NextOfType ==
    ASSUME WorkerInv, Polling, NEW m \in Active
    PROVE  /\ NextOf(m) \in BlockNumber
           /\ progress[m] # None => NextOf(m) = progress[m] + 1
           /\ snap[m] \in Row
BY DEF WorkerInv, PollInv, PollTypeOK, NextOf, CursorNext, saturating_add, Row

\* Monitors are only planned at a block that is the next one for all of them,
\* and every match of a planned block is decoded.
LEMMA AtBlock ==
    ASSUME WorkerInv, Polling, NEW m \in PlannedAt(blk)
    PROVE  /\ m \in Active
           /\ blk \in Height /\ blk <= finalized
           /\ NextOf(m) = blk
           /\ snap[m].end_block # None => blk <= snap[m].end_block
           /\ snap[m].start_block <= blk
           /\ m \in DecodedAt(blk) <=> blk \in Matches[m]
<1>1. m \in Active /\ snap[m] \in Row /\ head \in Height /\ head <= finalized
      /\ blk \in PlanRange(snap[m], head, BatchSize) /\ finalized \in Height
  BY NextOfType DEF PlannedAt, WorkerInv, StoreInv, StoreTypeOK, PollInv, PollTypeOK, PositionValid
<1>2. /\ blk \in Height /\ blk <= head
      /\ next_block(snap[m]) <= blk
      /\ snap[m].end_block # None => blk <= snap[m].end_block
  BY <1>1, PlanRangeBounds
<1>3. /\ NextOf(m) \in BlockNumber
      /\ next_block(snap[m]) \in BlockNumber
      /\ next_block(snap[m]) <= NextOf(m)
      /\ \A b \in PlanRange(snap[m], head, BatchSize) : b < blk <=> b < NextOf(m)
  BY <1>1, NextOfType, NextBlockType DEF WorkerInv, PollInv, ProgressValid
<1>4. NextOf(m) <= blk
  BY <1>1, <1>2, <1>3
<1>5. PlanTo(snap[m], head, BatchSize) \in BlockNumber
  BY <1>1, PlanToType
<1>6. NextOf(m) = blk
  <2>1. NextOf(m) \in PlanRange(snap[m], head, BatchSize)
    BY <1>1, <1>2, <1>3, <1>4, <1>5 DEF PlanRange
  <2>2. QED
    BY <1>2, <1>3, <1>4, <2>1
<1>7. /\ IsActive(snap[m])
      /\ snap[m].start_block <= next_block(snap[m])
      /\ snap[m].cursor # None => snap[m].cursor <= finalized
  BY <1>1 DEF WorkerInv, PollInv, SnapshotValid
<1>8. snap[m].start_block \in BlockNumber
      /\ (snap[m].cursor # None => snap[m].cursor \in BlockNumber)
  BY <1>1 DEF Row
<1>9. snap[m].start_block <= blk
  BY <1>2, <1>3, <1>7, <1>8
<1>10. snap[m].cursor # None => snap[m].cursor < blk
  BY <1>1, <1>2, <1>3, <1>7, <1>8 DEF next_block, CursorNext, saturating_add
<1>11. needs_block(snap[m], blk)
  BY <1>2, <1>7, <1>8, <1>9, <1>10 DEF needs_block, covers, IsActive
<1>12. QED
  BY <1>1, <1>2, <1>6, <1>9, <1>11 DEF DecodedAt

-----------------------------------------------------------------------------
(* Loading, planning, and taking the locks of a commit.                    *)

LEMMA LoadStep == WorkerInv /\ LoadMonitors => StoreInv' /\ PollInv'
<1> SUFFICES ASSUME WorkerInv, LoadMonitors PROVE StoreInv' /\ PollInv'
  OBVIOUS
<1> DEFINE active == {m \in live : IsActive(row[m])}
<1>1. /\ UNCHANGED <<finalized, store, orphans, sunk, head, lo, hi, blk, logs, prepared, failed>>
      /\ snap' = [m \in active |-> row[m]]
      /\ progress' = [m \in active |-> row[m].cursor]
      /\ pc' \in {"empty", "window"}
      /\ blk = 0
  BY DEF LoadMonitors, WorkerInv, PollInv, PositionValid
<1>2. StoreInv'
  BY <1>1, StoreFrame DEF WorkerInv
<1>3. Active' = active /\ active \subseteq live /\ live \subseteq Monitors /\ live \subseteq used
  BY <1>1 DEF Active, WorkerInv, StoreInv, StoreTypeOK
<1>4. \A m \in active :
        /\ snap'[m] = row[m] /\ progress'[m] = row[m].cursor
        /\ row[m] \in Row /\ IsActive(row[m])
        /\ row'[m] = row[m] /\ m \in live' /\ m \in used'
  BY <1>1, <1>3 DEF WorkerInv, StoreInv, StoreTypeOK, store
<1>5. \A m \in active : row[m].cursor # None =>
        /\ row[m].cursor \in Height
        /\ row[m].start_block <= row[m].cursor
        /\ row[m].cursor <= finalized
  BY <1>3 DEF WorkerInv, StoreInv, StoreTypeOK, CursorInRange, Row
<1>6. PollTypeOK'
  <2>1. snap' \in [Active' -> Row] /\ progress' \in [Active' -> Height \cup {None}]
    BY <1>1, <1>3, <1>4, <1>5
  <2>2. QED
    BY <1>1, <1>3, <2>1 DEF WorkerInv, PollInv, PollTypeOK
<1> HIDE DEF active
<1>7. \A m \in active : NextOf(m)' = next_block(row[m])
  BY <1>4 DEF NextOf, next_block
<1>8. \A m \in active :
        /\ next_block(row[m]) \in BlockNumber
        /\ row[m].start_block <= next_block(row[m])
        /\ row[m].cursor # None => next_block(row[m]) = row[m].cursor + 1
  BY <1>4, <1>5 DEF next_block, CursorNext, saturating_add, Row
<1>9. SnapshotValid'
  BY <1>1, <1>3, <1>4, <1>5, <1>8 DEF SnapshotValid
<1>10. ProgressValid'
  <2>1. ASSUME NEW m \in active
        PROVE  /\ next_block(snap'[m]) <= NextOf(m)'
               /\ progress'[m] # None => progress'[m] <= finalized'
    BY <1>1, <1>4, <1>5, <1>7, <1>8
  <2>2. ASSUME NEW m \in active, NEW b \in PlanRange(snap'[m], head', BatchSize)
        PROVE  b < blk' <=> b < NextOf(m)'
    <3>1. b \in Height /\ next_block(row[m]) <= b
      BY <1>1, <1>4, PlanRangeBounds DEF WorkerInv, PollInv, PollTypeOK
    <3>2. QED
      BY <1>1, <1>7, <1>8, <3>1
  <2>3. ASSUME NEW m \in active, NEW b \in sunk'[m]
        PROVE  b < NextOf(m)'
    <3>1. m \in live /\ b \in sunk[m] /\ b \in Height
      BY <1>1, <1>3 DEF WorkerInv, StoreInv, StoreTypeOK
    <3>2. results[m][b] > 0
      BY <3>1 DEF WorkerInv, StoreInv, SinkStored
    <3>3. b \in Indexed(row[m])
      BY <3>1, <3>2 DEF WorkerInv, StoreInv, StoredExactly
    <3>4. row[m].cursor # None /\ b <= row[m].cursor
      BY <3>3, <3>1, <1>4, <1>5 DEF Indexed, Row
    <3>5. QED
      BY <3>1, <3>4, <1>5, <1>7, <1>8
  <2>4. QED
    BY <1>3, <2>1, <2>2, <2>3 DEF ProgressValid
<1>11. PositionValid' /\ TransactionValid'
  BY <1>1 DEF WorkerInv, PollInv, PositionValid, TransactionValid, Polling
<1>12. QED
  BY <1>2, <1>6, <1>9, <1>10, <1>11 DEF PollInv

LEMMA NextWindowStep == WorkerInv /\ NextWindow => StoreInv' /\ PollInv'
<1> SUFFICES ASSUME WorkerInv, NextWindow PROVE StoreInv' /\ PollInv'
  OBVIOUS
<1>1. PICK l \in PlannedBlocks, h \in PlannedBlocks :
        /\ IsNextWindow(l, h)
        /\ lo' = l /\ hi' = h /\ blk' = l
        /\ logs' \in {"pending", "calls"}
  BY DEF NextWindow
<1>2. /\ pc = "window" /\ pc' = "prepare" /\ Polling /\ Polling'
      /\ prepared' = {} /\ failed' = {}
      /\ UNCHANGED <<finalized, store, orphans, sunk, head, snap, progress>>
  BY DEF NextWindow, Polling
<1>3. l \in Height /\ h \in Height /\ l <= h
  BY <1>1 DEF PlannedBlocks, IsNextWindow
<1>4. StoreInv'
  BY <1>2, StoreFrame DEF WorkerInv
<1>5. PollTypeOK'
  BY <1>1, <1>2, <1>3 DEF WorkerInv, PollInv, PollTypeOK, Active
<1>6. SnapshotValid'
  <2>1. \A m : LockedByOrphan(m)' <=> LockedByOrphan(m)
    BY <1>2 DEF LockedByOrphan
  <2>2. QED
    BY <1>2, <2>1 DEF WorkerInv, PollInv, SnapshotValid, Active, store, NextOf
<1>7. ProgressValid'
  <2> SUFFICES ASSUME NEW m \in Active, NEW b \in PlanRange(snap[m], head, BatchSize)
               PROVE  b < l <=> b < NextOf(m)
    BY <1>1, <1>2 DEF WorkerInv, PollInv, ProgressValid, Active, NextOf
  <2>1. b \in Height
    BY <1>2, NextOfType, PlanRangeBounds DEF WorkerInv, PollInv, PollTypeOK
  <2>2. b \in PlannedBlocks
    BY <2>1 DEF PlannedBlocks, PlannedAt
  <2>3. b < blk <=> b < l
    <3>1. /\ l >= blk
          /\ b >= blk => b >= l
      BY <1>1, <2>2 DEF IsNextWindow
    <3>2. blk \in Nat
      BY DEF WorkerInv, PollInv, PollTypeOK
    <3>3. QED
      BY <1>3, <2>1, <3>1, <3>2
  <2>4. QED
    BY <1>2, <2>3 DEF WorkerInv, PollInv, ProgressValid
<1>8. PositionValid' /\ TransactionValid'
  BY <1>1, <1>2, <1>3 DEF WorkerInv, PollInv, PositionValid, TransactionValid, Polling
<1>9. QED
  BY <1>4, <1>5, <1>6, <1>7, <1>8 DEF PollInv

LEMMA LockStep == WorkerInv /\ LockRows => StoreInv' /\ PollInv'
<1> SUFFICES ASSUME WorkerInv, LockRows PROVE StoreInv' /\ PollInv'
  OBVIOUS
<1>1. /\ pc = "begin" /\ pc' = "locked" /\ Polling /\ Polling'
      /\ UNCHANGED <<finalized, store, orphans, sunk, poll>>
      /\ RowsFree /\ Acceptable
  BY DEF LockRows, Polling
<1>2. StoreInv'
  BY <1>1, StoreFrame DEF WorkerInv
<1>3. PollTypeOK' /\ PositionValid'
  BY <1>1 DEF WorkerInv, PollInv, PollTypeOK, PositionValid, Active, poll, Polling
<1>4. SnapshotValid' /\ ProgressValid'
  BY <1>1, PollFrame DEF poll
<1>5. ASSUME NEW m \in PlannedAt(blk)
      PROVE  CanApply(m, blk, m \in DecodedAt(blk))
  <2>1. /\ m \in Active /\ NextOf(m) = blk
        /\ blk \in Height /\ blk <= finalized
        /\ snap[m].end_block # None => blk <= snap[m].end_block
        /\ snap[m].start_block <= blk
        /\ m \in DecodedAt(blk) <=> blk \in Matches[m]
    BY <1>1, AtBlock
  <2>2. m \in live
    BY <1>1 DEF Acceptable
  <2>3. /\ row[m].start_block = snap[m].start_block
        /\ row[m].end_block = snap[m].end_block
        /\ row[m].cursor = progress[m] \/ row[m].cursor = NextOf(m)
    BY <1>1, <2>1, <2>2 DEF WorkerInv, PollInv, SnapshotValid
  <2>4. CASE row[m].cursor = progress[m]
    <3>1. next_block(row[m]) = blk
      BY <2>1, <2>3, <2>4 DEF next_block, NextOf
    <3>2. QED
      BY <2>1, <2>2, <2>3, <3>1 DEF CanApply
  <2>5. CASE row[m].cursor = NextOf(m)
    <3>1. row[m].cursor = blk /\ blk # None
      BY <2>1, <2>5
    <3>2. blk \in Indexed(row[m])
      BY <2>1, <2>3, <3>1 DEF Indexed
    <3>3. blk \notin Matches[m]
      <4>1. blk \in Matches[m] => results[m][blk] = 1
        BY <2>1, <2>2, <3>2 DEF WorkerInv, StoreInv, StoredExactly
      <4>2. blk \in Matches[m] => results[m][blk] = 0
        BY <1>1, <2>1 DEF Acceptable
      <4>3. QED
        BY <4>1, <4>2
    <3>4. QED
      BY <2>1, <2>2, <2>3, <3>1, <3>3 DEF CanApply
  <2>6. QED
    BY <2>3, <2>4, <2>5
<1>6. TransactionValid'
  <2>1. \A b : PlannedAt(b)' = PlannedAt(b) /\ DecodedAt(b)' = DecodedAt(b)
    BY <1>1 DEF PlannedAt, DecodedAt, Active, poll
  <2>2. \A m : LockedByOrphan(m)' <=> LockedByOrphan(m)
    BY <1>1 DEF LockedByOrphan
  <2>3. QED
    BY <1>1, <1>5, <2>1, <2>2 DEF TransactionValid, CanApply, RowsFree, poll, store
<1>7. QED
  BY <1>2, <1>3, <1>4, <1>6 DEF PollInv

-----------------------------------------------------------------------------
(* A transaction becomes visible.                                          *)

\* What a transaction for block b leaves, monitor by monitor.
Applied(b, mons, decoded) ==
    /\ UNCHANGED <<used, live>>
    /\ row' \in [Monitors -> Row]
    /\ results' \in [Monitors -> [Height -> Nat]]
    /\ \A m \in Monitors \ mons : row'[m] = row[m] /\ results'[m] = results[m]
    /\ \A m \in mons :
         /\ row'[m].start_block = row[m].start_block
         /\ row'[m].end_block = row[m].end_block
         /\ row'[m].cursor = b
         /\ row'[m].completed <=> (row[m].end_block # None /\ row[m].end_block <= b)
    /\ \A m \in Monitors : \A c \in Height :
         results'[m][c] = results[m][c] + (IF m \in decoded /\ c = b THEN 1 ELSE 0)

LEMMA ApplyRows ==
    ASSUME StoreTypeOK, NEW b \in Height, NEW mons \in SUBSET Monitors,
           NEW decoded \in SUBSET mons, Apply(b, mons, decoded)
    PROVE  Applied(b, mons, decoded)
<1>1. /\ row' = [m \in Monitors |-> IF m \in mons THEN AdvanceRow(row[m], b) ELSE row[m]]
      /\ results' = [m \in Monitors |->
                       IF m \in decoded THEN [results[m] EXCEPT ![b] = @ + 1] ELSE results[m]]
      /\ UNCHANGED <<used, live>>
  BY DEF Apply
<1>2. \A m \in Monitors : row[m] \in Row /\ results[m] \in [Height -> Nat]
  BY DEF StoreTypeOK
<1>3. row' \in [Monitors -> Row]
  BY <1>1, <1>2, AdvanceRowType
<1>4. results' \in [Monitors -> [Height -> Nat]]
  BY <1>1, <1>2
<1>5. ASSUME NEW m \in mons
      PROVE  /\ row'[m].start_block = row[m].start_block
             /\ row'[m].end_block = row[m].end_block
             /\ row'[m].cursor = b
             /\ row'[m].completed <=> (row[m].end_block # None /\ row[m].end_block <= b)
  <2>1. row'[m] = AdvanceRow(row[m], b) /\ row[m] \in Row
    BY <1>1, <1>2
  <2>2. /\ AdvanceRow(row[m], b).start_block = row[m].start_block
        /\ AdvanceRow(row[m], b).end_block = row[m].end_block
        /\ AdvanceRow(row[m], b).cursor = b
        /\ AdvanceRow(row[m], b).completed <=> (row[m].end_block # None /\ row[m].end_block <= b)
    BY <2>1, AdvanceRowType
  <2>3. QED
    BY <2>1, <2>2
<1>6. \A m \in Monitors \ mons : row'[m] = row[m] /\ results'[m] = results[m]
  BY <1>1
<1>7. \A m \in Monitors : \A c \in Height :
        results'[m][c] = results[m][c] + (IF m \in decoded /\ c = b THEN 1 ELSE 0)
  BY <1>1, <1>2
<1>8. QED
  BY <1>1, <1>3, <1>4, <1>5, <1>6, <1>7 DEF Applied

LEMMA ApplyStore ==
    ASSUME StoreInv, NEW b \in Height, NEW mons \in SUBSET Monitors,
           NEW decoded \in SUBSET mons,
           \A m \in mons : CanApply(m, b, m \in decoded),
           Apply(b, mons, decoded), UNCHANGED <<finalized, sunk>>,
           orphans' \subseteq orphans,
           \A o \in orphans' : o.mons \cap mons = {}
    PROVE  StoreInv'
<1>1. StoreTypeOK
  BY DEF StoreInv
<1>2. /\ UNCHANGED <<used, live>>
      /\ row' \in [Monitors -> Row]
      /\ results' \in [Monitors -> [Height -> Nat]]
      /\ \A m \in Monitors \ mons : row'[m] = row[m] /\ results'[m] = results[m]
      /\ \A m \in mons :
           /\ row'[m].start_block = row[m].start_block
           /\ row'[m].end_block = row[m].end_block
           /\ row'[m].cursor = b
           /\ row'[m].completed <=> (row[m].end_block # None /\ row[m].end_block <= b)
      /\ \A m \in Monitors : \A c \in Height :
           results'[m][c] = results[m][c] + (IF m \in decoded /\ c = b THEN 1 ELSE 0)
  <2>1. Applied(b, mons, decoded)
    BY <1>1, ApplyRows
  <2>2. QED
    BY <2>1 DEF Applied
<1>3. StoreTypeOK'
  <2>1. orphans' \in SUBSET Tx /\ finalized' \in Height /\ sunk' \in [Monitors -> SUBSET Height]
    BY <1>1 DEF StoreTypeOK
  <2>2. used' \in SUBSET Monitors /\ live' \in SUBSET used'
    BY <1>1, <1>2 DEF StoreTypeOK
  <2>3. row' \in [Monitors -> Row] /\ results' \in [Monitors -> [Height -> Nat]]
    BY <1>2
  <2>4. QED
    BY <2>1, <2>2, <2>3 DEF StoreTypeOK
<1>4. \A m \in Monitors : row[m] \in Row /\ row'[m] \in Row /\ results[m] \in [Height -> Nat]
  BY <1>1, <1>2 DEF StoreTypeOK
<1>5. live \subseteq Monitors /\ finalized \in Height
  BY <1>1 DEF StoreTypeOK
<1>6. ASSUME NEW m \in mons
      PROVE  /\ m \in live
             /\ b <= finalized
             /\ row[m].end_block # None => b <= row[m].end_block
             /\ m \in decoded <=> b \in Matches[m]
             /\ \/ row[m].cursor = None /\ b = row[m].start_block
                \/ /\ row[m].cursor # None /\ row[m].start_block <= row[m].cursor
                   /\ row[m].cursor \in Height /\ b = row[m].cursor + 1
                \/ /\ b = row[m].cursor /\ row[m].start_block <= row[m].cursor
                   /\ row[m].cursor # None /\ b \notin Matches[m]
  <2>1. CanApply(m, b, m \in decoded) /\ m \in live /\ row[m] \in Row
    BY <1>4 DEF CanApply
  <2>2. row[m].cursor # None => row[m].start_block <= row[m].cursor /\ row[m].cursor <= finalized
    BY <2>1 DEF StoreInv, CursorInRange
  <2>3. row[m].cursor # None => row[m].cursor \in Height
    BY <1>5, <2>1, <2>2 DEF Row
  <2>4. b = next_block(row[m]) =>
          \/ row[m].cursor = None /\ b = row[m].start_block
          \/ row[m].cursor # None /\ b = row[m].cursor + 1
    BY <2>3 DEF next_block, CursorNext, saturating_add
  <2>5. QED
    BY <2>1, <2>2, <2>3, <2>4 DEF CanApply
<1>7. ASSUME NEW m \in mons, NEW c \in Height
      PROVE  c \in Indexed(row[m])' <=> (c \in Indexed(row[m]) \/ c = b)
  <2>1. Indexed(row[m])' = row[m].start_block .. b
    BY <1>2 DEF Indexed
  <2>2. row[m].start_block \in BlockNumber /\ b # None
    BY <1>4 DEF Row
  <2>3. CASE row[m].cursor = None
    <3>1. b = row[m].start_block
      BY <1>6, <2>2, <2>3
    <3>2. QED
      BY <2>1, <2>2, <2>3, <3>1 DEF Indexed
  <2>4. CASE row[m].cursor # None
    <3>1. /\ row[m].start_block <= row[m].cursor /\ row[m].cursor \in Height
          /\ b = row[m].cursor \/ b = row[m].cursor + 1
      BY <1>6, <2>2, <2>4
    <3>2. Indexed(row[m]) = row[m].start_block .. row[m].cursor
      BY <2>4 DEF Indexed
    <3>3. QED
      BY <2>1, <2>2, <3>1, <3>2
  <2>5. QED
    BY <2>3, <2>4
<1>8. StoredExactly'
  <2> SUFFICES ASSUME NEW m \in live, NEW c \in Height
               PROVE  results'[m][c] = IF c \in Matches[m] \cap Indexed(row[m])' THEN 1 ELSE 0
    BY <1>2 DEF StoredExactly
  <2>1. results[m][c] = IF c \in Matches[m] \cap Indexed(row[m]) THEN 1 ELSE 0
    BY DEF StoreInv, StoredExactly
  <2>2. CASE m \notin mons
    BY <1>2, <1>5, <2>1, <2>2 DEF Indexed
  <2>3. CASE m \in mons /\ c # b
    BY <1>2, <1>5, <1>4, <1>7, <2>1, <2>3
  <2>4. CASE m \in mons /\ c = b
    <3>1. b \in Matches[m] => b \notin Indexed(row[m])
      BY <1>4, <1>6, <2>4 DEF Indexed, Row
    <3>2. results'[m][b] = results[m][b] + (IF m \in decoded THEN 1 ELSE 0)
      BY <1>2, <1>5
    <3>3. b \in Indexed(row[m])'
      BY <1>7, <2>4
    <3>4. QED
      BY <1>6, <2>1, <2>4, <3>1, <3>2, <3>3
  <2>5. QED
    BY <2>2, <2>3, <2>4
<1>9. CursorInRange'
  <2> SUFFICES ASSUME NEW m \in live
               PROVE  /\ row'[m].cursor # None =>
                           /\ row'[m].start_block <= row'[m].cursor
                           /\ row'[m].cursor <= finalized
                           /\ row'[m].end_block # None => row'[m].cursor <= row'[m].end_block
                      /\ row'[m].completed <=>
                           (row'[m].end_block # None /\ row'[m].cursor = row'[m].end_block)
    BY <1>2 DEF CursorInRange
  <2>1. CASE m \notin mons
    BY <1>2, <1>5, <2>1 DEF StoreInv, CursorInRange
  <2>2. CASE m \in mons
    <3>1. row[m].start_block <= b
      BY <1>4, <1>6, <2>2 DEF Row
    <3>2. row[m].end_block # None => (row[m].end_block <= b <=> b = row[m].end_block)
      BY <1>4, <1>6, <2>2 DEF Row
    <3>3. QED
      BY <1>2, <1>6, <2>2, <3>1, <3>2
  <2>3. QED
    BY <2>1, <2>2
<1>10. SinkStored'
  <2> SUFFICES ASSUME NEW m \in live, NEW c \in sunk[m] PROVE results'[m][c] > 0
    BY <1>2 DEF SinkStored
  <2>1. results[m][c] > 0 /\ c \in Height /\ m \in Monitors
    BY <1>1, <1>5 DEF StoreInv, SinkStored, StoreTypeOK
  <2>2. results'[m][c] = results[m][c] + (IF m \in decoded /\ c = b THEN 1 ELSE 0)
    BY <1>2, <2>1
  <2>3. results[m][c] \in Nat
    BY <1>4, <2>1
  <2>4. QED
    BY <2>1, <2>2, <2>3
<1>11. FreshEmpty'
  <2>1. \A m \in mons : m \in used
    BY <1>1, <1>6 DEF StoreTypeOK
  <2>2. QED
    BY <1>2, <2>1 DEF StoreInv, FreshEmpty
<1>12. OrphansApplicable'
  <2>1. ASSUME NEW o \in orphans', NEW m \in o.mons
        PROVE  CanApply(m, o.block, m \in o.decoded)'
    <3>1. o \in orphans /\ m \notin mons /\ m \in Monitors
      BY <1>1 DEF StoreTypeOK, Tx
    <3>2. CanApply(m, o.block, m \in o.decoded)
      BY <3>1 DEF StoreInv, OrphansApplicable
    <3>3. row'[m] = row[m]
      BY <1>2, <3>1
    <3>4. QED
      BY <1>2, <3>2, <3>3 DEF CanApply
  <2>2. QED
    BY <2>1 DEF StoreInv, OrphansApplicable
<1>13. QED
  BY <1>3, <1>8, <1>9, <1>10, <1>11, <1>12 DEF StoreInv

LEMMA PlanFrame ==
    ASSUME UNCHANGED <<head, snap>>
    PROVE  /\ Active' = Active
           /\ \A b : PlannedAt(b)' = PlannedAt(b) /\ DecodedAt(b)' = DecodedAt(b)
BY DEF PlannedAt, DecodedAt, Active

LEMMA ServerCommitStep == WorkerInv /\ ServerCommit => StoreInv' /\ PollInv'
<1> SUFFICES ASSUME WorkerInv, ServerCommit PROVE StoreInv' /\ PollInv'
  OBVIOUS
<1>1. /\ pc = "locked" /\ pc' = "committed" /\ Polling /\ Polling'
      /\ Apply(blk, PlannedAt(blk), DecodedAt(blk))
      /\ UNCHANGED <<finalized, orphans, poll, sunk>>
  BY DEF ServerCommit, Polling
<1>2. /\ Active \subseteq Monitors
      /\ PlannedAt(blk) \subseteq Active /\ DecodedAt(blk) \subseteq PlannedAt(blk)
      /\ blk \in Height
  BY <1>1, PlannedType DEF WorkerInv, PollInv, PollTypeOK, PositionValid
<1>3. \A m \in PlannedAt(blk) : CanApply(m, blk, m \in DecodedAt(blk)) /\ ~ LockedByOrphan(m)
  BY <1>1 DEF WorkerInv, PollInv, TransactionValid
<1>4. StoreInv'
  <2>1. \A o \in orphans' : o.mons \cap PlannedAt(blk) = {}
    BY <1>1, <1>3 DEF LockedByOrphan
  <2>2. QED
    BY <1>1, <1>2, <1>3, <2>1, ApplyStore DEF WorkerInv
<1>5. Applied(blk, PlannedAt(blk), DecodedAt(blk))
  BY <1>1, <1>2, ApplyRows DEF WorkerInv, StoreInv
<1>6. PollTypeOK' /\ PositionValid' /\ ProgressValid'
  BY <1>1 DEF WorkerInv, PollInv, PollTypeOK, PositionValid, ProgressValid, Active, poll, Polling, NextOf
<1>7. \A m : LockedByOrphan(m)' <=> LockedByOrphan(m)
  BY <1>1 DEF LockedByOrphan
<1>8. Active' = Active /\ PlannedAt(blk)' = PlannedAt(blk)
  BY <1>1, PlanFrame DEF poll, PlannedAt
<1>9. ASSUME NEW m \in Active, m \in live
      PROVE  /\ row'[m].start_block = row[m].start_block
             /\ row'[m].end_block = row[m].end_block
             /\ m \in PlannedAt(blk) => row'[m].cursor = blk
             /\ m \notin PlannedAt(blk) => row'[m].cursor = row[m].cursor
  BY <1>2, <1>5 DEF Applied
<1>10. SnapshotValid'
  <2> SUFFICES ASSUME NEW m \in Active, m \in live
               PROVE  /\ row'[m].start_block = snap[m].start_block
                      /\ row'[m].end_block = snap[m].end_block
                      /\ \/ row'[m].cursor = progress[m]
                         \/ row'[m].cursor = NextOf(m) /\ ~ LockedByOrphan(m)
    BY <1>1, <1>5, <1>7, <1>8 DEF WorkerInv, PollInv, SnapshotValid, poll, Applied, NextOf
  <2>1. /\ row[m].start_block = snap[m].start_block
        /\ row[m].end_block = snap[m].end_block
        /\ \/ row[m].cursor = progress[m]
           \/ row[m].cursor = NextOf(m) /\ ~ LockedByOrphan(m)
    BY <1>1 DEF WorkerInv, PollInv, SnapshotValid
  <2>2. m \in PlannedAt(blk) => NextOf(m) = blk
    BY <1>1, AtBlock
  <2>3. QED
    BY <1>3, <1>9, <2>1, <2>2
<1>11. TransactionValid'
  BY <1>1, <1>2, <1>3, <1>5, <1>7, <1>8, <1>9 DEF TransactionValid, poll, Applied
<1>12. QED
  BY <1>4, <1>6, <1>10, <1>11 DEF PollInv

LEMMA OrphanCommitStep ==
    ASSUME WorkerInv, NEW o \in orphans, OrphanCommit(o)
    PROVE  StoreInv' /\ PollInv'
<1>1. /\ Apply(o.block, o.mons, o.decoded)
      /\ orphans' = orphans \ {o}
      /\ UNCHANGED <<finalized, pc, poll, sunk>>
  BY DEF OrphanCommit
<1>2. /\ o.block \in Height /\ o.mons \in SUBSET Monitors /\ o.decoded \in SUBSET o.mons
      /\ \A m \in o.mons : CanApply(m, o.block, m \in o.decoded)
      /\ \A p \in orphans' : p.mons \cap o.mons = {}
  BY <1>1 DEF WorkerInv, StoreInv, StoreTypeOK, Tx, OrphansApplicable
<1>3. StoreInv'
  BY <1>1, <1>2, ApplyStore DEF WorkerInv
<1>4. Applied(o.block, o.mons, o.decoded)
  BY <1>1, <1>2, ApplyRows DEF WorkerInv, StoreInv
<1>5. PollTypeOK' /\ PositionValid' /\ ProgressValid'
  BY <1>1 DEF WorkerInv, PollInv, PollTypeOK, PositionValid, ProgressValid, Active, poll, Polling, NextOf
<1>6. /\ \A m \in o.mons : LockedByOrphan(m) /\ ~ LockedByOrphan(m)'
      /\ \A m : LockedByOrphan(m)' => LockedByOrphan(m)
  BY <1>1, <1>2 DEF LockedByOrphan
<1>7. Active' = Active /\ PlannedAt(blk)' = PlannedAt(blk) /\ DecodedAt(blk)' = DecodedAt(blk)
  BY <1>1, PlanFrame DEF poll, PlannedAt, DecodedAt
<1>8. Active \subseteq Monitors /\ PlannedAt(blk) \subseteq Active /\ live' = live /\ used' = used
  BY <1>4, PlannedType DEF WorkerInv, PollInv, PollTypeOK, Applied
<1>9. /\ \A m \in o.mons :
           /\ row'[m].start_block = row[m].start_block
           /\ row'[m].end_block = row[m].end_block
           /\ row'[m].cursor = o.block
      /\ \A m \in Monitors \ o.mons : row'[m] = row[m]
  BY <1>4 DEF Applied
<1>10. SnapshotValid'
  <2> SUFFICES ASSUME Polling, NEW m \in Active, m \in live
               PROVE  /\ row'[m].start_block = snap[m].start_block
                      /\ row'[m].end_block = snap[m].end_block
                      /\ \/ row'[m].cursor = progress[m]
                         \/ row'[m].cursor = NextOf(m) /\ ~ LockedByOrphan(m)'
    BY <1>1, <1>7, <1>8 DEF WorkerInv, PollInv, SnapshotValid, poll, NextOf, Polling
  <2>1. /\ row[m].start_block = snap[m].start_block
        /\ row[m].end_block = snap[m].end_block
        /\ \/ row[m].cursor = progress[m]
           \/ row[m].cursor = NextOf(m) /\ ~ LockedByOrphan(m)
    BY DEF WorkerInv, PollInv, SnapshotValid
  <2>2. CASE m \in o.mons
    <3>1. row[m].cursor = progress[m]
      BY <1>6, <2>1, <2>2
    <3>2. next_block(row[m]) = NextOf(m)
      BY <2>1, <3>1 DEF next_block, NextOf
    <3>3. o.block = next_block(row[m]) \/ o.block = row[m].cursor
      BY <1>2, <2>2 DEF CanApply
    <3>4. QED
      BY <1>6, <1>9, <2>1, <2>2, <3>1, <3>2, <3>3
  <2>3. CASE m \notin o.mons
    BY <1>6, <1>8, <1>9, <2>1, <2>3
  <2>4. QED
    BY <2>2, <2>3
<1>11. TransactionValid'
  <2>1. pc \in {"locked", "committed"} =>
          \A m \in PlannedAt(blk) : m \notin o.mons /\ row'[m] = row[m] /\ ~ LockedByOrphan(m)'
    BY <1>6, <1>8, <1>9 DEF WorkerInv, PollInv, TransactionValid
  <2>2. QED
    BY <1>1, <1>7, <1>8, <2>1 DEF WorkerInv, PollInv, TransactionValid, CanApply, poll
<1>12. QED
  BY <1>3, <1>5, <1>10, <1>11 DEF PollInv

-----------------------------------------------------------------------------
(* What happens around the worker: the API, the chain, dying transactions.  *)

\* A step that moves no cursor the poll looks at leaves the poll valid.
LEMMA Bystander ==
    ASSUME WorkerInv, UNCHANGED <<pc, poll, sunk>>,
           finalized' \in Height, finalized <= finalized', used \subseteq used',
           orphans' \subseteq orphans,
           \A m \in Active \cap live' :
             /\ m \in live
             /\ row'[m].start_block = row[m].start_block
             /\ row'[m].end_block = row[m].end_block
             /\ row'[m].cursor = row[m].cursor,
           pc = "locked" => PlannedAt(blk) \cap live \subseteq live'
    PROVE  PollInv'
<1>1. finalized \in Height
  BY DEF WorkerInv, StoreInv, StoreTypeOK
<1>2. /\ \A m : LockedByOrphan(m)' => LockedByOrphan(m)
      /\ Active' = Active /\ PlannedAt(blk)' = PlannedAt(blk) /\ DecodedAt(blk)' = DecodedAt(blk)
      /\ PlannedAt(blk) \subseteq Active
      /\ Polling' <=> Polling
  BY PlanFrame, PlannedType DEF LockedByOrphan, poll, PlannedAt, DecodedAt, Polling
<1>3. PollTypeOK' /\ PositionValid'
  <2>1. PollTypeOK'
    BY DEF WorkerInv, PollInv, PollTypeOK, Active, poll
  <2>2. head' <= finalized'
    <3>1. head \in Height /\ head <= finalized /\ head' = head
      BY DEF WorkerInv, PollInv, PollTypeOK, PositionValid, poll
    <3>2. QED
      BY <1>1, <3>1
  <2>3. QED
    BY <1>2, <2>1, <2>2 DEF WorkerInv, PollInv, PositionValid, poll
<1>4. SnapshotValid'
  <2> SUFFICES ASSUME Polling, NEW m \in Active
               PROVE  /\ m \in used'
                      /\ IsActive(snap[m])
                      /\ snap[m].start_block <= next_block(snap[m])
                      /\ snap[m].cursor # None => snap[m].cursor <= finalized'
                      /\ m \in live' =>
                           /\ row'[m].start_block = snap[m].start_block
                           /\ row'[m].end_block = snap[m].end_block
                           /\ \/ row'[m].cursor = progress[m]
                              \/ row'[m].cursor = NextOf(m) /\ ~ LockedByOrphan(m)'
    BY <1>2 DEF SnapshotValid, poll, NextOf
  <2>1. /\ m \in used
        /\ IsActive(snap[m])
        /\ snap[m].start_block <= next_block(snap[m])
        /\ snap[m].cursor # None => snap[m].cursor <= finalized
        /\ m \in live =>
             /\ row[m].start_block = snap[m].start_block
             /\ row[m].end_block = snap[m].end_block
             /\ \/ row[m].cursor = progress[m]
                \/ row[m].cursor = NextOf(m) /\ ~ LockedByOrphan(m)
    BY DEF WorkerInv, PollInv, SnapshotValid
  <2>2. snap[m].cursor # None => snap[m].cursor \in BlockNumber
    BY NextOfType DEF Row
  <2>3. snap[m].cursor # None => snap[m].cursor <= finalized'
    BY <1>1, <2>1, <2>2
  <2>4. QED
    BY <1>2, <2>1, <2>3
<1>5. ProgressValid'
  <2> SUFFICES ASSUME Polling, NEW m \in Active, progress[m] # None
               PROVE  progress[m] <= finalized'
    BY <1>2 DEF WorkerInv, PollInv, ProgressValid, poll, NextOf
  <2>1. progress[m] <= finalized /\ progress[m] \in Height
    BY DEF WorkerInv, PollInv, ProgressValid, PollTypeOK
  <2>2. QED
    BY <1>1, <2>1
<1>6. TransactionValid'
  <2>1. ASSUME pc = "locked", NEW m \in PlannedAt(blk)
        PROVE  CanApply(m, blk, m \in DecodedAt(blk))'
    <3>1. CanApply(m, blk, m \in DecodedAt(blk))
      BY <2>1 DEF WorkerInv, PollInv, TransactionValid
    <3>2. m \in live /\ m \in live' /\ blk \in Height /\ blk <= finalized /\ m \in Active
      BY <1>2, <2>1, <3>1, AtBlock DEF CanApply, Polling
    <3>3. blk <= finalized'
      BY <1>1, <3>2
    <3>4. QED
      BY <1>2, <3>1, <3>2, <3>3 DEF CanApply, poll, next_block
  <2>2. QED
    BY <1>2, <2>1 DEF WorkerInv, PollInv, TransactionValid, poll
<1>7. QED
  BY <1>3, <1>4, <1>5, <1>6 DEF PollInv

LEMMA CreateStep ==
    ASSUME WorkerInv, NEW m \in Monitors, NEW s \in Height, NEW e \in Height \cup {None},
           CreateMonitor(m, s, e)
    PROVE  StoreInv' /\ PollInv'
<1>1. /\ m \notin used /\ used' = used \cup {m} /\ live' = live \cup {m}
      /\ row' = [row EXCEPT ![m] = NewRow(s, e)]
      /\ UNCHANGED <<finalized, results, orphans, pc, poll, sunk>>
  BY DEF CreateMonitor
<1>2. StoreTypeOK /\ NewRow(s, e) \in Row
  BY NewRowType DEF WorkerInv, StoreInv
<1>3. StoreTypeOK'
  BY <1>1, <1>2 DEF StoreTypeOK
<1>4. /\ row'[m] = NewRow(s, e)
      /\ \A n \in Monitors \ {m} : row'[n] = row[n]
      /\ live \subseteq used /\ used \subseteq Monitors /\ finalized \in Height
  BY <1>1, <1>2 DEF StoreTypeOK
<1>5. NewRow(s, e).cursor = None /\ NewRow(s, e).completed = FALSE
  BY DEF NewRow
<1>6. results[m] = NoResults /\ sunk[m] = {}
  BY <1>1 DEF WorkerInv, StoreInv, FreshEmpty
<1>7. StoredExactly'
  <2>1. \A b \in Height : results'[m][b] = IF b \in Matches[m] \cap Indexed(row'[m]) THEN 1 ELSE 0
    BY <1>1, <1>4, <1>5, <1>6 DEF Indexed, NoResults
  <2>2. \A n \in live : \A b \in Height :
          results'[n][b] = IF b \in Matches[n] \cap Indexed(row'[n]) THEN 1 ELSE 0
    BY <1>1, <1>4 DEF WorkerInv, StoreInv, StoredExactly
  <2>3. QED
    BY <1>1, <2>1, <2>2 DEF StoredExactly, Indexed
<1>8. CursorInRange'
  <2>1. e # None /\ NewRow(s, e).cursor = NewRow(s, e).end_block => FALSE
    BY DEF NewRow
  <2>2. NewRow(s, e).end_block = e
    BY DEF NewRow
  <2>3. QED
    BY <1>1, <1>4, <1>5, <2>1, <2>2 DEF WorkerInv, StoreInv, CursorInRange
<1>9. SinkStored' /\ FreshEmpty'
  BY <1>1, <1>6 DEF WorkerInv, StoreInv, SinkStored, FreshEmpty
<1>10. OrphansApplicable'
  <2>1. ASSUME NEW o \in orphans, NEW n \in o.mons
        PROVE  CanApply(n, o.block, n \in o.decoded)'
    <3>1. CanApply(n, o.block, n \in o.decoded)
      BY DEF WorkerInv, StoreInv, OrphansApplicable
    <3>2. n \in live /\ row'[n] = row[n]
      BY <1>1, <1>4, <3>1 DEF CanApply
    <3>3. QED
      BY <1>1, <3>1, <3>2 DEF CanApply
  <2>2. QED
    BY <1>1, <2>1 DEF WorkerInv, StoreInv, OrphansApplicable
<1>11. StoreInv'
  BY <1>3, <1>7, <1>8, <1>9, <1>10 DEF StoreInv
<1>12. PollInv'
  <2>1. CASE Polling
    <3>1. \A n \in Active : n \in used
      BY <2>1 DEF WorkerInv, PollInv, SnapshotValid
    <3>2. \A n \in Active \cap live' : n \in live /\ row'[n] = row[n]
      BY <1>1, <1>4, <3>1
    <3>3. QED
      BY <1>1, <1>4, <3>2, Bystander
  <2>2. CASE ~ Polling
    BY <1>1, <1>4, <2>2, IdleFrame DEF WorkerInv, PollInv, PollTypeOK, PositionValid, Polling, poll, Active
  <2>3. QED
    BY <2>1, <2>2
<1>13. QED
  BY <1>11, <1>12

\* Pausing, resuming and deleting: a row changes its flag or goes away.
LEMMA SetEnabledStep ==
    ASSUME WorkerInv, NEW m \in Monitors, NEW flag \in BOOLEAN, SetEnabled(m, flag)
    PROVE  StoreInv' /\ PollInv'
<1>1. /\ row' = [row EXCEPT ![m] = [row[m] EXCEPT !.enabled = flag]]
      /\ UNCHANGED <<finalized, used, live, results, orphans, pc, poll, sunk>>
  BY DEF SetEnabled
<1>2. StoreTypeOK /\ row[m] \in Row
  BY DEF WorkerInv, StoreInv, StoreTypeOK
<1>3. row' \in [Monitors -> Row]
  BY <1>1, <1>2, RowExceptFlag DEF StoreTypeOK
<1>4. \A n \in Monitors :
        /\ row'[n].start_block = row[n].start_block
        /\ row'[n].end_block = row[n].end_block
        /\ row'[n].cursor = row[n].cursor
        /\ row'[n].completed = row[n].completed
  <2>1. row'[m] = [row[m] EXCEPT !.enabled = flag]
    BY <1>1, <1>2 DEF StoreTypeOK
  <2>2. \A n \in Monitors \ {m} : row'[n] = row[n]
    BY <1>1, <1>2 DEF StoreTypeOK
  <2>3. QED
    BY <1>2, <2>1, <2>2 DEF Row
<1>5. live \subseteq Monitors /\ Active \subseteq Monitors /\ finalized \in Height
  BY <1>2 DEF StoreTypeOK, WorkerInv, PollInv, PollTypeOK
<1>6. StoreInv'
  <2>1. StoreTypeOK'
    BY <1>1, <1>2, <1>3 DEF StoreTypeOK
  <2>2. StoredExactly'
    BY <1>1, <1>4, <1>5 DEF WorkerInv, StoreInv, StoredExactly, Indexed
  <2>3. CursorInRange' /\ SinkStored' /\ FreshEmpty'
    BY <1>1, <1>4, <1>5 DEF WorkerInv, StoreInv, CursorInRange, SinkStored, FreshEmpty
  <2>4. OrphansApplicable'
    <3>1. \A n \in Monitors : next_block(row'[n]) = next_block(row[n])
      BY <1>4 DEF next_block
    <3>2. \A o \in orphans : o.mons \subseteq Monitors
      BY <1>2 DEF StoreTypeOK, Tx
    <3>3. QED
      BY <1>1, <1>4, <3>1, <3>2 DEF WorkerInv, StoreInv, OrphansApplicable, CanApply
  <2>5. QED
    BY <2>1, <2>2, <2>3, <2>4 DEF StoreInv
<1>7. PollInv'
  BY <1>1, <1>4, <1>5, Bystander
<1>8. QED
  BY <1>6, <1>7

LEMMA DeleteStep ==
    ASSUME WorkerInv, NEW m \in Monitors, DeleteMonitor(m)
    PROVE  StoreInv' /\ PollInv'
<1>1. /\ ~ Locked(m) /\ m \in live
      /\ live' = live \ {m}
      /\ row' = [row EXCEPT ![m] = BlankRow]
      /\ results' = [results EXCEPT ![m] = NoResults]
      /\ UNCHANGED <<finalized, used, orphans, pc, poll, sunk>>
  BY DEF DeleteMonitor
<1>2. StoreTypeOK
  BY DEF WorkerInv, StoreInv
<1>3. StoreTypeOK'
  <2>1. row' \in [Monitors -> Row] /\ results' \in [Monitors -> [Height -> Nat]]
    BY <1>1, <1>2, BlankRowType, NoResultsType DEF StoreTypeOK
  <2>2. QED
    BY <1>1, <1>2, <2>1 DEF StoreTypeOK
<1>4. /\ \A n \in live' : n \in live /\ n \in Monitors /\ row'[n] = row[n] /\ results'[n] = results[n]
      /\ Active \subseteq Monitors /\ finalized \in Height /\ live \subseteq used
  BY <1>1, <1>2 DEF StoreTypeOK, WorkerInv, PollInv, PollTypeOK
<1>5. StoreInv'
  <2>1. StoredExactly' /\ CursorInRange' /\ SinkStored'
    BY <1>1, <1>4 DEF WorkerInv, StoreInv, StoredExactly, CursorInRange, SinkStored, Indexed
  <2>2. FreshEmpty'
    BY <1>1, <1>2, <1>4 DEF StoreTypeOK, WorkerInv, StoreInv, FreshEmpty
  <2>3. OrphansApplicable'
    <3>1. ASSUME NEW o \in orphans, NEW n \in o.mons
          PROVE  CanApply(n, o.block, n \in o.decoded)'
      <4>1. CanApply(n, o.block, n \in o.decoded)
        BY DEF WorkerInv, StoreInv, OrphansApplicable
      <4>2. n # m
        BY <1>1 DEF Locked, LockedByOrphan
      <4>3. n \in live' /\ row'[n] = row[n]
        BY <1>1, <1>4, <4>1, <4>2 DEF CanApply
      <4>4. QED
        BY <1>1, <4>1, <4>3 DEF CanApply
    <3>2. QED
      BY <1>1, <3>1 DEF WorkerInv, StoreInv, OrphansApplicable
  <2>4. QED
    BY <1>3, <2>1, <2>2, <2>3 DEF StoreInv
<1>6. PollInv'
  <2>1. pc = "locked" => PlannedAt(blk) \cap live \subseteq live'
    BY <1>1 DEF Locked
  <2>2. QED
    BY <1>1, <1>4, <2>1, Bystander
<1>7. QED
  BY <1>5, <1>6

LEMMA OrphanAbortStep ==
    ASSUME WorkerInv, NEW o \in orphans, OrphanAbort(o)
    PROVE  StoreInv' /\ PollInv'
<1>1. orphans' = orphans \ {o} /\ UNCHANGED <<finalized, store, pc, poll, sunk>>
  BY DEF OrphanAbort
<1>2. StoreInv'
  BY <1>1 DEF WorkerInv, StoreInv, store, StoreTypeOK, StoredExactly, CursorInRange, SinkStored,
              FreshEmpty, OrphansApplicable, CanApply
<1>3. finalized \in Height
  BY DEF WorkerInv, StoreInv, StoreTypeOK
<1>4. PollInv'
  BY <1>1, <1>3, Bystander DEF store
<1>5. QED
  BY <1>2, <1>4

LEMMA FinalizeStep == WorkerInv /\ Finalize => StoreInv' /\ PollInv'
<1> SUFFICES ASSUME WorkerInv, Finalize PROVE StoreInv' /\ PollInv'
  OBVIOUS
<1>1. /\ finalized \in Height /\ finalized' \in Height /\ finalized <= finalized'
      /\ UNCHANGED <<store, orphans, pc, poll, sunk>>
  BY DEF Finalize, WorkerInv, StoreInv, StoreTypeOK
<1>2. StoreInv'
  <2>1. StoreTypeOK' /\ StoredExactly' /\ SinkStored' /\ FreshEmpty'
    BY <1>1 DEF WorkerInv, StoreInv, store, StoreTypeOK, StoredExactly, SinkStored, FreshEmpty
  <2>2. CursorInRange'
    <3>1. \A m \in live : row[m].cursor # None => row[m].cursor <= finalized /\ row[m].cursor \in Int
      BY DEF WorkerInv, StoreInv, StoreTypeOK, CursorInRange, Row
    <3>2. \A m \in live : row[m].cursor # None => row[m].cursor <= finalized'
      BY <1>1, <3>1
    <3>3. QED
      BY <1>1, <3>2 DEF WorkerInv, StoreInv, CursorInRange, store
  <2>3. OrphansApplicable'
    <3>1. \A o \in orphans : \A m \in o.mons : o.block <= finalized /\ o.block \in Int
      BY DEF WorkerInv, StoreInv, StoreTypeOK, Tx, OrphansApplicable, CanApply
    <3>2. \A o \in orphans : \A m \in o.mons : o.block <= finalized'
      BY <1>1, <3>1
    <3>3. QED
      BY <1>1, <3>2 DEF WorkerInv, StoreInv, OrphansApplicable, CanApply, store
  <2>4. QED
    BY <2>1, <2>2, <2>3 DEF StoreInv
<1>3. PollInv'
  BY <1>1, Bystander DEF store
<1>4. QED
  BY <1>2, <1>3

-----------------------------------------------------------------------------
(* After a commit, and after a commit that is in doubt.                    *)

\* The client of the transaction that holds the locks is gone.
LEMMA InDoubtStore ==
    ASSUME WorkerInv, pc = "locked", orphans' = orphans \cup OrphanTx,
           UNCHANGED <<finalized, store, sunk>>
    PROVE  StoreInv'
<1> DEFINE tx == [block |-> blk, mons |-> PlannedAt(blk), decoded |-> DecodedAt(blk)]
<1>1. orphans' = orphans \cup {tx}
  BY DEF OrphanTx
<1>2. tx.block = blk /\ tx.mons = PlannedAt(blk) /\ tx.decoded = DecodedAt(blk)
  OBVIOUS
<1>3. tx \in Tx
  <2>1. /\ blk \in Height
        /\ PlannedAt(blk) \subseteq Monitors /\ DecodedAt(blk) \subseteq Monitors
    BY PlannedType DEF WorkerInv, PollInv, PollTypeOK, PositionValid, Polling
  <2>2. QED
    BY <2>1 DEF Tx
<1> HIDE DEF tx
<1>4. /\ \A m \in tx.mons : CanApply(m, tx.block, m \in tx.decoded) /\ ~ LockedByOrphan(m)
      /\ tx.decoded \subseteq tx.mons
  BY <1>2, PlannedType DEF WorkerInv, PollInv, TransactionValid
<1>5. StoreTypeOK' /\ StoredExactly' /\ CursorInRange' /\ SinkStored' /\ FreshEmpty'
  <2>1. orphans' \in SUBSET Tx
    BY <1>1, <1>3 DEF WorkerInv, StoreInv, StoreTypeOK
  <2>2. QED
    BY <2>1 DEF WorkerInv, StoreInv, store, StoreTypeOK, StoredExactly, CursorInRange, SinkStored,
                FreshEmpty
<1>6. OrphansApplicable'
  <2>1. \A o \in orphans : o.mons \cap tx.mons = {}
    BY <1>4 DEF LockedByOrphan
  <2>2. \A m, b, d : CanApply(m, b, d) => CanApply(m, b, d)'
    BY DEF CanApply, store
  <2>3. QED
    BY <1>1, <1>4, <2>1, <2>2 DEF WorkerInv, StoreInv, OrphansApplicable
<1>7. QED
  BY <1>5, <1>6 DEF StoreInv

LEMMA CrashStep == WorkerInv /\ (Crash \/ CommitInDoubt) => StoreInv' /\ PollInv'
<1> SUFFICES ASSUME WorkerInv, Crash \/ CommitInDoubt PROVE StoreInv' /\ PollInv'
  OBVIOUS
<1>1. /\ UNCHANGED <<finalized, store, sunk>>
      /\ ForgetPoll /\ pc' \in {"sleep", "stopped"}
      /\ orphans' = orphans \/ (pc = "locked" /\ orphans' = orphans \cup OrphanTx)
  BY DEF Crash, CommitInDoubt, PollFailed
<1>2. StoreInv'
  BY <1>1, StoreFrame, InDoubtStore DEF WorkerInv
<1>3. QED
  BY <1>1, <1>2, EndOfPoll

LEMMA AcknowledgeStep == WorkerInv /\ CommitAcknowledged => StoreInv' /\ PollInv'
<1> SUFFICES ASSUME WorkerInv, CommitAcknowledged PROVE StoreInv' /\ PollInv'
  OBVIOUS
<1>1. /\ pc = "committed" /\ Polling /\ Polling'
      /\ sunk' \in {Submitted, sunk}
      /\ progress' = [m \in Active |-> IF m \in PlannedAt(blk) THEN blk ELSE progress[m]]
      /\ blk' = blk + 1
      /\ pc' = IF blk = hi THEN "window" ELSE "prepare"
      /\ UNCHANGED <<finalized, store, orphans, head, snap, lo, hi, logs, prepared, failed>>
  BY DEF CommitAcknowledged, Polling
<1>2. /\ StoreTypeOK /\ PollTypeOK
      /\ blk \in lo .. hi /\ blk \in Height
      /\ PlannedAt(blk) \subseteq Active /\ DecodedAt(blk) \subseteq PlannedAt(blk)
      /\ Active \subseteq Monitors /\ Active \subseteq used
  BY <1>1, PlannedType DEF WorkerInv, StoreInv, PollInv, PollTypeOK, PositionValid, SnapshotValid
<1>3. \A m \in Monitors :
        /\ sunk'[m] \subseteq sunk[m] \cup {blk}
        /\ m \notin DecodedAt(blk) => sunk'[m] = sunk[m]
  <2>1. CASE sunk' = Submitted
    BY <2>1 DEF Submitted
  <2>2. CASE sunk' = sunk
    BY <2>2
  <2>3. QED
    BY <1>1, <2>1, <2>2
<1>4. sunk' \in [Monitors -> SUBSET Height]
  <2>1. sunk \in [Monitors -> SUBSET Height]
    BY <1>2 DEF StoreTypeOK
  <2>2. \A m \in Monitors : sunk[m] \cup {blk} \in SUBSET Height
    BY <1>2, <2>1
  <2>3. Submitted \in [Monitors -> SUBSET Height]
    BY <2>1, <2>2 DEF Submitted
  <2>4. QED
    BY <1>1, <2>1, <2>3
<1>5. StoreInv'
  <2>1. StoreTypeOK' /\ StoredExactly' /\ CursorInRange' /\ OrphansApplicable'
    <3>1. StoreTypeOK'
      BY <1>1, <1>2, <1>4 DEF store, StoreTypeOK
    <3>2. StoredExactly' /\ CursorInRange'
      BY <1>1 DEF WorkerInv, StoreInv, store, StoredExactly, CursorInRange
    <3>3. OrphansApplicable'
      BY <1>1 DEF WorkerInv, StoreInv, store, OrphansApplicable, CanApply
    <3>4. QED
      BY <3>1, <3>2, <3>3
  <2>2. FreshEmpty'
    BY <1>1, <1>2, <1>3 DEF WorkerInv, StoreInv, FreshEmpty, store
  <2>3. SinkStored'
    <3> SUFFICES ASSUME NEW m \in live, NEW b \in sunk'[m] PROVE results[m][b] > 0
      BY <1>1 DEF SinkStored, store
    <3>1. m \in Monitors
      BY <1>2 DEF StoreTypeOK
    <3>2. CASE b \in sunk[m]
      BY <3>2 DEF WorkerInv, StoreInv, SinkStored
    <3>3. CASE b \notin sunk[m]
      <4>1. b = blk /\ m \in DecodedAt(blk) /\ m \in PlannedAt(blk)
        BY <1>2, <1>3, <3>1, <3>3
      <4>2. row[m].cursor = blk /\ blk \in Matches[m] /\ blk # None
        BY <1>1, <1>2, <4>1, AtBlock DEF WorkerInv, PollInv, TransactionValid
      <4>3. row[m].start_block <= blk /\ row[m].start_block \in Int
        BY <1>2, <3>1, <4>2 DEF WorkerInv, StoreInv, CursorInRange, StoreTypeOK, Row
      <4>4. blk \in Indexed(row[m])
        BY <1>2, <4>2, <4>3 DEF Indexed
      <4>5. results[m][blk] = 1
        BY <1>2, <4>2, <4>4 DEF WorkerInv, StoreInv, StoredExactly
      <4>6. QED
        BY <4>1, <4>5
    <3>4. QED
      BY <3>2, <3>3
  <2>4. QED
    BY <2>1, <2>2, <2>3 DEF StoreInv
<1>6. PollTypeOK'
  <2>1. progress' \in [Active -> Height \cup {None}] /\ blk' \in 0 .. MaxBlock + 1
    BY <1>1, <1>2 DEF PollTypeOK
  <2>2. QED
    BY <1>1, <1>2, <2>1 DEF PollTypeOK, Active
<1>7. Active' = Active
  BY <1>1 DEF Active
<1>8. ASSUME NEW m \in Active
      PROVE  /\ progress'[m] = IF m \in PlannedAt(blk) THEN blk ELSE progress[m]
             /\ m \in PlannedAt(blk) => NextOf(m) = blk /\ NextOf(m)' = blk + 1
             /\ m \notin PlannedAt(blk) => NextOf(m)' = NextOf(m)
             /\ blk <= finalized \/ m \notin PlannedAt(blk)
  <2>1. progress'[m] = IF m \in PlannedAt(blk) THEN blk ELSE progress[m]
    BY <1>1
  <2>2. m \in PlannedAt(blk) => NextOf(m) = blk /\ blk <= finalized
    BY <1>1, AtBlock
  <2>3. m \in PlannedAt(blk) => NextOf(m)' = blk + 1
    BY <1>1, <1>2, <2>1 DEF NextOf, CursorNext, saturating_add
  <2>4. m \notin PlannedAt(blk) => NextOf(m)' = NextOf(m)
    BY <1>1, <2>1 DEF NextOf
  <2>5. QED
    BY <2>1, <2>2, <2>3, <2>4
<1>9. SnapshotValid'
  <2>1. \A m : LockedByOrphan(m)' <=> LockedByOrphan(m)
    BY <1>1 DEF LockedByOrphan
  <2>2. \A m \in PlannedAt(blk) \cap live : row[m].cursor = blk
    BY <1>1 DEF WorkerInv, PollInv, TransactionValid
  <2>3. QED
    BY <1>1, <1>7, <1>8, <2>1, <2>2 DEF WorkerInv, PollInv, SnapshotValid, store
<1>10. ProgressValid'
  <2> SUFFICES ASSUME NEW m \in Active
               PROVE  /\ next_block(snap[m]) <= NextOf(m)'
                      /\ progress'[m] # None => progress'[m] <= finalized
                      /\ \A b \in PlanRange(snap[m], head, BatchSize) : b < blk + 1 <=> b < NextOf(m)'
                      /\ \A b \in sunk'[m] : b < NextOf(m)'
    BY <1>1, <1>7 DEF ProgressValid
  <2>1. /\ next_block(snap[m]) <= NextOf(m)
        /\ progress[m] # None => progress[m] <= finalized
        /\ \A b \in PlanRange(snap[m], head, BatchSize) : b < blk <=> b < NextOf(m)
        /\ \A b \in sunk[m] : b < NextOf(m)
    BY <1>1 DEF WorkerInv, PollInv, ProgressValid
  <2>2. /\ \A b \in PlanRange(snap[m], head, BatchSize) : b \in Height
        /\ next_block(snap[m]) \in Int
        /\ m \in Monitors /\ \A b \in sunk'[m] : b \in Height
    BY <1>1, <1>2, <1>4, NextOfType, NextBlockType, PlanRangeBounds DEF PollTypeOK
  <2>3. m \notin PlannedAt(blk) => blk \notin PlanRange(snap[m], head, BatchSize)
    BY DEF PlannedAt
  <2>4. CASE m \in PlannedAt(blk)
    BY <1>2, <1>3, <1>8, <2>1, <2>2, <2>4
  <2>5. CASE m \notin PlannedAt(blk)
    BY <1>2, <1>3, <1>8, <2>1, <2>2, <2>3, <2>5
  <2>6. QED
    BY <2>4, <2>5
<1>11. PositionValid' /\ TransactionValid'
  BY <1>1, <1>2 DEF WorkerInv, PollInv, PollTypeOK, PositionValid, TransactionValid, Polling
<1>12. QED
  BY <1>5, <1>6, <1>9, <1>10, <1>11 DEF PollInv

-----------------------------------------------------------------------------
(* The invariant, and what follows from it.                                *)

LEMMA InitInv == Init => WorkerInv
<1> SUFFICES ASSUME Init PROVE WorkerInv
  OBVIOUS
<1>1. TypeOK
  BY InitType
<1>2. /\ finalized = 0 /\ used = {} /\ live = {} /\ orphans = {}
      /\ results = [m \in Monitors |-> NoResults] /\ sunk = [m \in Monitors |-> {}]
      /\ pc = "stopped" /\ head = 0 /\ blk = 0
  BY DEF Init
<1>3. StoreInv
  BY <1>1, <1>2 DEF TypeOK, StoreInv, StoredExactly, CursorInRange, SinkStored, FreshEmpty,
                    OrphansApplicable
<1>4. PollInv
  BY <1>1, <1>2 DEF TypeOK, PollInv, SnapshotValid, ProgressValid, PositionValid,
                    TransactionValid, Polling
<1>5. QED
  BY <1>1, <1>3, <1>4 DEF TypeOK, WorkerInv

LEMMA NextInv == WorkerInv /\ Next => WorkerInv'
<1> SUFFICES ASSUME WorkerInv, Next PROVE WorkerInv'
  OBVIOUS
<1>1. TaskTypeOK'
  BY TaskTypeStep DEF WorkerInv
<1>2. SUFFICES StoreInv' /\ PollInv'
  BY <1>1 DEF WorkerInv
<1>3. CASE Finalize
  BY <1>3, FinalizeStep
<1>4. CASE Api
  <2>1. PICK m \in Monitors :
          \/ \E r \in Ranges : CreateMonitor(m, r[1], r[2])
          \/ \E flag \in BOOLEAN : SetEnabled(m, flag)
          \/ DeleteMonitor(m)
    BY <1>4 DEF Api
  <2>2. ASSUME NEW r \in Ranges, CreateMonitor(m, r[1], r[2]) PROVE StoreInv' /\ PollInv'
    <3>1. r[1] \in Height /\ r[2] \in Height \cup {None}
      BY ChainAssumption
    <3>2. QED
      BY <2>2, <3>1, CreateStep
  <2>3. QED
    BY <2>1, <2>2, SetEnabledStep, DeleteStep
<1>5. CASE Lifecycle
  BY <1>5, IdleStep, CancelStep, CrashStep DEF Lifecycle
<1>6. CASE WorkerStep
  BY <1>6, IdleStep, LoadStep, NextWindowStep, PrepareStep, LockStep, ServerCommitStep,
     AcknowledgeStep, QuietEndStep DEF WorkerStep, QuietEnd
<1>7. CASE WorkerFault
  BY <1>7, PrepareStep, CrashStep, QuietEndStep DEF WorkerFault, QuietEnd
<1>8. CASE OrphanStep
  BY <1>8, OrphanCommitStep, OrphanAbortStep DEF OrphanStep
<1>9. QED
  BY <1>3, <1>4, <1>5, <1>6, <1>7, <1>8 DEF Next

LEMMA StutterInv == WorkerInv /\ UNCHANGED vars => WorkerInv'
<1> SUFFICES ASSUME WorkerInv, UNCHANGED vars PROVE WorkerInv'
  OBVIOUS
<1>1. /\ UNCHANGED <<finalized, store, orphans, sunk, pc, poll>>
      /\ UNCHANGED <<cancel, status, faults>>
  BY DEF vars
<1>2. StoreInv'
  BY <1>1, StoreFrame DEF WorkerInv
<1>3. PollInv'
  <2>1. finalized \in Height
    BY DEF WorkerInv, StoreInv, StoreTypeOK
  <2>2. QED
    BY <1>1, <2>1, Bystander DEF store
<1>4. TaskTypeOK'
  BY <1>1 DEF WorkerInv, TaskTypeOK
<1>5. QED
  BY <1>2, <1>3, <1>4 DEF WorkerInv

\* The invariant the other theorems rest on: what the poll remembers of each
\* monitor is its row, or one block behind it because of a transaction in doubt.
THEOREM Invariance == Spec => []WorkerInv
BY InitInv, NextInv, StutterInv, PTL DEF Spec

\* Every variable keeps its type, whatever the API, the faults and the crashes.
THEOREM TypeCorrect == Spec => []TypeOK
<1>1. WorkerInv => TypeOK
  BY DEF WorkerInv, StoreInv, PollInv, TypeOK
<1>2. QED
  BY <1>1, Invariance, PTL

\* Stored results are those of the indexed blocks, once each: no gap and no
\* duplicate after any sequence of failures (BlockCommit's atomicity).
THEOREM StoredExactlyHolds == Spec => []StoredExactly
<1>1. WorkerInv => StoredExactly
  BY DEF WorkerInv, StoreInv
<1>2. QED
  BY <1>1, Invariance, PTL

\* Cursors stay within the finalized chain and the monitor's own range.
THEOREM CursorInRangeHolds == Spec => []CursorInRange
<1>1. WorkerInv => CursorInRange
  BY DEF WorkerInv, StoreInv
<1>2. QED
  BY <1>1, Invariance, PTL

\* The sink gets a block of a monitor at most once, and only what is stored.
THEOREM SinkOncePerBlockHolds == Spec => []SinkOncePerBlock
<1>1. WorkerInv => SinkOncePerBlock
  <2> SUFFICES ASSUME WorkerInv, pc = "committed", NEW m \in DecodedAt(blk), blk \in sunk[m]
               PROVE  FALSE
    BY DEF SinkOncePerBlock, WorkerInv, StoreInv
  <2>1. m \in PlannedAt(blk) /\ Polling
    BY DEF DecodedAt, Polling
  <2>2. NextOf(m) = blk /\ m \in Active /\ blk \in Height
    BY <2>1, AtBlock
  <2>3. blk < NextOf(m)
    BY <2>1, <2>2 DEF WorkerInv, PollInv, ProgressValid
  <2>4. QED
    BY <2>2, <2>3
<1>2. QED
  BY <1>1, Invariance, PTL

\* A poll recorded as a success left nothing behind of what it had planned.
THEOREM SuccessMeansCommittedHolds == Spec => SuccessMeansCommitted
<1> DEFINE Done == \A m \in Active \cap live :
                      PlanTo(snap[m], head, BatchSize) < next_block(row[m])
<1>1. ASSUME WorkerInv, Next, pc = "window", pc' = "sleep" PROVE Done
  <2>1. FinishPoll
    <3>1. ~ Finalize /\ ~ Api /\ ~ OrphanStep
      BY <1>1 DEF Finalize, Api, CreateMonitor, SetEnabled, DeleteMonitor,
                  OrphanStep, OrphanCommit, OrphanAbort
    <3>2. ~ Lifecycle /\ ~ WorkerFault
      BY <1>1 DEF Lifecycle, Start, Cancel, Crash, WorkerFault, RequestFailed, PrepareFailed,
                  FetchLogsFailed, CommitFailed, CommitInDoubt
    <3>3. CASE WorkerStep
      BY <1>1, <3>3 DEF WorkerStep, StopOnCancel, FetchHead, LoadMonitors, FinishEmptyPoll,
         NextWindow, PrepareBlock, FetchLogs, TakeBlock, TakeFailedBlock, AcquirePermit, LockRows,
         CommitRejected, ServerCommit, CommitAcknowledged, Wake
    <3>4. QED
      BY <1>1, <3>1, <3>2, <3>3 DEF Next
  <2> SUFFICES ASSUME NEW m \in Active, m \in live
               PROVE  PlanTo(snap[m], head, BatchSize) < next_block(row[m])
    OBVIOUS
  <2> DEFINE p == PlanTo(snap[m], head, BatchSize)
  <2>2. Polling /\ head \in Height /\ blk \in Int /\ finalized \in Height
    BY <1>1 DEF Polling, WorkerInv, StoreInv, StoreTypeOK, PollInv, PollTypeOK
  <2>3. /\ snap[m] \in Row /\ NextOf(m) \in BlockNumber
        /\ next_block(snap[m]) \in BlockNumber
        /\ p \in BlockNumber /\ p <= head
    BY <1>1, <2>2, NextOfType, NextBlockType, PlanToType
  <2>4. p < NextOf(m)
    <3>1. CASE p \in PlanRange(snap[m], head, BatchSize)
      <4>1. p \in PlannedBlocks
        BY <2>2, <2>3, <3>1 DEF PlannedBlocks, PlannedAt
      <4>2. p < blk
        BY <2>1, <4>1 DEF FinishPoll
      <4>3. QED
        BY <1>1, <2>2, <3>1, <4>2 DEF WorkerInv, PollInv, ProgressValid
    <3>2. CASE p \notin PlanRange(snap[m], head, BatchSize)
      <4>1. p < next_block(snap[m])
        BY <2>3, <3>2 DEF PlanRange
      <4>2. next_block(snap[m]) <= NextOf(m)
        BY <1>1, <2>2 DEF WorkerInv, PollInv, ProgressValid
      <4>3. QED
        BY <2>3, <4>1, <4>2
    <3>3. QED
      BY <3>1, <3>2
  <2>5. NextOf(m) <= next_block(row[m])
    <3>1. /\ row[m].start_block = snap[m].start_block
          /\ row[m].cursor = progress[m] \/ row[m].cursor = NextOf(m)
      BY <1>1, <2>2 DEF WorkerInv, PollInv, SnapshotValid
    <3>2. row[m].cursor = NextOf(m) => next_block(row[m]) = NextOf(m) + 1
      <4>1. row[m].cursor # None => row[m].cursor <= finalized
        BY <1>1 DEF WorkerInv, StoreInv, CursorInRange
      <4>2. QED
        BY <2>2, <2>3, <4>1 DEF next_block, CursorNext, saturating_add
    <3>3. row[m].cursor = progress[m] => next_block(row[m]) = NextOf(m)
      BY <3>1 DEF next_block, NextOf
    <3>4. QED
      BY <2>3, <3>1, <3>2, <3>3
  <2>6. next_block(row[m]) \in BlockNumber
    BY <1>1, NextBlockType DEF WorkerInv, StoreInv, StoreTypeOK
  <2>7. QED
    BY <2>3, <2>4, <2>5, <2>6
<1>2. WorkerInv /\ [Next]_vars => [(pc = "window" /\ pc' = "sleep") => Done]_vars
  BY <1>1
<1>3. QED
  BY <1>2, Invariance, PTL DEF Spec, SuccessMeansCommitted

-----------------------------------------------------------------------------
(* The worker implements IndexAbstract.                                    *)

\* Committing a block again that holds no result changes nothing.
LEMMA AdvanceAgain ==
    ASSUME NEW r \in Row, NEW b \in Height, r.cursor = b,
           r.end_block # None => b <= r.end_block,
           r.completed <=> (r.end_block # None /\ r.cursor = r.end_block)
    PROVE  AdvanceRow(r, b) = r
<1> DEFINE c == r.end_block # None /\ r.end_block <= b
<1>1. r.completed = c
  BY DEF Row
<1>2. AdvanceRow(r, b) = [r EXCEPT !.cursor = b, !.completed = c]
  BY DEF AdvanceRow
<1> HIDE DEF c
<1>3. QED
  BY <1>1, <1>2 DEF Row

LEMMA ApplyRefines ==
    ASSUME StoreInv, NEW b \in Height, NEW mons \in SUBSET Monitors,
           NEW decoded \in SUBSET mons,
           \A m \in mons : CanApply(m, b, m \in decoded),
           Apply(b, mons, decoded), UNCHANGED finalized
    PROVE  Abstract!Next \/ UNCHANGED Abstract!vars
<1> DEFINE S == {m \in mons : b = next_block(row[m])}
<1>1. /\ row' = [m \in Monitors |-> IF m \in mons THEN AdvanceRow(row[m], b) ELSE row[m]]
      /\ results' = [m \in Monitors |->
                       IF m \in decoded THEN [results[m] EXCEPT ![b] = @ + 1] ELSE results[m]]
      /\ UNCHANGED <<finalized, used, live>>
  BY DEF Apply
<1>2. \A m \in Monitors : row[m] \in Row
  BY DEF StoreInv, StoreTypeOK
<1>3. \A m \in mons \ S : AdvanceRow(row[m], b) = row[m]
  <2> SUFFICES ASSUME NEW m \in mons \ S PROVE AdvanceRow(row[m], b) = row[m]
    OBVIOUS
  <2>1. m \in live /\ b = row[m].cursor /\ (row[m].end_block # None => b <= row[m].end_block)
    BY DEF CanApply
  <2>2. row[m].completed <=> (row[m].end_block # None /\ row[m].cursor = row[m].end_block)
    BY <2>1 DEF StoreInv, CursorInRange
  <2>3. QED
    BY <1>2, <2>1, <2>2, AdvanceAgain
<1>4. row' = [m \in Monitors |-> IF m \in S THEN AdvanceRow(row[m], b) ELSE row[m]]
  BY <1>1, <1>3
<1>5. \A m \in Monitors : m \in decoded <=> (m \in S /\ b \in Matches[m])
  BY DEF CanApply
<1>6. results' = [m \in Monitors |-> IF m \in S /\ b \in Matches[m]
                                   THEN [results[m] EXCEPT ![b] = @ + 1] ELSE results[m]]
  BY <1>1, <1>5
<1>7. CASE mons = {}
  <2>1. row' = row /\ results' = results
    BY <1>1, <1>7 DEF StoreInv, StoreTypeOK
  <2>2. QED
    BY <1>1, <2>1 DEF Abstract!vars
<1>8. CASE mons # {}
  <2>1. b <= finalized
    BY <1>8 DEF CanApply
  <2>2. /\ S \subseteq live
        /\ \A m \in S : b = next_block(row[m])
        /\ \A m \in S : row[m].end_block # None => b <= row[m].end_block
    BY DEF CanApply
  <2>3. Abstract!Index(S, b)
    <3> HIDE DEF S
    <3>1. \A r, c : /\ Abstract!next_block(r) = next_block(r)
                   /\ Abstract!AdvanceRow(r, c) = AdvanceRow(r, c)
      BY DEF Abstract!next_block, Abstract!CursorNext, Abstract!saturating_add,
             Abstract!AdvanceRow, next_block, CursorNext, saturating_add, AdvanceRow
    <3>2. row' = [m \in Monitors |-> IF m \in S THEN Abstract!AdvanceRow(row[m], b) ELSE row[m]]
      BY <1>4, <3>1
    <3>3. \A m \in S : b = Abstract!next_block(row[m])
      BY <2>2, <3>1
    <3>4. QED
      BY <1>1, <1>6, <2>1, <2>2, <3>2, <3>3 DEF Abstract!Index
  <2>4. S \in SUBSET Monitors /\ b \in BlockNumber
    OBVIOUS
  <2>5. QED
    BY <2>3, <2>4 DEF Abstract!Next, Abstract!BlockNumber
<1>9. QED
  BY <1>7, <1>8

\* A step that leaves the chain and the database alone is a stuttering step.
LEMMA QuietRefines == UNCHANGED <<finalized, store>> => UNCHANGED Abstract!vars
BY DEF store, Abstract!vars

LEMMA ApiRefines == WorkerInv /\ Api => Abstract!Next
<1> SUFFICES ASSUME WorkerInv, Api PROVE Abstract!Next
  OBVIOUS
<1>1. PICK m \in Monitors :
        \/ \E r \in Ranges : CreateMonitor(m, r[1], r[2])
        \/ \E flag \in BOOLEAN : SetEnabled(m, flag)
        \/ DeleteMonitor(m)
  BY DEF Api
<1>2. ASSUME NEW r \in Ranges, CreateMonitor(m, r[1], r[2]) PROVE Abstract!Next
  <2>1. r[1] \in BlockNumber /\ r[2] \in BlockNumber \cup {None}
    BY ChainAssumption
  <2>2. Abstract!NewRow(r[1], r[2]) = NewRow(r[1], r[2])
    BY DEF Abstract!NewRow, NewRow
  <2>3. Abstract!Create(m, r[1], r[2])
    BY <1>2, <2>2 DEF CreateMonitor, Abstract!Create
  <2>4. QED
    BY <2>1, <2>3 DEF Abstract!Next, Abstract!BlockNumber
<1>3. ASSUME NEW flag \in BOOLEAN, SetEnabled(m, flag) PROVE Abstract!Next
  <2>1. Abstract!SetEnabled(m, flag)
    BY <1>3 DEF SetEnabled, Abstract!SetEnabled
  <2>2. QED
    BY <2>1 DEF Abstract!Next
<1>4. ASSUME DeleteMonitor(m) PROVE Abstract!Next
  <2>1. Abstract!BlankRow = BlankRow /\ Abstract!NoResults = NoResults
    BY DEF Abstract!BlankRow, Abstract!NewRow, BlankRow, NewRow, Abstract!NoResults, NoResults
  <2>2. Abstract!Delete(m)
    BY <1>4, <2>1 DEF DeleteMonitor, Abstract!Delete
  <2>3. QED
    BY <2>2 DEF Abstract!Next
<1>5. QED
  BY <1>1, <1>2, <1>3, <1>4

LEMMA InitRefines == Init => Abstract!Init
<1>1. Abstract!BlankRow = BlankRow /\ Abstract!NoResults = NoResults
  BY DEF Abstract!BlankRow, Abstract!NewRow, BlankRow, NewRow, Abstract!NoResults, NoResults
<1>2. QED
  BY <1>1 DEF Init, Abstract!Init

LEMMA NextRefines == WorkerInv /\ Next => Abstract!Next \/ UNCHANGED Abstract!vars
<1> SUFFICES ASSUME WorkerInv, Next PROVE Abstract!Next \/ UNCHANGED Abstract!vars
  OBVIOUS
<1>1. CASE Finalize
  BY <1>1 DEF Finalize, store, Abstract!Next, Abstract!Finalize
<1>2. CASE Api
  BY <1>2, ApiRefines
<1>3. CASE Lifecycle
  BY <1>3, QuietRefines DEF Lifecycle, Start, Cancel, Crash
<1>4. CASE ServerCommit
  <2>1. /\ Apply(blk, PlannedAt(blk), DecodedAt(blk)) /\ UNCHANGED finalized
        /\ \A m \in PlannedAt(blk) : CanApply(m, blk, m \in DecodedAt(blk))
    BY <1>4 DEF ServerCommit, WorkerInv, PollInv, TransactionValid
  <2>2. /\ blk \in Height /\ PlannedAt(blk) \in SUBSET Monitors
        /\ DecodedAt(blk) \in SUBSET PlannedAt(blk)
    BY <1>4, PlannedType DEF ServerCommit, WorkerInv, PollInv, PollTypeOK, PositionValid, Polling
  <2>3. QED
    BY <2>1, <2>2, ApplyRefines DEF WorkerInv
<1>5. CASE WorkerStep /\ ~ ServerCommit
  BY <1>5, QuietRefines DEF WorkerStep, StopOnCancel, FetchHead, LoadMonitors, FinishEmptyPoll,
     NextWindow, FinishPoll, PrepareBlock, FetchLogs, TakeBlock, TakeFailedBlock, AcquirePermit,
     LockRows, CommitRejected, CommitAcknowledged, Wake
<1>6. CASE WorkerFault
  BY <1>6, QuietRefines DEF WorkerFault, RequestFailed, PrepareFailed, FetchLogsFailed,
     CommitFailed, CommitInDoubt
<1>7. CASE OrphanStep
  <2>1. PICK o \in orphans : OrphanCommit(o) \/ OrphanAbort(o)
    BY <1>7 DEF OrphanStep
  <2>2. CASE OrphanAbort(o)
    BY <2>2, QuietRefines DEF OrphanAbort
  <2>3. CASE OrphanCommit(o)
    <3>1. /\ Apply(o.block, o.mons, o.decoded) /\ UNCHANGED finalized
          /\ \A m \in o.mons : CanApply(m, o.block, m \in o.decoded)
      BY <2>3 DEF OrphanCommit, WorkerInv, StoreInv, OrphansApplicable
    <3>2. o.block \in Height /\ o.mons \in SUBSET Monitors /\ o.decoded \in SUBSET o.mons
      BY DEF WorkerInv, StoreInv, StoreTypeOK, OrphansApplicable, Tx
    <3>3. QED
      BY <3>1, <3>2, ApplyRefines DEF WorkerInv
  <2>4. QED
    BY <2>1, <2>2, <2>3
<1>8. QED
  BY <1>1, <1>2, <1>3, <1>4, <1>5, <1>6, <1>7 DEF Next

\* Every step of the worker, its transactions, its faults and its restarts is a
\* step of IndexAbstract or changes nothing a user can see.
THEOREM WorkerImplementsAbstract == Spec => ImplementsAbstract
<1>1. Init => Abstract!Init
  BY InitRefines
<1>2. WorkerInv /\ [Next]_vars => [Abstract!Next]_(Abstract!vars)
  <2>1. UNCHANGED vars => UNCHANGED Abstract!vars
    BY DEF vars, store, Abstract!vars
  <2>2. QED
    BY <2>1, NextRefines
<1>3. QED
  BY <1>1, <1>2, Invariance, PTL DEF Spec, ImplementsAbstract, Abstract!Spec
=============================================================================
