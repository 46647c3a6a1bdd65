-------------------------- MODULE SupervisorProofs --------------------------
(* Proofs about Supervisor, for every set of chains, endpoints, requests and *)
(* tasks, and every number of permits, faults, dropped handlers and restarts. *)
EXTENDS Supervisor, TLAPS

USE SupervisorAssumption

TypeInv == TypeOK /\ job \in [Callers -> Job] /\ disconnects \in Nat

-----------------------------------------------------------------------------
(* What a step may do to the tasks.                                        *)

\* A field of a live task is written.
LEMMA UpdateTask ==
    ASSUME tasks \in [Tasks -> {None} \cup TaskState], NEW t \in Tasks, Alive(t),
           NEW k \in TaskState, tasks' = [tasks EXCEPT ![t] = k]
    PROVE  /\ tasks' \in [Tasks -> {None} \cup TaskState]
           /\ \A x \in Tasks : x # t => tasks'[x] = tasks[x]
           /\ tasks'[t] = k /\ k # None
<1>1. k # None
  BY DEF TaskState
<1>2. QED
  BY <1>1

LEMMA CancelTask ==
    ASSUME tasks \in [Tasks -> {None} \cup TaskState], NEW t \in Tasks, Alive(t),
           tasks' = [tasks EXCEPT ![t].cancelled = TRUE]
    PROVE  /\ tasks' \in [Tasks -> {None} \cup TaskState]
           /\ \A x \in Tasks : x # t => tasks'[x] = tasks[x]
           /\ tasks'[t] # None /\ tasks'[t].cancelled
           /\ tasks'[t].chain = tasks[t].chain
<1> DEFINE k == [tasks[t] EXCEPT !.cancelled = TRUE]
<1>1. tasks[t] \in TaskState
  BY DEF Alive
<1>2. k \in TaskState /\ k.cancelled /\ k.chain = tasks[t].chain
  BY <1>1 DEF TaskState
<1>3. tasks' = [tasks EXCEPT ![t] = k]
  OBVIOUS
<1> HIDE DEF k
<1>4. /\ tasks' \in [Tasks -> {None} \cup TaskState]
      /\ \A x \in Tasks : x # t => tasks'[x] = tasks[x]
      /\ tasks'[t] = k /\ k # None
  BY <1>2, <1>3, UpdateTask
<1>5. QED
  BY <1>2, <1>4

LEMMA RotateTask ==
    ASSUME tasks \in [Tasks -> {None} \cup TaskState], NEW t \in Tasks, Alive(t),
           NEW u \in Urls, tasks' = [tasks EXCEPT ![t].url = u]
    PROVE  /\ tasks' \in [Tasks -> {None} \cup TaskState]
           /\ \A x \in Tasks : x # t => tasks'[x] = tasks[x]
           /\ tasks'[t] # None /\ tasks'[t].url = u
           /\ tasks'[t].cancelled <=> tasks[t].cancelled
           /\ tasks'[t].chain = tasks[t].chain
<1> DEFINE k == [tasks[t] EXCEPT !.url = u]
<1>1. tasks[t] \in TaskState
  BY DEF Alive
<1>2. /\ k \in TaskState /\ k.url = u
      /\ k.cancelled <=> tasks[t].cancelled
      /\ k.chain = tasks[t].chain
  BY <1>1 DEF TaskState
<1>3. tasks' = [tasks EXCEPT ![t] = k]
  OBVIOUS
<1> HIDE DEF k
<1>4. /\ tasks' \in [Tasks -> {None} \cup TaskState]
      /\ \A x \in Tasks : x # t => tasks'[x] = tasks[x]
      /\ tasks'[t] = k /\ k # None
  BY <1>2, <1>3, UpdateTask
<1>5. QED
  BY <1>2, <1>4

LEMMA CommitTask ==
    ASSUME tasks \in [Tasks -> {None} \cup TaskState], NEW t \in Tasks, Alive(t),
           NEW b \in BOOLEAN, tasks' = [tasks EXCEPT ![t].committing = b]
    PROVE  /\ tasks' \in [Tasks -> {None} \cup TaskState]
           /\ \A x \in Tasks : x # t => tasks'[x] = tasks[x]
           /\ tasks'[t] # None /\ tasks'[t].url = tasks[t].url
           /\ tasks'[t].cancelled <=> tasks[t].cancelled
           /\ tasks'[t].chain = tasks[t].chain
<1> DEFINE k == [tasks[t] EXCEPT !.committing = b]
<1>1. tasks[t] \in TaskState
  BY DEF Alive
<1>2. /\ k \in TaskState /\ k.url = tasks[t].url
      /\ k.cancelled <=> tasks[t].cancelled
      /\ k.chain = tasks[t].chain
  BY <1>1 DEF TaskState
<1>3. tasks' = [tasks EXCEPT ![t] = k]
  OBVIOUS
<1> HIDE DEF k
<1>4. /\ tasks' \in [Tasks -> {None} \cup TaskState]
      /\ \A x \in Tasks : x # t => tasks'[x] = tasks[x]
      /\ tasks'[t] = k /\ k # None
  BY <1>2, <1>3, UpdateTask
<1>5. QED
  BY <1>2, <1>4

\* What a request writes is a complete registration.
LEMMA WrittenType ==
    ASSUME TypeOK, NEW j \in Job, j.chain \in Chains, Writable(j),
           j.op = "create" => j.url # None /\ j.enabled # None
    PROVE  Written(j) \in Record
<1>1. j.op # "create" => registry[j.chain] \in Record
  BY DEF TypeOK, Writable
<1>2. CASE j.op = "create"
  BY <1>2 DEF Written, Record, Job
<1>3. CASE j.op # "create"
  BY <1>1, <1>3 DEF Written, Record, Job
<1>4. QED
  BY <1>2, <1>3

LEMMA NoJobFacts == NoJob \in Job /\ NoJob.chain = None /\ None \notin Chains /\ NoJob.op = "none"
BY DEF NoJob, Job

LEMMA IdleJob ==
    ASSUME IInv, NEW p \in Callers, pc[p] = "idle"
    PROVE  job[p] = NoJob /\ job[p].chain \notin Chains
<1>1. job[p] = NoJob
  BY DEF IInv, JobsValid
<1>2. QED
  BY <1>1, NoJobFacts

\* Nobody else is past the mutation guard, and no request is during startup.
LEMMA Alone ==
    ASSUME IInv, NEW p \in Callers, Active(p)
    PROVE  /\ mutation = p
           /\ \A q \in Callers : q # p => pc[q] \in {"idle", "lock"}
           /\ phase = "boot" => p = Boot
           /\ job[p] \in Job /\ job[p].chain \in Chains
BY DEF IInv, Excluded, Active, JobsValid

\* A caller that applies a registration has it from the registry.
LEMMA Registered ==
    ASSUME IInv, NEW p \in Callers, pc[p] \in {"apply", "join", "probe"}, job[p].op # "delete",
           NEW c \in Chains, c = job[p].chain
    PROVE  /\ registry[c] # None /\ job[p].url \in Urls
           /\ registry[c].url = job[p].url /\ (registry[c].enabled <=> job[p].enabled)
<1>1. /\ registry[c] # None
      /\ registry[c] = [url |-> job[p].url, enabled |-> job[p].enabled]
  BY DEF IInv, JobsValid
<1>2. registry[c] \in Record
  BY <1>1 DEF IInv, TypeOK
<1>3. QED
  BY <1>1, <1>2 DEF Record

LEMMA MapTypes ==
    ASSUME IInv
    PROVE  /\ \A t \in Tasks : Alive(t) => tasks[t].chain \in Chains
           /\ \A c \in Chains : workers[c] # None => workers[c] \in Tasks
BY DEF IInv, TypeOK, TaskState, Alive

-----------------------------------------------------------------------------
(* Frames.                                                                 *)

LEMMA AgreesFrame ==
    ASSUME NEW c \in Chains, UNCHANGED <<registry, workers, tasks, status>>, Agrees(c)
    PROVE  Agrees(c)'
BY DEF Agrees, Runs, Alive

\* A step that changes neither the registry nor the workers keeps the agreement of
\* the chains it leaves settled.
LEMMA ReconciledFrame ==
    ASSUME ReconciledAgrees, UNCHANGED <<registry, phase, closed, workers, tasks, status, todo>>,
           \A c \in Chains : c \in unsettled \/ Busy(c) => c \in unsettled' \/ Busy(c)'
    PROVE  ReconciledAgrees'
<1>1. ASSUME NEW c \in Chains, ~ closed', c \notin todo', c \notin unsettled', ~ Busy(c)'
      PROVE  Agrees(c)'
  <2>1. Agrees(c)
    BY <1>1 DEF ReconciledAgrees
  <2>2. QED
    BY <2>1, AgreesFrame
<1>2. QED
  BY <1>1 DEF ReconciledAgrees

\* A chain is busy only with what the active caller does.
LEMMA BusyWithJob ==
    ASSUME IInv, NEW p \in Callers, Active(p), NEW d \in Chains, Busy(d)
    PROVE  d = job[p].chain
<1>1. PICK q \in Callers : job[q].chain = d /\ pc[q] \notin {"lock", "write", "retire"}
  BY DEF Busy
<1>2. q = p
  BY <1>1, Alone, IdleJob
<1>3. QED
  BY <1>1, <1>2

\* Whatever happens to one chain, another one agrees as before.
LEMMA AgreesElsewhere ==
    ASSUME NEW d \in Chains, Agrees(d),
           registry'[d] = registry[d], workers'[d] = workers[d], status'[d] = status[d],
           \A x \in Tasks : tasks[x] # None /\ tasks[x].chain = d => tasks'[x] = tasks[x]
    PROVE  Agrees(d)'
BY DEF Agrees, Runs, Alive

\* A step of the active caller: only its own chain is in question.
LEMMA ReconciledStep ==
    ASSUME IInv, NEW p \in Callers, Active(p), UNCHANGED <<phase, closed, todo>>,
           NEW c \in Chains, job[p].chain = c,
           unsettled \ {c} \subseteq unsettled',
           \A d \in todo : registry'[d] # None,
           \A d \in Chains : d # c /\ Agrees(d) => Agrees(d)',
           ~ closed /\ c \notin unsettled' /\ ~ Busy(c)' => Agrees(c)'
    PROVE  ReconciledAgrees'
<1>1. ASSUME NEW d \in Chains, ~ closed', d \notin todo', d \notin unsettled', ~ Busy(d)'
      PROVE  Agrees(d)'
  <2>1. CASE d = c
    BY <1>1, <2>1
  <2>2. CASE d # c
    <3>1. ~ Busy(d) /\ d \notin unsettled
      BY <1>1, <2>2, BusyWithJob
    <3>2. Agrees(d)
      BY <1>1, <3>1 DEF IInv, ReconciledAgrees
    <3>3. QED
      BY <2>2, <3>2
  <2>3. QED
    BY <2>1, <2>2
<1>2. QED
  BY <1>1 DEF IInv, ReconciledAgrees

\* A caller that leaves has nobody behind it.
LEMMA ReleasedEffect ==
    ASSUME IInv, NEW p \in Callers, Active(p), Released(p), phase' = phase
    PROVE  /\ pc' \in [Callers -> PC] /\ job' \in [Callers -> Job]
           /\ joining' \in [Callers -> Tasks \cup {None}] /\ mutation' \in Callers \cup {None}
           /\ \A q \in Callers : /\ pc'[q] \in {"idle", "lock"}
                                 /\ q # p => pc[q] \in {"idle", "lock"}
           /\ mutation = p /\ (phase = "boot" => p = Boot)
           /\ Excluded' /\ JobsValid' /\ RemovedHasNoTask'
<1>1. /\ \A q \in Callers : q # p => /\ pc'[q] = pc[q] /\ job'[q] = job[q]
                                     /\ joining'[q] = joining[q]
                                     /\ pc[q] \in {"idle", "lock"}
      /\ pc'[p] = "idle" /\ job'[p] = NoJob
  BY Alone DEF IInv, TypeOK, Released
<1>2. /\ pc' \in [Callers -> PC] /\ job' \in [Callers -> Job]
      /\ joining' \in [Callers -> Tasks \cup {None}] /\ mutation' \in Callers \cup {None}
  BY NoJobFacts DEF IInv, TypeOK, Released, PC
<1>3. Excluded'
  BY <1>1, Alone DEF IInv, Excluded, Active, Released
<1>4. JobsValid'
  BY <1>1, NoJobFacts DEF IInv, JobsValid, Active
<1>5. RemovedHasNoTask'
  BY <1>1 DEF RemovedHasNoTask, Callers
<1>6. QED
  BY <1>1, <1>2, <1>3, <1>4, <1>5, Alone

-----------------------------------------------------------------------------
(* Requests.                                                               *)

LEMMA BeginInv ==
    ASSUME IInv, NEW r \in Requests, NEW c \in Chains, NEW u \in Urls \cup {None},
           NEW en \in BOOLEAN \cup {None}, NEW op \in {"create", "update", "delete"},
           Begin(r, op, c, u, en)
    PROVE  IInv'
<1> DEFINE j == [op |-> op, chain |-> c, url |-> u, enabled |-> en]
<1>1. /\ phase = "serving" /\ pc[r] = "idle"
      /\ pc' = [pc EXCEPT ![r] = "lock"]
      /\ job' = [job EXCEPT ![r] = j]
      /\ UNCHANGED <<registry, phase, runtime, joining, mutation, unsettled, todo, taken, bounds>>
  BY DEF Begin, Idle
<1>2. /\ r \in Callers /\ r # Boot
      /\ j \in Job /\ j.chain = c /\ j.op = op
      /\ op = "create" => j.url # None /\ j.enabled # None
  BY DEF Begin, Job, Callers
<1> HIDE DEF j
<1>3. /\ \A q \in Callers : q # r => pc'[q] = pc[q] /\ job'[q] = job[q]
      /\ pc'[r] = "lock" /\ job'[r] = j
  BY <1>1, <1>2 DEF IInv, TypeOK
<1>4. TypeInv'
  BY <1>1, <1>2 DEF IInv, TypeInv, TypeOK, PC, bounds, runtime
<1>5. Excluded'
  BY <1>1 DEF IInv, Excluded, Active, runtime
<1>6. JobsValid'
  BY <1>1, <1>2, <1>3 DEF IInv, JobsValid, Active
<1>7. WorkersValid'
  BY <1>1 DEF IInv, WorkersValid, Alive, runtime
<1>8. NoLostWorker'
  BY <1>1 DEF IInv, NoLostWorker, Alive, runtime
<1>9. Awaited'
  BY <1>1 DEF IInv, Awaited, Alive, bounds, runtime
<1>10. OneWorkerPerChain'
  BY <1>1 DEF IInv, OneWorkerPerChain, Alive, bounds, runtime
<1>11. RemovedHasNoTask'
  BY <1>1 DEF IInv, RemovedHasNoTask, Alive, bounds, runtime
<1>12. ShutdownIsFinal'
  BY <1>1 DEF IInv, ShutdownIsFinal, Alive, runtime
<1>13. ReconciledAgrees'
  <2>1. \A d \in Chains : Busy(d) => Busy(d)'
    <3>1. SUFFICES ASSUME NEW d \in Chains, NEW q \in Callers, job[q].chain = d,
                          pc[q] \notin {"lock", "write", "retire"}
                   PROVE  Busy(d)'
      BY DEF Busy
    <3>2. q # r
      BY <1>1, <3>1, IdleJob
    <3>3. QED
      BY <1>3, <3>1, <3>2 DEF Busy
  <2>2. QED
    BY <1>1, <2>1, ReconciledFrame DEF IInv, runtime
<1>14. QED
  BY <1>4, <1>5, <1>6, <1>7, <1>8, <1>9, <1>10, <1>11, <1>12, <1>13 DEF IInv, TypeInv

LEMMA LockMutationInv ==
    ASSUME IInv, NEW r \in Requests, LockMutation(r)
    PROVE  IInv'
<1> DEFINE at == IF job[r].op = "delete" THEN "retire" ELSE "write"
<1>1. /\ pc[r] = "lock" /\ mutation = None /\ mutation' = r
      /\ pc' = [pc EXCEPT ![r] = at]
      /\ UNCHANGED <<registry, phase, runtime, job, joining, unsettled, todo, taken, bounds>>
  BY DEF LockMutation
<1>2. /\ r \in Callers /\ r # Boot
      /\ at \in {"retire", "write"}
      /\ at = "retire" <=> job[r].op = "delete"
  BY DEF Callers
<1> HIDE DEF at
<1>3. /\ \A q \in Callers : q # r => pc'[q] = pc[q]
      /\ pc'[r] = at
  BY <1>1, <1>2 DEF IInv, TypeOK
<1>4. TypeInv'
  BY <1>1, <1>2 DEF IInv, TypeInv, TypeOK, PC, bounds, runtime
<1>5. Excluded'
  BY <1>1, <1>2 DEF IInv, Excluded, Active, Callers
<1>6. JobsValid'
  BY <1>1, <1>2 DEF IInv, JobsValid, Active
<1>7. WorkersValid'
  BY <1>1, <1>2 DEF IInv, WorkersValid, Alive, runtime
<1>8. NoLostWorker'
  BY <1>1 DEF IInv, NoLostWorker, Alive, runtime
<1>9. Awaited'
  BY <1>1 DEF IInv, Awaited, Alive, bounds, runtime
<1>10. OneWorkerPerChain'
  BY <1>1 DEF IInv, OneWorkerPerChain, Alive, bounds, runtime
<1>11. RemovedHasNoTask'
  BY <1>1, <1>2 DEF IInv, RemovedHasNoTask, Alive, bounds, runtime
<1>12. ShutdownIsFinal'
  BY <1>1 DEF IInv, ShutdownIsFinal, Alive, bounds, runtime
<1>13. ReconciledAgrees'
  <2>1. \A d \in Chains : Busy(d) => Busy(d)'
    BY <1>1 DEF Busy
  <2>2. QED
    BY <1>1, <2>1, ReconciledFrame DEF IInv, runtime
<1>14. QED
  BY <1>4, <1>5, <1>6, <1>7, <1>8, <1>9, <1>10, <1>11, <1>12, <1>13 DEF IInv, TypeInv

LEMMA WriteChainInv ==
    ASSUME IInv, NEW r \in Requests, WriteChain(r)
    PROVE  IInv'
<1> DEFINE c == job[r].chain
           w == Written(job[r])
<1>1. /\ pc[r] = "write" /\ Writable(job[r])
      /\ registry' = [registry EXCEPT ![c] = w]
      /\ job' = [job EXCEPT ![r].url = w.url, ![r].enabled = w.enabled]
      /\ pc' = [pc EXCEPT ![r] = "apply"]
      /\ UNCHANGED <<phase, runtime, joining, mutation, unsettled, todo, taken, bounds>>
  BY DEF WriteChain
<1>2. /\ r \in Callers /\ r # Boot /\ mutation = r /\ phase # "boot"
      /\ \A q \in Callers : q # r => pc[q] \in {"idle", "lock"}
      /\ c \in Chains /\ job[r] \in Job /\ job[r].op # "delete"
  <2>1. r \in Callers /\ r # Boot /\ Active(r)
    BY <1>1 DEF Callers, Active
  <2>2. job[r].op # "delete"
    BY <1>1, <2>1 DEF IInv, JobsValid
  <2>3. QED
    BY <2>1, <2>2, Alone
<1>3. w \in Record
  <2>1. job[r].op = "create" => job[r].url # None /\ job[r].enabled # None
    BY <1>2 DEF IInv, JobsValid
  <2>2. QED
    BY <1>1, <1>2, <2>1, WrittenType DEF IInv
<1> HIDE DEF w
<1> DEFINE j == [job[r] EXCEPT !.url = w.url, !.enabled = w.enabled]
<1>4. /\ j \in Job /\ j.op = job[r].op /\ j.chain = c
      /\ j.url = w.url /\ j.enabled = w.enabled /\ w = [url |-> w.url, enabled |-> w.enabled]
      /\ j.url # None /\ j.enabled # None /\ w # None
  BY <1>2, <1>3 DEF Job, Record
<1>5. job' = [job EXCEPT ![r] = j]
  BY <1>1, <1>2 DEF IInv
<1> HIDE DEF j
<1>6. /\ \A q \in Callers : q # r => pc'[q] = pc[q] /\ job'[q] = job[q]
      /\ pc'[r] = "apply" /\ job'[r] = j
      /\ \A d \in Chains : d # c => registry'[d] = registry[d]
      /\ registry'[c] = w /\ registry' \in [Chains -> {None} \cup Record]
  BY <1>1, <1>2, <1>3, <1>5 DEF IInv, TypeOK
<1>7. TypeInv'
  BY <1>1, <1>4, <1>5, <1>6 DEF IInv, TypeInv, TypeOK, PC, bounds, runtime
<1>8. Excluded'
  BY <1>1, <1>2 DEF IInv, Excluded, Active
<1>9. JobsValid'
  BY <1>2, <1>4, <1>6 DEF IInv, JobsValid, Active
<1>10. WorkersValid'
  BY <1>1 DEF IInv, WorkersValid, Alive, runtime
<1>11. NoLostWorker'
  BY <1>1 DEF IInv, NoLostWorker, Alive, runtime
<1>12. Awaited'
  BY <1>1 DEF IInv, Awaited, Alive, bounds, runtime
<1>13. OneWorkerPerChain'
  BY <1>1 DEF IInv, OneWorkerPerChain, Alive, bounds, runtime
<1>14. RemovedHasNoTask'
  BY <1>2, <1>6 DEF IInv, RemovedHasNoTask, Alive, Callers
<1>15. ShutdownIsFinal'
  BY <1>1 DEF IInv, ShutdownIsFinal, Alive, bounds, runtime
<1>16. ReconciledAgrees'
  <2>1. ASSUME NEW d \in Chains, ~ closed', d \notin todo', d \notin unsettled', ~ Busy(d)'
        PROVE  Agrees(d)'
    <3>1. d # c /\ ~ Busy(d)
      <4>1. d # c
        BY <1>2, <1>4, <1>6, <2>1 DEF Busy
      <4>2. QED
        BY <1>6, <2>1, <4>1 DEF Busy
    <3>2. Agrees(d)
      BY <1>1, <2>1, <3>1 DEF IInv, ReconciledAgrees, runtime
    <3>3. QED
      BY <1>1, <3>1, <3>2 DEF Agrees, Runs, Alive, runtime
  <2>2. QED
    BY <1>1, <1>2, <2>1 DEF IInv, ReconciledAgrees
<1>17. QED
  BY <1>7, <1>8, <1>9, <1>10, <1>11, <1>12, <1>13, <1>14, <1>15, <1>16 DEF IInv, TypeInv

LEMMA WriteRefusedInv ==
    ASSUME IInv, NEW r \in Requests, WriteRefused(r)
    PROVE  IInv'
<1> DEFINE c == job[r].chain
<1>1. /\ pc[r] = "write"
      /\ Released(r)
      /\ UNCHANGED <<registry, phase, runtime, unsettled, todo, taken, bounds>>
  BY DEF WriteRefused
<1>2. r \in Callers /\ Active(r) /\ ~ Busy(c) /\ phase # "boot"
  <2>1. r \in Callers /\ Active(r) /\ phase # "boot"
    BY <1>1, Alone DEF Callers, Active
  <2>2. \A q \in Callers : job[q].chain = c => pc[q] \in {"lock", "write"}
    BY <1>1, <2>1, Alone, IdleJob
  <2>3. QED
    BY <2>1, <2>2 DEF Busy
<1>3. /\ pc' \in [Callers -> PC] /\ job' \in [Callers -> Job]
      /\ joining' \in [Callers -> Tasks \cup {None}] /\ mutation' \in Callers \cup {None}
      /\ \A q \in Callers : /\ pc'[q] \in {"idle", "lock"}
                            /\ q # r => pc[q] \in {"idle", "lock"}
      /\ Excluded' /\ JobsValid' /\ RemovedHasNoTask'
  BY <1>1, <1>2, ReleasedEffect
<1>4. TypeInv'
  BY <1>1, <1>3 DEF IInv, TypeInv, TypeOK, bounds, runtime
<1>5. WorkersValid'
  BY <1>1, <1>3 DEF IInv, WorkersValid, Alive, runtime
<1>6. NoLostWorker'
  BY <1>1 DEF IInv, NoLostWorker, Alive, runtime
<1>7. Awaited'
  BY <1>1, <1>3 DEF IInv, Awaited, Alive, bounds, runtime
<1>8. OneWorkerPerChain'
  BY <1>1 DEF IInv, OneWorkerPerChain, Alive, bounds, runtime
<1>9. ShutdownIsFinal'
  BY <1>1 DEF IInv, ShutdownIsFinal, Alive, bounds, runtime
<1>10. ReconciledAgrees'
  <2>1. \A d \in Chains : Busy(d) => Busy(d)'
    BY <1>2, BusyWithJob
  <2>2. QED
    BY <1>1, <2>1, ReconciledFrame DEF IInv, runtime
<1>11. QED
  BY <1>3, <1>4, <1>5, <1>6, <1>7, <1>8, <1>9, <1>10 DEF IInv, TypeInv

LEMMA WriteFailedInv ==
    ASSUME IInv, NEW r \in Requests, WriteFailed(r)
    PROVE  IInv'
<1>1. /\ pc[r] = "write"
      /\ Released(r)
      /\ \/ UNCHANGED <<registry, unsettled>>
         \/ /\ Writable(job[r])
            /\ registry' = [registry EXCEPT ![job[r].chain] = Written(job[r])]
            /\ unsettled' = unsettled \cup {job[r].chain}
      /\ UNCHANGED <<phase, runtime, todo, taken, disconnects>>
  BY DEF WriteFailed, Fault
<1>2. r \in Callers /\ Active(r)
  BY <1>1 DEF Callers, Active
<1>3. PICK c \in Chains : c = job[r].chain
  BY <1>2, Alone
<1>4. /\ pc' \in [Callers -> PC] /\ job' \in [Callers -> Job]
      /\ joining' \in [Callers -> Tasks \cup {None}] /\ mutation' \in Callers \cup {None}
      /\ \A q \in Callers : /\ pc'[q] \in {"idle", "lock"}
                            /\ q # r => pc[q] \in {"idle", "lock"}
      /\ mutation = r /\ (phase = "boot" => r = Boot)
      /\ Excluded' /\ JobsValid' /\ RemovedHasNoTask'
  BY <1>1, <1>2, ReleasedEffect
<1>5. /\ phase # "boot" /\ ~ Busy(c)
      /\ job[r].op = "create" => job[r].url # None /\ job[r].enabled # None
  <2>1. phase # "boot"
    BY <1>4
  <2>2. \A q \in Callers : job[q].chain = c => pc[q] \in {"lock", "write"}
    BY <1>1, <1>4, IdleJob
  <2>3. QED
    BY <1>2, <2>1, <2>2 DEF Busy, IInv, JobsValid
<1>6. /\ registry' \in [Chains -> {None} \cup Record] /\ unsettled' \subseteq Chains
      /\ \A d \in Chains : d # c => registry'[d] = registry[d]
      /\ (registry'[c] = registry[c] /\ unsettled' = unsettled) \/ c \in unsettled'
      /\ unsettled \subseteq unsettled'
  <2>1. Writable(job[r]) => Written(job[r]) \in Record
    BY <1>2, <1>5, Alone, WrittenType DEF IInv
  <2>2. QED
    BY <1>1, <1>3, <2>1 DEF IInv, TypeOK
<1>7. TypeInv'
  BY <1>1, <1>4, <1>6 DEF IInv, TypeInv, TypeOK, runtime
<1>8. WorkersValid'
  BY <1>1, <1>4 DEF IInv, WorkersValid, Alive, runtime
<1>9. NoLostWorker'
  BY <1>1 DEF IInv, NoLostWorker, Alive, runtime
<1>10. Awaited'
  BY <1>1, <1>4 DEF IInv, Awaited, Alive, runtime
<1>11. OneWorkerPerChain'
  BY <1>1 DEF IInv, OneWorkerPerChain, Alive, runtime
<1>12. ShutdownIsFinal'
  BY <1>1 DEF IInv, ShutdownIsFinal, Alive, runtime
<1>13. ReconciledAgrees'
  <2>1. \A d \in Chains : d # c /\ Agrees(d) => Agrees(d)'
    BY <1>1, <1>6, AgreesElsewhere DEF IInv, TypeOK, runtime
  <2>2. ASSUME ~ closed, c \notin unsettled' PROVE Agrees(c)'
    <3>1. Agrees(c)
      BY <1>5, <1>6, <2>2 DEF IInv, ReconciledAgrees
    <3>2. QED
      BY <1>1, <1>6, <2>2, <3>1 DEF Agrees, Runs, Alive, runtime
  <2>3. \A d \in todo : registry'[d] # None
    BY <1>5 DEF IInv, ReconciledAgrees
  <2>4. QED
    BY <1>1, <1>2, <1>3, <2>1, <2>2, <2>3, ReconciledStep DEF runtime
<1>14. QED
  BY <1>4, <1>7, <1>8, <1>9, <1>10, <1>11, <1>12, <1>13 DEF IInv, TypeInv

-----------------------------------------------------------------------------
(* apply and retire.                                                       *)

LEMMA ApplyClosedInv ==
    ASSUME IInv, NEW p \in Callers, ApplyClosed(p)
    PROVE  IInv'
<1>1. /\ pc[p] = "apply" /\ closed
      /\ Released(p) /\ unsettled' = unsettled \ {job[p].chain}
      /\ UNCHANGED <<registry, phase, runtime, todo, taken, bounds>>
  BY DEF ApplyClosed, Settled
<1>2. p \in Callers /\ Active(p)
  BY <1>1 DEF Active
<1>3. PICK c \in Chains : c = job[p].chain
  BY <1>2, Alone
<1>4. /\ pc' \in [Callers -> PC] /\ job' \in [Callers -> Job]
      /\ joining' \in [Callers -> Tasks \cup {None}] /\ mutation' \in Callers \cup {None}
      /\ \A q \in Callers : /\ pc'[q] \in {"idle", "lock"}
                            /\ q # p => pc[q] \in {"idle", "lock"}
      /\ mutation = p /\ (phase = "boot" => p = Boot)
      /\ Excluded' /\ JobsValid' /\ RemovedHasNoTask'
  BY <1>1, <1>2, ReleasedEffect
<1>5. TypeInv'
  BY <1>1, <1>4 DEF IInv, TypeInv, TypeOK, bounds, runtime
<1>6. WorkersValid'
  BY <1>1, <1>4 DEF IInv, WorkersValid, Alive, runtime
<1>7. NoLostWorker'
  BY <1>1 DEF IInv, NoLostWorker, Alive, runtime
<1>8. Awaited'
  BY <1>1, <1>4 DEF IInv, Awaited, Alive, bounds, runtime
<1>9. OneWorkerPerChain'
  BY <1>1 DEF IInv, OneWorkerPerChain, Alive, bounds, runtime
<1>10. ShutdownIsFinal'
  BY <1>1 DEF IInv, ShutdownIsFinal, Alive, bounds, runtime
<1>11. ReconciledAgrees'
  BY <1>1 DEF IInv, ReconciledAgrees, runtime
<1>12. QED
  BY <1>4, <1>5, <1>6, <1>7, <1>8, <1>9, <1>10, <1>11 DEF IInv, TypeInv

LEMMA ApplyRunningInv ==
    ASSUME IInv, NEW p \in Callers, ApplyRunning(p)
    PROVE  IInv'
<1>1. /\ pc[p] = "apply" /\ ~ closed
      /\ job[p].enabled /\ workers[job[p].chain] # None
      /\ tasks' = [tasks EXCEPT ![workers[job[p].chain]].url = job[p].url]
      /\ Released(p) /\ unsettled' = unsettled \ {job[p].chain}
      /\ UNCHANGED <<registry, phase, control, closed, workers, status, todo, taken, bounds>>
  BY DEF ApplyRunning, Settled
<1>2. p \in Callers /\ Active(p)
  BY <1>1 DEF Active
<1>3. PICK c \in Chains : c = job[p].chain
  BY <1>2, Alone
<1>4. /\ pc' \in [Callers -> PC] /\ job' \in [Callers -> Job]
      /\ joining' \in [Callers -> Tasks \cup {None}] /\ mutation' \in Callers \cup {None}
      /\ \A q \in Callers : /\ pc'[q] \in {"idle", "lock"}
                            /\ q # p => pc[q] \in {"idle", "lock"}
      /\ mutation = p /\ (phase = "boot" => p = Boot)
      /\ Excluded' /\ JobsValid' /\ RemovedHasNoTask'
  BY <1>1, <1>2, ReleasedEffect
<1>5. /\ registry[c] # None /\ job[p].url \in Urls
      /\ registry[c].url = job[p].url /\ registry[c].enabled
  <2>1. job[p].op # "delete"
    BY <1>1, <1>2 DEF IInv, JobsValid
  <2>2. QED
    BY <1>1, <1>3, <2>1, Registered
<1>6. PICK t \in Tasks : /\ t = workers[c] /\ Alive(t) /\ ~ tasks[t].cancelled
                         /\ tasks[t].chain = c /\ status[c].owner = t
  BY <1>1, <1>3 DEF IInv, TypeOK, WorkersValid
<1>7. /\ tasks' \in [Tasks -> {None} \cup TaskState]
      /\ \A x \in Tasks : x # t => tasks'[x] = tasks[x]
      /\ tasks'[t] # None /\ tasks'[t].url = registry[c].url
      /\ ~ tasks'[t].cancelled /\ tasks'[t].chain = c
  <2>1. tasks' = [tasks EXCEPT ![t].url = job[p].url]
    BY <1>1, <1>3, <1>6
  <2>2. tasks \in [Tasks -> {None} \cup TaskState]
    BY DEF IInv, TypeOK
  <2>3. QED
    BY <1>5, <1>6, <2>1, <2>2, RotateTask
<1>8. /\ ~ closed /\ pc[p] = "apply" /\ unsettled' \subseteq unsettled
      /\ UNCHANGED <<registry, phase, control, closed, workers, status, todo, taken, disconnects>>
  BY <1>1 DEF bounds
<1>9. TypeInv'
  BY <1>4, <1>7, <1>8 DEF IInv, TypeInv, TypeOK
<1>10. WorkersValid'
  <2>1. \A d \in Chains : workers[d] # None =>
           /\ ~ closed /\ tasks'[workers[d]] # None /\ ~ tasks'[workers[d]].cancelled
           /\ tasks'[workers[d]].chain = d /\ status[d].owner = workers[d]
    BY <1>6, <1>7, MapTypes DEF IInv, WorkersValid, Alive
  <2>2. \A q \in Callers : pc'[q] \notin {"join", "probe", "remove"}
    BY <1>4
  <2>3. QED
    BY <1>8, <2>1, <2>2 DEF IInv, WorkersValid, Alive
<1>11. NoLostWorker'
  BY <1>6, <1>7, <1>8 DEF IInv, NoLostWorker, Alive
<1>12. Awaited'
  BY <1>4, <1>7, <1>8 DEF IInv, Awaited, Alive
<1>13. OneWorkerPerChain'
  BY <1>6, <1>7, <1>8 DEF IInv, OneWorkerPerChain, Alive
<1>14. ShutdownIsFinal'
  BY <1>6, <1>8 DEF IInv, ShutdownIsFinal, Alive
<1>15. ReconciledAgrees'
  <2>1. \A d \in Chains : d # c /\ Agrees(d) => Agrees(d)'
    BY <1>1, <1>3, <1>6, AgreesElsewhere DEF IInv, TypeOK
  <2>2. ASSUME ~ closed, c \notin unsettled' PROVE Agrees(c)'
    BY <1>1, <1>3, <1>5, <1>6, <1>7 DEF Agrees, Runs, Alive
  <2>3. \A d \in todo : registry'[d] # None
    BY <1>1, <1>3 DEF IInv, ReconciledAgrees
  <2>4. QED
    BY <1>1, <1>2, <1>3, <1>6, <2>1, <2>2, <2>3, ReconciledStep DEF runtime
<1>16. QED
  BY <1>4, <1>9, <1>10, <1>11, <1>12, <1>13, <1>14, <1>15 DEF IInv, TypeInv

LEMMA ApplyDisabledInv ==
    ASSUME IInv, NEW p \in Callers, ApplyDisabled(p)
    PROVE  IInv'
<1>1. /\ pc[p] = "apply" /\ ~ closed
      /\ ~ job[p].enabled /\ workers[job[p].chain] = None
      /\ status' = [status EXCEPT ![job[p].chain] = StatusOf("disabled")]
      /\ Released(p) /\ unsettled' = unsettled \ {job[p].chain}
      /\ UNCHANGED <<registry, phase, control, closed, workers, tasks, todo, taken, bounds>>
  BY DEF ApplyDisabled, Settled
<1>2. p \in Callers /\ Active(p)
  BY <1>1 DEF Active
<1>3. PICK c \in Chains : c = job[p].chain
  BY <1>2, Alone
<1>4. /\ pc' \in [Callers -> PC] /\ job' \in [Callers -> Job]
      /\ joining' \in [Callers -> Tasks \cup {None}] /\ mutation' \in Callers \cup {None}
      /\ \A q \in Callers : /\ pc'[q] \in {"idle", "lock"}
                            /\ q # p => pc[q] \in {"idle", "lock"}
      /\ mutation = p /\ (phase = "boot" => p = Boot)
      /\ Excluded' /\ JobsValid' /\ RemovedHasNoTask'
  BY <1>1, <1>2, ReleasedEffect
<1>5. registry[c] # None /\ ~ registry[c].enabled
  <2>1. job[p].op # "delete"
    BY <1>1, <1>2 DEF IInv, JobsValid
  <2>2. QED
    BY <1>1, <1>3, <2>1, Registered
<1>6. /\ status'[c] = StatusOf("disabled")
      /\ \A d \in Chains : d # c => status'[d] = status[d]
      /\ status' \in [Chains -> [state : {"none", "disabled", "starting", "running", "degraded"},
                                 owner : Tasks \cup {None}]]
  BY <1>1, <1>3 DEF IInv, TypeOK, StatusOf
<1>7. TypeInv'
  BY <1>1, <1>4, <1>6 DEF IInv, TypeInv, TypeOK, bounds
<1>8. WorkersValid'
  BY <1>1, <1>4 DEF IInv, WorkersValid, Alive
<1>9. NoLostWorker'
  BY <1>1 DEF IInv, NoLostWorker, Alive
<1>10. Awaited'
  BY <1>1, <1>4 DEF IInv, Awaited, Alive, bounds
<1>11. OneWorkerPerChain'
  BY <1>1 DEF IInv, OneWorkerPerChain, Alive, bounds
<1>12. ShutdownIsFinal'
  BY <1>1 DEF IInv, ShutdownIsFinal, Alive, bounds
<1>13. ReconciledAgrees'
  <2>1. \A d \in Chains : d # c /\ Agrees(d) => Agrees(d)'
    BY <1>1, <1>6, AgreesElsewhere DEF IInv, TypeOK
  <2>2. ASSUME ~ closed, c \notin unsettled' PROVE Agrees(c)'
    BY <1>1, <1>3, <1>5, <1>6 DEF Agrees
  <2>3. \A d \in todo : registry'[d] # None
    BY <1>1 DEF IInv, ReconciledAgrees
  <2>4. QED
    BY <1>1, <1>2, <1>3, <2>1, <2>2, <2>3, ReconciledStep
<1>14. QED
  BY <1>4, <1>7, <1>8, <1>9, <1>10, <1>11, <1>12, <1>13 DEF IInv, TypeInv

LEMMA WorkerDisabledInv ==
    ASSUME IInv, NEW p \in Callers, WorkerDisabled(p)
    PROVE  IInv'
<1>1. /\ pc[p] = "join" /\ tasks[joining[p]] = None
      /\ job[p].op # "delete" /\ ~ job[p].enabled
      /\ status' = [status EXCEPT ![job[p].chain] = StatusOf("disabled")]
      /\ control' = None
      /\ Released(p) /\ unsettled' = unsettled \ {job[p].chain}
      /\ UNCHANGED <<registry, phase, closed, workers, tasks, todo, taken, bounds>>
  BY DEF WorkerDisabled, Settled, Joined, Alive
<1>2. p \in Callers /\ Active(p)
  BY <1>1 DEF Active
<1>3. PICK c \in Chains : c = job[p].chain
  BY <1>2, Alone
<1>4. /\ pc' \in [Callers -> PC] /\ job' \in [Callers -> Job]
      /\ joining' \in [Callers -> Tasks \cup {None}] /\ mutation' \in Callers \cup {None}
      /\ \A q \in Callers : /\ pc'[q] \in {"idle", "lock"}
                            /\ q # p => pc[q] \in {"idle", "lock"}
      /\ mutation = p /\ (phase = "boot" => p = Boot)
      /\ Excluded' /\ JobsValid' /\ RemovedHasNoTask'
  BY <1>1, <1>2, ReleasedEffect
<1>5. registry[c] # None /\ ~ registry[c].enabled /\ workers[c] = None
  BY <1>1, <1>3, Registered DEF IInv, WorkersValid
<1>6. /\ status'[c] = StatusOf("disabled")
      /\ \A d \in Chains : d # c => status'[d] = status[d]
      /\ status' \in [Chains -> [state : {"none", "disabled", "starting", "running", "degraded"},
                                 owner : Tasks \cup {None}]]
  BY <1>1, <1>3 DEF IInv, TypeOK, StatusOf
<1>7. TypeInv'
  BY <1>1, <1>4, <1>6 DEF IInv, TypeInv, TypeOK, bounds
<1>8. WorkersValid'
  BY <1>1, <1>4 DEF IInv, WorkersValid, Alive
<1>9. NoLostWorker'
  BY <1>1 DEF IInv, NoLostWorker, Alive
<1>10. Awaited'
  BY <1>1, <1>4 DEF IInv, Awaited, Alive, bounds
<1>11. OneWorkerPerChain'
  BY <1>1 DEF IInv, OneWorkerPerChain, Alive, bounds
<1>12. ShutdownIsFinal'
  BY <1>1 DEF IInv, ShutdownIsFinal, Alive, bounds
<1>13. ReconciledAgrees'
  <2>1. \A d \in Chains : d # c /\ Agrees(d) => Agrees(d)'
    BY <1>1, <1>6, AgreesElsewhere DEF IInv, TypeOK
  <2>2. ASSUME ~ closed, c \notin unsettled' PROVE Agrees(c)'
    BY <1>1, <1>5, <1>6 DEF Agrees
  <2>3. \A d \in todo : registry'[d] # None
    BY <1>1 DEF IInv, ReconciledAgrees
  <2>4. QED
    BY <1>1, <1>2, <1>3, <2>1, <2>2, <2>3, ReconciledStep
<1>14. QED
  BY <1>4, <1>7, <1>8, <1>9, <1>10, <1>11, <1>12, <1>13 DEF IInv, TypeInv

LEMMA ProbeFailedInv ==
    ASSUME IInv, NEW p \in Callers, ProbeFailed(p)
    PROVE  IInv'
<1>1. /\ pc[p] = "probe"
      /\ status' = [status EXCEPT ![job[p].chain] = StatusOf("degraded")]
      /\ control' = None
      /\ Released(p) /\ unsettled' = unsettled \ {job[p].chain}
      /\ UNCHANGED <<registry, phase, closed, workers, tasks, todo, taken, bounds>>
  BY DEF ProbeFailed, Settled
<1>2. p \in Callers /\ Active(p)
  BY <1>1 DEF Active
<1>3. PICK c \in Chains : c = job[p].chain
  BY <1>2, Alone
<1>4. /\ pc' \in [Callers -> PC] /\ job' \in [Callers -> Job]
      /\ joining' \in [Callers -> Tasks \cup {None}] /\ mutation' \in Callers \cup {None}
      /\ \A q \in Callers : /\ pc'[q] \in {"idle", "lock"}
                            /\ q # p => pc[q] \in {"idle", "lock"}
      /\ mutation = p /\ (phase = "boot" => p = Boot)
      /\ Excluded' /\ JobsValid' /\ RemovedHasNoTask'
  BY <1>1, <1>2, ReleasedEffect
<1>5. registry[c] # None /\ registry[c].enabled /\ workers[c] = None
  <2>1. job[p].op # "delete" /\ job[p].enabled
    BY <1>1, <1>2 DEF IInv, JobsValid
  <2>2. workers[c] = None
    BY <1>1, <1>3 DEF IInv, WorkersValid
  <2>3. QED
    BY <1>1, <1>3, <2>1, <2>2, Registered
<1>6. /\ status'[c] = StatusOf("degraded")
      /\ \A d \in Chains : d # c => status'[d] = status[d]
      /\ status' \in [Chains -> [state : {"none", "disabled", "starting", "running", "degraded"},
                                 owner : Tasks \cup {None}]]
  BY <1>1, <1>3 DEF IInv, TypeOK, StatusOf
<1>7. TypeInv'
  BY <1>1, <1>4, <1>6 DEF IInv, TypeInv, TypeOK, bounds
<1>8. WorkersValid'
  BY <1>1, <1>4 DEF IInv, WorkersValid, Alive
<1>9. NoLostWorker'
  BY <1>1 DEF IInv, NoLostWorker, Alive
<1>10. Awaited'
  BY <1>1, <1>4 DEF IInv, Awaited, Alive, bounds
<1>11. OneWorkerPerChain'
  BY <1>1 DEF IInv, OneWorkerPerChain, Alive, bounds
<1>12. ShutdownIsFinal'
  BY <1>1 DEF IInv, ShutdownIsFinal, Alive, bounds
<1>13. ReconciledAgrees'
  <2>1. \A d \in Chains : d # c /\ Agrees(d) => Agrees(d)'
    BY <1>1, <1>6, AgreesElsewhere DEF IInv, TypeOK
  <2>2. ASSUME ~ closed, c \notin unsettled' PROVE Agrees(c)'
    BY <1>1, <1>5, <1>6 DEF Agrees
  <2>3. \A d \in todo : registry'[d] # None
    BY <1>1 DEF IInv, ReconciledAgrees
  <2>4. QED
    BY <1>1, <1>2, <1>3, <2>1, <2>2, <2>3, ReconciledStep
<1>14. QED
  BY <1>4, <1>7, <1>8, <1>9, <1>10, <1>11, <1>12, <1>13 DEF IInv, TypeInv

LEMMA RemoveChainInv ==
    ASSUME IInv, NEW r \in Requests, RemoveChain(r)
    PROVE  IInv'
<1>1. /\ pc[r] = "remove"
      /\ registry' = [registry EXCEPT ![job[r].chain] = None]
      /\ Released(r) /\ unsettled' = unsettled \ {job[r].chain}
      /\ UNCHANGED <<phase, runtime, todo, taken, bounds>>
  BY DEF RemoveChain, Settled
<1>2. r \in Callers /\ Active(r)
  BY <1>1 DEF Callers, Active
<1>3. PICK c \in Chains : c = job[r].chain
  BY <1>2, Alone
<1>4. /\ pc' \in [Callers -> PC] /\ job' \in [Callers -> Job]
      /\ joining' \in [Callers -> Tasks \cup {None}] /\ mutation' \in Callers \cup {None}
      /\ \A q \in Callers : /\ pc'[q] \in {"idle", "lock"}
                            /\ q # r => pc[q] \in {"idle", "lock"}
      /\ mutation = r /\ (phase = "boot" => r = Boot)
      /\ Excluded' /\ JobsValid' /\ RemovedHasNoTask'
  BY <1>1, <1>2, ReleasedEffect
<1>5. workers[c] = None /\ status[c] = NoStatus /\ phase # "boot"
  BY <1>1, <1>2, <1>3, <1>4 DEF IInv, WorkersValid
<1>6. /\ registry'[c] = None
      /\ \A d \in Chains : d # c => registry'[d] = registry[d]
      /\ registry' \in [Chains -> {None} \cup Record]
  BY <1>1, <1>3 DEF IInv, TypeOK
<1>7. TypeInv'
  BY <1>1, <1>4, <1>6 DEF IInv, TypeInv, TypeOK, bounds, runtime
<1>8. WorkersValid'
  BY <1>1, <1>4 DEF IInv, WorkersValid, Alive, runtime
<1>9. NoLostWorker'
  BY <1>1 DEF IInv, NoLostWorker, Alive, runtime
<1>10. Awaited'
  BY <1>1, <1>4 DEF IInv, Awaited, Alive, bounds, runtime
<1>11. OneWorkerPerChain'
  BY <1>1 DEF IInv, OneWorkerPerChain, Alive, bounds, runtime
<1>12. ShutdownIsFinal'
  BY <1>1 DEF IInv, ShutdownIsFinal, Alive, bounds, runtime
<1>13. ReconciledAgrees'
  <2>1. \A d \in Chains : d # c /\ Agrees(d) => Agrees(d)'
    BY <1>1, <1>6, AgreesElsewhere DEF IInv, TypeOK, runtime
  <2>2. ASSUME ~ closed, c \notin unsettled' PROVE Agrees(c)'
    BY <1>1, <1>5, <1>6 DEF Agrees, runtime
  <2>3. \A d \in todo : registry'[d] # None
    BY <1>5 DEF IInv, ReconciledAgrees
  <2>4. QED
    BY <1>1, <1>2, <1>3, <2>1, <2>2, <2>3, ReconciledStep DEF runtime
<1>14. QED
  BY <1>4, <1>7, <1>8, <1>9, <1>10, <1>11, <1>12, <1>13 DEF IInv, TypeInv

LEMMA RemoveFailedInv ==
    ASSUME IInv, NEW r \in Requests, RemoveFailed(r)
    PROVE  IInv'
<1>1. /\ pc[r] = "remove"
      /\ registry' \in {registry, [registry EXCEPT ![job[r].chain] = None]}
      /\ Released(r) /\ unsettled' = unsettled \cup {job[r].chain}
      /\ UNCHANGED <<phase, runtime, todo, taken, disconnects>>
  BY DEF RemoveFailed, Fault
<1>2. r \in Callers /\ Active(r)
  BY <1>1 DEF Callers, Active
<1>3. PICK c \in Chains : c = job[r].chain
  BY <1>2, Alone
<1>4. /\ pc' \in [Callers -> PC] /\ job' \in [Callers -> Job]
      /\ joining' \in [Callers -> Tasks \cup {None}] /\ mutation' \in Callers \cup {None}
      /\ \A q \in Callers : /\ pc'[q] \in {"idle", "lock"}
                            /\ q # r => pc[q] \in {"idle", "lock"}
      /\ mutation = r /\ (phase = "boot" => r = Boot)
      /\ Excluded' /\ JobsValid' /\ RemovedHasNoTask'
  BY <1>1, <1>2, ReleasedEffect
<1>5. phase # "boot"
  BY <1>4
<1>6. /\ \A d \in Chains : d # c => registry'[d] = registry[d]
      /\ registry' \in [Chains -> {None} \cup Record]
  BY <1>1, <1>3 DEF IInv, TypeOK
<1>7. TypeInv'
  BY <1>1, <1>3, <1>4 DEF IInv, TypeInv, TypeOK, runtime
<1>8. WorkersValid'
  BY <1>1, <1>4 DEF IInv, WorkersValid, Alive, runtime
<1>9. NoLostWorker'
  BY <1>1 DEF IInv, NoLostWorker, Alive, runtime
<1>10. Awaited'
  BY <1>1, <1>4 DEF IInv, Awaited, Alive, runtime
<1>11. OneWorkerPerChain'
  BY <1>1 DEF IInv, OneWorkerPerChain, Alive, runtime
<1>12. ShutdownIsFinal'
  BY <1>1 DEF IInv, ShutdownIsFinal, Alive, runtime
<1>13. ReconciledAgrees'
  <2>1. \A d \in Chains : d # c /\ Agrees(d) => Agrees(d)'
    BY <1>1, <1>6, AgreesElsewhere DEF IInv, TypeOK, runtime
  <2>2. ASSUME ~ closed, c \notin unsettled' PROVE Agrees(c)'
    BY <1>1, <1>3, <2>2
  <2>3. \A d \in todo : registry'[d] # None
    BY <1>5 DEF IInv, ReconciledAgrees
  <2>4. QED
    BY <1>1, <1>2, <1>3, <2>1, <2>3, ReconciledStep DEF runtime
<1>14. QED
  BY <1>4, <1>7, <1>8, <1>9, <1>10, <1>11, <1>12, <1>13 DEF IInv, TypeInv

LEMMA StopWorkerInv ==
    ASSUME IInv, NEW p \in Callers, StopWorker(p)
    PROVE  IInv'
<1> DEFINE t0 == workers[job[p].chain]
<1>1. /\ pc[p] \in {"apply", "retire"} /\ control = None
      /\ t0 # None
      /\ pc[p] = "apply" => ~ closed
      /\ workers' = [workers EXCEPT ![job[p].chain] = None]
      /\ tasks' = [tasks EXCEPT ![t0].cancelled = TRUE]
      /\ joining' = [joining EXCEPT ![p] = t0]
      /\ control' = p
      /\ pc' = [pc EXCEPT ![p] = "join"]
      /\ UNCHANGED <<registry, phase, closed, status, job, mutation, unsettled, todo, taken, bounds>>
  BY DEF StopWorker
<1>2. /\ Active(p) /\ mutation = p
      /\ \A q \in Callers : q # p => pc[q] \in {"idle", "lock"}
  BY <1>1, Alone DEF Active
<1>3. PICK c \in Chains : c = job[p].chain
  BY <1>2, Alone
<1>4. PICK t \in Tasks : t = t0
  BY <1>1, <1>3 DEF IInv, TypeOK
<1>5. /\ t = workers[c] /\ Alive(t) /\ ~ tasks[t].cancelled /\ ~ closed /\ taken = None
      /\ tasks[t].chain = c /\ phase # "off"
  BY <1>3, <1>4 DEF IInv, WorkersValid
<1>6. /\ tasks' \in [Tasks -> {None} \cup TaskState]
      /\ \A x \in Tasks : x # t => tasks'[x] = tasks[x]
      /\ tasks'[t] # None /\ tasks'[t].cancelled /\ tasks'[t].chain = c
  <2>1. tasks' = [tasks EXCEPT ![t].cancelled = TRUE]
    BY <1>1, <1>4
  <2>2. tasks \in [Tasks -> {None} \cup TaskState]
    BY DEF IInv, TypeOK
  <2>3. QED
    BY <1>5, <2>1, <2>2, CancelTask
<1>7. /\ \A q \in Callers : q # p => pc'[q] = pc[q] /\ joining'[q] = joining[q]
      /\ pc'[p] = "join" /\ joining'[p] = t
      /\ \A d \in Chains : d # c => workers'[d] = workers[d]
      /\ workers'[c] = None /\ workers' \in [Chains -> Tasks \cup {None}]
      /\ joining' \in [Callers -> Tasks \cup {None}] /\ pc' \in [Callers -> PC]
  BY <1>1, <1>3, <1>4 DEF IInv, TypeOK, PC
<1>8. job[p].op = "delete" \/ pc[p] = "apply"
  BY <1>1 DEF IInv, JobsValid
<1>9. /\ control' = p
      /\ UNCHANGED <<registry, phase, closed, status, job, mutation, unsettled, todo, taken, disconnects>>
  BY <1>1 DEF bounds
<1>10. TypeInv'
  BY <1>6, <1>7, <1>9 DEF IInv, TypeInv, TypeOK
<1>11. Excluded'
  BY <1>2, <1>7, <1>9 DEF IInv, Excluded, Active
<1>12. JobsValid'
  BY <1>3, <1>7, <1>8, <1>9 DEF IInv, JobsValid, Active
<1>13. WorkersValid'
  <2>1. \A d \in Chains : workers'[d] # None =>
           /\ ~ closed /\ tasks'[workers'[d]] # None /\ ~ tasks'[workers'[d]].cancelled
           /\ tasks'[workers'[d]].chain = d /\ status[d].owner = workers'[d]
    <3>1. SUFFICES ASSUME NEW d \in Chains, workers'[d] # None
                   PROVE  /\ ~ closed /\ tasks'[workers'[d]] # None
                          /\ ~ tasks'[workers'[d]].cancelled
                          /\ tasks'[workers'[d]].chain = d /\ status[d].owner = workers'[d]
      OBVIOUS
    <3>2. /\ d # c /\ workers'[d] = workers[d] /\ workers[d] \in Tasks
      BY <1>7, <3>1 DEF IInv, TypeOK
    <3>3. /\ ~ closed /\ tasks[workers[d]] # None /\ ~ tasks[workers[d]].cancelled
          /\ tasks[workers[d]].chain = d /\ status[d].owner = workers[d]
      BY <3>1, <3>2 DEF IInv, WorkersValid, Alive
    <3>4. workers[d] # t
      BY <1>5, <3>2, <3>3
    <3>5. QED
      BY <1>6, <3>2, <3>3, <3>4
  <2>2. \A q \in Callers : pc'[q] \in {"join", "probe"} => ~ closed /\ workers'[job[q].chain] = None
    BY <1>2, <1>3, <1>5, <1>7
  <2>3. \A q \in Callers : pc'[q] # "remove"
    BY <1>2, <1>7
  <2>4. QED
    BY <1>5, <1>9, <2>1, <2>2, <2>3 DEF WorkersValid, Alive
<1>14. NoLostWorker'
  BY <1>5, <1>6, <1>7, MapTypes DEF IInv, NoLostWorker, Alive
<1>15. Awaited'
  <2>1. \A x \in Tasks : disconnects = 0 /\ tasks[x] # None => ~ tasks[x].cancelled
    BY <1>1, <1>2, <1>5 DEF IInv, Awaited, Alive
  <2>2. QED
    BY <1>6, <1>7, <1>9, <2>1 DEF Awaited, Alive
<1>16. OneWorkerPerChain'
  BY <1>5, <1>6, <1>9 DEF IInv, OneWorkerPerChain, Alive
<1>17. RemovedHasNoTask'
  BY <1>5, <1>6, <1>7, <1>9 DEF IInv, RemovedHasNoTask, Alive, Callers
<1>18. ShutdownIsFinal'
  BY <1>5, <1>9 DEF IInv, ShutdownIsFinal, Alive
<1>19. ReconciledAgrees'
  <2>1. \A d \in Chains : d # c /\ Agrees(d) => Agrees(d)'
    BY <1>1, <1>5, <1>7, AgreesElsewhere
  <2>2. Busy(c)'
    BY <1>1, <1>7 DEF Busy
  <2>3. QED
    BY <1>1, <1>2, <1>3, <2>1, <2>2, ReconciledStep DEF IInv, ReconciledAgrees
<1>20. QED
  BY <1>10, <1>11, <1>12, <1>13, <1>14, <1>15, <1>16, <1>17, <1>18, <1>19 DEF IInv, TypeInv

LEMMA ApplyStartInv ==
    ASSUME IInv, NEW p \in Callers, ApplyStart(p)
    PROVE  IInv'
<1>1. /\ pc[p] = "apply" /\ control = None /\ ~ closed
      /\ job[p].enabled /\ workers[job[p].chain] = None
      /\ control' = p
      /\ pc' = [pc EXCEPT ![p] = "probe"]
      /\ UNCHANGED <<job, joining, mutation, unsettled>>
      /\ UNCHANGED <<registry, phase, closed, workers, tasks, status, todo, taken, bounds>>
  BY DEF ApplyStart, Moved
<1>2. /\ Active(p) /\ mutation = p /\ job[p].op # "delete"
      /\ \A q \in Callers : q # p => pc[q] \in {"idle", "lock"}
  <2>1. Active(p) /\ job[p].op # "delete"
    BY <1>1 DEF Active, IInv, JobsValid
  <2>2. QED
    BY <2>1, Alone
<1>3. /\ \A q \in Callers : q # p => pc'[q] = pc[q]
      /\ pc'[p] = "probe"
  BY <1>1 DEF IInv, TypeOK
<1>4. TypeInv'
  BY <1>1 DEF IInv, TypeInv, TypeOK, PC, bounds
<1>5. Excluded'
  BY <1>1 DEF IInv, Excluded, Active
<1>6. JobsValid'
  BY <1>1 DEF IInv, JobsValid, Active
<1>7. WorkersValid'
  BY <1>1 DEF IInv, WorkersValid, Alive
<1>8. NoLostWorker'
  BY <1>1 DEF IInv, NoLostWorker, Alive
<1>9. Awaited'
  BY <1>1 DEF IInv, Awaited, Alive, bounds
<1>10. OneWorkerPerChain'
  BY <1>1 DEF IInv, OneWorkerPerChain, Alive, bounds
<1>11. RemovedHasNoTask'
  BY <1>2, <1>3 DEF IInv, RemovedHasNoTask, Alive, Callers
<1>12. ShutdownIsFinal'
  BY <1>1 DEF IInv, ShutdownIsFinal, Alive, bounds
<1>13. ReconciledAgrees'
  <2>1. \A d \in Chains : Busy(d) => Busy(d)'
    BY <1>1, BusyWithJob DEF Busy
  <2>2. QED
    BY <1>1, <2>1, ReconciledFrame DEF IInv
<1>14. QED
  BY <1>4, <1>5, <1>6, <1>7, <1>8, <1>9, <1>10, <1>11, <1>12, <1>13 DEF IInv, TypeInv

LEMMA RestartWorkerInv ==
    ASSUME IInv, NEW p \in Callers, RestartWorker(p)
    PROVE  IInv'
<1>1. /\ pc[p] = "join" /\ tasks[joining[p]] = None
      /\ job[p].op # "delete" /\ job[p].enabled
      /\ pc' = [pc EXCEPT ![p] = "probe"]
      /\ joining' = [joining EXCEPT ![p] = None]
      /\ UNCHANGED <<registry, phase, runtime, job, mutation, unsettled, todo, taken, bounds>>
  BY DEF RestartWorker, Joined, Alive
<1>2. /\ Active(p) /\ mutation = p
      /\ \A q \in Callers : q # p => pc[q] \in {"idle", "lock"}
  BY <1>1, Alone DEF Active
<1>3. /\ \A q \in Callers : q # p => pc'[q] = pc[q] /\ joining'[q] = joining[q]
      /\ pc'[p] = "probe" /\ joining' \in [Callers -> Tasks \cup {None}]
  BY <1>1 DEF IInv, TypeOK
<1>4. TypeInv'
  BY <1>1 DEF IInv, TypeInv, TypeOK, PC, bounds, runtime
<1>5. Excluded'
  BY <1>1 DEF IInv, Excluded, Active, runtime
<1>6. JobsValid'
  BY <1>1 DEF IInv, JobsValid, Active
<1>7. WorkersValid'
  BY <1>1 DEF IInv, WorkersValid, Alive, runtime
<1>8. NoLostWorker'
  BY <1>1 DEF IInv, NoLostWorker, Alive, runtime
<1>9. Awaited'
  BY <1>1 DEF IInv, Awaited, Alive, bounds, runtime
<1>10. OneWorkerPerChain'
  BY <1>1 DEF IInv, OneWorkerPerChain, Alive, bounds, runtime
<1>11. RemovedHasNoTask'
  BY <1>2, <1>3 DEF IInv, RemovedHasNoTask, Alive, Callers
<1>12. ShutdownIsFinal'
  BY <1>1 DEF IInv, ShutdownIsFinal, Alive, bounds, runtime
<1>13. ReconciledAgrees'
  <2>1. \A d \in Chains : Busy(d) => Busy(d)'
    BY <1>1, BusyWithJob DEF Busy
  <2>2. QED
    BY <1>1, <2>1, ReconciledFrame DEF IInv, runtime
<1>14. QED
  BY <1>4, <1>5, <1>6, <1>7, <1>8, <1>9, <1>10, <1>11, <1>12, <1>13 DEF IInv, TypeInv

LEMMA RetiredInv ==
    ASSUME IInv, NEW p \in Callers, Retired(p)
    PROVE  IInv'
<1>1. /\ \/ pc[p] = "join" /\ tasks[joining[p]] = None /\ job[p].op = "delete"
         \/ pc[p] = "retire" /\ control = None /\ workers[job[p].chain] = None
      /\ status' = [status EXCEPT ![job[p].chain] = NoStatus]
      /\ control' = None
      /\ pc' = [pc EXCEPT ![p] = "remove"]
      /\ joining' = [joining EXCEPT ![p] = None]
      /\ UNCHANGED <<registry, phase, closed, workers, tasks, job, mutation, unsettled, todo, taken, bounds>>
  BY DEF Retired, Joined, Alive
<1>2. /\ Active(p) /\ mutation = p
      /\ \A q \in Callers : q # p => pc[q] \in {"idle", "lock"}
  BY <1>1, Alone DEF Active
<1>3. PICK c \in Chains : c = job[p].chain
  BY <1>2, Alone
<1>4. job[p].op = "delete" /\ p # Boot /\ workers[c] = None
  <2>1. job[p].op = "delete" /\ p # Boot
    BY <1>1, <1>2 DEF IInv, JobsValid
  <2>2. workers[c] = None
    BY <1>1, <1>3 DEF IInv, WorkersValid
  <2>3. QED
    BY <2>1, <2>2
<1>5. /\ \A q \in Callers : q # p => pc'[q] = pc[q] /\ joining'[q] = joining[q]
      /\ pc'[p] = "remove" /\ joining' \in [Callers -> Tasks \cup {None}]
      /\ \A d \in Chains : d # c => status'[d] = status[d]
      /\ status'[c] = NoStatus
      /\ status' \in [Chains -> [state : {"none", "disabled", "starting", "running", "degraded"},
                                 owner : Tasks \cup {None}]]
  BY <1>1, <1>3 DEF IInv, TypeOK, NoStatus
<1>6. TypeInv'
  BY <1>1, <1>5 DEF IInv, TypeInv, TypeOK, PC, bounds
<1>7. Excluded'
  BY <1>1, <1>5 DEF IInv, Excluded, Active
<1>8. JobsValid'
  BY <1>1 DEF IInv, JobsValid, Active
<1>9. WorkersValid'
  BY <1>1, <1>5 DEF IInv, WorkersValid, Alive
<1>10. NoLostWorker'
  BY <1>1 DEF IInv, NoLostWorker, Alive
<1>11. Awaited'
  BY <1>1 DEF IInv, Awaited, Alive, bounds
<1>12. OneWorkerPerChain'
  BY <1>1 DEF IInv, OneWorkerPerChain, Alive, bounds
<1>13. RemovedHasNoTask'
  <2>1. ASSUME ~ closed, disconnects = 0, NEW t \in Tasks, Alive(t), tasks[t].chain = c
        PROVE  FALSE
    <3>1. tasks[t].cancelled
      BY <1>4, <2>1 DEF IInv, NoLostWorker
    <3>2. PICK q \in Callers : pc[q] = "join" /\ joining[q] = t
      BY <2>1, <3>1 DEF IInv, Awaited, WorkersValid
    <3>3. QED
      BY <1>1, <1>2, <2>1, <3>2 DEF Alive
  <2>2. QED
    BY <1>1, <1>2, <1>3, <2>1 DEF RemovedHasNoTask, Alive, bounds, Callers
<1>14. ShutdownIsFinal'
  BY <1>1 DEF IInv, ShutdownIsFinal, Alive, bounds
<1>15. ReconciledAgrees'
  <2>1. \A d \in Chains : d # c /\ Agrees(d) => Agrees(d)'
    BY <1>1, <1>5, AgreesElsewhere
  <2>2. Busy(c)'
    BY <1>1, <1>3, <1>5 DEF Busy
  <2>3. QED
    BY <1>1, <1>2, <1>3, <2>1, <2>2, ReconciledStep DEF IInv, ReconciledAgrees
<1>16. QED
  BY <1>6, <1>7, <1>8, <1>9, <1>10, <1>11, <1>12, <1>13, <1>14, <1>15 DEF IInv, TypeInv

LEMMA SpawnInv ==
    ASSUME IInv, NEW p \in Callers, NEW t \in Tasks, Spawn(p, t)
    PROVE  IInv'
<1>1. /\ pc[p] = "probe" /\ tasks[t] = None /\ t \notin Handles
      /\ tasks' = [tasks EXCEPT ![t] = [chain |-> job[p].chain, url |-> job[p].url,
                                        cancelled |-> FALSE, committing |-> FALSE]]
      /\ workers' = [workers EXCEPT ![job[p].chain] = t]
      /\ status' = [status EXCEPT ![job[p].chain] = [state |-> "starting", owner |-> t]]
      /\ control' = None
      /\ Released(p) /\ unsettled' = unsettled \ {job[p].chain}
      /\ UNCHANGED <<registry, phase, closed, todo, taken, bounds>>
  BY DEF Spawn, Settled, Alive
<1>2. p \in Callers /\ Active(p)
  BY <1>1 DEF Active
<1>3. PICK c \in Chains : c = job[p].chain
  BY <1>2, Alone
<1>4. /\ pc' \in [Callers -> PC] /\ job' \in [Callers -> Job]
      /\ joining' \in [Callers -> Tasks \cup {None}] /\ mutation' \in Callers \cup {None}
      /\ \A q \in Callers : /\ pc'[q] \in {"idle", "lock"}
                            /\ q # p => pc[q] \in {"idle", "lock"}
      /\ mutation = p /\ (phase = "boot" => p = Boot)
      /\ Excluded' /\ JobsValid' /\ RemovedHasNoTask'
  BY <1>1, <1>2, ReleasedEffect
<1>5. /\ registry[c] # None /\ registry[c].enabled /\ registry[c].url = job[p].url
      /\ job[p].url \in Urls
  <2>1. job[p].op # "delete" /\ job[p].enabled
    BY <1>1, <1>2 DEF IInv, JobsValid
  <2>2. QED
    BY <1>1, <1>3, <2>1, Registered
<1>6. workers[c] = None /\ ~ closed /\ taken = None /\ phase # "off"
  BY <1>1, <1>3 DEF IInv, WorkersValid
<1>7. /\ tasks' \in [Tasks -> {None} \cup TaskState]
      /\ \A x \in Tasks : x # t => tasks'[x] = tasks[x]
      /\ tasks'[t] # None /\ tasks'[t].url = registry[c].url
      /\ ~ tasks'[t].cancelled /\ tasks'[t].chain = c
  <2> DEFINE k == [chain |-> c, url |-> job[p].url, cancelled |-> FALSE, committing |-> FALSE]
  <2>1. k \in TaskState
    BY <1>5 DEF TaskState
  <2>2. tasks' = [tasks EXCEPT ![t] = k]
    BY <1>1, <1>3
  <2>3. k.url = registry[c].url /\ ~ k.cancelled /\ k.chain = c
    BY <1>5
  <2> HIDE DEF k
  <2>4. k # None
    BY <2>1 DEF TaskState
  <2>5. QED
    BY <2>1, <2>2, <2>3, <2>4 DEF IInv, TypeOK
<1>8. /\ \A d \in Chains : d # c => workers'[d] = workers[d] /\ status'[d] = status[d]
      /\ workers'[c] = t /\ workers' \in [Chains -> Tasks \cup {None}]
      /\ status'[c].owner = t
      /\ status' \in [Chains -> [state : {"none", "disabled", "starting", "running", "degraded"},
                                 owner : Tasks \cup {None}]]
  BY <1>1, <1>3 DEF IInv, TypeOK
<1>9. \A d \in Chains : workers[d] # t
  BY <1>1 DEF Handles
<1>10. disconnects = 0 => \A x \in Tasks : tasks[x] # None => tasks[x].chain # c
  <2>1. SUFFICES ASSUME disconnects = 0, NEW x \in Tasks, Alive(x), tasks[x].chain = c
                 PROVE  FALSE
    BY DEF Alive
  <2>2. tasks[x].cancelled
    BY <1>6, <2>1 DEF IInv, NoLostWorker
  <2>3. PICK q \in Callers : pc[q] = "join"
    BY <1>6, <2>1, <2>2 DEF IInv, Awaited
  <2>4. QED
    BY <1>1, <1>4, <2>3
<1>11. TypeInv'
  BY <1>1, <1>4, <1>7 DEF IInv, TypeInv, TypeOK, bounds
<1>12. WorkersValid'
  BY <1>1, <1>4, <1>7, <1>8 DEF IInv, WorkersValid, Alive
<1>13. NoLostWorker'
  BY <1>1, <1>6, <1>8 DEF IInv, NoLostWorker, Alive
<1>14. Awaited'
  BY <1>1, <1>4 DEF IInv, Awaited, Alive, bounds
<1>15. OneWorkerPerChain'
  BY <1>1, <1>8, <1>9, <1>10 DEF IInv, OneWorkerPerChain, Alive, bounds
<1>16. ShutdownIsFinal'
  BY <1>1, <1>6 DEF IInv, ShutdownIsFinal, Alive
<1>17. ReconciledAgrees'
  <2>1. \A d \in Chains : d # c /\ Agrees(d) => Agrees(d)'
    BY <1>1, <1>8, AgreesElsewhere DEF IInv, TypeOK
  <2>2. ASSUME ~ closed, c \notin unsettled' PROVE Agrees(c)'
    BY <1>1, <1>5, <1>7, <1>8 DEF Agrees, Runs, Alive
  <2>3. \A d \in todo : registry'[d] # None
    BY <1>1 DEF IInv, ReconciledAgrees
  <2>4. QED
    BY <1>1, <1>2, <1>7, <2>1, <2>2, <2>3, ReconciledStep
<1>18. QED
  BY <1>4, <1>11, <1>12, <1>13, <1>14, <1>15, <1>16, <1>17 DEF IInv, TypeInv

LEMMA DisconnectInv ==
    ASSUME IInv, NEW r \in Requests, Disconnect(r)
    PROVE  IInv'
<1>1. /\ pc[r] # "idle"
      /\ disconnects' = disconnects + 1
      /\ pc' = [pc EXCEPT ![r] = "idle"]
      /\ job' = [job EXCEPT ![r] = NoJob]
      /\ joining' = [joining EXCEPT ![r] = None]
      /\ mutation' = IF mutation = r THEN None ELSE mutation
      /\ control' = IF control = r THEN None ELSE control
      /\ unsettled' = IF pc[r] \in {"lock", "write", "retire"} THEN unsettled
                      ELSE unsettled \cup {job[r].chain}
      /\ UNCHANGED <<registry, phase, closed, workers, tasks, status, todo, taken>>
  BY DEF Disconnect, Idle
<1>2. r \in Callers /\ r # Boot /\ disconnects' \in Nat /\ disconnects' # 0
  BY <1>1 DEF IInv, Callers
<1>3. /\ \A q \in Callers : q # r => /\ pc'[q] = pc[q] /\ job'[q] = job[q]
                                     /\ joining'[q] = joining[q]
      /\ pc'[r] = "idle" /\ job'[r] = NoJob
      /\ pc' \in [Callers -> PC] /\ job' \in [Callers -> Job]
      /\ joining' \in [Callers -> Tasks \cup {None}]
  BY <1>1, <1>2, NoJobFacts DEF IInv, TypeOK, PC
<1>4. pc[r] \in {"lock", "write", "retire"} \/ job[r].chain \in Chains
  <2>1. pc[r] \in PC
    BY <1>2 DEF IInv, TypeOK
  <2>2. QED
    BY <1>1, <1>2, Alone DEF Active
<1>5. TypeInv'
  BY <1>1, <1>3, <1>4 DEF IInv, TypeInv, TypeOK
<1>6. Excluded'
  <2>1. phase = "boot" => mutation' = Boot
    BY <1>1, <1>2 DEF IInv, Excluded
  <2>2. ASSUME NEW q \in Callers, pc'[q] \notin {"idle", "lock"}
        PROVE  mutation' = q /\ (pc'[q] \in {"join", "probe"} => control' = q)
    <3>1. q # r /\ pc'[q] = pc[q]
      BY <1>3, <2>2
    <3>2. QED
      BY <1>1, <2>2, <3>1 DEF IInv, Excluded, Active
  <2>3. QED
    BY <1>1, <2>1, <2>2 DEF Excluded, Active
<1>7. JobsValid'
  BY <1>1, <1>3, NoJobFacts DEF IInv, JobsValid, Active
<1>8. WorkersValid'
  BY <1>1, <1>3 DEF IInv, WorkersValid, Alive
<1>9. NoLostWorker'
  BY <1>1 DEF IInv, NoLostWorker, Alive
<1>10. Awaited'
  BY <1>2 DEF IInv, Awaited, Alive
<1>11. OneWorkerPerChain'
  BY <1>2 DEF IInv, OneWorkerPerChain, Alive
<1>12. RemovedHasNoTask'
  BY <1>2 DEF IInv, RemovedHasNoTask, Alive
<1>13. ShutdownIsFinal'
  BY <1>1 DEF IInv, ShutdownIsFinal, Alive
<1>14. ReconciledAgrees'
  <2>1. ASSUME NEW d \in Chains, Busy(d)
        PROVE  d \in unsettled' \/ Busy(d)'
    <3>1. PICK q \in Callers : job[q].chain = d /\ pc[q] \notin {"lock", "write", "retire"}
      BY <2>1 DEF Busy
    <3>2. CASE q = r
      BY <1>1, <3>1, <3>2
    <3>3. CASE q # r
      BY <1>3, <3>1, <3>3 DEF Busy
    <3>4. QED
      BY <3>2, <3>3
  <2>2. unsettled \subseteq unsettled'
    BY <1>1
  <2>3. QED
    BY <1>1, <2>1, ReconciledFrame DEF IInv
<1>15. QED
  BY <1>5, <1>6, <1>7, <1>8, <1>9, <1>10, <1>11, <1>12, <1>13, <1>14 DEF IInv, TypeInv

-----------------------------------------------------------------------------
(* Worker tasks.                                                           *)

LEMMA BeginCommitInv ==
    ASSUME IInv, NEW t \in Tasks, BeginCommit(t)
    PROVE  IInv'
<1>1. /\ tasks[t] # None
      /\ tasks' = [tasks EXCEPT ![t].committing = TRUE]
      /\ UNCHANGED <<registry, phase, control, closed, workers, status, todo, taken, bounds,
                     pc, job, joining, mutation, unsettled, disconnects>>
  BY DEF BeginCommit, Alive, callers, bounds
<1>2. /\ tasks' \in [Tasks -> {None} \cup TaskState]
      /\ \A x \in Tasks : x # t => tasks'[x] = tasks[x]
      /\ tasks'[t] # None /\ tasks'[t].url = tasks[t].url
      /\ tasks'[t].cancelled <=> tasks[t].cancelled
      /\ tasks'[t].chain = tasks[t].chain
  BY <1>1, CommitTask DEF IInv, TypeOK, Alive
<1>3. TypeInv'
  BY <1>1, <1>2 DEF IInv, TypeInv, TypeOK
<1>4. Excluded'
  BY <1>1 DEF IInv, Excluded, Active
<1>5. JobsValid'
  BY <1>1 DEF IInv, JobsValid, Active
<1>6. WorkersValid'
  BY <1>1, <1>2 DEF IInv, WorkersValid, Alive
<1>7. NoLostWorker'
  BY <1>1, <1>2 DEF IInv, NoLostWorker, Alive
<1>8. Awaited'
  BY <1>1 DEF IInv, Awaited, Alive
<1>9. OneWorkerPerChain'
  BY <1>1 DEF IInv, OneWorkerPerChain, Alive
<1>10. RemovedHasNoTask'
  BY <1>1 DEF IInv, RemovedHasNoTask, Alive
<1>11. ShutdownIsFinal'
  BY <1>1 DEF IInv, ShutdownIsFinal, Alive
<1>12. ReconciledAgrees'
  <2>1. \A d \in Chains : Agrees(d) => Agrees(d)'
    BY <1>1, <1>2 DEF Agrees, Runs, Alive
  <2>2. \A d \in Chains : Busy(d) => Busy(d)'
    BY <1>1 DEF Busy
  <2>3. QED
    BY <1>1, <2>1, <2>2 DEF IInv, ReconciledAgrees
<1>13. QED
  BY <1>3, <1>4, <1>5, <1>6, <1>7, <1>8, <1>9, <1>10, <1>11, <1>12 DEF IInv, TypeInv

LEMMA EndCommitInv ==
    ASSUME IInv, NEW t \in Tasks, EndCommit(t)
    PROVE  IInv'
<1>1. /\ tasks[t] # None
      /\ tasks' = [tasks EXCEPT ![t].committing = FALSE]
      /\ UNCHANGED <<registry, phase, control, closed, workers, status, todo, taken, bounds,
                     pc, job, joining, mutation, unsettled, disconnects>>
  BY DEF EndCommit, Alive, callers, bounds
<1>2. /\ tasks' \in [Tasks -> {None} \cup TaskState]
      /\ \A x \in Tasks : x # t => tasks'[x] = tasks[x]
      /\ tasks'[t] # None /\ tasks'[t].url = tasks[t].url
      /\ tasks'[t].cancelled <=> tasks[t].cancelled
      /\ tasks'[t].chain = tasks[t].chain
  BY <1>1, CommitTask DEF IInv, TypeOK, Alive
<1>3. TypeInv'
  BY <1>1, <1>2 DEF IInv, TypeInv, TypeOK
<1>4. Excluded'
  BY <1>1 DEF IInv, Excluded, Active
<1>5. JobsValid'
  BY <1>1 DEF IInv, JobsValid, Active
<1>6. WorkersValid'
  BY <1>1, <1>2 DEF IInv, WorkersValid, Alive
<1>7. NoLostWorker'
  BY <1>1, <1>2 DEF IInv, NoLostWorker, Alive
<1>8. Awaited'
  BY <1>1 DEF IInv, Awaited, Alive
<1>9. OneWorkerPerChain'
  BY <1>1 DEF IInv, OneWorkerPerChain, Alive
<1>10. RemovedHasNoTask'
  BY <1>1 DEF IInv, RemovedHasNoTask, Alive
<1>11. ShutdownIsFinal'
  BY <1>1 DEF IInv, ShutdownIsFinal, Alive
<1>12. ReconciledAgrees'
  <2>1. \A d \in Chains : Agrees(d) => Agrees(d)'
    BY <1>1, <1>2 DEF Agrees, Runs, Alive
  <2>2. \A d \in Chains : Busy(d) => Busy(d)'
    BY <1>1 DEF Busy
  <2>3. QED
    BY <1>1, <2>1, <2>2 DEF IInv, ReconciledAgrees
<1>13. QED
  BY <1>3, <1>4, <1>5, <1>6, <1>7, <1>8, <1>9, <1>10, <1>11, <1>12 DEF IInv, TypeInv

LEMMA EndPollInv ==
    ASSUME IInv, NEW t \in Tasks, NEW s \in {"running", "degraded"}, EndPoll(t, s)
    PROVE  IInv'
<1> DEFINE c0 == tasks[t].chain
<1>1. /\ tasks[t] # None /\ status[c0].owner = t
      /\ status' = [status EXCEPT ![c0].state = s]
      /\ UNCHANGED <<registry, phase, control, closed, workers, tasks, todo, taken, bounds,
                     pc, job, joining, mutation, unsettled, disconnects>>
  BY DEF EndPoll, Alive, callers, bounds
<1>2. PICK c \in Chains : c = c0
  BY <1>1 DEF IInv, TypeOK, TaskState
<1> HIDE DEF c0
<1>3. /\ status' \in [Chains -> [state : {"none", "disabled", "starting", "running", "degraded"},
                                 owner : Tasks \cup {None}]]
      /\ \A d \in Chains : d # c => status'[d] = status[d]
      /\ status'[c].owner = t /\ status[c].owner = t /\ t # None
  BY <1>1, <1>2 DEF IInv, TypeOK
<1>4. TypeInv'
  BY <1>1, <1>3 DEF IInv, TypeInv, TypeOK
<1>5. Excluded'
  BY <1>1 DEF IInv, Excluded, Active
<1>6. JobsValid'
  BY <1>1 DEF IInv, JobsValid, Active
<1>7. WorkersValid'
  BY <1>1, <1>3 DEF IInv, WorkersValid, Alive, NoStatus
<1>8. NoLostWorker'
  BY <1>1 DEF IInv, NoLostWorker, Alive
<1>9. Awaited'
  BY <1>1 DEF IInv, Awaited, Alive
<1>10. OneWorkerPerChain'
  BY <1>1 DEF IInv, OneWorkerPerChain, Alive
<1>11. RemovedHasNoTask'
  BY <1>1 DEF IInv, RemovedHasNoTask, Alive
<1>12. ShutdownIsFinal'
  BY <1>1 DEF IInv, ShutdownIsFinal, Alive
<1>13. ReconciledAgrees'
  <2>1. ASSUME NEW d \in Chains, Agrees(d) PROVE Agrees(d)'
    <3>1. CASE d # c
      BY <1>1, <1>3, <2>1, <3>1, AgreesElsewhere
    <3>2. CASE d = c
      <4>1. status[c] # NoStatus /\ status[c] # StatusOf("disabled") /\ status[c] # StatusOf("degraded")
        BY <1>3 DEF NoStatus, StatusOf
      <4>2. registry[c] # None /\ registry[c].enabled /\ Runs(c)
        BY <2>1, <3>2, <4>1 DEF Agrees
      <4>3. Runs(c)'
        BY <1>1, <4>2 DEF Runs, Alive
      <4>4. QED
        BY <1>1, <3>2, <4>2, <4>3 DEF Agrees
    <3>3. QED
      BY <3>1, <3>2
  <2>2. \A d \in Chains : Busy(d) => Busy(d)'
    BY <1>1 DEF Busy
  <2>3. QED
    BY <1>1, <2>1, <2>2 DEF IInv, ReconciledAgrees
<1>14. QED
  BY <1>4, <1>5, <1>6, <1>7, <1>8, <1>9, <1>10, <1>11, <1>12, <1>13 DEF IInv, TypeInv

LEMMA EndTaskInv ==
    ASSUME IInv, NEW t \in Tasks, EndTask(t)
    PROVE  IInv'
<1>1. /\ tasks[t] # None /\ tasks[t].cancelled
      /\ tasks' = [tasks EXCEPT ![t] = None]
      /\ UNCHANGED <<registry, phase, control, closed, workers, status, todo, taken, bounds,
                     pc, job, joining, mutation, unsettled, disconnects>>
  BY DEF EndTask, Alive, callers, bounds
<1>2. /\ tasks' \in [Tasks -> {None} \cup TaskState]
      /\ \A x \in Tasks : x # t => tasks'[x] = tasks[x]
      /\ tasks'[t] = None
  BY <1>1 DEF IInv, TypeOK
<1>3. \A c \in Chains : workers[c] # t
  BY <1>1 DEF IInv, WorkersValid
<1>4. TypeInv'
  BY <1>1 DEF IInv, TypeInv, TypeOK
<1>5. Excluded'
  BY <1>1 DEF IInv, Excluded, Active
<1>6. JobsValid'
  BY <1>1 DEF IInv, JobsValid, Active
<1>7. WorkersValid'
  BY <1>1 DEF IInv, WorkersValid, Alive
<1>8. NoLostWorker'
  BY <1>1 DEF IInv, NoLostWorker, Alive
<1>9. Awaited'
  BY <1>1 DEF IInv, Awaited, Alive
<1>10. OneWorkerPerChain'
  BY <1>1 DEF IInv, OneWorkerPerChain, Alive
<1>11. RemovedHasNoTask'
  BY <1>1 DEF IInv, RemovedHasNoTask, Alive
<1>12. ShutdownIsFinal'
  BY <1>1 DEF IInv, ShutdownIsFinal, Alive
<1>13. ReconciledAgrees'
  <2>1. \A d \in Chains : Agrees(d) => Agrees(d)'
    BY <1>1, <1>2 DEF Agrees, Runs, Alive
  <2>2. \A d \in Chains : Busy(d) => Busy(d)'
    BY <1>1 DEF Busy
  <2>3. QED
    BY <1>1, <2>1, <2>2 DEF IInv, ReconciledAgrees
<1>14. QED
  BY <1>4, <1>5, <1>6, <1>7, <1>8, <1>9, <1>10, <1>11, <1>12, <1>13 DEF IInv, TypeInv

-----------------------------------------------------------------------------
(* The process.                                                            *)

LEMMA ReconcileInv ==
    ASSUME IInv, NEW c \in Chains, Reconcile(c)
    PROVE  IInv'
<1> DEFINE j == [op |-> "boot", chain |-> c, url |-> registry[c].url, enabled |-> registry[c].enabled]
<1>1. /\ phase = "boot" /\ pc[Boot] = "idle" /\ c \in todo
      /\ todo' = todo \ {c}
      /\ job' = [job EXCEPT ![Boot] = j]
      /\ pc' = [pc EXCEPT ![Boot] = "apply"]
      /\ UNCHANGED <<registry, phase, runtime, joining, mutation, unsettled, taken, bounds>>
  BY DEF Reconcile, Idle
<1>2. /\ j \in Job /\ j.chain = c /\ j.op = "boot"
      /\ registry[c] # None /\ registry[c] = [url |-> j.url, enabled |-> j.enabled]
  <2>1. registry[c] # None
    BY <1>1 DEF IInv, ReconciledAgrees
  <2>2. registry[c] \in Record
    BY <2>1 DEF IInv, TypeOK
  <2>3. QED
    BY <2>1, <2>2 DEF Job, Record
<1> HIDE DEF j
<1>3. /\ \A q \in Callers : q # Boot => pc'[q] = pc[q] /\ job'[q] = job[q]
      /\ pc'[Boot] = "apply" /\ job'[Boot] = j /\ Boot \in Callers /\ mutation = Boot
  BY <1>1 DEF IInv, TypeOK, Excluded
<1>4. TypeInv'
  BY <1>1, <1>2, <1>3 DEF IInv, TypeInv, TypeOK, PC, bounds, runtime
<1>5. Excluded'
  BY <1>1 DEF IInv, Excluded, Active
<1>6. JobsValid'
  BY <1>1, <1>2, <1>3 DEF IInv, JobsValid, Active
<1>7. WorkersValid'
  BY <1>1 DEF IInv, WorkersValid, Alive, runtime
<1>8. NoLostWorker'
  BY <1>1 DEF IInv, NoLostWorker, Alive, runtime
<1>9. Awaited'
  BY <1>1 DEF IInv, Awaited, Alive, bounds, runtime
<1>10. OneWorkerPerChain'
  BY <1>1 DEF IInv, OneWorkerPerChain, Alive, bounds, runtime
<1>11. RemovedHasNoTask'
  BY <1>1 DEF IInv, RemovedHasNoTask, Alive, bounds, runtime
<1>12. ShutdownIsFinal'
  BY <1>1 DEF IInv, ShutdownIsFinal, Alive, runtime
<1>13. ReconciledAgrees'
  <2>1. \A d \in Chains : Busy(d) => Busy(d)'
    <3>1. SUFFICES ASSUME NEW d \in Chains, NEW q \in Callers, job[q].chain = d,
                          pc[q] \notin {"lock", "write", "retire"}
                   PROVE  Busy(d)'
      BY DEF Busy
    <3>2. q # Boot
      BY <1>1, <3>1, IdleJob
    <3>3. QED
      BY <1>3, <3>1, <3>2 DEF Busy
  <2>2. Busy(c)'
    BY <1>2, <1>3 DEF Busy
  <2>3. \A d \in Chains : Agrees(d) => Agrees(d)'
    BY <1>1, AgreesFrame DEF runtime
  <2>4. QED
    BY <1>1, <2>1, <2>2, <2>3 DEF IInv, ReconciledAgrees, runtime
<1>14. QED
  BY <1>4, <1>5, <1>6, <1>7, <1>8, <1>9, <1>10, <1>11, <1>12, <1>13 DEF IInv, TypeInv

LEMMA ServeInv ==
    ASSUME IInv, Serve
    PROVE  IInv'
<1>1. /\ phase = "boot" /\ pc[Boot] = "idle" /\ todo = {}
      /\ phase' = "serving" /\ mutation' = None
      /\ pc' = [pc EXCEPT ![Boot] = "lock"]
      /\ UNCHANGED <<registry, runtime, job, joining, unsettled, todo, taken, bounds>>
  BY DEF Serve, Idle
<1>2. /\ \A q \in Callers : pc[q] \in {"idle", "lock"}
      /\ Boot \in Callers /\ job[Boot] = NoJob
  BY <1>1, IdleJob DEF IInv, Excluded, Active, Callers
<1>3. /\ \A q \in Callers : q # Boot => pc'[q] = pc[q]
      /\ pc'[Boot] = "lock"
  BY <1>1, <1>2 DEF IInv, TypeOK
<1>4. TypeInv'
  BY <1>1, <1>3 DEF IInv, TypeInv, TypeOK, PC, bounds, runtime
<1>5. Excluded'
  BY <1>1 DEF IInv, Excluded, Active
<1>6. JobsValid'
  BY <1>1 DEF IInv, JobsValid, Active
<1>7. WorkersValid'
  BY <1>1 DEF IInv, WorkersValid, Alive, runtime
<1>8. NoLostWorker'
  BY <1>1 DEF IInv, NoLostWorker, Alive, runtime
<1>9. Awaited'
  BY <1>1 DEF IInv, Awaited, Alive, bounds, runtime
<1>10. OneWorkerPerChain'
  BY <1>1 DEF IInv, OneWorkerPerChain, Alive, bounds, runtime
<1>11. RemovedHasNoTask'
  BY <1>2, <1>3 DEF IInv, RemovedHasNoTask, Alive, Callers
<1>12. ShutdownIsFinal'
  BY <1>1 DEF IInv, ShutdownIsFinal, Alive, runtime
<1>13. ReconciledAgrees'
  <2>1. \A d \in Chains : Busy(d) => Busy(d)'
    BY <1>1, <1>2, NoJobFacts DEF Busy
  <2>2. \A d \in Chains : Agrees(d) => Agrees(d)'
    BY <1>1, AgreesFrame DEF runtime
  <2>3. QED
    BY <1>1, <2>1, <2>2 DEF IInv, ReconciledAgrees, runtime
<1>14. QED
  BY <1>4, <1>5, <1>6, <1>7, <1>8, <1>9, <1>10, <1>11, <1>12, <1>13 DEF IInv, TypeInv

LEMMA RunReconcilesInv ==
    ASSUME IInv, RunReconciles
    PROVE  IInv'
<1>1. /\ pc[Boot] = "lock" /\ mutation = None
      /\ pc' = [pc EXCEPT ![Boot] = "idle"]
      /\ UNCHANGED <<registry, phase, runtime, job, joining, mutation, unsettled, todo, taken, bounds>>
  BY DEF RunReconciles
<1>2. Boot \in Callers /\ job[Boot] = NoJob
  BY <1>1 DEF IInv, JobsValid, Callers
<1>3. /\ \A q \in Callers : q # Boot => pc'[q] = pc[q]
      /\ pc'[Boot] = "idle"
  BY <1>1, <1>2 DEF IInv, TypeOK
<1>4. TypeInv'
  BY <1>1, <1>3 DEF IInv, TypeInv, TypeOK, PC, bounds, runtime
<1>5. Excluded'
  BY <1>1 DEF IInv, Excluded, Active, runtime
<1>6. JobsValid'
  BY <1>1 DEF IInv, JobsValid, Active
<1>7. WorkersValid'
  BY <1>1 DEF IInv, WorkersValid, Alive, runtime
<1>8. NoLostWorker'
  BY <1>1 DEF IInv, NoLostWorker, Alive, runtime
<1>9. Awaited'
  BY <1>1 DEF IInv, Awaited, Alive, bounds, runtime
<1>10. OneWorkerPerChain'
  BY <1>1 DEF IInv, OneWorkerPerChain, Alive, bounds, runtime
<1>11. RemovedHasNoTask'
  BY <1>1 DEF IInv, RemovedHasNoTask, Alive, bounds, runtime
<1>12. ShutdownIsFinal'
  BY <1>1 DEF IInv, ShutdownIsFinal, Alive, bounds, runtime
<1>13. ReconciledAgrees'
  <2>1. \A d \in Chains : Busy(d) => Busy(d)'
    BY <1>1, NoJobFacts DEF Busy
  <2>2. QED
    BY <1>1, <2>1, ReconciledFrame DEF IInv, runtime
<1>14. QED
  BY <1>4, <1>5, <1>6, <1>7, <1>8, <1>9, <1>10, <1>11, <1>12, <1>13 DEF IInv, TypeInv

LEMMA SignalInv ==
    ASSUME IInv, Signal
    PROVE  IInv'
<1>1. /\ phase = "serving" /\ phase' = "stopping"
      /\ UNCHANGED <<registry, runtime, callers, todo, taken, bounds>>
  BY DEF Signal
<1>2. TypeInv'
  BY <1>1 DEF IInv, TypeInv, TypeOK, bounds, runtime, callers
<1>3. Excluded'
  BY <1>1 DEF IInv, Excluded, Active, runtime, callers
<1>4. JobsValid'
  BY <1>1 DEF IInv, JobsValid, Active, callers
<1>5. WorkersValid'
  BY <1>1 DEF IInv, WorkersValid, Alive, runtime, callers
<1>6. NoLostWorker'
  BY <1>1 DEF IInv, NoLostWorker, Alive, runtime
<1>7. Awaited'
  BY <1>1 DEF IInv, Awaited, Alive, bounds, runtime, callers
<1>8. OneWorkerPerChain'
  BY <1>1 DEF IInv, OneWorkerPerChain, Alive, bounds, runtime
<1>9. RemovedHasNoTask'
  BY <1>1 DEF IInv, RemovedHasNoTask, Alive, bounds, runtime, callers
<1>10. ShutdownIsFinal'
  BY <1>1 DEF IInv, ShutdownIsFinal, Alive, runtime
<1>11. ReconciledAgrees'
  <2>1. \A d \in Chains : Busy(d) => Busy(d)'
    BY <1>1 DEF Busy, callers
  <2>2. \A d \in Chains : Agrees(d) => Agrees(d)'
    BY <1>1, AgreesFrame DEF runtime
  <2>3. QED
    BY <1>1, <2>1, <2>2 DEF IInv, ReconciledAgrees, runtime, callers
<1>12. QED
  BY <1>2, <1>3, <1>4, <1>5, <1>6, <1>7, <1>8, <1>9, <1>10, <1>11 DEF IInv, TypeInv

LEMMA CloseControlInv ==
    ASSUME IInv, CloseControl
    PROVE  IInv'
<1>1. /\ phase = "stopping" /\ taken = None /\ control = None
      /\ closed' = TRUE
      /\ taken' = {workers[c] : c \in Chains} \ {None}
      /\ workers' = [c \in Chains |-> None]
      /\ tasks' = [t \in Tasks |-> IF t \in taken' THEN [tasks[t] EXCEPT !.cancelled = TRUE]
                                   ELSE tasks[t]]
      /\ UNCHANGED <<registry, phase, control, status, callers, todo, bounds>>
  BY DEF CloseControl
<1>2. /\ taken' \in SUBSET Tasks /\ taken' # None
      /\ \A t \in taken' : tasks[t] \in TaskState
      /\ \A c \in Chains : workers'[c] = None
      /\ workers' \in [Chains -> Tasks \cup {None}]
  <2>1. taken' \in SUBSET Tasks
    BY <1>1 DEF IInv, TypeOK
  <2>2. \A t \in taken' : tasks[t] # None
    BY <1>1 DEF IInv, WorkersValid, Alive
  <2>3. \A t \in taken' : tasks[t] \in TaskState
    BY <2>1, <2>2 DEF IInv, TypeOK
  <2>4. QED
    BY <1>1, <2>1, <2>3
<1>3. /\ tasks' \in [Tasks -> {None} \cup TaskState]
      /\ \A t \in Tasks : t \notin taken' => tasks'[t] = tasks[t]
      /\ \A t \in taken' : /\ tasks'[t] # None /\ tasks'[t].cancelled
                           /\ tasks'[t].chain = tasks[t].chain /\ tasks[t] # None
  <2>1. \A t \in taken' : LET k == [tasks[t] EXCEPT !.cancelled = TRUE]
                          IN  k \in TaskState /\ k.cancelled /\ k.chain = tasks[t].chain
    BY <1>2 DEF TaskState
  <2>2. None \notin TaskState
    BY DEF TaskState
  <2>3. \A t \in taken' : tasks'[t] \in TaskState /\ tasks'[t].cancelled /\ tasks'[t].chain = tasks[t].chain
    BY <1>1, <1>2, <2>1
  <2>4. \A t \in Tasks : t \notin taken' => tasks'[t] = tasks[t]
    BY <1>1
  <2>5. \A t \in Tasks : tasks'[t] \in {None} \cup TaskState
    BY <2>3, <2>4 DEF IInv, TypeOK
  <2>6. tasks' \in [Tasks -> {None} \cup TaskState]
    BY <1>1, <2>5
  <2>7. QED
    BY <1>2, <2>2, <2>3, <2>4, <2>6
<1>4. \A t \in Tasks : tasks'[t] # None => tasks'[t].cancelled
  <2>1. SUFFICES ASSUME NEW t \in Tasks, tasks'[t] # None, ~ tasks'[t].cancelled PROVE FALSE
    OBVIOUS
  <2>2. t \notin taken' /\ tasks'[t] = tasks[t]
    BY <1>3, <2>1
  <2>3. tasks[t].chain \in Chains
    BY <2>1, <2>2 DEF IInv, TypeOK, TaskState
  <2>4. workers[tasks[t].chain] = t
    BY <2>1, <2>2 DEF IInv, NoLostWorker, Alive
  <2>5. QED
    BY <1>1, <2>2, <2>3, <2>4
<1>5. /\ \A q \in Callers : pc[q] \notin {"join", "probe"}
      /\ UNCHANGED <<pc, job, joining, mutation, unsettled, disconnects>>
  BY <1>1 DEF IInv, Excluded, callers, bounds, Callers
<1>6. /\ phase = "stopping" /\ taken = None /\ closed' = TRUE
      /\ UNCHANGED <<registry, phase, control, status, todo>>
  BY <1>1
<1>7. TypeInv'
  BY <1>2, <1>3, <1>5, <1>6 DEF IInv, TypeInv, TypeOK
<1>8. Excluded'
  BY <1>5, <1>6 DEF IInv, Excluded, Active
<1>9. JobsValid'
  BY <1>5, <1>6 DEF IInv, JobsValid, Active
<1>10. WorkersValid'
  <2>1. \A q \in Callers : pc[q] = "remove" => job[q].chain \in Chains
    BY Alone DEF Active
  <2>2. QED
    BY <1>2, <1>5, <1>6, <2>1 DEF IInv, WorkersValid
<1>11. NoLostWorker'
  BY <1>4 DEF IInv, NoLostWorker, Alive
<1>12. Awaited'
  BY <1>2, <1>3, <1>5, <1>6 DEF IInv, Awaited, Alive
<1>13. OneWorkerPerChain'
  BY <1>3, <1>5 DEF IInv, OneWorkerPerChain, Alive
<1>14. RemovedHasNoTask'
  BY <1>6 DEF IInv, RemovedHasNoTask, Alive
<1>15. ShutdownIsFinal'
  BY <1>4, <1>6 DEF IInv, ShutdownIsFinal, Alive
<1>16. ReconciledAgrees'
  BY <1>6 DEF IInv, ReconciledAgrees, Agrees, Busy, Runs, Alive
<1>17. QED
  BY <1>7, <1>8, <1>9, <1>10, <1>11, <1>12, <1>13, <1>14, <1>15, <1>16 DEF IInv, TypeInv

LEMMA ExitInv ==
    ASSUME IInv, Exit
    PROVE  IInv'
<1>1. /\ phase = "stopping" /\ Drained /\ phase' = "off"
      /\ \A r \in Requests : pc[r] = "idle"
      /\ UNCHANGED <<registry, runtime, callers, todo, taken, bounds>>
  BY DEF Exit, Idle
<1>2. closed /\ \A q \in Callers : pc[q] # "join"
  BY <1>1 DEF IInv, WorkersValid, Drained
<1>3. disconnects = 0 => \A t \in Tasks : tasks[t] = None
  <2>1. SUFFICES ASSUME disconnects = 0, NEW t \in Tasks, Alive(t) PROVE FALSE
    BY DEF Alive
  <2>2. tasks[t].cancelled
    BY <1>2, <2>1 DEF IInv, ShutdownIsFinal
  <2>3. taken # None /\ t \in taken
    BY <1>2, <2>1, <2>2 DEF IInv, Awaited
  <2>4. QED
    BY <1>1, <2>1, <2>3 DEF Drained
<1>4. TypeInv'
  BY <1>1 DEF IInv, TypeInv, TypeOK, bounds, runtime, callers
<1>5. Excluded'
  BY <1>1 DEF IInv, Excluded, Active, runtime, callers
<1>6. JobsValid'
  BY <1>1 DEF IInv, JobsValid, Active, callers
<1>7. WorkersValid'
  BY <1>1, <1>2 DEF IInv, WorkersValid, Alive, runtime, callers
<1>8. NoLostWorker'
  BY <1>1 DEF IInv, NoLostWorker, Alive, runtime
<1>9. Awaited'
  BY <1>1, <1>3 DEF IInv, Awaited, Alive, bounds, runtime
<1>10. OneWorkerPerChain'
  BY <1>1 DEF IInv, OneWorkerPerChain, Alive, bounds, runtime
<1>11. RemovedHasNoTask'
  BY <1>1 DEF IInv, RemovedHasNoTask, Alive, callers
<1>12. ShutdownIsFinal'
  BY <1>1, <1>3 DEF IInv, ShutdownIsFinal, Alive, bounds, runtime
<1>13. ReconciledAgrees'
  BY <1>1, <1>2 DEF IInv, ReconciledAgrees, runtime
<1>14. QED
  BY <1>4, <1>5, <1>6, <1>7, <1>8, <1>9, <1>10, <1>11, <1>12, <1>13 DEF IInv, TypeInv

LEMMA RestartInv ==
    ASSUME IInv, Restart
    PROVE  IInv'
<1>1. /\ phase' = "boot"
      /\ mutation' = Boot /\ control' = None /\ closed' = FALSE
      /\ workers' = [c \in Chains |-> None]
      /\ tasks' = [t \in Tasks |-> None]
      /\ status' = [c \in Chains |-> NoStatus]
      /\ pc' = [p \in Callers |-> "idle"]
      /\ job' = [p \in Callers |-> NoJob]
      /\ joining' = [p \in Callers |-> None]
      /\ todo' = {c \in Chains : registry[c] # None}
      /\ taken' = None /\ unsettled' = {}
      /\ UNCHANGED <<registry, disconnects>>
  BY DEF Restart
<1>2. /\ \A c \in Chains : workers'[c] = None /\ status'[c] = NoStatus
      /\ \A t \in Tasks : tasks'[t] = None
      /\ \A p \in Callers : pc'[p] = "idle" /\ job'[p] = NoJob
  BY <1>1
<1>3. TypeInv'
  BY <1>1, NoJobFacts DEF IInv, TypeInv, TypeOK, PC, NoStatus, Callers
<1>4. Excluded'
  BY <1>1 DEF Excluded, Active
<1>5. JobsValid'
  BY <1>2, NoJobFacts DEF JobsValid, Active
<1>6. WorkersValid'
  BY <1>1, <1>2 DEF WorkersValid
<1>7. NoLostWorker'
  BY <1>1, <1>2 DEF IInv, NoLostWorker, Alive
<1>8. Awaited'
  BY <1>2 DEF IInv, Awaited, Alive
<1>9. OneWorkerPerChain'
  BY <1>2 DEF IInv, OneWorkerPerChain, Alive
<1>10. RemovedHasNoTask'
  BY <1>2 DEF IInv, RemovedHasNoTask, Alive
<1>11. ShutdownIsFinal'
  BY <1>2 DEF IInv, ShutdownIsFinal, Alive
<1>12. ReconciledAgrees'
  BY <1>1, <1>2 DEF ReconciledAgrees, Agrees
<1>13. QED
  BY <1>3, <1>4, <1>5, <1>6, <1>7, <1>8, <1>9, <1>10, <1>11, <1>12 DEF IInv, TypeInv

LEMMA InitInv == Init => IInv
<1> SUFFICES ASSUME Init PROVE IInv
  OBVIOUS
<1>1. /\ \A c \in Chains : workers[c] = None /\ status[c] = NoStatus
      /\ \A t \in Tasks : tasks[t] = None
      /\ \A p \in Callers : pc[p] = "idle" /\ job[p] = NoJob
      /\ phase = "boot" /\ mutation = Boot /\ taken = None
  BY DEF Init
<1>2. TypeInv
  BY NoJobFacts DEF Init, TypeInv, TypeOK, PC, NoStatus, Callers, Record
<1>3. Excluded
  BY <1>1 DEF Excluded, Active
<1>4. JobsValid
  BY <1>1, NoJobFacts DEF JobsValid, Active
<1>5. WorkersValid
  BY <1>1 DEF WorkersValid
<1>6. NoLostWorker /\ Awaited /\ OneWorkerPerChain /\ RemovedHasNoTask /\ ShutdownIsFinal
  BY <1>1 DEF NoLostWorker, Awaited, OneWorkerPerChain, RemovedHasNoTask, ShutdownIsFinal, Alive
<1>7. ReconciledAgrees
  BY <1>1 DEF Init, ReconciledAgrees, Agrees
<1>8. QED
  BY <1>2, <1>3, <1>4, <1>5, <1>6, <1>7 DEF IInv, TypeInv

LEMMA StutterInv ==
    ASSUME IInv, UNCHANGED vars
    PROVE  IInv'
<1>1. /\ UNCHANGED <<registry, phase, control, closed, workers, tasks, status, todo, taken>>
      /\ UNCHANGED <<pc, job, joining, mutation, unsettled, disconnects>>
  BY DEF vars, runtime, callers, bounds
<1>2. TypeInv'
  BY <1>1 DEF IInv, TypeInv, TypeOK
<1>3. Excluded'
  BY <1>1 DEF IInv, Excluded, Active
<1>4. JobsValid'
  BY <1>1 DEF IInv, JobsValid, Active
<1>5. WorkersValid'
  BY <1>1 DEF IInv, WorkersValid, Alive
<1>6. NoLostWorker'
  BY <1>1 DEF IInv, NoLostWorker, Alive
<1>7. Awaited'
  BY <1>1 DEF IInv, Awaited, Alive
<1>8. OneWorkerPerChain'
  BY <1>1 DEF IInv, OneWorkerPerChain, Alive
<1>9. RemovedHasNoTask'
  BY <1>1 DEF IInv, RemovedHasNoTask, Alive
<1>10. ShutdownIsFinal'
  BY <1>1 DEF IInv, ShutdownIsFinal, Alive
<1>11. ReconciledAgrees'
  <2>1. \A d \in Chains : Busy(d) => Busy(d)'
    BY <1>1 DEF Busy
  <2>2. QED
    BY <1>1, <2>1, ReconciledFrame DEF IInv
<1>12. QED
  BY <1>2, <1>3, <1>4, <1>5, <1>6, <1>7, <1>8, <1>9, <1>10, <1>11 DEF IInv, TypeInv

-----------------------------------------------------------------------------
(* The invariant and what it gives.                                        *)

LEMMA ApplyInv ==
    ASSUME IInv, NEW p \in Callers, Apply(p)
    PROVE  IInv'
<1>1. \/ ApplyClosed(p) \/ ApplyRunning(p) \/ StopWorker(p) \/ ApplyDisabled(p) \/ ApplyStart(p)
      \/ RestartWorker(p) \/ WorkerDisabled(p) \/ Retired(p)
      \/ (\E t \in Tasks : Spawn(p, t)) \/ ProbeFailed(p)
  BY DEF Apply
<1>2. QED
  BY <1>1, ApplyClosedInv, ApplyRunningInv, StopWorkerInv, ApplyDisabledInv, ApplyStartInv,
     RestartWorkerInv, WorkerDisabledInv, RetiredInv, SpawnInv, ProbeFailedInv

LEMMA NextInv ==
    ASSUME IInv, [Next]_vars
    PROVE  IInv'
<1>1. CASE \E r \in Requests : Client(r) \/ Handle(r)
  <2>1. PICK r \in Requests : Client(r) \/ Handle(r)
    BY <1>1
  <2>2. CASE Client(r)
    BY <2>2, BeginInv, DisconnectInv DEF Client
  <2>3. CASE Handle(r)
    <3>1. r \in Callers
      BY DEF Callers
    <3>2. QED
      BY <2>3, <3>1, LockMutationInv, WriteChainInv, WriteRefusedInv, WriteFailedInv,
         RemoveChainInv, RemoveFailedInv, ApplyInv DEF Handle
  <2>4. QED
    BY <2>1, <2>2, <2>3
<1>2. CASE \E t \in Tasks : Task(t)
  BY <1>2, BeginCommitInv, EndCommitInv, EndTaskInv, EndPollInv DEF Task
<1>3. CASE Reconciliation
  <2>1. Boot \in Callers
    BY DEF Callers
  <2>2. QED
    BY <1>3, <2>1, ReconcileInv, ApplyInv, ServeInv, RunReconcilesInv DEF Reconciliation
<1>4. CASE Signal \/ Stopping \/ Restart
  BY <1>4, SignalInv, CloseControlInv, ExitInv, RestartInv DEF Stopping
<1>5. CASE UNCHANGED vars
  BY <1>5, StutterInv
<1>6. QED
  BY <1>1, <1>2, <1>3, <1>4, <1>5 DEF Next

\* Whatever handlers, workers, dropped requests, failed writes, the shutdown and
\* restarts do between two awaits, the control plane stays in order.
THEOREM Invariance == Spec => []IInv
<1>1. Init => IInv
  BY InitInv
<1>2. IInv /\ [Next]_vars => IInv'
  BY NextInv
<1>3. QED
  BY <1>1, <1>2, PTL DEF Spec

\* Every variable keeps its type, and the mutexes are only held by callers.
THEOREM TypeCorrect == Spec => []TypeOK
<1>1. IInv => TypeOK
  BY DEF IInv
<1>2. QED
  BY <1>1, Invariance, PTL

\* No interleaving of updates, deletions, dropped handlers and restarts loses a
\* worker that nobody cancelled: ControlPlane.workers still has it.
THEOREM NoLostWorkerHolds == Spec => []NoLostWorker
<1>1. IInv => NoLostWorker
  BY DEF IInv
<1>2. QED
  BY <1>1, Invariance, PTL

\* stop_worker awaits the handle before start_worker spawns: two tasks never
\* index one chain, unless a handler was dropped while it waited.
THEOREM OneWorkerPerChainHolds == Spec => []OneWorkerPerChain
<1>1. IInv => OneWorkerPerChain
  BY DEF IInv
<1>2. QED
  BY <1>1, Invariance, PTL

\* retire returns only when the worker is gone, so that until the shutdown closes
\* the control plane no commit races delete_chain.
THEOREM DeleteWaitsForCommitHolds == Spec => []DeleteWaitsForCommit
<1>1. IInv => DeleteWaitsForCommit
  BY DEF IInv, RemovedHasNoTask, DeleteWaitsForCommit, NoCommitRacesDelete, Committing
<1>2. QED
  BY <1>1, Invariance, PTL

\* After shutdown closed the control plane every task is cancelled and none is
\* spawned, and the process leaves only when they all ended.
THEOREM ShutdownIsFinalHolds == Spec => []ShutdownIsFinal
<1>1. IInv => ShutdownIsFinal
  BY DEF IInv
<1>2. QED
  BY <1>1, Invariance, PTL

\* Between requests every chain runs as its registration says, whatever order the
\* requests were served in: apply never works from a stale registration.
THEOREM SettledAgreesHolds == Spec => []SettledAgrees
<1>1. ASSUME IInv, NEW c \in Chains, ~ closed, phase # "boot", c \notin unsettled, ~ Busy(c)
      PROVE  Agrees(c)
  BY <1>1 DEF IInv, ReconciledAgrees
<1>2. ASSUME IInv PROVE SettledAgrees
  BY <1>1, <1>2 DEF SettledAgrees, Agrees
<1>3. QED
  BY <1>2, Invariance, PTL

=============================================================================
