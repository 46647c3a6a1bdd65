----------------------------- MODULE Supervisor -----------------------------
(***************************************************************************)
(* The chain supervisor (parseon-core/src/supervisor.rs), the chain service *)
(* that drives it (services.rs), and the process around both (main.rs).     *)
(*                                                                          *)
(* Every await of a handler is a step: waiting for the mutation mutex, the  *)
(* storage write, waiting for the control mutex, joining a worker that was  *)
(* cancelled, probing an endpoint.  Between two steps other handlers, the   *)
(* workers and the shutdown run.  A worker task is reduced to what the      *)
(* control plane can tell: whether it is cancelled, inside a commit, or     *)
(* gone (IndexWorker is the worker itself).  Requests refused before they   *)
(* take a lock (unknown chain, failed validation) change nothing and are    *)
(* left out.                                                                *)
(***************************************************************************)
EXTENDS Naturals, FiniteSets

CONSTANTS
    Chains,          \* chain ids
    Urls,            \* RPC endpoints
    Requests,        \* concurrent HTTP requests to the chain service
    Tasks,           \* identities of spawned worker tasks
    WritePermits,    \* SupervisorConfig.storage_write_concurrency
    MaxFaults,       \* bound on failed or unanswered storage writes
    MaxDisconnects,  \* bound on handlers dropped because the client went away
    MaxRestarts,     \* bound on process restarts
    None,            \* absence: no record, no worker, nobody
    Boot             \* the startup reconciliation, a caller of apply

ASSUME SupervisorAssumption ==
    /\ WritePermits \in Nat \ {0}
    /\ MaxFaults \in Nat /\ MaxDisconnects \in Nat /\ MaxRestarts \in Nat
    /\ Boot \notin Requests
    /\ None \notin Requests \cup {Boot} \cup Tasks \cup Urls \cup Chains \cup BOOLEAN
    /\ None \notin [url : Urls, enabled : BOOLEAN]
    /\ None \notin [chain : Chains, url : Urls, cancelled : BOOLEAN, committing : BOOLEAN]
    /\ \A S \in SUBSET Tasks : None # S

VARIABLES
    registry,   \* the chains table: a record [url, enabled], or None
    phase,      \* the process: "boot", "serving", "stopping" (signalled), "off"
    mutation,   \* holder of the mutations mutex
    control,    \* holder of the control mutex
    closed,     \* ControlPlane.closed
    workers,    \* ControlPlane.workers: the task of a chain, or None
    tasks,      \* the spawned tasks that have not ended
    status,     \* RuntimeStatus: a state and the task that updates it
    pc,         \* where each caller is
    job,        \* what each caller works on
    joining,    \* the task whose JoinHandle a caller awaits
    todo,       \* chains of the startup snapshot not yet applied
    taken,      \* tasks the shutdown awaits; None before it took them
    unsettled,  \* chains whose last mutation was cut short
    faults, disconnects, restarts

Callers == Requests \cup {Boot}

runtime == <<control, closed, workers, tasks, status>>
callers == <<pc, job, joining, mutation, unsettled>>
bounds == <<faults, disconnects, restarts>>
vars == <<registry, phase, runtime, callers, todo, taken, bounds>>

NoStatus == [state |-> "none", owner |-> None]
StatusOf(s) == [state |-> s, owner |-> None]
NoJob == [op |-> "none", chain |-> None, url |-> None, enabled |-> None]

Alive(t) == tasks[t] # None
Handles == {workers[c] : c \in Chains} \cup {joining[p] : p \in Callers}
           \cup (IF taken = None THEN {} ELSE taken)
Idle(p) == pc[p] = "idle"

-----------------------------------------------------------------------------
(* How a caller leaves: its guards are dropped with its future.            *)

Released(p) ==
    /\ pc' = [pc EXCEPT ![p] = "idle"]
    /\ job' = [job EXCEPT ![p] = NoJob]
    /\ joining' = [joining EXCEPT ![p] = None]
    /\ mutation' = IF p = Boot THEN mutation ELSE None

Moved(p, at) ==
    /\ pc' = [pc EXCEPT ![p] = at]
    /\ UNCHANGED <<job, joining, mutation, unsettled>>

-----------------------------------------------------------------------------
(* Requests.                                                               *)

\* ChainService::create, update, delete up to the mutation guard: the request
\* was validated against an endpoint (or needs no validation).
Begin(r, op, c, u, en) ==
    /\ phase = "serving" /\ Idle(r)
    /\ op = "create" => u # None /\ en # None
    /\ op = "update" => registry[c] # None /\ ~ (u = None /\ en = None)
    /\ op = "delete" => u = None /\ en = None
    /\ pc' = [pc EXCEPT ![r] = "lock"]
    /\ job' = [job EXCEPT ![r] = [op |-> op, chain |-> c, url |-> u, enabled |-> en]]
    /\ UNCHANGED <<registry, phase, runtime, joining, mutation, unsettled, todo, taken, bounds>>

\* Mutant: the guard is not waited for.
LockMutationAtOnce(r) ==
    /\ pc[r] = "lock"
    /\ mutation' = r
    /\ pc' = [pc EXCEPT ![r] = IF job[r].op = "delete" THEN "retire" ELSE "write"]
    /\ UNCHANGED <<registry, phase, runtime, job, joining, unsettled, todo, taken, bounds>>

LockMutation(r) ==
    /\ pc[r] = "lock"
    /\ mutation = None
    /\ mutation' = r
    /\ pc' = [pc EXCEPT ![r] = IF job[r].op = "delete" THEN "retire" ELSE "write"]
    /\ UNCHANGED <<registry, phase, runtime, job, joining, unsettled, todo, taken, bounds>>

\* create_chain (a second row of the same chain is refused) and update_chain
\* (what is not given stays as it is).
Writable(j) == IF j.op = "create" THEN registry[j.chain] = None
               ELSE registry[j.chain] # None

\* Mutant: the columns that are not given are overwritten too.
WrittenWhole(j) == [url |-> j.url, enabled |-> j.enabled]

Written(j) == [url     |-> IF j.url = None THEN registry[j.chain].url ELSE j.url,
               enabled |-> IF j.enabled = None THEN registry[j.chain].enabled ELSE j.enabled]

WriteChain(r) ==
    /\ pc[r] = "write"
    /\ Writable(job[r])
    /\ registry' = [registry EXCEPT ![job[r].chain] = Written(job[r])]
    /\ job' = [job EXCEPT ![r].url = Written(job[r]).url, ![r].enabled = Written(job[r]).enabled]
    /\ pc' = [pc EXCEPT ![r] = "apply"]
    /\ UNCHANGED <<phase, runtime, joining, mutation, unsettled, todo, taken, bounds>>

WriteRefused(r) ==
    /\ pc[r] = "write"
    /\ ~ Writable(job[r])
    /\ Released(r)
    /\ UNCHANGED <<registry, phase, runtime, unsettled, todo, taken, bounds>>

Fault ==
    /\ faults < MaxFaults
    /\ faults' = faults + 1
    /\ UNCHANGED <<disconnects, restarts>>

\* The write fails, or it is durable and only its answer is lost: nothing is
\* applied to the workers.
WriteFailed(r) ==
    /\ pc[r] = "write"
    /\ Fault
    /\ \/ UNCHANGED <<registry, unsettled>>
       \/ /\ Writable(job[r])
          /\ registry' = [registry EXCEPT ![job[r].chain] = Written(job[r])]
          /\ unsettled' = unsettled \cup {job[r].chain}
    /\ Released(r)
    /\ UNCHANGED <<phase, runtime, todo, taken>>

-----------------------------------------------------------------------------
(* apply and retire.  The control mutex is kept across the awaits inside.  *)

Settled(p) ==
    /\ Released(p)
    /\ unsettled' = unsettled \ {job[p].chain}

ApplyClosed(p) ==
    /\ pc[p] = "apply" /\ control = None
    /\ closed
    /\ Settled(p)
    /\ UNCHANGED <<registry, phase, runtime, todo, taken, bounds>>

\* An enabled chain whose worker runs on the right endpoint already, or whose
\* source takes the new endpoint in place.
ApplyRunning(p) ==
    /\ pc[p] = "apply" /\ control = None
    /\ ~ closed
    /\ LET t == workers[job[p].chain] IN
         /\ job[p].enabled
         /\ t # None
         /\ tasks' = [tasks EXCEPT ![t].url = job[p].url]
    /\ Settled(p)
    /\ UNCHANGED <<registry, phase, control, closed, workers, status, todo, taken, bounds>>

\* Mutant: the worker leaves the map, and nobody cancels it.
StopWorkerUncancelled(p) ==
    /\ pc[p] \in {"apply", "retire"} /\ control = None
    /\ LET j == job[p]
           t == workers[j.chain]
       IN  /\ t # None
           /\ pc[p] = "apply" => ~ closed /\ (j.enabled => tasks[t].url # j.url)
           /\ workers' = [workers EXCEPT ![j.chain] = None]
           /\ joining' = [joining EXCEPT ![p] = t]
    /\ control' = p
    /\ pc' = [pc EXCEPT ![p] = "join"]
    /\ UNCHANGED <<registry, phase, closed, tasks, status, job, mutation, unsettled, todo, taken, bounds>>

\* The worker leaves the map, its token is cancelled and its handle awaited:
\* the chain is disabled or deleted, or its source cannot rotate.
StopWorker(p) ==
    /\ pc[p] \in {"apply", "retire"} /\ control = None
    /\ LET j == job[p]
           t == workers[j.chain]
       IN  /\ t # None
           /\ pc[p] = "apply" => ~ closed /\ (j.enabled => tasks[t].url # j.url)
           /\ workers' = [workers EXCEPT ![j.chain] = None]
           /\ tasks' = [tasks EXCEPT ![t].cancelled = TRUE]
           /\ joining' = [joining EXCEPT ![p] = t]
    /\ control' = p
    /\ pc' = [pc EXCEPT ![p] = "join"]
    /\ UNCHANGED <<registry, phase, closed, status, job, mutation, unsettled, todo, taken, bounds>>

\* A disabled chain without a worker.
ApplyDisabled(p) ==
    /\ pc[p] = "apply" /\ control = None
    /\ ~ closed
    /\ ~ job[p].enabled /\ workers[job[p].chain] = None
    /\ status' = [status EXCEPT ![job[p].chain] = StatusOf("disabled")]
    /\ Settled(p)
    /\ UNCHANGED <<registry, phase, control, closed, workers, tasks, todo, taken, bounds>>

\* An enabled chain without a worker.
ApplyStart(p) ==
    /\ pc[p] = "apply" /\ control = None
    /\ ~ closed
    /\ job[p].enabled /\ workers[job[p].chain] = None
    /\ control' = p
    /\ Moved(p, "probe")
    /\ UNCHANGED <<registry, phase, closed, workers, tasks, status, todo, taken, bounds>>

\* Mutant: the handle is not awaited.
JoinedAtOnce(p) == pc[p] = "join"

Joined(p) == pc[p] = "join" /\ ~ Alive(joining[p])

\* Joined, and the source could not rotate: start again.
RestartWorker(p) ==
    /\ Joined(p)
    /\ job[p].op # "delete" /\ job[p].enabled
    /\ pc' = [pc EXCEPT ![p] = "probe"]
    /\ joining' = [joining EXCEPT ![p] = None]
    /\ UNCHANGED <<registry, phase, runtime, job, mutation, unsettled, todo, taken, bounds>>

WorkerDisabled(p) ==
    /\ Joined(p)
    /\ job[p].op # "delete" /\ ~ job[p].enabled
    /\ status' = [status EXCEPT ![job[p].chain] = StatusOf("disabled")]
    /\ control' = None
    /\ Settled(p)
    /\ UNCHANGED <<registry, phase, closed, workers, tasks, todo, taken, bounds>>

\* retire: the status goes away, the storage is next.
Retired(p) ==
    /\ \/ Joined(p) /\ job[p].op = "delete"
       \/ pc[p] = "retire" /\ control = None /\ workers[job[p].chain] = None
    /\ status' = [status EXCEPT ![job[p].chain] = NoStatus]
    /\ control' = None
    /\ pc' = [pc EXCEPT ![p] = "remove"]
    /\ joining' = [joining EXCEPT ![p] = None]
    /\ UNCHANGED <<registry, phase, closed, workers, tasks, job, mutation, unsettled, todo, taken, bounds>>

RemoveChain(r) ==
    /\ pc[r] = "remove"
    /\ registry' = [registry EXCEPT ![job[r].chain] = None]
    /\ Settled(r)
    /\ UNCHANGED <<phase, runtime, todo, taken, bounds>>

RemoveFailed(r) ==
    /\ pc[r] = "remove"
    /\ Fault
    /\ registry' \in {registry, [registry EXCEPT ![job[r].chain] = None]}
    /\ unsettled' = unsettled \cup {job[r].chain}
    /\ Released(r)
    /\ UNCHANGED <<phase, runtime, todo, taken>>

\* start_worker: the endpoint answers with the right chain, the task is spawned.
Spawn(p, t) ==
    /\ pc[p] = "probe"
    /\ ~ Alive(t) /\ t \notin Handles
    /\ LET c == job[p].chain IN
         /\ tasks' = [tasks EXCEPT ![t] = [chain |-> c, url |-> job[p].url,
                                           cancelled |-> FALSE, committing |-> FALSE]]
         /\ workers' = [workers EXCEPT ![c] = t]
         /\ status' = [status EXCEPT ![c] = [state |-> "starting", owner |-> t]]
    /\ control' = None
    /\ Settled(p)
    /\ UNCHANGED <<registry, phase, closed, todo, taken, bounds>>

\* The endpoint is invalid, does not answer, or serves another chain.
ProbeFailed(p) ==
    /\ pc[p] = "probe"
    /\ status' = [status EXCEPT ![job[p].chain] = StatusOf("degraded")]
    /\ control' = None
    /\ Settled(p)
    /\ UNCHANGED <<registry, phase, closed, workers, tasks, todo, taken, bounds>>

\* External: the HTTP server drops the handler of a client that went away.  Its
\* guards are released; a worker it was joining is left to itself.
Disconnect(r) ==
    /\ ~ Idle(r)
    /\ disconnects < MaxDisconnects
    /\ disconnects' = disconnects + 1
    /\ pc' = [pc EXCEPT ![r] = "idle"]
    /\ job' = [job EXCEPT ![r] = NoJob]
    /\ joining' = [joining EXCEPT ![r] = None]
    /\ mutation' = IF mutation = r THEN None ELSE mutation
    /\ control' = IF control = r THEN None ELSE control
    /\ unsettled' = IF pc[r] \in {"lock", "write", "retire"} THEN unsettled
                    ELSE unsettled \cup {job[r].chain}
    /\ UNCHANGED <<registry, phase, closed, workers, tasks, status, todo, taken, faults, restarts>>

-----------------------------------------------------------------------------
(* Worker tasks.                                                           *)

Committing == {t \in Tasks : Alive(t) /\ tasks[t].committing}

BeginCommit(t) ==
    /\ Alive(t)
    /\ ~ tasks[t].cancelled /\ ~ tasks[t].committing
    /\ Cardinality(Committing) < WritePermits
    /\ tasks' = [tasks EXCEPT ![t].committing = TRUE]
    /\ UNCHANGED <<registry, phase, control, closed, workers, status, callers, todo, taken, bounds>>

EndCommit(t) ==
    /\ Alive(t)
    /\ tasks[t].committing
    /\ tasks' = [tasks EXCEPT ![t].committing = FALSE]
    /\ UNCHANGED <<registry, phase, control, closed, workers, status, callers, todo, taken, bounds>>

\* record_success, record_error: seen only through the status that is listed.
EndPoll(t, s) ==
    /\ Alive(t)
    /\ ~ tasks[t].committing
    /\ status[tasks[t].chain].owner = t
    /\ status' = [status EXCEPT ![tasks[t].chain].state = s]
    /\ UNCHANGED <<registry, phase, control, closed, workers, tasks, callers, todo, taken, bounds>>

EndTask(t) ==
    /\ Alive(t)
    /\ tasks[t].cancelled /\ ~ tasks[t].committing
    /\ tasks' = [tasks EXCEPT ![t] = None]
    /\ UNCHANGED <<registry, phase, control, closed, workers, status, callers, todo, taken, bounds>>

-----------------------------------------------------------------------------
(* The process: reconciliation, service, shutdown, restart.                *)

\* reconcile applies the next chain of the snapshot; the API is not up yet.
Reconcile(c) ==
    /\ phase = "boot" /\ Idle(Boot)
    /\ c \in todo
    /\ todo' = todo \ {c}
    /\ job' = [job EXCEPT ![Boot] = [op |-> "boot", chain |-> c, url |-> registry[c].url,
                                     enabled |-> registry[c].enabled]]
    /\ pc' = [pc EXCEPT ![Boot] = "apply"]
    /\ UNCHANGED <<registry, phase, runtime, joining, mutation, unsettled, taken, bounds>>

Serve ==
    /\ phase = "boot" /\ Idle(Boot)
    /\ todo = {}
    /\ phase' = "serving"
    /\ mutation' = None
    /\ pc' = [pc EXCEPT ![Boot] = "lock"]
    /\ UNCHANGED <<registry, runtime, job, joining, unsettled, todo, taken, bounds>>

\* run reconciles once more, with no chains left: it takes its turn at the
\* mutation mutex, behind the requests, before it looks for the shutdown.
RunReconciles ==
    /\ pc[Boot] = "lock"
    /\ mutation = None
    /\ pc' = [pc EXCEPT ![Boot] = "idle"]
    /\ UNCHANGED <<registry, phase, runtime, job, joining, mutation, unsettled, todo, taken, bounds>>

Signal ==
    /\ phase = "serving"
    /\ phase' = "stopping"
    /\ UNCHANGED <<registry, runtime, callers, todo, taken, bounds>>

\* Mutant: the workers are taken and the control plane stays open.
CloseControlOpen ==
    /\ phase = "stopping" /\ taken = None
    /\ Idle(Boot) /\ control = None
    /\ taken' = {workers[c] : c \in Chains} \ {None}
    /\ workers' = [c \in Chains |-> None]
    /\ tasks' = [t \in Tasks |-> IF t \in taken' THEN [tasks[t] EXCEPT !.cancelled = TRUE]
                                 ELSE tasks[t]]
    /\ UNCHANGED <<registry, phase, control, closed, status, callers, todo, bounds>>

\* Mutant: the workers are awaited and never cancelled.
CloseControlUncancelled ==
    /\ phase = "stopping" /\ taken = None
    /\ Idle(Boot) /\ control = None
    /\ closed' = TRUE
    /\ taken' = {workers[c] : c \in Chains} \ {None}
    /\ workers' = [c \in Chains |-> None]
    /\ UNCHANGED <<registry, phase, control, tasks, status, callers, todo, bounds>>

\* shutdown: close the control plane and take every worker, then cancel them.
\* No await lies between, and only the tasks see their tokens: one step.
CloseControl ==
    /\ phase = "stopping" /\ taken = None
    /\ Idle(Boot) /\ control = None
    /\ closed' = TRUE
    /\ taken' = {workers[c] : c \in Chains} \ {None}
    /\ workers' = [c \in Chains |-> None]
    /\ tasks' = [t \in Tasks |-> IF t \in taken' THEN [tasks[t] EXCEPT !.cancelled = TRUE]
                                 ELSE tasks[t]]
    /\ UNCHANGED <<registry, phase, control, status, callers, todo, bounds>>

\* Every task is joined and every request is answered.
Drained == taken # None /\ \A t \in taken : ~ Alive(t)

Exit ==
    /\ phase = "stopping"
    /\ Drained
    /\ \A r \in Requests : Idle(r)
    /\ phase' = "off"
    /\ UNCHANGED <<registry, runtime, callers, todo, taken, bounds>>

\* The process is started again, after it exited or died: only the chains table
\* is left, and list_registered_chains reads it.
Restart ==
    /\ restarts < MaxRestarts
    /\ restarts' = restarts + 1
    /\ phase' = "boot"
    /\ mutation' = Boot /\ control' = None /\ closed' = FALSE
    /\ workers' = [c \in Chains |-> None]
    /\ tasks' = [t \in Tasks |-> None]
    /\ status' = [c \in Chains |-> NoStatus]
    /\ pc' = [p \in Callers |-> "idle"]
    /\ job' = [p \in Callers |-> NoJob]
    /\ joining' = [p \in Callers |-> None]
    /\ todo' = {c \in Chains : registry[c] # None}
    /\ taken' = None
    /\ unsettled' = {}
    /\ UNCHANGED <<registry, faults, disconnects>>

-----------------------------------------------------------------------------
Init ==
    /\ registry \in [Chains -> {None} \cup [url : Urls, enabled : BOOLEAN]]
    /\ phase = "boot"
    /\ mutation = Boot /\ control = None /\ closed = FALSE
    /\ workers = [c \in Chains |-> None]
    /\ tasks = [t \in Tasks |-> None]
    /\ status = [c \in Chains |-> NoStatus]
    /\ pc = [p \in Callers |-> "idle"]
    /\ job = [p \in Callers |-> NoJob]
    /\ joining = [p \in Callers |-> None]
    /\ todo = {c \in Chains : registry[c] # None}
    /\ taken = None
    /\ unsettled = {}
    /\ faults = 0 /\ disconnects = 0 /\ restarts = 0

\* A caller inside apply or retire.
Apply(p) ==
    \/ ApplyClosed(p) \/ ApplyRunning(p) \/ StopWorker(p) \/ ApplyDisabled(p) \/ ApplyStart(p)
    \/ RestartWorker(p) \/ WorkerDisabled(p) \/ Retired(p)
    \/ (\E t \in Tasks : Spawn(p, t)) \/ ProbeFailed(p)

Handle(r) ==
    \/ LockMutation(r) \/ WriteChain(r) \/ WriteRefused(r) \/ WriteFailed(r)
    \/ RemoveChain(r) \/ RemoveFailed(r) \/ Apply(r)

Client(r) ==
    \/ \E c \in Chains, en \in BOOLEAN \cup {None}, u \in Urls \cup {None} :
          \E op \in {"create", "update", "delete"} : Begin(r, op, c, u, en)
    \/ Disconnect(r)

Reconciliation == (\E c \in Chains : Reconcile(c)) \/ Apply(Boot) \/ Serve \/ RunReconciles

Stopping == CloseControl \/ Exit

Task(t) == BeginCommit(t) \/ EndCommit(t) \/ EndTask(t) \/ \E s \in {"running", "degraded"} : EndPoll(t, s)

Next ==
    \/ \E r \in Requests : Client(r) \/ Handle(r)
    \/ \E t \in Tasks : Task(t)
    \/ Reconciliation \/ Signal \/ Stopping \/ Restart

Spec == Init /\ [][Next]_vars

(* The runtime polls every handler and task; tokio's mutexes are fair, the  *)
(* storage and the probed endpoint answer, a commit ends, and a cancelled   *)
(* worker stops (CancelStops of IndexWorker).                               *)
Fairness ==
    /\ \A r \in Requests : SF_vars(Handle(r))
    /\ \A t \in Tasks : WF_vars(EndCommit(t)) /\ WF_vars(EndTask(t))
    /\ SF_vars(Reconciliation) /\ WF_vars(Stopping)

FairSpec == Spec /\ Fairness

-----------------------------------------------------------------------------
(* Correctness.                                                            *)

Record == [url : Urls, enabled : BOOLEAN]
TaskState == [chain : Chains, url : Urls, cancelled : BOOLEAN, committing : BOOLEAN]
PC == {"idle", "lock", "write", "apply", "retire", "join", "probe", "remove"}

\* Every variable has its type; a mutex is held by a caller that is inside it.
TypeOK ==
    /\ registry \in [Chains -> {None} \cup Record]
    /\ phase \in {"boot", "serving", "stopping", "off"}
    /\ mutation \in Callers \cup {None} /\ control \in Callers \cup {None}
    /\ closed \in BOOLEAN
    /\ workers \in [Chains -> Tasks \cup {None}]
    /\ tasks \in [Tasks -> {None} \cup TaskState]
    /\ status \in [Chains -> [state : {"none", "disabled", "starting", "running", "degraded"},
                              owner : Tasks \cup {None}]]
    /\ pc \in [Callers -> PC]
    /\ joining \in [Callers -> Tasks \cup {None}]
    /\ todo \subseteq Chains /\ unsettled \subseteq Chains
    /\ taken \in {None} \cup SUBSET Tasks

\* "One isolated worker per chain" (main.rs): two tasks never index the same
\* chain at once, not even while one is being stopped, as long as no handler
\* was dropped in the middle of stop_worker.
OneWorkerPerChain ==
    disconnects = 0 =>
       \A t, u \in Tasks :
          Alive(t) /\ Alive(u) /\ tasks[t].chain = tasks[u].chain => t = u

\* Whatever is dropped or fails, a worker that nobody asked to stop is in the
\* map, under its chain: it can still be reconfigured, retired and shut down.
NoLostWorker ==
    \A t \in Tasks : Alive(t) /\ ~ tasks[t].cancelled => workers[tasks[t].chain] = t

\* A chain that no request is working on, and whose last mutation ran to its
\* end, runs as the registry says and is listed as it runs: a stale
\* registration never overwrites a newer one.
Busy(c) == \E p \in Callers : job[p].chain = c /\ pc[p] \notin {"lock", "write", "retire"}

Runs(c) ==
    \E t \in Tasks : /\ workers[c] = t /\ Alive(t) /\ ~ tasks[t].cancelled
                     /\ tasks[t].chain = c /\ tasks[t].url = registry[c].url
                     /\ status[c].owner = t

SettledAgrees ==
    \A c \in Chains :
       (~ closed /\ phase # "boot" /\ c \notin unsettled /\ ~ Busy(c)) =>
          CASE registry[c] = None -> workers[c] = None /\ status[c] = NoStatus
            [] registry[c] # None /\ ~ registry[c].enabled ->
                 workers[c] = None /\ status[c] = StatusOf("disabled")
            [] OTHER -> Runs(c) \/ (workers[c] = None /\ status[c] = StatusOf("degraded"))

\* supervisor.rs: "Chain deletion calls this before removing persisted data so
\* no commit can race the delete."
NoCommitRacesDelete ==
    disconnects = 0 =>
       \A r \in Requests : pc[r] = "remove" =>
          \A t \in Committing : tasks[t].chain # job[r].chain

\* While the control plane is open the promise above holds.
DeleteWaitsForCommit == ~ closed => NoCommitRacesDelete

\* supervisor.rs: "Registrations applied after closure cannot spawn replacement
\* tasks", and the process leaves only when every worker has stopped.
ShutdownIsFinal ==
    /\ closed => \A t \in Tasks : Alive(t) => tasks[t].cancelled
    /\ phase = "off" /\ disconnects = 0 => \A t \in Tasks : ~ Alive(t)

-----------------------------------------------------------------------------
(* The inductive invariant.                                                *)

Job == [op : {"none", "boot", "create", "update", "delete"}, chain : Chains \cup {None},
        url : Urls \cup {None}, enabled : BOOLEAN \cup {None}]

\* A caller past the mutation guard.
Active(p) == pc[p] \notin {"idle", "lock"}

\* The mutexes exclude: who is past one holds it, and startup holds the first.
Excluded ==
    /\ phase = "boot" => mutation = Boot
    /\ \A p \in Callers :
          /\ Active(p) => mutation = p
          /\ pc[p] \in {"join", "probe"} => control = p

\* What a caller works on, and that the registry still says so where it applies it.
JobsValid ==
    \A p \in Callers :
       /\ pc[p] = "idle" => job[p] = NoJob
       /\ pc[p] = "lock" => IF p = Boot THEN job[p] = NoJob ELSE job[p].chain \in Chains
       /\ Active(p) => job[p].chain \in Chains
       /\ job[p].op = "create" => job[p].url # None /\ job[p].enabled # None
       /\ pc[p] \in {"write", "apply", "probe"} => job[p].op # "delete"
       /\ pc[p] \in {"retire", "remove"} => job[p].op = "delete"
       /\ pc[p] = "write" \/ job[p].op = "delete" => p # Boot
       /\ pc[p] \in {"apply", "join", "probe"} /\ job[p].op # "delete" =>
             /\ registry[job[p].chain] # None
             /\ registry[job[p].chain] = [url |-> job[p].url, enabled |-> job[p].enabled]
       /\ pc[p] = "probe" => job[p].enabled

\* The map holds exactly the tasks that were not cancelled, each under its chain and
\* listed as its owner; none once the control plane is closed.
WorkersValid ==
    /\ \A c \in Chains : workers[c] # None =>
          /\ ~ closed
          /\ Alive(workers[c]) /\ ~ tasks[workers[c]].cancelled
          /\ tasks[workers[c]].chain = c
          /\ status[c].owner = workers[c]
    /\ \A p \in Callers : pc[p] \in {"join", "probe"} =>
          ~ closed /\ workers[job[p].chain] = None
    /\ \A p \in Callers : pc[p] = "remove" =>
          workers[job[p].chain] = None /\ status[job[p].chain] = NoStatus
    /\ taken # None => closed
    /\ phase = "off" => closed

\* A cancelled task is awaited, by the caller that stopped it or by the shutdown,
\* unless a handler was dropped.
Awaited ==
    disconnects = 0 =>
       \A t \in Tasks : Alive(t) /\ tasks[t].cancelled =>
          \/ taken # None /\ t \in taken
          \/ \E p \in Callers : pc[p] = "join" /\ joining[p] = t

\* A chain that is being removed has no task at all.
RemovedHasNoTask ==
    ~ closed /\ disconnects = 0 =>
       \A r \in Requests : pc[r] = "remove" =>
          \A t \in Tasks : Alive(t) => tasks[t].chain # job[r].chain

\* As SettledAgrees, during startup too, for the chains that were reconciled.
Agrees(c) ==
    /\ registry[c] = None => workers[c] = None /\ status[c] = NoStatus
    /\ registry[c] # None /\ ~ registry[c].enabled =>
          workers[c] = None /\ status[c] = StatusOf("disabled")
    /\ registry[c] # None /\ registry[c].enabled =>
          Runs(c) \/ (workers[c] = None /\ status[c] = StatusOf("degraded"))

ReconciledAgrees ==
    /\ phase # "boot" => todo = {}
    /\ \A c \in todo : registry[c] # None
    /\ \A c \in Chains :
          ~ closed /\ c \notin todo /\ c \notin unsettled /\ ~ Busy(c) => Agrees(c)

\* What keeps the control plane in order between any two awaits: the mutexes
\* exclude, a caller's job is what the registry says, the map is the set of live
\* workers, and everything cancelled is awaited.
IInv ==
    /\ TypeOK /\ job \in [Callers -> Job] /\ disconnects \in Nat
    /\ Excluded /\ JobsValid
    /\ WorkersValid /\ NoLostWorker
    /\ Awaited /\ OneWorkerPerChain /\ RemovedHasNoTask
    /\ ShutdownIsFinal
    /\ ReconciledAgrees

-----------------------------------------------------------------------------
(* Liveness.                                                               *)

\* The two mutexes, the joins and the probes never wait for each other in a
\* circle: every request is answered (or its client left, or the process died).
RequestsFinish == \A r \in Requests : pc[r] # "idle" ~> pc[r] = "idle"

\* A signalled process exits, whatever requests and workers were doing.
ShutdownCompletes == phase = "stopping" ~> phase # "stopping"
=============================================================================
