----------------------------- MODULE TaskStore -----------------------------
(***************************************************************************)
(* The matcher's durable task ledger (matcher/src/tasks/store.ts) and the  *)
(* loops that drive it: callers of runTask and createTaskIfMissing, the    *)
(* retry worker and the stale-task sweep.  Every await on the database is  *)
(* a step of its own, so the loops interleave between any two of them.     *)
(*                                                                         *)
(* Instants (nextRunAt, heartbeatAt, leaseExpiresAt, the `now' a worker    *)
(* pass captures) are kept relative to the present: 0 is now, a positive   *)
(* value is in the future.  Tick moves the present by one unit.  Instants  *)
(* older than Horizon stop ageing (due rows keep their order), so time is  *)
(* unbounded although the state space is finite.                           *)
(***************************************************************************)
EXTENDS Integers, FiniteSets

CONSTANTS
  Task,        \* rows of the tasks table, numbered in the order of createdAt
  Key, NoKey,  \* idempotency keys, and a call without one
  Type,        \* task types
  Handled,     \* the types the retry worker has a handler for
  Runner,      \* concurrent callers of runTask / createTaskIfMissing
  Worker,      \* retry workers, one per matcher process
  Recoverer,   \* stale-task sweeps, one per matcher process
  Process,     \* operating-system processes
  ProcessOf,   \* the process each actor lives in
  WorkerId,    \* leaseOwner string of each worker
  None,        \* SQL NULL
  MaxAttempts, LeaseSec, StaleSec, BaseDelay, MaxDelay, BatchSize,
  MaxFaults    \* bound of the model: crashes and database errors per behaviour

Executor == Runner \cup Worker
Actor == Executor \cup Recoverer
Owner == {WorkerId[w] : w \in Worker}
Status == {"ABSENT", "QUEUED", "RUNNING", "COMPLETED", "FAILED"}
PC == {"idle", "inserting", "created", "pass", "leasing", "run", "caught", "failing"}
Mode == {"run", "enqueue"}

ASSUME SizesAssumption ==
  /\ Task \subseteq Nat
  /\ MaxAttempts \in Nat \ {0}
  /\ LeaseSec \in Nat \ {0} /\ StaleSec \in Nat \ {0}
  /\ BaseDelay \in Nat /\ MaxDelay \in Nat
  /\ BatchSize \in Nat \ {0} /\ MaxFaults \in Nat
ASSUME NamesAssumption ==
  /\ None \notin Int /\ None \notin Owner /\ NoKey \notin Key
  /\ Runner \cap Worker = {} /\ Handled \subseteq Type
  /\ Recoverer \cap Executor = {}
  /\ ProcessOf \in [Actor -> Process]
(* workerId is `matcher-retry-<pid>': two live workers must not share one. *)
ASSUME DistinctWorkersAssumption ==
  \A w, x \in Worker : WorkerId[w] = WorkerId[x] => w = x

VARIABLES
  row,        \* the tasks table
  pc,         \* where each executor stands in runTask or runRetryOnce
  want,       \* the key, type and mode a runner was called with
  job,        \* the row an executor is working on
  seen,       \* attempts as failTask read them before its update
  batch,      \* rows a worker selected and has not reached yet
  passNow,    \* the `now' the worker's pass captured
  sweep,      \* stale rows a sweep selected, with the attempts it read
  faults,
  runs,       \* history: how often a task's function was entered
  disturbed   \* history: tasks swept while a live executor had them, leased between
              \* a runTask's insert and its startTask, or completed without their event

vars == <<row, pc, want, job, seen, batch, passNow, sweep, faults, runs, disturbed>>
locals == <<want, job, seen, batch, passNow, sweep>>

Horizon == LeaseSec + StaleSec
Instant == {None} \cup Int
NoRow == [status |-> "ABSENT", key |-> NoKey, type |-> None, attempts |-> 0,
          nextRunAt |-> None, heartbeatAt |-> None,
          leaseOwner |-> None, leaseExpiresAt |-> None]
NoWant == [key |-> NoKey, type |-> None, mode |-> "run"]

Init ==
  /\ row = [t \in Task |-> NoRow]
  /\ pc = [e \in Executor |-> "idle"]
  /\ want = [r \in Runner |-> NoWant]
  /\ job = [e \in Executor |-> None]
  /\ seen = [e \in Executor |-> 0]
  /\ batch = [w \in Worker |-> {}]
  /\ passNow = [w \in Worker |-> 0]
  /\ sweep = [c \in Recoverer |-> {}]
  /\ faults = 0
  /\ runs = [t \in Task |-> 0]
  /\ disturbed = {}

---------------------------------------------------------------------------
(* Time and the predicates on rows.                                        *)

Reached(instant, at) == instant # None /\ instant <= at

Age(instant) ==
  IF instant # None /\ instant > -Horizon THEN instant - 1 ELSE instant

AgeDue(instant) ==
  IF instant # None /\ \E u \in Task : row[u].nextRunAt = instant + 1
    THEN instant - 1 ELSE Age(instant)

Aged(r) ==
  [r EXCEPT !.nextRunAt = AgeDue(r.nextRunAt), !.heartbeatAt = Age(r.heartbeatAt),
            !.leaseExpiresAt = Age(r.leaseExpiresAt)]

Tick ==
  /\ row' = [t \in Task |-> Aged(row[t])]
  /\ passNow' = [w \in Worker |-> IF pc[w] = "idle" THEN 0 ELSE Age(passNow[w])]
  /\ UNCHANGED <<pc, want, job, seen, batch, sweep, faults, runs, disturbed>>

Exists(t) == row[t].status # "ABSENT"
KeyTaken(k) == k # NoKey /\ \E t \in Task : Exists(t) /\ row[t].key = k

(* retryDelayMs: 30s doubled per attempt, capped at 5 minutes.             *)
RetryDelay(attempts) ==
  LET n == IF attempts < 1 THEN 1 ELSE attempts
      d == BaseDelay * 2^(n - 1)
  IN  IF d \in 0 .. MaxDelay THEN d ELSE MaxDelay

(* failTask's nextRunAt.  Operators named ...Bug are the slips the         *)
(* properties below are tried against; nothing here uses them.             *)
RetryAtBug(attempts) == IF attempts + 1 < MaxAttempts THEN RetryDelay(attempts) ELSE None
RetryAt(attempts) == IF attempts < MaxAttempts THEN RetryDelay(attempts) ELSE None

RunnableBug(r, at) ==
  \/ r.status = "QUEUED"
  \/ r.status = "FAILED" /\ Reached(r.nextRunAt, at)
Runnable(r, at) ==
  /\ r.attempts < MaxAttempts
  /\ \/ r.status = "QUEUED"
     \/ r.status = "FAILED" /\ Reached(r.nextRunAt, at)

(* ORDER BY next_run_at, created_at; PostgreSQL puts NULLs last.           *)
Before(t, u) ==
  LET a == row[t].nextRunAt
      b == row[u].nextRunAt
  IN  \/ a = b /\ t < u
      \/ a # None /\ (b = None \/ a < b)

StaleBug(r) == r.status = "RUNNING" /\ Reached(r.leaseExpiresAt, 0)
Stale(r) ==
  /\ r.status = "RUNNING"
  /\ Reached(r.leaseExpiresAt, 0) \/ Reached(r.heartbeatAt, -StaleSec)

(* The updates the statements of the store make to a row.                  *)
Queued(k, ty) == [NoRow EXCEPT !.status = "QUEUED", !.key = k, !.type = ty]
Started(r) ==
  [r EXCEPT !.status = "RUNNING", !.heartbeatAt = 0, !.nextRunAt = None,
            !.attempts = r.attempts + 1]
Leased(r, owner, from) ==
  [r EXCEPT !.status = "RUNNING", !.leaseOwner = owner, !.heartbeatAt = from,
            !.leaseExpiresAt = from + LeaseSec, !.nextRunAt = None,
            !.attempts = r.attempts + 1]
Completed(r) ==
  [r EXCEPT !.status = "COMPLETED", !.heartbeatAt = 0,
            !.leaseOwner = None, !.leaseExpiresAt = None]
Failed(r, retryAt) ==
  [r EXCEPT !.status = "FAILED", !.heartbeatAt = 0, !.nextRunAt = retryAt,
            !.leaseOwner = None, !.leaseExpiresAt = None]

(* What an executor is about to do, or doing, to row t.                    *)
Starting(r, t) == pc[r] = "created" /\ job[r] = t
WonLeaseBug(w, t) ==
  pc[w] = "leasing" /\ job[w] = t /\ row[t].status = "RUNNING"
WonLease(w, t) ==
  /\ pc[w] = "leasing" /\ job[w] = t
  /\ row[t].status = "RUNNING" /\ row[t].leaseOwner = WorkerId[w]
Executing(e, t) == pc[e] \in {"run", "caught", "failing"} /\ job[e] = t
Busy(t) ==
  \/ \E e \in Executor : Executing(e, t)
  \/ \E w \in Worker : WonLease(w, t)

---------------------------------------------------------------------------
(* Callers: runTask and createTaskIfMissing.                               *)

(* taskByIdempotencyKey finds nothing; a hit replays or throws and changes *)
(* no state.                                                               *)
Lookup(r, k, ty, mode) ==
  /\ pc[r] = "idle"
  /\ ~KeyTaken(k)
  /\ pc' = [pc EXCEPT ![r] = "inserting"]
  /\ want' = [want EXCEPT ![r] = [key |-> k, type |-> ty, mode |-> mode]]
  /\ UNCHANGED <<row, job, seen, batch, passNow, sweep, faults, runs, disturbed>>

(* The unique index on idempotency_key.                                    *)
UniqueBug(k) == TRUE
Unique(k) == ~KeyTaken(k)

(* The unique index refuses the insert when the key appeared meanwhile.    *)
CreateTask(r, t) ==
  /\ pc[r] = "inserting"
  /\ ~Exists(t) /\ \A u \in Task : u < t => Exists(u)
  /\ IF ~Unique(want[r].key)
       THEN /\ pc' = [pc EXCEPT ![r] = "idle"]
            /\ UNCHANGED <<row, job>>
       ELSE /\ row' = [row EXCEPT ![t] = Queued(want[r].key, want[r].type)]
            /\ pc' = [pc EXCEPT ![r] = IF want[r].mode = "run" THEN "created" ELSE "idle"]
            /\ job' = [job EXCEPT ![r] = IF want[r].mode = "run" THEN t ELSE None]
  /\ want' = [want EXCEPT ![r] = NoWant]
  /\ UNCHANGED <<seen, batch, passNow, sweep, faults, runs, disturbed>>

StartTask(r) ==
  /\ pc[r] = "created"
  /\ row' = [row EXCEPT ![job[r]] = Started(row[job[r]])]
  /\ pc' = [pc EXCEPT ![r] = "run"]
  /\ runs' = [runs EXCEPT ![job[r]] = runs[job[r]] + 1]
  /\ UNCHANGED <<locals, faults, disturbed>>

---------------------------------------------------------------------------
(* Completion and failure, shared by runTask and runRetryOnce.  Neither    *)
(* update looks at the status or the lease of the row it overwrites.       *)

Return(e) == IF e \in Worker THEN "pass" ELSE "idle"

CompleteTask(e) ==
  /\ pc[e] = "run"
  /\ row' = [row EXCEPT ![job[e]] = Completed(row[job[e]])]
  /\ pc' = [pc EXCEPT ![e] = Return(e)]
  /\ job' = [job EXCEPT ![e] = None]
  /\ UNCHANGED <<want, seen, batch, passNow, sweep, faults, runs, disturbed>>

(* The update succeeds but the insert of its task event throws inside the  *)
(* same try: the completed task is about to be failed.                     *)
CompleteUnlogged(e) ==
  /\ pc[e] = "run"
  /\ faults < MaxFaults /\ faults' = faults + 1
  /\ row' = [row EXCEPT ![job[e]] = Completed(row[job[e]])]
  /\ pc' = [pc EXCEPT ![e] = "caught"]
  /\ disturbed' = disturbed \cup {job[e]}
  /\ UNCHANGED <<locals, runs>>

(* The function or completeTask throws and failTask reads the row ...      *)
FailRead(e) ==
  /\ pc[e] \in {"run", "caught"}
  /\ seen' = [seen EXCEPT ![e] = row[job[e]].attempts]
  /\ pc' = [pc EXCEPT ![e] = "failing"]
  /\ UNCHANGED <<row, want, job, batch, passNow, sweep, faults, runs, disturbed>>

(* ... and writes the outcome that reading calls for.                      *)
FailTask(e) ==
  /\ pc[e] = "failing"
  /\ row' = [row EXCEPT ![job[e]] = Failed(row[job[e]], RetryAt(seen[e]))]
  /\ pc' = [pc EXCEPT ![e] = Return(e)]
  /\ job' = [job EXCEPT ![e] = None]
  /\ seen' = [seen EXCEPT ![e] = 0]
  /\ UNCHANGED <<want, batch, passNow, sweep, faults, runs, disturbed>>

---------------------------------------------------------------------------
(* The retry worker.                                                       *)

(* handlers[row.type].                                                     *)
HasHandlerBug(t) == row[t].type \in Type
HasHandler(t) == row[t].type \in Handled

BeginPass(w) ==
  /\ pc[w] = "idle"
  /\ LET runnable == {t \in Task : Runnable(row[t], 0)} IN
       /\ runnable # {}
       /\ batch' = [batch EXCEPT ![w] =
            {t \in runnable : Cardinality({u \in runnable : Before(u, t)}) < BatchSize}]
  /\ pc' = [pc EXCEPT ![w] = "pass"]
  /\ passNow' = [passNow EXCEPT ![w] = 0]
  /\ UNCHANGED <<row, want, job, seen, sweep, faults, runs, disturbed>>

SkipUnhandled(w, t) ==
  /\ pc[w] = "pass" /\ t \in batch[w]
  /\ ~HasHandler(t)
  /\ batch' = [batch EXCEPT ![w] = batch[w] \ {t}]
  /\ UNCHANGED <<row, pc, want, job, seen, passNow, sweep, faults, runs, disturbed>>

(* leaseTaskForRetry's guarded update; heartbeat and lease are measured    *)
(* from the instant the pass began, however long ago that was.             *)
LeaseTask(w, t) ==
  /\ pc[w] = "pass" /\ t \in batch[w]
  /\ HasHandler(t)
  /\ IF Runnable(row[t], passNow[w])
       THEN /\ row' = [row EXCEPT ![t] = Leased(row[t], WorkerId[w], passNow[w])]
            /\ disturbed' = IF \E r \in Runner : Starting(r, t)
                              THEN disturbed \cup {t} ELSE disturbed
       ELSE UNCHANGED <<row, disturbed>>
  /\ batch' = [batch EXCEPT ![w] = batch[w] \ {t}]
  /\ job' = [job EXCEPT ![w] = t]
  /\ pc' = [pc EXCEPT ![w] = "leasing"]
  /\ UNCHANGED <<want, seen, passNow, sweep, faults, runs>>

(* The re-read that decides whether the lease was won.                     *)
CheckLease(w) ==
  /\ pc[w] = "leasing"
  /\ IF WonLease(w, job[w])
       THEN /\ pc' = [pc EXCEPT ![w] = "run"]
            /\ runs' = [runs EXCEPT ![job[w]] = runs[job[w]] + 1]
            /\ UNCHANGED job
       ELSE /\ pc' = [pc EXCEPT ![w] = "pass"]
            /\ job' = [job EXCEPT ![w] = None]
            /\ UNCHANGED runs
  /\ UNCHANGED <<row, want, seen, batch, passNow, sweep, faults, disturbed>>

EndPass(w) ==
  /\ pc[w] = "pass" /\ batch[w] = {}
  /\ pc' = [pc EXCEPT ![w] = "idle"]
  /\ passNow' = [passNow EXCEPT ![w] = 0]
  /\ UNCHANGED <<row, want, job, seen, batch, sweep, faults, runs, disturbed>>

---------------------------------------------------------------------------
(* The stale-task sweep: a select, then one update per selected row that   *)
(* checks only that the row is (still, or again) RUNNING.  The rows are    *)
(* taken in any order, and the `now' of the select, written as nextRunAt,  *)
(* counts as the present of the update.                                    *)

BeginSweep(c) ==
  /\ sweep[c] = {}
  /\ \E t \in Task : Stale(row[t])
  /\ sweep' = [sweep EXCEPT ![c] =
       {[task |-> t, attempts |-> row[t].attempts] : t \in {u \in Task : Stale(row[u])}}]
  /\ UNCHANGED <<row, pc, want, job, seen, batch, passNow, faults, runs, disturbed>>

StillRunningBug(t) == TRUE
StillRunning(t) == row[t].status = "RUNNING"

RecoverTask(c, s) ==
  /\ s \in sweep[c]
  /\ IF StillRunning(s.task)
       THEN /\ row' = [row EXCEPT ![s.task] =
                     Failed(row[s.task], IF s.attempts < MaxAttempts THEN 0 ELSE None)]
            /\ disturbed' = IF Busy(s.task) THEN disturbed \cup {s.task} ELSE disturbed
       ELSE UNCHANGED <<row, disturbed>>
  /\ sweep' = [sweep EXCEPT ![c] = sweep[c] \ {s}]
  /\ UNCHANGED <<pc, want, job, seen, batch, passNow, faults, runs>>

---------------------------------------------------------------------------
(* Loops are cut off in mid-step; what they wrote stays.                   *)
Lost(dead) ==
  /\ faults < MaxFaults /\ faults' = faults + 1
  /\ pc' = [e \in Executor |-> IF e \in dead THEN "idle" ELSE pc[e]]
  /\ want' = [r \in Runner |-> IF r \in dead THEN NoWant ELSE want[r]]
  /\ job' = [e \in Executor |-> IF e \in dead THEN None ELSE job[e]]
  /\ seen' = [e \in Executor |-> IF e \in dead THEN 0 ELSE seen[e]]
  /\ batch' = [w \in Worker |-> IF w \in dead THEN {} ELSE batch[w]]
  /\ passNow' = [w \in Worker |-> IF w \in dead THEN 0 ELSE passNow[w]]
  /\ sweep' = [c \in Recoverer |-> IF c \in dead THEN {} ELSE sweep[c]]
  /\ UNCHANGED <<row, runs, disturbed>>

(* A process dies and restarts its loops ...                               *)
Crash(p) == Lost({a \in Actor : ProcessOf[a] = p})

(* ... or a statement or the insert of a task event throws outside every   *)
(* try (all but completeTask's are): the call, the pass or the sweep ends. *)
(* At "run" it is the event of startTask or of the lease, the function has *)
(* not been entered yet.                                                   *)
DbError(a) ==
  /\ a \in Executor => pc[a] # "idle"
  /\ a \in Recoverer => sweep[a] # {}
  /\ Lost({a})

RunnerStep(r) ==
  \/ \E t \in Task : CreateTask(r, t)
  \/ StartTask(r)
ExecutorStep(e) == CompleteTask(e) \/ FailRead(e) \/ FailTask(e)
Fault ==
  \/ \E e \in Executor : CompleteUnlogged(e)
  \/ \E p \in Process : Crash(p)
  \/ \E a \in Actor : DbError(a)
WorkerStep(w) ==
  \/ BeginPass(w) \/ CheckLease(w) \/ EndPass(w)
  \/ \E t \in Task : SkipUnhandled(w, t) \/ LeaseTask(w, t)
SweepStep(c) == BeginSweep(c) \/ \E s \in sweep[c] : RecoverTask(c, s)

Next ==
  \/ Tick
  \/ \E r \in Runner, k \in Key \cup {NoKey}, ty \in Type, m \in Mode : Lookup(r, k, ty, m)
  \/ \E r \in Runner : RunnerStep(r)
  \/ \E e \in Executor : ExecutorStep(e)
  \/ \E w \in Worker : WorkerStep(w)
  \/ \E c \in Recoverer : SweepStep(c)
  \/ Fault

Spec == Init /\ [][Next]_vars

(* The loops are setInterval timers that fire again and again, time passes, *)
(* and a handler is assumed to return or throw; nothing forces a caller or  *)
(* a crash.                                                                 *)
Fairness ==
  /\ WF_vars(Tick)
  /\ \A r \in Runner : WF_vars(RunnerStep(r))
  /\ \A e \in Executor : WF_vars(ExecutorStep(e))
  /\ \A w \in Worker : WF_vars(WorkerStep(w))
  /\ \A c \in Recoverer : WF_vars(SweepStep(c))
FairSpec == Spec /\ Fairness

---------------------------------------------------------------------------
(* Properties.                                                             *)

RowType ==
  [status : Status, key : Key \cup {NoKey}, type : Type \cup {None}, attempts : Nat,
   nextRunAt : Instant, heartbeatAt : Instant,
   leaseOwner : Owner \cup {None}, leaseExpiresAt : Instant]

TypeOK ==
  /\ row \in [Task -> RowType]
  /\ pc \in [Executor -> PC]
  /\ want \in [Runner -> [key : Key \cup {NoKey}, type : Type \cup {None}, mode : Mode]]
  /\ job \in [Executor -> Task \cup {None}]
  /\ \A e \in Executor : pc[e] \in {"created", "leasing", "run", "caught", "failing"} => job[e] \in Task
  /\ seen \in [Executor -> Nat]
  /\ batch \in [Worker -> SUBSET Task]
  /\ passNow \in [Worker -> Int]
  /\ sweep \in [Recoverer -> SUBSET [task : Task, attempts : Nat]]
  /\ faults \in Nat
  /\ runs \in [Task -> Nat]
  /\ disturbed \in SUBSET Task

(* An idempotency key names at most one row, although the look-up and the  *)
(* insert of runTask and createTaskIfMissing are separate awaits; and a    *)
(* keyed task of a type no worker retries (an agent order) has its         *)
(* function entered at most once, whatever crashes and retries happen.     *)
KeyedOnce ==
  \A t \in Task : Exists(t) /\ row[t].key # NoKey =>
    /\ \A u \in Task : Exists(u) /\ row[u].key = row[t].key => u = t
    /\ row[t].type \notin Handled => runs[t] <= 1

(* Every entry of a task's function has consumed an attempt, and attempts  *)
(* stop at maxAttempts.  A row a worker leased before the runTask that     *)
(* inserted it called startTask can reach maxAttempts + 1; one more is let *)
(* pass for every disturbed task (one swept from a live executor, or       *)
(* completed without its event, as well).                                  *)
BoundedExecutions ==
  \A t \in Task :
    /\ runs[t] <= row[t].attempts
    /\ row[t].attempts <= MaxAttempts + (IF t \in disturbed THEN 1 ELSE 0)

(* No row is lost between the loops: a failed row with attempts left has   *)
(* an instant at which the worker sees it, although failTask and the sweep *)
(* decide that from an earlier read of the row, a running row has a        *)
(* heartbeat the sweep can find stale, and a queued row is unattempted.    *)
NoLimbo ==
  \A t \in Task :
    /\ row[t].status = "FAILED" /\ row[t].attempts < MaxAttempts => row[t].nextRunAt # None
    /\ row[t].status = "RUNNING" => row[t].heartbeatAt # None
    /\ row[t].status = "QUEUED" => row[t].attempts = 0

(* The state stays in its types, and two executors are in one task's       *)
(* function only if the sweep took the row from a live executor, a worker  *)
(* leased it under a starting runTask, or it was failed after its function *)
(* succeeded.                                                              *)
Exclusive ==
  /\ TypeOK
  /\ \A t \in Task \ disturbed, e, f \in Executor :
       Executing(e, t) /\ Executing(f, t) => e = f

(* With the same exceptions a completed task is never reopened.            *)
CompletedIsFinal ==
  [][\A t \in Task : row[t].status = "COMPLETED" /\ row'[t].status # "COMPLETED"
                       => t \in disturbed']_vars

(* Every row of a retried type ends completed or dead-lettered for good,   *)
(* from whichever step a crash left it in.                                 *)
Settled(t) ==
  \/ row[t].status = "COMPLETED"
  \/ row[t].status = "FAILED" /\ row[t].attempts >= MaxAttempts
EveryTaskSettles ==
  \A t \in Task : (Exists(t) /\ row[t].type \in Handled) ~> []Settled(t)

(* docs/RUNBOOK.md:19: failed and recovered tasks with attempts left are   *)
(* left to "the retry worker to pick them up".                             *)
AwaitingRetry(t) ==
  row[t].status = "FAILED" /\ row[t].attempts < MaxAttempts /\ row[t].type \in Handled
FailedIsPickedUp == \A t \in Task : AwaitingRetry(t) ~> ~AwaitingRetry(t)

---------------------------------------------------------------------------
(* The inductive strengthening of the invariants above.                    *)

Holding(e) == pc[e] \in {"created", "leasing", "run", "caught", "failing"}

(* Rows an actor refers to were inserted; an absent row is blank.          *)
HeldRowsExist ==
  /\ \A e \in Executor : Holding(e) => Exists(job[e])
  /\ \A w \in Worker : \A t \in batch[w] : Exists(t)
  /\ \A c \in Recoverer : \A s \in sweep[c] : Exists(s.task)
  /\ \A t \in Task : ~Exists(t) => row[t] = NoRow /\ runs[t] = 0

(* What failTask and the sweep read earlier is no more than what is there. *)
ReadsLag ==
  /\ \A e \in Executor : pc[e] = "failing" => seen[e] <= row[job[e]].attempts
  /\ \A c \in Recoverer : \A s \in sweep[c] : s.attempts <= row[s.task].attempts

(* A lease belongs to a running row, never to a worker that has yet to     *)
(* reach the row; two callers never hold one row; workers hold handled ones*)
Ownership ==
  /\ \A t \in Task : row[t].leaseOwner # None => row[t].status = "RUNNING"
  /\ \A w \in Worker : \A t \in batch[w] : row[t].leaseOwner # WorkerId[w]
  /\ \A r, q \in Runner : Holding(r) /\ Holding(q) /\ job[r] = job[q] => r = q
  /\ \A e \in Runner : pc[e] \in {"idle", "inserting", "created", "run", "caught", "failing"}
  /\ \A w \in Worker : pc[w] \in {"idle", "pass", "leasing", "run", "caught", "failing"}
  /\ \A w \in Worker : Holding(w) => row[job[w]].type \in Handled

(* An insert that startTask has not followed up leaves the row below the   *)
(* cap, still queued unless a worker took it, and never run if no worker   *)
(* can take it.                                                            *)
StartsPending ==
  \A r \in Runner, t \in Task : Starting(r, t) =>
    /\ row[t].attempts <= MaxAttempts
    /\ t \notin disturbed => row[t].status = "QUEUED"
    /\ row[t].type \notin Handled => runs[t] = 0

(* A won lease is an attempt whose function entry is still to come.        *)
Accounted ==
  \A t \in Task :
    (\E w \in Worker : WonLease(w, t)) => runs[t] < row[t].attempts

SoleExecutor ==
  \A t \in Task \ disturbed, e \in Executor : Executing(e, t) =>
    /\ row[t].status = "RUNNING"
    /\ \A f \in Executor : Executing(f, t) => f = e
    /\ \A w \in Worker : ~WonLease(w, t)

OncePerKey ==
  /\ \A t, u \in Task : Exists(t) /\ Exists(u) /\ row[t].key = row[u].key
                          /\ row[t].key # NoKey => t = u
  /\ \A t \in Task : Exists(t) /\ row[t].type \notin Handled => runs[t] <= 1

IInv ==
  /\ TypeOK /\ HeldRowsExist /\ ReadsLag /\ NoLimbo /\ Ownership
  /\ StartsPending /\ Accounted /\ BoundedExecutions /\ SoleExecutor /\ OncePerKey
=============================================================================
