--------------------------- MODULE AgentApi_proofs ---------------------------
(***************************************************************************)
(* Theorems about the task ledger, for every number of rows, callers,      *)
(* workers, sweeps and processes: its types, then the safety properties.   *)
(* IInv is inductive, one lemma per action, and implies what the runs      *)
(* check.  Then the agent routes over it, for any number of requests,      *)
(* tokens, tasks and processes: they are callers of the ledger like any    *)
(* other, and a token admits what was bought.                              *)
(***************************************************************************)
EXTENDS AgentApi, FiniteSums

USE DEF Executor, Actor, HasHandler

(* A column of time is NULL or a number of seconds from now.               *)
LEMMA Instants == None \in Instant /\ \A n \in Int : n \in Instant
  BY DEF Instant

(* retryDelayMs yields a time.                                             *)
LEMMA DelayType == ASSUME NEW n \in Nat PROVE RetryAt(n) \in Instant
  BY SizesAssumption DEF RetryDelay, RetryAt, Instant

(* The passing of time, capped at the horizon, yields a time.              *)
LEMMA AgeType == ASSUME NEW i \in Instant PROVE Age(i) \in Instant /\ AgeDue(i) \in Instant
  BY SizesAssumption, NamesAssumption DEF Age, AgeDue, Instant

(* Writing one column keeps a row well typed; the updates of the store are *)
(* chains of such writes.                                                  *)
LEMMA ColumnTypes ==
  \A r \in RowType :
    /\ \A x \in Status : [r EXCEPT !.status = x] \in RowType
    /\ \A x \in Nat : [r EXCEPT !.attempts = x] \in RowType
    /\ \A x \in Instant : [r EXCEPT !.nextRunAt = x] \in RowType
    /\ \A x \in Instant : [r EXCEPT !.heartbeatAt = x] \in RowType
    /\ \A x \in Owner \cup {None} : [r EXCEPT !.leaseOwner = x] \in RowType
    /\ \A x \in Instant : [r EXCEPT !.leaseExpiresAt = x] \in RowType
  BY DEF RowType

(* The updates of startTask, completeTask, failTask, leaseTaskForRetry and *)
(* of the passing of time keep a row well typed.                           *)
LEMMA UpdateTypes ==
  ASSUME NEW r \in RowType
  PROVE  /\ Started(r) \in RowType
         /\ Completed(r) \in RowType
         /\ Aged(r) \in RowType
         /\ \A at \in Instant : Failed(r, at) \in RowType
         /\ \A o \in Owner, n \in Int : Leased(r, o, n) \in RowType
<1>1. /\ r.attempts + 1 \in Nat
      /\ "RUNNING" \in Status /\ "COMPLETED" \in Status /\ "FAILED" \in Status
      /\ 0 \in Instant /\ None \in Instant /\ None \in Owner \cup {None}
  BY Instants DEF RowType, Status
<1>2. Started(r) \in RowType
  BY <1>1, ColumnTypes DEF Started
<1>3. Completed(r) \in RowType
  BY <1>1, ColumnTypes DEF Completed
<1>4. Aged(r) \in RowType
  <2>1. /\ AgeDue(r.nextRunAt) \in Instant
        /\ Age(r.heartbeatAt) \in Instant /\ Age(r.leaseExpiresAt) \in Instant
    BY AgeType DEF RowType
  <2>2. QED BY <2>1, ColumnTypes DEF Aged
<1>5. ASSUME NEW at \in Instant PROVE Failed(r, at) \in RowType
  BY <1>1, ColumnTypes DEF Failed
<1>6. ASSUME NEW o \in Owner, NEW n \in Int PROVE Leased(r, o, n) \in RowType
  <2>1. n \in Instant /\ n + LeaseSec \in Instant
    BY SizesAssumption, Instants
  <2>2. QED BY <1>1, <2>1, ColumnTypes DEF Leased
<1>7. QED BY <1>2, <1>3, <1>4, <1>5, <1>6

(* The row createTask inserts is well typed.                               *)
LEMMA QueuedType ==
  ASSUME NEW k \in Key \cup {NoKey}, NEW ty \in Type \cup {None}
  PROVE  Queued(k, ty) \in RowType
  BY Instants DEF Queued, NoRow, RowType, Status

(* A worker's id is a lease owner.                                         *)
LEMMA OwnerType == \A w \in Worker : WorkerId[w] \in Owner
  BY DEF Owner

(* The initial state is well typed, and every step keeps it so.            *)
LEMMA TypeInit == Init => TypeOK
<1>1. NoRow \in RowType
  BY Instants DEF NoRow, RowType, Status
<1>2. SUFFICES ASSUME Init PROVE TypeOK
  OBVIOUS
<1>3. row \in [Task -> RowType]
  BY <1>1, <1>2 DEF Init
<1>4. QED BY <1>2, <1>3 DEF Init, TypeOK, NoWant, PC, Mode

(* Every call of the store and every step of its loops keeps the types.    *)
LEMMA TypeStep == TypeOK /\ [Next]_vars => TypeOK'
<1> SUFFICES ASSUME TypeOK, [Next]_vars PROVE TypeOK'
  OBVIOUS
<1>1. CASE Tick
  <2>1. row' \in [Task -> RowType]
    BY <1>1, UpdateTypes DEF Tick, TypeOK
  <2>2. passNow' \in [Worker -> Int]
    <3>1. ASSUME NEW w \in Worker PROVE Age(passNow[w]) \in Int
      BY SizesAssumption, NamesAssumption DEF TypeOK, Age, Horizon
    <3>2. QED BY <1>1, <3>1 DEF Tick, TypeOK
  <2>3. QED BY <1>1, <2>1, <2>2 DEF Tick, TypeOK
<1>2. ASSUME NEW r \in Runner, NEW k \in Key \cup {NoKey}, NEW ty \in Type, NEW m \in Mode,
             Lookup(r, k, ty, m)
      PROVE  TypeOK'
  BY <1>2 DEF Lookup, TypeOK, PC
<1>3. ASSUME NEW r \in Runner, NEW t \in Task, CreateTask(r, t)
      PROVE  TypeOK'
  <2>1. row' \in [Task -> RowType]
    <3>1. want[r].key \in Key \cup {NoKey} /\ want[r].type \in Type \cup {None}
      BY DEF TypeOK
    <3>2. Queued(want[r].key, want[r].type) \in RowType
      BY <3>1, QueuedType
    <3>3. QED BY <1>3, <3>2 DEF CreateTask, TypeOK
  <2>2. pc' \in [Executor -> PC] /\ job' \in [Executor -> Task \cup {None}]
    BY <1>3 DEF CreateTask, TypeOK, PC
  <2>3. \A e \in Executor : pc'[e] \in {"created", "leasing", "run", "failing"} => job'[e] \in Task
    BY <1>3 DEF CreateTask, TypeOK
  <2>4. want' \in [Runner -> [key : Key \cup {NoKey}, type : Type \cup {None}, mode : Mode]]
    BY <1>3 DEF CreateTask, TypeOK, NoWant, Mode
  <2>5. QED BY <1>3, <2>1, <2>2, <2>3, <2>4 DEF CreateTask, TypeOK
<1>4. ASSUME NEW r \in Runner, StartTask(r)
      PROVE  TypeOK'
  <2>1. job[r] \in Task
    BY <1>4 DEF StartTask, TypeOK
  <2>2. row' \in [Task -> RowType]
    BY <1>4, <2>1, UpdateTypes DEF StartTask, TypeOK
  <2>3. QED BY <1>4, <2>1, <2>2 DEF StartTask, TypeOK, PC, locals
<1>5. ASSUME NEW e \in Executor, CompleteTask(e)
      PROVE  TypeOK'
  <2>1. job[e] \in Task
    BY <1>5 DEF CompleteTask, TypeOK
  <2>2. row' \in [Task -> RowType]
    BY <1>5, <2>1, UpdateTypes DEF CompleteTask, TypeOK
  <2>3. QED BY <1>5, <2>2 DEF CompleteTask, TypeOK, PC, Return
<1>6. ASSUME NEW e \in Executor, FailRead(e)
      PROVE  TypeOK'
  <2>1. row[job[e]].attempts \in Nat
    BY <1>6 DEF FailRead, TypeOK, RowType
  <2>2. QED BY <1>6, <2>1 DEF FailRead, TypeOK, PC
<1>7. ASSUME NEW e \in Executor, FailTask(e)
      PROVE  TypeOK'
  <2>1. job[e] \in Task /\ RetryAt(seen[e]) \in Instant
    BY <1>7, DelayType DEF FailTask, TypeOK
  <2>2. row' \in [Task -> RowType]
    BY <1>7, <2>1, UpdateTypes DEF FailTask, TypeOK
  <2>3. QED BY <1>7, <2>2 DEF FailTask, TypeOK, PC, Return
<1>8. ASSUME NEW w \in Worker, BeginPass(w)
      PROVE  TypeOK'
  BY <1>8 DEF BeginPass, TypeOK, PC
<1>9. ASSUME NEW w \in Worker, CheckLease(w)
      PROVE  TypeOK'
  <2>1. job[w] \in Task
    BY <1>9 DEF CheckLease, TypeOK
  <2>2. CASE WonLease(w, job[w])
    BY <1>9, <2>1, <2>2 DEF CheckLease, TypeOK, PC
  <2>3. CASE ~WonLease(w, job[w])
    BY <1>9, <2>3 DEF CheckLease, TypeOK, PC
  <2>4. QED BY <2>2, <2>3
<1>10. ASSUME NEW w \in Worker, EndPass(w)
       PROVE  TypeOK'
  BY <1>10 DEF EndPass, TypeOK, PC
<1>11. ASSUME NEW w \in Worker, NEW t \in Task, SkipUnhandled(w, t)
       PROVE  TypeOK'
  BY <1>11 DEF SkipUnhandled, TypeOK
<1>12. ASSUME NEW w \in Worker, NEW t \in Task, LeaseTask(w, t)
       PROVE  TypeOK'
  <2>1. Leased(row[t], WorkerId[w], passNow[w]) \in RowType
    BY UpdateTypes, OwnerType DEF TypeOK
  <2>2. row' \in [Task -> RowType]
    BY <1>12, <2>1 DEF LeaseTask, TypeOK
  <2>3. QED BY <1>12, <2>2 DEF LeaseTask, TypeOK, PC
<1>13. ASSUME NEW c \in Recoverer, BeginSweep(c)
       PROVE  TypeOK'
  BY <1>13 DEF BeginSweep, TypeOK, RowType
<1>14. ASSUME NEW c \in Recoverer, NEW s \in sweep[c], RecoverTask(c, s)
       PROVE  TypeOK'
  <2>1. s \in [task : Task, attempts : Nat]
    BY <1>14 DEF TypeOK
  <2>2. row' \in [Task -> RowType]
    <3>1. row[s.task] \in RowType /\ 0 \in Instant /\ None \in Instant
      BY <2>1, Instants DEF TypeOK
    <3>2. Failed(row[s.task], 0) \in RowType /\ Failed(row[s.task], None) \in RowType
      BY <3>1, UpdateTypes
    <3>3. QED BY <1>14, <2>1, <3>2 DEF RecoverTask, TypeOK
  <2>3. QED BY <1>14, <2>1, <2>2 DEF RecoverTask, TypeOK
<1>15. CASE Fault
  <2>1. ASSUME NEW e \in Executor, CompleteUnlogged(e) PROVE TypeOK'
    <3>1. job[e] \in Task
      BY <2>1 DEF CompleteUnlogged, TypeOK
    <3>2. row' \in [Task -> RowType]
      BY <2>1, <3>1, UpdateTypes DEF CompleteUnlogged, TypeOK
    <3>3. QED BY <2>1, <3>1, <3>2 DEF CompleteUnlogged, TypeOK, PC, locals
  <2>2. ASSUME NEW dead, Lost(dead) PROVE TypeOK'
    BY <2>2, SizesAssumption DEF Lost, TypeOK, PC, NoWant, Mode
  <2>3. QED BY <1>15, <2>1, <2>2 DEF Fault, Crash, DbError
<1>16. CASE UNCHANGED vars
  BY <1>16 DEF vars, TypeOK
<1>17. QED
  BY <1>1, <1>2, <1>3, <1>4, <1>5, <1>6, <1>7, <1>8, <1>9, <1>10, <1>11, <1>12,
     <1>13, <1>14, <1>15, <1>16
  DEF Next, RunnerStep, ExecutorStep, WorkerStep, SweepStep

(* Type correctness of the ledger and of the loops' local state.           *)
THEOREM TypeCorrect == Spec => []TypeOK
  BY TypeInit, TypeStep, PTL DEF Spec

---------------------------------------------------------------------------
(* The inductive invariant.                                                *)

(* What each update of the store does to the columns the invariant reads.  *)
LEMMA UpdateColumns ==
  ASSUME NEW r \in RowType
  PROVE  /\ /\ Started(r).status = "RUNNING" /\ Started(r).attempts = r.attempts + 1
            /\ Started(r).heartbeatAt = 0 /\ Started(r).leaseOwner = r.leaseOwner
            /\ Started(r).key = r.key /\ Started(r).type = r.type
         /\ /\ Completed(r).status = "COMPLETED" /\ Completed(r).attempts = r.attempts
            /\ Completed(r).leaseOwner = None
            /\ Completed(r).key = r.key /\ Completed(r).type = r.type
         /\ \A at : /\ Failed(r, at).status = "FAILED" /\ Failed(r, at).attempts = r.attempts
                    /\ Failed(r, at).nextRunAt = at /\ Failed(r, at).leaseOwner = None
                    /\ Failed(r, at).key = r.key /\ Failed(r, at).type = r.type
         /\ \A o, n : /\ Leased(r, o, n).status = "RUNNING"
                      /\ Leased(r, o, n).attempts = r.attempts + 1
                      /\ Leased(r, o, n).heartbeatAt = n /\ Leased(r, o, n).leaseOwner = o
                      /\ Leased(r, o, n).key = r.key /\ Leased(r, o, n).type = r.type
  BY DEF Started, Completed, Failed, Leased, RowType

(* The passing of time touches the instants only, and never NULLs one.     *)
LEMMA AgedColumns ==
  ASSUME NEW r \in RowType
  PROVE  /\ Aged(r).status = r.status /\ Aged(r).attempts = r.attempts
         /\ Aged(r).leaseOwner = r.leaseOwner
         /\ Aged(r).key = r.key /\ Aged(r).type = r.type
         /\ (Aged(r).nextRunAt = None) <=> (r.nextRunAt = None)
         /\ (Aged(r).heartbeatAt = None) <=> (r.heartbeatAt = None)
<1>1. \A i \in Instant : (Age(i) = None <=> i = None) /\ (AgeDue(i) = None <=> i = None)
  BY SizesAssumption, NamesAssumption DEF Age, AgeDue, Instant, Horizon
<1>2. r.nextRunAt \in Instant /\ r.heartbeatAt \in Instant
  BY DEF RowType
<1>3. /\ Aged(r).status = r.status /\ Aged(r).attempts = r.attempts
      /\ Aged(r).leaseOwner = r.leaseOwner
      /\ Aged(r).key = r.key /\ Aged(r).type = r.type
      /\ Aged(r).nextRunAt = AgeDue(r.nextRunAt) /\ Aged(r).heartbeatAt = Age(r.heartbeatAt)
  BY DEF Aged, RowType
<1>4. QED BY <1>1, <1>2, <1>3

(* The columns of a row as createTask inserts it.                          *)
LEMMA QueuedColumns ==
  ASSUME NEW k, NEW ty
  PROVE  /\ Queued(k, ty).status = "QUEUED" /\ Queued(k, ty).attempts = 0
         /\ Queued(k, ty).leaseOwner = None
         /\ Queued(k, ty).key = k /\ Queued(k, ty).type = ty
  BY DEF Queued, NoRow

---------------------------------------------------------------------------
(* The safety properties.                                                  *)

(* The types that are needed again and again.                              *)
Facts ==
  /\ \A t \in Task : row[t] \in RowType /\ row[t].attempts \in Nat /\ runs[t] \in Nat
  /\ \A e \in Executor : Holding(e) => job[e] \in Task
  /\ \A w \in Worker : \A t \in batch[w] : t \in Task
  /\ \A c \in Recoverer : \A s \in sweep[c] : s.task \in Task /\ s.attempts \in Nat

(* What every step does to a row that exists.                              *)
Kept(t) ==
  /\ row'[t].key = row[t].key /\ row'[t].type = row[t].type
  /\ row'[t].attempts >= row[t].attempts /\ row'[t].status # "ABSENT"

(* The types in the form the steps below use.                              *)
LEMMA Typed == ASSUME TypeOK PROVE Facts
  BY DEF TypeOK, Facts, RowType, Holding

(* The same after a step.                                                  *)
LEMMA TypedNext == ASSUME TypeOK' PROVE Facts'
  BY DEF TypeOK, Facts, RowType, Holding

(* No worker's id is NULL.                                                 *)
LEMMA OwnerNotNone == \A w \in Worker : WorkerId[w] # None
  BY NamesAssumption, OwnerType

(* A step that keeps the rows that exist keeps them held, if it only drops *)
(* references or makes new ones to rows that exist.                        *)
LEMMA HeldKept ==
  ASSUME Facts, Facts', HeldRowsExist, \A u \in Task : Exists(u) => Kept(u),
         \A f \in Executor : Holding(f)' => (Holding(f) /\ job'[f] = job[f]) \/ Exists(job[f])',
         \A x \in Worker : batch'[x] \subseteq batch[x],
         \A d \in Recoverer : sweep'[d] \subseteq sweep[d],
         \A u \in Task : ~Exists(u)' => row'[u] = NoRow /\ runs'[u] = 0
  PROVE  HeldRowsExist'
<1>1. \A f \in Executor : Holding(f)' => Exists(job[f])'
  BY DEF HeldRowsExist, Facts, Kept, Exists
<1>2. \A x \in Worker : \A u \in batch'[x] : Exists(u)'
  BY DEF HeldRowsExist, Facts, Kept, Exists
<1>3. \A d \in Recoverer : \A o \in sweep'[d] : Exists(o.task)'
  BY DEF HeldRowsExist, Facts, Kept, Exists
<1>4. QED BY <1>1, <1>2, <1>3 DEF HeldRowsExist

(* Attempts never fall, so what was read of them stays a lower bound.      *)
LEMMA LagKept ==
  ASSUME Facts, Facts', HeldRowsExist, ReadsLag, \A u \in Task : Exists(u) => Kept(u),
         \A f \in Executor : pc'[f] = "failing" =>
           pc[f] = "failing" /\ job'[f] = job[f] /\ seen'[f] = seen[f],
         \A f \in Executor : seen[f] \in Nat,
         \A d \in Recoverer : sweep'[d] \subseteq sweep[d]
  PROVE  ReadsLag'
<1>1. ASSUME NEW f \in Executor, pc'[f] = "failing" PROVE seen'[f] <= row'[job'[f]].attempts
  <2>1. pc[f] = "failing" /\ job'[f] = job[f] /\ seen'[f] = seen[f] /\ Holding(f)
    BY <1>1 DEF Holding
  <2>2. job[f] \in Task /\ Exists(job[f]) /\ seen[f] <= row[job[f]].attempts
    BY <2>1 DEF Facts, HeldRowsExist, ReadsLag
  <2>3. row'[job[f]].attempts >= row[job[f]].attempts
    BY <2>2 DEF Kept
  <2>4. row'[job[f]].attempts \in Nat /\ row[job[f]].attempts \in Nat
    BY <2>2 DEF Facts
  <2>5. QED BY <2>1, <2>2, <2>3, <2>4
<1>2. ASSUME NEW d \in Recoverer, NEW o \in sweep'[d] PROVE o.attempts <= row'[o.task].attempts
  <2>1. o \in sweep[d]
    OBVIOUS
  <2>2. o.task \in Task /\ Exists(o.task) /\ o.attempts <= row[o.task].attempts
           /\ o.attempts \in Nat
    BY DEF Facts, HeldRowsExist, ReadsLag
  <2>3. row'[o.task].attempts >= row[o.task].attempts
    BY <2>2 DEF Kept
  <2>4. row'[o.task].attempts \in Nat /\ row[o.task].attempts \in Nat
    BY DEF Facts
  <2>5. QED BY <2>2, <2>3, <2>4
<1>3. QED BY <1>1, <1>2 DEF ReadsLag

(* Leases stay with running rows and away from workers that have yet to    *)
(* reach the row, if no lease is granted to such a worker.                 *)
LEMMA OwnKept ==
  ASSUME Facts, Facts', HeldRowsExist, Ownership, \A u \in Task : Exists(u) => Kept(u),
         \A u \in Task : row'[u].leaseOwner # None => row'[u].status = "RUNNING",
         \A x \in Worker : \A u \in batch'[x] :
           /\ u \in batch[x]
           /\ \/ row'[u].leaseOwner \in {None, row[u].leaseOwner}
              \/ row'[u].leaseOwner # WorkerId[x],
         \A q, p \in Runner : Holding(q)' /\ Holding(p)' /\ job'[q] = job'[p] => q = p,
         \A q \in Runner : pc'[q] \in {"idle", "inserting", "created", "run", "caught", "failing"},
         \A x \in Worker : pc'[x] \in {"idle", "pass", "leasing", "run", "caught", "failing"},
         \A x \in Worker : Holding(x)' =>
           (Holding(x) /\ job'[x] = job[x]) \/ row'[job'[x]].type \in Handled
  PROVE  Ownership'
<1>1. \A x \in Worker : \A u \in batch'[x] : row'[u].leaseOwner # WorkerId[x]
  BY OwnerNotNone DEF Ownership
<1>2. ASSUME NEW x \in Worker, Holding(x)' PROVE row'[job'[x]].type \in Handled
  <2>1. SUFFICES ASSUME Holding(x) /\ job'[x] = job[x] PROVE row'[job[x]].type \in Handled
    BY <1>2
  <2>2. row[job[x]].type \in Handled /\ job[x] \in Task /\ Exists(job[x])
    BY <2>1 DEF Ownership, HeldRowsExist, Facts
  <2>3. QED BY <2>2 DEF Kept
<1>3. QED BY <1>1, <1>2 DEF Ownership

(* Keys stay unique when no row appears and no unhandled one is entered twice.*)
LEMMA KeysKept ==
  ASSUME Facts, OncePerKey, \A u \in Task : Exists(u) => Kept(u),
         \A u \in Task : Exists(u)' => Exists(u),
         \A u \in Task : Exists(u) /\ row[u].type \notin Handled => runs'[u] <= 1
  PROVE  OncePerKey'
<1>1. ASSUME NEW t \in Task, NEW u \in Task, Exists(t)', Exists(u)',
             row'[t].key = row'[u].key, row'[t].key # NoKey
      PROVE  t = u
  BY <1>1 DEF OncePerKey, Kept
<1>2. ASSUME NEW t \in Task, Exists(t)', row'[t].type \notin Handled PROVE runs'[t] <= 1
  BY <1>2 DEF Kept
<1>3. QED BY <1>1, <1>2 DEF OncePerKey

(* A retry below the cap has an instant.                                   *)
LEMMA DelayNotNone == ASSUME NEW n \in Nat, n < MaxAttempts PROVE RetryAt(n) # None
  BY SizesAssumption, NamesAssumption DEF RetryAt, RetryDelay

(* A blank row does not age.                                               *)
LEMMA AgedNoRow == Aged(NoRow) = NoRow
<1>1. Age(None) = None /\ AgeDue(None) = None
  BY DEF Age, AgeDue
<1>2. NoRow.nextRunAt = None /\ NoRow.heartbeatAt = None /\ NoRow.leaseExpiresAt = None
  BY DEF NoRow
<1>3. Aged(NoRow) =
        [NoRow EXCEPT !.nextRunAt = None, !.heartbeatAt = None, !.leaseExpiresAt = None]
  BY <1>1, <1>2 DEF Aged
<1>4. QED BY <1>3 DEF NoRow

(* startTask enters the function: the row a runner is starting has not been*)
(* taken by anybody, or is disturbed, so the runner is its only executor.  *)
LEMMA StartTaskKeeps == ASSUME IInv, TypeOK', NEW r \in Runner, StartTask(r) PROVE IInv'
<1>1. job[r] \in Task /\ pc[r] = "created"
  BY DEF StartTask, TypeOK
<1>2. \A f \in Executor : /\ pc'[f] = (IF f = r THEN "run" ELSE pc[f]) /\ job'[f] = job[f]
  BY DEF StartTask, TypeOK, locals
<1>3. \A u \in Task : u # job[r] => row'[u] = row[u]
  BY DEF StartTask
<1>4. /\ row'[job[r]].status = "RUNNING" /\ row'[job[r]].attempts = row[job[r]].attempts + 1
      /\ row'[job[r]].heartbeatAt = 0 /\ row'[job[r]].leaseOwner = row[job[r]].leaseOwner
      /\ row'[job[r]].key = row[job[r]].key /\ row'[job[r]].type = row[job[r]].type
  BY UpdateColumns DEF StartTask, IInv, TypeOK
<1>5. \A u \in Task : runs'[u] = IF u = job[r] THEN runs[u] + 1 ELSE runs[u]
  BY DEF StartTask, TypeOK
<1>6. UNCHANGED <<seen, batch, sweep, disturbed>>
  BY DEF StartTask, locals
<1>7. Facts /\ Facts'
  BY Typed, TypedNext DEF IInv
<1>8. \A u \in Task : Exists(u) => Kept(u)
  BY <1>3, <1>4, <1>7 DEF Facts, Kept, Exists
<1>9. \A u \in Task : row'[u].leaseOwner \in {None, row[u].leaseOwner}
  BY <1>3, <1>4
<1>10. \A f \in Executor : Holding(f)' => (Holding(f) /\ job'[f] = job[f]) \/ Exists(job[f])'
  BY <1>2, <1>4 DEF Holding, Exists
<1>11. /\ \A x \in Worker : batch'[x] \subseteq batch[x]
       /\ \A d \in Recoverer : sweep'[d] \subseteq sweep[d]
  BY <1>6
<1>12. \A u \in Task : ~Exists(u)' => row'[u] = NoRow /\ runs'[u] = 0
  BY <1>3, <1>4, <1>5 DEF IInv, HeldRowsExist, Exists
<1>13. \A f \in Executor :
         pc'[f] = "failing" => pc[f] = "failing" /\ job'[f] = job[f] /\ seen'[f] = seen[f]
  BY <1>2, <1>6
<1>14. \A f \in Executor : seen[f] \in Nat
  BY DEF IInv, TypeOK
<1>15. \A u \in Task : row'[u].leaseOwner # None => row'[u].status = "RUNNING"
  BY <1>3, <1>4 DEF IInv, Ownership
<1>16. \A x \in Worker : \A u \in batch'[x] :
         /\ u \in batch[x]
         /\ \/ row'[u].leaseOwner \in {None, row[u].leaseOwner}
            \/ row'[u].leaseOwner # WorkerId[x]
  BY <1>6, <1>7, <1>9 DEF Facts
<1>17. \A q \in Runner : Holding(q)' => Holding(q) /\ job'[q] = job[q]
  BY <1>1, <1>2 DEF Holding
<1>18. \A q, p \in Runner : Holding(q)' /\ Holding(p)' /\ job'[q] = job'[p] => q = p
  BY <1>17 DEF IInv, Ownership
<1>19. /\ \A q \in Runner : pc'[q] \in {"idle", "inserting", "created", "run", "caught", "failing"}
       /\ \A x \in Worker : pc'[x] \in {"idle", "pass", "leasing", "run", "caught", "failing"}
  BY <1>2 DEF IInv, Ownership
<1>20. \A x \in Worker :
         Holding(x)' => (Holding(x) /\ job'[x] = job[x]) \/ row'[job'[x]].type \in Handled
  BY <1>2, NamesAssumption DEF Holding
<1>21. \A u \in Task : Exists(u)' => Exists(u)
  BY <1>1, <1>3 DEF Exists, IInv, HeldRowsExist, Holding
<1>22. \A u \in Task : Exists(u) /\ row[u].type \notin Handled => runs'[u] <= 1
  BY <1>1, <1>5 DEF IInv, StartsPending, Starting, OncePerKey
<1>23. HeldRowsExist'
  BY <1>7, <1>8, <1>10, <1>11, <1>12, HeldKept DEF IInv
<1>24. ReadsLag'
  BY <1>7, <1>8, <1>11, <1>13, <1>14, LagKept DEF IInv
<1>25. NoLimbo'
  BY <1>3, <1>4, NamesAssumption DEF IInv, NoLimbo
<1>26. Ownership'
  BY <1>7, <1>8, <1>15, <1>16, <1>18, <1>19, <1>20, OwnKept DEF IInv
<1>27. StartsPending'
  BY <1>1, <1>2, <1>3, <1>5, <1>6 DEF IInv, Holding, StartsPending, Starting, Ownership
<1>28. Accounted'
  BY <1>2, <1>3, <1>4, <1>5, <1>7, OwnerNotNone DEF IInv, Facts, Accounted, WonLease, Ownership
<1>29. BoundedExecutions'
  BY <1>1, <1>3, <1>4, <1>5, <1>6, <1>7, SizesAssumption
  DEF IInv, Facts, BoundedExecutions, StartsPending, Starting, NoLimbo
<1>30. SoleExecutor'
  BY <1>1, <1>2, <1>3, <1>4, <1>6, OwnerNotNone
  DEF IInv, SoleExecutor, Executing, WonLease, Ownership, StartsPending, Starting
<1>31. OncePerKey'
  BY <1>7, <1>8, <1>21, <1>22, KeysKept DEF IInv
<1>32. QED BY <1>23, <1>24, <1>25, <1>26, <1>27, <1>28, <1>29, <1>30, <1>31 DEF IInv

(* completeTask clears the lease and frees the executor; nobody else can be*)
(* executing an undisturbed row.                                           *)
LEMMA CompleteTaskKeeps == ASSUME IInv, TypeOK', NEW e \in Executor, CompleteTask(e) PROVE IInv'
<1>1. job[e] \in Task /\ pc[e] = "run" /\ Return(e) \in {"idle", "pass"}
         /\ (Return(e) = "pass" <=> e \in Worker)
  BY DEF CompleteTask, TypeOK, Return
<1>2. \A f \in Executor :
        /\ pc'[f] = (IF f = e THEN Return(e) ELSE pc[f])
        /\ job'[f] = (IF f = e THEN None ELSE job[f])
  BY DEF CompleteTask, TypeOK
<1>3. \A u \in Task : u # job[e] => row'[u] = row[u]
  BY DEF CompleteTask
<1>4. /\ row'[job[e]].status = "COMPLETED" /\ row'[job[e]].attempts = row[job[e]].attempts
      /\ row'[job[e]].leaseOwner = None /\ row'[job[e]].key = row[job[e]].key
      /\ row'[job[e]].type = row[job[e]].type
  BY UpdateColumns DEF CompleteTask, IInv, TypeOK
<1>5. UNCHANGED <<seen, batch, sweep, disturbed, runs>>
  BY DEF CompleteTask
<1>6. Facts /\ Facts'
  BY Typed, TypedNext DEF IInv
<1>7. \A u \in Task : Exists(u) => Kept(u)
  BY <1>3, <1>4, <1>6 DEF Facts, Kept, Exists
<1>8. \A u \in Task : row'[u].leaseOwner \in {None, row[u].leaseOwner}
  BY <1>3, <1>4
<1>9. \A x \in Worker, u \in Task : WonLease(x, u)' => WonLease(x, u)
  BY <1>1, <1>2, <1>3, <1>4 DEF WonLease
<1>10. \A f \in Executor : Holding(f)' => (Holding(f) /\ job'[f] = job[f]) \/ Exists(job[f])'
  BY <1>1, <1>2 DEF Holding
<1>11. /\ \A x \in Worker : batch'[x] \subseteq batch[x]
       /\ \A d \in Recoverer : sweep'[d] \subseteq sweep[d]
  BY <1>5
<1>12. \A u \in Task : ~Exists(u)' => row'[u] = NoRow /\ runs'[u] = 0
  BY <1>3, <1>4, <1>5 DEF IInv, HeldRowsExist, Exists
<1>13. \A f \in Executor :
         pc'[f] = "failing" => pc[f] = "failing" /\ job'[f] = job[f] /\ seen'[f] = seen[f]
  BY <1>1, <1>2, <1>5
<1>14. \A f \in Executor : seen[f] \in Nat
  BY DEF IInv, TypeOK
<1>15. \A u \in Task : row'[u].leaseOwner # None => row'[u].status = "RUNNING"
  BY <1>3, <1>4 DEF IInv, Ownership
<1>16. \A x \in Worker : \A u \in batch'[x] :
         /\ u \in batch[x]
         /\ \/ row'[u].leaseOwner \in {None, row[u].leaseOwner}
            \/ row'[u].leaseOwner # WorkerId[x]
  BY <1>5, <1>6, <1>8 DEF Facts
<1>17. \A q \in Runner : Holding(q)' => Holding(q) /\ job'[q] = job[q]
  BY <1>1, <1>2 DEF Holding
<1>18. \A q, p \in Runner : Holding(q)' /\ Holding(p)' /\ job'[q] = job'[p] => q = p
  BY <1>17 DEF IInv, Ownership
<1>19. /\ \A q \in Runner : pc'[q] \in {"idle", "inserting", "created", "run", "caught", "failing"}
       /\ \A x \in Worker : pc'[x] \in {"idle", "pass", "leasing", "run", "caught", "failing"}
  BY <1>1, <1>2, NamesAssumption DEF IInv, Ownership
<1>20. \A x \in Worker :
         Holding(x)' => (Holding(x) /\ job'[x] = job[x]) \/ row'[job'[x]].type \in Handled
  BY <1>1, <1>2 DEF Holding
<1>21. \A u \in Task : Exists(u)' => Exists(u)
  BY <1>1, <1>3 DEF Exists, IInv, HeldRowsExist, Holding
<1>22. HeldRowsExist'
  BY <1>6, <1>7, <1>10, <1>11, <1>12, HeldKept DEF IInv
<1>23. ReadsLag'
  BY <1>6, <1>7, <1>11, <1>13, <1>14, LagKept DEF IInv
<1>24. NoLimbo'
  BY <1>3, <1>4, <1>8 DEF IInv, NoLimbo
<1>25. Ownership'
  BY <1>6, <1>7, <1>15, <1>16, <1>18, <1>19, <1>20, OwnKept DEF IInv
<1>26. StartsPending'
  BY <1>1, <1>2, <1>3, <1>4, <1>5 DEF IInv, StartsPending, Starting, SoleExecutor, Executing
<1>27. Accounted'
  BY <1>3, <1>4, <1>5, <1>9 DEF IInv, Accounted
<1>28. BoundedExecutions'
  BY <1>3, <1>4, <1>5, <1>9 DEF IInv, BoundedExecutions
<1>29. SoleExecutor'
  BY <1>1, <1>2, <1>3, <1>5 DEF IInv, SoleExecutor, Executing, WonLease
<1>30. OncePerKey'
  BY <1>21, <1>3, <1>4, <1>5 DEF IInv, OncePerKey
<1>31. QED BY <1>22, <1>23, <1>24, <1>25, <1>26, <1>27, <1>28, <1>29, <1>30 DEF IInv

(* completeTask's update without its event: the executor stays, on a row   *)
(* that counts as disturbed.                                               *)
LEMMA CompleteUnloggedKeeps == ASSUME IInv, TypeOK', NEW e \in Executor, CompleteUnlogged(e) PROVE IInv'
<1>1. job[e] \in Task /\ pc[e] = "run"
  BY DEF CompleteUnlogged, TypeOK
<1>2. \A f \in Executor :
        /\ pc'[f] = (IF f = e THEN "caught" ELSE pc[f])
        /\ job'[f] = job[f]
  BY DEF CompleteUnlogged, TypeOK, locals
<1>3. \A u \in Task : u # job[e] => row'[u] = row[u]
  BY DEF CompleteUnlogged
<1>4. /\ row'[job[e]].status = "COMPLETED" /\ row'[job[e]].attempts = row[job[e]].attempts
      /\ row'[job[e]].leaseOwner = None /\ row'[job[e]].key = row[job[e]].key
      /\ row'[job[e]].type = row[job[e]].type
  BY UpdateColumns DEF CompleteUnlogged, IInv, TypeOK
<1>5. /\ UNCHANGED <<seen, batch, sweep, runs>>
      /\ disturbed' = disturbed \cup {job[e]}
  BY DEF CompleteUnlogged, locals
<1>6. Facts /\ Facts'
  BY Typed, TypedNext DEF IInv
<1>7. \A u \in Task : Exists(u) => Kept(u)
  BY <1>3, <1>4, <1>6 DEF Facts, Kept, Exists
<1>8. \A u \in Task : row'[u].leaseOwner \in {None, row[u].leaseOwner}
  BY <1>3, <1>4
<1>9. \A x \in Worker, u \in Task : WonLease(x, u)' => WonLease(x, u)
  BY <1>1, <1>2, <1>3, <1>4 DEF WonLease
<1>10. \A f \in Executor : Holding(f)' => (Holding(f) /\ job'[f] = job[f]) \/ Exists(job[f])'
  BY <1>1, <1>2 DEF Holding
<1>11. /\ \A x \in Worker : batch'[x] \subseteq batch[x]
       /\ \A d \in Recoverer : sweep'[d] \subseteq sweep[d]
  BY <1>5
<1>12. \A u \in Task : ~Exists(u)' => row'[u] = NoRow /\ runs'[u] = 0
  BY <1>3, <1>4, <1>5 DEF IInv, HeldRowsExist, Exists
<1>13. \A f \in Executor :
         pc'[f] = "failing" => pc[f] = "failing" /\ job'[f] = job[f] /\ seen'[f] = seen[f]
  BY <1>1, <1>2, <1>5
<1>14. \A f \in Executor : seen[f] \in Nat
  BY DEF IInv, TypeOK
<1>15. \A u \in Task : row'[u].leaseOwner # None => row'[u].status = "RUNNING"
  BY <1>3, <1>4 DEF IInv, Ownership
<1>16. \A x \in Worker : \A u \in batch'[x] :
         /\ u \in batch[x]
         /\ \/ row'[u].leaseOwner \in {None, row[u].leaseOwner}
            \/ row'[u].leaseOwner # WorkerId[x]
  BY <1>5, <1>6, <1>8 DEF Facts
<1>17. \A q \in Runner : Holding(q)' => Holding(q) /\ job'[q] = job[q]
  BY <1>1, <1>2 DEF Holding
<1>18. \A q, p \in Runner : Holding(q)' /\ Holding(p)' /\ job'[q] = job'[p] => q = p
  BY <1>17 DEF IInv, Ownership
<1>19. /\ \A q \in Runner : pc'[q] \in {"idle", "inserting", "created", "run", "caught", "failing"}
       /\ \A x \in Worker : pc'[x] \in {"idle", "pass", "leasing", "run", "caught", "failing"}
  BY <1>1, <1>2, NamesAssumption DEF IInv, Ownership
<1>20. \A x \in Worker :
         Holding(x)' => (Holding(x) /\ job'[x] = job[x]) \/ row'[job'[x]].type \in Handled
  BY <1>1, <1>2 DEF Holding
<1>21. \A u \in Task : Exists(u)' => Exists(u)
  BY <1>1, <1>3 DEF Exists, IInv, HeldRowsExist, Holding
<1>22. HeldRowsExist'
  BY <1>6, <1>7, <1>10, <1>11, <1>12, HeldKept DEF IInv
<1>23. ReadsLag'
  BY <1>6, <1>7, <1>11, <1>13, <1>14, LagKept DEF IInv
<1>24. NoLimbo'
  BY <1>3, <1>4, <1>8 DEF IInv, NoLimbo
<1>25. Ownership'
  BY <1>6, <1>7, <1>15, <1>16, <1>18, <1>19, <1>20, OwnKept DEF IInv
<1>26. StartsPending'
  BY <1>1, <1>2, <1>3, <1>4, <1>5 DEF IInv, StartsPending, Starting, SoleExecutor, Executing
<1>27. Accounted'
  BY <1>3, <1>4, <1>5, <1>9 DEF IInv, Accounted
<1>28. BoundedExecutions'
  <2>1. \A u \in Task : row'[u].attempts = row[u].attempts /\ row[u].attempts \in Nat
    BY <1>3, <1>4, <1>6 DEF Facts
  <2>2. \A u \in Task : runs'[u] <= row'[u].attempts
    BY <1>5, <2>1 DEF IInv, BoundedExecutions
  <2>3. \A u \in Task : row'[u].attempts <= MaxAttempts + (IF u \in disturbed' THEN 1 ELSE 0)
    BY <1>5, <2>1, SizesAssumption DEF IInv, BoundedExecutions
  <2>4. QED BY <2>2, <2>3 DEF BoundedExecutions
<1>29. SoleExecutor'
  BY <1>1, <1>2, <1>3, <1>5 DEF IInv, SoleExecutor, Executing, WonLease
<1>30. OncePerKey'
  BY <1>21, <1>3, <1>4, <1>5 DEF IInv, OncePerKey
<1>31. QED BY <1>22, <1>23, <1>24, <1>25, <1>26, <1>27, <1>28, <1>29, <1>30 DEF IInv

(* failTask writes the outcome of an earlier reading: attempts have not fallen*)
(* since, so a row below the cap gets an instant to be retried at.         *)
LEMMA FailTaskKeeps == ASSUME IInv, TypeOK', NEW e \in Executor, FailTask(e) PROVE IInv'
<1>1. job[e] \in Task /\ pc[e] = "failing" /\ Return(e) \in {"idle", "pass"}
         /\ (Return(e) = "pass" <=> e \in Worker)
  BY DEF FailTask, TypeOK, Return
<1>2. \A f \in Executor :
        /\ pc'[f] = (IF f = e THEN Return(e) ELSE pc[f])
        /\ job'[f] = (IF f = e THEN None ELSE job[f])
  BY DEF FailTask, TypeOK
<1>3. \A u \in Task : u # job[e] => row'[u] = row[u]
  BY DEF FailTask
<1>4. /\ row'[job[e]].status = "FAILED" /\ row'[job[e]].attempts = row[job[e]].attempts
      /\ row'[job[e]].leaseOwner = None /\ row'[job[e]].nextRunAt = RetryAt(seen[e])
      /\ row'[job[e]].key = row[job[e]].key /\ row'[job[e]].type = row[job[e]].type
  BY UpdateColumns DEF FailTask, IInv, TypeOK
<1>5. \A f \in Executor : f # e => seen'[f] = seen[f]
  BY DEF FailTask
<1>6. UNCHANGED <<batch, sweep, disturbed, runs>>
  BY DEF FailTask
<1>7. seen[e] \in Nat /\ seen[e] <= row[job[e]].attempts
  BY DEF FailTask, IInv, TypeOK, ReadsLag
<1>8. Facts /\ Facts'
  BY Typed, TypedNext DEF IInv
<1>9. \A u \in Task : Exists(u) => Kept(u)
  BY <1>3, <1>4, <1>8 DEF Facts, Kept, Exists
<1>10. \A u \in Task : row'[u].leaseOwner \in {None, row[u].leaseOwner}
  BY <1>3, <1>4
<1>11. \A f \in Executor : Holding(f)' => (Holding(f) /\ job'[f] = job[f]) \/ Exists(job[f])'
  BY <1>1, <1>2 DEF Holding
<1>12. /\ \A x \in Worker : batch'[x] \subseteq batch[x]
       /\ \A d \in Recoverer : sweep'[d] \subseteq sweep[d]
  BY <1>6
<1>13. \A u \in Task : ~Exists(u)' => row'[u] = NoRow /\ runs'[u] = 0
  BY <1>3, <1>4, <1>6 DEF IInv, HeldRowsExist, Exists
<1>14. \A f \in Executor :
         pc'[f] = "failing" => pc[f] = "failing" /\ job'[f] = job[f] /\ seen'[f] = seen[f]
  BY <1>1, <1>2, <1>5
<1>15. \A f \in Executor : seen[f] \in Nat
  BY DEF IInv, TypeOK
<1>16. \A u \in Task : row'[u].leaseOwner # None => row'[u].status = "RUNNING"
  BY <1>3, <1>4 DEF IInv, Ownership
<1>17. \A x \in Worker : \A u \in batch'[x] :
         /\ u \in batch[x]
         /\ \/ row'[u].leaseOwner \in {None, row[u].leaseOwner}
            \/ row'[u].leaseOwner # WorkerId[x]
  BY <1>6, <1>8, <1>10 DEF Facts
<1>18. \A q \in Runner : Holding(q)' => Holding(q) /\ job'[q] = job[q]
  BY <1>1, <1>2 DEF Holding
<1>19. \A q, p \in Runner : Holding(q)' /\ Holding(p)' /\ job'[q] = job'[p] => q = p
  BY <1>18 DEF IInv, Ownership
<1>20. /\ \A q \in Runner : pc'[q] \in {"idle", "inserting", "created", "run", "caught", "failing"}
       /\ \A x \in Worker : pc'[x] \in {"idle", "pass", "leasing", "run", "caught", "failing"}
  BY <1>1, <1>2, NamesAssumption DEF IInv, Ownership
<1>21. \A x \in Worker :
         Holding(x)' => (Holding(x) /\ job'[x] = job[x]) \/ row'[job'[x]].type \in Handled
  BY <1>1, <1>2 DEF Holding
<1>22. \A u \in Task : Exists(u)' => Exists(u)
  BY <1>1, <1>3 DEF Exists, IInv, HeldRowsExist, Holding
<1>23. HeldRowsExist'
  BY <1>8, <1>9, <1>11, <1>12, <1>13, HeldKept DEF IInv
<1>24. ReadsLag'
  BY <1>8, <1>9, <1>12, <1>14, <1>15, LagKept DEF IInv
<1>25. NoLimbo'
  <2>1. \A u \in Task :
          row'[u].status = "FAILED" /\ row'[u].attempts < MaxAttempts =>
           row'[u].nextRunAt # None
    BY <1>3, <1>4, <1>7, <1>8, SizesAssumption, DelayNotNone DEF IInv, Facts, NoLimbo
  <2>2. \A u \in Task : row'[u].status = "RUNNING" => row'[u].heartbeatAt # None
    BY <1>3, <1>4 DEF IInv, NoLimbo
  <2>3. \A u \in Task : row'[u].status = "QUEUED" => row'[u].attempts = 0
    BY <1>3, <1>4 DEF IInv, NoLimbo
  <2>4. QED BY <2>1, <2>2, <2>3 DEF NoLimbo
<1>26. Ownership'
  BY <1>8, <1>9, <1>16, <1>17, <1>19, <1>20, <1>21, OwnKept DEF IInv
<1>27. StartsPending'
  BY <1>1, <1>2, <1>3, <1>4, <1>6, <1>10
  DEF IInv, StartsPending, Starting, SoleExecutor, Executing
<1>28. Accounted'
  BY <1>2, <1>3, <1>4, <1>6, <1>7, <1>8, <1>9, SizesAssumption, NamesAssumption
  DEF IInv, Accounted, WonLease
<1>29. BoundedExecutions'
  BY <1>3, <1>4, <1>6, <1>9, <1>10 DEF IInv, BoundedExecutions
<1>30. SoleExecutor'
  BY <1>1, <1>2, <1>3, <1>6 DEF IInv, SoleExecutor, Executing, WonLease
<1>31. OncePerKey'
  BY <1>22, <1>3, <1>4, <1>6 DEF IInv, OncePerKey
<1>32. QED BY <1>23, <1>24, <1>25, <1>26, <1>27, <1>28, <1>29, <1>30, <1>31 DEF IInv

(* The guarded lease takes a queued or failed row below the cap: such a row*)
(* has no executor, and it is disturbed if a runTask is about to start it. *)
LEMMA LeaseTaskKeeps ==
  ASSUME IInv, TypeOK', NEW w \in Worker, NEW t \in Task, LeaseTask(w, t)
  PROVE  IInv'
<1>1. \A u \in Task : row[u] \in RowType /\ row[u].attempts \in Nat /\ runs[u] \in Nat
  BY DEF IInv, TypeOK, RowType
<1>2. t \in batch[w] /\ pc[w] = "pass" /\ row[t].type \in Handled
  BY DEF LeaseTask
<1>3. \A f \in Executor :
        /\ pc'[f] = (IF f = w THEN "leasing" ELSE pc[f])
        /\ job'[f] = (IF f = w THEN t ELSE job[f])
  BY DEF LeaseTask, TypeOK
<1>4. \A u \in Task : u # t => row'[u] = row[u]
  BY DEF LeaseTask, TypeOK
<1>5. Runnable(row[t], passNow[w]) =>
         row[t].status \in {"QUEUED", "FAILED"} /\ row[t].attempts < MaxAttempts
  BY DEF Runnable
<1>6. Runnable(row[t], passNow[w]) =>
        /\ row'[t].status = "RUNNING" /\ row'[t].attempts = row[t].attempts + 1
        /\ row'[t].leaseOwner = WorkerId[w] /\ row'[t].heartbeatAt # None
        /\ row'[t].key = row[t].key /\ row'[t].type = row[t].type
        /\ disturbed' = IF \E r \in Runner : Starting(r, t)
                          THEN disturbed \cup {t} ELSE disturbed
  BY UpdateColumns, NamesAssumption DEF LeaseTask, IInv, TypeOK
<1>7. ~Runnable(row[t], passNow[w]) => UNCHANGED <<row, disturbed>>
  BY DEF LeaseTask
<1>8. \A x \in Worker : batch'[x] = IF x = w THEN batch[x] \ {t} ELSE batch[x]
  BY DEF LeaseTask, IInv, TypeOK
<1>9. UNCHANGED <<seen, sweep, runs>>
  BY DEF LeaseTask
<1>10. Facts /\ Facts'
  BY Typed, TypedNext DEF IInv
<1>11. \A u \in Task : Exists(u) => Kept(u)
  BY <1>4, <1>6, <1>7, <1>10 DEF Facts, Kept, Exists
<1>12. \A f \in Executor : Holding(f)' => (Holding(f) /\ job'[f] = job[f]) \/ Exists(job[f])'
  BY <1>2, <1>3, <1>6, <1>7 DEF Holding, Exists, IInv, HeldRowsExist
<1>13. /\ \A x \in Worker : batch'[x] \subseteq batch[x]
       /\ \A d \in Recoverer : sweep'[d] \subseteq sweep[d]
  BY <1>1, <1>2, <1>3, <1>4, <1>5, <1>6, <1>7, <1>8, <1>9, <1>10, <1>11
<1>14. \A u \in Task : ~Exists(u)' => row'[u] = NoRow /\ runs'[u] = 0
  BY <1>4, <1>6, <1>7, <1>9 DEF IInv, HeldRowsExist, Exists
<1>15. \A f \in Executor :
         pc'[f] = "failing" => pc[f] = "failing" /\ job'[f] = job[f] /\ seen'[f] = seen[f]
  BY <1>3, <1>9
<1>16. \A f \in Executor : seen[f] \in Nat
  BY DEF IInv, TypeOK
<1>17. \A u \in Task : row'[u].leaseOwner # None => row'[u].status = "RUNNING"
  BY <1>4, <1>6, <1>7 DEF IInv, Ownership
<1>18. \A x \in Worker : \A u \in batch'[x] :
         /\ u \in batch[x]
         /\ \/ row'[u].leaseOwner \in {None, row[u].leaseOwner}
            \/ row'[u].leaseOwner # WorkerId[x]
  <2>1. \A x \in Worker : \A u \in batch'[x] : u \in batch[x] /\ u \in Task /\ (x = w => u # t)
    BY <1>1, <1>2, <1>3, <1>4, <1>5, <1>6, <1>7, <1>8, <1>9, <1>10, <1>11 DEF Facts
  <2>2. CASE Runnable(row[t], passNow[w])
    BY <2>1, <2>2, <1>4, <1>6, DistinctWorkersAssumption
  <2>3. CASE ~Runnable(row[t], passNow[w])
    BY <2>1, <2>3, <1>7
  <2>4. QED BY <2>2, <2>3
<1>19. \A q \in Runner : Holding(q)' => Holding(q) /\ job'[q] = job[q]
  BY <1>3, NamesAssumption DEF Holding
<1>20. \A q, p \in Runner : Holding(q)' /\ Holding(p)' /\ job'[q] = job'[p] => q = p
  BY <1>19 DEF IInv, Ownership
<1>21. /\ \A q \in Runner : pc'[q] \in {"idle", "inserting", "created", "run", "caught", "failing"}
       /\ \A x \in Worker : pc'[x] \in {"idle", "pass", "leasing", "run", "caught", "failing"}
  BY <1>3, NamesAssumption DEF IInv, Ownership
<1>22. \A x \in Worker :
         Holding(x)' => (Holding(x) /\ job'[x] = job[x]) \/ row'[job'[x]].type \in Handled
  BY <1>2, <1>3, <1>11 DEF Holding, Kept, IInv, HeldRowsExist
<1>23. \A u \in Task : Exists(u)' => Exists(u)
  BY <1>4, <1>5, <1>7 DEF Exists
<1>24. HeldRowsExist'
  BY <1>10, <1>11, <1>12, <1>13, <1>14, HeldKept DEF IInv
<1>25. ReadsLag'
  BY <1>10, <1>11, <1>13, <1>15, <1>16, LagKept DEF IInv
<1>26. NoLimbo'
  BY <1>4, <1>6, <1>7 DEF IInv, NoLimbo
<1>27. Ownership'
  BY <1>10, <1>11, <1>17, <1>18, <1>20, <1>21, <1>22, OwnKept DEF IInv
<1>28. StartsPending'
  BY <1>3, <1>4, <1>5, <1>6, <1>7, <1>9, <1>10, SizesAssumption, DistinctWorkersAssumption
  DEF IInv, Facts, StartsPending, Starting
<1>29. Accounted'
  BY <1>2, <1>3, <1>4, <1>6, <1>7, <1>9, <1>10
  DEF IInv, Facts, Accounted, WonLease, BoundedExecutions, Ownership
<1>30. BoundedExecutions'
  BY <1>4, <1>5, <1>6, <1>7, <1>9, <1>10, SizesAssumption DEF IInv, Facts, BoundedExecutions
<1>31. SoleExecutor'
  BY <1>2, <1>3, <1>4, <1>5, <1>6, <1>7 DEF IInv, SoleExecutor, Executing, WonLease, Ownership
<1>32. OncePerKey'
  BY <1>23, <1>4, <1>6, <1>7, <1>9 DEF IInv, OncePerKey
<1>33. QED BY <1>24, <1>25, <1>26, <1>27, <1>28, <1>29, <1>30, <1>31, <1>32 DEF IInv

(* The sweep fails a running row: a row whose executor lives is disturbed, and*)
(* the attempts the sweep read have not fallen since.                      *)
LEMMA RecoverTaskKeeps ==
  ASSUME IInv, TypeOK', NEW c \in Recoverer, NEW s \in sweep[c], RecoverTask(c, s)
  PROVE  IInv'
<1>1. s.task \in Task /\ s.attempts \in Nat /\ s.attempts <= row[s.task].attempts
  BY DEF IInv, TypeOK, ReadsLag
<1>2. \A u \in Task : u # s.task => row'[u] = row[u]
  BY DEF RecoverTask, TypeOK
<1>3. row[s.task].status = "RUNNING" =>
        /\ row'[s.task].status = "FAILED" /\ row'[s.task].attempts = row[s.task].attempts
        /\ row'[s.task].leaseOwner = None
        /\ row'[s.task].nextRunAt = (IF s.attempts < MaxAttempts THEN 0 ELSE None)
        /\ row'[s.task].key = row[s.task].key /\ row'[s.task].type = row[s.task].type
        /\ disturbed' = IF Busy(s.task) THEN disturbed \cup {s.task} ELSE disturbed
  BY UpdateColumns DEF RecoverTask, IInv, TypeOK, StillRunning
<1>4. row[s.task].status # "RUNNING" => UNCHANGED <<row, disturbed>>
  BY DEF RecoverTask, StillRunning
<1>5. \A d \in Recoverer : sweep'[d] \subseteq sweep[d]
  BY DEF RecoverTask
<1>6. UNCHANGED <<pc, job, seen, batch, runs>>
  BY DEF RecoverTask
<1>7. Facts /\ Facts'
  BY Typed, TypedNext DEF IInv
<1>8. \A u \in Task : Exists(u) => Kept(u)
  BY <1>2, <1>3, <1>4, <1>7 DEF Facts, Kept, Exists
<1>9. \A u \in Task : row'[u].leaseOwner \in {None, row[u].leaseOwner}
  BY <1>2, <1>3, <1>4
<1>10. \A f \in Executor : Holding(f)' => (Holding(f) /\ job'[f] = job[f]) \/ Exists(job[f])'
  BY <1>6 DEF Holding
<1>11. /\ \A x \in Worker : batch'[x] \subseteq batch[x]
       /\ \A d \in Recoverer : sweep'[d] \subseteq sweep[d]
  BY <1>5, <1>6
<1>12. \A u \in Task : ~Exists(u)' => row'[u] = NoRow /\ runs'[u] = 0
  BY <1>2, <1>6, <1>8 DEF IInv, HeldRowsExist, Exists, Kept
<1>13. \A f \in Executor :
         pc'[f] = "failing" => pc[f] = "failing" /\ job'[f] = job[f] /\ seen'[f] = seen[f]
  BY <1>6
<1>14. \A f \in Executor : seen[f] \in Nat
  BY DEF IInv, TypeOK
<1>15. \A u \in Task : row'[u].leaseOwner # None => row'[u].status = "RUNNING"
  BY <1>2, <1>3, <1>9 DEF IInv, Ownership
<1>16. \A x \in Worker : \A u \in batch'[x] :
         /\ u \in batch[x]
         /\ \/ row'[u].leaseOwner \in {None, row[u].leaseOwner}
            \/ row'[u].leaseOwner # WorkerId[x]
  BY <1>6, <1>7, <1>9 DEF Facts
<1>17. \A q \in Runner : Holding(q)' => Holding(q) /\ job'[q] = job[q]
  BY <1>6 DEF Holding
<1>18. \A q, p \in Runner : Holding(q)' /\ Holding(p)' /\ job'[q] = job'[p] => q = p
  BY <1>17 DEF IInv, Ownership
<1>19. /\ \A q \in Runner : pc'[q] \in {"idle", "inserting", "created", "run", "caught", "failing"}
       /\ \A x \in Worker : pc'[x] \in {"idle", "pass", "leasing", "run", "caught", "failing"}
  BY <1>6 DEF IInv, Ownership
<1>20. \A x \in Worker :
         Holding(x)' => (Holding(x) /\ job'[x] = job[x]) \/ row'[job'[x]].type \in Handled
  BY <1>6 DEF Holding
<1>21. \A u \in Task : Exists(u)' => Exists(u)
  BY <1>2 DEF Exists, IInv, HeldRowsExist
<1>22. HeldRowsExist'
  BY <1>7, <1>8, <1>10, <1>11, <1>12, HeldKept DEF IInv
<1>23. ReadsLag'
  BY <1>7, <1>8, <1>11, <1>13, <1>14, LagKept DEF IInv
<1>24. NoLimbo'
  BY <1>1, <1>2, <1>3, <1>4, <1>7, SizesAssumption, NamesAssumption DEF IInv, Facts, NoLimbo
<1>25. Ownership'
  BY <1>7, <1>8, <1>15, <1>16, <1>18, <1>19, <1>20, OwnKept DEF IInv
<1>26. StartsPending'
  BY <1>2, <1>3, <1>4, <1>6 DEF IInv, StartsPending, Starting
<1>27. Accounted'
  BY <1>2, <1>3, <1>4, <1>6 DEF IInv, Accounted, WonLease
<1>28. BoundedExecutions'
  <2>1. \A u \in Task : runs'[u] <= row'[u].attempts
    BY <1>2, <1>3, <1>4, <1>6 DEF IInv, BoundedExecutions
  <2>2. \A u \in Task : row'[u].attempts <= MaxAttempts + (IF u \in disturbed' THEN 1 ELSE 0)
    BY <1>2, <1>3, <1>4, <1>7, SizesAssumption DEF IInv, Facts, BoundedExecutions
  <2>3. QED BY <2>1, <2>2 DEF BoundedExecutions
<1>29. SoleExecutor'
  BY <1>2, <1>3, <1>4, <1>6, <1>9 DEF IInv, SoleExecutor, Executing, WonLease, Busy
<1>30. OncePerKey'
  BY <1>21, <1>2, <1>3, <1>4, <1>6 DEF IInv, OncePerKey
<1>31. QED BY <1>22, <1>23, <1>24, <1>25, <1>26, <1>27, <1>28, <1>29, <1>30 DEF IInv

(* Time moves instants but turns none into NULL.                           *)
LEMMA TickKeeps == ASSUME IInv, TypeOK', Tick PROVE IInv'
<1>1. \A u \in Task : row[u] \in RowType /\ row[u].attempts \in Nat /\ runs[u] \in Nat
  BY DEF IInv, TypeOK, RowType
<1>2. \A u \in Task :
        /\ row'[u].status = row[u].status /\ row'[u].attempts = row[u].attempts
        /\ row'[u].leaseOwner = row[u].leaseOwner /\ row'[u].key = row[u].key
        /\ row'[u].type = row[u].type
        /\ ((row'[u].nextRunAt = None) <=> (row[u].nextRunAt = None))
        /\ ((row'[u].heartbeatAt = None) <=> (row[u].heartbeatAt = None))
  BY <1>1, AgedColumns DEF Tick
<1>3. \A u \in Task : row[u] = NoRow => row'[u] = NoRow
  BY AgedNoRow DEF Tick
<1>4. UNCHANGED <<pc, job, seen, batch, sweep, runs, disturbed>>
  BY DEF Tick
<1>5. Facts /\ Facts'
  BY Typed, TypedNext DEF IInv
<1>6. \A u \in Task : Exists(u) => Kept(u)
  BY <1>2, <1>5 DEF Facts, Kept, Exists
<1>7. \A u \in Task : row'[u].leaseOwner \in {None, row[u].leaseOwner}
  BY <1>2
<1>8. \A f \in Executor : Holding(f)' => (Holding(f) /\ job'[f] = job[f]) \/ Exists(job[f])'
  BY <1>4 DEF Holding
<1>9. /\ \A x \in Worker : batch'[x] \subseteq batch[x]
      /\ \A d \in Recoverer : sweep'[d] \subseteq sweep[d]
  BY <1>4
<1>10. \A u \in Task : ~Exists(u)' => row'[u] = NoRow /\ runs'[u] = 0
  BY <1>3, <1>4, <1>6 DEF IInv, HeldRowsExist, Exists, Kept
<1>11. \A f \in Executor :
         pc'[f] = "failing" => pc[f] = "failing" /\ job'[f] = job[f] /\ seen'[f] = seen[f]
  BY <1>4
<1>12. \A f \in Executor : seen[f] \in Nat
  BY DEF IInv, TypeOK
<1>13. \A u \in Task : row'[u].leaseOwner # None => row'[u].status = "RUNNING"
  BY <1>2 DEF IInv, Ownership
<1>14. \A x \in Worker : \A u \in batch'[x] :
         /\ u \in batch[x]
         /\ \/ row'[u].leaseOwner \in {None, row[u].leaseOwner}
            \/ row'[u].leaseOwner # WorkerId[x]
  BY <1>4, <1>5, <1>7 DEF Facts
<1>15. \A q \in Runner : Holding(q)' => Holding(q) /\ job'[q] = job[q]
  BY <1>4 DEF Holding
<1>16. \A q, p \in Runner : Holding(q)' /\ Holding(p)' /\ job'[q] = job'[p] => q = p
  BY <1>15 DEF IInv, Ownership
<1>17. /\ \A q \in Runner : pc'[q] \in {"idle", "inserting", "created", "run", "caught", "failing"}
       /\ \A x \in Worker : pc'[x] \in {"idle", "pass", "leasing", "run", "caught", "failing"}
  BY <1>4 DEF IInv, Ownership
<1>18. \A x \in Worker :
         Holding(x)' => (Holding(x) /\ job'[x] = job[x]) \/ row'[job'[x]].type \in Handled
  BY <1>4 DEF Holding
<1>19. \A u \in Task : Exists(u)' => Exists(u)
  BY <1>3 DEF Exists, IInv, HeldRowsExist
<1>20. HeldRowsExist'
  BY <1>5, <1>6, <1>8, <1>9, <1>10, HeldKept DEF IInv
<1>21. ReadsLag'
  BY <1>5, <1>6, <1>9, <1>11, <1>12, LagKept DEF IInv
<1>22. NoLimbo'
  BY <1>2 DEF IInv, NoLimbo
<1>23. Ownership'
  BY <1>5, <1>6, <1>13, <1>14, <1>16, <1>17, <1>18, OwnKept DEF IInv
<1>24. StartsPending'
  BY <1>2, <1>4 DEF IInv, StartsPending, Starting
<1>25. Accounted'
  BY <1>2, <1>4 DEF IInv, Accounted, WonLease
<1>26. BoundedExecutions'
  BY <1>1, <1>2, <1>3, <1>4 DEF IInv, BoundedExecutions
<1>27. SoleExecutor'
  BY <1>1, <1>2, <1>4 DEF IInv, SoleExecutor, Executing, WonLease
<1>28. OncePerKey'
  BY <1>19, <1>2, <1>4 DEF IInv, OncePerKey
<1>29. QED BY <1>20, <1>21, <1>22, <1>23, <1>24, <1>25, <1>26, <1>27, <1>28 DEF IInv

(* Loops cut off only drop references; the table and the history stay.     *)
LEMMA LostKeeps == ASSUME IInv, TypeOK', NEW dead, Lost(dead) PROVE IInv'
<1>1. \A u \in Task : row[u] \in RowType /\ row[u].attempts \in Nat /\ runs[u] \in Nat
  BY DEF IInv, TypeOK, RowType
<1>2. \A f \in Executor :
        (pc'[f] = pc[f] /\ job'[f] = job[f] /\ seen'[f] = seen[f]) \/ pc'[f] = "idle"
  BY DEF Lost
<1>3. \A x \in Worker : batch'[x] \subseteq batch[x]
  BY DEF Lost
<1>4. \A d \in Recoverer : sweep'[d] \subseteq sweep[d]
  BY DEF Lost
<1>5. UNCHANGED <<row, runs, disturbed>>
  BY DEF Lost
<1>6. Facts /\ Facts'
  BY Typed, TypedNext DEF IInv
<1>7. HeldRowsExist'
  BY <1>2, <1>3, <1>4, <1>5 DEF IInv, Holding, HeldRowsExist, Exists
<1>8. ReadsLag'
  BY <1>2, <1>4, <1>5 DEF IInv, ReadsLag
<1>9. NoLimbo'
  BY <1>5, <1>6 DEF IInv, NoLimbo
<1>10. Ownership'
  BY <1>2, <1>3, <1>5 DEF IInv, Holding, Ownership
<1>11. StartsPending'
  BY <1>1, <1>2, <1>4, <1>5 DEF IInv, StartsPending, Starting
<1>12. Accounted'
  BY <1>2, <1>5 DEF IInv, Accounted, WonLease
<1>13. BoundedExecutions'
  BY <1>3, <1>5, <1>6 DEF IInv, BoundedExecutions
<1>14. SoleExecutor'
  BY <1>2, <1>5 DEF IInv, SoleExecutor, Executing, WonLease
<1>15. OncePerKey'
  BY <1>1, <1>3, <1>4, <1>5, <1>6 DEF IInv, OncePerKey, Exists
<1>16. QED BY <1>7, <1>8, <1>9, <1>10, <1>11, <1>12, <1>13, <1>14, <1>15 DEF IInv

(* A won lease becomes an execution: its attempt was counted by the lease, and*)
(* one lease has one winner because worker ids differ.                     *)
LEMMA CheckLeaseKeeps == ASSUME IInv, TypeOK', NEW w \in Worker, CheckLease(w) PROVE IInv'
<1>1. job[w] \in Task /\ pc[w] = "leasing"
  BY DEF CheckLease, IInv, TypeOK
<1>2. WonLease(w, job[w]) =>
        /\ \A f \in Executor : pc'[f] = (IF f = w THEN "run" ELSE pc[f])
        /\ job' = job
        /\ \A u \in Task : runs'[u] = (IF u = job[w] THEN runs[u] + 1 ELSE runs[u])
  BY DEF CheckLease, TypeOK
<1>3. ~WonLease(w, job[w]) =>
        /\ \A f \in Executor : /\ pc'[f] = (IF f = w THEN "pass" ELSE pc[f])
                               /\ job'[f] = (IF f = w THEN None ELSE job[f])
        /\ runs' = runs
  BY DEF CheckLease, TypeOK
<1>4. UNCHANGED <<row, seen, batch, sweep, disturbed>>
  BY DEF CheckLease
<1>5. Facts /\ Facts'
  BY Typed, TypedNext DEF IInv
<1>6. HeldRowsExist'
  BY <1>1, <1>2, <1>3, <1>4 DEF IInv, Holding, HeldRowsExist, Exists
<1>7. ReadsLag'
  BY <1>2, <1>3, <1>4 DEF IInv, ReadsLag
<1>8. NoLimbo'
  BY <1>4, <1>5 DEF IInv, NoLimbo
<1>9. Ownership'
  BY <1>1, <1>2, <1>3, <1>4 DEF IInv, Holding, Ownership
<1>10. StartsPending'
  BY <1>1, <1>2, <1>3, <1>4 DEF IInv, Holding, StartsPending, Starting, Ownership
<1>11. Accounted'
  BY <1>2, <1>3, <1>4, <1>5, DistinctWorkersAssumption DEF IInv, Accounted, WonLease
<1>12. BoundedExecutions'
  BY <1>2, <1>3, <1>4, <1>5 DEF IInv, Facts, BoundedExecutions, Accounted
<1>13. SoleExecutor'
  BY <1>2, <1>3, <1>4, DistinctWorkersAssumption DEF IInv, SoleExecutor, Executing, WonLease
<1>14. OncePerKey'
  BY <1>1, <1>2, <1>3, <1>4 DEF IInv, Holding, OncePerKey, Exists, Ownership
<1>15. QED BY <1>6, <1>7, <1>8, <1>9, <1>10, <1>11, <1>12, <1>13, <1>14 DEF IInv

(* A pass selects rows that exist and that no worker leases.               *)
LEMMA BeginPassKeeps == ASSUME IInv, TypeOK', NEW w \in Worker, BeginPass(w) PROVE IInv'
<1>1. \A u \in Task : row[u] \in RowType /\ row[u].attempts \in Nat /\ runs[u] \in Nat
  BY DEF IInv, TypeOK, RowType
<1>2. \A f \in Executor : pc'[f] = (IF f = w THEN "pass" ELSE pc[f])
  BY DEF BeginPass, TypeOK
<1>3. \A x \in Worker : x # w => batch'[x] = batch[x]
  BY DEF BeginPass
<1>4. \A t \in batch'[w] : t \in Task /\ row[t].status \in {"QUEUED", "FAILED"}
  BY DEF BeginPass, TypeOK, Runnable
<1>5. UNCHANGED <<row, job, seen, sweep, runs, disturbed>> /\ pc[w] = "idle"
  BY DEF BeginPass
<1>6. Facts /\ Facts'
  BY Typed, TypedNext DEF IInv
<1>7. HeldRowsExist'
  BY <1>2, <1>3, <1>4, <1>5 DEF IInv, Holding, HeldRowsExist, Exists
<1>8. ReadsLag'
  BY <1>2, <1>5 DEF IInv, ReadsLag
<1>9. NoLimbo'
  BY <1>5 DEF IInv, NoLimbo
<1>10. Ownership'
  <2>1. \A u \in Task : row'[u].leaseOwner # None => row'[u].status = "RUNNING"
    BY <1>5 DEF IInv, Ownership
  <2>2. \A x \in Worker : \A u \in batch'[x] : row'[u].leaseOwner # WorkerId[x]
    BY <1>1, <1>2, <1>3, <1>4, <1>5, <1>6, OwnerNotNone DEF IInv, Ownership
  <2>3. \A q1, q2 \in Runner : Holding(q1)' /\ Holding(q2)' /\ job'[q1] = job'[q2] => q1 = q2
    BY <1>2, <1>5 DEF IInv, Holding, Ownership
  <2>4. \A q \in Runner : pc'[q] \in {"idle", "inserting", "created", "run", "caught", "failing"}
    BY <1>2, NamesAssumption DEF IInv, Ownership
  <2>5. \A x \in Worker : pc'[x] \in {"idle", "pass", "leasing", "run", "caught", "failing"}
    BY <1>2 DEF IInv, Ownership
  <2>6. \A x \in Worker : Holding(x)' => row'[job'[x]].type \in Handled
    BY <1>2, <1>5 DEF IInv, Holding, Ownership
  <2>7. QED BY <2>1, <2>2, <2>3, <2>4, <2>5, <2>6 DEF Ownership
<1>11. StartsPending'
  BY <1>2, <1>5 DEF IInv, StartsPending, Starting
<1>12. Accounted'
  BY <1>2, <1>5 DEF IInv, Accounted, WonLease
<1>13. BoundedExecutions'
  BY <1>4, <1>5 DEF IInv, BoundedExecutions
<1>14. SoleExecutor'
  BY <1>2, <1>5 DEF IInv, SoleExecutor, Executing, WonLease
<1>15. OncePerKey'
  BY <1>1, <1>3, <1>5, <1>6 DEF IInv, OncePerKey, Exists
<1>16. QED BY <1>7, <1>8, <1>9, <1>10, <1>11, <1>12, <1>13, <1>14, <1>15 DEF IInv

(* An insert adds a queued row under a key nobody has, and is the only     *)
(* reference to it.                                                        *)
LEMMA CreateTaskKeeps ==
  ASSUME IInv, TypeOK', NEW r \in Runner, NEW t \in Task, CreateTask(r, t)
  PROVE  IInv'
<1>1. pc[r] = "inserting" /\ ~Exists(t) /\ row[t] = NoRow /\ runs[t] = 0
  BY DEF CreateTask, IInv, HeldRowsExist
<1>2. \/ /\ \A f \in Executor : pc'[f] = (IF f = r THEN "idle" ELSE pc[f])
         /\ row' = row /\ job' = job
      \/ /\ \A f \in Executor : /\ pc'[f] = (IF f = r THEN pc'[r] ELSE pc[f])
                                /\ job'[f] = (IF f = r THEN job'[r] ELSE job[f])
         /\ (pc'[r] = "created" /\ job'[r] = t) \/ pc'[r] = "idle"
         /\ \A u \in Task : u # t => row'[u] = row[u]
         /\ row'[t] = Queued(want[r].key, want[r].type)
         /\ ~KeyTaken(want[r].key)
  BY DEF CreateTask, TypeOK, Unique
<1>3. row[t].status = "ABSENT" /\ Queued(want[r].key, want[r].type).status = "QUEUED"
         /\ Queued(want[r].key, want[r].type).attempts = 0
         /\ Queued(want[r].key, want[r].type).leaseOwner = None
         /\ Queued(want[r].key, want[r].type).key = want[r].key
  BY <1>1, QueuedColumns DEF NoRow
<1>4. UNCHANGED <<seen, batch, sweep, runs, disturbed>>
  BY DEF CreateTask
<1>5. Facts /\ Facts'
  BY Typed, TypedNext DEF IInv
<1>6. \A u \in Task : Exists(u) => Kept(u)
  BY <1>2, <1>3, <1>5 DEF Facts, Kept, Exists
<1>7. \A u \in Task : row'[u].leaseOwner \in {None, row[u].leaseOwner}
  BY <1>2, QueuedColumns
<1>8. \A f \in Executor : Holding(f)' => (Holding(f) /\ job'[f] = job[f]) \/ Exists(job[f])'
  BY <1>2, <1>3 DEF Holding, Exists
<1>9. /\ \A x \in Worker : batch'[x] \subseteq batch[x]
      /\ \A d \in Recoverer : sweep'[d] \subseteq sweep[d]
  BY <1>4
<1>10. \A u \in Task : ~Exists(u)' => row'[u] = NoRow /\ runs'[u] = 0
  BY <1>2, <1>3, <1>4 DEF IInv, HeldRowsExist, Exists
<1>11. \A f \in Executor :
         pc'[f] = "failing" => pc[f] = "failing" /\ job'[f] = job[f] /\ seen'[f] = seen[f]
  BY <1>2, <1>4
<1>12. \A f \in Executor : seen[f] \in Nat
  BY DEF IInv, TypeOK
<1>13. \A u \in Task : row'[u].leaseOwner # None => row'[u].status = "RUNNING"
  BY <1>2, <1>3 DEF IInv, Ownership
<1>14. \A x \in Worker : \A u \in batch'[x] :
         /\ u \in batch[x]
         /\ \/ row'[u].leaseOwner \in {None, row[u].leaseOwner}
            \/ row'[u].leaseOwner # WorkerId[x]
  BY <1>4, <1>5, <1>7 DEF Facts
<1>15. \A q \in Runner :
         Holding(q)' => (Holding(q) /\ job'[q] = job[q]) \/ (q = r /\ job'[q] = t)
  BY <1>2 DEF Holding
<1>16. \A q \in Runner : Holding(q) => job[q] # t
  BY <1>1 DEF IInv, HeldRowsExist
<1>17. \A q, p \in Runner : Holding(q)' /\ Holding(p)' /\ job'[q] = job'[p] => q = p
  BY <1>15, <1>16 DEF IInv, Ownership
<1>18. /\ \A q \in Runner : pc'[q] \in {"idle", "inserting", "created", "run", "caught", "failing"}
       /\ \A x \in Worker : pc'[x] \in {"idle", "pass", "leasing", "run", "caught", "failing"}
  BY <1>2, NamesAssumption DEF IInv, Ownership
<1>19. \A x \in Worker :
         Holding(x)' => (Holding(x) /\ job'[x] = job[x]) \/ row'[job'[x]].type \in Handled
  BY <1>2, NamesAssumption DEF Holding
<1>20. \A x, y \in Task :
         Exists(x)' /\ Exists(y)' /\ row'[x].key = row'[y].key /\ row'[x].key # NoKey => x = y
  BY <1>2, <1>3 DEF KeyTaken, Exists, IInv, OncePerKey
<1>21. \A x \in Task : Exists(x)' /\ row'[x].type \notin Handled => runs'[x] <= 1
  BY <1>1, <1>2, <1>4 DEF Exists, IInv, OncePerKey
<1>22. HeldRowsExist'
  BY <1>5, <1>6, <1>8, <1>9, <1>10, HeldKept DEF IInv
<1>23. ReadsLag'
  BY <1>5, <1>6, <1>9, <1>11, <1>12, LagKept DEF IInv
<1>24. NoLimbo'
  BY <1>2, <1>3 DEF IInv, NoLimbo
<1>25. Ownership'
  BY <1>5, <1>6, <1>13, <1>14, <1>17, <1>18, <1>19, OwnKept DEF IInv
<1>26. StartsPending'
  BY <1>1, <1>2, <1>3, <1>4, SizesAssumption DEF IInv, StartsPending, Starting
<1>27. Accounted'
  BY <1>2, <1>3, <1>4 DEF IInv, Accounted, WonLease
<1>28. BoundedExecutions'
  <2>1. \A u \in Task : runs'[u] <= row'[u].attempts
    BY <1>1, <1>2, <1>4, <1>5 DEF IInv, Facts, BoundedExecutions
  <2>2. \A u \in Task : row'[u].attempts <= MaxAttempts + (IF u \in disturbed' THEN 1 ELSE 0)
    BY <1>2, <1>3, <1>4, SizesAssumption DEF IInv, BoundedExecutions
  <2>3. QED BY <2>1, <2>2 DEF BoundedExecutions
<1>29. SoleExecutor'
  BY <1>2, <1>3, <1>4, <1>5 DEF IInv, SoleExecutor, Executing, WonLease
<1>30. OncePerKey'
  BY <1>20, <1>21 DEF OncePerKey
<1>31. QED BY <1>22, <1>23, <1>24, <1>25, <1>26, <1>27, <1>28, <1>29, <1>30 DEF IInv

(* The look-up writes only its runner's own state.                         *)
LEMMA LookupKeeps ==
  ASSUME IInv, TypeOK', NEW r \in Runner, NEW k \in Key \cup {NoKey}, NEW ty \in Type,
         NEW m \in Mode, Lookup(r, k, ty, m)
  PROVE  IInv'
<1>1. pc[r] = "idle" /\ (\A f \in Executor : pc'[f] = (IF f = r THEN "inserting" ELSE pc[f]))
  BY DEF Lookup, TypeOK
<1>2. UNCHANGED <<row, job, seen, batch, sweep, runs, disturbed>>
  BY DEF Lookup
<1>3. Facts /\ Facts'
  BY Typed, TypedNext DEF IInv
<1>4. HeldRowsExist'
  BY <1>1, <1>2 DEF IInv, Holding, HeldRowsExist, Exists
<1>5. ReadsLag'
  BY <1>1, <1>2 DEF IInv, ReadsLag
<1>6. NoLimbo'
  BY <1>2 DEF IInv, NoLimbo
<1>7. Ownership'
  BY <1>1, <1>2, NamesAssumption DEF IInv, Holding, Ownership
<1>8. StartsPending'
  BY <1>1, <1>2 DEF IInv, StartsPending, Starting
<1>9. Accounted'
  BY <1>1, <1>2 DEF IInv, Accounted, WonLease
<1>10. BoundedExecutions'
  BY <1>1, <1>2, <1>3 DEF IInv, BoundedExecutions
<1>11. SoleExecutor'
  BY <1>1, <1>2 DEF IInv, SoleExecutor, Executing, WonLease
<1>12. OncePerKey'
  BY <1>1, <1>2, <1>3 DEF IInv, OncePerKey, Exists
<1>13. QED BY <1>4, <1>5, <1>6, <1>7, <1>8, <1>9, <1>10, <1>11, <1>12 DEF IInv

(* The end of a pass writes only its worker's own state.                   *)
LEMMA EndPassKeeps == ASSUME IInv, TypeOK', NEW w \in Worker, EndPass(w) PROVE IInv'
<1>1. pc[w] = "pass" /\ (\A f \in Executor : pc'[f] = (IF f = w THEN "idle" ELSE pc[f]))
  BY DEF EndPass, TypeOK
<1>2. UNCHANGED <<row, job, seen, batch, sweep, runs, disturbed>>
  BY DEF EndPass
<1>3. Facts /\ Facts'
  BY Typed, TypedNext DEF IInv
<1>4. HeldRowsExist'
  BY <1>1, <1>2 DEF IInv, Holding, HeldRowsExist, Exists
<1>5. ReadsLag'
  BY <1>1, <1>2 DEF IInv, ReadsLag
<1>6. NoLimbo'
  BY <1>2 DEF IInv, NoLimbo
<1>7. Ownership'
  BY <1>1, <1>2 DEF IInv, Holding, Ownership
<1>8. StartsPending'
  BY <1>1, <1>2 DEF IInv, StartsPending, Starting
<1>9. Accounted'
  BY <1>1, <1>2 DEF IInv, Accounted, WonLease
<1>10. BoundedExecutions'
  BY <1>1, <1>2, <1>3 DEF IInv, BoundedExecutions
<1>11. SoleExecutor'
  BY <1>1, <1>2 DEF IInv, SoleExecutor, Executing, WonLease
<1>12. OncePerKey'
  BY <1>1, <1>2, <1>3 DEF IInv, OncePerKey, Exists
<1>13. QED BY <1>4, <1>5, <1>6, <1>7, <1>8, <1>9, <1>10, <1>11, <1>12 DEF IInv

(* Skipping a row only shortens the batch.                                 *)
LEMMA SkipUnhandledKeeps ==
  ASSUME IInv, TypeOK', NEW w \in Worker, NEW t \in Task, SkipUnhandled(w, t)
  PROVE  IInv'
<1>1. \A x \in Worker : batch'[x] \subseteq batch[x]
  BY DEF SkipUnhandled
<1>2. UNCHANGED <<row, pc, job, seen, sweep, runs, disturbed>>
  BY DEF SkipUnhandled
<1>3. Facts /\ Facts'
  BY Typed, TypedNext DEF IInv
<1>4. HeldRowsExist'
  BY <1>1, <1>2 DEF IInv, Holding, HeldRowsExist, Exists
<1>5. ReadsLag'
  BY <1>2 DEF IInv, ReadsLag
<1>6. NoLimbo'
  BY <1>2 DEF IInv, NoLimbo
<1>7. Ownership'
  BY <1>1, <1>2 DEF IInv, Holding, Ownership
<1>8. StartsPending'
  BY <1>2 DEF IInv, StartsPending, Starting
<1>9. Accounted'
  BY <1>2 DEF IInv, Accounted, WonLease
<1>10. BoundedExecutions'
  BY <1>1, <1>2, <1>3 DEF IInv, BoundedExecutions
<1>11. SoleExecutor'
  BY <1>2 DEF IInv, SoleExecutor, Executing, WonLease
<1>12. OncePerKey'
  BY <1>2 DEF IInv, OncePerKey, Exists
<1>13. QED BY <1>4, <1>5, <1>6, <1>7, <1>8, <1>9, <1>10, <1>11, <1>12 DEF IInv

(* failTask's reading is exact when it is made.                            *)
LEMMA FailReadKeeps == ASSUME IInv, TypeOK', NEW e \in Executor, FailRead(e) PROVE IInv'
<1>1. pc[e] \in {"run", "caught"} /\ job[e] \in Task /\ seen'[e] = row[job[e]].attempts
         /\ row[job[e]].attempts \in Nat
  BY DEF FailRead, TypeOK
<1>2. \A f \in Executor :
        pc'[f] = (IF f = e THEN "failing" ELSE pc[f]) /\ (f # e => seen'[f] = seen[f])
  BY DEF FailRead, TypeOK
<1>3. UNCHANGED <<row, job, batch, sweep, runs, disturbed>>
  BY DEF FailRead
<1>4. Facts /\ Facts'
  BY Typed, TypedNext DEF IInv
<1>5. HeldRowsExist'
  BY <1>1, <1>2, <1>3 DEF IInv, Holding, HeldRowsExist, Exists
<1>6. ReadsLag'
  BY <1>1, <1>2, <1>3 DEF IInv, ReadsLag
<1>7. NoLimbo'
  BY <1>3, <1>4 DEF IInv, NoLimbo
<1>8. Ownership'
  BY <1>1, <1>2, <1>3 DEF IInv, Holding, Ownership
<1>9. StartsPending'
  BY <1>2, <1>3 DEF IInv, StartsPending, Starting
<1>10. Accounted'
  BY <1>2, <1>3 DEF IInv, Accounted, WonLease
<1>11. BoundedExecutions'
  BY <1>1, <1>3, <1>4 DEF IInv, BoundedExecutions
<1>12. SoleExecutor'
  BY <1>1, <1>2, <1>3 DEF IInv, SoleExecutor, Executing, WonLease
<1>13. OncePerKey'
  BY <1>3 DEF IInv, OncePerKey, Exists
<1>14. QED BY <1>5, <1>6, <1>7, <1>8, <1>9, <1>10, <1>11, <1>12, <1>13 DEF IInv

(* The sweep selects running rows and reads their attempts exactly.        *)
LEMMA BeginSweepKeeps == ASSUME IInv, TypeOK', NEW c \in Recoverer, BeginSweep(c) PROVE IInv'
<1>1. \A d \in Recoverer : \A o \in sweep'[d] :
        o \in sweep[d] \/ (o.task \in Task /\ row[o.task].status = "RUNNING"
         /\ o.attempts = row[o.task].attempts)
  BY DEF BeginSweep, Stale
<1>2. UNCHANGED <<row, pc, job, seen, batch, runs, disturbed>>
  BY DEF BeginSweep
<1>3. Facts /\ Facts'
  BY Typed, TypedNext DEF IInv
<1>4. HeldRowsExist'
  BY <1>1, <1>2 DEF IInv, Holding, HeldRowsExist, Exists
<1>5. ReadsLag'
  BY <1>1, <1>2, <1>3 DEF IInv, Facts, ReadsLag
<1>6. NoLimbo'
  BY <1>2 DEF IInv, NoLimbo
<1>7. Ownership'
  BY <1>2 DEF IInv, Holding, Ownership
<1>8. StartsPending'
  BY <1>2 DEF IInv, StartsPending, Starting
<1>9. Accounted'
  BY <1>2 DEF IInv, Accounted, WonLease
<1>10. BoundedExecutions'
  BY <1>1, <1>2 DEF IInv, BoundedExecutions
<1>11. SoleExecutor'
  BY <1>2 DEF IInv, SoleExecutor, Executing, WonLease
<1>12. OncePerKey'
  BY <1>1, <1>2 DEF IInv, OncePerKey, Exists
<1>13. QED BY <1>4, <1>5, <1>6, <1>7, <1>8, <1>9, <1>10, <1>11, <1>12 DEF IInv

(* A stuttering step keeps everything.                                     *)
LEMMA StutterKeeps == ASSUME IInv, TypeOK', UNCHANGED vars PROVE IInv'
<1>1. UNCHANGED <<row, pc, job, seen, batch, sweep, runs, disturbed>>
  BY DEF vars
<1>2. Facts /\ Facts'
  BY Typed, TypedNext DEF IInv
<1>3. HeldRowsExist'
  BY <1>1 DEF IInv, Holding, HeldRowsExist, Exists
<1>4. ReadsLag'
  BY <1>1 DEF IInv, ReadsLag
<1>5. NoLimbo'
  BY <1>1 DEF IInv, NoLimbo
<1>6. Ownership'
  BY <1>1, <1>2 DEF IInv, Holding, Ownership
<1>7. StartsPending'
  BY <1>1 DEF IInv, StartsPending, Starting
<1>8. Accounted'
  BY <1>1 DEF IInv, Accounted, WonLease
<1>9. BoundedExecutions'
  BY <1>1, <1>2 DEF IInv, BoundedExecutions
<1>10. SoleExecutor'
  BY <1>1 DEF IInv, SoleExecutor, Executing, WonLease
<1>11. OncePerKey'
  BY <1>1, <1>2 DEF IInv, OncePerKey, Exists
<1>12. QED BY <1>3, <1>4, <1>5, <1>6, <1>7, <1>8, <1>9, <1>10, <1>11 DEF IInv

---------------------------------------------------------------------------
(* Nothing has happened yet, so every part of the invariant is vacuous.    *)
LEMMA InvInit == Init => IInv
<1> SUFFICES ASSUME Init PROVE IInv
  OBVIOUS
<1>1. TypeOK
  BY TypeInit
<1>2. \A t \in Task : row[t] = NoRow /\ ~Exists(t) /\ runs[t] = 0
  BY DEF Init, NoRow, Exists
<1>3. \A e \in Executor : pc[e] = "idle" /\ ~Holding(e)
  BY DEF Init, Holding
<1>4. (\A w \in Worker : batch[w] = {}) /\ (\A c \in Recoverer : sweep[c] = {})
  BY DEF Init
<1>5. NoRow.status = "ABSENT" /\ NoRow.attempts = 0 /\ NoRow.leaseOwner = None
  BY DEF NoRow
<1>6. HeldRowsExist
  BY <1>2, <1>3, <1>4 DEF HeldRowsExist
<1>7. ReadsLag
  BY <1>3, <1>4 DEF ReadsLag
<1>8. NoLimbo
  BY <1>2, <1>5 DEF NoLimbo
<1>9. Ownership
  BY <1>2, <1>3, <1>4, <1>5 DEF Ownership
<1>10. StartsPending
  BY <1>3 DEF StartsPending, Starting
<1>11. Accounted
  BY <1>3 DEF Accounted, WonLease
<1>12. BoundedExecutions
  BY <1>2, <1>5, SizesAssumption DEF BoundedExecutions
<1>13. SoleExecutor
  BY <1>3 DEF SoleExecutor, Executing
<1>14. OncePerKey
  BY <1>2 DEF OncePerKey
<1>15. QED
  BY <1>1, <1>6, <1>7, <1>8, <1>9, <1>10, <1>11, <1>12, <1>13, <1>14 DEF IInv

(* Every step of the system preserves the invariant.                       *)
LEMMA InvStep == IInv /\ [Next]_vars => IInv'
<1> SUFFICES ASSUME IInv, [Next]_vars PROVE IInv'
  OBVIOUS
<1>1. TypeOK'
  BY TypeStep DEF IInv
<1>2. CASE Tick
  BY <1>1, <1>2, TickKeeps
<1>3. ASSUME NEW r \in Runner, NEW k \in Key \cup {NoKey}, NEW ty \in Type, NEW m \in Mode,
             Lookup(r, k, ty, m)
      PROVE  IInv'
  BY <1>1, <1>3, LookupKeeps
<1>4. ASSUME NEW r \in Runner, RunnerStep(r) PROVE IInv'
  <2>1. ASSUME NEW t \in Task, CreateTask(r, t) PROVE IInv'
    BY <1>1, <2>1, CreateTaskKeeps
  <2>2. CASE StartTask(r)
    BY <1>1, <2>2, StartTaskKeeps
  <2>3. QED BY <1>4, <2>1, <2>2 DEF RunnerStep
<1>5. ASSUME NEW e \in Executor, ExecutorStep(e) PROVE IInv'
  <2>1. CASE CompleteTask(e)
    BY <1>1, <2>1, CompleteTaskKeeps
  <2>2. CASE FailRead(e)
    BY <1>1, <2>2, FailReadKeeps
  <2>3. CASE FailTask(e)
    BY <1>1, <2>3, FailTaskKeeps
  <2>4. QED BY <1>5, <2>1, <2>2, <2>3 DEF ExecutorStep
<1>6. ASSUME NEW w \in Worker, WorkerStep(w) PROVE IInv'
  <2>1. CASE BeginPass(w)
    BY <1>1, <2>1, BeginPassKeeps
  <2>2. CASE CheckLease(w)
    BY <1>1, <2>2, CheckLeaseKeeps
  <2>3. CASE EndPass(w)
    BY <1>1, <2>3, EndPassKeeps
  <2>4. ASSUME NEW t \in Task, SkipUnhandled(w, t) PROVE IInv'
    BY <1>1, <2>4, SkipUnhandledKeeps
  <2>5. ASSUME NEW t \in Task, LeaseTask(w, t) PROVE IInv'
    BY <1>1, <2>5, LeaseTaskKeeps
  <2>6. QED BY <1>6, <2>1, <2>2, <2>3, <2>4, <2>5 DEF WorkerStep
<1>7. ASSUME NEW c \in Recoverer, SweepStep(c) PROVE IInv'
  <2>1. CASE BeginSweep(c)
    BY <1>1, <2>1, BeginSweepKeeps
  <2>2. ASSUME NEW s \in sweep[c], RecoverTask(c, s) PROVE IInv'
    BY <1>1, <2>2, RecoverTaskKeeps
  <2>3. QED BY <1>7, <2>1, <2>2 DEF SweepStep
<1>8. CASE Fault
  <2>1. ASSUME NEW e \in Executor, CompleteUnlogged(e) PROVE IInv'
    BY <1>1, <2>1, CompleteUnloggedKeeps
  <2>2. ASSUME NEW p \in Process, Crash(p) PROVE IInv'
    BY <1>1, <2>2, LostKeeps DEF Crash
  <2>3. ASSUME NEW a \in Actor, DbError(a) PROVE IInv'
    BY <1>1, <2>3, LostKeeps DEF DbError
  <2>4. QED BY <1>8, <2>1, <2>2, <2>3 DEF Fault
<1>9. CASE UNCHANGED vars
  BY <1>1, <1>9, StutterKeeps
<1>10. QED BY <1>2, <1>3, <1>4, <1>5, <1>6, <1>7, <1>8, <1>9 DEF Next

(* The inductive invariant holds in every reachable state.                 *)
THEOREM Inductive == Spec => []IInv
  BY InvInit, InvStep, PTL DEF Spec

(* Every entry of a task's function has consumed an attempt, and attempts stop*)
(* at maxAttempts, whatever the loops, crashes and retries interleave to; only*)
(* a row leased under a starting runTask gets one more.                    *)
THEOREM ExecutionsBounded == Spec => []BoundedExecutions
<1>1. IInv => BoundedExecutions
  BY DEF IInv
<1>2. QED BY <1>1, Inductive, PTL

(* No row falls between the loops: failed rows below the cap have a retry  *)
(* instant, running rows a heartbeat, queued rows are unattempted.         *)
THEOREM NothingLost == Spec => []NoLimbo
<1>1. IInv => NoLimbo
  BY DEF IInv
<1>2. QED BY <1>1, Inductive, PTL

(* Two executors are in one task's function only if the sweep took the row *)
(* from a live executor, a worker leased it under a starting runTask, or it*)
(* was failed after its function succeeded.                                *)
THEOREM ExecutionExclusive == Spec => []Exclusive
<1>1. IInv => Exclusive
  BY DEF IInv, SoleExecutor, Exclusive
<1>2. QED BY <1>1, Inductive, PTL

(* An idempotency key names at most one row, and a keyed task no worker can*)
(* retry has its function entered at most once.                            *)
THEOREM KeysOnce == Spec => []KeyedOnce
<1>1. IInv => KeyedOnce
  BY DEF IInv, OncePerKey, KeyedOnce
<1>2. QED BY <1>1, Inductive, PTL

(* What CompletedIsFinal says of one step.                                 *)
FinalStep == \A t \in Task : row[t].status = "COMPLETED" /\ row'[t].status # "COMPLETED"
                               => t \in disturbed'

(* No step reopens a completed task, unless the task is disturbed.         *)
LEMMA CompletedStep == IInv /\ [Next]_vars => FinalStep
<1> SUFFICES ASSUME IInv, [Next]_vars, NEW t \in Task,
                    row[t].status = "COMPLETED", row'[t].status # "COMPLETED"
             PROVE  t \in disturbed'
  BY DEF FinalStep
<1>0. /\ \A u \in Task : row[u] \in RowType
      /\ \A e \in Executor : Holding(e) => job[e] \in Task
      /\ row \in [Task -> RowType]
  BY DEF IInv, TypeOK, Holding
<1>1. ASSUME Tick PROVE FALSE
  BY <1>0, <1>1, AgedColumns DEF Tick
<1>2. ASSUME NEW r \in Runner, NEW u \in Task, CreateTask(r, u) PROVE FALSE
  <2>1. \A v \in Task : v # u => row'[v] = row[v]
    BY <1>0, <1>2 DEF CreateTask
  <2>2. QED BY <1>2, <2>1 DEF CreateTask, Exists
<1>3. ASSUME NEW r \in Runner, StartTask(r) PROVE t \in disturbed'
  <2>1. job[r] = t
    BY <1>0, <1>3 DEF StartTask
  <2>2. Starting(r, t)
    BY <1>3, <2>1 DEF StartTask, Starting
  <2>3. QED BY <1>3, <2>2 DEF StartTask, IInv, StartsPending
<1>4. ASSUME NEW e \in Executor, ExecutorStep(e) PROVE t \in disturbed'
  <2>1. CASE CompleteTask(e)
    BY <1>0, <2>1, UpdateColumns DEF CompleteTask, Holding
  <2>2. CASE FailRead(e)
    BY <2>2 DEF FailRead
  <2>3. CASE FailTask(e)
    <3>1. job[e] = t
      BY <1>0, <2>3 DEF FailTask
    <3>2. Executing(e, t)
      BY <2>3, <3>1 DEF FailTask, Executing
    <3>3. QED BY <2>3, <3>2 DEF FailTask, IInv, SoleExecutor
  <2>4. QED BY <1>4, <2>1, <2>2, <2>3 DEF ExecutorStep
<1>5. ASSUME NEW w \in Worker, NEW u \in Task, LeaseTask(w, u) PROVE FALSE
  <2>1. CASE Runnable(row[u], passNow[w])
    <3>1. \A v \in Task : v # u => row'[v] = row[v]
      BY <1>0, <1>5, <2>1 DEF LeaseTask
    <3>2. QED BY <2>1, <3>1 DEF Runnable
  <2>2. CASE ~Runnable(row[u], passNow[w])
    BY <1>5, <2>2 DEF LeaseTask
  <2>3. QED BY <2>1, <2>2
<1>6. ASSUME NEW c \in Recoverer, NEW s \in sweep[c], RecoverTask(c, s) PROVE FALSE
  <2>1. CASE StillRunning(s.task)
    <3>1. \A v \in Task : v # s.task => row'[v] = row[v]
      BY <1>0, <1>6, <2>1 DEF RecoverTask
    <3>2. QED BY <2>1, <3>1 DEF StillRunning
  <2>2. CASE ~StillRunning(s.task)
    BY <1>6, <2>2 DEF RecoverTask
  <2>3. QED BY <2>1, <2>2
<1>7. ASSUME UNCHANGED row PROVE FALSE
  BY <1>7
<1>8. ASSUME NEW e \in Executor, CompleteUnlogged(e) PROVE FALSE
  BY <1>0, <1>8, UpdateColumns DEF CompleteUnlogged, Holding
<1>9. CASE Fault
  BY <1>7, <1>8, <1>9 DEF Fault, Crash, DbError, Lost
<1>10. QED
  BY <1>1, <1>2, <1>3, <1>4, <1>5, <1>6, <1>7, <1>9
  DEF Next, RunnerStep, WorkerStep, SweepStep, Lookup, BeginPass, CheckLease, EndPass,
      SkipUnhandled, BeginSweep, vars

(* A completed task is never reopened, with the same exceptions as for     *)
(* exclusive execution.                                                    *)
THEOREM CompletionFinal == Spec => CompletedIsFinal
<1>1. IInv /\ [Next]_vars => [FinalStep]_vars
  BY CompletedStep
<1>2. QED BY <1>1, Inductive, PTL DEF Spec, CompletedIsFinal, FinalStep

---------------------------------------------------------------------------
(* The ledger inside.                                                      *)

LEMMA LedgerStep == [AgentNext]_agentVars => [Next]_vars
<1> SUFFICES ASSUME [AgentNext]_agentVars PROVE [Next]_vars
  OBVIOUS
<1>1. CASE UNCHANGED agentVars
  BY <1>1 DEF agentVars
<1>2. CASE \E k \in Token : Issue(k) \/ SettlePurchase(k) \/ Lapse(k)
  BY <1>2 DEF Issue, SettlePurchase, Lapse
<1>3. CASE \E r \in Runner, k \in Token : Select(r, k)
  BY <1>3 DEF Select
<1>4. CASE \E r \in Runner : RequestStep(r)
  BY <1>4 DEF RequestStep, Count, Answer
<1>5. ASSUME NEW r \in Runner, NEW k \in Key \cup {NoKey}, SubmitOrder(r, k)
      PROVE  Next
  <2>1. OrderType \in Type /\ "run" \in Mode
    BY AgentAssumption DEF Mode
  <2>2. Lookup(r, k, OrderType, "run")
    BY <1>5 DEF SubmitOrder
  <2> QED
    BY <2>1, <2>2 DEF Next
<1>6. CASE SweepTokens
  BY <1>6 DEF SweepTokens
<1>7. ASSUME NEW p \in Process, CrashAll(p)
      PROVE  Next
  BY <1>7 DEF CrashAll, Next, Fault
<1>8. CASE Ledger
  BY <1>8 DEF Ledger, Next, Fault
<1> QED
  BY <1>1, <1>2, <1>3, <1>4, <1>5, <1>6, <1>7, <1>8 DEF AgentNext

(* The composition implements the ledger's specification, so that all that *)
(* is proved of the ledger holds with the agent routes as its callers.     *)
THEOREM AgentImplementsLedger == AgentSpec => Spec
<1>1. AgentInit => Init
  BY DEF AgentInit
<1> QED
  BY <1>1, LedgerStep, PTL DEF AgentSpec, Spec

(* An order's key names one task, whichever requests race for it, and the  *)
(* order is submitted at most once.                                        *)
THEOREM OrdersKeyedOnce == AgentSpec => []KeyedOnce
  BY AgentImplementsLedger, KeysOnce, PTL

---------------------------------------------------------------------------
(* The tokens.                                                             *)

(* A request between its select and its update saw a use left: unless two  *)
(* raced there is still one, and it is the only such request.              *)
LastUse ==
  \A r \in Runner : phase[r] = "counting" =>
    /\ shown[r] \in Token /\ grant[shown[r]] # None
    /\ shown[r] \notin raced => grant[shown[r]].used < MaxUses
    /\ \A q \in Runner :
         phase[q] = "counting" /\ shown[q] = shown[r] /\ shown[r] \notin raced => q = r

Admissions ==
  \A k \in Token : grant[k] # None =>
    grant[k].used = IF admitted[k] < MaxUses THEN admitted[k] ELSE MaxUses

Unissued == \A k \in Token : grant[k] = None => admitted[k] = 0 /\ k \notin delivered

MeterInv == AgentTypeOK /\ LastUse /\ Admissions /\ Unissued

LEMMA MeterInit == AgentInit => MeterInv
BY AgentAssumption
DEF AgentInit, MeterInv, AgentTypeOK, LastUse, Admissions, Unissued

LEMMA MeterStep == MeterInv /\ [AgentNext]_agentVars => MeterInv'
<1> SUFFICES ASSUME MeterInv, [AgentNext]_agentVars PROVE MeterInv'
  OBVIOUS
<1> USE AgentAssumption, NamesAssumption DEF MeterInv
<1>1. CASE UNCHANGED access
  BY <1>1 DEF access, AgentTypeOK, LastUse, Admissions, Unissued
<1>2. ASSUME NEW k \in Token, Issue(k)
      PROVE  MeterInv'
  <2>1. /\ grant[k] = None /\ admitted[k] = 0
        /\ grant' = [grant EXCEPT ![k] = [status |-> "ACTIVE", used |-> 0]]
        /\ UNCHANGED <<delivered, lapsed, phase, shown, read, admitted, raced>>
    BY <1>2 DEF Issue, Unissued
  <2>2. [status |-> "ACTIVE", used |-> 0] \in Grant /\ None \notin Grant
    BY DEF Grant
  <2>3. AgentTypeOK'
    BY <2>1, <2>2 DEF AgentTypeOK, Grant
  <2>4. LastUse'
    BY <2>1 DEF LastUse, AgentTypeOK
  <2>5. Admissions' /\ Unissued'
    BY <2>1, <2>2 DEF Admissions, Unissued, AgentTypeOK, Grant
  <2> QED
    BY <2>3, <2>4, <2>5
<1>3. ASSUME NEW k \in Token, SettlePurchase(k) \/ Lapse(k)
      PROVE  MeterInv'
  BY <1>3 DEF SettlePurchase, Lapse, AgentTypeOK, LastUse, Admissions, Unissued
<1>4. ASSUME NEW r \in Runner, NEW k \in Token, Select(r, k)
      PROVE  MeterInv'
  <2>0. k \in delivered /\ grant[k].used < MaxUses /\ grant[k] \in {None} \cup Grant
    BY <1>4 DEF Select, Usable, AgentTypeOK
  <2>1. /\ grant[k] # None /\ grant[k].used < MaxUses /\ grant[k].used \in 0 .. MaxUses
        /\ phase[r] = "idle"
        /\ phase' = [phase EXCEPT ![r] = "counting"] /\ shown' = [shown EXCEPT ![r] = k]
        /\ read' = [read EXCEPT ![r] = grant[k].used]
        /\ raced' = IF \E q \in Runner : phase[q] = "counting" /\ shown[q] = k
                      THEN raced \cup {k} ELSE raced
        /\ UNCHANGED <<grant, delivered, lapsed, admitted>>
    BY <1>4, <2>0 DEF Select, Unissued, Grant
  <2>2. AgentTypeOK'
    BY <2>1 DEF AgentTypeOK
  <2>3. LastUse'
    BY <2>1 DEF LastUse, AgentTypeOK
  <2>4. Admissions' /\ Unissued'
    BY <2>1 DEF Admissions, Unissued
  <2> QED
    BY <2>2, <2>3, <2>4
<1>5. ASSUME NEW r \in Runner, Count(r)
      PROVE  MeterInv'
  <2> DEFINE k == shown[r]
  <2>1. /\ phase[r] = "counting" /\ k \in Token /\ grant[k] \in Grant
        /\ grant' = [grant EXCEPT ![k] = Counted(r)]
        /\ admitted' = [admitted EXCEPT ![k] = admitted[k] + 1]
        /\ phase' = [phase EXCEPT ![r] = "admitted"]
        /\ shown' = [shown EXCEPT ![r] = None] /\ read' = [read EXCEPT ![r] = 0]
        /\ UNCHANGED <<delivered, lapsed, raced>>
    BY <1>5 DEF Count, LastUse, AgentTypeOK, Grant
  <2> DEFINE u == grant[k].used
  <2>2. /\ Counted(r) \in Grant /\ None \notin Grant
        /\ Counted(r).used = IF u < MaxUses THEN u + 1 ELSE MaxUses
    <3>1. u \in 0 .. MaxUses /\ StatusAfter(r) \in {"ACTIVE", "USED", "EXPIRED"}
      BY <2>1 DEF Grant, StatusAfter
    <3>2. CASE u < MaxUses
      <4>1. Counted(r) = [status |-> StatusAfter(r), used |-> u + 1] /\ u + 1 \in 0 .. MaxUses
        BY <3>1, <3>2 DEF Counted
      <4> QED
        BY <3>1, <3>2, <4>1 DEF Grant
    <3>3. CASE ~(u < MaxUses)
      <4>1. Counted(r) = grant[k] /\ u = MaxUses
        BY <3>1, <3>3 DEF Counted
      <4> QED
        BY <2>1, <3>3, <4>1
    <3> QED
      BY <3>2, <3>3
  <2>3. admitted[k] \in Nat /\ u = IF admitted[k] < MaxUses THEN admitted[k] ELSE MaxUses
    BY <2>1 DEF Admissions, AgentTypeOK
  <2>4. AgentTypeOK'
    BY <2>1, <2>2, <2>3 DEF AgentTypeOK, Grant
  <2>5. LastUse'
    BY <2>1, <2>2 DEF LastUse, AgentTypeOK
  <2>6. Admissions'
    BY <2>1, <2>2, <2>3 DEF Admissions, AgentTypeOK
  <2>7. Unissued'
    BY <2>1, <2>2 DEF Unissued, Grant
  <2> QED
    BY <2>4, <2>5, <2>6, <2>7
<1>6. ASSUME NEW r \in Runner, Leave(r), OutsideRequest
      PROVE  MeterInv'
  BY <1>6 DEF Leave, OutsideRequest, AgentTypeOK, LastUse, Admissions, Unissued
<1>7. CASE SweepTokens
  <2>1. /\ grant' = [k \in Token |-> IF Expired(k) THEN [grant[k] EXCEPT !.status = "EXPIRED"]
                                              ELSE grant[k]]
        /\ UNCHANGED <<delivered, lapsed, phase, shown, read, admitted, raced>>
    BY <1>7 DEF SweepTokens
  <2>2. ASSUME NEW k \in Token
        PROVE  /\ grant'[k] \in {None} \cup Grant
               /\ (grant'[k] = None) <=> (grant[k] = None)
               /\ grant[k] # None => grant'[k].used = grant[k].used
    <3>1. CASE Expired(k)
      <4>1. grant[k] \in Grant /\ grant'[k] = [grant[k] EXCEPT !.status = "EXPIRED"]
        BY <2>1, <3>1 DEF Expired, AgentTypeOK, Grant
      <4>2. grant'[k] = [status |-> "EXPIRED", used |-> grant[k].used]
        BY <4>1 DEF Grant
      <4> QED
        BY <4>1, <4>2 DEF Grant
    <3>2. CASE ~Expired(k)
      BY <2>1, <3>2 DEF AgentTypeOK, Grant
    <3> QED
      BY <3>1, <3>2
  <2>3. AgentTypeOK'
    BY <2>1, <2>2 DEF AgentTypeOK, Grant
  <2>4. LastUse'
    BY <2>1, <2>2 DEF LastUse
  <2>5. Admissions' /\ Unissued'
    BY <2>1, <2>2 DEF Admissions, Unissued
  <2> QED
    BY <2>3, <2>4, <2>5
<1>8. ASSUME NEW p \in Process, CrashAll(p)
      PROVE  MeterInv'
  BY <1>8 DEF CrashAll, AgentTypeOK, LastUse, Admissions, Unissued
<1> QED
  BY <1>1, <1>2, <1>3, <1>4, <1>5, <1>6, <1>7, <1>8
  DEF AgentNext, RequestStep, Answer, SubmitOrder, Ledger, agentVars

(* The requests that may still be let in on what they read of token k.     *)
Pending(k) == {r \in Runner : phase[r] = "counting" /\ shown[r] = k}

(* Once the last use is spent nobody else reads a use, so that those       *)
(* pending then are all that can share it.                                 *)
Sharing ==
  /\ \A k \in Token : grant[k] # None /\ ~(grant[k].used < MaxUses) =>
       admitted[k] + Cardinality(Pending(k)) <= MaxUses + Unspent(k)
  /\ \A k \in raced : Cardinality(Runner) >= 1

(* There are finitely many of them, and no more than there are requests.   *)
LEMMA PendingCount ==
  ASSUME NEW s \in SUBSET Runner
  PROVE  IsFiniteSet(s) /\ Cardinality(s) \in Nat /\ Cardinality(s) <= Cardinality(Runner)
         /\ Cardinality(Runner) \in Nat
  BY AgentAssumption, FS_Subset, FS_CardinalityType

LEMMA SharingInit == AgentInit => Sharing
  BY DEF AgentInit, Sharing

(* A step that neither issues nor selects nor counts: whoever is pending   *)
(* was, and what is spent stays so.                                        *)
LEMMA SharingKept ==
  ASSUME Sharing, AgentTypeOK, raced' = raced, admitted' = admitted,
         \A k \in Token : /\ Pending(k)' \subseteq Pending(k)
                          /\ grant'[k] # None => grant[k] # None /\ grant'[k].used = grant[k].used
  PROVE  Sharing'
<1>1. ASSUME NEW k \in Token, grant'[k] # None, ~(grant'[k].used < MaxUses)
      PROVE  admitted'[k] + Cardinality(Pending(k)') <= MaxUses + Unspent(k)'
  <2>1. Cardinality(Pending(k)') <= Cardinality(Pending(k))
    <3>1. IsFiniteSet(Pending(k))
      BY PendingCount DEF Pending
    <3> QED BY <3>1, FS_Subset
  <2>2. Cardinality(Pending(k)') \in Nat /\ Cardinality(Pending(k)) \in Nat
    BY PendingCount DEF Pending
  <2>3. admitted[k] + Cardinality(Pending(k)) <= MaxUses + Unspent(k)
    BY <1>1 DEF Sharing
  <2>4. admitted[k] \in Nat /\ MaxUses \in Nat /\ Unspent(k) \in Int /\ Unspent(k)' = Unspent(k)
    BY AgentAssumption, PendingCount DEF AgentTypeOK, Unspent
  <2> QED BY <2>1, <2>2, <2>3, <2>4
<1>2. \A k \in raced' : Cardinality(Runner) >= 1
  BY DEF Sharing
<1> QED BY <1>1, <1>2 DEF Sharing

(* A request that reads a use leaves one: the others' tokens are untouched.*)
LEMMA SharingSelect ==
  ASSUME Sharing, MeterInv, NEW r \in Runner, NEW k \in Token, Select(r, k)
  PROVE  Sharing'
<1>1. /\ grant[k].used < MaxUses /\ phase[r] = "idle"
      /\ phase' = [phase EXCEPT ![r] = "counting"] /\ shown' = [shown EXCEPT ![r] = k]
      /\ raced' \subseteq raced \cup {k} /\ raced \subseteq raced'
      /\ UNCHANGED <<grant, admitted>>
  BY DEF Select, Usable
<1>2. ASSUME NEW j \in Token, grant'[j] # None, ~(grant'[j].used < MaxUses)
      PROVE  admitted'[j] + Cardinality(Pending(j)') <= MaxUses + Unspent(j)'
  <2>1. j # k
    BY <1>1, <1>2
  <2>2. Pending(j)' = Pending(j) /\ Unspent(j)' = Unspent(j)
    BY <1>1, <2>1 DEF Pending, Unspent, MeterInv, AgentTypeOK
  <2> QED BY <1>1, <1>2, <2>2 DEF Sharing
<1>3. Cardinality(Runner) >= 1
  <2>1. Cardinality({r}) <= Cardinality(Runner)
    BY PendingCount
  <2> QED BY <2>1, FS_Singleton
<1> QED BY <1>2, <1>3 DEF Sharing

(* The request that spends the last use is no longer among those that      *)
(* share it; one that shares it stops being pending as it is let in.       *)
LEMMA SharingCount ==
  ASSUME Sharing, MeterInv, NEW r \in Runner, Count(r)
  PROVE  Sharing'
<1> USE AgentAssumption DEF MeterInv
<1>0. PICK k \in Token : k = shown[r]
  BY DEF Count, LastUse
<1>1. /\ phase[r] = "counting" /\ k = shown[r] /\ grant[k] \in Grant
      /\ grant' = [grant EXCEPT ![k] = Counted(r)]
      /\ admitted' = [admitted EXCEPT ![k] = admitted[k] + 1]
      /\ phase' = [phase EXCEPT ![r] = "admitted"]
      /\ shown' = [shown EXCEPT ![r] = None]
      /\ UNCHANGED raced
  BY <1>0 DEF Count, LastUse, AgentTypeOK, Grant
<1>2. \A j \in Token : Pending(j)' = Pending(j) \ {r} /\ Unspent(j)' = Unspent(j)
  BY <1>1, NamesAssumption DEF Pending, Unspent, AgentTypeOK
<1>3. r \in Pending(k) /\ \A j \in Token \ {k} : r \notin Pending(j)
  BY <1>1 DEF Pending
<1>4. ASSUME NEW j \in Token \ {k}, grant'[j] # None, ~(grant'[j].used < MaxUses)
      PROVE  admitted'[j] + Cardinality(Pending(j)') <= MaxUses + Unspent(j)'
  <2>1. grant'[j] = grant[j] /\ admitted'[j] = admitted[j]
    BY <1>1 DEF AgentTypeOK
  <2>2. Pending(j)' = Pending(j) /\ Unspent(j)' = Unspent(j)
    BY <1>2, <1>3
  <2> QED BY <1>4, <2>1, <2>2 DEF Sharing
<1>5. ASSUME ~(grant'[k].used < MaxUses)
      PROVE  admitted'[k] + Cardinality(Pending(k)') <= MaxUses + Unspent(k)'
  <2> DEFINE u == grant[k].used
  <2>1. /\ u \in 0 .. MaxUses /\ admitted[k] \in Nat /\ admitted'[k] = admitted[k] + 1
        /\ grant[k] # None /\ u = IF admitted[k] < MaxUses THEN admitted[k] ELSE MaxUses
    BY <1>1 DEF Grant, AgentTypeOK, Admissions
  <2>2. /\ Cardinality(Pending(k)') = Cardinality(Pending(k)) - 1
        /\ Cardinality(Pending(k)) \in Nat /\ Cardinality(Pending(k)) <= Cardinality(Runner)
        /\ Cardinality(Runner) \in Nat
    <3>1. IsFiniteSet(Pending(k)) /\ Pending(k) \in SUBSET Runner
      BY PendingCount DEF Pending
    <3> QED BY <1>2, <1>3, <1>1, <3>1, FS_RemoveElement, PendingCount
  <2>3. Unspent(k)' = Unspent(k) /\ Unspent(k) \in Int
    BY <1>1, <1>2, <2>2 DEF Unspent
  <2>4. CASE ~(u < MaxUses)
    <3>1. admitted[k] + Cardinality(Pending(k)) <= MaxUses + Unspent(k)
      BY <1>1, <2>1, <2>4 DEF Sharing
    <3> QED BY <2>1, <2>2, <2>3, <3>1
  <2>5. CASE u < MaxUses
    <3>1. grant'[k].used = u + 1
      BY <1>1, <2>5 DEF Counted, AgentTypeOK
    <3>2. admitted'[k] = MaxUses
      BY <1>5, <2>1, <2>5, <3>1
    <3>3. CASE k \in raced
      BY <2>2, <2>3, <3>2, <3>3 DEF Unspent
    <3>4. CASE k \notin raced
      <4>1. Pending(k)' = {}
        BY <1>1, <1>2, <3>4 DEF LastUse, Pending
      <4> QED BY <2>3, <3>2, <3>4, <4>1, FS_EmptySet DEF Unspent
    <3> QED BY <3>3, <3>4
  <2> QED BY <2>4, <2>5, <2>1
<1>6. \A j \in raced' : Cardinality(Runner) >= 1
  BY <1>1 DEF Sharing
<1> QED BY <1>4, <1>5, <1>6 DEF Sharing

LEMMA SharingStep == MeterInv /\ Sharing /\ [AgentNext]_agentVars => Sharing'
<1> SUFFICES ASSUME MeterInv, Sharing, [AgentNext]_agentVars PROVE Sharing'
  OBVIOUS
<1>0. AgentTypeOK
  BY DEF MeterInv
<1>1. CASE UNCHANGED access
  BY <1>0, <1>1, SharingKept DEF access, Pending
<1>2. ASSUME NEW k \in Token, Issue(k)
      PROVE  Sharing'
  <2>1. /\ grant' = [grant EXCEPT ![k] = [status |-> "ACTIVE", used |-> 0]]
        /\ UNCHANGED <<phase, shown, admitted, raced>>
    BY <1>2 DEF Issue
  <2>2. grant'[k].used < MaxUses /\ \A j \in Token \ {k} : grant'[j] = grant[j]
    BY <1>0, <2>1, AgentAssumption DEF AgentTypeOK
  <2> QED BY <2>1, <2>2 DEF Sharing, Pending, Unspent
<1>3. ASSUME NEW k \in Token, SettlePurchase(k) \/ Lapse(k)
      PROVE  Sharing'
  BY <1>0, <1>3, SharingKept DEF SettlePurchase, Lapse, Pending
<1>4. ASSUME NEW r \in Runner, Leave(r), OutsideRequest
      PROVE  Sharing'
  BY <1>0, <1>4, SharingKept DEF Leave, OutsideRequest, Pending, AgentTypeOK
<1>5. CASE SweepTokens
  <2>1. /\ grant' = [k \in Token |-> IF Expired(k) THEN [grant[k] EXCEPT !.status = "EXPIRED"]
                                              ELSE grant[k]]
        /\ UNCHANGED <<phase, shown, admitted, raced>>
    BY <1>5 DEF SweepTokens
  <2>2. \A k \in Token : grant'[k] # None => grant[k] # None /\ grant'[k].used = grant[k].used
    BY <1>0, <2>1 DEF Expired, AgentTypeOK, Grant
  <2> QED BY <1>0, <2>1, <2>2, SharingKept DEF Pending
<1>6. ASSUME NEW p \in Process, CrashAll(p)
      PROVE  Sharing'
  BY <1>0, <1>6, SharingKept DEF CrashAll, Pending
<1> QED
  BY <1>1, <1>2, <1>3, <1>4, <1>5, <1>6, SharingSelect, SharingCount
  DEF AgentNext, RequestStep, Answer, SubmitOrder, Ledger, agentVars

(* What a token admitted is covered by its uses, but for the requests that *)
(* share the last one.                                                     *)
LEMMA AdmittedCovered ==
  ASSUME MeterInv, Sharing, NEW k \in Token
  PROVE  /\ admitted[k] \in Nat /\ Covered(k) \in Nat /\ admitted[k] <= Covered(k)
         /\ grant[k] # None => admitted[k] <= MaxUses + Unspent(k)
<1> USE AgentAssumption DEF MeterInv
<1>1. CASE grant[k] = None
  BY <1>1 DEF Unissued, AgentTypeOK, Covered
<1>2. CASE grant[k] # None
  <2>1. grant[k].used \in 0 .. MaxUses /\ admitted[k] \in Nat
    BY <1>2 DEF AgentTypeOK, Grant
  <2>2. grant[k].used = IF admitted[k] < MaxUses THEN admitted[k] ELSE MaxUses
    BY <1>2 DEF Admissions
  <2>3. Unspent(k) \in Nat
    BY PendingCount DEF Sharing, Unspent
  <2>4. ~(grant[k].used < MaxUses) => admitted[k] <= MaxUses + Unspent(k)
    <3>1. Cardinality(Pending(k)) \in Nat
      BY PendingCount DEF Pending
    <3> QED BY <1>2, <2>1, <2>3, <3>1 DEF Sharing
  <2> QED BY <1>2, <2>1, <2>2, <2>3, <2>4 DEF Covered
<1> QED BY <1>1, <1>2

LEMMA MeterAlways == AgentSpec => [](MeterInv /\ Sharing)
  BY MeterInit, MeterStep, SharingInit, SharingStep, PTL DEF AgentSpec

(* A token counts each request it admits and admits no more than were      *)
(* bought, but for the requests that shared its last use.                  *)
THEOREM TokensMetered == AgentSpec => []Metered
<1>1. MeterInv /\ Sharing => Metered
  BY AdmittedCovered DEF MeterInv, Admissions, Metered
<1> QED
  BY <1>1, MeterAlways, PTL
---------------------------------------------------------------------------
(* The orders.                                                             *)

(* Every row is an order, so that no worker ever enters its function.      *)
OnlyOrders ==
  /\ \A t \in Task : Exists(t) => row[t].type = OrderType
  /\ \A r \in Runner : pc[r] = "inserting" => want[r].type = OrderType /\ want[r].mode = "run"
  /\ \A r \in Runner : phase[r] # "idle" => pc[r] = "idle"

(* Requests that were admitted and have not yet entered the function.      *)
Owed == {r \in Runner : phase[r] = "admitted" \/ pc[r] \in {"inserting", "created"}}
Paid == SumFunctionOnSet(runs, Task) + Cardinality(Owed) <= SumFunctionOnSet(admitted, Token)

PaidInv == OnlyOrders /\ Paid

LEMMA PaidInit == AgentInit => PaidInv
<1> SUFFICES ASSUME AgentInit PROVE PaidInv
  OBVIOUS
<1>1. OnlyOrders
  BY DEF AgentInit, Init, OnlyOrders, Exists, NoRow, Executor
<1>2. Owed = {}
  BY DEF AgentInit, Init, Owed, Executor
<1>3. SumFunctionOnSet(runs, Task) = 0
  <2>1. \A t \in Task : runs[t] = 0
    BY DEF AgentInit, Init
  <2> QED
    BY <2>1, SumZero, AgentAssumption
<1>4. SumFunctionOnSet(admitted, Token) \in Nat
  BY SumSplit, AgentAssumption DEF AgentInit
<1>5. Cardinality(Owed) = 0
  BY <1>2, FS_EmptySet
<1> QED
  BY <1>1, <1>3, <1>4, <1>5 DEF PaidInv, Paid

(* The sums are numbers, and so is the count of those owed.                *)
LEMMA PaidTypes ==
  ASSUME TypeOK, AgentTypeOK
  PROVE  /\ SumFunctionOnSet(runs, Task) \in Nat
         /\ SumFunctionOnSet(admitted, Token) \in Nat
         /\ IsFiniteSet(Owed) /\ Cardinality(Owed) \in Nat
<1>1. IsFiniteSet(Owed)
  BY FS_Subset, AgentAssumption DEF Owed
<1>2. \A t \in Task : runs[t] \in Nat
  BY DEF TypeOK
<1>3. \A k \in Token : admitted[k] \in Nat
  BY DEF AgentTypeOK
<1> QED
  BY <1>1, <1>2, <1>3, SumSplit, FS_CardinalityType, AgentAssumption

(* A step that neither admits a request nor enters a function owes no more *)
(* than before.                                                            *)
LEMMA PaidKept ==
  ASSUME TypeOK, AgentTypeOK, Paid, runs' = runs, admitted' = admitted, Owed' \subseteq Owed
  PROVE  Paid'
<1>1. Cardinality(Owed') \in Nat /\ Cardinality(Owed') <= Cardinality(Owed)
  BY PaidTypes, FS_Subset, FS_CardinalityType
<1>2. Paid' <=> SumFunctionOnSet(runs, Task) + Cardinality(Owed') <= SumFunctionOnSet(admitted, Token)
  BY DEF Paid
<1> QED
  BY <1>1, <1>2, PaidTypes DEF Paid

(* An admitted request is one more use and one more order owed at most.    *)
LEMMA PaidCount ==
  ASSUME TypeOK, AgentTypeOK, Paid, NEW r \in Runner, Count(r), shown[r] \in Token,
         Owed' \subseteq Owed \cup {r}
  PROVE  Paid'
<1>0. PICK k \in Token : k = shown[r]
  OBVIOUS
<1>5. IsFiniteSet(Token) /\ IsFiniteSet(Owed) /\ Cardinality(Owed) \in Nat
  BY PaidTypes, AgentAssumption
<1>1. /\ admitted' = [admitted EXCEPT ![k] = admitted[k] + 1] /\ runs' = runs
  BY <1>0 DEF Count, vars
<1>2. SumFunctionOnSet(admitted', Token) = SumFunctionOnSet(admitted, Token) + 1
  <2>1. \A j \in Token : admitted[j] \in Nat /\ admitted'[j] \in Nat
    BY <1>1 DEF AgentTypeOK
  <2>2. \A j \in Token \ {k} : admitted[j] = admitted'[j]
    BY <1>1 DEF AgentTypeOK
  <2>3. admitted'[k] = admitted[k] + 1
    BY <1>1 DEF AgentTypeOK
  <2>4. SumFunctionOnSet(admitted', Token) + admitted[k] = SumFunctionOnSet(admitted, Token) + admitted'[k]
    BY <1>5, <2>1, <2>2, SumChange
  <2>5. SumFunctionOnSet(admitted', Token) \in Nat /\ SumFunctionOnSet(admitted, Token) \in Nat
    BY <2>1, SumSplit, AgentAssumption
  <2> QED
    BY <2>1, <2>3, <2>4, <2>5
<1>3. Cardinality(Owed') \in Nat /\ Cardinality(Owed') <= Cardinality(Owed) + 1
  <2>1. IsFiniteSet(Owed \cup {r}) /\ Cardinality(Owed \cup {r}) <= Cardinality(Owed) + 1
    <3>1. /\ IsFiniteSet(Owed \cup {r})
          /\ Cardinality(Owed \cup {r})
               = IF r \in Owed THEN Cardinality(Owed) ELSE Cardinality(Owed) + 1
      BY <1>5, FS_AddElement, Zenon
    <3>2. \A n \in Nat : n <= n + 1
      OBVIOUS
    <3> QED
      BY <1>5, <3>1, <3>2
  <2>2. Cardinality(Owed') \in Nat /\ Cardinality(Owed') <= Cardinality(Owed \cup {r})
    BY <2>1, FS_Subset, FS_CardinalityType
  <2>3. Cardinality(Owed \cup {r}) \in Nat
    BY <2>1, FS_CardinalityType
  <2> QED
    BY <2>1, <2>2, <2>3, PaidTypes
<1>4. Paid' <=> SumFunctionOnSet(runs, Task) + Cardinality(Owed') <= SumFunctionOnSet(admitted', Token)
  BY <1>1 DEF Paid
<1> QED
  BY <1>2, <1>3, <1>4, PaidTypes DEF Paid

(* A function entry takes its request off those owed.                      *)
LEMMA PaidStart ==
  ASSUME TypeOK, AgentTypeOK, Paid, NEW r \in Runner, StartTask(r), job[r] \in Task,
         admitted' = admitted, Owed' \subseteq Owed \ {r}
  PROVE  Paid'
<1> DEFINE t == job[r]
<1>1. runs' = [runs EXCEPT ![t] = runs[t] + 1]
  BY DEF StartTask
<1>2. SumFunctionOnSet(runs', Task) = SumFunctionOnSet(runs, Task) + 1
  <2>1. \A j \in Task : runs[j] \in Nat /\ runs'[j] \in Nat
    BY <1>1 DEF TypeOK
  <2>2. \A j \in Task \ {t} : runs[j] = runs'[j]
    BY <1>1 DEF TypeOK
  <2>3. runs'[t] = runs[t] + 1
    BY <1>1 DEF TypeOK
  <2>4. SumFunctionOnSet(runs', Task) + runs[t] = SumFunctionOnSet(runs, Task) + runs'[t]
    BY <2>1, <2>2, SumChange, AgentAssumption
  <2>5. SumFunctionOnSet(runs', Task) \in Nat /\ SumFunctionOnSet(runs, Task) \in Nat
    BY <2>1, SumSplit, AgentAssumption
  <2> QED
    BY <2>1, <2>3, <2>4, <2>5
<1>3. Cardinality(Owed') \in Nat /\ Cardinality(Owed') <= Cardinality(Owed) - 1
  <2>1. r \in Owed
    BY DEF StartTask, Owed
  <2>2. IsFiniteSet(Owed \ {r}) /\ Cardinality(Owed \ {r}) = Cardinality(Owed) - 1
    BY <2>1, PaidTypes, FS_RemoveElement
  <2>3. Cardinality(Owed') \in Nat /\ Cardinality(Owed') <= Cardinality(Owed \ {r})
    BY <2>2, FS_Subset, FS_CardinalityType
  <2> QED
    BY <2>2, <2>3, PaidTypes
<1>4. Paid' <=> SumFunctionOnSet(runs', Task) + Cardinality(Owed') <= SumFunctionOnSet(admitted, Token)
  BY DEF Paid
<1> QED
  BY <1>2, <1>3, <1>4, PaidTypes DEF Paid

(* A step that only ends calls, or moves them on, leaves orders orders.    *)
LEMMA OrdersKept ==
  ASSUME OnlyOrders,
         \A t \in Task : Exists(t)' => Exists(t) /\ row'[t].type = row[t].type,
         want' = want \/ \A r \in Runner : pc'[r] # "inserting" \/ want'[r] = want[r],
         \A r \in Runner : pc'[r] = "inserting" => pc[r] = "inserting",
         \A r \in Runner : phase'[r] # "idle" => phase[r] # "idle" \/ pc'[r] = "idle",
         \A r \in Runner : pc[r] = "idle" => pc'[r] = "idle"
  PROVE  OnlyOrders'
BY DEF OnlyOrders

LEMMA PaidStep ==
  ASSUME IInv, MeterInv, PaidInv, [AgentNext]_agentVars
  PROVE  PaidInv'
<1>0. /\ TypeOK /\ AgentTypeOK /\ OnlyOrders /\ Paid /\ Facts /\ HeldRowsExist /\ Ownership
      /\ DOMAIN phase = Runner /\ DOMAIN pc = Executor /\ Runner \subseteq Executor
      /\ Worker \subseteq Executor /\ Runner \cap Worker = {}
  BY Typed, NamesAssumption DEF IInv, MeterInv, PaidInv, AgentTypeOK, TypeOK, Executor
<1>1. \A w \in Worker : ~Holding(w) /\ \A t \in batch[w] : row[t].type \notin Handled
  BY <1>0, AgentAssumption DEF HeldRowsExist, OnlyOrders, Ownership, Facts
<1>2. ASSUME UNCHANGED <<row, pc, want, phase, runs, admitted>>
      PROVE  PaidInv'
  <2>1. OnlyOrders'
    BY <1>0, <1>2 DEF OnlyOrders, Exists
  <2>2. Owed' \subseteq Owed
    BY <1>2 DEF Owed
  <2> QED
    BY <1>0, <1>2, <2>1, <2>2, PaidKept DEF PaidInv
<1>3. ASSUME NEW r \in Runner, NEW k \in Token, Select(r, k)
      PROVE  PaidInv'
  <2>1. /\ phase' = [phase EXCEPT ![r] = "counting"] /\ pc[r] = "idle"
        /\ UNCHANGED <<row, pc, want, runs, admitted>>
    BY <1>3 DEF Select, vars
  <2>2. OnlyOrders'
    BY <1>0, <2>1 DEF OnlyOrders, Exists
  <2>3. Owed' \subseteq Owed
    BY <1>0, <2>1 DEF Owed
  <2> QED
    BY <1>0, <2>1, <2>2, <2>3, PaidKept DEF PaidInv
<1>4. ASSUME NEW r \in Runner, Count(r)
      PROVE  PaidInv'
  <2>1. /\ phase' = [phase EXCEPT ![r] = "admitted"] /\ phase[r] = "counting"
        /\ UNCHANGED <<row, pc, want, runs>>
    BY <1>4 DEF Count, vars
  <2>2. OnlyOrders'
    BY <1>0, <2>1 DEF OnlyOrders, Exists
  <2>3. Owed' \subseteq Owed \cup {r}
    BY <1>0, <2>1 DEF Owed
  <2>4. shown[r] \in Token
    BY <2>1 DEF MeterInv, LastUse
  <2> QED
    BY <1>0, <1>4, <2>2, <2>3, <2>4, PaidCount DEF PaidInv
<1>5. ASSUME NEW r \in Runner, Answer(r)
      PROVE  PaidInv'
  <2>1. /\ phase' = [phase EXCEPT ![r] = "idle"]
        /\ UNCHANGED <<row, pc, want, runs, admitted>>
    BY <1>5 DEF Answer, Leave, OutsideRequest, vars
  <2>2. OnlyOrders'
    BY <1>0, <2>1 DEF OnlyOrders, Exists
  <2>3. Owed' \subseteq Owed
    BY <1>0, <2>1 DEF Owed
  <2> QED
    BY <1>0, <2>1, <2>2, <2>3, PaidKept DEF PaidInv
<1>6. ASSUME NEW r \in Runner, NEW k \in Key \cup {NoKey}, SubmitOrder(r, k)
      PROVE  PaidInv'
  <2>1. /\ phase' = [phase EXCEPT ![r] = "idle"] /\ phase[r] = "admitted"
        /\ pc' = [pc EXCEPT ![r] = "inserting"]
        /\ want' = [want EXCEPT ![r] = [key |-> k, type |-> OrderType, mode |-> "run"]]
        /\ UNCHANGED <<row, runs, admitted>>
    BY <1>6 DEF SubmitOrder, Lookup, Leave, OutsideRequest
  <2>2. OnlyOrders'
    BY <1>0, <2>1 DEF OnlyOrders, Exists, TypeOK
  <2>3. Owed' \subseteq Owed
    BY <1>0, <2>1 DEF Owed
  <2> QED
    BY <1>0, <2>1, <2>2, <2>3, PaidKept DEF PaidInv
<1>7. ASSUME NEW dead, Lost(dead), admitted' = admitted,
             \A r \in Runner : phase'[r] \in {"idle", phase[r]}
      PROVE  PaidInv'
  <2>1. /\ \A r \in Runner : pc'[r] = "idle" \/ (pc'[r] = pc[r] /\ want'[r] = want[r])
        /\ UNCHANGED <<row, runs>>
    BY <1>0, <1>7 DEF Lost
  <2>2. OnlyOrders'
    BY <1>0, <1>7, <2>1, OrdersKept DEF Exists
  <2>3. Owed' \subseteq Owed
    BY <1>7, <2>1 DEF Owed
  <2> QED
    BY <1>0, <1>7, <2>1, <2>2, <2>3, PaidKept DEF PaidInv
<1>8. ASSUME NEW p \in Process, CrashAll(p)
      PROVE  PaidInv'
  <2>1. \A r \in Runner : phase'[r] \in {"idle", phase[r]}
    BY <1>8 DEF CrashAll
  <2> QED
    BY <1>7, <1>8, <2>1 DEF CrashAll, Crash
<1>9. ASSUME Ledger
      PROVE  PaidInv'
  <2>0. phase' = phase /\ admitted' = admitted
    BY <1>9 DEF Ledger, access
  <2>1. CASE Tick
    <3>1. UNCHANGED <<pc, want, runs>> /\ \A t \in Task : row'[t] = Aged(row[t])
      BY <2>1 DEF Tick
    <3>2. \A t \in Task : Exists(t)' => Exists(t) /\ row'[t].type = row[t].type
      BY <1>0, <3>1, AgedColumns DEF Facts, Exists
    <3>3. OnlyOrders' /\ Owed' \subseteq Owed
      BY <1>0, <2>0, <3>1, <3>2, OrdersKept DEF Owed
    <3> QED
      BY <1>0, <2>0, <3>1, <3>3, PaidKept DEF PaidInv
  <2>2. ASSUME NEW r \in Runner, NEW t \in Task, CreateTask(r, t)
        PROVE  PaidInv'
    <3>1. /\ pc[r] = "inserting" /\ pc'[r] \in {"idle", "created"} /\ ~Exists(t)
          /\ \A q \in Runner \ {r} : pc'[q] = pc[q] /\ want'[q] = want[q]
          /\ row' = row \/ row' = [row EXCEPT ![t] = Queued(want[r].key, OrderType)]
          /\ UNCHANGED runs
      BY <1>0, <2>2 DEF CreateTask, OnlyOrders, TypeOK
    <3>2. \A u \in Task : Exists(u)' => (Exists(u) /\ row'[u] = row[u]) \/ row'[u].type = OrderType
      BY <1>0, <3>1, QueuedColumns DEF Exists, TypeOK
    <3>3. OnlyOrders'
      BY <1>0, <2>0, <3>1, <3>2 DEF OnlyOrders
    <3>4. Owed' \subseteq Owed
      BY <2>0, <3>1 DEF Owed
    <3> QED
      BY <1>0, <2>0, <3>1, <3>3, <3>4, PaidKept DEF PaidInv
  <2>3. ASSUME NEW r \in Runner, StartTask(r)
        PROVE  PaidInv'
    <3>1. /\ pc[r] = "created" /\ pc' = [pc EXCEPT ![r] = "run"] /\ want' = want
          /\ row' = [row EXCEPT ![job[r]] = Started(row[job[r]])]
          /\ job[r] \in Task /\ Exists(job[r])
      BY <1>0, <2>3 DEF StartTask, locals, Facts, Holding, HeldRowsExist
    <3>2. \A t \in Task : Exists(t)' => Exists(t) /\ row'[t].type = row[t].type
      BY <1>0, <3>1, UpdateColumns DEF Facts, Exists, TypeOK
    <3>3. OnlyOrders'
      BY <1>0, <2>0, <3>1, <3>2, OrdersKept
    <3>4. phase[r] = "idle"
      BY <1>0, <3>1 DEF OnlyOrders
    <3>5. Owed' \subseteq Owed \ {r}
      BY <1>0, <2>0, <3>1, <3>4 DEF Owed
    <3> QED
      BY <1>0, <2>0, <2>3, <3>1, <3>3, <3>5, PaidStart DEF PaidInv
  <2>4. ASSUME NEW e \in Executor, ExecutorStep(e) \/ CompleteUnlogged(e)
        PROVE  PaidInv'
    <3>1. /\ pc[e] \in {"run", "caught", "failing"}
          /\ \E to \in {"idle", "pass", "caught", "failing"} : pc' = [pc EXCEPT ![e] = to]
          /\ UNCHANGED <<want, runs>>
          /\ job[e] \in Task /\ Exists(job[e])
          /\ \/ row' = row
             \/ row' = [row EXCEPT ![job[e]] = Completed(row[job[e]])]
             \/ \E at : row' = [row EXCEPT ![job[e]] = Failed(row[job[e]], at)]
      BY <1>0, <2>4
      DEF ExecutorStep, CompleteTask, FailRead, FailTask, CompleteUnlogged, Return, locals,
          Facts, Holding, HeldRowsExist
    <3>2. \A t \in Task : Exists(t)' => Exists(t) /\ row'[t].type = row[t].type
      BY <1>0, <3>1, UpdateColumns DEF Facts, Exists, TypeOK
    <3>3. \A r \in Runner : pc'[r] = pc[r] \/ pc[r] \in {"run", "caught", "failing"}
      BY <1>0, <3>1
    <3>4. \A r \in Runner : pc'[r] # pc[r] => pc'[r] \notin {"inserting", "created"}
      BY <1>0, <3>1
    <3>5. OnlyOrders'
      BY <1>0, <2>0, <3>1, <3>2, <3>3, <3>4, OrdersKept
    <3>6. Owed' \subseteq Owed
      BY <2>0, <3>4 DEF Owed
    <3> QED
      BY <1>0, <2>0, <3>1, <3>5, <3>6, PaidKept DEF PaidInv
  <2>5. ASSUME NEW w \in Worker, WorkerStep(w)
        PROVE  PaidInv'
    <3>1. ~CheckLease(w) /\ \A t \in Task : ~LeaseTask(w, t)
      BY <1>0, <1>1 DEF CheckLease, Holding, LeaseTask
    <3>2. /\ \A r \in Runner : pc'[r] = pc[r]
          /\ UNCHANGED <<row, want, runs>>
      BY <1>0, <2>5, <3>1 DEF WorkerStep, BeginPass, EndPass, SkipUnhandled
    <3>3. OnlyOrders' /\ Owed' \subseteq Owed
      BY <1>0, <2>0, <3>2 DEF OnlyOrders, Owed, Exists
    <3> QED
      BY <1>0, <2>0, <3>2, <3>3, PaidKept DEF PaidInv
  <2>6. ASSUME NEW c \in Recoverer, SweepStep(c)
        PROVE  PaidInv'
    <3>1. /\ UNCHANGED <<pc, want, runs>>
          /\ \/ row' = row
             \/ \E t \in Task : \E at : /\ Exists(t)
                                         /\ row' = [row EXCEPT ![t] = Failed(row[t], at)]
      <4>1. CASE BeginSweep(c)
        BY <4>1 DEF BeginSweep
      <4>2. ASSUME NEW s \in sweep[c], RecoverTask(c, s)
            PROVE  /\ UNCHANGED <<pc, want, runs>>
                   /\ \/ row' = row
                      \/ \E t \in Task : \E at : /\ Exists(t)
                                                  /\ row' = [row EXCEPT ![t] = Failed(row[t], at)]
        <5>1. s.task \in Task /\ Exists(s.task)
          BY <1>0, <4>2 DEF Facts, HeldRowsExist
        <5> QED
          BY <4>2, <5>1 DEF RecoverTask
      <4> QED
        BY <2>6, <4>1, <4>2 DEF SweepStep
    <3>2. \A t \in Task : Exists(t)' => Exists(t) /\ row'[t].type = row[t].type
      BY <1>0, <3>1, UpdateColumns DEF Facts, Exists, TypeOK
    <3>3. OnlyOrders' /\ Owed' \subseteq Owed
      BY <1>0, <2>0, <3>1, <3>2, OrdersKept DEF Owed
    <3> QED
      BY <1>0, <2>0, <3>1, <3>3, PaidKept DEF PaidInv
  <2>7. ASSUME NEW a \in Actor, DbError(a)
        PROVE  PaidInv'
    BY <1>7, <2>0, <2>7 DEF DbError
  <2> QED
    BY <1>9, <2>1, <2>2, <2>3, <2>4, <2>5, <2>6, <2>7 DEF Ledger, RunnerStep
<1> QED
  <2>1. CASE UNCHANGED agentVars
    BY <1>2, <2>1 DEF agentVars, access, vars
  <2>2. ASSUME NEW k \in Token, Issue(k) \/ SettlePurchase(k) \/ Lapse(k)
        PROVE  PaidInv'
    BY <1>2, <2>2 DEF Issue, SettlePurchase, Lapse, vars
  <2>3. CASE SweepTokens
    BY <1>2, <2>3 DEF SweepTokens, vars
  <2> QED
    BY <1>3, <1>4, <1>5, <1>6, <1>8, <1>9, <2>1, <2>2, <2>3 DEF AgentNext, RequestStep

(* Every order the service submits was paid for: the functions entered     *)
(* never outnumber the uses spent and the requests that shared a last use, *)
(* whatever crashes and races.                                             *)
THEOREM OrdersPaid == AgentSpec => []OrdersWerePaid
<1>1. IInv /\ MeterInv /\ Sharing /\ PaidInv => OrdersWerePaid
  <2> SUFFICES ASSUME IInv, MeterInv, Sharing, PaidInv PROVE OrdersWerePaid
    OBVIOUS
  <2> DEFINE covered == [k \in Token |-> Covered(k)]
  <2>1. SumFunctionOnSet(runs, Task) <= SumFunctionOnSet(admitted, Token)
    BY PaidTypes DEF IInv, MeterInv, PaidInv, Paid
  <2>2. \A k \in Token : admitted[k] \in Nat /\ covered[k] \in Nat /\ admitted[k] <= covered[k]
    BY AdmittedCovered
  <2>3. SumFunctionOnSet(admitted, Token) <= SumFunctionOnSet(covered, Token)
    BY <2>2, SumMonotone, AgentAssumption, Zenon
  <2>4. SumFunctionOnSet(covered, Token) \in Nat
    BY <2>2, SumSplit, AgentAssumption
  <2> QED BY <2>1, <2>3, <2>4, PaidTypes DEF OrdersWerePaid, IInv, MeterInv
<1>2. IInv /\ MeterInv /\ PaidInv /\ [AgentNext]_agentVars => PaidInv'
  BY PaidStep
<1>3. AgentSpec => []IInv
  BY AgentImplementsLedger, Inductive, PTL
<1> QED
  BY <1>1, <1>2, <1>3, MeterAlways, PaidInit, PTL DEF AgentSpec
=============================================================================
