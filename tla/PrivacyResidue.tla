--------------------------- MODULE PrivacyResidue ---------------------------
(***************************************************************************)
(* Private text in the operational tables and its removal: what a request  *)
(* may store (matcher/src/privacy/redaction.ts), what counts as residue of *)
(* earlier releases and how it is scrubbed (privacy/scrub.ts), the warning *)
(* that enqueues the scrub (ops/invariants.ts) and the operator's script   *)
(* (scripts/scrub-private-task-data.ts).  Each statement on a table is a   *)
(* step; two processes may scrub at once, next to requests, and die.       *)
(* The task ledger itself is TaskStore's subject: a request here creates   *)
(* and starts its task in one step.                                        *)
(***************************************************************************)
EXTENDS Integers, FiniteSets

CONSTANTS
  Row,          \* ids of AGENT_SUBMIT_ORDER tasks
  Legacy,       \* those an earlier release left
  Client,       \* clientOrderIds
  None,
  MaxAttempts,  \* of the scrub task: 3
  MaxCrashes    \* bound of the model

ASSUME ResidueAssumption ==
  /\ IsFiniteSet(Row) /\ Legacy \subseteq Row
  /\ None \notin Row \cup Client
  /\ MaxAttempts \in Nat \ {0} /\ MaxCrashes \in Nat

Scrubber == {"worker", "script"}

VARIABLES
  row,          \* tasks: None or [key, text, result, status] of an order task
  eventText,    \* rows whose task_events still hold a private payload
  errorText,    \* whether a row of errors does
  task,         \* the scrub task: [status, attempts]
  report,       \* the reconciler: "idle", or whether its report warned
  pc,           \* the next statement of each run of scrubPrivateTaskResidue
  crashes,
  answered,     \* history: the order each client was first told of, under the hashed key
  former,       \* history: the one an earlier release told it of under its own id
  scrubbed      \* history: a run has finished

tables == <<row, eventText, errorText>>
told == <<answered, former>>
vars == <<tables, task, report, pc, crashes, told, scrubbed>>

Statuses == {"RUNNING", "COMPLETED", "FAILED"}
Texts == {"private", "public"}

(* Keys: agent:sha256:<hash> since the redaction, the client's own id      *)
(* before it, and what the scrub puts in the place of one.                 *)
Hashed(c) == <<"hashed", c>>
Raw(c) == <<"raw", c>>
Scrubbed(r) == <<"scrubbed", r>>
HashedKeys == {Hashed(c) : c \in Client}
Keys == HashedKeys \cup {Raw(c) : c \in Client} \cup {Scrubbed(r) : r \in Row} \cup {None}

(* A result tells of the order its task placed, named by the task.         *)
Result(text, r) == [text |-> text, order |-> r]
Rows(r) == [key : Keys, text : Texts, result : {Result(t, r) : t \in Texts} \cup {None}, status : Statuses]

(* NULL is none of the values a column holds.                              *)
ASSUME NullAssumption ==
  /\ None \notin {"QUEUED"} \cup Statuses
  /\ \A c \in Client : None # Hashed(c) /\ None # Raw(c)
  /\ \A r \in Row : None # Scrubbed(r) /\ None \notin Rows(r) /\ \A t \in Texts : None # Result(t, r)

(* What earlier releases left: raw keys or none, later hashed ones, and    *)
(* requests and results in full.                                           *)
LegacyRows(r) ==
  {x \in Rows(r) : /\ x.key \in HashedKeys \cup {Raw(c) : c \in Client} \cup {None}
                   /\ (x.status = "COMPLETED") <=> (x.result # None)}
Unique(rows) == \A r, s \in Row : rows[r] # None /\ rows[s] # None /\ rows[r].key = rows[s].key /\ r # s
                                   => rows[r].key = None

(* The completed order under a key; a request is answered with that of its *)
(* hashed key, the only one it looks up.                                   *)
DoneUnder(rows, key) ==
  LET done == {r \in Row : rows[r] # None /\ rows[r].key = key /\ rows[r].result # None}
  IN  IF done = {} THEN None ELSE CHOOSE r \in done : TRUE
AnswerOf(rows, c) == DoneUnder(rows, Hashed(c))

Init ==
  /\ row \in {f \in [Row -> {None} \cup UNION {LegacyRows(r) : r \in Row}] :
                /\ \A r \in Row : IF r \in Legacy THEN f[r] \in LegacyRows(r) ELSE f[r] = None
                /\ Unique(f)}
  /\ eventText \in SUBSET Legacy /\ errorText \in BOOLEAN
  /\ task = [status |-> None, attempts |-> 0] /\ report = "idle"
  /\ pc = [s \in Scrubber |-> "idle"] /\ crashes = 0
  /\ answered = [c \in Client |-> AnswerOf(row, c)]
  /\ former = [c \in Client |-> DoneUnder(row, Raw(c))]
  /\ scrubbed = FALSE

---------------------------------------------------------------------------
(* POST /agent/orders.                                                     *)

(* What is left of private text by sanitizeAgentOrderTaskPayload,          *)
(* publicAgentOrderResult and sanitizeWorkerErrorPayload.                  *)
SanitizedBug == "private"
Sanitized == "public"
PublicResult == "public"
SanitizedError == "public"

Submit(c, r) ==
  /\ row[r] = None
  /\ c # None => \A s \in Row : row[s] # None => row[s].key # Hashed(c)
  /\ row' = [row EXCEPT ![r] = [key |-> IF c = None THEN None ELSE Hashed(c), text |-> Sanitized,
                                result |-> None, status |-> "RUNNING"]]
  /\ UNCHANGED <<eventText, errorText, task, report, pc, crashes, told, scrubbed>>

(* The task of an order that is running ends: its row and its event keep   *)
(* the result.  An answer of an earlier one under the same key would have  *)
(* been returned instead.  The process of a task that an earlier release   *)
(* left running is gone.                                                   *)
Complete(r) ==
  /\ r \notin Legacy /\ row[r] # None /\ row[r].status = "RUNNING"
  /\ row' = [row EXCEPT ![r].result = Result(PublicResult, r), ![r].status = "COMPLETED"]
  /\ eventText' = IF PublicResult = "private" THEN eventText \cup {r} ELSE eventText
  /\ answered' = [c \in Client |->
       IF row[r].key = Hashed(c) /\ answered[c] = None THEN r ELSE answered[c]]
  /\ UNCHANGED <<errorText, task, report, pc, crashes, former, scrubbed>>

(* The service refuses it, or the stale sweep gives up on its process.     *)
Abandon(r) ==
  /\ row[r] # None /\ row[r].status = "RUNNING"
  /\ row' = [row EXCEPT ![r].status = "FAILED"]
  /\ UNCHANGED <<eventText, errorText, task, report, pc, crashes, told, scrubbed>>

(* recordWorkerError, of any worker.                                       *)
RecordError ==
  /\ errorText' = (errorText \/ SanitizedError = "private")
  /\ UNCHANGED <<row, eventText, task, report, pc, crashes, told, scrubbed>>

---------------------------------------------------------------------------
(* privacy/scrub.ts.                                                       *)

Private(x) == x.text = "private" \/ (x.result # None /\ x.result.text = "private")

(* The rows the count and the update select.                               *)
TaskResidue == {r \in Row : row[r] # None /\ (Private(row[r]) \/ row[r].key \notin HashedKeys)}
Residue == TaskResidue # {} \/ eventText # {} \/ errorText

NewKeyBug(r) == IF row[r].key = None THEN None ELSE Scrubbed(r)
NewKey(r) == IF row[r].key \in HashedKeys \cup {None} THEN row[r].key ELSE Scrubbed(r)

(* A row without its private text: its payload and its result are          *)
(* replaced, by what tells of the same order.                              *)
Cleaned(r) ==
  [key |-> NewKey(r), text |-> "public",
   result |-> IF row[r].result = None THEN None ELSE Result("public", row[r].result.order),
   status |-> row[r].status]

Begin(s) == pc' = [pc EXCEPT ![s] = "tasks"]

ScrubTasks(s) ==
  /\ pc[s] = "tasks"
  /\ row' = [r \in Row |-> IF r \in TaskResidue THEN Cleaned(r) ELSE row[r]]
  /\ pc' = [pc EXCEPT ![s] = "events"]
  /\ UNCHANGED <<eventText, errorText, task, report, crashes, told, scrubbed>>

ScrubEvents(s) ==
  /\ pc[s] = "events"
  /\ eventText' = {}
  /\ pc' = [pc EXCEPT ![s] = "errors"]
  /\ UNCHANGED <<row, errorText, task, report, crashes, told, scrubbed>>

ScrubErrors(s) ==
  /\ pc[s] = "errors"
  /\ errorText' = FALSE /\ scrubbed' = TRUE
  /\ pc' = [pc EXCEPT ![s] = IF s = "worker" THEN "complete" ELSE "idle"]
  /\ UNCHANGED <<row, eventText, task, report, crashes, told>>

RunScript == pc["script"] = "idle" /\ Begin("script")
             /\ UNCHANGED <<tables, task, report, crashes, told, scrubbed>>

---------------------------------------------------------------------------
(* The reconciler and the retry worker.                                    *)

(* buildPrivacyPostureReport: three counts, no transaction.                *)
Count ==
  /\ report = "idle"
  /\ report' = IF Residue THEN "warned" ELSE "ok"
  /\ UNCHANGED <<tables, task, pc, crashes, told, scrubbed>>

(* enqueueInvariantRepairs: createTaskIfMissing under one key for good.    *)
Enqueue ==
  /\ report # "idle" /\ report' = "idle"
  /\ task' = IF report = "warned" /\ task.status = None THEN [task EXCEPT !.status = "QUEUED"] ELSE task
  /\ UNCHANGED <<tables, pc, crashes, told, scrubbed>>

Due == task.status = "QUEUED" \/ (task.status = "FAILED" /\ task.attempts < MaxAttempts)

RunTask ==
  /\ pc["worker"] = "idle" /\ Due
  /\ task' = [status |-> "RUNNING", attempts |-> task.attempts + 1]
  /\ Begin("worker")
  /\ UNCHANGED <<tables, report, crashes, told, scrubbed>>

FinishTask ==
  /\ pc["worker"] = "complete"
  /\ pc' = [pc EXCEPT !["worker"] = "idle"]
  /\ task' = [task EXCEPT !.status = "COMPLETED"]
  /\ UNCHANGED <<tables, report, crashes, told, scrubbed>>

(* A statement fails or the process dies: what it has done stays.          *)
Crash(s) ==
  /\ pc[s] # "idle" /\ crashes < MaxCrashes
  /\ crashes' = crashes + 1
  /\ pc' = [pc EXCEPT ![s] = "idle"]
  /\ UNCHANGED <<tables, task, report, told, scrubbed>>

(* failTask after an error, the stale sweep after a death.                 *)
RecoverBug == FALSE
Recover == task.status = "RUNNING" /\ pc["worker"] = "idle"
FailTask ==
  /\ Recover
  /\ task' = [task EXCEPT !.status = "FAILED"]
  /\ UNCHANGED <<tables, report, pc, crashes, told, scrubbed>>

ScrubStep(s) == ScrubTasks(s) \/ ScrubEvents(s) \/ ScrubErrors(s)

Next ==
  \/ \E c \in Client \cup {None}, r \in Row : Submit(c, r)
  \/ \E r \in Row : Complete(r) \/ Abandon(r)
  \/ \E s \in Scrubber : ScrubStep(s) \/ Crash(s)
  \/ RecordError \/ RunScript \/ Count \/ Enqueue \/ RunTask \/ FinishTask \/ FailTask

(* The reconciler, the retry worker and the sweep run on timers; a         *)
(* statement that was sent ends.  Nobody has to run the script.            *)
Spec ==
  /\ Init /\ [][Next]_vars
  /\ WF_vars(Count) /\ WF_vars(Enqueue)
  /\ WF_vars(RunTask) /\ WF_vars(FinishTask) /\ WF_vars(FailTask)
  /\ WF_vars(ScrubStep("worker"))

---------------------------------------------------------------------------
(* Properties.                                                             *)

TypeOK ==
  /\ row \in [Row -> {None} \cup UNION {Rows(r) : r \in Row}]
  /\ \A r \in Row : row[r] # None => row[r] \in Rows(r)
  /\ eventText \in SUBSET Row /\ {errorText, scrubbed} \subseteq BOOLEAN
  /\ task \in [status : {None, "QUEUED"} \cup Statuses, attempts : 0 .. MaxAttempts]
  /\ report \in {"idle", "warned", "ok"} /\ crashes \in 0 .. MaxCrashes
  /\ pc \in [Scrubber -> {"idle", "tasks", "events", "errors", "complete"}]
  /\ {answered, former} \subseteq [Client -> Row \cup {None}]

NothingPrivate ==
  /\ \A r \in Row : row[r] # None => ~Private(row[r]) /\ row[r].key \notin {Raw(c) : c \in Client}
  /\ eventText = {} /\ ~errorText

(* The state stays in its types (the scrub task has no more attempts than  *)
(* it may), and once one run of the scrub has got through its three        *)
(* statements, no table holds private text or a client's own order id      *)
(* again, whichever requests, second runs and crashes its statements were  *)
(* mixed with.                                                             *)
ScrubbedForGood == TypeOK /\ (scrubbed => NothingPrivate)

(* The scrub never costs an order the key requests look up: a client told  *)
(* of an order under its hashed key finds that order, and no other, when   *)
(* it repeats the request.  One told under its own id by an earlier        *)
(* release does not find that order, before the scrub or after it: its     *)
(* repeated request places another.                                        *)
AnswersKept ==
  \A c \in Client :
    /\ AnswerOf(row, c) = answered[c]
    /\ former[c] # None => AnswerOf(row, c) # former[c]

(* Private text of earlier releases does not stay: the warning starts the  *)
(* scrub and its retries carry it through, short of three failures.        *)
PrivateTextGoes == [](~NothingPrivate => <>NothingPrivate)
=============================================================================
