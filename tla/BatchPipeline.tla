---------------------------- MODULE BatchPipeline ---------------------------
(***************************************************************************)
(* From closed batch to settled match: the DEX contract, the event         *)
(* handlers that index it, the batch matcher and the settler               *)
(* (matcher/src/chain/events.ts, workers/catchup.ts, batch-matcher.ts,     *)
(* settler.ts, orders/lifecycle.ts).  The contract is not in the           *)
(* repository: its part is what the matcher expects of it.  Every await on *)
(* the chain, the database or S3 is a step of its own.                     *)
(*                                                                         *)
(* An auction is abstracted to the matches it can produce: match m crosses *)
(* the two orders Legs[m], and an auction over a set of orders yields the  *)
(* matches whose legs are among them.                                      *)
(***************************************************************************)
EXTENDS Integers, Sequences, FiniteSets, SequencesExt

CONSTANTS
  Pair, Order, Match,   \* trading pairs, numbered; orders; possible matches, numbered
  LastBatch,            \* batches 1 .. LastBatch are played through
  BatchOf,              \* the batch an order is submitted to
  PairOf, Legs,         \* a match's pair and its two orders
  Thread,               \* concurrent calls of onBatchClosed
  Settler,              \* concurrent calls of settleOneMatch
  Process, ProcessOf,   \* where threads and settlers run
  Main,                 \* the matcher process; others are ops scripts
  None,
  MaxLive, MaxCancels, MaxFaults, MaxCrashes,   \* bounds of the model
  PromptHandlers        \* live handlers finish before their event is confirmed

Batch == 1 .. LastBatch
OrderStatus == {"ACTIVE", "MATCHED", "SETTLED", "CANCELLED"}
MatchStatus == {"PENDING", "DISPUTED", "SETTLED"}
BatchStatus == {"CLOSED", "MATCHED", "MATCHED_EMPTY"}
Event == [name : {"OrderSubmitted"}, id : Order] \cup [name : {"BatchClosed"}, id : Batch]
         \cup [name : {"MatchPublished", "MatchDisputed", "MatchSettled"}, id : Match]
Via == {"live", "catchup"}

ASSUME PipelineAssumption ==
  /\ Pair \subseteq Nat /\ Match \subseteq Nat /\ LastBatch \in Nat
  /\ IsFiniteSet(Order) /\ IsFiniteSet(Match)
  /\ None \notin OrderStatus \cup MatchStatus \cup BatchStatus /\ None \notin Match \cup Batch
  /\ BatchOf \in [Order -> Batch] /\ PairOf \in [Match -> Pair]
  /\ Legs \in [Match -> SUBSET Order]
  /\ \A m \in Match : Legs[m] # {} /\ \A o, q \in Legs[m] : BatchOf[o] = BatchOf[q]
  /\ \A m, n \in Match : Legs[m] \cap Legs[n] # {} => m = n
  /\ ProcessOf \in [Thread \cup Settler -> Process] /\ Main \in Process
  /\ MaxLive \in Nat /\ MaxCancels \in Nat /\ MaxFaults \in Nat /\ MaxCrashes \in Nat
  /\ PromptHandlers \in BOOLEAN

VARIABLES
  curBatch, order, match, expired, log,         \* the chain
  batchRow, orderRow, matchRow, auditKey,       \* the database
  transcript,                                   \* audit objects in S3
  handler, at, cursor, since, live, booting,    \* event delivery
  pc, job, todo, found, out, keyed,             \* onBatchClosed
  step, target, saw,                            \* the settler
  cancels, faults, crashes,
  orphaned   \* history: matches whose publisher died or failed before recording them

chain == <<curBatch, order, match, expired, log>>
db == <<batchRow, orderRow, matchRow, auditKey, transcript>>
index == <<handler, at, cursor, since, live, booting>>
matcher == <<pc, job, todo, found, out, keyed>>
settler == <<step, target, saw>>
bounds == <<cancels, faults, crashes>>
vars == <<chain, db, index, matcher, settler, bounds, orphaned>>

Idle == [published |-> FALSE, existing |-> FALSE, failed |-> FALSE]

Init ==
  /\ curBatch = 1 /\ log = <<>>
  /\ order = [o \in Order |-> None] /\ match = [m \in Match |-> None]
  /\ expired = {}
  /\ batchRow = [b \in Batch |-> None] /\ orderRow = [o \in Order |-> None]
  /\ matchRow = [m \in Match |-> None] /\ auditKey = {} /\ transcript = {}
  /\ handler = {} /\ at = 0 /\ cursor = 0 /\ since = 0 /\ live = 0 /\ booting = FALSE
  /\ pc = [t \in Thread |-> "idle"] /\ job = [t \in Thread |-> None]
  /\ todo = [t \in Thread |-> {}] /\ found = [t \in Thread |-> {}]
  /\ out = [t \in Thread |-> Idle] /\ keyed = [t \in Thread |-> FALSE]
  /\ step = [s \in Settler |-> "idle"] /\ target = [s \in Settler |-> None]
  /\ saw = [s \in Settler |-> None]
  /\ cancels = 0 /\ faults = 0 /\ crashes = 0
  /\ orphaned = {}

MatchBatch(m) == BatchOf[CHOOSE o \in Legs[m] : TRUE]
First(S) == CHOOSE x \in S : \A y \in S : x <= y

---------------------------------------------------------------------------
(* The contract and its log of events.                                     *)

Emit(events) == log' = log \o events

Submit(o) ==
  /\ order[o] = None /\ BatchOf[o] = curBatch
  /\ order' = [order EXCEPT ![o] = "ACTIVE"]
  /\ Emit(<<[name |-> "OrderSubmitted", id |-> o]>>)
  /\ UNCHANGED <<curBatch, match, expired, db, index, matcher, settler, bounds, orphaned>>

(* The matcher has no handler for a cancellation.                          *)
Cancel(o) ==
  /\ order[o] = "ACTIVE" /\ cancels < MaxCancels
  /\ order' = [order EXCEPT ![o] = "CANCELLED"]
  /\ cancels' = cancels + 1
  /\ UNCHANGED <<curBatch, match, expired, log, db, index, matcher, settler, faults, crashes,
                 orphaned>>

Close ==
  /\ curBatch \in Batch /\ ~booting
  /\ curBatch' = curBatch + 1
  /\ Emit(<<[name |-> "BatchClosed", id |-> curBatch]>>)
  /\ UNCHANGED <<order, match, expired, db, index, matcher, settler, bounds, orphaned>>

Dispute(m) ==
  /\ match[m] = "PENDING" /\ m \notin expired
  /\ match' = [match EXCEPT ![m] = "DISPUTED"]
  /\ Emit(<<[name |-> "MatchDisputed", id |-> m]>>)
  /\ UNCHANGED <<curBatch, order, expired, db, index, matcher, settler, bounds, orphaned>>

Expire(m) ==
  /\ match[m] = "PENDING" /\ m \notin expired
  /\ expired' = expired \cup {m}
  /\ UNCHANGED <<curBatch, order, match, log, db, index, matcher, settler, bounds, orphaned>>

---------------------------------------------------------------------------
(* Updates of the order rows (orders/lifecycle.ts).  Operators named       *)
(* ...Bug are the slips the properties below are tried against; nothing    *)
(* here uses them.                                                         *)

MarkedMatchedBug(orders) ==
  [o \in Order |-> IF o \in orders /\ orderRow[o] # None THEN "MATCHED" ELSE orderRow[o]]
MarkedMatched(orders) ==
  [o \in Order |-> IF o \in orders /\ orderRow[o] \in {"ACTIVE", "MATCHED"}
                     THEN "MATCHED" ELSE orderRow[o]]
MarkedSettled(orders) ==
  [o \in Order |-> IF o \in orders /\ orderRow[o] \notin {None, "CANCELLED"}
                     THEN "SETTLED" ELSE orderRow[o]]

(* indexDexEvent: what a handler reads from the contract first ...         *)
Reading(ev) ==
  CASE ev.name = "OrderSubmitted" -> order[ev.id]
    [] ev.name = "MatchPublished" -> match[ev.id]
    [] OTHER -> None

Receive(via, i) ==
  handler' = handler \cup {[via |-> via, at |-> i, saw |-> Reading(log[i]), phase |-> "write"]}

(* A listener gets an event at once, late, twice or never; the closer      *)
(* hands on the BatchClosed log of its own receipt the same way.           *)
Deliver(i) ==
  /\ live < MaxLive /\ live' = live + 1
  /\ ~booting /\ i > since /\ (PromptHandlers => i > at)
  /\ \A h \in handler : h.at # i
  /\ Receive("live", i)
  /\ UNCHANGED <<chain, db, at, cursor, since, booting, matcher, settler, bounds, orphaned>>

(* catchup replays the confirmed log in order, one event after the other.  *)
Replay ==
  /\ at < Len(log)
  /\ \A h \in handler : h.via # "catchup"
  /\ PromptHandlers => \A h \in handler : h.at # at + 1
  /\ Receive("catchup", at + 1)
  /\ UNCHANGED <<chain, db, at, cursor, since, live, booting, matcher, settler, bounds, orphaned>>

Done(h) ==
  /\ handler' = handler \ {h}
  /\ at' = IF h.via = "catchup" THEN h.at ELSE at
ThenOrders(h) ==
  /\ handler' = (handler \ {h}) \cup {[h EXCEPT !.phase = "orders"]}
  /\ UNCHANGED at

(* ... what it then writes ...                                             *)
WriteOrder(h, o) ==
  /\ orderRow' = [orderRow EXCEPT ![o] = h.saw]
  /\ Done(h)
  /\ UNCHANGED <<batchRow, matchRow, auditKey, transcript>>
WriteBatch(h, b) ==
  /\ batchRow' = [batchRow EXCEPT ![b] = "CLOSED"]
  /\ Done(h)
  /\ UNCHANGED <<orderRow, matchRow, auditKey, transcript>>
WriteMatch(h, m) ==
  /\ matchRow' = [matchRow EXCEPT ![m] = h.saw]
  /\ ThenOrders(h)
  /\ UNCHANGED <<batchRow, orderRow, auditKey, transcript>>
WriteDisputed(h, m) ==
  /\ matchRow' = [matchRow EXCEPT ![m] = IF matchRow[m] = None THEN None ELSE "DISPUTED"]
  /\ Done(h)
  /\ UNCHANGED <<batchRow, orderRow, auditKey, transcript>>
WriteSettled(h, m) ==
  /\ matchRow' = [matchRow EXCEPT ![m] = IF matchRow[m] = None THEN None ELSE "SETTLED"]
  /\ ThenOrders(h)
  /\ UNCHANGED <<batchRow, orderRow, auditKey, transcript>>

HandlerWrite(h) ==
  /\ h \in handler /\ h.phase = "write"
  /\ LET ev == log[h.at] IN
       \/ ev.name = "OrderSubmitted" /\ WriteOrder(h, ev.id)
       \/ ev.name = "BatchClosed" /\ WriteBatch(h, ev.id)
       \/ ev.name = "MatchPublished" /\ WriteMatch(h, ev.id)
       \/ ev.name = "MatchDisputed" /\ WriteDisputed(h, ev.id)
       \/ ev.name = "MatchSettled" /\ WriteSettled(h, ev.id)
  /\ UNCHANGED <<chain, cursor, since, live, booting, matcher, settler, bounds, orphaned>>

(* ... and the orders of the match, in a statement of its own.             *)
HandlerOrders(h) ==
  /\ h \in handler /\ h.phase = "orders"
  /\ LET ev == log[h.at] IN
       orderRow' = IF ev.name = "MatchPublished"
                     THEN MarkedMatched(Legs[ev.id]) ELSE MarkedSettled(Legs[ev.id])
  /\ Done(h)
  /\ UNCHANGED <<chain, batchRow, matchRow, auditKey, transcript, cursor, since, live,
                 booting, matcher, settler, bounds, orphaned>>

(* A read or a write of a handler fails: the listener logs the error, the  *)
(* replay gives up until the poller resumes it at the cursor.              *)
HandlerFault(h) ==
  /\ h \in handler
  /\ faults < MaxFaults /\ faults' = faults + 1
  /\ handler' = handler \ {h}
  /\ at' = IF h.via = "catchup" THEN cursor ELSE at
  /\ UNCHANGED <<chain, db, cursor, since, live, booting, matcher, settler, cancels, crashes,
                 orphaned>>

(* The cursor is stored once per chunk.                                    *)
Persist ==
  /\ cursor < at
  /\ cursor' = at
  /\ UNCHANGED <<chain, db, handler, at, since, live, booting, matcher, settler, bounds, orphaned>>

---------------------------------------------------------------------------
(* onBatchClosed.                                                          *)

Indexed(b) == {o \in Order : BatchOf[o] = b /\ orderRow[o] # None}
OnChain(b) == {o \in Order : BatchOf[o] = b /\ order[o] # None}
ReadyBug(b) == TRUE
ReadyOffByOneBug(b) == Cardinality(Indexed(b)) > Cardinality(OnChain(b))
Ready(b) == Cardinality(Indexed(b)) >= Cardinality(OnChain(b))

Up(a) == ProcessOf[a] # Main \/ ~booting
InFlightBug(t, b) == FALSE
InFlight(t, b) ==
  \E u \in Thread : ProcessOf[u] = ProcessOf[t] /\ pc[u] # "idle" /\ job[u] = b

(* Called by the handler of BatchClosed, the scan of CLOSED rows, the      *)
(* retry worker and the operator.  A call that finds the batch in flight,  *)
(* too young or not yet indexed returns and changes nothing.               *)
Begin(t, b) ==
  /\ pc[t] = "idle" /\ b < curBatch /\ Up(t)
  /\ ~InFlight(t, b) /\ Ready(b)
  /\ pc' = [pc EXCEPT ![t] = "pair"]
  /\ job' = [job EXCEPT ![t] = b]
  /\ todo' = [todo EXCEPT ![t] = Pair]
  /\ out' = [out EXCEPT ![t] = Idle]
  /\ UNCHANGED <<chain, db, index, found, keyed, settler, bounds, orphaned>>

NextPair(t) ==
  /\ pc' = [pc EXCEPT ![t] = "pair"]
  /\ todo' = [todo EXCEPT ![t] = todo[t] \ {First(todo[t])}]
  /\ found' = [found EXCEPT ![t] = {}]

RowsOf(b, p) == {m \in Match : matchRow[m] # None /\ MatchBatch(m) = b /\ PairOf[m] = p}

CheckPair(t) ==
  /\ pc[t] = "pair" /\ todo[t] # {}
  /\ IF RowsOf(job[t], First(todo[t])) # {}
       THEN /\ out' = [out EXCEPT ![t].existing = TRUE]
            /\ NextPair(t)
       ELSE /\ pc' = [pc EXCEPT ![t] = "auction"]
            /\ UNCHANGED <<out, todo, found>>
  /\ UNCHANGED <<chain, db, index, job, keyed, settler, bounds, orphaned>>

(* matchBatch: the auction over the pair's ACTIVE rows.                    *)
Auction(b, p) ==
  {m \in Match : /\ MatchBatch(m) = b /\ PairOf[m] = p
                 /\ \A o \in Legs[m] : orderRow[o] = "ACTIVE"}

RunAuction(t) ==
  /\ pc[t] = "auction"
  /\ LET matches == Auction(job[t], First(todo[t])) IN
       IF matches = {}
         THEN NextPair(t)
         ELSE /\ found' = [found EXCEPT ![t] = matches]
              /\ pc' = [pc EXCEPT ![t] = "publish"]
              /\ UNCHANGED todo
  /\ UNCHANGED <<chain, db, index, job, out, keyed, settler, bounds, orphaned>>

Fail(t) ==
  /\ out' = [out EXCEPT ![t].failed = TRUE]
  /\ NextPair(t)

(* publishMatches takes all of the matches, or reverts when an order of    *)
(* theirs is no longer active.                                             *)
Publications(ms) ==
  [i \in 1 .. Cardinality(ms) |-> [name |-> "MatchPublished", id |-> SetToSeq(ms)[i]]]
Publish(t) ==
  /\ pc[t] = "publish"
  /\ LET legs == UNION {Legs[m] : m \in found[t]} IN
       IF \A o \in legs : order[o] = "ACTIVE"
         THEN /\ match' = [m \in Match |-> IF m \in found[t] THEN "PENDING" ELSE match[m]]
              /\ order' = [o \in Order |-> IF o \in legs THEN "MATCHED" ELSE order[o]]
              /\ Emit(Publications(found[t]))
              /\ out' = [out EXCEPT ![t].published = TRUE]
              /\ pc' = [pc EXCEPT ![t] = "record"]
              /\ UNCHANGED <<todo, found>>
         ELSE /\ Fail(t)
              /\ UNCHANGED <<match, order, log>>
  /\ UNCHANGED <<curBatch, expired, db, index, job, keyed, settler, bounds, orphaned>>

(* writeAuditLog; a failure leaves the row without its key.                *)
WriteTranscript(t) ==
  /\ pc[t] = "record"
  /\ pc' = [pc EXCEPT ![t] = "insert"]
  /\ \/ /\ transcript' = transcript \cup {First(found[t])}
        /\ keyed' = [keyed EXCEPT ![t] = TRUE]
        /\ UNCHANGED faults
     \/ /\ faults < MaxFaults /\ faults' = faults + 1
        /\ keyed' = [keyed EXCEPT ![t] = FALSE]
        /\ UNCHANGED transcript
  /\ UNCHANGED <<chain, batchRow, orderRow, matchRow, auditKey, index, job, todo, found, out,
                 settler, cancels, crashes, orphaned>>

InsertMatch(t) ==
  /\ pc[t] = "insert"
  /\ LET m == First(found[t]) IN
       /\ matchRow' = [matchRow EXCEPT ![m] = "PENDING"]
       /\ auditKey' = IF keyed[t] THEN auditKey \cup {m} ELSE auditKey \ {m}
  /\ pc' = [pc EXCEPT ![t] = "mark"]
  /\ keyed' = [keyed EXCEPT ![t] = FALSE]
  /\ UNCHANGED <<chain, batchRow, orderRow, transcript, index, job, todo, found, out, settler,
                 bounds, orphaned>>

MarkOrders(t) ==
  /\ pc[t] = "mark"
  /\ LET m == First(found[t]) IN
       /\ orderRow' = MarkedMatched(Legs[m])
       /\ IF found[t] = {m}
            THEN NextPair(t)
            ELSE /\ found' = [found EXCEPT ![t] = found[t] \ {m}]
                 /\ pc' = [pc EXCEPT ![t] = "record"]
                 /\ UNCHANGED todo
  /\ UNCHANGED <<chain, batchRow, matchRow, auditKey, transcript, index, job, out, keyed, settler,
                 bounds, orphaned>>

Unrecorded(t) ==
  {m \in found[t] : \/ pc[t] \in {"record", "insert"}
                    \/ pc[t] = "mark" /\ m # First(found[t])}

(* An RPC or database error inside a pair is caught and counted.           *)
PairFault(t) ==
  /\ pc[t] # "idle" /\ todo[t] # {}
  /\ faults < MaxFaults /\ faults' = faults + 1
  /\ orphaned' = orphaned \cup Unrecorded(t)
  /\ Fail(t)
  /\ keyed' = [keyed EXCEPT ![t] = FALSE]
  /\ UNCHANGED <<chain, db, index, job, settler, cancels, crashes>>

Outcome(o) == IF o.published \/ o.existing THEN "MATCHED" ELSE "MATCHED_EMPTY"

(* The batch's status is an update: no row, no effect.                     *)
Finish(t) ==
  /\ pc[t] = "pair" /\ todo[t] = {}
  /\ batchRow' = IF out[t].failed \/ batchRow[job[t]] = None THEN batchRow
                 ELSE [batchRow EXCEPT ![job[t]] = Outcome(out[t])]
  /\ pc' = [pc EXCEPT ![t] = "idle"]
  /\ job' = [job EXCEPT ![t] = None]
  /\ out' = [out EXCEPT ![t] = Idle]
  /\ UNCHANGED <<chain, orderRow, matchRow, auditKey, transcript, index, todo, found, keyed,
                 settler, bounds, orphaned>>

(* The update fails: the call throws and leaves the batch as it is.        *)
FinishFault(t) ==
  /\ pc[t] = "pair" /\ todo[t] = {}
  /\ faults < MaxFaults /\ faults' = faults + 1
  /\ pc' = [pc EXCEPT ![t] = "idle"]
  /\ job' = [job EXCEPT ![t] = None]
  /\ out' = [out EXCEPT ![t] = Idle]
  /\ UNCHANGED <<chain, db, index, todo, found, keyed, settler, cancels, crashes, orphaned>>

(* repairMissingAuditKeys: a row without its key whose object exists.      *)
Repair(m) ==
  /\ ~booting
  /\ matchRow[m] # None /\ m \notin auditKey /\ m \in transcript
  /\ auditKey' = auditKey \cup {m}
  /\ UNCHANGED <<chain, batchRow, orderRow, matchRow, transcript, index, matcher, settler,
                 bounds, orphaned>>

---------------------------------------------------------------------------
(* The settler.                                                            *)

(* startSettler takes a PENDING row and asks the contract about it; the    *)
(* retry worker goes straight to settleOneMatch.                           *)
Consider(s, m) ==
  /\ step[s] = "idle" /\ matchRow[m] = "PENDING" /\ Up(s)
  /\ target' = [target EXCEPT ![s] = m]
  /\ IF match[m] # "PENDING"
       THEN step' = [step EXCEPT ![s] = "label"] /\ saw' = [saw EXCEPT ![s] = match[m]]
       ELSE m \in expired /\ step' = [step EXCEPT ![s] = "check"] /\ UNCHANGED saw
  /\ UNCHANGED <<chain, db, index, matcher, bounds, orphaned>>

Retry(s, m) ==
  /\ step[s] = "idle" /\ Up(s)
  /\ step' = [step EXCEPT ![s] = "check"]
  /\ target' = [target EXCEPT ![s] = m]
  /\ UNCHANGED <<chain, db, index, matcher, saw, bounds, orphaned>>

Stop(s) ==
  /\ step' = [step EXCEPT ![s] = "idle"]
  /\ target' = [target EXCEPT ![s] = None]
  /\ saw' = [saw EXCEPT ![s] = None]

Label(s) ==
  /\ step[s] = "label"
  /\ matchRow' = [matchRow EXCEPT ![target[s]] = saw[s]]
  /\ Stop(s)
  /\ UNCHANGED <<chain, batchRow, orderRow, auditKey, transcript, index, matcher, bounds, orphaned>>

(* assertSettlementMatchReady and assertSettlementProofReady.              *)
ProofReadyBug(m) == matchRow[m] # None
ProofReady(m) == matchRow[m] # None /\ m \in auditKey /\ m \in transcript

Check(s) ==
  /\ step[s] = "check"
  /\ IF ProofReady(target[s])
       THEN step' = [step EXCEPT ![s] = "send"] /\ UNCHANGED <<target, saw>>
       ELSE Stop(s)
  /\ UNCHANGED <<chain, db, index, matcher, bounds, orphaned>>

(* settleMatch reverts unless the match is pending past its window; the    *)
(* call then throws, before or after the receipt.                          *)
Settleable(m) == match[m] = "PENDING" /\ m \in expired
ReceiptOkBug(m) == match[m] # None
ReceiptOk(m) == Settleable(m)

Send(s) ==
  /\ step[s] = "send"
  /\ LET m == target[s] IN
       /\ IF Settleable(m)
            THEN /\ match' = [match EXCEPT ![m] = "SETTLED"]
                 /\ order' = [o \in Order |-> IF o \in Legs[m] THEN "SETTLED" ELSE order[o]]
                 /\ Emit(<<[name |-> "MatchSettled", id |-> m]>>)
            ELSE UNCHANGED <<match, order, log>>
       /\ IF ReceiptOk(m)
            THEN step' = [step EXCEPT ![s] = "row"] /\ UNCHANGED <<target, saw>>
            ELSE Stop(s)
  /\ UNCHANGED <<curBatch, expired, db, index, matcher, bounds, orphaned>>

SettleRow(s) ==
  /\ step[s] = "row"
  /\ matchRow' = [matchRow EXCEPT ![target[s]] = "SETTLED"]
  /\ step' = [step EXCEPT ![s] = "orders"]
  /\ UNCHANGED <<chain, batchRow, orderRow, auditKey, transcript, index, matcher, target, saw,
                 bounds, orphaned>>

SettleOrders(s) ==
  /\ step[s] = "orders"
  /\ orderRow' = MarkedSettled(Legs[target[s]])
  /\ Stop(s)
  /\ UNCHANGED <<chain, batchRow, matchRow, auditKey, transcript, index, matcher, bounds, orphaned>>

(* A call fails at any step, after the transaction was mined too.          *)
SettlerFault(s) ==
  /\ step[s] # "idle"
  /\ faults < MaxFaults /\ faults' = faults + 1
  /\ Stop(s)
  /\ UNCHANGED <<chain, db, index, matcher, cancels, crashes, orphaned>>

---------------------------------------------------------------------------
(* A process dies.  The matcher process loses its listeners and handlers;  *)
(* when it boots it replays from the cursor and brings order rows up to    *)
(* date (reconcileOrderStatusesFromMatches) before anything else starts.   *)

Reconciled ==
  LET of(o, S) == \E m \in Match : o \in Legs[m] /\ matchRow[m] \in S
      matched == [o \in Order |->
        IF orderRow[o] \in {"ACTIVE", "MATCHED"} /\ of(o, {"PENDING", "DISPUTED"})
          THEN "MATCHED" ELSE orderRow[o]]
  IN  [o \in Order |->
        IF /\ matched[o] \notin {None, "CANCELLED"} /\ of(o, {"SETTLED"})
           /\ ~of(o, {"PENDING", "DISPUTED"})
          THEN "SETTLED" ELSE matched[o]]

Boot ==
  /\ booting /\ handler = {}
  /\ booting' = FALSE /\ since' = Len(log)
  /\ orderRow' = Reconciled
  /\ UNCHANGED <<chain, batchRow, matchRow, auditKey, transcript, handler, at, cursor,
                 live, matcher, settler, bounds, orphaned>>

Crash(p) ==
  LET Dead(a) == ProcessOf[a] = p IN
  /\ crashes < MaxCrashes /\ crashes' = crashes + 1
  /\ IF p = Main
       THEN handler' = {} /\ at' = cursor /\ booting' = TRUE
       ELSE UNCHANGED <<handler, at, booting>>
  /\ pc' = [t \in Thread |-> IF Dead(t) THEN "idle" ELSE pc[t]]
  /\ job' = [t \in Thread |-> IF Dead(t) THEN None ELSE job[t]]
  /\ todo' = [t \in Thread |-> IF Dead(t) THEN {} ELSE todo[t]]
  /\ found' = [t \in Thread |-> IF Dead(t) THEN {} ELSE found[t]]
  /\ out' = [t \in Thread |-> IF Dead(t) THEN Idle ELSE out[t]]
  /\ keyed' = [t \in Thread |-> IF Dead(t) THEN FALSE ELSE keyed[t]]
  /\ step' = [s \in Settler |-> IF Dead(s) THEN "idle" ELSE step[s]]
  /\ target' = [s \in Settler |-> IF Dead(s) THEN None ELSE target[s]]
  /\ saw' = [s \in Settler |-> IF Dead(s) THEN None ELSE saw[s]]
  /\ orphaned' = orphaned \cup UNION {Unrecorded(t) : t \in {u \in Thread : Dead(u)}}
  /\ UNCHANGED <<chain, db, cursor, since, live, cancels, faults>>

ThreadStep(t) ==
  \/ CheckPair(t) \/ RunAuction(t) \/ Publish(t) \/ WriteTranscript(t)
  \/ InsertMatch(t) \/ MarkOrders(t) \/ Finish(t)
SettlerStep(s) == Label(s) \/ Check(s) \/ Send(s) \/ SettleRow(s) \/ SettleOrders(s)
HandlerStep == \E h \in handler : HandlerWrite(h) \/ HandlerOrders(h)
Scan(t) == \E b \in Batch : batchRow[b] = "CLOSED" /\ Begin(t, b)

Next ==
  \/ \E o \in Order : Submit(o) \/ Cancel(o)
  \/ Close
  \/ \E m \in Match : Dispute(m) \/ Expire(m) \/ Repair(m)
  \/ \E i \in DOMAIN log : Deliver(i)
  \/ Replay \/ HandlerStep \/ Persist \/ Boot
  \/ \E h \in handler : HandlerFault(h)
  \/ \E t \in Thread :
       ThreadStep(t) \/ PairFault(t) \/ FinishFault(t) \/ \E b \in Batch : Begin(t, b)
  \/ \E s \in Settler : SettlerStep(s) \/ SettlerFault(s) \/ \E m \in Match : Consider(s, m) \/ Retry(s, m)
  \/ \E p \in Process : Crash(p)

Spec == Init /\ [][Next]_vars

(* Timers fire again and again, calls return; an event reaches the matcher *)
(* through the replay, whether or not a listener delivers it.  The settler *)
(* polls in a loop of its own: retries, which share its slot here, do not  *)
(* keep it from looking at a row.                                          *)
Fairness ==
  /\ WF_vars(HandlerStep) /\ WF_vars(Replay) /\ WF_vars(Boot)
  /\ \A t \in Thread : WF_vars(ThreadStep(t)) /\ WF_vars(Scan(t))
  /\ \A s \in Settler : WF_vars(SettlerStep(s)) /\ SF_vars(\E m \in Match : Consider(s, m))
FairSpec == Spec /\ Fairness

---------------------------------------------------------------------------
(* Properties.                                                             *)

TypeOK ==
  /\ curBatch \in 1 .. LastBatch + 1
  /\ order \in [Order -> OrderStatus \cup {None}]
  /\ match \in [Match -> MatchStatus \cup {None}]
  /\ expired \subseteq Match /\ log \in Seq(Event)
  /\ batchRow \in [Batch -> BatchStatus \cup {None}]
  /\ orderRow \in [Order -> OrderStatus \cup {None}]
  /\ matchRow \in [Match -> MatchStatus \cup {None}]
  /\ auditKey \subseteq Match /\ transcript \subseteq Match
  /\ \A h \in handler : h.via \in Via /\ h.at \in DOMAIN log /\ h.phase \in {"write", "orders"}
  /\ at \in 0 .. Len(log) /\ cursor \in 0 .. at /\ booting \in BOOLEAN
  /\ since \in 0 .. Len(log) /\ live \in 0 .. MaxLive
  /\ pc \in [Thread -> {"idle", "pair", "auction", "publish", "record", "insert", "mark"}]
  /\ job \in [Thread -> Batch \cup {None}]
  /\ todo \in [Thread -> SUBSET Pair] /\ found \in [Thread -> SUBSET Match]
  /\ \A t \in Thread : pc[t] \notin {"idle", "pair"} => todo[t] # {}
  /\ \A t \in Thread : pc[t] \in {"publish", "record", "insert", "mark"} => found[t] # {}
  /\ out \in [Thread -> [published : BOOLEAN, existing : BOOLEAN, failed : BOOLEAN]]
  /\ keyed \in [Thread -> BOOLEAN]
  /\ step \in [Settler -> {"idle", "label", "check", "send", "row", "orders"}]
  /\ target \in [Settler -> Match \cup {None}]
  /\ saw \in [Settler -> MatchStatus \cup {None}]
  /\ cancels \in 0 .. MaxCancels /\ faults \in 0 .. MaxFaults /\ crashes \in 0 .. MaxCrashes
  /\ orphaned \subseteq Match

(* The database never claims more than the chain: whatever stale reading a *)
(* handler, the matcher or the settler writes last, an order row says      *)
(* matched or settled only of an order that is, and a match row exists, is *)
(* disputed or is settled only if the match does, or is, on the chain.     *)
RowsFollowChain ==
  /\ \A o \in Order :
       /\ orderRow[o] # None => order[o] # None
       /\ orderRow[o] = "MATCHED" => order[o] \in {"MATCHED", "SETTLED"}
       /\ orderRow[o] = "SETTLED" => order[o] = "SETTLED"
  /\ \A m \in Match :
       /\ matchRow[m] # None => match[m] # None
       /\ matchRow[m] \in {"DISPUTED", "SETTLED"} => match[m] = matchRow[m]

(* A pair is auctioned over all orders of its batch, however late their    *)
(* events are: a batch labelled MATCHED_EMPTY has no match left to publish *)
(* but those with an order that was never submitted or was cancelled.      *)
AuctionSawEveryOrder ==
  \A m \in Match : batchRow[MatchBatch(m)] = "MATCHED_EMPTY" =>
    match[m] # None \/ \E o \in Legs[m] : order[o] \in {None, "CANCELLED"}

(* A settled match can be audited: its transcript was written and its row, *)
(* which the matcher, the MatchPublished handler and the repair worker all *)
(* write, names it.                                                        *)
SettledIsAudited ==
  \A m \in Match : match[m] = "SETTLED" => m \in transcript /\ m \in auditKey

(* The state stays in its types, and                                       *)
(* a batch labelled MATCHED_EMPTY has no match on the chain, except those  *)
(* whose publisher failed or died before it recorded them.                 *)
EmptyMeansEmpty ==
  /\ TypeOK
  /\ \A m \in Match : match[m] # None /\ batchRow[MatchBatch(m)] = "MATCHED_EMPTY" => m \in orphaned

(* A closed batch ends up, and stays, labelled with its outcome.           *)
BatchesResolve ==
  \A b \in Batch : (b < curBatch) ~> [](batchRow[b] \in {"MATCHED", "MATCHED_EMPTY"})

(* In the end the rows of a match and of its orders say what the chain     *)
(* says, although handlers overwrite one another's updates.                *)
RowsConverge ==
  \A m \in Match :
    (match[m] # None) ~> [](/\ matchRow[m] = match[m]
                           /\ \A o \in Legs[m] : orderRow[o] = order[o])
=============================================================================
