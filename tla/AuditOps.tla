------------------------------ MODULE AuditOps ------------------------------
(***************************************************************************)
(* What happens to a published match between the batch matcher and its     *)
(* settlement: signed audit objects in S3, their repair and rewriting, the *)
(* batch proof anchored on chain, the checks the settler makes, and the    *)
(* invariant reconciler that turns health issues into keyed repair tasks   *)
(* (matcher/src/audit, ops/invariants.ts, workers/invariant-reconciler.ts, *)
(* workers/settler.ts and the task handlers of index.ts).                  *)
(*                                                                         *)
(* Start is where BatchPipeline leaves a match.  The task ledger is        *)
(* TaskStore seen from outside: a key gets one row, a row so many tries,   *)
(* and only the retry worker gives it another.  The dispute window has     *)
(* passed for every match, and each batch row says MATCHED.                *)
(***************************************************************************)
EXTENDS Naturals, Sequences, FiniteSets, FiniteSetsExt, Functions

CONSTANTS
  Match, Batch, MatchBatch,
  Starts,      \* the initial [row, object] of every match, one function per case
  Reversed,    \* matches whose seller submitted first
  None,
  RequireAnchor, \* MATCHER_REQUIRE_BATCH_PROOF_ANCHOR_FOR_SETTLEMENT
  MaxTries,
  MaxFaults    \* bound of the model: failed calls, crashes and republished batches

(* Audit objects.  receipt: v2, as the matcher writes it; inputs: a legacy *)
(* transcript with its private orders and salt; bare: legacy and unsalted; *)
(* forged: legacy, altered in the bucket.  The rest a rewrite produces.    *)
Stored == {"receipt", "inputs", "bare", "forged"}
Object == Stored \cup {"reissued", "reissuedBare", "laundered"}
Signed(o) == o \notin {"forged", None}
Salted(o) == o \in {"receipt", "inputs", "reissued", "laundered"}
ReceiptOnly(o) == o \in {"receipt", "reissued", "reissuedBare", "laundered"}
Reissue(o) ==
  CASE o = "inputs" -> "reissued" [] o = "bare" -> "reissuedBare" [] OTHER -> "laundered"

Row == [full : BOOLEAN, swapped : BOOLEAN, key : BOOLEAN, status : {"PENDING", "SETTLED"}]

ASSUME AuditAssumption ==
  /\ Match \subseteq Nat /\ IsFiniteSet(Match) /\ MatchBatch \in [Match -> Batch]
  /\ \A s \in Starts :
       /\ s \in [Match -> [row : Row \cup {None}, object : Stored \cup {None}]]
       /\ \A m \in Match : s[m].row # None => s[m].row.status = "PENDING"
  /\ Reversed \subseteq Match /\ RequireAnchor \in BOOLEAN /\ None \notin Object \cup Row
  /\ MaxTries \in Nat \ {0} /\ MaxFaults \in Nat

Process == {"worker", "settler", "matcher"}
Key == [kind : {"keys", "privacy"}, of : {None}]
       \cup [kind : {"settle", "reconcile"}, of : Match] \cup [kind : {"anchor"}, of : Batch]
K(kind, of) == [kind |-> kind, of |-> of]

VARIABLES
  object,      \* the audit bucket
  first,       \* history: what was in the bucket at the start
  row,         \* the matches table
  anchored,    \* proof columns of the batches table: a receipt or None
  chain,       \* the DEX: status of each match
  anchors,     \* the DEX: BatchProofAnchored events of each batch
  indexed,     \* how many of them the indexer has handled
  replayed,    \* matches whose MatchPublished event the catch-up pass delivered
  task,        \* keyed tasks: status and tries
  op,          \* the handler each process is in
  faults

vars == <<object, first, row, anchored, chain, anchors, indexed, replayed, task, op, faults>>
external == <<chain, anchors>>
delivery == <<indexed, replayed>>

NoTask == [status |-> "none", tries |-> 0]

Init ==
  /\ \E s \in Starts : /\ object = [m \in Match |-> s[m].object]
                       /\ row = [m \in Match |-> s[m].row]
  /\ first = object
  /\ anchored = [b \in Batch |-> None] /\ chain = [m \in Match |-> "PENDING"]
  /\ anchors = [b \in Batch |-> <<>>] /\ indexed = [b \in Batch |-> 0] /\ replayed = {}
  /\ task = [k \in Key |-> NoTask]
  /\ op = [p \in Process |-> None] /\ faults = 0

RowsOf(b) == {m \in Match : MatchBatch[m] = b /\ row[m] # None}
BatchOf(o) == IF o.kind = "anchor" THEN o.of ELSE MatchBatch[o.of]

---------------------------------------------------------------------------
(* verifyAuditTranscript against a row, and the receipts of a batch.  The  *)
(* fields of a row an event wrote are null; a legacy transcript is         *)
(* recomputed against the row's buyer and seller.  A receipt's digest is   *)
(* the digest of its object, so equal roots mean equal receipts.           *)

Sound(o, r) == Signed(o) /\ r.full /\ ~(o = "inputs" /\ r.swapped)
Proof(o, r) == [object |-> o, sound |-> Sound(o, r)]

Added(receipt, m, proof) ==
  [n \in DOMAIN receipt \cup {m} |-> IF n = m THEN proof ELSE receipt[n]]

AllSound(receipt) == \A m \in DOMAIN receipt : receipt[m].sound
AllSalted(receipt) == DOMAIN receipt # {} /\ \A m \in DOMAIN receipt : Salted(receipt[m].object)

(* Operators named ...Bug are the slips the properties below are tried     *)
(* against; nothing here uses them.                                        *)
Anchorable(receipt, short) ==
  DOMAIN receipt # {} /\ ~short /\ AllSound(receipt) /\ AllSalted(receipt)

AnchorMatchesBug(anchor, receipt) == AllSound(receipt) /\ AllSalted(receipt)
AnchorMatches(anchor, receipt) ==
  /\ anchor # None /\ AllSalted(anchor)
  /\ anchor = receipt
  /\ AllSound(receipt) /\ AllSalted(receipt)

---------------------------------------------------------------------------
(* The task ledger as a handler sees it.                                   *)

Runnable(k) == task[k].status = "open" /\ task[k].tries < MaxTries
Dead(k) == task[k].status = "open" /\ task[k].tries = MaxTries

Enter(p, o) == op' = [op EXCEPT ![p] = o]
Goto(p, at) == op' = [op EXCEPT ![p].at = at]
Leave(p, status) ==
  /\ op' = [op EXCEPT ![p] = None]
  /\ task' = IF op[p].key = None THEN task
             ELSE [task EXCEPT ![op[p].key].status = status]

Started(k, key) ==
  [kind |-> IF k.kind = "reconcile" THEN "settle" ELSE k.kind, of |-> k.of, key |-> key,
   at |-> "start", rows |-> <<>>, got |-> <<>>, short |-> FALSE, saw |-> None]

(* The retry worker leases a task and calls its handler.                   *)
Retry(k) ==
  /\ op["worker"] = None /\ Runnable(k)
  /\ task' = [task EXCEPT ![k] = [status |-> "running", tries |-> @.tries + 1]]
  /\ Enter("worker", Started(k, k))
  /\ UNCHANGED <<object, first, row, anchored, external, delivery, faults>>

(* startSettler: a row the chain no longer has PENDING is relabelled, any  *)
(* other goes through runTask, which refuses a key that has a row.         *)
Relabel(m) ==
  /\ op["settler"] = None /\ row[m] # None /\ row[m].status = "PENDING" /\ chain[m] # "PENDING"
  /\ row' = [row EXCEPT ![m].status = chain[m]]
  /\ UNCHANGED <<object, first, anchored, external, delivery, task, op, faults>>

Settle(m) ==
  LET k == K("settle", m) IN
  /\ op["settler"] = None /\ row[m] # None /\ row[m].status = "PENDING" /\ chain[m] = "PENDING"
  /\ task[k].status = "none"
  /\ task' = [task EXCEPT ![k] = [status |-> "running", tries |-> 1]]
  /\ Enter("settler", Started(k, k))
  /\ UNCHANGED <<object, first, row, anchored, external, delivery, faults>>

(* The batch matcher anchors a batch it has just labelled MATCHED, without *)
(* a task of its own; publishing the batch again does so again.            *)
Republish(b) ==
  /\ op["matcher"] = None /\ faults < MaxFaults /\ RowsOf(b) # {}
  /\ Enter("matcher", Started(K("anchor", b), None))
  /\ faults' = faults + 1
  /\ UNCHANGED <<object, first, row, anchored, external, delivery, task>>

---------------------------------------------------------------------------
(* settleOneMatch, up to the anchor it has to find.                        *)

Ready(p) ==
  /\ op[p].kind = "settle" /\ op[p].at = "start"
  /\ LET m == op[p].of IN
     IF /\ row[m] # None /\ row[m].key
        /\ Sound(object[m], row[m]) /\ Salted(object[m])
       THEN Goto(p, IF RequireAnchor THEN "anchor" ELSE "send") /\ UNCHANGED task
       ELSE Leave(p, "open")
  /\ UNCHANGED <<object, first, row, anchored, external, delivery, faults>>

(* buildVerifiedBatchAuditReceipt: the rows at once, then object by object.*)
Collect(p) ==
  /\ <<op[p].kind, op[p].at>> \in {<<"settle", "anchor">>, <<"anchor", "start">>}
  /\ LET b == BatchOf(op[p]) IN
     IF RowsOf(b) = {} THEN Leave(p, "open")
     ELSE /\ op' = [op EXCEPT ![p].at = "read", ![p].saw = anchored[b],
                              ![p].rows = [m \in RowsOf(b) |-> row[m]]]
          /\ UNCHANGED task
  /\ UNCHANGED <<object, first, row, anchored, external, delivery, faults>>

Judged(p, got, short) ==
  IF \/ op[p].kind = "anchor" /\ Anchorable(got, short)
     \/ op[p].kind = "settle" /\ AnchorMatches(op[p].saw, got)
    THEN /\ op' = [op EXCEPT ![p].at = "send", ![p].rows = <<>>, ![p].got = got]
         /\ UNCHANGED task
    ELSE Leave(p, "open")

(* assertAnchorable and assertBatchProofAnchorMatches follow the last read.*)
ReadObject(p) ==
  /\ op[p].at = "read" /\ DOMAIN op[p].rows # {}
  /\ LET m == Min(DOMAIN op[p].rows)
         r == op[p].rows[m]
         left == Restrict(op[p].rows, DOMAIN op[p].rows \ {m})
         Take(got, short) ==
           IF DOMAIN left = {} THEN Judged(p, got, short)
           ELSE /\ op' = [op EXCEPT ![p].rows = left, ![p].got = got, ![p].short = short]
                /\ UNCHANGED task
     IN  \/ /\ IF r.key THEN Take(Added(op[p].got, m, Proof(object[m], r)), op[p].short)
                        ELSE Take(op[p].got, TRUE)
            /\ UNCHANGED faults
         \/ /\ r.key /\ faults < MaxFaults   \* the object could not be fetched
            /\ Take(op[p].got, TRUE)
            /\ faults' = faults + 1
  /\ UNCHANGED <<object, first, row, anchored, external, delivery>>

(* The transactions, then the rows they are saved in.  The DEX settles a   *)
(* PENDING match once and lets a batch be anchored again.                  *)
SendSettle(p) ==
  /\ op[p].kind = "settle" /\ op[p].at = "send"
  /\ LET m == op[p].of IN
     IF chain[m] = "PENDING"
       THEN chain' = [chain EXCEPT ![m] = "SETTLED"] /\ Goto(p, "save") /\ UNCHANGED task
       ELSE UNCHANGED chain /\ Leave(p, "open")
  /\ UNCHANGED <<object, first, row, anchored, anchors, delivery, faults>>

SaveSettle(p) ==
  /\ op[p].kind = "settle" /\ op[p].at = "save"
  /\ row' = [row EXCEPT ![op[p].of].status = "SETTLED"]
  /\ Leave(p, "done")
  /\ UNCHANGED <<object, first, anchored, external, delivery, faults>>

SendAnchor(p) ==
  /\ op[p].kind = "anchor" /\ op[p].at = "send"
  /\ anchors' = [anchors EXCEPT ![op[p].of] = Append(@, op[p].got)]
  /\ Goto(p, "save")
  /\ UNCHANGED <<object, first, row, anchored, chain, delivery, task, faults>>

SaveAnchor(p) ==
  /\ op[p].kind = "anchor" /\ op[p].at = "save"
  /\ anchored' = [anchored EXCEPT ![op[p].of] = op[p].got]
  /\ Leave(p, "done")
  /\ UNCHANGED <<object, first, row, external, delivery, faults>>

---------------------------------------------------------------------------
(* repairMissingAuditKeys and repairLegacyAuditObjects.                    *)

Keyless == {m \in Match : row[m] # None /\ ~row[m].key}

RepairKey(m) ==
  IF object[m] # None THEN [row EXCEPT ![m].key = TRUE] ELSE row

RepairKeys(p) ==
  /\ op[p].kind = "keys"
  /\ row' = [m \in Match |-> IF m \in Keyless THEN RepairKey(m)[m] ELSE row[m]]
  /\ Leave(p, "done")
  /\ UNCHANGED <<object, first, anchored, external, delivery, faults>>

(* startAuditRepairWorker and POST /operator/audits/repair do the same     *)
(* without a key.                                                          *)
RepairScan(m) ==
  /\ m \in Keyless /\ object[m] # None
  /\ row' = RepairKey(m)
  /\ UNCHANGED <<object, first, anchored, external, delivery, task, op, faults>>

SelectObjects(p) ==
  /\ op[p].kind = "privacy" /\ op[p].at = "start"
  /\ op' = [op EXCEPT ![p].at = "look",
             ![p].rows = [m \in {n \in Match : row[n] # None /\ row[n].key} |-> row[m]]]
  /\ UNCHANGED <<object, first, row, anchored, external, delivery, task, faults>>

(* An object that is fine, or fails to verify, or cannot be fetched is left*)
(* as it is; the handler goes on, and returns ok in the end.               *)
RewritableBug(o, r) == ~ReceiptOnly(o)
Rewritable(o, r) == ~ReceiptOnly(o) /\ Sound(o, r)

Look(p) ==
  /\ op[p].kind = "privacy" /\ op[p].at = "look"
  /\ IF DOMAIN op[p].rows = {} THEN Leave(p, "done") /\ UNCHANGED faults
     ELSE LET m == Max(DOMAIN op[p].rows)
              skip == Restrict(op[p].rows, DOMAIN op[p].rows \ {m})
          IN  /\ \/ /\ IF Rewritable(object[m], op[p].rows[m])
                         THEN op' = [op EXCEPT ![p].at = "write", ![p].saw = object[m]]
                         ELSE op' = [op EXCEPT ![p].rows = skip]
                    /\ UNCHANGED faults
                 \/ /\ faults < MaxFaults
                    /\ op' = [op EXCEPT ![p].rows = skip]
                    /\ faults' = faults + 1
              /\ UNCHANGED task
  /\ UNCHANGED <<object, first, row, anchored, external, delivery>>

Rewrite(p) ==
  /\ op[p].kind = "privacy" /\ op[p].at = "write"
  /\ LET m == Max(DOMAIN op[p].rows) IN
     /\ object' = [object EXCEPT ![m] = Reissue(op[p].saw)]
     /\ op' = [op EXCEPT ![p].at = "look", ![p].saw = None,
                         ![p].rows = Restrict(@, DOMAIN @ \ {m})]
  /\ UNCHANGED <<first, row, anchored, external, delivery, task, faults>>

---------------------------------------------------------------------------
(* buildInvariantReport and enqueueInvariantRepairs.  A repair has one key *)
(* for good: whatever became of its task, no other is enqueued.            *)

Pending == {m \in Match : row[m] # None /\ row[m].status = "PENDING"}
Unanchored(b) == RequireAnchor /\ anchored[b] = None
SettlableBug == {m \in Pending : row[m].key}
Settlable == {m \in Pending : row[m].key /\ ~Unanchored(MatchBatch[m])}
Exposed == {m \in Match : row[m] # None /\ row[m].key /\ ~ReceiptOnly(object[m])}

Repairs ==
  {K("keys", None) : m \in Keyless} \cup {K("privacy", None) : m \in Exposed}
  \cup {K("reconcile", m) : m \in Settlable}
  \cup {K("anchor", b) : b \in {c \in Batch : Unanchored(c)}}

ReportOk ==
  /\ Keyless = {} /\ Pending = {}
  /\ \A b \in Batch : ~Unanchored(b)
  /\ ~\E k \in Key : Dead(k)

Missing == {k \in Key : task[k].status = "none"}

(* The report and its repairs are one step: what goes stale between them   *)
(* is as stale when the retry worker comes to the task.                    *)
Reconcile ==
  /\ \E found \in {Repairs, Repairs \cup {K("privacy", None)}} :
       /\ found \cap Missing # {}
       /\ faults' = IF found = Repairs THEN faults ELSE faults + 1   \* a scan failed
       /\ faults' <= MaxFaults
       /\ task' = [k \in Key |-> IF k \in found \cap Missing
                                   THEN [status |-> "open", tries |-> 0] ELSE task[k]]
  /\ UNCHANGED <<object, first, row, anchored, external, delivery, op>>

---------------------------------------------------------------------------
(* The indexer, and what goes wrong.                                       *)

(* MatchPublished upserts ids in the order of submission and no fills.     *)
IndexPublished(m) ==
  /\ m \notin replayed
  /\ replayed' = replayed \cup {m}
  /\ row' = [row EXCEPT ![m] =
       IF @ = None
         THEN [full |-> FALSE, swapped |-> m \in Reversed, key |-> FALSE, status |-> chain[m]]
         ELSE [@ EXCEPT !.swapped = m \in Reversed, !.status = chain[m]]]
  /\ UNCHANGED <<object, first, anchored, external, indexed, task, op, faults>>

IndexAnchored(b) ==
  /\ indexed[b] < Len(anchors[b])
  /\ indexed' = [indexed EXCEPT ![b] = @ + 1]
  /\ anchored' = [anchored EXCEPT ![b] = anchors[b][indexed[b] + 1]]
  /\ UNCHANGED <<object, first, row, external, replayed, task, op, faults>>

(* A call of a handler fails: the handler throws and its task is retried.  *)
Throw(p) ==
  /\ op[p] # None /\ op[p].kind # "privacy" /\ faults < MaxFaults
  /\ faults' = faults + 1
  /\ Leave(p, "open")
  /\ UNCHANGED <<object, first, row, anchored, external, delivery>>

(* The process dies; the stale-task sweep returns what was running.        *)
Crash ==
  /\ faults < MaxFaults /\ \E p \in Process : op[p] # None
  /\ faults' = faults + 1
  /\ op' = [p \in Process |-> None]
  /\ task' = [k \in Key |-> IF task[k].status = "running"
                              THEN [task[k] EXCEPT !.status = "open"] ELSE task[k]]
  /\ UNCHANGED <<object, first, row, anchored, external, delivery>>

Handle(p) ==
  /\ op[p] # None
  /\ \/ Ready(p) \/ Collect(p) \/ ReadObject(p)
     \/ SendSettle(p) \/ SaveSettle(p) \/ SendAnchor(p) \/ SaveAnchor(p)
     \/ RepairKeys(p) \/ SelectObjects(p) \/ Look(p) \/ Rewrite(p)

Next ==
  \/ \E k \in Key : Retry(k)
  \/ \E m \in Match : Relabel(m) \/ Settle(m) \/ RepairScan(m) \/ IndexPublished(m)
  \/ \E b \in Batch : Republish(b) \/ IndexAnchored(b)
  \/ \E p \in Process : Handle(p) \/ Throw(p)
  \/ Reconcile \/ Crash

Spec == Init /\ [][Next]_vars

(* The timers of index.ts keep firing, handlers return, the retry worker   *)
(* gets to every runnable task, and catch-up delivers every event; nothing *)
(* has to fail.                                                            *)
FairSpec ==
  /\ Spec /\ WF_vars(Reconcile /\ UNCHANGED faults) /\ \A k \in Key : SF_vars(Retry(k))
  /\ \A m \in Match : SF_vars(Settle(m)) /\ WF_vars(RepairScan(m)) /\ WF_vars(IndexPublished(m))
  /\ \A m \in Match : SF_vars(Relabel(m))
  /\ \A b \in Batch : WF_vars(IndexAnchored(b))
  /\ \A p \in Process : WF_vars(Handle(p) /\ UNCHANGED faults)

---------------------------------------------------------------------------
(* Properties.                                                             *)

IsReceipt(r) ==
  DOMAIN r \subseteq Match /\ Range(r) \subseteq [object : Object, sound : BOOLEAN]

TypeOK ==
  /\ object \in [Match -> Object \cup {None}] /\ first \in [Match -> Stored \cup {None}]
  /\ row \in [Match -> Row \cup {None}]
  /\ \A b \in Batch : anchored[b] # None => IsReceipt(anchored[b])
  /\ chain \in [Match -> {"PENDING", "SETTLED"}]
  /\ \A b \in Batch : /\ \A r \in Range(anchors[b]) : IsReceipt(r)
                       /\ indexed[b] \in 0 .. Len(anchors[b])
  /\ replayed \subseteq Match /\ faults \in 0 .. MaxFaults
  /\ \A k \in Key : task[k] \in [status : {"none", "open", "running", "done"}, tries : 0 .. MaxTries]
  /\ \A p \in Process : op[p] # None => op[p].key \in Key \cup {None}

(* No match settles before its batch has, on chain, roots that cover it    *)
(* and of which every object was sound and salted, whatever failed or was  *)
(* rewritten, anchored twice or retried in between; and a report that is   *)
(* ok is no false all-clear: every match the index knows has then settled. *)
SettledUnderAnchor ==
  /\ ReportOk => \A m \in Match : row[m] # None => chain[m] = "SETTLED"
  /\ \A m \in Match : chain[m] = "SETTLED" /\ RequireAnchor =>
       \E r \in Range(anchors[MatchBatch[m]]) :
         m \in DOMAIN r /\ AllSound(r) /\ AllSalted(r)

(* The state stays in its types, and rewriting keeps the evidence: an      *)
(* object the matcher had not signed never comes to pass as signed, and a  *)
(* salted one stays salted.                                                *)
NothingLaundered ==
  /\ TypeOK
  /\ \A m \in Match : /\ Signed(object[m]) <=> Signed(first[m])
                      /\ Salted(object[m]) <=> Salted(first[m])

(* A match whose batch is as the matcher writes it today settles unless a  *)
(* call fails, although the settler's own task may use up its tries before *)
(* the batch is anchored: the reconciler waits for the anchor.             *)
Current(b) ==
  \A m \in Match : MatchBatch[m] = b => row[m] # None /\ row[m].full /\ object[m] = "receipt"
MatchesSettle ==
  \A m \in Match : Current(MatchBatch[m]) ~> (chain[m] = "SETTLED" \/ faults > 0)
=============================================================================
