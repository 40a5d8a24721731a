------------------------------ MODULE Indexer ------------------------------
(***************************************************************************)
(* The confirmed index and its rollback after a chain reorganisation       *)
(* (matcher/src/workers/catchup.ts), the handlers it replays into          *)
(* (chain/events.ts) and the relayer's commitments and nullifiers          *)
(* (relayer/commitments.ts, relayer/integrity.ts).  Every                  *)
(* statement of a pass is a step of its own; a pass that throws, and a    *)
(* process that dies, leave the rest of the pass undone.                   *)
(*                                                                         *)
(* One order and one match of it stand for the tables (the row of a batch  *)
(* is rolled back by its closeTxHash just as an order's is), and a block   *)
(* carries at most one of the transactions that touch them.                *)
(***************************************************************************)
EXTENDS Integers, Sequences, FiniteSets, SequencesExt

CONSTANTS
  Submit,       \* transactions that submit the order (another may after a reorg)
  Publish, SettleTx,            \* that publish and settle the match
  None,
  Depth,        \* confirmationDepth
  ChunkSize,
  MaxHeight,    \* bound of the model: blocks
  MaxTrouble    \* bound of the model: reorganisations, faults and listener calls together

Tx == Submit \cup {Publish, SettleTx}
Height == 1 .. MaxHeight

(* The rows of orders, matches, commitments and indexedChainLogs, and a    *)
(* block of the chain, which carries one transaction at most.              *)
OrderRows == [status : {"ACTIVE", "MATCHED", "SETTLED"}, tx : Submit]
MatchRows == [status : {"PENDING", "SETTLED"}, settledBy : {None, SettleTx}]
CommitmentRows == [tx : Submit, status : {"ACTIVE", "CONSUMED"}]
LogRows == [status : {"CONFIRMED", "REORGED"}, block : Height]
Block == [fork : 0 .. MaxTrouble, tx : Tx \cup {None}]

ASSUME IndexerAssumption ==
  /\ Depth \in Nat /\ ChunkSize \in Nat \ {0} /\ MaxHeight \in Nat
  /\ MaxTrouble \in Nat
  /\ Publish # SettleTx
  /\ Submit \cap {Publish, SettleTx, None} = {}
  /\ None \notin {Publish, SettleTx} \cup Nat
  /\ None \notin OrderRows \cup MatchRows \cup CommitmentRows \cup LogRows

VARIABLES
  chain,        \* the blocks, each with the fork it was mined on and its transaction
  orderRow,     \* None or [status, tx]: orders.status, orders.submitTxHash
  matchRow,     \* None or [status, settledBy]: matches.status, matches.settleTxHash
  commitment,   \* None or [tx, status]; the nullifier is derived from the submit tx
  consumed,     \* consumedNullifiers, each named by its submit tx
  logRow,       \* indexedChainLogs: None or [status, block] of a transaction
  blockRow,     \* indexedBlocks: None or the hash (the fork) of a height
  cursor,       \* eventCursor.lastBlock
  pc, common, gone,             \* locals of a pass: the rollback ...
  target, upto,                 \* ... and the chunks:
  view, logs,   \* the blocks a chunk was read from, the heights of its logs not yet replayed
  forks, trouble,
  buried, torn, \* history, see Stamp and Fault
  refiled,      \* history: transactions whose log was stored again at another height,
  pending,      \* ... whose log was stored and which the cursor has not passed,
  heard         \* ... which a listener has handled since they were last rolled back

db == <<orderRow, matchRow, commitment, consumed, logRow, blockRow, cursor>>
locals == <<common, gone, target, upto, view, logs>>
bounds == <<forks, trouble>>
history == <<buried, torn, refiled, pending, heard>>
vars == <<chain, db, pc, locals, bounds, history>>

Unread == [h \in {} |-> None]

Init ==
  /\ chain = <<>>
  /\ orderRow = None /\ matchRow = None
  /\ commitment = None /\ consumed = {}
  /\ logRow = [t \in Tx |-> None] /\ blockRow = [h \in Height |-> None] /\ cursor = 0
  /\ pc = "idle" /\ common = 0 /\ gone = {}
  /\ target = 0 /\ upto = 0 /\ view = Unread /\ logs = {}
  /\ forks = 0 /\ trouble = 0
  /\ buried = FALSE /\ torn = FALSE /\ refiled = {} /\ pending = {} /\ heard = {}

---------------------------------------------------------------------------
(* The chain.                                                              *)

Min2(a, b) == IF a < b THEN a ELSE b
HeightOf(t) == SelectInSeq(chain, LAMBDA b : b.tx = t)     \* 0: not on the chain
OnChain(t) == HeightOf(t) # 0
Submitted == \E t \in Submit : OnChain(t)

Minable(t) ==
  /\ ~OnChain(t)
  /\ CASE t \in Submit -> ~Submitted
       [] t = Publish -> Submitted
       [] t = SettleTx -> OnChain(Publish)
       [] OTHER -> TRUE

(* Blocks come at any time; a block between two statements of a pass that  *)
(* do not read the chain is the same as one before or after both.          *)
ChainMoves == pc \in {"idle", "select", "scan", "fetch", "row", "stamp"}

Mine ==
  /\ ChainMoves /\ Len(chain) < MaxHeight
  /\ \E t \in {x \in Tx : Minable(x)} \cup {None} : chain' = Append(chain, [fork |-> forks, tx |-> t])
  /\ UNCHANGED <<db, pc, locals, bounds, history>>

Reorg(k) ==
  /\ ChainMoves /\ trouble < MaxTrouble /\ k < Len(chain)
  /\ chain' = SubSeq(chain, 1, k)
  /\ forks' = forks + 1 /\ trouble' = trouble + 1
  /\ UNCHANGED <<db, pc, locals, history>>

(* Hash of a block as getBlock returns it; None past the head.             *)
HashAt(h) == IF h \in DOMAIN chain THEN chain[h].fork ELSE None

(* Views of the contract, at the head of the chain.                        *)
OrderStatus ==
  IF OnChain(SettleTx) THEN "SETTLED" ELSE IF OnChain(Publish) THEN "MATCHED" ELSE "ACTIVE"
MatchStatus == IF OnChain(SettleTx) THEN "SETTLED" ELSE "PENDING"

---------------------------------------------------------------------------
(* indexDexEvent: what each table holds after the event of t is handled.   *)
(* Operators named ...Bug are the slips the properties below are tried     *)
(* against; nothing here uses them.                                        *)

MarkedAs(status) ==
  IF orderRow = None \/ (status = "MATCHED" /\ orderRow.status = "SETTLED")
    THEN orderRow ELSE [orderRow EXCEPT !.status = status]

OrderRowAfter(t) ==
  CASE t \in Submit -> [status |-> OrderStatus, tx |-> t]
    [] t = Publish -> MarkedAs("MATCHED")
    [] t = SettleTx -> MarkedAs("SETTLED")
    [] OTHER -> orderRow

MatchRowAfter(t) ==
  CASE t = Publish -> [status |-> MatchStatus, settledBy |-> None]
    [] t = SettleTx /\ matchRow # None -> [status |-> "SETTLED", settledBy |-> t]
    [] OTHER -> matchRow

(* markOrderCommitmentsConsumed inserts the nullifier of the commitment on *)
(* file and then marks the commitment; an order without one is skipped.    *)
ConsumedAfterBug(t) == consumed
ConsumedAfter(t) ==
  IF t = SettleTx /\ commitment # None THEN consumed \cup {commitment.tx} ELSE consumed

CommitmentAfter(t) ==
  CASE t \in Submit -> [tx |-> t, status |-> "ACTIVE"]
    [] t = SettleTx /\ commitment # None -> [commitment EXCEPT !.status = "CONSUMED"]
    [] OTHER -> commitment

(* A live listener handles an event at once, before it is confirmed; how   *)
(* its statements interleave with others is BatchPipeline's subject.       *)
Live(t) ==
  /\ OnChain(t) /\ trouble < MaxTrouble
  /\ orderRow' = OrderRowAfter(t) /\ matchRow' = MatchRowAfter(t)
  /\ consumed' = ConsumedAfter(t) /\ commitment' = CommitmentAfter(t)
  /\ trouble' = trouble + 1 /\ heard' = heard \cup {t}
  /\ UNCHANGED <<chain, logRow, blockRow, cursor, pc, locals, forks, buried, torn, refiled, pending>>

---------------------------------------------------------------------------
(* rollbackIfNeeded.                                                       *)

Stamped == {h \in Height : blockRow[h] # None}
Latest == CHOOSE h \in Stamped : \A k \in Stamped : k <= h
Shared == {h \in Stamped : HashAt(h) = blockRow[h]}

(* A latest block the node does not return counts as no reorganisation.    *)
Diverged == Stamped # {} /\ HashAt(Latest) \notin {None, blockRow[Latest]}

Check ==
  /\ pc = "idle"
  /\ pc' = IF Diverged THEN "select" ELSE "scan"
  /\ UNCHANGED <<chain, db, locals, bounds, history>>

(* The common block is sought among the last blocks stamped, 0 if none is  *)
(* left; every log above it is selected, also one marked before.           *)
Newest == CHOOSE h \in Shared : \A k \in Shared : k <= h
Common == IF Shared = {} THEN 0 ELSE Newest
Select ==
  /\ pc = "select"
  /\ common' = Common
  /\ gone' = {t \in Tx : logRow[t] # None /\ logRow[t].block > Common}
  /\ pc' = "orders"
  /\ UNCHANGED <<chain, db, target, upto, view, logs, bounds, history>>

UndoOrders ==
  /\ pc = "orders" /\ pc' = "matches"
  /\ orderRow' = IF orderRow # None /\ orderRow.tx \in gone THEN None ELSE orderRow
  /\ heard' = heard \ (gone \cap Submit)
  /\ UNCHANGED <<chain, matchRow, commitment, consumed, logRow, blockRow, cursor, locals, bounds,
                 buried, torn, refiled, pending>>

(* The match row of a dropped publication goes; matches has one             *)
(* publishTxHash, since only one transaction publishes the match.           *)
UndoMatches ==
  /\ pc = "matches" /\ pc' = "settlements"
  /\ matchRow' = IF Publish \in gone THEN None ELSE matchRow
  /\ heard' = heard \ (gone \cap {Publish})
  /\ UNCHANGED <<chain, orderRow, commitment, consumed, logRow, blockRow, cursor, locals, bounds,
                 buried, torn, refiled, pending>>

(* The deletion of commitments compares the lower-case address with the    *)
(* checksummed one they are stored under, and deletes nothing.             *)
UnsettledBug == matchRow
Unsettled ==
  IF matchRow # None /\ matchRow.settledBy \in gone
    THEN [status |-> "PENDING", settledBy |-> None] ELSE matchRow
UndoSettlements ==
  /\ pc = "settlements" /\ pc' = "marks"
  /\ matchRow' = Unsettled
  /\ heard' = heard \ (gone \cap {SettleTx})
  /\ UNCHANGED <<chain, orderRow, commitment, consumed, logRow, blockRow, cursor, locals, bounds,
                 buried, torn, refiled, pending>>

MarkReorged ==
  /\ pc = "marks" /\ pc' = "blocks"
  /\ logRow' = [t \in Tx |-> IF logRow[t] # None /\ logRow[t].block > common
                              THEN [logRow[t] EXCEPT !.status = "REORGED"] ELSE logRow[t]]
  /\ pending' = pending \ gone
  /\ UNCHANGED <<chain, orderRow, matchRow, commitment, consumed, blockRow, cursor, locals, bounds,
                 buried, torn, refiled, heard>>

DropBlocks ==
  /\ pc = "blocks" /\ pc' = "rewind"
  /\ blockRow' = [h \in Height |-> IF h > common THEN None ELSE blockRow[h]]
  /\ UNCHANGED <<chain, orderRow, matchRow, commitment, consumed, logRow, cursor, locals, bounds, history>>

RewoundBug == cursor
Rewound == common
Rewind ==
  /\ pc = "rewind" /\ pc' = "scan"
  /\ cursor' = Rewound
  /\ common' = 0 /\ gone' = {}
  /\ UNCHANGED <<chain, orderRow, matchRow, commitment, consumed, logRow, blockRow, target, upto, view, logs, bounds, history>>

---------------------------------------------------------------------------
(* The chunks of a pass.                                                   *)

Confirmed == Len(chain) - Depth

(* The heights, among the blocks read, of those with a log.                *)
LogsOf(read) == {h \in DOMAIN read : read[h].tx # None}

(* Logs are replayed in the order of their blocks: the next one.           *)
Log == CHOOSE h \in logs : \A k \in logs : h <= k
LogTx == view[Log].tx

(* The logs of a chunk's blocks: one call per kind of event in the code,   *)
(* taken as one here.                                                      *)
Scan ==
  /\ pc = "scan"
  /\ IF Confirmed < cursor + 1
       THEN pc' = "idle" /\ target' = 0
       ELSE pc' = "fetch" /\ target' = Confirmed
  /\ UNCHANGED <<chain, db, common, gone, upto, view, logs, bounds, history>>

Fetch ==
  /\ pc = "fetch"
  /\ LET to == Min2(cursor + ChunkSize, target)
         read == [h \in cursor + 1 .. Min2(to, Len(chain)) |-> chain[h]]
     IN  /\ upto' = to /\ view' = read /\ logs' = LogsOf(read)
         /\ pc' = IF LogsOf(read) = {} THEN "stamp" ELSE "store"
  /\ UNCHANGED <<chain, db, common, gone, target, bounds, history>>

(* storeConfirmedLog: a log already on file keeps its status and block.    *)
Store ==
  /\ pc = "store" /\ pc' = "row"
  /\ IF logRow[LogTx] = None
       THEN /\ logRow' = [logRow EXCEPT ![LogTx] = [status |-> "CONFIRMED", block |-> Log]]
            /\ UNCHANGED refiled
       ELSE /\ refiled' = IF logRow[LogTx].block = Log THEN refiled ELSE refiled \cup {LogTx}
            /\ UNCHANGED logRow
  /\ pending' = pending \cup {LogTx}
  /\ UNCHANGED <<chain, orderRow, matchRow, commitment, consumed, blockRow, cursor, locals,
                 bounds, buried, torn, heard>>

(* The replay of one log: its row, the rows that follow from it, and for a *)
(* settlement the nullifier and the commitment.                            *)
ReplayRow ==
  /\ pc = "row" /\ pc' = "related"
  /\ orderRow' = IF LogTx \in Submit THEN OrderRowAfter(LogTx) ELSE orderRow
  /\ matchRow' = MatchRowAfter(LogTx)
  /\ UNCHANGED <<chain, commitment, consumed, logRow, blockRow, cursor, locals,
                 bounds, history>>

Finish ==
  /\ logs' = logs \ {Log}
  /\ pc' = IF logs = {Log} THEN "stamp" ELSE "store"

ReplayRelated ==
  /\ pc = "related"
  /\ orderRow' = IF LogTx \in Submit THEN orderRow ELSE OrderRowAfter(LogTx)
  /\ commitment' = IF LogTx \in Submit THEN CommitmentAfter(LogTx) ELSE commitment
  /\ IF LogTx = SettleTx THEN pc' = "spend" /\ UNCHANGED logs ELSE Finish
  /\ UNCHANGED <<chain, matchRow, consumed, logRow, blockRow, cursor,
                 common, gone, target, upto, view, bounds, history>>

ReplaySpend ==
  /\ pc = "spend" /\ pc' = "consume"
  /\ consumed' = ConsumedAfter(LogTx)
  /\ UNCHANGED <<chain, orderRow, matchRow, commitment, logRow, blockRow, cursor, locals, bounds, history>>

ReplayConsume ==
  /\ pc = "consume"
  /\ commitment' = CommitmentAfter(LogTx)
  /\ Finish
  /\ UNCHANGED <<chain, orderRow, matchRow, consumed, logRow, blockRow, cursor, common, gone, target, upto, view, bounds, history>>

(* The hash of the chunk's last block is read after its logs.  If the      *)
(* chain changed in between, or below a block stamped earlier, or since a  *)
(* pass that stored logs of the chunk and failed, the stamp buries the     *)
(* change and later passes do not see it; so does a cursor that moves on   *)
(* without a stamp, the block being gone.                                  *)
Buries ==
  \/ view # [h \in cursor + 1 .. upto |-> chain[h]]
  \/ \E h \in Stamped : h <= cursor /\ HashAt(h) # blockRow[h]
  \/ \E t \in pending : logRow[t].block \in cursor + 1 .. upto /\ HeightOf(t) # logRow[t].block
Stamp ==
  /\ pc = "stamp"
  /\ IF HashAt(upto) = None
       THEN pc' = "advance" /\ buried' = TRUE /\ UNCHANGED blockRow
       ELSE /\ pc' = "advance"
            /\ blockRow' = [blockRow EXCEPT ![upto] = HashAt(upto)]
            /\ buried' = (buried \/ Buries)
  /\ view' = Unread
  /\ UNCHANGED <<chain, orderRow, matchRow, commitment, consumed, logRow, cursor, common, gone, target, upto, logs,
                 bounds, torn, refiled, pending, heard>>

Advance ==
  /\ pc = "advance"
  /\ cursor' = upto
  /\ pc' = IF upto < target THEN "fetch" ELSE "idle"
  /\ target' = (IF upto < target THEN target ELSE 0) /\ upto' = 0
  /\ pending' = {t \in pending : logRow[t].block > upto}
  /\ UNCHANGED <<chain, orderRow, matchRow, commitment, consumed, logRow, blockRow, common, gone, view, logs,
                 bounds, buried, torn, refiled, heard>>

(* A statement throws or the process dies.  Once the stamps above the      *)
(* common block are gone nothing tells the next pass to move the cursor.   *)
Fault ==
  /\ pc # "idle" /\ trouble < MaxTrouble
  /\ pc' = "idle" /\ common' = 0 /\ gone' = {}
  /\ target' = 0 /\ upto' = 0 /\ view' = Unread /\ logs' = {}
  /\ torn' = (torn \/ pc = "rewind")
  /\ trouble' = trouble + 1
  /\ UNCHANGED <<chain, db, forks, buried, refiled, pending, heard>>

Rollback ==
  \/ Check \/ Select \/ UndoOrders \/ UndoMatches \/ UndoSettlements
  \/ MarkReorged \/ DropBlocks \/ Rewind
Chunk ==
  \/ Scan \/ Fetch \/ Store \/ ReplayRow \/ ReplayRelated \/ ReplaySpend \/ ReplayConsume
  \/ Stamp \/ Advance

Next ==
  \/ Mine
  \/ \E k \in 0 .. MaxHeight : Reorg(k)
  \/ \E t \in Tx : Live(t)
  \/ Rollback \/ Chunk \/ Fault

Spec == Init /\ [][Next]_vars

---------------------------------------------------------------------------
TypeOK ==
  /\ chain \in Seq(Block) /\ Len(chain) <= MaxHeight
  /\ orderRow \in {None} \cup OrderRows /\ matchRow \in {None} \cup MatchRows
  /\ commitment \in {None} \cup CommitmentRows
  /\ consumed \subseteq Submit
  /\ logRow \in [Tx -> {None} \cup LogRows]
  /\ blockRow \in [Height -> {None} \cup (0 .. MaxTrouble)]
  /\ cursor \in 0 .. MaxHeight /\ gone \subseteq Tx

(* A log that was stored again at another height keeps its old one, which  *)
(* a second rollback goes by.                                              *)
Misfiled(t) == logRow[t] # None /\ OnChain(t) /\ logRow[t].block # HeightOf(t)

(* The index rests: no pass is under way, the stamped blocks are those of  *)
(* the chain, every log is filed where the chain has it, and no fork was   *)
(* buried nor a rollback torn.                                             *)
AtRest ==
  /\ pc = "idle" /\ ~buried /\ ~torn
  /\ Shared = Stamped
  /\ \A t \in Tx : ~Misfiled(t)
Indexed(t) == OnChain(t) /\ HeightOf(t) <= cursor

Held(t) ==
  CASE t \in Submit -> orderRow # None
    [] t = Publish -> matchRow # None
    [] t = SettleTx -> matchRow # None /\ matchRow.status = "SETTLED"

(* Rollback loses nothing: whatever a reorganisation, a fault or a         *)
(* listener did before, every event of a confirmed block up to the cursor  *)
(* has its row (catchup.ts).                                               *)
NothingMissed == AtRest => \A t \in Tx : Indexed(t) => Held(t)

(* The state stays in its types, and rollback leaves nothing behind: a row *)
(* names a transaction of the chain, unless a listener alone has seen that *)
(* transaction since it was last rolled back, or its log was once stored   *)
(* again at another height and kept the first one.  (A pass that failed    *)
(* between a chunk's first log and its cursor must be repeated before.)    *)
OnFile(t) == logRow[t] # None /\ logRow[t].status = "CONFIRMED"
Accounted(t) == OnChain(t) \/ (t \in heard /\ ~OnFile(t)) \/ t \in refiled
NoPhantoms ==
  /\ TypeOK
  /\ AtRest /\ (\A t \in pending : logRow[t].block <= cursor) =>
       /\ orderRow # None => Accounted(orderRow.tx)
       /\ matchRow # None => Accounted(Publish) /\ (matchRow.settledBy # None => Accounted(SettleTx))

(* The integrity report is clean at rest (relayer/integrity.ts): an order  *)
(* has the commitment of its own submission, and a settled match has spent *)
(* its nullifier, although every replay of a submission sets the           *)
(* commitment ACTIVE again.                                                *)
IntegrityAtRest ==
  AtRest =>
    /\ orderRow # None /\ Indexed(orderRow.tx) => commitment # None /\ commitment.tx = orderRow.tx
    /\ Indexed(SettleTx) /\ (\E t \in Submit : Indexed(t)) => commitment.tx \in consumed
=============================================================================
