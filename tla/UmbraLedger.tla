----------------------------- MODULE UmbraLedger ----------------------------
(***************************************************************************)
(* The public ledger of the Midnight contract                              *)
(* (contracts/midnight/src/umbra.compact).  A transaction is one circuit   *)
(* call, applied atomically and whole or not at all, so each circuit is    *)
(* one action whose asserts are its guards.  A lookup of an absent key and *)
(* a cast that does not fit fail the call.  No circuit checks its caller,  *)
(* so any call may come at any time.                                       *)
(***************************************************************************)
EXTENDS Integers, FiniteSets

CONSTANTS
  Commitment, Nullifier, Root,
  None,        \* no entry in a map
  MaxUint,     \* the largest Uint<64>
  Width        \* commitments in one publishMatchResult vector

Uint == 0 .. MaxUint
OrderStatus == {"ACTIVE", "MATCHED", "CANCELLED"}  \* the others are never assigned
BatchStatus == {"OPEN", "CLOSED", "MATCHED", "SETTLED"}

ASSUME LedgerAssumption ==
  /\ MaxUint \in Nat \ {0} /\ Width \in Nat \ {0}
  /\ None \notin OrderStatus /\ None \notin BatchStatus /\ None \notin Root

VARIABLES
  orderCommitments, spentNullifiers, batchStatuses, settlementRoots,
  currentBatchId, orderCount,
  skipped   \* history: openBatch has been used, so numbers may be taken out of turn

ledger == <<orderCommitments, spentNullifiers, batchStatuses, settlementRoots,
            currentBatchId, orderCount>>
vars == <<ledger, skipped>>

Init ==
  /\ orderCommitments = [c \in Commitment |-> None]
  /\ spentNullifiers = {}
  /\ batchStatuses = [b \in Uint |-> IF b = 1 THEN "OPEN" ELSE None]
  /\ settlementRoots = [b \in Uint |-> None]
  /\ currentBatchId = 1
  /\ orderCount = 0
  /\ skipped = FALSE

---------------------------------------------------------------------------
(* The circuits.                                                           *)

openBatch(b) ==
  /\ batchStatuses[b] = None
  /\ batchStatuses' = [batchStatuses EXCEPT ![b] = "OPEN"]
  /\ currentBatchId' = b
  /\ skipped' = TRUE
  /\ UNCHANGED <<orderCommitments, spentNullifiers, settlementRoots, orderCount>>

(* The cast of n + 1 back to Uint<64>, which fails the call if it overflows. *)
Fits(n) == n < MaxUint

Fresh(c) == orderCommitments[c] = None

submitOrder(c, b) ==
  /\ Fresh(c)
  /\ batchStatuses[b] = "OPEN"
  /\ Fits(orderCount)
  /\ orderCommitments' = [orderCommitments EXCEPT ![c] = "ACTIVE"]
  /\ orderCount' = orderCount + 1
  /\ UNCHANGED <<spentNullifiers, batchStatuses, settlementRoots, currentBatchId, skipped>>

CancellableBug(c) == orderCommitments[c] # None
Cancellable(c) == orderCommitments[c] = "ACTIVE"

cancelOrder(c, n) ==
  /\ n \notin spentNullifiers
  /\ Cancellable(c)
  /\ spentNullifiers' = spentNullifiers \cup {n}
  /\ orderCommitments' = [orderCommitments EXCEPT ![c] = "CANCELLED"]
  /\ UNCHANGED <<batchStatuses, settlementRoots, currentBatchId, orderCount, skipped>>

(* The next batch is opened without a look at what it was.                 *)
SealedBug(b) == [batchStatuses EXCEPT ![b] = "CLOSED"]
Sealed(b) == [batchStatuses EXCEPT ![b] = "CLOSED", ![b + 1] = "OPEN"]

closeBatch(b) ==
  /\ batchStatuses[b] = "OPEN"
  /\ Fits(b)
  /\ batchStatuses' = Sealed(b)
  /\ currentBatchId' = b + 1
  /\ UNCHANGED <<orderCommitments, spentNullifiers, settlementRoots, orderCount, skipped>>

Publishable(b) == batchStatuses[b] = "CLOSED"

(* Every commitment of the vector becomes MATCHED, known or not.           *)
publishMatchResult(b, root, matched) ==
  /\ Publishable(b)
  /\ settlementRoots' = [settlementRoots EXCEPT ![b] = root]
  /\ batchStatuses' = [batchStatuses EXCEPT ![b] = "MATCHED"]
  /\ orderCommitments' =
       [c \in Commitment |-> IF c \in matched THEN "MATCHED" ELSE orderCommitments[c]]
  /\ UNCHANGED <<spentNullifiers, currentBatchId, orderCount, skipped>>

SettleableBug(b) == batchStatuses[b] \in {"CLOSED", "MATCHED"}
Settleable(b) == batchStatuses[b] = "MATCHED"

settleBatch(b) ==
  /\ Settleable(b)
  /\ batchStatuses' = [batchStatuses EXCEPT ![b] = "SETTLED"]
  /\ UNCHANGED <<orderCommitments, spentNullifiers, settlementRoots,
                 currentBatchId, orderCount, skipped>>

(* The vector holds Width commitments, with repetitions.                   *)
Vectors == {m \in SUBSET Commitment : Cardinality(m) \in 1 .. Width}

Next ==
  \/ \E b \in Uint : openBatch(b) \/ closeBatch(b) \/ settleBatch(b)
  \/ \E c \in Commitment, b \in Uint : submitOrder(c, b)
  \/ \E c \in Commitment, n \in Nullifier : cancelOrder(c, n)
  \/ \E b \in Uint, root \in Root, m \in Vectors : publishMatchResult(b, root, m)

Spec == Init /\ [][Next]_vars

---------------------------------------------------------------------------
(* Properties.                                                             *)

TypeOK ==
  /\ orderCommitments \in [Commitment -> OrderStatus \cup {None}]
  /\ spentNullifiers \in SUBSET Nullifier
  /\ batchStatuses \in [Uint -> BatchStatus \cup {None}]
  /\ settlementRoots \in [Uint -> Root \cup {None}]
  /\ currentBatchId \in Uint
  /\ orderCount \in Uint
  /\ skipped \in BOOLEAN

Active == {c \in Commitment : orderCommitments[c] = "ACTIVE"}

(* There are never more cancellations and open orders than orders were     *)
(* submitted: a nullifier is spent on one order and an order is cancelled  *)
(* once, in whatever order submissions, cancellations and publications     *)
(* (which may mark cancelled or unknown commitments) come.                 *)
CancellationsAreBacked ==
  Cardinality(spentNullifiers) + Cardinality(Active) <= orderCount

(* The batch the counter names is open for orders, however openBatch,      *)
(* closeBatch, publication and settlement of any batches interleave.       *)
CurrentBatchIsOpen == batchStatuses[currentBatchId] = "OPEN"

(* A batch counted as matched or settled has its settlement root.          *)
MatchedHasRoot ==
  \A b \in Uint : batchStatuses[b] \in {"MATCHED", "SETTLED"} => settlementRoots[b] # None

(* As long as nobody used openBatch the batches are sealed in sequence:    *)
(* exactly the current one is open, all earlier ones are past it, no later *)
(* number is taken, and only matched and settled ones have a root.         *)
SealedInSequence ==
  ~skipped => \A b \in Uint :
    /\ batchStatuses[b] = "OPEN" <=> b = currentBatchId
    /\ batchStatuses[b] = None <=> b = 0 \/ b > currentBatchId
    /\ settlementRoots[b] # None => batchStatuses[b] \in {"MATCHED", "SETTLED"}

(* The state stays in its types, and the batches are in order: the         *)
(* counter's is open, none is matched without its root, and while nobody   *)
(* used openBatch they are sealed in sequence.  Only together do these     *)
(* survive closeBatch's unconditional insert of the next number.           *)
BatchesInSequence == TypeOK /\ CurrentBatchIsOpen /\ MatchedHasRoot /\ SealedInSequence

(* And a published batch then keeps its root and is never opened again:    *)
(* closeBatch's unconditional insert of the next number cannot hit it.     *)
ResultsAreFinal ==
  [][~skipped' => \A b \in Uint : settlementRoots[b] # None =>
       /\ settlementRoots'[b] = settlementRoots[b]
       /\ batchStatuses[b] = "SETTLED" => batchStatuses'[b] = "SETTLED"]_vars

(* The circuits implement BatchSequence, the contract's promise about its  *)
(* batches seen as a whole: sealing, publication and settlement, whatever  *)
(* the order, each happen once to a batch and in that order, and no        *)
(* circuit undoes one.  The status of a batch tells how far it has come.   *)
Sequence == INSTANCE BatchSequence WITH
  Batches <- Uint, First <- 1, Results <- Root, NoResult <- None,
  void <- skipped,
  sealed <- IF skipped THEN {}
            ELSE {b \in Uint : batchStatuses[b] \in {"CLOSED", "MATCHED", "SETTLED"}},
  settled <- IF skipped THEN {} ELSE {b \in Uint : batchStatuses[b] = "SETTLED"},
  result <- IF skipped THEN [b \in Uint |-> None] ELSE settlementRoots

ImplementsBatchSequence == Sequence!Spec
=============================================================================
