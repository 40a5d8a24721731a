--------------------------- MODULE Midnight_proofs ---------------------------
(***************************************************************************)
(* Theorems about the contract's ledger, for every set of commitments,     *)
(* nullifiers and roots and every width of Uint; about what the deployment *)
(* scripts keep, for any number of runs of them, and what they leave       *)
(* untouched of that ledger; and about what the Midnight front end keeps,  *)
(* for any number of tabs, orders, batches and wallet balances.            *)
(***************************************************************************)
EXTENDS MidnightDeploy, MidnightApp, FiniteSums

USE DEF Uint

(* One step of the ledger, circuit by circuit.                             *)
LEMMA Circuits ==
  ASSUME Next
  PROVE  \/ \E b \in Uint : openBatch(b) \/ closeBatch(b) \/ settleBatch(b)
         \/ \E c \in Commitment, b \in Uint : submitOrder(c, b)
         \/ \E c \in Commitment, n \in Nullifier : cancelOrder(c, n)
         \/ \E b \in Uint, root \in Root, m \in SUBSET Commitment : publishMatchResult(b, root, m)
  BY DEF Next, Vectors

(* The constructor leaves a well typed ledger.                             *)
LEMMA TypeInit == Init => TypeOK
<1>1. SUFFICES ASSUME Init PROVE TypeOK
  OBVIOUS
<1>2. 0 \in Uint /\ 1 \in Uint /\ "OPEN" \in BatchStatus
  BY LedgerAssumption DEF BatchStatus
<1>3. QED BY <1>1, <1>2 DEF Init, TypeOK

(* Every circuit call keeps the ledger well typed.                         *)
LEMMA TypeStep == TypeOK /\ [Next]_vars => TypeOK'
<1> SUFFICES ASSUME TypeOK, [Next]_vars PROVE TypeOK'
  OBVIOUS
<1>1. ASSUME NEW b \in Uint, openBatch(b) PROVE TypeOK'
  BY <1>1 DEF openBatch, TypeOK, BatchStatus
<1>2. ASSUME NEW b \in Uint, closeBatch(b) PROVE TypeOK'
  <2>1. b + 1 \in Uint
    BY <1>2, LedgerAssumption DEF closeBatch, Fits
  <2>2. QED BY <1>2, <2>1 DEF closeBatch, Sealed, TypeOK, BatchStatus
<1>3. ASSUME NEW b \in Uint, settleBatch(b) PROVE TypeOK'
  BY <1>3 DEF settleBatch, TypeOK, BatchStatus
<1>4. ASSUME NEW c \in Commitment, NEW b \in Uint, submitOrder(c, b) PROVE TypeOK'
  BY <1>4, LedgerAssumption DEF submitOrder, Fits, TypeOK, OrderStatus
<1>5. ASSUME NEW c \in Commitment, NEW n \in Nullifier, cancelOrder(c, n) PROVE TypeOK'
  BY <1>5 DEF cancelOrder, TypeOK, OrderStatus
<1>6. ASSUME NEW b \in Uint, NEW root \in Root, NEW m \in SUBSET Commitment,
             publishMatchResult(b, root, m)
      PROVE  TypeOK'
  BY <1>6 DEF publishMatchResult, TypeOK, OrderStatus, BatchStatus
<1>7. CASE UNCHANGED vars
  BY <1>7 DEF vars, ledger, TypeOK
<1>8. QED BY <1>1, <1>2, <1>3, <1>4, <1>5, <1>6, <1>7, Circuits

(* Type correctness; in particular the casts to Uint<64> never wrap.       *)
THEOREM TypeCorrect == Spec => []TypeOK
  BY TypeInit, TypeStep, PTL DEF Spec

---------------------------------------------------------------------------
(* Cancellations are backed by submissions.                                *)

(* Inductive: the sets that are counted stay finite.                       *)
Backed ==
  /\ IsFiniteSet(spentNullifiers) /\ IsFiniteSet(Active)
  /\ CancellationsAreBacked

(* The constructor's empty maps: nothing to back yet.                      *)
LEMMA BackedInit == Init => Backed
<1>1. SUFFICES ASSUME Init PROVE Backed
  OBVIOUS
<1>2. spentNullifiers = {} /\ Active = {} /\ orderCount = 0
  BY <1>1, LedgerAssumption DEF Init, Active, OrderStatus
<1>3. QED BY <1>2, FS_EmptySet DEF Backed, CancellationsAreBacked

(* submitOrder adds one to both sides, cancelOrder moves one order from the *)
(* open ones to the spent nullifiers, publishMatchResult only closes orders. *)
LEMMA BackedStep == TypeOK /\ Backed /\ [Next]_vars => Backed'
<1> SUFFICES ASSUME TypeOK, Backed, [Next]_vars PROVE Backed'
  OBVIOUS
<1>1. Cardinality(spentNullifiers) \in Nat /\ Cardinality(Active) \in Nat /\ orderCount \in Int
  BY FS_CardinalityType, LedgerAssumption DEF Backed, TypeOK
<1>2. ASSUME UNCHANGED <<orderCommitments, spentNullifiers, orderCount>> PROVE Backed'
  BY <1>2 DEF Backed, CancellationsAreBacked, Active
<1>3. ASSUME NEW c \in Commitment, NEW b \in Uint, submitOrder(c, b) PROVE Backed'
  <2>1. /\ Active' = Active \cup {c} /\ c \notin Active
        /\ spentNullifiers' = spentNullifiers /\ orderCount' = orderCount + 1
    BY <1>3, LedgerAssumption DEF submitOrder, Fresh, Active, TypeOK, OrderStatus
  <2>2. IsFiniteSet(Active') /\ Cardinality(Active') = Cardinality(Active) + 1
    BY <2>1, FS_AddElement DEF Backed
  <2>3. QED BY <1>1, <2>1, <2>2 DEF Backed, CancellationsAreBacked
<1>4. ASSUME NEW c \in Commitment, NEW n \in Nullifier, cancelOrder(c, n) PROVE Backed'
  <2>1. /\ Active' = Active \ {c} /\ c \in Active
        /\ spentNullifiers' = spentNullifiers \cup {n} /\ n \notin spentNullifiers
        /\ orderCount' = orderCount
    BY <1>4 DEF cancelOrder, Cancellable, Active, TypeOK
  <2>2. IsFiniteSet(Active') /\ Cardinality(Active') = Cardinality(Active) - 1
    BY <2>1, FS_RemoveElement DEF Backed
  <2>3. /\ IsFiniteSet(spentNullifiers')
        /\ Cardinality(spentNullifiers') = Cardinality(spentNullifiers) + 1
    BY <2>1, FS_AddElement DEF Backed
  <2>4. QED BY <1>1, <2>1, <2>2, <2>3 DEF Backed, CancellationsAreBacked
<1>5. ASSUME NEW b \in Uint, NEW root \in Root, NEW m \in SUBSET Commitment,
             publishMatchResult(b, root, m)
      PROVE  Backed'
  <2>1. /\ Active' \in SUBSET Active
        /\ spentNullifiers' = spentNullifiers /\ orderCount' = orderCount
    BY <1>5 DEF publishMatchResult, Active
  <2>2. IsFiniteSet(Active') /\ Cardinality(Active') <= Cardinality(Active)
    BY <2>1, FS_Subset DEF Backed
  <2>3. Cardinality(Active') \in Nat
    BY <2>2, FS_CardinalityType
  <2>4. QED BY <1>1, <2>1, <2>2, <2>3 DEF Backed, CancellationsAreBacked
<1>6. QED
  BY <1>2, <1>3, <1>4, <1>5, Circuits
  DEF openBatch, closeBatch, settleBatch, vars, ledger

(* cancelOrder and submitOrder: open orders and spent nullifiers together  *)
(* never outnumber the submissions.                                        *)
THEOREM CancellationsBacked == Spec => []CancellationsAreBacked
<1>1. TypeOK /\ Backed /\ [Next]_vars => (TypeOK /\ Backed)'
  BY TypeStep, BackedStep
<1>2. Backed => CancellationsAreBacked
  BY DEF Backed
<1>3. QED BY TypeInit, BackedInit, <1>1, <1>2, PTL DEF Spec

---------------------------------------------------------------------------
(* The life of the batches.                                                *)

(* The constructor opens batch 1 and sets the counter to it.               *)
LEMMA BatchesInit == Init => BatchesInSequence
<1>1. SUFFICES ASSUME Init PROVE BatchesInSequence
  OBVIOUS
<1>2. QED
  BY <1>1, TypeInit, LedgerAssumption
  DEF Init, BatchesInSequence, CurrentBatchIsOpen, MatchedHasRoot, SealedInSequence, BatchStatus

(* The facts about batches are inductive: a circuit that moves the counter *)
(* opens the batch it moves it to, and publication is the only way to MATCHED. *)
LEMMA BatchesStep == BatchesInSequence /\ [Next]_vars => BatchesInSequence'
<1> SUFFICES ASSUME BatchesInSequence, [Next]_vars PROVE BatchesInSequence'
  OBVIOUS
<1> USE DEF BatchesInSequence, CurrentBatchIsOpen, MatchedHasRoot, SealedInSequence
<1>1. TypeOK'
  BY TypeStep
<1>2. ASSUME UNCHANGED <<batchStatuses, settlementRoots, currentBatchId, skipped>> PROVE BatchesInSequence'
  BY <1>1, <1>2
<1>3. ASSUME NEW b \in Uint, openBatch(b) PROVE BatchesInSequence'
  BY <1>1, <1>3, LedgerAssumption DEF openBatch, TypeOK, BatchStatus
<1>4. ASSUME NEW b \in Uint, closeBatch(b) PROVE BatchesInSequence'
  <2>1. b + 1 \in Uint /\ b # b + 1
    BY <1>4, LedgerAssumption DEF closeBatch, Fits
  <2>2. /\ batchStatuses'[b + 1] = "OPEN" /\ batchStatuses'[b] = "CLOSED"
        /\ \A x \in Uint : x # b /\ x # b + 1 => batchStatuses'[x] = batchStatuses[x]
        /\ currentBatchId' = b + 1
        /\ UNCHANGED <<settlementRoots, skipped>>
        /\ batchStatuses[b] = "OPEN"
    BY <1>4, <2>1 DEF closeBatch, Sealed, TypeOK
  <2>3. CurrentBatchIsOpen'
    BY <2>2
  <2>4. MatchedHasRoot'
    BY <2>2
  <2>5. SealedInSequence'
    BY <2>1, <2>2, LedgerAssumption DEF BatchStatus
  <2>6. QED BY <1>1, <2>3, <2>4, <2>5
<1>5. ASSUME NEW b \in Uint, settleBatch(b) PROVE BatchesInSequence'
  BY <1>1, <1>5, LedgerAssumption DEF settleBatch, Settleable, TypeOK, BatchStatus
<1>6. ASSUME NEW b \in Uint, NEW root \in Root, NEW m \in SUBSET Commitment,
             publishMatchResult(b, root, m)
      PROVE  BatchesInSequence'
  BY <1>1, <1>6, LedgerAssumption DEF publishMatchResult, Publishable, TypeOK, BatchStatus
<1>7. QED
  BY <1>2, <1>3, <1>4, <1>5, <1>6, Circuits DEF submitOrder, cancelOrder, vars, ledger

(* Hence they hold in every reachable state of the contract.               *)
LEMMA BatchesAlways == Spec => []BatchesInSequence
  BY BatchesInit, BatchesStep, PTL DEF Spec

(* The batch the counter names takes orders, no batch is matched or        *)
(* settled without a settlement root, and without openBatch the batches    *)
(* are sealed one after the other.                                         *)
THEOREM InSequence == Spec => []BatchesInSequence
BY BatchesAlways

(* One call of the contract: the batch closeBatch opens has no result yet, *)
(* since without openBatch it lies beyond every published one.             *)
LEMMA FinalStep ==
  ASSUME BatchesInSequence, [Next]_vars, ~skipped', NEW b \in Uint, settlementRoots[b] # None
  PROVE  /\ settlementRoots'[b] = settlementRoots[b]
         /\ batchStatuses[b] = "SETTLED" => batchStatuses'[b] = "SETTLED"
<1> USE DEF BatchesInSequence, SealedInSequence
<1>0. CASE UNCHANGED <<batchStatuses, settlementRoots>>
  BY <1>0
<1>1. ASSUME NEW x \in Uint, openBatch(x) PROVE FALSE
  BY <1>1 DEF openBatch
<1>2. ~skipped
  BY <1>1, Circuits
  DEF closeBatch, settleBatch, submitOrder, cancelOrder, publishMatchResult, vars, ledger
<1>3. batchStatuses[b] \in {"MATCHED", "SETTLED"} /\ b < currentBatchId
  <2>1. batchStatuses[b] \in {"MATCHED", "SETTLED"} /\ b # currentBatchId /\ ~(b > currentBatchId)
    BY <1>2, LedgerAssumption DEF BatchStatus
  <2>2. QED BY <2>1, LedgerAssumption DEF TypeOK
<1>4. ASSUME NEW x \in Uint, closeBatch(x)
      PROVE  settlementRoots'[b] = settlementRoots[b] /\ batchStatuses'[b] = batchStatuses[b]
  <2>1. x = currentBatchId
    BY <1>2, <1>4 DEF closeBatch
  <2>2. b # x /\ b # x + 1
    BY <1>3, <2>1, LedgerAssumption DEF TypeOK
  <2>3. QED BY <1>4, <2>2 DEF closeBatch, Sealed, TypeOK
<1>5. ASSUME NEW x \in Uint, settleBatch(x)
      PROVE  settlementRoots'[b] = settlementRoots[b]
             /\ (batchStatuses[b] = "SETTLED" => batchStatuses'[b] = "SETTLED")
  BY <1>5 DEF settleBatch, TypeOK
<1>6. ASSUME NEW x \in Uint, NEW root \in Root, NEW m \in SUBSET Commitment,
             publishMatchResult(x, root, m)
      PROVE  settlementRoots'[b] = settlementRoots[b] /\ batchStatuses'[b] = batchStatuses[b]
  <2>1. b # x
    BY <1>3, <1>6 DEF publishMatchResult, Publishable
  <2>2. QED BY <1>6, <2>1 DEF publishMatchResult, TypeOK
<1>7. QED
  BY <1>0, <1>1, <1>4, <1>5, <1>6, Circuits DEF submitOrder, cancelOrder, vars, ledger

(* Without openBatch a published root stays and a settled batch is closed  *)
(* for good.                                                               *)
THEOREM FinalResults == Spec => ResultsAreFinal
<1>1. BatchesInSequence /\ [Next]_vars =>
        [~skipped' => \A b \in Uint : settlementRoots[b] # None =>
           /\ settlementRoots'[b] = settlementRoots[b]
           /\ batchStatuses[b] = "SETTLED" => batchStatuses'[b] = "SETTLED"]_vars
  BY FinalStep
<1>2. QED BY <1>1, BatchesAlways, PTL DEF Spec, ResultsAreFinal

---------------------------------------------------------------------------
(* The circuits implement BatchSequence.                                   *)

(* The abstract state, named: what the mapping of UmbraLedger computes.    *)
Past == {b \in Uint : batchStatuses[b] \in {"CLOSED", "MATCHED", "SETTLED"}}
Done == {b \in Uint : batchStatuses[b] = "SETTLED"}

(* While numbers are taken in turn the sealed batches are those below the  *)
(* current one, so closeBatch seals the lowest that is not sealed yet.     *)
LEMMA PastIsBelow ==
  ASSUME BatchesInSequence, ~skipped, NEW b \in Uint
  PROVE  /\ b \in Past <=> (b >= 1 /\ b < currentBatchId)
         /\ settlementRoots[b] # None <=> batchStatuses[b] \in {"MATCHED", "SETTLED"}
<1> USE DEF BatchesInSequence, MatchedHasRoot, SealedInSequence, Past
<1>1. /\ batchStatuses[b] = "OPEN" <=> b = currentBatchId
      /\ batchStatuses[b] = None <=> (b = 0 \/ b > currentBatchId)
  OBVIOUS
<1>2. b \in Past <=> (batchStatuses[b] # "OPEN" /\ batchStatuses[b] # None)
  BY LedgerAssumption DEF TypeOK, BatchStatus
<1>3. b \in Past <=> (b >= 1 /\ b < currentBatchId)
  BY <1>1, <1>2, LedgerAssumption DEF TypeOK
<1>4. QED BY <1>3

(* The constructor's ledger has nothing sealed, published or settled.      *)
LEMMA SequenceInit == Init => Sequence!Init
  BY LedgerAssumption DEF Init, Sequence!Init, BatchStatus

(* Every call maps to sealing, publishing, settling, to the loss of the    *)
(* promise (openBatch), or to no step of the batches at all.               *)
LEMMA SequenceStep ==
  BatchesInSequence /\ BatchesInSequence' /\ [Next]_vars => [Sequence!Next]_(Sequence!vars)
<1> SUFFICES ASSUME BatchesInSequence, BatchesInSequence', [Next]_vars
             PROVE  Sequence!Next \/ UNCHANGED Sequence!vars
  OBVIOUS
<1>1. ASSUME UNCHANGED <<batchStatuses, settlementRoots, skipped>>
      PROVE  UNCHANGED Sequence!vars
  BY <1>1 DEF Sequence!vars
<1>2. ASSUME NEW b \in Uint, openBatch(b) PROVE Sequence!Void
  BY <1>2 DEF openBatch, Sequence!Void
<1>3. CASE skipped /\ skipped'
  BY <1>3 DEF Sequence!vars
<1>4. ASSUME ~skipped, NEW b \in Uint, closeBatch(b) PROVE Sequence!Seal(b) /\ ~skipped
  <2>1. /\ b = currentBatchId /\ b + 1 \in Uint /\ currentBatchId' = b + 1
        /\ UNCHANGED <<settlementRoots, skipped>>
    BY <1>4, LedgerAssumption DEF closeBatch, Fits, BatchesInSequence, SealedInSequence
  <2>2. b >= 1
    BY <1>4, <2>1, LedgerAssumption DEF BatchesInSequence, SealedInSequence, CurrentBatchIsOpen
  <2>3. \A k \in Uint : k \in Past <=> (k >= 1 /\ k < b)
    BY <1>4, <2>1, PastIsBelow
  <2>4. \A k \in Uint : k \in Past' <=> (k >= 1 /\ k < b + 1)
    <3>1. batchStatuses'[b] = "CLOSED" /\ batchStatuses'[b + 1] = "OPEN"
      BY <1>4, <2>1 DEF closeBatch, Sealed, BatchesInSequence, TypeOK
    <3>2. \A k \in Uint : k # b /\ k # b + 1 => batchStatuses'[k] = batchStatuses[k]
      BY <1>4, <2>1 DEF closeBatch, Sealed, BatchesInSequence, TypeOK
    <3>3. \A k \in Uint : k \in Past' <=> (k = b \/ (k # b + 1 /\ k \in Past))
      BY <3>1, <3>2 DEF Past
    <3>4. QED BY <2>1, <2>2, <2>3, <3>3, LedgerAssumption
  <2>5. Past' = Past \cup {b} /\ b \notin Past
    BY <2>1, <2>2, <2>3, <2>4, LedgerAssumption DEF Past
  <2>6. Done' = Done
    <3>1. batchStatuses[b] # "SETTLED" /\ batchStatuses[b + 1] # "SETTLED"
      BY <1>4, <2>1, LedgerAssumption
      DEF closeBatch, BatchesInSequence, SealedInSequence, BatchStatus
    <3>2. QED BY <1>4, <2>1, <3>1 DEF closeBatch, Sealed, BatchesInSequence, TypeOK, Done
  <2>7. \A k \in Uint : k >= 1 /\ k < b => k \in Past
    BY <2>3
  <2>8. QED BY <1>4, <2>1, <2>2, <2>5, <2>6, <2>7 DEF Sequence!Seal, Past, Done
<1>5. ASSUME ~skipped, NEW b \in Uint, settleBatch(b) PROVE Sequence!Settle(b) /\ ~skipped
  <2>1. settlementRoots[b] # None /\ b \notin Done
    BY <1>5 DEF settleBatch, Settleable, BatchesInSequence, MatchedHasRoot, Done
  <2>2. Past' = Past /\ Done' = Done \cup {b}
    BY <1>5 DEF settleBatch, Settleable, BatchesInSequence, TypeOK, Past, Done
  <2>3. UNCHANGED <<settlementRoots, skipped>>
    BY <1>5 DEF settleBatch
  <2>4. QED BY <1>5, <2>1, <2>2, <2>3 DEF Sequence!Settle, Past, Done
<1>6. ASSUME ~skipped, NEW b \in Uint, NEW root \in Root, NEW m \in SUBSET Commitment,
             publishMatchResult(b, root, m)
      PROVE  Sequence!Publish(b, root) /\ ~skipped
  <2>1. b \in Past /\ settlementRoots[b] = None
    BY <1>6, PastIsBelow DEF publishMatchResult, Publishable, Past
  <2>2. Past' = Past /\ Done' = Done
    BY <1>6 DEF publishMatchResult, Publishable, BatchesInSequence, TypeOK, Past, Done
  <2>3. settlementRoots' = [settlementRoots EXCEPT ![b] = root] /\ skipped' = skipped
    BY <1>6 DEF publishMatchResult
  <2>4. QED BY <1>6, <2>1, <2>2, <2>3 DEF Sequence!Publish, Past, Done
<1>7. QED
  BY <1>1, <1>2, <1>3, <1>4, <1>5, <1>6, Circuits
  DEF Sequence!Next, submitOrder, cancelOrder, closeBatch, settleBatch, publishMatchResult,
      vars, ledger

(* The contract keeps the promise BatchSequence states: each batch is      *)
(* sealed in turn, published once and settled once, and nothing is undone. *)
THEOREM Implements == Spec => ImplementsBatchSequence
  BY BatchesAlways, SequenceInit, SequenceStep, PTL
  DEF Spec, ImplementsBatchSequence, Sequence!Spec

---------------------------------------------------------------------------
(* The ledger inside.                                                      *)

LEMMA CallStep == [DeployNext]_deployVars => [Next]_vars
<1> SUFFICES ASSUME [DeployNext]_deployVars PROVE [Next]_vars
  OBVIOUS
<1>1. CASE UNCHANGED deployVars
  BY <1>1 DEF deployVars
<1>2. ASSUME NEW r \in Run, ScriptStep(r) \/ IncludeDeploy(r) \/ Drop(r) \/ Resubmit(r)
      PROVE  UNCHANGED vars
  BY <1>2
  DEF ScriptStep, Start, TargetAtStart, GiveUp, ProveFinal, ProveSynced, ProveFixedTime, ProveCall, Built,
      SubmitFinal, SubmitSynced, SubmitFixedTime, SubmitCall, HandIn, Watch, Timeout,
      UpdateEnv, IncludeDeploy, Drop, Resubmit, Offline
<1>3. ASSUME NEW r \in Run, IncludeOrder(r)
      PROVE  [Next]_vars
  <2>1. OrderOf[r] \in Commitment /\ 1 \in Uint
    BY DeployAssumption, LedgerAssumption DEF Uint
  <2>2. submitOrder(OrderOf[r], 1) \/ UNCHANGED vars
    BY <1>3 DEF IncludeOrder
  <2> QED
    BY <2>1, <2>2 DEF Next
<1>4. CASE Call
  BY <1>4 DEF Call
<1> QED
  BY <1>1, <1>2, <1>3, <1>4 DEF DeployNext

(* The scripts and the chain leave the contract's ledger to its circuits:  *)
(* what is proved of the ledger holds of a contract deployed this way.     *)
THEOREM DeployImplementsLedger == DeploySpec => Spec
<1>1. DeployInit => Init
  BY DEF DeployInit
<1> QED
  BY <1>1, CallStep, PTL DEF DeploySpec, Spec

---------------------------------------------------------------------------
(* The address in .env.                                                    *)

Promised ==
  /\ at \in [Run -> {"off", "building", "sending", "watching", "confirmed", "ended"}]
  /\ \A r \in Run : at[r] \in {"watching", "confirmed"} => r \in submitted
  /\ \A r \in Run : at[r] = "confirmed" => r \in deployed \/ r \in expired

EnvInv == Promised /\ EnvWasBroadcast

LEMMA EnvStep == EnvInv /\ [DeployNext]_deployVars => EnvInv'
<1> SUFFICES ASSUME EnvInv, [DeployNext]_deployVars PROVE EnvInv'
  OBVIOUS
<1> USE DEF EnvInv
<1>1. CASE UNCHANGED <<scripts, history>> /\ deployed \subseteq deployed'
  BY <1>1 DEF scripts, history, Promised, EnvWasBroadcast
<1>2. ASSUME NEW r \in Run, HandIn(r)
      PROVE  EnvInv'
  BY <1>2 DEF HandIn, AfterSubmit, Go, Promised, EnvWasBroadcast
<1>3. ASSUME NEW r \in Run, Start(r) \/ GiveUp(r) \/ Built(r)
      PROVE  EnvInv'
  BY <1>3
  DEF Start, TargetAtStart, GiveUp, Built, AfterProof, Go, Offline, chain, history, Promised, EnvWasBroadcast
<1>4. ASSUME NEW r \in Run, Watch(r) \/ Timeout(r)
      PROVE  EnvInv'
  BY <1>4
  DEF Watch, Timeout, Seen, Go, Offline, chain, history, Promised, EnvWasBroadcast
<1>5. ASSUME NEW r \in Run, UpdateEnv(r)
      PROVE  EnvInv'
  BY <1>5 DEF UpdateEnv, Go, Offline, chain, history, Promised, EnvWasBroadcast
<1>6. ASSUME NEW r \in Run, Resubmit(r)
      PROVE  EnvInv'
  BY <1>6 DEF Resubmit, scripts, Promised, EnvWasBroadcast
<1>7. ASSUME NEW r \in Run, IncludeDeploy(r) \/ IncludeOrder(r) \/ Drop(r)
      PROVE  EnvInv'
  BY <1>1, <1>7 DEF IncludeDeploy, IncludeOrder, Drop
<1> QED
  BY <1>1, <1>2, <1>3, <1>4, <1>5, <1>6, <1>7
  DEF DeployNext, ScriptStep, ProveFinal, ProveSynced, ProveFixedTime, ProveCall,
      SubmitFinal, SubmitSynced, SubmitFixedTime, SubmitCall, Call, chain, deployVars

(* .env names a contract its own run broadcast, on the chain unless that   *)
(* run stopped waiting.                                                    *)
THEOREM EnvNamesBroadcast == DeploySpec => []EnvWasBroadcast
<1>1. DeployInit => EnvInv
  BY DEF DeployInit, EnvInv, Promised, EnvWasBroadcast
<1>2. EnvInv => EnvWasBroadcast
  BY DEF EnvInv
<1> QED
  BY <1>1, <1>2, EnvStep, PTL DEF DeploySpec

---------------------------------------------------------------------------
(* Dry runs and coins.                                                     *)

(* A run on its way to the node is no dry run; every contract on the chain *)
(* has cost a coin.                                                        *)
Spending ==
  /\ DeployTypeOK
  /\ IsFiniteSet(deployed) /\ Cardinality(deployed) < coin
  /\ \A r \in Run : at[r] = "sending" => ~DryRun(r)
  /\ \A r \in Run : at[r] \in {"off", "building", "sending"} => r \notin submitted
  /\ \A r \in Run : DryRun(r) => r \notin submitted
  /\ deployed \subseteq submitted \cup resent

LEMMA SpendingInit == DeployInit => Spending
<1> SUFFICES ASSUME DeployInit PROVE Spending
  OBVIOUS
<1>1. IsFiniteSet(deployed) /\ Cardinality(deployed) = 0
  BY FS_EmptySet DEF DeployInit
<1> QED
  BY <1>1 DEF DeployInit, Spending, DeployTypeOK, DryRun

LEMMA SpendingStep == Spending /\ [DeployNext]_deployVars => Spending'
<1> SUFFICES ASSUME Spending, [DeployNext]_deployVars PROVE Spending'
  OBVIOUS
<1> USE DEF Spending
<1>1. CASE UNCHANGED <<scripts, chain, history>>
  BY <1>1 DEF scripts, chain, history, DeployTypeOK, DryRun
<1>2. ASSUME NEW r \in Run, Start(r)
      PROVE  Spending'
  BY <1>2 DEF Start, TargetAtStart, Go, Offline, chain, history, DeployTypeOK, DryRun, Deploys
<1>3. ASSUME NEW r \in Run, GiveUp(r)
      PROVE  Spending'
  BY <1>3 DEF GiveUp, Go, Offline, chain, history, DeployTypeOK, DryRun
<1>4. ASSUME NEW r \in Run, Built(r), saved' \in Run \cup {None}
      PROVE  Spending'
  <2>1. AfterProof(r) = "sending" => ~DryRun(r)
    BY DEF AfterProof, Broadcasts, DryRun
  <2> QED
    BY <1>4, <2>1
    DEF Built, AfterProof, Go, Offline, chain, history, DeployTypeOK, DryRun
<1>5. ASSUME NEW r \in Run, HandIn(r)
      PROVE  Spending'
  BY <1>5 DEF HandIn, Taken, AfterSubmit, Go, DeployTypeOK, DryRun
<1>6. ASSUME NEW r \in Run, Watch(r) \/ Timeout(r) \/ UpdateEnv(r)
      PROVE  Spending'
  BY <1>6 DEF Watch, Timeout, UpdateEnv, Go, Offline, chain, history, DeployTypeOK, DryRun
<1>7. ASSUME NEW r \in Run, Resubmit(r)
      PROVE  Spending'
  BY <1>7 DEF Resubmit, Taken, scripts, DeployTypeOK, DryRun
<1>8. ASSUME NEW r \in Run, Pays(r), UNCHANGED <<scripts, history>>,
             deployed' \in {deployed, deployed \cup {r}}
      PROVE  Spending'
  <2>1. coin \in 1 .. 3 /\ coin' = coin + 1
    BY <1>8 DEF Pays, CoinOf, FundingCoin, SyncedCoin, FixedTimeCoin, LifecycleCoin
  <2>2. IsFiniteSet(deployed') /\ Cardinality(deployed') \in Nat
        /\ Cardinality(deployed') <= Cardinality(deployed) + 1
    <3>1. Cardinality(deployed) \in Nat
      BY FS_CardinalityType
    <3>2. /\ IsFiniteSet(deployed \cup {r})
          /\ Cardinality(deployed \cup {r}) = Cardinality(deployed)
               \/ Cardinality(deployed \cup {r}) = Cardinality(deployed) + 1
      BY FS_AddElement
    <3> QED
      BY <1>8, <3>1, <3>2
  <2>3. Cardinality(deployed') < coin'
    BY <2>1, <2>2, FS_CardinalityType
  <2>4. pool' \subseteq pool /\ r \in submitted \cup resent
    BY <1>8 DEF Pays, DeployTypeOK
  <2> QED
    BY <1>8, <2>1, <2>2, <2>3, <2>4 DEF scripts, history, DeployTypeOK, DryRun
<1>9. ASSUME NEW r \in Run, Drop(r)
      PROVE  Spending'
  BY <1>9 DEF Drop, scripts, history, DeployTypeOK, DryRun
<1>10. ASSUME NEW r \in Run, ProveFinal(r) \/ ProveSynced(r) \/ ProveFixedTime(r) \/ ProveCall(r)
       PROVE  Built(r) /\ saved' \in Run \cup {None}
  BY <1>10 DEF ProveFinal, ProveSynced, ProveFixedTime, ProveCall, DeployTypeOK
<1>11. ASSUME NEW r \in Run, IncludeDeploy(r) \/ IncludeOrder(r)
       PROVE  Spending'
  BY <1>8, <1>11 DEF IncludeDeploy, IncludeOrder
<1> QED
  BY <1>1, <1>2, <1>3, <1>4, <1>5, <1>6, <1>7, <1>9, <1>10, <1>11
  DEF DeployNext, ScriptStep, SubmitFinal, SubmitSynced, SubmitFixedTime, SubmitCall, Call,
      deployVars

(* No coin pays twice, and a dry run reaches the chain only through the    *)
(* proof it saved.                                                         *)
THEOREM DryRunsDry == DeploySpec => []DryRunsStayDry
<1>1. Spending => DryRunsStayDry
  BY DEF Spending, DryRunsStayDry
<1> QED
  BY <1>1, SpendingInit, SpendingStep, PTL DEF DeploySpec

---------------------------------------------------------------------------
(* A form that changes step keeps everything else.                         *)

Steps == Busy \cup {"idle", "confirmed"}
Forms == [step : Steps, order : Order \cup {Absent}, batch : Batch,
          api : Api \cup {Absent}, tries : Nat]

SameBut(t, s) ==
  /\ form' \in [Tab -> Forms]
  /\ \A u \in Tab : form'[u].step = IF u = t THEN s ELSE form[u].step
  /\ \A u \in Tab : form'[u].order = form[u].order /\ form'[u].batch = form[u].batch

LEMMA StepForm ==
  ASSUME NEW t \in Tab, NEW s \in Steps, form \in [Tab -> Forms], form' = To(t, s)
  PROVE  SameBut(t, s)
<1>1. ASSUME NEW u \in Tab
      PROVE  form'[u] \in Forms /\ form'[u].step = (IF u = t THEN s ELSE form[u].step)
             /\ form'[u].order = form[u].order /\ form'[u].batch = form[u].batch
  <2>1. form[u] \in Forms
    OBVIOUS
  <2>2. form'[u] = IF u = t THEN [form[u] EXCEPT !.step = s] ELSE form[u]
    BY DEF To
  <2> QED
    BY <2>1, <2>2 DEF Forms
<1>2. form' = [u \in Tab |-> form'[u]]
  BY DEF To
<1> QED
  BY <1>1, <1>2 DEF SameBut

---------------------------------------------------------------------------
(* The stored balance.                                                     *)

(* Deductions are counted, a balance is never negative, and a busy form    *)
(* has an order.                                                           *)
Sums ==
  /\ stored \in Nat /\ deducted \in Nat /\ reading \in Nat \cup {Absent}
  /\ demo \in [Tab -> Nat]
HasOrder == \A t \in Tab : form[t].step \in Busy => form[t].order \in Order

(* Taking a deduction off a balance already cut at zero gives what taking  *)
(* all deductions off the reading gives.                                   *)
LEMMA CutOnce ==
  ASSUME NEW x \in Int, NEW c \in Nat
  PROVE  Positive(Positive(x) - c) = Positive(x - c)
<1>1. CASE x > 0
  BY <1>1 DEF Positive
<1>2. CASE ~(x > 0)
  BY <1>2 DEF Positive
<1> QED
  BY <1>1, <1>2

LEMMA PositiveNat == \A x \in Int : Positive(x) \in Nat
BY DEF Positive

(* What a step does to the sums: nothing, a reading, or a deduction.       *)
KeepSums == UNCHANGED <<stored, deducted, reading, paid>>
Take(o) == RecordOrderDeduction(o) /\ UNCHANGED reading
Restart == deducted' = 0 /\ stored' = Faucet /\ reading' = Absent /\ paid' = {}
Reported == Raw \cup {demo[t] : t \in Tab}
Read == (\E raw \in Reported : ApplyNetLiveBalance(raw)) /\ UNCHANGED <<deducted, paid>>

(* A demo wallet is made with the stored balance.                          *)
KeepDemo == demo' = demo \/ \E t \in Tab : demo' = [demo EXCEPT ![t] = stored]

LEMMA SumsStep ==
  ASSUME Sums, NetOfOrders, KeepDemo,
         KeepSums \/ Read \/ Restart \/ (\E o \in Order : Take(o))
  PROVE  Sums' /\ NetOfOrders'
<1> USE AppAssumption
<1>0. demo' \in [Tab -> Nat]
  BY DEF KeepDemo, Sums
<1>1. CASE KeepSums
  BY <1>0, <1>1 DEF KeepSums, Sums, NetOfOrders
<1>2. CASE Read
  <2>0. Reported \subseteq Nat
    BY DEF Reported, Sums
  <2>1. PICK raw \in Nat : stored' = Positive(raw - deducted) /\ reading' = raw
    BY <1>2, <2>0 DEF Read, ApplyNetLiveBalance, Net
  <2>2. deducted' = deducted
    BY <1>2 DEF Read
  <2>3. raw - deducted \in Int
    BY DEF Sums
  <2> QED
    BY <1>0, <2>1, <2>2, <2>3, PositiveNat DEF Sums, NetOfOrders
<1>3. CASE Restart
  BY <1>0, <1>3 DEF Restart, Sums, NetOfOrders
<1>4. CASE \E o \in Order : Take(o)
  <2>1. PICK o \in Order : Take(o)
    BY <1>4
  <2>2. Cost[o] \in Nat
    OBVIOUS
  <2>3. deducted' = deducted + Cost[o] /\ stored' = Positive(stored - Cost[o])
        /\ reading' = reading
    BY <2>1 DEF Take, RecordOrderDeduction, Deducted
  <2>4. Sums'
    <3>1. stored - Cost[o] \in Int
      BY <2>2 DEF Sums
    <3> QED
      BY <1>0, <2>2, <2>3, <3>1, PositiveNat DEF Sums
  <2>5. ASSUME reading # Absent
        PROVE  stored' = Positive(reading - deducted')
    <3>1. reading \in Nat /\ stored = Positive(reading - deducted)
      BY <2>5 DEF Sums, NetOfOrders
    <3>2. reading - deducted \in Int /\ deducted \in Nat
      BY <3>1 DEF Sums
    <3>3. stored' = Positive((reading - deducted) - Cost[o])
      BY <2>2, <2>3, <3>1, <3>2, CutOnce
    <3>4. (reading - deducted) - Cost[o] = reading - deducted'
      BY <2>2, <2>3, <3>1, <3>2
    <3> QED
      BY <3>3, <3>4
  <2> QED
    BY <2>3, <2>4, <2>5 DEF NetOfOrders
<1> QED
  BY <1>1, <1>2, <1>3, <1>4

---------------------------------------------------------------------------
(* Every action of a tab is one of six moves of its order, or leaves the   *)
(* forms and the fates of orders alone.                                    *)

Early == {"connecting", "addressing", "signing"}
Unpaid == Early \cup {"sending", "unsigned"}
Others(t) == \A u \in Tab \ {t} : form'[u] = form[u]

Enter(t, o) ==
  /\ Free(t) /\ fate[o] = "new"
  /\ form' \in [Tab -> Forms] /\ Others(t)
  /\ form'[t].step \in Early /\ form'[t].order = o /\ form'[t].batch = batch[t]
  /\ fate' = [fate EXCEPT ![o] = "open"] /\ home' = [home EXCEPT ![o] = batch[t]]
  /\ UNCHANGED <<handed, paid, orders>>

Walk(t, s) ==
  /\ form[t].step \in Busy /\ s \in Busy /\ SameBut(t, s)
  /\ s \in Early => form[t].step \in Early
  /\ s \in Unpaid => form[t].step \in Unpaid
  /\ UNCHANGED <<fate, home, handed, paid, orders>>

End(t, why) ==
  /\ form[t].step \in Busy \cap Unpaid /\ SameBut(t, "idle")
  /\ fate' = [fate EXCEPT ![form[t].order] = why]
  /\ \/ why = "declined" /\ form[t].step \in Early /\ handed' = handed
     \/ why = "failed" /\ handed' \subseteq handed \cup {form[t].order}
  /\ UNCHANGED <<home, paid, orders>>

Pay(t) ==
  /\ form[t].step \in Busy /\ SameBut(t, "proving")
  /\ fate' = [fate EXCEPT ![form[t].order] = "charged"]
  /\ paid' = paid \cup {form[t].order}
  /\ handed' \subseteq handed \cup {form[t].order}
  /\ UNCHANGED <<home, orders>>

Register(t) ==
  /\ form[t].step \in Busy /\ SameBut(t, "confirmed")
  /\ fate' = [fate EXCEPT ![form[t].order] = "confirmed"]
  /\ orders' = [orders EXCEPT ![form[t].batch] = orders[form[t].batch] \cup {form[t].order}]
  /\ UNCHANGED <<home, handed, paid>>

Forget(t) ==
  /\ form' \in [Tab -> Forms] /\ Others(t)
  /\ form'[t].step = "idle" /\ form'[t].order = Absent
  /\ fate' = [o \in Order |->
       IF form[t].order = o /\ fate[o] \in {"open", "charged"} THEN "lost" ELSE fate[o]]
  /\ UNCHANGED <<home, handed, paid, orders>>

Quiet == (paid' = paid \/ paid' = {}) /\ UNCHANGED <<form, fate, home, handed, orders>>

Move ==
  \/ Quiet
  \/ \E t \in Tab :
       \/ \E o \in Order : Enter(t, o)
       \/ \E s \in Steps : Walk(t, s)
       \/ \E why \in {"declined", "failed"} : End(t, why)
       \/ Pay(t) \/ Register(t) \/ Forget(t)

(* A form that goes on signing keeps its order.                            *)
LEMMA SigningForm ==
  ASSUME NEW t \in Tab, form \in [Tab -> Forms], NEW n \in Nat,
         form' = [form EXCEPT ![t] = Signing(t, "real", n)]
  PROVE  SameBut(t, "signing")
<1>1. ASSUME NEW u \in Tab
      PROVE  form'[u] \in Forms /\ form'[u].step = (IF u = t THEN "signing" ELSE form[u].step)
             /\ form'[u].order = form[u].order /\ form'[u].batch = form[u].batch
  BY DEF Forms, Signing, Steps, Busy, Api
<1>2. form' = [u \in Tab |-> form'[u]]
  OBVIOUS
<1> QED
  BY <1>1, <1>2 DEF SameBut

(* The types the moves rest on.                                            *)
Pages ==
  /\ form \in [Tab -> Forms] /\ HasOrder /\ orders \in [Batch -> SUBSET Order]
  /\ api \in [Tab -> Api \cup {Absent}]
  /\ batch \in [Tab -> Batch] /\ batchId \in Batch
  /\ sealing \in [Tab -> (1 .. LastBatch) \cup {Absent}]

LEMMA FormMoves ==
  ASSUME Pages, NEW t \in Tab, FormStep(t)
  PROVE  Move
<1> USE DEF Move, Pages
<1>1. ASSUME NEW o \in Order, HandleSubmit(t, o) PROVE Enter(t, o)
  <2> DEFINE first == IF api[t] # "real" /\ installed THEN "connecting" ELSE "signing"
             f == [step |-> first, order |-> o, batch |-> batch[t], api |-> api[t], tries |-> 0]
  <2>1. f \in Forms /\ f.step \in Early /\ f.order = o /\ f.batch = batch[t]
    BY DEF Early, Forms, Steps, Busy
  <2>2. form' = [form EXCEPT ![t] = f]
    BY <1>1 DEF HandleSubmit
  <2> HIDE DEF f
  <2>3. form' \in [Tab -> Forms] /\ Others(t) /\ form'[t] = f
    BY <2>1, <2>2 DEF Others
  <2> QED
    BY <1>1, <2>1, <2>3 DEF HandleSubmit, Enter, storage
<1>2. CASE SignConnects(t)
  <2>1. CASE form' = To(t, "addressing")
    <3>1. SameBut(t, "addressing")
      BY <2>1, StepForm DEF Steps, Busy
    <3>2. Walk(t, "addressing")
      BY <1>2, <3>1 DEF SignConnects, Walk, Busy, Early, Unpaid, appHistory, storage
    <3> QED
      BY <3>2 DEF Steps, Busy
  <2>2. CASE form' = To(t, "signing")
    <3>1. SameBut(t, "signing")
      BY <2>2, StepForm DEF Steps, Busy
    <3>2. Walk(t, "signing")
      BY <1>2, <3>1 DEF SignConnects, Walk, Busy, Early, Unpaid, appHistory, storage
    <3> QED
      BY <3>2 DEF Steps, Busy
  <2> QED
    BY <1>2, <2>1, <2>2 DEF SignConnects
<1>3. CASE SignConnected(t)
  <2>1. SameBut(t, "signing")
    BY <1>3, SigningForm DEF SignConnected
  <2>2. Walk(t, "signing")
    BY <1>3, <2>1 DEF SignConnected, Walk, Busy, Early, Unpaid
  <2> QED
    BY <2>2 DEF Steps, Busy
<1>4. CASE NoApi(t)
  <2>1. SameBut(t, "idle")
    BY <1>4, StepForm DEF NoApi, Fail, Steps
  <2>2. End(t, "failed")
    BY <1>4, <2>1 DEF NoApi, Fail, End, Busy, Early, Unpaid
  <2> QED
    BY <2>2
<1>5. CASE SignDemo(t)
  <2>1. SameBut(t, "proving")
    BY <1>5, StepForm DEF SignDemo, Charge, Steps, Busy
  <2>2. Pay(t)
    BY <1>5, <2>1 DEF SignDemo, Charge, RecordOrderDeduction, Pay, Busy
  <2> QED
    BY <2>2
<1>6. CASE Sign(t)
  <2>1. CASE form' = To(t, "sending") /\ fate' = fate
    <3>1. SameBut(t, "sending")
      BY <2>1, StepForm DEF Steps, Busy
    <3>2. Walk(t, "sending")
      BY <1>6, <2>1, <3>1 DEF Sign, Walk, Busy, Early, Unpaid, storage
    <3> QED
      BY <3>2 DEF Steps, Busy
  <2>2. CASE form' = AfterDecline(t) /\ fate' = [fate EXCEPT ![form[t].order] = "declined"]
    <3>1. SameBut(t, "idle")
      BY <2>2, StepForm DEF AfterDecline, Steps
    <3>2. End(t, "declined")
      BY <1>6, <2>2, <3>1 DEF Sign, End, Busy, Early, Unpaid, storage
    <3> QED
      BY <3>2
  <2>3. CASE form' = [form EXCEPT ![t] = Signing(t, "real", form[t].tries + 1)]
             /\ fate' = fate
    <3>1. form[t].tries + 1 \in Nat
      BY DEF Forms
    <3>2. SameBut(t, "signing")
      BY <2>3, <3>1, SigningForm
    <3>3. Walk(t, "signing")
      BY <1>6, <2>3, <3>2 DEF Sign, Walk, Busy, Early, Unpaid, storage
    <3> QED
      BY <3>3 DEF Steps, Busy
  <2>4. CASE form' = To(t, "unsigned") /\ fate' = fate
    <3>1. SameBut(t, "unsigned")
      BY <2>4, StepForm DEF Steps, Busy
    <3>2. Walk(t, "unsigned")
      BY <1>6, <2>4, <3>1 DEF Sign, Walk, Busy, Early, Unpaid, storage
    <3> QED
      BY <3>2 DEF Steps, Busy
  <2> QED
    BY <1>6, <2>1, <2>2, <2>3, <2>4 DEF Sign
<1>7. CASE Send(t)
  <2>1. handed' \subseteq handed \cup {form[t].order} /\ form[t].step \in Busy
    BY <1>7 DEF Send, Busy
  <2>2. CASE Fail(t, "failed")
    <3>1. SameBut(t, "idle")
      BY <2>2, StepForm DEF Fail, Steps
    <3>2. End(t, "failed")
      BY <1>7, <2>1, <2>2, <3>1 DEF Send, Fail, End, Charge, Unpaid, To
    <3> QED
      BY <3>2
  <2>3. CASE Charge(t)
    <3>1. SameBut(t, "proving")
      BY <2>3, StepForm DEF Charge, Steps, Busy
    <3>2. Pay(t)
      BY <1>7, <2>1, <2>3, <3>1 DEF Send, Charge, RecordOrderDeduction, Pay
    <3> QED
      BY <3>2
  <2> QED
    BY <1>7, <2>2, <2>3 DEF Send
<1>8. CASE Prove(t)
  <2>1. SameBut(t, "submitting")
    BY <1>8, StepForm DEF Prove, Steps, Busy
  <2>2. Walk(t, "submitting")
    BY <1>8, <2>1 DEF Prove, Walk, Busy, Early, Unpaid, appHistory, storage
  <2> QED
    BY <2>2 DEF Steps, Busy
<1>9. CASE Confirm(t)
  <2>1. SameBut(t, "confirmed")
    BY <1>9, StepForm DEF Confirm, Steps
  <2>2. Register(t)
    BY <1>9, <2>1 DEF Confirm, Register, Busy, Listed
  <2> QED
    BY <2>2
<1> QED
  BY <1>1, <1>2, <1>3, <1>4, <1>5, <1>6, <1>7, <1>8, <1>9 DEF FormStep

LEMMA Moves ==
  ASSUME Pages, [AppNext]_appVars
  PROVE  Move
<1>1. CASE UNCHANGED appVars
  BY <1>1 DEF appVars, storage, appHistory, Move, Quiet
<1>2. CASE Inject
  BY <1>2 DEF Inject, storage, appHistory, Move, Quiet
<1>3. ASSUME NEW t \in Tab, WalletStep(t)
      PROVE  Move
  <2>1. CASE Mount(t)
    <3>1. Idle \in Forms /\ Idle.step = "idle" /\ Idle.order = Absent
      BY AppAssumption DEF Idle, Forms, Steps, Batch
    <3>2. form' = [form EXCEPT ![t] = Idle]
      BY <2>1 DEF Mount
    <3>3. /\ form' \in [Tab -> Forms] /\ Others(t)
          /\ form'[t].step = "idle" /\ form'[t].order = Absent
      BY <3>1, <3>2 DEF Pages, Others
    <3> QED
      BY <2>1, <3>3 DEF Mount, Forget, Move, storage
  <2>2. CASE ~Mount(t)
    BY <1>3, <2>2
    DEF WalletStep, ConnectWallet, Granted, Refused, Connected, ConnectSimulatedLace,
        DisconnectLace, StartPoll, EndPoll, Sync, SyncDemo, Refill, storage, appHistory, Move, Quiet
  <2> QED
    BY <2>1, <2>2
<1>4. ASSUME NEW t \in Tab, PressClose(t) \/ HandleCloseBatch(t)
      PROVE  Move
  BY <1>4 DEF PressClose, HandleCloseBatch, storage, appHistory, Move, Quiet
<1> QED
  BY <1>1, <1>2, <1>3, <1>4, FormMoves DEF AppNext

LEMMA PagesInit == AppInit => Pages
<1>1. Idle \in Forms /\ Idle.step \notin Busy
  BY AppAssumption DEF Idle, Forms, Steps, Batch, Busy
<1> QED
  BY <1>1, AppAssumption DEF AppInit, TabInit, Pages, Batch, HasOrder

(* The forms stay forms by the moves; the tabs' wallets and batches by     *)
(* each action.                                                            *)
LEMMA PagesStep == Pages /\ [AppNext]_appVars => Pages'
<1> SUFFICES ASSUME Pages, [AppNext]_appVars PROVE Pages'
  OBVIOUS
<1>1. Move
  BY Moves
<1>2. form' \in [Tab -> Forms]
  BY <1>1 DEF Move, Quiet, Enter, Walk, End, Pay, Register, Forget, SameBut, Pages
<1>3. orders' \in [Batch -> SUBSET Order]
  <2>1. CASE \E t \in Tab : Register(t)
    <3>1. PICK t \in Tab : Register(t)
      BY <2>1
    <3>2. form[t].order \in Order /\ form[t].batch \in Batch
      BY <3>1 DEF Register, Pages, HasOrder, Forms
    <3>3. orders[form[t].batch] \cup {form[t].order} \in SUBSET Order
      BY <3>2 DEF Pages
    <3>4. orders' = [orders EXCEPT ![form[t].batch]
                      = orders[form[t].batch] \cup {form[t].order}]
      BY <3>1 DEF Register
    <3> QED
      BY <3>2, <3>3, <3>4 DEF Pages
  <2> QED
    BY <1>1, <2>1 DEF Move, Quiet, Enter, Walk, End, Pay, Forget, Pages
<1>4. HasOrder'
  <2>1. ASSUME NEW t \in Tab, SameBut(t, "idle") \/ SameBut(t, "confirmed")
        PROVE  HasOrder'
    BY <2>1 DEF SameBut, HasOrder, Pages, Busy
  <2>2. ASSUME NEW t \in Tab, NEW s \in Steps, form[t].step \in Busy, SameBut(t, s)
        PROVE  HasOrder'
    BY <2>2 DEF SameBut, HasOrder, Pages
  <2>3. ASSUME NEW t \in Tab, Others(t), form'[t].step \in Busy => form'[t].order \in Order
        PROVE  HasOrder'
    BY <2>3 DEF Others, HasOrder, Pages
  <2>4. CASE Quiet
    BY <2>4 DEF Quiet, HasOrder, Pages
  <2>5. ASSUME NEW t \in Tab, NEW o \in Order, Enter(t, o)
        PROVE  HasOrder'
    BY <2>3, <2>5 DEF Enter
  <2>6. ASSUME NEW t \in Tab, NEW s \in Steps, Walk(t, s)
        PROVE  HasOrder'
    BY <2>2, <2>6 DEF Walk
  <2>7. ASSUME NEW t \in Tab, Pay(t)
        PROVE  HasOrder'
    BY <2>2, <2>7 DEF Pay, Steps, Busy
  <2>8. ASSUME NEW t \in Tab, Forget(t)
        PROVE  HasOrder'
    BY <2>3, <2>8 DEF Forget, Busy
  <2>9. ASSUME NEW t \in Tab, Register(t) \/ \E why \in {"declined", "failed"} : End(t, why)
        PROVE  HasOrder'
    BY <2>1, <2>9 DEF Register, End
  <2> QED
    BY <1>1, <2>4, <2>5, <2>6, <2>7, <2>8, <2>9 DEF Move
<1>5. /\ api' \in [Tab -> Api \cup {Absent}]
      /\ batch' \in [Tab -> Batch] /\ batchId' \in Batch
      /\ sealing' \in [Tab -> (1 .. LastBatch) \cup {Absent}]
  <2>1. CASE UNCHANGED appVars
    BY <2>1 DEF appVars, storage, Pages
  <2>2. CASE Inject
    BY <2>2 DEF Inject, storage, Pages
  <2>3. ASSUME NEW t \in Tab, FormStep(t)
        PROVE  UNCHANGED <<batch, batchId, sealing>> /\ api' \in [Tab -> Api \cup {Absent}]
    BY <2>3
    DEF FormStep, HandleSubmit, SignConnects, SignConnected, NoApi, SignDemo, Sign, Send,
        Prove, Confirm, storage, Pages, Api
  <2>4. ASSUME NEW t \in Tab, WalletStep(t)
        PROVE  /\ UNCHANGED batchId /\ batch' \in [Tab -> Batch]
               /\ api' \in [Tab -> Api \cup {Absent}]
               /\ sealing' \in [Tab -> (1 .. LastBatch) \cup {Absent}]
    BY <2>4
    DEF WalletStep, ConnectWallet, Granted, Refused, Connected, ConnectSimulatedLace,
        DisconnectLace, Mount, StartPoll, EndPoll, Sync, SyncDemo, Refill, storage, Pages, Api
  <2>5. ASSUME NEW t \in Tab, PressClose(t)
        PROVE  /\ UNCHANGED <<api, batch, batchId>>
               /\ sealing' \in [Tab -> (1 .. LastBatch) \cup {Absent}]
    <3>1. batch[t] \in 1 .. LastBatch
      BY <2>5, AppAssumption DEF PressClose, Pages, Batch
    <3> QED
      BY <2>5, <3>1 DEF PressClose, storage, Pages
  <2>6. ASSUME NEW t \in Tab, HandleCloseBatch(t)
        PROVE  /\ UNCHANGED api
               /\ batch' \in [Tab -> Batch] /\ batchId' \in Batch
               /\ sealing' \in [Tab -> (1 .. LastBatch) \cup {Absent}]
    <3>1. sealing[t] + 1 \in Batch
      BY <2>6, AppAssumption DEF HandleCloseBatch, Pages, Batch
    <3> QED
      BY <2>6, <3>1 DEF HandleCloseBatch, Pages
  <2> QED
    BY <2>1, <2>2, <2>3, <2>4, <2>5, <2>6 DEF AppNext, Pages
<1> QED
  BY <1>2, <1>3, <1>4, <1>5 DEF Pages

---------------------------------------------------------------------------
(* The balance.                                                            *)

LEMMA DemoMoves ==
  ASSUME [AppNext]_appVars
  PROVE  KeepDemo
<1> USE DEF KeepDemo
<1>1. CASE UNCHANGED appVars \/ Inject
  BY <1>1 DEF appVars, Inject
<1>2. ASSUME NEW t \in Tab, FormStep(t)
      PROVE  KeepDemo
  BY <1>2 DEF FormStep, HandleSubmit, SignConnects, SignConnected, NoApi, SignDemo, Sign,
              Send, Prove, Confirm, Charge, Fail
<1>3. ASSUME NEW t \in Tab, WalletStep(t)
      PROVE  KeepDemo
  BY <1>3 DEF WalletStep, ConnectWallet, Granted, Refused, Connected, ConnectSimulatedLace,
              DisconnectLace, Mount, StartPoll, EndPoll, Sync, SyncDemo, Refill
<1>4. ASSUME NEW t \in Tab, PressClose(t) \/ HandleCloseBatch(t)
      PROVE  KeepDemo
  BY <1>4 DEF PressClose, HandleCloseBatch
<1> QED
  BY <1>1, <1>2, <1>3, <1>4 DEF AppNext

LEMMA SumMoves ==
  ASSUME Pages, [AppNext]_appVars
  PROVE  \/ KeepSums \/ Read \/ Restart
         \/ \E t \in Tab : form[t].step \in Unpaid /\ Take(form[t].order)
<1>1. CASE UNCHANGED appVars \/ Inject
  BY <1>1 DEF appVars, storage, appHistory, Inject, KeepSums
<1>2. ASSUME NEW t \in Tab, FormStep(t)
      PROVE  KeepSums \/ Read \/ (form[t].step \in Unpaid /\ Take(form[t].order))
  <2>1. CASE Charge(t) /\ form[t].step \in Unpaid
    BY <2>1 DEF Charge, Take
  <2>2. CASE SignDemo(t) \/ Send(t)
    BY <2>1, <2>2 DEF SignDemo, Send, Fail, KeepSums, Early, Unpaid
  <2>3. CASE SignConnected(t)
    BY <2>3 DEF SignConnected, ReadBalance, Reported, Read, KeepSums
  <2> QED
    BY <1>2, <2>2, <2>3
    DEF FormStep, HandleSubmit, SignConnects, NoApi, Fail, Sign, Prove, Confirm,
        storage, appHistory, KeepSums
<1>3. ASSUME NEW t \in Tab, WalletStep(t)
      PROVE  KeepSums \/ Read \/ Restart
  <2>1. CASE Connected(t) \/ EndPoll(t)
    BY <2>1 DEF Connected, EndPoll, ReadBalance, Reported, Read, KeepSums
  <2>2. CASE Refill(t)
    BY <2>2 DEF Refill, Restart
  <2>3. CASE SyncDemo(t)
    BY <2>3 DEF SyncDemo, Reported, Read
  <2> QED
    BY <1>3, <2>1, <2>2, <2>3
    DEF WalletStep, ConnectWallet, Granted, Refused, ConnectSimulatedLace, DisconnectLace,
        Mount, StartPoll, Sync, storage, appHistory, KeepSums
<1>4. ASSUME NEW t \in Tab, PressClose(t) \/ HandleCloseBatch(t)
      PROVE  KeepSums
  BY <1>4 DEF PressClose, HandleCloseBatch, storage, appHistory, KeepSums
<1> QED
  BY <1>1, <1>2, <1>3, <1>4 DEF AppNext

(* In any number of tabs and however their steps interleave, the stored    *)
(* balance is the last reading less all deductions.                        *)
THEOREM NetBalance == AppSpec => []NetOfOrders
<1>1. AppInit => Sums /\ NetOfOrders
  BY AppAssumption DEF AppInit, TabInit, Sums, NetOfOrders
<1>2. (Pages /\ Sums /\ NetOfOrders) /\ [AppNext]_appVars => (Pages /\ Sums /\ NetOfOrders)'
  <2> SUFFICES ASSUME Pages, Sums, NetOfOrders, [AppNext]_appVars
               PROVE  (Pages /\ Sums /\ NetOfOrders)'
    OBVIOUS
  <2>1. \A t \in Tab : form[t].step \in Unpaid => form[t].order \in Order
    BY DEF Pages, HasOrder, Unpaid, Early, Busy
  <2> QED
    BY <2>1, PagesStep, DemoMoves, SumMoves, SumsStep
<1> QED
  BY <1>1, <1>2, PagesInit, PTL DEF AppSpec

---------------------------------------------------------------------------
(* The fate of orders.                                                     *)

Fate == {"new", "open", "charged", "declined", "failed", "confirmed", "lost"}

(* A busy form is the only one of its order, works on the batch it was     *)
(* filled in for, and has neither charged nor handed over an order it is   *)
(* still getting signed.                                                   *)
Under ==
  \A t \in Tab : form[t].step \in Busy =>
    /\ fate[form[t].order] \in {"open", "charged"}
    /\ form[t].batch = home[form[t].order]
    /\ form[t].step \in Early => form[t].order \notin handed \cup paid

Alone ==
  \A t, u \in Tab :
    form[t].step \in Busy /\ form[t].order = form[u].order => t = u

(* An order not entered yet, or declined, was neither charged nor handed   *)
(* over; one not entered is in no form.                                    *)
FreshTabs ==
  \A o \in Order :
    /\ fate[o] \in {"new", "declined"} => o \notin handed \cup paid
    /\ fate[o] = "new" => \A t \in Tab : form[t].order # o

(* Only the orders confirmed are listed, each under its batch.             *)
Lists ==
  \A o \in Order :
    /\ fate[o] = "confirmed" => home[o] \in Batch
    /\ \A b \in Batch : o \in orders[b] <=> (fate[o] = "confirmed" /\ b = home[o])

Fates ==
  /\ fate \in [Order -> Fate] /\ home \in [Order -> Batch \cup {Absent}]
  /\ Under /\ Alone /\ FreshTabs /\ Lists

LEMMA FatesInit == AppInit => Fates
<1> SUFFICES ASSUME AppInit PROVE Fates
  OBVIOUS
<1>1. \A t \in Tab : form[t].step \notin Busy /\ form[t].order = Absent
  BY DEF AppInit, TabInit, Idle, Busy
<1>2. Under /\ Alone
  BY <1>1 DEF Under, Alone
<1>3. FreshTabs /\ Lists
  BY <1>1, AppAssumption DEF AppInit, TabInit, FreshTabs, Lists
<1>4. fate \in [Order -> Fate] /\ home \in [Order -> Batch \cup {Absent}]
  BY DEF AppInit, Fate
<1> QED
  BY <1>2, <1>3, <1>4 DEF Fates

LEMMA FatesStep ==
  ASSUME Pages, Fates, Move
  PROVE  Fates'
<1> USE DEF Fates
<1>1. CASE Quiet
  BY <1>1 DEF Quiet, Under, Alone, FreshTabs, Lists
<1>2. ASSUME NEW t \in Tab, NEW o \in Order, Enter(t, o)
      PROVE  Fates'
  <2>1. /\ fate' = [fate EXCEPT ![o] = "open"] /\ home' = [home EXCEPT ![o] = batch[t]]
        /\ UNCHANGED <<handed, paid, orders>> /\ fate[o] = "new"
        /\ Others(t) /\ form'[t].order = o /\ form'[t].batch = batch[t]
        /\ batch[t] \in Batch
    BY <1>2 DEF Enter, Pages
  <2>2. \A u \in Tab : form[u].order # o /\ (form[u].step \in Busy => form[u].order \in Order)
    BY <2>1 DEF FreshTabs, Pages, HasOrder
  <2>3. fate' \in [Order -> Fate] /\ home' \in [Order -> Batch \cup {Absent}]
    BY <2>1 DEF Fate
  <2>4. Under'
    BY <2>1, <2>2 DEF Under, Others, FreshTabs
  <2>5. Alone'
    BY <2>1, <2>2 DEF Alone, Others
  <2>6. FreshTabs'
    BY <2>1 DEF FreshTabs, Others
  <2>7. Lists'
    BY <2>1 DEF Lists
  <2> QED
    BY <2>3, <2>4, <2>5, <2>6, <2>7
<1>3. ASSUME NEW t \in Tab, NEW s \in Steps, Walk(t, s)
      PROVE  Fates'
  <2>1. /\ form[t].step \in Busy /\ s \in Busy /\ SameBut(t, s)
        /\ s \in Early => form[t].step \in Early
        /\ UNCHANGED <<fate, home, handed, paid, orders>>
    BY <1>3 DEF Walk
  <2>2. Under'
    BY <2>1 DEF Under, SameBut
  <2>3. Alone'
    BY <2>1 DEF Alone, SameBut
  <2>4. FreshTabs' /\ Lists'
    BY <2>1 DEF FreshTabs, Lists, SameBut
  <2> QED
    BY <2>1, <2>2, <2>3, <2>4
<1>4. ASSUME NEW t \in Tab, form[t].step \in Busy,
             \/ End(t, "declined") \/ End(t, "failed")
             \/ Pay(t) \/ Register(t)
      PROVE  Fates'
  <2> DEFINE o == form[t].order
  <2>1. /\ o \in Order /\ fate[o] \in {"open", "charged"}
        /\ form[t].batch = home[o] /\ form[t].batch \in Batch
    BY <1>4 DEF Under, Pages, HasOrder, Forms
  <2>2. \A u \in Tab : form[u].step \in Busy /\ u # t =>
                      form[u].order # o /\ form[u].order \in Order
    BY <1>4 DEF Alone, Pages, HasOrder
  <2>3. CASE End(t, "declined") \/ End(t, "failed")
    <3>1. PICK why \in {"declined", "failed"} :
            /\ SameBut(t, "idle") /\ fate' = [fate EXCEPT ![o] = why]
            /\ handed' \subseteq handed \cup {o}
            /\ why = "declined" => o \notin handed' \cup paid
            /\ UNCHANGED <<home, paid, orders>>
      BY <1>4, <2>3 DEF End, Under
    <3>2. Under'
      BY <2>2, <3>1 DEF Under, SameBut, Busy
    <3>3. Alone'
      BY <3>1 DEF Alone, SameBut, Busy
    <3>4. FreshTabs'
      BY <3>1 DEF FreshTabs, SameBut
    <3>5. Lists'
      BY <2>1, <3>1 DEF Lists
    <3>6. fate' \in [Order -> Fate] /\ home' \in [Order -> Batch \cup {Absent}]
      BY <3>1 DEF Fate
    <3> QED
      BY <3>2, <3>3, <3>4, <3>5, <3>6
  <2>4. CASE Pay(t)
    <3>1. /\ SameBut(t, "proving") /\ fate' = [fate EXCEPT ![o] = "charged"]
          /\ handed' \subseteq handed \cup {o} /\ paid' = paid \cup {o}
          /\ UNCHANGED <<home, orders>>
      BY <2>4 DEF Pay
    <3>2. Under'
      BY <1>4, <2>1, <2>2, <3>1 DEF Under, SameBut, Early
    <3>3. Alone'
      BY <1>4, <3>1 DEF Alone, SameBut
    <3>4. FreshTabs'
      BY <3>1 DEF FreshTabs, SameBut
    <3>5. Lists'
      BY <2>1, <3>1 DEF Lists
    <3>6. fate' \in [Order -> Fate] /\ home' \in [Order -> Batch \cup {Absent}]
      BY <3>1 DEF Fate
    <3> QED
      BY <3>2, <3>3, <3>4, <3>5, <3>6
  <2>5. CASE Register(t)
    <3>1. /\ SameBut(t, "confirmed") /\ fate' = [fate EXCEPT ![o] = "confirmed"]
          /\ orders' = [orders EXCEPT ![home[o]] = orders[home[o]] \cup {o}]
          /\ UNCHANGED <<home, handed, paid>>
      BY <2>1, <2>5 DEF Register
    <3>2. Under'
      BY <2>2, <3>1 DEF Under, SameBut, Busy
    <3>3. Alone'
      BY <3>1 DEF Alone, SameBut, Busy
    <3>4. FreshTabs'
      BY <3>1 DEF FreshTabs, SameBut
    <3>5. Lists'
      BY <2>1, <3>1 DEF Lists, Pages
    <3>6. fate' \in [Order -> Fate] /\ home' \in [Order -> Batch \cup {Absent}]
      BY <3>1 DEF Fate
    <3> QED
      BY <3>2, <3>3, <3>4, <3>5, <3>6
  <2> QED
    BY <1>4, <2>3, <2>4, <2>5
<1>5. ASSUME NEW t \in Tab, Forget(t)
      PROVE  Fates'
  <2>1. /\ Others(t) /\ form'[t].step \notin Busy /\ form'[t].order = Absent
        /\ fate' = [o \in Order |->
             IF form[t].order = o /\ fate[o] \in {"open", "charged"} THEN "lost" ELSE fate[o]]
        /\ UNCHANGED <<home, handed, paid, orders>>
    BY <1>5 DEF Forget, Busy
  <2>2. \A u \in Tab : form'[u].step \in Busy =>
          /\ u # t /\ form'[u] = form[u]
          /\ form[u].order \in Order /\ form[u].order # form[t].order
    BY <2>1 DEF Others, Alone, Pages, HasOrder
  <2>3. Under'
    BY <2>1, <2>2 DEF Under
  <2>4. Alone'
    BY <2>1, <2>2, AppAssumption DEF Alone, Others
  <2>5. FreshTabs'
    BY <2>1, AppAssumption DEF FreshTabs, Others
  <2>6. Lists'
    BY <2>1 DEF Lists
  <2>7. fate' \in [Order -> Fate]
    BY <2>1 DEF Fate
  <2> QED
    BY <2>1, <2>3, <2>4, <2>5, <2>6, <2>7
<1> QED
  BY <1>1, <1>2, <1>3, <1>4, <1>5 DEF Move, End, Pay, Register

LEMMA FatesAlways == AppSpec => [](Pages /\ Fates)
<1>1. (Pages /\ Fates) /\ [AppNext]_appVars => (Pages /\ Fates)'
  BY PagesStep, Moves, FatesStep
<1> QED
  BY <1>1, PagesInit, FatesInit, PTL DEF AppSpec

(* A confirmed order is on the list of its batch and on no other.          *)
THEOREM ListsKept == AppSpec => []OrdersKept
<1>1. Fates => OrdersKept
  BY DEF Fates, Lists, OrdersKept
<1> QED
  BY <1>1, FatesAlways, PTL

---------------------------------------------------------------------------
(* Declined orders.                                                        *)

(* The extension is asked for a connection only when the API is not        *)
(* its own.                                                                *)
Asking == \A t \in Tab : form[t].step = "connecting" => form[t].api # "real"

(* A declined order was entered, is not handed to the extension and, if no *)
(* demo wallet was there to go on with, is neither charged nor confirmed.  *)
Refusals ==
  /\ declined \subseteq Order
  /\ \A o \in declined :
       /\ fate[o] # "new" /\ o \notin handed
       /\ o \in overruled \/ (o \notin paid /\ fate[o] # "confirmed")

(* The form of a declined order either has the demo wallet's signature or  *)
(* is about to get it, or is about to fail for want of an API.             *)
Going(t) ==
  \/ /\ form[t].order \in overruled /\ form[t].api = "simulated"
     /\ form[t].step \notin {"connecting", "addressing"}
  \/ form[t].step = "signing" /\ form[t].api = Absent

Goings == \A t \in Tab : form[t].step \in Busy /\ form[t].order \in declined => Going(t)

Declines == Asking /\ Refusals /\ Goings

LEMMA DeclinesInit == AppInit => Declines
BY DEF AppInit, TabInit, Idle, Busy, Declines, Asking, Refusals, Goings

(* A step that leaves the forms and the declined orders alone.             *)
LEMMA DeclinesKept ==
  ASSUME Declines, UNCHANGED <<form, fate, handed, refusals>>, paid' = paid \/ paid' = {}
  PROVE  Declines'
BY DEF Declines, Asking, Refusals, Goings, Going, refusals

LEMMA DeclinesForm ==
  ASSUME Pages, Fates, Declines, NEW t \in Tab, FormStep(t)
  PROVE  Declines'
<1> DEFINE p == form[t].order
<1> USE DEF Pages, Declines
<1>a. form[t] \in Forms /\ form[t].step \in Steps
  BY DEF Forms
<1>b. ASSUME form[t].step \in Busy
      PROVE  /\ p \in Order /\ fate[p] \in {"open", "charged"}
             /\ form[t].step \in Early => p \notin handed \cup paid
             /\ \A u \in Tab \ {t} : form[u].step \in Busy => form[u].order # p
  BY <1>b DEF HasOrder, Fates, Under, Alone
<1>c. ASSUME NEW s \in Steps, form' = To(t, s)
      PROVE  /\ form'[t].step = s /\ form'[t].order = p /\ form'[t].api = form[t].api
             /\ \A u \in Tab \ {t} : form'[u] = form[u]
  BY <1>a, <1>c DEF To, Forms
<1>0. ASSUME form[t].step \in Busy, form[t].step = "signing" => form[t].api # Absent,
             p \in declined
      PROVE  p \in overruled /\ form[t].api = "simulated"
  BY <1>0 DEF Goings, Going
<1>1. ASSUME NEW o \in Order, HandleSubmit(t, o) PROVE Declines'
  <2>1. /\ form'[t].order = o /\ (form'[t].step = "connecting" => form'[t].api # "real")
        /\ \A u \in Tab \ {t} : form'[u] = form[u]
        /\ fate' = [fate EXCEPT ![o] = "open"] /\ fate[o] = "new"
        /\ UNCHANGED <<handed, paid, refusals>>
    BY <1>1 DEF HandleSubmit
  <2>2. o \notin declined
    BY <2>1 DEF Refusals
  <2>3. Asking'
    BY <2>1 DEF Asking
  <2>4. Refusals'
    BY <2>1, <2>2 DEF Refusals, refusals, Fates
  <2>5. Goings'
    BY <2>1, <2>2 DEF Goings, Going, refusals
  <2> QED
    BY <2>3, <2>4, <2>5
<1>2. CASE SignConnects(t)
  <2>1. form[t].step = "connecting" /\ UNCHANGED <<paid, fate, handed>>
    BY <1>2 DEF SignConnects
  <2>2. form[t].step \in Busy /\ form[t].step \in Early /\ p \notin declined
    BY <2>1 DEF Busy, Early, Goings, Going
  <2>3. CASE form' = To(t, "addressing") /\ UNCHANGED refusals
    BY <1>c, <2>1, <2>2, <2>3
    DEF Steps, Busy, Asking, Refusals, Goings, Going, refusals
  <2>4. CASE /\ form' = To(t, "signing") /\ declined' = declined \cup {p}
             /\ overruled' = IF form[t].api = "simulated" THEN overruled \cup {p}
                                                          ELSE overruled
    <3>1. /\ form'[t].step = "signing" /\ form'[t].order = p /\ form'[t].api = form[t].api
          /\ \A u \in Tab \ {t} : form'[u] = form[u]
      BY <1>c, <2>4 DEF Steps, Busy
    <3>2. form[t].api \in {"simulated", Absent}
      BY <1>a, <2>1 DEF Asking, Forms, Api
    <3>3. Asking'
      BY <3>1 DEF Asking
    <3>4. Refusals'
      BY <1>b, <2>1, <2>2, <2>4 DEF Refusals
    <3>5. ASSUME NEW u \in Tab, form'[u].step \in Busy, form'[u].order \in declined'
          PROVE  Going(u)'
      <4>1. CASE u = t
        BY <2>4, <3>1, <3>2, <4>1 DEF Going
      <4>2. CASE u # t
        BY <1>b, <2>2, <2>4, <3>1, <3>5, <4>2 DEF Goings, Going
      <4> QED
        BY <4>1, <4>2
    <3> QED
      BY <3>3, <3>4, <3>5 DEF Goings
  <2> QED
    BY <1>2, <2>3, <2>4 DEF SignConnects
<1>3. CASE SignConnected(t)
  <2>1. /\ form[t].step = "addressing" /\ form' = [form EXCEPT ![t] = Signing(t, "real", 0)]
        /\ UNCHANGED <<paid, fate, handed, refusals>>
    BY <1>3 DEF SignConnected
  <2>2. p \notin declined
    BY <2>1 DEF Busy, Goings, Going
  <2>3. /\ form'[t].step = "signing" /\ form'[t].order = p
        /\ \A u \in Tab \ {t} : form'[u] = form[u]
    BY <2>1 DEF Signing
  <2> QED
    BY <2>1, <2>2, <2>3 DEF Asking, Refusals, Goings, Going, refusals
<1>4. ASSUME form[t].step \in Busy, Fail(t, "failed"), UNCHANGED refusals,
             handed' = IF form[t].api = "real" THEN handed \cup {p} ELSE handed,
             form[t].step = "signing" => form[t].api = Absent
      PROVE  Declines'
  <2>1. /\ form' = To(t, "idle") /\ fate' = [fate EXCEPT ![p] = "failed"] /\ paid' = paid
    BY <1>4 DEF Fail
  <2>2. form'[t].step = "idle" /\ \A u \in Tab \ {t} : form'[u] = form[u]
    BY <1>c, <2>1 DEF Steps
  <2>3. p \in declined => form[t].api # "real"
    BY <1>4, AppAssumption DEF Goings, Going, Api
  <2>4. Refusals'
    BY <1>4, <2>1, <2>3 DEF Refusals, refusals, Fates
  <2> QED
    BY <1>4, <2>2, <2>4 DEF Asking, Goings, Going, refusals, Busy
<1>5. ASSUME form[t].step \in Busy, Charge(t), UNCHANGED refusals,
             form[t].step = "signing" => form[t].api # Absent,
             handed' = IF form[t].api = "real" THEN handed \cup {p} ELSE handed
      PROVE  Declines'
  <2>1. /\ form' = To(t, "proving") /\ fate' = [fate EXCEPT ![p] = "charged"]
        /\ paid' = paid \cup {p}
    BY <1>5 DEF Charge, RecordOrderDeduction
  <2>2. /\ form'[t].step = "proving" /\ form'[t].order = p /\ form'[t].api = form[t].api
        /\ \A u \in Tab \ {t} : form'[u] = form[u]
    BY <1>c, <2>1 DEF Steps, Busy
  <2>3. p \in declined => p \in overruled /\ form[t].api = "simulated"
    BY <1>0, <1>5
  <2>4. Refusals'
    BY <1>5, <2>1, <2>3 DEF Refusals, refusals, Fates
  <2> QED
    BY <1>5, <2>2, <2>3, <2>4 DEF Asking, Goings, Going, refusals
<1>6. CASE Sign(t)
  <2>1. /\ form[t].step = "signing" /\ form[t].api # Absent
        /\ UNCHANGED <<paid, handed, overruled>>
    BY <1>6 DEF Sign
  <2>2. form[t].step \in Busy /\ form[t].step \in Early
    BY <2>1 DEF Busy, Early
  <2>3. p \in declined => p \in overruled /\ form[t].api = "simulated"
    BY <1>0, <2>1, <2>2
  <2>4. CASE form' = To(t, "sending") /\ UNCHANGED <<fate, declined>>
    <3>1. /\ form'[t].step = "sending" /\ form'[t].order = p /\ form'[t].api = form[t].api
          /\ \A u \in Tab \ {t} : form'[u] = form[u]
      BY <1>c, <2>4 DEF Steps, Busy
    <3> QED
      BY <2>1, <2>3, <2>4, <3>1 DEF Asking, Refusals, Goings, Going
  <2>5. CASE /\ form[t].api = "real" /\ form' = AfterDecline(t)
             /\ fate' = [fate EXCEPT ![p] = "declined"] /\ declined' = declined \cup {p}
    <3>1. form'[t].step = "idle" /\ \A u \in Tab \ {t} : form'[u] = form[u]
      BY <1>c, <2>5 DEF Steps, AfterDecline
    <3>2. Refusals'
      BY <1>b, <2>1, <2>2, <2>5 DEF Refusals, Fates
    <3>3. ASSUME NEW u \in Tab, form'[u].step \in Busy, form'[u].order \in declined'
          PROVE  Going(u)'
      <4>1. u # t
        BY <3>1, <3>3 DEF Busy
      <4> QED
        BY <1>b, <2>1, <2>2, <2>5, <3>1, <3>3, <4>1 DEF Goings, Going
    <3> QED
      BY <3>1, <3>2, <3>3 DEF Asking, Goings
  <2>6. CASE /\ form[t].api = "real" /\ UNCHANGED <<fate, declined>>
             /\ form' = IF form[t].tries + 1 < Methods
                          THEN [form EXCEPT ![t] = Signing(t, "real", form[t].tries + 1)]
                          ELSE To(t, "unsigned")
    <3>1. p \notin declined
      BY <2>3, <2>6
    <3>2. /\ form'[t].step \in {"signing", "unsigned"} /\ form'[t].order = p
          /\ \A u \in Tab \ {t} : form'[u] = form[u]
      <4>1. CASE form[t].tries + 1 < Methods
        BY <2>6, <4>1 DEF Signing
      <4>2. CASE ~(form[t].tries + 1 < Methods)
        BY <1>c, <2>6, <4>2 DEF Steps, Busy
      <4> QED
        BY <4>1, <4>2
    <3> QED
      BY <2>1, <2>6, <3>1, <3>2 DEF Asking, Refusals, Goings, Going
  <2> QED
    BY <1>6, <2>4, <2>5, <2>6 DEF Sign
<1>7. CASE NoApi(t)
  <2>1. /\ form[t].step \in Busy /\ form[t].api = Absent /\ Fail(t, "failed")
        /\ UNCHANGED <<handed, refusals>>
    BY <1>7 DEF NoApi, Busy
  <2> QED
    BY <1>4, <2>1, AppAssumption DEF Api
<1>8. CASE SignDemo(t)
  <2>1. /\ form[t].step \in Busy /\ form[t].api = "simulated" /\ Charge(t)
        /\ UNCHANGED <<handed, refusals>>
    BY <1>8 DEF SignDemo, Busy
  <2> QED
    BY <1>5, <2>1, AppAssumption DEF Api
<1>9. CASE Send(t)
  <2>1. /\ form[t].step \in {"sending", "unsigned"} /\ UNCHANGED refusals
        /\ handed' = IF form[t].api = "real" THEN handed \cup {p} ELSE handed
        /\ Fail(t, "failed") \/ Charge(t)
    BY <1>9 DEF Send
  <2> QED
    BY <1>4, <1>5, <2>1 DEF Busy
<1>10. CASE Prove(t)
  <2>1. /\ form[t].step \in Busy /\ form[t].step # "signing" /\ form' = To(t, "submitting")
        /\ UNCHANGED <<fate, handed, paid, refusals>>
    BY <1>10 DEF Prove, Busy, appHistory, storage
  <2>2. /\ form'[t].step = "submitting" /\ form'[t].order = p /\ form'[t].api = form[t].api
        /\ \A u \in Tab \ {t} : form'[u] = form[u]
    BY <1>c, <2>1 DEF Steps, Busy
  <2> QED
    BY <1>0, <2>1, <2>2 DEF Asking, Refusals, Goings, Going, refusals
<1>11. CASE Confirm(t)
  <2>1. /\ form[t].step \in Busy /\ form[t].step # "signing" /\ form' = To(t, "confirmed")
        /\ fate' = [fate EXCEPT ![p] = "confirmed"]
        /\ UNCHANGED <<handed, paid, refusals>>
    BY <1>11 DEF Confirm, Busy
  <2>2. form'[t].step = "confirmed" /\ \A u \in Tab \ {t} : form'[u] = form[u]
    BY <1>c, <2>1 DEF Steps
  <2>3. Refusals'
    BY <1>0, <2>1 DEF Refusals, refusals, Fates
  <2> QED
    BY <2>1, <2>2, <2>3 DEF Asking, Goings, Going, refusals, Busy
<1> QED
  BY <1>1, <1>2, <1>3, <1>6, <1>7, <1>8, <1>9, <1>10, <1>11 DEF FormStep

LEMMA DeclinesStep ==
  ASSUME Pages, Fates, Declines, [AppNext]_appVars
  PROVE  Declines'
<1>1. CASE UNCHANGED appVars
  BY <1>1, DeclinesKept DEF appVars, storage, appHistory
<1>2. CASE Inject
  BY <1>2, DeclinesKept DEF Inject, storage, appHistory
<1>3. ASSUME NEW t \in Tab, Mount(t)
      PROVE  Declines'
  <2>1. /\ form' = [form EXCEPT ![t] = Idle]
        /\ fate' = [o \in Order |->
             IF form[t].order = o /\ fate[o] \in {"open", "charged"} THEN "lost" ELSE fate[o]]
        /\ UNCHANGED <<handed, paid, refusals>>
    BY <1>3 DEF Mount
  <2>2. form'[t].step = "idle" /\ \A u \in Tab \ {t} : form'[u] = form[u]
    BY <2>1 DEF Pages, Idle
  <2>3. Refusals'
    BY <2>1 DEF Declines, Refusals, refusals
  <2> QED
    BY <2>1, <2>2, <2>3 DEF Declines, Asking, Goings, Going, refusals, Busy
<1>4. ASSUME NEW t \in Tab, WalletStep(t), ~Mount(t)
      PROVE  Declines'
  BY <1>4, DeclinesKept
  DEF WalletStep, ConnectWallet, Granted, Refused, Connected, ConnectSimulatedLace,
      DisconnectLace, StartPoll, EndPoll, Sync, SyncDemo, Refill, storage, appHistory
<1>5. ASSUME NEW t \in Tab, PressClose(t) \/ HandleCloseBatch(t)
      PROVE  Declines'
  BY <1>5, DeclinesKept DEF PressClose, HandleCloseBatch, storage, appHistory
<1> QED
  BY <1>1, <1>2, <1>3, <1>4, <1>5, DeclinesForm DEF AppNext

(* An order declined at a prompt of the extension is never handed to it,   *)
(* and is charged or listed only if a demo wallet was there to go on with. *)
THEOREM Declined == AppSpec => []DeclineIsFinal
<1>1. Fates /\ Declines => DeclineIsFinal
  BY DEF Fates, Lists, Declines, Refusals, DeclineIsFinal
<1>2. (Pages /\ Fates /\ Declines) /\ [AppNext]_appVars => (Pages /\ Fates /\ Declines)'
  BY PagesStep, Moves, FatesStep, DeclinesStep
<1> QED
  BY <1>1, <1>2, PagesInit, FatesInit, DeclinesInit, PTL DEF AppSpec
---------------------------------------------------------------------------
(* The deductions.                                                         *)

(* The deductions on record add up; an order that is still getting signed  *)
(* or sent is not among those charged; and those charged go on to be       *)
(* confirmed or are lost with their page.                                  *)
AddsUp ==
  /\ IsFiniteSet(paid) /\ paid \subseteq Order
  /\ deducted = SumFunctionOnSet(Cost, paid)

Awaiting == \A t \in Tab : form[t].step \in Unpaid => form[t].order \notin paid

ChargedFate == \A o \in paid : fate[o] \in {"charged", "confirmed", "lost"}

Charges == AddsUp /\ Awaiting /\ ChargedFate

LEMMA ChargesInit == AppInit => Charges
<1> SUFFICES ASSUME AppInit PROVE Charges
  OBVIOUS
<1>1. IsFiniteSet({}) /\ SumFunctionOnSet(Cost, {}) = 0
  BY FS_EmptySet, SumEmpty
<1>2. paid = {} /\ deducted = 0
  BY DEF AppInit
<1> QED
  BY <1>1, <1>2 DEF Charges, AddsUp, Awaiting, ChargedFate

LEMMA AddsUpStep ==
  ASSUME Pages, AddsUp, Awaiting, [AppNext]_appVars
  PROVE  AddsUp'
<1>1. CASE KeepSums \/ Read
  BY <1>1 DEF KeepSums, Read, AddsUp
<1>2. CASE Restart
  <2>1. IsFiniteSet({}) /\ SumFunctionOnSet(Cost, {}) = 0
    BY FS_EmptySet, SumEmpty
  <2> QED
    BY <1>2, <2>1 DEF Restart, AddsUp
<1>3. ASSUME NEW t \in Tab, form[t].step \in Unpaid, Take(form[t].order)
      PROVE  AddsUp'
  <2>1. PICK o \in Order : o = form[t].order /\ o \notin paid
    BY <1>3 DEF Pages, HasOrder, Unpaid, Early, Busy, Awaiting
  <2>2. deducted' = deducted + Cost[o] /\ paid' = paid \cup {o}
    BY <1>3, <2>1 DEF Take, RecordOrderDeduction, Deducted
  <2>3. \A x \in paid \cup {o} : Cost[x] \in Nat
    BY AppAssumption DEF AddsUp
  <2>4. SumFunctionOnSet(Cost, paid \cup {o}) = Cost[o] + SumFunctionOnSet(Cost, paid)
    BY <2>1, <2>3, SumAdd DEF AddsUp
  <2>5. IsFiniteSet(paid \cup {o})
    BY FS_AddElement DEF AddsUp
  <2>6. SumFunctionOnSet(Cost, paid) \in Nat /\ Cost[o] \in Nat
    BY <2>3, SumSplit DEF AddsUp
  <2> QED
    BY <2>2, <2>4, <2>5, <2>6 DEF AddsUp
<1> QED
  BY <1>1, <1>2, <1>3, SumMoves

LEMMA ChargesStep ==
  ASSUME Pages, Fates, Charges, [AppNext]_appVars
  PROVE  Charges'
<1>1. AddsUp'
  BY AddsUpStep DEF Charges
<1>2. Move
  BY Moves
<1> USE DEF Charges, Fates
<1>3. CASE Quiet
  BY <1>1, <1>3 DEF Quiet, Awaiting, ChargedFate
<1>4. ASSUME NEW t \in Tab, NEW o \in Order, Enter(t, o)
      PROVE  Charges'
  <2>1. o \notin paid
    BY <1>4 DEF Enter, FreshTabs
  <2> QED
    BY <1>1, <1>4, <2>1 DEF Enter, Others, Awaiting, ChargedFate
<1>5. ASSUME NEW t \in Tab, NEW s \in Steps, Walk(t, s)
      PROVE  Charges'
  BY <1>1, <1>5 DEF Walk, SameBut, Awaiting, ChargedFate
<1>6. ASSUME NEW t \in Tab, NEW why, End(t, why)
      PROVE  Charges'
  <2>1. form[t].order \notin paid
    BY <1>6 DEF End, Awaiting
  <2>2. "idle" \notin Unpaid
    BY DEF Unpaid, Early
  <2> QED
    BY <1>1, <1>6, <2>1, <2>2 DEF End, SameBut, Awaiting, ChargedFate
<1>7. ASSUME NEW t \in Tab, Pay(t)
      PROVE  Charges'
  <2>1. form[t].order \in Order /\ form[t].step \in Busy
    BY <1>7 DEF Pay, Pages, HasOrder
  <2>2. \A u \in Tab : form[u].step \in Unpaid /\ u # t => form[u].order # form[t].order
    BY <2>1 DEF Alone
  <2>3. "proving" \notin Unpaid
    BY DEF Unpaid, Early
  <2>4. Awaiting'
    BY <1>7, <2>2, <2>3 DEF Pay, SameBut, Awaiting
  <2>5. ChargedFate'
    BY <1>7, <2>1 DEF Pay, ChargedFate, AddsUp
  <2> QED
    BY <1>1, <2>4, <2>5
<1>8. ASSUME NEW t \in Tab, Register(t)
      PROVE  Charges'
  <2>1. "confirmed" \notin Unpaid
    BY DEF Unpaid, Early
  <2> QED
    BY <1>1, <1>8, <2>1 DEF Register, SameBut, Awaiting, ChargedFate
<1>9. ASSUME NEW t \in Tab, Forget(t)
      PROVE  Charges'
  <2>1. "idle" \notin Unpaid
    BY DEF Unpaid, Early
  <2> QED
    BY <1>1, <1>9, <2>1 DEF Forget, Others, Awaiting, ChargedFate, AddsUp
<1> QED
  BY <1>2, <1>3, <1>4, <1>5, <1>6, <1>7, <1>8, <1>9 DEF Move

---------------------------------------------------------------------------
(* The types, variable by variable.                                        *)

AppForms == [step : Busy \cup {"idle", "confirmed"}, order : Order \cup {Absent},
             batch : Batch, api : Api \cup {Absent}, tries : 0 .. Methods]

Balances ==
  /\ stored \in 0 .. Top /\ deducted \in Nat /\ shown \in [Tab -> 0 .. Top]
  /\ demo \in [Tab -> 0 .. Top]

FormTypes == form \in [Tab -> AppForms]

TabTypes ==
  /\ simulated \in BOOLEAN /\ wallet \in [Tab -> Api \cup {Absent}]
  /\ listed \in [Tab -> SUBSET Order]
  /\ connecting \in [Tab -> {Absent, "asked", "granted"}]
  /\ polling \in [Tab -> {Absent, "wanted", "cancelled", "pressed"}]
  /\ installed \in BOOLEAN /\ moves \in 0 .. MaxMoves

LEMMA TypesInParts ==
  ASSUME Pages, Balances, FormTypes, TabTypes
  PROVE  AppTypeOK
<1>1. 1 .. LastBatch \subseteq Batch
  BY AppAssumption DEF Batch
<1>2. sealing \in [Tab -> Batch \cup {Absent}]
  BY <1>1 DEF Pages
<1>3. form \in [Tab -> [step : Busy \cup {"idle", "confirmed"}, order : Order \cup {Absent},
                       batch : Batch, api : Api \cup {Absent}, tries : 0 .. Methods]]
  BY DEF FormTypes, AppForms
<1> QED
  BY <1>2, <1>3 DEF Pages, Balances, TabTypes, AppTypeOK

(* The most a balance can be is the largest of the balances reported.      *)
LEMMA TopIsLargest == Top \in Nat /\ Faucet <= Top /\ \A raw \in Raw : raw <= Top
<1> DEFINE S == Raw \cup {Faucet}
<1>1. S \subseteq Nat /\ IsFiniteSet(S) /\ S # {}
  BY AppAssumption, FS_AddElement
<1>2. \E x \in S : \A y \in S : y <= x
  BY <1>1, HasLargest
<1>3. \E x \in S : \A y \in S : x >= y
  BY <1>1, <1>2
<1>4. Top \in S /\ \A y \in S : Top >= y
  BY <1>3 DEF Top, Max
<1> QED
  BY <1>1, <1>4

LEMMA Reduced ==
  ASSUME NEW n \in 0 .. Top, NEW c \in Nat
  PROVE  Positive(n - c) \in 0 .. Top
BY TopIsLargest DEF Positive

LEMMA BalancesStep ==
  ASSUME Pages, Balances, [AppNext]_appVars
  PROVE  Balances'
<1> USE TopIsLargest, AppAssumption
<1>1. \A raw \in Reported : Net(raw) \in 0 .. Top
  <2>1. Reported \subseteq 0 .. Top
    <3>1. \A raw \in Raw : raw \in 0 .. Top
      OBVIOUS
    <3>2. \A t \in Tab : demo[t] \in 0 .. Top
      BY DEF Balances
    <3> QED
      BY <3>1, <3>2 DEF Reported
  <2> QED
    BY <2>1, Reduced DEF Net, Balances
<1>4. demo' \in [Tab -> 0 .. Top]
  BY DemoMoves DEF KeepDemo, Balances
<1>2. stored' \in 0 .. Top /\ deducted' \in Nat
  <2>1. CASE KeepSums
    BY <2>1 DEF KeepSums, Balances
  <2>2. CASE Read
    BY <1>1, <2>2 DEF Read, ApplyNetLiveBalance, Balances
  <2>3. CASE Restart
    BY <2>3 DEF Restart
  <2>4. ASSUME NEW t \in Tab, form[t].step \in Unpaid, Take(form[t].order)
        PROVE  stored' \in 0 .. Top /\ deducted' \in Nat
    <3>1. PICK o \in Order : o = form[t].order
      BY <2>4 DEF Pages, HasOrder, Unpaid, Early, Busy
    <3>2. Cost[o] \in Nat
      OBVIOUS
    <3>3. stored' = Positive(stored - Cost[o]) /\ deducted' = deducted + Cost[o]
      BY <2>4, <3>1 DEF Take, RecordOrderDeduction, Deducted
    <3> QED
      <4>1. stored \in 0 .. Top /\ deducted + Cost[o] \in Nat
        BY <3>2 DEF Balances
      <4> QED
        BY <3>2, <3>3, <4>1, Reduced
  <2> QED
    BY <2>1, <2>2, <2>3, <2>4, SumMoves
<1>3. shown' \in [Tab -> 0 .. Top]
  <2>1. CASE UNCHANGED shown
    BY <2>1 DEF Balances
  <2>2. ASSUME NEW t \in Tab, shown' = [shown EXCEPT ![t] = stored']
        PROVE  shown' \in [Tab -> 0 .. Top]
    BY <1>2, <2>2 DEF Balances
  <2>3. ASSUME NEW t \in Tab, shown' = [shown EXCEPT ![t] = stored]
        PROVE  shown' \in [Tab -> 0 .. Top]
    BY <2>3 DEF Balances
  <2>4. ASSUME NEW t \in Tab, NEW raw \in Reported, shown' = [shown EXCEPT ![t] = Net(raw)]
        PROVE  shown' \in [Tab -> 0 .. Top]
    BY <1>1, <2>4 DEF Balances
  <2>5. ASSUME NEW t \in Tab, shown' = [shown EXCEPT ![t] = Faucet]
        PROVE  shown' \in [Tab -> 0 .. Top]
    BY <2>5 DEF Balances
  <2>6. CASE UNCHANGED appVars \/ Inject
    BY <2>1, <2>6 DEF appVars, Inject
  <2>7. ASSUME NEW t \in Tab, FormStep(t)
        PROVE  shown' \in [Tab -> 0 .. Top]
    BY <2>1, <2>2, <2>7
    DEF FormStep, HandleSubmit, SignConnects, SignConnected, NoApi, SignDemo, Sign, Send,
        Prove, Confirm, Charge, Fail
  <2>8. ASSUME NEW t \in Tab, WalletStep(t)
        PROVE  shown' \in [Tab -> 0 .. Top]
    <3>1. CASE EndPoll(t)
      BY <2>1, <2>4, <3>1 DEF EndPoll, Reported
    <3>2. CASE Connected(t)
      BY <2>2, <3>2 DEF Connected
    <3>3. CASE Refill(t)
      BY <2>5, <3>3 DEF Refill
    <3>4. CASE ConnectSimulatedLace(t) \/ Mount(t)
      BY <2>3, <3>4 DEF ConnectSimulatedLace, Mount
    <3>5. CASE SyncDemo(t)
      BY <2>4, <3>5 DEF SyncDemo, Reported
    <3> QED
      BY <2>1, <2>8, <3>1, <3>2, <3>3, <3>4, <3>5
      DEF WalletStep, ConnectWallet, Granted, Refused, DisconnectLace, StartPoll, Sync
  <2>9. ASSUME NEW t \in Tab, PressClose(t) \/ HandleCloseBatch(t)
        PROVE  shown' \in [Tab -> 0 .. Top]
    BY <2>1, <2>9 DEF PressClose, HandleCloseBatch
  <2> QED
    BY <2>6, <2>7, <2>8, <2>9 DEF AppNext
<1> QED
  BY <1>2, <1>3, <1>4 DEF Balances

LEMMA FormTypesStep ==
  ASSUME Pages, FormTypes, [AppNext]_appVars
  PROVE  FormTypes'
<1> USE AppAssumption
<1>1. CASE UNCHANGED form
  BY <1>1 DEF FormTypes
<1>2. ASSUME NEW t \in Tab, NEW s \in Steps, form' = To(t, s)
      PROVE  FormTypes'
  <2>1. form[t] \in AppForms
    BY DEF FormTypes
  <2>2. [form[t] EXCEPT !.step = s] \in AppForms
    BY <2>1 DEF AppForms, Steps
  <2>3. form' = [form EXCEPT ![t] = [form[t] EXCEPT !.step = s]]
    BY <1>2 DEF To
  <2> QED
    BY <2>2, <2>3 DEF FormTypes
<1>3. ASSUME NEW t \in Tab, NEW n \in 0 .. Methods, form' = [form EXCEPT ![t] = Signing(t, "real", n)]
      PROVE  FormTypes'
  <2>1. form[t] \in AppForms
    BY DEF FormTypes
  <2>2. Signing(t, "real", n) \in AppForms
    BY <2>1 DEF Signing, AppForms, Busy, Api
  <2> QED
    BY <1>3, <2>2 DEF FormTypes
<1>4. {"addressing", "signing", "idle", "proving", "sending", "unsigned", "submitting", "confirmed"}
        \subseteq Steps
  BY DEF Steps, Busy
<1>5. CASE UNCHANGED appVars \/ Inject
  BY <1>1, <1>5 DEF appVars, Inject
<1>6. ASSUME NEW t \in Tab, FormStep(t)
      PROVE  FormTypes'
  <2>1. ASSUME NEW o \in Order, HandleSubmit(t, o)
        PROVE  FormTypes'
    <3> DEFINE first == IF api[t] # "real" /\ installed THEN "connecting" ELSE "signing"
               f == [step |-> first, order |-> o, batch |-> batch[t], api |-> api[t], tries |-> 0]
    <3>1. f \in AppForms
      BY DEF AppForms, Busy, Pages
    <3>2. form' = [form EXCEPT ![t] = f]
      BY <2>1 DEF HandleSubmit
    <3> HIDE DEF f
    <3> QED
      BY <3>1, <3>2 DEF FormTypes
  <2>2. CASE SignConnected(t)
    <3>1. 0 \in 0 .. Methods
      OBVIOUS
    <3>2. form' = [form EXCEPT ![t] = Signing(t, "real", 0)]
      BY <2>2 DEF SignConnected
    <3> QED
      BY <1>3, <3>1, <3>2
  <2>3. CASE SignConnects(t) \/ Prove(t) \/ Confirm(t)
    BY <1>2, <1>4, <2>3 DEF SignConnects, Prove, Confirm
  <2>4. CASE NoApi(t) \/ SignDemo(t) \/ Send(t)
    BY <1>2, <1>4, <2>4 DEF NoApi, SignDemo, Send, Charge, Fail
  <2>5. CASE Sign(t)
    <3>1. CASE form[t].tries + 1 < Methods /\ form' = [form EXCEPT ![t] = Signing(t, "real", form[t].tries + 1)]
      <4>1. form[t].tries + 1 \in 0 .. Methods
        BY <3>1 DEF FormTypes, AppForms
      <4> QED
        BY <1>3, <3>1, <4>1
    <3>2. form' = To(t, "sending") \/ form' = AfterDecline(t) \/ form' = To(t, "unsigned") \/ FormTypes'
      BY <2>5, <3>1 DEF Sign
    <3> QED
      BY <1>2, <1>4, <3>2 DEF AfterDecline
  <2> QED
    BY <1>6, <2>1, <2>2, <2>3, <2>4, <2>5 DEF FormStep
<1>7. ASSUME NEW t \in Tab, WalletStep(t)
      PROVE  FormTypes'
  <2>1. CASE Mount(t)
    <3>1. Idle \in AppForms
      BY DEF Idle, AppForms, Batch
    <3> QED
      BY <2>1, <3>1 DEF Mount, FormTypes
  <2> QED
    BY <1>1, <1>7, <2>1
    DEF WalletStep, ConnectWallet, Granted, Refused, Connected, ConnectSimulatedLace,
        DisconnectLace, StartPoll, EndPoll, Sync, SyncDemo, Refill
<1>8. ASSUME NEW t \in Tab, PressClose(t) \/ HandleCloseBatch(t)
      PROVE  FormTypes'
  BY <1>1, <1>8 DEF PressClose, HandleCloseBatch
<1> QED
  BY <1>5, <1>6, <1>7, <1>8 DEF AppNext

LEMMA TabTypesStep ==
  ASSUME Pages, TabTypes, [AppNext]_appVars
  PROVE  TabTypes'
<1> USE AppAssumption DEF TabTypes, storage, Api
<1>1. CASE UNCHANGED appVars \/ Inject
  BY <1>1 DEF appVars, Inject
<1>2. ASSUME NEW t \in Tab, FormStep(t)
      PROVE  TabTypes'
  <2>1. CASE Confirm(t)
    <3>1. form[t].order \in Order /\ form[t].batch \in Batch
      BY <2>1 DEF Confirm, Pages, HasOrder, Forms, Busy
    <3>2. orders'[form[t].batch] \in SUBSET Order
      BY <2>1, <3>1 DEF Confirm, Listed, Pages
    <3>3. listed' = [listed EXCEPT ![t] = orders'[form[t].batch]]
      BY <2>1 DEF Confirm
    <3> QED
      BY <2>1, <3>2, <3>3 DEF Confirm
  <2> QED
    BY <1>2, <2>1
    DEF FormStep, HandleSubmit, SignConnects, SignConnected, NoApi, SignDemo, Sign, Send,
        Prove
<1>3. ASSUME NEW t \in Tab, WalletStep(t)
      PROVE  TabTypes'
  <2>1. CASE Mount(t)
    <3>1. orders[batchId] \in SUBSET Order
      BY DEF Pages
    <3> QED
      BY <2>1, <3>1 DEF Mount, Click
  <2>2. CASE ConnectWallet(t) \/ Granted(t) \/ Refused(t)
    BY <2>2 DEF ConnectWallet, Granted, Refused, Click, Wallet
  <2>3. CASE Connected(t) \/ ConnectSimulatedLace(t) \/ DisconnectLace(t)
    <3>1. CASE Connected(t)
      BY <3>1 DEF Connected, Wallet
    <3>2. CASE ConnectSimulatedLace(t)
      BY <3>2 DEF ConnectSimulatedLace, Click, Wallet
    <3>3. CASE DisconnectLace(t)
      <4>1. wallet' \in [Tab -> Api \cup {Absent}]
        BY <3>3 DEF DisconnectLace, Wallet
      <4>2. polling' \in [Tab -> {Absent, "wanted", "cancelled", "pressed"}]
        BY <3>3 DEF DisconnectLace, Wallet
      <4>3. moves' \in 0 .. MaxMoves
        BY <3>3 DEF DisconnectLace, Click
      <4> QED
        BY <3>3, <4>1, <4>2, <4>3 DEF DisconnectLace
    <3> QED
      BY <2>3, <3>1, <3>2, <3>3
  <2>4. CASE StartPoll(t) \/ EndPoll(t) \/ Sync(t) \/ SyncDemo(t) \/ Refill(t)
    BY <2>4 DEF StartPoll, EndPoll, Sync, SyncDemo, Refill, Click
  <2> QED
    BY <1>3, <2>1, <2>2, <2>3, <2>4 DEF WalletStep
<1>4. ASSUME NEW t \in Tab, PressClose(t) \/ HandleCloseBatch(t)
      PROVE  TabTypes'
  <2>1. CASE PressClose(t)
    BY <2>1 DEF PressClose, Click
  <2>2. CASE HandleCloseBatch(t)
    <3>1. sealing[t] + 1 \in Batch
      BY <2>2 DEF HandleCloseBatch, Pages, Batch
    <3>2. orders[sealing[t] + 1] \in SUBSET Order
      BY <3>1 DEF Pages
    <3> QED
      BY <2>2, <3>2 DEF HandleCloseBatch
  <2> QED
    BY <1>4, <2>1, <2>2
<1> QED
  BY <1>1, <1>2, <1>3, <1>4 DEF AppNext

LEMMA TypesInit == AppInit => Balances /\ FormTypes /\ TabTypes
<1> SUFFICES ASSUME AppInit PROVE Balances /\ FormTypes /\ TabTypes
  OBVIOUS
<1>1. Faucet \in 0 .. Top
  BY TopIsLargest, AppAssumption
<1>2. Idle \in AppForms
  BY AppAssumption DEF Idle, AppForms, Batch
<1>3. Balances
  BY <1>1 DEF AppInit, TabInit, Balances
<1>4. FormTypes
  BY <1>2 DEF AppInit, TabInit, FormTypes
<1>5. TabTypes
  <2>1. 0 \in 0 .. MaxMoves
    BY AppAssumption
  <2>2. wallet \in [Tab -> Api \cup {Absent}] /\ listed \in [Tab -> SUBSET Order]
    BY DEF AppInit, TabInit
  <2>3. connecting \in [Tab -> {Absent, "asked", "granted"}]
        /\ polling \in [Tab -> {Absent, "wanted", "cancelled", "pressed"}]
    BY DEF AppInit, TabInit
  <2> QED
    BY <2>1, <2>2, <2>3 DEF AppInit, TabInit, TabTypes
<1> QED
  BY <1>3, <1>4, <1>5

(* The state stays in its types; the deductions on record are those of the *)
(* orders that were charged, each once, and only charged orders are ever   *)
(* listed.                                                                 *)
THEOREM ChargedOnce == AppSpec => []PaidOnce
<1>1. Pages /\ Balances /\ FormTypes /\ TabTypes /\ Fates /\ Charges => PaidOnce
  <2> SUFFICES ASSUME Pages, Balances, FormTypes, TabTypes, Fates, Charges
               PROVE  PaidOnce
    OBVIOUS
  <2>1. AppTypeOK
    BY TypesInParts
  <2>2. \A b \in Batch : \A o \in orders[b] : fate[o] = "confirmed"
    BY DEF Pages, Fates, Lists
  <2> QED
    BY <2>1, <2>2 DEF Charges, AddsUp, ChargedFate, PaidOnce
<1>2. Pages /\ Balances /\ FormTypes /\ TabTypes /\ [AppNext]_appVars
        => (Balances /\ FormTypes /\ TabTypes)'
  BY BalancesStep, FormTypesStep, TabTypesStep
<1>3. Pages /\ Fates /\ Charges /\ [AppNext]_appVars => Charges'
  BY ChargesStep
<1> QED
  BY <1>1, <1>2, <1>3, TypesInit, ChargesInit, FatesAlways, PTL DEF AppSpec
=============================================================================
