---------------------------- MODULE BatchSequence ---------------------------
(***************************************************************************)
(* What the Midnight contract promises about its batches, with no ledger   *)
(* map in sight: batches are sealed one after the other; a sealed batch is *)
(* given one result, once; a batch with a result is settled once; nothing  *)
(* is ever taken back.  The promise is made for a contract whose batches   *)
(* are opened by sealing the one before; it is void from the moment a      *)
(* number is opened out of turn.                                           *)
(***************************************************************************)
EXTENDS Naturals

CONSTANTS Batches, First, Results, NoResult

VARIABLES
  sealed,    \* the batches that take no more orders
  result,    \* the settlement root of each
  settled,   \* those whose result was settled
  void       \* a number was opened out of turn

vars == <<sealed, result, settled, void>>

Init ==
  /\ sealed = {}
  /\ result = [b \in Batches |-> NoResult]
  /\ settled = {}
  /\ void = FALSE

(* The lowest number not sealed yet is the one that is open.               *)
Seal(b) ==
  /\ b >= First /\ b \notin sealed
  /\ \A k \in Batches : k >= First /\ k < b => k \in sealed
  /\ sealed' = sealed \cup {b}
  /\ UNCHANGED <<result, settled, void>>

Publish(b, r) ==
  /\ b \in sealed /\ result[b] = NoResult
  /\ result' = [result EXCEPT ![b] = r]
  /\ UNCHANGED <<sealed, settled, void>>

Settle(b) ==
  /\ result[b] # NoResult /\ b \notin settled
  /\ settled' = settled \cup {b}
  /\ UNCHANGED <<sealed, result, void>>

(* Out of turn: no promise any more, and none of the records is kept.      *)
Void ==
  /\ void' = TRUE
  /\ sealed' = {} /\ settled' = {}
  /\ result' = [b \in Batches |-> NoResult]

Next ==
  \/ ~void /\ \E b \in Batches : Seal(b) \/ Settle(b) \/ \E r \in Results : Publish(b, r)
  \/ Void

Spec == Init /\ [][Next]_vars
=============================================================================
