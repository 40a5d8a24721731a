-------------------------- MODULE AuditOps_proofs --------------------------
(***************************************************************************)
(* From a published match to its settlement, for any number of matches and *)
(* batches, any objects in the bucket, any tries, faults and crashes.      *)
(***************************************************************************)
EXTENDS AuditOps, FiniteSetTheorems, WellFoundedInduction, TLAPS

---------------------------------------------------------------------------
(* Smallest and largest elements.                                          *)

LEMMA SmallestExists ==
  ASSUME NEW S, S \subseteq Nat, S # {}
  PROVE  Min(S) \in S /\ \A x \in S : Min(S) <= x
<1> DEFINE R == {p \in Nat \X Nat : p[1] < p[2]}
<1>1. IsWellFoundedOn(R, Nat)
  BY NatLessThanWellFounded, Zenon DEF OpToRel
<1>2. PICK x \in S : \A y \in S : ~ (<<y, x>> \in R)
  BY <1>1, WFMin
<1>3. \A y \in S : x <= y
  <2> TAKE y \in S
  <2>1. x \in Nat /\ y \in Nat
    OBVIOUS
  <2>2. ~(y < x)
    BY <1>2, <2>1
  <2> QED
    BY <2>1, <2>2
<1> QED
  BY <1>3 DEF Min

(* A set of numbers without a largest element keeps having none when its   *)
(* smallest element is taken away, which a finite set cannot bear for long.*)
LEMMA LargestExists ==
  ASSUME NEW S, S \subseteq Nat, IsFiniteSet(S), S # {}
  PROVE  Max(S) \in S
<1> DEFINE Endless(T) == T # {} /\ \A x \in T : \E y \in T : y > x
           Sizes == {n \in Nat : \E T \in SUBSET S : Endless(T) /\ Cardinality(T) = n}
<1> SUFFICES ASSUME ~ \E x \in S : \A y \in S : x >= y
             PROVE  FALSE
  BY DEF Max
<1>1. Endless(S) /\ Cardinality(S) \in Nat
  <2>1. \A x, y \in S : ~(x >= y) => y > x
    OBVIOUS
  <2> QED
    BY <2>1, FS_CardinalityType
<1>2. Sizes \subseteq Nat /\ Sizes # {}
  BY <1>1
<1>3. Min(Sizes) \in Sizes /\ \A n \in Sizes : Min(Sizes) <= n
  BY <1>2, SmallestExists
<1>4. PICK T \in SUBSET S : Endless(T) /\ Cardinality(T) = Min(Sizes)
  BY <1>3
<1> DEFINE x == Min(T)
           U == T \ {x}
<1>5. x \in T /\ \A y \in T : x <= y
  BY <1>4, SmallestExists
<1>6. IsFiniteSet(T) /\ Cardinality(T) \in Nat
  BY <1>4, FS_Subset, FS_CardinalityType
<1>7. Cardinality(U) = Cardinality(T) - 1 /\ IsFiniteSet(U) /\ Cardinality(U) \in Nat
  BY <1>5, <1>6, FS_RemoveElement, FS_CardinalityType
<1>8. Endless(U)
  <2>1. U # {}
    <3>1. PICK y \in T : y > x
      BY <1>4, <1>5
    <3>2. y # x
      BY <1>5, <3>1
    <3> QED
      BY <3>1, <3>2
  <2>2. \A z \in U : \E y \in U : y > z
    <3> TAKE z \in U
    <3>1. PICK y \in T : y > z
      BY <1>4
    <3>2. y # x
      BY <1>5, <3>1
    <3> QED
      BY <3>1, <3>2
  <2> QED
    BY <2>1, <2>2
<1>9. Cardinality(U) \in Sizes
  BY <1>7, <1>8
<1>10. Min(Sizes) <= Cardinality(U)
  BY <1>3, <1>9
<1> QED
  BY <1>4, <1>6, <1>7, <1>10

---------------------------------------------------------------------------
(* Types.                                                                  *)

ProofSet == [object : Object \cup {None}, sound : BOOLEAN]
Receipts == UNION {[S -> ProofSet] : S \in SUBSET Match}
RowSets == UNION {[S -> Row] : S \in SUBSET Match}
Places == {"start", "anchor", "read", "send", "save", "look", "write"}
Ops == [kind : {"settle", "anchor", "keys", "privacy"}, of : Match \cup Batch \cup {None},
        key : Key \cup {None}, at : Places, rows : RowSets, got : Receipts,
        short : BOOLEAN, saw : Receipts \cup Object \cup {None}]
Tasks == [status : {"none", "open", "running", "done"}, tries : 0 .. MaxTries]

TableTypes ==
  /\ object \in [Match -> Object \cup {None}] /\ first \in [Match -> Stored \cup {None}]
  /\ row \in [Match -> Row \cup {None}]
  /\ anchored \in [Batch -> Receipts \cup {None}]
  /\ chain \in [Match -> {"PENDING", "SETTLED"}]
  /\ anchors \in [Batch -> Seq(Receipts)]
  /\ indexed \in [Batch -> Nat] /\ \A b \in Batch : indexed[b] <= Len(anchors[b])
  /\ replayed \subseteq Match /\ faults \in 0 .. MaxFaults
TaskTypes == task \in [Key -> Tasks]
OpTypes == op \in [Process -> Ops \cup {None}]
Types == TableTypes /\ TaskTypes /\ OpTypes

LEMMA NothingYet == <<>> \in RowSets /\ <<>> \in Receipts /\ DOMAIN <<>> = {}
<1>1. \A X : <<>> \in [{} -> X] /\ DOMAIN <<>> = {}
  OBVIOUS
<1> QED
  BY <1>1 DEF RowSets, Receipts

LEMMA Shrunk ==
  ASSUME NEW rows \in RowSets, NEW m
  PROVE  /\ Restrict(rows, DOMAIN rows \ {m}) \in RowSets
         /\ DOMAIN Restrict(rows, DOMAIN rows \ {m}) = DOMAIN rows \ {m}
<1> DEFINE left == Restrict(rows, DOMAIN rows \ {m})
<1>1. PICK S \in SUBSET Match : rows \in [S -> Row]
  BY DEF RowSets
<1>2. DOMAIN rows = S /\ left = [x \in S \ {m} |-> rows[x]]
  BY <1>1 DEF Restrict
<1>3. left \in [S \ {m} -> Row] /\ DOMAIN left = S \ {m} /\ S \ {m} \in SUBSET Match
  BY <1>1, <1>2
<1> QED
  BY <1>2, <1>3 DEF RowSets

LEMMA Grown ==
  ASSUME NEW got \in Receipts, NEW m \in Match, NEW proof \in ProofSet
  PROVE  /\ Added(got, m, proof) \in Receipts
         /\ DOMAIN Added(got, m, proof) = DOMAIN got \cup {m}
<1> DEFINE more == Added(got, m, proof)
<1>1. PICK S \in SUBSET Match : got \in [S -> ProofSet]
  BY DEF Receipts
<1>2. DOMAIN got = S /\ more = [n \in S \cup {m} |-> IF n = m THEN proof ELSE got[n]]
  BY <1>1 DEF Added
<1>3. more \in [S \cup {m} -> ProofSet] /\ DOMAIN more = S \cup {m}
  BY <1>1, <1>2
<1>4. S \cup {m} \in SUBSET Match
  OBVIOUS
<1> QED
  BY <1>2, <1>3, <1>4 DEF Receipts

LEMMA Picks ==
  ASSUME NEW rows \in RowSets, DOMAIN rows # {}
  PROVE  /\ DOMAIN rows \subseteq Match
         /\ Min(DOMAIN rows) \in DOMAIN rows /\ Max(DOMAIN rows) \in DOMAIN rows
         /\ rows[Min(DOMAIN rows)] \in Row /\ rows[Max(DOMAIN rows)] \in Row
<1>1. DOMAIN rows \subseteq Match /\ \A m \in DOMAIN rows : rows[m] \in Row
  BY DEF RowSets
<1>2. IsFiniteSet(DOMAIN rows) /\ DOMAIN rows \subseteq Nat
  BY <1>1, AuditAssumption, FS_Subset
<1> QED
  BY <1>1, <1>2, SmallestExists, LargestExists

LEMMA ProofTyped ==
  ASSUME NEW o \in Object \cup {None}, NEW r \in Row
  PROVE  Proof(o, r) \in ProofSet
<1>1. Sound(o, r) \in BOOLEAN
  BY DEF Sound, Signed, Row
<1> QED
  BY <1>1 DEF Proof, ProofSet

LEMMA StartedTyped ==
  ASSUME NEW k \in Key, NEW key \in Key \cup {None}
  PROVE  Started(k, key) \in Ops
<1>1. k.kind \in {"keys", "privacy", "settle", "reconcile", "anchor"} /\ k.of \in Match \cup Batch \cup {None}
  BY DEF Key
<1> QED
  BY <1>1, NothingYet DEF Started, Ops, Places

(* What the handlers change of the record of their call.                   *)
LEMMA Changed ==
  ASSUME NEW o \in Ops, NEW at \in Places, NEW rows \in RowSets, NEW got \in Receipts,
         NEW short \in BOOLEAN, NEW saw \in Receipts \cup Object \cup {None}
  PROVE  /\ [o EXCEPT !.at = at] \in Ops
         /\ [o EXCEPT !.rows = rows] \in Ops
         /\ [o EXCEPT !.at = at, !.rows = rows] \in Ops
         /\ [o EXCEPT !.at = at, !.saw = saw] \in Ops
         /\ [o EXCEPT !.at = at, !.saw = saw, !.rows = rows] \in Ops
         /\ [o EXCEPT !.at = at, !.rows = rows, !.got = got] \in Ops
         /\ [o EXCEPT !.rows = rows, !.got = got, !.short = short] \in Ops
BY DEF Ops

LEMMA Called ==
  ASSUME Types, NEW p \in Process, op[p] # None
  PROVE  op[p] \in Ops /\ op[p].key \in Key \cup {None} /\ op[p].at \in Places
         /\ op[p].rows \in RowSets /\ op[p].got \in Receipts /\ op[p].short \in BOOLEAN
BY DEF Types, OpTypes, Ops

LEMMA LeaveTypes ==
  ASSUME Types, NEW p \in Process, op[p] # None,
         NEW status \in {"open", "done"}, Leave(p, status)
  PROVE  TaskTypes' /\ OpTypes'
<1>1. OpTypes'
  BY DEF Leave, Types, OpTypes
<1>2. CASE op[p].key = None
  BY <1>1, <1>2 DEF Leave, Types, TaskTypes
<1>3. CASE op[p].key # None
  <2>1. PICK k \in Key : k = op[p].key
    BY <1>3, Called
  <2>2. task' = [task EXCEPT ![k].status = status] /\ task[k] \in Tasks
    BY <1>3, <2>1 DEF Leave, Types, TaskTypes
  <2>3. [task[k] EXCEPT !.status = status] \in Tasks
    BY <2>2 DEF Tasks
  <2> QED
    BY <1>1, <2>2, <2>3 DEF Types, TaskTypes
<1> QED
  BY <1>2, <1>3

LEMMA GotoTypes ==
  ASSUME Types, NEW p \in Process, op[p] # None, NEW o \in Ops, op' = [op EXCEPT ![p] = o],
         UNCHANGED task
  PROVE  TaskTypes' /\ OpTypes'
BY DEF Types, TaskTypes, OpTypes

LEMMA EnterTypes ==
  ASSUME Types, NEW p \in Process, NEW k \in Key, NEW key \in Key \cup {None},
         Enter(p, Started(k, key))
  PROVE  OpTypes'
BY StartedTyped DEF Types, OpTypes, Enter

LEMMA RunTypes ==
  ASSUME Types, NEW k \in Key, NEW n \in 0 .. MaxTries,
         task' = [task EXCEPT ![k] = [status |-> "running", tries |-> n]]
  PROVE  TaskTypes'
<1>1. [status |-> "running", tries |-> n] \in Tasks
  BY DEF Tasks
<1> QED
  BY <1>1 DEF Types, TaskTypes

LEMMA ReissueTypes ==
  ASSUME NEW o
  PROVE  Reissue(o) \in Object
BY DEF Reissue, Object

LEMMA JudgedTypes ==
  ASSUME Types, NEW p \in Process, op[p] # None, NEW got \in Receipts, NEW short, Judged(p, got, short)
  PROVE  TaskTypes' /\ OpTypes'
<1>1. CASE /\ op' = [op EXCEPT ![p].at = "send", ![p].rows = <<>>, ![p].got = got]
           /\ UNCHANGED task
  <2>1. PICK o \in Ops : o = op[p]
    BY Called
  <2>2. [o EXCEPT !.at = "send", !.rows = <<>>, !.got = got] \in Ops
    BY Changed, NothingYet, Called, <2>1 DEF Places
  <2>3. op' = [op EXCEPT ![p] = [o EXCEPT !.at = "send", !.rows = <<>>, !.got = got]]
    BY <1>1, <2>1 DEF Types, OpTypes
  <2> QED
    BY <1>1, <2>2, <2>3, GotoTypes
<1>2. CASE Leave(p, "open")
  BY <1>2, LeaveTypes
<1> QED
  BY <1>1, <1>2 DEF Judged

LEMMA ReadTypes ==
  ASSUME Types, NEW p \in Process, op[p] # None, ReadObject(p)
  PROVE  TaskTypes' /\ OpTypes'
<1> DEFINE m == Min(DOMAIN op[p].rows)
           r == op[p].rows[m]
           left == Restrict(op[p].rows, DOMAIN op[p].rows \ {m})
           Take(got, short) ==
             IF DOMAIN left = {} THEN Judged(p, got, short)
             ELSE /\ op' = [op EXCEPT ![p].rows = left, ![p].got = got, ![p].short = short]
                  /\ UNCHANGED task
<1>1. PICK o \in Ops : o = op[p]
  BY Called
<1>2. m \in Match /\ r \in Row /\ left \in RowSets
  BY Called, Picks, Shrunk DEF ReadObject
<1>3. ASSUME NEW got \in Receipts, NEW short \in BOOLEAN, Take(got, short)
      PROVE  TaskTypes' /\ OpTypes'
  <2>1. CASE DOMAIN left = {}
    BY <1>3, <2>1, JudgedTypes
  <2>2. CASE DOMAIN left # {}
    <3>1. [o EXCEPT !.rows = left, !.got = got, !.short = short] \in Ops
      BY <1>1, <1>2, <1>3, Changed, NothingYet, ZenonT(40) DEF Places
    <3>2. op' = [op EXCEPT ![p] = [o EXCEPT !.rows = left, !.got = got, !.short = short]]
      BY <1>1, <1>3, <2>2 DEF Types, OpTypes
    <3> QED
      BY <1>3, <2>2, <3>1, <3>2, GotoTypes
  <2> QED
    BY <2>1, <2>2
<1>4. Added(op[p].got, m, Proof(object[m], r)) \in Receipts
  <2>1. Proof(object[m], r) \in ProofSet
    BY <1>2, ProofTyped DEF Types, TableTypes
  <2> QED
    BY <1>2, <2>1, Called, Grown
<1>5. Take(op[p].got, TRUE) \/ Take(Added(op[p].got, m, Proof(object[m], r)), op[p].short)
  BY DEF ReadObject
<1> QED
  BY <1>3, <1>4, <1>5, Called

LEMMA LookTypes ==
  ASSUME Types, NEW p \in Process, op[p] # None, Look(p)
  PROVE  Types'
<1> DEFINE m == Max(DOMAIN op[p].rows)
           skip == Restrict(op[p].rows, DOMAIN op[p].rows \ {m})
<1>1. PICK o \in Ops : o = op[p]
  BY Called
<1>2. TableTypes'
  BY AuditAssumption DEF Look, Types, TableTypes, external, delivery
<1>3. CASE DOMAIN op[p].rows = {}
  BY <1>2, <1>3, LeaveTypes DEF Look, Types
<1>4. CASE DOMAIN op[p].rows # {}
  <2>1. m \in Match /\ skip \in RowSets /\ object[m] \in Object \cup {None}
    BY <1>4, Called, Picks, Shrunk DEF Types, TableTypes
  <2>2. CASE op' = [op EXCEPT ![p].at = "write", ![p].saw = object[m]]
    <3>1. [o EXCEPT !.at = "write", !.saw = object[m]] \in Ops
      BY <1>1, <2>1, Changed, NothingYet, ZenonT(40) DEF Places
    <3>2. op' = [op EXCEPT ![p] = [o EXCEPT !.at = "write", !.saw = object[m]]]
      BY <1>1, <2>2 DEF Types, OpTypes
    <3> QED
      BY <1>2, <1>4, <3>1, <3>2, GotoTypes DEF Look, Types
  <2>3. CASE op' = [op EXCEPT ![p].rows = skip]
    <3>1. [o EXCEPT !.rows = skip] \in Ops
      BY <1>1, <2>1, Changed, NothingYet DEF Places
    <3>2. op' = [op EXCEPT ![p] = [o EXCEPT !.rows = skip]]
      BY <1>1, <2>3 DEF Types, OpTypes
    <3> QED
      BY <1>2, <1>4, <3>1, <3>2, GotoTypes DEF Look, Types
  <2> QED
    BY <1>4, <2>2, <2>3 DEF Look
<1> QED
  BY <1>3, <1>4

LEMMA RewriteTypes ==
  ASSUME Types, NEW p \in Process, op[p] # None, DOMAIN op[p].rows # {}, Rewrite(p)
  PROVE  Types'
<1> DEFINE m == Max(DOMAIN op[p].rows)
           left == Restrict(op[p].rows, DOMAIN op[p].rows \ {m})
<1>1. PICK o \in Ops : o = op[p]
  BY Called
<1>2. m \in Match /\ left \in RowSets
  BY Called, Picks, Shrunk
<1>3. [o EXCEPT !.at = "look", !.saw = None, !.rows = left] \in Ops
  BY <1>1, <1>2, Changed, NothingYet DEF Places
<1>4. op' = [op EXCEPT ![p] = [o EXCEPT !.at = "look", !.saw = None, !.rows = left]]
  BY <1>1 DEF Rewrite, Types, OpTypes
<1>5. TableTypes'
  BY <1>2, ReissueTypes DEF Rewrite, Types, TableTypes, external, delivery
<1> QED
  BY <1>3, <1>4, <1>5, GotoTypes DEF Rewrite, Types

LEMMA CollectTypes ==
  ASSUME Types, NEW p \in Process, op[p] # None, Collect(p), BatchOf(op[p]) \in Batch
  PROVE  Types'
<1> DEFINE b == BatchOf(op[p])
           rows == [m \in RowsOf(b) |-> row[m]]
<1>1. PICK o \in Ops : o = op[p]
  BY Called
<1>2. TableTypes'
  BY DEF Collect, Types, TableTypes, external, delivery
<1>3. CASE Leave(p, "open")
  BY <1>2, <1>3, LeaveTypes DEF Types
<1>4. CASE /\ op' = [op EXCEPT ![p].at = "read", ![p].saw = anchored[b], ![p].rows = rows]
           /\ UNCHANGED task
  <2>1. rows \in [RowsOf(b) -> Row] /\ RowsOf(b) \in SUBSET Match
    BY DEF RowsOf, Types, TableTypes
  <2>2. rows \in RowSets /\ anchored[b] \in Receipts \cup {None}
    BY <2>1 DEF RowSets, Types, TableTypes
  <2>3. [o EXCEPT !.at = "read", !.saw = anchored[b], !.rows = rows] \in Ops
    BY <1>1, <2>2, Changed, NothingYet DEF Places
  <2>4. op' = [op EXCEPT ![p] = [o EXCEPT !.at = "read", !.saw = anchored[b], !.rows = rows]]
    BY <1>1, <1>4 DEF Types, OpTypes
  <2> QED
    BY <1>2, <1>4, <2>3, <2>4, GotoTypes DEF Types
<1> QED
  BY <1>3, <1>4 DEF Collect

LEMMA SelectTypes ==
  ASSUME Types, NEW p \in Process, op[p] # None, SelectObjects(p)
  PROVE  Types'
<1> DEFINE S == {n \in Match : row[n] # None /\ row[n].key}
           rows == [m \in S |-> row[m]]
<1>1. PICK o \in Ops : o = op[p]
  BY Called
<1>2. rows \in [S -> Row] /\ S \in SUBSET Match
  BY DEF Types, TableTypes
<1>3. rows \in RowSets
  BY <1>2 DEF RowSets
<1>4. [o EXCEPT !.at = "look", !.rows = rows] \in Ops
  BY <1>1, <1>3, Changed, NothingYet DEF Places
<1>5. op' = [op EXCEPT ![p] = [o EXCEPT !.at = "look", !.rows = rows]]
  BY <1>1 DEF SelectObjects, Types, OpTypes
<1>6. TableTypes'
  BY DEF SelectObjects, Types, TableTypes, external, delivery
<1> QED
  BY <1>4, <1>5, <1>6, GotoTypes DEF SelectObjects, Types

---------------------------------------------------------------------------
(* The inductive invariant.  What verifies is a match whose row the batch  *)
(* matcher wrote in full: an event alone never gives a row its fills.      *)

Known == {m \in Match : row[m] # None /\ row[m].full}
KnownOf(b) == {m \in Known : MatchBatch[m] = b}
Good(b, receipt) == AllSound(receipt) /\ AllSalted(receipt) /\ KnownOf(b) \subseteq DOMAIN receipt
Covered(m) == m \in Known /\ (RequireAnchor => Range(anchors[MatchBatch[m]]) # {})
Kept(o, m) == (Signed(o) <=> Signed(first[m])) /\ (Salted(o) <=> Salted(first[m]))

(* Rows of settled matches, objects, anchors: the state between handlers.  *)
RowsBehind == \A m \in Match : row[m] # None /\ row[m].status = "SETTLED" => chain[m] = "SETTLED"
Evidence == \A m \in Match : Kept(object[m], m)
Anchored == \A b \in Batch : /\ \A receipt \in Range(anchors[b]) : Good(b, receipt)
                             /\ anchored[b] # None => anchored[b] \in Range(anchors[b])
SettledCovered == \A m \in Match : chain[m] = "SETTLED" => Covered(m)
Facts == RowsBehind /\ Evidence /\ Anchored /\ SettledCovered

(* What a handler has already made sure of.                                *)
Settling(p) ==
  /\ op[p].of \in Match
  /\ op[p].at # "start" => op[p].of \in Known
  /\ op[p].at = "read" /\ op[p].saw # None =>
       op[p].saw \in Range(anchors[MatchBatch[op[p].of]])
  /\ op[p].at = "send" => Covered(op[p].of)
  /\ op[p].at = "save" => chain[op[p].of] = "SETTLED"
Anchoring(p) ==
  /\ op[p].of \in Batch
  /\ op[p].at = "read" /\ ~op[p].short =>
       KnownOf(op[p].of) \subseteq DOMAIN op[p].rows \cup DOMAIN op[p].got
  /\ op[p].at = "send" => Good(op[p].of, op[p].got)
  /\ op[p].at = "save" => op[p].got \in Range(anchors[op[p].of])
Rewriting(p) ==
  op[p].at = "write" => /\ DOMAIN op[p].rows # {} /\ op[p].saw \in {"inputs", "bare"}
                        /\ Kept(op[p].saw, Max(DOMAIN op[p].rows))
Sure(p) ==
  op[p] # None => /\ op[p].kind = "settle" => Settling(p)
                  /\ op[p].kind = "anchor" => Anchoring(p)
                  /\ op[p].kind = "privacy" => Rewriting(p)
AllSure == \A p \in Process : Sure(p)

IInv == Types /\ Facts /\ AllSure

(* The world only moves forward under a handler.                           *)
Forward ==
  /\ first' = first /\ Known' = Known
  /\ \A b \in Batch : Range(anchors[b]) \subseteq Range(anchors'[b])
  /\ \A m \in Match : chain[m] = "SETTLED" => chain'[m] = "SETTLED"

LEMMA BatchTyped == \A m \in Match : MatchBatch[m] \in Batch
BY AuditAssumption

LEMMA Undisturbed ==
  ASSUME IInv, Forward, NEW p \in Process, Sure(p), op'[p] = op[p]
  PROVE  Sure(p)'
<1> SUFFICES ASSUME op[p] # None
             PROVE  Sure(p)'
  BY DEF Sure
<1>1. CASE op[p].kind = "settle"
  <2>1. Settling(p)
    BY <1>1 DEF Sure
  <2>2. Settling(p)'
    BY <2>1, BatchTyped DEF Settling, Forward, Covered
  <2> QED
    BY <1>1, <2>2 DEF Sure
<1>2. CASE op[p].kind = "anchor"
  <2>1. Anchoring(p)
    BY <1>2 DEF Sure
  <2>2. Anchoring(p)'
    BY <2>1 DEF Anchoring, Forward, Good, KnownOf, AllSound, AllSalted
  <2> QED
    BY <1>2, <2>2 DEF Sure
<1>3. CASE op[p].kind = "privacy"
  <2>1. Rewriting(p)
    BY <1>3 DEF Sure
  <2>2. Rewriting(p)'
    BY <2>1 DEF Rewriting, Forward, Kept
  <2> QED
    BY <1>3, <2>2 DEF Sure
<1>4. CASE op[p].kind \notin {"settle", "anchor", "privacy"}
  BY <1>4 DEF Sure
<1> QED
  BY <1>1, <1>2, <1>3, <1>4

(* A step of one process, seen from the others.                            *)
LEMMA OneMoves ==
  ASSUME IInv, Forward, NEW p \in Process, NEW o, op' = [op EXCEPT ![p] = o], Sure(p)'
  PROVE  AllSure'
<1> SUFFICES ASSUME NEW q \in Process
             PROVE  Sure(q)'
  BY DEF AllSure
<1>1. CASE q = p
  BY <1>1
<1>2. CASE q # p
  BY <1>2, Undisturbed DEF IInv, AllSure, Types, OpTypes
<1> QED
  BY <1>1, <1>2

LEMMA NoneMoves ==
  ASSUME IInv, Forward, UNCHANGED op
  PROVE  AllSure'
BY Undisturbed DEF IInv, AllSure

LEMMA Leaves ==
  ASSUME IInv, Forward, NEW p \in Process, op' = [op EXCEPT ![p] = None]
  PROVE  AllSure'
<1>1. Sure(p)'
  BY DEF Sure, IInv, Types, OpTypes
<1> QED
  BY <1>1, OneMoves

(* Most steps of a handler read.                                           *)
LEMMA Reads ==
  ASSUME IInv, UNCHANGED <<object, first, row, anchored, external>>
  PROVE  Facts' /\ Forward
<1>1. Known' = Known
  BY DEF Known
<1>2. Forward
  BY <1>1 DEF Forward, external
<1>3. RowsBehind' /\ Evidence' /\ SettledCovered'
  BY <1>1 DEF IInv, Facts, RowsBehind, Evidence, SettledCovered, Kept, Covered, external
<1>4. Anchored'
  BY <1>1 DEF IInv, Facts, Anchored, Good, KnownOf, AllSound, AllSalted, external
<1> QED
  BY <1>2, <1>3, <1>4 DEF Facts

LEMMA Begins ==
  ASSUME IInv, Forward, NEW p \in Process, NEW k \in Key, NEW key \in Key \cup {None},
         Enter(p, Started(k, key))
  PROVE  AllSure'
<1>1. PICK o : o = Started(k, key)
  OBVIOUS
<1>2. op' = [op EXCEPT ![p] = o] /\ op'[p] = o
  BY <1>1 DEF Enter, IInv, Types, OpTypes
<1>3. o.at = "start" /\ o.of = k.of /\ (o.kind = "settle" => k.of \in Match)
      /\ (o.kind = "anchor" => k.of \in Batch)
  BY <1>1 DEF Started, Key
<1>4. Sure(p)'
  BY <1>2, <1>3 DEF Sure, Settling, Anchoring, Rewriting
<1> QED
  BY <1>2, <1>4, OneMoves

---------------------------------------------------------------------------
(* The steps that begin and end handlers.                                  *)

LEMMA RetryInv ==
  ASSUME IInv, NEW k \in Key, Retry(k)
  PROVE  IInv'
<1>1. Facts' /\ Forward
  BY Reads DEF Retry
<1>2. AllSure'
  BY <1>1, Begins DEF Retry, Process
<1>3. OpTypes'
  BY EnterTypes DEF Retry, IInv, Process
<1>4. TaskTypes'
  <2>1. task[k] \in Tasks
    BY DEF IInv, Types, TaskTypes
  <2>2. task[k].tries + 1 \in 0 .. MaxTries
    BY <2>1, AuditAssumption DEF Tasks, Retry, Runnable
  <2>3. task' = [task EXCEPT ![k] = [status |-> "running", tries |-> task[k].tries + 1]]
    BY DEF Retry
  <2> QED
    BY <2>2, <2>3, RunTypes DEF IInv
<1>5. TableTypes'
  BY DEF Retry, IInv, Types, TableTypes, external, delivery
<1> QED
  BY <1>1, <1>2, <1>3, <1>4, <1>5 DEF IInv, Types

LEMMA SettleInv ==
  ASSUME IInv, NEW m \in Match, Settle(m)
  PROVE  IInv'
<1>1. PICK k \in Key : k = K("settle", m)
  BY DEF K, Key
<1>2. Facts' /\ Forward
  BY Reads DEF Settle
<1>3. AllSure'
  BY <1>1, <1>2, Begins DEF Settle, Process
<1>4. OpTypes'
  BY <1>1, EnterTypes DEF Settle, IInv, Process
<1>5. TaskTypes'
  <2>1. 1 \in 0 .. MaxTries
    BY AuditAssumption
  <2> QED
    BY <1>1, <2>1, RunTypes DEF Settle, IInv
<1>6. TableTypes'
  BY DEF Settle, IInv, Types, TableTypes, external, delivery
<1> QED
  BY <1>2, <1>3, <1>4, <1>5, <1>6 DEF IInv, Types

LEMMA RepublishInv ==
  ASSUME IInv, NEW b \in Batch, Republish(b)
  PROVE  IInv'
<1>1. PICK k \in Key : k = K("anchor", b)
  BY DEF K, Key
<1>2. Facts' /\ Forward
  BY Reads DEF Republish
<1>3. AllSure'
  BY <1>1, <1>2, Begins DEF Republish, Process
<1>4. OpTypes'
  BY <1>1, EnterTypes DEF Republish, IInv, Process
<1>5. TaskTypes'
  BY DEF Republish, IInv, Types, TaskTypes
<1>6. TableTypes'
  BY AuditAssumption DEF Republish, IInv, Types, TableTypes, external, delivery
<1> QED
  BY <1>2, <1>3, <1>4, <1>5, <1>6 DEF IInv, Types

LEMMA ThrowInv ==
  ASSUME IInv, NEW p \in Process, Throw(p)
  PROVE  IInv'
<1>1. Facts' /\ Forward
  BY Reads DEF Throw
<1>2. AllSure'
  BY <1>1, Leaves DEF Throw, Leave
<1>3. TaskTypes' /\ OpTypes'
  BY LeaveTypes DEF Throw, IInv
<1>4. TableTypes'
  BY AuditAssumption DEF Throw, IInv, Types, TableTypes, external, delivery
<1> QED
  BY <1>1, <1>2, <1>3, <1>4 DEF IInv, Types

LEMMA CrashInv ==
  ASSUME IInv, Crash
  PROVE  IInv'
<1>1. Facts' /\ Forward
  BY Reads DEF Crash
<1>2. AllSure' /\ OpTypes'
  BY DEF Crash, AllSure, Sure, OpTypes
<1>3. TaskTypes'
  <2> SUFFICES ASSUME NEW k \in Key
               PROVE  task'[k] \in Tasks
    BY DEF Crash, TaskTypes
  <2>1. task[k] \in Tasks
    BY DEF IInv, Types, TaskTypes
  <2>2. [task[k] EXCEPT !.status = "open"] \in Tasks
    BY <2>1 DEF Tasks
  <2> QED
    BY <2>1, <2>2 DEF Crash
<1>4. TableTypes'
  BY AuditAssumption DEF Crash, IInv, Types, TableTypes, external, delivery
<1> QED
  BY <1>1, <1>2, <1>3, <1>4 DEF IInv, Types

LEMMA ReconcileInv ==
  ASSUME IInv, Reconcile
  PROVE  IInv'
<1>1. Facts' /\ Forward
  BY Reads DEF Reconcile
<1>2. AllSure' /\ OpTypes'
  BY <1>1, NoneMoves DEF Reconcile, IInv, Types, OpTypes
<1>3. TaskTypes'
  <2>1. [status |-> "open", tries |-> 0] \in Tasks
    BY AuditAssumption DEF Tasks
  <2> QED
    BY <2>1 DEF Reconcile, IInv, Types, TaskTypes
<1>4. TableTypes'
  <2>1. faults' \in 0 .. MaxFaults
    BY AuditAssumption DEF Reconcile, IInv, Types, TableTypes
  <2> QED
    BY <2>1 DEF Reconcile, IInv, Types, TableTypes, external, delivery
<1> QED
  BY <1>1, <1>2, <1>3, <1>4 DEF IInv, Types

---------------------------------------------------------------------------
(* The steps of the settlement and of the anchoring that only read.        *)

LEMMA ReadyInv ==
  ASSUME IInv, NEW p \in Process, op[p] # None, Ready(p)
  PROVE  IInv'
<1> DEFINE m == op[p].of
           next == IF RequireAnchor THEN "anchor" ELSE "send"
<1>1. Facts' /\ Forward
  BY Reads DEF Ready
<1>2. TableTypes'
  BY DEF Ready, IInv, Types, TableTypes, external, delivery
<1>3. CASE Leave(p, "open")
  BY <1>1, <1>2, <1>3, Leaves, LeaveTypes DEF Leave, IInv, Types
<1>4. CASE Goto(p, next) /\ UNCHANGED task /\ row[m] # None /\ Sound(object[m], row[m])
  <2>1. PICK o \in Ops : o = op[p]
    BY Called DEF IInv
  <2>2. [o EXCEPT !.at = next] \in Ops
    BY <2>1, Changed, NothingYet DEF Places
  <2>3. op' = [op EXCEPT ![p] = [o EXCEPT !.at = next]]
    BY <1>4, <2>1 DEF Goto, IInv, Types, OpTypes
  <2>4. m \in Known
    <3>1. Settling(p)
      BY DEF Ready, IInv, AllSure, Sure
    <3> QED
      BY <1>4, <3>1 DEF Settling, Sound, Known
  <2>5. op'[p].kind = "settle" /\ op'[p].of = m /\ op'[p].at = next
    BY <2>1, <2>3 DEF Ready, IInv, Types, OpTypes, Ops
  <2>6. Sure(p)'
    <3>1. m \in Match /\ m \in Known'
      BY <1>1, <2>4 DEF Forward, Known
    <3>2. next # "start" /\ next # "read" /\ next # "save" /\ (next = "send" => ~RequireAnchor)
      BY AuditAssumption
    <3> QED
      BY <2>5, <3>1, <3>2 DEF Sure, Settling, Covered
  <2> QED
    BY <1>1, <1>2, <1>4, <2>2, <2>3, <2>6, OneMoves, GotoTypes DEF IInv, Types
<1> QED
  BY <1>3, <1>4 DEF Ready

LEMMA CollectInv ==
  ASSUME IInv, NEW p \in Process, op[p] # None, Collect(p)
  PROVE  IInv'
<1>0. PICK b, rows : b = BatchOf(op[p]) /\ rows = [m \in RowsOf(b) |-> row[m]]
  OBVIOUS
<1>1. Facts' /\ Forward
  BY Reads DEF Collect
<1>2. b \in Batch /\ (op[p].kind = "settle" => Settling(p)) /\ (op[p].kind = "anchor" => Anchoring(p))
  BY <1>0, BatchTyped DEF Collect, IInv, AllSure, Sure, Settling, Anchoring, BatchOf
<1>3. Types'
  BY <1>0, <1>2, CollectTypes DEF IInv
<1>4. CASE Leave(p, "open")
  BY <1>1, <1>3, <1>4, Leaves DEF Leave, IInv
<1>5. CASE op' = [op EXCEPT ![p].at = "read", ![p].saw = anchored[b], ![p].rows = rows]
  <2>1. PICK o \in Ops : o = op[p]
    BY Called DEF IInv
  <2> DEFINE n == [o EXCEPT !.at = "read", !.saw = anchored[b], !.rows = rows]
  <2>2. op' = [op EXCEPT ![p] = n] /\ op'[p] = n
    BY <1>5, <2>1 DEF IInv, Types, OpTypes
  <2>3. n.kind = o.kind /\ n.of = o.of /\ n.at = "read" /\ n.saw = anchored[b] /\ n.rows = rows
    BY DEF Ops
  <2>4. ASSUME op[p].kind = "settle"
        PROVE  Sure(p)'
    <3>1. o.of \in Match /\ o.of \in Known /\ b = MatchBatch[o.of]
      BY <1>0, <1>2, <2>1, <2>4 DEF Settling, Collect, BatchOf
    <3>2. anchored[b] # None => anchored[b] \in Range(anchors[b])
      BY <1>2 DEF IInv, Facts, Anchored
    <3>3. op'[p].of = o.of /\ op'[p].at = "read" /\ op'[p].saw = anchored[b]
      BY <2>2, <2>3
    <3>4. o.of \in Known' /\ (anchored[b] # None => anchored[b] \in Range(anchors'[b]))
      BY <1>1, <1>2, <3>1, <3>2 DEF Forward
    <3>5. Settling(p)'
      BY <3>1, <3>3, <3>4 DEF Settling
    <3> QED
      BY <2>1, <2>2, <2>3, <2>4, <3>5 DEF Sure
  <2>5. ASSUME op[p].kind = "anchor"
        PROVE  Sure(p)'
    <3>1. o.of = b
      BY <1>0, <2>1, <2>5 DEF BatchOf
    <3>2. KnownOf(b) \subseteq DOMAIN rows
      BY <1>0 DEF KnownOf, Known, RowsOf
    <3>3. KnownOf(b)' = KnownOf(b)
      BY <1>1 DEF KnownOf, Forward
    <3>4. op'[p].of = b /\ op'[p].at = "read" /\ op'[p].rows = rows
      BY <2>2, <2>3, <3>1
    <3>5. Anchoring(p)'
      BY <1>2, <3>2, <3>3, <3>4 DEF Anchoring
    <3> QED
      BY <2>1, <2>2, <2>3, <2>5, <3>5 DEF Sure
  <2>6. Sure(p)'
    BY <2>4, <2>5 DEF Collect
  <2> QED
    BY <1>1, <1>3, <2>2, <2>6, OneMoves DEF IInv
<1> QED
  BY <1>0, <1>4, <1>5 DEF Collect

(* A receipt is judged when its last object is in; it may be sent only if  *)
(* nothing was short, which for an anchor means that it covers the batch.  *)
LEMMA JudgedSure ==
  ASSUME IInv, Forward, NEW p \in Process, op[p] # None, op[p].at = "read",
         NEW got \in Receipts, NEW short \in BOOLEAN,
         op[p].kind = "anchor" /\ ~short => KnownOf(op[p].of) \subseteq DOMAIN got,
         Judged(p, got, short)
  PROVE  AllSure'
<1>1. CASE Leave(p, "open")
  BY <1>1, Leaves DEF Leave
<1>2. CASE /\ \/ op[p].kind = "anchor" /\ Anchorable(got, short)
              \/ op[p].kind = "settle" /\ AnchorMatches(op[p].saw, got)
           /\ op' = [op EXCEPT ![p].at = "send", ![p].rows = <<>>, ![p].got = got]
  <2>1. PICK o \in Ops : o = op[p]
    BY Called DEF IInv
  <2> DEFINE n == [o EXCEPT !.at = "send", !.rows = <<>>, !.got = got]
  <2>2. op' = [op EXCEPT ![p] = n] /\ op'[p] = n
    BY <1>2, <2>1 DEF IInv, Types, OpTypes
  <2>3. op'[p].kind = o.kind /\ op'[p].of = o.of /\ op'[p].at = "send" /\ op'[p].got = got
    <3>1. n.kind = o.kind /\ n.of = o.of /\ n.at = "send" /\ n.got = got
      BY DEF Ops
    <3> QED
      BY <2>2, <3>1
  <2>4. ASSUME o.kind = "settle"
        PROVE  Sure(p)'
    <3>1. Settling(p) /\ o.saw # None
      BY <1>2, <2>1, <2>4 DEF IInv, AllSure, Sure, AnchorMatches
    <3>2. o.of \in Match /\ o.of \in Known /\ o.saw \in Range(anchors[MatchBatch[o.of]])
      BY <2>1, <3>1 DEF Settling
    <3>3. o.of \in Known' /\ Range(anchors'[MatchBatch[o.of]]) # {}
      BY <3>2, BatchTyped DEF Forward
    <3>4. Settling(p)'
      BY <2>3, <3>2, <3>3 DEF Settling, Covered
    <3> QED
      BY <2>3, <2>4, <3>4 DEF Sure
  <2>5. ASSUME o.kind = "anchor"
        PROVE  Sure(p)'
    <3>1. o.of \in Batch
      BY <2>1, <2>5 DEF IInv, AllSure, Sure, Anchoring
    <3>2. KnownOf(o.of)' = KnownOf(o.of)
      BY DEF KnownOf, Forward
    <3>3. AllSound(got) /\ AllSalted(got) /\ KnownOf(o.of) \subseteq DOMAIN got
      BY <1>2, <2>1, <2>5 DEF Anchorable
    <3>4. Good(o.of, got)'
      BY <3>2, <3>3 DEF Good
    <3>5. Anchoring(p)'
      BY <2>3, <3>1, <3>4 DEF Anchoring
    <3> QED
      BY <2>3, <2>5, <3>5 DEF Sure
  <2> QED
    BY <1>2, <2>1, <2>2, <2>4, <2>5, OneMoves
<1> QED
  BY <1>1, <1>2 DEF Judged

LEMMA ReadInv ==
  ASSUME IInv, NEW p \in Process, op[p] # None, ReadObject(p)
  PROVE  IInv'
<1> DEFINE m == Min(DOMAIN op[p].rows)
           r == op[p].rows[m]
           left == Restrict(op[p].rows, DOMAIN op[p].rows \ {m})
           Take(got, short) ==
             IF DOMAIN left = {} THEN Judged(p, got, short)
             ELSE /\ op' = [op EXCEPT ![p].rows = left, ![p].got = got, ![p].short = short]
                  /\ UNCHANGED task
           more == Added(op[p].got, m, Proof(object[m], r))
<1>1. Facts' /\ Forward
  BY Reads DEF ReadObject
<1>2. TaskTypes' /\ OpTypes'
  BY ReadTypes DEF IInv
<1>3. TableTypes'
  <2>1. faults' = faults \/ (faults < MaxFaults /\ faults' = faults + 1)
    BY DEF ReadObject
  <2>2. faults' \in 0 .. MaxFaults
    BY <2>1, AuditAssumption DEF IInv, Types, TableTypes
  <2>3. UNCHANGED <<object, first, row, anchored, external, delivery>>
    BY DEF ReadObject
  <2> QED
    BY <2>2, <2>3 DEF IInv, Types, TableTypes, external, delivery
<1>4. PICK o \in Ops : o = op[p]
  BY Called DEF IInv
<1>5. m \in DOMAIN op[p].rows /\ m \in Match /\ r \in Row /\ DOMAIN left = DOMAIN op[p].rows \ {m}
  BY Called, Picks, Shrunk DEF IInv, ReadObject
<1>6. more \in Receipts /\ DOMAIN more = DOMAIN op[p].got \cup {m}
  <2>1. Proof(object[m], r) \in ProofSet
    BY <1>5, ProofTyped DEF IInv, Types, TableTypes
  <2> QED
    BY <1>5, <2>1, Called, Grown DEF IInv
<1>7. ASSUME NEW got \in Receipts, NEW short \in BOOLEAN, Take(got, short),
             op[p].kind = "anchor" /\ ~short => KnownOf(op[p].of) \subseteq DOMAIN left \cup DOMAIN got
      PROVE  AllSure'
  <2>1. CASE DOMAIN left = {}
    <3>1. Judged(p, got, short)
      BY <1>7, <2>1
    <3>2. op[p].kind = "anchor" /\ ~short => KnownOf(op[p].of) \subseteq DOMAIN got
      BY <1>7, <2>1
    <3>3. op[p].at = "read"
      BY DEF ReadObject
    <3> QED
      BY <1>1, <3>1, <3>2, <3>3, JudgedSure
  <2>2. CASE DOMAIN left # {}
    <3>1. PICK s : s = left
      OBVIOUS
    <3> DEFINE n == [o EXCEPT !.rows = s, !.got = got, !.short = short]
    <3>2. op' = [op EXCEPT ![p] = n] /\ op'[p] = n
      BY <1>4, <1>7, <2>2, <3>1 DEF IInv, Types, OpTypes
    <3>3. /\ op'[p].kind = o.kind /\ op'[p].of = o.of /\ op'[p].at = o.at /\ op'[p].saw = o.saw
          /\ op'[p].rows = s /\ op'[p].got = got /\ op'[p].short = short /\ o.at = "read"
      <4>1. /\ n.kind = o.kind /\ n.of = o.of /\ n.at = o.at /\ n.saw = o.saw
            /\ n.rows = s /\ n.got = got /\ n.short = short
        BY DEF Ops
      <4>2. o.at = "read"
        BY <1>4 DEF ReadObject
      <4> QED
        BY <3>2, <4>1, <4>2
    <3>4. ASSUME o.kind = "settle"
          PROVE  Sure(p)'
      <4>1. Settling(p)
        BY <1>4, <3>4 DEF IInv, AllSure, Sure
      <4>2. Settling(p)'
        BY <1>1, <1>4, <3>3, <4>1, BatchTyped DEF Settling, Forward
      <4> QED
        BY <3>3, <3>4, <4>2 DEF Sure
    <3>5. ASSUME o.kind = "anchor"
          PROVE  Sure(p)'
      <4>1. Anchoring(p)
        BY <1>4, <3>5 DEF IInv, AllSure, Sure
      <4>2. KnownOf(o.of)' = KnownOf(o.of)
        BY <1>1 DEF KnownOf, Forward
      <4>3. ~short => KnownOf(o.of) \subseteq DOMAIN s \cup DOMAIN got
        BY <1>4, <1>7, <3>1, <3>5
      <4>4. Anchoring(p)'
        BY <1>4, <3>3, <4>1, <4>2, <4>3 DEF Anchoring
      <4> QED
        BY <3>3, <3>5, <4>4 DEF Sure
    <3>6. ASSUME o.kind \notin {"settle", "anchor"}
          PROVE  Sure(p)'
      BY <3>3, <3>6 DEF Sure, Rewriting
    <3> QED
      BY <1>1, <3>2, <3>4, <3>5, <3>6, OneMoves
  <2> QED
    BY <2>1, <2>2
<1>8. op[p].kind = "anchor" /\ ~op[p].short =>
        KnownOf(op[p].of) \subseteq DOMAIN op[p].rows \cup DOMAIN op[p].got
  BY DEF IInv, AllSure, Sure, Anchoring, ReadObject
<1>9. Take(op[p].got, TRUE) \/ Take(more, op[p].short)
  BY DEF ReadObject
<1>10. op[p].got \in Receipts /\ op[p].short \in BOOLEAN
  BY Called DEF IInv
<1>11. AllSure'
  <2>1. CASE Take(op[p].got, TRUE)
    BY <1>7, <1>10, <2>1
  <2>2. CASE Take(more, op[p].short)
    <3>1. op[p].kind = "anchor" /\ ~op[p].short =>
            KnownOf(op[p].of) \subseteq DOMAIN left \cup DOMAIN more
      BY <1>5, <1>6, <1>8
    <3> QED
      BY <1>6, <1>7, <1>10, <2>2, <3>1
  <2> QED
    BY <1>9, <2>1, <2>2
<1> QED
  BY <1>1, <1>2, <1>3, <1>11 DEF IInv, Types

---------------------------------------------------------------------------
(* The transactions and the rows they are saved in.                        *)

LEMMA AtOf ==
  ASSUME Types, NEW p \in Process, op[p] # None, NEW at \in Places, Goto(p, at)
  PROVE  /\ OpTypes' /\ op' = [op EXCEPT ![p] = op'[p]]
         /\ op'[p].kind = op[p].kind /\ op'[p].of = op[p].of
         /\ op'[p].at = at /\ op'[p].got = op[p].got
<1>1. PICK o \in Ops : o = op[p]
  BY Called
<1> DEFINE n == [o EXCEPT !.at = at]
<1>2. n.kind = o.kind /\ n.of = o.of /\ n.at = at /\ n.got = o.got
  BY DEF Ops
<1>3. n \in Ops
  BY <1>1, Changed, NothingYet
<1>4. op' = [op EXCEPT ![p] = n] /\ op'[p] = n
  BY <1>1 DEF Goto, Types, OpTypes
<1> QED
  BY <1>1, <1>2, <1>3, <1>4 DEF Types, OpTypes

LEMMA SendSettleInv ==
  ASSUME IInv, NEW p \in Process, op[p] # None, SendSettle(p)
  PROVE  IInv'
<1>1. PICK m : m = op[p].of
  OBVIOUS
<1>2. m \in Match /\ Covered(m) /\ m \in Known
  BY <1>1 DEF SendSettle, IInv, AllSure, Sure, Settling, Covered
<1>3. CASE Leave(p, "open") /\ UNCHANGED chain
  <2>1. UNCHANGED <<object, first, row, anchored, external>>
    BY <1>3 DEF SendSettle, external
  <2>2. Facts' /\ Forward
    BY <2>1, Reads
  <2>3. TableTypes'
    BY <2>1 DEF SendSettle, IInv, Types, TableTypes, external, delivery
  <2> QED
    BY <1>3, <2>2, <2>3, Leaves, LeaveTypes DEF Leave, IInv, Types
<1>4. CASE chain' = [chain EXCEPT ![m] = "SETTLED"] /\ Goto(p, "save") /\ UNCHANGED task
  <2>1. UNCHANGED <<object, first, row, anchored, anchors, delivery, faults>>
    BY DEF SendSettle
  <2>2. chain' \in [Match -> {"PENDING", "SETTLED"}] /\ chain'[m] = "SETTLED"
        /\ \A n \in Match : n # m => chain'[n] = chain[n]
    BY <1>2, <1>4 DEF IInv, Types, TableTypes
  <2>3. Known' = Known /\ Forward
    BY <2>1, <2>2 DEF Known, Forward
  <2>4. Facts'
    <3>1. RowsBehind' /\ Evidence'
      BY <2>1, <2>2 DEF IInv, Facts, RowsBehind, Evidence, Kept
    <3>2. SettledCovered'
      BY <1>2, <2>1, <2>2, <2>3 DEF IInv, Facts, SettledCovered, Covered
    <3>3. Anchored'
      BY <2>1, <2>3 DEF IInv, Facts, Anchored, Good, KnownOf, AllSound, AllSalted
    <3> QED
      BY <3>1, <3>2, <3>3 DEF Facts
  <2>5. /\ OpTypes' /\ op' = [op EXCEPT ![p] = op'[p]] /\ op'[p].kind = "settle"
        /\ op'[p].of = m /\ op'[p].at = "save"
    BY <1>1, <1>4, AtOf DEF SendSettle, IInv, Places
  <2>6. Sure(p)'
    BY <1>2, <2>2, <2>3, <2>5 DEF Sure, Settling
  <2>7. TableTypes' /\ TaskTypes'
    BY <1>4, <2>1, <2>2 DEF IInv, Types, TableTypes, TaskTypes, delivery
  <2> QED
    BY <2>3, <2>4, <2>5, <2>6, <2>7, OneMoves DEF IInv, Types
<1> QED
  BY <1>1, <1>3, <1>4 DEF SendSettle

LEMMA SendAnchorInv ==
  ASSUME IInv, NEW p \in Process, op[p] # None, SendAnchor(p)
  PROVE  IInv'
<1>1. PICK b, got : b = op[p].of /\ got = op[p].got
  OBVIOUS
<1>2. b \in Batch /\ Good(b, got) /\ got \in Receipts
  BY <1>1, Called DEF SendAnchor, IInv, AllSure, Sure, Anchoring
<1>3. UNCHANGED <<object, first, row, anchored, chain, delivery, task, faults>>
  BY DEF SendAnchor
<1>4. anchors' = [anchors EXCEPT ![b] = Append(anchors[b], got)] /\ anchors[b] \in Seq(Receipts)
  BY <1>1, <1>2 DEF SendAnchor, IInv, Types, TableTypes
<1>5. /\ anchors' \in [Batch -> Seq(Receipts)]
      /\ \A c \in Batch : Len(anchors[c]) <= Len(anchors'[c])
  <2>1. Append(anchors[b], got) \in Seq(Receipts) /\ Len(Append(anchors[b], got)) = Len(anchors[b]) + 1
    BY <1>2, <1>4
  <2>2. \A c \in Batch : anchors[c] \in Seq(Receipts) /\ Len(anchors[c]) \in Nat
    BY DEF IInv, Types, TableTypes
  <2>3. PICK s \in Seq(Receipts) : s = Append(anchors[b], got) /\ Len(s) = Len(anchors[b]) + 1
    BY <2>1
  <2>4. anchors' = [anchors EXCEPT ![b] = s] /\ anchors \in [Batch -> Seq(Receipts)]
    BY <1>4, <2>3 DEF IInv, Types, TableTypes
  <2>5. anchors' \in [Batch -> Seq(Receipts)] /\ anchors'[b] = s
        /\ \A c \in Batch : c # b => anchors'[c] = anchors[c]
    BY <1>2, <2>4
  <2> QED
    BY <1>2, <2>2, <2>3, <2>5
<1>6. Range(anchors'[b]) = Range(anchors[b]) \cup {got}
      /\ \A c \in Batch : c # b => anchors'[c] = anchors[c]
  <2>1. \A s \in Seq(Receipts) : Range(Append(s, got)) = Range(s) \cup {got}
    <3> TAKE s \in Seq(Receipts)
    <3>1. DOMAIN Append(s, got) = 1 .. Len(s) + 1 /\ DOMAIN s = 1 .. Len(s) /\ Len(s) \in Nat
          /\ \A i \in 1 .. Len(s) : Append(s, got)[i] = s[i]
          /\ Append(s, got)[Len(s) + 1] = got
      BY <1>2
    <3> QED
      BY <3>1 DEF Range
  <2> QED
    BY <1>2, <1>4, <2>1 DEF IInv, Types, TableTypes
<1>7. Known' = Known /\ Forward
  BY <1>3, <1>6 DEF Known, Forward
<1>8. Facts'
  <2>1. RowsBehind' /\ Evidence'
    BY <1>3 DEF IInv, Facts, RowsBehind, Evidence, Kept
  <2>2. SettledCovered'
    BY <1>3, <1>6, <1>7, BatchTyped DEF IInv, Facts, SettledCovered, Covered
  <2>3. Anchored'
    <3>1. \A c, receipt : Good(c, receipt) => Good(c, receipt)'
      BY <1>7 DEF Good, KnownOf, AllSound, AllSalted
    <3> QED
      BY <1>2, <1>3, <1>6, <3>1 DEF IInv, Facts, Anchored
  <2> QED
    BY <2>1, <2>2, <2>3 DEF Facts
<1>9. /\ OpTypes' /\ op' = [op EXCEPT ![p] = op'[p]] /\ op'[p].kind = "anchor"
      /\ op'[p].of = b /\ op'[p].at = "save" /\ op'[p].got = got
  BY <1>1, AtOf DEF SendAnchor, IInv, Places
<1>10. Sure(p)'
  BY <1>2, <1>6, <1>9 DEF Sure, Anchoring
<1>11. TableTypes' /\ TaskTypes'
  <2>1. \A c \in Batch : indexed[c] <= Len(anchors'[c])
    <3> TAKE c \in Batch
    <3>1. indexed[c] \in Nat /\ indexed[c] <= Len(anchors[c]) /\ Len(anchors[c]) \in Nat
          /\ Len(anchors'[c]) \in Nat
      BY <1>5 DEF IInv, Types, TableTypes
    <3> QED
      BY <1>5, <3>1
  <2> QED
    BY <1>3, <1>5, <2>1 DEF IInv, Types, TableTypes, TaskTypes, delivery
<1> QED
  BY <1>7, <1>8, <1>9, <1>10, <1>11, OneMoves DEF IInv, Types

LEMMA SaveAnchorInv ==
  ASSUME IInv, NEW p \in Process, op[p] # None, SaveAnchor(p)
  PROVE  IInv'
<1>1. PICK b, got : b = op[p].of /\ got = op[p].got
  OBVIOUS
<1>2. b \in Batch /\ got \in Range(anchors[b]) /\ got \in Receipts
  BY <1>1, Called DEF SaveAnchor, IInv, AllSure, Sure, Anchoring
<1>3. UNCHANGED <<object, first, row, external, delivery, faults>>
  BY DEF SaveAnchor
<1>4. anchored' = [anchored EXCEPT ![b] = got]
  BY <1>1 DEF SaveAnchor
<1>5. Known' = Known /\ Forward
  BY <1>3 DEF Known, Forward, external
<1>6. Facts'
  <2>1. RowsBehind' /\ Evidence' /\ SettledCovered'
    BY <1>3, <1>5 DEF IInv, Facts, RowsBehind, Evidence, Kept, SettledCovered, Covered, external
  <2>2. Anchored'
    <3>1. \A c, receipt : Good(c, receipt) => Good(c, receipt)'
      BY <1>5 DEF Good, KnownOf, AllSound, AllSalted
    <3> QED
      BY <1>2, <1>3, <1>4, <3>1 DEF IInv, Facts, Anchored, Types, TableTypes, external
  <2> QED
    BY <2>1, <2>2 DEF Facts
<1>7. TaskTypes' /\ OpTypes'
  BY LeaveTypes DEF SaveAnchor, IInv
<1>8. AllSure'
  BY <1>5, Leaves DEF SaveAnchor, Leave
<1>9. TableTypes'
  BY <1>2, <1>3, <1>4 DEF IInv, Types, TableTypes, external, delivery
<1> QED
  BY <1>6, <1>7, <1>8, <1>9 DEF IInv, Types

---------------------------------------------------------------------------
(* Rows: the settler, the repair of keys and the indexer all write them,   *)
(* and none gives a row its fills.                                         *)

LEMMA RowsWritten ==
  ASSUME IInv, UNCHANGED <<object, first, anchored, external>>,
         NEW R \in SUBSET Match, \A m \in Match : m \notin R => row'[m] = row[m],
         \A m \in R : row[m] # None => row'[m] # None /\ row'[m].full = row[m].full,
         \A m \in R : row[m] = None => row'[m] = None \/ row'[m].full = FALSE,
         \A m \in R : row'[m] # None /\ row'[m].status = "SETTLED" => chain[m] = "SETTLED"
  PROVE  Facts' /\ Forward
<1>1. Known' = Known
  BY DEF Known
<1>2. Forward
  BY <1>1 DEF Forward, external
<1>3. RowsBehind'
  BY DEF IInv, Facts, RowsBehind, external
<1>4. Evidence' /\ SettledCovered'
  BY <1>1 DEF IInv, Facts, Evidence, SettledCovered, Kept, Covered, external
<1>5. Anchored'
  BY <1>1 DEF IInv, Facts, Anchored, Good, KnownOf, AllSound, AllSalted, external
<1> QED
  BY <1>2, <1>3, <1>4, <1>5 DEF Facts

LEMMA LabelledRow ==
  ASSUME NEW r \in Row, NEW status \in {"PENDING", "SETTLED"}
  PROVE  /\ [r EXCEPT !.status = status] \in Row
         /\ [r EXCEPT !.status = status].full = r.full
         /\ [r EXCEPT !.status = status].status = status
BY DEF Row

LEMMA KeyedRow ==
  ASSUME NEW r \in Row
  PROVE  /\ [r EXCEPT !.key = TRUE] \in Row
         /\ [r EXCEPT !.key = TRUE].full = r.full
         /\ [r EXCEPT !.key = TRUE].status = r.status
BY DEF Row

(* The label of one match becomes what the chain says.                     *)
LEMMA Labelled ==
  ASSUME IInv, UNCHANGED <<object, first, anchored, external>>, NEW m \in Match, row[m] # None,
         NEW status \in {"PENDING", "SETTLED"}, status = chain[m],
         row' = [row EXCEPT ![m].status = status]
  PROVE  Facts' /\ Forward /\ row' \in [Match -> Row \cup {None}]
<1>1. PICK r \in Row : r = row[m]
  BY DEF IInv, Types, TableTypes
<1> DEFINE n == [r EXCEPT !.status = status]
<1>2. n \in Row /\ n.full = r.full /\ n.status = status
  BY LabelledRow
<1>3. n # None
  BY <1>2, AuditAssumption
<1>4. row' = [row EXCEPT ![m] = n] /\ row' \in [Match -> Row \cup {None}] /\ row'[m] = n
  BY <1>1, <1>2 DEF IInv, Types, TableTypes
<1>5. \A q \in Match : q # m => row'[q] = row[q]
  BY <1>4 DEF IInv, Types, TableTypes
<1>6. {m} \in SUBSET Match
  OBVIOUS
<1>7. Facts' /\ Forward
  <2>1. row'[m] # None /\ row'[m].full = row[m].full /\ row'[m].status = chain[m]
    BY <1>1, <1>2, <1>3, <1>4
  <2> QED
    BY <1>5, <1>6, <2>1, RowsWritten
<1> QED
  BY <1>4, <1>7

LEMMA RelabelInv ==
  ASSUME IInv, NEW m \in Match, Relabel(m)
  PROVE  IInv'
<1>1. PICK status \in {"PENDING", "SETTLED"} : status = chain[m]
  BY DEF IInv, Types, TableTypes
<1>2. Facts' /\ Forward /\ row' \in [Match -> Row \cup {None}]
  BY <1>1, Labelled DEF Relabel
<1>3. TableTypes' /\ TaskTypes' /\ OpTypes'
  BY <1>2 DEF Relabel, IInv, Types, TableTypes, TaskTypes, OpTypes, external, delivery
<1> QED
  BY <1>2, <1>3, NoneMoves DEF Relabel, IInv, Types

LEMMA SaveSettleInv ==
  ASSUME IInv, NEW p \in Process, op[p] # None, SaveSettle(p)
  PROVE  IInv'
<1>1. PICK m : m = op[p].of
  OBVIOUS
<1>2. m \in Match /\ row[m] # None /\ chain[m] = "SETTLED"
  BY <1>1 DEF SaveSettle, IInv, AllSure, Sure, Settling, Known
<1>3. row' = [row EXCEPT ![m].status = "SETTLED"]
  BY <1>1 DEF SaveSettle
<1>4. Facts' /\ Forward /\ row' \in [Match -> Row \cup {None}]
  BY <1>2, <1>3, Labelled DEF SaveSettle
<1>5. TaskTypes' /\ OpTypes'
  BY LeaveTypes DEF SaveSettle, IInv
<1>6. TableTypes'
  BY <1>4 DEF SaveSettle, IInv, Types, TableTypes, external, delivery
<1>7. AllSure'
  BY <1>4, Leaves DEF SaveSettle, Leave
<1> QED
  BY <1>4, <1>5, <1>6, <1>7 DEF IInv, Types

LEMMA Repaired ==
  ASSUME IInv, NEW m \in Keyless
  PROVE  /\ m \in Match /\ row[m] # None /\ RepairKey(m)[m] \in Row
         /\ RepairKey(m)[m].full = row[m].full /\ RepairKey(m)[m].status = row[m].status
         /\ \A q \in Match : q # m => RepairKey(m)[q] = row[q]
         /\ RepairKey(m) \in [Match -> Row \cup {None}]
<1>1. m \in Match /\ row[m] # None
  BY DEF Keyless
<1>2. PICK r \in Row : r = row[m]
  BY <1>1 DEF IInv, Types, TableTypes
<1>3. [r EXCEPT !.key = TRUE] \in Row /\ [r EXCEPT !.key = TRUE].full = r.full
      /\ [r EXCEPT !.key = TRUE].status = r.status
  BY KeyedRow
<1>4. row \in [Match -> Row \cup {None}]
  BY DEF IInv, Types, TableTypes
<1>5. RepairKey(m) = row \/ RepairKey(m) = [row EXCEPT ![m] = [r EXCEPT !.key = TRUE]]
  BY <1>1, <1>2, <1>4 DEF RepairKey
<1> QED
  BY <1>1, <1>2, <1>3, <1>4, <1>5

LEMMA RepairKeysInv ==
  ASSUME IInv, NEW p \in Process, op[p] # None, RepairKeys(p)
  PROVE  IInv'
<1>1. UNCHANGED <<object, first, anchored, external, delivery, faults>>
  BY DEF RepairKeys
<1>2. row' = [m \in Match |-> IF m \in Keyless THEN RepairKey(m)[m] ELSE row[m]]
  BY DEF RepairKeys
<1>3. Keyless \in SUBSET Match /\ None \notin Row
  BY AuditAssumption DEF Keyless
<1>4. row' \in [Match -> Row \cup {None}]
  BY <1>2, Repaired DEF IInv, Types, TableTypes
<1>5. \A m \in Keyless : row[m] # None /\ row'[m] # None /\ row'[m].full = row[m].full
                         /\ row'[m].status = row[m].status
  BY <1>2, <1>3, Repaired
<1>6. \A m \in Match : m \notin Keyless => row'[m] = row[m]
  BY <1>2
<1>7. Facts' /\ Forward
  <2>1. \A m \in Keyless : row'[m] # None /\ row'[m].status = "SETTLED" => chain[m] = "SETTLED"
    BY <1>3, <1>5 DEF IInv, Facts, RowsBehind
  <2> QED
    BY <1>1, <1>3, <1>5, <1>6, <2>1, RowsWritten
<1>8. TaskTypes' /\ OpTypes'
  BY LeaveTypes DEF RepairKeys, IInv
<1>9. TableTypes'
  BY <1>1, <1>4 DEF IInv, Types, TableTypes, external, delivery
<1>10. AllSure'
  BY <1>7, Leaves DEF RepairKeys, Leave
<1> QED
  BY <1>7, <1>8, <1>9, <1>10 DEF IInv, Types

LEMMA RepairScanInv ==
  ASSUME IInv, NEW m \in Match, RepairScan(m)
  PROVE  IInv'
<1>1. UNCHANGED <<object, first, anchored, external, delivery, task, op, faults>>
      /\ m \in Keyless /\ row' = RepairKey(m)
  BY DEF RepairScan
<1>2. /\ row[m] # None /\ row'[m] \in Row /\ row'[m].full = row[m].full
      /\ row'[m].status = row[m].status /\ \A q \in Match : q # m => row'[q] = row[q]
      /\ row' \in [Match -> Row \cup {None}]
  BY <1>1, Repaired
<1>3. row'[m] # None /\ {m} \in SUBSET Match
  BY <1>2, AuditAssumption
<1>4. Facts' /\ Forward
  <2>1. row'[m].status = "SETTLED" => chain[m] = "SETTLED"
    BY <1>2 DEF IInv, Facts, RowsBehind
  <2> QED
    BY <1>1, <1>2, <1>3, <2>1, RowsWritten
<1>5. Types'
  BY <1>1, <1>2 DEF IInv, Types, TableTypes, TaskTypes, OpTypes, external, delivery
<1> QED
  BY <1>1, <1>4, <1>5, NoneMoves DEF IInv

LEMMA IndexPublishedInv ==
  ASSUME IInv, NEW m \in Match, IndexPublished(m)
  PROVE  IInv'
<1>1. UNCHANGED <<object, first, anchored, external, indexed, task, op, faults>>
      /\ replayed' = replayed \cup {m}
  BY DEF IndexPublished
<1>2. PICK status \in {"PENDING", "SETTLED"} : status = chain[m]
  BY DEF IInv, Types, TableTypes
<1>3. PICK swapped \in BOOLEAN : swapped = (m \in Reversed)
  <2>1. (m \in Reversed) \in BOOLEAN
    OBVIOUS
  <2> QED
    BY <2>1, Zenon
<1>4. row \in [Match -> Row \cup {None}] /\ None \notin Row
  BY AuditAssumption DEF IInv, Types, TableTypes
<1>5. \E n \in Row : /\ row' = [row EXCEPT ![m] = n] /\ n.status = status
                     /\ row[m] # None => n.full = row[m].full
                     /\ row[m] = None => n.full = FALSE
  <2>1. CASE row[m] = None
    <3> DEFINE n == [full |-> FALSE, swapped |-> swapped, key |-> FALSE, status |-> status]
    <3>1. n \in Row /\ n.full = FALSE /\ n.status = status
      BY DEF Row
    <3>2. row' = [row EXCEPT ![m] = n]
      BY <1>2, <1>3, <2>1 DEF IndexPublished
    <3> QED
      BY <2>1, <3>1, <3>2
  <2>2. CASE row[m] # None
    <3>1. PICK r \in Row : r = row[m]
      BY <1>4, <2>2
    <3> DEFINE n == [r EXCEPT !.swapped = swapped, !.status = status]
    <3>2. n \in Row /\ n.full = r.full /\ n.status = status
      <4>1. swapped \in BOOLEAN
        BY <1>3
      <4> QED
        BY <1>2, <3>1, <4>1 DEF Row
    <3>3. row' = [row EXCEPT ![m] = n]
      BY <1>2, <1>3, <1>4, <2>2, <3>1 DEF IndexPublished
    <3> QED
      BY <2>2, <3>1, <3>2, <3>3
  <2> QED
    BY <2>1, <2>2
<1>6. PICK n \in Row : /\ row' = [row EXCEPT ![m] = n] /\ n.status = status
                       /\ row[m] # None => n.full = row[m].full
                       /\ row[m] = None => n.full = FALSE
  BY <1>5
<1>7. row' \in [Match -> Row \cup {None}] /\ row'[m] = n /\ n # None
      /\ \A q \in Match : q # m => row'[q] = row[q]
  BY <1>4, <1>6
<1>8. Facts' /\ Forward
  <2>1. {m} \in SUBSET Match
    OBVIOUS
  <2> QED
    BY <1>1, <1>2, <1>6, <1>7, <2>1, RowsWritten
<1>9. Types'
  BY <1>1, <1>7 DEF IInv, Types, TableTypes, TaskTypes, OpTypes, external
<1> QED
  BY <1>1, <1>8, <1>9, NoneMoves DEF IInv

(* The indexer takes the anchors over one after the other.                 *)
LEMMA IndexAnchoredInv ==
  ASSUME IInv, NEW b \in Batch, IndexAnchored(b)
  PROVE  IInv'
<1>1. UNCHANGED <<object, first, row, external, replayed, task, op, faults>>
  BY DEF IndexAnchored
<1>2. PICK i : i = indexed[b] + 1
  OBVIOUS
<1>3. i \in 1 .. Len(anchors[b]) /\ anchors[b] \in Seq(Receipts)
  BY <1>2 DEF IndexAnchored, IInv, Types, TableTypes
<1>4. anchors[b][i] \in Receipts /\ anchors[b][i] \in Range(anchors[b])
  BY <1>3 DEF Range
<1>5. anchored' = [anchored EXCEPT ![b] = anchors[b][i]] /\ indexed' = [indexed EXCEPT ![b] = i]
  BY <1>2 DEF IndexAnchored
<1>6. Known' = Known /\ Forward
  BY <1>1 DEF Known, Forward, external
<1>7. Facts'
  <2>1. RowsBehind' /\ Evidence' /\ SettledCovered'
    BY <1>1, <1>6 DEF IInv, Facts, RowsBehind, Evidence, Kept, SettledCovered, Covered, external
  <2>2. Anchored'
    <3>1. \A c, receipt : Good(c, receipt) => Good(c, receipt)'
      BY <1>6 DEF Good, KnownOf, AllSound, AllSalted
    <3> QED
      BY <1>1, <1>4, <1>5, <3>1 DEF IInv, Facts, Anchored, Types, TableTypes, external
  <2> QED
    BY <2>1, <2>2 DEF Facts
<1>8. Types'
  <2>1. indexed' \in [Batch -> Nat] /\ \A c \in Batch : indexed'[c] <= Len(anchors[c])
    BY <1>3, <1>5 DEF IInv, Types, TableTypes
  <2> QED
    BY <1>1, <1>4, <1>5, <2>1 DEF IInv, Types, TableTypes, TaskTypes, OpTypes, external
<1> QED
  BY <1>1, <1>6, <1>7, <1>8, NoneMoves DEF IInv

---------------------------------------------------------------------------
(* The rewriting of legacy objects.                                        *)

LEMMA SelectInv ==
  ASSUME IInv, NEW p \in Process, op[p] # None, SelectObjects(p)
  PROVE  IInv'
<1>1. Facts' /\ Forward
  BY Reads DEF SelectObjects
<1>2. Types'
  BY SelectTypes DEF IInv
<1>3. PICK o \in Ops : o = op[p]
  BY Called DEF IInv
<1>4. PICK rows : rows = [m \in {n \in Match : row[n] # None /\ row[n].key} |-> row[m]]
  OBVIOUS
<1> DEFINE n == [o EXCEPT !.at = "look", !.rows = rows]
<1>5. n.kind = o.kind /\ n.at = "look"
  BY DEF Ops
<1>6. op' = [op EXCEPT ![p] = n] /\ op'[p] = n /\ o.kind = "privacy"
  BY <1>3, <1>4 DEF SelectObjects, IInv, Types, OpTypes
<1>7. Sure(p)'
  BY <1>5, <1>6 DEF Sure, Rewriting
<1> QED
  BY <1>1, <1>2, <1>6, <1>7, OneMoves DEF IInv

LEMMA LookInv ==
  ASSUME IInv, NEW p \in Process, op[p] # None, Look(p)
  PROVE  IInv'
<1>1. PICK m, skip : /\ m = Max(DOMAIN op[p].rows)
                     /\ skip = Restrict(op[p].rows, DOMAIN op[p].rows \ {m})
  OBVIOUS
<1>2. Facts' /\ Forward
  BY Reads DEF Look
<1>3. Types'
  BY LookTypes DEF IInv
<1>4. PICK o \in Ops : o = op[p]
  BY Called DEF IInv
<1>5. op \in [Process -> Ops \cup {None}] /\ op[p].kind = "privacy" /\ op[p].at = "look"
  BY DEF Look, IInv, Types, OpTypes
<1>6. CASE DOMAIN op[p].rows = {}
  BY <1>2, <1>3, <1>6, Leaves DEF Look, Leave, IInv
<1>7. CASE DOMAIN op[p].rows # {} /\ op' = [op EXCEPT ![p].rows = skip]
  <2> DEFINE n == [o EXCEPT !.rows = skip]
  <2>1. n.kind = o.kind /\ n.at = o.at
    BY DEF Ops
  <2>2. op' = [op EXCEPT ![p] = n] /\ op'[p] = n
    BY <1>4, <1>5, <1>7
  <2>3. Sure(p)'
    BY <1>4, <1>5, <2>1, <2>2 DEF Sure, Rewriting
  <2> QED
    BY <1>2, <1>3, <2>2, <2>3, OneMoves DEF IInv
<1>8. CASE /\ DOMAIN op[p].rows # {} /\ Rewritable(object[m], op[p].rows[m])
           /\ op' = [op EXCEPT ![p].at = "write", ![p].saw = object[m]]
  <2>1. PICK saw : saw = object[m]
    OBVIOUS
  <2> DEFINE n == [o EXCEPT !.at = "write", !.saw = saw]
  <2>2. n.kind = o.kind /\ n.at = "write" /\ n.saw = saw /\ n.rows = o.rows
    BY DEF Ops
  <2>3. op' = [op EXCEPT ![p] = n] /\ op'[p] = n
    BY <1>4, <1>5, <1>8, <2>1
  <2>4. m \in Match
    BY <1>1, <1>8, Called, Picks DEF IInv
  <2>5. Kept(saw, m) /\ saw \in {"inputs", "bare"}
    <3>1. saw \in Object \cup {None} /\ Kept(saw, m)
      BY <2>1, <2>4 DEF IInv, Types, TableTypes, Facts, Evidence
    <3>2. ~ReceiptOnly(saw) /\ Signed(saw)
      BY <1>8, <2>1 DEF Rewritable, Sound
    <3> QED
      BY <3>1, <3>2 DEF Object, Stored, ReceiptOnly, Signed
  <2>6. Kept(saw, m)'
    BY <1>2, <2>5 DEF Kept, Forward
  <2>7. Sure(p)'
    BY <1>1, <1>4, <1>5, <1>8, <2>2, <2>3, <2>5, <2>6, ZenonT(40) DEF Sure, Rewriting
  <2> QED
    BY <1>2, <1>3, <2>3, <2>7, OneMoves DEF IInv
<1> QED
  BY <1>1, <1>6, <1>7, <1>8 DEF Look

LEMMA RewriteInv ==
  ASSUME IInv, NEW p \in Process, op[p] # None, Rewrite(p)
  PROVE  IInv'
<1>1. PICK m, o, left : /\ m = Max(DOMAIN op[p].rows) /\ o = op[p]
                        /\ left = Restrict(o.rows, DOMAIN o.rows \ {m})
  OBVIOUS
<1>2. /\ DOMAIN op[p].rows # {} /\ o.saw \in {"inputs", "bare"} /\ Kept(o.saw, m)
      /\ o \in Ops /\ o.kind = "privacy"
  BY <1>1, Called DEF Rewrite, IInv, AllSure, Sure, Rewriting
<1>3. Types'
  BY <1>2, RewriteTypes DEF IInv
<1>4. m \in Match
  BY <1>1, <1>2, Called, Picks DEF IInv
<1>5. object' = [object EXCEPT ![m] = Reissue(o.saw)]
      /\ UNCHANGED <<first, row, anchored, external, delivery, task, faults>>
  BY <1>1 DEF Rewrite
<1>6. Known' = Known /\ Forward
  BY <1>5 DEF Known, Forward, external
<1>7. Facts'
  <2>1. Kept(Reissue(o.saw), m)
    <3>1. Reissue("inputs") = "reissued" /\ Reissue("bare") = "reissuedBare"
      BY DEF Reissue
    <3>2. \A x \in {"inputs", "bare"} : /\ Signed(Reissue(x)) <=> Signed(x)
                                        /\ Salted(Reissue(x)) <=> Salted(x)
      BY <3>1, AuditAssumption DEF Signed, Salted, Object, Stored
    <3> QED
      BY <1>2, <3>2 DEF Kept
  <2>2. Evidence'
    BY <1>4, <1>5, <2>1 DEF IInv, Facts, Evidence, Kept, Types, TableTypes
  <2>3. RowsBehind' /\ SettledCovered'
    BY <1>5, <1>6 DEF IInv, Facts, RowsBehind, SettledCovered, Covered, external
  <2>4. Anchored'
    BY <1>5, <1>6 DEF IInv, Facts, Anchored, Good, KnownOf, AllSound, AllSalted, external
  <2> QED
    BY <2>2, <2>3, <2>4 DEF Facts
<1> DEFINE n == [o EXCEPT !.at = "look", !.saw = None, !.rows = left]
<1>8. n.kind = o.kind /\ n.at = "look"
  BY <1>2 DEF Ops
<1>9. op' = [op EXCEPT ![p] = n] /\ op'[p] = n
  BY <1>1 DEF Rewrite, IInv, Types, OpTypes
<1>10. Sure(p)'
  BY <1>2, <1>8, <1>9 DEF Sure, Rewriting
<1> QED
  BY <1>3, <1>6, <1>7, <1>9, <1>10, OneMoves DEF IInv

---------------------------------------------------------------------------
(* The theorems.                                                           *)

LEMMA InitInv == Init => IInv
<1> SUFFICES ASSUME Init
             PROVE  IInv
  OBVIOUS
<1>1. PICK s \in Starts : /\ object = [m \in Match |-> s[m].object]
                          /\ row = [m \in Match |-> s[m].row]
  BY DEF Init
<1>2. \A m \in Match : /\ s[m].row \in Row \cup {None} /\ s[m].object \in Stored \cup {None}
                       /\ s[m].row # None => s[m].row.status = "PENDING"
  BY AuditAssumption
<1>3. /\ row \in [Match -> Row \cup {None}] /\ object \in [Match -> Stored \cup {None}]
      /\ \A m \in Match : row[m] # None => row[m].status = "PENDING"
  BY <1>1, <1>2
<1>4. TableTypes
  <2>1. <<>> \in Seq(Receipts) /\ Len(<<>>) = 0
    OBVIOUS
  <2> QED
    BY <1>3, <2>1, AuditAssumption DEF Init, TableTypes, Object
<1>5. TaskTypes /\ OpTypes
  <2>1. NoTask \in Tasks
    BY AuditAssumption DEF NoTask, Tasks
  <2> QED
    BY <2>1 DEF Init, TaskTypes, OpTypes
<1>6. Facts
  <2>1. \A b \in Batch : Range(anchors[b]) = {}
    BY DEF Init, Range
  <2>2. RowsBehind /\ Evidence /\ SettledCovered
    BY <1>3 DEF Init, RowsBehind, Evidence, Kept, SettledCovered
  <2>3. Anchored
    BY <2>1 DEF Init, Anchored
  <2> QED
    BY <2>2, <2>3 DEF Facts
<1>7. AllSure
  BY DEF Init, AllSure, Sure
<1> QED
  BY <1>4, <1>5, <1>6, <1>7 DEF IInv, Types

LEMMA HandleInv ==
  ASSUME IInv, NEW p \in Process, Handle(p)
  PROVE  IInv'
BY ReadyInv, CollectInv, ReadInv, SendSettleInv, SaveSettleInv, SendAnchorInv, SaveAnchorInv,
   RepairKeysInv, SelectInv, LookInv, RewriteInv DEF Handle

LEMMA InvStep == IInv /\ [Next]_vars => IInv'
<1> SUFFICES ASSUME IInv, [Next]_vars
             PROVE  IInv'
  OBVIOUS
<1>1. CASE \E k \in Key : Retry(k)
  BY <1>1, RetryInv
<1>2. CASE \E m \in Match : Relabel(m) \/ Settle(m) \/ RepairScan(m) \/ IndexPublished(m)
  BY <1>2, RelabelInv, SettleInv, RepairScanInv, IndexPublishedInv
<1>3. CASE \E b \in Batch : Republish(b) \/ IndexAnchored(b)
  BY <1>3, RepublishInv, IndexAnchoredInv
<1>4. CASE \E p \in Process : Handle(p) \/ Throw(p)
  BY <1>4, HandleInv, ThrowInv
<1>5. CASE Reconcile \/ Crash
  BY <1>5, ReconcileInv, CrashInv
<1>6. CASE UNCHANGED vars
  <2>1. UNCHANGED <<object, first, row, anchored, external>>
    BY <1>6 DEF vars, external
  <2>2. Types'
    BY <1>6 DEF vars, IInv, Types, TableTypes, TaskTypes, OpTypes
  <2>3. Facts' /\ Forward
    BY <2>1, Reads
  <2> QED
    BY <1>6, <2>2, <2>3, NoneMoves DEF IInv, vars
<1> QED
  BY <1>1, <1>2, <1>3, <1>4, <1>5, <1>6 DEF Next

(* Whatever fails, is repaired, rewritten or anchored twice: receipts on   *)
(* chain are good ones, and a handler that goes on has made sure.          *)
THEOREM Inductive == Spec => []IInv
BY InitInv, InvStep, PTL DEF Spec

(* A match settles only once its batch is anchored on chain by a receipt   *)
(* that covers it and is sound and salted throughout, and a report that is *)
(* ok is about settled matches only (SettledUnderAnchor).                  *)
THEOREM SettlesUnderAnchor == Spec => []SettledUnderAnchor
<1>1. IInv => SettledUnderAnchor
  <2> SUFFICES ASSUME IInv
               PROVE  SettledUnderAnchor
    OBVIOUS
  <2>1. ASSUME ReportOk, NEW m \in Match, row[m] # None
        PROVE  chain[m] = "SETTLED"
    <3>1. row[m] \in Row /\ row[m].status # "PENDING"
      BY <2>1 DEF IInv, Types, TableTypes, ReportOk, Pending
    <3>2. row[m].status = "SETTLED"
      BY <3>1 DEF Row
    <3> QED
      BY <2>1, <3>2 DEF IInv, Facts, RowsBehind
  <2>2. ASSUME NEW m \in Match, chain[m] = "SETTLED", RequireAnchor
        PROVE  \E r \in Range(anchors[MatchBatch[m]]) : m \in DOMAIN r /\ AllSound(r) /\ AllSalted(r)
    <3>1. m \in Known /\ Range(anchors[MatchBatch[m]]) # {}
      BY <2>2 DEF IInv, Facts, SettledCovered, Covered
    <3>2. PICK r \in Range(anchors[MatchBatch[m]]) : Good(MatchBatch[m], r)
      BY <3>1, BatchTyped DEF IInv, Facts, Anchored
    <3>3. m \in KnownOf(MatchBatch[m])
      BY <3>1 DEF KnownOf
    <3> QED
      BY <3>2, <3>3 DEF Good
  <2> QED
    BY <2>1, <2>2 DEF SettledUnderAnchor
<1> QED
  BY <1>1, Inductive, PTL

(* A receipt on chain or in the row of its batch is of objects that were   *)
(* there.                                                                  *)
LEMMA GoodIsReceipt ==
  ASSUME NEW b, NEW receipt \in Receipts, Good(b, receipt)
  PROVE  IsReceipt(receipt)
<1>1. PICK S \in SUBSET Match : receipt \in [S -> ProofSet]
  BY DEF Receipts
<1>2. \A m \in S : receipt[m] \in ProofSet /\ Salted(receipt[m].object)
  BY <1>1 DEF Good, AllSalted
<1>3. \A m \in S : receipt[m] \in [object : Object, sound : BOOLEAN]
  <2> TAKE m \in S
  <2>1. receipt[m] \in ProofSet /\ receipt[m].object \in Object
    BY <1>2 DEF Salted, Object, Stored
  <2> QED
    BY <2>1 DEF ProofSet
<1> QED
  BY <1>1, <1>3 DEF IsReceipt, Range

(* The audit operations keep the types of their state.                     *)
THEOREM TypeCorrect == Spec => []TypeOK
<1>1. IInv => TypeOK
  <2> SUFFICES ASSUME IInv
               PROVE  TypeOK
    OBVIOUS
  <2>1. \A b \in Batch : anchors[b] \in Seq(Receipts) /\ \A r \in Range(anchors[b]) : r \in Receipts
    BY DEF IInv, Types, TableTypes, Range
  <2>2. \A b \in Batch : \A r \in Range(anchors[b]) : IsReceipt(r)
    BY <2>1, GoodIsReceipt DEF IInv, Facts, Anchored
  <2>3. \A b \in Batch : anchored[b] # None => IsReceipt(anchored[b])
    BY <2>2 DEF IInv, Facts, Anchored
  <2>4. \A b \in Batch : indexed[b] \in 0 .. Len(anchors[b])
    BY <2>1 DEF IInv, Types, TableTypes
  <2>5. \A k \in Key : task[k] \in [status : {"none", "open", "running", "done"}, tries : 0 .. MaxTries]
    BY DEF IInv, Types, TaskTypes, Tasks
  <2>6. \A p \in Process : op[p] # None => op[p].key \in Key \cup {None}
    BY Called DEF IInv
  <2> QED
    BY <2>2, <2>3, <2>4, <2>5, <2>6 DEF TypeOK, IInv, Types, TableTypes
<1> QED
  BY <1>1, Inductive, PTL

(* Rewriting keeps the evidence: no altered object comes to pass as        *)
(* signed, and a salted one stays salted (NothingLaundered).               *)
THEOREM EvidenceKept == Spec => []NothingLaundered
<1>1. IInv /\ TypeOK => NothingLaundered
  BY DEF IInv, Facts, Evidence, Kept, NothingLaundered
<1> QED
  BY <1>1, Inductive, TypeCorrect, PTL
==============================================================================
