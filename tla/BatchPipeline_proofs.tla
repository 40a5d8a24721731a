------------------------ MODULE BatchPipeline_proofs ------------------------
(***************************************************************************)
(* The batch pipeline for any number of orders, matches, batches, pairs,   *)
(* concurrent calls, processes, faults and crashes.                        *)
(***************************************************************************)
EXTENDS BatchPipeline, FiniteSetTheorems, WellFoundedInduction, TLAPS

---------------------------------------------------------------------------
(* Smallest elements, enumerations and sequences.                          *)

LEMMA SmallestExists ==
  ASSUME NEW S, S \subseteq Nat, S # {}
  PROVE  First(S) \in S
<1> DEFINE R == {p \in Nat \X Nat : p[1] < p[2]}
<1>1. IsWellFoundedOn(R, Nat)
  BY NatLessThanWellFounded, Zenon DEF OpToRel
<1>2. PICK x \in S : \A y \in S : ~ (<<y, x>> \in R)
  BY <1>1, WFMin
<1>3. \A y \in S : x <= y
  <2> TAKE y \in S
  <2>1. x \in Nat /\ y \in Nat
    OBVIOUS
  <2>2. ~(y < x)
    BY <1>2, <2>1
  <2> QED
    BY <2>1, <2>2
<1> QED
  BY <1>3 DEF First

LEMMA Enumerated ==
  ASSUME NEW S, IsFiniteSet(S)
  PROVE  Cardinality(S) \in Nat /\ SetToSeq(S) \in [1 .. Cardinality(S) -> S]
<1>1. Cardinality(S) \in Nat /\ ExistsBijection(1 .. Cardinality(S), S)
  BY FS_CardinalityType
<1>2. PICK f \in Bijection(1 .. Cardinality(S), S) : TRUE
  BY <1>1 DEF ExistsBijection
<1>3. f \in [1 .. Cardinality(S) -> S] /\ IsInjective(f)
  BY <1>2 DEF Bijection, Injection, IsInjective
<1> QED
  BY <1>1, <1>3 DEF SetToSeq

LEMMA Appended ==
  ASSUME NEW T, NEW s \in Seq(T), NEW u \in Seq(T)
  PROVE  /\ s \o u \in Seq(T) /\ Len(s \o u) = Len(s) + Len(u)
         /\ \A i \in DOMAIN s : i \in DOMAIN (s \o u) /\ (s \o u)[i] = s[i]
         /\ \A i \in DOMAIN (s \o u) : i \notin DOMAIN s =>
              \E j \in DOMAIN u : (s \o u)[i] = u[j]
OBVIOUS

(* The orders of a match are orders of its batch.                          *)
LEMMA LegsOfBatch ==
  ASSUME NEW m \in Match
  PROVE  /\ MatchBatch(m) \in Batch /\ Legs[m] \subseteq Order /\ Legs[m] # {}
         /\ \A o \in Legs[m] : BatchOf[o] = MatchBatch(m)
<1>1. Legs[m] \subseteq Order /\ Legs[m] # {}
  BY PipelineAssumption
<1>2. (CHOOSE o \in Legs[m] : TRUE) \in Legs[m]
  BY <1>1
<1> QED
  BY <1>1, <1>2, PipelineAssumption DEF MatchBatch

LEMMA Names ==
  /\ None \notin OrderStatus /\ None \notin MatchStatus /\ None \notin BatchStatus
  /\ None \notin Match /\ None \notin Batch
BY PipelineAssumption

---------------------------------------------------------------------------
(* Types, the shape of a handler, and the replay: one event at a time,     *)
(* always the next one.                                                    *)

ChainTypes ==
  /\ curBatch \in 1 .. LastBatch + 1
  /\ order \in [Order -> OrderStatus \cup {None}]
  /\ match \in [Match -> MatchStatus \cup {None}]
  /\ expired \subseteq Match /\ log \in Seq(Event)
RowTypes ==
  /\ batchRow \in [Batch -> BatchStatus \cup {None}]
  /\ orderRow \in [Order -> OrderStatus \cup {None}]
  /\ matchRow \in [Match -> MatchStatus \cup {None}]
  /\ auditKey \subseteq Match /\ transcript \subseteq Match
Handler == [via : Via, at : Nat, saw : OrderStatus \cup MatchStatus \cup {None},
            phase : {"write", "orders"}]
SawType(status, name) ==
  /\ name = "OrderSubmitted" => status \in OrderStatus \cup {None}
  /\ name = "MatchPublished" => status \in MatchStatus \cup {None}
Replaying ==
  /\ handler \subseteq Handler
  /\ \A h \in handler : h.at \in 1 .. Len(log)
  /\ \A h \in handler : h.via = "catchup" => h.at = at + 1
  /\ \A h, k \in handler : h.via = "catchup" /\ k.via = "catchup" => h = k
  /\ at \in 0 .. Len(log) /\ cursor \in 0 .. at
  /\ \A h \in handler : SawType(h.saw, log[h.at].name)
OtherIndex == booting \in BOOLEAN /\ since \in 0 .. Len(log) /\ live \in 0 .. MaxLive
ThreadTypes ==
  /\ pc \in [Thread -> {"idle", "pair", "auction", "publish", "record", "insert", "mark"}]
  /\ job \in [Thread -> Batch \cup {None}]
  /\ todo \in [Thread -> SUBSET Pair] /\ found \in [Thread -> SUBSET Match]
  /\ \A t \in Thread : pc[t] \notin {"idle", "pair"} => todo[t] # {}
  /\ \A t \in Thread : pc[t] \in {"publish", "record", "insert", "mark"} => found[t] # {}
  /\ out \in [Thread -> [published : BOOLEAN, existing : BOOLEAN, failed : BOOLEAN]]
  /\ keyed \in [Thread -> BOOLEAN]
SettlerTypes ==
  /\ step \in [Settler -> {"idle", "label", "check", "send", "row", "orders"}]
  /\ target \in [Settler -> Match \cup {None}]
  /\ saw \in [Settler -> MatchStatus \cup {None}]
  /\ \A s \in Settler : step[s] # "idle" => target[s] \in Match
BoundTypes ==
  /\ cancels \in 0 .. MaxCancels /\ faults \in 0 .. MaxFaults /\ crashes \in 0 .. MaxCrashes
  /\ orphaned \subseteq Match

TypeInv ==
  /\ ChainTypes /\ RowTypes /\ Replaying /\ OtherIndex
  /\ ThreadTypes /\ SettlerTypes /\ BoundTypes

LEMMA TypeParts == TypeInv => TypeOK
<1> SUFFICES ASSUME TypeInv PROVE TypeOK
  OBVIOUS
<1>1. \A h \in handler : h.via \in Via /\ h.at \in DOMAIN log /\ h.phase \in {"write", "orders"}
  <2>1. DOMAIN log = 1 .. Len(log)
    BY DEF TypeInv, ChainTypes
  <2> QED
    BY <2>1 DEF TypeInv, Replaying, Handler
<1> QED
  BY <1>1 DEF TypeInv, ChainTypes, RowTypes, Replaying, OtherIndex, ThreadTypes, SettlerTypes,
     BoundTypes, TypeOK

LEMMA TypeInit == Init => TypeInv
<1> SUFFICES ASSUME Init PROVE TypeInv
  OBVIOUS
<1> USE PipelineAssumption, Names DEF Init
<1>1. ChainTypes
  BY DEF ChainTypes
<1>2. RowTypes
  BY DEF RowTypes
<1>3. Replaying /\ OtherIndex
  <2>1. Len(log) = 0 /\ handler = {} /\ at = 0 /\ cursor = 0 /\ since = 0 /\ live = 0
    OBVIOUS
  <2>2. MaxLive \in Nat
    OBVIOUS
  <2>3. booting \in BOOLEAN
    OBVIOUS
  <2>4. Replaying
    BY <2>1 DEF Replaying
  <2> QED
    BY <2>1, <2>2, <2>3, <2>4 DEF OtherIndex
<1>4. ThreadTypes
  BY DEF ThreadTypes, Idle
<1>5. SettlerTypes /\ BoundTypes
  BY DEF SettlerTypes, BoundTypes
<1> QED
  BY <1>1, <1>2, <1>3, <1>4, <1>5 DEF TypeInv

LEMMA TypesKept ==
  ASSUME TypeInv
  PROVE  /\ UNCHANGED chain => ChainTypes'
         /\ UNCHANGED db => RowTypes'
         /\ UNCHANGED <<log, index>> => Replaying' /\ OtherIndex'
         /\ UNCHANGED matcher => ThreadTypes'
         /\ UNCHANGED settler => SettlerTypes'
         /\ UNCHANGED <<bounds, orphaned>> => BoundTypes'
<1>1. UNCHANGED chain => ChainTypes'
  BY DEF TypeInv, ChainTypes, chain
<1>2. UNCHANGED db => RowTypes'
  BY DEF TypeInv, RowTypes, db
<1>3. UNCHANGED <<log, index>> => Replaying' /\ OtherIndex'
  BY DEF TypeInv, Replaying, OtherIndex, index
<1>4. UNCHANGED matcher => ThreadTypes'
  BY DEF TypeInv, ThreadTypes, matcher
<1>5. UNCHANGED settler => SettlerTypes'
  BY DEF TypeInv, SettlerTypes, settler
<1>6. UNCHANGED <<bounds, orphaned>> => BoundTypes'
  BY DEF TypeInv, BoundTypes, bounds
<1> QED
  BY <1>1, <1>2, <1>3, <1>4, <1>5, <1>6

LEMMA LogGrows ==
  ASSUME TypeInv, NEW u \in Seq(Event), log' = log \o u
  PROVE  /\ log' \in Seq(Event) /\ Len(log) <= Len(log')
         /\ \A i \in 1 .. Len(log) : i \in 1 .. Len(log') /\ log'[i] = log[i]
         /\ \A i \in 1 .. Len(log') : i \notin 1 .. Len(log) => \E j \in DOMAIN u : log'[i] = u[j]
         /\ UNCHANGED index => Replaying' /\ OtherIndex'
<1>1. log \in Seq(Event)
  BY DEF TypeInv, ChainTypes
<1>2. /\ log' \in Seq(Event) /\ Len(log) <= Len(log')
      /\ \A i \in 1 .. Len(log) : i \in 1 .. Len(log') /\ log'[i] = log[i]
      /\ \A i \in 1 .. Len(log') : i \notin 1 .. Len(log) => \E j \in DOMAIN u : log'[i] = u[j]
  <2>1. /\ log' \in Seq(Event) /\ Len(log') = Len(log) + Len(u)
        /\ \A i \in DOMAIN log : i \in DOMAIN log' /\ log'[i] = log[i]
        /\ \A i \in DOMAIN log' : i \notin DOMAIN log => \E j \in DOMAIN u : log'[i] = u[j]
    BY <1>1, Appended
  <2>2. DOMAIN log = 1 .. Len(log) /\ DOMAIN log' = 1 .. Len(log')
        /\ Len(log) \in Nat /\ Len(u) \in Nat
    BY <1>1, <2>1
  <2>3. Len(log) <= Len(log')
    BY <2>1, <2>2
  <2>4. \A i \in 1 .. Len(log) : i \in 1 .. Len(log') /\ log'[i] = log[i]
    BY <2>1, <2>2, Zenon
  <2>5. \A i \in 1 .. Len(log') : i \notin 1 .. Len(log) => \E j \in DOMAIN u : log'[i] = u[j]
    BY <2>1, <2>2, Zenon
  <2> QED
    BY <2>1, <2>3, <2>4, <2>5
<1>3. Len(log) \in Nat /\ Len(log') \in Nat
  BY <1>1, <1>2
<1>4. ASSUME UNCHANGED index
      PROVE  Replaying' /\ OtherIndex'
  <2>1. UNCHANGED <<handler, at, cursor, since, live, booting>>
    BY <1>4 DEF index
  <2>2. Replaying'
    <3>1. \A h \in handler : log'[h.at] = log[h.at] /\ h.at \in 1 .. Len(log')
      BY <1>2 DEF TypeInv, Replaying
    <3> QED
      BY <1>2, <1>3, <2>1, <3>1 DEF TypeInv, Replaying
  <2>3. OtherIndex'
    BY <1>2, <1>3, <2>1 DEF TypeInv, OtherIndex
  <2> QED
    BY <2>2, <2>3
<1> QED
  BY <1>2, <1>4

LEMMA OneEvent ==
  ASSUME NEW n, NEW i,
         \/ n = "OrderSubmitted" /\ i \in Order
         \/ n = "BatchClosed" /\ i \in Batch
         \/ n \in {"MatchDisputed", "MatchSettled"} /\ i \in Match
  PROVE  <<[name |-> n, id |-> i]>> \in Seq(Event)
BY DEF Event

LEMMA ManyEvents ==
  ASSUME NEW ms, ms \subseteq Match
  PROVE  /\ Publications(ms) \in Seq(Event)
         /\ \A i \in DOMAIN Publications(ms) :
              Publications(ms)[i].name = "MatchPublished" /\ Publications(ms)[i].id \in ms
<1>1. IsFiniteSet(ms)
  BY PipelineAssumption, FS_Subset
<1>2. Cardinality(ms) \in Nat /\ SetToSeq(ms) \in [1 .. Cardinality(ms) -> ms]
  BY <1>1, Enumerated
<1>3. \A i \in 1 .. Cardinality(ms) :
        [name |-> "MatchPublished", id |-> SetToSeq(ms)[i]] \in Event
  BY <1>2 DEF Event
<1> QED
  BY <1>2, <1>3 DEF Publications

(* The contract's own steps.                                               *)
LEMMA ChainTypesStep ==
  ASSUME TypeInv,
         \/ \E o \in Order : Submit(o) \/ Cancel(o)
         \/ Close
         \/ \E m \in Match : Dispute(m) \/ Expire(m)
  PROVE  TypeInv'
<1> USE PipelineAssumption, TypesKept
<1>1. ASSUME NEW o \in Order, Submit(o)
      PROVE  TypeInv'
  <2>1. log' = log \o <<[name |-> "OrderSubmitted", id |-> o]>>
        /\ order' = [order EXCEPT ![o] = "ACTIVE"]
        /\ UNCHANGED <<curBatch, match, expired, db, index, matcher, settler, bounds, orphaned>>
    BY <1>1 DEF Submit, Emit
  <2>2. <<[name |-> "OrderSubmitted", id |-> o]>> \in Seq(Event)
    BY OneEvent
  <2>3. ChainTypes' /\ Replaying' /\ OtherIndex'
    BY <2>1, <2>2, LogGrows DEF TypeInv, ChainTypes, OrderStatus
  <2> QED
    BY <2>1, <2>3 DEF TypeInv
<1>2. ASSUME NEW o \in Order, Cancel(o)
      PROVE  TypeInv'
  <2>1. ChainTypes' /\ BoundTypes'
    BY <1>2 DEF Cancel, TypeInv, ChainTypes, BoundTypes, OrderStatus
  <2> QED
    BY <1>2, <2>1 DEF Cancel, TypeInv
<1>3. CASE Close
  <2>1. log' = log \o <<[name |-> "BatchClosed", id |-> curBatch]>> /\ curBatch \in Batch
        /\ curBatch' = curBatch + 1
        /\ UNCHANGED <<order, match, expired, db, index, matcher, settler, bounds, orphaned>>
    BY <1>3 DEF Close, Emit
  <2>2. <<[name |-> "BatchClosed", id |-> curBatch]>> \in Seq(Event)
    BY <2>1, OneEvent
  <2>3. curBatch' \in 1 .. LastBatch + 1
    BY <2>1 DEF Batch
  <2>4. ChainTypes' /\ Replaying' /\ OtherIndex'
    BY <2>1, <2>2, <2>3, LogGrows DEF TypeInv, ChainTypes
  <2> QED
    BY <2>1, <2>4 DEF TypeInv
<1>4. ASSUME NEW m \in Match, Dispute(m)
      PROVE  TypeInv'
  <2>1. log' = log \o <<[name |-> "MatchDisputed", id |-> m]>>
        /\ match' = [match EXCEPT ![m] = "DISPUTED"]
        /\ UNCHANGED <<curBatch, order, expired, db, index, matcher, settler, bounds, orphaned>>
    BY <1>4 DEF Dispute, Emit
  <2>2. <<[name |-> "MatchDisputed", id |-> m]>> \in Seq(Event)
    BY OneEvent
  <2>3. ChainTypes' /\ Replaying' /\ OtherIndex'
    BY <2>1, <2>2, LogGrows DEF TypeInv, ChainTypes, MatchStatus
  <2> QED
    BY <2>1, <2>3 DEF TypeInv
<1>5. ASSUME NEW m \in Match, Expire(m)
      PROVE  TypeInv'
  <2>1. ChainTypes'
    BY <1>5 DEF Expire, TypeInv, ChainTypes
  <2> QED
    BY <1>5, <2>1 DEF Expire, TypeInv
<1> QED
  BY <1>1, <1>2, <1>3, <1>4, <1>5

(* Updates of the order rows stay in the type and do not lose a row.       *)
LEMMA RowUpdates ==
  ASSUME orderRow \in [Order -> OrderStatus \cup {None}], NEW S
  PROVE  /\ MarkedMatched(S) \in [Order -> OrderStatus \cup {None}]
         /\ MarkedSettled(S) \in [Order -> OrderStatus \cup {None}]
BY DEF MarkedMatched, MarkedSettled, OrderStatus

LEMMA ReconciledType ==
  ASSUME orderRow \in [Order -> OrderStatus \cup {None}]
  PROVE  Reconciled \in [Order -> OrderStatus \cup {None}]
BY DEF Reconciled, OrderStatus

(* What a step of a handler does to the replay.                            *)
LEMMA HandlerEnds ==
  ASSUME TypeInv, NEW h \in handler, UNCHANGED <<log, cursor, since, live, booting>>,
         Done(h) \/ ThenOrders(h)
  PROVE  Replaying' /\ OtherIndex'
<1>1. OtherIndex'
  BY DEF TypeInv, OtherIndex
<1>2. Len(log) \in Nat /\ h \in Handler
  BY DEF TypeInv, ChainTypes, Replaying
<1>3. CASE Done(h)
  <2>1. /\ handler' = handler \ {h} /\ at' = IF h.via = "catchup" THEN h.at ELSE at
        /\ h.via = "catchup" => h.at = at + 1 /\ h.at <= Len(log)
    BY <1>3 DEF Done, TypeInv, Replaying
  <2>2. at' \in 0 .. Len(log) /\ cursor' \in 0 .. at'
    BY <1>2, <2>1 DEF TypeInv, Replaying
  <2>3. ASSUME NEW k \in handler', k.via = "catchup"
        PROVE  k.at = at' + 1
    BY <2>1, <2>3 DEF TypeInv, Replaying
  <2> QED
    BY <2>1, <2>2, <2>3, <1>1 DEF TypeInv, Replaying
<1>4. CASE ThenOrders(h)
  <2>1. PICK k : k = [h EXCEPT !.phase = "orders"]
    OBVIOUS
  <2>2. k \in Handler /\ k.via = h.via /\ k.at = h.at /\ k.saw = h.saw
    BY <1>2, <2>1 DEF Handler
  <2>3. handler' = (handler \ {h}) \cup {k} /\ at' = at
    BY <1>4, <2>1 DEF ThenOrders
  <2>4. \A g \in handler' : /\ g.at \in 1 .. Len(log) /\ (g.via = "catchup" => g.at = at' + 1)
                             /\ SawType(g.saw, log[g.at].name)
    BY <2>2, <2>3 DEF TypeInv, Replaying
  <2>5. \A g, f \in handler' : g.via = "catchup" /\ f.via = "catchup" => g = f
    BY <2>2, <2>3 DEF TypeInv, Replaying
  <2> QED
    BY <2>2, <2>3, <2>4, <2>5, <1>1 DEF TypeInv, Replaying
<1> QED
  BY <1>1, <1>3, <1>4

LEMMA IndexTypesStep ==
  ASSUME TypeInv,
         \/ \E i \in DOMAIN log : Deliver(i)
         \/ Replay \/ HandlerStep \/ Persist \/ Boot
         \/ \E h \in handler : HandlerFault(h)
  PROVE  TypeInv'
<1> USE PipelineAssumption, TypesKept
<1>0. Len(log) \in Nat /\ DOMAIN log = 1 .. Len(log) /\ \A i \in 1 .. Len(log) : log[i] \in Event
  BY DEF TypeInv, ChainTypes
<1>1. ASSUME NEW i \in 1 .. Len(log), NEW v \in Via, Receive(v, i),
             v = "catchup" => i = at + 1 /\ \A h \in handler : h.via # "catchup",
             UNCHANGED <<log, at, cursor, since, booting>>, live' \in 0 .. MaxLive
      PROVE  Replaying' /\ OtherIndex'
  <2>1. /\ Reading(log[i]) \in OrderStatus \cup MatchStatus \cup {None}
        /\ SawType(Reading(log[i]), log[i].name)
    <3>1. log[i] \in Event
      BY <1>0
    <3>2. CASE log[i].name = "OrderSubmitted"
      BY <3>1, <3>2 DEF Event, Reading, SawType, TypeInv, ChainTypes
    <3>3. CASE log[i].name = "MatchPublished"
      BY <3>1, <3>3 DEF Event, Reading, SawType, TypeInv, ChainTypes
    <3>4. CASE log[i].name \notin {"OrderSubmitted", "MatchPublished"}
      BY <3>4 DEF Reading, SawType
    <3> QED
      BY <3>2, <3>3, <3>4
  <2>2. PICK k : k = [via |-> v, at |-> i, saw |-> Reading(log[i]), phase |-> "write"]
    OBVIOUS
  <2>3. k \in Handler /\ k.via = v /\ k.at = i /\ k.saw = Reading(log[i])
    BY <2>1, <2>2 DEF Handler
  <2>4. handler' = handler \cup {k}
    BY <1>1, <2>2 DEF Receive
  <2> QED
    BY <1>1, <2>1, <2>3, <2>4 DEF TypeInv, Replaying, OtherIndex
<1>2. ASSUME NEW i \in DOMAIN log, Deliver(i)
      PROVE  TypeInv'
  <2>1. live' \in 0 .. MaxLive
    BY <1>2 DEF Deliver, TypeInv, OtherIndex
  <2>2. Replaying' /\ OtherIndex'
    BY <1>0, <1>1, <1>2, <2>1 DEF Deliver, chain, Via
  <2> QED
    BY <1>2, <2>2 DEF Deliver, TypeInv
<1>3. CASE Replay
  <2>1. at + 1 \in 1 .. Len(log) /\ live' \in 0 .. MaxLive
    BY <1>0, <1>3 DEF Replay, TypeInv, Replaying, OtherIndex
  <2>2. Replaying' /\ OtherIndex'
    BY <1>1, <1>3, <2>1 DEF Replay, chain, Via
  <2> QED
    BY <1>3, <2>2 DEF Replay, TypeInv
<1>4. ASSUME NEW h \in handler, HandlerWrite(h)
      PROVE  TypeInv'
  <2>1. h \in Handler /\ log[h.at] \in Event
    BY <1>0 DEF TypeInv, Replaying
  <2>2. SawType(h.saw, log[h.at].name) /\ RowTypes
    BY DEF TypeInv, Replaying
  <2>3. RowTypes' /\ (Done(h) \/ ThenOrders(h))
    <3> DEFINE ev == log[h.at]
    <3>1. CASE ev.name = "OrderSubmitted" /\ WriteOrder(h, ev.id)
      BY <2>2, <3>1 DEF WriteOrder, RowTypes, SawType
    <3>2. CASE ev.name = "BatchClosed" /\ WriteBatch(h, ev.id)
      BY <2>2, <3>2 DEF WriteBatch, RowTypes, BatchStatus
    <3>3. CASE ev.name = "MatchPublished" /\ WriteMatch(h, ev.id)
      BY <2>2, <3>3 DEF WriteMatch, RowTypes, SawType
    <3>4. CASE ev.name = "MatchDisputed" /\ WriteDisputed(h, ev.id)
      BY <2>2, <3>4 DEF WriteDisputed, RowTypes, MatchStatus
    <3>5. CASE ev.name = "MatchSettled" /\ WriteSettled(h, ev.id)
      BY <2>2, <3>5 DEF WriteSettled, RowTypes, MatchStatus
    <3> QED
      BY <1>4, <3>1, <3>2, <3>3, <3>4, <3>5 DEF HandlerWrite
  <2>4. Replaying' /\ OtherIndex'
    BY <1>4, <2>3, HandlerEnds DEF HandlerWrite, chain
  <2> QED
    BY <1>4, <2>3, <2>4 DEF HandlerWrite, TypeInv
<1>5. ASSUME NEW h \in handler, HandlerOrders(h)
      PROVE  TypeInv'
  <2>1. RowTypes'
    BY <1>5, RowUpdates DEF HandlerOrders, TypeInv, RowTypes
  <2>2. Replaying' /\ OtherIndex'
    BY <1>5, HandlerEnds DEF HandlerOrders, chain
  <2> QED
    BY <1>5, <2>1, <2>2 DEF HandlerOrders, TypeInv
<1>6. ASSUME NEW h \in handler, HandlerFault(h)
      PROVE  TypeInv'
  <2>1. /\ handler' = handler \ {h} /\ at' = IF h.via = "catchup" THEN cursor ELSE at
        /\ UNCHANGED <<log, cursor, since, live, booting, orphaned, cancels, crashes>>
        /\ faults < MaxFaults /\ faults' = faults + 1
    BY <1>6 DEF HandlerFault, chain
  <2>2. at' \in 0 .. Len(log) /\ cursor' \in 0 .. at'
    BY <1>0, <2>1 DEF TypeInv, Replaying
  <2>3. ASSUME NEW k \in handler', k.via = "catchup"
        PROVE  k.at = at' + 1
    BY <2>1, <2>3 DEF TypeInv, Replaying
  <2>4. Replaying' /\ OtherIndex' /\ BoundTypes'
    BY <2>1, <2>2, <2>3 DEF TypeInv, Replaying, OtherIndex, BoundTypes
  <2> QED
    BY <1>6, <2>4 DEF HandlerFault, TypeInv
<1>7. CASE Persist
  <2>1. Replaying' /\ OtherIndex'
    BY <1>0, <1>7 DEF Persist, chain, TypeInv, Replaying, OtherIndex
  <2> QED
    BY <1>7, <2>1 DEF Persist, TypeInv
<1>8. CASE Boot
  <2>1. RowTypes'
    BY <1>8, ReconciledType DEF Boot, TypeInv, RowTypes
  <2>2. Replaying'
    BY <1>8 DEF Boot, chain, TypeInv, Replaying
  <2>3. booting' = FALSE /\ since' = Len(log) /\ live' = live /\ log' = log
    BY <1>8 DEF Boot, chain
  <2>4. OtherIndex'
    <3>1. booting' \in BOOLEAN
      BY <2>3
    <3> QED
      BY <1>0, <2>3, <3>1 DEF TypeInv, OtherIndex
  <2> QED
    BY <1>8, <2>1, <2>2, <2>4 DEF Boot, TypeInv
<1> QED
  BY <1>2, <1>3, <1>4, <1>5, <1>6, <1>7, <1>8 DEF HandlerStep

LEMMA FirstMatch ==
  ASSUME TypeInv, NEW t \in Thread, pc[t] \in {"publish", "record", "insert", "mark"}
  PROVE  First(found[t]) \in found[t] /\ First(found[t]) \in Match /\ found[t] \subseteq Match
<1>1. found[t] \subseteq Match /\ found[t] # {}
  BY DEF TypeInv, ThreadTypes
<1>2. found[t] \subseteq Nat
  BY <1>1, PipelineAssumption
<1> QED
  BY <1>1, <1>2, SmallestExists

(* A step of a thread leaves the others alone.                             *)
LEMMA NextPairTypes ==
  ASSUME TypeInv, NEW t \in Thread, NextPair(t), UNCHANGED job,
         out' = out \/ (\E o \in [published : BOOLEAN, existing : BOOLEAN, failed : BOOLEAN] :
                          out' = [out EXCEPT ![t] = o]),
         keyed' = keyed \/ keyed' = [keyed EXCEPT ![t] = FALSE]
  PROVE  ThreadTypes'
<1>1. /\ pc' = [pc EXCEPT ![t] = "pair"] /\ found' = [found EXCEPT ![t] = {}]
      /\ todo' = [todo EXCEPT ![t] = todo[t] \ {First(todo[t])}]
  BY DEF NextPair
<1>2. pc' \in [Thread -> {"idle", "pair", "auction", "publish", "record", "insert", "mark"}]
  BY <1>1 DEF TypeInv, ThreadTypes
<1>3. todo' \in [Thread -> SUBSET Pair] /\ found' \in [Thread -> SUBSET Match]
  BY <1>1 DEF TypeInv, ThreadTypes
<1>4. /\ \A u \in Thread : pc'[u] \notin {"idle", "pair"} => todo'[u] # {}
      /\ \A u \in Thread : pc'[u] \in {"publish", "record", "insert", "mark"} => found'[u] # {}
  BY <1>1 DEF TypeInv, ThreadTypes
<1>5. out' \in [Thread -> [published : BOOLEAN, existing : BOOLEAN, failed : BOOLEAN]]
  BY DEF TypeInv, ThreadTypes
<1>6. keyed' \in [Thread -> BOOLEAN]
  BY DEF TypeInv, ThreadTypes
<1>7. job' \in [Thread -> Batch \cup {None}]
  BY DEF TypeInv, ThreadTypes
<1> QED
  BY <1>2, <1>3, <1>4, <1>5, <1>6, <1>7, Zenon DEF ThreadTypes

LEMMA ThreadTypesStep ==
  ASSUME TypeInv, NEW t \in Thread,
         ThreadStep(t) \/ PairFault(t) \/ FinishFault(t) \/ \E b \in Batch : Begin(t, b)
  PROVE  TypeInv'
<1> USE PipelineAssumption, TypesKept
<1>0. out[t] \in [published : BOOLEAN, existing : BOOLEAN, failed : BOOLEAN]
  BY DEF TypeInv, ThreadTypes
<1>1. ASSUME NEW b \in Batch, Begin(t, b)
      PROVE  TypeInv'
  <2>1. ThreadTypes'
    BY <1>1 DEF Begin, TypeInv, ThreadTypes, Idle
  <2> QED
    BY <1>1, <2>1 DEF Begin, TypeInv, chain
<1>2. CASE CheckPair(t)
  <2>1. CASE NextPair(t)
    <3>1. out' = out \/ out' = [out EXCEPT ![t] = [out[t] EXCEPT !.existing = TRUE]]
      BY <1>2 DEF CheckPair
    <3>2. [out[t] EXCEPT !.existing = TRUE]
            \in [published : BOOLEAN, existing : BOOLEAN, failed : BOOLEAN]
      BY <1>0
    <3>3. ThreadTypes'
      BY <1>2, <2>1, <3>1, <3>2, NextPairTypes DEF CheckPair
    <3> QED
      BY <1>2, <3>3 DEF CheckPair, TypeInv, chain
  <2>2. CASE ~NextPair(t)
    <3>1. ThreadTypes'
      BY <1>2, <2>2, ZenonT(40) DEF CheckPair, TypeInv, ThreadTypes
    <3> QED
      BY <1>2, <3>1 DEF CheckPair, TypeInv, chain
  <2> QED
    BY <2>1, <2>2
<1>3. CASE RunAuction(t)
  <2>1. CASE NextPair(t)
    <3>1. ThreadTypes'
      BY <1>3, <2>1, NextPairTypes DEF RunAuction
    <3> QED
      BY <1>3, <3>1 DEF RunAuction, TypeInv, chain
  <2>2. CASE ~NextPair(t)
    <3>1. PICK ms : ms = Auction(job[t], First(todo[t]))
      OBVIOUS
    <3>2. ms \subseteq Match /\ ms # {}
      BY <1>3, <2>2, <3>1 DEF RunAuction, Auction
    <3>3. /\ found' = [found EXCEPT ![t] = ms] /\ pc' = [pc EXCEPT ![t] = "publish"]
          /\ UNCHANGED <<job, todo, out, keyed>> /\ pc[t] = "auction"
      BY <1>3, <2>2, <3>1 DEF RunAuction
    <3>4. ThreadTypes'
      BY <3>2, <3>3 DEF TypeInv, ThreadTypes
    <3> QED
      BY <1>3, <3>4 DEF RunAuction, TypeInv, chain
  <2> QED
    BY <2>1, <2>2
<1>4. CASE Publish(t)
  <2>0. found[t] \subseteq Match /\ pc[t] = "publish"
    BY <1>4, FirstMatch DEF Publish
  <2> DEFINE legs == UNION {Legs[m] : m \in found[t]}
  <2>1. CASE \A o \in legs : order[o] = "ACTIVE"
    <3>1. /\ match' = [m \in Match |-> IF m \in found[t] THEN "PENDING" ELSE match[m]]
          /\ order' = [o \in Order |-> IF o \in legs THEN "MATCHED" ELSE order[o]]
          /\ log' = log \o Publications(found[t])
          /\ out' = [out EXCEPT ![t].published = TRUE]
          /\ pc' = [pc EXCEPT ![t] = "record"]
          /\ UNCHANGED <<todo, found>>
          /\ UNCHANGED <<curBatch, expired, db, index, job, keyed, settler, bounds, orphaned>>
      BY <1>4, <2>1 DEF Publish, Emit
    <3>2. Publications(found[t]) \in Seq(Event)
      BY <2>0, ManyEvents
    <3>3. match' \in [Match -> MatchStatus \cup {None}] /\ order' \in [Order -> OrderStatus \cup {None}]
      BY <3>1 DEF TypeInv, ChainTypes, MatchStatus, OrderStatus
    <3>4. ChainTypes' /\ Replaying' /\ OtherIndex'
      BY <3>1, <3>2, <3>3, LogGrows DEF TypeInv, ChainTypes
    <3>5. [out[t] EXCEPT !.published = TRUE]
            \in [published : BOOLEAN, existing : BOOLEAN, failed : BOOLEAN]
      BY <1>0
    <3>6. ThreadTypes'
      BY <2>0, <3>1, <3>5 DEF TypeInv, ThreadTypes
    <3> QED
      BY <3>1, <3>4, <3>6 DEF TypeInv
  <2>2. CASE ~\A o \in legs : order[o] = "ACTIVE"
    <3>1. Fail(t) /\ UNCHANGED <<match, order, log>>
          /\ UNCHANGED <<curBatch, expired, db, index, job, keyed, settler, bounds, orphaned>>
      BY <1>4, <2>2 DEF Publish
    <3>2. [out[t] EXCEPT !.failed = TRUE]
            \in [published : BOOLEAN, existing : BOOLEAN, failed : BOOLEAN]
      BY <1>0
    <3>3. ThreadTypes'
      BY <3>1, <3>2, NextPairTypes DEF Fail
    <3> QED
      BY <3>1, <3>3 DEF TypeInv, chain
  <2> QED
    BY <2>1, <2>2
<1>5. CASE WriteTranscript(t)
  <2>1. First(found[t]) \in Match
    BY <1>5, FirstMatch DEF WriteTranscript
  <2>2. RowTypes'
    BY <1>5, <2>1 DEF WriteTranscript, TypeInv, RowTypes
  <2>3. ThreadTypes' /\ BoundTypes'
    <3>1. \E k \in BOOLEAN : keyed' = [keyed EXCEPT ![t] = k]
      BY <1>5 DEF WriteTranscript
    <3>2. keyed' \in [Thread -> BOOLEAN]
      BY <3>1 DEF TypeInv, ThreadTypes
    <3>3. pc' = [pc EXCEPT ![t] = "insert"] /\ pc[t] = "record" /\ UNCHANGED <<job, todo, found, out>>
      BY <1>5 DEF WriteTranscript
    <3>4. BoundTypes'
      BY <1>5 DEF WriteTranscript, TypeInv, BoundTypes
    <3> QED
      BY <3>2, <3>3, <3>4 DEF TypeInv, ThreadTypes
  <2> QED
    BY <1>5, <2>2, <2>3 DEF WriteTranscript, TypeInv, chain
<1>6. CASE InsertMatch(t)
  <2>1. First(found[t]) \in Match
    BY <1>6, FirstMatch DEF InsertMatch
  <2>2. RowTypes'
    BY <1>6, <2>1 DEF InsertMatch, TypeInv, RowTypes, MatchStatus
  <2>3. ThreadTypes'
    BY <1>6 DEF InsertMatch, TypeInv, ThreadTypes
  <2> QED
    BY <1>6, <2>2, <2>3 DEF InsertMatch, TypeInv, chain
<1>7. CASE MarkOrders(t)
  <2>1. First(found[t]) \in found[t]
    BY <1>7, FirstMatch DEF MarkOrders
  <2>2. RowTypes'
    BY <1>7, RowUpdates DEF MarkOrders, TypeInv, RowTypes
  <2>3. CASE NextPair(t)
    <3>1. ThreadTypes'
      BY <1>7, <2>3, NextPairTypes DEF MarkOrders
    <3> QED
      BY <1>7, <2>2, <3>1 DEF MarkOrders, TypeInv, chain
  <2>4. CASE ~NextPair(t)
    <3>0. PICK m : m = First(found[t])
      OBVIOUS
    <3>2. /\ found' = [found EXCEPT ![t] = found[t] \ {m}] /\ pc' = [pc EXCEPT ![t] = "record"]
          /\ UNCHANGED <<job, todo, out, keyed>> /\ found[t] # {m} /\ pc[t] = "mark"
      BY <1>7, <2>4, <3>0 DEF MarkOrders
    <3>1. ThreadTypes'
      BY <2>1, <3>0, <3>2 DEF TypeInv, ThreadTypes
    <3> QED
      BY <1>7, <2>2, <3>1 DEF MarkOrders, TypeInv, chain
  <2> QED
    BY <2>3, <2>4
<1>8. CASE Finish(t)
  <2>1. RowTypes'
    BY <1>8 DEF Finish, Outcome, TypeInv, RowTypes, BatchStatus
  <2>2. ThreadTypes'
    BY <1>8 DEF Finish, TypeInv, ThreadTypes, Idle
  <2> QED
    BY <1>8, <2>1, <2>2 DEF Finish, TypeInv, chain
<1>9. CASE PairFault(t)
  <2>1. [out[t] EXCEPT !.failed = TRUE]
          \in [published : BOOLEAN, existing : BOOLEAN, failed : BOOLEAN]
    BY <1>0
  <2>2. ThreadTypes'
    BY <1>9, <2>1, NextPairTypes DEF PairFault, Fail
  <2>3. BoundTypes'
    <3>1. Unrecorded(t) \subseteq Match
      BY DEF Unrecorded, TypeInv, ThreadTypes
    <3>2. faults' \in 0 .. MaxFaults
      BY <1>9 DEF PairFault, TypeInv, BoundTypes
    <3>3. orphaned' \subseteq Match
      BY <1>9, <3>1, Zenon DEF PairFault, TypeInv, BoundTypes
    <3> QED
      BY <1>9, <3>2, <3>3 DEF PairFault, TypeInv, BoundTypes
  <2> QED
    BY <1>9, <2>2, <2>3 DEF PairFault, TypeInv, chain
<1>10. CASE FinishFault(t)
  <2>1. ThreadTypes' /\ BoundTypes'
    BY <1>10 DEF FinishFault, TypeInv, ThreadTypes, BoundTypes, Idle
  <2> QED
    BY <1>10, <2>1 DEF FinishFault, TypeInv, chain
<1> QED
  BY <1>1, <1>2, <1>3, <1>4, <1>5, <1>6, <1>7, <1>8, <1>9, <1>10 DEF ThreadStep

LEMMA SettlerTypesStep ==
  ASSUME TypeInv, NEW s \in Settler,
         SettlerStep(s) \/ SettlerFault(s) \/ \E m \in Match : Consider(s, m) \/ Retry(s, m)
  PROVE  TypeInv'
<1> USE PipelineAssumption, TypesKept
<1>1. Stop(s) => SettlerTypes'
  BY DEF Stop, TypeInv, SettlerTypes
<1>2. ASSUME NEW m \in Match, Consider(s, m)
      PROVE  TypeInv'
  <2>0. match[m] \in MatchStatus \cup {None} /\ target' = [target EXCEPT ![s] = m] /\ step[s] = "idle"
    BY <1>2 DEF Consider, TypeInv, ChainTypes
  <2>1. CASE match[m] # "PENDING"
    <3>1. /\ step' = [step EXCEPT ![s] = "label"] /\ saw' = [saw EXCEPT ![s] = match[m]]
      BY <1>2, <2>1 DEF Consider
    <3>2. SettlerTypes'
      BY <2>0, <3>1 DEF TypeInv, SettlerTypes
    <3> QED
      BY <1>2, <3>2 DEF Consider, TypeInv, chain
  <2>2. CASE match[m] = "PENDING"
    <3>1. SettlerTypes'
      BY <1>2, <2>2 DEF Consider, TypeInv, SettlerTypes
    <3> QED
      BY <1>2, <3>1 DEF Consider, TypeInv, chain
  <2> QED
    BY <2>1, <2>2
<1>3. ASSUME NEW m \in Match, Retry(s, m)
      PROVE  TypeInv'
  <2>1. SettlerTypes'
    BY <1>3 DEF Retry, TypeInv, SettlerTypes
  <2> QED
    BY <1>3, <2>1 DEF Retry, TypeInv, chain
<1>4. CASE Label(s)
  <2>1. RowTypes'
    BY <1>4 DEF Label, TypeInv, RowTypes, SettlerTypes
  <2> QED
    BY <1>1, <1>4, <2>1 DEF Label, TypeInv, chain
<1>5. CASE Check(s)
  <2>1. SettlerTypes'
    BY <1>1, <1>5 DEF Check, TypeInv, SettlerTypes
  <2> QED
    BY <1>5, <2>1 DEF Check, TypeInv, chain
<1>6. CASE Send(s)
  <2>1. PICK m \in Match : m = target[s]
    BY <1>6 DEF Send, TypeInv, SettlerTypes
  <2>2. SettlerTypes'
    BY <1>1, <1>6 DEF Send, TypeInv, SettlerTypes
  <2>3. CASE Settleable(m)
    <3>1. /\ match' = [match EXCEPT ![m] = "SETTLED"]
          /\ order' = [o \in Order |-> IF o \in Legs[m] THEN "SETTLED" ELSE order[o]]
          /\ log' = log \o <<[name |-> "MatchSettled", id |-> m]>>
          /\ UNCHANGED <<curBatch, expired, db, index, matcher, bounds, orphaned>>
      BY <1>6, <2>1, <2>3 DEF Send, Emit
    <3>2. <<[name |-> "MatchSettled", id |-> m]>> \in Seq(Event)
      BY OneEvent
    <3>3. ChainTypes' /\ Replaying' /\ OtherIndex'
      BY <3>1, <3>2, LogGrows DEF TypeInv, ChainTypes, MatchStatus, OrderStatus
    <3> QED
      BY <2>2, <3>1, <3>3 DEF TypeInv
  <2>4. CASE ~Settleable(m)
    <3>1. UNCHANGED <<match, order, log, curBatch, expired, db, index, matcher, bounds, orphaned>>
      BY <1>6, <2>1, <2>4 DEF Send
    <3> QED
      BY <2>2, <3>1 DEF TypeInv, chain
  <2> QED
    BY <2>3, <2>4
<1>7. CASE SettleRow(s)
  <2>1. RowTypes'
    BY <1>7 DEF SettleRow, TypeInv, RowTypes, MatchStatus
  <2>2. SettlerTypes'
    BY <1>7 DEF SettleRow, TypeInv, SettlerTypes
  <2> QED
    BY <1>7, <2>1, <2>2 DEF SettleRow, TypeInv, chain
<1>8. CASE SettleOrders(s)
  <2>1. RowTypes'
    BY <1>8, RowUpdates DEF SettleOrders, TypeInv, RowTypes
  <2> QED
    BY <1>1, <1>8, <2>1 DEF SettleOrders, TypeInv, chain
<1>9. CASE SettlerFault(s)
  <2>1. BoundTypes'
    BY <1>9 DEF SettlerFault, TypeInv, BoundTypes
  <2> QED
    BY <1>1, <1>9, <2>1 DEF SettlerFault, TypeInv, chain
<1> QED
  BY <1>2, <1>3, <1>4, <1>5, <1>6, <1>7, <1>8, <1>9 DEF SettlerStep

LEMMA OtherTypesStep ==
  ASSUME TypeInv, (\E m \in Match : Repair(m)) \/ (\E p \in Process : Crash(p))
  PROVE  TypeInv'
<1> USE PipelineAssumption, TypesKept
<1>1. ASSUME NEW m \in Match, Repair(m)
      PROVE  TypeInv'
  <2>1. RowTypes'
    BY <1>1 DEF Repair, TypeInv, RowTypes
  <2> QED
    BY <1>1, <2>1 DEF Repair, TypeInv, chain
<1>2. ASSUME NEW p \in Process, Crash(p)
      PROVE  TypeInv'
  <2>1. Replaying' /\ OtherIndex'
    <3>1. p # Main => UNCHANGED <<log, index>>
      BY <1>2 DEF Crash, chain, index
    <3>2. CASE p = Main
      <4>1. handler' = {} /\ at' = cursor /\ booting' = TRUE /\ UNCHANGED <<log, cursor, since, live>>
        BY <1>2, <3>2 DEF Crash, chain
      <4>2. booting' \in BOOLEAN
        BY <4>1
      <4>3. Len(log) \in Nat
        BY DEF TypeInv, ChainTypes
      <4> QED
        BY <4>1, <4>2, <4>3 DEF TypeInv, Replaying, OtherIndex
    <3> QED
      BY <3>1, <3>2
  <2>2. ThreadTypes'
    <3>1. /\ pc' \in [Thread -> {"idle", "pair", "auction", "publish", "record", "insert", "mark"}]
          /\ job' \in [Thread -> Batch \cup {None}]
      BY <1>2 DEF Crash, TypeInv, ThreadTypes
    <3>2. todo' \in [Thread -> SUBSET Pair] /\ found' \in [Thread -> SUBSET Match]
      BY <1>2 DEF Crash, TypeInv, ThreadTypes
    <3>3. /\ out' \in [Thread -> [published : BOOLEAN, existing : BOOLEAN, failed : BOOLEAN]]
          /\ keyed' \in [Thread -> BOOLEAN]
      BY <1>2 DEF Crash, TypeInv, ThreadTypes, Idle
    <3>4. /\ \A u \in Thread : pc'[u] \notin {"idle", "pair"} => todo'[u] # {}
          /\ \A u \in Thread : pc'[u] \in {"publish", "record", "insert", "mark"} => found'[u] # {}
      BY <1>2 DEF Crash, TypeInv, ThreadTypes
    <3> QED
      BY <3>1, <3>2, <3>3, <3>4, Zenon DEF ThreadTypes
  <2>3. SettlerTypes'
    BY <1>2 DEF Crash, TypeInv, SettlerTypes
  <2>4. BoundTypes'
    <3>1. \A t \in Thread : Unrecorded(t) \subseteq Match
      BY DEF Unrecorded, TypeInv, ThreadTypes
    <3>2. orphaned' \subseteq Match
      <4>1. \E D \in SUBSET Thread : orphaned' = orphaned \cup UNION {Unrecorded(t) : t \in D}
        BY <1>2, Zenon DEF Crash
      <4>2. orphaned \subseteq Match
        BY DEF TypeInv, BoundTypes
      <4>3. PICK D \in SUBSET Thread : orphaned' = orphaned \cup UNION {Unrecorded(t) : t \in D}
        BY <4>1
      <4>4. \A m \in UNION {Unrecorded(t) : t \in D} : m \in Match
        <5> TAKE m \in UNION {Unrecorded(t) : t \in D}
        <5>1. PICK t \in D : m \in Unrecorded(t)
          OBVIOUS
        <5> QED
          BY <3>1, <5>1
      <4> QED
        BY <4>2, <4>3, <4>4
    <3>3. crashes' \in 0 .. MaxCrashes
      BY <1>2 DEF Crash, TypeInv, BoundTypes
    <3> QED
      BY <1>2, <3>2, <3>3 DEF Crash, TypeInv, BoundTypes
  <2> QED
    BY <1>2, <2>1, <2>2, <2>3, <2>4 DEF Crash, TypeInv
<1> QED
  BY <1>1, <1>2

LEMMA TypeStep == TypeInv /\ [Next]_vars => TypeInv'
<1> SUFFICES ASSUME TypeInv, [Next]_vars PROVE TypeInv'
  OBVIOUS
<1>1. CASE UNCHANGED vars
  BY <1>1, TypesKept DEF vars, chain, TypeInv
<1>2. CASE Next
  BY <1>2, ChainTypesStep, IndexTypesStep, ThreadTypesStep, SettlerTypesStep, OtherTypesStep
     DEF Next
<1> QED
  BY <1>1, <1>2

(* Whatever the calls, the faults and the crashes, every variable keeps    *)
(* its type: in particular the replay stays between its cursor and the end *)
(* of the log, and a call works on a pair and on matches it really has.    *)
THEOREM TypeCorrect == Spec => []TypeOK
<1>1. Spec => []TypeInv
  BY TypeInit, TypeStep, PTL DEF Spec
<1> QED
  BY <1>1, TypeParts, PTL

---------------------------------------------------------------------------
(* What the chain can become, and what a reading of it made earlier still  *)
(* says: an order or a match once there stays there, a matched order is at *)
(* most settled, and the final statuses are final.                         *)

OrderPast(s, c) ==
  /\ s # None => c # None
  /\ s = "MATCHED" => c \in {"MATCHED", "SETTLED"}
  /\ s \in {"SETTLED", "CANCELLED"} => c = s
MatchPast(s, c) ==
  /\ s # None => c # None
  /\ s \in {"DISPUTED", "SETTLED"} => c = s

Happened(ev) ==
  /\ ev.name = "OrderSubmitted" => order[ev.id] # None
  /\ ev.name = "BatchClosed" => ev.id < curBatch
  /\ ev.name = "MatchPublished" => match[ev.id] # None
  /\ ev.name = "MatchDisputed" => match[ev.id] = "DISPUTED"
  /\ ev.name = "MatchSettled" => match[ev.id] = "SETTLED"

(* The chain: an order is matched by a published match and settled with    *)
(* it, and an event stays true.                                            *)
ChainInv ==
  /\ \A m \in Match : match[m] # None => \A o \in Legs[m] : order[o] \in {"MATCHED", "SETTLED"}
  /\ \A m \in Match : match[m] = "SETTLED" => \A o \in Legs[m] : order[o] = "SETTLED"
  /\ \A o \in Order : order[o] \in {"MATCHED", "SETTLED"} =>
       \E m \in Match : o \in Legs[m] /\ match[m] # None
  /\ \A i \in 1 .. Len(log) : Happened(log[i])

(* The rows, and the readings that handlers and the settler still hold.    *)
RowInv ==
  /\ \A o \in Order : OrderPast(orderRow[o], order[o])
  /\ \A m \in Match : MatchPast(matchRow[m], match[m])
  /\ \A b \in Batch : batchRow[b] # None => b < curBatch
Honest(h) ==
  /\ log[h.at].name = "OrderSubmitted" => h.saw # None /\ OrderPast(h.saw, order[log[h.at].id])
  /\ log[h.at].name = "MatchPublished" => h.saw # None /\ MatchPast(h.saw, match[log[h.at].id])
  /\ h.phase = "orders" => log[h.at].name \in {"MatchPublished", "MatchSettled"}
HandlerInv == \A h \in handler : Honest(h)
SettlerInv ==
  \A s \in Settler :
    /\ step[s] = "label" => saw[s] \in {"DISPUTED", "SETTLED"} /\ saw[s] = match[target[s]]
    /\ step[s] = "send" => target[s] \in auditKey /\ target[s] \in transcript
    /\ step[s] \in {"row", "orders"} => match[target[s]] = "SETTLED"

(* A call of onBatchClosed works on a closed batch; what it has published  *)
(* no other call has.                                                      *)
Recording(t) == pc[t] \in {"record", "insert", "mark"}
ThreadInv ==
  /\ \A t \in Thread : pc[t] # "idle" => job[t] \in Batch /\ job[t] < curBatch
  /\ \A t \in Thread : pc[t] \in {"publish", "record", "insert", "mark"} =>
       \A m \in found[t] : MatchBatch(m) = job[t]
  /\ \A t \in Thread : Recording(t) => out[t].published /\ \A m \in found[t] : match[m] # None
  /\ \A t, u \in Thread : t # u /\ Recording(t) /\ Recording(u) => found[t] \cap found[u] = {}

(* A transcript is written once, by the call that published its match, and *)
(* the row's key is only ever taken away when there is none.               *)
AuditInv ==
  /\ auditKey \subseteq transcript
  /\ \A m \in transcript : match[m] # None
  /\ \A t \in Thread : pc[t] = "record" => found[t] \cap transcript = {}
  /\ \A t \in Thread : pc[t] \in {"insert", "mark"} => (found[t] \ {First(found[t])}) \cap transcript = {}
  /\ \A t \in Thread : pc[t] = "insert" => (keyed[t] <=> First(found[t]) \in transcript)
  /\ SettledIsAudited

(* A call started with every order of its batch indexed; a pair it is done *)
(* with and found nothing in has no match left to publish.                 *)
Closed(m) == match[m] # None \/ \E o \in Legs[m] : order[o] \in {None, "CANCELLED"}
Complete ==
  \A t \in Thread : pc[t] # "idle" =>
    \A o \in Order : BatchOf[o] = job[t] /\ order[o] # None => orderRow[o] # None
Clean ==
  \A t \in Thread : pc[t] # "idle" /\ out[t] = Idle =>
    \A m \in Match : MatchBatch(m) = job[t] /\ PairOf[m] \notin todo[t] => Closed(m)
AuctionInv == Complete /\ Clean /\ AuctionSawEveryOrder

PipelineInv == RowInv /\ HandlerInv /\ SettlerInv /\ ThreadInv /\ AuditInv /\ AuctionInv

(* With all calls in one process, which works on a batch in one call at a  *)
(* time, a published match is recorded, about to be or orphaned, and a     *)
(* pair that a call found empty has none but orphaned ones.                *)
Alone == \A t, u \in Thread : pc[t] # "idle" /\ pc[u] # "idle" /\ job[t] = job[u] => t = u
Recorded ==
  \A m \in Match : match[m] # None =>
    matchRow[m] # None \/ m \in orphaned \/ \E t \in Thread : m \in Unrecorded(t)
Passed(t) ==
  {m \in Match : /\ MatchBatch(m) = job[t]
                 /\ \/ PairOf[m] \notin todo[t]
                    \/ pc[t] \in {"auction", "publish"} /\ PairOf[m] = First(todo[t])}
Unseen ==
  \A t \in Thread : pc[t] # "idle" /\ out[t] = Idle =>
    \A m \in Passed(t) : match[m] # None => m \in orphaned
EmptyInv ==
  /\ Alone /\ Recorded /\ Unseen
  /\ \A m \in Match :
       match[m] # None /\ batchRow[MatchBatch(m)] = "MATCHED_EMPTY" => m \in orphaned

LEMMA PastRefl == \A s : OrderPast(s, s) /\ MatchPast(s, s)
BY DEF OrderPast, MatchPast

LEMMA PastNothing == \A c : OrderPast(None, c) /\ MatchPast(None, c)
BY Names DEF OrderPast, MatchPast, OrderStatus, MatchStatus

LEMMA PastTrans ==
  /\ \A r, s, c : OrderPast(r, s) /\ OrderPast(s, c) => OrderPast(r, c)
  /\ \A r, s, c : MatchPast(r, s) /\ MatchPast(s, c) => MatchPast(r, c)
BY DEF OrderPast, MatchPast

(* Which group of steps leaves which variables alone.                      *)
ChainStep ==
  \/ \E o \in Order : Submit(o) \/ Cancel(o)
  \/ Close
  \/ \E m \in Match : Dispute(m) \/ Expire(m)
IndexStep ==
  \/ \E i \in DOMAIN log : Deliver(i)
  \/ Replay \/ HandlerStep \/ Persist \/ Boot
  \/ \E h \in handler : HandlerFault(h)
AnyThreadStep(t) == ThreadStep(t) \/ PairFault(t) \/ FinishFault(t) \/ \E b \in Batch : Begin(t, b)
AnySettlerStep(s) == SettlerStep(s) \/ SettlerFault(s) \/ \E m \in Match : Consider(s, m) \/ Retry(s, m)

LEMMA Footprint ==
  /\ ChainStep => UNCHANGED <<db, index, matcher, settler, orphaned>>
  /\ IndexStep => UNCHANGED <<chain, auditKey, transcript, matcher, settler, orphaned>>
  /\ \A t \in Thread : AnyThreadStep(t) =>
       UNCHANGED <<curBatch, expired, handler, at, cursor, since, live, booting, step, target, saw>>
  /\ \A s \in Settler : AnySettlerStep(s) =>
       UNCHANGED <<curBatch, expired, batchRow, auditKey, transcript, index, matcher, orphaned>>
<1>1. ChainStep => UNCHANGED <<db, index, matcher, settler, orphaned>>
  BY DEF ChainStep, Submit, Cancel, Close, Dispute, Expire
<1>2. IndexStep => UNCHANGED <<chain, auditKey, transcript, matcher, settler, orphaned>>
  <2>1. ASSUME NEW h \in handler, HandlerWrite(h)
        PROVE  UNCHANGED <<chain, auditKey, transcript, matcher, settler, orphaned>>
    BY <2>1 DEF HandlerWrite, WriteOrder, WriteBatch, WriteMatch, WriteDisputed, WriteSettled
  <2> QED
    BY <2>1 DEF IndexStep, Deliver, Replay, HandlerStep, HandlerOrders, Persist, Boot,
       HandlerFault, db
<1>3. ASSUME NEW t \in Thread, AnyThreadStep(t)
      PROVE  UNCHANGED <<curBatch, expired, handler, at, cursor, since, live, booting, step, target, saw>>
  BY <1>3 DEF AnyThreadStep, ThreadStep, CheckPair, RunAuction, Publish, WriteTranscript,
     InsertMatch, MarkOrders, Finish, PairFault, FinishFault, Begin, chain, index, settler
<1>4. ASSUME NEW s \in Settler, AnySettlerStep(s)
      PROVE  UNCHANGED <<curBatch, expired, batchRow, auditKey, transcript, index, matcher, orphaned>>
  BY <1>4 DEF AnySettlerStep, SettlerStep, SettlerFault, Consider, Retry, Label, Check, Send,
     SettleRow, SettleOrders, chain, db
<1> QED
  BY <1>1, <1>2, <1>3, <1>4

LEMMA NextCases ==
  Next <=> \/ ChainStep \/ IndexStep
           \/ \E t \in Thread : AnyThreadStep(t)
           \/ \E s \in Settler : AnySettlerStep(s)
           \/ \E m \in Match : Repair(m)
           \/ \E p \in Process : Crash(p)
BY DEF Next, ChainStep, IndexStep, AnyThreadStep, AnySettlerStep

(* Every step moves the chain forward.                                     *)
Grown ==
  /\ \A o \in Order : OrderPast(order[o], order'[o])
  /\ \A o \in Order : order[o] = None /\ BatchOf[o] < curBatch => order'[o] = None
  /\ \A m \in Match : MatchPast(match[m], match'[m])
  /\ curBatch \in Nat /\ curBatch' \in Nat /\ curBatch <= curBatch'
  /\ \A i \in 1 .. Len(log) : i \in 1 .. Len(log') /\ log'[i] = log[i]

LEMMA HappenedStays ==
  ASSUME TypeInv, ChainInv, Grown, NEW i \in 1 .. Len(log)
  PROVE  Happened(log[i])'
<1>1. log[i] \in Event /\ Happened(log[i]) /\ log'[i] = log[i] /\ i \in 1 .. Len(log')
  BY DEF TypeInv, ChainTypes, ChainInv, Grown
<1>2. PICK ev \in Event : ev = log[i]
  BY <1>1
<1>3. Happened(ev) /\ log'[i] = ev
  BY <1>1, <1>2
<1>4. CASE ev.name = "OrderSubmitted"
  BY <1>3, <1>4 DEF Event, Happened, Grown, OrderPast
<1>5. CASE ev.name = "BatchClosed"
  BY <1>3, <1>5 DEF Event, Happened, Grown, Batch
<1>6. CASE ev.name \notin {"OrderSubmitted", "BatchClosed"}
  BY <1>3, <1>6 DEF Event, Happened, Grown, MatchPast
<1> QED
  BY <1>3, <1>4, <1>5, <1>6 DEF Event

(* Orders of two matches have nothing in common, and a match whose orders  *)
(* are all active is not published.                                        *)
LEMMA OneMatch ==
  /\ \A m, n \in Match : \A o \in Order : o \in Legs[m] /\ o \in Legs[n] => m = n
  /\ ChainInv => \A m \in Match : (\A o \in Legs[m] : order[o] = "ACTIVE") => match[m] = None
<1>1. \A m, n \in Match : \A o \in Order : o \in Legs[m] /\ o \in Legs[n] => m = n
  BY PipelineAssumption
<1>2. ASSUME ChainInv, NEW m \in Match, \A o \in Legs[m] : order[o] = "ACTIVE"
      PROVE  match[m] = None
  BY <1>2, LegsOfBatch DEF ChainInv
<1> QED
  BY <1>1, <1>2

LEMMA ChainKept ==
  ASSUME TypeInv, ChainInv, UNCHANGED chain
  PROVE  Grown /\ ChainInv'
<1>1. UNCHANGED <<curBatch, order, match, log>>
  BY DEF chain
<1>2. curBatch \in Nat /\ Len(log) \in Nat
  BY PipelineAssumption DEF TypeInv, ChainTypes
<1>3. Grown
  BY <1>1, <1>2, PastRefl DEF Grown
<1>4. ChainInv'
  BY <1>1 DEF ChainInv, Happened
<1> QED
  BY <1>3, <1>4

(* What is left to show of a step that appends events to the log.          *)
LEMMA ChainMoves ==
  ASSUME TypeInv, ChainInv, NEW u \in Seq(Event), log' = log \o u,
         \A j \in DOMAIN u : Happened(u[j])',
         \A o \in Order : OrderPast(order[o], order'[o]),
         \A o \in Order : order[o] = None /\ BatchOf[o] < curBatch => order'[o] = None,
         \A m \in Match : MatchPast(match[m], match'[m]),
         curBatch' = curBatch \/ curBatch' = curBatch + 1,
         \A m \in Match : match'[m] # None => \A o \in Legs[m] : order'[o] \in {"MATCHED", "SETTLED"},
         \A m \in Match : match'[m] = "SETTLED" => \A o \in Legs[m] : order'[o] = "SETTLED",
         \A o \in Order : order'[o] \in {"MATCHED", "SETTLED"} =>
           \E m \in Match : o \in Legs[m] /\ match'[m] # None
  PROVE  Grown /\ ChainInv'
<1>1. curBatch \in Nat /\ curBatch' \in Nat /\ curBatch <= curBatch'
  BY PipelineAssumption DEF TypeInv, ChainTypes
<1>2. /\ \A i \in 1 .. Len(log) : i \in 1 .. Len(log') /\ log'[i] = log[i]
      /\ \A i \in 1 .. Len(log') : i \notin 1 .. Len(log) => \E j \in DOMAIN u : log'[i] = u[j]
  BY LogGrows
<1>3. Grown
  BY <1>1, <1>2 DEF Grown
<1>4. ASSUME NEW i \in 1 .. Len(log')
      PROVE  Happened(log[i])'
  <2>1. CASE i \in 1 .. Len(log)
    BY <1>3, <2>1, HappenedStays
  <2>2. CASE i \notin 1 .. Len(log)
    <3>1. PICK j \in DOMAIN u : log'[i] = u[j]
      BY <1>2, <2>2
    <3>2. Happened(u[j])'
      OBVIOUS
    <3> QED
      BY <3>1, <3>2 DEF Happened
  <2> QED
    BY <2>1, <2>2
<1> QED
  BY <1>3, <1>4 DEF ChainInv

LEMMA ChainStepGrows ==
  ASSUME TypeInv, ChainInv, ChainStep
  PROVE  Grown /\ ChainInv'
<1> USE PipelineAssumption
<1>0. /\ \A o \in Order : order[o] \in OrderStatus \cup {None}
      /\ \A m \in Match : match[m] \in MatchStatus \cup {None}
      /\ order \in [Order -> OrderStatus \cup {None}] /\ match \in [Match -> MatchStatus \cup {None}]
      /\ log \in Seq(Event) /\ curBatch \in Nat
  BY DEF TypeInv, ChainTypes
<1>1. ASSUME NEW o \in Order, Submit(o)
      PROVE  Grown /\ ChainInv'
  <2>1. /\ order[o] = None /\ BatchOf[o] = curBatch
        /\ order' = [order EXCEPT ![o] = "ACTIVE"] /\ UNCHANGED <<curBatch, match>>
        /\ log' = log \o <<[name |-> "OrderSubmitted", id |-> o]>>
    BY <1>1 DEF Submit, Emit
  <2>2. <<[name |-> "OrderSubmitted", id |-> o]>> \in Seq(Event)
    BY OneEvent
  <2>3. order'[o] = "ACTIVE" /\ \A q \in Order : q # o => order'[q] = order[q]
    BY <1>0, <2>1
  <2>4. \A q \in Order : OrderPast(order[q], order'[q])
    BY <2>1, <2>3, PastRefl, PastNothing
  <2>5. "ACTIVE" # None /\ None \notin {"MATCHED", "SETTLED"}
    BY Names DEF OrderStatus
  <2>6. \A j \in DOMAIN <<[name |-> "OrderSubmitted", id |-> o]>> :
          Happened(<<[name |-> "OrderSubmitted", id |-> o]>>[j])'
    BY <2>3, <2>5 DEF Happened
  <2>7. \A m \in Match : match[m] # None => o \notin Legs[m]
    BY <2>1, <2>5 DEF ChainInv
  <2>8. \A m \in Match : match'[m] # None => \A q \in Legs[m] : order'[q] \in {"MATCHED", "SETTLED"}
    BY <2>1, <2>3, <2>7, LegsOfBatch DEF ChainInv
  <2>9. \A m \in Match : match'[m] = "SETTLED" => \A q \in Legs[m] : order'[q] = "SETTLED"
    <3>1. "SETTLED" # None
      BY Names DEF OrderStatus
    <3> QED
      BY <2>1, <2>3, <2>7, <3>1, LegsOfBatch DEF ChainInv
  <2>10. \A q \in Order : order'[q] \in {"MATCHED", "SETTLED"} =>
           \E m \in Match : q \in Legs[m] /\ match'[m] # None
    BY <2>1, <2>3 DEF ChainInv
  <2>11. \A q \in Order : order[q] = None /\ BatchOf[q] < curBatch => order'[q] = None
    BY <1>0, <2>1, <2>3
  <2> QED
    BY <2>1, <2>2, <2>4, <2>6, <2>8, <2>9, <2>10, <2>11, <1>0, PastRefl, ChainMoves
<1>2. ASSUME NEW o \in Order, Cancel(o)
      PROVE  Grown /\ ChainInv'
  <2>1. /\ order[o] = "ACTIVE" /\ order' = [order EXCEPT ![o] = "CANCELLED"]
        /\ UNCHANGED <<curBatch, match, log>>
    BY <1>2 DEF Cancel
  <2>2. order'[o] = "CANCELLED" /\ \A q \in Order : q # o => order'[q] = order[q]
    BY <1>0, <2>1
  <2>3. "CANCELLED" # None /\ "ACTIVE" # None
    BY Names DEF OrderStatus
  <2>4. \A q \in Order : OrderPast(order[q], order'[q])
    BY <2>1, <2>2, <2>3, PastRefl DEF OrderPast
  <2>5. Grown
    BY <1>0, <2>1, <2>2, <2>3, <2>4, PastRefl DEF Grown
  <2>6. \A i \in 1 .. Len(log) : Happened(log[i])'
    BY <2>5, HappenedStays
  <2>7. \A m \in Match : match[m] # None => o \notin Legs[m]
    BY <2>1 DEF ChainInv
  <2>8. \A m \in Match : match'[m] # None => \A q \in Legs[m] : order'[q] \in {"MATCHED", "SETTLED"}
    <3> SUFFICES ASSUME NEW m \in Match, match'[m] # None, NEW q \in Legs[m]
                 PROVE  order'[q] \in {"MATCHED", "SETTLED"}
      OBVIOUS
    <3>1. q \in Order /\ match[m] # None
      BY <2>1, LegsOfBatch
    <3>2. order'[q] = order[q]
      BY <2>2, <2>7, <3>1
    <3> QED
      BY <3>1, <3>2 DEF ChainInv
  <2>9. \A m \in Match : match'[m] = "SETTLED" => \A q \in Legs[m] : order'[q] = "SETTLED"
    <3>1. "SETTLED" # None
      BY Names DEF OrderStatus
    <3> QED
      BY <2>1, <2>2, <2>7, <3>1, LegsOfBatch DEF ChainInv
  <2>10. \A q \in Order : order'[q] \in {"MATCHED", "SETTLED"} =>
           \E m \in Match : q \in Legs[m] /\ match'[m] # None
    BY <2>1, <2>2 DEF ChainInv
  <2> QED
    BY <2>1, <2>5, <2>6, <2>8, <2>9, <2>10 DEF ChainInv
<1>3. CASE Close
  <2>0. PICK b : b = curBatch
    OBVIOUS
  <2>1. /\ b \in Batch /\ curBatch' = b + 1 /\ UNCHANGED <<order, match>>
        /\ log' = log \o <<[name |-> "BatchClosed", id |-> b]>>
    BY <1>3, <2>0 DEF Close, Emit
  <2>2. <<[name |-> "BatchClosed", id |-> b]>> \in Seq(Event)
    BY <2>1, OneEvent
  <2>3. \A k \in DOMAIN <<[name |-> "BatchClosed", id |-> b]>> :
          Happened(<<[name |-> "BatchClosed", id |-> b]>>[k])'
    <3>1. b < curBatch'
      BY <1>0, <2>0, <2>1
    <3> QED
      BY <3>1 DEF Happened
  <2>4. curBatch' = curBatch + 1
    BY <2>0, <2>1
  <2>5. /\ \A o \in Order : OrderPast(order[o], order'[o])
        /\ \A o \in Order : order[o] = None /\ BatchOf[o] < curBatch => order'[o] = None
        /\ \A m \in Match : MatchPast(match[m], match'[m])
    BY <2>1, PastRefl
  <2>6. /\ \A m \in Match : match'[m] # None => \A o \in Legs[m] : order'[o] \in {"MATCHED", "SETTLED"}
        /\ \A m \in Match : match'[m] = "SETTLED" => \A o \in Legs[m] : order'[o] = "SETTLED"
        /\ \A o \in Order : order'[o] \in {"MATCHED", "SETTLED"} =>
             \E m \in Match : o \in Legs[m] /\ match'[m] # None
    BY <2>1 DEF ChainInv
  <2> QED
    BY <2>1, <2>2, <2>3, <2>4, <2>5, <2>6, ChainMoves
<1>4. ASSUME NEW m \in Match, Dispute(m)
      PROVE  Grown /\ ChainInv'
  <2>1. /\ match[m] = "PENDING" /\ match' = [match EXCEPT ![m] = "DISPUTED"]
        /\ UNCHANGED <<curBatch, order>>
        /\ log' = log \o <<[name |-> "MatchDisputed", id |-> m]>>
    BY <1>4 DEF Dispute, Emit
  <2>2. <<[name |-> "MatchDisputed", id |-> m]>> \in Seq(Event)
    BY OneEvent
  <2>3. match'[m] = "DISPUTED" /\ \A n \in Match : n # m => match'[n] = match[n]
    BY <1>0, <2>1
  <2>4. "DISPUTED" # None /\ "PENDING" # None
    BY Names DEF MatchStatus
  <2>5. \A j \in DOMAIN <<[name |-> "MatchDisputed", id |-> m]>> :
          Happened(<<[name |-> "MatchDisputed", id |-> m]>>[j])'
    BY <2>3 DEF Happened
  <2>6. \A n \in Match : MatchPast(match[n], match'[n])
    BY <2>1, <2>3, <2>4, PastRefl DEF MatchPast
  <2>7. \A n \in Match : match'[n] # None => \A q \in Legs[n] : order'[q] \in {"MATCHED", "SETTLED"}
    BY <2>1, <2>3, <2>4 DEF ChainInv
  <2>8. \A n \in Match : match'[n] = "SETTLED" => \A q \in Legs[n] : order'[q] = "SETTLED"
    BY <2>1, <2>3 DEF ChainInv
  <2>9. \A q \in Order : order'[q] \in {"MATCHED", "SETTLED"} =>
           \E n \in Match : q \in Legs[n] /\ match'[n] # None
    BY <2>1, <2>3, <2>4 DEF ChainInv
  <2> QED
    BY <2>1, <2>2, <2>5, <2>6, <2>7, <2>8, <2>9, PastRefl, ChainMoves
<1>5. ASSUME NEW m \in Match, Expire(m)
      PROVE  Grown /\ ChainInv'
  <2>1. UNCHANGED <<curBatch, order, match, log>>
    BY <1>5 DEF Expire
  <2>2. Grown
    BY <1>0, <2>1, PastRefl DEF Grown
  <2> QED
    BY <2>1, <2>2 DEF ChainInv, Happened
<1> QED
  BY <1>1, <1>2, <1>3, <1>4, <1>5 DEF ChainStep

LEMMA PublishGrows ==
  ASSUME TypeInv, ChainInv, NEW t \in Thread, Publish(t)
  PROVE  Grown /\ ChainInv'
<1>0. /\ \A o \in Order : order[o] \in OrderStatus \cup {None}
      /\ \A m \in Match : match[m] \in MatchStatus \cup {None}
      /\ found[t] \subseteq Match
  BY FirstMatch DEF TypeInv, ChainTypes, Publish
<1> DEFINE legs == UNION {Legs[m] : m \in found[t]}
<1>1. CASE \A o \in legs : order[o] = "ACTIVE"
  <2>1. PICK ms : ms = found[t]
    OBVIOUS
  <2>2. /\ match' = [m \in Match |-> IF m \in ms THEN "PENDING" ELSE match[m]]
        /\ order' = [o \in Order |-> IF o \in UNION {Legs[m] : m \in ms} THEN "MATCHED" ELSE order[o]]
        /\ log' = log \o Publications(ms) /\ UNCHANGED curBatch
    BY <1>1, <2>1 DEF Publish, Emit
  <2>3. /\ ms \subseteq Match /\ \A m \in ms : match[m] = None
        /\ \A m \in ms : \A o \in Legs[m] : order[o] = "ACTIVE"
    BY <1>0, <1>1, <2>1, OneMatch
  <2>4. /\ Publications(ms) \in Seq(Event)
        /\ \A i \in DOMAIN Publications(ms) :
             Publications(ms)[i].name = "MatchPublished" /\ Publications(ms)[i].id \in ms
    BY <2>3, ManyEvents
  <2>5. /\ None \notin {"PENDING", "ACTIVE", "MATCHED", "SETTLED"}
    BY Names DEF OrderStatus, MatchStatus
  <2>6. \A j \in DOMAIN Publications(ms) : Happened(Publications(ms)[j])'
    <3> TAKE j \in DOMAIN Publications(ms)
    <3>1. PICK ev : ev = Publications(ms)[j]
      OBVIOUS
    <3>2. ev.name = "MatchPublished" /\ ev.id \in ms
      BY <2>4, <3>1
    <3>3. match'[ev.id] # None
      BY <2>2, <2>3, <2>5, <3>2
    <3>4. Happened(ev)'
      BY <3>2, <3>3 DEF Happened
    <3> QED
      BY <3>1, <3>4 DEF Publications
  <2>7. \A m \in Match : MatchPast(match[m], match'[m])
    BY <2>2, <2>3, PastRefl, PastNothing
  <2>8. \A m \in ms : \A o \in Legs[m] : order'[o] = "MATCHED"
    BY <2>2, <2>3, LegsOfBatch
  <2>9. \A o \in Order : \/ order'[o] = order[o]
                         \/ order[o] = "ACTIVE" /\ order'[o] = "MATCHED" /\ \E m \in ms : o \in Legs[m]
    BY <2>2, <2>3
  <2>10. \A o \in Order : OrderPast(order[o], order'[o])
    BY <2>5, <2>9, PastRefl DEF OrderPast
  <2>11. \A o \in Order : order[o] = None => order'[o] = None
    BY <2>5, <2>9
  <2>12. \A m \in Match : match'[m] # None => \A o \in Legs[m] : order'[o] \in {"MATCHED", "SETTLED"}
    <3> TAKE m \in Match
    <3>1. CASE m \in ms
      BY <2>8, <3>1
    <3>2. CASE m \notin ms
      BY <2>2, <2>9, <3>2, LegsOfBatch DEF ChainInv
    <3> QED
      BY <3>1, <3>2
  <2>13. \A m \in Match : match'[m] = "SETTLED" => \A o \in Legs[m] : order'[o] = "SETTLED"
    <3>1. ASSUME NEW m \in Match, match'[m] = "SETTLED", NEW o \in Legs[m]
          PROVE  order'[o] = "SETTLED"
      <4>1. match[m] = "SETTLED" /\ o \in Order
        BY <2>2, <3>1, LegsOfBatch
      <4>2. order[o] = "SETTLED"
        BY <4>1 DEF ChainInv
      <4> QED
        BY <2>9, <4>1, <4>2
    <3> QED
      BY <3>1
  <2>14. \A o \in Order : order'[o] \in {"MATCHED", "SETTLED"} =>
           \E m \in Match : o \in Legs[m] /\ match'[m] # None
    <3> TAKE o \in Order
    <3>1. CASE \E m \in ms : o \in Legs[m]
      BY <2>2, <2>3, <2>5, <3>1
    <3>2. CASE ~\E m \in ms : o \in Legs[m]
      <4>1. order'[o] = order[o]
        BY <2>9, <3>2
      <4> QED
        BY <2>2, <3>2, <4>1 DEF ChainInv
    <3> QED
      BY <3>1, <3>2
  <2> QED
    BY <2>2, <2>4, <2>6, <2>7, <2>10, <2>11, <2>12, <2>13, <2>14, ChainMoves
<1>2. CASE ~\A o \in legs : order[o] = "ACTIVE"
  BY <1>2, ChainKept DEF Publish, chain
<1> QED
  BY <1>1, <1>2

LEMMA SendGrows ==
  ASSUME TypeInv, ChainInv, NEW s \in Settler, Send(s)
  PROVE  Grown /\ ChainInv'
<1>1. PICK m \in Match : m = target[s]
  BY DEF Send, TypeInv, SettlerTypes
<1>2. CASE Settleable(m)
  <2>1. /\ match[m] = "PENDING" /\ match' = [match EXCEPT ![m] = "SETTLED"]
        /\ order' = [o \in Order |-> IF o \in Legs[m] THEN "SETTLED" ELSE order[o]]
        /\ log' = log \o <<[name |-> "MatchSettled", id |-> m]>> /\ UNCHANGED curBatch
    BY <1>1, <1>2 DEF Send, Emit, Settleable
  <2>2. <<[name |-> "MatchSettled", id |-> m]>> \in Seq(Event)
    BY OneEvent
  <2>3. match'[m] = "SETTLED" /\ \A n \in Match : n # m => match'[n] = match[n]
    BY <2>1 DEF TypeInv, ChainTypes
  <2>4. None \notin {"PENDING", "MATCHED", "SETTLED"}
    BY Names DEF OrderStatus, MatchStatus
  <2>5. \A j \in DOMAIN <<[name |-> "MatchSettled", id |-> m]>> :
          Happened(<<[name |-> "MatchSettled", id |-> m]>>[j])'
    BY <2>3 DEF Happened
  <2>6. \A n \in Match : MatchPast(match[n], match'[n])
    BY <2>1, <2>3, <2>4, PastRefl DEF MatchPast
  <2>7. /\ \A o \in Order : o \notin Legs[m] => order'[o] = order[o]
        /\ \A o \in Legs[m] : order'[o] = "SETTLED" /\ order[o] \in {"MATCHED", "SETTLED"} /\ o \in Order
    BY <2>1, <2>4, LegsOfBatch DEF ChainInv
  <2>8. \A o \in Order : OrderPast(order[o], order'[o])
    BY <2>4, <2>7, PastRefl DEF OrderPast
  <2>9. \A o \in Order : order[o] = None => order'[o] = None
    BY <2>4, <2>7
  <2>10. \A n \in Match : n # m => \A o \in Legs[n] : order'[o] = order[o]
    BY <2>7, OneMatch, LegsOfBatch
  <2>11. \A n \in Match : match'[n] # None => \A o \in Legs[n] : order'[o] \in {"MATCHED", "SETTLED"}
    BY <2>3, <2>7, <2>10 DEF ChainInv
  <2>12. \A n \in Match : match'[n] = "SETTLED" => \A o \in Legs[n] : order'[o] = "SETTLED"
    BY <2>3, <2>7, <2>10 DEF ChainInv
  <2>13. \A o \in Order : order'[o] \in {"MATCHED", "SETTLED"} =>
           \E n \in Match : o \in Legs[n] /\ match'[n] # None
    BY <2>3, <2>4, <2>7 DEF ChainInv
  <2> QED
    BY <2>1, <2>2, <2>5, <2>6, <2>8, <2>9, <2>11, <2>12, <2>13, ChainMoves
<1>3. CASE ~Settleable(m)
  BY <1>1, <1>3, ChainKept DEF Send, chain
<1> QED
  BY <1>2, <1>3

(* Every step of the system moves the chain forward only.                  *)
LEMMA ChainSound ==
  ASSUME TypeInv, ChainInv, [Next]_vars
  PROVE  Grown /\ ChainInv'
<1>1. CASE UNCHANGED vars
  BY <1>1, ChainKept DEF vars
<1>2. CASE ChainStep
  BY <1>2, ChainStepGrows
<1>3. CASE IndexStep
  BY <1>3, Footprint, ChainKept
<1>4. ASSUME NEW t \in Thread, AnyThreadStep(t)
      PROVE  Grown /\ ChainInv'
  <2>1. CASE Publish(t)
    BY <2>1, PublishGrows
  <2>2. CASE ~Publish(t)
    <3>1. UNCHANGED chain
      BY <1>4, <2>2 DEF AnyThreadStep, ThreadStep, CheckPair, RunAuction, WriteTranscript,
         InsertMatch, MarkOrders, Finish, PairFault, FinishFault, Begin
    <3> QED
      BY <3>1, ChainKept
  <2> QED
    BY <2>1, <2>2
<1>5. ASSUME NEW s \in Settler, AnySettlerStep(s)
      PROVE  Grown /\ ChainInv'
  <2>1. CASE Send(s)
    BY <2>1, SendGrows
  <2>2. CASE ~Send(s)
    <3>1. UNCHANGED chain
      BY <1>5, <2>2 DEF AnySettlerStep, SettlerStep, SettlerFault, Consider, Retry, Label, Check,
         SettleRow, SettleOrders
    <3> QED
      BY <3>1, ChainKept
  <2> QED
    BY <2>1, <2>2
<1>6. ASSUME NEW m \in Match, Repair(m)
      PROVE  Grown /\ ChainInv'
  BY <1>6, ChainKept DEF Repair
<1>7. ASSUME NEW p \in Process, Crash(p)
      PROVE  Grown /\ ChainInv'
  BY <1>7, ChainKept DEF Crash
<1> QED
  BY <1>1, <1>2, <1>3, <1>4, <1>5, <1>6, <1>7, NextCases

LEMMA ChainInit == Init => ChainInv
<1> SUFFICES ASSUME Init PROVE ChainInv
  OBVIOUS
<1>1. None \notin {"MATCHED", "SETTLED"}
  BY Names DEF OrderStatus
<1> QED
  BY <1>1 DEF Init, ChainInv

---------------------------------------------------------------------------
(* The rows never run ahead of the chain.                                  *)

LEMMA RowKept ==
  ASSUME RowInv, TypeInv, Grown, UNCHANGED <<batchRow, orderRow, matchRow>>
  PROVE  RowInv'
<1>1. \A o \in Order : OrderPast(orderRow'[o], order'[o])
  BY PastTrans DEF RowInv, Grown
<1>2. \A m \in Match : MatchPast(matchRow'[m], match'[m])
  BY PastTrans DEF RowInv, Grown
<1>3. \A b \in Batch : batchRow'[b] # None => b < curBatch'
  BY DEF RowInv, Grown, Batch
<1> QED
  BY <1>1, <1>2, <1>3 DEF RowInv

LEMMA MarkedSound ==
  ASSUME TypeInv, ChainInv, RowInv, NEW m \in Match
  PROVE  /\ match[m] # None => \A o \in Order : OrderPast(MarkedMatched(Legs[m])[o], order[o])
         /\ match[m] = "SETTLED" => \A o \in Order : OrderPast(MarkedSettled(Legs[m])[o], order[o])
<1>0. None \notin {"MATCHED", "SETTLED"}
  BY Names DEF OrderStatus
<1>1. ASSUME match[m] # None, NEW o \in Order
      PROVE  OrderPast(MarkedMatched(Legs[m])[o], order[o])
  <2>1. CASE MarkedMatched(Legs[m])[o] = orderRow[o]
    BY <2>1 DEF RowInv
  <2>2. CASE o \in Legs[m] /\ MarkedMatched(Legs[m])[o] = "MATCHED"
    BY <1>0, <1>1, <2>2 DEF OrderPast, ChainInv
  <2> QED
    BY <2>1, <2>2 DEF MarkedMatched
<1>2. ASSUME match[m] = "SETTLED", NEW o \in Order
      PROVE  OrderPast(MarkedSettled(Legs[m])[o], order[o])
  <2>1. CASE MarkedSettled(Legs[m])[o] = orderRow[o]
    BY <2>1 DEF RowInv
  <2>2. CASE o \in Legs[m] /\ MarkedSettled(Legs[m])[o] = "SETTLED"
    BY <1>0, <1>2, <2>2 DEF OrderPast, ChainInv
  <2> QED
    BY <2>1, <2>2 DEF MarkedSettled
<1> QED
  BY <1>1, <1>2

LEMMA ReconciledSound ==
  ASSUME TypeInv, ChainInv, RowInv, NEW o \in Order
  PROVE  OrderPast(Reconciled[o], order[o])
<1>0. None \notin {"PENDING", "DISPUTED", "MATCHED", "SETTLED"}
  BY Names DEF OrderStatus, MatchStatus
<1>1. ASSUME NEW m \in Match, o \in Legs[m], matchRow[m] # None
      PROVE  order[o] \in {"MATCHED", "SETTLED"}
  BY <1>1 DEF RowInv, MatchPast, ChainInv
<1>2. ASSUME NEW m \in Match, o \in Legs[m], matchRow[m] = "SETTLED"
      PROVE  order[o] = "SETTLED"
  BY <1>2 DEF RowInv, MatchPast, ChainInv
<1>3. \/ Reconciled[o] = orderRow[o]
      \/ Reconciled[o] = "MATCHED" /\ \E m \in Match : o \in Legs[m] /\ matchRow[m] \in {"PENDING", "DISPUTED"}
      \/ Reconciled[o] = "SETTLED" /\ \E m \in Match : o \in Legs[m] /\ matchRow[m] \in {"SETTLED"}
  BY DEF Reconciled
<1>4. CASE Reconciled[o] = orderRow[o]
  BY <1>4 DEF RowInv
<1>5. CASE Reconciled[o] = "MATCHED" /\ \E m \in Match : o \in Legs[m] /\ matchRow[m] \in {"PENDING", "DISPUTED"}
  BY <1>0, <1>1, <1>5 DEF OrderPast
<1>6. CASE Reconciled[o] = "SETTLED" /\ \E m \in Match : o \in Legs[m] /\ matchRow[m] \in {"SETTLED"}
  BY <1>0, <1>2, <1>6 DEF OrderPast
<1> QED
  BY <1>3, <1>4, <1>5, <1>6

LEMMA HonestStays ==
  ASSUME TypeInv, Grown, NEW h \in handler, Honest(h)
  PROVE  Honest(h)'
<1>1. h.at \in 1 .. Len(log) /\ log[h.at] \in Event /\ log'[h.at] = log[h.at]
  BY DEF TypeInv, ChainTypes, Replaying, Grown
<1>2. PICK ev \in Event : ev = log[h.at]
  BY <1>1
<1>3. log'[h.at] = ev
  BY <1>1, <1>2
<1>4. ev.name = "OrderSubmitted" => ev.id \in Order
  BY DEF Event
<1>5. ev.name = "MatchPublished" => ev.id \in Match
  BY DEF Event
<1>6. log'[h.at].name = "OrderSubmitted" => h.saw # None /\ OrderPast(h.saw, order'[log'[h.at].id])
  BY <1>2, <1>3, <1>4, PastTrans DEF Honest, Grown
<1>7. log'[h.at].name = "MatchPublished" => h.saw # None /\ MatchPast(h.saw, match'[log'[h.at].id])
  BY <1>2, <1>3, <1>5, PastTrans DEF Honest, Grown
<1> QED
  BY <1>2, <1>3, <1>6, <1>7 DEF Honest

LEMMA HandlerStepSound ==
  ASSUME TypeInv, ChainInv, RowInv, HandlerInv, Grown, IndexStep
  PROVE  RowInv' /\ HandlerInv'
<1>0. UNCHANGED <<curBatch, order, match, log>>
  BY Footprint DEF chain
<1>a. /\ DOMAIN log = 1 .. Len(log) /\ \A i \in 1 .. Len(log) : log[i] \in Event /\ Happened(log[i])
      /\ \A h \in handler : h \in Handler /\ h.at \in 1 .. Len(log)
  BY DEF TypeInv, ChainTypes, ChainInv, Replaying
<1>b. handler' \subseteq handler => HandlerInv'
  BY HonestStays DEF HandlerInv
<1>c. ASSUME NEW v, NEW i \in 1 .. Len(log), Receive(v, i)
      PROVE  HandlerInv'
  <2>1. PICK k : k = [via |-> v, at |-> i, saw |-> Reading(log[i]), phase |-> "write"]
    OBVIOUS
  <2>2. k.at = i /\ k.saw = Reading(log[i]) /\ k.phase = "write" /\ log'[i] = log[i]
    BY <1>0, <2>1
  <2>3. Honest(k)'
    <3>1. PICK ev \in Event : ev = log[i]
      BY <1>a
    <3>2. Happened(ev) /\ log'[i] = ev /\ k.saw = Reading(ev)
      BY <1>a, <2>2, <3>1
    <3>3. ev.name = "OrderSubmitted" => k.saw = order[ev.id] /\ k.saw # None
      BY <3>2 DEF Happened, Reading
    <3>4. ev.name = "MatchPublished" => k.saw = match[ev.id] /\ k.saw # None
      BY <3>2 DEF Happened, Reading
    <3> QED
      BY <1>0, <2>2, <3>2, <3>3, <3>4, PastRefl DEF Honest
  <2>4. handler' = handler \cup {k}
    BY <1>c, <2>1 DEF Receive
  <2> QED
    BY <2>3, <2>4, HonestStays DEF HandlerInv
<1>d. ASSUME NEW h \in handler, Done(h)
      PROVE  HandlerInv'
  BY <1>b, <1>d DEF Done
<1>e. ASSUME NEW h \in handler, ThenOrders(h), log[h.at].name \in {"MatchPublished", "MatchSettled"}
      PROVE  HandlerInv'
  <2>1. PICK k : k = [h EXCEPT !.phase = "orders"]
    OBVIOUS
  <2>2. k.at = h.at /\ k.saw = h.saw
    BY <1>a, <2>1 DEF Handler
  <2>3. Honest(h)' /\ log'[h.at].name \in {"MatchPublished", "MatchSettled"}
    BY <1>0, <1>e, HonestStays DEF HandlerInv
  <2>4. Honest(k)'
    BY <2>2, <2>3 DEF Honest
  <2>5. handler' = (handler \ {h}) \cup {k}
    BY <1>e, <2>1 DEF ThenOrders
  <2> QED
    BY <2>4, <2>5, HonestStays DEF HandlerInv
<1>1. ASSUME NEW i \in DOMAIN log, Deliver(i)
      PROVE  RowInv' /\ HandlerInv'
  <2>1. RowInv'
    BY <1>1, RowKept DEF Deliver, db
  <2> QED
    BY <1>a, <1>c, <1>1, <2>1 DEF Deliver
<1>2. CASE Replay
  <2>1. RowInv'
    BY <1>2, RowKept DEF Replay, db
  <2>2. at + 1 \in 1 .. Len(log)
    BY <1>2 DEF Replay, TypeInv, ChainTypes, Replaying
  <2> QED
    BY <1>c, <1>2, <2>1, <2>2 DEF Replay
<1>3. ASSUME NEW h \in handler, HandlerWrite(h)
      PROVE  RowInv' /\ HandlerInv'
  <2>0. PICK ev \in Event : ev = log[h.at]
    BY <1>a
  <2>1. Happened(ev) /\ Honest(h) /\ TypeInv
    BY <1>a, <2>0 DEF HandlerInv
  <2>2. CASE ev.name = "OrderSubmitted" /\ WriteOrder(h, ev.id)
    <3>1. ev.id \in Order /\ OrderPast(h.saw, order[ev.id])
      BY <2>0, <2>1, <2>2 DEF Event, Honest
    <3>2. /\ orderRow' = [orderRow EXCEPT ![ev.id] = h.saw] /\ Done(h)
          /\ UNCHANGED <<batchRow, matchRow>>
      BY <2>2 DEF WriteOrder
    <3>3. \A o \in Order : OrderPast(orderRow'[o], order'[o])
      BY <1>0, <3>1, <3>2 DEF RowInv, TypeInv, RowTypes
    <3>4. RowInv'
      BY <1>0, <3>2, <3>3 DEF RowInv
    <3> QED
      BY <1>d, <3>2, <3>4
  <2>3. CASE ev.name = "BatchClosed" /\ WriteBatch(h, ev.id)
    <3>1. ev.id < curBatch
      BY <2>1, <2>3 DEF Happened
    <3>2. /\ batchRow' = [batchRow EXCEPT ![ev.id] = "CLOSED"] /\ Done(h)
          /\ UNCHANGED <<orderRow, matchRow>>
      BY <2>3 DEF WriteBatch
    <3>3. \A b \in Batch : batchRow'[b] # None => b < curBatch'
      BY <1>0, <3>1, <3>2 DEF RowInv, TypeInv, RowTypes
    <3>4. RowInv'
      BY <1>0, <3>2, <3>3 DEF RowInv
    <3> QED
      BY <1>d, <3>2, <3>4
  <2>4. CASE ev.name = "MatchPublished" /\ WriteMatch(h, ev.id)
    <3>1. ev.id \in Match /\ MatchPast(h.saw, match[ev.id])
      BY <2>0, <2>1, <2>4 DEF Event, Honest
    <3>2. /\ matchRow' = [matchRow EXCEPT ![ev.id] = h.saw] /\ ThenOrders(h)
          /\ UNCHANGED <<batchRow, orderRow>>
      BY <2>4 DEF WriteMatch
    <3>3. \A m \in Match : MatchPast(matchRow'[m], match'[m])
      BY <1>0, <3>1, <3>2 DEF RowInv, TypeInv, RowTypes
    <3>4. RowInv'
      BY <1>0, <3>2, <3>3 DEF RowInv
    <3> QED
      BY <1>e, <2>0, <2>4, <3>2, <3>4
  <2>5. CASE ev.name = "MatchDisputed" /\ WriteDisputed(h, ev.id)
    <3>1. ev.id \in Match /\ match[ev.id] = "DISPUTED"
      BY <2>1, <2>5 DEF Event, Happened
    <3>2. /\ matchRow' = [matchRow EXCEPT ![ev.id] = IF matchRow[ev.id] = None THEN None ELSE "DISPUTED"]
          /\ UNCHANGED <<batchRow, orderRow>> /\ Done(h)
      BY <2>5 DEF WriteDisputed
    <3>3. \A m \in Match : MatchPast(matchRow'[m], match'[m])
      BY <1>0, <3>1, <3>2, PastRefl, PastNothing DEF RowInv, TypeInv, RowTypes
    <3>4. RowInv'
      BY <1>0, <3>2, <3>3 DEF RowInv
    <3> QED
      BY <1>d, <3>2, <3>4
  <2>6. CASE ev.name = "MatchSettled" /\ WriteSettled(h, ev.id)
    <3>1. ev.id \in Match /\ match[ev.id] = "SETTLED"
      BY <2>1, <2>6 DEF Event, Happened
    <3>2. /\ matchRow' = [matchRow EXCEPT ![ev.id] = IF matchRow[ev.id] = None THEN None ELSE "SETTLED"]
          /\ UNCHANGED <<batchRow, orderRow>> /\ ThenOrders(h)
      BY <2>6 DEF WriteSettled
    <3>3. \A m \in Match : MatchPast(matchRow'[m], match'[m])
      BY <1>0, <3>1, <3>2, PastRefl, PastNothing DEF RowInv, TypeInv, RowTypes
    <3>4. RowInv'
      BY <1>0, <3>2, <3>3 DEF RowInv
    <3> QED
      BY <1>e, <2>0, <2>6, <3>2, <3>4
  <2> QED
    BY <1>3, <2>0, <2>2, <2>3, <2>4, <2>5, <2>6 DEF HandlerWrite
<1>4. ASSUME NEW h \in handler, HandlerOrders(h)
      PROVE  RowInv' /\ HandlerInv'
  <2>0. PICK ev \in Event : ev = log[h.at]
    BY <1>a
  <2>1. Happened(ev) /\ Honest(h) /\ h.phase = "orders"
    BY <1>a, <1>4, <2>0 DEF HandlerInv, HandlerOrders
  <2>2. ev.name \in {"MatchPublished", "MatchSettled"} /\ ev.id \in Match
    BY <2>0, <2>1 DEF Honest, Event
  <2>3. /\ orderRow' = IF ev.name = "MatchPublished"
                         THEN MarkedMatched(Legs[ev.id]) ELSE MarkedSettled(Legs[ev.id])
        /\ Done(h) /\ UNCHANGED <<batchRow, matchRow>>
    BY <1>4, <2>0 DEF HandlerOrders
  <2>4. \A o \in Order : OrderPast(orderRow'[o], order[o])
    BY <2>1, <2>2, <2>3, MarkedSound DEF Happened
  <2>5. RowInv'
    BY <1>0, <2>3, <2>4 DEF RowInv
  <2> QED
    BY <1>d, <2>3, <2>5
<1>5. ASSUME NEW h \in handler, HandlerFault(h)
      PROVE  RowInv' /\ HandlerInv'
  BY <1>5, <1>b, RowKept DEF HandlerFault, db
<1>6. CASE Persist
  BY <1>6, <1>b, RowKept DEF Persist, db
<1>7. CASE Boot
  <2>1. orderRow' = Reconciled /\ UNCHANGED <<batchRow, matchRow, handler>>
    BY <1>7 DEF Boot
  <2>2. RowInv'
    BY <1>0, <2>1, ReconciledSound DEF RowInv
  <2> QED
    BY <1>b, <2>1, <2>2
<1> QED
  BY <1>1, <1>2, <1>3, <1>4, <1>5, <1>6, <1>7 DEF IndexStep, HandlerStep

---------------------------------------------------------------------------
(* What a step does to its call of onBatchClosed; the others stay as they  *)
(* are.                                                                    *)

Same(t) ==
  /\ pc'[t] = pc[t] /\ job'[t] = job[t] /\ todo'[t] = todo[t]
  /\ found'[t] = found[t] /\ out'[t] = out[t] /\ keyed'[t] = keyed[t]
ToNextPair(t) ==
  /\ pc[t] # "idle" /\ pc'[t] = "pair" /\ job'[t] = job[t] /\ found'[t] = {}
  /\ todo'[t] = todo[t] \ {First(todo[t])}

LEMMA OthersStay ==
  ASSUME TypeInv, NEW t \in Thread, AnyThreadStep(t), NEW u \in Thread, u # t
  PROVE  Same(u)
<1> USE DEF TypeInv, ThreadTypes
<1>1. NextPair(t) => pc'[u] = pc[u] /\ todo'[u] = todo[u] /\ found'[u] = found[u]
  BY DEF NextPair
<1>2. Fail(t) => pc'[u] = pc[u] /\ todo'[u] = todo[u] /\ found'[u] = found[u] /\ out'[u] = out[u]
  BY <1>1 DEF Fail
<1>3. (\E b \in Batch : Begin(t, b)) \/ Finish(t) \/ FinishFault(t) => Same(u)
  BY DEF Begin, Finish, FinishFault, Same
<1>4. CheckPair(t) \/ RunAuction(t) => Same(u)
  BY <1>1 DEF CheckPair, RunAuction, Same
<1>5. Publish(t) => Same(u)
  BY <1>2 DEF Publish, Same
<1>6. PairFault(t) => Same(u)
  BY <1>2 DEF PairFault, Same
<1>7. WriteTranscript(t) \/ InsertMatch(t) => Same(u)
  BY DEF WriteTranscript, InsertMatch, Same
<1>8. MarkOrders(t) => Same(u)
  BY <1>1 DEF MarkOrders, Same
<1> QED
  BY <1>3, <1>4, <1>5, <1>6, <1>7, <1>8 DEF AnyThreadStep, ThreadStep

LEMMA Begins ==
  ASSUME TypeInv, NEW t \in Thread, NEW b \in Batch, Begin(t, b)
  PROVE  /\ pc[t] = "idle" /\ pc'[t] = "pair" /\ job'[t] = b /\ b < curBatch
         /\ todo'[t] = Pair /\ out'[t] = Idle /\ Ready(b) /\ ~InFlight(t, b)
         /\ UNCHANGED <<chain, db, settler, orphaned>>
BY DEF Begin, TypeInv, ThreadTypes

LEMMA Checks ==
  ASSUME TypeInv, NEW t \in Thread, CheckPair(t)
  PROVE  /\ UNCHANGED <<chain, db, settler, orphaned>> /\ pc[t] = "pair"
         /\ \/ ToNextPair(t) /\ out'[t].existing
            \/ /\ pc'[t] = "auction" /\ RowsOf(job[t], First(todo[t])) = {}
               /\ job'[t] = job[t] /\ todo'[t] = todo[t] /\ out'[t] = out[t]
<1>1. out[t] \in [published : BOOLEAN, existing : BOOLEAN, failed : BOOLEAN]
  BY DEF TypeInv, ThreadTypes
<1>2. CASE RowsOf(job[t], First(todo[t])) # {}
  <2>1. out' = [out EXCEPT ![t] = [out[t] EXCEPT !.existing = TRUE]] /\ NextPair(t) /\ job' = job
    BY <1>2 DEF CheckPair
  <2>2. out'[t] = [out[t] EXCEPT !.existing = TRUE]
    BY <2>1 DEF TypeInv, ThreadTypes
  <2>3. out'[t].existing
    BY <1>1, <2>2
  <2>4. pc[t] = "pair"
    BY DEF CheckPair
  <2>5. ToNextPair(t)
    BY <2>1, <2>4 DEF NextPair, ToNextPair, TypeInv, ThreadTypes
  <2> QED
    BY <2>3, <2>4, <2>5 DEF CheckPair
<1>3. CASE RowsOf(job[t], First(todo[t])) = {}
  BY <1>3 DEF CheckPair, TypeInv, ThreadTypes
<1> QED
  BY <1>2, <1>3

LEMMA Auctions ==
  ASSUME TypeInv, NEW t \in Thread, RunAuction(t)
  PROVE  /\ UNCHANGED <<chain, db, settler, orphaned>> /\ pc[t] = "auction" /\ out'[t] = out[t]
         /\ \/ ToNextPair(t) /\ Auction(job[t], First(todo[t])) = {}
            \/ /\ pc'[t] = "publish" /\ found'[t] = Auction(job[t], First(todo[t]))
               /\ job'[t] = job[t] /\ todo'[t] = todo[t]
BY DEF RunAuction, NextPair, ToNextPair, TypeInv, ThreadTypes

LEMMA Fails ==
  ASSUME TypeInv, NEW t \in Thread, Fail(t), job' = job, pc[t] # "idle"
  PROVE  ToNextPair(t) /\ out'[t].failed
<1>1. out[t] \in [published : BOOLEAN, existing : BOOLEAN, failed : BOOLEAN]
  BY DEF TypeInv, ThreadTypes
<1>2. out' = [out EXCEPT ![t] = [out[t] EXCEPT !.failed = TRUE]] /\ NextPair(t)
  BY DEF Fail
<1>3. out'[t] = [out[t] EXCEPT !.failed = TRUE]
  BY <1>2 DEF TypeInv, ThreadTypes
<1>4. out'[t].failed
  BY <1>1, <1>3
<1>5. ToNextPair(t)
  BY <1>2 DEF NextPair, ToNextPair, TypeInv, ThreadTypes
<1> QED
  BY <1>4, <1>5

LEMMA Publishes ==
  ASSUME TypeInv, NEW t \in Thread, Publish(t)
  PROVE  /\ UNCHANGED <<db, settler, orphaned>> /\ pc[t] = "publish"
         /\ \/ ToNextPair(t) /\ out'[t].failed /\ UNCHANGED chain
            \/ /\ \A m \in found[t] : \A o \in Legs[m] : order[o] = "ACTIVE"
               /\ match' = [m \in Match |-> IF m \in found[t] THEN "PENDING" ELSE match[m]]
               /\ pc'[t] = "record" /\ found'[t] = found[t] /\ out'[t].published
               /\ job'[t] = job[t] /\ todo'[t] = todo[t]
<1>1. out[t] \in [published : BOOLEAN, existing : BOOLEAN, failed : BOOLEAN]
  BY DEF TypeInv, ThreadTypes
<1> DEFINE legs == UNION {Legs[m] : m \in found[t]}
<1>2. CASE \A o \in legs : order[o] = "ACTIVE"
  <2>1. out' = [out EXCEPT ![t] = [out[t] EXCEPT !.published = TRUE]]
        /\ pc' = [pc EXCEPT ![t] = "record"] /\ UNCHANGED <<job, todo, found, db, settler, orphaned>>
        /\ match' = [m \in Match |-> IF m \in found[t] THEN "PENDING" ELSE match[m]] /\ pc[t] = "publish"
    BY <1>2 DEF Publish
  <2>2. out'[t] = [out[t] EXCEPT !.published = TRUE]
    BY <2>1 DEF TypeInv, ThreadTypes
  <2>3. out'[t].published
    BY <1>1, <2>2
  <2>4. pc'[t] = "record" /\ found'[t] = found[t] /\ job'[t] = job[t] /\ todo'[t] = todo[t]
    BY <2>1 DEF TypeInv, ThreadTypes
  <2> QED
    BY <1>2, <2>1, <2>3, <2>4
<1>3. CASE ~\A o \in legs : order[o] = "ACTIVE"
  BY <1>3, Fails DEF Publish, chain
<1> QED
  BY <1>2, <1>3

LEMMA Writes ==
  ASSUME TypeInv, NEW t \in Thread, WriteTranscript(t)
  PROVE  /\ UNCHANGED <<chain, batchRow, orderRow, matchRow, auditKey, settler, orphaned>>
         /\ pc[t] = "record" /\ pc'[t] = "insert" /\ found'[t] = found[t] /\ out'[t] = out[t]
         /\ job'[t] = job[t] /\ todo'[t] = todo[t]
         /\ \/ transcript' = transcript \cup {First(found[t])} /\ keyed'[t] = TRUE
            \/ UNCHANGED transcript /\ keyed'[t] = FALSE
<1>1. /\ UNCHANGED <<chain, batchRow, orderRow, matchRow, auditKey, settler, orphaned>>
      /\ pc[t] = "record" /\ pc'[t] = "insert" /\ found'[t] = found[t] /\ out'[t] = out[t]
      /\ job'[t] = job[t] /\ todo'[t] = todo[t]
  BY DEF WriteTranscript, TypeInv, ThreadTypes
<1>2. \/ transcript' = transcript \cup {First(found[t])} /\ keyed'[t] = TRUE
      \/ UNCHANGED transcript /\ keyed'[t] = FALSE
  BY DEF WriteTranscript, TypeInv, ThreadTypes
<1> QED
  BY <1>1, <1>2

LEMMA Inserts ==
  ASSUME TypeInv, NEW t \in Thread, InsertMatch(t)
  PROVE  /\ UNCHANGED <<chain, batchRow, orderRow, transcript, settler, orphaned>>
         /\ pc[t] = "insert" /\ pc'[t] = "mark" /\ found'[t] = found[t] /\ out'[t] = out[t]
         /\ job'[t] = job[t] /\ todo'[t] = todo[t]
         /\ matchRow' = [matchRow EXCEPT ![First(found[t])] = "PENDING"]
         /\ auditKey' = IF keyed[t] THEN auditKey \cup {First(found[t])}
                        ELSE auditKey \ {First(found[t])}
BY DEF InsertMatch, TypeInv, ThreadTypes

LEMMA Marks ==
  ASSUME TypeInv, NEW t \in Thread, MarkOrders(t)
  PROVE  /\ UNCHANGED <<chain, batchRow, matchRow, auditKey, transcript, settler, orphaned>>
         /\ pc[t] = "mark" /\ out'[t] = out[t] /\ orderRow' = MarkedMatched(Legs[First(found[t])])
         /\ \/ ToNextPair(t) /\ found[t] = {First(found[t])}
            \/ /\ pc'[t] = "record" /\ found'[t] = found[t] \ {First(found[t])}
               /\ job'[t] = job[t] /\ todo'[t] = todo[t]
<1>1. CASE found[t] = {First(found[t])}
  BY <1>1 DEF MarkOrders, NextPair, ToNextPair, TypeInv, ThreadTypes
<1>2. CASE found[t] # {First(found[t])}
  <2>1. PICK m : m = First(found[t])
    OBVIOUS
  <2>2. found' = [found EXCEPT ![t] = found[t] \ {m}] /\ pc' = [pc EXCEPT ![t] = "record"]
        /\ UNCHANGED <<todo, job, out>> /\ pc[t] = "mark"
    BY <1>2, <2>1 DEF MarkOrders
  <2>3. pc'[t] = "record" /\ found'[t] = found[t] \ {m}
    BY <2>2 DEF TypeInv, ThreadTypes
  <2> QED
    BY <2>1, <2>2, <2>3 DEF MarkOrders
<1> QED
  BY <1>1, <1>2

LEMMA Faults ==
  ASSUME TypeInv, NEW t \in Thread, PairFault(t)
  PROVE  /\ UNCHANGED <<chain, db, settler>> /\ ToNextPair(t) /\ out'[t].failed
         /\ orphaned' = orphaned \cup Unrecorded(t)
BY Fails DEF PairFault

LEMMA Finishes ==
  ASSUME TypeInv, NEW t \in Thread, Finish(t) \/ FinishFault(t)
  PROVE  /\ UNCHANGED <<chain, orderRow, matchRow, auditKey, transcript, settler, orphaned>>
         /\ pc[t] = "pair" /\ pc'[t] = "idle" /\ todo[t] = {}
         /\ \/ UNCHANGED batchRow
            \/ /\ ~out[t].failed
               /\ batchRow' = [batchRow EXCEPT ![job[t]] = Outcome(out[t])]
BY DEF Finish, FinishFault, TypeInv, ThreadTypes, db

LEMMA ThreadRowsSound ==
  ASSUME TypeInv, ChainInv, RowInv, HandlerInv, ThreadInv, Grown, NEW t \in Thread, AnyThreadStep(t)
  PROVE  RowInv' /\ HandlerInv'
<1>0. HandlerInv'
  BY Footprint, HonestStays DEF HandlerInv
<1>1. UNCHANGED db => RowInv' /\ HandlerInv'
  BY <1>0, RowKept DEF db
<1>2. CASE \E b \in Batch : Begin(t, b)
  BY <1>2, <1>1, Begins
<1>3. CASE CheckPair(t) \/ RunAuction(t) \/ Publish(t) \/ PairFault(t)
  BY <1>3, <1>1, Checks, Auctions, Publishes, Faults
<1>4. CASE WriteTranscript(t)
  BY <1>0, <1>4, Writes, RowKept
<1>5. CASE InsertMatch(t)
  <2>1. PICK m \in Match : m = First(found[t]) /\ m \in found[t]
    BY <1>5, FirstMatch DEF InsertMatch
  <2>2. /\ matchRow' = [matchRow EXCEPT ![m] = "PENDING"] /\ UNCHANGED <<chain, batchRow, orderRow>>
        /\ pc[t] = "insert"
    BY <1>5, <2>1, Inserts
  <2>3. match[m] # None
    BY <2>1, <2>2 DEF ThreadInv, Recording
  <2>4. MatchPast("PENDING", match[m])
    BY <2>3 DEF MatchPast
  <2>5. \A n \in Match : MatchPast(matchRow'[n], match'[n])
    BY <2>2, <2>4 DEF RowInv, TypeInv, RowTypes, chain
  <2> QED
    BY <1>0, <2>2, <2>5 DEF RowInv, chain
<1>6. CASE MarkOrders(t)
  <2>1. PICK m \in Match : m = First(found[t]) /\ m \in found[t]
    BY <1>6, FirstMatch DEF MarkOrders
  <2>2. /\ orderRow' = MarkedMatched(Legs[m]) /\ UNCHANGED <<chain, batchRow, matchRow>>
        /\ pc[t] = "mark"
    BY <1>6, <2>1, Marks
  <2>3. match[m] # None
    BY <2>1, <2>2 DEF ThreadInv, Recording
  <2>4. \A o \in Order : OrderPast(orderRow'[o], order'[o])
    BY <2>2, <2>3, MarkedSound DEF chain
  <2> QED
    BY <1>0, <2>2, <2>4 DEF RowInv, chain
<1>7. CASE Finish(t) \/ FinishFault(t)
  <2>1. UNCHANGED <<chain, orderRow, matchRow>> /\ pc[t] = "pair"
    BY <1>7, Finishes
  <2>2. CASE UNCHANGED batchRow
    BY <1>0, <2>1, <2>2, RowKept
  <2>3. CASE batchRow' = [batchRow EXCEPT ![job[t]] = Outcome(out[t])]
    <3>1. job[t] \in Batch /\ job[t] < curBatch
      BY <2>1 DEF ThreadInv
    <3>2. \A b \in Batch : batchRow'[b] # None => b < curBatch'
      BY <2>1, <2>3, <3>1 DEF RowInv, TypeInv, RowTypes, chain
    <3> QED
      BY <1>0, <2>1, <3>2 DEF RowInv, chain
  <2> QED
    BY <1>7, <2>2, <2>3, Finishes
<1> QED
  BY <1>0, <1>2, <1>3, <1>4, <1>5, <1>6, <1>7 DEF AnyThreadStep, ThreadStep

LEMMA SettlerRowsSound ==
  ASSUME TypeInv, ChainInv, RowInv, HandlerInv, SettlerInv, Grown, NEW s \in Settler, AnySettlerStep(s)
  PROVE  RowInv' /\ HandlerInv'
<1>0. HandlerInv' /\ UNCHANGED batchRow
  BY Footprint, HonestStays DEF HandlerInv, index
<1>1. UNCHANGED db => RowInv' /\ HandlerInv'
  BY <1>0, RowKept DEF db
<1>2. CASE \E m \in Match : Consider(s, m) \/ Retry(s, m)
  BY <1>2, <1>1 DEF Consider, Retry
<1>3. CASE Check(s) \/ Send(s) \/ SettlerFault(s)
  BY <1>3, <1>1 DEF Check, Send, SettlerFault
<1>4. CASE Label(s)
  <2>1. /\ target[s] \in Match /\ saw[s] = match[target[s]] /\ UNCHANGED <<chain, orderRow>>
        /\ matchRow' = [matchRow EXCEPT ![target[s]] = saw[s]]
    BY <1>4 DEF Label, SettlerInv, TypeInv, SettlerTypes
  <2>2. \A n \in Match : MatchPast(matchRow'[n], match'[n])
    BY <2>1, PastRefl DEF RowInv, TypeInv, RowTypes, chain
  <2> QED
    BY <1>0, <2>1, <2>2 DEF RowInv, chain
<1>5. CASE SettleRow(s)
  <2>1. /\ target[s] \in Match /\ match[target[s]] = "SETTLED" /\ UNCHANGED <<chain, orderRow>>
        /\ matchRow' = [matchRow EXCEPT ![target[s]] = "SETTLED"]
    BY <1>5 DEF SettleRow, SettlerInv, TypeInv, SettlerTypes
  <2>2. \A n \in Match : MatchPast(matchRow'[n], match'[n])
    BY <2>1, PastRefl DEF RowInv, TypeInv, RowTypes, chain
  <2> QED
    BY <1>0, <2>1, <2>2 DEF RowInv, chain
<1>6. CASE SettleOrders(s)
  <2>1. /\ target[s] \in Match /\ match[target[s]] = "SETTLED" /\ UNCHANGED <<chain, matchRow>>
        /\ orderRow' = MarkedSettled(Legs[target[s]])
    BY <1>6 DEF SettleOrders, SettlerInv, TypeInv, SettlerTypes
  <2>2. \A o \in Order : OrderPast(orderRow'[o], order'[o])
    BY <2>1, MarkedSound DEF chain
  <2> QED
    BY <1>0, <2>1, <2>2 DEF RowInv, chain
<1> QED
  BY <1>0, <1>2, <1>3, <1>4, <1>5, <1>6 DEF AnySettlerStep, SettlerStep

---------------------------------------------------------------------------
(* Calls of onBatchClosed publish disjoint sets of matches.                *)

LEMMA ThreadInvStep ==
  ASSUME TypeInv, ChainInv, ThreadInv, Grown, NEW t \in Thread, AnyThreadStep(t)
  PROVE  ThreadInv'
<1> USE DEF Recording
<1>0. curBatch \in Nat /\ curBatch' = curBatch
  BY Footprint DEF Grown
<1>1. \A u \in Thread : u # t => Same(u)
  BY OthersStay
<1>2. \A m \in Match : match[m] # None => match'[m] # None
  BY DEF Grown, MatchPast
<1>3. \A u \in Thread : found[u] \subseteq Match
  BY DEF TypeInv, ThreadTypes
<1>4. ASSUME pc'[t] # "idle" => job'[t] \in Batch /\ job'[t] < curBatch,
             pc'[t] \in {"publish", "record", "insert", "mark"} =>
               \A m \in found'[t] : MatchBatch(m) = job'[t],
             Recording(t)' => /\ out'[t].published /\ \A m \in found'[t] : match'[m] # None
                              /\ \A u \in Thread : u # t /\ Recording(u) => found'[t] \cap found[u] = {}
      PROVE  ThreadInv'
  <2>1. \A u \in Thread : pc'[u] # "idle" => job'[u] \in Batch /\ job'[u] < curBatch'
    BY <1>0, <1>1, <1>4 DEF Same, ThreadInv
  <2>2. \A u \in Thread : pc'[u] \in {"publish", "record", "insert", "mark"} =>
          \A m \in found'[u] : MatchBatch(m) = job'[u]
    BY <1>1, <1>4 DEF Same, ThreadInv
  <2>3. \A u \in Thread : Recording(u)' => out'[u].published /\ \A m \in found'[u] : match'[m] # None
    BY <1>1, <1>2, <1>3, <1>4 DEF Same, ThreadInv
  <2>4. \A u, v \in Thread : u # v /\ Recording(u)' /\ Recording(v)' => found'[u] \cap found'[v] = {}
    BY <1>1, <1>4 DEF Same, ThreadInv
  <2> QED
    BY <2>1, <2>2, <2>3, <2>4 DEF ThreadInv
<1>5. ToNextPair(t) => ThreadInv'
  BY <1>4 DEF ToNextPair, ThreadInv
<1>6. ASSUME NEW b \in Batch, Begin(t, b)
      PROVE  ThreadInv'
  BY <1>4, <1>6, Begins
<1>7. CASE CheckPair(t)
  BY <1>4, <1>5, <1>7, Checks DEF ThreadInv
<1>8. CASE RunAuction(t)
  BY <1>4, <1>5, <1>8, Auctions DEF ThreadInv, Auction
<1>9. CASE Publish(t)
  <2>1. CASE ToNextPair(t)
    BY <1>5, <2>1
  <2>2. CASE ~ToNextPair(t)
    <3>1. /\ \A m \in found[t] : \A o \in Legs[m] : order[o] = "ACTIVE"
          /\ match' = [m \in Match |-> IF m \in found[t] THEN "PENDING" ELSE match[m]]
          /\ pc'[t] = "record" /\ found'[t] = found[t] /\ out'[t].published /\ job'[t] = job[t]
          /\ pc[t] = "publish"
      BY <1>9, <2>2, Publishes
    <3>2. \A m \in found[t] : match[m] = None
      BY <1>3, <3>1, OneMatch
    <3>3. "PENDING" # None
      BY Names DEF MatchStatus
    <3>4. \A m \in found[t] : match'[m] # None
      BY <1>3, <3>1, <3>3
    <3>5. \A u \in Thread : u # t /\ Recording(u) => found'[t] \cap found[u] = {}
      BY <3>1, <3>2 DEF ThreadInv
    <3> QED
      BY <1>4, <3>1, <3>4, <3>5 DEF ThreadInv
  <2> QED
    BY <2>1, <2>2
<1>10. CASE WriteTranscript(t) \/ InsertMatch(t)
  <2>1. /\ Recording(t) /\ Recording(t)' /\ found'[t] = found[t] /\ out'[t] = out[t]
        /\ job'[t] = job[t]
    BY <1>10, Writes, Inserts
  <2> QED
    BY <1>2, <1>3, <1>4, <2>1 DEF ThreadInv
<1>11. CASE MarkOrders(t)
  <2>1. CASE ToNextPair(t)
    BY <1>5, <2>1
  <2>2. CASE ~ToNextPair(t)
    <3>1. /\ Recording(t) /\ Recording(t)' /\ found'[t] \subseteq found[t] /\ out'[t] = out[t]
          /\ job'[t] = job[t]
      BY <1>11, <2>2, Marks
    <3>2. \A m \in found'[t] : MatchBatch(m) = job'[t] /\ match'[m] # None
      BY <1>2, <1>3, <3>1 DEF ThreadInv
    <3>3. \A u \in Thread : u # t /\ Recording(u) => found'[t] \cap found[u] = {}
      BY <3>1 DEF ThreadInv
    <3> QED
      BY <1>4, <3>1, <3>2, <3>3 DEF ThreadInv
  <2> QED
    BY <2>1, <2>2
<1>12. CASE Finish(t) \/ FinishFault(t)
  BY <1>4, <1>12, Finishes
<1>13. CASE PairFault(t)
  BY <1>5, <1>13, Faults
<1> QED
  BY <1>6, <1>7, <1>8, <1>9, <1>10, <1>11, <1>12, <1>13 DEF AnyThreadStep, ThreadStep

LEMMA ThreadKept ==
  ASSUME TypeInv, ThreadInv, Grown, UNCHANGED matcher
  PROVE  ThreadInv'
<1>1. UNCHANGED <<pc, job, todo, found, out, keyed>>
  BY DEF matcher
<1>2. \A u \in Thread : found[u] \subseteq Match
  BY DEF TypeInv, ThreadTypes
<1>3. \A b \in Batch : b < curBatch => b < curBatch'
  BY DEF Grown, Batch
<1> QED
  BY <1>1, <1>2, <1>3 DEF ThreadInv, Recording, Grown, MatchPast

---------------------------------------------------------------------------
(* Transcripts stay, and so do the keys that name one.                     *)

AuditGrown == transcript \subseteq transcript' /\ \A m \in auditKey : m \in transcript => m \in auditKey'

LEMMA AuditKept ==
  ASSUME TypeInv, AuditInv, Grown, UNCHANGED <<transcript, matcher>>,
         auditKey \subseteq auditKey', auditKey' \subseteq transcript,
         \A m \in Match : match'[m] = "SETTLED" => match[m] = "SETTLED"
  PROVE  AuditInv' /\ AuditGrown
<1>1. UNCHANGED <<pc, job, todo, found, out, keyed, transcript>>
  BY DEF matcher
<1>2. AuditGrown
  BY <1>1 DEF AuditGrown
<1>3. \A m \in transcript' : match'[m] # None
  BY <1>1 DEF AuditInv, Grown, MatchPast, TypeInv, RowTypes
<1>4. SettledIsAudited'
  BY <1>1 DEF AuditInv, SettledIsAudited
<1> QED
  BY <1>1, <1>2, <1>3, <1>4 DEF AuditInv

LEMMA AuditThreadStep ==
  ASSUME TypeInv, ChainInv, ThreadInv, AuditInv, Grown, NEW t \in Thread, AnyThreadStep(t)
  PROVE  AuditInv' /\ AuditGrown
<1>1. \A u \in Thread : u # t => Same(u)
  BY OthersStay
<1>2. /\ \A m \in transcript : match'[m] # None
      /\ transcript \subseteq Match /\ auditKey \subseteq transcript
  BY DEF AuditInv, Grown, MatchPast, TypeInv, RowTypes
<1>3. \A m \in Match : match'[m] = "SETTLED" => match[m] = "SETTLED"
  <2>1. CASE Publish(t)
    BY <2>1, Publishes DEF chain
  <2>2. CASE ~Publish(t)
    <3>1. UNCHANGED chain
      BY <2>2 DEF AnyThreadStep, ThreadStep, CheckPair, RunAuction, WriteTranscript,
         InsertMatch, MarkOrders, Finish, PairFault, FinishFault, Begin
    <3> QED
      BY <3>1 DEF chain
  <2> QED
    BY <2>1, <2>2
<1>4. ASSUME AuditGrown, auditKey' \subseteq transcript',
             \A m \in transcript' \ transcript : Recording(t) /\ m \in found[t],
             pc'[t] = "record" => found'[t] \cap transcript' = {},
             pc'[t] \in {"insert", "mark"} => (found'[t] \ {First(found'[t])}) \cap transcript' = {},
             pc'[t] = "insert" => (keyed'[t] <=> First(found'[t]) \in transcript')
      PROVE  AuditInv'
  <2>1. \A m \in transcript' : match'[m] # None
    BY <1>2, <1>4, FirstMatch DEF ThreadInv, Recording, Grown, MatchPast, TypeInv, ThreadTypes
  <2>2. SettledIsAudited'
    BY <1>3, <1>4 DEF AuditInv, SettledIsAudited, AuditGrown
  <2>3. ASSUME NEW u \in Thread, u # t, Recording(u)
        PROVE  found[u] \cap transcript' = found[u] \cap transcript
    BY <1>4, <2>3 DEF ThreadInv, AuditGrown
  <2>4. ASSUME NEW u \in Thread, u # t, Recording(u)
        PROVE  First(found[u]) \in found[u]
    BY <2>4, FirstMatch DEF Recording
  <2>5. \A u \in Thread : u # t =>
          /\ pc'[u] = "record" => found'[u] \cap transcript' = {}
          /\ pc'[u] \in {"insert", "mark"} => (found'[u] \ {First(found'[u])}) \cap transcript' = {}
    BY <1>1, <2>3 DEF Same, AuditInv, Recording
  <2>6. \A u \in Thread : u # t => (pc'[u] = "insert" => (keyed'[u] <=> First(found'[u]) \in transcript'))
    <3> SUFFICES ASSUME NEW u \in Thread, u # t, pc[u] = "insert"
                 PROVE  keyed[u] <=> First(found[u]) \in transcript'
      BY <1>1 DEF Same
    <3>1. First(found[u]) \in transcript' <=> First(found[u]) \in transcript
      BY <2>3, <2>4 DEF Recording
    <3> QED
      BY <3>1 DEF AuditInv
  <2>7. /\ \A u \in Thread : pc'[u] = "record" => found'[u] \cap transcript' = {}
        /\ \A u \in Thread : pc'[u] \in {"insert", "mark"} =>
             (found'[u] \ {First(found'[u])}) \cap transcript' = {}
    BY <1>4, <2>5
  <2>8. \A u \in Thread : pc'[u] = "insert" => (keyed'[u] <=> First(found'[u]) \in transcript')
    BY <1>4, <2>6, Zenon
  <2> QED
    BY <1>4, <2>1, <2>2, <2>7, <2>8, Zenon DEF AuditInv
<1>5. ASSUME UNCHANGED <<auditKey, transcript>>, pc'[t] \notin {"record", "insert", "mark"}
      PROVE  AuditInv' /\ AuditGrown
  <2>1. AuditGrown
    BY <1>5 DEF AuditGrown
  <2> QED
    BY <1>2, <1>4, <1>5, <2>1
<1>6. CASE (\E b \in Batch : Begin(t, b)) \/ CheckPair(t) \/ RunAuction(t)
  BY <1>5, <1>6, Begins, Checks, Auctions DEF ToNextPair, db
<1>7. CASE PairFault(t) \/ Finish(t) \/ FinishFault(t)
  BY <1>5, <1>7, Faults, Finishes DEF ToNextPair, db
<1>8. CASE Publish(t)
  <2>1. CASE ToNextPair(t)
    BY <1>5, <1>8, <2>1, Publishes DEF ToNextPair, db
  <2>2. CASE ~ToNextPair(t)
    <3>1. /\ \A m \in found[t] : \A o \in Legs[m] : order[o] = "ACTIVE"
          /\ pc'[t] = "record" /\ found'[t] = found[t] /\ UNCHANGED <<auditKey, transcript>>
          /\ found[t] \subseteq Match
      BY <1>8, <2>2, Publishes DEF db, TypeInv, ThreadTypes
    <3>2. found'[t] \cap transcript' = {}
      BY <3>1, OneMatch DEF AuditInv
    <3>3. AuditGrown
      BY <3>1 DEF AuditGrown
    <3> QED
      BY <1>2, <1>4, <3>1, <3>2, <3>3
  <2> QED
    BY <2>1, <2>2
<1>9. CASE WriteTranscript(t)
  <2>0. PICK m \in found[t] : m = First(found[t])
    BY <1>9, FirstMatch, Writes
  <2>1. /\ pc[t] = "record" /\ pc'[t] = "insert" /\ found'[t] = found[t] /\ UNCHANGED auditKey
        /\ found[t] \cap transcript = {}
    BY <1>9, Writes DEF AuditInv
  <2>2. \/ transcript' = transcript \cup {m} /\ keyed'[t] = TRUE
        \/ UNCHANGED transcript /\ keyed'[t] = FALSE
    BY <1>9, <2>0, Writes
  <2>3. AuditGrown /\ auditKey' \subseteq transcript'
    BY <1>2, <2>1, <2>2 DEF AuditGrown
  <2>4. keyed'[t] <=> m \in transcript'
    BY <2>0, <2>1, <2>2
  <2>5. (found'[t] \ {m}) \cap transcript' = {}
    BY <2>1, <2>2
  <2>6. \A n \in transcript' \ transcript : Recording(t) /\ n \in found[t]
    BY <2>0, <2>1, <2>2 DEF Recording
  <2> QED
    BY <1>4, <2>0, <2>1, <2>3, <2>4, <2>5, <2>6
<1>10. CASE InsertMatch(t)
  <2>0. PICK m \in found[t] : m = First(found[t])
    BY <1>10, FirstMatch, Inserts
  <2>1. /\ pc[t] = "insert" /\ pc'[t] = "mark" /\ found'[t] = found[t] /\ UNCHANGED transcript
        /\ (found[t] \ {m}) \cap transcript = {}
    BY <1>10, <2>0, Inserts DEF AuditInv
  <2>2. keyed[t] <=> m \in transcript
    BY <1>10, <2>0, Inserts DEF AuditInv
  <2>3. auditKey' = IF keyed[t] THEN auditKey \cup {m} ELSE auditKey \ {m}
    BY <1>10, <2>0, Inserts
  <2>4. auditKey' = IF m \in transcript THEN auditKey \cup {m} ELSE auditKey \ {m}
    BY <2>2, <2>3, Zenon
  <2>5. AuditGrown /\ auditKey' \subseteq transcript'
    BY <1>2, <2>1, <2>4 DEF AuditGrown
  <2> QED
    BY <1>4, <2>0, <2>1, <2>5
<1>11. CASE MarkOrders(t)
  <2>0. /\ pc[t] = "mark" /\ UNCHANGED <<auditKey, transcript>>
        /\ (found[t] \ {First(found[t])}) \cap transcript = {}
    BY <1>11, Marks DEF AuditInv
  <2>1. CASE ToNextPair(t)
    BY <1>5, <2>0, <2>1 DEF ToNextPair
  <2>2. CASE ~ToNextPair(t)
    <3>1. pc'[t] = "record" /\ found'[t] = found[t] \ {First(found[t])}
      BY <1>11, <2>2, Marks
    <3>2. AuditGrown
      BY <2>0 DEF AuditGrown
    <3> QED
      BY <1>2, <1>4, <2>0, <3>1, <3>2
  <2> QED
    BY <2>1, <2>2
<1> QED
  BY <1>6, <1>7, <1>8, <1>9, <1>10, <1>11 DEF AnyThreadStep, ThreadStep

---------------------------------------------------------------------------
(* The settler sends a transaction only for a match it can audit, and      *)
(* keeps no reading that can go stale.                                     *)

LEMMA SettlerStays ==
  ASSUME TypeInv, SettlerInv, Grown, AuditGrown, NEW s \in Settler,
         step'[s] = step[s], target'[s] = target[s], saw'[s] = saw[s]
  PROVE  /\ step'[s] = "label" => saw'[s] \in {"DISPUTED", "SETTLED"} /\ saw'[s] = match'[target'[s]]
         /\ step'[s] = "send" => target'[s] \in auditKey' /\ target'[s] \in transcript'
         /\ step'[s] \in {"row", "orders"} => match'[target'[s]] = "SETTLED"
<1>1. step[s] # "idle" => target[s] \in Match
  BY DEF TypeInv, SettlerTypes
<1>2. step[s] = "label" => saw'[s] = match'[target[s]]
  BY <1>1 DEF SettlerInv, Grown, MatchPast
<1>3. step[s] \in {"row", "orders"} => match'[target[s]] = "SETTLED"
  BY <1>1 DEF SettlerInv, Grown, MatchPast
<1> QED
  BY <1>2, <1>3 DEF SettlerInv, AuditGrown

LEMMA SettlerKept ==
  ASSUME TypeInv, SettlerInv, Grown, AuditGrown, UNCHANGED settler
  PROVE  SettlerInv'
<1>1. UNCHANGED <<step, target, saw>>
  BY DEF settler
<1> QED
  BY <1>1, SettlerStays DEF SettlerInv

LEMMA SettlerSound ==
  ASSUME TypeInv, ChainInv, RowInv, SettlerInv, AuditInv, Grown, NEW s \in Settler, AnySettlerStep(s)
  PROVE  SettlerInv' /\ AuditInv' /\ AuditGrown
<1>0. UNCHANGED <<auditKey, transcript, matcher>> /\ auditKey \subseteq transcript
  BY Footprint DEF AuditInv
<1>1. AuditGrown
  BY <1>0 DEF AuditGrown
<1> SUFFICES SettlerInv' /\ AuditInv'
  BY <1>1
<1>2. \A u \in Settler : u # s => step'[u] = step[u] /\ target'[u] = target[u] /\ saw'[u] = saw[u]
  BY DEF AnySettlerStep, SettlerStep, SettlerFault, Consider, Retry, Label, Check, Send, SettleRow,
     SettleOrders, Stop, TypeInv, SettlerTypes
<1>3. ASSUME step'[s] = "label" => saw'[s] \in {"DISPUTED", "SETTLED"} /\ saw'[s] = match'[target'[s]],
             step'[s] = "send" => target'[s] \in auditKey /\ target'[s] \in transcript,
             step'[s] \in {"row", "orders"} => match'[target'[s]] = "SETTLED"
      PROVE  SettlerInv'
  BY <1>0, <1>1, <1>2, <1>3, SettlerStays DEF SettlerInv
<1>4. UNCHANGED chain => AuditInv'
  BY <1>0, AuditKept DEF chain
<1>5. Stop(s) => SettlerInv'
  BY <1>3 DEF Stop, TypeInv, SettlerTypes
<1>6. ASSUME NEW m \in Match, Consider(s, m)
      PROVE  SettlerInv' /\ AuditInv'
  <2>1. target'[s] = m /\ UNCHANGED chain /\ matchRow[m] = "PENDING"
    BY <1>6 DEF Consider, TypeInv, SettlerTypes
  <2>2. CASE match[m] # "PENDING"
    <3>1. step'[s] = "label" /\ saw'[s] = match[m]
      BY <1>6, <2>2 DEF Consider, TypeInv, SettlerTypes
    <3>2. match[m] # None
      BY <2>1, Names DEF RowInv, MatchPast, MatchStatus
    <3>3. match[m] \in {"DISPUTED", "SETTLED"}
      BY <2>2, <3>2 DEF TypeInv, ChainTypes, MatchStatus
    <3> QED
      BY <1>3, <1>4, <2>1, <3>1, <3>3 DEF chain
  <2>3. CASE match[m] = "PENDING"
    <3>1. step'[s] = "check"
      BY <1>6, <2>3 DEF Consider, TypeInv, SettlerTypes
    <3> QED
      BY <1>3, <1>4, <2>1, <3>1
  <2> QED
    BY <2>2, <2>3
<1>7. ASSUME NEW m \in Match, Retry(s, m)
      PROVE  SettlerInv' /\ AuditInv'
  <2>1. step'[s] = "check" /\ UNCHANGED chain
    BY <1>7 DEF Retry, TypeInv, SettlerTypes
  <2> QED
    BY <1>3, <1>4, <2>1
<1>8. CASE Label(s) \/ SettleOrders(s) \/ SettlerFault(s)
  BY <1>4, <1>5, <1>8 DEF Label, SettleOrders, SettlerFault
<1>9. CASE Check(s)
  <2>1. UNCHANGED chain
    BY <1>9 DEF Check
  <2>2. CASE ProofReady(target[s])
    BY <1>3, <1>4, <1>9, <2>1, <2>2 DEF Check, ProofReady, TypeInv, SettlerTypes
  <2>3. CASE ~ProofReady(target[s])
    BY <1>4, <1>5, <1>9, <2>1, <2>3 DEF Check
  <2> QED
    BY <2>2, <2>3
<1>10. CASE Send(s)
  <2>0. PICK m \in Match : m = target[s]
    BY <1>10 DEF Send, TypeInv, SettlerTypes
  <2>1. m \in auditKey /\ m \in transcript
    BY <1>10, <2>0 DEF Send, SettlerInv
  <2>2. CASE Settleable(m)
    <3>1. /\ match' = [match EXCEPT ![m] = "SETTLED"] /\ step' = [step EXCEPT ![s] = "row"]
          /\ UNCHANGED target
      BY <1>10, <2>0, <2>2 DEF Send, ReceiptOk
    <3>2. step'[s] = "row" /\ target'[s] = m /\ match'[m] = "SETTLED"
      BY <2>0, <3>1 DEF TypeInv, SettlerTypes, ChainTypes
    <3>3. SettlerInv'
      BY <1>3, <3>2
    <3>4. SettledIsAudited'
      BY <1>0, <2>1, <3>1 DEF AuditInv, SettledIsAudited, TypeInv, ChainTypes
    <3>5. UNCHANGED <<pc, job, todo, found, out, keyed>>
      BY <1>0 DEF matcher
    <3>6. \A n \in transcript' : match'[n] # None
      BY <1>0 DEF AuditInv, Grown, MatchPast, TypeInv, RowTypes
    <3> QED
      BY <1>0, <3>3, <3>4, <3>5, <3>6 DEF AuditInv
  <2>3. CASE ~Settleable(m)
    <3>1. UNCHANGED chain /\ Stop(s)
      BY <1>10, <2>0, <2>3 DEF Send, ReceiptOk, chain
    <3> QED
      BY <1>4, <1>5, <3>1
  <2> QED
    BY <2>2, <2>3
<1>11. CASE SettleRow(s)
  <2>1. UNCHANGED chain /\ step'[s] = "orders" /\ target'[s] = target[s] /\ match[target[s]] = "SETTLED"
    BY <1>11 DEF SettleRow, SettlerInv, TypeInv, SettlerTypes
  <2> QED
    BY <1>3, <1>4, <2>1 DEF chain
<1> QED
  BY <1>1, <1>6, <1>7, <1>8, <1>9, <1>10, <1>11 DEF AnySettlerStep, SettlerStep

---------------------------------------------------------------------------
(* No row is ever lost, whatever overwrites it.                            *)

RowsStay ==
  /\ \A o \in Order : orderRow[o] # None => orderRow'[o] # None
  /\ \A m \in Match : matchRow[m] # None => matchRow'[m] # None

LEMMA UpdatesKeepRows ==
  ASSUME TypeInv, NEW S, NEW o \in Order, orderRow[o] # None
  PROVE  MarkedMatched(S)[o] # None /\ MarkedSettled(S)[o] # None /\ Reconciled[o] # None
<1>1. None \notin {"MATCHED", "SETTLED"}
  BY Names DEF OrderStatus
<1>2. MarkedMatched(S)[o] # None /\ MarkedSettled(S)[o] # None
  BY <1>1 DEF MarkedMatched, MarkedSettled
<1>3. Reconciled[o] # None
  BY <1>1 DEF Reconciled
<1> QED
  BY <1>2, <1>3

LEMMA RowsStaySound ==
  ASSUME TypeInv, HandlerInv, SettlerInv, [Next]_vars
  PROVE  RowsStay
<1>0. None \notin {"PENDING", "DISPUTED", "SETTLED"}
  BY Names DEF MatchStatus
<1>1. UNCHANGED <<orderRow, matchRow>> => RowsStay
  BY DEF RowsStay
<1>2. CASE UNCHANGED vars
  BY <1>1, <1>2 DEF vars, db
<1>3. CASE ChainStep \/ (\E m \in Match : Repair(m)) \/ (\E p \in Process : Crash(p))
  BY <1>1, <1>3, Footprint DEF Repair, Crash, db
<1>4. ASSUME NEW h \in handler, HandlerWrite(h)
      PROVE  RowsStay
  <2>0. PICK ev : ev = log[h.at]
    OBVIOUS
  <2>1. CASE ev.name = "OrderSubmitted" /\ WriteOrder(h, ev.id)
    <3>1. h.saw # None
      BY <2>0, <2>1 DEF HandlerInv, Honest
    <3> QED
      BY <2>1, <3>1 DEF WriteOrder, RowsStay, TypeInv, RowTypes
  <2>2. CASE ev.name = "BatchClosed" /\ WriteBatch(h, ev.id)
    BY <1>1, <2>2 DEF WriteBatch
  <2>3. CASE ev.name = "MatchPublished" /\ WriteMatch(h, ev.id)
    <3>1. h.saw # None
      BY <2>0, <2>3 DEF HandlerInv, Honest
    <3> QED
      BY <2>3, <3>1 DEF WriteMatch, RowsStay, TypeInv, RowTypes
  <2>4. CASE ev.name = "MatchDisputed" /\ WriteDisputed(h, ev.id)
    BY <1>0, <2>4 DEF WriteDisputed, RowsStay, TypeInv, RowTypes
  <2>5. CASE ev.name = "MatchSettled" /\ WriteSettled(h, ev.id)
    BY <1>0, <2>5 DEF WriteSettled, RowsStay, TypeInv, RowTypes
  <2> QED
    BY <1>4, <2>0, <2>1, <2>2, <2>3, <2>4, <2>5 DEF HandlerWrite
<1>5. ASSUME NEW h \in handler, HandlerOrders(h)
      PROVE  RowsStay
  BY <1>5, UpdatesKeepRows DEF HandlerOrders, RowsStay
<1>6. CASE Boot
  BY <1>6, UpdatesKeepRows DEF Boot, RowsStay
<1>7. CASE IndexStep
  BY <1>1, <1>4, <1>5, <1>6, <1>7 DEF IndexStep, HandlerStep, Deliver, Replay, Persist, HandlerFault, db
<1>8. ASSUME NEW t \in Thread, AnyThreadStep(t)
      PROVE  RowsStay
  <2>1. CASE InsertMatch(t)
    BY <1>0, <2>1 DEF InsertMatch, RowsStay, TypeInv, RowTypes
  <2>2. CASE MarkOrders(t)
    BY <2>2, UpdatesKeepRows DEF MarkOrders, RowsStay
  <2>3. CASE ~InsertMatch(t) /\ ~MarkOrders(t)
    BY <1>1, <1>8, <2>3 DEF AnyThreadStep, ThreadStep, CheckPair, RunAuction, Publish,
       WriteTranscript, Finish, PairFault, FinishFault, Begin, db
  <2> QED
    BY <2>1, <2>2, <2>3
<1>9. ASSUME NEW s \in Settler, AnySettlerStep(s)
      PROVE  RowsStay
  <2>1. CASE Label(s)
    <3>1. saw[s] # None
      BY <1>0, <2>1 DEF Label, SettlerInv
    <3> QED
      BY <2>1, <3>1 DEF Label, RowsStay, TypeInv, RowTypes
  <2>2. CASE SettleRow(s)
    BY <1>0, <2>2 DEF SettleRow, RowsStay, TypeInv, RowTypes
  <2>3. CASE SettleOrders(s)
    BY <2>3, UpdatesKeepRows DEF SettleOrders, RowsStay
  <2>4. CASE ~Label(s) /\ ~SettleRow(s) /\ ~SettleOrders(s)
    BY <1>1, <1>9, <2>4 DEF AnySettlerStep, SettlerStep, SettlerFault, Consider, Retry, Check, Send, db
  <2> QED
    BY <2>1, <2>2, <2>3, <2>4
<1> QED
  BY <1>2, <1>3, <1>7, <1>8, <1>9, NextCases

---------------------------------------------------------------------------
(* A pair is auctioned over all of its orders.                             *)

LEMMA ClosedStays ==
  ASSUME Grown, NEW m \in Match, Closed(m), MatchBatch(m) < curBatch
  PROVE  Closed(m)'
<1>1. CASE match[m] # None
  BY <1>1 DEF Grown, MatchPast, Closed
<1>2. CASE \E o \in Legs[m] : order[o] \in {None, "CANCELLED"}
  <2>1. PICK o \in Legs[m] : order[o] \in {None, "CANCELLED"}
    BY <1>2
  <2>2. o \in Order /\ BatchOf[o] < curBatch
    BY <2>1, LegsOfBatch
  <2>3. order'[o] \in {None, "CANCELLED"}
    BY <2>1, <2>2 DEF Grown, OrderPast
  <2> QED
    BY <2>1, <2>3 DEF Closed
<1> QED
  BY <1>1, <1>2 DEF Closed

(* The count that onBatchClosed compares tells whether an order is missing.*)
LEMMA ReadyMeansAll ==
  ASSUME TypeInv, RowInv, NEW b \in Batch, Ready(b), NEW o \in Order, BatchOf[o] = b, order[o] # None
  PROVE  orderRow[o] # None
<1>1. Indexed(b) \subseteq OnChain(b)
  BY DEF RowInv, OrderPast, Indexed, OnChain
<1>2. IsFiniteSet(OnChain(b))
  BY PipelineAssumption, FS_Subset DEF OnChain
<1>3. /\ IsFiniteSet(Indexed(b)) /\ Cardinality(Indexed(b)) <= Cardinality(OnChain(b))
      /\ Cardinality(OnChain(b)) = Cardinality(Indexed(b)) => OnChain(b) = Indexed(b)
  BY <1>1, <1>2, FS_Subset
<1>4. Cardinality(Indexed(b)) \in Nat /\ Cardinality(OnChain(b)) \in Nat
  BY <1>2, <1>3, FS_CardinalityType
<1>5. OnChain(b) = Indexed(b)
  BY <1>3, <1>4 DEF Ready
<1> QED
  BY <1>5 DEF Indexed, OnChain

LEMMA RowShowsClosed ==
  ASSUME TypeInv, ChainInv, RowInv, NEW m \in Match, NEW o \in Legs[m], orderRow[o] # "ACTIVE",
         order[o] # None => orderRow[o] # None
  PROVE  Closed(m)
<1>0. o \in Order /\ orderRow[o] \in OrderStatus \cup {None} /\ OrderPast(orderRow[o], order[o])
  BY LegsOfBatch DEF TypeInv, RowTypes, RowInv
<1>1. CASE orderRow[o] = None
  BY <1>1 DEF Closed
<1>2. CASE orderRow[o] = "CANCELLED"
  BY <1>0, <1>2 DEF Closed, OrderPast
<1>3. CASE orderRow[o] \in {"MATCHED", "SETTLED"}
  <2>1. order[o] \in {"MATCHED", "SETTLED"}
    BY <1>0, <1>3 DEF OrderPast
  <2>2. PICK n \in Match : o \in Legs[n] /\ match[n] # None
    BY <1>0, <2>1 DEF ChainInv
  <2>3. n = m
    BY <1>0, <2>2, OneMatch
  <2> QED
    BY <2>2, <2>3 DEF Closed
<1> QED
  BY <1>0, <1>1, <1>2, <1>3 DEF OrderStatus

LEMMA AuctionThread ==
  ASSUME TypeInv, RowInv, ThreadInv, AuctionInv, Grown, RowsStay, NEW t \in Thread, pc[t] # "idle"
  PROVE  /\ \A o \in Order : BatchOf[o] = job[t] /\ order'[o] # None => orderRow'[o] # None
         /\ out[t] = Idle =>
              \A m \in Match : MatchBatch(m) = job[t] /\ PairOf[m] \notin todo[t] => Closed(m)'
<1>1. job[t] \in Batch /\ job[t] < curBatch
  BY DEF ThreadInv
<1>2. ASSUME NEW o \in Order, BatchOf[o] = job[t], order'[o] # None
      PROVE  orderRow'[o] # None
  <2>1. order[o] # None
    BY <1>1, <1>2 DEF Grown
  <2> QED
    BY <1>2, <2>1 DEF AuctionInv, Complete, RowsStay
<1>3. ASSUME out[t] = Idle, NEW m \in Match, MatchBatch(m) = job[t], PairOf[m] \notin todo[t]
      PROVE  Closed(m)'
  BY <1>1, <1>3, ClosedStays DEF AuctionInv, Clean
<1> QED
  BY <1>2, <1>3

LEMMA EmptyStaysClosed ==
  ASSUME TypeInv, RowInv, AuctionInv, Grown, NEW m \in Match, batchRow[MatchBatch(m)] = "MATCHED_EMPTY"
  PROVE  Closed(m)'
<1>1. MatchBatch(m) < curBatch
  BY LegsOfBatch, Names DEF RowInv, BatchStatus
<1>2. Closed(m)
  BY DEF AuctionInv, AuctionSawEveryOrder, Closed
<1> QED
  BY <1>1, <1>2, ClosedStays

LEMMA AuctionKept ==
  ASSUME TypeInv, RowInv, ThreadInv, AuctionInv, Grown, RowsStay, UNCHANGED matcher,
         \A b \in Batch : batchRow'[b] = "MATCHED_EMPTY" => batchRow[b] = "MATCHED_EMPTY"
  PROVE  AuctionInv'
<1>1. UNCHANGED <<pc, job, todo, found, out, keyed>>
  BY DEF matcher
<1>2. Complete'
  BY <1>1, AuctionThread DEF Complete
<1>3. Clean'
  BY <1>1, AuctionThread DEF Clean
<1>4. AuctionSawEveryOrder'
  BY EmptyStaysClosed, LegsOfBatch DEF AuctionSawEveryOrder, Closed
<1> QED
  BY <1>2, <1>3, <1>4 DEF AuctionInv

LEMMA AuctionThreadStep ==
  ASSUME TypeInv, ChainInv, RowInv, ThreadInv, AuctionInv, Grown, RowsStay,
         NEW t \in Thread, AnyThreadStep(t)
  PROVE  AuctionInv'
<1>0. \A u \in Thread : u # t => Same(u)
  BY OthersStay
<1>a. ASSUME pc'[t] # "idle" =>
               \A o \in Order : BatchOf[o] = job'[t] /\ order'[o] # None => orderRow'[o] # None,
             pc'[t] # "idle" /\ out'[t] = Idle =>
               \A m \in Match : MatchBatch(m) = job'[t] /\ PairOf[m] \notin todo'[t] => Closed(m)',
             \A m \in Match : batchRow'[MatchBatch(m)] = "MATCHED_EMPTY" => Closed(m)'
      PROVE  AuctionInv'
  <2>1. Complete'
    BY <1>0, <1>a, AuctionThread DEF Same, Complete
  <2>2. Clean'
    BY <1>0, <1>a, AuctionThread DEF Same, Clean
  <2>3. AuctionSawEveryOrder'
    BY <1>a DEF AuctionSawEveryOrder, Closed
  <2> QED
    BY <2>1, <2>2, <2>3 DEF AuctionInv
<1>b. UNCHANGED batchRow => \A m \in Match : batchRow'[MatchBatch(m)] = "MATCHED_EMPTY" => Closed(m)'
  BY EmptyStaysClosed
<1>c. out'[t].published \/ out'[t].existing \/ out'[t].failed => out'[t] # Idle
  BY DEF Idle
<1>d. ASSUME pc[t] # "idle", job'[t] = job[t], UNCHANGED batchRow,
             out'[t] = Idle => out[t] = Idle /\ todo'[t] = todo[t]
      PROVE  AuctionInv'
  BY <1>a, <1>b, <1>d, AuctionThread
<1>1. ASSUME NEW b \in Batch, Begin(t, b)
      PROVE  AuctionInv'
  <2>1. /\ job'[t] = b /\ Ready(b) /\ todo'[t] = Pair /\ UNCHANGED <<order, orderRow, batchRow>>
    BY <1>1, Begins DEF chain, db
  <2>2. \A o \in Order : BatchOf[o] = job'[t] /\ order'[o] # None => orderRow'[o] # None
    BY <2>1, ReadyMeansAll
  <2>3. \A m \in Match : PairOf[m] \in todo'[t]
    BY <2>1, PipelineAssumption
  <2> QED
    BY <1>a, <1>b, <2>1, <2>2, <2>3
<1>2. CASE CheckPair(t)
  BY <1>2, <1>c, <1>d, Checks DEF ToNextPair, db
<1>3. CASE RunAuction(t)
  <2>1. CASE ToNextPair(t)
    <3>1. /\ Auction(job[t], First(todo[t])) = {} /\ out'[t] = out[t] /\ UNCHANGED <<chain, db>>
          /\ pc[t] = "auction"
      BY <1>3, <2>1, Auctions DEF ToNextPair
    <3>2. job'[t] = job[t] /\ todo'[t] = todo[t] \ {First(todo[t])}
      BY <2>1 DEF ToNextPair
    <3>3. ASSUME NEW m \in Match, MatchBatch(m) = job[t], PairOf[m] = First(todo[t])
          PROVE  Closed(m)'
      <4>1. PICK o \in Legs[m] : orderRow[o] # "ACTIVE"
        BY <3>1, <3>3 DEF Auction
      <4>2. o \in Order /\ BatchOf[o] = job[t]
        BY <3>3, LegsOfBatch
      <4>3. order[o] # None => orderRow[o] # None
        BY <3>1, <4>2 DEF AuctionInv, Complete
      <4>4. Closed(m)
        BY <4>1, <4>3, RowShowsClosed
      <4> QED
        BY <3>1, <4>4 DEF Closed, chain
    <3>4. out[t] = Idle => \A m \in Match : MatchBatch(m) = job'[t] /\ PairOf[m] \notin todo'[t] => Closed(m)'
      BY <3>1, <3>2, <3>3, AuctionThread
    <3> QED
      BY <1>a, <1>b, <3>1, <3>2, <3>4, AuctionThread DEF db
  <2>2. CASE ~ToNextPair(t)
    BY <1>3, <1>d, <2>2, Auctions DEF db
  <2> QED
    BY <2>1, <2>2
<1>4. CASE Publish(t)
  BY <1>4, <1>c, <1>d, Publishes DEF ToNextPair, db
<1>5. CASE WriteTranscript(t) \/ InsertMatch(t)
  BY <1>5, <1>d, Writes, Inserts
<1>6. CASE MarkOrders(t)
  <2>1. pc[t] = "mark" /\ out'[t] = out[t] /\ job'[t] = job[t] /\ UNCHANGED batchRow
    BY <1>6, Marks DEF ToNextPair
  <2>2. out[t].published
    BY <2>1 DEF ThreadInv, Recording
  <2> QED
    BY <1>c, <1>d, <2>1, <2>2
<1>7. CASE PairFault(t)
  BY <1>7, <1>c, <1>d, Faults DEF ToNextPair, db
<1>8. CASE Finish(t) \/ FinishFault(t)
  <2>1. pc[t] = "pair" /\ pc'[t] = "idle" /\ todo[t] = {} /\ job[t] \in Batch
    BY <1>8, Finishes DEF ThreadInv
  <2>2. CASE UNCHANGED batchRow
    BY <1>a, <1>b, <2>1, <2>2
  <2>3. CASE ~out[t].failed /\ batchRow' = [batchRow EXCEPT ![job[t]] = Outcome(out[t])]
    <3>1. out[t] \in [published : BOOLEAN, existing : BOOLEAN, failed : BOOLEAN]
      BY DEF TypeInv, ThreadTypes
    <3>2. Outcome(out[t]) = "MATCHED_EMPTY" => ~out[t].published /\ ~out[t].existing
      BY DEF Outcome
    <3>3. ASSUME Outcome(out[t]) = "MATCHED_EMPTY" PROVE out[t] = Idle
      <4>1. out[t].published = FALSE /\ out[t].existing = FALSE /\ out[t].failed = FALSE
        BY <2>3, <3>1, <3>2, <3>3
      <4> QED
        BY <3>1, <4>1 DEF Idle
    <3>4. ASSUME NEW m \in Match, batchRow'[MatchBatch(m)] = "MATCHED_EMPTY"
          PROVE  Closed(m)'
      <4>1. CASE MatchBatch(m) = job[t]
        <5>1. Outcome(out[t]) = "MATCHED_EMPTY"
          BY <2>1, <2>3, <3>4, <4>1 DEF TypeInv, RowTypes
        <5> QED
          BY <2>1, <3>3, <4>1, <5>1, AuctionThread
      <4>2. CASE MatchBatch(m) # job[t]
        BY <2>1, <2>3, <3>4, <4>2, EmptyStaysClosed, LegsOfBatch DEF TypeInv, RowTypes
      <4> QED
        BY <4>1, <4>2
    <3> QED
      BY <1>a, <2>1, <3>4
  <2> QED
    BY <1>8, <2>2, <2>3, Finishes
<1> QED
  BY <1>1, <1>2, <1>3, <1>4, <1>5, <1>6, <1>7, <1>8 DEF AnyThreadStep, ThreadStep

---------------------------------------------------------------------------
(* A crash takes calls away and changes no other.                          *)

LEMMA CrashFacts ==
  ASSUME TypeInv, NEW p \in Process, Crash(p)
  PROVE  /\ UNCHANGED <<chain, db>> /\ handler' \subseteq handler
         /\ \A t \in Thread : Same(t) \/ (pc'[t] = "idle" /\ ProcessOf[t] = p)
         /\ \A s \in Settler : step'[s] = "idle" \/
              (step'[s] = step[s] /\ target'[s] = target[s] /\ saw'[s] = saw[s])
         /\ orphaned' = orphaned \cup UNION {Unrecorded(t) : t \in {u \in Thread : ProcessOf[u] = p}}
<1>1. UNCHANGED <<chain, db>> /\ handler' \subseteq handler
  BY DEF Crash
<1>2. \A t \in Thread : Same(t) \/ (pc'[t] = "idle" /\ ProcessOf[t] = p)
  BY DEF Crash, Same
<1>3. \A s \in Settler : step'[s] = "idle" \/
        (step'[s] = step[s] /\ target'[s] = target[s] /\ saw'[s] = saw[s])
  BY DEF Crash
<1>4. orphaned' = orphaned \cup UNION {Unrecorded(t) : t \in {u \in Thread : ProcessOf[u] = p}}
  BY DEF Crash
<1> QED
  BY <1>1, <1>2, <1>3, <1>4

LEMMA CrashSound ==
  ASSUME TypeInv, ChainInv, PipelineInv, Grown, RowsStay, NEW p \in Process, Crash(p)
  PROVE  PipelineInv'
<1> USE DEF PipelineInv
<1>0. /\ UNCHANGED <<chain, db>> /\ handler' \subseteq handler
      /\ UNCHANGED <<batchRow, orderRow, matchRow, auditKey, transcript, curBatch, order, match>>
      /\ \A t \in Thread : Same(t) \/ pc'[t] = "idle"
  BY CrashFacts DEF chain, db
<1>1. RowInv' /\ HandlerInv'
  BY <1>0, RowKept, HonestStays DEF HandlerInv
<1>2. SettlerInv'
  BY <1>0, CrashFacts, SettlerStays DEF SettlerInv, AuditGrown
<1>3. ThreadInv'
  BY <1>0 DEF ThreadInv, Recording, Same
<1>4. AuditInv'
  BY <1>0 DEF AuditInv, SettledIsAudited, Same
<1>5. AuctionInv'
  <2>1. Complete'
    BY <1>0 DEF AuctionInv, Complete, Same
  <2>2. Clean'
    BY <1>0 DEF AuctionInv, Clean, Same, Closed
  <2>3. AuctionSawEveryOrder'
    BY <1>0 DEF AuctionInv, AuctionSawEveryOrder
  <2> QED
    BY <2>1, <2>2, <2>3 DEF AuctionInv
<1> QED
  BY <1>1, <1>2, <1>3, <1>4, <1>5

LEMMA PipelineStep ==
  ASSUME TypeInv, ChainInv, PipelineInv, [Next]_vars
  PROVE  PipelineInv'
<1> USE DEF PipelineInv
<1>0. Grown /\ RowsStay
  BY ChainSound, RowsStaySound
<1>a. /\ \A h \in handler' : h \in handler => Honest(h)'
      /\ UNCHANGED handler => HandlerInv'
  BY <1>0, HonestStays DEF HandlerInv
<1>1. ASSUME UNCHANGED <<db, index, matcher, settler>>,
             \A m \in Match : match'[m] = "SETTLED" => match[m] = "SETTLED"
      PROVE  PipelineInv'
  <2>1. UNCHANGED <<batchRow, orderRow, matchRow, auditKey, transcript, handler>>
    BY <1>1 DEF db, index
  <2>2. RowInv' /\ HandlerInv' /\ ThreadInv' /\ AuctionInv'
    BY <1>0, <1>a, <1>1, <2>1, RowKept, ThreadKept, AuctionKept
  <2>3. AuditInv' /\ AuditGrown
    BY <1>0, <1>1, <2>1, AuditKept DEF AuditInv
  <2> QED
    BY <1>0, <1>1, <2>2, <2>3, SettlerKept
<1>2. CASE UNCHANGED vars
  BY <1>1, <1>2 DEF vars, chain
<1>3. CASE ChainStep
  <2>1. \A m \in Match : match'[m] = "SETTLED" => match[m] = "SETTLED"
    BY <1>3 DEF ChainStep, Submit, Cancel, Close, Dispute, Expire, TypeInv, ChainTypes
  <2> QED
    BY <1>1, <1>3, <2>1, Footprint
<1>4. CASE IndexStep
  <2>1. UNCHANGED <<chain, auditKey, transcript, matcher, settler, match>>
    BY <1>4, Footprint DEF chain
  <2>2. RowInv' /\ HandlerInv' /\ ThreadInv'
    BY <1>0, <1>4, <2>1, HandlerStepSound, ThreadKept
  <2>3. AuditInv' /\ AuditGrown
    BY <1>0, <2>1, AuditKept DEF AuditInv
  <2>4. \A b \in Batch : batchRow'[b] = "MATCHED_EMPTY" => batchRow[b] = "MATCHED_EMPTY"
    <3>1. ASSUME NEW h \in handler, HandlerWrite(h)
          PROVE  \A b \in Batch : batchRow'[b] = "MATCHED_EMPTY" => batchRow[b] = "MATCHED_EMPTY"
      BY <3>1 DEF HandlerWrite, WriteOrder, WriteBatch, WriteMatch, WriteDisputed, WriteSettled,
         TypeInv, RowTypes
    <3> QED
      BY <1>4, <3>1 DEF IndexStep, HandlerStep, HandlerOrders, Deliver, Replay, Persist, Boot,
         HandlerFault, db
  <2>5. AuctionInv'
    BY <1>0, <2>1, <2>4, AuctionKept
  <2> QED
    BY <1>0, <2>1, <2>2, <2>3, <2>5, SettlerKept
<1>5. ASSUME NEW t \in Thread, AnyThreadStep(t)
      PROVE  PipelineInv'
  <2>1. RowInv' /\ HandlerInv' /\ ThreadInv' /\ AuctionInv'
    BY <1>0, <1>5, ThreadRowsSound, ThreadInvStep, AuctionThreadStep
  <2>2. AuditInv' /\ AuditGrown
    BY <1>0, <1>5, AuditThreadStep
  <2>3. SettlerInv'
    BY <1>0, <1>5, <2>2, Footprint, SettlerKept DEF settler
  <2> QED
    BY <2>1, <2>2, <2>3
<1>6. ASSUME NEW s \in Settler, AnySettlerStep(s)
      PROVE  PipelineInv'
  <2>1. RowInv' /\ HandlerInv'
    BY <1>0, <1>6, SettlerRowsSound
  <2>2. SettlerInv' /\ AuditInv'
    BY <1>0, <1>6, SettlerSound
  <2>3. UNCHANGED <<matcher, batchRow>>
    BY <1>6, Footprint
  <2> QED
    BY <1>0, <2>1, <2>2, <2>3, ThreadKept, AuctionKept
<1>7. ASSUME NEW m \in Match, Repair(m)
      PROVE  PipelineInv'
  <2>1. /\ UNCHANGED <<chain, batchRow, orderRow, matchRow, transcript, index, matcher, settler, match, handler>>
        /\ m \in transcript /\ auditKey' = auditKey \cup {m}
    BY <1>7 DEF Repair, chain, index
  <2>2. RowInv' /\ HandlerInv' /\ ThreadInv' /\ AuctionInv'
    BY <1>0, <1>a, <2>1, RowKept, ThreadKept, AuctionKept
  <2>3. AuditInv' /\ AuditGrown
    BY <1>0, <2>1, AuditKept DEF AuditInv
  <2> QED
    BY <1>0, <2>1, <2>2, <2>3, SettlerKept
<1>8. ASSUME NEW p \in Process, Crash(p)
      PROVE  PipelineInv'
  BY <1>0, <1>8, CrashSound
<1> QED
  BY <1>2, <1>3, <1>4, <1>5, <1>6, <1>7, <1>8, NextCases

LEMMA PipelineInit == Init => PipelineInv
<1> SUFFICES ASSUME Init PROVE PipelineInv
  OBVIOUS
<1>1. RowInv /\ HandlerInv
  BY PastNothing DEF Init, RowInv, HandlerInv
<1>2. SettlerInv /\ ThreadInv
  BY DEF Init, SettlerInv, ThreadInv, Recording
<1>3. AuditInv
  BY Names DEF Init, AuditInv, SettledIsAudited, MatchStatus
<1>4. AuctionInv
  BY LegsOfBatch, Names DEF Init, AuctionInv, Complete, Clean, AuctionSawEveryOrder, BatchStatus
<1> QED
  BY <1>1, <1>2, <1>3, <1>4 DEF PipelineInv

LEMMA PipelineSound == Spec => [](TypeInv /\ ChainInv /\ PipelineInv)
<1>1. Init => TypeInv /\ ChainInv /\ PipelineInv
  BY TypeInit, ChainInit, PipelineInit
<1>2. TypeInv /\ ChainInv /\ PipelineInv /\ [Next]_vars => (TypeInv /\ ChainInv /\ PipelineInv)'
  BY TypeStep, ChainSound, PipelineStep
<1> QED
  BY <1>1, <1>2, PTL DEF Spec

(* A row never says more than the chain does, however stale the reading    *)
(* that was written last: of orders matched, settled or cancelled, and of  *)
(* matches that exist, are disputed or are settled.                        *)
THEOREM RowsFollow == Spec => []RowsFollowChain
<1>1. TypeInv /\ ChainInv /\ PipelineInv => RowsFollowChain
  BY DEF PipelineInv, RowInv, OrderPast, MatchPast, RowsFollowChain
<1> QED
  BY <1>1, PipelineSound, PTL

(* However calls, failed uploads, repairs and crashes follow one another,  *)
(* a settled match has a transcript and a row that names it.               *)
THEOREM SettledAudited == Spec => []SettledIsAudited
<1>1. TypeInv /\ ChainInv /\ PipelineInv => SettledIsAudited
  BY DEF PipelineInv, AuditInv
<1> QED
  BY <1>1, PipelineSound, PTL

(* A batch is labelled MATCHED_EMPTY only after an auction over all of its *)
(* orders: none of its matches could still be published.                   *)
THEOREM EveryOrderSeen == Spec => []AuctionSawEveryOrder
<1>1. TypeInv /\ ChainInv /\ PipelineInv => AuctionSawEveryOrder
  BY DEF PipelineInv, AuctionInv
<1> QED
  BY <1>1, PipelineSound, PTL

---------------------------------------------------------------------------
(* One process: the in-flight set keeps two calls off the same batch.      *)

OneProcess == \A t, u \in Thread : ProcessOf[t] = ProcessOf[u]
NoNewMatch == \A m \in Match : match'[m] # None => match[m] # None
NoNewEmpty == \A b \in Batch : batchRow'[b] = "MATCHED_EMPTY" => batchRow[b] = "MATCHED_EMPTY"

LEMMA EmptyKept ==
  ASSUME TypeInv, EmptyInv, NoNewMatch, NoNewEmpty, RowsStay, UNCHANGED <<matcher, orphaned>>
  PROVE  EmptyInv'
<1>1. UNCHANGED <<pc, job, todo, found, out, keyed, orphaned>>
  BY DEF matcher
<1>2. Alone'
  BY <1>1 DEF EmptyInv, Alone
<1>3. Recorded'
  BY <1>1 DEF EmptyInv, Recorded, NoNewMatch, RowsStay, Unrecorded
<1>4. Unseen'
  BY <1>1 DEF EmptyInv, Unseen, NoNewMatch, Passed
<1>5. \A m \in Match : match'[m] # None /\ batchRow'[MatchBatch(m)] = "MATCHED_EMPTY" => m \in orphaned'
  BY <1>1, LegsOfBatch DEF EmptyInv, NoNewMatch, NoNewEmpty
<1> QED
  BY <1>2, <1>3, <1>4, <1>5 DEF EmptyInv

LEMMA EmptyCrash ==
  ASSUME TypeInv, EmptyInv, NEW p \in Process, Crash(p)
  PROVE  EmptyInv'
<1>1. /\ UNCHANGED <<match, batchRow, matchRow>> /\ orphaned \subseteq orphaned'
      /\ \A t \in Thread : Same(t) \/ (pc'[t] = "idle" /\ Unrecorded(t) \subseteq orphaned')
  BY CrashFacts DEF chain, db
<1>2. Alone'
  BY <1>1 DEF EmptyInv, Alone, Same
<1>3. Recorded'
  <2> SUFFICES ASSUME NEW m \in Match, match'[m] # None
               PROVE  matchRow'[m] # None \/ m \in orphaned' \/ \E t \in Thread : m \in Unrecorded(t)'
    BY DEF Recorded
  <2>1. CASE matchRow[m] # None \/ m \in orphaned
    BY <1>1, <2>1
  <2>2. CASE \E t \in Thread : m \in Unrecorded(t)
    <3>1. PICK t \in Thread : m \in Unrecorded(t)
      BY <2>2
    <3>2. CASE Same(t)
      BY <3>1, <3>2 DEF Same, Unrecorded
    <3> QED
      BY <1>1, <3>1, <3>2
  <2> QED
    BY <1>1, <2>1, <2>2 DEF EmptyInv, Recorded
<1>4. Unseen'
  BY <1>1 DEF EmptyInv, Unseen, Passed, Same
<1> QED
  BY <1>1, <1>2, <1>3, <1>4 DEF EmptyInv

LEMMA EmptyThread ==
  ASSUME OneProcess, TypeInv, ChainInv, PipelineInv, EmptyInv, RowsStay, NEW t \in Thread, AnyThreadStep(t)
  PROVE  EmptyInv'
<1>0. \A u \in Thread : u # t => Same(u)
  BY OthersStay
<1>a. \A u \in Thread : u # t => Unrecorded(u)' = Unrecorded(u)
  BY <1>0 DEF Same, Unrecorded
(* What each step has to show of its own call, when it publishes nothing.  *)
<1>b. ASSUME NoNewMatch, orphaned \subseteq orphaned',
             pc'[t] # "idle" => pc[t] # "idle" /\ job'[t] = job[t],
             \A m \in Unrecorded(t) : m \in Unrecorded(t)' \/ matchRow'[m] # None \/ m \in orphaned',
             pc'[t] # "idle" /\ out'[t] = Idle =>
               \A m \in Passed(t)' : match'[m] # None => m \in orphaned',
             \A m \in Match : match[m] # None /\ batchRow'[MatchBatch(m)] = "MATCHED_EMPTY" => m \in orphaned'
      PROVE  EmptyInv'
  <2>1. Alone'
    BY <1>0, <1>b DEF Same, EmptyInv, Alone
  <2>2. Recorded'
    <3> SUFFICES ASSUME NEW m \in Match, match'[m] # None
                 PROVE  matchRow'[m] # None \/ m \in orphaned' \/ \E u \in Thread : m \in Unrecorded(u)'
      BY DEF Recorded
    <3>1. matchRow[m] # None \/ m \in orphaned \/ \E u \in Thread : m \in Unrecorded(u)
      BY <1>b DEF EmptyInv, Recorded, NoNewMatch
    <3>2. matchRow[m] # None => matchRow'[m] # None
      BY DEF RowsStay
    <3> QED
      BY <1>a, <1>b, <3>1, <3>2
  <2>3. ASSUME NEW u \in Thread, u # t
        PROVE  Passed(u)' = Passed(u)
    BY <1>0, <2>3 DEF Same, Passed
  <2>4. Unseen'
    BY <1>0, <1>b, <2>3 DEF Same, EmptyInv, Unseen, NoNewMatch, Passed
  <2>5. \A m \in Match : match'[m] # None /\ batchRow'[MatchBatch(m)] = "MATCHED_EMPTY" => m \in orphaned'
    BY <1>b DEF NoNewMatch
  <2> QED
    BY <2>1, <2>2, <2>4, <2>5 DEF EmptyInv
<1>c. /\ UNCHANGED chain => NoNewMatch
      /\ UNCHANGED batchRow /\ orphaned \subseteq orphaned' =>
           \A m \in Match : match[m] # None /\ batchRow'[MatchBatch(m)] = "MATCHED_EMPTY" => m \in orphaned'
  BY DEF NoNewMatch, chain, EmptyInv
<1>d. out'[t].published \/ out'[t].existing \/ out'[t].failed => out'[t] # Idle
  BY DEF Idle
<1>e. pc[t] \in {"idle", "pair", "auction", "publish"} => Unrecorded(t) = {}
  BY DEF Unrecorded
<1>1. ASSUME NEW b \in Batch, Begin(t, b)
      PROVE  EmptyInv'
  <2>1. /\ UNCHANGED <<match, matchRow, batchRow, orphaned>> /\ pc[t] = "idle" /\ pc'[t] = "pair"
        /\ job'[t] = b /\ todo'[t] = Pair /\ ~InFlight(t, b)
    BY <1>1, Begins DEF chain, db
  <2>2. \A u \in Thread : pc[u] # "idle" => job[u] # b
    BY <2>1 DEF InFlight, OneProcess
  <2>3. Alone'
    BY <1>0, <2>1, <2>2 DEF Same, EmptyInv, Alone
  <2>4. Unrecorded(t) = {}
    BY <1>e, <2>1
  <2>5. Recorded'
    BY <1>a, <2>1, <2>4 DEF EmptyInv, Recorded
  <2>6. Passed(t)' = {}
    BY <2>1, PipelineAssumption DEF Passed
  <2>7. \A u \in Thread : u # t => Passed(u)' = Passed(u)
    BY <1>0 DEF Same, Passed
  <2>8. Unseen'
    BY <1>0, <2>1, <2>6, <2>7 DEF Same, EmptyInv, Unseen
  <2> QED
    BY <2>1, <2>3, <2>5, <2>8 DEF EmptyInv
<1>2. CASE CheckPair(t)
  <2>1. UNCHANGED <<chain, db, orphaned>> /\ pc[t] = "pair" /\ Unrecorded(t) = {}
        /\ UNCHANGED <<batchRow, match, matchRow>>
    BY <1>2, <1>e, Checks DEF db, chain
  <2>2. CASE ToNextPair(t) /\ out'[t].existing
    BY <1>b, <1>c, <1>d, <2>1, <2>2 DEF ToNextPair
  <2>3. CASE /\ pc'[t] = "auction" /\ RowsOf(job[t], First(todo[t])) = {}
             /\ job'[t] = job[t] /\ todo'[t] = todo[t] /\ out'[t] = out[t]
    <3>1. ASSUME out[t] = Idle, NEW m \in Passed(t)', match[m] # None
          PROVE  m \in orphaned
      <4>1. m \in Match /\ MatchBatch(m) = job[t]
        BY <2>3, <3>1 DEF Passed
      <4>2. CASE PairOf[m] \notin todo[t]
        BY <2>1, <3>1, <4>1, <4>2 DEF EmptyInv, Unseen, Passed
      <4>3. CASE PairOf[m] = First(todo[t])
        <5>1. matchRow[m] = None
          BY <2>3, <4>1, <4>3 DEF RowsOf
        <5>2. ASSUME NEW u \in Thread, m \in Unrecorded(u)
              PROVE  FALSE
          <6>1. pc[u] \in {"record", "insert", "mark"} /\ m \in found[u]
            BY <5>2 DEF Unrecorded
          <6>2. job[u] = job[t] /\ pc[u] # "idle"
            BY <4>1, <6>1 DEF PipelineInv, ThreadInv
          <6>3. u = t
            BY <2>1, <6>2 DEF EmptyInv, Alone
          <6> QED
            BY <2>1, <5>2, <6>3
        <5> QED
          BY <3>1, <4>1, <5>1, <5>2 DEF EmptyInv, Recorded
      <4> QED
        BY <2>3, <3>1, <4>2, <4>3 DEF Passed
    <3> QED
      BY <1>b, <1>c, <2>1, <2>3, <3>1
  <2> QED
    BY <1>2, <2>2, <2>3, Checks
<1>3. CASE RunAuction(t)
  <2>1. /\ UNCHANGED <<chain, db, orphaned>> /\ pc[t] = "auction" /\ Unrecorded(t) = {} /\ out'[t] = out[t]
        /\ UNCHANGED <<batchRow, match, matchRow>> /\ job'[t] = job[t]
    BY <1>3, <1>e, Auctions DEF db, chain, ToNextPair
  <2>2. Passed(t)' \subseteq Passed(t)
    BY <1>3, <2>1, Auctions DEF ToNextPair, Passed
  <2>3. out[t] = Idle => \A m \in Passed(t)' : match[m] # None => m \in orphaned
    BY <2>1, <2>2 DEF EmptyInv, Unseen
  <2> QED
    BY <1>b, <1>c, <2>1, <2>3
<1>4. CASE Publish(t)
  <2>1. UNCHANGED <<matchRow, batchRow, orphaned>> /\ pc[t] = "publish" /\ Unrecorded(t) = {}
    BY <1>4, <1>e, Publishes DEF db
  <2>2. CASE ToNextPair(t) /\ out'[t].failed /\ UNCHANGED chain
    BY <1>b, <1>c, <1>d, <2>1, <2>2 DEF ToNextPair
  <2>3. CASE /\ \A m \in found[t] : \A o \in Legs[m] : order[o] = "ACTIVE"
             /\ match' = [m \in Match |-> IF m \in found[t] THEN "PENDING" ELSE match[m]]
             /\ pc'[t] = "record" /\ found'[t] = found[t] /\ out'[t].published
             /\ job'[t] = job[t] /\ todo'[t] = todo[t]
    <3>1. Unrecorded(t)' = found[t] /\ found[t] \subseteq Match
      BY <2>3 DEF Unrecorded, TypeInv, ThreadTypes
    <3>2. \A m \in Match : match'[m] # None => match[m] # None \/ m \in found[t]
      BY <2>3
    <3>3. Alone'
      BY <1>0, <2>1, <2>3 DEF Same, EmptyInv, Alone
    <3>4. Recorded'
      BY <1>a, <2>1, <3>1, <3>2 DEF EmptyInv, Recorded
    <3>5. ASSUME NEW u \in Thread, u # t, pc'[u] # "idle", out'[u] = Idle, NEW m \in Passed(u)', match'[m] # None
          PROVE  m \in orphaned
      <4>1. m \in Passed(u) /\ pc[u] # "idle" /\ out[u] = Idle
        BY <1>0, <3>5 DEF Same, Passed
      <4>2. m \in Match /\ MatchBatch(m) = job[u]
        BY <4>1 DEF Passed
      <4>3. m \notin found[t]
        BY <2>1, <3>5, <4>1, <4>2 DEF PipelineInv, ThreadInv, EmptyInv, Alone
      <4> QED
        BY <3>2, <4>1, <4>2, <4>3, <3>5 DEF EmptyInv, Unseen
    <3>6. Unseen'
      BY <1>d, <2>1, <2>3, <3>5 DEF Unseen
    <3>7. ASSUME NEW m \in Match, match'[m] # None, batchRow'[MatchBatch(m)] = "MATCHED_EMPTY"
          PROVE  m \in orphaned
      <4>1. CASE m \in found[t]
        <5>1. /\ \A o \in Legs[m] : order[o] = "ACTIVE"
              /\ match[m] = None
          BY <2>3, <4>1, OneMatch
        <5>2. \E o \in Legs[m] : order[o] \in {None, "CANCELLED"}
          BY <2>1, <3>7, <5>1 DEF PipelineInv, AuctionInv, AuctionSawEveryOrder
        <5> QED
          BY <5>1, <5>2, Names DEF OrderStatus
      <4>2. CASE m \notin found[t]
        BY <2>1, <3>2, <3>7, <4>2 DEF EmptyInv
      <4> QED
        BY <4>1, <4>2
    <3> QED
      BY <2>1, <3>3, <3>4, <3>6, <3>7 DEF EmptyInv
  <2> QED
    BY <1>4, <2>2, <2>3, Publishes
<1>5. CASE WriteTranscript(t)
  <2>1. /\ UNCHANGED <<chain, matchRow, batchRow, orphaned>> /\ pc[t] = "record" /\ pc'[t] = "insert"
        /\ found'[t] = found[t] /\ out'[t] = out[t] /\ job'[t] = job[t]
    BY <1>5, Writes
  <2>2. Unrecorded(t)' = Unrecorded(t) /\ out[t].published
    BY <2>1 DEF Unrecorded, PipelineInv, ThreadInv, Recording
  <2> QED
    BY <1>b, <1>c, <1>d, <2>1, <2>2
<1>6. CASE InsertMatch(t)
  <2>1. /\ UNCHANGED <<chain, batchRow, orphaned>> /\ pc[t] = "insert" /\ pc'[t] = "mark"
        /\ found'[t] = found[t] /\ out'[t] = out[t] /\ job'[t] = job[t]
        /\ matchRow' = [matchRow EXCEPT ![First(found[t])] = "PENDING"]
    BY <1>6, Inserts
  <2>2. First(found[t]) \in Match
    BY <2>1, FirstMatch
  <2>3. matchRow'[First(found[t])] # None
    BY <2>1, <2>2, Names DEF TypeInv, RowTypes, MatchStatus
  <2>4. \A m \in Unrecorded(t) : m \in Unrecorded(t)' \/ matchRow'[m] # None
    BY <2>1, <2>3 DEF Unrecorded
  <2>5. out[t].published
    BY <2>1 DEF PipelineInv, ThreadInv, Recording
  <2> QED
    BY <1>b, <1>c, <1>d, <2>1, <2>4, <2>5
<1>7. CASE MarkOrders(t)
  <2>1. /\ UNCHANGED <<chain, batchRow, matchRow, orphaned>> /\ pc[t] = "mark" /\ out'[t] = out[t]
        /\ job'[t] = job[t]
    BY <1>7, Marks DEF ToNextPair
  <2>2. out[t].published
    BY <2>1 DEF PipelineInv, ThreadInv, Recording
  <2>3. Unrecorded(t) \subseteq Unrecorded(t)'
    BY <1>7, <2>1, Marks DEF Unrecorded
  <2> QED
    BY <1>b, <1>c, <1>d, <2>1, <2>2, <2>3
<1>8. CASE PairFault(t)
  <2>1. /\ UNCHANGED <<chain, batchRow>> /\ ToNextPair(t) /\ out'[t].failed
        /\ orphaned' = orphaned \cup Unrecorded(t)
    BY <1>8, Faults DEF db
  <2> QED
    BY <1>b, <1>c, <1>d, <2>1 DEF ToNextPair
<1>9. CASE Finish(t) \/ FinishFault(t)
  <2>1. /\ UNCHANGED <<chain, matchRow, orphaned>> /\ pc[t] = "pair" /\ pc'[t] = "idle"
        /\ todo[t] = {} /\ Unrecorded(t) = {} /\ job[t] \in Batch
    BY <1>9, <1>e, Finishes DEF PipelineInv, ThreadInv
  <2>2. CASE UNCHANGED batchRow
    BY <1>b, <1>c, <2>1, <2>2
  <2>3. CASE ~out[t].failed /\ batchRow' = [batchRow EXCEPT ![job[t]] = Outcome(out[t])]
    <3>1. out[t] \in [published : BOOLEAN, existing : BOOLEAN, failed : BOOLEAN]
      BY DEF TypeInv, ThreadTypes
    <3>2. Outcome(out[t]) = "MATCHED_EMPTY" => ~out[t].published /\ ~out[t].existing
      BY DEF Outcome
    <3>3. ASSUME Outcome(out[t]) = "MATCHED_EMPTY" PROVE out[t] = Idle
      <4>1. out[t].published = FALSE /\ out[t].existing = FALSE /\ out[t].failed = FALSE
        BY <2>3, <3>1, <3>2, <3>3
      <4> QED
        BY <3>1, <4>1 DEF Idle
    <3>4. ASSUME NEW m \in Match, match[m] # None, batchRow'[MatchBatch(m)] = "MATCHED_EMPTY"
          PROVE  m \in orphaned
      <4>1. CASE MatchBatch(m) = job[t]
        <5>1. Outcome(out[t]) = "MATCHED_EMPTY"
          BY <2>1, <2>3, <3>4, <4>1 DEF TypeInv, RowTypes
        <5> QED
          BY <2>1, <3>3, <3>4, <4>1, <5>1 DEF EmptyInv, Unseen, Passed
      <4>2. CASE MatchBatch(m) # job[t]
        BY <2>1, <2>3, <3>4, <4>2, LegsOfBatch DEF TypeInv, RowTypes, EmptyInv
      <4> QED
        BY <4>1, <4>2
    <3> QED
      BY <1>b, <1>c, <2>1, <3>4
  <2> QED
    BY <1>9, <2>2, <2>3, Finishes
<1> QED
  BY <1>1, <1>2, <1>3, <1>4, <1>5, <1>6, <1>7, <1>8, <1>9 DEF AnyThreadStep, ThreadStep

LEMMA EmptyStep ==
  ASSUME OneProcess, TypeInv, ChainInv, PipelineInv, EmptyInv, [Next]_vars
  PROVE  EmptyInv'
<1>0. RowsStay
  BY RowsStaySound DEF PipelineInv
<1>a. UNCHANGED chain => NoNewMatch
  BY DEF NoNewMatch, chain
<1>b. UNCHANGED batchRow => NoNewEmpty
  BY DEF NoNewEmpty
<1>1. CASE UNCHANGED vars
  BY <1>0, <1>1, <1>a, <1>b, EmptyKept DEF vars, db
<1>2. CASE ChainStep
  <2>1. NoNewMatch
    BY <1>2, Names DEF ChainStep, Submit, Cancel, Close, Dispute, Expire, TypeInv, ChainTypes,
       NoNewMatch, MatchStatus
  <2> QED
    BY <1>0, <1>2, <1>b, <2>1, Footprint, EmptyKept DEF db
<1>3. CASE IndexStep
  <2>1. NoNewEmpty
    <3>1. ASSUME NEW h \in handler, HandlerWrite(h)
          PROVE  NoNewEmpty
      BY <3>1 DEF HandlerWrite, WriteOrder, WriteBatch, WriteMatch, WriteDisputed, WriteSettled,
         TypeInv, RowTypes, NoNewEmpty
    <3> QED
      BY <1>3, <3>1, <1>b DEF IndexStep, HandlerStep, HandlerOrders, Deliver, Replay, Persist, Boot,
         HandlerFault, db
  <2> QED
    BY <1>0, <1>3, <1>a, <2>1, Footprint, EmptyKept
<1>4. ASSUME NEW t \in Thread, AnyThreadStep(t)
      PROVE  EmptyInv'
  BY <1>0, <1>4, EmptyThread
<1>5. ASSUME NEW s \in Settler, AnySettlerStep(s)
      PROVE  EmptyInv'
  <2>1. NoNewMatch
    <3>1. CASE Send(s)
      BY <3>1, Names DEF Send, Settleable, NoNewMatch, TypeInv, ChainTypes, MatchStatus
    <3>2. CASE ~Send(s)
      BY <1>5, <1>a, <3>2 DEF AnySettlerStep, SettlerStep, SettlerFault, Consider, Retry, Label,
         Check, SettleRow, SettleOrders
    <3> QED
      BY <3>1, <3>2
  <2> QED
    BY <1>0, <1>5, <1>b, <2>1, Footprint, EmptyKept
<1>6. ASSUME NEW m \in Match, Repair(m)
      PROVE  EmptyInv'
  BY <1>0, <1>6, <1>a, <1>b, EmptyKept DEF Repair
<1>7. ASSUME NEW p \in Process, Crash(p)
      PROVE  EmptyInv'
  BY <1>7, EmptyCrash
<1> QED
  BY <1>1, <1>2, <1>3, <1>4, <1>5, <1>6, <1>7, NextCases

LEMMA EmptyInit == Init => EmptyInv
BY DEF Init, EmptyInv, Alone, Recorded, Unseen

(* When every call of onBatchClosed runs in the matcher process, a batch   *)
(* labelled MATCHED_EMPTY has no match on the chain but those whose        *)
(* publisher failed or died before it recorded them.                       *)
THEOREM EmptyIsEmpty ==
  ASSUME OneProcess
  PROVE  Spec => []EmptyMeansEmpty
<1>1. Init => TypeInv /\ ChainInv /\ PipelineInv /\ EmptyInv
  BY TypeInit, ChainInit, PipelineInit, EmptyInit
<1>2. TypeInv /\ ChainInv /\ PipelineInv /\ EmptyInv /\ [Next]_vars
        => (TypeInv /\ ChainInv /\ PipelineInv /\ EmptyInv)'
  BY TypeStep, ChainSound, PipelineStep, EmptyStep
<1>3. TypeInv /\ EmptyInv => EmptyMeansEmpty
  BY TypeParts DEF EmptyInv, EmptyMeansEmpty
<1> QED
  BY <1>1, <1>2, <1>3, PTL DEF Spec
==============================================================================
