--------------------------- MODULE Indexer_proofs ---------------------------
(***************************************************************************)
(* Proofs about Indexer, for chains of any height, any confirmation depth  *)
(* and size of chunks, any transactions that submit the order, and any     *)
(* number of reorganisations, faults and listeners.                        *)
(***************************************************************************)
EXTENDS Indexer, WellFoundedInduction, TLAPS

(* The program counter: the statements of a rollback, and those that       *)
(* replay a log.                                                           *)
Undoing == {"orders", "matches", "settlements", "marks", "blocks", "rewind"}
Replaying == {"store", "row", "related", "spend", "consume"}
Chunking == Replaying \cup {"stamp"}

Types ==
  /\ TypeOK
  /\ pc \in {"idle", "select", "scan", "fetch", "advance"} \cup Undoing \cup Chunking
  /\ common \in 0 .. MaxHeight /\ target \in 0 .. MaxHeight /\ upto \in 0 .. MaxHeight
  /\ forks \in Nat /\ trouble \in 0 .. MaxTrouble /\ forks <= trouble
  /\ refiled \subseteq Tx /\ pending \subseteq Tx /\ heard \subseteq Tx

(* The chunk that is read: which heights, and that none is left over.      *)
ChunkInv ==
  /\ DOMAIN view \subseteq Height /\ view \in [DOMAIN view -> Block]
  /\ logs \subseteq DOMAIN view /\ \A h \in logs : view[h].tx \in Tx
  /\ DOMAIN view \subseteq cursor + 1 .. upto
  /\ pc \in Replaying => logs # {}
  /\ pc \notin Replaying => logs = {}
  /\ pc \notin Chunking => DOMAIN view = {}
  /\ pc = "fetch" => cursor < target
  /\ pc \in Chunking \cup {"advance"} => cursor < upto
  /\ pc \in {"row", "related", "spend", "consume"} =>
       LogTx \in pending /\ logRow[LogTx] # None /\ (logRow[LogTx].block = Log \/ LogTx \in refiled)
  /\ \A t \in pending : logRow[t] # None
  /\ pc \in {"spend", "consume"} => LogTx = SettleTx
  /\ \A i \in DOMAIN view : view[i].tx # None => i \in logs \/ \A l \in logs : i < l

(* A transaction is on the chain once, one submits the order, and it is    *)
(* published before it settles.                                            *)
ChainInv ==
  /\ \A i, j \in DOMAIN chain : chain[i].tx = chain[j].tx /\ chain[i].tx # None => i = j
  /\ \A i, j \in DOMAIN chain : chain[i].tx \in Submit /\ chain[j].tx \in Submit => i = j
  /\ \A j \in DOMAIN chain : chain[j].tx = Publish => \E i \in 1 .. j - 1 : chain[i].tx \in Submit
  /\ \A j \in DOMAIN chain : chain[j].tx = SettleTx => \E i \in 1 .. j - 1 : chain[i].tx = Publish

(* A block that was dropped never comes back: the fork being mined is      *)
(* newer than any stamp or block read that lies beyond the chain.          *)
ForkInv ==
  /\ \A i \in DOMAIN chain : chain[i].fork <= forks
  /\ \A h \in Stamped : blockRow[h] <= forks /\ (h \notin DOMAIN chain => blockRow[h] < forks)
  /\ \A h \in DOMAIN view : view[h].fork <= forks /\ (h \notin DOMAIN chain => view[h].fork < forks)

(* What was read of the chain up to a stamp that still stands is the       *)
(* chain, and what was read past it fits a chain with those blocks.        *)
ViewInv ==
  /\ \A h \in Shared, i \in DOMAIN view :
       /\ i <= h => chain[i] = view[i]
       /\ \A j \in 1 .. h : chain[j].tx \in Submit /\ view[i].tx \in Submit => chain[j].tx = view[i].tx
  /\ \A i, j \in DOMAIN view : view[i].tx \in Submit /\ view[j].tx \in Submit => i = j

CursorInv ==
  /\ ~buried /\ ~torn /\ pc # "rewind" => cursor = 0 \/ cursor \in Stamped
  /\ ~buried /\ pc = "advance" => upto \in Stamped

(* A rollback to the newest stamp that stands.                             *)
UndoInv ==
  pc \in Undoing =>
    /\ common \in {0} \cup Shared /\ \A h \in Shared : h <= common
    /\ gone = {t \in Tx : logRow[t] # None /\ logRow[t].block > common}
    /\ pc = "rewind" => \A h \in Stamped : h <= common
    /\ pc \in {"blocks", "rewind"} => \A t \in Tx : OnFile(t) => logRow[t].block <= common

---------------------------------------------------------------------------
(* Nothing is missed: the heights whose logs have all been replayed, in    *)
(* this pass or before a stamp that stands, have their rows, if the logs   *)
(* are filed at those heights.                                             *)
Read(i) == i \in DOMAIN view /\ i \in DOMAIN chain /\ chain[i] = view[i]
Done(h) ==
  \/ h \in {0} \cup Shared
  \/ /\ cursor \in {0} \cup Shared /\ cursor <= h
     /\ \A i \in cursor + 1 .. h : Read(i) /\ i \notin logs
Below(h) == {t \in Tx : OnChain(t) /\ HeightOf(t) <= h}
Filed(h) == \A t \in Below(h) : ~Misfiled(t)

RowOf(t) ==
  /\ t \in Submit => orderRow # None /\ orderRow.tx = t
  /\ t = Publish => matchRow # None
  /\ t = SettleTx => matchRow # None /\ matchRow.status = "SETTLED"
CommitmentOf(t) == t \in Submit => commitment # None /\ commitment.tx = t
SpentOf(t) == t = SettleTx => \A s \in Submit : OnChain(s) => s \in consumed

IndexInv ==
  ~buried /\ ~torn =>
    \A h \in 0 .. MaxHeight : Done(h) /\ Filed(h) =>
      \A t \in Below(h) : RowOf(t) /\ CommitmentOf(t) /\ SpentOf(t)

(* The log that is being replayed.                                         *)
HeadInv ==
  ~buried /\ ~torn /\ pc \in {"related", "spend", "consume"} =>
    (Done(Log - 1) /\ Filed(Log - 1) /\ Read(Log) =>
       RowOf(LogTx) /\ (pc = "consume" => SpentOf(LogTx)))

---------------------------------------------------------------------------
(* Nothing is left behind: a row that was replayed, and a log on file, are *)
(* where the stamps that stand say, or await their stamp.                  *)
Named(t) ==
  \/ t \in Submit /\ orderRow # None /\ orderRow.tx = t
  \/ t = Publish /\ matchRow # None
  \/ t = SettleTx /\ matchRow # None /\ matchRow.settledBy = t

Sound(t) ==
  /\ logRow[t] # None
  /\ t \in pending \/ logRow[t].block <= cursor
  /\ \A h \in Shared : logRow[t].block <= h => HeightOf(t) = logRow[t].block

Replayed(t) == Named(t) /\ t \notin heard /\ t \notin refiled

PhantomInv ==
  ~buried /\ ~torn => \A t \in Tx : OnFile(t) \/ Replayed(t) => Sound(t)

(* What a rollback has undone is back only if a listener brought it back.  *)
UndoneInv ==
  \A t \in gone :
    /\ t \in Submit /\ pc \in Undoing \ {"orders"} => ~Replayed(t)
    /\ t = Publish /\ pc \in Undoing \ {"orders", "matches"} => ~Replayed(t)
    /\ t = SettleTx /\ pc \in Undoing \ {"orders", "matches", "settlements"} => ~Replayed(t)

IInv ==
  /\ Types /\ ChunkInv /\ ChainInv /\ ForkInv /\ ViewInv /\ CursorInv /\ UndoInv
  /\ IndexInv /\ HeadInv /\ PhantomInv /\ UndoneInv

---------------------------------------------------------------------------
(* What the assumption on the constants says, and numbers.                 *)

LEMMA Constants ==
  /\ MaxHeight \in Nat /\ MaxTrouble \in Nat /\ Depth \in Nat /\ ChunkSize \in Nat \ {0}
  /\ None \notin Tx /\ None \notin Nat /\ Publish # SettleTx
  /\ Publish \notin Submit /\ SettleTx \notin Submit
  /\ None \notin OrderRows \cup MatchRows \cup CommitmentRows \cup LogRows
BY IndexerAssumption DEF Tx

(* Heights that are given have a lowest and a highest one.                 *)
LEMMA HasLowest ==
  ASSUME NEW S, S \subseteq Nat, S # {}
  PROVE  \E x \in S : \A y \in S : x <= y
<1> DEFINE R == {p \in Nat \X Nat : p[1] < p[2]}
<1>1. IsWellFoundedOn(R, Nat)
  BY NatLessThanWellFounded, Zenon DEF OpToRel
<1>2. PICK x \in S : \A y \in S : ~ (<<y, x>> \in R)
  BY <1>1, WFMin
<1>3. \A y \in S : x \in Nat /\ y \in Nat /\ ~(y < x)
  BY <1>2
<1> QED BY <1>3

LEMMA HasHighest ==
  ASSUME NEW S, S \subseteq 0 .. MaxHeight, S # {}
  PROVE  \E x \in S : \A y \in S : y <= x
<1> DEFINE T == {MaxHeight - h : h \in S}
<1>0. MaxHeight \in Nat /\ \A h \in S : h \in Nat /\ h <= MaxHeight
  BY IndexerAssumption
<1>1. T \subseteq Nat /\ T # {}
  <2>1. \A h \in S : MaxHeight - h \in Nat
    BY <1>0
  <2> QED BY <2>1
<1>2. PICK d \in T : \A e \in T : d <= e
  BY <1>1, HasLowest
<1>3. PICK x \in S : d = MaxHeight - x
  BY <1>2
<1>4. ASSUME NEW y \in S PROVE y <= x
  <2>1. d <= MaxHeight - y
    BY <1>2
  <2> QED BY <1>0, <1>3, <2>1
<1> QED BY <1>4

(* The next log of a chunk is the one of the lowest height.                *)
LEMMA LogIsLowest ==
  ASSUME logs \subseteq Height, logs # {}
  PROVE  Log \in logs /\ \A h \in logs : Log <= h
<1>1. logs \subseteq Nat
  BY DEF Height
<1>2. \E h \in logs : \A k \in logs : h <= k
  BY <1>1, HasLowest
<1> QED BY <1>2 DEF Log

(* The block a rollback goes back to is the newest stamp that stands.      *)
LEMMA NewestShared ==
  /\ Common \in {0} \cup Shared /\ \A h \in Shared : h <= Common
  /\ Common \in 0 .. MaxHeight
<1>1. Shared \subseteq 0 .. MaxHeight
  BY DEF Shared, Stamped, Height
<1>2. ASSUME Shared # {} PROVE Newest \in Shared /\ \A k \in Shared : k <= Newest
  <2>1. \E h \in Shared : \A k \in Shared : k <= h
    BY <1>1, <1>2, HasHighest
  <2> QED BY <2>1 DEF Newest
<1>3. CASE Shared = {}
  BY <1>3, Constants DEF Common
<1>4. CASE Shared # {}
  BY <1>1, <1>2, <1>4 DEF Common
<1> QED BY <1>3, <1>4

---------------------------------------------------------------------------
(* The chain.                                                              *)

LEMMA ChainType ==
  ASSUME Types
  PROVE  /\ Len(chain) \in 0 .. MaxHeight /\ DOMAIN chain = 1 .. Len(chain)
         /\ \A i \in DOMAIN chain : chain[i] \in Block
<1>1. chain \in Seq(Block) /\ Len(chain) <= MaxHeight
  BY DEF Types, TypeOK
<1>2. Len(chain) \in Nat /\ DOMAIN chain = 1 .. Len(chain)
  BY <1>1
<1>3. \A i \in DOMAIN chain : chain[i] \in Block
  BY <1>1, <1>2
<1> QED BY <1>1, <1>2, <1>3, Constants

(* A transaction that is on a chain once is found at its height.           *)
At(c, t) == SelectInSeq(c, LAMBDA b : b.tx = t)

LEMMA FoundAt ==
  ASSUME NEW c, NEW n \in Nat, Len(c) = n, NEW t,
         \A i, j \in 1 .. n : c[i].tx = t /\ c[j].tx = t => i = j
  PROVE  /\ \A i \in 1 .. n : c[i].tx = t => At(c, t) = i
         /\ (\A i \in 1 .. n : c[i].tx # t) => At(c, t) = 0
<1> DEFINE I == {i \in 1 .. n : c[i].tx = t}
<1>1. At(c, t) = IF I # {} THEN Min(I) ELSE 0
  BY DEF At, SelectInSeq
<1>2. ASSUME NEW i \in 1 .. n, c[i].tx = t PROVE At(c, t) = i
  <2>1. I = {i}
    BY <1>2
  <2>2. Min({i}) = i
    BY DEF Min
  <2> QED BY <1>1, <2>1, <2>2
<1> QED BY <1>1, <1>2

(* A transaction of the chain is at its height, and nowhere else.          *)
LEMMA Heights ==
  ASSUME Types, ChainInv, NEW t \in Tx
  PROVE  /\ OnChain(t) <=> \E i \in DOMAIN chain : chain[i].tx = t
         /\ \A i \in DOMAIN chain : chain[i].tx = t => HeightOf(t) = i
         /\ OnChain(t) => HeightOf(t) \in DOMAIN chain /\ chain[HeightOf(t)].tx = t
         /\ HeightOf(t) \in 0 .. MaxHeight
<1>1. HeightOf(t) = At(chain, t) /\ (OnChain(t) <=> HeightOf(t) # 0)
  BY DEF HeightOf, At, OnChain
<1>2. Len(chain) \in 0 .. MaxHeight /\ DOMAIN chain = 1 .. Len(chain) /\ t # None
  BY ChainType, Constants
<1>3. \A i, j \in 1 .. Len(chain) : chain[i].tx = t /\ chain[j].tx = t => i = j
  BY <1>2 DEF ChainInv
<1>4. Len(chain) \in Nat /\ \A i \in DOMAIN chain : i # 0 /\ i \in 0 .. MaxHeight
  BY <1>2, Constants
<1>5. /\ \A i \in 1 .. Len(chain) : chain[i].tx = t => At(chain, t) = i
      /\ (\A i \in 1 .. Len(chain) : chain[i].tx # t) => At(chain, t) = 0
  BY <1>3, <1>4, FoundAt
<1> QED BY <1>1, <1>2, <1>4, <1>5, Constants

(* A mined block goes on top; a reorganisation cuts the chain.             *)
LEMMA Mined ==
  ASSUME Types, Mine
  PROVE  \E t \in Tx \cup {None} :
           /\ t # None => Minable(t)
           /\ Len(chain') = Len(chain) + 1 /\ DOMAIN chain' = 1 .. Len(chain) + 1
           /\ chain'[Len(chain) + 1] = [fork |-> forks, tx |-> t]
           /\ \A i \in DOMAIN chain : chain'[i] = chain[i]
           /\ chain'[Len(chain) + 1].fork = forks
           /\ Len(chain) + 1 <= MaxHeight /\ chain' \in Seq(Block)
<1>1. PICK t \in {x \in Tx : Minable(x)} \cup {None} : chain' = Append(chain, [fork |-> forks, tx |-> t])
  BY DEF Mine
<1>2. chain \in Seq(Block) /\ [fork |-> forks, tx |-> t] \in Block
  BY <1>1, Constants DEF Types, TypeOK, Block
<1>3. Len(chain) \in Nat /\ Len(chain) < MaxHeight /\ DOMAIN chain = 1 .. Len(chain)
  BY ChainType, Constants DEF Mine
<1>4. /\ Len(chain') = Len(chain) + 1 /\ chain' \in Seq(Block)
      /\ chain'[Len(chain) + 1] = [fork |-> forks, tx |-> t]
  BY <1>1, <1>2, <1>3
<1>5. \A i \in 1 .. Len(chain) : chain'[i] = chain[i]
  BY <1>1, <1>2, <1>3
<1>6. DOMAIN chain' = 1 .. Len(chain) + 1
  BY <1>4
<1> QED BY <1>1, <1>3, <1>4, <1>5, <1>6, Constants

LEMMA Cut ==
  ASSUME Types, NEW k \in 0 .. MaxHeight, Reorg(k)
  PROVE  /\ k < Len(chain) /\ Len(chain') = k /\ DOMAIN chain' = 1 .. k
         /\ \A i \in 1 .. k : i \in DOMAIN chain /\ chain'[i] = chain[i]
         /\ forks' = forks + 1 /\ chain' \in Seq(Block)
<1>1. chain \in Seq(Block)
  BY DEF Types, TypeOK
<1>2. /\ k \in Nat /\ k < Len(chain) /\ chain' = SubSeq(chain, 1, k) /\ Len(chain) \in Nat
      /\ DOMAIN chain = 1 .. Len(chain) /\ forks' = forks + 1
  BY ChainType, Constants DEF Reorg
<1>3. Len(chain') = k /\ \A i \in 1 .. k : chain'[i] = chain[i]
  BY <1>1, <1>2
<1>4. chain' \in Seq(Block)
  BY <1>1, <1>2
<1>5. DOMAIN chain' = 1 .. k
  BY <1>3, <1>4
<1> QED BY <1>2, <1>3, <1>4, <1>5

LEMMA OtherwiseSameChain ==
  ASSUME [Next]_vars
  PROVE  \/ Mine
         \/ \E k \in 0 .. MaxHeight : Reorg(k)
         \/ UNCHANGED <<chain, forks>>
BY DEF Next, Live, Rollback, Check, Select, UndoOrders, UndoMatches, UndoSettlements, MarkReorged,
       DropBlocks, Rewind, Chunk, Scan, Fetch, Store, ReplayRow, ReplayRelated, ReplaySpend,
       ReplayConsume, Stamp, Advance, Fault, vars, bounds

---------------------------------------------------------------------------
(* The initial state.                                                      *)

LEMMA InitInv == Init => IInv
<1> SUFFICES ASSUME Init PROVE IInv
  OBVIOUS
<1>1. chain = <<>> /\ DOMAIN chain = {} /\ Len(chain) = 0 /\ chain \in Seq(Block)
  BY DEF Init
<1>2. Stamped = {} /\ Shared = {} /\ DOMAIN view = {} /\ cursor = 0
  BY DEF Init, Stamped, Shared, Unread
<1>3. Types
  <2>1. TypeOK
    BY <1>1, Constants DEF TypeOK, Init
  <2> QED BY <2>1, Constants DEF Types, Init
<1>4. ChunkInv
  BY <1>2 DEF ChunkInv, Init, Replaying, Chunking, Unread
<1>5. ChainInv /\ ForkInv /\ ViewInv /\ CursorInv /\ UndoInv /\ HeadInv /\ UndoneInv
  BY <1>1, <1>2 DEF ChainInv, ForkInv, ViewInv, CursorInv, UndoInv, HeadInv, UndoneInv, Init, Undoing
<1>6. \A t \in Tx : ~OnChain(t)
  BY <1>1, <1>3, <1>5, Heights
<1>7. IndexInv
  BY <1>6 DEF IndexInv, Below
<1>8. PhantomInv
  BY DEF PhantomInv, OnFile, Replayed, Named, Init
<1> QED BY <1>3, <1>4, <1>5, <1>7, <1>8 DEF IInv

---------------------------------------------------------------------------
(* Types.                                                                  *)

LEMMA RowTypes ==
  ASSUME Types, NEW t \in Tx
  PROVE  /\ OrderRowAfter(t) \in {None} \cup OrderRows
         /\ MatchRowAfter(t) \in {None} \cup MatchRows
         /\ CommitmentAfter(t) \in {None} \cup CommitmentRows
         /\ ConsumedAfter(t) \subseteq Submit
<1>1. /\ orderRow \in {None} \cup OrderRows /\ matchRow \in {None} \cup MatchRows
      /\ commitment \in {None} \cup CommitmentRows /\ consumed \subseteq Submit
  BY DEF Types, TypeOK
<1>2. \A x \in {"MATCHED", "SETTLED"} : MarkedAs(x) \in {None} \cup OrderRows
  BY <1>1 DEF MarkedAs, OrderRows
<1>3. OrderStatus \in {"ACTIVE", "MATCHED", "SETTLED"} /\ MatchStatus \in {"PENDING", "SETTLED"}
  BY DEF OrderStatus, MatchStatus
<1>4. OrderRowAfter(t) \in {None} \cup OrderRows
  <2>1. t \in Submit => [status |-> OrderStatus, tx |-> t] \in OrderRows
    BY <1>3 DEF OrderRows
  <2> QED BY <1>2, <2>1, Constants DEF OrderRowAfter, Tx
<1>5. MatchRowAfter(t) \in {None} \cup MatchRows
  <2>1. [status |-> MatchStatus, settledBy |-> None] \in MatchRows
    BY <1>3 DEF MatchRows
  <2>2. t = SettleTx => [status |-> "SETTLED", settledBy |-> t] \in MatchRows
    BY DEF MatchRows
  <2> QED BY <1>1, <2>1, <2>2 DEF MatchRowAfter
<1>6. CommitmentAfter(t) \in {None} \cup CommitmentRows
  <2>1. t \in Submit => [tx |-> t, status |-> "ACTIVE"] \in CommitmentRows
    BY DEF CommitmentRows
  <2>2. commitment # None => [commitment EXCEPT !.status = "CONSUMED"] \in CommitmentRows
    BY <1>1 DEF CommitmentRows
  <2> QED BY <1>1, <2>1, <2>2 DEF CommitmentAfter
<1>7. ConsumedAfter(t) \subseteq Submit
  BY <1>1 DEF ConsumedAfter, CommitmentRows
<1> QED BY <1>4, <1>5, <1>6, <1>7

LEMMA LogTypes ==
  ASSUME Types, ChunkInv, pc \in Replaying
  PROVE  /\ Log \in logs /\ Log \in DOMAIN view /\ Log \in Height /\ LogTx \in Tx /\ LogTx = view[Log].tx
         /\ \A h \in logs : Log <= h
         /\ cursor < Log /\ Log <= upto
<1>1. logs \subseteq Height /\ logs # {}
  BY DEF ChunkInv
<1>2. Log \in logs /\ \A h \in logs : Log <= h
  BY <1>1, LogIsLowest
<1>3. Log \in cursor + 1 .. upto
  BY <1>2 DEF ChunkInv
<1>4. cursor \in Nat /\ upto \in Nat
  BY Constants DEF Types, TypeOK
<1> QED BY <1>2, <1>3, <1>4 DEF LogTx, ChunkInv

LEMMA TypesStep ==
  ASSUME Types, ChunkInv, [Next]_vars
  PROVE  Types'
<1>1. chain' \in Seq(Block) /\ Len(chain') <= MaxHeight
  <2>1. CASE Mine
    BY <2>1, Mined
  <2>2. ASSUME NEW k \in 0 .. MaxHeight, Reorg(k) PROVE chain' \in Seq(Block) /\ Len(chain') <= MaxHeight
    BY <2>2, Cut, Constants
  <2>3. CASE UNCHANGED chain
    BY <2>3 DEF Types, TypeOK
  <2> QED BY <2>1, <2>2, <2>3, OtherwiseSameChain
<1>2. orderRow' \in {None} \cup OrderRows
  <2>1. ASSUME NEW t \in Tx, Live(t) PROVE orderRow' \in {None} \cup OrderRows
    BY <2>1, RowTypes DEF Live
  <2>2. CASE ReplayRow
    <3>1. LogTx \in Tx
      BY <2>2, LogTypes DEF ReplayRow, Replaying
    <3> QED BY <2>2, <3>1, RowTypes DEF ReplayRow, Types, TypeOK
  <2>3. CASE ReplayRelated
    <3>1. LogTx \in Tx
      BY <2>3, LogTypes DEF ReplayRelated, Replaying
    <3> QED BY <2>3, <3>1, RowTypes DEF ReplayRelated, Types, TypeOK
  <2>4. CASE UndoOrders
    BY <2>4 DEF UndoOrders, Types, TypeOK
  <2>5. CASE UNCHANGED orderRow
    BY <2>5 DEF Types, TypeOK
  <2> QED BY <2>1, <2>2, <2>3, <2>4, <2>5 DEF Next, Mine, Reorg, Rollback, Check, Select, UndoMatches,
       UndoSettlements, MarkReorged, DropBlocks, Rewind, Chunk, Scan, Fetch, Store, ReplaySpend,
       ReplayConsume, Stamp, Advance, Fault, vars, db
<1>3. matchRow' \in {None} \cup MatchRows
  <2>1. ASSUME NEW t \in Tx, Live(t) PROVE matchRow' \in {None} \cup MatchRows
    BY <2>1, RowTypes DEF Live
  <2>2. CASE ReplayRow
    <3>1. LogTx \in Tx
      BY <2>2, LogTypes DEF ReplayRow, Replaying
    <3> QED BY <2>2, <3>1, RowTypes DEF ReplayRow, Types, TypeOK
  <2>3. CASE UndoMatches
    BY <2>3 DEF UndoMatches, Types, TypeOK
  <2>4. CASE UndoSettlements
    <3>1. [status |-> "PENDING", settledBy |-> None] \in MatchRows
      BY DEF MatchRows
    <3> QED BY <2>4, <3>1 DEF UndoSettlements, Unsettled, Types, TypeOK
  <2>5. CASE UNCHANGED matchRow
    BY <2>5 DEF Types, TypeOK
  <2> QED BY <2>1, <2>2, <2>3, <2>4, <2>5 DEF Next, Mine, Reorg, Rollback, Check, Select, UndoOrders,
       MarkReorged, DropBlocks, Rewind, Chunk, Scan, Fetch, Store, ReplayRelated, ReplaySpend,
       ReplayConsume, Stamp, Advance, Fault, vars, db
<1>4. commitment' \in {None} \cup CommitmentRows /\ consumed' \subseteq Submit
  <2>1. ASSUME NEW t \in Tx, Live(t) PROVE commitment' \in {None} \cup CommitmentRows /\ consumed' \subseteq Submit
    BY <2>1, RowTypes DEF Live
  <2>2. CASE ReplayRelated \/ ReplaySpend \/ ReplayConsume
    <3>1. LogTx \in Tx
      BY <2>2, LogTypes DEF ReplayRelated, ReplaySpend, ReplayConsume, Replaying
    <3> QED BY <2>2, <3>1, RowTypes DEF ReplayRelated, ReplaySpend, ReplayConsume, Types, TypeOK
  <2>3. CASE UNCHANGED <<commitment, consumed>>
    BY <2>3 DEF Types, TypeOK
  <2> QED BY <2>1, <2>2, <2>3 DEF Next, Mine, Reorg, Rollback, Check, Select, UndoOrders, UndoMatches,
       UndoSettlements, MarkReorged, DropBlocks, Rewind, Chunk, Scan, Fetch, Store, ReplayRow, Stamp,
       Advance, Fault, vars, db
<1>5. logRow' \in [Tx -> {None} \cup LogRows]
  <2>1. CASE Store
    <3>1. LogTx \in Tx /\ Log \in Height
      BY <2>1, LogTypes DEF Store, Replaying
    <3>2. [status |-> "CONFIRMED", block |-> Log] \in LogRows
      BY <3>1 DEF LogRows
    <3> QED BY <2>1, <3>1, <3>2 DEF Store, Types, TypeOK
  <2>2. CASE MarkReorged
    <3>1. \A t \in Tx : logRow[t] # None => [logRow[t] EXCEPT !.status = "REORGED"] \in LogRows
      BY DEF Types, TypeOK, LogRows
    <3>2. \A t \in Tx : logRow[t] \in {None} \cup LogRows
      BY DEF Types, TypeOK
    <3> QED BY <2>2, <3>1, <3>2 DEF MarkReorged
  <2>3. CASE UNCHANGED logRow
    BY <2>3 DEF Types, TypeOK
  <2> QED BY <2>1, <2>2, <2>3 DEF Next, Mine, Reorg, Live, Rollback, Check, Select, UndoOrders, UndoMatches,
       UndoSettlements, DropBlocks, Rewind, Chunk, Scan, Fetch, ReplayRow, ReplayRelated, ReplaySpend,
       ReplayConsume, Stamp, Advance, Fault, vars, db
<1>6. blockRow' \in [Height -> {None} \cup (0 .. MaxTrouble)]
  <2>1. CASE Stamp
    <3>1. upto \in DOMAIN chain => chain[upto].fork \in 0 .. MaxTrouble
      BY ChainType DEF Block
    <3> QED BY <2>1, <3>1 DEF Stamp, HashAt, Types, TypeOK
  <2>2. CASE DropBlocks
    BY <2>2 DEF DropBlocks, Types, TypeOK
  <2>3. CASE UNCHANGED blockRow
    BY <2>3 DEF Types, TypeOK
  <2> QED BY <2>1, <2>2, <2>3 DEF Next, Mine, Reorg, Live, Rollback, Check, Select, UndoOrders, UndoMatches,
       UndoSettlements, MarkReorged, Rewind, Chunk, Scan, Fetch, Store, ReplayRow, ReplayRelated,
       ReplaySpend, ReplayConsume, Advance, Fault, vars, db
<1>7. forks' \in Nat /\ trouble' \in 0 .. MaxTrouble /\ forks' <= trouble'
  <2>1. CASE \E k \in 0 .. MaxHeight : Reorg(k)
    BY <2>1, Constants DEF Reorg, Types
  <2>2. CASE Fault \/ \E t \in Tx : Live(t)
    BY <2>2, Constants DEF Fault, Live, Types
  <2>3. CASE UNCHANGED <<forks, trouble>>
    BY <2>3 DEF Types
  <2> QED BY <2>1, <2>2, <2>3 DEF Next, Mine, Rollback, Check, Select, UndoOrders, UndoMatches,
       UndoSettlements, MarkReorged, DropBlocks, Rewind, Chunk, Scan, Fetch, Store, ReplayRow, ReplayRelated,
       ReplaySpend, ReplayConsume, Stamp, Advance, vars, bounds
<1>8. /\ cursor' \in 0 .. MaxHeight /\ gone' \subseteq Tx
      /\ common' \in 0 .. MaxHeight /\ target' \in 0 .. MaxHeight /\ upto' \in 0 .. MaxHeight
  <2>1. CASE Select
    <3>3. common' \in 0 .. MaxHeight
      BY <2>1, NewestShared, Constants DEF Select
    <3>4. gone' \subseteq Tx
      BY <2>1 DEF Select
    <3>5. UNCHANGED <<cursor, target, upto>>
      BY <2>1 DEF Select, db
    <3> QED BY <3>3, <3>4, <3>5 DEF Types, TypeOK
  <2>2. CASE Scan
    BY <2>2, ChainType, Constants DEF Scan, Confirmed, Types, TypeOK, db
  <2>3. CASE Fetch
    BY <2>3, Constants DEF Fetch, Min2, Types, TypeOK, db
  <2>4. CASE Rewind \/ Advance \/ Fault
    BY <2>4, Constants DEF Rewind, Rewound, Advance, Fault, Types, TypeOK, db
  <2>5. CASE UNCHANGED <<cursor, gone, common, target, upto>>
    BY <2>5 DEF Types, TypeOK
  <2> QED BY <2>1, <2>2, <2>3, <2>4, <2>5 DEF Next, Mine, Reorg, Live, Rollback, Check, UndoOrders, UndoMatches,
       UndoSettlements, MarkReorged, DropBlocks, Chunk, Store, ReplayRow, ReplayRelated,
       ReplaySpend, ReplayConsume, Stamp, vars, db, locals
<1>9. pc' \in {"idle", "select", "scan", "fetch", "advance"} \cup Undoing \cup Chunking
  BY DEF Next, Mine, Reorg, Live, Rollback, Check, Select, UndoOrders, UndoMatches,
       UndoSettlements, MarkReorged, DropBlocks, Rewind, Chunk, Scan, Fetch, Store, ReplayRow, ReplayRelated,
       ReplaySpend, ReplayConsume, Finish, Stamp, Advance, Fault, vars, Types, Undoing, Chunking, Replaying
<1>10. refiled' \subseteq Tx /\ pending' \subseteq Tx /\ heard' \subseteq Tx
  <2>1. CASE Store
    <3>1. LogTx \in Tx
      BY <2>1, LogTypes DEF Store, Replaying
    <3> QED BY <2>1, <3>1 DEF Store, Types
  <2>2. CASE ~Store
    BY <2>2 DEF Next, Mine, Reorg, Live, Rollback, Check, Select, UndoOrders, UndoMatches,
       UndoSettlements, MarkReorged, DropBlocks, Rewind, Chunk, Scan, Fetch, ReplayRow, ReplayRelated,
       ReplaySpend, ReplayConsume, Stamp, Advance, Fault, vars, Types, history
  <2> QED BY <2>1, <2>2
<1> QED BY <1>1, <1>2, <1>3, <1>4, <1>5, <1>6, <1>7, <1>8, <1>9, <1>10 DEF Types, TypeOK

---------------------------------------------------------------------------
(* The chunk.                                                              *)

LEMMA SameLog ==
  ASSUME UNCHANGED <<view, logs>>
  PROVE  Log' = Log /\ LogTx' = LogTx
BY DEF Log, LogTx

(* The parts of ChunkInv as they read after a step.                        *)
LEMMA ChunkStep ==
  ASSUME Types, ChunkInv, ChainInv, [Next]_vars
  PROVE  ChunkInv'
<1>1. CASE Fetch
  <2> DEFINE to == Min2(cursor + ChunkSize, target)
             read == [h \in cursor + 1 .. Min2(to, Len(chain)) |-> chain[h]]
  <2>1. cursor \in 0 .. MaxHeight /\ target \in 0 .. MaxHeight /\ cursor < target
    BY <1>1 DEF Fetch, ChunkInv, Types, TypeOK
  <2>2. to \in Nat /\ cursor < to
    BY <2>1, Constants DEF Min2
  <2>3. \A h \in DOMAIN read : h \in Height /\ h \in DOMAIN chain /\ h \in cursor + 1 .. to /\ read[h] = chain[h]
    BY <2>1, <2>2, ChainType, Constants DEF Min2, Height
  <2>4. \A h \in DOMAIN read : read[h] \in Block
    BY <2>3, ChainType
  <2>5. LogsOf(read) \subseteq DOMAIN read /\ \A h \in LogsOf(read) : read[h].tx \in Tx
    BY <2>4 DEF LogsOf, Block
  <2>6. /\ upto' = to /\ view' = read /\ logs' = LogsOf(read)
        /\ pc' = IF LogsOf(read) = {} THEN "stamp" ELSE "store"
        /\ UNCHANGED <<cursor, logRow, pending>>
    BY <1>1 DEF Fetch, db, history
  <2>7. read \in [DOMAIN read -> Block] /\ DOMAIN read \subseteq Height
    BY <2>3, <2>4
  <2>8. \A t \in pending : logRow[t] # None
    BY DEF ChunkInv
  <2>9. DOMAIN read \subseteq cursor + 1 .. to
    BY <2>3
  <2>10. \A i \in DOMAIN read : read[i].tx # None => i \in LogsOf(read)
    BY DEF LogsOf
  <2> HIDE DEF to, read
  <2> QED BY <2>2, <2>5, <2>6, <2>7, <2>8, <2>9, <2>10 DEF ChunkInv, Replaying, Chunking
<1>2. CASE Store
  <2>1. LogTx \in Tx /\ pc = "store"
    BY <1>2, LogTypes DEF Store, Replaying
  <2>2. UNCHANGED <<view, logs, cursor, upto, target>> /\ pc' = "row" /\ LogTx' = LogTx /\ Log' = Log
    BY <1>2, SameLog DEF Store, locals
  <2>3. logRow'[LogTx] # None /\ (logRow'[LogTx].block = Log \/ LogTx \in refiled')
    <3>1. CASE logRow[LogTx] = None
      <4>1. logRow' = [logRow EXCEPT ![LogTx] = [status |-> "CONFIRMED", block |-> Log]]
        BY <1>2, <3>1 DEF Store
      <4>2. logRow'[LogTx] = [status |-> "CONFIRMED", block |-> Log]
        BY <2>1, <4>1 DEF Types, TypeOK
      <4>3. Log \in Height
        BY <1>2, LogTypes DEF Store, Replaying
      <4>4. [status |-> "CONFIRMED", block |-> Log] \in LogRows
        BY <4>3 DEF LogRows
      <4> QED BY <4>2, <4>4, Constants
    <3>2. CASE logRow[LogTx] # None
      BY <1>2, <3>2 DEF Store
    <3> QED BY <3>1, <3>2
  <2>4. \A t \in pending' : logRow'[t] # None
    <3>1. \A t \in Tx : t # LogTx => logRow'[t] = logRow[t]
      BY <1>2, <2>1 DEF Store, Types, TypeOK
    <3> QED BY <1>2, <2>3, <3>1 DEF Store, ChunkInv, Types
  <2>5. LogTx \in pending'
    BY <1>2 DEF Store
  <2> QED BY <2>1, <2>2, <2>3, <2>4, <2>5 DEF ChunkInv, Replaying, Chunking
<1>3. CASE ReplayRow
  BY <1>3, SameLog DEF ReplayRow, ChunkInv, Replaying, Chunking, locals, history
<1>4. CASE ReplayRelated \/ ReplayConsume
  <2>1. CASE pc' = "spend"
    BY <1>4, <2>1, SameLog DEF ReplayRelated, ReplayConsume, Finish, ChunkInv, Replaying, Chunking, history
  <2>2. CASE pc' # "spend"
    <3>1. Finish /\ UNCHANGED <<view, cursor, upto, logRow, pending>> /\ pc \in Replaying
      BY <1>4, <2>2 DEF ReplayRelated, ReplayConsume, history, Replaying
    <3>2. Log \in logs
      BY <3>1, LogTypes
    <3>3. /\ logs' = {} <=> pc' = "stamp"
          /\ logs' = logs \ {Log} /\ pc' \in {"stamp", "store"}
      BY <3>1, <3>2 DEF Finish
    <3>4. \A i \in DOMAIN view : view[i].tx # None => i \in logs' \/ \A l \in logs' : i < l
      <4>1. \A l \in logs' : Log < l
        <5>1. \A l \in logs : l \in Nat /\ Log <= l /\ Log \in Nat
          BY <3>1, <3>2, LogTypes DEF ChunkInv, Height
        <5> QED BY <3>3, <5>1
      <4>2. \A i \in DOMAIN view : i \in logs /\ i \notin logs' => i = Log
        BY <3>3
      <4> QED BY <3>3, <4>1, <4>2 DEF ChunkInv
    <3> QED BY <3>1, <3>3, <3>4 DEF ChunkInv, Replaying, Chunking
  <2> QED BY <2>1, <2>2
<1>5. CASE ReplaySpend
  BY <1>5, SameLog DEF ReplaySpend, ChunkInv, Replaying, Chunking, locals, history
<1>6. CASE Stamp
  BY <1>6 DEF Stamp, ChunkInv, Replaying, Chunking, Unread
<1>7. CASE Advance
  <2>1. DOMAIN view = {} /\ DOMAIN view' = {} /\ logs' = {}
    BY <1>7 DEF Advance, ChunkInv, Chunking, Replaying
  <2> QED BY <1>7, <2>1 DEF Advance, ChunkInv, Replaying, Chunking
<1>8. CASE Fault
  BY <1>8 DEF Fault, ChunkInv, Replaying, Chunking, Unread, db
<1>9. CASE MarkReorged
  <2>1. \A t \in Tx : logRow[t] # None => logRow'[t] # None
    <3>1. \A t \in Tx : logRow[t] # None => [logRow[t] EXCEPT !.status = "REORGED"] \in LogRows
      BY DEF Types, TypeOK, LogRows
    <3> QED BY <1>9, <3>1, Constants DEF MarkReorged
  <2>2. DOMAIN view' = {} /\ logs' = {} /\ pc' = "blocks"
    BY <1>9 DEF MarkReorged, ChunkInv, Chunking, Replaying, locals
  <2>3. \A t \in pending' : logRow'[t] # None
    BY <1>9, <2>1 DEF MarkReorged, ChunkInv, Types
  <2> QED BY <2>2, <2>3 DEF ChunkInv, Replaying, Chunking
<1>10. CASE Scan
  <2>1. pc' = "fetch" => cursor' < target'
    BY <1>10, ChainType, Constants DEF Scan, Confirmed, Types, TypeOK, db
  <2>2. DOMAIN view = {} /\ DOMAIN view' = {} /\ logs' = {} /\ pc' \in {"idle", "fetch"}
    BY <1>10 DEF Scan, ChunkInv, Chunking, Replaying
  <2>3. UNCHANGED <<logRow, pending>>
    BY <1>10 DEF Scan, db, history
  <2> QED BY <2>1, <2>2, <2>3 DEF ChunkInv, Replaying, Chunking
<1>11. CASE Check \/ Select \/ UndoOrders \/ UndoMatches \/ UndoSettlements \/ DropBlocks \/ Rewind
  <2>1. /\ pc \notin Chunking /\ pc' \in {"select", "scan"} \cup Undoing
        /\ UNCHANGED <<view, logs, logRow, pending>>
    BY <1>11 DEF Check, Select, UndoOrders, UndoMatches, UndoSettlements, DropBlocks, Rewind,
         Chunking, Replaying, Undoing, db, locals, history
  <2> QED BY <2>1 DEF ChunkInv, Replaying, Chunking, Undoing
<1>12. CASE UNCHANGED <<view, logs, logRow, pending, pc, cursor, upto, target, refiled>>
  BY <1>12, SameLog DEF ChunkInv
<1> QED
  BY <1>1, <1>2, <1>3, <1>4, <1>5, <1>6, <1>7, <1>8, <1>9, <1>10, <1>11, <1>12
  DEF Next, Mine, Reorg, Live, Rollback, Chunk, vars, db, locals, history

---------------------------------------------------------------------------
(* The chain and its forks.                                                *)

LEMMA ChainStep ==
  ASSUME Types, ChainInv, [Next]_vars
  PROVE  ChainInv'
<1>1. CASE Mine
  <2>1. PICK t \in Tx \cup {None} :
           /\ t # None => Minable(t)
           /\ DOMAIN chain' = 1 .. Len(chain) + 1
           /\ chain'[Len(chain) + 1] = [fork |-> forks, tx |-> t]
           /\ \A i \in DOMAIN chain : chain'[i] = chain[i]
    BY <1>1, Mined
  <2> DEFINE n == Len(chain)
  <2>2. n \in Nat /\ DOMAIN chain = 1 .. n /\ None \notin Tx
    BY ChainType, Constants
  <2>3. \A i \in 1 .. n : chain[i].tx = t => t = None
    BY <2>1, <2>2, Heights DEF Minable
  <2>4. t \in Submit => \A i \in 1 .. n : chain[i].tx \notin Submit
    <3>1. \A s \in Submit : s \in Tx
      BY DEF Tx
    <3>2. t \in Submit => \A s \in Submit : ~OnChain(s)
      BY <2>1, <2>2, <3>1, Constants DEF Minable, Submitted
    <3> QED BY <2>2, <3>1, <3>2, Heights
  <2>5. t = Publish => \E i \in 1 .. n : chain[i].tx \in Submit
    <3>1. t = Publish => \E s \in Submit : OnChain(s)
      BY <2>1, <2>2, Constants DEF Minable, Submitted, Tx
    <3> QED BY <2>2, <3>1, Heights DEF Tx
  <2>6. t = SettleTx => \E i \in 1 .. n : chain[i].tx = Publish
    <3>1. t = SettleTx => OnChain(Publish)
      BY <2>1, <2>2, Constants DEF Minable, Tx
    <3> QED BY <2>2, <3>1, Heights DEF Tx
  <2>7. chain'[n + 1].tx = t /\ \A i \in 1 .. n : chain'[i].tx = chain[i].tx
    BY <2>1, <2>2
  <2>8. \A i \in 1 .. n + 1 : i = n + 1 \/ i \in 1 .. n
    BY <2>2
  <2> HIDE DEF n
  <2>9. \A i, j \in 1 .. n + 1 : chain'[i].tx = chain'[j].tx /\ chain'[i].tx # None => i = j
    BY <2>2, <2>3, <2>7, <2>8 DEF ChainInv
  <2>10. \A i, j \in 1 .. n + 1 : chain'[i].tx \in Submit /\ chain'[j].tx \in Submit => i = j
    BY <2>2, <2>4, <2>7, <2>8 DEF ChainInv
  <2>11. \A j \in 1 .. n + 1 : chain'[j].tx = Publish => \E i \in 1 .. j - 1 : chain'[i].tx \in Submit
    BY <2>2, <2>5, <2>7, <2>8 DEF ChainInv
  <2>12. \A j \in 1 .. n + 1 : chain'[j].tx = SettleTx => \E i \in 1 .. j - 1 : chain'[i].tx = Publish
    BY <2>2, <2>6, <2>7, <2>8 DEF ChainInv
  <2>13. DOMAIN chain' = 1 .. n + 1
    BY <2>1 DEF n
  <2> QED BY <2>9, <2>10, <2>11, <2>12, <2>13 DEF ChainInv
<1>2. ASSUME NEW k \in 0 .. MaxHeight, Reorg(k) PROVE ChainInv'
  <2>1. DOMAIN chain' = 1 .. k /\ k \in Nat /\ \A i \in 1 .. k : i \in DOMAIN chain /\ chain'[i] = chain[i]
    BY <1>2, Cut, Constants
  <2>2. \A j \in 1 .. k : \A i \in 1 .. j - 1 : i \in 1 .. k
    BY <2>1
  <2> QED BY <2>1, <2>2 DEF ChainInv
<1>3. CASE UNCHANGED chain
  BY <1>3 DEF ChainInv
<1> QED BY <1>1, <1>2, <1>3, OtherwiseSameChain

LEMMA HashType ==
  ASSUME Types, ForkInv, NEW h \in DOMAIN chain
  PROVE  HashAt(h) = chain[h].fork /\ HashAt(h) \in 0 .. MaxTrouble /\ HashAt(h) # None /\ HashAt(h) <= forks
BY ChainType, Constants DEF HashAt, Block, ForkInv

LEMMA ForkStep ==
  ASSUME Types, ChunkInv, ForkInv, [Next]_vars
  PROVE  ForkInv'
<1>1. CASE Mine
  <2>1. /\ DOMAIN chain' = 1 .. Len(chain) + 1 /\ chain'[Len(chain) + 1].fork = forks
        /\ \A i \in DOMAIN chain : chain'[i] = chain[i]
    BY <1>1, Mined
  <2>2. DOMAIN chain = 1 .. Len(chain) /\ Len(chain) \in Nat /\ forks \in Nat
    BY ChainType, Constants DEF Types
  <2>3. \A i \in DOMAIN chain' : chain'[i].fork <= forks
    <3>1. \A i \in DOMAIN chain' : i = Len(chain) + 1 \/ i \in DOMAIN chain
      BY <2>1, <2>2
    <3>2. forks <= forks
      BY <2>2
    <3> QED BY <2>1, <3>1, <3>2 DEF ForkInv
  <2>4. UNCHANGED <<forks, blockRow, view>> /\ Stamped' = Stamped
    BY <1>1 DEF Mine, db, locals, bounds, Stamped
  <2>5. \A h : h \notin DOMAIN chain' => h \notin DOMAIN chain
    BY <2>1, <2>2
  <2> QED BY <2>3, <2>4, <2>5 DEF ForkInv
<1>2. ASSUME NEW k \in 0 .. MaxHeight, Reorg(k) PROVE ForkInv'
  <2>1. DOMAIN chain' = 1 .. k /\ (\A i \in 1 .. k : i \in DOMAIN chain /\ chain'[i] = chain[i]) /\ forks' = forks + 1
    BY <1>2, Cut
  <2>2. UNCHANGED <<blockRow, view>> /\ Stamped' = Stamped /\ forks \in Nat
    BY <1>2 DEF Reorg, db, locals, Stamped, Types
  <2>3. \A i \in DOMAIN chain : chain[i].fork \in Nat
    BY ChainType, Constants DEF Block
  <2>4. \A h \in Stamped : blockRow[h] \in Nat
    BY Constants DEF Stamped, Types, TypeOK
  <2>5. \A h \in DOMAIN view : view[h].fork \in Nat
    BY Constants DEF ChunkInv, Block
  <2> QED BY <2>1, <2>2, <2>3, <2>4, <2>5 DEF ForkInv
<1>3. CASE Fetch
  <2>1. \A h \in DOMAIN view' : h \in DOMAIN chain /\ view'[h] = chain[h]
    BY <1>3, ChainType, Constants DEF Fetch, Min2, Types, TypeOK
  <2>2. UNCHANGED <<chain, forks, blockRow>> /\ Stamped' = Stamped
    BY <1>3 DEF Fetch, db, bounds, Stamped
  <2> QED BY <2>1, <2>2 DEF ForkInv
<1>4. CASE Stamp
  <2>1. DOMAIN view' = {} /\ UNCHANGED <<chain, forks>>
    BY <1>4 DEF Stamp, Unread, bounds
  <2>2. \A h \in Stamped' : (h \in Stamped /\ blockRow'[h] = blockRow[h])
                           \/ (h = upto /\ upto \in DOMAIN chain /\ blockRow'[h] = HashAt(upto))
    BY <1>4 DEF Stamp, Stamped, HashAt, Types, TypeOK
  <2>3. upto \in DOMAIN chain => HashAt(upto) <= forks
    BY HashType
  <2> QED BY <2>1, <2>2, <2>3 DEF ForkInv
<1>5. CASE DropBlocks
  <2>1. \A h \in Stamped' : h \in Stamped /\ blockRow'[h] = blockRow[h]
    BY <1>5 DEF DropBlocks, Stamped, Types, TypeOK
  <2> QED BY <1>5, <2>1 DEF DropBlocks, ForkInv, bounds, locals
<1>6. CASE Fault
  BY <1>6 DEF Fault, ForkInv, Stamped, Unread, db
<1>7. CASE UNCHANGED <<chain, forks, blockRow, view>>
  BY <1>7 DEF ForkInv, Stamped
<1> QED BY <1>1, <1>2, <1>3, <1>4, <1>5, <1>6, <1>7
  DEF Next, Live, Rollback, Check, Select, UndoOrders, UndoMatches, UndoSettlements, MarkReorged,
      Rewind, Chunk, Scan, Store, ReplayRow, ReplayRelated, ReplaySpend, ReplayConsume, Advance,
      vars, db, locals, bounds

(* Some height up to which a step leaves the chain as it is: at most one   *)
(* new block above it.  A stamp that stands after the step stood before    *)
(* and is not above that height, and neither is a block read that is still *)
(* the chain's.                                                            *)
Kept(k) ==
  /\ k \in 0 .. Len(chain) /\ k <= Len(chain') /\ Len(chain') \in Nat
  /\ DOMAIN chain = 1 .. Len(chain) /\ DOMAIN chain' = 1 .. Len(chain')
  /\ \A i \in 1 .. k : chain'[i] = chain[i]
  /\ \A h \in Shared' : h \in 1 .. k /\ h \in Shared
  /\ \A i : Read(i)' => i \in 1 .. k /\ Read(i)

LEMMA ChainMove ==
  ASSUME Types, ChunkInv, ForkInv, Mine \/ \E k \in 0 .. MaxHeight : Reorg(k)
  PROVE  /\ \E k \in 0 .. MaxHeight : Kept(k)
         /\ UNCHANGED <<db, pc, locals, history>> /\ ChainMoves
<1>1. UNCHANGED <<db, pc, locals, history>> /\ ChainMoves /\ UNCHANGED <<blockRow, view>> /\ Stamped' = Stamped
  BY DEF Mine, Reorg, db, locals, Stamped
<1>2. Len(chain) \in 0 .. MaxHeight /\ DOMAIN chain = 1 .. Len(chain) /\ MaxHeight \in Nat
  BY ChainType, Constants
<1>3. /\ \A h \in Stamped : blockRow[h] \in Nat /\ (h \notin DOMAIN chain => blockRow[h] # forks)
      /\ \A h \in DOMAIN view : view[h].fork \in Nat /\ (h \notin DOMAIN chain => view[h].fork # forks)
  BY Constants DEF Stamped, Types, TypeOK, ChunkInv, ForkInv, Block
<1>5. CASE Mine
  <2> DEFINE n == Len(chain)
  <2>1. /\ Len(chain') = n + 1 /\ DOMAIN chain' = 1 .. n + 1 /\ chain'[n + 1].fork = forks
        /\ \A i \in DOMAIN chain : chain'[i] = chain[i]
    BY <1>5, Mined
  <2>2. \A i \in 1 .. n + 1 : i = n + 1 \/ i \in 1 .. n
    BY <1>2
  <2>3. n + 1 \notin DOMAIN chain
    BY <1>2
  <2>4. ASSUME NEW h \in Shared' PROVE h \in 1 .. n /\ h \in Shared
    <3>1. h \in Stamped /\ blockRow[h] = HashAt(h)' /\ blockRow[h] # None
      BY <1>1, <2>4 DEF Shared, Stamped
    <3>2. h \in 1 .. n + 1 /\ blockRow[h] = chain'[h].fork
      BY <2>1, <3>1 DEF HashAt
    <3>3. h # n + 1
      BY <1>3, <2>1, <2>3, <3>1, <3>2
    <3> QED BY <1>2, <2>1, <2>2, <3>1, <3>2, <3>3 DEF Shared, HashAt
  <2>5. ASSUME NEW i, Read(i)' PROVE i \in 1 .. n /\ Read(i)
    <3>1. i \in DOMAIN view /\ i \in 1 .. n + 1 /\ chain'[i] = view[i]
      BY <1>1, <2>1, <2>5 DEF Read
    <3>2. i # n + 1
      BY <1>3, <2>1, <2>3, <3>1
    <3> QED BY <1>2, <2>1, <2>2, <3>1, <3>2 DEF Read
  <2>6. n \in 0 .. Len(chain) /\ n <= Len(chain') /\ n \in 0 .. MaxHeight
    BY <1>2, <2>1
  <2>7. Kept(n)
    BY <1>2, <2>1, <2>4, <2>5, <2>6 DEF Kept
  <2> QED BY <1>1, <2>6, <2>7
<1>6. ASSUME NEW k \in 0 .. MaxHeight, Reorg(k) PROVE Kept(k)
  <2>1. /\ k < Len(chain) /\ Len(chain') = k /\ DOMAIN chain' = 1 .. k
        /\ \A i \in 1 .. k : i \in DOMAIN chain /\ chain'[i] = chain[i]
    BY <1>6, Cut
  <2>2. \A h \in Shared' : h \in 1 .. k /\ h \in Shared
    BY <1>1, <2>1 DEF Shared, HashAt, Stamped
  <2>3. \A i : Read(i)' => i \in 1 .. k /\ Read(i)
    BY <1>1, <2>1 DEF Read
  <2>4. k \in 0 .. Len(chain) /\ k <= Len(chain') /\ Len(chain') \in Nat
    BY <1>2, <2>1
  <2> QED BY <1>2, <2>1, <2>2, <2>3, <2>4 DEF Kept
<1> QED BY <1>1, <1>5, <1>6

LEMMA HeightsAfter ==
  ASSUME ChainInv', NEW k, Kept(k), NEW t \in Tx
  PROVE  /\ HeightOf(t)' \in 0 .. Len(chain')
         /\ OnChain(t)' => HeightOf(t)' \in DOMAIN chain' /\ chain'[HeightOf(t)'].tx = t
         /\ \A i \in 1 .. Len(chain') : chain'[i].tx = t => HeightOf(t)' = i
         /\ (\A i \in 1 .. Len(chain') : chain'[i].tx # t) => HeightOf(t)' = 0
<1>1. HeightOf(t)' = At(chain', t) /\ (OnChain(t)' <=> HeightOf(t)' # 0)
  BY DEF HeightOf, OnChain, At, SelectInSeq
<1>2. Len(chain') \in Nat /\ DOMAIN chain' = 1 .. Len(chain') /\ t # None
  BY Constants DEF Kept
<1>3. \A i, j \in 1 .. Len(chain') : chain'[i].tx = t /\ chain'[j].tx = t => i = j
  BY <1>2 DEF ChainInv
<1>4. /\ \A i \in 1 .. Len(chain') : chain'[i].tx = t => HeightOf(t)' = i
      /\ (\A i \in 1 .. Len(chain') : chain'[i].tx # t) => HeightOf(t)' = 0
  BY <1>1, <1>2, <1>3, FoundAt
<1> QED BY <1>1, <1>2, <1>4

(* A transaction at or below such a height is where it was.                *)
LEMMA KeptHeights ==
  ASSUME Types, ChainInv, ChainInv', NEW k \in 0 .. MaxHeight, Kept(k), NEW t \in Tx
  PROVE  /\ HeightOf(t) \in 1 .. k => HeightOf(t)' = HeightOf(t)
         /\ HeightOf(t)' \in 1 .. k => HeightOf(t) = HeightOf(t)'
<1>2. /\ Len(chain') \in Nat /\ DOMAIN chain' = 1 .. Len(chain') /\ DOMAIN chain = 1 .. Len(chain)
      /\ k \in Nat /\ Len(chain) \in Nat /\ k <= Len(chain) /\ k <= Len(chain') /\ t # None
  BY ChainType, Constants DEF Kept
<1>4. /\ \A i \in 1 .. Len(chain') : chain'[i].tx = t => HeightOf(t)' = i
      /\ (\A i \in 1 .. Len(chain') : chain'[i].tx # t) => HeightOf(t)' = 0
  BY HeightsAfter
<1>5. \A i \in 1 .. k : i \in DOMAIN chain /\ i \in DOMAIN chain' /\ chain'[i] = chain[i]
  BY <1>2 DEF Kept
<1>6. ASSUME HeightOf(t) \in 1 .. k PROVE HeightOf(t)' = HeightOf(t)
  <2>1. OnChain(t)
    BY <1>2, <1>6 DEF OnChain
  <2> QED BY <1>2, <1>4, <1>5, <1>6, <2>1, Heights
<1>7. ASSUME HeightOf(t)' \in 1 .. k PROVE HeightOf(t) = HeightOf(t)'
  <2>1. PICK i \in 1 .. Len(chain') : chain'[i].tx = t
    BY <1>2, <1>4, <1>7
  <2>2. HeightOf(t)' = i
    BY <1>4, <2>1
  <2> QED BY <1>2, <1>5, <1>7, <2>1, <2>2, Heights
<1> QED BY <1>6, <1>7

---------------------------------------------------------------------------
(* What was read of the chain, the cursor, and the rollback.               *)

LEMMA SharedOnChain ==
  ASSUME Types, NEW h \in Shared
  PROVE  h \in DOMAIN chain /\ h \in 1 .. Len(chain) /\ h \in Height /\ h \in Nat
BY ChainType, Constants DEF Shared, Stamped, HashAt, Height

LEMMA ViewStep ==
  ASSUME Types, ChunkInv, ChainInv, ForkInv, ViewInv, [Next]_vars
  PROVE  ViewInv'
<1>1. CASE Mine \/ \E k \in 0 .. MaxHeight : Reorg(k)
  <2>1. PICK k \in 0 .. MaxHeight : Kept(k)
    BY <1>1, ChainMove
  <2>2. view' = view
    BY <1>1, ChainMove DEF locals
  <2>3. k \in Nat /\ \A h \in 1 .. k : 1 .. h \subseteq 1 .. k
    BY Constants
  <2>4. \A i \in DOMAIN view : i \in Nat /\ i >= 1
    BY DEF ChunkInv, Height
  <2>5. ASSUME NEW h \in Shared', NEW i \in DOMAIN view'
        PROVE  /\ i <= h => chain'[i] = view'[i]
               /\ \A j \in 1 .. h : chain'[j].tx \in Submit /\ view'[i].tx \in Submit => chain'[j].tx = view'[i].tx
    <3>1. h \in 1 .. k /\ h \in Shared /\ \A j \in 1 .. h : chain'[j] = chain[j]
      BY <2>1, <2>3, <2>5 DEF Kept
    <3>2. i \in DOMAIN view /\ (i <= h => i \in 1 .. h)
      BY <2>2, <2>3, <2>4, <2>5, <3>1
    <3> QED BY <2>2, <3>1, <3>2 DEF ViewInv
  <2>6. \A i, j \in DOMAIN view' : view'[i].tx \in Submit /\ view'[j].tx \in Submit => i = j
    BY <2>2 DEF ViewInv
  <2> QED BY <2>5, <2>6 DEF ViewInv
<1>2. CASE Fetch
  <2>1. \A h \in DOMAIN view' : h \in DOMAIN chain /\ view'[h] = chain[h]
    BY <1>2, ChainType, Constants DEF Fetch, Min2, Types, TypeOK
  <2>2. chain' = chain /\ Shared' = Shared
    BY <1>2 DEF Fetch, db, Shared, Stamped, HashAt
  <2>3. \A h \in Shared : \A j \in 1 .. h : j \in DOMAIN chain
    BY SharedOnChain, ChainType
  <2> QED BY <2>1, <2>2, <2>3 DEF ViewInv, ChainInv
<1>3. CASE Stamp \/ Fault
  BY <1>3 DEF Stamp, Fault, Unread, ViewInv
<1>4. CASE DropBlocks
  BY <1>4 DEF DropBlocks, ChunkInv, ViewInv, Chunking, Replaying, locals
<1>5. CASE UNCHANGED <<chain, blockRow, view>>
  BY <1>5 DEF ViewInv, Shared, Stamped, HashAt
<1> QED BY <1>1, <1>2, <1>3, <1>4, <1>5
  DEF Next, Live, Rollback, Check, Select, UndoOrders, UndoMatches, UndoSettlements, MarkReorged,
      Rewind, Chunk, Scan, Store, ReplayRow, ReplayRelated, ReplaySpend, ReplayConsume, Advance,
      vars, db, locals

LEMMA CursorStep ==
  ASSUME Types, ChunkInv, ForkInv, CursorInv, UndoInv, [Next]_vars
  PROVE  CursorInv'
<1>1. CASE Stamp
  <2>1. pc' = "advance" /\ pc = "stamp" /\ UNCHANGED <<cursor, upto, torn>>
    BY <1>1 DEF Stamp
  <2>2. ASSUME ~buried' PROVE ~buried /\ upto \in Stamped' /\ \A h \in Stamped : h \in Stamped'
    <3>1. HashAt(upto) # None /\ blockRow' = [blockRow EXCEPT ![upto] = HashAt(upto)] /\ ~buried
      BY <1>1, <2>2 DEF Stamp
    <3>2. upto \in Height
      BY <2>1 DEF ChunkInv, Chunking, Types, TypeOK, Height
    <3> QED BY <3>1, <3>2 DEF Stamped, Types, TypeOK
  <2> QED BY <2>1, <2>2 DEF CursorInv
<1>2. CASE Advance
  BY <1>2 DEF Advance, CursorInv, Stamped
<1>3. CASE Rewind
  <2>1. cursor' = common /\ Stamped' = Stamped /\ pc' = "scan" /\ UNCHANGED <<buried, torn>>
    BY <1>3 DEF Rewind, Rewound, Stamped, history
  <2>2. common \in {0} \cup Stamped
    BY <1>3 DEF UndoInv, Rewind, Undoing, Shared
  <2> QED BY <2>1, <2>2 DEF CursorInv
<1>4. CASE DropBlocks
  BY <1>4 DEF DropBlocks, CursorInv
<1>5. CASE Fault
  BY <1>5 DEF Fault, CursorInv, Stamped, db
<1>6. CASE UNCHANGED <<cursor, blockRow, buried, torn>> /\ pc' \notin {"advance", "rewind"} /\ pc # "rewind"
  BY <1>6 DEF CursorInv, Stamped
<1>7. CASE UNCHANGED <<cursor, blockRow, buried, torn, pc, upto>>
  BY <1>7 DEF CursorInv, Stamped
<1> QED BY <1>1, <1>2, <1>3, <1>4, <1>5, <1>6, <1>7
  DEF Next, Mine, Reorg, Live, Rollback, Check, Select, UndoOrders, UndoMatches, UndoSettlements, MarkReorged,
      Chunk, Scan, Fetch, Store, ReplayRow, ReplayRelated, ReplaySpend, ReplayConsume, Finish,
      vars, db, locals, history

LEMMA SameShared ==
  ASSUME UNCHANGED <<chain, blockRow>>
  PROVE  Shared' = Shared /\ Stamped' = Stamped
BY DEF Shared, Stamped, HashAt

(* The stamps that are dropped did not stand.                              *)
LEMMA DropKeeps ==
  ASSUME Types, UndoInv, DropBlocks
  PROVE  Shared' = Shared /\ \A h \in Stamped' : h <= common
<1>1. /\ chain' = chain /\ pc \in Undoing
      /\ blockRow' = [h \in Height |-> IF h > common THEN None ELSE blockRow[h]]
  BY DEF DropBlocks, Undoing
<1>2. common \in Nat /\ Stamped \subseteq Nat
  BY Constants DEF Types, Stamped, Height
<1>3. Stamped' = {h \in Stamped : h <= common} /\ \A h \in Stamped' : blockRow'[h] = blockRow[h]
  BY <1>1, <1>2 DEF Stamped, Height
<1>4. Shared' = {h \in Shared : h <= common}
  BY <1>1, <1>3 DEF Shared, HashAt
<1> QED BY <1>1, <1>3, <1>4 DEF UndoInv

LEMMA UndoStep ==
  ASSUME Types, UndoInv, [Next]_vars
  PROVE  UndoInv'
<1>1. CASE Select
  <2>1. /\ common' = Common /\ gone' = {t \in Tx : logRow[t] # None /\ logRow[t].block > Common}
        /\ UNCHANGED <<chain, logRow, blockRow>> /\ pc' = "orders"
    BY <1>1 DEF Select, db
  <2>2. Shared' = Shared
    BY <2>1, SameShared
  <2> QED BY <2>1, <2>2, NewestShared DEF UndoInv
<1>2. CASE UndoOrders \/ UndoMatches \/ UndoSettlements
  <2>1. /\ UNCHANGED <<chain, logRow, blockRow, common, gone>> /\ pc \in Undoing
        /\ pc' \in {"matches", "settlements", "marks"}
    BY <1>2 DEF UndoOrders, UndoMatches, UndoSettlements, locals, Undoing
  <2> QED BY <2>1, SameShared DEF UndoInv
<1>3. CASE MarkReorged
  <2>1. /\ UNCHANGED <<chain, blockRow, common, gone>> /\ pc = "marks" /\ pc' = "blocks" /\ pc \in Undoing
    BY <1>3 DEF MarkReorged, locals, Undoing
  <2>2. \A t \in Tx : logRow[t] # None =>
           [logRow[t] EXCEPT !.status = "REORGED"] \in LogRows
    BY DEF Types, TypeOK, LogRows
  <2>3. \A t \in Tx : /\ logRow'[t] # None <=> logRow[t] # None
                      /\ logRow[t] # None => logRow'[t].block = logRow[t].block
                      /\ logRow[t] # None /\ logRow[t].block > common => logRow'[t].status = "REORGED"
    BY <1>3, <2>2, Constants DEF MarkReorged, Types, TypeOK, LogRows
  <2>4. \A t \in Tx : logRow[t] # None => logRow[t].block \in Nat
    BY DEF Types, TypeOK, LogRows, Height
  <2>5. common \in Nat
    BY Constants DEF Types
  <2>6. \A t \in Tx : OnFile(t)' => logRow'[t].block <= common
    BY <2>3, <2>4, <2>5 DEF OnFile
  <2>7. gone' = {t \in Tx : logRow'[t] # None /\ logRow'[t].block > common}
    BY <2>1, <2>3 DEF UndoInv
  <2> QED BY <2>1, <2>6, <2>7, SameShared DEF UndoInv
<1>4. CASE DropBlocks
  <2>1. /\ UNCHANGED <<chain, logRow, common, gone>> /\ pc = "blocks" /\ pc' = "rewind" /\ pc \in Undoing
    BY <1>4 DEF DropBlocks, locals, Undoing
  <2>2. Shared' = Shared /\ \A h \in Stamped' : h <= common
    BY <1>4, DropKeeps
  <2>3. \A t \in Tx : OnFile(t)' => OnFile(t)
    BY <2>1 DEF OnFile
  <2> QED BY <2>1, <2>2, <2>3 DEF UndoInv
<1>5. CASE pc' \notin Undoing
  BY <1>5 DEF UndoInv
<1>6. CASE UNCHANGED <<chain, logRow, blockRow, pc, common, gone>>
  BY <1>6, SameShared DEF UndoInv, OnFile
<1> QED BY <1>1, <1>2, <1>3, <1>4, <1>5, <1>6
  DEF Next, Mine, Reorg, ChainMoves, Live, Rollback, Check, Rewind, Chunk, Scan, Fetch, Store, ReplayRow, ReplayRelated,
      ReplaySpend, ReplayConsume, Finish, Stamp, Advance, Fault, Undoing, vars, db, locals

---------------------------------------------------------------------------
(* What the handling of t0 keeps of the rows of t.                         *)

LEMMA RowKept ==
  ASSUME Types, NEW t \in Tx, OnChain(t), RowOf(t), NEW t0 \in Tx,
         t \in Submit /\ t0 \in Submit => t0 = t
  PROVE  /\ t \in Submit => OrderRowAfter(t0) # None /\ OrderRowAfter(t0).tx = t
         /\ t \in {Publish, SettleTx} => MatchRowAfter(t0) # None
         /\ t = SettleTx => MatchRowAfter(t0).status = "SETTLED"
<1>1. orderRow \in {None} \cup OrderRows /\ matchRow \in {None} \cup MatchRows
  BY DEF Types, TypeOK
<1>2. t \in Submit => OrderRowAfter(t0) # None /\ OrderRowAfter(t0).tx = t
  <2>1. ASSUME t \in Submit, NEW x \in {"MATCHED", "SETTLED"} PROVE MarkedAs(x) # None /\ MarkedAs(x).tx = t
    <3>1. orderRow \in OrderRows /\ orderRow.tx = t
      BY <1>1, <2>1 DEF RowOf
    <3>2. [orderRow EXCEPT !.status = x] \in OrderRows /\ [orderRow EXCEPT !.status = x].tx = t
      BY <3>1, <2>1 DEF OrderRows
    <3> QED BY <3>1, <3>2, Constants DEF MarkedAs
  <2>2. t0 \in Submit => [status |-> OrderStatus, tx |-> t0] \in OrderRows
    BY DEF OrderRows, OrderStatus
  <2>3. CASE t0 \in Submit
    BY <2>2, <2>3, Constants DEF OrderRowAfter
  <2>4. CASE t0 = Publish
    BY <2>1, <2>4, Constants DEF OrderRowAfter
  <2>5. CASE t0 = SettleTx
    BY <2>1, <2>5, Constants DEF OrderRowAfter
  <2> QED BY <2>3, <2>4, <2>5 DEF Tx
<1>3. ASSUME t \in {Publish, SettleTx} PROVE MatchRowAfter(t0) # None
  <2>1. matchRow # None
    BY <1>3 DEF RowOf
  <2>2. [status |-> MatchStatus, settledBy |-> None] \in MatchRows
    BY DEF MatchStatus, MatchRows
  <2>3. t0 = SettleTx => [status |-> "SETTLED", settledBy |-> t0] \in MatchRows
    BY DEF MatchRows
  <2> QED BY <2>1, <2>2, <2>3, Constants DEF MatchRowAfter
<1>4. t = SettleTx => MatchRowAfter(t0).status = "SETTLED"
  BY Constants DEF MatchRowAfter, MatchStatus, RowOf
<1> QED BY <1>2, <1>3, <1>4

LEMMA CommitmentKept ==
  ASSUME Types, NEW t \in Tx, CommitmentOf(t), NEW t0 \in Tx,
         t \in Submit /\ t0 \in Submit => t0 = t
  PROVE  t \in Submit => CommitmentAfter(t0) # None /\ CommitmentAfter(t0).tx = t
<1>1. commitment \in {None} \cup CommitmentRows
  BY DEF Types, TypeOK
<1>2. SUFFICES ASSUME t \in Submit PROVE CommitmentAfter(t0) # None /\ CommitmentAfter(t0).tx = t
  OBVIOUS
<1>3. commitment \in CommitmentRows /\ commitment.tx = t
  BY <1>1, <1>2 DEF CommitmentOf
<1>4. /\ [commitment EXCEPT !.status = "CONSUMED"] \in CommitmentRows
      /\ [commitment EXCEPT !.status = "CONSUMED"].tx = t
  BY <1>3 DEF CommitmentRows
<1>5. t0 \in Submit => [tx |-> t0, status |-> "ACTIVE"] \in CommitmentRows
  BY DEF CommitmentRows
<1> QED BY <1>2, <1>3, <1>4, <1>5, Constants DEF CommitmentAfter

LEMMA ConsumedGrows ==
  ASSUME NEW t0
  PROVE  consumed \subseteq ConsumedAfter(t0)
BY DEF ConsumedAfter

(* A settlement comes after the publication, and that after the one        *)
(* submission of the chain.                                                *)
LEMMA SettledLast ==
  ASSUME Types, ChainInv, NEW j \in DOMAIN chain, chain[j].tx = SettleTx
  PROVE  \E i \in 1 .. j - 1, l \in 1 .. j - 1 :
           /\ i \in DOMAIN chain /\ l \in DOMAIN chain
           /\ chain[i].tx = Publish /\ chain[l].tx \in Submit
           /\ \A s \in Submit : OnChain(s) => s = chain[l].tx /\ HeightOf(s) = l
<1>1. DOMAIN chain = 1 .. Len(chain) /\ Len(chain) \in Nat
  BY ChainType, Constants
<1>2. PICK i \in 1 .. j - 1 : chain[i].tx = Publish
  BY DEF ChainInv
<1>3. i \in DOMAIN chain
  BY <1>1, <1>2
<1>4. PICK l \in 1 .. i - 1 : chain[l].tx \in Submit
  BY <1>2, <1>3 DEF ChainInv
<1>5. l \in DOMAIN chain /\ l \in 1 .. j - 1
  BY <1>1, <1>3, <1>4
<1>6. ASSUME NEW s \in Submit, OnChain(s) PROVE s = chain[l].tx /\ HeightOf(s) = l
  <2>1. s \in Tx
    BY DEF Tx
  <2>2. HeightOf(s) \in DOMAIN chain /\ chain[HeightOf(s)].tx = s
    BY <1>6, <2>1, Heights
  <2> QED BY <1>4, <1>5, <2>2 DEF ChainInv
<1> QED BY <1>2, <1>3, <1>4, <1>5, <1>6

(* What the heights that are done have in common.                          *)
LEMMA DoneOnly ==
  ASSUME DOMAIN view = {}, Types, NEW h \in 0 .. MaxHeight, Done(h)
  PROVE  h \in {0} \cup Shared
<1>1. CASE cursor \in {0} \cup Shared /\ cursor <= h /\ \A i \in cursor + 1 .. h : Read(i)
  <2>1. cursor \in Nat /\ h \in Nat
    BY Constants DEF Types, TypeOK
  <2>2. cursor = h \/ h \in cursor + 1 .. h
    BY <1>1, <2>1
  <2> QED BY <1>1, <2>2 DEF Read
<1> QED BY <1>1 DEF Done

(* A log that is read but not replayed submits the order that the blocks   *)
(* already done submit, if they do.                                        *)
LEMMA OneSubmit ==
  ASSUME Types, ChunkInv, ChainInv, ViewInv, NEW h \in 0 .. MaxHeight, Done(h),
         NEW t \in Below(h), NEW i \in logs, t \in Submit, view[i].tx \in Submit
  PROVE  view[i].tx = t
<1>1. t \in Tx /\ OnChain(t) /\ HeightOf(t) <= h
  BY DEF Below
<1>2. HeightOf(t) \in DOMAIN chain /\ chain[HeightOf(t)].tx = t /\ HeightOf(t) \in Nat /\ 1 <= HeightOf(t)
  BY <1>1, Heights, ChainType, Constants
<1>3. i \in DOMAIN view
  BY DEF ChunkInv
<1>4. ASSUME NEW k \in Shared, HeightOf(t) <= k PROVE view[i].tx = t
  <2>1. HeightOf(t) \in 1 .. k
    BY <1>2, <1>4, SharedOnChain
  <2> QED BY <1>2, <1>3, <2>1 DEF ViewInv
<1>5. CASE h \in {0} \cup Shared
  BY <1>1, <1>2, <1>4, <1>5
<1>6. CASE cursor \in {0} \cup Shared /\ cursor <= h /\ \A j \in cursor + 1 .. h : Read(j)
  <2>1. cursor \in Nat /\ h \in Nat
    BY Constants DEF Types, TypeOK
  <2>2. CASE HeightOf(t) <= cursor
    BY <1>2, <1>4, <1>6, <2>2
  <2>3. CASE HeightOf(t) > cursor
    <3>1. Read(HeightOf(t))
      BY <1>1, <1>2, <1>6, <2>1, <2>3
    <3> QED BY <1>2, <1>3, <3>1 DEF Read, ViewInv
  <2> QED BY <1>2, <2>1, <2>2, <2>3
<1> QED BY <1>5, <1>6 DEF Done

LEMMA SameHeights ==
  ASSUME UNCHANGED chain, NEW t
  PROVE  HeightOf(t)' = HeightOf(t) /\ OnChain(t)' = OnChain(t)
BY DEF HeightOf, OnChain, SelectInSeq

(* A rollback spares the transactions whose logs are filed where a stamp   *)
(* that stands has them.                                                   *)
LEMMA NotGone ==
  ASSUME Types, ChunkInv, ChainInv, UndoInv, pc \in Undoing,
         NEW h \in 0 .. MaxHeight, Done(h), Filed(h), NEW t \in Below(h)
  PROVE  t \notin gone
<1>1. DOMAIN view = {}
  BY DEF ChunkInv, Undoing, Chunking, Replaying
<1>2. h <= common
  <2>1. h \in {0} \cup Shared /\ common \in Nat
    BY <1>1, DoneOnly, Constants DEF Types
  <2> QED BY <2>1 DEF UndoInv
<1>3. t \in Tx /\ OnChain(t) /\ HeightOf(t) <= h /\ ~Misfiled(t) /\ HeightOf(t) \in Nat
  BY Heights, Constants DEF Below, Filed
<1>4. ASSUME t \in gone PROVE FALSE
  <2>1. logRow[t] # None /\ logRow[t].block > common
    BY <1>4 DEF UndoInv
  <2>2. logRow[t].block = HeightOf(t)
    BY <1>3, <2>1 DEF Misfiled
  <2>3. common \in Nat /\ h \in Nat
    BY Constants DEF Types
  <2> QED BY <1>2, <1>3, <2>1, <2>2, <2>3
<1> QED BY <1>4

(* While the chain stays, a step keeps the rows of the blocks that are     *)
(* done.                                                                   *)
LEMMA RowsKept ==
  ASSUME Types, ChunkInv, ChainInv, ViewInv, UndoInv, [Next]_vars, UNCHANGED chain,
         NEW h \in 0 .. MaxHeight, Done(h), Filed(h), NEW t \in Below(h),
         \A s \in Below(h) : RowOf(s) /\ CommitmentOf(s) /\ SpentOf(s)
  PROVE  RowOf(t)' /\ CommitmentOf(t)' /\ SpentOf(t)'
<1>0. t \in Tx /\ OnChain(t) /\ HeightOf(t) <= h /\ RowOf(t) /\ CommitmentOf(t) /\ SpentOf(t)
  BY DEF Below
<1>1. SUFFICES RowOf(t)' /\ CommitmentOf(t)' /\ consumed \subseteq consumed'
  BY <1>0, SameHeights DEF SpentOf
<1>2. ASSUME NEW t0 \in Tx, Live(t0) PROVE RowOf(t)' /\ CommitmentOf(t)' /\ consumed \subseteq consumed'
  <2>1. OnChain(t0) /\ orderRow' = OrderRowAfter(t0) /\ matchRow' = MatchRowAfter(t0)
        /\ consumed' = ConsumedAfter(t0) /\ commitment' = CommitmentAfter(t0)
    BY <1>2 DEF Live
  <2>2. t \in Submit /\ t0 \in Submit => t0 = t
    BY <1>0, <2>1, Heights DEF ChainInv
  <2> QED BY <1>0, <2>1, <2>2, RowKept, CommitmentKept, ConsumedGrows DEF RowOf, CommitmentOf
<1>3. CASE ReplayRow \/ ReplayRelated \/ ReplaySpend \/ ReplayConsume
  <2>1. pc \in Replaying
    BY <1>3 DEF ReplayRow, ReplayRelated, ReplaySpend, ReplayConsume, Replaying
  <2>2. LogTx \in Tx /\ Log \in logs /\ LogTx = view[Log].tx
    BY <2>1, LogTypes
  <2>3. t \in Submit /\ LogTx \in Submit => LogTx = t
    BY <2>2, OneSubmit
  <2>4. /\ orderRow' = orderRow \/ orderRow' = OrderRowAfter(LogTx)
        /\ matchRow' = matchRow \/ matchRow' = MatchRowAfter(LogTx)
        /\ commitment' = commitment \/ commitment' = CommitmentAfter(LogTx)
        /\ consumed' = consumed \/ consumed' = ConsumedAfter(LogTx)
    BY <1>3 DEF ReplayRow, ReplayRelated, ReplaySpend, ReplayConsume
  <2>5. RowOf(t)'
    BY <1>0, <2>2, <2>3, <2>4, RowKept DEF RowOf
  <2>6. CommitmentOf(t)'
    BY <1>0, <2>2, <2>3, <2>4, CommitmentKept DEF CommitmentOf
  <2> QED BY <2>4, <2>5, <2>6, ConsumedGrows
<1>4. CASE UndoOrders \/ UndoMatches \/ UndoSettlements
  <2>1. pc \in Undoing /\ UNCHANGED <<commitment, consumed>>
    BY <1>4 DEF UndoOrders, UndoMatches, UndoSettlements, Undoing
  <2>2. t \notin gone
    BY <2>1, NotGone
  <2>3. t = SettleTx => Publish \notin gone
    <3>1. SUFFICES ASSUME t = SettleTx PROVE Publish \in Below(h)
      BY <2>1, NotGone
    <3>2. HeightOf(t) \in DOMAIN chain /\ chain[HeightOf(t)].tx = SettleTx
      BY <1>0, <3>1, Heights
    <3>3. PICK i \in 1 .. HeightOf(t) - 1 : i \in DOMAIN chain /\ chain[i].tx = Publish
      BY <3>2, SettledLast
    <3>4. HeightOf(t) \in Nat /\ i \in Nat /\ h \in Nat
      BY <3>2, <3>3, ChainType, Constants
    <3>5. i <= h
      BY <1>0, <3>3, <3>4
    <3> QED BY <3>3, <3>5, Heights DEF Below, Tx
  <2>4. CommitmentOf(t)' /\ consumed \subseteq consumed'
    BY <1>0, <2>1 DEF CommitmentOf
  <2>5. CASE UndoOrders
    BY <1>0, <2>2, <2>4, <2>5 DEF UndoOrders, RowOf
  <2>6. CASE UndoMatches
    BY <1>0, <2>2, <2>3, <2>4, <2>6, Constants DEF UndoMatches, RowOf
  <2>7. CASE UndoSettlements
    <3>1. matchRow # None => matchRow.settledBy \in {None, SettleTx}
      BY DEF Types, TypeOK, MatchRows
    <3>2. gone \subseteq Tx
      BY DEF Types, TypeOK
    <3>3. [status |-> "PENDING", settledBy |-> None] \in MatchRows
      BY DEF MatchRows
    <3>4. matchRow # None => Unsettled # None
      BY <3>3, Constants DEF Unsettled
    <3>5. t = SettleTx => Unsettled = matchRow
      BY <2>2, <3>1, <3>2, Constants DEF Unsettled
    <3> QED BY <1>0, <2>4, <2>7, <3>4, <3>5 DEF UndoSettlements, RowOf
  <2> QED BY <1>4, <2>5, <2>6, <2>7, <2>4
<1>5. CASE UNCHANGED <<orderRow, matchRow, commitment, consumed>>
  BY <1>0, <1>5 DEF RowOf, CommitmentOf
<1> QED BY <1>2, <1>3, <1>4, <1>5
  DEF Next, Mine, Reorg, Rollback, Check, Select, MarkReorged, DropBlocks, Rewind, Chunk, Scan, Fetch,
      Store, Stamp, Advance, Fault, vars, db

(* Logs are not refiled by a step that leaves the chain.                   *)
LEMMA FiledBefore ==
  ASSUME Types, ChunkInv, ChainInv, [Next]_vars, UNCHANGED chain, NEW h
  PROVE  Below(h)' = Below(h) /\ (Filed(h)' => Filed(h))
<1>1. \A t : HeightOf(t)' = HeightOf(t) /\ OnChain(t)' = OnChain(t)
  BY SameHeights
<1>2. Below(h)' = Below(h)
  BY <1>1 DEF Below
<1>3. \A t \in Tx : logRow[t] # None => logRow'[t] # None /\ logRow'[t].block = logRow[t].block
  <2>1. CASE Store
    <3>1. LogTx \in Tx
      BY <2>1, LogTypes DEF Store, Replaying
    <3> QED BY <2>1, <3>1 DEF Store, Types, TypeOK
  <2>2. CASE MarkReorged
    <3>1. \A t \in Tx : logRow[t] # None =>
             /\ [logRow[t] EXCEPT !.status = "REORGED"] \in LogRows
             /\ [logRow[t] EXCEPT !.status = "REORGED"].block = logRow[t].block
      BY DEF Types, TypeOK, LogRows
    <3> QED BY <2>2, <3>1, Constants DEF MarkReorged
  <2>3. CASE UNCHANGED logRow
    BY <2>3
  <2> QED BY <2>1, <2>2, <2>3 DEF Next, Mine, Reorg, Live, Rollback, Check, Select, UndoOrders, UndoMatches,
       UndoSettlements, DropBlocks, Rewind, Chunk, Scan, Fetch, ReplayRow, ReplayRelated, ReplaySpend,
       ReplayConsume, Stamp, Advance, Fault, vars, db
<1>4. \A t \in Tx : Misfiled(t) => Misfiled(t)'
  BY <1>1, <1>3 DEF Misfiled
<1> QED BY <1>2, <1>4 DEF Filed, Below

(* A stamp that buries nothing is put on blocks that were all read.        *)
LEMMA StampDone ==
  ASSUME Types, ChunkInv, ForkInv, CursorInv, Stamp, ~buried', ~torn
  PROVE  /\ ~buried /\ ~Buries
         /\ Done(upto) /\ cursor \in {0} \cup Shared /\ upto \in Height /\ cursor < upto
         /\ \A h \in Shared' : h \in Shared \/ h = upto
<1>1. /\ HashAt(upto) # None /\ blockRow' = [blockRow EXCEPT ![upto] = HashAt(upto)] /\ ~buried /\ ~Buries
      /\ chain' = chain /\ pc = "stamp"
  BY DEF Stamp
<1>2. upto \in Height /\ cursor < upto /\ cursor \in Nat /\ upto \in Nat /\ logs = {}
  BY <1>1, Constants DEF ChunkInv, Chunking, Replaying, Types, TypeOK, Height
<1>3. \A h \in Shared' : h \in Shared \/ h = upto
  BY <1>1, <1>2 DEF Shared, Stamped, HashAt, Types, TypeOK
<1>4. cursor \in {0} \cup Shared
  <2>1. cursor = 0 \/ cursor \in Stamped
    BY <1>1 DEF CursorInv
  <2>2. cursor <= cursor
    BY <1>2
  <2> QED BY <1>1, <2>1, <2>2 DEF Buries, Shared
<1>5. \A i \in cursor + 1 .. upto : Read(i)
  <2>1. upto \in DOMAIN chain
    BY <1>1 DEF HashAt
  <2>2. \A i \in cursor + 1 .. upto : i \in DOMAIN chain
    BY <1>2, <2>1, ChainType, Constants
  <2>3. view = [h \in cursor + 1 .. upto |-> chain[h]]
    BY <1>1 DEF Buries
  <2> QED BY <2>2, <2>3 DEF Read
<1>6. cursor <= upto
  BY <1>2
<1> QED BY <1>1, <1>2, <1>3, <1>4, <1>5, <1>6 DEF Done

LEMMA DoneBefore ==
  ASSUME Types, ChunkInv, ForkInv, CursorInv, UndoInv, Types', ChunkInv', [Next]_vars, UNCHANGED chain, ~Fetch,
         UNCHANGED logs \/ Fault, ~buried', ~torn', NEW h \in 0 .. MaxHeight, Done(h)'
  PROVE  Done(h)
<1>1. CASE Stamp
  <2>1. /\ Done(upto) /\ cursor \in {0} \cup Shared
        /\ \A k \in Shared' : k \in Shared \/ k = upto
    BY <1>1, StampDone DEF Stamp
  <2>2. cursor' = cursor /\ DOMAIN view' = {}
    BY <1>1 DEF Stamp, Unread
  <2>3. h \in {0} \cup Shared' \/ h = cursor
    <3>1. CASE cursor' <= h /\ \A i \in cursor' + 1 .. h : Read(i)'
      <4>1. cursor \in Nat /\ h \in Nat
        BY Constants DEF Types, TypeOK
      <4>2. cursor = h \/ h \in cursor + 1 .. h
        BY <2>2, <3>1, <4>1
      <4> QED BY <2>2, <3>1, <4>2 DEF Read
    <3> QED BY <3>1 DEF Done
  <2> QED BY <2>1, <2>3 DEF Done
<1>2. CASE Advance \/ Rewind \/ Fault
  <2>1. DOMAIN view' = {} /\ Shared' = Shared
    BY <1>2, SameShared DEF Advance, Rewind, Fault, db, ChunkInv, Chunking, Replaying, Unread
  <2>2. h \in {0} \cup Shared' \/ (cursor' \in {0} \cup Shared' /\ h = cursor')
    <3>1. CASE cursor' \in {0} \cup Shared' /\ cursor' <= h /\ \A i \in cursor' + 1 .. h : Read(i)'
      <4>1. cursor' \in Nat /\ h \in Nat
        BY Constants DEF Types, TypeOK
      <4>2. cursor' = h \/ h \in cursor' + 1 .. h
        <5>1. \A c, d \in Nat : c <= d => c = d \/ d \in c + 1 .. d
          OBVIOUS
        <5> QED BY <3>1, <4>1, <5>1
      <4> QED BY <2>1, <3>1, <4>2 DEF Read
    <3> QED BY <3>1 DEF Done
  <2> QED BY <2>1, <2>2 DEF Done
<1>3. CASE DropBlocks
  <2>1. Shared' = Shared /\ UNCHANGED <<cursor, view, logs, chain>>
    BY <1>3, DropKeeps DEF DropBlocks, locals
  <2> QED BY <2>1 DEF Done, Read
<1>4. CASE UNCHANGED <<cursor, view, blockRow, logs>>
  <2>1. Shared' = Shared
    BY <1>4, SameShared
  <2> QED BY <1>4, <2>1 DEF Done, Read
<1> QED BY <1>1, <1>2, <1>3, <1>4
  DEF Next, Mine, Reorg, Live, Rollback, Check, Select, UndoOrders, UndoMatches, UndoSettlements, MarkReorged,
      Chunk, Scan, Store, ReplayRow, ReplayRelated, ReplaySpend, ReplayConsume, Finish, vars, db, locals

(* A chunk that is read anew adds blocks without logs at most ...          *)
LEMMA FetchDone ==
  ASSUME Types, ChunkInv, ChainInv, Fetch, NEW h \in 0 .. MaxHeight, Done(h)'
  PROVE  Done(h) \/ (cursor <= h /\ Done(cursor) /\ Below(h) = Below(cursor))
<1>1. UNCHANGED <<chain, cursor>> /\ Shared' = Shared
  BY SameShared DEF Fetch, db
<1>2. logs' = LogsOf(view')
  BY DEF Fetch
<1>3. CASE cursor \in {0} \cup Shared /\ cursor <= h /\ \A i \in cursor + 1 .. h : Read(i)' /\ i \notin logs'
  <2>1. \A i \in cursor + 1 .. h : i \in DOMAIN chain /\ chain[i].tx = None
    BY <1>1, <1>2, <1>3 DEF Read, LogsOf
  <2>2. cursor \in Nat /\ h \in Nat
    BY Constants DEF Types, TypeOK
  <2>3. \A t \in Below(h) : HeightOf(t) <= cursor
    <3>1. SUFFICES ASSUME NEW t \in Below(h), ~(HeightOf(t) <= cursor) PROVE FALSE
      OBVIOUS
    <3>2. t \in Tx /\ HeightOf(t) \in Nat /\ chain[HeightOf(t)].tx = t /\ HeightOf(t) <= h
      BY Heights, Constants DEF Below
    <3>3. HeightOf(t) \in cursor + 1 .. h
      BY <2>2, <3>1, <3>2
    <3> QED BY <2>1, <3>2, <3>3, Constants
  <2>4. Below(h) = Below(cursor)
    <3>1. \A t \in Tx : HeightOf(t) \in Nat
      BY Heights, Constants
    <3>2. \A t \in Tx : HeightOf(t) <= cursor => HeightOf(t) <= h
      BY <1>3, <2>2, <3>1
    <3> QED BY <2>3, <3>2 DEF Below
  <2> QED BY <1>3, <2>2, <2>4 DEF Done
<1> QED BY <1>1, <1>3 DEF Done

(* ... and a log that has been replayed adds its block, if those below it  *)
(* were done.                                                              *)
LEMMA FinishDone ==
  ASSUME Types, ChunkInv, ChainInv, pc \in Replaying, logs' = logs \ {Log},
         UNCHANGED <<chain, blockRow, cursor, view>>, NEW h \in 0 .. MaxHeight, Done(h)'
  PROVE  \/ Done(h)
         \/ /\ Done(Log - 1) /\ Read(Log) /\ Log <= h /\ Log - 1 \in 0 .. MaxHeight
            /\ \A t \in Below(h) : t \in Below(Log - 1) \/ t = LogTx
<1>1. Shared' = Shared /\ \A i : Read(i)' <=> Read(i)
  BY SameShared DEF Read
<1>2. /\ Log \in logs /\ Log \in Height /\ cursor < Log /\ LogTx = view[Log].tx
      /\ \A l \in logs : Log <= l
  BY LogTypes
<1>3. cursor \in Nat /\ h \in Nat /\ Log \in Nat /\ Log - 1 \in 0 .. MaxHeight /\ logs \subseteq Nat
  BY <1>2, Constants, SMTT(30) DEF Types, TypeOK, Height, ChunkInv
<1>4. CASE cursor \in {0} \cup Shared /\ cursor <= h /\ \A i \in cursor + 1 .. h : Read(i) /\ i \notin logs'
  <2>1. CASE h < Log
    <3>1. \A i \in cursor + 1 .. h : i # Log
      BY <1>3, <2>1
    <3> QED BY <1>4, <3>1 DEF Done
  <2>2. CASE Log <= h
    <3>1. Log \in cursor + 1 .. h /\ cursor <= Log - 1
      BY <1>2, <1>3, <2>2
    <3>2. \A i \in cursor + 1 .. Log - 1 : i \in cursor + 1 .. h /\ i \notin logs
      BY <1>2, <1>3, <2>2
    <3>3. Done(Log - 1)
      BY <1>4, <3>1, <3>2 DEF Done
    <3>4. ASSUME NEW t \in Below(h), t \notin Below(Log - 1) PROVE t = LogTx
      <4>1. t \in Tx /\ OnChain(t) /\ HeightOf(t) <= h /\ HeightOf(t) \in Nat /\ chain[HeightOf(t)].tx = t
        BY Heights, Constants DEF Below
      <4>2. ~(HeightOf(t) <= Log - 1)
        BY <3>4, <4>1 DEF Below
      <4>3. HeightOf(t) \in cursor + 1 .. h /\ Log <= HeightOf(t)
        BY <1>2, <1>3, <4>1, <4>2
      <4>4. Read(HeightOf(t)) /\ HeightOf(t) \notin logs'
        BY <1>4, <4>3
      <4>5. view[HeightOf(t)].tx = t /\ HeightOf(t) \in DOMAIN view /\ t # None
        BY <4>1, <4>4, Constants DEF Read
      <4>6. HeightOf(t) \in logs
        <5>1. ~(HeightOf(t) < Log)
          BY <1>3, <4>1, <4>3
        <5> QED BY <1>2, <4>5, <5>1 DEF ChunkInv
      <4>7. HeightOf(t) = Log
        BY <4>4, <4>6
      <4> QED BY <1>2, <4>5, <4>7
    <3> QED BY <1>3, <1>4, <2>2, <3>1, <3>3, <3>4
  <2> QED BY <1>3, <2>1, <2>2
<1> QED BY <1>1, <1>4 DEF Done

LEMMA BelowGrows ==
  ASSUME Types, ChainInv, NEW g \in 0 .. MaxHeight, NEW h \in 0 .. MaxHeight, g <= h, Filed(h)
  PROVE  Below(g) \subseteq Below(h) /\ Filed(g)
<1>1. \A t \in Tx : HeightOf(t) \in Nat
  BY Heights, Constants
<1>2. \A t \in Tx : HeightOf(t) <= g => HeightOf(t) <= h
  <2>1. g \in Nat /\ h \in Nat
    BY Constants
  <2> QED BY <1>1, <2>1
<1> QED BY <1>2 DEF Below, Filed

(* What was buried stays buried, and a torn rollback torn.                 *)
LEMMA NeverMended ==
  ASSUME [Next]_vars
  PROVE  (buried => buried') /\ (torn => torn')
<1>1. CASE Stamp
  <2>1. torn' = torn
    BY <1>1 DEF Stamp
  <2>2. buried => buried'
    BY <1>1 DEF Stamp
  <2> QED BY <2>1, <2>2
<1>2. CASE Fault
  <2>1. buried' = buried
    BY <1>2 DEF Fault
  <2>2. torn => torn'
    BY <1>2 DEF Fault
  <2> QED BY <2>1, <2>2
<1>3. CASE UNCHANGED <<buried, torn>>
  BY <1>3
<1> QED BY <1>1, <1>2, <1>3 DEF Next, Mine, Reorg, Live, Rollback, Check, Select, UndoOrders, UndoMatches,
      UndoSettlements, MarkReorged, DropBlocks, Rewind, Chunk, Scan, Fetch, Store, ReplayRow, ReplayRelated,
      ReplaySpend, ReplayConsume, Advance, vars, history

LEMMA IndexStep ==
  ASSUME IInv, Types', ChunkInv', ChainInv', [Next]_vars
  PROVE  IndexInv'
<1>0. /\ Types /\ ChunkInv /\ ChainInv /\ ForkInv /\ ViewInv /\ CursorInv /\ UndoInv
      /\ IndexInv /\ HeadInv
  BY DEF IInv
<1>1. SUFFICES ASSUME ~buried', ~torn', NEW h \in 0 .. MaxHeight, Done(h)', Filed(h)', NEW t \in Below(h)'
               PROVE  RowOf(t)' /\ CommitmentOf(t)' /\ SpentOf(t)'
  BY DEF IndexInv
<1>2. ~buried /\ ~torn
  BY <1>1, NeverMended
<1>3. \A g \in 0 .. MaxHeight : Done(g) /\ Filed(g) => \A s \in Below(g) : RowOf(s) /\ CommitmentOf(s) /\ SpentOf(s)
  BY <1>0, <1>2 DEF IndexInv
<1>4. CASE Mine \/ \E k \in 0 .. MaxHeight : Reorg(k)
  <2>1. PICK k \in 0 .. MaxHeight : Kept(k)
    BY <1>0, <1>4, ChainMove
  <2>2. UNCHANGED <<orderRow, matchRow, commitment, consumed, logRow, cursor, view, logs>>
    BY <1>0, <1>4, ChainMove DEF db, locals
  <2>3. k \in Nat /\ h \in Nat /\ cursor \in Nat
    BY <1>0, Constants DEF Types, TypeOK
  <2>4. h <= k /\ Done(h)
    <3>1. CASE h \in {0} \cup Shared'
      BY <2>1, <2>3, <3>1 DEF Kept, Done
    <3>2. CASE cursor \in {0} \cup Shared' /\ cursor <= h /\ \A i \in cursor + 1 .. h : Read(i)' /\ i \notin logs
      <4>1. cursor = h \/ h \in cursor + 1 .. h
        BY <2>3, <3>2
      <4>2. \A i \in cursor + 1 .. h : i \in 1 .. k /\ Read(i) /\ i \notin logs
        BY <2>1, <3>2 DEF Kept
      <4>3. cursor \in {0} \cup Shared /\ cursor <= k
        BY <2>1, <2>3, <3>2 DEF Kept
      <4> QED BY <2>3, <3>2, <4>1, <4>2, <4>3 DEF Done
    <3> QED BY <1>1, <2>2, <3>1, <3>2 DEF Done
  <2>5. \A s \in Tx : (s \in Below(h)' => s \in Below(h)) /\ (s \in Below(h) => HeightOf(s)' = HeightOf(s) /\ s \in Below(h)')
    <3>1. SUFFICES ASSUME NEW s \in Tx
                   PROVE  /\ s \in Below(h)' => s \in Below(h)
                          /\ s \in Below(h) => HeightOf(s)' = HeightOf(s) /\ s \in Below(h)'
      OBVIOUS
    <3>2. /\ HeightOf(s) \in 1 .. k => HeightOf(s)' = HeightOf(s)
          /\ HeightOf(s)' \in 1 .. k => HeightOf(s) = HeightOf(s)'
      BY <1>0, <2>1, KeptHeights
    <3>3. HeightOf(s) \in Nat
      BY <1>0, Heights, Constants
    <3>4. HeightOf(s)' \in Nat
      BY <2>1, HeightsAfter DEF Kept
    <3> QED BY <2>3, <2>4, <3>2, <3>3, <3>4 DEF Below, OnChain
  <2>6. Filed(h)
    <3>1. \A s \in Below(h) : s \in Tx
      BY DEF Below
    <3>2. \A s \in Below(h) : OnChain(s) /\ OnChain(s)'
      BY <2>5, <3>1 DEF Below
    <3> QED BY <1>1, <2>2, <2>5, <3>1, <3>2 DEF Filed, Misfiled
  <2>7. t \in Tx /\ t \in Below(h)
    BY <1>1, <2>5 DEF Below
  <2>8. RowOf(t) /\ CommitmentOf(t) /\ SpentOf(t)
    BY <1>3, <2>4, <2>6, <2>7
  <2>9. RowOf(t)' /\ CommitmentOf(t)'
    BY <2>2, <2>8 DEF RowOf, CommitmentOf
  <2>10. SpentOf(t)'
    <3>1. SUFFICES ASSUME t = SettleTx, NEW s \in Submit, OnChain(s)' PROVE s \in consumed
      BY <2>2 DEF SpentOf
    <3>2. HeightOf(t) \in DOMAIN chain /\ chain[HeightOf(t)].tx = SettleTx /\ HeightOf(t) <= h
      BY <1>0, <2>7, <3>1, Heights DEF Below
    <3>3. PICK l \in 1 .. HeightOf(t) - 1 : l \in DOMAIN chain /\ chain[l].tx \in Submit
      BY <1>0, <3>2, SettledLast
    <3>4. l \in 1 .. k
      <4>1. HeightOf(t) \in Nat /\ l \in Nat
        BY <1>0, <2>7, <3>3, Heights, Constants
      <4> QED BY <2>3, <2>4, <3>2, <3>3, <4>1
    <3>5. l \in DOMAIN chain' /\ chain'[l] = chain[l]
      BY <2>1, <2>3, <3>4 DEF Kept
    <3>6. HeightOf(s)' \in DOMAIN chain' /\ chain'[HeightOf(s)'].tx = s
      BY <2>1, <1>0, <3>1, HeightsAfter DEF Tx
    <3>7. HeightOf(s)' = l
      BY <3>3, <3>5, <3>6 DEF ChainInv
    <3>8. OnChain(s)
      BY <1>0, <3>3, <3>5, <3>6, <3>7, Heights DEF Tx
    <3> QED BY <2>8, <3>1, <3>8 DEF SpentOf
  <2> QED BY <2>9, <2>10
<1>5. CASE UNCHANGED chain
  <2>1. t \in Below(h) /\ Filed(h)
    BY <1>0, <1>1, <1>5, FiledBefore
  <2>2. ASSUME NEW g \in 0 .. MaxHeight, Done(g), g <= h, t \in Below(g)
        PROVE  RowOf(t)' /\ CommitmentOf(t)' /\ SpentOf(t)'
    <3>1. Filed(g)
      BY <1>0, <2>1, <2>2, BelowGrows
    <3> QED BY <1>0, <1>3, <1>5, <2>2, <3>1, RowsKept
  <2>3. h <= h
    BY Constants
  <2>4. CASE Fetch
    <3>1. cursor \in 0 .. MaxHeight
      BY <1>0 DEF Types, TypeOK
    <3> QED BY <1>0, <1>1, <2>1, <2>2, <2>3, <2>4, <3>1, FetchDone
  <2>5. CASE (ReplayRelated \/ ReplayConsume) /\ ~UNCHANGED logs
    <3>1. /\ logs' = logs \ {Log} /\ UNCHANGED <<blockRow, cursor, view, matchRow>> /\ pc \in Replaying
          /\ LogTx # SettleTx \/ pc = "consume"
      BY <2>5 DEF ReplayRelated, ReplayConsume, Finish, Replaying
    <3>2. CASE Done(h)
      BY <2>1, <2>2, <2>3, <3>2
    <3>3. CASE /\ Done(Log - 1) /\ Read(Log) /\ Log <= h /\ Log - 1 \in 0 .. MaxHeight
               /\ \A s \in Below(h) : s \in Below(Log - 1) \/ s = LogTx
      <4>1. Log - 1 <= h /\ Log \in Height
        BY <1>0, <3>1, <3>3, LogTypes, Constants DEF Height
      <4>2. Filed(Log - 1)
        BY <1>0, <2>1, <3>3, <4>1, BelowGrows
      <4>3. CASE t = LogTx
        <5>1. RowOf(t) /\ (pc = "consume" => SpentOf(t))
          BY <1>0, <1>2, <2>5, <3>3, <4>2, <4>3 DEF HeadInv, ReplayRelated, ReplayConsume
        <5>2. t \in Tx /\ OnChain(t)
          BY <2>1 DEF Below
        <5>3. RowOf(t)'
          <6>1. orderRow' = orderRow \/ orderRow' = OrderRowAfter(t)
            BY <2>5, <4>3 DEF ReplayRelated, ReplayConsume
          <6> QED BY <1>0, <3>1, <5>1, <5>2, <6>1, RowKept DEF RowOf
        <5>4. CommitmentOf(t)'
          <6>1. SUFFICES ASSUME t \in Submit PROVE commitment' # None /\ commitment'.tx = t
            BY DEF CommitmentOf
          <6>2. commitment' = [tx |-> t, status |-> "ACTIVE"]
            BY <1>0, <2>5, <4>3, <6>1, Constants DEF ReplayRelated, ReplayConsume, CommitmentAfter, ChunkInv
          <6>3. commitment' \in CommitmentRows
            BY <6>1, <6>2 DEF CommitmentRows
          <6> QED BY <6>2, <6>3, Constants
        <5>5. SpentOf(t)'
          <6>1. consumed' = consumed /\ \A s : OnChain(s)' = OnChain(s)
            BY <1>5, <2>5, SameHeights DEF ReplayRelated, ReplayConsume
          <6> QED BY <3>1, <4>3, <5>1, <6>1 DEF SpentOf
        <5> QED BY <5>3, <5>4, <5>5
      <4>4. CASE t \in Below(Log - 1)
        BY <2>2, <3>3, <4>1, <4>4
      <4> QED BY <2>1, <3>3, <4>3, <4>4
    <3> QED BY <1>0, <1>1, <1>5, <3>1, <3>2, <3>3, FinishDone
  <2>6. CASE ~Fetch /\ (UNCHANGED logs \/ Fault)
    BY <1>0, <1>1, <1>5, <2>1, <2>2, <2>3, <2>6, DoneBefore
  <2>7. Fetch \/ (ReplayRelated \/ ReplayConsume) \/ UNCHANGED logs \/ Fault
    BY DEF Next, Mine, Reorg, Live, Rollback, Check, Select, UndoOrders, UndoMatches, UndoSettlements, MarkReorged,
        DropBlocks, Rewind, Chunk, Scan, Store, ReplayRow, ReplaySpend, Stamp, Advance, vars, locals
  <2> QED BY <2>4, <2>5, <2>6, <2>7
<1> QED BY <1>4, <1>5, OtherwiseSameChain

(* The log under way has its row from its first statement on, and a        *)
(* settlement its nullifier before the last one.                           *)
LEMMA HeadStep ==
  ASSUME IInv, Types', ChunkInv', [Next]_vars
  PROVE  HeadInv'
<1>0. /\ Types /\ ChunkInv /\ ChainInv /\ ForkInv /\ ViewInv /\ CursorInv /\ UndoInv
      /\ IndexInv /\ HeadInv
  BY DEF IInv
<1>1. SUFFICES ASSUME ~buried', ~torn', pc' \in {"related", "spend", "consume"},
                      Done(Log - 1)', Filed(Log - 1)', Read(Log)'
               PROVE  RowOf(LogTx)' /\ (pc' = "consume" => SpentOf(LogTx)')
  BY DEF HeadInv
<1>2. ~buried /\ ~torn
  BY <1>1, NeverMended
<1>3. /\ pc \in {"row", "related", "spend", "consume"} /\ pc \in Replaying
      /\ UNCHANGED <<chain, logRow, blockRow, cursor, view, logs>>
  BY <1>1 DEF Next, Mine, Reorg, ChainMoves, Live, Rollback, Check, Select, UndoOrders, UndoMatches, UndoSettlements,
      MarkReorged, DropBlocks, Rewind, Chunk, Scan, Fetch, Store, ReplayRow, ReplayRelated, ReplaySpend,
      ReplayConsume, Finish, Stamp, Advance, Fault, vars, db, locals, Replaying
<1>4. Log' = Log /\ LogTx' = LogTx /\ \A t : HeightOf(t)' = HeightOf(t) /\ OnChain(t)' = OnChain(t)
  BY <1>3, SameLog, SameHeights
<1>5. Done(Log - 1) /\ Filed(Log - 1) /\ Read(Log)
  <2>1. Shared' = Shared
    BY <1>3, SameShared
  <2> QED BY <1>1, <1>3, <1>4, <2>1 DEF Done, Filed, Below, Misfiled, Read
<1>6. /\ LogTx \in Tx /\ LogTx = view[Log].tx /\ Log \in Height /\ Log \in DOMAIN chain /\ chain[Log].tx = LogTx
      /\ OnChain(LogTx) /\ HeightOf(LogTx) = Log /\ Log - 1 \in 0 .. MaxHeight
  <2>1. LogTx \in Tx /\ LogTx = view[Log].tx /\ Log \in Height
    BY <1>0, <1>3, LogTypes
  <2>2. Log \in DOMAIN chain /\ chain[Log].tx = LogTx
    BY <1>5, <2>1 DEF Read
  <2> QED BY <1>0, <2>1, <2>2, Heights, Constants DEF Height
<1>7. \A t \in Below(Log - 1) : RowOf(t) /\ CommitmentOf(t)
  BY <1>0, <1>2, <1>5, <1>6 DEF IndexInv
<1>9. ASSUME NEW t0 \in Tx, Live(t0) PROVE RowOf(LogTx)' /\ (pc' = "consume" => SpentOf(LogTx)')
  <2>1. /\ OnChain(t0) /\ orderRow' = OrderRowAfter(t0) /\ matchRow' = MatchRowAfter(t0)
        /\ consumed \subseteq consumed' /\ pc' = pc
    BY <1>9, ConsumedGrows DEF Live
  <2>2. RowOf(LogTx) /\ (pc = "consume" => SpentOf(LogTx))
    BY <1>0, <1>1, <1>2, <1>5, <2>1 DEF HeadInv
  <2>3. LogTx \in Submit /\ t0 \in Submit => t0 = LogTx
    BY <1>0, <1>6, <2>1, Heights DEF ChainInv
  <2>4. RowOf(LogTx)'
    <3>1. /\ LogTx \in Submit => orderRow' # None /\ orderRow'.tx = LogTx
          /\ LogTx \in {Publish, SettleTx} => matchRow' # None
          /\ LogTx = SettleTx => matchRow'.status = "SETTLED"
      BY <1>0, <1>6, <2>1, <2>2, <2>3, RowKept
    <3> QED BY <1>4, <3>1 DEF RowOf
  <2>5. pc' = "consume" => SpentOf(LogTx)'
    BY <1>4, <2>1, <2>2 DEF SpentOf
  <2> QED BY <2>4, <2>5
<1>10. CASE ReplayRow
  <2>1. /\ orderRow' = IF LogTx \in Submit THEN OrderRowAfter(LogTx) ELSE orderRow
        /\ matchRow' = MatchRowAfter(LogTx) /\ pc' = "related"
    BY <1>10 DEF ReplayRow
  <2>2. LogTx \in Submit => orderRow' # None /\ orderRow'.tx = LogTx
    <3>1. LogTx \in Submit => [status |-> OrderStatus, tx |-> LogTx] \in OrderRows
      BY DEF OrderRows, OrderStatus
    <3> QED BY <2>1, <3>1, Constants DEF OrderRowAfter
  <2>3. LogTx = Publish => matchRow' # None
    <3>1. [status |-> MatchStatus, settledBy |-> None] \in MatchRows
      BY DEF MatchRows, MatchStatus
    <3> QED BY <2>1, <3>1, Constants DEF MatchRowAfter
  <2>4. LogTx = SettleTx => matchRow' # None /\ matchRow'.status = "SETTLED"
    <3>1. SUFFICES ASSUME LogTx = SettleTx PROVE matchRow' # None /\ matchRow'.status = "SETTLED"
      OBVIOUS
    <3>2. PICK i \in 1 .. Log - 1 : i \in DOMAIN chain /\ chain[i].tx = Publish
      BY <1>0, <1>6, <3>1, SettledLast
    <3>3. Publish \in Below(Log - 1)
      <4>1. HeightOf(Publish) = i /\ OnChain(Publish)
        BY <1>0, <3>2, Heights DEF Tx
      <4> QED BY <1>6, <3>2, <4>1 DEF Below, Tx
    <3>4. matchRow # None
      BY <1>7, <3>3 DEF RowOf
    <3>5. [status |-> "SETTLED", settledBy |-> SettleTx] \in MatchRows
      BY DEF MatchRows
    <3> QED BY <2>1, <3>1, <3>4, <3>5, Constants DEF MatchRowAfter
  <2> QED BY <1>4, <2>1, <2>2, <2>3, <2>4 DEF RowOf
<1>11. CASE ReplayRelated \/ ReplaySpend
  <2>1. pc \in {"related", "spend"} /\ matchRow' = matchRow /\ LogTx = SettleTx
    BY <1>0, <1>1, <1>11 DEF ReplayRelated, ReplaySpend, Finish, ChunkInv
  <2>2. RowOf(LogTx)
    BY <1>0, <1>2, <1>5, <2>1 DEF HeadInv
  <2>3. RowOf(LogTx)'
    BY <1>4, <2>1, <2>2, Constants DEF RowOf
  <2>4. ASSUME pc' = "consume", NEW s \in Submit, OnChain(s) PROVE s \in consumed'
    <3>1. ReplaySpend
      BY <1>11, <2>1, <2>4 DEF ReplayRelated, Finish
    <3>2. PICK l \in 1 .. Log - 1 : l \in DOMAIN chain /\ s = chain[l].tx /\ HeightOf(s) = l
      BY <1>0, <1>6, <2>1, <2>4, SettledLast
    <3>3. s \in Below(Log - 1)
      BY <1>6, <2>4, <3>2 DEF Below, Tx
    <3>4. commitment # None /\ commitment.tx = s
      BY <1>7, <3>3 DEF CommitmentOf
    <3> QED BY <2>1, <3>1, <3>4 DEF ReplaySpend, ConsumedAfter
  <2>5. pc' = "consume" => SpentOf(LogTx)'
    BY <1>4, <2>4 DEF SpentOf
  <2> QED BY <2>3, <2>5
<1>12. CASE UNCHANGED vars
  <2>1. RowOf(LogTx) /\ (pc = "consume" => SpentOf(LogTx)) /\ pc' = pc
    BY <1>0, <1>1, <1>2, <1>5, <1>12 DEF HeadInv, vars
  <2> QED BY <1>4, <1>12, <2>1 DEF RowOf, SpentOf, vars, db
<1> QED BY <1>1, <1>3, <1>9, <1>10, <1>11, <1>12
  DEF Next, Mine, Reorg, ChainMoves, Rollback, Check, Select, UndoOrders, UndoMatches, UndoSettlements, MarkReorged, DropBlocks,
      Rewind, Chunk, Scan, Fetch, Store, ReplayConsume, Finish, Stamp, Advance, Fault

---------------------------------------------------------------------------
(* Nothing is left behind.                                                 *)

(* Handling t0 names t0 at most: whatever else the rows name they named.   *)
LEMMA NamedAfter ==
  ASSUME Types, NEW t \in Tx, NEW t0 \in Tx, t # t0,
         orderRow' = orderRow \/ orderRow' = OrderRowAfter(t0),
         matchRow' = matchRow \/ matchRow' = MatchRowAfter(t0), Named(t)'
  PROVE  Named(t)
<1>1. orderRow \in {None} \cup OrderRows /\ matchRow \in {None} \cup MatchRows
  BY DEF Types, TypeOK
<1>2. CASE t \in Submit
  <2>1. orderRow' # None /\ orderRow'.tx = t
    BY <1>2, Constants DEF Named
  <2>2. CASE orderRow' = OrderRowAfter(t0) /\ t0 \in Submit
    BY <2>1, <2>2, Constants DEF OrderRowAfter
  <2>3. CASE orderRow' = OrderRowAfter(t0) /\ t0 \notin Submit
    <3>1. \A x \in {"MATCHED", "SETTLED"} : MarkedAs(x) # None => orderRow # None /\ MarkedAs(x).tx = orderRow.tx
      <4>1. \A x : orderRow # None => [orderRow EXCEPT !.status = x].tx = orderRow.tx
        BY <1>1 DEF OrderRows
      <4> QED BY <4>1 DEF MarkedAs
    <3>2. orderRow' = MarkedAs("MATCHED") \/ orderRow' = MarkedAs("SETTLED")
      BY <2>3, Constants DEF OrderRowAfter, Tx
    <3> QED BY <1>2, <2>1, <3>1, <3>2 DEF Named
  <2> QED BY <1>2, <2>1, <2>2, <2>3 DEF Named
<1>3. CASE t = Publish
  BY <1>3, Constants DEF Named, MatchRowAfter
<1>4. CASE t = SettleTx
  <2>1. matchRow' # None /\ matchRow'.settledBy = SettleTx
    BY <1>4, Constants DEF Named
  <2>2. MatchRowAfter(t0) # matchRow => MatchRowAfter(t0).settledBy = None
    BY <1>4, Constants DEF MatchRowAfter
  <2>3. matchRow' = matchRow
    BY <2>1, <2>2, Constants DEF Tx
  <2> QED BY <1>4, <2>1, <2>3 DEF Named
<1> QED BY <1>2, <1>3, <1>4 DEF Tx

(* A statement that undoes rows names nothing new.                         *)
LEMMA UndoNames ==
  ASSUME Types, UndoOrders \/ UndoMatches \/ UndoSettlements, NEW t \in Tx, Replayed(t)'
  PROVE  Replayed(t)
<1>1. t \notin refiled /\ Named(t)' /\ t \notin heard'
  BY DEF UndoOrders, UndoMatches, UndoSettlements, Replayed
<1>2. CASE UndoOrders
  <2>1. orderRow' = (IF orderRow # None /\ orderRow.tx \in gone THEN None ELSE orderRow) /\ matchRow' = matchRow
        /\ heard' = heard \ (gone \cap Submit)
    BY <1>2 DEF UndoOrders
  <2>2. Named(t) /\ (t \in Submit => t \notin gone)
    BY <1>1, <2>1, Constants DEF Named, Tx
  <2> QED BY <1>1, <2>1, <2>2 DEF Replayed
<1>3. CASE UndoMatches
  <2>1. matchRow' = (IF Publish \in gone THEN None ELSE matchRow) /\ orderRow' = orderRow
        /\ heard' = heard \ (gone \cap {Publish})
    BY <1>3 DEF UndoMatches
  <2>2. Named(t) /\ (t = Publish => t \notin gone)
    BY <1>1, <2>1, Constants DEF Named, Tx
  <2> QED BY <1>1, <2>1, <2>2 DEF Replayed
<1>4. CASE UndoSettlements
  <2>1. matchRow' = Unsettled /\ orderRow' = orderRow /\ heard' = heard \ (gone \cap {SettleTx})
    BY <1>4 DEF UndoSettlements
  <2>2. Named(t) /\ (t = SettleTx => t \notin gone)
    BY <1>1, <2>1, Constants DEF Named, Tx, Unsettled
  <2> QED BY <1>1, <2>1, <2>2 DEF Replayed
<1> QED BY <1>2, <1>3, <1>4

(* A log that is read below a stamp that stands is on the chain there.     *)
LEMMA LogStands ==
  ASSUME Types, ChunkInv, ChainInv, ViewInv, pc \in Replaying, NEW h \in Shared, Log <= h
  PROVE  HeightOf(LogTx) = Log
<1>1. /\ LogTx \in Tx /\ LogTx = view[Log].tx /\ Log \in DOMAIN view /\ Log \in Height
  BY LogTypes
<1>2. chain[Log] = view[Log]
  BY <1>1 DEF ViewInv
<1>3. Log \in DOMAIN chain
  BY <1>1, SharedOnChain, ChainType, Constants DEF Height
<1> QED BY <1>1, <1>2, <1>3, Heights

LEMMA BlockType ==
  ASSUME Types, NEW t \in Tx, logRow[t] # None
  PROVE  logRow[t].block \in Height /\ logRow[t].block \in Nat /\ logRow[t].block >= 1
BY DEF Types, TypeOK, LogRows, Height

LEMMA PhantomStep ==
  ASSUME IInv, Types', ChunkInv', ChainInv', [Next]_vars
  PROVE  PhantomInv'
<1>0. /\ Types /\ ChunkInv /\ ChainInv /\ ForkInv /\ ViewInv /\ CursorInv /\ UndoInv
      /\ PhantomInv /\ UndoneInv
  BY DEF IInv
<1>1. SUFFICES ASSUME ~buried', ~torn', NEW t \in Tx, OnFile(t)' \/ Replayed(t)'
               PROVE  Sound(t)'
  BY DEF PhantomInv
<1>2. ~buried /\ ~torn
  BY <1>1, NeverMended
<1>3. OnFile(t) \/ Replayed(t) => Sound(t)
  BY <1>0, <1>2 DEF PhantomInv
<1>4. CASE Mine \/ \E k \in 0 .. MaxHeight : Reorg(k)
  <2>1. PICK k \in 0 .. MaxHeight : Kept(k)
    BY <1>0, <1>4, ChainMove
  <2>2. UNCHANGED <<orderRow, matchRow, logRow, cursor, refiled, pending, heard>>
    BY <1>0, <1>4, ChainMove DEF db, history
  <2>3. Sound(t)
    BY <1>1, <1>3, <2>2 DEF OnFile, Replayed, Named
  <2>4. ASSUME NEW h \in Shared', logRow[t].block <= h PROVE HeightOf(t)' = logRow[t].block
    <3>1. h \in 1 .. k /\ h \in Shared
      BY <2>1, <2>4 DEF Kept
    <3>2. HeightOf(t) = logRow[t].block
      BY <2>3, <2>4, <3>1 DEF Sound
    <3>3. HeightOf(t) \in 1 .. k
      BY <1>0, <2>3, <2>4, <3>1, <3>2, BlockType, Constants DEF Sound
    <3> QED BY <1>0, <2>1, <3>2, <3>3, KeptHeights
  <2> QED BY <2>2, <2>3, <2>4 DEF Sound
<1>5. ASSUME NEW t0 \in Tx, Live(t0) PROVE Sound(t)'
  <2>1. /\ UNCHANGED <<chain, blockRow, logRow, cursor, pending, refiled>> /\ heard' = heard \cup {t0}
        /\ orderRow' = OrderRowAfter(t0) /\ matchRow' = MatchRowAfter(t0)
    BY <1>5 DEF Live
  <2>2. Replayed(t)' => Replayed(t)
    <3>1. Replayed(t)' => t # t0 /\ t \notin heard
      BY <2>1 DEF Replayed
    <3> QED BY <1>0, <2>1, <3>1, NamedAfter DEF Replayed
  <2>3. Sound(t)
    BY <1>1, <1>3, <2>1, <2>2 DEF OnFile
  <2> QED BY <2>1, <2>3, SameShared, SameHeights DEF Sound
<1>6. CASE UndoOrders \/ UndoMatches \/ UndoSettlements
  <2>1. UNCHANGED <<chain, blockRow, logRow, cursor, pending, refiled, gone>> /\ gone \subseteq Tx
    BY <1>0, <1>6 DEF UndoOrders, UndoMatches, UndoSettlements, locals, Types, TypeOK
  <2>2. Replayed(t)' => Replayed(t)
    BY <1>0, <1>6, UndoNames
  <2>3. Sound(t)
    BY <1>1, <1>3, <2>1, <2>2 DEF OnFile
  <2> QED BY <2>1, <2>3, SameShared, SameHeights DEF Sound
<1>7. CASE MarkReorged
  <2>1. /\ UNCHANGED <<chain, blockRow, cursor, refiled, orderRow, matchRow, heard>> /\ pending' = pending \ gone
        /\ pc = "marks"
    BY <1>7 DEF MarkReorged
  <2>2. /\ logRow'[t] # None <=> logRow[t] # None
        /\ logRow[t] # None => logRow'[t].block = logRow[t].block
        /\ OnFile(t)' => OnFile(t) /\ t \notin gone
    <3>1. logRow[t] # None =>
             /\ [logRow[t] EXCEPT !.status = "REORGED"] \in LogRows
             /\ [logRow[t] EXCEPT !.status = "REORGED"].block = logRow[t].block
             /\ [logRow[t] EXCEPT !.status = "REORGED"].status = "REORGED"
      BY <1>0 DEF Types, TypeOK, LogRows
    <3>2. logRow'[t] = IF logRow[t] # None /\ logRow[t].block > common
                         THEN [logRow[t] EXCEPT !.status = "REORGED"] ELSE logRow[t]
      BY <1>7 DEF MarkReorged
    <3>3. t \in gone <=> logRow[t] # None /\ logRow[t].block > common
      BY <1>0, <2>1 DEF UndoInv, Undoing
    <3> QED BY <3>1, <3>2, <3>3, Constants DEF OnFile
  <2>3. Replayed(t)' => Replayed(t) /\ t \notin gone
    <3>1. Replayed(t)' => Replayed(t)
      BY <2>1 DEF Replayed, Named
    <3>2. t \in gone => ~Replayed(t)
      BY <1>0, <2>1 DEF UndoneInv, Undoing, Tx
    <3> QED BY <3>1, <3>2
  <2>4. t \notin gone /\ Sound(t)
    BY <1>1, <1>3, <2>2, <2>3
  <2> QED BY <2>1, <2>2, <2>4, SameShared, SameHeights DEF Sound
<1>8. CASE DropBlocks
  <2>1. UNCHANGED <<chain, logRow, cursor, pending, refiled, heard, orderRow, matchRow>> /\ Shared' = Shared
    BY <1>0, <1>8, DropKeeps DEF DropBlocks, history
  <2>2. Sound(t)
    BY <1>1, <1>3, <2>1 DEF OnFile, Replayed, Named
  <2> QED BY <2>1, <2>2, SameHeights DEF Sound
<1>9. CASE Rewind
  <2>1. /\ UNCHANGED <<chain, blockRow, logRow, pending, refiled, heard, orderRow, matchRow>> /\ cursor' = common
        /\ pc = "rewind"
    BY <1>9 DEF Rewind, Rewound, history
  <2>2. Sound(t) /\ (OnFile(t) \/ Replayed(t))
    BY <1>1, <1>3, <2>1 DEF OnFile, Replayed, Named
  <2>3. logRow[t].block <= common
    <3>1. CASE OnFile(t)
      BY <1>0, <2>1, <3>1 DEF UndoInv, Undoing
    <3>2. CASE Replayed(t)
      <4>1. t \notin gone
        BY <1>0, <2>1, <3>2 DEF UndoneInv, Undoing, Tx
      <4>2. ~(logRow[t].block > common)
        BY <1>0, <2>1, <2>2, <4>1 DEF UndoInv, Undoing, Sound
      <4>3. common \in Nat /\ logRow[t].block \in Nat
        BY <1>0, <2>2, BlockType, Constants DEF Types, Sound
      <4> QED BY <4>2, <4>3
    <3> QED BY <2>2, <3>1, <3>2
  <2> QED BY <2>1, <2>2, <2>3, SameShared, SameHeights DEF Sound
<1>10. CASE Store
  <2>1. /\ UNCHANGED <<chain, blockRow, cursor, heard, orderRow, matchRow>> /\ pending' = pending \cup {LogTx}
        /\ pc \in Replaying
    BY <1>10 DEF Store, Replaying
  <2>2. LogTx \in Tx /\ Log \in Height
    BY <1>0, <2>1, LogTypes
  <2>3. CASE t = LogTx /\ logRow[t] = None
    <3>1. logRow'[t] = [status |-> "CONFIRMED", block |-> Log]
      BY <1>0, <1>10, <2>2, <2>3 DEF Store, Types, TypeOK
    <3>2. [status |-> "CONFIRMED", block |-> Log] \in LogRows
      BY <2>2 DEF LogRows
    <3>3. logRow'[t] # None /\ logRow'[t].block = Log
      BY <3>1, <3>2, Constants
    <3>4. \A h \in Shared : Log <= h => HeightOf(t) = Log
      BY <1>0, <2>1, <2>3, LogStands
    <3> QED BY <2>1, <2>3, <3>3, <3>4, SameShared, SameHeights DEF Sound
  <2>4. CASE ~(t = LogTx /\ logRow[t] = None)
    <3>1. logRow'[t] = logRow[t] /\ refiled \subseteq refiled'
      BY <1>0, <1>10, <2>2, <2>4 DEF Store, Types, TypeOK
    <3>2. Sound(t)
      BY <1>1, <1>3, <2>1, <3>1 DEF OnFile, Replayed, Named
    <3> QED BY <2>1, <3>1, <3>2, SameShared, SameHeights DEF Sound
  <2> QED BY <2>3, <2>4
<1>11. CASE ReplayRow \/ ReplayRelated
  <2>1. /\ UNCHANGED <<chain, blockRow, logRow, cursor, pending, refiled, heard>> /\ pc \in Replaying
        /\ pc \in {"row", "related"}
        /\ orderRow' = orderRow \/ orderRow' = OrderRowAfter(LogTx)
        /\ matchRow' = matchRow \/ matchRow' = MatchRowAfter(LogTx)
    BY <1>11 DEF ReplayRow, ReplayRelated, Replaying, history
  <2>2. LogTx \in Tx /\ LogTx \in pending /\ logRow[LogTx] # None /\ (logRow[LogTx].block = Log \/ LogTx \in refiled)
    BY <1>0, <2>1, LogTypes DEF ChunkInv
  <2>3. CASE t = LogTx /\ logRow[t].block = Log
    <3>1. \A h \in Shared : Log <= h => HeightOf(t) = Log
      BY <1>0, <2>1, <2>3, LogStands
    <3> QED BY <2>1, <2>2, <2>3, <3>1, SameShared, SameHeights DEF Sound
  <2>4. CASE t = LogTx /\ LogTx \in refiled
    <3>1. OnFile(t)
      BY <1>1, <2>1, <2>4 DEF Replayed, OnFile
    <3> QED BY <1>3, <2>1, <3>1, SameShared, SameHeights DEF Sound
  <2>5. CASE t # LogTx
    <3>1. Named(t)' => Named(t)
      BY <1>0, <2>1, <2>2, <2>5, NamedAfter
    <3>2. Sound(t)
      BY <1>1, <1>3, <2>1, <3>1 DEF OnFile, Replayed
    <3> QED BY <2>1, <3>2, SameShared, SameHeights DEF Sound
  <2> QED BY <2>2, <2>3, <2>4, <2>5
<1>12. CASE Stamp
  <2>1. /\ ~Buries /\ cursor \in {0} \cup Shared /\ upto \in Height /\ cursor < upto
        /\ \A h \in Shared' : h \in Shared \/ h = upto
    BY <1>0, <1>1, <1>2, <1>12, StampDone
  <2>2. UNCHANGED <<chain, logRow, cursor, pending, refiled, heard, orderRow, matchRow>>
    BY <1>12 DEF Stamp
  <2>3. Sound(t)
    BY <1>1, <1>3, <2>2 DEF OnFile, Replayed, Named
  <2>4. logRow[t].block \in Nat /\ logRow[t].block >= 1 /\ cursor \in Nat /\ upto \in Nat
    BY <1>0, <2>1, <2>3, BlockType, Constants, SMTT(30) DEF Sound, Types, TypeOK, Height
  <2>5. ASSUME logRow[t].block <= upto PROVE HeightOf(t) = logRow[t].block
    <3>1. CASE logRow[t].block <= cursor
      <4>1. cursor \in Shared
        BY <2>1, <2>4, <3>1
      <4> QED BY <2>3, <3>1, <4>1 DEF Sound
    <3>2. CASE logRow[t].block > cursor
      <4>1. t \in pending
        BY <2>3, <2>4, <3>2 DEF Sound
      <4>2. logRow[t].block \in cursor + 1 .. upto
        BY <2>4, <2>5, <3>2
      <4> QED BY <2>1, <4>1, <4>2 DEF Buries
    <3> QED BY <2>4, <3>1, <3>2
  <2>6. \A h \in Shared' : logRow[t].block <= h => HeightOf(t) = logRow[t].block
    BY <2>1, <2>3, <2>5 DEF Sound
  <2> QED BY <2>2, <2>3, <2>6, SameHeights DEF Sound
<1>13. CASE Advance
  <2>1. /\ UNCHANGED <<chain, blockRow, logRow, refiled, heard, orderRow, matchRow>> /\ cursor' = upto
        /\ pending' = {x \in pending : logRow[x].block > upto} /\ pc = "advance"
    BY <1>13 DEF Advance
  <2>2. Sound(t)
    BY <1>1, <1>3, <2>1 DEF OnFile, Replayed, Named
  <2>3. logRow[t].block \in Nat /\ cursor \in Nat /\ upto \in Nat /\ cursor < upto
    BY <1>0, <2>1, <2>2, BlockType, Constants, SMTT(30) DEF Sound, Types, TypeOK, ChunkInv
  <2>4. t \in pending' \/ logRow[t].block <= upto
    BY <2>1, <2>2, <2>3 DEF Sound
  <2> QED BY <2>1, <2>2, <2>4, SameShared, SameHeights DEF Sound
<1>14. CASE UNCHANGED <<chain, blockRow, logRow, cursor, pending, refiled, heard, orderRow, matchRow>>
  <2>1. Sound(t)
    BY <1>1, <1>3, <1>14 DEF OnFile, Replayed, Named
  <2> QED BY <1>14, <2>1, SameShared, SameHeights DEF Sound
<1> QED BY <1>4, <1>5, <1>6, <1>7, <1>8, <1>9, <1>10, <1>11, <1>12, <1>13, <1>14
  DEF Next, Rollback, Check, Select, Chunk, Scan, Fetch, ReplaySpend, ReplayConsume, Fault, vars, db, history

LEMMA UndoneStep ==
  ASSUME Types, ChunkInv, UndoneInv, [Next]_vars
  PROVE  UndoneInv'
<1>1. CASE UndoOrders \/ UndoMatches \/ UndoSettlements
  <2>1. gone' = gone /\ gone \subseteq Tx
    BY <1>1 DEF UndoOrders, UndoMatches, UndoSettlements, locals, Types, TypeOK
  <2>2. \A t \in Tx : Replayed(t)' => Replayed(t)
    BY <1>1, UndoNames
  <2>3. CASE UndoOrders
    <3>1. \A t \in gone : t \in Submit => ~Named(t)'
      BY <2>1, <2>3, Constants DEF UndoOrders, Named
    <3>2. pc' = "matches"
      BY <2>3 DEF UndoOrders
    <3> QED BY <2>1, <3>1, <3>2 DEF UndoneInv, Undoing, Replayed
  <2>4. CASE UndoMatches
    <3>1. Publish \in gone => ~Named(Publish)'
      BY <2>4, Constants DEF UndoMatches, Named
    <3>2. pc = "matches" /\ pc' = "settlements"
      BY <2>4 DEF UndoMatches
    <3> QED BY <2>1, <2>2, <3>1, <3>2 DEF UndoneInv, Undoing, Replayed
  <2>5. CASE UndoSettlements
    <3>1. SettleTx \in gone => ~Named(SettleTx)'
      BY <2>5, Constants DEF UndoSettlements, Unsettled, Named, Tx
    <3>2. pc = "settlements" /\ pc' = "marks"
      BY <2>5 DEF UndoSettlements
    <3> QED BY <2>1, <2>2, <3>1, <3>2 DEF UndoneInv, Undoing, Replayed
  <2> QED BY <1>1, <2>3, <2>4, <2>5
<1>2. ASSUME NEW t0 \in Tx, Live(t0) PROVE UndoneInv'
  <2>1. /\ UNCHANGED <<gone, pc, refiled>> /\ heard' = heard \cup {t0} /\ gone \subseteq Tx
        /\ orderRow' = OrderRowAfter(t0) /\ matchRow' = MatchRowAfter(t0)
    BY <1>2 DEF Live, locals, Types, TypeOK
  <2>2. \A t \in Tx : Replayed(t)' => Replayed(t)
    <3>1. \A t \in Tx : Replayed(t)' => t # t0 /\ t \notin heard /\ Named(t)'
      BY <2>1 DEF Replayed
    <3>2. \A t \in Tx : t # t0 /\ Named(t)' => Named(t)
      BY <2>1, NamedAfter
    <3> QED BY <2>1, <3>1, <3>2 DEF Replayed
  <2> QED BY <2>1, <2>2 DEF UndoneInv
<1>3. CASE MarkReorged \/ DropBlocks
  <2>1. /\ UNCHANGED <<gone, orderRow, matchRow, heard, refiled>> /\ pc \in {"marks", "blocks"}
    BY <1>3 DEF MarkReorged, DropBlocks, locals, history
  <2> QED BY <2>1 DEF UndoneInv, Undoing, Replayed, Named
<1>4. CASE pc' \notin Undoing \/ pc' = "orders"
  BY <1>4, Constants DEF UndoneInv, Undoing
<1>5. CASE UNCHANGED <<gone, orderRow, matchRow, heard, refiled, pc>>
  BY <1>5 DEF UndoneInv, Replayed, Named
<1> QED BY <1>1, <1>2, <1>3, <1>4, <1>5
  DEF Next, Mine, Reorg, Rollback, Check, Select, Rewind, Chunk, Scan, Fetch, Store, ReplayRow, ReplayRelated,
      ReplaySpend, ReplayConsume, Finish, Stamp, Advance, Fault, vars, db, locals, history, Undoing

---------------------------------------------------------------------------
(* The invariant, and what it says of the index at rest.                   *)

(* Every state of the indexer keeps the invariant (catchup.ts): types, the *)
(* chunk, the stamps, and what is done, filed and undone.                  *)
THEOREM Inductive == Spec => []IInv
<1>1. IInv /\ [Next]_vars => IInv'
  <2> SUFFICES ASSUME IInv, [Next]_vars PROVE IInv'
    OBVIOUS
  <2>1. /\ Types /\ ChunkInv /\ ChainInv /\ ForkInv /\ ViewInv /\ CursorInv /\ UndoInv /\ UndoneInv
    BY DEF IInv
  <2>2. Types' /\ ChunkInv' /\ ChainInv'
    BY <2>1, TypesStep, ChunkStep, ChainStep
  <2>3. ForkInv' /\ ViewInv' /\ CursorInv' /\ UndoInv' /\ UndoneInv'
    BY <2>1, ForkStep, ViewStep, CursorStep, UndoStep, UndoneStep
  <2>4. IndexInv' /\ HeadInv' /\ PhantomInv'
    BY <2>2, IndexStep, HeadStep, PhantomStep
  <2> QED BY <2>2, <2>3, <2>4 DEF IInv
<1> QED BY <1>1, InitInv, PTL DEF Spec

LEMMA CursorStands ==
  ASSUME IInv, AtRest, cursor # 0
  PROVE  cursor \in Shared
<1>1. cursor \in Stamped
  BY DEF IInv, CursorInv, AtRest
<1> QED BY <1>1 DEF AtRest

(* At rest every event up to the cursor has what follows from it.          *)
LEMMA IndexedAtRest ==
  ASSUME IInv, AtRest, NEW t \in Tx, Indexed(t)
  PROVE  RowOf(t) /\ CommitmentOf(t) /\ SpentOf(t)
<1>1. cursor \in 0 .. MaxHeight /\ HeightOf(t) \in Nat
  BY Heights, Constants DEF IInv, Types, TypeOK
<1>2. Done(cursor)
  BY CursorStands DEF Done
<1>3. Filed(cursor)
  BY DEF Filed, AtRest, Below
<1>4. t \in Below(cursor)
  BY DEF Below, Indexed
<1>5. ~buried /\ ~torn
  BY DEF AtRest
<1> QED BY <1>1, <1>2, <1>3, <1>4, <1>5 DEF IInv, IndexInv

(* Whatever a reorganisation, a fault or a listener did before, at rest    *)
(* every event of a confirmed block up to the cursor has its row.          *)
THEOREM NothingIsMissed == Spec => []NothingMissed
<1>1. IInv => NothingMissed
  <2> SUFFICES ASSUME IInv, AtRest, NEW t \in Tx, Indexed(t) PROVE Held(t)
    BY DEF NothingMissed
  <2>1. RowOf(t)
    BY IndexedAtRest
  <2>2. CASE t \in Submit
    BY <2>1, <2>2, Constants DEF Held, RowOf
  <2>3. CASE t = Publish
    BY <2>1, <2>3, Constants DEF Held, RowOf
  <2>4. CASE t = SettleTx
    BY <2>1, <2>4, Constants DEF Held, RowOf
  <2> QED BY <2>2, <2>3, <2>4 DEF Tx
<1> QED BY <1>1, Inductive, PTL

(* The integrity report is clean at rest: an order has the commitment of   *)
(* its own submission, and a settled match has spent its nullifier.        *)
THEOREM IntegrityIsClean == Spec => []IntegrityAtRest
<1>1. IInv => IntegrityAtRest
  <2> SUFFICES ASSUME IInv, AtRest PROVE
        /\ orderRow # None /\ Indexed(orderRow.tx) => commitment # None /\ commitment.tx = orderRow.tx
        /\ Indexed(SettleTx) /\ (\E t \in Submit : Indexed(t)) => commitment.tx \in consumed
    BY DEF IntegrityAtRest
  <2>1. \A t \in Submit : t \in Tx
    BY DEF Tx
  <2>2. ASSUME orderRow # None, Indexed(orderRow.tx) PROVE commitment # None /\ commitment.tx = orderRow.tx
    <3>1. orderRow.tx \in Submit
      BY <2>2 DEF IInv, Types, TypeOK, OrderRows
    <3> QED BY <2>1, <2>2, <3>1, IndexedAtRest DEF CommitmentOf
  <2>3. ASSUME Indexed(SettleTx), NEW t \in Submit, Indexed(t) PROVE commitment.tx \in consumed
    <3>1. commitment.tx = t
      BY <2>1, <2>3, IndexedAtRest DEF CommitmentOf
    <3>2. SpentOf(SettleTx) /\ OnChain(t)
      BY <2>3, IndexedAtRest DEF Tx, Indexed
    <3> QED BY <3>1, <3>2 DEF SpentOf
  <2> QED BY <2>2, <2>3
<1> QED BY <1>1, Inductive, PTL

(* Rollback leaves nothing behind: at rest a row names a transaction of    *)
(* the chain, unless a listener alone brought it or its log was refiled;   *)
(* and the state stays in its types.                                       *)
THEOREM NothingLeftBehind == Spec => []NoPhantoms
<1>1. IInv => NoPhantoms
  <2> SUFFICES ASSUME IInv, AtRest, \A t \in pending : logRow[t].block <= cursor,
                      NEW t \in Tx, Named(t)
               PROVE  Accounted(t)
    <3>1. IInv => TypeOK
      BY DEF IInv, Types
    <3>2. IInv /\ orderRow # None => orderRow.tx \in Submit
      BY DEF IInv, Types, TypeOK, OrderRows
    <3>3. /\ IInv /\ orderRow # None => orderRow.tx \in Tx /\ Named(orderRow.tx)
          /\ matchRow # None => Publish \in Tx /\ Named(Publish)
          /\ IInv /\ matchRow # None /\ matchRow.settledBy # None => SettleTx \in Tx /\ Named(SettleTx)
      BY <3>2 DEF Tx, Named, IInv, Types, TypeOK, MatchRows
    <3> QED BY <3>1, <3>3 DEF NoPhantoms
  <2>1. SUFFICES ASSUME t \notin refiled, ~(t \in heard /\ ~OnFile(t)) PROVE OnChain(t)
    BY DEF Accounted
  <2>2. Sound(t)
    <3>1. OnFile(t) \/ Replayed(t)
      BY <2>1 DEF Replayed
    <3> QED BY <3>1 DEF IInv, PhantomInv, AtRest
  <2>3. logRow[t].block <= cursor
    BY <2>2 DEF Sound
  <2>4. logRow[t].block \in Nat /\ logRow[t].block >= 1 /\ cursor \in Nat
    BY <2>2, BlockType, Constants DEF Sound, IInv, Types, TypeOK
  <2>5. cursor \in Shared
    BY <2>3, <2>4, CursorStands
  <2>6. HeightOf(t) = logRow[t].block
    BY <2>2, <2>3, <2>5 DEF Sound
  <2> QED BY <2>4, <2>6 DEF OnChain
<1> QED BY <1>1, Inductive, PTL

=============================================================================
