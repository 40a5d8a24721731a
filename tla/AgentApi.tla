------------------------------ MODULE AgentApi ------------------------------
(***************************************************************************)
(* The agent routes of the HTTP API: POST /agent/access sells a bearer     *)
(* token that admits a number of requests, POST /agent/orders spends one   *)
(* use and runs the order through runTask (matcher/src/http/server.ts,     *)
(* agent/access.ts, agent/orders.ts, http/x402-agent.ts, and the sweeper   *)
(* of index.ts).  Composed with TaskStore: a request is a caller of        *)
(* runTask, and its order a task of a type no worker retries.              *)
(***************************************************************************)
EXTENDS TaskStore, Functions

CONSTANTS
  Token,       \* tokens in the order they are issued
  MaxUses,
  OrderType    \* the task type AGENT_SUBMIT_ORDER

Grant == [status : {"ACTIVE", "USED", "EXPIRED"}, used : 0 .. MaxUses]

ASSUME AgentAssumption ==
  /\ Token \subseteq Nat /\ MaxUses \in Nat \ {0} /\ None \notin Grant
  /\ OrderType \in Type \ Handled
  /\ IsFiniteSet(Task) /\ IsFiniteSet(Token) /\ IsFiniteSet(Runner)

VARIABLES
  grant,       \* agent_access_tokens: None or [status, used]
  delivered,   \* tokens whose purchase settled, so that the agent has them
  lapsed,      \* tokens whose expiresAt has passed
  phase,       \* where a request stands before runTask: idle, counting or admitted
  shown,       \* the token a request carries
  read,        \* usedCount as its select read it
  admitted,    \* history: requests each token admitted
  raced        \* history: tokens two requests held between select and update

access == <<grant, delivered, lapsed, phase, shown, read, admitted, raced>>
agentVars == <<vars, access>>

AgentInit ==
  /\ Init
  /\ grant = [k \in Token |-> None]
  /\ delivered = {} /\ lapsed = {}
  /\ phase = [r \in Runner |-> "idle"]
  /\ shown = [r \in Runner |-> None] /\ read = [r \in Runner |-> 0]
  /\ admitted = [k \in Token |-> 0] /\ raced = {}

---------------------------------------------------------------------------
(* Buying access.  x402 settles after the handler has inserted the row; if *)
(* that fails the caller gets no token.                                    *)

Issue(k) ==
  /\ grant[k] = None /\ \A j \in Token : j < k => grant[j] # None
  /\ grant' = [grant EXCEPT ![k] = [status |-> "ACTIVE", used |-> 0]]
  /\ UNCHANGED <<vars, delivered, lapsed, phase, shown, read, admitted, raced>>

SettlePurchase(k) ==
  /\ grant[k] # None /\ k \notin delivered
  /\ delivered' = delivered \cup {k}
  /\ UNCHANGED <<vars, grant, lapsed, phase, shown, read, admitted, raced>>

---------------------------------------------------------------------------
(* consumeAgentAccessToken: a select, then an update whose outcome nobody  *)
(* looks at.  Operators named ...Bug are the slips the properties below    *)
(* are tried against; nothing here uses them.                              *)

Usable(k) ==
  /\ k \notin lapsed
  /\ grant[k].status = "ACTIVE" /\ grant[k].used < MaxUses

Select(r, k) ==
  /\ phase[r] = "idle" /\ pc[r] = "idle"
  /\ k \in delivered /\ Usable(k)
  /\ phase' = [phase EXCEPT ![r] = "counting"]
  /\ shown' = [shown EXCEPT ![r] = k]
  /\ read' = [read EXCEPT ![r] = grant[k].used]
  /\ raced' = IF \E q \in Runner : phase[q] = "counting" /\ shown[q] = k
                THEN raced \cup {k} ELSE raced
  /\ UNCHANGED <<vars, grant, delivered, lapsed, admitted>>

StatusAfter(r) == IF read[r] + 1 >= MaxUses THEN "USED" ELSE "ACTIVE"
CountedStaleBug(r) ==
  IF grant[shown[r]].used < MaxUses
    THEN [status |-> StatusAfter(r), used |-> read[r] + 1] ELSE grant[shown[r]]
Counted(r) ==
  IF grant[shown[r]].used < MaxUses
    THEN [status |-> StatusAfter(r), used |-> grant[shown[r]].used + 1] ELSE grant[shown[r]]

Count(r) ==
  /\ phase[r] = "counting"
  /\ grant' = [grant EXCEPT ![shown[r]] = Counted(r)]
  /\ admitted' = [admitted EXCEPT ![shown[r]] = admitted[shown[r]] + 1]
  /\ phase' = [phase EXCEPT ![r] = "admitted"]
  /\ shown' = [shown EXCEPT ![r] = None] /\ read' = [read EXCEPT ![r] = 0]
  /\ UNCHANGED <<vars, delivered, lapsed, raced>>

Lapse(k) ==
  /\ grant[k] # None /\ k \notin lapsed
  /\ lapsed' = lapsed \cup {k}
  /\ UNCHANGED <<vars, grant, delivered, phase, shown, read, admitted, raced>>

(* sweepExpiredAgentAccessTokens, at boot and every minute.                *)
ExpiredBug(k) == k \in lapsed /\ grant[k] # None /\ grant[k].status = "ACTIVE" /\ grant[k].used < MaxUses
Expired(k) == k \in lapsed /\ grant[k] # None /\ grant[k].status = "ACTIVE"
SweepTokens ==
  /\ \E k \in Token : Expired(k)
  /\ grant' = [k \in Token |-> IF Expired(k) THEN [grant[k] EXCEPT !.status = "EXPIRED"] ELSE grant[k]]
  /\ UNCHANGED <<vars, delivered, lapsed, phase, shown, read, admitted, raced>>

---------------------------------------------------------------------------
(* The order route, after the use is spent.                                *)

Leave(r) == phase' = [phase EXCEPT ![r] = "idle"]
OutsideRequest == UNCHANGED <<grant, delivered, lapsed, shown, read, admitted, raced>>

(* The body names no session account, or its clientOrderId already has a   *)
(* task: answered with 400, with the stored result or with a conflict.     *)
Answer(r) ==
  /\ phase[r] = "admitted" /\ Leave(r)
  /\ UNCHANGED vars /\ OutsideRequest

(* runTask begins; the key is derived from the clientOrderId if there is   *)
(* one.                                                                    *)
SubmitOrder(r, k) ==
  /\ phase[r] = "admitted" /\ Leave(r)
  /\ Lookup(r, k, OrderType, "run")
  /\ OutsideRequest

(* A process that dies takes its requests with it.                         *)
CrashAll(p) ==
  /\ Crash(p)
  /\ phase' = [r \in Runner |-> IF ProcessOf[r] = p THEN "idle" ELSE phase[r]]
  /\ shown' = [r \in Runner |-> IF ProcessOf[r] = p THEN None ELSE shown[r]]
  /\ read' = [r \in Runner |-> IF ProcessOf[r] = p THEN 0 ELSE read[r]]
  /\ UNCHANGED <<grant, delivered, lapsed, admitted, raced>>

(* Everything else of the ledger goes on as TaskStore has it.              *)
Ledger ==
  /\ \/ Tick
     \/ \E r \in Runner : RunnerStep(r)
     \/ \E e \in Executor : ExecutorStep(e) \/ CompleteUnlogged(e)
     \/ \E w \in Worker : WorkerStep(w)
     \/ \E c \in Recoverer : SweepStep(c)
     \/ \E a \in Actor : DbError(a)
  /\ UNCHANGED access

RequestStep(r) == Count(r) \/ Answer(r)

AgentNext ==
  \/ \E k \in Token : Issue(k) \/ SettlePurchase(k) \/ Lapse(k)
  \/ \E r \in Runner, k \in Token : Select(r, k)
  \/ \E r \in Runner : RequestStep(r)
  \/ \E r \in Runner, k \in Key \cup {NoKey} : SubmitOrder(r, k)
  \/ SweepTokens
  \/ \E p \in Process : CrashAll(p)
  \/ Ledger

AgentSpec == AgentInit /\ [][AgentNext]_agentVars

(* Time passes, the sweeper is a timer, and a request that was let in is   *)
(* carried on with.                                                        *)
AgentFairness ==
  /\ \A k \in Token : WF_agentVars(Lapse(k))
  /\ \A r \in Runner : WF_agentVars(RequestStep(r))
  /\ WF_agentVars(SweepTokens)
AgentFairSpec == AgentSpec /\ AgentFairness

---------------------------------------------------------------------------
AgentTypeOK ==
  /\ grant \in [Token -> {None} \cup Grant]
  /\ delivered \subseteq Token /\ lapsed \subseteq Token /\ raced \subseteq Token
  /\ phase \in [Runner -> {"idle", "counting", "admitted"}]
  /\ shown \in [Runner -> Token \cup {None}] /\ read \in [Runner -> 0 .. MaxUses]
  /\ admitted \in [Token -> Nat]

(* Requests a token lets in without a use: those that were between the     *)
(* select and the update at once share the last one (access.ts:100).  All  *)
(* requests served at the time but the one that spends it may be among     *)
(* them.                                                                   *)
Unspent(k) == IF k \in raced THEN Cardinality(Runner) - 1 ELSE 0

(* The state stays in its types, and every request a token admits is       *)
(* counted, although the update follows a select made earlier; it admits   *)
(* no more than were bought, except those that share its last use.         *)
Metered ==
  /\ AgentTypeOK
  /\ \A k \in Token : grant[k] # None =>
    /\ grant[k].used = IF admitted[k] < MaxUses THEN admitted[k] ELSE MaxUses
    /\ admitted[k] <= MaxUses + Unspent(k)

(* The uses of a token that were spent, and the requests let in without.   *)
Covered(k) == IF grant[k] = None THEN 0 ELSE grant[k].used + Unspent(k)

(* Every order the service submits was paid for: the functions entered     *)
(* never outnumber the uses spent, whatever the ledger does with crashed,  *)
(* repeated and retried requests, except by those that shared a last use.  *)
OrdersWerePaid ==
  SumFunctionOnSet(runs, Task) <= SumFunctionOnSet([k \in Token |-> Covered(k)], Token)

(* A token that was issued ends up retired for good, although the update   *)
(* of a request that selected it earlier may set it ACTIVE again after the *)
(* sweep, and a shared last use leaves it ACTIVE when used up.             *)
Retired(k) == grant[k].status \in {"USED", "EXPIRED"}
TokensRetire == \A k \in Token : <>[](grant[k] # None => Retired(k))
=============================================================================
