---------------------------- MODULE MidnightDeploy --------------------------
(***************************************************************************)
(* The operator scripts of contracts/midnight that put the contract on the *)
(* chain and try it: deploy.mjs, deploy-final.mjs, deploy_synced.mjs,      *)
(* test_deploy_fixed_time.mjs, test_live_lifecycle.mjs and the test_submit *)
(* scripts, composed with the ledger of the contract (UmbraLedger) that    *)
(* comes to exist when a deployment is included.                           *)
(*                                                                         *)
(* The chain is external: a transaction the node took is included, if the  *)
(* DUST coin it pays with is still there, or dropped.  A coin that pays    *)
(* leaves one coin of change; each script knows exactly one coin, because  *)
(* the events it replays to find it are written in its text.  Probes, keys *)
(* and provers either work or fail; the contract an address stands for is  *)
(* named by the run that deploys it, and Home is the one whose ledger is   *)
(* followed.                                                               *)
(***************************************************************************)
EXTENDS UmbraLedger

CONSTANTS
  Run,           \* runs of scripts, one per started process
  Script,        \* which script a run is of
  Home,          \* the run whose contract's ledger is UmbraLedger's
  OrderOf        \* the random commitment of a lifecycle run

Kind == {"deploy", "deploy-final", "deploy_synced", "fixed_time", "lifecycle"}

ASSUME DeployAssumption ==
  /\ Script \in [Run -> Kind] /\ OrderOf \in [Run -> Commitment]
  /\ Home \in Run /\ Script[Home] # "lifecycle"
  /\ None \notin Run

VARIABLES
  at,          \* where a run is
  flag,        \* it was started with --deploy
  target,      \* the contract a lifecycle run calls, read from .env
  env,         \* MIDNIGHT_CONTRACT_ADDRESS in .env
  saved,       \* the run whose transaction is in proven_deploy_tx.bin
  coin,        \* the DUST coin that is unspent: 1 the funding, 2 its change, ...
  pool,        \* runs whose transaction the node has taken
  deployed,    \* contracts on the chain
  submitted,   \* history: runs that handed their transaction to the node
  resent,      \* history: runs whose saved transaction another script handed in
  expired      \* history: runs that stopped waiting for their confirmation

scripts == <<at, flag, target, env, saved>>
history == <<submitted, resent, expired>>
chain == <<coin, pool, deployed>>
deployVars == <<vars, scripts, chain, history>>

Deploys(r) == Script[r] # "lifecycle"

DeployInit ==
  /\ Init
  /\ at = [r \in Run |-> "off"] /\ flag = [r \in Run |-> FALSE]
  /\ target = [r \in Run |-> None] /\ env = None /\ saved = None
  /\ coin = 1 /\ pool = {} /\ deployed = {}
  /\ submitted = {} /\ resent = {} /\ expired = {}

Go(r, step) == at' = [at EXCEPT ![r] = step]
Offline == UNCHANGED <<vars, chain, history>>

---------------------------------------------------------------------------
(* Up to the proven transaction nothing leaves the machine.                *)

ReadsFlag(r) == Script[r] \in {"deploy", "deploy-final"}

(* Either check may end the run: of the network and the endpoints, of the  *)
(* artifacts, the seed and the keys.                                       *)
Reachable == BOOLEAN
Equipped == BOOLEAN

(* A lifecycle run calls the contract .env names when it starts.           *)
TargetAtStart(r) == IF Deploys(r) THEN None ELSE env

Start(r) ==
  /\ at[r] = "off"
  /\ \E reachable \in Reachable, equipped \in Equipped, f \in BOOLEAN :
       LET ok == reachable /\ equipped IN
       /\ Go(r, IF ok THEN "building" ELSE "ended")
       /\ flag' = [flag EXCEPT ![r] = ok /\ f /\ ReadsFlag(r)]
       /\ target' = [target EXCEPT ![r] = IF ok THEN TargetAtStart(r) ELSE None]
  /\ UNCHANGED <<env, saved>> /\ Offline

(* The transaction is built: a call runs its circuit on the contract's     *)
(* present state, and fails where an assert does.                          *)
Accepted(c) == Fresh(c) /\ batchStatuses[1] = "OPEN" /\ Fits(orderCount)

(* With no address in .env the script has one of its own, of a contract    *)
(* that is not followed here.                                              *)
Buildable(r) ==
  /\ target[r] \in deployed \cup {None}
  /\ target[r] = Home => Accepted(OrderOf[r])

BroadcastsBug(r) == Script[r] # "deploy"
Broadcasts(r) ==
  CASE Script[r] = "deploy" -> FALSE
    [] Script[r] = "deploy-final" -> flag[r]
    [] OTHER -> TRUE

(* A dry run ends with the proof, which deploy-final saves.  deploy.mjs    *)
(* ends here with the flag as well: the wallet is built for                *)
(* ZswapNetworkId.TestNet, a name that the script does not import, and the *)
(* error stops it.                                                         *)
AfterProof(r) == IF Broadcasts(r) THEN "sending" ELSE "ended"

Built(r) ==
  /\ at[r] = "building"
  /\ Go(r, AfterProof(r))
  /\ UNCHANGED <<flag, target, env>> /\ Offline

ProveFinal(r) ==
  /\ Script[r] \in {"deploy", "deploy-final"}
  /\ Built(r)
  /\ saved' = IF Script[r] = "deploy-final" THEN r ELSE saved

(* Against the Merkle trees of the moment.                                 *)
ProveSynced(r) ==
  /\ Script[r] = "deploy_synced"
  /\ Built(r) /\ UNCHANGED saved

(* Against the trees and the time of the last block.                       *)
ProveFixedTime(r) ==
  /\ Script[r] = "fixed_time"
  /\ Built(r) /\ UNCHANGED saved

ProveCall(r) ==
  /\ Script[r] = "lifecycle"
  /\ Buildable(r)
  /\ Built(r) /\ UNCHANGED saved

(* Any step before the broadcast may throw; nothing is tried again, and    *)
(* what the process knew is gone.                                          *)
GiveUp(r) ==
  /\ at[r] \in {"building", "sending"}
  /\ Go(r, "ended")
  /\ flag' = [flag EXCEPT ![r] = FALSE] /\ target' = [target EXCEPT ![r] = None]
  /\ UNCHANGED <<env, saved>> /\ Offline

---------------------------------------------------------------------------
(* The broadcast and the wait.                                             *)

(* The coin each script ends up with when it has replayed its events: the  *)
(* funding, the change of the first deployment, the change of the second.  *)
FundingCoin == 1
SyncedCoin == 2
FixedTimeCoin == 2
LifecycleCoin == 3

CoinOf(r) ==
  CASE Script[r] = "deploy_synced" -> SyncedCoin
    [] Script[r] = "fixed_time" -> FixedTimeCoin
    [] Script[r] = "lifecycle" -> LifecycleCoin
    [] OTHER -> FundingCoin

(* The node takes a transaction whose coin it knows and has not seen spent.*)
Taken(r) ==
  /\ coin = CoinOf(r)
  /\ pool' = pool \cup {r}

(* test_deploy_fixed_time.mjs prints the node's answer and ends.  The      *)
(* lifecycle script polls for the contract's state, which is there since   *)
(* the contract was deployed, and ends with CONFIRMED even when no poll    *)
(* was answered: what it saw of its order makes no difference.             *)
AfterSubmit(r) == IF Script[r] \in {"fixed_time", "lifecycle"} THEN "ended" ELSE "watching"

HandIn(r) ==
  /\ at[r] = "sending"
  /\ Taken(r)
  /\ submitted' = submitted \cup {r}
  /\ Go(r, AfterSubmit(r))
  /\ UNCHANGED <<vars, flag, target, env, saved, coin, deployed, resent, expired>>

(* Two scripts leave it to a wallet to submit; the other two put the       *)
(* extrinsic together, have the node validate it against its head and send *)
(* it.                                                                     *)
SubmitFinal(r) == Script[r] = "deploy-final" /\ HandIn(r)
SubmitSynced(r) == Script[r] = "deploy_synced" /\ HandIn(r)
SubmitFixedTime(r) == Script[r] = "fixed_time" /\ HandIn(r)
SubmitCall(r) == Script[r] = "lifecycle" /\ HandIn(r)

(* test_submit_proven.mjs, test_submit_bound.mjs and                       *)
(* test_direct_raw_extrinsic.mjs hand in whatever the last deploy-final    *)
(* saved, a dry run's proof too, and look no further.                      *)
Resubmit(r) ==
  /\ r = saved
  /\ Taken(r) /\ r \notin pool
  /\ resent' = resent \cup {r}
  /\ UNCHANGED <<vars, scripts, coin, deployed, submitted, expired>>

(* Inclusion spends the coin, whatever becomes of the call it pays for.    *)
Pays(r) ==
  /\ r \in pool /\ coin = CoinOf(r)
  /\ pool' = pool \ {r} /\ coin' = coin + 1

IncludeDeploy(r) ==
  /\ Pays(r) /\ Deploys(r)
  /\ deployed' = deployed \cup {r}
  /\ UNCHANGED <<vars, scripts, history>>

IncludeOrder(r) ==
  /\ Pays(r) /\ ~Deploys(r)
  /\ IF target[r] = Home /\ Accepted(OrderOf[r])
       THEN submitOrder(OrderOf[r], 1) ELSE UNCHANGED vars
  /\ UNCHANGED <<scripts, deployed, history>>

Drop(r) ==
  /\ r \in pool
  /\ pool' = pool \ {r}
  /\ UNCHANGED <<vars, scripts, coin, deployed, history>>

SeenBug(r) == r \in submitted
Seen(r) == r \in deployed

(* A deployment watches for its contract for three minutes.                *)
Watch(r) ==
  /\ at[r] = "watching"
  /\ Seen(r)
  /\ Go(r, "confirmed")
  /\ UNCHANGED <<flag, target, env, saved>> /\ Offline

Timeout(r) ==
  /\ at[r] = "watching"
  /\ Go(r, "confirmed")   \* it says so either way
  /\ expired' = expired \cup {r}
  /\ UNCHANGED <<vars, chain, flag, target, env, saved, submitted, resent>>

(* .env is given the contract's address, seen or not.                      *)
UpdateEnv(r) ==
  /\ at[r] = "confirmed"
  /\ env' = r
  /\ Go(r, "ended")
  /\ UNCHANGED <<flag, target, saved>> /\ Offline

---------------------------------------------------------------------------
(* Anyone may call the deployed contract at any time.                      *)
Call ==
  /\ Home \in deployed
  /\ Next
  /\ UNCHANGED <<scripts, chain, history>>

ScriptStep(r) ==
  \/ Start(r) \/ GiveUp(r)
  \/ ProveFinal(r) \/ ProveSynced(r) \/ ProveFixedTime(r) \/ ProveCall(r)
  \/ SubmitFinal(r) \/ SubmitSynced(r) \/ SubmitFixedTime(r) \/ SubmitCall(r)
  \/ Watch(r) \/ Timeout(r) \/ UpdateEnv(r)

DeployNext ==
  \/ \E r \in Run : ScriptStep(r) \/ IncludeDeploy(r) \/ IncludeOrder(r) \/ Drop(r) \/ Resubmit(r)
  \/ Call

DeploySpec == DeployInit /\ [][DeployNext]_deployVars

---------------------------------------------------------------------------
(* Properties.                                                             *)

DeployTypeOK ==
  /\ at \in [Run -> {"off", "building", "sending", "watching", "confirmed", "ended"}]
  /\ flag \in [Run -> BOOLEAN] /\ target \in [Run -> Run \cup {None}]
  /\ {env, saved} \subseteq Run \cup {None} /\ coin \in 1 .. 4
  /\ pool \subseteq submitted \cup resent /\ submitted \cup resent \subseteq Run
  /\ deployed \subseteq Run /\ expired \subseteq Run

(* The address in .env is one whose deployment was broadcast by the run    *)
(* that wrote it, never a dry run's or a failed run's prediction, and it   *)
(* is on the chain unless that run stopped waiting for it, however several *)
(* scripts run side by side.                                               *)
EnvWasBroadcast ==
  env # None => /\ env \in submitted
                /\ env \in deployed \/ env \in expired

(* The state stays in its types, at most one transaction is paid with a    *)
(* coin, and a dry run is never deployed unless somebody hands in the      *)
(* proof it saved: deploy-final needs --deploy, deploy.mjs never gets that *)
(* far.                                                                    *)
DryRun(r) == Script[r] = "deploy" \/ (Script[r] = "deploy-final" /\ ~flag[r])
DryRunsStayDry ==
  /\ DeployTypeOK
  /\ Cardinality(deployed) < coin
  /\ \A r \in Run : DryRun(r) => r \notin submitted /\ (r \in deployed => r \in resent)
=============================================================================
