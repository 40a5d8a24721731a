----------------------------- MODULE MidnightApp ----------------------------
(***************************************************************************)
(* The Midnight front end (frontend/midnight/provider.tsx, wallet.ts,      *)
(* batch.ts and the order form components/MidnightOrderSubmitter.tsx) in   *)
(* several tabs of one browser.  The tabs share localStorage; each has its *)
(* own React state and its own activeLaceApi.  JavaScript runs to the next *)
(* await without interruption, so an action is the code between two awaits *)
(* of one tab.                                                             *)
(*                                                                         *)
(* The Lace extension is external: it answers a call, or never does, and   *)
(* its balance moves by itself.  What an order trades is left out; what it *)
(* costs (fee and, for a purchase in tDUST, its amount) is Cost.  A read   *)
(* and the write that follows it are one step of the shared storage, as if *)
(* tabs took turns: browsers that run tabs in several processes need not.  *)
(***************************************************************************)
EXTENDS Integers, FiniteSetsExt, Functions

CONSTANTS
  Tab, Order, Absent,
  Cost,          \* tDUST deducted for an order
  Faucet,        \* DEFAULT_FAUCET_DUST
  Raw,           \* balances the extension can report
  LastBatch,     \* bound: batches that are sealed
  Methods,       \* ways the wallet can be asked to sign, tried in turn
  MaxMoves       \* bound: wallet connections, reloads and other clicks

Api == {"real", "simulated"}

ASSUME AppAssumption ==
  /\ Cost \in [Order -> Nat \ {0}] /\ Faucet \in Nat
  /\ Raw \subseteq Nat /\ IsFiniteSet(Raw)
  /\ Absent \notin Order \cup Api
  /\ LastBatch \in Nat \ {0} /\ Methods \in Nat \ {0} /\ MaxMoves \in Nat

Batch == 1 .. LastBatch + 1
Idle == [step |-> "idle", order |-> Absent, batch |-> 1, api |-> Absent, tries |-> 0]
Busy == {"connecting", "addressing", "signing", "sending", "unsigned", "proving",
         "submitting"}

VARIABLES
  \* localStorage
  stored, deducted, batchId, orders, simulated,
  \* each tab's React state and module state
  api, wallet, shown, batch, listed, form, connecting, polling, sealing,
  demo,      \* the balance a demo wallet was made with
  \* outside: the extension, and how much was clicked
  installed, moves,
  \* history
  reading,   \* the wallet balance stored was last computed from
  paid,      \* orders charged since the deductions were last cleared
  fate,      \* what became of an order
  home,      \* the batch its form was filled in for
  handed,    \* orders the wallet was told to submit
  declined,  \* orders the user declined at a prompt of the extension
  overruled  \* those of them the demo wallet was asked to sign instead

storage == <<stored, deducted, batchId, orders, simulated>>
refusals == <<declined, overruled>>
appHistory == <<reading, paid, fate, home, handed, refusals>>
appVars == <<storage, api, wallet, demo, shown, batch, listed, form, connecting, polling,
          sealing, installed, moves, appHistory>>

(* A tab before its first page load: the initial states of the provider.   *)
TabInit ==
  /\ api = [t \in Tab |-> Absent] /\ wallet = [t \in Tab |-> Absent]
  /\ shown = [t \in Tab |-> Faucet] /\ batch = [t \in Tab |-> 1]
  /\ listed = [t \in Tab |-> {}] /\ form = [t \in Tab |-> Idle]
  /\ connecting = [t \in Tab |-> Absent] /\ polling = [t \in Tab |-> Absent]
  /\ sealing = [t \in Tab |-> Absent] /\ demo = [t \in Tab |-> Faucet]

AppInit ==
  /\ stored = Faucet /\ deducted = 0 /\ batchId = 1 /\ simulated = FALSE
  /\ orders = [b \in Batch |-> {}]
  /\ TabInit
  /\ installed \in BOOLEAN /\ moves = 0
  /\ reading = Absent /\ paid = {} /\ handed = {} /\ declined = {} /\ overruled = {}
  /\ fate = [o \in Order |-> "new"] /\ home = [o \in Order |-> Absent]

Click == moves < MaxMoves /\ moves' = moves + 1

---------------------------------------------------------------------------
(* The stored balance.                                                     *)

Positive(n) == IF n > 0 THEN n ELSE 0

(* What the wallet reports less every order deduction on record.           *)
NetBug(raw) == raw
Net(raw) == Positive(raw - deducted)

ApplyNetLiveBalance(raw) ==
  /\ stored' = Net(raw)
  /\ reading' = raw

DeductedBug(o) == deducted
Deducted(o) == deducted + Cost[o]

RecordOrderDeduction(o) ==
  /\ deducted' = Deducted(o)
  /\ stored' = Positive(stored - Cost[o])
  /\ paid' = paid \cup {o}

(* A poll of the wallet's balance is answered: storage is written whether  *)
(* or not the tab still wants to know.                                     *)
StartPoll(t) ==
  /\ wallet[t] = "real" /\ polling[t] = Absent
  /\ Click
  /\ polling' = [polling EXCEPT ![t] = "wanted"]
  /\ UNCHANGED <<storage, api, wallet, demo, shown, batch, listed, form, connecting,
                 sealing, installed, appHistory>>

EndPoll(t) ==
  /\ polling[t] # Absent
  /\ polling' = [polling EXCEPT ![t] = Absent]
  /\ \/ \E raw \in Raw :
          /\ ApplyNetLiveBalance(raw)
          /\ shown' = IF polling[t] \in {"wanted", "pressed"} THEN [shown EXCEPT ![t] = Net(raw)]
                                               ELSE shown
     \/ UNCHANGED <<stored, reading, shown>>
  /\ UNCHANGED <<deducted, batchId, orders, simulated, api, wallet, demo, batch, listed, form,
                 connecting, sealing, installed, moves, paid, fate, home, handed, refusals>>

(* The button that reads the balance again shows it whatever happens       *)
(* meanwhile.  A demo wallet answers at once, with the balance it was made *)
(* with, of which earlier orders are already deducted.                     *)
Sync(t) ==
  /\ wallet[t] = "real" /\ polling[t] = Absent
  /\ Click
  /\ polling' = [polling EXCEPT ![t] = "pressed"]
  /\ UNCHANGED <<storage, api, wallet, demo, shown, batch, listed, form, connecting,
                 sealing, installed, appHistory>>

SyncDemo(t) ==
  /\ wallet[t] = "simulated"
  /\ Click
  /\ ApplyNetLiveBalance(demo[t])
  /\ shown' = [shown EXCEPT ![t] = Net(demo[t])]
  /\ UNCHANGED <<deducted, batchId, orders, simulated, api, wallet, demo, batch, listed,
                 form, connecting, polling, sealing, installed, paid, fate, home, handed,
                 refusals>>

(* The faucet button opens the faucet's page and refills at once, for any  *)
(* wallet.                                                                 *)
Refill(t) ==
  /\ Click
  /\ deducted' = 0 /\ stored' = Faucet
  /\ shown' = [shown EXCEPT ![t] = Faucet]
  /\ reading' = Absent /\ paid' = {}
  /\ UNCHANGED <<batchId, orders, simulated, api, wallet, demo, batch, listed, form, connecting,
                 polling, sealing, installed, fate, home, handed, refusals>>

---------------------------------------------------------------------------
(* Connecting.  connectLace sets activeLaceApi as soon as the user agrees  *)
(* and goes on asking for addresses and the balance; React hears of it at  *)
(* the end.                                                                *)

(* Effects of replacing the wallet React knows: a poll for the old one is  *)
(* no longer wanted.                                                       *)
Wallet(t, w) ==
  /\ wallet' = [wallet EXCEPT ![t] = w]
  /\ polling' = IF polling[t] = "wanted" THEN [polling EXCEPT ![t] = "cancelled"] ELSE polling

ConnectWallet(t) ==
  /\ installed /\ connecting[t] = Absent
  /\ Click
  /\ connecting' = [connecting EXCEPT ![t] = "asked"]
  /\ UNCHANGED <<storage, api, wallet, demo, shown, batch, listed, form, polling, sealing,
                 installed, appHistory>>

Granted(t) ==
  /\ connecting[t] = "asked"
  /\ connecting' = [connecting EXCEPT ![t] = "granted"]
  /\ api' = [api EXCEPT ![t] = "real"]
  /\ UNCHANGED <<storage, wallet, demo, shown, batch, listed, form, polling, sealing, installed,
                 moves, appHistory>>

Refused(t) ==
  /\ connecting[t] = "asked"
  /\ connecting' = [connecting EXCEPT ![t] = Absent]
  /\ Wallet(t, Absent)
  /\ UNCHANGED <<storage, api, demo, shown, batch, listed, form, sealing, installed,
                 moves, appHistory>>

(* The balance is read, or the stored one is taken when it cannot be.      *)
ReadBalance ==
  \/ \E raw \in Raw : ApplyNetLiveBalance(raw)
  \/ UNCHANGED <<stored, reading>>

Connected(t) ==
  /\ connecting[t] = "granted"
  /\ connecting' = [connecting EXCEPT ![t] = Absent]
  /\ ReadBalance
  /\ simulated' = FALSE
  /\ Wallet(t, "real")
  /\ shown' = [shown EXCEPT ![t] = stored']
  /\ UNCHANGED <<deducted, batchId, orders, api, demo, batch, listed, form, sealing,
                 installed, moves, paid, fate, home, handed, refusals>>

ConnectSimulatedLace(t) ==
  /\ Click
  /\ api' = [api EXCEPT ![t] = "simulated"]
  /\ demo' = [demo EXCEPT ![t] = stored]
  /\ simulated' = TRUE
  /\ Wallet(t, "simulated")
  /\ shown' = [shown EXCEPT ![t] = stored]
  /\ UNCHANGED <<stored, deducted, batchId, orders, batch, listed, form, connecting,
                 sealing, installed, appHistory>>

DisconnectLace(t) ==
  /\ wallet[t] # Absent
  /\ Click
  /\ api' = [api EXCEPT ![t] = Absent]
  /\ simulated' = FALSE
  /\ Wallet(t, Absent)
  /\ UNCHANGED <<stored, deducted, batchId, orders, demo, shown, batch, listed, form,
                 connecting, sealing, installed, appHistory>>

(* A page load.  A demo wallet comes back by itself, a real one after the  *)
(* extension is asked; what the tab was waiting for is lost.               *)
Mount(t) ==
  /\ Click
  /\ form' = [form EXCEPT ![t] = Idle]
  /\ fate' = [o \in Order |->
       IF form[t].order = o /\ fate[o] \in {"open", "charged"} THEN "lost" ELSE fate[o]]
  /\ polling' = [polling EXCEPT ![t] = Absent]
  /\ sealing' = [sealing EXCEPT ![t] = Absent]
  /\ shown' = [shown EXCEPT ![t] = stored]
  /\ batch' = [batch EXCEPT ![t] = batchId]
  /\ listed' = [listed EXCEPT ![t] = orders[batchId]]
  /\ api' = [api EXCEPT ![t] = IF simulated THEN "simulated" ELSE Absent]
  /\ wallet' = [wallet EXCEPT ![t] = IF simulated THEN "simulated" ELSE Absent]
  /\ demo' = IF simulated THEN [demo EXCEPT ![t] = stored] ELSE demo
  /\ connecting' = [connecting EXCEPT ![t] = IF ~simulated /\ installed THEN "asked" ELSE Absent]
  /\ UNCHANGED <<storage, installed, reading, paid, home, handed, refusals>>

(* The extension is injected late.                                         *)
Inject ==
  /\ ~installed
  /\ installed' = TRUE
  /\ UNCHANGED <<storage, api, wallet, demo, shown, batch, listed, form, connecting, polling,
                 sealing, moves, appHistory>>

---------------------------------------------------------------------------
(* The order form.  Its button is disabled while an order is under way, so *)
(* a tab has one at a time.                                                *)

To(t, step) == [form EXCEPT ![t].step = step]

Signing(t, a, n) ==
  [step |-> "signing", order |-> form[t].order, batch |-> form[t].batch, api |-> a, tries |-> n]

Free(t) == form[t].step \in {"idle", "confirmed"}

(* The order's deduction is compared with the balance last rendered.  With *)
(* no real API while the extension is there, signOrderWithLace connects.   *)
HandleSubmit(t, o) ==
  /\ Free(t) /\ fate[o] = "new"
  /\ wallet[t] # Absent
  /\ Cost[o] <= shown[t]
  /\ LET first == IF api[t] # "real" /\ installed THEN "connecting" ELSE "signing"
     IN  form' = [form EXCEPT ![t] = [step |-> first, order |-> o, batch |-> batch[t],
                                      api |-> api[t], tries |-> 0]]
  /\ fate' = [fate EXCEPT ![o] = "open"]
  /\ home' = [home EXCEPT ![o] = batch[t]]
  /\ UNCHANGED <<storage, api, wallet, demo, shown, batch, listed, connecting, polling, sealing,
                 installed, moves, reading, paid, handed, refusals>>

(* A refused connection leaves the API what it was, and signing goes on    *)
(* with that: with a demo wallet, it goes on without the user's consent.   *)
SignConnects(t) ==
  /\ form[t].step = "connecting"
  /\ \/ /\ form' = To(t, "addressing")
        /\ api' = [api EXCEPT ![t] = "real"]
        /\ UNCHANGED refusals
     \/ /\ form' = To(t, "signing")
        /\ declined' = declined \cup {form[t].order}
        /\ overruled' = IF form[t].api = "simulated" THEN overruled \cup {form[t].order}
                                                   ELSE overruled
        /\ api' = api
  /\ UNCHANGED <<storage, wallet, demo, shown, batch, listed, connecting, polling, sealing,
                 installed, moves, reading, paid, fate, home, handed>>

(* The end of connectLace inside signOrderWithLace: React does not hear.   *)
SignConnected(t) ==
  /\ form[t].step = "addressing"
  /\ ReadBalance
  /\ simulated' = FALSE
  /\ api' = [api EXCEPT ![t] = "real"]
  /\ form' = [form EXCEPT ![t] = Signing(t, "real", 0)]
  /\ UNCHANGED <<deducted, batchId, orders, wallet, demo, shown, batch, listed, connecting,
                 polling, sealing, installed, moves, paid, fate, home, handed, refusals>>

(* The form gives up: nothing it did is taken back.                        *)
Fail(t, why) ==
  /\ form' = To(t, "idle")
  /\ fate' = [fate EXCEPT ![form[t].order] = why]
  /\ UNCHANGED <<stored, deducted, shown, reading, paid>>

Charge(t) ==
  LET o == form[t].order IN
  /\ RecordOrderDeduction(o)
  /\ shown' = [shown EXCEPT ![t] = stored']
  /\ form' = To(t, "proving")
  /\ fate' = [fate EXCEPT ![o] = "charged"]
  /\ UNCHANGED reading

NoApi(t) ==
  /\ form[t].step = "signing" /\ form[t].api = Absent
  /\ Fail(t, "failed")
  /\ UNCHANGED <<batchId, orders, simulated, api, wallet, demo, batch, listed, connecting,
                 polling, sealing, installed, moves, home, handed, refusals>>

(* The demo wallet, when no extension is there, waits and agrees.          *)
SignDemo(t) ==
  /\ form[t].step = "signing" /\ form[t].api = "simulated" /\ ~installed
  /\ Charge(t)
  /\ UNCHANGED <<batchId, orders, simulated, api, wallet, demo, batch, listed, connecting,
                 polling, sealing, installed, moves, home, handed, refusals>>

(* The user declines: no other way of signing is tried, nothing is sent.   *)
AfterDeclineBug(t) == To(t, "sending")
AfterDecline(t) == To(t, "idle")

(* Each method the wallet has is tried until one returns a signature or    *)
(* the user declines.  The demo wallet's signData always agrees.           *)
Sign(t) ==
  /\ form[t].step = "signing" /\ form[t].api # Absent
  /\ form[t].api = "simulated" => installed
  /\ \/ /\ form' = To(t, "sending")   \* signed
        /\ UNCHANGED <<fate, declined>>
     \/ /\ form[t].api = "real"
        /\ form' = AfterDecline(t)
        /\ fate' = [fate EXCEPT ![form[t].order] = "declined"]
        /\ declined' = declined \cup {form[t].order}
     \/ /\ form[t].api = "real"       \* no signature this way
        /\ form' = IF form[t].tries + 1 < Methods
                     THEN [form EXCEPT ![t] = Signing(t, "real", form[t].tries + 1)]
                     ELSE To(t, "unsigned")
        /\ UNCHANGED <<fate, declined>>
  /\ UNCHANGED <<storage, api, wallet, demo, shown, batch, listed, connecting, polling, sealing,
                 installed, moves, reading, paid, home, handed, overruled>>

(* The wallet is told to submit the transaction before the signature is    *)
(* looked at; without one a real wallet's order fails.                     *)
Send(t) ==
  /\ form[t].step \in {"sending", "unsigned"}
  /\ handed' = IF form[t].api = "real" THEN handed \cup {form[t].order} ELSE handed
  /\ IF form[t].step = "unsigned" THEN Fail(t, "failed") ELSE Charge(t)
  /\ UNCHANGED <<batchId, orders, simulated, api, wallet, demo, batch, listed, connecting,
                 polling, sealing, installed, moves, home, refusals>>

(* The proof and the transaction are two timers.                           *)
Prove(t) ==
  /\ form[t].step = "proving"
  /\ form' = To(t, "submitting")
  /\ UNCHANGED <<storage, api, wallet, demo, shown, batch, listed, connecting, polling, sealing,
                 installed, moves, appHistory>>

(* The list of a batch is read from storage again for every order added.   *)
ListedBug(t, b, o) == listed[t] \cup {o}
Listed(t, b, o) == orders[b] \cup {o}

(* The order goes on the list of the batch the form was rendered with.     *)
Confirm(t) ==
  LET o == form[t].order
      b == form[t].batch IN
  /\ form[t].step = "submitting"
  /\ orders' = [orders EXCEPT ![b] = Listed(t, b, o)]
  /\ listed' = [listed EXCEPT ![t] = orders'[b]]
  /\ form' = To(t, "confirmed")
  /\ fate' = [fate EXCEPT ![o] = "confirmed"]
  /\ UNCHANGED <<stored, deducted, batchId, simulated, api, wallet, demo, shown, batch,
                 connecting, polling, sealing, installed, moves, reading, paid, home, handed,
                 refusals>>

---------------------------------------------------------------------------
(* Sealing a batch: the button waits, then acts on the number it was       *)
(* rendered with and stores the next, whatever other tabs have stored.     *)

PressClose(t) ==
  /\ sealing[t] = Absent /\ batch[t] <= LastBatch
  /\ Click
  /\ sealing' = [sealing EXCEPT ![t] = batch[t]]
  /\ UNCHANGED <<storage, api, wallet, demo, shown, batch, listed, form, connecting, polling,
                 installed, appHistory>>

HandleCloseBatch(t) ==
  /\ sealing[t] # Absent
  /\ sealing' = [sealing EXCEPT ![t] = Absent]
  /\ batchId' = sealing[t] + 1
  /\ batch' = [batch EXCEPT ![t] = sealing[t] + 1]
  /\ listed' = [listed EXCEPT ![t] = orders[sealing[t] + 1]]
  /\ UNCHANGED <<stored, deducted, orders, simulated, api, wallet, demo, shown, form, connecting,
                 polling, installed, moves, appHistory>>

---------------------------------------------------------------------------
FormStep(t) ==
  \/ \E o \in Order : HandleSubmit(t, o)
  \/ SignConnects(t) \/ SignConnected(t) \/ NoApi(t) \/ SignDemo(t) \/ Sign(t)
  \/ Send(t) \/ Prove(t) \/ Confirm(t)

WalletStep(t) ==
  \/ ConnectWallet(t) \/ Granted(t) \/ Refused(t) \/ Connected(t)
  \/ ConnectSimulatedLace(t) \/ DisconnectLace(t) \/ Mount(t)
  \/ StartPoll(t) \/ EndPoll(t) \/ Sync(t) \/ SyncDemo(t) \/ Refill(t)

AppNext ==
  \/ \E t \in Tab :
       FormStep(t) \/ WalletStep(t) \/ PressClose(t) \/ HandleCloseBatch(t)
  \/ Inject

AppSpec == AppInit /\ [][AppNext]_appVars

---------------------------------------------------------------------------
(* Properties.                                                             *)

Top == Max(Raw \cup {Faucet})

AppTypeOK ==
  /\ stored \in 0 .. Top /\ deducted \in Nat /\ simulated \in BOOLEAN
  /\ batchId \in Batch /\ orders \in [Batch -> SUBSET Order]
  /\ api \in [Tab -> Api \cup {Absent}] /\ wallet \in [Tab -> Api \cup {Absent}]
  /\ shown \in [Tab -> 0 .. Top] /\ demo \in [Tab -> 0 .. Top] /\ batch \in [Tab -> Batch]
  /\ listed \in [Tab -> SUBSET Order]
  /\ form \in [Tab -> [step : Busy \cup {"idle", "confirmed"}, order : Order \cup {Absent},
                       batch : Batch, api : Api \cup {Absent}, tries : 0 .. Methods]]
  /\ connecting \in [Tab -> {Absent, "asked", "granted"}]
  /\ polling \in [Tab -> {Absent, "wanted", "cancelled", "pressed"}]
  /\ sealing \in [Tab -> Batch \cup {Absent}]
  /\ installed \in BOOLEAN /\ moves \in 0 .. MaxMoves

(* However orders of several tabs, late answers to balance polls and       *)
(* reconnections interleave, the stored balance is the one the wallet last *)
(* reported less all deductions, none counted twice or dropped, until the  *)
(* faucet button starts afresh.                                            *)
NetOfOrders == reading # Absent => stored = Positive(reading - deducted)

(* The state stays in its types, and                                       *)
(* the deductions on record are those of the orders that were charged, in  *)
(* any tab, and only a charged order is ever on a batch's list.            *)
PaidOnce ==
  /\ AppTypeOK
  /\ deducted = SumFunctionOnSet(Cost, paid)
  /\ \A b \in Batch : \A o \in orders[b] : fate[o] = "confirmed"
  /\ \A o \in paid : fate[o] \in {"charged", "confirmed", "lost"}

(* An order reported as registered stays on the list of the batch it was   *)
(* entered for, and on no other, though tabs add to the same lists, close  *)
(* batches and look at different ones.                                     *)
OrdersKept ==
  \A o \in Order : fate[o] = "confirmed" => {b \in Batch : o \in orders[b]} = {home[o]}

(* An order the user declined at a prompt of the extension, be it for the  *)
(* connection or for a signature, is never handed to the extension, and it *)
(* is charged or listed only when a demo wallet was there to be asked      *)
(* instead: a refused connection falls through to it (wallet.ts:463-472),  *)
(* it signs, and the form reports the order as approved.                   *)
DeclineIsFinal ==
  \A o \in declined :
    /\ o \notin handed
    /\ o \in overruled \/ (o \notin paid /\ \A b \in Batch : o \notin orders[b])
=============================================================================
