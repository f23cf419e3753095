------------------------------- MODULE RouteRun -------------------------------
(***************************************************************************)
(* The private route, driven by the pages that hold one link: lib/         *)
(* routeRun.ts over multihop.ts and multihopFlow.ts, inside MultihopTracker*)
(* and RouteResume, found again by lib/resume.ts.                          *)
(*                                                                         *)
(* The money is three pieces: the gift, the SOL bought for the route's     *)
(* costs, and the rent the keeper returns late.  Amounts and fees are left *)
(* out.  The swap, MultiHopper and Solana are external.  Every page of the *)
(* link has the same router key and the same externalId.                   *)
(***************************************************************************)
EXTENDS Integers, FiniteSets

CONSTANTS Tabs,       \* pages that hold the link
          First,      \* the page that swept the envelope into the swap
          Wallets,    \* wallets a recipient may name
          Told,       \* the wallet the first page was told
          NoOne,      \* no wallet chosen yet
          Gift,       \* what the gift was swapped into: "usdc" or "sol"
          Steps,      \* transactions of a route; the first funds the keeper
          MaxAttempts,  \* maxAttempts of runBroadcast
          MaxSweeps,    \* MAX_LEFTOVER_SWEEPS
          MaxLooks,     \* looks of finishRoute after the first (bound)
          MaxCloses,    \* times a page is closed or reloaded (bound)
          MaxFaults,    \* requests that fail (bound)
          TakesGas,     \* MultiHopper estimates a route of the costs alone
          MayExpire     \* MultiHopper expires a quote nobody signed

ASSUME RouteAssumption ==
  /\ First \in Tabs /\ Told \in Wallets /\ NoOne \notin Wallets
  /\ Wallets \cap {"swap", "router", "route"} = {}
  /\ Gift \in {"usdc", "sol"}
  /\ Steps \in Nat \ {0} /\ MaxAttempts \in Nat \ {0}
  /\ MaxSweeps \in Nat /\ MaxLooks \in Nat
  /\ MaxCloses \in Nat /\ MaxFaults \in Nat
  /\ TakesGas \in BOOLEAN /\ MayExpire \in BOOLEAN

VARIABLES at,       \* at[p]: where piece p of the money is
          mh,       \* the transfer MultiHopper has under the externalId
          landed,   \* the route's transactions that are on chain
          strays,   \* transactions sent that no page waits for any more
          pc,       \* pc[t]: where runRoute has come to in page t
          to,       \* to[t]: the wallet the page was told
          known,    \* known[t]: the page knows the gift's asset
          want,     \* want[t]: the asset the run is about to create with
          plan,     \* plan[t]: what the last prepare still asks for
          copy,     \* copy[t]: the transaction the page waits for
          attempt,  \* attempt[t]: prepares of this runBroadcast so far
          view,     \* view[t]: the status of the transfer last reported
          screen,   \* screen[t]: the phase of mhReducer
          arrived,  \* arrived[t]: the page says "In your wallet"
          looks, sweeps,  \* counters of finishRoute
          refund,   \* refund[t]: the state of the "Send to my wallet" button
          closes, faults

moneyVars == <<at, mh, landed, strays>>
runVars   == <<pc, want, plan, copy, attempt>>
pageVars  == <<to, known, view, screen, arrived, refund>>
leftVars  == <<looks, sweeps>>
capVars   == <<closes, faults>>
vars == <<moneyVars, runVars, pageVars, leftVars, capVars>>

Pieces == {"gift", "gas", "rent"}
Places == {"swap", "router", "route"} \cup Wallets
Assets == {"usdc", "sol"}
Txs    == 1 .. Steps
Keeper == 1

Statuses == {"unsigned", "active", "completed", "refunded", "expired"}
NoTransfer == [status |-> "none", asset |-> "sol", to |-> NoOne]

Pcs == {"away", "ask", "lookup", "fund", "create", "prepare", "send", "confirm",
        "keeper", "report", "watch", "look", "tokens", "sol", "over"}
Screens == {"waiting", "signing", "routing", "done", "refunded", "failed"}

Fault == faults < MaxFaults /\ faults' = faults + 1

(***************************************************************************)
(* The router wallet and the transfer.                                     *)
(***************************************************************************)
InRouter == {p \in Pieces : at[p] = "router"}

SolPieces == {"gas", "rent"} \cup (IF Gift = "sol" THEN {"gift"} ELSE {})

HandOver(S, w) ==
  at' = [p \in Pieces |-> IF p \in S \cap InRouter THEN w ELSE at[p]]

\* The piece a transfer of this asset carries.
Carried(asset) == IF asset = Gift THEN "gift" ELSE "gas"

\* The last transaction of the route takes what the transfer carries.
Carry(more) ==
  /\ landed' = landed \cup more
  /\ at' = IF landed' = Txs /\ landed # Txs
             THEN [at EXCEPT ![Carried(mh.asset)] = "route"] ELSE at

AnswerOf(x) == IF x \in landed /\ x # Keeper THEN "failed" ELSE "landed"

InferAsset == IF Gift = "usdc" /\ "gift" \in InRouter THEN "usdc" ELSE "sol"

AssetOf(t) == IF known[t] THEN Gift ELSE InferAsset

\* planRoute makes a plan and fundingReached holds of it.
FundingReached(asset) ==
  /\ "gas" \in InRouter
  /\ IF asset = Gift THEN "gift" \in InRouter ELSE TakesGas

\* "processing" taken for a route under way.
PhaseForProcessing(status) ==
  CASE status = "completed" -> "done"
    [] status = "refunded"  -> "refunded"
    [] status = "expired"   -> "failed"
    [] OTHER                -> "routing"

PhaseFor(status) ==
  CASE status = "completed" -> "done"
    [] status = "refunded"  -> "refunded"
    [] status = "expired"   -> "failed"
    [] status = "active"    -> "routing"
    [] OTHER                -> "signing"

\* finishRoute as soon as the route is under way.
NextPcEarly(phase) ==
  CASE phase = "signing" -> "prepare"
    [] phase = "routing" -> "look"
    [] phase = "done"    -> "look"
    [] OTHER             -> "over"

\* Where the loop of phase B goes with a transfer in this phase.
NextPc(phase) ==
  CASE phase = "signing" -> "prepare"
    [] phase = "routing" -> "watch"
    [] phase = "done"    -> "look"
    [] OTHER             -> "over"

\* The wallet this page was told comes first.
PayToTold(t) == IF to[t] # NoOne THEN to[t] ELSE mh.to

\* finishRoute and sendBack pay the wallet of the transfer.
PayTo(t) == IF mh.status # "none" THEN mh.to ELSE to[t]

PayBackTo(t) == IF view[t] # "none" THEN mh.to ELSE to[t]

(***************************************************************************)
(* Moves of runRoute in page t.                                            *)
(***************************************************************************)
Go(t, label) == pc' = [pc EXCEPT ![t] = label]

\* An exception that reaches the catch of runRoute.
Fail(t) ==
  /\ Go(t, "over")
  /\ screen' = [screen EXCEPT ![t] = "failed"]
  /\ plan' = [plan EXCEPT ![t] = {}]
  /\ copy' = [copy EXCEPT ![t] = "none"]
  /\ UNCHANGED <<want, attempt, to, known, view, arrived, refund, leftVars>>

\* An expired blockhash or MH_041: prepare again, at most MaxAttempts times.
Again(t) ==
  IF attempt[t] + 1 < MaxAttempts
    THEN /\ Go(t, "prepare")
         /\ attempt' = [attempt EXCEPT ![t] = @ + 1]
         /\ plan' = [plan EXCEPT ![t] = {}]
         /\ copy' = [copy EXCEPT ![t] = "none"]
         /\ UNCHANGED <<want, pageVars, leftVars>>
    ELSE Fail(t)

\* "created", "broadcast" or "polled" with the transfer in this status.
Report(t, status) ==
  LET phase == PhaseFor(status) IN
  /\ view' = [view EXCEPT ![t] = status]
  /\ screen' = [screen EXCEPT ![t] = IF @ \in {"done", "refunded"} THEN @ ELSE phase]
  /\ Go(t, NextPc(phase))
  /\ attempt' = [attempt EXCEPT ![t] = 0]
  /\ plan' = [plan EXCEPT ![t] = {}]
  /\ arrived' = [arrived EXCEPT ![t] = @ \/ phase = "done"]
  /\ UNCHANGED <<want, copy, to, known, refund, leftVars>>

Lookup(t) ==
  /\ pc[t] = "lookup"
  /\ IF mh.status = "none"
       THEN /\ Go(t, "fund")
            /\ UNCHANGED <<want, plan, copy, attempt, pageVars, leftVars>>
       ELSE Report(t, mh.status)
  /\ UNCHANGED <<moneyVars, capVars>>

\* The poll of phase A that ends it; every other one changes nothing.
FundingSeen(t) ==
  /\ pc[t] = "fund"
  /\ FundingReached(AssetOf(t))
  /\ want' = [want EXCEPT ![t] = AssetOf(t)]
  /\ Go(t, "create")
  /\ UNCHANGED <<moneyVars, plan, copy, attempt, pageVars, leftVars, capVars>>

\* One transfer per externalId: a second create answers with the first.
CreateOnce(t) ==
  mh' = IF mh.status = "none"
          THEN [status |-> "unsigned", asset |-> want[t], to |-> to[t]] ELSE mh

Create(t) ==
  /\ pc[t] = "create"
  /\ CreateOnce(t)
  /\ Go(t, "prepare")
  /\ attempt' = [attempt EXCEPT ![t] = 0]
  /\ UNCHANGED <<at, landed, strays, want, plan, copy, pageVars, leftVars, capVars>>

\* The answer to create is lost, not the transfer.
CreateLost(t) ==
  /\ pc[t] = "create"
  /\ Fault
  /\ CreateOnce(t)
  /\ Fail(t)
  /\ UNCHANGED <<at, landed, strays, closes>>

Prepare(t) ==
  /\ pc[t] = "prepare"
  /\ IF mh.status = "unsigned" /\ landed # Txs
       THEN /\ plan' = [plan EXCEPT ![t] = Txs \ landed]
            /\ Go(t, "send")
            /\ UNCHANGED <<want, copy, attempt, pageVars, leftVars>>
       ELSE Report(t, mh.status)
  /\ UNCHANGED <<moneyVars, capVars>>

\* Nothing is prepared for a transfer that has come to a bad end.
PrepareRefused(t) ==
  /\ pc[t] = "prepare"
  /\ mh.status \in {"refunded", "expired"}
  /\ Fail(t)
  /\ UNCHANGED <<moneyVars, capVars>>

NextTx(t) == CHOOSE x \in plan[t] : \A y \in plan[t] : x <= y

\* The preflight turns down an initialisation that is on chain already.
Send(t) ==
  /\ pc[t] = "send"
  /\ IF AnswerOf(NextTx(t)) = "failed"
       THEN Fail(t)
       ELSE /\ copy' = [copy EXCEPT ![t] = "flying"]
            /\ Go(t, "confirm")
            /\ UNCHANGED <<want, plan, attempt, pageVars, leftVars>>
  /\ UNCHANGED <<moneyVars, capVars>>

Confirmed(t) ==
  /\ pc[t] = "confirm"
  /\ copy[t] = "landed"
  /\ plan' = [plan EXCEPT ![t] = @ \ {NextTx(t)}]
  /\ copy' = [copy EXCEPT ![t] = "none"]
  /\ Go(t, IF NextTx(t) = Keeper THEN "keeper"
           ELSE IF plan'[t] = {} THEN "report" ELSE "send")
  /\ UNCHANGED <<moneyVars, want, attempt, pageVars, leftVars, capVars>>

TxFailed(t) ==
  /\ pc[t] = "confirm"
  /\ copy[t] = "failed"
  /\ Fail(t)
  /\ UNCHANGED <<moneyVars, capVars>>

\* A transaction nobody waits for may still land.
Stray(t) ==
  strays' = IF copy[t] = "flying" THEN strays \cup {NextTx(t)} ELSE strays

ConfirmTimesOut(t) ==
  /\ pc[t] = "confirm"
  /\ copy[t] = "flying"
  /\ Fault
  /\ Stray(t)
  /\ Again(t)
  /\ UNCHANGED <<at, mh, landed, closes>>

KeeperReported(t) ==
  /\ pc[t] = "keeper"
  /\ Go(t, IF plan[t] = {} THEN "report" ELSE "send")
  /\ UNCHANGED <<moneyVars, want, plan, copy, attempt, pageVars, leftVars, capVars>>

\* confirmBroadcast: MultiHopper has every signature and takes over.
TakeOver ==
  mh' = IF mh.status = "unsigned" /\ landed = Txs THEN [mh EXCEPT !.status = "active"] ELSE mh

Reported(t) ==
  /\ pc[t] = "report"
  /\ TakeOver
  /\ Report(t, mh'.status)
  /\ UNCHANGED <<at, landed, strays, capVars>>

Poll(t) ==
  /\ pc[t] = "watch"
  /\ Report(t, mh.status)
  /\ UNCHANGED <<moneyVars, capVars>>

\* "Blockhash not found" or MH_041 from a request of runBroadcast.
Stale(t) ==
  /\ pc[t] \in {"send", "keeper", "report"}
  /\ Fault
  /\ Again(t)
  /\ UNCHANGED <<moneyVars, closes>>

\* Any other error of a request whose exception runRoute catches; of a poll, only
\* a refusal (403).
RequestFails(t) ==
  /\ pc[t] \in {"lookup", "create", "prepare", "send", "confirm", "keeper", "report",
               "watch"}
  /\ Fault
  /\ Stray(t)
  /\ Fail(t)
  /\ UNCHANGED <<at, mh, landed, closes>>

(***************************************************************************)
(* finishRoute, and the "Send to my wallet" button of a refund.            *)
(***************************************************************************)
EmptyFrom == IF mh.asset = "usdc" THEN "tokens" ELSE "sol"

WorthASweep(t) ==
  SolPieces \cap InRouter # {} \/ (looks[t] = 0 /\ mh.asset = "usdc")

NextLook(t) == looks' = [looks EXCEPT ![t] = @ + 1]

\* One look too many.
LookOnceMore(t) ==
  /\ pc[t] = "look"
  /\ IF looks[t] > MaxLooks + 1 \/ sweeps[t] = MaxSweeps
       THEN Go(t, "over") /\ UNCHANGED looks
       ELSE IF WorthASweep(t) THEN Go(t, EmptyFrom) /\ UNCHANGED looks
                              ELSE NextLook(t) /\ UNCHANGED pc
  /\ UNCHANGED <<moneyVars, want, plan, copy, attempt, pageVars, sweeps, capVars>>

Look(t) ==
  /\ pc[t] = "look"
  /\ IF looks[t] > MaxLooks \/ sweeps[t] = MaxSweeps
       THEN Go(t, "over") /\ UNCHANGED looks
       ELSE IF WorthASweep(t) THEN Go(t, EmptyFrom) /\ UNCHANGED looks
                              ELSE NextLook(t) /\ UNCHANGED pc
  /\ UNCHANGED <<moneyVars, want, plan, copy, attempt, pageVars, sweeps, capVars>>

\* A balance that cannot be read counts as nothing to sweep.
LookFails(t) ==
  /\ pc[t] = "look" /\ looks[t] <= MaxLooks /\ sweeps[t] < MaxSweeps
  /\ looks[t] > 0 \/ mh.asset # "usdc"
  /\ Fault
  /\ NextLook(t)
  /\ UNCHANGED <<moneyVars, runVars, pageVars, sweeps, closes>>

\* sendBack: emptyRouter with what the page knows of the transfer.
SendBack(t) ==
  /\ pc[t] = "over" /\ screen[t] = "refunded"
  /\ refund[t] \in {"idle", "failed"}
  /\ refund' = [refund EXCEPT ![t] = "sending"]
  /\ Go(t, EmptyFrom)
  /\ UNCHANGED <<moneyVars, want, plan, copy, attempt, to, known, view, screen,
                 arrived, leftVars, capVars>>

Payee(t) == IF refund[t] = "sending" THEN PayBackTo(t) ELSE PayTo(t)

Empties(t) ==
  IF pc[t] = "tokens" THEN HandOver(Pieces \ SolPieces, Payee(t))
                      ELSE HandOver(SolPieces, Payee(t))

EmptyTokens(t) ==
  /\ pc[t] = "tokens"
  /\ Empties(t)
  /\ Go(t, "sol")
  /\ UNCHANGED <<mh, landed, strays, want, plan, copy, attempt, pageVars, leftVars, capVars>>

\* "Sent to your wallet." whatever came of it.
EmptiedAnyway(t, ok) ==
  IF refund[t] = "sending"
    THEN /\ refund' = [refund EXCEPT ![t] = "done"]
         /\ Go(t, "over")
         /\ UNCHANGED <<looks, sweeps>>
    ELSE /\ sweeps' = [sweeps EXCEPT ![t] = @ + 1]
         /\ NextLook(t)
         /\ Go(t, "look")
         /\ UNCHANGED refund

\* The run goes back to watching, a refund is over.
Emptied(t, ok) ==
  IF refund[t] = "sending"
    THEN /\ refund' = [refund EXCEPT ![t] = IF ok THEN "done" ELSE "failed"]
         /\ Go(t, "over")
         /\ UNCHANGED <<looks, sweeps>>
    ELSE /\ sweeps' = [sweeps EXCEPT ![t] = IF ok THEN @ + 1 ELSE @]
         /\ NextLook(t)
         /\ Go(t, "look")
         /\ UNCHANGED refund

EmptySol(t) ==
  /\ pc[t] = "sol"
  /\ Empties(t)
  /\ Emptied(t, TRUE)
  /\ UNCHANGED <<mh, landed, strays, want, plan, copy, attempt, to, known, view,
                 screen, arrived, capVars>>

\* finishRoute without its own catch.
EmptyFailsUncaught(t) ==
  /\ pc[t] \in {"tokens", "sol"}
  /\ Fault
  /\ Empties(t) \/ UNCHANGED at
  /\ Fail(t)
  /\ UNCHANGED <<mh, landed, strays, closes>>

\* A request of emptyRouter fails, before or after its transaction lands.
EmptyFails(t) ==
  /\ pc[t] \in {"tokens", "sol"}
  /\ Fault
  /\ Empties(t) \/ UNCHANGED at
  /\ Emptied(t, FALSE)
  /\ UNCHANGED <<mh, landed, strays, want, plan, copy, attempt, to, known, view,
                 screen, arrived, closes>>

(***************************************************************************)
(* The page: try again, close, open again.                                 *)
(***************************************************************************)
RetryPhase(t) ==
  IF view[t] = "none" THEN "waiting"
  ELSE IF PhaseFor(view[t]) = "failed" THEN "signing" ELSE PhaseFor(view[t])

Retry(t) ==
  /\ pc[t] = "over" /\ screen[t] = "failed"
  /\ screen' = [screen EXCEPT ![t] = RetryPhase(t)]
  /\ Go(t, "lookup")
  /\ UNCHANGED <<moneyVars, want, plan, copy, attempt, to, known, view, arrived,
                 refund, leftVars, capVars>>

Close(t) ==
  /\ pc[t] # "away"
  /\ closes < MaxCloses /\ closes' = closes + 1
  /\ Stray(t)
  /\ Go(t, "away")
  /\ plan' = [plan EXCEPT ![t] = {}]
  /\ copy' = [copy EXCEPT ![t] = "none"]
  /\ attempt' = [attempt EXCEPT ![t] = 0]
  /\ to' = [to EXCEPT ![t] = NoOne]
  /\ known' = [known EXCEPT ![t] = FALSE]
  /\ view' = [view EXCEPT ![t] = "none"]
  /\ screen' = [screen EXCEPT ![t] = "waiting"]
  /\ arrived' = [arrived EXCEPT ![t] = FALSE]
  /\ refund' = [refund EXCEPT ![t] = "idle"]
  /\ looks' = [looks EXCEPT ![t] = 0]
  /\ sweeps' = [sweeps EXCEPT ![t] = 0]
  /\ UNCHANGED <<at, mh, landed, want, faults>>

Opened(t, wallet, label) ==
  /\ to' = [to EXCEPT ![t] = wallet]
  /\ Go(t, label)
  /\ UNCHANGED <<moneyVars, want, plan, copy, attempt, known, view, screen,
                 arrived, refund, leftVars, closes>>

\* probeRoute and resumeScreen; a probe that finds nothing leaves the page away.
Reopen(t) ==
  /\ pc[t] = "away"
  /\ \/ mh.status # "none" /\ Opened(t, mh.to, "lookup")
     \/ mh.status = "none" /\ InRouter # {} /\ Opened(t, NoOne, "ask")
  /\ UNCHANGED faults

\* The probe for a transfer fails, the one for the balance does not.
ReopenHalfBlind(t) ==
  /\ pc[t] = "away"
  /\ mh.status # "none" /\ InRouter # {}
  /\ Fault
  /\ Opened(t, NoOne, "ask")

Choose(t, w) ==
  /\ pc[t] = "ask"
  /\ to' = [to EXCEPT ![t] = w]
  /\ Go(t, "lookup")
  /\ UNCHANGED <<moneyVars, want, plan, copy, attempt, known, view, screen,
                 arrived, refund, leftVars, capVars>>

(***************************************************************************)
(* The swap, Solana and MultiHopper.                                       *)
(***************************************************************************)
\* One deposit of SOL, or one of USDC and one of SOL for the costs.
Deposits == IF Gift = "sol" THEN {{"gift", "gas"}} ELSE {{"gift"}, {"gas"}}

Deposit(d) ==
  /\ \A p \in d : at[p] = "swap"
  /\ at' = [p \in Pieces |-> IF p \in d THEN "router" ELSE at[p]]
  /\ UNCHANGED <<mh, landed, strays, runVars, pageVars, leftVars, capVars>>

Land(t) ==
  /\ copy[t] = "flying"
  /\ copy' = [copy EXCEPT ![t] = AnswerOf(NextTx(t))]
  /\ Carry({NextTx(t)})
  /\ UNCHANGED <<mh, strays, pc, want, plan, attempt, pageVars, leftVars, capVars>>

StrayLands(x) ==
  /\ x \in strays
  /\ strays' = strays \ {x}
  /\ Carry({x})
  /\ UNCHANGED <<mh, runVars, pageVars, leftVars, capVars>>

StrayDies(x) ==
  /\ x \in strays
  /\ strays' = strays \ {x}
  /\ UNCHANGED <<at, mh, landed, runVars, pageVars, leftVars, capVars>>

\* A signed route is taken over whether or not a page says so.
KeeperStarts ==
  /\ mh.status = "unsigned" /\ landed = Txs
  /\ TakeOver
  /\ UNCHANGED <<at, landed, strays, runVars, pageVars, leftVars, capVars>>

\* The route ends at the recipient, or back in the router.
RouteEnds(status, place) ==
  /\ mh.status = "active"
  /\ mh' = [mh EXCEPT !.status = status]
  /\ at' = [at EXCEPT ![Carried(mh.asset)] = place]
  /\ UNCHANGED <<landed, strays, runVars, pageVars, leftVars, capVars>>

Complete  == RouteEnds("completed", mh.to)
GiveBack  == RouteEnds("refunded", "router")

\* The keeper returns the rent some time after the route.
RentBack ==
  /\ mh.status \in {"completed", "refunded"}
  /\ at["rent"] = "route"
  /\ at' = [at EXCEPT !["rent"] = "router"]
  /\ UNCHANGED <<mh, landed, strays, runVars, pageVars, leftVars, capVars>>

\* An open page is done in a minute or two; half an hour without one outlives
\* every transaction sent before.
Busy == {"create", "prepare", "send", "confirm", "keeper", "report"}

Expire ==
  /\ MayExpire
  /\ mh.status = "unsigned" /\ landed # Txs
  /\ strays = {} /\ \A t \in Tabs : pc[t] \notin Busy
  /\ mh' = [mh EXCEPT !.status = "expired"]
  /\ UNCHANGED <<at, landed, strays, runVars, pageVars, leftVars, capVars>>

(***************************************************************************)
(* The specification.                                                      *)
(***************************************************************************)
Init ==
  /\ at = [p \in Pieces |-> IF p = "rent" THEN "route" ELSE "swap"]
  /\ mh = NoTransfer
  /\ landed = {} /\ strays = {}
  /\ pc = [t \in Tabs |-> IF t = First THEN "lookup" ELSE "away"]
  /\ to = [t \in Tabs |-> IF t = First THEN Told ELSE NoOne]
  /\ known = [t \in Tabs |-> t = First]
  /\ want = [t \in Tabs |-> "sol"]
  /\ plan = [t \in Tabs |-> {}]
  /\ copy = [t \in Tabs |-> "none"]
  /\ attempt = [t \in Tabs |-> 0]
  /\ view = [t \in Tabs |-> "none"]
  /\ screen = [t \in Tabs |-> "waiting"]
  /\ arrived = [t \in Tabs |-> FALSE]
  /\ looks = [t \in Tabs |-> 0] /\ sweeps = [t \in Tabs |-> 0]
  /\ refund = [t \in Tabs |-> "idle"]
  /\ closes = 0 /\ faults = 0

\* The steps the page takes by itself.
RunStep(t) ==
  \/ Lookup(t) \/ FundingSeen(t) \/ Create(t) \/ Prepare(t) \/ PrepareRefused(t)
  \/ Send(t) \/ Confirmed(t) \/ TxFailed(t) \/ KeeperReported(t) \/ Reported(t)
  \/ Poll(t) \/ Look(t) \/ EmptyTokens(t) \/ EmptySol(t)

\* The steps of a recipient who sees the payment through.
UserStep(t) ==
  Retry(t) \/ SendBack(t) \/ Reopen(t) \/ \E w \in Wallets : Choose(t, w)

Mishap(t) ==
  \/ CreateLost(t) \/ ConfirmTimesOut(t) \/ Stale(t) \/ RequestFails(t)
  \/ LookFails(t) \/ EmptyFails(t) \/ Close(t) \/ ReopenHalfBlind(t)

Outside ==
  \/ \E d \in Deposits : Deposit(d)
  \/ \E x \in Txs : StrayLands(x) \/ StrayDies(x)
  \/ KeeperStarts \/ Complete \/ GiveBack \/ RentBack \/ Expire

Next ==
  \/ \E t \in Tabs : RunStep(t) \/ UserStep(t) \/ Mishap(t) \/ Land(t)
  \/ Outside

Spec == Init /\ [][Next]_vars

\* A page that is open runs, its recipient comes back, the services answer.  Of
\* RunStep and UserStep a page never enables more than one.
Fairness ==
  /\ \A t \in Tabs : WF_vars(RunStep(t) \/ UserStep(t)) /\ WF_vars(Land(t))
  /\ \A d \in Deposits : WF_vars(Deposit(d))
  /\ WF_vars(KeeperStarts) /\ WF_vars(Complete \/ GiveBack) /\ WF_vars(RentBack)

FairSpec == Spec /\ Fairness

(***************************************************************************)
(* Properties.                                                             *)
(***************************************************************************)
Ended == {"completed", "refunded"}

\* Every variable keeps its kind and every counter its bound.
TypeOK ==
  /\ at \in [Pieces -> Places]
  /\ mh \in [status : Statuses \cup {"none"}, asset : Assets, to : Wallets \cup {NoOne}]
  /\ landed \subseteq Txs /\ strays \subseteq Txs
  /\ pc \in [Tabs -> Pcs]
  /\ to \in [Tabs -> Wallets \cup {NoOne}]
  /\ known \in [Tabs -> BOOLEAN] /\ want \in [Tabs -> Assets]
  /\ plan \in [Tabs -> SUBSET Txs]
  /\ copy \in [Tabs -> {"none", "flying", "landed", "failed"}]
  /\ attempt \in [Tabs -> 0 .. MaxAttempts - 1]
  /\ view \in [Tabs -> Statuses \cup {"none"}]
  /\ screen \in [Tabs -> Screens] /\ arrived \in [Tabs -> BOOLEAN]
  /\ looks \in [Tabs -> 0 .. MaxLooks + 1] /\ sweeps \in [Tabs -> 0 .. MaxSweeps]
  /\ refund \in [Tabs -> {"idle", "sending", "done", "failed"}]
  /\ closes \in 0 .. MaxCloses /\ faults \in 0 .. MaxFaults

\* Two pages may be told two wallets, before or after a transfer exists.  All
\* the money that leaves the link goes to one of them: the transfer's.
OneRecipient ==
  \A p \in Pieces : at[p] \in Wallets => mh.status # "none" /\ at[p] = mh.to

\* "Only call once the route is done: the router must still hold nothing
\* MultiHopper needs."  No page empties the router, on any view of the transfer,
\* while the route can still take from it.
HandedOverAtTheEnd ==
  /\ \A t \in Tabs : pc[t] \in {"look", "tokens", "sol"} => mh.status \in Ended
  /\ \A p \in Pieces : at[p] \in Wallets => mh.status \in Ended

\* The screen may lag behind MultiHopper and is never ahead of it: what it shows
\* as routing, done or refunded has come that far.
ScreenNotAhead ==
  \A t \in Tabs :
    /\ screen[t] = "done" \/ arrived[t] => mh.status = "completed"
    /\ screen[t] = "refunded" => mh.status = "refunded"
    /\ screen[t] = "routing" => mh.status \in {"active"} \cup Ended

\* "It arrived" and "Sent to your wallet" are said of a gift that has left the
\* router for the recipient's wallet.
SaidIsSo ==
  \A t \in Tabs : arrived[t] \/ refund[t] = "done" => at["gift"] \in Wallets

\* A page that has shown the end of the route shows it until it is closed: no
\* late poll, failure or retry takes it back.
EndStaysOnScreen ==
  [][\A t \in Tabs : screen[t] \in {"done", "refunded"}
       => screen'[t] = screen[t] \/ pc'[t] = "away"]_vars

\* "Closing the tab at any point and opening the link again picks the run up
\* where it stopped": the gift reaches the recipient's wallet, unless nobody signed
\* the route before its quote ran out.
GiftArrives == <>(at["gift"] \in Wallets \/ mh.status = "expired")

\* "The route wallet holds your money. Opening this link again picks up where it
\* stopped", said while the route is being signed.
StoppedIsPickedUp == mh.status = "unsigned" ~> at["gift"] \in Wallets
=============================================================================
