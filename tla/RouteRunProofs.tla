---------------------------- MODULE RouteRunProofs ----------------------------
(***************************************************************************)
(* For any number of pages, wallets, transactions and faults: all the money*)
(* that leaves a link goes to the one wallet its transfer names, no page   *)
(* empties the router before the route has ended, and no screen is ahead   *)
(* of MultiHopper.                                                         *)
(***************************************************************************)
EXTENDS RouteRun, WellFoundedInduction, TLAPS

(***************************************************************************)
(* The inductive invariant.                                                *)
(***************************************************************************)
MoneyTypes ==
  /\ at \in [Pieces -> Places]
  /\ mh \in [status : Statuses \cup {"none"}, asset : Assets, to : Wallets \cup {NoOne}]
  /\ landed \subseteq Txs /\ strays \subseteq Txs
  /\ closes \in 0 .. MaxCloses /\ faults \in 0 .. MaxFaults

RunTypes ==
  /\ pc \in [Tabs -> Pcs] /\ want \in [Tabs -> Assets]
  /\ plan \in [Tabs -> SUBSET Txs]
  /\ copy \in [Tabs -> {"none", "flying", "landed", "failed"}]
  /\ attempt \in [Tabs -> 0 .. MaxAttempts - 1]
  /\ looks \in [Tabs -> 0 .. MaxLooks + 1] /\ sweeps \in [Tabs -> 0 .. MaxSweeps]

PageTypes ==
  /\ to \in [Tabs -> Wallets \cup {NoOne}] /\ known \in [Tabs -> BOOLEAN]
  /\ view \in [Tabs -> Statuses \cup {"none"}]
  /\ screen \in [Tabs -> Screens] /\ arrived \in [Tabs -> BOOLEAN]
  /\ refund \in [Tabs -> {"idle", "sending", "done", "failed"}]

\* A transfer names a wallet, and a page that runs was told one.
WalletsNamed ==
  /\ mh.status # "none" => mh.to \in Wallets
  /\ \A t \in Tabs : pc[t] \notin {"away", "ask"} => to[t] \in Wallets

\* A transaction is waited for in the confirmation loop only.
PlanOpen ==
  \A t \in Tabs :
    /\ copy[t] # "none" => pc[t] = "confirm" /\ plan[t] # {}
    /\ pc[t] = "send" => plan[t] # {}

\* Who empties the router: a refund, or a look that was still allowed one.
Emptying ==
  \A t \in Tabs :
    /\ refund[t] = "sending" => pc[t] \in {"tokens", "sol"}
    /\ screen[t] = "refunded" \/ refund[t] = "sending" => view[t] # "none"
    /\ pc[t] \in {"tokens", "sol"} /\ refund[t] # "sending"
         => looks[t] <= MaxLooks /\ sweeps[t] < MaxSweeps

\* What a page was last told of the transfer has been so, and has not been undone.
ViewNotAhead ==
  \A t \in Tabs :
    /\ view[t] \in Ended => mh.status = view[t]
    /\ view[t] = "active" => mh.status \in {"active"} \cup Ended

\* The end is on the screen from the moment the page is told, and the run is past
\* every request whose failure it shows.
EndShown ==
  \A t \in Tabs : screen[t] \in {"done", "refunded"} \/ view[t] \in Ended =>
    /\ screen[t] \in {"done", "refunded"} /\ view[t] \in Ended
    /\ pc[t] \in {"look", "tokens", "sol", "over"}

RouteInv ==
  /\ MoneyTypes /\ RunTypes /\ PageTypes
  /\ WalletsNamed /\ PlanOpen /\ Emptying /\ ViewNotAhead /\ EndShown
  /\ OneRecipient /\ HandedOverAtTheEnd /\ ScreenNotAhead

(***************************************************************************)
(* What the helpers return.                                                *)
(***************************************************************************)
\* The next transaction of a plan is one of the plan.
LEMMA NextTxPending ==
  ASSUME NEW t \in Tabs, plan[t] \subseteq Txs, plan[t] # {}
  PROVE  NextTx(t) \in plan[t]
<1>1. Txs \subseteq Nat
  BY RouteAssumption DEF Txs
<1> DEFINE Less == OpToRel(<, Nat)
<1>2. \A ss : ss \in Less <=> ss \in Nat \X Nat /\ ss[1] < ss[2]
  BY Zenon DEF OpToRel
<1>3. IsWellFoundedOn(Less, Nat)
  BY NatLessThanWellFounded
<1> HIDE DEF Less
<1>4. PICK x \in plan[t] : \A y \in plan[t] : ~ (<<y, x>> \in Less)
  BY <1>1, <1>3, WFMin
<1>5. \A y \in plan[t] : x <= y
  <2> SUFFICES ASSUME NEW y \in plan[t] PROVE x <= y
    OBVIOUS
  <2>1. x \in Nat /\ y \in Nat
    BY <1>1
  <2>2. ~ (<<y, x>>[1] < <<y, x>>[2])
    BY <1>2, <1>4, <2>1
  <2> QED
    BY <2>1, <2>2
<1> QED
  BY <1>5 DEF NextTx

\* The three ways a page's run goes on keep the types of the page.
LEMMA FailTypes ==
  ASSUME RunTypes, PageTypes, NEW t \in Tabs, Fail(t)
  PROVE  RunTypes' /\ PageTypes'
BY DEF RunTypes, PageTypes, Fail, Go, leftVars, Pcs, Screens

LEMMA AgainTypes ==
  ASSUME RunTypes, PageTypes, NEW t \in Tabs, Again(t)
  PROVE  RunTypes' /\ PageTypes'
<1>1. CASE attempt[t] + 1 < MaxAttempts
  BY <1>1, RouteAssumption
     DEF RunTypes, PageTypes, Again, Go, leftVars, pageVars, Pcs
<1>2. CASE ~ (attempt[t] + 1 < MaxAttempts)
  BY <1>2, FailTypes DEF Again
<1> QED
  BY <1>1, <1>2

LEMMA ReportTypes ==
  ASSUME RunTypes, PageTypes, NEW t \in Tabs,
         NEW status \in Statuses \cup {"none"}, Report(t, status)
  PROVE  RunTypes' /\ PageTypes'
<1> DEFINE phase == PhaseFor(status)
<1>1. phase \in Screens
  BY DEF PhaseFor, Screens
<1>2. NextPc(phase) \in Pcs
  BY DEF NextPc, Pcs
<1> HIDE DEF phase
<1>3. /\ view' = [view EXCEPT ![t] = status]
      /\ screen' = [screen EXCEPT ![t] = IF @ \in {"done", "refunded"} THEN @ ELSE phase]
      /\ pc' = [pc EXCEPT ![t] = NextPc(phase)]
      /\ attempt' = [attempt EXCEPT ![t] = 0]
      /\ plan' = [plan EXCEPT ![t] = {}]
      /\ arrived' = [arrived EXCEPT ![t] = @ \/ phase = "done"]
      /\ UNCHANGED <<want, copy, to, known, refund, looks, sweeps>>
  BY DEF Report, Go, phase, leftVars
<1>4. RunTypes'
  BY <1>2, <1>3, RouteAssumption DEF RunTypes
<1>5. arrived' \in [Tabs -> BOOLEAN]
  BY <1>3 DEF PageTypes
<1>6. PageTypes'
  BY <1>1, <1>3, <1>5 DEF PageTypes
<1> QED
  BY <1>4, <1>6

(***************************************************************************)
(* A step of a page keeps the types of the page.                           *)
(***************************************************************************)
LEMMA PageStepTypes ==
  ASSUME MoneyTypes, RunTypes, PageTypes, WalletsNamed, PlanOpen, Emptying, NEW t \in Tabs,
         RunStep(t) \/ UserStep(t) \/ Mishap(t) \/ Land(t)
  PROVE  RunTypes' /\ PageTypes'
<1>1. mh.status \in Statuses \cup {"none"}
  BY DEF MoneyTypes
<1> USE DEF pageVars, leftVars, runVars
<1>2. CASE Lookup(t)
  BY <1>2, <1>1, ReportTypes
     DEF Lookup, RunTypes, PageTypes, Go, Pcs
<1>3. CASE FundingSeen(t)
  BY <1>3, RouteAssumption
     DEF FundingSeen, AssetOf, InferAsset, Assets, RunTypes, PageTypes, Go, Pcs
<1>4. CASE Create(t)
  BY <1>4, RouteAssumption
     DEF Create, RunTypes, PageTypes, Go, Pcs
<1>5. CASE CreateLost(t)
  BY <1>5, FailTypes
     DEF CreateLost
<1>6. CASE Prepare(t)
  BY <1>6, <1>1, ReportTypes
     DEF Prepare, RunTypes, PageTypes, Go, Pcs
<1>7. CASE PrepareRefused(t)
  BY <1>7, FailTypes
     DEF PrepareRefused
<1>8. CASE Send(t)
  BY <1>8, FailTypes
     DEF Send, RunTypes, PageTypes, Go, Pcs
<1>9. CASE Confirmed(t)
  BY <1>9
     DEF Confirmed, RunTypes, PageTypes, Go, Pcs
<1>10. CASE TxFailed(t)
  BY <1>10, FailTypes
     DEF TxFailed
<1>11. CASE ConfirmTimesOut(t)
  BY <1>11, AgainTypes
     DEF ConfirmTimesOut
<1>12. CASE KeeperReported(t)
  BY <1>12
     DEF KeeperReported, RunTypes, PageTypes, Go, Pcs
<1>13. CASE Poll(t)
  BY <1>13, <1>1, ReportTypes
     DEF Poll
<1>14. CASE Stale(t)
  BY <1>14, AgainTypes
     DEF Stale
<1>15. CASE RequestFails(t)
  BY <1>15, FailTypes
     DEF RequestFails
<1>16. CASE Look(t)
  BY <1>16, RouteAssumption
     DEF Look, NextLook, EmptyFrom, RunTypes, PageTypes, Go, Pcs
<1>17. CASE SendBack(t)
  BY <1>17
     DEF SendBack, EmptyFrom, RunTypes, PageTypes, Go, Pcs
<1>18. CASE EmptyTokens(t)
  BY <1>18
     DEF EmptyTokens, RunTypes, PageTypes, Go, Pcs
<1>19. CASE EmptySol(t)
  BY <1>19, RouteAssumption
     DEF EmptySol, Emptied, NextLook, Emptying, RunTypes, PageTypes, Go, Pcs
<1>20. CASE EmptyFails(t)
  BY <1>20, RouteAssumption
     DEF EmptyFails, Emptied, NextLook, Emptying, RunTypes, PageTypes, Go, Pcs
<1>21. CASE Retry(t)
  BY <1>21
     DEF Retry, RetryPhase, PhaseFor, Screens, RunTypes, PageTypes, Go, Pcs
<1>22. CASE Close(t)
  BY <1>22, RouteAssumption
     DEF Close, Screens, RunTypes, PageTypes, Go, Pcs
<1>23. CASE Reopen(t)
  BY <1>23
     DEF Reopen, Opened, MoneyTypes, RunTypes, PageTypes, Go, Pcs
<1>24. CASE ReopenHalfBlind(t)
  BY <1>24
     DEF ReopenHalfBlind, Opened, RunTypes, PageTypes, Go, Pcs
<1>25. CASE \E w \in Wallets : Choose(t, w)
  BY <1>25
     DEF Choose, RunTypes, PageTypes, Go, Pcs
<1>26. CASE Land(t)
  BY <1>26
     DEF Land, AnswerOf, RunTypes, PageTypes, Go, Pcs
<1>27. CASE Reported(t)
  <2>1. mh'.status \in Statuses \cup {"none"}
    BY <1>27, <1>1 DEF Reported, TakeOver, Statuses, MoneyTypes
  <2> QED
    BY <1>27, <2>1, ReportTypes DEF Reported
<1>28. CASE LookFails(t)
  BY <1>28, RouteAssumption
     DEF LookFails, NextLook, RunTypes, PageTypes, Go, Pcs
<1> QED
  BY <1>2, <1>3, <1>4, <1>5, <1>6, <1>7, <1>8, <1>9, <1>10,
     <1>11, <1>12, <1>13, <1>14, <1>15, <1>16, <1>17, <1>18, <1>19, <1>20,
     <1>21, <1>22, <1>23, <1>24, <1>25, <1>26, <1>27, <1>28
     DEF RunStep, UserStep, Mishap

(***************************************************************************)
(* What a step does to the money and to the transfer.                      *)
(***************************************************************************)
\* A transfer never goes back, and keeps the wallet it names.
Advances ==
  /\ mh.status \in Ended => mh'.status = mh.status
  /\ mh.status = "active" => mh'.status \in {"active"} \cup Ended
  /\ mh.status # "none" => mh'.status # "none" /\ mh'.to = mh.to
  /\ mh'.status # "none" => mh'.to \in Wallets

\* Money in a wallet is in the transfer's, and the route has ended.
HandedOver ==
  \A p \in Pieces : at[p] \in Wallets =>
    mh.status # "none" /\ at[p] = mh.to /\ mh.status \in Ended

LEMMA HandedOverIsBoth ==
  ASSUME RouteInv
  PROVE  HandedOver
BY DEF RouteInv, HandedOver, OneRecipient, HandedOverAtTheEnd

\* Creating, handing over to MultiHopper, or neither: the transfer goes on.
LEMMA TransferStep ==
  ASSUME RouteInv, NEW t \in Tabs, UNCHANGED at,
         \/ UNCHANGED mh
         \/ CreateOnce(t) /\ pc[t] = "create"
         \/ TakeOver
  PROVE  /\ Advances /\ HandedOver'
         /\ mh' \in [status : Statuses \cup {"none"}, asset : Assets, to : Wallets \cup {NoOne}]
<1> USE RouteAssumption DEF RouteInv, MoneyTypes, RunTypes, PageTypes, WalletsNamed, Statuses, Ended
<1>0. HandedOver
  BY HandedOverIsBoth
<1>1. CASE UNCHANGED mh
  BY <1>0, <1>1 DEF Advances, HandedOver
<1>2. CASE CreateOnce(t) /\ pc[t] = "create"
  <2>1. to[t] \in Wallets /\ want[t] \in Assets
    BY <1>2
  <2> QED
    BY <1>0, <1>2, <2>1 DEF Advances, HandedOver, CreateOnce
<1>3. CASE TakeOver
  BY <1>0, <1>3 DEF Advances, HandedOver, TakeOver
<1> QED
  BY <1>1, <1>2, <1>3

\* Emptying the router, before its end and after it, pays the transfer's wallet.
LEMMA EmptyingStep ==
  ASSUME RouteInv, NEW t \in Tabs, pc[t] \in {"tokens", "sol"}, Empties(t), UNCHANGED mh
  PROVE  at' \in [Pieces -> Places] /\ HandedOver'
<1> USE RouteAssumption
<1>1. mh.status \in Ended /\ mh.to \in Wallets
  BY DEF RouteInv, HandedOverAtTheEnd, WalletsNamed, Ended
<1>2. Payee(t) = mh.to
  BY <1>1 DEF RouteInv, Emptying, Payee, PayTo, PayBackTo, Ended
<1>3. PICK S : HandOver(S, mh.to)
  BY <1>2 DEF Empties
<1>4. at' \in [Pieces -> Places]
  BY <1>1, <1>3 DEF HandOver, RouteInv, MoneyTypes, Places
<1> QED
  BY <1>1, <1>3, <1>4, HandedOverIsBoth
     DEF HandOver, HandedOver, Ended

\* A transaction that lands takes money out of the router, to no wallet.
LEMMA CarryStep ==
  ASSUME RouteInv, NEW more \in SUBSET Txs, Carry(more), UNCHANGED mh
  PROVE  at' \in [Pieces -> Places] /\ landed' \subseteq Txs /\ HandedOver'
<1> USE RouteAssumption
<1>1. Carried(mh.asset) \in Pieces
  BY DEF Carried, Pieces
<1>2. "route" \in Places /\ "route" \notin Wallets
  BY DEF Places
<1>3. at' \in [Pieces -> Places] /\ landed' \subseteq Txs
  BY <1>1, <1>2 DEF Carry, RouteInv, MoneyTypes
<1> QED
  BY <1>1, <1>2, <1>3, HandedOverIsBoth DEF Carry, HandedOver, RouteInv, MoneyTypes

\* A page that leaves a transaction behind leaves one of the route.
LEMMA StrayType ==
  ASSUME RouteInv, NEW t \in Tabs, Stray(t)
  PROVE  strays' \subseteq Txs
<1>1. plan[t] \subseteq Txs
  BY DEF RouteInv, RunTypes
<1>2. copy[t] = "flying" => NextTx(t) \in plan[t]
  BY <1>1, NextTxPending DEF RouteInv, PlanOpen
<1> QED
  BY <1>1, <1>2 DEF Stray, RouteInv, MoneyTypes

\* A step of a page leaves the money typed and handed over to one wallet only.
LEMMA PageStepMoney ==
  ASSUME RouteInv, NEW t \in Tabs,
         RunStep(t) \/ UserStep(t) \/ Mishap(t) \/ Land(t)
  PROVE  MoneyTypes' /\ Advances /\ HandedOver'
<1> USE RouteAssumption DEF moneyVars, capVars
<1>0. /\ MoneyTypes /\ faults \in 0 .. MaxFaults /\ closes \in 0 .. MaxCloses
      /\ landed \subseteq Txs /\ strays \subseteq Txs /\ at \in [Pieces -> Places]
  BY DEF RouteInv, MoneyTypes
<1>1. ASSUME UNCHANGED at, UNCHANGED landed, UNCHANGED closes,
             strays' \subseteq Txs, faults' \in 0 .. MaxFaults,
             \/ UNCHANGED mh
             \/ CreateOnce(t) /\ pc[t] = "create"
             \/ TakeOver
      PROVE  MoneyTypes' /\ Advances /\ HandedOver'
  BY <1>0, <1>1, TransferStep DEF MoneyTypes
<1>2. Fault => faults' \in 0 .. MaxFaults
  BY <1>0 DEF Fault
<1>3. CASE \/ Lookup(t) \/ FundingSeen(t) \/ Prepare(t) \/ PrepareRefused(t) \/ Send(t)
           \/ Confirmed(t) \/ TxFailed(t) \/ KeeperReported(t) \/ Poll(t) \/ Look(t)
           \/ Retry(t) \/ SendBack(t) \/ \E w \in Wallets : Choose(t, w)
  <2>1. UNCHANGED <<moneyVars, capVars>>
    BY <1>3 DEF Lookup, FundingSeen, Prepare, PrepareRefused, Send, Confirmed, TxFailed,
                KeeperReported, Poll, Look, Retry, SendBack, Choose
  <2> QED
    BY <1>0, <1>1, <2>1
<1>4. CASE Create(t) \/ Reported(t)
  BY <1>0, <1>1, <1>4 DEF Create, Reported
<1>5. CASE CreateLost(t)
  BY <1>0, <1>1, <1>2, <1>5 DEF CreateLost
<1>6. CASE ConfirmTimesOut(t) \/ RequestFails(t)
  BY <1>0, <1>1, <1>2, <1>6, StrayType DEF ConfirmTimesOut, RequestFails
<1>7. CASE Stale(t) \/ LookFails(t)
  BY <1>0, <1>1, <1>2, <1>7 DEF Stale, LookFails
<1>8. CASE Reopen(t) \/ ReopenHalfBlind(t)
  BY <1>0, <1>1, <1>2, <1>8 DEF Reopen, ReopenHalfBlind, Opened
<1>9. CASE Close(t)
  <2>1. closes' \in 0 .. MaxCloses /\ UNCHANGED <<at, mh, landed, faults>> /\ strays' \subseteq Txs
    BY <1>0, <1>9, StrayType DEF Close
  <2>2. Advances /\ HandedOver'
    BY <2>1, TransferStep
  <2> QED
    BY <1>0, <2>1, <2>2 DEF MoneyTypes
<1>10. CASE EmptyTokens(t) \/ EmptySol(t) \/ EmptyFails(t)
  <2>1. /\ pc[t] \in {"tokens", "sol"} /\ UNCHANGED <<mh, landed, strays, closes>>
        /\ faults' \in 0 .. MaxFaults /\ (Empties(t) \/ UNCHANGED at)
    BY <1>0, <1>2, <1>10 DEF EmptyTokens, EmptySol, EmptyFails
  <2>2. Advances
    BY <2>1 DEF Advances, RouteInv, WalletsNamed
  <2>3. at' \in [Pieces -> Places] /\ HandedOver'
    BY <1>0, <2>1, EmptyingStep, HandedOverIsBoth DEF HandedOver
  <2> QED
    BY <1>0, <2>1, <2>2, <2>3 DEF MoneyTypes
<1>11. CASE Land(t)
  <2>1. copy[t] = "flying" /\ Carry({NextTx(t)}) /\ UNCHANGED <<mh, strays, closes, faults>>
    BY <1>11 DEF Land
  <2>2. NextTx(t) \in Txs
    BY <2>1, NextTxPending DEF RouteInv, RunTypes, PlanOpen
  <2>3. at' \in [Pieces -> Places] /\ landed' \subseteq Txs /\ HandedOver'
    BY <2>1, <2>2, CarryStep
  <2>4. Advances
    BY <2>1 DEF Advances, RouteInv, WalletsNamed
  <2> QED
    BY <1>0, <2>1, <2>3, <2>4 DEF MoneyTypes
<1> QED
  BY <1>3, <1>4, <1>5, <1>6, <1>7, <1>8, <1>9, <1>10, <1>11
     DEF RunStep, UserStep, Mishap

\* So does a step of the services.
LEMMA OutsideMoney ==
  ASSUME RouteInv, Outside
  PROVE  MoneyTypes' /\ Advances /\ HandedOver'
<1> USE RouteAssumption
<1>0. /\ MoneyTypes /\ HandedOver /\ WalletsNamed
      /\ mh \in [status : Statuses \cup {"none"}, asset : Assets, to : Wallets \cup {NoOne}]
      /\ landed \subseteq Txs /\ strays \subseteq Txs /\ at \in [Pieces -> Places]
  BY HandedOverIsBoth DEF RouteInv, MoneyTypes
<1>1. Carried(mh.asset) \in Pieces
  BY DEF Carried, Pieces
<1>2. UNCHANGED mh => Advances
  BY <1>0 DEF Advances, WalletsNamed
<1>3. CASE \E d \in Deposits : Deposit(d)
  BY <1>0, <1>2, <1>3 DEF Deposit, MoneyTypes, HandedOver, Places, capVars
<1>4. CASE \E x \in Txs : StrayLands(x)
  BY <1>0, <1>2, <1>4, CarryStep DEF StrayLands, MoneyTypes, capVars
<1>5. CASE \E x \in Txs : StrayDies(x)
  BY <1>0, <1>2, <1>5 DEF StrayDies, MoneyTypes, HandedOver, capVars
<1>6. CASE KeeperStarts \/ Expire
  BY <1>0, <1>6 DEF KeeperStarts, Expire, TakeOver, Advances, MoneyTypes, HandedOver,
                    WalletsNamed, Statuses, Ended, capVars
<1>7. CASE Complete
  <2>1. /\ mh.status = "active" /\ mh' = [mh EXCEPT !.status = "completed"]
        /\ at' = [at EXCEPT ![Carried(mh.asset)] = mh.to]
        /\ UNCHANGED <<landed, strays, closes, faults>>
    BY <1>7 DEF Complete, RouteEnds, capVars
  <2>2. mh.to \in Wallets
    BY <1>0, <2>1 DEF WalletsNamed
  <2> QED
    BY <1>0, <1>1, <2>1, <2>2 DEF Advances, MoneyTypes, HandedOver, Statuses, Ended, Places
<1>8. CASE GiveBack
  <2>1. /\ mh.status = "active" /\ mh' = [mh EXCEPT !.status = "refunded"]
        /\ at' = [at EXCEPT ![Carried(mh.asset)] = "router"]
        /\ UNCHANGED <<landed, strays, closes, faults>>
    BY <1>8 DEF GiveBack, RouteEnds, capVars
  <2> QED
    BY <1>0, <1>1, <2>1 DEF Advances, MoneyTypes, HandedOver, WalletsNamed, Statuses, Ended, Places
<1>9. CASE RentBack
  BY <1>0, <1>2, <1>9 DEF RentBack, MoneyTypes, HandedOver, Places, Pieces, capVars
<1> QED
  BY <1>3, <1>4, <1>5, <1>6, <1>7, <1>8, <1>9 DEF Outside

(***************************************************************************)
(* What holds of each page by itself.                                      *)
(***************************************************************************)
RunFacts(t) ==
  /\ pc[t] \notin {"away", "ask"} => to[t] \in Wallets
  /\ copy[t] # "none" => pc[t] = "confirm" /\ plan[t] # {}
  /\ pc[t] = "send" => plan[t] # {}
  /\ refund[t] = "sending" => pc[t] \in {"tokens", "sol"}
  /\ screen[t] = "refunded" \/ refund[t] = "sending" => view[t] # "none"
  /\ pc[t] \in {"tokens", "sol"} /\ refund[t] # "sending"
       => looks[t] <= MaxLooks /\ sweeps[t] < MaxSweeps

ShownFacts(t) ==
  /\ view[t] \in Ended => mh.status = view[t]
  /\ view[t] = "active" => mh.status \in {"active"} \cup Ended
  /\ screen[t] \in {"done", "refunded"} \/ view[t] \in Ended =>
       /\ screen[t] \in {"done", "refunded"} /\ view[t] \in Ended
       /\ pc[t] \in {"look", "tokens", "sol", "over"}
  /\ pc[t] \in {"look", "tokens", "sol"} => mh.status \in Ended
  /\ screen[t] = "done" \/ arrived[t] => mh.status = "completed"
  /\ screen[t] = "refunded" => mh.status = "refunded"
  /\ screen[t] = "routing" => mh.status \in {"active"} \cup Ended

PageFacts(t) == RunFacts(t) /\ ShownFacts(t)

RouteFacts ==
  /\ MoneyTypes /\ RunTypes /\ PageTypes /\ HandedOver
  /\ mh.status # "none" => mh.to \in Wallets
  /\ \A t \in Tabs : PageFacts(t)

\* The invariant, page by page.
LEMMA RouteInvByPage == RouteInv <=> RouteFacts
<1>1. RouteInv => HandedOver
  BY HandedOverIsBoth
<1>2. RouteInv => \A t \in Tabs : RunFacts(t)
  BY DEF RouteInv, RunFacts, WalletsNamed, PlanOpen, Emptying
<1>3. RouteInv => \A t \in Tabs : ShownFacts(t)
  BY DEF RouteInv, ShownFacts, ViewNotAhead, EndShown, HandedOverAtTheEnd, ScreenNotAhead
<1>4. ASSUME MoneyTypes, RunTypes, PageTypes, HandedOver,
             mh.status # "none" => mh.to \in Wallets,
             \A t \in Tabs : PageFacts(t)
      PROVE  RouteInv
  <2>1. WalletsNamed /\ PlanOpen /\ Emptying
    BY <1>4 DEF PageFacts, RunFacts, WalletsNamed, PlanOpen, Emptying
  <2>2. ViewNotAhead /\ EndShown /\ ScreenNotAhead
    BY <1>4 DEF PageFacts, ShownFacts, ViewNotAhead, EndShown, ScreenNotAhead
  <2>3. OneRecipient /\ HandedOverAtTheEnd
    BY <1>4 DEF PageFacts, ShownFacts, HandedOver, OneRecipient, HandedOverAtTheEnd
  <2> QED
    BY <1>4, <2>1, <2>2, <2>3 DEF RouteInv
<1> QED
  BY <1>1, <1>2, <1>3, <1>4 DEF RouteInv, RouteFacts, PageFacts, WalletsNamed

\* What a page knows and shows, and what its run is at.
PageSame(u) ==
  /\ pc'[u] = pc[u] /\ plan'[u] = plan[u] /\ copy'[u] = copy[u]
  /\ to'[u] = to[u] /\ view'[u] = view[u] /\ screen'[u] = screen[u]
  /\ arrived'[u] = arrived[u] /\ refund'[u] = refund[u]
  /\ looks'[u] = looks[u] /\ sweeps'[u] = sweeps[u] /\ want'[u] = want[u]

\* A page that does nothing stays right while the transfer advances.
LEMMA PageSameKeeps ==
  ASSUME Advances, NEW u \in Tabs, PageFacts(u), PageSame(u)
  PROVE  PageFacts(u)'
<1>1. RunFacts(u)'
  BY DEF PageFacts, RunFacts, PageSame
<1>2. ShownFacts(u)'
  BY DEF PageFacts, ShownFacts, PageSame, Advances, Ended
<1> QED
  BY <1>1, <1>2 DEF PageFacts

\* A run that fails, prepares again or reports touches its own page only.
LEMMA MoveFrame ==
  ASSUME RunTypes, PageTypes, NEW t \in Tabs, NEW u \in Tabs, u # t,
         Fail(t) \/ Again(t) \/ \E status : Report(t, status)
  PROVE  PageSame(u)
<1>1. CASE Fail(t)
  BY <1>1 DEF RunTypes, PageTypes, PageSame, Fail, Go, leftVars
<1>2. CASE Again(t)
  BY <1>1, <1>2 DEF RunTypes, PageTypes, PageSame, Again, Go, leftVars, pageVars
<1>3. CASE \E status : Report(t, status)
  <2>1. PICK status : Report(t, status)
    BY <1>3
  <2> DEFINE phase == PhaseFor(status)
  <2>2. /\ pc' = [pc EXCEPT ![t] = NextPc(phase)] /\ view' = [view EXCEPT ![t] = status]
        /\ screen' = [screen EXCEPT ![t] = IF @ \in {"done", "refunded"} THEN @ ELSE phase]
        /\ plan' = [plan EXCEPT ![t] = {}]
        /\ arrived' = [arrived EXCEPT ![t] = @ \/ phase = "done"]
        /\ UNCHANGED <<want, copy, to, refund, looks, sweeps>>
    BY <2>1 DEF Report, Go, phase, leftVars
  <2> HIDE DEF phase
  <2>3. arrived'[u] = arrived[u]
    BY <2>2 DEF PageTypes
  <2> QED
    BY <2>2, <2>3 DEF RunTypes, PageTypes, PageSame
<1> QED
  BY <1>1, <1>2, <1>3

\* Every other step of a page touches its own page only, too.
LEMMA PageFrame ==
  ASSUME RouteInv, NEW t \in Tabs, NEW u \in Tabs, u # t,
         RunStep(t) \/ UserStep(t) \/ Mishap(t) \/ Land(t)
  PROVE  PageSame(u)
<1>0. RunTypes /\ PageTypes
  BY DEF RouteInv
<1> USE DEF RunTypes, PageTypes, PageSame, Go, pageVars, leftVars
<1>1. CASE CreateLost(t) \/ PrepareRefused(t) \/ TxFailed(t) \/ RequestFails(t)
           \/ ConfirmTimesOut(t) \/ Stale(t) \/ Reported(t) \/ Poll(t)
  BY <1>0, <1>1, MoveFrame
     DEF CreateLost, PrepareRefused, TxFailed, RequestFails, ConfirmTimesOut, Stale, Reported, Poll
<1>2. CASE Lookup(t)
  BY <1>0, <1>2, MoveFrame DEF Lookup
<1>3. CASE Prepare(t)
  BY <1>0, <1>3, MoveFrame DEF Prepare
<1>4. CASE Send(t)
  BY <1>0, <1>4, MoveFrame DEF Send
<1>5. CASE FundingSeen(t) \/ Create(t) \/ KeeperReported(t)
  BY <1>0, <1>5 DEF FundingSeen, Create, KeeperReported
<1>6. CASE Confirmed(t)
  BY <1>0, <1>6 DEF Confirmed
<1>7. CASE Look(t) \/ LookFails(t)
  BY <1>0, <1>7 DEF Look, LookFails, NextLook, runVars
<1>8. CASE EmptyTokens(t)
  BY <1>0, <1>8 DEF EmptyTokens
<1>9. CASE EmptySol(t) \/ EmptyFails(t)
  BY <1>0, <1>9 DEF EmptySol, EmptyFails, Emptied, NextLook
<1>10. CASE Retry(t) \/ SendBack(t)
  BY <1>0, <1>10 DEF Retry, SendBack
<1>11. CASE Close(t)
  BY <1>0, <1>11 DEF Close
<1>12. CASE Reopen(t) \/ ReopenHalfBlind(t)
  BY <1>0, <1>12 DEF Reopen, ReopenHalfBlind, Opened
<1>13. CASE \E w \in Wallets : Choose(t, w)
  BY <1>0, <1>13 DEF Choose
<1>14. CASE Land(t)
  BY <1>0, <1>14 DEF Land, runVars
<1> QED
  BY <1>1, <1>2, <1>3, <1>4, <1>5, <1>6, <1>7, <1>8, <1>9, <1>10, <1>11, <1>12, <1>13, <1>14
     DEF RunStep, UserStep, Mishap

(***************************************************************************)
(* The page that takes the step.                                           *)
(***************************************************************************)
\* Where a run is until it has ended or is over.
Asking == {"lookup", "fund", "create", "prepare", "send", "confirm", "keeper", "report", "watch"}

LEMMA FailFacts ==
  ASSUME RunTypes, PageTypes, Advances, NEW t \in Tabs, PageFacts(t),
         pc[t] \in Asking, Fail(t)
  PROVE  PageFacts(t)'
<1>1. /\ pc'[t] = "over" /\ screen'[t] = "failed" /\ copy'[t] = "none"
      /\ to'[t] = to[t] /\ view'[t] = view[t] /\ arrived'[t] = arrived[t]
      /\ refund'[t] = refund[t]
  BY DEF RunTypes, PageTypes, Fail, Go, leftVars
<1>2. RunFacts(t)'
  BY <1>1 DEF PageFacts, RunFacts, Asking
<1>3. ShownFacts(t)'
  BY <1>1 DEF PageFacts, ShownFacts, Advances, Asking, Ended
<1> QED
  BY <1>2, <1>3 DEF PageFacts

LEMMA AgainFacts ==
  ASSUME RunTypes, PageTypes, Advances, NEW t \in Tabs, PageFacts(t),
         pc[t] \in Asking, Again(t)
  PROVE  PageFacts(t)'
<1>1. CASE Fail(t)
  BY <1>1, FailFacts
<1>2. CASE ~ Fail(t)
  <2>1. /\ pc'[t] = "prepare" /\ copy'[t] = "none"
        /\ to'[t] = to[t] /\ view'[t] = view[t] /\ arrived'[t] = arrived[t]
        /\ refund'[t] = refund[t] /\ screen'[t] = screen[t]
    BY <1>2 DEF RunTypes, PageTypes, Again, Go, leftVars, pageVars
  <2>2. RunFacts(t)'
    BY <2>1 DEF PageFacts, RunFacts, Asking
  <2>3. ShownFacts(t)'
    BY <2>1 DEF PageFacts, ShownFacts, Advances, Asking, Ended
  <2> QED
    BY <2>2, <2>3 DEF PageFacts
<1> QED
  BY <1>1, <1>2

\* A report of what MultiHopper has, to a page that is still asking.
LEMMA ReportFacts ==
  ASSUME RunTypes, PageTypes, Advances, NEW t \in Tabs, PageFacts(t),
         pc[t] \in Asking \ {"confirm"}, NEW status, status = mh'.status, Report(t, status)
  PROVE  PageFacts(t)'
<1> DEFINE phase == PhaseFor(status)
<1>1. screen[t] \notin {"done", "refunded"}
  BY DEF PageFacts, ShownFacts, Asking
<1>2. /\ view'[t] = status /\ pc'[t] = NextPc(phase)
      /\ screen'[t] = phase /\ copy'[t] = copy[t] /\ to'[t] = to[t] /\ refund'[t] = refund[t]
  BY <1>1 DEF RunTypes, PageTypes, Report, Go, leftVars
<1>3. arrived'[t] <=> arrived[t] \/ phase = "done"
  BY DEF PageTypes, Report
<1>4. /\ phase = "done" <=> status = "completed"
      /\ phase = "refunded" <=> status = "refunded"
      /\ phase = "routing" <=> status = "active"
  BY DEF PhaseFor
<1>5. /\ NextPc(phase) \in {"prepare", "watch", "look", "over"}
      /\ NextPc(phase) = "look" <=> phase = "done"
      /\ phase = "refunded" => NextPc(phase) = "over"
  BY DEF NextPc
<1> HIDE DEF phase
<1>6. RunFacts(t)'
  BY <1>2, <1>4, <1>5 DEF PageFacts, RunFacts, Asking
<1>7. ShownFacts(t)'
  BY <1>2, <1>3, <1>4, <1>5 DEF PageFacts, ShownFacts, Advances, Asking, Ended
<1> QED
  BY <1>6, <1>7 DEF PageFacts

\* Every other step of a page keeps what holds of it.
LEMMA PageOwn ==
  ASSUME RouteInv, RunTypes', PageTypes', Advances, NEW t \in Tabs,
         RunStep(t) \/ UserStep(t) \/ Mishap(t) \/ Land(t)
  PROVE  PageFacts(t)'
<1>0. RunTypes /\ PageTypes /\ PageFacts(t)
  BY RouteInvByPage DEF RouteFacts
<1> USE DEF RunTypes, PageTypes, Go, pageVars, leftVars
<1> DEFINE Rest == /\ copy'[t] = copy[t] /\ to'[t] = to[t] /\ view'[t] = view[t]
                   /\ screen'[t] = screen[t] /\ arrived'[t] = arrived[t]
                   /\ refund'[t] = refund[t]
\* A move of the run that leaves the screen and what it rests on alone.
<1>1. ASSUME Rest, pc[t] \in Asking, copy[t] = "none",
             pc'[t] \in Asking, pc'[t] = "send" => plan'[t] # {}
      PROVE  PageFacts(t)'
  <2>1. RunFacts(t)'
    BY <1>0, <1>1 DEF PageFacts, RunFacts, Asking
  <2>2. ShownFacts(t)'
    BY <1>0, <1>1 DEF PageFacts, ShownFacts, Advances, Asking, Ended
  <2> QED
    BY <2>1, <2>2 DEF PageFacts
<1> HIDE DEF Rest
<1>2. copy[t] # "none" => pc[t] = "confirm" /\ plan[t] # {}
  BY <1>0 DEF PageFacts, RunFacts
<1>3. CASE Lookup(t)
  <2>1. CASE mh.status = "none"
    <3>1. pc[t] = "lookup" /\ pc'[t] = "fund" /\ Rest
      BY <1>0, <1>3, <2>1 DEF Lookup, Rest
    <3> QED
      BY <1>1, <1>2, <3>1 DEF Asking
  <2>2. CASE mh.status # "none"
    BY <1>0, <1>3, <2>2, ReportFacts DEF Lookup, moneyVars, Asking
  <2> QED
    BY <2>1, <2>2
<1>4. CASE Prepare(t)
  <2>1. CASE mh.status = "unsigned" /\ landed # Txs
    <3>1. pc[t] = "prepare" /\ pc'[t] = "send" /\ plan'[t] = Txs \ landed /\ Rest
      BY <1>0, <1>4, <2>1 DEF Prepare, Rest
    <3>2. plan'[t] # {}
      BY <2>1, <3>1 DEF RouteInv, MoneyTypes
    <3> QED
      BY <1>1, <1>2, <3>1, <3>2 DEF Asking
  <2>2. CASE ~ (mh.status = "unsigned" /\ landed # Txs)
    BY <1>0, <1>4, <2>2, ReportFacts DEF Prepare, moneyVars, Asking
  <2> QED
    BY <2>1, <2>2
<1>5. CASE Reported(t)
  BY <1>0, <1>5, ReportFacts DEF Reported, Asking
<1>6. CASE Poll(t)
  BY <1>0, <1>6, ReportFacts DEF Poll, moneyVars, Asking
<1>7. CASE \/ CreateLost(t) \/ PrepareRefused(t) \/ TxFailed(t) \/ RequestFails(t)
  BY <1>0, <1>7, FailFacts DEF CreateLost, PrepareRefused, TxFailed, RequestFails, Asking
<1>8. CASE ConfirmTimesOut(t) \/ Stale(t)
  BY <1>0, <1>8, AgainFacts DEF ConfirmTimesOut, Stale, Asking
<1>9. CASE Create(t) \/ KeeperReported(t)
  <2>1. /\ pc[t] \in {"create", "keeper"} /\ pc'[t] \in {"prepare", "report", "send"} /\ Rest
        /\ plan'[t] = plan[t] /\ (pc'[t] = "send" => plan[t] # {})
    BY <1>0, <1>9 DEF Create, KeeperReported, Rest
  <2> QED
    BY <1>1, <1>2, <2>1 DEF Asking
<1>10. CASE FundingSeen(t)
  <2>1. pc[t] = "fund" /\ pc'[t] = "create" /\ Rest
    BY <1>0, <1>10 DEF FundingSeen, Rest
  <2> QED
    BY <1>1, <1>2, <2>1 DEF Asking
<1>11. CASE Send(t)
  <2>1. CASE Fail(t)
    BY <1>0, <1>11, <2>1, FailFacts DEF Send, Asking
  <2>2. CASE ~ Fail(t)
    <3>1. /\ pc[t] = "send" /\ pc'[t] = "confirm" /\ plan'[t] = plan[t]
          /\ to'[t] = to[t] /\ view'[t] = view[t] /\ refund'[t] = refund[t]
          /\ screen'[t] = screen[t] /\ arrived'[t] = arrived[t]
      BY <1>0, <1>11, <2>2 DEF Send
    <3>2. RunFacts(t)'
      BY <1>0, <3>1 DEF PageFacts, RunFacts
    <3>3. ShownFacts(t)'
      BY <1>0, <3>1 DEF PageFacts, ShownFacts, Advances, Ended
    <3> QED
      BY <3>2, <3>3 DEF PageFacts
  <2> QED
    BY <2>1, <2>2
<1>12. CASE Confirmed(t)
  <2>1. /\ pc[t] = "confirm" /\ copy'[t] = "none" /\ pc'[t] \in {"keeper", "report", "send"}
        /\ pc'[t] = "send" => plan'[t] # {}
        /\ to'[t] = to[t] /\ view'[t] = view[t] /\ refund'[t] = refund[t]
        /\ screen'[t] = screen[t] /\ arrived'[t] = arrived[t]
    BY <1>0, <1>12 DEF Confirmed
  <2>2. RunFacts(t)'
    BY <1>0, <2>1 DEF PageFacts, RunFacts
  <2>3. ShownFacts(t)'
    BY <1>0, <2>1 DEF PageFacts, ShownFacts, Advances, Ended
  <2> QED
    BY <2>2, <2>3 DEF PageFacts
<1>13. CASE Land(t)
  <2>1. copy[t] = "flying" /\ UNCHANGED <<pc, plan, to, view, screen, arrived, refund, looks, sweeps>>
    BY <1>13 DEF Land
  <2>2. RunFacts(t)'
    BY <1>0, <1>2, <2>1 DEF PageFacts, RunFacts
  <2>3. ShownFacts(t)'
    BY <1>0, <2>1 DEF PageFacts, ShownFacts, Advances, Ended
  <2> QED
    BY <2>2, <2>3 DEF PageFacts
<1>14. CASE Look(t)
  <2>1. /\ pc[t] = "look" /\ pc'[t] \in {"over", "look", "tokens", "sol"}
        /\ pc'[t] \in {"tokens", "sol"} => looks'[t] <= MaxLooks /\ sweeps'[t] < MaxSweeps
        /\ Rest
    BY <1>0, <1>14, RouteAssumption DEF Look, NextLook, EmptyFrom, Rest
  <2>2. RunFacts(t)'
    BY <1>0, <2>1 DEF PageFacts, RunFacts, Rest
  <2>3. ShownFacts(t)'
    BY <1>0, <2>1 DEF PageFacts, ShownFacts, Advances, Ended, Rest
  <2> QED
    BY <2>2, <2>3 DEF PageFacts
<1>15. CASE SendBack(t)
  <2>1. /\ pc[t] = "over" /\ pc'[t] \in {"tokens", "sol"} /\ screen[t] = "refunded"
        /\ refund'[t] = "sending" /\ copy'[t] = copy[t] /\ to'[t] = to[t]
        /\ view'[t] = view[t] /\ screen'[t] = screen[t] /\ arrived'[t] = arrived[t]
    BY <1>0, <1>15 DEF SendBack, EmptyFrom
  <2>2. RunFacts(t)'
    BY <1>0, <2>1 DEF PageFacts, RunFacts
  <2>3. ShownFacts(t)'
    BY <1>0, <2>1 DEF PageFacts, ShownFacts, Advances, Ended
  <2> QED
    BY <2>2, <2>3 DEF PageFacts
<1>16. CASE EmptyTokens(t)
  <2>1. /\ pc[t] = "tokens" /\ pc'[t] = "sol" /\ Rest
        /\ looks'[t] = looks[t] /\ sweeps'[t] = sweeps[t]
    BY <1>0, <1>16 DEF EmptyTokens, Rest
  <2>2. RunFacts(t)'
    BY <1>0, <2>1 DEF PageFacts, RunFacts, Rest
  <2>3. ShownFacts(t)'
    BY <1>0, <2>1 DEF PageFacts, ShownFacts, Advances, Ended, Rest
  <2> QED
    BY <2>2, <2>3 DEF PageFacts
<1>17. CASE EmptySol(t) \/ EmptyFails(t)
  <2>1. /\ pc[t] \in {"tokens", "sol"} /\ pc'[t] \in {"over", "look"} /\ refund'[t] # "sending"
        /\ copy'[t] = copy[t] /\ to'[t] = to[t] /\ view'[t] = view[t]
        /\ screen'[t] = screen[t] /\ arrived'[t] = arrived[t]
    BY <1>0, <1>17 DEF EmptySol, EmptyFails, Emptied
  <2>2. RunFacts(t)'
    BY <1>0, <2>1 DEF PageFacts, RunFacts
  <2>3. ShownFacts(t)'
    BY <1>0, <2>1 DEF PageFacts, ShownFacts, Advances, Ended
  <2> QED
    BY <2>2, <2>3 DEF PageFacts
<1>18. CASE Retry(t)
  <2>1. /\ pc[t] = "over" /\ pc'[t] = "lookup" /\ screen[t] = "failed"
        /\ screen'[t] = RetryPhase(t) /\ copy'[t] = copy[t] /\ to'[t] = to[t]
        /\ view'[t] = view[t] /\ arrived'[t] = arrived[t] /\ refund'[t] = refund[t]
    BY <1>0, <1>18 DEF Retry
  <2>2. view[t] \notin Ended
    BY <1>0, <2>1 DEF PageFacts, ShownFacts
  <2>3. /\ RetryPhase(t) \in {"waiting", "signing", "routing"}
        /\ RetryPhase(t) = "routing" => view[t] = "active"
    BY <1>0, <2>2 DEF RetryPhase, PhaseFor, Ended
  <2>4. RunFacts(t)'
    BY <1>0, <2>1, <2>3 DEF PageFacts, RunFacts
  <2>5. ShownFacts(t)'
    BY <1>0, <2>1, <2>2, <2>3 DEF PageFacts, ShownFacts, Advances, Ended
  <2> QED
    BY <2>4, <2>5 DEF PageFacts
<1>19. CASE Close(t)
  <2>1. /\ pc'[t] = "away" /\ copy'[t] = "none" /\ view'[t] = "none" /\ screen'[t] = "waiting"
        /\ arrived'[t] = FALSE /\ refund'[t] = "idle"
    BY <1>0, <1>19 DEF Close
  <2> QED
    BY <2>1 DEF PageFacts, RunFacts, ShownFacts, Ended
<1>20. CASE Reopen(t) \/ ReopenHalfBlind(t) \/ \E w \in Wallets : Choose(t, w)
  <2>1. /\ pc[t] \in {"away", "ask"} /\ pc'[t] \in {"ask", "lookup"}
        /\ copy'[t] = copy[t] /\ view'[t] = view[t] /\ screen'[t] = screen[t]
        /\ arrived'[t] = arrived[t] /\ refund'[t] = refund[t]
    BY <1>0, <1>20 DEF Reopen, ReopenHalfBlind, Opened, Choose
  <2>2. pc'[t] = "lookup" => to'[t] \in Wallets
    BY <1>0, <1>20, RouteInvByPage DEF RouteFacts, Reopen, ReopenHalfBlind, Opened, Choose
  <2>3. RunFacts(t)'
    BY <1>0, <2>1, <2>2 DEF PageFacts, RunFacts
  <2>4. ShownFacts(t)'
    BY <1>0, <2>1 DEF PageFacts, ShownFacts, Advances, Ended
  <2> QED
    BY <2>3, <2>4 DEF PageFacts
<1>21. CASE LookFails(t)
  <2>1. pc[t] = "look" /\ pc'[t] = "look" /\ Rest
    BY <1>0, <1>21 DEF LookFails, Rest, runVars
  <2>2. RunFacts(t)'
    BY <1>0, <2>1 DEF PageFacts, RunFacts, Rest
  <2>3. ShownFacts(t)'
    BY <1>0, <2>1 DEF PageFacts, ShownFacts, Advances, Ended, Rest
  <2> QED
    BY <2>2, <2>3 DEF PageFacts
<1> QED
  BY <1>3, <1>4, <1>5, <1>6, <1>7, <1>8, <1>9, <1>10, <1>11, <1>12, <1>13, <1>14, <1>15,
     <1>16, <1>17, <1>18, <1>19, <1>20, <1>21
     DEF RunStep, UserStep, Mishap

(***************************************************************************)
(* The theorems.                                                           *)
(***************************************************************************)
\* The invariant holds when the first page starts its run.
LEMMA InitRouteInv == Init => RouteInv
<1> SUFFICES ASSUME Init PROVE RouteInv
  OBVIOUS
<1> USE RouteAssumption
<1>1. MoneyTypes
  BY DEF Init, MoneyTypes, NoTransfer, Places, Statuses, Assets
<1>2. RunTypes
  BY DEF Init, RunTypes, Pcs, Assets
<1>3. PageTypes
  BY DEF Init, PageTypes, Statuses, Screens
<1>4. HandedOver
  BY DEF Init, HandedOver
<1>5. ASSUME NEW t \in Tabs PROVE PageFacts(t)
  <2>1. RunFacts(t)
    BY DEF Init, RunFacts
  <2>2. ShownFacts(t)
    BY DEF Init, ShownFacts, Ended
  <2> QED
    BY <2>1, <2>2 DEF PageFacts
<1> QED
  BY <1>1, <1>2, <1>3, <1>4, <1>5, RouteInvByPage DEF RouteFacts, Init, NoTransfer

\* Every step keeps it.
LEMMA NextRouteInv == RouteInv /\ [Next]_vars => RouteInv'
<1> SUFFICES ASSUME RouteInv, [Next]_vars PROVE RouteInv'
  OBVIOUS
<1>0. /\ MoneyTypes /\ RunTypes /\ PageTypes /\ HandedOver
      /\ WalletsNamed /\ PlanOpen /\ Emptying
      /\ \A u \in Tabs : PageFacts(u)
  BY RouteInvByPage DEF RouteFacts, RouteInv
<1>1. ASSUME MoneyTypes', RunTypes', PageTypes', Advances, HandedOver',
             \A u \in Tabs : PageFacts(u)'
      PROVE  RouteInv'
  <2>1. mh'.status # "none" => mh'.to \in Wallets
    BY <1>1 DEF Advances
  <2>2. RouteFacts'
    BY <1>1, <2>1 DEF RouteFacts
  <2>3. RouteInv' <=> RouteFacts'
    BY RouteInvByPage, PTL
  <2> QED
    BY <2>2, <2>3
<1>2. ASSUME NEW t \in Tabs, RunStep(t) \/ UserStep(t) \/ Mishap(t) \/ Land(t)
      PROVE  RouteInv'
  <2>1. MoneyTypes' /\ Advances /\ HandedOver'
    BY <1>2, PageStepMoney
  <2>2. RunTypes' /\ PageTypes'
    BY <1>0, <1>2, PageStepTypes
  <2>3. ASSUME NEW u \in Tabs PROVE PageFacts(u)'
    <3>1. CASE u = t
      BY <1>2, <2>1, <2>2, <3>1, PageOwn
    <3>2. CASE u # t
      BY <1>0, <1>2, <2>1, <3>2, PageFrame, PageSameKeeps
    <3> QED
      BY <3>1, <3>2
  <2> QED
    BY <1>1, <2>1, <2>2, <2>3
<1>3. ASSUME UNCHANGED <<runVars, pageVars, leftVars>>, MoneyTypes', Advances, HandedOver'
      PROVE  RouteInv'
  <2>1. RunTypes' /\ PageTypes'
    BY <1>0, <1>3 DEF RunTypes, PageTypes, runVars, pageVars, leftVars
  <2>2. \A u \in Tabs : PageSame(u)
    BY <1>3 DEF PageSame, runVars, pageVars, leftVars
  <2> QED
    BY <1>0, <1>1, <1>3, <2>1, <2>2, PageSameKeeps
<1>4. CASE Outside
  <2>1. UNCHANGED <<runVars, pageVars, leftVars>>
    BY <1>4 DEF Outside, Deposit, StrayLands, StrayDies, KeeperStarts, Complete, GiveBack,
                RouteEnds, RentBack, Expire
  <2> QED
    BY <1>3, <1>4, <2>1, OutsideMoney
<1>5. CASE UNCHANGED vars
  <2>1. UNCHANGED <<runVars, pageVars, leftVars>> /\ UNCHANGED <<moneyVars, capVars>>
    BY <1>5 DEF vars
  <2>2. MoneyTypes' /\ Advances /\ HandedOver'
    BY <1>0, <2>1 DEF MoneyTypes, Advances, HandedOver, WalletsNamed, moneyVars, capVars
  <2> QED
    BY <1>3, <2>1, <2>2
<1> QED
  BY <1>2, <1>4, <1>5 DEF Next

\* The invariant that carries the results below.
THEOREM RouteInvariant == Spec => []RouteInv
BY InitRouteInv, NextRouteInv, PTL DEF Spec

\* Every variable keeps its kind and every counter its bound, for any number of
\* pages, wallets, transactions, looks and faults.
THEOREM RouteTypesHold == Spec => []TypeOK
<1>1. RouteInv => TypeOK
  BY DEF RouteInv, MoneyTypes, RunTypes, PageTypes, TypeOK
<1> QED
  BY <1>1, RouteInvariant, PTL

\* However many pages are told however many wallets, all the money that leaves the
\* link goes to the wallet of the one transfer.
THEOREM PaidToOneRecipient == Spec => []OneRecipient
<1>1. RouteInv => OneRecipient
  BY DEF RouteInv
<1> QED
  BY <1>1, RouteInvariant, PTL

\* No page empties the router while the route can still take from it.
THEOREM EmptiedAtTheEnd == Spec => []HandedOverAtTheEnd
<1>1. RouteInv => HandedOverAtTheEnd
  BY DEF RouteInv
<1> QED
  BY <1>1, RouteInvariant, PTL

\* No screen, whatever it missed, is ahead of what MultiHopper has done.
THEOREM ScreenIsNotAhead == Spec => []ScreenNotAhead
<1>1. RouteInv => ScreenNotAhead
  BY DEF RouteInv
<1> QED
  BY <1>1, RouteInvariant, PTL

\* Once a page shows the end of the route, only closing it takes that away.
THEOREM EndStays == Spec => EndStaysOnScreen
<1> DEFINE Stays(t) == screen[t] \in {"done", "refunded"}
                         => screen'[t] = screen[t] \/ pc'[t] = "away"
<1>1. ASSUME RouteInv, [Next]_vars, NEW t \in Tabs PROVE Stays(t)
  <2> SUFFICES ASSUME screen[t] \in {"done", "refunded"}
               PROVE  screen'[t] = screen[t] \/ pc'[t] = "away"
    OBVIOUS
  <2>1. pc[t] \in {"look", "tokens", "sol", "over"} /\ RunTypes /\ PageTypes
    BY <1>1 DEF RouteInv, EndShown
  <2>2. CASE RunStep(t)
    <3>1. Look(t) \/ EmptyTokens(t) \/ EmptySol(t)
      BY <2>1, <2>2 DEF RunStep, Lookup, FundingSeen, Create, Prepare, PrepareRefused, Send,
                        Confirmed, TxFailed, KeeperReported, Reported, Poll
    <3> QED
      BY <3>1 DEF Look, EmptyTokens, EmptySol, pageVars
  <2>3. CASE UserStep(t)
    BY <2>1, <2>3 DEF UserStep, Retry, SendBack, Reopen, Choose
  <2>4. CASE Mishap(t)
    <3>1. LookFails(t) \/ EmptyFails(t) \/ Close(t)
      BY <2>1, <2>4 DEF Mishap, CreateLost, ConfirmTimesOut, Stale, RequestFails, ReopenHalfBlind
    <3> QED
      BY <2>1, <3>1 DEF LookFails, EmptyFails, Close, Go, RunTypes, pageVars
  <2>5. CASE Land(t)
    BY <2>5 DEF Land, pageVars
  <2>6. CASE \E u \in Tabs : u # t /\ (RunStep(u) \/ UserStep(u) \/ Mishap(u) \/ Land(u))
    BY <1>1, <2>6, PageFrame DEF PageSame
  <2>7. CASE Outside
    BY <2>7 DEF Outside, Deposit, StrayLands, StrayDies, KeeperStarts, Complete, GiveBack,
                RouteEnds, RentBack, Expire, pageVars
  <2>8. CASE UNCHANGED vars
    BY <2>8 DEF vars, pageVars
  <2> QED
    BY <1>1, <2>2, <2>3, <2>4, <2>5, <2>6, <2>7, <2>8 DEF Next
<1>2. RouteInv /\ [Next]_vars => \A t \in Tabs : Stays(t)
  BY <1>1
<1>3. RouteInv /\ [Next]_vars =>
        [\A t \in Tabs : screen[t] \in {"done", "refunded"}
           => screen'[t] = screen[t] \/ pc'[t] = "away"]_vars
  BY <1>2
<1> QED
  BY <1>3, RouteInvariant, PTL DEF Spec, EndStaysOnScreen

(***************************************************************************)
(* What is said of the gift, when MultiHopper does not estimate a route of *)
(* the costs alone: the transfer then carries the gift.                    *)
(***************************************************************************)
GiftHome == at["gift"] \in Wallets

\* Where the route has the gift, and that it is signed before it is under way.
GiftCarried ==
  /\ mh.status # "none" => mh.asset = Gift
  /\ mh.status \in {"active"} \cup Ended => landed = Txs
  /\ mh.status = "completed" => GiftHome
  /\ mh.status = "refunded" => GiftHome \/ at["gift"] = "router"

\* What a page is about to create with, and what its refund has done so far.
GiftSent(t) ==
  /\ pc[t] = "create" => want[t] = Gift
  /\ pc[t] = "sol" /\ refund[t] = "sending" /\ Gift = "usdc" => GiftHome
  /\ refund[t] = "done" => GiftHome

GiftInv == GiftCarried /\ \A t \in Tabs : GiftSent(t)

LEMMA GiftCarriedSame ==
  ASSUME GiftCarried, UNCHANGED <<at, mh, landed>>
  PROVE  GiftCarried' /\ (GiftHome => GiftHome')
BY DEF GiftCarried, GiftHome

\* A transaction of the route that lands never takes a gift that is home.
LEMMA GiftCarriedCarry ==
  ASSUME RouteInv, GiftCarried, NEW more \in SUBSET Txs, Carry(more), UNCHANGED mh
  PROVE  GiftCarried' /\ (GiftHome => GiftHome')
<1>1. at \in [Pieces -> Places] /\ landed \subseteq Txs
  BY DEF RouteInv, MoneyTypes
<1>2. CASE landed = Txs
  BY <1>1, <1>2, GiftCarriedSame DEF Carry
<1>3. CASE landed # Txs
  <2>1. mh.status \notin {"active"} \cup Ended
    BY <1>3 DEF GiftCarried
  <2>2. ~ GiftHome
    BY <2>1, HandedOverIsBoth DEF HandedOver, GiftHome, Pieces
  <2> QED
    BY <2>1, <2>2 DEF GiftCarried, Ended
<1> QED
  BY <1>2, <1>3

\* A hand-over moves the gift to the recipient or not at all.
LEMMA GiftCarriedEmpty ==
  ASSUME RouteInv, GiftCarried, NEW t \in Tabs, pc[t] \in {"tokens", "sol"}, Empties(t),
         UNCHANGED <<mh, landed>>
  PROVE  /\ GiftCarried' /\ (GiftHome => GiftHome')
         /\ pc[t] = "tokens" /\ Gift = "usdc" => GiftHome'
         /\ pc[t] = "sol" /\ Gift = "sol" => GiftHome'
<1> USE RouteAssumption
<1>1. mh.status \in Ended /\ mh.to \in Wallets /\ at \in [Pieces -> Places]
  BY DEF RouteInv, MoneyTypes, HandedOverAtTheEnd, WalletsNamed, Ended
<1>2. Payee(t) = mh.to
  BY <1>1 DEF RouteInv, Emptying, Payee, PayTo, PayBackTo, Ended
<1>3. GiftHome \/ at["gift"] = "router"
  BY <1>1 DEF GiftCarried, Ended
<1>4. "router" \notin Wallets /\ "gift" \in Pieces
  BY DEF Pieces
<1>5. PICK S : /\ HandOver(S, mh.to)
               /\ pc[t] = "tokens" => S = Pieces \ SolPieces
               /\ pc[t] = "sol" => S = SolPieces
  BY <1>2 DEF Empties
<1>6. /\ GiftHome => GiftHome'
      /\ "gift" \in S => GiftHome'
      /\ at'["gift"] = at["gift"] \/ GiftHome'
  BY <1>1, <1>3, <1>4, <1>5 DEF HandOver, InRouter, GiftHome
<1>7. /\ pc[t] = "tokens" /\ Gift = "usdc" => "gift" \in S
      /\ pc[t] = "sol" /\ Gift = "sol" => "gift" \in S
  BY <1>4, <1>5 DEF SolPieces
<1> QED
  BY <1>6, <1>7 DEF GiftCarried

\* A step of a page keeps the gift with the route, and home once it is home.
LEMMA GiftPageMoney ==
  ASSUME ~ TakesGas, RouteInv, GiftInv, NEW t \in Tabs,
         RunStep(t) \/ UserStep(t) \/ Mishap(t) \/ Land(t)
  PROVE  GiftCarried' /\ (GiftHome => GiftHome')
<1> USE DEF moneyVars
<1>0. GiftCarried /\ GiftSent(t)
  BY DEF GiftInv
<1>1. CASE \/ Lookup(t) \/ FundingSeen(t) \/ Prepare(t) \/ PrepareRefused(t) \/ Send(t)
           \/ Confirmed(t) \/ TxFailed(t) \/ KeeperReported(t) \/ Poll(t) \/ Look(t)
           \/ UserStep(t) \/ ConfirmTimesOut(t) \/ Stale(t) \/ RequestFails(t)
           \/ LookFails(t) \/ Close(t) \/ ReopenHalfBlind(t)
  <2>1. UNCHANGED <<at, mh, landed>>
    BY <1>1 DEF Lookup, FundingSeen, Prepare, PrepareRefused, Send, Confirmed, TxFailed,
                KeeperReported, Poll, Look, UserStep, Retry, SendBack, Reopen, Choose,
                ConfirmTimesOut, Stale, RequestFails, LookFails, Close, ReopenHalfBlind, Opened
  <2> QED
    BY <1>0, <2>1, GiftCarriedSame
<1>2. CASE Create(t) \/ CreateLost(t)
  <2>1. want[t] = Gift /\ CreateOnce(t) /\ UNCHANGED <<at, landed>>
    BY <1>0, <1>2 DEF Create, CreateLost, GiftSent
  <2> QED
    BY <1>0, <2>1 DEF CreateOnce, GiftCarried, GiftHome, Ended
<1>3. CASE Reported(t)
  <2>1. /\ TakeOver /\ UNCHANGED <<at, landed>>
        /\ mh \in [status : Statuses \cup {"none"}, asset : Assets, to : Wallets \cup {NoOne}]
    BY <1>3 DEF Reported, RouteInv, MoneyTypes
  <2> QED
    BY <1>0, <2>1 DEF TakeOver, GiftCarried, GiftHome, Ended
<1>4. CASE EmptyTokens(t) \/ EmptySol(t) \/ EmptyFails(t)
  <2>1. /\ pc[t] \in {"tokens", "sol"} /\ UNCHANGED <<mh, landed>>
        /\ Empties(t) \/ UNCHANGED at
    BY <1>4 DEF EmptyTokens, EmptySol, EmptyFails
  <2> QED
    BY <1>0, <2>1, GiftCarriedEmpty, GiftCarriedSame
<1>5. CASE Land(t)
  <2>1. copy[t] = "flying" /\ Carry({NextTx(t)}) /\ UNCHANGED mh
    BY <1>5 DEF Land
  <2>2. NextTx(t) \in Txs
    BY <2>1, NextTxPending DEF RouteInv, RunTypes, PlanOpen
  <2> QED
    BY <1>0, <2>1, <2>2, GiftCarriedCarry
<1> QED
  BY <1>1, <1>2, <1>3, <1>4, <1>5 DEF RunStep, Mishap

\* So does a step of the services.
LEMMA GiftOutside ==
  ASSUME RouteInv, GiftInv, Outside
  PROVE  GiftCarried' /\ (GiftHome => GiftHome')
<1> USE RouteAssumption
<1>0. /\ GiftCarried /\ at \in [Pieces -> Places]
      /\ mh \in [status : Statuses \cup {"none"}, asset : Assets, to : Wallets \cup {NoOne}]
      /\ mh.status # "none" => mh.to \in Wallets
      /\ GiftHome => mh.status \in Ended
  BY HandedOverIsBoth DEF GiftInv, RouteInv, MoneyTypes, WalletsNamed, HandedOver, GiftHome, Pieces
<1>1. CASE \E d \in Deposits : Deposit(d)
  <2>1. /\ UNCHANGED <<mh, landed>>
        /\ at'["gift"] = at["gift"] \/ (at["gift"] = "swap" /\ at'["gift"] = "router")
    BY <1>0, <1>1 DEF Deposit, Pieces
  <2>2. "swap" \notin Wallets
    OBVIOUS
  <2> QED
    BY <1>0, <2>1, <2>2 DEF GiftCarried, GiftHome
<1>2. CASE \E x \in Txs : StrayLands(x)
  BY <1>0, <1>2, GiftCarriedCarry DEF StrayLands
<1>3. CASE \E x \in Txs : StrayDies(x)
  BY <1>0, <1>3, GiftCarriedSame DEF StrayDies
<1>4. CASE KeeperStarts \/ Expire
  BY <1>0, <1>4 DEF KeeperStarts, Expire, TakeOver, GiftCarried, GiftHome, Ended
<1>5. CASE Complete \/ GiveBack
  <2>1. PICK status \in Ended, place \in Places :
          /\ RouteEnds(status, place)
          /\ status = "completed" => place = mh.to
          /\ status = "refunded" => place = "router"
    BY <1>0, <1>5 DEF Complete, GiveBack, RouteEnds, Ended, Places
  <2>2. Carried(mh.asset) = "gift" /\ "gift" \in Pieces
    BY <1>0, <2>1 DEF RouteEnds, GiftCarried, Carried, Pieces
  <2>3. /\ mh.status = "active" /\ mh' = [mh EXCEPT !.status = status]
        /\ at'["gift"] = place /\ UNCHANGED landed
    BY <1>0, <2>1, <2>2 DEF RouteEnds
  <2> QED
    BY <1>0, <2>1, <2>3 DEF GiftCarried, GiftHome, Ended
<1>6. CASE RentBack
  <2>1. UNCHANGED <<mh, landed>> /\ at'["gift"] = at["gift"]
    BY <1>0, <1>6 DEF RentBack, Pieces
  <2> QED
    BY <1>0, <2>1 DEF GiftCarried, GiftHome
<1> QED
  BY <1>1, <1>2, <1>3, <1>4, <1>5, <1>6 DEF Outside

\* A page creates with the gift's asset, and its refund is done when the gift is home.
LEMMA GiftPageOwn ==
  ASSUME ~ TakesGas, RouteInv, GiftInv, GiftHome => GiftHome', NEW t \in Tabs,
         RunStep(t) \/ UserStep(t) \/ Mishap(t) \/ Land(t)
  PROVE  GiftSent(t)'
<1>0. /\ RunTypes /\ PageTypes /\ GiftCarried /\ GiftSent(t)
      /\ pc[t] = "look" => refund[t] # "sending"
  BY DEF RouteInv, GiftInv, Emptying
<1> USE DEF RunTypes, PageTypes, Go, pageVars, leftVars, runVars
\* A move to another place of the run, with the refund as it was or begun anew.
<1>1. ASSUME pc'[t] \notin {"create", "sol"},
             refund'[t] = refund[t] \/ refund'[t] # "done"
      PROVE  GiftSent(t)'
  BY <1>0, <1>1 DEF GiftSent
<1>2. ASSUME NEW status, Report(t, status) PROVE GiftSent(t)'
  <2>1. NextPc(PhaseFor(status)) \notin {"create", "sol"}
    BY DEF NextPc
  <2>2. pc'[t] = NextPc(PhaseFor(status)) /\ refund'[t] = refund[t]
    BY <1>0, <1>2 DEF Report
  <2> QED
    BY <1>1, <2>1, <2>2
<1>3. Fail(t) => GiftSent(t)'
  BY <1>0, <1>1 DEF Fail
<1>4. Again(t) => GiftSent(t)'
  BY <1>0, <1>1, <1>3 DEF Again
<1>5. CASE \/ CreateLost(t) \/ PrepareRefused(t) \/ TxFailed(t) \/ RequestFails(t)
           \/ ConfirmTimesOut(t) \/ Stale(t) \/ Reported(t) \/ Poll(t)
  BY <1>2, <1>3, <1>4, <1>5
     DEF CreateLost, PrepareRefused, TxFailed, RequestFails, ConfirmTimesOut, Stale, Reported, Poll
<1>6. CASE Lookup(t)
  BY <1>0, <1>1, <1>2, <1>6 DEF Lookup
<1>7. CASE Prepare(t)
  BY <1>0, <1>1, <1>2, <1>7 DEF Prepare
<1>8. CASE Send(t)
  BY <1>0, <1>1, <1>3, <1>8 DEF Send
<1>9. CASE Create(t) \/ KeeperReported(t) \/ Confirmed(t)
  <2>1. pc'[t] \in {"prepare", "report", "send", "keeper"} /\ refund'[t] = refund[t]
    BY <1>0, <1>9 DEF Create, KeeperReported, Confirmed
  <2> QED
    BY <1>1, <2>1
<1>10. CASE FundingSeen(t)
  <2>1. AssetOf(t) = Gift
    BY <1>10 DEF FundingSeen, FundingReached
  <2>2. pc'[t] = "create" /\ want'[t] = Gift /\ refund'[t] = refund[t]
    BY <1>0, <1>10, <2>1 DEF FundingSeen
  <2> QED
    BY <1>0, <2>2 DEF GiftSent
<1>11. CASE Look(t) \/ LookFails(t)
  <2>1. pc'[t] # "create" /\ refund'[t] = refund[t] /\ pc[t] = "look"
    BY <1>0, <1>11 DEF Look, LookFails, EmptyFrom
  <2> QED
    BY <1>0, <2>1 DEF GiftSent
<1>12. CASE SendBack(t)
  <2>1. mh.asset = Gift
    BY <1>0, <1>12 DEF SendBack, GiftCarried, RouteInv, ScreenNotAhead
  <2>2. /\ pc'[t] # "create" /\ refund'[t] = "sending"
        /\ Gift = "usdc" => pc'[t] # "sol"
    BY <1>0, <1>12, <2>1 DEF SendBack, EmptyFrom
  <2> QED
    BY <2>2 DEF GiftSent
<1>13. CASE EmptyTokens(t)
  <2>1. /\ pc[t] = "tokens" /\ Empties(t) /\ UNCHANGED <<mh, landed>>
        /\ pc'[t] = "sol" /\ refund'[t] = refund[t]
    BY <1>0, <1>13 DEF EmptyTokens
  <2> QED
    BY <1>0, <2>1, GiftCarriedEmpty DEF GiftSent
<1>14. CASE EmptySol(t)
  <2>1. /\ pc[t] = "sol" /\ Empties(t) /\ UNCHANGED <<mh, landed>>
        /\ pc'[t] \in {"over", "look"}
        /\ refund'[t] = IF refund[t] = "sending" THEN "done" ELSE refund[t]
    BY <1>0, <1>14 DEF EmptySol, Emptied
  <2>2. refund[t] = "sending" => GiftHome'
    BY <1>0, <2>1, GiftCarriedEmpty, RouteAssumption DEF GiftSent
  <2> QED
    BY <1>0, <2>1, <2>2 DEF GiftSent
<1>15. CASE EmptyFails(t)
  <2>1. pc'[t] \in {"over", "look"} /\ (refund'[t] = refund[t] \/ refund'[t] = "failed")
    BY <1>0, <1>15 DEF EmptyFails, Emptied
  <2> QED
    BY <1>1, <2>1
<1>16. CASE UserStep(t) /\ ~ SendBack(t)
  <2>1. pc'[t] \in {"lookup", "ask"} /\ refund'[t] = refund[t]
    BY <1>0, <1>16 DEF UserStep, Retry, Reopen, Opened, Choose
  <2> QED
    BY <1>1, <2>1
<1>17. CASE Close(t) \/ ReopenHalfBlind(t)
  <2>1. pc'[t] \in {"away", "ask"} /\ (refund'[t] = refund[t] \/ refund'[t] = "idle")
    BY <1>0, <1>17 DEF Close, ReopenHalfBlind, Opened
  <2> QED
    BY <1>1, <2>1
<1>18. CASE Land(t)
  BY <1>0, <1>18 DEF Land, GiftSent
<1> QED
  BY <1>5, <1>6, <1>7, <1>8, <1>9, <1>10, <1>11, <1>12, <1>13, <1>14, <1>15, <1>16, <1>17, <1>18
     DEF RunStep, Mishap

LEMMA NextGiftInv ==
  ASSUME ~ TakesGas, RouteInv, GiftInv, [Next]_vars
  PROVE  GiftInv'
<1>0. GiftCarried /\ \A u \in Tabs : GiftSent(u)
  BY DEF GiftInv
<1>1. ASSUME NEW u \in Tabs, PageSame(u), GiftHome => GiftHome'
      PROVE  GiftSent(u)'
  BY <1>0, <1>1 DEF GiftSent, PageSame
<1>2. ASSUME NEW t \in Tabs, RunStep(t) \/ UserStep(t) \/ Mishap(t) \/ Land(t)
      PROVE  GiftInv'
  <2>1. GiftCarried' /\ (GiftHome => GiftHome')
    BY <1>2, GiftPageMoney
  <2>2. ASSUME NEW u \in Tabs PROVE GiftSent(u)'
    BY <1>1, <1>2, <2>1, PageFrame, GiftPageOwn
  <2> QED
    BY <2>1, <2>2 DEF GiftInv
<1>3. ASSUME UNCHANGED <<runVars, pageVars, leftVars>>, GiftCarried', GiftHome => GiftHome'
      PROVE  GiftInv'
  BY <1>1, <1>3 DEF GiftInv, PageSame, runVars, pageVars, leftVars
<1>4. CASE Outside
  <2>1. UNCHANGED <<runVars, pageVars, leftVars>>
    BY <1>4 DEF Outside, Deposit, StrayLands, StrayDies, KeeperStarts, Complete, GiveBack,
                RouteEnds, RentBack, Expire
  <2> QED
    BY <1>3, <1>4, <2>1, GiftOutside
<1>5. CASE UNCHANGED vars
  BY <1>0, <1>3, <1>5, GiftCarriedSame DEF vars, moneyVars
<1> QED
  BY <1>2, <1>4, <1>5 DEF Next

\* "It arrived" and "Sent to your wallet" are true of the gift, on every page, for as
\* long as MultiHopper refuses to estimate a route of the costs alone; when it does
\* not, they are not (the early look of a reopened link).
THEOREM SaidIsTrue == ~ TakesGas => (Spec => []SaidIsSo)
<1> SUFFICES ASSUME ~ TakesGas PROVE Spec => []SaidIsSo
  OBVIOUS
<1>1. Init => GiftInv
  BY DEF Init, NoTransfer, GiftInv, GiftCarried, GiftSent, Ended
<1>2. RouteInv /\ GiftInv /\ [Next]_vars => GiftInv'
  BY NextGiftInv
<1>3. RouteInv /\ GiftInv => SaidIsSo
  BY DEF RouteInv, ScreenNotAhead, GiftInv, GiftCarried, GiftSent, GiftHome, SaidIsSo
<1> QED
  BY <1>1, <1>2, <1>3, RouteInvariant, PTL DEF Spec
=============================================================================
