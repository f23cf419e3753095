-------------------------------- MODULE SendOn --------------------------------
(***************************************************************************)
(* The send-on page (components/SendOn.tsx) from "Where should it go?" to  *)
(* the sweep, with the destinations of lib/destination.ts, the generated   *)
(* Zcash wallet, the transparent trust boundary and the Solana exit, whose *)
(* reserved deposit it classifies, checks and pays.                        *)
(*                                                                         *)
(* The core answers classify_address and new_wallet in the order it is     *)
(* asked (CoreRpc), as late as a proving key takes to warm up.  The two    *)
(* destinations that end in a pasted Zcash address differ only in words    *)
(* and are one here.                                                       *)
(* What a sweep may end on is SweepRace's; here it goes through, runs dry  *)
(* (?dry=), fails or loses a race.  A swap that was paid is tracked by     *)
(* SwapTracker; a route has a tracker of its own (RouteRun).               *)
(***************************************************************************)
EXTENDS SolanaExit, SwapTracker

CONSTANT MaxAsks   \* calls of the core on their way at once (bound)

ASSUME AsksAssumption == MaxAsks \in Nat

VARIABLES send,       \* the phase of sendReducer; "raced" is failed and raced, "dry"
                      \* is sent without a broadcast
          choice,     \* "none", "paste", "wallet" or "solana"
          dest,       \* the address box: its text and the core's word on it
          wallet,     \* the address of the generated wallet, or Empty
          walletDest, \* the core's word on its address, once there
          wroteDown, transparentAck, atGate,
          swap,       \* the plan whose deposit is the destination, or NoPlan
          asks,       \* calls the core has not answered
          paid,       \* the sweep_envelope call behind the screen (history)
          ticked      \* the address the last tick was given to since the choice, of
                      \* the transparent gate or of the words (history)

pageVars == <<send, choice, dest, wallet, walletDest, wroteDown, transparentAck,
              atGate, swap, asks, paid, ticked>>
vars == <<exitVars, pageVars, trackerVars>>

\* Zcash addresses to paste, and the wallet's.
Unified == <<"unified", 0>>
Transparent(no) == <<"transparent", no>>
Texts == {Unified, Transparent(1), Transparent(2)}
WalletAddress(no) == <<"wallet", no>>

NoDest == [input |-> Empty, kind |-> ""]
Unread(input) == [input |-> input, kind |-> ""]
NoSweep == [to |-> Empty, choice |-> "none", swap |-> NoPlan, receive |-> 0]

\* classify_address.
KindOf(addr) ==
  CASE addr[1] \in {"unified", "wallet", "unvouched", "other",
                   "elsewhere"}                               -> "unified_orchard"
    [] addr[1] \in {"transparent", "deposit", "extra"}         -> "transparent"
    [] OTHER                                                   -> "invalid"

\* describeDestination: what the page makes of it.
Described(addr) == [input |-> addr, kind |-> KindOf(addr)]

CanContinue(d) == d.kind \in Sendable

\* Calls of the core, in order: what they are for, the text, the plan they check.
AskFor(what, text) == [what |-> what, text |-> text, plan |-> NoPlan]
Room == Len(asks) < MaxAsks

\* The calls q, after an effect was cleaned up or a newer keystroke counts (destId): the
\* core still answers, and nobody listens to those of one kind.
Unheard == AskFor("", Empty)

Deaf(q, what) == [i \in DOMAIN q |-> IF q[i].what = what THEN Unheard ELSE q[i]]

Dropping(what) == Deaf(asks, what)

Init ==
  /\ exit = Fresh /\ asked = {} /\ requests = 0 /\ turns = 0 /\ strays = {}
  /\ send = "choose" /\ choice = "none"
  /\ dest = NoDest /\ wallet = Empty /\ walletDest = NoDest
  /\ wroteDown = FALSE /\ transparentAck = FALSE /\ atGate = FALSE
  /\ swap = NoPlan /\ asks = << >>
  /\ paid = NoSweep /\ ticked = Empty
  /\ Untracked

(***************************************************************************)
(* What is on the screen.                                                  *)
(***************************************************************************)
Active == CASE choice = "wallet" -> walletDest
            [] choice = "none"   -> NoDest
            [] OTHER             -> dest

\* active, which is null until the wallet's address has been classified.
NoActive == choice = "none" \/ (choice = "wallet" /\ walletDest = NoDest)

\* The exit owns the whole screen, and lives as long as it is on it.
InExit == send = "choose" /\ choice = "solana" /\ swap = NoPlan

OnGate == atGate /\ ~InExit /\ (send = "choose" \/ (send = "review" /\ NoActive))

\* tooSmall: not even the cheapest destination leaves anything.
TooSmall == ~PageAmounts(InEnvelope, "unified_orchard", 0, Spends).ok

OnChooser ==
  /\ \/ send = "choose" /\ ~TooSmall
     \/ send = "review" /\ NoActive
  /\ ~InExit /\ ~atGate

\* A failed sweep that lost no race may be tried again, here or elsewhere.
OnFailed == send = "failed"

OnReview == send = "review" /\ ~NoActive

\* amounts.
Amounts ==
  IF swap.extra.zat > 0
    THEN PageAmounts(InEnvelope, "transparent", swap.extra.zat, Spends)
    ELSE PageAmounts(InEnvelope,
           IF Active.kind \in Sendable THEN Active.kind ELSE "unified_orchard", 0, Spends)

Ready ==
  /\ ~NoActive /\ CanContinue(Active) /\ Amounts.ok
  /\ choice = "wallet" => wroteDown

NeedsTransparentGate == choice = "paste" /\ dest.kind = "transparent" /\ ~transparentAck

\* A change of mind, unless nothing was chosen yet.
TurnFromChoice == IF choice = "none" THEN UNCHANGED turns ELSE Turn

\* The exit leaves the screen: its state goes, and nothing it awaits is heard.
ExitGone ==
  /\ exit' = Fresh /\ asked' = {}
  /\ UNCHANGED requests

ExitStays == UNCHANGED <<exit, asked, requests>>

\* showSwapUi: the plan's lines belong on the screen.
ShowsSwap == choice = "solana" /\ swap # NoPlan

\* The sent screen watches a deposit the sweep has paid.
Tracking == send = "sent" /\ ShowsSwap /\ ~swap.route

\* A line of the tracker, as it is on the screen.
Line(stage) == StateOf(stage, shown)

(***************************************************************************)
(* The chooser.                                                            *)
(***************************************************************************)
\* onPickPaste: the other of the two boxes, or one of them after something else.  The
\* call for the last text goes on.
PickPaste ==
  /\ OnChooser
  /\ TurnFromChoice
  /\ choice' = "paste" /\ dest' = NoDest /\ transparentAck' = FALSE
  /\ wallet' = Empty /\ walletDest' = NoDest /\ wroteDown' = FALSE
  /\ swap' = NoPlan /\ asks' = Dropping("wallet")
  /\ ExitStays
  /\ ticked' = Empty
  /\ UNCHANGED <<strays, send, atGate, paid>>

PickSolana ==
  /\ OnChooser
  /\ TurnFromChoice
  /\ choice' = "solana" /\ dest' = NoDest
  /\ wallet' = Empty /\ walletDest' = NoDest /\ wroteDown' = FALSE
  /\ swap' = NoPlan /\ asks' = Dropping("wallet")
  /\ ExitStays
  /\ ticked' = Empty
  /\ UNCHANGED <<strays, send, transparentAck, atGate, paid>>

\* onPickWallet; the core makes the words unless there are some, and answers in its
\* turn.  Until it has, another click asks for others.
PickWalletHere ==
  /\ OnChooser /\ (wallet = Empty => Room)
  /\ TurnFromChoice
  /\ choice' = "wallet" /\ dest' = NoDest /\ wroteDown' = FALSE
  /\ swap' = NoPlan
  /\ asks' = IF wallet = Empty THEN Append(asks, AskFor("new", WalletAddress(turns')))
                               ELSE asks
  /\ ExitStays
  /\ ticked' = Empty
  /\ UNCHANGED <<strays, send, wallet, walletDest, transparentAck, atGate, paid>>

\* A keystroke that leaves the answers on their way alone.
TypeAddressAnyAnswer(text) ==
  /\ OnChooser /\ choice = "paste" /\ dest.input # text /\ Room
  /\ IF dest.input = Empty THEN UNCHANGED turns ELSE Turn
  /\ transparentAck' = FALSE
  /\ dest' = Unread(text)
  /\ asks' = Append(asks, AskFor("dest", text))
  /\ ExitStays
  /\ UNCHANGED <<strays, send, choice, wallet, walletDest, wroteDown, atGate, swap, paid,
                 ticked>>

\* A keystroke that keeps the tick of the last address.
TypeAddressKeepsTick(text) ==
  /\ OnChooser /\ choice = "paste" /\ dest.input # text /\ Room
  /\ IF dest.input = Empty THEN UNCHANGED turns ELSE Turn
  /\ dest' = Unread(text)
  /\ asks' = Append(Dropping("dest"), AskFor("dest", text))
  /\ ExitStays
  /\ UNCHANGED <<strays, send, choice, wallet, walletDest, wroteDown, transparentAck,
                 atGate, swap, paid, ticked>>

\* The address box: the text shows at once, its verdict when the core answers.
TypeAddress(text) ==
  /\ OnChooser /\ choice = "paste" /\ dest.input # text /\ Room
  /\ IF dest.input = Empty THEN UNCHANGED turns ELSE Turn
  /\ transparentAck' = FALSE
  /\ dest' = Unread(text)
  /\ asks' = Append(Dropping("dest"), AskFor("dest", text))
  /\ ExitStays
  /\ UNCHANGED <<strays, send, choice, wallet, walletDest, wroteDown, atGate, swap, paid,
                 ticked>>

\* The box under the words on the screen.
WriteDown ==
  /\ OnChooser /\ choice = "wallet" /\ wallet # Empty
  /\ IF wroteDown THEN Turn ELSE UNCHANGED turns
  /\ wroteDown' = ~wroteDown
  /\ ticked' = IF wroteDown THEN Empty ELSE wallet
  /\ ExitStays
  /\ UNCHANGED <<strays, send, choice, dest, wallet, walletDest, transparentAck,
                 atGate, swap, asks, paid>>

\* Continue: to the review screen, a pasted transparent address by way of the gate.
Continue ==
  /\ OnChooser /\ Ready
  /\ IF NeedsTransparentGate THEN atGate' = TRUE /\ UNCHANGED send
                             ELSE send' = "review" /\ UNCHANGED atGate
  /\ ExitStays
  /\ UNCHANGED <<turns, strays, choice, dest, wallet, walletDest, wroteDown,
                 transparentAck, swap, asks, paid, ticked>>

\* The transparent trust boundary: its tick, and the two ways out.
TickGate ==
  /\ OnGate
  /\ IF transparentAck THEN Turn ELSE UNCHANGED turns
  /\ transparentAck' = ~transparentAck
  /\ ticked' = IF transparentAck THEN Empty ELSE dest.input
  /\ ExitStays
  /\ UNCHANGED <<strays, send, choice, dest, wallet, walletDest, wroteDown, atGate,
                 swap, asks, paid>>

LeaveGate ==
  /\ OnGate
  /\ atGate' = FALSE
  /\ \/ transparentAck /\ send' = "review" /\ UNCHANGED turns
     \/ Turn /\ UNCHANGED send
  /\ ExitStays
  /\ UNCHANGED <<strays, choice, dest, wallet, walletDest, wroteDown, transparentAck,
                 swap, asks, paid, ticked>>

\* The way back as it was, with the plan surviving it.
ChooseAgainKeepsPlan ==
  /\ OnReview \/ OnFailed
  /\ Turn
  /\ send' = "choose" /\ choice' = "none" /\ dest' = NoDest /\ wroteDown' = FALSE
  /\ transparentAck' = FALSE /\ atGate' = FALSE
  /\ ExitStays
  /\ paid' = NoSweep /\ ticked' = Empty
  /\ UNCHANGED <<strays, wallet, walletDest, swap, asks>>

\* chooseAgain, from the review screen and from a failed sweep.
ChooseAgain ==
  /\ OnReview \/ OnFailed
  /\ Turn
  /\ send' = "choose" /\ choice' = "none" /\ dest' = NoDest
  /\ swap' = NoPlan /\ wroteDown' = FALSE
  /\ transparentAck' = FALSE /\ atGate' = FALSE
  /\ ExitStays
  /\ paid' = NoSweep /\ ticked' = Empty
  /\ UNCHANGED <<strays, wallet, walletDest, asks>>

(***************************************************************************)
(* The sweep.                                                              *)
(***************************************************************************)
\* send(): the call is made of what the page holds at the click.
Send ==
  /\ OnReview \/ OnFailed
  /\ Amounts.ok
  /\ send' = "sending"
  /\ paid' = [to |-> Active.input, choice |-> choice, swap |-> swap,
              receive |-> Amounts.receive]
  /\ ExitStays
  /\ UNCHANGED <<turns, strays, choice, dest, wallet, walletDest, wroteDown,
                 transparentAck, atGate, swap, asks, ticked>>

\* The call ends; resolve_output refuses an address the core cannot pay.  After a
\* lost race there is one way on, which leaves the page.
SweepEnds ==
  /\ send = "sending"
  /\ \/ KindOf(paid.to) \in Sendable /\ send' \in {"sent", "dry", "raced"}
     \/ send' = "failed"
  /\ ExitStays
  /\ UNCHANGED <<turns, strays, choice, dest, wallet, walletDest, wroteDown,
                 transparentAck, atGate, swap, asks, paid, ticked>>
  /\ Follow(FALSE, Tracking', FALSE)

(***************************************************************************)
(* The exit on the page, and the plan it ends in.                          *)
(***************************************************************************)
\* Leaving the exit by its first screen.
LeaveExit ==
  /\ InExit /\ exit.phase = "trust" /\ ~exit.atRouteGate
  /\ Turn
  /\ choice' = "none"
  /\ ticked' = Empty
  /\ ExitGone
  /\ asks' = Dropping("refund")
  /\ UNCHANGED <<strays, send, dest, wallet, walletDest, wroteDown, transparentAck,
                 atGate, swap, paid>>

\* The deposit screen's button: onSwapPlan begins with a call of the core.
HandOver ==
  /\ InExit /\ exit.phase = "deposit" /\ ~exit.atRouteGate /\ Room
  /\ asks' = Append(asks, [what |-> "plan", text |-> exit.deposit.addr,
                           plan |-> PlanOf(exit)])
  /\ ExitStays
  /\ UNCHANGED <<turns, strays, send, choice, dest, wallet, walletDest, wroteDown,
                 transparentAck, atGate, swap, paid, ticked>>

\* The refund box, with the effect that has its text classified.
RefundTyped(text) ==
  /\ InExit /\ Room /\ TypeRefund(text)
  /\ asks' = IF text = Empty THEN Dropping("refund")
             ELSE Append(Dropping("refund"), AskFor("refund", text))
  /\ UNCHANGED <<send, choice, dest, wallet, walletDest, wroteDown, transparentAck,
                 atGate, swap, paid, ticked>>

\* The deposit screen that handed the plan over is still there.
StillHandedOver(plan) == InExit /\ exit.phase = "deposit" /\ PlanOf(exit) = plan

\* The end of onSwapPlan: a plan that answers what was asked is the destination, any
\* other is thrown away.
PlanEnds(plan, sound) ==
  /\ strays' = IF StillHandedOver(plan) THEN strays ELSE strays \cup {"plan"}
  /\ IF sound
       THEN /\ swap' = plan /\ dest' = Described(plan.main.addr)
            /\ send' = IF send = "choose" THEN "review" ELSE send
            /\ UNCHANGED choice
       ELSE /\ swap' = NoPlan /\ dest' = NoDest /\ choice' = "none"
            /\ UNCHANGED send
  /\ Follow(Tracking, Tracking', swap' = swap)
  /\ ExitGone

Sound(plan) ==
  /\ CheckSwapPlan(KindOf(plan.main.addr), plan.main, plan.asset, plan.recipient,
                   plan.refundTo)
  /\ plan.route => plan.recipient = Router

SoundExtra(plan) ==
  CheckSwapPlan(KindOf(plan.extra.addr), plan.extra, "sol", plan.recipient, plan.refundTo)

\* What an answer of the core means to whoever waits for it.  New words, or none
\* (walletError): their address is classified next, and no other one's is listened to.
Answered(a, rest) ==
  \/ /\ a = Unheard /\ asks' = rest
     /\ ExitStays
     /\ UNCHANGED <<strays, send, choice, dest, wallet, walletDest, swap, trackerVars>>
  \/ /\ a.what = "dest"
     /\ dest' = Described(a.text) /\ asks' = rest
     /\ ExitStays
     /\ UNCHANGED <<strays, send, choice, wallet, walletDest, swap, trackerVars>>
  \/ /\ a.what = "new"
     /\ \/ asks' = rest /\ UNCHANGED <<strays, wallet>>
        \/ /\ wallet' = a.text
           /\ asks' = Append(Deaf(rest, "wallet"), AskFor("wallet", a.text))
           /\ strays' = IF wallet = Empty THEN strays ELSE strays \cup {"wallet"}
     /\ ExitStays
     /\ UNCHANGED <<send, choice, dest, walletDest, swap, trackerVars>>
  \/ /\ a.what = "wallet"
     /\ walletDest' = Described(a.text) /\ asks' = rest
     /\ ExitStays
     /\ UNCHANGED <<strays, send, choice, dest, wallet, swap, trackerVars>>
  \/ /\ a.what = "refund"
     /\ exit' = RefundVerdict(exit, a.text) /\ asks' = rest
     /\ UNCHANGED <<asked, requests, strays, send, choice, dest, wallet, walletDest, swap,
                    trackerVars>>
  \/ /\ a.what = "plan" /\ a.plan.route /\ a.plan.recipient = Router
     /\ a.plan.extra # NoReservation
     /\ asks' = Append(rest, [what |-> "extra", text |-> a.plan.extra.addr,
                              plan |-> a.plan])
     /\ ExitStays
     /\ UNCHANGED <<strays, send, choice, dest, wallet, walletDest, swap, trackerVars>>
  \/ /\ a.what = "plan"
     /\ ~(a.plan.route /\ a.plan.recipient = Router /\ a.plan.extra # NoReservation)
     /\ PlanEnds(a.plan, Sound(a.plan))
     /\ asks' = Deaf(rest, "refund")
     /\ UNCHANGED <<wallet, walletDest>>
  \/ /\ a.what = "extra"
     /\ PlanEnds(a.plan, Sound(a.plan) /\ SoundExtra(a.plan))
     /\ asks' = Deaf(rest, "refund")
     /\ UNCHANGED <<wallet, walletDest>>

CoreAnswers ==
  /\ asks # << >>
  /\ Answered(Head(asks), Tail(asks))
  /\ UNCHANGED <<turns, wroteDown, transparentAck, atGate, paid, ticked>>

\* The steps of the exit while it is on the screen.
ExitSteps ==
  \/ Acknowledge \/ ToAsset \/ (\E a \in Assets : ChooseAsset(a))
  \/ (\E m \in {"paste", "connect", "generate"} : ChooseMode(m))
  \/ (\E t \in {Pasted, Half} : PasteAddress(t)) \/ TypeTail \/ PickWallet
  \/ (\E shared \in BOOLEAN : WalletAnswers(shared))
  \/ StepBack \/ ToggleRoute \/ AtRouteGate
  \/ AskPrice \/ AskDeposit \/ AskPrivate
  \/ (\E v \in {"ready", "poor", "off"} : OfferLands(v))

RailAnswers ==
  \E q \in asked :
    \/ (\E ok \in BOOLEAN : RailPrices(q, ok)) \/ RailFails(q)
    \/ \E main \in Reserved(q), extra \in ExtraReserved(q) \cup {exit.extra} :
         RailReserves(q, main, extra)

InTheExit == InExit /\ ExitSteps /\ UNCHANGED pageVars
TheRail   == InExit /\ RailAnswers /\ UNCHANGED pageVars

ThePage ==
  \/ PickPaste \/ PickSolana \/ PickWalletHere
  \/ (\E text \in Texts : TypeAddress(text))
  \/ WriteDown \/ Continue \/ TickGate \/ LeaveGate \/ ChooseAgain
  \/ Send
  \/ LeaveExit \/ HandOver \/ (\E text \in {Empty, Half, Other} : RefundTyped(text))
  \/ InTheExit \/ TheRail

\* The rail works on a deposit once it is paid.
RailWorks == Tracking /\ paid.to = swap.main.addr /\ RailMoves

TheTracker == RailWorks \/ PollAnswers \/ PollFails \/ PollAgain

Next ==
  \/ ThePage /\ UNCHANGED trackerVars
  \/ SweepEnds \/ CoreAnswers
  \/ TheTracker /\ UNCHANGED <<exitVars, pageVars>>

Spec == Init /\ [][Next]_vars

Polled(A) == A /\ UNCHANGED <<rail, exitVars, pageVars>>

\* Every request to the rail ends within its timeout (oneclick.ts), a timer fires,
\* and of the polls of a page that stays open some are answered.
FairSpec ==
  /\ Spec /\ WF_vars(TheRail /\ UNCHANGED trackerVars)
  /\ WF_vars(Polled(PollAgain)) /\ SF_vars(Polled(PollAnswers))

(***************************************************************************)
(* Properties.                                                             *)
(***************************************************************************)
Requests == 1 .. MaxRequests
WalletTexts == {WalletAddress(n) : n \in 0 .. MaxTurns}
DepositTexts == {Deposit(n) : n \in Requests} \cup {Unvouched(n) : n \in Requests}
ZcashTexts == Texts \cup {Empty, Half, Envelope, Other, Elsewhere} \cup WalletTexts
              \cup DepositTexts \cup {ExtraDeposit(n) : n \in Requests}
SolanaTexts == {Empty, Half, Pasted, Connected, Router, Stranger}
               \cup {Generated(n) : n \in 0 .. MaxTurns}
Statuses == {"PENDING_DEPOSIT", "PROCESSING", "SUCCESS", "REFUNDED"}
Kinds == {"", "unified_orchard", "transparent", "invalid"}
Reservations == [addr : ZcashTexts, asset : {"", "usdc", "sol"}, payee : SolanaTexts,
                 refund : ZcashTexts, zat : 0 .. InEnvelope]
Plans == [main : Reservations, extra : Reservations, asset : {"", "usdc", "sol"},
          recipient : SolanaTexts, refundTo : ZcashTexts, route : BOOLEAN,
          final : SolanaTexts, vouched : BOOLEAN]

\* The exit, the rail and the page hold what their types say (SendOn.tsx:162-208,
\* SolanaExit.tsx:180-189), and what is on the screen belongs to what was chosen: there
\* is an exit only while it is shown, and, unless a plan landed after its screen was left
\* ("plan", which SendOn.tsx:837 says cannot be), words are written down only of the
\* wallet chosen and a plan that was backed out of is gone (M3).
TypeOK ==
  /\ exit.phase \in {"trust", "asset", "destination", "quote", "deposit"}
  /\ exit.mode \in {"", "paste", "connect", "generate"}
  /\ exit.refundStatus \in {"default", "checking", "ok", "bad"}
  /\ exit.offer \in {"off", "loading", "ready", "poor"}
  /\ Recipient(exit) \in SolanaTexts /\ RefundTo(exit) \in ZcashTexts
  /\ exit.deposit \in Reservations /\ exit.extra \in Reservations
  /\ exit.phase = "deposit" => exit.deposit # NoReservation
  /\ exit.phase \in {"quote", "deposit"} => exit.asset # ""
  /\ requests \in 0 .. MaxRequests /\ turns \in 0 .. MaxTurns
  /\ strays \subseteq {"unvouched", "plan", "wallet"}
  /\ send \in {"choose", "review", "sending", "sent", "dry", "raced", "failed"}
  /\ choice \in {"none", "paste", "wallet", "solana"}
  /\ dest \in [input : ZcashTexts, kind : Kinds]
  /\ walletDest \in [input : ZcashTexts, kind : Kinds]
  /\ wallet \in WalletTexts \cup {Empty}
  /\ wroteDown \in BOOLEAN /\ transparentAck \in BOOLEAN /\ atGate \in BOOLEAN
  /\ swap \in Plans /\ Len(asks) <= MaxAsks + 1
  /\ rail \in Statuses /\ shown \in Statuses \cup {NoStatus}
  /\ poll \in {"off", "asking", "timer", "ended"} /\ (poll # "off" <=> Tracking)
  /\ exit # Fresh \/ asked # {} => InExit
  /\ "plan" \notin strays =>
       /\ wroteDown => choice = "wallet" /\ wallet # Empty
       /\ swap # NoPlan => choice = "solana" /\ send # "choose"

\* What the screens say of a sweep is what it was given: while it runs and once it is
\* done, the destination, the plan of the swap and the amount on the page are those
\* sweep_envelope was called with (SendOn.tsx:418-470 reads them once; 299-318 go on
\* deriving them from state late verdicts write to), and no swap is said to be paid
\* out before it is.  Excepted are a plan that lands after its screen was left,
\* which replaces them all (SendOn.tsx:334-398), and the words of a second click that
\* replace those of the first while the core is slow ("wallet", 876-891).
SweptAsShown ==
  strays \cap {"plan", "wallet"} = {} /\ send \in {"sending", "sent", "dry"} =>
    /\ Active.input = paid.to /\ swap = paid.swap /\ choice = paid.choice
    /\ Amounts = Pays(paid.receive)
    /\ Line("payout") = "done" => Tracking /\ rail = "SUCCESS"

\* No answer of the rail, whatever it gets wrong and wherever the page is when it or
\* the core's verdict on it lands, makes the envelope pay for somebody else's swap
\* (solanaFlow.ts:388-432, SendOn.tsx:334-398, M6): an address the rail named is paid
\* only as the deposit of a plan whose deposits are transparent and pay, in the asset,
\* whom the deposit screen named, and refund to the address it named; and that screen
\* names nobody but the recipient, or the router for a route that ends with them.
DepositsAnswerThePlan ==
  LET p == paid.swap
      Answers(r, payee, asset) ==
        /\ KindOf(r.addr) = "transparent" /\ r.payee = payee /\ r.asset = asset
        /\ r.refund = p.refundTo
  IN  /\ paid.to \in DepositTexts => paid.to = p.main.addr
      /\ p # NoPlan =>
           /\ Answers(p.main, p.recipient, p.asset)
           /\ p.extra # NoReservation => p.route /\ Answers(p.extra, Router, "sol")
           /\ p.refundTo \in {Envelope, Other, Half}
           /\ IF p.route THEN p.recipient = Router /\ p.final \notin {Router, Stranger}
                         ELSE p.recipient \notin {Router, Stranger}

\* The quoted amount is the paid amount: what the core will pay each deposit, whatever
\* form its output takes, is what the rail was asked to reserve it for
\* (SendOn.tsx:325-336, SolanaExit.tsx:304-364).  Excepted is a plan that lands after
\* its screen was left, on whatever the page holds by then.
QuotedIsPaid ==
  LET p == paid.swap
  IN  p # NoPlan /\ "plan" \notin strays =>
        /\ \A d, e \in OutputBytes :
             CoreAmounts(InEnvelope, KindOf(paid.to), p.extra.zat, Spends, d, e)
               = Pays(p.main.zat)
        /\ paid.receive = p.main.zat

\* The review screen promises what the core will do: the amount under "You receive" is
\* what plan_amounts_split pays, and a refusal is its refusal (amount.ts:77-260,
\* spend.rs:315-445).  Excepted is a plan that lands after its screen was left: under a
\* destination chosen meanwhile it leaves the amounts of a deposit on the screen.
PageAndCoreAgree ==
  OnReview /\ Active.kind \in Sendable /\ "plan" \notin strays =>
    \A d, e \in OutputBytes :
      Amounts = CoreAmounts(InEnvelope, Active.kind, swap.extra.zat, Spends, d, e)

\* Nothing is asked of the rail in the recipient's name, not even a price, before they
\* agreed to the boundary, proved they hold the key that is paid, and named a refund
\* address that works (solanaFlow.ts:8-16, 278-320), however late answers come and
\* whatever was edited meanwhile.  Excepted is what follows an answer to a page whose
\* gates held when it asked and no longer do when the answer lands ("unvouched"):
\* canGetDeposit looks at the quote only (372-380; GatesStopDeposit).
AskedAsVouched == "unvouched" \notin strays => \A q \in asked : q.vouched

\* No destination skips its own gate (SendOn.tsx:404-413, M7): a sweep to a pasted
\* transparent address was agreed to for that address, one to the generated wallet
\* follows the box that says these words were written down, and one to a deposit
\* pays the plan of a page whose gates held when it was handed over: its tick, its key
\* and its refund address.  Excepted are a plan that lands after its screen was left,
\* words that replace other words ("wallet"), and a deposit that follows an answer on
\* an exit whose gates no longer hold ("unvouched").
GatesPassed ==
  "plan" \notin strays /\ send = "sending" =>
    /\ choice = "paste" /\ KindOf(paid.to) = "transparent" => ticked = paid.to
    /\ choice = "wallet" /\ "wallet" \notin strays => wroteDown /\ ticked = paid.to
    /\ choice = "solana" =>
         /\ swap # NoPlan /\ paid.to = swap.main.addr
         /\ "unvouched" \notin strays => swap.vouched

\* What solanaFlow.ts:13-16 says its gates do: stop a recipient reaching a deposit
\* address without the tick of the trust boundary, and without having saved a generated
\* key.
GatesStopDeposit ==
  exit.phase = "deposit" =>
    exit.acknowledged /\ (exit.mode = "generate" => exit.keyConfirm)

\* The buttons come back: however requests fail, are left behind or answer late, the
\* exit is not busy forever (solanaFlow.ts:228-248).
BusyEnds == []<>~exit.busy

\* The sent screen tells how the swap ended: however polls fail, a page left open comes
\* to show every line done after a payout, and the last two stopped after a refund
\* (SwapTracker.tsx:40-66, solanaFlow.ts:470-505).  Excepted is a plan that lands
\* after its screen was left: it is tracked in place of the one that was paid.
TrackerTells ==
  (Tracking /\ IsFinal(rail)) ~>
    \/ "plan" \in strays
    \/ \A stage \in {"deposit", "swap", "payout"} :
         Line(stage) = IF rail = "SUCCESS" \/ stage = "deposit" THEN "done" ELSE "stopped"
=============================================================================
