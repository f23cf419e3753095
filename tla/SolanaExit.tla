----------------------------- MODULE SolanaExit -----------------------------
(***************************************************************************)
(* The Solana exit of the send-on page: the reducer of lib/solanaFlow.ts,  *)
(* the screens and requests of components/SolanaExit.tsx, the destinations *)
(* of components/DestinationChoices.tsx, and the swap rail they ask        *)
(* (lib/oneclick.ts; the rail itself is external and may lie).             *)
(*                                                                         *)
(* A step of the exit is what a click, a keystroke or an answer makes of   *)
(* the reducer's state, and what the effects make of that (Rendered).      *)
(* Prices are left out but for their verdict, and so are the devnet plan   *)
(* and a browser that cannot derive the router: its exit has no offer.     *)
(***************************************************************************)
EXTENDS SweepAmounts, Sequences, FiniteSets

CONSTANTS InEnvelope,    \* what the notes of the envelope hold together
          Spends,        \* how many notes there are
          ExtraZat,      \* what sizeExtraZat finds for the route's SOL
          Assets,        \* the assets offered, of "usdc" and "sol"
          MaxLies,       \* things the rail gets wrong in one answer (bound)
          MaxRequests,   \* requests made to the rail in one visit (bound)
          MaxTurns       \* changes of mind in one visit (bound)

ASSUME ExitAssumption ==
  /\ InEnvelope \in Nat /\ Spends \in Nat \ {0} /\ ExtraZat \in Nat \ {0}
  /\ Assets \subseteq {"usdc", "sol"}
  /\ MaxLies \in Nat /\ MaxRequests \in Nat /\ MaxTurns \in Nat

VARIABLES exit,      \* the state of the exit
          asked,     \* requests on their way to the rail and back
          requests,  \* requests made
          turns,     \* changes of mind
          strays     \* answers that landed where the code takes no account of
                     \* them (history): "unvouched", of the rail, on an exit whose
                     \* gates held when it asked and no longer do; "plan", of the
                     \* core, on a page whose deposit screen was left; "wallet",
                     \* words in place of other words

exitVars == <<exit, asked, requests, turns, strays>>

\* Addresses are <<name, number>>.  Solana: one pasted, a connected wallet's, the
\* generated keys', the router's, and one the recipient never named.  Zcash: the
\* envelope's own, another good one for refunds, and one nobody named for them.
\* <<"half", 0>> is no address.
Empty     == <<"", 0>>
Half      == <<"half", 0>>
Pasted    == <<"pasted", 0>>
Connected == <<"connected", 0>>
Generated(no) == <<"generated", no>>
Router    == <<"router", 0>>
Stranger  == <<"stranger", 0>>
Envelope  == <<"envelope", 0>>
Other     == <<"other", 0>>
Elsewhere == <<"elsewhere", 0>>

\* What the rail reserves under request no: transparent addresses, and one that is not.
Deposit(no) == <<"deposit", no>>
ExtraDeposit(no) == <<"extra", no>>
Unvouched(no) == <<"unvouched", no>>

\* A reservation, what it was asked or says it was asked for, and what it is paid.
NoReservation == [addr |-> Empty, asset |-> "", payee |-> Empty, refund |-> Empty, zat |-> 0]

NoQuote == [no |-> 0, ok |-> FALSE]

Fresh ==
  [phase |-> "trust", acknowledged |-> FALSE, asset |-> "",
   mode |-> "", pasted |-> Empty, connected |-> Empty, connecting |-> FALSE,
   keypair |-> Empty, keyConfirm |-> FALSE,
   refund |-> Empty, refundStatus |-> "default",
   quote |-> NoQuote, busy |-> FALSE, deposit |-> NoReservation,
   offer |-> "off", privateOn |-> FALSE, routeAck |-> FALSE, atRouteGate |-> FALSE,
   extra |-> NoReservation]

\* A change of mind.
Turn == turns < MaxTurns /\ turns' = turns + 1

(***************************************************************************)
(* The gates of solanaFlow.ts, each of a state s of the exit.              *)
(***************************************************************************)
\* recipientAddress.
Recipient(s) ==
  CASE s.mode = "generate" -> s.keypair
    [] s.mode = "connect"  -> s.connected
    [] OTHER               -> s.pasted

\* destinationReady without the generated key's own condition.
ReadyAnyKey(s) == s.mode # "" /\ Recipient(s) \notin {Empty, Half}

\* destinationReady: a generated key counts once its tail was typed back.
DestinationReady(s) ==
  /\ s.mode # "" /\ Recipient(s) \notin {Empty, Half}
  /\ s.mode = "generate" => s.keyConfirm

RefundReady(s) == s.refundStatus \in {"default", "ok"}

CanQuote(s) ==
  /\ s.phase = "destination" /\ ~s.busy /\ s.asset # ""
  /\ DestinationReady(s) /\ RefundReady(s)

\* canGetDeposit; ok is quoteAcceptable and not belowMinimum.
CanGetDeposit(s) == s.phase = "quote" /\ ~s.busy /\ s.quote.ok

\* An offer that has been priced.
OfferReady(s) == s.offer \in {"ready", "poor"}

\* refundAddress.
RefundTo(s) == IF s.refund # Empty THEN s.refund ELSE Envelope

\* What the recipient has to have done before anything is asked in their name: read
\* the boundary, named an address they can spend from, and one a refund can reach.
Vouched(s) ==
  /\ s.acknowledged
  /\ Recipient(s) \in {Pasted, Connected} \/ (Recipient(s) # Empty /\ s.keyConfirm)
  /\ s.refund \in {Empty, Other}

(***************************************************************************)
(* The reducer, and the effects that follow a change of its state.         *)
(***************************************************************************)
Early == {"trust", "asset", "destination"}

\* The two effects on the phase: leaving the quote backwards takes the route with
\* it, and a quote on screen is priced for the route.
Rendered(s) ==
  LET moved == s.phase # exit.phase
      again == moved \/ s.quote # exit.quote \/ s.asset # exit.asset
      left  == IF moved /\ s.phase \in Early
                 THEN [s EXCEPT !.privateOn = FALSE, !.routeAck = FALSE,
                         !.atRouteGate = FALSE, !.extra = NoReservation]
                 ELSE s
  IN  IF again /\ s.phase # "deposit"
        THEN [left EXCEPT !.offer = IF s.phase = "quote" THEN "loading" ELSE "off"]
        ELSE left

PreviousPhase(phase) ==
  CASE phase = "deposit"     -> "quote"
    [] phase = "quote"       -> "destination"
    [] phase = "destination" -> "asset"
    [] OTHER                 -> "trust"

\* mode: what belongs to the other ways to name a destination is dropped.
WithMode(s, mode) ==
  [s EXCEPT !.mode = mode,
     !.keypair    = IF mode = "generate" THEN @ ELSE Empty,
     !.keyConfirm = IF mode = "generate" THEN @ ELSE FALSE,
     !.pasted     = IF mode = "paste" THEN @ ELSE Empty,
     !.connected  = IF mode = "connect" THEN @ ELSE Empty]

\* A failure that leaves the buttons off.
QuoteErrorBusy(s) == [s EXCEPT !.phase = IF @ = "deposit" THEN "quote" ELSE @]

\* quoteError.
QuoteError(s) ==
  [s EXCEPT !.busy = FALSE, !.phase = IF @ = "deposit" THEN "quote" ELSE @]

(***************************************************************************)
(* The recipient, on the screens of SolanaExit.tsx.                        *)
(***************************************************************************)
Quiet == UNCHANGED <<asked, requests, strays>>

\* The tick of the boundary, given and taken back; it is not counted with the turns.
Acknowledge ==
  /\ exit.phase = "trust"
  /\ exit' = [exit EXCEPT !.acknowledged = ~@]
  /\ UNCHANGED turns /\ Quiet

\* A way past the boundary without its tick.
ToAssetUnticked ==
  /\ exit.phase = "trust"
  /\ exit' = Rendered([exit EXCEPT !.phase = "asset"])
  /\ UNCHANGED turns /\ Quiet

ToAsset ==
  /\ exit.phase = "trust" /\ exit.acknowledged
  /\ exit' = Rendered([exit EXCEPT !.phase = "asset"])
  /\ UNCHANGED turns /\ Quiet

ChooseAsset(asset) ==
  /\ exit.phase = "asset"
  /\ exit' = Rendered([exit EXCEPT !.asset = asset, !.phase = "destination"])
  /\ UNCHANGED turns /\ Quiet

\* Making a key takes no time anyone can act in; it may fail (keypairError), and is
\* tried again on the next click.  A key that is still there is kept.
ChooseMode(mode) ==
  /\ exit.phase = "destination"
  /\ exit.mode # mode \/ (mode = "generate" /\ exit.keypair = Empty)
  /\ IF exit.mode = "" THEN UNCHANGED turns ELSE Turn
  /\ \/ /\ mode = "generate" /\ exit.keypair = Empty
        /\ \E key \in {Generated(turns'), Empty} :
             exit' = [WithMode(exit, mode) EXCEPT !.keypair = key, !.keyConfirm = FALSE]
     \/ /\ mode # "generate" \/ exit.keypair # Empty
        /\ exit' = WithMode(exit, mode)
  /\ Quiet

PasteAddress(text) ==
  /\ exit.phase = "destination" /\ exit.mode = "paste" /\ exit.pasted # text
  /\ IF exit.pasted = Empty THEN UNCHANGED turns ELSE Turn
  /\ exit' = [exit EXCEPT !.pasted = text]
  /\ Quiet

\* The tail of the key is typed back, or taken out again.
TypeTail ==
  /\ exit.phase = "destination" /\ exit.mode = "generate" /\ exit.keypair # Empty
  /\ IF exit.keyConfirm THEN Turn ELSE UNCHANGED turns
  /\ exit' = [exit EXCEPT !.keyConfirm = ~@]
  /\ Quiet

\* pickWallet: the wallet is asked for its address; it may answer much later.
PickWallet ==
  /\ exit.phase = "destination" /\ exit.mode = "connect"
  /\ exit.connected = Empty /\ ~exit.connecting
  /\ exit' = [exit EXCEPT !.connecting = TRUE]
  /\ UNCHANGED turns /\ Quiet

\* The wallet shares its address, wherever the exit is by then, or refuses.
WalletAnswers(shared) ==
  /\ exit.connecting
  /\ exit' = IF shared THEN [exit EXCEPT !.connecting = FALSE, !.mode = "connect",
                               !.connected = Connected]
                       ELSE [exit EXCEPT !.connecting = FALSE]
  /\ UNCHANGED turns /\ Quiet

\* refund: any text puts its verdict back to unknown.
TypeRefund(text) ==
  /\ exit.phase = "destination" /\ exit.refund # text
  /\ Turn
  /\ exit' = [exit EXCEPT !.refund = text,
                !.refundStatus = IF text = Empty THEN "default" ELSE "checking"]
  /\ Quiet

\* refundVerdict: the core's word on the text, dropped when it was typed past.
RefundVerdict(s, text) ==
  IF text # s.refund \/ text = Empty THEN s
  ELSE [s EXCEPT !.refundStatus = IF text = Other THEN "ok" ELSE "bad"]

\* back, on every screen after the first.
StepBack ==
  /\ exit.phase # "trust" /\ ~exit.atRouteGate
  /\ Turn
  /\ exit' = Rendered([exit EXCEPT !.phase = PreviousPhase(@), !.busy = FALSE])
  /\ Quiet

\* The switch of the private route.
ToggleRoute ==
  /\ exit.phase = "quote" /\ ~exit.atRouteGate /\ exit.offer = "ready"
  /\ IF exit.privateOn THEN Turn ELSE UNCHANGED turns
  /\ exit' = [exit EXCEPT !.privateOn = ~@]
  /\ Quiet

\* The gate of the route, over whatever phase there is: its tick, and the ways out
\* that ask for nothing: back, and on when the offer is gone.
AtRouteGate ==
  /\ exit.atRouteGate
  /\ \/ /\ ~exit.routeAck /\ UNCHANGED turns
        /\ exit' = [exit EXCEPT !.routeAck = TRUE]
     \/ /\ IF exit.routeAck /\ ~OfferReady(exit) THEN UNCHANGED turns ELSE Turn
        /\ exit' = [exit EXCEPT !.atRouteGate = FALSE]
  /\ Quiet

(***************************************************************************)
(* The rail.                                                               *)
(***************************************************************************)
Whole == PageAmounts(InEnvelope, "transparent", 0, Spends).receive
Split == PageAmounts(InEnvelope, "transparent", ExtraZat, Spends)

\* Every request is put together from the state s at the click.
Ask(s, kind, payee, zat) ==
  /\ requests < MaxRequests /\ requests' = requests + 1
  /\ asked' = asked \cup
       {[no |-> requests + 1, kind |-> kind, asset |-> s.asset, payee |-> payee,
         refund |-> RefundTo(s), zat |-> zat, vouched |-> Vouched(s)]}
  /\ UNCHANGED <<turns, strays>>

\* askQuote(true).
AskPrice ==
  /\ CanQuote(exit)
  /\ Ask(exit, "dry", Recipient(exit), Whole)
  /\ exit' = [exit EXCEPT !.busy = TRUE]

\* Get deposit address: askQuote(false), or the private route and its own gate.
AskDeposit ==
  /\ CanGetDeposit(exit) /\ ~exit.atRouteGate
  /\ IF exit.privateOn /\ exit.offer = "ready" /\ ~exit.routeAck
       THEN /\ exit' = [exit EXCEPT !.atRouteGate = TRUE]
            /\ UNCHANGED turns /\ Quiet
       ELSE /\ ~(exit.privateOn /\ exit.offer = "ready")
            /\ Ask(exit, "real", Recipient(exit), Whole)
            /\ exit' = [exit EXCEPT !.busy = TRUE]

\* A route whose main swap is priced on the whole envelope.
RouteZatWhole(asset) == Whole

\* What the main swap of a private route is left with: a USDC gift also buys SOL.
RouteZat(asset) == IF asset = "usdc" THEN Split.receive ELSE Whole

\* askPrivate, from the quote or from its gate.  Nothing it awaits reads the page
\* again, so its requests are one; a route that is too small fails like any other.
AskPrivate ==
  /\ OfferReady(exit) /\ exit.routeAck
  /\ \/ exit.atRouteGate
     \/ CanGetDeposit(exit) /\ exit.privateOn /\ exit.offer = "ready"
  /\ Ask(exit, "private", Router, RouteZat(exit.asset))
  /\ exit' = [exit EXCEPT !.atRouteGate = FALSE, !.busy = TRUE]

\* The answer to q is heard, wherever the exit is by then and whoever it now names.
Landed(q) ==
  /\ asked' = asked \ {q}
  /\ strays' = IF q.vouched /\ ~Vouched(exit) THEN strays \cup {"unvouched"} ELSE strays
  /\ UNCHANGED <<requests, turns>>

\* quote: a price, which may be one nobody should act on.
RailPrices(q, ok) ==
  /\ q \in asked /\ q.kind = "dry"
  /\ exit' = Rendered([exit EXCEPT !.busy = FALSE, !.phase = "quote",
                         !.quote = [no |-> q.no, ok |-> ok]])
  /\ Landed(q)

\* What the rail may get wrong of a reservation, and its word on one it was asked for:
\* an address that is not transparent, the other asset, another payee or refund address.
Lies == {wrong \in SUBSET {"addr", "asset", "payee", "refund"} : Cardinality(wrong) <= MaxLies}

Echo(res, wrong, no) ==
  [addr   |-> IF "addr" \in wrong THEN Unvouched(no) ELSE res.addr,
   asset  |-> IF "asset" \in wrong THEN IF res.asset = "sol" THEN "usdc" ELSE "sol"
                                   ELSE res.asset,
   payee  |-> IF "payee" \in wrong THEN Stranger ELSE res.payee,
   refund |-> IF "refund" \in wrong THEN Elsewhere ELSE res.refund,
   zat    |-> res.zat]

\* The reservations asked for by q: of its deposit, and of the router's SOL on a private
\* route of USDC; and what the rail may say of them.
AsAsked(q) == [addr |-> Deposit(q.no), asset |-> q.asset, payee |-> q.payee,
               refund |-> q.refund, zat |-> q.zat]

ExtraAsAsked(q) ==
  IF q.asset = "usdc" THEN [addr |-> ExtraDeposit(q.no), asset |-> "sol", payee |-> Router,
                            refund |-> q.refund, zat |-> ExtraZat]
                      ELSE NoReservation

Reserved(q) == {Echo(AsAsked(q), wrong, q.no) : wrong \in Lies}

ExtraReserved(q) ==
  IF q.asset = "usdc" THEN {Echo(ExtraAsAsked(q), wrong, q.no) : wrong \in Lies}
                      ELSE {NoReservation}

Wrongs(res, wanted) == Cardinality({f \in DOMAIN res : res[f] # wanted[f]})

\* deposit: the address of an ordinary swap, or both of a private one.
RailReserves(q, main, extra) ==
  /\ q \in asked /\ q.kind # "dry"
  /\ main \in Reserved(q)
  /\ IF q.kind = "private"
       THEN /\ extra \in ExtraReserved(q) /\ (q.asset = "usdc" => Split.ok)
            /\ Wrongs(main, AsAsked(q)) + Wrongs(extra, ExtraAsAsked(q)) <= MaxLies
       ELSE extra = exit.extra
  /\ exit' = Rendered([exit EXCEPT !.busy = FALSE, !.phase = "deposit",
                         !.deposit = main, !.extra = extra])
  /\ Landed(q)

\* A timeout, a refusal, or a price a private route does not accept.
RailFails(q) ==
  /\ q \in asked
  /\ exit' = Rendered(QuoteError(exit))
  /\ asked' = asked \ {q}
  /\ UNCHANGED <<requests, turns, strays>>

\* The estimate of the route answers: "ready", "poor" when it is not worth offering
\* (the switch goes, and stays on if it was), or "off" when it fails.
OfferLands(verdict) ==
  /\ exit.phase = "quote" /\ exit.offer = "loading"
  /\ exit' = [exit EXCEPT !.offer = verdict]
  /\ UNCHANGED turns /\ Quiet

(***************************************************************************)
(* The plan handed to the send-on page.                                    *)
(***************************************************************************)
NoPlan ==
  [main |-> NoReservation, extra |-> NoReservation, asset |-> "", recipient |-> Empty,
   refundTo |-> Empty, route |-> FALSE, final |-> Empty, vouched |-> FALSE]

\* The deposit screen's plan: what it restates is the page's word, the reservation's
\* is the rail's.  vouched is history: whether the gates held of the page by then.
PlanOf(s) ==
  LET route == s.privateOn /\ OfferReady(s)
  IN  [main |-> s.deposit, extra |-> IF route THEN s.extra ELSE NoReservation,
       asset |-> s.asset, recipient |-> IF route THEN Router ELSE Recipient(s),
       refundTo |-> RefundTo(s), route |-> route,
       final |-> IF route THEN Recipient(s) ELSE Empty, vouched |-> Vouched(s)]

\* A check that takes the refund address on trust.
CheckSwapPlanNoRefund(kind, res, asset, recipient, refundTo) ==
  /\ kind = "transparent"
  /\ res.payee = recipient /\ res.asset = asset

\* checkSwapPlan.
CheckSwapPlan(kind, res, asset, recipient, refundTo) ==
  /\ kind = "transparent"
  /\ res.payee = recipient /\ res.refund = refundTo /\ res.asset = asset
=============================================================================
