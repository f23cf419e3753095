---------------------------- MODULE SendOnProofs ----------------------------
(***************************************************************************)
(* For every envelope, every fee, all the assets and however many changes  *)
(* of mind, requests and calls: what the send-on page asks the rail for,   *)
(* shows of a sweep and sends is what its owner agreed to.                 *)
(*                                                                         *)
(* The invariant has two layers.  ExitInv is about the exit, its requests  *)
(* and the rail's answers.  PageInv, which rests on it, is about the page  *)
(* around it.  Some of both holds until an answer lands where the code     *)
(* takes no account of it (strays): that the gates held, until the rail    *)
(* answers a page they no longer hold of ("unvouched"); what belongs to    *)
(* what on the screen, until a plan lands after its deposit screen was     *)
(* left ("plan") or words replace other words ("wallet").  That every      *)
(* deposit that is paid passed its checks holds throughout (DepositsSound).*)
(*                                                                         *)
(* Most of it is about order.  A deposit names a request of its own, so    *)
(* the plan of the deposit on the screen was handed over since the exit    *)
(* came up, behind every call about the address box; the core answers in   *)
(* order, so when the plan lands no verdict is on its way that could still *)
(* replace the destination.                                                *)
(***************************************************************************)
EXTENDS SendOn, TLAPS

(***************************************************************************)
(* The amounts: the page and the core agree on every sweep.                *)
(***************************************************************************)
\* ZIP-317's rounding: however the transparent outputs are made, each of them is one
\* logical action, as networkFeeFor and networkFeeWithExtra take it to be.
LEMMA OneActionEach ==
  ASSUME NEW d \in OutputBytes, NEW e \in OutputBytes, NEW kind \in Sendable,
         NEW extra \in Nat
  PROVE  (TransparentBytes(kind, extra, d, e) + StandardBytes - 1) \div StandardBytes
           = (IF kind = "transparent" THEN 1 ELSE 0) + (IF extra > 0 THEN 1 ELSE 0)
BY DEF OutputBytes, Sendable, TransparentBytes, StandardBytes

\* networkFeeFor and networkFeeWithExtra are network_fee_zat.
LEMMA FeesAgree ==
  ASSUME NEW d \in OutputBytes, NEW e \in OutputBytes, NEW kind \in Sendable,
         NEW extra \in Nat, NEW spends \in Nat \ {0}
  PROVE  NetworkFee(spends, ShieldedOutputs(kind), TransparentBytes(kind, extra, d, e))
           = IF extra > 0 THEN NetworkFeeWithExtra(kind, spends)
             ELSE NetworkFeeFor(kind, spends)
<1> DEFINE t == (IF kind = "transparent" THEN 1 ELSE 0) + (IF extra > 0 THEN 1 ELSE 0)
<1>1. NetworkFee(spends, ShieldedOutputs(kind), TransparentBytes(kind, extra, d, e))
        = MarginalFee * Greater(GraceActions,
                                t + IronwoodActions(spends, ShieldedOutputs(kind)))
  BY OneActionEach DEF NetworkFee
<1>2. ShieldedOutputs(kind) \in 0 .. 2
  BY DEF ShieldedOutputs
<1>3. IronwoodActions(spends, ShieldedOutputs(kind)) = Greater(spends, 2)
  BY <1>2 DEF IronwoodActions, Greater
<1>4. Greater(GraceActions, t + Greater(spends, 2)) = t + Greater(spends, 2)
  BY DEF Greater, GraceActions
<1>5. MarginalFee * (t + Greater(spends, 2))
        = IF extra > 0 THEN NetworkFeeWithExtra(kind, spends)
          ELSE NetworkFeeFor(kind, spends)
  BY DEF MarginalFee, Greater, NetworkFeeWithExtra, NetworkFeeFor, Sendable
<1>6. QED
  BY <1>1, <1>3, <1>4, <1>5

\* Whatever the envelope holds, the page offers a sweep exactly when the core builds
\* it, and the amount it shows under "You receive" is the one the core pays out.
THEOREM PageAndCoreAgreeOnAll ==
  ASSUME NEW total \in Nat, NEW extra \in Nat, NEW spends \in Nat \ {0},
         NEW kind \in Sendable, NEW d \in OutputBytes, NEW e \in OutputBytes
  PROVE  PageAmounts(total, kind, extra, spends) = CoreAmounts(total, kind, extra, spends, d, e)
<1> DEFINE fee == IF extra > 0 THEN NetworkFeeWithExtra(kind, spends)
                  ELSE NetworkFeeFor(kind, spends)
<1>1. NetworkFee(spends, ShieldedOutputs(kind), TransparentBytes(kind, extra, d, e)) = fee
  BY FeesAgree
<1>2. fee \in Nat
  BY DEF NetworkFeeWithExtra, NetworkFeeFor, MarginalFee
<1>3. total - (fee + ServiceFee + extra) = total - fee - ServiceFee - extra
  BY <1>2, FeeAssumption
<1>4. total - fee - ServiceFee - extra \in Int
  BY <1>2, FeeAssumption
<1> HIDE DEF fee
<1>5. QED
  BY <1>1, <1>3, <1>4 DEF PageAmounts, CoreAmounts, MinSplitDestination, fee

(***************************************************************************)
(* The exit.                                                               *)
(***************************************************************************)
\* Every Solana address but the router's and one nobody named.
NotARouter == SolanaTexts \ {Router, Stranger}

Phases == {"trust", "asset", "destination", "quote", "deposit"}
Late == {"quote", "deposit"}

\* The state of the exit, field by field.
Modes == {"", "paste", "connect", "generate"}
AssetNames == {"", "usdc", "sol"}
PasteTexts == {Empty, Half, Pasted}
RefundTexts == {Empty, Half, Other}
Wallets == {Empty, Connected}
Keys == {Empty} \cup {Generated(n) : n \in 0 .. MaxTurns}
Verdicts == {"default", "checking", "ok", "bad"}
Offers == {"off", "loading", "ready", "poor"}
Quotes == [no : 0 .. MaxRequests, ok : BOOLEAN]

ExitStates ==
  [phase : Phases, acknowledged : BOOLEAN, asset : AssetNames, mode : Modes,
   pasted : PasteTexts, connected : Wallets, connecting : BOOLEAN,
   keypair : Keys, keyConfirm : BOOLEAN, refund : RefundTexts, refundStatus : Verdicts,
   quote : Quotes, busy : BOOLEAN, deposit : Reservations, offer : Offers,
   privateOn : BOOLEAN, routeAck : BOOLEAN, atRouteGate : BOOLEAN, extra : Reservations]

InFlight ==
  [no : Requests, kind : {"dry", "real", "private"}, asset : {"usdc", "sol"},
   payee : SolanaTexts, refund : ZcashTexts, zat : 0 .. InEnvelope, vouched : BOOLEAN]

\* What request no may have reserved.
Names(addr, no) == addr = Deposit(no) \/ addr = Unvouched(no)

Named(addr) == \E no \in 1 .. requests : Names(addr, no)

\* A main deposit of a route is asked for what the page pays it beside the extra one,
\* any other for what it pays alone.
PriceOf(r, extraZat) ==
  /\ r.payee = Router =>
       r.zat = PageAmounts(InEnvelope, "transparent", extraZat, Spends).receive
  /\ r.payee \in NotARouter => r.zat = Whole

RequestSound(q) ==
  /\ q.no <= requests
  /\ q.kind = "private" => q.payee = Router /\ q.zat = RouteZat(q.asset)
  /\ q.kind # "private" => q.payee \in NotARouter /\ q.zat = Whole

ExitTypes ==
  /\ exit \in ExitStates /\ asked \in SUBSET InFlight
  /\ requests \in 0 .. MaxRequests /\ turns \in 0 .. MaxTurns
  /\ strays \subseteq {"unvouched", "plan", "wallet"}

FieldsSound ==
  /\ exit.phase \in {"destination", "quote", "deposit"} => exit.asset # ""
  /\ exit.refundStatus = "default" => exit.refund = Empty
  /\ exit.refundStatus = "ok" => exit.refund = Other
  /\ exit.offer # "off" => exit.phase \in Late

DepositSound ==
  /\ exit.phase = "deposit" =>
       exit.deposit # NoReservation /\ PriceOf(exit.deposit, exit.extra.zat)
  /\ exit.deposit = NoReservation \/ Named(exit.deposit.addr)

RequestsSound ==
  /\ asked # {} => exit.asset # ""
  /\ \A q \in asked : RequestSound(q) /\ ~Names(exit.deposit.addr, q.no)
  /\ \A q, r \in asked : q.no = r.no => q = r

VouchedFor ==
  "unvouched" \notin strays =>
    /\ exit.phase # "trust" => exit.acknowledged
    /\ exit.phase \in Late => Vouched(exit)
    /\ \A q \in asked : q.vouched

ExitInv == ExitTypes /\ FieldsSound /\ DepositSound /\ RequestsSound /\ VouchedFor

\* What is called differently is different: addresses of two kinds, and those of two requests.
LEMMA Addresses ==
  /\ Empty # Half /\ Empty # Pasted /\ Half # Pasted /\ Other # Half /\ Empty # Other
  /\ Router # Stranger /\ Router # Pasted /\ Router # Connected /\ Router # Empty
  /\ Router # Half /\ Stranger # Pasted /\ Stranger # Connected /\ Stranger # Empty
  /\ Stranger # Half /\ Empty # Connected /\ Half # Connected
  /\ \A n : /\ WalletAddress(n) # Empty
            /\ Deposit(n) # Empty /\ Unvouched(n) # Empty /\ Generated(n) # Router
            /\ Generated(n) # Empty /\ Generated(n) # Half /\ Generated(n) # Stranger
  /\ \A n, m : /\ Deposit(n) # Unvouched(m) /\ (Deposit(n) = Deposit(m) => n = m)
               /\ Unvouched(n) = Unvouched(m) => n = m
BY DEF Empty, Half, Pasted, Other, Router, Stranger, Connected, Deposit, Unvouched, Generated,
       WalletAddress

\* Which Solana addresses there are beside the router and the one nobody named.
LEMMA SolanaAddresses ==
  /\ {Empty, Half, Pasted, Connected} \subseteq NotARouter
  /\ \A n \in 0 .. MaxTurns : Generated(n) \in NotARouter
  /\ NotARouter \subseteq SolanaTexts /\ Router \in SolanaTexts /\ Stranger \in SolanaTexts
  /\ Router \notin NotARouter /\ Stranger \notin NotARouter
BY Addresses DEF NotARouter, SolanaTexts

\* Which Zcash addresses there are.
LEMMA ZcashAddresses ==
  /\ {Empty, Half, Other, Envelope, Elsewhere} \subseteq ZcashTexts
  /\ Texts \subseteq ZcashTexts /\ WalletTexts \subseteq ZcashTexts
  /\ \A n \in Requests : /\ Deposit(n) \in ZcashTexts /\ ExtraDeposit(n) \in ZcashTexts
                         /\ Unvouched(n) \in ZcashTexts
BY DEF ZcashTexts, DepositTexts

\* The reservation, the plan and the exit there are at first.
LEMMA NoReservationType ==
  NoReservation \in Reservations /\ NoReservation.zat = 0 /\ NoReservation.addr = Empty
BY ExitAssumption, SolanaAddresses, ZcashAddresses DEF NoReservation, Reservations

LEMMA NoPlanType ==
  /\ NoPlan \in Plans /\ NoPlan.extra = NoReservation /\ NoPlan.main = NoReservation
  /\ NoPlan.route = FALSE
BY NoReservationType, SolanaAddresses, ZcashAddresses DEF NoPlan, Plans

LEMMA FreshType ==
  /\ Fresh \in ExitStates /\ Fresh.phase = "trust" /\ Fresh.deposit = NoReservation
  /\ Fresh.refundStatus = "default" /\ Fresh.refund = Empty /\ Fresh.offer = "off"
BY NoReservationType, ExitAssumption DEF Fresh, ExitStates, NoQuote, Phases, Modes,
  AssetNames, PasteTexts,
  RefundTexts, Wallets, Keys, Verdicts, Offers, Quotes

\* What the page asks the rail for fits the envelope.
LEMMA AmountTypes ==
  /\ Whole \in 0 .. InEnvelope /\ Split.receive \in 0 .. InEnvelope
  /\ Split.ok => ExtraZat \in 0 .. InEnvelope
<1>1. \A e \in Nat : LET a == PageAmounts(InEnvelope, "transparent", e, Spends)
                     IN  /\ a.receive \in 0 .. InEnvelope
                         /\ a.ok => e \in 0 .. InEnvelope
  BY ExitAssumption, FeeAssumption
  DEF PageAmounts, NetworkFeeWithExtra, NetworkFeeFor, MarginalFee, Pays, Refused,
      MinSplitDestination
<1>2. QED
  BY <1>1, ExitAssumption DEF Whole, Split

\* No exit names the router or a stranger as its recipient, or nothing as its refund address.
LEMMA Recipients ==
  ASSUME NEW s \in ExitStates
  PROVE  /\ Recipient(s) \in NotARouter /\ Recipient(s) \in SolanaTexts
         /\ RefundTo(s) \in {Half, Other, Envelope} /\ RefundTo(s) \in ZcashTexts
<1>1. /\ s.mode \in Modes /\ s.pasted \in PasteTexts /\ s.connected \in Wallets
      /\ s.keypair \in Keys /\ s.refund \in RefundTexts
  BY DEF ExitStates
<1>2. Recipient(s) \in NotARouter
  BY <1>1, SolanaAddresses DEF Recipient, Modes, PasteTexts, Wallets, Keys
<1>3. RefundTo(s) \in {Half, Other, Envelope}
  BY <1>1 DEF RefundTo, RefundTexts
<1>4. QED
  BY <1>2, <1>3, SolanaAddresses, ZcashAddresses

\* The state t is s in every field the effects leave alone.
Alike(t, s) ==
  /\ t \in ExitStates
  /\ t.phase = s.phase /\ t.acknowledged = s.acknowledged /\ t.asset = s.asset
  /\ t.mode = s.mode /\ t.pasted = s.pasted /\ t.connected = s.connected
  /\ t.keypair = s.keypair /\ t.keyConfirm = s.keyConfirm
  /\ t.refund = s.refund /\ t.refundStatus = s.refundStatus
  /\ t.deposit = s.deposit

\* The two effects touch the private route alone, and on the quote and the deposit screen
\* they leave its second reservation as it was.
LEMMA RenderedIs ==
  ASSUME exit \in ExitStates, NEW s \in ExitStates, s.offer = exit.offer,
         exit.offer # "off" => exit.phase \in Late
  PROVE  /\ Alike(Rendered(s), s)
         /\ s.phase \notin Early => Rendered(s).extra = s.extra
         /\ Rendered(s).offer # "off" => Rendered(s).phase \in Late
<1> DEFINE l == [s EXCEPT !.privateOn = FALSE, !.routeAck = FALSE,
                          !.atRouteGate = FALSE, !.extra = NoReservation]
           o(t) == [t EXCEPT !.offer = IF s.phase = "quote" THEN "loading" ELSE "off"]
           moved == s.phase # exit.phase
           again == moved \/ s.quote # exit.quote \/ s.asset # exit.asset
<1>1. Alike(s, s) /\ Alike(l, s) /\ l.offer = s.offer
  <2>1. l \in ExitStates
    BY NoReservationType DEF ExitStates
  <2>2. Alike(l, s) /\ l.offer = s.offer
    BY <2>1 DEF ExitStates, Alike
  <2>3. QED
    BY <2>2 DEF Alike
<1>2. ASSUME NEW t \in {s, l}
      PROVE  Alike(o(t), s) /\ o(t).extra = t.extra /\ (o(t).offer # "off" => s.phase = "quote")
  <2>1. t \in ExitStates /\ Alike(t, s)
    BY <1>1 DEF Alike
  <2>0. "loading" \in Offers /\ "off" \in Offers
    BY DEF Offers
  <2>2. o(t) \in ExitStates /\ o(t).extra = t.extra /\ (o(t).offer # "off" => s.phase = "quote")
    BY <2>0, <2>1 DEF ExitStates
  <2>3. Alike(o(t), t)
    BY <2>1, <2>2 DEF ExitStates, Alike
  <2>4. QED
    BY <2>1, <2>2, <2>3 DEF Alike
<1>3. Rendered(s) = LET left == IF moved /\ s.phase \in Early THEN l ELSE s
                    IN  IF again /\ s.phase # "deposit" THEN o(left) ELSE left
  BY DEF Rendered
<1>4. s.phase \in Phases /\ exit.phase \in Phases
  BY DEF ExitStates
<1> HIDE DEF l, o
<1>5. Rendered(s) \in {s, l, o(s), o(l)} /\ Alike(Rendered(s), s)
  BY <1>1, <1>2, <1>3
<1>6. s.phase \notin Early => Rendered(s).extra = s.extra
  BY <1>1, <1>2, <1>3
<1>7. Rendered(s).offer # "off" => Rendered(s).phase \in Late
  BY <1>1, <1>2, <1>3, <1>4 DEF Alike, Late, Phases
<1>8. QED
  BY <1>5, <1>6, <1>7

\* The states s and t have the same recipient behind them.
SameRecipient(t, s) ==
  /\ t.acknowledged = s.acknowledged /\ t.mode = s.mode /\ t.pasted = s.pasted
  /\ t.connected = s.connected /\ t.keypair = s.keypair /\ t.keyConfirm = s.keyConfirm
  /\ t.refund = s.refund

\* The gates read nothing of the exit but its recipient.
LEMMA VouchedAlike ==
  ASSUME NEW s, NEW t, SameRecipient(t, s)
  PROVE  /\ Vouched(t) = Vouched(s) /\ Recipient(t) = Recipient(s)
         /\ RefundTo(t) = RefundTo(s)
BY DEF SameRecipient, Vouched, Recipient, RefundTo

\* A change of mind is counted up to the bound.
LEMMA TurnType ==
  ASSUME turns \in 0 .. MaxTurns, Turn \/ UNCHANGED turns
  PROVE  turns' \in 0 .. MaxTurns
BY ExitAssumption DEF Turn

\* What a step does to the requests, and which deposit is on the screen after it.
ExitFrame ==
  /\ requests \in Nat /\ requests' \in Nat /\ requests <= requests'
  /\ \A q \in asked' : q \in asked \/ q.no = requests + 1
  /\ strays \subseteq strays'

DepositMoves ==
  \/ exit'.deposit \in {exit.deposit, NoReservation}
  \/ \E q \in asked : Names(exit'.deposit.addr, q.no)

ExitKept == ExitInv' /\ ExitFrame /\ DepositMoves

LEMMA RequestsType == ASSUME ExitInv PROVE requests \in Nat /\ requests <= requests
BY ExitAssumption DEF ExitInv, ExitTypes

\* A step that asks nothing and reserves nothing: what was asked stays or shrinks, the
\* deposit stays, and a late screen is reached by a vouched recipient only.
LEMMA ExitMoves ==
  ASSUME ExitInv, exit' \in ExitStates, FieldsSound', asked' \subseteq asked,
         UNCHANGED <<requests, strays>>, turns' \in 0 .. MaxTurns,
         exit'.deposit = exit.deposit,
         exit'.phase = "deposit" => exit.phase = "deposit" /\ exit'.extra = exit.extra,
         exit.asset # "" => exit'.asset # "",
         "unvouched" \notin strays =>
           /\ exit'.phase # "trust" => exit'.acknowledged
           /\ exit'.phase \in Late => Vouched(exit')
  PROVE  ExitKept
<1>1. ExitTypes'
  BY DEF ExitInv, ExitTypes
<1>2. DepositSound'
  BY DEF ExitInv, DepositSound, Named
<1>3. RequestsSound'
  BY DEF ExitInv, RequestsSound, RequestSound
<1>4. VouchedFor'
  BY DEF ExitInv, VouchedFor
<1>5. ExitFrame /\ DepositMoves
  <2>1. requests \in Nat /\ requests <= requests
    BY RequestsType
  <2>2. \A r \in asked' : r \in asked
    OBVIOUS
  <2>3. QED
    BY <2>1, <2>2 DEF ExitFrame, DepositMoves
<1>6. QED
  BY <1>1, <1>2, <1>3, <1>4, <1>5 DEF ExitInv, ExitKept

\* The tick of the trust boundary.
LEMMA AcknowledgeKeeps == ASSUME ExitInv, Acknowledge PROVE ExitKept
<1>1. /\ exit' \in ExitStates /\ exit'.phase = "trust" /\ exit'.asset = exit.asset
      /\ exit'.refundStatus = exit.refundStatus /\ exit'.refund = exit.refund
      /\ exit'.offer = exit.offer /\ exit'.deposit = exit.deposit
  BY DEF ExitInv, ExitTypes, Acknowledge, ExitStates
<1>2. FieldsSound' /\ turns' \in 0 .. MaxTurns
  BY <1>1, TurnType DEF Acknowledge, ExitInv, ExitTypes, FieldsSound
<1>3. QED
  BY <1>1, <1>2, ExitMoves DEF Acknowledge, Quiet, Late

\* A step of the reducer that the effects follow: s is what the reducer made of it.
LEMMA RenderedMoves ==
  ASSUME ExitInv, NEW s \in ExitStates, exit' = Rendered(s), SameRecipient(s, exit),
         s.offer = exit.offer, s.refundStatus = exit.refundStatus,
         s.deposit = exit.deposit, s.extra = exit.extra,
         exit.asset # "" => s.asset # "",
         s.phase \in {"destination", "quote", "deposit"} => s.asset # "",
         s.phase = "deposit" => exit.phase = "deposit",
         s.phase = "quote" => exit.phase \in Late,
         s.phase # "trust" => exit.acknowledged \/ exit.phase # "trust",
         asked' \subseteq asked, UNCHANGED <<requests, strays>>, turns' \in 0 .. MaxTurns
  PROVE  ExitKept
<1>1. /\ Alike(exit', s)
      /\ s.phase \notin Early => exit'.extra = s.extra
      /\ exit'.offer # "off" => exit'.phase \in Late
  BY RenderedIs DEF ExitInv, ExitTypes, FieldsSound
<1>2. FieldsSound'
  BY <1>1 DEF Alike, SameRecipient, ExitInv, FieldsSound
<1>3. SameRecipient(exit', exit)
  BY <1>1 DEF Alike, SameRecipient
<1>4. Vouched(exit') = Vouched(exit) /\ exit'.acknowledged = exit.acknowledged
  BY <1>3, VouchedAlike DEF SameRecipient
<1>5. "unvouched" \notin strays =>
        /\ exit'.phase # "trust" => exit'.acknowledged
        /\ exit'.phase \in Late => Vouched(exit')
  BY <1>1, <1>4 DEF Alike, ExitInv, VouchedFor, Late
<1>6. exit'.phase = "deposit" => exit.phase = "deposit" /\ exit'.extra = exit.extra
  BY <1>1 DEF Alike, Early
<1>7. QED
  BY <1>1, <1>2, <1>5, <1>6, ExitMoves DEF Alike

\* The steps from screen to screen.
LEMMA ToAssetKeeps == ASSUME ExitInv, ToAsset PROVE ExitKept
<1> DEFINE s == [exit EXCEPT !.phase = "asset"]
<1>1. "asset" \in Phases
  BY DEF Phases
<1>2. /\ s \in ExitStates /\ s.phase = "asset" /\ SameRecipient(s, exit)
      /\ s.offer = exit.offer /\ s.refundStatus = exit.refundStatus
      /\ s.deposit = exit.deposit /\ s.extra = exit.extra /\ s.asset = exit.asset
  BY <1>1 DEF ExitInv, ExitTypes, ExitStates, SameRecipient
<1>3. exit' = Rendered(s) /\ asked' = asked /\ exit.acknowledged
      /\ UNCHANGED <<requests, strays, turns>>
  BY DEF ToAsset, Quiet
<1> HIDE DEF s
<1>4. QED
  BY <1>2, <1>3, RenderedMoves DEF ExitInv, ExitTypes

LEMMA ChooseAssetKeeps == ASSUME ExitInv, NEW a \in Assets, ChooseAsset(a) PROVE ExitKept
<1> DEFINE s == [exit EXCEPT !.asset = a, !.phase = "destination"]
<1>1. "destination" \in Phases /\ a \in AssetNames /\ a # ""
  BY ExitAssumption DEF Phases, AssetNames
<1>2. /\ s \in ExitStates /\ s.phase = "destination" /\ SameRecipient(s, exit)
      /\ s.offer = exit.offer /\ s.refundStatus = exit.refundStatus
      /\ s.deposit = exit.deposit /\ s.extra = exit.extra /\ s.asset = a
  BY <1>1 DEF ExitInv, ExitTypes, ExitStates, SameRecipient
<1>3. exit' = Rendered(s) /\ asked' = asked /\ exit.phase = "asset"
      /\ UNCHANGED <<requests, strays, turns>>
  BY DEF ChooseAsset, Quiet
<1> HIDE DEF s
<1>4. QED
  BY <1>1, <1>2, <1>3, RenderedMoves DEF ExitInv, ExitTypes

LEMMA StepBackKeeps == ASSUME ExitInv, StepBack PROVE ExitKept
<1> DEFINE p == PreviousPhase(exit.phase)
           s == [exit EXCEPT !.phase = p, !.busy = FALSE]
<1>1. exit.phase \in Phases
  BY DEF ExitInv, ExitTypes, ExitStates
<1>2. p \in Phases \ {"deposit"} /\ (p = "quote" => exit.phase = "deposit")
      /\ (p # "trust" => exit.phase \in {"destination", "quote", "deposit"})
  BY <1>1 DEF Phases, PreviousPhase
<1> HIDE DEF p
<1>3. /\ s \in ExitStates /\ s.phase = p /\ SameRecipient(s, exit)
      /\ s.offer = exit.offer /\ s.refundStatus = exit.refundStatus
      /\ s.deposit = exit.deposit /\ s.extra = exit.extra /\ s.asset = exit.asset
  BY <1>2 DEF ExitInv, ExitTypes, ExitStates, SameRecipient
<1>4. exit' = Rendered(s) /\ asked' = asked /\ UNCHANGED <<requests, strays>>
  BY DEF StepBack, Quiet, p
<1>5. turns' \in 0 .. MaxTurns
  BY TurnType DEF StepBack, ExitInv, ExitTypes
<1> HIDE DEF s
<1>6. s.phase \in {"destination", "quote", "deposit"} => s.asset # ""
  BY <1>2, <1>3 DEF ExitInv, FieldsSound
<1>7. QED
  BY <1>2, <1>3, <1>4, <1>5, <1>6, RenderedMoves DEF Late

\* A failure takes the deposit screen back to the quote.
LEMMA RailFailsKeeps == ASSUME ExitInv, NEW q, RailFails(q) PROVE ExitKept
<1> DEFINE p == IF exit.phase = "deposit" THEN "quote" ELSE exit.phase
           s == [exit EXCEPT !.busy = FALSE, !.phase = p]
<1>1. p \in Phases \ {"deposit"} /\ (p = "quote" => exit.phase \in Late)
      /\ (p # "trust" => exit.phase # "trust")
      /\ (p \in {"destination", "quote", "deposit"} =>
            exit.phase \in {"destination", "quote", "deposit"})
  BY DEF ExitInv, ExitTypes, ExitStates, Phases, Late
<1> HIDE DEF p
<1>2. /\ s \in ExitStates /\ s.phase = p /\ SameRecipient(s, exit)
      /\ s.offer = exit.offer /\ s.refundStatus = exit.refundStatus
      /\ s.deposit = exit.deposit /\ s.extra = exit.extra /\ s.asset = exit.asset
  BY <1>1 DEF ExitInv, ExitTypes, ExitStates, SameRecipient
<1>3. exit' = Rendered(s)
  BY DEF RailFails, QuoteError, p
<1>4. asked' \subseteq asked /\ UNCHANGED <<requests, strays, turns>>
  BY DEF RailFails
<1> HIDE DEF s
<1>5. s.phase \in {"destination", "quote", "deposit"} => s.asset # ""
  BY <1>1, <1>2 DEF ExitInv, FieldsSound
<1>6. turns' \in 0 .. MaxTurns
  BY <1>4 DEF ExitInv, ExitTypes
<1>7. QED
  BY <1>1, <1>2, <1>3, <1>4, <1>5, <1>6, RenderedMoves

\* A step on the destination screen, or of a wallet: the phase and what was asked stay.
LEMMA StaysPut ==
  ASSUME ExitInv, exit' \in ExitStates, exit'.phase = exit.phase, exit'.asset = exit.asset,
         exit'.offer = exit.offer \/ exit.phase = "quote", exit'.deposit = exit.deposit,
         exit'.extra = exit.extra, exit'.acknowledged = exit.acknowledged,
         exit'.refundStatus = "default" => exit'.refund = Empty,
         exit'.refundStatus = "ok" => exit'.refund = Other,
         exit.phase \in Late => (Vouched(exit) => Vouched(exit')),
         UNCHANGED <<asked, requests, strays>>, turns' \in 0 .. MaxTurns
  PROVE  ExitKept
<1>1. FieldsSound'
  BY DEF ExitInv, FieldsSound, Late
<1>2. QED
  BY <1>1, ExitMoves DEF ExitInv, VouchedFor

\* The ways to name a recipient, and what each of them drops.
LEMMA ChooseModeKeeps ==
  ASSUME ExitInv, NEW m \in {"paste", "connect", "generate"}, ChooseMode(m) PROVE ExitKept
<1>1. turns' \in 0 .. MaxTurns
  BY TurnType DEF ChooseMode, ExitInv, ExitTypes
<1>2. Generated(turns') \in Keys /\ Empty \in Keys /\ Empty \in PasteTexts /\ Empty \in Wallets
      /\ m \in Modes
  BY <1>1 DEF Keys, PasteTexts, Wallets, Modes
<1> DEFINE w == WithMode(exit, m)
<1>3. /\ w \in ExitStates /\ w.phase = exit.phase /\ w.asset = exit.asset
      /\ w.offer = exit.offer /\ w.deposit = exit.deposit /\ w.extra = exit.extra
      /\ w.acknowledged = exit.acknowledged /\ w.refundStatus = exit.refundStatus
      /\ w.refund = exit.refund
  BY <1>2 DEF ExitInv, ExitTypes, ExitStates, WithMode
<1>4. \/ exit' = w
      \/ \E k \in {Generated(turns'), Empty} : exit' = [w EXCEPT !.keypair = k, !.keyConfirm = FALSE]
  BY DEF ChooseMode
<1> HIDE DEF w
<1>5. \/ exit' = w
      \/ \E k \in Keys : exit' = [w EXCEPT !.keypair = k, !.keyConfirm = FALSE]
  BY <1>2, <1>4
<1>6. /\ exit' \in ExitStates /\ exit'.phase = exit.phase /\ exit'.asset = exit.asset
      /\ exit'.offer = exit.offer /\ exit'.deposit = exit.deposit
      /\ exit'.extra = exit.extra /\ exit'.acknowledged = exit.acknowledged
      /\ exit'.refundStatus = exit.refundStatus /\ exit'.refund = exit.refund
  BY <1>3, <1>4, <1>5 DEF ExitStates
<1>7. exit.phase = "destination" /\ UNCHANGED <<asked, requests, strays>>
  BY DEF ChooseMode, Quiet
<1>8. QED
  BY <1>1, <1>6, <1>7, StaysPut DEF Late, ExitInv, FieldsSound

\* The other steps of the destination screen.
Destination ==
  \/ (\E t \in {Pasted, Half} : PasteAddress(t)) \/ TypeTail \/ PickWallet
  \/ (\E t \in {Empty, Half, Other} : TypeRefund(t))

\* What is typed or picked on the destination screen.
LEMMA DestinationKeeps == ASSUME ExitInv, Destination PROVE ExitKept
<1>1. turns' \in 0 .. MaxTurns
  BY TurnType DEF Destination, PasteAddress, TypeTail, PickWallet, TypeRefund, ExitInv, ExitTypes
<1>2. exit.phase = "destination" /\ UNCHANGED <<asked, requests, strays>>
  BY DEF Destination, PasteAddress, TypeTail, PickWallet, TypeRefund, Quiet
<1>3. /\ exit' \in ExitStates /\ exit'.phase = exit.phase /\ exit'.asset = exit.asset
      /\ exit'.offer = exit.offer /\ exit'.deposit = exit.deposit
      /\ exit'.extra = exit.extra /\ exit'.acknowledged = exit.acknowledged
      /\ exit'.refundStatus = "default" => exit'.refund = Empty
      /\ exit'.refundStatus = "ok" => exit'.refund = Other
  <2>1. CASE \E t \in {Pasted, Half} : PasteAddress(t)
    <3>1. PICK t \in {Pasted, Half} : PasteAddress(t)
      BY <2>1
    <3>2. t \in PasteTexts
      BY DEF PasteTexts
    <3>3. QED
      BY <3>1, <3>2 DEF PasteAddress, ExitStates, ExitInv, ExitTypes, FieldsSound
  <2>2. CASE TypeTail
    BY <2>2 DEF TypeTail, ExitStates, ExitInv, ExitTypes, FieldsSound
  <2>3. CASE PickWallet
    BY <2>3 DEF PickWallet, ExitStates, ExitInv, ExitTypes, FieldsSound
  <2>4. CASE \E t \in {Empty, Half, Other} : TypeRefund(t)
    <3>1. PICK t \in {Empty, Half, Other} : TypeRefund(t)
      BY <2>4
    <3>2. t \in RefundTexts /\ {"default", "checking"} \subseteq Verdicts
      BY DEF RefundTexts, Verdicts
    <3>3. QED
      BY <3>1, <3>2 DEF TypeRefund, ExitStates, ExitInv, ExitTypes, FieldsSound
  <2>5. QED
    BY <2>1, <2>2, <2>3, <2>4 DEF Destination
<1>4. QED
  BY <1>1, <1>2, <1>3, StaysPut DEF Late

\* A wallet that answers late names an address it holds, whatever the screen.
LEMMA WalletAnswersKeeps ==
  ASSUME ExitInv, NEW shared \in BOOLEAN, WalletAnswers(shared) PROVE ExitKept
<1>1. "connect" \in Modes /\ Connected \in Wallets
  BY DEF Modes, Wallets
<1>2. /\ exit' \in ExitStates /\ exit'.phase = exit.phase /\ exit'.asset = exit.asset
      /\ exit'.offer = exit.offer /\ exit'.deposit = exit.deposit
      /\ exit'.extra = exit.extra /\ exit'.acknowledged = exit.acknowledged
      /\ exit'.refundStatus = exit.refundStatus /\ exit'.refund = exit.refund
  BY <1>1 DEF WalletAnswers, ExitStates, ExitInv, ExitTypes
<1>3. Vouched(exit) => Vouched(exit')
  <2>1. CASE shared
    <3>1. exit'.mode = "connect" /\ exit'.connected = Connected
      BY <2>1, <1>1 DEF WalletAnswers, ExitStates, ExitInv, ExitTypes
    <3>2. QED
      BY <3>1, <1>2 DEF Vouched, Recipient
  <2>2. CASE ~shared
    <3>1. SameRecipient(exit', exit)
      BY <2>2 DEF WalletAnswers, ExitStates, ExitInv, ExitTypes, SameRecipient
    <3>2. QED
      BY <3>1, VouchedAlike
  <2>3. QED
    BY <2>1, <2>2
<1>4. UNCHANGED <<asked, requests, strays, turns>>
  BY DEF WalletAnswers, Quiet
<1>5. QED
  BY <1>2, <1>3, <1>4, StaysPut DEF ExitInv, ExitTypes, FieldsSound

\* The steps of the quote screen and of the gate of the route that ask for nothing.
QuoteScreen ==
  \/ ToggleRoute \/ AtRouteGate
  \/ (\E v \in {"ready", "poor", "off"} : OfferLands(v))

\* What is clicked on the quote screen and the gate of the route.
LEMMA QuoteScreenKeeps == ASSUME ExitInv, QuoteScreen PROVE ExitKept
<1>1. turns' \in 0 .. MaxTurns
  BY TurnType DEF QuoteScreen, ToggleRoute, AtRouteGate, OfferLands, ExitInv, ExitTypes
<1>2. UNCHANGED <<asked, requests, strays>>
  BY DEF QuoteScreen, ToggleRoute, AtRouteGate, OfferLands, Quiet
<1>3. {"ready", "poor", "off"} \subseteq Offers
  BY DEF Offers
<1>4. /\ exit' \in ExitStates /\ exit'.phase = exit.phase /\ exit'.asset = exit.asset
      /\ exit'.offer = exit.offer \/ exit.phase = "quote"
      /\ exit'.deposit = exit.deposit
      /\ exit'.extra = exit.extra /\ SameRecipient(exit', exit)
      /\ exit'.refundStatus = exit.refundStatus
  <2>1. CASE ToggleRoute
    BY <2>1 DEF ToggleRoute, ExitInv, ExitTypes, ExitStates, SameRecipient
  <2>2. CASE AtRouteGate
    <3>1. exit \in ExitStates
      BY DEF ExitInv, ExitTypes
    <3>2. CASE exit' = [exit EXCEPT !.routeAck = TRUE]
      BY <3>1, <3>2 DEF ExitStates, SameRecipient
    <3>3. CASE exit' = [exit EXCEPT !.atRouteGate = FALSE]
      BY <3>1, <3>3 DEF ExitStates, SameRecipient
    <3>4. QED
      BY <2>2, <3>2, <3>3 DEF AtRouteGate
  <2>3. CASE \E v \in {"ready", "poor", "off"} : OfferLands(v)
    BY <2>3, <1>3 DEF OfferLands, ExitInv, ExitTypes, ExitStates, SameRecipient
  <2>4. QED
    BY <2>1, <2>2, <2>3 DEF QuoteScreen
<1>5. Vouched(exit) = Vouched(exit')
  BY <1>4, VouchedAlike
<1>6. QED
  BY <1>1, <1>2, <1>4, <1>5, StaysPut DEF SameRecipient, ExitInv, ExitTypes, FieldsSound

\* The verdict on a refund address counts for the text it was asked for.
LEMMA RefundVerdictKeeps ==
  ASSUME ExitInv, NEW text, exit' = RefundVerdict(exit, text),
         UNCHANGED <<asked, requests, strays, turns>>
  PROVE  ExitKept
<1>1. {"ok", "bad"} \subseteq Verdicts
  BY DEF Verdicts
<1>2. /\ exit' \in ExitStates /\ exit'.phase = exit.phase /\ exit'.asset = exit.asset
      /\ exit'.offer = exit.offer /\ exit'.deposit = exit.deposit
      /\ exit'.extra = exit.extra /\ SameRecipient(exit', exit)
      /\ \/ exit'.refundStatus = exit.refundStatus
         \/ exit'.refundStatus = "bad"
         \/ exit'.refundStatus = "ok" /\ exit.refund = Other
  BY <1>1 DEF RefundVerdict, ExitInv, ExitTypes, ExitStates, SameRecipient
<1>3. Vouched(exit) = Vouched(exit')
  BY <1>2, VouchedAlike
<1>4. QED
  BY <1>2, <1>3, StaysPut DEF SameRecipient, ExitInv, ExitTypes, FieldsSound

\* Every request is typed, priced, numbered anew and asked of a vouched page.
LEMMA AskKeeps ==
  ASSUME ExitInv, NEW kind \in {"dry", "real", "private"}, NEW payee \in SolanaTexts,
         NEW zat \in 0 .. InEnvelope, Ask(exit, kind, payee, zat),
         kind = "private" => payee = Router /\ zat = RouteZat(exit.asset),
         kind # "private" => payee \in NotARouter /\ zat = Whole,
         exit.phase \in {"destination", "quote", "deposit"},
         "unvouched" \notin strays => Vouched(exit),
         exit' \in ExitStates, SameRecipient(exit', exit), exit'.phase = exit.phase,
         exit'.asset = exit.asset, exit'.offer = exit.offer, exit'.deposit = exit.deposit,
         exit'.extra = exit.extra, exit'.refundStatus = exit.refundStatus
  PROVE  ExitKept
<1>0. PICK q : q = [no |-> requests + 1, kind |-> kind, asset |-> exit.asset,
                    payee |-> payee, refund |-> RefundTo(exit), zat |-> zat,
                    vouched |-> Vouched(exit)]
  OBVIOUS
<1>1. /\ requests < MaxRequests /\ requests' = requests + 1
      /\ asked' = asked \cup {q} /\ UNCHANGED <<turns, strays>>
  BY <1>0 DEF Ask
<1>2. /\ requests \in 0 .. MaxRequests /\ exit \in ExitStates /\ asked \in SUBSET InFlight
      /\ requests + 1 \in Requests /\ requests' \in 0 .. MaxRequests
  BY <1>1, ExitAssumption DEF ExitInv, ExitTypes, Requests
<1>3. exit.asset \in {"usdc", "sol"}
  BY <1>2 DEF ExitInv, FieldsSound, ExitStates, AssetNames
<1>4. Vouched(exit) \in BOOLEAN
  BY <1>2 DEF Vouched, ExitStates
<1>5. RefundTo(exit) \in ZcashTexts
  BY <1>2, Recipients
<1>6. q \in InFlight
  BY <1>0, <1>2, <1>3, <1>4, <1>5 DEF InFlight
<1>7. q.no = requests + 1 /\ q.kind = kind /\ q.asset = exit.asset /\ q.payee = payee
      /\ q.zat = zat /\ q.vouched = Vouched(exit)
  BY <1>0
<1>8. ExitTypes'
  BY <1>1, <1>2, <1>6 DEF ExitInv, ExitTypes
<1>9. FieldsSound'
  BY DEF ExitInv, FieldsSound, SameRecipient
<1>10. DepositSound'
  BY <1>1, <1>2 DEF ExitInv, DepositSound, Named
<1>11. RequestsSound'
  <2>1. RequestSound(q)'
    BY <1>1, <1>7 DEF RequestSound
  <2>2. ASSUME NEW r \in asked
        PROVE  RequestSound(r)' /\ r.no # q.no
    <3>1. r.no \in Nat
      BY <1>2, ExitAssumption DEF InFlight, Requests
    <3>2. RequestSound(r)
      BY DEF ExitInv, RequestsSound
    <3>3. QED
      BY <1>1, <1>2, <1>7, <3>1, <3>2 DEF RequestSound
  <2>3. ~Names(exit.deposit.addr, q.no)
    BY <1>2, <1>7, NoReservationType, Addresses DEF ExitInv, DepositSound, Named, Names
  <2>4. QED
    BY <1>1, <1>3, <2>1, <2>2, <2>3 DEF ExitInv, RequestsSound
<1>12. VouchedFor'
  <2>1. Vouched(exit') = Vouched(exit)
    BY VouchedAlike
  <2>2. QED
    BY <1>1, <1>7, <2>1 DEF ExitInv, VouchedFor, SameRecipient, Late
<1>13. ExitFrame /\ DepositMoves
  BY <1>1, <1>2, <1>7 DEF ExitFrame, DepositMoves
<1>14. QED
  BY <1>8, <1>9, <1>10, <1>11, <1>12, <1>13 DEF ExitInv, ExitKept

\* The three requests, each behind its own gate.
LEMMA AskPriceKeeps == ASSUME ExitInv, AskPrice PROVE ExitKept
<1>1. /\ exit' \in ExitStates /\ SameRecipient(exit', exit) /\ exit'.phase = exit.phase
      /\ exit'.asset = exit.asset /\ exit'.offer = exit.offer
      /\ exit'.deposit = exit.deposit /\ exit'.extra = exit.extra
      /\ exit'.refundStatus = exit.refundStatus
  BY DEF AskPrice, ExitInv, ExitTypes, ExitStates, SameRecipient
<1>2. exit.phase = "destination" /\ Ask(exit, "dry", Recipient(exit), Whole)
  BY DEF AskPrice, CanQuote
<1>3. Recipient(exit) \in NotARouter /\ Recipient(exit) \in SolanaTexts
  BY Recipients DEF ExitInv, ExitTypes
<1>4. "unvouched" \notin strays => Vouched(exit)
  <2>1. /\ exit.mode \in Modes \ {""} /\ Recipient(exit) \notin {Empty, Half}
        /\ exit.mode = "generate" => exit.keyConfirm
        /\ exit.refundStatus \in {"default", "ok"}
    BY DEF AskPrice, CanQuote, DestinationReady, RefundReady, ExitInv, ExitTypes, ExitStates
  <2>2. exit.refund \in {Empty, Other}
    BY <2>1 DEF ExitInv, FieldsSound
  <2>3. Recipient(exit) \in {Pasted, Connected} \/ exit.keyConfirm
    BY <2>1 DEF Recipient, Modes, ExitInv, ExitTypes, ExitStates, PasteTexts, Wallets
  <2>4. QED
    BY <1>2, <2>1, <2>2, <2>3 DEF Vouched, ExitInv, VouchedFor
<1>5. QED
  BY <1>1, <1>2, <1>3, <1>4, AskKeeps, AmountTypes

LEMMA AskDepositKeeps == ASSUME ExitInv, AskDeposit PROVE ExitKept
<1>1. /\ exit' \in ExitStates /\ SameRecipient(exit', exit) /\ exit'.phase = exit.phase
      /\ exit'.asset = exit.asset /\ exit'.offer = exit.offer
      /\ exit'.deposit = exit.deposit /\ exit'.extra = exit.extra
      /\ exit'.refundStatus = exit.refundStatus
  <2>1. \/ exit' = [exit EXCEPT !.atRouteGate = TRUE]
        \/ exit' = [exit EXCEPT !.busy = TRUE]
    BY DEF AskDeposit
  <2>2. CASE exit' = [exit EXCEPT !.atRouteGate = TRUE]
    BY <2>2 DEF ExitInv, ExitTypes, ExitStates, SameRecipient
  <2>3. CASE exit' = [exit EXCEPT !.busy = TRUE]
    BY <2>3 DEF ExitInv, ExitTypes, ExitStates, SameRecipient
  <2>4. QED
    BY <2>1, <2>2, <2>3
<1>2. exit.phase = "quote"
  BY DEF AskDeposit, CanGetDeposit
<1>3. CASE Quiet /\ UNCHANGED turns
  <2>1. Vouched(exit') = Vouched(exit)
    BY <1>1, VouchedAlike
  <2>2. QED
    BY <1>1, <1>3, <2>1, StaysPut DEF Quiet, SameRecipient, ExitInv, ExitTypes, FieldsSound
<1>4. CASE Ask(exit, "real", Recipient(exit), Whole)
  <2>1. Recipient(exit) \in NotARouter /\ Recipient(exit) \in SolanaTexts
    BY Recipients DEF ExitInv, ExitTypes
  <2>2. "unvouched" \notin strays => Vouched(exit)
    BY <1>2 DEF ExitInv, VouchedFor, Late
  <2>3. QED
    BY <1>1, <1>2, <1>4, <2>1, <2>2, AskKeeps, AmountTypes
<1>5. QED
  BY <1>3, <1>4 DEF AskDeposit

LEMMA AskPrivateKeeps == ASSUME ExitInv, AskPrivate PROVE ExitKept
<1>1. /\ exit' \in ExitStates /\ SameRecipient(exit', exit) /\ exit'.phase = exit.phase
      /\ exit'.asset = exit.asset /\ exit'.offer = exit.offer
      /\ exit'.deposit = exit.deposit /\ exit'.extra = exit.extra
      /\ exit'.refundStatus = exit.refundStatus
  BY DEF AskPrivate, ExitInv, ExitTypes, ExitStates, SameRecipient
<1>2. exit.phase \in Late /\ Ask(exit, "private", Router, RouteZat(exit.asset))
  BY DEF AskPrivate, OfferReady, ExitInv, FieldsSound
<1>3. "unvouched" \notin strays => Vouched(exit)
  BY <1>2 DEF ExitInv, VouchedFor
<1>4. RouteZat(exit.asset) \in 0 .. InEnvelope /\ Router \in SolanaTexts
  BY AmountTypes, SolanaAddresses DEF RouteZat
<1>5. QED
  BY <1>1, <1>2, <1>3, <1>4, AskKeeps DEF Late

\* What an answer of the rail leaves of what was asked.
LEMMA LandedKeeps ==
  ASSUME ExitInv, NEW q \in asked, Landed(q), exit' \in ExitStates,
         SameRecipient(exit', exit), exit'.phase \in Late, exit'.asset = exit.asset,
         exit'.refundStatus = exit.refundStatus, DepositSound', DepositMoves,
         \A r \in asked \ {q} : ~Names(exit'.deposit.addr, r.no)
  PROVE  ExitKept
<1>1. /\ asked' = asked \ {q} /\ UNCHANGED <<requests, turns>> /\ exit.asset # ""
      /\ strays \subseteq strays' /\ strays' \subseteq {"unvouched", "plan", "wallet"}
      /\ "unvouched" \notin strays' => "unvouched" \notin strays /\ (q.vouched => Vouched(exit))
  BY DEF Landed, ExitInv, ExitTypes, RequestsSound
<1>2. ExitTypes'
  BY <1>1 DEF ExitInv, ExitTypes
<1>3. FieldsSound'
  BY <1>1 DEF ExitInv, FieldsSound, SameRecipient
<1>4. RequestsSound'
  BY <1>1 DEF ExitInv, RequestsSound, RequestSound
<1>5. VouchedFor'
  <2>1. SUFFICES ASSUME "unvouched" \notin strays'
                 PROVE  exit'.acknowledged /\ Vouched(exit') /\ \A r \in asked' : r.vouched
    BY DEF VouchedFor
  <2>2. (q.vouched => Vouched(exit)) /\ "unvouched" \notin strays
    BY <1>1, <2>1
  <2>3. Vouched(exit') = Vouched(exit)
    BY VouchedAlike
  <2>4. Vouched(exit) /\ \A r \in asked' : r.vouched
    BY <1>1, <2>2 DEF ExitInv, VouchedFor
  <2>5. QED
    BY <2>3, <2>4 DEF Vouched
<1>6. ExitFrame
  <2>1. requests \in Nat /\ requests <= requests
    BY RequestsType
  <2>2. \A r \in asked' : r \in asked
    BY <1>1
  <2>3. QED
    BY <1>1, <2>1, <2>2 DEF ExitFrame
<1>7. QED
  BY <1>2, <1>3, <1>4, <1>5, <1>6 DEF ExitInv, ExitKept

\* A price lands.
LEMMA RailPricesKeeps ==
  ASSUME ExitInv, NEW q, NEW ok \in BOOLEAN, RailPrices(q, ok) PROVE ExitKept
<1>1. q \in asked /\ q \in InFlight /\ Landed(q)
  BY DEF RailPrices, ExitInv, ExitTypes
<1>2. PICK v : v = [no |-> q.no, ok |-> ok]
  OBVIOUS
<1>3. v \in Quotes /\ "quote" \in Phases
  BY <1>1, <1>2, ExitAssumption DEF Quotes, Phases, InFlight, Requests
<1> DEFINE s == [exit EXCEPT !.busy = FALSE, !.phase = "quote", !.quote = v]
<1>4. /\ s \in ExitStates /\ s.phase = "quote" /\ SameRecipient(s, exit)
      /\ s.offer = exit.offer /\ s.refundStatus = exit.refundStatus
      /\ s.deposit = exit.deposit /\ s.asset = exit.asset
  BY <1>3 DEF ExitInv, ExitTypes, ExitStates, SameRecipient
<1>5. exit' = Rendered(s)
  BY <1>2 DEF RailPrices
<1> HIDE DEF s
<1>6. Alike(exit', s)
  BY <1>4, <1>5, RenderedIs DEF ExitInv, ExitTypes, FieldsSound
<1>7. /\ exit' \in ExitStates /\ SameRecipient(exit', exit) /\ exit'.phase = "quote"
      /\ exit'.asset = exit.asset /\ exit'.refundStatus = exit.refundStatus
      /\ exit'.deposit = exit.deposit
  BY <1>4, <1>6 DEF Alike, SameRecipient
<1>8. UNCHANGED requests
  BY <1>1 DEF Landed
<1>9. DepositSound' /\ \A r \in asked \ {q} : ~Names(exit'.deposit.addr, r.no)
  BY <1>7, <1>8 DEF ExitInv, DepositSound, RequestsSound, Named
<1>10. QED
  BY <1>1, <1>7, <1>9, LandedKeeps DEF Late, DepositMoves

\* What the rail says of a reservation is typed, whatever it gets wrong, and it is not
\* wrong about the price.
LEMMA EchoIs ==
  ASSUME NEW r \in Reservations, NEW wrong, NEW no \in Requests
  PROVE  /\ Echo(r, wrong, no) \in Reservations /\ Echo(r, wrong, no).zat = r.zat
         /\ Echo(r, wrong, no).payee \in {r.payee, Stranger}
         /\ Echo(r, wrong, no).addr \in {r.addr, Unvouched(no)}
<1>1. Unvouched(no) \in ZcashTexts /\ Stranger \in SolanaTexts /\ Elsewhere \in ZcashTexts
  BY ZcashAddresses, SolanaAddresses
<1>2. PICK e : e = Echo(r, wrong, no)
  OBVIOUS
<1>3. r.addr \in ZcashTexts /\ r.asset \in {"", "usdc", "sol"} /\ r.payee \in SolanaTexts
      /\ r.refund \in ZcashTexts /\ r.zat \in 0 .. InEnvelope
  BY DEF Reservations
<1>4. PICK a, b, c, d :
        /\ e = [addr |-> a, asset |-> b, payee |-> c, refund |-> d, zat |-> r.zat]
        /\ a \in {r.addr, Unvouched(no)} /\ b \in {r.asset, "sol", "usdc"}
        /\ c \in {r.payee, Stranger} /\ d \in {r.refund, Elsewhere}
  BY <1>2 DEF Echo
<1>5. a \in ZcashTexts /\ b \in {"", "usdc", "sol"} /\ c \in SolanaTexts /\ d \in ZcashTexts
  BY <1>1, <1>3, <1>4
<1>6. e \in Reservations
  BY <1>3, <1>4, <1>5 DEF Reservations
<1>7. e.zat = r.zat /\ e.payee = c /\ e.addr = a
  BY <1>4
<1>8. QED
  BY <1>2, <1>4, <1>6, <1>7

\* What the rail says it reserved is typed, names its request and was priced by the page.
LEMMA ReservedIs ==
  ASSUME ExitInv, NEW q \in asked, NEW main \in Reserved(q)
  PROVE  /\ main \in Reservations /\ Names(main.addr, q.no) /\ main # NoReservation
         /\ main.payee \in {q.payee, Stranger} /\ main.zat = q.zat
<1>1. /\ q \in InFlight /\ q.no \in Requests /\ q.asset \in AssetNames
      /\ q.payee \in SolanaTexts /\ q.refund \in ZcashTexts /\ q.zat \in 0 .. InEnvelope
  BY DEF ExitInv, ExitTypes, InFlight, AssetNames
<1>2. Deposit(q.no) \in ZcashTexts /\ Deposit(q.no) # Empty
  BY <1>1, ZcashAddresses, Addresses
<1> DEFINE r == AsAsked(q)
<1>3. PICK wrong \in Lies : main = Echo(r, wrong, q.no)
  BY DEF Reserved
<1>4. r \in Reservations /\ r.addr = Deposit(q.no) /\ r.payee = q.payee /\ r.zat = q.zat
  BY <1>1, <1>2 DEF Reservations, AssetNames, AsAsked
<1> HIDE DEF r
<1>5. /\ main \in Reservations /\ main.payee \in {q.payee, Stranger} /\ main.zat = q.zat
      /\ main.addr \in {Deposit(q.no), Unvouched(q.no)}
  BY <1>1, <1>3, <1>4, EchoIs
<1>6. QED
  BY <1>5, NoReservationType, Addresses DEF Names

\* The route's second reservation is sized by the page, or there is none.
LEMMA ExtraReservedIs ==
  ASSUME ExitInv, NEW q \in asked, NEW extra \in ExtraReserved(q), q.asset = "usdc" => Split.ok
  PROVE  extra \in Reservations /\ extra.zat = IF q.asset = "usdc" THEN ExtraZat ELSE 0
<1>1. q \in InFlight /\ q.no \in Requests /\ q.refund \in ZcashTexts
  BY DEF ExitInv, ExitTypes, InFlight
<1>2. ExtraDeposit(q.no) \in ZcashTexts /\ Router \in SolanaTexts
  BY <1>1, ZcashAddresses, SolanaAddresses
<1>3. CASE q.asset = "usdc"
  <2>1. ExtraZat \in 0 .. InEnvelope
    BY <1>3, AmountTypes
  <2> DEFINE r == ExtraAsAsked(q)
  <2>2. PICK wrong \in Lies : extra = Echo(r, wrong, q.no)
    BY <1>3 DEF ExtraReserved
  <2>3. r \in Reservations /\ r.zat = ExtraZat
    BY <1>1, <1>2, <1>3, <2>1 DEF Reservations, ExtraAsAsked
  <2> HIDE DEF r
  <2>4. QED
    BY <1>1, <1>3, <2>2, <2>3, EchoIs
<1>4. CASE q.asset # "usdc"
  BY <1>4, NoReservationType DEF ExtraReserved
<1>5. QED
  BY <1>3, <1>4

\* A reservation lands: it names a request nobody else names, and it is priced for what the
\* page pays it beside the second one.
LEMMA RailReservesKeeps ==
  ASSUME ExitInv, NEW q, NEW main, NEW extra, RailReserves(q, main, extra) PROVE ExitKept
<1>1. q \in asked /\ q \in InFlight /\ Landed(q) /\ main \in Reserved(q) /\ RequestSound(q)
  BY DEF RailReserves, ExitInv, ExitTypes, RequestsSound
<1>2. /\ main \in Reservations /\ Names(main.addr, q.no) /\ main # NoReservation
      /\ main.payee \in {q.payee, Stranger} /\ main.zat = q.zat
  BY <1>1, ReservedIs
<1>3. /\ extra \in Reservations
      /\ q.kind = "private" => extra.zat = IF q.asset = "usdc" THEN ExtraZat ELSE 0
  <2>1. CASE q.kind = "private"
    BY <1>1, <2>1, ExtraReservedIs DEF RailReserves
  <2>2. CASE q.kind # "private"
    BY <2>2 DEF RailReserves, ExitInv, ExitTypes, ExitStates
  <2>3. QED
    BY <2>1, <2>2
<1>4. PriceOf(main, extra.zat)
  <2>1. CASE q.kind = "private"
    BY <1>1, <1>2, <1>3, <2>1, SolanaAddresses DEF RequestSound, PriceOf, RouteZat, Split, Whole
  <2>2. CASE q.kind # "private"
    <3>1. q.payee \in NotARouter /\ main.zat = Whole
      BY <1>1, <1>2, <2>2 DEF RequestSound
    <3>2. main.payee # Router
      BY <1>2, <3>1, SolanaAddresses, Addresses
    <3>3. QED
      BY <3>1, <3>2 DEF PriceOf
  <2>3. QED
    BY <2>1, <2>2
<1> DEFINE s == [exit EXCEPT !.busy = FALSE, !.phase = "deposit", !.deposit = main,
                             !.extra = extra]
<1>5. "deposit" \in Phases
  BY DEF Phases
<1>6. /\ s \in ExitStates /\ s.phase = "deposit" /\ SameRecipient(s, exit)
      /\ s.offer = exit.offer /\ s.refundStatus = exit.refundStatus
      /\ s.deposit = main /\ s.extra = extra /\ s.asset = exit.asset
  BY <1>2, <1>3, <1>5 DEF ExitInv, ExitTypes, ExitStates, SameRecipient
<1>7. exit' = Rendered(s)
  BY DEF RailReserves
<1> HIDE DEF s
<1>8. Alike(exit', s) /\ (s.phase \notin Early => exit'.extra = s.extra)
  BY <1>6, <1>7, RenderedIs DEF ExitInv, ExitTypes, FieldsSound
<1>9. /\ exit' \in ExitStates /\ SameRecipient(exit', exit) /\ exit'.phase = "deposit"
      /\ exit'.asset = exit.asset /\ exit'.refundStatus = exit.refundStatus
      /\ exit'.deposit = main /\ exit'.extra = extra
  BY <1>6, <1>8 DEF Alike, SameRecipient, Early
<1>10. q.no \in 1 .. requests /\ UNCHANGED requests
  BY <1>1, ExitAssumption DEF Landed, RequestSound, InFlight, Requests, ExitInv, ExitTypes
<1>11. DepositSound'
  BY <1>2, <1>4, <1>9, <1>10 DEF DepositSound, Named
<1>12. \A r \in asked \ {q} : ~Names(exit'.deposit.addr, r.no)
  <2>1. Names(main.addr, q.no) /\ exit'.deposit = main
    BY <1>2, <1>9
  <2>2. \A r \in asked \ {q} : r.no # q.no
    BY <1>1 DEF ExitInv, RequestsSound
  <2>3. \A n : Names(main.addr, n) => n = q.no
    BY <2>1, Addresses DEF Names
  <2>4. QED
    BY <2>1, <2>2, <2>3
<1>13. DepositMoves
  BY <1>1, <1>2, <1>9 DEF DepositMoves
<1>14. QED
  BY <1>1, <1>9, <1>11, <1>12, <1>13, LandedKeeps DEF Late

\* Every step of the exit and of the rail keeps the exit's invariant.
LEMMA ExitStepsKeep == ASSUME ExitInv, ExitSteps PROVE ExitKept
<1>1. CASE \/ (\E t \in {Pasted, Half} : PasteAddress(t)) \/ TypeTail \/ PickWallet
  BY <1>1, DestinationKeeps DEF Destination
<1>2. CASE \/ ToggleRoute \/ AtRouteGate
           \/ (\E v \in {"ready", "poor", "off"} : OfferLands(v))
  BY <1>2, QuoteScreenKeeps DEF QuoteScreen
<1>3. QED
  BY <1>1, <1>2, AcknowledgeKeeps, ToAssetKeeps, ChooseAssetKeeps, ChooseModeKeeps,
     WalletAnswersKeeps, StepBackKeeps, AskPriceKeeps, AskDepositKeeps, AskPrivateKeeps
  DEF ExitSteps

\* So does every answer of the rail.
LEMMA RailKeeps == ASSUME ExitInv, RailAnswers PROVE ExitKept
BY RailPricesKeeps, RailFailsKeeps, RailReservesKeeps DEF RailAnswers

\* So does leaving the exit, from anywhere.
LEMMA ExitGoneKeeps ==
  ASSUME ExitInv, ExitGone, turns' \in 0 .. MaxTurns, strays \subseteq strays',
         strays' \subseteq {"unvouched", "plan", "wallet"}
  PROVE  ExitKept
<1>1. ExitInv'
  BY FreshType DEF ExitInv, ExitTypes, ExitGone, FieldsSound, DepositSound, RequestsSound,
                   VouchedFor, Late
<1>2. ExitFrame /\ DepositMoves
  BY FreshType DEF ExitInv, ExitTypes, ExitGone, ExitFrame, DepositMoves
<1>3. QED
  BY <1>1, <1>2 DEF ExitKept

\* And so does whatever leaves the exit alone.
LEMMA ExitStaysKeeps ==
  ASSUME ExitInv, ExitStays, turns' \in 0 .. MaxTurns,
         strays' = strays \/ strays' = strays \cup {"wallet"}
  PROVE  ExitKept
<1>1. ExitInv'
  BY DEF ExitInv, ExitTypes, ExitStays, FieldsSound, DepositSound, RequestsSound,
         RequestSound, Named, VouchedFor
<1>2. ExitFrame /\ DepositMoves
  BY DEF ExitInv, ExitTypes, ExitStays, ExitFrame, DepositMoves
<1>3. QED
  BY <1>1, <1>2 DEF ExitKept

(***************************************************************************)
(* The calls of the core.                                                  *)
(***************************************************************************)
Calls == [what : {"", "dest", "new", "wallet", "refund", "plan", "extra"}, text : ZcashTexts,
          plan : Plans]

IsPlan(a) == a.what \in {"plan", "extra"}

\* What a plan says of itself.
PlanSound(p) ==
  /\ p.route => p.recipient = Router /\ p.final \in NotARouter
  /\ ~p.route => p.recipient \in NotARouter /\ p.extra = NoReservation
  /\ p.refundTo \in {Envelope, Other, Half}
  /\ (p.route \/ p.main.payee # Router) => PriceOf(p.main, p.extra.zat)

\* A call on its way: a plan pays a deposit of an earlier request.
AskSound(a) ==
  /\ a.what = "dest" => a.text \in Texts
  /\ a.what \in {"new", "wallet"} => a.text \in WalletTexts
  /\ IsPlan(a) =>
       /\ PlanSound(a.plan)
       /\ Named(a.plan.main.addr)
       /\ \A q \in asked : ~Names(a.plan.main.addr, q.no)
       /\ "unvouched" \notin strays => a.plan.vouched

QueueTypes ==
  /\ asks \in Seq(Calls) /\ Len(asks) <= MaxAsks
  /\ \A i \in 1 .. Len(asks) : AskSound(asks[i])

\* Calls about the address box come before a plan for the deposit addr, and there is
\* one at the most.
DestsFirst(q, addr) ==
  \A i, j \in 1 .. Len(q) :
    q[i].what = "dest" /\ IsPlan(q[j]) /\ q[j].plan.main.addr = addr => i < j

OneDest(q) ==
  \A i, j \in 1 .. Len(q) : q[i].what = "dest" /\ q[j].what = "dest" => i = j

AwaitsDest(q) == \E i \in 1 .. Len(q) : q[i].what = "dest"

\* The queue r is what an action leaves of asks: k calls were answered, and of the
\* others some are not listened to any more.
Kept(r, k) ==
  /\ r \in Seq(Calls) /\ Len(r) = Len(asks) - k
  /\ \A i \in 1 .. Len(r) : r[i] = asks[i + k] \/ r[i] = Unheard

\* A call nobody listens to is about nothing.
LEMMA UnheardType == Unheard \in Calls /\ Unheard.what = "" /\ ~IsPlan(Unheard)
BY NoPlanType, ZcashAddresses DEF Unheard, AskFor, Calls, IsPlan

\* A queue is a function of its places.
LEMMA CallsSeq ==
  ASSUME NEW q \in Seq(Calls)
  PROVE  /\ Len(q) \in Nat /\ DOMAIN q = 1 .. Len(q)
         /\ \A i \in 1 .. Len(q) : q[i] \in Calls
OBVIOUS

\* Whoever stops listening leaves every call in its place.
LEMMA DeafIs ==
  ASSUME NEW q \in Seq(Calls), NEW what
  PROVE  /\ Deaf(q, what) \in Seq(Calls) /\ Len(Deaf(q, what)) = Len(q)
         /\ \A i \in 1 .. Len(q) : Deaf(q, what)[i] \in {q[i], Unheard}
<1>1. Deaf(q, what) = [i \in 1 .. Len(q) |-> IF q[i].what = what THEN Unheard ELSE q[i]]
  BY CallsSeq DEF Deaf
<1>2. \A i \in 1 .. Len(q) : (IF q[i].what = what THEN Unheard ELSE q[i]) \in Calls
  BY CallsSeq, UnheardType
<1>3. Len(q) \in Nat
  OBVIOUS
<1>4. Deaf(q, what) \in Seq(Calls) /\ Len(Deaf(q, what)) = Len(q)
  BY <1>1, <1>2, <1>3
<1>5. QED
  BY <1>1, <1>4

\* What a step may leave of the queue is kept of it: all, all but those not listened to,
\* all but the first, or both.
LEMMA KeptAll == ASSUME QueueTypes PROVE Kept(asks, 0)
BY DEF QueueTypes, Kept

LEMMA KeptDropping == ASSUME QueueTypes, NEW what PROVE Kept(Dropping(what), 0)
<1>1. asks \in Seq(Calls) /\ Len(asks) \in Nat
  BY DEF QueueTypes
<1>2. PICK r : r = Dropping(what)
  OBVIOUS
<1>3. /\ r \in Seq(Calls) /\ Len(r) = Len(asks)
      /\ \A i \in 1 .. Len(asks) : r[i] \in {asks[i], Unheard}
  BY <1>1, <1>2, DeafIs DEF Dropping
<1>4. \A i \in 1 .. Len(r) : i + 0 = i
  BY <1>1, <1>3
<1>5. Kept(r, 0)
  BY <1>1, <1>3, <1>4 DEF Kept
<1>6. QED
  BY <1>2, <1>5

LEMMA KeptTail ==
  ASSUME QueueTypes, asks # << >>
  PROVE  /\ Kept(Tail(asks), 1) /\ Head(asks) = asks[1] /\ Head(asks) \in Calls
         /\ AskSound(Head(asks)) /\ Len(asks) >= 1
<1>1. Len(asks) >= 1 /\ Len(asks) \in Nat
  BY DEF QueueTypes
<1>2. /\ Tail(asks) \in Seq(Calls) /\ Len(Tail(asks)) = Len(asks) - 1
      /\ \A i \in 1 .. Len(asks) - 1 : Tail(asks)[i] = asks[i + 1]
  BY <1>1 DEF QueueTypes
<1>3. Head(asks) = asks[1]
  BY <1>1 DEF QueueTypes
<1>4. QED
  BY <1>1, <1>2, <1>3 DEF QueueTypes, Kept

LEMMA KeptDeaf ==
  ASSUME QueueTypes, asks # << >>, NEW what
  PROVE  Kept(Deaf(Tail(asks), what), 1)
<1>1. Kept(Tail(asks), 1)
  BY KeptTail
<1>2. PICK s : s = Tail(asks)
  OBVIOUS
<1>3. PICK r : r = Deaf(s, what)
  OBVIOUS
<1>4. /\ s \in Seq(Calls) /\ Len(s) = Len(asks) - 1
      /\ \A i \in 1 .. Len(s) : s[i] = asks[i + 1] \/ s[i] = Unheard
  BY <1>1, <1>2 DEF Kept
<1>5. /\ r \in Seq(Calls) /\ Len(r) = Len(s)
      /\ \A i \in 1 .. Len(s) : r[i] \in {s[i], Unheard}
  BY <1>3, <1>4, DeafIs
<1>6. Kept(r, 1)
  BY <1>4, <1>5 DEF Kept
<1>7. QED
  BY <1>2, <1>3, <1>6

\* A call takes its place behind the others.
LEMMA AppendIs ==
  ASSUME NEW r \in Seq(Calls), NEW a \in Calls
  PROVE  /\ Append(r, a) \in Seq(Calls) /\ Len(Append(r, a)) = Len(r) + 1
         /\ \A i \in 1 .. Len(r) : Append(r, a)[i] = r[i]
         /\ Append(r, a)[Len(r) + 1] = a
OBVIOUS

\* The order of a queue survives answers and cleanups, and so it does a new call that is
\* not about the address box.
LEMMA KeptOrder ==
  ASSUME QueueTypes, NEW k \in {0, 1}, NEW r, Kept(r, k)
  PROVE  /\ \A addr : DestsFirst(asks, addr) => DestsFirst(r, addr)
         /\ OneDest(asks) => OneDest(r)
         /\ AwaitsDest(r) => AwaitsDest(asks)
<1>1. /\ Len(asks) \in Nat /\ Len(r) \in Nat /\ Len(r) = Len(asks) - k
      /\ \A i \in 1 .. Len(r) : i + k \in 1 .. Len(asks)
      /\ \A i \in 1 .. Len(r) : r[i] = asks[i + k] \/ r[i] = Unheard
  BY DEF QueueTypes, Kept
<1>2. ASSUME NEW addr, DestsFirst(asks, addr)
      PROVE  DestsFirst(r, addr)
  <2>1. SUFFICES ASSUME NEW i \in 1 .. Len(r), NEW j \in 1 .. Len(r), r[i].what = "dest",
                        IsPlan(r[j]), r[j].plan.main.addr = addr
                 PROVE  i < j
    BY DEF DestsFirst
  <2>2. r[i] = asks[i + k] /\ r[j] = asks[j + k]
    BY <1>1, <2>1, UnheardType
  <2>3. i + k < j + k
    BY <1>1, <1>2, <2>1, <2>2 DEF DestsFirst
  <2>4. QED
    BY <1>1, <2>3
<1>3. ASSUME OneDest(asks)
      PROVE  OneDest(r)
  <2>1. SUFFICES ASSUME NEW i \in 1 .. Len(r), NEW j \in 1 .. Len(r), r[i].what = "dest",
                        r[j].what = "dest"
                 PROVE  i = j
    BY DEF OneDest
  <2>2. r[i] = asks[i + k] /\ r[j] = asks[j + k]
    BY <1>1, <2>1, UnheardType
  <2>3. i + k = j + k
    BY <1>1, <1>3, <2>1, <2>2 DEF OneDest
  <2>4. QED
    BY <1>1, <2>3
<1>4. AwaitsDest(r) => AwaitsDest(asks)
  BY <1>1, UnheardType DEF AwaitsDest
<1>5. QED
  BY <1>2, <1>3, <1>4

\* So it does a new call, when that is not about the address box.
LEMMA AppendOrder ==
  ASSUME NEW r \in Seq(Calls), NEW a \in Calls, a.what # "dest"
  PROVE  /\ \A addr : DestsFirst(r, addr) => DestsFirst(Append(r, a), addr)
         /\ OneDest(r) => OneDest(Append(r, a))
         /\ AwaitsDest(Append(r, a)) => AwaitsDest(r)
<1> DEFINE s == Append(r, a)
<1>1. /\ Len(r) \in Nat /\ Len(s) = Len(r) + 1
      /\ \A i \in 1 .. Len(s) : (s[i] = r[i] /\ i \in 1 .. Len(r)) \/ (i = Len(s) /\ s[i] = a)
  BY AppendIs
<1> HIDE DEF s
<1>2. ASSUME NEW addr, DestsFirst(r, addr)
      PROVE  DestsFirst(s, addr)
  BY <1>1, <1>2 DEF DestsFirst
<1>3. OneDest(r) => OneDest(s)
  BY <1>1 DEF OneDest
<1>4. AwaitsDest(s) => AwaitsDest(r)
  BY <1>1 DEF AwaitsDest
<1>5. QED
  BY <1>2, <1>3, <1>4 DEF s

\* A step leaves the calls on their way sound.
LEMMA AskStaysSound ==
  ASSUME ExitFrame, NEW a, AskSound(a)
  PROVE  AskSound(a)'
<1>1. CASE ~IsPlan(a)
  BY <1>1 DEF AskSound, IsPlan
<1>2. CASE IsPlan(a)
  <2>1. PICK no \in 1 .. requests : Names(a.plan.main.addr, no)
    BY <1>2 DEF AskSound, Named
  <2>2. Named(a.plan.main.addr)'
    BY <2>1 DEF ExitFrame, Named
  <2>3. \A q \in asked' : ~Names(a.plan.main.addr, q.no)
    BY <1>2, <2>1, Addresses DEF ExitFrame, AskSound, Names
  <2>4. QED
    BY <1>2, <2>2, <2>3 DEF AskSound, ExitFrame, IsPlan
<1>3. QED
  BY <1>1, <1>2

\* The deposit on the screen changes to one that no call on its way is about.
LEMMA DepositMovesOrder ==
  ASSUME QueueTypes, DepositMoves, DestsFirst(asks, exit.deposit.addr)
  PROVE  DestsFirst(asks, exit'.deposit.addr)
<1>1. \A j \in 1 .. Len(asks) :
        IsPlan(asks[j]) /\ asks[j].plan.main.addr = exit'.deposit.addr
          => exit'.deposit = exit.deposit
  BY NoReservationType, Addresses DEF QueueTypes, AskSound, DepositMoves, Named, Names
<1>2. QED
  BY <1>1 DEF DestsFirst

\* A step that takes at most one answer and asks at most one sound call.
LEMMA QueueMoves ==
  ASSUME QueueTypes, ExitFrame, NEW k \in {0, 1}, NEW r, Kept(r, k),
         \/ asks' = r
         \/ \E a \in Calls : asks' = Append(r, a) /\ AskSound(a)' /\ Len(r) < MaxAsks
  PROVE  QueueTypes'
<1>1. /\ r \in Seq(Calls) /\ Len(r) \in Nat /\ Len(r) <= MaxAsks
      /\ \A i \in 1 .. Len(r) : AskSound(r[i])'
  <2>1. /\ Len(asks) \in Nat /\ r \in Seq(Calls) /\ Len(r) \in Nat /\ Len(r) <= MaxAsks
        /\ \A i \in 1 .. Len(r) : i + k \in 1 .. Len(asks)
    BY AsksAssumption DEF QueueTypes, Kept
  <2>2. AskSound(Unheard)'
    BY UnheardType DEF AskSound
  <2>3. \A i \in 1 .. Len(asks) : AskSound(asks[i])
    BY DEF QueueTypes
  <2>4. ASSUME NEW i \in 1 .. Len(r)
        PROVE  AskSound(r[i])'
    <3>1. PICK b : b = asks[i + k]
      OBVIOUS
    <3>2. AskSound(b)'
      BY <3>1, <2>1, <2>3, AskStaysSound
    <3>3. PICK c : c = r[i]
      OBVIOUS
    <3>4. c = b \/ c = Unheard
      BY <3>1, <3>3 DEF Kept
    <3>5. AskSound(c)'
      BY <3>2, <3>4, <2>2
    <3>6. QED
      BY <3>3, <3>5
  <2>5. QED
    BY <2>1, <2>4
<1>2. CASE asks' = r
  BY <1>1, <1>2 DEF QueueTypes
<1>3. CASE \E a \in Calls : asks' = Append(r, a) /\ AskSound(a)' /\ Len(r) < MaxAsks
  BY <1>1, <1>3, AppendIs, AsksAssumption DEF QueueTypes
<1>4. QED
  BY <1>2, <1>3

(***************************************************************************)
(* The page.                                                               *)
(***************************************************************************)
PageTypes ==
  /\ send \in {"choose", "review", "sending", "sent", "dry", "raced", "failed"}
  /\ choice \in {"none", "paste", "wallet", "solana"}
  /\ dest \in [input : ZcashTexts, kind : Kinds] /\ dest.kind \in {"", KindOf(dest.input)}
  /\ walletDest \in {NoDest} \cup {Described(w) : w \in WalletTexts}
  /\ wallet \in WalletTexts \cup {Empty}
  /\ wroteDown \in BOOLEAN /\ transparentAck \in BOOLEAN /\ atGate \in BOOLEAN
  /\ swap \in Plans
  /\ rail \in Statuses /\ shown \in Statuses \cup {NoStatus}
  /\ poll \in {"off", "asking", "timer", "ended"}

\* The exit and the tracker live exactly while their screens are shown.
ScreenSound ==
  /\ exit # Fresh \/ asked # {} => InExit
  /\ poll # "off" <=> Tracking
  /\ poll = "off" => shown = NoStatus /\ rail = "PENDING_DEPOSIT"

\* The generated wallet: the core is asked about the words on the screen, and its word
\* belongs to them until other words come.
WalletSound ==
  /\ \A i \in 1 .. Len(asks) : asks[i].what = "wallet" => asks[i].text = wallet
  /\ wallet = Empty => walletDest = NoDest
  /\ "wallet" \notin strays => walletDest \in {NoDest, Described(wallet)}

QueueSound == DestsFirst(asks, exit.deposit.addr) /\ OneDest(asks)

ChoiceSound ==
  /\ choice = "paste" /\ AwaitsDest(asks) => dest.kind = ""
  /\ choice = "paste" /\ transparentAck => ticked = dest.input /\ dest.kind = "transparent"
  /\ atGate => choice = "paste" /\ send = "choose" /\ dest.kind = "transparent"
  /\ wroteDown => choice = "wallet" /\ wallet # Empty
  /\ wroteDown /\ "wallet" \notin strays => ticked = wallet
  /\ send # "choose" =>
       /\ choice # "none"
       /\ choice = "paste" => dest.kind \in Sendable
       /\ choice = "paste" /\ dest.kind = "transparent" => transparentAck
       /\ choice = "wallet" => wroteDown /\ walletDest # NoDest
       /\ choice = "solana" => swap # NoPlan
  /\ send = "choose" => swap = NoPlan

\* A plan that passed its checks.
Checked(p) ==
  /\ PlanSound(p) /\ Sound(p)
  /\ p.extra # NoReservation => SoundExtra(p)
  /\ "unvouched" \notin strays => p.vouched

\* Whatever lands when: the deposits on the page and those a sweep was told to pay are
\* those of a plan that passed its checks, and no other address comes from the rail.
DepositsSound ==
  /\ swap # NoPlan => Checked(swap)
  /\ dest.input \in Texts \cup {Empty, swap.main.addr}
  /\ paid.swap \in Plans /\ (paid.swap # NoPlan => Checked(paid.swap))
  /\ paid.to \in Texts \cup WalletTexts \cup {Empty, paid.swap.main.addr}

SwapSound ==
  swap # NoPlan =>
    choice = "solana" /\ dest = Described(swap.main.addr) /\ ~AwaitsDest(asks)

PaidSound ==
  /\ paid.swap # NoPlan =>
       /\ paid.to = paid.swap.main.addr
       /\ PageAmounts(InEnvelope, "transparent", paid.swap.extra.zat, Spends) = Pays(paid.receive)
  /\ send \in {"sending", "sent", "dry"} =>
       /\ Active.input = paid.to \/ (choice = "wallet" /\ "wallet" \in strays)
       /\ swap = paid.swap /\ choice = paid.choice /\ Amounts = Pays(paid.receive)
  /\ shown = "SUCCESS" => rail = "SUCCESS"

PageInv ==
  /\ PageTypes /\ QueueTypes /\ ScreenSound /\ WalletSound /\ DepositsSound
  /\ "plan" \notin strays => QueueSound /\ ChoiceSound /\ SwapSound /\ PaidSound

IInv == ExitInv /\ PageInv

\* The core has a word on every address, and the page's description of it says it.
LEMMA Kinded ==
  /\ \A addr : KindOf(addr) \in Kinds \ {""}
  /\ NoDest \in [input : ZcashTexts, kind : Kinds] /\ NoDest.kind = "" /\ NoDest.input = Empty
  /\ \A addr : Described(addr).input = addr /\ Described(addr).kind = KindOf(addr)
  /\ \A addr \in ZcashTexts : Described(addr) \in [input : ZcashTexts, kind : Kinds]
  /\ \A addr : Described(addr) # NoDest
<1>1. \A addr : KindOf(addr) \in Kinds \ {""}
  BY DEF KindOf, Kinds
<1>2. "" \in Kinds
  BY DEF Kinds
<1> HIDE DEF Kinds
<1>3. QED
  BY <1>1, <1>2, ZcashAddresses DEF NoDest, Described

\* Once nobody listens to calls of one kind, there is none of it.
LEMMA NoneAwaited ==
  ASSUME QueueTypes, NEW what, what # ""
  PROVE  \A i \in 1 .. Len(asks) : Dropping(what)[i].what # what
<1>1. \A i \in 1 .. Len(asks) :
        Dropping(what)[i] = IF asks[i].what = what THEN Unheard ELSE asks[i]
  BY CallsSeq DEF QueueTypes, Dropping, Deaf
<1>2. QED
  BY <1>1, UnheardType

\* A plan that was checked stays checked.
LEMMA CheckedStays ==
  ASSUME NEW p, Checked(p), strays \subseteq strays'
  PROVE  Checked(p)'
BY DEF Checked

\* The addresses of generated wallets: the core knows them all for shielded ones, and
\* none of them is a deposit's, nor is one that was pasted.
LEMMA WalletTextsAre ==
  /\ \A w \in WalletTexts : w # Empty /\ KindOf(w) = "unified_orchard"
  /\ \A n \in 0 .. MaxTurns : WalletAddress(n) \in WalletTexts
  /\ \A a \in DepositTexts : a \notin Texts \cup WalletTexts \cup {Empty}
<1>1. ASSUME NEW n \in 0 .. MaxTurns
      PROVE  WalletAddress(n) # Empty /\ KindOf(WalletAddress(n)) = "unified_orchard"
  BY DEF WalletAddress, Empty, KindOf
<1>2. \A n, m : /\ Deposit(n) \notin Texts \cup {Empty, WalletAddress(m)}
                /\ Unvouched(n) \notin Texts \cup {Empty, WalletAddress(m)}
  BY DEF Deposit, Unvouched, Texts, Unified, Transparent, WalletAddress, Empty
<1>3. QED
  BY <1>1, <1>2 DEF WalletTexts, DepositTexts

\* The words on the screen stay those the core is asked about, while nothing is made
\* of an answer about them.
LEMMA WalletStays ==
  ASSUME QueueTypes, WalletSound, strays \subseteq strays', UNCHANGED <<wallet, walletDest>>,
         NEW k \in {0, 1}, NEW r, Kept(r, k),
         asks' = r \/ \E a \in Calls : asks' = Append(r, a) /\ a.what # "wallet"
  PROVE  WalletSound'
<1>1. /\ Len(asks) \in Nat /\ Len(r) \in Nat /\ Len(r) = Len(asks) - k /\ r \in Seq(Calls)
      /\ \A i \in 1 .. Len(r) : i + k \in 1 .. Len(asks)
      /\ \A i \in 1 .. Len(r) : r[i] = asks[i + k] \/ r[i] = Unheard
  BY DEF QueueTypes, Kept
<1>2. \A i \in 1 .. Len(r) : r[i].what = "wallet" => r[i].text = wallet
  BY <1>1, UnheardType DEF WalletSound
<1>3. \A i \in 1 .. Len(asks') : asks'[i].what = "wallet" => asks'[i].text = wallet
  <2>1. CASE asks' = r
    BY <1>2, <2>1
  <2>2. CASE \E a \in Calls : asks' = Append(r, a) /\ a.what # "wallet"
    <3>1. PICK a \in Calls : asks' = Append(r, a) /\ a.what # "wallet"
      BY <2>2
    <3>2. PICK t : t = asks'
      OBVIOUS
    <3>3. /\ Len(t) = Len(r) + 1
          /\ \A i \in 1 .. Len(t) : (i \in 1 .. Len(r) /\ t[i] = r[i]) \/ t[i] = a
      <4>1. /\ Len(t) = Len(r) + 1 /\ t[Len(r) + 1] = a
            /\ \A i \in 1 .. Len(r) : t[i] = r[i]
        BY <1>1, <3>1, <3>2, AppendIs
      <4>2. PICK n \in Nat : n = Len(r)
        BY <1>1
      <4>3. QED
        BY <4>1, <4>2
    <3>4. \A i \in 1 .. Len(t) : t[i].what = "wallet" => t[i].text = wallet
      BY <1>2, <3>1, <3>3
    <3>5. QED
      BY <3>2, <3>4
  <2>3. QED
    BY <2>1, <2>2
<1>4. QED
  BY <1>3 DEF WalletSound

\* No call about the words is listened to once they are gone.
LEMMA WalletGone ==
  ASSUME QueueTypes, asks' = Dropping("wallet"), wallet' = Empty, walletDest' = NoDest
  PROVE  WalletSound'
<1>1. PICK r : r = Dropping("wallet")
  OBVIOUS
<1>2. Len(r) = Len(asks) /\ \A i \in 1 .. Len(asks) : r[i].what # "wallet"
  BY <1>1, NoneAwaited, DeafIs DEF QueueTypes, Dropping
<1>3. QED
  BY <1>1, <1>2 DEF WalletSound

\* The deposits stay checked when the plan stays, or goes with its destination.
LEMMA DepositsStay ==
  ASSUME DepositsSound, strays \subseteq strays', paid' \in {paid, NoSweep},
         \/ swap' = swap /\ (dest' = dest \/ dest'.input \in Texts)
         \/ swap' = NoPlan /\ dest'.input = Empty
  PROVE  DepositsSound'
<1>1. (swap' # NoPlan => Checked(swap)') /\ dest'.input \in Texts \cup {Empty, swap'.main.addr}
  BY CheckedStays DEF DepositsSound, Checked
<1>2. /\ paid'.swap \in Plans /\ (paid'.swap # NoPlan => Checked(paid.swap)')
      /\ paid'.to \in Texts \cup WalletTexts \cup {Empty, paid'.swap.main.addr}
  <2>1. CASE paid' = paid
    BY <2>1, CheckedStays DEF DepositsSound, Checked
  <2>2. CASE paid' = NoSweep
    BY <2>2, NoPlanType DEF NoSweep
  <2>3. QED
    BY <2>1, <2>2
<1>3. QED
  BY <1>1, <1>2 DEF DepositsSound

\* The calls after a step that asks nothing of the core but what is said, and nothing
\* about the address box.
LEMMA QueueKeeps ==
  ASSUME QueueTypes, ExitKept, NEW k \in {0, 1}, NEW r, Kept(r, k),
         \/ asks' = r
         \/ \E a \in Calls : /\ asks' = Append(r, a) /\ AskSound(a)' /\ Len(r) < MaxAsks
                             /\ a.what # "dest"
  PROVE  /\ QueueTypes'
         /\ QueueSound => QueueSound'
         /\ AwaitsDest(asks)' => AwaitsDest(asks)
<1>1. QueueTypes'
  BY QueueMoves DEF ExitKept
<1>2. /\ \A addr : DestsFirst(asks, addr) => DestsFirst(r, addr)
      /\ OneDest(asks) => OneDest(r)
      /\ AwaitsDest(r) => AwaitsDest(asks)
  BY KeptOrder
<1>3. QueueSound => DestsFirst(asks, exit'.deposit.addr)
  BY DepositMovesOrder DEF ExitKept, QueueSound
<1>4. CASE asks' = r
  BY <1>1, <1>2, <1>3, <1>4 DEF QueueSound, AwaitsDest, DestsFirst, OneDest
<1>5. CASE \E a \in Calls : asks' = Append(r, a) /\ a.what # "dest"
  <2>1. PICK a \in Calls : asks' = Append(r, a) /\ a.what # "dest"
    BY <1>5
  <2>2. PICK s : s = asks'
    OBVIOUS
  <2>3. /\ \A addr : DestsFirst(r, addr) => DestsFirst(s, addr)
        /\ OneDest(r) => OneDest(s)
        /\ AwaitsDest(s) => AwaitsDest(r)
    BY <2>1, <2>2, AppendOrder DEF Kept
  <2>4. QED
    BY <1>1, <1>2, <1>3, <2>2, <2>3 DEF QueueSound, AwaitsDest, DestsFirst, OneDest
<1>6. QED
  BY <1>4, <1>5

\* The two steps that ask nothing.
LEMMA QueueUnchanged ==
  ASSUME QueueTypes, ExitKept, asks' = asks
  PROVE  /\ QueueTypes'
         /\ QueueSound => QueueSound'
         /\ AwaitsDest(asks)' => AwaitsDest(asks)
         /\ WalletSound /\ UNCHANGED <<wallet, walletDest>> => WalletSound'
<1>1. Kept(asks, 0)
  BY KeptAll
<1>2. QED
  BY <1>1, QueueKeeps, WalletStays DEF ExitKept, ExitFrame

LEMMA QueueDropping ==
  ASSUME QueueTypes, ExitKept, NEW what, asks' = Dropping(what)
  PROVE  /\ QueueTypes'
         /\ QueueSound => QueueSound'
         /\ AwaitsDest(asks)' => AwaitsDest(asks)
         /\ WalletSound /\ UNCHANGED <<wallet, walletDest>> => WalletSound'
<1>1. Kept(Dropping(what), 0)
  BY KeptDropping
<1>2. QED
  BY <1>1, QueueKeeps, WalletStays DEF ExitKept, ExitFrame

\* The chooser is up with no exit and, when every plan landed at home, with no plan.
LEMMA OnChooserIs ==
  ASSUME IInv, OnChooser
  PROVE  /\ exit = Fresh /\ asked = {} /\ ~atGate /\ send \in {"choose", "review"}
         /\ "plan" \notin strays =>
              send = "choose" /\ swap = NoPlan /\ choice # "solana"
BY DEF IInv, PageInv, PageTypes, ScreenSound, ChoiceSound, OnChooser, NoActive, InExit

\* A choice made anew.
LEMMA ChosenAnew ==
  ASSUME IInv, ExitKept, ExitStays, exit = Fresh, asked = {},
         PageTypes', QueueTypes', WalletSound', DepositsSound', UNCHANGED trackerVars,
         send # "sent", send' # "sent", strays' = strays, paid' \in {paid, NoSweep},
         "plan" \notin strays =>
           /\ QueueSound' /\ ChoiceSound' /\ swap' = NoPlan
           /\ send' \notin {"sending", "sent", "dry"}
  PROVE  IInv'
<1>1. ScreenSound'
  BY DEF IInv, PageInv, ScreenSound, Tracking, trackerVars, ExitStays
<1>2. ASSUME "plan" \notin strays
      PROVE  SwapSound' /\ PaidSound'
  BY <1>2 DEF IInv, PageInv, SwapSound, PaidSound, NoSweep, trackerVars
<1>3. QED
  BY <1>1, <1>2 DEF IInv, PageInv, ExitKept

\* The three choices.
LEMMA PickPasteKeeps == ASSUME IInv, PickPaste, UNCHANGED trackerVars PROVE IInv'
<1>1. turns' \in 0 .. MaxTurns
  BY TurnType DEF PickPaste, TurnFromChoice, IInv, ExitInv, ExitTypes
<1>2. ExitKept
  BY <1>1, ExitStaysKeeps DEF PickPaste, IInv
<1>3. PageTypes'
  BY NoPlanType, Kinded DEF PickPaste, IInv, PageInv, PageTypes, trackerVars
<1>4. QueueTypes' /\ (QueueSound => QueueSound') /\ WalletSound'
  BY <1>2, QueueDropping, WalletGone DEF PickPaste, IInv, PageInv
<1>5. ASSUME "plan" \notin strays
      PROVE  ChoiceSound'
  BY <1>5, OnChooserIs, Kinded DEF PickPaste, IInv, PageInv, ChoiceSound
<1>6. DepositsSound'
  BY Kinded, DepositsStay DEF PickPaste, IInv, PageInv
<1>7. QED
  BY <1>2, <1>3, <1>4, <1>5, <1>6, OnChooserIs, ChosenAnew DEF PickPaste, IInv, PageInv

LEMMA PickSolanaKeeps == ASSUME IInv, PickSolana, UNCHANGED trackerVars PROVE IInv'
<1>1. turns' \in 0 .. MaxTurns
  BY TurnType DEF PickSolana, TurnFromChoice, IInv, ExitInv, ExitTypes
<1>2. ExitKept
  BY <1>1, ExitStaysKeeps DEF PickSolana, IInv
<1>3. PageTypes'
  BY NoPlanType, Kinded DEF PickSolana, IInv, PageInv, PageTypes, trackerVars
<1>4. QueueTypes' /\ (QueueSound => QueueSound') /\ WalletSound'
  BY <1>2, QueueDropping, WalletGone DEF PickSolana, IInv, PageInv
<1>5. ASSUME "plan" \notin strays
      PROVE  ChoiceSound'
  BY <1>5, OnChooserIs DEF PickSolana, IInv, PageInv, ChoiceSound
<1>6. DepositsSound'
  BY Kinded, DepositsStay DEF PickSolana, IInv, PageInv
<1>7. QED
  BY <1>2, <1>3, <1>4, <1>5, <1>6, OnChooserIs, ChosenAnew DEF PickSolana, IInv, PageInv

LEMMA PickWalletHereKeeps == ASSUME IInv, PickWalletHere, UNCHANGED trackerVars PROVE IInv'
<1>1. turns' \in 0 .. MaxTurns
  BY TurnType DEF PickWalletHere, TurnFromChoice, IInv, ExitInv, ExitTypes
<1>2. ExitKept
  BY <1>1, ExitStaysKeeps DEF PickWalletHere, IInv
<1>3. PageTypes'
  BY NoPlanType, Kinded DEF PickWalletHere, IInv, PageInv, PageTypes, trackerVars
<1>4. QueueTypes' /\ (QueueSound => QueueSound') /\ WalletSound'
  <2>1. CASE asks' = asks
    BY <1>2, <2>1, QueueUnchanged DEF PickWalletHere, IInv, PageInv
  <2>2. CASE wallet = Empty /\ asks' = Append(asks, AskFor("new", WalletAddress(turns')))
    <3>1. PICK a : a = AskFor("new", WalletAddress(turns'))
      OBVIOUS
    <3>2. a \in Calls /\ a.what = "new" /\ a.text \in WalletTexts
      BY <1>1, <3>1, NoPlanType, WalletTextsAre, ZcashAddresses DEF AskFor, Calls
    <3>3. AskSound(a)'
      BY <3>2 DEF AskSound, IsPlan
    <3>4. Kept(asks, 0) /\ Len(asks) < MaxAsks
      BY <2>2, KeptAll DEF IInv, PageInv, PickWalletHere, Room
    <3>5. QueueTypes' /\ (QueueSound => QueueSound')
      BY <1>2, <2>2, <3>1, <3>2, <3>3, <3>4, QueueKeeps DEF IInv, PageInv
    <3>6. WalletSound'
      BY <2>2, <3>1, <3>2, <3>4, WalletStays DEF PickWalletHere, IInv, PageInv
    <3>7. QED
      BY <3>5, <3>6
  <2>3. QED
    BY <2>1, <2>2 DEF PickWalletHere
<1>5. ASSUME "plan" \notin strays
      PROVE  ChoiceSound'
  BY <1>5, OnChooserIs DEF PickWalletHere, IInv, PageInv, ChoiceSound
<1>6. DepositsSound'
  BY Kinded, DepositsStay DEF PickWalletHere, IInv, PageInv
<1>7. QED
  BY <1>2, <1>3, <1>4, <1>5, <1>6, OnChooserIs, ChosenAnew DEF PickWalletHere, IInv, PageInv

\* A keystroke: the new call stands behind every other one, and is the only one listened to.
LEMMA TypeAddressKeeps ==
  ASSUME IInv, NEW text \in Texts, TypeAddress(text), UNCHANGED trackerVars PROVE IInv'
<1>1. turns' \in 0 .. MaxTurns
  BY TurnType DEF TypeAddress, IInv, ExitInv, ExitTypes
<1>2. ExitKept
  BY <1>1, ExitStaysKeeps DEF TypeAddress, IInv
<1>3. text \in ZcashTexts /\ "" \in Kinds
  BY ZcashAddresses DEF Kinds
<1>4. PageTypes'
  BY <1>3 DEF TypeAddress, Unread, IInv, PageInv, PageTypes, trackerVars
<1>5. PICK r : r = Dropping("dest")
  OBVIOUS
<1>6. /\ Kept(r, 0) /\ r \in Seq(Calls) /\ Len(r) \in Nat /\ Len(r) < MaxAsks
      /\ \A i \in 1 .. Len(r) : r[i].what # "dest"
  <2>1. Kept(r, 0) /\ r \in Seq(Calls) /\ Len(r) = Len(asks) - 0
    BY <1>5, KeptDropping DEF IInv, PageInv, Kept
  <2>2. Len(asks) \in Nat /\ Len(asks) < MaxAsks
    BY DEF TypeAddress, Room, IInv, PageInv, QueueTypes
  <2>3. \A i \in 1 .. Len(asks) : r[i].what # "dest"
    BY <1>5, NoneAwaited DEF IInv, PageInv
  <2>4. Len(r) = Len(asks)
    BY <2>1, <2>2
  <2>5. QED
    BY <2>1, <2>2, <2>3, <2>4
<1>7. PICK a : a = AskFor("dest", text)
  OBVIOUS
<1>8. a \in Calls /\ a.what = "dest" /\ ~IsPlan(a) /\ a.text = text
  BY <1>3, <1>7, NoPlanType DEF AskFor, Calls, IsPlan
<1>9. asks' = Append(r, a)
  BY <1>5, <1>7 DEF TypeAddress
<1>10. QueueTypes'
  <2>1. AskSound(a)'
    BY <1>8 DEF AskSound
  <2>2. QED
    BY <1>2, <1>6, <1>8, <1>9, <2>1, QueueMoves DEF IInv, PageInv, ExitKept
<1>11. QueueSound'
  <2>1. PICK s : s = asks'
    OBVIOUS
  <2>2. /\ Len(s) = Len(r) + 1
        /\ \A i \in 1 .. Len(s) : (s[i] = r[i] /\ i \in 1 .. Len(r)) \/ (i = Len(s) /\ s[i] = a)
    BY <1>6, <1>8, <1>9, <2>1, AppendIs
  <2>3. OneDest(s)
    BY <1>6, <2>2 DEF OneDest
  <2>4. exit'.deposit.addr = Empty
    BY OnChooserIs, FreshType, NoReservationType DEF TypeAddress, ExitStays
  <2>5. \A j \in 1 .. Len(s) : IsPlan(s[j]) => s[j].plan.main.addr # Empty
    BY <1>10, <2>1, Addresses DEF QueueTypes, AskSound, Named, Names
  <2>6. DestsFirst(s, Empty)
    BY <2>5 DEF DestsFirst
  <2>7. QED
    BY <2>1, <2>3, <2>4, <2>6 DEF QueueSound, OneDest, DestsFirst
<1>12. ASSUME "plan" \notin strays
       PROVE  ChoiceSound'
  BY <1>12, OnChooserIs DEF TypeAddress, Unread, IInv, PageInv, ChoiceSound
<1>13. WalletSound'
  BY <1>6, <1>8, <1>9, WalletStays DEF TypeAddress, IInv, PageInv
<1>14. DepositsSound'
  BY DepositsStay DEF TypeAddress, Unread, IInv, PageInv
<1>15. QED
  BY <1>2, <1>4, <1>10, <1>11, <1>12, <1>13, <1>14, OnChooserIs, ChosenAnew DEF TypeAddress, IInv, PageInv

\* Clicks that change screens and ticks only.
LEMMA PageTypesStay ==
  ASSUME PageTypes,
         UNCHANGED <<choice, dest, wallet, walletDest, wroteDown, swap, rail, shown, poll>>,
         send' = send \/ send' \in {"choose", "review"},
         transparentAck' \in BOOLEAN, atGate' \in BOOLEAN
  PROVE  PageTypes'
<1>1. send' \in {"choose", "review", "sending", "sent", "dry", "raced", "failed"}
  BY DEF PageTypes
<1>2. dest' \in [input : ZcashTexts, kind : Kinds] /\ dest'.kind \in {"", KindOf(dest'.input)}
  BY DEF PageTypes
<1>3. walletDest' \in {NoDest} \cup {Described(w) : w \in WalletTexts}
  BY DEF PageTypes
<1>4. choice' \in {"none", "paste", "wallet", "solana"} /\ wallet' \in WalletTexts \cup {Empty}
  BY DEF PageTypes
<1>5. wroteDown' \in BOOLEAN /\ swap' \in Plans
  BY DEF PageTypes
<1>6. rail' \in Statuses /\ shown' \in Statuses \cup {NoStatus}
        /\ poll' \in {"off", "asking", "timer", "ended"}
  BY DEF PageTypes
<1>7. QED
  BY <1>1, <1>2, <1>3, <1>4, <1>5, <1>6 DEF PageTypes

\* Steps that leave the addresses and the plan alone.
LEMMA PageTypesBut ==
  ASSUME PageTypes,
         UNCHANGED <<dest, wallet, walletDest, swap, transparentAck, atGate>>,
         send' \in {"choose", "review", "sending", "sent", "dry", "raced", "failed"},
         choice' \in {"none", "paste", "wallet", "solana"}, wroteDown' \in BOOLEAN,
         rail' \in Statuses, shown' \in Statuses \cup {NoStatus},
         poll' \in {"off", "asking", "timer", "ended"}
  PROVE  PageTypes'
<1>1. dest' \in [input : ZcashTexts, kind : Kinds] /\ dest'.kind \in {"", KindOf(dest'.input)}
  BY DEF PageTypes
<1>2. walletDest' \in {NoDest} \cup {Described(w) : w \in WalletTexts}
  BY DEF PageTypes
<1>3. /\ wallet' \in WalletTexts \cup {Empty} /\ swap' \in Plans
      /\ transparentAck' \in BOOLEAN /\ atGate' \in BOOLEAN
  BY DEF PageTypes
<1>4. QED
  BY <1>1, <1>2, <1>3 DEF PageTypes

\* What a step that leaves the tracker and these fields alone knows of them.
LEMMA TypesNow ==
  ASSUME IInv
  PROVE  /\ PageTypes
         /\ send \in {"choose", "review", "sending", "sent", "dry", "raced", "failed"}
         /\ choice \in {"none", "paste", "wallet", "solana"} /\ wroteDown \in BOOLEAN
         /\ rail \in Statuses /\ shown \in Statuses \cup {NoStatus}
         /\ poll \in {"off", "asking", "timer", "ended"}
BY DEF IInv, PageInv, PageTypes

\* The words are written down.
LEMMA WriteDownKeeps == ASSUME IInv, WriteDown, UNCHANGED trackerVars PROVE IInv'
<1>1. turns' \in 0 .. MaxTurns
  BY TurnType DEF WriteDown, IInv, ExitInv, ExitTypes
<1>2. ExitKept
  BY <1>1, ExitStaysKeeps DEF WriteDown, IInv
<1>3. PageTypes'
  <2>1. wroteDown' \in BOOLEAN
    BY DEF WriteDown
  <2>2. QED
    BY <2>1, TypesNow, PageTypesBut DEF WriteDown, trackerVars
<1>4. QueueTypes' /\ (QueueSound => QueueSound') /\ WalletSound'
  BY <1>2, QueueUnchanged DEF WriteDown, IInv, PageInv
<1>5. ASSUME "plan" \notin strays
      PROVE  ChoiceSound'
  BY <1>5, OnChooserIs DEF WriteDown, IInv, PageInv, ChoiceSound
<1>6. DepositsSound'
  BY DepositsStay DEF WriteDown, IInv, PageInv
<1>7. QED
  BY <1>2, <1>3, <1>4, <1>5, <1>6, OnChooserIs, ChosenAnew DEF WriteDown, IInv, PageInv

\* Continue: the review screen is reached with a destination that passed its gate.
LEMMA ContinueKeeps == ASSUME IInv, Continue, UNCHANGED trackerVars PROVE IInv'
<1>1. ExitKept
  BY ExitStaysKeeps DEF Continue, IInv, ExitInv, ExitTypes
<1>2. PageTypes'
  <2>1. \/ atGate' = TRUE /\ send' = send
        \/ atGate' = atGate /\ send' = "review"
    BY DEF Continue
  <2>2. UNCHANGED <<choice, dest, wallet, walletDest, wroteDown, transparentAck, swap,
                    rail, shown, poll>>
    BY DEF Continue, trackerVars
  <2>3. QED
    BY <2>1, <2>2, PageTypesStay DEF IInv, PageInv, PageTypes
<1>3. QueueTypes' /\ (QueueSound => QueueSound') /\ WalletSound'
  BY <1>1, QueueUnchanged DEF Continue, IInv, PageInv
<1>4. ASSUME "plan" \notin strays
      PROVE  ChoiceSound'
  <2>1. /\ choice \in {"paste", "wallet"} /\ send = "choose" /\ swap = NoPlan
        /\ choice = "paste" => dest.kind \in Sendable
        /\ choice = "wallet" => walletDest # NoDest /\ wroteDown
    BY <1>4, OnChooserIs DEF Continue, Ready, NoActive, CanContinue, Active, IInv, PageInv, PageTypes
  <2>2. AwaitsDest(asks)' <=> AwaitsDest(asks)
    BY DEF Continue, AwaitsDest
  <2>3. QED
    BY <1>4, <2>1, <2>2, OnChooserIs DEF Continue, NeedsTransparentGate, IInv, PageInv, ChoiceSound
<1>5. send' \in {"choose", "review"}
  BY OnChooserIs DEF Continue
<1>6. DepositsSound'
  BY DepositsStay DEF Continue, IInv, PageInv
<1>7. QED
  BY <1>1, <1>2, <1>3, <1>4, <1>5, <1>6, OnChooserIs, ChosenAnew DEF Continue, IInv, PageInv

\* The transparent gate is up over a classified address of the paste box.
LEMMA OnGateIs ==
  ASSUME IInv, OnGate
  PROVE  /\ exit = Fresh /\ asked = {} /\ send \in {"choose", "review"}
         /\ "plan" \notin strays =>
              /\ send = "choose" /\ swap = NoPlan /\ choice = "paste"
              /\ dest.kind = "transparent"
BY DEF IInv, PageInv, ScreenSound, ChoiceSound, OnGate

\* Its tick is given to the address on the screen.
LEMMA TickGateKeeps == ASSUME IInv, TickGate, UNCHANGED trackerVars PROVE IInv'
<1>1. turns' \in 0 .. MaxTurns
  BY TurnType DEF TickGate, IInv, ExitInv, ExitTypes
<1>2. ExitKept
  BY <1>1, ExitStaysKeeps DEF TickGate, IInv
<1>3. PageTypes'
  <2>1. transparentAck' \in BOOLEAN
    BY DEF TickGate
  <2>2. UNCHANGED <<send, choice, dest, wallet, walletDest, wroteDown, atGate, swap,
                    rail, shown, poll>>
    BY DEF TickGate, trackerVars
  <2>3. QED
    BY <2>1, <2>2, PageTypesStay DEF IInv, PageInv, PageTypes
<1>4. QueueTypes' /\ (QueueSound => QueueSound') /\ WalletSound'
  BY <1>2, QueueUnchanged DEF TickGate, IInv, PageInv
<1>5. ASSUME "plan" \notin strays
      PROVE  ChoiceSound'
  <2>1. AwaitsDest(asks)' <=> AwaitsDest(asks)
    BY DEF TickGate, AwaitsDest
  <2>2. QED
    BY <1>5, <2>1, OnGateIs DEF TickGate, IInv, PageInv, ChoiceSound
<1>6. DepositsSound'
  BY DepositsStay DEF TickGate, IInv, PageInv
<1>7. QED
  BY <1>2, <1>3, <1>4, <1>5, <1>6, OnGateIs, ChosenAnew DEF TickGate, IInv, PageInv

\* It is left with the tick, or backwards.
LEMMA LeaveGateKeeps == ASSUME IInv, LeaveGate, UNCHANGED trackerVars PROVE IInv'
<1>1. turns' \in 0 .. MaxTurns
  BY TurnType DEF LeaveGate, IInv, ExitInv, ExitTypes
<1>2. ExitKept
  BY <1>1, ExitStaysKeeps DEF LeaveGate, IInv
<1>3. PageTypes'
  <2>1. atGate' \in BOOLEAN /\ (send' = send \/ send' = "review")
    BY DEF LeaveGate
  <2>2. UNCHANGED <<choice, dest, wallet, walletDest, wroteDown, transparentAck, swap,
                    rail, shown, poll>>
    BY DEF LeaveGate, trackerVars
  <2>3. QED
    BY <2>1, <2>2, PageTypesStay DEF IInv, PageInv, PageTypes
<1>4. QueueTypes' /\ (QueueSound => QueueSound') /\ WalletSound'
  BY <1>2, QueueUnchanged DEF LeaveGate, IInv, PageInv
<1>5. ASSUME "plan" \notin strays
      PROVE  ChoiceSound'
  <2>1. AwaitsDest(asks)' <=> AwaitsDest(asks)
    BY DEF LeaveGate, AwaitsDest
  <2>2. QED
    BY <1>5, <2>1, OnGateIs DEF LeaveGate, IInv, PageInv, ChoiceSound, Sendable
<1>6. DepositsSound'
  BY DepositsStay DEF LeaveGate, IInv, PageInv
<1>7. QED
  BY <1>2, <1>3, <1>4, <1>5, <1>6, OnGateIs, ChosenAnew DEF LeaveGate, IInv, PageInv

\* Nothing of the exit is left once the page is past the choice.
LEMMA PastChoice ==
  ASSUME IInv, send # "choose"
  PROVE  exit = Fresh /\ asked = {}
BY DEF IInv, PageInv, ScreenSound, InExit

\* The way back from the review and from a failed sweep.
LEMMA ChooseAgainKeeps == ASSUME IInv, ChooseAgain, UNCHANGED trackerVars PROVE IInv'
<1>1. turns' \in 0 .. MaxTurns
  BY TurnType DEF ChooseAgain, IInv, ExitInv, ExitTypes
<1>2. ExitKept
  BY <1>1, ExitStaysKeeps DEF ChooseAgain, IInv
<1>3. PageTypes'
  BY NoPlanType, Kinded DEF ChooseAgain, IInv, PageInv, PageTypes, trackerVars
<1>4. QueueTypes' /\ (QueueSound => QueueSound') /\ WalletSound'
  BY <1>2, QueueUnchanged DEF ChooseAgain, IInv, PageInv
<1>5. ChoiceSound'
  BY DEF ChooseAgain, ChoiceSound
<1>6. send \in {"review", "failed"}
  BY DEF ChooseAgain, OnReview, OnFailed
<1>7. DepositsSound'
  BY Kinded, DepositsStay DEF ChooseAgain, IInv, PageInv
<1>8. QED
  BY <1>2, <1>3, <1>4, <1>5, <1>6, <1>7, PastChoice, ChosenAnew DEF ChooseAgain, IInv, PageInv

\* A sweep that may be sent pays an amount.
LEMMA AmountsPay ==
  ASSUME Amounts.ok
  PROVE  Amounts = Pays(Amounts.receive)
BY DEF Amounts, PageAmounts, Refused, Pays

\* The parts of a plan.
LEMMA PlanZat ==
  ASSUME NEW p \in Plans
  PROVE  p.extra \in Reservations /\ p.extra.zat \in Nat /\ p.main.addr \in ZcashTexts
<1>1. p.extra \in Reservations /\ p.main \in Reservations
  BY DEF Plans
<1>2. p.extra.zat \in 0 .. InEnvelope /\ p.main.addr \in ZcashTexts
  BY <1>1 DEF Reservations
<1>3. QED
  BY <1>1, <1>2, ExitAssumption

\* The sweep is called with what is on the screen, and pays a checked plan what it says.
LEMMA SendKeeps == ASSUME IInv, Send, UNCHANGED trackerVars PROVE IInv'
<1>1. ExitKept
  BY ExitStaysKeeps DEF Send, IInv, ExitInv, ExitTypes
<1>2. send \in {"review", "failed"} /\ send' = "sending"
  BY DEF Send, OnReview, OnFailed
<1>3. PageTypes'
  BY <1>2, TypesNow, PageTypesBut DEF Send, trackerVars
<1>4. /\ QueueTypes' /\ (QueueSound => QueueSound')
      /\ AwaitsDest(asks)' => AwaitsDest(asks)
      /\ WalletSound'
  BY <1>1, QueueUnchanged DEF Send, IInv, PageInv
<1>5. ScreenSound'
  BY <1>2, PastChoice DEF Send, ExitStays, IInv, PageInv, ScreenSound, Tracking, trackerVars
<1>6. ASSUME "plan" \notin strays
      PROVE  ChoiceSound' /\ SwapSound' /\ PaidSound'
  <2>1. ChoiceSound /\ SwapSound /\ PaidSound
    BY <1>6 DEF IInv, PageInv
  <2>2. ChoiceSound'
    BY <1>2, <1>4, <2>1 DEF Send, ChoiceSound
  <2>3. SwapSound'
    BY <1>4, <2>1 DEF Send, SwapSound
  <2>4. Active' = Active /\ Amounts' = Amounts
    BY DEF Send, Active, Amounts
  <2>5. /\ paid'.to = Active.input /\ paid'.choice = choice /\ paid'.swap = swap
        /\ paid'.receive = Amounts.receive /\ Amounts = Pays(Amounts.receive)
    BY AmountsPay DEF Send
  <2>6. ASSUME swap # NoPlan
        PROVE  PageAmounts(InEnvelope, "transparent", swap.extra.zat, Spends) = Amounts
    <3>1. Active = dest /\ dest.kind = "transparent"
      BY <2>1, <2>6, Kinded DEF SwapSound, DepositsSound, Checked, Sound, CheckSwapPlan, Active,
                                IInv, PageInv
    <3>2. swap.extra.zat \in Nat
      BY PlanZat DEF IInv, PageInv, PageTypes
    <3>3. swap.extra.zat > 0 \/ swap.extra.zat = 0
      BY <3>2
    <3>4. QED
      BY <3>1, <3>3 DEF Amounts, Sendable
  <2>7. swap # NoPlan => Active.input = swap.main.addr
    BY <2>1, Kinded DEF SwapSound, Active
  <2>8. UNCHANGED <<swap, choice, shown, rail, strays>>
    BY DEF Send, trackerVars
  <2>9. PaidSound'
    BY <1>2, <2>1, <2>4, <2>5, <2>6, <2>7, <2>8 DEF PaidSound, SwapSound
  <2>10. QED
    BY <2>2, <2>3, <2>9
<1>7. DepositsSound'
  <2>1. paid'.to = Active.input /\ paid'.swap = swap /\ UNCHANGED <<swap, dest, strays>>
    BY DEF Send
  <2>2. swap \in Plans /\ walletDest \in {NoDest} \cup {Described(w) : w \in WalletTexts}
    BY DEF IInv, PageInv, PageTypes
  <2>3. Active.input \in Texts \cup WalletTexts \cup {Empty, swap.main.addr}
    <3>1. walletDest.input \in WalletTexts \cup {Empty} /\ NoDest.input = Empty
      BY <2>2, Kinded
    <3>2. dest.input \in Texts \cup {Empty, swap.main.addr}
      BY DEF IInv, PageInv, DepositsSound
    <3>3. Active = walletDest \/ Active = NoDest \/ Active = dest
      BY DEF Active
    <3>4. QED
      BY <3>1, <3>2, <3>3
  <2>4. QED
    BY <2>1, <2>2, <2>3 DEF IInv, PageInv, DepositsSound, Checked
<1>8. QED
  BY <1>1, <1>3, <1>4, <1>5, <1>6, <1>7 DEF IInv, PageInv, ExitKept, Send

\* A step on the screens of the exit leaves the page alone, but for the calls.
LEMMA InExitKeeps ==
  ASSUME IInv, InExit, ExitKept, QueueTypes', QueueSound => QueueSound', WalletSound',
         UNCHANGED <<send, choice, dest, wallet, walletDest, wroteDown, transparentAck,
                     atGate, swap, paid, ticked>>, UNCHANGED trackerVars
  PROVE  IInv'
<1>1. PageTypes'
  BY PageTypesStay DEF IInv, PageInv, PageTypes, trackerVars
<1>2. ScreenSound'
  BY DEF IInv, PageInv, ScreenSound, InExit, Tracking, ShowsSwap, trackerVars
<1>3. strays \subseteq strays'
  BY DEF ExitKept, ExitFrame
<1>4. ASSUME "plan" \notin strays'
      PROVE  QueueSound' /\ ChoiceSound' /\ SwapSound' /\ PaidSound'
  <2>1. QueueSound /\ ChoiceSound /\ SwapSound /\ PaidSound
    BY <1>3, <1>4 DEF IInv, PageInv
  <2>2. ChoiceSound'
    BY <1>3, <2>1 DEF ChoiceSound, InExit
  <2>3. SwapSound'
    BY DEF SwapSound, InExit
  <2>4. PaidSound'
    BY <2>1 DEF PaidSound, InExit, trackerVars
  <2>5. QED
    BY <2>1, <2>2, <2>3, <2>4
<1>5. DepositsSound'
  BY <1>3, DepositsStay DEF IInv, PageInv
<1>6. QED
  BY <1>1, <1>2, <1>4, <1>5 DEF IInv, PageInv, ExitKept

\* The steps of the exit and of the rail.
LEMMA InTheExitKeeps == ASSUME IInv, InTheExit, UNCHANGED trackerVars PROVE IInv'
<1>1. InExit /\ ExitKept /\ UNCHANGED pageVars
  BY ExitStepsKeep DEF InTheExit, IInv
<1>2. QueueTypes' /\ (QueueSound => QueueSound') /\ WalletSound'
  BY <1>1, QueueUnchanged DEF pageVars, IInv, PageInv
<1>3. QED
  BY <1>1, <1>2, InExitKeeps DEF pageVars

LEMMA TheRailKeeps == ASSUME IInv, TheRail, UNCHANGED trackerVars PROVE IInv'
<1>1. InExit /\ ExitKept /\ UNCHANGED pageVars
  BY RailKeeps DEF TheRail, IInv
<1>2. QueueTypes' /\ (QueueSound => QueueSound') /\ WalletSound'
  BY <1>1, QueueUnchanged DEF pageVars, IInv, PageInv
<1>3. QED
  BY <1>1, <1>2, InExitKeeps DEF pageVars

\* The exit is left by its first screen.
LEMMA LeaveExitKeeps == ASSUME IInv, LeaveExit, UNCHANGED trackerVars PROVE IInv'
<1>1. turns' \in 0 .. MaxTurns
  BY TurnType DEF LeaveExit, IInv, ExitInv, ExitTypes
<1>2. ExitKept
  BY <1>1, ExitGoneKeeps DEF LeaveExit, IInv, ExitInv, ExitTypes
<1>3. PageTypes'
  BY TypesNow, PageTypesBut DEF LeaveExit, trackerVars
<1>4. QueueTypes' /\ (QueueSound => QueueSound') /\ WalletSound'
  BY <1>2, QueueDropping DEF LeaveExit, IInv, PageInv
<1>5. ScreenSound'
  BY DEF LeaveExit, ExitGone, IInv, PageInv, ScreenSound, InExit, Tracking, ShowsSwap, trackerVars
<1>6. ASSUME "plan" \notin strays
      PROVE  ChoiceSound' /\ SwapSound' /\ PaidSound'
  <2>1. ChoiceSound /\ PaidSound
    BY <1>6 DEF IInv, PageInv
  <2>2. ChoiceSound'
    BY <2>1 DEF ChoiceSound, LeaveExit, InExit
  <2>3. SwapSound'
    BY DEF SwapSound, LeaveExit, InExit
  <2>4. PaidSound'
    BY <2>1 DEF PaidSound, LeaveExit, InExit, trackerVars
  <2>5. QED
    BY <2>2, <2>3, <2>4
<1>7. DepositsSound'
  BY DepositsStay DEF LeaveExit, IInv, PageInv
<1>8. QED
  BY <1>2, <1>3, <1>4, <1>5, <1>6, <1>7 DEF IInv, PageInv, ExitKept, LeaveExit

\* The plan of the deposit screen is what the page asked the rail for.
LEMMA PlanOfIs ==
  ASSUME ExitInv, exit.phase = "deposit"
  PROVE  /\ PlanOf(exit) \in Plans /\ PlanSound(PlanOf(exit))
         /\ PlanOf(exit).main = exit.deposit /\ exit.deposit \in Reservations
         /\ Named(exit.deposit.addr)
         /\ "unvouched" \notin strays => PlanOf(exit).vouched
<1> DEFINE route == exit.privateOn /\ OfferReady(exit)
<1>1. /\ exit.deposit \in Reservations /\ exit.extra \in Reservations
      /\ exit.asset \in {"", "usdc", "sol"} /\ route \in BOOLEAN
  BY DEF ExitInv, ExitTypes, ExitStates, AssetNames
<1>2. /\ Recipient(exit) \in NotARouter /\ Recipient(exit) \in SolanaTexts
      /\ RefundTo(exit) \in ZcashTexts /\ RefundTo(exit) \in {Envelope, Other, Half}
      /\ Vouched(exit) \in BOOLEAN
  BY Recipients DEF ExitInv, ExitTypes, ExitStates, Vouched
<1>3. PICK p : p = PlanOf(exit)
  OBVIOUS
<1>4. /\ p.main = exit.deposit /\ p.extra = (IF route THEN exit.extra ELSE NoReservation)
      /\ p.recipient = (IF route THEN Router ELSE Recipient(exit))
      /\ p.refundTo = RefundTo(exit) /\ p.route = route
      /\ p.final = (IF route THEN Recipient(exit) ELSE Empty)
      /\ p.vouched = Vouched(exit)
  BY <1>3 DEF PlanOf
<1>5. p \in Plans
  <2>1. CASE route
    BY <1>1, <1>2, <1>3, <2>1, SolanaAddresses DEF PlanOf, Plans
  <2>2. CASE ~route
    BY <1>1, <1>2, <1>3, <2>2, SolanaAddresses, NoReservationType DEF PlanOf, Plans
  <2>3. QED
    BY <1>1, <2>1, <2>2
<1>6. PriceOf(exit.deposit, exit.extra.zat)
  BY DEF ExitInv, DepositSound
<1> HIDE DEF route
<1>7. PlanSound(p)
  <2>1. (p.route \/ p.main.payee # Router) => PriceOf(p.main, p.extra.zat)
    BY <1>4, <1>6 DEF PriceOf
  <2>2. QED
    BY <1>1, <1>2, <1>4, <2>1 DEF PlanSound
<1>8. Named(exit.deposit.addr)
  BY DEF ExitInv, DepositSound
<1>9. "unvouched" \notin strays => Vouched(exit)
  BY DEF ExitInv, VouchedFor, Late
<1>10. QED
  BY <1>1, <1>3, <1>4, <1>5, <1>7, <1>8, <1>9

\* A plan handed over is asked about behind every call about the address box.
LEMMA HandOverKeeps == ASSUME IInv, HandOver, UNCHANGED trackerVars PROVE IInv'
<1>1. ExitKept
  BY ExitStaysKeeps DEF HandOver, IInv, ExitInv, ExitTypes
<1>2. PICK a : a = [what |-> "plan", text |-> exit.deposit.addr, plan |-> PlanOf(exit)]
  OBVIOUS
<1>3. /\ PlanOf(exit) \in Plans /\ PlanSound(PlanOf(exit))
      /\ PlanOf(exit).main = exit.deposit /\ exit.deposit \in Reservations
      /\ Named(exit.deposit.addr)
      /\ "unvouched" \notin strays => PlanOf(exit).vouched
  BY PlanOfIs DEF HandOver, IInv
<1>4. a \in Calls /\ a.what = "plan" /\ IsPlan(a) /\ a.plan = PlanOf(exit)
  <2>1. exit.deposit.addr \in ZcashTexts
    BY <1>3 DEF Reservations
  <2>2. QED
    BY <1>2, <1>3, <2>1 DEF Calls, IsPlan
<1>5. AskSound(a)
  BY <1>3, <1>4 DEF AskSound, IInv, ExitInv, RequestsSound
<1>6. AskSound(a)'
  BY <1>1, <1>5, AskStaysSound DEF ExitKept
<1>7. Kept(asks, 0) /\ Len(asks) < MaxAsks /\ asks' = Append(asks, a)
  BY <1>2, KeptAll DEF HandOver, Room, IInv, PageInv
<1>8. QueueTypes' /\ (QueueSound => QueueSound') /\ WalletSound'
  <2>1. a.what \notin {"dest", "wallet"}
    BY <1>4
  <2>2. QED
    BY <1>1, <1>4, <1>6, <1>7, <2>1, QueueKeeps, WalletStays DEF HandOver, IInv, PageInv
<1>9. QED
  BY <1>1, <1>8, InExitKeeps DEF HandOver

\* The refund box.
LEMMA RefundTypedKeeps ==
  ASSUME IInv, NEW text \in {Empty, Half, Other}, RefundTyped(text), UNCHANGED trackerVars
  PROVE  IInv'
<1>1. ExitKept
  BY DestinationKeeps DEF RefundTyped, Destination, IInv
<1>2. PICK r : r = Dropping("refund")
  OBVIOUS
<1>3. Kept(r, 0)
  BY <1>2, KeptDropping DEF IInv, PageInv
<1>4. QueueTypes' /\ (QueueSound => QueueSound') /\ WalletSound'
  <2>0. strays \subseteq strays' /\ UNCHANGED <<wallet, walletDest>> /\ QueueTypes /\ WalletSound
    BY <1>1 DEF ExitKept, ExitFrame, RefundTyped, IInv, PageInv
  <2>1. CASE asks' = r
    BY <1>1, <1>3, <2>0, <2>1, QueueKeeps, WalletStays
  <2>2. CASE asks' = Append(r, AskFor("refund", text))
    <3>1. PICK a : a = AskFor("refund", text)
      OBVIOUS
    <3>2. a \in Calls /\ a.what = "refund"
      BY <3>1, NoPlanType, ZcashAddresses DEF AskFor, Calls
    <3>3. AskSound(a)'
      BY <3>2 DEF AskSound, IsPlan
    <3>4. Len(r) < MaxAsks
      BY <1>3 DEF Kept, RefundTyped, Room, IInv, PageInv, QueueTypes
    <3>5. QED
      BY <1>1, <1>3, <2>0, <2>2, <3>1, <3>2, <3>3, <3>4, QueueKeeps, WalletStays
  <2>3. QED
    BY <1>2, <2>1, <2>2 DEF RefundTyped
<1>5. QED
  BY <1>1, <1>4, InExitKeeps DEF RefundTyped

\* The sweep ends on a screen of what was sent, which comes up with a fresh tracker.
LEMMA SweepEndsKeeps == ASSUME IInv, SweepEnds PROVE IInv'
<1>1. ExitKept
  BY ExitStaysKeeps DEF SweepEnds, IInv, ExitInv, ExitTypes
<1>2. /\ send = "sending" /\ send' \in {"sent", "dry", "raced", "failed"}
      /\ Follow(FALSE, Tracking', FALSE)
      /\ UNCHANGED <<strays, choice, dest, wallet, walletDest, wroteDown, transparentAck,
                     atGate, swap, asks, paid, ticked>>
  BY DEF SweepEnds
<1>3. /\ rail' = "PENDING_DEPOSIT" /\ shown' = NoStatus
      /\ poll' = IF Tracking' THEN "asking" ELSE "off"
  BY <1>2 DEF Follow
<1>4. PageTypes'
  <2>1. /\ rail' \in Statuses /\ shown' \in Statuses \cup {NoStatus}
        /\ poll' \in {"off", "asking", "timer", "ended"}
    BY <1>3 DEF Statuses
  <2>2. QED
    BY <1>2, <2>1, TypesNow, PageTypesBut
<1>5. /\ QueueTypes' /\ (QueueSound => QueueSound')
      /\ AwaitsDest(asks)' => AwaitsDest(asks)
      /\ WalletSound'
  BY <1>1, <1>2, QueueUnchanged DEF IInv, PageInv
<1>6. ScreenSound'
  BY <1>2, <1>3, PastChoice DEF SweepEnds, ExitStays, ScreenSound
<1>7. ASSUME "plan" \notin strays
      PROVE  ChoiceSound' /\ SwapSound' /\ PaidSound'
  <2>1. ChoiceSound /\ SwapSound /\ PaidSound
    BY <1>7 DEF IInv, PageInv
  <2>2. ChoiceSound'
    BY <1>2, <1>5, <2>1 DEF ChoiceSound
  <2>3. SwapSound'
    BY <1>2, <1>5, <2>1 DEF SwapSound
  <2>4. Active' = Active /\ Amounts' = Amounts
    BY <1>2 DEF Active, Amounts
  <2>5. PaidSound'
    BY <1>2, <1>3, <2>1, <2>4 DEF PaidSound, NoStatus
  <2>6. QED
    BY <2>2, <2>3, <2>5
<1>8. DepositsSound'
  BY <1>2, DepositsStay DEF IInv, PageInv
<1>9. QED
  BY <1>1, <1>2, <1>4, <1>5, <1>6, <1>7, <1>8 DEF IInv, PageInv, ExitKept

\* The tracker never shows more than the rail has said.
LEMMA TheTrackerKeeps ==
  ASSUME IInv, TheTracker, UNCHANGED <<exitVars, pageVars>> PROVE IInv'
<1>1. ExitKept
  BY ExitStaysKeeps DEF exitVars, ExitStays, IInv, ExitInv, ExitTypes
<1>2. /\ rail' \in Statuses /\ shown' \in Statuses \cup {NoStatus}
      /\ poll # "off" /\ poll' \in {"asking", "timer", "ended"}
      /\ (shown = "SUCCESS" => rail = "SUCCESS") => (shown' = "SUCCESS" => rail' = "SUCCESS")
  BY DEF TheTracker, RailWorks, RailMoves, RailNext, PollAnswers, PollFails, PollAgain,
         Statuses, IInv, PageInv, PageTypes, ScreenSound
<1>3. UNCHANGED <<exit, asked, requests, turns, strays>> /\
      UNCHANGED <<send, choice, dest, wallet, walletDest, wroteDown, transparentAck, atGate,
                  swap, asks, paid, ticked>>
  BY DEF exitVars, pageVars
<1>4. PageTypes'
  BY <1>2, <1>3, TypesNow, PageTypesBut
<1>5. /\ QueueTypes' /\ (QueueSound => QueueSound')
      /\ AwaitsDest(asks)' => AwaitsDest(asks)
      /\ WalletSound'
  BY <1>1, <1>3, QueueUnchanged DEF IInv, PageInv
<1>6. ScreenSound'
  BY <1>2, <1>3 DEF IInv, PageInv, ScreenSound, InExit, Tracking, ShowsSwap
<1>7. ASSUME "plan" \notin strays
      PROVE  ChoiceSound' /\ SwapSound' /\ PaidSound'
  <2>1. ChoiceSound /\ SwapSound /\ PaidSound
    BY <1>7 DEF IInv, PageInv
  <2>2. ChoiceSound'
    BY <1>3, <1>5, <2>1 DEF ChoiceSound
  <2>3. SwapSound'
    BY <1>3, <1>5, <2>1 DEF SwapSound
  <2>4. Active' = Active /\ Amounts' = Amounts
    BY <1>3 DEF Active, Amounts
  <2>5. PaidSound'
    BY <1>2, <1>3, <2>1, <2>4 DEF PaidSound
  <2>6. QED
    BY <2>2, <2>3, <2>5
<1>8. DepositsSound'
  BY <1>3, DepositsStay DEF IInv, PageInv
<1>9. QED
  BY <1>1, <1>3, <1>4, <1>5, <1>6, <1>7, <1>8 DEF IInv, PageInv, ExitKept

\* Of the calls about the address box, the one that is answered was the last.
LEMMA LastDest ==
  ASSUME QueueTypes, OneDest(asks), asks # << >>, Head(asks).what = "dest"
  PROVE  AwaitsDest(asks) /\ ~AwaitsDest(Tail(asks))
<1>1. /\ Len(asks) \in Nat /\ Len(asks) >= 1 /\ Head(asks) = asks[1]
      /\ Len(Tail(asks)) = Len(asks) - 1
      /\ \A i \in 1 .. Len(Tail(asks)) :
           i + 1 \in 1 .. Len(asks) /\ (Tail(asks)[i] = asks[i + 1] \/ Tail(asks)[i] = Unheard)
  BY KeptTail DEF QueueTypes, Kept
<1>2. AwaitsDest(asks)
  BY <1>1 DEF AwaitsDest
<1>3. ASSUME NEW i \in 1 .. Len(Tail(asks)), Tail(asks)[i].what = "dest"
      PROVE  FALSE
  <2>1. asks[i + 1].what = "dest" /\ i + 1 \in 1 .. Len(asks) /\ 1 \in 1 .. Len(asks)
    <3>1. i + 1 \in 1 .. Len(asks) /\ (Tail(asks)[i] = asks[i + 1] \/ Tail(asks)[i] = Unheard)
      BY <1>1
    <3>2. Tail(asks)[i] # Unheard
      BY <1>3, UnheardType
    <3>3. QED
      BY <1>1, <1>3, <3>1, <3>2
  <2>2. i + 1 = 1
    BY <1>1, <2>1 DEF OneDest
  <2>3. QED
    BY <1>1, <2>2
<1>4. QED
  BY <1>2, <1>3 DEF AwaitsDest

\* An answer that ends no plan: at most the address box, the words or the core's word on
\* them change.
LEMMA VerdictKeeps ==
  ASSUME IInv, ExitKept, QueueTypes', QueueSound => QueueSound', WalletSound',
         AwaitsDest(asks)' => AwaitsDest(asks),
         exit = Fresh => exit' = Fresh, asked' = asked,
         strays' = strays \/ strays' = strays \cup {"wallet"},
         UNCHANGED <<send, choice, wroteDown, transparentAck, atGate, swap, paid, ticked>>,
         UNCHANGED trackerVars,
         \/ wallet' = wallet
         \/ wallet' \in WalletTexts /\ (wallet = Empty \/ "wallet" \in strays'),
         walletDest' = walletDest \/ (wallet # Empty /\ walletDest' = Described(wallet)),
         \/ dest' = dest
         \/ /\ \E text \in Texts : dest' = Described(text)
            /\ AwaitsDest(asks)
            /\ OneDest(asks) => ~AwaitsDest(asks)'
  PROVE  IInv'
<1>1. UNCHANGED <<rail, shown, poll>>
  BY DEF trackerVars
<1>2. PageTypes'
  <2>1. dest' \in [input : ZcashTexts, kind : Kinds] /\ dest'.kind \in {"", KindOf(dest'.input)}
    <3>1. CASE dest' = dest
      BY <3>1 DEF IInv, PageInv, PageTypes
    <3>2. CASE \E text \in Texts : dest' = Described(text)
      <4>1. PICK text \in Texts : dest' = Described(text)
        BY <3>2
      <4>2. text \in ZcashTexts
        BY ZcashAddresses
      <4>3. QED
        BY <4>1, <4>2, Kinded
    <3>3. QED
      BY <3>1, <3>2
  <2>2. /\ walletDest' \in {NoDest} \cup {Described(w) : w \in WalletTexts}
        /\ wallet' \in WalletTexts \cup {Empty}
    BY DEF IInv, PageInv, PageTypes
  <2>3. /\ choice' \in {"none", "paste", "wallet", "solana"}
        /\ swap' \in Plans /\ wroteDown' \in BOOLEAN
        /\ transparentAck' \in BOOLEAN /\ atGate' \in BOOLEAN
    BY DEF IInv, PageInv, PageTypes
  <2>4. /\ send' \in {"choose", "review", "sending", "sent", "dry", "raced", "failed"}
        /\ rail' \in Statuses /\ shown' \in Statuses \cup {NoStatus}
        /\ poll' \in {"off", "asking", "timer", "ended"}
    BY <1>1, TypesNow
  <2>5. QED
    BY <2>1, <2>2, <2>3, <2>4 DEF PageTypes
<1>3. ScreenSound'
  BY <1>1 DEF IInv, PageInv, ScreenSound, InExit, Tracking, ShowsSwap
<1>4. ASSUME "plan" \notin strays
      PROVE  ChoiceSound' /\ SwapSound' /\ PaidSound'
  <2>1. QueueSound /\ ChoiceSound /\ SwapSound /\ PaidSound
    BY <1>4 DEF IInv, PageInv
  <2>2. OneDest(asks)
    BY <2>1 DEF QueueSound
  <2>3. dest' # dest => swap = NoPlan /\ (choice = "paste" => dest.kind = "")
    BY <2>1 DEF ChoiceSound, SwapSound
  <2>4. ASSUME walletDest # NoDest
        PROVE  /\ walletDest' # NoDest /\ walletDest'.kind = walletDest.kind
               /\ "wallet" \notin strays => walletDest' = walletDest
    <3>1. walletDest \in {Described(w) : w \in WalletTexts} /\ wallet \in WalletTexts \cup {Empty}
      BY <2>4 DEF IInv, PageInv, PageTypes
    <3>2. "wallet" \notin strays => walletDest = Described(wallet)
      BY <2>4 DEF IInv, PageInv, WalletSound
    <3>3. PICK w \in WalletTexts : walletDest = Described(w)
      BY <3>1
    <3>4. CASE walletDest' = walletDest
      BY <2>4, <3>4
    <3>5. CASE wallet # Empty /\ walletDest' = Described(wallet)
      <4>1. wallet \in WalletTexts
        BY <3>1, <3>5
      <4>2. walletDest'.kind = KindOf(wallet) /\ walletDest.kind = KindOf(w)
        BY <3>3, <3>5, Kinded
      <4>3. KindOf(wallet) = KindOf(w)
        BY <3>3, <4>1, WalletTextsAre
      <4>4. walletDest' # NoDest
        BY <3>5, Kinded
      <4>5. QED
        BY <3>2, <3>5, <4>2, <4>3, <4>4
    <3>6. QED
      BY <3>4, <3>5
  <2>5. ChoiceSound'
    <3>1. wroteDown => /\ wallet # Empty /\ wallet' # Empty
                       /\ "wallet" \notin strays' => wallet' = wallet
      BY <2>1, WalletTextsAre DEF ChoiceSound
    <3>2. "wallet" \notin strays' => "wallet" \notin strays
      OBVIOUS
    <3>3. QED
      BY <2>1, <2>2, <2>3, <2>4, <3>1, <3>2 DEF ChoiceSound, Sendable
  <2>6. SwapSound'
    BY <2>1, <2>3 DEF SwapSound
  <2>7. ASSUME send # "choose"
        PROVE  /\ Amounts' = Amounts
               /\ Active'.input = Active.input \/ (choice = "wallet" /\ "wallet" \in strays)
    <3>1. CASE choice = "wallet"
      <4>1. walletDest # NoDest /\ Active = walletDest /\ Active' = walletDest'
        BY <2>1, <2>7, <3>1 DEF ChoiceSound, Active
      <4>2. Active'.kind = Active.kind /\ ("wallet" \notin strays => Active' = Active)
        BY <2>4, <4>1
      <4>3. QED
        BY <3>1, <4>2 DEF Amounts
    <3>2. CASE choice # "wallet"
      <4>1. Active' = Active
        BY <2>1, <2>3, <2>7, <3>2 DEF ChoiceSound, Active, Sendable, IInv, PageInv, PageTypes
      <4>2. QED
        BY <4>1 DEF Amounts
    <3>3. QED
      BY <3>1, <3>2
  <2>8. PaidSound'
    <3>1. "wallet" \in strays => "wallet" \in strays'
      OBVIOUS
    <3>2. QED
      BY <1>1, <2>1, <2>7, <3>1 DEF PaidSound
  <2>9. QED
    BY <2>5, <2>6, <2>8
<1>5. DepositsSound'
  <2>1. dest' = dest \/ dest'.input \in Texts
    BY Kinded
  <2>2. QED
    BY <2>1, DepositsStay DEF IInv, PageInv
<1>6. QED
  BY <1>2, <1>3, <1>4, <1>5 DEF IInv, PageInv, ExitKept

\* A plan ends, on the screen that handed it over or elsewhere.
LEMMA PlanEndsKeeps ==
  ASSUME IInv, asks # << >>, NEW p, NEW sound \in BOOLEAN,
         IsPlan(Head(asks)), p = Head(asks).plan, PlanEnds(p, sound),
         sound => Sound(p) /\ (p.extra # NoReservation => SoundExtra(p)),
         asks' = Deaf(Tail(asks), "refund"),
         UNCHANGED <<walletDest, turns, wallet, wroteDown, transparentAck, atGate, paid, ticked>>
  PROVE  IInv'
<1>1. /\ strays' = IF StillHandedOver(p) THEN strays ELSE strays \cup {"plan"}
      /\ ExitGone /\ Follow(Tracking, Tracking', swap' = swap)
  BY DEF PlanEnds
<1>2. strays \subseteq strays' /\ strays' \subseteq {"unvouched", "plan", "wallet"}
  BY <1>1 DEF IInv, ExitInv, ExitTypes
<1>3. ExitKept
  BY <1>1, <1>2, ExitGoneKeeps DEF IInv, ExitInv, ExitTypes
<1>4. PICK r : r = Deaf(Tail(asks), "refund")
  OBVIOUS
<1>5. Kept(r, 1) /\ asks' = r
  BY <1>4, KeptDeaf DEF IInv, PageInv
<1>6. /\ QueueTypes' /\ (QueueSound => QueueSound')
      /\ AwaitsDest(asks)' => AwaitsDest(asks)
      /\ WalletSound'
  BY <1>2, <1>3, <1>5, QueueKeeps, WalletStays DEF IInv, PageInv
<1>7. /\ AskSound(Head(asks)) /\ Head(asks) = asks[1] /\ Len(asks) >= 1 /\ Len(asks) \in Nat
      /\ p \in Plans /\ p.main.addr \in ZcashTexts
  <2>1. AskSound(Head(asks)) /\ Head(asks) = asks[1] /\ Len(asks) >= 1 /\ Head(asks) \in Calls
    BY KeptTail DEF IInv, PageInv
  <2>2. p \in Plans
    BY <2>1 DEF Calls
  <2>3. QED
    BY <2>1, <2>2, PlanZat DEF IInv, PageInv, QueueTypes
<1>8. /\ p.main.addr # Empty /\ p # NoPlan
  BY <1>7, Addresses, NoPlanType, NoReservationType DEF AskSound, Named, Names
<1>9. /\ rail' \in Statuses /\ shown' \in Statuses \cup {NoStatus}
      /\ poll' \in {"off", "asking", "timer", "ended"}
      /\ poll' # "off" <=> Tracking'
      /\ poll' = "off" => shown' = NoStatus /\ rail' = "PENDING_DEPOSIT"
  BY <1>1 DEF Follow, Statuses, IInv, PageInv, PageTypes
<1>10. /\ swap' \in Plans /\ send' \in {send, "review"} /\ choice' \in {choice, "none"}
       /\ dest' \in {Described(p.main.addr), NoDest}
  BY <1>7, NoPlanType DEF PlanEnds, IInv, PageInv, PageTypes
<1>11. PageTypes'
  <2>1. dest' \in [input : ZcashTexts, kind : Kinds] /\ dest'.kind \in {"", KindOf(dest'.input)}
    BY <1>7, <1>10, Kinded
  <2>2. QED
    BY <1>9, <1>10, <2>1 DEF IInv, PageInv, PageTypes
<1>12. ScreenSound'
  BY <1>1, <1>9 DEF ScreenSound, ExitGone
<1>13. ASSUME "plan" \notin strays'
       PROVE  QueueSound' /\ ChoiceSound' /\ SwapSound' /\ PaidSound'
  <2>1. /\ StillHandedOver(p) /\ "plan" \notin strays
        /\ QueueSound /\ ChoiceSound /\ SwapSound /\ PaidSound
    BY <1>1, <1>13 DEF IInv, PageInv
  <2>2. /\ send = "choose" /\ choice = "solana" /\ swap = NoPlan /\ ~atGate /\ ~wroteDown
        /\ p.main = exit.deposit
    BY <2>1 DEF StillHandedOver, InExit, ChoiceSound, PlanOf
  <2>3. ~AwaitsDest(asks)
    BY <1>7, <2>1, <2>2 DEF AwaitsDest, QueueSound, DestsFirst
  <2>4. send' # "sent" /\ send' \notin {"sending", "sent", "dry"}
    BY <2>2 DEF PlanEnds
  <2>5. shown' = NoStatus
    BY <1>9, <2>4 DEF Tracking
  <2>6. ASSUME sound PROVE ChoiceSound' /\ SwapSound'
    <3>1. /\ swap' = p /\ dest' = Described(p.main.addr) /\ send' = "review"
          /\ choice' = "solana"
      BY <2>2, <2>6 DEF PlanEnds
    <3>2. ChoiceSound'
      BY <1>8, <2>2, <3>1 DEF ChoiceSound
    <3>3. SwapSound'
      BY <1>6, <2>3, <3>1 DEF SwapSound
    <3>4. QED
      BY <3>2, <3>3
  <2>7. ASSUME ~sound PROVE ChoiceSound' /\ SwapSound'
    <3>1. swap' = NoPlan /\ dest' = NoDest /\ choice' = "none" /\ send' = "choose"
      BY <2>2, <2>7 DEF PlanEnds
    <3>2. QED
      BY <2>2, <3>1 DEF ChoiceSound, SwapSound
  <2>8. PaidSound'
    BY <2>1, <2>4, <2>5 DEF PaidSound, NoStatus
  <2>9. QED
    BY <1>6, <2>1, <2>6, <2>7, <2>8
<1>14. DepositsSound'
  <2>1. CASE sound
    <3>1. swap' = p /\ dest'.input = p.main.addr
      BY <2>1, Kinded DEF PlanEnds
    <3>2. Checked(p)'
      BY <1>2, <1>7, <2>1 DEF Checked, AskSound
    <3>3. QED
      BY <1>2, <3>1, <3>2, CheckedStays DEF IInv, PageInv, DepositsSound
  <2>2. CASE ~sound
    BY <1>2, <2>2, Kinded, DepositsStay DEF PlanEnds, IInv, PageInv
  <2>3. QED
    BY <2>1, <2>2
<1>15. QED
  BY <1>3, <1>6, <1>11, <1>12, <1>13, <1>14 DEF IInv, PageInv, ExitKept

\* Each of the answers of the core.
LEMMA CoreAnswersKeeps == ASSUME IInv, CoreAnswers PROVE IInv'
<1> DEFINE a == Head(asks)
           rest == Tail(asks)
<1>1. /\ asks # << >> /\ Answered(a, rest)
      /\ UNCHANGED <<turns, wroteDown, transparentAck, atGate, paid, ticked>>
  BY DEF CoreAnswers
<1>2. Kept(rest, 1) /\ a \in Calls /\ AskSound(a) /\ (a.what = "wallet" => a.text = wallet)
  BY <1>1, KeptTail DEF IInv, PageInv, WalletSound
<1>3. ASSUME ExitStays, strays' = strays \/ strays' = strays \cup {"wallet"} PROVE ExitKept
  BY <1>1, <1>3, ExitStaysKeeps DEF IInv, ExitInv, ExitTypes
<1>4. ASSUME ExitKept, asks' = rest
      PROVE  /\ QueueTypes' /\ (QueueSound => QueueSound')
             /\ AwaitsDest(asks)' => AwaitsDest(asks)
             /\ UNCHANGED <<wallet, walletDest>> => WalletSound'
  BY <1>2, <1>4, QueueKeeps, WalletStays DEF IInv, PageInv, ExitKept, ExitFrame
<1> HIDE DEF a, rest
<1>5. CASE /\ a = Unheard \/ a.what = "new"
           /\ asks' = rest /\ ExitStays
           /\ UNCHANGED <<strays, send, choice, dest, wallet, walletDest, swap, trackerVars>>
  BY <1>1, <1>3, <1>4, <1>5, VerdictKeeps DEF ExitStays
<1>6. CASE /\ a.what = "dest" /\ dest' = Described(a.text) /\ asks' = rest /\ ExitStays
           /\ UNCHANGED <<strays, send, choice, wallet, walletDest, swap, trackerVars>>
  <2>1. a.text \in Texts
    BY <1>2, <1>6 DEF AskSound
  <2>2. OneDest(asks) => AwaitsDest(asks) /\ ~AwaitsDest(rest)
    BY <1>1, <1>6, LastDest DEF IInv, PageInv, a, rest
  <2>3. OneDest(asks) => ~AwaitsDest(asks)'
    BY <1>6, <2>2 DEF AwaitsDest
  <2>4. AwaitsDest(asks)
    BY <1>1, <1>6, KeptTail DEF AwaitsDest, a, IInv, PageInv, QueueTypes
  <2>5. QED
    BY <1>1, <1>3, <1>4, <1>6, <2>1, <2>3, <2>4, VerdictKeeps DEF ExitStays
<1>7. CASE /\ a.what = "wallet" /\ walletDest' = Described(a.text) /\ asks' = rest
           /\ ExitStays /\ UNCHANGED <<strays, send, choice, dest, wallet, swap, trackerVars>>
  <2>1. a.text = wallet /\ a.text \in WalletTexts /\ wallet # Empty
    BY <1>2, <1>7, WalletTextsAre DEF AskSound
  <2>2. ExitKept
    BY <1>3, <1>7
  <2>3. WalletSound'
    <3>1. \A i \in 1 .. Len(rest) : rest[i].what = "wallet" => rest[i].text = wallet
      <4>1. /\ \A i \in 1 .. Len(rest) : i + 1 \in 1 .. Len(asks)
            /\ \A i \in 1 .. Len(rest) : rest[i] = asks[i + 1] \/ rest[i] = Unheard
        BY <1>2 DEF Kept, IInv, PageInv, QueueTypes
      <4>2. QED
        BY <4>1, UnheardType DEF IInv, PageInv, WalletSound
    <3>2. QED
      BY <1>7, <2>1, <3>1 DEF WalletSound
  <2>4. QED
    BY <1>1, <1>4, <1>7, <2>1, <2>2, <2>3, VerdictKeeps DEF ExitStays
<1>8. CASE /\ a.what = "refund" /\ exit' = RefundVerdict(exit, a.text) /\ asks' = rest
           /\ UNCHANGED <<asked, requests, strays, send, choice, dest, wallet, walletDest, swap,
                          trackerVars>>
  <2>1. ExitKept
    BY <1>1, <1>8, RefundVerdictKeeps DEF IInv
  <2>2. exit = Fresh => exit' = Fresh
    BY <1>8, FreshType DEF RefundVerdict
  <2>3. QED
    BY <1>1, <1>4, <1>8, <2>1, <2>2, VerdictKeeps
<1>9. CASE /\ a.what = "plan"
           /\ asks' = Append(rest, [what |-> "extra", text |-> a.plan.extra.addr,
                                    plan |-> a.plan])
           /\ ExitStays
           /\ UNCHANGED <<strays, send, choice, dest, wallet, walletDest, swap, trackerVars>>
  <2>1. ExitKept
    BY <1>3, <1>9
  <2>2. PICK b : b = [what |-> "extra", text |-> a.plan.extra.addr, plan |-> a.plan]
    OBVIOUS
  <2>3. a.plan \in Plans
    BY <1>2 DEF Calls
  <2>4. a.plan.extra.addr \in ZcashTexts
    BY <2>3 DEF Plans, Reservations
  <2>5. b \in Calls /\ b.what = "extra" /\ b.plan = a.plan
    BY <2>2, <2>3, <2>4 DEF Calls
  <2>6. AskSound(b)
    BY <1>2, <1>9, <2>5 DEF AskSound, IsPlan
  <2>7. AskSound(b)'
    BY <2>1, <2>6, AskStaysSound DEF ExitKept
  <2>8. Len(rest) < MaxAsks
    BY <1>2, AsksAssumption DEF Kept, IInv, PageInv, QueueTypes
  <2>9. /\ QueueTypes' /\ (QueueSound => QueueSound')
        /\ AwaitsDest(asks)' => AwaitsDest(asks)
        /\ WalletSound'
    BY <1>2, <1>9, <2>1, <2>2, <2>5, <2>7, <2>8, QueueKeeps, WalletStays
    DEF IInv, PageInv, ExitKept, ExitFrame
  <2>10. QED
    BY <1>1, <1>9, <2>1, <2>9, VerdictKeeps DEF ExitStays
<1>10. CASE /\ a.what = "plan"
            /\ ~(a.plan.route /\ a.plan.recipient = Router /\ a.plan.extra # NoReservation)
            /\ PlanEnds(a.plan, Sound(a.plan)) /\ asks' = Deaf(rest, "refund")
            /\ UNCHANGED <<wallet, walletDest>>
  <2>1. IsPlan(a) /\ PlanSound(a.plan)
    BY <1>2, <1>10 DEF AskSound, IsPlan
  <2>2. a.plan.extra = NoReservation
    BY <1>10, <2>1 DEF PlanSound
  <2>3. Sound(a.plan) \in BOOLEAN
    BY DEF Sound, CheckSwapPlan
  <2>4. QED
    BY <1>1, <1>10, <2>1, <2>2, <2>3, PlanEndsKeeps DEF a, rest
<1>11. CASE /\ a.what = "extra"
            /\ PlanEnds(a.plan, Sound(a.plan) /\ SoundExtra(a.plan))
            /\ asks' = Deaf(rest, "refund") /\ UNCHANGED <<wallet, walletDest>>
  <2>1. IsPlan(a)
    BY <1>11 DEF IsPlan
  <2>2. QED
    BY <1>1, <1>11, <2>1, PlanEndsKeeps DEF a, rest
<1>12. CASE /\ a.what = "new" /\ wallet' = a.text
            /\ asks' = Append(Deaf(rest, "wallet"), AskFor("wallet", a.text))
            /\ strays' = IF wallet = Empty THEN strays ELSE strays \cup {"wallet"}
            /\ ExitStays
            /\ UNCHANGED <<send, choice, dest, walletDest, swap, trackerVars>>
  <2>1. a.text \in WalletTexts /\ a.text # Empty /\ a.text \in ZcashTexts
    BY <1>2, <1>12, WalletTextsAre, ZcashAddresses DEF AskSound
  <2>2. ExitKept
    BY <1>3, <1>12
  <2>3. PICK r : r = Deaf(rest, "wallet")
    OBVIOUS
  <2>4. Kept(r, 1) /\ r \in Seq(Calls) /\ Len(r) \in Nat /\ Len(r) < MaxAsks
    <3>1. Kept(r, 1) /\ Len(asks) \in Nat /\ Len(asks) <= MaxAsks
      BY <1>1, <2>3, KeptDeaf DEF IInv, PageInv, QueueTypes, rest
    <3>2. QED
      BY <3>1, AsksAssumption DEF Kept
  <2>5. \A i \in 1 .. Len(r) : r[i].what # "wallet"
    <3>1. rest \in Seq(Calls)
      BY <1>2 DEF Kept
    <3>2. DOMAIN rest = 1 .. Len(rest) /\ Len(r) = Len(rest)
      BY <2>3, <3>1, CallsSeq, DeafIs
    <3>3. QED
      BY <2>3, <3>2, UnheardType DEF Deaf
  <2>6. PICK b : b = AskFor("wallet", a.text)
    OBVIOUS
  <2>7. b \in Calls /\ b.what = "wallet" /\ b.text = a.text /\ asks' = Append(r, b)
    BY <1>12, <2>1, <2>3, <2>6, NoPlanType DEF AskFor, Calls
  <2>8. AskSound(b)'
    BY <2>1, <2>7 DEF AskSound, IsPlan
  <2>9. /\ QueueTypes' /\ (QueueSound => QueueSound')
        /\ AwaitsDest(asks)' => AwaitsDest(asks)
    BY <2>2, <2>4, <2>7, <2>8, QueueKeeps DEF IInv, PageInv
  <2>10. WalletSound'
    <3>1. PICK t : t = asks'
      OBVIOUS
    <3>2. /\ Len(t) = Len(r) + 1 /\ t[Len(r) + 1] = b
          /\ \A i \in 1 .. Len(r) : t[i] = r[i]
      BY <2>4, <2>7, <3>1, AppendIs
    <3>3. \A i \in 1 .. Len(t) : t[i].what = "wallet" => t[i].text = wallet'
      <4>1. PICK n \in Nat : n = Len(r)
        BY <2>4
      <4>2. QED
        BY <1>12, <2>5, <2>7, <3>2, <4>1
    <3>4. "wallet" \notin strays' => wallet = Empty
      BY <1>12
    <3>5. QED
      BY <1>12, <2>1, <3>1, <3>3, <3>4 DEF WalletSound, IInv, PageInv
  <2>11. QED
    BY <1>1, <1>12, <2>1, <2>2, <2>9, <2>10, VerdictKeeps DEF ExitStays
<1>13. QED
  BY <1>1, <1>5, <1>6, <1>7, <1>8, <1>9, <1>10, <1>11, <1>12 DEF Answered

\* Every step keeps the invariant, and so does none.
LEMMA NextKeeps == ASSUME IInv, Next PROVE IInv'
<1>1. CASE ThePage /\ UNCHANGED trackerVars
  BY <1>1, PickPasteKeeps, PickSolanaKeeps, PickWalletHereKeeps, TypeAddressKeeps,
     WriteDownKeeps, ContinueKeeps, TickGateKeeps, LeaveGateKeeps, ChooseAgainKeeps,
     SendKeeps, LeaveExitKeeps, HandOverKeeps, RefundTypedKeeps, InTheExitKeeps,
     TheRailKeeps DEF ThePage
<1>2. QED
  BY <1>1, SweepEndsKeeps, CoreAnswersKeeps, TheTrackerKeeps DEF Next

LEMMA StutterKeeps == ASSUME IInv, UNCHANGED vars PROVE IInv'
<1>1. /\ ExitStays /\ strays' = strays /\ turns' = turns
      /\ UNCHANGED <<send, choice, dest, wallet, walletDest, wroteDown, transparentAck, atGate,
                     swap, asks, paid, ticked>>
      /\ UNCHANGED trackerVars
  BY DEF vars, exitVars, pageVars, ExitStays
<1>2. ExitKept
  BY <1>1, ExitStaysKeeps DEF IInv, ExitInv, ExitTypes
<1>3. /\ QueueTypes' /\ (QueueSound => QueueSound')
      /\ AwaitsDest(asks)' => AwaitsDest(asks)
      /\ WalletSound'
  BY <1>1, <1>2, QueueUnchanged DEF IInv, PageInv
<1>4. exit = Fresh => exit' = Fresh /\ asked' = asked
  BY <1>1 DEF ExitStays
<1>5. asked' = asked /\ walletDest' = walletDest /\ dest' = dest
  BY <1>1 DEF ExitStays
<1>6. QED
  BY <1>1, <1>2, <1>3, <1>4, <1>5, VerdictKeeps

\* It holds of the page that was just opened.
LEMMA InitIInv == ASSUME Init PROVE IInv
<1>1. ExitInv
  BY FreshType, ExitAssumption
  DEF Init, ExitInv, ExitTypes, FieldsSound, DepositSound, RequestsSound, VouchedFor, Late
<1>2. PageTypes
  BY NoPlanType, Kinded DEF Init, PageTypes, Untracked, Statuses
<1>3. QueueTypes /\ QueueSound /\ ~AwaitsDest(asks)
  BY AsksAssumption DEF Init, QueueTypes, QueueSound, DestsFirst, OneDest, AwaitsDest
<1>4. ScreenSound
  BY DEF Init, ScreenSound, Untracked, Tracking
<1>5. ChoiceSound /\ SwapSound
  BY <1>3 DEF Init, ChoiceSound, SwapSound
<1>6. PaidSound
  BY DEF Init, PaidSound, NoSweep, Untracked, NoStatus
<1>7. WalletSound
  BY DEF Init, WalletSound
<1>8. DepositsSound
  BY NoPlanType, Kinded DEF Init, DepositsSound, NoSweep
<1>9. QED
  BY <1>1, <1>2, <1>3, <1>4, <1>5, <1>6, <1>7, <1>8 DEF IInv, PageInv

\* However clicks, keystrokes, answers of the core and of the rail, wallets and polls
\* interleave, the page stays in the invariant.
THEOREM SendOnInvariant == Spec => []IInv
<1>1. Init => IInv
  BY InitIInv
<1>2. IInv /\ [Next]_vars => IInv'
  BY NextKeeps, StutterKeeps
<1>3. QED
  BY <1>1, <1>2, PTL DEF Spec

(***************************************************************************)
(* What the page promises.                                                 *)
(***************************************************************************)
\* The page, the exit and the tracker hold what their types say, and only while their
\* screens are shown (SendOn.tsx:162-208, SolanaExit.tsx:180-189); while no plan has
\* landed after its screen was left, the plan and the written words are the choice's (M3).
THEOREM PageTyped == Spec => []TypeOK
<1>1. ASSUME IInv PROVE TypeOK
  <2>1. ExitInv /\ PageInv /\ ExitTypes /\ exit \in ExitStates
    BY <1>1 DEF IInv, ExitInv, ExitTypes
  <2>2. /\ exit.phase \in Phases /\ exit.mode \in Modes /\ exit.refundStatus \in Verdicts
        /\ exit.offer \in Offers /\ exit.deposit \in Reservations
        /\ exit.extra \in Reservations
    BY <2>1 DEF ExitStates
  <2>3. Recipient(exit) \in SolanaTexts /\ RefundTo(exit) \in ZcashTexts
    BY <2>1, Recipients
  <2>4. /\ exit.phase = "deposit" => exit.deposit # NoReservation
        /\ exit.phase \in {"quote", "deposit"} => exit.asset # ""
    BY <2>1 DEF ExitInv, DepositSound, FieldsSound
  <2>5. walletDest \in [input : ZcashTexts, kind : Kinds]
    <3>1. /\ walletDest \in {NoDest} \cup {Described(w) : w \in WalletTexts}
          /\ WalletTexts \subseteq ZcashTexts
      BY <2>1, ZcashAddresses DEF PageInv, PageTypes
    <3>2. QED
      BY <3>1, Kinded
  <2>6. Len(asks) <= MaxAsks + 1
    BY <2>1, AsksAssumption DEF PageInv, QueueTypes
  <2>7. "plan" \notin strays =>
          /\ wroteDown => choice = "wallet" /\ wallet # Empty
          /\ swap # NoPlan => choice = "solana" /\ send # "choose"
    BY <2>1 DEF PageInv, ChoiceSound, SwapSound
  <2>8. /\ requests \in 0 .. MaxRequests /\ turns \in 0 .. MaxTurns
        /\ strays \subseteq {"unvouched", "plan", "wallet"}
    BY <2>1 DEF ExitTypes
  <2>9. /\ PageTypes
        /\ poll # "off" <=> Tracking
        /\ exit # Fresh \/ asked # {} => InExit
    BY <2>1 DEF PageInv, ScreenSound
  <2>10. QED
    BY <2>2, <2>3, <2>4, <2>5, <2>6, <2>7, <2>8, <2>9
    DEF TypeOK, PageTypes, Phases, Modes, Verdicts, Offers
<1>2. QED
  BY <1>1, SendOnInvariant, PTL

\* Late verdicts, edits and polls never make the screens of a sweep say anything but
\* what it was given (SendOn.tsx:299-318, 418-470).  Excepted are a plan that landed
\* after its screen was left, and words that replaced other words.
THEOREM ScreensTellTheSweep == Spec => []SweptAsShown
<1>1. ASSUME IInv PROVE SweptAsShown
  <2>1. SUFFICES ASSUME strays \cap {"plan", "wallet"} = {}, send \in {"sending", "sent", "dry"}
                 PROVE  /\ Active.input = paid.to /\ swap = paid.swap
                        /\ choice = paid.choice /\ Amounts = Pays(paid.receive)
                        /\ Line("payout") = "done" => Tracking /\ rail = "SUCCESS"
    BY DEF SweptAsShown
  <2>2. /\ PaidSound /\ ScreenSound /\ shown \in Statuses \cup {NoStatus}
        /\ "wallet" \notin strays
    BY <1>1, <2>1 DEF IInv, PageInv, PageTypes
  <2>3. Line("payout") = "done" => shown = "SUCCESS"
    BY <2>2 DEF Line, StateOf, Statuses
  <2>4. shown = "SUCCESS" => Tracking /\ rail = "SUCCESS"
    BY <2>2 DEF PaidSound, ScreenSound, NoStatus
  <2>5. QED
    BY <2>1, <2>2, <2>3, <2>4 DEF PaidSound
<1>2. QED
  BY <1>1, SendOnInvariant, PTL

\* Whatever the rail gets wrong in a reservation, and wherever the page is when its
\* answers and the core's land: an address the rail named is paid only as the deposit of a
\* plan that passed its checks, so it pays and refunds whom the page named
\* (solanaFlow.ts:388-432, M6).  Nothing is excepted: it rests on DepositsSound, the part
\* of the invariant that holds of every page.
THEOREM DepositsAreTheRecipients == Spec => []DepositsAnswerThePlan
<1>1. ASSUME IInv PROVE DepositsAnswerThePlan
  <2> DEFINE p == paid.swap
  <2>1. DepositsSound
    BY <1>1 DEF IInv, PageInv
  <2>2. paid.to \in DepositTexts => paid.to = p.main.addr
    BY <2>1, WalletTextsAre DEF DepositsSound
  <2>3. ASSUME p # NoPlan
        PROVE  /\ KindOf(p.main.addr) = "transparent" /\ p.main.payee = p.recipient
               /\ p.main.asset = p.asset /\ p.main.refund = p.refundTo
               /\ p.refundTo \in {Envelope, Other, Half}
    BY <2>1, <2>3 DEF DepositsSound, Checked, PlanSound, Sound, CheckSwapPlan
  <2>4. ASSUME p # NoPlan, p.extra # NoReservation
        PROVE  /\ p.route /\ KindOf(p.extra.addr) = "transparent" /\ p.extra.payee = Router
               /\ p.extra.asset = "sol" /\ p.extra.refund = p.refundTo
    BY <2>1, <2>4 DEF DepositsSound, Checked, PlanSound, SoundExtra, CheckSwapPlan
  <2>5. ASSUME p # NoPlan
        PROVE  IF p.route THEN p.recipient = Router /\ p.final \notin {Router, Stranger}
                          ELSE p.recipient \notin {Router, Stranger}
    BY <2>1, <2>5, SolanaAddresses DEF DepositsSound, Checked, PlanSound
  <2>6. QED
    BY <2>2, <2>3, <2>4, <2>5 DEF DepositsAnswerThePlan
<1>2. QED
  BY <1>1, SendOnInvariant, PTL

\* What each deposit is paid, by the core and in whatever form, is what the rail was
\* asked to reserve it for (SendOn.tsx:325-336, SolanaExit.tsx:304-364), while no plan has
\* landed after its screen was left.
THEOREM QuotesArePaid == Spec => []QuotedIsPaid
<1>1. ASSUME IInv PROVE QuotedIsPaid
  <2>1. SUFFICES ASSUME paid.swap # NoPlan, "plan" \notin strays
                 PROVE  /\ \A d, e \in OutputBytes :
                             CoreAmounts(InEnvelope, KindOf(paid.to), paid.swap.extra.zat,
                                         Spends, d, e) = Pays(paid.swap.main.zat)
                        /\ paid.receive = paid.swap.main.zat
    BY DEF QuotedIsPaid
  <2> DEFINE p == paid.swap
             page == PageAmounts(InEnvelope, "transparent", p.extra.zat, Spends)
  <2>2. /\ PlanSound(p) /\ Sound(p) /\ p \in Plans /\ paid.to = p.main.addr
        /\ page = Pays(paid.receive)
    BY <1>1, <2>1 DEF IInv, PageInv, DepositsSound, PaidSound, Checked
  <2>3. p.extra.zat \in Nat
    BY <2>2, PlanZat
  <2>4. KindOf(paid.to) = "transparent" /\ p.main.payee = p.recipient
        /\ (p.route => p.recipient = Router)
    BY <2>2 DEF Sound, CheckSwapPlan
  <2>5. p.main.zat = page.receive
    <3>1. CASE p.route
      BY <2>2, <2>4, <3>1 DEF PlanSound, PriceOf
    <3>2. CASE ~p.route
      <4>1. p.recipient \in NotARouter /\ p.extra = NoReservation /\ p.recipient # Router
        BY <2>2, <3>2, SolanaAddresses DEF PlanSound
      <4>2. p.main.zat = Whole /\ p.extra.zat = 0
        BY <2>2, <2>4, <4>1, NoReservationType DEF PlanSound, PriceOf
      <4>3. QED
        BY <4>2 DEF Whole
    <3>3. QED
      BY <3>1, <3>2
  <2>6. page.receive = paid.receive
    BY <2>2 DEF Pays
  <2>7. ASSUME NEW d \in OutputBytes, NEW e \in OutputBytes
        PROVE  page = CoreAmounts(InEnvelope, "transparent", p.extra.zat, Spends, d, e)
    BY <2>3, PageAndCoreAgreeOnAll, ExitAssumption DEF Sendable
  <2>8. QED
    BY <2>2, <2>4, <2>5, <2>6, <2>7
<1>2. QED
  BY <1>1, SendOnInvariant, PTL

\* The amount on the review screen is the one the core pays (amount.ts:77-260,
\* spend.rs:315-445), while no plan has landed after its screen was left.
THEOREM ReviewTellsThePayment == Spec => []PageAndCoreAgree
<1>1. ASSUME IInv PROVE PageAndCoreAgree
  <2>1. SUFFICES ASSUME OnReview, Active.kind \in Sendable, "plan" \notin strays,
                        NEW d \in OutputBytes, NEW e \in OutputBytes
                 PROVE  Amounts = CoreAmounts(InEnvelope, Active.kind, swap.extra.zat,
                                              Spends, d, e)
    BY DEF PageAndCoreAgree
  <2>2. SwapSound /\ DepositsSound /\ swap.extra.zat \in Nat
    BY <1>1, <2>1, PlanZat DEF IInv, PageInv, PageTypes
  <2>3. swap.extra.zat > 0 => Active.kind = "transparent"
    <3>1. swap.extra.zat > 0 => swap # NoPlan
      BY NoPlanType, NoReservationType
    <3>2. QED
      BY <2>2, <3>1, Kinded DEF SwapSound, DepositsSound, Checked, Sound, CheckSwapPlan,
                                Active
  <2>4. swap.extra.zat > 0 \/ swap.extra.zat = 0
    BY <2>2
  <2>5. Amounts = PageAmounts(InEnvelope, Active.kind, swap.extra.zat, Spends)
    BY <2>1, <2>3, <2>4 DEF Amounts
  <2>6. QED
    BY <2>1, <2>2, <2>5, PageAndCoreAgreeOnAll, ExitAssumption
<1>2. QED
  BY <1>1, SendOnInvariant, PTL

\* Nothing is asked of the rail for a recipient who has not agreed, or whose addresses
\* the page has not seen to be good (solanaFlow.ts:8-16, 278-320), until an answer lands
\* on a page whose gates held when it asked and no longer do; from then on canGetDeposit,
\* which looks at the quote only, may reserve for it (GatesStopDeposit is refuted).
THEOREM ReservedAsVouched == Spec => []AskedAsVouched
<1>1. ASSUME IInv PROVE AskedAsVouched
  BY <1>1 DEF IInv, ExitInv, VouchedFor, AskedAsVouched
<1>2. QED
  BY <1>1, SendOnInvariant, PTL

\* But for the answers named below, no order of edits, verdicts and clicks takes a
\* destination past its gate: the tick of a transparent address, the box under the
\* words, and for a deposit the tick of the exit, the key typed back and a refund address
\* that works (SendOn.tsx:404-413, M7).  A plan that lands after its screen was left skips
\* them all, words that replace other words the second, and an answer to an exit whose
\* gates no longer hold the last.
THEOREM NoGateSkipped == Spec => []GatesPassed
<1>1. ASSUME IInv PROVE GatesPassed
  <2>1. SUFFICES ASSUME "plan" \notin strays, send = "sending"
                 PROVE  /\ choice = "paste" /\ KindOf(paid.to) = "transparent" => ticked = paid.to
                        /\ choice = "wallet" /\ "wallet" \notin strays
                             => wroteDown /\ ticked = paid.to
                        /\ choice = "solana" =>
                             /\ swap # NoPlan /\ paid.to = swap.main.addr
                             /\ "unvouched" \notin strays => swap.vouched
    BY DEF GatesPassed
  <2>2. ChoiceSound /\ SwapSound /\ PaidSound /\ PageTypes /\ WalletSound /\ DepositsSound
    BY <1>1, <2>1 DEF IInv, PageInv
  <2>3. Active.input = paid.to \/ (choice = "wallet" /\ "wallet" \in strays)
    BY <2>1, <2>2 DEF PaidSound
  <2>4. ASSUME choice = "paste", KindOf(paid.to) = "transparent"
        PROVE  ticked = paid.to
    <3>1. Active = dest /\ dest.kind \in Sendable
      BY <2>1, <2>2, <2>4 DEF ChoiceSound, Active
    <3>2. dest.kind = "transparent"
      BY <2>2, <2>3, <2>4, <3>1 DEF PageTypes, Sendable
    <3>3. QED
      BY <2>1, <2>2, <2>3, <2>4, <3>1, <3>2 DEF ChoiceSound
  <2>5. ASSUME choice = "wallet", "wallet" \notin strays
        PROVE  wroteDown /\ ticked = paid.to
    <3>1. Active = walletDest /\ wroteDown /\ ticked = wallet /\ walletDest # NoDest
      BY <2>1, <2>2, <2>5 DEF ChoiceSound, Active
    <3>2. walletDest = Described(wallet)
      BY <2>2, <2>5, <3>1 DEF WalletSound
    <3>3. QED
      BY <2>3, <2>5, <3>1, <3>2, Kinded
  <2>6. ASSUME choice = "solana"
        PROVE  /\ swap # NoPlan /\ paid.to = swap.main.addr
               /\ "unvouched" \notin strays => swap.vouched
    <3>1. swap # NoPlan /\ Active = dest
      BY <2>1, <2>2, <2>6 DEF ChoiceSound, Active
    <3>2. paid.to = swap.main.addr
      BY <2>2, <2>3, <2>6, <3>1, Kinded DEF SwapSound
    <3>3. QED
      BY <2>2, <3>1, <3>2 DEF DepositsSound, Checked
  <2>7. QED
    BY <2>4, <2>5, <2>6
<1>2. QED
  BY <1>1, SendOnInvariant, PTL
=============================================================================
