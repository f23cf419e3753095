------------------------------ MODULE SweepRace ------------------------------
(***************************************************************************)
(* One envelope link held by several tabs (devices), each running the open *)
(* page (web/src/pages/Open.tsx with lib/openFlow.ts) and the send-on flow *)
(* (web/src/components/SendOn.tsx with lib/sweepFlow.ts) over the gateways *)
(* of crates/core/src/gateway.rs.                                          *)
(*                                                                         *)
(* The answer of an open is View of EnvelopeChain, which BlockScan         *)
(* implements.  A sweep is one transaction that spends every note offered. *)
(* Nodes, gossip and mining are external.  Blocks are never taken back.    *)
(***************************************************************************)
EXTENDS EnvelopeChain, FiniteSets

CONSTANTS Tabs,         \* pages that hold the link
          Gateways,     \* the lightwalletd gateways, each with its own node
          Preferred,    \* the first gateway of the list (LIGHTWALLETD)
          PaidAt,       \* the height each note of the envelope is paid at
          Birthday,     \* the height in the link
          FirstHeight,  \* the height of the chain when the pages are opened
          ExpiryDelta,  \* blocks a transaction stays mineable after its tip
          MaxTries,     \* sweeps of one tab alive at once (bound)
          MaxFaults     \* faults of the network, the node or the tab (bound)

ASSUME RaceAssumption ==
  /\ Preferred \in Gateways
  /\ PaidAt \in [Notes -> Heights]
  /\ Birthday \in Heights /\ FirstHeight \in Heights
  /\ ExpiryDelta \in Nat \ {0}
  /\ MaxTries \in Nat \ {0} /\ MaxFaults \in Nat

VARIABLES height,    \* the highest block mined
          spends,    \* spends[n]: the height note n's nullifier was revealed at
          sweptBy,   \* sweptBy[n]: the transaction that revealed it
          tip,       \* tip[g]: the highest block gateway g serves
          mempool,   \* mempool[g]: transactions g's node has accepted
          asked,     \* SendTransaction requests on their way: <<tx, gateway>>
          reply,     \* reply[t]: the node's answer on its way to tab t
          page,      \* page[t]: the phase of openReducer
          attempt,   \* attempt[t]: 0, or 1 on the failover gateway alone
          walkTip,   \* walkTip[t]: the tip of the walk running or answered
          found,     \* found[t]: the last OpenResult
          send,      \* send[t]: the phase of sendReducer
          raced,     \* raced[t]: sendReducer's raced flag
          stage,     \* stage[t]: how far the sweep_envelope call has come
          sweep,     \* sweep[t]: the transaction of the last sweep
          faults

chainVars == <<height, spends, sweptBy>>
nodeVars  == <<tip, mempool>>
wireVars  == <<asked, reply>>
openVars  == <<page, attempt, walkTip, found>>
sendVars  == <<send, raced, stage, sweep>>
vars == <<chainVars, nodeVars, wireVars, openVars, sendVars, faults>>

NoTip   == MaxHeight + 1
NoSweep == [by |-> "nobody", spends |-> {}, expiry |-> 0, no |-> 0]
NoReply == "none"
Replies == {"ok", "raced", "refused"}

Sweeps == [by : Tabs, spends : SUBSET Notes,
           expiry : Nat, no : 1 .. MaxTries]

Pages  == {"sealed", "scanning", "verifying", "opened", "spent", "empty", "failed"}
Sends  == {"choose", "review", "sending", "sent", "failed"}
Stages == {"idle", "building", "asking", "answered", "unanswered"}

Fault == faults < MaxFaults /\ faults' = faults + 1

(***************************************************************************)
(* What nodes and miners hold against a transaction.                       *)
(***************************************************************************)
SpentBelow(h) == SpentIn(spends, 0 .. h)

Clash(x, y) == x.spends \cap y.spends # {}

\* An input is spent on the node's chain or by a transaction in its mempool.
InputsTaken(g, x) ==
  \/ x.spends \cap SpentBelow(tip[g]) # {}
  \/ \E y \in mempool[g] \ {x} : Clash(x, y)

Expired(x, h) == h + 1 > x.expiry

InMempool(x) == \E g \in Gateways : x \in mempool[g]

Mined(x) == \E n \in DOMAIN sweptBy : sweptBy[n] = x

Underway(x) == \E g \in Gateways : <<x, g>> \in asked

Alive(x) == InMempool(x) \/ Mined(x) \/ Underway(x) \/ \E t \in Tabs : sweep[t] = x

(***************************************************************************)
(* The open page.                                                          *)
(***************************************************************************)
WalkStart(h) == IF Birthday < h THEN Birthday ELSE h

\* A spent note is offered together with the rest.
AllNotes(v) == v.notes

Unspent(v) == v.notes \ v.spent

IsWalking(t) == page[t] \in {"scanning", "verifying"}

FreshSend(t) ==
  /\ send'  = [send EXCEPT ![t] = "choose"]
  /\ raced' = [raced EXCEPT ![t] = FALSE]
  /\ stage' = [stage EXCEPT ![t] = "idle"]
  /\ sweep' = [sweep EXCEPT ![t] = NoSweep]

BeginScan(t) ==
  /\ page' = [page EXCEPT ![t] = "scanning"]
  /\ attempt' = [attempt EXCEPT ![t] = 0]
  /\ walkTip' = [walkTip EXCEPT ![t] = NoTip]
  /\ found' = [found EXCEPT ![t] = NoAnswer]

OpenEnvelope(t) ==
  /\ page[t] = "sealed"
  /\ BeginScan(t)
  /\ UNCHANGED <<chainVars, nodeVars, wireVars, sendVars, faults>>

\* "Try again" on the failed screen only.
RetryFailed(t) ==
  /\ page[t] = "failed"
  /\ BeginScan(t)
  /\ UNCHANGED <<chainVars, nodeVars, wireVars, sendVars, faults>>

\* "Try again" on the empty and failed screens.
Retry(t) ==
  /\ page[t] \in {"empty", "failed"}
  /\ BeginScan(t)
  /\ UNCHANGED <<chainVars, nodeVars, wireVars, sendVars, faults>>

\* The gateway race of the first attempt may be won by any gateway; the second
\* attempt is pinned to the others.
GetTip(t) ==
  /\ IsWalking(t) /\ walkTip[t] = NoTip
  /\ \E g \in IF attempt[t] = 0 THEN Gateways ELSE Gateways \ {Preferred} :
       walkTip' = [walkTip EXCEPT ![t] = tip[g]]
  /\ UNCHANGED <<chainVars, nodeVars, wireVars, sendVars, page, attempt, found, faults>>

HoldsFirst(t) == PaidIn(PaidAt, {WalkStart(walkTip[t])}) # {}

\* The early note event is taken for the answer of the walk.
RevealEarlyOpened(t) ==
  /\ page[t] = "scanning" /\ walkTip[t] # NoTip
  /\ HoldsFirst(t)
  /\ page' = [page EXCEPT ![t] = "opened"]
  /\ found' = [found EXCEPT ![t] = EarlyView(PaidAt, spends, WalkStart(walkTip[t]))]
  /\ UNCHANGED <<chainVars, nodeVars, wireVars, sendVars, attempt, walkTip, faults>>

\* The early note event of the two-phase open.
RevealEarly(t) ==
  /\ page[t] = "scanning" /\ walkTip[t] # NoTip
  /\ HoldsFirst(t)
  /\ page' = [page EXCEPT ![t] = "verifying"]
  /\ UNCHANGED <<chainVars, nodeVars, wireVars, sendVars, attempt, walkTip, found, faults>>

\* A result with some note spent is taken for "already opened".
PageForAny(v) ==
  CASE v.notes = {} -> "empty"
    [] v.spent # {} -> "spent"
    [] OTHER        -> "opened"

\* The result event: nothing found, everything spent, or notes to send on.
PageFor(v) ==
  CASE v.notes = {}      -> "empty"
    [] v.notes = v.spent /\ v.notes # {} -> "spent"
    [] OTHER             -> "opened"

WalkDone(t) ==
  /\ IsWalking(t) /\ walkTip[t] # NoTip
  /\ HoldsFirst(t) => page[t] = "verifying"
  /\ LET v == View(PaidAt, spends, WalkStart(walkTip[t]), walkTip[t])
     IN  /\ found' = [found EXCEPT ![t] = v]
         /\ page' = [page EXCEPT ![t] = PageFor(v)]
  /\ UNCHANGED <<chainVars, nodeVars, wireVars, sendVars, attempt, walkTip, faults>>

\* The core throws: the failover gateway is tried, then the scan has failed.
WalkFails(t) ==
  /\ IsWalking(t) /\ Fault
  /\ IF attempt[t] = 0
       THEN attempt' = [attempt EXCEPT ![t] = 1] /\ UNCHANGED page
       ELSE page' = [page EXCEPT ![t] = "failed"] /\ UNCHANGED attempt
  /\ walkTip' = [walkTip EXCEPT ![t] = NoTip]
  /\ UNCHANGED <<chainVars, nodeVars, wireVars, sendVars, found>>

(***************************************************************************)
(* The send-on flow, mounted while the page is "opened".                   *)
(***************************************************************************)
Review(t) ==
  /\ page[t] = "opened" /\ send[t] = "choose"
  /\ send' = [send EXCEPT ![t] = "review"]
  /\ UNCHANGED <<chainVars, nodeVars, wireVars, openVars, raced, stage, sweep, faults>>

\* "Choose somewhere else", from the review or from a failed sweep that was
\* not a lost race.
ChooseAgain(t) ==
  /\ send[t] = "review" \/ (send[t] = "failed" /\ ~raced[t])
  /\ FreshSend(t)
  /\ UNCHANGED <<chainVars, nodeVars, wireVars, openVars, faults>>

\* "Send it on", or "Try again" on the failed screen of a sweep not raced.
Send(t) ==
  /\ send[t] = "review" \/ (send[t] = "failed" /\ ~raced[t])
  /\ send'  = [send EXCEPT ![t] = "sending"]
  /\ raced' = [raced EXCEPT ![t] = FALSE]
  /\ stage' = [stage EXCEPT ![t] = "building"]
  /\ sweep' = [sweep EXCEPT ![t] = NoSweep]
  /\ UNCHANGED <<chainVars, nodeVars, wireVars, openVars, faults>>

\* The race picks the gateway that leads; when nobody answers in time the
\* preferred one leads and the tip may come from any gateway behind it.
LeadAndTip ==
  { p \in Gateways \X Heights :
      \/ p[2] = tip[p[1]]
      \/ p[1] = Preferred /\ \E g \in Gateways : p[2] = tip[g] }

\* SendTransaction is the one call that is never offered to a second gateway.
SendToAll(lead) == Gateways
SendTo(lead) == {lead}

\* Witness, keys, proof, then SendTransaction to the leading gateway alone.
Broadcast(t) ==
  /\ send[t] = "sending" /\ stage[t] = "building"
  /\ \E lead \in LeadAndTip, k \in 1 .. MaxTries :
       LET x == [by |-> t, spends |-> Unspent(found[t]),
                 expiry |-> lead[2] + 1 + ExpiryDelta, no |-> k]
       IN  /\ ~Alive(x)
           /\ \A j \in 1 .. k - 1 : Alive([x EXCEPT !.no = j])
           /\ asked' = asked \cup ({x} \X SendTo(lead[1]))
           /\ sweep' = [sweep EXCEPT ![t] = x]
  /\ stage' = [stage EXCEPT ![t] = "asking"]
  /\ UNCHANGED <<chainVars, nodeVars, reply, openVars, send, raced, faults>>

\* The call fails before anything was sent.
BuildFails(t) ==
  /\ send[t] = "sending" /\ stage[t] = "building" /\ Fault
  /\ send' = [send EXCEPT ![t] = "failed"]
  /\ stage' = [stage EXCEPT ![t] = "answered"]
  /\ UNCHANGED <<chainVars, nodeVars, wireVars, openVars, raced, sweep>>

\* The verdict in the answer is not looked at.
AnsweredAnyhow(t) ==
  /\ stage[t] = "asking" /\ reply[t] # NoReply
  /\ stage' = [stage EXCEPT ![t] = "answered"]
  /\ send'  = [send EXCEPT ![t] = "sent"]
  /\ reply' = [reply EXCEPT ![t] = NoReply]
  /\ UNCHANGED <<chainVars, nodeVars, asked, openVars, raced, sweep, faults>>

\* A refusal is a phase of its own, which no screen knows.
AnsweredRaw(t) ==
  /\ stage[t] = "asking" /\ reply[t] # NoReply
  /\ stage' = [stage EXCEPT ![t] = "answered"]
  /\ send'  = [send EXCEPT ![t] = IF reply[t] = "ok" THEN "sent" ELSE reply[t]]
  /\ raced' = [raced EXCEPT ![t] = reply[t] = "raced"]
  /\ reply' = [reply EXCEPT ![t] = NoReply]
  /\ UNCHANGED <<chainVars, nodeVars, asked, openVars, sweep, faults>>

\* The answer arrives: error_code 0 is a success; -25 is a lost race.
Answered(t) ==
  /\ stage[t] = "asking" /\ reply[t] # NoReply
  /\ stage' = [stage EXCEPT ![t] = "answered"]
  /\ send'  = [send EXCEPT ![t] = IF reply[t] = "ok" THEN "sent" ELSE "failed"]
  /\ raced' = [raced EXCEPT ![t] = reply[t] = "raced"]
  /\ reply' = [reply EXCEPT ![t] = NoReply]
  /\ UNCHANGED <<chainVars, nodeVars, asked, openVars, sweep, faults>>

\* No headers within CALL_HEADER_TIMEOUT_MS, a broken connection or a dead
\* worker: the call fails, whatever the node makes of the request.
Unanswered(t) ==
  /\ stage[t] = "asking" /\ Fault
  /\ stage' = [stage EXCEPT ![t] = "unanswered"]
  /\ send'  = [send EXCEPT ![t] = "failed"]
  /\ raced' = [raced EXCEPT ![t] = FALSE]
  /\ reply' = [reply EXCEPT ![t] = NoReply]
  /\ UNCHANGED <<chainVars, nodeVars, asked, openVars, sweep>>

\* "Check the envelope", the one way on from a lost race.
Recheck(t) ==
  /\ page[t] = "opened" /\ send[t] = "failed" /\ raced[t]
  /\ BeginScan(t)
  /\ FreshSend(t)
  /\ UNCHANGED <<chainVars, nodeVars, wireVars, faults>>

\* The page is closed or reloaded, and the link opened again from the message.
Reload(t) ==
  /\ page[t] # "sealed" /\ Fault
  /\ page' = [page EXCEPT ![t] = "sealed"]
  /\ attempt' = [attempt EXCEPT ![t] = 0]
  /\ walkTip' = [walkTip EXCEPT ![t] = NoTip]
  /\ found' = [found EXCEPT ![t] = NoAnswer]
  /\ FreshSend(t)
  /\ reply' = [reply EXCEPT ![t] = NoReply]
  /\ UNCHANGED <<chainVars, nodeVars, asked>>

(***************************************************************************)
(* Nodes, gossip and miners (external).                                    *)
(***************************************************************************)
Verdict(g, x) ==
  CASE Expired(x, tip[g]) -> "refused"
    [] ~Expired(x, tip[g]) /\ InputsTaken(g, x) -> "raced"
    [] OTHER -> "ok"

Listening(x) == { t \in Tabs : stage[t] = "asking" /\ sweep[t] = x }

Replied(x, v) == [t \in Tabs |-> IF t \in Listening(x) THEN v ELSE reply[t]]

\* A node takes a request off the wire and judges it.
Judge(x, g) ==
  /\ asked' = asked \ {<<x, g>>}
  /\ reply' = Replied(x, Verdict(g, x))
  /\ mempool' = IF Verdict(g, x) = "ok"
                  THEN [mempool EXCEPT ![g] = @ \cup {x}] ELSE mempool
  /\ UNCHANGED <<chainVars, tip, openVars, sendVars, faults>>

\* A node refuses for reasons of its own.
Refuse(x, g) ==
  /\ Fault
  /\ asked' = asked \ {<<x, g>>}
  /\ reply' = Replied(x, "refused")
  /\ UNCHANGED <<chainVars, nodeVars, openVars, sendVars>>

\* A request is lost once nobody waits for its answer.
Lose(x, g) ==
  /\ Listening(x) = {}
  /\ asked' = asked \ {<<x, g>>}
  /\ UNCHANGED <<chainVars, nodeVars, reply, openVars, sendVars, faults>>

Gossip(g, h) ==
  /\ \E x \in mempool[g] \ mempool[h] :
       /\ Verdict(h, x) = "ok"
       /\ mempool' = [mempool EXCEPT ![h] = @ \cup {x}]
  /\ UNCHANGED <<chainVars, tip, wireVars, openVars, sendVars, faults>>

\* A gateway follows the chain and forgets what can no longer be mined.
CatchUp(g) ==
  /\ tip[g] < height
  /\ tip' = [tip EXCEPT ![g] = @ + 1]
  /\ mempool' = [mempool EXCEPT ![g] =
       { x \in @ : ~Expired(x, tip[g] + 1) /\ x.spends \cap SpentBelow(tip[g] + 1) = {} }]
  /\ UNCHANGED <<chainVars, wireVars, openVars, sendVars, faults>>

Mineable ==
  { x \in UNION { mempool[g] : g \in Gateways } :
      ~Expired(x, height) /\ x.spends \cap DOMAIN spends = {} }

SweepOf(B, n) == CHOOSE x \in B : n \in x.spends

Mine(B) ==
  LET gone == UNION { x.spends : x \in B }
  IN  /\ height < MaxHeight
      /\ height' = height + 1
      /\ spends' = [n \in DOMAIN spends \cup gone |->
                      IF n \in gone THEN height + 1 ELSE spends[n]]
      /\ sweptBy' = [n \in DOMAIN spends \cup gone |->
                      IF n \in gone THEN SweepOf(B, n) ELSE sweptBy[n]]
      /\ UNCHANGED <<nodeVars, wireVars, openVars, sendVars, faults>>

\* A block with sweeps in it, no two of which clash.
MineSweeps ==
  \E B \in SUBSET Mineable \ {{}} :
    (\A x, y \in B : x # y => ~Clash(x, y)) /\ Mine(B)

\* A block without one; it leaves a height for every note still unspent (bound).
MineEmpty ==
  /\ height + Cardinality(Notes \ DOMAIN spends) < MaxHeight
  /\ Mine({})

(***************************************************************************)
(* The specification.                                                      *)
(***************************************************************************)
Init ==
  /\ height = FirstHeight
  /\ spends = <<>> /\ sweptBy = <<>>
  /\ tip \in [Gateways -> 0 .. FirstHeight]
  /\ mempool = [g \in Gateways |-> {}]
  /\ asked = {} /\ reply = [t \in Tabs |-> NoReply]
  /\ page = [t \in Tabs |-> "sealed"]
  /\ attempt = [t \in Tabs |-> 0]
  /\ walkTip = [t \in Tabs |-> NoTip]
  /\ found = [t \in Tabs |-> NoAnswer]
  /\ send = [t \in Tabs |-> "choose"]
  /\ raced = [t \in Tabs |-> FALSE]
  /\ stage = [t \in Tabs |-> "idle"]
  /\ sweep = [t \in Tabs |-> NoSweep]
  /\ faults = 0

Open(t) ==
  OpenEnvelope(t) \/ Retry(t) \/ GetTip(t) \/ RevealEarly(t) \/ WalkDone(t) \/ WalkFails(t)

SendOn(t) ==
  \/ Review(t) \/ ChooseAgain(t) \/ Send(t) \/ Broadcast(t) \/ BuildFails(t)
  \/ Answered(t) \/ Unanswered(t) \/ Recheck(t)

Network ==
  \/ \E r \in asked : Judge(r[1], r[2]) \/ Refuse(r[1], r[2]) \/ Lose(r[1], r[2])
  \/ \E g, h \in Gateways : Gossip(g, h)
  \/ \E g \in Gateways : CatchUp(g)
  \/ MineSweeps \/ MineEmpty

Next == (\E t \in Tabs : Open(t) \/ SendOn(t) \/ Reload(t)) \/ Network

Spec == Init /\ [][Next]_vars

\* Nobody stops half way: a page that is open is read and its button pressed,
\* a call that runs ends, a node answers, follows the chain and mines.  Going
\* back and forth between the review and the destinations does not go on for
\* ever without the send button being pressed (SF).  Faults are not fair.
Patience(t) ==
  /\ WF_vars(OpenEnvelope(t)) /\ WF_vars(Retry(t)) /\ WF_vars(GetTip(t))
  /\ WF_vars(RevealEarly(t)) /\ WF_vars(WalkDone(t))
  /\ WF_vars(Review(t)) /\ SF_vars(Send(t)) /\ WF_vars(Broadcast(t))
  /\ WF_vars(Answered(t)) /\ WF_vars(Recheck(t))

Service ==
  /\ WF_vars(\E r \in asked : Judge(r[1], r[2]))
  /\ \A g \in Gateways : WF_vars(CatchUp(g))
  /\ WF_vars(MineSweeps)

FairSpec == Spec /\ (\A t \in Tabs : Patience(t)) /\ Service

(***************************************************************************)
(* Properties.                                                             *)
(***************************************************************************)
\* Types of every variable.
TypeOK ==
  /\ height \in Heights
  /\ DOMAIN spends \subseteq Notes
  /\ spends \in [DOMAIN spends -> Heights] /\ sweptBy \in [DOMAIN spends -> Sweeps]
  /\ tip \in [Gateways -> Heights]
  /\ mempool \in [Gateways -> SUBSET Sweeps]
  /\ asked \in SUBSET (Sweeps \X Gateways)
  /\ reply \in [Tabs -> Replies \cup {NoReply}]
  /\ page \in [Tabs -> Pages]
  /\ attempt \in [Tabs -> {0, 1}]
  /\ walkTip \in [Tabs -> Heights \cup {NoTip}]
  /\ found \in [Tabs -> [notes : SUBSET Notes, spent : SUBSET Notes]]
  /\ send \in [Tabs -> Sends]
  /\ raced \in [Tabs -> BOOLEAN]
  /\ stage \in [Tabs -> Stages]
  /\ sweep \in [Tabs -> Sweeps \cup {NoSweep}]
  /\ faults \in 0 .. MaxFaults

\* What a screen says was true at the tip of its walk and, where the chain only
\* grows, still is: the notes offered were not spent at or below that tip, and
\* an envelope called already opened holds none of the notes it names.
ScreenMatchesChain ==
  \A t \in Tabs :
    /\ page[t] = "opened" =>
         /\ Unspent(found[t]) # {}
         /\ \A n \in Unspent(found[t]) \cap DOMAIN spends : spends[n] > walkTip[t]
    /\ page[t] = "spent" => found[t].notes # {} /\ found[t].notes \subseteq DOMAIN spends

\* A sweep that no node holds, no block has and no request carries.
Nowhere(x) == ~InMempool(x) /\ ~Mined(x) /\ ~Underway(x)

\* A sweep that is waiting, or mined, or too late, or outrun.
Stands(x) ==
  \/ InMempool(x) \/ Mined(x)
  \/ \E g \in Gateways : Expired(x, tip[g])
  \/ x.spends \cap DOMAIN spends # {}

\* "Sent." is true of the sweep it shows: a node took it, and it is waiting, or
\* mined, or too late, or outrun by another sweep of the same notes (Answered).
SentStands == \A t \in Tabs : send[t] = "sent" => Stands(sweep[t])

\* A failed screen after an answered call is honest: no node holds the sweep it
\* is about, none is going to get it, and no block has it (gateway.rs sends it
\* to one gateway only, sweep.rs reports that node's verdict).
FailedIsHonest ==
  \A t \in Tabs : send[t] = "failed" /\ stage[t] = "answered" => Nowhere(sweep[t])

\* What the two rest on: a request is delivered at most once, to one gateway,
\* and an answer on its way to a tab tells the truth about the tab's sweep.
CallInv ==
  /\ \A r \in asked : ~InMempool(r[1]) /\ ~Mined(r[1])
  /\ \A r, q \in asked : r[1] = q[1] => r[2] = q[2]
  /\ \A t \in Tabs :
       /\ stage[t] = "asking" => send[t] = "sending"
       /\ stage[t] = "building" => sweep[t] = NoSweep
       /\ reply[t] # NoReply => stage[t] = "asking"
       /\ reply[t] = "ok" => Stands(sweep[t])
       /\ reply[t] \in {"raced", "refused"} => Nowhere(sweep[t])

\* No screen is a dead end: every tab that is kept going ends on "Sent" or on
\* "already opened", whoever wins and whatever is lost on the way.
EveryTabSettles ==
  \A t \in Tabs : <>[](page[t] = "spent" \/ send[t] = "sent")

\* The money moves: if sweeps are mined before they expire, some sweep of every
\* note of the envelope is.
EnvelopeEmptied == <>(Notes \subseteq DOMAIN spends)

\* FUNDS_SAFE_COPY (sweepFlow.ts) on the failed screen: "The funds are still in
\* the envelope. Nothing moved, and this link still works."
FundsStillThere ==
  \A t \in Tabs : send[t] = "failed" /\ ~raced[t] =>
    ~InMempool(sweep[t]) /\ ~Mined(sweep[t])

\* RACE_LOST_COPY (sweepFlow.ts): "Someone opened this envelope moments ago on
\* another device. Nothing was sent from here."
NothingSentFromHere ==
  \A t \in Tabs : raced[t] =>
    /\ \A g \in Gateways : \A x \in mempool[g] : x.by # t
    /\ \A n \in DOMAIN sweptBy : sweptBy[n].by # t

=============================================================================
