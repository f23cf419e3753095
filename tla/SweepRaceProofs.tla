--------------------------- MODULE SweepRaceProofs ---------------------------
(***************************************************************************)
(* For any number of tabs, gateways, notes and faults: what the "Sent" and *)
(* the failed screens say of an answered broadcast is true.                *)
(***************************************************************************)
EXTENDS SweepRace, TLAPS

\* The answer of an open is a pair of sets of notes.
LEMMA ViewType ==
  ASSUME NEW ss, NEW a \in Heights, NEW b \in Heights
  PROVE  View(PaidAt, ss, a, b) \in [notes : SUBSET Notes, spent : SUBSET Notes]
<1>1. Wanted(PaidAt, a, b) \subseteq Notes
  BY RaceAssumption DEF Wanted, PaidIn
<1> QED
  BY <1>1 DEF View

\* Every state the pages start in is well typed.
LEMMA InitType == Init => TypeOK
<1> SUFFICES ASSUME Init PROVE TypeOK
  OBVIOUS
<1>1. 0 .. FirstHeight \subseteq Heights
  BY RaceAssumption, HeightAssumption DEF Heights
<1>2. tip \in [Gateways -> Heights]
  BY <1>1 DEF Init
<1>3. spends = <<>> /\ sweptBy = <<>> /\ DOMAIN spends = {} /\ DOMAIN sweptBy = {}
  BY DEF Init
<1>4. spends \in [DOMAIN spends -> Heights] /\ sweptBy \in [DOMAIN spends -> Sweeps]
  BY <1>3
<1>5. faults \in 0 .. MaxFaults
  BY RaceAssumption DEF Init
<1> QED
  BY <1>2, <1>3, <1>4, <1>5, RaceAssumption
     DEF Init, TypeOK, NoReply, Pages, Sends, Stages, NoAnswer

\* A step of an open page keeps the types.
LEMMA OpenType ==
  ASSUME TypeOK, NEW t \in Tabs, Open(t)
  PROVE  TypeOK'
<1> USE DEF TypeOK, chainVars, nodeVars, wireVars, sendVars
<1>1. CASE OpenEnvelope(t)
  BY <1>1 DEF OpenEnvelope, BeginScan, Pages, NoAnswer
<1>2. CASE Retry(t)
  BY <1>2 DEF Retry, BeginScan, Pages, NoAnswer
<1>3. CASE GetTip(t)
  BY <1>3 DEF GetTip
<1>4. CASE RevealEarly(t)
  BY <1>4 DEF RevealEarly, Pages
<1>5. CASE WalkDone(t)
  <2> DEFINE v == View(PaidAt, spends, WalkStart(walkTip[t]), walkTip[t])
  <2>1. walkTip[t] \in Heights
    BY <1>5 DEF WalkDone
  <2>2. WalkStart(walkTip[t]) \in Heights
    BY <2>1, RaceAssumption DEF WalkStart
  <2>3. v \in [notes : SUBSET Notes, spent : SUBSET Notes]
    BY <2>1, <2>2, ViewType
  <2>4. PageFor(v) \in Pages
    BY DEF PageFor, Pages
  <2> HIDE DEF v
  <2> QED
    BY <1>5, <2>3, <2>4 DEF WalkDone, v
<1>6. CASE WalkFails(t)
  <2>1. faults' \in 0 .. MaxFaults
    BY <1>6, RaceAssumption DEF WalkFails, Fault
  <2>2. CASE attempt[t] = 0
    BY <1>6, <2>1, <2>2 DEF WalkFails
  <2>3. CASE attempt[t] # 0
    BY <1>6, <2>1, <2>3 DEF WalkFails, Pages
  <2> QED
    BY <2>2, <2>3
<1> QED
  BY <1>1, <1>2, <1>3, <1>4, <1>5, <1>6 DEF Open

\* A step of the send-on flow keeps the types.
LEMMA SendType ==
  ASSUME TypeOK, NEW t \in Tabs, SendOn(t)
  PROVE  TypeOK'
<1> USE DEF TypeOK, chainVars, nodeVars, wireVars, openVars
<1>1. CASE Review(t)
  BY <1>1 DEF Review, Sends
<1>2. CASE ChooseAgain(t)
  BY <1>2 DEF ChooseAgain, FreshSend, Sends, Stages
<1>3. CASE Send(t)
  BY <1>3 DEF Send, Sends, Stages
<1>4. CASE Broadcast(t)
  <2>1. PICK lead \in LeadAndTip, k \in 1 .. MaxTries :
          LET x == [by |-> t, spends |-> Unspent(found[t]),
                    expiry |-> lead[2] + 1 + ExpiryDelta, no |-> k]
          IN  /\ asked' = asked \cup ({x} \X SendTo(lead[1]))
              /\ sweep' = [sweep EXCEPT ![t] = x]
    BY <1>4 DEF Broadcast
  <2> DEFINE x == [by |-> t, spends |-> Unspent(found[t]),
                   expiry |-> lead[2] + 1 + ExpiryDelta, no |-> k]
  <2>2. lead[1] \in Gateways /\ lead[2] \in Nat
    BY HeightAssumption DEF LeadAndTip, Heights
  <2>3. lead[2] + 1 + ExpiryDelta \in Nat
    BY <2>2, RaceAssumption
  <2>4. Unspent(found[t]) \in SUBSET Notes
    BY DEF Unspent
  <2>5. x \in Sweeps
    BY <2>3, <2>4 DEF Sweeps
  <2>6. ({x} \X SendTo(lead[1])) \subseteq Sweeps \X Gateways
    BY <2>2, <2>5 DEF SendTo
  <2>7. asked' = asked \cup ({x} \X SendTo(lead[1])) /\ sweep' = [sweep EXCEPT ![t] = x]
    BY <2>1
  <2> HIDE DEF x
  <2> QED
    BY <1>4, <2>5, <2>6, <2>7 DEF Broadcast, Stages
<1>5. CASE BuildFails(t)
  BY <1>5, RaceAssumption DEF BuildFails, Fault, Sends, Stages
<1>6. CASE Answered(t)
  BY <1>6 DEF Answered, Sends, Stages, NoReply
<1>7. CASE Unanswered(t)
  BY <1>7, RaceAssumption DEF Unanswered, Fault, Sends, Stages, NoReply
<1>8. CASE Recheck(t)
  BY <1>8 DEF Recheck, BeginScan, FreshSend, Sends, Stages, Pages, NoAnswer
<1> QED
  BY <1>1, <1>2, <1>3, <1>4, <1>5, <1>6, <1>7, <1>8 DEF SendOn

\* A verdict reaches the tabs that wait for it and nobody else.
LEMMA RepliedType ==
  ASSUME TypeOK, NEW x, NEW v \in Replies
  PROVE  Replied(x, v) \in [Tabs -> Replies \cup {NoReply}]
BY DEF TypeOK, Replied

\* Mining keeps the chain well typed, and clears no spend.
LEMMA MineType ==
  ASSUME TypeOK, NEW B \in SUBSET Mineable, Mine(B)
  PROVE  /\ TypeOK'
         /\ DOMAIN spends \subseteq DOMAIN spends'
         /\ \A n \in DOMAIN sweptBy : n \in DOMAIN sweptBy' /\ sweptBy'[n] = sweptBy[n]
         /\ \A n \in DOMAIN sweptBy' :
              \/ n \in DOMAIN sweptBy /\ sweptBy'[n] = sweptBy[n]
              \/ InMempool(sweptBy'[n]) /\ n \in sweptBy'[n].spends
<1> DEFINE gone == UNION { x.spends : x \in B }
<1>1. \A x \in Mineable : x \in Sweeps /\ InMempool(x) /\ x.spends \cap DOMAIN spends = {}
  BY DEF Mineable, InMempool, TypeOK
<1>2. gone \subseteq Notes /\ gone \cap DOMAIN spends = {}
  BY <1>1 DEF Sweeps
<1>3. \A n \in gone : SweepOf(B, n) \in B /\ n \in SweepOf(B, n).spends
  BY DEF SweepOf
<1>4. height' \in Heights
  BY HeightAssumption DEF Mine, TypeOK, Heights
<1>5. /\ spends' = [n \in DOMAIN spends \cup gone |->
                      IF n \in gone THEN height + 1 ELSE spends[n]]
      /\ sweptBy' = [n \in DOMAIN spends \cup gone |->
                      IF n \in gone THEN SweepOf(B, n) ELSE sweptBy[n]]
      /\ height' = height + 1
      /\ UNCHANGED <<nodeVars, wireVars, openVars, sendVars, faults>>
  BY DEF Mine
<1>6. DOMAIN sweptBy = DOMAIN spends
  BY DEF TypeOK
<1> HIDE DEF gone
<1>7. DOMAIN spends' = DOMAIN spends \cup gone /\ DOMAIN sweptBy' = DOMAIN spends \cup gone
  BY <1>5
<1>8. spends' \in [DOMAIN spends' -> Heights]
  BY <1>4, <1>5, <1>7 DEF TypeOK
<1>9. sweptBy' \in [DOMAIN spends' -> Sweeps]
  BY <1>1, <1>3, <1>5, <1>6, <1>7 DEF TypeOK
<1>10. TypeOK'
  BY <1>2, <1>4, <1>5, <1>7, <1>8, <1>9
     DEF TypeOK, nodeVars, wireVars, openVars, sendVars
<1> QED
  BY <1>1, <1>2, <1>3, <1>5, <1>6, <1>7, <1>10

\* A step of a node, of the wire or of a miner keeps the types.
LEMMA NetworkType ==
  ASSUME TypeOK, Network
  PROVE  TypeOK'
<1>1. ASSUME NEW r \in asked, Judge(r[1], r[2]) PROVE TypeOK'
  <2>1. r[1] \in Sweeps /\ r[2] \in Gateways
    BY DEF TypeOK
  <2>2. Verdict(r[2], r[1]) \in Replies
    BY DEF Verdict, Replies
  <2>3. reply' \in [Tabs -> Replies \cup {NoReply}]
    BY <1>1, <2>2, RepliedType DEF Judge
  <2>4. mempool' \in [Gateways -> SUBSET Sweeps]
    BY <1>1, <2>1 DEF Judge, TypeOK
  <2> QED
    BY <1>1, <2>3, <2>4 DEF Judge, TypeOK, chainVars, openVars, sendVars
<1>2. ASSUME NEW r \in asked, Refuse(r[1], r[2]) PROVE TypeOK'
  <2>1. reply' \in [Tabs -> Replies \cup {NoReply}]
    BY <1>2, RepliedType DEF Refuse, Replies
  <2> QED
    BY <1>2, <2>1, RaceAssumption
       DEF Refuse, Fault, TypeOK, chainVars, nodeVars, openVars, sendVars
<1>3. ASSUME NEW r \in asked, Lose(r[1], r[2]) PROVE TypeOK'
  BY <1>3 DEF Lose, TypeOK, chainVars, nodeVars, openVars, sendVars
<1>4. ASSUME NEW g \in Gateways, NEW h \in Gateways, Gossip(g, h) PROVE TypeOK'
  BY <1>4 DEF Gossip, TypeOK, chainVars, wireVars, openVars, sendVars
<1>5. ASSUME NEW g \in Gateways, CatchUp(g) PROVE TypeOK'
  <2>1. tip' \in [Gateways -> Heights]
    BY <1>5, HeightAssumption DEF CatchUp, TypeOK, Heights
  <2>2. mempool' \in [Gateways -> SUBSET Sweeps]
    BY <1>5 DEF CatchUp, TypeOK
  <2> QED
    BY <1>5, <2>1, <2>2 DEF CatchUp, TypeOK, chainVars, wireVars, openVars, sendVars
<1>6. CASE MineSweeps
  BY <1>6, MineType DEF MineSweeps
<1>7. CASE MineEmpty
  BY <1>7, MineType DEF MineEmpty
<1> QED
  BY <1>1, <1>2, <1>3, <1>4, <1>5, <1>6, <1>7 DEF Network

\* Every step keeps the types.
LEMMA StepType == TypeOK /\ [Next]_vars => TypeOK'
<1> SUFFICES ASSUME TypeOK, [Next]_vars PROVE TypeOK'
  OBVIOUS
<1>1. ASSUME NEW t \in Tabs, Reload(t) PROVE TypeOK'
  BY <1>1, RaceAssumption
     DEF Reload, Fault, FreshSend, TypeOK, chainVars, nodeVars, Pages, Sends, Stages,
         NoAnswer, NoReply
<1>2. CASE UNCHANGED vars
  BY <1>2 DEF vars, chainVars, nodeVars, wireVars, openVars, sendVars, TypeOK
<1> QED
  BY <1>1, <1>2, OpenType, SendType, NetworkType DEF Next

\* Whatever the tabs, gateways, notes and faults, every variable keeps its type.
THEOREM RaceTypes == Spec => []TypeOK
BY InitType, StepType, PTL DEF Spec

(***************************************************************************)
(* What the screens say.                                                   *)
(***************************************************************************)

\* The inductive invariant.
IInv == TypeOK /\ CallInv /\ SentStands /\ FailedIsHonest

\* While chain and nodes rest, every sweep stays where it is.
LEMMA RestKeepsSweeps ==
  ASSUME UNCHANGED <<chainVars, nodeVars>>, NEW y
  PROVE  /\ InMempool(y)' <=> InMempool(y)
         /\ Mined(y)' <=> Mined(y)
         /\ Stands(y) => Stands(y)'
BY DEF chainVars, nodeVars, InMempool, Mined, Stands, Expired

\* The absence of a sweep is not a sweep, so it is nowhere.
LEMMA NoSweepNowhere == TypeOK => Nowhere(NoSweep)
<1>1. NoSweep \notin Sweeps
  BY RaceAssumption DEF NoSweep, Sweeps
<1> QED
  BY <1>1 DEF TypeOK, Nowhere, InMempool, Mined, Underway

\* Pages that rest: a step that touches neither wire, chain, nodes nor any
\* send-on flow keeps the invariant.
LEMMA OpenKeeps ==
  ASSUME IInv, NEW t \in Tabs, Open(t)
  PROVE  IInv'
<1>1. UNCHANGED <<chainVars, nodeVars, wireVars, sendVars>>
  BY DEF Open, OpenEnvelope, Retry, GetTip, RevealEarly, WalkDone, WalkFails
<1>2. \A y : /\ InMempool(y)' <=> InMempool(y)
             /\ Mined(y)' <=> Mined(y)
             /\ Stands(y) => Stands(y)'
             /\ Underway(y)' <=> Underway(y)
  BY <1>1, RestKeepsSweeps DEF wireVars, Underway
<1>3. TypeOK'
  BY OpenType DEF IInv
<1>4. CallInv'
  BY <1>1, <1>2 DEF IInv, CallInv, Nowhere, wireVars, sendVars
<1> QED
  BY <1>1, <1>2, <1>3, <1>4 DEF IInv, SentStands, FailedIsHonest, Nowhere, wireVars, sendVars

\* A step of one tab's send-on flow, or of its page being reloaded, that does
\* not broadcast: the wire carries no more than before, the tab's answer is
\* consumed, and what the tab then shows of its sweep is true.
LEMMA TabKeeps ==
  ASSUME IInv, TypeOK', NEW t \in Tabs,
         UNCHANGED <<chainVars, nodeVars, asked>>,
         reply' = [reply EXCEPT ![t] = NoReply] \/ (UNCHANGED reply /\ reply[t] = NoReply),
         \A u \in Tabs \ {t} : /\ send'[u] = send[u] /\ stage'[u] = stage[u]
                               /\ sweep'[u] = sweep[u],
         stage'[t] # "asking",
         stage'[t] = "building" => sweep'[t] = NoSweep,
         send'[t] = "sent" => Stands(sweep'[t]),
         send'[t] = "failed" /\ stage'[t] = "answered" => Nowhere(sweep'[t])
  PROVE  IInv'
<1>1. \A y : /\ InMempool(y)' <=> InMempool(y)
             /\ Mined(y)' <=> Mined(y)
             /\ Stands(y) => Stands(y)'
             /\ Underway(y)' <=> Underway(y)
  BY RestKeepsSweeps DEF Underway
<1>2. reply'[t] = NoReply /\ \A u \in Tabs \ {t} : reply'[u] = reply[u]
  BY DEF IInv, TypeOK
<1>3. NoReply # "ok" /\ NoReply \notin {"raced", "refused"}
  BY DEF NoReply
<1>4. CallInv'
  <2>1. /\ \A r \in asked' : ~InMempool(r[1])' /\ ~Mined(r[1])'
        /\ \A r, q \in asked' : r[1] = q[1] => r[2] = q[2]
    BY <1>1 DEF IInv, CallInv
  <2>2. ASSUME NEW u \in Tabs
        PROVE  /\ stage'[u] = "asking" => send'[u] = "sending"
               /\ stage'[u] = "building" => sweep'[u] = NoSweep
               /\ reply'[u] # NoReply => stage'[u] = "asking"
               /\ reply'[u] = "ok" => Stands(sweep[u])'
               /\ reply'[u] \in {"raced", "refused"} => Nowhere(sweep[u])'
    <3>1. CASE u = t
      BY <1>2, <1>3, <3>1
    <3>2. CASE u # t
      <4>1. /\ stage'[u] = stage[u] /\ send'[u] = send[u]
            /\ sweep'[u] = sweep[u] /\ reply'[u] = reply[u]
        BY <1>2, <3>2
      <4>2. reply'[u] = "ok" => Stands(sweep[u])'
        <5>1. reply[u] = "ok" => Stands(sweep[u])
          BY DEF IInv, CallInv
        <5>2. /\ mempool' = mempool /\ sweptBy' = sweptBy /\ tip' = tip
              /\ spends' = spends
          BY DEF chainVars, nodeVars
        <5> QED
          BY <4>1, <5>1, <5>2 DEF Stands, InMempool, Mined, Expired
      <4>3. reply'[u] \in {"raced", "refused"} => Nowhere(sweep[u])'
        BY <4>1 DEF IInv, CallInv, Nowhere, InMempool, Mined, Underway, chainVars, nodeVars
      <4> QED
        BY <4>1, <4>2, <4>3 DEF IInv, CallInv
    <3> QED
      BY <3>1, <3>2
  <2> QED
    BY <2>1, <2>2 DEF CallInv
<1>5. SentStands'
  BY <1>1 DEF IInv, SentStands
<1>6. FailedIsHonest'
  BY <1>1 DEF IInv, FailedIsHonest, Nowhere
<1> QED
  BY <1>4, <1>5, <1>6 DEF IInv

\* A fresh sweep goes out to one gateway and is nowhere else.
LEMMA BroadcastKeeps ==
  ASSUME IInv, NEW t \in Tabs, Broadcast(t), TypeOK'
  PROVE  IInv'
<1>1. PICK lead \in LeadAndTip, k \in 1 .. MaxTries :
        LET x == [by |-> t, spends |-> Unspent(found[t]),
                  expiry |-> lead[2] + 1 + ExpiryDelta, no |-> k]
        IN  /\ ~Alive(x)
            /\ asked' = asked \cup ({x} \X SendTo(lead[1]))
            /\ sweep' = [sweep EXCEPT ![t] = x]
  BY DEF Broadcast
<1> DEFINE x == [by |-> t, spends |-> Unspent(found[t]),
                 expiry |-> lead[2] + 1 + ExpiryDelta, no |-> k]
<1>2. /\ ~Alive(x)
      /\ asked' = asked \cup {<<x, lead[1]>>}
      /\ sweep' = [sweep EXCEPT ![t] = x]
  BY <1>1 DEF SendTo
<1> HIDE DEF x
<1>3. /\ mempool' = mempool /\ sweptBy' = sweptBy /\ tip' = tip /\ spends' = spends
      /\ reply' = reply /\ send' = send
      /\ stage' = [stage EXCEPT ![t] = "asking"]
      /\ send[t] = "sending" /\ stage[t] = "building"
  BY DEF Broadcast, chainVars, nodeVars
<1>4. /\ \A u \in Tabs \ {t} : sweep'[u] = sweep[u] /\ stage'[u] = stage[u]
      /\ stage'[t] = "asking" /\ sweep'[t] = x
  BY <1>2, <1>3 DEF IInv, TypeOK
<1>5. reply[t] = NoReply
  BY <1>3 DEF IInv, CallInv
<1>6. \A u \in Tabs : sweep[u] # x
  BY <1>2 DEF Alive
<1>7. ~InMempool(x) /\ ~Mined(x) /\ ~Underway(x)
  BY <1>2 DEF Alive
<1>8. \A r \in asked : r[1] # x
  <2>1. \A r \in asked : r = <<r[1], r[2]>> /\ r[2] \in Gateways
    BY DEF IInv, TypeOK
  <2> QED
    BY <1>7, <2>1 DEF Underway
<1>9. ASSUME NEW y, y # x, Nowhere(y) PROVE Nowhere(y)'
  BY <1>2, <1>3, <1>9 DEF Nowhere, InMempool, Mined, Underway
<1>10. CallInv'
  <2>1. \A r \in asked' : ~InMempool(r[1])' /\ ~Mined(r[1])'
    BY <1>2, <1>3, <1>7 DEF IInv, CallInv, InMempool, Mined
  <2>2. \A r, q \in asked' : r[1] = q[1] => r[2] = q[2]
    BY <1>2, <1>8 DEF IInv, CallInv
  <2>3. ASSUME NEW u \in Tabs
        PROVE  /\ stage'[u] = "asking" => send'[u] = "sending"
               /\ stage'[u] = "building" => sweep'[u] = NoSweep
               /\ reply'[u] # NoReply => stage'[u] = "asking"
               /\ reply'[u] = "ok" => Stands(sweep[u])'
               /\ reply'[u] \in {"raced", "refused"} => Nowhere(sweep[u])'
    <3>1. CASE u = t
      BY <1>3, <1>4, <1>5, <3>1 DEF NoReply
    <3>2. CASE u # t
      <4>1. /\ stage'[u] = stage[u] /\ send'[u] = send[u]
            /\ sweep'[u] = sweep[u] /\ reply'[u] = reply[u]
        BY <1>3, <1>4, <3>2
      <4>2. reply'[u] = "ok" => Stands(sweep[u])'
        <5>1. reply[u] = "ok" => Stands(sweep[u])
          BY DEF IInv, CallInv
        <5> QED
          BY <1>3, <4>1, <5>1 DEF Stands, InMempool, Mined, Expired
      <4>3. reply'[u] \in {"raced", "refused"} => Nowhere(sweep[u])'
        <5>1. PICK y : y = sweep[u]
          OBVIOUS
        <5>2. y = sweep'[u] /\ y # x
          BY <1>6, <4>1, <5>1
        <5>3. reply[u] \in {"raced", "refused"} => Nowhere(y)
          BY <5>1 DEF IInv, CallInv
        <5>4. reply'[u] \in {"raced", "refused"} => Nowhere(y)'
          BY <1>9, <4>1, <5>2, <5>3
        <5> QED
          BY <5>2, <5>4 DEF Nowhere, InMempool, Mined, Underway
      <4> QED
        BY <4>1, <4>2, <4>3 DEF IInv, CallInv
    <3> QED
      BY <3>1, <3>2
  <2> QED
    BY <2>1, <2>2, <2>3 DEF CallInv
<1>11. SentStands'
  <2> SUFFICES ASSUME NEW u \in Tabs, send'[u] = "sent" PROVE Stands(sweep[u])'
    BY DEF SentStands
  <2>1. u # t /\ Stands(sweep[u]) /\ sweep'[u] = sweep[u]
    BY <1>3, <1>4 DEF IInv, SentStands
  <2> QED
    BY <1>3, <2>1 DEF Stands, InMempool, Mined, Expired
<1>12. FailedIsHonest'
  <2> SUFFICES ASSUME NEW u \in Tabs, send'[u] = "failed", stage'[u] = "answered"
               PROVE  Nowhere(sweep[u])'
    BY DEF FailedIsHonest
  <2>1. u # t /\ sweep'[u] = sweep[u] /\ stage'[u] = stage[u] /\ send'[u] = send[u]
    BY <1>3, <1>4
  <2>2. Nowhere(sweep[u])
    BY <2>1 DEF IInv, FailedIsHonest
  <2> QED
    BY <1>2, <1>3, <1>6, <2>1, <2>2 DEF Nowhere, InMempool, Mined, Underway
<1> QED
  BY <1>10, <1>11, <1>12 DEF IInv

\* Every other step of the send-on flow consumes at most the tab's own answer.
LEMMA SendKeeps ==
  ASSUME IInv, NEW t \in Tabs, SendOn(t)
  PROVE  IInv'
<1>1. TypeOK'
  BY SendType DEF IInv
<1>2. reply[t] # NoReply => stage[t] = "asking"
  BY DEF IInv, CallInv
<1>3. stage[t] = "asking" => send[t] = "sending"
  BY DEF IInv, CallInv
<1> USE DEF chainVars, nodeVars, wireVars, openVars
<1>4. CASE Review(t)
  <2>1. reply[t] = NoReply /\ stage[t] # "asking"
    BY <1>2, <1>3, <1>4 DEF Review
  <2>2. UNCHANGED <<chainVars, nodeVars, asked>> /\ UNCHANGED reply
    BY <1>4 DEF Review
  <2>3. /\ send' = [send EXCEPT ![t] = "review"] /\ stage' = stage /\ sweep' = sweep
    BY <1>4 DEF Review
  <2>4. send'[t] = "review" /\ \A u \in Tabs \ {t} : send'[u] = send[u]
    BY <2>3 DEF IInv, TypeOK
  <2>5. stage'[t] = "building" => sweep'[t] = NoSweep
    BY <2>3 DEF IInv, CallInv
  <2> QED
    BY <1>1, <2>1, <2>2, <2>3, <2>4, <2>5, TabKeeps
<1>5. CASE ChooseAgain(t)
  <2>1. reply[t] = NoReply
    BY <1>2, <1>3, <1>5 DEF ChooseAgain
  <2>2. UNCHANGED <<chainVars, nodeVars, asked>> /\ UNCHANGED reply
    BY <1>5 DEF ChooseAgain
  <2>3. /\ send'[t] = "choose" /\ stage'[t] = "idle"
        /\ \A u \in Tabs \ {t} : /\ send'[u] = send[u] /\ stage'[u] = stage[u]
                                 /\ sweep'[u] = sweep[u]
    BY <1>5 DEF ChooseAgain, FreshSend, IInv, TypeOK
  <2> QED
    BY <1>1, <2>1, <2>2, <2>3, TabKeeps
<1>6. CASE Send(t)
  <2>1. reply[t] = NoReply
    BY <1>2, <1>3, <1>6 DEF Send
  <2>2. UNCHANGED <<chainVars, nodeVars, asked>> /\ UNCHANGED reply
    BY <1>6 DEF Send
  <2>3. /\ send'[t] = "sending" /\ stage'[t] = "building" /\ sweep'[t] = NoSweep
        /\ \A u \in Tabs \ {t} : /\ send'[u] = send[u] /\ stage'[u] = stage[u]
                                 /\ sweep'[u] = sweep[u]
    BY <1>6 DEF Send, IInv, TypeOK
  <2> QED
    BY <1>1, <2>1, <2>2, <2>3, TabKeeps
<1>7. CASE Broadcast(t)
  BY <1>1, <1>7, BroadcastKeeps
<1>8. CASE BuildFails(t)
  <2>1. reply[t] = NoReply /\ sweep[t] = NoSweep
    BY <1>2, <1>8 DEF BuildFails, IInv, CallInv
  <2>2. UNCHANGED <<chainVars, nodeVars, asked>> /\ UNCHANGED reply
    BY <1>8 DEF BuildFails
  <2>3. /\ send'[t] = "failed" /\ stage'[t] = "answered" /\ sweep'[t] = NoSweep
        /\ \A u \in Tabs \ {t} : /\ send'[u] = send[u] /\ stage'[u] = stage[u]
                                 /\ sweep'[u] = sweep[u]
    BY <1>8, <2>1 DEF BuildFails, IInv, TypeOK
  <2>4. Nowhere(NoSweep)
    BY NoSweepNowhere DEF IInv
  <2> QED
    BY <1>1, <2>1, <2>2, <2>3, <2>4, TabKeeps
<1>9. CASE Answered(t)
  <2>1. UNCHANGED <<chainVars, nodeVars, asked>> /\ reply' = [reply EXCEPT ![t] = NoReply]
    BY <1>9 DEF Answered
  <2>2. /\ send'[t] = (IF reply[t] = "ok" THEN "sent" ELSE "failed")
        /\ stage'[t] = "answered" /\ sweep' = sweep
        /\ \A u \in Tabs \ {t} : send'[u] = send[u] /\ stage'[u] = stage[u]
    BY <1>9 DEF Answered, IInv, TypeOK
  <2>3. reply[t] = "ok" => Stands(sweep[t])
    BY DEF IInv, CallInv
  <2>4. reply[t] # "ok" => Nowhere(sweep[t])
    BY <1>9 DEF Answered, IInv, CallInv, TypeOK, Replies
  <2> QED
    BY <1>1, <2>1, <2>2, <2>3, <2>4, TabKeeps
<1>10. CASE Unanswered(t)
  <2>1. UNCHANGED <<chainVars, nodeVars, asked>> /\ reply' = [reply EXCEPT ![t] = NoReply]
    BY <1>10 DEF Unanswered
  <2>2. /\ send'[t] = "failed" /\ stage'[t] = "unanswered" /\ sweep' = sweep
        /\ \A u \in Tabs \ {t} : send'[u] = send[u] /\ stage'[u] = stage[u]
    BY <1>10 DEF Unanswered, IInv, TypeOK
  <2> QED
    BY <1>1, <2>1, <2>2, TabKeeps
<1>11. CASE Recheck(t)
  <2>1. reply[t] = NoReply
    BY <1>2, <1>3, <1>11 DEF Recheck
  <2>2. UNCHANGED <<chainVars, nodeVars, asked>> /\ UNCHANGED reply
    BY <1>11 DEF Recheck
  <2>3. /\ send'[t] = "choose" /\ stage'[t] = "idle"
        /\ \A u \in Tabs \ {t} : /\ send'[u] = send[u] /\ stage'[u] = stage[u]
                                 /\ sweep'[u] = sweep[u]
    BY <1>11 DEF Recheck, FreshSend, IInv, TypeOK
  <2> QED
    BY <1>1, <2>1, <2>2, <2>3, TabKeeps
<1> QED
  BY <1>4, <1>5, <1>6, <1>7, <1>8, <1>9, <1>10, <1>11 DEF SendOn

\* A reload forgets the tab's flow; what was asked stays asked.
LEMMA ReloadKeeps ==
  ASSUME IInv, TypeOK', NEW t \in Tabs, Reload(t)
  PROVE  IInv'
<1>1. UNCHANGED <<chainVars, nodeVars, asked>> /\ reply' = [reply EXCEPT ![t] = NoReply]
  BY DEF Reload
<1>2. /\ send'[t] = "choose" /\ stage'[t] = "idle"
      /\ \A u \in Tabs \ {t} : /\ send'[u] = send[u] /\ stage'[u] = stage[u]
                               /\ sweep'[u] = sweep[u]
  BY DEF Reload, FreshSend, IInv, TypeOK
<1> QED
  BY <1>1, <1>2, TabKeeps

\* While the wire only empties, the nodes take nothing but what was on it and
\* the miners nothing but what the nodes hold, the invariant stays; a tab that
\* gets an answer must be told the truth.
LEMMA NetworkFrame ==
  ASSUME IInv, TypeOK', UNCHANGED sendVars, asked' \subseteq asked,
         \A y \in Sweeps \cup {NoSweep} : Stands(y) => Stands(y)',
         \A y : InMempool(y)' \/ Mined(y)' =>
                  InMempool(y) \/ Mined(y) \/ (Underway(y) /\ ~Underway(y)'),
         \A u \in Tabs :
           \/ reply'[u] = reply[u]
           \/ stage[u] = "asking" /\ reply'[u] = "ok" /\ Stands(sweep[u])'
           \/ /\ stage[u] = "asking" /\ reply'[u] \in {"raced", "refused"}
              /\ Nowhere(sweep[u])'
  PROVE  IInv'
<1>1. send' = send /\ stage' = stage /\ sweep' = sweep
  BY DEF sendVars
<1>2. \A y : Underway(y)' => Underway(y)
  BY DEF Underway
<1>3. \A y : Nowhere(y) => Nowhere(y)'
  BY <1>2 DEF Nowhere
<1>4. ASSUME NEW u \in Tabs, Stands(sweep[u]) PROVE Stands(sweep[u])'
  <2>1. PICK y \in Sweeps \cup {NoSweep} : y = sweep[u]
    BY DEF IInv, TypeOK
  <2>2. Stands(y)'
    BY <1>4, <2>1
  <2>3. sweep'[u] = y
    BY <1>1, <2>1
  <2> QED
    BY <2>2, <2>3
<1>5. ASSUME NEW u \in Tabs, Nowhere(sweep[u]) PROVE Nowhere(sweep[u])'
  <2>1. PICK y : y = sweep[u]
    OBVIOUS
  <2>2. Nowhere(y)'
    BY <1>3, <1>5, <2>1
  <2>3. sweep'[u] = y
    BY <1>1, <2>1
  <2> QED
    BY <2>2, <2>3
<1>6. ASSUME NEW r \in asked' PROVE ~InMempool(r[1])' /\ ~Mined(r[1])'
  <2>1. PICK y : y = r[1]
    OBVIOUS
  <2>2. r \in asked /\ r = <<r[1], r[2]>> /\ r[2] \in Gateways
    BY DEF IInv, TypeOK
  <2>3. Underway(y)'
    BY <2>1, <2>2 DEF Underway
  <2>4. ~InMempool(y) /\ ~Mined(y)
    BY <2>1, <2>2 DEF IInv, CallInv
  <2>5. ~InMempool(y)' /\ ~Mined(y)'
    BY <2>3, <2>4
  <2> QED
    BY <2>1, <2>5
<1>7. ASSUME NEW u \in Tabs
      PROVE  /\ stage'[u] = "asking" => send'[u] = "sending"
             /\ stage'[u] = "building" => sweep'[u] = NoSweep
             /\ reply'[u] # NoReply => stage'[u] = "asking"
             /\ reply'[u] = "ok" => Stands(sweep[u])'
             /\ reply'[u] \in {"raced", "refused"} => Nowhere(sweep[u])'
  <2>1. /\ stage[u] = "asking" => send[u] = "sending"
        /\ stage[u] = "building" => sweep[u] = NoSweep
        /\ reply[u] # NoReply => stage[u] = "asking"
        /\ reply[u] = "ok" => Stands(sweep[u])
        /\ reply[u] \in {"raced", "refused"} => Nowhere(sweep[u])
    BY DEF IInv, CallInv
  <2>2. /\ reply'[u] = "ok" => Stands(sweep[u])'
        /\ reply'[u] \in {"raced", "refused"} => Nowhere(sweep[u])'
    BY <1>4, <1>5, <2>1
  <2>3. reply'[u] # NoReply => stage'[u] = "asking"
    BY <1>1, <2>1
  <2> QED
    BY <1>1, <2>1, <2>2, <2>3
<1>8. CallInv'
  <2>1. \A r, q \in asked' : r[1] = q[1] => r[2] = q[2]
    BY DEF IInv, CallInv
  <2> QED
    BY <1>6, <1>7, <2>1 DEF CallInv
<1>9. SentStands'
  BY <1>1, <1>4 DEF IInv, SentStands
<1>10. FailedIsHonest'
  BY <1>1, <1>5 DEF IInv, FailedIsHonest
<1> QED
  BY <1>8, <1>9, <1>10 DEF IInv

\* A node that judges a request holds it if the verdict is ok and otherwise
\* nobody does: it was nowhere else, and there is no second request of it.
LEMMA JudgeKeeps ==
  ASSUME IInv, TypeOK', NEW r \in asked, Judge(r[1], r[2])
  PROVE  IInv'
<1>1. /\ r = <<r[1], r[2]>> /\ r[1] \in Sweeps /\ r[2] \in Gateways
      /\ ~InMempool(r[1]) /\ ~Mined(r[1])
      /\ \A q \in asked : q[1] = r[1] => q[2] = r[2]
  BY DEF IInv, TypeOK, CallInv
<1> DEFINE v == Verdict(r[2], r[1])
<1>2. /\ asked' = asked \ {r}
      /\ reply' = Replied(r[1], v)
      /\ mempool' = IF v = "ok" THEN [mempool EXCEPT ![r[2]] = @ \cup {r[1]}] ELSE mempool
      /\ sweptBy' = sweptBy /\ tip' = tip /\ spends' = spends
      /\ UNCHANGED sendVars /\ stage' = stage /\ sweep' = sweep
  BY <1>1 DEF Judge, chainVars, sendVars
<1>3. v \in {"ok", "raced", "refused"}
  BY DEF Verdict
<1> HIDE DEF v
<1>4. /\ r[1] \in mempool'[r[2]] <=> v = "ok"
      /\ \A g \in Gateways : mempool[g] \subseteq mempool'[g]
      /\ \A g \in Gateways : mempool'[g] \subseteq mempool[g] \cup {r[1]}
      /\ v # "ok" => mempool' = mempool
  BY <1>1, <1>2 DEF IInv, TypeOK, InMempool
<1>5. Underway(r[1]) /\ ~Underway(r[1])'
  <2>1. ASSUME NEW g \in Gateways, <<r[1], g>> \in asked' PROVE FALSE
    BY <1>1, <1>2, <2>1
  <2> QED
    BY <1>1, <2>1 DEF Underway
<1>6. \A y : Stands(y) => Stands(y)'
  BY <1>2, <1>4 DEF Stands, InMempool, Mined, Expired
<1>7. ASSUME NEW y, InMempool(y)' \/ Mined(y)'
      PROVE  InMempool(y) \/ Mined(y) \/ (Underway(y) /\ ~Underway(y)')
  <2>1. CASE y = r[1]
    BY <1>5, <2>1
  <2>2. CASE y # r[1]
    BY <1>2, <1>4, <1>7, <2>2 DEF InMempool, Mined
  <2> QED
    BY <2>1, <2>2
<1>8. ASSUME NEW u \in Tabs
      PROVE  \/ reply'[u] = reply[u]
             \/ stage[u] = "asking" /\ reply'[u] = "ok" /\ Stands(sweep[u])'
             \/ /\ stage[u] = "asking" /\ reply'[u] \in {"raced", "refused"}
                /\ Nowhere(sweep[u])'
  <2>1. CASE u \notin Listening(r[1])
    BY <1>2, <2>1 DEF Replied
  <2>2. CASE u \in Listening(r[1])
    <3>1. stage[u] = "asking" /\ sweep[u] = r[1] /\ reply'[u] = v
      BY <1>2, <2>2 DEF Replied, Listening
    <3>2. CASE v = "ok"
      BY <1>1, <1>2, <1>4, <3>1, <3>2 DEF Stands, InMempool
    <3>3. CASE v # "ok"
      <4>1. mempool' = mempool
        BY <1>4, <3>3
      <4>2. ~InMempool(sweep[u])' /\ ~Mined(sweep[u])'
        BY <1>1, <1>2, <3>1, <4>1 DEF InMempool, Mined
      <4>3. ~Underway(sweep[u])'
        BY <1>2, <1>5, <3>1 DEF Underway
      <4> QED
        BY <1>3, <3>1, <3>3, <4>2, <4>3 DEF Nowhere
    <3> QED
      BY <3>2, <3>3
  <2> QED
    BY <2>1, <2>2
<1> QED
  BY <1>2, <1>6, <1>7, <1>8, NetworkFrame

\* A request refused or lost is gone, and nobody took it.
LEMMA DropKeeps ==
  ASSUME IInv, TypeOK', NEW r \in asked, Refuse(r[1], r[2]) \/ Lose(r[1], r[2])
  PROVE  IInv'
<1>1. /\ r = <<r[1], r[2]>> /\ r[2] \in Gateways
      /\ ~InMempool(r[1]) /\ ~Mined(r[1])
      /\ \A q \in asked : q[1] = r[1] => q[2] = r[2]
  BY DEF IInv, TypeOK, CallInv
<1>2. /\ asked' = asked \ {r}
      /\ reply' = Replied(r[1], "refused") \/ reply' = reply
      /\ mempool' = mempool /\ sweptBy' = sweptBy /\ tip' = tip /\ spends' = spends
      /\ UNCHANGED sendVars /\ sweep' = sweep
  BY <1>1 DEF Refuse, Lose, chainVars, nodeVars, sendVars
<1>3. \A y : /\ Stands(y) => Stands(y)'
             /\ InMempool(y)' => InMempool(y)
             /\ Mined(y)' => Mined(y)
  BY <1>2 DEF Stands, InMempool, Mined, Expired
<1>4. ASSUME NEW u \in Tabs
      PROVE  \/ reply'[u] = reply[u]
             \/ stage[u] = "asking" /\ reply'[u] = "ok" /\ Stands(sweep[u])'
             \/ /\ stage[u] = "asking" /\ reply'[u] \in {"raced", "refused"}
                /\ Nowhere(sweep[u])'
  <2>1. CASE reply' = reply \/ u \notin Listening(r[1])
    BY <1>2, <2>1 DEF Replied
  <2>2. CASE reply' = Replied(r[1], "refused") /\ u \in Listening(r[1])
    <3>1. stage[u] = "asking" /\ sweep[u] = r[1] /\ reply'[u] = "refused"
      BY <2>2 DEF Replied, Listening
    <3>2. ~InMempool(sweep[u])' /\ ~Mined(sweep[u])'
      BY <1>1, <1>2, <3>1 DEF InMempool, Mined
    <3>3. ~Underway(sweep[u])'
      <4>1. ASSUME NEW g \in Gateways, <<r[1], g>> \in asked' PROVE FALSE
        BY <1>1, <1>2, <4>1
      <4> QED
        BY <1>2, <3>1, <4>1 DEF Underway
    <3> QED
      BY <3>1, <3>2, <3>3 DEF Nowhere
  <2> QED
    BY <1>2, <2>1, <2>2
<1> QED
  BY <1>2, <1>3, <1>4, NetworkFrame

\* What a gateway forgets when it catches up is too late or outrun, and what a
\* miner takes he took from a node.
LEMMA NetworkKeeps ==
  ASSUME IInv, Network
  PROVE  IInv'
<1>0. TypeOK'
  BY NetworkType DEF IInv
<1>1. ASSUME NEW r \in asked, Judge(r[1], r[2]) PROVE IInv'
  BY <1>0, <1>1, JudgeKeeps
<1>2. ASSUME NEW r \in asked, Refuse(r[1], r[2]) \/ Lose(r[1], r[2]) PROVE IInv'
  BY <1>0, <1>2, DropKeeps
<1>3. ASSUME NEW g \in Gateways, NEW h \in Gateways, Gossip(g, h) PROVE IInv'
  <2>1. /\ UNCHANGED sendVars /\ asked' = asked /\ reply' = reply
        /\ sweptBy' = sweptBy /\ tip' = tip /\ spends' = spends
        /\ \E x \in mempool[g] : mempool' = [mempool EXCEPT ![h] = @ \cup {x}]
    BY <1>3 DEF Gossip, chainVars, wireVars
  <2>2. \A y : InMempool(y)' <=> InMempool(y)
    BY <2>1 DEF InMempool, IInv, TypeOK
  <2>3. \A y : Mined(y)' <=> Mined(y)
    BY <2>1 DEF Mined
  <2>4. \A y : Stands(y) => Stands(y)'
    BY <2>1, <2>2, <2>3 DEF Stands, Expired
  <2> QED
    BY <1>0, <2>1, <2>2, <2>3, <2>4, NetworkFrame
<1>4. ASSUME NEW g \in Gateways, CatchUp(g) PROVE IInv'
  <2>1. /\ UNCHANGED sendVars /\ asked' = asked /\ reply' = reply
        /\ sweptBy' = sweptBy /\ spends' = spends
        /\ tip' = [tip EXCEPT ![g] = @ + 1]
        /\ mempool' = [mempool EXCEPT ![g] =
             { x \in @ : /\ ~Expired(x, tip[g] + 1)
                         /\ x.spends \cap SpentBelow(tip[g] + 1) = {} }]
    BY <1>4 DEF CatchUp, chainVars, wireVars
  <2>2. \A y : (InMempool(y)' => InMempool(y)) /\ (Mined(y)' <=> Mined(y))
    BY <2>1 DEF InMempool, Mined, IInv, TypeOK
  <2>3. tip'[g] = tip[g] + 1 /\ \A h \in Gateways : tip'[h] = tip[h] \/ h = g
    BY <2>1 DEF IInv, TypeOK
  <2>4. ASSUME NEW y \in Sweeps \cup {NoSweep}, Stands(y) PROVE Stands(y)'
    <3>1. CASE InMempool(y)
      <4>1. PICK h \in Gateways : y \in mempool[h]
        BY <3>1 DEF InMempool
      <4>2. CASE y \in mempool'[h]
        BY <4>2 DEF Stands, InMempool
      <4>3. CASE y \notin mempool'[h]
        <5>1. \/ Expired(y, tip[g] + 1)
              \/ y.spends \cap SpentBelow(tip[g] + 1) # {}
          BY <2>1, <4>1, <4>3 DEF IInv, TypeOK
        <5>2. \/ Expired(y, tip'[g])
              \/ y.spends \cap DOMAIN spends' # {}
          BY <2>1, <2>3, <5>1 DEF SpentBelow, SpentIn
        <5> QED
          BY <5>2 DEF Stands, Expired
      <4> QED
        BY <4>2, <4>3
    <3>2. CASE Mined(y)
      BY <2>2, <3>2 DEF Stands
    <3>3. CASE \E h \in Gateways : Expired(y, tip[h])
      <4>1. PICK h \in Gateways : tip[h] + 1 > y.expiry
        BY <3>3 DEF Expired
      <4>2. y.expiry \in Nat
        BY DEF Sweeps, NoSweep
      <4>3. tip[h] \in Nat /\ tip[g] \in Nat
        BY HeightAssumption DEF IInv, TypeOK, Heights
      <4>4. tip'[h] + 1 > y.expiry
        BY <2>3, <4>1, <4>2, <4>3
      <4> QED
        BY <4>4 DEF Stands, Expired
    <3>4. CASE y.spends \cap DOMAIN spends # {}
      BY <2>1, <3>4 DEF Stands
    <3> QED
      BY <2>4, <3>1, <3>2, <3>3, <3>4 DEF Stands
  <2> QED
    BY <1>0, <2>1, <2>2, <2>4, NetworkFrame
<1>5. ASSUME NEW B \in SUBSET Mineable, Mine(B) PROVE IInv'
  <2>1. UNCHANGED sendVars /\ asked' = asked /\ reply' = reply
        /\ tip' = tip /\ mempool' = mempool
    BY <1>5 DEF Mine, nodeVars, wireVars
  <2>2. \A y : InMempool(y)' <=> InMempool(y)
    BY <2>1 DEF InMempool
  <2>3. /\ DOMAIN spends \subseteq DOMAIN spends'
        /\ \A n \in DOMAIN sweptBy : n \in DOMAIN sweptBy' /\ sweptBy'[n] = sweptBy[n]
        /\ \A n \in DOMAIN sweptBy' :
             \/ n \in DOMAIN sweptBy /\ sweptBy'[n] = sweptBy[n]
             \/ InMempool(sweptBy'[n]) /\ n \in sweptBy'[n].spends
    BY <1>5, MineType DEF IInv
  <2>4. \A y : Mined(y)' => Mined(y) \/ InMempool(y)
    BY <2>3 DEF Mined
  <2>5. ASSUME NEW y, Stands(y) PROVE Stands(y)'
    <3>1. CASE Mined(y)
      BY <2>3, <3>1 DEF Stands, Mined
    <3>2. CASE ~Mined(y)
      BY <2>1, <2>3, <2>5, <3>2 DEF Stands, InMempool, Expired
    <3> QED
      BY <3>1, <3>2
  <2> QED
    BY <1>0, <2>1, <2>2, <2>4, <2>5, NetworkFrame
<1>6. MineSweeps \/ MineEmpty => IInv'
  BY <1>5 DEF MineSweeps, MineEmpty
<1> QED
  BY <1>1, <1>2, <1>3, <1>4, <1>6 DEF Network

\* Before anything is opened there is no sweep to be wrong about.
LEMMA InitIInv == Init => IInv
<1> SUFFICES ASSUME Init PROVE IInv
  OBVIOUS
<1>1. TypeOK
  BY InitType
<1>2. /\ asked = {}
      /\ \A t \in Tabs : /\ stage[t] = "idle" /\ send[t] = "choose"
                         /\ reply[t] = NoReply
  BY DEF Init
<1>3. CallInv
  BY <1>2 DEF CallInv, NoReply
<1> QED
  BY <1>1, <1>2, <1>3 DEF IInv, SentStands, FailedIsHonest

\* Every step keeps the invariant.
LEMMA StepIInv == IInv /\ [Next]_vars => IInv'
<1> SUFFICES ASSUME IInv, [Next]_vars PROVE IInv'
  OBVIOUS
<1>1. TypeOK'
  BY StepType DEF IInv
<1>2. CASE UNCHANGED vars
  <2>1. UNCHANGED <<chainVars, nodeVars, wireVars, sendVars>>
    BY <1>2 DEF vars
  <2>2. \A y : /\ InMempool(y)' <=> InMempool(y)
               /\ Mined(y)' <=> Mined(y)
               /\ Stands(y) => Stands(y)'
    BY <2>1, RestKeepsSweeps
  <2> QED
    BY <1>1, <2>1, <2>2, NetworkFrame DEF wireVars
<1> QED
  BY <1>1, <1>2, OpenKeeps, SendKeeps, ReloadKeeps, NetworkKeeps DEF Next

\* The invariant holds of every run.
THEOREM RaceInvariant == Spec => []IInv
BY InitIInv, StepIInv, PTL DEF Spec

\* Whatever is lost, late or outrun: a tab that says "Sent" shows a sweep that
\* is waiting, mined, too late or outrun (SentStands).
THEOREM SentScreenStands == Spec => []SentStands
<1>1. IInv => SentStands
  BY DEF IInv
<1> QED
  BY <1>1, RaceInvariant, PTL

\* A tab that failed on an answer, or before it sent, has no sweep anywhere.
THEOREM FailedScreenIsHonest == Spec => []FailedIsHonest
<1>1. IInv => FailedIsHonest
  BY DEF IInv
<1> QED
  BY <1>1, RaceInvariant, PTL

\* A request goes to one gateway, is delivered at most once, and its answer is
\* the truth about the sweep of the tab that waits for it.
THEOREM AnswersAreTrue == Spec => []CallInv
<1>1. IInv => CallInv
  BY DEF IInv
<1> QED
  BY <1>1, RaceInvariant, PTL

(***************************************************************************)
(* What the open page says of the notes.                                   *)
(***************************************************************************)

\* No gateway and no walk is ahead of the chain.
TipsBelow ==
  /\ \A g \in Gateways : tip[g] <= height
  /\ \A t \in Tabs : walkTip[t] # NoTip => walkTip[t] <= height
  /\ \A t \in Tabs : page[t] = "opened" => walkTip[t] # NoTip

OnChain(S) == \A n \in S : PaidAt[n] <= height

\* A note that is known, on its way or spent has been paid by then.
PaidFirst ==
  /\ \A t \in Tabs : OnChain(found[t].notes)
  /\ \A r \in asked : OnChain(r[1].spends)
  /\ \A g \in Gateways : \A x \in mempool[g] : OnChain(x.spends)
  /\ \A n \in DOMAIN spends : PaidAt[n] <= spends[n]

PageInv == TypeOK /\ TipsBelow /\ PaidFirst /\ ScreenMatchesChain

\* Heights are naturals, and the mark of a walk without a tip is none of them.
LEMMA HeightsAreNat ==
  /\ Heights \subseteq Nat /\ NoTip \notin Heights
  /\ \A n \in Notes : PaidAt[n] \in Nat
BY HeightAssumption, RaceAssumption DEF Heights, NoTip

\* The answer of a walk to w offers what is paid in its range, and what it takes
\* for unspent is spent above w or not at all.
LEMMA WalkAnswer ==
  ASSUME TypeOK, PaidFirst, NEW w \in Heights
  PROVE  LET v == View(PaidAt, spends, WalkStart(w), w)
         IN  /\ \A n \in v.notes : n \in Notes /\ PaidAt[n] <= w
             /\ v.spent \subseteq v.notes /\ v.spent \subseteq DOMAIN spends
             /\ \A n \in Unspent(v) \cap DOMAIN spends : spends[n] > w
<1> DEFINE a == WalkStart(w)
           N == Wanted(PaidAt, a, w)
           v == View(PaidAt, spends, a, w)
<1>1. a \in Nat /\ w \in Nat /\ a <= w
  BY RaceAssumption, HeightsAreNat DEF WalkStart
<1> HIDE DEF a
<1>2. \A n \in N : n \in Notes /\ PaidAt[n] \in Nat /\ a <= PaidAt[n] /\ PaidAt[n] <= w
  <2>1. PaidAt \in [Notes -> Heights]
    BY RaceAssumption
  <2>2. \A n \in N : n \in Notes /\ PaidAt[n] \in a .. w
    BY <1>1, <2>1 DEF Wanted, PaidIn
  <2> HIDE DEF N
  <2>3. ASSUME NEW n \in N
        PROVE  n \in Notes /\ PaidAt[n] \in Nat /\ a <= PaidAt[n] /\ PaidAt[n] <= w
    <3>1. n \in Notes /\ PaidAt[n] \in a .. w
      BY <2>2
    <3> QED
      BY <1>1, <3>1, HeightsAreNat
  <2> QED
    BY <2>3
<1>3. v.notes = N /\ v.spent = N \cap SpentIn(spends, a .. w)
  BY DEF View
<1>4. ASSUME NEW n \in Unspent(v) \cap DOMAIN spends PROVE spends[n] > w
  <2>1. n \in N /\ spends[n] \notin a .. w
    BY <1>3, <1>4 DEF Unspent, SpentIn
  <2>2. spends[n] \in Nat /\ PaidAt[n] <= spends[n]
    BY HeightsAreNat DEF TypeOK, PaidFirst
  <2> HIDE DEF N, a
  <2> QED
    BY <1>1, <1>2, <2>1, <2>2
<1> HIDE DEF N, a
<1> QED
  BY <1>2, <1>3, <1>4 DEF SpentIn, v, a

\* A step of an open page: only its walk and its answer change.
LEMMA OpenKeepsPage ==
  ASSUME PageInv, NEW t \in Tabs, Open(t)
  PROVE  PageInv'
<1>1. TypeOK /\ TypeOK'
  BY OpenType DEF PageInv
<1>2. /\ height' = height /\ spends' = spends /\ tip' = tip /\ mempool' = mempool
      /\ asked' = asked
  BY DEF Open, OpenEnvelope, Retry, GetTip, RevealEarly, WalkDone, WalkFails,
         chainVars, nodeVars, wireVars
<1>3. \A u \in Tabs \ {t} : page'[u] = page[u] /\ walkTip'[u] = walkTip[u] /\ found'[u] = found[u]
  BY <1>1 DEF Open, OpenEnvelope, Retry, GetTip, RevealEarly, WalkDone, WalkFails, BeginScan,
              TypeOK
<1>4. SUFFICES /\ walkTip'[t] # NoTip => walkTip'[t] <= height
               /\ page'[t] = "opened" =>
                    /\ walkTip'[t] # NoTip
                    /\ Unspent(found'[t]) # {}
                    /\ \A n \in Unspent(found'[t]) \cap DOMAIN spends : spends[n] > walkTip'[t]
               /\ page'[t] = "spent" =>
                    found'[t].notes # {} /\ found'[t].notes \subseteq DOMAIN spends
               /\ OnChain(found'[t].notes)
  BY <1>1, <1>2, <1>3
     DEF PageInv, TipsBelow, PaidFirst, OnChain, ScreenMatchesChain, Unspent
<1>5. CASE OpenEnvelope(t) \/ Retry(t)
  BY <1>1, <1>5 DEF OpenEnvelope, Retry, BeginScan, TypeOK, NoAnswer, OnChain
<1>6. CASE GetTip(t)
  <2>1. /\ page'[t] \in {"scanning", "verifying"} /\ found' = found
        /\ \E g \in Gateways : walkTip'[t] = tip[g]
    BY <1>1, <1>6 DEF GetTip, IsWalking, TypeOK
  <2> QED
    BY <2>1 DEF PageInv, TipsBelow, PaidFirst
<1>7. CASE RevealEarly(t)
  BY <1>1, <1>7 DEF RevealEarly, TypeOK, PageInv, TipsBelow, PaidFirst
<1>8. CASE WalkDone(t)
  <2> DEFINE w == walkTip[t]
             v == View(PaidAt, spends, WalkStart(w), w)
  <2>1. /\ w # NoTip /\ w \in Heights /\ walkTip'[t] = w
        /\ found'[t] = v /\ page'[t] = PageFor(v)
    BY <1>1, <1>8 DEF WalkDone, TypeOK
  <2>2. /\ \A n \in v.notes : n \in Notes /\ PaidAt[n] <= w
        /\ v.spent \subseteq v.notes /\ v.spent \subseteq DOMAIN spends
        /\ \A n \in Unspent(v) \cap DOMAIN spends : spends[n] > w
    BY <2>1, WalkAnswer DEF PageInv
  <2>3. w <= height
    BY <2>1 DEF PageInv, TipsBelow
  <2> HIDE DEF v
  <2>4. OnChain(v.notes)
    <3>1. height \in Nat /\ w \in Nat
      BY <1>1, <2>1, HeightsAreNat DEF TypeOK
    <3> HIDE DEF w
    <3>2. ASSUME NEW n \in v.notes PROVE PaidAt[n] <= height
      <4>1. PaidAt[n] \in Nat /\ PaidAt[n] <= w
        BY <2>2, HeightsAreNat
      <4> QED
        BY <2>3, <3>1, <4>1
    <3> QED
      BY <3>2 DEF OnChain
  <2>5. page'[t] = "opened" => Unspent(v) # {}
    BY <2>1, <2>2 DEF PageFor, Unspent
  <2>6. page'[t] = "spent" => v.notes # {} /\ v.notes \subseteq DOMAIN spends
    BY <2>1, <2>2 DEF PageFor
  <2> QED
    BY <2>1, <2>2, <2>3, <2>4, <2>5, <2>6
<1>9. CASE WalkFails(t)
  BY <1>1, <1>9 DEF WalkFails, IsWalking, TypeOK, PageInv, PaidFirst
<1> QED
  BY <1>5, <1>6, <1>7, <1>8, <1>9 DEF Open

\* A step that leaves the chain and the tips alone, sends and holds nothing but
\* notes that are paid, and closes pages or leaves them as they are.
LEMMA StillPage ==
  ASSUME PageInv, TypeOK', height' = height, spends' = spends, tip' = tip,
         \A r \in asked' : OnChain(r[1].spends),
         \A g \in Gateways : \A x \in mempool'[g] : OnChain(x.spends),
         \A u \in Tabs :
           \/ page'[u] = page[u] /\ walkTip'[u] = walkTip[u] /\ found'[u] = found[u]
           \/ page'[u] \in {"sealed", "scanning"} /\ walkTip'[u] = NoTip /\ found'[u] = NoAnswer
  PROVE  PageInv'
<1>1. TipsBelow'
  BY DEF PageInv, TipsBelow
<1>2. PaidFirst'
  BY DEF PageInv, PaidFirst, OnChain, NoAnswer
<1>3. ScreenMatchesChain'
  BY DEF PageInv, ScreenMatchesChain, Unspent
<1> QED
  BY <1>1, <1>2, <1>3 DEF PageInv

\* A sweep spends what the page offers, and that is paid.
LEMMA SendKeepsPage ==
  ASSUME PageInv, NEW t \in Tabs, SendOn(t) \/ Reload(t), TypeOK'
  PROVE  PageInv'
<1>1. height' = height /\ spends' = spends /\ tip' = tip /\ mempool' = mempool
  BY DEF SendOn, Review, ChooseAgain, Send, Broadcast, BuildFails, Answered, Unanswered, Recheck,
         Reload, chainVars, nodeVars
<1>2. ASSUME NEW r \in asked' PROVE OnChain(r[1].spends)
  <2>1. CASE r \in asked
    BY <2>1 DEF PageInv, PaidFirst
  <2>2. CASE r \notin asked
    <3>1. Broadcast(t)
      BY <1>2, <2>2 DEF SendOn, Review, ChooseAgain, Send, BuildFails, Answered, Unanswered,
                        Recheck, Reload, wireVars
    <3>2. r[1].spends = Unspent(found[t])
      BY <1>2, <2>2, <3>1 DEF Broadcast
    <3> QED
      BY <3>2 DEF PageInv, PaidFirst, OnChain, Unspent
  <2> QED
    BY <2>1, <2>2
<1>3. ASSUME NEW u \in Tabs
      PROVE  \/ page'[u] = page[u] /\ walkTip'[u] = walkTip[u] /\ found'[u] = found[u]
             \/ /\ page'[u] \in {"sealed", "scanning"}
                /\ walkTip'[u] = NoTip /\ found'[u] = NoAnswer
  <2>1. CASE Recheck(t)
    BY <2>1 DEF Recheck, BeginScan, PageInv, TypeOK
  <2>2. CASE Reload(t)
    BY <2>2 DEF Reload, PageInv, TypeOK
  <2>3. CASE SendOn(t) /\ ~Recheck(t)
    BY <2>3 DEF SendOn, Review, ChooseAgain, Send, Broadcast, BuildFails, Answered, Unanswered,
                openVars
  <2> QED
    BY <2>1, <2>2, <2>3
<1>4. \A g \in Gateways : \A x \in mempool'[g] : OnChain(x.spends)
  BY <1>1 DEF PageInv, PaidFirst
<1> QED
  BY <1>1, <1>2, <1>3, <1>4, StillPage

\* A block spends only what nodes hold, and above every walk that has ended.
LEMMA MineKeepsPage ==
  ASSUME PageInv, NEW B \in SUBSET Mineable, Mine(B), TypeOK'
  PROVE  PageInv'
<1> DEFINE gone == UNION { x.spends : x \in B }
<1>1. /\ height' = height + 1 /\ tip' = tip /\ mempool' = mempool /\ asked' = asked
      /\ page' = page /\ walkTip' = walkTip /\ found' = found
      /\ spends' = [n \in DOMAIN spends \cup gone |->
                      IF n \in gone THEN height + 1 ELSE spends[n]]
  BY DEF Mine, nodeVars, wireVars, openVars
<1>2. height \in Nat /\ height + 1 > height
  BY HeightsAreNat DEF PageInv, TypeOK
<1>3. \A n \in gone : n \in Notes /\ PaidAt[n] <= height
  BY DEF Mineable, PageInv, PaidFirst, OnChain, TypeOK, Sweeps
<1>4. gone \cap DOMAIN spends = {}
  BY DEF Mineable
<1> HIDE DEF gone
<1>5. /\ DOMAIN spends' = DOMAIN spends \cup gone
      /\ \A n \in gone : spends'[n] = height + 1
      /\ \A n \in DOMAIN spends : spends'[n] = spends[n]
  BY <1>1, <1>4
<1>6. TipsBelow'
  <2>1. \A g \in Gateways : tip[g] <= height + 1
    BY <1>2, HeightsAreNat DEF PageInv, TypeOK, TipsBelow
  <2>2. \A t \in Tabs : walkTip[t] # NoTip => walkTip[t] <= height + 1
    BY <1>2, HeightsAreNat DEF PageInv, TypeOK, TipsBelow
  <2> QED
    BY <1>1, <2>1, <2>2 DEF PageInv, TipsBelow
<1>7. PaidFirst'
  <2>1. \A n \in Notes : PaidAt[n] <= height => PaidAt[n] <= height'
    BY <1>1, <1>2, HeightsAreNat
  <2>2. \A t \in Tabs : OnChain(found[t].notes)'
    BY <1>1, <2>1 DEF PageInv, PaidFirst, TypeOK, OnChain
  <2>3. \A r \in asked : \A n \in r[1].spends : PaidAt[n] <= height'
    BY <2>1 DEF PageInv, PaidFirst, TypeOK, Sweeps, OnChain
  <2>4. \A g \in Gateways : \A x \in mempool[g] : \A n \in x.spends : PaidAt[n] <= height'
    BY <2>1 DEF PageInv, PaidFirst, TypeOK, Sweeps, OnChain
  <2>5. \A n \in DOMAIN spends' : PaidAt[n] <= spends'[n]
    <3>1. ASSUME NEW n \in gone PROVE PaidAt[n] <= spends'[n]
      BY <1>2, <1>3, <1>5, <3>1, HeightsAreNat
    <3>2. ASSUME NEW n \in DOMAIN spends PROVE PaidAt[n] <= spends'[n]
      BY <1>5 DEF PageInv, PaidFirst
    <3> QED
      BY <1>5, <3>1, <3>2
  <2> QED
    BY <1>1, <2>2, <2>3, <2>4, <2>5 DEF PaidFirst, OnChain
<1>8. ScreenMatchesChain'
  <2>1. ASSUME NEW t \in Tabs, page[t] = "opened",
               NEW n \in Unspent(found[t]) \cap DOMAIN spends'
        PROVE  spends'[n] > walkTip[t]
    <3>1. walkTip[t] \in Nat /\ walkTip[t] <= height
      BY <2>1, HeightsAreNat DEF PageInv, TypeOK, TipsBelow
    <3>2. CASE n \in gone
      BY <1>2, <1>5, <3>1, <3>2
    <3>3. CASE n \in DOMAIN spends
      BY <1>5, <2>1, <3>3 DEF PageInv, ScreenMatchesChain
    <3> QED
      BY <1>5, <3>2, <3>3
  <2> QED
    BY <1>1, <1>5, <2>1 DEF PageInv, ScreenMatchesChain, Unspent
<1> QED
  BY <1>6, <1>7, <1>8 DEF PageInv

\* Nodes hold nothing that was not sent to them or passed on.
LEMMA NetworkKeepsPage ==
  ASSUME PageInv, Network
  PROVE  PageInv'
<1>0. TypeOK'
  BY NetworkType DEF PageInv
<1>1. ASSUME NEW r \in asked, Judge(r[1], r[2]) \/ Refuse(r[1], r[2]) \/ Lose(r[1], r[2])
      PROVE  PageInv'
  <2>1. /\ height' = height /\ spends' = spends /\ tip' = tip
        /\ page' = page /\ walkTip' = walkTip /\ found' = found
        /\ asked' \subseteq asked
    BY <1>1 DEF Judge, Refuse, Lose, chainVars, nodeVars, openVars
  <2>2. \A g \in Gateways : mempool'[g] \subseteq mempool[g] \cup {r[1]}
    BY <1>1 DEF Judge, Refuse, Lose, nodeVars, PageInv, TypeOK
  <2>3. \A g \in Gateways : \A x \in mempool'[g] : OnChain(x.spends)
    BY <2>2 DEF PageInv, PaidFirst
  <2>4. \A q \in asked' : OnChain(q[1].spends)
    BY <2>1 DEF PageInv, PaidFirst
  <2> QED
    BY <1>0, <2>1, <2>3, <2>4, StillPage
<1>2. ASSUME NEW g \in Gateways, NEW h \in Gateways, Gossip(g, h) PROVE PageInv'
  <2>1. /\ height' = height /\ spends' = spends /\ tip' = tip /\ asked' = asked
        /\ page' = page /\ walkTip' = walkTip /\ found' = found
    BY <1>2 DEF Gossip, chainVars, wireVars, openVars
  <2>2. \A k \in Gateways : mempool'[k] \subseteq mempool[k] \cup mempool[g]
    BY <1>2 DEF Gossip, PageInv, TypeOK
  <2>3. \A k \in Gateways : \A x \in mempool'[k] : OnChain(x.spends)
    BY <2>2 DEF PageInv, PaidFirst
  <2>4. \A q \in asked' : OnChain(q[1].spends)
    BY <2>1 DEF PageInv, PaidFirst
  <2> QED
    BY <1>0, <2>1, <2>3, <2>4, StillPage
<1>3. ASSUME NEW g \in Gateways, CatchUp(g) PROVE PageInv'
  <2>1. /\ height' = height /\ spends' = spends /\ asked' = asked
        /\ page' = page /\ walkTip' = walkTip /\ found' = found
    BY <1>3 DEF CatchUp, chainVars, wireVars, openVars
  <2>2. \A k \in Gateways : mempool'[k] \subseteq mempool[k]
    BY <1>3 DEF CatchUp, PageInv, TypeOK
  <2>3. \A k \in Gateways : tip'[k] <= height
    BY <1>3, HeightsAreNat DEF CatchUp, PageInv, TypeOK, TipsBelow
  <2> QED
    BY <1>0, <2>1, <2>2, <2>3
       DEF PageInv, TipsBelow, PaidFirst, OnChain, ScreenMatchesChain, Unspent
<1>4. MineSweeps \/ MineEmpty => PageInv'
  BY <1>0, MineKeepsPage DEF MineSweeps, MineEmpty
<1> QED
  BY <1>1, <1>2, <1>3, <1>4 DEF Network

\* The notes offered are unspent up to the tip their walk was given, and an
\* envelope called already opened is (openReducer's result event), whatever the
\* gateways lag and whoever sweeps meanwhile.
THEOREM ScreensMatchTheChain == Spec => []ScreenMatchesChain
<1>1. Init => PageInv
  <2> SUFFICES ASSUME Init PROVE PageInv
    OBVIOUS
  <2>1. /\ height = FirstHeight /\ FirstHeight \in Nat /\ DOMAIN spends = {}
        /\ tip \in [Gateways -> 0 .. FirstHeight]
    BY RaceAssumption, HeightsAreNat DEF Init
  <2>2. TipsBelow
    BY <2>1 DEF Init, TipsBelow
  <2>3. PaidFirst
    BY <2>1 DEF Init, PaidFirst, OnChain, NoAnswer
  <2>4. ScreenMatchesChain
    BY DEF Init, ScreenMatchesChain
  <2> QED
    BY <2>2, <2>3, <2>4, InitType DEF PageInv
<1>2. PageInv /\ [Next]_vars => PageInv'
  <2> SUFFICES ASSUME PageInv, [Next]_vars PROVE PageInv'
    OBVIOUS
  <2>1. TypeOK'
    BY StepType DEF PageInv
  <2>2. CASE UNCHANGED vars
    BY <2>1, <2>2, StillPage
       DEF vars, chainVars, nodeVars, wireVars, openVars, PageInv, PaidFirst
  <2> QED
    BY <2>1, <2>2, OpenKeepsPage, SendKeepsPage, NetworkKeepsPage DEF Next
<1>3. PageInv => ScreenMatchesChain
  BY DEF PageInv
<1> QED
  BY <1>1, <1>2, <1>3, PTL DEF Spec
=============================================================================
