------------------------- MODULE PaymentWatchProofs -------------------------
(***************************************************************************)
(* For every number of envelopes, every length of the chain, every lag of  *)
(* the gateways and every reorg no longer than REORG_MARGIN allows: the    *)
(* payment watch is driven by one thing at a time, and what it skips holds *)
(* no payment.                                                             *)
(*                                                                         *)
(* The invariant has two layers.  Control is about who drives the watch    *)
(* and whose looks it awaits; Data, which rests on it, relates where a     *)
(* look starts and what it answered to the blocks the payments are in.     *)
(***************************************************************************)
EXTENDS PaymentWatch, TLAPS, WellFoundedInduction

\* Watches are numbered, and a look is of one that was opened.
Numbered ==
  /\ live => gen \in 1 .. Generations
  /\ \A l \in looks : l.gen <= gen

\* A watch that is gone has left nothing of what it had seen.
Forgotten == ~live => \A e \in Envelopes : paid[e] = None

\* A look that is awaited is at an envelope still wanted, from where it is looked for.
AsksItsOwn ==
  \A l \in Awaited : /\ l.env \in targets /\ paid[l.env] = None
                     /\ l.from = from[l.env]

Control == TypeOK /\ Numbered /\ Forgotten /\ OneDriver /\ AsksItsOwn

\* Payments are in blocks of the chain.
InChain == \A e \in Envelopes : \A h \in mined[e] : h <= tip

\* An envelope is looked for from its birthday, or from a margin below a tip that was
\* reached: no reorg has taken the chain below that.
WithinMargin ==
  live => \A e \in targets : from[e] <= birthday \/ from[e] + ReorgMargin <= tip + rolled

\* A look that found nothing, and has not been heard yet, may move its start on.
EmptyHanded(l) ==
  l.res # NotYet /\ l.res.height = None =>
    /\ l.res.tip \in Heights /\ l.res.tip <= tip + rolled
    /\ \A h \in mined[l.env] : birthday <= h => NextFrom(l.res.tip) <= h

\* A look that found a payment found the first, on a chain that kept its blocks.
FirstFound(l) ==
  l.res.height # None /\ rolled = 0 =>
    /\ l.res.height \in mined[l.env]
    /\ \A h \in mined[l.env] : birthday <= h => l.res.height <= h

AnswersTrue == \A l \in Awaited : EmptyHanded(l) /\ FirstFound(l)

Data == InChain /\ WithinMargin /\ AnswersTrue /\ NeverSkips /\ FinalLinkCovers

IInv == Control /\ Data

-----------------------------------------------------------------------------
\* The least of a set of heights or envelopes.
LEMMA LeastIsLeast ==
  ASSUME NEW S, S \subseteq Nat, S # {}
  PROVE  Least(S) \in S /\ \A y \in S : Least(S) <= y
<1> DEFINE Less == OpToRel(<, Nat)
<1>1. \A ss : ss \in Less <=> ss \in Nat \X Nat /\ ss[1] < ss[2]
  BY Zenon DEF OpToRel
<1>2. IsWellFoundedOn(Less, Nat)
  BY NatLessThanWellFounded
<1> HIDE DEF Less
<1>3. PICK x \in S : \A y \in S : ~ (<<y, x>> \in Less)
  BY <1>2, WFMin
<1>4. ASSUME NEW y \in S PROVE x <= y
  <2>1. x \in Nat /\ y \in Nat
    OBVIOUS
  <2>2. ~ (<<y, x>>[1] < <<y, x>>[2])
    BY <1>1, <1>3, <2>1
  <2> QED
    BY <2>1, <2>2
<1> QED
  BY <1>4 DEF Least

\* The look a round starts at envelope e, from height h.
LookAt(e, h) == [gen |-> gen, env |-> e, from |-> h, res |-> NotYet]

\* What a round does when nothing else drives the watch: one look, or none.
LEMMA RoundGoesOn ==
  ASSUME TypeOK,
         NEW e, NEW f, NEW p, NEW rest, NEW refused \in BOOLEAN,
         Continue(e, f, p, rest, FALSE, refused)
  PROVE  /\ phase' \in {"waiting", "checking", "done"}
         /\ timer' = (phase' = "waiting")
         /\ \/ phase' # "checking" /\ looks' = rest
            \/ /\ phase' = "checking"
               /\ \E x \in targets : p[x] = None /\ looks' = rest \cup {LookAt(x, f[x])}
<1> DEFINE unpaid == Unpaid(e, p)
<1>0. Envelopes \subseteq Nat
  BY WatchAssumption DEF Envelopes
<1>1. unpaid \subseteq targets /\ unpaid \subseteq Nat /\ \A x \in unpaid : p[x] = None
  <2>1. unpaid \subseteq targets /\ \A x \in unpaid : p[x] = None
    BY DEF Unpaid
  <2> QED
    BY <1>0, <2>1 DEF TypeOK
<1> HIDE DEF unpaid
<1>2. CASE unpaid # {} /\ ~refused
  <2>1. Least(unpaid) \in unpaid
    BY <1>1, <1>2, LeastIsLeast
  <2>2. /\ phase' = "checking" /\ timer' = FALSE
        /\ looks' = rest \cup {LookAt(Least(unpaid), f[Least(unpaid)])}
    BY <1>2 DEF Continue, LookAt, unpaid
  <2> QED
    BY <1>1, <2>1, <2>2
<1>3. CASE unpaid = {} \/ refused
  BY <1>3 DEF Continue, Schedule, unpaid
<1> QED
  BY <1>2, <1>3

LEMMA LookIsLook ==
  ASSUME gen \in 1 .. Generations, NEW e \in Envelopes, NEW h \in Heights
  PROVE  /\ LookAt(e, h) \in Looks
         /\ LookAt(e, h).gen = gen /\ LookAt(e, h).env = e /\ LookAt(e, h).from = h
         /\ LookAt(e, h).res = NotYet
BY DEF LookAt, Looks, Results, NotYet

\* NotYet is told from an answer.
LEMMA AnsweredWithTip ==
  ASSUME NEW r \in Results, r # NotYet, r.height = None
  PROVE  r.tip \in Heights
BY DEF Results, NotYet

-----------------------------------------------------------------------------
(***************************************************************************)
(* Control.                                                                *)
(***************************************************************************)
\* A round of a live watch that awaits nothing else leaves it driven by one thing.
LEMMA RoundKeepsControl ==
  ASSUME Control, live,
         NEW e, NEW rest \in SUBSET looks, NEW refused \in BOOLEAN,
         \A l \in rest : l.gen # gen,
         Continue(e, from', paid', rest, FALSE, refused),
         UNCHANGED <<chainVars, gen, live, targets, birthday>>,
         from' \in [Envelopes -> Heights],
         paid' \in [Envelopes -> Heights \cup {None}]
  PROVE  Control'
<1>1. /\ phase' \in {"waiting", "checking", "done"}
      /\ timer' = (phase' = "waiting")
      /\ \/ phase' # "checking" /\ looks' = rest
         \/ /\ phase' = "checking"
            /\ \E x \in targets : paid'[x] = None /\ looks' = rest \cup {LookAt(x, from'[x])}
  BY RoundGoesOn DEF Control
<1>2. /\ tip' = tip /\ rolled' = rolled /\ mined' = mined /\ mempool' = mempool
      /\ gen' = gen /\ live' = live /\ targets' = targets /\ birthday' = birthday
  BY DEF chainVars
<1>3. gen \in 1 .. Generations /\ \A l \in looks : l.gen <= gen
  BY DEF Control, Numbered
<1>4. CASE phase' # "checking" /\ looks' = rest
  <2>1. TypeOK'
    BY <1>1, <1>2, <1>4 DEF Control, TypeOK
  <2>2. Awaited' = {}
    BY <1>2, <1>4 DEF Awaited, Dropped
  <2>3. Numbered'
    BY <1>2, <1>3, <1>4 DEF Numbered
  <2>4. Forgotten' /\ AsksItsOwn'
    BY <1>2, <2>2 DEF Forgotten, AsksItsOwn
  <2>5. OneDriver'
    BY <1>1, <1>4, <2>2 DEF OneDriver
  <2> QED
    BY <2>1, <2>3, <2>4, <2>5 DEF Control
<1>5. CASE phase' = "checking" /\ looks' # rest
  <2>1. PICK x \in targets : paid'[x] = None /\ looks' = rest \cup {LookAt(x, from'[x])}
    BY <1>1, <1>5
  <2> DEFINE new == LookAt(x, from'[x])
  <2>2. x \in Envelopes /\ from'[x] \in Heights
    BY DEF Control, TypeOK
  <2>3. new \in Looks /\ new.gen = gen /\ new.env = x /\ new.from = from'[x]
    BY <1>3, <2>2, LookIsLook
  <2> HIDE DEF new
  <2>4. looks' = rest \cup {new}
    BY <2>1 DEF new
  <2>5. TypeOK'
    BY <1>1, <1>2, <1>5, <2>3, <2>4 DEF Control, TypeOK
  <2>6. Awaited' = {new}
    BY <1>2, <2>3, <2>4 DEF Awaited, Dropped
  <2>7. Numbered'
    BY <1>2, <1>3, <2>3, <2>4 DEF Numbered, Control, TypeOK
  <2>8. Forgotten' /\ AsksItsOwn'
    BY <1>2, <2>1, <2>3, <2>6 DEF Forgotten, AsksItsOwn
  <2>9. OneDriver'
    BY <1>1, <1>5, <2>6 DEF OneDriver
  <2> QED
    BY <2>5, <2>7, <2>8, <2>9 DEF Control
<1>6. CASE phase' = "checking" /\ looks' = rest
  <2>1. PICK x \in targets : paid'[x] = None /\ looks' = rest \cup {LookAt(x, from'[x])}
    BY <1>1, <1>6
  <2>2. x \in Envelopes /\ from'[x] \in Heights
    BY DEF Control, TypeOK
  <2>3. LookAt(x, from'[x]).gen = gen
    BY <1>3, <2>2, LookIsLook
  <2> QED
    BY <1>6, <2>1, <2>3
<1> QED
  BY <1>1, <1>4, <1>5, <1>6

\* A watch that waits, pauses or gave up awaits no look; one that checks has no timer.
LEMMA DrivenOnce ==
  ASSUME Control, live
  PROVE  /\ phase # "checking" => Awaited = {}
         /\ timer => phase = "waiting"
         /\ phase = "checking" => timer = FALSE
BY DEF Control, OneDriver, TypeOK

\* The chain moves without the watch.
LEMMA ChainKeepsControl ==
  ASSUME Control, Chain
  PROVE  Control'
<1>1. UNCHANGED watchVars
  BY DEF Chain, Pay, Mine, Reorg
<1>2. Awaited' = Awaited
  BY <1>1 DEF Awaited, Dropped, watchVars
<1>3. Numbered' /\ Forgotten' /\ OneDriver' /\ AsksItsOwn'
  BY <1>1, <1>2 DEF watchVars, Control, Numbered, Forgotten, OneDriver, AsksItsOwn
<1>4. tip' \in Heights /\ rolled' \in 0 .. MaxRollback
  BY WatchAssumption DEF Chain, Pay, Mine, Reorg, Control, TypeOK, Heights
<1>5. mined' \in [Envelopes -> SUBSET Heights] /\ mempool' \in SUBSET Envelopes
  <2>1. CASE \E e \in Envelopes : Pay(e)
    BY <2>1 DEF Pay, Control, TypeOK
  <2>2. CASE Mine
    <3>1. PICK S \in SUBSET mempool :
            /\ mempool' = mempool \ S
            /\ mined' = [e \in Envelopes |->
                           IF e \in S THEN mined[e] \cup {tip + 1} ELSE mined[e]]
      BY <2>2 DEF Mine
    <3>2. tip + 1 \in Heights
      BY <1>4, <2>2 DEF Mine
    <3> QED
      BY <3>1, <3>2 DEF Control, TypeOK
  <2>3. CASE Reorg
    BY <2>3 DEF Reorg, Control, TypeOK
  <2> QED
    BY <2>1, <2>2, <2>3 DEF Chain
<1>6. TypeOK'
  BY <1>1, <1>4, <1>5 DEF watchVars, Control, TypeOK
<1> QED
  BY <1>3, <1>6 DEF Control

\* Show and Restart set the timer of a watch nothing drives.
LEMMA TabKeepsControl ==
  ASSUME Control, Tab
  PROVE  Control'
<1>1. /\ live /\ phase # "checking" /\ phase' = "waiting" /\ timer' = TRUE
      /\ UNCHANGED <<chainVars, gen, live, targets, birthday, from, paid, looks>>
  BY DEF Tab, Show, Restart, Schedule
<1>2. Awaited = {} /\ Awaited' = Awaited
  BY <1>1, DrivenOnce DEF Awaited, Dropped
<1>3. TypeOK'
  BY <1>1 DEF Control, TypeOK, chainVars
<1>4. Numbered' /\ Forgotten' /\ AsksItsOwn'
  BY <1>1, <1>2 DEF Control, Numbered, Forgotten, AsksItsOwn
<1>5. OneDriver'
  BY <1>1, <1>2 DEF OneDriver
<1> QED
  BY <1>3, <1>4, <1>5 DEF Control

LEMMA DisposeKeepsControl ==
  ASSUME Control, Dispose
  PROVE  Control'
<1>1. live' = FALSE /\ gen' = gen /\ looks' = looks
  BY DEF Dispose
<1>2. Awaited' = {}
  BY <1>1 DEF Awaited, Dropped
<1>3. TypeOK'
  <2>1. 0 \in Heights
    BY WatchAssumption DEF Heights
  <2> QED
    BY <2>1 DEF Dispose, Control, TypeOK
<1>4. Numbered' /\ OneDriver' /\ AsksItsOwn'
  BY <1>1, <1>2 DEF Control, Numbered, OneDriver, AsksItsOwn
<1>5. Forgotten'
  BY DEF Dispose, Forgotten
<1> QED
  BY <1>3, <1>4, <1>5 DEF Control

\* A new watch awaits none of the looks that are left of the older ones.
LEMMA OpenKeepsControl ==
  ASSUME Control, NEW n \in Envelopes, NEW b \in Heights, Open(n, b)
  PROVE  Control'
<1>1. /\ gen' = gen + n /\ live' = TRUE /\ looks' = looks /\ gen + n <= Generations
      /\ phase' = "waiting" /\ timer' = TRUE
  BY DEF Open, Schedule
<1>2. n \in Nat /\ n >= 1 /\ gen \in Nat /\ Generations \in Nat
  BY WatchAssumption DEF Control, TypeOK, Envelopes
<1>3. \A l \in looks : l.gen \in 1 .. Generations /\ l.gen <= gen
  BY DEF Control, TypeOK, Looks, Numbered
<1>4. Awaited' = {}
  BY <1>1, <1>2, <1>3 DEF Awaited, Dropped
<1>5. 1 .. n \subseteq Envelopes
  BY WatchAssumption DEF Envelopes
<1>6. TypeOK'
  BY <1>1, <1>2, <1>5 DEF Open, chainVars, Control, TypeOK
<1>7. Numbered'
  BY <1>1, <1>2, <1>3 DEF Numbered
<1>8. Forgotten' /\ AsksItsOwn' /\ OneDriver'
  BY <1>1, <1>4 DEF Forgotten, AsksItsOwn, OneDriver
<1> QED
  BY <1>6, <1>7, <1>8 DEF Control

LEMMA TickKeepsControl ==
  ASSUME Control, NEW refused \in BOOLEAN, Tick(refused)
  PROVE  Control'
<1>1. /\ live /\ timer
      /\ UNCHANGED <<chainVars, gen, live, targets, birthday, from, paid>>
  BY DEF Tick
<1>2. Awaited = {}
  BY <1>1, DrivenOnce
<1>3. CASE phase' \in {"stopped", "paused"} /\ timer' = FALSE /\ looks' = looks
  <2>1. Awaited' = {}
    BY <1>1, <1>2, <1>3 DEF Awaited, Dropped
  <2>2. TypeOK'
    BY <1>1, <1>3 DEF Control, TypeOK, chainVars
  <2>3. Numbered' /\ Forgotten'
    BY <1>1, <1>3 DEF Control, Numbered, Forgotten
  <2>4. AsksItsOwn' /\ OneDriver'
    BY <1>3, <2>1 DEF AsksItsOwn, OneDriver
  <2> QED
    BY <2>2, <2>3, <2>4 DEF Control
<1>4. CASE Continue(1, from, paid, looks, FALSE, refused)
  <2>1. \A l \in looks : l.gen # gen
    BY <1>1, <1>2 DEF Awaited, Dropped
  <2>2. Continue(1, from', paid', looks, FALSE, refused)
    BY <1>1, <1>4
  <2>3. from' \in [Envelopes -> Heights] /\ paid' \in [Envelopes -> Heights \cup {None}]
    BY <1>1 DEF Control, TypeOK
  <2> QED
    BY <1>1, <2>1, <2>2, <2>3, RoundKeepsControl
<1> QED
  BY <1>3, <1>4 DEF Tick

\* A gateway's answer changes nothing but the look it answers.
LEMMA ReadKeepsControl ==
  ASSUME Control, NEW l \in looks, NEW t \in Heights, Read(l, t)
  PROVE  Control'
<1> DEFINE read == [l EXCEPT !.res = CheckResult(Found(l, t), t)]
<1>1. /\ l.res = NotYet /\ looks' = (looks \ {l}) \cup {read}
      /\ UNCHANGED <<chainVars, gen, live, targets, birthday, phase, timer, from, paid>>
  BY DEF Read
<1>2. l \in Looks
  BY DEF Control, TypeOK
<1>3. CheckResult(Found(l, t), t) \in Results
  <2>1. Found(l, t) \subseteq Heights /\ Found(l, t) \subseteq Nat
    <3>1. mined[l.env] \in SUBSET Heights
      BY <1>2 DEF Control, TypeOK, Looks
    <3>2. Heights \subseteq Nat
      BY WatchAssumption DEF Heights
    <3> QED
      BY <3>1, <3>2 DEF Found
  <2>2. Found(l, t) # {} => Least(Found(l, t)) \in Found(l, t)
    BY <2>1, LeastIsLeast
  <2> QED
    BY <2>1, <2>2 DEF CheckResult, Results
<1>4. /\ read \in Looks /\ read.gen = l.gen /\ read.env = l.env /\ read.from = l.from
  BY <1>2, <1>3 DEF Looks
<1> HIDE DEF read
<1>5. TypeOK'
  BY <1>1, <1>4 DEF Control, TypeOK, chainVars
<1>6. Numbered' /\ Forgotten'
  BY <1>1, <1>4 DEF Control, Numbered, Forgotten
<1>7. \A k \in Awaited' : \/ k \in Awaited /\ k # l
                          \/ k = read /\ l \in Awaited
  BY <1>1, <1>4 DEF Awaited, Dropped
<1>8. l \in Awaited => read \in Awaited'
  BY <1>1, <1>4 DEF Awaited, Dropped
<1>9. \A k \in Awaited : k # l => k \in Awaited'
  BY <1>1 DEF Awaited, Dropped
<1>10. AsksItsOwn'
  BY <1>1, <1>4, <1>7 DEF Control, AsksItsOwn
<1>11. OneDriver'
  <2> SUFFICES ASSUME live PROVE OneDriver'
    BY <1>1 DEF OneDriver
  <2>1. (timer <=> phase = "waiting") /\ (phase = "checking" <=> Awaited # {})
        /\ \A k, j \in Awaited : k = j
    BY DEF Control, OneDriver
  <2>2. Awaited' # {} <=> Awaited # {}
    BY <1>7, <1>8, <1>9
  <2>3. \A k, j \in Awaited' : k = j
    BY <1>7, <2>1
  <2> QED
    BY <1>1, <2>1, <2>2, <2>3 DEF OneDriver
<1> QED
  BY <1>5, <1>6, <1>10, <1>11 DEF Control

\* The look of a live watch is the only one it awaits, and its round goes on without it.
LEMMA RoundWithout ==
  ASSUME Control, NEW l \in looks, ~Dropped(l)
  PROVE  /\ live /\ l \in Awaited /\ phase = "checking" /\ timer = FALSE
         /\ looks \ {l} \in SUBSET looks /\ \A k \in looks \ {l} : k.gen # gen
<1>1. live /\ l \in Awaited
  BY DEF Dropped, Awaited
<1>2. phase = "checking" /\ \A k \in Awaited : k = l
  BY <1>1 DEF Control, OneDriver
<1>3. timer = FALSE
  BY <1>1, <1>2, DrivenOnce
<1> QED
  BY <1>1, <1>2, <1>3 DEF Awaited, Dropped

\* A look nobody waits for goes.
LEMMA ForgetLook ==
  ASSUME Control, NEW S, \A l \in S : l \in looks => Dropped(l), looks' = looks \ S,
         UNCHANGED <<chainVars, gen, live, targets, birthday, phase, timer, from, paid>>
  PROVE  Control'
<1>1. Awaited' = Awaited
  BY DEF Awaited, Dropped
<1>2. TypeOK'
  BY DEF Control, TypeOK, chainVars
<1>3. Numbered' /\ Forgotten' /\ AsksItsOwn' /\ OneDriver'
  BY <1>1 DEF Control, Numbered, Forgotten, AsksItsOwn, OneDriver
<1> QED
  BY <1>2, <1>3 DEF Control

LEMMA LookAnswersKeepsControl ==
  ASSUME Control, NEW l \in looks, NEW refused \in BOOLEAN, LookAnswers(l, refused)
  PROVE  Control'
<1>1. UNCHANGED <<chainVars, gen, live, targets, birthday>>
  BY DEF LookAnswers
<1>2. CASE Dropped(l)
  BY <1>1, <1>2, ForgetLook DEF LookAnswers
<1>3. CASE ~Dropped(l)
  <2>1. /\ paid' = [paid EXCEPT ![l.env] = l.res.height]
        /\ from' = IF l.res.height # None THEN from
                   ELSE [from EXCEPT ![l.env] = NextFrom(l.res.tip)]
        /\ Continue(l.env + 1, from', paid', looks \ {l}, timer, refused)
    BY <1>3 DEF LookAnswers
  <2>2. l \in Looks /\ l.res \in Results /\ l.res # NotYet
    BY DEF LookAnswers, Control, TypeOK, Looks
  <2>3. paid' \in [Envelopes -> Heights \cup {None}]
    BY <2>1, <2>2 DEF Control, TypeOK, Results
  <2>4. from' \in [Envelopes -> Heights]
    <3>1. l.res.height = None => NextFrom(l.res.tip) \in Heights
      BY <2>2, AnsweredWithTip, WatchAssumption
      DEF NextFrom, Larger, Heights, Control, TypeOK
    <3> QED
      BY <2>1, <3>1 DEF Control, TypeOK
  <2>5. Continue(l.env + 1, from', paid', looks \ {l}, FALSE, refused)
    BY <1>3, <2>1, RoundWithout
  <2> QED
    BY <1>1, <1>3, <2>3, <2>4, <2>5, RoundWithout, RoundKeepsControl
<1> QED
  BY <1>2, <1>3

LEMMA LookFailsKeepsControl ==
  ASSUME Control, NEW l \in looks, NEW refused \in BOOLEAN, LookFails(l, refused)
  PROVE  Control'
<1>1. UNCHANGED <<chainVars, gen, live, targets, birthday, from, paid>>
  BY DEF LookFails
<1>2. CASE Dropped(l)
  BY <1>1, <1>2, ForgetLook DEF LookFails
<1>3. CASE ~Dropped(l)
  <2>1. Continue(l.env + 1, from', paid', looks \ {l}, FALSE, refused)
    BY <1>1, <1>3, RoundWithout DEF LookFails
  <2>2. from' \in [Envelopes -> Heights] /\ paid' \in [Envelopes -> Heights \cup {None}]
    BY <1>1 DEF Control, TypeOK
  <2> QED
    BY <1>1, <1>3, <2>1, <2>2, RoundWithout, RoundKeepsControl
<1> QED
  BY <1>2, <1>3

LEMMA AllLooksFailKeepsControl ==
  ASSUME Control, AllLooksFail
  PROVE  Control'
<1>1. UNCHANGED <<chainVars, gen, live, targets, birthday, from, paid>>
  BY DEF AllLooksFail
<1>2. CASE Awaited = {}
  <2>1. looks' = looks \ looks /\ phase' = phase /\ timer' = timer
    BY <1>2 DEF AllLooksFail
  <2>2. \A l \in looks : Dropped(l)
    BY <1>2 DEF Awaited
  <2> QED
    BY <1>1, <2>1, <2>2, ForgetLook
<1>3. CASE Awaited # {}
  <2>1. PICK l \in Awaited : Continue(l.env + 1, from, paid, {}, timer, TRUE)
    BY <1>3 DEF AllLooksFail
  <2>2. l \in looks /\ ~Dropped(l)
    BY DEF Awaited
  <2>3. live /\ Continue(l.env + 1, from', paid', {}, FALSE, TRUE)
    BY <1>1, <2>1, <2>2, RoundWithout
  <2>4. from' \in [Envelopes -> Heights] /\ paid' \in [Envelopes -> Heights \cup {None}]
    BY <1>1 DEF Control, TypeOK
  <2>5. {} \in SUBSET looks /\ (\A k \in {} : k.gen # gen) /\ TRUE \in BOOLEAN
    OBVIOUS
  <2> QED
    BY <1>1, <2>3, <2>4, <2>5, RoundKeepsControl
<1> QED
  BY <1>2, <1>3

LEMMA ControlHolds ==
  Control /\ [Next]_vars => Control'
<1> SUFFICES ASSUME Control, [Next]_vars PROVE Control'
  OBVIOUS
<1>1. CASE Chain
  BY <1>1, ChainKeepsControl
<1>2. CASE Tab
  BY <1>2, TabKeepsControl
<1>3. CASE Dispose
  BY <1>3, DisposeKeepsControl
<1>4. CASE AllLooksFail
  BY <1>4, AllLooksFailKeepsControl
<1>5. CASE \E n \in Envelopes, b \in Heights : Open(n, b)
  BY <1>5, OpenKeepsControl
<1>6. CASE \E refused \in BOOLEAN : Tick(refused)
  BY <1>6, TickKeepsControl
<1>7. CASE \E refused \in BOOLEAN : \E l \in looks : LookAnswers(l, refused)
  BY <1>7, LookAnswersKeepsControl
<1>8. CASE \E refused \in BOOLEAN : \E l \in looks : LookFails(l, refused)
  BY <1>8, LookFailsKeepsControl
<1>9. CASE \E l \in looks, t \in Heights : Read(l, t)
  BY <1>9, ReadKeepsControl
<1>10. CASE UNCHANGED vars
  BY <1>10 DEF vars, chainVars, watchVars, Control, TypeOK, Numbered, Forgotten, OneDriver,
               AsksItsOwn, Awaited, Dropped
<1> QED
  BY <1>1, <1>2, <1>3, <1>4, <1>5, <1>6, <1>7, <1>8, <1>9, <1>10 DEF Next

-----------------------------------------------------------------------------
(***************************************************************************)
(* Data.                                                                   *)
(***************************************************************************)
\* The types the arithmetic below needs.
LEMMA Numbers ==
  ASSUME Control
  PROVE  /\ tip \in Nat /\ rolled \in Nat /\ rolled <= ReorgMargin + 1 /\ birthday \in Nat
         /\ ReorgMargin \in Nat
         /\ \A e \in Envelopes : from[e] \in Nat /\ mined[e] \subseteq Nat
         /\ targets \subseteq Envelopes
<1>1. Heights \subseteq Nat
  BY WatchAssumption DEF Heights
<1>2. tip \in Nat /\ birthday \in Nat
  BY <1>1 DEF Control, TypeOK
<1>3. rolled \in Nat /\ rolled <= ReorgMargin + 1
  BY WatchAssumption DEF Control, TypeOK
<1>4. \A e \in Envelopes : from[e] \in Nat /\ mined[e] \subseteq Nat
  BY <1>1 DEF Control, TypeOK
<1> QED
  BY <1>2, <1>3, <1>4, WatchAssumption DEF Control, TypeOK

\* Where the next look starts is the birthday, or the margin below the tip.
LEMMA NextFromIs ==
  ASSUME Control, NEW t \in Heights
  PROVE  /\ NextFrom(t) = birthday \/ NextFrom(t) + ReorgMargin = t
         /\ birthday <= NextFrom(t) /\ t - ReorgMargin <= NextFrom(t)
         /\ NextFrom(t) \in Nat
<1>1. t \in Nat /\ birthday \in Nat /\ ReorgMargin \in Nat
  BY Numbers, WatchAssumption DEF Heights
<1> QED
  BY <1>1 DEF NextFrom, Larger

\* What a step of the chain does to the blocks: only a block on top of the chain adds
\* to them, and only a reorg takes from them.
LEMMA BlocksMove ==
  ASSUME Control, InChain, Chain
  PROVE  /\ tip + rolled <= tip' + rolled' /\ rolled <= rolled' /\ rolled' \in Nat
         /\ tip' \in Nat
         /\ \A e \in Envelopes : \A h \in mined'[e] :
              h \in mined[e] \/ (h = tip + 1 /\ tip' = tip + 1)
         /\ \A e \in Envelopes : \A h \in mined'[e] : h <= tip'
         /\ rolled' = 0 => \A e \in Envelopes : mined[e] \subseteq mined'[e]
<1>1. CASE \E e \in Envelopes : Pay(e)
  BY <1>1, Numbers DEF Pay, InChain
<1>2. CASE Mine
  <2>1. tip' = tip + 1 /\ rolled' = rolled
    BY <1>2 DEF Mine
  <2>2. \A e \in Envelopes : mined'[e] \in {mined[e], mined[e] \cup {tip + 1}}
    BY <1>2 DEF Mine
  <2>3. tip \in Nat /\ rolled \in Nat /\ \A e \in Envelopes : mined[e] \subseteq Nat
    BY Numbers
  <2>4. ASSUME NEW e \in Envelopes, NEW h \in mined'[e]
        PROVE  (h \in mined[e] \/ h = tip + 1) /\ h <= tip + 1
    BY <2>2, <2>3 DEF InChain
  <2> QED
    BY <2>1, <2>2, <2>3, <2>4
<1>3. CASE Reorg
  <2>1. tip' = tip - 1 /\ rolled' = rolled + 1 /\ tip > 0
    BY <1>3 DEF Reorg
  <2>2. \A e \in Envelopes : mined'[e] = mined[e] \ {tip}
    BY <1>3 DEF Reorg
  <2>3. tip \in Nat /\ rolled \in Nat /\ \A e \in Envelopes : mined[e] \subseteq Nat
    BY Numbers
  <2>4. ASSUME NEW e \in Envelopes, NEW h \in mined'[e]
        PROVE  h \in mined[e] /\ h <= tip - 1
    BY <2>2, <2>3 DEF InChain
  <2> QED
    BY <2>1, <2>3, <2>4
<1> QED
  BY <1>1, <1>2, <1>3 DEF Chain

LEMMA ChainKeepsData ==
  ASSUME Control, Data, Chain
  PROVE  Data'
<1>1. /\ gen' = gen /\ live' = live /\ targets' = targets /\ birthday' = birthday
      /\ from' = from /\ paid' = paid /\ looks' = looks
  BY DEF Chain, Pay, Mine, Reorg, watchVars
<1>2. Awaited' = Awaited
  BY <1>1 DEF Awaited, Dropped
<1>3. /\ tip + rolled <= tip' + rolled' /\ rolled <= rolled' /\ rolled' \in Nat
      /\ tip' \in Nat
      /\ \A e \in Envelopes : \A h \in mined'[e] :
           h \in mined[e] \/ (h = tip + 1 /\ tip' = tip + 1)
      /\ \A e \in Envelopes : \A h \in mined'[e] : h <= tip'
      /\ rolled' = 0 => \A e \in Envelopes : mined[e] \subseteq mined'[e]
  BY BlocksMove DEF Data
<1>4. /\ tip \in Nat /\ rolled \in Nat /\ rolled <= ReorgMargin + 1 /\ birthday \in Nat
      /\ ReorgMargin \in Nat
      /\ \A e \in Envelopes : from[e] \in Nat /\ mined[e] \subseteq Nat
      /\ targets \subseteq Envelopes
  BY Numbers
<1>5. rolled' = 0 => rolled = 0
  BY <1>3, <1>4
<1>6. InChain'
  BY <1>3 DEF InChain
<1>11. PICK t, r : t = tip' /\ r = rolled'
  OBVIOUS
<1>12. ASSUME NEW m \in Nat, m <= tip + rolled PROVE m <= tip' + rolled'
  <2>1. t \in Nat /\ r \in Nat
    BY <1>3, <1>11
  <2>2. tip + rolled <= t + r
    BY <1>3, <1>11
  <2>3. m <= t + r
    BY <1>4, <1>12, <2>1, <2>2
  <2> QED
    BY <1>11, <2>3
<1>7. WithinMargin'
  <2> SUFFICES ASSUME live, NEW e \in targets
               PROVE  from[e] <= birthday \/ from[e] + ReorgMargin <= tip' + rolled'
    BY <1>1 DEF WithinMargin
  <2>1. from[e] <= birthday \/ from[e] + ReorgMargin <= tip + rolled
    BY DEF Data, WithinMargin
  <2>2. from[e] + ReorgMargin \in Nat
    BY <1>4
  <2> QED
    BY <1>12, <2>1, <2>2
<1>8. NeverSkips'
  <2> SUFFICES ASSUME live, NEW e \in targets, paid[e] = None,
                      NEW h \in mined'[e], birthday <= h
               PROVE  from[e] <= h
    BY <1>1 DEF NeverSkips
  <2>1. CASE h \in mined[e]
    BY <2>1 DEF Data, NeverSkips
  <2>2. CASE h = tip + 1
    <3>1. from[e] <= birthday \/ from[e] + ReorgMargin <= tip + rolled
      BY DEF Data, WithinMargin
    <3>2. from[e] \in Nat
      BY <1>4
    <3> QED
      BY <1>4, <2>2, <3>1, <3>2
  <2> QED
    BY <1>3, <1>4, <2>1, <2>2
<1>9. FinalLinkCovers'
  <2> SUFFICES ASSUME live, rolled' = 0, NEW e \in targets, paid[e] # None
               PROVE  /\ paid[e] \in mined'[e]
                      /\ \A h \in mined'[e] : birthday <= h => paid[e] <= h
    BY <1>1 DEF FinalLinkCovers
  <2>1. e \in Envelopes /\ paid[e] \in mined[e]
        /\ \A h \in mined[e] : birthday <= h => paid[e] <= h
    BY <1>4, <1>5 DEF Data, FinalLinkCovers
  <2>2. paid[e] \in Nat /\ paid[e] <= tip
    BY <1>4, <2>1 DEF Data, InChain
  <2>3. \A h \in mined'[e] : birthday <= h => paid[e] <= h
    BY <1>3, <1>4, <2>1, <2>2
  <2> QED
    BY <1>3, <2>1, <2>3
<1>10. AnswersTrue'
  <2> SUFFICES ASSUME NEW l \in Awaited PROVE EmptyHanded(l)' /\ FirstFound(l)'
    BY <1>2 DEF AnswersTrue
  <2>1. EmptyHanded(l) /\ FirstFound(l) /\ l.env \in Envelopes
    BY DEF Data, AnswersTrue, Awaited, Control, TypeOK, Looks
  <2>2. EmptyHanded(l)'
    <3> SUFFICES ASSUME l.res # NotYet, l.res.height = None
                 PROVE  /\ l.res.tip \in Heights /\ l.res.tip <= tip' + rolled'
                        /\ \A h \in mined'[l.env] : birthday <= h => NextFrom(l.res.tip)' <= h
      BY <1>1 DEF EmptyHanded
    <3>1. /\ l.res.tip \in Heights /\ l.res.tip <= tip + rolled
          /\ \A h \in mined[l.env] : birthday <= h => NextFrom(l.res.tip) <= h
      BY <2>1 DEF EmptyHanded
    <3>2. l.res.tip \in Nat
      BY <3>1, WatchAssumption DEF Heights
    <3>3. NextFrom(l.res.tip)' = NextFrom(l.res.tip)
      BY <1>1 DEF NextFrom
    <3>4. /\ NextFrom(l.res.tip) = birthday \/ NextFrom(l.res.tip) + ReorgMargin = l.res.tip
          /\ NextFrom(l.res.tip) \in Nat
      BY <3>1, NextFromIs
    <3>5. NextFrom(l.res.tip) <= birthday \/ NextFrom(l.res.tip) <= tip + 1
      BY <1>4, <3>1, <3>2, <3>4
    <3>6. ASSUME NEW h \in mined'[l.env], birthday <= h
          PROVE  NextFrom(l.res.tip) <= h
      <4>1. CASE h \in mined[l.env]
        BY <3>1, <3>6, <4>1
      <4>2. CASE h = tip + 1
        BY <1>4, <3>4, <3>5, <3>6, <4>2
      <4> QED
        BY <1>3, <2>1, <4>1, <4>2
    <3>7. l.res.tip <= tip' + rolled'
      BY <1>12, <3>1, <3>2
    <3> QED
      BY <3>1, <3>3, <3>6, <3>7
  <2>3. FirstFound(l)'
    <3> SUFFICES ASSUME l.res.height # None, rolled' = 0
                 PROVE  /\ l.res.height \in mined'[l.env]
                        /\ \A h \in mined'[l.env] : birthday <= h => l.res.height <= h
      BY <1>1 DEF FirstFound
    <3>1. /\ l.res.height \in mined[l.env]
          /\ \A h \in mined[l.env] : birthday <= h => l.res.height <= h
      BY <1>5, <2>1 DEF FirstFound
    <3>2. l.res.height \in Nat /\ l.res.height <= tip
      BY <1>4, <2>1, <3>1 DEF Data, InChain
    <3> QED
      BY <1>3, <1>4, <2>1, <3>1, <3>2
  <2> QED
    BY <2>2, <2>3
<1> QED
  BY <1>6, <1>7, <1>8, <1>9, <1>10 DEF Data

\* What a watch awaits stays true while the chain, the watch and its birthday do.
LEMMA AnswersStayTrue ==
  ASSUME AnswersTrue, UNCHANGED <<chainVars, gen, live, birthday>>,
         \A l \in looks' : l \in looks \/ l.res = NotYet
  PROVE  AnswersTrue'
<1> SUFFICES ASSUME NEW l \in Awaited' PROVE EmptyHanded(l)' /\ FirstFound(l)'
  BY DEF AnswersTrue
<1>1. l \in looks' /\ ~Dropped(l)
  BY DEF Awaited, Dropped
<1>2. CASE l.res = NotYet
  BY <1>2 DEF EmptyHanded, FirstFound, NotYet, None
<1>3. CASE l \in looks
  <2>1. EmptyHanded(l) /\ FirstFound(l)
    BY <1>1, <1>3 DEF AnswersTrue, Awaited
  <2>2. NextFrom(l.res.tip)' = NextFrom(l.res.tip)
    BY DEF NextFrom
  <2> QED
    BY <2>1, <2>2 DEF EmptyHanded, FirstFound, chainVars
<1> QED
  BY <1>1, <1>2, <1>3

\* The looks of a round are the ones it goes on from, and one nobody has answered.
LEMMA RoundAsks ==
  ASSUME TypeOK, NEW e, NEW f, NEW p, NEW rest \in SUBSET looks, NEW refused \in BOOLEAN,
         Continue(e, f, p, rest, FALSE, refused)
  PROVE  \A l \in looks' : \/ l \in looks
                           \/ /\ l.res = NotYet /\ l.gen = gen
                              /\ l.env \in targets /\ p[l.env] = None
<1>1. /\ phase' \in {"waiting", "checking", "done"}
      /\ timer' = (phase' = "waiting")
      /\ \/ phase' # "checking" /\ looks' = rest
         \/ /\ phase' = "checking"
            /\ \E x \in targets : p[x] = None /\ looks' = rest \cup {LookAt(x, f[x])}
  BY RoundGoesOn
<1> QED
  BY <1>1 DEF LookAt

\* A step that leaves the chain and what the watch knows alone keeps what Data says.
LEMMA QuietKeepsData ==
  ASSUME Data, UNCHANGED <<chainVars, gen, live, targets, birthday, from, paid>>,
         \A l \in looks' : l \in looks \/ l.res = NotYet
  PROVE  Data'
<1>1. AnswersTrue'
  BY AnswersStayTrue DEF Data
<1>2. /\ tip' = tip /\ rolled' = rolled /\ mined' = mined
      /\ live' = live /\ targets' = targets /\ birthday' = birthday
      /\ from' = from /\ paid' = paid
  BY DEF chainVars
<1>3. InChain' /\ WithinMargin' /\ NeverSkips' /\ FinalLinkCovers'
  BY <1>2 DEF Data, InChain, WithinMargin, NeverSkips, FinalLinkCovers
<1> QED
  BY <1>1, <1>3 DEF Data

LEMMA OpenKeepsData ==
  ASSUME Control, Data, Control', NEW n \in Envelopes, NEW b \in Heights, Open(n, b)
  PROVE  Data'
<1>1. /\ ~live /\ live' /\ phase' = "waiting" /\ birthday' = b /\ targets' = 1 .. n
      /\ from' = [e \in Envelopes |-> b] /\ paid' = paid
      /\ tip' = tip /\ rolled' = rolled /\ mined' = mined
  BY DEF Open, Schedule, chainVars
<1>2. Awaited' = {}
  BY <1>1 DEF Control, OneDriver
<1>3. targets' \subseteq Envelopes
  BY DEF Control, TypeOK
<1>4. b \in Nat /\ \A e \in targets' : from'[e] = b /\ paid'[e] = None
  <2>1. b \in Nat
    BY WatchAssumption DEF Heights
  <2> QED
    BY <1>1, <1>3, <2>1 DEF Control, Forgotten
<1>5. InChain' /\ AnswersTrue'
  BY <1>1, <1>2 DEF Data, InChain, AnswersTrue
<1>6. WithinMargin'
  BY <1>1, <1>4 DEF WithinMargin
<1>7. NeverSkips' /\ FinalLinkCovers'
  BY <1>1, <1>4 DEF NeverSkips, FinalLinkCovers
<1> QED
  BY <1>5, <1>6, <1>7 DEF Data

LEMMA DisposeKeepsData ==
  ASSUME Data, Dispose
  PROVE  Data'
<1>1. live' = FALSE /\ mined' = [e \in Envelopes |-> {}]
  BY DEF Dispose
<1>2. Awaited' = {}
  BY <1>1 DEF Awaited, Dropped
<1> QED
  BY <1>1, <1>2 DEF Data, InChain, WithinMargin, AnswersTrue, NeverSkips, FinalLinkCovers

LEMMA TickKeepsData ==
  ASSUME Control, Data, NEW refused \in BOOLEAN, Tick(refused)
  PROVE  Data'
<1>1. \A l \in looks' : l \in looks \/ l.res = NotYet
  <2>1. CASE looks' = looks
    BY <2>1
  <2>2. CASE Continue(1, from, paid, looks, FALSE, refused)
    <3>1. looks \in SUBSET looks /\ TypeOK
      BY DEF Control
    <3> QED
      BY <2>2, <3>1, RoundAsks
  <2> QED
    BY <2>1, <2>2 DEF Tick
<1>2. UNCHANGED <<chainVars, gen, live, targets, birthday, from, paid>>
  BY DEF Tick
<1> QED
  BY <1>1, <1>2, QuietKeepsData

\* A gateway reads its chain from where the look starts to where the chain ends: a
\* payment it does not find is above that, and the one it finds is the first.
LEMMA ReadKeepsData ==
  ASSUME Control, Data, NEW l \in looks, NEW t \in Heights, Read(l, t)
  PROVE  Data'
<1>8. PICK found : found = Found(l, t)
  OBVIOUS
<1>9. PICK read : read = [l EXCEPT !.res = CheckResult(found, t)]
  OBVIOUS
<1>1. /\ l.res = NotYet /\ looks' = (looks \ {l}) \cup {read} /\ t <= tip
      /\ tip' = tip /\ rolled' = rolled /\ mined' = mined /\ gen' = gen /\ live' = live
      /\ targets' = targets /\ birthday' = birthday /\ from' = from /\ paid' = paid
  BY <1>8, <1>9 DEF Read, chainVars
<1>2. l \in Looks
  BY DEF Control, TypeOK
<1>3. /\ read.gen = l.gen /\ read.env = l.env /\ read.res = CheckResult(found, t)
  BY <1>2, <1>9 DEF Looks
<1>4. InChain' /\ WithinMargin' /\ NeverSkips' /\ FinalLinkCovers'
  BY <1>1 DEF Data, InChain, WithinMargin, NeverSkips, FinalLinkCovers
<1>5. \A k : NextFrom(k)' = NextFrom(k)
  BY <1>1 DEF NextFrom
<1>6. ASSUME NEW k \in Awaited', k # read
      PROVE  EmptyHanded(k)' /\ FirstFound(k)'
  <2>1. k \in Awaited
    BY <1>1, <1>6 DEF Awaited, Dropped
  <2>2. EmptyHanded(k) /\ FirstFound(k)
    BY <2>1 DEF Data, AnswersTrue
  <2> QED
    BY <1>1, <1>5, <2>2 DEF EmptyHanded, FirstFound
<1>7. ASSUME read \in Awaited'
      PROVE  EmptyHanded(read)' /\ FirstFound(read)'
  <2>1. live /\ l \in Awaited
    BY <1>1, <1>3, <1>7 DEF Awaited, Dropped
  <2>2. /\ l.env \in targets /\ l.env \in Envelopes /\ paid[l.env] = None
        /\ l.from = from[l.env]
    BY <1>2, <2>1 DEF Control, AsksItsOwn, Looks
  <2>3. t \in Nat /\ l.from \in Nat /\ mined[l.env] \subseteq Nat /\ birthday \in Nat
    BY <2>2, Numbers, WatchAssumption DEF Heights
  <2>4. ASSUME NEW h \in mined[l.env], birthday <= h
        PROVE  h \in found \/ t < h
    <3>1. l.from <= h
      BY <2>1, <2>2, <2>4 DEF Data, NeverSkips
    <3> QED
      BY <1>8, <2>3, <3>1 DEF Found
  <2>5. found \subseteq mined[l.env] /\ \A h \in found : h <= t
    BY <1>8 DEF Found
  <2>6. CASE found = {}
    <3>1. read.res.height = None /\ read.res.tip = t
      BY <1>3, <2>6 DEF CheckResult
    <3>2. t <= tip + rolled
      BY <1>1, <2>3, Numbers
    <3>3. ASSUME NEW h \in mined[l.env], birthday <= h PROVE NextFrom(t) <= h
      <4>1. t < h
        BY <2>4, <2>6, <3>3
      <4>2. NextFrom(t) = birthday \/ NextFrom(t) + ReorgMargin = t
        BY NextFromIs
      <4>3. NextFrom(t) \in Nat /\ ReorgMargin \in Nat
        BY NextFromIs, Numbers
      <4> QED
        BY <2>3, <3>3, <4>1, <4>2, <4>3
    <3> QED
      BY <1>1, <1>3, <1>5, <3>1, <3>2, <3>3 DEF EmptyHanded, FirstFound
  <2>7. CASE found # {}
    <3>1. Least(found) \in found /\ \A y \in found : Least(found) <= y
      BY <2>3, <2>5, <2>7, LeastIsLeast
    <3>2. read.res.height = Least(found)
      BY <1>3, <2>7 DEF CheckResult
    <3>3. Least(found) # None
      BY <2>3, <2>5, <3>1 DEF None
    <3>4. ASSUME NEW h \in mined[l.env], birthday <= h PROVE Least(found) <= h
      <4>1. CASE h \in found
        BY <3>1, <4>1
      <4>2. CASE t < h
        BY <2>3, <2>5, <3>1, <4>2
      <4> QED
        BY <2>4, <3>4, <4>1, <4>2
    <3> QED
      BY <1>1, <1>3, <2>5, <3>1, <3>2, <3>3, <3>4 DEF EmptyHanded, FirstFound
  <2> QED
    BY <2>6, <2>7
<1> QED
  BY <1>4, <1>6, <1>7 DEF Data, AnswersTrue

\* A watch hears a look: what it found is the first payment, and where it looks next
\* leaves nothing below.
LEMMA LookAnswersKeepsData ==
  ASSUME Control, Data, NEW l \in looks, NEW refused \in BOOLEAN, LookAnswers(l, refused)
  PROVE  Data'
<1>1. /\ UNCHANGED <<chainVars, gen, live, targets, birthday>>
      /\ l.res # NotYet
  BY DEF LookAnswers
<1>2. CASE Dropped(l)
  <2>1. /\ UNCHANGED <<chainVars, gen, live, targets, birthday, from, paid>>
        /\ \A k \in looks' : k \in looks \/ k.res = NotYet
    BY <1>1, <1>2 DEF LookAnswers
  <2> QED
    BY <2>1, QuietKeepsData
<1>3. CASE ~Dropped(l)
  <2>1. /\ paid' = [paid EXCEPT ![l.env] = l.res.height]
        /\ from' = IF l.res.height # None THEN from
                   ELSE [from EXCEPT ![l.env] = NextFrom(l.res.tip)]
        /\ Continue(l.env + 1, from', paid', looks \ {l}, timer, refused)
    BY <1>3 DEF LookAnswers
  <2>2. /\ live /\ l \in Awaited /\ timer = FALSE /\ looks \ {l} \in SUBSET looks /\ TypeOK
    BY <1>3, RoundWithout DEF Control
  <2>3. \A k \in looks' : k \in looks \/ k.res = NotYet
    <3>1. Continue(l.env + 1, from', paid', looks \ {l}, FALSE, refused)
      BY <2>1, <2>2
    <3> QED
      BY <2>2, <3>1, RoundAsks
  <2>4. AnswersTrue'
    BY <1>1, <2>3, AnswersStayTrue DEF Data
  <2>5. EmptyHanded(l) /\ FirstFound(l)
    BY <2>2 DEF Data, AnswersTrue
  <2>6. /\ tip' = tip /\ rolled' = rolled /\ mined' = mined
        /\ live' = live /\ targets' = targets /\ birthday' = birthday
    BY <1>1 DEF chainVars
  <2>7. l.env \in Envelopes /\ targets \subseteq Envelopes
    BY <2>2, Numbers DEF Control, TypeOK, Looks
  <2>8. /\ paid'[l.env] = l.res.height
        /\ \A e \in targets : e # l.env => paid'[e] = paid[e] /\ from'[e] = from[e]
        /\ l.res.height = None => from'[l.env] = NextFrom(l.res.tip)
        /\ l.res.height # None => from' = from
    BY <2>1, <2>7 DEF Control, TypeOK
  <2>9. InChain'
    BY <2>6 DEF Data, InChain
  <2>10. WithinMargin'
    <3> SUFFICES ASSUME NEW e \in targets
                 PROVE  from'[e] <= birthday \/ from'[e] + ReorgMargin <= tip + rolled
      BY <2>6 DEF WithinMargin
    <3>1. CASE from'[e] = from[e]
      BY <2>2, <3>1 DEF Data, WithinMargin
    <3>2. CASE e = l.env /\ l.res.height = None
      <4>1. l.res.tip \in Heights /\ l.res.tip <= tip + rolled
        BY <1>1, <2>5, <3>2 DEF EmptyHanded
      <4>2. NextFrom(l.res.tip) = birthday \/ NextFrom(l.res.tip) + ReorgMargin = l.res.tip
        BY <4>1, NextFromIs
      <4>3. birthday \in Nat /\ from'[e] = NextFrom(l.res.tip)
        BY <2>8, <3>2, Numbers
      <4>4. CASE NextFrom(l.res.tip) = birthday
        BY <4>3, <4>4
      <4>5. CASE NextFrom(l.res.tip) + ReorgMargin = l.res.tip
        BY <4>1, <4>3, <4>5
      <4> QED
        BY <4>2, <4>4, <4>5
    <3> QED
      BY <2>8, <3>1, <3>2
  <2>11. NeverSkips'
    <3> SUFFICES ASSUME NEW e \in targets, paid'[e] = None,
                        NEW h \in mined[e], birthday <= h
                 PROVE  from'[e] <= h
      BY <2>6 DEF NeverSkips
    <3>1. CASE e = l.env
      BY <1>1, <2>5, <2>8, <3>1 DEF EmptyHanded
    <3>2. CASE e # l.env
      BY <2>2, <2>8, <3>2 DEF Data, NeverSkips
    <3> QED
      BY <3>1, <3>2
  <2>12. FinalLinkCovers'
    <3> SUFFICES ASSUME rolled = 0, NEW e \in targets, paid'[e] # None
                 PROVE  /\ paid'[e] \in mined[e]
                        /\ \A h \in mined[e] : birthday <= h => paid'[e] <= h
      BY <2>6 DEF FinalLinkCovers
    <3>1. CASE e = l.env
      BY <2>5, <2>8, <3>1 DEF FirstFound
    <3>2. CASE e # l.env
      BY <2>2, <2>8, <3>2 DEF Data, FinalLinkCovers
    <3> QED
      BY <3>1, <3>2
  <2> QED
    BY <2>4, <2>9, <2>10, <2>11, <2>12 DEF Data
<1> QED
  BY <1>2, <1>3

LEMMA LookFailsKeepsData ==
  ASSUME Control, Data, NEW l \in looks, NEW refused \in BOOLEAN, LookFails(l, refused)
  PROVE  Data'
<1>1. \A k \in looks' : k \in looks \/ k.res = NotYet
  <2>1. CASE Dropped(l)
    BY <2>1 DEF LookFails
  <2>2. CASE ~Dropped(l)
    <3>1. Continue(l.env + 1, from, paid, looks \ {l}, FALSE, refused)
      BY <2>2, RoundWithout DEF LookFails
    <3>2. looks \ {l} \in SUBSET looks /\ TypeOK
      BY DEF Control
    <3> QED
      BY <3>1, <3>2, RoundAsks
  <2> QED
    BY <2>1, <2>2
<1>2. UNCHANGED <<chainVars, gen, live, targets, birthday, from, paid>>
  BY DEF LookFails
<1> QED
  BY <1>1, <1>2, QuietKeepsData

LEMMA AllLooksFailKeepsData ==
  ASSUME Control, Data, AllLooksFail
  PROVE  Data'
<1>1. \A k \in looks' : k \in looks \/ k.res = NotYet
  <2>1. CASE Awaited = {}
    BY <2>1 DEF AllLooksFail
  <2>2. CASE Awaited # {}
    <3>1. PICK l \in Awaited : Continue(l.env + 1, from, paid, {}, timer, TRUE)
      BY <2>2 DEF AllLooksFail
    <3>2. l \in looks /\ ~Dropped(l)
      BY DEF Awaited
    <3>3. Continue(l.env + 1, from, paid, {}, FALSE, TRUE)
      BY <3>1, <3>2, RoundWithout
    <3>4. {} \in SUBSET looks /\ TypeOK /\ TRUE \in BOOLEAN
      BY DEF Control
    <3> QED
      BY <3>3, <3>4, RoundAsks
  <2> QED
    BY <2>1, <2>2
<1>2. UNCHANGED <<chainVars, gen, live, targets, birthday, from, paid>>
  BY DEF AllLooksFail
<1> QED
  BY <1>1, <1>2, QuietKeepsData

LEMMA DataHolds ==
  Control /\ Control' /\ Data /\ [Next]_vars => Data'
<1> SUFFICES ASSUME Control, Control', Data, [Next]_vars PROVE Data'
  OBVIOUS
<1>1. CASE Chain
  BY <1>1, ChainKeepsData
<1>2. CASE Tab
  <2>1. /\ UNCHANGED <<chainVars, gen, live, targets, birthday, from, paid>>
        /\ \A k \in looks' : k \in looks \/ k.res = NotYet
    BY <1>2 DEF Tab, Show, Restart
  <2> QED
    BY <2>1, QuietKeepsData
<1>3. CASE Dispose
  BY <1>3, DisposeKeepsData
<1>4. CASE AllLooksFail
  BY <1>4, AllLooksFailKeepsData
<1>5. CASE \E n \in Envelopes, b \in Heights : Open(n, b)
  BY <1>5, OpenKeepsData
<1>6. CASE \E refused \in BOOLEAN : Tick(refused)
  BY <1>6, TickKeepsData
<1>7. CASE \E refused \in BOOLEAN : \E l \in looks : LookAnswers(l, refused)
  BY <1>7, LookAnswersKeepsData
<1>8. CASE \E refused \in BOOLEAN : \E l \in looks : LookFails(l, refused)
  BY <1>8, LookFailsKeepsData
<1>9. CASE \E l \in looks, t \in Heights : Read(l, t)
  BY <1>9, ReadKeepsData
<1>10. CASE UNCHANGED vars
  <2>1. /\ UNCHANGED <<chainVars, gen, live, targets, birthday, from, paid>>
        /\ \A k \in looks' : k \in looks \/ k.res = NotYet
    BY <1>10 DEF vars, watchVars
  <2> QED
    BY <2>1, QuietKeepsData
<1> QED
  BY <1>1, <1>2, <1>3, <1>4, <1>5, <1>6, <1>7, <1>8, <1>9, <1>10 DEF Next

-----------------------------------------------------------------------------
(***************************************************************************)
(* The theorems.                                                           *)
(***************************************************************************)
LEMMA InitHolds ==
  Init => IInv
<1> SUFFICES ASSUME Init PROVE IInv
  OBVIOUS
<1>1. /\ tip = 1 /\ rolled = 0 /\ mined = [e \in Envelopes |-> {}] /\ mempool = {}
      /\ gen = 0 /\ live = FALSE /\ targets = {} /\ birthday = 0
      /\ phase = "waiting" /\ timer = FALSE /\ from = [e \in Envelopes |-> 0]
      /\ paid = [e \in Envelopes |-> None] /\ looks = {}
  BY DEF Init
<1>2. 0 \in Heights /\ 1 \in Heights /\ 0 \in 0 .. MaxRollback /\ 0 \in 0 .. Generations
  BY WatchAssumption DEF Heights
<1>3. TypeOK
  BY <1>1, <1>2 DEF TypeOK
<1>4. Numbered /\ Forgotten /\ OneDriver /\ AsksItsOwn
  BY <1>1 DEF Numbered, Forgotten, OneDriver, AsksItsOwn, Awaited
<1>5. Data
  BY <1>1 DEF Data, InChain, WithinMargin, AnswersTrue, Awaited, NeverSkips, FinalLinkCovers
<1> QED
  BY <1>3, <1>4, <1>5 DEF IInv, Control

LEMMA InvariantHolds ==
  Spec => []IInv
<1>1. IInv /\ [Next]_vars => IInv'
  BY ControlHolds, DataHolds DEF IInv
<1> QED
  BY <1>1, InitHolds, PTL DEF Spec

\* The state of the watch has its types, for any number of envelopes and any chain.
THEOREM WatchTypes == Spec => []TypeOK
<1>1. IInv => TypeOK
  BY DEF IInv, Control
<1> QED
  BY <1>1, InvariantHolds, PTL

\* Whatever is hidden, shown, stopped, restarted and disposed of, the watch is driven by
\* its timer or by one look, and by nothing beside it.
THEOREM WatchHasOneDriver == Spec => []OneDriver
<1>1. IInv => OneDriver
  BY DEF IInv, Control
<1> QED
  BY <1>1, InvariantHolds, PTL

\* As long as reorgs take back no more than REORG_MARGIN allows, what the watch skips
\* holds no payment the links can open, with gateways that lag as they like.
THEOREM WatchNeverSkips == Spec => []NeverSkips
<1>1. IInv => NeverSkips
  BY DEF IInv, Data
<1> QED
  BY <1>1, InvariantHolds, PTL

\* On a chain that kept its blocks every final link starts at the first payment that
\* the original link opens.
THEOREM FinalLinksCover == Spec => []FinalLinkCovers
<1>1. IInv => FinalLinkCovers
  BY DEF IInv, Data
<1> QED
  BY <1>1, InvariantHolds, PTL

\* A round that goes on asks for an envelope that is unpaid once the step is done.
LEMMA RoundAsksUnpaid ==
  ASSUME TypeOK, NEW e, NEW rest \in SUBSET looks, NEW refused \in BOOLEAN,
         Continue(e, from', paid', rest, FALSE, refused)
  PROVE  \A k \in looks' : \/ k \in looks
                           \/ /\ k.res = NotYet /\ k.gen = gen
                              /\ k.env \in targets /\ paid'[k.env] = None
<1>1. /\ phase' \in {"waiting", "checking", "done"}
      /\ timer' = (phase' = "waiting")
      /\ \/ phase' # "checking" /\ looks' = rest
         \/ /\ phase' = "checking"
            /\ \E x \in targets : paid'[x] = None /\ looks' = rest \cup {LookAt(x, from'[x])}
  BY RoundGoesOn
<1> QED
  BY <1>1 DEF LookAt

\* The looks a tick, an answered look and a failed look begin are wanted.
LEMMA TickAsks ==
  ASSUME Control, NEW refused \in BOOLEAN, Tick(refused)
  PROVE  \A k \in looks' : k.res = NotYet /\ k \notin looks =>
            live' /\ k.gen = gen' /\ k.env \in targets' /\ paid'[k.env] = None
<1>1. CASE looks' = looks
  BY <1>1
<1>2. CASE Continue(1, from, paid, looks, FALSE, refused)
  <2>1. looks \in SUBSET looks /\ TypeOK /\ live' /\ gen' = gen /\ targets' = targets
        /\ from' = from /\ paid' = paid
    BY DEF Control, Tick
  <2>2. Continue(1, from', paid', looks, FALSE, refused)
    BY <1>2, <2>1
  <2>3. \A k \in looks' : \/ k \in looks
                          \/ /\ k.res = NotYet /\ k.gen = gen
                             /\ k.env \in targets /\ paid'[k.env] = None
    BY <2>1, <2>2, RoundAsksUnpaid
  <2> QED
    BY <2>1, <2>3
<1> QED
  BY <1>1, <1>2 DEF Tick

LEMMA AnswerAsks ==
  ASSUME Control, NEW refused \in BOOLEAN, NEW l \in looks, LookAnswers(l, refused)
  PROVE  \A k \in looks' : k.res = NotYet /\ k \notin looks =>
            live' /\ k.gen = gen' /\ k.env \in targets' /\ paid'[k.env] = None
<1>1. CASE Dropped(l)
  BY <1>1 DEF LookAnswers
<1>2. CASE ~Dropped(l)
  <2>1. /\ Continue(l.env + 1, from', paid', looks \ {l}, FALSE, refused)
        /\ looks \ {l} \in SUBSET looks /\ TypeOK
    BY <1>2, RoundWithout DEF LookAnswers, Control
  <2>2. live' /\ gen' = gen /\ targets' = targets
    BY <1>2, RoundWithout DEF LookAnswers
  <2>3. \A k \in looks' : \/ k \in looks
                          \/ /\ k.res = NotYet /\ k.gen = gen
                             /\ k.env \in targets /\ paid'[k.env] = None
    BY <2>1, <2>2, RoundAsksUnpaid
  <2> QED
    BY <2>2, <2>3
<1> QED
  BY <1>1, <1>2

LEMMA FailureAsks ==
  ASSUME Control, NEW refused \in BOOLEAN, NEW l \in looks, LookFails(l, refused)
  PROVE  \A k \in looks' : k.res = NotYet /\ k \notin looks =>
            live' /\ k.gen = gen' /\ k.env \in targets' /\ paid'[k.env] = None
<1>1. CASE Dropped(l)
  BY <1>1 DEF LookFails
<1>2. CASE ~Dropped(l)
  <2>1. /\ Continue(l.env + 1, from', paid', looks \ {l}, FALSE, refused)
        /\ looks \ {l} \in SUBSET looks /\ TypeOK
    BY <1>2, RoundWithout DEF LookFails, Control
  <2>2. live' /\ gen' = gen /\ targets' = targets
    BY <1>2, RoundWithout DEF LookFails
  <2>3. \A k \in looks' : \/ k \in looks
                          \/ /\ k.res = NotYet /\ k.gen = gen
                             /\ k.env \in targets /\ paid'[k.env] = None
    BY <2>1, <2>2, RoundAsksUnpaid
  <2> QED
    BY <2>2, <2>3
<1> QED
  BY <1>1, <1>2

\* A look that begins is the live watch's, at one of its envelopes not yet seen paid.
THEOREM WatchLooksAreWanted == Spec => LooksAreWanted
<1> DEFINE Wanted == \A l \in looks' : l.res = NotYet /\ l \notin looks =>
                       live' /\ l.gen = gen' /\ l.env \in targets' /\ paid'[l.env] = None
<1>1. IInv /\ [Next]_vars => [Wanted]_vars
  <2> SUFFICES ASSUME Control, Next PROVE Wanted
    BY DEF IInv
  <2>1. CASE looks' \subseteq looks
    BY <2>1
  <2>2. ASSUME NEW refused \in BOOLEAN, Tick(refused) PROVE Wanted
    BY <2>2, TickAsks
  <2>3. ASSUME NEW refused \in BOOLEAN, NEW l \in looks, LookAnswers(l, refused)
        PROVE  Wanted
    BY <2>3, AnswerAsks
  <2>4. ASSUME NEW refused \in BOOLEAN, NEW l \in looks, LookFails(l, refused)
        PROVE  Wanted
    BY <2>4, FailureAsks
  <2>5. CASE AllLooksFail
    <3>1. CASE Awaited = {}
      BY <2>5, <3>1 DEF AllLooksFail
    <3>2. CASE Awaited # {}
      <4>1. PICK l \in Awaited : Continue(l.env + 1, from, paid, {}, timer, TRUE)
        BY <2>5, <3>2 DEF AllLooksFail
      <4>2. l \in looks /\ ~Dropped(l)
        BY DEF Awaited
      <4>3. /\ Continue(l.env + 1, from, paid, {}, FALSE, TRUE) /\ live
            /\ {} \in SUBSET looks /\ TypeOK /\ TRUE \in BOOLEAN
        BY <4>1, <4>2, RoundWithout DEF Control
      <4>4. live' /\ gen' = gen /\ targets' = targets /\ paid' = paid
        BY <2>5, <4>3 DEF AllLooksFail
      <4>5. \A k \in looks' : \/ k \in looks
                              \/ /\ k.res = NotYet /\ k.gen = gen
                                 /\ k.env \in targets /\ paid'[k.env] = None
        BY <4>3, <4>4, RoundAsks
      <4> QED
        BY <4>4, <4>5
    <3> QED
      BY <3>1, <3>2
  <2>6. ASSUME NEW l \in looks, NEW t \in Heights, Read(l, t)
        PROVE  Wanted
    <3>1. l \in Looks /\ t \in Nat
      BY WatchAssumption DEF Control, TypeOK, Heights
    <3>2. CheckResult(Found(l, t), t) # NotYet
      BY <3>1 DEF CheckResult, NotYet, None
    <3>3. [l EXCEPT !.res = CheckResult(Found(l, t), t)].res # NotYet
      BY <3>1, <3>2 DEF Looks
    <3> QED
      BY <2>6, <3>3 DEF Read
  <2>7. CASE Chain \/ Tab \/ Dispose \/ \E n \in Envelopes, b \in Heights : Open(n, b)
    <3>1. looks' = looks
      BY <2>7 DEF Chain, Pay, Mine, Reorg, watchVars, Tab, Show, Restart, Dispose, Open
    <3> QED
      BY <3>1
  <2> QED
    BY <2>2, <2>3, <2>4, <2>5, <2>6, <2>7 DEF Next
<1> QED
  BY <1>1, InvariantHolds, PTL DEF Spec, LooksAreWanted
=============================================================================
