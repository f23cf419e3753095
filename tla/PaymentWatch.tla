---------------------------- MODULE PaymentWatch ----------------------------
(***************************************************************************)
(* The payment watch of the create page: createPaymentWatch in             *)
(* lib/paymentWatch.ts, as usePaymentWatch in pages/Create.tsx starts,     *)
(* feeds and disposes of it, and the chain the watched envelopes are paid  *)
(* on.                                                                     *)
(*                                                                         *)
(* Each result of the page has a watch of its own, numbered by the         *)
(* envelopes made before and with it.  The                                 *)
(* state kept is that of the newest one; the older ones are disposed of,   *)
(* and all that is left of them is the look they may still await.  The     *)
(* clock and the tab are left out: at any tick two hours may have passed,  *)
(* or ten minutes out of sight.                                            *)
(***************************************************************************)
EXTENDS Integers, FiniteSets

CONSTANTS Rows,           \* the most envelopes one result holds
          MaxTip,         \* the last height the chain reaches (bound)
          MaxPays,        \* payments made to one result (bound)
          MaxRollback,    \* blocks reorgs take back in all
          ReorgMargin,    \* REORG_MARGIN
          MaxLag,         \* how far behind the chain a gateway answers
          Generations     \* envelopes made in one visit (bound)

ASSUME WatchAssumption ==
  /\ Rows \in Nat \ {0} /\ MaxTip \in Nat \ {0} /\ MaxPays \in Nat
  /\ MaxRollback \in Nat /\ ReorgMargin \in Nat /\ MaxLag \in Nat
  /\ Generations \in Nat
  /\ MaxRollback <= ReorgMargin + 1

VARIABLES tip, rolled,       \* the chain's height, and what reorgs took back
          mined,             \* mined[e]: heights payments to envelope e are at
          mempool,           \* envelopes with a payment waiting to be mined
          gen, live,         \* the newest watch, and whether it is not disposed
          targets, birthday, \* its envelopes, and where their links start
          phase, timer,      \* its phase, and whether its timer is set
          from, paid,        \* where the next look starts; height seen, or None
          looks              \* the open_envelope calls awaited

chainVars == <<tip, rolled, mined, mempool>>
watchVars == <<gen, live, targets, birthday, phase, timer, from, paid, looks>>
vars == <<chainVars, watchVars>>

None == -1
Envelopes == 1 .. Rows
Heights == 0 .. MaxTip

\* A look's answer, once the gateway has given it: the height of the payment it
\* found, or None, and the tip it scanned to.
NotYet == [height |-> None, tip |-> None]
Results == [height : Heights \cup {None}, tip : Heights \cup {None}]
Looks == [gen : 1 .. Generations, env : Envelopes, from : Heights, res : Results]

Least(S) == CHOOSE x \in S : \A y \in S : x <= y
Larger(a, b) == IF a < b THEN b ELSE a

Init ==
  /\ tip = 1 /\ rolled = 0
  /\ mined = [e \in Envelopes |-> {}] /\ mempool = {}
  /\ gen = 0 /\ live = FALSE
  /\ targets = {} /\ birthday = 0
  /\ phase = "waiting" /\ timer = FALSE
  /\ from = [e \in Envelopes |-> 0]
  /\ paid = [e \in Envelopes |-> None]
  /\ looks = {}

(***************************************************************************)
(* The chain.                                                              *)
(***************************************************************************)
Payments == { p \in Envelopes \X Heights : p[2] \in mined[p[1]] }

\* The sender pays a row of the result; what is paid once nobody watches any more
\* changes nothing here.
Pay(e) ==
  /\ live /\ e \in targets \ mempool
  /\ Cardinality(mempool) + Cardinality(Payments) < MaxPays
  /\ mempool' = mempool \cup {e}
  /\ UNCHANGED <<tip, rolled, mined, watchVars>>

Mine ==
  /\ tip < MaxTip
  /\ tip' = tip + 1
  /\ \E S \in SUBSET mempool :
       /\ mempool' = mempool \ S
       /\ mined' = [e \in Envelopes |->
                      IF e \in S THEN mined[e] \cup {tip + 1} ELSE mined[e]]
  /\ UNCHANGED <<rolled, watchVars>>

\* The last block is orphaned; what it held waits to be mined again.
Reorg ==
  /\ rolled < MaxRollback /\ tip > 0
  /\ tip' = tip - 1 /\ rolled' = rolled + 1
  /\ mined' = [e \in Envelopes |-> mined[e] \ {tip}]
  /\ mempool' = mempool \cup { e \in Envelopes : tip \in mined[e] }
  /\ UNCHANGED watchVars

(***************************************************************************)
(* Pieces of the watch.                                                    *)
(***************************************************************************)
AllPaid(p) == \A e \in targets : p[e] # None

\* schedule(): what is set is the one timer.
Schedule == phase' = "waiting" /\ timer' = TRUE

\* A round that looks again at what is paid.
FromOn(e, p) == { x \in targets : e <= x }

\* What a round still looks at from envelope e on.
Unpaid(e, p) == { x \in targets : e <= x /\ p[x] = None }

\* The loop of tick() from envelope e on: the next look at an envelope that is
\* not paid, or the end of the round and, unless all are paid, the next timer.
\* refused: the core rejects every call, and nothing comes of the round.
Continue(e, f, p, rest, set, refused) ==
  LET unpaid == Unpaid(e, p)
      look   == [gen |-> gen, env |-> Least(unpaid), from |-> f[Least(unpaid)],
                 res |-> NotYet]
  IN  \/ /\ unpaid # {} /\ ~refused
         /\ phase' = "checking" /\ timer' = set
         /\ looks' = rest \cup {look}
      \/ /\ unpaid = {} \/ refused
         /\ AllPaid(p)
         /\ phase' = "done" /\ timer' = set
         /\ looks' = rest
      \/ /\ unpaid = {} \/ refused
         /\ ~AllPaid(p)
         /\ Schedule
         /\ looks' = rest

\* scan_range and the walk: the payments a look reads on a chain up to height t.
Found(l, t) == { h \in mined[l.env] : (IF l.from < t THEN l.from ELSE t) <= h /\ h <= t }

\* toCheckResult without the minimum: the last note is as good as the first.
CheckLast(found, t) ==
  [height |-> IF found = {} THEN None ELSE CHOOSE x \in found : \A y \in found : y <= x,
   tip |-> t]

\* toCheckResult.
CheckResult(found, t) ==
  [height |-> IF found = {} THEN None ELSE Least(found), tip |-> t]

\* The next look right above the tip the last one reached.
NextFromTip(t) == Larger(birthday, t + 1)

NextFrom(t) == Larger(birthday, t - ReorgMargin)

\* if (disposed) return, after the await.
Dropped(l) == ~live \/ l.gen # gen

\* The looks whose answer the watch on the page is waiting for.
Awaited == { l \in looks : ~Dropped(l) }

(***************************************************************************)
(* The watch.                                                              *)
(***************************************************************************)
\* createPaymentWatch and start() for n new envelopes whose links start at b.
Open(n, b) ==
  /\ ~live /\ gen + n <= Generations
  /\ gen' = gen + n /\ live' = TRUE
  /\ targets' = 1 .. n /\ birthday' = b
  /\ from' = [e \in Envelopes |-> b]
  /\ Schedule
  /\ UNCHANGED <<chainVars, paid, looks>>

\* tick(): the cap first, then a tab hidden for long, then a round.
Tick(refused) ==
  /\ live /\ timer
  /\ \/ phase' = "stopped" /\ timer' = FALSE /\ UNCHANGED looks
     \/ phase' = "paused" /\ timer' = FALSE /\ UNCHANGED looks
     \/ Continue(1, from, paid, looks, FALSE, refused)
  /\ UNCHANGED <<chainVars, gen, live, targets, birthday, from, paid>>

\* A gateway whose chain ends at height t answers a look.
Read(l, t) ==
  /\ l \in looks /\ l.res = NotYet
  /\ t \in Heights /\ tip - MaxLag <= t /\ t <= tip
  /\ looks' = (looks \ {l}) \cup {[l EXCEPT !.res = CheckResult(Found(l, t), t)]}
  /\ UNCHANGED <<chainVars, gen, live, targets, birthday, phase, timer,
                 from, paid>>

\* The await of a look returns: what it found is kept, or the next look at that
\* envelope starts below the tip it reached; the round goes on.
LookAnswers(l, refused) ==
  /\ l \in looks /\ l.res # NotYet
  /\ IF Dropped(l)
       THEN /\ looks' = looks \ {l}
            /\ UNCHANGED <<phase, timer, from, paid>>
       ELSE /\ paid' = [paid EXCEPT ![l.env] = l.res.height]
            /\ from' = IF l.res.height # None THEN from
                       ELSE [from EXCEPT ![l.env] = NextFrom(l.res.tip)]
            /\ Continue(l.env + 1, from', paid', looks \ {l}, timer, refused)
  /\ UNCHANGED <<chainVars, gen, live, targets, birthday>>

\* A look that throws out of the round.
LookThrowsOut(l, refused) ==
  /\ l \in looks
  /\ looks' = looks \ {l}
  /\ UNCHANGED <<chainVars, gen, live, targets, birthday, phase, timer, from, paid>>

\* The await of a look throws: the round goes on.
LookFails(l, refused) ==
  /\ l \in looks
  /\ IF Dropped(l)
       THEN looks' = looks \ {l} /\ UNCHANGED <<phase, timer>>
       ELSE Continue(l.env + 1, from, paid, looks \ {l}, timer, refused)
  /\ UNCHANGED <<chainVars, gen, live, targets, birthday, from, paid>>

\* The core is gone: every look awaited throws.
AllLooksFail ==
  /\ IF Awaited = {}
       THEN looks' = {} /\ UNCHANGED <<phase, timer>>
       ELSE \E l \in Awaited : Continue(l.env + 1, from, paid, {}, timer, TRUE)
  /\ UNCHANGED <<chainVars, gen, live, targets, birthday, from, paid>>

\* setHidden(false) that does not ask which phase the watch is in.
ShowAlways ==
  /\ live /\ phase # "stopped"
  /\ Schedule
  /\ UNCHANGED <<chainVars, gen, live, targets, birthday, from, paid, looks>>

\* setHidden(false): only a watch that paused looks again, in a second.
Show ==
  /\ live /\ phase = "paused"
  /\ Schedule
  /\ UNCHANGED <<chainVars, gen, live, targets, birthday, from, paid, looks>>

\* restart(), the button under a watch that gave up.
Restart ==
  /\ live /\ phase = "stopped"
  /\ Schedule
  /\ UNCHANGED <<chainVars, gen, live, targets, birthday, from, paid, looks>>

\* dispose(): the timer goes, a look under way is not called back, and what the
\* watch knew goes with it.
Dispose ==
  /\ live
  /\ live' = FALSE /\ timer' = FALSE /\ phase' = "waiting"
  /\ targets' = {} /\ birthday' = 0
  /\ from' = [e \in Envelopes |-> 0]
  /\ paid' = [e \in Envelopes |-> None]
  /\ mined' = [e \in Envelopes |-> {}] /\ mempool' = {}
  /\ UNCHANGED <<tip, rolled, gen, looks>>

Chain == (\E e \in Envelopes : Pay(e)) \/ Mine \/ Reorg

Tab == Show \/ Restart

Next ==
  \/ Chain \/ Tab \/ Dispose \/ AllLooksFail
  \/ \E n \in Envelopes, b \in Heights : Open(n, b)
  \/ \E refused \in BOOLEAN :
       \/ Tick(refused)
       \/ \E l \in looks : LookAnswers(l, refused) \/ LookFails(l, refused)
  \/ \E l \in looks, t \in Heights : Read(l, t)

Spec == Init /\ [][Next]_vars

(***************************************************************************)
(* Properties.                                                             *)
(***************************************************************************)
TypeOK ==
  /\ tip \in Heights /\ rolled \in 0 .. MaxRollback
  /\ mined \in [Envelopes -> SUBSET Heights] /\ mempool \in SUBSET Envelopes
  /\ gen \in 0 .. Generations /\ live \in BOOLEAN
  /\ targets \in SUBSET Envelopes /\ birthday \in Heights
  /\ phase \in {"waiting", "checking", "paused", "stopped", "done"}
  /\ timer \in BOOLEAN
  /\ from \in [Envelopes -> Heights]
  /\ paid \in [Envelopes -> Heights \cup {None}]
  /\ looks \in SUBSET Looks

\* The watch is driven by one thing at a time, whatever is hidden, shown, stopped
\* and restarted meanwhile: the timer while it waits, one look while it checks,
\* nothing otherwise.  Two rounds side by side would queue fifty looks twice in
\* the one worker.
OneDriver ==
  live => /\ timer <=> phase = "waiting"
          /\ phase = "checking" <=> Awaited # {}
          /\ \A l, k \in Awaited : l = k

\* A payment the links of a result can open is never below where the watch looks
\* next: skipping what was scanned clean skips no payment, with a chain that was
\* reorganised and gateways that lag.
NeverSkips ==
  live => \A e \in targets : paid[e] = None =>
            \A h \in mined[e] : birthday <= h => from[e] <= h

\* On a chain that kept its blocks the final link (#secret.height) starts at a
\* payment, and leaves none of the envelope's payments below it that the
\* original link would have opened.
FinalLinkCovers ==
  live /\ rolled = 0 =>
    \A e \in targets : paid[e] # None =>
      /\ paid[e] \in mined[e]
      /\ \A h \in mined[e] : birthday <= h => paid[e] <= h

\* A watch that was disposed of asks for nothing more: every new look is the live
\* watch's, at one of its envelopes that no look has found paid.
LooksAreWanted ==
  [][\A l \in looks' : l.res = NotYet /\ l \notin looks =>
       live' /\ l.gen = gen' /\ l.env \in targets' /\ paid'[l.env] = None]_vars
=============================================================================
