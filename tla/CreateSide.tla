----------------------------- MODULE CreateSide -----------------------------
(***************************************************************************)
(* The sender's side as one system: the create page (pages/Create.tsx and  *)
(* generateGroup of lib/group.ts), the payment watch it runs               *)
(* (PaymentWatch), and the one core worker both of them call (CoreRpc).    *)
(*                                                                         *)
(* An ask is what the page posts: the method, its argument (a secret, or   *)
(* the row a look is for), and for a look where it starts and whose watch  *)
(* it is.  Row e of a result is envelope e of the watch.                   *)
(***************************************************************************)
EXTENDS CoreRpc, PaymentWatch

CONSTANTS NoBirthday   \* neither gateway told the height

VARIABLES core,     \* loadCore(): "loading", "ok" or "failed", kept for good
          job,      \* the submit under way
          created,  \* the result on the page, or NoResult
          step,     \* the wizard of a single envelope
          saved     \* its "I saved the link" box

pageVars == <<core, job, created, step, saved>>
allVars == <<rpcVars, vars, pageVars>>

NoJob == [stage |-> "none", count |-> 0, rows |-> << >>, row |-> << >>, birthday |-> 0]
NoResult == [rows |-> << >>, birthday |-> 0]

InitAsk == [method |-> "init", arg |-> 0, start |-> 0, gen |-> 0]

LookAsk(l) == [method |-> "open_envelope", arg |-> l.env, start |-> l.from, gen |-> l.gen]

FirstId == CHOOSE id \in Ids : TRUE

IsLook(ask) == ask.method = "open_envelope"

\* The look an ask of a watch was sent for.
LookOf(ask) ==
  CHOOSE l \in looks : l.gen = ask.gen /\ l.env = ask.arg /\ l.from = ask.start

\* The looks a step of the watch starts.
NewLooks == { LookAsk(l) : l \in { x \in looks' \ looks : x.res = NotYet } }

\* The page has mounted with an empty form, and loadCore has posted its init.
CreateInit ==
  /\ Init
  /\ pending = With(<< >>, FirstId, InitAsk) /\ running = << >>
  /\ dead = FALSE
  /\ inbox = <<[id |-> FirstId, ask |-> InitAsk]>> /\ outbox = << >>
  /\ backend = "none"
  /\ core = "loading" /\ job = NoJob
  /\ created = NoResult /\ step = 1 /\ saved = FALSE

(***************************************************************************)
(* Making the envelopes.                                                   *)
(***************************************************************************)
\* generateGroup asks these four of the core for every row, one after another.
RowCalls == <<"generate_secret", "derive", "build_fragment", "payment_uri">>

\* The argument is the secret, or the address in payment_uri.  generate_secret has
\* none: there it is how many secrets there are with this row.
RowAsk(rows, row) ==
  [method |-> RowCalls[Len(row) + 1],
   arg |-> CASE row = << >>  -> Len(rows) + 1
             [] Len(row) = 3 -> row[2]
             [] OTHER        -> row[1],
   start |-> 0, gen |-> 0]

JobFails == job' = NoJob

\* The form is on the page and its button is not busy.  It takes up to as many
\* envelopes as its group allows, and a text in it may be one onSubmit refuses.
OnForm == job = NoJob /\ created = NoResult

\* onSubmit, up to its first await.  Everything the form holds is read here.
Submit(valid, n) ==
  /\ OnForm /\ gen + n <= Generations
  /\ job' = IF ~valid THEN job
            ELSE [NoJob EXCEPT !.stage = IF core = "ok" THEN "height" ELSE "core",
                               !.count = n]
  /\ UNCHANGED <<rpcVars, vars, core, created, step, saved>>

\* await loadCore(): a core that did not load fails every submit.
CoreAwaited ==
  /\ job.stage = "core" /\ core # "loading"
  /\ IF core = "ok" THEN job' = [job EXCEPT !.stage = "height"]
                    ELSE JobFails
  /\ UNCHANGED <<rpcVars, vars, core, created, step, saved>>

\* await fetchChainHeight(): one height for the whole group, or none.
HeightAwaited ==
  /\ job.stage = "height"
  /\ \E b \in { h \in Heights : tip - MaxLag <= h /\ h <= tip /\ h > 0 } \cup {NoBirthday} :
       IF dead THEN JobFails
               ELSE job' = [job EXCEPT !.stage = "make", !.birthday = b]
  /\ Send(pending, {RowAsk(<< >>, << >>)})
  /\ UNCHANGED <<dead, running, outbox, backend, vars, core, created, step, saved>>

\* A group that trusts the core's randomness.
SeenNothing(rows, s) == FALSE

\* The core produced the same secret twice.
SeenSecret(rows, s) == \E i \in DOMAIN rows : rows[i][1] = s

\* The answer to one call of generateGroup: the next call, the next row, or the
\* group is made.  p is what is still awaited.
GroupGoesOn(value, p) ==
  LET row  == Append(job.row, value)
      full == Len(row) = Len(RowCalls)
      rows == IF full THEN Append(job.rows, row) ELSE job.rows
      next == IF full THEN << >> ELSE row
  IN  IF Len(row) = 1 /\ SeenSecret(job.rows, value)
        THEN JobFails /\ Send(p, {})
        ELSE /\ job' = [job EXCEPT !.rows = rows, !.row = next,
                          !.stage = IF Len(rows) = job.count THEN "seal" ELSE "make"]
             /\ Send(p, IF Len(rows) = job.count THEN {} ELSE {RowAsk(rows, next)})

\* The seal has played: the result is shown, and its watch starts when the links
\* have a birthday.
ShowResult ==
  /\ job.stage = "seal"
  /\ created' = [rows |-> job.rows, birthday |-> job.birthday]
  /\ job' = NoJob
  /\ IF job.birthday = NoBirthday THEN UNCHANGED vars
                                  ELSE Open(Len(job.rows), job.birthday)
  /\ UNCHANGED <<rpcVars, core, step, saved>>

(***************************************************************************)
(* The wizard of one envelope, and leaving a result.                       *)
(***************************************************************************)
Single == Len(created.rows) = 1

\* The last step, where the link is handed on; "Make another" is on it and on the
\* table of a group.
OnShare == Single /\ step = 3

OnAgain == OnShare \/ (created # NoResult /\ ~Single)

PaidHere == live /\ paid[1] # None

TickSaved ==
  /\ Single /\ step = 1
  /\ saved' = ~saved
  /\ UNCHANGED <<rpcVars, vars, core, job, created, step>>

SaveContinue ==
  /\ Single /\ step = 1 /\ saved
  /\ step' = IF PaidHere THEN 3 ELSE 2
  /\ UNCHANGED <<rpcVars, vars, core, job, created, saved>>

PayBack ==
  /\ Single /\ step = 2
  /\ step' = 1
  /\ UNCHANGED <<rpcVars, vars, core, job, created, saved>>

SkipToShare ==
  /\ Single /\ step = 2
  /\ step' = 3
  /\ UNCHANGED <<rpcVars, vars, core, job, created, saved>>

\* The effect on [paid, step]: the payment moves the sender on from the pay step.
StepWhenPaid == IF Single /\ paid'[1] # None /\ step = 2 THEN 3 ELSE step

\* A dispose that only sets its flag.
ResetFlagOnly ==
  /\ OnAgain
  /\ created' = NoResult /\ step' = 1 /\ saved' = FALSE
  /\ live' = FALSE
  /\ UNCHANGED <<rpcVars, chainVars, gen, targets, birthday, phase, timer, from, paid,
                 looks, core, job>>

\* "Make another": the result goes, and its watch is disposed of.
Reset ==
  /\ OnAgain
  /\ created' = NoResult /\ step' = 1 /\ saved' = FALSE
  /\ IF live THEN Dispose ELSE UNCHANGED vars
  /\ UNCHANGED <<rpcVars, core, job>>

(***************************************************************************)
(* The worker and the channel.                                             *)
(***************************************************************************)
WorkerTakes == Take /\ UNCHANGED <<vars, pageVars>>

WorkerLoads == Load /\ UNCHANGED <<vars, pageVars>>

\* Secrets are numbered as they first appear, and may repeat.
Values(ask) ==
  IF ask.method = "generate_secret" THEN 1 .. ask.arg ELSE {ask.arg}

\* The four calls of a row: a random secret, then what the argument determines.
WorkerServes ==
  /\ inbox # << >>
  /\ \E value \in Values(Head(inbox).ask) : Serve("result", <<value>>)
  /\ UNCHANGED <<vars, pageVars>>

\* The core throws.
WorkerThrows == Serve("error", << >>) /\ UNCHANGED <<vars, pageVars>>

WorkerInits ==
  /\ \E id \in DOMAIN running : running[id] = InitAsk
       /\ Finish(id, IF backend = "failed" THEN "error" ELSE "result", << >>)
  /\ UNCHANGED <<vars, pageVars>>

\* open_envelope answers (BlockScan): what a gateway's chain up to t holds.
WorkerLooks(id, lag) ==
  /\ id \in DOMAIN running /\ IsLook(running[id]) /\ ~dead
  /\ LET l == LookOf(running[id])
         r == CheckResult(Found(l, tip - lag), tip - lag)
     IN  /\ Read(l, tip - lag)
         /\ Finish(id, "result", <<r.height, r.tip>>)
  /\ UNCHANGED pageVars

\* No gateway answers it; or it ends after the page gave up on the worker.
WorkerLookFails ==
  /\ \E id \in DOMAIN running : IsLook(running[id]) /\ Finish(id, "error", << >>)
  /\ UNCHANGED <<vars, pageVars>>

Ignored(id) == id \notin DOMAIN pending

\* What an answer means to whoever awaits it.
Deliver ==
  /\ outbox # << >>
  /\ LET m   == Head(outbox)
         p   == Without(pending, m.id)
         ask == pending[m.id]
     IN  \/ /\ Ignored(m.id)
            /\ UNCHANGED <<pending, inbox, vars, pageVars>>
         \/ /\ ~Ignored(m.id) /\ ask = InitAsk
            /\ core' = IF m.kind = "result" THEN "ok" ELSE "failed"
            /\ Send(p, {})
            /\ UNCHANGED <<vars, job, created, step, saved>>
         \/ /\ ~Ignored(m.id) /\ IsLook(ask)
            /\ IF m.kind = "result" THEN LookAnswers(LookOf(ask), dead)
                                    ELSE LookFails(LookOf(ask), dead)
            /\ Send(p, NewLooks)
            /\ step' = StepWhenPaid
            /\ UNCHANGED <<core, job, created, saved>>
         \/ /\ ~Ignored(m.id) /\ ask # InitAsk /\ ~IsLook(ask)
            /\ IF m.kind = "result" THEN GroupGoesOn(m.value[1], p)
                                    ELSE JobFails /\ Send(p, {})
            /\ UNCHANGED <<vars, core, created, step, saved>>
  /\ Receive
  /\ UNCHANGED <<dead, running, backend>>

\* What the client rejects in a step.
Rejected == { pending[id] : id \in DOMAIN pending \ DOMAIN pending' }

\* The worker reports an error, and every call awaited is rejected at once.
WorkerDies ==
  /\ Die
  /\ core' = IF InitAsk \in Rejected THEN "failed" ELSE core
  /\ IF \E ask \in Rejected : ask # InitAsk /\ ~IsLook(ask)
       THEN JobFails ELSE UNCHANGED job
  /\ IF \E ask \in Rejected : IsLook(ask) THEN AllLooksFail ELSE UNCHANGED vars
  /\ UNCHANGED <<created, step, saved>>

WatchTicks ==
  /\ Tick(dead)
  /\ Send(pending, NewLooks)
  /\ UNCHANGED <<dead, running, outbox, backend, pageVars>>

Around == (Chain \/ Tab) /\ UNCHANGED <<rpcVars, pageVars>>

Worker == WorkerTakes \/ WorkerLoads \/ WorkerServes \/ WorkerInits

CreateNext ==
  \/ \E valid \in BOOLEAN, n \in Envelopes : Submit(valid, n)
  \/ CoreAwaited \/ HeightAwaited \/ ShowResult
  \/ TickSaved \/ SaveContinue \/ PayBack \/ SkipToShare \/ Reset
  \/ WorkerTakes \/ WorkerLoads \/ WorkerServes \/ WorkerThrows \/ WorkerInits
  \/ (\E id \in Ids, lag \in 0 .. MaxLag : WorkerLooks(id, lag)) \/ WorkerLookFails
  \/ Deliver \/ WorkerDies \/ WatchTicks \/ Around

CreateSpec == CreateInit /\ [][CreateNext]_allVars

\* The browser runs what is due: the end of an await, a message, a timer, a load.
\* A worker that is not dead answers, a gateway too, and one that is behind the
\* chain not forever.  The steps named together are never enabled together.
Fairness ==
  /\ WF_allVars(CoreAwaited \/ HeightAwaited \/ ShowResult)
  /\ WF_allVars(~dead /\ (WorkerTakes \/ WorkerServes))
  /\ WF_allVars(~dead /\ (WorkerLoads \/ WorkerInits))
  /\ WF_allVars(Deliver) /\ WF_allVars(WatchTicks)
  /\ \A id \in Ids : SF_allVars(WorkerLooks(id, 0))

FairSpec == CreateSpec /\ Fairness

(***************************************************************************)
(* Properties.                                                             *)
(***************************************************************************)
\* finalLink: the same secret, another start.
FinalLink(link, height) == [link EXCEPT !.start = height]

\* The links the page hands out for row e: the one made with it and, in the table
\* of a group, the final one (GroupResult's rows).
LinksShown(e) ==
  LET link == [secret |-> created.rows[e][3], start |-> created.birthday]
  IN  {link} \cup (IF ~Single /\ live /\ paid[e] # None
                      THEN {FinalLink(link, paid[e])} ELSE {})

\* Each row is one envelope, nobody else's: the address, the link and the payment
\* request handed out on it come from one secret and no other row has it, whatever
\* was answered late, and no link of it starts above a payment the page has seen.
LinksOpenTheirRows ==
  \A e \in DOMAIN created.rows :
    /\ created.rows[e][2] = created.rows[e][1] /\ created.rows[e][4] = created.rows[e][1]
    /\ \A i \in DOMAIN created.rows : i # e => created.rows[i][1] # created.rows[e][1]
    /\ \A link \in LinksShown(e) :
         /\ link.secret = created.rows[e][1]
         /\ live /\ rolled = 0 /\ paid[e] # None => link.start <= paid[e]

NoAnswer == <<"none", << >> >>

\* The answer the messages of q hold for the call under id.
ReplyIn(q, id) ==
  IF id \in IdsIn(q)
    THEN LET m == CHOOSE m \in { q[i] : i \in DOMAIN q } : m.id = id
         IN  <<m.kind, m.value>>
    ELSE NoAnswer

\* What the page awaits, with the answers that are on their way.
Underway ==
  [id \in DOMAIN pending |-> [ask |-> pending[id], reply |-> ReplyIn(outbox, id)]]

Suits(ask, reply) ==
  \/ reply[1] = "error"
  \/ ask = InitAsk /\ reply = <<"result", << >> >>
  \/ /\ reply[1] = "result" /\ IsLook(ask)
     /\ reply[2] \in { <<h, t>> : h \in Heights \cup {None}, t \in Heights }
  \/ /\ reply[1] = "result" /\ ask # InitAsk /\ ~IsLook(ask)
     /\ reply[2] \in { <<v>> : v \in Values(ask) }

Calls ==
  INSTANCE CoreCalls WITH
    Slots   <- Ids,
    NoReply <- NoAnswer,
    calls   <- Underway,
    gone    <- dead

\* Under the create page the channel keeps the promise of CoreCalls: no answer
\* reaches another call than the one it answers, however late it comes.
ImplementsCalls == Calls!Spec

\* The watch of the page is PaymentWatch: what is proved of it holds here.
ImplementsWatch == Spec

\* Nobody waits for ever: a submit ends, and so does every round of looks, with a
\* worker that dies, a load or a gateway that fails, and answers that come late
\* (client.ts, lines 97 to 107).
EveryoneIsAnswered ==
  /\ []<>(job = NoJob)
  /\ []<>(phase # "checking")

\* A payment the links of the result can open is seen, unless the watch gave up
\* after two hours, paused in a hidden tab or lost its core.
Overdue ==
  { e \in targets : paid[e] = None /\ \E h \in mined[e] : birthday <= h }

PaymentIsSeen ==
  []<>(dead \/ phase \in {"stopped", "paused"} \/ Overdue = {})
=============================================================================
