------------------------------- MODULE CoreRpc -------------------------------
(***************************************************************************)
(* The page's end (core/client.ts) and the worker's end (core/worker.ts)   *)
(* of the one channel to the wasm core, core/rpc.ts.  Messages keep their  *)
(* order in both directions; a call that awaits the network is answered    *)
(* when it ends, in any order, every other call as soon as it is taken.    *)
(*                                                                         *)
(* An id of the code is never used twice (nextId++).  Here an id may come  *)
(* back once nothing of the call it named is left: Ids bounds the calls    *)
(* under way at a time, and a page at that bound sends nothing.            *)
(***************************************************************************)
EXTENDS Naturals, Sequences, FiniteSets

CONSTANTS Ids

ASSUME IdsAssumption == Ids # {}

VARIABLES pending,   \* client: id |-> the ask awaited under it
          dead,      \* client: the worker reported an error
          inbox,     \* messages on the way to the worker
          running,   \* worker: id |-> an ask under way
          outbox,    \* messages on the way to the page
          backend    \* worker: "none", "loading", "ready" or "failed"

rpcVars == <<pending, dead, inbox, running, outbox, backend>>

\* init awaits the load, open_envelope and sweep_envelope the network; the rest
\* of the core answers in the turn that takes the call.
Slow(ask) == ask.method \in {"init", "open_envelope", "sweep_envelope"}

IdsIn(q) == { q[i].id : i \in DOMAIN q }

FreeIds ==
  Ids \ (DOMAIN pending \cup IdsIn(inbox) \cup DOMAIN running \cup IdsIn(outbox))

\* let id = nextId++.
NextId == CHOOSE id \in FreeIds : TRUE

With(f, id, v) == [x \in DOMAIN f \cup {id} |-> IF x = id THEN v ELSE f[x]]

Without(f, id) == [x \in DOMAIN f \ {id} |-> f[x]]

\* send() for each ask of A, none or one, with p still awaited: registered under
\* the next id and posted.  A dead client sends nothing.
Send(p, A) ==
  IF A = {} \/ dead
    THEN pending' = p /\ UNCHANGED inbox
    ELSE \E ask \in A :
           /\ FreeIds # {}
           /\ pending' = With(p, NextId, ask)
           /\ inbox' = Append(inbox, [id |-> NextId, ask |-> ask])

\* load(): the threaded package where asked for and possible, else the single one,
\* else the mock, and an error when the single one does not start.  Which it was
\* is only told; either outcome is kept for good.
Load ==
  /\ backend = "loading"
  /\ backend' \in {"ready", "failed"}
  /\ UNCHANGED <<pending, dead, inbox, running, outbox>>

Reply(id, kind, value) ==
  outbox' = Append(outbox, [id |-> id, kind |-> kind, value |-> value])

\* handleInit, and handleCall on a call the core answers later or cannot answer
\* yet: the message is taken and awaits ensureLoaded, which the first one starts.
Take ==
  /\ inbox # << >>
  /\ Slow(Head(inbox).ask)
  /\ inbox' = Tail(inbox)
  /\ running' = With(running, Head(inbox).id, Head(inbox).ask)
  /\ backend' = IF backend = "none" THEN "loading" ELSE backend
  /\ UNCHANGED <<pending, dead, outbox>>

\* handleCall on any other call, once the core is loaded: answered in its turn.
Serve(kind, value) ==
  /\ inbox # << >>
  /\ ~Slow(Head(inbox).ask)
  /\ backend = "ready"
  /\ inbox' = Tail(inbox)
  /\ Reply(Head(inbox).id, kind, value)
  /\ UNCHANGED <<pending, dead, running, backend>>

\* The rest of handleInit and handleCall: what the core returned is posted under
\* the id of the call, what it threw, and a load that failed, as an error.
Finish(id, kind, value) ==
  /\ id \in DOMAIN running
  /\ backend \in {"ready", "failed"}
  /\ backend = "failed" => kind = "error"
  /\ running' = Without(running, id)
  /\ Reply(id, kind, value)
  /\ UNCHANGED <<pending, dead, inbox, backend>>

\* The message listener: a result or an error settles the call it names.  A call
\* that is already settled has nobody waiting.
Receive ==
  /\ outbox # << >>
  /\ outbox' = Tail(outbox)

\* An error listener that only keeps new calls from being sent.
DieForgetting ==
  /\ ~dead
  /\ dead' = TRUE
  /\ UNCHANGED <<pending, inbox, running, outbox, backend>>

\* The error listener: nothing more is sent, and all that was awaited is rejected.
\* The worker may still be running; what it posts finds nobody waiting.
Die ==
  /\ ~dead
  /\ dead' = TRUE
  /\ pending' = << >>
  /\ UNCHANGED <<inbox, running, outbox, backend>>
=============================================================================
