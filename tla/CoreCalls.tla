------------------------------ MODULE CoreCalls ------------------------------
(***************************************************************************)
(* What the page may expect of the core, without ids, messages or a        *)
(* worker: every call is answered at most once, with an answer to what it  *)
(* asked, and a core that is gone answers nothing and takes nothing.       *)
(* CoreRpc implements it in the create page.                               *)
(***************************************************************************)
CONSTANTS Slots,               \* where the calls under way are held
          NoReply,
          Suits(_, _)          \* Suits(ask, reply): a right answer to the ask

VARIABLES calls,   \* slot |-> the ask and its reply, once there is one
          gone

vars == <<calls, gone>>

\* One call, to load the core, is under way.
Init ==
  /\ \E s \in Slots : DOMAIN calls = {s} /\ calls[s].reply = NoReply
  /\ gone = FALSE

Ask(s) ==
  /\ ~gone /\ s \notin DOMAIN calls
  /\ DOMAIN calls' = DOMAIN calls \cup {s}
  /\ calls'[s].reply = NoReply
  /\ \A x \in DOMAIN calls : calls'[x] = calls[x]

Answer(s) ==
  /\ s \in DOMAIN calls /\ calls[s].reply = NoReply
  /\ DOMAIN calls' = DOMAIN calls
  /\ calls'[s].ask = calls[s].ask
  /\ Suits(calls[s].ask, calls'[s].reply)
  /\ \A x \in DOMAIN calls \ {s} : calls'[x] = calls[x]

\* The caller gets the answer, and may at once make its next call.
Settle(s) ==
  /\ s \in DOMAIN calls /\ calls[s].reply # NoReply
  /\ \A x \in DOMAIN calls \ {s} : x \in DOMAIN calls' /\ calls'[x] = calls[x]
  /\ \A x, y \in DOMAIN calls' \ (DOMAIN calls \ {s}) :
       x = y /\ calls'[x].reply = NoReply

Collapse == gone' = TRUE /\ calls' = << >>

Next ==
  \/ \E s \in Slots : (Ask(s) \/ Answer(s) \/ Settle(s)) /\ UNCHANGED gone
  \/ Collapse

Spec == Init /\ [][Next]_vars
=============================================================================
