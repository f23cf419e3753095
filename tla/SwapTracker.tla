----------------------------- MODULE SwapTracker -----------------------------
(***************************************************************************)
(* What the sent screen says of the swap it paid                           *)
(* (components/SwapTracker.tsx): it asks the rail's GET /status            *)
(* (lib/oneclick.ts) until the rail has ended, and shows three lines       *)
(* (swapChecklist of lib/solanaFlow.ts).  The rail is external.            *)
(*                                                                         *)
(* "PROCESSING" stands for every status between the first and the last,    *)
(* the unknown ones included, and "REFUNDED" for "FAILED" too.  The line   *)
(* that says a poll failed decides nothing and is left out.                *)
(***************************************************************************)
VARIABLES rail,    \* the rail's status for the deposit on the screen
          shown,   \* the status on the screen, or NoStatus
          poll     \* "off", "asking", "timer" or "ended"

trackerVars == <<rail, shown, poll>>

NoStatus == "null"

\* isFinalStatus.
IsFinal(status) == status \in {"SUCCESS", "REFUNDED"}

RailNext(status) ==
  CASE status = "PENDING_DEPOSIT" -> {"PROCESSING"}
    [] status = "PROCESSING"      -> {"SUCCESS", "REFUNDED"}
    [] OTHER                      -> {}

Untracked == rail = "PENDING_DEPOSIT" /\ shown = NoStatus /\ poll = "off"

\* A status as the state of each of the three lines.
StateOf(stage, status) ==
  CASE status \in {NoStatus, "PENDING_DEPOSIT"} ->
         IF stage = "deposit" THEN "active" ELSE "waiting"
    [] stage = "deposit" \/ status = "SUCCESS"  -> "done"
    [] status = "REFUNDED"                      -> "stopped"
    [] OTHER -> IF stage = "swap" THEN "active" ELSE "waiting"

\* The effect on [plan]: a tracker that comes up asks at once, one whose plan is
\* replaced asks anew under the old status, and one that goes is silent.
Follow(was, is, sameDeposit) ==
  IF ~is
    THEN rail' = "PENDING_DEPOSIT" /\ shown' = NoStatus /\ poll' = "off"
  ELSE /\ poll' = "asking"
       /\ shown' = IF was THEN shown ELSE NoStatus
       /\ rail' = IF was /\ sameDeposit THEN rail ELSE "PENDING_DEPOSIT"

RailMoves ==
  /\ rail' \in RailNext(rail)
  /\ UNCHANGED <<shown, poll>>

\* tick: the answer of the rail, which is the last one once the rail has ended.
PollAnswers ==
  /\ poll = "asking"
  /\ shown' = rail
  /\ poll' = IF IsFinal(rail) THEN "ended" ELSE "timer"
  /\ UNCHANGED rail

\* A catch that arms no timer.
PollFailsForGood ==
  /\ poll = "asking"
  /\ poll' = "ended"
  /\ UNCHANGED <<rail, shown>>

\* tick: no answer is one more reason to ask again.
PollFails ==
  /\ poll = "asking"
  /\ poll' = "timer"
  /\ UNCHANGED <<rail, shown>>

PollAgain ==
  /\ poll = "timer"
  /\ poll' = "asking"
  /\ UNCHANGED <<rail, shown>>
=============================================================================
