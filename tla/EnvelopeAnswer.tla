--------------------------- MODULE EnvelopeAnswer ---------------------------
(***************************************************************************)
(* What one open_envelope call promises, without chunks, buffers, watch    *)
(* lists or streams: one look at the chain a gateway serves, answered      *)
(* exactly, after at most one early part.  BlockScan implements it.        *)
(***************************************************************************)
EXTENDS EnvelopeChain

VARIABLES pays, spends,   \* the chain, which does not change during one open
          start, tip,     \* the range looked at, once chosen
          status,         \* "choosing", "looking", "answered" or "failed"
          early,          \* the snapshot reported before the answer
          answer

vars == <<pays, spends, start, tip, status, early, answer>>

Init ==
  /\ IsChain(pays, spends)
  /\ start = 0 /\ tip = 0
  /\ status = "choosing"
  /\ early = NoAnswer /\ answer = NoAnswer

Choose ==
  /\ status = "choosing"
  /\ tip' \in Heights
  /\ start' \in 0 .. tip'
  /\ status' = "looking"
  /\ UNCHANGED <<pays, spends, early, answer>>

Reveal ==
  /\ status = "looking"
  /\ PaidIn(pays, {start}) # {}
  /\ early' = EarlyView(pays, spends, start)
  /\ UNCHANGED <<pays, spends, start, tip, status, answer>>

\* A note in the first block is always revealed before the answer.
Reply ==
  /\ status = "looking"
  /\ PaidIn(pays, {start}) # {} => early = EarlyView(pays, spends, start)
  /\ answer' = View(pays, spends, start, tip)
  /\ status' = "answered"
  /\ UNCHANGED <<pays, spends, start, tip, early>>

Fail ==
  /\ status \in {"choosing", "looking"}
  /\ status' = "failed"
  /\ UNCHANGED <<pays, spends, start, tip, early, answer>>

Next == Choose \/ Reveal \/ Reply \/ Fail

Spec == Init /\ [][Next]_vars
=============================================================================
