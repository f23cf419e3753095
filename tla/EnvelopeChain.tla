---------------------------- MODULE EnvelopeChain ----------------------------
(***************************************************************************)
(* What one gateway's chain says about one envelope, and what an open is   *)
(* supposed to make of it.                                                 *)
(*                                                                         *)
(* A chain is two partial functions of the envelope's notes: pays[n] is    *)
(* the height n was paid at, spends[n] the height its nullifier was        *)
(* revealed at.                                                            *)
(***************************************************************************)
EXTENDS Naturals

CONSTANTS Notes,      \* the notes anybody may pay to the envelope
          MaxHeight   \* the last height the chain reaches (bound)

ASSUME HeightAssumption == MaxHeight \in Nat

Heights == 0 .. MaxHeight

\* A note is revealed at most once, and never below the block that paid it.
IsChain(ps, ss) ==
  /\ \E P \in SUBSET Notes : ps \in [P -> Heights]
  /\ \E S \in SUBSET DOMAIN ps : ss \in [S -> Heights]
  /\ \A n \in DOMAIN ss : ps[n] <= ss[n]

PaidIn(ps, B) == { n \in DOMAIN ps : ps[n] \in B }

SpentIn(ss, B) == { n \in DOMAIN ss : ss[n] \in B }

\* The first block decides what is looked for: a note in it is the payment a
\* final link was issued for, and then no later payment is looked for.
Wanted(ps, a, b) ==
  IF PaidIn(ps, {a}) # {} THEN PaidIn(ps, {a}) ELSE PaidIn(ps, a .. b)

NoAnswer == [notes |-> {}, spent |-> {}]

\* What is known of the first block alone, and of the whole range a .. b.
EarlyView(ps, ss, a) ==
  [notes |-> PaidIn(ps, {a}), spent |-> PaidIn(ps, {a}) \cap SpentIn(ss, {a})]

View(ps, ss, a, b) ==
  [notes |-> Wanted(ps, a, b), spent |-> Wanted(ps, a, b) \cap SpentIn(ss, a .. b)]
=============================================================================
