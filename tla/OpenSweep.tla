------------------------------ MODULE OpenSweep ------------------------------
(***************************************************************************)
(* The two calls of the core on one envelope, one after the other: an open *)
(* (BlockScan), and a sweep of the notes it found unspent (SweepWitness),  *)
(* on the same chain.  The tip the sweep gets may lag behind the open's.   *)
(***************************************************************************)
EXTENDS BlockScan, SweepWitness, Functions

CONSTANTS SweptLinks, SweptTips  \* birthdays and tips of the opens that are swept (bound)

\* Nobody pays an envelope for ever.
ASSUME NotesAssumption == IsFiniteSet(Notes)

\* A note is a commitment of the block it was paid in.
OnLedger ==
  \A n \in DOMAIN pays : \E i \in DOMAIN leaves[pays[n]] : leaves[pays[n]][i] = n

\* The notes in the result, whichever order they come in.
Requests(found) ==
  LET unspent == found.notes \ found.spent
  IN  { [i \in DOMAIN q |-> [note |-> q[i], height |-> pays[q[i]]]] :
          q \in Bijection(1 .. Cardinality(unspent), unspent) }

Swept == status = "answered" /\ birthday \in SweptLinks /\ tip \in SweptTips

SweepInit == Init /\ CallInit /\ IsLedger /\ OnLedger

AskSweep ==
  /\ Swept /\ answer.notes # answer.spent
  /\ \E ns \in Requests(answer) : Begin(ns) \/ Refuse(ns)

OpenStep == Next /\ UNCHANGED witnessVars

SweepStep == (AskSweep \/ Working) /\ UNCHANGED <<call, walk>>

SweepNext == OpenStep \/ SweepStep

SweepSpec == SweepInit /\ [][SweepNext]_<<vars, witnessVars>>
=============================================================================
