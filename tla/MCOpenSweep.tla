----------------------------- MODULE MCOpenSweep -----------------------------
(***************************************************************************)
(* Small instances of OpenSweep for TLC, with one ledger for each chain.   *)
(* Of all opens, the one that reads from block 0 to the last is swept: it  *)
(* finds every set of unspent notes that any open can find.                *)
(***************************************************************************)
EXTENDS OpenSweep, SequencesExt

CONSTANTS n1, n2

\* Somebody else's commitment comes first in each block.
BlockOf(h) == <<h>> \o SetToSeq(PaidIn(pays, {h}))

MCInit ==
  /\ Init
  /\ CallInit
  /\ leaves = [h \in Heights |-> BlockOf(h)]
  /\ trees = [h \in Heights |-> FlattenSeq([i \in 1 .. h + 1 |-> BlockOf(i - 1)])]
  /\ IsLedger /\ OnLedger

MCSpec == MCInit /\ [][SweepNext]_<<vars, witnessVars>>
=============================================================================
