---------------------------- MODULE SweepAmounts ----------------------------
(***************************************************************************)
(* What a sweep costs, computed twice: by the page before anything is      *)
(* proved (web/src/lib/amount.ts) and by the core that builds the          *)
(* transaction (crates/core/src/spend.rs and sweep.rs).  Zatoshi are       *)
(* natural numbers: the core's are u64, the page's bigint, and all the ZEC *)
(* there is fits both.                                                     *)
(***************************************************************************)
EXTENDS Integers

CONSTANTS ServiceFee   \* SWEEP_FEE_ZAT: the flat fee, 0 when there is none

ASSUME FeeAssumption == ServiceFee \in Nat

MarginalFee == 5000
GraceActions == 2
MinSplitDestination == 546

\* P2PKH_OUTPUT_BYTES and P2SH_OUTPUT_BYTES; the first is also what ZIP-317 divides by.
StandardBytes == 34
OutputBytes == {34, 32}

Sendable == {"unified_orchard", "transparent"}

\* A refusal, and a sweep that pays its destination receive.
Refused == [ok |-> FALSE, receive |-> 0]
Pays(zat) == [ok |-> TRUE, receive |-> zat]

(***************************************************************************)
(* The page.                                                               *)
(***************************************************************************)
\* A fee that forgets the logical action of a transparent output.
FeeOfShielded(kind, spends) ==
  IF spends <= 2 THEN 10000 ELSE MarginalFee * spends

\* networkFeeFor.
NetworkFeeFor(kind, spends) ==
  IF spends <= 2 THEN IF kind = "transparent" THEN 15000 ELSE 10000
  ELSE MarginalFee * (spends + IF kind = "transparent" THEN 1 ELSE 0)

\* networkFeeWithExtra.
NetworkFeeWithExtra(kind, spends) == NetworkFeeFor(kind, spends) + MarginalFee

\* sweepAmounts, and splitSweepAmounts when a second output takes extra.
PageAmounts(total, kind, extra, spends) ==
  LET fee     == IF extra > 0 THEN NetworkFeeWithExtra(kind, spends)
                 ELSE NetworkFeeFor(kind, spends)
      receive == total - fee - ServiceFee - extra
  IN  IF receive >= IF extra > 0 THEN MinSplitDestination ELSE 1
        THEN Pays(receive) ELSE Refused

(***************************************************************************)
(* The core.                                                               *)
(***************************************************************************)
\* plan_outputs: the destination, the flat fee's shielded output when there is a
\* fee, the transparent second output when there is one.
ShieldedOutputs(kind) ==
  (IF kind = "unified_orchard" THEN 1 ELSE 0) + (IF ServiceFee > 0 THEN 1 ELSE 0)

\* d and e: what the destination and the second output take when they are transparent.
TransparentBytes(kind, extra, d, e) ==
  (IF kind = "transparent" THEN d ELSE 0) + (IF extra > 0 THEN e ELSE 0)

Greater(m, n) == IF m < n THEN n ELSE m

\* ironwood_action_count: a spend and an output share an action, two at the least.
IronwoodActions(spends, shielded) == Greater(Greater(spends, shielded), 2)

\* network_fee_zat: bytes.div_ceil(34) transparent actions beside the shielded ones.
NetworkFee(spends, shielded, bytes) ==
  MarginalFee * Greater(GraceActions, ((bytes + StandardBytes - 1) \div StandardBytes)
                                        + IronwoodActions(spends, shielded))

\* plan_amounts_split.
CoreAmounts(total, kind, extra, spends, d, e) ==
  LET fee     == NetworkFee(spends, ShieldedOutputs(kind),
                            TransparentBytes(kind, extra, d, e))
      receive == total - (fee + ServiceFee + extra)
  IN  IF receive > 0 /\ (extra > 0 => receive >= MinSplitDestination)
        THEN Pays(receive) ELSE Refused
=============================================================================
