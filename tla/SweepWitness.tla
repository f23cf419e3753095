----------------------------- MODULE SweepWitness -----------------------------
(***************************************************************************)
(* The witness stage of one sweep_envelope call: sweep in                  *)
(* crates/core/src/sweep.rs over WitnessScan of crates/core/src/spend.rs.  *)
(*                                                                         *)
(* A commitment is the note it commits to, or the number of the block it   *)
(* is in when it is somebody else's.  A tree is the sequence of its        *)
(* commitments, and so is its root: two trees have one root only if they   *)
(* hold the same commitments in the same order.  A Merkle path is a leaf's *)
(* position and the root it leads to.                                      *)
(***************************************************************************)
EXTENDS EnvelopeChain, Sequences

CONSTANTS WalkCap,   \* ANCHOR_WALK_CAP
          MaxSlips   \* faults of the gateways in one call (bound)

ASSUME WitnessAssumption == WalkCap \in Nat /\ MaxSlips \in Nat

VARIABLES leaves,    \* leaves[h]: the commitments of block h, in the chain's order
          trees,     \* trees[h]: the tree after block h
          slots,     \* the request's notes, one witness slot each
          anchorAt,  \* the height whose root becomes the anchor
          stage,     \* "idle", "replaying", "checking", "witnessed" or "failed"
          block,     \* the height of the block that is being appended
          feed,      \* its commitments not appended yet
          tree,      \* WitnessScan.tree
          wits,      \* WitnessScan.witnesses
          roots,     \* roots_at_note_blocks
          slips

ledger  == <<leaves, trees>>
request == <<slots, anchorAt>>
replay  == <<block, feed, tree, wits, roots>>
witnessVars == <<ledger, request, stage, replay, slips>>

Leaf == Notes \cup Heights
Refs == [note : Notes, height : Heights]
NoWitness == [pos |-> 0, root |-> <<>>]

HeightsOf(ns) == { ns[s].height : s \in DOMAIN ns }

\* No note, one note twice, or a note in block 0.
Refused(ns) ==
  \/ ns = <<>>
  \/ \E i, j \in DOMAIN ns : i # j /\ ns[i].note = ns[j].note
  \/ 0 \in HeightsOf(ns)

\* Without the floor: the anchor of a lagging tip is below the note.
AnchorBehind(newest, tip) == IF tip <= newest + WalkCap THEN tip ELSE newest + WalkCap

\* anchor_height: a bounded walk past the newest note, and never back from it.
AnchorHeight(newest, tip) ==
  IF tip <= newest THEN newest
    ELSE IF tip <= newest + WalkCap THEN tip ELSE newest + WalkCap

(***************************************************************************)
(* WitnessScan.                                                            *)
(***************************************************************************)
Taken(s) == wits[s] # NoWitness

\* The tree is left alone as soon as one note has its witness.
SealedEarly == \E s \in DOMAIN slots : Taken(s)

Sealed == slots # <<>> /\ \A s \in DOMAIN slots : Taken(s)

\* tree_root_hex: a sealed scan reads the root off its first witness.
RootNow == IF Sealed THEN wits[1].root ELSE tree

Target(s, x) == slots[s] = [note |-> x, height |-> block]

\* A witness taken before this commitment absorbs it; the one it is for is cut from
\* the tree it was just appended to.
Witnessed(s, x, t) ==
  CASE Taken(s) -> [wits[s] EXCEPT !.root = Append(@, x)]
    [] ~Taken(s) /\ Target(s, x) -> [pos |-> Len(t), root |-> t]
    [] OTHER -> NoWitness

\* What a gateway may make of a block: its commitments dropped, or out of order.
Garbled(b) == { <<>>, [i \in DOMAIN leaves[b] |-> leaves[b][Len(leaves[b]) + 1 - i]] }

Slip == slips < MaxSlips /\ slips' = slips + 1

Served(b) ==
  \/ feed' = leaves[b] /\ UNCHANGED slips
  \/ feed' \in Garbled(b) /\ Slip

(***************************************************************************)
(* The call.                                                               *)
(***************************************************************************)
Refuse(ns) ==
  /\ stage = "idle" /\ Refused(ns)
  /\ slots' = ns /\ wits' = [s \in DOMAIN ns |-> NoWitness]
  /\ stage' = "failed"
  /\ UNCHANGED <<ledger, anchorAt, block, feed, tree, roots, slips>>

\* The tip of the race, the frontier below the earliest note's block and that block,
\* fetched at once.
Begin(ns) ==
  /\ stage = "idle" /\ ~Refused(ns)
  /\ \E first, last \in HeightsOf(ns), tip0 \in Heights :
       /\ \A h \in HeightsOf(ns) : first <= h /\ h <= last
       /\ anchorAt' = AnchorHeight(last, tip0)
       /\ tree' = trees[first - 1]
       /\ block' = first
       /\ Served(first)
  /\ slots' = ns
  /\ wits' = [s \in DOMAIN ns |-> NoWitness]
  /\ roots' = {}
  /\ stage' = "replaying"
  /\ UNCHANGED ledger

\* append_block, one commitment at a time.
AppendLeaf ==
  /\ stage = "replaying" /\ feed # <<>>
  /\ feed' = Tail(feed)
  /\ LET x == Head(feed)
         t == IF Sealed THEN tree ELSE Append(tree, x)
     IN  IF \E s \in DOMAIN slots : Taken(s) /\ Target(s, x)
           THEN stage' = "failed" /\ UNCHANGED <<tree, wits>>
           ELSE /\ tree' = t
                /\ wits' = [s \in DOMAIN slots |-> Witnessed(s, x, t)]
                /\ UNCHANGED stage
  /\ UNCHANGED <<ledger, request, block, roots, slips>>

\* The root is kept after every block that holds a note.
RootsAfter ==
  IF block \in HeightsOf(slots) THEN roots \cup {[height |-> block, root |-> RootNow]}
                                ELSE roots

\* The next block of the stream, or by a fault another one: skipped to, or repeated.
TakeBlock ==
  /\ stage = "replaying" /\ feed = <<>> /\ block < anchorAt
  /\ roots' = RootsAfter
  /\ \/ block' = block + 1 /\ Served(block + 1)
     \/ /\ block' \in block .. anchorAt /\ block' # block + 1
        /\ feed' = leaves[block'] /\ Slip
  /\ UNCHANGED <<ledger, request, stage, tree, wits>>

\* The stream is over, at the anchor or by a fault before it; a note whose
\* commitment was not passed is an error.
ReplayEnds ==
  /\ stage = "replaying" /\ feed = <<>>
  /\ \/ block >= anchorAt /\ UNCHANGED slips
     \/ block < anchorAt /\ Slip
  /\ roots' = RootsAfter
  /\ stage' = IF \A s \in DOMAIN slots : Taken(s) THEN "checking" ELSE "failed"
  /\ UNCHANGED <<ledger, request, block, feed, tree, wits>>

\* The ordering guard: the roots of the note blocks are the chain's.
RootsServed == \A r \in roots : r.root = trees[r.height]

\* The roots where the notes are found right are enough.
FinishUnanchored == slots # <<>>

\* WitnessScan::finish: the replay and every witness lead to the anchor.
Finish ==
  /\ RootNow = trees[anchorAt]
  /\ \A s \in DOMAIN slots : wits[s].root = trees[anchorAt]

CheckRoots ==
  /\ stage = "checking"
  /\ stage' = IF RootsServed /\ Finish THEN "witnessed" ELSE "failed"
  /\ UNCHANGED <<ledger, request, replay, slips>>

\* A call to a gateway fails, or the stream breaks.
CallFails ==
  /\ stage \in {"replaying", "checking"} /\ Slip
  /\ stage' = "failed"
  /\ UNCHANGED <<ledger, request, replay>>

\* The paths the other way round.
PathOfLast(s) == wits[Len(slots) + 1 - s]

\* The path that goes with the spend of slots[s] (notes zipped with merkle_paths).
PathOf(s) == wits[s]

(***************************************************************************)
(* The specification.                                                      *)
(***************************************************************************)
\* A tree grows block by block, and no commitment is made twice.
IsLedger ==
  /\ leaves \in [Heights -> Seq(Leaf)] /\ trees \in [Heights -> Seq(Leaf)]
  /\ trees[0] = leaves[0]
  /\ \A h \in Heights : h + 1 \in Heights => trees[h + 1] = trees[h] \o leaves[h + 1]
  /\ \A h, k \in Heights : \A i \in DOMAIN leaves[h], j \in DOMAIN leaves[k] :
       leaves[h][i] = leaves[k][j] => h = k /\ i = j

CallInit ==
  /\ slots = <<>> /\ anchorAt = 0
  /\ stage = "idle"
  /\ block = 0 /\ feed = <<>> /\ tree = <<>> /\ wits = <<>> /\ roots = {}
  /\ slips = 0

\* Notes as open_envelope reports them: each is in the block it names.
Reported(ns) ==
  /\ ns \in Seq(Refs)
  /\ \A s \in DOMAIN ns : \E i \in DOMAIN leaves[ns[s].height] :
       leaves[ns[s].height][i] = ns[s].note

Working == AppendLeaf \/ TakeBlock \/ ReplayEnds \/ CheckRoots \/ CallFails

WitnessInit == IsLedger /\ CallInit

WitnessNext ==
  \/ \E ns \in Seq(Refs) : Reported(ns) /\ (Begin(ns) \/ Refuse(ns))
  \/ Working

WitnessSpec == WitnessInit /\ [][WitnessNext]_witnessVars

(***************************************************************************)
(* Properties.                                                             *)
(***************************************************************************)

\* Every spend is proved with a path that leads from its own note to the root the chain
\* has at the anchor, and the anchor is at or above every note, whatever the gateways
\* left out, repeated or put in another order (spend.rs:793, sweep.rs:547).
WitnessExact ==
  stage = "witnessed" =>
    \A s \in DOMAIN slots :
      /\ PathOf(s).root = trees[anchorAt]
      /\ PathOf(s).pos \in DOMAIN trees[anchorAt]
      /\ trees[anchorAt][PathOf(s).pos] = slots[s].note
      /\ slots[s].height <= anchorAt

\* A sealed tree reports the root of a carried one (spend.rs:1422, a test): the witnesses agree,
\* and while the tree still grows they agree with it.
WitnessesAgree ==
  /\ \A s, r \in DOMAIN slots : Taken(s) /\ Taken(r) => wits[s].root = wits[r].root
  /\ \A s \in DOMAIN slots : Taken(s) /\ ~Sealed => wits[s].root = tree

\* A sweep is refused for a cause: with gateways that serve the chain as it is the notes
\* of an open are witnessed, however many there are, in which blocks and in which order,
\* and however far behind them the tip of the race is (sweep.rs:172, 511, 547).
RefusedForACause == stage = "failed" => slips > 0 \/ Refused(slots)
=============================================================================
