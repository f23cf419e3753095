------------------------- MODULE SweepWitnessProofs -------------------------
(***************************************************************************)
(* For every chain, every set of notes reported on it, every tip and every *)
(* number of faults: the witness stage either proves each spend against    *)
(* the chain's own root at the anchor or refuses, and refuses only for a   *)
(* fault or a request that no sweep can serve.                             *)
(*                                                                         *)
(* The invariant has two layers.  Sound holds whatever the gateways serve: *)
(* the witnesses agree with each other and lead from their own notes.      *)
(* OnTrack holds of a call that met no fault: what was replayed and what   *)
(* is still to be appended make up the chain's tree, and the notes whose   *)
(* commitment has been passed are the ones that have a witness.            *)
(***************************************************************************)
EXTENDS SweepWitness, SequenceTheorems, TLAPS

Paths == [pos : Nat, root : Seq(Leaf)]

Types ==
  /\ IsLedger
  /\ slots \in Seq(Refs) /\ anchorAt \in Heights
  /\ stage \in {"idle", "replaying", "checking", "witnessed", "failed"}
  /\ block \in Heights /\ feed \in Seq(Leaf) /\ tree \in Seq(Leaf)
  /\ wits \in [DOMAIN slots -> Paths]
  /\ roots \subseteq [height : Heights, root : Seq(Leaf)]
  /\ slips \in Nat

\* A witness leads from the note of its slot.
LeadsFromItsNote ==
  \A s \in DOMAIN slots : Taken(s) =>
    wits[s].pos \in DOMAIN wits[s].root /\ wits[s].root[wits[s].pos] = slots[s].note

\* A call under way spends something, at or below the anchor.
Anchored ==
  stage \notin {"idle", "failed"} =>
    slots # <<>> /\ \A s \in DOMAIN slots : slots[s].height <= anchorAt

\* What is checked has every witness, and what passed the check has the chain's root.
Checked ==
  /\ stage \in {"checking", "witnessed"} => \A s \in DOMAIN slots : Taken(s)
  /\ stage = "witnessed" => \A s \in DOMAIN slots : wits[s].root = trees[anchorAt]

Sound == Types /\ WitnessesAgree /\ LeadsFromItsNote /\ Anchored /\ Checked

InFeed(s) == \E i \in 1 .. Len(feed) : feed[i] = slots[s].note

\* What is left of the block is its end.
FeedIsRest ==
  LET n == Len(leaves[block]) IN
  /\ Len(feed) <= n
  /\ \A i \in 1 .. Len(feed) : feed[i] = leaves[block][n - Len(feed) + i]

\* The notes passed are the ones with a witness.
PassedIsTaken ==
  \A s \in DOMAIN slots :
    Taken(s) <=> slots[s].height < block \/ (slots[s].height = block /\ ~InFeed(s))

OnTrack ==
  /\ block <= anchorAt
  /\ Reported(slots)
  /\ FeedIsRest
  /\ PassedIsTaken
  /\ RootNow \o feed = trees[block]
  /\ RootsServed

\* A call that met no fault.
Faultless ==
  slips = 0 =>
    /\ stage = "replaying" => OnTrack
    /\ stage = "checking" => RootsServed /\ RootNow = trees[anchorAt]
    /\ stage = "failed" => Refused(slots)

WitnessInv == Sound /\ Faultless

-----------------------------------------------------------------------------
(***************************************************************************)
(* Facts about trees and heights.                                          *)
(***************************************************************************)

LEMMA HeightsInNat == Heights \subseteq Nat
BY HeightAssumption DEF Heights

\* The anchor is a height of the chain, and not below the newest note.
LEMMA AnchorIsAbove ==
  ASSUME NEW last \in Heights, NEW tip0 \in Heights
  PROVE  AnchorHeight(last, tip0) \in Heights /\ last <= AnchorHeight(last, tip0)
BY HeightAssumption, WitnessAssumption DEF Heights, AnchorHeight

\* Appending the head to what is before it leaves the whole as it is.
LEMMA AppendMovesOne ==
  ASSUME NEW r \in Seq(Leaf), NEW f \in Seq(Leaf), f # <<>>
  PROVE  Append(r, Head(f)) \o Tail(f) = r \o f
<1>1. Head(f) \in Leaf /\ Tail(f) \in Seq(Leaf)
  BY HeadTailProperties
<1>2. Append(r, Head(f)) = r \o <<Head(f)>>
  BY <1>1, AppendIsConcat
<1>3. <<Head(f)>> \in Seq(Leaf)
  BY <1>1
<1>4. (r \o <<Head(f)>>) \o Tail(f) = r \o (<<Head(f)>> \o Tail(f))
  BY <1>1, <1>3, ConcatAssociative
<1>5. <<Head(f)>> \o Tail(f) = f
  <2>1. <<Head(f)>> \o Tail(f) \in Seq(Leaf) /\ Len(<<Head(f)>> \o Tail(f)) = Len(f)
    BY <1>1, <1>3, ConcatProperties, HeadTailProperties, LenProperties
  <2>2. \A i \in 1 .. Len(f) : (<<Head(f)>> \o Tail(f))[i] = f[i]
    BY <1>1, HeadTailProperties
  <2> QED
    BY <2>1, <2>2, SeqEqual
<1> QED
  BY <1>2, <1>4, <1>5

\* Appending a commitment to a path keeps where it leads from.
LEMMA AppendKeepsPath ==
  ASSUME NEW r \in Seq(Leaf), NEW x \in Leaf, NEW p \in DOMAIN r
  PROVE  /\ Append(r, x) \in Seq(Leaf)
         /\ p \in DOMAIN Append(r, x)
         /\ Append(r, x)[p] = r[p]
BY AppendProperties, LenProperties

\* A fresh witness leads from the commitment that was just appended.
LEMMA FreshPath ==
  ASSUME NEW r \in Seq(Leaf), NEW x \in Leaf
  PROVE  LET t == Append(r, x) IN
         /\ t \in Seq(Leaf) /\ Len(t) \in Nat /\ Len(t) # 0
         /\ Len(t) \in DOMAIN t /\ t[Len(t)] = x
BY AppendProperties, LenProperties

-----------------------------------------------------------------------------
(***************************************************************************)
(* Whatever the gateways serve.                                            *)
(***************************************************************************)

LEMMA InitIsSound == WitnessInit => WitnessInv
<1> SUFFICES ASSUME WitnessInit PROVE WitnessInv
  OBVIOUS
<1> USE DEF WitnessInit, CallInit
<1>1. DOMAIN slots = {} /\ DOMAIN wits = {}
  OBVIOUS
<1>2. wits \in [DOMAIN slots -> Paths]
  BY <1>1
<1>3. 0 \in Heights
  BY HeightAssumption DEF Heights
<1>4. Types
  BY <1>2, <1>3, EmptySeq DEF Types
<1>5. WitnessesAgree /\ LeadsFromItsNote /\ Anchored /\ Checked
  BY <1>1 DEF WitnessesAgree, LeadsFromItsNote, Anchored, Checked
<1>6. Faultless
  BY DEF Faultless
<1> QED
  BY <1>4, <1>5, <1>6 DEF WitnessInv, Sound

LEMMA LedgerStays ==
  ASSUME IsLedger, UNCHANGED <<leaves, trees>>
  PROVE  IsLedger'
BY DEF IsLedger

\* A step that leaves the witnesses alone.
LEMMA WitnessesStay ==
  ASSUME Sound, UNCHANGED <<ledger, request, tree, wits>>,
         stage' \in {"replaying", "checking", "witnessed", "failed"},
         stage' # "failed" => stage \in {"replaying", "checking"},
         block' \in Heights, feed' \in Seq(Leaf), slips' \in Nat,
         roots' \subseteq [height : Heights, root : Seq(Leaf)]
  PROVE  /\ Types' /\ WitnessesAgree' /\ LeadsFromItsNote' /\ Anchored'
         /\ RootNow' = RootNow
         /\ \A s \in DOMAIN slots : Taken(s)' = Taken(s)
<1> USE DEF Sound, ledger, request
<1>1. Types'
  <2>1. IsLedger'
    BY LedgerStays DEF Types
  <2> QED
    BY <2>1 DEF Types
<1>2. \A s \in DOMAIN slots : Taken(s)' = Taken(s)
  BY DEF Taken
<1>3. Sealed' = Sealed /\ RootNow' = RootNow
  BY DEF Sealed, RootNow, Taken
<1>4. WitnessesAgree' /\ LeadsFromItsNote'
  BY <1>2, <1>3 DEF WitnessesAgree, LeadsFromItsNote
<1>5. Anchored'
  BY DEF Anchored
<1> QED
  BY <1>1, <1>2, <1>3, <1>4, <1>5

\* The root that is reported is a tree.
LEMMA RootIsATree ==
  ASSUME Sound
  PROVE  RootNow \in Seq(Leaf)
<1>1. CASE Sealed
  <2>1. 1 \in DOMAIN slots
    BY <1>1, LenProperties, EmptySeq DEF Sound, Types, Sealed
  <2> QED
    BY <1>1, <2>1 DEF Sound, Types, RootNow, Paths
<1>2. CASE ~Sealed
  BY <1>2 DEF Sound, Types, RootNow
<1> QED
  BY <1>1, <1>2

\* What the served block is made of.
LEMMA ServedIsBlocks ==
  ASSUME Types, NEW b \in Heights, Served(b)
  PROVE  feed' \in Seq(Leaf) /\ slips' \in Nat
<1>1. leaves[b] \in Seq(Leaf)
  BY DEF Types, IsLedger
<1>2. [i \in DOMAIN leaves[b] |-> leaves[b][Len(leaves[b]) + 1 - i]] \in Seq(Leaf)
  <2> DEFINE n == Len(leaves[b])
  <2>1. n \in Nat /\ DOMAIN leaves[b] = 1 .. n
    BY <1>1, LenProperties
  <2>2. \A i \in 1 .. n : leaves[b][n + 1 - i] \in Leaf
    BY <1>1, <2>1, ElementOfSeq
  <2>3. [i \in 1 .. n |-> leaves[b][n + 1 - i]] \in [1 .. n -> Leaf]
    BY <2>2
  <2> QED
    BY <2>1, <2>3, SeqDef
<1>3. <<>> \in Seq(Leaf)
  BY EmptySeq
<1>4. slips' \in Nat
  BY DEF Served, Slip, Types
<1> QED
  BY <1>1, <1>2, <1>3, <1>4 DEF Served, Garbled

\* Roots are kept as heights and trees.
LEMMA RootsAreKept ==
  ASSUME Sound
  PROVE  RootsAfter \subseteq [height : Heights, root : Seq(Leaf)]
BY RootIsATree DEF Sound, Types, RootsAfter

LEMMA RefuseIsSound ==
  ASSUME Sound, NEW ns \in Seq(Refs), Refuse(ns)
  PROVE  Sound'
<1> USE DEF Refuse, ledger
<1>1. wits' \in [DOMAIN slots' -> Paths] /\ \A s \in DOMAIN slots' : ~Taken(s)'
  BY EmptySeq DEF Taken, NoWitness, Paths
<1>2. Types'
  <2>1. IsLedger'
    BY LedgerStays DEF Sound, Types
  <2> QED
    BY <1>1, <2>1 DEF Sound, Types
<1> QED
  BY <1>1, <1>2 DEF Sound, WitnessesAgree, LeadsFromItsNote, Anchored, Checked

LEMMA BeginIsSound ==
  ASSUME Sound, NEW ns \in Seq(Refs), Begin(ns)
  PROVE  Sound' /\ \A s \in DOMAIN slots' : ~Taken(s)'
<1> USE DEF Begin, ledger
<1>1. wits' \in [DOMAIN slots' -> Paths] /\ \A s \in DOMAIN slots' : ~Taken(s)'
  BY EmptySeq DEF Taken, NoWitness, Paths
<1>2. PICK first \in HeightsOf(ns), last \in HeightsOf(ns), tip0 \in Heights :
        /\ \A h \in HeightsOf(ns) : first <= h /\ h <= last
        /\ anchorAt' = AnchorHeight(last, tip0)
        /\ tree' = trees[first - 1]
        /\ block' = first
        /\ Served(first)
  OBVIOUS
<1>3. HeightsOf(ns) \subseteq Heights /\ 0 \notin HeightsOf(ns) /\ ns # <<>>
  <2>1. \A s \in DOMAIN ns : ns[s] \in Refs
    BY ElementOfSeq, LenProperties
  <2>2. HeightsOf(ns) \subseteq Heights
    BY <2>1 DEF HeightsOf, Refs
  <2> QED
    BY <2>2 DEF Refused
<1>4. first - 1 \in Heights /\ first \in Heights /\ last \in Heights
  BY <1>3, HeightAssumption DEF Heights
<1>5. anchorAt' \in Heights /\ last <= anchorAt'
  BY <1>2, <1>4, AnchorIsAbove
<1>6. feed' \in Seq(Leaf) /\ slips' \in Nat
  BY <1>2, <1>4, ServedIsBlocks DEF Sound
<1>7. Types'
  <2>1. IsLedger'
    <3>1. IsLedger /\ UNCHANGED <<leaves, trees>>
      BY DEF Sound, Types
    <3> QED
      BY <3>1, LedgerStays
  <2>2. tree' \in Seq(Leaf)
    BY <1>2, <1>4 DEF Sound, Types, IsLedger
  <2> QED
    <3>1. slots' \in Seq(Refs) /\ stage' = "replaying" /\ roots' = {} /\ block' \in Heights
      BY <1>2, <1>4
    <3> HIDE DEF Begin
    <3> QED
      BY <1>1, <1>5, <1>6, <2>1, <2>2, <3>1 DEF Types
<1>8. Anchored'
  <2>1. \A s \in DOMAIN ns : ns[s].height \in HeightsOf(ns)
    BY DEF HeightsOf
  <2>2. \A h \in HeightsOf(ns) : h <= anchorAt'
    BY <1>2, <1>3, <1>4, <1>5, HeightsInNat
  <2> QED
    BY <1>3, <2>1, <2>2 DEF Anchored
<1> QED
  BY <1>1, <1>7, <1>8 DEF Sound, WitnessesAgree, LeadsFromItsNote, Checked

\* One commitment: what becomes of each witness.
LEMMA AppendedWitness ==
  ASSUME Sound, AppendLeaf, stage' # "failed"
  PROVE  LET x == Head(feed) IN
         /\ x \in Leaf /\ feed' \in Seq(Leaf)
         /\ tree' = IF Sealed THEN tree ELSE Append(tree, x)
         /\ wits' \in [DOMAIN slots -> Paths]
         /\ \A s \in DOMAIN slots :
              /\ ~(Taken(s) /\ Target(s, x))
              /\ Taken(s)' <=> Taken(s) \/ Target(s, x)
              /\ Taken(s) => /\ wits'[s].pos = wits[s].pos
                             /\ wits'[s].root = Append(wits[s].root, x)
              /\ Target(s, x) => /\ ~Sealed
                                 /\ wits'[s].pos = Len(tree')
                                 /\ wits'[s].root = tree'
<1> DEFINE x == Head(feed)
<1> USE DEF AppendLeaf, request
<1>1. x \in Leaf /\ feed' \in Seq(Leaf)
  BY HeadTailProperties DEF Sound, Types
<1>2. /\ tree' = IF Sealed THEN tree ELSE Append(tree, x)
      /\ wits' = [s \in DOMAIN slots |-> Witnessed(s, x, tree')]
      /\ \A s \in DOMAIN slots : ~(Taken(s) /\ Target(s, x))
  OBVIOUS
<1> HIDE DEF AppendLeaf, x
<1>3. ASSUME NEW s \in DOMAIN slots
      PROVE  /\ wits'[s] \in Paths
             /\ Taken(s)' <=> Taken(s) \/ Target(s, x)
             /\ Taken(s) => /\ wits'[s].pos = wits[s].pos
                            /\ wits'[s].root = Append(wits[s].root, x)
             /\ Target(s, x) => /\ ~Sealed
                                /\ wits'[s].pos = Len(tree')
                                /\ wits'[s].root = tree'
  <2>1. wits'[s] = Witnessed(s, x, tree')
    BY <1>2, Zenon
  <2>2. wits[s] \in Paths
    BY DEF Sound, Types
  <2>3. CASE Taken(s)
    <3>1. ~Target(s, x)
      BY <1>2, <2>3
    <3>2. wits'[s] = [wits[s] EXCEPT !.root = Append(@, x)]
      BY <2>1, <2>3, Zenon DEF Witnessed
    <3>3. wits'[s] = [pos |-> wits[s].pos, root |-> Append(wits[s].root, x)]
      BY <2>2, <3>2 DEF Paths
    <3>4. /\ Append(wits[s].root, x) \in Seq(Leaf)
          /\ Append(wits[s].root, x) # <<>>
      BY <1>1, <2>2, AppendProperties DEF Paths
    <3> HIDE DEF x
    <3> QED
      BY <2>2, <2>3, <3>1, <3>3, <3>4 DEF Paths, Taken, NoWitness
  <2>4. CASE ~Taken(s) /\ Target(s, x)
    <3>1. ~Sealed
      BY <2>4 DEF Sealed
    <3>2. wits'[s] = [pos |-> Len(tree'), root |-> tree']
      BY <2>1, <2>4, Zenon DEF Witnessed
    <3>3. tree' \in Seq(Leaf) /\ Len(tree') \in Nat /\ Len(tree') # 0
      BY <1>1, <1>2, <3>1, FreshPath DEF Sound, Types
    <3> QED
      BY <2>4, <3>1, <3>2, <3>3 DEF Paths, Taken, NoWitness
  <2>5. CASE ~Taken(s) /\ ~Target(s, x)
    <3>1. wits'[s] = NoWitness
      BY <2>1, <2>5, Zenon DEF Witnessed
    <3> QED
      BY <2>5, <3>1, EmptySeq DEF Paths, Taken, NoWitness
  <2> QED
    BY <2>3, <2>4, <2>5
<1>4. wits' \in [DOMAIN slots -> Paths]
  <2>1. wits' = [s \in DOMAIN slots |-> wits'[s]]
    BY <1>2, Zenon
  <2> QED
    BY <1>3, <2>1
<1> QED
  BY <1>1, <1>2, <1>3, <1>4 DEF x

LEMMA AppendLeafIsSound ==
  ASSUME Sound, AppendLeaf
  PROVE  Sound'
<1> DEFINE x == Head(feed)
<1>1. CASE stage' = "failed"
  <2>1. /\ UNCHANGED <<ledger, request, tree, wits>>
        /\ block' \in Heights /\ feed' \in Seq(Leaf) /\ slips' \in Nat
        /\ roots' \subseteq [height : Heights, root : Seq(Leaf)]
    BY <1>1, HeadTailProperties DEF AppendLeaf, Sound, Types
  <2>2. Types' /\ WitnessesAgree' /\ LeadsFromItsNote' /\ Anchored'
    BY <1>1, <2>1, WitnessesStay
  <2> QED
    BY <1>1, <2>2 DEF Sound, Checked
<1>2. CASE stage' # "failed"
  <2>1. /\ stage = "replaying" /\ stage' = stage
        /\ UNCHANGED <<leaves, trees, slots, anchorAt, block, roots, slips>>
    BY <1>2 DEF AppendLeaf, ledger, request
  <2>2. /\ x \in Leaf /\ feed' \in Seq(Leaf)
        /\ tree' = IF Sealed THEN tree ELSE Append(tree, x)
        /\ wits' \in [DOMAIN slots -> Paths]
    BY <1>2, AppendedWitness
  <2>3. ASSUME NEW s \in DOMAIN slots
        PROVE  /\ ~(Taken(s) /\ Target(s, x))
               /\ Taken(s)' <=> Taken(s) \/ Target(s, x)
               /\ Taken(s) => /\ wits'[s].pos = wits[s].pos
                              /\ wits'[s].root = Append(wits[s].root, x)
               /\ Target(s, x) => /\ ~Sealed
                                  /\ wits'[s].pos = Len(tree')
                                  /\ wits'[s].root = tree'
    BY <1>2, AppendedWitness
  <2> HIDE DEF x
  <2>4. Types'
    <3>1. IsLedger'
      BY <2>1 DEF Sound, Types, IsLedger
    <3>2. tree' \in Seq(Leaf)
      BY <2>2, AppendProperties DEF Sound, Types
    <3> QED
      BY <2>1, <2>2, <3>1, <3>2 DEF Sound, Types
  <2>5. LeadsFromItsNote'
    <3> SUFFICES ASSUME NEW s \in DOMAIN slots, Taken(s)'
                 PROVE  /\ wits'[s].pos \in DOMAIN wits'[s].root
                        /\ wits'[s].root[wits'[s].pos] = slots[s].note
      BY <2>1 DEF LeadsFromItsNote
    <3>1. CASE Taken(s)
      <4>1. wits[s].root \in Seq(Leaf)
        BY DEF Sound, Types, Paths
      <4>2. wits[s].pos \in DOMAIN wits[s].root /\ wits[s].root[wits[s].pos] = slots[s].note
        BY <3>1 DEF Sound, LeadsFromItsNote
      <4>3. wits'[s].pos = wits[s].pos /\ wits'[s].root = Append(wits[s].root, x)
        BY <2>3, <3>1
      <4>4. /\ wits[s].pos \in DOMAIN Append(wits[s].root, x)
            /\ Append(wits[s].root, x)[wits[s].pos] = wits[s].root[wits[s].pos]
        BY <2>2, <4>1, <4>2, AppendKeepsPath
      <4> QED
        BY <4>2, <4>3, <4>4
    <3>2. CASE Target(s, x)
      <4>1. tree' = Append(tree, x) /\ slots[s].note = x
        BY <2>2, <2>3, <3>2 DEF Target
      <4>2. Len(tree') \in DOMAIN tree' /\ tree'[Len(tree')] = x
        BY <2>2, <4>1, FreshPath DEF Sound, Types
      <4>3. wits'[s].pos = Len(tree') /\ wits'[s].root = tree'
        BY <2>3, <3>2
      <4> QED
        BY <4>1, <4>2, <4>3
    <3> QED
      BY <2>3, <3>1, <3>2
  <2>6. WitnessesAgree'
    <3>1. CASE Sealed
      <4>1. \A s \in DOMAIN slots : Taken(s) /\ Taken(s)' /\ wits'[s].root = Append(wits[s].root, x)
        BY <2>3, <3>1 DEF Sealed
      <4>2. Sealed'
        BY <2>1, <3>1, <4>1 DEF Sealed
      <4>3. \A s, r \in DOMAIN slots : wits'[s].root = wits'[r].root
        BY <4>1 DEF Sound, WitnessesAgree
      <4> QED
        BY <2>1, <4>2, <4>3 DEF WitnessesAgree
    <3>2. CASE ~Sealed
      <4>1. \A s \in DOMAIN slots : Taken(s)' => wits'[s].root = tree'
        BY <2>2, <2>3, <3>2 DEF Sound, WitnessesAgree
      <4> QED
        BY <2>1, <4>1 DEF WitnessesAgree
    <3> QED
      BY <3>1, <3>2
  <2>7. Anchored' /\ Checked'
    BY <2>1 DEF Sound, Anchored, Checked
  <2> QED
    BY <2>4, <2>5, <2>6, <2>7 DEF Sound
<1> QED
  BY <1>1, <1>2

LEMMA TakeBlockIsSound ==
  ASSUME Sound, TakeBlock
  PROVE  Sound'
<1>1. stage = "replaying" /\ stage' = stage /\ UNCHANGED <<ledger, request, tree, wits>>
  BY DEF TakeBlock
<1>2. block' \in Heights /\ feed' \in Seq(Leaf) /\ slips' \in Nat
  <2>1. CASE block' = block + 1 /\ Served(block + 1)
    <3>1. block + 1 \in Heights
      BY HeightAssumption DEF TakeBlock, Sound, Types, Heights
    <3> QED
      BY <2>1, <3>1, ServedIsBlocks DEF Sound
  <2>2. CASE block' \in block .. anchorAt /\ feed' = leaves[block'] /\ Slip
    <3>1. block' \in Heights
      BY <2>2, HeightAssumption DEF Sound, Types, Heights
    <3> QED
      BY <2>2, <3>1 DEF Sound, Types, IsLedger, Slip
  <2> QED
    BY <2>1, <2>2 DEF TakeBlock
<1>3. roots' \subseteq [height : Heights, root : Seq(Leaf)]
  BY RootsAreKept DEF TakeBlock
<1>4. Types' /\ WitnessesAgree' /\ LeadsFromItsNote' /\ Anchored'
  BY <1>1, <1>2, <1>3, WitnessesStay
<1> QED
  BY <1>1, <1>4 DEF Sound, Checked

LEMMA ReplayEndsIsSound ==
  ASSUME Sound, ReplayEnds
  PROVE  Sound'
<1>1. /\ stage = "replaying" /\ stage' \in {"checking", "failed"}
      /\ UNCHANGED <<ledger, request, block, feed, tree, wits>>
      /\ stage' = "checking" => \A s \in DOMAIN slots : Taken(s)
  BY DEF ReplayEnds
<1>2. block' \in Heights /\ feed' \in Seq(Leaf) /\ slips' \in Nat
  BY DEF ReplayEnds, Slip, Sound, Types
<1>3. roots' \subseteq [height : Heights, root : Seq(Leaf)]
  BY RootsAreKept DEF ReplayEnds
<1>4. /\ Types' /\ WitnessesAgree' /\ LeadsFromItsNote' /\ Anchored'
      /\ \A s \in DOMAIN slots : Taken(s)' = Taken(s)
  BY <1>1, <1>2, <1>3, WitnessesStay
<1> QED
  BY <1>1, <1>4 DEF Sound, Checked, request

LEMMA CheckRootsIsSound ==
  ASSUME Sound, CheckRoots
  PROVE  Sound'
<1>1. /\ stage = "checking" /\ stage' \in {"witnessed", "failed"}
      /\ UNCHANGED <<ledger, request, block, feed, tree, wits, roots, slips>>
      /\ stage' = "witnessed" => \A s \in DOMAIN slots : wits[s].root = trees[anchorAt]
  BY DEF CheckRoots, Finish, replay
<1>2. /\ Types' /\ WitnessesAgree' /\ LeadsFromItsNote' /\ Anchored'
      /\ \A s \in DOMAIN slots : Taken(s)' = Taken(s)
  BY <1>1, WitnessesStay DEF Sound, Types
<1> QED
  BY <1>1, <1>2 DEF Sound, Checked, ledger, request

LEMMA CallFailsIsSound ==
  ASSUME Sound, CallFails
  PROVE  Sound'
<1>1. /\ stage' = "failed" /\ slips' \in Nat
      /\ UNCHANGED <<ledger, request, block, feed, tree, wits, roots>>
  BY DEF CallFails, Slip, replay, Sound, Types
<1>2. Types' /\ WitnessesAgree' /\ LeadsFromItsNote' /\ Anchored'
  BY <1>1, WitnessesStay DEF Sound, Types
<1> QED
  BY <1>1, <1>2 DEF Sound, Checked

-----------------------------------------------------------------------------
(***************************************************************************)
(* With gateways that serve the chain as it is.                            *)
(***************************************************************************)

\* A block served without a fault is the chain's.
LEMMA ServedAsItIs ==
  ASSUME Types, NEW b \in Heights, Served(b), slips' = 0
  PROVE  feed' = leaves[b] /\ slips = 0
BY DEF Types, Served, Slip

\* At the beginning of a block all of it is left, its notes included.
LEMMA BlockBegins ==
  ASSUME Types', feed' = leaves'[block'], Reported(slots)'
  PROVE  /\ FeedIsRest'
         /\ \A s \in DOMAIN slots' : slots'[s].height = block' => InFeed(s)'
<1>1. feed' \in Seq(Leaf)
  BY DEF Types
<1>2. Len(feed') \in Nat /\ DOMAIN feed' = 1 .. Len(feed')
  BY <1>1, LenProperties
<1>3. FeedIsRest'
  BY <1>2 DEF FeedIsRest
<1> QED
  BY <1>2, <1>3 DEF Reported, InFeed

LEMMA RefuseForACause ==
  ASSUME NEW ns, Refuse(ns)
  PROVE  Faultless'
BY DEF Refuse, Faultless, Refused, HeightsOf

LEMMA BeginOnTrack ==
  ASSUME Sound, NEW ns \in Seq(Refs), Reported(ns), Begin(ns)
  PROVE  Faultless'
<1> SUFFICES ASSUME slips' = 0
             PROVE  OnTrack'
  BY DEF Begin, Faultless
<1>1. Sound' /\ \A s \in DOMAIN slots' : ~Taken(s)'
  BY BeginIsSound
<1>2. PICK first \in HeightsOf(ns), last \in HeightsOf(ns) :
        /\ \A h \in HeightsOf(ns) : first <= h /\ h <= last
        /\ tree' = trees[first - 1]
        /\ block' = first
        /\ Served(first)
  BY DEF Begin
<1>3. /\ ~Refused(ns) /\ slots' = ns /\ roots' = {} /\ stage' = "replaying"
      /\ leaves' = leaves /\ trees' = trees
  BY DEF Begin, ledger
<1>4. \A s \in DOMAIN ns : ns[s] \in Refs /\ ns[s].height \in HeightsOf(ns)
  BY ElementOfSeq, LenProperties DEF HeightsOf
<1>5. first \in Heights /\ first - 1 \in Heights
  <2>1. first \in Heights /\ first # 0
    BY <1>3, <1>4 DEF HeightsOf, Refused, Refs
  <2> QED
    BY <2>1, HeightAssumption DEF Heights
<1>6. feed' = leaves[first]
  BY <1>2, <1>5, ServedAsItIs DEF Sound
<1>7. Reported(slots)'
  BY <1>3 DEF Reported
<1>8. FeedIsRest' /\ \A s \in DOMAIN slots' : slots'[s].height = block' => InFeed(s)'
  <2>1. Types' /\ feed' = leaves'[block']
    BY <1>1, <1>2, <1>3, <1>6 DEF Sound
  <2> QED
    BY <1>7, <2>1, BlockBegins
<1>9. PassedIsTaken'
  <2>1. \A s \in DOMAIN slots' : slots'[s].height \in Heights /\ first <= slots'[s].height
    BY <1>2, <1>3, <1>4 DEF Refs
  <2> QED
    BY <1>1, <1>2, <1>5, <1>8, <2>1, HeightsInNat DEF PassedIsTaken
<1>10. (RootNow \o feed = trees[block])'
  <2>1. ~Sealed'
    <3>1. 1 \in DOMAIN ns
      BY <1>3, EmptySeq, LenProperties DEF Refused
    <3> QED
      BY <1>1, <1>3, <3>1 DEF Sealed
  <2>2. RootNow' = trees[first - 1]
    BY <1>2, <2>1 DEF RootNow
  <2>3. trees[first - 1] \o leaves[first] = trees[first]
    <3>1. (first - 1) + 1 = first
      BY <1>5, HeightsInNat
    <3> QED
      BY <1>5, <3>1 DEF Sound, Types, IsLedger
  <2> QED
    BY <1>2, <1>3, <1>6, <2>2, <2>3
<1>11. block' <= anchorAt'
  <2>1. PICK s \in DOMAIN ns : first = ns[s].height
    BY DEF HeightsOf
  <2> QED
    BY <1>1, <1>2, <1>3, <2>1 DEF Sound, Anchored
<1>12. RootsServed'
  BY <1>3 DEF RootsServed
<1> QED
  BY <1>7, <1>8, <1>9, <1>10, <1>11, <1>12 DEF OnTrack

LEMMA AppendLeafOnTrack ==
  ASSUME Sound, Faultless, AppendLeaf
  PROVE  Faultless'
<1> DEFINE x == Head(feed)
<1> DEFINE n == Len(leaves[block])
<1> SUFFICES ASSUME slips' = 0
             PROVE  stage' = "replaying" /\ OnTrack'
  BY DEF Faultless
<1>1. /\ stage = "replaying" /\ feed # <<>> /\ feed' = Tail(feed)
      /\ UNCHANGED <<leaves, trees, slots, anchorAt, block, roots, slips>>
  BY DEF AppendLeaf, ledger, request
<1>2. OnTrack
  BY <1>1 DEF Faultless
<1>3. /\ x \in Leaf /\ Tail(feed) \in Seq(Leaf)
      /\ Len(feed) \in Nat /\ Len(feed) > 0 /\ x = feed[1]
      /\ Len(Tail(feed)) = Len(feed) - 1
      /\ \A i \in 1 .. Len(feed) - 1 : Tail(feed)[i] = feed[i + 1]
  BY <1>1, HeadTailProperties, LenProperties, EmptySeq DEF Sound, Types
<1>4. n \in Nat /\ DOMAIN leaves[block] = 1 .. n
  BY LenProperties DEF Sound, Types, IsLedger
<1>5. FeedIsRest'
  BY <1>1, <1>2, <1>3, <1>4 DEF OnTrack, FeedIsRest
\* A commitment is in one place only.
<1>6. \A i \in 1 .. Len(feed) - 1 : Tail(feed)[i] # x
  <2> DEFINE m == Len(feed)
  <2> SUFFICES ASSUME NEW i \in 1 .. m - 1, feed[i + 1] = feed[1]
               PROVE  FALSE
    BY <1>3
  <2>1. /\ feed[i + 1] = leaves[block][n - Len(feed) + (i + 1)]
        /\ feed[1] = leaves[block][n - Len(feed) + 1]
        /\ Len(feed) <= n
    BY <1>2, <1>3, <1>4 DEF OnTrack, FeedIsRest
  <2>2. m \in Nat /\ m <= n
    BY <1>3, <2>1
  <2> HIDE DEF m, n
  <2>3. n - m + (i + 1) \in 1 .. n /\ n - m + 1 \in 1 .. n /\ n - m + (i + 1) # n - m + 1
    BY <1>4, <2>2
  <2>4. leaves[block][n - m + (i + 1)] = leaves[block][n - m + 1]
    BY <2>1 DEF m
  <2>5. block \in Heights
    BY DEF Sound, Types
  <2>6. n - m + (i + 1) \in DOMAIN leaves[block] /\ n - m + 1 \in DOMAIN leaves[block]
    BY <1>4, <2>3
  <2>7. \A j, k \in DOMAIN leaves[block] : leaves[block][j] = leaves[block][k] => j = k
    BY <2>5 DEF Sound, Types, IsLedger
  <2> QED
    BY <2>3, <2>4, <2>6, <2>7
<1>7. ASSUME NEW s \in DOMAIN slots
      PROVE  /\ InFeed(s) <=> InFeed(s)' \/ slots[s].note = x
             /\ slots[s].note = x => ~InFeed(s)'
  <2>1. InFeed(s)' <=> \E i \in 1 .. Len(feed) - 1 : feed[i + 1] = slots[s].note
    BY <1>1, <1>3 DEF InFeed
  <2>2. InFeed(s) <=> feed[1] = slots[s].note \/ \E i \in 1 .. Len(feed) - 1 : feed[i + 1] = slots[s].note
    <3>1. \A i \in 1 .. Len(feed) : i = 1 \/ (i - 1 \in 1 .. Len(feed) - 1 /\ (i - 1) + 1 = i)
      BY <1>3
    <3>2. 1 \in 1 .. Len(feed) /\ \A i \in 1 .. Len(feed) - 1 : i + 1 \in 1 .. Len(feed)
      BY <1>3
    <3> QED
      BY <3>1, <3>2 DEF InFeed
  <2> QED
    BY <1>3, <1>6, <2>1, <2>2
<1>8. \A s \in DOMAIN slots : ~(Taken(s) /\ Target(s, x))
  BY <1>2, <1>7, HeightsInNat DEF OnTrack, PassedIsTaken, Target, Sound, Types
<1>9. stage' = "replaying"
  BY <1>1, <1>8 DEF AppendLeaf
<1>10. /\ tree' = IF Sealed THEN tree ELSE Append(tree, x)
       /\ \A s \in DOMAIN slots :
            /\ Taken(s)' <=> Taken(s) \/ Target(s, x)
            /\ Taken(s) => wits'[s].root = Append(wits[s].root, x)
            /\ Target(s, x) => wits'[s].root = tree'
  BY <1>9, AppendedWitness
<1>11. PassedIsTaken'
  <2> SUFFICES ASSUME NEW s \in DOMAIN slots
               PROVE  Taken(s)' <=> \/ slots[s].height < block
                                    \/ slots[s].height = block /\ ~InFeed(s)'
    BY <1>1 DEF PassedIsTaken
  <2>1. slots[s] \in Refs
    BY ElementOfSeq, LenProperties DEF Sound, Types
  <2>2. Target(s, x) <=> slots[s].note = x /\ slots[s].height = block
    BY <2>1 DEF Refs, Target
  <2>3. Taken(s) <=> slots[s].height < block \/ (slots[s].height = block /\ ~InFeed(s))
    BY <1>2 DEF OnTrack, PassedIsTaken
  <2>4. slots[s].height \in Nat /\ block \in Nat
    BY <2>1, HeightsInNat DEF Refs, Sound, Types
  <2> QED
    BY <1>7, <1>10, <2>2, <2>3, <2>4
<1>12. RootNow' = Append(RootNow, x)
  <2>1. CASE Sealed
    <3>1. 1 \in DOMAIN slots
      BY <2>1, LenProperties, EmptySeq DEF Sound, Types, Sealed
    <3>2. Sealed'
      BY <1>1, <1>10, <2>1 DEF Sealed
    <3> QED
      BY <1>10, <2>1, <3>1, <3>2 DEF RootNow, Sealed
  <2>2. CASE ~Sealed
    <3>1. \A s \in DOMAIN slots : Taken(s)' => wits'[s].root = Append(tree, x)
      BY <1>10, <2>2 DEF Sound, WitnessesAgree
    <3>2. Sealed' => 1 \in DOMAIN slots /\ Taken(1)'
      BY <1>1, LenProperties, EmptySeq DEF Sound, Types, Sealed
    <3> QED
      BY <1>10, <2>2, <3>1, <3>2 DEF RootNow
  <2> QED
    BY <2>1, <2>2
<1>13. (RootNow \o feed = trees[block])'
  <2>1. RootNow \o feed = trees[block]
    BY <1>2 DEF OnTrack
  <2>2. Append(RootNow, x) \o Tail(feed) = RootNow \o feed
    BY <1>1, RootIsATree, AppendMovesOne DEF Sound, Types
  <2> QED
    BY <1>1, <1>12, <2>1, <2>2
<1>14. Reported(slots)' /\ RootsServed' /\ block' <= anchorAt'
  BY <1>1, <1>2 DEF OnTrack, Reported, RootsServed
<1> QED
  BY <1>5, <1>9, <1>11, <1>13, <1>14 DEF OnTrack

\* A root kept at the end of a block is the chain's.
LEMMA KeptRootIsServed ==
  ASSUME Sound, OnTrack, feed = <<>>
  PROVE  RootNow = trees[block] /\ \A r \in RootsAfter : r.root = trees[r.height]
<1>1. RootNow = trees[block]
  BY RootIsATree, ConcatEmptySeq DEF OnTrack
<1> QED
  BY <1>1 DEF OnTrack, RootsServed, RootsAfter

LEMMA TakeBlockOnTrack ==
  ASSUME Sound, Faultless, TakeBlock
  PROVE  Faultless'
<1> SUFFICES ASSUME slips' = 0
             PROVE  OnTrack'
  BY DEF TakeBlock, Faultless
<1>1. /\ stage = "replaying" /\ stage' = "replaying" /\ feed = <<>> /\ block < anchorAt
      /\ roots' = RootsAfter
      /\ UNCHANGED <<leaves, trees, slots, anchorAt, tree, wits>>
  BY DEF TakeBlock, ledger, request
<1>2. block' = block + 1 /\ Served(block + 1)
  BY DEF TakeBlock, Slip, Sound, Types
<1>3. block \in Nat /\ block + 1 \in Heights
  BY <1>1, HeightAssumption DEF Sound, Types, Heights
<1>4. feed' = leaves[block + 1] /\ slips = 0
  BY <1>2, <1>3, ServedAsItIs DEF Sound
<1>5. OnTrack
  BY <1>1, <1>4 DEF Faultless
<1>6. Sound'
  BY TakeBlockIsSound
<1>7. RootNow = trees[block] /\ \A r \in RootsAfter : r.root = trees[r.height]
  BY <1>1, <1>5, KeptRootIsServed
<1>8. Sealed' = Sealed /\ RootNow' = RootNow /\ \A s \in DOMAIN slots : Taken(s)' = Taken(s)
  BY <1>1 DEF Sealed, RootNow, Taken
<1>9. Reported(slots)'
  BY <1>1, <1>5 DEF OnTrack, Reported
<1>10. FeedIsRest' /\ \A s \in DOMAIN slots' : slots'[s].height = block' => InFeed(s)'
  <2>1. Types' /\ feed' = leaves'[block']
    BY <1>1, <1>2, <1>4, <1>6 DEF Sound
  <2> QED
    BY <1>9, <2>1, BlockBegins
<1>11. PassedIsTaken'
  <2> SUFFICES ASSUME NEW s \in DOMAIN slots
               PROVE  Taken(s)' <=> \/ slots[s].height < block'
                                    \/ slots[s].height = block' /\ ~InFeed(s)'
    BY <1>1 DEF PassedIsTaken
  <2>1. slots[s].height \in Nat
    <3>1. slots[s] \in Refs
      BY ElementOfSeq, LenProperties DEF Sound, Types
    <3> QED
      BY <3>1, HeightsInNat DEF Refs
  <2>2. ~InFeed(s)
    BY <1>1, EmptySeq DEF InFeed
  <2>3. Taken(s) <=> slots[s].height <= block
    BY <1>3, <1>5, <2>1, <2>2 DEF OnTrack, PassedIsTaken
  <2> QED
    BY <1>1, <1>2, <1>3, <1>8, <1>10, <2>1, <2>3
<1>12. (RootNow \o feed = trees[block])'
  <2>1. trees[block] \o leaves[block + 1] = trees[block + 1]
    BY <1>3 DEF Sound, Types, IsLedger
  <2> QED
    BY <1>1, <1>2, <1>4, <1>7, <1>8, <2>1
<1>13. RootsServed' /\ block' <= anchorAt'
  <2>1. anchorAt \in Nat
    BY HeightsInNat DEF Sound, Types
  <2> QED
    BY <1>1, <1>2, <1>3, <1>7, <2>1 DEF RootsServed
<1> QED
  BY <1>9, <1>10, <1>11, <1>12, <1>13 DEF OnTrack

LEMMA ReplayEndsOnTrack ==
  ASSUME Sound, Faultless, ReplayEnds
  PROVE  Faultless'
<1> SUFFICES ASSUME slips' = 0
             PROVE  stage' = "checking" /\ RootsServed' /\ (RootNow = trees[anchorAt])'
  BY DEF ReplayEnds, Faultless
<1>1. /\ stage = "replaying" /\ feed = <<>> /\ slips = 0 /\ block >= anchorAt
      /\ roots' = RootsAfter
      /\ UNCHANGED <<leaves, trees, slots, anchorAt, tree, wits>>
  BY DEF ReplayEnds, Slip, ledger, request, Sound, Types
<1>2. OnTrack
  BY <1>1 DEF Faultless
<1>3. block = anchorAt
  BY <1>1, <1>2, HeightsInNat DEF OnTrack, Sound, Types
<1>4. \A s \in DOMAIN slots : Taken(s)
  <2> SUFFICES ASSUME NEW s \in DOMAIN slots PROVE Taken(s)
    OBVIOUS
  <2>1. slots[s].height \in Nat /\ block \in Nat
    <3>1. slots[s] \in Refs
      BY ElementOfSeq, LenProperties DEF Sound, Types
    <3> QED
      BY <3>1, HeightsInNat DEF Refs, Sound, Types
  <2>2. slots[s].height <= block
    BY <1>1, <1>3 DEF Sound, Anchored
  <2>3. ~InFeed(s)
    BY <1>1, EmptySeq DEF InFeed
  <2> QED
    BY <1>2, <2>1, <2>2, <2>3 DEF OnTrack, PassedIsTaken
<1>5. RootNow = trees[block] /\ \A r \in RootsAfter : r.root = trees[r.height]
  BY <1>1, <1>2, KeptRootIsServed
<1>6. RootNow' = RootNow
  BY <1>1 DEF RootNow, Sealed, Taken
<1> QED
  BY <1>1, <1>3, <1>4, <1>5, <1>6 DEF ReplayEnds, RootsServed

LEMMA CheckRootsOnTrack ==
  ASSUME Sound, Faultless, CheckRoots
  PROVE  Faultless'
<1> SUFFICES ASSUME slips' = 0
             PROVE  stage' = "witnessed"
  BY DEF CheckRoots, Faultless
<1>1. stage = "checking" /\ slips = 0
  BY DEF CheckRoots
<1>2. RootsServed /\ RootNow = trees[anchorAt]
  BY <1>1 DEF Faultless
<1>3. Sealed /\ 1 \in DOMAIN slots
  BY <1>1, LenProperties, EmptySeq DEF Sound, Types, Checked, Anchored, Sealed
<1>4. \A s \in DOMAIN slots : wits[s].root = wits[1].root
  BY <1>3 DEF Sound, WitnessesAgree, Sealed
<1>5. Finish
  BY <1>2, <1>3, <1>4 DEF Finish, RootNow
<1> QED
  BY <1>2, <1>5 DEF CheckRoots

LEMMA CallFailsOnTrack ==
  ASSUME Sound, CallFails
  PROVE  Faultless'
BY DEF CallFails, Slip, Faultless, Sound, Types

LEMMA StutterIsSound ==
  ASSUME WitnessInv, UNCHANGED witnessVars
  PROVE  WitnessInv'
<1> USE DEF witnessVars, ledger, request, replay
<1>1. Sound'
  BY DEF WitnessInv, Sound, Types, IsLedger, WitnessesAgree, LeadsFromItsNote, Anchored,
         Checked, Taken, Sealed
<1>2. Faultless'
  BY DEF WitnessInv, Faultless, OnTrack, Reported, FeedIsRest, PassedIsTaken, InFeed,
         RootsServed, RootNow, Refused, HeightsOf, Taken, Sealed
<1> QED
  BY <1>1, <1>2 DEF WitnessInv

-----------------------------------------------------------------------------
(***************************************************************************)
(* The results.                                                            *)
(***************************************************************************)

LEMMA StepIsSound == WitnessInv /\ [WitnessNext]_witnessVars => WitnessInv'
<1> SUFFICES ASSUME WitnessInv, [WitnessNext]_witnessVars PROVE WitnessInv'
  OBVIOUS
<1> USE DEF WitnessInv
<1>1. CASE \E ns \in Seq(Refs) : Reported(ns) /\ Begin(ns)
  BY <1>1, BeginIsSound, BeginOnTrack
<1>2. CASE \E ns \in Seq(Refs) : Reported(ns) /\ Refuse(ns)
  BY <1>2, RefuseIsSound, RefuseForACause
<1>3. CASE AppendLeaf
  BY <1>3, AppendLeafIsSound, AppendLeafOnTrack
<1>4. CASE TakeBlock
  BY <1>4, TakeBlockIsSound, TakeBlockOnTrack
<1>5. CASE ReplayEnds
  BY <1>5, ReplayEndsIsSound, ReplayEndsOnTrack
<1>6. CASE CheckRoots
  BY <1>6, CheckRootsIsSound, CheckRootsOnTrack
<1>7. CASE CallFails
  BY <1>7, CallFailsIsSound, CallFailsOnTrack
<1>8. CASE UNCHANGED witnessVars
  BY <1>8, StutterIsSound
<1> QED
  BY <1>1, <1>2, <1>3, <1>4, <1>5, <1>6, <1>7, <1>8 DEF WitnessNext, Working

\* The invariant behind the three results below (sweep.rs:188-567, spend.rs:630-828).
THEOREM WitnessInvariant == WitnessSpec => []WitnessInv
BY InitIsSound, StepIsSound, PTL DEF WitnessSpec

\* Every path of a witnessed sweep leads from its own note to the chain's root at the
\* anchor, whatever the gateways served (WitnessScan::finish, spend.rs:793).
THEOREM PathsLeadToTheAnchor == WitnessSpec => []WitnessExact
<1>1. WitnessInv => WitnessExact
  <2> SUFFICES ASSUME WitnessInv, stage = "witnessed", NEW s \in DOMAIN slots
               PROVE  /\ wits[s].root = trees[anchorAt]
                      /\ wits[s].pos \in DOMAIN trees[anchorAt]
                      /\ trees[anchorAt][wits[s].pos] = slots[s].note
                      /\ slots[s].height <= anchorAt
    BY DEF WitnessExact, PathOf
  <2>1. Taken(s) /\ wits[s].root = trees[anchorAt] /\ slots[s].height <= anchorAt
    BY DEF WitnessInv, Sound, Checked, Anchored
  <2> QED
    BY <2>1 DEF WitnessInv, Sound, LeadsFromItsNote
<1> QED
  BY <1>1, WitnessInvariant, PTL

\* The witnesses of one scan have one root, which is the tree's while it grows: the root
\* a sealed scan reads off its first witness is the tree's (spend.rs:662-682).
THEOREM OneRootForAll == WitnessSpec => []WitnessesAgree
<1>1. WitnessInv => WitnessesAgree
  BY DEF WitnessInv, Sound
<1> QED
  BY <1>1, WitnessInvariant, PTL

\* With gateways that serve the chain as it is, only a request no sweep can serve is
\* refused (sweep.rs:172, 508-557).
THEOREM OnlyRefusedForACause == WitnessSpec => []RefusedForACause
<1>1. WitnessInv => RefusedForACause
  BY DEF WitnessInv, Sound, Types, Faultless, RefusedForACause
<1> QED
  BY <1>1, WitnessInvariant, PTL
=============================================================================
