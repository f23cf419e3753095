--------------------------- MODULE BlockScanProofs ---------------------------
(***************************************************************************)
(* For every set of notes, every chain, every link and every chunk size:   *)
(* the walk keeps WalkInv, so its answer is exact, and the whole call      *)
(* implements the one-look promise of EnvelopeAnswer.                      *)
(***************************************************************************)
EXTENDS BlockScan, TLAPS

\* The inductive invariant: types, where the walk stands, what was answered.
IInv == TypeOK /\ WalkInv /\ AnswerExact /\ EarlyHonest

\* scan_range starts within the chain and at or below the tip, whatever the link.
LEMMA ScanStartInRange ==
  ASSUME NEW b \in Heights \cup {NoBirthday}, NEW t \in Heights
  PROVE  ScanStart(b, t) \in Heights /\ ScanStart(b, t) <= t
BY HeightAssumption, ScanAssumption DEF Heights, ScanStart, SaturatingSub, Smaller

\* A note paid in a block above every block of A is spent in no block of A.
LEMMA FoundLaterIsNotSpentEarlier ==
  ASSUME IsChain(pays, spends), NEW A \in SUBSET Heights, NEW B \in SUBSET Heights,
         \A a \in A, b \in B : a < b
  PROVE  PaidIn(pays, B) \cap SpentIn(spends, A) = {}
<1> SUFFICES ASSUME NEW n \in DOMAIN pays, pays[n] \in B,
                    n \in DOMAIN spends, spends[n] \in A
             PROVE  FALSE
  BY DEF PaidIn, SpentIn
<1>1. pays[n] <= spends[n]
  BY DEF IsChain
<1>2. spends[n] < pays[n]
  OBVIOUS
<1>3. pays[n] \in Heights /\ spends[n] \in Heights
  OBVIOUS
<1>4. pays[n] \in Nat /\ spends[n] \in Nat
  BY <1>3, HeightAssumption DEF Heights
<1> QED
  BY <1>1, <1>2, <1>4

\* Handing the run B to the scan keeps the watch list and the seen spends exact,
\* when every block of B is above every block already scanned.
LEMMA RunKeepsWatch ==
  ASSUME IsChain(pays, spends),
         scanned \in SUBSET Heights, NEW B \in SUBSET Heights,
         \A s \in scanned, b \in B : s < b,
         start \in scanned, mode \in {"Full", "SpendsOnly"},
         watched = IF mode = "Full" THEN PaidIn(pays, scanned) ELSE PaidIn(pays, {start}),
         seen = watched \cap SpentIn(spends, scanned),
         notes \cup hits = watched,
         ScanRun(B, mode)
  PROVE  /\ scanned' = scanned \cup B
         /\ watched' = IF mode = "Full" THEN PaidIn(pays, scanned')
                                        ELSE PaidIn(pays, {start})
         /\ seen' = watched' \cap SpentIn(spends, scanned')
         /\ notes \cup hits' = watched'
<1>1. scanned' = scanned \cup B
  BY DEF ScanRun
<1>2. /\ watched' = watched \cup RunFinds(B, mode)
      /\ hits' = hits \cup RunFinds(B, mode)
      /\ seen' = seen \cup (watched' \cap SpentIn(spends, B))
  BY DEF ScanRun, RecordSpends
<1>3. CASE mode = "Full"
  <2>1. PaidIn(pays, scanned \cup B) = PaidIn(pays, scanned) \cup PaidIn(pays, B)
    BY DEF PaidIn
  <2>2. SpentIn(spends, scanned \cup B) = SpentIn(spends, scanned) \cup SpentIn(spends, B)
    BY DEF SpentIn
  <2>3. PaidIn(pays, B) \cap SpentIn(spends, scanned) = {}
    BY FoundLaterIsNotSpentEarlier
  <2>4. RunFinds(B, mode) = PaidIn(pays, B)
    BY <1>3 DEF RunFinds
  <2> QED
    BY <1>1, <1>2, <1>3, <2>1, <2>2, <2>3, <2>4
<1>4. CASE mode = "SpendsOnly"
  <2>1. RunFinds(B, mode) = {}
    BY <1>4 DEF RunFinds
  <2>2. SpentIn(spends, scanned \cup B) = SpentIn(spends, scanned) \cup SpentIn(spends, B)
    BY DEF SpentIn
  <2> QED
    BY <1>1, <1>2, <1>4, <2>1, <2>2
<1> QED
  BY <1>3, <1>4

\* Every open starts in the invariant.
LEMMA InitIInv == Init => IInv
<1> SUFFICES ASSUME Init PROVE IInv
  OBVIOUS
<1>1. TypeOK
  BY HeightAssumption DEF Init, TypeOK, IsChain, NoAnswer, Heights
<1>2. WalkInv
  BY DEF Init, WalkInv, Begun
<1> QED
  BY <1>1, <1>2 DEF IInv, Init, AnswerExact, EarlyHonest

\* Every step of an open keeps it.
LEMMA StepIInv == IInv /\ [Next]_vars => IInv'
<1> SUFFICES ASSUME IInv, [Next]_vars PROVE IInv'
  OBVIOUS
<1> USE DEF IInv
<1>1. CASE ChooseGateway
  <2>1. PICK t \in Heights : tip' = t /\ start' = ScanStart(birthday, t)
                                      /\ pos' = ScanStart(birthday, t)
    BY <1>1 DEF ChooseGateway
  <2>2. start' \in Heights /\ start' <= tip' /\ pos' = start' /\ tip' \in Heights
    BY <2>1, ScanStartInRange DEF TypeOK
  <2>3. start' .. pos' - 1 = {}
    <3>1. \A k \in Nat : k .. k - 1 = {}
      OBVIOUS
    <3>2. start' \in Nat
      BY <2>2 DEF Heights
    <3> QED
      BY <2>2, <3>1, <3>2
  <2>4. TypeOK'
    BY <1>1, <2>2, HeightAssumption DEF TypeOK, ChooseGateway, Heights
  <2>5. WalkInv'
    BY <1>1, <2>2, <2>3, HeightAssumption
       DEF WalkInv, Begun, ChooseGateway, Heights, SpentIn
  <2> QED
    BY <1>1, <2>4, <2>5 DEF ChooseGateway, AnswerExact, EarlyHonest
<1>2. CASE FirstBlock
  <2>1. /\ scanned = {} /\ chunk = {} /\ watched = {} /\ seen = {}
        /\ hits = {} /\ notes = {} /\ early = NoAnswer
        /\ start \in Heights /\ start <= tip /\ tip \in Heights
    <3>1. start .. pos - 1 = {}
      BY <1>2, HeightAssumption DEF FirstBlock, TypeOK, Heights
    <3> QED
      BY <1>2, <3>1 DEF FirstBlock, WalkInv, TypeOK, Begun
  <2> DEFINE found == PaidIn(pays, {start})
  <2>2. /\ watched' = found /\ notes' = found /\ mode' = AfterFirstBlock(found)
        /\ seen' = found \cap SpentIn(spends, {start})
        /\ scanned' = {start} /\ pos' = start + 1 /\ hits' = {} /\ chunk' = {}
        /\ early' = IF found = {} THEN NoAnswer ELSE EarlyView(pays, spends, start)
    <3>1. found \cap (found \cap SpentIn(spends, {start})) = found \cap SpentIn(spends, {start})
      OBVIOUS
    <3> QED
      BY <1>2, <2>1, <3>1 DEF FirstBlock, RecordSpends, FinishOpen, EarlyView
  <2>3. found \in SUBSET Notes
    BY DEF TypeOK, IsChain, PaidIn
  <2>4. TypeOK'
    <3>1. early' \in [notes : SUBSET Notes, spent : SUBSET Notes]
      BY <2>2, <2>3 DEF NoAnswer, EarlyView
    <3>2. mode' \in {"Full", "SpendsOnly"}
      BY <2>2 DEF AfterFirstBlock
    <3>3. pos' \in 0 .. MaxHeight + 1
      BY <2>1, <2>2, HeightAssumption DEF Heights
    <3>4. /\ watched' \in SUBSET Notes /\ seen' \in SUBSET Notes
          /\ hits' \in SUBSET Notes /\ notes' \in SUBSET Notes
          /\ chunk' \in SUBSET Heights /\ scanned' \in SUBSET Heights
      BY <2>1, <2>2, <2>3
    <3> QED
      BY <1>2, <3>1, <3>2, <3>3, <3>4 DEF TypeOK, FirstBlock
  <2>5. {start} = start .. (start + 1) - 1
    BY <2>1, HeightAssumption DEF Heights
  <2>6. WalkInv'
    <3>1. UNCHANGED <<pays, spends, start, tip, status>> /\ status = "looking"
      BY <1>2 DEF FirstBlock
    <3>2. start < start + 1 /\ start <= start + 1 /\ start + 1 <= tip + 1
      BY <2>1, HeightAssumption DEF Heights
    <3>3. PaidIn(pays, {start}) = {} => mode' = "Full"
      BY <2>2 DEF AfterFirstBlock
    <3>4. PaidIn(pays, {start}) # {} => mode' = "SpendsOnly"
      BY <2>2 DEF AfterFirstBlock
    <3> QED
      BY <2>1, <2>2, <2>5, <3>1, <3>2, <3>3, <3>4 DEF WalkInv, Begun
  <2> QED
    BY <1>2, <2>4, <2>6 DEF FirstBlock, AnswerExact, EarlyHonest
<1>3. CASE NextBlock
  <2> DEFINE B == chunk \cup {pos}
  <2>1. /\ UNCHANGED <<pays, spends, start, tip, status, early, answer, birthday, mode, notes>>
        /\ status = "looking" /\ Begun /\ pos <= tip /\ pos' = pos + 1
    BY <1>3 DEF NextBlock, call, Begun
  <2>2. /\ B \in SUBSET Heights /\ pos \in Heights
        /\ \A s \in scanned, b \in B : s < b
        /\ scanned \cup B = start .. pos
        /\ pos = pos' - 1 /\ start \in Heights /\ tip \in Heights
    <3>1. scanned \cup chunk = start .. pos - 1 /\ pos \in Heights /\ start \in Heights
      BY <2>1, HeightAssumption DEF WalkInv, TypeOK, Heights
    <3>2. (start .. pos - 1) \cup {pos} = start .. pos
      BY <2>1, <3>1, HeightAssumption DEF Begun, Heights
    <3>3. \A s \in scanned : s < pos
      BY <3>1, HeightAssumption DEF Heights
    <3>4. pos = pos' - 1
      BY <2>1, <3>1, HeightAssumption DEF Heights
    <3> QED
      BY <2>1, <3>1, <3>2, <3>3, <3>4 DEF WalkInv, TypeOK
  <2>3. /\ start \in scanned /\ mode \in {"Full", "SpendsOnly"}
        /\ watched = (IF mode = "Full" THEN PaidIn(pays, scanned) ELSE PaidIn(pays, {start}))
        /\ seen = watched \cap SpentIn(spends, scanned)
        /\ notes \cup hits = watched
        /\ IsChain(pays, spends) /\ scanned \in SUBSET Heights
    BY <2>1 DEF WalkInv, TypeOK
  <2>4. CASE Cardinality(B) = ChunkBlocks
    <3>1. ScanRun(B, mode) /\ chunk' = {}
      BY <1>3, <2>4 DEF NextBlock
    <3>2. /\ scanned' = scanned \cup B
          /\ watched' = (IF mode = "Full" THEN PaidIn(pays, scanned')
                                          ELSE PaidIn(pays, {start}))
          /\ seen' = watched' \cap SpentIn(spends, scanned')
          /\ notes \cup hits' = watched'
      BY <2>2, <2>3, <3>1, RunKeepsWatch
    <3>3. watched' \in SUBSET Notes /\ seen' \in SUBSET Notes /\ hits' \in SUBSET Notes
      BY <3>2, <2>3 DEF IsChain, PaidIn
    <3>4. TypeOK'
      <4>1. pos' \in 0 .. MaxHeight + 1
        BY <2>1, <2>2, HeightAssumption DEF Heights
      <4>2. scanned' \in SUBSET Heights /\ chunk' \in SUBSET Heights
        BY <2>2, <2>3, <3>1, <3>2
      <4> QED
        BY <2>1, <3>3, <4>1, <4>2 DEF TypeOK
    <3>5. WalkInv'
      <4>1. start' <= pos' /\ pos' <= tip' + 1 /\ start' < pos'
        BY <2>1, <2>2, HeightAssumption DEF Begun, Heights
      <4>2. scanned' \cup chunk' = start' .. pos' - 1
        BY <2>1, <2>2, <3>1, <3>2
      <4> QED
        BY <2>1, <2>3, <3>1, <3>2, <4>1, <4>2 DEF WalkInv, Begun
    <3> QED
      BY <2>1, <3>4, <3>5 DEF AnswerExact, EarlyHonest
  <2>5. CASE Cardinality(B) # ChunkBlocks
    <3>1. chunk' = B /\ UNCHANGED <<watched, seen, hits, scanned>>
      BY <1>3, <2>5 DEF NextBlock
    <3>2. TypeOK'
      BY <2>1, <2>2, <3>1, HeightAssumption DEF TypeOK, Heights
    <3>3. WalkInv'
      <4>1. start' <= pos' /\ pos' <= tip' + 1 /\ start' < pos'
        BY <2>1, <2>2, HeightAssumption DEF Begun, Heights
      <4>2. scanned' \cup chunk' = start' .. pos' - 1
        BY <2>1, <2>2, <3>1
      <4>3. \A s \in scanned', c \in chunk' : s < c
        BY <2>2, <3>1
      <4> QED
        BY <2>1, <2>3, <3>1, <4>1, <4>2, <4>3 DEF WalkInv, Begun
    <3> QED
      BY <2>1, <3>2, <3>3 DEF AnswerExact, EarlyHonest
  <2> QED
    BY <2>4, <2>5
<1>4. CASE EndOfStream
  <2>1. /\ UNCHANGED <<pays, spends, start, tip, early, birthday, pos, mode>>
        /\ status = "looking" /\ Begun /\ pos = tip + 1
        /\ ScanRun(chunk, mode) /\ chunk' = {} /\ notes' = notes \cup hits'
    BY <1>4 DEF EndOfStream, Begun
  <2>2. /\ start \in scanned /\ mode \in {"Full", "SpendsOnly"}
        /\ watched = (IF mode = "Full" THEN PaidIn(pays, scanned) ELSE PaidIn(pays, {start}))
        /\ seen = watched \cap SpentIn(spends, scanned)
        /\ notes \cup hits = watched
        /\ IsChain(pays, spends) /\ scanned \in SUBSET Heights /\ chunk \in SUBSET Heights
        /\ \A s \in scanned, c \in chunk : s < c
        /\ mode = AfterFirstBlock(PaidIn(pays, {start}))
        /\ early = (IF mode = "Full" THEN NoAnswer ELSE EarlyView(pays, spends, start))
    BY <2>1 DEF WalkInv, TypeOK
  <2>3. /\ scanned' = scanned \cup chunk
        /\ watched' = (IF mode = "Full" THEN PaidIn(pays, scanned')
                                        ELSE PaidIn(pays, {start}))
        /\ seen' = watched' \cap SpentIn(spends, scanned')
        /\ notes \cup hits' = watched'
    BY <2>1, <2>2, RunKeepsWatch
  <2>4. scanned' = start .. tip
    <3>1. scanned \cup chunk = start .. pos - 1
      BY <2>1 DEF WalkInv
    <3>2. pos - 1 = tip
      BY <2>1, HeightAssumption DEF TypeOK, Heights
    <3> QED
      BY <2>3, <3>1, <3>2
  <2>5. watched' = Wanted(pays, start, tip)
    BY <2>2, <2>3, <2>4 DEF Wanted, AfterFirstBlock
  <2>6. /\ notes' = watched' /\ status' = "answered"
        /\ answer' = View(pays, spends, start, tip)
    <3>1. notes' = watched'
      BY <2>1, <2>3
    <3>2. AllWatched(notes', watched')
      BY <3>1 DEF AllWatched
    <3>3. status' = "answered" /\ answer' = FinishOpen(notes', seen')
      BY <1>4, <3>2 DEF EndOfStream
    <3>4. FinishOpen(watched', seen') = View(pays, spends, start, tip)
      BY <2>3, <2>4, <2>5 DEF FinishOpen, View
    <3> QED
      BY <3>1, <3>3, <3>4
  <2>7. TypeOK'
    <3>1. watched' \in SUBSET Notes /\ seen' \in SUBSET Notes /\ hits' \in SUBSET Notes
      BY <2>3, <2>2 DEF IsChain, PaidIn
    <3>2. answer' \in [notes : SUBSET Notes, spent : SUBSET Notes]
      BY <2>5, <2>6, <3>1 DEF View
    <3>3. scanned' \in SUBSET Heights
      BY <2>2, <2>3
    <3> QED
      BY <2>1, <2>6, <3>1, <3>2, <3>3 DEF TypeOK
  <2>8. WalkInv'
    BY <2>1, <2>6 DEF WalkInv
  <2>9. EarlyHonest'
    <3>1. CASE mode = "Full"
      BY <2>1, <2>2, <3>1 DEF EarlyHonest, NoAnswer
    <3>2. CASE mode = "SpendsOnly"
      <4>1. PaidIn(pays, {start}) # {}
        BY <2>2, <3>2 DEF AfterFirstBlock
      <4>2. Wanted(pays, start, tip) = PaidIn(pays, {start})
        BY <4>1 DEF Wanted
      <4>3. SpentIn(spends, {start}) \subseteq SpentIn(spends, start .. tip)
        <5>1. {start} \subseteq start .. tip
          BY HeightAssumption DEF WalkInv, TypeOK, Heights
        <5> QED
          BY <5>1 DEF SpentIn
      <4>4. early' = EarlyView(pays, spends, start)
        BY <2>1, <2>2, <3>2
      <4> QED
        BY <2>6, <4>2, <4>3, <4>4 DEF EarlyHonest, View, EarlyView
    <3> QED
      BY <2>2, <3>1, <3>2
  <2> QED
    BY <2>1, <2>6, <2>7, <2>8, <2>9 DEF AnswerExact
<1>5. CASE BreakOff
  BY <1>5 DEF BreakOff, walk, TypeOK, WalkInv, AnswerExact, EarlyHonest
<1>6. CASE UNCHANGED vars
  BY <1>6 DEF vars, call, walk, TypeOK, WalkInv, Begun, AnswerExact, EarlyHonest
<1> QED
  BY <1>1, <1>2, <1>3, <1>4, <1>5, <1>6 DEF Next

\* The invariant holds throughout every open.
THEOREM ScanInvariant == Spec => []IInv
BY InitIInv, StepIInv, PTL DEF Spec

\* Types: no height leaves the chain and no note is invented.
THEOREM ScanTypes == Spec => []TypeOK
<1>1. IInv => TypeOK
  BY DEF IInv
<1> QED
  BY <1>1, ScanInvariant, PTL

\* The walk itself: at every chunk boundary the watch list holds exactly the wanted
\* notes of the blocks scanned so far, and what it has seen are their spends there.
THEOREM WalkIsExact == Spec => []WalkInv
<1>1. IInv => WalkInv
  BY DEF IInv
<1> QED
  BY <1>1, ScanInvariant, PTL

\* An answered open says exactly what one look at the whole range would say:
\* what it calls unspent is revealed by no block up to the tip.
THEOREM AnswerIsExact == Spec => []AnswerExact
<1>1. IInv => AnswerExact
  BY DEF IInv
<1> QED
  BY <1>1, ScanInvariant, PTL

\* The amount revealed early is never taken back by the answer.
THEOREM EarlyRevealIsHonest == Spec => []EarlyHonest
<1>1. IInv => EarlyHonest
  BY DEF IInv
<1> QED
  BY <1>1, ScanInvariant, PTL

\* The buffered, chunked, two-phase walk does what one look at the chain does:
\* the first block is the reveal, the end of the stream the reply, and every
\* other block is invisible.
THEOREM ScanImplementsPromise == Spec => ImplementsPromise
<1>1. Init => Promise!Init
  BY DEF Init, Promise!Init, Promise!IsChain, Promise!Heights, Heights,
         Promise!NoAnswer, NoAnswer
<1>2. IInv /\ [Next]_vars => [Promise!Next]_(Promise!vars)
  <2> SUFFICES ASSUME IInv, [Next]_vars
               PROVE  Promise!Next \/ UNCHANGED Promise!vars
    OBVIOUS
  <2> USE DEF Promise!vars
  <2>1. CASE ChooseGateway
    <3>1. PICK t \in Heights : tip' = t /\ start' = ScanStart(birthday, t)
      BY <2>1 DEF ChooseGateway
    <3>2. tip' \in Heights /\ start' \in 0 .. tip'
      <4>1. birthday \in Heights \cup {NoBirthday}
        BY DEF IInv, TypeOK
      <4>2. start' \in Heights /\ start' <= tip' /\ tip' \in Heights
        BY <3>1, <4>1, ScanStartInRange
      <4> QED
        BY <4>2, HeightAssumption DEF Heights
    <3>3. Promise!Choose
      BY <2>1, <3>2 DEF ChooseGateway, Promise!Choose, Promise!Heights, Heights
    <3> QED
      BY <3>3 DEF Promise!Next
  <2>2. CASE FirstBlock
    <3>1. /\ UNCHANGED <<pays, spends, start, tip, status, answer>>
          /\ status = "looking" /\ watched = {} /\ seen = {}
      <4>1. status = "looking" /\ ~Begun
        BY <2>2, HeightAssumption DEF FirstBlock, Begun, IInv, TypeOK, Heights
      <4> QED
        BY <2>2, <4>1 DEF FirstBlock, IInv, WalkInv
    <3>2. CASE PaidIn(pays, {start}) = {}
      BY <2>2, <3>1, <3>2 DEF FirstBlock
    <3>3. CASE PaidIn(pays, {start}) # {}
      <4> DEFINE found == PaidIn(pays, {start})
      <4>1. early' = FinishOpen(found, found \cap SpentIn(spends, {start}))
        BY <2>2, <3>1, <3>3 DEF FirstBlock, RecordSpends
      <4>2. early' = EarlyView(pays, spends, start)
        <5>1. found \cap (found \cap SpentIn(spends, {start}))
                = found \cap SpentIn(spends, {start})
          OBVIOUS
        <5> QED
          BY <4>1, <5>1 DEF FinishOpen, EarlyView
      <4>3. Promise!Reveal
        BY <3>1, <3>3, <4>2 DEF Promise!Reveal, Promise!PaidIn,
           PaidIn, Promise!EarlyView, EarlyView, Promise!SpentIn, SpentIn
      <4> QED
        BY <4>3 DEF Promise!Next
    <3> QED
      BY <3>2, <3>3
  <2>3. CASE NextBlock
    BY <2>3 DEF NextBlock, call
  <2>4. CASE EndOfStream
    <3>1. /\ UNCHANGED <<pays, spends, start, tip, early>>
          /\ status = "looking" /\ Begun
      BY <2>4 DEF EndOfStream, Begun
    <3>2. PaidIn(pays, {start}) # {} => early = EarlyView(pays, spends, start)
      BY <3>1 DEF IInv, WalkInv, AfterFirstBlock
    <3>3. IInv'
      BY StepIInv
    <3>4. CASE status' = "answered"
      <4>1. answer' = View(pays, spends, start, tip)
        BY <3>1, <3>3, <3>4 DEF IInv, AnswerExact
      <4>2. Promise!Reply
        BY <3>1, <3>2, <3>4, <4>1 
        DEF Promise!Reply, Promise!PaidIn, PaidIn, Promise!EarlyView, EarlyView,
            Promise!SpentIn, SpentIn, Promise!View, View, Promise!Wanted, Wanted
      <4> QED
        BY <4>2 DEF Promise!Next
    <3>5. CASE status' # "answered"
      <4>1. status' = "failed" /\ answer' = answer
        BY <2>4, <3>5 DEF EndOfStream
      <4>2. Promise!Fail
        BY <3>1, <4>1 DEF Promise!Fail
      <4> QED
        BY <4>2 DEF Promise!Next
    <3> QED
      BY <3>4, <3>5
  <2>5. CASE BreakOff
    <3>1. Promise!Fail
      BY <2>5 DEF BreakOff, Promise!Fail
    <3> QED
      BY <3>1 DEF Promise!Next
  <2>6. CASE UNCHANGED vars
    BY <2>6 DEF vars, call
  <2> QED
    BY <2>1, <2>2, <2>3, <2>4, <2>5, <2>6 DEF Next
<1> QED
  BY <1>1, <1>2, ScanInvariant, PTL DEF Spec, ImplementsPromise, Promise!Spec
=============================================================================
