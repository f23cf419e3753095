--------------------------- MODULE OpenSweepProofs ---------------------------
(***************************************************************************)
(* For every chain, link, tip and order of the notes: an open followed by  *)
(* a sweep of what it found is a walk of BlockScan and a witness stage of  *)
(* SweepWitness, so what is proved of each holds of the two together, and  *)
(* what is witnessed is everything that was there to be spent.             *)
(***************************************************************************)
EXTENDS OpenSweep, BlockScanProofs, SweepWitnessProofs, FiniteSetTheorems

\* A sweep is of the notes its open found unspent, each of them once.
SweepsTheUnspent ==
  stage # "idle" =>
    /\ status = "answered"
    /\ slots \in Seq(Refs)
    /\ { slots[s].note : s \in DOMAIN slots } = answer.notes \ answer.spent
    /\ \A s, r \in DOMAIN slots : slots[s].note = slots[r].note => s = r
    /\ \A s \in DOMAIN slots : slots[s].height = pays[slots[s].note]
    /\ slots # <<>>

\* What the two calls keep together.
Both == IInv /\ OnLedger /\ SweepsTheUnspent

-----------------------------------------------------------------------------
\* What is asked for is of the open: notes it found, where they were paid.
LEMMA RequestsAreReported ==
  ASSUME IInv, OnLedger, status = "answered", NEW ns \in Requests(answer),
         answer.notes # answer.spent
  PROVE  /\ Reported(ns) /\ ns # <<>>
         /\ { ns[s].note : s \in DOMAIN ns } = answer.notes \ answer.spent
         /\ \A s, r \in DOMAIN ns : ns[s].note = ns[r].note => s = r
         /\ \A s \in DOMAIN ns : ns[s].height = pays[ns[s].note]
<1> DEFINE S == answer.notes \ answer.spent
           k == Cardinality(S)
<1>1. S \subseteq DOMAIN pays /\ S # {} /\ pays \in [DOMAIN pays -> Heights]
      /\ DOMAIN pays \subseteq Notes
  <2>1. answer = View(pays, spends, start, tip)
    BY DEF IInv, AnswerExact
  <2>2. answer.notes \subseteq DOMAIN pays /\ answer.spent \subseteq answer.notes
    BY <2>1 DEF View, Wanted, PaidIn
  <2>3. pays \in [DOMAIN pays -> Heights] /\ DOMAIN pays \subseteq Notes
    BY DEF IInv, TypeOK, IsChain
  <2> QED
    BY <2>2, <2>3
<1>2. IsFiniteSet(S)
  BY <1>1, NotesAssumption, FS_Subset
<1>3. k \in Nat /\ k # 0
  BY <1>1, <1>2, FS_CardinalityType, FS_EmptySet
<1>4. PICK q \in Bijection(1 .. k, S) :
        ns = [i \in DOMAIN q |-> [note |-> q[i], height |-> pays[q[i]]]]
  BY DEF Requests
<1> HIDE DEF S, k
<1>5. /\ q \in [1 .. k -> S] /\ \A n \in S : \E i \in 1 .. k : q[i] = n
      /\ \A i, j \in 1 .. k : q[i] = q[j] => i = j
  BY <1>4 DEF Bijection, Injection, Surjection, IsInjective
<1>6. /\ DOMAIN ns = 1 .. k
      /\ \A i \in 1 .. k : ns[i].note = q[i] /\ ns[i].height = pays[q[i]] /\ ns[i] \in Refs
  BY <1>1, <1>4, <1>5 DEF Refs
<1>7. ns \in Seq(Refs) /\ ns # <<>>
  <2>1. ns \in [1 .. k -> Refs]
    BY <1>4, <1>5, <1>6
  <2> QED
    BY <1>3, <1>6, <2>1, SeqDef
<1>8. Reported(ns)
  BY <1>1, <1>5, <1>6, <1>7 DEF Reported, OnLedger
<1>9. { ns[s].note : s \in DOMAIN ns } = S
  BY <1>5, <1>6
<1> QED
  BY <1>5, <1>6, <1>7, <1>8, <1>9 DEF S

\* A sweep step is a step of the witness stage.
LEMMA SweepStepWitnesses ==
  ASSUME Both, [SweepNext]_<<vars, witnessVars>>
  PROVE  [WitnessNext]_witnessVars
<1>1. CASE OpenStep
  BY <1>1 DEF OpenStep
<1>2. CASE AskSweep
  <2>1. PICK ns \in Requests(answer) : Begin(ns) \/ Refuse(ns)
    BY <1>2 DEF AskSweep
  <2>2. Reported(ns)
    BY <1>2, RequestsAreReported DEF AskSweep, Swept, Both
  <2> QED
    BY <2>1, <2>2 DEF WitnessNext, Reported
<1>3. CASE Working
  BY <1>3 DEF WitnessNext
<1>4. CASE UNCHANGED <<vars, witnessVars>>
  BY <1>4
<1> QED
  BY <1>1, <1>2, <1>3, <1>4 DEF SweepNext, SweepStep

\* Any step is a step of the open, or leaves the open alone.
LEMMA SweepStepOpens ==
  ASSUME [SweepNext]_<<vars, witnessVars>>
  PROVE  [Next]_vars
BY DEF SweepNext, OpenStep, SweepStep, vars

\* The two calls start together.
LEMMA SweepInitBoth == SweepInit => Both
BY InitIInv DEF SweepInit, CallInit, Both, SweepsTheUnspent

\* No step of the open changes the chain, or an answer that was given.
LEMMA OpenKeepsChain ==
  ASSUME [Next]_vars
  PROVE  UNCHANGED pays /\ (status = "answered" => status' = status /\ answer' = answer)
BY DEF Next, ChooseGateway, FirstBlock, NextBlock, EndOfStream, BreakOff, vars, call, walk

\* No step of a sweep under way changes its request, and none is made without a request.
LEMMA WorkingKeepsRequest ==
  ASSUME Working
  PROVE  stage # "idle" /\ UNCHANGED <<leaves, trees, slots>>
BY DEF Working, AppendLeaf, TakeBlock, ReplayEnds, CheckRoots, CallFails, ledger, request

LEMMA SweepStepBoth ==
  ASSUME Both, [SweepNext]_<<vars, witnessVars>>
  PROVE  Both'
<1>1. IInv'
  BY SweepStepOpens, StepIInv DEF Both
<1>2. /\ pays' = pays /\ leaves' = leaves
      /\ status = "answered" => status' = status /\ answer' = answer
  <2>1. leaves' = leaves
    <3>1. CASE OpenStep
      BY <3>1 DEF OpenStep, witnessVars, ledger
    <3>2. CASE AskSweep
      BY <3>2 DEF AskSweep, Begin, Refuse, ledger
    <3>3. CASE Working
      BY <3>3, WorkingKeepsRequest
    <3>4. CASE UNCHANGED <<vars, witnessVars>>
      BY <3>4 DEF witnessVars, ledger
    <3> QED
      BY <3>1, <3>2, <3>3, <3>4 DEF SweepNext, SweepStep
  <2> QED
    BY <2>1, SweepStepOpens, OpenKeepsChain
<1>3. OnLedger'
  BY <1>2 DEF Both, OnLedger
<1>4. SweepsTheUnspent'
  <2>1. CASE OpenStep \/ UNCHANGED <<vars, witnessVars>>
    <3>1. stage' = stage /\ slots' = slots
      BY <2>1 DEF OpenStep, witnessVars, request
    <3> QED
      BY <1>2, <3>1 DEF Both, SweepsTheUnspent
  <2>2. CASE AskSweep /\ UNCHANGED <<call, walk>>
    <3>1. PICK ns \in Requests(answer) : Begin(ns) \/ Refuse(ns)
      BY <2>2 DEF AskSweep
    <3>2. slots' = ns /\ status' = "answered" /\ answer' = answer
      BY <1>2, <2>2, <3>1 DEF Begin, Refuse, AskSweep, Swept
    <3>3. /\ ns \in Seq(Refs) /\ ns # <<>>
          /\ { ns[s].note : s \in DOMAIN ns } = answer.notes \ answer.spent
          /\ \A s, r \in DOMAIN ns : ns[s].note = ns[r].note => s = r
          /\ \A s \in DOMAIN ns : ns[s].height = pays[ns[s].note]
      BY <2>2, RequestsAreReported DEF AskSweep, Swept, Both, Reported
    <3> QED
      BY <1>2, <3>2, <3>3 DEF SweepsTheUnspent
  <2>3. CASE Working
    BY <1>2, <2>3, WorkingKeepsRequest DEF Both, SweepsTheUnspent
  <2> QED
    BY <2>1, <2>2, <2>3 DEF SweepNext, SweepStep
<1> QED
  BY <1>1, <1>3, <1>4 DEF Both

-----------------------------------------------------------------------------
\* What the two calls keep together holds throughout: the request of a sweep is, until it
\* ends, what its open found unspent, each note once and where it was paid
\* (openFlow.ts:225-232, grpc.rs:425-524).
THEOREM SweepsWhatWasFound == SweepSpec => []Both
<1>1. SweepInit => Both
  BY SweepInitBoth
<1>2. Both /\ [SweepNext]_<<vars, witnessVars>> => Both'
  BY SweepStepBoth
<1> QED
  BY <1>1, <1>2, PTL DEF SweepSpec

\* The open is an open, whatever the sweep does after it: BlockScan's theorems hold.
THEOREM TheOpenIsAnOpen == SweepSpec => Spec
<1>1. SweepInit => Init
  BY DEF SweepInit
<1>2. [SweepNext]_<<vars, witnessVars>> => [Next]_vars
  BY SweepStepOpens
<1> QED
  BY <1>1, <1>2, PTL DEF SweepSpec, Spec

\* What an open reports is what the witness stage expects: notes that are in the blocks
\* they name.  So SweepWitness's theorems hold of the sweep of any open.
THEOREM TheSweepIsWitnessed == SweepSpec => WitnessSpec
<1>1. SweepInit => WitnessInit
  BY DEF SweepInit, WitnessInit
<1>2. Both /\ [SweepNext]_<<vars, witnessVars>> => [WitnessNext]_witnessVars
  BY SweepStepWitnesses
<1> QED
  BY <1>1, <1>2, SweepsWhatWasFound, PTL DEF SweepSpec, WitnessSpec

\* Of the two calls together: the answer is exact, and every path of a witnessed sweep
\* leads from its own note to the chain's root at the anchor (spend.rs:793, sweep.rs:547).
THEOREM OpenedAndWitnessed == SweepSpec => [](AnswerExact /\ WitnessExact /\ RefusedForACause)
BY TheOpenIsAnOpen, TheSweepIsWitnessed, AnswerIsExact, PathsLeadToTheAnchor,
   OnlyRefusedForACause, PTL

\* A witnessed sweep spends everything that one look at the open's range would call
\* unspent, and nothing else: none is left behind, none is spent twice.
SweepsItAll ==
  stage = "witnessed" =>
    LET v == View(pays, spends, start, tip)
    IN  /\ { slots[s].note : s \in DOMAIN slots } = v.notes \ v.spent
        /\ Len(slots) = Cardinality(v.notes \ v.spent)
        /\ \A s \in DOMAIN slots : trees[anchorAt][PathOf(s).pos] = slots[s].note

\* Over gateways that serve the chain as it is, what an open found is refused only for a
\* note in block 0, which no frontier lies below (sweep.rs:172).
RefusedForBlockZero ==
  stage = "failed" =>
    slips > 0 \/ \E n \in answer.notes \ answer.spent : pays[n] = 0

\* The envelope is emptied (openFlow.ts:225-232, sweep.rs:160-260).
THEOREM TheEnvelopeIsSwept == SweepSpec => []SweepsItAll
<1>1. Both /\ AnswerExact /\ WitnessExact => SweepsItAll
  <2> SUFFICES ASSUME Both, AnswerExact, WitnessExact, stage = "witnessed"
               PROVE  LET v == View(pays, spends, start, tip)
                      IN  /\ { slots[s].note : s \in DOMAIN slots } = v.notes \ v.spent
                          /\ Len(slots) = Cardinality(v.notes \ v.spent)
                          /\ \A s \in DOMAIN slots : trees[anchorAt][PathOf(s).pos] = slots[s].note
    BY DEF SweepsItAll
  <2> DEFINE S == answer.notes \ answer.spent
             k == Len(slots)
             f == [s \in 1 .. k |-> slots[s].note]
  <2>1. /\ answer = View(pays, spends, start, tip) /\ slots \in Seq(Refs)
        /\ { slots[s].note : s \in DOMAIN slots } = S
        /\ \A s, r \in DOMAIN slots : slots[s].note = slots[r].note => s = r
    BY DEF Both, SweepsTheUnspent, AnswerExact
  <2>2. k \in Nat /\ DOMAIN slots = 1 .. k
    BY <2>1, LenProperties
  <2>3. f \in Bijection(1 .. k, S)
    <3>1. f \in [1 .. k -> S]
      BY <2>1, <2>2
    <3> QED
      BY <2>1, <2>2, <3>1 DEF Bijection, Injection, Surjection, IsInjective
  <2>4. ExistsBijection(1 .. k, S)
    BY <2>3 DEF ExistsBijection
  <2>5. Cardinality(S) = k
    BY <2>2, <2>4, FS_CountingElements
  <2>6. \A s \in DOMAIN slots : trees[anchorAt][PathOf(s).pos] = slots[s].note
    BY DEF WitnessExact
  <2> QED
    BY <2>1, <2>5, <2>6
<1> QED
  BY <1>1, SweepsWhatWasFound, OpenedAndWitnessed, PTL

\* A sweep of an open ends well, or a gateway failed, or the chain's first block was paid.
THEOREM OnlyBlockZeroIsRefused == SweepSpec => []RefusedForBlockZero
<1>1. Both /\ RefusedForACause => RefusedForBlockZero
  <2> SUFFICES ASSUME Both, RefusedForACause, stage = "failed", ~(slips > 0)
               PROVE  \E n \in answer.notes \ answer.spent : pays[n] = 0
    BY DEF RefusedForBlockZero
  <2>1. Refused(slots)
    BY DEF RefusedForACause
  <2>2. PICK s \in DOMAIN slots : slots[s].height = 0
    BY <2>1 DEF Refused, HeightsOf, Both, SweepsTheUnspent
  <2> QED
    BY <2>2 DEF Both, SweepsTheUnspent
<1> QED
  BY <1>1, SweepsWhatWasFound, OpenedAndWitnessed, PTL
=============================================================================
