------------------------------ MODULE BlockScan ------------------------------
(***************************************************************************)
(* One open_envelope call: open_envelope_inner in crates/core/src/grpc.rs  *)
(* driving the block walk of crates/core/src/scan.rs.                      *)
(*                                                                         *)
(* A note stands for its transaction and its nullifier.  A compact block   *)
(* is its height: what it decrypts to is PaidIn(pays, {h}), which watched  *)
(* nullifiers it reveals is SpentIn(spends, {h}).  The counter `scanned`   *)
(* of the code is kept as the set of heights handed to the scan.           *)
(***************************************************************************)
EXTENDS EnvelopeChain, Integers, FiniteSets

CONSTANTS ChunkBlocks,  \* SCAN_CHUNK_BLOCKS
          Lookback,     \* DEFAULT_BIRTHDAY_LOOKBACK
          NoBirthday    \* a link with no birthday height

ASSUME ScanAssumption ==
  /\ ChunkBlocks \in Nat \ {0}
  /\ Lookback \in Nat
  /\ NoBirthday \notin Nat

VARIABLES pays, spends,  \* the chain the gateway serves
          birthday,      \* the height in the link
          start, tip,    \* the range of the walk
          status,        \* "choosing", "looking", "answered" or "failed"
          early,         \* what report_notes said after the first block
          answer,        \* the OpenResult
          pos,           \* the height of the next block of the stream
          chunk,         \* heights buffered for the next run of the scan
          scanned,       \* heights already handed to the scan
          mode,          \* ScanMode: "Full" or "SpendsOnly"
          watched,       \* SpendWatch.watched
          seen,          \* SpendWatch.spent
          hits,          \* notes found by the walk after the first block
          notes          \* notes fetched in full

call == <<pays, spends, birthday, start, tip, status, early, answer>>
walk == <<pos, chunk, scanned, mode, watched, seen, hits, notes>>
vars == <<call, walk>>

(***************************************************************************)
(* The pure pieces of scan.rs.                                             *)
(***************************************************************************)
Smaller(a, b) == IF a < b THEN a ELSE b

\* A plain subtraction, which runs below block 0 on a short chain.
PlainSub(a, b) == a - b

SaturatingSub(a, b) == IF a < b THEN 0 ELSE a - b

\* scan_range: a birthday above the tip is clamped to the tip.
ScanStart(b, t) ==
  IF b = NoBirthday THEN SaturatingSub(t, Lookback) ELSE Smaller(b, t)

\* A mode mix-up: the walk goes on decrypting only when something was found.
AfterFirstBlockSwapped(found) == IF found = {} THEN "SpendsOnly" ELSE "Full"

\* ScanMode::after_first_block.
AfterFirstBlock(found) == IF found = {} THEN "Full" ELSE "SpendsOnly"

\* scan_compact_blocks_in, first half: what a run of blocks decrypts to.
RunFinds(B, m) == IF m = "Full" THEN PaidIn(pays, B) ELSE {}

\* record_spends: the watched nullifiers a run of blocks reveals.
RecordSpends(w, B) == w \cap SpentIn(spends, B)

\* Spends recorded before the run's own notes are watched.
ScanRunSpendsFirst(B, m) ==
  /\ watched' = watched \cup RunFinds(B, m)
  /\ seen' = seen \cup RecordSpends(watched, B)
  /\ hits' = hits \cup RunFinds(B, m)
  /\ scanned' = scanned \cup B

\* scan_compact_blocks_in over one run: the notes it decrypts join the watch
\* list first, then every block of the same run is checked for spends.
ScanRun(B, m) ==
  LET found == RunFinds(B, m)
      w     == watched \cup found
  IN  /\ watched' = w
      /\ seen' = seen \cup RecordSpends(w, B)
      /\ hits' = hits \cup found
      /\ scanned' = scanned \cup B

\* finish_open refuses a note the walk never watched; the others are spent or
\* not as the walk saw.
AllWatched(ns, w) == ns \subseteq w

FinishOpen(ns, sn) == [notes |-> ns, spent |-> ns \cap sn]

(***************************************************************************)
(* The call.                                                               *)
(***************************************************************************)
Init ==
  /\ \E P \in SUBSET Notes : pays \in [P -> Heights]
  /\ \E S \in SUBSET DOMAIN pays : spends \in [S -> Heights]
  /\ \A n \in DOMAIN spends : pays[n] <= spends[n]
  /\ birthday \in Heights \cup {NoBirthday}
  /\ start = 0 /\ tip = 0
  /\ status = "choosing"
  /\ early = NoAnswer /\ answer = NoAnswer
  /\ pos = 0 /\ chunk = {} /\ scanned = {}
  /\ mode = "Full"
  /\ watched = {} /\ seen = {} /\ hits = {} /\ notes = {}

\* The gateway race answers with a tip; the stream is asked for start .. tip.
ChooseGateway ==
  /\ status = "choosing"
  /\ \E t \in Heights :
       /\ tip' = t
       /\ start' = ScanStart(birthday, t)
       /\ pos' = ScanStart(birthday, t)
  /\ status' = "looking"
  /\ UNCHANGED <<pays, spends, birthday, early, answer, chunk, scanned, mode,
                 watched, seen, hits, notes>>

\* The first block, on its own.  What it holds is fetched in full and reported
\* at once; a fetch that fails ends the call (BreakOff).
FirstBlock ==
  /\ status = "looking" /\ pos = start
  /\ LET found == PaidIn(pays, {start})
         w     == watched \cup found
         sn    == seen \cup RecordSpends(w, {start})
     IN  /\ watched' = w
         /\ seen' = sn
         /\ mode' = AfterFirstBlock(found)
         /\ notes' = found
         /\ early' = IF found = {} THEN early ELSE FinishOpen(found, sn)
  /\ scanned' = scanned \cup {start}
  /\ pos' = pos + 1
  /\ UNCHANGED <<pays, spends, birthday, start, tip, status, answer, chunk, hits>>

\* A later block is buffered; the buffer is scanned when it is full.
NextBlock ==
  /\ status = "looking" /\ start < pos /\ pos <= tip
  /\ pos' = pos + 1
  /\ IF Cardinality(chunk \cup {pos}) = ChunkBlocks
       THEN ScanRun(chunk \cup {pos}, mode) /\ chunk' = {}
       ELSE /\ chunk' = chunk \cup {pos}
            /\ UNCHANGED <<watched, seen, hits, scanned>>
  /\ UNCHANGED <<call, mode, notes>>

\* The stream ends: what is left in the buffer is scanned, the hits are
\* fetched in full (pass 2), and every note is judged.
EndOfStream ==
  /\ status = "looking" /\ start < pos /\ pos = tip + 1
  /\ ScanRun(chunk, mode)
  /\ chunk' = {}
  /\ notes' = notes \cup hits'
  /\ IF AllWatched(notes', watched')
       THEN answer' = FinishOpen(notes', seen') /\ status' = "answered"
       ELSE answer' = answer /\ status' = "failed"
  /\ UNCHANGED <<pays, spends, birthday, start, tip, early, pos, mode>>

\* No gateway answered, the stream broke, or a transaction could not be fetched.
BreakOff ==
  /\ status \in {"choosing", "looking"}
  /\ status' = "failed"
  /\ UNCHANGED <<pays, spends, birthday, start, tip, early, answer, walk>>

Next == ChooseGateway \/ FirstBlock \/ NextBlock \/ EndOfStream \/ BreakOff

Spec == Init /\ [][Next]_vars

(***************************************************************************)
(* Properties.                                                             *)
(***************************************************************************)

\* Types of every variable.
TypeOK ==
  /\ IsChain(pays, spends)
  /\ birthday \in Heights \cup {NoBirthday}
  /\ start \in Heights /\ tip \in Heights
  /\ status \in {"choosing", "looking", "answered", "failed"}
  /\ pos \in 0 .. MaxHeight + 1
  /\ chunk \in SUBSET Heights /\ scanned \in SUBSET Heights
  /\ mode \in {"Full", "SpendsOnly"}
  /\ watched \in SUBSET Notes /\ seen \in SUBSET Notes
  /\ hits \in SUBSET Notes /\ notes \in SUBSET Notes
  /\ early \in [notes : SUBSET Notes, spent : SUBSET Notes]
  /\ answer \in [notes : SUBSET Notes, spent : SUBSET Notes]

\* The first block has been walked.
Begun == start < pos

\* Where the walk stands: what was read is what was scanned or is buffered
\* after it, the watch list holds exactly the wanted notes of the scanned
\* blocks, every spend of one of them in those blocks was seen, and every
\* watched note is fetched or is a hit still to be fetched.
WalkInv ==
  /\ start <= tip
  /\ status = "choosing" => /\ scanned = {} /\ chunk = {} /\ watched = {}
                            /\ seen = {} /\ hits = {} /\ notes = {}
                            /\ early = NoAnswer
  /\ status = "looking" =>
       /\ start <= pos /\ pos <= tip + 1
       /\ scanned \cup chunk = start .. pos - 1
       /\ \A s \in scanned, c \in chunk : s < c
       /\ seen = watched \cap SpentIn(spends, scanned)
       /\ notes \cup hits = watched
  /\ status = "looking" /\ ~Begun => watched = {} /\ early = NoAnswer
  /\ status = "looking" /\ Begun =>
       /\ start \in scanned
       /\ mode = AfterFirstBlock(PaidIn(pays, {start}))
       /\ watched = IF mode = "Full" THEN PaidIn(pays, scanned)
                                     ELSE PaidIn(pays, {start})
       /\ early = IF mode = "Full" THEN NoAnswer
                                   ELSE EarlyView(pays, spends, start)

\* The answer names every wanted note of the range and calls a note unspent only
\* if no block up to the tip reveals it: chunking, the mode switch after the
\* first block and the tail of the stream change nothing (finish_open).
AnswerExact ==
  status = "answered" => answer = View(pays, spends, start, tip)

\* The amount shown early (report_notes) is never taken back: the answer holds
\* the same notes, and a note may only turn spent on the way to the tip.
EarlyHonest ==
  status = "answered" =>
    /\ early.notes # {} => answer.notes = early.notes
    /\ early.spent \subseteq answer.spent

\* The whole call implements the one-look promise.
Promise == INSTANCE EnvelopeAnswer
ImplementsPromise == Promise!Spec

\* DECISIONS.md D14 of the refund of a failed swap: "A refund lands back in
\* the envelope, and the same link opens it again."  A refund is a payment made
\* after the note that funded the swap was spent.
RefundOpens ==
  status = "answered" =>
    \A m \in DOMAIN spends, n \in DOMAIN pays :
      start <= pays[m] /\ spends[m] < pays[n] /\ pays[n] <= tip
        => n \in answer.notes

=============================================================================
