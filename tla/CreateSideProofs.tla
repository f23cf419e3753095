-------------------------- MODULE CreateSideProofs --------------------------
(***************************************************************************)
(* For every number of calls under way, every size of a group and every    *)
(* chain: the create page's watch is PaymentWatch, its channel keeps the   *)
(* promise of CoreCalls, and each row it hands out is one envelope.        *)
(*                                                                         *)
(* The invariant has two parts.  RpcInv is the channel's: a call is in one *)
(* place at a time, and whatever lies under its id is its own.  SheetInv,  *)
(* which rests on it, is the page's: at most one call of a row is awaited, *)
(* the next one of the row being made.  The watch's own invariant is the   *)
(* one of PaymentWatchProofs, kept because each step is one of its steps.  *)
(***************************************************************************)
EXTENDS CreateSide, PaymentWatchProofs

-----------------------------------------------------------------------------
(***************************************************************************)
(* The invariant of the channel.                                           *)
(***************************************************************************)
\* The calls of the create page, and what the two queues carry.
Methods == {"init", "open_envelope", "generate_secret", "derive", "build_fragment",
            "payment_uri"}
Asks == [method : Methods, arg : Nat, start : Nat, gen : Nat]
Messages == [id : Ids, ask : Asks]
Answers == [id : Ids, kind : {"result", "error"}, value : Seq(Int)]

\* The channel has its types.
ChannelTyped ==
  /\ dead \in BOOLEAN
  /\ DOMAIN pending \subseteq Ids /\ \A x \in DOMAIN pending : pending[x] \in Asks
  /\ DOMAIN running \subseteq Ids /\ \A x \in DOMAIN running : running[x] \in Asks
  /\ inbox \in Seq(Messages) /\ outbox \in Seq(Answers)

\* The messages of a queue are of different calls.
Distinct(q) == \A i, j \in 1 .. Len(q) : q[i].id = q[j].id => i = j

\* A call is in one place at most: on its way, under way, or answered.
OnePlace ==
  /\ Distinct(inbox) /\ Distinct(outbox)
  /\ IdsIn(inbox) \cap DOMAIN running = {}
  /\ IdsIn(inbox) \cap IdsIn(outbox) = {}
  /\ IdsIn(outbox) \cap DOMAIN running = {}

\* What is there under the id of a call that is awaited is of that call.
OfTheCall ==
  /\ \A i \in 1 .. Len(inbox) :
       inbox[i].id \in DOMAIN pending => inbox[i].ask = pending[inbox[i].id]
  /\ \A x \in DOMAIN running : x \in DOMAIN pending => running[x] = pending[x]
  /\ \A i \in 1 .. Len(outbox) :
       outbox[i].id \in DOMAIN pending =>
         Suits(pending[outbox[i].id], <<outbox[i].kind, outbox[i].value>>)

RpcInv == ChannelTyped /\ OnePlace /\ OfTheCall

(***************************************************************************)
(* The invariant of the page.                                              *)
(***************************************************************************)
\* The page has its types: rows of secrets and what is made of them.
Birthdays == Heights \cup {NoBirthday}
RowSeq == Seq(Nat)
Sheets == Seq(RowSeq)
Stages == {"none", "core", "height", "make", "seal"}
Jobs == [stage : Stages, count : Nat, rows : Sheets, row : RowSeq,
         birthday : Birthdays]
Created == [rows : Sheets, birthday : Birthdays]

\* The address, the link and the request of a row are its secret's.
Whole(row) == Len(row) = 4 /\ \A k \in 1 .. 4 : row[k] = row[1]

RowsSound(rows) ==
  /\ \A i \in 1 .. Len(rows) : Whole(rows[i])
  /\ \A i, j \in 1 .. Len(rows) : rows[i][1] = rows[j][1] => i = j

\* The row being made: what it has is its secret's, which no row has.
RowSound(rows, row) ==
  /\ Len(row) <= 3 /\ \A k \in 1 .. Len(row) : row[k] = row[1]
  /\ row # << >> => ~SeenSecret(rows, row[1])

\* The submit under way: what it has made, and how far it is.
JobSound ==
  /\ job \in Jobs
  /\ job.stage # "none" => job.count \in Envelopes
  /\ job.stage \in {"core", "height"} => job.rows = << >> /\ job.row = << >>
  /\ job.stage = "seal" => Len(job.rows) = job.count
  /\ RowsSound(job.rows) /\ RowSound(job.rows, job.row)

IsRowCall(ask) == ask # InitAsk /\ ~IsLook(ask)

\* The one call of the row that is awaited is the next one of the row being made.
InStep ==
  /\ \A x \in DOMAIN pending : IsRowCall(pending[x]) =>
       job.stage = "make" /\ pending[x] = RowAsk(job.rows, job.row)
  /\ \A x, y \in DOMAIN pending :
       IsRowCall(pending[x]) /\ IsRowCall(pending[y]) => x = y

\* The result on the page and its watch.
ResultSound ==
  /\ created \in Created /\ RowsSound(created.rows)
  /\ created.rows # << >> => job.stage = "none"
  /\ live => /\ created.rows # << >> /\ birthday = created.birthday
             /\ targets = 1 .. Len(created.rows)

\* Nobody pays before the links are there, so no payment is below their birthday.
PaidAfterBirth ==
  /\ ~live => mempool = {} /\ \A e \in Envelopes : mined[e] = {}
  /\ rolled = 0 /\ job.stage \in {"make", "seal"} /\ job.birthday # NoBirthday =>
       job.birthday <= tip
  /\ rolled = 0 /\ live =>
       birthday <= tip /\ \A e \in Envelopes : \A h \in mined[e] : birthday <= h

SheetInv == JobSound /\ InStep /\ ResultSound /\ PaidAfterBirth

-----------------------------------------------------------------------------
(***************************************************************************)
(* Queues.                                                                 *)
(***************************************************************************)
\* What a queue is with a message at its end.
LEMMA Appended ==
  ASSUME NEW S, NEW q \in Seq(S), NEW m \in S
  PROVE  /\ Append(q, m) \in Seq(S) /\ Len(Append(q, m)) = Len(q) + 1
         /\ \A i \in 1 .. Len(q) : Append(q, m)[i] = q[i]
         /\ Append(q, m)[Len(q) + 1] = m
         /\ IdsIn(Append(q, m)) = IdsIn(q) \cup {m.id}
<1>1. /\ Append(q, m) \in Seq(S) /\ Len(Append(q, m)) = Len(q) + 1
      /\ \A i \in 1 .. Len(q) : Append(q, m)[i] = q[i]
      /\ Append(q, m)[Len(q) + 1] = m /\ Len(q) \in Nat
  OBVIOUS
<1>2. /\ DOMAIN q = 1 .. Len(q) /\ DOMAIN Append(q, m) = 1 .. (Len(q) + 1)
  BY <1>1
<1>3. IdsIn(Append(q, m)) \subseteq IdsIn(q) \cup {m.id}
  <2> SUFFICES ASSUME NEW i \in 1 .. (Len(q) + 1)
               PROVE  Append(q, m)[i].id \in IdsIn(q) \cup {m.id}
    BY <1>2 DEF IdsIn
  <2>1. CASE i \in 1 .. Len(q)
    BY <1>1, <1>2, <2>1 DEF IdsIn
  <2>2. CASE i = Len(q) + 1
    BY <1>1, <2>2
  <2> QED
    BY <1>1, <2>1, <2>2
<1>4. IdsIn(q) \cup {m.id} \subseteq IdsIn(Append(q, m))
  <2>1. \A i \in 1 .. Len(q) : q[i].id \in IdsIn(Append(q, m))
    <3> SUFFICES ASSUME NEW i \in 1 .. Len(q) PROVE q[i].id \in IdsIn(Append(q, m))
      OBVIOUS
    <3>1. i \in 1 .. (Len(q) + 1) /\ Append(q, m)[i] = q[i]
      BY <1>1
    <3> QED
      BY <1>2, <3>1 DEF IdsIn
  <2>2. m.id \in IdsIn(Append(q, m))
    <3>1. Len(q) + 1 \in 1 .. (Len(q) + 1)
      BY <1>1
    <3> QED
      BY <1>1, <1>2, <3>1 DEF IdsIn
  <2> QED
    BY <1>2, <2>1, <2>2 DEF IdsIn
<1> QED
  BY <1>1, <1>3, <1>4

\* What a queue is without its first message.
LEMMA Popped ==
  ASSUME NEW S, NEW q \in Seq(S), q # << >>
  PROVE  /\ Tail(q) \in Seq(S) /\ Len(Tail(q)) + 1 = Len(q)
         /\ Head(q) = q[1] /\ Head(q) \in S
         /\ 1 \in 1 .. Len(q) /\ Len(q) \in Nat
         /\ \A i \in 1 .. Len(Tail(q)) : i + 1 \in 1 .. Len(q) /\ Tail(q)[i] = q[i + 1]
         /\ IdsIn(Tail(q)) \subseteq IdsIn(q) /\ Head(q).id \in IdsIn(q)
         /\ Distinct(q) => Distinct(Tail(q)) /\ Head(q).id \notin IdsIn(Tail(q))
<1>1. /\ Tail(q) \in Seq(S) /\ Len(Tail(q)) + 1 = Len(q) /\ Len(Tail(q)) \in Nat
      /\ Head(q) = q[1] /\ Head(q) \in S
      /\ 1 \in 1 .. Len(q) /\ Len(q) \in Nat
      /\ \A i \in 1 .. Len(Tail(q)) : i + 1 \in 1 .. Len(q) /\ Tail(q)[i] = q[i + 1]
  OBVIOUS
<1>2. DOMAIN q = 1 .. Len(q) /\ DOMAIN Tail(q) = 1 .. Len(Tail(q))
  BY <1>1
<1>3. IdsIn(Tail(q)) \subseteq IdsIn(q) /\ Head(q).id \in IdsIn(q)
  BY <1>1, <1>2 DEF IdsIn
<1>4. ASSUME Distinct(q)
      PROVE  Distinct(Tail(q)) /\ Head(q).id \notin IdsIn(Tail(q))
  <2>1. Distinct(Tail(q))
    <3> SUFFICES ASSUME NEW i \in 1 .. Len(Tail(q)), NEW j \in 1 .. Len(Tail(q)),
                        Tail(q)[i].id = Tail(q)[j].id
                 PROVE  i = j
      BY DEF Distinct
    <3>1. q[i + 1].id = q[j + 1].id /\ i + 1 \in 1 .. Len(q) /\ j + 1 \in 1 .. Len(q)
      BY <1>1
    <3>2. i + 1 = j + 1
      BY <1>4, <3>1 DEF Distinct
    <3> QED
      BY <3>2
  <2>2. \A i \in 1 .. Len(Tail(q)) : Tail(q)[i].id # q[1].id
    <3> SUFFICES ASSUME NEW i \in 1 .. Len(Tail(q)), Tail(q)[i].id = q[1].id PROVE FALSE
      OBVIOUS
    <3>1. q[i + 1].id = q[1].id /\ i + 1 \in 1 .. Len(q)
      BY <1>1
    <3>2. i + 1 = 1
      BY <1>1, <1>4, <3>1 DEF Distinct
    <3> QED
      BY <3>2
  <2> QED
    BY <1>1, <1>2, <2>1, <2>2 DEF IdsIn
<1> QED
  BY <1>1, <1>3, <1>4

\* A message of a call that is nowhere in a queue joins it.
LEMMA StaysDistinct ==
  ASSUME NEW S, NEW q \in Seq(S), NEW m \in S, Distinct(q), m.id \notin IdsIn(q)
  PROVE  Distinct(Append(q, m))
<1> SUFFICES ASSUME NEW i \in 1 .. Len(Append(q, m)), NEW j \in 1 .. Len(Append(q, m)),
                    Append(q, m)[i].id = Append(q, m)[j].id
             PROVE  i = j
  BY DEF Distinct
<1>1. /\ Len(Append(q, m)) = Len(q) + 1 /\ Len(q) \in Nat
      /\ \A x \in 1 .. Len(q) : Append(q, m)[x] = q[x]
      /\ Append(q, m)[Len(q) + 1] = m
  BY Appended
<1>2. \A x \in 1 .. Len(q) : q[x].id # m.id
  BY DEF IdsIn
<1>3. CASE i \in 1 .. Len(q) /\ j \in 1 .. Len(q)
  BY <1>1, <1>3 DEF Distinct
<1>4. CASE i \in 1 .. Len(q) /\ j = Len(q) + 1
  BY <1>1, <1>2, <1>4
<1>5. CASE i = Len(q) + 1 /\ j \in 1 .. Len(q)
  BY <1>1, <1>2, <1>5
<1>6. CASE i = Len(q) + 1 /\ j = Len(q) + 1
  BY <1>6
<1> QED
  BY <1>1, <1>3, <1>4, <1>5, <1>6

-----------------------------------------------------------------------------
(***************************************************************************)
(* What the steps of the channel do.                                       *)
(***************************************************************************)
\* A step that sends registers p, and one ask at most under an id of nothing else.
LEMMA SendIs ==
  ASSUME NEW p, NEW A, Send(p, A)
  PROVE  \/ (A = {} \/ dead) /\ pending' = p /\ inbox' = inbox
         \/ /\ ~dead
            /\ \E ask \in A, id \in Ids :
                 /\ id \notin DOMAIN pending \cup IdsIn(inbox)
                 /\ id \notin DOMAIN running \cup IdsIn(outbox)
                 /\ DOMAIN pending' = DOMAIN p \cup {id}
                 /\ pending'[id] = ask
                 /\ \A x \in DOMAIN p : x # id => pending'[x] = p[x]
                 /\ inbox' = Append(inbox, [id |-> id, ask |-> ask])
<1>1. CASE A = {} \/ dead
  BY <1>1 DEF Send
<1>2. CASE ~(A = {} \/ dead)
  <2>1. PICK ask \in A : /\ FreeIds # {}
                         /\ pending' = With(p, NextId, ask)
                         /\ inbox' = Append(inbox, [id |-> NextId, ask |-> ask])
    BY <1>2 DEF Send
  <2>2. NextId \in FreeIds
    BY <2>1 DEF NextId
  <2> QED
    BY <1>2, <2>1, <2>2 DEF FreeIds, With
<1> QED
  BY <1>1, <1>2

\* A call is sent, or none; p leaves out calls that have been answered.
LEMMA SendKeepsChannel ==
  ASSUME RpcInv, NEW p, NEW A, A \subseteq Asks, Send(p, A),
         DOMAIN p \subseteq DOMAIN pending, \A x \in DOMAIN p : p[x] = pending[x],
         UNCHANGED <<dead, running>>,
         outbox' = outbox \/ (outbox # << >> /\ outbox' = Tail(outbox))
  PROVE  RpcInv'
<1>1. /\ outbox' \in Seq(Answers) /\ Distinct(outbox')
      /\ IdsIn(outbox') \subseteq IdsIn(outbox)
      /\ \A j \in 1 .. Len(outbox') : \E i \in 1 .. Len(outbox) : outbox'[j] = outbox[i]
  <2>1. CASE outbox' = outbox
    BY <2>1 DEF RpcInv, ChannelTyped, OnePlace
  <2>2. CASE outbox # << >> /\ outbox' = Tail(outbox)
    BY <2>2, Popped DEF RpcInv, ChannelTyped, OnePlace
  <2> QED
    BY <2>1, <2>2
<1>2. CASE pending' = p /\ inbox' = inbox
  <2>1. ChannelTyped'
    BY <1>1, <1>2 DEF RpcInv, ChannelTyped
  <2>2. OnePlace'
    BY <1>1, <1>2 DEF RpcInv, OnePlace
  <2>3. /\ \A i \in 1 .. Len(inbox') :
             inbox'[i].id \in DOMAIN pending' => inbox'[i].ask = pending'[inbox'[i].id]
        /\ \A x \in DOMAIN running' : x \in DOMAIN pending' => running'[x] = pending'[x]
    BY <1>2 DEF RpcInv, OfTheCall
  <2>4. \A i \in 1 .. Len(outbox') :
          outbox'[i].id \in DOMAIN pending' =>
            Suits(pending'[outbox'[i].id], <<outbox'[i].kind, outbox'[i].value>>)
    <3> SUFFICES ASSUME NEW j \in 1 .. Len(outbox'), outbox'[j].id \in DOMAIN pending'
                 PROVE  Suits(pending'[outbox'[j].id], <<outbox'[j].kind, outbox'[j].value>>)
      OBVIOUS
    <3>1. PICK i \in 1 .. Len(outbox) : outbox'[j] = outbox[i]
      BY <1>1
    <3>2. outbox[i].id \in DOMAIN pending /\ pending'[outbox[i].id] = pending[outbox[i].id]
      BY <1>2, <3>1
    <3>3. Suits(pending[outbox[i].id], <<outbox[i].kind, outbox[i].value>>)
      BY <3>2 DEF RpcInv, OfTheCall
    <3> QED
      BY <3>1, <3>2, <3>3
  <2> QED
    BY <2>1, <2>2, <2>3, <2>4 DEF RpcInv, OfTheCall
<1>3. CASE \E ask \in A, id \in Ids :
                 /\ id \notin DOMAIN pending \cup IdsIn(inbox)
                 /\ id \notin DOMAIN running \cup IdsIn(outbox)
                 /\ DOMAIN pending' = DOMAIN p \cup {id}
                 /\ pending'[id] = ask
                 /\ \A x \in DOMAIN p : x # id => pending'[x] = p[x]
                 /\ inbox' = Append(inbox, [id |-> id, ask |-> ask])
  <2>1. PICK ask \in A, id \in Ids :
                 /\ id \notin DOMAIN pending \cup IdsIn(inbox)
                 /\ id \notin DOMAIN running \cup IdsIn(outbox)
                 /\ DOMAIN pending' = DOMAIN p \cup {id}
                 /\ pending'[id] = ask
                 /\ \A x \in DOMAIN p : x # id => pending'[x] = p[x]
                 /\ inbox' = Append(inbox, [id |-> id, ask |-> ask])
    BY <1>3
  <2> DEFINE m == [id |-> id, ask |-> ask]
  <2>2. m \in Messages /\ m.id = id /\ m.ask = ask /\ inbox' = Append(inbox, m)
    BY <2>1 DEF Messages
  <2> HIDE DEF m
  <2>3. /\ inbox' \in Seq(Messages) /\ Len(inbox') = Len(inbox) + 1 /\ Len(inbox) \in Nat
        /\ \A i \in 1 .. Len(inbox) : inbox'[i] = inbox[i]
        /\ inbox'[Len(inbox) + 1] = m
        /\ IdsIn(inbox') = IdsIn(inbox) \cup {id}
        /\ Distinct(inbox')
    BY <2>1, <2>2, Appended, StaysDistinct DEF RpcInv, ChannelTyped, OnePlace
  <2>4. ChannelTyped'
    BY <1>1, <2>1, <2>3 DEF RpcInv, ChannelTyped
  <2>5. OnePlace'
    BY <1>1, <2>1, <2>3 DEF RpcInv, OnePlace
  <2>6. \A i \in 1 .. Len(inbox') :
          inbox'[i].id \in DOMAIN pending' => inbox'[i].ask = pending'[inbox'[i].id]
    <3> SUFFICES ASSUME NEW i \in 1 .. Len(inbox'), inbox'[i].id \in DOMAIN pending'
                 PROVE  inbox'[i].ask = pending'[inbox'[i].id]
      OBVIOUS
    <3>1. CASE i \in 1 .. Len(inbox)
      <4>1. inbox[i].id \in IdsIn(inbox)
        BY <3>1 DEF IdsIn, RpcInv, ChannelTyped
      <4> QED
        BY <2>1, <2>3, <3>1, <4>1 DEF RpcInv, OfTheCall
    <3>2. CASE i = Len(inbox) + 1
      BY <2>1, <2>2, <2>3, <3>2
    <3> QED
      BY <2>3, <3>1, <3>2
  <2>7. \A x \in DOMAIN running' : x \in DOMAIN pending' => running'[x] = pending'[x]
    BY <2>1 DEF RpcInv, OfTheCall
  <2>8. \A i \in 1 .. Len(outbox') :
          outbox'[i].id \in DOMAIN pending' =>
            Suits(pending'[outbox'[i].id], <<outbox'[i].kind, outbox'[i].value>>)
    <3> SUFFICES ASSUME NEW j \in 1 .. Len(outbox'), outbox'[j].id \in DOMAIN pending'
                 PROVE  Suits(pending'[outbox'[j].id], <<outbox'[j].kind, outbox'[j].value>>)
      OBVIOUS
    <3>1. PICK i \in 1 .. Len(outbox) : outbox'[j] = outbox[i]
      BY <1>1
    <3>2. outbox[i].id \in IdsIn(outbox)
      BY DEF IdsIn, RpcInv, ChannelTyped
    <3>3. outbox[i].id \in DOMAIN p /\ pending'[outbox[i].id] = pending[outbox[i].id]
      BY <2>1, <3>1, <3>2
    <3> QED
      BY <3>1, <3>3 DEF RpcInv, OfTheCall
  <2> QED
    BY <2>4, <2>5, <2>6, <2>7, <2>8 DEF RpcInv, OfTheCall
<1> QED
  BY <1>2, <1>3, SendIs

-----------------------------------------------------------------------------
(***************************************************************************)
(* What the page awaits, step by step: a step of the channel is one of     *)
(* CoreCalls, or leaves its calls as they were.                            *)
(***************************************************************************)
\* The answer of a queue to a call is the one message under its id.
LEMMA ReplyThere ==
  ASSUME NEW q \in Seq(Answers), Distinct(q), NEW i \in 1 .. Len(q)
  PROVE  /\ ReplyIn(q, q[i].id) = <<q[i].kind, q[i].value>>
         /\ ReplyIn(q, q[i].id) # NoAnswer
<1> DEFINE M == { q[j] : j \in DOMAIN q }
           m == CHOOSE m \in M : m.id = q[i].id
<1>1. DOMAIN q = 1 .. Len(q) /\ q[i] \in Answers
  OBVIOUS
<1>2. q[i] \in M /\ q[i].id \in IdsIn(q)
  BY <1>1 DEF IdsIn
<1>3. m \in M /\ m.id = q[i].id
  BY <1>2
<1>4. m = q[i]
  BY <1>1, <1>3 DEF Distinct
<1>5. ReplyIn(q, q[i].id) = <<m.kind, m.value>>
  BY <1>2 DEF ReplyIn
<1>6. q[i].kind # "none"
  BY <1>1 DEF Answers
<1> HIDE DEF m
<1> QED
  BY <1>4, <1>5, <1>6 DEF NoAnswer

\* An answer that is posted answers its call, and no other.
LEMMA ReplyPosted ==
  ASSUME NEW q \in Seq(Answers), Distinct(q), NEW m \in Answers, m.id \notin IdsIn(q)
  PROVE  /\ ReplyIn(Append(q, m), m.id) = <<m.kind, m.value>>
         /\ \A x : x # m.id => ReplyIn(Append(q, m), x) = ReplyIn(q, x)
<1> DEFINE r == Append(q, m)
<1>1. /\ r \in Seq(Answers) /\ Len(r) = Len(q) + 1 /\ Len(q) \in Nat
      /\ \A i \in 1 .. Len(q) : r[i] = q[i]
      /\ r[Len(q) + 1] = m
      /\ IdsIn(r) = IdsIn(q) \cup {m.id} /\ Distinct(r)
  BY Appended, StaysDistinct
<1> HIDE DEF r
<1>2. ReplyIn(r, m.id) = <<m.kind, m.value>>
  <2>1. Len(q) + 1 \in 1 .. Len(r)
    BY <1>1
  <2> QED
    BY <1>1, <2>1, ReplyThere
<1>3. ASSUME NEW x, x # m.id PROVE ReplyIn(r, x) = ReplyIn(q, x)
  <2>1. CASE x \in IdsIn(q)
    <3>1. PICK i \in 1 .. Len(q) : q[i].id = x
      BY <2>1 DEF IdsIn
    <3>2. i \in 1 .. Len(r) /\ r[i] = q[i]
      BY <1>1
    <3>3. ReplyIn(q, q[i].id) = <<q[i].kind, q[i].value>>
      BY ReplyThere
    <3>4. ReplyIn(r, r[i].id) = <<r[i].kind, r[i].value>>
      BY <1>1, <3>2, ReplyThere
    <3> QED
      BY <3>1, <3>2, <3>3, <3>4
  <2>2. CASE x \notin IdsIn(q)
    BY <1>1, <1>3, <2>2 DEF ReplyIn
  <2> QED
    BY <2>1, <2>2
<1> QED
  BY <1>2, <1>3 DEF r

\* An answer that is taken was there, and the others stay.
LEMMA ReplyTaken ==
  ASSUME NEW q \in Seq(Answers), Distinct(q), q # << >>
  PROVE  /\ ReplyIn(q, Head(q).id) # NoAnswer
         /\ \A x : x # Head(q).id => ReplyIn(Tail(q), x) = ReplyIn(q, x)
<1> DEFINE t == Tail(q)
           m == Head(q)
<1>1. /\ t \in Seq(Answers) /\ Len(t) + 1 = Len(q) /\ m = q[1]
      /\ 1 \in 1 .. Len(q) /\ Len(q) \in Nat
      /\ \A i \in 1 .. Len(t) : i + 1 \in 1 .. Len(q) /\ t[i] = q[i + 1]
      /\ IdsIn(t) \subseteq IdsIn(q) /\ Distinct(t) /\ m.id \notin IdsIn(t)
  BY Popped
<1> HIDE DEF t, m
<1>2. ReplyIn(q, m.id) # NoAnswer
  BY <1>1, ReplyThere
<1>3. ASSUME NEW x, x # m.id PROVE ReplyIn(t, x) = ReplyIn(q, x)
  <2>1. CASE x \in IdsIn(t)
    <3>1. PICK i \in 1 .. Len(t) : t[i].id = x
      BY <1>1, <2>1 DEF IdsIn
    <3>2. i + 1 \in 1 .. Len(q) /\ t[i] = q[i + 1]
      BY <1>1
    <3>3. ReplyIn(t, t[i].id) = <<t[i].kind, t[i].value>>
      BY <1>1, ReplyThere
    <3>4. PICK j \in 1 .. Len(q) : j = i + 1
      BY <3>2
    <3>5. ReplyIn(q, q[j].id) = <<q[j].kind, q[j].value>>
      BY ReplyThere
    <3> QED
      BY <3>1, <3>2, <3>3, <3>4, <3>5
  <2>2. CASE x \notin IdsIn(t)
    <3>1. x \notin IdsIn(q)
      <4> SUFFICES ASSUME NEW i \in 1 .. Len(q), q[i].id = x PROVE FALSE
        BY DEF IdsIn
      <4>1. i # 1
        BY <1>1, <1>3
      <4>2. PICK j \in 1 .. Len(t) : i = j + 1
        <5>1. i - 1 \in 1 .. Len(t) /\ i = (i - 1) + 1
          BY <1>1, <4>1
        <5> QED
          BY <5>1
      <4>3. t[j].id = x
        BY <1>1, <4>2
      <4> QED
        BY <1>1, <2>2, <4>3 DEF IdsIn
    <3> QED
      BY <2>2, <3>1 DEF ReplyIn
  <2> QED
    BY <2>1, <2>2
<1> QED
  BY <1>2, <1>3 DEF t, m

\* A step of CoreCalls.
CallStep == [Calls!Next]_(Calls!vars)

\* What is under way, before and after a step.
LEMMA UnderwayIs ==
  /\ DOMAIN Underway = DOMAIN pending
  /\ \A x \in DOMAIN pending :
       Underway[x] = [ask |-> pending[x], reply |-> ReplyIn(outbox, x)]
  /\ DOMAIN Underway' = DOMAIN pending'
  /\ \A x \in DOMAIN pending' :
       Underway'[x] = [ask |-> pending'[x], reply |-> ReplyIn(outbox', x)]
BY DEF Underway

\* Nothing that is awaited, and no answer to it, changes.
LEMMA SameUnderway ==
  ASSUME pending' = pending,
         \A x \in DOMAIN pending : ReplyIn(outbox', x) = ReplyIn(outbox, x)
  PROVE  Underway' = Underway
BY DEF Underway

\* A call is answered.
LEMMA AnswerIsAnswer ==
  ASSUME RpcInv, NEW id \in Ids, NEW kind \in {"result", "error"}, NEW value \in Seq(Int),
         Reply(id, kind, value), id \notin IdsIn(outbox), UNCHANGED <<pending, dead>>,
         id \in DOMAIN pending => Suits(pending[id], <<kind, value>>)
  PROVE  CallStep
<1> DEFINE m == [id |-> id, kind |-> kind, value |-> value]
<1>1. m \in Answers /\ m.id = id /\ m.kind = kind /\ m.value = value
      /\ outbox' = Append(outbox, m)
  BY DEF Reply, Answers
<1> HIDE DEF m
<1>2. /\ ReplyIn(outbox', id) = <<kind, value>>
      /\ \A x : x # id => ReplyIn(outbox', x) = ReplyIn(outbox, x)
  BY <1>1, ReplyPosted DEF RpcInv, ChannelTyped, OnePlace
<1>3. CASE id \notin DOMAIN pending
  <2>1. Underway' = Underway
    BY <1>2, <1>3, SameUnderway
  <2> QED
    BY <2>1 DEF CallStep, Calls!vars
<1>4. CASE id \in DOMAIN pending
  <2>1. ReplyIn(outbox, id) = NoAnswer
    BY DEF ReplyIn
  <2>2. /\ DOMAIN Underway = DOMAIN pending /\ DOMAIN Underway' = DOMAIN pending
        /\ Underway[id] = [ask |-> pending[id], reply |-> NoAnswer]
        /\ Underway'[id] = [ask |-> pending[id], reply |-> <<kind, value>>]
        /\ \A x \in DOMAIN pending \ {id} : Underway'[x] = Underway[x]
    BY <1>2, <1>4, <2>1, UnderwayIs
  <2>3. Suits(Underway[id].ask, Underway'[id].reply)
    BY <1>4, <2>2
  <2>4. Calls!Answer(id)
    BY <1>4, <2>2, <2>3 DEF Calls!Answer
  <2> QED
    BY <2>4 DEF CallStep, Calls!Next
<1> QED
  BY <1>3, <1>4

\* A call is made.
LEMMA SendIsAsk ==
  ASSUME RpcInv, NEW A, Send(pending, A), UNCHANGED <<dead, outbox>>
  PROVE  CallStep
<1>1. CASE pending' = pending
  <2>1. Underway' = Underway
    BY <1>1, SameUnderway
  <2> QED
    BY <2>1 DEF CallStep, Calls!vars
<1>2. CASE pending' # pending
  <2>1. /\ ~dead
        /\ \E ask \in A, id \in Ids :
             /\ id \notin DOMAIN pending \cup IdsIn(inbox)
             /\ id \notin DOMAIN running \cup IdsIn(outbox)
             /\ DOMAIN pending' = DOMAIN pending \cup {id}
             /\ pending'[id] = ask
             /\ \A x \in DOMAIN pending : x # id => pending'[x] = pending[x]
             /\ inbox' = Append(inbox, [id |-> id, ask |-> ask])
    BY <1>2, SendIs
  <2>2. PICK id \in Ids :
             /\ id \notin DOMAIN pending /\ id \notin IdsIn(outbox)
             /\ DOMAIN pending' = DOMAIN pending \cup {id}
             /\ \A x \in DOMAIN pending : x # id => pending'[x] = pending[x]
    BY <2>1
  <2>3. ReplyIn(outbox, id) = NoAnswer
    BY <2>2 DEF ReplyIn
  <2>4. /\ DOMAIN Underway = DOMAIN pending
        /\ DOMAIN Underway' = DOMAIN pending \cup {id}
        /\ Underway'[id].reply = NoAnswer
        /\ \A x \in DOMAIN pending : Underway'[x] = Underway[x]
    <3>1. /\ outbox' = outbox /\ id \in DOMAIN pending'
          /\ \A x \in DOMAIN pending : x \in DOMAIN pending' /\ pending'[x] = pending[x]
      BY <2>2
    <3>2. Underway'[id].reply = NoAnswer
      BY <2>3, <3>1, UnderwayIs
    <3>3. \A x \in DOMAIN pending : Underway'[x] = Underway[x]
      BY <3>1, UnderwayIs
    <3> QED
      BY <2>2, <3>2, <3>3, UnderwayIs
  <2>5. Calls!Ask(id)
    BY <2>1, <2>2, <2>4 DEF Calls!Ask
  <2> QED
    BY <2>5 DEF CallStep, Calls!Next
<1> QED
  BY <1>1, <1>2

\* An answer reaches its caller, who may make the next call at once.
LEMMA DeliveryIsSettle ==
  ASSUME RpcInv, outbox # << >>, outbox' = Tail(outbox), UNCHANGED dead,
         Head(outbox).id \in DOMAIN pending, NEW A,
         Send(Without(pending, Head(outbox).id), A)
  PROVE  CallStep
<1> DEFINE id == Head(outbox).id
           p == Without(pending, id)
<1>1. /\ DOMAIN p = DOMAIN pending \ {id} /\ \A x \in DOMAIN p : p[x] = pending[x]
  BY DEF Without
<1>2. /\ ReplyIn(outbox, id) # NoAnswer
      /\ \A x : x # id => ReplyIn(outbox', x) = ReplyIn(outbox, x)
  BY ReplyTaken DEF RpcInv, ChannelTyped, OnePlace
<1>3. id \in Ids /\ id \in DOMAIN pending
  BY DEF RpcInv, ChannelTyped
<1>4. Send(p, A)
  OBVIOUS
<1> HIDE DEF p, id
<1>5. /\ \A x \in DOMAIN pending \ {id} : x \in DOMAIN pending' /\ pending'[x] = pending[x]
      /\ \A x, y \in DOMAIN pending' \ (DOMAIN pending \ {id}) :
           x = y /\ ReplyIn(outbox', x) = NoAnswer
  <2>1. CASE pending' = p
    BY <1>1, <2>1
  <2>2. CASE pending' # p
    <3>1. \E ask \in A, n \in Ids :
             /\ n \notin DOMAIN pending \cup IdsIn(inbox)
             /\ n \notin DOMAIN running \cup IdsIn(outbox)
             /\ DOMAIN pending' = DOMAIN p \cup {n}
             /\ pending'[n] = ask
             /\ \A x \in DOMAIN p : x # n => pending'[x] = p[x]
             /\ inbox' = Append(inbox, [id |-> n, ask |-> ask])
      BY <1>4, <2>2, SendIs
    <3>2. PICK n \in Ids : /\ n \notin DOMAIN pending /\ n \notin IdsIn(outbox)
                           /\ DOMAIN pending' = DOMAIN p \cup {n}
                           /\ \A x \in DOMAIN p : x # n => pending'[x] = p[x]
      BY <3>1
    <3>3. ReplyIn(outbox', n) = NoAnswer
      <4>1. ReplyIn(outbox, n) = NoAnswer
        BY <3>2 DEF ReplyIn
      <4> QED
        BY <1>2, <1>3, <3>2, <4>1
    <3> QED
      BY <1>1, <3>2, <3>3
  <2> QED
    BY <2>1, <2>2
<1>6. /\ DOMAIN Underway = DOMAIN pending /\ DOMAIN Underway' = DOMAIN pending'
      /\ Underway[id].reply # NoAnswer
      /\ \A x \in DOMAIN pending \ {id} : Underway'[x] = Underway[x]
      /\ \A x \in DOMAIN pending' \ (DOMAIN pending \ {id}) : Underway'[x].reply = NoAnswer
  BY <1>2, <1>3, <1>5, UnderwayIs
<1>7. Calls!Settle(id)
  BY <1>3, <1>5, <1>6 DEF Calls!Settle
<1> QED
  BY <1>3, <1>7 DEF CallStep, Calls!Next

\* An answer to a call that is settled changes no call.
LEMMA IgnoredIsNothing ==
  ASSUME RpcInv, outbox # << >>, outbox' = Tail(outbox), UNCHANGED <<pending, dead>>,
         Head(outbox).id \notin DOMAIN pending
  PROVE  CallStep
<1>1. \A x : x # Head(outbox).id => ReplyIn(outbox', x) = ReplyIn(outbox, x)
  BY ReplyTaken DEF RpcInv, ChannelTyped, OnePlace
<1>2. Underway' = Underway
  BY <1>1, SameUnderway
<1> QED
  BY <1>2 DEF CallStep, Calls!vars

\* The core is gone.
LEMMA DeathIsCollapse ==
  ASSUME Die
  PROVE  CallStep
<1>1. pending' = << >> /\ dead' = TRUE
  BY DEF Die
<1>2. Underway' = << >>
  BY <1>1 DEF Underway
<1> QED
  BY <1>1, <1>2 DEF CallStep, Calls!Next, Calls!Collapse

\* A step in which the channel neither takes nor gives anything at the page's end.
LEMMA QuietCallStep ==
  ASSUME UNCHANGED <<pending, outbox, dead>>
  PROVE  CallStep
<1>1. Underway' = Underway
  BY SameUnderway
<1> QED
  BY <1>1 DEF CallStep, Calls!vars

-----------------------------------------------------------------------------
(***************************************************************************)
(* What the steps of the channel leave of its invariant.                   *)
(***************************************************************************)
\* An answer is posted under the id of a call that leaves the place it was in.
LEMMA ReplyKeepsChannel ==
  ASSUME RpcInv, NEW id \in Ids, NEW kind \in {"result", "error"}, NEW value \in Seq(Int),
         Reply(id, kind, value), id \notin IdsIn(outbox), UNCHANGED <<pending, dead>>,
         inbox' \in Seq(Messages), Distinct(inbox'),
         IdsIn(inbox') \subseteq IdsIn(inbox) \ {id},
         \A j \in 1 .. Len(inbox') : \E i \in 1 .. Len(inbox) : inbox'[j] = inbox[i],
         DOMAIN running' \subseteq DOMAIN running \ {id},
         \A x \in DOMAIN running' : running'[x] = running[x],
         id \in DOMAIN pending => Suits(pending[id], <<kind, value>>)
  PROVE  RpcInv' /\ CallStep
<1> DEFINE m == [id |-> id, kind |-> kind, value |-> value]
<1>1. /\ m \in Answers /\ m.id = id /\ m.kind = kind /\ m.value = value
      /\ outbox' = Append(outbox, m)
  BY DEF Reply, Answers
<1> HIDE DEF m
<1>2. /\ outbox' \in Seq(Answers) /\ Len(outbox') = Len(outbox) + 1 /\ Len(outbox) \in Nat
      /\ \A i \in 1 .. Len(outbox) : outbox'[i] = outbox[i]
      /\ outbox'[Len(outbox) + 1] = m
      /\ IdsIn(outbox') = IdsIn(outbox) \cup {id}
      /\ Distinct(outbox')
  BY <1>1, Appended, StaysDistinct DEF RpcInv, ChannelTyped, OnePlace
<1>3. ChannelTyped'
  BY <1>2 DEF RpcInv, ChannelTyped
<1>4. OnePlace'
  BY <1>2 DEF RpcInv, OnePlace
<1>5. \A i \in 1 .. Len(inbox') :
        inbox'[i].id \in DOMAIN pending' => inbox'[i].ask = pending'[inbox'[i].id]
  <2> SUFFICES ASSUME NEW j \in 1 .. Len(inbox'), inbox'[j].id \in DOMAIN pending'
               PROVE  inbox'[j].ask = pending'[inbox'[j].id]
    OBVIOUS
  <2>1. PICK i \in 1 .. Len(inbox) : inbox'[j] = inbox[i]
    OBVIOUS
  <2> QED
    BY <2>1 DEF RpcInv, OfTheCall
<1>6. \A x \in DOMAIN running' : x \in DOMAIN pending' => running'[x] = pending'[x]
  BY DEF RpcInv, OfTheCall
<1>7. \A i \in 1 .. Len(outbox') :
        outbox'[i].id \in DOMAIN pending' =>
          Suits(pending'[outbox'[i].id], <<outbox'[i].kind, outbox'[i].value>>)
  <2> SUFFICES ASSUME NEW i \in 1 .. Len(outbox'), outbox'[i].id \in DOMAIN pending'
               PROVE  Suits(pending'[outbox'[i].id], <<outbox'[i].kind, outbox'[i].value>>)
    OBVIOUS
  <2>1. CASE i \in 1 .. Len(outbox)
    BY <1>2, <2>1 DEF RpcInv, OfTheCall
  <2>2. CASE i = Len(outbox) + 1
    BY <1>1, <1>2, <2>2
  <2> QED
    BY <1>2, <2>1, <2>2
<1>8. CallStep
  BY AnswerIsAnswer
<1> QED
  BY <1>3, <1>4, <1>5, <1>6, <1>7, <1>8 DEF RpcInv, OfTheCall

\* The worker takes a call, or has loaded.
LEMMA TakeKeepsChannel ==
  ASSUME RpcInv, Take
  PROVE  RpcInv' /\ CallStep
<1> DEFINE m == Head(inbox)
<1>1. /\ inbox # << >> /\ inbox' = Tail(inbox)
      /\ running' = With(running, m.id, m.ask)
      /\ pending' = pending /\ dead' = dead /\ outbox' = outbox
  BY DEF Take
<1>2. /\ inbox' \in Seq(Messages) /\ m = inbox[1] /\ m \in Messages /\ 1 \in 1 .. Len(inbox)
      /\ IdsIn(inbox') \subseteq IdsIn(inbox) /\ m.id \in IdsIn(inbox)
      /\ Distinct(inbox') /\ m.id \notin IdsIn(inbox')
      /\ \A i \in 1 .. Len(inbox') : i + 1 \in 1 .. Len(inbox) /\ inbox'[i] = inbox[i + 1]
  BY <1>1, Popped DEF RpcInv, ChannelTyped, OnePlace
<1>3. /\ DOMAIN running' = DOMAIN running \cup {m.id} /\ running'[m.id] = m.ask
      /\ \A x \in DOMAIN running : x # m.id => running'[x] = running[x]
      /\ m.id \in Ids /\ m.ask \in Asks
  BY <1>1, <1>2 DEF With, Messages
<1>4. m.id \in DOMAIN pending => m.ask = pending[m.id]
  BY <1>2 DEF RpcInv, OfTheCall
<1> HIDE DEF m
<1>5. ChannelTyped'
  BY <1>1, <1>2, <1>3 DEF RpcInv, ChannelTyped
<1>6. OnePlace'
  BY <1>1, <1>2, <1>3 DEF RpcInv, OnePlace
<1>7. OfTheCall'
  <2>1. \A i \in 1 .. Len(inbox') :
          inbox'[i].id \in DOMAIN pending' => inbox'[i].ask = pending'[inbox'[i].id]
    BY <1>1, <1>2 DEF RpcInv, OfTheCall
  <2>2. \A x \in DOMAIN running' : x \in DOMAIN pending' => running'[x] = pending'[x]
    BY <1>1, <1>3, <1>4 DEF RpcInv, OfTheCall
  <2> QED
    BY <1>1, <2>1, <2>2 DEF RpcInv, OfTheCall
<1> QED
  BY <1>1, <1>5, <1>6, <1>7, QuietCallStep DEF RpcInv

\* Nothing of the channel but the state of the load changes.
LEMMA LoadKeepsChannel ==
  ASSUME RpcInv, UNCHANGED <<pending, dead, inbox, running, outbox>>
  PROVE  RpcInv' /\ CallStep
BY QuietCallStep DEF RpcInv, ChannelTyped, OnePlace, OfTheCall

\* The worker answers a call in the turn that takes it.
LEMMA ServeKeepsChannel ==
  ASSUME RpcInv, NEW kind \in {"result", "error"}, NEW value \in Seq(Int),
         Serve(kind, value), Suits(Head(inbox).ask, <<kind, value>>)
  PROVE  RpcInv' /\ CallStep
<1> DEFINE m == Head(inbox)
<1>1. /\ inbox # << >> /\ inbox' = Tail(inbox) /\ running' = running
      /\ Reply(m.id, kind, value) /\ UNCHANGED <<pending, dead>>
  BY DEF Serve
<1>2. /\ inbox' \in Seq(Messages) /\ m = inbox[1] /\ m \in Messages /\ 1 \in 1 .. Len(inbox)
      /\ IdsIn(inbox') \subseteq IdsIn(inbox) /\ m.id \in IdsIn(inbox)
      /\ Distinct(inbox') /\ m.id \notin IdsIn(inbox')
      /\ \A i \in 1 .. Len(inbox') : i + 1 \in 1 .. Len(inbox) /\ inbox'[i] = inbox[i + 1]
  BY <1>1, Popped DEF RpcInv, ChannelTyped, OnePlace
<1>3. m.id \in DOMAIN pending => m.ask = pending[m.id]
  BY <1>2 DEF RpcInv, OfTheCall
<1>4. m.id \in Ids
  BY <1>2 DEF Messages
<1> HIDE DEF m
<1>5. m.id \in DOMAIN pending => Suits(pending[m.id], <<kind, value>>)
  BY <1>3 DEF m
<1>6. /\ m.id \notin IdsIn(outbox) /\ m.id \notin DOMAIN running
      /\ IdsIn(inbox') \subseteq IdsIn(inbox) \ {m.id}
      /\ \A j \in 1 .. Len(inbox') : \E i \in 1 .. Len(inbox) : inbox'[j] = inbox[i]
  BY <1>2 DEF RpcInv, OnePlace
<1> QED
  BY <1>1, <1>2, <1>4, <1>5, <1>6, ReplyKeepsChannel

\* A call the worker took ends.
LEMMA FinishKeepsChannel ==
  ASSUME RpcInv, NEW id, NEW kind \in {"result", "error"}, NEW value \in Seq(Int),
         Finish(id, kind, value), Suits(running[id], <<kind, value>>)
  PROVE  RpcInv' /\ CallStep
<1>1. /\ id \in DOMAIN running /\ running' = Without(running, id)
      /\ Reply(id, kind, value) /\ UNCHANGED <<pending, dead>> /\ inbox' = inbox
  BY DEF Finish
<1>2. /\ id \in Ids /\ id \notin IdsIn(outbox) /\ id \notin IdsIn(inbox)
      /\ inbox \in Seq(Messages) /\ Distinct(inbox)
  BY <1>1 DEF RpcInv, ChannelTyped, OnePlace
<1>3. /\ DOMAIN running' \subseteq DOMAIN running \ {id}
      /\ \A x \in DOMAIN running' : running'[x] = running[x]
  BY <1>1 DEF Without
<1>4. id \in DOMAIN pending => Suits(pending[id], <<kind, value>>)
  BY <1>1 DEF RpcInv, OfTheCall
<1> QED
  BY <1>1, <1>2, <1>3, <1>4, ReplyKeepsChannel

\* Nobody waits for an answer any more, or for any.
LEMMA ReceiveKeepsChannel ==
  ASSUME RpcInv, outbox # << >>, outbox' = Tail(outbox),
         Head(outbox).id \notin DOMAIN pending,
         UNCHANGED <<pending, inbox, running, dead>>
  PROVE  RpcInv' /\ CallStep
<1>1. Send(pending, {})
  BY DEF Send
<1> QED
  BY <1>1, SendKeepsChannel, IgnoredIsNothing

\* All that was awaited is rejected.
LEMMA DieKeepsChannel ==
  ASSUME RpcInv, Die
  PROVE  RpcInv' /\ CallStep
<1>1. DOMAIN pending' = {} /\ dead' = TRUE /\ UNCHANGED <<inbox, running, outbox>>
  BY DEF Die
<1> QED
  BY <1>1, DeathIsCollapse DEF RpcInv, ChannelTyped, OnePlace, OfTheCall

-----------------------------------------------------------------------------
(***************************************************************************)
(* The rows of a group.                                                    *)
(***************************************************************************)
\* A number up to three is one of four.
LEMMA UpToThree ==
  ASSUME NEW n \in Nat, n <= 3
  PROVE  n \in 0 .. 3 /\ (n = 0 \/ n = 1 \/ n = 2 \/ n = 3)
OBVIOUS

\* The next call of a row asks about its secret, or for one.
LEMMA RowAskIs ==
  ASSUME NEW rows \in Sheets, NEW row \in RowSeq, RowSound(rows, row)
  PROVE  /\ RowAsk(rows, row) \in Asks /\ IsRowCall(RowAsk(rows, row))
         /\ row = << >> => Values(RowAsk(rows, row)) = 1 .. (Len(rows) + 1)
         /\ row # << >> => Values(RowAsk(rows, row)) = {row[1]}
<1> DEFINE ask == RowAsk(rows, row)
<1>1. /\ Len(row) \in Nat /\ Len(rows) \in Nat
      /\ row = << >> <=> Len(row) = 0
      /\ Len(row) # 0 => row[1] \in Nat
  BY DEF RowSeq, Sheets
<1>2. Len(row) = 0 \/ Len(row) = 1 \/ Len(row) = 2 \/ Len(row) = 3
  <2>1. Len(row) <= 3
    BY DEF RowSound
  <2> QED
    BY <1>1, <2>1, UpToThree
<1>3. Len(row) = 3 => row[2] = row[1]
  <2>1. Len(row) = 3 => 2 \in 1 .. Len(row)
    OBVIOUS
  <2> QED
    BY <2>1 DEF RowSound
<1>4. CASE Len(row) = 0
  <2>1. ask = [method |-> "generate_secret", arg |-> Len(rows) + 1, start |-> 0, gen |-> 0]
    BY <1>1, <1>4 DEF RowAsk, RowCalls
  <2> HIDE DEF ask
  <2>2. PICK n \in Nat : n = Len(rows) + 1
    BY <1>1
  <2>3. ask = [method |-> "generate_secret", arg |-> n, start |-> 0, gen |-> 0]
    BY <2>1, <2>2
  <2>4. ask \in Asks /\ IsRowCall(ask)
    <3>1. ask \in Asks
      BY <2>3 DEF Asks, Methods
    <3>2. ask.method # "init" /\ ask.method # "open_envelope" /\ InitAsk.method = "init"
      BY <2>3 DEF InitAsk
    <3> QED
      BY <3>1, <3>2 DEF IsRowCall, IsLook
  <2>5. Values(ask) = 1 .. n
    BY <2>3 DEF Values
  <2> QED
    BY <1>1, <1>4, <2>2, <2>4, <2>5 DEF ask
<1>5. CASE Len(row) # 0
  <2>1. PICK called \in {"derive", "build_fragment", "payment_uri"} :
          called = RowCalls[Len(row) + 1]
    <3>1. PICK n \in {1, 2, 3} : n = Len(row)
      BY <1>2, <1>5
    <3>2. RowCalls[n + 1] \in {"derive", "build_fragment", "payment_uri"}
      BY DEF RowCalls
    <3> QED
      BY <3>1, <3>2
  <2>2. ask = [method |-> called, arg |-> row[1], start |-> 0, gen |-> 0]
    BY <1>1, <1>3, <1>5, <2>1 DEF RowAsk
  <2> HIDE DEF ask
  <2>3. PICK s \in Nat : s = row[1]
    BY <1>1, <1>5
  <2>4. ask = [method |-> called, arg |-> s, start |-> 0, gen |-> 0]
    BY <2>2, <2>3
  <2>5. ask \in Asks /\ IsRowCall(ask)
    <3>1. ask \in Asks
      BY <2>4 DEF Asks, Methods
    <3>2. ask.method # "init" /\ ask.method # "open_envelope" /\ InitAsk.method = "init"
      BY <2>4 DEF InitAsk
    <3> QED
      BY <3>1, <3>2 DEF IsRowCall, IsLook
  <2>6. Values(ask) = {s}
    BY <2>4 DEF Values
  <2> QED
    BY <1>1, <1>5, <2>3, <2>5, <2>6 DEF ask
<1> QED
  BY <1>4, <1>5

\* A group that has not begun.
LEMMA NothingIsSound ==
  /\ << >> \in Sheets /\ << >> \in RowSeq
  /\ RowsSound(<< >>) /\ RowSound(<< >>, << >>)
BY DEF RowsSound, RowSound, RowSeq, Sheets

\* A submit that failed, or has ended.
LEMMA NoJobIsSound ==
  ASSUME job' = NoJob
  PROVE  JobSound' /\ job'.stage = "none"
<1>1. NoJob \in Jobs /\ NoJob.stage = "none" /\ NoJob.rows = << >> /\ NoJob.row = << >>
  BY WatchAssumption, NothingIsSound DEF NoJob, Jobs, Stages, Birthdays, Heights
<1> QED
  BY <1>1, NothingIsSound DEF JobSound

\* An answer of the core takes the row on, or fails the group.
LEMMA GroupKeepsJob ==
  ASSUME JobSound, job.stage = "make", NEW p,
         NEW value \in Values(RowAsk(job.rows, job.row)), GroupGoesOn(value, p)
  PROVE  /\ JobSound'
         /\ \/ job'.stage \in {"none", "seal"} /\ Send(p, {})
            \/ job'.stage = "make" /\ Send(p, {RowAsk(job'.rows, job'.row)})
         /\ job'.stage # "none" => job'.birthday = job.birthday
<1> DEFINE row  == Append(job.row, value)
           full == Len(row) = 4
           rows == IF full THEN Append(job.rows, row) ELSE job.rows
           next == IF full THEN << >> ELSE row
<1>1. /\ job \in Jobs /\ job.count \in Envelopes /\ job.rows \in Sheets
      /\ job.row \in RowSeq /\ RowsSound(job.rows) /\ RowSound(job.rows, job.row)
  BY DEF JobSound, Jobs
<1>2. value \in Nat /\ (job.row # << >> => value = job.row[1])
  <2>1. Len(job.rows) \in Nat /\ (job.row # << >> => job.row[1] \in Nat)
    BY <1>1 DEF RowSeq, Sheets
  <2> QED
    BY <1>1, <2>1, RowAskIs
<1>3. /\ row \in RowSeq /\ Len(row) = Len(job.row) + 1 /\ Len(job.row) \in 0 .. 3
      /\ \A k \in 1 .. Len(row) : row[k] = value
      /\ row[1] = value /\ (job.row # << >> => ~SeenSecret(job.rows, value))
  <2>1. /\ row \in RowSeq /\ Len(row) = Len(job.row) + 1 /\ Len(job.row) \in 0 .. 3
        /\ \A k \in 1 .. Len(job.row) : row[k] = job.row[k]
        /\ row[Len(job.row) + 1] = value
    <3>1. Len(job.row) \in Nat /\ Len(job.row) <= 3
      BY <1>1 DEF RowSound, RowSeq
    <3>2. /\ row \in RowSeq /\ Len(row) = Len(job.row) + 1
          /\ \A k \in 1 .. Len(job.row) : row[k] = job.row[k]
          /\ row[Len(job.row) + 1] = value
      BY <1>1, <1>2 DEF RowSeq
    <3> HIDE DEF row
    <3>3. Len(job.row) \in 0 .. 3
      BY <3>1, UpToThree
    <3> QED
      BY <3>2, <3>3
  <2>2. \A k \in 1 .. Len(job.row) : job.row[k] = value
    BY <1>1, <1>2 DEF RowSound
  <2> QED
    BY <1>1, <1>2, <2>1, <2>2 DEF RowSound
<1>4. Len(RowCalls) = 4
  BY DEF RowCalls
<1>5. CASE Len(row) = 1 /\ SeenSecret(job.rows, value)
  <2>1. job' = NoJob /\ Send(p, {})
    BY <1>4, <1>5 DEF GroupGoesOn, JobFails
  <2> QED
    BY <2>1, NoJobIsSound
<1>6. CASE ~(Len(row) = 1 /\ SeenSecret(job.rows, value))
  <2>1. /\ job' = [job EXCEPT !.rows = rows, !.row = next,
                      !.stage = IF Len(rows) = job.count THEN "seal" ELSE "make"]
        /\ Send(p, IF Len(rows) = job.count THEN {} ELSE {RowAsk(rows, next)})
    BY <1>4, <1>6 DEF GroupGoesOn
  <2>2. ~SeenSecret(job.rows, value)
    <3>1. CASE job.row = << >>
      BY <1>3, <1>6, <3>1 DEF RowSeq
    <3> QED
      BY <1>3, <3>1
  <2>3. rows \in Sheets /\ next \in RowSeq /\ RowsSound(rows) /\ RowSound(rows, next)
    <3>1. CASE full
      <4>1. rows = Append(job.rows, row) /\ next = << >> /\ Whole(row)
        BY <1>3, <3>1 DEF Whole
      <4>2. /\ rows \in Sheets /\ Len(rows) = Len(job.rows) + 1
            /\ \A i \in 1 .. Len(job.rows) : rows[i] = job.rows[i]
            /\ rows[Len(job.rows) + 1] = row /\ Len(job.rows) \in Nat
        BY <1>1, <1>3, <4>1 DEF Sheets
      <4>3. \A i \in 1 .. Len(job.rows) : job.rows[i][1] # value
        BY <1>1, <2>2 DEF SeenSecret
      <4> HIDE DEF rows, row, next
      <4>4. \A i \in 1 .. Len(rows) : Whole(rows[i])
        BY <1>1, <4>1, <4>2 DEF RowsSound
      <4>5. ASSUME NEW i \in 1 .. Len(rows), NEW j \in 1 .. Len(rows),
                   rows[i][1] = rows[j][1]
            PROVE  i = j
        <5>1. CASE i \in 1 .. Len(job.rows) /\ j \in 1 .. Len(job.rows)
          BY <1>1, <4>2, <4>5, <5>1 DEF RowsSound
        <5>2. CASE i \in 1 .. Len(job.rows) /\ j = Len(job.rows) + 1
          BY <1>3, <4>2, <4>3, <4>5, <5>2
        <5>3. CASE i = Len(job.rows) + 1 /\ j \in 1 .. Len(job.rows)
          BY <1>3, <4>2, <4>3, <4>5, <5>3
        <5> QED
          BY <4>2, <5>1, <5>2, <5>3
      <4>6. RowSound(rows, << >>) /\ << >> \in RowSeq
        BY DEF RowSound, RowSeq
      <4> QED
        BY <4>1, <4>2, <4>4, <4>5, <4>6 DEF RowsSound
    <3>2. CASE ~full
      <4>1. rows = job.rows /\ next = row /\ Len(row) <= 3
        BY <1>3, <3>2
      <4> HIDE DEF rows, next, row, full
      <4> QED
        BY <1>1, <1>3, <2>2, <4>1 DEF RowSound
    <3> QED
      BY <3>1, <3>2
  <2> HIDE DEF rows, next, row, full
  <2>4. /\ job' \in Jobs /\ job'.rows = rows /\ job'.row = next
        /\ job'.count = job.count /\ job'.birthday = job.birthday
        /\ job'.stage = IF Len(rows) = job.count THEN "seal" ELSE "make"
    BY <1>1, <2>1, <2>3 DEF Jobs, Stages
  <2> QED
    BY <1>1, <2>1, <2>3, <2>4 DEF JobSound
<1> QED
  BY <1>5, <1>6

-----------------------------------------------------------------------------
(***************************************************************************)
(* Every step of the page is a step of its watch.                          *)
(***************************************************************************)
\* What the page and its channel add to the invariant of the watch.
CInv == RpcInv /\ SheetInv

\* A step of the page does what one operation of the watch does, or leaves the watch alone.
LEMMA StepIsWatchStep ==
  ASSUME CInv, CreateNext
  PROVE  [Next]_vars
<1>1. dead \in BOOLEAN
  BY DEF CInv, RpcInv, ChannelTyped
<1>2. CASE \E valid \in BOOLEAN, n \in Envelopes : Submit(valid, n)
  BY <1>2 DEF Submit
<1>3. CASE CoreAwaited \/ HeightAwaited
  BY <1>3 DEF CoreAwaited, HeightAwaited
<1>4. CASE ShowResult
  <2>1. CASE job.birthday = NoBirthday
    BY <1>4, <2>1 DEF ShowResult
  <2>2. CASE job.birthday # NoBirthday
    <3>1. Open(Len(job.rows), job.birthday)
      BY <1>4, <2>2 DEF ShowResult
    <3>2. Len(job.rows) \in Envelopes /\ job.birthday \in Heights
      BY <1>4, <2>2 DEF ShowResult, CInv, SheetInv, JobSound, Jobs, Birthdays
    <3> QED
      BY <3>1, <3>2 DEF Next
  <2> QED
    BY <2>1, <2>2
<1>5. CASE TickSaved \/ SaveContinue \/ PayBack \/ SkipToShare
  BY <1>5 DEF TickSaved, SaveContinue, PayBack, SkipToShare
<1>6. CASE Reset
  BY <1>6 DEF Reset, Next
<1>7. CASE WorkerTakes \/ WorkerLoads \/ WorkerServes \/ WorkerThrows \/ WorkerInits
  BY <1>7 DEF WorkerTakes, WorkerLoads, WorkerServes, WorkerThrows, WorkerInits
<1>8. CASE \E id \in Ids, lag \in 0 .. MaxLag : WorkerLooks(id, lag)
  <2>1. PICK l, t : Read(l, t)
    BY <1>8 DEF WorkerLooks
  <2> QED
    BY <2>1 DEF Read, Next
<1>9. CASE WorkerLookFails
  BY <1>9 DEF WorkerLookFails
<1>10. CASE Deliver
  <2>1. \/ UNCHANGED vars
        \/ \E l : LookAnswers(l, dead) \/ LookFails(l, dead)
    BY <1>10 DEF Deliver
  <2> QED
    BY <1>1, <2>1 DEF LookAnswers, LookFails, Next
<1>11. CASE WorkerDies
  BY <1>11 DEF WorkerDies, Next
<1>12. CASE WatchTicks
  BY <1>1, <1>12 DEF WatchTicks, Next
<1>13. CASE Around
  BY <1>13 DEF Around, Next
<1> QED
  BY <1>2, <1>3, <1>4, <1>5, <1>6, <1>7, <1>8, <1>9, <1>10, <1>11, <1>12, <1>13
  DEF CreateNext

-----------------------------------------------------------------------------
(***************************************************************************)
(* What the steps leave of the invariant.                                  *)
(***************************************************************************)
\* A step that moves neither the chain nor the watch on, and starts no job's rows.
LEMMA QuietKeepsResult ==
  ASSUME ResultSound, PaidAfterBirth,
         UNCHANGED <<chainVars, live, targets, birthday, created>>,
         job.stage = "none" => job'.stage = "none",
         job'.stage \in {"make", "seal"} =>
           job.stage \in {"make", "seal"} /\ job'.birthday = job.birthday
  PROVE  ResultSound' /\ PaidAfterBirth'
BY DEF ResultSound, PaidAfterBirth, chainVars

\* No call of a row is awaited while no rows are made.
LEMMA NoRowCalls ==
  ASSUME InStep, job.stage # "make"
  PROVE  \A x \in DOMAIN pending : ~IsRowCall(pending[x])
BY DEF InStep

\* A step that asks for nothing of the row leaves its one call.
LEMMA SameRowCalls ==
  ASSUME InStep, job' = job,
         \A x \in DOMAIN pending' : IsRowCall(pending'[x]) =>
            x \in DOMAIN pending /\ pending'[x] = pending[x]
  PROVE  InStep'
BY DEF InStep

\* A step after which the row's one call is the one it sent, if any.
LEMMA OneRowCall ==
  ASSUME NEW p, NEW A, Send(p, A), \A x \in DOMAIN p : ~IsRowCall(p[x]),
         \/ A = {}
         \/ A = {RowAsk(job'.rows, job'.row)} /\ (~dead => job'.stage = "make")
  PROVE  InStep'
<1>1. CASE pending' = p
  BY <1>1 DEF InStep
<1>2. CASE pending' # p
  <2> DEFINE Sent(ask, id) == /\ id \notin DOMAIN pending \cup IdsIn(inbox)
                              /\ id \notin DOMAIN running \cup IdsIn(outbox)
                              /\ DOMAIN pending' = DOMAIN p \cup {id}
                              /\ pending'[id] = ask
                              /\ \A x \in DOMAIN p : x # id => pending'[x] = p[x]
                              /\ inbox' = Append(inbox, [id |-> id, ask |-> ask])
  <2>0. pending' = p \/ \E ask \in A, id \in Ids : Sent(ask, id)
    BY SendIs
  <2>1. PICK ask \in A, id \in Ids :
          /\ DOMAIN pending' = DOMAIN p \cup {id}
          /\ pending'[id] = ask
          /\ \A x \in DOMAIN p : x # id => pending'[x] = p[x]
    <3>1. PICK ask \in A, id \in Ids : Sent(ask, id)
      BY <1>2, <2>0
    <3> QED
      BY <3>1
  <2>2. ask = RowAsk(job'.rows, job'.row) /\ job'.stage = "make"
    <3>1. ~dead
      BY <1>2, SendIs
    <3> QED
      BY <2>1, <3>1
  <2>3. \A x \in DOMAIN pending' : IsRowCall(pending'[x]) => x = id
    BY <2>1
  <2> QED
    BY <2>1, <2>2, <2>3 DEF InStep, RowAsk
<1> QED
  BY <1>1, <1>2

\* Envelopes are numbered from one, heights from zero.
LEMMA EnvelopesAreSome ==
  /\ Envelopes \subseteq Nat /\ 0 \notin Envelopes /\ 0 \in Heights
  /\ Heights \subseteq Nat
BY WatchAssumption DEF Envelopes, Heights

\* A job that has not made a row yet.
LEMMA EarlyJobIsSound ==
  ASSUME NEW stage \in {"core", "height", "make"}, NEW n \in Envelopes, NEW b \in Birthdays,
         job' = [stage |-> stage, count |-> n, rows |-> << >>, row |-> << >>, birthday |-> b]
  PROVE  JobSound'
<1>1. job' \in Jobs
  BY NothingIsSound, EnvelopesAreSome DEF Jobs, Stages
<1> QED
  BY <1>1, NothingIsSound DEF JobSound

\* The form is sent.
LEMMA SubmitKeeps ==
  ASSUME SheetInv, NEW valid \in BOOLEAN, NEW n \in Envelopes, Submit(valid, n)
  PROVE  SheetInv'
<1>1. /\ job = NoJob /\ created = NoResult
      /\ UNCHANGED <<rpcVars, vars, created>>
  BY DEF Submit, OnForm
<1>2. created.rows = << >> /\ job.stage = "none"
  BY <1>1 DEF NoResult, NoJob
<1>3. ~live
  BY <1>2 DEF SheetInv, ResultSound
<1>4. CASE job' = job
  <2>1. JobSound'
    BY <1>1, <1>4, NoJobIsSound
  <2>2. InStep'
    BY <1>1, <1>4 DEF SheetInv, InStep, rpcVars
  <2>3. ResultSound' /\ PaidAfterBirth'
    BY <1>1, <1>4, QuietKeepsResult DEF SheetInv, vars, watchVars
  <2> QED
    BY <2>1, <2>2, <2>3 DEF SheetInv
<1>5. CASE job' # job
  <2>1. PICK stage \in {"core", "height"} :
          job' = [NoJob EXCEPT !.stage = stage, !.count = n]
    BY <1>5 DEF Submit
  <2>2. job' = [stage |-> stage, count |-> n, rows |-> << >>, row |-> << >>, birthday |-> 0]
    BY <2>1 DEF NoJob
  <2>3. JobSound' /\ job'.stage = stage
    BY <2>2, EarlyJobIsSound, EnvelopesAreSome DEF Birthdays
  <2>4. InStep'
    <3>1. pending' = pending
      BY <1>1 DEF rpcVars
    <3> QED
      BY <1>2, <3>1, NoRowCalls DEF SheetInv, InStep
  <2>5. ResultSound'
    BY <1>1, <1>2, <1>3 DEF SheetInv, ResultSound, vars, watchVars
  <2>6. PaidAfterBirth'
    BY <1>1, <2>3 DEF SheetInv, PaidAfterBirth, vars, watchVars, chainVars
  <2> QED
    BY <2>3, <2>4, <2>5, <2>6 DEF SheetInv
<1> QED
  BY <1>4, <1>5

\* The core has loaded, or has not.
LEMMA CoreAwaitedKeeps ==
  ASSUME SheetInv, CoreAwaited
  PROVE  SheetInv'
<1>1. /\ job.stage = "core" /\ UNCHANGED <<rpcVars, vars, created>>
      /\ job' = [job EXCEPT !.stage = "height"] \/ job' = NoJob
  BY DEF CoreAwaited, JobFails
<1>2. JobSound' /\ job'.stage \in {"none", "height"}
  <2>1. CASE job' = NoJob
    BY <2>1, NoJobIsSound
  <2>2. CASE job' = [job EXCEPT !.stage = "height"]
    <3>1. /\ job \in Jobs /\ job.rows = << >> /\ job.row = << >> /\ job.count \in Envelopes
      BY <1>1 DEF SheetInv, JobSound
    <3>2. job' = [stage |-> "height", count |-> job.count, rows |-> << >>, row |-> << >>,
                  birthday |-> job.birthday] /\ job.birthday \in Birthdays
      BY <2>2, <3>1 DEF Jobs
    <3> QED
      BY <3>1, <3>2, EarlyJobIsSound
  <2> QED
    BY <1>1, <2>1, <2>2
<1>3. InStep'
  <2>1. pending' = pending
    BY <1>1 DEF rpcVars
  <2> QED
    BY <1>1, <2>1, NoRowCalls DEF SheetInv, InStep
<1>4. ResultSound' /\ PaidAfterBirth'
  BY <1>1, <1>2, QuietKeepsResult DEF SheetInv, vars, watchVars
<1> QED
  BY <1>2, <1>3, <1>4 DEF SheetInv

\* The height is known, or not, and the first call is sent.
LEMMA HeightAwaitedKeeps ==
  ASSUME SheetInv, HeightAwaited
  PROVE  SheetInv'
<1>1. /\ job.stage = "height" /\ UNCHANGED <<vars, created>>
      /\ Send(pending, {RowAsk(<< >>, << >>)})
  BY DEF HeightAwaited
<1>2. /\ job \in Jobs /\ job.rows = << >> /\ job.row = << >> /\ job.count \in Envelopes
  BY <1>1 DEF SheetInv, JobSound
<1>3. PICK b \in Birthdays : /\ b # NoBirthday => b <= tip
                             /\ \/ dead /\ job' = NoJob
                                \/ job' = [job EXCEPT !.stage = "make", !.birthday = b]
  BY DEF HeightAwaited, JobFails, Birthdays
<1>4. /\ JobSound' /\ job'.rows = << >> /\ job'.row = << >>
      /\ job'.stage \in {"none", "make"} /\ (~dead => job'.stage = "make")
      /\ job'.stage # "none" => job'.birthday = b
  <2>1. CASE dead /\ job' = NoJob
    <3>1. JobSound' /\ job'.stage = "none"
      BY <2>1, NoJobIsSound
    <3>2. job'.rows = << >> /\ job'.row = << >>
      BY <2>1 DEF NoJob
    <3>3. dead
      BY <2>1
    <3> QED
      BY <3>1, <3>2, <3>3
  <2>2. CASE job' = [job EXCEPT !.stage = "make", !.birthday = b]
    <3>1. job' = [stage |-> "make", count |-> job.count, rows |-> << >>, row |-> << >>,
                  birthday |-> b]
      BY <1>2, <2>2 DEF Jobs
    <3> QED
      BY <1>2, <3>1, EarlyJobIsSound
  <2> QED
    BY <1>3, <2>1, <2>2
<1>5. InStep'
  BY <1>1, <1>4, NoRowCalls, OneRowCall DEF SheetInv
<1>6. ResultSound'
  BY <1>1 DEF SheetInv, ResultSound, vars, watchVars
<1>7. PaidAfterBirth'
  <2>1. UNCHANGED <<chainVars, live, birthday>>
    BY <1>1 DEF vars, watchVars
  <2> QED
    BY <1>3, <1>4, <2>1 DEF SheetInv, PaidAfterBirth, chainVars
<1> QED
  BY <1>4, <1>5, <1>6, <1>7 DEF SheetInv

\* The result is shown, and watched where its links have a birthday.
LEMMA ShowResultKeeps ==
  ASSUME SheetInv, ShowResult
  PROVE  SheetInv'
<1>1. /\ job.stage = "seal" /\ job' = NoJob /\ UNCHANGED rpcVars
      /\ created' = [rows |-> job.rows, birthday |-> job.birthday]
  BY DEF ShowResult
<1>2. /\ job \in Jobs /\ job.count \in Envelopes /\ Len(job.rows) = job.count
      /\ RowsSound(job.rows)
  BY <1>1 DEF SheetInv, JobSound
<1>3. /\ created' \in Created /\ created'.rows = job.rows /\ created'.birthday = job.birthday
      /\ job.rows # << >> /\ job.birthday \in Birthdays
  <2>1. Len(job.rows) # 0
    BY <1>2, EnvelopesAreSome
  <2>2. job.rows # << >>
    BY <2>1
  <2> QED
    BY <1>1, <1>2, <2>2 DEF Created, Jobs
<1>4. ~live
  BY <1>1 DEF SheetInv, ResultSound
<1>5. JobSound' /\ job'.stage = "none"
  BY <1>1, NoJobIsSound
<1>6. InStep'
  <2>1. pending' = pending
    BY <1>1 DEF rpcVars
  <2> QED
    BY <1>1, <2>1, NoRowCalls DEF SheetInv, InStep
<1>7. CASE job.birthday = NoBirthday
  <2>1. UNCHANGED vars
    BY <1>7 DEF ShowResult
  <2>2. ResultSound'
    BY <1>2, <1>3, <1>4, <1>5, <2>1 DEF ResultSound, vars, watchVars
  <2>3. PaidAfterBirth'
    BY <1>4, <1>5, <2>1 DEF SheetInv, PaidAfterBirth, vars, watchVars, chainVars
  <2> QED
    BY <1>5, <1>6, <2>2, <2>3 DEF SheetInv
<1>8. CASE job.birthday # NoBirthday
  <2>1. Open(Len(job.rows), job.birthday)
    BY <1>8 DEF ShowResult
  <2>2. ResultSound'
    BY <1>2, <1>3, <1>5, <2>1 DEF ResultSound, Open
  <2>3. PaidAfterBirth'
    BY <1>1, <1>4, <1>5, <1>8, <2>1 DEF SheetInv, PaidAfterBirth, Open, chainVars
  <2> QED
    BY <1>5, <1>6, <2>2, <2>3 DEF SheetInv
<1> QED
  BY <1>7, <1>8

\* "Make another".
LEMMA ResetKeeps ==
  ASSUME SheetInv, Reset
  PROVE  SheetInv'
<1>1. /\ created' = NoResult /\ UNCHANGED <<rpcVars, job>>
      /\ (live /\ Dispose) \/ (~live /\ UNCHANGED vars)
  <2>1. CASE live
    BY <2>1 DEF Reset
  <2>2. CASE ~live
    BY <2>2 DEF Reset
  <2> QED
    BY <2>1, <2>2
<1>2. JobSound' /\ InStep'
  BY <1>1 DEF SheetInv, JobSound, InStep, rpcVars
<1>3. created' \in Created /\ created'.rows = << >> /\ RowsSound(created'.rows) /\ ~live'
  <2>1. created' \in Created /\ created'.rows = << >>
    BY <1>1, NothingIsSound, EnvelopesAreSome DEF NoResult, Created, Birthdays
  <2>2. ~live'
    BY <1>1 DEF Dispose, vars, watchVars
  <2> QED
    BY <2>1, <2>2, NothingIsSound
<1>4. ResultSound'
  BY <1>3 DEF ResultSound
<1>5. /\ mempool' = {} /\ \A e \in Envelopes : mined'[e] = {}
      /\ tip' = tip /\ rolled' = rolled
  BY <1>1 DEF SheetInv, PaidAfterBirth, Dispose, vars, chainVars
<1>6. PaidAfterBirth'
  BY <1>1, <1>3, <1>5 DEF SheetInv, PaidAfterBirth
<1> QED
  BY <1>2, <1>4, <1>6 DEF SheetInv

\* Payments are made and mined; blocks come and go.
LEMMA ChainKeeps ==
  ASSUME SheetInv, TypeOK, Chain, UNCHANGED <<rpcVars, pageVars>>
  PROVE  SheetInv'
<1>1. /\ UNCHANGED <<watchVars, pending, job, created>>
      /\ UNCHANGED <<live, targets, birthday>>
  BY DEF Chain, Pay, Mine, Reorg, watchVars, rpcVars, pageVars
<1>2. JobSound' /\ InStep' /\ ResultSound'
  BY <1>1 DEF SheetInv, JobSound, InStep, ResultSound
<1>3. PaidAfterBirth'
  <2>0. /\ tip \in Nat /\ rolled \in Nat /\ birthday \in Nat
        /\ mined \in [Envelopes -> SUBSET Heights]
        /\ job.birthday # NoBirthday => job.birthday \in Nat
    <3>1. tip \in Nat /\ rolled \in Nat /\ birthday \in Nat
      BY EnvelopesAreSome, WatchAssumption DEF TypeOK
    <3>2. job.birthday \in Birthdays
      BY DEF SheetInv, JobSound, Jobs
    <3> QED
      BY <3>1, <3>2, EnvelopesAreSome DEF TypeOK, Birthdays
  <2>1. CASE \E e \in Envelopes : Pay(e)
    BY <1>1, <2>1 DEF SheetInv, PaidAfterBirth, Pay
  <2>2. CASE Mine
    <3>1. PICK S \in SUBSET mempool :
            /\ mempool' = mempool \ S
            /\ mined' = [e \in Envelopes |->
                           IF e \in S THEN mined[e] \cup {tip + 1} ELSE mined[e]]
      BY <2>2 DEF Mine
    <3>2. tip' = tip + 1 /\ rolled' = rolled
      BY <2>2 DEF Mine
    <3>3. ~live => mempool' = {} /\ \A e \in Envelopes : mined'[e] = {}
      BY <3>1 DEF SheetInv, PaidAfterBirth
    <3>4. \A e \in Envelopes : \A h \in mined'[e] : h \in mined[e] \/ h = tip + 1
      BY <3>1
    <3>5. rolled = 0 /\ job.stage \in {"make", "seal"} /\ job.birthday # NoBirthday =>
            job.birthday <= tip'
      BY <2>0, <3>2 DEF SheetInv, PaidAfterBirth
    <3>6. rolled = 0 /\ live =>
            birthday <= tip' /\ \A e \in Envelopes : \A h \in mined'[e] : birthday <= h
      <4> SUFFICES ASSUME rolled = 0, live
                   PROVE  /\ birthday <= tip'
                          /\ \A e \in Envelopes : \A h \in mined'[e] : birthday <= h
        OBVIOUS
      <4>1. birthday <= tip /\ \A e \in Envelopes : \A h \in mined[e] : birthday <= h
        BY DEF SheetInv, PaidAfterBirth
      <4>2. birthday <= tip + 1
        BY <2>0, <4>1
      <4> QED
        BY <3>2, <3>4, <4>1, <4>2
    <3> QED
      BY <1>1, <3>2, <3>3, <3>5, <3>6 DEF PaidAfterBirth
  <2>3. CASE Reorg
    <3>1. rolled' # 0
      BY <2>0, <2>3 DEF Reorg
    <3>2. ~live => mempool' = {} /\ \A e \in Envelopes : mined'[e] = {}
      BY <2>3 DEF Reorg, SheetInv, PaidAfterBirth
    <3> QED
      BY <1>1, <3>1, <3>2 DEF PaidAfterBirth
  <2> QED
    BY <2>1, <2>2, <2>3 DEF Chain
<1> QED
  BY <1>2, <1>3 DEF SheetInv

-----------------------------------------------------------------------------
(***************************************************************************)
(* The steps of the worker and of the channel.                             *)
(***************************************************************************)
\* The steps of the watch that the channel drives leave what the result rests on.
LEMMA WatchIsQuiet ==
  ASSUME SheetInv, UNCHANGED <<pending, job, created>>,
         UNCHANGED <<chainVars, live, targets, birthday>>
  PROVE  SheetInv'
<1>1. JobSound' /\ InStep'
  BY DEF SheetInv, JobSound, InStep
<1>2. ResultSound' /\ PaidAfterBirth'
  BY QuietKeepsResult DEF SheetInv
<1> QED
  BY <1>1, <1>2 DEF SheetInv

\* A call the worker answers in its turn is neither the init nor a look.
LEMMA NotSlow ==
  ASSUME NEW ask, ~Slow(ask)
  PROVE  ask # InitAsk /\ ~IsLook(ask)
BY DEF Slow, InitAsk, IsLook

\* The worker takes, answers and fails calls; none of it touches the page.
LEMMA WorkerKeeps ==
  ASSUME CInv, TypeOK,
         \/ WorkerTakes \/ WorkerLoads \/ WorkerServes \/ WorkerThrows \/ WorkerInits
         \/ WorkerLookFails
         \/ \E id \in Ids, lag \in 0 .. MaxLag : WorkerLooks(id, lag)
  PROVE  CInv' /\ CallStep
<1> USE DEF CInv
<1>1. CASE WorkerTakes
  <2>1. RpcInv' /\ CallStep
    BY <1>1, TakeKeepsChannel DEF WorkerTakes
  <2>2. SheetInv'
    BY <1>1, WatchIsQuiet DEF WorkerTakes, Take, vars, watchVars, pageVars
  <2> QED
    BY <2>1, <2>2
<1>2. CASE WorkerLoads
  <2>1. UNCHANGED <<pending, dead, inbox, running, outbox>>
    BY <1>2 DEF WorkerLoads, Load
  <2>2. RpcInv' /\ CallStep
    BY <2>1, LoadKeepsChannel
  <2>3. SheetInv'
    BY <1>2, <2>1, WatchIsQuiet DEF WorkerLoads, vars, watchVars, pageVars
  <2> QED
    BY <2>2, <2>3
<1>3. CASE WorkerServes
  <2>1. PICK value \in Values(Head(inbox).ask) : Serve("result", <<value>>)
    BY <1>3 DEF WorkerServes
  <2>2. inbox # << >> /\ ~Slow(Head(inbox).ask)
    BY <2>1 DEF Serve
  <2>3. Head(inbox).ask \in Asks
    <3>1. Head(inbox) \in Messages
      BY <2>2, Popped DEF RpcInv, ChannelTyped
    <3> QED
      BY <3>1 DEF Messages
  <2>4. value \in Int
    BY <2>3 DEF Values, Asks
  <2>5. <<value>> \in Seq(Int)
    BY <2>4
  <2>6. Suits(Head(inbox).ask, <<"result", <<value>> >>)
    BY <2>1, <2>2, NotSlow DEF Suits
  <2>7. RpcInv' /\ CallStep
    BY <2>1, <2>5, <2>6, ServeKeepsChannel
  <2>8. SheetInv'
    BY <1>3, <2>1, WatchIsQuiet DEF WorkerServes, Serve, vars, watchVars, pageVars
  <2> QED
    BY <2>7, <2>8
<1>4. CASE WorkerThrows
  <2>1. Suits(Head(inbox).ask, <<"error", << >> >>) /\ << >> \in Seq(Int)
    BY DEF Suits
  <2>2. RpcInv' /\ CallStep
    BY <1>4, <2>1, ServeKeepsChannel DEF WorkerThrows
  <2>3. SheetInv'
    BY <1>4, WatchIsQuiet DEF WorkerThrows, Serve, vars, watchVars, pageVars
  <2> QED
    BY <2>2, <2>3
<1>5. CASE WorkerInits
  <2>1. PICK id \in DOMAIN running :
          /\ running[id] = InitAsk
          /\ Finish(id, IF backend = "failed" THEN "error" ELSE "result", << >>)
    BY <1>5 DEF WorkerInits
  <2>2. PICK kind \in {"error", "result"} : Finish(id, kind, << >>)
    BY <2>1
  <2>3. Suits(running[id], <<kind, << >> >>) /\ << >> \in Seq(Int)
    BY <2>1 DEF Suits
  <2>4. RpcInv' /\ CallStep
    BY <2>2, <2>3, FinishKeepsChannel
  <2>5. SheetInv'
    BY <1>5, <2>2, WatchIsQuiet DEF WorkerInits, Finish, vars, watchVars, pageVars
  <2> QED
    BY <2>4, <2>5
<1>6. CASE WorkerLookFails
  <2>1. PICK id \in DOMAIN running : Finish(id, "error", << >>)
    BY <1>6 DEF WorkerLookFails
  <2>2. Suits(running[id], <<"error", << >> >>) /\ << >> \in Seq(Int)
    BY DEF Suits
  <2>3. RpcInv' /\ CallStep
    BY <2>1, <2>2, FinishKeepsChannel
  <2>4. SheetInv'
    BY <1>6, <2>1, WatchIsQuiet DEF WorkerLookFails, Finish, vars, watchVars, pageVars
  <2> QED
    BY <2>3, <2>4
<1>7. CASE \E id \in Ids, lag \in 0 .. MaxLag : WorkerLooks(id, lag)
  <2>1. PICK id \in Ids, lag \in 0 .. MaxLag : WorkerLooks(id, lag)
    BY <1>7
  <2> DEFINE l == LookOf(running[id])
             r == CheckResult(Found(l, tip - lag), tip - lag)
  <2>2. /\ IsLook(running[id]) /\ Read(l, tip - lag)
        /\ Finish(id, "result", <<r.height, r.tip>>) /\ UNCHANGED pageVars
    BY <2>1 DEF WorkerLooks
  <2>3. r.height \in Heights \cup {None} /\ r.tip \in Heights
    <3>1. tip - lag \in Heights /\ l \in looks /\ l \in Looks
      BY <2>2 DEF Read, TypeOK
    <3>2. Found(l, tip - lag) \subseteq Heights
      BY <3>1 DEF TypeOK, Found, Looks
    <3>3. Found(l, tip - lag) # {} => Least(Found(l, tip - lag)) \in Heights
      BY <3>2, LeastIsLeast, EnvelopesAreSome
    <3> QED
      BY <3>1, <3>3 DEF CheckResult
  <2> HIDE DEF l, r
  <2>4. <<r.height, r.tip>> \in Seq(Int)
    <3>1. Heights \cup {None} \subseteq Int
      BY EnvelopesAreSome DEF None
    <3>2. PICK h \in Int, t \in Int : h = r.height /\ t = r.tip
      BY <2>3, <3>1
    <3>3. <<h, t>> \in Seq(Int)
      OBVIOUS
    <3> QED
      BY <3>2, <3>3
  <2>5. Suits(running[id], <<"result", <<r.height, r.tip>> >>)
    BY <2>2, <2>3 DEF Suits
  <2>6. RpcInv' /\ CallStep
    BY <2>2, <2>4, <2>5, FinishKeepsChannel
  <2>7. SheetInv'
    BY <2>2, WatchIsQuiet DEF Finish, Read, pageVars
  <2> QED
    BY <2>6, <2>7
<1> QED
  BY <1>1, <1>2, <1>3, <1>4, <1>5, <1>6, <1>7

\* The looks a step of the watch starts are asks, and none of them is a row's call.
LEMMA NewLooksAreLooks ==
  ASSUME TypeOK'
  PROVE  NewLooks \subseteq Asks /\ \A ask \in NewLooks : ~IsRowCall(ask)
<1> SUFFICES ASSUME NEW l \in looks' PROVE LookAsk(l) \in Asks /\ ~IsRowCall(LookAsk(l))
  BY DEF NewLooks
<1>1. l.env \in Nat /\ l.from \in Nat /\ l.gen \in Nat
  <2>1. l \in Looks
    BY DEF TypeOK
  <2>2. l.env \in Envelopes /\ l.from \in Heights /\ l.gen \in 1 .. Generations
    BY <2>1 DEF Looks
  <2>3. PICK g \in 1 .. Generations : g = l.gen
    BY <2>2
  <2>4. g \in Nat
    BY WatchAssumption
  <2> QED
    BY <2>2, <2>3, <2>4, EnvelopesAreSome
<1>2. LookAsk(l) = [method |-> "open_envelope", arg |-> l.env, start |-> l.from,
                    gen |-> l.gen]
  BY DEF LookAsk
<1> HIDE DEF LookAsk
<1>3. LookAsk(l) \in Asks
  BY <1>1, <1>2 DEF Asks, Methods
<1> QED
  BY <1>2, <1>3 DEF IsRowCall, IsLook

\* What is delivered suits the call it names, and leaves the others.
LEMMA DeliveredSuits ==
  ASSUME RpcInv, outbox # << >>, Head(outbox).id \in DOMAIN pending
  PROVE  /\ Suits(pending[Head(outbox).id], <<Head(outbox).kind, Head(outbox).value>>)
         /\ pending[Head(outbox).id] \in Asks
         /\ DOMAIN Without(pending, Head(outbox).id) = DOMAIN pending \ {Head(outbox).id}
         /\ \A x \in DOMAIN pending \ {Head(outbox).id} :
              Without(pending, Head(outbox).id)[x] = pending[x]
<1>1. Head(outbox) = outbox[1] /\ 1 \in 1 .. Len(outbox)
  BY Popped DEF RpcInv, ChannelTyped
<1> QED
  BY <1>1 DEF RpcInv, OfTheCall, ChannelTyped, Without

\* A message reaches the page: nobody waits for it, or the init, a look or a row does.
LEMMA DeliverKeeps ==
  ASSUME CInv, TypeOK', Deliver
  PROVE  CInv' /\ CallStep
<1> DEFINE m == Head(outbox)
           p == Without(pending, m.id)
<1>1. /\ RpcInv /\ SheetInv /\ outbox # << >> /\ outbox' = Tail(outbox)
      /\ UNCHANGED <<dead, running>>
  BY DEF CInv, Deliver, Receive
<1>2. CASE Ignored(m.id) /\ UNCHANGED <<pending, inbox, vars, pageVars>>
  <2>1. RpcInv' /\ CallStep
    BY <1>1, <1>2, ReceiveKeepsChannel DEF Ignored
  <2>2. SheetInv'
    BY <1>1, <1>2, WatchIsQuiet DEF vars, watchVars, pageVars
  <2> QED
    BY <2>1, <2>2 DEF CInv
<1>3. ASSUME ~Ignored(m.id)
      PROVE  /\ Suits(pending[m.id], <<m.kind, m.value>>)
             /\ DOMAIN p = DOMAIN pending \ {m.id}
             /\ \A x \in DOMAIN p : p[x] = pending[x]
             /\ \A A : A \subseteq Asks /\ Send(p, A) => RpcInv' /\ CallStep
  <2>1. /\ Suits(pending[m.id], <<m.kind, m.value>>)
        /\ DOMAIN p = DOMAIN pending \ {m.id}
        /\ \A x \in DOMAIN p : p[x] = pending[x]
    BY <1>1, <1>3, DeliveredSuits DEF Ignored
  <2>2. \A A : Send(p, A) => CallStep
    BY <1>1, <1>3, DeliveryIsSettle DEF Ignored
  <2> HIDE DEF p
  <2> QED
    BY <1>1, <2>1, <2>2, SendKeepsChannel
<1>4. CASE /\ ~Ignored(m.id) /\ pending[m.id] = InitAsk
           /\ Send(p, {}) /\ UNCHANGED <<vars, job, created>>
  <2>1. RpcInv' /\ CallStep
    BY <1>3, <1>4
  <2>2. pending' = p
    BY <1>4 DEF Send
  <2>3. InStep'
    BY <1>1, <1>3, <1>4, <2>2, SameRowCalls DEF SheetInv
  <2>4. JobSound'
    BY <1>1, <1>4 DEF SheetInv, JobSound
  <2>5. ResultSound' /\ PaidAfterBirth'
    BY <1>1, <1>4, QuietKeepsResult DEF SheetInv, vars, watchVars
  <2> QED
    BY <2>1, <2>3, <2>4, <2>5 DEF CInv, SheetInv
<1>5. CASE /\ ~Ignored(m.id) /\ IsLook(pending[m.id]) /\ Send(p, NewLooks)
           /\ UNCHANGED <<chainVars, live, targets, birthday, job, created>>
  <2>1. NewLooks \subseteq Asks /\ \A ask \in NewLooks : ~IsRowCall(ask)
    BY NewLooksAreLooks
  <2>2. RpcInv' /\ CallStep
    BY <1>3, <1>5, <2>1
  <2>3. InStep'
    <3>1. \A x \in DOMAIN p : x \in DOMAIN pending /\ p[x] = pending[x]
      BY <1>3, <1>5
    <3> HIDE DEF p
    <3>2. CASE pending' = p
      BY <1>1, <1>5, <3>1, <3>2, SameRowCalls DEF SheetInv
    <3>3. CASE pending' # p
      <4>1. /\ ~dead
            /\ \E ask \in NewLooks, id \in Ids :
                 /\ id \notin DOMAIN pending \cup IdsIn(inbox)
                 /\ id \notin DOMAIN running \cup IdsIn(outbox)
                 /\ DOMAIN pending' = DOMAIN p \cup {id}
                 /\ pending'[id] = ask
                 /\ \A x \in DOMAIN p : x # id => pending'[x] = p[x]
                 /\ inbox' = Append(inbox, [id |-> id, ask |-> ask])
        BY <1>5, <3>3, SendIs
      <4>2. \A x \in DOMAIN pending' : IsRowCall(pending'[x]) =>
              x \in DOMAIN pending /\ pending'[x] = pending[x]
        BY <2>1, <3>1, <4>1
      <4> QED
        BY <1>1, <1>5, <4>2, SameRowCalls DEF SheetInv
    <3> QED
      BY <3>2, <3>3
  <2>4. JobSound'
    BY <1>1, <1>5 DEF SheetInv, JobSound
  <2>5. ResultSound' /\ PaidAfterBirth'
    BY <1>1, <1>5, QuietKeepsResult DEF SheetInv
  <2> QED
    BY <2>2, <2>3, <2>4, <2>5 DEF CInv, SheetInv
<1>6. CASE /\ ~Ignored(m.id) /\ IsRowCall(pending[m.id]) /\ UNCHANGED <<vars, created>>
           /\ IF m.kind = "result" THEN GroupGoesOn(m.value[1], p)
                                   ELSE JobFails /\ Send(p, {})
  <2>1. /\ job.stage = "make" /\ pending[m.id] = RowAsk(job.rows, job.row)
        /\ \A x \in DOMAIN p : ~IsRowCall(p[x])
    BY <1>1, <1>3, <1>6 DEF SheetInv, InStep, Ignored
  <2>2. /\ JobSound'
        /\ \/ job'.stage \in {"none", "seal"} /\ Send(p, {})
           \/ job'.stage = "make" /\ Send(p, {RowAsk(job'.rows, job'.row)})
        /\ job'.stage # "none" => job'.birthday = job.birthday
    <3>1. CASE m.kind = "result"
      <4>1. m.value[1] \in Values(RowAsk(job.rows, job.row))
        BY <1>3, <1>6, <2>1, <3>1 DEF Suits, IsRowCall
      <4>2. GroupGoesOn(m.value[1], p)
        BY <1>6, <3>1
      <4> QED
        BY <1>1, <2>1, <4>1, <4>2, GroupKeepsJob DEF SheetInv
    <3>2. CASE m.kind # "result"
      <4>1. job' = NoJob /\ Send(p, {})
        BY <1>6, <3>2 DEF JobFails
      <4> QED
        BY <4>1, NoJobIsSound
    <3> QED
      BY <3>1, <3>2
  <2>3. RpcInv' /\ CallStep
    <3>1. CASE job'.stage = "make" /\ Send(p, {RowAsk(job'.rows, job'.row)})
      <4>1. RowAsk(job'.rows, job'.row) \in Asks
        BY <2>2, RowAskIs DEF JobSound, Jobs
      <4> QED
        BY <1>3, <1>6, <3>1, <4>1
    <3>2. CASE Send(p, {})
      BY <1>3, <1>6, <3>2
    <3> QED
      BY <2>2, <3>1, <3>2
  <2>4. InStep'
    <3> HIDE DEF p
    <3> QED
      BY <2>1, <2>2, OneRowCall
  <2>5. ResultSound' /\ PaidAfterBirth'
    BY <1>1, <1>6, <2>1, <2>2, QuietKeepsResult DEF SheetInv, vars, watchVars
  <2> QED
    BY <2>2, <2>3, <2>4, <2>5 DEF CInv, SheetInv
<1>7. \/ Ignored(m.id) /\ UNCHANGED <<pending, inbox, vars, pageVars>>
      \/ /\ ~Ignored(m.id) /\ pending[m.id] = InitAsk
         /\ Send(p, {}) /\ UNCHANGED <<vars, job, created>>
      \/ /\ ~Ignored(m.id) /\ IsLook(pending[m.id]) /\ Send(p, NewLooks)
         /\ UNCHANGED <<chainVars, live, targets, birthday, job, created>>
      \/ /\ ~Ignored(m.id) /\ IsRowCall(pending[m.id]) /\ UNCHANGED <<vars, created>>
         /\ IF m.kind = "result" THEN GroupGoesOn(m.value[1], p)
                                 ELSE JobFails /\ Send(p, {})
  <2>1. CASE Ignored(m.id)
    BY <2>1 DEF Deliver
  <2>2. CASE ~Ignored(m.id) /\ pending[m.id] = InitAsk
    BY <2>2 DEF Deliver, IsLook, InitAsk
  <2>3. CASE ~Ignored(m.id) /\ IsLook(pending[m.id])
    <3>1. LookAnswers(LookOf(pending[m.id]), dead) \/ LookFails(LookOf(pending[m.id]), dead)
      BY <2>3 DEF Deliver, IsLook, InitAsk
    <3>2. Send(p, NewLooks) /\ UNCHANGED <<job, created>>
      BY <2>3 DEF Deliver, IsLook, InitAsk
    <3> QED
      BY <2>3, <3>1, <3>2 DEF LookAnswers, LookFails
  <2>4. CASE ~Ignored(m.id) /\ IsRowCall(pending[m.id])
    BY <2>4 DEF Deliver, IsRowCall
  <2> QED
    BY <2>1, <2>2, <2>3, <2>4 DEF IsRowCall
<1> QED
  BY <1>2, <1>4, <1>5, <1>6, <1>7

\* The worker is gone: the submit it served fails, and so does every look.
LEMMA WorkerDiesKeeps ==
  ASSUME CInv, WorkerDies
  PROVE  CInv' /\ CallStep
<1>1. RpcInv /\ SheetInv /\ Die /\ created' = created /\ (job' = NoJob \/ job' = job)
  BY DEF CInv, WorkerDies, JobFails
<1>2. UNCHANGED <<chainVars, live, targets, birthday>>
  BY DEF WorkerDies, AllLooksFail, vars, watchVars
<1>3. JobSound'
  <2>1. CASE job' = NoJob
    BY <2>1, NoJobIsSound
  <2>2. CASE job' = job
    BY <1>1, <2>2 DEF SheetInv, JobSound
  <2> QED
    BY <1>1, <2>1, <2>2
<1>4. InStep'
  BY <1>1 DEF Die, InStep
<1>5. ResultSound' /\ PaidAfterBirth'
  BY <1>1, <1>2, QuietKeepsResult DEF SheetInv, NoJob
<1> QED
  BY <1>1, <1>3, <1>4, <1>5, DieKeepsChannel DEF CInv, SheetInv

\* A round of looks begins.
LEMMA WatchTicksKeeps ==
  ASSUME CInv, TypeOK', WatchTicks
  PROVE  CInv' /\ CallStep
<1>1. /\ RpcInv /\ SheetInv /\ Send(pending, NewLooks)
      /\ UNCHANGED <<dead, running, outbox, job, created>>
      /\ UNCHANGED <<chainVars, live, targets, birthday>>
  BY DEF CInv, WatchTicks, Tick, pageVars
<1>2. NewLooks \subseteq Asks /\ \A ask \in NewLooks : ~IsRowCall(ask)
  BY NewLooksAreLooks
<1>3. RpcInv' /\ CallStep
  BY <1>1, <1>2, SendKeepsChannel, SendIsAsk
<1>4. InStep'
  <2>1. CASE pending' = pending
    BY <1>1, <2>1, SameRowCalls DEF SheetInv
  <2>2. CASE pending' # pending
    <3>1. /\ ~dead
          /\ \E ask \in NewLooks, id \in Ids :
               /\ id \notin DOMAIN pending \cup IdsIn(inbox)
               /\ id \notin DOMAIN running \cup IdsIn(outbox)
               /\ DOMAIN pending' = DOMAIN pending \cup {id}
               /\ pending'[id] = ask
               /\ \A x \in DOMAIN pending : x # id => pending'[x] = pending[x]
               /\ inbox' = Append(inbox, [id |-> id, ask |-> ask])
      BY <1>1, <2>2, SendIs
    <3>2. \A x \in DOMAIN pending' : IsRowCall(pending'[x]) =>
            x \in DOMAIN pending /\ pending'[x] = pending[x]
      BY <1>2, <3>1
    <3> QED
      BY <1>1, <3>2, SameRowCalls DEF SheetInv
  <2> QED
    BY <2>1, <2>2
<1>5. JobSound' /\ ResultSound' /\ PaidAfterBirth'
  BY <1>1, QuietKeepsResult DEF SheetInv, JobSound
<1> QED
  BY <1>3, <1>4, <1>5 DEF CInv, SheetInv

-----------------------------------------------------------------------------
(***************************************************************************)
(* The theorems.                                                           *)
(***************************************************************************)
\* The page has mounted.
LEMMA CreateInitHolds ==
  ASSUME CreateInit
  PROVE  IInv /\ CInv
<1>1. IInv
  BY InitHolds DEF CreateInit
<1>2. FirstId \in Ids
  BY IdsAssumption DEF FirstId
<1>3. InitAsk \in Asks /\ ~IsRowCall(InitAsk)
  BY DEF InitAsk, Asks, Methods, IsRowCall
<1> DEFINE m == [id |-> FirstId, ask |-> InitAsk]
<1>4. m \in Messages /\ m.id = FirstId /\ m.ask = InitAsk
  BY <1>2, <1>3 DEF Messages
<1>5. /\ inbox = <<m>> /\ outbox = << >> /\ running = << >> /\ dead = FALSE
      /\ pending = With(<< >>, FirstId, InitAsk)
      /\ created = NoResult /\ job = NoJob
  BY DEF CreateInit
<1> HIDE DEF m
<1>6. DOMAIN pending = {FirstId} /\ pending[FirstId] = InitAsk
  BY <1>5 DEF With
<1>7. /\ inbox \in Seq(Messages) /\ Len(inbox) = 1 /\ inbox[1] = m
      /\ outbox \in Seq(Answers) /\ Len(outbox) = 0 /\ DOMAIN running = {}
  BY <1>4, <1>5
<1>8. ChannelTyped
  BY <1>2, <1>3, <1>5, <1>6, <1>7 DEF ChannelTyped
<1>9. OnePlace
  <2>1. IdsIn(outbox) = {}
    BY <1>7 DEF IdsIn
  <2> QED
    BY <1>7, <2>1 DEF OnePlace, Distinct
<1>10. OfTheCall
  BY <1>4, <1>6, <1>7 DEF OfTheCall
<1>11. JobSound /\ created \in Created /\ RowsSound(created.rows) /\ created.rows = << >>
  <2>1. NoJob \in Jobs /\ NoJob.stage = "none" /\ NoJob.rows = << >> /\ NoJob.row = << >>
    BY EnvelopesAreSome, NothingIsSound DEF NoJob, Jobs, Stages, Birthdays
  <2>2. NoResult \in Created /\ NoResult.rows = << >>
    BY EnvelopesAreSome, NothingIsSound DEF NoResult, Created, Birthdays
  <2> QED
    BY <1>5, <2>1, <2>2, NothingIsSound DEF JobSound
<1>12. InStep
  BY <1>3, <1>6 DEF InStep
<1>13. ~live /\ mempool = {} /\ (\A e \in Envelopes : mined[e] = {}) /\ job.stage = "none"
  BY <1>5 DEF CreateInit, Init, NoJob
<1>14. ResultSound /\ PaidAfterBirth
  BY <1>11, <1>13 DEF ResultSound, PaidAfterBirth
<1> QED
  BY <1>1, <1>8, <1>9, <1>10, <1>11, <1>12, <1>14 DEF CInv, RpcInv, SheetInv

\* Every step of the page keeps the invariant, and is a step of the watch and of the calls.
LEMMA CreateStepHolds ==
  ASSUME IInv, CInv, [CreateNext]_allVars
  PROVE  [Next]_vars /\ CallStep /\ IInv' /\ CInv'
<1>1. CASE UNCHANGED allVars
  <2>1. UNCHANGED vars /\ UNCHANGED rpcVars /\ UNCHANGED pageVars
    BY <1>1 DEF allVars
  <2>2. IInv'
    BY <2>1, ControlHolds, DataHolds DEF IInv
  <2>3. RpcInv' /\ CallStep
    BY <2>1, LoadKeepsChannel DEF CInv, rpcVars
  <2>4. SheetInv'
    BY <2>1, WatchIsQuiet DEF CInv, rpcVars, pageVars, vars, watchVars
  <2> QED
    BY <2>1, <2>2, <2>3, <2>4 DEF CInv
<1>2. CASE CreateNext
  <2>1. [Next]_vars
    BY <1>2, StepIsWatchStep
  <2>2. IInv'
    BY <2>1, ControlHolds, DataHolds DEF IInv
  <2> SUFFICES CInv' /\ CallStep
    BY <2>1, <2>2
  <2>3. TypeOK /\ TypeOK'
    BY <2>2 DEF IInv, Control
  <2>4. RpcInv /\ SheetInv
    BY DEF CInv
  <2>5. UNCHANGED rpcVars => RpcInv' /\ CallStep
    BY <2>4, LoadKeepsChannel DEF rpcVars
  <2>6. ASSUME NEW valid \in BOOLEAN, NEW n \in Envelopes, Submit(valid, n)
        PROVE  CInv' /\ CallStep
    BY <2>4, <2>5, <2>6, SubmitKeeps DEF CInv, Submit
  <2>7. CASE CoreAwaited
    BY <2>4, <2>5, <2>7, CoreAwaitedKeeps DEF CInv, CoreAwaited
  <2>8. CASE HeightAwaited
    <3>1. Send(pending, {RowAsk(<< >>, << >>)}) /\ UNCHANGED <<dead, running, outbox>>
      BY <2>8 DEF HeightAwaited
    <3>2. RowAsk(<< >>, << >>) \in Asks
      BY NothingIsSound, RowAskIs
    <3>3. RpcInv' /\ CallStep
      BY <2>4, <3>1, <3>2, SendKeepsChannel, SendIsAsk
    <3> QED
      BY <2>4, <2>8, <3>3, HeightAwaitedKeeps DEF CInv
  <2>9. CASE ShowResult
    BY <2>4, <2>5, <2>9, ShowResultKeeps DEF CInv, ShowResult
  <2>10. CASE TickSaved \/ SaveContinue \/ PayBack \/ SkipToShare
    <3>1. UNCHANGED <<rpcVars, vars, job, created>>
      BY <2>10 DEF TickSaved, SaveContinue, PayBack, SkipToShare
    <3> QED
      BY <2>4, <2>5, <3>1, WatchIsQuiet DEF CInv, rpcVars, vars, watchVars
  <2>11. CASE Reset
    BY <2>4, <2>5, <2>11, ResetKeeps DEF CInv, Reset
  <2>12. CASE \/ WorkerTakes \/ WorkerLoads \/ WorkerServes \/ WorkerThrows \/ WorkerInits
              \/ WorkerLookFails
              \/ \E id \in Ids, lag \in 0 .. MaxLag : WorkerLooks(id, lag)
    BY <2>3, <2>12, WorkerKeeps
  <2>13. CASE Deliver
    BY <2>3, <2>13, DeliverKeeps
  <2>14. CASE WorkerDies
    BY <2>14, WorkerDiesKeeps
  <2>15. CASE WatchTicks
    BY <2>3, <2>15, WatchTicksKeeps
  <2>16. CASE Around
    <3>1. CASE Chain
      BY <2>3, <2>4, <2>5, <2>16, <3>1, ChainKeeps DEF CInv, Around
    <3>2. CASE Tab
      <4>1. UNCHANGED <<chainVars, live, targets, birthday>>
        BY <3>2 DEF Tab, Show, Restart
      <4> QED
        BY <2>4, <2>5, <2>16, <4>1, WatchIsQuiet DEF CInv, Around, rpcVars, pageVars
    <3> QED
      BY <2>16, <3>1, <3>2 DEF Around
  <2> QED
    BY <1>2, <2>6, <2>7, <2>8, <2>9, <2>10, <2>11, <2>12, <2>13, <2>14, <2>15, <2>16
       DEF CreateNext
<1> QED
  BY <1>1, <1>2

\* The invariant holds throughout.
THEOREM CreateSideInvariant ==
  CreateSpec => [](IInv /\ CInv)
<1>1. CreateInit => IInv /\ CInv
  BY CreateInitHolds
<1>2. (IInv /\ CInv) /\ [CreateNext]_allVars => (IInv /\ CInv)'
  BY CreateStepHolds
<1> QED
  BY <1>1, <1>2, PTL DEF CreateSpec

\* The watch of the page is PaymentWatch: what PaymentWatchProofs shows of every watch
\* (one driver, nothing skipped, final links that cover) holds of the page's.
THEOREM CreatePageWatches == CreateSpec => ImplementsWatch
<1>1. CreateInit => Init
  BY DEF CreateInit
<1>2. (IInv /\ CInv) /\ [CreateNext]_allVars => [Next]_vars
  BY CreateStepHolds
<1> QED
  BY <1>1, <1>2, CreateSideInvariant, PTL DEF CreateSpec, ImplementsWatch, Spec

\* Under the create page the channel keeps the promise of CoreCalls: no answer reaches
\* another call than the one it answers, however late it comes, and a worker that dies
\* leaves no call waiting.
THEOREM CreateCallsAnswered == CreateSpec => ImplementsCalls
<1>1. CreateInit => Calls!Init
  <2> SUFFICES ASSUME CreateInit PROVE Calls!Init
    OBVIOUS
  <2>1. /\ outbox = << >> /\ dead = FALSE /\ FirstId \in Ids
        /\ pending = With(<< >>, FirstId, InitAsk)
    BY IdsAssumption DEF CreateInit, FirstId
  <2>2. DOMAIN pending = {FirstId} /\ ReplyIn(outbox, FirstId) = NoAnswer
    BY <2>1 DEF With, ReplyIn, IdsIn
  <2>3. DOMAIN Underway = {FirstId} /\ Underway[FirstId].reply = NoAnswer
    BY <2>2, UnderwayIs
  <2> QED
    BY <2>1, <2>3 DEF Calls!Init
<1>2. (IInv /\ CInv) /\ [CreateNext]_allVars => [Calls!Next]_(Calls!vars)
  BY CreateStepHolds DEF CallStep
<1> QED
  BY <1>1, <1>2, CreateSideInvariant, PTL DEF CreateSpec, ImplementsCalls, Calls!Spec

\* The invariant says that each row is one envelope.
LEMMA LinksOpen ==
  ASSUME IInv, CInv
  PROVE  LinksOpenTheirRows
<1>1. /\ created \in Created /\ RowsSound(created.rows)
      /\ live => birthday = created.birthday /\ targets = 1 .. Len(created.rows)
      /\ rolled = 0 /\ live => \A e \in Envelopes : \A h \in mined[e] : birthday <= h
  BY DEF CInv, SheetInv, ResultSound, PaidAfterBirth
<1>2. /\ TypeOK /\ FinalLinkCovers
  BY DEF IInv, Control, Data
<1>3. created.rows \in Sheets /\ DOMAIN created.rows = 1 .. Len(created.rows)
  BY <1>1 DEF Created, Sheets
<1> SUFFICES ASSUME NEW e \in 1 .. Len(created.rows)
             PROVE  /\ created.rows[e][2] = created.rows[e][1]
                    /\ created.rows[e][4] = created.rows[e][1]
                    /\ \A i \in DOMAIN created.rows :
                         i # e => created.rows[i][1] # created.rows[e][1]
                    /\ \A link \in LinksShown(e) :
                         /\ link.secret = created.rows[e][1]
                         /\ live /\ rolled = 0 /\ paid[e] # None => link.start <= paid[e]
  BY <1>3 DEF LinksOpenTheirRows
<1>4. /\ created.rows[e][2] = created.rows[e][1] /\ created.rows[e][3] = created.rows[e][1]
      /\ created.rows[e][4] = created.rows[e][1]
  BY <1>1 DEF RowsSound, Whole
<1>5. \A i \in DOMAIN created.rows : i # e => created.rows[i][1] # created.rows[e][1]
  BY <1>1, <1>3 DEF RowsSound
<1>6. live /\ rolled = 0 /\ paid[e] # None => created.birthday <= paid[e] /\ paid[e] <= paid[e]
  <2> SUFFICES ASSUME live, rolled = 0, paid[e] # None
               PROVE  created.birthday <= paid[e] /\ paid[e] <= paid[e]
    OBVIOUS
  <2>1. e \in targets /\ e \in Envelopes
    BY <1>1, <1>2 DEF TypeOK
  <2>2. paid[e] \in mined[e]
    BY <1>2, <2>1 DEF FinalLinkCovers
  <2>3. paid[e] \in Nat
    BY <1>2, <2>1, <2>2, EnvelopesAreSome DEF TypeOK
  <2> QED
    BY <1>1, <2>1, <2>2, <2>3
<1>7. ASSUME NEW link \in LinksShown(e)
      PROVE  /\ link.secret = created.rows[e][1]
             /\ live /\ rolled = 0 /\ paid[e] # None => link.start <= paid[e]
  <2> DEFINE first == [secret |-> created.rows[e][3], start |-> created.birthday]
  <2>1. link = first \/ link = FinalLink(first, paid[e])
    BY <1>7 DEF LinksShown
  <2>2. CASE link = first
    BY <1>4, <1>6, <2>2
  <2>3. CASE link = FinalLink(first, paid[e])
    <3>1. link.secret = created.rows[e][3] /\ link.start = paid[e]
      BY <2>3 DEF FinalLink
    <3> QED
      BY <1>4, <1>6, <3>1
  <2> QED
    BY <2>1, <2>2, <2>3
<1> QED
  BY <1>4, <1>5, <1>7

\* Each row the page hands out is one envelope, nobody else's: its address, its link and
\* its request are of one secret that no other row has, and no link starts above a payment
\* seen on a chain that kept its blocks.
THEOREM CreatedLinksOpen == CreateSpec => []LinksOpenTheirRows
<1>1. IInv /\ CInv => LinksOpenTheirRows
  BY LinksOpen
<1> QED
  BY <1>1, CreateSideInvariant, PTL
=============================================================================
