------------------------ MODULE IngestPipelineProofs ------------------------
(***************************************************************************)
(* For any number of clients, any depth of the channel, with failing       *)
(* writes, a panicking writer task and a shutdown at any time: the channel *)
(* keeps its bound, accepted batches are handled in order, each once, and  *)
(* a batch is stored no more often than its client was answered 200 or had *)
(* gone before the answer.                                                 *)
(***************************************************************************)
EXTENDS IngestPipeline, FiniteSetTheorems, SequenceTheorems, TLAPS

Inv == TypeOK /\ HandledInOrder

(* A batch that is accepted goes to the end of what is still to come.      *)
LEMMA AppendAtEnd ==
  \A h, i, q \in Seq(Batch) : \A b \in Batch :
    Append((h \o i) \o q, b) = (h \o i) \o Append(q, b)
<1>. SUFFICES ASSUME NEW h \in Seq(Batch), NEW i \in Seq(Batch), NEW q \in Seq(Batch), NEW b \in Batch
              PROVE  Append((h \o i) \o q, b) = (h \o i) \o Append(q, b)
  BY Zenon
<1>1. h \o i \in Seq(Batch) /\ (h \o i) \o q \in Seq(Batch) /\ <<b>> \in Seq(Batch)
  OBVIOUS
<1>2. /\ Append((h \o i) \o q, b) = ((h \o i) \o q) \o <<b>>
      /\ Append(q, b) = q \o <<b>>
  BY <1>1, AppendIsConcat
<1>3. ((h \o i) \o q) \o <<b>> = (h \o i) \o (q \o <<b>>)
  BY <1>1, ConcatAssociative, SMTT(30)
<1>. QED BY <1>2, <1>3, Zenon

(* The writer task takes the head of the channel into its empty hand ...   *)
LEMMA TakeHead ==
  ASSUME NEW h \in Seq(Batch), NEW q \in Seq(Batch), q # <<>>
  PROVE  (h \o <<>>) \o q = (h \o <<Head(q)>>) \o Tail(q)
OBVIOUS

(* ... and puts it behind what it has handled.                             *)
LEMMA PutAway ==
  ASSUME NEW h \in Seq(Batch), NEW i \in Seq(Batch), NEW q \in Seq(Batch)
  PROVE  (h \o i) \o q = ((h \o i) \o <<>>) \o q
OBVIOUS

LEMMA InitInv == Init => Inv
BY IngestAssumption DEF Init, Inv, TypeOK, HandledInOrder

(* The steps of clients and handlers that do not touch the channel.        *)
LEMMA OutsideInv ==
  ASSUME Inv, NEW b \in Batch, Send(b) \/ Reject(b) \/ SubmitFull(b) \/ Answer(b) \/ NoAnswer(b)
  PROVE  Inv'
<1>1. UNCHANGED <<queue, hand, open, alive, phase, accepted, handled, stored>>
  BY DEF Send, Reject, SubmitFull, Answer, NoAnswer
<1>2. client' \in [Batch -> {"ready", "waiting", "done"}]
  BY Zenon DEF Inv, TypeOK, Send, Reject, SubmitFull, Answer, NoAnswer
<1>3. request' \in [Batch -> {"none", "sent", "200", "400", "429"}]
  BY Zenon DEF Inv, TypeOK, Send, Reject, SubmitFull, Answer, NoAnswer
<1>4. sends' \in [Batch -> 0..MaxSend]
  <2>1. CASE Send(b)
    <3>1. sends[b] + 1 \in 0..MaxSend
      BY <2>1, IngestAssumption DEF Inv, TypeOK, Send
    <3>. QED BY <2>1, <3>1 DEF Inv, TypeOK, Send
  <2>2. CASE ~Send(b)
    BY <2>2 DEF Inv, TypeOK, Reject, SubmitFull, Answer, NoAnswer
  <2>. QED BY <2>1, <2>2
<1>5. unheard' \in [Batch -> Nat]
  BY DEF Inv, TypeOK, Send, Reject, SubmitFull, Answer, NoAnswer
<1>6. TypeOK'
  BY <1>1, <1>2, <1>3, <1>4, <1>5 DEF Inv, TypeOK
<1>. QED BY <1>1, <1>6 DEF Inv, HandledInOrder

LEMMA SubmitOkInv ==
  ASSUME Inv, NEW b \in Batch, SubmitOk(b)
  PROVE  Inv'
<1>1. TypeOK'
  BY IngestAssumption DEF Inv, TypeOK, SubmitOk, HasRoom, Status
<1>2. accepted = (handled \o hand) \o queue
  BY DEF Inv, HandledInOrder, SubmitOk
<1>3. accepted' = (handled' \o hand') \o queue'
  <2>1. /\ accepted' = Append(accepted, b) /\ queue' = Append(queue, b)
        /\ handled' = handled /\ hand' = hand
    BY DEF SubmitOk
  <2>2. handled \in Seq(Batch) /\ hand \in Seq(Batch) /\ queue \in Seq(Batch)
    BY DEF Inv, TypeOK
  <2>3. Append((handled \o hand) \o queue, b) = (handled \o hand) \o Append(queue, b)
    BY <2>2, AppendAtEnd, ZenonT(60)
  <2>. QED BY <1>2, <2>1, <2>3
<1>. QED BY <1>1, <1>3 DEF Inv, HandledInOrder

LEMMA ReceiveInv ==
  ASSUME Inv, Receive
  PROVE  Inv'
<1>1. queue \in Seq(Batch) /\ queue # <<>> /\ Len(queue) <= Depth
  BY DEF Inv, TypeOK, Receive, CanReceive
<1>2. /\ Head(queue) \in Batch /\ Tail(queue) \in Seq(Batch)
      /\ Len(Tail(queue)) <= Depth
  BY <1>1, IngestAssumption
<1>3. (phase = "serving") \in BOOLEAN
  OBVIOUS
<1>4. TypeOK'
  BY <1>2, <1>3 DEF Inv, TypeOK, Receive
<1>5. accepted = (handled \o hand) \o queue
  BY DEF Inv, HandledInOrder, Receive
<1>6. accepted' = (handled' \o hand') \o queue'
  BY <1>1, <1>5, TakeHead, Zenon DEF Inv, TypeOK, Receive
<1>. QED BY <1>4, <1>6 DEF Inv, HandledInOrder

LEMMA WriteInv ==
  ASSUME Inv, WriteOk \/ WriteErr
  PROVE  Inv'
<1>1. /\ handled' = handled \o hand /\ hand' = <<>>
      /\ UNCHANGED <<queue, alive, accepted, open>>
      /\ UNCHANGED <<client, request, sends, phase, unheard>>
  BY DEF WriteOk, WriteErr
<1>2. stored' \in Seq(Batch) /\ handled' \in Seq(Batch)
  <2>1. handled \in Seq(Batch) /\ hand \in Seq(Batch) /\ stored \in Seq(Batch)
    BY DEF Inv, TypeOK
  <2>2. handled \o hand \in Seq(Batch) /\ stored \o hand \in Seq(Batch)
    BY <2>1
  <2>. QED BY <2>1, <2>2, Zenon DEF WriteOk, WriteErr
<1>3. TypeOK'
  BY <1>1, <1>2 DEF Inv, TypeOK
<1>4. alive => accepted' = (handled' \o hand') \o queue'
  BY <1>1, PutAway DEF Inv, TypeOK, HandledInOrder
<1>. QED BY <1>1, <1>3, <1>4 DEF Inv, HandledInOrder

LEMMA NextInv == Inv /\ [Next]_vars => Inv'
<1>. SUFFICES ASSUME Inv, [Next]_vars PROVE Inv'
  OBVIOUS
<1>1. CASE WriterPanics
  <2>1. TypeOK'
    <3>1. /\ <<>> \in Seq(Batch) /\ Len(<<>>) <= Depth /\ Len(<<>>) <= 1
          /\ FALSE \in BOOLEAN
      BY IngestAssumption
    <3>. QED BY <1>1, <3>1, Zenon DEF Inv, TypeOK, WriterPanics
  <2>. QED BY <1>1, <2>1 DEF Inv, HandledInOrder, WriterPanics
<1>2. CASE Shutdown \/ Exit
  <2>1. phase' \in {"serving", "closing", "exited"}
    BY <1>2 DEF Shutdown, Exit
  <2>2. UNCHANGED <<client, request, sends, queue, hand, open, alive, accepted, handled, stored, unheard>>
    BY <1>2 DEF Shutdown, Exit
  <2>. QED BY <2>1, <2>2, Zenon DEF Inv, TypeOK, HandledInOrder
<1>3. CASE UNCHANGED vars
  BY <1>3 DEF Inv, TypeOK, HandledInOrder, vars
<1>. QED BY <1>1, <1>2, <1>3, OutsideInv, SubmitOkInv, ReceiveInv, WriteInv DEF Next

(* Both parts hold in every reachable state.                               *)
THEOREM InvAlways == Spec => []Inv
BY InitInv, NextInv, PTL DEF Spec

(* The channel never holds more than buffer_depth batches (processor.rs:22 *)
(* and 31-46).                                                             *)
THEOREM TypeCorrect == Spec => []TypeOK
<1>1. Inv => TypeOK
  BY DEF Inv
<1>. QED BY <1>1, InvAlways, PTL

(* The single writer task handles accepted batches in the order of their   *)
(* acceptance, skips none and repeats none (processor.rs:51-79).           *)
THEOREM FirstInFirstOut == Spec => []HandledInOrder
<1>1. Inv => HandledInOrder
  BY DEF Inv
<1>. QED BY <1>1, InvAlways, PTL
-----------------------------------------------------------------------------
(* One stored batch for each answer of status 200.  The order of the       *)
(* channel says what is stored while the writer task lives; the counts     *)
(* keep it after a panic, when the channel is gone.                        *)
Counted ==
  /\ ~alive => hand = <<>>
  /\ \A b \in Batch : /\ Times(stored, b) <= Times(handled, b)
                      /\ Times(handled, b) <= Times(accepted, b)

(* What a client and its request can be at the same time.                  *)
Answers ==
  \A b \in Batch :
    /\ request[b] # "none" => client[b] = "waiting"
    /\ request[b] = "200" => b \notin Malformed
    /\ request[b] = "400" => b \in Malformed
    /\ Times(accepted, b) = unheard[b] + (IF \/ request[b] = "200"
                                             \/ client[b] = "done" /\ b \notin Malformed
                                          THEN 1 ELSE 0)

AnswerInv == Inv /\ Counted /\ Answers

(* Where an element is in a sequence, and how often.                       *)
Places(s, x) == {i \in 1..Len(s) : s[i] = x}

\* They are finitely many.
LEMMA PlacesFinite ==
  ASSUME NEW S, NEW s \in Seq(S), NEW x
  PROVE  IsFiniteSet(Places(s, x)) /\ Cardinality(Places(s, x)) \in Nat
<1>1. Places(s, x) \in SUBSET (1..Len(s))
  BY DEF Places
<1>2. IsFiniteSet(1..Len(s))
  BY FS_Interval
<1>3. IsFiniteSet(Places(s, x))
  BY <1>1, <1>2, FS_Subset
<1> QED BY <1>3, FS_CardinalityType

\* The empty sequence has none.
LEMMA PlacesEmpty == \A x : Places(<<>>, x) = {} /\ Cardinality(Places(<<>>, x)) = 0
<1>1. \A x : Places(<<>>, x) = {}
  BY DEF Places
<1> QED BY <1>1, FS_EmptySet

\* An element appended is one more.
LEMMA PlacesAppend ==
  ASSUME NEW S, NEW s \in Seq(S), NEW y \in S, NEW x
  PROVE  Cardinality(Places(Append(s, y), x)) =
           IF x = y THEN Cardinality(Places(s, x)) + 1 ELSE Cardinality(Places(s, x))
<1> DEFINE n == Len(s)
           t == Append(s, y)
<1>1. n \in Nat /\ Len(t) = n + 1 /\ t[n + 1] = y /\ \A i \in 1..n : t[i] = s[i]
  OBVIOUS
<1>2. IsFiniteSet(Places(s, x)) /\ n + 1 \notin Places(s, x)
  <2>1. n + 1 \notin 1..n
    BY <1>1
  <2> QED BY <2>1, PlacesFinite, Zenon DEF Places
<1> HIDE DEF n, t
<1>3. CASE x = y
  <2>1. Places(t, x) = Places(s, x) \cup {n + 1}
    BY <1>1, <1>3 DEF Places, n
  <2> QED BY <1>2, <1>3, <2>1, FS_AddElement DEF t
<1>4. CASE x # y
  <2>1. Places(t, x) = Places(s, x)
    BY <1>1, <1>4 DEF Places, n
  <2> QED BY <1>4, <2>1 DEF t
<1> QED BY <1>3, <1>4

\* A prefix has no more of them than the whole.
LEMMA PlacesPrefix ==
  ASSUME NEW S, NEW p \in Seq(S), NEW q \in Seq(S), NEW x
  PROVE  Cardinality(Places(p, x)) <= Cardinality(Places(p \o q, x))
<1>1. /\ p \o q \in Seq(S) /\ Len(p \o q) = Len(p) + Len(q) /\ Len(p) \in Nat /\ Len(q) \in Nat
      /\ \A i \in 1..Len(p) : (p \o q)[i] = p[i]
  BY ConcatProperties
<1>2. Places(p, x) \in SUBSET Places(p \o q, x)
  BY <1>1 DEF Places
<1>3. IsFiniteSet(Places(p \o q, x))
  BY <1>1, PlacesFinite, Zenon
<1> QED BY <1>2, <1>3, FS_Subset

(* Times counts the places of a batch.                                     *)
LEMMA TimesPlaces == \A s, b : Times(s, b) = Cardinality(Places(s, b))
BY DEF Times, Places

(* A batch more at the end counts once, for itself only.                   *)
LEMMA TimesAppend ==
  ASSUME NEW s \in Seq(Batch), NEW x \in Batch, NEW b \in Batch
  PROVE  /\ Times(s, b) \in Nat
         /\ Times(Append(s, x), b) = IF b = x THEN Times(s, b) + 1 ELSE Times(s, b)
BY TimesPlaces, PlacesFinite, PlacesAppend

(* A prefix holds a batch no more often.                                   *)
LEMMA TimesPrefix ==
  ASSUME NEW p \in Seq(Batch), NEW q \in Seq(Batch), NEW b \in Batch
  PROVE  Times(p, b) <= Times(p \o q, b)
BY TimesPlaces, PlacesPrefix

LEMMA AnswerInit == Init => AnswerInv
<1> SUFFICES ASSUME Init PROVE AnswerInv
  OBVIOUS
<1>1. \A b \in Batch : Times(<<>>, b) = 0
  BY TimesPlaces, PlacesEmpty
<1>2. Counted
  BY <1>1 DEF Init, Counted
<1>3. Answers
  BY <1>1 DEF Init, Answers
<1> QED BY <1>2, <1>3, InitInv DEF AnswerInv

(* The steps of a client and its handler that leave the channel alone.     *)
LEMMA OutsideAnswers ==
  ASSUME AnswerInv, NEW b \in Batch, Send(b) \/ Reject(b) \/ SubmitFull(b) \/ Answer(b) \/ NoAnswer(b)
  PROVE  Counted' /\ Answers'
<1>1. UNCHANGED <<queue, hand, alive, accepted, handled, stored>>
  BY DEF Send, Reject, SubmitFull, Answer, NoAnswer
<1>2. \A c \in Batch : Times(accepted', c) = Times(accepted, c)
  BY <1>1
<1>3. Counted'
  BY <1>1, Zenon DEF AnswerInv, Counted, Times
<1>4. /\ client \in [Batch -> {"ready", "waiting", "done"}]
      /\ request \in [Batch -> {"none", "sent", "200", "400", "429"}]
      /\ unheard \in [Batch -> Nat]
  BY DEF AnswerInv, Inv, TypeOK
<1>5. ASSUME NEW c \in Batch, c # b
      PROVE  request'[c] = request[c] /\ client'[c] = client[c] /\ unheard'[c] = unheard[c]
  BY <1>4, <1>5 DEF Send, Reject, SubmitFull, Answer, NoAnswer
<1>6. /\ request'[b] # "none" => client'[b] = "waiting"
      /\ request'[b] = "200" => b \notin Malformed
      /\ request'[b] = "400" => b \in Malformed
  BY <1>4 DEF AnswerInv, Answers, Send, Reject, SubmitFull, Answer, NoAnswer
<1> DEFINE Owed(r, c) == IF r = "200" \/ (c = "done" /\ b \notin Malformed) THEN 1 ELSE 0
<1>7. unheard'[b] + Owed(request'[b], client'[b]) = unheard[b] + Owed(request[b], client[b])
  <2>1. CASE Send(b)
    BY <1>4, <2>1 DEF AnswerInv, Answers, Send
  <2>2. CASE Reject(b) \/ SubmitFull(b)
    BY <1>4, <2>2 DEF AnswerInv, Answers, Reject, SubmitFull
  <2>3. CASE Answer(b)
    BY <1>4, <2>3 DEF AnswerInv, Answers, Answer
  <2>4. CASE NoAnswer(b)
    <3>1. /\ client[b] = "waiting" /\ client'[b] = "ready" /\ request'[b] = "none"
          /\ unheard'[b] = IF request[b] = "200" THEN unheard[b] + 1 ELSE unheard[b]
          /\ unheard[b] \in Nat
      BY <1>4, <2>4 DEF NoAnswer
    <3> QED BY <3>1
  <2> QED BY <2>1, <2>2, <2>3, <2>4
<1>8. Times(accepted, b) = unheard[b] + Owed(request[b], client[b])
  BY DEF AnswerInv, Answers
<1>9. Answers'
  <2> SUFFICES ASSUME NEW c \in Batch
               PROVE  /\ request'[c] # "none" => client'[c] = "waiting"
                      /\ request'[c] = "200" => c \notin Malformed
                      /\ request'[c] = "400" => c \in Malformed
                      /\ Times(accepted', c) =
                           unheard'[c] + (IF \/ request'[c] = "200"
                                             \/ client'[c] = "done" /\ c \notin Malformed
                                          THEN 1 ELSE 0)
    BY DEF Answers, Times
  <2>1. CASE c = b
    BY <1>2, <1>6, <1>7, <1>8, <2>1
  <2>2. CASE c # b
    BY <1>2, <1>5, <2>2 DEF AnswerInv, Answers
  <2> QED BY <2>1, <2>2
<1> QED BY <1>3, <1>9

(* A batch that enters the channel owes its client an answer of status 200.*)
LEMMA SubmitAnswers ==
  ASSUME AnswerInv, NEW b \in Batch, SubmitOk(b)
  PROVE  Counted' /\ Answers'
<1>1. /\ accepted' = Append(accepted, b) /\ accepted \in Seq(Batch)
      /\ UNCHANGED <<hand, alive, handled, stored, client, unheard>>
  BY DEF AnswerInv, Inv, TypeOK, SubmitOk
<1>2. \A c \in Batch : /\ Times(accepted, c) \in Nat
                       /\ Times(accepted', c) = IF c = b THEN Times(accepted, c) + 1 ELSE Times(accepted, c)
  BY <1>1, TimesAppend
<1>3. \A c \in Batch : Times(stored', c) = Times(stored, c) /\ Times(handled', c) = Times(handled, c)
  BY <1>1
<1>4. \A c \in Batch : Times(handled, c) \in Nat
  BY TimesAppend DEF AnswerInv, Inv, TypeOK
<1>5. Counted'
  <2> SUFFICES ASSUME NEW c \in Batch
               PROVE  Times(stored', c) <= Times(handled', c) /\ Times(handled', c) <= Times(accepted', c)
    BY <1>1, Zenon DEF AnswerInv, Counted, Times
  <2>1. Times(stored, c) <= Times(handled, c) /\ Times(handled, c) <= Times(accepted, c)
    BY DEF AnswerInv, Counted
  <2> QED BY <1>2, <1>3, <1>4, <2>1
<1>6. /\ request \in [Batch -> {"none", "sent", "200", "400", "429"}]
      /\ unheard \in [Batch -> Nat]
  BY DEF AnswerInv, Inv, TypeOK
<1>7. /\ request[b] = "sent" /\ b \notin Malformed
      /\ request' = [request EXCEPT ![b] = "200"]
  BY DEF SubmitOk, Status
<1>8. Answers'
  <2> SUFFICES ASSUME NEW c \in Batch
               PROVE  /\ request'[c] # "none" => client'[c] = "waiting"
                      /\ request'[c] = "200" => c \notin Malformed
                      /\ request'[c] = "400" => c \in Malformed
                      /\ Times(accepted', c) =
                           unheard'[c] + (IF \/ request'[c] = "200"
                                             \/ client'[c] = "done" /\ c \notin Malformed
                                          THEN 1 ELSE 0)
    BY DEF Answers, Times
  <2>1. CASE c = b
    <3>1. client[b] = "waiting" /\ Times(accepted, b) = unheard[b] /\ unheard[b] \in Nat
      BY <1>6, <1>7 DEF AnswerInv, Answers
    <3>2. request'[b] = "200" /\ client'[b] = "waiting" /\ unheard'[b] = unheard[b]
      BY <1>1, <1>6, <1>7, <3>1
    <3>3. Times(accepted', b) = unheard'[b] + 1
      BY <1>2, <3>1, <3>2
    <3> QED BY <1>7, <2>1, <3>2, <3>3
  <2>2. CASE c # b
    BY <1>1, <1>2, <1>6, <1>7, <2>2 DEF AnswerInv, Answers
  <2> QED BY <2>1, <2>2
<1> QED BY <1>5, <1>8

(* The writer task stores what it had in hand, or drops it.                *)
LEMMA WriteAnswers ==
  ASSUME AnswerInv, WriteOk \/ WriteErr
  PROVE  Counted' /\ Answers'
<1>1. /\ hand \in Seq(Batch) /\ handled \in Seq(Batch) /\ stored \in Seq(Batch)
      /\ queue \in Seq(Batch) /\ accepted \in Seq(Batch)
      /\ hand # <<>> /\ Len(hand) <= 1
  BY DEF AnswerInv, Inv, TypeOK, WriteOk, WriteErr
<1>2. PICK h \in Batch : hand = <<h>>
  <2>1. Len(hand) \in Nat /\ Len(hand) # 0
    BY <1>1, EmptySeq
  <2>2. \A n \in Nat : n # 0 /\ n <= 1 => n = 1
    OBVIOUS
  <2>3. Len(hand) = 1
    BY <1>1, <2>1, <2>2, Zenon
  <2>4. hand[1] \in Batch
    BY <1>1, <2>3, ElementOfSeq
  <2>5. hand = <<hand[1]>>
    BY <1>1, <2>3
  <2> QED BY <2>4, <2>5
<1>3. /\ handled' = Append(handled, h) /\ hand' = <<>>
      /\ stored' = Append(stored, h) \/ stored' = stored
      /\ UNCHANGED <<queue, alive, accepted, client, request, unheard>>
  <2>1. handled \o <<h>> = Append(handled, h) /\ stored \o <<h>> = Append(stored, h)
    BY <1>1
  <2> QED BY <1>2, <2>1 DEF WriteOk, WriteErr
<1>4. ASSUME NEW b \in Batch PROVE Times(stored', b) <= Times(handled', b)
  <2>1. /\ Times(stored, b) \in Nat /\ Times(handled, b) \in Nat
        /\ Times(Append(stored, h), b) = IF b = h THEN Times(stored, b) + 1 ELSE Times(stored, b)
        /\ Times(Append(handled, h), b) = IF b = h THEN Times(handled, b) + 1 ELSE Times(handled, b)
    BY <1>1, TimesAppend, Zenon
  <2>2. Times(stored, b) <= Times(handled, b)
    BY DEF AnswerInv, Counted
  <2>3. CASE stored' = stored
    BY <1>3, <2>1, <2>2, <2>3
  <2>4. CASE stored' = Append(stored, h)
    BY <1>3, <2>1, <2>2, <2>4
  <2> QED BY <1>3, <2>3, <2>4
<1>5. ASSUME NEW b \in Batch PROVE Times(handled', b) <= Times(accepted', b)
  <2>1. alive
    BY <1>1 DEF AnswerInv, Counted
  <2>2. accepted = (handled \o <<h>>) \o queue
    BY <1>2, <2>1 DEF AnswerInv, Inv, HandledInOrder
  <2>3. handled \o <<h>> = Append(handled, h) /\ Append(handled, h) \in Seq(Batch)
    BY <1>1
  <2> QED BY <1>1, <1>3, <2>2, <2>3, TimesPrefix, Zenon
<1>6. Counted'
  BY <1>3, <1>4, <1>5 DEF Counted, Times
<1>7. Answers'
  BY <1>3 DEF AnswerInv, Answers, Times
<1> QED BY <1>6, <1>7

LEMMA AnswerNext == AnswerInv /\ [Next]_vars => AnswerInv'
<1> SUFFICES ASSUME AnswerInv, [Next]_vars PROVE AnswerInv'
  OBVIOUS
<1>1. Inv'
  BY NextInv DEF AnswerInv
<1>2. CASE Receive \/ WriterPanics \/ Shutdown \/ Exit \/ UNCHANGED vars
  <2>1. UNCHANGED <<client, request, accepted, handled, stored, unheard>>
    BY <1>2 DEF Receive, WriterPanics, Shutdown, Exit, vars
  <2>2. ~alive' => hand' = <<>>
    BY <1>2 DEF AnswerInv, Counted, Receive, WriterPanics, Shutdown, Exit, vars
  <2> QED BY <1>1, <2>1, <2>2, Zenon DEF AnswerInv, Counted, Answers, Times
<1> QED BY <1>1, <1>2, OutsideAnswers, SubmitAnswers, WriteAnswers DEF Next, AnswerInv

(* A batch is stored no more often than its client was told 200 or missed  *)
(* being told: 400 and 429 leave nothing behind, and neither an error nor  *)
(* a panic makes the writer task store twice (processor.rs:31-79,          *)
(* otlp_grpc.rs and otlp_http.rs).                                         *)
THEOREM StoredOncePerAnswer == Spec => []OncePerAnswer
<1>1. Spec => []AnswerInv
  BY AnswerInit, AnswerNext, PTL DEF Spec
<1>2. AnswerInv => OncePerAnswer
  <2> SUFFICES ASSUME AnswerInv, NEW b \in Batch
               PROVE  /\ Times(stored, b) <= Times(accepted, b)
                      /\ Times(accepted, b) = unheard[b] + (IF \/ request[b] = "200"
                                                               \/ client[b] = "done" /\ b \notin Malformed
                                                            THEN 1 ELSE 0)
    BY DEF OncePerAnswer
  <2>1. Times(stored, b) \in Nat /\ Times(handled, b) \in Nat /\ Times(accepted, b) \in Nat
    BY TimesAppend DEF AnswerInv, Inv, TypeOK
  <2>2. Times(stored, b) <= Times(handled, b) /\ Times(handled, b) <= Times(accepted, b)
    BY DEF AnswerInv, Counted
  <2> QED BY <2>1, <2>2 DEF AnswerInv, Answers
<1> QED BY <1>1, <1>2, PTL
=============================================================================
