-------------------------- MODULE ReplicationProofs --------------------------
(***************************************************************************)
(* For any number of nodes, writers, calls, dying loops and changes of the *)
(* view, and any bound of the queues: a replica has one send loop, an entry*)
(* is in one place for each replica of its call, and a loop takes entries  *)
(* in the order of the calls.  The theorems are about the engine alone;    *)
(* EngineWithin of DataPlaneProofs carries them over to the data plane.    *)
(***************************************************************************)
EXTENDS Replication, TLAPS

-----------------------------------------------------------------------------
(* Replication: the loop that receives is the one whose sender is in the   *)
(* map.                                                                    *)

AnyChan == [queue : Seq(Nat), open : BOOLEAN]
AnyCall == [seq : Nat, todo : SUBSET Replica, held : SUBSET (Replica \X Nat)]

LoopType ==
  /\ chans \in [Replica -> Seq(AnyChan)]
  /\ senders \in [Replica -> Nat]
  /\ call \in [Writer -> AnyCall]
  /\ misremoved \in BOOLEAN
  /\ issued \in Seq([to : SUBSET Replica, after : SUBSET Nat])
  /\ finished \subseteq Nat

\* A sender that a call holds is of a channel that was created.
HeldKnown ==
  \A w \in Writer : \A n \in Replica, g \in Nat : <<n, g>> \in call[w].held => g \in DOMAIN chans[n]

SendersKnown == \A n \in Replica : senders[n] # 0 => senders[n] \in DOMAIN chans[n]

LoopInv == LoopType /\ HeldKnown /\ SendersKnown /\ OneLoop

\* The channels stay, and no closed one opens.
SameChannels ==
  /\ chans' \in [Replica -> Seq(AnyChan)]
  /\ \A n \in Replica : DOMAIN chans'[n] = DOMAIN chans[n]
  /\ \A n \in Replica : \A g \in DOMAIN chans[n] : chans'[n][g].open => chans[n][g].open

\* A channel that is replaced by one that is open only if it was.
LEMMA ChannelChanged ==
  ASSUME LoopType, NEW n \in Replica, NEW g \in DOMAIN chans[n], NEW c \in AnyChan,
         c.open => chans[n][g].open, chans' = [chans EXCEPT ![n] = [@ EXCEPT ![g] = c]]
  PROVE  SameChannels
<1>1. chans[n] \in Seq(AnyChan)
  BY DEF LoopType
<1>2. [chans[n] EXCEPT ![g] = c] \in Seq(AnyChan) /\ DOMAIN [chans[n] EXCEPT ![g] = c] = DOMAIN chans[n]
  BY <1>1
<1>3. chans'[n] = [chans[n] EXCEPT ![g] = c] /\ \A m \in Replica \ {n} : chans'[m] = chans[m]
  BY DEF LoopType
<1>4. chans' \in [Replica -> Seq(AnyChan)]
  BY <1>2 DEF LoopType
<1>5. \A m \in Replica : DOMAIN chans'[m] = DOMAIN chans[m]
  BY <1>2, <1>3
<1>6. \A m \in Replica : \A h \in DOMAIN chans[m] : chans'[m][h].open => chans[m][h].open
  <2> TAKE m \in Replica
  <2> TAKE h \in DOMAIN chans[m]
  <2>1. CASE m = n /\ h = g
    BY <1>1, <1>3, <2>1
  <2>2. CASE m = n /\ h # g
    BY <1>1, <1>3, <2>2
  <2>3. CASE m # n
    BY <1>3, <2>3
  <2> QED BY <2>1, <2>2, <2>3
<1> QED BY <1>4, <1>5, <1>6 DEF SameChannels

\* A step that leaves the map alone, and opens no channel.
LEMMA LoopSteady ==
  ASSUME LoopInv, SameChannels, UNCHANGED <<senders, misremoved>>, call' \in [Writer -> AnyCall],
         issued' \in Seq([to : SUBSET Replica, after : SUBSET Nat]), finished' \subseteq Nat,
         \A w \in Writer : call'[w].held \subseteq call[w].held
  PROVE  LoopInv'
<1>1. LoopType'
  BY DEF LoopInv, LoopType, SameChannels
<1>2. HeldKnown'
  BY DEF LoopInv, HeldKnown, SameChannels
<1>3. SendersKnown' /\ OneLoop'
  BY DEF LoopInv, SendersKnown, OneLoop, SameChannels
<1> QED BY <1>1, <1>2, <1>3 DEF LoopInv

LEMMA UnchangedChannels == ASSUME LoopType, UNCHANGED chans PROVE SameChannels
BY DEF LoopType, SameChannels

\* A call that holds no more senders than before; the channels and the map stay.
LEMMA CallOnly ==
  ASSUME LoopInv, NEW w \in Writer, NEW c \in AnyCall, c.held \subseteq call[w].held,
         call' = [call EXCEPT ![w] = c], UNCHANGED <<chans, senders, misremoved>>,
         issued' \in Seq([to : SUBSET Replica, after : SUBSET Nat]), finished' \subseteq Nat
  PROVE  LoopInv'
<1>1. call' \in [Writer -> AnyCall] /\ \A v \in Writer : call'[v].held \subseteq call[v].held
  BY DEF LoopInv, LoopType
<1>2. SameChannels
  BY UnchangedChannels DEF LoopInv
<1> QED BY <1>1, <1>2, LoopSteady

LEMMA BeginKeeps ==
  ASSUME LoopInv, NEW w \in Writer, NEW R \in SUBSET Replica, Begin(w, R) PROVE LoopInv'
<1> DEFINE c == [seq |-> Len(issued) + 1, todo |-> R, held |-> {}]
<1>1. Len(issued) \in Nat
  BY DEF LoopInv, LoopType
<1>2. c \in AnyCall /\ c.held = {}
  BY <1>1 DEF AnyCall
<1>3. /\ call' = [call EXCEPT ![w] = c]
      /\ issued' = Append(issued, [to |-> R, after |-> finished])
      /\ UNCHANGED <<finished, chans, senders, misremoved>>
  BY DEF Begin
<1> HIDE DEF c
<1>4. issued' \in Seq([to : SUBSET Replica, after : SUBSET Nat]) /\ finished' \subseteq Nat
  BY <1>3 DEF LoopInv, LoopType
<1> QED BY <1>2, <1>3, <1>4, CallOnly, Zenon

LEMMA SkipKeeps ==
  ASSUME LoopInv, NEW w \in Writer, NEW n \in Replica, Skip(w, n) PROVE LoopInv'
<1> DEFINE c == [call[w] EXCEPT !.todo = @ \ {n}]
<1>1. call[w] \in AnyCall
  BY DEF LoopInv, LoopType
<1>2. c \in AnyCall /\ c.held = call[w].held
  BY <1>1 DEF AnyCall
<1>3. call' = [call EXCEPT ![w] = c] /\ UNCHANGED <<issued, finished, chans, senders, misremoved>>
  BY DEF Skip
<1> HIDE DEF c
<1> QED BY <1>2, <1>3, CallOnly, Zenon DEF LoopInv, LoopType

LEMMA CallReturnKeeps ==
  ASSUME LoopInv, NEW w \in Writer, Return(w) PROVE LoopInv'
<1>1. Idle \in AnyCall /\ Idle.held = {}
  BY DEF Idle, AnyCall
<1>2. call[w] \in AnyCall /\ call[w].seq \in Nat
  BY DEF LoopInv, LoopType, AnyCall
<1>3. /\ call' = [call EXCEPT ![w] = Idle]
      /\ finished' = finished \cup {call[w].seq}
      /\ UNCHANGED <<issued, chans, senders, misremoved>>
  BY DEF Return
<1>4. finished' \subseteq Nat
  BY <1>2, <1>3, Zenon DEF LoopInv, LoopType
<1> QED BY <1>1, <1>3, <1>4, CallOnly, Zenon DEF LoopInv, LoopType

\* A sender is taken from the map, or a channel is created when there is none:
\* then no loop receives, and the new one is the only one.
LEMMA TakeKeeps ==
  ASSUME LoopInv, NEW w \in Writer, NEW n \in Replica, Take(w, n) PROVE LoopInv'
<1> DEFINE g == IF senders[n] # 0 THEN senders[n] ELSE Len(chans[n]) + 1
           c == [call[w] EXCEPT !.held = {<<n, g>>}]
<1>1. /\ chans[n] \in Seq(AnyChan) /\ Len(chans[n]) \in Nat /\ senders[n] \in Nat
      /\ chans \in [Replica -> Seq(AnyChan)] /\ senders \in [Replica -> Nat] /\ call \in [Writer -> AnyCall]
  BY DEF LoopInv, LoopType
<1>2. g \in Nat /\ call[w] \in AnyCall
  BY <1>1
<1>3. call' = [call EXCEPT ![w] = c] /\ UNCHANGED <<issued, finished, misremoved>>
  BY DEF Take, get_or_create_sender
<1>4. /\ senders[n] # 0 => UNCHANGED <<senders, chans>>
      /\ senders[n] = 0 => /\ chans' = [chans EXCEPT ![n] = Append(@, [queue |-> <<>>, open |-> TRUE])]
                           /\ senders' = [senders EXCEPT ![n] = g]
  BY DEF Take, get_or_create_sender
<1>5. g \in DOMAIN chans'[n]
  BY <1>1, <1>4 DEF LoopInv, SendersKnown
<1>6. senders[n] = 0 => g = Len(chans[n]) + 1
  OBVIOUS
<1> HIDE DEF g
<1>7. c \in AnyCall /\ c.held = {<<n, g>>}
  BY <1>2 DEF AnyCall
<1> HIDE DEF c
<1>8. call' \in [Writer -> AnyCall] /\ call'[w].held = {<<n, g>>} /\ \A v \in Writer \ {w} : call'[v] = call[v]
  BY <1>1, <1>3, <1>7
<1>9. CASE senders[n] # 0
  <2>1. LoopType' /\ SendersKnown' /\ OneLoop'
    BY <1>3, <1>4, <1>8, <1>9 DEF LoopInv, LoopType, SendersKnown, OneLoop
  <2>2. HeldKnown'
    BY <1>4, <1>5, <1>8, <1>9 DEF LoopInv, HeldKnown
  <2> QED BY <2>1, <2>2 DEF LoopInv
<1>10. CASE senders[n] = 0
  <2> DEFINE k == [queue |-> <<>>, open |-> TRUE]
  <2>1. k \in AnyChan /\ k.open
    BY DEF AnyChan
  <2>2. chans' = [chans EXCEPT ![n] = Append(chans[n], k)]
    BY <1>4, <1>10
  <2> HIDE DEF k
  <2>3. /\ Append(chans[n], k) \in Seq(AnyChan)
        /\ DOMAIN Append(chans[n], k) = 1..g
        /\ DOMAIN chans[n] = 1..Len(chans[n])
        /\ \A h \in DOMAIN chans[n] : Append(chans[n], k)[h] = chans[n][h]
    BY <1>1, <1>6, <1>10, <2>1
  <2>4. chans' \in [Replica -> Seq(AnyChan)] /\ chans'[n] = Append(chans[n], k) /\ \A m \in Replica \ {n} : chans'[m] = chans[m]
    BY <1>1, <2>2, <2>3
  <2>5. senders' \in [Replica -> Nat] /\ senders'[n] = g /\ \A m \in Replica \ {n} : senders'[m] = senders[m]
    BY <1>1, <1>2, <1>4, <1>10, Zenon
  <2>6. LoopType'
    BY <1>3, <1>8, <2>4, <2>5 DEF LoopInv, LoopType
  <2>7. \A m \in Replica : DOMAIN chans[m] \subseteq DOMAIN chans'[m]
    <3>1. 1..Len(chans[n]) \subseteq 1..g
      BY <1>1, <1>6, <1>10
    <3>2. DOMAIN chans[n] \subseteq DOMAIN chans'[n]
      BY <2>3, <2>4, <3>1
    <3> QED BY <2>4, <3>2
  <2>8. HeldKnown'
    BY <1>5, <1>8, <2>7 DEF LoopInv, HeldKnown
  <2>9. SendersKnown'
    BY <1>5, <2>5, <2>7 DEF LoopInv, SendersKnown
  <2>10. OneLoop'
    <3> SUFFICES ASSUME ~misremoved, NEW m \in Replica, NEW h \in DOMAIN chans'[m], chans'[m][h].open
                 PROVE  senders'[m] = h
      BY <1>3 DEF OneLoop
    <3>1. CASE m # n
      BY <2>4, <2>5, <3>1, Zenon DEF LoopInv, OneLoop
    <3>2. CASE m = n /\ h \in DOMAIN chans[n]
      <4>1. senders[n] = h
        BY <2>3, <2>4, <3>2 DEF LoopInv, OneLoop
      <4> QED BY <1>1, <1>10, <3>2, <4>1
    <3>3. CASE m = n /\ h \notin DOMAIN chans[n]
      BY <1>1, <1>6, <1>10, <2>3, <2>4, <2>5, <3>3, SMTT(30)
    <3> QED BY <3>1, <3>2, <3>3
  <2> QED BY <2>6, <2>8, <2>9, <2>10 DEF LoopInv
<1> QED BY <1>9, <1>10

\* try_send: a closed channel takes whatever sender the map has with it, which is
\* its own unless the call is marked.
LEMMA TrySendKeeps ==
  ASSUME LoopInv, NEW w \in Writer, TrySend(w) PROVE LoopInv'
<1>1. PICK tx \in call[w].held :
        /\ Queued(w, tx[1], tx[2]) \/ Full(w, tx[1], tx[2]) \/ Closed(w, tx[1], tx[2])
        /\ call' = [call EXCEPT ![w].todo = @ \ {tx[1]}, ![w].held = {}]
        /\ UNCHANGED <<view, issued, finished, sent, deaths>>
  BY Zenon DEF TrySend
<1> DEFINE n == tx[1]
           g == tx[2]
           c == [call[w] EXCEPT !.todo = @ \ {n}, !.held = {}]
<1>2. call \in [Writer -> AnyCall] /\ call[w] \in AnyCall /\ call[w].seq \in Nat
  BY DEF LoopInv, LoopType, AnyCall
<1>3. n \in Replica /\ g \in Nat /\ tx = <<n, g>>
  BY <1>2 DEF AnyCall
<1>4. g \in DOMAIN chans[n]
  BY <1>3 DEF LoopInv, HeldKnown
<1>5. c \in AnyCall /\ c.held = {}
  BY <1>2, Zenon DEF AnyCall
<1>6. call' = [call EXCEPT ![w] = c]
  BY <1>1, <1>2, Zenon
<1> HIDE DEF c
<1>7. call' \in [Writer -> AnyCall] /\ \A v \in Writer : call'[v].held \subseteq call[v].held
  BY <1>2, <1>5, <1>6
<1>8. /\ issued' \in Seq([to : SUBSET Replica, after : SUBSET Nat])
      /\ finished' \subseteq Nat
  BY <1>1 DEF LoopInv, LoopType
<1> HIDE DEF n, g
<1>9. chans[n] \in Seq(AnyChan) /\ chans[n][g] \in AnyChan
  BY <1>3, <1>4 DEF LoopInv, LoopType
<1>10. CASE Queued(w, n, g)
  <2> DEFINE k == [chans[n][g] EXCEPT !.queue = Append(@, call[w].seq)]
  <2>a. chans[n][g].queue \in Seq(Nat) /\ Append(chans[n][g].queue, call[w].seq) \in Seq(Nat)
    BY <1>2, <1>9 DEF AnyChan
  <2>b. k = [chans[n][g] EXCEPT !.queue = Append(chans[n][g].queue, call[w].seq)]
    OBVIOUS
  <2>1. k \in AnyChan /\ k.open = chans[n][g].open
    BY <1>9, <2>a, <2>b, Zenon DEF AnyChan
  <2>2. chans' = [chans EXCEPT ![n] = [@ EXCEPT ![g] = k]] /\ UNCHANGED <<senders, misremoved>>
    BY <1>10 DEF Queued
  <2> HIDE DEF k
  <2>3. SameChannels
    BY <1>3, <1>4, <2>1, <2>2, ChannelChanged, Zenon DEF LoopInv
  <2> QED BY <1>7, <1>8, <2>2, <2>3, LoopSteady
<1>11. CASE Full(w, n, g)
  BY <1>7, <1>8, <1>11, UnchangedChannels, LoopSteady DEF Full, LoopInv
<1>12. CASE Closed(w, n, g)
  <2>1. /\ ~chans[n][g].open
        /\ senders' = [senders EXCEPT ![n] = 0]
        /\ misremoved' = (misremoved \/ senders[n] \notin {0, g})
        /\ chans' = chans
    BY <1>12 DEF Closed
  <2>2. senders' \in [Replica -> Nat] /\ senders'[n] = 0 /\ \A m \in Replica \ {n} : senders'[m] = senders[m]
    BY <1>3, <2>1 DEF LoopInv, LoopType
  <2>3. misremoved' \in BOOLEAN
    BY <2>1 DEF LoopInv, LoopType
  <2>4. LoopType'
    BY <1>7, <1>8, <2>1, <2>2, <2>3 DEF LoopInv, LoopType
  <2>5. HeldKnown' /\ SendersKnown'
    BY <1>7, <2>1, <2>2 DEF LoopInv, HeldKnown, SendersKnown
  <2>6. OneLoop'
    <3> SUFFICES ASSUME ~misremoved', NEW m \in Replica, NEW h \in DOMAIN chans[m], chans[m][h].open
                 PROVE  senders'[m] = h
      BY <2>1 DEF OneLoop
    <3>1. ~misremoved /\ senders[n] \in {0, g}
      BY <2>1, Zenon
    <3>2. senders[m] = h
      BY <3>1 DEF LoopInv, OneLoop
    <3>3. h # 0
      BY DEF LoopInv, LoopType
    <3>4. m # n
      BY <2>1, <3>1, <3>2, <3>3
    <3> QED BY <2>2, <3>2, <3>4
  <2> QED BY <2>4, <2>5, <2>6 DEF LoopInv
<1> QED BY <1>1, <1>10, <1>11, <1>12 DEF n, g

\* A loop takes an entry, or ends.
LEMMA ReceiveKeeps ==
  ASSUME LoopInv, NEW n \in Replica, NEW g \in DOMAIN chans[n],
         replica_send_loop(n, g) \/ LoopExits(n, g) \/ LoopDies(n, g)
  PROVE  LoopInv'
<1>1. chans[n][g] \in AnyChan /\ chans[n][g].queue \in Seq(Nat)
  <2>1. chans[n] \in Seq(AnyChan)
    BY DEF LoopInv, LoopType
  <2>2. chans[n][g] \in AnyChan
    BY <2>1
  <2> QED BY <2>2 DEF AnyChan
<1>2. UNCHANGED <<senders, misremoved, call, issued, finished>>
  BY DEF replica_send_loop, LoopExits, LoopDies
<1>3. SameChannels
  <2>1. CASE replica_send_loop(n, g)
    <3> DEFINE k == [chans[n][g] EXCEPT !.queue = Tail(chans[n][g].queue)]
    <3>1. Tail(chans[n][g].queue) \in Seq(Nat)
      BY <1>1, <2>1 DEF replica_send_loop
    <3>2. k \in AnyChan /\ k.open = chans[n][g].open
      BY <1>1, <3>1, Zenon DEF AnyChan
    <3>3. chans' = [chans EXCEPT ![n] = [@ EXCEPT ![g] = k]]
      BY <2>1 DEF replica_send_loop
    <3> HIDE DEF k
    <3> QED BY <3>2, <3>3, ChannelChanged, Zenon DEF LoopInv
  <2>2. CASE LoopExits(n, g)
    <3> DEFINE k == [chans[n][g] EXCEPT !.open = FALSE]
    <3>1. k \in AnyChan /\ ~k.open
      BY <1>1, Zenon DEF AnyChan
    <3>2. chans' = [chans EXCEPT ![n] = [@ EXCEPT ![g] = k]]
      BY <2>2 DEF LoopExits
    <3> HIDE DEF k
    <3> QED BY <3>1, <3>2, ChannelChanged, Zenon DEF LoopInv
  <2>3. CASE LoopDies(n, g)
    <3> DEFINE k == [queue |-> <<>>, open |-> FALSE]
    <3>1. k \in AnyChan /\ ~k.open
      BY DEF AnyChan
    <3>2. chans' = [chans EXCEPT ![n] = [@ EXCEPT ![g] = k]]
      BY <2>3 DEF LoopDies
    <3> HIDE DEF k
    <3> QED BY <3>1, <3>2, ChannelChanged, Zenon DEF LoopInv
  <2> QED BY <2>1, <2>2, <2>3
<1> QED BY <1>2, <1>3, LoopSteady DEF LoopInv, LoopType

LEMMA LoopInit == ReplInit => LoopInv
<1> SUFFICES ASSUME ReplInit PROVE LoopInv
  OBVIOUS
<1>1. Idle \in AnyCall /\ Idle.held = {}
  BY DEF Idle, AnyCall
<1>a. chans \in [Replica -> Seq(AnyChan)] /\ senders \in [Replica -> Nat]
  BY DEF ReplInit
<1>b. call \in [Writer -> AnyCall]
  BY <1>1 DEF ReplInit
<1>c. issued \in Seq([to : SUBSET Replica, after : SUBSET Nat]) /\ finished \subseteq Nat
  BY DEF ReplInit
<1>d. misremoved \in BOOLEAN
  BY Zenon DEF ReplInit
<1>2. LoopType
  BY <1>a, <1>b, <1>c, <1>d DEF LoopType
<1>3. HeldKnown /\ SendersKnown /\ OneLoop
  BY <1>1 DEF ReplInit, HeldKnown, SendersKnown, OneLoop
<1> QED BY <1>2, <1>3 DEF LoopInv

LEMMA LoopNext == LoopInv /\ [EngineNext]_replVars => LoopInv'
<1> SUFFICES ASSUME LoopInv, [EngineNext]_replVars PROVE LoopInv'
  OBVIOUS
<1>1. CASE UNCHANGED <<issued, finished, call, senders, chans, misremoved>>
  BY <1>1 DEF LoopInv, LoopType, HeldKnown, SendersKnown, OneLoop
<1>2. CASE ReplNext
  <2>1. ASSUME NEW n \in Replica, ViewChanges(n) PROVE LoopInv'
    BY <1>1, <2>1 DEF ViewChanges
  <2>2. ASSUME NEW w \in Writer, CallStep(w) PROVE LoopInv'
    BY <2>2, TrySendKeeps, CallReturnKeeps, SkipKeeps, TakeKeeps DEF CallStep
  <2>3. ASSUME NEW n \in Replica, LoopStep(n) \/ \E g \in DOMAIN chans[n] : LoopDies(n, g) PROVE LoopInv'
    BY <2>3, ReceiveKeeps DEF LoopStep
  <2> QED BY <1>2, <2>1, <2>2, <2>3, BeginKeeps DEF ReplNext
<1>3. ASSUME NEW n \in Node, ViewChanges(n) PROVE LoopInv'
  BY <1>1, <1>3 DEF ViewChanges
<1>4. UNCHANGED replVars => LoopInv'
  BY <1>1 DEF replVars
<1> QED BY <1>2, <1>3, <1>4 DEF EngineNext

\* A replica has one send loop at a time, the one whose sender is in the map,
\* however calls of replicate overlap, loops end, and members come and go; except
\* after the Closed arm of a late call removed a sender that was not the closed
\* one (replication.rs:81-105, 114-134).
THEOREM OneLoopPerReplica == ReplSpec => []OneLoop
<1>1. ReplInit => LoopInv
  BY LoopInit
<1>2. LoopInv => OneLoop
  BY DEF LoopInv
<1> QED BY <1>1, <1>2, LoopNext, PTL DEF ReplSpec

-----------------------------------------------------------------------------
(* Replication: an entry is in one place for each replica, and entries are *)
(* taken in the order of their calls.                                      *)

QueueOf(n, g) == chans[n][g].queue

\* An entry waits in a channel of the replica, was taken by a loop, or is lost.
Waits(n, s) == \E g \in DOMAIN chans[n] : \E i \in DOMAIN QueueOf(n, g) : QueueOf(n, g)[i] = s
Took(n, s) == \E i \in DOMAIN sent[n] : sent[n][i] = s
Placed(n, s) == Waits(n, s) \/ Took(n, s) \/ s \in lost[n]

PlaceType == sent \in [Replica -> Seq(Nat)] /\ lost \in [Replica -> SUBSET Nat]

\* A call has a number of its own, is not finished, and holds senders of the
\* replicas it has still to do.
CallsKnown ==
  \A w \in Writer :
    /\ call[w].seq = 0 => call[w].todo = {}
    /\ call[w].seq # 0 => /\ call[w].seq \in DOMAIN issued
                          /\ call[w].seq \notin finished
                          /\ call[w].todo \subseteq issued[call[w].seq].to
    /\ \A n \in Replica, g \in Nat : <<n, g>> \in call[w].held => n \in call[w].todo
    /\ \A v \in Writer : call[v].seq = call[w].seq /\ call[w].seq # 0 => v = w

FinishedKnown ==
  /\ finished \subseteq DOMAIN issued
  /\ \A s \in DOMAIN issued : issued[s].after \subseteq finished

\* An entry has a place for a replica of its call when the call is done with it.
HasPlace ==
  \A n \in Replica, s \in Nat :
    /\ Placed(n, s) => s \in DOMAIN issued /\ n \in issued[s].to
    /\ \A w \in Writer : call[w].seq = s /\ s # 0 /\ n \in issued[s].to
                         => (n \in call[w].todo <=> ~Placed(n, s))
    /\ s \in finished /\ n \in issued[s].to => Placed(n, s)

\* No entry is in two places.
WaitsOnce(n) ==
  \A g, h \in DOMAIN chans[n] : \A i \in DOMAIN QueueOf(n, g), j \in DOMAIN QueueOf(n, h) :
    QueueOf(n, g)[i] = QueueOf(n, h)[j] => g = h /\ i = j
TookOnce(n) == \A i, j \in DOMAIN sent[n] : sent[n][i] = sent[n][j] => i = j
Apart(n) ==
  \A s \in Nat : ~(Waits(n, s) /\ Took(n, s)) /\ (s \in lost[n] => ~Waits(n, s) /\ ~Took(n, s))

\* A channel keeps its bound, and one whose loop ended is empty.
Bounded(n) ==
  \A g \in DOMAIN chans[n] :
    /\ Len(QueueOf(n, g)) <= BUFFER_PER_REPLICA
    /\ ~chans[n][g].open => QueueOf(n, g) = <<>>

\* What the loops took, what waits behind it, and what waits in a channel respect
\* the order of calls.
TookOrder(n) == \A i, j \in DOMAIN sent[n] : i < j => sent[n][j] \notin issued[sent[n][i]].after
NextOrder(n) ==
  \A g \in DOMAIN chans[n] : \A i \in DOMAIN sent[n], j \in DOMAIN QueueOf(n, g) :
    QueueOf(n, g)[j] \notin issued[sent[n][i]].after
WaitOrder(n) ==
  \A g \in DOMAIN chans[n] : \A i, j \in DOMAIN QueueOf(n, g) :
    i < j => QueueOf(n, g)[j] \notin issued[QueueOf(n, g)[i]].after
InOrder(n) == ~misremoved => TookOrder(n) /\ NextOrder(n) /\ WaitOrder(n)

PlaceAt(n) == WaitsOnce(n) /\ TookOnce(n) /\ Apart(n) /\ Bounded(n) /\ InOrder(n)

PlaceInv == PlaceType /\ CallsKnown /\ FinishedKnown /\ HasPlace /\ \A n \in Replica : PlaceAt(n)

\* What waits is a number, in a channel that exists.
LEMMA QueueTyped ==
  ASSUME LoopType, NEW n \in Replica, NEW g \in DOMAIN chans[n]
  PROVE  /\ chans[n] \in Seq(AnyChan) /\ chans[n][g] \in AnyChan
         /\ QueueOf(n, g) \in Seq(Nat) /\ DOMAIN QueueOf(n, g) = 1..Len(QueueOf(n, g))
         /\ Len(QueueOf(n, g)) \in Nat /\ g \in Nat
         /\ \A i \in DOMAIN QueueOf(n, g) : QueueOf(n, g)[i] \in Nat /\ Waits(n, QueueOf(n, g)[i])
<1>1. chans[n] \in Seq(AnyChan) /\ chans[n][g] \in AnyChan /\ g \in Nat
  BY DEF LoopType
<1>2. QueueOf(n, g) \in Seq(Nat)
  BY <1>1 DEF AnyChan, QueueOf
<1>3. \A i \in DOMAIN QueueOf(n, g) : Waits(n, QueueOf(n, g)[i])
  BY DEF Waits
<1>4. /\ DOMAIN QueueOf(n, g) = 1..Len(QueueOf(n, g)) /\ Len(QueueOf(n, g)) \in Nat
      /\ \A i \in DOMAIN QueueOf(n, g) : QueueOf(n, g)[i] \in Nat
  BY <1>2
<1> QED BY <1>1, <1>2, <1>3, <1>4

\* What was taken is a number.
LEMMA SentTyped ==
  ASSUME PlaceType, NEW n \in Replica
  PROVE  /\ sent[n] \in Seq(Nat) /\ DOMAIN sent[n] = 1..Len(sent[n]) /\ Len(sent[n]) \in Nat
         /\ \A i \in DOMAIN sent[n] : sent[n][i] \in Nat /\ Took(n, sent[n][i])
BY DEF PlaceType, Took

\* What has a place was issued.
LEMMA PlacedIssued ==
  ASSUME LoopInv, PlaceInv, NEW n \in Replica
  PROVE  /\ \A i \in DOMAIN sent[n] : sent[n][i] \in DOMAIN issued
         /\ \A h \in DOMAIN chans[n] : \A i \in DOMAIN QueueOf(n, h) : QueueOf(n, h)[i] \in DOMAIN issued
<1>1. \A s \in Nat : Waits(n, s) \/ Took(n, s) => s \in DOMAIN issued
  BY DEF PlaceInv, HasPlace, Placed
<1>2. \A i \in DOMAIN sent[n] : sent[n][i] \in DOMAIN issued
  BY <1>1, SentTyped DEF PlaceInv
<1>3. \A h \in DOMAIN chans[n] : \A i \in DOMAIN QueueOf(n, h) : QueueOf(n, h)[i] \in DOMAIN issued
  BY <1>1, QueueTyped DEF LoopInv
<1> QED BY <1>2, <1>3

\* One channel of one replica is replaced; the others stay.
BecomesOnly(n, g, c) ==
  /\ \A m \in Replica \ {n} : chans'[m] = chans[m]
  /\ DOMAIN chans'[n] = DOMAIN chans[n]
  /\ chans'[n][g] = c
  /\ \A h \in DOMAIN chans[n] : h # g => chans'[n][h] = chans[n][h]

LEMMA ChannelPut ==
  ASSUME LoopType, NEW n \in Replica, NEW g \in DOMAIN chans[n], NEW c \in AnyChan,
         chans' = [chans EXCEPT ![n] = [@ EXCEPT ![g] = c]]
  PROVE  BecomesOnly(n, g, c)
<1>1. chans[n] \in Seq(AnyChan)
  BY DEF LoopType
<1>2. chans'[n] = [chans[n] EXCEPT ![g] = c] /\ \A m \in Replica \ {n} : chans'[m] = chans[m]
  BY DEF LoopType
<1>3. DOMAIN [chans[n] EXCEPT ![g] = c] = DOMAIN chans[n]
  BY <1>1
<1>4. chans'[n][g] = c /\ \A h \in DOMAIN chans[n] : h # g => chans'[n][h] = chans[n][h]
  BY <1>1, <1>2
<1> QED BY <1>2, <1>3, <1>4 DEF BecomesOnly

\* Calls that were issued stay as they are.
IssuedKept == \A t \in DOMAIN issued : issued'[t] = issued[t]

\* Entries of a channel are where they were, or d[h] places further to the front.
Shifted(n, d) ==
  \A h \in DOMAIN chans'[n] : \A i \in DOMAIN QueueOf(n, h)' :
    /\ h \in DOMAIN chans[n] /\ i \in Nat /\ d[h] \in Nat
    /\ i + d[h] \in DOMAIN QueueOf(n, h)
    /\ QueueOf(n, h)'[i] = QueueOf(n, h)[i + d[h]]

LEMMA ShiftedWaits ==
  ASSUME NEW n \in Replica, NEW d, Shifted(n, d), WaitsOnce(n)
  PROVE  WaitsOnce(n)' /\ \A s : Waits(n, s)' => Waits(n, s)
<1>1. ASSUME NEW g \in DOMAIN chans'[n], NEW h \in DOMAIN chans'[n],
             NEW i \in DOMAIN QueueOf(n, g)', NEW j \in DOMAIN QueueOf(n, h)',
             QueueOf(n, g)'[i] = QueueOf(n, h)'[j]
      PROVE  g = h /\ i = j
  <2>1. /\ g \in DOMAIN chans[n] /\ i \in Nat /\ d[g] \in Nat /\ i + d[g] \in DOMAIN QueueOf(n, g)
        /\ h \in DOMAIN chans[n] /\ j \in Nat /\ d[h] \in Nat /\ j + d[h] \in DOMAIN QueueOf(n, h)
        /\ QueueOf(n, g)[i + d[g]] = QueueOf(n, h)[j + d[h]]
    BY <1>1 DEF Shifted
  <2>2. g = h /\ i + d[g] = j + d[h]
    BY <2>1, Zenon DEF WaitsOnce
  <2> QED BY <2>1, <2>2
<1>2. WaitsOnce(n)'
  BY <1>1 DEF WaitsOnce
<1>3. \A s : Waits(n, s)' => Waits(n, s)
  BY DEF Waits, Shifted
<1> QED BY <1>2, <1>3

LEMMA ShiftedOrder ==
  ASSUME LoopInv, PlaceInv, NEW n \in Replica, NEW d, Shifted(n, d), IssuedKept, WaitOrder(n)
  PROVE  WaitOrder(n)'
<1> SUFFICES ASSUME NEW g \in DOMAIN chans'[n], NEW i \in DOMAIN QueueOf(n, g)', NEW j \in DOMAIN QueueOf(n, g)', i < j
             PROVE  QueueOf(n, g)'[j] \notin issued'[QueueOf(n, g)'[i]].after
  BY DEF WaitOrder
<1>1. /\ g \in DOMAIN chans[n] /\ i \in Nat /\ j \in Nat /\ d[g] \in Nat
      /\ i + d[g] \in DOMAIN QueueOf(n, g) /\ j + d[g] \in DOMAIN QueueOf(n, g)
      /\ QueueOf(n, g)'[i] = QueueOf(n, g)[i + d[g]] /\ QueueOf(n, g)'[j] = QueueOf(n, g)[j + d[g]]
  BY DEF Shifted
<1>2. i + d[g] < j + d[g]
  BY <1>1
<1>3. QueueOf(n, g)[j + d[g]] \notin issued[QueueOf(n, g)[i + d[g]]].after
  BY <1>1, <1>2, Zenon DEF WaitOrder
<1>4. issued'[QueueOf(n, g)[i + d[g]]] = issued[QueueOf(n, g)[i + d[g]]]
  BY <1>1, PlacedIssued, Zenon DEF IssuedKept
<1> QED BY <1>1, <1>3, <1>4

\* The loops of the replica took nothing.
LEMMA SentOrder ==
  ASSUME LoopInv, PlaceInv, NEW n \in Replica, NEW d, Shifted(n, d), IssuedKept, sent'[n] = sent[n],
         TookOrder(n), NextOrder(n)
  PROVE  TookOrder(n)' /\ NextOrder(n)'
<1>1. \A i \in DOMAIN sent[n] : issued'[sent[n][i]] = issued[sent[n][i]]
  BY PlacedIssued DEF IssuedKept
<1>2. TookOrder(n)'
  BY <1>1 DEF TookOrder
<1>3. ASSUME NEW g \in DOMAIN chans'[n], NEW i \in DOMAIN sent[n], NEW j \in DOMAIN QueueOf(n, g)'
      PROVE  QueueOf(n, g)'[j] \notin issued[sent[n][i]].after
  <2>1. /\ g \in DOMAIN chans[n] /\ j + d[g] \in DOMAIN QueueOf(n, g)
        /\ QueueOf(n, g)'[j] = QueueOf(n, g)[j + d[g]]
    BY DEF Shifted
  <2> QED BY <2>1 DEF NextOrder
<1>4. NextOrder(n)'
  BY <1>1, <1>3 DEF NextOrder
<1> QED BY <1>2, <1>4

LEMMA ShiftedPlace ==
  ASSUME LoopInv, PlaceInv, NEW n \in Replica, NEW d, Shifted(n, d), IssuedKept, sent'[n] = sent[n],
         misremoved => misremoved', Apart(n)', Bounded(n)'
  PROVE  PlaceAt(n)'
<1>1. WaitsOnce(n) /\ TookOnce(n) /\ InOrder(n)
  BY DEF PlaceInv, PlaceAt
<1>2. WaitsOnce(n)' /\ TookOnce(n)'
  BY <1>1, ShiftedWaits DEF TookOnce
<1>3. ~misremoved' => TookOrder(n)' /\ NextOrder(n)' /\ WaitOrder(n)'
  BY <1>1, ShiftedOrder, SentOrder DEF InOrder
<1> QED BY <1>2, <1>3 DEF PlaceAt, InOrder

\* Channels that keep their entries, and new ones that have none.
QueuesKept(n) ==
  /\ DOMAIN chans[n] \subseteq DOMAIN chans'[n]
  /\ \A h \in DOMAIN chans[n] : QueueOf(n, h)' = QueueOf(n, h)
  /\ \A h \in DOMAIN chans'[n] : h \notin DOMAIN chans[n] => QueueOf(n, h)' = <<>>
  /\ sent'[n] = sent[n] /\ lost'[n] = lost[n]

LEMMA KeptShifted ==
  ASSUME LoopInv, NEW n \in Replica, QueuesKept(n)
  PROVE  /\ Shifted(n, [h \in Nat |-> 0])
         /\ \A s : (Waits(n, s)' <=> Waits(n, s)) /\ (Took(n, s)' <=> Took(n, s)) /\ (Placed(n, s)' <=> Placed(n, s))
<1>1. ASSUME NEW h \in DOMAIN chans'[n], NEW i \in DOMAIN QueueOf(n, h)'
      PROVE  h \in DOMAIN chans[n] /\ h \in Nat /\ QueueOf(n, h)' = QueueOf(n, h) /\ i \in Nat /\ i + 0 = i
  <2>1. h \in DOMAIN chans[n]
    BY <1>1 DEF QueuesKept
  <2>2. QueueOf(n, h)' = QueueOf(n, h)
    BY <2>1 DEF QueuesKept
  <2>3. DOMAIN QueueOf(n, h) = 1..Len(QueueOf(n, h)) /\ Len(QueueOf(n, h)) \in Nat /\ h \in Nat
    BY <2>1, QueueTyped DEF LoopInv
  <2>4. i \in Nat
    BY <1>1, <2>2, <2>3
  <2> QED BY <2>1, <2>2, <2>3, <2>4
<1>2. Shifted(n, [h \in Nat |-> 0])
  BY <1>1 DEF Shifted
<1>3. \A s : Waits(n, s)' <=> Waits(n, s)
  BY <1>1 DEF Waits, QueuesKept
<1>4. \A s : Took(n, s)' <=> Took(n, s)
  BY DEF Took, QueuesKept
<1> QED BY <1>2, <1>3, <1>4 DEF Placed, QueuesKept

\* A replica none of whose places changes.
LEMMA PlacesKept ==
  ASSUME LoopInv, PlaceInv, NEW n \in Replica, QueuesKept(n), IssuedKept, misremoved => misremoved', Bounded(n)'
  PROVE  PlaceAt(n)' /\ \A s : Placed(n, s)' <=> Placed(n, s)
<1>1. Shifted(n, [h \in Nat |-> 0])
  BY KeptShifted
<1>2. \A s : (Waits(n, s)' <=> Waits(n, s)) /\ (Took(n, s)' <=> Took(n, s)) /\ (Placed(n, s)' <=> Placed(n, s))
  BY KeptShifted
<1>3. lost'[n] = lost[n] /\ sent'[n] = sent[n]
  BY DEF QueuesKept
<1>4. Apart(n)
  BY DEF PlaceInv, PlaceAt
<1>5. Apart(n)'
  BY <1>2, <1>3, <1>4 DEF Apart
<1> QED BY <1>1, <1>2, <1>3, <1>5, ShiftedPlace

\* A step that leaves the channels and the history of a replica alone.
LEMMA ReplicaKept ==
  ASSUME LoopInv, PlaceInv, NEW n \in Replica, chans'[n] = chans[n], sent'[n] = sent[n], lost'[n] = lost[n],
         IssuedKept, misremoved => misremoved'
  PROVE  PlaceAt(n)' /\ \A s : Placed(n, s)' <=> Placed(n, s)
<1>1. QueuesKept(n)
  BY DEF QueuesKept, QueueOf
<1>2. Bounded(n)'
  BY DEF PlaceInv, PlaceAt, Bounded, QueueOf
<1> QED BY <1>1, <1>2, PlacesKept

\* A step on one replica.
OnlyAt(n) ==
  \A m \in Replica \ {n} : chans'[m] = chans[m] /\ sent'[m] = sent[m] /\ lost'[m] = lost[m]

LEMMA OneReplica ==
  ASSUME LoopInv, PlaceInv, NEW n \in Replica, OnlyAt(n), PlaceAt(n)', IssuedKept, misremoved => misremoved'
  PROVE  /\ \A m \in Replica : PlaceAt(m)'
         /\ \A m \in Replica \ {n} : \A s : Placed(m, s)' <=> Placed(m, s)
<1>1. ASSUME NEW m \in Replica \ {n} PROVE PlaceAt(m)' /\ \A s : Placed(m, s)' <=> Placed(m, s)
  <2>1. chans'[m] = chans[m] /\ sent'[m] = sent[m] /\ lost'[m] = lost[m]
    BY DEF OnlyAt
  <2> QED BY <2>1, ReplicaKept
<1>2. ASSUME NEW m \in Replica PROVE PlaceAt(m)'
  BY <1>1
<1> QED BY <1>1, <1>2

\* The call is done with a replica: the entry has its place there.
LEMMA CallPlaces ==
  ASSUME LoopInv, PlaceInv, NEW w \in Writer, NEW n \in call[w].todo,
         call' = [call EXCEPT ![w] = [call[w] EXCEPT !.todo = @ \ {n}, !.held = {}]],
         UNCHANGED <<issued, finished>>,
         \A m \in Replica, s \in Nat : Placed(m, s)' <=> Placed(m, s) \/ (m = n /\ s = call[w].seq)
  PROVE  CallsKnown' /\ FinishedKnown' /\ HasPlace'
<1>1. /\ call \in [Writer -> AnyCall] /\ call[w] \in AnyCall /\ call[w].seq \in Nat
      /\ n \in Replica /\ call[w].seq # 0 /\ call[w].seq \in DOMAIN issued
      /\ n \in issued[call[w].seq].to
  BY DEF LoopInv, LoopType, AnyCall, PlaceInv, CallsKnown
<1>2. /\ call'[w].seq = call[w].seq /\ call'[w].todo = call[w].todo \ {n} /\ call'[w].held = {}
      /\ \A v \in Writer : v # w => call'[v] = call[v]
  BY <1>1 DEF AnyCall
<1>3. \A v \in Writer : call'[v].seq = call[v].seq
  BY <1>2
<1>4. CallsKnown'
  BY <1>1, <1>2, <1>3 DEF PlaceInv, CallsKnown
<1>5. FinishedKnown'
  BY DEF PlaceInv, FinishedKnown
<1>6. HasPlace'
  <2> SUFFICES ASSUME NEW m \in Replica, NEW s \in Nat
               PROVE  /\ Placed(m, s)' => s \in DOMAIN issued /\ m \in issued[s].to
                      /\ \A v \in Writer : call'[v].seq = s /\ s # 0 /\ m \in issued[s].to
                                           => (m \in call'[v].todo <=> ~Placed(m, s)')
                      /\ s \in finished /\ m \in issued[s].to => Placed(m, s)'
    BY DEF HasPlace
  <2>1. /\ Placed(m, s) => s \in DOMAIN issued /\ m \in issued[s].to
        /\ \A v \in Writer : call[v].seq = s /\ s # 0 /\ m \in issued[s].to
                             => (m \in call[v].todo <=> ~Placed(m, s))
        /\ s \in finished /\ m \in issued[s].to => Placed(m, s)
    BY DEF PlaceInv, HasPlace
  <2>2. Placed(m, s)' <=> Placed(m, s) \/ (m = n /\ s = call[w].seq)
    OBVIOUS
  <2>3. Placed(m, s)' => s \in DOMAIN issued /\ m \in issued[s].to
    BY <1>1, <2>1, <2>2
  <2>4. ASSUME NEW v \in Writer, call'[v].seq = s, s # 0, m \in issued[s].to
        PROVE  m \in call'[v].todo <=> ~Placed(m, s)'
    <3>1. CASE v = w
      BY <1>2, <2>1, <2>2, <2>4, <3>1
    <3>2. CASE v # w
      <4>1. s # call[w].seq
        BY <1>1, <1>3, <2>4, <3>2 DEF PlaceInv, CallsKnown
      <4> QED BY <1>2, <2>1, <2>2, <2>4, <3>2, <4>1
    <3> QED BY <3>1, <3>2
  <2> QED BY <2>1, <2>2, <2>3, <2>4
<1> QED BY <1>4, <1>5, <1>6

\* A call has not placed an entry yet for a replica it has still to do.
LEMMA NotYetPlaced ==
  ASSUME LoopInv, PlaceInv, NEW w \in Writer, NEW n \in call[w].todo
  PROVE  /\ n \in Replica /\ call[w].seq \in Nat /\ ~Placed(n, call[w].seq)
         /\ \A t \in DOMAIN issued : call[w].seq \notin issued[t].after
<1>1. /\ n \in Replica /\ call[w].seq \in Nat /\ call[w].seq # 0
      /\ call[w].seq \in DOMAIN issued /\ call[w].seq \notin finished
      /\ n \in issued[call[w].seq].to
  BY DEF LoopInv, LoopType, AnyCall, PlaceInv, CallsKnown
<1>2. ~Placed(n, call[w].seq)
  BY <1>1 DEF PlaceInv, HasPlace
<1>3. \A t \in DOMAIN issued : call[w].seq \notin issued[t].after
  BY <1>1 DEF PlaceInv, FinishedKnown
<1> QED BY <1>1, <1>2, <1>3

\* The entry is dropped for this replica: no address, a full channel, a closed one.
LEMMA DropPlaces ==
  ASSUME LoopInv, PlaceInv, NEW w \in Writer, NEW n \in call[w].todo,
         call' = [call EXCEPT ![w] = [call[w] EXCEPT !.todo = @ \ {n}, !.held = {}]],
         UNCHANGED <<issued, finished, chans, sent>>, misremoved => misremoved',
         lost' = [lost EXCEPT ![n] = @ \cup {call[w].seq}]
  PROVE  PlaceInv'
<1>1. n \in Replica /\ call[w].seq \in Nat /\ ~Placed(n, call[w].seq)
  BY NotYetPlaced
<1>2. /\ \A m \in Replica, s \in Nat : s \in lost'[m] <=> s \in lost[m] \/ (m = n /\ s = call[w].seq)
      /\ \A m \in Replica \ {n} : lost'[m] = lost[m]
      /\ lost' \in [Replica -> SUBSET Nat]
  BY <1>1 DEF PlaceInv, PlaceType
<1>3. \A m, s : (Waits(m, s)' <=> Waits(m, s)) /\ (Took(m, s)' <=> Took(m, s))
  BY DEF Waits, Took, QueueOf
<1>4. \A m \in Replica, s \in Nat : Placed(m, s)' <=> Placed(m, s) \/ (m = n /\ s = call[w].seq)
  BY <1>2, <1>3 DEF Placed
<1>5. CallsKnown' /\ FinishedKnown' /\ HasPlace'
  BY <1>4, CallPlaces, Zenon
<1>6. PlaceType' /\ IssuedKept /\ OnlyAt(n)
  BY <1>2 DEF PlaceInv, PlaceType, IssuedKept, OnlyAt
<1>7. PlaceAt(n)
  BY <1>1 DEF PlaceInv
<1>8. Apart(n)'
  BY <1>1, <1>2, <1>3, <1>7 DEF PlaceAt, Apart, Placed
<1>9. WaitsOnce(n)' /\ TookOnce(n)' /\ Bounded(n)'
  BY <1>7 DEF PlaceAt, WaitsOnce, TookOnce, Bounded, QueueOf
<1>10. InOrder(n)'
  BY <1>7 DEF PlaceAt, InOrder, TookOrder, NextOrder, WaitOrder, QueueOf
<1>11. \A m \in Replica : PlaceAt(m)'
  BY <1>1, <1>6, <1>8, <1>9, <1>10, OneReplica DEF PlaceAt
<1> QED BY <1>5, <1>6, <1>11 DEF PlaceInv

\* A step of nobody's call keeps what the calls know.
LEMMA CallsKept ==
  ASSUME PlaceInv, UNCHANGED <<call, issued, finished>>,
         \A m \in Replica, s \in Nat : Placed(m, s)' <=> Placed(m, s)
  PROVE  CallsKnown' /\ FinishedKnown' /\ HasPlace'
<1>1. CallsKnown' /\ FinishedKnown'
  BY DEF PlaceInv, CallsKnown, FinishedKnown
<1>2. HasPlace'
  <2> SUFFICES ASSUME NEW m \in Replica, NEW s \in Nat
               PROVE  /\ Placed(m, s)' => s \in DOMAIN issued /\ m \in issued[s].to
                      /\ \A w \in Writer : call[w].seq = s /\ s # 0 /\ m \in issued[s].to
                                           => (m \in call[w].todo <=> ~Placed(m, s)')
                      /\ s \in finished /\ m \in issued[s].to => Placed(m, s)'
    BY DEF HasPlace
  <2>1. Placed(m, s)' <=> Placed(m, s)
    OBVIOUS
  <2> QED BY <2>1 DEF PlaceInv, HasPlace
<1> QED BY <1>1, <1>2

\* A new call: its number is new, so its entry has no place yet.
BeginsCall(w, R, s) ==
  /\ \A t \in DOMAIN issued : issued'[t] = issued[t]
  /\ DOMAIN issued' = DOMAIN issued \cup {s} /\ s \notin DOMAIN issued /\ s \in Nat /\ s # 0
  /\ issued'[s].to = R /\ issued'[s].after = finished
  /\ call'[w].seq = s /\ call'[w].todo = R /\ call'[w].held = {}
  /\ \A v \in Writer : v # w => call'[v] = call[v]
  /\ UNCHANGED <<finished, chans, sent, lost, misremoved>>

LEMMA BeginBegins ==
  ASSUME LoopInv, NEW w \in Writer, NEW R \in SUBSET Replica, Begin(w, R)
  PROVE  BeginsCall(w, R, Len(issued) + 1)
<1> DEFINE rec == [to |-> R, after |-> finished]
<1>1. /\ issued \in Seq([to : SUBSET Replica, after : SUBSET Nat]) /\ finished \subseteq Nat
      /\ call \in [Writer -> AnyCall] /\ Len(issued) \in Nat /\ DOMAIN issued = 1..Len(issued)
  BY DEF LoopInv, LoopType
<1>2. /\ issued' = Append(issued, rec) /\ rec \in [to : SUBSET Replica, after : SUBSET Nat]
      /\ rec.to = R /\ rec.after = finished
      /\ call' = [call EXCEPT ![w] = [seq |-> Len(issued) + 1, todo |-> R, held |-> {}]]
      /\ UNCHANGED <<finished, chans, sent, lost, misremoved>>
  BY <1>1 DEF Begin
<1> HIDE DEF rec
<1>3. /\ \A t \in DOMAIN issued : issued'[t] = issued[t]
      /\ issued'[Len(issued) + 1] = rec /\ DOMAIN issued' = DOMAIN issued \cup {Len(issued) + 1}
      /\ Len(issued) + 1 \notin DOMAIN issued /\ Len(issued) + 1 \in Nat /\ Len(issued) + 1 # 0
  BY <1>1, <1>2
<1>4. /\ call'[w].seq = Len(issued) + 1 /\ call'[w].todo = R /\ call'[w].held = {}
      /\ \A v \in Writer : v # w => call'[v] = call[v]
  BY <1>1, <1>2
<1> QED BY <1>2, <1>3, <1>4 DEF BeginsCall

LEMMA BeginCalls ==
  ASSUME PlaceInv, NEW w \in Writer, NEW R, NEW s, BeginsCall(w, R, s)
  PROVE  CallsKnown' /\ FinishedKnown'
<1>1. FinishedKnown'
  BY DEF PlaceInv, FinishedKnown, BeginsCall
<1>2. s \notin finished /\ \A v \in Writer : v # w => call[v].seq # s
  BY DEF PlaceInv, FinishedKnown, CallsKnown, BeginsCall
<1>3. /\ call'[w].seq \in DOMAIN issued' /\ call'[w].seq \notin finished'
      /\ call'[w].todo \subseteq issued'[call'[w].seq].to
  BY <1>2 DEF BeginsCall
<1>4. ASSUME NEW v \in Writer, v # w, call[v].seq # 0
      PROVE  /\ call[v].seq \in DOMAIN issued' /\ call[v].seq \notin finished'
             /\ call[v].todo \subseteq issued'[call[v].seq].to
  <2>1. /\ call[v].seq \in DOMAIN issued /\ call[v].seq \notin finished
        /\ call[v].todo \subseteq issued[call[v].seq].to
    BY <1>4 DEF PlaceInv, CallsKnown
  <2> QED BY <2>1 DEF BeginsCall
<1>5. \A u, v \in Writer : call'[u].seq = call'[v].seq /\ call'[v].seq # 0 => u = v
  BY <1>2 DEF PlaceInv, CallsKnown, BeginsCall
<1>6. \A v \in Writer : call'[v].seq = 0 => call'[v].todo = {}
  BY DEF PlaceInv, CallsKnown, BeginsCall
<1>7. \A v \in Writer : \A n \in Replica, g \in Nat : <<n, g>> \in call'[v].held => n \in call'[v].todo
  BY DEF PlaceInv, CallsKnown, BeginsCall
<1>8. \A v \in Writer : v # w => call'[v] = call[v]
  BY DEF BeginsCall
<1>9. \A v \in Writer : call'[v].seq # 0 => /\ call'[v].seq \in DOMAIN issued' /\ call'[v].seq \notin finished'
                                            /\ call'[v].todo \subseteq issued'[call'[v].seq].to
  BY <1>3, <1>4, <1>8
<1>10. CallsKnown'
  BY <1>5, <1>6, <1>7, <1>9 DEF CallsKnown
<1> QED BY <1>1, <1>10

LEMMA BeginHas ==
  ASSUME PlaceInv, NEW w \in Writer, NEW R, NEW s0, BeginsCall(w, R, s0),
         \A m \in Replica : \A s : Placed(m, s)' <=> Placed(m, s)
  PROVE  HasPlace'
<1> SUFFICES ASSUME NEW m \in Replica, NEW s \in Nat
             PROVE  /\ Placed(m, s)' => s \in DOMAIN issued' /\ m \in issued'[s].to
                    /\ \A v \in Writer : call'[v].seq = s /\ s # 0 /\ m \in issued'[s].to
                                         => (m \in call'[v].todo <=> ~Placed(m, s)')
                    /\ s \in finished' /\ m \in issued'[s].to => Placed(m, s)'
  BY DEF HasPlace
<1>1. /\ Placed(m, s) => s \in DOMAIN issued /\ m \in issued[s].to
      /\ \A v \in Writer : call[v].seq = s /\ s # 0 /\ m \in issued[s].to
                           => (m \in call[v].todo <=> ~Placed(m, s))
      /\ s \in finished /\ m \in issued[s].to => Placed(m, s)
  BY DEF PlaceInv, HasPlace
<1>2. Placed(m, s)' <=> Placed(m, s)
  OBVIOUS
<1>3. s \in finished => s \in DOMAIN issued
  BY DEF PlaceInv, FinishedKnown
<1>4. s \in DOMAIN issued => issued'[s] = issued[s] /\ s \in DOMAIN issued'
  BY DEF BeginsCall
<1>5. ASSUME NEW v \in Writer, call'[v].seq = s, s # 0, m \in issued'[s].to
      PROVE  m \in call'[v].todo <=> ~Placed(m, s)'
  <2>1. CASE v = w
    <3>1. s = s0 /\ s \notin DOMAIN issued /\ m \in call'[v].todo
      BY <1>5, <2>1 DEF BeginsCall
    <3> QED BY <1>1, <1>2, <3>1
  <2>2. CASE v # w
    <3>1. call'[v] = call[v]
      BY <2>2 DEF BeginsCall
    <3>2. s \in DOMAIN issued
      BY <1>5, <3>1 DEF PlaceInv, CallsKnown
    <3> QED BY <1>1, <1>2, <1>4, <1>5, <3>1, <3>2
  <2> QED BY <2>1, <2>2
<1>6. finished' = finished
  BY DEF BeginsCall
<1> QED BY <1>1, <1>2, <1>3, <1>4, <1>5, <1>6

LEMMA BeginPlaces ==
  ASSUME LoopInv, PlaceInv, NEW w \in Writer, NEW R \in SUBSET Replica, Begin(w, R)
  PROVE  PlaceInv'
<1>1. BeginsCall(w, R, Len(issued) + 1)
  BY BeginBegins
<1>2. UNCHANGED <<chans, sent, lost, misremoved>> /\ IssuedKept
  BY <1>1 DEF BeginsCall, IssuedKept
<1>3. \A m \in Replica : PlaceAt(m)' /\ \A s : Placed(m, s)' <=> Placed(m, s)
  BY <1>2, ReplicaKept
<1>4. CallsKnown' /\ FinishedKnown'
  BY <1>1, BeginCalls
<1>5. HasPlace'
  BY <1>1, <1>3, BeginHas
<1>6. PlaceType'
  BY <1>2 DEF PlaceInv, PlaceType
<1> QED BY <1>3, <1>4, <1>5, <1>6 DEF PlaceInv

\* A call that returns is done with all its replicas.
LEMMA ReturnPlaces ==
  ASSUME LoopInv, PlaceInv, NEW w \in Writer, Return(w)
  PROVE  PlaceInv'
<1>1. /\ call \in [Writer -> AnyCall] /\ call[w].seq # 0 /\ call[w].todo = {}
      /\ finished' = finished \cup {call[w].seq}
      /\ call' = [call EXCEPT ![w] = Idle]
      /\ UNCHANGED <<issued, chans, sent, lost, misremoved>>
  BY DEF LoopInv, LoopType, Return
<1>2. /\ call'[w].seq = 0 /\ call'[w].todo = {} /\ call'[w].held = {}
      /\ \A v \in Writer : v # w => call'[v] = call[v]
  BY <1>1 DEF Idle
<1>3. \A m \in Replica : PlaceAt(m)' /\ \A s : Placed(m, s)' <=> Placed(m, s)
  BY <1>1, ReplicaKept DEF IssuedKept
<1>4. PlaceType'
  BY <1>1 DEF PlaceInv, PlaceType
<1>5. FinishedKnown'
  BY <1>1 DEF PlaceInv, FinishedKnown, CallsKnown
<1>6. \A v \in Writer : v # w => call[v].seq # call[w].seq
  BY <1>1 DEF PlaceInv, CallsKnown
<1>7. CallsKnown'
  BY <1>1, <1>2, <1>6 DEF PlaceInv, CallsKnown
<1>8. HasPlace'
  <2> SUFFICES ASSUME NEW m \in Replica, NEW s \in Nat
               PROVE  /\ Placed(m, s)' => s \in DOMAIN issued /\ m \in issued[s].to
                      /\ \A v \in Writer : call'[v].seq = s /\ s # 0 /\ m \in issued[s].to
                                           => (m \in call'[v].todo <=> ~Placed(m, s)')
                      /\ s \in finished' /\ m \in issued[s].to => Placed(m, s)'
    BY <1>1 DEF HasPlace
  <2>1. /\ Placed(m, s) => s \in DOMAIN issued /\ m \in issued[s].to
        /\ \A v \in Writer : call[v].seq = s /\ s # 0 /\ m \in issued[s].to
                             => (m \in call[v].todo <=> ~Placed(m, s))
        /\ s \in finished /\ m \in issued[s].to => Placed(m, s)
    BY DEF PlaceInv, HasPlace
  <2>2. Placed(m, s)' <=> Placed(m, s)
    BY <1>3
  <2> QED BY <1>1, <1>2, <2>1, <2>2
<1> QED BY <1>3, <1>4, <1>5, <1>7, <1>8 DEF PlaceInv

\* Taking a sender may add an empty channel.
LEMMA TakeQueues ==
  ASSUME LoopInv, PlaceInv, NEW w \in Writer, NEW n \in Replica, Take(w, n), NEW m \in Replica
  PROVE  QueuesKept(m) /\ Bounded(m)'
<1> DEFINE k == [queue |-> <<>>, open |-> TRUE]
<1>1. /\ chans \in [Replica -> Seq(AnyChan)] /\ chans[n] \in Seq(AnyChan) /\ UNCHANGED <<sent, lost>>
      /\ chans' = chans \/ chans' = [chans EXCEPT ![n] = Append(@, k)]
  BY DEF LoopInv, LoopType, Take, get_or_create_sender
<1>2. k.queue = <<>> /\ k.open /\ k \in AnyChan
  BY DEF AnyChan
<1> HIDE DEF k
<1>3. /\ DOMAIN chans[m] \subseteq DOMAIN chans'[m]
      /\ \A h \in DOMAIN chans[m] : chans'[m][h] = chans[m][h]
      /\ \A h \in DOMAIN chans'[m] : h \notin DOMAIN chans[m] => chans'[m][h] = k
  <2>1. CASE chans'[m] = chans[m]
    BY <2>1
  <2>2. CASE m = n /\ chans'[n] = Append(chans[n], k)
    BY <1>1, <1>2, <2>2
  <2> QED BY <1>1, <2>1, <2>2
<1>4. QueuesKept(m)
  BY <1>1, <1>2, <1>3 DEF QueuesKept, QueueOf
<1>5. ASSUME NEW h \in DOMAIN chans'[m]
      PROVE  /\ Len(QueueOf(m, h)') <= BUFFER_PER_REPLICA
             /\ ~chans'[m][h].open => QueueOf(m, h)' = <<>>
  <2>1. CASE h \in DOMAIN chans[m]
    <3>1. QueueOf(m, h)' = QueueOf(m, h) /\ chans'[m][h].open = chans[m][h].open
      BY <1>3, <2>1 DEF QueueOf
    <3> QED BY <2>1, <3>1 DEF PlaceInv, PlaceAt, Bounded
  <2>2. CASE h \notin DOMAIN chans[m]
    <3>1. QueueOf(m, h)' = <<>> /\ chans'[m][h].open
      BY <1>2, <1>3, <2>2 DEF QueueOf
    <3>2. Len(<<>>) <= BUFFER_PER_REPLICA
      BY ReplicationAssumption
    <3> QED BY <3>1, <3>2
  <2> QED BY <2>1, <2>2
<1> QED BY <1>4, <1>5 DEF Bounded

\* A call takes a sender of a replica it has still to do.
LEMMA TakePlaces ==
  ASSUME LoopInv, PlaceInv, NEW w \in Writer, NEW n \in Replica, Take(w, n)
  PROVE  PlaceInv'
<1>1. PICK g : call' = [call EXCEPT ![w].held = {<<n, g>>}]
  BY Zenon DEF Take, get_or_create_sender
<1>2. /\ call \in [Writer -> AnyCall] /\ call[w] \in AnyCall /\ n \in call[w].todo
      /\ UNCHANGED <<issued, finished, sent, lost, misremoved>>
  BY DEF LoopInv, LoopType, Take
<1>3. /\ call'[w].seq = call[w].seq /\ call'[w].todo = call[w].todo /\ call'[w].held = {<<n, g>>}
      /\ \A v \in Writer : v # w => call'[v] = call[v]
  BY <1>1, <1>2 DEF AnyCall
<1>4. IssuedKept /\ PlaceType'
  BY <1>2 DEF IssuedKept, PlaceInv, PlaceType
<1>5. \A m \in Replica : PlaceAt(m)' /\ \A s : Placed(m, s)' <=> Placed(m, s)
  BY <1>2, <1>4, TakeQueues, PlacesKept
<1>6. FinishedKnown'
  BY <1>2 DEF PlaceInv, FinishedKnown
<1>7. \A v \in Writer : call'[v].seq = call[v].seq /\ call'[v].todo = call[v].todo
  BY <1>3
<1>8. CallsKnown'
  <2>1. \A m \in Replica, h \in Nat : <<m, h>> \in call'[w].held => m \in call'[w].todo
    BY <1>2, <1>3
  <2> QED BY <1>2, <1>3, <1>7, <2>1 DEF PlaceInv, CallsKnown
<1>9. HasPlace'
  <2> SUFFICES ASSUME NEW m \in Replica, NEW s \in Nat
               PROVE  /\ Placed(m, s)' => s \in DOMAIN issued /\ m \in issued[s].to
                      /\ \A v \in Writer : call'[v].seq = s /\ s # 0 /\ m \in issued[s].to
                                           => (m \in call'[v].todo <=> ~Placed(m, s)')
                      /\ s \in finished /\ m \in issued[s].to => Placed(m, s)'
    BY <1>2 DEF HasPlace
  <2>1. Placed(m, s)' <=> Placed(m, s)
    BY <1>5
  <2> QED BY <1>7, <2>1 DEF PlaceInv, HasPlace
<1> QED BY <1>4, <1>5, <1>6, <1>8, <1>9 DEF PlaceInv

\* A loop whose channel is empty ends.
LEMMA ExitPlaces ==
  ASSUME LoopInv, PlaceInv, NEW n \in Replica, NEW g \in DOMAIN chans[n], LoopExits(n, g)
  PROVE  PlaceInv'
<1> DEFINE c == [chans[n][g] EXCEPT !.open = FALSE]
<1>1. /\ chans[n][g] \in AnyChan /\ chans[n][g].queue = <<>>
      /\ UNCHANGED <<call, issued, finished, sent, lost, misremoved>>
  BY QueueTyped DEF LoopInv, LoopExits
<1>2. c \in AnyChan /\ c.queue = <<>>
  BY <1>1, Zenon DEF AnyChan
<1>3. chans' = [chans EXCEPT ![n] = [@ EXCEPT ![g] = c]]
  BY DEF LoopExits
<1> HIDE DEF c
<1>4. BecomesOnly(n, g, c)
  BY <1>2, <1>3, ChannelPut, Zenon DEF LoopInv
<1>5. /\ QueueOf(n, g)' = <<>> /\ QueueOf(n, g) = <<>>
      /\ \A h \in DOMAIN chans[n] : h # g => QueueOf(n, h)' = QueueOf(n, h)
  BY <1>1, <1>2, <1>4 DEF BecomesOnly, QueueOf
<1>6. QueuesKept(n)
  BY <1>1, <1>4, <1>5 DEF QueuesKept, BecomesOnly
<1>7. Bounded(n)
  BY DEF PlaceInv, PlaceAt
<1>8. Bounded(n)'
  BY <1>4, <1>5, <1>7 DEF Bounded, BecomesOnly
<1>9. OnlyAt(n) /\ IssuedKept /\ PlaceType'
  BY <1>1, <1>4 DEF OnlyAt, BecomesOnly, IssuedKept, PlaceInv, PlaceType
<1>10. PlaceAt(n)' /\ \A s : Placed(n, s)' <=> Placed(n, s)
  BY <1>1, <1>6, <1>8, <1>9, PlacesKept
<1>11. /\ \A m \in Replica : PlaceAt(m)'
       /\ \A m \in Replica \ {n} : \A s : Placed(m, s)' <=> Placed(m, s)
  BY <1>1, <1>9, <1>10, OneReplica
<1>12. \A m \in Replica, s \in Nat : Placed(m, s)' <=> Placed(m, s)
  BY <1>10, <1>11
<1>13. CallsKnown' /\ FinishedKnown' /\ HasPlace'
  BY <1>1, <1>12, CallsKept
<1> QED BY <1>9, <1>11, <1>13 DEF PlaceInv

\* A step on a channel of n that moves no entry in or out of its places.
LEMMA MovedAt ==
  ASSUME LoopInv, PlaceInv, NEW n \in Replica, OnlyAt(n), PlaceAt(n)', PlaceType',
         UNCHANGED <<call, issued, finished, misremoved>>,
         \A s \in Nat : Placed(n, s)' <=> Placed(n, s)
  PROVE  PlaceInv'
<1>1. IssuedKept
  BY DEF IssuedKept
<1>2. /\ \A m \in Replica : PlaceAt(m)'
      /\ \A m \in Replica \ {n} : \A s : Placed(m, s)' <=> Placed(m, s)
  BY <1>1, OneReplica
<1>3. \A m \in Replica, s \in Nat : Placed(m, s)' <=> Placed(m, s)
  BY <1>2
<1>4. CallsKnown' /\ FinishedKnown' /\ HasPlace'
  BY <1>3, CallsKept
<1> QED BY <1>2, <1>4 DEF PlaceInv

\* What waited in a channel of n that is emptied, and nothing else, waits no more.
Emptied(n, g) ==
  /\ DOMAIN chans'[n] = DOMAIN chans[n]
  /\ QueueOf(n, g)' = <<>>
  /\ \A h \in DOMAIN chans[n] : h # g => chans'[n][h] = chans[n][h] /\ QueueOf(n, h)' = QueueOf(n, h)

LEMMA EmptiedWaits ==
  ASSUME LoopInv, PlaceInv, NEW n \in Replica, NEW g \in DOMAIN chans[n], Emptied(n, g)
  PROVE  /\ Shifted(n, [h \in Nat |-> 0])
         /\ \A s : Waits(n, s)' <=> Waits(n, s) /\ s \notin Entries(QueueOf(n, g))
<1>1. ASSUME NEW h \in DOMAIN chans'[n], NEW i \in DOMAIN QueueOf(n, h)'
      PROVE  h \in DOMAIN chans[n] /\ h # g /\ QueueOf(n, h)' = QueueOf(n, h) /\ i \in DOMAIN QueueOf(n, h)
  BY DEF Emptied
<1>2. ASSUME NEW h \in DOMAIN chans'[n], NEW i \in DOMAIN QueueOf(n, h)'
      PROVE  i \in Nat /\ h \in Nat /\ i + 0 = i
  BY <1>1, QueueTyped DEF LoopInv
<1>3. Shifted(n, [h \in Nat |-> 0])
  BY <1>1, <1>2 DEF Shifted
<1>4. \A s : s \in Entries(QueueOf(n, g)) <=> \E j \in DOMAIN QueueOf(n, g) : QueueOf(n, g)[j] = s
  BY DEF Entries
<1>5. WaitsOnce(n)
  BY DEF PlaceInv, PlaceAt
<1>6. ASSUME NEW h \in DOMAIN chans'[n], NEW i \in DOMAIN QueueOf(n, h)'
      PROVE  Waits(n, QueueOf(n, h)'[i]) /\ QueueOf(n, h)'[i] \notin Entries(QueueOf(n, g))
  <2>1. Waits(n, QueueOf(n, h)'[i])
    BY <1>1 DEF Waits
  <2>2. ASSUME NEW j \in DOMAIN QueueOf(n, g), QueueOf(n, g)[j] = QueueOf(n, h)'[i] PROVE FALSE
    BY <1>1, <1>5, <2>2 DEF WaitsOnce
  <2> QED BY <1>4, <2>1, <2>2
<1>7. \A s : Waits(n, s)' => Waits(n, s) /\ s \notin Entries(QueueOf(n, g))
  BY <1>6 DEF Waits
<1>8. ASSUME NEW s, Waits(n, s), s \notin Entries(QueueOf(n, g)) PROVE Waits(n, s)'
  <2>1. PICK h \in DOMAIN chans[n] : \E i \in DOMAIN QueueOf(n, h) : QueueOf(n, h)[i] = s
    BY <1>8 DEF Waits
  <2>2. h # g
    BY <1>4, <1>8, <2>1
  <2> QED BY <2>1, <2>2 DEF Emptied, Waits
<1> QED BY <1>3, <1>7, <1>8

\* The receiver goes with its loop: what waited in the channel is lost.
LEMMA DiePlaces ==
  ASSUME LoopInv, PlaceInv, NEW n \in Replica, NEW g \in DOMAIN chans[n], LoopDies(n, g)
  PROVE  PlaceInv'
<1> DEFINE c == [queue |-> <<>>, open |-> FALSE]
           E == Entries(QueueOf(n, g))
<1>1. /\ lost' = [lost EXCEPT ![n] = @ \cup E]
      /\ chans' = [chans EXCEPT ![n] = [@ EXCEPT ![g] = c]]
      /\ UNCHANGED <<call, issued, finished, sent, misremoved>>
  BY DEF LoopDies, QueueOf
<1>2. c \in AnyChan /\ c.queue = <<>>
  BY DEF AnyChan
<1>3. E \subseteq Nat /\ \A s \in E : Waits(n, s)
  BY QueueTyped DEF LoopInv, Entries
<1> HIDE DEF c, E
<1>4. BecomesOnly(n, g, c)
  BY <1>1, <1>2, ChannelPut, Zenon DEF LoopInv
<1>5. Emptied(n, g)
  BY <1>2, <1>4 DEF BecomesOnly, Emptied, QueueOf
<1>6. Shifted(n, [h \in Nat |-> 0]) /\ \A s : Waits(n, s)' <=> Waits(n, s) /\ s \notin E
  BY <1>5, EmptiedWaits DEF E
<1>7. /\ lost' \in [Replica -> SUBSET Nat] /\ lost'[n] = lost[n] \cup E
      /\ \A m \in Replica \ {n} : lost'[m] = lost[m]
  BY <1>1, <1>3 DEF PlaceInv, PlaceType
<1>8. \A m, s : Took(m, s)' <=> Took(m, s)
  BY <1>1 DEF Took
<1>9. \A s : Placed(n, s)' <=> Placed(n, s)
  BY <1>3, <1>6, <1>7, <1>8 DEF Placed
<1>10. PlaceAt(n)
  BY DEF PlaceInv
<1>11. Apart(n)'
  BY <1>3, <1>6, <1>7, <1>8, <1>10 DEF PlaceAt, Apart
<1>12. Bounded(n)'
  <2>1. Len(<<>>) <= BUFFER_PER_REPLICA
    BY ReplicationAssumption
  <2> QED BY <1>5, <1>10, <2>1 DEF PlaceAt, Bounded, Emptied
<1>13. OnlyAt(n) /\ PlaceType' /\ IssuedKept
  BY <1>1, <1>4, <1>7 DEF OnlyAt, BecomesOnly, PlaceInv, PlaceType, IssuedKept
<1>14. PlaceAt(n)'
  BY <1>1, <1>6, <1>11, <1>12, <1>13, ShiftedPlace
<1> QED BY <1>1, <1>9, <1>13, <1>14, MovedAt

\* An entry is put at the end of a channel.
PutAt(n, g, s, k) ==
  /\ DOMAIN chans'[n] = DOMAIN chans[n]
  /\ \A h \in DOMAIN chans[n] : h # g => chans'[n][h] = chans[n][h] /\ QueueOf(n, h)' = QueueOf(n, h)
  /\ DOMAIN QueueOf(n, g)' = DOMAIN QueueOf(n, g) \cup {k} /\ k \notin DOMAIN QueueOf(n, g)
  /\ QueueOf(n, g)'[k] = s
  /\ \A i \in DOMAIN QueueOf(n, g) : QueueOf(n, g)'[i] = QueueOf(n, g)[i] /\ ~(k < i)
  /\ ~(k < k)

\* A place in a channel after the step: the new one, or one from before.
PlaceFrom(n, g, s, k, h, i) ==
  /\ h \in DOMAIN chans[n]
  /\ \/ h = g /\ i = k /\ QueueOf(n, h)'[i] = s
     \/ i \in DOMAIN QueueOf(n, h) /\ QueueOf(n, h)'[i] = QueueOf(n, h)[i]

LEMMA PutFrom ==
  ASSUME NEW n \in Replica, NEW g \in DOMAIN chans[n], NEW s, NEW k, PutAt(n, g, s, k),
         NEW h \in DOMAIN chans'[n], NEW i \in DOMAIN QueueOf(n, h)'
  PROVE  PlaceFrom(n, g, s, k, h, i)
<1>1. CASE h = g
  BY <1>1 DEF PutAt, PlaceFrom
<1>2. CASE h # g
  BY <1>2 DEF PutAt, PlaceFrom
<1> QED BY <1>1, <1>2

LEMMA PutWaits ==
  ASSUME PlaceInv, NEW n \in Replica, NEW g \in DOMAIN chans[n], NEW s, NEW k, PutAt(n, g, s, k), ~Waits(n, s)
  PROVE  WaitsOnce(n)' /\ \A t : Waits(n, t)' <=> Waits(n, t) \/ t = s
<1>1. WaitsOnce(n)
  BY DEF PlaceInv, PlaceAt
<1>2. \A h \in DOMAIN chans[n] : \A i \in DOMAIN QueueOf(n, h) : QueueOf(n, h)[i] # s
  BY DEF Waits
<1>3. ASSUME NEW a \in DOMAIN chans'[n], NEW b \in DOMAIN chans'[n],
             NEW i \in DOMAIN QueueOf(n, a)', NEW j \in DOMAIN QueueOf(n, b)',
             QueueOf(n, a)'[i] = QueueOf(n, b)'[j]
      PROVE  a = b /\ i = j
  <2>1. /\ a \in DOMAIN chans[n]
        /\ \/ a = g /\ i = k /\ QueueOf(n, a)'[i] = s
           \/ i \in DOMAIN QueueOf(n, a) /\ QueueOf(n, a)'[i] = QueueOf(n, a)[i]
    <3>1. PlaceFrom(n, g, s, k, a, i)
      BY PutFrom, Zenon
    <3> QED BY <3>1, Zenon DEF PlaceFrom
  <2>2. /\ b \in DOMAIN chans[n]
        /\ \/ b = g /\ j = k /\ QueueOf(n, b)'[j] = s
           \/ j \in DOMAIN QueueOf(n, b) /\ QueueOf(n, b)'[j] = QueueOf(n, b)[j]
    <3>1. PlaceFrom(n, g, s, k, b, j)
      BY PutFrom, Zenon
    <3> QED BY <3>1, Zenon DEF PlaceFrom
  <2> QED BY <1>1, <1>2, <1>3, <2>1, <2>2 DEF WaitsOnce
<1>4. WaitsOnce(n)'
  BY <1>3 DEF WaitsOnce
<1>5. \A t : Waits(n, t)' => Waits(n, t) \/ t = s
  BY PutFrom DEF Waits, PlaceFrom
<1>6. Waits(n, s)'
  BY DEF Waits, PutAt
<1>7. ASSUME NEW t, Waits(n, t) PROVE Waits(n, t)'
  <2>1. PICK h \in DOMAIN chans[n] : \E i \in DOMAIN QueueOf(n, h) : QueueOf(n, h)[i] = t
    BY <1>7 DEF Waits
  <2> QED BY <2>1 DEF Waits, PutAt
<1> QED BY <1>4, <1>5, <1>6, <1>7

LEMMA PutOrder ==
  ASSUME LoopInv, PlaceInv, NEW n \in Replica, NEW g \in DOMAIN chans[n], NEW s, NEW k, PutAt(n, g, s, k),
         \A t \in DOMAIN issued : s \notin issued[t].after, UNCHANGED <<issued, sent, misremoved>>
  PROVE  InOrder(n)'
<1> SUFFICES ASSUME ~misremoved PROVE TookOrder(n)' /\ NextOrder(n)' /\ WaitOrder(n)'
  BY DEF InOrder
<1>1. TookOrder(n) /\ NextOrder(n) /\ WaitOrder(n)
  BY DEF PlaceInv, PlaceAt, InOrder
<1>2. /\ \A i \in DOMAIN sent[n] : s \notin issued[sent[n][i]].after
      /\ \A h \in DOMAIN chans[n] : \A i \in DOMAIN QueueOf(n, h) : s \notin issued[QueueOf(n, h)[i]].after
  BY PlacedIssued
<1>3. TookOrder(n)'
  BY <1>1 DEF TookOrder
<1>4. ASSUME NEW h \in DOMAIN chans'[n], NEW i \in DOMAIN sent[n], NEW j \in DOMAIN QueueOf(n, h)'
      PROVE  QueueOf(n, h)'[j] \notin issued[sent[n][i]].after
  <2>1. PlaceFrom(n, g, s, k, h, j)
    BY PutFrom, Zenon
  <2>2. CASE QueueOf(n, h)'[j] = s
    BY <1>2, <2>2, Zenon
  <2>3. CASE h \in DOMAIN chans[n] /\ j \in DOMAIN QueueOf(n, h) /\ QueueOf(n, h)'[j] = QueueOf(n, h)[j]
    BY <1>1, <2>3, Zenon DEF NextOrder
  <2> QED BY <2>1, <2>2, <2>3, Zenon DEF PlaceFrom
<1>5. ASSUME NEW h \in DOMAIN chans'[n], NEW i \in DOMAIN QueueOf(n, h)', NEW j \in DOMAIN QueueOf(n, h)', i < j
      PROVE  QueueOf(n, h)'[j] \notin issued[QueueOf(n, h)'[i]].after
  <2>1. /\ h \in DOMAIN chans[n]
        /\ \/ h = g /\ i = k /\ QueueOf(n, h)'[i] = s
           \/ i \in DOMAIN QueueOf(n, h) /\ QueueOf(n, h)'[i] = QueueOf(n, h)[i]
    <3>1. PlaceFrom(n, g, s, k, h, i)
      BY PutFrom, Zenon
    <3> QED BY <3>1, Zenon DEF PlaceFrom
  <2>2. \/ h = g /\ j = k /\ QueueOf(n, h)'[j] = s
        \/ j \in DOMAIN QueueOf(n, h) /\ QueueOf(n, h)'[j] = QueueOf(n, h)[j]
    <3>1. PlaceFrom(n, g, s, k, h, j)
      BY PutFrom, Zenon
    <3> QED BY <3>1, Zenon DEF PlaceFrom
  <2>3. ~(h = g /\ i = k)
    BY <1>5, <2>2 DEF PutAt
  <2> QED BY <1>1, <1>2, <1>5, <2>1, <2>2, <2>3, Zenon DEF WaitOrder
<1>6. NextOrder(n)' /\ WaitOrder(n)'
  BY <1>4, <1>5, Zenon DEF NextOrder, WaitOrder
<1> QED BY <1>3, <1>6, Zenon

LEMMA QueuedPut ==
  ASSUME LoopInv, NEW n \in Replica, NEW g \in DOMAIN chans[n], NEW s \in Nat,
         chans' = [chans EXCEPT ![n] = [@ EXCEPT ![g] = [chans[n][g] EXCEPT !.queue = Append(QueueOf(n, g), s)]]]
  PROVE  /\ PutAt(n, g, s, Len(QueueOf(n, g)) + 1) /\ \A m \in Replica \ {n} : chans'[m] = chans[m]
         /\ Len(QueueOf(n, g)') = Len(QueueOf(n, g)) + 1 /\ chans'[n][g].open = chans[n][g].open
<1> DEFINE c == [chans[n][g] EXCEPT !.queue = Append(QueueOf(n, g), s)]
           q == QueueOf(n, g)
<1>1. chans[n][g] \in AnyChan /\ q \in Seq(Nat) /\ Len(q) \in Nat /\ DOMAIN q = 1..Len(q)
  BY QueueTyped DEF LoopInv
<1>2. Append(q, s) \in Seq(Nat)
  BY <1>1
<1>3. c \in AnyChan /\ c.queue = Append(q, s) /\ c.open = chans[n][g].open
  BY <1>1, <1>2, Zenon DEF AnyChan
<1> HIDE DEF c
<1>4. BecomesOnly(n, g, c)
  BY <1>3, ChannelPut, Zenon DEF LoopInv, c
<1>5. /\ QueueOf(n, g)' = Append(q, s) /\ chans'[n][g].open = chans[n][g].open
      /\ DOMAIN chans'[n] = DOMAIN chans[n]
      /\ \A h \in DOMAIN chans[n] : h # g => chans'[n][h] = chans[n][h] /\ QueueOf(n, h)' = QueueOf(n, h)
      /\ \A m \in Replica \ {n} : chans'[m] = chans[m]
  BY <1>3, <1>4 DEF BecomesOnly, QueueOf
<1> HIDE DEF q
<1>6. /\ DOMAIN Append(q, s) = DOMAIN q \cup {Len(q) + 1} /\ Len(q) + 1 \notin DOMAIN q
      /\ Append(q, s)[Len(q) + 1] = s /\ Len(Append(q, s)) = Len(q) + 1
      /\ \A i \in DOMAIN q : Append(q, s)[i] = q[i] /\ ~(Len(q) + 1 < i)
      /\ ~(Len(q) + 1 < Len(q) + 1)
  BY <1>1
<1> QED BY <1>5, <1>6 DEF PutAt, q

\* try_send puts the entry at the end of the channel.
LEMMA QueuePlaces ==
  ASSUME LoopInv, PlaceInv, NEW w \in Writer, NEW n \in call[w].todo, NEW g \in DOMAIN chans[n],
         call' = [call EXCEPT ![w] = [call[w] EXCEPT !.todo = @ \ {n}, !.held = {}]],
         UNCHANGED <<issued, finished, sent, lost, misremoved>>,
         chans[n][g].open, Len(QueueOf(n, g)) < BUFFER_PER_REPLICA,
         chans' = [chans EXCEPT ![n] = [@ EXCEPT ![g] =
                     [chans[n][g] EXCEPT !.queue = Append(QueueOf(n, g), call[w].seq)]]]
  PROVE  PlaceInv'
<1>1. /\ n \in Replica /\ call[w].seq \in Nat /\ ~Placed(n, call[w].seq)
      /\ \A t \in DOMAIN issued : call[w].seq \notin issued[t].after
  BY NotYetPlaced
<1>2. PICK k : k = Len(QueueOf(n, g)) + 1
  OBVIOUS
<1>3. /\ PutAt(n, g, call[w].seq, k) /\ \A m \in Replica \ {n} : chans'[m] = chans[m]
      /\ Len(QueueOf(n, g)') = Len(QueueOf(n, g)) + 1 /\ chans'[n][g].open
  BY <1>1, <1>2, QueuedPut, Zenon
<1>4. ~Waits(n, call[w].seq) /\ ~Took(n, call[w].seq) /\ call[w].seq \notin lost[n]
  BY <1>1 DEF Placed
<1>5. WaitsOnce(n)' /\ \A t : Waits(n, t)' <=> Waits(n, t) \/ t = call[w].seq
  BY <1>1, <1>3, <1>4, PutWaits
<1>6. \A m, s : Took(m, s)' <=> Took(m, s)
  BY DEF Took
<1>7. PlaceAt(n)
  BY <1>1 DEF PlaceInv
<1>8. Apart(n)' /\ TookOnce(n)'
  BY <1>4, <1>5, <1>6, <1>7 DEF PlaceAt, Apart, TookOnce
<1>9. InOrder(n)'
  BY <1>1, <1>3, PutOrder
<1>10. Bounded(n)'
  <2>1. Len(QueueOf(n, g)) \in Nat
    BY <1>1, QueueTyped DEF LoopInv
  <2>2. Len(QueueOf(n, g)') <= BUFFER_PER_REPLICA
    BY <1>3, <2>1, ReplicationAssumption
  <2> QED BY <1>3, <1>7, <2>2 DEF PlaceAt, Bounded, PutAt
<1>11. PlaceAt(n)' /\ OnlyAt(n) /\ IssuedKept /\ PlaceType'
  BY <1>3, <1>5, <1>8, <1>9, <1>10 DEF PlaceAt, OnlyAt, IssuedKept, PlaceInv, PlaceType
<1>12. /\ \A m \in Replica : PlaceAt(m)'
       /\ \A m \in Replica \ {n} : \A s : Placed(m, s)' <=> Placed(m, s)
  BY <1>1, <1>11, OneReplica
<1>13. \A s : Placed(n, s)' <=> Placed(n, s) \/ s = call[w].seq
  BY <1>5, <1>6 DEF Placed
<1>14. \A m \in Replica, s \in Nat : Placed(m, s)' <=> Placed(m, s) \/ (m = n /\ s = call[w].seq)
  BY <1>12, <1>13
<1>15. CallsKnown' /\ FinishedKnown' /\ HasPlace'
  BY <1>14, CallPlaces, Zenon
<1> QED BY <1>11, <1>12, <1>15 DEF PlaceInv

\* What a loop does that takes the first entry of its channel: the entries behind
\* it move up, and the entry is the last one taken.
Taken(n, g, k) ==
  /\ DOMAIN chans'[n] = DOMAIN chans[n]
  /\ \A h \in DOMAIN chans[n] : h # g => chans'[n][h] = chans[n][h] /\ QueueOf(n, h)' = QueueOf(n, h)
  /\ 1 \in DOMAIN QueueOf(n, g)
  /\ \A i \in DOMAIN QueueOf(n, g)' :
       i \in Nat /\ i + 1 \in DOMAIN QueueOf(n, g) /\ 1 < i + 1 /\ QueueOf(n, g)'[i] = QueueOf(n, g)[i + 1]
  /\ \A i \in DOMAIN QueueOf(n, g) :
       i # 1 => \E j \in DOMAIN QueueOf(n, g)' : QueueOf(n, g)'[j] = QueueOf(n, g)[i]
  /\ DOMAIN sent'[n] = DOMAIN sent[n] \cup {k} /\ k \notin DOMAIN sent[n]
  /\ sent'[n][k] = QueueOf(n, g)[1]
  /\ \A i \in DOMAIN sent[n] : sent'[n][i] = sent[n][i] /\ ~(k < i)
  /\ ~(k < k)

LEMMA TakenShift ==
  ASSUME LoopInv, NEW n \in Replica, NEW g \in DOMAIN chans[n], NEW k, Taken(n, g, k)
  PROVE  Shifted(n, [h \in Nat |-> IF h = g THEN 1 ELSE 0])
<1> SUFFICES ASSUME NEW h \in DOMAIN chans'[n], NEW i \in DOMAIN QueueOf(n, h)', NEW x,
                    x = IF h = g THEN 1 ELSE 0
             PROVE  /\ h \in DOMAIN chans[n] /\ h \in Nat /\ i \in Nat /\ x \in Nat
                    /\ i + x \in DOMAIN QueueOf(n, h) /\ QueueOf(n, h)'[i] = QueueOf(n, h)[i + x]
  BY DEF Shifted
<1>1. h \in DOMAIN chans[n] /\ x \in Nat
  BY DEF Taken
<1>2. h \in Nat
  BY <1>1, QueueTyped, Zenon DEF LoopInv
<1>3. CASE h = g
  BY <1>1, <1>2, <1>3 DEF Taken
<1>4. CASE h # g
  <2>1. i \in DOMAIN QueueOf(n, h) /\ QueueOf(n, h)'[i] = QueueOf(n, h)[i]
    BY <1>1, <1>4 DEF Taken
  <2>2. i \in Nat /\ i + 0 = i
    <3>1. i \in 1..Len(QueueOf(n, h)) /\ Len(QueueOf(n, h)) \in Nat
      BY <1>1, <2>1, QueueTyped, Zenon DEF LoopInv
    <3> QED BY <3>1
  <2> QED BY <1>1, <1>2, <1>4, <2>1, <2>2
<1> QED BY <1>3, <1>4, Zenon

\* The entry waited before, and now is taken.
LEMMA TakenPlaces ==
  ASSUME LoopInv, PlaceInv, NEW n \in Replica, NEW g \in DOMAIN chans[n], NEW k, Taken(n, g, k)
  PROVE  /\ \A s : Took(n, s)' <=> Took(n, s) \/ s = QueueOf(n, g)[1]
         /\ \A s : Waits(n, s)' <=> Waits(n, s) /\ s # QueueOf(n, g)[1]
         /\ Waits(n, QueueOf(n, g)[1]) /\ QueueOf(n, g)[1] \in Nat
<1>1. \A s : Took(n, s)' <=> Took(n, s) \/ s = QueueOf(n, g)[1]
  BY DEF Took, Taken
<1>2. Waits(n, QueueOf(n, g)[1]) /\ QueueOf(n, g)[1] \in Nat /\ 1 \in DOMAIN QueueOf(n, g)
  BY QueueTyped, Zenon DEF LoopInv, Taken
<1>3. WaitsOnce(n)
  BY DEF PlaceInv, PlaceAt
<1>4. ASSUME NEW h \in DOMAIN chans'[n], NEW i \in DOMAIN QueueOf(n, h)'
      PROVE  Waits(n, QueueOf(n, h)'[i]) /\ QueueOf(n, h)'[i] # QueueOf(n, g)[1]
  <2>1. PICK j \in DOMAIN QueueOf(n, h) : QueueOf(n, h)'[i] = QueueOf(n, h)[j] /\ (h = g => j # 1)
    <3>1. CASE h = g
      BY <3>1 DEF Taken
    <3>2. CASE h # g
      BY <3>2 DEF Taken
    <3> QED BY <3>1, <3>2
  <2>2. h \in DOMAIN chans[n]
    BY DEF Taken
  <2>3. Waits(n, QueueOf(n, h)[j])
    BY <2>2 DEF Waits
  <2>4. QueueOf(n, h)[j] # QueueOf(n, g)[1]
    <3>1. ASSUME QueueOf(n, h)[j] = QueueOf(n, g)[1] PROVE h = g /\ j = 1
      <4>1. j \in DOMAIN QueueOf(n, h)
        BY <2>1
      <4>2. \A i1 \in DOMAIN QueueOf(n, h), j1 \in DOMAIN QueueOf(n, g) :
              QueueOf(n, h)[i1] = QueueOf(n, g)[j1] => h = g /\ i1 = j1
        BY <1>3, <2>2, Zenon DEF WaitsOnce
      <4>3. 1 \in DOMAIN QueueOf(n, g)
        BY <1>2
      <4> QED BY <3>1, <4>1, <4>2, <4>3, Zenon
    <3> QED BY <2>1, <3>1, Zenon
  <2> QED BY <2>1, <2>3, <2>4
<1>5. \A s : Waits(n, s)' => Waits(n, s) /\ s # QueueOf(n, g)[1]
  BY <1>4 DEF Waits
<1>6. ASSUME NEW s, Waits(n, s), s # QueueOf(n, g)[1] PROVE Waits(n, s)'
  <2>1. PICK h \in DOMAIN chans[n] : \E i \in DOMAIN QueueOf(n, h) : QueueOf(n, h)[i] = s
    BY <1>6 DEF Waits
  <2>2. \E j \in DOMAIN QueueOf(n, h)' : QueueOf(n, h)'[j] = s
    <3>1. CASE h = g
      BY <1>6, <2>1, <3>1 DEF Taken
    <3>2. CASE h # g
      BY <2>1, <3>2, Zenon DEF Taken
    <3> QED BY <3>1, <3>2
  <2>3. h \in DOMAIN chans'[n]
    BY Zenon DEF Taken
  <2> QED BY <2>2, <2>3 DEF Waits
<1> QED BY <1>1, <1>2, <1>5, <1>6

\* The loop is the only one of its replica, so what waits waits behind the entry.
LEMMA TakenOrder ==
  ASSUME LoopInv, PlaceInv, NEW n \in Replica, NEW g \in DOMAIN chans[n], NEW k, Taken(n, g, k),
         chans[n][g].open, UNCHANGED <<issued, misremoved>>
  PROVE  InOrder(n)'
<1> SUFFICES ASSUME ~misremoved PROVE TookOrder(n)' /\ NextOrder(n)' /\ WaitOrder(n)'
  BY DEF InOrder
<1>1. TookOrder(n) /\ NextOrder(n) /\ WaitOrder(n)
  BY DEF PlaceInv, PlaceAt, InOrder
<1>2. Shifted(n, [h \in Nat |-> IF h = g THEN 1 ELSE 0])
  BY TakenShift
<1>3. WaitOrder(n)'
  BY <1>1, <1>2, ShiftedOrder DEF IssuedKept
<1>4. \A i \in DOMAIN sent[n] : QueueOf(n, g)[1] \notin issued[sent[n][i]].after
  BY <1>1, Zenon DEF NextOrder, Taken
<1>5. TookOrder(n)'
  <2> SUFFICES ASSUME NEW i \in DOMAIN sent'[n], NEW j \in DOMAIN sent'[n], i < j
               PROVE  sent'[n][j] \notin issued[sent'[n][i]].after
    BY Zenon DEF TookOrder
  <2>1. i \in DOMAIN sent[n] /\ sent'[n][i] = sent[n][i]
    BY DEF Taken
  <2>2. CASE j = k
    BY <1>4, <2>1, <2>2, Zenon DEF Taken
  <2>3. CASE j \in DOMAIN sent[n]
    BY <1>1, <2>1, <2>3, Zenon DEF Taken, TookOrder
  <2> QED BY <2>2, <2>3, Zenon DEF Taken
<1>6. ASSUME NEW h \in DOMAIN chans'[n], NEW i \in DOMAIN sent'[n], NEW j \in DOMAIN QueueOf(n, h)'
      PROVE  QueueOf(n, h)'[j] \notin issued[sent'[n][i]].after
  <2>1. PICK x \in DOMAIN QueueOf(n, h) : QueueOf(n, h)'[j] = QueueOf(n, h)[x] /\ (h = g => 1 < x)
    <3>1. CASE h = g
      BY <3>1, Zenon DEF Taken
    <3>2. CASE h # g
      BY <3>2 DEF Taken
    <3> QED BY <3>1, <3>2, Zenon
  <2>2. h \in DOMAIN chans[n]
    BY DEF Taken
  <2>3. CASE i \in DOMAIN sent[n]
    <3>1. sent'[n][i] = sent[n][i]
      BY <2>3, Zenon DEF Taken
    <3> QED BY <1>1, <2>1, <2>2, <2>3, <3>1, Zenon DEF NextOrder
  <2>4. CASE i = k
    <3>1. chans[n][h].open
      BY <2>1, <2>2 DEF PlaceInv, PlaceAt, Bounded
    <3>2. h = g
      BY <2>2, <3>1 DEF LoopInv, OneLoop
    <3>3. 1 \in DOMAIN QueueOf(n, g) /\ sent'[n][i] = QueueOf(n, g)[1]
      BY <2>4 DEF Taken
    <3> QED BY <1>1, <2>1, <3>2, <3>3, Zenon DEF WaitOrder
  <2> QED BY <1>6, <2>3, <2>4, Zenon DEF Taken
<1>7. NextOrder(n)'
  BY <1>6, Zenon DEF NextOrder
<1> QED BY <1>3, <1>5, <1>7

LEMMA LoopTakes ==
  ASSUME LoopInv, PlaceInv, NEW n \in Replica, NEW g \in DOMAIN chans[n], replica_send_loop(n, g)
  PROVE  /\ Taken(n, g, Len(sent[n]) + 1) /\ OnlyAt(n) /\ PlaceType' /\ lost'[n] = lost[n]
         /\ chans[n][g].open /\ chans'[n][g].open /\ Len(QueueOf(n, g)') \in Nat /\ Len(QueueOf(n, g)') < Len(QueueOf(n, g))
<1> DEFINE q == QueueOf(n, g)
           c == [chans[n][g] EXCEPT !.queue = Tail(q)]
<1>1. q \in Seq(Nat) /\ q # <<>> /\ chans[n][g] \in AnyChan /\ chans[n][g].open
  BY QueueTyped DEF LoopInv, replica_send_loop, QueueOf
<1>2. /\ sent' = [sent EXCEPT ![n] = Append(@, Head(q))]
      /\ chans' = [chans EXCEPT ![n] = [@ EXCEPT ![g] = c]] /\ UNCHANGED lost
  BY DEF replica_send_loop, QueueOf
<1>3. /\ Tail(q) \in Seq(Nat) /\ 1 \in DOMAIN q /\ Head(q) = q[1] /\ q[1] \in Nat
      /\ Len(Tail(q)) \in Nat /\ Len(Tail(q)) < Len(q)
      /\ \A i \in DOMAIN Tail(q) : i \in Nat /\ i + 1 \in DOMAIN q /\ 1 < i + 1 /\ Tail(q)[i] = q[i + 1]
      /\ \A i \in DOMAIN q : i # 1 => i - 1 \in DOMAIN Tail(q) /\ Tail(q)[i - 1] = q[i]
  BY <1>1
<1>4. c \in AnyChan /\ c.queue = Tail(q) /\ c.open
  BY <1>1, <1>3, Zenon DEF AnyChan
<1> HIDE DEF q, c
<1>5. BecomesOnly(n, g, c)
  BY <1>2, <1>4, ChannelPut, Zenon DEF LoopInv
<1>6. /\ QueueOf(n, g)' = Tail(q) /\ chans'[n][g].open /\ DOMAIN chans'[n] = DOMAIN chans[n]
      /\ \A h \in DOMAIN chans[n] : h # g => chans'[n][h] = chans[n][h] /\ QueueOf(n, h)' = QueueOf(n, h)
      /\ \A m \in Replica \ {n} : chans'[m] = chans[m]
  BY <1>4, <1>5 DEF BecomesOnly, QueueOf
<1>7. sent[n] \in Seq(Nat) /\ sent \in [Replica -> Seq(Nat)] /\ Len(sent[n]) \in Nat
  BY DEF PlaceInv, PlaceType
<1>8. /\ sent'[n] = Append(sent[n], q[1]) /\ \A m \in Replica \ {n} : sent'[m] = sent[m]
      /\ sent' \in [Replica -> Seq(Nat)]
  BY <1>2, <1>3, <1>7
<1>9. /\ DOMAIN sent'[n] = DOMAIN sent[n] \cup {Len(sent[n]) + 1} /\ Len(sent[n]) + 1 \notin DOMAIN sent[n]
      /\ sent'[n][Len(sent[n]) + 1] = q[1]
      /\ \A i \in DOMAIN sent[n] : sent'[n][i] = sent[n][i] /\ ~(Len(sent[n]) + 1 < i)
      /\ ~(Len(sent[n]) + 1 < Len(sent[n]) + 1)
  BY <1>3, <1>7, <1>8
<1>10. Taken(n, g, Len(sent[n]) + 1)
  <2>1. /\ 1 \in DOMAIN QueueOf(n, g) /\ q[1] = QueueOf(n, g)[1]
        /\ \A i \in DOMAIN QueueOf(n, g)' :
             i \in Nat /\ i + 1 \in DOMAIN QueueOf(n, g) /\ 1 < i + 1 /\ QueueOf(n, g)'[i] = QueueOf(n, g)[i + 1]
    BY <1>3, <1>6, Zenon DEF q
  <2>2. \A i \in DOMAIN QueueOf(n, g) :
          i # 1 => \E j \in DOMAIN QueueOf(n, g)' : QueueOf(n, g)'[j] = QueueOf(n, g)[i]
    <3> SUFFICES ASSUME NEW i \in DOMAIN q, i # 1 PROVE \E j \in DOMAIN Tail(q) : Tail(q)[j] = q[i]
      BY <1>6 DEF q
    <3>1. i - 1 \in DOMAIN Tail(q) /\ Tail(q)[i - 1] = q[i]
      BY <1>3
    <3> QED BY <3>1, Zenon
  <2> QED BY <1>6, <1>9, <2>1, <2>2, Zenon DEF Taken
<1>11. OnlyAt(n) /\ PlaceType'
  BY <1>2, <1>6, <1>8 DEF OnlyAt, PlaceInv, PlaceType
<1> QED BY <1>1, <1>2, <1>3, <1>6, <1>10, <1>11 DEF q

\* The loop takes the head of its channel.
LEMMA LoopPlaces ==
  ASSUME LoopInv, PlaceInv, NEW n \in Replica, NEW g \in DOMAIN chans[n], replica_send_loop(n, g)
  PROVE  PlaceInv'
<1>1. PICK k : k = Len(sent[n]) + 1
  OBVIOUS
<1>2. /\ Taken(n, g, k) /\ OnlyAt(n) /\ PlaceType' /\ lost'[n] = lost[n]
      /\ chans[n][g].open /\ chans'[n][g].open /\ Len(QueueOf(n, g)') \in Nat /\ Len(QueueOf(n, g)') < Len(QueueOf(n, g))
  BY <1>1, LoopTakes, Zenon
<1>3. UNCHANGED <<call, issued, finished, misremoved>>
  BY DEF replica_send_loop
<1>4. InOrder(n)'
  BY <1>2, <1>3, TakenOrder
<1>5. /\ \A s : Took(n, s)' <=> Took(n, s) \/ s = QueueOf(n, g)[1]
      /\ \A s : Waits(n, s)' <=> Waits(n, s) /\ s # QueueOf(n, g)[1]
      /\ Waits(n, QueueOf(n, g)[1]) /\ QueueOf(n, g)[1] \in Nat
  BY <1>2, TakenPlaces, Zenon
<1>6. PlaceAt(n)
  BY DEF PlaceInv
<1>7. Apart(n)' /\ ~Took(n, QueueOf(n, g)[1])
  BY <1>2, <1>5, <1>6, Zenon DEF PlaceAt, Apart
<1>8. WaitsOnce(n)'
  BY <1>2, <1>6, TakenShift, ShiftedWaits, Zenon DEF PlaceAt
<1>9. TookOnce(n)'
  <2>1. \A i \in DOMAIN sent[n] : sent[n][i] # QueueOf(n, g)[1]
    BY <1>7 DEF Took
  <2>2. TookOnce(n)
    BY <1>6 DEF PlaceAt
  <2>3. /\ DOMAIN sent'[n] = DOMAIN sent[n] \cup {k} /\ sent'[n][k] = QueueOf(n, g)[1]
        /\ \A i \in DOMAIN sent[n] : sent'[n][i] = sent[n][i]
    BY <1>2, Zenon DEF Taken
  <2> QED BY <2>1, <2>2, <2>3, Zenon DEF TookOnce
<1>10. Bounded(n)'
  <2>1. Len(QueueOf(n, g)) <= BUFFER_PER_REPLICA /\ Len(QueueOf(n, g)) \in Nat
    BY <1>6, QueueTyped, Zenon DEF PlaceAt, Bounded, LoopInv
  <2>2. Len(QueueOf(n, g)') <= BUFFER_PER_REPLICA
    BY <1>2, <2>1, ReplicationAssumption
  <2> QED BY <1>2, <1>6, <2>2, Zenon DEF PlaceAt, Bounded, Taken
<1>11. \A s : Placed(n, s)' <=> Placed(n, s)
  BY <1>2, <1>5, Zenon DEF Placed
<1> QED BY <1>2, <1>3, <1>4, <1>7, <1>8, <1>9, <1>10, <1>11, MovedAt, Zenon DEF PlaceAt

\* A replica without an address is skipped.
LEMMA SkipPlaces ==
  ASSUME LoopInv, PlaceInv, NEW w \in Writer, NEW n \in Replica, Skip(w, n)
  PROVE  PlaceInv'
<1>1. /\ n \in call[w].todo /\ call[w].held = {}
      /\ call' = [call EXCEPT ![w] = [call[w] EXCEPT !.todo = @ \ {n}]]
      /\ lost' = [lost EXCEPT ![n] = @ \cup {call[w].seq}]
      /\ UNCHANGED <<issued, finished, chans, sent, misremoved>>
  BY DEF Skip
<1>2. call[w] \in AnyCall
  BY DEF LoopInv, LoopType
<1>3. [call[w] EXCEPT !.todo = @ \ {n}] = [call[w] EXCEPT !.todo = @ \ {n}, !.held = {}]
  BY <1>1, <1>2, Zenon DEF AnyCall
<1>4. call' = [call EXCEPT ![w] = [call[w] EXCEPT !.todo = @ \ {n}, !.held = {}]]
  BY <1>1, <1>3, Zenon
<1> QED BY <1>1, <1>4, DropPlaces, Zenon

\* The outcomes of try_send.
LEMMA TrySendPlaces ==
  ASSUME LoopInv, PlaceInv, NEW w \in Writer, TrySend(w)
  PROVE  PlaceInv'
<1>1. PICK tx \in call[w].held :
        /\ Queued(w, tx[1], tx[2]) \/ Full(w, tx[1], tx[2]) \/ Closed(w, tx[1], tx[2])
        /\ call' = [call EXCEPT ![w].todo = @ \ {tx[1]}, ![w].held = {}]
        /\ UNCHANGED <<view, issued, finished, sent, deaths>>
  BY Zenon DEF TrySend
<1> DEFINE n == tx[1]
           g == tx[2]
<1>2. call \in [Writer -> AnyCall] /\ call[w] \in AnyCall
  BY DEF LoopInv, LoopType
<1>3. n \in Replica /\ g \in Nat /\ tx = <<n, g>>
  BY <1>2 DEF AnyCall
<1>4. g \in DOMAIN chans[n] /\ n \in call[w].todo
  BY <1>3 DEF LoopInv, HeldKnown, PlaceInv, CallsKnown
<1>5. /\ call' = [call EXCEPT ![w] = [call[w] EXCEPT !.todo = @ \ {n}, !.held = {}]]
      /\ UNCHANGED <<issued, finished, sent>>
  BY <1>1, <1>2, Zenon
<1> HIDE DEF n, g
<1>6. CASE Queued(w, n, g)
  <2>1. /\ chans[n][g].open /\ Len(QueueOf(n, g)) < BUFFER_PER_REPLICA /\ UNCHANGED <<lost, misremoved>>
        /\ chans' = [chans EXCEPT ![n] = [@ EXCEPT ![g] =
                       [chans[n][g] EXCEPT !.queue = Append(QueueOf(n, g), call[w].seq)]]]
    BY <1>6 DEF Queued, QueueOf
  <2> QED BY <1>4, <1>5, <2>1, QueuePlaces, Zenon
<1>7. CASE Full(w, n, g) \/ Closed(w, n, g)
  <2>1. /\ lost' = [lost EXCEPT ![n] = @ \cup {call[w].seq}]
        /\ UNCHANGED chans
    BY <1>7 DEF Full, Closed
  <2>2. misremoved => misremoved'
    BY <1>7, Zenon DEF Full, Closed
  <2> QED BY <1>4, <1>5, <2>1, <2>2, DropPlaces, Zenon
<1> QED BY <1>1, <1>6, <1>7 DEF n, g

LEMMA PlaceInit == ReplInit => PlaceInv
<1> SUFFICES ASSUME ReplInit PROVE PlaceInv
  OBVIOUS
<1>1. /\ call = [w \in Writer |-> Idle] /\ finished = {} /\ issued = <<>>
      /\ sent = [n \in Replica |-> <<>>] /\ lost = [n \in Replica |-> {}] /\ chans = [n \in Replica |-> <<>>]
  BY DEF ReplInit
<1>2. \A n \in Replica : DOMAIN chans[n] = {} /\ DOMAIN sent[n] = {} /\ lost[n] = {}
  BY <1>1
<1>3. \A n \in Replica : \A s : ~Waits(n, s) /\ ~Took(n, s) /\ ~Placed(n, s)
  BY <1>2 DEF Waits, Took, Placed
<1>4. \A w \in Writer : call[w].seq = 0 /\ call[w].todo = {} /\ call[w].held = {}
  BY <1>1 DEF Idle
<1>5. PlaceType
  BY <1>1 DEF PlaceType
<1>6. CallsKnown
  BY <1>4 DEF CallsKnown
<1>7. FinishedKnown /\ HasPlace
  BY <1>1, <1>3, <1>4 DEF FinishedKnown, HasPlace
<1>8. ASSUME NEW n \in Replica PROVE PlaceAt(n)
  <2>1. WaitsOnce(n) /\ TookOnce(n) /\ Bounded(n)
    BY <1>2 DEF WaitsOnce, TookOnce, Bounded
  <2>2. Apart(n)
    BY <1>2, <1>3 DEF Apart
  <2>3. InOrder(n)
    BY <1>2 DEF InOrder, TookOrder, NextOrder, WaitOrder
  <2> QED BY <2>1, <2>2, <2>3 DEF PlaceAt
<1> QED BY <1>5, <1>6, <1>7, <1>8 DEF PlaceInv

LEMMA PlaceNext == LoopInv /\ PlaceInv /\ [EngineNext]_replVars => PlaceInv'
<1> SUFFICES ASSUME LoopInv, PlaceInv, [EngineNext]_replVars PROVE PlaceInv'
  OBVIOUS
<1>1. CASE UNCHANGED <<issued, finished, call, chans, sent, lost, misremoved>>
  <2>1. IssuedKept /\ PlaceType'
    BY <1>1 DEF IssuedKept, PlaceInv, PlaceType
  <2>2. \A m \in Replica : PlaceAt(m)' /\ \A s : Placed(m, s)' <=> Placed(m, s)
    BY <1>1, <2>1, ReplicaKept
  <2>3. CallsKnown' /\ FinishedKnown' /\ HasPlace'
    BY <1>1, <2>2, CallsKept
  <2> QED BY <2>1, <2>2, <2>3 DEF PlaceInv
<1>2. CASE ReplNext
  <2>1. ASSUME NEW n \in Replica, ViewChanges(n) PROVE PlaceInv'
    BY <1>1, <2>1 DEF ViewChanges
  <2>2. ASSUME NEW w \in Writer, CallStep(w) PROVE PlaceInv'
    BY <2>2, TrySendPlaces, ReturnPlaces, SkipPlaces, TakePlaces DEF CallStep
  <2>3. ASSUME NEW n \in Replica, LoopStep(n) \/ \E g \in DOMAIN chans[n] : LoopDies(n, g) PROVE PlaceInv'
    BY <2>3, LoopPlaces, ExitPlaces, DiePlaces DEF LoopStep
  <2> QED BY <1>2, <2>1, <2>2, <2>3, BeginPlaces DEF ReplNext
<1>3. ASSUME NEW n \in Node, ViewChanges(n) PROVE PlaceInv'
  BY <1>1, <1>3 DEF ViewChanges
<1>4. UNCHANGED replVars => PlaceInv'
  BY <1>1 DEF replVars
<1> QED BY <1>2, <1>3, <1>4 DEF EngineNext

\* The places of an entry are where it waits, where it was taken and where it is lost.
LEMMA PlacesAre ==
  ASSUME NEW n \in Replica, NEW s
  PROVE  /\ \A p \in Places(n, s) :
              \/ \E g \in DOMAIN chans[n] : \E i \in DOMAIN QueueOf(n, g) :
                   QueueOf(n, g)[i] = s /\ p = <<"waits", g, i>>
              \/ \E i \in DOMAIN sent[n] : sent[n][i] = s /\ p = <<"taken", 0, i>>
              \/ s \in lost[n] /\ p = <<"lost", 0, 0>>
         /\ Placed(n, s) <=> Places(n, s) # {}
<1>1. ASSUME NEW p \in Places(n, s)
      PROVE  \/ \E g \in DOMAIN chans[n] : \E i \in DOMAIN QueueOf(n, g) :
                  QueueOf(n, g)[i] = s /\ p = <<"waits", g, i>>
             \/ \E i \in DOMAIN sent[n] : sent[n][i] = s /\ p = <<"taken", 0, i>>
             \/ s \in lost[n] /\ p = <<"lost", 0, 0>>
  <2> DEFINE W == UNION {{<<"waits", g, i>> : i \in {j \in DOMAIN QueueOf(n, g) : QueueOf(n, g)[j] = s}} :
                          g \in DOMAIN chans[n]}
             T == {<<"taken", 0, i>> : i \in {j \in DOMAIN sent[n] : sent[n][j] = s}}
             L == {<<"lost", 0, 0>> : t \in {s} \cap lost[n]}
  <2>1. p \in W \/ p \in T \/ p \in L
    BY DEF Places, QueueOf
  <2>2. p \in W => \E g \in DOMAIN chans[n] : \E i \in DOMAIN QueueOf(n, g) :
                     QueueOf(n, g)[i] = s /\ p = <<"waits", g, i>>
    BY Zenon
  <2>3. p \in T => \E i \in DOMAIN sent[n] : sent[n][i] = s /\ p = <<"taken", 0, i>>
    BY Zenon
  <2>4. p \in L => s \in lost[n] /\ p = <<"lost", 0, 0>>
    BY Zenon
  <2> HIDE DEF W, T, L
  <2> QED BY <2>1, <2>2, <2>3, <2>4
<1>2. ASSUME NEW g \in DOMAIN chans[n], NEW i \in DOMAIN QueueOf(n, g), QueueOf(n, g)[i] = s
      PROVE  <<"waits", g, i>> \in Places(n, s)
  <2> DEFINE Wait(h) == {<<"waits", h, x>> : x \in {j \in DOMAIN QueueOf(n, h) : QueueOf(n, h)[j] = s}}
  <2>1. <<"waits", g, i>> \in Wait(g)
    BY <1>2, Zenon
  <2>2. UNION {Wait(h) : h \in DOMAIN chans[n]} \subseteq Places(n, s)
    BY DEF Places, QueueOf
  <2> HIDE DEF Wait
  <2> QED BY <2>1, <2>2, Zenon
<1>3. ASSUME NEW i \in DOMAIN sent[n], sent[n][i] = s
      PROVE  <<"taken", 0, i>> \in Places(n, s)
  BY <1>3, Zenon DEF Places
<1>4. s \in lost[n] => <<"lost", 0, 0>> \in Places(n, s)
  BY Zenon DEF Places
<1>5. Placed(n, s) => Places(n, s) # {}
  BY <1>2, <1>3, <1>4, Zenon DEF Placed, Waits, Took
<1>6. Places(n, s) # {} => Placed(n, s)
  BY <1>1, Zenon DEF Placed, Waits, Took
<1> QED BY <1>1, <1>5, <1>6, Zenon

\* Two places of an entry are one.
LEMMA OnePlace ==
  ASSUME NEW n \in Replica, PlaceAt(n), NEW s \in Nat,
         NEW p \in Places(n, s), NEW q \in Places(n, s)
  PROVE  p = q
<1> DEFINE IsWait(r) == \E g \in DOMAIN chans[n] : \E i \in DOMAIN QueueOf(n, g) :
                          QueueOf(n, g)[i] = s /\ r = <<"waits", g, i>>
           IsTaken(r) == \E i \in DOMAIN sent[n] : sent[n][i] = s /\ r = <<"taken", 0, i>>
           IsLost(r) == s \in lost[n] /\ r = <<"lost", 0, 0>>
<1>1. /\ ~(Waits(n, s) /\ Took(n, s)) /\ (s \in lost[n] => ~Waits(n, s) /\ ~Took(n, s))
      /\ WaitsOnce(n) /\ TookOnce(n)
  BY DEF PlaceAt, Apart
<1>2. /\ IsWait(p) \/ IsTaken(p) \/ IsLost(p)
      /\ IsWait(q) \/ IsTaken(q) \/ IsLost(q)
  <2>1. \A r \in Places(n, s) : IsWait(r) \/ IsTaken(r) \/ IsLost(r)
    BY PlacesAre
  <2> HIDE DEF IsWait, IsTaken, IsLost
  <2> QED BY <2>1
<1>3. \A r : IsWait(r) => Waits(n, s)
  BY Zenon DEF Waits
<1>4. \A r : IsTaken(r) => Took(n, s)
  BY Zenon DEF Took
<1>5. IsWait(p) /\ IsWait(q) => p = q
  BY <1>1, Zenon DEF WaitsOnce
<1>6. IsTaken(p) /\ IsTaken(q) => p = q
  BY <1>1, Zenon DEF TookOnce
<1>7. /\ IsLost(p) => s \in lost[n] /\ p = <<"lost", 0, 0>>
      /\ IsLost(q) => s \in lost[n] /\ q = <<"lost", 0, 0>>
  OBVIOUS
<1> HIDE DEF IsWait, IsTaken, IsLost
<1> QED BY <1>1, <1>2, <1>3, <1>4, <1>5, <1>6, <1>7, Zenon

\* An entry is in at most one place for each replica - a place of one channel, one
\* taken position of the loops, or lost - and has exactly one, for exactly the
\* replicas of its call, when replicate has returned; whichever way calls, loops
\* that end and membership changes interleave (replication.rs:61-112, 139-159).
THEOREM EntriesOnce == ReplSpec => []EachOnce
<1>1. ReplInit => LoopInv /\ PlaceInv
  BY LoopInit, PlaceInit
<1>2. LoopInv /\ PlaceInv => EachOnce
  <2> SUFFICES ASSUME LoopInv, PlaceInv, NEW n \in Replica, NEW s \in DOMAIN issued
               PROVE  /\ \A p, q \in Places(n, s) : p = q
                      /\ s \in finished /\ n \in issued[s].to => Places(n, s) # {}
                      /\ Places(n, s) # {} => n \in issued[s].to
    BY DEF EachOnce
  <2>1. s \in Nat
    BY DEF LoopInv, LoopType
  <2>2. \A p, q \in Places(n, s) : p = q
    BY <2>1, OnePlace DEF PlaceInv
  <2>3. /\ Placed(n, s) => n \in issued[s].to
        /\ s \in finished /\ n \in issued[s].to => Placed(n, s)
    BY <2>1 DEF PlaceInv, HasPlace
  <2> QED BY <2>2, <2>3, PlacesAre
<1> QED BY <1>1, <1>2, LoopNext, PlaceNext, PTL DEF ReplSpec

\* While one loop serves a replica, an entry whose call began after another call
\* returned is not taken before that call's entry (replication.rs:61-112, 139-159).
THEOREM CallsInOrder == ReplSpec => []CallOrder
<1>1. ReplInit => LoopInv /\ PlaceInv
  BY LoopInit, PlaceInit
<1>2. LoopInv /\ PlaceInv => CallOrder
  BY DEF PlaceInv, PlaceAt, InOrder, TookOrder, CallOrder
<1> QED BY <1>1, <1>2, LoopNext, PlaceNext, PTL DEF ReplSpec
=============================================================================
