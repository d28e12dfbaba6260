----------------------------- MODULE WalProofs -----------------------------
(***************************************************************************)
(* For any entries, any capacity of the buffer, any number of checkpoints  *)
(* from the second handle, crashes, failed writes and calls of recover:    *)
(* recover gives back the whole entries behind the last checkpoint as long *)
(* as the log is not torn, and never what was not appended.                *)
(***************************************************************************)
EXTENDS Wal, TLAPS

\* What the writers' handle has written: the file and the buffer behind it.
Log == file \o buf

DataUnit(e, i) == [kind |-> "data", entry |-> e, part |-> i]
HeaderUnit(e) == [kind |-> "header", entry |-> e, part |-> 0]
Mark == [kind |-> "checkpoint", entry |-> None, part |-> 0]
IsEnd(u) == u.kind = "data" /\ u.part = DataLen
Opens(u) == u.kind = "header" \/ (u.kind = "data" /\ u.part < DataLen)

LEMMA UnitFacts ==
  /\ \A e \in Entry : HeaderUnit(e) \in Unit /\ HeaderUnit(e).kind = "header" /\ HeaderUnit(e).entry = e
                      /\ HeaderUnit(e).part = 0
  /\ \A e \in Entry, i \in 1..DataLen : DataUnit(e, i) \in Unit /\ DataUnit(e, i).kind = "data"
                      /\ DataUnit(e, i).entry = e /\ DataUnit(e, i).part = i
  /\ Mark \in Unit /\ Mark.kind = "checkpoint"
BY WalAssumption DEF HeaderUnit, DataUnit, Mark, Unit

LEMMA UnitIsData ==
  ASSUME NEW u \in Unit, u.kind = "data" PROVE u = DataUnit(u.entry, u.part) /\ u.part \in 0..DataLen
BY DEF Unit, DataUnit

LEMMA EndIs ==
  ASSUME NEW u \in Unit PROVE IsEnd(u) => u = EndOf(u.entry)
BY DEF Unit, IsEnd, EndOf

LEMMA EndOfIs == \A e : IsEnd(EndOf(e)) /\ EndOf(e).entry = e /\ EndOf(e).kind = "data"
BY DEF IsEnd, EndOf

LEMMA Writes ==
  /\ \A e \in Entry : Header(e) \in Seq(Unit) /\ Len(Header(e)) = 1 /\ Header(e)[1] = HeaderUnit(e)
  /\ \A e \in Entry : Data(e) \in Seq(Unit) /\ Len(Data(e)) = DataLen /\ \A i \in 1..DataLen : Data(e)[i] = DataUnit(e, i)
  /\ CheckpointEntry \in Seq(Unit) /\ Len(CheckpointEntry) = 1 /\ CheckpointEntry[1] = Mark
<1>1. \A e \in Entry : Header(e) \in Seq(Unit) /\ Len(Header(e)) = 1 /\ Header(e)[1] = HeaderUnit(e)
  <2> TAKE e \in Entry
  <2>1. Header(e) = <<HeaderUnit(e)>> /\ HeaderUnit(e) \in Unit
    BY UnitFacts DEF Header, HeaderUnit
  <2> QED BY <2>1
<1>2. ASSUME NEW e \in Entry
      PROVE  Data(e) \in Seq(Unit) /\ Len(Data(e)) = DataLen /\ \A i \in 1..DataLen : Data(e)[i] = DataUnit(e, i)
  <2>1. Data(e) = [i \in 1..DataLen |-> DataUnit(e, i)]
    BY DEF Data, DataUnit
  <2>2. \A i \in 1..DataLen : DataUnit(e, i) \in Unit
    BY UnitFacts
  <2>3. Data(e) \in [1..DataLen -> Unit]
    BY <2>1, <2>2
  <2>4. DataLen \in Nat
    BY WalAssumption
  <2>5. Data(e) \in Seq(Unit) /\ Len(Data(e)) = DataLen
    BY <2>3, <2>4
  <2> QED BY <2>1, <2>5, Zenon
<1>3. CheckpointEntry \in Seq(Unit) /\ Len(CheckpointEntry) = 1 /\ CheckpointEntry[1] = Mark
  <2>1. CheckpointEntry = <<Mark>> /\ Mark \in Unit
    BY UnitFacts DEF CheckpointEntry, Mark
  <2> QED BY <2>1
<1> QED BY <1>1, <1>2, <1>3

LEMMA Joined ==
  ASSUME NEW p \in Seq(Unit), NEW q \in Seq(Unit)
  PROVE  /\ p \o q \in Seq(Unit) /\ Len(p \o q) = Len(p) + Len(q)
         /\ \A i \in 1..Len(p) : (p \o q)[i] = p[i]
         /\ \A i \in 1..Len(q) : (p \o q)[Len(p) + i] = q[i]
OBVIOUS

LEMMA Assoc ==
  ASSUME NEW p \in Seq(Unit), NEW q \in Seq(Unit), NEW r \in Seq(Unit)
  PROVE  (p \o q) \o r = p \o (q \o r)
OBVIOUS

LEMMA NoneBehind ==
  ASSUME NEW p \in Seq(Unit)
  PROVE  p \o <<>> = p /\ <<>> \o p = p
OBVIOUS
-----------------------------------------------------------------------------
(* What is known of a log L, torn or not, with h the entry whose data is   *)
(* to come, ap the entries appended and tr the entries tried.              *)
Known(L, tr) == \A i \in 1..Len(L) : L[i].kind # "checkpoint" => L[i].entry \in tr
Unique(L) == \A i, j \in 1..Len(L) : L[i] = L[j] /\ L[i].kind # "checkpoint" => i = j
Fresh(L, h, ap, tr) ==
  h # None => /\ h \in tr
              /\ \A i \in 1..Len(L) : L[i].kind = "data" => L[i].entry # h
              /\ \A a \in 1..Len(ap) : ap[a] # h
Tried(ap, tr) == \A a \in 1..Len(ap) : ap[a] \in tr /\ \A b \in 1..Len(ap) : ap[a] = ap[b] => a = b
Ended(L, ap) == \A i \in 1..Len(L) : IsEnd(L[i]) => \E a \in 1..Len(ap) : ap[a] = L[i].entry
Ordered(L, ap) ==
  \A i, j \in 1..Len(L) : \A a, b \in 1..Len(ap) :
    IsEnd(L[i]) /\ IsEnd(L[j]) /\ ap[a] = L[i].entry /\ ap[b] = L[j].entry /\ i < j => a < b
LogInv(L, h, ap, tr) ==
  /\ Known(L, tr) /\ Unique(L) /\ Fresh(L, h, ap, tr) /\ Tried(ap, tr)
  /\ Ended(L, ap) /\ Ordered(L, ap)

\* M is L with u at the end.
Longer(M, L, u) ==
  /\ Len(M) = Len(L) + Len(u)
  /\ \A i \in 1..Len(L) : M[i] = L[i]
  /\ \A i \in 1..Len(u) : M[Len(L) + i] = u[i]
Shorter(M, L) == Len(M) <= Len(L) /\ \A i \in 1..Len(M) : M[i] = L[i]

\* A cut log is as good, and nothing is to come.
LEMMA LogCut ==
  ASSUME NEW L \in Seq(Unit), NEW M \in Seq(Unit), NEW h, NEW ap \in Seq(Entry), NEW tr,
         LogInv(L, h, ap, tr), Shorter(M, L)
  PROVE  LogInv(M, None, ap, tr)
<1>1. Len(L) \in Nat /\ Len(M) \in Nat /\ \A i \in 1..Len(M) : i \in 1..Len(L) /\ M[i] = L[i]
  BY DEF Shorter
<1>2. Known(M, tr)
  BY <1>1 DEF LogInv, Known
<1>3. Unique(M)
  BY <1>1 DEF LogInv, Unique
<1>4. Ended(M, ap)
  BY <1>1 DEF LogInv, Ended
<1>5. Ordered(M, ap)
  BY <1>1 DEF LogInv, Ordered
<1> QED BY <1>2, <1>3, <1>4, <1>5 DEF LogInv, Fresh

\* The header of a new entry.
LEMMA LogHeader ==
  ASSUME NEW L \in Seq(Unit), NEW M \in Seq(Unit), NEW ap \in Seq(Entry), NEW tr, NEW e \in Entry, e \notin tr,
         LogInv(L, None, ap, tr), Longer(M, L, Header(e))
  PROVE  LogInv(M, e, ap, tr \cup {e})
<1> DEFINE n == Len(L) + 1
<1>1. /\ Len(L) \in Nat /\ Len(M) = n /\ M[n] = HeaderUnit(e)
      /\ \A i \in 1..Len(L) : M[i] = L[i]
      /\ \A i \in 1..Len(M) : i \in 1..Len(L) \/ i = n
  <2>1. Len(Header(e)) = 1 /\ Header(e)[1] = HeaderUnit(e)
    BY Writes
  <2>2. Len(L) \in Nat /\ Len(M) = n /\ (\A i \in 1..Len(L) : M[i] = L[i]) /\ M[Len(L) + 1] = Header(e)[1]
    BY <2>1 DEF Longer
  <2> QED BY <2>1, <2>2
<1>2. HeaderUnit(e).kind = "header" /\ HeaderUnit(e).entry = e /\ ~IsEnd(HeaderUnit(e))
  BY UnitFacts DEF IsEnd
<1> HIDE DEF n
<1>3. \A i \in 1..Len(L) : M[i] # HeaderUnit(e) /\ (L[i].kind = "data" => L[i].entry # e)
  BY <1>1, <1>2 DEF LogInv, Known
<1>4. Known(M, tr \cup {e})
  BY <1>1, <1>2 DEF LogInv, Known
<1>5. Unique(M)
  BY <1>1, <1>3 DEF LogInv, Unique
<1>6. Fresh(M, e, ap, tr \cup {e})
  <2>1. \A i \in 1..Len(M) : M[i].kind = "data" => M[i].entry # e
    BY <1>1, <1>2, <1>3
  <2>2. \A a \in 1..Len(ap) : ap[a] # e
    BY DEF LogInv, Tried
  <2> QED BY <2>1, <2>2 DEF Fresh
<1>7. Tried(ap, tr \cup {e})
  BY DEF LogInv, Tried
<1>8. Ended(M, ap)
  BY <1>1, <1>2, Zenon DEF LogInv, Ended
<1>9. Ordered(M, ap)
  <2>1. \A i \in 1..Len(M) : IsEnd(M[i]) => i \in 1..Len(L) /\ M[i] = L[i]
    BY <1>1, <1>2
  <2> QED BY <2>1 DEF LogInv, Ordered
<1> QED BY <1>4, <1>5, <1>6, <1>7, <1>8, <1>9 DEF LogInv

\* The data of the entry, whose append then returns Ok.
LEMMA LogData ==
  ASSUME NEW L \in Seq(Unit), NEW M \in Seq(Unit), NEW ap \in Seq(Entry), NEW tr, NEW e \in Entry,
         LogInv(L, e, ap, tr), Longer(M, L, Data(e))
  PROVE  LogInv(M, None, Append(ap, e), tr)
<1> DEFINE A == Append(ap, e)
<1>0. /\ Len(ap) \in Nat /\ Len(A) = Len(ap) + 1 /\ A[Len(ap) + 1] = e /\ \A a \in 1..Len(ap) : A[a] = ap[a]
      /\ \A a \in 1..Len(A) : a \in 1..Len(ap) \/ a = Len(ap) + 1
  OBVIOUS
<1> HIDE DEF A
<1>1. /\ Len(L) \in Nat /\ DataLen \in Nat /\ DataLen > 0 /\ Len(M) = Len(L) + DataLen
      /\ \A i \in 1..Len(L) : M[i] = L[i]
      /\ \A i \in 1..DataLen : M[Len(L) + i] = DataUnit(e, i)
  <2>1. Len(Data(e)) = DataLen /\ \A i \in 1..DataLen : Data(e)[i] = DataUnit(e, i)
    BY Writes
  <2>2. Len(L) \in Nat /\ DataLen \in Nat /\ DataLen > 0
    BY WalAssumption
  <2> QED BY <2>1, <2>2 DEF Longer
<1>2. \A m \in 1..DataLen : DataUnit(e, m).kind = "data" /\ DataUnit(e, m).entry = e /\ DataUnit(e, m).part = m
  BY UnitFacts
<1>3. /\ e # None /\ e \in tr /\ (\A i \in 1..Len(L) : L[i].kind = "data" => L[i].entry # e)
      /\ \A a \in 1..Len(ap) : ap[a] # e
  BY WalAssumption DEF LogInv, Fresh
<1>4. ASSUME NEW i \in 1..Len(M), i \notin 1..Len(L)
      PROVE  M[i].kind = "data" /\ M[i].entry = e /\ M[i].part = i - Len(L) /\ i > Len(L)
  <2>1. i - Len(L) \in 1..DataLen /\ i = Len(L) + (i - Len(L)) /\ i > Len(L)
    BY <1>1, <1>4
  <2>2. PICK m \in 1..DataLen : m = i - Len(L)
    BY <2>1
  <2>3. M[i] = DataUnit(e, m)
    BY <1>1, <2>1, <2>2
  <2> QED BY <1>2, <2>1, <2>2, <2>3
<1>5. Known(M, tr)
  <2> SUFFICES ASSUME NEW i \in 1..Len(M), M[i].kind # "checkpoint" PROVE M[i].entry \in tr
    BY DEF Known
  <2>1. CASE i \in 1..Len(L)
    BY <1>1, <2>1 DEF LogInv, Known
  <2> QED BY <1>3, <1>4, <2>1
<1>6. Unique(M)
  <2> SUFFICES ASSUME NEW i \in 1..Len(M), NEW j \in 1..Len(M), M[i] = M[j], M[i].kind # "checkpoint" PROVE i = j
    BY DEF Unique
  <2>1. CASE i \in 1..Len(L) /\ j \in 1..Len(L)
    BY <1>1, <2>1 DEF LogInv, Unique
  <2>2. ASSUME NEW k \in 1..Len(M), NEW l \in 1..Len(M), M[k] = M[l], k \in 1..Len(L), l \notin 1..Len(L) PROVE FALSE
    <3>1. M[l].kind = "data" /\ M[l].entry = e
      BY <1>4, <2>2
    <3> QED BY <1>1, <1>3, <2>2, <3>1
  <2>3. CASE i \notin 1..Len(L) /\ j \notin 1..Len(L)
    <3>1. M[i].part = i - Len(L) /\ M[j].part = j - Len(L)
      BY <1>4, <2>3
    <3> QED BY <1>1, <3>1
  <2> QED BY <2>1, <2>2, <2>3
<1>7. Tried(A, tr)
  <2>1. Tried(ap, tr)
    BY Zenon DEF LogInv
  <2>2. \A a \in 1..Len(A) : A[a] \in tr
    BY <1>0, <1>3, <2>1 DEF Tried
  <2>3. ASSUME NEW a \in 1..Len(A), NEW b \in 1..Len(A), A[a] = A[b] PROVE a = b
    <3>1. CASE a \in 1..Len(ap) /\ b \in 1..Len(ap)
      <4>1. ap[a] = ap[b]
        BY <1>0, <2>3, <3>1
      <4> QED BY <2>1, <3>1, <4>1, Zenon DEF Tried
    <3>2. CASE a \in 1..Len(ap) /\ b \notin 1..Len(ap)
      BY <1>0, <1>3, <2>3, <3>2
    <3>3. CASE a \notin 1..Len(ap) /\ b \in 1..Len(ap)
      BY <1>0, <1>3, <2>3, <3>3
    <3>4. CASE a \notin 1..Len(ap) /\ b \notin 1..Len(ap)
      BY <1>0, <3>4
    <3> QED BY <3>1, <3>2, <3>3, <3>4
  <2> QED BY <2>2, <2>3 DEF Tried
<1>8. Ended(M, A)
  <2> SUFFICES ASSUME NEW i \in 1..Len(M), IsEnd(M[i]) PROVE \E a \in 1..Len(A) : A[a] = M[i].entry
    BY DEF Ended
  <2>1. CASE i \in 1..Len(L)
    <3>1. PICK a \in 1..Len(ap) : ap[a] = M[i].entry
      BY <1>1, <2>1, Zenon DEF LogInv, Ended
    <3> QED BY <1>0, <3>1
  <2>2. CASE i \notin 1..Len(L)
    <3>1. M[i].entry = e
      BY <1>4, <2>2
    <3> QED BY <1>0, <3>1
  <2> QED BY <2>1, <2>2
<1>9. Ordered(M, A)
  <2> SUFFICES ASSUME NEW i \in 1..Len(M), NEW j \in 1..Len(M), NEW a \in 1..Len(A), NEW b \in 1..Len(A),
                      IsEnd(M[i]), IsEnd(M[j]), A[a] = M[i].entry, A[b] = M[j].entry, i < j
               PROVE  a < b
    BY DEF Ordered
  <2>1. CASE j \in 1..Len(L)
    <3>1. i \in 1..Len(L)
      BY <1>1, <2>1
    <3>2. a \in 1..Len(ap) /\ b \in 1..Len(ap)
      BY <1>0, <1>1, <1>3, <2>1, <3>1, Zenon DEF IsEnd
    <3> QED BY <1>0, <1>1, <2>1, <3>1, <3>2, Zenon DEF LogInv, Ordered
  <2>2. CASE j \notin 1..Len(L)
    <3>1. M[j].entry = e
      BY <1>4, <2>2
    <3>2. b = Len(ap) + 1
      BY <1>0, <1>3, <3>1
    <3>3. i \in 1..Len(L)
      <4>1. ASSUME i \notin 1..Len(L) PROVE FALSE
        <5>1. M[i].part = i - Len(L) /\ M[j].part = j - Len(L)
          BY <1>4, <2>2, <4>1
        <5>2. M[i].part = M[j].part
          BY DEF IsEnd
        <5> QED BY <1>1, <5>1, <5>2
      <4> QED BY <4>1
    <3>4. a # Len(ap) + 1
      BY <1>0, <1>1, <1>3, <3>3, Zenon DEF IsEnd
    <3> QED BY <1>0, <3>2, <3>4
  <2> QED BY <2>1, <2>2
<1> QED BY <1>5, <1>6, <1>7, <1>8, <1>9 DEF LogInv, Fresh, A

\* A checkpoint goes between the file, of n units, and what is behind it.
Marked(M, L, n) ==
  /\ Len(M) = Len(L) + 1
  /\ \A i \in 1..n : M[i] = L[i]
  /\ M[n + 1] = Mark
  /\ \A i \in (n + 1)..Len(L) : M[i + 1] = L[i]

LEMMA MarkedUnits ==
  ASSUME NEW L \in Seq(Unit), NEW M \in Seq(Unit), NEW n \in 0..Len(L), Marked(M, L, n), NEW i \in 1..Len(M)
  PROVE  \/ i <= n /\ i \in 1..Len(L) /\ M[i] = L[i]
         \/ i = n + 1 /\ M[i] = Mark
         \/ i > n + 1 /\ i - 1 \in 1..Len(L) /\ M[i] = L[i - 1]
<1>1. Len(L) \in Nat
  OBVIOUS
<1>2. CASE i > n + 1
  <2>1. i - 1 \in (n + 1)..Len(L) /\ (i - 1) + 1 = i
    BY <1>1, <1>2 DEF Marked
  <2>2. PICK k \in (n + 1)..Len(L) : k = i - 1
    BY <2>1
  <2>3. M[k + 1] = L[k]
    BY <2>2 DEF Marked
  <2> QED BY <1>1, <1>2, <2>1, <2>2, <2>3
<1>3. CASE i <= n
  BY <1>1, <1>3 DEF Marked
<1>4. CASE i = n + 1
  BY <1>4 DEF Marked
<1> QED BY <1>1, <1>2, <1>3, <1>4

\* The place a unit of M had in L.
Was(i, n) == IF i <= n THEN i ELSE i - 1

LEMMA LogMark ==
  ASSUME NEW L \in Seq(Unit), NEW M \in Seq(Unit), NEW h, NEW ap \in Seq(Entry), NEW tr, NEW n \in 0..Len(L),
         LogInv(L, h, ap, tr), Marked(M, L, n)
  PROVE  LogInv(M, h, ap, tr)
<1>1. Len(L) \in Nat /\ n \in Nat /\ Len(M) \in Nat
  OBVIOUS
<1>2. ASSUME NEW i \in 1..Len(M), M[i].kind # "checkpoint"
      PROVE  Was(i, n) \in 1..Len(L) /\ M[i] = L[Was(i, n)]
  BY <1>1, <1>2, MarkedUnits, UnitFacts DEF Was
<1>3. ASSUME NEW i \in 1..Len(M), NEW j \in 1..Len(M), M[i].kind # "checkpoint", M[j].kind # "checkpoint"
      PROVE  (i < j <=> Was(i, n) < Was(j, n)) /\ (Was(i, n) = Was(j, n) => i = j)
  <2>1. i # n + 1 /\ j # n + 1
    BY <1>3, UnitFacts DEF Marked
  <2> QED BY <1>1, <2>1 DEF Was
<1>4. \A i \in 1..Len(M) : IsEnd(M[i]) \/ M[i].kind = "data" => M[i].kind # "checkpoint"
  BY DEF IsEnd
<1>5. Known(M, tr)
  BY <1>2 DEF LogInv, Known
<1>6. Unique(M)
  <2> SUFFICES ASSUME NEW i \in 1..Len(M), NEW j \in 1..Len(M), M[i] = M[j], M[i].kind # "checkpoint" PROVE i = j
    BY DEF Unique
  <2>1. Was(i, n) = Was(j, n)
    <3>1. Was(i, n) \in 1..Len(L) /\ M[i] = L[Was(i, n)]
      BY <1>2
    <3>2. Was(j, n) \in 1..Len(L) /\ M[j] = L[Was(j, n)]
      BY <1>2
    <3> QED BY <3>1, <3>2, Zenon DEF LogInv, Unique
  <2> QED BY <1>3, <2>1
<1>7. Fresh(M, h, ap, tr)
  BY <1>2, <1>4 DEF LogInv, Fresh
<1>8. Ended(M, ap)
  BY <1>2, <1>4, Zenon DEF LogInv, Ended
<1>9. Ordered(M, ap)
  <2> SUFFICES ASSUME NEW i \in 1..Len(M), NEW j \in 1..Len(M), NEW a \in 1..Len(ap), NEW b \in 1..Len(ap),
                      IsEnd(M[i]), IsEnd(M[j]), ap[a] = M[i].entry, ap[b] = M[j].entry, i < j
               PROVE  a < b
    BY DEF Ordered
  <2>1. PICK k \in 1..Len(L), l \in 1..Len(L) : M[i] = L[k] /\ M[j] = L[l] /\ k < l
    BY <1>2, <1>3, <1>4
  <2> QED BY <2>1 DEF LogInv, Ordered
<1> QED BY <1>5, <1>6, <1>7, <1>8, <1>9 DEF LogInv
-----------------------------------------------------------------------------
(* The form of a log that is not torn: an entry is a header and its data,  *)
(* in order and with nothing between, and the last one may lack its data.  *)
Starts(u) == u.kind = "checkpoint" \/ (u.kind = "header" /\ u.part = 0)
Follows(u, v) ==
  IF Opens(u) THEN v.kind = "data" /\ v.entry = u.entry /\ v.part = u.part + 1 ELSE Starts(v)
Form(L, h) ==
  /\ Len(L) > 0 => Starts(L[1])
  /\ \A i \in 1..Len(L) : i + 1 \in 1..Len(L) => Follows(L[i], L[i + 1])
  /\ IF h = None THEN Len(L) > 0 => ~Opens(L[Len(L)]) ELSE Len(L) > 0 /\ L[Len(L)] = HeaderUnit(h)

LEMMA FormCut ==
  ASSUME NEW L \in Seq(Unit), NEW M \in Seq(Unit), NEW h, Form(L, h), Shorter(M, L), Len(M) > 0 => ~Opens(M[Len(M)])
  PROVE  Form(M, None)
<1>1. Len(L) \in Nat /\ Len(M) \in Nat /\ \A i \in 1..Len(M) : i \in 1..Len(L) /\ M[i] = L[i]
  BY DEF Shorter
<1>2. Len(M) > 0 => Starts(M[1])
  <2> SUFFICES ASSUME Len(M) > 0 PROVE Starts(M[1])
    OBVIOUS
  <2>1. 1 \in 1..Len(M) /\ Len(L) > 0
    BY <1>1 DEF Shorter
  <2> QED BY <1>1, <2>1 DEF Form
<1>3. \A i \in 1..Len(M) : i + 1 \in 1..Len(M) => Follows(M[i], M[i + 1])
  BY <1>1 DEF Form
<1> QED BY <1>2, <1>3 DEF Form

LEMMA FormHeader ==
  ASSUME NEW L \in Seq(Unit), NEW M \in Seq(Unit), NEW e \in Entry, Form(L, None), Longer(M, L, Header(e))
  PROVE  Form(M, e)
<1> DEFINE n == Len(L) + 1
<1>1. /\ Len(L) \in Nat /\ Len(M) = n /\ M[n] = HeaderUnit(e)
      /\ \A i \in 1..Len(L) : M[i] = L[i]
      /\ \A i \in 1..Len(M) : i \in 1..Len(L) \/ i = n
  <2>1. Len(Header(e)) = 1 /\ Header(e)[1] = HeaderUnit(e)
    BY Writes
  <2>2. Len(L) \in Nat /\ Len(M) = n /\ (\A i \in 1..Len(L) : M[i] = L[i]) /\ M[Len(L) + 1] = Header(e)[1]
    BY <2>1 DEF Longer
  <2> QED BY <2>1, <2>2
<1>2. Starts(HeaderUnit(e)) /\ e # None
  BY UnitFacts, WalAssumption DEF Starts
<1>3. Starts(M[1])
  BY <1>1, <1>2 DEF Form
<1>4. ASSUME NEW i \in 1..Len(M), i + 1 \in 1..Len(M) PROVE Follows(M[i], M[i + 1])
  <2>1. CASE i + 1 \in 1..Len(L)
    BY <1>1, <2>1 DEF Form
  <2>2. CASE i + 1 \notin 1..Len(L)
    <3>1. i = Len(L) /\ Len(L) > 0 /\ i + 1 = n
      BY <1>1, <1>4, <2>2
    <3>2. ~Opens(M[i]) /\ Starts(M[i + 1])
      BY <1>1, <1>2, <3>1 DEF Form
    <3> QED BY <3>2 DEF Follows
  <2> QED BY <2>1, <2>2
<1> QED BY <1>1, <1>2, <1>3, <1>4 DEF Form

LEMMA FormData ==
  ASSUME NEW L \in Seq(Unit), NEW M \in Seq(Unit), NEW e \in Entry, Form(L, e), Longer(M, L, Data(e))
  PROVE  Form(M, None)
<1>1. /\ Len(L) \in Nat /\ DataLen \in Nat /\ DataLen > 0 /\ Len(M) = Len(L) + DataLen
      /\ \A i \in 1..Len(L) : M[i] = L[i]
      /\ \A i \in 1..DataLen : M[Len(L) + i] = DataUnit(e, i)
  <2>1. Len(Data(e)) = DataLen /\ \A i \in 1..DataLen : Data(e)[i] = DataUnit(e, i)
    BY Writes
  <2>2. Len(L) \in Nat /\ DataLen \in Nat /\ DataLen > 0
    BY WalAssumption
  <2> QED BY <2>1, <2>2 DEF Longer
<1>2. /\ \A m \in 1..DataLen : DataUnit(e, m).kind = "data" /\ DataUnit(e, m).entry = e /\ DataUnit(e, m).part = m
      /\ HeaderUnit(e).kind = "header" /\ HeaderUnit(e).entry = e /\ HeaderUnit(e).part = 0
  BY UnitFacts
<1>3. Len(L) > 0 /\ L[Len(L)] = HeaderUnit(e) /\ M[Len(L)] = HeaderUnit(e)
  BY <1>1, WalAssumption DEF Form
<1>4. ASSUME NEW m \in 1..DataLen
      PROVE  M[Len(L) + m].kind = "data" /\ M[Len(L) + m].entry = e /\ M[Len(L) + m].part = m
  <2>1. M[Len(L) + m] = DataUnit(e, m)
    BY <1>1, Zenon
  <2> QED BY <1>2, <2>1, Zenon
<1>5. Starts(M[1])
  BY <1>1, <1>3 DEF Form
<1>6. ASSUME NEW i \in 1..Len(M), i + 1 \in 1..Len(M) PROVE Follows(M[i], M[i + 1])
  <2>1. CASE i + 1 \in 1..Len(L)
    BY <1>1, <2>1 DEF Form
  <2>2. CASE i = Len(L)
    <3>1. M[i + 1].kind = "data" /\ M[i + 1].entry = e /\ M[i + 1].part = 1
      BY <1>1, <1>4, <2>2
    <3> QED BY <1>2, <1>3, <2>2, <3>1 DEF Follows, Opens
  <2>3. CASE i > Len(L)
    <3>1. i - Len(L) \in 1..DataLen /\ (i - Len(L)) + 1 \in 1..DataLen /\ i = Len(L) + (i - Len(L))
      BY <1>1, <1>6, <2>3
    <3>2. PICK m \in 1..DataLen : m = i - Len(L) /\ m + 1 \in 1..DataLen /\ i = Len(L) + m
      BY <3>1
    <3>3. i + 1 = Len(L) + (m + 1)
      BY <1>1, <3>2
    <3>4. /\ M[i].kind = "data" /\ M[i].entry = e /\ M[i].part = m
          /\ M[i + 1].kind = "data" /\ M[i + 1].entry = e /\ M[i + 1].part = m + 1
      BY <1>4, <3>2, <3>3
    <3>5. m < DataLen
      BY <1>1, <3>2
    <3> QED BY <3>4, <3>5 DEF Follows, Opens
  <2>4. i + 1 \in 1..Len(L) \/ i = Len(L) \/ i > Len(L)
    BY <1>1, <1>6
  <2> QED BY <2>1, <2>2, <2>3, <2>4
<1>7. ~Opens(M[Len(M)])
  <2>1. M[Len(M)].kind = "data" /\ M[Len(M)].part = DataLen
    BY <1>1, <1>4
  <2> QED BY <1>1, <2>1 DEF Opens
<1> QED BY <1>5, <1>6, <1>7 DEF Form

LEMMA FormMark ==
  ASSUME NEW L \in Seq(Unit), NEW M \in Seq(Unit), NEW h \in Entry \cup {None}, NEW n \in 0..Len(L),
         Form(L, h), Marked(M, L, n), n > 0 => ~Opens(L[n])
  PROVE  Form(M, h)
<1>1. Len(L) \in Nat /\ n \in Nat /\ Len(M) = Len(L) + 1 /\ M[n + 1] = Mark /\ (\A i \in 1..n : M[i] = L[i])
  BY DEF Marked
<1>2. \A i \in 1..Len(L) : i > n => M[i + 1] = L[i]
  BY <1>1 DEF Marked
<1>3. Starts(Mark) /\ ~Opens(Mark)
  BY UnitFacts DEF Starts, Opens
<1>4. Starts(M[1])
  <2>1. CASE n = 0
    BY <1>1, <1>3, <2>1
  <2>2. CASE n > 0
    BY <1>1, <2>2 DEF Form
  <2> QED BY <1>1, <2>1, <2>2
<1>5. ASSUME NEW i \in 1..Len(M), i + 1 \in 1..Len(M) PROVE Follows(M[i], M[i + 1])
  <2>1. CASE i < n
    <3>1. i \in 1..n /\ i + 1 \in 1..n /\ i \in 1..Len(L) /\ i + 1 \in 1..Len(L)
      BY <1>1, <2>1
    <3> QED BY <1>1, <3>1 DEF Form
  <2>2. CASE i = n
    BY <1>1, <1>3, <2>2 DEF Follows
  <2>3. CASE i = n + 1
    <3>1. n + 1 \in 1..Len(L) /\ M[i + 1] = L[n + 1]
      BY <1>1, <1>2, <1>5, <2>3
    <3>2. Starts(L[n + 1])
      <4>1. CASE n = 0
        BY <1>1, <3>1, <4>1 DEF Form
      <4>2. CASE n > 0
        <5>1. n \in 1..Len(L) /\ Follows(L[n], L[n + 1])
          BY <1>1, <3>1, <4>2 DEF Form
        <5> QED BY <4>2, <5>1 DEF Follows
      <4> QED BY <1>1, <4>1, <4>2
    <3> QED BY <1>1, <1>3, <2>3, <3>1, <3>2 DEF Follows
  <2>4. CASE i > n + 1
    <3>1. i - 1 \in 1..Len(L) /\ i - 1 > n /\ (i - 1) + 1 = i /\ i \in 1..Len(L) /\ i > n
      BY <1>1, <1>5, <2>4
    <3>2. PICK k \in 1..Len(L) : k = i - 1 /\ k > n /\ k + 1 = i
      BY <3>1
    <3>3. M[k + 1] = L[k] /\ M[i + 1] = L[i] /\ Follows(L[k], L[k + 1])
      BY <1>2, <3>1, <3>2 DEF Form
    <3> QED BY <3>2, <3>3
  <2> QED BY <1>1, <2>1, <2>2, <2>3, <2>4
<1>6. CASE n < Len(L)
  <2>1. M[Len(M)] = L[Len(L)] /\ Len(M) > 0 /\ Len(L) > 0
    BY <1>1, <1>2, <1>6
  <2> QED BY <1>4, <1>5, <2>1 DEF Form
<1>7. CASE n = Len(L)
  <2>1. h = None
    <3>1. h # None => Opens(HeaderUnit(h))
      BY UnitFacts DEF Opens
    <3> QED BY <1>7, <3>1 DEF Form
  <2>2. M[Len(M)] = Mark
    BY <1>1, <1>7
  <2> QED BY <1>3, <1>4, <1>5, <2>1, <2>2 DEF Form
<1> QED BY <1>1, <1>6, <1>7
-----------------------------------------------------------------------------
(* What recover has, having read the first p units of f.                   *)
ReaderType(r) ==
  /\ r \in [state : {"header", "data", "crc"}, head : Entry \cup {None}, data : Seq(Unit), entries : Seq(Entry)]
  /\ r.state = "data" => r.head \in Entry
Found(f, p, r) ==
  \A k \in 1..Len(r.entries) : \E i \in 1..p : f[i] = EndOf(r.entries[k])
Sorted(f, p, r) ==
  \A k, l \in 1..Len(r.entries) : \A i, j \in 1..p :
    f[i] = EndOf(r.entries[k]) /\ f[j] = EndOf(r.entries[l]) => (k < l <=> i < j)
ReadInv(f, p, r) == ReaderType(r) /\ Found(f, p, r) /\ Sorted(f, p, r)

\* And if the log is not torn.
InPlace(f, p, r) ==
  \/ r.state = "header" /\ r.data = <<>> /\ (p > 0 => ~Opens(f[p]))
  \/ /\ r.state = "data" /\ p > 0 /\ Opens(f[p])
     /\ f[p].entry = r.head /\ f[p].part = Len(r.data) /\ Len(r.data) < DataLen
     /\ \A m \in 1..Len(r.data) : r.data[m] = DataUnit(r.head, m)
Whole(f, p) ==
  {i \in 1..p : IsEnd(f[i]) /\ \A j \in i..p : f[j].kind # "checkpoint"}
Complete(f, p, r) ==
  /\ \A i \in Whole(f, p) : \E k \in 1..Len(r.entries) : r.entries[k] = f[i].entry
  /\ \A k \in 1..Len(r.entries) : \E i \in Whole(f, p) : f[i].entry = r.entries[k]
ReadExact(f, p, r) == InPlace(f, p, r) /\ Complete(f, p, r)

\* The file that was read may grow.
LEMMA ReadGrown ==
  ASSUME NEW f \in Seq(Unit), NEW g \in Seq(Unit), NEW p \in 0..Len(f), NEW r, \A i \in 1..p : g[i] = f[i]
  PROVE  (ReadInv(f, p, r) => ReadInv(g, p, r)) /\ (ReadExact(f, p, r) => ReadExact(g, p, r))
<1>1. Found(f, p, r) => Found(g, p, r)
  BY DEF Found
<1>2. Sorted(f, p, r) => Sorted(g, p, r)
  BY Zenon DEF Sorted
<1>3. InPlace(f, p, r) => InPlace(g, p, r)
  <2>1. p > 0 => p \in 1..p
    OBVIOUS
  <2> QED BY <2>1 DEF InPlace
<1>4. Whole(g, p) = Whole(f, p) /\ \A i \in Whole(f, p) : g[i] = f[i]
  <2>1. \A i \in 1..p : \A j \in i..p : j \in 1..p
    OBVIOUS
  <2> QED BY <2>1 DEF Whole
<1>5. Complete(f, p, r) => Complete(g, p, r)
  <2> SUFFICES ASSUME Complete(f, p, r) PROVE Complete(g, p, r)
    OBVIOUS
  <2>1. \A i \in Whole(f, p) : \E k \in 1..Len(r.entries) : r.entries[k] = g[i].entry
    BY <1>4, Zenon DEF Complete
  <2>2. \A k \in 1..Len(r.entries) : \E i \in Whole(f, p) : g[i].entry = r.entries[k]
    BY <1>4, Zenon DEF Complete
  <2> QED BY <1>4, <2>1, <2>2, Zenon DEF Complete
<1> QED BY <1>1, <1>2, <1>3, <1>5, Zenon DEF ReadInv, ReadExact

\* What a step of recover makes of the entries.
Pushed(r, u, s) == u = EndOf(r.head) /\ r.head \in Entry /\ s.entries = Append(r.entries, r.head)

LEMMA StepHeader ==
  ASSUME NEW r, NEW u \in Unit, ReaderType(r), r.state = "header", u.kind = "header" => u.entry \in Entry,
         NEW s, s = RecoverStep(r, u)
  PROVE  /\ ReaderType(s)
         /\ u.kind = "header" => s.state = "data" /\ s.head = u.entry /\ s.data = r.data /\ s.entries = r.entries
         /\ u.kind = "checkpoint" => s.state = "header" /\ s.data = r.data /\ s.entries = <<>>
         /\ u.kind = "data" => s.state = "crc" /\ s.entries = r.entries
<1>1. s = AtHeader(r, u) /\ u.kind \in {"header", "data", "checkpoint"}
  BY DEF RecoverStep, Unit
<1>2. CASE u.kind = "header"
  BY <1>1, <1>2, Zenon DEF AtHeader, ReaderType
<1>3. CASE u.kind = "checkpoint"
  <2>1. s = [r EXCEPT !.entries = <<>>] /\ <<>> \in Seq(Entry)
    BY <1>1, <1>3 DEF AtHeader
  <2>2. s.state = "header" /\ s.data = r.data /\ s.entries = <<>>
    BY <2>1 DEF ReaderType
  <2>3. ReaderType(s)
    BY <2>1, Zenon DEF ReaderType
  <2> QED BY <1>3, <2>2, <2>3
<1>4. CASE u.kind = "data"
  BY <1>1, <1>4 DEF AtHeader, ReaderType
<1> QED BY <1>1, <1>2, <1>3, <1>4

LEMMA StepData ==
  ASSUME NEW r, NEW u \in Unit, ReaderType(r), r.state = "data", NEW s, s = RecoverStep(r, u)
  PROVE  /\ ReaderType(s)
         /\ Len(r.data) + 1 # DataLen => s.state = "data" /\ s.head = r.head /\ s.data = Append(r.data, u) /\ s.entries = r.entries
         /\ Len(r.data) + 1 = DataLen /\ Append(r.data, u) = Data(r.head) =>
              s.state = "header" /\ s.data = <<>> /\ s.entries = Append(r.entries, r.head)
         /\ s.entries = r.entries \/ Pushed(r, u, s)
<1> DEFINE d == Append(r.data, u)
<1>1. r.data \in Seq(Unit) /\ r.head \in Entry /\ r.entries \in Seq(Entry)
  BY DEF ReaderType
<1>2. d \in Seq(Unit) /\ Len(d) = Len(r.data) + 1 /\ d[Len(d)] = u /\ Append(r.entries, r.head) \in Seq(Entry)
  BY <1>1
<1>3. s = IF Len(d) = DataLen THEN AfterData(r, d) ELSE [r EXCEPT !.data = d]
  BY DEF RecoverStep
<1> HIDE DEF d
<1>4. CASE Len(d) # DataLen
  <2>1. s = [r EXCEPT !.data = d]
    BY <1>3, <1>4
  <2> QED BY <1>1, <1>2, <1>4, <2>1, Zenon DEF ReaderType, d
<1>5. CASE Len(d) = DataLen /\ d = Data(r.head)
  <2>1. s = [r EXCEPT !.state = "header", !.data = <<>>, !.entries = Append(@, r.head)]
    BY <1>3, <1>5 DEF AfterData
  <2>2. s.state = "header" /\ s.data = <<>> /\ s.entries = Append(r.entries, r.head) /\ ReaderType(s)
    <3>1. PICK es \in Seq(Entry) : es = Append(r.entries, r.head)
      BY <1>2, Zenon
    <3>2. PICK nd \in Seq(Unit) : nd = <<>>
      <4>1. <<>> \in Seq(Unit)
        OBVIOUS
      <4> QED BY <4>1, Zenon
    <3>3. s = [r EXCEPT !.state = "header", !.data = nd, !.entries = es]
      BY <2>1, <3>1, <3>2
    <3>4. s.state = "header" /\ s.data = nd /\ s.entries = es /\ ReaderType(s)
      BY <3>3, Zenon DEF ReaderType
    <3> QED BY <3>1, <3>2, <3>4
  <2>3. u = EndOf(r.head)
    <3>1. Data(r.head)[DataLen] = DataUnit(r.head, DataLen)
      BY <1>1, Writes, WalAssumption
    <3> QED BY <1>2, <1>5, <3>1 DEF EndOf, DataUnit
  <2> QED BY <1>1, <1>2, <1>5, <2>2, <2>3 DEF Pushed, d
<1>6. CASE Len(d) = DataLen /\ d # Data(r.head)
  <2>1. s = [r EXCEPT !.state = "crc"]
    BY <1>3, <1>6 DEF AfterData
  <2> QED BY <1>2, <1>6, <2>1 DEF ReaderType, d
<1> QED BY <1>4, <1>5, <1>6

\* An entry that is read has its place behind those that were read before.
LEMMA ReadStep ==
  ASSUME NEW f \in Seq(Unit), NEW p \in Nat, p < Len(f), NEW r, ReadInv(f, p, r), r.state # "crc", Unique(f),
         f[p + 1].kind = "header" => f[p + 1].entry \in Entry, NEW s, s = RecoverStep(r, f[p + 1])
  PROVE  ReadInv(f, p + 1, s)
<1> DEFINE q == p + 1
<1>1. Len(f) \in Nat /\ q \in 1..Len(f) /\ f[q] \in Unit /\ q \notin 1..p /\ \A i \in 1..q : i \in 1..p \/ i = q
  OBVIOUS
<1>2. ReaderType(r) /\ Found(f, p, r) /\ Sorted(f, p, r) /\ r.state \in {"header", "data"} /\ r.entries \in Seq(Entry)
  BY DEF ReadInv, ReaderType
<1>3. /\ ReaderType(s)
      /\ s.entries = r.entries \/ s.entries = <<>> \/ Pushed(r, f[q], s)
  <2>1. CASE r.state = "header"
    <3>1. f[q].kind \in {"header", "data", "checkpoint"}
      BY <1>1 DEF Unit
    <3> QED BY <1>1, <1>2, <2>1, <3>1, StepHeader
  <2>2. CASE r.state = "data"
    BY <1>1, <1>2, <2>2, StepData
  <2> QED BY <1>2, <2>1, <2>2
<1> HIDE DEF q
<1>4. ASSUME NEW k \in 1..Len(r.entries) PROVE f[q] # EndOf(r.entries[k])
  <2>1. PICK i \in 1..p : f[i] = EndOf(r.entries[k])
    BY <1>2 DEF Found
  <2>2. i \in 1..Len(f) /\ i # q
    BY <1>1
  <2> QED BY <1>1, <2>1, <2>2, EndOfIs DEF Unique
<1>5. CASE s.entries = r.entries
  <2>1. Found(f, q, s)
    BY <1>2, <1>5 DEF Found, q
  <2>2. Sorted(f, q, s)
    <3> SUFFICES ASSUME NEW k \in 1..Len(s.entries), NEW l \in 1..Len(s.entries), NEW i \in 1..q, NEW j \in 1..q,
                        f[i] = EndOf(s.entries[k]), f[j] = EndOf(s.entries[l])
                 PROVE  k < l <=> i < j
      BY DEF Sorted
    <3>1. i # q /\ j # q
      BY <1>4, <1>5
    <3>2. i \in 1..p /\ j \in 1..p
      BY <1>1, <3>1
    <3> QED BY <1>2, <1>5, <3>2 DEF Sorted
  <2> QED BY <1>3, <2>1, <2>2 DEF ReadInv, q
<1>6. CASE s.entries = <<>>
  BY <1>3, <1>6 DEF ReadInv, Found, Sorted, q
<1>7. CASE Pushed(r, f[q], s)
  <2> DEFINE n == Len(r.entries) + 1
  <2>1. /\ Len(r.entries) \in Nat /\ Len(s.entries) = n /\ s.entries[n] = r.head /\ f[q] = EndOf(r.head)
        /\ \A k \in 1..Len(r.entries) : s.entries[k] = r.entries[k]
        /\ \A k \in 1..Len(s.entries) : k \in 1..Len(r.entries) \/ k = n
    BY <1>2, <1>7 DEF Pushed
  <2>2. n \notin 1..Len(r.entries) /\ \A k \in 1..Len(r.entries) : k < n /\ ~(n < k)
    BY <2>1
  <2> HIDE DEF n
  <2>3. \A i \in 1..p : i < q /\ ~(q < i)
    BY DEF q
  <2>4. Found(f, q, s)
    <3> SUFFICES ASSUME NEW k \in 1..Len(s.entries) PROVE \E i \in 1..q : f[i] = EndOf(s.entries[k])
      BY Zenon DEF Found
    <3>1. CASE k \in 1..Len(r.entries)
      <4>1. PICK i \in 1..p : f[i] = EndOf(r.entries[k])
        BY <1>2, <3>1 DEF Found
      <4>2. i \in 1..q
        BY DEF q
      <4> QED BY <2>1, <3>1, <4>1, <4>2
    <3>2. CASE k = n
      <4>1. q \in 1..q
        BY DEF q
      <4> QED BY <2>1, <3>2, <4>1
    <3> QED BY <2>1, <3>1, <3>2
  <2>5. \A i \in 1..p : f[i] # EndOf(r.head)
    <3>1. \A i \in 1..p : i \in 1..Len(f) /\ i # q
      BY <1>1
    <3> QED BY <1>1, <2>1, <3>1, EndOfIs DEF Unique
  <2>6. Sorted(f, q, s)
    <3> SUFFICES ASSUME NEW k \in 1..Len(s.entries), NEW l \in 1..Len(s.entries), NEW i \in 1..q, NEW j \in 1..q,
                        f[i] = EndOf(s.entries[k]), f[j] = EndOf(s.entries[l])
                 PROVE  k < l <=> i < j
      BY DEF Sorted
    <3>1. (k = n <=> i = q) /\ (l = n <=> j = q)
      BY <1>1, <1>4, <2>1, <2>2, <2>5, Zenon
    <3>2. CASE k # n /\ l # n
      <4>1. /\ k \in 1..Len(r.entries) /\ l \in 1..Len(r.entries) /\ i \in 1..p /\ j \in 1..p
            /\ s.entries[k] = r.entries[k] /\ s.entries[l] = r.entries[l]
        BY <1>1, <2>1, <3>1, <3>2, Zenon
      <4> QED BY <1>2, <4>1 DEF Sorted
    <3>3. CASE k = n /\ l # n
      BY <1>1, <2>1, <2>2, <2>3, <3>1, <3>3
    <3>4. CASE k # n /\ l = n
      BY <1>1, <2>1, <2>2, <2>3, <3>1, <3>4
    <3>5. CASE k = n /\ l = n
      BY <3>1, <3>5
    <3> QED BY <3>2, <3>3, <3>4, <3>5
  <2> QED BY <1>3, <2>4, <2>6 DEF ReadInv, q
<1> QED BY <1>3, <1>5, <1>6, <1>7

LEMMA ReadFresh ==
  ASSUME NEW f PROVE ReadInv(f, 0, FreshReader) /\ ReadExact(f, 0, FreshReader)
<1>1. ReaderType(FreshReader) /\ FreshReader.entries = <<>> /\ FreshReader.data = <<>> /\ FreshReader.state = "header"
  BY DEF ReaderType, FreshReader
<1>2. 1..0 = {} /\ Len(<<>>) = 0
  OBVIOUS
<1>3. Found(f, 0, FreshReader) /\ Sorted(f, 0, FreshReader)
  BY <1>1, <1>2 DEF Found, Sorted
<1>4. Complete(f, 0, FreshReader)
  BY <1>1, <1>2 DEF Complete, Whole
<1>5. InPlace(f, 0, FreshReader)
  BY <1>1 DEF InPlace
<1> QED BY <1>1, <1>3, <1>4, <1>5 DEF ReadInv, ReadExact

\* How the next unit changes the entries that are whole.
LEMMA WholeStep ==
  ASSUME NEW f \in Seq(Unit), NEW p \in Nat, p < Len(f)
  PROVE  /\ f[p + 1].kind = "checkpoint" => Whole(f, p + 1) = {}
         /\ f[p + 1].kind # "checkpoint" =>
              Whole(f, p + 1) = Whole(f, p) \cup (IF IsEnd(f[p + 1]) THEN {p + 1} ELSE {})
<1> DEFINE q == p + 1
<1>1. /\ \A i \in 1..q : q \in i..q
      /\ \A i \in 1..q : i \in 1..p \/ i = q
      /\ \A i \in 1..p : i \in 1..q /\ i # q
      /\ \A i \in 1..q : \A j \in i..p : j \in i..q
      /\ \A i \in 1..q : \A j \in i..q : j \in i..p \/ j = q
      /\ q \in 1..q /\ \A j \in q..q : j = q
  OBVIOUS
<1> HIDE DEF q
<1>2. ASSUME f[q].kind = "checkpoint" PROVE Whole(f, q) = {}
  BY <1>1, <1>2 DEF Whole
<1>3. ASSUME f[q].kind # "checkpoint", NEW i
      PROVE  i \in Whole(f, q) <=> i \in Whole(f, p) \/ (i = q /\ IsEnd(f[q]))
  BY <1>1, <1>3 DEF Whole
<1>4. ASSUME f[q].kind # "checkpoint"
      PROVE  Whole(f, q) = Whole(f, p) \cup (IF IsEnd(f[q]) THEN {q} ELSE {})
  BY <1>3, <1>4
<1> QED BY <1>2, <1>4 DEF q

LEMMA CompleteSame ==
  ASSUME NEW f, NEW p, NEW q, NEW r, NEW s, Complete(f, p, r), Whole(f, q) = Whole(f, p), s.entries = r.entries
  PROVE  Complete(f, q, s)
BY DEF Complete

LEMMA CompletePushed ==
  ASSUME NEW f, NEW p, NEW q, NEW r, NEW s, Complete(f, p, r), Whole(f, q) = Whole(f, p) \cup {q},
         r.entries \in Seq(Entry), Pushed(r, f[q], s)
  PROVE  Complete(f, q, s)
<1> DEFINE n == Len(r.entries) + 1
<1>1. /\ Len(r.entries) \in Nat /\ Len(s.entries) = n /\ s.entries[n] = r.head /\ f[q].entry = r.head
      /\ \A k \in 1..Len(r.entries) : k \in 1..n /\ s.entries[k] = r.entries[k]
      /\ \A k \in 1..Len(s.entries) : k \in 1..Len(r.entries) \/ k = n
      /\ n \in 1..n
  BY DEF Pushed, EndOf
<1> HIDE DEF n
<1>2. ASSUME NEW i \in Whole(f, q) PROVE \E k \in 1..Len(s.entries) : s.entries[k] = f[i].entry
  <2>1. CASE i = q
    BY <1>1, <2>1
  <2>2. CASE i \in Whole(f, p)
    <3>1. PICK k \in 1..Len(r.entries) : r.entries[k] = f[i].entry
      BY <2>2, Zenon DEF Complete
    <3> QED BY <1>1, <3>1
  <2> QED BY <2>1, <2>2
<1>3. ASSUME NEW k \in 1..Len(s.entries) PROVE \E i \in Whole(f, q) : f[i].entry = s.entries[k]
  <2>1. CASE k = n
    BY <1>1, <2>1
  <2>2. CASE k \in 1..Len(r.entries)
    <3>1. PICK i \in Whole(f, p) : f[i].entry = r.entries[k]
      BY <2>2 DEF Complete
    <3> QED BY <1>1, <2>2, <3>1
  <2> QED BY <1>1, <2>1, <2>2
<1> QED BY <1>2, <1>3 DEF Complete

\* If the next unit is in its place, recover stays exact.
Fitting(f, p) == IF p = 0 THEN Starts(f[1]) ELSE Follows(f[p], f[p + 1])

LEMMA ReadStepStart ==
  ASSUME NEW f \in Seq(Unit), NEW p \in Nat, p < Len(f), NEW r, ReaderType(r), ReadExact(f, p, r), Fitting(f, p),
         r.state = "header", f[p + 1].kind = "header" => f[p + 1].entry \in Entry,
         NEW s, s = RecoverStep(r, f[p + 1])
  PROVE  ReadExact(f, p + 1, s)
<1> DEFINE q == p + 1
           u == f[q]
<1>1. q \in Nat /\ q > 0 /\ u \in Unit
  OBVIOUS
<1>2. r.data = <<>> /\ (p > 0 => ~Opens(f[p])) /\ Complete(f, p, r)
  BY DEF ReadExact, InPlace
<1>3. Starts(u)
  BY <1>2 DEF Fitting, Follows
<1>4. /\ u.kind = "header" => s.state = "data" /\ s.head = u.entry /\ s.data = r.data /\ s.entries = r.entries
      /\ u.kind = "checkpoint" => s.state = "header" /\ s.data = r.data /\ s.entries = <<>>
  BY <1>1, StepHeader
<1>5. /\ u.kind = "checkpoint" => Whole(f, q) = {}
      /\ u.kind # "checkpoint" => Whole(f, q) = Whole(f, p) \cup (IF IsEnd(u) THEN {q} ELSE {})
  BY WholeStep
<1> HIDE DEF q, u
<1>6. CASE u.kind = "header" /\ u.part = 0
  <2>1. Whole(f, q) = Whole(f, p)
    BY <1>5, <1>6 DEF IsEnd
  <2>2. Complete(f, q, s)
    BY <1>2, <1>4, <1>6, <2>1, CompleteSame
  <2>3. Len(s.data) = 0 /\ 0 < DataLen /\ s.state = "data" /\ Opens(u) /\ u.entry = s.head
    BY <1>2, <1>4, <1>6, WalAssumption DEF Opens
  <2>4. InPlace(f, q, s)
    BY <1>1, <1>6, <2>3 DEF InPlace, u
  <2> QED BY <2>2, <2>4 DEF ReadExact, q
<1>7. CASE u.kind = "checkpoint"
  <2>1. Complete(f, q, s)
    BY <1>4, <1>5, <1>7 DEF Complete
  <2>2. InPlace(f, q, s)
    BY <1>2, <1>4, <1>7 DEF InPlace, Opens, u
  <2> QED BY <2>1, <2>2 DEF ReadExact, q
<1> QED BY <1>3, <1>6, <1>7 DEF Starts

LEMMA ReadStepInside ==
  ASSUME NEW f \in Seq(Unit), NEW p \in Nat, p < Len(f), NEW r, ReaderType(r), ReadExact(f, p, r), Fitting(f, p),
         r.state = "data", NEW s, s = RecoverStep(r, f[p + 1])
  PROVE  ReadExact(f, p + 1, s)
<1> DEFINE q == p + 1
           u == f[q]
           m == Len(r.data) + 1
           d == Append(r.data, u)
<1>1. q \in Nat /\ q > 0 /\ u \in Unit /\ r.data \in Seq(Unit) /\ r.head \in Entry /\ r.entries \in Seq(Entry)
  BY DEF ReaderType
<1>2. /\ p > 0 /\ Opens(f[p]) /\ f[p].entry = r.head /\ f[p].part = Len(r.data) /\ Len(r.data) < DataLen
      /\ \A k \in 1..Len(r.data) : r.data[k] = DataUnit(r.head, k)
      /\ Complete(f, p, r)
  BY DEF ReadExact, InPlace
<1>3. u.kind = "data" /\ u.entry = r.head /\ u.part = m
  BY <1>2 DEF Fitting, Follows
<1>4. u = DataUnit(r.head, m)
  BY <1>1, <1>3, UnitIsData
<1>5. m \in Nat /\ m <= DataLen /\ DataLen \in Nat
  BY <1>1, <1>2, WalAssumption
<1>6. d \in Seq(Unit) /\ Len(d) = m /\ d[m] = u /\ \A k \in 1..Len(r.data) : d[k] = r.data[k]
  BY <1>1
<1>7. \A k \in 1..m : d[k] = DataUnit(r.head, k)
  <2>1. \A k \in 1..m : k \in 1..Len(r.data) \/ k = m
    BY <1>1
  <2> QED BY <1>2, <1>4, <1>6, <2>1
<1>8. /\ m # DataLen => s.state = "data" /\ s.head = r.head /\ s.data = d /\ s.entries = r.entries
      /\ m = DataLen /\ d = Data(r.head) => s.state = "header" /\ s.data = <<>> /\ s.entries = Append(r.entries, r.head)
  BY <1>1, StepData
<1>9. Whole(f, q) = Whole(f, p) \cup (IF IsEnd(u) THEN {q} ELSE {})
  BY <1>3, WholeStep
<1> HIDE DEF q, u, m, d
<1>10. CASE m # DataLen
  <2>1. Whole(f, q) = Whole(f, p)
    BY <1>3, <1>9, <1>10 DEF IsEnd
  <2>2. Complete(f, q, s)
    BY <1>2, <1>8, <1>10, <2>1, CompleteSame
  <2>3. m < DataLen /\ Opens(u)
    BY <1>3, <1>5, <1>10 DEF Opens
  <2>4. InPlace(f, q, s)
    BY <1>1, <1>3, <1>6, <1>7, <1>8, <1>10, <2>3 DEF InPlace, u
  <2> QED BY <2>2, <2>4 DEF ReadExact, q
<1>11. CASE m = DataLen
  <2>1. d = Data(r.head)
    <3>1. Data(r.head) \in Seq(Unit) /\ Len(Data(r.head)) = m /\ \A k \in 1..m : Data(r.head)[k] = d[k]
      BY <1>1, <1>7, <1>11, Writes
    <3> QED BY <1>5, <1>6, <3>1
  <2>2. Pushed(r, u, s)
    BY <1>1, <1>4, <1>8, <1>11, <2>1 DEF Pushed, EndOf, DataUnit
  <2>3. Whole(f, q) = Whole(f, p) \cup {q}
    BY <1>3, <1>9, <1>11 DEF IsEnd
  <2>4. Complete(f, q, s)
    BY <1>1, <1>2, <2>2, <2>3, CompletePushed DEF u
  <2>5. ~Opens(u)
    BY <1>3, <1>5, <1>11 DEF Opens
  <2>6. InPlace(f, q, s)
    BY <1>8, <1>11, <2>1, <2>5 DEF InPlace, u
  <2> QED BY <2>4, <2>6 DEF ReadExact, q
<1> QED BY <1>10, <1>11

\* What RecoverExact and NothingInvented ask for.
LEMMA ExactGives ==
  ASSUME NEW f \in Seq(Unit), NEW p \in 0..Len(f), NEW r, ReadInv(f, p, r), ReadExact(f, p, r)
  PROVE  /\ r.state # "crc" /\ Complete(f, p, r)
         /\ \A i, j \in Whole(f, p) : \A k, l \in 1..Len(r.entries) :
              r.entries[k] = f[i].entry /\ r.entries[l] = f[j].entry => (k < l <=> i < j)
<1>1. r.state # "crc" /\ Complete(f, p, r) /\ Sorted(f, p, r)
  BY DEF ReadExact, InPlace, ReadInv
<1>2. ASSUME NEW i \in Whole(f, p) PROVE i \in 1..p /\ f[i] = EndOf(f[i].entry)
  <2>1. i \in 1..p /\ IsEnd(f[i])
    BY DEF Whole
  <2>2. f[i] \in Unit
    BY <2>1
  <2> QED BY <2>1, <2>2, EndIs
<1> QED BY <1>1, <1>2, Zenon DEF Sorted
-----------------------------------------------------------------------------
\* The inductive invariant.
WalInv ==
  /\ TypeOK
  /\ LogInv(Log, half, appended, tried)
  /\ ~torn => Form(Log, half)
  /\ ReadInv(file, pos, reader)
  /\ ~torn => ReadExact(file, pos, reader)

LEMMA LogType ==
  ASSUME TypeOK PROVE Log \in Seq(Unit) /\ Len(Log) = Len(file) + Len(buf) /\ Shorter(file, Log)
<1>1. file \in Seq(Unit) /\ buf \in Seq(Unit)
  BY DEF TypeOK
<1>2. /\ Log \in Seq(Unit) /\ Len(Log) = Len(file) + Len(buf)
      /\ \A i \in 1..Len(file) : Log[i] = file[i]
  BY <1>1, Joined DEF Log
<1>3. Len(file) \in Nat /\ Len(buf) \in Nat
  BY <1>1
<1> QED BY <1>2, <1>3 DEF Shorter

\* However write_all splits what it has, the log grows by it at its end.
LEMMA WriteAllLog ==
  ASSUME TypeOK, NEW u \in Seq(Unit), WriteAll(u)
  PROVE  /\ buf' \in Seq(Unit) /\ Len(buf') <= Cap /\ file' \in Seq(Unit)
         /\ Shorter(file, file') /\ Log' \in Seq(Unit) /\ Longer(Log', Log, u)
<1>1. file \in Seq(Unit) /\ buf \in Seq(Unit) /\ Len(buf) <= Cap /\ Cap \in Nat /\ <<>> \in Seq(Unit) /\ Len(<<>>) = 0
  BY WalAssumption DEF TypeOK
<1>2. Len(file) \in Nat /\ Len(buf) \in Nat /\ Len(u) \in Nat
  BY <1>1
<1>3. ASSUME NEW v \in Seq(Unit), file' = file \o v
      PROVE  file' \in Seq(Unit) /\ Shorter(file, file')
  <2>1. Len(v) \in Nat
    OBVIOUS
  <2> QED BY <1>1, <1>2, <1>3, <2>1, Joined DEF Shorter
<1>4. buf' \in Seq(Unit) /\ Len(buf') <= Cap /\ file' \in Seq(Unit) /\ Shorter(file, file') /\ Log' = Log \o u
  <2>1. CASE Fits(u) /\ Len(u) >= Cap
    <3>1. buf' = buf /\ file' = (file \o <<>>) \o u
      BY <2>1 DEF WriteAll
    <3>2. Len(buf) = 0
      BY <1>1, <1>2, <2>1 DEF Fits
    <3>3. buf = <<>>
      BY <1>1, <3>2
    <3>4. file' = file \o u
      BY <1>1, <3>1, NoneBehind
    <3>5. Log' = file' \o <<>> /\ Log = file \o <<>>
      BY <3>1, <3>3 DEF Log
    <3>6. file' \in Seq(Unit) /\ Shorter(file, file')
      BY <1>3, <3>4
    <3>7. Log' = Log \o u
      BY <1>1, <3>4, <3>5, <3>6, NoneBehind
    <3> QED BY <1>1, <3>1, <3>6, <3>7
  <2>2. CASE Fits(u) /\ ~(Len(u) >= Cap)
    <3>1. buf' = buf \o u /\ file' = file \o <<>>
      BY <2>2, Zenon DEF WriteAll
    <3>2. Log' = file \o (buf \o u) /\ file' = file
      BY <1>1, <3>1, NoneBehind DEF Log
    <3>3. Log' = Log \o u
      <4>1. (file \o buf) \o u = file \o (buf \o u)
        <5>1. file \in Seq(Unit) /\ buf \in Seq(Unit)
          BY <1>1
        <5> QED BY <5>1, Assoc, Zenon
      <4>2. Log \o u = (file \o buf) \o u
        BY DEF Log
      <4> QED BY <3>2, <4>1, <4>2, Zenon
    <3>4. buf' \in Seq(Unit) /\ Len(buf') <= Cap
      BY <1>1, <2>2, <3>1, Joined DEF Fits
    <3>5. file' \in Seq(Unit) /\ Shorter(file, file')
      BY <1>1, <1>3, <3>1, Zenon
    <3> QED BY <3>3, <3>4, <3>5
  <2>3. CASE ~Fits(u) /\ Len(u) >= Cap
    <3>1. buf' = <<>> /\ file' = (file \o buf) \o u
      BY <2>3 DEF WriteAll
    <3>2. Log \in Seq(Unit) /\ buf \o u \in Seq(Unit)
      BY <1>1, Joined DEF Log
    <3>3. file' = Log \o u /\ file' = file \o (buf \o u)
      <4>1. (file \o buf) \o u = file \o (buf \o u)
        <5>1. file \in Seq(Unit) /\ buf \in Seq(Unit)
          BY <1>1
        <5> QED BY <5>1, Assoc, Zenon
      <4>2. Log \o u = (file \o buf) \o u
        BY DEF Log
      <4> QED BY <3>1, <4>1, <4>2, Zenon
    <3>4. file' \in Seq(Unit) /\ Shorter(file, file')
      BY <1>3, <3>2, <3>3, Zenon
    <3>5. Log' = file' \o <<>>
      BY <3>1 DEF Log
    <3>6. Log' = Log \o u
      BY <3>3, <3>4, <3>5, NoneBehind
    <3> QED BY <1>1, <3>1, <3>4, <3>6
  <2>4. CASE ~Fits(u) /\ ~(Len(u) >= Cap)
    <3>1. buf' = <<>> \o u /\ file' = file \o buf
      BY <2>4 DEF WriteAll
    <3>2. buf' = u
      BY <1>1, <3>1, NoneBehind
    <3>3. Log' = Log \o u
      BY <3>1, <3>2 DEF Log
    <3>4. file' \in Seq(Unit) /\ Shorter(file, file')
      BY <1>1, <1>3, <3>1, Zenon
    <3>5. Len(u) <= Cap
      BY <1>1, <1>2, <2>4
    <3> QED BY <3>2, <3>3, <3>4, <3>5
  <2> QED BY <2>1, <2>2, <2>3, <2>4
<1>5. Log \in Seq(Unit)
  BY LogType
<1>6. Log' \in Seq(Unit) /\ Longer(Log', Log, u)
  BY <1>4, <1>5, Joined DEF Longer
<1> QED BY <1>4, <1>6

\* recover keeps what it has when the file grows.
LEMMA ReadKept ==
  ASSUME TypeOK, ReadInv(file, pos, reader), ~torn => ReadExact(file, pos, reader), ~torn' => ~torn,
         file' \in Seq(Unit), Shorter(file, file'), UNCHANGED recovery
  PROVE  /\ pos' \in 0..Len(file') /\ len' \in 0..Len(file') /\ reader' = reader
         /\ ReadInv(file, pos, reader)' /\ (~torn' => ReadExact(file, pos, reader)')
<1>1. file \in Seq(Unit) /\ pos \in 0..Len(file) /\ len \in 0..Len(file) /\ pos' = pos /\ len' = len /\ reader' = reader
  BY DEF TypeOK, recovery
<1>2. Len(file) \in Nat /\ Len(file') \in Nat /\ Len(file) <= Len(file')
  BY <1>1 DEF Shorter
<1>3. \A i \in 1..pos : file'[i] = file[i]
  <2>1. \A i \in 1..pos : i \in 1..Len(file)
    BY <1>1, <1>2
  <2> QED BY <2>1 DEF Shorter
<1>4. /\ ReadInv(file, pos, reader) => ReadInv(file', pos, reader)
      /\ ReadExact(file, pos, reader) => ReadExact(file', pos, reader)
  BY <1>1, <1>3, ReadGrown
<1> QED BY <1>1, <1>2, <1>4

\* How long the synced part of the file is, when the file grows.
LEMMA SyncedKept ==
  ASSUME NEW f \in Seq(Unit), NEW g \in Seq(Unit), Shorter(f, g), NEW n \in 0..Len(f) PROVE n \in 0..Len(g)
<1>1. Len(f) \in Nat /\ Len(g) \in Nat
  OBVIOUS
<1> QED BY <1>1 DEF Shorter

LEMMA AppendHeaderInv ==
  ASSUME WalInv, NEW e \in Entry, AppendHeader(e) PROVE WalInv'
<1>1. TypeOK /\ Log \in Seq(Unit) /\ Header(e) \in Seq(Unit) /\ e # None
  BY LogType, Writes, WalAssumption DEF WalInv
<1>2. /\ buf' \in Seq(Unit) /\ Len(buf') <= Cap /\ file' \in Seq(Unit)
      /\ Shorter(file, file') /\ Log' \in Seq(Unit) /\ Longer(Log', Log, Header(e))
  BY <1>1, WriteAllLog DEF AppendHeader
<1>3. /\ half = None /\ e \notin tried /\ half' = e /\ tried' = tried \cup {e}
      /\ UNCHANGED <<synced, appended, torn, checks, crashes, recovery>>
  BY DEF AppendHeader
<1>4. /\ pos' \in 0..Len(file') /\ len' \in 0..Len(file') /\ reader' = reader
      /\ ReadInv(file, pos, reader)' /\ (~torn' => ReadExact(file, pos, reader)')
  BY <1>2, <1>3, ReadKept DEF WalInv
<1>5. LogInv(Log', e, appended, tried \cup {e})
  <2>1. LogInv(Log, None, appended, tried) /\ appended \in Seq(Entry)
    BY <1>3 DEF WalInv, TypeOK
  <2> QED BY <1>1, <1>2, <1>3, <2>1, LogHeader
<1>6. ~torn => Form(Log', e)
  <2>1. ~torn => Form(Log, None)
    BY <1>3 DEF WalInv
  <2> QED BY <1>1, <1>2, <2>1, FormHeader
<1>7. synced' \in 0..Len(file')
  BY <1>1, <1>2, <1>3, SyncedKept DEF TypeOK
<1>8. TypeOK'
  BY <1>1, <1>2, <1>3, <1>4, <1>7, Zenon DEF TypeOK
<1> QED BY <1>3, <1>4, <1>5, <1>6, <1>8 DEF WalInv

LEMMA AppendDataInv ==
  ASSUME WalInv, AppendData PROVE WalInv'
<1>1. TypeOK /\ Log \in Seq(Unit) /\ half \in Entry /\ half # None
  BY LogType, Zenon DEF WalInv, AppendData, TypeOK
<1>2. Data(half) \in Seq(Unit)
  BY <1>1, Writes
<1>3. /\ buf' \in Seq(Unit) /\ Len(buf') <= Cap /\ file' \in Seq(Unit)
      /\ Shorter(file, file') /\ Log' \in Seq(Unit) /\ Longer(Log', Log, Data(half))
  BY <1>1, <1>2, WriteAllLog DEF AppendData
<1>4. /\ half' = None /\ appended' = Append(appended, half)
      /\ UNCHANGED <<synced, tried, torn, checks, crashes, recovery>>
  BY DEF AppendData
<1>5. /\ pos' \in 0..Len(file') /\ len' \in 0..Len(file') /\ reader' = reader
      /\ ReadInv(file, pos, reader)' /\ (~torn' => ReadExact(file, pos, reader)')
  BY <1>3, <1>4, ReadKept DEF WalInv
<1>6. LogInv(Log', None, Append(appended, half), tried)
  <2>1. LogInv(Log, half, appended, tried) /\ appended \in Seq(Entry)
    BY DEF WalInv, TypeOK
  <2> QED BY <1>1, <1>3, <2>1, LogData
<1>7. ~torn => Form(Log', None)
  <2>1. ~torn => Form(Log, half)
    BY DEF WalInv
  <2> QED BY <1>1, <1>3, <2>1, FormData
<1>8. synced' \in 0..Len(file') /\ appended' \in Seq(Entry)
  BY <1>1, <1>3, <1>4, SyncedKept DEF TypeOK
<1>9. TypeOK'
  BY <1>1, <1>3, <1>4, <1>5, <1>8 DEF TypeOK
<1> QED BY <1>4, <1>5, <1>6, <1>7, <1>9 DEF WalInv

LEMMA AppendFailInv ==
  ASSUME WalInv, AppendFail PROVE WalInv'
<1>1. TypeOK /\ Log \in Seq(Unit)
  BY LogType DEF WalInv
<1>2. /\ half' = None /\ torn' = TRUE
      /\ UNCHANGED <<buf, file, synced, appended, tried, checks, crashes, reader, pos, len>>
  BY DEF AppendFail, recovery
<1>3. Log' = Log
  BY <1>2 DEF Log
<1>4. LogInv(Log, None, appended, tried)
  <2>1. LogInv(Log, half, appended, tried) /\ appended \in Seq(Entry)
    BY DEF WalInv, TypeOK
  <2>2. Shorter(Log, Log)
    BY <1>1 DEF Shorter
  <2> QED BY <1>1, <2>1, <2>2, LogCut
<1>5. TypeOK'
  BY <1>1, <1>2 DEF TypeOK
<1> QED BY <1>2, <1>3, <1>4, <1>5 DEF WalInv

LEMMA SyncInv ==
  ASSUME WalInv, Sync PROVE WalInv'
<1>1. TypeOK /\ Log \in Seq(Unit) /\ Shorter(file, Log)
  BY LogType DEF WalInv
<1>2. /\ file' = Log /\ buf' = <<>> /\ synced' = Len(file')
      /\ UNCHANGED <<half, appended, tried, torn, checks, crashes, recovery>>
  BY DEF Sync, Log
<1>3. Log' = Log
  <2>1. Log' = file' \o <<>>
    BY <1>2 DEF Log
  <2> QED BY <1>1, <1>2, <2>1, NoneBehind
<1>4. file' \in Seq(Unit) /\ Shorter(file, file') /\ synced' \in 0..Len(file')
  BY <1>1, <1>2
<1>5. /\ pos' \in 0..Len(file') /\ len' \in 0..Len(file') /\ reader' = reader
      /\ ReadInv(file, pos, reader)' /\ (~torn' => ReadExact(file, pos, reader)')
  BY <1>2, <1>4, ReadKept DEF WalInv
<1>6. buf' \in Seq(Unit) /\ Len(buf') <= Cap
  BY <1>2, WalAssumption
<1>7. TypeOK'
  BY <1>1, <1>2, <1>4, <1>5, <1>6 DEF TypeOK
<1> QED BY <1>2, <1>3, <1>5, <1>7 DEF WalInv

LEMMA MidIs ==
  ASSUME NEW f \in Seq(Unit), ~MidEntry(f) PROVE Len(f) > 0 => ~Opens(f[Len(f)])
BY DEF MidEntry, Opens

\* The checkpoint gets between the file and what is in the buffer.
LEMMA CheckpointLog ==
  ASSUME TypeOK, file' = file \o CheckpointEntry, buf' = buf
  PROVE  /\ file' \in Seq(Unit) /\ Shorter(file, file') /\ Log' \in Seq(Unit)
         /\ Len(file) \in 0..Len(Log) /\ Marked(Log', Log, Len(file))
<1> DEFINE n == Len(file)
<1>1. file \in Seq(Unit) /\ buf \in Seq(Unit) /\ CheckpointEntry \in Seq(Unit)
  BY Writes DEF TypeOK
<1>2. n \in Nat /\ Len(buf) \in Nat
  BY <1>1
<1>3. /\ file' \in Seq(Unit) /\ Len(file') = n + 1 /\ file'[n + 1] = Mark
      /\ \A i \in 1..n : file'[i] = file[i]
  <2>1. Len(CheckpointEntry) = 1 /\ CheckpointEntry[1] = Mark /\ 1 \in 1..1
    BY Writes
  <2>2. /\ file' \in Seq(Unit) /\ Len(file') = n + Len(CheckpointEntry)
        /\ \A i \in 1..n : file'[i] = file[i]
        /\ \A i \in 1..Len(CheckpointEntry) : file'[n + i] = CheckpointEntry[i]
    BY <1>1, Joined
  <2> HIDE DEF n
  <2> QED BY <2>1, <2>2, Zenon
<1>4. /\ Log' \in Seq(Unit) /\ Len(Log') = (n + 1) + Len(buf)
      /\ \A i \in 1..(n + 1) : Log'[i] = file'[i]
      /\ \A i \in 1..Len(buf) : Log'[(n + 1) + i] = buf[i]
  <2>1. Log' = file' \o buf
    BY DEF Log
  <2>2. /\ Log' \in Seq(Unit) /\ Len(Log') = Len(file') + Len(buf)
        /\ \A i \in 1..Len(file') : Log'[i] = file'[i]
        /\ \A i \in 1..Len(buf) : Log'[Len(file') + i] = buf[i]
    <3>1. PICK g \in Seq(Unit) : g = file'
      BY <1>3
    <3>2. Log' = g \o buf
      BY <2>1, <3>1
    <3>3. /\ g \o buf \in Seq(Unit) /\ Len(g \o buf) = Len(g) + Len(buf)
          /\ \A i \in 1..Len(g) : (g \o buf)[i] = g[i]
          /\ \A i \in 1..Len(buf) : (g \o buf)[Len(g) + i] = buf[i]
      BY <1>1, Joined
    <3> QED BY <3>1, <3>2, <3>3
  <2> HIDE DEF n
  <2> QED BY <1>3, <2>2, Zenon
<1>5. /\ Len(Log) = n + Len(buf)
      /\ \A i \in 1..n : Log[i] = file[i]
      /\ \A i \in 1..Len(buf) : Log[n + i] = buf[i]
  BY <1>1, Joined DEF Log
<1> HIDE DEF n
<1>6. \A i \in 1..n : Log'[i] = Log[i]
  <2>1. \A i \in 1..n : i \in 1..(n + 1)
    BY <1>2
  <2> QED BY <1>3, <1>4, <1>5, <2>1, Zenon
<1>7. Log'[n + 1] = Mark
  <2>1. n + 1 \in 1..(n + 1)
    BY <1>2
  <2> QED BY <1>3, <1>4, <2>1, Zenon
<1>8. ASSUME NEW i \in (n + 1)..Len(Log) PROVE Log'[i + 1] = Log[i]
  <2>1. PICK k \in 1..Len(buf) : k = i - n
    <3>1. i - n \in 1..Len(buf)
      BY <1>2, <1>5
    <3> QED BY <3>1
  <2>2. i = n + k /\ i + 1 = (n + 1) + k
    BY <1>2, <2>1
  <2> QED BY <1>4, <1>5, <2>2
<1>9. Marked(Log', Log, n)
  <2>1. Len(Log') = Len(Log) + 1
    BY <1>2, <1>4, <1>5
  <2> QED BY <1>6, <1>7, <1>8, <2>1 DEF Marked
<1>10. Shorter(file, file') /\ n \in 0..Len(Log)
  BY <1>2, <1>3, <1>5 DEF Shorter, n
<1> QED BY <1>3, <1>4, <1>9, <1>10 DEF n

LEMMA CheckpointInv ==
  ASSUME WalInv, Checkpoint PROVE WalInv'
<1>1. TypeOK /\ Log \in Seq(Unit) /\ Shorter(file, Log) /\ file \in Seq(Unit)
  BY LogType, Zenon DEF WalInv, TypeOK
<1>2. /\ file' = file \o CheckpointEntry /\ synced' = Len(file') /\ torn' = (torn \/ MidEntry(file))
      /\ checks < MaxCheck /\ checks' = checks + 1
      /\ UNCHANGED <<buf, half, appended, tried, crashes, recovery>>
  BY DEF Checkpoint
<1>3. /\ file' \in Seq(Unit) /\ Shorter(file, file') /\ Log' \in Seq(Unit)
      /\ Len(file) \in 0..Len(Log) /\ Marked(Log', Log, Len(file))
  BY <1>1, <1>2, CheckpointLog
<1>4. torn \in BOOLEAN /\ MidEntry(file) \in BOOLEAN
  BY Zenon DEF WalInv, TypeOK, MidEntry
<1>5. torn' \in BOOLEAN /\ (~torn' => ~torn /\ ~MidEntry(file))
  BY <1>2, <1>4, Zenon
<1>6. /\ pos' \in 0..Len(file') /\ len' \in 0..Len(file') /\ reader' = reader
      /\ ReadInv(file, pos, reader)' /\ (~torn' => ReadExact(file, pos, reader)')
  BY <1>2, <1>3, <1>5, ReadKept DEF WalInv
<1>7. LogInv(Log', half, appended, tried)
  <2>1. LogInv(Log, half, appended, tried) /\ appended \in Seq(Entry)
    BY DEF WalInv, TypeOK
  <2> QED BY <1>1, <1>3, <2>1, LogMark
<1>8. ~torn' => Form(Log', half)
  <2> SUFFICES ASSUME ~torn' PROVE Form(Log', half)
    OBVIOUS
  <2>1. Form(Log, half) /\ half \in Entry \cup {None}
    BY <1>5 DEF WalInv, TypeOK
  <2>2. Len(file) > 0 => ~Opens(file[Len(file)])
    BY <1>1, <1>5, MidIs
  <2>3. Len(file) > 0 => file[Len(file)] = Log[Len(file)]
    BY <1>1 DEF Shorter
  <2> QED BY <1>1, <1>3, <2>1, <2>2, <2>3, FormMark
<1>9. synced' \in 0..Len(file') /\ checks' \in 0..MaxCheck
  BY <1>1, <1>2, <1>3, WalAssumption DEF TypeOK
<1>10. TypeOK'
  BY <1>1, <1>2, <1>3, <1>5, <1>6, <1>9, Zenon DEF TypeOK
<1> QED BY <1>2, <1>6, <1>7, <1>8, <1>10 DEF WalInv

LEMMA CrashInv ==
  ASSUME WalInv, Crash PROVE WalInv'
<1>1. /\ TypeOK /\ Log \in Seq(Unit) /\ Shorter(file, Log) /\ file \in Seq(Unit)
      /\ synced \in 0..Len(file) /\ Len(file) \in Nat /\ Len(Log) \in Nat
  <2>1. TypeOK
    BY Zenon DEF WalInv
  <2>2. Log \in Seq(Unit) /\ Shorter(file, Log)
    BY <2>1, LogType
  <2>3. file \in Seq(Unit) /\ synced \in 0..Len(file)
    BY <2>1 DEF TypeOK
  <2> QED BY <2>1, <2>2, <2>3
<1>2. PICK n \in synced..Len(file) : file' = SubSeq(file, 1, n) /\ torn' = (torn \/ MidEntry(file'))
  BY DEF Crash
<1>3. /\ buf' = <<>> /\ synced' = Len(file') /\ half' = None /\ reader' = FreshReader /\ pos' = 0 /\ len' = 0
      /\ crashes < MaxCrash /\ crashes' = crashes + 1 /\ UNCHANGED <<appended, tried, checks>>
  BY DEF Crash
<1>4. n \in Nat /\ n <= Len(file)
  BY <1>1
<1>5. file' \in Seq(Unit) /\ Len(file') = n /\ \A i \in 1..n : file'[i] = file[i]
  BY <1>1, <1>2, <1>4
<1>6. Shorter(file', Log)
  <2>1. n <= Len(Log) /\ \A i \in 1..n : i \in 1..Len(file)
    BY <1>1, <1>4 DEF Shorter
  <2> QED BY <1>1, <1>5, <2>1 DEF Shorter
<1>7. Log' = file'
  <2>1. Log' = file' \o <<>>
    BY <1>3 DEF Log
  <2> QED BY <1>5, <2>1, NoneBehind
<1>8. torn \in BOOLEAN /\ MidEntry(file') \in BOOLEAN
  BY DEF WalInv, TypeOK, MidEntry
<1>9. torn' \in BOOLEAN /\ (~torn' => ~torn /\ ~MidEntry(file'))
  BY <1>2, <1>8, Zenon
<1>10. LogInv(file', None, appended, tried)
  <2>1. LogInv(Log, half, appended, tried) /\ appended \in Seq(Entry)
    BY DEF WalInv, TypeOK
  <2> QED BY <1>1, <1>5, <1>6, <2>1, LogCut
<1>11. ~torn' => Form(file', None)
  <2> SUFFICES ASSUME ~torn' PROVE Form(file', None)
    OBVIOUS
  <2>1. Form(Log, half)
    BY <1>9 DEF WalInv
  <2>2. Len(file') > 0 => ~Opens(file'[Len(file')])
    BY <1>5, <1>9, MidIs
  <2> QED BY <1>1, <1>5, <1>6, <2>1, <2>2, FormCut
<1>12. ReadInv(file', 0, FreshReader) /\ ReadExact(file', 0, FreshReader)
  BY ReadFresh
<1>13. /\ buf' \in Seq(Unit) /\ Len(buf') <= Cap /\ synced' \in 0..Len(file') /\ pos' \in 0..Len(file')
       /\ len' \in 0..Len(file') /\ crashes' \in 0..MaxCrash
  BY <1>1, <1>3, <1>4, <1>5, WalAssumption DEF TypeOK
<1>14. TypeOK'
  BY <1>1, <1>3, <1>5, <1>9, <1>12, <1>13, Zenon DEF TypeOK, ReadInv, ReaderType
<1> QED BY <1>3, <1>7, <1>10, <1>11, <1>12, <1>14 DEF WalInv

LEMMA RecoverOpenInv ==
  ASSUME WalInv, RecoverOpen PROVE WalInv'
<1>1. TypeOK /\ file \in Seq(Unit)
  BY Zenon DEF WalInv, TypeOK
<1>2. /\ reader' = FreshReader /\ pos' = 0 /\ len' = Len(file)
      /\ UNCHANGED <<buf, file, synced, half, appended, tried, torn, checks, crashes>>
  BY DEF RecoverOpen
<1>3. ReadInv(file, 0, FreshReader) /\ ReadExact(file, 0, FreshReader)
  BY ReadFresh
<1>4. 0 \in 0..Len(file) /\ Len(file) \in 0..Len(file)
  BY <1>1
<1>5. TypeOK'
  BY <1>1, <1>2, <1>3, <1>4, Zenon DEF TypeOK, ReadInv, ReaderType
<1>6. Log' = Log
  BY <1>2 DEF Log
<1> QED BY <1>2, <1>3, <1>5, <1>6 DEF WalInv

\* What the next unit of the file is known to be.
LEMMA NextUnit ==
  ASSUME WalInv, pos < Len(file)
  PROVE  /\ Unique(file) /\ (file[pos + 1].kind = "header" => file[pos + 1].entry \in Entry)
         /\ ~torn => Fitting(file, pos)
<1>1. /\ TypeOK /\ Log \in Seq(Unit) /\ Shorter(file, Log) /\ file \in Seq(Unit)
      /\ Len(file) \in Nat /\ Len(Log) \in Nat /\ pos \in 0..Len(file) /\ tried \subseteq Entry
      /\ appended \in Seq(Entry) /\ LogInv(Log, half, appended, tried)
  <2>1. TypeOK /\ LogInv(Log, half, appended, tried)
    BY Zenon DEF WalInv
  <2>2. Log \in Seq(Unit) /\ Shorter(file, Log)
    BY <2>1, LogType
  <2>3. file \in Seq(Unit) /\ pos \in 0..Len(file) /\ tried \subseteq Entry /\ appended \in Seq(Entry)
    BY <2>1 DEF TypeOK
  <2> QED BY <2>1, <2>2, <2>3
<1>2. LogInv(file, None, appended, tried)
  BY <1>1, LogCut
<1>3. pos + 1 \in 1..Len(file) /\ pos \in Nat
  BY <1>1
<1>4. Unique(file) /\ (file[pos + 1].kind = "header" => file[pos + 1].entry \in Entry)
  BY <1>1, <1>2, <1>3, Zenon DEF LogInv, Known
<1>5. ASSUME ~torn PROVE Fitting(file, pos)
  <2>1. Form(Log, half)
    BY <1>5 DEF WalInv
  <2>2. \A i \in 1..Len(file) : i \in 1..Len(Log) /\ Log[i] = file[i]
    BY <1>1 DEF Shorter
  <2>3. CASE pos = 0
    <3>1. 1 \in 1..Len(file) /\ Len(Log) > 0
      BY <1>1, <1>3, <2>2, <2>3
    <3> QED BY <2>1, <2>2, <2>3, <3>1 DEF Form, Fitting
  <2>4. CASE pos # 0
    <3>1. pos \in 1..Len(file)
      BY <1>1, <2>4
    <3>2. Follows(Log[pos], Log[pos + 1])
      BY <1>3, <2>1, <2>2, <3>1 DEF Form
    <3> QED BY <1>3, <2>2, <2>4, <3>1, <3>2 DEF Fitting
  <2> QED BY <2>3, <2>4
<1> QED BY <1>4, <1>5

LEMMA RecoverReadInv ==
  ASSUME WalInv, RecoverRead PROVE WalInv'
<1>1. /\ TypeOK /\ file \in Seq(Unit) /\ pos \in Nat /\ pos \in 0..Len(file) /\ Len(file) \in Nat
      /\ ReadInv(file, pos, reader) /\ (~torn => ReadExact(file, pos, reader))
  BY DEF WalInv, TypeOK
<1>2. /\ pos < Len(file) /\ reader.state # "crc" /\ reader' = RecoverStep(reader, file[pos + 1]) /\ pos' = pos + 1
      /\ UNCHANGED <<buf, file, synced, half, appended, tried, torn, len, checks, crashes>>
  BY DEF RecoverRead
<1>3. /\ Unique(file) /\ (file[pos + 1].kind = "header" => file[pos + 1].entry \in Entry)
      /\ ~torn => Fitting(file, pos)
  BY <1>2, NextUnit
<1>4. ReadInv(file, pos + 1, reader')
  BY <1>1, <1>2, <1>3, ReadStep, Zenon
<1>5. ASSUME ~torn PROVE ReadExact(file, pos + 1, reader')
  <2>1. ReaderType(reader) /\ reader.state \in {"header", "data"} /\ ReadExact(file, pos, reader) /\ Fitting(file, pos)
    BY <1>1, <1>2, <1>3, <1>5, Zenon DEF ReadInv, ReaderType
  <2>2. CASE reader.state = "header"
    BY <1>1, <1>2, <1>3, <2>1, <2>2, ReadStepStart, Zenon
  <2>3. CASE reader.state = "data"
    BY <1>1, <1>2, <2>1, <2>3, ReadStepInside
  <2> QED BY <2>1, <2>2, <2>3
<1>6. pos' \in 0..Len(file)
  BY <1>1, <1>2
<1>7. TypeOK'
  BY <1>1, <1>2, <1>4, <1>6, Zenon DEF TypeOK, ReadInv, ReaderType
<1>8. Log' = Log
  BY <1>2 DEF Log
<1> QED BY <1>2, <1>4, <1>5, <1>7, <1>8 DEF WalInv

LEMMA WalInit == Init => WalInv
<1> SUFFICES ASSUME Init PROVE WalInv
  OBVIOUS
<1>1. <<>> \in Seq(Unit) /\ <<>> \in Seq(Entry) /\ Len(<<>>) = 0 /\ 1..0 = {} /\ 0 \in 0..0
  OBVIOUS
<1>2. ReadInv(file, 0, FreshReader) /\ ReadExact(file, 0, FreshReader)
  BY ReadFresh
<1>3. TypeOK
  <2>1. buf \in Seq(Unit) /\ Len(buf) <= Cap /\ file \in Seq(Unit) /\ Len(file) = 0 /\ appended \in Seq(Entry)
    BY <1>1, WalAssumption DEF Init
  <2>2. 0 \in 0..MaxCheck /\ 0 \in 0..MaxCrash
    BY WalAssumption
  <2>3. FreshReader \in [state : {"header", "data", "crc"}, head : Entry \cup {None}, data : Seq(Unit), entries : Seq(Entry)]
    BY <1>2 DEF ReadInv, ReaderType
  <2> QED BY <1>1, <2>1, <2>2, <2>3, Zenon DEF Init, TypeOK
<1>4. Log = <<>>
  <2>1. Log = <<>> \o <<>>
    BY DEF Init, Log
  <2> QED BY <1>1, <2>1, NoneBehind
<1>5. LogInv(Log, half, appended, tried)
  BY <1>1, <1>4 DEF Init, LogInv, Known, Unique, Fresh, Tried, Ended, Ordered
<1>6. Form(Log, half)
  BY <1>1, <1>4 DEF Init, Form
<1> QED BY <1>2, <1>3, <1>5, <1>6 DEF Init, WalInv

LEMMA WalNext == WalInv /\ [Next]_vars => WalInv'
<1> SUFFICES ASSUME WalInv, [Next]_vars PROVE WalInv'
  OBVIOUS
<1>1. ASSUME NEW e \in Entry, AppendHeader(e) PROVE WalInv'
  BY <1>1, AppendHeaderInv
<1>2. CASE AppendData
  BY <1>2, AppendDataInv
<1>3. CASE AppendFail
  BY <1>3, AppendFailInv
<1>4. CASE Sync
  BY <1>4, SyncInv
<1>5. CASE Checkpoint
  BY <1>5, CheckpointInv
<1>6. CASE Crash
  BY <1>6, CrashInv
<1>7. CASE RecoverOpen
  BY <1>7, RecoverOpenInv
<1>8. CASE RecoverRead
  BY <1>8, RecoverReadInv
<1>9. CASE UNCHANGED vars
  BY <1>9, Zenon DEF vars, recovery, WalInv, TypeOK, Log
<1> QED BY <1>1, <1>2, <1>3, <1>4, <1>5, <1>6, <1>7, <1>8, <1>9 DEF Next

LEMMA WalInvHolds == Spec => []WalInv
BY WalInit, WalNext, PTL DEF Spec

(* The log, its histories and the state of recover keep their types; in    *)
(* particular recover holds only entries, and the buffer of append stays   *)
(* within its capacity.                                                    *)
THEOREM TypeCorrect == Spec => []TypeOK
<1>1. WalInv => TypeOK
  BY DEF WalInv
<1> QED BY <1>1, WalInvHolds, PTL

(* As long as nothing was written behind a part of an entry, a call of     *)
(* recover, wherever it is in the file, has exactly the entries that are   *)
(* whole behind the last checkpoint it read, in their order.               *)
THEOREM RecoversExactly == Spec => []RecoverExact
<1>1. ASSUME WalInv PROVE RecoverExact
  <2> SUFFICES ASSUME ~torn
               PROVE  /\ reader.state # "crc"
                      /\ \A k \in DOMAIN reader.entries : \E i \in WholeAt : file[i].entry = reader.entries[k]
                      /\ \A i \in WholeAt : \E k \in DOMAIN reader.entries : reader.entries[k] = file[i].entry
                      /\ \A i, j \in WholeAt : \A k, l \in DOMAIN reader.entries :
                           reader.entries[k] = file[i].entry /\ reader.entries[l] = file[j].entry => (k < l <=> i < j)
    BY DEF RecoverExact
  <2>1. /\ file \in Seq(Unit) /\ pos \in 0..Len(file) /\ reader.entries \in Seq(Entry)
        /\ ReadInv(file, pos, reader) /\ ReadExact(file, pos, reader)
    BY <1>1 DEF WalInv, TypeOK
  <2>2. WholeAt = Whole(file, pos) /\ DOMAIN reader.entries = 1..Len(reader.entries)
    BY <2>1 DEF WholeAt, Whole, IsEnd
  <2>3. /\ reader.state # "crc" /\ Complete(file, pos, reader)
        /\ \A i, j \in Whole(file, pos) : \A k, l \in 1..Len(reader.entries) :
             reader.entries[k] = file[i].entry /\ reader.entries[l] = file[j].entry => (k < l <=> i < j)
    BY <2>1, ExactGives
  <2>4. \A k \in DOMAIN reader.entries : \E i \in WholeAt : file[i].entry = reader.entries[k]
    BY <2>2, <2>3 DEF Complete
  <2>5. \A i \in WholeAt : \E k \in DOMAIN reader.entries : reader.entries[k] = file[i].entry
    BY <2>2, <2>3 DEF Complete
  <2>6. \A i, j \in WholeAt : \A k, l \in DOMAIN reader.entries :
          reader.entries[k] = file[i].entry /\ reader.entries[l] = file[j].entry => (k < l <=> i < j)
    BY <2>2, <2>3
  <2> QED BY <2>3, <2>4, <2>5, <2>6, Zenon
<1> QED BY <1>1, WalInvHolds, PTL

(* Torn or not, recover never has an entry whose append did not return Ok, *)
(* nor one twice, nor two in another order than that of their appends.     *)
THEOREM InventsNothing == Spec => []NothingInvented
<1>1. ASSUME WalInv PROVE NothingInvented
  <2> DEFINE got == reader.entries
             ap == appended
  <2>1. /\ TypeOK /\ file \in Seq(Unit) /\ Log \in Seq(Unit) /\ Shorter(file, Log) /\ got \in Seq(Entry) /\ ap \in Seq(Entry)
        /\ LogInv(Log, half, ap, tried) /\ Found(file, pos, reader) /\ Sorted(file, pos, reader)
        /\ pos \in 0..Len(file) /\ Len(file) \in Nat
    <3>1. TypeOK /\ LogInv(Log, half, ap, tried) /\ ReadInv(file, pos, reader)
      BY <1>1, Zenon DEF WalInv
    <3>2. Log \in Seq(Unit) /\ Shorter(file, Log)
      BY <3>1, LogType
    <3>3. file \in Seq(Unit) /\ got \in Seq(Entry) /\ ap \in Seq(Entry) /\ pos \in 0..Len(file)
      BY <3>1 DEF TypeOK
    <3>4. Len(file) \in Nat
      BY <3>3
    <3> QED BY <3>1, <3>2, <3>3, <3>4, Zenon DEF ReadInv
  <2>2. DOMAIN got = 1..Len(got) /\ DOMAIN ap = 1..Len(ap) /\ Len(got) \in Nat /\ Len(ap) \in Nat
    <3>1. got \in Seq(Entry) /\ ap \in Seq(Entry)
      BY <2>1
    <3> HIDE DEF got, ap
    <3> QED BY <3>1
  <2>3. LogInv(file, None, ap, tried)
    BY <2>1, LogCut
  <2>4. Ended(file, ap) /\ Ordered(file, ap) /\ Tried(ap, tried)
    BY <2>3 DEF LogInv
  <2>5. ASSUME NEW k \in 1..Len(got)
        PROVE  \E i \in 1..pos : i \in 1..Len(file) /\ file[i] = EndOf(got[k]) /\ IsEnd(file[i]) /\ file[i].entry = got[k]
    <3>1. PICK i \in 1..pos : file[i] = EndOf(got[k])
      BY <2>1 DEF Found
    <3>2. i \in 1..Len(file)
      BY <2>1
    <3> QED BY <3>1, <3>2, EndOfIs
  <2>6. ASSUME NEW k \in 1..Len(got) PROVE \E a \in 1..Len(ap) : ap[a] = got[k]
    <3>1. PICK i \in 1..pos : i \in 1..Len(file) /\ IsEnd(file[i]) /\ file[i].entry = got[k]
      BY <2>5
    <3> QED BY <2>4, <3>1 DEF Ended
  <2>7. ASSUME NEW k \in 1..Len(got), NEW l \in 1..Len(got), NEW a \in 1..Len(ap), NEW b \in 1..Len(ap),
               got[k] = ap[a], got[l] = ap[b]
        PROVE  k < l <=> a < b
    <3>1. PICK i \in 1..pos : i \in 1..Len(file) /\ file[i] = EndOf(got[k]) /\ IsEnd(file[i]) /\ file[i].entry = got[k]
      BY <2>5
    <3>2. PICK j \in 1..pos : j \in 1..Len(file) /\ file[j] = EndOf(got[l]) /\ IsEnd(file[j]) /\ file[j].entry = got[l]
      BY <2>5
    <3>3. k < l <=> i < j
      BY <2>1, <3>1, <3>2, Zenon DEF Sorted
    <3>4. i < j => a < b
      BY <2>4, <2>7, <3>1, <3>2, Zenon DEF Ordered
    <3>5. j < i => b < a
      BY <2>4, <2>7, <3>1, <3>2, Zenon DEF Ordered
    <3>6. i = j => a = b
      <4>1. i = j => ap[a] = ap[b]
        BY <2>7, <3>1, <3>2, Zenon
      <4> QED BY <2>4, <2>7, <4>1, Zenon DEF Tried
    <3> QED BY <3>3, <3>4, <3>5, <3>6
  <2> QED BY <2>2, <2>6, <2>7, Zenon DEF NothingInvented
<1> QED BY <1>1, WalInvHolds, PTL
=============================================================================
