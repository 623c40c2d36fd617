-------------------------- MODULE StateStore_proofs --------------------------
(***************************************************************************)
(* What StateStore guarantees for every set of tasks, every throttling     *)
(* interval and every bound: its type invariant, its two safety            *)
(* invariants, the spacing of throttled writes, and that it implements     *)
(* DurableRegister.                                                        *)
(***************************************************************************)
EXTENDS StateStore, TLAPS

-----------------------------------------------------------------------------
(* The inductive invariant                                                 *)

(* A caller has at most one place: one entry of the chain, or the write in *)
(* flight.                                                                 *)
OnePlace ==
  /\ \A i, j \in 1 .. Len(chain) : chain[i].task = chain[j].task => i = j
  /\ writer # NoTask => \A i \in 1 .. Len(chain) : chain[i].task # writer

(* The file, the payload in flight and the memory are ordered, and no      *)
(* caller waits for more than memory holds.                                *)
Ordered ==
  /\ disk <= mem
  /\ writer # NoTask => disk <= payload /\ payload <= mem /\ call[writer].floor <= payload
  /\ \A t \in Task : call[t].floor <= mem

(* When the barrier of a close() comes to the head of a quiet chain, the   *)
(* state is dirty or the file already covers what it was asked to cover.   *)
Settled(i) ==
  \/ dirty
  \/ disk >= call[chain[i].task].floor
  \/ writer # NoTask /\ payload >= call[chain[i].task].floor
  \/ \E j \in 1 .. i - 1 : chain[j].kind = "write"

BarriersSettle ==
  \A i \in 1 .. Len(chain) : chain[i].kind = "barrier" => Settled(i)

(* A dead process leaves nothing but the file.                             *)
DownIsEmpty ==
  ~up => chain = <<>> /\ writer = NoTask /\ mem = disk /\ call = NoCalls

(* The throttle's anchor and the clock are past its last decision.         *)
AnchorCovers == decided <= anchor /\ decided <= now

IInv ==
  /\ TypeOK /\ OnePlace /\ Ordered /\ BarriersSettle
  /\ CleanIsDurable /\ SavedIsDurable /\ DownIsEmpty /\ AnchorCovers
-----------------------------------------------------------------------------
(* Facts about the chain                                                   *)

(* What pushing an entry and taking the head of a chain do, index by index. *)
LEMMA AppendFacts ==
  ASSUME NEW s \in Seq(Entry), NEW e \in Entry
  PROVE  /\ Append(s, e) \in Seq(Entry)
         /\ Len(Append(s, e)) = Len(s) + 1
         /\ \A i \in 1 .. Len(s) : Append(s, e)[i] = s[i]
         /\ Append(s, e)[Len(s) + 1] = e
  OBVIOUS

(* What taking the head of a chain leaves.                                 *)
LEMMA TailFacts ==
  ASSUME NEW s \in Seq(Entry), s # <<>>
  PROVE  /\ Head(s) = s[1] /\ Head(s) \in Entry /\ 1 \in 1 .. Len(s)
         /\ Tail(s) \in Seq(Entry)
         /\ Len(Tail(s)) = Len(s) - 1
         /\ \A i \in 1 .. Len(Tail(s)) : Tail(s)[i] = s[i + 1] /\ i + 1 \in 1 .. Len(s)
  OBVIOUS

(* Moving the head of a chain to its end keeps its length.                 *)
LEMMA RotateFacts ==
  ASSUME NEW s \in Seq(Entry), s # <<>>, NEW e \in Entry
  PROVE  /\ Append(Tail(s), e) \in Seq(Entry)
         /\ Len(Append(Tail(s), e)) = Len(s) /\ Len(s) \in Nat /\ Len(s) >= 1
         /\ \A i \in 1 .. Len(s) - 1 : Append(Tail(s), e)[i] = s[i + 1]
         /\ Append(Tail(s), e)[Len(s)] = e
  OBVIOUS

(* An entry of a chain is a pair of a task and a kind.                     *)
LEMMA EntryFacts ==
  ASSUME NEW s \in Seq(Entry)
  PROVE  /\ Len(s) \in Nat /\ DOMAIN s = 1 .. Len(s)
         /\ \A i \in 1 .. Len(s) : /\ s[i] \in Entry /\ s[i].task \in Task
                                   /\ s[i].kind \in {"write", "barrier"}
  <1>1. Len(s) \in Nat /\ DOMAIN s = 1 .. Len(s) /\ \A i \in 1 .. Len(s) : s[i] \in Entry
    OBVIOUS
  <1>2. \A e \in Entry : e.task \in Task /\ e.kind \in {"write", "barrier"}
    BY DEF Entry
  <1> QED BY <1>1, <1>2

(* Who is queued, by position.                                             *)
LEMMA TaskFacts ==
  ASSUME NEW s \in Seq(Entry)
  PROVE  \A u : u \in {s[i].task : i \in DOMAIN s}
                 <=> \E i \in 1 .. Len(s) : s[i].task = u
  BY EntryFacts

(* Initially nothing is queued and the file covers nothing.                *)
LEMMA InitIInv == Init => IInv
  <1> SUFFICES ASSUME Init PROVE IInv
    OBVIOUS
  <1> USE DEF Init, NoCalls, Never
  <1>1. TypeOK
    BY TaskAssumption, IntervalAssumption DEF TypeOK, Queued, Entry
  <1>2. OnePlace /\ Ordered /\ BarriersSettle
    BY DEF OnePlace, Ordered, BarriersSettle
  <1>3. CleanIsDurable /\ SavedIsDurable /\ DownIsEmpty
    BY DEF CleanIsDurable, SavedIsDurable, DownIsEmpty
  <1>4. AnchorCovers
    BY IntervalAssumption DEF AnchorCovers
  <1> QED BY <1>1, <1>2, <1>3, <1>4 DEF IInv

-----------------------------------------------------------------------------
(* Every step keeps the invariant                                          *)

(* The four operations that queue a caller and await it.                   *)
LEMMA PushStep ==
  ASSUME IInv, NEW t \in Task, Idle(t),
         NEW kind \in {"write", "barrier"}, Push(t, kind, mem'),
         mem' \in {mem, mem + 1}, kind = "barrier" => mem' = mem,
         UNCHANGED <<up, dirty, writer, payload, disk, crashes>>,
         anchor' \in Int, decided' \in Int, now' \in Nat
  PROVE  /\ TypeOK' /\ OnePlace' /\ Ordered' /\ BarriersSettle'
         /\ CleanIsDurable' /\ SavedIsDurable' /\ DownIsEmpty'
  <1> DEFINE e == [task |-> t, kind |-> kind]
             n == Len(chain) + 1
  <1>1. TypeOK
    BY DEF IInv
  <1>2. /\ chain \in Seq(Entry) /\ mem \in Nat /\ mem' \in Nat /\ disk \in Nat
        /\ payload \in Nat /\ dirty \in BOOLEAN /\ up \in BOOLEAN
        /\ writer \in Task \cup {NoTask}
        /\ call \in [Task -> [st : {"idle", "waiting", "ok", "failed"}, floor : Nat]]
    BY <1>1 DEF TypeOK
  <1>3. e \in Entry /\ e.task = t /\ e.kind = kind
    BY DEF Entry
  <1>4. chain' = Append(chain, e)
    BY DEF Push
  <1>5. /\ chain' \in Seq(Entry) /\ Len(chain') = n /\ Len(chain) \in Nat
        /\ \A i \in 1 .. Len(chain) : chain'[i] = chain[i]
        /\ chain'[n] = e
    BY <1>2, <1>3, <1>4, AppendFacts, EntryFacts
  <1>6. \A i \in 1 .. n : i = n \/ i \in 1 .. Len(chain)
    BY <1>5
  <1>7. call' = [call EXCEPT ![t] = [st |-> "waiting", floor |-> mem']]
    BY DEF Push
  <1>8. t # writer /\ \A i \in 1 .. Len(chain) : chain[i].task # t
    BY <1>1, <1>2, EntryFacts DEF TypeOK, Queued, Idle
  <1>9. /\ \A u \in Task : u # t => call'[u] = call[u]
        /\ call'[t] = [st |-> "waiting", floor |-> mem']
        /\ call' \in [Task -> [st : {"idle", "waiting", "ok", "failed"}, floor : Nat]]
    BY <1>2, <1>7
  <1>10. TypeOK'
    <2>1. \A u : u \in Queued' <=> u \in Queued \/ u = t
      <3>1. \A u : u \in Queued <=> \E i \in 1 .. Len(chain) : chain[i].task = u
        BY <1>2, TaskFacts DEF Queued
      <3>2. \A u : u \in Queued' <=> \E i \in 1 .. n : chain'[i].task = u
        BY <1>5, TaskFacts DEF Queued
      <3>3. n \in 1 .. n /\ \A i \in 1 .. Len(chain) : i \in 1 .. n
        BY <1>5
      <3> QED BY <1>3, <1>5, <1>6, <3>1, <3>2, <3>3
    <2>2. \A u \in Task : call'[u].st = "waiting" <=> writer' = u \/ u \in Queued'
      BY <1>1, <1>9, <2>1 DEF TypeOK
    <2> QED BY <1>1, <1>2, <1>5, <1>9, <2>2 DEF TypeOK
  <1>11. OnePlace'
    BY <1>3, <1>5, <1>6, <1>8 DEF IInv, OnePlace
  <1>12. Ordered'
    <2>1. disk' <= mem'
      BY <1>2 DEF IInv, Ordered
    <2>2. writer' # NoTask =>
            disk' <= payload' /\ payload' <= mem' /\ call'[writer'].floor <= payload'
      BY <1>2, <1>8, <1>9 DEF IInv, Ordered
    <2>3. \A u \in Task : call'[u].floor <= mem'
      <3>1. \A u \in Task : call[u].floor <= mem /\ call[u].floor \in Nat
        BY <1>2 DEF IInv, Ordered
      <3>2. mem <= mem' /\ call'[t].floor = mem'
        BY <1>2, <1>9
      <3>3. \A u \in Task : u # t => call'[u].floor <= mem'
        BY <1>2, <1>9, <3>1, <3>2
      <3> QED BY <1>2, <3>2, <3>3
    <2> QED BY <2>1, <2>2, <2>3 DEF Ordered
  <1>13. CleanIsDurable'
    <2>1. CASE kind = "write"
      BY <1>3, <1>5, <2>1, EntryFacts DEF CleanIsDurable, WriteQueued
    <2>2. CASE kind = "barrier"
      <3>1. WriteQueued => WriteQueued'
        BY <1>2, <1>5, EntryFacts DEF WriteQueued
      <3> QED BY <2>2, <3>1 DEF IInv, CleanIsDurable
    <2> QED BY <2>1, <2>2
  <1>14. BarriersSettle'
    <2> SUFFICES ASSUME NEW i \in 1 .. n, chain'[i].kind = "barrier"
                 PROVE  Settled(i)'
      BY <1>5 DEF BarriersSettle
    <2>1. CASE i \in 1 .. Len(chain)
      <3>1. Settled(i) /\ chain[i].task \in Task /\ chain[i].task # t
        BY <1>2, <1>5, <1>8, <2>1, EntryFacts DEF IInv, BarriersSettle
      <3>2. \A j \in 1 .. i - 1 : chain'[j] = chain[j]
        BY <1>5, <2>1
      <3> QED BY <1>5, <1>9, <2>1, <3>1, <3>2 DEF Settled
    <2>2. CASE i = n
      <3>1. kind = "barrier" /\ mem' = mem /\ chain'[i].task = t
        BY <1>3, <1>5, <2>2
      <3>2. ~dirty => disk = mem \/ (writer # NoTask /\ payload = mem) \/ WriteQueued
        BY <1>2 DEF IInv, CleanIsDurable, Idle
      <3>3. WriteQueued => \E j \in 1 .. i - 1 : chain'[j].kind = "write"
        <4>1. DOMAIN chain = 1 .. i - 1 /\ \A j \in 1 .. i - 1 : chain'[j] = chain[j]
          BY <1>2, <1>5, <2>2, EntryFacts
        <4> QED BY <4>1 DEF WriteQueued
      <3>4. call'[chain'[i].task].floor = mem
        BY <1>9, <3>1
      <3> QED BY <1>2, <3>2, <3>3, <3>4 DEF Settled
    <2> QED BY <1>6, <2>1, <2>2
  <1>15. SavedIsDurable'
    BY <1>9 DEF IInv, SavedIsDurable
  <1>16. DownIsEmpty'
    BY DEF IInv, DownIsEmpty, Idle
  <1> QED BY <1>10, <1>11, <1>12, <1>13, <1>14, <1>15, <1>16

Calls == [Task -> [st : {"idle", "waiting", "ok", "failed"}, floor : Nat]]

(* The types of what the steps below read.                                 *)
LEMMA Typed ==
  ASSUME IInv
  PROVE  /\ chain \in Seq(Entry) /\ mem \in Nat /\ disk \in Nat /\ payload \in Nat
         /\ dirty \in BOOLEAN /\ up \in BOOLEAN /\ writer \in Task \cup {NoTask}
         /\ anchor \in Int /\ decided \in Int /\ now \in Nat /\ crashes \in Nat
         /\ call \in Calls
         /\ \A t \in Task : call[t].st \in {"idle", "waiting", "ok", "failed"}
                            /\ call[t].floor \in Nat
  BY DEF IInv, TypeOK, Calls

(* The caller at the head of a quiet chain waits, and is nowhere else.     *)
LEMMA HeadStep ==
  ASSUME IInv, chain # <<>>
  PROVE  /\ chain[1] = Head(chain) /\ 1 \in 1 .. Len(chain) /\ Len(chain) \in Nat
         /\ Head(chain) \in Entry /\ Head(chain).task \in Task
         /\ Head(chain).task # writer /\ call[Head(chain).task].st = "waiting"
         /\ Tail(chain) \in Seq(Entry) /\ Len(Tail(chain)) = Len(chain) - 1
         /\ \A i \in 1 .. Len(Tail(chain)) :
              /\ i + 1 \in 1 .. Len(chain) /\ Tail(chain)[i] = chain[i + 1]
              /\ Tail(chain)[i].task # Head(chain).task
         /\ \A u : u \in Queued <=>
              u = Head(chain).task \/ \E i \in 1 .. Len(Tail(chain)) : Tail(chain)[i].task = u
  <1>1. chain \in Seq(Entry) /\ call \in Calls
    BY Typed
  <1>2. /\ chain[1] = Head(chain) /\ Head(chain) \in Entry /\ 1 \in 1 .. Len(chain)
        /\ Tail(chain) \in Seq(Entry) /\ Len(Tail(chain)) = Len(chain) - 1
        /\ \A i \in 1 .. Len(Tail(chain)) :
             Tail(chain)[i] = chain[i + 1] /\ i + 1 \in 1 .. Len(chain)
        /\ Len(chain) \in Nat /\ Head(chain).task \in Task
    BY <1>1, TailFacts, EntryFacts
  <1>3. \A u : u \in Queued <=> \E i \in 1 .. Len(chain) : chain[i].task = u
    BY <1>1, TaskFacts DEF Queued
  <1>4. Head(chain).task \in Queued /\ call[Head(chain).task].st = "waiting"
    BY <1>2, <1>3 DEF IInv, TypeOK
  <1>5. Head(chain).task # writer
    BY <1>2, TaskAssumption DEF IInv, OnePlace
  <1>6. \A i \in 1 .. Len(Tail(chain)) : Tail(chain)[i].task # Head(chain).task
    BY <1>2 DEF IInv, OnePlace
  <1>7. \A i \in 1 .. Len(chain) : i = 1 \/ (i - 1 \in 1 .. Len(Tail(chain))
                                             /\ chain[i] = Tail(chain)[i - 1])
    BY <1>2
  <1>8. \A u : u \in Queued <=>
          u = Head(chain).task \/ \E i \in 1 .. Len(Tail(chain)) : Tail(chain)[i].task = u
    BY <1>2, <1>3, <1>7
  <1> QED BY <1>2, <1>4, <1>5, <1>6, <1>8

(* close() finds the state dirty, and queues a write after what is queued. *)
LEMMA CloseWritesStep == IInv /\ CloseWrites => IInv'
  <1> SUFFICES ASSUME IInv, CloseWrites PROVE IInv'
    OBVIOUS
  <1> DEFINE h == Head(chain).task
             e == [task |-> h, kind |-> "write"]
             n == Len(chain)
  <1>1. chain # <<>> /\ writer = NoTask /\ dirty /\ chain' = Append(Tail(chain), e)
        /\ UNCHANGED <<up, mem, dirty, anchor, writer, payload, disk, call, now,
                       crashes, decided>>
    BY DEF CloseWrites
  <1>2. /\ n \in Nat /\ n \in 1 .. n /\ h \in Task /\ h # writer /\ call[h].st = "waiting"
        /\ e \in Entry /\ e.task = h /\ e.kind = "write"
        /\ chain' \in Seq(Entry) /\ Len(chain') = n /\ chain'[n] = e
        /\ \A i \in 1 .. n - 1 : chain'[i] = chain[i + 1] /\ i + 1 \in 1 .. n
                                 /\ chain'[i].task # h
        /\ \A i \in 1 .. n : i = n \/ i \in 1 .. n - 1
    <2>1. e \in Entry /\ e.task = h /\ e.kind = "write"
      BY <1>1, HeadStep DEF Entry
    <2>2. /\ chain \in Seq(Entry) /\ h \in Task /\ h # writer
          /\ call[h].st = "waiting" /\ chain[1].task = h
      BY <1>1, HeadStep, Typed
    <2>3. /\ chain' \in Seq(Entry) /\ Len(chain') = n /\ n \in Nat /\ n >= 1
          /\ chain'[n] = e /\ \A i \in 1 .. n - 1 : chain'[i] = chain[i + 1]
      <3> HIDE DEF e
      <3> QED BY <1>1, <2>1, <2>2, RotateFacts
    <2>4. \A i \in 1 .. n - 1 : i + 1 \in 1 .. n /\ chain[i + 1].task # h
      <3>1. 1 \in 1 .. n /\ \A i \in 1 .. n - 1 : i + 1 \in 1 .. n /\ i + 1 # 1
        BY <2>3
      <3> QED BY <2>2, <3>1 DEF IInv, OnePlace
    <2>5. n \in 1 .. n /\ \A i \in 1 .. n : i = n \/ i \in 1 .. n - 1
      BY <2>3
    <2> HIDE DEF e, h
    <2> QED BY <2>1, <2>2, <2>3, <2>4, <2>5
  <1>3. TypeOK'
    <2>1. \A u : u \in Queued' <=> \E i \in 1 .. n : chain'[i].task = u
      BY <1>2, TaskFacts DEF Queued
    <2>2. \A u : u \in Queued <=> u = h \/ \E i \in 1 .. n - 1 : chain'[i].task = u
      <3>1. \A u : u \in Queued <=> \E i \in 1 .. n : chain[i].task = u
        BY Typed, TaskFacts DEF Queued
      <3>2. 1 \in 1 .. n /\ chain[1].task = h
        BY <1>1, HeadStep
      <3>3. \A i \in 1 .. n : i = 1 \/ (i - 1 \in 1 .. n - 1 /\ chain[i] = chain'[i - 1])
        BY <1>2
      <3> QED BY <1>2, <3>1, <3>2, <3>3
    <2>3. \A u : u \in Queued' <=> u \in Queued
      BY <1>2, <2>1, <2>2
    <2> QED BY <1>1, <1>2, <2>3, Typed DEF IInv, TypeOK
  <1>4. OnePlace'
    <2>1. ASSUME NEW i \in 1 .. n, NEW j \in 1 .. n, chain'[i].task = chain'[j].task
          PROVE  i = j
      <3>1. CASE i \in 1 .. n - 1 /\ j \in 1 .. n - 1
        <4>1. i + 1 = j + 1
          BY <1>2, <2>1, <3>1 DEF IInv, OnePlace
        <4> QED BY <4>1
      <3>2. CASE i = n \/ j = n
        BY <1>2, <2>1, <3>2
      <3> QED BY <1>2, <3>1, <3>2
    <2> QED BY <1>1, <1>2, <2>1 DEF OnePlace
  <1>5. Ordered'
    BY <1>1 DEF IInv, Ordered
  <1>6. BarriersSettle'
    BY <1>1 DEF BarriersSettle, Settled
  <1>7. CleanIsDurable' /\ SavedIsDurable' /\ DownIsEmpty' /\ AnchorCovers'
    BY <1>1 DEF IInv, CleanIsDurable, SavedIsDurable, DownIsEmpty, AnchorCovers
  <1> QED BY <1>3, <1>4, <1>5, <1>6, <1>7 DEF IInv

(* close() finds nothing to write, and returns: its barrier had settled.   *)
LEMMA CloseReturnsStep == IInv /\ CloseReturns => IInv'
  <1> SUFFICES ASSUME IInv, CloseReturns PROVE IInv'
    OBVIOUS
  <1> DEFINE h == Head(chain).task
             n == Len(chain) - 1
  <1>1. /\ chain # <<>> /\ writer = NoTask /\ ~dirty /\ Head(chain).kind = "barrier"
        /\ chain' = Tail(chain) /\ call' = [call EXCEPT ![h].st = "ok"]
        /\ UNCHANGED <<up, mem, dirty, anchor, writer, payload, disk, now, crashes,
                       decided>>
    BY DEF CloseReturns
  <1>2. /\ n \in Nat /\ h \in Task /\ Len(chain') = n /\ chain' \in Seq(Entry)
        /\ \A i \in 1 .. n : /\ i + 1 \in 1 .. Len(chain) /\ chain'[i] = chain[i + 1]
                             /\ chain'[i].task # h /\ chain'[i].task \in Task
    BY <1>1, HeadStep, EntryFacts
  <1>3. /\ call' \in Calls /\ call'[h].st = "ok" /\ call'[h].floor = call[h].floor
        /\ \A u \in Task : u # h => call'[u] = call[u]
    BY <1>1, <1>2, Typed DEF Calls
  <1>4. disk >= call[h].floor
    BY <1>1, HeadStep DEF IInv, BarriersSettle, Settled
  <1>5. TypeOK'
    <2>1. \A u : u \in Queued' <=> \E i \in 1 .. n : chain'[i].task = u
      BY <1>2, TaskFacts DEF Queued
    <2>2. \A u \in Task : u \in Queued' <=> u \in Queued /\ u # h
      BY <1>1, <1>2, <2>1, HeadStep
    <2>3. \A u \in Task : call'[u].st = "waiting" <=> writer' = u \/ u \in Queued'
      BY <1>1, <1>3, <2>2, TaskAssumption DEF IInv, TypeOK
    <2> QED BY <1>1, <1>2, <1>3, <2>3, Typed DEF TypeOK, Calls
  <1>6. OnePlace'
    BY <1>1, <1>2 DEF IInv, OnePlace
  <1>7. Ordered'
    <2>1. \A u \in Task : call'[u].floor = call[u].floor
      BY <1>3
    <2> QED BY <1>1, <2>1 DEF IInv, Ordered
  <1>8. BarriersSettle'
    <2> SUFFICES ASSUME NEW i \in 1 .. n, chain'[i].kind = "barrier"
                 PROVE  Settled(i)'
      BY <1>2 DEF BarriersSettle
    <2>1. Settled(i + 1)
      BY <1>2 DEF IInv, BarriersSettle
    <2>2. call'[chain'[i].task] = call[chain[i + 1].task]
      BY <1>2, <1>3
    <2>3. disk < call[chain[i + 1].task].floor =>
            \E j \in 1 .. i : chain[j].kind = "write"
      BY <1>1, <1>2, <2>1, Typed DEF Settled
    <2>4. \A j \in 1 .. i : chain[j].kind = "write" =>
            j - 1 \in 1 .. i - 1 /\ chain'[j - 1].kind = "write"
      BY <1>1, <1>2, HeadStep
    <2>5. call[chain[i + 1].task].floor \in Nat /\ disk \in Nat
      BY <1>2, Typed
    <2> QED BY <1>1, <2>2, <2>3, <2>4, <2>5 DEF Settled
  <1>9. CleanIsDurable'
    <2>1. WriteQueued => \E i \in 1 .. Len(chain) : chain[i].kind = "write"
      BY Typed, EntryFacts DEF WriteQueued
    <2>2. \A i \in 1 .. Len(chain) : chain[i].kind = "write" =>
            i - 1 \in 1 .. n /\ chain'[i - 1].kind = "write"
      BY <1>1, <1>2, HeadStep
    <2>3. WriteQueued => WriteQueued'
      BY <1>2, <2>1, <2>2, EntryFacts DEF WriteQueued
    <2> QED BY <1>1, <2>3 DEF IInv, CleanIsDurable
  <1>10. SavedIsDurable'
    BY <1>1, <1>3, <1>4 DEF IInv, SavedIsDurable
  <1>11. DownIsEmpty' /\ AnchorCovers'
    BY <1>1 DEF IInv, DownIsEmpty, AnchorCovers
  <1> QED BY <1>5, <1>6, <1>7, <1>8, <1>9, <1>10, <1>11 DEF IInv

(* A write serialises what memory holds now, at least what its caller saw. *)
LEMMA BeginWriteStep == IInv /\ BeginWrite => IInv'
  <1> SUFFICES ASSUME IInv, BeginWrite PROVE IInv'
    OBVIOUS
  <1> DEFINE h == Head(chain).task
             n == Len(chain) - 1
  <1>1. /\ chain # <<>> /\ writer = NoTask /\ Head(chain).kind = "write"
        /\ writer' = h /\ payload' = mem /\ dirty' = FALSE /\ chain' = Tail(chain)
        /\ UNCHANGED <<up, mem, anchor, disk, call, now, crashes, decided>>
    BY DEF BeginWrite
  <1>2. /\ n \in Nat /\ h \in Task /\ Len(chain') = n /\ chain' \in Seq(Entry)
        /\ \A i \in 1 .. n : /\ i + 1 \in 1 .. Len(chain) /\ chain'[i] = chain[i + 1]
                             /\ chain'[i].task # h /\ chain'[i].task \in Task
    BY <1>1, HeadStep, EntryFacts
  <1>3. \A u \in Task : call[u].floor <= mem
    BY DEF IInv, Ordered
  <1>4. TypeOK'
    <2>1. \A u : u \in Queued' <=> \E i \in 1 .. n : chain'[i].task = u
      BY <1>2, TaskFacts DEF Queued
    <2>2. \A u \in Task : u \in Queued' \/ u = h <=> u \in Queued
      BY <1>1, <1>2, <2>1, HeadStep
    <2>3. \A u \in Task : call'[u].st = "waiting" <=> writer' = u \/ u \in Queued'
      BY <1>1, <2>2, TaskAssumption DEF IInv, TypeOK
    <2> QED BY <1>1, <1>2, <2>3, Typed DEF TypeOK, Calls
  <1>5. OnePlace'
    BY <1>1, <1>2 DEF IInv, OnePlace
  <1>6. Ordered'
    BY <1>1, <1>2, <1>3, Typed DEF IInv, Ordered
  <1>7. BarriersSettle'
    BY <1>1, <1>2, <1>3, TaskAssumption DEF BarriersSettle, Settled
  <1>8. CleanIsDurable'
    BY <1>1, <1>2, TaskAssumption DEF CleanIsDurable
  <1>9. SavedIsDurable' /\ DownIsEmpty' /\ AnchorCovers'
    BY <1>1 DEF IInv, SavedIsDurable, DownIsEmpty, AnchorCovers
  <1> QED BY <1>4, <1>5, <1>6, <1>7, <1>8, <1>9 DEF IInv

(* The rename installs the payload; its caller's save has succeeded.       *)
LEMMA EndWriteStep == IInv /\ EndWrite => IInv'
  <1> SUFFICES ASSUME IInv, EndWrite PROVE IInv'
    OBVIOUS
  <1>1. /\ writer # NoTask /\ disk' = payload /\ anchor' = now /\ writer' = NoTask
        /\ call' = [call EXCEPT ![writer].st = "ok"]
        /\ UNCHANGED <<up, mem, dirty, chain, payload, now, crashes, decided>>
    BY DEF EndWrite
  <1>2. /\ writer \in Task /\ call' \in Calls
        /\ call'[writer].st = "ok" /\ call'[writer].floor = call[writer].floor
        /\ \A u \in Task : u # writer => call'[u] = call[u]
    BY <1>1, Typed DEF Calls
  <1>3. disk <= payload /\ payload <= mem /\ call[writer].floor <= payload
    BY <1>1 DEF IInv, Ordered
  <1>4. \A i \in 1 .. Len(chain) : chain[i].task # writer /\ chain[i].task \in Task
    BY <1>1, Typed, EntryFacts DEF IInv, OnePlace
  <1>5. TypeOK'
    <2>1. Queued' = Queued /\ writer \notin Queued
      BY <1>1, <1>4, Typed, TaskFacts DEF Queued
    <2>2. \A u \in Task : call'[u].st = "waiting" <=> writer' = u \/ u \in Queued'
      BY <1>1, <1>2, <2>1, TaskAssumption DEF IInv, TypeOK
    <2> QED BY <1>1, <1>2, <2>2, Typed DEF TypeOK, Calls
  <1>6. OnePlace'
    BY <1>1 DEF IInv, OnePlace
  <1>7. Ordered'
    <2>1. \A u \in Task : call'[u].floor = call[u].floor
      BY <1>2
    <2> QED BY <1>1, <1>3, <2>1 DEF IInv, Ordered
  <1>8. BarriersSettle'
    <2> SUFFICES ASSUME NEW i \in 1 .. Len(chain), chain[i].kind = "barrier"
                 PROVE  Settled(i)'
      BY <1>1 DEF BarriersSettle
    <2>1. Settled(i)
      BY DEF IInv, BarriersSettle
    <2>2. call'[chain[i].task] = call[chain[i].task] /\ call[chain[i].task].floor \in Nat
      BY <1>2, <1>4, Typed
    <2>3. chain' = chain /\ dirty' = dirty /\ disk' >= disk /\ disk' = payload
          /\ disk \in Nat /\ disk' \in Nat
      BY <1>1, <1>3, Typed
    <2> QED BY <2>1, <2>2, <2>3 DEF Settled
  <1>9. CleanIsDurable'
    <2>1. up /\ ~dirty => disk = mem \/ payload = mem \/ WriteQueued
      BY Typed DEF IInv, CleanIsDurable
    <2>2. disk' = mem \/ WriteQueued \/ ~(up /\ ~dirty)
      BY <1>1, <1>3, <2>1, Typed
    <2> QED BY <1>1, <2>2, Typed DEF CleanIsDurable, WriteQueued
  <1>10. SavedIsDurable'
    <2>1. \A u \in Task : call[u].st = "ok" => disk >= call[u].floor
      BY DEF IInv, SavedIsDurable
    <2> QED BY <1>1, <1>2, <1>3, <2>1, Typed DEF SavedIsDurable
  <1>11. DownIsEmpty'
    BY <1>1 DEF IInv, DownIsEmpty
  <1>12. AnchorCovers'
    BY <1>1 DEF IInv, AnchorCovers
  <1> QED BY <1>5, <1>6, <1>7, <1>8, <1>9, <1>10, <1>11, <1>12 DEF IInv

(* A failed write raises the flag again; only its caller sees the error.   *)
LEMMA FailWriteStep == IInv /\ FailWrite => IInv'
  <1> SUFFICES ASSUME IInv, FailWrite PROVE IInv'
    OBVIOUS
  <1>1. /\ writer # NoTask /\ dirty' = TRUE /\ writer' = NoTask
        /\ call' = [call EXCEPT ![writer].st = "failed"]
        /\ UNCHANGED <<up, mem, anchor, chain, payload, disk, now, crashes, decided>>
    BY DEF FailWrite
  <1>2. /\ writer \in Task /\ call' \in Calls
        /\ call'[writer].st = "failed" /\ call'[writer].floor = call[writer].floor
        /\ \A u \in Task : u # writer => call'[u] = call[u]
    BY <1>1, Typed DEF Calls
  <1>3. TypeOK'
    <2>1. Queued' = Queued /\ writer \notin Queued
      <3>1. \A i \in 1 .. Len(chain) : chain[i].task # writer
        BY <1>1 DEF IInv, OnePlace
      <3> QED BY <1>1, <3>1, Typed, TaskFacts DEF Queued
    <2>2. \A u \in Task : call'[u].st = "waiting" <=> writer' = u \/ u \in Queued'
      BY <1>1, <1>2, <2>1, TaskAssumption DEF IInv, TypeOK
    <2> QED BY <1>1, <1>2, <2>2, Typed DEF TypeOK, Calls
  <1>4. OnePlace' /\ BarriersSettle'
    BY <1>1 DEF IInv, OnePlace, BarriersSettle, Settled
  <1>5. Ordered'
    <2>1. \A u \in Task : call'[u].floor = call[u].floor
      BY <1>2
    <2> QED BY <1>1, <2>1 DEF IInv, Ordered
  <1>6. CleanIsDurable' /\ AnchorCovers' /\ DownIsEmpty'
    BY <1>1 DEF IInv, CleanIsDurable, AnchorCovers, DownIsEmpty
  <1>7. SavedIsDurable'
    BY <1>1, <1>2 DEF IInv, SavedIsDurable
  <1> QED BY <1>3, <1>4, <1>5, <1>6, <1>7 DEF IInv

(* A change of the state, in a living process, raises the flag.            *)
LEMMA UpdateProgressStep ==
  ASSUME IInv, NEW t \in Task, UpdateProgress(t)
  PROVE  IInv'
  <1>1. /\ up /\ mem' = mem + 1 /\ dirty' = TRUE
        /\ UNCHANGED <<up, anchor, chain, writer, payload, disk, call, now, crashes,
                       decided>>
    BY DEF UpdateProgress, Idle
  <1>2. TypeOK'
    BY <1>1, Typed DEF IInv, TypeOK, Queued
  <1>3. OnePlace' /\ BarriersSettle'
    BY <1>1 DEF IInv, OnePlace, BarriersSettle, Settled
  <1>4. Ordered'
    BY <1>1, Typed DEF IInv, Ordered
  <1>5. CleanIsDurable' /\ SavedIsDurable' /\ DownIsEmpty' /\ AnchorCovers'
    BY <1>1 DEF IInv, CleanIsDurable, SavedIsDurable, DownIsEmpty, AnchorCovers
  <1> QED BY <1>2, <1>3, <1>4, <1>5 DEF IInv

(* The clock moves away from the anchor.                                   *)
LEMMA TickStep == IInv /\ Tick => IInv'
  <1> SUFFICES ASSUME IInv, Tick PROVE IInv'
    OBVIOUS
  <1>1. /\ now' = now + 1
        /\ UNCHANGED <<up, mem, dirty, anchor, chain, writer, payload, disk, call,
                       crashes, decided>>
    BY DEF Tick
  <1>2. TypeOK'
    BY <1>1, Typed DEF IInv, TypeOK, Queued
  <1>3. OnePlace' /\ BarriersSettle' /\ Ordered'
    BY <1>1 DEF IInv, OnePlace, BarriersSettle, Settled, Ordered
  <1>4. CleanIsDurable' /\ SavedIsDurable' /\ DownIsEmpty'
    BY <1>1 DEF IInv, CleanIsDurable, SavedIsDurable, DownIsEmpty, WriteQueued
  <1>5. AnchorCovers'
    BY <1>1, Typed DEF IInv, AnchorCovers
  <1> QED BY <1>2, <1>3, <1>4, <1>5 DEF IInv

(* Death empties everything but the file, and a start reads it back.       *)
LEMMA CrashStep == IInv /\ Crash => IInv'
  <1> SUFFICES ASSUME IInv, Crash PROVE IInv'
    OBVIOUS
  <1>1. /\ up' = FALSE /\ mem' = disk /\ dirty' = FALSE /\ chain' = <<>>
        /\ writer' = NoTask /\ payload' = 0 /\ call' = NoCalls /\ crashes' = crashes + 1
        /\ UNCHANGED <<anchor, disk, now, decided>>
    BY DEF Crash
  <1>2. \A t \in Task : call'[t] = [st |-> "idle", floor |-> 0]
    BY <1>1 DEF NoCalls
  <1>3. TypeOK'
    <2>1. NoCalls \in Calls
      BY DEF NoCalls, Calls
    <2>2. Queued' = {} /\ chain' \in Seq(Entry)
      BY <1>1 DEF Queued
    <2>3. \A t \in Task : call'[t].st = "waiting" <=> writer' = t \/ t \in Queued'
      <3>1. \A t \in Task : call'[t].st = "idle" /\ writer' # t /\ t \notin Queued'
        BY <1>1, <1>2, <2>2, TaskAssumption
      <3> QED BY <3>1
    <2>4. crashes' \in Nat /\ writer' \in Task \cup {NoTask}
      BY <1>1, Typed
    <2> QED BY <1>1, <2>1, <2>2, <2>3, <2>4, Typed DEF TypeOK, Calls
  <1>4. OnePlace' /\ BarriersSettle'
    BY <1>1 DEF OnePlace, BarriersSettle
  <1>5. Ordered'
    BY <1>1, <1>2, Typed DEF Ordered
  <1>6. CleanIsDurable' /\ SavedIsDurable' /\ DownIsEmpty' /\ AnchorCovers'
    BY <1>1, <1>2 DEF IInv, CleanIsDurable, SavedIsDurable, DownIsEmpty, AnchorCovers
  <1> QED BY <1>3, <1>4, <1>5, <1>6 DEF IInv

(* A process that starts holds what the file holds, or an unsaved state.   *)
LEMMA StartStep == IInv /\ Start => IInv'
  <1> SUFFICES ASSUME IInv, Start PROVE IInv'
    OBVIOUS
  <1>1. /\ ~up /\ up' = TRUE /\ mem' = (IF disk = 0 THEN 1 ELSE disk)
        /\ dirty' = (disk = 0) /\ anchor' = Never /\ decided' = Never
        /\ UNCHANGED <<chain, writer, payload, disk, call, now, crashes>>
    BY DEF Start
  <1>2. chain = <<>> /\ writer = NoTask /\ mem = disk /\ call = NoCalls
    BY <1>1 DEF IInv, DownIsEmpty
  <1>3. \A t \in Task : call'[t] = [st |-> "idle", floor |-> 0]
    BY <1>1, <1>2 DEF NoCalls
  <1>4. Never \in Int /\ Never <= now
    BY IntervalAssumption, Typed DEF Never
  <1>5. TypeOK'
    BY <1>1, <1>4, Typed DEF IInv, TypeOK, Queued
  <1>6. OnePlace' /\ BarriersSettle'
    BY <1>1, <1>2 DEF OnePlace, BarriersSettle
  <1>7. Ordered'
    BY <1>1, <1>2, <1>3, Typed DEF Ordered
  <1>8. CleanIsDurable'
    BY <1>1 DEF CleanIsDurable
  <1>9. SavedIsDurable' /\ DownIsEmpty' /\ AnchorCovers'
    BY <1>1, <1>3, <1>4 DEF SavedIsDurable, DownIsEmpty, AnchorCovers
  <1> QED BY <1>5, <1>6, <1>7, <1>8, <1>9 DEF IInv

(* The four operations that push, and the throttle's own two variables.    *)
LEMMA PushingStep ==
  ASSUME IInv, NEW t \in Task,
         RecordAndSave(t) \/ SaveNow(t) \/ SaveThrottled(t) \/ Close(t)
  PROVE  IInv'
  <1>1. CASE RecordAndSave(t)
    <2>1. /\ Idle(t) /\ Push(t, "write", mem') /\ mem' = mem + 1
          /\ UNCHANGED <<up, dirty, anchor, writer, payload, disk, now, crashes, decided>>
      BY <1>1 DEF RecordAndSave, Push
    <2>2. AnchorCovers'
      BY <2>1 DEF IInv, AnchorCovers
    <2> QED BY <2>1, <2>2, PushStep, Typed DEF IInv
  <1>2. CASE SaveNow(t)
    <2>1. /\ Idle(t) /\ Push(t, "write", mem') /\ mem' = mem
          /\ UNCHANGED <<up, dirty, anchor, writer, payload, disk, now, crashes, decided>>
      BY <1>2 DEF SaveNow, Push
    <2>2. AnchorCovers'
      BY <2>1 DEF IInv, AnchorCovers
    <2> QED BY <2>1, <2>2, PushStep, Typed DEF IInv
  <1>3. CASE SaveThrottled(t)
    <2>1. /\ Idle(t) /\ Push(t, "write", mem') /\ mem' = mem
          /\ anchor' = now /\ decided' = now
          /\ UNCHANGED <<up, dirty, writer, payload, disk, now, crashes>>
      BY <1>3 DEF SaveThrottled, Push
    <2>2. AnchorCovers' /\ now \in Int
      BY <2>1, Typed DEF AnchorCovers
    <2> QED BY <2>1, <2>2, PushStep, Typed DEF IInv
  <1>4. CASE Close(t)
    <2>1. /\ Idle(t) /\ Push(t, "barrier", mem') /\ mem' = mem
          /\ UNCHANGED <<up, dirty, anchor, writer, payload, disk, now, crashes, decided>>
      BY <1>4 DEF Close, Push
    <2>2. AnchorCovers'
      BY <2>1 DEF IInv, AnchorCovers
    <2> QED BY <2>1, <2>2, PushStep, Typed DEF IInv
  <1> QED BY <1>1, <1>2, <1>3, <1>4

(* Every step of the store, one by one, keeps the invariant.               *)
LEMMA NextIInv == IInv /\ [Next]_vars => IInv'
  <1> SUFFICES ASSUME IInv, [Next]_vars PROVE IInv'
    OBVIOUS
  <1>1. ASSUME NEW t \in Task, UpdateProgress(t) PROVE IInv'
    BY <1>1, UpdateProgressStep
  <1>2. ASSUME NEW t \in Task,
               RecordAndSave(t) \/ SaveNow(t) \/ SaveThrottled(t) \/ Close(t)
        PROVE  IInv'
    BY <1>2, PushingStep
  <1>3. CASE CloseWrites \/ CloseReturns
    BY <1>3, CloseWritesStep, CloseReturnsStep
  <1>4. CASE BeginWrite \/ EndWrite \/ FailWrite
    BY <1>4, BeginWriteStep, EndWriteStep, FailWriteStep
  <1>5. CASE Tick \/ Crash \/ Start
    BY <1>5, TickStep, CrashStep, StartStep
  <1>6. CASE UNCHANGED vars
    BY <1>6 DEF vars, IInv, TypeOK, Queued, OnePlace, Ordered, BarriersSettle, Settled,
                CleanIsDurable, WriteQueued, SavedIsDurable, DownIsEmpty, AnchorCovers
  <1> QED BY <1>1, <1>2, <1>3, <1>4, <1>5, <1>6 DEF Next

-----------------------------------------------------------------------------
(* Theorems                                                                *)

(* So the invariant always holds.                                          *)
LEMMA Inductive == Spec => []IInv
  BY InitIInv, NextIInv, PTL DEF Spec

(* Types, and: a caller of the store waits exactly as long as it has a     *)
(* place in the chain or a write in flight.                                *)
THEOREM TypeCorrect == Spec => []TypeOK
  <1>1. IInv => TypeOK
    BY DEF IInv
  <1> QED BY Inductive, <1>1, PTL

(* StateStore.dirty, lowered, never hides a change that no write will      *)
(* carry, whatever fails or overtakes.                                     *)
THEOREM CleanMeansDurable == Spec => []CleanIsDurable
  <1>1. IInv => CleanIsDurable
    BY DEF IInv
  <1> QED BY Inductive, <1>1, PTL

(* saveNow, saveThrottled and close() return without an error only when    *)
(* the file covers what memory held at the call.                           *)
THEOREM SavedMeansDurable == Spec => []SavedIsDurable
  <1>1. IInv => SavedIsDurable
    BY DEF IInv
  <1> QED BY Inductive, <1>1, PTL

(* Two writes decided by saveThrottled in one process are at least         *)
(* intervalMs apart, because the anchor never falls behind the decision.   *)
THEOREM ThrottledWritesAreSpaced == Spec => ThrottleSpacing
  <1>1. ASSUME IInv, Next
        PROVE  decided # Never /\ decided' # decided /\ up => decided' - decided >= Interval
    <2> SUFFICES ASSUME decided # Never, decided' # decided, up
                 PROVE  decided' - decided >= Interval
      OBVIOUS
    <2>1. (\E t \in Task : SaveThrottled(t)) \/ Start
      BY <1>1 DEF Next, UpdateProgress, RecordAndSave, SaveNow, Close, CloseWrites,
                  CloseReturns, BeginWrite, EndWrite, FailWrite, Tick, Crash
    <2>2. decided' = now /\ now - anchor >= Interval
      BY <2>1 DEF SaveThrottled, Start
    <2> QED BY <1>1, <2>2, Typed, IntervalAssumption DEF IInv, AnchorCovers
  <1>2. IInv /\ [Next]_vars =>
          [decided # Never /\ decided' # decided /\ up
             => decided' - decided >= Interval]_vars
    BY <1>1
  <1> QED BY Inductive, <1>2, PTL DEF Spec, ThrottleSpacing

-----------------------------------------------------------------------------
(* StateStore implements DurableRegister                                   *)

(* The store starts as the register does.                                  *)
LEMMA InitImplements == Init => Register!Init
  BY DEF Init, Register!Init, NoCalls, Register!NoCalls

(* Queueing a caller is the register's request.                            *)
LEMMA PushAsks ==
  ASSUME NEW t \in Task, Idle(t), NEW kind, Push(t, kind, mem'),
         mem' \in {mem, mem + 1}, UNCHANGED disk
  PROVE  Register!Ask(t)
  BY DEF Idle, Push, Register!Ask

(* Every step of the store is one of the register's, or leaves it alone.   *)
LEMMA NextImplements == IInv /\ [Next]_vars => [Register!Next]_Register!vars
  <1> SUFFICES ASSUME IInv, [Next]_vars
               PROVE  Register!Next \/ UNCHANGED Register!vars
    OBVIOUS
  <1> USE DEF Register!vars
  <1>1. ASSUME NEW t \in Task, UpdateProgress(t) PROVE Register!Next
    BY <1>1 DEF UpdateProgress, Register!Next, Register!Update
  <1>2. ASSUME NEW t \in Task,
               RecordAndSave(t) \/ SaveNow(t) \/ SaveThrottled(t) \/ Close(t)
        PROVE  Register!Next
    <2>1. CASE RecordAndSave(t)
      <3>1. Idle(t) /\ Push(t, "write", mem') /\ mem' = mem + 1 /\ UNCHANGED disk
        BY <2>1 DEF RecordAndSave, Push
      <3> QED BY <3>1, PushAsks DEF Register!Next
    <2>2. CASE SaveNow(t) \/ SaveThrottled(t)
      <3>1. Idle(t) /\ Push(t, "write", mem') /\ mem' = mem /\ UNCHANGED disk
        BY <2>2 DEF SaveNow, SaveThrottled, Push
      <3> QED BY <3>1, PushAsks DEF Register!Next
    <2>3. CASE Close(t)
      <3>1. Idle(t) /\ Push(t, "barrier", mem') /\ mem' = mem /\ UNCHANGED disk
        BY <2>3 DEF Close, Push
      <3> QED BY <3>1, PushAsks DEF Register!Next
    <2> QED BY <1>2, <2>1, <2>2, <2>3
  <1>3. CASE CloseWrites \/ BeginWrite \/ Tick
    BY <1>3 DEF CloseWrites, BeginWrite, Tick
  <1>4. CASE CloseReturns
    <2> DEFINE h == Head(chain).task
    <2>1. /\ chain # <<>> /\ writer = NoTask /\ ~dirty /\ Head(chain).kind = "barrier"
          /\ call' = [call EXCEPT ![h].st = "ok"] /\ UNCHANGED <<mem, disk>>
      BY <1>4 DEF CloseReturns
    <2>2. h \in Task /\ call[h].st = "waiting" /\ disk >= call[h].floor
      BY <2>1, HeadStep DEF IInv, BarriersSettle, Settled
    <2>3. disk' >= disk /\ disk' <= mem
      BY <2>1, Typed DEF IInv, Ordered
    <2> QED BY <2>1, <2>2, <2>3 DEF Register!Next, Register!Succeed
  <1>5. CASE EndWrite
    <2>1. /\ writer # NoTask /\ disk' = payload
          /\ call' = [call EXCEPT ![writer].st = "ok"] /\ UNCHANGED mem
      BY <1>5 DEF EndWrite
    <2>2. writer \in Task /\ call[writer].st = "waiting"
      BY <2>1, Typed DEF IInv, TypeOK
    <2>3. disk' >= disk /\ disk' <= mem /\ disk' >= call[writer].floor
      BY <2>1, <2>2, Typed DEF IInv, Ordered
    <2> QED BY <2>1, <2>2, <2>3 DEF Register!Next, Register!Succeed
  <1>6. CASE FailWrite
    <2>1. writer \in Task /\ call[writer].st = "waiting"
      BY <1>6, Typed DEF IInv, TypeOK, FailWrite
    <2> QED BY <1>6, <2>1 DEF FailWrite, Register!Next, Register!Fail
  <1>7. CASE Crash
    BY <1>7 DEF Crash, NoCalls, Register!NoCalls, Register!Next, Register!Crash
  <1>8. CASE Start
    <2>1. mem = disk /\ call = NoCalls
      BY <1>8 DEF Start, IInv, DownIsEmpty
    <2> QED BY <1>8, <2>1 DEF Start, NoCalls, Register!NoCalls, Register!Next, Register!Start
  <1>9. CASE UNCHANGED vars
    BY <1>9 DEF vars
  <1> QED BY <1>1, <1>2, <1>3, <1>4, <1>5, <1>6, <1>7, <1>8, <1>9 DEF Next

(* The file never goes back to an older state and never holds a state that *)
(* memory never held: each step of the store is a step of the register or  *)
(* leaves it alone.                                                        *)
THEOREM StoreImplementsRegister == Spec => ImplementsRegister
  BY Inductive, InitImplements, NextImplements, PTL
     DEF Spec, ImplementsRegister, Register!Spec
=============================================================================
