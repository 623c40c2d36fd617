------------------------- MODULE HttpClient_proofs --------------------------
(***************************************************************************)
(* The client only drives its limiter, so that the rate is respected; and  *)
(* what a call puts on the wire is bounded, for any number of callers.     *)
(*                                                                         *)
(* EmissionsBounded is not inductive: a request is counted when its token  *)
(* is granted, by #drain for those who wait, and the count has to agree    *)
(* with the attempt, which moves elsewhere (Counted).  That #drain serves  *)
(* nobody twice needs the queue to hold each caller once, and only callers *)
(* whose acquire() is pending (Queueing).                                  *)
(***************************************************************************)
EXTENDS HttpClient, SequenceTheorems, TLAPS

(*------------------------------ the limiter ------------------------------*)
(***************************************************************************)
(* The limiter is never ahead of a bucket that recharges on the time that  *)
(* really passes, for every rate, burst, pause and clock set back.         *)
(*                                                                         *)
(* NeverOverRate is not inductive: #tokens alone says nothing of exact,    *)
(* since a part of the recharge is still in elapsed.  IInv relates the     *)
(* bucket as #refill would leave it now to the exact one.                  *)
(***************************************************************************)

Bucket ==
  /\ tokens \in 0 .. Full
  /\ elapsed \in Int /\ pause \in Int /\ exact \in Int
  /\ skew \in 0 .. MaxBack

Behind == Refilled <= exact /\ exact <= Full

ElapsedRange == 0 - skew <= elapsed /\ elapsed <= Full + MaxBack

IInv == Bucket /\ Behind /\ ElapsedRange

USE CostAssumption, BurstAssumption, TimerAssumption, BackAssumption, DelayAssumption

(* A full bucket is a natural number of recharge units.                    *)
LEMMA FullIsNat == Full \in Nat /\ Full > 0
  BY DEF Full

(* Where a refill leaves the bucket.                                       *)
LEMMA RefilledRange ==
  ASSUME Bucket
  PROVE Refilled \in 0 .. Full /\ tokens <= Refilled
  BY FullIsNat DEF Bucket, Refilled, Smaller

(* Taking k units after a refill, where the exact bucket gives them too.   *)
LEMMA Taking ==
  ASSUME IInv, NEW k \in Nat, k <= Refilled,
         tokens' = Refilled - k, elapsed' = 0, exact' = exact - k,
         UNCHANGED <<pause, skew>>
  PROVE IInv'
<1>1. Refilled \in 0 .. Full
  BY RefilledRange DEF IInv
<1>2. Bucket' /\ ElapsedRange'
  BY <1>1, FullIsNat DEF IInv, Bucket, ElapsedRange, Full
<1>3. Refilled' = Refilled - k
  BY <1>1 DEF Refilled
<1>4. Behind'
  BY <1>1, <1>3, FullIsNat DEF IInv, Bucket, Behind, Full
<1>5. QED
  BY <1>2, <1>4 DEF IInv

(* Every step of the limiter keeps the bucket behind the exact one.        *)
LEMMA LimiterStep ==
  ASSUME IInv, [LimiterNext]_limiter
  PROVE IInv'
<1> USE FullIsNat
<1>0. Refilled \in 0 .. Full
  BY RefilledRange DEF IInv
<1>1. ASSUME NEW c \in Caller, AcquireNow(c) PROVE IInv'
  <2>1. Cost <= Refilled
    BY <1>1, <1>0 DEF AcquireNow, Wait, UntilAvailable, IInv, Bucket
  <2>2. QED
    BY <2>1, <1>1, Taking DEF AcquireNow
<1>2. ASSUME NEW c \in Caller, AcquireLater(c) PROVE IInv'
  <2>1. CASE UNCHANGED <<tokens, elapsed>>
    BY <2>1, <1>2 DEF AcquireLater, IInv, Bucket, Behind, ElapsedRange, Refilled, Full
  <2>2. CASE tokens' = Refilled /\ elapsed' = 0
    <3>1. tokens' = Refilled - 0 /\ exact' = exact - 0 /\ UNCHANGED <<pause, skew>>
      BY <2>2, <1>2, <1>0 DEF AcquireLater, IInv, Bucket
    <3>2. 0 \in Nat /\ 0 <= Refilled
      BY <1>0
    <3>3. QED
      BY <3>1, <3>2, <2>2, Taking
  <2>3. QED
    BY <2>1, <2>2, <1>2 DEF AcquireLater, Reevaluate
<1>3. ASSUME NEW n \in 0 .. Len(waiting), Drain(n) PROVE IInv'
  <2>1. n * Cost \in Nat
    OBVIOUS
  <2>2. QED
    BY <2>1, <1>3, Taking DEF Drain
<1>4. CASE SleepAgain
  BY <1>4 DEF SleepAgain, IInv, Bucket, Behind, ElapsedRange, Refilled, Full
<1>5. CASE SleepFails
  BY <1>5 DEF SleepFails, IInv, Bucket, Behind, ElapsedRange, Refilled, Full
<1>6. ASSUME NEW d \in Delays, PauseFor(d) PROVE IInv'
  BY <1>6 DEF PauseFor, IInv, Bucket, Behind, ElapsedRange, Refilled, Full, Greater
<1>7. CASE Tick
  BY <1>7 DEF Tick, IInv, Bucket, Behind, ElapsedRange, Refilled, Full, Smaller, Greater
<1>8. ASSUME NEW d \in 1 .. MaxBack, ClockSetBack(d) PROVE IInv'
  BY <1>8 DEF ClockSetBack, IInv, Bucket, Behind, ElapsedRange, Refilled, Full, Smaller
<1>9. CASE UNCHANGED limiter
  BY <1>9 DEF limiter, IInv, Bucket, Behind, ElapsedRange, Refilled, Full
<1>10. QED
  BY <1>1, <1>2, <1>3, <1>4, <1>5, <1>6, <1>7, <1>8, <1>9 DEF LimiterNext

(* The bucket starts full, and so does the exact one.                      *)
LEMMA LimiterStart == ASSUME LimiterInit PROVE IInv
  BY FullIsNat DEF LimiterInit, IInv, Bucket, Behind, ElapsedRange, Refilled, Smaller

(* IInv is an invariant of the limiter, whoever drives it.                 *)
LEMMA LimiterInvariant == LimiterSpec => []IInv
  BY LimiterStart, LimiterStep, PTL DEF LimiterSpec

(* The rate is respected over any window of time: no sequence of calls,    *)
(* sleeps, pauses and clock set backs overdraws the exact bucket.          *)
THEOREM RateIsRespected == LimiterSpec => []NeverOverRate
<1>1. IInv => NeverOverRate
  BY RefilledRange, FullIsNat DEF IInv, Bucket, Behind, NeverOverRate
<1>2. QED
  BY <1>1, LimiterInvariant, PTL

-----------------------------------------------------------------------------
(* The queue and the sleep of #drain.                                      *)
Draining ==
  /\ waiting \in Seq(Caller)
  /\ timer \in {NoTimer} \cup 0 .. MaxTimer
  /\ timer = NoTimer <=> waiting = <<>>
  /\ \A i, j \in DOMAIN waiting : waiting[i] = waiting[j] => i = j

(* A sleep that is asked for is a sleep a timer can take.                  *)
LEMMA SleepRange ==
  ASSUME NEW wait \in Int, wait > 0
  PROVE Sleep(wait) \in 0 .. MaxTimer /\ Sleep(wait) # NoTimer
BY DEF Sleep, Smaller, NoTimer

(* A caller that queues is a new one, at the end.                          *)
LEMMA QueueGrows ==
  ASSUME Draining, NEW c \in Caller, c \notin Queued
  PROVE /\ Append(waiting, c) \in Seq(Caller) /\ Append(waiting, c) # <<>>
        /\ \A i, j \in DOMAIN Append(waiting, c) :
             Append(waiting, c)[i] = Append(waiting, c)[j] => i = j
<1> DEFINE W == Append(waiting, c)
<1>1. W \in Seq(Caller) /\ Len(W) = Len(waiting) + 1 /\ Len(waiting) \in Nat
  BY DEF Draining
<1>2. /\ \A i \in DOMAIN waiting : W[i] = waiting[i] /\ waiting[i] # c
      /\ W[Len(W)] = c
      /\ \A i \in DOMAIN W : i \in DOMAIN waiting \/ i = Len(W)
  BY <1>1 DEF Draining, Queued
<1>3. \A i, j \in DOMAIN W : W[i] = W[j] => i = j
  BY <1>2 DEF Draining
<1>4. QED
  BY <1>1, <1>3

(* What is left of a queue when its oldest waiters are served.             *)
LEMMA QueueShrinks ==
  ASSUME Draining, NEW n \in 0 .. Len(waiting),
         waiting' = SubSeq(waiting, n + 1, Len(waiting))
  PROVE /\ waiting' \in Seq(Caller) /\ (waiting' = <<>> <=> n = Len(waiting))
        /\ \A i, j \in DOMAIN waiting' : waiting'[i] = waiting'[j] => i = j
<1>1. waiting \in Seq(Caller) /\ Len(waiting) \in Nat
  BY DEF Draining
<1>2. /\ waiting' \in Seq(Caller) /\ Len(waiting') = Len(waiting) - n
      /\ \A i \in 1 .. (Len(waiting) - n) : waiting'[i] = waiting[n + i]
  BY <1>1
<1>3. DOMAIN waiting' = 1 .. (Len(waiting) - n) /\ DOMAIN waiting = 1 .. Len(waiting)
  BY <1>1, <1>2, LenProperties
<1>4. ASSUME NEW i \in DOMAIN waiting', NEW j \in DOMAIN waiting', waiting'[i] = waiting'[j]
      PROVE i = j
  <2>1. i \in Int /\ j \in Int /\ n + i \in DOMAIN waiting /\ n + j \in DOMAIN waiting
    BY <1>1, <1>3
  <2>2. waiting[n + i] = waiting[n + j]
    BY <1>2, <1>3, <1>4
  <2>3. n + i = n + j
    BY <2>1, <2>2 DEF Draining
  <2>4. QED
    BY <2>1, <2>3
<1>5. waiting' = <<>> <=> n = Len(waiting)
  <2>1. waiting' = <<>> <=> Len(waiting') = 0
    BY <1>2, EmptySeq
  <2>2. QED
    BY <2>1, <1>1, <1>2
<1>6. QED
  BY <1>2, <1>4, <1>5

(* #drain runs exactly while somebody waits, and nobody waits twice.       *)
LEMMA DrainingStep ==
  ASSUME IInv, Draining, [LimiterNext]_limiter
  PROVE Draining'
<1> USE FullIsNat
<1>0. Refilled \in 0 .. Full /\ NoTimer = -1
  BY RefilledRange DEF IInv, NoTimer
<1>1. ASSUME NEW c \in Caller, AcquireNow(c) PROVE Draining'
  BY <1>1 DEF AcquireNow, Draining
<1>2. ASSUME NEW c \in Caller, AcquireLater(c) PROVE Draining'
  <2>1. /\ waiting' \in Seq(Caller) /\ waiting' # <<>>
        /\ \A i, j \in DOMAIN waiting' : waiting'[i] = waiting'[j] => i = j
    BY <1>2, QueueGrows DEF AcquireLater
  <2>2. CASE timer = NoTimer
    <3>1. Wait > 0 /\ timer' = Sleep(Wait)
      BY <1>2, <2>2 DEF AcquireLater, Draining
    <3>2. Wait \in Int
      BY <1>0 DEF Wait, UntilAvailable, IInv, Bucket, Full
    <3>3. QED
      BY <2>1, <3>1, <3>2, SleepRange DEF Draining
  <2>3. CASE timer # NoTimer
    BY <1>2, <2>1, <2>3 DEF AcquireLater, Draining
  <2>4. QED
    BY <2>2, <2>3
<1>3. ASSUME NEW n \in 0 .. Len(waiting), Drain(n) PROVE Draining'
  <2>1. /\ waiting' \in Seq(Caller) /\ (waiting' = <<>> <=> n = Len(waiting))
        /\ \A i, j \in DOMAIN waiting' : waiting'[i] = waiting'[j] => i = j
    BY <1>3, QueueShrinks DEF Drain
  <2>2. CASE n = Len(waiting)
    BY <1>3, <2>1, <2>2 DEF Drain, Draining
  <2>3. CASE n # Len(waiting)
    <3> DEFINE held == Refilled - n * Cost
    <3>1. n \in Int /\ n * Cost \in Int /\ (n + 1) * Cost = n * Cost + Cost
      BY DEF Draining
    <3>2. held \in Int /\ held < Cost
      BY <3>1, <1>0, <1>3, <2>3 DEF Drain
    <3>3. timer' = Sleep(UntilAvailable(held))
      BY <1>3, <2>3 DEF Drain
    <3> HIDE DEF held
    <3>4. UntilAvailable(held) \in Int /\ UntilAvailable(held) > 0
      BY <3>2 DEF UntilAvailable
    <3>5. QED
      BY <2>1, <2>3, <3>3, <3>4, SleepRange DEF Draining
  <2>4. QED
    BY <2>2, <2>3
<1>4. CASE SleepAgain
  <2>1. timer' = Sleep(pause) /\ pause > 0 /\ pause \in Int /\ timer # NoTimer
        /\ waiting' = waiting
    BY <1>0, <1>4 DEF SleepAgain, IInv, Bucket
  <2>2. QED
    BY <2>1, SleepRange DEF Draining
<1>5. CASE SleepFails
  BY <1>5, EmptySeq DEF SleepFails, Draining
<1>6. CASE Tick
  BY <1>0, <1>6 DEF Tick, Draining
<1>7. CASE \/ UNCHANGED limiter \/ (\E d \in Delays : PauseFor(d))
           \/ (\E d \in 1 .. MaxBack : ClockSetBack(d))
  BY <1>7 DEF limiter, PauseFor, ClockSetBack, Draining
<1>8. QED
  BY <1>1, <1>2, <1>3, <1>4, <1>5, <1>6, <1>7 DEF LimiterNext

(* The limiter's state is typed, #drain runs exactly while somebody waits, *)
(* and nobody is in the queue twice.                                       *)
THEOREM LimiterTypes == LimiterSpec => []LimiterTypeOK
<1>1. LimiterInit => Draining
  BY EmptySeq DEF LimiterInit, Draining
<1>2. IInv /\ Draining => LimiterTypeOK
  BY FullIsNat DEF IInv, Bucket, ElapsedRange, Draining, LimiterTypeOK
<1>3. QED
  BY <1>1, <1>2, LimiterInvariant, DrainingStep, PTL DEF LimiterSpec

(*------------------------------ the client -------------------------------*)

Underway == {"inflight", "refused", "reading"}

Shapes ==
  /\ pc \in [Caller -> Settled \cup Underway \cup {"waiting", "backoff"}]
  /\ attempt \in [Caller -> Nat] /\ sent \in [Caller -> Nat]

Queueing ==
  /\ waiting \in Seq(Caller)
  /\ \A i \in DOMAIN waiting : pc[waiting[i]] = "waiting"
  /\ \A i, j \in DOMAIN waiting : waiting[i] = waiting[j] => i = j

Retries(c) == attempt[c] <= IF c \in Mutating THEN 0 ELSE MaxRetries

CountedFor(c) ==
  /\ pc[c] \in Underway => sent[c] = attempt[c] + 1
  /\ pc[c] \in {"waiting", "backoff"} => sent[c] = attempt[c]
  /\ sent[c] <= attempt[c] + 1

Counted == \A c \in Caller : Retries(c) /\ CountedFor(c)

CInv == Shapes /\ Queueing /\ Counted

USE ClientAssumption

(* Every step of the client is a step of the limiter, or leaves it alone.  *)
LEMMA ClientStep == ASSUME [Next]_vars PROVE [LimiterNext]_limiter
<1>1. ASSUME NEW c \in Caller, Call(c) PROVE LimiterNext
  BY <1>1 DEF Call, Acquires, LimiterNext
<1>2. ASSUME NEW c \in Caller, Retry(c) PROVE LimiterNext
  BY <1>2 DEF Retry, Acquires, LimiterNext
<1>3. ASSUME NEW c \in Caller, Ends(c) PROVE [LimiterNext]_limiter
  <2>1. CASE TooManyRequests(c)
    BY <2>1 DEF TooManyRequests, LimiterNext
  <2>2. QED
    BY <2>1, <1>3 DEF Ends, Refused, FailsForNow, FailsForGood, Answered, ReadsBody
<1>4. CASE Serve
  BY <1>4 DEF Serve, LimiterNext
<1>5. CASE StaysAsleep
  BY <1>5 DEF StaysAsleep, LimiterNext
<1>6. CASE TimePasses
  BY <1>6 DEF TimePasses, LimiterNext
<1>7. CASE ClockGoesBack
  BY <1>7 DEF ClockGoesBack, LimiterNext
<1>8. CASE UNCHANGED vars
  BY <1>8 DEF vars
<1>9. QED
  BY <1>1, <1>2, <1>3, <1>4, <1>5, <1>6, <1>7, <1>8 DEF Next

(* Whatever MattermostClient does, the rate is respected: no window of     *)
(* time sees more requests than a burst and what the rate allows.          *)
THEOREM ClientRespectsRate == Spec => []NeverOverRate
<1>1. Init => LimiterInit
  BY DEF Init
<1>2. Spec => LimiterSpec
  BY <1>1, ClientStep, PTL DEF Spec, LimiterSpec
<1>3. QED
  BY <1>2, RateIsRespected, PTL

-----------------------------------------------------------------------------
(* Queueing a caller, or granting its token at once, keeps the queue and   *)
(* the counts, provided the caller was not waiting and its count agrees.   *)
LEMMA AcquiresStep ==
  ASSUME CInv, NEW c \in Caller, NEW already \in Nat,
         pc[c] # "waiting", Acquires(c, already),
         attempt' \in [Caller -> Nat],
         \A o \in Caller \ {c} : attempt'[o] = attempt[o],
         attempt'[c] = already, Retries(c)'
  PROVE CInv'
<1>1. c \notin Queued
  BY DEF CInv, Queueing, Queued
<1>2. CASE AcquireNow(c) /\ pc' = [pc EXCEPT ![c] = "inflight"]
           /\ sent' = [sent EXCEPT ![c] = already + 1]
  <2>1. Shapes'
    BY <1>2 DEF CInv, Shapes, Underway
  <2>2. Queueing'
    BY <1>2, <1>1 DEF CInv, Shapes, Queueing, Queued, AcquireNow
  <2>3. Counted'
    BY <1>2 DEF CInv, Shapes, Counted, CountedFor, Retries, Underway
  <2>4. QED
    BY <2>1, <2>2, <2>3 DEF CInv
<1>3. CASE AcquireLater(c) /\ pc' = [pc EXCEPT ![c] = "waiting"]
           /\ sent' = [sent EXCEPT ![c] = already]
  <2>1. Shapes'
    BY <1>3 DEF CInv, Shapes, Underway
  <2>2. Queueing'
    <3>1. /\ waiting \in Seq(Caller) /\ waiting' = Append(waiting, c)
          /\ waiting' \in Seq(Caller) /\ Len(waiting') = Len(waiting) + 1
      BY <1>3 DEF CInv, Queueing, AcquireLater
    <3>2. /\ \A i \in DOMAIN waiting : waiting'[i] = waiting[i] /\ waiting[i] # c
          /\ waiting'[Len(waiting')] = c
          /\ \A i \in DOMAIN waiting' : i \in DOMAIN waiting \/ i = Len(waiting')
      BY <3>1, <1>1 DEF Queued
    <3>3. \A i \in DOMAIN waiting' : pc'[waiting'[i]] = "waiting"
      BY <3>1, <3>2, <1>3 DEF CInv, Shapes, Queueing
    <3>4. \A i, j \in DOMAIN waiting' : waiting'[i] = waiting'[j] => i = j
      BY <3>2 DEF CInv, Queueing
    <3>5. QED
      BY <3>1, <3>3, <3>4 DEF Queueing
  <2>3. Counted'
    BY <1>3 DEF CInv, Shapes, Counted, CountedFor, Retries, Underway
  <2>4. QED
    BY <2>1, <2>2, <2>3 DEF CInv
<1>4. QED
  BY <1>2, <1>3 DEF Acquires

(* The n callers #drain serves were waiting, and those left still are.     *)
LEMMA ServeStep == ASSUME CInv, Serve PROVE CInv'
<1>1. PICK n \in 0 .. Len(waiting) :
        /\ Drain(n)
        /\ pc' = [c \in Caller |-> IF c \in {waiting[i] : i \in 1 .. n}
                                     THEN "inflight" ELSE pc[c]]
        /\ sent' = [c \in Caller |-> sent[c]
                      + IF c \in {waiting[i] : i \in 1 .. n} THEN 1 ELSE 0]
  BY DEF Serve
<1>2. UNCHANGED attempt
  BY DEF Serve
<1> DEFINE served == {waiting[i] : i \in 1 .. n}
<1>3. waiting \in Seq(Caller) /\ Len(waiting) \in Nat
      /\ waiting' = SubSeq(waiting, n + 1, Len(waiting))
  BY <1>1 DEF CInv, Queueing, Drain
<1>4. \A c \in served : c \in Caller /\ pc[c] = "waiting"
  BY <1>3 DEF CInv, Queueing
<1>5. \A i \in DOMAIN waiting' : /\ n + i \in DOMAIN waiting
                                 /\ waiting'[i] = waiting[n + i]
                                 /\ waiting[n + i] \notin served
  BY <1>3 DEF CInv, Queueing
<1>6. Shapes'
  BY <1>1, <1>2 DEF CInv, Shapes, Underway
<1>7. Queueing'
  <2>1. waiting' \in Seq(Caller)
    BY <1>3
  <2>2. \A i \in DOMAIN waiting' : waiting'[i] \in Caller /\ pc[waiting'[i]] = "waiting"
    BY <1>3, <1>5 DEF CInv, Queueing
  <2>3. \A i \in DOMAIN waiting' : pc'[waiting'[i]] = "waiting"
    BY <2>2, <1>1, <1>5
  <2>4. \A i \in DOMAIN waiting' : i \in Int
    BY <2>1
  <2>5. \A i, j \in DOMAIN waiting' : waiting'[i] = waiting'[j] => n + i = n + j
    BY <1>5 DEF CInv, Queueing
  <2>6. QED
    BY <2>1, <2>3, <2>4, <2>5 DEF Queueing
<1>8. Counted'
  BY <1>1, <1>2, <1>4 DEF CInv, Shapes, Counted, CountedFor, Retries, Underway
<1>9. QED
  BY <1>6, <1>7, <1>8 DEF CInv

(* A caller that leaves a request goes nowhere near the queue.             *)
LEMMA QueueUntouched ==
  ASSUME CInv, NEW c \in Caller, NEW where, pc[c] # "waiting",
         pc' = [pc EXCEPT ![c] = where], waiting' = waiting
  PROVE Queueing'
BY DEF CInv, Shapes, Queueing

(* A failure that is retried counts one more attempt.                      *)
LEMMA RetryCounts ==
  ASSUME CInv, NEW c \in Caller, NEW delay, pc[c] \in Underway, MayRetry(c),
         SleepsThenRetries(c, delay), UNCHANGED <<sent, waiting>>
  PROVE CInv'
<1>1. Shapes'
  BY DEF CInv, Shapes, SleepsThenRetries, Underway
<1>2. Queueing'
  BY QueueUntouched DEF SleepsThenRetries, Underway
<1>3. Counted'
  BY DEF CInv, Shapes, Counted, CountedFor, Retries, SleepsThenRetries, MayRetry, Underway
<1>4. QED
  BY <1>1, <1>2, <1>3 DEF CInv

(* The other ends of a request, and of its body, count nothing.            *)
LEMMA MovesOn ==
  ASSUME CInv, NEW c \in Caller, NEW where \in Settled \cup Underway,
         pc[c] \in Underway, pc' = [pc EXCEPT ![c] = where],
         UNCHANGED <<attempt, sent, waiting>>
  PROVE CInv'
<1>1. Shapes'
  BY DEF CInv, Shapes
<1>2. Queueing'
  BY QueueUntouched DEF Underway
<1>3. Counted'
  BY DEF CInv, Shapes, Counted, CountedFor, Retries, Underway, Settled
<1>4. QED
  BY <1>1, <1>2, <1>3 DEF CInv

(* Every step of the client keeps the counts and the queue.                *)
LEMMA CountingStep == ASSUME CInv, [Next]_vars PROVE CInv'
<1>1. ASSUME NEW c \in Caller, Call(c) PROVE CInv'
  <2>1. pc[c] # "waiting" /\ Acquires(c, 0)
    BY <1>1 DEF Call, Settled
  <2>2. attempt' \in [Caller -> Nat] /\ attempt'[c] = 0
        /\ \A o \in Caller \ {c} : attempt'[o] = attempt[o]
    BY <1>1 DEF Call, CInv, Shapes
  <2>3. Retries(c)'
    BY <2>2 DEF Retries
  <2>4. QED
    BY <2>1, <2>2, <2>3, AcquiresStep
<1>2. ASSUME NEW c \in Caller, Retry(c) PROVE CInv'
  <2>1. pc[c] = "backoff" /\ Acquires(c, sent[c]) /\ UNCHANGED attempt
    BY <1>2 DEF Retry
  <2>2. sent[c] \in Nat /\ attempt'[c] = sent[c] /\ Retries(c)'
        /\ attempt' \in [Caller -> Nat]
    BY <2>1 DEF CInv, Shapes, Counted, CountedFor, Retries
  <2>3. QED
    BY <2>1, <2>2, AcquiresStep
<1>3. ASSUME NEW c \in Caller, Ends(c) PROVE CInv'
  <2>1. CASE Refused(c)
    BY <2>1, MovesOn DEF Refused, Underway, limiter
  <2>2. CASE FailsForNow(c)
    BY <2>2, RetryCounts DEF FailsForNow, Underway, limiter
  <2>3. CASE TooManyRequests(c)
    BY <2>3, RetryCounts DEF TooManyRequests, PauseFor, Underway
  <2>4. CASE FailsForGood(c)
    BY <2>4, MovesOn DEF FailsForGood, Underway, Settled, limiter
  <2>5. CASE Answered(c)
    BY <2>5, MovesOn DEF Answered, Underway, limiter
  <2>6. CASE ReadsBody(c)
    BY <2>6, MovesOn DEF ReadsBody, Underway, Settled, limiter
  <2>7. QED
    BY <1>3, <2>1, <2>2, <2>3, <2>4, <2>5, <2>6 DEF Ends
<1>4. CASE Serve
  BY <1>4, ServeStep
<1>5. ASSUME UNCHANGED <<pc, attempt, sent, waiting>> PROVE CInv'
  BY <1>5 DEF CInv, Shapes, Queueing, Counted, CountedFor, Retries
<1>6. CASE StaysAsleep
  BY <1>6, <1>5 DEF StaysAsleep, SleepAgain, client
<1>7. CASE TimePasses
  BY <1>7, <1>5 DEF TimePasses, Tick
<1>8. CASE ClockGoesBack
  BY <1>8, <1>5 DEF ClockGoesBack, ClockSetBack, client
<1>9. CASE UNCHANGED vars
  BY <1>9, <1>5 DEF vars, limiter, client
<1>10. QED
  BY <1>1, <1>2, <1>3, <1>4, <1>6, <1>7, <1>8, <1>9 DEF Next

(* CInv is an invariant of the client.                                     *)
LEMMA CountingInvariant == Spec => []CInv
<1>1. Init => CInv
  BY DEF Init, LimiterInit, CInv, Shapes, Queueing, Counted, CountedFor, Retries,
         Settled, Underway
<1>2. QED
  BY <1>1, CountingStep, PTL DEF Spec

(* A mutation is put on the wire once at most, any other call at most once *)
(* more than its retries, for any callers and any failures.                *)
THEOREM MutationsAreSentOnce == Spec => []EmissionsBounded
<1>2. CInv => EmissionsBounded
  <2>1. SUFFICES ASSUME CInv, NEW c \in Caller
                 PROVE sent[c] <= IF c \in Mutating THEN 1 ELSE MaxRetries + 1
    BY DEF EmissionsBounded
  <2>2. sent[c] \in Nat /\ attempt[c] \in Nat
        /\ sent[c] <= attempt[c] + 1
        /\ attempt[c] <= IF c \in Mutating THEN 0 ELSE MaxRetries
    BY <2>1 DEF CInv, Shapes, Counted, CountedFor, Retries
  <2>3. QED
    BY <2>2
<1>3. QED
  BY <1>2, CountingInvariant, PTL

-----------------------------------------------------------------------------
(* What is left of the longest delay a 429 asked for, and of the pause.    *)
QuietInv ==
  /\ quiet \in Nat /\ pause \in Int
  /\ quiet = 0 \/ quiet <= pause

(* The limiter's pause outlasts every delay asked for: a pause is only     *)
(* made longer, and a clock set back makes it longer still.                *)
LEMMA QuietStep == ASSUME QuietInv, [Next]_vars PROVE QuietInv'
<1>1. ASSUME NEW c \in Caller, Call(c) \/ Retry(c) PROVE UNCHANGED <<quiet, pause>>
  BY <1>1 DEF Call, Retry, Acquires, AcquireNow, AcquireLater
<1>2. ASSUME NEW c \in Caller, Ends(c) PROVE QuietInv'
  <2>1. ASSUME NEW d \in Delays, PauseFor(d), quiet' = Greater(quiet, d)
        PROVE QuietInv'
    <3>1. d \in Nat
      BY DelayAssumption
    <3>2. QED
      BY <2>1, <3>1 DEF PauseFor, QuietInv, Greater
  <2>2. CASE TooManyRequests(c)
    BY <2>1, <2>2 DEF TooManyRequests
  <2>3. CASE UNCHANGED <<quiet, pause>>
    BY <2>3 DEF QuietInv
  <2>4. QED
    BY <2>2, <2>3, <1>2
    DEF Ends, Refused, FailsForNow, FailsForGood, Answered, ReadsBody, limiter
<1>3. CASE TimePasses
  BY <1>3 DEF TimePasses, Tick, QuietInv, Greater
<1>4. CASE ClockGoesBack
  BY <1>4 DEF ClockGoesBack, ClockSetBack, client, QuietInv
<1>5. CASE Serve \/ StaysAsleep \/ UNCHANGED vars
  BY <1>5 DEF Serve, Drain, StaysAsleep, SleepAgain, vars, limiter, client, QuietInv
<1>6. QED
  BY <1>1, <1>2, <1>3, <1>4, <1>5 DEF Next, QuietInv

(* A request that ends grants nothing, nor does time.                      *)
LEMMA OthersGrantNothing ==
  ASSUME NEW c \in Caller, Granted(c), [Next]_vars
  PROVE (\E o \in Caller : Call(o) \/ Retry(o)) \/ Serve
<1>1. ASSUME NEW o \in Caller, Ends(o) PROVE FALSE
  <2>1. PICK where : pc' = [pc EXCEPT ![o] = where] /\ where # "inflight"
    BY <1>1 DEF Ends, Refused, FailsForNow, TooManyRequests, FailsForGood, Answered,
       ReadsBody, SleepsThenRetries
  <2>2. QED
    BY <2>1 DEF Granted
<1>2. CASE StaysAsleep \/ TimePasses \/ ClockGoesBack \/ UNCHANGED vars
  BY <1>2 DEF StaysAsleep, TimePasses, ClockGoesBack, vars, client, Granted
<1>3. QED
  BY <1>1, <1>2 DEF Next

(* A token is granted only while no pause is under way.                    *)
LEMMA GrantsOutsidePauses ==
  ASSUME QuietInv, [Next]_vars, NEW c \in Caller, Granted(c)
  PROVE pause <= 0
<1>1. ASSUME NEW o \in Caller, NEW already, Acquires(o, already), pc'[c] = "inflight",
             pc[c] # "inflight", pause > 0
      PROVE FALSE
  <2>1. Wait > 0
    BY <1>1 DEF Wait, QuietInv
  <2>2. pc' = [pc EXCEPT ![o] = "waiting"]
    BY <1>1, <2>1 DEF Acquires, AcquireNow
  <2>3. QED
    BY <1>1, <2>2
<1>2. CASE \E o \in Caller : Call(o) \/ Retry(o)
  BY <1>1, <1>2 DEF Call, Retry, Granted, QuietInv
<1>3. CASE Serve
  BY <1>3 DEF Serve, Drain
<1>4. QED
  BY <1>2, <1>3, OthersGrantNothing

(* After a 429 that is retried, no caller is given a token before the      *)
(* delay the server asked for, for any callers, delays and clock set back. *)
THEOREM NobodyBreaksThePause == Spec => PauseIsForEveryone
<1>1. Init => QuietInv
  BY BackAssumption DEF Init, LimiterInit, QuietInv
<1>2. ASSUME QuietInv, [Next]_vars
      PROVE [(\E c \in Caller : Granted(c)) => quiet = 0]_vars
  BY <1>2, GrantsOutsidePauses DEF QuietInv
<1>3. QED
  BY <1>1, <1>2, QuietStep, PTL DEF Spec, PauseIsForEveryone

(* While callers wait, tokens go to the ones that have waited longest, for *)
(* any number of callers: nobody is served past the head of the queue.     *)
THEOREM FirstComeFirstServed == Spec => NoOvertaking
<1> DEFINE Fair == waiting # <<>> =>
             \A c \in Caller : Granted(c) =>
               \E i \in DOMAIN waiting :
                 waiting[i] = c /\ \A j \in 1 .. i : Granted(waiting[j])
<1>1. ASSUME CInv, [Next]_vars PROVE Fair
  <2>1. SUFFICES ASSUME waiting # <<>>, NEW c \in Caller, Granted(c)
                 PROVE \E i \in DOMAIN waiting :
                         waiting[i] = c /\ \A j \in 1 .. i : Granted(waiting[j])
    OBVIOUS
  <2>2. ASSUME NEW o \in Caller, Call(o) \/ Retry(o) PROVE FALSE
    <3>1. pc' = [pc EXCEPT ![o] = "waiting"]
      BY <2>1, <2>2 DEF Call, Retry, Acquires, AcquireNow
    <3>2. QED
      BY <2>1, <3>1 DEF Granted
  <2>3. Serve
    BY <1>1, <2>1, <2>2, OthersGrantNothing
  <2>4. PICK n \in 0 .. Len(waiting) :
          pc' = [o \in Caller |-> IF o \in {waiting[i] : i \in 1 .. n}
                                    THEN "inflight" ELSE pc[o]]
    BY <2>3 DEF Serve
  <2>5. PICK i \in 1 .. n : waiting[i] = c
    BY <2>1, <2>4 DEF Granted
  <2>6. waiting \in Seq(Caller) /\ i \in DOMAIN waiting
    BY <1>1 DEF CInv, Queueing
  <2>7. ASSUME NEW j \in 1 .. i PROVE Granted(waiting[j])
    <3>1. j \in 1 .. n /\ j \in DOMAIN waiting /\ waiting[j] \in Caller
      BY <2>6
    <3>2. pc[waiting[j]] = "waiting"
      BY <1>1, <3>1 DEF CInv, Queueing
    <3>3. pc'[waiting[j]] = "inflight"
      BY <2>4, <3>1
    <3>4. QED
      BY <3>2, <3>3 DEF Granted
  <2>8. QED
    BY <2>5, <2>6, <2>7
<1>2. QED
  BY <1>1, CountingInvariant, PTL DEF Spec, NoOvertaking

-----------------------------------------------------------------------------
(* A caller whose acquire() is pending is in the queue of the limiter, and *)
(* no timer or history counts below zero.                                  *)
Pending ==
  /\ left \in [Caller -> Nat] /\ quiet \in Nat
  /\ \A c \in Caller : pc[c] = "waiting" => c \in Queued

(* Whoever leaves the queue has its token, whoever waits is queued.        *)
LEMMA PendingStep == ASSUME CInv, Pending, [Next]_vars PROVE Pending'
<1>1. ASSUME waiting' = waiting,
             \A c \in Caller : pc'[c] = "waiting" => pc[c] = "waiting"
      PROVE \A c \in Caller : pc'[c] = "waiting" => c \in Queued'
  BY <1>1 DEF Pending, Queued
<1>2. ASSUME NEW c \in Caller, NEW already, Acquires(c, already),
             left' \in [Caller -> Nat], quiet' = quiet
      PROVE Pending'
  <2>1. CASE AcquireNow(c) /\ pc' = [pc EXCEPT ![c] = "inflight"]
    <3>1. waiting' = waiting /\ \A o \in Caller : pc'[o] = "waiting" => pc[o] = "waiting"
      BY <2>1 DEF CInv, Shapes, AcquireNow
    <3>2. QED
      BY <3>1, <1>1, <1>2 DEF Pending
  <2>2. CASE AcquireLater(c) /\ pc' = [pc EXCEPT ![c] = "waiting"]
    <3>1. waiting \in Seq(Caller) /\ waiting' = Append(waiting, c)
      BY <2>2 DEF CInv, Queueing, AcquireLater
    <3>2. /\ waiting' \in Seq(Caller) /\ Len(waiting') = Len(waiting) + 1
          /\ waiting'[Len(waiting')] = c
          /\ \A i \in DOMAIN waiting : i \in DOMAIN waiting' /\ waiting'[i] = waiting[i]
          /\ Len(waiting') \in DOMAIN waiting'
      BY <3>1
    <3>3. c \in Queued' /\ Queued \subseteq Queued'
      BY <3>2 DEF Queued
    <3>4. \A o \in Caller \ {c} : pc'[o] = pc[o]
      BY <2>2 DEF CInv, Shapes
    <3>5. QED
      BY <3>3, <3>4, <1>2 DEF Pending
  <2>3. QED
    BY <1>2, <2>1, <2>2 DEF Acquires
<1>3. ASSUME NEW c \in Caller, Call(c) \/ Retry(c) PROVE Pending'
  <2>1. left' \in [Caller -> Nat] /\ quiet' = quiet
    BY <1>3 DEF Call, Retry, Pending
  <2>2. QED
    BY <1>2, <1>3, <2>1 DEF Call, Retry
<1>4. ASSUME NEW c \in Caller, Ends(c) PROVE Pending'
  <2>1. PICK where \in Settled \cup Underway \cup {"backoff"} :
          pc' = [pc EXCEPT ![c] = where]
    BY <1>4 DEF Ends, Refused, FailsForNow, TooManyRequests, FailsForGood, Answered,
       ReadsBody, SleepsThenRetries, Settled, Underway
  <2>2. waiting' = waiting
    BY <1>4 DEF Ends, Refused, FailsForNow, TooManyRequests, FailsForGood, Answered,
       ReadsBody, PauseFor, limiter
  <2>3. left' \in [Caller -> Nat] /\ quiet' \in Nat
    <3>1. CASE UNCHANGED <<left, quiet>>
      BY <3>1 DEF Pending
    <3>2. CASE FailsForNow(c)
      BY <3>2, ClientAssumption DEF FailsForNow, SleepsThenRetries, Pending
    <3>3. CASE TooManyRequests(c)
      BY <3>3, DelayAssumption DEF TooManyRequests, SleepsThenRetries, Pending, Greater
    <3>4. QED
      BY <1>4, <3>1, <3>2, <3>3 DEF Ends, Refused, FailsForGood, Answered, ReadsBody
  <2>4. \A o \in Caller : pc'[o] = "waiting" => pc[o] = "waiting"
    BY <2>1 DEF CInv, Shapes, Settled, Underway
  <2>5. QED
    BY <2>2, <2>3, <2>4, <1>1 DEF Pending
<1>5. CASE Serve
  <2>1. PICK n \in 0 .. Len(waiting) :
          /\ waiting' = SubSeq(waiting, n + 1, Len(waiting))
          /\ pc' = [c \in Caller |-> IF c \in {waiting[i] : i \in 1 .. n}
                                       THEN "inflight" ELSE pc[c]]
    BY <1>5 DEF Serve, Drain
  <2>2. waiting \in Seq(Caller) /\ Len(waiting) \in Nat
        /\ DOMAIN waiting = 1 .. Len(waiting)
    BY DEF CInv, Queueing
  <2>3. /\ waiting' \in Seq(Caller) /\ Len(waiting') = Len(waiting) - n
        /\ \A i \in 1 .. (Len(waiting) - n) : waiting'[i] = waiting[n + i]
    <3>1. waiting' = SubSeq(waiting, n + 1, Len(waiting))
      BY <2>1
    <3>2. waiting \in Seq(Caller) /\ Len(waiting) \in Nat
      BY <2>2
    <3>3. waiting' \in Seq(Caller) /\ Len(waiting') = Len(waiting) - n
      BY <3>1, <3>2
    <3>4. \A i \in 1 .. (Len(waiting) - n) : waiting'[i] = waiting[n + i]
      BY <3>1, <3>2
    <3>5. QED
      BY <3>3, <3>4
  <2>4. ASSUME NEW c \in Caller, pc'[c] = "waiting" PROVE c \in Queued'
    <3>1. pc[c] = "waiting" /\ c \notin {waiting[i] : i \in 1 .. n}
      BY <2>1, <2>4
    <3>2. PICK i \in DOMAIN waiting : waiting[i] = c
      BY <3>1 DEF Pending, Queued
    <3>3. i \in Int /\ i > n /\ i <= Len(waiting)
      BY <3>1, <3>2, <2>2
    <3>4. i - n \in 1 .. (Len(waiting) - n) /\ n + (i - n) = i
      BY <3>3, <2>2
    <3>5. i - n \in DOMAIN waiting' /\ waiting'[i - n] = c
      BY <3>2, <3>4, <2>2, <2>3
    <3>6. QED
      BY <3>5 DEF Queued
  <2>5. QED
    BY <1>5, <2>4 DEF Serve, Pending
<1>6. CASE TimePasses
  BY <1>1, <1>6 DEF TimePasses, Tick, Pending, Greater
<1>7. CASE StaysAsleep \/ ClockGoesBack \/ UNCHANGED vars
  BY <1>1, <1>7 DEF StaysAsleep, SleepAgain, ClockGoesBack, ClockSetBack, vars, limiter,
     client, Pending
<1>8. QED
  BY <1>3, <1>4, <1>5, <1>6, <1>7 DEF Next

(* The client's state is typed, no call is retried more than it may, and a *)
(* caller is in the limiter's queue exactly while its acquire() is pending.*)
THEOREM ClientTypes == Spec => []ClientTypeOK
<1>1. Init => Pending /\ LimiterInit
  BY DEF Init, Pending, LimiterInit
<1>2. Spec => LimiterSpec
  BY <1>1, ClientStep, PTL DEF Spec, LimiterSpec
<1>3. ASSUME CInv, Pending, LimiterTypeOK PROVE ClientTypeOK
  <2>1. \A c \in Caller : pc[c] = "waiting" <=> c \in Queued
    BY <1>3 DEF CInv, Queueing, Pending, Queued
  <2>2. attempt \in [Caller -> 0 .. MaxRetries]
    <3>1. ASSUME NEW c \in Caller PROVE attempt[c] \in Nat /\ attempt[c] <= MaxRetries
      <4>1. attempt[c] \in Nat /\ attempt[c] <= IF c \in Mutating THEN 0 ELSE MaxRetries
        BY <1>3 DEF CInv, Shapes, Counted, Retries
      <4>2. QED
        BY <4>1, ClientAssumption
    <3>2. QED
      BY <1>3, <3>1 DEF CInv, Shapes
  <2>3. QED
    BY <1>3, <2>1, <2>2 DEF CInv, Shapes, Pending, ClientTypeOK, Settled, Underway
<1>4. QED
  BY <1>1, <1>2, <1>3, CountingInvariant, PendingStep, LimiterTypes, PTL DEF Spec
=============================================================================
