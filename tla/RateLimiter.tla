---------------------------- MODULE RateLimiter ----------------------------
(***************************************************************************)
(* packages/extractor/src/mattermost/rate-limiter.ts: the token bucket all *)
(* the requests of a run go through.                                       *)
(*                                                                         *)
(* One millisecond of recharge is the unit: a token costs Cost of them     *)
(* (1000 / requestsPerSecond; a rate that does not divide 1000 only rounds *)
(* sleeps up).  Instants are kept as distances to now: elapsed is          *)
(* now - #lastRefillAt, pause is #pausedUntil - now.  The wall clock may   *)
(* be set back under the program (NTP), timers do not see it.              *)
(***************************************************************************)
EXTENDS Integers, Sequences

CONSTANTS
  Caller,        \* concurrent callers of acquire()
  Cost,          \* recharge of one token
  Burst,         \* #burst
  MaxTimer,      \* MAX_TIMER_DELAY: longest sleep of a Node timer
  MaxBack,       \* bound: how far the wall clock may be set back in all
  Delays         \* delays pauseFor may be given

ASSUME CostAssumption == Cost \in Nat \ {0}
ASSUME BurstAssumption == Burst \in Nat \ {0}
ASSUME TimerAssumption == MaxTimer \in Nat \ {0}
ASSUME BackAssumption == MaxBack \in Nat
ASSUME DelayAssumption == Delays \subseteq Nat

VARIABLES
  tokens,        \* #tokens, in recharge units
  elapsed,       \* now - #lastRefillAt
  pause,         \* #pausedUntil - now
  waiting,       \* #waiting
  timer,         \* what is left of #drain's sleep; NoTimer when not draining
  skew,          \* how far the wall clock was set back
  exact          \* history: a bucket recharged on the time that really passed

limiter == <<tokens, elapsed, pause, waiting, timer, skew, exact>>

Full == Burst * Cost
NoTimer == 0 - 1

Smaller(a, b) == IF a <= b THEN a ELSE b
Greater(a, b) == IF a >= b THEN a ELSE b

(* #refill: a clock that went back recharges nothing, and takes nothing.   *)
Refilled == IF elapsed > 0 THEN Smaller(Full, tokens + elapsed) ELSE tokens

(* #millisecondsUntilAvailable, and how long #drain sleeps.                *)
UntilAvailable(held) == IF held >= Cost THEN 0 ELSE Cost - held
Wait == IF pause > 0 THEN pause ELSE UntilAvailable(Refilled)
Sleep(wait) == Smaller(wait, MaxTimer)

(* What evaluating it does to the bucket.                                  *)
Reevaluate ==
  IF pause > 0 THEN UNCHANGED <<tokens, elapsed>>
  ELSE tokens' = Refilled /\ elapsed' = 0

Queued == {waiting[i] : i \in DOMAIN waiting}

LimiterInit ==
  /\ tokens = Full /\ elapsed = 0 /\ pause = 0 - MaxBack
  /\ waiting = <<>> /\ timer = NoTimer /\ skew = 0
  /\ exact = Full

-----------------------------------------------------------------------------
(* acquire: nobody waits and a token is there.                             *)
AcquireOvertakes(c) ==
  /\ c \notin Queued
  /\ Wait = 0
  /\ tokens' = Refilled - Cost /\ elapsed' = 0
  /\ exact' = exact - Cost
  /\ UNCHANGED <<pause, waiting, timer, skew>>

AcquireNow(c) ==
  /\ c \notin Queued
  /\ waiting = <<>> /\ Wait = 0
  /\ tokens' = Refilled - Cost /\ elapsed' = 0
  /\ exact' = exact - Cost
  /\ UNCHANGED <<pause, waiting, timer, skew>>

(* acquire: somebody waits already, or there is no token.  The first to    *)
(* wait starts #drain.                                                     *)
AcquireForgetsDrain(c) ==
  /\ c \notin Queued
  /\ waiting # <<>> \/ Wait > 0
  /\ waiting' = Append(waiting, c)
  /\ Reevaluate
  /\ UNCHANGED <<pause, timer, skew, exact>>

AcquireLater(c) ==
  /\ c \notin Queued
  /\ waiting # <<>> \/ Wait > 0
  /\ waiting' = Append(waiting, c)
  /\ IF timer = NoTimer
       THEN Reevaluate /\ timer' = Sleep(Wait)
       ELSE UNCHANGED <<tokens, elapsed, timer>>
  /\ UNCHANGED <<pause, skew, exact>>

(* #drain after its sleep: a pause may have been asked for meanwhile; when *)
(* there is none, the n oldest waiters get a token.                        *)
DrainIgnoresPause(n) ==
  /\ timer = 0
  /\ n \in 0 .. Len(waiting) /\ n * Cost <= Refilled
  /\ n = Len(waiting) \/ (n + 1) * Cost > Refilled
  /\ tokens' = Refilled - n * Cost /\ elapsed' = 0
  /\ exact' = exact - n * Cost
  /\ waiting' = SubSeq(waiting, n + 1, Len(waiting))
  /\ timer' = IF n = Len(waiting) THEN NoTimer
              ELSE Sleep(UntilAvailable(Refilled - n * Cost))
  /\ UNCHANGED <<pause, skew>>

DrainOnAFraction(n) ==
  /\ timer = 0 /\ pause <= 0
  /\ n \in 0 .. Len(waiting) /\ n * Cost < Refilled + Cost
  /\ n = Len(waiting) \/ n * Cost >= Refilled
  /\ tokens' = Refilled - n * Cost /\ elapsed' = 0
  /\ exact' = exact - n * Cost
  /\ waiting' = SubSeq(waiting, n + 1, Len(waiting))
  /\ timer' = IF n = Len(waiting) THEN NoTimer
              ELSE Sleep(UntilAvailable(Refilled - n * Cost))
  /\ UNCHANGED <<pause, skew>>

DrainKeepsElapsed(n) ==
  /\ timer = 0 /\ pause <= 0
  /\ n \in 0 .. Len(waiting) /\ n * Cost <= Refilled
  /\ n = Len(waiting) \/ (n + 1) * Cost > Refilled
  /\ tokens' = Refilled - n * Cost
  /\ exact' = exact - n * Cost
  /\ waiting' = SubSeq(waiting, n + 1, Len(waiting))
  /\ timer' = IF n = Len(waiting) THEN NoTimer
              ELSE Sleep(UntilAvailable(Refilled - n * Cost))
  /\ UNCHANGED <<elapsed, pause, skew>>

Drain(n) ==
  /\ timer = 0 /\ pause <= 0
  /\ n \in 0 .. Len(waiting) /\ n * Cost <= Refilled
  /\ n = Len(waiting) \/ (n + 1) * Cost > Refilled
  /\ tokens' = Refilled - n * Cost /\ elapsed' = 0
  /\ exact' = exact - n * Cost
  /\ waiting' = SubSeq(waiting, n + 1, Len(waiting))
  /\ timer' = IF n = Len(waiting) THEN NoTimer
              ELSE Sleep(UntilAvailable(Refilled - n * Cost))
  /\ UNCHANGED <<pause, skew>>

SleepAgain ==
  /\ timer = 0 /\ pause > 0
  /\ timer' = Sleep(pause)
  /\ UNCHANGED <<tokens, elapsed, pause, waiting, skew, exact>>

(* #drain's catch: the sleep itself failed; everyone in the queue is told. *)
(* Only a sleep given by the caller can fail: the client gives none.       *)
SleepFails ==
  /\ timer # NoTimer
  /\ waiting' = <<>> /\ timer' = NoTimer
  /\ UNCHANGED <<tokens, elapsed, pause, skew, exact>>

(* pauseFor: a pause under way can only be made longer.                    *)
PauseForShortens(d) ==
  /\ pause' = IF d > 0 THEN d ELSE pause
  /\ UNCHANGED <<tokens, elapsed, waiting, timer, skew, exact>>

PauseFor(d) ==
  /\ pause' = IF d > 0 THEN Greater(pause, d) ELSE pause
  /\ UNCHANGED <<tokens, elapsed, waiting, timer, skew, exact>>

-----------------------------------------------------------------------------
(* A unit of time passes.  What lies so far back that even the clock set   *)
(* back could not tell is kept at its bound.                               *)
Tick ==
  /\ elapsed' = Smaller(elapsed + 1, Full + MaxBack)
  /\ pause' = Greater(pause - 1, 0 - MaxBack)
  /\ timer' = IF timer > 0 THEN timer - 1 ELSE timer
  /\ exact' = Smaller(Full, exact + 1)
  /\ UNCHANGED <<tokens, waiting, skew>>

ClockSetBack(d) ==
  /\ skew + d <= MaxBack
  /\ skew' = skew + d
  /\ elapsed' = elapsed - d /\ pause' = pause + d
  /\ UNCHANGED <<tokens, waiting, timer, exact>>

LimiterNext ==
  \/ \E c \in Caller : AcquireNow(c) \/ AcquireLater(c)
  \/ \E n \in 0 .. Len(waiting) : Drain(n)
  \/ SleepAgain \/ SleepFails
  \/ \E d \in Delays : PauseFor(d)
  \/ Tick
  \/ \E d \in 1 .. MaxBack : ClockSetBack(d)

LimiterSpec == LimiterInit /\ [][LimiterNext]_limiter

-----------------------------------------------------------------------------
(* Types; #drain runs exactly while somebody waits, and nobody waits twice. *)
LimiterTypeOK ==
  /\ tokens \in 0 .. Full
  /\ elapsed \in (0 - MaxBack) .. (Full + MaxBack) /\ pause \in Int
  /\ waiting \in Seq(Caller)
  /\ timer \in {NoTimer} \cup 0 .. MaxTimer
  /\ skew \in 0 .. MaxBack /\ exact \in Int
  /\ timer = NoTimer <=> waiting = <<>>
  /\ \A i, j \in DOMAIN waiting : waiting[i] = waiting[j] => i = j

(* "Le limiteur doit rester exact sur toute sa duree de vie, sans jamais   *)
(* deriver": a bucket that recharges on the time that really passed is     *)
(* never overdrawn, that is, no window of time of any length sees more     *)
(* than a burst and what the rate allows in it, whatever rounding, pauses  *)
(* or a clock set back did in between.                                     *)
NeverOverRate == exact >= 0
=============================================================================
