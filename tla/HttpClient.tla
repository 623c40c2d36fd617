---------------------------- MODULE HttpClient -----------------------------
(***************************************************************************)
(* packages/extractor/src/mattermost/http-client.ts, MattermostClient.send *)
(* and its callers json, binary and the raw executor of MutationGate, over *)
(* the limiter they share.                                                 *)
(*                                                                         *)
(* A caller is "inflight" from the moment its token is granted: its        *)
(* continuation, the next microtask, sends the request.  fetchOnce aborts  *)
(* after requestTimeoutMs, but only until the headers are there: a failed  *)
(* response is then "refused" until its body is read.  The delay of a 429  *)
(* is rateLimitDelayMs's, whatever header it came from (Delays); the delay *)
(* of another retry is backoffDelayMs's, drawn at random.                  *)
(***************************************************************************)
EXTENDS RateLimiter

CONSTANTS
  Mutating,      \* callers whose calls mutate the instance (retryOnFailure false)
  MaxRetries,    \* maxRetries
  Backoffs       \* delays backoffDelayMs may draw

ASSUME ClientAssumption ==
  /\ Mutating \subseteq Caller
  /\ MaxRetries \in Nat
  /\ \A d \in Delays : d <= MaxTimer      \* MAX_RATE_LIMIT_WAIT_MS
  /\ Backoffs \subseteq Nat

VARIABLES
  pc,            \* pc[c]: where send(), then the read of the body, stand
  attempt,       \* attempt[c]
  left,          \* left[c]: what is left of its own sleep before a retry
  sent,          \* sent[c]: requests the current call has put on the wire
  quiet          \* history: what is left of the longest delay a 429 asked for,
                 \* when the caller that met it was going to retry

client == <<pc, attempt, left, sent, quiet>>
vars == <<limiter, client>>

Settled == {"idle", "done", "failed"}

Init ==
  /\ LimiterInit
  /\ pc = [c \in Caller |-> "idle"] /\ attempt = [c \in Caller |-> 0]
  /\ left = [c \in Caller |-> 0] /\ sent = [c \in Caller |-> 0]
  /\ quiet = 0

-----------------------------------------------------------------------------
(* await limiter.acquire(), then the request leaves.                       *)
Acquires(c, already) ==
  \/ /\ AcquireNow(c)
     /\ pc' = [pc EXCEPT ![c] = "inflight"]
     /\ sent' = [sent EXCEPT ![c] = already + 1]
  \/ /\ AcquireLater(c)
     /\ pc' = [pc EXCEPT ![c] = "waiting"]
     /\ sent' = [sent EXCEPT ![c] = already]

(* json, binary or the executor is called.                                 *)
Call(c) ==
  /\ pc[c] \in Settled
  /\ Acquires(c, 0)
  /\ attempt' = [attempt EXCEPT ![c] = 0] /\ left' = [left EXCEPT ![c] = 0]
  /\ UNCHANGED quiet

(* The sleep before a retry ends: the caller queues again, at the end.     *)
Retry(c) ==
  /\ pc[c] = "backoff" /\ left[c] = 0
  /\ Acquires(c, sent[c])
  /\ UNCHANGED <<attempt, left, quiet>>

(* #drain serves its oldest waiters.                                       *)
Serve ==
  /\ \E n \in 0 .. Len(waiting) :
       /\ Drain(n)
       /\ LET served == {waiting[i] : i \in 1 .. n}
          IN /\ pc' = [c \in Caller |-> IF c \in served THEN "inflight" ELSE pc[c]]
             /\ sent' = [c \in Caller |-> sent[c] + IF c \in served THEN 1 ELSE 0]
  /\ UNCHANGED <<attempt, left, quiet>>

StaysAsleep == SleepAgain /\ UNCHANGED client

-----------------------------------------------------------------------------
(* The request ends                                                        *)

MayRetry(c) == c \notin Mutating /\ attempt[c] < MaxRetries

SleepsThenRetries(c, delay) ==
  /\ pc' = [pc EXCEPT ![c] = "backoff"]
  /\ left' = [left EXCEPT ![c] = delay]
  /\ attempt' = [attempt EXCEPT ![c] = @ + 1]

(* Headers of a status that is not a success; the body remains to be read. *)
Refused(c) ==
  /\ pc[c] = "inflight"
  /\ pc' = [pc EXCEPT ![c] = "refused"]
  /\ UNCHANGED <<limiter, attempt, left, sent, quiet>>

(* Network error or timeout, or a status of 500 and above, to be retried.  *)
FailsForNowAnyone(c) ==
  /\ pc[c] \in {"inflight", "refused"} /\ attempt[c] < MaxRetries
  /\ \E delay \in Backoffs : SleepsThenRetries(c, delay)
  /\ UNCHANGED <<limiter, sent, quiet>>

FailsForNow(c) ==
  /\ pc[c] \in {"inflight", "refused"} /\ MayRetry(c)
  /\ \E delay \in Backoffs : SleepsThenRetries(c, delay)
  /\ UNCHANGED <<limiter, sent, quiet>>

(* 429: everyone is suspended, the caller sleeps as long.                  *)
TooManyRequests(c) ==
  /\ pc[c] = "refused" /\ MayRetry(c)
  /\ \E delay \in Delays :
       /\ PauseFor(delay)
       /\ SleepsThenRetries(c, delay)
       /\ quiet' = Greater(quiet, delay)
  /\ UNCHANGED sent

(* Any failure when no retry is left, a 4xx other than 429, the body of a  *)
(* failed response that cannot be read.                                    *)
FailsForGood(c) ==
  /\ pc[c] \in {"inflight", "refused"}
  /\ pc' = [pc EXCEPT ![c] = "failed"]
  /\ UNCHANGED <<limiter, attempt, left, sent, quiet>>

(* The headers are there; the timer of fetchOnce is cleared and the body   *)
(* remains to be read, and to be checked against its schema.               *)
Answered(c) ==
  /\ pc[c] = "inflight"
  /\ pc' = [pc EXCEPT ![c] = "reading"]
  /\ UNCHANGED <<limiter, attempt, left, sent, quiet>>

ReadsBody(c) ==
  /\ pc[c] = "reading"
  /\ \E outcome \in {"done", "failed"} : pc' = [pc EXCEPT ![c] = outcome]
  /\ UNCHANGED <<limiter, attempt, left, sent, quiet>>

-----------------------------------------------------------------------------
TimePasses ==
  /\ Tick
  /\ left' = [c \in Caller |-> Greater(0, left[c] - 1)]
  /\ quiet' = Greater(0, quiet - 1)
  /\ UNCHANGED <<pc, attempt, sent>>

ClockGoesBack == (\E d \in 1 .. MaxBack : ClockSetBack(d)) /\ UNCHANGED client

Ends(c) ==
  \/ Refused(c) \/ FailsForNow(c) \/ TooManyRequests(c) \/ FailsForGood(c)
  \/ Answered(c) \/ ReadsBody(c)

Next ==
  \/ \E c \in Caller : Call(c) \/ Retry(c) \/ Ends(c)
  \/ Serve \/ StaysAsleep
  \/ TimePasses \/ ClockGoesBack

Spec == Init /\ [][Next]_vars

(* Time passes, timers fire, and fetch settles: before the headers by the  *)
(* timer of fetchOnce at the latest, in a body by fetch's own timeout.     *)
(* Nothing forces a call.                                                  *)
Fairness ==
  /\ WF_vars(TimePasses)
  /\ WF_vars(Serve) /\ WF_vars(StaysAsleep)
  /\ \A c \in Caller : WF_vars(Retry(c)) /\ WF_vars(Ends(c))

FairSpec == Spec /\ Fairness

-----------------------------------------------------------------------------
(* Properties                                                              *)

(* Types; a caller is in the queue of the limiter exactly while its        *)
(* acquire() is pending.                                                   *)
ClientTypeOK ==
  /\ LimiterTypeOK
  /\ pc \in [Caller -> Settled \cup {"waiting", "inflight", "refused", "backoff", "reading"}]
  /\ attempt \in [Caller -> 0 .. MaxRetries]
  /\ left \in [Caller -> Nat] /\ sent \in [Caller -> Nat] /\ quiet \in Nat
  /\ \A c \in Caller : pc[c] = "waiting" <=> c \in Queued

(* "Une mutation n est jamais rejouee automatiquement": whatever fails and *)
(* whoever waits, a call that mutates puts one request on the wire, any    *)
(* other at most one more than its retries.                                *)
EmissionsBounded ==
  \A c \in Caller : sent[c] <= IF c \in Mutating THEN 1 ELSE MaxRetries + 1

Granted(c) == pc[c] # "inflight" /\ pc'[c] = "inflight"

(* "Le serveur fait autorite : on suspend TOUS les appelants": once a 429  *)
(* has been met and is to be retried, no caller is given a token before    *)
(* its delay is over, those who were asleep in the queue included, and     *)
(* whatever shorter delays were asked for since.                           *)
PauseIsForEveryone == [][(\E c \in Caller : Granted(c)) => quiet = 0]_vars

(* "Servir les appelants concurrents dans leur ordre d arrivee": while     *)
(* callers wait, tokens go to the ones that have waited longest.           *)
NoOvertaking ==
  [][waiting # <<>> =>
       \A c \in Caller : Granted(c) =>
         \E i \in DOMAIN waiting :
           waiting[i] = c /\ \A j \in 1 .. i : Granted(waiting[j])]_vars

(* No queue, pause, clock set back or sequence of failures suspends a      *)
(* caller for ever: its call ends.                                         *)
EveryCallEnds == \A c \in Caller : pc[c] \notin Settled ~> pc[c] \in Settled
=============================================================================
