----------------------------- MODULE StateStore -----------------------------
(***************************************************************************)
(* packages/extractor/src/archive/state-store.ts: the resume state of an   *)
(* extraction, shared by every channel task of one process and written     *)
(* atomically (temporary file, fsync, rename) through one promise chain.   *)
(*                                                                         *)
(* Abstractions.  The whole state is serialised at each write, so its      *)
(* content is abstracted to a version: the number of changes applied to    *)
(* it (0: no state file).  The promise chain is a FIFO: reactions of one   *)
(* promise run in the order they were registered, so a close() that awaits *)
(* the chain is a "barrier" entry between the writes queued before it and  *)
(* those queued after.  The clock (Clock in the code) never goes back.     *)
(***************************************************************************)
EXTENDS Integers, Sequences

CONSTANTS
  Task,          \* asynchronous callers: channel tasks, the signal handler
  NoTask,        \* "no write in progress"
  Interval,      \* intervalMs of saveThrottled, in ticks
  MaxVersion,    \* bound: changes of the state
  MaxTime,       \* bound: clock ticks
  MaxCrashes     \* bound: process deaths

ASSUME TaskAssumption == NoTask \notin Task
ASSUME IntervalAssumption == Interval \in Nat \ {0}

VARIABLES
  up,            \* the process is running
  mem,           \* version of the in-memory state
  dirty,         \* StateStore.dirty
  anchor,        \* StateStore.throttleAnchorMs
  chain,         \* StateStore.writeChain: what waits for its turn, oldest first
  writer,        \* task whose write is between serialisation and rename
  payload,       \* version serialised by that write
  disk,          \* version in the state file
  call,          \* call[t]: st, how the last call of t ended; floor, version it must cover
  now,           \* clock
  crashes,       \* process deaths so far
  decided        \* history: clock of the last write decided by saveThrottled

vars == <<up, mem, dirty, anchor, chain, writer, payload, disk, call, now,
          crashes, decided>>

(* throttleAnchorMs = null: the first throttled save is never refused.     *)
Never == 0 - Interval

Entry == [task : Task, kind : {"write", "barrier"}]

NoCalls == [t \in Task |-> [st |-> "idle", floor |-> 0]]

Idle(t) == up /\ call[t].st # "waiting"

(* What enqueueWrite does to the chain and to its caller, who awaits it.   *)
Push(t, kind, version) ==
  /\ chain' = Append(chain, [task |-> t, kind |-> kind])
  /\ call' = [call EXCEPT ![t] = [st |-> "waiting", floor |-> version]]

-----------------------------------------------------------------------------
(* StateStore.create: nothing is on disk yet, the state is dirty.          *)
Init ==
  /\ up = TRUE /\ mem = 1 /\ dirty = TRUE /\ anchor = Never
  /\ chain = <<>> /\ writer = NoTask /\ payload = 0 /\ disk = 0
  /\ call = NoCalls
  /\ now = 0 /\ crashes = 0 /\ decided = Never

(* updateProgress, or a direct change followed by touch().                 *)
UpdateProgress(t) ==
  /\ Idle(t) /\ mem < MaxVersion
  /\ mem' = mem + 1
  /\ dirty' = TRUE
  /\ UNCHANGED <<up, anchor, chain, writer, payload, disk, call, now, crashes,
                 decided>>

(* A join or a leave is recorded: the record is pushed without touch() and *)
(* saveNow is called in the same synchronous stretch.                      *)
RecordAndSave(t) ==
  /\ Idle(t) /\ mem < MaxVersion
  /\ mem' = mem + 1
  /\ Push(t, "write", mem + 1)
  /\ UNCHANGED <<up, dirty, anchor, writer, payload, disk, now, crashes,
                 decided>>

(* saveNow: always queues a write, dirty or not.                           *)
SaveNow(t) ==
  /\ Idle(t)
  /\ Push(t, "write", mem)
  /\ UNCHANGED <<up, mem, dirty, anchor, writer, payload, disk, now, crashes,
                 decided>>

(* saveThrottled: the anchor is moved when the write is decided.  A clean  *)
(* state or a call inside the window returns without any effect.           *)
SaveThrottledLateAnchor(t) ==
  /\ Idle(t) /\ dirty /\ now - anchor >= Interval
  /\ decided' = now
  /\ Push(t, "write", mem)
  /\ UNCHANGED <<up, mem, dirty, anchor, writer, payload, disk, now, crashes>>

SaveThrottled(t) ==
  /\ Idle(t) /\ dirty /\ now - anchor >= Interval
  /\ anchor' = now
  /\ decided' = now
  /\ Push(t, "write", mem)
  /\ UNCHANGED <<up, mem, dirty, writer, payload, disk, now, crashes>>

(* close() first awaits whatever is already queued.                        *)
CloseWithoutWaiting(t) ==
  /\ Idle(t) /\ ~dirty
  /\ call' = [call EXCEPT ![t] = [st |-> "ok", floor |-> mem]]
  /\ UNCHANGED <<up, mem, dirty, anchor, chain, writer, payload, disk, now,
                 crashes, decided>>

Close(t) ==
  /\ Idle(t)
  /\ Push(t, "barrier", mem)
  /\ UNCHANGED <<up, mem, dirty, anchor, writer, payload, disk, now, crashes,
                 decided>>

(* The chain awaited by close() has settled, and the state is dirty.       *)
CloseWrites ==
  /\ chain # <<>> /\ writer = NoTask
  /\ Head(chain).kind = "barrier" /\ dirty
  /\ chain' = Append(Tail(chain), [task |-> Head(chain).task, kind |-> "write"])
  /\ UNCHANGED <<up, mem, dirty, anchor, writer, payload, disk, call, now,
                 crashes, decided>>

(* The chain awaited by close() has settled, and nothing is left to write. *)
CloseReturns ==
  /\ chain # <<>> /\ writer = NoTask
  /\ Head(chain).kind = "barrier" /\ ~dirty
  /\ chain' = Tail(chain)
  /\ call' = [call EXCEPT ![Head(chain).task].st = "ok"]
  /\ UNCHANGED <<up, mem, dirty, anchor, writer, payload, disk, now, crashes,
                 decided>>

(* writeStateFile up to its first await: serialise what memory holds now,   *)
(* which may be newer than what the caller asked to save, lower the flag.  *)
BeginWriteKeepsSerialising ==
  /\ chain # <<>> /\ writer = NoTask
  /\ Head(chain).kind = "write"
  /\ writer' = Head(chain).task
  /\ payload' = call[Head(chain).task].floor
  /\ dirty' = FALSE
  /\ chain' = Tail(chain)
  /\ UNCHANGED <<up, mem, anchor, disk, call, now, crashes, decided>>

BeginWrite ==
  /\ chain # <<>> /\ writer = NoTask
  /\ Head(chain).kind = "write"
  /\ writer' = Head(chain).task
  /\ payload' = mem
  /\ dirty' = FALSE
  /\ chain' = Tail(chain)
  /\ UNCHANGED <<up, mem, anchor, disk, call, now, crashes, decided>>

(* writeStateFile after the rename.                                        *)
EndWrite ==
  /\ writer # NoTask
  /\ disk' = payload
  /\ anchor' = now
  /\ writer' = NoTask
  /\ call' = [call EXCEPT ![writer].st = "ok"]
  /\ UNCHANGED <<up, mem, dirty, chain, payload, now, crashes, decided>>

(* writeStateFile's catch: mkdir, open, write, fsync or rename failed.     *)
FailWriteKeepsClean ==
  /\ writer # NoTask
  /\ writer' = NoTask
  /\ call' = [call EXCEPT ![writer].st = "failed"]
  /\ UNCHANGED <<up, mem, dirty, anchor, chain, payload, disk, now, crashes,
                 decided>>

FailWriteForgetsCaller ==
  /\ writer # NoTask
  /\ dirty' = TRUE
  /\ writer' = NoTask
  /\ UNCHANGED <<up, mem, anchor, chain, payload, disk, call, now, crashes,
                 decided>>

FailWriteBreaksChain ==
  /\ writer # NoTask
  /\ dirty' = TRUE
  /\ chain' = <<>>
  /\ writer' = NoTask
  /\ call' = [call EXCEPT ![writer].st = "failed"]
  /\ UNCHANGED <<up, mem, anchor, payload, disk, now, crashes, decided>>

FailWrite ==
  /\ writer # NoTask
  /\ dirty' = TRUE
  /\ writer' = NoTask
  /\ call' = [call EXCEPT ![writer].st = "failed"]
  /\ UNCHANGED <<up, mem, anchor, chain, payload, disk, now, crashes, decided>>

-----------------------------------------------------------------------------
Tick ==
  /\ now < MaxTime
  /\ now' = now + 1
  /\ UNCHANGED <<up, mem, dirty, anchor, chain, writer, payload, disk, call,
                 crashes, decided>>

(* The process dies anywhere, between two steps of a write included: the   *)
(* state file is the one the last rename installed.                        *)
Crash ==
  /\ up /\ crashes < MaxCrashes
  /\ up' = FALSE
  /\ mem' = disk
  /\ dirty' = FALSE /\ chain' = <<>> /\ writer' = NoTask /\ payload' = 0
  /\ call' = NoCalls
  /\ crashes' = crashes + 1
  /\ UNCHANGED <<anchor, disk, now, decided>>

(* A new process: load the file, or create an empty state when there is    *)
(* none.                                                                   *)
Start ==
  /\ ~up
  /\ up' = TRUE
  /\ mem' = IF disk = 0 THEN 1 ELSE disk
  /\ dirty' = (disk = 0)
  /\ anchor' = Never /\ decided' = Never
  /\ UNCHANGED <<chain, writer, payload, disk, call, now, crashes>>

Next ==
  \/ \E t \in Task :
       \/ UpdateProgress(t) \/ RecordAndSave(t)
       \/ SaveNow(t) \/ SaveThrottled(t) \/ Close(t)
  \/ CloseWrites \/ CloseReturns
  \/ BeginWrite \/ EndWrite \/ FailWrite
  \/ Tick \/ Crash \/ Start

Spec == Init /\ [][Next]_vars

(* The event loop runs what is ready and an I/O operation always settles,  *)
(* one way or the other; nothing forces a task to call the store.          *)
Fairness ==
  /\ WF_vars(CloseWrites) /\ WF_vars(CloseReturns)
  /\ WF_vars(BeginWrite) /\ WF_vars(EndWrite \/ FailWrite)

FairSpec == Spec /\ Fairness

-----------------------------------------------------------------------------
(* Properties                                                              *)

Queued == {chain[i].task : i \in DOMAIN chain}

(* Types, and: a caller waits exactly as long as it has a place in the     *)
(* chain or its write is in flight.                                        *)
TypeOK ==
  /\ up \in BOOLEAN /\ dirty \in BOOLEAN
  /\ mem \in Nat /\ disk \in Nat /\ payload \in Nat
  /\ anchor \in Int /\ decided \in Int /\ now \in Nat /\ crashes \in Nat
  /\ chain \in Seq(Entry)
  /\ writer \in Task \cup {NoTask}
  /\ call \in [Task -> [st : {"idle", "waiting", "ok", "failed"}, floor : Nat]]
  /\ \A t \in Task : call[t].st = "waiting" <=> writer = t \/ t \in Queued

WriteQueued == \E i \in DOMAIN chain : chain[i].kind = "write"

(* "Tant que ce drapeau est leve, aucune de ces trois portes ne peut       *)
(* laisser la modification sur le carreau": a lowered flag means the file  *)
(* holds the state, or a write that will hold it is in flight or queued,   *)
(* failed writes and changes made during a write included.                 *)
CleanIsDurable ==
  up /\ ~dirty => \/ disk = mem
                  \/ writer # NoTask /\ payload = mem
                  \/ WriteQueued

(* A saveNow, saveThrottled or close that returned without an error: all   *)
(* that memory held when it was called is in the state file, whatever the  *)
(* other tasks changed, queued or failed to write meanwhile.               *)
SavedIsDurable == \A t \in Task : call[t].st = "ok" => disk >= call[t].floor

(* "Sauvegarde au plus une fois toutes les intervalMs, appels concurrents  *)
(* compris": two writes decided by saveThrottled in one process are an     *)
(* interval apart, even when the first has not reached the disk yet.       *)
ThrottleSpacing ==
  [][decided # Never /\ decided' # decided /\ up
       => decided' - decided >= Interval]_vars

(* No failed write, close() or interleaving leaves a caller waiting for    *)
(* ever: the chain goes on after a rejected link.                          *)
EveryCallSettles == \A t \in Task : call[t].st = "waiting" ~> call[t].st # "waiting"

(* The store implements the register its callers rely on: the file never   *)
(* goes back to an older state, and never holds one that memory never held. *)
Register == INSTANCE DurableRegister WITH durable <- disk
ImplementsRegister == Register!Spec
=============================================================================
