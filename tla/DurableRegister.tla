-------------------------- MODULE DurableRegister --------------------------
(***************************************************************************)
(* What StateStore promises to the extraction, without its write chain,    *)
(* its throttle or its temporary files: a value in memory that only grows  *)
(* newer, a durable copy that never grows older, and save calls that       *)
(* return successfully only once the durable copy is at least as recent    *)
(* as the value was when the call was made.                                *)
(*                                                                         *)
(* A value is abstracted to its version, the number of changes that led to *)
(* it; version 0 stands for "no file".                                     *)
(***************************************************************************)
EXTENDS Naturals

CONSTANT Task        \* the asynchronous tasks that call the store

VARIABLES mem,       \* version held in memory
          durable,   \* version on disk
          call       \* call[t]: the last call of task t

vars == <<mem, durable, call>>

Call == [st : {"idle", "waiting", "ok", "failed"}, floor : Nat]

NoCalls == [t \in Task |-> [st |-> "idle", floor |-> 0]]

Init == mem = 1 /\ durable = 0 /\ call = NoCalls

(* A change of the value in memory.                                        *)
Update == mem' = mem + 1 /\ UNCHANGED <<durable, call>>

(* A save is asked for, possibly in the same step as the change it saves.  *)
Ask(t) ==
  /\ call[t].st # "waiting"
  /\ mem' \in {mem, mem + 1}
  /\ call' = [call EXCEPT ![t] = [st |-> "waiting", floor |-> mem']]
  /\ UNCHANGED durable

(* A save returns: the durable copy may move forward, never backward, and  *)
(* covers everything the memory held when the save was asked for.          *)
Succeed(t) ==
  /\ call[t].st = "waiting"
  /\ durable' >= durable
  /\ durable' <= mem
  /\ durable' >= call[t].floor
  /\ call' = [call EXCEPT ![t].st = "ok"]
  /\ UNCHANGED mem

Fail(t) ==
  /\ call[t].st = "waiting"
  /\ call' = [call EXCEPT ![t].st = "failed"]
  /\ UNCHANGED <<mem, durable>>

(* The process dies: memory and calls are gone, the durable copy stays.    *)
Crash == mem' = durable /\ call' = NoCalls /\ UNCHANGED durable

(* A new process starts from the durable copy, or from an empty state.     *)
Start ==
  /\ mem = durable
  /\ call = NoCalls
  /\ mem' = IF durable = 0 THEN 1 ELSE durable
  /\ UNCHANGED <<durable, call>>

Next ==
  \/ Update
  \/ \E t \in Task : Ask(t) \/ Succeed(t) \/ Fail(t)
  \/ Crash
  \/ Start

Spec == Init /\ [][Next]_vars
=============================================================================
