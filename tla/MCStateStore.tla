---------------------------- MODULE MCStateStore ----------------------------
(* StateStore for TLC: two tasks that save, fail and close over each other, *)
(* a clock that crosses one throttling window, one process death.          *)
EXTENDS StateStore

\* Two callers are enough to queue behind, overtake and close around one
\* write; a third only repeats what the second does.
MCInterval == 2
MCMaxVersion == 4
MCMaxTime == 3
MCMaxCrashes == 1
=============================================================================
