---------------------------- MODULE MCExtraction ----------------------------
(* Extraction for TLC: two channels in flight, the first of three archived *)
(* posts (two pages) with an attachment each, the second empty.            *)
EXTENDS Extraction

\* Three posts over pages of two: a cursor that stands in the middle of the
\* history, and a last page that may or may not announce itself.
MCChannel == 1..2
MCSize == <<3, 0>>
MCWithFiles == {1}

\* The same two pages when the last post of the second is older than Since.
MCSizeWithOlder == <<4, 0>>

\* Every way to lose or to refuse data.  A signal only adds a save to a
\* death, which the throttled saves of a page already offer: it is left to
\* the run of liveness, where the handler must let the session end.
MCAllFaults == {"kill", "power", "torn", "api", "io"}
=============================================================================
