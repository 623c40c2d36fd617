---------------------------- MODULE ChannelPosts ----------------------------
(***************************************************************************)
(* The data of packages/extractor/src/extract/channel-posts.ts and of      *)
(* archive/reverse-file.ts: what a page holds, what of it is written, and  *)
(* what the two post files of a channel look like.                         *)
(*                                                                         *)
(* The posts of channel c are numbered 1..Size[c] in the order the archive *)
(* sorts them (create_at, then id), so page.sort is the reading of an      *)
(* interval from its top, and a "before" cursor is a number: the page that *)
(* follows cursor k starts at k - 1.  Cursor Size[c] + 1 is the null       *)
(* cursor, before the most recent post.                                    *)
(***************************************************************************)
EXTENDS Integers, Sequences

CONSTANTS
  Channel,       \* channels retained by the plan, 1..n in plan order
  Size,          \* [Channel -> Nat]: posts of each channel on the instance
  Since,         \* oldest post asked for (sinceMillis); 1: no bound
  PerPage        \* posts per page

ASSUME ChannelAssumption ==
  /\ Channel \subseteq Nat
  /\ Size \in [Channel -> Nat]
  /\ Since \in Nat \ {0}
  /\ PerPage \in Nat \ {0}

Larger(a, b) == IF a >= b THEN a ELSE b

NoCursor(c) == Size[c] + 1

(* The instance answers with at most PerPage posts before the cursor, the  *)
(* most recent of them.  Whether the cursor itself comes back is           *)
(* undocumented: overlap 1 says it does.                                   *)
PageHigh(cursor, overlap) == cursor - 1 + overlap
PageLow(cursor, overlap) == Larger(1, cursor + overlap - PerPage)

Overlaps(c, cursor) == IF cursor = NoCursor(c) THEN {0} ELSE {0, 1}

(* What is new of that page: neither the cursor nor a post already seen.   *)
FreshHigh(cursor) == cursor - 1

(* The batch stops at the first post older than Since.                     *)
BatchLow(cursor, overlap) == Larger(PageLow(cursor, overlap), Since)

(* A run of posts as the .part file holds it, newest first, and as the     *)
(* final file holds it, oldest first.                                      *)
NewestFirst(high, low) == [i \in 1 .. (high - low + 1) |-> high - i + 1]
OldestFirst(low, high) == [i \in 1 .. (high - low + 1) |-> low + i - 1]

(* reverseLines: the lines of the source, last one first.                  *)
ReversedLines(lines) == [i \in 1 .. Len(lines) |-> lines[Len(lines) - i + 1]]

(* readPartTail: where the .part file says the pagination stands.          *)
TailCursor(lines) == lines[Len(lines)]
TailNewest(lines) == lines[1]

(* The whole history the archive is asked to hold.                         *)
History(c) == OldestFirst(Since, Size[c])

(* No hole and no repetition, in either direction.                         *)
IsDescendingRun(lines) == \A i \in DOMAIN lines : lines[i] = lines[1] - i + 1
IsAscendingRun(lines) == \A i \in DOMAIN lines : lines[i] = lines[1] + i - 1
=============================================================================
