------------------------------ MODULE Fragments ------------------------------
(***************************************************************************)
(* The cutting of an index into fragments for retrieval, and the store     *)
(* that holds them (packages/viewer/src/rag).                              *)
(*                                                                         *)
(* The rendered text of a fragment is the sequence of its lines, an author *)
(* and words each; its size counts one per participant of the heading and  *)
(* one per line and per word.                                              *)
(***************************************************************************)
EXTENDS ViewerIndex, SequencesExt

CONSTANTS Gap, MaxMessages, MaxChars

ASSUME ChunkAssumption ==
  /\ Gap \in Nat
  /\ MaxMessages \in Nat \ {0}
  /\ MaxChars \in Nat \ {0}

UserName(x, usr) == IF usr = 0 THEN NoOne ELSE x.users[usr].name

(* One line of a fragment.                                                 *)
Line(x, id) == [name |-> UserName(x, x.posts[id].usr), words |-> x.posts[id].words]

Text(x, group) == [i \in DOMAIN group |-> Line(x, group[i])]

(* tailleAvec: heading and lines of a group of messages.                   *)
Size(text) ==
  Cardinality({text[i].name : i \in DOMAIN text})
    + FoldLeft(LAMBDA total, line : total + 1 + Cardinality(line.words), 0, text)

Rendered(x, group, part) == [ids |-> group, part |-> part, text |-> Text(x, group)]

(* racines: the messages another one answers.                              *)
Roots(x) == {x.posts[id].root : id \in DOMAIN x.posts} \ {0}

ThreadOf(x, id) == IF x.posts[id].root = 0 THEN id ELSE x.posts[id].root

(* mutant: roots are only recognised by their own root.                    *)
AloneWithRoots(x, roots) == {id \in DOMAIN x.posts : x.posts[id].root = 0}

InThreads(x, roots) == {id \in DOMAIN x.posts : x.posts[id].root # 0 \/ id \in roots}
Alone(x, roots) == {id \in DOMAIN x.posts : x.posts[id].root = 0 /\ id \notin roots}

(* parcourir in the two orders, by a key then by row: row numbers are       *)
(* chronological.                                                          *)
Precede(key, S, i) == {j \in S : key[j] < key[i] \/ (key[j] = key[i] /\ j < i)}
Ordered(key, S) ==
  [n \in 1..Cardinality(S) |-> CHOOSE i \in S : Cardinality(Precede(key, S, i)) = n - 1]

ByThread(x, S) == Ordered([id \in S |-> ThreadOf(x, id)], S)
ByChannel(x, S) == Ordered([id \in S |-> x.posts[id].ch], S)

(* The two ruptures: another thread, or another channel, a silence, a full  *)
(* window.                                                                 *)
Breaks(x, rupture, previous, m, group) ==
  \/ rupture = "thread" /\ ThreadOf(x, m) # ThreadOf(x, previous)
  \/ /\ rupture = "window"
     /\ \/ x.posts[m].ch # x.posts[previous].ch
        \/ x.posts[m].at - x.posts[previous].at > Gap
        \/ Len(group) >= MaxMessages

(* decouper: what comes before m is closed by a rupture, or by m making it  *)
(* too large, in which case m opens one more part of the same whole.        *)
AfterMessage(x, rupture, s, m) ==
  IF s.group # <<>> /\ Breaks(x, rupture, s.previous, m, s.group)
  THEN [out |-> Append(s.out, Rendered(x, s.group, s.part)),
        group |-> <<m>>, part |-> 0, previous |-> m]
  ELSE IF s.group # <<>> /\ Size(Text(x, Append(s.group, m))) > MaxChars
  THEN [out |-> Append(s.out, Rendered(x, s.group, s.part)),
        group |-> <<m>>, part |-> s.part + 1, previous |-> m]
  ELSE [s EXCEPT !.group = Append(@, m), !.previous = m]

Cut(x, stream, rupture) ==
  LET after[n \in 0..Len(stream)] ==
        IF n = 0 THEN [out |-> <<>>, group |-> <<>>, part |-> 0, previous |-> 0]
        ELSE AfterMessage(x, rupture, after[n - 1], stream[n])
      end == after[Len(stream)]
  IN  IF end.group = <<>> THEN end.out
      ELSE Append(end.out, Rendered(x, end.group, end.part))

(* chunkThreads, chunkWindows.                                             *)
ThreadFragments(x, roots) == Cut(x, ByThread(x, InThreads(x, roots)), "thread")
WindowFragments(x, roots) == Cut(x, ByChannel(x, Alone(x, roots)), "window")

(* mutant: the numbering alone, as the first version of the tool.          *)
FingerprintOfNumbers(x) == [r \in DOMAIN x.posts |-> x.posts[r].pid]

UserNames(users) == [i \in DOMAIN users |-> users[i].name]

(* indexFingerprint, a hash without collisions.                            *)
Fingerprint(x) ==
  <<[r \in DOMAIN x.posts |-> x.posts[r].pid], UserNames(x.users), x.channels,
    [r \in DOMAIN x.posts |-> x.posts[r].words]>>

(* openChunkStore over a complete store file.                              *)
Opens(store, x) == store.print = Fingerprint(x)
=============================================================================
