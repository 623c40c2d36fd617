--------------------------- MODULE Extraction_proofs ---------------------------
(* For any channels, posts, page size, faults and number of sessions: the   *)
(* invariants of Extraction and the properties of its steps.                *)
EXTENDS Extraction, SequenceTheorems, TLAPS

(*----------------- the operators of ChannelPosts, at any length --------------*)
\* Constants as numbers.
LEMMA ChannelNumbers ==
  ASSUME NEW c \in Channel
  PROVE  /\ Size[c] \in Nat /\ NoCursor(c) \in Nat /\ NoCursor(c) = Size[c] + 1
         /\ Since \in Nat /\ Since >= 1 /\ PerPage \in Nat /\ PerPage >= 1
  BY ChannelAssumption DEF NoCursor

\* A page read from its top is the interval it stands for, newest first.
LEMMA NewestFirstIsRun ==
  ASSUME NEW high \in Int, NEW low \in Int, low <= high + 1,
         NEW a \in Int, NEW b \in Int, a <= low, high <= b
  PROVE  /\ NewestFirst(high, low) \in Seq(a .. b)
         /\ Len(NewestFirst(high, low)) = high - low + 1
         /\ \A i \in 1 .. (high - low + 1) : NewestFirst(high, low)[i] = high - i + 1
  <1> DEFINE n == high - low + 1
             f == NewestFirst(high, low)
  <1>1. n \in Nat /\ f = [i \in 1 .. n |-> high - i + 1]
    BY DEF NewestFirst
  <1>2. \A i \in 1 .. n : f[i] = high - i + 1 /\ f[i] \in a .. b
    BY <1>1
  <1>3. f \in [1 .. n -> a .. b]
    BY <1>1, <1>2
  <1>4. f \in Seq(a .. b) /\ Len(f) = n
    BY <1>1, <1>3
  <1> QED BY <1>2, <1>4

\* A descending run ends as many posts below its first as it is long.
LEMMA DescendingLength ==
  ASSUME NEW a \in Int, NEW b \in Int, NEW P \in Seq(a .. b),
         IsDescendingRun(P), P # <<>>
  PROVE  /\ Len(P) >= 1 /\ TailNewest(P) \in a .. b /\ TailCursor(P) \in a .. b
         /\ Len(P) + TailCursor(P) = TailNewest(P) + 1
  <1>1. Len(P) \in Nat \ {0} /\ DOMAIN P = 1 .. Len(P)
    BY EmptySeq
  <1>2. P[1] \in a .. b /\ P[Len(P)] \in a .. b
    BY <1>1, ElementOfSeq
  <1>3. P[Len(P)] = P[1] - Len(P) + 1
    BY <1>1 DEF IsDescendingRun
  <1> QED BY <1>1, <1>2, <1>3 DEF TailNewest, TailCursor

\* What a run P becomes, Q, with the posts below k, down to low, appended.
Appended(P, Q, k, low, a, b) ==
  /\ Q \in Seq(a .. b) /\ IsDescendingRun(Q)
  /\ Len(Q) = Len(P) + (k - low)
  /\ P # <<>> => Q # <<>> /\ TailNewest(Q) = TailNewest(P)
  /\ low < k => Q # <<>> /\ TailCursor(Q) = low
  /\ P = <<>> /\ low < k => TailNewest(Q) = k - 1

\* A page appended below the last line keeps the file one run.
LEMMA AppendKeepsRun ==
  ASSUME NEW a \in Int, NEW b \in Int, NEW P \in Seq(a .. b), IsDescendingRun(P),
         NEW k \in Int, P # <<>> => TailCursor(P) = k,
         NEW low \in Int, a <= low, low <= k, k - 1 <= b
  PROVE  Appended(P, P \o NewestFirst(k - 1, low), k, low, a, b)
  <1> DEFINE R == NewestFirst(k - 1, low)
             S == P \o R
  <1>1. R \in Seq(a .. b) /\ Len(R) = k - low
        /\ \A i \in 1 .. (k - low) : R[i] = k - i
    <2>1. low <= (k - 1) + 1 /\ k - 1 \in Int /\ (k - 1) - low + 1 = k - low
      OBVIOUS
    <2>2. R \in Seq(a .. b) /\ Len(R) = (k - 1) - low + 1
          /\ \A i \in 1 .. ((k - 1) - low + 1) : R[i] = (k - 1) - i + 1
      BY <2>1, NewestFirstIsRun
    <2> QED BY <2>1, <2>2
  <1>2. Len(P) \in Nat /\ DOMAIN P = 1 .. Len(P) /\ (P # <<>> <=> Len(P) >= 1)
    BY EmptySeq
  <1>3. S \in Seq(a .. b) /\ Len(S) = Len(P) + (k - low)
    BY <1>1, <1>2, ConcatProperties
  <1>4. \A i \in 1 .. Len(P) : S[i] = P[i]
    BY <1>1, <1>2, ConcatProperties
  <1>5. \A i \in (Len(P) + 1) .. Len(S) : S[i] = R[i - Len(P)] /\ R[i - Len(P)] = k - (i - Len(P))
    BY <1>1, <1>2, <1>3, ConcatProperties
  <1> HIDE DEF R, S
  <1>6. P # <<>> => /\ \A i \in 1 .. Len(P) : P[i] = P[1] - i + 1
                    /\ P[1] \in Int /\ k = P[1] - Len(P) + 1
    <2> SUFFICES ASSUME P # <<>>
                 PROVE  /\ \A i \in 1 .. Len(P) : P[i] = P[1] - i + 1
                        /\ P[1] \in Int /\ k = P[1] - Len(P) + 1
      OBVIOUS
    <2>1. Len(P) + P[Len(P)] = P[1] + 1 /\ P[1] \in Int
      BY DescendingLength DEF TailNewest, TailCursor
    <2>2. \A i \in 1 .. Len(P) : P[i] = P[1] - i + 1
      BY <1>2 DEF IsDescendingRun
    <2>3. k = P[1] - Len(P) + 1
      BY <2>1, <1>2 DEF TailCursor
    <2> QED BY <2>1, <2>2, <2>3
  <1>7. IsDescendingRun(S)
    <2>1. DOMAIN S = 1 .. Len(S)
      BY <1>3, LenProperties
    <2>2. CASE P = <<>>
      <3>1. Len(P) = 0
        BY <2>2, <1>2
      <3>2. \A i \in 1 .. Len(S) : S[i] = k - i
        BY <3>1, <1>5
      <3>3. \A i \in 1 .. Len(S) : 1 \in 1 .. Len(S) /\ S[1] = k - 1
        BY <3>1, <3>2, <1>3
      <3> QED BY ONLY <2>1, <3>2, <3>3 DEF IsDescendingRun
    <2>3. CASE P # <<>>
      <3>1. S[1] = P[1]
        BY <2>3, <1>2, <1>4
      <3>2. ASSUME NEW i \in DOMAIN S PROVE S[i] = S[1] - i + 1
        <4>1. CASE i <= Len(P)
          BY <4>1, <3>1, <2>3, <2>1, <1>2, <1>4, <1>6
        <4>2. CASE i > Len(P)
          <5>1. i \in (Len(P) + 1) .. Len(S)
            BY <4>2, <2>1, <1>2, <1>3
          <5>2. S[i] = k - (i - Len(P))
            BY <5>1, <1>5
          <5> QED BY <5>1, <5>2, <3>1, <2>3, <1>2, <1>6
        <4> QED BY ONLY <4>1, <4>2, <2>1, <1>2, <1>3, i \in DOMAIN S
      <3> QED BY <3>2 DEF IsDescendingRun
    <2> QED BY <2>2, <2>3
  <1>8. P # <<>> => S # <<>> /\ S[1] = P[1]
    BY <1>2, <1>3, <1>4
  <1>9. low < k => S # <<>> /\ S[Len(S)] = low
    <2> SUFFICES ASSUME low < k PROVE S # <<>> /\ S[Len(S)] = low
      OBVIOUS
    <2>1. Len(S) \in (Len(P) + 1) .. Len(S)
      BY <1>2, <1>3
    <2>2. S[Len(S)] = k - (Len(S) - Len(P))
      BY <2>1, <1>5
    <2> QED BY <2>1, <2>2, <1>2, <1>3, EmptySeq
  <1>10. P = <<>> /\ low < k => S[1] = k - 1
    BY <1>2, <1>3, <1>5
  <1>11. TailNewest(S) = S[1] /\ TailNewest(P) = P[1] /\ TailCursor(S) = S[Len(S)]
    BY DEF TailNewest, TailCursor
  <1>12. Appended(P, S, k, low, a, b)
    BY <1>3, <1>7, <1>8, <1>9, <1>10, <1>11 DEF Appended
  <1> QED BY <1>12 DEF R, S

\* What a run P becomes, Q, when only its first n lines are left.
Prefix(P, Q, n, a, b) ==
  /\ Q \in Seq(a .. b) /\ IsDescendingRun(Q) /\ Len(Q) = n
  /\ P = <<>> => Q = <<>>
  /\ Q # <<>> => P # <<>> /\ TailNewest(Q) = TailNewest(P)

\* What is left when the end of a file is lost is a run with the same top.
LEMMA PrefixKeepsRun ==
  ASSUME NEW a \in Int, NEW b \in Int, NEW P \in Seq(a .. b), IsDescendingRun(P),
         NEW n \in 0 .. Len(P)
  PROVE  Prefix(P, SubSeq(P, 1, n), n, a, b)
  <1> DEFINE Q == SubSeq(P, 1, n)
  <1>1. Len(P) \in Nat /\ DOMAIN P = 1 .. Len(P) /\ (P = <<>> <=> Len(P) = 0)
    BY EmptySeq
  <1>2. Q \in Seq(a .. b) /\ Len(Q) = n /\ \A i \in 1 .. n : Q[i] = P[i]
    BY <1>1
  <1> HIDE DEF Q
  <1>3. DOMAIN Q = 1 .. n /\ (Q = <<>> <=> n = 0)
    BY <1>1, <1>2, EmptySeq
  <1>4. IsDescendingRun(Q)
    BY <1>1, <1>2, <1>3 DEF IsDescendingRun
  <1>5. Prefix(P, Q, n, a, b)
    BY <1>1, <1>2, <1>3, <1>4 DEF Prefix, TailNewest
  <1> QED BY <1>5 DEF Q

\* Lines in the final file's order.
Ascends(F, a, b) == F \in Seq(a .. b) /\ IsAscendingRun(F)

\* A run read from its end is a run in the other order, and so is the
\* beginning of it.
LEMMA ReversalIsRun ==
  ASSUME NEW a \in Int, NEW b \in Int, NEW P \in Seq(a .. b), IsDescendingRun(P)
  PROVE  Ascends(ReversedLines(P), a, b) /\ Len(ReversedLines(P)) = Len(P)
  <1> DEFINE G == ReversedLines(P)
  <1>1. Len(P) \in Nat /\ DOMAIN P = 1 .. Len(P)
    OBVIOUS
  <1>2. \A i \in 1 .. Len(P) : P[i] \in a .. b /\ P[i] = P[1] - i + 1
    BY <1>1, ElementOfSeq DEF IsDescendingRun
  <1>3. G = [i \in 1 .. Len(P) |-> P[Len(P) - i + 1]]
    BY DEF ReversedLines
  <1>4. \A i \in 1 .. Len(P) : G[i] \in a .. b /\ G[i] = P[1] - Len(P) + i
    <2> SUFFICES ASSUME NEW i \in 1 .. Len(P)
                 PROVE  G[i] \in a .. b /\ G[i] = P[1] - Len(P) + i
      OBVIOUS
    <2>1. Len(P) - i + 1 \in 1 .. Len(P) /\ 1 \in 1 .. Len(P)
      BY <1>1
    <2>2. G[i] = P[Len(P) - i + 1]
      BY <1>3
    <2> DEFINE j == Len(P) - i + 1
    <2>3. j \in 1 .. Len(P) /\ G[i] = P[j]
      BY <2>1, <2>2
    <2> HIDE DEF j, G
    <2>4. G[i] \in a .. b /\ G[i] = P[1] - j + 1
      BY <2>3, <1>2
    <2>5. P[1] \in Int
      BY <2>1, <1>2
    <2>6. \A x \in Int : x - j + 1 = x - Len(P) + i
      BY <1>1 DEF j
    <2> QED BY <2>4, <2>5, <2>6
  <1>5. G \in Seq(a .. b) /\ Len(G) = Len(P) /\ DOMAIN G = 1 .. Len(P)
    <2>1. G \in [1 .. Len(P) -> a .. b]
      BY <1>3, <1>4
    <2> QED BY <2>1, <1>1, <1>3
  <1> HIDE DEF G
  <1>6. IsAscendingRun(G)
    <2> SUFFICES ASSUME NEW i \in 1 .. Len(P) PROVE G[i] = G[1] + i - 1
      BY <1>5 DEF IsAscendingRun
    <2>1. 1 \in 1 .. Len(P) /\ P[1] \in Int
      BY <1>1, <1>2
    <2>2. G[1] = P[1] - Len(P) + 1 /\ G[i] = P[1] - Len(P) + i
      BY <2>1, <1>4
    <2> QED BY <2>1, <2>2, <1>1
  <1>7. Ascends(G, a, b) /\ Len(G) = Len(P)
    BY <1>5, <1>6 DEF Ascends
  <1> QED BY <1>7 DEF G

LEMMA PrefixAscends ==
  ASSUME NEW a \in Int, NEW b \in Int, NEW G, Ascends(G, a, b), NEW n \in 0 .. Len(G)
  PROVE  Ascends(SubSeq(G, 1, n), a, b)
  <1> DEFINE F == SubSeq(G, 1, n)
  <1>1. G \in Seq(a .. b) /\ Len(G) \in Nat /\ DOMAIN G = 1 .. Len(G)
    BY DEF Ascends
  <1>2. F \in Seq(a .. b) /\ Len(F) = n /\ \A i \in 1 .. n : F[i] = G[i]
    BY <1>1
  <1> HIDE DEF F
  <1>3. DOMAIN F = 1 .. n
    BY <1>2, LenProperties
  <1>4. IsAscendingRun(F)
    BY <1>1, <1>2, <1>3 DEF IsAscendingRun, Ascends
  <1>5. Ascends(F, a, b)
    BY <1>2, <1>4 DEF Ascends
  <1> QED BY <1>5 DEF F

\* An ascending run between two bounds that is as long as the interval is the
\* whole interval.
LEMMA FullRunIsHistory ==
  ASSUME NEW c \in Channel, NEW F \in Seq(Since .. Size[c]), IsAscendingRun(F),
         Len(F) = IF Since > Size[c] THEN 0 ELSE Size[c] + 1 - Since
  PROVE  F = History(c)
  <1>1. Size[c] \in Nat /\ Since \in Nat
    BY ChannelNumbers
  <1>2. Len(F) \in Nat /\ DOMAIN F = 1 .. Len(F) /\ F \in [1 .. Len(F) -> Since .. Size[c]]
    BY LenProperties
  <1>3. 1 .. Len(F) = 1 .. (Size[c] - Since + 1)
    BY <1>1
  <1>4. ASSUME NEW i \in 1 .. Len(F) PROVE F[i] = Since + i - 1
    <2>1. 1 \in 1 .. Len(F) /\ Len(F) \in 1 .. Len(F) /\ Len(F) = Size[c] + 1 - Since
      BY <1>1, <1>2
    <2>2. F[1] \in Since .. Size[c] /\ F[Len(F)] \in Since .. Size[c]
      BY <2>1, <1>2
    <2>3. F[Len(F)] = F[1] + Len(F) - 1 /\ F[i] = F[1] + i - 1
      BY <2>1, <1>2 DEF IsAscendingRun
    <2>4. F[1] \in Int /\ F[1] >= Since /\ F[Len(F)] <= Size[c] /\ Len(F) \in Int
      BY <2>2, <1>1, <1>2
    <2>5. F[1] = Since
      BY <2>1, <2>3, <2>4, <1>1
    <2> QED BY <2>3, <2>5
  <1>5. F = [i \in 1 .. (Size[c] - Since + 1) |-> Since + i - 1]
    BY <1>2, <1>3, <1>4
  <1> QED BY <1>5 DEF History, OldestFirst

(*-------------------------- the inductive invariant ----------------------*)
Opened == {"paging", "closing", "reversing", "removing", "finalized",
           "savingFinal", "describing", "savingDone"}
BeforeMark == {"paging", "closing", "reversing", "removing", "finalized"}
AfterMark == {"savingFinal", "describing", "savingDone"}

\* The number of posts the archive is asked to hold.
Full(c) == IF Since > Size[c] THEN 0 ELSE Size[c] + 1 - Since

AnyProgress == [status : Statuses, cursor : Nat, newest : Nat, written : Nat,
                finalized : BOOLEAN]
StateOf == [channel : [Channel -> AnyProgress], downloaded : SUBSET AllFiles,
            warned : SUBSET Warning]
LocalOf == [cursor : Nat, written : Nat, newest : Nat, from : Nat, pages : Nat,
            scratch : BOOLEAN, reversed : BOOLEAN, left : SUBSET AllFiles]

Workers == {"todo", "paging", "closing", "reversing", "removing", "finalized",
            "savingFinal", "describing", "savingDone", "savingInherited",
            "savingFailed", "failing", "done", "threw"}

\* Types of the whole state; the bounds of each channel's values are in Sound.
Typed ==
  /\ main \in {"down", "channels", "repair", "users", "publish", "closing",
               "manifest", "finished", "rejected"}
  /\ mem \in StateOf /\ disk \in StateOf
  /\ worker \in [Channel -> Workers]
  /\ local \in [Channel -> LocalOf]
  /\ fully \subseteq Channel /\ warned \subseteq Warning /\ leaving \in BOOLEAN
  /\ cited \subseteq AllFiles /\ unfetched \subseteq AllFiles
  /\ DOMAIN part = Channel /\ DOMAIN final = Channel
  /\ torn \in [Channel -> BOOLEAN] /\ synced \in [Channel -> Nat]
  /\ rows \in [AllFiles -> Nat] /\ rowsTorn \in BOOLEAN
  /\ DOMAIN manifest \subseteq Channel
  /\ sessions \in 0 .. MaxSessions /\ behind \subseteq Channel

\* What the state says of one channel, in memory or on disk.
SoundProgress(c, r) ==
  /\ r \in ProgressOf(c)
  /\ r.cursor >= Since \/ r.cursor = NoCursor(c)
  /\ ~r.finalized /\ r.written = 0 => r.cursor = NoCursor(c)
  /\ ~r.finalized => r.written + r.cursor <= NoCursor(c)
  /\ r.finalized /\ r.written = 0 => Since > Size[c]
  /\ r.status = "complete" => r.finalized

\* What its worker holds.
LocalTyped(c, l) ==
  /\ l \in LocalOf
  /\ l.cursor <= NoCursor(c) /\ l.from <= NoCursor(c)
  /\ l.written <= Size[c] /\ l.newest <= Size[c]

SoundLocal(c, w, l, fresh) ==
  w \in Opened =>
    /\ l.cursor >= 1 /\ l.cursor <= l.from
    /\ l.cursor >= Since \/ l.cursor = NoCursor(c)
    /\ l.written + l.cursor <= NoCursor(c)
    /\ l.written = 0 => l.cursor = NoCursor(c)
    /\ w # "paging" => l.cursor <= Since \/ (PerPage = 1 /\ l.cursor # NoCursor(c))
    /\ fresh => l.written + l.cursor = NoCursor(c)

\* Its two post files, P and F.
SoundFiles(c, w, l, P, F, s, fresh) ==
  /\ P \in Seq(Since .. Size[c]) /\ F \in Seq(Since .. Size[c])
  /\ IsDescendingRun(P) /\ IsAscendingRun(F)
  /\ s <= Len(P)
  /\ fresh /\ P # <<>> => TailNewest(P) = Size[c]
  /\ w = "paging" => IF P = <<>> THEN fresh => l.cursor = NoCursor(c)
                                 ELSE TailCursor(P) = l.cursor
  /\ w \in {"finalized"} \cup AfterMark => P = <<>>

\* Its marks: memory p against disk q, the worker and the files.
SoundMarks(w, p, q, l, P) ==
  /\ p.finalized /\ p.written > 0 => P = <<>> /\ w \notin BeforeMark
  /\ w \in AfterMark => p.finalized /\ p.written = l.written
  /\ w \in {"describing", "savingDone"} => q.finalized /\ q.written = p.written
  /\ w \in BeforeMark \cup {"savingFinal", "describing", "failing"}
       => p.status # "complete"
  /\ p.status = "complete" => q.finalized /\ q.written = p.written
  /\ w = "todo" => p = q
  /\ q.finalized => p.finalized
  /\ q.status = "complete" => p.status = "complete"
  /\ q.finalized /\ q.written > 0 => p.written = q.written

CountsAll(c, p, q, fresh) ==
  fresh /\ PerPage > 1 =>
    /\ p.finalized => p.written = Full(c)
    /\ q.finalized => q.written = Full(c)

Sound(c, w, p, q, l, P, F, s, fresh) ==
  /\ SoundProgress(c, p) /\ SoundProgress(c, q)
  /\ LocalTyped(c, l) /\ SoundLocal(c, w, l, fresh)
  /\ SoundFiles(c, w, l, P, F, s, fresh)
  /\ SoundMarks(w, p, q, l, P)
  /\ CountsAll(c, p, q, fresh)

\* Between two sessions, what the next one will load.
Kept(c) == IF main = "down" THEN disk.channel[c] ELSE mem.channel[c]

ChannelInv(c) ==
  Sound(c, worker[c], Kept(c), disk.channel[c], local[c], part[c], final[c],
        synced[c], c \notin behind)

\* A channel no session has found behind, and that waits for its turn.
TodoOf(c) ==
  main # "down" /\ worker[c] = "todo" /\ c \notin behind /\ ~mem.channel[c].finalized
    => Len(part[c]) >= mem.channel[c].written

\* An attachment is described once its posts are saved as finalized.
RowsOf(c) ==
  /\ \A f \in AllFiles : f[1] = c =>
       /\ rows[f] <= 1
       /\ rows[f] > 0 =>
            /\ disk.channel[c].finalized /\ disk.channel[c].written > 0
            /\ worker[c] \notin BeforeMark \cup {"savingFinal"}
  /\ worker[c] = "describing" =>
       \A f \in local[c].left : f \in FilesOf(c, SeenBy(c)) /\ rows[f] = 0

After == {"repair", "users", "publish", "closing", "manifest", "finished"}

\* What the main task knows of the channels, stage by stage.
MainInv ==
  /\ main = "down" =>
       /\ worker = [c \in Channel |-> "todo"]
       /\ mem = EmptyState
  /\ main \in After => \A c \in Channel : worker[c] = "done"
  /\ main = "repair" =>
        cited \subseteq UNION {FilesOf(c, Lines(final[c])) : c \in Complete}
  /\ main \in {"closing", "manifest"} =>
       \A c \in Complete : \/ Len(final[c]) = Progress(c).written
                           \/ <<"incomplete", c>> \in mem.warned
  /\ main = "finished" =>
       /\ DOMAIN manifest = Complete
       /\ \A c \in Complete : \/ Len(final[c]) = Progress(c).written
                              \/ "incomplete" \in manifest[c].warned

IInv == /\ Typed
        /\ \A c \in Channel : ChannelInv(c) /\ TodoOf(c) /\ RowsOf(c)
        /\ MainInv

(*----------------- one channel: what keeps its values sound ---------------*)
LEMMA ProgressIsTyped ==
  ASSUME NEW c \in Channel, NEW r \in ProgressOf(c)
  PROVE  /\ r \in AnyProgress
         /\ r.cursor \in 1 .. NoCursor(c) /\ r.newest \in 0 .. Size[c]
         /\ r.written \in 0 .. Size[c] /\ r.finalized \in BOOLEAN
  BY ChannelNumbers DEF ProgressOf, AnyProgress

LEMMA NewIsSound ==
  ASSUME NEW c \in Channel
  PROVE  SoundProgress(c, NewProgress(c))
  <1>1. NewProgress(c) \in ProgressOf(c)
    BY ChannelNumbers DEF NewProgress, ProgressOf, Statuses
  <1> QED BY <1>1, ChannelNumbers DEF NewProgress, SoundProgress

LEMMA NoLocalIsTyped ==
  ASSUME NEW c \in Channel
  PROVE  LocalTyped(c, NoLocal)
  BY ChannelNumbers DEF NoLocal, LocalTyped, LocalOf

\* Empty files are sound.
LEMMA EmptyIsRun ==
  ASSUME NEW c \in Channel
  PROVE  <<>> \in Seq(Since .. Size[c]) /\ IsDescendingRun(<<>>) /\ IsAscendingRun(<<>>)
         /\ Len(<<>>) = 0
  BY DEF IsDescendingRun, IsAscendingRun

\* A task that gives up, or that has nothing left to do but a save.
LEMMA Stops ==
  ASSUME NEW c \in Channel, NEW w, NEW p, NEW q, NEW l, NEW P, NEW F, NEW s,
         NEW fresh, Sound(c, w, p, q, l, P, F, s, fresh),
         NEW w1 \in {"savingInherited", "savingFailed", "failing", "done", "threw"},
         w1 = "failing" => p.status # "complete"
  PROVE  Sound(c, w1, p, q, l, P, F, s, fresh)
  <1>1. SoundLocal(c, w1, l, fresh)
    BY DEF SoundLocal, Opened
  <1>2. SoundFiles(c, w1, l, P, F, s, fresh)
    BY DEF Sound, SoundFiles, AfterMark
  <1>3. SoundMarks(w1, p, q, l, P)
    BY DEF Sound, SoundMarks, AfterMark, BeforeMark
  <1> QED BY <1>1, <1>2, <1>3 DEF Sound

\* A save of the state.
LEMMA Saves ==
  ASSUME NEW c \in Channel, NEW w, NEW p, NEW q, NEW l, NEW P, NEW F, NEW s,
         NEW fresh, Sound(c, w, p, q, l, P, F, s, fresh)
  PROVE  Sound(c, w, p, p, l, P, F, s, fresh)
  <1>1. SoundMarks(w, p, p, l, P)
    BY DEF Sound, SoundMarks, SoundProgress, AfterMark
  <1>2. CountsAll(c, p, p, fresh)
    BY DEF Sound, CountsAll
  <1> QED BY <1>1, <1>2 DEF Sound

\* A death: what the next session finds, when the .part file lost its end or
\* gained a page the state never counted, and the final file may be gone.
LEMMA Dies ==
  ASSUME NEW c \in Channel, NEW w, NEW p, NEW q, NEW l, NEW P, NEW F, NEW s,
         NEW fresh, Sound(c, w, p, q, l, P, F, s, fresh),
         NEW P1 \in Seq(Since .. Size[c]), IsDescendingRun(P1), s <= Len(P1),
         fresh /\ P1 # <<>> => TailNewest(P1) = Size[c],
         P = <<>> /\ q.finalized /\ q.written > 0 => P1 = <<>>,
         NEW F1 \in {F, <<>>}
  PROVE  Sound(c, "todo", q, q, NoLocal, P1, F1, s, fresh)
  <1>1. LocalTyped(c, NoLocal) /\ SoundLocal(c, "todo", NoLocal, fresh)
    BY NoLocalIsTyped DEF SoundLocal, Opened
  <1>2. SoundFiles(c, "todo", NoLocal, P1, F1, s, fresh)
    <2>1. F1 \in Seq(Since .. Size[c]) /\ IsAscendingRun(F1)
      BY EmptyIsRun DEF Sound, SoundFiles
    <2> QED BY <2>1 DEF SoundFiles, AfterMark
  <1>3. SoundMarks("todo", q, q, NoLocal, P1)
    <2>1. q.finalized /\ q.written > 0 => P1 = <<>>
      BY DEF Sound, SoundMarks
    <2> QED BY <2>1 DEF Sound, SoundMarks, SoundProgress, BeforeMark, AfterMark
  <1>4. CountsAll(c, q, q, fresh)
    BY DEF Sound, CountsAll
  <1> QED BY <1>1, <1>2, <1>3, <1>4 DEF Sound

\* A session that finds a channel behind only forgets that it was fresh.
LEMMA LosesFreshness ==
  ASSUME NEW c \in Channel, NEW w, NEW p, NEW q, NEW l, NEW P, NEW F, NEW s,
         NEW fresh, Sound(c, w, p, q, l, P, F, s, fresh),
         NEW fresh1, fresh1 => fresh
  PROVE  Sound(c, w, p, q, l, P, F, s, fresh1)
  <1>1. SoundLocal(c, w, l, fresh1)
    BY DEF Sound, SoundLocal
  <1>2. SoundFiles(c, w, l, P, F, s, fresh1)
    BY DEF Sound, SoundFiles
  <1>3. CountsAll(c, p, q, fresh1)
    BY DEF Sound, CountsAll
  <1> QED BY <1>1, <1>2, <1>3 DEF Sound

\* A worker takes its channel: the .part file, if it can be read, over the state.
LEMMA Opens ==
  ASSUME NEW c \in Channel, NEW p, NEW q, NEW l, NEW P, NEW F, NEW s, NEW fresh,
         Sound(c, "todo", p, q, l, P, F, s, fresh),
         p.status # "complete", ~(p.finalized /\ p.written > 0),
         fresh /\ ~p.finalized => Len(P) >= p.written,
         NEW unreadable \in BOOLEAN, NEW tail \in BOOLEAN,
         tail <=> P # <<>> /\ ~unreadable,
         NEW l1 \in LocalOf, l1.from = l1.cursor,
         l1.cursor = IF tail THEN TailCursor(P) ELSE p.cursor,
         l1.written = IF tail THEN Len(P) ELSE p.written,
         l1.newest = IF tail /\ p.newest = 0 THEN TailNewest(P) ELSE p.newest
  PROVE  Sound(c, IF unreadable THEN "failing" ELSE "paging", p, q, l1, P, F, s, fresh)
  <1> DEFINE w1 == IF unreadable THEN "failing" ELSE "paging"
  <1>1. /\ Size[c] \in Nat /\ NoCursor(c) = Size[c] + 1 /\ Since \in Nat /\ Since >= 1
        /\ NoCursor(c) \in Nat
    BY ChannelNumbers
  <1>2. SoundProgress(c, p) /\ SoundFiles(c, "todo", l, P, F, s, fresh)
        /\ SoundMarks("todo", p, q, l, P)
    BY DEF Sound
  <1>3. /\ p.cursor \in 1 .. NoCursor(c) /\ p.newest \in 0 .. Size[c]
        /\ p.written \in 0 .. Size[c] /\ p.finalized \in BOOLEAN
    BY <1>2, ProgressIsTyped DEF SoundProgress
  <1>4. /\ p.written + p.cursor <= NoCursor(c)
        /\ p.written = 0 => p.cursor = NoCursor(c)
        /\ p.cursor >= Since \/ p.cursor = NoCursor(c)
    BY <1>1, <1>2, <1>3 DEF SoundProgress
  <1>5. P # <<>> => /\ Len(P) >= 1 /\ TailNewest(P) \in Since .. Size[c] /\ TailCursor(P) \in Since .. Size[c]
                    /\ Len(P) + TailCursor(P) = TailNewest(P) + 1
    BY <1>1, <1>2, DescendingLength DEF SoundFiles
  <1>6. Len(P) \in Nat /\ (P = <<>> => Len(P) = 0)
    BY <1>2, LenProperties, EmptyIsRun DEF SoundFiles
  <1>7. /\ l1.cursor \in 1 .. NoCursor(c) /\ l1.written \in 0 .. Size[c]
        /\ l1.newest \in 0 .. Size[c] /\ l1.from = l1.cursor
        /\ l1.cursor >= Since \/ l1.cursor = NoCursor(c)
        /\ l1.written + l1.cursor <= NoCursor(c)
        /\ l1.written = 0 => l1.cursor = NoCursor(c)
    <2>1. CASE tail
      BY <2>1, <1>1, <1>3, <1>5, <1>6
    <2>2. CASE ~tail
      BY <2>2, <1>1, <1>3, <1>4
    <2> QED BY <2>1, <2>2
  <1>8. LocalTyped(c, l1)
    BY <1>7, <1>1 DEF LocalTyped
  <1>9. ASSUME w1 = "paging", fresh
        PROVE  l1.written + l1.cursor = NoCursor(c) /\ (P = <<>> => l1.cursor = NoCursor(c))
    <2>1. CASE tail
      <3>1. P # <<>> /\ TailNewest(P) = Size[c]
        BY <2>1, <1>2, <1>9 DEF SoundFiles
      <3> QED BY <2>1, <3>1, <1>1, <1>5, <1>6
    <2>2. CASE ~tail
      <3>1. P = <<>> /\ Len(P) = 0
        BY <2>2, <1>6, <1>9
      <3>2. p.written = 0
        BY <3>1, <1>3, <1>9
      <3> QED BY <2>2, <3>2, <1>1, <1>4
    <2> QED BY <2>1, <2>2
  <1>10. w1 \in {"failing", "paging"}
    OBVIOUS
  <1>11. w1 = "paging" => (P # <<>> => l1.cursor = TailCursor(P))
    OBVIOUS
  <1> HIDE DEF w1
  <1>12. SoundLocal(c, w1, l1, fresh)
    BY <1>1, <1>7, <1>9, <1>10 DEF SoundLocal, Opened
  <1>13. SoundFiles(c, w1, l1, P, F, s, fresh)
    BY <1>2, <1>9, <1>10, <1>11 DEF SoundFiles, AfterMark
  <1>14. SoundMarks(w1, p, q, l1, P)
    <2>1. ~(p.finalized /\ p.written > 0)
      OBVIOUS
    <2> QED BY <1>2, <1>10, <2>1 DEF SoundMarks, AfterMark, BeforeMark
  <1>15. Sound(c, w1, p, q, l1, P, F, s, fresh)
    BY <1>8, <1>12, <1>13, <1>14 DEF Sound
  <1> QED BY <1>15 DEF w1

\* What the loop stops on: nothing left that is asked for.
LEMMA StopsBelow ==
  ASSUME NEW c \in Channel, NEW k \in 1 .. NoCursor(c), NEW overlap \in Overlaps(c, k),
         \/ PageHigh(k, overlap) < 1
         \/ /\ PageLow(k, overlap) <= FreshHigh(k)
            /\ BatchLow(k, overlap) > FreshHigh(k)
         \/ /\ PageHigh(k, overlap) >= 1
            /\ PageLow(k, overlap) > FreshHigh(k)
  PROVE  k <= Since \/ (PerPage = 1 /\ k # NoCursor(c))
  <1>1. overlap \in {0, 1} /\ (k = NoCursor(c) => overlap = 0)
    BY DEF Overlaps
  <1> QED BY <1>1, ChannelNumbers
          DEF PageHigh, PageLow, FreshHigh, BatchLow, Larger

LEMMA Ends ==
  ASSUME NEW c \in Channel, NEW p, NEW q, NEW l, NEW P, NEW F, NEW s, NEW fresh,
         Sound(c, "paging", p, q, l, P, F, s, fresh),
         l.cursor <= Since \/ (PerPage = 1 /\ l.cursor # NoCursor(c))
  PROVE  Sound(c, "closing", p, q, l, P, F, s, fresh)
  <1>1. SoundLocal(c, "closing", l, fresh)
    BY DEF Sound, SoundLocal, Opened
  <1>2. SoundFiles(c, "closing", l, P, F, s, fresh)
    BY DEF Sound, SoundFiles, AfterMark
  <1>3. SoundMarks("closing", p, q, l, P)
    BY DEF Sound, SoundMarks, AfterMark, BeforeMark
  <1> QED BY <1>1, <1>2, <1>3 DEF Sound

\* The posts of a page that are written: from the one before the cursor down to
\* the end of the page, or of what is asked for.
LEMMA PageBounds ==
  ASSUME NEW c \in Channel, NEW k \in 1 .. NoCursor(c), NEW overlap \in Overlaps(c, k),
         BatchLow(k, overlap) <= FreshHigh(k)
  PROVE  /\ FreshHigh(k) = k - 1 /\ BatchLow(k, overlap) \in Nat
         /\ BatchLow(k, overlap) >= Since /\ BatchLow(k, overlap) <= k - 1
         /\ PageLow(k, overlap) < Since \/ PageLow(k, overlap) = 1
              => BatchLow(k, overlap) = Since
  <1>1. overlap \in {0, 1}
    BY DEF Overlaps
  <1> QED BY <1>1, ChannelNumbers DEF FreshHigh, BatchLow, PageLow, Larger

\* The same, with what was written before.
LEMMA PageCounts ==
  ASSUME NEW c \in Channel, NEW k \in 1 .. NoCursor(c), NEW low \in Nat, low >= Since,
         low <= k - 1, NEW n \in 0 .. Size[c], NEW m \in 0 .. Size[c],
         n + k <= NoCursor(c), NEW written, written = n + ((k - 1) - low + 1)
  PROVE  /\ Since <= Size[c] /\ low \in 1 .. NoCursor(c) /\ low < k /\ k - 1 <= Size[c]
         /\ written \in 1 .. Size[c] /\ written + low = n + k /\ written + low <= NoCursor(c)
         /\ n + k = NoCursor(c) => written + low = NoCursor(c)
         /\ Larger(m, k - 1) \in 0 .. Size[c]
  BY ChannelNumbers DEF Larger

\* A page that brings something: the worker, the state and the file after it.
PageTurned(k, overlap, high, low, last, p, p1, l, l1, P, P1, s, s1) ==
  /\ k = l.cursor /\ high = FreshHigh(k) /\ low = BatchLow(k, overlap) /\ low <= high
  /\ l1 \in LocalOf /\ l1.cursor = low /\ l1.from = l.from
  /\ l1.written = l.written + (high - low + 1) /\ l1.newest = Larger(l.newest, high)
  /\ p1 \in AnyProgress /\ p1.status = "in_progress" /\ p1.cursor = low
  /\ p1.newest = l1.newest /\ p1.written = l1.written /\ p1.finalized = p.finalized
  /\ P1 = P \o NewestFirst(high, low) /\ s1 \in {s, Len(P1)}
  /\ last \in BOOLEAN
  /\ last => PageLow(k, overlap) < Since \/ PageLow(k, overlap) = 1

LEMMA Pages ==
  ASSUME NEW c \in Channel, NEW p, NEW q, NEW l, NEW P, NEW F, NEW s, NEW fresh,
         Sound(c, "paging", p, q, l, P, F, s, fresh), s \in Nat,
         NEW k \in Int, NEW overlap \in Overlaps(c, k), NEW high \in Int, NEW low \in Int,
         NEW l1, NEW p1, NEW P1, NEW s1, NEW last,
         PageTurned(k, overlap, high, low, last, p, p1, l, l1, P, P1, s, s1)
  PROVE  Sound(c, IF last THEN "closing" ELSE "paging", p1, q, l1, P1, F, s1, fresh)
  <1> USE DEF PageTurned
  <1> DEFINE w1 == IF last THEN "closing" ELSE "paging"
  <1>1. /\ Size[c] \in Nat /\ NoCursor(c) = Size[c] + 1 /\ Since \in Nat /\ Since >= 1
        /\ NoCursor(c) \in Nat /\ PerPage \in Nat /\ PerPage >= 1
    BY ChannelNumbers
  <1>2. /\ SoundProgress(c, p) /\ SoundProgress(c, q) /\ LocalTyped(c, l)
        /\ SoundLocal(c, "paging", l, fresh) /\ SoundFiles(c, "paging", l, P, F, s, fresh)
        /\ SoundMarks("paging", p, q, l, P) /\ CountsAll(c, p, q, fresh)
    BY DEF Sound
  <1>3. /\ k \in 1 .. NoCursor(c) /\ l.written \in 0 .. Size[c] /\ l.newest \in 0 .. Size[c]
        /\ l.from \in 0 .. NoCursor(c) /\ k <= l.from /\ l.written + k <= NoCursor(c)
        /\ k \in Int
        /\ fresh => l.written + k = NoCursor(c)
    <2>1. l.cursor \in Nat /\ l.from \in Nat /\ l.written \in Nat /\ l.newest \in Nat
      BY <1>2 DEF LocalTyped, LocalOf
    <2> QED BY <2>1, <1>1, <1>2 DEF LocalTyped, SoundLocal, Opened
  <1>4. /\ high = k - 1 /\ low \in Nat /\ low >= Since /\ low <= k - 1
        /\ last => low = Since
    BY <1>1, <1>3, PageBounds
  <1>6. /\ Since <= Size[c] /\ low \in 1 .. NoCursor(c) /\ low < k /\ k - 1 <= Size[c]
        /\ l1.written \in 1 .. Size[c] /\ l1.written + low <= NoCursor(c)
        /\ fresh => l1.written + low = NoCursor(c)
        /\ l1.newest \in 0 .. Size[c] /\ l1.cursor = low
    <2>1. high = k - 1 /\ l1.written = l.written + ((k - 1) - low + 1)
          /\ l1.newest = Larger(l.newest, k - 1)
      BY <1>4
    <2>2. k \in 1 .. NoCursor(c) /\ low \in Nat /\ low >= Since /\ low <= k - 1
          /\ l.written \in 0 .. Size[c] /\ l.newest \in 0 .. Size[c]
          /\ l.written + k <= NoCursor(c)
      BY <1>3, <1>4
    <2>3. /\ Since <= Size[c] /\ low \in 1 .. NoCursor(c) /\ low < k /\ k - 1 <= Size[c]
          /\ l1.written \in 1 .. Size[c] /\ l1.written + low <= NoCursor(c)
          /\ l.written + k = NoCursor(c) => l1.written + low = NoCursor(c)
          /\ Larger(l.newest, k - 1) \in 0 .. Size[c]
      BY ONLY <2>1, <2>2, c \in Channel, PageCounts, SMTT(30)
    <2> QED BY <2>1, <2>3, <1>3
  <1>5. ~p.finalized /\ ~q.finalized /\ p.status # "complete"
    <2>1. Since <= Size[c]
      BY <1>6
    <2>2. ASSUME p.finalized PROVE FALSE
      <3>1. ~(p.written > 0) /\ p.written \in 0 .. Size[c]
        BY <2>2, <1>2, ProgressIsTyped DEF SoundMarks, BeforeMark, SoundProgress
      <3>2. Since > Size[c]
        BY <2>2, <3>1, <1>1, <1>2 DEF SoundProgress
      <3> QED BY <2>1, <3>2, <1>1
    <2> QED BY <2>2, <1>2 DEF SoundMarks, BeforeMark
  <1>7. SoundProgress(c, p1)
    <2>1. p1 \in ProgressOf(c)
      <3>1. p1.written \in 0 .. Size[c] /\ p1.newest \in 0 .. Size[c] /\ p1.cursor \in 1 .. NoCursor(c)
        BY <1>1, <1>6
      <3> QED BY <3>1 DEF AnyProgress, ProgressOf
    <2>2. p1.cursor >= Since /\ p1.written # 0 /\ p1.written + p1.cursor <= NoCursor(c)
          /\ ~p1.finalized /\ p1.status # "complete"
      BY <1>1, <1>4, <1>5, <1>6
    <2> QED BY <2>1, <2>2 DEF SoundProgress
  <1>8. LocalTyped(c, l1)
    BY <1>1, <1>3, <1>4, <1>6 DEF LocalTyped
  <1>9. w1 \in {"closing", "paging"} /\ (w1 = "closing" => low = Since)
    BY <1>4
  <1>10. /\ P1 \in Seq(Since .. Size[c]) /\ IsDescendingRun(P1) /\ Len(P1) >= Len(P)
         /\ P1 # <<>> /\ TailCursor(P1) = low
         /\ IF P = <<>> THEN TailNewest(P1) = high ELSE TailNewest(P1) = TailNewest(P)
    <2>1. P \in Seq(Since .. Size[c]) /\ IsDescendingRun(P) /\ (P # <<>> => TailCursor(P) = k)
          /\ Len(P) \in Nat
      BY <1>2, LenProperties DEF SoundFiles
    <2>2. Since \in Int /\ Size[c] \in Int /\ Since <= low /\ low <= k /\ k - 1 <= Size[c]
          /\ low < k
      <3>1. low < k /\ k - 1 <= Size[c] /\ Since <= low
        BY <1>4, <1>6
      <3>2. low <= k
        BY <3>1
      <3> QED BY <3>1, <3>2, <1>1
    <2>3. P1 = P \o NewestFirst(k - 1, low)
      BY <1>4
    <2> HIDE DEF w1
    <2>4. Appended(P, P \o NewestFirst(k - 1, low), k, low, Since, Size[c])
      BY <2>1, <2>2, AppendKeepsRun
    <2>5. /\ P1 \in Seq(Since .. Size[c]) /\ IsDescendingRun(P1)
          /\ Len(P1) = Len(P) + (k - low)
          /\ P # <<>> => TailNewest(P1) = TailNewest(P)
          /\ P1 # <<>> /\ TailCursor(P1) = low
          /\ P = <<>> => TailNewest(P1) = k - 1
      BY ONLY <2>2, <2>3, <2>4 DEF Appended
    <2>6. Len(P1) >= Len(P)
      BY ONLY <2>1, <2>2, <2>5, k \in Int, low \in Int
    <2> QED BY <2>5, <2>6, <1>4
  <1>11. s1 <= Len(P1)
    <2>1. s <= Len(P) /\ Len(P) \in Nat /\ Len(P1) \in Nat
      BY <1>2, <1>10, LenProperties DEF SoundFiles
    <2> QED BY <2>1, <1>10
  <1>12. fresh => TailNewest(P1) = Size[c]
    <2>1. CASE P = <<>>
      BY <2>1, <1>1, <1>2, <1>4, <1>10 DEF SoundFiles
    <2>2. CASE P # <<>>
      BY <2>2, <1>2, <1>10 DEF SoundFiles
    <2> QED BY <2>1, <2>2
  <1> HIDE DEF w1
  <1>13. SoundLocal(c, w1, l1, fresh)
    <2>1. l1.cursor >= 1 /\ l1.cursor <= l1.from /\ l1.cursor >= Since
      <3>1. low <= k /\ k <= l.from /\ low \in Int /\ k \in Int /\ l.from \in Int
        <4>1. low < k /\ k <= l.from /\ l.from \in 0 .. NoCursor(c) /\ NoCursor(c) \in Nat
          BY <1>1, <1>3, <1>6
        <4> QED BY ONLY <4>1, low \in Int, k \in Int
      <3>2. low <= l.from
        BY <3>1
      <3> QED BY <3>2, <1>1, <1>4, <1>6
    <2>2. l1.written + l1.cursor <= NoCursor(c) /\ l1.written # 0
          /\ (fresh => l1.written + l1.cursor = NoCursor(c))
      BY <1>1, <1>6
    <2>3. w1 = "closing" => l1.cursor <= Since
      BY <1>1, <1>6, <1>9
    <2> QED BY <2>1, <2>2, <2>3, <1>9 DEF SoundLocal
  <1>14. SoundFiles(c, w1, l1, P1, F, s1, fresh)
    <2>1. F \in Seq(Since .. Size[c]) /\ IsAscendingRun(F)
      BY <1>2 DEF SoundFiles
    <2> QED BY <2>1, <1>6, <1>9, <1>10, <1>11, <1>12 DEF SoundFiles, AfterMark
  <1>15. SoundMarks(w1, p1, q, l1, P1)
    <2>1. q.status # "complete"
      BY <1>2, <1>5 DEF SoundMarks
    <2> QED BY <2>1, <1>5, <1>9 DEF SoundMarks, AfterMark, BeforeMark
  <1>16. CountsAll(c, p1, q, fresh)
    BY <1>5 DEF CountsAll
  <1>17. Sound(c, w1, p1, q, l1, P1, F, s1, fresh)
    BY <1>2, <1>7, <1>8, <1>13, <1>14, <1>15, <1>16 DEF Sound
  <1> QED BY <1>17 DEF w1

\* A write that failed leaves the beginning of the file.
LEMMA LosesTail ==
  ASSUME NEW c \in Channel, NEW w, NEW p, NEW q, NEW l, NEW P, NEW F, NEW s, NEW fresh,
         Sound(c, w, p, q, l, P, F, s, fresh), w \in BeforeMark, s \in Nat,
         NEW n \in s .. Len(P)
  PROVE  Sound(c, "failing", p, q, l, SubSeq(P, 1, n), F, s, fresh)
  <1> DEFINE P1 == SubSeq(P, 1, n)
  <1>1. SoundFiles(c, w, l, P, F, s, fresh) /\ SoundMarks(w, p, q, l, P)
    BY DEF Sound
  <1>2. P \in Seq(Since .. Size[c]) /\ IsDescendingRun(P) /\ Len(P) \in Nat
        /\ n \in 0 .. Len(P) /\ Since \in Int /\ Size[c] \in Int /\ s <= n
    BY <1>1, LenProperties, ChannelNumbers DEF SoundFiles
  <1>3. Prefix(P, P1, n, Since, Size[c])
    BY <1>2, PrefixKeepsRun
  <1> HIDE DEF P1
  <1>4. SoundFiles(c, "failing", l, P1, F, s, fresh)
    BY <1>1, <1>2, <1>3 DEF Prefix, SoundFiles, AfterMark
  <1>5. SoundMarks("failing", p, q, l, P1)
    BY <1>1 DEF SoundMarks, BeforeMark, AfterMark
  <1>6. SoundLocal(c, "failing", l, fresh)
    BY DEF SoundLocal, Opened
  <1>7. Sound(c, "failing", p, q, l, P1, F, s, fresh)
    BY <1>4, <1>5, <1>6 DEF Sound
  <1> QED BY <1>7 DEF P1

\* What only the flags and the list of attachments of a worker change.
LEMMA SameCounts ==
  ASSUME NEW c \in Channel, NEW w, NEW p, NEW q, NEW l, NEW P, NEW F, NEW s, NEW fresh,
         Sound(c, w, p, q, l, P, F, s, fresh), NEW l1 \in LocalOf,
         l1.cursor = l.cursor, l1.from = l.from, l1.written = l.written,
         l1.newest = l.newest
  PROVE  Sound(c, w, p, q, l1, P, F, s, fresh)
  <1>1. LocalTyped(c, l1)
    BY DEF Sound, LocalTyped
  <1>2. SoundLocal(c, w, l1, fresh)
    BY DEF Sound, SoundLocal
  <1>3. SoundFiles(c, w, l1, P, F, s, fresh)
    BY DEF Sound, SoundFiles
  <1>4. SoundMarks(w, p, q, l1, P)
    BY DEF Sound, SoundMarks
  <1> QED BY <1>1, <1>2, <1>3, <1>4 DEF Sound

\* The final file is written, or removed, while the state says nothing of it.
LEMMA Reverses ==
  ASSUME NEW c \in Channel, NEW w \in {"closing", "reversing"}, NEW p, NEW q, NEW l,
         NEW P, NEW F, NEW s, NEW fresh, Sound(c, w, p, q, l, P, F, s, fresh),
         NEW F1 \in Seq(Since .. Size[c]), IsAscendingRun(F1),
         NEW w1 \in {"reversing", "removing", "failing"}
  PROVE  Sound(c, w1, p, q, l, P, F1, s, fresh)
  <1>1. SoundLocal(c, w1, l, fresh)
    BY DEF Sound, SoundLocal, Opened
  <1>2. SoundFiles(c, w1, l, P, F1, s, fresh)
    BY DEF Sound, SoundFiles, AfterMark
  <1>3. SoundMarks(w1, p, q, l, P)
    BY DEF Sound, SoundMarks, AfterMark, BeforeMark
  <1> QED BY <1>1, <1>2, <1>3 DEF Sound

\* The .part file is removed, or was not there.
LEMMA Removes ==
  ASSUME NEW c \in Channel, NEW w \in {"closing", "removing"}, NEW p, NEW q, NEW l,
         NEW P, NEW F, NEW s, NEW fresh, Sound(c, w, p, q, l, P, F, s, fresh),
         NEW s1, s1 <= 0
  PROVE  Sound(c, "finalized", p, q, l, <<>>, F, s1, fresh)
  <1>1. SoundLocal(c, "finalized", l, fresh)
    BY DEF Sound, SoundLocal, Opened
  <1>2. SoundFiles(c, "finalized", l, <<>>, F, s1, fresh)
    BY EmptyIsRun DEF Sound, SoundFiles
  <1>3. SoundMarks("finalized", p, q, l, <<>>)
    BY DEF Sound, SoundMarks, AfterMark, BeforeMark
  <1> QED BY <1>1, <1>2, <1>3 DEF Sound

\* The channel is marked finalized, with what was written of it.
LEMMA Finalizes ==
  ASSUME NEW c \in Channel, NEW p, NEW q, NEW l, NEW P, NEW F, NEW s, NEW fresh,
         Sound(c, "finalized", p, q, l, P, F, s, fresh),
         NEW p1 \in AnyProgress, p1.status = p.status, p1.cursor = p.cursor,
         p1.newest = p.newest, p1.finalized = TRUE, p1.written = l.written
  PROVE  Sound(c, "savingFinal", p1, q, l, P, F, s, fresh)
  <1>1. /\ Size[c] \in Nat /\ NoCursor(c) = Size[c] + 1 /\ Since \in Nat /\ Since >= 1
        /\ NoCursor(c) \in Nat
    BY ChannelNumbers
  <1>2. /\ SoundProgress(c, p) /\ SoundProgress(c, q) /\ LocalTyped(c, l)
        /\ SoundLocal(c, "finalized", l, fresh)
        /\ SoundFiles(c, "finalized", l, P, F, s, fresh)
        /\ SoundMarks("finalized", p, q, l, P) /\ CountsAll(c, p, q, fresh)
    BY DEF Sound
  <1>3. /\ l.cursor \in 1 .. NoCursor(c) /\ l.written \in 0 .. Size[c]
        /\ l.written = 0 => l.cursor = NoCursor(c)
        /\ l.cursor >= Since \/ l.cursor = NoCursor(c)
        /\ l.cursor <= Since \/ (PerPage = 1 /\ l.cursor # NoCursor(c))
        /\ fresh => l.written + l.cursor = NoCursor(c)
    <2>1. l.cursor \in Nat /\ l.written \in Nat
      BY <1>2 DEF LocalTyped, LocalOf
    <2> QED BY <2>1, <1>1, <1>2 DEF LocalTyped, SoundLocal, Opened
  <1>4. SoundProgress(c, p1)
    <2>1. p1 \in ProgressOf(c)
      <3>1. p1.cursor \in 1 .. NoCursor(c) /\ p1.newest \in 0 .. Size[c]
            /\ p1.written \in 0 .. Size[c]
        BY <1>2, <1>3, ProgressIsTyped DEF SoundProgress
      <3> QED BY <3>1 DEF AnyProgress, ProgressOf
    <2>2. p1.written = 0 => Since > Size[c]
      BY <1>1, <1>3
    <2> QED BY <2>1, <2>2, <1>2 DEF SoundProgress
  <1>5. SoundLocal(c, "savingFinal", l, fresh)
    BY <1>2 DEF SoundLocal, Opened
  <1>6. SoundFiles(c, "savingFinal", l, P, F, s, fresh)
    BY <1>2 DEF SoundFiles, AfterMark
  <1>7. SoundMarks("savingFinal", p1, q, l, P)
    <2>1. P = <<>> /\ p.status # "complete" /\ q.status # "complete"
      BY <1>2 DEF SoundFiles, SoundMarks, BeforeMark
    <2>2. ~(q.finalized /\ q.written > 0)
      BY <1>2 DEF SoundMarks, BeforeMark
    <2> QED BY <2>1, <2>2 DEF SoundMarks, BeforeMark, AfterMark
  <1>8. CountsAll(c, p1, q, fresh)
    <2>1. ASSUME fresh, PerPage > 1 PROVE l.written = Full(c)
      <3>1. l.cursor <= Since
        BY <2>1, <1>3
      <3> QED BY <3>1, <2>1, <1>1, <1>3 DEF Full
    <2> QED BY <2>1, <1>2 DEF CountsAll
  <1> QED BY <1>2, <1>4, <1>5, <1>6, <1>7, <1>8 DEF Sound

\* Once that is saved, the attachments are described.
LEMMA Describes ==
  ASSUME NEW c \in Channel, NEW p, NEW l, NEW P, NEW F, NEW s, NEW fresh,
         Sound(c, "savingFinal", p, p, l, P, F, s, fresh)
  PROVE  Sound(c, "describing", p, p, l, P, F, s, fresh)
  <1>1. SoundLocal(c, "describing", l, fresh)
    BY DEF Sound, SoundLocal, Opened
  <1>2. SoundFiles(c, "describing", l, P, F, s, fresh)
    BY DEF Sound, SoundFiles, AfterMark
  <1>3. SoundMarks("describing", p, p, l, P)
    BY DEF Sound, SoundMarks, AfterMark, BeforeMark
  <1> QED BY <1>1, <1>2, <1>3 DEF Sound

\* The mark "complete", on posts that are saved as finalized.
LEMMA Completes ==
  ASSUME NEW c \in Channel, NEW w, NEW p, NEW q, NEW l, NEW P, NEW F, NEW s, NEW fresh,
         Sound(c, w, p, q, l, P, F, s, fresh), p.finalized, q.finalized,
         q.written = p.written, NEW w1,
         \/ w = "describing" /\ w1 = "savingDone"
         \/ w = "todo" /\ w1 = "savingInherited",
         NEW p1 \in AnyProgress, p1.status = "complete", p1.cursor = p.cursor,
         p1.newest = p.newest, p1.finalized = p.finalized, p1.written = p.written
  PROVE  Sound(c, w1, p1, q, l, P, F, s, fresh)
  <1>1. SoundProgress(c, p1)
    <2>1. p1 \in ProgressOf(c)
      BY ProgressIsTyped DEF AnyProgress, ProgressOf, Sound, SoundProgress
    <2> QED BY <2>1 DEF Sound, SoundProgress
  <1>2. SoundLocal(c, w1, l, fresh)
    BY DEF Sound, SoundLocal, Opened
  <1>3. SoundFiles(c, w1, l, P, F, s, fresh)
    BY DEF Sound, SoundFiles, AfterMark
  <1>4. SoundMarks(w1, p1, q, l, P)
    BY DEF Sound, SoundMarks, AfterMark, BeforeMark
  <1>5. CountsAll(c, p1, q, fresh)
    BY DEF Sound, CountsAll
  <1> QED BY <1>1, <1>2, <1>3, <1>4, <1>5 DEF Sound

\* The mark "failed", which leaves everything else as it was.
LEMMA Fails ==
  ASSUME NEW c \in Channel, NEW p, NEW q, NEW l, NEW P, NEW F, NEW s, NEW fresh,
         Sound(c, "failing", p, q, l, P, F, s, fresh),
         NEW p1 \in AnyProgress, p1.status = "failed", p1.cursor = p.cursor,
         p1.newest = p.newest, p1.finalized = p.finalized, p1.written = p.written
  PROVE  Sound(c, "savingFailed", p1, q, l, P, F, s, fresh)
  <1>1. SoundProgress(c, p1)
    <2>1. p1 \in ProgressOf(c)
      BY ProgressIsTyped DEF AnyProgress, ProgressOf, Sound, SoundProgress
    <2> QED BY <2>1 DEF Sound, SoundProgress
  <1>2. SoundLocal(c, "savingFailed", l, fresh)
    BY DEF SoundLocal, Opened
  <1>3. SoundFiles(c, "savingFailed", l, P, F, s, fresh)
    BY DEF Sound, SoundFiles, AfterMark
  <1>4. SoundMarks("savingFailed", p1, q, l, P)
    BY DEF Sound, SoundMarks, AfterMark, BeforeMark
  <1>5. CountsAll(c, p1, q, fresh)
    BY DEF Sound, CountsAll
  <1> QED BY <1>1, <1>2, <1>3, <1>4, <1>5 DEF Sound

(*------------------ one step: what it leaves of the other channels --------*)
Unmarked == BeforeMark \cup {"savingFinal"}
Savable(r) == r.finalized /\ r.written > 0

\* A step of another task, which may save the whole state.
Untouched(d) ==
  /\ worker'[d] = worker[d] /\ local'[d] = local[d]
  /\ part'[d] = part[d] /\ final'[d] = final[d] /\ synced'[d] = synced[d]
  /\ mem'.channel[d] = mem.channel[d]
  /\ disk'.channel[d] \in {disk.channel[d], mem.channel[d]}
  /\ \A f \in AllFiles : f[1] = d => rows'[f] = rows[f]

LEMMA FilesAreOfTheirChannel ==
  ASSUME NEW c \in Channel, NEW ns, NEW f \in FilesOf(c, ns)
  PROVE  f[1] = c /\ f[2] \in ns /\ f = <<c, f[2]>> /\ c \in WithFiles
  BY DEF FilesOf

\* The flags a description rests on survive any save.
LEMMA SavableStays ==
  ASSUME NEW d \in Channel, ChannelInv(d), main # "down", Savable(disk.channel[d])
  PROVE  Savable(mem.channel[d])
  BY DEF ChannelInv, Kept, Sound, SoundMarks, Savable

LEMMA UntouchedKept ==
  ASSUME NEW d \in Channel, ChannelInv(d), RowsOf(d), TodoOf(d), Untouched(d),
         main # "down", main' # "down", behind' = behind
  PROVE  ChannelInv(d)' /\ RowsOf(d)' /\ TodoOf(d)'
  <1>1. Sound(d, worker[d], mem.channel[d], disk.channel[d], local[d], part[d],
              final[d], synced[d], d \notin behind)
    BY DEF ChannelInv, Kept
  <1>2. Sound(d, worker[d], mem.channel[d], mem.channel[d], local[d], part[d],
              final[d], synced[d], d \notin behind)
    BY <1>1, Saves
  <1>3. ChannelInv(d)'
    BY <1>1, <1>2 DEF ChannelInv, Kept, Untouched
  <1>4. local[d].left \subseteq AllFiles
    BY <1>1 DEF Sound, LocalTyped, LocalOf
  <1>5. Savable(disk.channel[d]) => Savable(disk'.channel[d])
    BY SavableStays DEF Untouched
  <1>6. ASSUME NEW f \in AllFiles, f[1] = d
        PROVE  /\ rows'[f] <= 1
               /\ rows'[f] > 0 => Savable(disk'.channel[d]) /\ worker'[d] \notin Unmarked
    BY <1>5, <1>6 DEF Untouched, RowsOf, Savable, Unmarked
  <1>7. ASSUME worker'[d] = "describing", NEW f \in local'[d].left
        PROVE  f \in FilesOf(d, SeenBy(d)') /\ rows'[f] = 0
    <2>1. local'[d] = local[d] /\ worker[d] = "describing" /\ SeenBy(d)' = SeenBy(d)
      BY <1>7 DEF Untouched, SeenBy
    <2>2. f \in FilesOf(d, SeenBy(d)) /\ rows[f] = 0
      BY <1>7, <2>1 DEF RowsOf
    <2>3. f[1] = d /\ f \in AllFiles
      BY <1>4, <1>7, <2>1, <2>2, FilesAreOfTheirChannel
    <2> QED BY <2>1, <2>2, <2>3 DEF Untouched
  <1>8. RowsOf(d)'
    BY <1>6, <1>7 DEF RowsOf, Savable, Unmarked
  <1>9. TodoOf(d)'
    BY DEF TodoOf, Untouched
  <1> QED BY <1>3, <1>8, <1>9

\* A worker that stands between its first page and its last save belongs to a
\* session whose main task still waits, or has given up waiting.
LEMMA ActiveMain ==
  ASSUME IInv, NEW c \in Channel,
         worker[c] \notin {"todo", "done"} \/ (worker[c] = "todo" /\ main = "channels")
  PROVE  main \in {"channels", "rejected"} /\ main # "down"
  BY DEF IInv, MainInv, Typed, After

LEMMA WorkerKeeps ==
  ASSUME IInv, NEW c \in Channel, main \in {"channels", "rejected"}, main' = main,
         behind' = behind, Typed', \A d \in Channel \ {c} : Untouched(d),
         ChannelInv(c)', RowsOf(c)', worker'[c] # "todo"
  PROVE  IInv'
  <1>1. ASSUME NEW d \in Channel
        PROVE  ChannelInv(d)' /\ RowsOf(d)' /\ TodoOf(d)'
    <2>1. CASE d = c
      BY <2>1 DEF TodoOf
    <2>2. CASE d # c
      BY <2>2, UntouchedKept DEF IInv
    <2> QED BY <2>1, <2>2
  <1>2. MainInv'
    BY DEF MainInv, After
  <1> QED BY <1>1, <1>2 DEF IInv

\* What is described stays described when no line is written.
LEMMA RowsKept ==
  ASSUME NEW c \in Channel, RowsOf(c), rows' = rows, worker'[c] # "describing",
         Savable(disk.channel[c]) => Savable(disk'.channel[c]),
         worker'[c] \in Unmarked =>
           worker[c] \in Unmarked \/ ~Savable(disk.channel[c])
  PROVE  RowsOf(c)'
  <1>1. ASSUME NEW f \in AllFiles, f[1] = c
        PROVE  /\ rows'[f] <= 1
               /\ rows'[f] > 0 => Savable(disk'.channel[c]) /\ worker'[c] \notin Unmarked
    BY <1>1 DEF RowsOf, Savable, Unmarked
  <1> QED BY <1>1 DEF RowsOf, Savable, Unmarked

\* Steps that only move one worker.
LEMMA OnlyMoves ==
  ASSUME IInv, NEW c \in Channel, NEW w1 \in Workers \ {"todo", "describing"}, Goes(c, w1),
         main \in {"channels", "rejected"}, warned' \subseteq Warning,
         UNCHANGED <<main, mem, local, fully, cited, leaving, disk, posts, listed>>,
         Sound(c, w1, mem.channel[c], disk.channel[c], local[c], part[c], final[c],
               synced[c], c \notin behind),
         w1 \in Unmarked => worker[c] \in Unmarked
  PROVE  IInv'
  <1>1. worker'[c] = w1 /\ \A d \in Channel \ {c} : worker'[d] = worker[d]
    BY DEF IInv, Typed, Goes
  <1>2. Typed'
    BY DEF IInv, Typed, Goes, posts, listed
  <1>3. \A d \in Channel \ {c} : Untouched(d)
    BY <1>1 DEF Untouched, posts, listed
  <1>4. ChannelInv(c)'
    BY <1>1 DEF ChannelInv, Kept, posts, listed
  <1>5. RowsOf(c)'
    BY <1>1, RowsKept DEF IInv, listed
  <1> QED BY <1>1, <1>2, <1>3, <1>4, <1>5, WorkerKeeps DEF listed

(*-------------------------- the steps of a worker -------------------------*)
\* The invariant of one channel in a session.
LEMMA InSession ==
  ASSUME IInv, NEW c \in Channel, main # "down"
  PROVE  /\ Sound(c, worker[c], mem.channel[c], disk.channel[c], local[c], part[c],
                  final[c], synced[c], c \notin behind)
         /\ RowsOf(c) /\ mem.channel[c] \in AnyProgress /\ local[c] \in LocalOf
         /\ synced[c] \in Nat
  <1>1. ChannelInv(c) /\ RowsOf(c) /\ mem \in StateOf /\ local \in [Channel -> LocalOf]
        /\ synced \in [Channel -> Nat]
    BY DEF IInv, Typed
  <1> QED BY <1>1 DEF ChannelInv, Kept, StateOf

\* An update of one channel of the in-memory state.
LEMMA MarksOne ==
  ASSUME Typed, NEW c \in Channel, NEW r \in AnyProgress, Marks(c, r)
  PROVE  /\ mem' \in StateOf /\ mem'.channel[c] = r
         /\ \A d \in Channel \ {c} : mem'.channel[d] = mem.channel[d]
         /\ mem'.warned = mem.warned /\ mem'.downloaded = mem.downloaded
  <1>1. mem \in StateOf /\ mem' = [mem EXCEPT !.channel = [mem.channel EXCEPT ![c] = r]]
    BY DEF Typed, Marks
  <1>2. [mem.channel EXCEPT ![c] = r] \in [Channel -> AnyProgress]
    BY <1>1 DEF StateOf
  <1>3. mem'.channel = [mem.channel EXCEPT ![c] = r]
        /\ mem'.warned = mem.warned /\ mem'.downloaded = mem.downloaded /\ mem' \in StateOf
    BY <1>1, <1>2 DEF StateOf
  <1> QED BY <1>1, <1>3 DEF StateOf

LEMMA SkipKeeps ==
  ASSUME IInv, NEW c \in Channel, SkipComplete(c)
  PROVE  IInv'
  <1>1. main = "channels" /\ worker[c] = "todo" /\ Goes(c, "done")
    BY DEF SkipComplete, Takes
  <1>2. Sound(c, "done", mem.channel[c], disk.channel[c], local[c], part[c], final[c],
              synced[c], c \notin behind)
    BY <1>1, InSession, Stops
  <1> QED BY <1>1, <1>2, OnlyMoves DEF SkipComplete, Workers, Unmarked, BeforeMark, IInv, Typed

LEMMA InheritKeeps ==
  ASSUME IInv, NEW c \in Channel, InheritFinalized(c)
  PROVE  IInv'
  <1>1. /\ main = "channels" /\ worker[c] = "todo" /\ mem.channel[c].status # "complete"
        /\ mem.channel[c].finalized /\ mem.channel[c].written > 0
        /\ UNCHANGED <<main, local, fully, cited, warned, leaving, disk, posts, listed>>
    BY DEF InheritFinalized, Inherits, Takes, Progress
  <1>2. CASE Goes(c, "threw") /\ UNCHANGED mem
    <2>1. Sound(c, "threw", mem.channel[c], disk.channel[c], local[c], part[c], final[c],
                synced[c], c \notin behind)
      BY <1>1, InSession, Stops
    <2> QED BY <1>1, <1>2, <2>1, OnlyMoves DEF Workers, Unmarked, BeforeMark, IInv, Typed
  <1>3. CASE /\ Marks(c, [Progress(c) EXCEPT !.status = "complete"])
             /\ Goes(c, "savingInherited")
    <2> DEFINE p == mem.channel[c]
               p1 == [p EXCEPT !.status = "complete"]
    <2>1. Sound(c, "todo", p, disk.channel[c], local[c], part[c], final[c], synced[c],
                c \notin behind) /\ p \in AnyProgress /\ RowsOf(c)
      BY <1>1, InSession
    <2>2. p1 \in AnyProgress /\ p1.status = "complete" /\ p1.cursor = p.cursor
          /\ p1.newest = p.newest /\ p1.finalized = p.finalized /\ p1.written = p.written
      BY <2>1 DEF AnyProgress, Statuses
    <2>3. /\ mem' \in StateOf /\ mem'.channel[c] = p1
          /\ \A d \in Channel \ {c} : mem'.channel[d] = mem.channel[d]
      BY <1>3, <2>2, MarksOne DEF Progress, IInv
    <2>4. worker'[c] = "savingInherited" /\ \A d \in Channel \ {c} : worker'[d] = worker[d]
      BY <1>3 DEF IInv, Typed, Goes
    <2>5. Typed'
      BY <1>1, <1>3, <2>3 DEF IInv, Typed, Goes, Workers, posts, listed
    <2>6. \A d \in Channel \ {c} : Untouched(d)
      BY <1>1, <2>3, <2>4 DEF Untouched, posts, listed
    <2>7. p.finalized /\ disk.channel[c].finalized /\ disk.channel[c].written = p.written
      BY <1>1, <2>1 DEF Sound, SoundMarks
    <2>8. ChannelInv(c)'
      <3> HIDE DEF p, p1
      <3>1. Sound(c, "savingInherited", p1, disk.channel[c], local[c], part[c], final[c],
                  synced[c], c \notin behind)
        BY <2>1, <2>2, <2>7, Completes
      <3> QED BY <1>1, <2>3, <2>4, <3>1 DEF ChannelInv, Kept, posts, listed
    <2>9. RowsOf(c)'
      BY <1>1, <2>1, <2>4, RowsKept DEF listed, Unmarked, BeforeMark
    <2> QED BY <1>1, <2>4, <2>5, <2>6, <2>8, <2>9, WorkerKeeps DEF listed
  <1> QED BY <1>2, <1>3 DEF InheritFinalized

\* What a worker starts with.
Opening(at, written, newest, scratch) ==
  [NoLocal EXCEPT !.cursor = at, !.from = at, !.written = written, !.newest = newest,
                  !.scratch = scratch]

LEMMA OpeningIsLocal ==
  ASSUME NEW at \in Nat, NEW written \in Nat, NEW newest \in Nat, NEW scratch \in BOOLEAN,
         NEW l, l = Opening(at, written, newest, scratch)
  PROVE  l \in LocalOf /\ l.cursor = at /\ l.from = at /\ l.written = written
         /\ l.newest = newest
  <1>1. l = [cursor |-> at, written |-> written, newest |-> newest, from |-> at, pages |-> 0,
             scratch |-> scratch, reversed |-> FALSE, left |-> {}]
    BY DEF Opening, NoLocal
  <1> QED BY <1>1 DEF LocalOf

LEMMA OpenKeeps ==
  ASSUME IInv, NEW c \in Channel, OpenChannel(c)
  PROVE  IInv'
  <1> DEFINE p == mem.channel[c]
             tail == part[c] # <<>> /\ ~torn[c]
             from == IF tail THEN TailCursor(part[c]) ELSE p.cursor
             written == IF tail THEN Len(part[c]) ELSE p.written
             newest == IF tail /\ p.newest = 0 THEN TailNewest(part[c]) ELSE p.newest
             l1 == Opening(from, written, newest, p.written = 0)
             w1 == IF torn[c] THEN "failing" ELSE "paging"
  <1>1. /\ main = "channels" /\ worker[c] = "todo" /\ p.status # "complete"
        /\ ~(p.finalized /\ p.written > 0)
        /\ local' = [local EXCEPT ![c] = l1] /\ Goes(c, w1)
        /\ UNCHANGED <<main, mem, fully, users, cited, warned, leaving, disk, posts, listed>>
    BY DEF OpenChannel, Takes, Inherits, Progress, Opening
  <1>2. Sound(c, "todo", p, disk.channel[c], local[c], part[c], final[c], synced[c],
              c \notin behind) /\ p \in AnyProgress /\ RowsOf(c) /\ torn[c] \in BOOLEAN
    BY <1>1, InSession DEF IInv, Typed
  <1>3. c \notin behind /\ ~p.finalized => Len(part[c]) >= p.written
    BY <1>1 DEF IInv, TodoOf
  <1>4. /\ part[c] \in Seq(Since .. Size[c]) /\ IsDescendingRun(part[c])
        /\ Len(part[c]) \in Nat /\ Since \in Int /\ Size[c] \in Int /\ Since >= 1
    BY <1>2, ChannelNumbers, LenProperties DEF Sound, SoundFiles
  <1>5. part[c] # <<>> => TailCursor(part[c]) \in Nat /\ TailNewest(part[c]) \in Nat
    <2>1. part[c] # <<>> => TailNewest(part[c]) \in Since .. Size[c]
                            /\ TailCursor(part[c]) \in Since .. Size[c]
      BY <1>4, DescendingLength
    <2> QED BY <2>1, <1>4
  <1>6. /\ l1 \in LocalOf /\ l1.from = l1.cursor
        /\ l1.cursor = IF tail THEN TailCursor(part[c]) ELSE p.cursor
        /\ l1.written = IF tail THEN Len(part[c]) ELSE p.written
        /\ l1.newest = IF tail /\ p.newest = 0 THEN TailNewest(part[c]) ELSE p.newest
    <2>1. from \in Nat /\ written \in Nat /\ newest \in Nat /\ (p.written = 0) \in BOOLEAN
      BY <1>2, <1>4, <1>5 DEF AnyProgress
    <2> DEFINE scratch == p.written = 0
    <2>2. scratch \in BOOLEAN /\ l1 = Opening(from, written, newest, scratch)
      OBVIOUS
    <2> HIDE DEF from, written, newest, scratch, l1
    <2>3. l1 \in LocalOf /\ l1.cursor = from /\ l1.from = from /\ l1.written = written
          /\ l1.newest = newest
      BY <2>1, <2>2, OpeningIsLocal
    <2> QED BY <2>3 DEF from, written, newest
  <1> HIDE DEF l1
  <1>7. Sound(c, w1, p, disk.channel[c], l1, part[c], final[c], synced[c], c \notin behind)
    <2> DEFINE fresh == c \notin behind
    <2>1. Sound(c, "todo", p, disk.channel[c], local[c], part[c], final[c], synced[c], fresh)
          /\ (fresh /\ ~p.finalized => Len(part[c]) >= p.written)
      BY <1>2, <1>3
    <2> HIDE DEF p, fresh
    <2>2. tail \in BOOLEAN
      OBVIOUS
    <2>3. tail <=> part[c] # <<>> /\ ~torn[c]
      OBVIOUS
    <2> HIDE DEF tail
    <2>4. Sound(c, IF torn[c] THEN "failing" ELSE "paging", p, disk.channel[c], l1, part[c],
                final[c], synced[c], fresh)
      BY <1>1, <1>2, <1>6, <2>1, <2>2, <2>3, Opens
    <2> QED BY <2>4 DEF fresh
  <1>8. w1 \in {"failing", "paging"}
    OBVIOUS
  <1> HIDE DEF w1
  <1>9. /\ worker'[c] = w1 /\ local'[c] = l1
        /\ \A d \in Channel \ {c} : worker'[d] = worker[d] /\ local'[d] = local[d]
    BY <1>1 DEF IInv, Typed, Goes
  <1>10. Typed'
    BY <1>1, <1>6, <1>8 DEF IInv, Typed, Goes, Workers, posts, listed
  <1>11. \A d \in Channel \ {c} : Untouched(d)
    BY <1>1, <1>9 DEF Untouched, posts, listed
  <1>12. ChannelInv(c)'
    BY <1>1, <1>7, <1>9 DEF ChannelInv, Kept, posts, listed
  <1>13. RowsOf(c)'
    <2>1. ~Savable(disk.channel[c])
      BY <1>1, <1>2 DEF Sound, SoundMarks, Savable
    <2> QED BY <1>1, <1>2, <1>8, <1>9, <2>1, RowsKept DEF listed
  <1> QED BY <1>1, <1>8, <1>9, <1>10, <1>11, <1>12, <1>13, WorkerKeeps DEF listed

LEMMA WarningsAreTyped ==
  ASSUME IInv, NEW c \in Channel
  PROVE  /\ warned \subseteq Warning /\ warned \cup {<<"incomplete", c>>} \subseteq Warning
         /\ warned \cup {<<"download", c>>} \subseteq Warning
  BY DEF IInv, Typed, Warning

LEMMA StopKeeps ==
  ASSUME IInv, NEW c \in Channel, EmptyPage(c) \/ PageBelowSince(c) \/ StuckPage(c)
  PROVE  IInv'
  <1>1. /\ worker[c] = "paging" /\ StopsPaging(c) /\ warned' \subseteq Warning
        /\ \E overlap \in Overlaps(c, local[c].cursor) :
             \/ PageHigh(local[c].cursor, overlap) < 1
             \/ /\ PageLow(local[c].cursor, overlap) <= FreshHigh(local[c].cursor)
                /\ BatchLow(local[c].cursor, overlap) > FreshHigh(local[c].cursor)
             \/ /\ PageHigh(local[c].cursor, overlap) >= 1
                /\ PageLow(local[c].cursor, overlap) > FreshHigh(local[c].cursor)
    BY WarningsAreTyped DEF EmptyPage, PageBelowSince, StuckPage, Paging
  <1>2. main \in {"channels", "rejected"} /\ main # "down"
    BY <1>1, ActiveMain
  <1>3. Sound(c, "paging", mem.channel[c], disk.channel[c], local[c], part[c], final[c],
              synced[c], c \notin behind)
    BY <1>1, <1>2, InSession
  <1>4. local[c].cursor \in 1 .. NoCursor(c)
    <2>1. local[c].cursor >= 1 /\ local[c].cursor <= NoCursor(c) /\ local[c].cursor \in Nat
      BY <1>3 DEF Sound, SoundLocal, LocalTyped, LocalOf, Opened
    <2> QED BY <2>1, ChannelNumbers
  <1>5. local[c].cursor <= Since \/ (PerPage = 1 /\ local[c].cursor # NoCursor(c))
    BY <1>1, <1>4, StopsBelow
  <1>6. Sound(c, "closing", mem.channel[c], disk.channel[c], local[c], part[c], final[c],
              synced[c], c \notin behind)
    BY <1>3, <1>5, Ends
  <1> QED BY <1>1, <1>2, <1>6, OnlyMoves DEF StopsPaging, Workers, Unmarked, BeforeMark

LEMMA FailPageKeeps ==
  ASSUME IInv, NEW c \in Channel, FailPage(c)
  PROVE  IInv'
  <1>1. worker[c] = "paging" /\ Goes(c, "failing")
    BY DEF FailPage, Paging
  <1>2. main \in {"channels", "rejected"} /\ main # "down"
    BY <1>1, ActiveMain
  <1>3. mem.channel[c].status # "complete"
    BY <1>1, <1>2, InSession DEF Sound, SoundMarks, BeforeMark
  <1>4. Sound(c, "failing", mem.channel[c], disk.channel[c], local[c], part[c], final[c],
              synced[c], c \notin behind)
    BY <1>1, <1>2, <1>3, InSession, Stops
  <1> QED BY <1>1, <1>2, <1>4, OnlyMoves
          DEF FailPage, Workers, Unmarked, BeforeMark, IInv, Typed

LEMMA FailRemoveKeeps ==
  ASSUME IInv, NEW c \in Channel, FailRemovePart(c)
  PROVE  IInv'
  <1>1. worker[c] \in {"removing", "closing"} /\ Goes(c, "failing")
    BY DEF FailRemovePart, Closing
  <1>2. main \in {"channels", "rejected"} /\ main # "down"
    BY <1>1, ActiveMain
  <1>3. mem.channel[c].status # "complete"
    BY <1>1, <1>2, InSession DEF Sound, SoundMarks, BeforeMark
  <1>4. Sound(c, "failing", mem.channel[c], disk.channel[c], local[c], part[c], final[c],
              synced[c], c \notin behind)
    BY <1>1, <1>2, <1>3, InSession, Stops
  <1> QED BY <1>1, <1>2, <1>4, OnlyMoves
          DEF FailRemovePart, Workers, Unmarked, BeforeMark, IInv, Typed

LEMMA FailSaveKeeps ==
  ASSUME IInv, NEW c \in Channel, FailSave(c)
  PROVE  IInv'
  <1> DEFINE w1 == IF worker[c] = "savingFinal" THEN "failing" ELSE "threw"
  <1>1. worker[c] \in {"savingFinal", "savingDone", "savingInherited", "savingFailed"}
        /\ Goes(c, w1)
    BY DEF FailSave
  <1>2. main \in {"channels", "rejected"} /\ main # "down"
    BY <1>1, ActiveMain
  <1>3. Sound(c, worker[c], mem.channel[c], disk.channel[c], local[c], part[c], final[c],
              synced[c], c \notin behind)
    BY <1>2, InSession
  <1>4. w1 = "failing" => mem.channel[c].status # "complete"
    BY <1>3 DEF Sound, SoundMarks
  <1>5. w1 \in {"failing", "threw"}
    OBVIOUS
  <1> HIDE DEF w1
  <1>6. Sound(c, w1, mem.channel[c], disk.channel[c], local[c], part[c], final[c],
              synced[c], c \notin behind)
    BY <1>3, <1>4, <1>5, Stops
  <1>7. /\ w1 \in Workers \ {"todo", "describing"} /\ warned' \subseteq Warning
        /\ w1 \notin Unmarked
    BY <1>5 DEF Workers, Unmarked, BeforeMark, FailSave, IInv, Typed
  <1> QED BY <1>1, <1>2, <1>6, <1>7, OnlyMoves DEF FailSave

LEMMA DescribeThrowsKeeps ==
  ASSUME IInv, NEW c \in Channel, DescribeThrows(c)
  PROVE  IInv'
  <1>1. worker[c] = "describing" /\ Goes(c, "threw")
    BY DEF DescribeThrows
  <1>2. main \in {"channels", "rejected"} /\ main # "down"
    BY <1>1, ActiveMain
  <1>3. Sound(c, "threw", mem.channel[c], disk.channel[c], local[c], part[c], final[c],
              synced[c], c \notin behind)
    BY <1>1, <1>2, InSession, Stops
  <1> QED BY <1>1, <1>2, <1>3, OnlyMoves
          DEF DescribeThrows, Workers, Unmarked, BeforeMark, IInv, Typed

\* A page that is written, in the local variables of its worker.
Turned(l, at, written, newest, pages) ==
  [l EXCEPT !.cursor = at, !.written = written, !.newest = newest, !.pages = pages]
IsTurned(l, l1, at, written, newest) ==
  /\ l1 \in LocalOf /\ l1.cursor = at /\ l1.from = l.from
  /\ l1.written = written /\ l1.newest = newest

LEMMA TurnedIsLocal ==
  ASSUME NEW l \in LocalOf, NEW at \in Nat, NEW written \in Nat, NEW newest \in Nat,
         NEW pages \in Nat
  PROVE  IsTurned(l, Turned(l, at, written, newest, pages), at, written, newest)
  BY DEF LocalOf, Turned, IsTurned

Moved(p, at, written, newest) ==
  [p EXCEPT !.status = "in_progress", !.cursor = at, !.newest = newest,
            !.written = written]
IsMoved(p, p1, at, written, newest) ==
  /\ p1 \in AnyProgress /\ p1.status = "in_progress" /\ p1.cursor = at
  /\ p1.written = written /\ p1.newest = newest /\ p1.finalized = p.finalized

LEMMA MovedIsProgress ==
  ASSUME NEW p \in AnyProgress, NEW at \in Nat, NEW written \in Nat, NEW newest \in Nat
  PROVE  IsMoved(p, Moved(p, at, written, newest), at, written, newest)
  BY DEF AnyProgress, Statuses, Moved, IsMoved

LEMMA WriteKeeps ==
  ASSUME IInv, NEW c \in Channel, WritePage(c)
  PROVE  IInv'
  <1>1. worker[c] = "paging" /\ UNCHANGED <<main, fully, users, cited, warned, leaving, torn,
                                            final, listed>>
    BY DEF WritePage, Paging
  <1>2. main \in {"channels", "rejected"} /\ main # "down"
    BY <1>1, ActiveMain
  <1> DEFINE l == local[c]
             p == mem.channel[c]
             k == l.cursor
  <1>3. /\ Sound(c, "paging", p, disk.channel[c], l, part[c], final[c], synced[c],
                 c \notin behind)
        /\ RowsOf(c) /\ p \in AnyProgress /\ l \in LocalOf /\ synced[c] \in Nat
    BY <1>1, <1>2, InSession
  <1>4. k \in 1 .. NoCursor(c) /\ l.written \in 0 .. Size[c] /\ l.newest \in 0 .. Size[c]
        /\ l.written + k <= NoCursor(c) /\ l.pages \in Nat
    <2>1. l.cursor >= 1 /\ l.cursor <= NoCursor(c) /\ l.cursor \in Nat /\ l.written \in Nat
          /\ l.newest \in Nat /\ l.written <= Size[c] /\ l.newest <= Size[c]
          /\ l.written + k <= NoCursor(c) /\ l.pages \in Nat
      BY <1>3 DEF Sound, SoundLocal, LocalTyped, LocalOf, Opened
    <2> QED BY <2>1, ChannelNumbers
  <1>5. PICK overlap \in Overlaps(c, k), told \in BOOLEAN, saved \in BOOLEAN :
          LET high == FreshHigh(k)
              low == BatchLow(k, overlap)
              flush == l.pages + 1 >= FlushEvery
              newest == Larger(l.newest, high)
              written == l.written + (high - low + 1)
              last == \/ PageLow(k, overlap) < Since
                      \/ told /\ PageLow(k, overlap) = 1
          IN /\ low <= high
             /\ part' = [part EXCEPT ![c] = @ \o NewestFirst(high, low)]
             /\ synced' = IF flush THEN [synced EXCEPT ![c] = Len(part'[c])] ELSE synced
             /\ local' = [local EXCEPT ![c].cursor = low, ![c].written = written,
                                       ![c].newest = newest,
                                       ![c].pages = IF flush THEN 0 ELSE @ + 1]
             /\ Marks(c, [Progress(c) EXCEPT !.status = "in_progress", !.cursor = low,
                                             !.newest = newest, !.written = written])
             /\ disk' = IF saved THEN mem' ELSE disk
             /\ Goes(c, IF last THEN "closing" ELSE "paging")
    BY DEF WritePage
  <1> DEFINE high == FreshHigh(k)
             low == BatchLow(k, overlap)
             flush == l.pages + 1 >= FlushEvery
             newest == Larger(l.newest, high)
             written == l.written + (high - low + 1)
             pages == IF flush THEN 0 ELSE l.pages + 1
             last == PageLow(k, overlap) < Since \/ (told /\ PageLow(k, overlap) = 1)
             w1 == IF last THEN "closing" ELSE "paging"
             P1 == part[c] \o NewestFirst(high, low)
             s1 == IF flush THEN Len(P1) ELSE synced[c]
             p1 == Moved(p, low, written, newest)
             l1 == Turned(l, low, written, newest, pages)
  <1>6. /\ high = k - 1 /\ high \in Int /\ low \in Nat /\ low >= Since /\ low <= k - 1
        /\ low <= high /\ k \in Int
    <2>1. BatchLow(k, overlap) <= FreshHigh(k)
      BY <1>5
    <2>2. FreshHigh(k) = k - 1 /\ BatchLow(k, overlap) \in Nat
         /\ BatchLow(k, overlap) >= Since /\ BatchLow(k, overlap) <= k - 1
      BY <2>1, <1>4, PageBounds
    <2>3. k \in Int
      BY <1>4, ChannelNumbers
    <2> QED BY <2>1, <2>2, <2>3
  <1>7. written \in Nat /\ newest \in Nat /\ pages \in Nat
    <2>1. written = l.written + ((k - 1) - low + 1) /\ newest = Larger(l.newest, k - 1)
      BY <1>6
    <2> HIDE DEF written, newest, l, k, low, high
    <2>2. written \in 1 .. Size[c] /\ newest \in 0 .. Size[c]
      BY <2>1, <1>4, <1>6, PageCounts
    <2> QED BY <2>2, <1>4, ChannelNumbers
  <1>8. IsTurned(l, l1, low, written, newest)
    <2> HIDE DEF l, low, written, newest, pages
    <2> QED BY <1>3, <1>6, <1>7, TurnedIsLocal
  <1>9. IsMoved(p, p1, low, written, newest)
    <2> HIDE DEF p, low, written, newest
    <2> QED BY <1>3, <1>6, <1>7, MovedIsProgress
  <1>10. local' = [local EXCEPT ![c] = l1]
    <2>1. local' = [local EXCEPT ![c] = [local[c] EXCEPT !.cursor = low, !.written = written,
                                               !.newest = newest, !.pages = pages]]
      BY <1>5
    <2> QED BY <2>1 DEF Turned
  <1>11. /\ Marks(c, p1) /\ Goes(c, w1)
         /\ part' = [part EXCEPT ![c] = P1]
         /\ disk' \in {mem', disk}
    BY <1>5 DEF Progress, Moved
  <1>12. synced' = [synced EXCEPT ![c] = s1] /\ P1 \in Seq(Since .. Size[c])
         /\ Len(P1) \in Nat /\ part'[c] = P1
    <2>1. part'[c] = P1
      BY <1>11 DEF IInv, Typed
    <2>2. part[c] \in Seq(Since .. Size[c])
      BY <1>3 DEF Sound, SoundFiles
    <2>3. NewestFirst(high, low) \in Seq(Since .. Size[c])
      <3>1. Since \in Int /\ Size[c] \in Int /\ Since <= low /\ high <= Size[c]
            /\ low <= high + 1 /\ low \in Int
        BY <1>4, <1>6, ChannelNumbers
      <3> HIDE DEF high, low
      <3> QED BY <3>1, <1>6, NewestFirstIsRun
    <2>4. P1 \in Seq(Since .. Size[c])
      BY <2>2, <2>3, ConcatProperties
    <2>5. Len(P1) \in Nat
      BY <2>4, LenProperties
    <2>6. synced' = IF flush THEN [synced EXCEPT ![c] = Len(P1)] ELSE synced
      <3>1. synced' = IF flush THEN [synced EXCEPT ![c] = Len(part'[c])] ELSE synced
        BY <1>5
      <3> HIDE DEF flush, P1
      <3> QED BY <2>1, <3>1
    <2>7. synced \in [Channel -> Nat]
      BY DEF IInv, Typed
    <2> QED BY <2>1, <2>4, <2>5, <2>6, <2>7
  <1>13. Sound(c, w1, p1, disk.channel[c], l1, P1, final[c], s1, c \notin behind)
    <2> DEFINE fresh == c \notin behind
    <2>1. s1 \in {synced[c], Len(P1)} /\ last \in BOOLEAN
          /\ (last => PageLow(k, overlap) < Since \/ PageLow(k, overlap) = 1)
          /\ P1 = part[c] \o NewestFirst(high, low)
          /\ k = l.cursor /\ low \in Int /\ high = FreshHigh(k) /\ low = BatchLow(k, overlap)
          /\ written = l.written + (high - low + 1) /\ newest = Larger(l.newest, high)
      BY <1>6
    <2>2. Sound(c, "paging", p, disk.channel[c], l, part[c], final[c], synced[c], fresh)
      BY <1>3
    <2> HIDE DEF fresh, k, l, p, p1, l1, P1, s1, last, high, low, written, newest
    <2>3. PageTurned(k, overlap, high, low, last, p, p1, l, l1, part[c], P1, synced[c], s1)
      BY <2>1, <1>6, <1>8, <1>9 DEF PageTurned, IsTurned, IsMoved
    <2>4. Sound(c, IF last THEN "closing" ELSE "paging", p1, disk.channel[c], l1, P1,
                final[c], s1, fresh)
      BY <2>2, <2>3, <1>3, <1>6, Pages
    <2> QED BY <2>4 DEF fresh
  <1>14. w1 \in {"closing", "paging"} /\ s1 \in Nat
    BY <1>12, <1>3
  <1> HIDE DEF k, l, p, p1, l1, P1, s1, w1, last, high, low, written, newest, pages, flush
  <1>15. /\ mem' \in StateOf /\ mem'.channel[c] = p1
         /\ \A d \in Channel \ {c} : mem'.channel[d] = mem.channel[d]
    BY <1>9, <1>11, MarksOne DEF IInv, IsMoved
  <1>16. /\ worker'[c] = w1 /\ local'[c] = l1 /\ part'[c] = P1 /\ synced'[c] = s1
         /\ \A d \in Channel \ {c} : /\ worker'[d] = worker[d] /\ local'[d] = local[d]
                                     /\ part'[d] = part[d] /\ synced'[d] = synced[d]
    BY <1>10, <1>11, <1>12 DEF IInv, Typed, Goes
  <1>17. Typed'
    <2>1. worker' \in [Channel -> Workers] /\ local' \in [Channel -> LocalOf]
          /\ DOMAIN part' = Channel /\ synced' \in [Channel -> Nat]
      BY <1>8, <1>10, <1>11, <1>12, <1>14 DEF IInv, Typed, Goes, Workers, IsTurned
    <2>2. mem' \in StateOf /\ disk' \in StateOf
      BY <1>11, <1>15 DEF IInv, Typed
    <2> QED BY <2>1, <2>2, <1>1 DEF IInv, Typed, listed
  <1>18. \A d \in Channel \ {c} : Untouched(d)
    BY <1>1, <1>11, <1>15, <1>16 DEF Untouched, listed
  <1>19. Sound(c, w1, p1, disk'.channel[c], l1, P1, final[c], s1, c \notin behind)
    <2>1. CASE disk' = disk
      BY <2>1, <1>13
    <2>2. CASE disk' = mem'
      BY <2>2, <1>13, <1>15, Saves
    <2> QED BY <2>1, <2>2, <1>11
  <1>20. ChannelInv(c)'
    BY <1>1, <1>2, <1>15, <1>16, <1>19 DEF ChannelInv, Kept, listed
  <1>21. RowsOf(c)'
    <2>1. ~Savable(disk.channel[c])
      BY <1>3 DEF Sound, SoundMarks, Savable, BeforeMark
    <2> QED BY <1>1, <1>3, <1>14, <1>16, <2>1, RowsKept DEF listed
  <1> QED BY <1>1, <1>2, <1>14, <1>16, <1>17, <1>18, <1>20, <1>21, WorkerKeeps DEF listed

\* The two files and the variables of one worker, in one step of its task.
MovesFiles(c, w1, l1, P1, F1, s1) ==
  /\ worker' \in [Channel -> Workers] /\ local' \in [Channel -> LocalOf]
  /\ DOMAIN part' = Channel /\ DOMAIN final' = Channel /\ synced' \in [Channel -> Nat]
  /\ worker'[c] = w1 /\ local'[c] = l1
  /\ part'[c] = P1 /\ final'[c] = F1 /\ synced'[c] = s1
  /\ \A d \in Channel \ {c} :
       /\ worker'[d] = worker[d] /\ local'[d] = local[d]
       /\ part'[d] = part[d] /\ final'[d] = final[d] /\ synced'[d] = synced[d]

LEMMA FilesMove ==
  ASSUME IInv, NEW c \in Channel, NEW w1 \in Workers \ {"todo", "describing"}, NEW l1,
         NEW P1, NEW F1, NEW s1, MovesFiles(c, w1, l1, P1, F1, s1),
         main \in {"channels", "rejected"}, warned' \subseteq Warning,
         torn' \in [Channel -> BOOLEAN],
         UNCHANGED <<main, mem, fully, cited, leaving, disk, listed>>,
         Sound(c, w1, mem.channel[c], disk.channel[c], l1, P1, F1, s1, c \notin behind),
         w1 \in Unmarked => worker[c] \in Unmarked
  PROVE  IInv'
  <1>1. Typed'
    BY DEF IInv, Typed, MovesFiles, listed
  <1>2. \A d \in Channel \ {c} : Untouched(d)
    BY DEF Untouched, MovesFiles, listed
  <1>3. ChannelInv(c)'
    BY DEF ChannelInv, Kept, MovesFiles, listed
  <1>4. RowsOf(c)'
    BY RowsKept DEF IInv, MovesFiles, listed
  <1> QED BY <1>1, <1>2, <1>3, <1>4, WorkerKeeps DEF MovesFiles, listed

\* A local variable that no count depends on.
SameLocal(l, l1) ==
  /\ l1 \in LocalOf /\ l1.cursor = l.cursor /\ l1.from = l.from
  /\ l1.written = l.written /\ l1.newest = l.newest

Flagged(l) == [l EXCEPT !.reversed = TRUE]
Listing(l, left) == [l EXCEPT !.left = left]

LEMMA FlaggedIsSame ==
  ASSUME NEW l \in LocalOf
  PROVE  SameLocal(l, Flagged(l))
  BY DEF SameLocal, Flagged, LocalOf

LEMMA ListingIsSame ==
  ASSUME NEW l \in LocalOf, NEW left \in SUBSET AllFiles
  PROVE  SameLocal(l, Listing(l, left))
  BY DEF SameLocal, Listing, LocalOf

LEMMA SameLocalKeeps ==
  ASSUME NEW c \in Channel, NEW w, NEW p, NEW q, NEW l, NEW P, NEW F, NEW s, NEW fresh,
         Sound(c, w, p, q, l, P, F, s, fresh), NEW l1, SameLocal(l, l1)
  PROVE  Sound(c, w, p, q, l1, P, F, s, fresh)
  BY SameCounts DEF SameLocal

LEMMA FailAppendKeeps ==
  ASSUME IInv, NEW c \in Channel, FailAppend(c)
  PROVE  IInv'
  <1>1. /\ worker[c] \in {"paging", "closing"} /\ Goes(c, "failing")
        /\ UNCHANGED <<main, mem, local, fully, cited, warned, leaving, disk, synced, final,
                       listed>>
    BY DEF FailAppend
  <1>2. PICK n \in synced[c] .. Len(part[c]), half \in {FALSE, "torn" \in Faults} :
          /\ part' = [part EXCEPT ![c] = SubSeq(@, 1, n)]
          /\ torn' = [torn EXCEPT ![c] = half]
    BY DEF FailAppend
  <1>3. main \in {"channels", "rejected"} /\ main # "down"
    BY <1>1, ActiveMain
  <1> DEFINE P1 == SubSeq(part[c], 1, n)
  <1>4. Sound(c, worker[c], mem.channel[c], disk.channel[c], local[c], part[c], final[c],
              synced[c], c \notin behind) /\ synced[c] \in Nat
    BY <1>3, InSession
  <1>5. Sound(c, "failing", mem.channel[c], disk.channel[c], local[c], P1, final[c],
              synced[c], c \notin behind)
    BY <1>1, <1>4, LosesTail DEF BeforeMark
  <1>6. MovesFiles(c, "failing", local[c], P1, final[c], synced[c])
    BY <1>1, <1>2 DEF MovesFiles, IInv, Typed, Goes, Workers
  <1>7. torn' \in [Channel -> BOOLEAN] /\ warned' \subseteq Warning
    <2>1. half \in BOOLEAN
      <3>1. ("torn" \in Faults) \in BOOLEAN
        OBVIOUS
      <3>2. half = FALSE \/ half = ("torn" \in Faults)
        OBVIOUS
      <3> QED BY <3>1, <3>2, Zenon
    <2> QED BY <2>1, <1>1, <1>2 DEF IInv, Typed
  <1>8. "failing" \in Workers \ {"todo", "describing"} /\ "failing" \notin Unmarked
    BY DEF Workers, Unmarked, BeforeMark
  <1> HIDE DEF P1
  <1> QED BY <1>1, <1>3, <1>5, <1>6, <1>7, <1>8, FilesMove

LEMMA BeginReverseKeeps ==
  ASSUME IInv, NEW c \in Channel, BeginReverse(c)
  PROVE  IInv'
  <1>1. /\ worker[c] = "closing" /\ Goes(c, "reversing")
        /\ local' = [local EXCEPT ![c] = Flagged(local[c])]
        /\ UNCHANGED <<main, mem, fully, cited, warned, leaving, disk, part, torn, synced,
                       listed>>
    BY DEF BeginReverse, Closing, Flagged
  <1>2. PICK n \in 0 .. Len(part[c]) - 1 :
          final' = [final EXCEPT ![c] = SubSeq(ReversedLines(part[c]), 1, n)]
    BY DEF BeginReverse
  <1>3. main \in {"channels", "rejected"} /\ main # "down"
    BY <1>1, ActiveMain
  <1> DEFINE F1 == SubSeq(ReversedLines(part[c]), 1, n)
             l1 == Flagged(local[c])
  <1>4. /\ Sound(c, "closing", mem.channel[c], disk.channel[c], local[c], part[c], final[c],
                 synced[c], c \notin behind)
        /\ local[c] \in LocalOf
    BY <1>1, <1>3, InSession
  <1>5. Ascends(F1, Since, Size[c])
    <2>1. part[c] \in Seq(Since .. Size[c]) /\ IsDescendingRun(part[c])
          /\ Since \in Int /\ Size[c] \in Int
      BY <1>4, ChannelNumbers DEF Sound, SoundFiles
    <2>2. Ascends(ReversedLines(part[c]), Since, Size[c])
          /\ Len(ReversedLines(part[c])) = Len(part[c])
      BY <2>1, ReversalIsRun
    <2>3. n \in 0 .. Len(ReversedLines(part[c]))
      BY <2>1, <2>2, LenProperties
    <2> QED BY <2>1, <2>2, <2>3, PrefixAscends
  <1>6. SameLocal(local[c], l1)
    BY <1>4, FlaggedIsSame
  <1>7. MovesFiles(c, "reversing", l1, part[c], F1, synced[c])
    <2>1. l1 \in LocalOf
      BY <1>6 DEF SameLocal
    <2> HIDE DEF F1
    <2>2. final' = [final EXCEPT ![c] = F1] /\ local' = [local EXCEPT ![c] = l1]
      BY <1>1, <1>2 DEF F1
    <2> HIDE DEF l1
    <2> QED BY <1>1, <2>1, <2>2 DEF MovesFiles, IInv, Typed, Goes, Workers
  <1> HIDE DEF F1, l1
  <1>8. Sound(c, "reversing", mem.channel[c], disk.channel[c], l1, part[c], F1,
              synced[c], c \notin behind)
    <2>1. F1 \in Seq(Since .. Size[c]) /\ IsAscendingRun(F1)
      BY <1>5 DEF Ascends
    <2>2. Sound(c, "reversing", mem.channel[c], disk.channel[c], local[c], part[c], F1,
                synced[c], c \notin behind)
      BY <1>4, <2>1, Reverses
    <2> QED BY <2>2, <1>6, SameLocalKeeps
  <1>9. torn' \in [Channel -> BOOLEAN] /\ warned' \subseteq Warning
    BY <1>1 DEF IInv, Typed
  <1>10. "reversing" \in Workers \ {"todo", "describing"} /\ worker[c] \in Unmarked
    BY <1>1 DEF Workers, Unmarked, BeforeMark
  <1> QED BY <1>1, <1>3, <1>7, <1>8, <1>9, <1>10, FilesMove

\* The reversal ends: the final file is the .part file from its end; or it
\* fails, and the final file is removed.
LEMMA EndReverseKeeps ==
  ASSUME IInv, NEW c \in Channel, EndReverse(c) \/ FailReverse(c)
  PROVE  IInv'
  <1>1. /\ worker[c] = "reversing"
        /\ UNCHANGED <<main, mem, local, fully, cited, warned, leaving, disk, part, torn,
                       synced, listed>>
    BY DEF EndReverse, FailReverse
  <1>2. PICK w1 \in {"removing", "failing"}, F1 \in {ReversedLines(part[c]), <<>>} :
          Goes(c, w1) /\ final' = [final EXCEPT ![c] = F1]
    BY DEF EndReverse, FailReverse
  <1>3. main \in {"channels", "rejected"} /\ main # "down"
    BY <1>1, ActiveMain
  <1>4. Sound(c, "reversing", mem.channel[c], disk.channel[c], local[c], part[c], final[c],
              synced[c], c \notin behind)
    BY <1>1, <1>3, InSession
  <1>5. F1 \in Seq(Since .. Size[c]) /\ IsAscendingRun(F1)
    <2>1. part[c] \in Seq(Since .. Size[c]) /\ IsDescendingRun(part[c])
          /\ Since \in Int /\ Size[c] \in Int
      BY <1>4, ChannelNumbers DEF Sound, SoundFiles
    <2>2. Ascends(ReversedLines(part[c]), Since, Size[c])
      BY <2>1, ReversalIsRun
    <2>3. CASE F1 = <<>>
      BY <2>3, EmptyIsRun
    <2>4. CASE F1 = ReversedLines(part[c])
      BY <2>2, <2>4 DEF Ascends
    <2> QED BY <2>3, <2>4
  <1>6. Sound(c, w1, mem.channel[c], disk.channel[c], local[c], part[c], F1, synced[c],
              c \notin behind)
    BY <1>4, <1>5, Reverses
  <1>7. MovesFiles(c, w1, local[c], part[c], F1, synced[c])
    BY <1>1, <1>2 DEF MovesFiles, IInv, Typed, Goes, Workers
  <1>8. torn' \in [Channel -> BOOLEAN] /\ warned' \subseteq Warning
    BY <1>1 DEF IInv, Typed
  <1>9. w1 \in Workers \ {"todo", "describing"} /\ worker[c] \in Unmarked
    BY <1>1 DEF Workers, Unmarked, BeforeMark
  <1> QED BY <1>1, <1>3, <1>6, <1>7, <1>8, <1>9, FilesMove

LEMMA RemoveKeeps ==
  ASSUME IInv, NEW c \in Channel, RemovePart(c) \/ NoPart(c)
  PROVE  IInv'
  <1>1. /\ worker[c] \in {"removing", "closing"} /\ Goes(c, "finalized")
        /\ UNCHANGED <<main, mem, local, fully, cited, leaving, disk, torn, final, listed>>
        /\ warned' \subseteq Warning
    <2>1. (warned \cup IF local[c].written > 0 /\ final[c] = <<>> THEN {<<"incomplete", c>>}
                      ELSE {}) \subseteq Warning
      BY WarningsAreTyped
    <2>2. warned \subseteq Warning
      BY WarningsAreTyped
    <2> QED BY <2>1, <2>2 DEF RemovePart, NoPart, Closing, posts
  <1>2. main \in {"channels", "rejected"} /\ main # "down"
    BY <1>1, ActiveMain
  <1>3. Sound(c, worker[c], mem.channel[c], disk.channel[c], local[c], part[c], final[c],
              synced[c], c \notin behind) /\ synced[c] \in Nat
    BY <1>2, InSession
  <1>4. \/ part' = [part EXCEPT ![c] = <<>>] /\ synced' = [synced EXCEPT ![c] = 0]
        \/ part' = part /\ part[c] = <<>> /\ synced' = synced /\ synced[c] = 0
    <2>1. part[c] = <<>> => synced[c] = 0
      BY <1>3, EmptyIsRun DEF Sound, SoundFiles
    <2> QED BY <2>1 DEF RemovePart, NoPart, posts
  <1>5. Sound(c, "finalized", mem.channel[c], disk.channel[c], local[c], <<>>, final[c], 0,
              c \notin behind)
    BY <1>1, <1>3, Removes
  <1>6. MovesFiles(c, "finalized", local[c], <<>>, final[c], 0)
    BY <1>1, <1>4 DEF MovesFiles, IInv, Typed, Goes, Workers
  <1>7. torn' \in [Channel -> BOOLEAN]
    BY <1>1 DEF IInv, Typed
  <1>8. "finalized" \in Workers \ {"todo", "describing"} /\ worker[c] \in Unmarked
    BY <1>1 DEF Workers, Unmarked, BeforeMark
  <1> QED BY <1>1, <1>2, <1>5, <1>6, <1>7, <1>8, FilesMove

\* A mark on the channel of one worker.
LEMMA MarkKeeps ==
  ASSUME IInv, NEW c \in Channel, NEW w1 \in Workers \ {"todo", "describing"}, Goes(c, w1),
         NEW p1 \in AnyProgress, Marks(c, p1), main \in {"channels", "rejected"},
         warned' \subseteq Warning,
         UNCHANGED <<main, local, fully, cited, leaving, disk, posts, listed>>,
         Sound(c, w1, p1, disk.channel[c], local[c], part[c], final[c], synced[c],
               c \notin behind),
         w1 \in Unmarked => worker[c] \in Unmarked
  PROVE  IInv'
  <1>1. /\ mem' \in StateOf /\ mem'.channel[c] = p1
        /\ \A d \in Channel \ {c} : mem'.channel[d] = mem.channel[d]
    BY MarksOne DEF IInv
  <1>2. worker'[c] = w1 /\ worker' \in [Channel -> Workers]
        /\ \A d \in Channel \ {c} : worker'[d] = worker[d]
    BY DEF IInv, Typed, Goes
  <1>3. Typed'
    BY <1>1, <1>2 DEF IInv, Typed, posts, listed
  <1>4. \A d \in Channel \ {c} : Untouched(d)
    BY <1>1, <1>2 DEF Untouched, posts, listed
  <1>5. ChannelInv(c)'
    BY <1>1, <1>2 DEF ChannelInv, Kept, posts, listed
  <1>6. RowsOf(c)'
    BY <1>2, RowsKept DEF IInv, listed
  <1> QED BY <1>2, <1>3, <1>4, <1>5, <1>6, WorkerKeeps DEF listed

\* A change of the mark of a channel alone.
Marked(p, status) == [p EXCEPT !.status = status]
IsMarked(p, p1, status) ==
  /\ p1 \in AnyProgress /\ p1.status = status /\ p1.cursor = p.cursor
  /\ p1.newest = p.newest /\ p1.finalized = p.finalized /\ p1.written = p.written

LEMMA MarkedIsProgress ==
  ASSUME NEW p \in AnyProgress, NEW status \in Statuses
  PROVE  IsMarked(p, Marked(p, status), status)
  BY DEF IsMarked, Marked, AnyProgress

MarkedFinal(p, written) == [p EXCEPT !.finalized = TRUE, !.written = written]
IsMarkedFinal(p, p1, written) ==
  /\ p1 \in AnyProgress /\ p1.status = p.status /\ p1.cursor = p.cursor
  /\ p1.newest = p.newest /\ p1.finalized = TRUE /\ p1.written = written

LEMMA MarkedFinalIsProgress ==
  ASSUME NEW p \in AnyProgress, NEW written \in Nat
  PROVE  IsMarkedFinal(p, MarkedFinal(p, written), written)
  BY DEF IsMarkedFinal, MarkedFinal, AnyProgress

LEMMA MarkFinalizedKeeps ==
  ASSUME IInv, NEW c \in Channel, MarkFinalized(c)
  PROVE  IInv'
  <1> DEFINE p == mem.channel[c]
             p1 == MarkedFinal(p, local[c].written)
  <1>1. /\ worker[c] = "finalized" /\ Goes(c, "savingFinal") /\ Marks(c, p1)
        /\ UNCHANGED <<main, local, fully, cited, warned, leaving, disk, posts, listed>>
    BY DEF MarkFinalized, Progress, MarkedFinal
  <1>2. main \in {"channels", "rejected"} /\ main # "down"
    BY <1>1, ActiveMain
  <1>3. /\ Sound(c, "finalized", p, disk.channel[c], local[c], part[c], final[c], synced[c],
                 c \notin behind)
        /\ p \in AnyProgress /\ local[c].written \in Nat
    BY <1>1, <1>2, InSession DEF LocalOf
  <1>4. IsMarkedFinal(p, p1, local[c].written)
    BY <1>3, MarkedFinalIsProgress
  <1> HIDE DEF p1
  <1>5. Sound(c, "savingFinal", p1, disk.channel[c], local[c], part[c], final[c], synced[c],
              c \notin behind) /\ p1 \in AnyProgress
    <2> HIDE DEF p
    <2> QED BY <1>3, <1>4, Finalizes DEF IsMarkedFinal
  <1>6. "savingFinal" \in Workers \ {"todo", "describing"} /\ worker[c] \in Unmarked
        /\ warned' \subseteq Warning
    BY <1>1 DEF Workers, Unmarked, BeforeMark, IInv, Typed
  <1> QED BY <1>1, <1>2, <1>5, <1>6, MarkKeeps

LEMMA MarkCompleteKeeps ==
  ASSUME IInv, NEW c \in Channel, MarkComplete(c)
  PROVE  IInv'
  <1> DEFINE p == mem.channel[c]
             p1 == Marked(p, "complete")
  <1>1. /\ worker[c] = "describing" /\ Goes(c, "savingDone") /\ Marks(c, p1)
        /\ UNCHANGED <<main, local, fully, cited, warned, leaving, disk, posts, listed>>
    BY DEF MarkComplete, Progress, Marked
  <1>2. main \in {"channels", "rejected"} /\ main # "down"
    BY <1>1, ActiveMain
  <1>3. /\ Sound(c, "describing", p, disk.channel[c], local[c], part[c], final[c], synced[c],
                 c \notin behind)
        /\ p \in AnyProgress
    BY <1>1, <1>2, InSession
  <1>4. IsMarked(p, p1, "complete")
    BY <1>3, MarkedIsProgress DEF Statuses
  <1>5. p.finalized /\ disk.channel[c].finalized /\ disk.channel[c].written = p.written
    BY <1>3 DEF Sound, SoundMarks, AfterMark
  <1> HIDE DEF p1
  <1>6. Sound(c, "savingDone", p1, disk.channel[c], local[c], part[c], final[c], synced[c],
              c \notin behind) /\ p1 \in AnyProgress
    <2> HIDE DEF p
    <2> QED BY <1>3, <1>4, <1>5, Completes DEF IsMarked
  <1>7. "savingDone" \in Workers \ {"todo", "describing"} /\ "savingDone" \notin Unmarked
        /\ warned' \subseteq Warning
    BY <1>1 DEF Workers, Unmarked, BeforeMark, IInv, Typed
  <1> QED BY <1>1, <1>2, <1>6, <1>7, MarkKeeps

LEMMA MarkFailedKeeps ==
  ASSUME IInv, NEW c \in Channel, MarkFailed(c)
  PROVE  IInv'
  <1> DEFINE p == mem.channel[c]
             p1 == Marked(p, "failed")
  <1>1. /\ worker[c] = "failing" /\ Goes(c, "savingFailed") /\ Marks(c, p1)
        /\ warned' = warned \cup {<<"incomplete", c>>}
        /\ UNCHANGED <<main, local, fully, cited, leaving, disk, posts, listed>>
    BY DEF MarkFailed, Progress, Marked
  <1>2. main \in {"channels", "rejected"} /\ main # "down"
    BY <1>1, ActiveMain
  <1>3. /\ Sound(c, "failing", p, disk.channel[c], local[c], part[c], final[c], synced[c],
                 c \notin behind)
        /\ p \in AnyProgress
    BY <1>1, <1>2, InSession
  <1>4. IsMarked(p, p1, "failed")
    BY <1>3, MarkedIsProgress DEF Statuses
  <1> HIDE DEF p1
  <1>5. Sound(c, "savingFailed", p1, disk.channel[c], local[c], part[c], final[c], synced[c],
              c \notin behind) /\ p1 \in AnyProgress
    <2> HIDE DEF p
    <2> QED BY <1>3, <1>4, Fails DEF IsMarked
  <1>6. "savingFailed" \in Workers \ {"todo", "describing"} /\ "savingFailed" \notin Unmarked
        /\ warned' \subseteq Warning
    BY <1>1, WarningsAreTyped DEF Workers, Unmarked, BeforeMark
  <1> QED BY <1>1, <1>2, <1>5, <1>6, MarkKeeps

\* What a worker has seen is posts of its channel; nothing is seen, and nothing
\* written, by one that found its channel below what is asked for.
LEMMA SeenIsOfTheChannel ==
  ASSUME IInv, NEW c \in Channel, main # "down", worker[c] \in Opened
  PROVE  /\ SeenBy(c) \subseteq 1 .. Size[c]
         /\ SeenBy(c) # {} => local[c].written > 0
  <1>1. SoundLocal(c, worker[c], local[c], c \notin behind) /\ LocalTyped(c, local[c])
    BY InSession DEF Sound
  <1>2. /\ local[c].cursor \in Nat /\ local[c].from \in Nat /\ local[c].written \in Nat
        /\ local[c].cursor >= 1 /\ local[c].from <= NoCursor(c)
        /\ local[c].written = 0 => local[c].cursor = NoCursor(c)
    BY <1>1 DEF SoundLocal, LocalTyped, LocalOf
  <1> QED BY <1>2, ChannelNumbers DEF SeenBy

LEMMA FilesAreKnown ==
  ASSUME NEW c \in Channel, NEW ns, ns \subseteq 1 .. Size[c]
  PROVE  FilesOf(c, ns) \subseteq AllFiles
  BY DEF FilesOf, AllFiles

LEMMA SaveFinalKeeps ==
  ASSUME IInv, NEW c \in Channel, SaveFinal(c)
  PROVE  IInv'
  <1> DEFINE p == mem.channel[c]
             left == FilesOf(c, SeenBy(c)) \ mem.downloaded
             l1 == Listing(local[c], left)
  <1>1. /\ worker[c] = "savingFinal" /\ Goes(c, "describing") /\ disk' = mem
        /\ local' = [local EXCEPT ![c] = l1]
        /\ UNCHANGED <<main, mem, cited, warned, leaving, posts, listed>>
        /\ fully' \subseteq Channel
    BY DEF SaveFinal, Listing, IInv, Typed
  <1>2. main \in {"channels", "rejected"} /\ main # "down"
    BY <1>1, ActiveMain
  <1>3. /\ Sound(c, "savingFinal", p, disk.channel[c], local[c], part[c], final[c],
                 synced[c], c \notin behind)
        /\ local[c] \in LocalOf /\ RowsOf(c)
    BY <1>1, <1>2, InSession
  <1>4. left \in SUBSET AllFiles
    <2>1. SeenBy(c) \subseteq 1 .. Size[c]
      BY <1>1, <1>2, SeenIsOfTheChannel DEF Opened
    <2> QED BY <2>1, FilesAreKnown
  <1> HIDE DEF left
  <1>5. SameLocal(local[c], l1)
    BY <1>3, <1>4, ListingIsSame
  <1>6. l1.left = left /\ l1 \in LocalOf
    BY <1>3, <1>5 DEF SameLocal, Listing, LocalOf
  <1> HIDE DEF l1
  <1>7. Sound(c, "describing", p, p, l1, part[c], final[c], synced[c], c \notin behind)
    <2>1. Sound(c, "describing", p, p, local[c], part[c], final[c], synced[c],
                c \notin behind)
      BY <1>3, Saves, Describes
    <2> QED BY <2>1, <1>5, SameLocalKeeps
  <1>8. /\ worker'[c] = "describing" /\ local'[c] = l1
        /\ worker' \in [Channel -> Workers] /\ local' \in [Channel -> LocalOf]
        /\ \A d \in Channel \ {c} : worker'[d] = worker[d] /\ local'[d] = local[d]
    BY <1>1, <1>6 DEF IInv, Typed, Goes, Workers
  <1>9. Typed'
    BY <1>1, <1>8 DEF IInv, Typed, posts, listed
  <1>10. \A d \in Channel \ {c} : Untouched(d)
    BY <1>1, <1>8 DEF Untouched, posts, listed
  <1>11. ChannelInv(c)'
    BY <1>1, <1>2, <1>7, <1>8 DEF ChannelInv, Kept, posts, listed
  <1>12. RowsOf(c)'
    <2>1. ASSUME NEW f \in AllFiles, f[1] = c PROVE rows'[f] = 0
      <3>1. rows[f] \in Nat /\ ~(rows[f] > 0)
        BY <2>1, <1>1, <1>3 DEF RowsOf, IInv, Typed
      <3> QED BY <3>1, <1>1 DEF listed
    <2>2. SeenBy(c)' = SeenBy(c)
      BY <1>5, <1>8 DEF SeenBy, SameLocal
    <2>3. ASSUME NEW f \in local'[c].left
          PROVE  f \in FilesOf(c, SeenBy(c)') /\ rows'[f] = 0
      <3>1. f \in left
        BY <2>3, <1>6, <1>8
      <3>2. f \in FilesOf(c, SeenBy(c)) /\ f \in AllFiles
        BY <3>1, <1>4 DEF left
      <3>3. f[1] = c
        BY <3>2, FilesAreOfTheirChannel
      <3> QED BY <3>2, <3>3, <2>1, <2>2
    <2> QED BY <2>1, <2>3 DEF RowsOf
  <1> QED BY <1>1, <1>2, <1>8, <1>9, <1>10, <1>11, <1>12, WorkerKeeps DEF listed

LEMMA DescribeKeeps ==
  ASSUME IInv, NEW c \in Channel, DescribeFile(c)
  PROVE  IInv'
  <1> DEFINE p == mem.channel[c]
             q == disk.channel[c]
  <1>1. /\ worker[c] = "describing"
        /\ UNCHANGED <<main, mem, worker, fully, users, cited, leaving, disk, posts,
                       rowsTorn, usersFile, manifest, sessions, behind>>
    BY DEF DescribeFile
  <1>2. PICK f \in local[c].left :
          /\ rows' = [rows EXCEPT ![f] = @ + 1]
          /\ unfetched' \in {unfetched, unfetched \cup {f}}
          /\ warned' \in {warned, warned \cup {<<"download", c>>}}
          /\ local' = [local EXCEPT ![c].left = @ \ {f}]
    BY DEF DescribeFile
  <1> DEFINE left == local[c].left \ {f}
             l1 == Listing(local[c], left)
  <1>3. main \in {"channels", "rejected"} /\ main # "down"
    BY <1>1, ActiveMain
  <1>4. /\ Sound(c, "describing", p, q, local[c], part[c], final[c], synced[c],
                 c \notin behind)
        /\ local[c] \in LocalOf /\ RowsOf(c)
    BY <1>1, <1>3, InSession
  <1>5. local[c].left \subseteq AllFiles /\ left \in SUBSET AllFiles /\ f \in AllFiles
    BY <1>4 DEF LocalOf
  <1>6. f \in FilesOf(c, SeenBy(c)) /\ rows[f] = 0 /\ f[1] = c
    <2>1. f \in FilesOf(c, SeenBy(c)) /\ rows[f] = 0
      BY <1>1, <1>4 DEF RowsOf
    <2> QED BY <2>1, FilesAreOfTheirChannel
  <1>7. q.finalized /\ q.written > 0
    <2>1. SeenBy(c) # {}
      BY <1>6 DEF FilesOf
    <2>2. local[c].written > 0
      BY <2>1, <1>1, <1>3, SeenIsOfTheChannel DEF Opened
    <2>3. q.finalized /\ q.written = p.written /\ p.written = local[c].written
      BY <1>4 DEF Sound, SoundMarks, AfterMark
    <2> QED BY <2>2, <2>3
  <1>8. SameLocal(local[c], l1) /\ l1.left = left /\ l1 \in LocalOf
    <2> HIDE DEF left
    <2>1. SameLocal(local[c], l1)
      BY <1>4, <1>5, ListingIsSame
    <2> QED BY <2>1, <1>4 DEF SameLocal, Listing, LocalOf
  <1>9. local' = [local EXCEPT ![c] = l1]
    BY <1>2 DEF Listing
  <1> HIDE DEF l1
  <1>10. /\ local'[c] = l1 /\ local' \in [Channel -> LocalOf]
         /\ \A d \in Channel \ {c} : local'[d] = local[d]
    BY <1>8, <1>9 DEF IInv, Typed
  <1>11. /\ rows' \in [AllFiles -> Nat] /\ rows'[f] = 1
         /\ \A g \in AllFiles \ {f} : rows'[g] = rows[g]
    BY <1>2, <1>5, <1>6 DEF IInv, Typed
  <1>12. Typed'
    <2>1. unfetched' \subseteq AllFiles /\ warned' \subseteq Warning
      BY <1>2, <1>5, WarningsAreTyped DEF IInv, Typed
    <2> QED BY <2>1, <1>1, <1>10, <1>11 DEF IInv, Typed, posts
  <1>13. \A d \in Channel \ {c} : Untouched(d)
    BY <1>1, <1>6, <1>10, <1>11 DEF Untouched, posts
  <1>14. ChannelInv(c)'
    <2>1. Sound(c, "describing", p, q, l1, part[c], final[c], synced[c], c \notin behind)
      BY <1>4, <1>8, SameLocalKeeps
    <2> QED BY <2>1, <1>1, <1>3, <1>10 DEF ChannelInv, Kept, posts
  <1>15. RowsOf(c)'
    <2>1. ASSUME NEW g \in AllFiles, g[1] = c
          PROVE  /\ rows'[g] <= 1
                 /\ rows'[g] > 0 => disk'.channel[c].finalized /\ disk'.channel[c].written > 0
      BY <2>1, <1>1, <1>4, <1>7, <1>11 DEF RowsOf
    <2>2. SeenBy(c)' = SeenBy(c)
      BY <1>8, <1>10 DEF SeenBy, SameLocal
    <2>3. ASSUME NEW g \in local'[c].left
          PROVE  g \in FilesOf(c, SeenBy(c)') /\ rows'[g] = 0
      <3>1. g \in local[c].left /\ g # f /\ g \in AllFiles
        BY <2>3, <1>5, <1>8, <1>10
      <3> QED BY <3>1, <2>2, <1>1, <1>4, <1>11 DEF RowsOf
    <2>4. worker'[c] \notin BeforeMark \cup {"savingFinal"}
      BY <1>1 DEF BeforeMark
    <2> QED BY <2>1, <2>3, <2>4 DEF RowsOf
  <1> QED BY <1>1, <1>3, <1>12, <1>13, <1>14, <1>15, WorkerKeeps

\* The last save of a worker, and the list of described attachments.
LEMMA SaveDoneKeeps ==
  ASSUME IInv, NEW c \in Channel, SaveDone(c) \/ SaveInherited(c) \/ FailThrottled(c)
  PROVE  IInv'
  <1> DEFINE w1 == IF FailThrottled(c) THEN "threw" ELSE "done"
  <1>1. /\ worker[c] \in {"savingDone", "savingInherited", "savingFailed"} /\ Goes(c, w1)
        /\ UNCHANGED <<main, local, fully, cited, warned, leaving, posts, listed>>
    BY DEF SaveDone, SaveInherited, FailThrottled
  <1>10. w1 \in {"done", "threw"}
    OBVIOUS
  <1> HIDE DEF w1
  <1>2. main \in {"channels", "rejected"} /\ main # "down"
    BY <1>1, ActiveMain
  <1>3. /\ Sound(c, worker[c], mem.channel[c], disk.channel[c], local[c], part[c], final[c],
                 synced[c], c \notin behind)
        /\ RowsOf(c)
    BY <1>2, InSession
  <1>4. /\ mem' \in StateOf /\ disk' \in StateOf /\ mem'.channel = mem.channel
        /\ disk'.channel = mem.channel
    <2>1. mem \in StateOf
      BY DEF IInv, Typed
    <2>2. CASE SaveInherited(c)
      BY <2>1, <2>2 DEF SaveInherited
    <2>3. CASE SaveDone(c) \/ FailThrottled(c)
      <3>1. SeenBy(c) \subseteq 1 .. Size[c]
        BY <2>3, <1>2, SeenIsOfTheChannel DEF Opened, SaveDone, FailThrottled
      <3>2. FilesOf(c, SeenBy(c)) \subseteq AllFiles
        BY <3>1, FilesAreKnown
      <3>3. mem' \in StateOf /\ mem'.channel = mem.channel
        BY <2>1, <2>3, <3>2 DEF SaveDone, FailThrottled, StateOf
      <3> QED BY <2>1, <2>3, <3>3 DEF SaveDone, FailThrottled
    <2> QED BY <2>2, <2>3
  <1>5. worker'[c] = w1 /\ worker' \in [Channel -> Workers]
        /\ \A d \in Channel \ {c} : worker'[d] = worker[d]
    BY <1>1, <1>10 DEF IInv, Typed, Goes, Workers
  <1>6. Typed'
    BY <1>1, <1>4, <1>5 DEF IInv, Typed, posts, listed
  <1>7. \A d \in Channel \ {c} : Untouched(d)
    BY <1>1, <1>4, <1>5 DEF Untouched, posts, listed
  <1>8. ChannelInv(c)'
    <2>1. Sound(c, w1, mem.channel[c], mem.channel[c], local[c], part[c], final[c],
                synced[c], c \notin behind)
      BY <1>3, <1>10, Saves, Stops
    <2> QED BY <2>1, <1>1, <1>2, <1>4, <1>5 DEF ChannelInv, Kept, posts, listed
  <1>9. RowsOf(c)'
    <2>1. ChannelInv(c)
      BY DEF IInv
    <2>2. Savable(disk.channel[c]) => Savable(disk'.channel[c])
      BY <1>2, <1>4, <2>1, SavableStays
    <2> QED BY <1>1, <1>3, <1>5, <1>10, <2>2, RowsKept DEF listed, Unmarked, BeforeMark
  <1> QED BY <1>1, <1>2, <1>5, <1>10, <1>6, <1>7, <1>8, <1>9, WorkerKeeps DEF listed

(*---------------------------- sessions and deaths -------------------------*)
\* What a death leaves of the files of one channel.
Survives(c) ==
  /\ part'[c] \in Seq(Since .. Size[c]) /\ IsDescendingRun(part'[c])
  /\ synced[c] <= Len(part'[c])
  /\ c \notin behind /\ part'[c] # <<>> => TailNewest(part'[c]) = Size[c]
  /\ part[c] = <<>> /\ Savable(disk.channel[c]) => part'[c] = <<>>
  /\ final'[c] \in {final[c], <<>>}

\* A line of files.ndjson may go with it.
MayLoseLines == /\ rows' \in [AllFiles -> Nat]
                /\ \A f \in AllFiles : rows'[f] = rows[f] \/ rows'[f] = 0

LEMMA DownKeeps ==
  ASSUME IInv, main # "down", Down, \A c \in Channel : Survives(c),
         DOMAIN part' = Channel, DOMAIN final' = Channel,
         torn' \in [Channel -> BOOLEAN], rowsTorn' \in BOOLEAN, MayLoseLines,
         UNCHANGED <<disk, synced, unfetched, manifest, sessions, behind>>
  PROVE  IInv'
  <1>1. /\ main' = "down" /\ mem' = EmptyState
        /\ worker' = [c \in Channel |-> "todo"] /\ local' = [c \in Channel |-> NoLocal]
        /\ fully' = {} /\ cited' = {} /\ warned' = {} /\ leaving' = FALSE
    BY DEF Down, Reset
  <1>2. EmptyState \in StateOf
    <2>1. ASSUME NEW c \in Channel PROVE NewProgress(c) \in AnyProgress
      BY NewIsSound, ProgressIsTyped DEF SoundProgress
    <2> QED BY <2>1 DEF EmptyState, StateOf
  <1>3. NoLocal \in LocalOf
    BY DEF NoLocal, LocalOf
  <1>4. Typed'
    BY <1>1, <1>2, <1>3 DEF IInv, Typed, Workers, MayLoseLines
  <1>5. ASSUME NEW c \in Channel PROVE ChannelInv(c)' /\ TodoOf(c)' /\ RowsOf(c)'
    <2>1. Sound(c, worker[c], mem.channel[c], disk.channel[c], local[c], part[c], final[c],
                synced[c], c \notin behind) /\ RowsOf(c)
      BY InSession
    <2>2. Sound(c, "todo", disk.channel[c], disk.channel[c], NoLocal, part'[c], final'[c],
                synced[c], c \notin behind)
      <3> DEFINE P1 == part'[c]
                 F1 == final'[c]
                 fresh == c \notin behind
                 q == disk.channel[c]
      <3>1. /\ P1 \in Seq(Since .. Size[c]) /\ IsDescendingRun(P1)
            /\ synced[c] <= Len(P1) /\ F1 \in {final[c], <<>>}
            /\ fresh /\ P1 # <<>> => TailNewest(P1) = Size[c]
            /\ part[c] = <<>> /\ q.finalized /\ q.written > 0 => P1 = <<>>
        BY DEF Survives, Savable
      <3>2. Sound(c, worker[c], mem.channel[c], q, local[c], part[c], final[c], synced[c],
                  fresh)
        BY <2>1
      <3> HIDE DEF P1, F1, fresh, q
      <3>3. Sound(c, "todo", q, q, NoLocal, P1, F1, synced[c], fresh)
        BY ONLY <3>1, <3>2, c \in Channel, Dies
      <3> QED BY <3>3 DEF P1, F1, fresh, q
    <2>3. worker'[c] = "todo" /\ local'[c] = NoLocal
      BY <1>1
    <2>4. ChannelInv(c)'
      BY <1>1, <2>2, <2>3 DEF ChannelInv, Kept
    <2>5. RowsOf(c)'
      <3>1. \A f \in AllFiles : rows'[f] <= 1 \/ rows'[f] = rows[f]
        BY DEF MayLoseLines
      <3>2. \A f \in AllFiles : rows'[f] > 0 => rows'[f] = rows[f]
        BY DEF MayLoseLines
      <3> QED BY <2>1, <2>3, <3>1, <3>2 DEF RowsOf, BeforeMark
    <2>6. TodoOf(c)'
      BY <1>1 DEF TodoOf
    <2> QED BY <2>4, <2>5, <2>6
  <1>6. MainInv'
    BY <1>1 DEF MainInv, After
  <1> QED BY <1>4, <1>5, <1>6 DEF IInv

\* The files as they were.
LEMMA UntouchedSurvives ==
  ASSUME IInv, NEW c \in Channel, main # "down", part'[c] = part[c], final'[c] = final[c]
  PROVE  Survives(c)
  BY InSession DEF Survives, Sound, SoundFiles

LEMMA KillKeeps ==
  ASSUME IInv, Kill \/ KillInsideRow \/ Exit
  PROVE  IInv'
  <1>1. main # "down"
    BY ActiveMain DEF Kill, KillInsideRow, Exit
  <1>2. /\ Down /\ rowsTorn' \in BOOLEAN
        /\ UNCHANGED <<disk, posts, rows, unfetched, manifest, sessions, behind>>
    BY DEF Kill, KillInsideRow, Exit, listed, IInv, Typed
  <1>3. ASSUME NEW c \in Channel PROVE Survives(c)
    BY <1>1, <1>2, UntouchedSurvives DEF posts
  <1>4. DOMAIN part' = Channel /\ DOMAIN final' = Channel /\ torn' \in [Channel -> BOOLEAN]
        /\ UNCHANGED synced /\ MayLoseLines
    BY <1>2 DEF IInv, Typed, posts, MayLoseLines
  <1> QED BY <1>1, <1>2, <1>3, <1>4, DownKeeps

\* What a page leaves when the process dies inside it is its beginning.
LEMMA HalfAPage ==
  ASSUME NEW high \in Int, NEW low \in Int, low <= high, NEW n \in 0 .. high - low
  PROVE  SubSeq(NewestFirst(high, low), 1, n) = NewestFirst(high, high - n + 1)
  <1> DEFINE S == NewestFirst(high, low)
  <1>1. S = [i \in 1 .. (high - low + 1) |-> high - i + 1]
    BY DEF NewestFirst
  <1>2. S \in Seq(Int) /\ Len(S) = high - low + 1
    BY <1>1
  <1>3. NewestFirst(high, high - n + 1) = [i \in 1 .. n |-> high - i + 1]
    BY DEF NewestFirst
  <1> HIDE DEF S
  <1>4. SubSeq(S, 1, n) = [i \in 1 .. n |-> S[i]]
    BY <1>2
  <1>5. \A i \in 1 .. n : S[i] = high - i + 1
    BY <1>1
  <1> QED BY <1>3, <1>4, <1>5 DEF S

LEMMA KillInsidePageKeeps ==
  ASSUME IInv, NEW c \in Channel, KillInsidePage(c)
  PROVE  IInv'
  <1> DEFINE k == local[c].cursor
             high == FreshHigh(k)
  <1>1. /\ worker[c] = "paging" /\ Down /\ torn' = [torn EXCEPT ![c] = TRUE]
        /\ UNCHANGED <<disk, synced, final, listed>>
    BY DEF KillInsidePage, Paging
  <1>2. main # "down"
    BY <1>1, ActiveMain
  <1>3. PICK overlap \in Overlaps(c, k) :
          /\ BatchLow(k, overlap) <= high
          /\ \E n \in 0 .. high - BatchLow(k, overlap) :
               part' = [part EXCEPT ![c] =
                          @ \o SubSeq(NewestFirst(high, BatchLow(k, overlap)), 1, n)]
    BY DEF KillInsidePage
  <1> DEFINE low == BatchLow(k, overlap)
  <1>4. PICK n \in 0 .. high - low :
          part' = [part EXCEPT ![c] = @ \o SubSeq(NewestFirst(high, low), 1, n)]
    BY <1>3
  <1> DEFINE P == part[c]
             P1 == P \o NewestFirst(k - 1, k - n)
  <1>5. Sound(c, "paging", mem.channel[c], disk.channel[c], local[c], P, final[c], synced[c],
              c \notin behind)
    BY <1>1, <1>2, InSession
  <1>6. /\ k \in Int /\ k >= 1 /\ k <= NoCursor(c) /\ k \in 1 .. NoCursor(c)
        /\ c \notin behind /\ P = <<>> => k = NoCursor(c)
        /\ P # <<>> => TailCursor(P) = k
    <2>1. k \in Nat /\ k >= 1 /\ k <= NoCursor(c)
      BY <1>5 DEF Sound, SoundLocal, LocalTyped, LocalOf, Opened
    <2>2. /\ c \notin behind /\ P = <<>> => k = NoCursor(c)
          /\ P # <<>> => TailCursor(P) = k
      BY <1>5 DEF Sound, SoundFiles
    <2> QED BY <2>1, <2>2, ChannelNumbers
  <1>7. high = k - 1 /\ low \in Int /\ low >= Since /\ low <= high
    BY <1>3, <1>6, PageBounds
  <1>8. part' = [part EXCEPT ![c] = P1]
    <2> HIDE DEF high, low
    <2>1. SubSeq(NewestFirst(high, low), 1, n) = NewestFirst(high, high - n + 1)
      <3>1. high \in Int /\ low \in Int /\ low <= high /\ n \in 0 .. high - low
        BY <1>6, <1>7
      <3> QED BY ONLY <3>1, HalfAPage
    <2>2. high - n + 1 = k - n
      BY <1>6, <1>7
    <2> QED BY <1>4, <1>7, <2>1, <2>2
  <1>9. /\ P1 \in Seq(Since .. Size[c]) /\ IsDescendingRun(P1) /\ Len(P1) >= Len(P)
        /\ c \notin behind /\ P1 # <<>> => TailNewest(P1) = Size[c]
    <2>1. /\ P \in Seq(Since .. Size[c]) /\ IsDescendingRun(P) /\ Len(P) \in Nat
          /\ c \notin behind /\ P # <<>> => TailNewest(P) = Size[c]
      BY <1>5, LenProperties DEF Sound, SoundFiles
    <2> DEFINE at == k - n
    <2>2. /\ Since \in Int /\ Size[c] \in Int /\ Since >= 1 /\ at \in Int
          /\ Since <= at /\ at <= k /\ k - 1 <= Size[c] /\ NoCursor(c) = Size[c] + 1
      <3> HIDE DEF high, low, k
      <3>1. n \in Int /\ n >= 0 /\ n <= high - low
        BY <1>6, <1>7
      <3>2. Since \in Int /\ Size[c] \in Int /\ Since >= 1 /\ NoCursor(c) = Size[c] + 1
        BY ChannelNumbers
      <3> QED BY <3>1, <3>2, <1>6, <1>7
    <2> HIDE DEF at, k, P
    <2>3. Appended(P, P \o NewestFirst(k - 1, at), k, at, Since, Size[c])
      BY <1>6, <2>1, <2>2, AppendKeepsRun
    <2>4. /\ P1 \in Seq(Since .. Size[c]) /\ IsDescendingRun(P1)
          /\ Len(P1) = Len(P) + (k - at)
          /\ P # <<>> => TailNewest(P1) = TailNewest(P)
          /\ P = <<>> /\ at < k => P1 # <<>> /\ TailNewest(P1) = k - 1
      BY <2>3 DEF Appended, at
    <2>5. Len(P1) >= Len(P)
      BY ONLY <2>1, <2>2, <2>4, <1>6
    <2>6. ASSUME c \notin behind, P1 # <<>> PROVE TailNewest(P1) = Size[c]
      <3>1. CASE P # <<>>
        BY <2>1, <2>4, <2>6, <3>1
      <3>2. CASE P = <<>>
        <4>1. at < k
          <5>1. Len(P1) \in Nat /\ Len(P1) # 0
            BY <2>4, <2>6, EmptySeq
          <5>2. Len(P) = 0
            BY <3>2, EmptyIsRun
          <5> QED BY <5>1, <5>2, <2>2, <2>4, <1>6
        <4> QED BY <3>2, <4>1, <1>6, <2>2, <2>4, <2>6
      <3> QED BY <3>1, <3>2
    <2> QED BY <2>4, <2>5, <2>6
  <1>10. ASSUME NEW d \in Channel PROVE Survives(d)
    <2>1. CASE d # c
      BY <2>1, <1>1, <1>2, <1>8, UntouchedSurvives
    <2>2. CASE d = c
      <3>1. part'[c] = P1
        BY <1>8 DEF IInv, Typed
      <3>2. ~Savable(disk.channel[c]) /\ synced[c] <= Len(P)
        BY <1>5 DEF Sound, SoundMarks, SoundFiles, Savable, BeforeMark
      <3>3. synced[c] \in Nat /\ Len(P) \in Nat /\ Len(P1) \in Nat
        BY <1>5, <1>9, LenProperties DEF IInv, Typed, Sound, SoundFiles
      <3> HIDE DEF P1, P
      <3>4. synced[c] <= Len(P1)
        BY <3>2, <3>3, <1>9
      <3> QED BY <2>2, <3>1, <3>2, <3>4, <1>1, <1>9 DEF Survives
    <2> QED BY <2>1, <2>2
  <1>11. /\ DOMAIN part' = Channel /\ DOMAIN final' = Channel
         /\ torn' \in [Channel -> BOOLEAN] /\ rowsTorn' \in BOOLEAN
         /\ MayLoseLines /\ UNCHANGED <<disk, synced, unfetched, manifest, sessions, behind>>
    BY <1>1, <1>8 DEF IInv, Typed, listed, MayLoseLines
  <1> QED BY <1>1, <1>2, <1>10, <1>11, DownKeeps

LEMMA PowerLossKeeps ==
  ASSUME IInv, PowerLoss
  PROVE  IInv'
  <1>1. /\ main # "down" /\ Down
        /\ UNCHANGED <<disk, torn, synced, unfetched, manifest, sessions, behind>>
    BY DEF PowerLoss
  <1>2. PICK kept \in [Channel -> 0 .. PerPage * FlushEvery],
             lost \in SUBSET {c \in Channel : local[c].reversed} :
          /\ \A c \in Channel : synced[c] + kept[c] <= Len(part[c])
          /\ part' = [c \in Channel |-> SubSeq(part[c], 1, synced[c] + kept[c])]
          /\ final' = [c \in Channel |-> IF c \in lost THEN <<>> ELSE final[c]]
    BY DEF PowerLoss
  <1>3. ASSUME NEW c \in Channel PROVE Survives(c)
    <2> DEFINE n == synced[c] + kept[c]
               P1 == SubSeq(part[c], 1, n)
    <2>1. Sound(c, worker[c], mem.channel[c], disk.channel[c], local[c], part[c], final[c],
                synced[c], c \notin behind) /\ synced[c] \in Nat
      BY <1>1, InSession
    <2>2. /\ part[c] \in Seq(Since .. Size[c]) /\ IsDescendingRun(part[c])
          /\ c \notin behind /\ part[c] # <<>> => TailNewest(part[c]) = Size[c]
          /\ Since \in Int /\ Size[c] \in Int /\ Len(part[c]) \in Nat
      BY <2>1, ChannelNumbers, LenProperties DEF Sound, SoundFiles
    <2>3. kept[c] \in Nat
      <3>1. PerPage * FlushEvery \in Int
        BY ChannelAssumption, ExtractionAssumption
      <3> QED BY <3>1
    <2>4. n \in 0 .. Len(part[c]) /\ synced[c] <= n
      BY <1>2, <2>1, <2>2, <2>3
    <2>5. Prefix(part[c], P1, n, Since, Size[c])
      <3> HIDE DEF n
      <3> QED BY <2>2, <2>4, PrefixKeepsRun
    <2>6. part'[c] = P1 /\ final'[c] \in {final[c], <<>>}
      BY <1>2
    <2> HIDE DEF P1, n
    <2> QED BY <2>2, <2>4, <2>5, <2>6 DEF Survives, Prefix
  <1>4. /\ DOMAIN part' = Channel /\ DOMAIN final' = Channel
        /\ torn' \in [Channel -> BOOLEAN] /\ rowsTorn' \in BOOLEAN
        /\ UNCHANGED <<disk, synced, unfetched, manifest, sessions, behind>>
    <2>1. rowsTorn' \in BOOLEAN
      <3>1. rowsTorn \in BOOLEAN
        BY DEF IInv, Typed
      <3>2. PICK gone \in LastLines :
              rowsTorn' \in IF gone = {} THEN {rowsTorn} ELSE {FALSE, "torn" \in Faults}
        BY DEF PowerLoss
      <3>3. ("torn" \in Faults) \in BOOLEAN
        OBVIOUS
      <3>4. CASE gone = {}
        <4>1. rowsTorn' = rowsTorn
          BY <3>2, <3>4
        <4> QED BY <3>1, <4>1
      <3>5. CASE gone # {}
        <4>1. rowsTorn' \in {FALSE, "torn" \in Faults}
          BY <3>2, <3>5
        <4> QED BY <3>3, <4>1, Zenon
      <3> QED BY <3>4, <3>5
    <2> QED BY <1>1, <1>2, <2>1 DEF IInv, Typed
  <1>5. MayLoseLines
    BY DEF PowerLoss, MayLoseLines, IInv, Typed
  <1> QED BY <1>1, <1>3, <1>4, <1>5, DownKeeps

\* A session loads the saved state; a channel it finds behind is remembered.
LEMMA StartKeeps ==
  ASSUME IInv, StartSession
  PROVE  IInv'
  <1>1. /\ main = "down" /\ main' = "channels" /\ mem' = disk /\ sessions < MaxSessions
        /\ sessions' = sessions + 1
        /\ behind' = behind \cup {c \in Channel : Behind(c)}
        /\ UNCHANGED <<worker, local, fully, cited, warned, leaving, disk, posts, rows,
                       rowsTorn, unfetched, manifest>>
    BY DEF StartSession
  <1>2. worker = [c \in Channel |-> "todo"]
    BY <1>1 DEF IInv, MainInv
  <1>3. Typed'
    <2>1. sessions' \in 0 .. MaxSessions
      BY <1>1, ExtractionAssumption DEF IInv, Typed
    <2>2. behind' \subseteq Channel /\ mem' \in StateOf
      BY <1>1 DEF IInv, Typed
    <2> QED BY <2>1, <2>2, <1>1 DEF IInv, Typed, posts
  <1>4. ASSUME NEW c \in Channel PROVE ChannelInv(c)' /\ TodoOf(c)' /\ RowsOf(c)'
    <2>1. Sound(c, worker[c], disk.channel[c], disk.channel[c], local[c], part[c], final[c],
                synced[c], c \notin behind)
      BY <1>1 DEF IInv, ChannelInv, Kept
    <2>2. Sound(c, worker[c], disk.channel[c], disk.channel[c], local[c], part[c], final[c],
                synced[c], c \notin behind')
      <3> DEFINE fresh == c \notin behind
                 fresh1 == c \notin behind'
      <3>1. fresh1 => fresh
        BY <1>1
      <3>2. Sound(c, worker[c], disk.channel[c], disk.channel[c], local[c], part[c], final[c],
                  synced[c], fresh)
        BY <2>1
      <3> HIDE DEF fresh, fresh1
      <3>3. Sound(c, worker[c], disk.channel[c], disk.channel[c], local[c], part[c], final[c],
                  synced[c], fresh1)
        BY <3>1, <3>2, LosesFreshness
      <3> QED BY <3>3 DEF fresh1
    <2>3. ChannelInv(c)'
      BY <1>1, <2>2 DEF ChannelInv, Kept, posts
    <2>4. TodoOf(c)'
      <3>1. Len(part[c]) \in Nat /\ disk.channel[c].written \in Nat
        BY LenProperties DEF IInv, ChannelInv, Typed, StateOf, AnyProgress, Sound, SoundFiles
      <3>2. c \notin behind' /\ ~disk.channel[c].finalized
              => ~(Len(part[c]) < disk.channel[c].written)
        BY <1>1 DEF Behind
      <3> QED BY <3>1, <3>2, <1>1 DEF TodoOf, posts
    <2>5. RowsOf(c)'
      <3>1. worker'[c] = "todo" /\ worker[c] = "todo"
        BY <1>1, <1>2
      <3> QED BY <3>1, <1>1 DEF IInv, RowsOf, BeforeMark
    <2> QED BY <2>3, <2>4, <2>5
  <1>5. MainInv'
    BY <1>1 DEF MainInv, After
  <1> QED BY <1>3, <1>4, <1>5 DEF IInv

(*--------------------------- the steps of the main task -------------------*)
LEMMA MainKeeps ==
  ASSUME IInv, main # "down", main' # "down", behind' = behind, Typed', MainInv',
         \A d \in Channel : Untouched(d)
  PROVE  IInv'
  BY UntouchedKept DEF IInv

LEMMA InterruptKeeps ==
  ASSUME IInv, Interrupt
  PROVE  IInv'
  <1>1. /\ main # "down" /\ disk' = mem /\ leaving' = TRUE
        /\ UNCHANGED <<main, mem, worker, local, fully, cited, warned, posts, listed>>
    BY DEF Interrupt
  <1>2. Typed'
    BY <1>1 DEF IInv, Typed, posts, listed
  <1>3. MainInv'
    BY <1>1 DEF IInv, MainInv, Complete, Progress, posts, listed
  <1>4. \A d \in Channel : Untouched(d)
    BY <1>1 DEF Untouched, posts, listed
  <1> QED BY <1>1, <1>2, <1>3, <1>4, MainKeeps DEF listed

\* What a file cites is of its channel, and known.
LEMMA CitedAreKnown ==
  ASSUME IInv, NEW c \in Channel
  PROVE  Lines(final[c]) \subseteq Since .. Size[c] /\ Lines(final[c]) \subseteq 1 .. Size[c]
         /\ FilesOf(c, Lines(final[c])) \subseteq AllFiles
  <1>1. final[c] \in Seq(Since .. Size[c])
    BY DEF IInv, ChannelInv, Sound, SoundFiles
  <1>2. Lines(final[c]) \subseteq Since .. Size[c]
    <2>1. DOMAIN final[c] = 1 .. Len(final[c])
      BY <1>1, LenProperties
    <2>2. \A i \in DOMAIN final[c] : final[c][i] \in Since .. Size[c]
      BY <1>1, <2>1, ElementOfSeq
    <2> QED BY <2>2 DEF Lines
  <1>3. Lines(final[c]) \subseteq 1 .. Size[c]
    BY <1>2, ChannelNumbers
  <1> QED BY <1>2, <1>3, FilesAreKnown

LEMMA RereadKeeps ==
  ASSUME IInv, Reread
  PROVE  IInv'
  <1>1. /\ main = "channels" /\ main' = "repair" /\ \A c \in Channel : worker[c] = "done"
        /\ cited' = UNION {FilesOf(c, Lines(final[c])) : c \in Complete \ fully}
        /\ UNCHANGED <<mem, worker, local, fully, warned, leaving, disk, posts, listed>>
    BY DEF Reread
  <1>2. Typed'
    <2>1. cited' \subseteq AllFiles
      BY <1>1, CitedAreKnown DEF Complete
    <2> QED BY <2>1, <1>1 DEF IInv, Typed, posts, listed
  <1>3. MainInv'
    <2>1. UNION {FilesOf(c, Lines(final[c])) : c \in Complete \ fully}
            \subseteq UNION {FilesOf(c, Lines(final[c])) : c \in Complete}
      OBVIOUS
    <2>2. cited' \subseteq (UNION {FilesOf(c, Lines(final[c])) : c \in Complete})'
      BY <1>1, <2>1 DEF Complete, Progress, posts
    <2> QED BY <2>2, <1>1 DEF MainInv
  <1>4. \A d \in Channel : Untouched(d)
    BY <1>1 DEF Untouched, posts, listed
  <1> QED BY <1>1, <1>2, <1>3, <1>4, MainKeeps DEF listed

LEMMA RejectKeeps ==
  ASSUME IInv, Reject
  PROVE  IInv'
  <1>1. /\ main # "down" /\ main' = "rejected"
        /\ UNCHANGED <<mem, worker, local, fully, cited, warned, leaving, disk, posts,
                       listed>>
    BY DEF Reject
  <1>2. Typed'
    BY <1>1 DEF IInv, Typed, posts, listed
  <1>3. MainInv'
    BY <1>1 DEF MainInv, After
  <1>4. \A d \in Channel : Untouched(d)
    BY <1>1 DEF Untouched, posts, listed
  <1> QED BY <1>1, <1>2, <1>3, <1>4, MainKeeps DEF listed

\* An attachment a complete channel cites belongs to posts that are saved.
LEMMA CitedIsSaved ==
  ASSUME IInv, main = "repair", NEW f \in cited
  PROVE  /\ f \in AllFiles /\ f[1] \in Channel /\ f[1] \in Complete
         /\ Savable(disk.channel[f[1]])
  <1>1. PICK c \in Complete : f \in FilesOf(c, Lines(final[c]))
    BY DEF IInv, MainInv
  <1>2. c \in Channel /\ f[1] = c /\ f[2] \in Lines(final[c])
    BY <1>1, FilesAreOfTheirChannel DEF Complete
  <1>3. f[2] \in Since .. Size[c]
    BY <1>2, CitedAreKnown
  <1>4. ~(Since > Size[c])
    BY <1>2, <1>3, ChannelNumbers
  <1>5. Sound(c, worker[c], mem.channel[c], disk.channel[c], local[c], part[c], final[c],
              synced[c], c \notin behind)
    BY <1>2, InSession
  <1>6. /\ SoundProgress(c, mem.channel[c]) /\ SoundProgress(c, disk.channel[c])
        /\ disk.channel[c].finalized /\ disk.channel[c].written \in 0 .. Size[c]
    <2>1. mem.channel[c].status = "complete"
      BY <1>1 DEF Complete, Progress
    <2> QED BY <2>1, <1>2, <1>5, ProgressIsTyped DEF Sound, SoundMarks, SoundProgress
  <1>7. disk.channel[c].written # 0
    BY <1>4, <1>6 DEF SoundProgress
  <1>8. Savable(disk.channel[c])
    BY <1>2, <1>6, <1>7, ChannelNumbers DEF Savable
  <1> QED BY <1>1, <1>2, <1>8 DEF IInv, Typed

\* Lines are added for attachments that had none.
LEMMA RepairKeeps ==
  ASSUME IInv, RepairFiles \/ RepairThrows
  PROVE  IInv'
  <1>1. /\ main = "repair" /\ main' \in {"users", "rejected"} /\ rowsTorn' \in BOOLEAN
        /\ UNCHANGED <<mem, worker, local, fully, cited, leaving, disk, posts, manifest,
                       sessions, behind>>
    BY DEF RepairFiles, RepairThrows, IInv, Typed
  <1>2. PICK found \in SUBSET Missing :
          /\ rows' = [f \in AllFiles |-> rows[f] + IF f \in found THEN 1 ELSE 0]
          /\ \E refused \in Refused(found) : unfetched' = unfetched \cup refused
    BY DEF RepairFiles, RepairThrows, Found
  <1>3. Missing \subseteq cited /\ cited \subseteq AllFiles
    BY DEF Missing, IInv, Typed
  <1>4. /\ rows' \in [AllFiles -> Nat]
        /\ \A f \in AllFiles \ found : rows'[f] = rows[f]
        /\ \A f \in found : rows'[f] = 1
    <2>1. rows \in [AllFiles -> Nat]
      BY DEF IInv, Typed
    <2>2. \A f \in found : rows[f] = 0 /\ f \in AllFiles
      BY <1>3, <2>1 DEF Missing, Described
    <2> QED BY <2>1, <2>2, <1>2
  <1>5. Typed'
    <2>1. unfetched' \subseteq AllFiles
      BY <1>2, <1>3 DEF Refused, IInv, Typed
    <2>2. \A f \in Missing : f[1] \in Channel
      BY <1>1, <1>3, CitedIsSaved
    <2>3. warned' \subseteq warned \cup {<<"download", f[1]>> : f \in Missing}
      BY DEF RepairFiles, RepairThrows
    <2>4. warned' \subseteq Warning
      BY <2>2, <2>3 DEF Warning, IInv, Typed
    <2> QED BY <2>1, <2>4, <1>1, <1>4 DEF IInv, Typed, posts
  <1>6. MainInv'
    BY <1>1 DEF IInv, MainInv, After
  <1>7. ASSUME NEW c \in Channel PROVE ChannelInv(c)' /\ TodoOf(c)' /\ RowsOf(c)'
    <2>1. worker[c] = "done" /\ ChannelInv(c) /\ RowsOf(c)
      BY <1>1 DEF IInv, MainInv, After
    <2>2. ChannelInv(c)'
      BY <1>1, <2>1 DEF ChannelInv, Kept, posts
    <2>3. TodoOf(c)'
      BY <1>1, <2>1 DEF TodoOf
    <2>4. ASSUME NEW f \in AllFiles, f[1] = c
          PROVE  /\ rows'[f] <= 1
                 /\ rows'[f] > 0 => disk.channel[c].finalized /\ disk.channel[c].written > 0
      <3>1. CASE f \in found
        BY <3>1, <2>4, <1>1, <1>2, <1>3, <1>4, CitedIsSaved DEF Savable
      <3>2. CASE f \notin found
        BY <3>2, <2>1, <2>4, <1>4 DEF RowsOf
      <3> QED BY <3>1, <3>2
    <2>5. RowsOf(c)'
      BY <1>1, <2>1, <2>4 DEF RowsOf, BeforeMark
    <2> QED BY <2>2, <2>3, <2>5
  <1> QED BY <1>5, <1>6, <1>7 DEF IInv

LEMMA FetchKeeps ==
  ASSUME IInv, FetchUsers
  PROVE  IInv'
  <1>1. /\ main = "users" /\ main' = "publish"
        /\ UNCHANGED <<mem, worker, local, fully, cited, warned, leaving, disk, posts, rows,
                       rowsTorn, unfetched, manifest, sessions, behind>>
    BY DEF FetchUsers
  <1>2. Typed'
    BY <1>1 DEF IInv, Typed, posts
  <1>3. MainInv'
    BY <1>1 DEF IInv, MainInv, After
  <1>4. \A d \in Channel : Untouched(d)
    BY <1>1 DEF Untouched, posts
  <1> QED BY <1>1, <1>2, <1>3, <1>4, MainKeeps

LEMMA PublishKeeps ==
  ASSUME IInv, Publish
  PROVE  IInv'
  <1>1. /\ main = "publish" /\ main' = "closing"
        /\ warned' = warned \cup {<<"incomplete", c>> :
                           c \in {d \in Complete : Len(final[d]) # Progress(d).written}}
        /\ mem' = [mem EXCEPT !.warned = @ \cup warned']
        /\ UNCHANGED <<worker, local, fully, cited, leaving, disk, posts, listed>>
    BY DEF Publish
  <1>2. warned' \subseteq Warning
    BY <1>1 DEF IInv, Typed, Warning, Complete
  <1>3. mem' \in StateOf /\ mem'.channel = mem.channel /\ warned' \subseteq mem'.warned
    BY <1>1, <1>2 DEF IInv, Typed, StateOf
  <1>4. Typed'
    BY <1>1, <1>2, <1>3 DEF IInv, Typed, posts, listed
  <1>5. MainInv'
    <2>1. ASSUME NEW c \in Complete', Len(final'[c]) # Progress(c)'.written
          PROVE  <<"incomplete", c>> \in mem'.warned
      BY <1>1, <1>3, <2>1 DEF Complete, Progress, posts
    <2>2. \A c \in Channel : worker'[c] = "done"
      BY <1>1 DEF IInv, MainInv, After
    <2> QED BY <1>1, <2>1, <2>2 DEF MainInv
  <1>6. \A d \in Channel : Untouched(d)
    BY <1>1, <1>3 DEF Untouched, posts, listed
  <1> QED BY <1>1, <1>4, <1>5, <1>6, MainKeeps DEF listed

LEMMA MainThrowsKeeps ==
  ASSUME IInv, MainThrows
  PROVE  IInv'
  <1>1. /\ main # "down" /\ main' = "rejected" /\ manifest' \in {manifest, <<>>}
        /\ UNCHANGED <<mem, worker, local, fully, cited, warned, leaving, disk, posts, rows,
                       rowsTorn, unfetched, sessions, behind>>
    BY DEF MainThrows
  <1>2. DOMAIN manifest' \subseteq Channel
    BY <1>1, EmptySeq DEF IInv, Typed
  <1>3. Typed'
    BY <1>1, <1>2 DEF IInv, Typed, posts
  <1>4. MainInv'
    BY <1>1 DEF MainInv, After
  <1>5. \A d \in Channel : Untouched(d)
    BY <1>1 DEF Untouched, posts
  <1> QED BY <1>1, <1>3, <1>4, <1>5, MainKeeps

LEMMA CloseKeeps ==
  ASSUME IInv, CloseState
  PROVE  IInv'
  <1>1. /\ main = "closing" /\ main' = "manifest" /\ disk' = mem
        /\ UNCHANGED <<mem, worker, local, fully, cited, warned, leaving, posts, listed>>
    BY DEF CloseState
  <1>2. Typed'
    BY <1>1 DEF IInv, Typed, posts, listed
  <1>3. MainInv'
    BY <1>1 DEF IInv, MainInv, After, Complete, Progress, posts
  <1>4. \A d \in Channel : Untouched(d)
    BY <1>1 DEF Untouched, posts, listed
  <1> QED BY <1>1, <1>2, <1>3, <1>4, MainKeeps DEF listed

LEMMA ManifestKeeps ==
  ASSUME IInv, WriteManifest
  PROVE  IInv'
  <1>1. /\ main = "manifest" /\ main' = "finished"
        /\ manifest' = [c \in Complete |-> [posts |-> Len(final[c]),
             warned |-> {w \in {"incomplete", "download"} : <<w, c>> \in mem.warned}]]
        /\ UNCHANGED <<mem, worker, local, fully, cited, warned, leaving, disk, posts, rows,
                       rowsTorn, unfetched, sessions, behind>>
    BY DEF WriteManifest
  <1>2. DOMAIN manifest' = Complete /\ Complete' = Complete /\ Complete \subseteq Channel
    BY <1>1 DEF Complete, Progress
  <1>3. Typed'
    BY <1>1, <1>2 DEF IInv, Typed, posts
  <1>4. MainInv'
    <2>1. ASSUME NEW c \in Complete', Len(final'[c]) # Progress(c)'.written
          PROVE  "incomplete" \in manifest'[c].warned
      <3>1. c \in Complete /\ Len(final[c]) # Progress(c).written
        BY <2>1, <1>1, <1>2 DEF Progress, posts
      <3>2. <<"incomplete", c>> \in mem.warned
        BY <3>1, <1>1 DEF IInv, MainInv
      <3>3. manifest'[c].warned = {w \in {"incomplete", "download"} : <<w, c>> \in mem.warned}
        BY <3>1, <1>1
      <3> QED BY <3>2, <3>3
    <2>2. \A c \in Channel : worker'[c] = "done"
      BY <1>1 DEF IInv, MainInv, After
    <2> QED BY <1>1, <1>2, <2>1, <2>2 DEF MainInv
  <1>5. \A d \in Channel : Untouched(d)
    BY <1>1 DEF Untouched, posts
  <1> QED BY <1>1, <1>3, <1>4, <1>5, MainKeeps

(*------------------------- the invariant of a run -------------------------*)
LEMMA InitHolds ==
  ASSUME Init
  PROVE  IInv
  <1> USE DEF Init
  <1>1. EmptyState \in StateOf
    <2>1. ASSUME NEW c \in Channel PROVE NewProgress(c) \in AnyProgress
      BY NewIsSound, ProgressIsTyped DEF SoundProgress
    <2> QED BY <2>1 DEF EmptyState, StateOf
  <1>2. NoLocal \in LocalOf
    BY DEF NoLocal, LocalOf
  <1>3. DOMAIN manifest = {}
    BY EmptySeq
  <1>4. Typed
    <2>1. /\ worker \in [Channel -> Workers] /\ local \in [Channel -> LocalOf]
          /\ torn \in [Channel -> BOOLEAN] /\ synced \in [Channel -> Nat]
          /\ rows \in [AllFiles -> Nat] /\ DOMAIN part = Channel /\ DOMAIN final = Channel
      BY <1>2 DEF Workers
    <2>2. sessions \in 0 .. MaxSessions
      BY ExtractionAssumption
    <2> QED BY <2>1, <2>2, <1>1, <1>3 DEF Typed
  <1>5. ASSUME NEW c \in Channel PROVE ChannelInv(c) /\ TodoOf(c) /\ RowsOf(c)
    <2> DEFINE r == NewProgress(c)
    <2>1. disk.channel[c] = r /\ worker[c] = "todo" /\ local[c] = NoLocal
          /\ part[c] = <<>> /\ final[c] = <<>> /\ synced[c] = 0
      BY DEF EmptyState
    <2>2. r.status = "pending" /\ r.finalized = FALSE /\ r.written = 0
      BY DEF NewProgress
    <2>3. SoundProgress(c, r)
      BY NewIsSound
    <2> HIDE DEF r
    <2>4. LocalTyped(c, NoLocal) /\ SoundLocal(c, "todo", NoLocal, c \notin behind)
      BY NoLocalIsTyped DEF SoundLocal, Opened
    <2>5. SoundFiles(c, "todo", NoLocal, <<>>, <<>>, 0, c \notin behind)
      BY EmptyIsRun DEF SoundFiles, AfterMark
    <2>6. SoundMarks("todo", r, r, NoLocal, <<>>)
      BY <2>2 DEF SoundMarks, BeforeMark, AfterMark
    <2>7. CountsAll(c, r, r, c \notin behind)
      BY <2>2 DEF CountsAll
    <2>8. ChannelInv(c)
      BY <2>1, <2>3, <2>4, <2>5, <2>6, <2>7 DEF ChannelInv, Kept, Sound
    <2>9. TodoOf(c)
      BY DEF TodoOf
    <2>10. RowsOf(c)
      BY <2>1 DEF RowsOf, BeforeMark
    <2> QED BY <2>8, <2>9, <2>10
  <1>6. MainInv
    BY DEF MainInv, After
  <1> QED BY <1>4, <1>5, <1>6 DEF IInv

LEMMA StutterKeeps ==
  ASSUME IInv, UNCHANGED vars
  PROVE  IInv'
  <1>1. /\ UNCHANGED <<main, mem, worker, local, fully, cited, warned, leaving, disk, part,
                       final, torn, synced, rows, rowsTorn, unfetched, manifest, sessions,
                       behind>>
    BY DEF vars, process, posts, listed
  <1>2. Typed'
    BY <1>1 DEF IInv, Typed
  <1>3. MainInv'
    BY <1>1 DEF IInv, MainInv, Complete, Progress
  <1>4. ASSUME NEW c \in Channel PROVE ChannelInv(c)' /\ TodoOf(c)' /\ RowsOf(c)'
    BY <1>1 DEF IInv, ChannelInv, Kept, TodoOf, RowsOf, SeenBy
  <1> QED BY <1>2, <1>3, <1>4 DEF IInv

LEMMA StepKeeps ==
  ASSUME IInv, [Next]_vars
  PROVE  IInv'
  <1>1. CASE StartSession
    BY <1>1, StartKeeps
  <1>2. ASSUME NEW c \in Channel, WorkerStep(c) PROVE IInv'
    BY <1>2, SkipKeeps, InheritKeeps, OpenKeeps, StopKeeps, WriteKeeps, BeginReverseKeeps,
       EndReverseKeeps, RemoveKeeps, MarkFinalizedKeeps, SaveFinalKeeps, DescribeKeeps,
       MarkCompleteKeeps, SaveDoneKeeps, MarkFailedKeeps DEF WorkerStep
  <1>3. ASSUME NEW c \in Channel, WorkerFault(c) PROVE IInv'
    BY <1>3, FailPageKeeps, FailAppendKeeps, EndReverseKeeps, DescribeThrowsKeeps,
       FailRemoveKeeps, FailSaveKeeps, SaveDoneKeeps, KillInsidePageKeeps DEF WorkerFault
  <1>4. CASE MainStep
    BY <1>4, RereadKeeps, RejectKeeps, RepairKeeps, FetchKeeps, PublishKeeps, CloseKeeps,
       ManifestKeeps, MainThrowsKeeps, KillKeeps DEF MainStep
  <1>5. CASE Interrupt
    BY <1>5, InterruptKeeps
  <1>6. CASE Kill \/ KillInsideRow
    BY <1>6, KillKeeps
  <1>7. CASE PowerLoss
    BY <1>7, PowerLossKeeps
  <1>8. CASE UNCHANGED vars
    BY <1>8, StutterKeeps
  <1> QED BY <1>1, <1>2, <1>3, <1>4, <1>5, <1>6, <1>7, <1>8 DEF Next

(* In every state of every sequence of sessions, over any channels, page     *)
(* size and faults, the progress in memory and on disk, the two post files,  *)
(* the worker and the described attachments of each channel agree.           *)
THEOREM RunInvariant == Spec => []IInv
  <1>1. Init => IInv
    BY InitHolds
  <1>2. IInv /\ [Next]_vars => IInv'
    BY StepKeeps
  <1> QED BY <1>1, <1>2, PTL DEF Spec

(* Types; the two post files of a channel hold posts of that channel, and    *)
(* no more of the .part file is forced to disk than it has lines.            *)
THEOREM Types == Spec => []TypeOK
  <1>1. ASSUME IInv PROVE TypeOK
    <2>1. ASSUME NEW c \in Channel
          PROVE  /\ mem.channel[c] \in ProgressOf(c) /\ disk.channel[c] \in ProgressOf(c)
                 /\ local[c].cursor \in 0 .. NoCursor(c) /\ local[c].from \in 0 .. NoCursor(c)
                 /\ local[c].written \in 0 .. Size[c] /\ local[c].left \subseteq AllFiles
                 /\ Lines(part[c]) \subseteq 1 .. Size[c]
                 /\ Lines(final[c]) \subseteq 1 .. Size[c]
                 /\ synced[c] \in 0 .. Len(part[c]) /\ torn[c] \in BOOLEAN
      <3>1. ChannelInv(c) /\ Typed
        BY <1>1 DEF IInv
      <3>2. Sound(c, worker[c], Kept(c), disk.channel[c], local[c], part[c], final[c],
                  synced[c], c \notin behind)
        BY <3>1 DEF ChannelInv
      <3>3. mem.channel[c] \in ProgressOf(c) /\ disk.channel[c] \in ProgressOf(c)
        <4>1. Kept(c) \in ProgressOf(c) /\ disk.channel[c] \in ProgressOf(c)
          BY <3>2 DEF Sound, SoundProgress
        <4>2. CASE main = "down"
          <5>1. mem.channel[c] = NewProgress(c)
            BY <1>1, <4>2 DEF IInv, MainInv, EmptyState
          <5> QED BY <4>1, <5>1, NewIsSound DEF SoundProgress
        <4> QED BY <4>1, <4>2 DEF Kept
      <3>4. /\ local[c] \in LocalOf
            /\ local[c].cursor <= NoCursor(c) /\ local[c].from <= NoCursor(c)
            /\ local[c].written <= Size[c]
        BY <3>2 DEF Sound, LocalTyped
      <3>5. local[c].cursor \in 0 .. NoCursor(c) /\ local[c].from \in 0 .. NoCursor(c)
            /\ local[c].written \in 0 .. Size[c] /\ local[c].left \subseteq AllFiles
        BY <3>4, ChannelNumbers DEF LocalOf
      <3>6. part[c] \in Seq(Since .. Size[c]) /\ synced[c] <= Len(part[c])
        BY <3>2 DEF Sound, SoundFiles
      <3>7. Lines(part[c]) \subseteq 1 .. Size[c]
        <4>1. DOMAIN part[c] = 1 .. Len(part[c])
          BY <3>6, LenProperties
        <4>2. \A i \in DOMAIN part[c] : part[c][i] \in Since .. Size[c]
          BY <3>6, <4>1, ElementOfSeq
        <4> QED BY <4>2, ChannelNumbers DEF Lines
      <3>8. synced[c] \in 0 .. Len(part[c]) /\ torn[c] \in BOOLEAN
        BY <3>1, <3>6, LenProperties DEF Typed
      <3> QED BY <1>1, <3>3, <3>5, <3>7, <3>8, CitedAreKnown
    <2>2. IsState(mem) /\ IsState(disk)
      BY <1>1, <2>1 DEF IInv, Typed, StateOf, IsState
    <2> QED BY <1>1, <2>1, <2>2 DEF IInv, Typed, TypeOK, Workers
  <1> QED BY <1>1, RunInvariant, PTL

(* Whatever a page overlaps, whichever saves were refused and whichever      *)
(* sessions died, a .part file is one descending run and a final file one    *)
(* ascending run: no post twice, none skipped in between.                    *)
THEOREM FilesAreRuns == Spec => []PostFilesAreRuns
  <1>1. IInv => PostFilesAreRuns
    BY DEF IInv, ChannelInv, Sound, SoundFiles, PostFilesAreRuns
  <1> QED BY <1>1, RunInvariant, PTL

(* No sequence of sessions describes an attachment twice in files.ndjson.    *)
THEOREM DescribedOnce == Spec => []OneRowPerFile
  <1>1. ASSUME IInv, NEW f \in AllFiles PROVE rows[f] <= 1
    <2>1. f[1] \in Channel
      BY ExtractionAssumption DEF AllFiles
    <2> QED BY <1>1, <2>1 DEF IInv, RowsOf
  <1>2. IInv => OneRowPerFile
    BY <1>1 DEF OneRowPerFile
  <1> QED BY <1>2, RunInvariant, PTL

(* A channel the saved state calls finalized leaves nothing in the .part     *)
(* file, and no worker reads or writes that file again.                      *)
THEOREM NothingLeftInPart == Spec => []FinalizedIsConsumable
  <1>1. ASSUME IInv, NEW c \in Channel, disk.channel[c].finalized,
               disk.channel[c].written > 0
        PROVE  part[c] = <<>> /\ worker[c] \notin {"paging", "reversing", "removing"}
    <2>1. Sound(c, worker[c], Kept(c), disk.channel[c], local[c], part[c], final[c],
                synced[c], c \notin behind)
      BY <1>1 DEF IInv, ChannelInv
    <2>2. SoundMarks(worker[c], Kept(c), disk.channel[c], local[c], part[c])
      BY <2>1 DEF Sound
    <2>3. Kept(c).finalized /\ Kept(c).written > 0
      BY <1>1, <2>2 DEF SoundMarks
    <2> QED BY <2>2, <2>3 DEF SoundMarks, BeforeMark
  <1>2. IInv => FinalizedIsConsumable
    BY <1>1 DEF FinalizedIsConsumable
  <1> QED BY <1>2, RunInvariant, PTL

(* A finished run lists a channel with its whole history on disk, or with a  *)
(* CHANNEL_INCOMPLETE warning, unless some session loaded a state that       *)
(* counted more posts than the .part file held.  With pages of one post a    *)
(* page may bring nothing but the cursor, and the warning of the session     *)
(* that stopped there dies with it: the page size must exceed one.           *)
THEOREM LossIsAccounted ==
  ASSUME PerPage > 1
  PROVE  Spec => []LossNeedsStaleState
  <1>1. ASSUME IInv, main = "finished", NEW c \in DOMAIN manifest \ behind
        PROVE  Accounted(c)
    <2>1. /\ c \in Complete /\ c \in Channel
          /\ Len(final[c]) = Progress(c).written \/ "incomplete" \in manifest[c].warned
      BY <1>1 DEF IInv, MainInv, Complete
    <2>2. Sound(c, worker[c], mem.channel[c], disk.channel[c], local[c], part[c], final[c],
                synced[c], c \notin behind)
      BY <1>1, <2>1, InSession
    <2>3. mem.channel[c].finalized
      BY <2>1, <2>2 DEF Sound, SoundProgress, Complete, Progress
    <2>4. mem.channel[c].written = Full(c)
      BY <1>1, <2>2, <2>3 DEF Sound, CountsAll
    <2>5. final[c] \in Seq(Since .. Size[c]) /\ IsAscendingRun(final[c])
      BY <2>2 DEF Sound, SoundFiles
    <2>6. CASE Len(final[c]) = Progress(c).written
      <3>1. Len(final[c]) = IF Since > Size[c] THEN 0 ELSE Size[c] + 1 - Since
        BY <2>4, <2>6 DEF Full, Progress
      <3>2. final[c] = History(c)
        BY <2>1, <2>5, <3>1, FullRunIsHistory
      <3> QED BY <3>2 DEF Accounted
    <2> QED BY <2>1, <2>6 DEF Accounted
  <1>2. IInv => LossNeedsStaleState
    BY <1>1 DEF LossNeedsStaleState
  <1> QED BY <1>2, RunInvariant, PTL

\* A channel saved as complete is not being reversed.
LEMMA FrozenStep ==
  ASSUME IInv, [Next]_vars, NEW c \in Channel, disk.channel[c].status = "complete",
         main' # "down"
  PROVE  final'[c] = final[c]
  <1>1. ASSUME worker[c] \in {"closing", "reversing"} PROVE FALSE
    <2>1. main # "down"
      BY <1>1, ActiveMain
    <2>2. SoundMarks(worker[c], mem.channel[c], disk.channel[c], local[c], part[c])
      BY <2>1, InSession DEF Sound
    <2> QED BY <1>1, <2>2 DEF SoundMarks, BeforeMark
  <1>2. ASSUME NEW d \in Channel, BeginReverse(d) \/ EndReverse(d) \/ FailReverse(d)
        PROVE  final'[c] = final[c]
    <2>1. worker[d] \in {"closing", "reversing"} /\ d # c
      BY <1>1, <1>2 DEF BeginReverse, EndReverse, FailReverse, Closing
    <2>2. DOMAIN final = Channel
      BY DEF IInv, Typed
    <2> QED BY <1>2, <2>1, <2>2 DEF BeginReverse, EndReverse, FailReverse
  <1>3. ASSUME NEW d \in Channel, WorkerStep(d) PROVE final'[c] = final[c]
    BY <1>2, <1>3
       DEF WorkerStep, SkipComplete, InheritFinalized, OpenChannel, EmptyPage, PageBelowSince,
           StuckPage, StopsPaging, WritePage, RemovePart, NoPart, MarkFinalized, SaveFinal,
           DescribeFile, MarkComplete, SaveDone, SaveInherited, MarkFailed, posts
  <1>4. ASSUME NEW d \in Channel, WorkerFault(d) PROVE final'[c] = final[c]
    BY <1>2, <1>4
       DEF WorkerFault, FailPage, FailAppend, FailRemovePart, DescribeThrows, FailSave,
           FailThrottled, KillInsidePage, posts
  <1>5. CASE MainStep
    BY <1>5 DEF MainStep, Reread, Reject, RepairFiles, RepairThrows, FetchUsers, Publish,
                CloseState, WriteManifest, MainThrows, Exit, posts
  <1>6. CASE StartSession \/ Interrupt \/ Kill \/ KillInsideRow \/ PowerLoss \/ UNCHANGED vars
    BY <1>6 DEF StartSession, Interrupt, Kill, KillInsideRow, PowerLoss, Down, vars, posts
  <1> QED BY <1>3, <1>4, <1>5, <1>6 DEF Next

(* The posts of a channel that is saved as complete are never rewritten by   *)
(* a step of a session.                                                      *)
THEOREM CompleteStays == Spec => CompleteIsFrozen
  <1>1. IInv /\ [Next]_vars =>
          [\A c \in Channel : disk.channel[c].status = "complete" /\ main' # "down"
                                => final'[c] = final[c]]_vars
    BY FrozenStep
  <1> QED BY <1>1, RunInvariant, PTL DEF Spec, CompleteIsFrozen

\* What a step may make of the saved state of one channel.
LEMMA SavedStep ==
  ASSUME IInv, [Next]_vars, NEW c \in Channel
  PROVE  \/ disk'.channel[c] = disk.channel[c]
         \/ main # "down" /\ disk'.channel[c] = mem.channel[c]
         \/ /\ main # "down" /\ worker[c] = "paging"
            /\ disk'.channel[c].finalized = mem.channel[c].finalized
  <1>1. mem \in StateOf /\ disk \in StateOf
    BY DEF IInv, Typed
  <1>2. ASSUME NEW d \in Channel, WritePage(d)
        PROVE  \/ disk'.channel[c] = disk.channel[c]
               \/ main # "down" /\ disk'.channel[c] = mem.channel[c]
               \/ /\ main # "down" /\ worker[c] = "paging"
                  /\ disk'.channel[c].finalized = mem.channel[c].finalized
    <2>1. worker[d] = "paging" /\ main # "down"
      BY <1>2, ActiveMain DEF WritePage, Paging
    <2>2. PICK at, newest, written :
            Marks(d, [Progress(d) EXCEPT !.status = "in_progress", !.cursor = at,
                                         !.newest = newest, !.written = written])
      BY <1>2 DEF WritePage
    <2>3. disk' = mem' \/ disk' = disk
      BY <1>2 DEF WritePage
    <2>4. mem.channel[d] \in AnyProgress /\ mem.channel \in [Channel -> AnyProgress]
      BY <1>1 DEF StateOf
    <2>5. mem'.channel = [mem.channel EXCEPT ![d] =
            [mem.channel[d] EXCEPT !.status = "in_progress", !.cursor = at,
                                   !.newest = newest, !.written = written]]
      BY <1>1, <2>2 DEF Marks, Progress, StateOf
    <2>6. CASE d = c
      <3>1. mem'.channel[c].finalized = mem.channel[c].finalized
        BY <2>4, <2>5, <2>6 DEF AnyProgress
      <3> QED BY <2>1, <2>3, <2>6, <3>1
    <2>7. CASE d # c
      BY <2>1, <2>3, <2>4, <2>5, <2>7
    <2> QED BY <2>6, <2>7
  <1>3. ASSUME NEW d \in Channel,
               SaveFinal(d) \/ SaveDone(d) \/ SaveInherited(d) \/ FailThrottled(d)
        PROVE  main # "down" /\ disk'.channel[c] = mem.channel[c]
    <2>1. main # "down"
      BY <1>3, ActiveMain DEF SaveFinal, SaveDone, SaveInherited, FailThrottled
    <2>2. CASE SaveFinal(d) \/ SaveInherited(d) \/ FailThrottled(d)
      BY <2>1, <2>2 DEF SaveFinal, SaveInherited, FailThrottled
    <2>3. CASE SaveDone(d)
      <3>1. mem'.channel = mem.channel /\ disk' \in {mem, mem'}
        BY <1>1, <2>3 DEF SaveDone, StateOf
      <3> QED BY <2>1, <3>1
    <2> QED BY <1>3, <2>2, <2>3
  <1>4. ASSUME NEW d \in Channel, WorkerStep(d)
        PROVE  \/ disk' = disk \/ WritePage(d)
               \/ SaveFinal(d) \/ SaveDone(d) \/ SaveInherited(d)
    BY <1>4
       DEF WorkerStep, SkipComplete, InheritFinalized, OpenChannel, EmptyPage, PageBelowSince,
           StuckPage, StopsPaging, BeginReverse, EndReverse, RemovePart, NoPart,
           MarkFinalized, DescribeFile, MarkComplete, MarkFailed
  <1>5. ASSUME NEW d \in Channel, WorkerFault(d) PROVE disk' = disk \/ FailThrottled(d)
    BY <1>5 DEF WorkerFault, FailPage, FailAppend, FailReverse, FailRemovePart, DescribeThrows,
                FailSave, KillInsidePage
  <1>6. CASE MainStep
    BY <1>6 DEF MainStep, Reread, Reject, RepairFiles, RepairThrows, FetchUsers, Publish,
                CloseState, WriteManifest, MainThrows, Exit
  <1>7. CASE StartSession \/ Interrupt \/ Kill \/ KillInsideRow \/ PowerLoss \/ UNCHANGED vars
    BY <1>7 DEF StartSession, Interrupt, Kill, KillInsideRow, PowerLoss, vars
  <1> QED BY <1>2, <1>3, <1>4, <1>5, <1>6, <1>7 DEF Next

(* A later save, of this session or of another, never undoes the mark        *)
(* finalized, nor the mark complete.                                         *)
THEOREM ProgressIsDurable == Spec => DurableProgress
  <1>1. ASSUME IInv, [Next]_vars, NEW c \in Channel
        PROVE  /\ disk.channel[c].finalized => disk'.channel[c].finalized
               /\ disk.channel[c].status = "complete" => disk'.channel[c].status = "complete"
    <2>1. CASE disk'.channel[c] = disk.channel[c]
      BY <2>1
    <2>2. CASE main # "down" /\ disk'.channel[c] # disk.channel[c]
      <3>1. SoundMarks(worker[c], mem.channel[c], disk.channel[c], local[c], part[c])
        BY <1>1, <2>2, InSession DEF Sound
      <3>2. CASE disk'.channel[c] = mem.channel[c]
        BY <3>1, <3>2 DEF SoundMarks
      <3>3. CASE /\ worker[c] = "paging"
                 /\ disk'.channel[c].finalized = mem.channel[c].finalized
        BY <3>1, <3>3 DEF SoundMarks, BeforeMark
      <3> QED BY <1>1, <2>2, <3>2, <3>3, SavedStep
    <2> QED BY <1>1, <2>1, <2>2, SavedStep
  <1>2. IInv /\ [Next]_vars =>
          [\A c \in Channel :
             /\ disk.channel[c].finalized => disk'.channel[c].finalized
             /\ disk.channel[c].status = "complete"
                  => disk'.channel[c].status = "complete"]_vars
    BY <1>1
  <1> QED BY <1>2, RunInvariant, PTL DEF Spec, DurableProgress

(*---------------- what a run that resumes complete channels reads back ----*)
\* Read back, then described, then recorded.
HealInv ==
  \A c \in Complete \ fully :
    /\ main = "repair" => /\ AuthorsOf(c, Lines(final[c])) \subseteq users
                          /\ FilesOf(c, Lines(final[c])) \subseteq cited
    /\ main = "users" => AuthorsOf(c, Lines(final[c])) \subseteq users
    /\ main \in {"publish", "closing", "manifest", "finished"}
         => AuthorsOf(c, Lines(final[c])) \subseteq usersFile
    /\ main \in After \ {"repair"} => FilesOf(c, Lines(final[c])) \subseteq Described

LEMMA WorkersComeFirst ==
  ASSUME IInv, NEW c \in Channel, WorkerStep(c) \/ WorkerFault(c)
  PROVE  main' \notin After
  <1>1. main \in {"channels", "rejected"}
    BY ActiveMain
       DEF WorkerStep, SkipComplete, InheritFinalized, Inherits, OpenChannel, Takes, EmptyPage,
           PageBelowSince, StuckPage, WritePage, BeginReverse, EndReverse, RemovePart, NoPart,
           MarkFinalized, SaveFinal, DescribeFile, MarkComplete, SaveDone, SaveInherited,
           MarkFailed, Paging, Closing, WorkerFault, FailPage, FailAppend, FailReverse,
           FailRemovePart, DescribeThrows, FailSave, FailThrottled, KillInsidePage
  <1>2. main' = main \/ main' = "down"
    BY DEF WorkerStep, SkipComplete, InheritFinalized, OpenChannel, EmptyPage, PageBelowSince,
           StuckPage, StopsPaging, WritePage, BeginReverse, EndReverse, RemovePart, NoPart,
           MarkFinalized, SaveFinal, DescribeFile, MarkComplete, SaveDone, SaveInherited,
           MarkFailed, WorkerFault, FailPage, FailAppend, FailReverse, FailRemovePart,
           DescribeThrows, FailSave, FailThrottled, KillInsidePage, Down
  <1> QED BY <1>1, <1>2 DEF After

LEMMA HealStep ==
  ASSUME IInv, HealInv, "lookup" \notin Faults, [Next]_vars
  PROVE  HealInv'
  <1>1. ASSUME main' \notin After PROVE HealInv'
    BY <1>1 DEF HealInv, After
  <1>2. ASSUME UNCHANGED <<main, mem, fully, users, cited, final, rows, usersFile>>
        PROVE  HealInv'
    BY <1>2 DEF HealInv, Complete, Progress, Described
  <1>3. CASE \/ StartSession \/ Kill \/ KillInsideRow \/ PowerLoss \/ Exit \/ Reject
             \/ RepairThrows \/ MainThrows
    BY <1>1, <1>3 DEF StartSession, Kill, KillInsideRow, PowerLoss, Exit, Reject, RepairThrows,
                      MainThrows, Down, After
  <1>4. CASE Interrupt \/ UNCHANGED vars
    BY <1>2, <1>4 DEF Interrupt, vars, process, posts, listed
  <1>5. CASE Reread
    <2>1. /\ main' = "repair" /\ Complete' = Complete
          /\ users' = users \cup UNION {AuthorsOf(c, Lines(final[c])) : c \in Complete \ fully}
          /\ cited' = UNION {FilesOf(c, Lines(final[c])) : c \in Complete \ fully}
          /\ UNCHANGED <<fully, final>>
      BY <1>5 DEF Reread, posts, Complete, Progress
    <2>2. ASSUME NEW c \in Complete \ fully
          PROVE  AuthorsOf(c, Lines(final[c])) \subseteq users'
                 /\ FilesOf(c, Lines(final[c])) \subseteq cited'
      BY <2>1
    <2> QED BY <2>1, <2>2 DEF HealInv
  <1>6. CASE RepairFiles
    <2>1. /\ main = "repair" /\ main' = "users" /\ Complete' = Complete
          /\ UNCHANGED <<fully, final, users, cited>>
          /\ rows' = [f \in AllFiles |-> rows[f] + IF f \in Missing THEN 1 ELSE 0]
      BY <1>6 DEF RepairFiles, Found, posts, Complete, Progress
    <2>2. cited \subseteq AllFiles /\ rows \in [AllFiles -> Nat]
      BY DEF IInv, Typed
    <2>3. ASSUME NEW f \in cited PROVE f \in AllFiles /\ rows'[f] > 0
      <3>1. f \in Missing \/ rows[f] > 0
        BY <2>2 DEF Missing, Described
      <3>2. f \in AllFiles /\ rows[f] \in Nat
        BY <2>2
      <3> QED BY <3>1, <3>2, <2>1
    <2>4. cited \subseteq Described'
      BY <2>3 DEF Described
    <2>5. \A c \in Complete \ fully : /\ AuthorsOf(c, Lines(final[c])) \subseteq users
                                      /\ FilesOf(c, Lines(final[c])) \subseteq cited
      BY <2>1 DEF HealInv
    <2>6. \A c \in (Complete \ fully)' : /\ AuthorsOf(c, Lines(final'[c])) \subseteq users'
                                         /\ FilesOf(c, Lines(final'[c])) \subseteq Described'
      BY <2>1, <2>4, <2>5
    <2> QED BY <2>1, <2>6 DEF HealInv
  <1>7. CASE FetchUsers
    <2>1. /\ main = "users" /\ main' = "publish" /\ Complete' = Complete
          /\ UNCHANGED <<fully, final>> /\ Described' = Described /\ users \subseteq usersFile'
      BY <1>7 DEF FetchUsers, posts, Complete, Progress, Described
    <2>2. \A c \in Complete \ fully : /\ AuthorsOf(c, Lines(final[c])) \subseteq users
                                      /\ FilesOf(c, Lines(final[c])) \subseteq Described
      BY <2>1 DEF HealInv, After
    <2> QED BY <2>1, <2>2 DEF HealInv
  <1>8. CASE Publish \/ CloseState \/ WriteManifest
    <2>1. /\ main \in {"publish", "closing", "manifest"}
          /\ main' \in {"closing", "manifest", "finished"}
          /\ mem'.channel = mem.channel
          /\ UNCHANGED <<fully, final, usersFile, rows>>
      BY <1>8 DEF Publish, CloseState, WriteManifest, posts, listed, IInv, Typed, StateOf
    <2>2. Complete' = Complete /\ Described' = Described
      BY <2>1 DEF Complete, Progress, Described
    <2>3. \A c \in Complete \ fully : /\ AuthorsOf(c, Lines(final[c])) \subseteq usersFile
                                      /\ FilesOf(c, Lines(final[c])) \subseteq Described
      BY <2>1 DEF HealInv, After
    <2> QED BY <2>1, <2>2, <2>3 DEF HealInv
  <1>9. ASSUME NEW c \in Channel, WorkerStep(c) \/ WorkerFault(c) PROVE HealInv'
    BY <1>1, <1>9, WorkersComeFirst
  <1> QED BY <1>3, <1>4, <1>5, <1>6, <1>7, <1>8, <1>9 DEF Next, MainStep

(* A run that found every channel complete, and so read them all back, has a *)
(* record for each author and a line for each attachment, when the instance  *)
(* still finds the users and the attachments it is asked for.                *)
THEOREM ResumeHeals ==
  ASSUME "lookup" \notin Faults
  PROVE  Spec => []HealedByResume
  <1>1. Init => HealInv
    BY DEF Init, HealInv, After
  <1>2. IInv /\ HealInv /\ [Next]_vars => HealInv'
    BY HealStep
  <1>3. HealInv => HealedByResume
    BY DEF HealInv, HealedByResume, After
  <1> QED BY <1>1, <1>2, <1>3, RunInvariant, PTL DEF Spec
=============================================================================
