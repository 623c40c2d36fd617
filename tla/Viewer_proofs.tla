---------------------------- MODULE Viewer_proofs ----------------------------
(* For any archives, bounds, cutting and page size: an index that is accepted *)
(* holds every message of its archive, the store of fragments survives every  *)
(* build that fails or is killed, a channel is read without a hole, what is   *)
(* shown answers what was asked last, and a store of fragments that opens has *)
(* each message once and cites it as the index in place does.                 *)
EXTENDS TLAPS, FiniteSetTheorems, ViewerFiles, Reading

(*----------------------------- the numbering -----------------------------*)
\* Where the statements are in their order.
LEMMA StepsInOrder ==
  ASSUME NEW k \in 0 .. Finished
  PROVE  /\ After(k, "referentials") <=> k >= 2
         /\ After(k, "numbered") <=> k >= 3
         /\ After(k, "texts") <=> k >= 4
         /\ After(k, "threads") <=> k >= 5
         /\ After(k, "orphans") <=> k >= 6
         /\ After(k, "search") <=> k >= 7
<1>1. Finished = 10 /\ \A i \in 1 .. 10 :
        Steps[i] = CASE i = 1 -> "ddl" [] i = 2 -> "referentials" [] i = 3 -> "numbered"
                     [] i = 4 -> "texts" [] i = 5 -> "threads" [] i = 6 -> "orphans"
                     [] i = 7 -> "search" [] i = 8 -> "filled" [] i = 9 -> "counted"
                     [] i = 10 -> "done"
  BY DEF Finished, Steps
<1>2. k \in 0 .. 10
  BY <1>1
<1>3. ASSUME NEW i \in 1 .. k
      PROVE  /\ Steps[i] = "referentials" <=> i = 2
             /\ Steps[i] = "numbered" <=> i = 3
             /\ Steps[i] = "texts" <=> i = 4
             /\ Steps[i] = "threads" <=> i = 5
             /\ Steps[i] = "orphans" <=> i = 6
             /\ Steps[i] = "search" <=> i = 7
  <2>1. i \in 1 .. 10
    BY <1>2
  <2> QED BY <1>1, <2>1
<1>4. \A n \in 1 .. 10 : (\E i \in 1 .. k : i = n) <=> k >= n
  BY <1>2
<1> QED BY <1>2, <1>3, <1>4 DEF After

Earlier(a, p) == {q \in Kept(a) : Before(q, p)}

\* The order of the numbering is a total order of the messages kept.
LEMMA BeforeIsOrder ==
  ASSUME NEW a, WellFormed(a), NEW p \in Kept(a), NEW q \in Kept(a)
  PROVE  /\ ~ Before(p, p) /\ ~ (Before(p, q) /\ Before(q, p))
         /\ p = q \/ Before(p, q) \/ Before(q, p)
         /\ \A r \in Kept(a) : Before(r, p) /\ Before(p, q) => Before(r, q)
<1>1. \A r \in Kept(a) : r \in a.posts /\ r.pid \in Nat /\ r.at \in Int
  BY DEF Kept, WellFormed
<1>2. p.pid = q.pid => p = q
  BY DEF Kept, WellFormed
<1> QED BY <1>1, <1>2 DEF Before

\* A number counts the messages before its own.
LEMMA KeptIsFinite ==
  ASSUME NEW a, WellFormed(a)
  PROVE  /\ IsFiniteSet(Kept(a)) /\ Cardinality(Kept(a)) \in Nat
         /\ \A p \in Kept(a) : IsFiniteSet(Earlier(a, p)) /\ Cardinality(Earlier(a, p)) \in Nat
                               /\ RowId(a, p) = Cardinality(Earlier(a, p)) + 1
<1>1. Kept(a) \in SUBSET a.posts /\ IsFiniteSet(a.posts)
  BY DEF Kept, WellFormed
<1>2. IsFiniteSet(Kept(a))
  BY <1>1, FS_Subset
<1>3. \A p : Earlier(a, p) \in SUBSET Kept(a)
  BY DEF Earlier
<1>4. \A p : IsFiniteSet(Earlier(a, p))
  BY <1>2, <1>3, FS_Subset
<1> QED BY <1>2, <1>4, FS_CardinalityType DEF RowId, Earlier

\* One message after another has a greater number.
LEMMA LaterIsGreater ==
  ASSUME NEW a, WellFormed(a), NEW p \in Kept(a), NEW q \in Kept(a), Before(p, q)
  PROVE  RowId(a, p) < RowId(a, q)
<1> DEFINE S == Earlier(a, q)
           T == Earlier(a, p)
<1>1. /\ IsFiniteSet(S) /\ Cardinality(S) \in Nat /\ Cardinality(T) \in Nat
      /\ RowId(a, p) = Cardinality(T) + 1 /\ RowId(a, q) = Cardinality(S) + 1
  BY KeptIsFinite
<1>2. T \in SUBSET S
  BY BeforeIsOrder DEF Earlier
<1>3. p \in S /\ p \notin T
  BY BeforeIsOrder DEF Earlier
<1> HIDE DEF S, T
<1>4. Cardinality(T) <= Cardinality(S) /\ Cardinality(T) # Cardinality(S)
  BY <1>1, <1>2, <1>3, FS_Subset
<1> QED BY <1>1, <1>4

\* Numbers go from one to the number of messages.
LEMMA NumbersAreInRange ==
  ASSUME NEW a, WellFormed(a), NEW p \in Kept(a)
  PROVE  RowId(a, p) \in 1 .. Cardinality(Kept(a))
<1> DEFINE S == Kept(a)
           T == Earlier(a, p)
<1>1. /\ IsFiniteSet(S) /\ Cardinality(S) \in Nat /\ Cardinality(T) \in Nat
      /\ RowId(a, p) = Cardinality(T) + 1
  BY KeptIsFinite
<1>2. T \in SUBSET S /\ p \in S /\ p \notin T
  BY BeforeIsOrder DEF Earlier
<1> HIDE DEF S, T
<1>3. Cardinality(T) <= Cardinality(S) /\ Cardinality(T) # Cardinality(S)
  BY <1>1, <1>2, FS_Subset
<1> QED BY <1>1, <1>3 DEF S

\* The message of a number, and the numbering as a bijection.
MessageOf(a, r) == CHOOSE p \in Kept(a) : RowId(a, p) = r

LEMMA NumbersAreDistinct ==
  ASSUME NEW a, WellFormed(a), NEW p \in Kept(a), NEW q \in Kept(a), RowId(a, p) = RowId(a, q)
  PROVE  p = q
<1>1. \A r \in Kept(a) : RowId(a, r) \in Nat
  BY NumbersAreInRange
<1>2. CASE Before(p, q)
  BY <1>1, <1>2, LaterIsGreater
<1>3. CASE Before(q, p)
  BY <1>1, <1>3, LaterIsGreater
<1> QED BY <1>2, <1>3, BeforeIsOrder

LEMMA EveryNumberHasItsMessage ==
  ASSUME NEW a, WellFormed(a)
  PROVE  /\ \A r \in 1 .. Cardinality(Kept(a)) : MessageOf(a, r) \in Kept(a)
                                                 /\ RowId(a, MessageOf(a, r)) = r
         /\ \A p \in Kept(a) : MessageOf(a, RowId(a, p)) = p
<1> DEFINE S == Kept(a)
           n == Cardinality(Kept(a))
           f == [p \in S |-> RowId(a, p)]
<1>1. IsFiniteSet(S) /\ n \in Nat /\ n = Cardinality(S)
  BY KeptIsFinite
<1>2. f \in Injection(S, 1 .. n)
  <2>1. f \in [S -> 1 .. n]
    BY NumbersAreInRange
  <2>2. \A p, q \in S : f[p] = f[q] => p = q
    BY NumbersAreDistinct
  <2> QED BY <2>1, <2>2 DEF Injection, IsInjective
<1> HIDE DEF n
<1>3. IsFiniteSet(1 .. n) /\ Cardinality(1 .. n) = n
  <2>1. n \in Int /\ 1 \in Int
    BY <1>1
  <2>2. IsFiniteSet(1 .. n) /\ Cardinality(1 .. n) = IF 1 > n THEN 0 ELSE n - 1 + 1
    BY <2>1, FS_Interval
  <2> QED BY <1>1, <2>2
<1>4. f \in Surjection(S, 1 .. n)
  <2> HIDE DEF f, S
  <2> QED BY <1>1, <1>2, <1>3, FS_Injection
<1>5. \A r \in 1 .. n : \E p \in S : RowId(a, p) = r
  BY <1>4 DEF Surjection
<1>6. ASSUME NEW r \in 1 .. n PROVE MessageOf(a, r) \in S /\ RowId(a, MessageOf(a, r)) = r
  BY <1>5, Zenon DEF MessageOf
<1>7. ASSUME NEW p \in S PROVE MessageOf(a, RowId(a, p)) = p
  <2>1. RowId(a, p) \in 1 .. n
    BY NumbersAreInRange DEF n
  <2> QED BY <1>6, <2>1, NumbersAreDistinct
<1> QED BY <1>6, <1>7 DEF n

(*--------------------------- an accepted index ---------------------------*)
\* The rows of an index whose statements have come to the search table.
LEMMA RowsOfAnIndex ==
  ASSUME NEW a, WellFormed(a), NEW k \in 0 .. Finished, k >= 3
  PROVE  /\ DOMAIN Index(a, k).posts = 1 .. Cardinality(Kept(a))
         /\ Len(Index(a, k).posts) = Cardinality(Kept(a))
         /\ \A r \in 1 .. Cardinality(Kept(a)) : Index(a, k).posts[r] = Row(a, k, MessageOf(a, r))
         /\ \A p \in Kept(a) : RowId(a, p) \in 1 .. Cardinality(Kept(a))
                               /\ Index(a, k).posts[RowId(a, p)] = Row(a, k, p)
<1> DEFINE n == Cardinality(Kept(a))
           R(r) == Row(a, k, MessageOf(a, r))
<1>1. n \in Nat
  BY KeptIsFinite
<1>2. Index(a, k).posts = [r \in 1 .. n |-> R(r)]
  BY StepsInOrder DEF Index, MessageOf
<1> HIDE DEF n
<1>3. DOMAIN Index(a, k).posts = 1 .. n /\ Len(Index(a, k).posts) = n
  <2> HIDE DEF R
  <2> QED BY <1>1, <1>2
<1>4. \A r \in 1 .. n : Index(a, k).posts[r] = R(r)
  BY <1>2
<1>5. ASSUME NEW p \in Kept(a) PROVE RowId(a, p) \in 1 .. n /\ MessageOf(a, RowId(a, p)) = p
  BY NumbersAreInRange, EveryNumberHasItsMessage DEF n
<1> QED BY <1>3, <1>4, <1>5 DEF n

\* The message another one answers, found by its identifier.
LEMMA RowOfAnIdentifier ==
  ASSUME NEW a, WellFormed(a), NEW q \in Kept(a)
  PROVE  RowOf(a, q.pid) = RowId(a, q)
<1>1. \A p \in Kept(a) : p.pid = q.pid => p = q
  BY DEF Kept, WellFormed
<1> QED BY <1>1 DEF RowOf

\* What an index holds, once the search table is there.
LEMMA IndexHoldsEveryMessage ==
  ASSUME NEW a, WellFormed(a), NEW k \in 0 .. Finished, k >= 7
  PROVE  LET x == Index(a, k)
         IN  /\ Len(x.posts) = Cardinality(Kept(a))
             /\ \A p \in Kept(a) : \E r \in DOMAIN x.posts :
                  /\ x.posts[r].pid = p.pid /\ x.posts[r].at = p.at /\ x.posts[r].words = p.words
                  /\ IF \E q \in Kept(a) : q.pid = p.root
                     THEN x.posts[r].root # 0 /\ x.posts[x.posts[r].root].pid = p.root
                     ELSE x.posts[r].root = 0 /\ x.posts[r].orphan = (p.root # 0)
             /\ \A r, s \in DOMAIN x.posts : r < s => x.posts[r].at <= x.posts[s].at
<1> DEFINE posts == Index(a, k).posts
           n == Cardinality(Kept(a))
<1>0. k >= 3 /\ After(k, "threads") /\ After(k, "orphans") /\ After(k, "texts")
  BY StepsInOrder
<1>1. /\ DOMAIN posts = 1 .. n /\ Len(posts) = n
      /\ \A r \in 1 .. n : posts[r] = Row(a, k, MessageOf(a, r))
      /\ \A p \in Kept(a) : RowId(a, p) \in 1 .. n /\ posts[RowId(a, p)] = Row(a, k, p)
  BY <1>0, RowsOfAnIndex
<1> HIDE DEF posts, n
<1>2. ASSUME NEW p \in Kept(a)
      PROVE  \E r \in DOMAIN posts :
               /\ posts[r].pid = p.pid /\ posts[r].at = p.at /\ posts[r].words = p.words
               /\ IF \E q \in Kept(a) : q.pid = p.root
                  THEN posts[r].root # 0 /\ posts[posts[r].root].pid = p.root
                  ELSE posts[r].root = 0 /\ posts[r].orphan = (p.root # 0)
  <2> DEFINE r == RowId(a, p)
  <2>1. r \in DOMAIN posts /\ posts[r] = Row(a, k, p)
    BY <1>1
  <2>2. /\ posts[r].pid = p.pid /\ posts[r].at = p.at /\ posts[r].words = p.words
        /\ posts[r].root = IF p.root # 0 THEN RowOf(a, p.root) ELSE 0
        /\ posts[r].orphan = (p.root # 0 /\ RowOf(a, p.root) = 0)
    BY <1>0, <2>1 DEF Row
  <2> HIDE DEF r
  <2>3. CASE \E q \in Kept(a) : q.pid = p.root
    <3>1. PICK q \in Kept(a) : q.pid = p.root
      BY <2>3
    <3>2. q.pid # 0
      BY DEF Kept, WellFormed
    <3>3. RowOf(a, p.root) = RowId(a, q)
      BY <3>1, RowOfAnIdentifier
    <3>4. posts[r].root = RowId(a, q)
      BY <2>2, <3>1, <3>2, <3>3
    <3>5. RowId(a, q) # 0 /\ posts[RowId(a, q)].pid = q.pid
      <4>1. RowId(a, q) \in 1 .. n /\ posts[RowId(a, q)] = Row(a, k, q)
        BY <1>1
      <4>2. Row(a, k, q).pid = q.pid
        BY DEF Row
      <4> QED BY <4>1, <4>2
    <3> QED BY <2>1, <2>2, <2>3, <3>1, <3>4, <3>5
  <2>4. CASE ~ \E q \in Kept(a) : q.pid = p.root
    <3>1. RowOf(a, p.root) = 0
      BY <2>4 DEF RowOf
    <3> QED BY <2>1, <2>2, <2>4, <3>1
  <2> QED BY <2>3, <2>4
<1>3. ASSUME NEW r \in DOMAIN posts, NEW s \in DOMAIN posts, r < s
      PROVE  posts[r].at <= posts[s].at
  <2> DEFINE p == MessageOf(a, r)
             q == MessageOf(a, s)
  <2>1. r \in 1 .. n /\ s \in 1 .. n
    BY <1>1
  <2>2. p \in Kept(a) /\ q \in Kept(a) /\ RowId(a, p) = r /\ RowId(a, q) = s
    BY <2>1, EveryNumberHasItsMessage DEF n
  <2>3. posts[r].at = p.at /\ posts[s].at = q.at
    BY <1>1, <2>1 DEF Row
  <2>4. p.at \in Int /\ q.at \in Int
    BY <2>2 DEF Kept, WellFormed
  <2> HIDE DEF p, q
  <2>5. ~ Before(q, p)
    <3>1. Before(q, p) => s < r
      BY <2>2, LaterIsGreater
    <3> QED BY <1>3, <2>1, <3>1
  <2> QED BY <2>3, <2>4, <2>5 DEF Before
<1> QED BY <1>1, <1>2, <1>3 DEF posts, n

\* The index file is a build of an archive, so far as it went; a build at work
\* has its file.
IndexIsABuild ==
  /\ archive \in DOMAIN Archives
  /\ index \in [of : DOMAIN Archives, k : 0 .. Finished] \cup {NoFile}
  /\ builder = "building" => index \in [of : DOMAIN Archives, k : 0 .. Finished]
  /\ builder = "opening" => index = NoFile

LEMMA BuildsStep ==
  ASSUME IndexIsABuild, [FilesNext]_filesVars
  PROVE  IndexIsABuild'
<1>0. Finished = 10
  BY DEF Finished, Steps
<1> USE DEF IndexIsABuild
<1>1. CASE Rewrite
  BY <1>1 DEF Rewrite
<1>2. CASE BuildStart \/ BuildOpen
  BY <1>0, <1>2 DEF BuildStart, BuildOpen
<1>3. CASE BuildStep
  <2>1. /\ builder = "building" /\ index.k < Finished /\ index' = [index EXCEPT !.k = @ + 1]
        /\ archive' = archive
    BY <1>3 DEF BuildStep
  <2>2. index' \in [of : DOMAIN Archives, k : 0 .. Finished]
    BY <1>0, <2>1
  <2>3. builder' # "opening"
    BY <1>3 DEF BuildStep
  <2> QED BY <2>1, <2>2, <2>3
<1>4. CASE BuildFails
  BY <1>4 DEF BuildFails
<1>5. CASE KillBuild
  BY <1>5 DEF KillBuild
<1>6. CASE StoreStart \/ StoreWrite \/ StoreRemove \/ StoreRename \/ StoreFails \/ KillStore
  BY <1>6 DEF StoreStart, StoreWrite, StoreRemove, StoreRename, StoreFails, KillStore
<1>7. CASE UNCHANGED filesVars
  BY <1>7 DEF filesVars
<1> QED BY <1>1, <1>2, <1>3, <1>4, <1>5, <1>6, <1>7 DEF FilesNext

LEMMA AcceptedBuilds == IndexIsABuild => AcceptedIndexHoldsEveryMessage
<1> SUFFICES ASSUME IndexIsABuild, HasFile(index), HasEveryTable(index.k)
             PROVE  AcceptedIndexHoldsEveryMessage
  BY DEF AcceptedIndexHoldsEveryMessage
<1>1. index.of \in DOMAIN Archives /\ index.k \in 0 .. Finished
  BY DEF IndexIsABuild, HasFile
<1>2. index.k >= 7
  BY <1>1, StepsInOrder DEF HasEveryTable
<1>3. Contents[index.of][index.k] = Index(Archives[index.of], index.k)
  BY <1>1 DEF Contents
<1>4. WellFormed(Archives[index.of])
  BY <1>1, ArchivesAssumption
<1> QED BY <1>1, <1>2, <1>3, <1>4, IndexHoldsEveryMessage DEF AcceptedIndexHoldsEveryMessage

\* build.ts, schema.ts: a file that has every table of an index, whatever
\* build left it there, holds every message of people of its archive, in order,
\* with its text and the message it answers.
THEOREM AcceptedIsWhole == FilesSpec => []AcceptedIndexHoldsEveryMessage
<1>1. FilesInit => IndexIsABuild
  BY DEF FilesInit, IndexIsABuild
<1> QED BY <1>1, BuildsStep, AcceptedBuilds, PTL DEF FilesSpec

(*--------------------------- the store of fragments ----------------------*)
Stages == {"idle", "opened", "written", "removed"}

\* From the end of the writing on, the temporary file is complete; and so is
\* whatever stands under the final name.
CompleteWhenWritten ==
  /\ chunker.stage \in Stages
  /\ chunker.stage \in {"written", "removed"} => Complete(partial)
  /\ HasFile(store) => Complete(store)

\* A store that is written is neither absent nor torn: it has other fields.
LEMMA WrittenIsComplete ==
  ASSUME NEW print, NEW fragments
  PROVE  Complete([print |-> print, fragments |-> fragments])
  <1> DEFINE s == [print |-> print, fragments |-> fragments]
  <1>1. "print" \in DOMAIN s
    OBVIOUS
  <1>2. "print" \notin DOMAIN NoFile /\ "print" \notin DOMAIN Torn
    BY DEF NoFile, Torn
  <1> HIDE DEF s
  <1>3. s # NoFile /\ s # Torn
    BY <1>1, <1>2
  <1> QED BY <1>3 DEF Complete, s

LEMMA FilesInitHolds == FilesInit => CompleteWhenWritten
  BY DEF FilesInit, CompleteWhenWritten, Idle, Stages, HasFile

\* Each step keeps the invariant, and is one the property allows.
LEMMA FilesStep ==
  ASSUME CompleteWhenWritten, FilesNext
  PROVE  /\ CompleteWhenWritten'
         /\ store' # store => Complete(store') \/ Complete(partial')
         /\ HasFile(store') => Complete(store')
  <1> USE DEF CompleteWhenWritten, Stages
  <1>1. CASE Rewrite
    BY <1>1 DEF Rewrite, Complete, HasFile
  <1>2. CASE BuildStart \/ BuildFails
    <2>1. UNCHANGED <<store, partial>> /\ chunker' = Detached
      BY <1>2 DEF BuildStart, BuildFails
    <2>2. chunker'.stage = chunker.stage
      BY <2>1 DEF Detached
    <2> QED BY <2>1, <2>2 DEF Complete, HasFile
  <1>3. CASE BuildOpen \/ BuildStep \/ KillBuild
    BY <1>3 DEF BuildOpen, BuildStep, KillBuild, Complete, HasFile
  <1>4. CASE StoreStart
    BY <1>4 DEF StoreStart, Complete, HasFile
  <1>5. CASE StoreWrite
    <2>1. Complete(partial') /\ chunker'.stage = "written" /\ UNCHANGED store
      BY <1>5, WrittenIsComplete DEF StoreWrite
    <2> QED BY <2>1 DEF Complete, HasFile
  <1>6. CASE StoreRemove
    BY <1>6 DEF StoreRemove, Complete, HasFile
  <1>7. CASE StoreRename
    BY <1>7 DEF StoreRename, Idle, Complete, HasFile
  <1>8. CASE StoreFails \/ KillStore
    BY <1>8 DEF StoreFails, KillStore, Idle, Complete, HasFile
  <1> QED BY <1>1, <1>2, <1>3, <1>4, <1>5, <1>6, <1>7, <1>8 DEF FilesNext

\* chunk-store.ts:160: the name of the store in place only goes when the new one
\* stands complete beside it, and only ever designates a complete one.
THEOREM StoresAreReplacedWhole == FilesSpec => StoreKeptUntilReplaced
  <1>1. CompleteWhenWritten /\ [FilesNext]_filesVars => CompleteWhenWritten'
    BY FilesStep DEF filesVars, CompleteWhenWritten, Complete, HasFile
  <1>2. CompleteWhenWritten /\ [FilesNext]_filesVars =>
          [/\ store' # store => Complete(store') \/ Complete(partial')
           /\ HasFile(store') => Complete(store')]_filesVars
    BY FilesStep
  <1> QED BY <1>1, <1>2, FilesInitHolds, PTL DEF FilesSpec, StoreKeptUntilReplaced

(*--------------------------------- pages ---------------------------------*)
\* The least number of a set, and the greatest of a bounded one.
LEMMA LeastOf ==
  ASSUME NEW T \in SUBSET Nat, T # {}
  PROVE  \E x \in T : \A y \in T : x <= y
<1> DEFINE R == OpToRel(<, Nat)
<1>1. IsWellFoundedOn(R, Nat)
  BY NatLessThanWellFounded
<1>2. \A x, y \in Nat : <<y, x>> \notin R => x <= y
  BY DEF OpToRel
<1> HIDE DEF R
<1>3. PICK x \in T : \A y \in T : ~ (<<y, x>> \in R)
  BY <1>1, WFMin
<1>4. ASSUME NEW y \in T PROVE x <= y
  BY <1>2, <1>3
<1> QED BY <1>4

LEMMA GreatestOf ==
  ASSUME NEW n \in Nat, NEW T \in SUBSET (1 .. n), T # {}
  PROVE  \E x \in T : \A y \in T : y <= x
<1> DEFINE D == {n - x : x \in T}
<1>1. D \in SUBSET Nat /\ D # {}
  <2>1. \A x \in T : n - x \in Nat
    OBVIOUS
  <2> QED BY <2>1
<1>2. PICK d \in D : \A e \in D : d <= e
  <2> HIDE DEF D
  <2> QED BY <1>1, LeastOf
<1>3. PICK x \in T : d = n - x
  BY <1>2
<1>4. ASSUME NEW y \in T PROVE y <= x
  <2>1. n - y \in D
    OBVIOUS
  <2>2. n - x <= n - y
    BY <1>2, <1>3, <2>1
  <2> QED BY <2>2
<1> QED BY <1>4

\* The rows of a set that come after one.
Above(S, r) == {q \in S : q > r}

\* The newest rows of a set are closed upwards in it, and all of it when they
\* are fewer than asked for.
LEMMA NewestOf ==
  ASSUME NEW n \in Nat, NEW S \in SUBSET (1 .. n), NEW m \in Nat
  PROVE  /\ Newest(S, m) \in SUBSET S
         /\ IsFiniteSet(Newest(S, m)) /\ Cardinality(Newest(S, m)) \in Nat
         /\ \A r \in Newest(S, m) : \A s \in S : s > r => s \in Newest(S, m)
         /\ Cardinality(Newest(S, m)) < m => Newest(S, m) = S
         /\ S # {} /\ m > 0 => Newest(S, m) # {}
<1> DEFINE W == Newest(S, m)
<1>0. \A r : r \in W <=> r \in S /\ Cardinality(Above(S, r)) < m
  BY DEF Newest, Above
<1> HIDE DEF W
<1>1. IsFiniteSet(1 .. n)
  <2>1. n \in Int /\ 1 \in Int
    OBVIOUS
  <2> QED BY <2>1, FS_Interval
<1>2. IsFiniteSet(S)
  BY <1>1, FS_Subset
<1>3. \A r : Above(S, r) \in SUBSET S
  BY DEF Above
<1>4. \A r : IsFiniteSet(Above(S, r)) /\ Cardinality(Above(S, r)) \in Nat
  BY <1>2, <1>3, FS_Subset, FS_CardinalityType
<1>5. W \in SUBSET S
  BY <1>0
<1>6. IsFiniteSet(W) /\ Cardinality(W) \in Nat
  BY <1>2, <1>5, FS_Subset, FS_CardinalityType
<1>7. ASSUME NEW r \in W, NEW s \in S, s > r PROVE s \in W
  <2>1. r \in S /\ Above(S, s) \in SUBSET Above(S, r)
    <3>1. r \in S /\ \A q \in S : q > s => q > r
      <4>1. r \in Int /\ s \in Int /\ S \in SUBSET Int
        BY <1>5
      <4> QED BY <1>5, <1>7, <4>1
    <3> QED BY <3>1 DEF Above
  <2>2. Cardinality(Above(S, s)) <= Cardinality(Above(S, r))
    BY <1>4, <2>1, FS_Subset
  <2> QED BY <1>0, <1>4, <2>2
<1>8. ASSUME Cardinality(W) < m PROVE W = S
  <2> SUFFICES ASSUME S \ W # {} PROVE FALSE
    BY <1>5
  <2>1. PICK r \in S \ W : \A s \in S \ W : s <= r
    <3>1. S \ W \in SUBSET (1 .. n)
      OBVIOUS
    <3> QED BY <3>1, GreatestOf
  <2>2. Above(S, r) \in SUBSET W
    <3>1. ASSUME NEW s \in S, s > r PROVE s \in W
      BY <2>1, <3>1
    <3> QED BY <3>1 DEF Above
  <2>3. Cardinality(Above(S, r)) <= Cardinality(W)
    BY <1>6, <2>2, FS_Subset
  <2> QED BY <1>0, <1>4, <1>6, <1>8, <2>1, <2>3
<1>9. ASSUME S # {}, m > 0 PROVE W # {}
  <2>1. PICK r \in S : \A s \in S : s <= r
    BY <1>9, GreatestOf
  <2>2. Above(S, r) = {}
    <3>1. S \in SUBSET Int
      OBVIOUS
    <3>2. \A s \in S : ~ (s > r)
      BY <2>1, <3>1
    <3> QED BY <3>2 DEF Above
  <2>3. Cardinality(Above(S, r)) = 0
    BY <2>2, FS_EmptySet
  <2> QED BY <1>0, <1>9, <2>1, <2>3
<1> QED BY <1>5, <1>6, <1>7, <1>8, <1>9 DEF W

\* Every row of S from next on, all of them when there is none.
Reaches(ids, S, next) == \A s \in S : next = Null \/ s >= next => s \in ids

UpClosed(ids, S) == ids \in SUBSET S /\ \A r \in ids : \A s \in S : s > r => s \in ids

\* A page is closed upwards in what was asked, and its cursor says where it ends.
LEMMA PageOf ==
  ASSUME NEW n \in Nat, NEW S \in SUBSET (1 .. n), NEW limit \in Nat \ {0}
  PROVE  LET page == Paginate(Newest(S, limit + 1), limit)
         IN  /\ UpClosed(page.ids, S) /\ page.next \in Nat
             /\ Reaches(page.ids, S, page.next)
<1> DEFINE W == Newest(S, limit + 1)
           V == Newest(W, limit)
           page == Paginate(W, limit)
<1>1. /\ W \in SUBSET S /\ Cardinality(W) \in Nat
      /\ \A r \in W : \A s \in S : s > r => s \in W
      /\ Cardinality(W) < limit + 1 => W = S
  <2>1. limit + 1 \in Nat
    OBVIOUS
  <2> QED BY <2>1, NewestOf
<1>2. W \in SUBSET (1 .. n)
  BY <1>1
<1> HIDE DEF W
<1>3. /\ V \in SUBSET W
      /\ \A r \in V : \A s \in W : s > r => s \in V
      /\ W # {} => V # {}
  <2>1. limit \in Nat /\ limit > 0
    OBVIOUS
  <2> QED BY <1>2, <2>1, NewestOf
<1>4. page = IF Cardinality(W) <= limit THEN [ids |-> W, next |-> Null]
             ELSE [ids |-> V, next |-> Least(V)]
  BY DEF Paginate
<1> HIDE DEF V, page
<1>5. CASE Cardinality(W) <= limit
  <2>1. W = S
    BY <1>1, <1>5
  <2>2. page.ids = S /\ page.next = Null
    BY <1>4, <1>5, <2>1
  <2>3. UpClosed(page.ids, S) /\ Reaches(page.ids, S, page.next)
    BY <2>2 DEF UpClosed, Reaches
  <2> QED BY <2>2, <2>3 DEF page, W, Null
<1>6. CASE ~ (Cardinality(W) <= limit)
  <2>1. page.ids = V /\ page.next = Least(V)
    BY <1>4, <1>6
  <2>2. W # {}
    BY <1>6, FS_EmptySet
  <2>3. V # {} /\ V \in SUBSET Nat
    BY <1>2, <1>3, <2>2
  <2>4. Least(V) \in V /\ \A q \in V : Least(V) <= q
    BY <2>3, LeastOf DEF Least
  <2>5. ASSUME NEW r \in V, NEW s \in S, s > r PROVE s \in V
    BY <1>1, <1>3, <2>5
  <2>6. UpClosed(V, S)
    BY <1>1, <1>3, <2>5 DEF UpClosed
  <2>7. Least(V) \in 1 .. n
    BY <1>2, <1>3, <2>4
  <2>8. ASSUME NEW s \in S, s >= Least(V) PROVE s \in V
    <3>1. CASE s = Least(V)
      BY <2>4, <3>1
    <3>2. CASE s > Least(V)
      BY <2>4, <2>5, <3>2
    <3> QED BY <2>7, <2>8, <3>1, <3>2
  <2>9. Reaches(V, S, Least(V))
    BY <2>7, <2>8 DEF Reaches, Null
  <2> QED BY <2>1, <2>6, <2>7, <2>9 DEF page, W
<1> QED BY <1>5, <1>6

(*------------------------- the list of a channel -------------------------*)
There(ch) == OfChannel(X, ch)
Written == Cardinality(Kept(Archive))

\* The rows of the finished index the reader has before him.
LEMMA RowsOfTheArchive ==
  /\ Written \in Nat /\ DOMAIN X.posts = 1 .. Written
  /\ \A r \in 1 .. Written : X.posts[r] = Row(Archive, Finished, MessageOf(Archive, r))
  /\ X.channels = Archive.channels
  /\ \A ch : There(ch) \in SUBSET (1 .. Written)
<1>1. WellFormed(Archive) /\ Finished \in 0 .. Finished /\ Finished >= 3
  BY ReadingAssumption DEF Finished, Steps
<1>2. Written \in Nat
  BY <1>1, KeptIsFinite DEF Written
<1>3. /\ DOMAIN X.posts = 1 .. Written
      /\ \A r \in 1 .. Written : X.posts[r] = Row(Archive, Finished, MessageOf(Archive, r))
  BY <1>1, RowsOfAnIndex DEF X, Written
<1>4. X.channels = Archive.channels
  BY <1>1, StepsInOrder DEF X, Index
<1>5. \A ch : There(ch) \in SUBSET (1 .. Written)
  BY <1>3 DEF There, OfChannel
<1> QED BY <1>2, <1>3, <1>4, <1>5

\* What is read of a channel is closed upwards, and goes on from next.
ReadTo(ids, ch, next) ==
  UpClosed(ids, There(ch)) /\ next \in Nat /\ Reaches(ids, There(ch), next)

\* The first page of a channel starts the reading of it.
LEMMA FirstPageOf ==
  ASSUME NEW ch
  PROVE  LET page == ChannelPage(X, ch, 0, Limit) IN ReadTo(page.ids, ch, page.next)
<1> DEFINE S == {r \in OfChannel(X, ch) : 0 = 0 \/ r < 0}
<1>1. S = There(ch)
  BY DEF There
<1>2. S \in SUBSET (1 .. Written) /\ Written \in Nat
  BY <1>1, RowsOfTheArchive
<1>3. ChannelPage(X, ch, 0, Limit) = Paginate(Newest(S, Limit + 1), Limit)
  BY DEF ChannelPage
<1> HIDE DEF S
<1>4. LET page == Paginate(Newest(S, Limit + 1), Limit)
      IN  /\ UpClosed(page.ids, S) /\ page.next \in Nat
          /\ Reaches(page.ids, S, page.next)
  BY <1>2, PageOf, ReadingAssumption
<1> QED BY <1>1, <1>3, <1>4 DEF ReadTo

\* The page before a row read up to prolongs what is read.
LEMMA NextPageOf ==
  ASSUME NEW ch, NEW before \in Nat \ {0}, NEW ids, ReadTo(ids, ch, before)
  PROVE  LET page == ChannelPage(X, ch, before, Limit)
         IN  ReadTo(ids \cup page.ids, ch, page.next)
<1> DEFINE S == {r \in OfChannel(X, ch) : before = 0 \/ r < before}
           page == Paginate(Newest(S, Limit + 1), Limit)
<1>1. There(ch) \in SUBSET (1 .. Written) /\ Written \in Nat
  BY RowsOfTheArchive
<1>2. \A r : r \in S <=> r \in There(ch) /\ r < before
  BY DEF There
<1>3. ChannelPage(X, ch, before, Limit) = page
  BY DEF ChannelPage
<1> HIDE DEF S
<1>4. S \in SUBSET (1 .. Written)
  BY <1>1, <1>2
<1>5. UpClosed(page.ids, S) /\ page.next \in Nat /\ Reaches(page.ids, S, page.next)
  BY <1>1, <1>4, PageOf, ReadingAssumption
<1> HIDE DEF page
<1>6. /\ ids \in SUBSET There(ch) /\ \A r \in ids : \A s \in There(ch) : s > r => s \in ids
      /\ \A s \in There(ch) : s >= before => s \in ids
  BY DEF ReadTo, UpClosed, Reaches, Null
<1>7. /\ page.ids \in SUBSET S /\ \A r \in page.ids : \A s \in S : s > r => s \in page.ids
      /\ \A s \in S : page.next = Null \/ s >= page.next => s \in page.ids
  BY <1>5 DEF UpClosed, Reaches
<1>8. \A s \in There(ch) : s \in ids \/ s \in S
  BY <1>1, <1>2, <1>6
<1>9. UpClosed(ids \cup page.ids, There(ch))
  BY <1>2, <1>6, <1>7, <1>8 DEF UpClosed
<1>10. Reaches(ids \cup page.ids, There(ch), page.next)
  BY <1>7, <1>8 DEF Reaches
<1> QED BY <1>3, <1>5, <1>9, <1>10 DEF ReadTo

\* Reading more loses nothing of what was read.
LEMMA ReadingMore ==
  ASSUME NEW ch, NEW before, NEW ids, NEW more,
         ReadTo(ids, ch, before), UpClosed(ids \cup more, There(ch))
  PROVE  ReadTo(ids \cup more, ch, before)
BY DEF ReadTo, Reaches

CallForm(c) == c = [n |-> c.n, ask |-> c.ask, live |-> c.live] /\ c.live \in BOOLEAN

\* The list of a channel whose first messages came.
ListForm(l) == DOMAIN l = {"ids", "next", "loading", "failed", "seen"}

LEMMA ListFormIsLoaded ==
  ASSUME NEW l, ListForm(l)
  PROVE  l \notin {None, Loading, Broken}
<1>1. "seen" \notin DOMAIN None /\ "seen" \notin DOMAIN Loading /\ "seen" \notin DOMAIN Broken
  BY DEF None, Loading, Broken
<1> QED BY <1>1 DEF ListForm

LiveCalls(kind) == {c \in calls : c.live /\ c.ask.kind = kind}

\* At most one opening of a channel is awaited, and then nothing is shown; the
\* pages awaited are of the channel shown; what is shown is read up to its
\* cursor, up to the one of its last rendering, up to each page awaited.
ReadingInv ==
  /\ \A c \in calls : CallForm(c)
  /\ list \in {Loading, Broken} \/ ListForm(list)
  /\ \A c, d \in LiveCalls("canal") : c = d
  /\ \A c \in LiveCalls("canal") :
       /\ list = Loading /\ InChannel(route)
       /\ c.ask.ch = route.ch /\ c.ask.focus = route.focus
  /\ \A c \in LiveCalls("suite") : ListForm(list) /\ c.ask.ch = route.ch
  /\ ListForm(list) => InChannel(route)
  /\ ListForm(list) /\ route.focus = 0 =>
       /\ ReadTo(list.ids, route.ch, list.next)
       /\ ReadTo(list.ids, route.ch, list.seen.next)
       /\ \A c \in LiveCalls("suite") : c.ask.before # 0 /\ ReadTo(list.ids, route.ch, c.ask.before)

LEMMA ReadingInitHolds == ReadingInit => ReadingInv
BY ListFormIsLoaded DEF ReadingInit, ReadingInv, LiveCalls

\* What is asked: calls that are kept, or the new ones.
LEMMA AskedCalls ==
  ASSUME NEW cs, \A c \in cs : CallForm(c), NEW kinds, NEW new
  PROVE  \E n : \A c \in Asked(cs, kinds, new) :
           /\ CallForm(c)
           /\ c.live => \/ c \in cs /\ c.ask.kind \notin kinds
                        \/ \E a \in new : c = [n |-> n, ask |-> a, live |-> TRUE]
<1> DEFINE n == CHOOSE i \in 1..(Cardinality(cs) + 1) : \A c \in cs : c.n # i
           kept == {[c EXCEPT !.live = @ /\ c.ask.kind \notin kinds] : c \in cs}
<1>1. Asked(cs, kinds, new) = kept \cup {[n |-> n, ask |-> a, live |-> TRUE] : a \in new}
  BY DEF Asked
<1> HIDE DEF n
<1>2. ASSUME NEW c \in kept
      PROVE  CallForm(c) /\ (c.live => c \in cs /\ c.ask.kind \notin kinds)
  <2>1. PICK d \in cs : c = [d EXCEPT !.live = @ /\ d.ask.kind \notin kinds]
    BY <1>2
  <2>2. d = [n |-> d.n, ask |-> d.ask, live |-> d.live] /\ d.live \in BOOLEAN
    BY <2>1 DEF CallForm
  <2>3. c = [n |-> d.n, ask |-> d.ask, live |-> d.live /\ d.ask.kind \notin kinds]
    BY <2>1, <2>2
  <2>4. CASE d.live /\ d.ask.kind \notin kinds
    <3>1. c = [n |-> d.n, ask |-> d.ask, live |-> TRUE] /\ d.live = TRUE
      BY <2>2, <2>3, <2>4
    <3>2. c = d
      BY <2>2, <3>1
    <3> QED BY <2>1, <2>2, <2>4, <3>2 DEF CallForm
  <2>5. CASE ~ (d.live /\ d.ask.kind \notin kinds)
    <3>1. c = [n |-> d.n, ask |-> d.ask, live |-> FALSE]
      BY <2>3, <2>5
    <3> QED BY <3>1 DEF CallForm
  <2> QED BY <2>4, <2>5
<1>3. ASSUME NEW a \in new
      PROVE  CallForm([n |-> n, ask |-> a, live |-> TRUE])
  BY DEF CallForm
<1> HIDE DEF kept
<1> QED BY <1>1, <1>2, <1>3

\* A step that leaves the address and the list as they are, and asks nothing of
\* a channel.
LEMMA ListUntouched ==
  ASSUME ReadingInv, UNCHANGED <<route, list>>,
         \A c \in calls' : /\ CallForm(c)
                           /\ c.live /\ c.ask.kind \in {"canal", "suite"} => c \in calls
  PROVE  ReadingInv'
<1>1. \A kind \in {"canal", "suite"} : LiveCalls(kind)' \in SUBSET LiveCalls(kind)
  BY DEF LiveCalls
<1> QED BY <1>1 DEF ReadingInv

\* Another address: what was awaited of a channel is given up.
LEMMA MovingOn ==
  ASSUME ReadingInv, NEW r, NEW cs \in SUBSET calls, MoveTo(r, cs)
  PROVE  ReadingInv'
<1> DEFINE kinds == {"canal", "suite", "recherche", "permalien"}
                      \cup (IF r.view = route.view THEN {} ELSE {"fil"})
<1>1. /\ route' = r /\ list' = IF InChannel(r) THEN Loading ELSE Broken
      /\ calls' = Asked(cs, kinds, Questions(r))
  BY DEF MoveTo
<1>2. \A c \in cs : CallForm(c)
  BY DEF ReadingInv
<1>3. {"canal", "suite"} \subseteq kinds
  OBVIOUS
<1> HIDE DEF kinds
<1>4. PICK n : \A c \in Asked(cs, kinds, Questions(r)) :
        /\ CallForm(c)
        /\ c.live => \/ c \in cs /\ c.ask.kind \notin kinds
                     \/ \E a \in Questions(r) : c = [n |-> n, ask |-> a, live |-> TRUE]
  BY <1>2, AskedCalls
<1>5. /\ InChannel(r) => Questions(r) = {[kind |-> "canal", ch |-> r.ch, focus |-> r.focus]}
      /\ ~ InChannel(r) => \A a \in Questions(r) : a.kind \in {"recherche", "permalien"}
  BY DEF Questions, InChannel, InSearch
<1>6. ASSUME NEW c \in calls', c.live, c.ask.kind \in {"canal", "suite"}
      PROVE  /\ InChannel(r)
             /\ c = [n |-> n, live |-> TRUE,
                     ask |-> [kind |-> "canal", ch |-> r.ch, focus |-> r.focus]]
  <2>1. PICK a \in Questions(r) : c = [n |-> n, ask |-> a, live |-> TRUE]
    BY <1>1, <1>3, <1>4, <1>6
  <2>2. c.ask = a
    BY <2>1
  <2>3. InChannel(r)
    BY <1>5, <1>6, <2>2
  <2> QED BY <1>5, <2>1, <2>3
<1>7. LiveCalls("suite")' = {}
  <2>1. \A c \in calls' : ~ (c.live /\ c.ask.kind = "suite")
    BY <1>6
  <2> QED BY <2>1 DEF LiveCalls
<1>8. \A c \in LiveCalls("canal")' :
        /\ InChannel(r)
        /\ c = [n |-> n, live |-> TRUE, ask |-> [kind |-> "canal", ch |-> r.ch, focus |-> r.focus]]
  BY <1>6 DEF LiveCalls
<1>9. ~ ListForm(list')
  BY <1>1, ListFormIsLoaded
<1>10. \A c \in calls' : CallForm(c)
  BY <1>1, <1>4
<1>11. \A c, d \in LiveCalls("canal")' : c = d
  BY <1>8
<1>12. ASSUME NEW c \in LiveCalls("canal")'
       PROVE  /\ list' = Loading /\ InChannel(route')
              /\ c.ask.ch = route'.ch /\ c.ask.focus = route'.focus
  <2>1. c.ask = [kind |-> "canal", ch |-> r.ch, focus |-> r.focus] /\ InChannel(r)
    BY <1>8
  <2> QED BY <1>1, <2>1
<1>13. list' \in {Loading, Broken}
  BY <1>1
<1> QED BY <1>7, <1>9, <1>10, <1>11, <1>12, <1>13 DEF ReadingInv

\* The first messages of a channel come: nothing else of it is awaited.
LEMMA OpenedStep ==
  ASSUME ReadingInv, Opened
  PROVE  ReadingInv'
<1>1. PICK c \in calls :
        /\ c.ask.kind = "canal" /\ calls' = calls \ {c} /\ UNCHANGED route
        /\ list' = IF c.live
                   THEN LET page == Answer(c.ask)
                        IN  [ids |-> page.ids, next |-> page.next, loading |-> FALSE,
                             failed |-> FALSE, seen |-> [next |-> page.next, loading |-> FALSE]]
                   ELSE list
  BY DEF Opened
<1>2. \A d \in calls' : CallForm(d) /\ d \in calls
  BY <1>1 DEF ReadingInv
<1>3. CASE ~ c.live
  BY <1>1, <1>2, <1>3, ListUntouched
<1>4. CASE c.live
  <2> DEFINE page == Answer(c.ask)
  <2>1. c \in LiveCalls("canal")
    BY <1>1, <1>4 DEF LiveCalls
  <2>2. list = Loading /\ InChannel(route) /\ c.ask.ch = route.ch /\ c.ask.focus = route.focus
    BY <2>1 DEF ReadingInv
  <2>3. LiveCalls("canal")' = {}
    <3>1. \A d \in LiveCalls("canal") : d = c
      BY <2>1 DEF ReadingInv
    <3> QED BY <1>1, <3>1 DEF LiveCalls
  <2>4. LiveCalls("suite")' = {}
    <3>1. LiveCalls("suite") = {}
      BY <2>2, ListFormIsLoaded DEF ReadingInv
    <3> QED BY <1>1, <3>1 DEF LiveCalls
  <2>5. route.focus = 0 => ReadTo(page.ids, route.ch, page.next)
    <3>1. ASSUME route.focus = 0 PROVE page = ChannelPage(X, route.ch, 0, Limit)
      BY <1>1, <2>2, <3>1 DEF Answer, ServerAnswer, WorkerAnswer, Pages
    <3> QED BY <3>1, FirstPageOf
  <2> HIDE DEF page
  <2>6. list' = [ids |-> page.ids, next |-> page.next, loading |-> FALSE,
                 failed |-> FALSE, seen |-> [next |-> page.next, loading |-> FALSE]]
    BY <1>1, <1>4 DEF page
  <2>7. ListForm(list') /\ list'.ids = page.ids /\ list'.next = page.next
        /\ list'.seen.next = page.next
    BY <2>6 DEF ListForm
  <2> QED BY <1>1, <1>2, <2>2, <2>3, <2>4, <2>5, <2>7 DEF ReadingInv
<1> QED BY <1>3, <1>4

\* A page asked for is one read up to at the last rendering.
LEMMA ScrollStep ==
  ASSUME ReadingInv, Scroll
  PROVE  ReadingInv'
<1> DEFINE a == [kind |-> "suite", ch |-> route.ch, before |-> list.seen.next]
<1>1. /\ Shown /\ list.seen.next # Null /\ list' = [list EXCEPT !.loading = TRUE, !.failed = FALSE]
      /\ calls' = Asked(calls, {}, {a}) /\ UNCHANGED route
  BY DEF Scroll
<1>2. ListForm(list) /\ InChannel(route)
  BY <1>1 DEF Shown, ReadingInv
<1>3. ListForm(list') /\ list'.ids = list.ids /\ list'.next = list.next
      /\ list'.seen.next = list.seen.next
  <2>1. list' = [list EXCEPT !.loading = TRUE, !.failed = FALSE]
    BY <1>1
  <2> QED BY ONLY <1>2, <2>1 DEF ListForm
<1>4. LiveCalls("canal") = {}
  BY <1>2, ListFormIsLoaded DEF ReadingInv
<1> HIDE DEF a
<1>5. PICK n : \A c \in Asked(calls, {}, {a}) :
        /\ CallForm(c)
        /\ c.live => \/ c \in calls /\ c.ask.kind \notin {}
                     \/ \E b \in {a} : c = [n |-> n, ask |-> b, live |-> TRUE]
  BY AskedCalls DEF ReadingInv
<1>6. \A c \in calls' : CallForm(c)
  BY <1>1, <1>5
<1>7. \A c \in calls' : c.live => c \in calls \/ c.ask = a
  BY <1>1, <1>5
<1>8. a.kind = "suite" /\ a.ch = route.ch /\ a.before = list.seen.next
  BY DEF a
<1>9. LiveCalls("canal")' = {}
  BY <1>4, <1>7, <1>8 DEF LiveCalls
<1>10. \A c \in LiveCalls("suite")' : c \in LiveCalls("suite") \/ c.ask = a
  BY <1>7 DEF LiveCalls
<1>11. \A c \in LiveCalls("suite")' : c.ask.ch = route.ch
  <2>1. \A c \in LiveCalls("suite") : c.ask.ch = route.ch
    BY DEF ReadingInv
  <2> QED BY <1>8, <1>10, <2>1
<1>12. ASSUME route.focus = 0
       PROVE  /\ ReadTo(list.ids, route.ch, list.next)
              /\ ReadTo(list.ids, route.ch, list.seen.next)
              /\ \A c \in LiveCalls("suite")' :
                   c.ask.before # 0 /\ ReadTo(list.ids, route.ch, c.ask.before)
  <2>1. /\ ReadTo(list.ids, route.ch, list.next)
        /\ ReadTo(list.ids, route.ch, list.seen.next)
        /\ \A c \in LiveCalls("suite") :
             c.ask.before # 0 /\ ReadTo(list.ids, route.ch, c.ask.before)
    BY <1>2, <1>12 DEF ReadingInv
  <2>2. list.seen.next # 0
    BY <1>1 DEF Null
  <2> QED BY <1>8, <1>10, <2>1, <2>2
<1> QED BY <1>1, <1>2, <1>3, <1>6, <1>9, <1>11, <1>12 DEF ReadingInv

\* A rendering catches up with the cursor.
LEMMA RenderStep ==
  ASSUME ReadingInv, Render
  PROVE  ReadingInv'
<1>1. /\ Shown /\ list' = [list EXCEPT !.seen = [next |-> list.next, loading |-> list.loading]]
      /\ UNCHANGED <<calls, route>>
  BY DEF Render
<1>2. ListForm(list) /\ InChannel(route)
  BY <1>1 DEF Shown, ReadingInv
<1>3. ListForm(list') /\ list'.ids = list.ids /\ list'.next = list.next
      /\ list'.seen.next = list.next
  <2>1. list' = [list EXCEPT !.seen = [next |-> list.next, loading |-> list.loading]]
    BY <1>1
  <2> QED BY ONLY <1>2, <2>1 DEF ListForm
<1>4. LiveCalls("canal") = {}
  BY <1>2, ListFormIsLoaded DEF ReadingInv
<1>5. LiveCalls("canal")' = LiveCalls("canal") /\ LiveCalls("suite")' = LiveCalls("suite")
  BY <1>1 DEF LiveCalls
<1> QED BY <1>1, <1>2, <1>3, <1>4, <1>5 DEF ReadingInv

\* A page that comes, in whatever order, prolongs what is read.
LEMMA OlderStep ==
  ASSUME ReadingInv, Older
  PROVE  ReadingInv'
<1>1. PICK c \in calls :
        /\ c.ask.kind = "suite" /\ calls' = calls \ {c} /\ UNCHANGED route
        /\ list' = IF c.live
                   THEN LET page == Answer(c.ask)
                        IN  [list EXCEPT !.ids = @ \cup page.ids, !.next = page.next,
                                         !.loading = FALSE]
                   ELSE list
  BY DEF Older
<1>2. \A d \in calls' : CallForm(d) /\ d \in calls
  BY <1>1 DEF ReadingInv
<1>3. CASE ~ c.live
  BY <1>1, <1>2, <1>3, ListUntouched
<1>4. CASE c.live
  <2> DEFINE page == Answer(c.ask)
  <2>1. c \in LiveCalls("suite")
    BY <1>1, <1>4 DEF LiveCalls
  <2>2. ListForm(list) /\ InChannel(route) /\ c.ask.ch = route.ch
    BY <2>1 DEF ReadingInv
  <2>3. ASSUME route.focus = 0
        PROVE  ReadTo(list.ids \cup page.ids, route.ch, page.next)
    <3>1. c.ask.before # 0 /\ ReadTo(list.ids, route.ch, c.ask.before)
      BY <2>1, <2>2, <2>3 DEF ReadingInv
    <3>2. c.ask.before \in Nat \ {0}
      BY <3>1 DEF ReadTo
    <3>3. page = ChannelPage(X, route.ch, c.ask.before, Limit)
      <4>1. c.ask.before # Undefined
        BY <3>2 DEF Undefined
      <4> QED BY <1>1, <2>2, <4>1 DEF Answer, ServerAnswer, WorkerAnswer, Pages
    <3> QED BY <3>1, <3>2, <3>3, NextPageOf
  <2> HIDE DEF page
  <2>4. ListForm(list') /\ list'.ids = list.ids \cup page.ids /\ list'.next = page.next
        /\ list'.seen.next = list.seen.next
    <3>1. list' = [list EXCEPT !.ids = @ \cup page.ids, !.next = page.next, !.loading = FALSE]
      BY <1>1, <1>4 DEF page
    <3> QED BY ONLY <2>2, <3>1 DEF ListForm
  <2>5. LiveCalls("canal")' = {}
    <3>1. LiveCalls("canal") = {}
      BY <2>2, ListFormIsLoaded DEF ReadingInv
    <3> QED BY <1>1, <3>1 DEF LiveCalls
  <2>6. LiveCalls("suite")' \in SUBSET LiveCalls("suite")
    BY <1>1 DEF LiveCalls
  <2>7. ASSUME route.focus = 0
        PROVE  /\ ReadTo(list'.ids, route.ch, list'.next)
               /\ ReadTo(list'.ids, route.ch, list'.seen.next)
               /\ \A d \in LiveCalls("suite")' :
                    d.ask.before # 0 /\ ReadTo(list'.ids, route.ch, d.ask.before)
    <3>1. ReadTo(list.ids \cup page.ids, route.ch, page.next)
      BY <2>3, <2>7
    <3>2. UpClosed(list.ids \cup page.ids, There(route.ch))
      BY <3>1 DEF ReadTo
    <3>3. /\ ReadTo(list.ids, route.ch, list.seen.next)
          /\ \A d \in LiveCalls("suite") :
               d.ask.before # 0 /\ ReadTo(list.ids, route.ch, d.ask.before)
      BY <2>2, <2>7 DEF ReadingInv
    <3>4. ReadTo(list.ids \cup page.ids, route.ch, list.seen.next)
      BY <3>2, <3>3, ReadingMore
    <3>5. ASSUME NEW d \in LiveCalls("suite")'
          PROVE  d.ask.before # 0 /\ ReadTo(list.ids \cup page.ids, route.ch, d.ask.before)
      BY <2>6, <3>2, <3>3, ReadingMore
    <3> QED BY <2>4, <3>1, <3>4, <3>5
  <2>8. \A d \in LiveCalls("suite")' : d.ask.ch = route.ch
    BY <2>6 DEF ReadingInv
  <2> QED BY <1>1, <1>2, <2>2, <2>4, <2>5, <2>7, <2>8 DEF ReadingInv
<1> QED BY <1>3, <1>4

\* A failure takes the messages away or leaves them as they are.
LEMMA FailStep ==
  ASSUME ReadingInv, Fail
  PROVE  ReadingInv'
<1>1. PICK c \in calls :
        /\ calls' = calls \ {c} /\ UNCHANGED route
        /\ list' = CASE c.live /\ c.ask.kind = "canal" -> Broken
                     [] c.live /\ c.ask.kind = "suite" ->
                          [list EXCEPT !.failed = TRUE, !.loading = FALSE]
                     [] OTHER -> list
  BY DEF Fail
<1>2. \A d \in calls' : CallForm(d) /\ d \in calls
  BY <1>1 DEF ReadingInv
<1>3. CASE ~ (c.live /\ c.ask.kind \in {"canal", "suite"})
  <2>1. list' = list
    BY <1>1, <1>3
  <2> QED BY <1>1, <1>2, <2>1, ListUntouched
<1>4. CASE c.live /\ c.ask.kind = "canal"
  <2>1. c \in LiveCalls("canal") /\ list' = Broken
    BY <1>1, <1>4 DEF LiveCalls
  <2>2. list = Loading
    BY <2>1 DEF ReadingInv
  <2>3. LiveCalls("canal")' = {}
    <3>1. \A d \in LiveCalls("canal") : d = c
      BY <2>1 DEF ReadingInv
    <3> QED BY <1>1, <3>1 DEF LiveCalls
  <2>4. LiveCalls("suite")' = {}
    <3>1. LiveCalls("suite") = {}
      BY <2>2, ListFormIsLoaded DEF ReadingInv
    <3> QED BY <1>1, <3>1 DEF LiveCalls
  <2>5. ~ ListForm(list')
    BY <2>1, ListFormIsLoaded
  <2> QED BY <1>2, <2>1, <2>3, <2>4, <2>5 DEF ReadingInv
<1>5. CASE c.live /\ c.ask.kind = "suite"
  <2>1. c \in LiveCalls("suite") /\ list' = [list EXCEPT !.failed = TRUE, !.loading = FALSE]
    BY <1>1, <1>5 DEF LiveCalls
  <2>2. ListForm(list) /\ InChannel(route)
    BY <2>1 DEF ReadingInv
  <2>3. ListForm(list') /\ list'.ids = list.ids /\ list'.next = list.next
        /\ list'.seen.next = list.seen.next
    BY ONLY <2>1, <2>2 DEF ListForm
  <2>4. LiveCalls("canal")' = {}
    <3>1. LiveCalls("canal") = {}
      BY <2>2, ListFormIsLoaded DEF ReadingInv
    <3> QED BY <1>1, <3>1 DEF LiveCalls
  <2>5. LiveCalls("suite")' \in SUBSET LiveCalls("suite")
    BY <1>1 DEF LiveCalls
  <2> QED BY <1>1, <1>2, <2>2, <2>3, <2>4, <2>5 DEF ReadingInv
<1> QED BY <1>3, <1>4, <1>5

\* The other actions leave the list and the openings of channels alone.
LEMMA OtherSteps ==
  ASSUME ReadingInv,
         MissingPermalink \/ Searched \/ OpenThread \/ CloseThread \/ ThreadRead
  PROVE  ReadingInv'
<1>0. \A c \in calls : CallForm(c)
  BY DEF ReadingInv
<1>1. CASE MissingPermalink \/ Searched \/ ThreadRead
  <2>1. UNCHANGED <<route, list>> /\ \A c \in calls' : c \in calls
    BY <1>1 DEF MissingPermalink, Searched, ThreadRead
  <2> QED BY <1>0, <2>1, ListUntouched
<1>2. CASE OpenThread
  <2>1. PICK r \in list.ids :
          /\ calls' = Asked(calls, {"fil"}, {[kind |-> "fil", root |-> r]})
          /\ UNCHANGED <<route, list>>
    BY <1>2 DEF OpenThread
  <2> DEFINE a == [kind |-> "fil", root |-> r]
  <2>2. a.kind = "fil" /\ calls' = Asked(calls, {"fil"}, {a})
    BY <2>1
  <2> HIDE DEF a
  <2>3. PICK n : \A c \in Asked(calls, {"fil"}, {a}) :
          /\ CallForm(c)
          /\ c.live => \/ c \in calls /\ c.ask.kind \notin {"fil"}
                       \/ \E b \in {a} : c = [n |-> n, ask |-> b, live |-> TRUE]
    BY <1>0, AskedCalls
  <2>4. \A c \in calls' : CallForm(c) /\ (c.live => c \in calls \/ c.ask = a)
    BY <2>2, <2>3
  <2> QED BY <2>1, <2>2, <2>4, ListUntouched
<1>3. CASE CloseThread
  <2>1. calls' = Asked(calls, {"fil"}, {}) /\ UNCHANGED <<route, list>>
    BY <1>3 DEF CloseThread
  <2>2. PICK n : \A c \in Asked(calls, {"fil"}, {}) :
          /\ CallForm(c)
          /\ c.live => \/ c \in calls /\ c.ask.kind \notin {"fil"}
                       \/ \E b \in {} : c = [n |-> n, ask |-> b, live |-> TRUE]
    BY <1>0, AskedCalls
  <2>3. \A c \in calls' : CallForm(c) /\ (c.live => c \in calls)
    BY <2>1, <2>2
  <2> QED BY <2>1, <2>3, ListUntouched
<1> QED BY <1>1, <1>2, <1>3

LEMMA ReadingStep ==
  ASSUME ReadingInv, [ReadingNext]_readingVars
  PROVE  ReadingInv'
<1>1. CASE Navigate
  <2>1. PICK r : MoveTo(r, calls)
    BY <1>1 DEF Navigate
  <2> QED BY <2>1, MovingOn
<1>2. CASE FollowPermalink
  <2>1. PICK c \in calls, r \in DOMAIN X.posts :
          MoveTo([view |-> "canal", ch |-> X.posts[r].ch, focus |-> r], calls \ {c})
    BY <1>2 DEF FollowPermalink
  <2>2. calls \ {c} \in SUBSET calls
    OBVIOUS
  <2> QED BY <2>1, <2>2, MovingOn
<1>3. CASE UNCHANGED readingVars
  <2>1. UNCHANGED <<route, list, calls>>
    BY <1>3 DEF readingVars
  <2> QED BY <2>1, ListUntouched DEF ReadingInv
<1> QED BY <1>1, <1>2, <1>3, OpenedStep, ScrollStep, RenderStep, OlderStep, FailStep,
           OtherSteps DEF ReadingNext

\* The messages of a channel of the archive are those of its rows.
LEMMA MessagesAreRows ==
  ASSUME NEW ch, There(ch) # {}
  PROVE  /\ \A r \in There(ch) : /\ MessageOf(Archive, r) \in MessagesOf(Archive.channels[ch])
                                 /\ MessageOf(Archive, r) \in Kept(Archive)
                                 /\ RowId(Archive, MessageOf(Archive, r)) = r
                                 /\ X.posts[r].pid = MessageOf(Archive, r).pid
         /\ \A p \in MessagesOf(Archive.channels[ch]) :
              /\ p \in Kept(Archive) /\ RowId(Archive, p) \in There(ch)
              /\ X.posts[RowId(Archive, p)].pid = p.pid
<1> DEFINE chs == Archive.channels
<1>0. WellFormed(Archive)
  BY ReadingAssumption
<1>1. \A r \in There(ch) :
        /\ MessageOf(Archive, r) \in Kept(Archive)
        /\ RowId(Archive, MessageOf(Archive, r)) = r
        /\ X.posts[r].pid = MessageOf(Archive, r).pid
        /\ Position(chs, MessageOf(Archive, r).ch) = ch
  <2> SUFFICES ASSUME NEW r \in There(ch)
               PROVE  /\ MessageOf(Archive, r) \in Kept(Archive)
                      /\ RowId(Archive, MessageOf(Archive, r)) = r
                      /\ X.posts[r].pid = MessageOf(Archive, r).pid
                      /\ Position(chs, MessageOf(Archive, r).ch) = ch
    OBVIOUS
  <2>1. r \in 1 .. Cardinality(Kept(Archive)) /\ X.posts[r].ch = ch
    BY RowsOfTheArchive DEF There, OfChannel, Written
  <2>2. X.posts[r] = Row(Archive, Finished, MessageOf(Archive, r))
    BY <2>1, RowsOfTheArchive DEF Written
  <2>3. X.posts[r].pid = MessageOf(Archive, r).pid
        /\ X.posts[r].ch = Position(chs, MessageOf(Archive, r).ch)
    BY <2>2 DEF Row
  <2>4. MessageOf(Archive, r) \in Kept(Archive) /\ RowId(Archive, MessageOf(Archive, r)) = r
    BY <1>0, <2>1, EveryNumberHasItsMessage
  <2> QED BY <2>1, <2>3, <2>4
<1>2. \A c : Position(chs, c) # 0 => Position(chs, c) \in DOMAIN chs /\ chs[Position(chs, c)] = c
  BY DEF Position
<1>3. \A p \in Kept(Archive) : Position(chs, p.ch) # 0 /\ p.human /\ p.ch \notin Archive.lost
                              /\ p \in Archive.posts
  BY DEF Kept
<1>4. ch # 0 /\ Position(chs, chs[ch]) = ch
  <2>1. PICK r \in There(ch) : TRUE
    OBVIOUS
  <2>2. Position(chs, MessageOf(Archive, r).ch) = ch
    BY <1>1
  <2>3. ch # 0
    BY <1>1, <1>3, <2>2
  <2> QED BY <1>2, <2>2, <2>3
<1>5. ASSUME NEW r \in There(ch)
      PROVE  MessageOf(Archive, r) \in MessagesOf(chs[ch])
  <2>1. MessageOf(Archive, r).ch = chs[ch]
    BY <1>1, <1>2, <1>4
  <2> QED BY <1>1, <1>3, <2>1 DEF MessagesOf
<1>6. ASSUME NEW p \in MessagesOf(chs[ch])
      PROVE  /\ p \in Kept(Archive) /\ RowId(Archive, p) \in There(ch)
             /\ X.posts[RowId(Archive, p)].pid = p.pid
  <2>1. p \in Archive.posts /\ p.human /\ p.ch = chs[ch] /\ p.ch \notin Archive.lost
    BY DEF MessagesOf
  <2>2. p \in Kept(Archive)
    BY <1>4, <2>1 DEF Kept
  <2>3. RowId(Archive, p) \in 1 .. Written /\ MessageOf(Archive, RowId(Archive, p)) = p
    BY <1>0, <2>2, NumbersAreInRange, EveryNumberHasItsMessage DEF Written
  <2>4. X.posts[RowId(Archive, p)] = Row(Archive, Finished, p)
    BY <2>3, RowsOfTheArchive
  <2>5. X.posts[RowId(Archive, p)].ch = ch /\ X.posts[RowId(Archive, p)].pid = p.pid
    BY <1>4, <2>1, <2>4 DEF Row
  <2> QED BY <2>2, <2>3, <2>5, RowsOfTheArchive DEF There, OfChannel
<1> QED BY <1>1, <1>5, <1>6

\* Rows read of a channel, as the messages seen of it.
LEMMA SeenAreRead ==
  ASSUME NEW ch, There(ch) # {}, NEW ids \in SUBSET There(ch)
  PROVE  LET theirs == MessagesOf(Archive.channels[ch])
             seen == {p \in theirs : p.pid \in Pids(ids)}
         IN  /\ Cardinality(seen) = Cardinality(ids)
             /\ \A p \in theirs : p \in seen <=> RowId(Archive, p) \in ids
<1> DEFINE theirs == MessagesOf(Archive.channels[ch])
           seen == {p \in theirs : p.pid \in Pids(ids)}
           m == [r \in ids |-> MessageOf(Archive, r)]
<1>1. /\ \A r \in There(ch) : /\ MessageOf(Archive, r) \in theirs
                              /\ MessageOf(Archive, r) \in Kept(Archive)
                              /\ RowId(Archive, MessageOf(Archive, r)) = r
                              /\ X.posts[r].pid = MessageOf(Archive, r).pid
      /\ \A p \in theirs : /\ p \in Kept(Archive) /\ RowId(Archive, p) \in There(ch)
                           /\ X.posts[RowId(Archive, p)].pid = p.pid
  BY MessagesAreRows
<1>2. \A p, q \in Kept(Archive) : p.pid = q.pid => p = q
  BY ReadingAssumption DEF WellFormed, Kept
<1> HIDE DEF theirs
<1>3. ASSUME NEW p \in theirs PROVE p \in seen <=> RowId(Archive, p) \in ids
  <2>1. ASSUME p \in seen PROVE RowId(Archive, p) \in ids
    <3>1. PICK r \in ids : p.pid = X.posts[r].pid
      BY <2>1 DEF Pids
    <3>2. p = MessageOf(Archive, r)
      BY <1>1, <1>2, <3>1
    <3> QED BY <1>1, <3>1, <3>2
  <2>2. ASSUME RowId(Archive, p) \in ids PROVE p \in seen
    BY <1>1, <2>2 DEF Pids
  <2> QED BY <2>1, <2>2
<1>4. \A p : p \in seen => p \in theirs
  OBVIOUS
<1> HIDE DEF seen
<1>5. m \in [ids -> seen]
  BY <1>1, <1>3
<1>6. \A r, s \in ids : m[r] = m[s] => r = s
  BY <1>1
<1>7. \A p \in seen : \E r \in ids : m[r] = p
  <2> SUFFICES ASSUME NEW p \in seen PROVE \E r \in ids : m[r] = p
    OBVIOUS
  <2>1. p \in theirs /\ RowId(Archive, p) \in ids
    BY <1>3, <1>4
  <2>2. MessageOf(Archive, RowId(Archive, p)) = p
    BY <1>1, <2>1, ReadingAssumption, EveryNumberHasItsMessage
  <2> QED BY <2>1, <2>2
<1> HIDE DEF m
<1>8. m \in Bijection(ids, seen)
  BY <1>5, <1>6, <1>7 DEF Bijection, Injection, Surjection, IsInjective
<1>9. IsFiniteSet(ids)
  <2>1. Written \in Int /\ 1 \in Int /\ ids \in SUBSET (1 .. Written)
    BY RowsOfTheArchive
  <2>2. IsFiniteSet(1 .. Written)
    BY <2>1, FS_Interval
  <2> QED BY <2>1, <2>2, FS_Subset
<1>10. Cardinality(seen) = Cardinality(ids)
  BY <1>8, <1>9, FS_Bijection DEF ExistsBijection
<1> QED BY <1>3, <1>10 DEF seen, theirs

\* In numbers as in messages: nothing is skipped.
LEMMA NothingIsSkipped == ReadingInv => NoHoleInChannel
<1> SUFFICES ASSUME ReadingInv, Shown, route.focus = 0
             PROVE  NoHoleInChannel
  BY DEF NoHoleInChannel
<1> DEFINE ch == route.ch
           ids == list.ids
           theirs == MessagesOf(Archive.channels[ch])
           seen == {p \in theirs : p.pid \in Pids(ids)}
<1>1. There(ch) # {} /\ list \notin {None, Loading, Broken}
  BY DEF Shown, There
<1>2. ReadTo(ids, ch, list.next)
  BY <1>1 DEF ReadingInv
<1>3. /\ ids \in SUBSET There(ch) /\ \A r \in ids : \A s \in There(ch) : s > r => s \in ids
      /\ list.next = Null => \A s \in There(ch) : s \in ids
  BY <1>2 DEF ReadTo, UpClosed, Reaches
<1>4. /\ Cardinality(seen) = Cardinality(ids)
      /\ \A p \in theirs : p \in seen <=> RowId(Archive, p) \in ids
  BY <1>1, <1>3, SeenAreRead
<1>5. \A p \in theirs : p \in Kept(Archive) /\ RowId(Archive, p) \in There(ch)
  BY <1>1, MessagesAreRows
<1>6. \A p \in seen : p \in theirs
  OBVIOUS
<1>7. NoHoleInChannel <=> /\ Cardinality(seen) = Cardinality(ids)
                          /\ \A p \in seen, q \in theirs : Before(p, q) => q \in seen
                          /\ list.next = Null => seen = theirs
  BY DEF NoHoleInChannel
<1>8. There(ch) \in SUBSET Int
  BY RowsOfTheArchive
<1> HIDE DEF ch, ids, theirs, seen
<1>9. ASSUME NEW p \in seen, NEW q \in theirs, Before(p, q) PROVE q \in seen
  <2>1. p \in Kept(Archive) /\ q \in Kept(Archive)
    BY <1>5, <1>6
  <2>2. RowId(Archive, p) < RowId(Archive, q)
    BY <1>9, <2>1, LaterIsGreater, ReadingAssumption
  <2>3. RowId(Archive, q) > RowId(Archive, p)
    BY <1>5, <1>6, <1>8, <2>2
  <2> QED BY <1>3, <1>4, <1>5, <1>6, <2>3
<1>10. ASSUME list.next = Null PROVE seen = theirs
  <2>1. \A p \in theirs : p \in seen
    BY <1>3, <1>4, <1>5, <1>10
  <2> QED BY <1>6, <2>1
<1> QED BY <1>4, <1>7, <1>9, <1>10

\* MessageList.tsx, queries.ts: a channel opened on its end is read without a
\* hole, whatever pages come late, twice, after a failure or after the reader
\* moved on, and its start is only announced once everything is shown.
THEOREM ChannelsHaveNoHole == ReadingSpec => []NoHoleInChannel
BY ReadingInitHolds, ReadingStep, NothingIsSkipped, PTL DEF ReadingSpec

(*--------------------------- the date of a search ------------------------*)
\* The messages of an index are numbered in the order of their dates.
Chronological(x) ==
  /\ Len(x.posts) \in Nat /\ DOMAIN x.posts = 1 .. Len(x.posts)
  /\ \A r \in DOMAIN x.posts : x.posts[r].at \in Int
  /\ \A r, s \in DOMAIN x.posts : r < s => x.posts[r].at <= x.posts[s].at

Intervals(x) == (1 .. (Len(x.posts) + 1)) \X (1 .. (Len(x.posts) + 1))

Bisected(x, t, f) ==
  f = [i \in Intervals(x) |->
         IF i[1] >= i[2] THEN i[1]
         ELSE IF x.posts[(i[1] + i[2]) \div 2].at >= t THEN f[<<i[1], (i[1] + i[2]) \div 2>>]
         ELSE f[<<(i[1] + i[2]) \div 2 + 1, i[2]>>]]

LEMMA BisectionIsChosen ==
  ASSUME NEW x, NEW t
  PROVE  RowidAtOrAfter(x, t) = (CHOOSE f : Bisected(x, t, f))[<<1, Len(x.posts) + 1>>]
BY DEF RowidAtOrAfter, Bisected, Intervals

\* Where the messages of a date and after begin.
LEMMA DatesAreCut ==
  ASSUME NEW x, Chronological(x), NEW t \in Int
  PROVE  \E b \in 1 .. (Len(x.posts) + 1) : \A r \in DOMAIN x.posts : x.posts[r].at >= t <=> r >= b
<1> DEFINE n == Len(x.posts)
           T == {r \in 1 .. n : x.posts[r].at >= t} \cup {n + 1}
<1>1. /\ n \in Nat /\ DOMAIN x.posts = 1 .. n /\ \A r \in 1 .. n : x.posts[r].at \in Int
      /\ \A r, s \in 1 .. n : r < s => x.posts[r].at <= x.posts[s].at
  BY DEF Chronological
<1>2. T \in SUBSET Nat /\ T # {}
  BY <1>1
<1>3. PICK b \in T : \A y \in T : b <= y
  <2> HIDE DEF T
  <2> QED BY <1>2, LeastOf
<1>4. b \in 1 .. (n + 1)
  BY <1>1, <1>3
<1>5. ASSUME NEW r \in 1 .. n PROVE x.posts[r].at >= t <=> r >= b
  <2>1. CASE x.posts[r].at >= t
    <3>1. r \in T
      BY <2>1
    <3> QED BY <1>1, <1>3, <1>4, <2>1, <3>1
  <2>2. CASE r >= b
    <3>1. b \in 1 .. n /\ x.posts[b].at >= t
      BY <1>1, <1>3, <1>4, <2>2
    <3>2. x.posts[b].at <= x.posts[r].at
      BY <1>1, <2>2, <3>1
    <3> QED BY <1>1, <2>2, <3>1, <3>2
  <2> QED BY <2>1, <2>2
<1> QED BY <1>1, <1>4, <1>5

\* What the bisection of an interval finds, b being where the date begins.
Clipped(b, low, high) == IF low >= high THEN low
                         ELSE IF b < low THEN low ELSE IF b > high THEN high ELSE b

\* The bisection of an interval is that of the half that holds b.
LEMMA HalvesOf ==
  ASSUME NEW n \in Nat, NEW b \in 1 .. (n + 1),
         NEW low \in 1 .. (n + 1), NEW high \in 1 .. (n + 1), low < high
  PROVE  LET middle == (low + high) \div 2
         IN  /\ middle \in 1 .. n /\ low <= middle /\ middle < high
             /\ middle \in 1 .. (n + 1) /\ middle + 1 \in 1 .. (n + 1)
             /\ middle - low < high - low /\ high - (middle + 1) < high - low
             /\ middle >= b => Clipped(b, low, high) = Clipped(b, low, middle)
             /\ ~ (middle >= b) => Clipped(b, low, high) = Clipped(b, middle + 1, high)
<1> DEFINE middle == (low + high) \div 2
<1>1. middle \in Int /\ 2 * middle <= low + high /\ low + high < 2 * middle + 2
  OBVIOUS
<1> HIDE DEF middle
<1>2. /\ middle \in 1 .. n /\ low <= middle /\ middle < high
      /\ middle \in 1 .. (n + 1) /\ middle + 1 \in 1 .. (n + 1)
      /\ middle - low < high - low /\ high - (middle + 1) < high - low
  BY <1>1
<1>3. middle >= b => Clipped(b, low, high) = Clipped(b, low, middle)
  BY <1>2 DEF Clipped
<1>4. ~ (middle >= b) => Clipped(b, low, high) = Clipped(b, middle + 1, high)
  BY <1>2 DEF Clipped
<1> QED BY <1>2, <1>3, <1>4 DEF middle

LEMMA BisectionEnds ==
  ASSUME NEW x, Chronological(x), NEW t, NEW b \in 1 .. (Len(x.posts) + 1),
         \A r \in DOMAIN x.posts : x.posts[r].at >= t <=> r >= b
  PROVE  RowidAtOrAfter(x, t) = b
<1> DEFINE n == Len(x.posts)
           I == Intervals(x)
           g == [i \in I |-> Clipped(b, i[1], i[2])]
           half(i) == (i[1] + i[2]) \div 2
<1>1. /\ n \in Nat /\ \A r \in 1 .. n : x.posts[r].at >= t <=> r >= b
      /\ I = (1 .. (n + 1)) \X (1 .. (n + 1)) /\ b \in 1 .. (n + 1)
  BY DEF Chronological, Intervals
<1>2. ASSUME NEW i \in I
      PROVE  /\ i[1] \in 1 .. (n + 1) /\ i[2] \in 1 .. (n + 1)
             /\ i[1] < i[2] =>
                  /\ <<i[1], half(i)>> \in I /\ <<half(i) + 1, i[2]>> \in I
                  /\ half(i) - i[1] < i[2] - i[1] /\ i[2] - (half(i) + 1) < i[2] - i[1]
                  /\ half(i) \in 1 .. n
                  /\ x.posts[half(i)].at >= t =>
                       Clipped(b, i[1], i[2]) = Clipped(b, i[1], half(i))
                  /\ ~ (x.posts[half(i)].at >= t) =>
                       Clipped(b, i[1], i[2]) = Clipped(b, half(i) + 1, i[2])
  <2>1. i[1] \in 1 .. (n + 1) /\ i[2] \in 1 .. (n + 1)
    BY <1>1
  <2> SUFFICES ASSUME i[1] < i[2]
               PROVE  /\ <<i[1], half(i)>> \in I /\ <<half(i) + 1, i[2]>> \in I
                      /\ half(i) - i[1] < i[2] - i[1] /\ i[2] - (half(i) + 1) < i[2] - i[1]
                      /\ half(i) \in 1 .. n
                      /\ x.posts[half(i)].at >= t =>
                           Clipped(b, i[1], i[2]) = Clipped(b, i[1], half(i))
                      /\ ~ (x.posts[half(i)].at >= t) =>
                           Clipped(b, i[1], i[2]) = Clipped(b, half(i) + 1, i[2])
    BY <2>1
  <2>2. /\ half(i) \in 1 .. n /\ i[1] <= half(i) /\ half(i) < i[2]
        /\ half(i) \in 1 .. (n + 1) /\ half(i) + 1 \in 1 .. (n + 1)
        /\ half(i) - i[1] < i[2] - i[1] /\ i[2] - (half(i) + 1) < i[2] - i[1]
        /\ half(i) >= b => Clipped(b, i[1], i[2]) = Clipped(b, i[1], half(i))
        /\ ~ (half(i) >= b) => Clipped(b, i[1], i[2]) = Clipped(b, half(i) + 1, i[2])
    BY <1>1, <2>1, HalvesOf
  <2>3. x.posts[half(i)].at >= t <=> half(i) >= b
    BY <1>1, <2>2
  <2> QED BY <1>1, <2>1, <2>2, <2>3
<1> HIDE DEF half
<1>3. Bisected(x, t, g)
  <2>1. ASSUME NEW i \in I
        PROVE  g[i] = IF i[1] >= i[2] THEN i[1]
                      ELSE IF x.posts[half(i)].at >= t THEN g[<<i[1], half(i)>>]
                      ELSE g[<<half(i) + 1, i[2]>>]
    <3>1. g[i] = Clipped(b, i[1], i[2]) /\ i[1] \in Int /\ i[2] \in Int
      BY <1>1, <1>2
    <3>2. CASE i[1] >= i[2]
      BY <3>1, <3>2 DEF Clipped
    <3>3. CASE i[1] < i[2]
      <4>1. /\ g[<<i[1], half(i)>>] = Clipped(b, i[1], half(i))
            /\ g[<<half(i) + 1, i[2]>>] = Clipped(b, half(i) + 1, i[2])
        BY <1>2, <3>3
      <4> QED BY <1>2, <3>1, <3>3, <4>1
    <3> QED BY <3>1, <3>2, <3>3
  <2>2. g = [i \in I |-> g[i]]
    OBVIOUS
  <2> HIDE DEF g
  <2> QED BY <2>1, <2>2 DEF Bisected, half
<1> DEFINE f == CHOOSE f : Bisected(x, t, f)
<1>4. Bisected(x, t, f)
  BY <1>3
<1> HIDE DEF f, g, I
<1>5. ASSUME NEW i \in I
      PROVE  f[i] = IF i[1] >= i[2] THEN i[1]
                    ELSE IF x.posts[half(i)].at >= t THEN f[<<i[1], half(i)>>]
                    ELSE f[<<half(i) + 1, i[2]>>]
  BY <1>4 DEF Bisected, half, I
<1> DEFINE Wrong == {m \in Nat : \E i \in I : m = (IF i[1] >= i[2] THEN 0 ELSE i[2] - i[1])
                                            /\ f[i] # Clipped(b, i[1], i[2])}
<1>6. Wrong = {}
  <2> SUFFICES ASSUME Wrong # {} PROVE FALSE
    OBVIOUS
  <2>1. Wrong \in SUBSET Nat
    OBVIOUS
  <2>2. PICK m \in Wrong : \A y \in Wrong : m <= y
    <3> HIDE DEF Wrong
    <3> QED BY <2>1, LeastOf
  <2>3. PICK i \in I : m = (IF i[1] >= i[2] THEN 0 ELSE i[2] - i[1]) /\ f[i] # Clipped(b, i[1], i[2])
    BY <2>2
  <2>4. i[1] \in Int /\ i[2] \in Int
    BY <1>1, <1>2
  <2>5. i[1] < i[2]
    <3> SUFFICES ASSUME i[1] >= i[2] PROVE FALSE
      BY <2>4
    <3>1. f[i] = i[1]
      BY <1>5
    <3>2. Clipped(b, i[1], i[2]) = i[1]
      BY DEF Clipped
    <3> QED BY <2>3, <3>1, <3>2
  <2>6. \A j \in I : j[2] - j[1] < m => f[j] = Clipped(b, j[1], j[2])
    <3> SUFFICES ASSUME NEW j \in I, j[2] - j[1] < m, f[j] # Clipped(b, j[1], j[2]) PROVE FALSE
      OBVIOUS
    <3>1. j[1] \in Int /\ j[2] \in Int
      BY <1>1, <1>2
    <3> DEFINE l == IF j[1] >= j[2] THEN 0 ELSE j[2] - j[1]
    <3>2. l \in Nat /\ l < m
      BY <2>3, <2>4, <2>5, <3>1
    <3>3. l \in Wrong
      BY <3>2
    <3> QED BY <2>1, <2>2, <3>2, <3>3
  <2>7. /\ f[<<i[1], half(i)>>] = Clipped(b, i[1], half(i))
        /\ f[<<half(i) + 1, i[2]>>] = Clipped(b, half(i) + 1, i[2])
    <3>1. /\ <<i[1], half(i)>> \in I /\ <<half(i) + 1, i[2]>> \in I
          /\ half(i) - i[1] < m /\ i[2] - (half(i) + 1) < m
      BY <1>2, <2>3, <2>4, <2>5
    <3> DEFINE j == <<i[1], half(i)>>
               k == <<half(i) + 1, i[2]>>
    <3>2. j[1] = i[1] /\ j[2] = half(i) /\ k[1] = half(i) + 1 /\ k[2] = i[2]
      OBVIOUS
    <3>3. j \in I /\ k \in I /\ j[2] - j[1] < m /\ k[2] - k[1] < m
      BY <3>1, <3>2
    <3>4. f[j] = Clipped(b, j[1], j[2]) /\ f[k] = Clipped(b, k[1], k[2])
      <4> HIDE DEF j, k
      <4> QED BY <2>6, <3>3
    <3> QED BY <3>2, <3>4
  <2>8. f[i] = IF x.posts[half(i)].at >= t THEN f[<<i[1], half(i)>>]
               ELSE f[<<half(i) + 1, i[2]>>]
    BY <1>5, <2>4, <2>5
  <2>9. /\ x.posts[half(i)].at >= t => Clipped(b, i[1], i[2]) = Clipped(b, i[1], half(i))
        /\ ~ (x.posts[half(i)].at >= t) => Clipped(b, i[1], i[2]) = Clipped(b, half(i) + 1, i[2])
    BY <1>2, <2>5
  <2> QED BY <2>3, <2>7, <2>8, <2>9
<1>7. f[<<1, n + 1>>] = b
  <2>1. <<1, n + 1>> \in I
    BY <1>1
  <2>2. f[<<1, n + 1>>] = Clipped(b, 1, n + 1)
    <3> DEFINE i == <<1, n + 1>>
               l == IF i[1] >= i[2] THEN 0 ELSE i[2] - i[1]
    <3>1. i[1] = 1 /\ i[2] = n + 1 /\ i \in I
      BY <2>1
    <3>2. l \in Nat
      BY <1>1, <3>1
    <3>3. l \notin Wrong
      BY <1>6
    <3> HIDE DEF i
    <3>4. f[i] = Clipped(b, i[1], i[2])
      BY <3>1, <3>2, <3>3
    <3> QED BY <3>1, <3>4 DEF i
  <2> QED BY <1>1, <2>2 DEF Clipped
<1> QED BY <1>7, BisectionIsChosen DEF f

\* So are those of the index the reader has before him.
LEMMA RowsAreChronological == Chronological(X)
<1>0. WellFormed(Archive) /\ Written \in Nat /\ DOMAIN X.posts = 1 .. Written
  BY ReadingAssumption, RowsOfTheArchive
<1>1. Len(X.posts) = Written
  BY <1>0, RowsOfAnIndex DEF X, Written, Finished, Steps
<1>2. \A r \in 1 .. Written : /\ MessageOf(Archive, r) \in Kept(Archive)
                              /\ RowId(Archive, MessageOf(Archive, r)) = r
                              /\ X.posts[r].at = MessageOf(Archive, r).at
                              /\ MessageOf(Archive, r).at \in Int
  <2>1. \A p \in Kept(Archive) : p.at \in Int
    BY <1>0 DEF WellFormed, Kept
  <2> SUFFICES ASSUME NEW r \in 1 .. Written
               PROVE  /\ MessageOf(Archive, r) \in Kept(Archive)
                      /\ RowId(Archive, MessageOf(Archive, r)) = r
                      /\ X.posts[r].at = MessageOf(Archive, r).at
    BY <2>1
  <2>2. X.posts[r] = Row(Archive, Finished, MessageOf(Archive, r))
    BY RowsOfTheArchive
  <2> QED BY <1>0, <2>2, EveryNumberHasItsMessage DEF Written, Row
<1>3. ASSUME NEW r \in 1 .. Written, NEW s \in 1 .. Written, r < s
      PROVE  X.posts[r].at <= X.posts[s].at
  <2> DEFINE p == MessageOf(Archive, r)
             q == MessageOf(Archive, s)
  <2>1. /\ p \in Kept(Archive) /\ q \in Kept(Archive)
        /\ RowId(Archive, p) = r /\ RowId(Archive, q) = s
        /\ X.posts[r].at = p.at /\ X.posts[s].at = q.at /\ p.at \in Int /\ q.at \in Int
    BY <1>2
  <2> HIDE DEF p, q
  <2>2. ~ Before(q, p)
    BY <1>0, <1>3, <2>1, LaterIsGreater
  <2>3. p # q
    BY <1>3, <2>1
  <2>4. Before(p, q)
    BY <1>0, <2>1, <2>2, <2>3, BeforeIsOrder
  <2> QED BY <2>1, <2>4 DEF Before
<1> QED BY <1>0, <1>1, <1>2, <1>3 DEF Chronological

\* In numbers as in dates.
LEMMA RowsFromADate ==
  ASSUME NEW t \in Int
  PROVE  \A r \in 1 .. Written : r >= RowidAtOrAfter(X, t) <=> X.posts[r].at >= t
<1>1. Chronological(X) /\ DOMAIN X.posts = 1 .. Written
  BY RowsAreChronological, RowsOfTheArchive
<1>2. PICK b \in 1 .. (Len(X.posts) + 1) : \A r \in DOMAIN X.posts : X.posts[r].at >= t <=> r >= b
  BY <1>1, DatesAreCut
<1>3. RowidAtOrAfter(X, t) = b
  BY <1>1, <1>2, BisectionEnds
<1> QED BY <1>1, <1>2, <1>3

LEMMA RowsUpToADate ==
  ASSUME NEW t \in Int
  PROVE  \A r \in 1 .. Written : r < RowidAtOrAfter(X, t + 1) <=> X.posts[r].at <= t
<1>1. Chronological(X) /\ DOMAIN X.posts = 1 .. Written /\ t + 1 \in Int
  BY RowsAreChronological, RowsOfTheArchive
<1>2. PICK b \in 1 .. (Len(X.posts) + 1) :
        \A r \in DOMAIN X.posts : X.posts[r].at >= t + 1 <=> r >= b
  BY <1>1, DatesAreCut
<1>3. RowidAtOrAfter(X, t + 1) = b
  BY <1>1, <1>2, BisectionEnds
<1>4. b \in Int
  BY <1>1 DEF Chronological
<1>5. ASSUME NEW r \in 1 .. Written
      PROVE  r < b <=> X.posts[r].at <= t
  <2> DEFINE at == X.posts[r].at
  <2>1. r \in Int /\ at \in Int
    BY <1>1, RowsOfTheArchive DEF Chronological
  <2>2. at >= t + 1 <=> r >= b
    BY <1>1, <1>2
  <2> HIDE DEF at
  <2>3. r < b <=> at <= t
    BY <1>4, <2>1, <2>2
  <2> QED BY <2>3 DEF at
<1> QED BY <1>3, <1>5

\* A day of the reader, in the instants of the archive.
LEMMA DayIsAnInterval ==
  ASSUME NEW at \in Int, NEW d \in Int
  PROVE  /\ (at + Offset) \div Day \in Int
         /\ (at + Offset) \div Day >= d <=> at >= StartOfDay(d, Offset)
<1>1. Day \in Nat \ {0} /\ Offset \in Int
  BY DayAssumption, QueriesAssumption
<1> DEFINE t == at + Offset
           k == t \div Day
<1>2. k \in Int /\ k * Day <= t /\ t < k * Day + Day
  BY <1>1
<1>3. t \in Int
  BY <1>1
<1> HIDE DEF k
<1>4. k >= d => k * Day >= d * Day
  BY <1>1, <1>2
<1>5. ~ (k >= d) => (k + 1) * Day <= d * Day
  BY <1>1, <1>2
<1>6. (k + 1) * Day = k * Day + Day /\ k * Day \in Int /\ d * Day \in Int
  BY <1>1, <1>2
<1>7. StartOfDay(d, Offset) = d * Day - Offset
  BY DEF StartOfDay
<1>8. k >= d <=> t >= d * Day
  BY <1>2, <1>3, <1>4, <1>5, <1>6, <1>1
<1> QED BY <1>1, <1>2, <1>6, <1>7, <1>8 DEF k

\* The days asked for are those between the two bounds.
LEMMA NextDay ==
  ASSUME NEW d \in Int
  PROVE  StartOfDay(d, Offset) \in Int /\ StartOfDay(d + 1, Offset) = StartOfDay(d, Offset) + Day
<1>1. Day \in Int /\ Offset \in Int
  BY DayAssumption, QueriesAssumption
<1>2. (d + 1) * Day = d * Day + Day /\ d * Day \in Int
  BY <1>1
<1> QED BY <1>1, <1>2 DEF StartOfDay

(*------------------------------ what is found ----------------------------*)
\* As many of the newest rows as asked for, or all of them.
LEMMA NewestAreCounted ==
  ASSUME NEW n \in Nat, NEW S \in SUBSET (1 .. n), NEW m \in Nat
  PROVE  Cardinality(Newest(S, m)) = Lower(m, Cardinality(S))
<1> DEFINE Good == {k \in Nat : Cardinality(Newest(S, k)) = Lower(k, Cardinality(S))}
           Bad == Nat \ Good
<1>0. IsFiniteSet(S) /\ Cardinality(S) \in Nat
  <2>1. IsFiniteSet(1 .. n)
    BY FS_Interval
  <2> QED BY <2>1, FS_Subset, FS_CardinalityType
<1>1. 0 \in Good
  <2>1. ASSUME NEW r \in S PROVE Cardinality({q \in S : q > r}) >= 0
    <3>1. IsFiniteSet({q \in S : q > r})
      BY <1>0, FS_Subset
    <3> QED BY <3>1, FS_CardinalityType
  <2>2. ASSUME NEW r \in S PROVE ~ (Cardinality({q \in S : q > r}) < 0)
    <3>1. IsFiniteSet({q \in S : q > r})
      BY <1>0, FS_Subset
    <3>2. Cardinality({q \in S : q > r}) \in Nat
      BY <3>1, FS_CardinalityType
    <3> QED BY <3>2
  <2>3. Newest(S, 0) = {}
    BY <2>2 DEF Newest
  <2> QED BY <1>0, <2>3, FS_EmptySet DEF Lower
<1>2. ASSUME NEW k \in Good PROVE k + 1 \in Good
  <2> DEFINE N == Newest(S, k)
             R == S \ N
  <2>1. /\ N \in SUBSET S /\ IsFiniteSet(N) /\ Cardinality(N) \in Nat
        /\ \A r \in N : \A s \in S : s > r => s \in N
        /\ Cardinality(N) = Lower(k, Cardinality(S)) /\ k \in Nat
    BY NewestOf
  <2>2. /\ Newest(S, k + 1) \in SUBSET S /\ k + 1 \in Nat
        /\ \A r : r \in Newest(S, k + 1) <=> r \in S /\ Cardinality(Above(S, r)) < k + 1
        /\ \A r : r \in N <=> r \in S /\ Cardinality(Above(S, r)) < k
    BY DEF Newest, Above
  <2>3. \A r \in S : IsFiniteSet(Above(S, r)) /\ Cardinality(Above(S, r)) \in Nat
    <3> SUFFICES ASSUME NEW r \in S PROVE IsFiniteSet(Above(S, r)) /\ Cardinality(Above(S, r)) \in Nat
      OBVIOUS
    <3>1. Above(S, r) \in SUBSET S
      BY DEF Above
    <3> QED BY <1>0, <3>1, FS_Subset, FS_CardinalityType
  <2> HIDE DEF N
  <2>4. CASE R = {}
    <3>1. N = S
      BY <2>1, <2>4
    <3>2. Newest(S, k + 1) = S
      <4>1. ASSUME NEW r \in S PROVE r \in Newest(S, k + 1)
        <5>1. Cardinality(Above(S, r)) < k /\ Cardinality(Above(S, r)) \in Nat /\ k \in Nat
          BY <2>1, <2>2, <2>3, <3>1
        <5> QED BY <2>2, <5>1
      <4> QED BY <2>2, <4>1
    <3> QED BY <1>0, <2>1, <2>2, <3>1, <3>2 DEF Lower
  <2>5. CASE R # {}
    <3>1. PICK g \in R : \A y \in R : y <= g
      <4>1. R \in SUBSET (1 .. n)
        OBVIOUS
      <4> HIDE DEF R
      <4> QED BY <2>5, <4>1, GreatestOf
    <3>2. g \in S /\ g \notin N /\ S \in SUBSET Int
      BY <3>1
    <3>3. Above(S, g) = N
      <4>1. ASSUME NEW s \in S, s > g PROVE s \in N
        BY <3>1, <3>2, <4>1
      <4>2. ASSUME NEW s \in N PROVE s \in S /\ s > g
        <5>1. s \in S /\ s # g
          BY <2>1, <3>2
        <5>2. ~ (g > s)
          BY <2>1, <3>2
        <5> QED BY <3>2, <5>1, <5>2
      <4> QED BY <4>1, <4>2 DEF Above
    <3>4. Cardinality(N) = k
      <4>1. ~ (Cardinality(N) < k)
        BY <2>2, <3>2, <3>3
      <4> QED BY <1>0, <2>1, <4>1 DEF Lower
    <3>5. Newest(S, k + 1) = N \cup {g}
      <4>1. ASSUME NEW r \in N PROVE r \in Newest(S, k + 1)
        BY <2>1, <2>2, <2>3
      <4>2. g \in Newest(S, k + 1)
        BY <2>1, <2>2, <3>2, <3>3, <3>4
      <4>3. ASSUME NEW r \in R, r # g PROVE r \notin Newest(S, k + 1)
        <5>1. r < g /\ r \in S
          BY <3>1, <3>2, <4>3
        <5>2. N \cup {g} \in SUBSET Above(S, r)
          <6>1. ASSUME NEW s \in N PROVE s > r
            <7>1. s \in S /\ s # r /\ ~ (r > s)
              BY <2>1, <4>3
            <7> QED BY <3>2, <5>1, <7>1
          <6> QED BY <2>1, <3>2, <5>1, <6>1 DEF Above
        <5>3. Cardinality(N \cup {g}) = k + 1
          BY <2>1, <3>2, <3>4, FS_AddElement
        <5>4. Cardinality(N \cup {g}) <= Cardinality(Above(S, r))
          BY <2>3, <5>1, <5>2, FS_Subset
        <5> QED BY <2>1, <2>2, <2>3, <5>1, <5>3, <5>4
      <4> QED BY <2>2, <4>1, <4>2, <4>3
    <3>6. Cardinality(Newest(S, k + 1)) = k + 1
      BY <2>1, <3>2, <3>4, <3>5, FS_AddElement
    <3>7. k + 1 <= Cardinality(S)
      BY <1>0, <2>2, <3>6, FS_Subset
    <3> QED BY <1>0, <2>1, <2>2, <3>6, <3>7 DEF Lower
  <2> QED BY <2>4, <2>5
<1>3. Bad = {}
  <2> SUFFICES ASSUME Bad # {} PROVE FALSE
    OBVIOUS
  <2>1. Bad \in SUBSET Nat
    OBVIOUS
  <2>2. PICK b \in Bad : \A y \in Bad : b <= y
    <3> HIDE DEF Bad
    <3> QED BY <2>1, LeastOf
  <2> HIDE DEF Good
  <2>3. b # 0 /\ b \in Nat
    BY <1>1, <2>2
  <2>4. b - 1 \in Good
    <3>1. b - 1 \in Nat /\ ~ (b <= b - 1)
      BY <2>3
    <3> QED BY <2>2, <3>1
  <2>5. b - 1 + 1 \in Good
    BY <1>2, <2>4
  <2> QED BY <2>2, <2>3, <2>5
<1> QED BY <1>3

\* A page holds as many of the newest rows as asked for, and says whether it
\* holds them all.
LEMMA PageIsCounted ==
  ASSUME NEW n \in Nat, NEW S \in SUBSET (1 .. n), NEW limit \in Nat \ {0}
  PROVE  LET page == Paginate(Newest(S, limit + 1), limit)
         IN  /\ UpClosed(page.ids, S)
             /\ Cardinality(page.ids) = Lower(limit, Cardinality(S))
             /\ (page.next = Null) = (page.ids = S)
<1> DEFINE W == Newest(S, limit + 1)
           V == Newest(W, limit)
           page == Paginate(W, limit)
<1>1. UpClosed(page.ids, S)
  BY PageOf
<1>2. /\ W \in SUBSET S /\ limit + 1 \in Nat /\ limit \in Nat /\ W \in SUBSET (1 .. n)
      /\ Cardinality(W) = Lower(limit + 1, Cardinality(S))
      /\ Cardinality(W) < limit + 1 => W = S
  <2> DEFINE m == limit + 1
  <2>1. m \in Nat
    OBVIOUS
  <2> HIDE DEF m
  <2>2. /\ Newest(S, m) \in SUBSET S /\ Cardinality(Newest(S, m)) = Lower(m, Cardinality(S))
        /\ Cardinality(Newest(S, m)) < m => Newest(S, m) = S
    BY <2>1, NewestOf, NewestAreCounted
  <2>3. W = Newest(S, m)
    BY DEF m
  <2> HIDE DEF W
  <2> QED BY <2>1, <2>2, <2>3 DEF m
<1>3. IsFiniteSet(S) /\ Cardinality(S) \in Nat
  <2>1. IsFiniteSet(1 .. n)
    BY FS_Interval
  <2> QED BY <2>1, FS_Subset, FS_CardinalityType
<1> HIDE DEF W
<1>4. CASE Cardinality(W) <= limit
  <2>1. W = S
    BY <1>2, <1>3, <1>4 DEF Lower
  <2>2. page.ids = S /\ page.next = Null
    BY <1>4, <2>1 DEF Paginate
  <2>3. Cardinality(S) = Lower(limit, Cardinality(S))
    BY <1>2, <1>3, <1>4, <2>1 DEF Lower
  <2> QED BY <1>1, <2>2, <2>3 DEF W
<1>5. CASE ~ (Cardinality(W) <= limit)
  <2>1. page.ids = V /\ page.next = Least(V)
    BY <1>5 DEF Paginate
  <2>2. Cardinality(W) = limit + 1 /\ Cardinality(S) >= limit + 1
    BY <1>2, <1>3, <1>5 DEF Lower
  <2>3. /\ Cardinality(V) = Lower(limit, Cardinality(W)) /\ V \in SUBSET W
        /\ W # {} /\ limit > 0 => V # {}
    BY <1>2, NewestAreCounted, NewestOf
  <2>4. Cardinality(V) = limit
    BY <1>2, <2>2, <2>3 DEF Lower
  <2>5. V # S
    BY <1>2, <2>2, <2>4
  <2>6. W # {}
    BY <1>2, <2>2, FS_EmptySet
  <2> HIDE DEF V
  <2>7. V # {} /\ V \in SUBSET (1 .. n) /\ V \in SUBSET Nat
    BY <1>2, <2>3, <2>6
  <2>8. PICK x \in V : \A y \in V : x <= y
    BY <2>7, LeastOf
  <2>9. Least(V) \in V
    BY <2>8, Zenon DEF Least
  <2>10. page.next # Null
    BY <2>1, <2>7, <2>9 DEF Null
  <2>11. Lower(limit, Cardinality(S)) = limit
    BY <1>2, <1>3, <2>2 DEF Lower
  <2> QED BY <1>1, <2>1, <2>4, <2>5, <2>10, <2>11 DEF W
<1> QED BY <1>4, <1>5

\* The place of an element, and whether it has one.
LEMMA PlaceOf ==
  ASSUME NEW s, DOMAIN s \in SUBSET (Nat \ {0}), NEW e
  PROVE  /\ Position(s, e) # 0 <=> \E i \in DOMAIN s : s[i] = e
         /\ Position(s, e) # 0 => Position(s, e) \in DOMAIN s /\ s[Position(s, e)] = e
BY DEF Position

\* The archive the reader has before him: channels, accounts, messages.
LEMMA ArchiveIsSound ==
  /\ WellFormed(Archive)
  /\ DOMAIN Archive.channels \in SUBSET (Nat \ {0})
  /\ DOMAIN Archive.users \in SUBSET (Nat \ {0})
  /\ X.users = Archive.users /\ X.found
<1>1. WellFormed(Archive)
  BY ReadingAssumption
<1>2. DOMAIN Archive.channels \in SUBSET (Nat \ {0})
  <2> DEFINE C == {Archive.channels[i] : i \in DOMAIN Archive.channels}
  <2>1. Archive.channels \in Seq(C)
    BY <1>1 DEF WellFormed
  <2> HIDE DEF C
  <2> QED BY <2>1
<1>3. DOMAIN Archive.users \in SUBSET (Nat \ {0})
  <2> DEFINE C == {Archive.users[i] : i \in DOMAIN Archive.users}
  <2>1. Archive.users \in Seq(C)
    BY AccountsAssumption
  <2> HIDE DEF C
  <2> QED BY <2>1
<1>4. After(Finished, "referentials") /\ After(Finished, "filled")
  <2>1. Finished = 10 /\ Steps[2] = "referentials" /\ Steps[8] = "filled"
    BY DEF Finished, Steps
  <2> QED BY <2>1 DEF After
<1>5. X.users = Archive.users /\ X.found
  BY <1>4 DEF X, Index
<1> QED BY <1>1, <1>2, <1>3, <1>5

LEMMA MessagesAreKept == Messages = Kept(Archive)
<1> DEFINE chs == Archive.channels
<1>1. \A c : Position(chs, c) # 0 <=> \E i \in DOMAIN chs : chs[i] = c
  BY ArchiveIsSound, PlaceOf
<1>2. ASSUME NEW p \in Kept(Archive) PROVE p \in Messages
  <2>1. p \in Archive.posts /\ p.human /\ Position(chs, p.ch) # 0 /\ p.ch \notin Archive.lost
    BY DEF Kept
  <2>2. PICK i \in DOMAIN chs : chs[i] = p.ch
    BY <1>1, <2>1
  <2>3. p \in MessagesOf(chs[i])
    BY <2>1, <2>2 DEF MessagesOf
  <2> QED BY <2>3 DEF Messages
<1>3. ASSUME NEW p \in Messages PROVE p \in Kept(Archive)
  <2>1. PICK i \in DOMAIN chs : p \in MessagesOf(chs[i])
    BY DEF Messages
  <2>2. p \in Archive.posts /\ p.human /\ p.ch = chs[i] /\ p.ch \notin Archive.lost
    BY <2>1 DEF MessagesOf
  <2> QED BY <1>1, <2>2 DEF Kept
<1> QED BY <1>2, <1>3

\* A message and its row.
LEMMA RowOfAMessage ==
  /\ \A r \in 1 .. Written :
       LET p == MessageOf(Archive, r) IN
       /\ p \in Messages /\ RowId(Archive, p) = r /\ p.at \in Int
       /\ X.posts[r].pid = p.pid /\ X.posts[r].at = p.at /\ X.posts[r].words = p.words
       /\ X.posts[r].ch = Position(Archive.channels, p.ch)
       /\ X.posts[r].usr = UserId(Archive, p.by)
       /\ X.posts[r].root = IF p.root # 0 THEN RowOf(Archive, p.root) ELSE 0
  /\ \A p \in Messages : RowId(Archive, p) \in 1 .. Written /\ MessageOf(Archive, RowId(Archive, p)) = p
<1>0. WellFormed(Archive)
  BY ReadingAssumption
<1>1. After(Finished, "texts") /\ After(Finished, "threads")
  <2>1. Finished = 10 /\ Steps[4] = "texts" /\ Steps[5] = "threads"
    BY DEF Finished, Steps
  <2> QED BY <2>1 DEF After
<1>2. ASSUME NEW r \in 1 .. Written
      PROVE  LET p == MessageOf(Archive, r) IN
             /\ p \in Messages /\ RowId(Archive, p) = r /\ p.at \in Int
             /\ X.posts[r].pid = p.pid /\ X.posts[r].at = p.at /\ X.posts[r].words = p.words
             /\ X.posts[r].ch = Position(Archive.channels, p.ch)
             /\ X.posts[r].usr = UserId(Archive, p.by)
             /\ X.posts[r].root = IF p.root # 0 THEN RowOf(Archive, p.root) ELSE 0
  <2> DEFINE p == MessageOf(Archive, r)
  <2>1. p \in Kept(Archive) /\ RowId(Archive, p) = r
    BY <1>0, EveryNumberHasItsMessage DEF Written
  <2>2. p.at \in Int
    BY <1>0, <2>1 DEF WellFormed, Kept
  <2>3. X.posts[r] = Row(Archive, Finished, p)
    BY RowsOfTheArchive
  <2> HIDE DEF p
  <2>4. /\ X.posts[r].pid = p.pid /\ X.posts[r].at = p.at /\ X.posts[r].words = p.words
        /\ X.posts[r].ch = Position(Archive.channels, p.ch)
        /\ X.posts[r].usr = UserId(Archive, p.by)
        /\ X.posts[r].root = IF p.root # 0 THEN RowOf(Archive, p.root) ELSE 0
    BY <1>1, <2>3 DEF Row
  <2> QED BY <2>1, <2>2, <2>4, MessagesAreKept DEF p
<1>3. ASSUME NEW p \in Messages
      PROVE  RowId(Archive, p) \in 1 .. Written /\ MessageOf(Archive, RowId(Archive, p)) = p
  BY <1>0, MessagesAreKept, NumbersAreInRange, EveryNumberHasItsMessage DEF Written
<1> QED BY <1>2, <1>3

\* Rows, as the messages they are.
LEMMA RowsAsMessages ==
  ASSUME NEW ids \in SUBSET (1 .. Written)
  PROVE  LET seen == {p \in Messages : p.pid \in Pids(ids)}
         IN  /\ Cardinality(seen) = Cardinality(ids)
             /\ \A p \in Messages : p \in seen <=> RowId(Archive, p) \in ids
<1> DEFINE seen == {p \in Messages : p.pid \in Pids(ids)}
           m == [r \in ids |-> MessageOf(Archive, r)]
<1>1. /\ \A r \in 1 .. Written : /\ MessageOf(Archive, r) \in Messages
                                 /\ RowId(Archive, MessageOf(Archive, r)) = r
                                 /\ X.posts[r].pid = MessageOf(Archive, r).pid
      /\ \A p \in Messages : /\ RowId(Archive, p) \in 1 .. Written
                             /\ MessageOf(Archive, RowId(Archive, p)) = p
  BY RowOfAMessage
<1>2. \A p, q \in Messages : p.pid = q.pid => p = q
  BY ReadingAssumption, MessagesAreKept DEF WellFormed
<1>3. ASSUME NEW p \in Messages PROVE p \in seen <=> RowId(Archive, p) \in ids
  <2>1. ASSUME p \in seen PROVE RowId(Archive, p) \in ids
    <3>1. PICK r \in ids : p.pid = X.posts[r].pid
      BY <2>1 DEF Pids
    <3>2. p = MessageOf(Archive, r)
      BY <1>1, <1>2, <3>1
    <3> QED BY <1>1, <3>1, <3>2
  <2>2. ASSUME RowId(Archive, p) \in ids PROVE p \in seen
    <3>1. X.posts[RowId(Archive, p)].pid = p.pid
      BY <1>1
    <3> QED BY <2>2, <3>1 DEF Pids
  <2> QED BY <2>1, <2>2
<1>4. \A p : p \in seen => p \in Messages
  OBVIOUS
<1> HIDE DEF seen
<1>5. m \in [ids -> seen]
  BY <1>1, <1>3
<1>6. \A r, s \in ids : m[r] = m[s] => r = s
  BY <1>1
<1>7. \A p \in seen : \E r \in ids : m[r] = p
  BY <1>1, <1>3, <1>4
<1> HIDE DEF m
<1>8. m \in Bijection(ids, seen)
  BY <1>5, <1>6, <1>7 DEF Bijection, Injection, Surjection, IsInjective
<1>9. IsFiniteSet(ids)
  <2>1. Written \in Int /\ 1 \in Int
    BY RowsOfTheArchive
  <2>2. IsFiniteSet(1 .. Written)
    BY <2>1, FS_Interval
  <2> QED BY <2>2, FS_Subset
<1>10. Cardinality(seen) = Cardinality(ids)
  BY <1>8, <1>9, FS_Bijection DEF ExistsBijection
<1> QED BY <1>3, <1>10 DEF seen

\* A modifier of a date gives a day, or nothing.
LEMMA DateIsADay ==
  ASSUME NEW q, IsQuery(q), NEW mod \in {"on", "after", "before"}
  PROVE  /\ DateOf(q, mod) = NoBound \/ DateOf(q, mod) \in Int
         /\ DateOf(q, mod) # NoBound <=> \E i \in DOMAIN q : q[i].mod = mod
<1> DEFINE given == {i \in DOMAIN q : q[i].mod = mod}
           last == CHOOSE i \in given : \A j \in given : j <= i
<1>1. CASE given = {}
  <2>1. DateOf(q, mod) = NoBound
    BY <1>1 DEF DateOf
  <2> QED BY <1>1, <2>1
<1>2. CASE given # {}
  <2>1. DateOf(q, mod) = q[last].value
    BY <1>2 DEF DateOf
  <2>2. Len(q) \in Nat /\ DOMAIN q = 1 .. Len(q)
    <3> DEFINE C == {q[i] : i \in DOMAIN q}
    <3>1. q \in Seq(C)
      BY DEF IsQuery
    <3> HIDE DEF C
    <3> QED BY <3>1
  <2>3. given \in SUBSET (1 .. Len(q))
    BY <2>2
  <2>4. \A i \in given : i \in DOMAIN q /\ q[i].mod = mod
    OBVIOUS
  <2> HIDE DEF given
  <2>5. \E i \in given : \A j \in given : j <= i
    BY <1>2, <2>2, <2>3, GreatestOf
  <2>6. last \in given
    BY <2>5
  <2>7. q[last].value \in Int
    <3> HIDE DEF last
    <3>1. last \in DOMAIN q /\ q[last].mod = mod
      BY <2>4, <2>6
    <3> QED BY <3>1 DEF IsQuery
  <2>8. \E i \in DOMAIN q : q[i].mod = mod
    BY <2>4, <2>6
  <2> QED BY <2>1, <2>7, <2>8, DayAssumption
<1> QED BY <1>1, <1>2

\* The two bounds of a search say of an instant what its three modifiers say of
\* its day.
OnItsDays(q, at) ==
  LET day == (at + Offset) \div Day IN
  /\ DateOf(q, "on") # NoBound => day = DateOf(q, "on")
  /\ DateOf(q, "after") # NoBound => day > DateOf(q, "after")
  /\ DateOf(q, "before") # NoBound => day < DateOf(q, "before")

LEMMA BoundsAreDays ==
  ASSUME NEW q, IsQuery(q), NEW at \in Int
  PROVE  /\ FromMs(q, Offset) = NoBound \/ FromMs(q, Offset) \in Int
         /\ ToMs(q, Offset) = NoBound \/ ToMs(q, Offset) \in Int
         /\ OnItsDays(q, at) <=> /\ FromMs(q, Offset) # NoBound => at >= FromMs(q, Offset)
                                 /\ ToMs(q, Offset) # NoBound => at <= ToMs(q, Offset)
<1> DEFINE on == DateOf(q, "on")
           after == DateOf(q, "after")
           before == DateOf(q, "before")
           day == (at + Offset) \div Day
           S(d) == StartOfDay(d, Offset)
           from == FromMs(q, Offset)
           to == ToMs(q, Offset)
<1>0. NoBound \notin Int /\ Day \in Nat \ {0}
  BY DayAssumption
<1>1. /\ on = NoBound \/ on \in Int
      /\ after = NoBound \/ after \in Int
      /\ before = NoBound \/ before \in Int
  BY DateIsADay
<1>2. day \in Int
  BY DayIsAnInterval
<1>3. ASSUME NEW d \in Int
      PROVE  /\ S(d) \in Int
             /\ day >= d <=> at >= S(d)
             /\ day >= d + 1 <=> at >= S(d) + Day
  <2>1. S(d) \in Int /\ S(d + 1) = S(d) + Day /\ d + 1 \in Int
    BY NextDay
  <2> QED BY <2>1, DayIsAnInterval
<1>4. from = IF after = NoBound THEN IF on = NoBound THEN NoBound ELSE S(on)
             ELSE IF on = NoBound THEN S(after) + Day ELSE Higher(S(on), S(after) + Day)
  <2>1. on # NoBound => S(on) # NoBound
    BY <1>0, <1>1, <1>3
  <2> QED BY <2>1 DEF FromMs
<1>5. to = IF before = NoBound THEN IF on = NoBound THEN NoBound ELSE S(on) + Day - 1
           ELSE IF on = NoBound THEN S(before) - 1 ELSE Lower(S(on) + Day - 1, S(before) - 1)
  <2>1. on # NoBound => S(on) + Day - 1 # NoBound
    <3>1. on # NoBound => S(on) + Day - 1 \in Int
      BY <1>0, <1>1, <1>3
    <3> QED BY <1>0, <3>1
  <2> QED BY <2>1 DEF ToMs
<1>6. OnItsDays(q, at) <=> /\ on # NoBound => day = on
                           /\ after # NoBound => day > after
                           /\ before # NoBound => day < before
  BY DEF OnItsDays
<1> HIDE DEF on, after, before, day, S, from, to
<1>7. on # NoBound => S(on) \in Int /\ (day = on <=> at >= S(on) /\ at <= S(on) + Day - 1)
  <2> SUFFICES ASSUME on \in Int
               PROVE  S(on) \in Int /\ (day = on <=> at >= S(on) /\ at <= S(on) + Day - 1)
    BY <1>1
  <2>1. /\ S(on) \in Int /\ (day >= on <=> at >= S(on))
        /\ (day >= on + 1 <=> at >= S(on) + Day)
    BY <1>3
  <2> QED BY <1>0, <1>2, <2>1
<1>8. after # NoBound => S(after) + Day \in Int /\ (day > after <=> at >= S(after) + Day)
  <2> SUFFICES ASSUME after \in Int
               PROVE  S(after) + Day \in Int /\ (day > after <=> at >= S(after) + Day)
    BY <1>1
  <2>1. S(after) \in Int /\ (day >= after + 1 <=> at >= S(after) + Day)
    BY <1>3
  <2> QED BY <1>0, <1>2, <2>1
<1>9. before # NoBound => S(before) - 1 \in Int /\ (day < before <=> at <= S(before) - 1)
  <2> SUFFICES ASSUME before \in Int
               PROVE  S(before) - 1 \in Int /\ (day < before <=> at <= S(before) - 1)
    BY <1>1
  <2>1. S(before) \in Int /\ (day >= before <=> at >= S(before))
    BY <1>3
  <2> QED BY <1>0, <1>2, <2>1
<1>10. /\ from = NoBound \/ from \in Int
       /\ from # NoBound <=> on # NoBound \/ after # NoBound
       /\ from # NoBound => (at >= from <=> /\ on # NoBound => at >= S(on)
                                            /\ after # NoBound => at >= S(after) + Day)
  BY <1>0, <1>4, <1>7, <1>8 DEF Higher
<1>11. /\ to = NoBound \/ to \in Int
       /\ to # NoBound <=> on # NoBound \/ before # NoBound
       /\ to # NoBound => (at <= to <=> /\ on # NoBound => at <= S(on) + Day - 1
                                        /\ before # NoBound => at <= S(before) - 1)
  <2>1. on # NoBound => S(on) + Day - 1 \in Int
    BY <1>0, <1>7
  <2> QED BY <1>0, <1>5, <1>9, <2>1 DEF Lower
<1>12. OnItsDays(q, at) <=> /\ from # NoBound => at >= from
                            /\ to # NoBound => at <= to
  BY <1>6, <1>7, <1>8, <1>9, <1>10, <1>11
<1> QED BY <1>10, <1>11, <1>12 DEF from, to

\* The row of an account of the index, and the account of a message.
LEMMA NamesOfAccounts ==
  ASSUME NEW p, NEW N, \A n \in N : UserNamed(X, n) # 0
  PROVE  NameOf(p) \in N <=> UserId(Archive, p.by) \in {UserNamed(X, n) : n \in N}
<1> DEFINE users == Archive.users
           uids == [i \in DOMAIN users |-> users[i].uid]
           names == [i \in DOMAIN users |-> users[i].name]
           u == Position(uids, p.by)
<1>1. /\ DOMAIN users \in SUBSET (Nat \ {0}) /\ DOMAIN uids = DOMAIN users /\ DOMAIN names = DOMAIN users
      /\ UserId(Archive, p.by) = u /\ \A n : UserNamed(X, n) = Position(names, n)
  BY ArchiveIsSound DEF UserId, UserNamed
<1>2. /\ \A i, j \in DOMAIN users : users[i].uid = users[j].uid \/ users[i].name = users[j].name
                                    => i = j
      /\ \A i \in DOMAIN users : users[i].name # NoOne
  BY AccountsAssumption
<1>3. /\ u # 0 <=> \E i \in DOMAIN users : users[i].uid = p.by
      /\ u # 0 => u \in DOMAIN users /\ users[u].uid = p.by
  <2>1. /\ u # 0 <=> \E i \in DOMAIN uids : uids[i] = p.by
        /\ u # 0 => u \in DOMAIN uids /\ uids[u] = p.by
    BY <1>1, PlaceOf
  <2> QED BY <1>1, <2>1
<1>4. \A n \in N : LET v == UserNamed(X, n) IN v # 0 /\ v \in DOMAIN users /\ users[v].name = n
  <2> SUFFICES ASSUME NEW n \in N
               PROVE  LET v == UserNamed(X, n) IN v # 0 /\ v \in DOMAIN users /\ users[v].name = n
    OBVIOUS
  <2>1. Position(names, n) # 0 /\ UserNamed(X, n) = Position(names, n)
    BY <1>1
  <2>2. Position(names, n) \in DOMAIN names /\ names[Position(names, n)] = n
    BY <1>1, <2>1, PlaceOf
  <2> QED BY <1>1, <2>1, <2>2
<1>5. NameOf(p) = IF u # 0 THEN users[u].name ELSE NoOne
  <2>1. CASE u = 0
    BY <1>3, <2>1 DEF NameOf
  <2>2. CASE u # 0
    <3> DEFINE v == CHOOSE v \in DOMAIN users : users[v].uid = p.by
    <3>1. NameOf(p) = users[v].name
      BY <1>3, <2>2 DEF NameOf
    <3>2. v \in DOMAIN users /\ users[v].uid = p.by
      BY <1>3, <2>2
    <3> HIDE DEF v
    <3>3. v = u
      BY <1>2, <1>3, <2>2, <3>2
    <3> QED BY <2>2, <3>1, <3>3
  <2> QED BY <2>1, <2>2
<1> HIDE DEF u, users
<1>6. ASSUME NameOf(p) \in N PROVE u \in {UserNamed(X, n) : n \in N}
  <2> DEFINE n == NameOf(p)
             v == UserNamed(X, n)
  <2>1. v # 0 /\ v \in DOMAIN users /\ users[v].name = n
    BY <1>4, <1>6
  <2>2. u # 0
    BY <1>2, <1>5, <2>1
  <2>3. u = v
    BY <1>2, <1>3, <1>5, <2>1, <2>2
  <2> QED BY <1>6, <2>3
<1>7. ASSUME u \in {UserNamed(X, n) : n \in N} PROVE NameOf(p) \in N
  <2>1. PICK n \in N : u = UserNamed(X, n)
    BY <1>7
  <2> QED BY <1>4, <1>5, <2>1
<1> QED BY <1>1, <1>6, <1>7

LEMMA NamesOfChannels ==
  ASSUME NEW p \in Messages, NEW N, \A n \in N : ChannelNamed(X, n) # 0
  PROVE  p.ch \in N <=> Position(Archive.channels, p.ch) \in {ChannelNamed(X, n) : n \in N}
<1> DEFINE chs == Archive.channels
<1>1. \A n : /\ ChannelNamed(X, n) = Position(chs, n)
             /\ Position(chs, n) # 0 => chs[Position(chs, n)] = n
  BY RowsOfTheArchive, ArchiveIsSound, PlaceOf DEF ChannelNamed
<1>2. Position(chs, p.ch) # 0
  BY MessagesAreKept DEF Kept
<1> QED BY <1>1, <1>2

\* A name that nothing bears is one the index does not find.
LEMMA UnresolvedNames ==
  ASSUME NEW q, IsQuery(q)
  PROVE  Unresolved(X, q) # {} <=> \E i \in DOMAIN q : NobodyBears(q[i])
<1> DEFINE In == Names(q, "in", FALSE) \cup Names(q, "in", TRUE)
           From == Names(q, "from", FALSE) \cup Names(q, "from", TRUE)
           names == [i \in DOMAIN X.users |-> X.users[i].name]
<1>1. /\ \A n : n \in In <=> \E i \in DOMAIN q : q[i].mod = "in" /\ q[i].value = n
      /\ \A n : n \in From <=> \E i \in DOMAIN q : q[i].mod = "from" /\ q[i].value = n
  <2>1. \A i \in DOMAIN q : q[i].neg \in BOOLEAN
    BY DEF IsQuery
  <2>2. ASSUME NEW mod, NEW n
        PROVE  n \in Names(q, mod, FALSE) \cup Names(q, mod, TRUE)
                 <=> \E i \in DOMAIN q : q[i].mod = mod /\ q[i].value = n
    <3>1. ASSUME NEW i \in DOMAIN q, q[i].mod = mod, q[i].value = n
          PROVE  n \in Names(q, mod, FALSE) \cup Names(q, mod, TRUE)
      <4>1. q[i].neg = FALSE \/ q[i].neg = TRUE
        BY <2>1, Zenon
      <4> QED BY <3>1, <4>1 DEF Names
    <3>2. ASSUME n \in Names(q, mod, FALSE) \cup Names(q, mod, TRUE)
          PROVE  \E i \in DOMAIN q : q[i].mod = mod /\ q[i].value = n
      BY <3>2, Zenon DEF Names
    <3> QED BY <3>1, <3>2
  <2> QED BY <2>2
<1>2. \A n : ChannelNamed(X, n) = 0 <=> \A i \in DOMAIN Archive.channels : Archive.channels[i] # n
  BY RowsOfTheArchive, ArchiveIsSound, PlaceOf DEF ChannelNamed
<1>3. \A n : UserNamed(X, n) = 0 <=> \A u \in DOMAIN Archive.users : Archive.users[u].name # n
  <2>1. DOMAIN names = DOMAIN Archive.users /\ DOMAIN names \in SUBSET (Nat \ {0})
        /\ \A u \in DOMAIN names : names[u] = Archive.users[u].name
    BY ArchiveIsSound
  <2>2. \A n : UserNamed(X, n) = Position(names, n)
    BY DEF UserNamed
  <2> HIDE DEF names
  <2> QED BY <2>1, <2>2, PlaceOf
<1>4. Unresolved(X, q) = {n \in In : ChannelNamed(X, n) = 0} \cup {n \in From : UserNamed(X, n) = 0}
  BY DEF Unresolved
<1> HIDE DEF In, From
<1>5. ASSUME NEW n \in Unresolved(X, q) PROVE \E i \in DOMAIN q : NobodyBears(q[i])
  BY <1>1, <1>2, <1>3, <1>4 DEF NobodyBears
<1>6. ASSUME NEW i \in DOMAIN q, NobodyBears(q[i]) PROVE q[i].value \in Unresolved(X, q)
  BY <1>1, <1>2, <1>3, <1>4, <1>6 DEF NobodyBears
<1> QED BY <1>5, <1>6

\* What is neither included nor excluded leaves nothing to compare.
LEMMA NothingButDates ==
  ASSUME NEW q, IsQuery(q), ~ Positive(q), ~ Negative(q)
  PROVE  \A neg \in BOOLEAN : /\ Words(q, neg) = {} /\ Names(q, "in", neg) = {}
                              /\ Names(q, "from", neg) = {}
<1>1. ASSUME NEW i \in DOMAIN q PROVE q[i].mod \notin {"word", "in", "from"}
  <2>1. q[i].neg = TRUE \/ q[i].neg = FALSE
    BY Zenon DEF IsQuery
  <2> QED BY <2>1 DEF Positive, Negative
<1> QED BY <1>1 DEF Words, Names

\* The rows the search asks for.
Found(q) == {r \in DOMAIN X.posts :
               /\ X.found
               /\ Matches(X, q, r)
               /\ FromMs(q, Offset) # NoBound => r >= RowidAtOrAfter(X, FromMs(q, Offset))
               /\ ToMs(q, Offset) # NoBound => r < RowidAtOrAfter(X, ToMs(q, Offset) + 1)}

\* They are those of the messages wanted.
LEMMA FoundAreWanted ==
  ASSUME NEW q, IsQuery(q), Unresolved(X, q) = {}, Positive(q) \/ ~ Negative(q)
  PROVE  /\ Found(q) \in SUBSET (1 .. Written)
         /\ \A r \in 1 .. Written : r \in Found(q) <=> Wanted(q, MessageOf(Archive, r))
<1>1. DOMAIN X.posts = 1 .. Written /\ X.found
  BY RowsOfTheArchive, ArchiveIsSound
<1>2. ASSUME NEW r \in 1 .. Written PROVE r \in Found(q) <=> Wanted(q, MessageOf(Archive, r))
  <2> DEFINE p == MessageOf(Archive, r)
             from == FromMs(q, Offset)
             to == ToMs(q, Offset)
  <2>1. /\ p \in Messages /\ p.at \in Int
        /\ X.posts[r].at = p.at /\ X.posts[r].words = p.words
        /\ X.posts[r].ch = Position(Archive.channels, p.ch)
        /\ X.posts[r].usr = UserId(Archive, p.by)
    BY RowOfAMessage
  <2> HIDE DEF p
  <2>2. OnItsDays(q, p.at) <=> /\ from # NoBound => r >= RowidAtOrAfter(X, from)
                               /\ to # NoBound => r < RowidAtOrAfter(X, to + 1)
    <3>1. /\ from = NoBound \/ from \in Int
          /\ to = NoBound \/ to \in Int
          /\ OnItsDays(q, p.at) <=> /\ from # NoBound => p.at >= from
                                    /\ to # NoBound => p.at <= to
      BY <2>1, BoundsAreDays
    <3> HIDE DEF from, to
    <3>2. from # NoBound => (r >= RowidAtOrAfter(X, from) <=> p.at >= from)
      BY <2>1, <3>1, RowsFromADate
    <3>3. to # NoBound => (r < RowidAtOrAfter(X, to + 1) <=> p.at <= to)
      BY <2>1, <3>1, RowsUpToADate
    <3> QED BY <3>1, <3>2, <3>3
  <2>3. \A neg \in BOOLEAN :
          /\ p.ch \in Names(q, "in", neg) <=> X.posts[r].ch \in ChannelsIn(X, q, neg)
          /\ NameOf(p) \in Names(q, "from", neg) <=> X.posts[r].usr \in UsersIn(X, q, neg)
    <3> SUFFICES ASSUME NEW neg \in BOOLEAN
                 PROVE  /\ p.ch \in Names(q, "in", neg) <=> X.posts[r].ch \in ChannelsIn(X, q, neg)
                        /\ NameOf(p) \in Names(q, "from", neg)
                             <=> X.posts[r].usr \in UsersIn(X, q, neg)
      OBVIOUS
    <3>1. neg = TRUE \/ neg = FALSE
      BY Zenon
    <3>2. /\ \A n \in Names(q, "in", neg) : ChannelNamed(X, n) # 0
          /\ \A n \in Names(q, "from", neg) : UserNamed(X, n) # 0
      BY <3>1 DEF Unresolved
    <3>3. p.ch \in Names(q, "in", neg) <=>
            Position(Archive.channels, p.ch) \in {ChannelNamed(X, n) : n \in Names(q, "in", neg)}
      BY <2>1, <3>2, NamesOfChannels
    <3>4. NameOf(p) \in Names(q, "from", neg) <=>
            UserId(Archive, p.by) \in {UserNamed(X, n) : n \in Names(q, "from", neg)}
      BY <2>1, <3>2, NamesOfAccounts
    <3> QED BY <2>1, <3>3, <3>4 DEF ChannelsIn, UsersIn
  <2>4. Wanted(q, p) <=>
          /\ Words(q, FALSE) \subseteq p.words /\ Words(q, TRUE) \cap p.words = {}
          /\ Names(q, "in", FALSE) # {} => p.ch \in Names(q, "in", FALSE)
          /\ Names(q, "from", FALSE) # {} => NameOf(p) \in Names(q, "from", FALSE)
          /\ p.ch \notin Names(q, "in", TRUE) /\ NameOf(p) \notin Names(q, "from", TRUE)
          /\ OnItsDays(q, p.at)
    BY DEF Wanted, OnItsDays, DayOf
  <2>5. r \in Found(q) <=> Matches(X, q, r) /\ OnItsDays(q, p.at)
    BY <1>1, <2>2 DEF Found
  <2>6. CASE Positive(q)
    <3>1. Matches(X, q, r) <=>
            /\ Words(q, FALSE) \subseteq p.words
            /\ Names(q, "in", FALSE) # {} => X.posts[r].ch \in ChannelsIn(X, q, FALSE)
            /\ Names(q, "from", FALSE) # {} => X.posts[r].usr \in UsersIn(X, q, FALSE)
            /\ Words(q, TRUE) \cap p.words = {}
            /\ X.posts[r].ch \notin ChannelsIn(X, q, TRUE)
            /\ X.posts[r].usr \notin UsersIn(X, q, TRUE)
      BY <2>1, <2>6 DEF Matches
    <3> QED BY <2>3, <2>4, <2>5, <3>1 DEF p
  <2>7. CASE ~ Positive(q)
    <3>1. Matches(X, q, r)
      BY <2>7 DEF Matches
    <3>2. \A neg \in BOOLEAN : /\ Words(q, neg) = {} /\ Names(q, "in", neg) = {}
                               /\ Names(q, "from", neg) = {}
      BY <2>7, NothingButDates
    <3>3. Wanted(q, p) <=> OnItsDays(q, p.at)
      BY <2>4, <3>2
    <3> QED BY <2>5, <3>1, <3>3 DEF p
  <2> QED BY <2>6, <2>7
<1> QED BY <1>1, <1>2 DEF Found

\* What the screen shows of a search, and what it had to.
Settles(q, outcome) ==
  /\ outcome # None
  /\ (outcome.status = "introuvable") = \E i \in DOMAIN q : NobodyBears(q[i])
  /\ LET matching == {p \in Messages : Wanted(q, p)}
         shown == {p \in Messages : p.pid \in Pids(outcome.ids)}
     IN  CASE outcome.status = "ok" ->
                /\ shown \subseteq matching
                /\ Cardinality(shown) = Lower(Limit, Cardinality(matching))
                /\ \A p \in shown, m \in matching \ shown : Before(m, p)
                /\ (outcome.next = Null) = (shown = matching)
           [] OTHER -> shown = {}

LEMMA SearchSettles ==
  ASSUME NEW q, IsQuery(q)
  PROVE  Settles(q, Search(X, q, Offset, Limit))
<1> DEFINE out == Search(X, q, Offset, Limit)
           found == Paginate(Newest(Found(q), Limit + 1), Limit)
           nothing(status) == [status |-> status, ids |-> {}, next |-> Null]
           matching == {p \in Messages : Wanted(q, p)}
           shown(ids) == {p \in Messages : p.pid \in Pids(ids)}
<1>1. Unresolved(X, q) # {} <=> \E i \in DOMAIN q : NobodyBears(q[i])
  BY UnresolvedNames
<1>2. \/ Unresolved(X, q) # {} /\ out = nothing("introuvable")
      \/ /\ Unresolved(X, q) = {}
         /\ \/ out = nothing("sans-terme-positif") \/ out = nothing("vide")
            \/ /\ Positive(q) \/ ~ Negative(q)
               /\ out = [status |-> "ok", ids |-> found.ids, next |-> found.next]
  BY Zenon DEF Search, Found
<1>3. shown({}) = {}
  BY DEF Pids
<1>4. ASSUME NEW status, out = nothing(status), status # "ok",
             status = "introuvable" <=> Unresolved(X, q) # {}
      PROVE  Settles(q, out)
  <2>1. out # None /\ out.status = status /\ out.ids = {}
    <3>1. "status" \in DOMAIN nothing(status) /\ "status" \notin DOMAIN None
      BY DEF None
    <3> QED BY <1>4, <3>1
  <2> HIDE DEF out
  <2> QED BY <1>1, <1>3, <1>4, <2>1 DEF Settles
<1>5. ASSUME Unresolved(X, q) = {}, Positive(q) \/ ~ Negative(q),
             out = [status |-> "ok", ids |-> found.ids, next |-> found.next]
      PROVE  Settles(q, out)
  <2>1. /\ Found(q) \in SUBSET (1 .. Written) /\ Written \in Nat
        /\ \A r \in 1 .. Written : r \in Found(q) <=> Wanted(q, MessageOf(Archive, r))
    BY <1>5, FoundAreWanted, RowsOfTheArchive
  <2>2. /\ UpClosed(found.ids, Found(q))
        /\ Cardinality(found.ids) = Lower(Limit, Cardinality(Found(q)))
        /\ (found.next = Null) = (found.ids = Found(q))
    BY <2>1, PageIsCounted, ReadingAssumption
  <2>3. out # None /\ out.status = "ok" /\ out.ids = found.ids /\ out.next = found.next
    <3>1. "status" \in DOMAIN out /\ "status" \notin DOMAIN None
      BY <1>5 DEF None
    <3> QED BY <1>5, <3>1
  <2> HIDE DEF out, found
  <2> DEFINE S == shown(found.ids)
             M == matching
  <2>4. /\ found.ids \in SUBSET Found(q) /\ found.ids \in SUBSET (1 .. Written)
        /\ \A r \in found.ids : \A s \in Found(q) : s > r => s \in found.ids
    BY <2>1, <2>2 DEF UpClosed
  <2>5. \A p \in Messages : RowId(Archive, p) \in 1 .. Written
                            /\ MessageOf(Archive, RowId(Archive, p)) = p
    BY RowOfAMessage
  <2>6. /\ Cardinality(S) = Cardinality(found.ids)
        /\ \A p \in Messages : p \in S <=> RowId(Archive, p) \in found.ids
    BY <2>4, RowsAsMessages
  <2>7. M = shown(Found(q))
    <3>1. \A p \in Messages : p \in shown(Found(q)) <=> RowId(Archive, p) \in Found(q)
      BY <2>1, RowsAsMessages
    <3>2. \A p \in Messages : p \in M <=> RowId(Archive, p) \in Found(q)
      BY <2>1, <2>5
    <3>3. M \in SUBSET Messages /\ shown(Found(q)) \in SUBSET Messages
      OBVIOUS
    <3> HIDE DEF M, shown
    <3> QED BY <3>1, <3>2, <3>3
  <2>8. /\ Cardinality(M) = Cardinality(Found(q))
        /\ \A p \in Messages : p \in M <=> RowId(Archive, p) \in Found(q)
    BY <2>1, <2>7, RowsAsMessages
  <2>9. S \in SUBSET Messages /\ M \in SUBSET Messages
    OBVIOUS
  <2>10. Settles(q, out) <=>
           /\ S \subseteq M /\ Cardinality(S) = Lower(Limit, Cardinality(M))
           /\ \A p \in S, m \in M \ S : Before(m, p)
           /\ (out.next = Null) = (S = M)
    BY <1>1, <1>5, <2>3 DEF Settles
  <2> HIDE DEF S, M
  <2>11. S \subseteq M
    BY <2>4, <2>6, <2>8, <2>9
  <2>12. ASSUME NEW p \in S, NEW m \in M \ S PROVE Before(m, p)
    <3>1. /\ p \in Kept(Archive) /\ m \in Kept(Archive) /\ p # m
          /\ RowId(Archive, p) \in found.ids /\ RowId(Archive, m) \in Found(q)
          /\ RowId(Archive, m) \notin found.ids
          /\ RowId(Archive, p) \in Int /\ RowId(Archive, m) \in Int
      BY <2>5, <2>6, <2>8, <2>9, <2>12, MessagesAreKept
    <3>2. ~ (RowId(Archive, m) > RowId(Archive, p))
      BY <2>4, <3>1
    <3>3. ~ Before(p, m)
      BY <3>1, <3>2, LaterIsGreater, ReadingAssumption
    <3> QED BY <3>1, <3>3, BeforeIsOrder, ReadingAssumption
  <2>13. (S = M) <=> (found.ids = Found(q))
    <3>1. ASSUME S = M, NEW r \in Found(q) PROVE r \in found.ids
      <4>1. MessageOf(Archive, r) \in Messages /\ RowId(Archive, MessageOf(Archive, r)) = r
        BY <2>1, RowOfAMessage
      <4> QED BY <2>6, <2>8, <3>1, <4>1
    <3>2. ASSUME found.ids = Found(q) PROVE S = M
      BY <2>6, <2>8, <2>9, <3>2
    <3> QED BY <2>4, <3>1, <3>2
  <2> QED BY <2>2, <2>3, <2>6, <2>8, <2>10, <2>11, <2>12, <2>13
<1> HIDE DEF out, found
<1>6. CASE Unresolved(X, q) # {} /\ out = nothing("introuvable")
  BY <1>4, <1>6 DEF out
<1>7. CASE /\ Unresolved(X, q) = {}
           /\ out = nothing("sans-terme-positif") \/ out = nothing("vide")
  BY <1>4, <1>7 DEF out
<1> QED BY <1>2, <1>5, <1>6, <1>7 DEF out

(*-------------------- what is shown is what is asked ---------------------*)
\* The rows of a thread are the message it was opened on and its replies.
LEMMA ThreadShown ==
  ASSUME NEW root, root # 0, Replies(X, root) # {}
  PROVE  Pids(Thread(X, root)) =
           {p.pid : p \in {q \in Messages : X.posts[root].pid \in {q.pid, q.root}}}
<1> DEFINE mine == X.posts[root].pid
           shown == {q \in Messages : mine \in {q.pid, q.root}}
<1>0. /\ WellFormed(Archive) /\ DOMAIN X.posts = 1 .. Written /\ Messages = Kept(Archive)
      /\ Written \in Nat
  BY RowsOfTheArchive, ArchiveIsSound, MessagesAreKept
<1>1. ASSUME NEW p \in Messages
      PROVE  /\ RowId(Archive, p) \in 1 .. Written
             /\ MessageOf(Archive, RowId(Archive, p)) = p
             /\ RowOf(Archive, p.pid) = RowId(Archive, p)
             /\ p.pid \in Nat \ {0}
  <2>1. p \in Kept(Archive) /\ p \in Archive.posts
    BY <1>0 DEF Kept
  <2>2. p.pid \in Nat \ {0}
    BY <1>0, <2>1 DEF WellFormed
  <2>3. RowOf(Archive, p.pid) = RowId(Archive, p)
    BY <1>0, <2>1, RowOfAnIdentifier
  <2> QED BY <2>2, <2>3, RowOfAMessage
<1>2. ASSUME NEW pid
      PROVE  RowOf(Archive, pid) # 0 => \E p \in Messages : p.pid = pid
  <2>1. RowOf(Archive, pid) # 0 => \E p \in Kept(Archive) : p.pid = pid
    BY Zenon DEF RowOf
  <2> QED BY <1>0, <2>1
<1>3. \A r \in 1 .. Written :
        LET p == MessageOf(Archive, r) IN
        /\ p \in Messages /\ RowId(Archive, p) = r /\ X.posts[r].pid = p.pid
        /\ X.posts[r].root = IF p.root # 0 THEN RowOf(Archive, p.root) ELSE 0
  BY RowOfAMessage
<1>4. root \in 1 .. Written
  <2>1. PICK r \in DOMAIN X.posts : X.posts[r].root = root
    BY DEF Replies
  <2>2. RowOf(Archive, MessageOf(Archive, r).root) = root
    BY <1>0, <1>3, <2>1
  <2>3. PICK p \in Messages : p.pid = MessageOf(Archive, r).root
    BY <1>2, <2>2
  <2> QED BY <1>1, <2>2, <2>3
<1> DEFINE top == MessageOf(Archive, root)
<1>5. top \in Messages /\ RowId(Archive, top) = root /\ mine = top.pid
  BY <1>3, <1>4
<1> HIDE DEF top, mine
<1>6. ASSUME NEW p \in Messages
      PROVE  X.posts[RowId(Archive, p)].root = root <=> p.root = mine
  <2>1. X.posts[RowId(Archive, p)].root = IF p.root # 0 THEN RowOf(Archive, p.root) ELSE 0
    BY <1>1, <1>3
  <2>2. ASSUME p.root = mine PROVE X.posts[RowId(Archive, p)].root = root
    BY <1>1, <1>5, <2>1, <2>2
  <2>3. ASSUME X.posts[RowId(Archive, p)].root = root PROVE p.root = mine
    <3>1. RowOf(Archive, p.root) = root
      BY <2>1, <2>3
    <3>2. PICK q \in Messages : q.pid = p.root
      BY <1>2, <3>1
    <3>3. RowId(Archive, q) = root
      BY <1>1, <3>1, <3>2
    <3>4. q = top
      BY <1>1, <1>5, <3>3
    <3> QED BY <1>5, <3>2, <3>4
  <2> QED BY <2>2, <2>3
<1>7. ASSUME NEW p \in Messages
      PROVE  RowId(Archive, p) \in Thread(X, root) <=> p \in shown
  <2>1. RowId(Archive, p) = root <=> p.pid = mine
    <3>1. RowId(Archive, p) = root => p = top
      BY <1>1, <1>5
    <3>2. p.pid = mine => RowId(Archive, p) = RowId(Archive, top)
      BY <1>1, <1>5
    <3> QED BY <1>5, <3>1, <3>2
  <2>2. RowId(Archive, p) \in DOMAIN X.posts
    BY <1>0, <1>1
  <2>3. RowId(Archive, p) \in Thread(X, root)
          <=> RowId(Archive, p) = root \/ X.posts[RowId(Archive, p)].root = root
    BY <2>2 DEF Thread, Replies
  <2> QED BY <1>6, <2>1, <2>3
<1>8. Thread(X, root) \in SUBSET (1 .. Written)
  BY <1>0 DEF Thread, Replies
<1>9. ASSUME NEW r \in Thread(X, root)
      PROVE  \E p \in shown : X.posts[r].pid = p.pid
  <2>1. r \in 1 .. Written
    BY <1>8
  <2>2. /\ MessageOf(Archive, r) \in Messages /\ RowId(Archive, MessageOf(Archive, r)) = r
        /\ X.posts[r].pid = MessageOf(Archive, r).pid
    BY <1>3, <2>1
  <2>3. MessageOf(Archive, r) \in shown
    BY <1>7, <2>2
  <2> QED BY <2>2, <2>3
<1>10. ASSUME NEW p \in shown
       PROVE  \E r \in Thread(X, root) : X.posts[r].pid = p.pid
  <2>1. p \in Messages
    OBVIOUS
  <2>2. RowId(Archive, p) \in Thread(X, root)
    BY <1>7, <2>1
  <2>3. X.posts[RowId(Archive, p)].pid = p.pid
    BY <1>1, <1>3, <2>1
  <2> QED BY <2>2, <2>3
<1> HIDE DEF shown
<1>11. Pids(Thread(X, root)) = {p.pid : p \in shown}
  BY <1>9, <1>10 DEF Pids
<1> QED BY <1>11 DEF shown, mine

\* Numbers of pages are those of rows: they start at one.
LEMMA PagesAreNumbered ==
  ASSUME NEW ch, NEW before
  PROVE  0 \notin ChannelPage(X, ch, before, Limit).ids
<1> DEFINE S == {r \in OfChannel(X, ch) : before = 0 \/ r < before}
           W == Newest(S, Limit + 1)
<1>1. ChannelPage(X, ch, before, Limit) = Paginate(W, Limit)
  BY DEF ChannelPage
<1>2. 0 \notin OfChannel(X, ch)
  BY RowsOfTheArchive DEF There
<1>3. 0 \notin W
  BY <1>2 DEF Newest
<1> HIDE DEF W
<1>4. 0 \notin Paginate(W, Limit).ids
  BY <1>3 DEF Paginate, Newest
<1> QED BY <1>1, <1>4

LEMMA ContextsAreNumbered ==
  ASSUME NEW id, id # 0
  PROVE  id \in Context(X, id, Around) /\ 0 \notin Context(X, id, Around)
<1>1. \A ch : 0 \notin OfChannel(X, ch)
  BY RowsOfTheArchive DEF There
<1> QED BY <1>1 DEF Context, Newest, Oldest

\* The calls awaited once the reader moved on.
LEMMA MovedCalls ==
  ASSUME ReadingInv, NEW r, NEW cs \in SUBSET calls, MoveTo(r, cs)
  PROVE  \A c \in calls' : c.live =>
           \/ /\ c \in calls /\ c.ask.kind \notin {"canal", "suite", "recherche", "permalien"}
              /\ r.view # route.view => c.ask.kind # "fil"
           \/ c.ask \in Questions(r)
<1> DEFINE kinds == {"canal", "suite", "recherche", "permalien"}
                      \cup (IF r.view = route.view THEN {} ELSE {"fil"})
<1>1. calls' = Asked(cs, kinds, Questions(r))
  BY DEF MoveTo
<1>2. \A c \in cs : CallForm(c)
  BY DEF ReadingInv
<1>3. /\ {"canal", "suite", "recherche", "permalien"} \subseteq kinds
      /\ r.view # route.view => "fil" \in kinds
  OBVIOUS
<1> HIDE DEF kinds
<1>4. PICK n : \A c \in Asked(cs, kinds, Questions(r)) :
        /\ CallForm(c)
        /\ c.live => \/ c \in cs /\ c.ask.kind \notin kinds
                     \/ \E a \in Questions(r) : c = [n |-> n, ask |-> a, live |-> TRUE]
  BY <1>2, AskedCalls
<1>5. ASSUME NEW c \in calls', c.live
      PROVE  \/ c \in calls /\ c.ask.kind \notin kinds
             \/ c.ask \in Questions(r)
  <2>1. CASE c \in cs /\ c.ask.kind \notin kinds
    BY <2>1
  <2>2. CASE \E a \in Questions(r) : c = [n |-> n, ask |-> a, live |-> TRUE]
    BY <2>2
  <2> QED BY <1>1, <1>4, <1>5, <2>1, <2>2
<1> QED BY <1>3, <1>5

\* What the steps that ask or read add to the calls awaited.
LEMMA OtherCalls ==
  ASSUME ReadingInv
  PROVE  /\ Scroll => \A c \in calls' : c.live => c \in calls \/ c.ask.kind = "suite"
         /\ OpenThread => \A c \in calls' : c.live =>
              \/ c \in calls /\ c.ask.kind # "fil"
              \/ \E r \in list.ids : /\ c.ask = [kind |-> "fil", root |-> r]
                                     /\ panel' = [root |-> r, bundle |-> Loading]
         /\ CloseThread => \A c \in calls' : c.live => c \in calls /\ c.ask.kind # "fil"
         /\ MissingPermalink \/ Opened \/ Older \/ Searched \/ ThreadRead \/ Fail \/ Render
              => calls' \in SUBSET calls
<1>0. \A c \in calls : CallForm(c)
  BY DEF ReadingInv
<1>1. ASSUME Scroll, NEW c \in calls', c.live PROVE c \in calls \/ c.ask.kind = "suite"
  <2> DEFINE a == [kind |-> "suite", ch |-> route.ch, before |-> list.seen.next]
  <2>1. calls' = Asked(calls, {}, {a}) /\ a.kind = "suite"
    BY <1>1 DEF Scroll
  <2> HIDE DEF a
  <2>2. PICK n : \A d \in Asked(calls, {}, {a}) :
          /\ CallForm(d)
          /\ d.live => \/ d \in calls /\ d.ask.kind \notin {}
                       \/ \E b \in {a} : d = [n |-> n, ask |-> b, live |-> TRUE]
    BY <1>0, AskedCalls
  <2> QED BY <1>1, <2>1, <2>2
<1>2. ASSUME OpenThread, NEW c \in calls', c.live
      PROVE  \/ c \in calls /\ c.ask.kind # "fil"
             \/ \E r \in list.ids : /\ c.ask = [kind |-> "fil", root |-> r]
                                    /\ panel' = [root |-> r, bundle |-> Loading]
  <2>1. PICK r \in list.ids :
          /\ calls' = Asked(calls, {"fil"}, {[kind |-> "fil", root |-> r]})
          /\ panel' = [root |-> r, bundle |-> Loading]
    BY <1>2 DEF OpenThread
  <2> DEFINE a == [kind |-> "fil", root |-> r]
  <2>2. PICK n : \A d \in Asked(calls, {"fil"}, {a}) :
          /\ CallForm(d)
          /\ d.live => \/ d \in calls /\ d.ask.kind \notin {"fil"}
                       \/ \E b \in {a} : d = [n |-> n, ask |-> b, live |-> TRUE]
    <3> HIDE DEF a
    <3> QED BY <1>0, AskedCalls
  <2>3. CASE c \in calls /\ c.ask.kind \notin {"fil"}
    BY <2>3
  <2>4. CASE c = [n |-> n, ask |-> a, live |-> TRUE]
    BY <2>1, <2>4
  <2> HIDE DEF a
  <2>5. (c \in calls /\ c.ask.kind \notin {"fil"}) \/ c = [n |-> n, ask |-> a, live |-> TRUE]
    BY <1>2, <2>1, <2>2 DEF a
  <2> QED BY <2>3, <2>4, <2>5
<1>3. ASSUME CloseThread, NEW c \in calls', c.live PROVE c \in calls /\ c.ask.kind # "fil"
  <2>1. calls' = Asked(calls, {"fil"}, {})
    BY <1>3 DEF CloseThread
  <2>2. PICK n : \A d \in Asked(calls, {"fil"}, {}) :
          /\ CallForm(d)
          /\ d.live => \/ d \in calls /\ d.ask.kind \notin {"fil"}
                       \/ \E b \in {} : d = [n |-> n, ask |-> b, live |-> TRUE]
    BY <1>0, AskedCalls
  <2> QED BY <1>3, <2>1, <2>2
<1>4. ASSUME MissingPermalink \/ Opened \/ Older \/ Searched \/ ThreadRead \/ Fail \/ Render
      PROVE  calls' \in SUBSET calls
  BY <1>4 DEF MissingPermalink, Opened, Older, Searched, ThreadRead, Fail, Render
<1> QED BY <1>1, <1>2, <1>3, <1>4

\* The search shown awaits its answer, was told it failed, or has the answer to
\* what the address asks; the answers awaited are to that too.
SearchInv ==
  /\ InSearch(route) => route.query \in Queries
  /\ search = [outcome |-> search.outcome, busy |-> search.busy, broken |-> search.broken]
  /\ \A c \in LiveCalls("recherche") : InSearch(route) /\ c.ask.query = route.query
  /\ InSearch(route) /\ route.query # <<>> =>
       search.busy \/ search.broken \/ search.outcome = Search(X, route.query, Offset, Limit)

\* A step that leaves the address and the search alone.
LEMMA SearchUntouched ==
  ASSUME SearchInv, UNCHANGED <<route, search>>,
         \A c \in calls' : c.live /\ c.ask.kind = "recherche" => c \in calls
  PROVE  SearchInv'
<1>1. LiveCalls("recherche")' \in SUBSET LiveCalls("recherche")
  BY DEF LiveCalls
<1> QED BY <1>1 DEF SearchInv

\* Another search, or none.
LEMMA SearchingAnew ==
  ASSUME ReadingInv, SearchInv, NEW r, NEW cs \in SUBSET calls, MoveTo(r, cs),
         InSearch(r) => r.query \in Queries
  PROVE  SearchInv'
<1>1. route' = r /\ search' = Searching(r)
  BY DEF MoveTo
<1>2. \A c \in calls' : c.live =>
        c.ask.kind # "recherche" \/ c.ask \in Questions(r)
  BY MovedCalls
<1>3. ASSUME NEW a \in Questions(r), a.kind = "recherche"
      PROVE  InSearch(r) /\ a.query = r.query
  <2>1. CASE InChannel(r)
    BY <1>3, <2>1 DEF Questions
  <2>2. CASE InSearch(r) /\ r.query # <<>>
    BY <2>2 DEF Questions, InChannel, InSearch
  <2>3. CASE ~ InChannel(r) /\ ~ (InSearch(r) /\ r.query # <<>>)
    BY <1>3, <2>3 DEF Questions, InSearch
  <2> QED BY <2>1, <2>2, <2>3
<1>4. \A c \in LiveCalls("recherche")' : InSearch(r) /\ c.ask.query = r.query
  BY <1>2, <1>3 DEF LiveCalls
<1> DEFINE s == IF InSearch(route) THEN search ELSE Fresh
<1>5. s = [outcome |-> s.outcome, busy |-> s.busy, broken |-> s.broken]
  BY DEF SearchInv, Fresh
<1> HIDE DEF s
<1>6. /\ Searching(r) = [outcome |-> Searching(r).outcome, busy |-> Searching(r).busy,
                         broken |-> Searching(r).broken]
      /\ InSearch(r) /\ r.query # <<>> => Searching(r).busy = TRUE
  <2>1. CASE ~ InSearch(r)
    BY <2>1 DEF Searching, Fresh
  <2>2. CASE InSearch(r) /\ r.query = <<>>
    <3>1. Searching(r) = [s EXCEPT !.outcome = None]
      BY <2>2 DEF Searching, s
    <3>2. Searching(r) = [outcome |-> None, busy |-> s.busy, broken |-> s.broken]
      BY <1>5, <3>1
    <3> QED BY <2>2, <3>2
  <2>3. CASE InSearch(r) /\ r.query # <<>>
    <3>1. Searching(r) = [s EXCEPT !.busy = TRUE, !.broken = FALSE]
      BY <2>3 DEF Searching, s
    <3>2. Searching(r) = [outcome |-> s.outcome, busy |-> TRUE, broken |-> FALSE]
      BY <1>5, <3>1
    <3> QED BY <3>2
  <2> QED BY <2>1, <2>2, <2>3
<1>7. /\ search' = [outcome |-> search'.outcome, busy |-> search'.busy, broken |-> search'.broken]
      /\ InSearch(r) /\ r.query # <<>> => search'.busy
  BY <1>1, <1>6
<1> QED BY <1>1, <1>4, <1>7 DEF SearchInv

LEMMA AnswerIsRead ==
  ASSUME SearchInv, Searched
  PROVE  SearchInv'
<1>1. PICK c \in calls :
        /\ c.ask.kind = "recherche" /\ calls' = calls \ {c} /\ UNCHANGED route
        /\ search' = IF c.live THEN [search EXCEPT !.outcome = Answer(c.ask), !.busy = FALSE]
                     ELSE search
  BY DEF Searched
<1>2. CASE ~ c.live
  BY <1>1, <1>2, SearchUntouched
<1>3. CASE c.live
  <2>1. InSearch(route) /\ c.ask.query = route.query
    BY <1>1, <1>3 DEF SearchInv, LiveCalls
  <2>2. Answer(c.ask) = Search(X, route.query, Offset, Limit)
    BY <1>1, <2>1 DEF Answer, ServerAnswer, WorkerAnswer, Pages
  <2>3. search' = [outcome |-> Answer(c.ask), busy |-> FALSE, broken |-> search.broken]
    <3>1. search = [outcome |-> search.outcome, busy |-> search.busy, broken |-> search.broken]
      BY DEF SearchInv
    <3>2. search' = [search EXCEPT !.outcome = Answer(c.ask), !.busy = FALSE]
      BY <1>1, <1>3
    <3> QED BY ONLY <3>1, <3>2
  <2>4. LiveCalls("recherche")' \in SUBSET LiveCalls("recherche")
    BY <1>1 DEF LiveCalls
  <2>5. search'.outcome = Search(X, route.query, Offset, Limit)
    BY <2>2, <2>3
  <2>6. search' = [outcome |-> search'.outcome, busy |-> search'.busy, broken |-> search'.broken]
    BY ONLY <2>3
  <2> QED BY <1>1, <2>4, <2>5, <2>6 DEF SearchInv
<1> QED BY <1>2, <1>3

LEMMA SearchFails ==
  ASSUME SearchInv, Fail
  PROVE  SearchInv'
<1>1. PICK c \in calls :
        /\ calls' = calls \ {c} /\ UNCHANGED route
        /\ search' = IF c.live /\ c.ask.kind = "recherche"
                     THEN [search EXCEPT !.broken = TRUE, !.busy = FALSE] ELSE search
  BY DEF Fail
<1>2. CASE ~ (c.live /\ c.ask.kind = "recherche")
  BY <1>1, <1>2, SearchUntouched
<1>3. CASE c.live /\ c.ask.kind = "recherche"
  <2>1. search = [outcome |-> search.outcome, busy |-> search.busy, broken |-> search.broken]
    BY DEF SearchInv
  <2>2. search' = [search EXCEPT !.broken = TRUE, !.busy = FALSE]
    BY <1>1, <1>3
  <2>3. search' = [outcome |-> search.outcome, busy |-> FALSE, broken |-> TRUE]
    BY ONLY <2>1, <2>2
  <2>4. LiveCalls("recherche")' \in SUBSET LiveCalls("recherche")
    BY <1>1 DEF LiveCalls
  <2> QED BY <1>1, <2>3, <2>4 DEF SearchInv
<1> QED BY <1>2, <1>3

LEMMA SearchStep ==
  ASSUME ReadingInv, SearchInv, [ReadingNext]_readingVars
  PROVE  SearchInv'
<1>1. CASE Navigate
  <2>1. PICK r \in Routes : MoveTo(r, calls)
    BY <1>1 DEF Navigate
  <2>2. ASSUME InSearch(r) PROVE r.query \in Queries
    <3>1. r.view = "recherche"
      BY <2>2 DEF InSearch
    <3>2. \/ r = NoRoute
          \/ \E ch \in DOMAIN X.channels : r = [view |-> "canal", ch |-> ch, focus |-> 0]
          \/ \E ch \in DOMAIN X.channels, m \in DOMAIN X.posts :
               r = [view |-> "canal", ch |-> ch, focus |-> m]
          \/ r \in [view : {"recherche"}, query : Queries]
          \/ r \in [view : {"permalien"}, pid : {p.pid : p \in Archive.posts}]
      BY DEF Routes
    <3>3. r \in [view : {"recherche"}, query : Queries]
      BY <3>1, <3>2 DEF NoRoute
    <3> QED BY <3>3
  <2> QED BY <2>1, <2>2, SearchingAnew
<1>2. CASE FollowPermalink
  <2>1. PICK c \in calls, m \in DOMAIN X.posts :
          MoveTo([view |-> "canal", ch |-> X.posts[m].ch, focus |-> m], calls \ {c})
    BY <1>2 DEF FollowPermalink
  <2> DEFINE r == [view |-> "canal", ch |-> X.posts[m].ch, focus |-> m]
  <2>2. ~ InSearch(r)
    BY DEF InSearch
  <2>3. MoveTo(r, calls \ {c}) /\ calls \ {c} \in SUBSET calls
    BY <2>1
  <2> HIDE DEF r
  <2> QED BY <2>2, <2>3, SearchingAnew
<1>3. CASE Scroll \/ OpenThread \/ CloseThread
  <2>1. UNCHANGED <<route, search>>
    BY <1>3 DEF Scroll, OpenThread, CloseThread
  <2>2. ASSUME NEW c \in calls', c.live, c.ask.kind = "recherche"
        PROVE  c \in calls
    <3>1. CASE Scroll \/ CloseThread
      BY <2>2, <3>1, OtherCalls
    <3>2. CASE OpenThread
      <4>1. \A r : [kind |-> "fil", root |-> r].kind = "fil"
        OBVIOUS
      <4> QED BY <2>2, <3>2, <4>1, OtherCalls
    <3> QED BY <1>3, <3>1, <3>2
  <2> QED BY <2>1, <2>2, SearchUntouched
<1>4. CASE MissingPermalink \/ Opened \/ Older \/ ThreadRead \/ Render
  <2>1. UNCHANGED <<route, search>>
    <3>1. CASE MissingPermalink \/ Opened
      BY <3>1 DEF MissingPermalink, Opened
    <3>2. CASE Older
      BY <3>2, Zenon DEF Older
    <3>3. CASE ThreadRead \/ Render
      BY <3>3 DEF ThreadRead, Render
    <3> QED BY <1>4, <3>1, <3>2, <3>3
  <2>2. calls' \in SUBSET calls
    BY <1>4, OtherCalls
  <2> QED BY <2>1, <2>2, SearchUntouched
<1>5. CASE UNCHANGED readingVars
  BY <1>5, SearchUntouched DEF readingVars
<1> QED BY <1>1, <1>2, <1>3, <1>4, <1>5, AnswerIsRead, SearchFails DEF ReadingNext

\* What a channel opened on a message shows holds that message.
FocusInv ==
  ListForm(list) => /\ 0 \notin list.ids
                    /\ route.focus # 0 => route.focus \in list.ids

\* Only pages are added to a list once it is there.
LEMMA FocusStep ==
  ASSUME ReadingInv, FocusInv, [ReadingNext]_readingVars
  PROVE  FocusInv'
<1>0. ASSUME UNCHANGED <<route, list>> PROVE FocusInv'
  BY <1>0 DEF FocusInv
<1>1. CASE Navigate \/ FollowPermalink
  <2>1. list' \in {Loading, Broken}
    BY <1>1 DEF Navigate, FollowPermalink, MoveTo
  <2>2. ~ ListForm(list')
    BY <2>1, ListFormIsLoaded
  <2> QED BY <2>2 DEF FocusInv
<1>2. CASE MissingPermalink \/ Searched \/ OpenThread \/ CloseThread \/ ThreadRead
  <2>1. UNCHANGED <<route, list>>
    BY <1>2 DEF MissingPermalink, Searched, OpenThread, CloseThread, ThreadRead
  <2> QED BY <1>0, <2>1
<1>3. CASE Opened
  <2>1. PICK c \in calls :
          /\ c.ask.kind = "canal" /\ UNCHANGED route
          /\ list' = IF c.live
                     THEN LET page == Answer(c.ask)
                          IN  [ids |-> page.ids, next |-> page.next, loading |-> FALSE,
                               failed |-> FALSE,
                               seen |-> [next |-> page.next, loading |-> FALSE]]
                     ELSE list
    BY <1>3 DEF Opened
  <2>2. CASE ~ c.live
    BY <1>0, <2>1, <2>2
  <2>3. CASE c.live
    <3>1. c.ask.focus = route.focus
      BY <2>1, <2>3 DEF ReadingInv, LiveCalls
    <3>2. list'.ids = Answer(c.ask).ids
      BY <2>1, <2>3
    <3>3. CASE c.ask.focus = 0
      <4>1. Answer(c.ask) = ChannelPage(X, c.ask.ch, 0, Limit)
        BY <2>1, <3>3 DEF Answer, ServerAnswer, WorkerAnswer, Pages
      <4>2. 0 \notin list'.ids
        BY <3>2, <4>1, PagesAreNumbered
      <4> QED BY <2>1, <3>1, <3>3, <4>2 DEF FocusInv
    <3>4. CASE c.ask.focus # 0
      <4>1. Answer(c.ask).ids = Context(X, c.ask.focus, Around)
        BY <2>1, <3>4 DEF Answer, ServerAnswer, WorkerAnswer, Pages
      <4>2. 0 \notin list'.ids /\ c.ask.focus \in list'.ids
        BY <3>2, <3>4, <4>1, ContextsAreNumbered
      <4> QED BY <2>1, <3>1, <4>2 DEF FocusInv
    <3> QED BY <3>3, <3>4
  <2> QED BY <2>2, <2>3
<1>4. CASE Older
  <2>1. PICK c \in calls :
          /\ c.ask.kind = "suite" /\ UNCHANGED route
          /\ list' = IF c.live
                     THEN LET page == Answer(c.ask)
                          IN  [list EXCEPT !.ids = @ \cup page.ids, !.next = page.next,
                                           !.loading = FALSE]
                     ELSE list
    BY <1>4, Zenon DEF Older
  <2>2. CASE ~ c.live
    BY <1>0, <2>1, <2>2
  <2>3. CASE c.live
    <3> DEFINE page == Answer(c.ask)
    <3>1. ListForm(list)
      BY <2>1, <2>3 DEF ReadingInv, LiveCalls
    <3>2. 0 \notin page.ids
      BY <2>1, PagesAreNumbered DEF Answer, ServerAnswer, WorkerAnswer, Pages
    <3>3. list' = [list EXCEPT !.ids = @ \cup page.ids, !.next = page.next, !.loading = FALSE]
      BY <2>1, <2>3, Zenon
    <3> HIDE DEF page
    <3>4. list'.ids = list.ids \cup page.ids
      BY ONLY <3>1, <3>3 DEF ListForm
    <3> QED BY <2>1, <3>1, <3>2, <3>4 DEF FocusInv
  <2> QED BY <2>2, <2>3
<1>5. CASE Scroll \/ Render
  <2>1. ListForm(list)
    BY <1>5 DEF Scroll, Render, Shown, ReadingInv
  <2>2. \/ list' = [list EXCEPT !.loading = TRUE, !.failed = FALSE]
        \/ list' = [list EXCEPT !.seen = [next |-> list.next, loading |-> list.loading]]
    BY <1>5 DEF Scroll, Render
  <2>3. list'.ids = list.ids
    BY ONLY <2>1, <2>2 DEF ListForm
  <2>4. UNCHANGED route
    BY <1>5 DEF Scroll, Render
  <2> QED BY <2>1, <2>3, <2>4 DEF FocusInv
<1>6. CASE Fail
  <2>1. PICK c \in calls :
          /\ UNCHANGED route
          /\ list' = CASE c.live /\ c.ask.kind = "canal" -> Broken
                       [] c.live /\ c.ask.kind = "suite" ->
                            [list EXCEPT !.failed = TRUE, !.loading = FALSE]
                       [] OTHER -> list
    BY <1>6 DEF Fail
  <2>2. CASE list' = list
    BY <1>0, <2>1, <2>2
  <2>3. CASE list' = Broken
    BY <2>3, ListFormIsLoaded DEF FocusInv
  <2>4. CASE c.live /\ c.ask.kind = "suite"
    <3>1. ListForm(list)
      BY <2>4 DEF ReadingInv, LiveCalls
    <3>2. list' = [list EXCEPT !.failed = TRUE, !.loading = FALSE]
      BY <2>1, <2>4
    <3>3. list'.ids = list.ids
      BY ONLY <3>1, <3>2 DEF ListForm
    <3> QED BY <2>1, <3>1, <3>3 DEF FocusInv
  <2> QED BY <2>1, <2>2, <2>3, <2>4
<1>7. CASE UNCHANGED readingVars
  BY <1>0, <1>7 DEF readingVars
<1> QED BY <1>1, <1>2, <1>3, <1>4, <1>5, <1>6, <1>7 DEF ReadingNext

\* The panel is closed, or opened on a message that has replies, and what it
\* has is the thread of that message; so is what is awaited of it.
ThreadInv ==
  /\ \/ panel = Closed
     \/ /\ panel = [root |-> panel.root, bundle |-> panel.bundle]
        /\ panel.root # 0 /\ Replies(X, panel.root) # {}
        /\ panel.bundle \in {Loading, Broken, [ids |-> Thread(X, panel.root), next |-> Null]}
  /\ \A c \in LiveCalls("fil") : panel # Closed /\ c.ask.root = panel.root

\* A step that leaves the panel alone.
LEMMA PanelUntouched ==
  ASSUME ThreadInv, UNCHANGED panel,
         \A c \in calls' : c.live /\ c.ask.kind = "fil" => c \in calls
  PROVE  ThreadInv'
<1>1. LiveCalls("fil")' \in SUBSET LiveCalls("fil")
  BY DEF LiveCalls
<1> QED BY <1>1 DEF ThreadInv

\* Another bundle for the same panel.
LEMMA PanelFilled ==
  ASSUME ThreadInv, NEW c \in LiveCalls("fil"), calls' \in SUBSET calls, NEW bundle,
         panel' = [panel EXCEPT !.bundle = bundle],
         bundle \in {Loading, Broken, [ids |-> Thread(X, c.ask.root), next |-> Null]}
  PROVE  ThreadInv'
<1>1. /\ panel = [root |-> panel.root, bundle |-> panel.bundle]
      /\ panel.root # 0 /\ Replies(X, panel.root) # {} /\ c.ask.root = panel.root
  BY DEF ThreadInv
<1>2. panel' = [root |-> panel.root, bundle |-> bundle]
  BY ONLY <1>1, panel' = [panel EXCEPT !.bundle = bundle]
<1>3. LiveCalls("fil")' \in SUBSET LiveCalls("fil")
  BY DEF LiveCalls
<1>4. panel'.root = panel.root /\ panel'.bundle = bundle
      /\ panel' = [root |-> panel'.root, bundle |-> panel'.bundle]
  BY ONLY <1>2
<1>5. panel' # Closed
  BY <1>1, <1>4 DEF Closed
<1> QED BY <1>1, <1>3, <1>4, <1>5 DEF ThreadInv

LEMMA ThreadStep ==
  ASSUME ReadingInv, FocusInv, ThreadInv, [ReadingNext]_readingVars
  PROVE  ThreadInv'
<1>1. ASSUME NEW r, NEW cs \in SUBSET calls, MoveTo(r, cs) PROVE ThreadInv'
  <2>1. \A a \in Questions(r) : a.kind # "fil"
    BY DEF Questions
  <2>2. \A c \in calls' : c.live /\ c.ask.kind = "fil" => c \in calls /\ r.view = route.view
    BY <1>1, <2>1, MovedCalls
  <2>3. CASE r.view = route.view
    <3>1. UNCHANGED panel
      BY <1>1, <2>3 DEF MoveTo
    <3> QED BY <2>2, <3>1, PanelUntouched
  <2>4. CASE r.view # route.view
    <3>1. panel' = Closed
      BY <1>1, <2>4 DEF MoveTo
    <3>2. LiveCalls("fil")' = {}
      BY <2>2, <2>4 DEF LiveCalls
    <3> QED BY <3>1, <3>2 DEF ThreadInv
  <2> QED BY <2>3, <2>4
<1>2. CASE Navigate
  <2>1. PICK r \in Routes : MoveTo(r, calls)
    BY <1>2 DEF Navigate
  <2> QED BY <1>1, <2>1
<1>3. CASE FollowPermalink
  <2>1. PICK c \in calls, m \in DOMAIN X.posts :
          MoveTo([view |-> "canal", ch |-> X.posts[m].ch, focus |-> m], calls \ {c})
    BY <1>3 DEF FollowPermalink
  <2>2. calls \ {c} \in SUBSET calls
    OBVIOUS
  <2> QED BY <1>1, <2>1, <2>2
<1>4. CASE MissingPermalink \/ Opened \/ Older \/ Searched \/ Render
  <2>1. UNCHANGED panel
    <3>1. CASE MissingPermalink \/ Opened
      BY <3>1 DEF MissingPermalink, Opened
    <3>2. CASE Older
      BY <3>2, Zenon DEF Older
    <3>3. CASE Searched \/ Render
      BY <3>3 DEF Searched, Render
    <3> QED BY <1>4, <3>1, <3>2, <3>3
  <2>2. calls' \in SUBSET calls
    BY <1>4, OtherCalls
  <2> QED BY <2>1, <2>2, PanelUntouched
<1>5. CASE Scroll
  <2>1. UNCHANGED panel
    BY <1>5 DEF Scroll
  <2>2. \A c \in calls' : c.live => c \in calls \/ c.ask.kind = "suite"
    BY <1>5, OtherCalls
  <2> QED BY <2>1, <2>2, PanelUntouched
<1>6. CASE CloseThread
  <2>1. panel' = Closed
    BY <1>6 DEF CloseThread
  <2>2. LiveCalls("fil")' = {}
    BY <1>6, OtherCalls DEF LiveCalls
  <2> QED BY <2>1, <2>2 DEF ThreadInv
<1>7. CASE OpenThread
  <2>1. PICK r \in list.ids : Replies(X, r) # {} /\ panel' = [root |-> r, bundle |-> Loading]
    BY <1>7 DEF OpenThread
  <2>2. ListForm(list)
    BY <1>7 DEF OpenThread, Shown, ReadingInv
  <2>3. r # 0
    BY <2>1, <2>2 DEF FocusInv
  <2>4. panel'.root = r /\ panel'.bundle = Loading
        /\ panel' = [root |-> panel'.root, bundle |-> panel'.bundle]
    BY ONLY <2>1
  <2>5. \A c \in LiveCalls("fil")' : c.ask.root = r
    <3>1. ASSUME NEW c \in calls', c.live, c.ask.kind = "fil" PROVE c.ask.root = r
      <4>1. PICK s \in list.ids : /\ c.ask = [kind |-> "fil", root |-> s]
                                  /\ panel' = [root |-> s, bundle |-> Loading]
        BY <1>7, <3>1, OtherCalls
      <4>2. c.ask.root = s /\ panel'.root = s
        BY ONLY <4>1
      <4> QED BY <2>4, <4>2
    <3> QED BY <3>1 DEF LiveCalls
  <2>6. panel' # Closed
    BY <2>3, <2>4 DEF Closed
  <2> QED BY <2>1, <2>3, <2>4, <2>5, <2>6 DEF ThreadInv
<1>8. CASE ThreadRead
  <2>1. PICK c \in calls :
          /\ c.ask.kind = "fil" /\ calls' = calls \ {c}
          /\ panel' = IF c.live THEN [panel EXCEPT !.bundle = Answer(c.ask)] ELSE panel
    BY <1>8 DEF ThreadRead
  <2>2. calls' \in SUBSET calls
    BY <2>1
  <2>3. CASE ~ c.live
    BY <2>1, <2>2, <2>3, PanelUntouched
  <2>4. CASE c.live
    <3>1. c \in LiveCalls("fil")
      BY <2>1, <2>4 DEF LiveCalls
    <3>2. Answer(c.ask) = [ids |-> Thread(X, c.ask.root), next |-> Null]
      BY <2>1 DEF Answer, ServerAnswer, WorkerAnswer, Pages
    <3>3. panel' = [panel EXCEPT !.bundle = Answer(c.ask)]
      BY <2>1, <2>4
    <3> QED BY <2>2, <3>1, <3>2, <3>3, PanelFilled
  <2> QED BY <2>3, <2>4
<1>9. CASE Fail
  <2>1. PICK c \in calls :
          /\ calls' = calls \ {c}
          /\ panel' = IF c.live /\ c.ask.kind = "fil" THEN [panel EXCEPT !.bundle = Broken]
                      ELSE panel
    BY <1>9 DEF Fail
  <2>2. calls' \in SUBSET calls
    BY <2>1
  <2>3. CASE ~ (c.live /\ c.ask.kind = "fil")
    BY <2>1, <2>2, <2>3, PanelUntouched
  <2>4. CASE c.live /\ c.ask.kind = "fil"
    <3>1. c \in LiveCalls("fil") /\ panel' = [panel EXCEPT !.bundle = Broken]
      BY <2>1, <2>4 DEF LiveCalls
    <3> QED BY <2>2, <3>1, PanelFilled
  <2> QED BY <2>3, <2>4
<1>10. CASE UNCHANGED readingVars
  BY <1>10, PanelUntouched DEF readingVars
<1> QED BY <1>2, <1>3, <1>4, <1>5, <1>6, <1>7, <1>8, <1>9, <1>10 DEF ReadingNext

ShownInv == ReadingInv /\ SearchInv /\ FocusInv /\ ThreadInv

LEMMA NothingIsShownAtFirst == ReadingInit => ShownInv
<1> SUFFICES ASSUME ReadingInit PROVE ShownInv
  OBVIOUS
<1>1. ReadingInv
  BY ReadingInitHolds
<1>2. ~ InSearch(route)
  BY DEF ReadingInit, InSearch, NoRoute
<1>3. \A kind : LiveCalls(kind) = {}
  BY DEF ReadingInit, LiveCalls
<1>4. SearchInv
  BY <1>2, <1>3 DEF ReadingInit, SearchInv, Fresh
<1>5. FocusInv
  BY ListFormIsLoaded DEF ReadingInit, FocusInv
<1>6. ThreadInv
  BY <1>3 DEF ReadingInit, ThreadInv
<1> QED BY <1>1, <1>4, <1>5, <1>6 DEF ShownInv

LEMMA ShownIsRight == ShownInv => ShownIsAsked
<1> SUFFICES ASSUME ShownInv PROVE ShownIsAsked
  OBVIOUS
<1> USE DEF ShownInv
<1>1. ASSUME InSearch(route), route.query # <<>>, ~ search.busy, ~ search.broken
      PROVE  Settles(route.query, search.outcome)
  <2>1. search.outcome = Search(X, route.query, Offset, Limit) /\ IsQuery(route.query)
    BY <1>1, QueriesAssumption DEF SearchInv
  <2> QED BY <2>1, SearchSettles
<1>2. ASSUME panel.bundle \notin {None, Loading, Broken}
      PROVE  /\ panel.root # 0
             /\ Pids(panel.bundle.ids) =
                  {p.pid : p \in {q \in Messages : X.posts[panel.root].pid \in {q.pid, q.root}}}
  <2>1. panel # Closed
    BY <1>2 DEF Closed
  <2>2. /\ panel.root # 0 /\ Replies(X, panel.root) # {}
        /\ panel.bundle = [ids |-> Thread(X, panel.root), next |-> Null]
    BY <1>2, <2>1 DEF ThreadInv
  <2>3. panel.bundle.ids = Thread(X, panel.root)
    BY ONLY <2>2
  <2> QED BY <2>2, <2>3, ThreadShown
<1>3. ASSUME Shown, route.focus # 0 PROVE route.focus \in list.ids
  BY <1>3 DEF Shown, ReadingInv, FocusInv
<1> HIDE DEF ShownInv
<1> QED BY <1>1, <1>2, <1>3, Zenon DEF ShownIsAsked, Settles

\* Reading and asking in App, Search, ChannelView, ThreadPanel (web/src/ui),
\* query/*.ts: whatever the order of the answers, what is on screen is what is
\* asked now: the newest messages that satisfy the search, none for a name that
\* nobody bears, the whole thread, the message of the permalink.
THEOREM WhatIsShownIsAsked == ReadingSpec => []ShownIsAsked
<1>1. ShownInv /\ [ReadingNext]_readingVars => ShownInv'
  BY ReadingStep, SearchStep, FocusStep, ThreadStep DEF ShownInv
<1> QED BY <1>1, NothingIsShownAtFirst, ShownIsRight, PTL DEF ReadingSpec

(*------------------------- the cutting of an index -----------------------*)
\* Induction over the natural numbers, for a set of them.
LEMMA NaturalInduction ==
  ASSUME NEW T \in SUBSET Nat, 0 \in T, \A n \in T : n + 1 \in T
  PROVE  T = Nat
<1> SUFFICES ASSUME Nat \ T # {} PROVE FALSE
  OBVIOUS
<1>1. PICK x \in Nat \ T : \A y \in Nat \ T : x <= y
  BY LeastOf
<1>2. x # 0 /\ x - 1 \in Nat
  BY <1>1
<1>3. x - 1 \in T
  BY <1>1, <1>2
<1> QED BY <1>1, <1>2, <1>3

\* Messages in an order, each once.
LEMMA OrderedIsEach ==
  ASSUME NEW n \in Nat, NEW S \in SUBSET (1 .. n), NEW key, \A i \in S : key[i] \in Nat
  PROVE  LET s == Ordered(key, S) IN
         /\ s \in Seq(S) /\ Len(s) = Cardinality(S) /\ Cardinality(S) \in 0 .. n
         /\ \A i \in S : \E k \in 1 .. Len(s) : s[k] = i
         /\ \A k, l \in 1 .. Len(s) : s[k] = s[l] => k = l
<1> DEFINE c == Cardinality(S)
           P(i) == Precede(key, S, i)
           rank == [i \in S |-> Cardinality(P(i)) + 1]
           s == Ordered(key, S)
<1>0. \A i \in S : i \in Nat
  OBVIOUS
<1>1. IsFiniteSet(S) /\ c \in Nat /\ c <= n
  <2>1. IsFiniteSet(1 .. n) /\ Cardinality(1 .. n) = n
    <3>1. n \in Int /\ 1 \in Int
      OBVIOUS
    <3>2. IsFiniteSet(1 .. n) /\ Cardinality(1 .. n) = IF 1 > n THEN 0 ELSE n - 1 + 1
      BY <3>1, FS_Interval
    <3> QED BY <3>2
  <2>2. IsFiniteSet(S) /\ Cardinality(S) <= Cardinality(1 .. n)
    BY <2>1, FS_Subset
  <2>3. Cardinality(S) \in Nat
    BY <2>2, FS_CardinalityType
  <2> QED BY <2>1, <2>2, <2>3
<1>2. ASSUME NEW i \in S
      PROVE  IsFiniteSet(P(i)) /\ Cardinality(P(i)) \in Nat /\ Cardinality(P(i)) < c
  <2> DEFINE Q == P(i)
  <2>1. Q \in SUBSET S /\ i \notin Q
    BY DEF Precede
  <2> HIDE DEF Q
  <2>2. IsFiniteSet(Q) /\ Cardinality(Q) <= c /\ (c = Cardinality(Q) => S = Q)
    BY <1>1, <2>1, FS_Subset
  <2>3. Cardinality(Q) \in Nat
    BY <2>2, FS_CardinalityType
  <2> HIDE DEF c
  <2>4. Cardinality(Q) < c
    BY <1>1, <2>1, <2>2, <2>3
  <2> QED BY <2>2, <2>3, <2>4 DEF Q
<1>3. ASSUME NEW i \in S, NEW j \in S, i # j
      PROVE  Cardinality(P(i)) # Cardinality(P(j))
  <2>1. ASSUME NEW u \in S, NEW v \in S, u \in P(v)
        PROVE  Cardinality(P(u)) < Cardinality(P(v))
    <3> DEFINE U == P(u)
               V == P(v)
    <3>0. \A w, z \in S : w \in P(z) <=> key[w] < key[z] \/ (key[w] = key[z] /\ w < z)
      BY DEF Precede
    <3>1. U \in SUBSET V /\ u \in V /\ u \notin U
      <4>1. \A w \in U : w \in S
        BY DEF Precede
      <4>2. ASSUME NEW w \in U PROVE w \in V
        <5>1. w \in S /\ w \in Nat /\ u \in Nat /\ v \in Nat
          BY <1>0, <4>1
        <5>2. key[w] \in Nat /\ key[u] \in Nat /\ key[v] \in Nat
          BY <5>1
        <5>3. key[w] < key[u] \/ (key[w] = key[u] /\ w < u)
          BY <3>0, <5>1
        <5>4. key[u] < key[v] \/ (key[u] = key[v] /\ u < v)
          BY <2>1, <3>0
        <5>5. key[w] < key[v] \/ (key[w] = key[v] /\ w < v)
          BY <5>1, <5>2, <5>3, <5>4
        <5> QED BY <3>0, <5>1, <5>5
      <4>3. u \notin U
        BY <3>0
      <4> QED BY <2>1, <4>2, <4>3
    <3>2. IsFiniteSet(V) /\ Cardinality(V) \in Nat /\ Cardinality(U) \in Nat
      BY <1>2
    <3> HIDE DEF U, V
    <3>3. Cardinality(U) <= Cardinality(V) /\ (Cardinality(V) = Cardinality(U) => V = U)
      BY <3>1, <3>2, FS_Subset
    <3>4. Cardinality(U) < Cardinality(V)
      BY <3>1, <3>2, <3>3
    <3> QED BY <3>4 DEF U, V
  <2>2. i \in P(j) \/ j \in P(i)
    BY <1>3 DEF Precede
  <2>3. Cardinality(P(i)) \in Nat /\ Cardinality(P(j)) \in Nat
    BY <1>2
  <2>4. Cardinality(P(i)) < Cardinality(P(j)) \/ Cardinality(P(j)) < Cardinality(P(i))
    BY <2>1, <2>2
  <2> HIDE DEF P
  <2> QED BY <2>3, <2>4
<1>4. rank \in [S -> 1 .. c]
  <2> HIDE DEF P, c
  <2> QED BY <1>1, <1>2
<1>5. \A i, j \in S : rank[i] = rank[j] => i = j
  <2> SUFFICES ASSUME NEW i \in S, NEW j \in S, rank[i] = rank[j], i # j PROVE FALSE
    OBVIOUS
  <2>1. /\ Cardinality(P(i)) # Cardinality(P(j))
        /\ Cardinality(P(i)) \in Nat /\ Cardinality(P(j)) \in Nat
    BY <1>2, <1>3
  <2> HIDE DEF P
  <2> QED BY <2>1
<1>6. \A k \in 1 .. c : \E i \in S : rank[i] = k
  <2> HIDE DEF rank
  <2>1. rank \in Injection(S, 1 .. c)
    BY <1>4, <1>5 DEF Injection, IsInjective
  <2>2. IsFiniteSet(1 .. c) /\ Cardinality(1 .. c) = c
    <3>1. c \in Int /\ 1 \in Int
      BY <1>1
    <3> HIDE DEF c
    <3>2. IsFiniteSet(1 .. c) /\ Cardinality(1 .. c) = IF 1 > c THEN 0 ELSE c - 1 + 1
      BY <3>1, FS_Interval
    <3> QED BY <1>1, <3>2
  <2>3. rank \in Surjection(S, 1 .. c)
    BY <1>1, <2>1, <2>2, FS_Injection
  <2> QED BY <2>3 DEF Surjection
<1>7. ASSUME NEW k \in 1 .. c PROVE s[k] \in S /\ rank[s[k]] = k
  <2>1. s[k] = CHOOSE i \in S : Cardinality(P(i)) = k - 1
    BY DEF Ordered
  <2>2. PICK i \in S : rank[i] = k
    BY <1>6
  <2> HIDE DEF s
  <2>3. Cardinality(P(i)) = k - 1
    BY <1>2, <2>2
  <2>4. s[k] \in S /\ Cardinality(P(s[k])) = k - 1
    BY <2>1, <2>3, Zenon
  <2> HIDE DEF P
  <2> QED BY <1>1, <2>4
<1>8. s \in Seq(S) /\ Len(s) = c
  <2>1. s = [k \in 1 .. c |-> s[k]]
    BY DEF Ordered
  <2> HIDE DEF s, c
  <2>2. s \in [1 .. c -> S]
    BY <1>7, <2>1
  <2> QED BY <1>1, <2>2
<1>9. ASSUME NEW i \in S PROVE \E k \in 1 .. c : s[k] = i
  <2>1. rank[i] \in 1 .. c
    BY <1>4
  <2> QED BY <1>5, <1>7, <2>1
<1>10. \A k, l \in 1 .. c : s[k] = s[l] => k = l
  BY <1>7
<1> HIDE DEF s, c
<1>11. c \in 0 .. n
  BY <1>1
<1> QED BY <1>8, <1>9, <1>10, <1>11 DEF s, c

\* The group that is being filled, from the first message on.
NoGroup == [out |-> <<>>, group |-> <<>>, part |-> 0, previous |-> 0]
Run(x, stream, rupture, m, f) ==
  f = [n \in 0 .. m |-> IF n = 0 THEN NoGroup ELSE AfterMessage(x, rupture, f[n - 1], stream[n])]

Closing(x, end) ==
  IF end.group = <<>> THEN end.out ELSE Append(end.out, Rendered(x, end.group, end.part))

LEMMA CutIsARun ==
  ASSUME NEW x, NEW stream, NEW rupture, Len(stream) \in Nat
  PROVE  \E f : Run(x, stream, rupture, Len(stream), f)
                /\ Cut(x, stream, rupture) = Closing(x, f[Len(stream)])
<1> DEFINE A(s, n) == AfterMessage(x, rupture, s, stream[n])
           T == {m \in Nat : \E f : Run(x, stream, rupture, m, f)}
<1>1. 0 \in T
  <2> DEFINE f == [n \in 0 .. 0 |-> NoGroup]
  <2>1. f = [n \in 0 .. 0 |-> IF n = 0 THEN NoGroup ELSE A(f[n - 1], n)]
    BY DEF NoGroup
  <2> QED BY <2>1 DEF Run
<1>2. ASSUME NEW m \in T PROVE m + 1 \in T
  <2>1. PICK f : Run(x, stream, rupture, m, f)
    BY <1>2
  <2> DEFINE g == [n \in 0 .. (m + 1) |-> IF n <= m THEN f[n] ELSE A(f[m], m + 1)]
             h == [n \in 0 .. (m + 1) |-> IF n = 0 THEN NoGroup ELSE A(g[n - 1], n)]
  <2>2. ASSUME NEW n \in 0 .. (m + 1) PROVE g[n] = h[n]
    <3>1. m \in Nat
      BY <1>2
    <3>2. CASE n = 0
      BY <2>1, <3>1, <3>2 DEF Run
    <3>3. CASE n \in 1 .. m
      <4>1. g[n] = f[n] /\ g[n - 1] = f[n - 1]
        BY <3>1, <3>3
      <4>2. f[n] = A(f[n - 1], n)
        BY <2>1, <3>1, <3>3 DEF Run
      <4> QED BY <3>3, <4>1, <4>2
    <3>4. CASE n = m + 1
      <4>1. g[n] = A(f[m], n) /\ g[n - 1] = f[m]
        BY <3>1, <3>4
      <4>2. h[n] = A(g[n - 1], n)
        BY <3>1, <3>4
      <4> QED BY <4>1, <4>2
    <3> QED BY <3>1, <3>2, <3>3, <3>4
  <2>3. g = h
    <3> HIDE DEF A
    <3>1. g = [n \in 0 .. (m + 1) |-> g[n]] /\ h = [n \in 0 .. (m + 1) |-> h[n]]
      OBVIOUS
    <3> HIDE DEF g, h
    <3> QED BY <2>2, <3>1
  <2>4. Run(x, stream, rupture, m + 1, g)
    BY <2>3 DEF Run
  <2> QED BY <2>4
<1> HIDE DEF T
<1>3. T = Nat
  BY <1>1, <1>2, NaturalInduction DEF T
<1>4. \E f : Run(x, stream, rupture, Len(stream), f)
  BY <1>3 DEF T
<1> DEFINE after == CHOOSE f : Run(x, stream, rupture, Len(stream), f)
<1>5. Run(x, stream, rupture, Len(stream), after)
  BY <1>4
<1>6. Cut(x, stream, rupture) = Closing(x, after[Len(stream)])
  BY DEF Cut, Run, Closing, NoGroup
<1> QED BY <1>5, <1>6

\* Each of n messages is in one place of the groups, and nothing else is.
Covers(G, stream, n) ==
  /\ \A i \in DOMAIN G : \A j \in DOMAIN G[i] : \E k \in 1 .. n : G[i][j] = stream[k]
  /\ \A k \in 1 .. n : \E i \in DOMAIN G : \E j \in DOMAIN G[i] : G[i][j] = stream[k]
  /\ \A i, h \in DOMAIN G : \A j \in DOMAIN G[i], l \in DOMAIN G[h] :
       G[i][j] = G[h][l] => i = h /\ j = l

\* The groups H have one place more than G, for m.
OneMorePlace(G, H, z, t, m) ==
  /\ DOMAIN H = DOMAIN G \cup {z}
  /\ \A i \in DOMAIN G : i # z => H[i] = G[i]
  /\ z \in DOMAIN G => /\ DOMAIN H[z] = DOMAIN G[z] \cup {t} /\ t \notin DOMAIN G[z]
                       /\ \A j \in DOMAIN G[z] : H[z][j] = G[z][j]
  /\ z \notin DOMAIN G => DOMAIN H[z] = {t}
  /\ H[z][t] = m

LEMMA CoversOneMore ==
  ASSUME NEW n \in Nat, NEW stream, NEW G, NEW H, NEW z, NEW t,
         Covers(G, stream, n), \A k \in 1 .. n : stream[k] # stream[n + 1],
         OneMorePlace(G, H, z, t, stream[n + 1])
  PROVE  Covers(H, stream, n + 1)
<1>0. /\ DOMAIN H = DOMAIN G \cup {z}
      /\ \A i \in DOMAIN G : i # z => H[i] = G[i]
      /\ z \in DOMAIN G => /\ DOMAIN H[z] = DOMAIN G[z] \cup {t} /\ t \notin DOMAIN G[z]
                           /\ \A j \in DOMAIN G[z] : H[z][j] = G[z][j]
      /\ z \notin DOMAIN G => DOMAIN H[z] = {t}
      /\ H[z][t] = stream[n + 1]
  BY DEF OneMorePlace
<1>1. /\ \A i \in DOMAIN G : \A j \in DOMAIN G[i] : \E k \in 1 .. n : G[i][j] = stream[k]
      /\ \A k \in 1 .. n : \E i \in DOMAIN G : \E j \in DOMAIN G[i] : G[i][j] = stream[k]
      /\ \A i, h \in DOMAIN G : \A j \in DOMAIN G[i], l \in DOMAIN G[h] :
           G[i][j] = G[h][l] => i = h /\ j = l
  BY DEF Covers
<1>2. /\ z \in DOMAIN H /\ t \in DOMAIN H[z]
      /\ \A i \in DOMAIN H : \A j \in DOMAIN H[i] :
           (i = z /\ j = t) \/ (i \in DOMAIN G /\ j \in DOMAIN G[i] /\ H[i][j] = G[i][j])
      /\ \A i \in DOMAIN G : \A j \in DOMAIN G[i] :
           i \in DOMAIN H /\ j \in DOMAIN H[i] /\ H[i][j] = G[i][j]
  <2>1. ASSUME NEW i \in DOMAIN H, NEW j \in DOMAIN H[i]
        PROVE  (i = z /\ j = t) \/ (i \in DOMAIN G /\ j \in DOMAIN G[i] /\ H[i][j] = G[i][j])
    BY <1>0, Zenon
  <2>2. ASSUME NEW i \in DOMAIN G, NEW j \in DOMAIN G[i]
        PROVE  i \in DOMAIN H /\ j \in DOMAIN H[i] /\ H[i][j] = G[i][j]
    BY <1>0, Zenon
  <2>3. z \in DOMAIN H /\ t \in DOMAIN H[z]
    BY <1>0
  <2> QED BY <2>1, <2>2, <2>3
<1>3. /\ \A k \in 1 .. n : k \in 1 .. (n + 1)
      /\ n + 1 \in 1 .. (n + 1)
      /\ \A k \in 1 .. (n + 1) : k \in 1 .. n \/ k = n + 1
  OBVIOUS
<1>4. ASSUME NEW i \in DOMAIN H, NEW j \in DOMAIN H[i]
      PROVE  \E k \in 1 .. (n + 1) : H[i][j] = stream[k]
  <2>1. CASE i = z /\ j = t
    <3>1. H[i][j] = stream[n + 1]
      BY <1>0, <2>1
    <3> QED BY <1>3, <3>1
  <2>2. CASE i \in DOMAIN G /\ j \in DOMAIN G[i] /\ H[i][j] = G[i][j]
    <3>1. PICK k \in 1 .. n : G[i][j] = stream[k]
      BY <1>1, <2>2
    <3>2. k \in 1 .. (n + 1) /\ H[i][j] = stream[k]
      BY <1>3, <2>2, <3>1
    <3> QED BY <3>2
  <2> QED BY <1>2, <1>4, <2>1, <2>2
<1>5. ASSUME NEW k \in 1 .. (n + 1)
      PROVE  \E i \in DOMAIN H : \E j \in DOMAIN H[i] : H[i][j] = stream[k]
  <2>1. CASE k = n + 1
    BY <1>0, <1>2, <1>3, <2>1, Zenon
  <2>2. CASE k \in 1 .. n
    <3>1. PICK i \in DOMAIN G : \E j \in DOMAIN G[i] : G[i][j] = stream[k]
      BY <1>1, <2>2
    <3>2. PICK j \in DOMAIN G[i] : G[i][j] = stream[k]
      BY <3>1
    <3>3. i \in DOMAIN H /\ j \in DOMAIN H[i] /\ H[i][j] = stream[k]
      BY <1>2, <3>2
    <3> QED BY <3>3
  <2> QED BY <1>3, <2>1, <2>2
<1>6. ASSUME NEW i \in DOMAIN H, NEW h \in DOMAIN H, NEW j \in DOMAIN H[i], NEW l \in DOMAIN H[h],
             H[i][j] = H[h][l]
      PROVE  i = h /\ j = l
  <2>1. ASSUME NEW a \in DOMAIN G, NEW b \in DOMAIN G[a] PROVE G[a][b] # stream[n + 1]
    <3>1. PICK k \in 1 .. n : G[a][b] = stream[k]
      BY <1>1
    <3> QED BY <3>1
  <2>2. CASE i = z /\ j = t
    <3>1. ~ (h \in DOMAIN G /\ l \in DOMAIN G[h] /\ H[h][l] = G[h][l])
      BY <1>0, <1>6, <2>1, <2>2
    <3>2. h = z /\ l = t
      BY <1>2, <3>1, Zenon
    <3> QED BY <2>2, <3>2
  <2>3. CASE h = z /\ l = t
    <3>1. ~ (i \in DOMAIN G /\ j \in DOMAIN G[i] /\ H[i][j] = G[i][j])
      BY <1>0, <1>6, <2>1, <2>3
    <3>2. i = z /\ j = t
      BY <1>2, <3>1, Zenon
    <3> QED BY <2>3, <3>2
  <2>4. CASE ~ (i = z /\ j = t) /\ ~ (h = z /\ l = t)
    <3>1. i \in DOMAIN G /\ j \in DOMAIN G[i] /\ H[i][j] = G[i][j]
      BY <1>2, <2>4, Zenon
    <3>2. h \in DOMAIN G /\ l \in DOMAIN G[h] /\ H[h][l] = G[h][l]
      BY <1>2, <2>4, Zenon
    <3>3. G[i][j] = G[h][l]
      BY <1>6, <3>1, <3>2
    <3> QED BY <1>1, <3>1, <3>2, <3>3
  <2> QED BY <2>2, <2>3, <2>4
<1> QED BY <1>4, <1>5, <1>6 DEF Covers

\* A group is of one thread, or of one window, and no larger than its bounds.
OneWhole(x, rupture, ids) ==
  /\ Len(ids) = 1 \/ ~ (Size(Text(x, ids)) > MaxChars)
  /\ rupture = "thread" => \A j \in 1 .. Len(ids) : ThreadOf(x, ids[j]) = ThreadOf(x, ids[1])
  /\ rupture = "window" =>
       /\ Len(ids) <= MaxMessages
       /\ \A j \in 2 .. Len(ids) : /\ x.posts[ids[j]].ch = x.posts[ids[1]].ch
                                   /\ x.posts[ids[j]].at - x.posts[ids[j - 1]].at <= Gap

\* A message alone is a whole, and so is a group with a message that follows
\* it without a rupture.
LEMMA AloneIsWhole ==
  ASSUME NEW x, NEW rupture, NEW R, NEW m \in R
  PROVE  OneWhole(x, rupture, <<m>>)
<1> DEFINE g == <<m>>
<1>1. Len(g) = 1 /\ g[1] = m
  OBVIOUS
<1> HIDE DEF g
<1> QED BY <1>1, ChunkAssumption DEF OneWhole, g

LEMMA LongerIsWhole ==
  ASSUME NEW x, NEW rupture \in {"thread", "window"}, NEW R, NEW m \in R,
         NEW g \in Seq(R), g # <<>>,
         \A id \in R : x.posts[id].at \in Int,
         OneWhole(x, rupture, g), ~ Breaks(x, rupture, g[Len(g)], m, g),
         ~ (Size(Text(x, Append(g, m))) > MaxChars)
  PROVE  OneWhole(x, rupture, Append(g, m))
<1> DEFINE h == Append(g, m)
           l == Len(g)
<1>1. /\ l \in Nat \ {0} /\ Len(h) = l + 1 /\ h[l + 1] = m
      /\ \A j \in 1 .. l : h[j] = g[j] /\ g[j] \in R
  OBVIOUS
<1>2. ~ (Size(Text(x, h)) > MaxChars)
  OBVIOUS
<1> HIDE DEF h, l
<1>3. ASSUME rupture = "thread", NEW j \in 1 .. Len(h) PROVE ThreadOf(x, h[j]) = ThreadOf(x, h[1])
  <2>1. \A i \in 1 .. l : ThreadOf(x, g[i]) = ThreadOf(x, g[1])
    BY <1>3 DEF OneWhole, l
  <2>2. ThreadOf(x, m) = ThreadOf(x, g[l])
    BY <1>3 DEF Breaks, l
  <2>3. l \in 1 .. l /\ 1 \in 1 .. l
    BY <1>1
  <2>4. CASE j \in 1 .. l
    BY <1>1, <2>1, <2>3, <2>4
  <2>5. CASE j = l + 1
    BY <1>1, <2>1, <2>2, <2>3, <2>5
  <2> QED BY <1>1, <1>3, <2>4, <2>5
<1>4. ASSUME rupture = "window"
      PROVE  /\ Len(h) <= MaxMessages
             /\ \A j \in 2 .. Len(h) : /\ x.posts[h[j]].ch = x.posts[h[1]].ch
                                       /\ x.posts[h[j]].at - x.posts[h[j - 1]].at <= Gap
  <2>1. /\ l <= MaxMessages
        /\ \A j \in 2 .. l : /\ x.posts[g[j]].ch = x.posts[g[1]].ch
                             /\ x.posts[g[j]].at - x.posts[g[j - 1]].at <= Gap
    BY <1>4 DEF OneWhole, l
  <2>2. x.posts[m].ch = x.posts[g[l]].ch /\ ~ (x.posts[m].at - x.posts[g[l]].at > Gap)
        /\ ~ (l >= MaxMessages)
    BY <1>4 DEF Breaks, l
  <2>3. x.posts[m].at \in Int /\ x.posts[g[l]].at \in Int /\ Gap \in Nat /\ MaxMessages \in Nat
    BY <1>1, ChunkAssumption
  <2>4. x.posts[m].at - x.posts[g[l]].at <= Gap /\ l + 1 <= MaxMessages
    BY <1>1, <2>2, <2>3
  <2>5. x.posts[g[l]].ch = x.posts[g[1]].ch
    BY <1>1, <2>1
  <2>6. ASSUME NEW j \in 2 .. Len(h)
        PROVE  /\ x.posts[h[j]].ch = x.posts[h[1]].ch
               /\ x.posts[h[j]].at - x.posts[h[j - 1]].at <= Gap
    <3>1. CASE j \in 2 .. l
      <4>1. h[j] = g[j] /\ h[j - 1] = g[j - 1] /\ h[1] = g[1]
        BY <1>1, <3>1
      <4> QED BY <2>1, <3>1, <4>1
    <3>2. CASE j = l + 1
      <4>1. h[j] = m /\ h[j - 1] = g[l] /\ h[1] = g[1]
        BY <1>1, <3>2
      <4> QED BY <2>2, <2>4, <2>5, <4>1
    <3> QED BY <1>1, <3>1, <3>2
  <2> QED BY <1>1, <2>4, <2>6
<1> QED BY <1>2, <1>3, <1>4 DEF OneWhole, h

\* What the cutting holds after n messages of a stream: closed fragments, and a
\* group that is not empty once there was a message; together they have each
\* of the messages in one place.
Cuts(x, R) == {Rendered(x, ids, part) : ids \in Seq(R), part \in Nat}
Wholes(x, rupture, n, out) ==
  \A i \in 1 .. Len(out) : Len(out[i].ids) \in 1 .. n /\ OneWhole(x, rupture, out[i].ids)
Groups(s) == [i \in 1 .. (Len(s.out) + 1) |-> IF i <= Len(s.out) THEN s.out[i].ids ELSE s.group]
CutSoFar(x, rupture, R, stream, n, s) ==
  /\ s = [out |-> s.out, group |-> s.group, part |-> s.part, previous |-> s.previous]
  /\ s.out \in Seq(Cuts(x, R)) /\ Wholes(x, rupture, n, s.out)
  /\ s.group \in Seq(R) /\ Len(s.group) <= n /\ s.part \in Nat
  /\ n = 0 => s.out = <<>> /\ s.group = <<>>
  /\ n > 0 => /\ s.group # <<>> /\ s.previous = s.group[Len(s.group)]
              /\ OneWhole(x, rupture, s.group)
  /\ Covers(Groups(s), stream, n)

LEMMA RenderedIsACut ==
  ASSUME NEW x, NEW R, NEW g \in Seq(R), NEW part \in Nat
  PROVE  Rendered(x, g, part) \in Cuts(x, R) /\ Rendered(x, g, part).ids = g
         /\ Rendered(x, g, part).text = Text(x, g)
<1>1. Rendered(x, g, part) \in Cuts(x, R)
  BY DEF Cuts
<1> QED BY <1>1 DEF Rendered

\* A group that can be closed, and what closing it makes of the fragments.
CanClose(x, rupture, R, n, out, g) ==
  /\ out \in Seq(Cuts(x, R)) /\ Wholes(x, rupture, n, out)
  /\ g \in Seq(R) /\ g # <<>> /\ Len(g) <= n /\ OneWhole(x, rupture, g)
ClosedWith(x, rupture, R, n, out, g, o) ==
  /\ o \in Seq(Cuts(x, R)) /\ Len(o) = Len(out) + 1 /\ Wholes(x, rupture, n, o)
  /\ \A i \in 1 .. Len(out) : o[i] = out[i]
  /\ o[Len(out) + 1].ids = g

LEMMA OneMoreWhole ==
  ASSUME NEW x, NEW rupture, NEW R, NEW n \in Nat, NEW out, NEW g,
         CanClose(x, rupture, R, n, out, g),
         NEW part \in Nat, NEW m \in Nat, n <= m
  PROVE  ClosedWith(x, rupture, R, m, out, g, Append(out, Rendered(x, g, part)))
<1> DEFINE o == Append(out, Rendered(x, g, part))
<1>a. /\ out \in Seq(Cuts(x, R)) /\ Wholes(x, rupture, n, out)
      /\ g \in Seq(R) /\ g # <<>> /\ Len(g) <= n /\ OneWhole(x, rupture, g)
  BY DEF CanClose
<1> DEFINE r == Rendered(x, g, part)
           l == Len(out)
           C == Cuts(x, R)
<1>1. r \in C /\ r.ids = g
  BY <1>a, RenderedIsACut
<1>2. Len(g) \in 1 .. m /\ \A k : k \in 1 .. n => k \in 1 .. m
  BY <1>a
<1>0. o = Append(out, r)
  OBVIOUS
<1> HIDE DEF r, C, o
<1>3. /\ l \in Nat /\ o \in Seq(C) /\ Len(o) = l + 1
      /\ (\A i \in 1 .. l : o[i] = out[i]) /\ o[l + 1] = r
  BY <1>a, <1>0, <1>1 DEF C
<1> HIDE DEF l
<1>4. ASSUME NEW i \in 1 .. Len(o)
      PROVE  Len(o[i].ids) \in 1 .. m /\ OneWhole(x, rupture, o[i].ids)
  <2>1. CASE i = l + 1
    BY <1>a, <1>1, <1>2, <1>3, <2>1
  <2>2. CASE i \in 1 .. l
    <3>1. Len(out[i].ids) \in 1 .. n /\ OneWhole(x, rupture, out[i].ids)
      BY <1>a, <2>2 DEF Wholes, l
    <3> QED BY <1>2, <1>3, <2>2, <3>1
  <2> QED BY <1>3, <2>1, <2>2
<1>5. Wholes(x, rupture, m, o)
  BY <1>4 DEF Wholes
<1> QED BY <1>1, <1>3, <1>5 DEF ClosedWith, l, C, r, o

LEMMA CutGoesOn ==
  ASSUME NEW x, NEW rupture \in {"thread", "window"}, NEW R, NEW stream, NEW n \in Nat, NEW s,
         stream[n + 1] \in R, \A k \in 1 .. n : stream[k] # stream[n + 1],
         \A id \in R : x.posts[id].at \in Int,
         CutSoFar(x, rupture, R, stream, n, s)
  PROVE  CutSoFar(x, rupture, R, stream, n + 1, AfterMessage(x, rupture, s, stream[n + 1]))
<1> DEFINE m == stream[n + 1]
           l == Len(s.out)
           g == s.group
           N == n + 1
           e == AfterMessage(x, rupture, s, m)
           C == Cuts(x, R)
<1>0. N \in Nat /\ N > 0 /\ N # 0 /\ n <= N /\ 1 <= N
  OBVIOUS
<1>1. /\ s = [out |-> s.out, group |-> s.group, part |-> s.part, previous |-> s.previous]
      /\ s.out \in Seq(C) /\ Wholes(x, rupture, n, s.out)
      /\ g \in Seq(R) /\ Len(g) <= n /\ s.part \in Nat
      /\ n = 0 => s.out = <<>> /\ g = <<>>
      /\ n > 0 => g # <<>> /\ s.previous = g[Len(g)] /\ OneWhole(x, rupture, g)
      /\ Covers(Groups(s), stream, n)
  BY DEF CutSoFar
<1>2. m \in R /\ <<m>> \in Seq(R) /\ <<m>> # <<>> /\ Len(<<m>>) = 1 /\ <<m>>[1] = m
      /\ DOMAIN <<m>> = {1}
  OBVIOUS
<1>3. OneWhole(x, rupture, <<m>>)
  BY <1>2, AloneIsWhole
<1>4. Len(g) \in Nat /\ DOMAIN g = 1 .. Len(g) /\ (g # <<>> => Len(g) > 0) /\ l \in Nat
  BY <1>1
<1>5. /\ DOMAIN Groups(s) = 1 .. (l + 1)
      /\ \A i \in 1 .. l : Groups(s)[i] = s.out[i].ids
      /\ Groups(s)[l + 1] = g
  <2> HIDE DEF C
  <2> QED BY <1>4 DEF Groups
<1>6. ASSUME NEW p \in Nat, g # <<>>,
             e = [out |-> Append(s.out, Rendered(x, g, s.part)), group |-> <<m>>,
                  part |-> p, previous |-> m]
      PROVE  CutSoFar(x, rupture, R, stream, N, e)
  <2> DEFINE o == Append(s.out, Rendered(x, g, s.part))
             h == <<m>>
             H == Groups(e)
             z == l + 2
  <2>1. n > 0 /\ OneWhole(x, rupture, g)
    BY <1>1, <1>6
  <2>2. /\ o \in Seq(C) /\ Len(o) = l + 1 /\ Wholes(x, rupture, N, o)
        /\ \A i \in 1 .. l : o[i] = s.out[i]
        /\ o[l + 1].ids = g
    <3>1. CanClose(x, rupture, R, n, s.out, g) /\ s.part \in Nat
      BY <1>1, <1>6, <2>1 DEF CanClose
    <3> HIDE DEF N, e, m, l, g, C
    <3>2. ClosedWith(x, rupture, R, N, s.out, g, o)
      BY <1>0, <3>1, OneMoreWhole
    <3> HIDE DEF o
    <3>3. /\ o \in Seq(Cuts(x, R)) /\ Len(o) = Len(s.out) + 1 /\ Wholes(x, rupture, N, o)
          /\ \A i \in 1 .. Len(s.out) : o[i] = s.out[i]
          /\ o[Len(s.out) + 1].ids = g
      BY <3>2 DEF ClosedWith
    <3> QED BY <3>3 DEF l, C
  <2> HIDE DEF o, h
  <2>3. e.out = o /\ e.group = h /\ e.part = p /\ e.previous = m
        /\ e = [out |-> e.out, group |-> e.group, part |-> e.part, previous |-> e.previous]
    BY <1>6 DEF o, h
  <2>4. /\ DOMAIN H = 1 .. z
        /\ \A i \in 1 .. (l + 1) : H[i] = o[i].ids
        /\ H[z] = h
    <3> HIDE DEF e, m, l, C, H
    <3>1. Len(o) + 1 = z /\ Len(o) = l + 1
      BY <1>4, <2>2
    <3>2. H = [i \in 1 .. (Len(o) + 1) |-> IF i <= Len(o) THEN o[i].ids ELSE h]
      BY <2>3 DEF Groups, H
    <3> QED BY <1>4, <3>1, <3>2
  <2> HIDE DEF H, e, m, l, N, C
  <2>5. DOMAIN H = DOMAIN Groups(s) \cup {z} /\ z \notin DOMAIN Groups(s)
    BY <1>4, <1>5, <2>4
  <2>6. ASSUME NEW i \in DOMAIN Groups(s) PROVE H[i] = Groups(s)[i]
    <3>1. i \in 1 .. l \/ i = l + 1
      BY <1>4, <1>5
    <3>2. i \in 1 .. (l + 1)
      BY <1>5
    <3>3. H[i] = o[i].ids
      BY <2>4, <3>2
    <3> QED BY <1>5, <2>2, <3>1, <3>3
  <2>7. DOMAIN H[z] = {1} /\ H[z][1] = m
    BY <1>2, <2>4 DEF h
  <2>8. Covers(H, stream, N)
    <3> HIDE DEF z
    <3>1. OneMorePlace(Groups(s), H, z, 1, m)
      BY <2>5, <2>6, <2>7 DEF OneMorePlace
    <3>2. Covers(H, stream, n + 1)
      BY <1>1, <3>1, CoversOneMore DEF m
    <3> QED BY <3>2 DEF N
  <2>9. e.out \in Seq(Cuts(x, R)) /\ Wholes(x, rupture, N, e.out)
    BY <2>2, <2>3 DEF C
  <2>10. e.group \in Seq(R) /\ Len(e.group) <= N /\ e.part \in Nat
    BY <1>0, <1>2, <2>3 DEF h
  <2>11. e.group # <<>> /\ e.previous = e.group[Len(e.group)] /\ OneWhole(x, rupture, e.group)
    BY <1>2, <1>3, <2>3 DEF h
  <2> QED BY <1>0, <2>3, <2>8, <2>9, <2>10, <2>11 DEF CutSoFar, H
<1>7. ASSUME e = [s EXCEPT !.group = Append(@, m), !.previous = m],
             g = <<>> \/ ~ Breaks(x, rupture, s.previous, m, g),
             g = <<>> \/ ~ (Size(Text(x, Append(g, m))) > MaxChars)
      PROVE  CutSoFar(x, rupture, R, stream, N, e)
  <2> DEFINE h == Append(g, m)
             H == Groups(e)
             z == l + 1
             t == Len(g) + 1
  <2>1. h \in Seq(R) /\ Len(h) = t /\ h[t] = m /\ (\A j \in 1 .. Len(g) : h[j] = g[j])
        /\ DOMAIN h = 1 .. t /\ h # <<>>
    <3>1. g \in Seq(R) /\ m \in R
      BY <1>1, <1>2
    <3> HIDE DEF g, m
    <3> QED BY <3>1
  <2>2. OneWhole(x, rupture, h)
    <3>1. CASE g = <<>>
      <4>1. h = <<m>>
        BY <3>1
      <4> QED BY <1>3, <4>1
    <3>2. CASE g # <<>>
      <4>1. s.previous = g[Len(g)] /\ OneWhole(x, rupture, g)
        BY <1>1, <3>2
      <4> HIDE DEF m, g
      <4> QED BY <1>1, <1>2, <1>7, <3>2, <4>1, LongerIsWhole
    <3> QED BY <3>1, <3>2
  <2> HIDE DEF h
  <2>3. e.out = s.out /\ e.group = h /\ e.part = s.part /\ e.previous = m
        /\ e = [out |-> e.out, group |-> e.group, part |-> e.part, previous |-> e.previous]
    <3> HIDE DEF e, m
    <3>1. e = [[out |-> s.out, group |-> s.group, part |-> s.part, previous |-> s.previous]
                 EXCEPT !.group = Append(@, m), !.previous = m]
      BY <1>1, <1>7, Zenon
    <3> QED BY <3>1 DEF h
  <2>4. /\ DOMAIN H = 1 .. z
        /\ \A i \in 1 .. l : H[i] = s.out[i].ids
        /\ H[z] = h
    <3> HIDE DEF e, m, C, H, g
    <3>1. H = [i \in 1 .. (l + 1) |-> IF i <= l THEN s.out[i].ids ELSE h]
      BY <2>3 DEF Groups, H
    <3> HIDE DEF l
    <3> QED BY <1>4, <3>1
  <2> HIDE DEF H, e, m, l, N, C, g
  <2>5. DOMAIN H = DOMAIN Groups(s) \cup {z} /\ z \in DOMAIN Groups(s)
    BY <1>4, <1>5, <2>4
  <2>6. ASSUME NEW i \in DOMAIN Groups(s), i # z PROVE H[i] = Groups(s)[i]
    <3>1. i \in 1 .. l
      BY <1>4, <1>5, <2>6
    <3> QED BY <1>5, <2>4, <3>1
  <2>7. /\ DOMAIN H[z] = DOMAIN Groups(s)[z] \cup {t} /\ t \notin DOMAIN Groups(s)[z]
        /\ \A j \in DOMAIN Groups(s)[z] : H[z][j] = Groups(s)[z][j]
        /\ H[z][t] = m
    <3>1. H[z] = h /\ Groups(s)[z] = g
      BY <1>5, <2>4
    <3>2. 1 .. t = 1 .. Len(g) \cup {t} /\ t \notin 1 .. Len(g)
      BY <1>4
    <3> HIDE DEF z, t
    <3> QED BY <1>4, <2>1, <3>1, <3>2
  <2>8. Covers(H, stream, N)
    <3> HIDE DEF z, t
    <3>1. OneMorePlace(Groups(s), H, z, t, m)
      BY <2>5, <2>6, <2>7 DEF OneMorePlace
    <3>2. Covers(H, stream, n + 1)
      BY <1>1, <3>1, CoversOneMore DEF m
    <3> QED BY <3>2 DEF N
  <2>9. e.out \in Seq(Cuts(x, R)) /\ Wholes(x, rupture, N, e.out)
    <3>1. \A k : k \in 1 .. n => k \in 1 .. N
      BY DEF N
    <3> QED BY <1>1, <2>3, <3>1 DEF C, Wholes
  <2>10. e.group \in Seq(R) /\ Len(e.group) <= N /\ e.part \in Nat
    BY <1>1, <1>4, <2>1, <2>3 DEF N
  <2>11. e.group # <<>> /\ e.previous = e.group[Len(e.group)] /\ OneWhole(x, rupture, e.group)
    BY <2>1, <2>2, <2>3
  <2> QED BY <1>0, <2>3, <2>8, <2>9, <2>10, <2>11 DEF CutSoFar, H
<1>8. s.part + 1 \in Nat /\ 0 \in Nat
  BY <1>1
<1>9. CASE g # <<>> /\ Breaks(x, rupture, s.previous, m, g)
  <2>1. e = [out |-> Append(s.out, Rendered(x, g, s.part)), group |-> <<m>>,
             part |-> 0, previous |-> m]
    BY <1>9 DEF AfterMessage
  <2> HIDE DEF e, m, g
  <2>2. CutSoFar(x, rupture, R, stream, N, e)
    BY <1>6, <1>8, <1>9, <2>1
  <2> QED BY <2>2 DEF e, m, g
<1>10. CASE /\ g # <<>> /\ ~ Breaks(x, rupture, s.previous, m, g)
            /\ Size(Text(x, Append(g, m))) > MaxChars
  <2>1. e = [out |-> Append(s.out, Rendered(x, g, s.part)), group |-> <<m>>,
             part |-> s.part + 1, previous |-> m]
    BY <1>10 DEF AfterMessage
  <2> HIDE DEF e, m, g
  <2>2. CutSoFar(x, rupture, R, stream, N, e)
    BY <1>6, <1>8, <1>10, <2>1
  <2> QED BY <2>2 DEF e, m, g
<1>11. CASE /\ g = <<>> \/ ~ Breaks(x, rupture, s.previous, m, g)
            /\ g = <<>> \/ ~ (Size(Text(x, Append(g, m))) > MaxChars)
  <2>1. e = [s EXCEPT !.group = Append(@, m), !.previous = m]
    BY <1>11, Zenon DEF AfterMessage
  <2> HIDE DEF e, m, g
  <2>2. CutSoFar(x, rupture, R, stream, N, e)
    BY <1>7, <1>11, <2>1
  <2> QED BY <2>2 DEF e, m, g
<1> HIDE DEF e, m, g
<1> QED BY <1>9, <1>10, <1>11 DEF e, m

\* The cutting of a stream in which each message comes once has each of them
\* in one place of one fragment.
Cutting(x, rupture, R, stream, F) ==
  /\ F \in Seq(Cuts(x, R)) /\ Wholes(x, rupture, Len(stream), F)
  /\ Covers([i \in 1 .. Len(F) |-> F[i].ids], stream, Len(stream))

LEMMA CutIsAPartition ==
  ASSUME NEW x, NEW rupture \in {"thread", "window"}, NEW R, NEW stream \in Seq(R),
         \A k, l \in 1 .. Len(stream) : stream[k] = stream[l] => k = l,
         \A id \in R : x.posts[id].at \in Int
  PROVE  Cutting(x, rupture, R, stream, Cut(x, stream, rupture))
<1> DEFINE c == Len(stream)
           F == Cut(x, stream, rupture)
<1>1. c \in Nat
  OBVIOUS
<1>2. PICK f : Run(x, stream, rupture, c, f) /\ F = Closing(x, f[c])
  BY <1>1, CutIsARun
<1> HIDE DEF F
<1>3. f[0] = NoGroup /\ \A n \in 1 .. c : f[n] = AfterMessage(x, rupture, f[n - 1], stream[n])
  BY <1>1, <1>2 DEF Run
<1> DEFINE T == {n \in Nat : n <= c => CutSoFar(x, rupture, R, stream, n, f[n])}
<1>4. 0 \in T
  <2>1. f[0].out = <<>> /\ f[0].group = <<>> /\ f[0].part = 0 /\ f[0].previous = 0
        /\ f[0] = [out |-> f[0].out, group |-> f[0].group, part |-> f[0].part,
                   previous |-> f[0].previous]
    BY <1>3 DEF NoGroup
  <2>2. Wholes(x, rupture, 0, <<>>)
    BY DEF Wholes
  <2>3. DOMAIN Groups(f[0]) = {1} /\ Groups(f[0])[1] = <<>>
    BY <2>1 DEF Groups
  <2>4. Covers(Groups(f[0]), stream, 0)
    BY <2>3 DEF Covers
  <2>5. <<>> \in Seq(Cuts(x, R)) /\ <<>> \in Seq(R) /\ Len(<<>>) <= 0 /\ 0 \in Nat /\ ~ (0 > 0)
    OBVIOUS
  <2>6. CutSoFar(x, rupture, R, stream, 0, f[0])
    BY <2>1, <2>2, <2>4, <2>5 DEF CutSoFar
  <2> QED BY <2>6
<1>5. ASSUME NEW n \in T PROVE n + 1 \in T
  <2>1. SUFFICES ASSUME n + 1 <= c PROVE CutSoFar(x, rupture, R, stream, n + 1, f[n + 1])
    BY <1>5
  <2>2. n \in Nat /\ CutSoFar(x, rupture, R, stream, n, f[n])
    BY <1>1, <1>5, <2>1
  <2>3. n + 1 \in 1 .. c /\ (n + 1) - 1 = n /\ \A k \in 1 .. n : k \in 1 .. c /\ k # n + 1
    BY <1>1, <2>1, <2>2
  <2>4. f[n + 1] = AfterMessage(x, rupture, f[n], stream[n + 1])
    BY <1>3, <2>3
  <2>5. stream[n + 1] \in R
    BY <2>3
  <2>6. \A k \in 1 .. n : stream[k] # stream[n + 1]
    BY <2>3
  <2> HIDE DEF T, c
  <2> QED BY <2>2, <2>4, <2>5, <2>6, CutGoesOn
<1>6. T = Nat
  <2> HIDE DEF T
  <2>1. T \in SUBSET Nat
    BY DEF T
  <2> QED BY <1>4, <1>5, <2>1, NaturalInduction
<1> DEFINE s == f[c]
<1>7. CutSoFar(x, rupture, R, stream, c, s)
  BY <1>1, <1>6
<1>8. /\ s.out \in Seq(Cuts(x, R)) /\ Wholes(x, rupture, c, s.out)
      /\ s.group \in Seq(R) /\ Len(s.group) <= c /\ s.part \in Nat
      /\ c = 0 => s.out = <<>> /\ s.group = <<>>
      /\ c > 0 => s.group # <<>> /\ OneWhole(x, rupture, s.group)
      /\ Covers(Groups(s), stream, c)
  BY <1>7 DEF CutSoFar
<1>9. CASE c = 0
  <2>1. F = <<>>
    BY <1>2, <1>8, <1>9 DEF Closing
  <2>2. F \in Seq(Cuts(x, R)) /\ Len(F) = 0
    BY <2>1
  <2> DEFINE G == [i \in 1 .. Len(F) |-> F[i].ids]
  <2>3. DOMAIN G = {} /\ 1 .. 0 = {}
    BY <2>2
  <2> HIDE DEF G
  <2>4. Wholes(x, rupture, c, F) /\ Covers(G, stream, c)
    BY <1>9, <2>2, <2>3 DEF Wholes, Covers
  <2> QED BY <2>2, <2>4 DEF Cutting, F, G
<1>10. CASE c # 0
  <2>1. s.group # <<>> /\ OneWhole(x, rupture, s.group)
    BY <1>1, <1>8, <1>10
  <2>2. F = Append(s.out, Rendered(x, s.group, s.part))
    BY <1>2, <2>1 DEF Closing
  <2> HIDE DEF s
  <2>3. /\ F \in Seq(Cuts(x, R)) /\ Len(F) = Len(s.out) + 1 /\ Wholes(x, rupture, c, F)
        /\ \A i \in 1 .. Len(s.out) : F[i] = s.out[i]
        /\ F[Len(s.out) + 1].ids = s.group
    <3> HIDE DEF c
    <3>1. c <= c
      BY <1>1
    <3>2. CanClose(x, rupture, R, c, s.out, s.group)
      BY <1>8, <2>1 DEF CanClose
    <3>3. ClosedWith(x, rupture, R, c, s.out, s.group, F)
      BY <1>1, <1>8, <2>2, <3>1, <3>2, OneMoreWhole
    <3> QED BY <3>3 DEF ClosedWith
  <2> DEFINE G == [i \in 1 .. Len(F) |-> F[i].ids]
             l == Len(s.out)
  <2>4. l \in Nat
    BY <1>8
  <2>5. ASSUME NEW i \in 1 .. (l + 1)
        PROVE  F[i].ids = IF i <= l THEN s.out[i].ids ELSE s.group
    <3> HIDE DEF l
    <3>1. CASE i \in 1 .. l
      BY <2>3, <2>4, <3>1 DEF l
    <3>2. CASE i = l + 1
      BY <2>3, <2>4, <3>2 DEF l
    <3> QED BY <2>4, <3>1, <3>2
  <2>6. G = Groups(s)
    <3>1. G = [i \in 1 .. (l + 1) |-> F[i].ids]
      BY <2>3
    <3> HIDE DEF G
    <3>2. Groups(s) = [i \in 1 .. (l + 1) |-> IF i <= l THEN s.out[i].ids ELSE s.group]
      BY DEF Groups
    <3> HIDE DEF l
    <3> QED BY <2>5, <3>1, <3>2
  <2> QED BY <1>8, <2>3, <2>6 DEF Cutting, F
<1> QED BY <1>9, <1>10 DEF F

(*------------------- the store and the build it was cut from -------------*)
\* The store of a cutting: the roots and the fingerprint were read from a build
\* of an archive, the messages from the same build, no less far advanced.
IsStore(s) ==
  \E a \in DOMAIN Archives : \E k, m \in 1 .. Finished :
    LET roots == Roots(Contents[a][k])
    IN  /\ k <= m
        /\ s.print = Fingerprint(Contents[a][k])
        /\ s.fragments = ThreadFragments(Contents[a][m], roots)
                           \o WindowFragments(Contents[a][m], roots)

\* What the chunker holds open, be it still at the path or not.
FileHeld == IF chunker.file = AtPath THEN index ELSE chunker.file
ReadBefore(c, f) ==
  /\ "file" \in DOMAIN c
  /\ f \in [of : DOMAIN Archives, k : 0 .. Finished]
  /\ \E k \in 1 .. Finished : /\ k <= f.k
                              /\ c.roots = Roots(Contents[f.of][k])
                              /\ c.print = Fingerprint(Contents[f.of][k])
StoresAreCut ==
  /\ IndexIsABuild
  /\ chunker.stage = "opened" => ReadBefore(chunker, FileHeld)
  /\ Complete(partial) => IsStore(partial)
  /\ Complete(store) => IsStore(store)

LEMMA NoStoreAtFirst == FilesInit => StoresAreCut
  BY DEF FilesInit, StoresAreCut, IndexIsABuild, Idle, Complete

\* A file that leaves its name stays the one that is held.
LEMMA DetachedHeld ==
  ASSUME StoresAreCut, chunker' = Detached, chunker'.stage = "opened"
  PROVE  ReadBefore(chunker', FileHeld')
<1> DEFINE Files == [of : DOMAIN Archives, k : 0 .. Finished]
<1>1. chunker.stage = "opened"
  BY DEF Detached
<1>2. ReadBefore(chunker, FileHeld) /\ FileHeld \in Files
  BY <1>1 DEF StoresAreCut, ReadBefore
<1>3. CASE chunker.file = AtPath
  <2>1. FileHeld = index /\ chunker' = [chunker EXCEPT !.file = index]
    BY <1>1, <1>3 DEF FileHeld, Detached
  <2>2. index # AtPath
    <3>1. index \in Files
      BY <1>2, <2>1
    <3>2. "of" \in DOMAIN index /\ "of" \notin DOMAIN AtPath
      BY <3>1 DEF AtPath
    <3> QED BY <3>2
  <2>3. chunker'.roots = chunker.roots /\ chunker'.print = chunker.print
        /\ "file" \in DOMAIN chunker'
    BY <1>2, <2>1 DEF ReadBefore
  <2>4. FileHeld' = index
    <3>1. chunker'.file = index
      BY <1>2, <2>1 DEF ReadBefore
    <3> QED BY <2>2, <3>1 DEF FileHeld
  <2> QED BY <1>2, <2>1, <2>3, <2>4 DEF ReadBefore
<1>4. CASE chunker.file # AtPath
  <2>1. chunker' = chunker
    BY <1>4 DEF Detached
  <2>2. FileHeld' = FileHeld
    BY <1>4, <2>1 DEF FileHeld
  <2> QED BY <1>2, <2>1, <2>2
<1> QED BY <1>3, <1>4

LEMMA StoresStep ==
  ASSUME StoresAreCut, [FilesNext]_filesVars
  PROVE  StoresAreCut'
<1>0. Finished = 10 /\ IndexIsABuild'
  BY BuildsStep DEF Finished, Steps, StoresAreCut
<1>1. CASE Rewrite \/ KillBuild \/ UNCHANGED filesVars
  <2>1. UNCHANGED <<chunker, index, partial, store>>
    BY <1>1 DEF Rewrite, KillBuild, filesVars
  <2> QED BY <1>0, <2>1 DEF StoresAreCut, FileHeld, ReadBefore, Complete, IsStore
<1>2. CASE BuildStart \/ BuildFails
  <2>1. chunker' = Detached /\ UNCHANGED <<partial, store>>
    BY <1>2 DEF BuildStart, BuildFails
  <2>2. chunker'.stage = "opened" => ReadBefore(chunker', FileHeld')
    BY <2>1, DetachedHeld
  <2> QED BY <1>0, <2>1, <2>2 DEF StoresAreCut, Complete, IsStore
<1>7. CASE BuildOpen
  <2>1. builder = "opening" /\ UNCHANGED <<chunker, partial, store>>
    BY <1>7 DEF BuildOpen
  <2>2. ASSUME chunker.stage = "opened" PROVE ReadBefore(chunker', FileHeld')
    <3>1. ReadBefore(chunker, FileHeld)
      BY <2>2 DEF StoresAreCut
    <3>2. chunker.file # AtPath
      <4>1. index = NoFile
        BY <2>1 DEF StoresAreCut, IndexIsABuild
      <4>2. FileHeld # NoFile
        <5>1. "of" \in DOMAIN FileHeld /\ "of" \notin DOMAIN NoFile
          BY <3>1 DEF ReadBefore, NoFile
        <5> QED BY <5>1
      <4> QED BY <4>1, <4>2 DEF FileHeld
    <3>3. FileHeld' = FileHeld /\ chunker' = chunker
      BY <2>1, <3>2 DEF FileHeld
    <3> QED BY <3>1, <3>3
  <2> QED BY <1>0, <2>1, <2>2 DEF StoresAreCut, Complete, IsStore
<1>3. CASE BuildStep
  <2>1. /\ index' = [index EXCEPT !.k = @ + 1] /\ UNCHANGED <<chunker, partial, store>>
        /\ builder = "building" /\ index.k < Finished
    BY <1>3 DEF BuildStep
  <2>2. ASSUME chunker.stage = "opened" PROVE ReadBefore(chunker', FileHeld')
    <3>1. ReadBefore(chunker, FileHeld)
      BY <2>2 DEF StoresAreCut
    <3>2. CASE chunker.file = AtPath
      <4>1. FileHeld = index /\ FileHeld' = index'
        BY <2>1, <3>2 DEF FileHeld
      <4>2. index \in [of : DOMAIN Archives, k : 0 .. Finished]
        BY <3>1, <4>1 DEF ReadBefore
      <4>3. index' \in [of : DOMAIN Archives, k : 0 .. Finished] /\ index'.of = index.of
            /\ index'.k = index.k + 1
        BY <1>0, <2>1, <4>2
      <4>4. PICK k \in 1 .. Finished : /\ k <= index.k
                                       /\ chunker.roots = Roots(Contents[index.of][k])
                                       /\ chunker.print = Fingerprint(Contents[index.of][k])
        BY <3>1, <4>1 DEF ReadBefore
      <4>5. k <= index'.k
        BY <1>0, <4>2, <4>3, <4>4
      <4> QED BY <2>1, <3>1, <4>1, <4>3, <4>4, <4>5 DEF ReadBefore
    <3>3. CASE chunker.file # AtPath
      <4>1. FileHeld' = FileHeld /\ chunker' = chunker
        BY <2>1, <3>3 DEF FileHeld
      <4> QED BY <3>1, <4>1
    <3> QED BY <3>2, <3>3
  <2> QED BY <1>0, <2>1, <2>2 DEF StoresAreCut, Complete, IsStore
<1>4. CASE StoreStart
  <2> DEFINE x == Contents[index.of][index.k]
  <2>1. /\ HasFile(index) /\ After(index.k, "ddl") /\ UNCHANGED <<index, store>>
        /\ chunker' = [stage |-> "opened", file |-> AtPath, roots |-> Roots(x),
                       print |-> Fingerprint(x)]
        /\ partial' = Torn
    BY <1>4 DEF StoreStart
  <2>2. index \in [of : DOMAIN Archives, k : 0 .. Finished]
    BY <2>1 DEF StoresAreCut, IndexIsABuild, HasFile
  <2>3. index.k \in 1 .. Finished
    <3>1. index.k # 0
      BY <2>1 DEF After
    <3> QED BY <1>0, <2>2, <3>1
  <2>4. FileHeld' = index
    BY <2>1 DEF FileHeld
  <2> HIDE DEF x
  <2>5. chunker'.roots = Roots(x) /\ chunker'.print = Fingerprint(x)
    BY <2>1
  <2>a. "file" \in DOMAIN chunker'
    BY <2>1
  <2>6. ReadBefore(chunker', FileHeld')
    BY <1>0, <2>a, <2>2, <2>3, <2>4, <2>5 DEF ReadBefore, x
  <2>7. ~ Complete(partial')
    BY <2>1 DEF Complete
  <2> QED BY <1>0, <2>1, <2>6, <2>7 DEF StoresAreCut, Complete, IsStore
<1>5. CASE StoreWrite
  <2> DEFINE x == Held(chunker)
             fragments == ThreadFragments(x, chunker.roots) \o WindowFragments(x, chunker.roots)
  <2>1. /\ chunker.stage = "opened" /\ chunker' = [stage |-> "written"] /\ store' = store
        /\ partial' = [print |-> chunker.print, fragments |-> fragments]
    BY <1>5 DEF StoreWrite
  <2>2. ReadBefore(chunker, FileHeld)
    BY <2>1 DEF StoresAreCut
  <2>3. x = Contents[FileHeld.of][FileHeld.k]
    BY DEF Held, FileHeld
  <2>4. PICK k \in 1 .. Finished : /\ k <= FileHeld.k
                                   /\ chunker.roots = Roots(Contents[FileHeld.of][k])
                                   /\ chunker.print = Fingerprint(Contents[FileHeld.of][k])
    BY <2>2 DEF ReadBefore
  <2>5. FileHeld.of \in DOMAIN Archives /\ FileHeld.k \in 0 .. Finished
    BY <2>2 DEF ReadBefore
  <2>6. FileHeld.k \in 1 .. Finished
    BY <1>0, <2>4, <2>5
  <2> HIDE DEF x
  <2>7. partial'.print = chunker.print /\ partial'.fragments = fragments
    <3> HIDE DEF fragments
    <3> QED BY <2>1
  <2>8. IsStore(partial')
    BY <2>3, <2>4, <2>5, <2>6, <2>7 DEF IsStore
  <2>9. chunker'.stage # "opened"
    BY <2>1
  <2>10. (Complete(store) => IsStore(store))'
    BY <2>1 DEF StoresAreCut, Complete, IsStore
  <2>11. (Complete(partial) => IsStore(partial))'
    BY <2>8 DEF IsStore
  <2> QED BY <1>0, <2>9, <2>10, <2>11 DEF StoresAreCut
<1>6. CASE StoreRemove \/ StoreRename \/ StoreFails \/ KillStore
  <2>1. /\ chunker'.stage # "opened"
        /\ partial' = partial \/ partial' = NoFile
        /\ store' = store \/ store' = NoFile \/ store' = partial
    BY <1>6 DEF StoreRemove, StoreRename, StoreFails, KillStore, Idle
  <2>2. (Complete(store) => IsStore(store))'
    <3>1. CASE store' = NoFile
      BY <3>1 DEF Complete
    <3>2. CASE store' = store
      BY <3>2 DEF StoresAreCut, Complete, IsStore
    <3>3. CASE store' = partial
      BY <3>3 DEF StoresAreCut, Complete, IsStore
    <3> QED BY <2>1, <3>1, <3>2, <3>3
  <2>3. (Complete(partial) => IsStore(partial))'
    <3>1. CASE partial' = NoFile
      BY <3>1 DEF Complete
    <3>2. CASE partial' = partial
      BY <3>2 DEF StoresAreCut, Complete, IsStore
    <3> QED BY <2>1, <3>1, <3>2
  <2> QED BY <1>0, <2>1, <2>2, <2>3 DEF StoresAreCut
<1> QED BY <1>1, <1>2, <1>3, <1>4, <1>5, <1>6, <1>7 DEF FilesNext

(*----------------------------- the two passes ----------------------------*)
\* What the cutting asks of an index: n messages, with what they are ordered by.
Numbered(x, n) ==
  /\ n \in Nat /\ DOMAIN x.posts = 1 .. n
  /\ \A r \in 1 .. n : ThreadOf(x, r) \in Nat /\ x.posts[r].ch \in Nat /\ x.posts[r].at \in Int

\* One pass over a set of messages: each of them in one place of its fragments.
OnePass(x, n, S, rupture, F) ==
  /\ F \in Seq(Cuts(x, S))
  /\ \A i \in 1 .. Len(F) : /\ F[i] \in Cuts(x, S) /\ Len(F[i].ids) \in 1 .. n
                            /\ OneWhole(x, rupture, F[i].ids)
  /\ \A id \in S : \E i \in 1 .. Len(F) : \E j \in DOMAIN F[i].ids : F[i].ids[j] = id
  /\ \A i, h \in 1 .. Len(F) : \A j \in DOMAIN F[i].ids, l \in DOMAIN F[h].ids :
       F[i].ids[j] = F[h].ids[l] => i = h /\ j = l

LEMMA OfACut ==
  ASSUME NEW x, NEW R, NEW f \in Cuts(x, R)
  PROVE  f.ids \in Seq(R) /\ f.text = Text(x, f.ids)
<1>1. PICK ids \in Seq(R), part \in Nat : f = Rendered(x, ids, part)
  BY DEF Cuts
<1>2. f.ids = ids /\ f.text = Text(x, ids)
  BY <1>1, RenderedIsACut
<1> QED BY <1>2

LEMMA SequencesOfMore ==
  ASSUME NEW S, NEW T, S \in SUBSET T, NEW s \in Seq(S)
  PROVE  s \in Seq(T)
  OBVIOUS

LEMMA OnePassOf ==
  ASSUME NEW x, NEW n, Numbered(x, n), NEW S \in SUBSET (1 .. n),
         NEW rupture \in {"thread", "window"}, NEW key, \A id \in S : key[id] \in Nat
  PROVE  OnePass(x, n, S, rupture, Cut(x, Ordered(key, S), rupture))
<1> DEFINE s == Ordered(key, S)
           F == Cut(x, s, rupture)
           G == [i \in 1 .. Len(F) |-> F[i].ids]
<1>1. n \in Nat /\ \A id \in S : x.posts[id].at \in Int
  BY DEF Numbered
<1>2. /\ s \in Seq(S) /\ Len(s) = Cardinality(S) /\ Cardinality(S) \in 0 .. n
      /\ \A i \in S : \E k \in 1 .. Len(s) : s[k] = i
      /\ \A k, l \in 1 .. Len(s) : s[k] = s[l] => k = l
  BY <1>1, OrderedIsEach
<1> HIDE DEF s
<1>3. F \in Seq(Cuts(x, S)) /\ Wholes(x, rupture, Len(s), F) /\ Covers(G, s, Len(s))
  <2>1. Cutting(x, rupture, S, s, F)
    BY <1>1, <1>2, CutIsAPartition
  <2> QED BY <2>1 DEF Cutting
<1> HIDE DEF F
<1>4. Len(s) \in 0 .. n
  BY <1>2
<1>5. ASSUME NEW i \in 1 .. Len(F)
      PROVE  /\ F[i] \in Cuts(x, S) /\ Len(F[i].ids) \in 1 .. n
             /\ OneWhole(x, rupture, F[i].ids)
  <2>1. F[i] \in Cuts(x, S)
    BY <1>3
  <2>2. Len(F[i].ids) \in 1 .. Len(s) /\ OneWhole(x, rupture, F[i].ids)
    BY <1>3 DEF Wholes
  <2> QED BY <1>1, <1>4, <2>1, <2>2
<1>6. DOMAIN G = 1 .. Len(F) /\ \A i \in 1 .. Len(F) : G[i] = F[i].ids
  OBVIOUS
<1> HIDE DEF G
<1>7. ASSUME NEW id \in S
      PROVE  \E i \in 1 .. Len(F) : \E j \in DOMAIN F[i].ids : F[i].ids[j] = id
  <2>1. PICK k \in 1 .. Len(s) : s[k] = id
    BY <1>2
  <2>2. PICK i \in DOMAIN G : \E j \in DOMAIN G[i] : G[i][j] = s[k]
    BY <1>3 DEF Covers
  <2> QED BY <1>6, <2>1, <2>2
<1>8. ASSUME NEW i \in 1 .. Len(F), NEW h \in 1 .. Len(F), NEW j \in DOMAIN F[i].ids,
             NEW l \in DOMAIN F[h].ids, F[i].ids[j] = F[h].ids[l]
      PROVE  i = h /\ j = l
  <2>1. /\ i \in DOMAIN G /\ h \in DOMAIN G /\ j \in DOMAIN G[i] /\ l \in DOMAIN G[h]
        /\ G[i][j] = G[h][l]
    BY <1>6, <1>8
  <2> QED BY <1>3, <2>1 DEF Covers
<1>9. OnePass(x, n, S, rupture, F)
  BY <1>3, <1>5, <1>7, <1>8 DEF OnePass
<1> QED BY <1>9 DEF F, s

\* The two passes, one after the other: no message is in both.
TwoPasses(x, n, roots, fragments) ==
  /\ DOMAIN fragments = 1 .. Len(fragments)
  /\ \A i \in 1 .. Len(fragments) :
       LET ids == fragments[i].ids
       IN  /\ ids \in Seq(1 .. n) /\ Len(ids) \in 1 .. n /\ fragments[i].text = Text(x, ids)
           /\ \/ ids \in Seq(InThreads(x, roots)) /\ OneWhole(x, "thread", ids)
              \/ OneWhole(x, "window", ids)
  /\ \A id \in 1 .. n : \E i \in 1 .. Len(fragments) : \E j \in DOMAIN fragments[i].ids :
       fragments[i].ids[j] = id
  /\ \A i, h \in 1 .. Len(fragments) :
       \A j \in DOMAIN fragments[i].ids, l \in DOMAIN fragments[h].ids :
         fragments[i].ids[j] = fragments[h].ids[l] => i = h /\ j = l

LEMMA TwoPassesOf ==
  ASSUME NEW x, NEW n, Numbered(x, n), NEW roots
  PROVE  TwoPasses(x, n, roots, ThreadFragments(x, roots) \o WindowFragments(x, roots))
<1> DEFINE S == InThreads(x, roots)
           T == Alone(x, roots)
           F == ThreadFragments(x, roots)
           H == WindowFragments(x, roots)
           fr == F \o H
<1>0. n \in Nat
  BY DEF Numbered
<1>1. S \in SUBSET (1 .. n) /\ T \in SUBSET (1 .. n) /\ S \cap T = {} /\ S \cup T = 1 .. n
  BY DEF InThreads, Alone, Numbered
<1>2. OnePass(x, n, S, "thread", F)
  <2> DEFINE key == [id \in S |-> ThreadOf(x, id)]
  <2>1. \A id \in S : key[id] \in Nat
    BY <1>1 DEF Numbered
  <2>2. F = Cut(x, Ordered(key, S), "thread")
    BY DEF ThreadFragments, ByThread
  <2> HIDE DEF key, S, F
  <2> QED BY <1>1, <2>1, <2>2, OnePassOf
<1>3. OnePass(x, n, T, "window", H)
  <2> DEFINE key == [id \in T |-> x.posts[id].ch]
  <2>1. \A id \in T : key[id] \in Nat
    BY <1>1 DEF Numbered
  <2>2. H = Cut(x, Ordered(key, T), "window")
    BY DEF WindowFragments, ByChannel
  <2> HIDE DEF key, T, H
  <2> QED BY <1>1, <2>1, <2>2, OnePassOf
<1> HIDE DEF S, T, F, H
<1> DEFINE f == Len(F)
           h == Len(H)
<1>4. F \in Seq(Cuts(x, S)) /\ H \in Seq(Cuts(x, T)) /\ f \in Nat /\ h \in Nat
  BY <1>2, <1>3 DEF OnePass
<1>5. /\ Len(fr) = f + h /\ DOMAIN fr = 1 .. Len(fr)
      /\ \A i \in 1 .. f : fr[i] = F[i]
      /\ \A i \in 1 .. h : fr[f + i] = H[i]
  <2> DEFINE C == Cuts(x, S) \cup Cuts(x, T)
  <2>1. F \in Seq(C) /\ H \in Seq(C)
    BY <1>4
  <2> HIDE DEF C
  <2> QED BY <2>1
<1> HIDE DEF fr
<1>6. \A i \in 1 .. Len(fr) : i \in 1 .. f \/ \E k \in 1 .. h : i = f + k
  <2>1. ASSUME NEW i \in 1 .. Len(fr), i \notin 1 .. f PROVE i - f \in 1 .. h /\ i = f + (i - f)
    <3> HIDE DEF f, h
    <3> QED BY <1>4, <1>5, <2>1
  <2> QED BY <2>1
<1>7. /\ \A i \in 1 .. f : /\ F[i] \in Cuts(x, S) /\ Len(F[i].ids) \in 1 .. n
                           /\ OneWhole(x, "thread", F[i].ids)
      /\ \A id \in S : \E i \in 1 .. f : \E j \in DOMAIN F[i].ids : F[i].ids[j] = id
      /\ \A i, k \in 1 .. f : \A j \in DOMAIN F[i].ids, l \in DOMAIN F[k].ids :
           F[i].ids[j] = F[k].ids[l] => i = k /\ j = l
  BY <1>2 DEF OnePass
<1>8. /\ \A i \in 1 .. h : /\ H[i] \in Cuts(x, T) /\ Len(H[i].ids) \in 1 .. n
                           /\ OneWhole(x, "window", H[i].ids)
      /\ \A id \in T : \E i \in 1 .. h : \E j \in DOMAIN H[i].ids : H[i].ids[j] = id
      /\ \A i, k \in 1 .. h : \A j \in DOMAIN H[i].ids, l \in DOMAIN H[k].ids :
           H[i].ids[j] = H[k].ids[l] => i = k /\ j = l
  BY <1>3 DEF OnePass
<1> HIDE DEF f, h
<1>9. /\ \A i \in 1 .. f : i \in 1 .. Len(fr)
      /\ \A i \in 1 .. h : f + i \in 1 .. Len(fr)
  BY <1>4, <1>5
<1>10. /\ \A i \in 1 .. f : F[i].ids \in Seq(S) /\ \A j \in DOMAIN F[i].ids : F[i].ids[j] \in S
       /\ \A i \in 1 .. h : H[i].ids \in Seq(T) /\ \A j \in DOMAIN H[i].ids : H[i].ids[j] \in T
  <2>1. ASSUME NEW i \in 1 .. f
        PROVE  F[i].ids \in Seq(S) /\ \A j \in DOMAIN F[i].ids : F[i].ids[j] \in S
    <3>1. F[i].ids \in Seq(S)
      BY <1>7, OfACut
    <3> QED BY <3>1
  <2>2. ASSUME NEW i \in 1 .. h
        PROVE  H[i].ids \in Seq(T) /\ \A j \in DOMAIN H[i].ids : H[i].ids[j] \in T
    <3>1. H[i].ids \in Seq(T)
      BY <1>8, OfACut
    <3> QED BY <3>1
  <2> QED BY <2>1, <2>2
<1>11. ASSUME NEW i \in 1 .. Len(fr)
       PROVE  /\ fr[i].ids \in Seq(1 .. n) /\ Len(fr[i].ids) \in 1 .. n
              /\ fr[i].text = Text(x, fr[i].ids)
              /\ \/ fr[i].ids \in Seq(S) /\ OneWhole(x, "thread", fr[i].ids)
                 \/ OneWhole(x, "window", fr[i].ids)
  <2>1. CASE i \in 1 .. f
    <3>1. fr[i] = F[i] /\ fr[i] \in Cuts(x, S)
      BY <1>5, <1>7, <2>1
    <3>2. fr[i].ids \in Seq(S) /\ fr[i].text = Text(x, fr[i].ids)
      BY <3>1, OfACut
    <3>3. fr[i].ids \in Seq(1 .. n)
      BY <1>1, <3>2, SequencesOfMore
    <3> QED BY <1>7, <2>1, <3>1, <3>2, <3>3
  <2>2. CASE \E k \in 1 .. h : i = f + k
    <3>1. PICK k \in 1 .. h : i = f + k
      BY <2>2
    <3>2. fr[i] = H[k] /\ fr[i] \in Cuts(x, T)
      BY <1>5, <1>8, <3>1
    <3>3. fr[i].ids \in Seq(T) /\ fr[i].text = Text(x, fr[i].ids)
      BY <3>2, OfACut
    <3>4. fr[i].ids \in Seq(1 .. n)
      BY <1>1, <3>3, SequencesOfMore
    <3> QED BY <1>8, <3>2, <3>3, <3>4
  <2> QED BY <1>6, <2>1, <2>2
<1>12. ASSUME NEW id \in 1 .. n
       PROVE  \E i \in 1 .. Len(fr) : \E j \in DOMAIN fr[i].ids : fr[i].ids[j] = id
  <2>1. CASE id \in S
    <3>1. PICK i \in 1 .. f : \E j \in DOMAIN F[i].ids : F[i].ids[j] = id
      BY <1>7, <2>1
    <3> QED BY <1>5, <1>9, <3>1
  <2>2. CASE id \in T
    <3>1. PICK i \in 1 .. h : \E j \in DOMAIN H[i].ids : H[i].ids[j] = id
      BY <1>8, <2>2
    <3>2. f + i \in 1 .. Len(fr) /\ fr[f + i] = H[i]
      BY <1>5, <1>9
    <3> QED BY <3>1, <3>2
  <2> QED BY <1>1, <2>1, <2>2
<1>13. ASSUME NEW i \in 1 .. Len(fr), NEW k \in 1 .. Len(fr), NEW j \in DOMAIN fr[i].ids,
              NEW l \in DOMAIN fr[k].ids, fr[i].ids[j] = fr[k].ids[l]
       PROVE  i = k /\ j = l
  <2> DEFINE InF(u) == /\ u \in 1 .. f /\ fr[u] = F[u]
                       /\ \A w \in DOMAIN fr[u].ids : fr[u].ids[w] \in S
             InH(u) == \E v \in 1 .. h : /\ u = f + v /\ fr[u] = H[v]
                                         /\ \A w \in DOMAIN fr[u].ids : fr[u].ids[w] \in T
             Fi == InF(i)
             Fk == InF(k)
             Hi == InH(i)
             Hk == InH(k)
  <2>1. ASSUME NEW u \in 1 .. Len(fr) PROVE InF(u) \/ InH(u)
    <3>1. CASE u \in 1 .. f
      BY <1>5, <1>10, <3>1
    <3>2. CASE \E v \in 1 .. h : u = f + v
      BY <1>5, <1>10, <3>2
    <3> QED BY <1>6, <3>1, <3>2
  <2>2. CASE Fi /\ Fk
    BY <1>7, <1>13, <2>2
  <2>3. CASE Hi /\ Hk
    <3>1. PICK u \in 1 .. h : i = f + u /\ fr[i] = H[u]
      BY <2>3
    <3>2. PICK v \in 1 .. h : k = f + v /\ fr[k] = H[v]
      BY <2>3
    <3>3. u = v /\ j = l
      BY <1>8, <1>13, <3>1, <3>2
    <3> QED BY <3>1, <3>2, <3>3
  <2>4. CASE (Fi /\ Hk) \/ (Hi /\ Fk)
    <3>1. (fr[i].ids[j] \in S /\ fr[k].ids[l] \in T) \/ (fr[i].ids[j] \in T /\ fr[k].ids[l] \in S)
      BY <2>4
    <3> QED BY <1>1, <1>13, <3>1
  <2>5. (Fi \/ Hi) /\ (Fk \/ Hk)
    BY <2>1
  <2> HIDE DEF Fi, Fk, Hi, Hk
  <2> QED BY <2>2, <2>3, <2>4, <2>5
<1>14. TwoPasses(x, n, roots, fr)
  BY <1>5, <1>11, <1>12, <1>13 DEF TwoPasses, S
<1> QED BY <1>14 DEF fr, F, H

(*------------------------ fragments and their index ----------------------*)
\* The index that a store opens with: its fingerprint is that of the build of
\* A from which the roots were read, k steps far; the messages were read m steps
\* far; the index in place is a build of B that has every table.
OpensWith(A, B, k, m, z) ==
  /\ WellFormed(A) /\ WellFormed(B)
  /\ k \in 1 .. Finished /\ m \in 1 .. Finished /\ k <= m /\ z \in 0 .. Finished /\ z >= 7
  /\ Fingerprint(Index(A, k)) = Fingerprint(Index(B, z))
  /\ \E p \in Kept(B) : p.words # {}
  /\ \A p \in A.posts, q \in B.posts :
       p.pid = q.pid =>
         /\ p.at = q.at /\ p.ch = q.ch /\ p.root = q.root
         /\ UserNames(A.users) = UserNames(B.users) => UserId(A, p.by) = UserId(B, q.by)

LEMMA FingerprintsAgree ==
  ASSUME NEW x, NEW y, Fingerprint(x) = Fingerprint(y)
  PROVE  /\ DOMAIN x.posts = DOMAIN y.posts
         /\ \A r \in DOMAIN x.posts : x.posts[r].pid = y.posts[r].pid
                                      /\ x.posts[r].words = y.posts[r].words
         /\ UserNames(x.users) = UserNames(y.users) /\ x.channels = y.channels
<1> DEFINE P(w) == [r \in DOMAIN w.posts |-> w.posts[r].pid]
           W(w) == [r \in DOMAIN w.posts |-> w.posts[r].words]
<1>1. P(x) = P(y) /\ W(x) = W(y) /\ UserNames(x.users) = UserNames(y.users)
      /\ x.channels = y.channels
  BY DEF Fingerprint
<1>2. DOMAIN x.posts = DOMAIN y.posts
  <2>1. DOMAIN P(x) = DOMAIN x.posts /\ DOMAIN P(y) = DOMAIN y.posts
    OBVIOUS
  <2> HIDE DEF P
  <2> QED BY <1>1, <2>1
<1>3. ASSUME NEW r \in DOMAIN x.posts
      PROVE  x.posts[r].pid = y.posts[r].pid /\ x.posts[r].words = y.posts[r].words
  <2>1. P(x)[r] = x.posts[r].pid /\ P(y)[r] = y.posts[r].pid
        /\ W(x)[r] = x.posts[r].words /\ W(y)[r] = y.posts[r].words
    BY <1>2
  <2> HIDE DEF P, W
  <2> QED BY <1>1, <2>1
<1> QED BY <1>1, <1>2, <1>3

\* The roots were only read after the texts: before, no message says anything.
LEMMA TextsWereThere ==
  ASSUME NEW A, NEW B, NEW k, NEW m, NEW z, OpensWith(A, B, k, m, z)
  PROVE  k >= 4 /\ Cardinality(Kept(A)) = Cardinality(Kept(B))
<1> DEFINE x == Index(A, k)
           y == Index(B, z)
<1>0. /\ WellFormed(A) /\ WellFormed(B) /\ Finished = 10
      /\ k \in 0 .. Finished /\ z \in 0 .. Finished /\ z >= 7 /\ z >= 3
  BY DEF OpensWith, Finished, Steps
<1>1. /\ DOMAIN x.posts = DOMAIN y.posts
      /\ \A r \in DOMAIN x.posts : x.posts[r].words = y.posts[r].words
  BY FingerprintsAgree DEF OpensWith
<1>2. PICK p \in Kept(B) : p.words # {}
  BY DEF OpensWith
<1>3. PICK r \in DOMAIN y.posts : y.posts[r].words = p.words
  <2> DEFINE r == RowId(B, p)
  <2>1. r \in DOMAIN y.posts /\ y.posts[r] = Row(B, z, p)
    BY <1>0, RowsOfAnIndex
  <2>2. After(z, "texts")
    BY <1>0, StepsInOrder
  <2> HIDE DEF r, y
  <2>3. y.posts[r].words = p.words
    BY <2>1, <2>2 DEF Row
  <2> QED BY <2>1, <2>3
<1>4. x.posts[r].words # {} /\ r \in DOMAIN x.posts
  BY <1>1, <1>2, <1>3
<1>5. After(k, "numbered")
  <2>1. ~ After(k, "numbered") => x.posts = <<>>
    BY DEF Index
  <2>2. DOMAIN <<>> = {}
    OBVIOUS
  <2> HIDE DEF x
  <2> QED BY <1>4, <2>1, <2>2
<1>6. k >= 3
  BY <1>0, <1>5, StepsInOrder
<1>7. /\ DOMAIN x.posts = 1 .. Cardinality(Kept(A)) /\ Len(x.posts) = Cardinality(Kept(A))
      /\ \A s \in 1 .. Cardinality(Kept(A)) : x.posts[s] = Row(A, k, MessageOf(A, s))
  BY <1>0, <1>6, RowsOfAnIndex
<1>8. After(k, "texts")
  <2>1. x.posts[r] = Row(A, k, MessageOf(A, r))
    BY <1>4, <1>7
  <2> HIDE DEF x
  <2> QED BY <1>4, <2>1 DEF Row
<1>9. DOMAIN y.posts = 1 .. Cardinality(Kept(B))
  BY <1>0, RowsOfAnIndex
<1>10. Cardinality(Kept(A)) = Cardinality(Kept(B))
  <2> DEFINE a == Cardinality(Kept(A))
             b == Cardinality(Kept(B))
  <2>1. a \in Nat /\ b \in Nat
    BY <1>0, KeptIsFinite
  <2>2. 1 .. a = 1 .. b
    BY <1>1, <1>7, <1>9
  <2> HIDE DEF a, b
  <2>3. a = b
    <3>1. a > b => a \in 1 .. a /\ a \notin 1 .. b
      BY <2>1
    <3>2. b > a => b \in 1 .. b /\ b \notin 1 .. a
      BY <2>1
    <3> QED BY <2>1, <2>2, <3>1, <3>2
  <2> QED BY <2>3 DEF a, b
<1> QED BY <1>0, <1>8, <1>10, StepsInOrder

\* The same row holds the same message in both archives.
SameMessage(A, B, p, q) ==
  /\ p.pid = q.pid /\ p.words = q.words /\ p.at = q.at /\ p.ch = q.ch /\ p.root = q.root
  /\ UserId(A, p.by) = UserId(B, q.by)
SameMessages(A, B) ==
  /\ A.channels = B.channels /\ UserNames(A.users) = UserNames(B.users)
  /\ \A r \in 1 .. Cardinality(Kept(A)) :
       /\ MessageOf(A, r) \in Kept(A) /\ RowId(A, MessageOf(A, r)) = r
       /\ MessageOf(B, r) \in Kept(B) /\ RowId(B, MessageOf(B, r)) = r
       /\ SameMessage(A, B, MessageOf(A, r), MessageOf(B, r))

LEMMA RowsAreTheSame ==
  ASSUME NEW A, NEW B, NEW k, NEW m, NEW z, OpensWith(A, B, k, m, z)
  PROVE  SameMessages(A, B)
<1> DEFINE x == Index(A, k)
           y == Index(B, z)
           n == Cardinality(Kept(A))
<1>0. /\ WellFormed(A) /\ WellFormed(B) /\ Finished = 10
      /\ k \in 0 .. Finished /\ z \in 0 .. Finished /\ z >= 7 /\ z >= 3
      /\ k >= 4 /\ k >= 3 /\ n = Cardinality(Kept(B))
  <2>1. k >= 4 /\ n = Cardinality(Kept(B))
    BY TextsWereThere
  <2>2. /\ WellFormed(A) /\ WellFormed(B) /\ Finished = 10
        /\ k \in 0 .. Finished /\ z \in 0 .. Finished /\ z >= 7 /\ z >= 3
    BY DEF OpensWith, Finished, Steps
  <2> QED BY <2>1, <2>2
<1>1. /\ DOMAIN x.posts = DOMAIN y.posts
      /\ \A r \in DOMAIN x.posts : x.posts[r].pid = y.posts[r].pid
                                   /\ x.posts[r].words = y.posts[r].words
      /\ UserNames(x.users) = UserNames(y.users) /\ x.channels = y.channels
  BY FingerprintsAgree DEF OpensWith
<1>2. After(k, "texts") /\ After(k, "referentials") /\ After(z, "texts") /\ After(z, "referentials")
  BY <1>0, StepsInOrder
<1>3. x.users = A.users /\ x.channels = A.channels /\ y.users = B.users /\ y.channels = B.channels
  BY <1>2 DEF Index
<1>4. /\ DOMAIN x.posts = 1 .. n
      /\ \A r \in 1 .. n : x.posts[r] = Row(A, k, MessageOf(A, r))
      /\ \A r \in 1 .. n : y.posts[r] = Row(B, z, MessageOf(B, r))
  BY <1>0, RowsOfAnIndex
<1> HIDE DEF x, y, n
<1>5. ASSUME NEW r \in 1 .. n
      PROVE  /\ MessageOf(A, r) \in Kept(A) /\ RowId(A, MessageOf(A, r)) = r
             /\ MessageOf(B, r) \in Kept(B) /\ RowId(B, MessageOf(B, r)) = r
             /\ SameMessage(A, B, MessageOf(A, r), MessageOf(B, r))
  <2> DEFINE p == MessageOf(A, r)
             q == MessageOf(B, r)
  <2>1. p \in Kept(A) /\ RowId(A, p) = r /\ q \in Kept(B) /\ RowId(B, q) = r
    BY <1>0, EveryNumberHasItsMessage DEF n
  <2>2. x.posts[r].pid = y.posts[r].pid /\ x.posts[r].words = y.posts[r].words
        /\ x.posts[r] = Row(A, k, p) /\ y.posts[r] = Row(B, z, q)
    BY <1>1, <1>4
  <2> HIDE DEF p, q
  <2>3. p.pid = q.pid /\ p.words = q.words
    BY <1>2, <2>2 DEF Row
  <2>4. p \in A.posts /\ q \in B.posts
    BY <2>1 DEF Kept
  <2>5. UserNames(A.users) = UserNames(B.users)
    BY <1>1, <1>3
  <2>6. p.at = q.at /\ p.ch = q.ch /\ p.root = q.root /\ UserId(A, p.by) = UserId(B, q.by)
    BY <2>3, <2>4, <2>5 DEF OpensWith
  <2> QED BY <2>1, <2>3, <2>6 DEF SameMessage, p, q
<1> QED BY <1>1, <1>3, <1>5 DEF SameMessages, n

\* So that it answers the same message.
LEMMA SameRoots ==
  ASSUME NEW A, NEW B, WellFormed(A), WellFormed(B), SameMessages(A, B),
         Cardinality(Kept(A)) = Cardinality(Kept(B)), NEW pid
  PROVE  RowOf(A, pid) = RowOf(B, pid) /\ RowOf(A, pid) \in Nat
<1> DEFINE n == Cardinality(Kept(A))
<1>1. ASSUME NEW p \in Kept(A), p.pid = pid
      PROVE  RowOf(A, pid) = RowOf(B, pid) /\ RowOf(A, pid) \in Nat
  <2> DEFINE r == RowId(A, p)
             q == MessageOf(B, r)
  <2>1. r \in 1 .. n /\ MessageOf(A, r) = p
    BY NumbersAreInRange, EveryNumberHasItsMessage
  <2>2. q \in Kept(B) /\ RowId(B, q) = r /\ q.pid = pid
    BY <1>1, <2>1 DEF SameMessages, SameMessage
  <2> HIDE DEF r, q
  <2>3. RowOf(A, pid) = r /\ RowOf(B, pid) = r
    BY <1>1, <2>2, RowOfAnIdentifier DEF r
  <2> QED BY <2>1, <2>3
<1>2. ASSUME NEW q \in Kept(B), q.pid = pid PROVE \E p \in Kept(A) : p.pid = pid
  <2> DEFINE r == RowId(B, q)
  <2>1. r \in 1 .. n /\ MessageOf(B, r) = q
    BY NumbersAreInRange, EveryNumberHasItsMessage
  <2>2. MessageOf(A, r) \in Kept(A) /\ MessageOf(A, r).pid = pid
    BY <1>2, <2>1 DEF SameMessages, SameMessage
  <2> QED BY <2>2
<1>3. CASE ~ \E p \in Kept(A) : p.pid = pid
  <2>1. RowOf(A, pid) = 0 /\ RowOf(B, pid) = 0
    BY <1>2, <1>3 DEF RowOf
  <2> QED BY <2>1
<1> QED BY <1>1, <1>3

\* Accounts of the same names.
LEMMA SameAccounts ==
  ASSUME NEW s, NEW t, UserNames(s) = UserNames(t)
  PROVE  DOMAIN s = DOMAIN t /\ \A i \in DOMAIN s : s[i].name = t[i].name
<1>1. UserNames(s) = [i \in DOMAIN s |-> s[i].name] /\ UserNames(t) = [i \in DOMAIN t |-> t[i].name]
  BY DEF UserNames
<1>2. DOMAIN UserNames(s) = DOMAIN s /\ DOMAIN UserNames(t) = DOMAIN t
  BY <1>1
<1>3. ASSUME NEW i \in DOMAIN s PROVE s[i].name = t[i].name
  <2>1. UserNames(s)[i] = s[i].name /\ UserNames(t)[i] = t[i].name
    BY <1>1, <1>2
  <2> QED BY <2>1
<1> QED BY <1>2, <1>3

LEMMA AccountOf ==
  ASSUME NEW a, NEW uid, UserId(a, uid) # 0
  PROVE  UserId(a, uid) \in DOMAIN a.users
<1> DEFINE s == [i \in DOMAIN a.users |-> a.users[i].uid]
<1>1. UserId(a, uid) = Position(s, uid) /\ DOMAIN s = DOMAIN a.users
  BY DEF UserId
<1> HIDE DEF s
<1>2. PICK i \in DOMAIN s : s[i] = uid
  BY <1>1 DEF Position
<1>3. Position(s, uid) \in DOMAIN s
  BY <1>2 DEF Position
<1> QED BY <1>1, <1>3

LEMMA ChannelOf ==
  ASSUME NEW a, WellFormed(a), NEW name
  PROVE  Position(a.channels, name) \in Nat
<1>1. \A i \in DOMAIN a.channels : i \in Nat
  BY DEF WellFormed
<1> QED BY <1>1 DEF Position

\* What the fragments were cut from says, orders and cuts as the index in place.
SameAnswers(x, y, n, roots) ==
  /\ n \in Nat /\ DOMAIN y.posts = 1 .. n /\ Len(y.posts) = n
  /\ \A r \in 1 .. n : /\ x.posts[r].at = y.posts[r].at /\ x.posts[r].ch = y.posts[r].ch
                       /\ Line(x, r) = Line(y, r)
  /\ \/ \A r \in 1 .. n : ThreadOf(x, r) = ThreadOf(y, r)
     \/ roots = {} /\ \A r \in 1 .. n : x.posts[r].root = 0

LEMMA MessagesAgree ==
  ASSUME NEW A, NEW B, NEW k, NEW m, NEW z, OpensWith(A, B, k, m, z)
  PROVE  /\ Numbered(Index(A, m), Cardinality(Kept(A)))
         /\ SameAnswers(Index(A, m), Index(B, z), Cardinality(Kept(A)), Roots(Index(A, k)))
<1> DEFINE x == Index(A, m)
           y == Index(B, z)
           n == Cardinality(Kept(A))
<1>0. /\ WellFormed(A) /\ WellFormed(B) /\ Finished = 10
      /\ k \in 0 .. Finished /\ m \in 0 .. Finished /\ z \in 0 .. Finished /\ z >= 7 /\ k <= m
  BY DEF OpensWith, Finished, Steps
<1>1. k >= 4 /\ n = Cardinality(Kept(B)) /\ n \in Nat
  BY <1>0, TextsWereThere, KeptIsFinite
<1>2. SameMessages(A, B)
  BY RowsAreTheSame
<1>3. m >= 4 /\ m >= 3 /\ z >= 3 /\ k >= 3 /\ z >= 2 /\ m >= 2
  BY <1>0, <1>1
<1>4. After(m, "texts") /\ After(m, "referentials") /\ After(z, "texts") /\ After(z, "referentials")
      /\ After(z, "threads")
  <2>1. z >= 4 /\ z >= 5
    BY <1>0
  <2> QED BY <1>0, <1>3, <2>1, StepsInOrder
<1>5. x.users = A.users /\ y.users = B.users
  BY <1>4 DEF Index
<1>6. /\ DOMAIN x.posts = 1 .. n /\ DOMAIN y.posts = 1 .. n /\ Len(y.posts) = n
      /\ \A r \in 1 .. n : x.posts[r] = Row(A, m, MessageOf(A, r))
      /\ \A r \in 1 .. n : y.posts[r] = Row(B, z, MessageOf(B, r))
  BY <1>0, <1>1, <1>3, RowsOfAnIndex
<1>a. \A r \in 1 .. n : Index(A, k).posts[r] = Row(A, k, MessageOf(A, r))
  BY <1>0, <1>3, RowsOfAnIndex
<1>b. DOMAIN Index(A, k).posts = 1 .. n
  BY <1>0, <1>3, RowsOfAnIndex
<1> HIDE DEF x, y, n
<1>7. ASSUME NEW r \in 1 .. n
      PROVE  /\ x.posts[r].at = y.posts[r].at /\ x.posts[r].at \in Int
             /\ x.posts[r].ch = y.posts[r].ch /\ x.posts[r].ch \in Nat
             /\ Line(x, r) = Line(y, r)
             /\ x.posts[r].root \in Nat
             /\ After(m, "threads") => x.posts[r].root = y.posts[r].root
             /\ ~ After(m, "threads") => x.posts[r].root = 0
             /\ r \in Nat
  <2> DEFINE p == MessageOf(A, r)
             q == MessageOf(B, r)
             u == UserId(A, p.by)
  <2>1. p \in Kept(A) /\ q \in Kept(B) /\ p.pid = q.pid /\ p.words = q.words /\ p.at = q.at
        /\ p.ch = q.ch /\ p.root = q.root /\ u = UserId(B, q.by)
        /\ A.channels = B.channels /\ UserNames(A.users) = UserNames(B.users)
    BY <1>2 DEF SameMessages, SameMessage, n
  <2>2. x.posts[r] = Row(A, m, p) /\ y.posts[r] = Row(B, z, q)
    BY <1>6
  <2> HIDE DEF p, q
  <2>3. x.posts[r].at = p.at /\ y.posts[r].at = q.at /\ p.at \in Int
    BY <1>0, <2>1, <2>2 DEF Row, Kept, WellFormed
  <2>4. x.posts[r].ch = y.posts[r].ch /\ x.posts[r].ch \in Nat
    <3>1. x.posts[r].ch = Position(A.channels, p.ch) /\ y.posts[r].ch = Position(B.channels, q.ch)
      BY <2>2 DEF Row
    <3> QED BY <1>0, <2>1, <3>1, ChannelOf
  <2>5. x.posts[r].usr = u /\ y.posts[r].usr = u /\ x.posts[r].words = y.posts[r].words
    BY <1>4, <2>1, <2>2 DEF Row
  <2>6. UserName(x, u) = UserName(y, u)
    <3>1. CASE u = 0
      BY <3>1 DEF UserName
    <3>2. CASE u # 0
      <4>1. u \in DOMAIN A.users
        BY <3>2, AccountOf
      <4> HIDE DEF u
      <4>2. A.users[u].name = B.users[u].name
        BY <2>1, <4>1, SameAccounts
      <4> QED BY <1>5, <4>2 DEF UserName
    <3> QED BY <3>1, <3>2
  <2> HIDE DEF u
  <2>7. Line(x, r) = Line(y, r)
    BY <2>5, <2>6 DEF Line
  <2>8. RowOf(A, p.root) = RowOf(B, q.root) /\ RowOf(A, p.root) \in Nat
    BY <1>0, <1>1, <1>2, <2>1, SameRoots DEF n
  <2>9. /\ x.posts[r].root = IF After(m, "threads") /\ p.root # 0 THEN RowOf(A, p.root) ELSE 0
        /\ y.posts[r].root = IF q.root # 0 THEN RowOf(B, q.root) ELSE 0
    BY <1>4, <2>2 DEF Row
  <2>10. r \in Nat
    BY <1>1
  <2> QED BY <2>1, <2>3, <2>4, <2>7, <2>8, <2>9, <2>10
<1>8. ASSUME NEW r \in 1 .. n PROVE ThreadOf(x, r) \in Nat
  BY <1>7 DEF ThreadOf
<1>9. Numbered(x, n)
  BY <1>1, <1>6, <1>7, <1>8 DEF Numbered
<1>10. After(m, "threads") => \A r \in 1 .. n : ThreadOf(x, r) = ThreadOf(y, r)
  BY <1>7 DEF ThreadOf
<1>11. ASSUME ~ After(m, "threads")
       PROVE  Roots(Index(A, k)) = {} /\ \A r \in 1 .. n : x.posts[r].root = 0
  <2>1. ~ After(k, "threads")
    <3>1. ~ (m >= 5)
      BY <1>0, <1>11, StepsInOrder
    <3>2. ~ (k >= 5)
      BY <1>0, <3>1
    <3> QED BY <1>0, <3>2, StepsInOrder
  <2>2. \A r \in 1 .. n : x.posts[r].root = 0
    BY <1>7, <1>11
  <2> DEFINE w == Index(A, k)
  <2>3. ASSUME NEW r \in 1 .. n PROVE w.posts[r].root = 0
    <3> DEFINE p == MessageOf(A, r)
    <3>1. w.posts[r] = Row(A, k, p)
      BY <1>a
    <3> HIDE DEF p, w
    <3> QED BY <2>1, <3>1 DEF Row
  <2>4. DOMAIN w.posts = 1 .. n
    BY <1>b
  <2> HIDE DEF w
  <2>5. Roots(w) = {}
    BY <2>3, <2>4 DEF Roots
  <2> QED BY <2>2, <2>5 DEF w
<1>12. SameAnswers(x, y, n, Roots(Index(A, k)))
  BY <1>1, <1>6, <1>7, <1>10, <1>11 DEF SameAnswers
<1> QED BY <1>9, <1>12 DEF x, y, n

LEMMA TextsAgree ==
  ASSUME NEW x, NEW y, NEW n, NEW roots, SameAnswers(x, y, n, roots), NEW ids \in Seq(1 .. n)
  PROVE  Text(x, ids) = Text(y, ids)
<1>1. \A i \in DOMAIN ids : Line(x, ids[i]) = Line(y, ids[i])
  BY DEF SameAnswers
<1> QED BY <1>1 DEF Text

LEMMA WholesAgree ==
  ASSUME NEW x, NEW y, NEW n, NEW roots, SameAnswers(x, y, n, roots), NEW ids \in Seq(1 .. n),
         Len(ids) \in 1 .. n,
         \/ ids \in Seq(InThreads(x, roots)) /\ OneWhole(x, "thread", ids)
         \/ OneWhole(x, "window", ids)
  PROVE  /\ Len(ids) = 1 \/ ~(Size(Text(y, ids)) > MaxChars)
         /\ \/ \A j \in DOMAIN ids : ThreadOf(y, ids[j]) = ThreadOf(y, ids[1])
            \/ /\ Len(ids) <= MaxMessages
               /\ \A j \in 2 .. Len(ids) :
                    /\ y.posts[ids[j]].ch = y.posts[ids[1]].ch
                    /\ y.posts[ids[j]].at - y.posts[ids[j - 1]].at <= Gap
<1>0. Text(x, ids) = Text(y, ids) /\ n \in Nat
  BY TextsAgree DEF SameAnswers
<1>1. Len(ids) = 1 \/ ~(Size(Text(y, ids)) > MaxChars)
  BY <1>0 DEF OneWhole
<1>2. /\ Len(ids) \in Nat \ {0} /\ DOMAIN ids = 1 .. Len(ids)
      /\ \A j \in 1 .. Len(ids) : ids[j] \in 1 .. n
  <2> DEFINE P == 1 .. n
  <2>1. ids \in Seq(P)
    OBVIOUS
  <2>2. Len(ids) # 0
    BY <1>0
  <2> HIDE DEF P
  <2>3. Len(ids) \in Nat /\ DOMAIN ids = 1 .. Len(ids) /\ \A j \in 1 .. Len(ids) : ids[j] \in P
    BY <2>1
  <2> QED BY <2>2, <2>3 DEF P
<1>3. CASE ids \in Seq(InThreads(x, roots)) /\ OneWhole(x, "thread", ids)
  <2>1. \A j \in 1 .. Len(ids) : ids[j] \in InThreads(x, roots)
    <3> DEFINE I == InThreads(x, roots)
    <3>1. ids \in Seq(I)
      BY <1>3
    <3> HIDE DEF I
    <3>2. \A j \in 1 .. Len(ids) : ids[j] \in I
      BY <3>1
    <3> QED BY <3>2 DEF I
  <2>2. 1 \in 1 .. Len(ids)
    BY <1>2
  <2>3. x.posts[ids[1]].root # 0 \/ roots # {}
    BY <2>1, <2>2 DEF InThreads
  <2>4. \A r \in 1 .. n : ThreadOf(x, r) = ThreadOf(y, r)
    BY <1>2, <2>2, <2>3 DEF SameAnswers
  <2>5. \A j \in 1 .. Len(ids) : ThreadOf(x, ids[j]) = ThreadOf(x, ids[1])
    BY <1>3 DEF OneWhole
  <2>6. \A j \in 1 .. Len(ids) : ThreadOf(y, ids[j]) = ThreadOf(y, ids[1])
    BY <1>2, <2>2, <2>4, <2>5
  <2> QED BY <1>1, <1>2, <2>6
<1>4. CASE OneWhole(x, "window", ids)
  <2>1. /\ Len(ids) <= MaxMessages
        /\ \A j \in 2 .. Len(ids) : /\ x.posts[ids[j]].ch = x.posts[ids[1]].ch
                                    /\ x.posts[ids[j]].at - x.posts[ids[j - 1]].at <= Gap
    BY <1>4 DEF OneWhole
  <2>2. ASSUME NEW j \in 2 .. Len(ids)
        PROVE  /\ y.posts[ids[j]].ch = y.posts[ids[1]].ch
               /\ y.posts[ids[j]].at - y.posts[ids[j - 1]].at <= Gap
    <3>1. j \in 1 .. Len(ids) /\ j - 1 \in 1 .. Len(ids) /\ 1 \in 1 .. Len(ids)
      BY <1>2
    <3>2. ids[j] \in 1 .. n /\ ids[j - 1] \in 1 .. n /\ ids[1] \in 1 .. n
      BY <1>2, <3>1
    <3> DEFINE b == ids[j]
               c == ids[j - 1]
    <3>3. x.posts[b].at = y.posts[b].at /\ x.posts[b].ch = y.posts[b].ch
          /\ x.posts[c].at = y.posts[c].at /\ x.posts[ids[1]].ch = y.posts[ids[1]].ch
      BY <3>2 DEF SameAnswers
    <3> QED BY <2>1, <3>3
  <2> QED BY <1>1, <2>1, <2>2
<1> QED BY <1>3, <1>4

\* A store that opens was cut from messages that say and order what the index
\* in place does.
LEMMA OpenedStoreAgrees ==
  ASSUME StoresAreCut, MessagesStay, SomethingIsSaid,
         Complete(store), HasFile(index), HasEveryTable(index.k), NEW y,
         y = Contents[index.of][index.k], Opens(store, y)
  PROVE  \E x, n, roots : SameAnswers(x, y, n, roots) /\ TwoPasses(x, n, roots, store.fragments)
<1>1. PICK a \in DOMAIN Archives, k \in 1 .. Finished, m \in 1 .. Finished :
        /\ k <= m
        /\ store.print = Fingerprint(Contents[a][k])
        /\ store.fragments = ThreadFragments(Contents[a][m], Roots(Contents[a][k]))
                               \o WindowFragments(Contents[a][m], Roots(Contents[a][k]))
  BY DEF StoresAreCut, IsStore
<1> DEFINE b == index.of
           z == index.k
           A == Archives[a]
           B == Archives[b]
<1>2. b \in DOMAIN Archives /\ z \in 0 .. Finished
  BY DEF StoresAreCut, IndexIsABuild, HasFile
<1>3. z >= 7 /\ Finished = 10
  BY <1>2, StepsInOrder DEF HasEveryTable, Finished, Steps
<1>4. /\ Contents[a][k] = Index(A, k) /\ Contents[a][m] = Index(A, m) /\ y = Index(B, z)
  <2>1. k \in 0 .. Finished /\ m \in 0 .. Finished
    BY <1>3
  <2> QED BY <1>2, <2>1 DEF Contents
<1>5. WellFormed(A) /\ WellFormed(B)
  BY <1>2, ArchivesAssumption
<1>6. \E p \in Kept(B) : p.words # {}
  BY <1>2 DEF SomethingIsSaid
<1>7. \A p \in A.posts, q \in B.posts :
        p.pid = q.pid =>
          /\ p.at = q.at /\ p.ch = q.ch /\ p.root = q.root
          /\ UserNames(A.users) = UserNames(B.users) => UserId(A, p.by) = UserId(B, q.by)
  BY <1>2 DEF MessagesStay
<1> DEFINE x == Index(A, m)
           n == Cardinality(Kept(A))
           roots == Roots(Index(A, k))
<1> HIDE DEF A, B, b, z
<1>8. Fingerprint(Index(A, k)) = Fingerprint(Index(B, z))
  BY <1>1, <1>4 DEF Opens
<1>9. OpensWith(A, B, k, m, z)
  BY <1>1, <1>2, <1>3, <1>5, <1>6, <1>7, <1>8 DEF OpensWith
<1>10. Numbered(x, n) /\ SameAnswers(x, y, n, roots)
  BY <1>4, <1>9, MessagesAgree
<1> HIDE DEF n
<1>11. TwoPasses(x, n, roots, ThreadFragments(x, roots) \o WindowFragments(x, roots))
  <2> HIDE DEF x, roots
  <2> QED BY <1>10, TwoPassesOf
<1>12. store.fragments = ThreadFragments(x, roots) \o WindowFragments(x, roots)
  BY <1>1, <1>4
<1>13. TwoPasses(x, n, roots, store.fragments)
  BY <1>11, <1>12
<1> HIDE DEF x, roots
<1> QED BY <1>10, <1>13

LEMMA CitationsAreRight ==
  ASSUME StoresAreCut, MessagesStay, SomethingIsSaid
  PROVE  CitedMessagesAreRight
<1> DEFINE y == Contents[index.of][index.k]
           fr == store.fragments
<1> SUFFICES ASSUME Complete(store), HasFile(index), HasEveryTable(index.k), Opens(store, y),
                    NEW i \in DOMAIN fr, NEW j \in DOMAIN fr[i].ids
             PROVE  fr[i].ids[j] \in DOMAIN y.posts /\ fr[i].text[j] = Line(y, fr[i].ids[j])
  BY DEF CitedMessagesAreRight
<1>1. \E x, n, roots : SameAnswers(x, y, n, roots) /\ TwoPasses(x, n, roots, fr)
  BY OpenedStoreAgrees
<1> HIDE DEF y, fr
<1>2. PICK x, n, roots : SameAnswers(x, y, n, roots) /\ TwoPasses(x, n, roots, fr)
  BY <1>1
<1> DEFINE ids == fr[i].ids
<1>3. ids \in Seq(1 .. n) /\ fr[i].text = Text(x, ids)
  BY <1>2 DEF TwoPasses
<1>4. fr[i].text = Text(y, ids)
  BY <1>2, <1>3, TextsAgree
<1>5. ids[j] \in 1 .. n
  <2> DEFINE P == 1 .. n
  <2>1. ids \in Seq(P) /\ j \in DOMAIN ids
    BY <1>3
  <2> HIDE DEF P, ids
  <2>2. ids[j] \in P
    BY <2>1
  <2> QED BY <2>2 DEF P
<1>6. fr[i].text[j] = Line(y, ids[j])
  BY <1>4 DEF Text
<1> QED BY <1>2, <1>5, <1>6 DEF SameAnswers

\* chunk-store.ts, chunk.ts, store-schema.ts: as long as a message keeps its date,
\* its channel and the message it answers from one extraction to the next, and
\* its author while the names of the accounts stay, every fragment of a store
\* that opens with the index in place cites what its messages say, under the
\* names of their authors, whatever was built, failed or rewritten in between.
THEOREM CitationsFollowTheIndex ==
  ASSUME MessagesStay, SomethingIsSaid
  PROVE  FilesSpec => []CitedMessagesAreRight
<1>1. StoresAreCut /\ [FilesNext]_filesVars => StoresAreCut'
  BY StoresStep
<1>2. StoresAreCut => CitedMessagesAreRight
  BY CitationsAreRight
<1> QED BY <1>1, <1>2, NoStoreAtFirst, PTL DEF FilesSpec

\* One place among those of the fragments.
LEMMA OnePlace ==
  ASSUME NEW P, NEW e \in P, \A p \in P : p = e
  PROVE  Cardinality(P) = 1
<1>1. P = {e}
  OBVIOUS
<1> QED BY <1>1, FS_Singleton

LEMMA FragmentsAreAPartition ==
  ASSUME StoresAreCut, MessagesStay, SomethingIsSaid
  PROVE  FragmentsPartition
<1> DEFINE y == Contents[index.of][index.k]
           fr == store.fragments
           places == {p \in (DOMAIN fr) \X (1 .. Len(y.posts)) : p[2] \in DOMAIN fr[p[1]].ids}
           Placed(id) == {p \in places : fr[p[1]].ids[p[2]] = id}
           Bounded(ids) ==
             /\ Len(ids) = 1 \/ ~(Size(Text(y, ids)) > MaxChars)
             /\ \/ \A j \in DOMAIN ids : ThreadOf(y, ids[j]) = ThreadOf(y, ids[1])
                \/ /\ Len(ids) <= MaxMessages
                   /\ \A j \in 2 .. Len(ids) :
                        /\ y.posts[ids[j]].ch = y.posts[ids[1]].ch
                        /\ y.posts[ids[j]].at - y.posts[ids[j - 1]].at <= Gap
<1> SUFFICES ASSUME Complete(store), HasFile(index), HasEveryTable(index.k), Opens(store, y)
             PROVE  /\ \A id \in DOMAIN y.posts : Cardinality(Placed(id)) = 1
                    /\ \A i \in DOMAIN fr : Bounded(fr[i].ids)
  BY DEF FragmentsPartition
<1>1. \E x, n, roots : SameAnswers(x, y, n, roots) /\ TwoPasses(x, n, roots, fr)
  BY OpenedStoreAgrees
<1> HIDE DEF y, fr
<1>2. PICK x, n, roots : SameAnswers(x, y, n, roots) /\ TwoPasses(x, n, roots, fr)
  BY <1>1
<1>3. n \in Nat /\ DOMAIN y.posts = 1 .. n /\ Len(y.posts) = n
  BY <1>2 DEF SameAnswers
<1>4. /\ DOMAIN fr = 1 .. Len(fr)
      /\ \A i \in 1 .. Len(fr) :
           /\ fr[i].ids \in Seq(1 .. n) /\ Len(fr[i].ids) \in 1 .. n
           /\ \/ fr[i].ids \in Seq(InThreads(x, roots)) /\ OneWhole(x, "thread", fr[i].ids)
              \/ OneWhole(x, "window", fr[i].ids)
      /\ \A id \in 1 .. n : \E i \in 1 .. Len(fr) : \E j \in DOMAIN fr[i].ids : fr[i].ids[j] = id
      /\ \A i, h \in 1 .. Len(fr) : \A j \in DOMAIN fr[i].ids, l \in DOMAIN fr[h].ids :
           fr[i].ids[j] = fr[h].ids[l] => i = h /\ j = l
  BY <1>2 DEF TwoPasses
<1>5. ASSUME NEW i \in DOMAIN fr PROVE Bounded(fr[i].ids)
  BY <1>2, <1>4, WholesAgree
<1>6. ASSUME NEW id \in DOMAIN y.posts PROVE Cardinality(Placed(id)) = 1
  <2>1. PICK i \in DOMAIN fr : \E j \in DOMAIN fr[i].ids : fr[i].ids[j] = id
    BY <1>3, <1>4
  <2>2. PICK j \in DOMAIN fr[i].ids : fr[i].ids[j] = id
    BY <2>1
  <2>3. j \in 1 .. Len(y.posts)
    <3> DEFINE s == fr[i].ids
               P == 1 .. n
    <3>1. s \in Seq(P) /\ Len(s) \in 1 .. n
      BY <1>4
    <3> HIDE DEF P
    <3>2. DOMAIN s = 1 .. Len(s)
      BY <3>1
    <3> QED BY <1>3, <2>2, <3>1, <3>2
  <2> DEFINE e == <<i, j>>
  <2>4. e \in Placed(id)
    BY <2>2, <2>3
  <2>5. ASSUME NEW p \in Placed(id) PROVE p = e
    <3>1. p \in (DOMAIN fr) \X (1 .. Len(y.posts)) /\ p[2] \in DOMAIN fr[p[1]].ids
          /\ fr[p[1]].ids[p[2]] = id
      OBVIOUS
    <3>2. p = <<p[1], p[2]>> /\ p[1] \in DOMAIN fr
      BY <3>1
    <3>3. p[1] = i /\ p[2] = j
      BY <1>4, <2>2, <3>1, <3>2
    <3> QED BY <3>2, <3>3
  <2> HIDE DEF e, Placed
  <2> QED BY <2>4, <2>5, OnePlace
<1> QED BY <1>5, <1>6

\* chunk.ts, read.ts: under the same conditions, each message of the index a store
\* opens with is in one fragment and once, and no fragment passes its bounds.
THEOREM FragmentsShareTheMessages ==
  ASSUME MessagesStay, SomethingIsSaid
  PROVE  FilesSpec => []FragmentsPartition
<1>1. StoresAreCut /\ [FilesNext]_filesVars => StoresAreCut'
  BY StoresStep
<1>2. StoresAreCut => FragmentsPartition
  BY FragmentsAreAPartition
<1> QED BY <1>1, <1>2, NoStoreAtFirst, PTL DEF FilesSpec
=============================================================================
