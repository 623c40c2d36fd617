-------------------------- MODULE BrowserIndex_proofs --------------------------
(* For any number of files dropped, any sizes of an index and of a cache:    *)
(* the page that says it is opening a file has an answer coming, and what it *)
(* ends on is read from the file.                                            *)
EXTENDS BrowserIndex, TLAPS, SequenceTheorems

Stages == {"chargement", "pret", "lecture", "reponse", "echec", "mort"}
Entry == {e \in [block : 1..Blocks, what : 1..Blocks] : e.what = e.block}
Worker == [backend : {"http", "fichier"}, tables : Tables, stage : Stages,
           call : {"ouvrir", "tous-emojis", "aucun"}, cache : Seq(Entry), db : BOOLEAN]

\* A worker asked for the emojis, or about to answer, opened a whole index.
Whole(k) == k.db /\ k.tables = "index"
WorkerSound(k) ==
  /\ Len(k.cache) <= MaxBlocks
  /\ k.stage = "chargement" => k.call = "ouvrir"
  /\ k.stage = "mort" => k.call = "aucun"
  /\ k.stage \in {"lecture", "reponse"} => k.db
  /\ k.stage = "lecture" => k.call # "aucun"
  /\ k.stage = "reponse" \/ k.call = "tous-emojis" => Whole(k)

PageTyped(p, ws) ==
  p \in [mode : {"inconnu", "serveur", "statique", "fichier"}, occupe : BOOLEAN,
         erreur : BOOLEAN, client : -1..Len(ws)]
ClientSound(p, ws) == p.client > 0 => Whole(ws[p.client])
AnswerComing(p, ws) ==
  p.occupe /\ p.client = 0 => \E w \in DOMAIN ws : ws[w].call # "aucun"

Unknown(p, ws) == p.mode = "inconnu" => ws = <<>> /\ p.client = 0

Sound(p, ws) ==
  /\ ws \in Seq(Worker)
  /\ \A w \in DOMAIN ws : WorkerSound(ws[w])
  /\ PageTyped(p, ws) /\ ClientSound(p, ws) /\ AnswerComing(p, ws) /\ Unknown(p, ws)
PageInv == Sound(page, workers)

(*------------------------------ the cache --------------------------------*)
\* A block served again, or just read, leaves the cache as large as it may be,
\* and made of blocks of the file.
LEMMA ServedAgain ==
  ASSUME NEW cache \in Seq(Entry), NEW i \in DOMAIN cache
  PROVE  ServeAgain(cache, i) \in Seq(Entry) /\ Len(ServeAgain(cache, i)) = Len(cache)
<1>1. Len(cache) \in Nat /\ i \in 1..Len(cache) /\ cache[i] \in Entry
  BY ElementOfSeq, LenProperties
<1> DEFINE left == SubSeq(cache, 1, i - 1)
           right == SubSeq(cache, i + 1, Len(cache))
<1>2. left \in Seq(Entry) /\ Len(left) = i - 1
  BY <1>1, SubSeqProperties
<1>3. right \in Seq(Entry) /\ Len(right) = Len(cache) - i
  BY <1>1, SubSeqProperties
<1>4. <<cache[i]>> \in Seq(Entry) /\ Len(<<cache[i]>>) = 1
  BY <1>1
<1> HIDE DEF left, right
<1>5. left \o right \in Seq(Entry) /\ Len(left \o right) = Len(cache) - 1
  BY <1>1, <1>2, <1>3, ConcatProperties
<1>6. /\ (left \o right) \o <<cache[i]>> \in Seq(Entry)
      /\ Len((left \o right) \o <<cache[i]>>) = Len(cache)
  BY <1>1, <1>4, <1>5, ConcatProperties
<1> QED BY <1>6 DEF ServeAgain, left, right

LEMMA Kept ==
  ASSUME NEW cache \in Seq(Entry), Len(cache) <= MaxBlocks, NEW b \in 1..Blocks
  PROVE  Keep(cache, b, b) \in Seq(Entry) /\ Len(Keep(cache, b, b)) <= MaxBlocks
<1> DEFINE entry == [block |-> b, what |-> b]
           kept == Append(cache, entry)
<1>1. entry \in Entry
  BY DEF Entry
<1> HIDE DEF entry
<1>2. kept \in Seq(Entry) /\ Len(kept) = Len(cache) + 1 /\ Len(cache) \in Nat
  BY <1>1, AppendProperties, LenProperties
<1>3. kept # <<>>
  BY <1>2, EmptySeq
<1> HIDE DEF kept
<1>4. Tail(kept) \in Seq(Entry) /\ Len(Tail(kept)) = Len(kept) - 1
  BY <1>2, <1>3, HeadTailProperties
<1> QED BY <1>2, <1>4, BlocksAssumption DEF Keep, kept, entry

(*------------------------------ the steps --------------------------------*)
\* One worker moves, and the page with it.
LEMMA WorkerMoves ==
  ASSUME PageInv, NEW w \in DOMAIN workers, NEW k \in Worker, WorkerSound(k),
         k.tables = workers[w].tables, workers[w].db => k.db,
         workers' = [workers EXCEPT ![w] = k],
         \/ UNCHANGED page /\ (workers[w].call # "aucun" => k.call # "aucun")
         \/ page' = Refused
         \/ page' = [page EXCEPT !.client = w] /\ Whole(k)
  PROVE  PageInv'
<1>1. /\ workers \in Seq(Worker) /\ Len(workers) \in Nat /\ DOMAIN workers = 1..Len(workers)
      /\ workers' \in Seq(Worker) /\ Len(workers') = Len(workers)
  <2>1. workers \in Seq(Worker)
    BY DEF PageInv, Sound
  <2>2. Len(workers) \in Nat /\ DOMAIN workers = 1..Len(workers)
    BY <2>1, LenProperties
  <2>3. workers' \in Seq(Worker) /\ Len(workers') = Len(workers)
    BY <2>1, <2>2, ExceptSeq
  <2> QED BY <2>1, <2>2, <2>3
<1>2. /\ DOMAIN workers' = DOMAIN workers
      /\ \A v \in DOMAIN workers : workers'[v] = IF v = w THEN k ELSE workers[v]
  BY <1>1
<1>3. \A v \in DOMAIN workers' : WorkerSound(workers'[v])
  BY <1>2 DEF PageInv, Sound
<1>4. \A v \in DOMAIN workers : Whole(workers[v]) => Whole(workers'[v])
  BY <1>2 DEF Whole
<1>5. /\ page \in [mode : {"inconnu", "serveur", "statique", "fichier"}, occupe : BOOLEAN,
                   erreur : BOOLEAN, client : -1..Len(workers)]
      /\ page.mode # "inconnu"
  BY <1>1, EmptySeq DEF PageInv, Sound, PageTyped, Unknown
<1>6. CASE UNCHANGED page /\ (workers[w].call # "aucun" => k.call # "aucun")
  <2>1. PageTyped(page', workers') /\ Unknown(page', workers')
    BY <1>1, <1>5, <1>6 DEF PageTyped, Unknown
  <2>2. ClientSound(page', workers')
    BY <1>1, <1>4, <1>5, <1>6 DEF PageInv, Sound, ClientSound
  <2>3. AnswerComing(page', workers')
    BY <1>2, <1>6 DEF PageInv, Sound, AnswerComing
  <2> QED BY <1>1, <1>3, <2>1, <2>2, <2>3 DEF PageInv, Sound
<1>7. CASE page' = Refused
  <2>1. PageTyped(page', workers') /\ Unknown(page', workers') /\ AnswerComing(page', workers')
    BY <1>1, <1>5, <1>7 DEF PageTyped, Unknown, AnswerComing, Refused
  <2>2. ClientSound(page', workers')
    BY <1>1, <1>4, <1>5, <1>7 DEF PageInv, Sound, ClientSound, Refused
  <2> QED BY <1>1, <1>3, <2>1, <2>2 DEF PageInv, Sound
<1>8. CASE page' = [page EXCEPT !.client = w] /\ Whole(k)
  <2>1. PageTyped(page', workers') /\ Unknown(page', workers') /\ AnswerComing(page', workers')
    BY <1>1, <1>5, <1>8 DEF PageTyped, Unknown, AnswerComing
  <2>2. ClientSound(page', workers')
    BY <1>1, <1>2, <1>5, <1>8 DEF ClientSound
  <2> QED BY <1>1, <1>3, <2>1, <2>2 DEF PageInv, Sound
<1> QED BY <1>6, <1>7, <1>8

\* A worker more, for a file just designated.
LEMMA WorkerStarts ==
  ASSUME PageInv, NEW t \in Tables, NEW backend \in {"http", "fichier"},
         page'.client = 0, page'.mode # "inconnu", PageTyped(page', <<>>),
         workers' = Append(workers, Started(backend, t))
  PROVE  PageInv'
<1> DEFINE k == Started(backend, t)
<1>1. k \in Worker /\ WorkerSound(k) /\ k.call # "aucun"
  BY BlocksAssumption, EmptySeq DEF Started, Worker, Stages, WorkerSound, Whole
<1> HIDE DEF k
<1>2. workers \in Seq(Worker) /\ Len(workers) \in Nat
  BY LenProperties DEF PageInv, Sound
<1>3. workers' = Append(workers, k)
  BY DEF k
<1>4. /\ workers' \in Seq(Worker) /\ Len(workers') = Len(workers) + 1
      /\ \A v \in 1..Len(workers) : workers'[v] = workers[v]
      /\ workers'[Len(workers) + 1] = k
  BY <1>1, <1>2, <1>3, AppendProperties
<1>5. DOMAIN workers' = 1..(Len(workers) + 1) /\ DOMAIN workers = 1..Len(workers)
  BY <1>2, <1>4, LenProperties
<1>6. \A v \in DOMAIN workers' : WorkerSound(workers'[v])
  <2> TAKE v \in DOMAIN workers'
  <2>1. CASE v = Len(workers) + 1
    BY <1>1, <1>4, <2>1
  <2>2. CASE v \in 1..Len(workers)
    BY <1>4, <1>5, <2>2 DEF PageInv, Sound
  <2> QED BY <1>2, <1>5, <2>1, <2>2
<1>7. PageTyped(page', workers')
  BY <1>2, <1>4 DEF PageTyped
<1>8. AnswerComing(page', workers')
  BY <1>1, <1>2, <1>4, <1>5 DEF AnswerComing
<1> QED BY <1>4, <1>6, <1>7, <1>8 DEF PageInv, Sound, ClientSound, Unknown

LEMMA DetectStep == ASSUME PageInv, Detect PROVE PageInv'
<1>1. PICK m \in {"serveur", "statique", "fichier"} :
        page' = [page EXCEPT !.mode = m, !.occupe = (m = "statique"),
                             !.client = IF m = "serveur" THEN -1 ELSE 0]
  BY DEF Detect
<1>2. workers = <<>> /\ PageTyped(page, workers)
  BY DEF Detect, PageInv, Sound, Unknown
<1> DEFINE client == IF m = "serveur" THEN -1 ELSE 0
           occupe == m = "statique"
<1>3. PageTyped(page', <<>>) /\ page'.mode = m /\ page'.client = client /\ page'.occupe = occupe
  <2>1. client \in -1..Len(<<>>) /\ occupe \in BOOLEAN
    BY EmptySeq
  <2>2. page' = [page EXCEPT !.mode = m, !.occupe = occupe, !.client = client]
    BY <1>1
  <2> HIDE DEF client, occupe
  <2> QED BY <1>2, <2>1, <2>2 DEF PageTyped
<1>4. CASE m = "statique"
  <2>1. PICK t \in Tables : workers' = <<Started("http", t)>>
    BY <1>3, <1>4 DEF Detect
  <2>2. workers' = Append(workers, Started("http", t))
    BY <1>2, <2>1
  <2> QED BY <1>3, <1>4, <2>2, WorkerStarts
<1>5. CASE m # "statique"
  <2>1. workers' = <<>> /\ ~ page'.occupe /\ ~ (page'.client > 0) /\ page'.mode # "inconnu"
    <3>1. workers' = <<>> /\ page'.mode # "inconnu" /\ page'.client \in {-1, 0}
      BY <1>2, <1>3, <1>5 DEF Detect
    <3>2. page'.occupe = FALSE
      BY <1>3, <1>5
    <3> QED BY <3>1, <3>2
  <2>2. PageTyped(page', workers') /\ ClientSound(page', workers')
        /\ AnswerComing(page', workers') /\ Unknown(page', workers')
    BY <1>3, <2>1 DEF ClientSound, AnswerComing, Unknown
  <2>3. workers' \in Seq(Worker) /\ DOMAIN workers' = {}
    BY <2>1, EmptySeq
  <2> QED BY <2>2, <2>3 DEF PageInv, Sound
<1> QED BY <1>4, <1>5

LEMMA DesignateStep == ASSUME PageInv, Designate PROVE PageInv'
<1>1. PageTyped(page, workers) /\ Len(workers) \in Nat
  BY LenProperties DEF PageInv, Sound
<1>2. /\ page' = [page EXCEPT !.occupe = TRUE, !.erreur = FALSE]
      /\ page.mode # "inconnu" /\ page.client = 0
  BY DEF Designate
<1>3. PageTyped(page', <<>>) /\ page'.client = 0 /\ page'.mode # "inconnu"
  <2>1. 0 \in -1..Len(<<>>) /\ TRUE \in BOOLEAN /\ FALSE \in BOOLEAN
    BY EmptySeq
  <2>2. PageTyped(page', <<>>)
    <3>1. /\ page.mode \in {"inconnu", "serveur", "statique", "fichier"}
          /\ page = [mode |-> page.mode, occupe |-> page.occupe, erreur |-> page.erreur,
                     client |-> page.client]
      BY <1>1 DEF PageTyped
    <3>2. page' = [mode |-> page.mode, occupe |-> TRUE, erreur |-> FALSE, client |-> 0]
      BY <1>2, <3>1
    <3> QED BY <2>1, <3>1, <3>2 DEF PageTyped
  <2> QED BY <1>1, <1>2, <2>2 DEF PageTyped
<1>4. PICK t \in Tables : workers' = Append(workers, Started("fichier", t))
  BY DEF Designate
<1> QED BY <1>3, <1>4, WorkerStarts

\* What a step reads of the worker it moves.
LEMMA OneWorker ==
  ASSUME PageInv, NEW w \in DOMAIN workers
  PROVE  /\ workers[w] \in Worker /\ WorkerSound(workers[w])
         /\ workers[w].cache \in Seq(Entry)
<1>1. workers \in Seq(Worker) /\ WorkerSound(workers[w])
  BY DEF PageInv, Sound
<1>2. workers[w] \in Worker
  BY <1>1, ElementOfSeq, LenProperties
<1> QED BY <1>1, <1>2 DEF Worker

LEMMA ModuleLoadsStep == ASSUME PageInv, ModuleLoads PROVE PageInv'
<1>1. PICK w \in DOMAIN workers :
        /\ workers[w].stage = "chargement" /\ UNCHANGED page
        /\ workers' = [workers EXCEPT ![w].stage = "pret"]
  BY DEF ModuleLoads, Moves
<1>2. workers[w] \in Worker /\ WorkerSound(workers[w])
  BY OneWorker
<1> DEFINE k == [workers[w] EXCEPT !.stage = "pret"]
<1>3. k \in Worker /\ k.tables = workers[w].tables /\ k.call = "ouvrir" /\ k.db = workers[w].db
      /\ k.stage = "pret" /\ k.cache = workers[w].cache
  BY <1>1, <1>2 DEF Worker, Stages, WorkerSound
<1> HIDE DEF k
<1>4. WorkerSound(k)
  BY <1>2, <1>3 DEF WorkerSound
<1>5. workers' = [workers EXCEPT ![w] = k]
  BY <1>1 DEF k
<1> QED BY <1>1, <1>3, <1>4, <1>5, WorkerMoves

LEMMA ModuleFailsStep == ASSUME PageInv, ModuleFails PROVE PageInv'
<1>1. PICK w \in DOMAIN workers :
        /\ workers[w].stage = "chargement" /\ page' = Refused
        /\ workers' = [workers EXCEPT ![w].stage = "mort", ![w].call = "aucun"]
  BY DEF ModuleFails
<1>2. workers[w] \in Worker /\ WorkerSound(workers[w])
  BY OneWorker
<1> DEFINE k == [workers[w] EXCEPT !.stage = "mort", !.call = "aucun"]
<1>3. k \in Worker /\ k.tables = workers[w].tables /\ k.call = "aucun" /\ k.db = workers[w].db
      /\ k.stage = "mort" /\ k.cache = workers[w].cache
  BY <1>1, <1>2 DEF Worker, Stages
<1> HIDE DEF k
<1>4. WorkerSound(k)
  BY <1>2, <1>3 DEF WorkerSound
<1>5. workers' = [workers EXCEPT ![w] = k]
  BY <1>1 DEF k
<1> QED BY <1>1, <1>3, <1>4, <1>5, WorkerMoves

LEMMA OpenCacheStep == ASSUME PageInv, OpenCache PROVE PageInv'
<1>1. PICK w \in DOMAIN workers :
        /\ workers[w].stage = "pret" /\ workers[w].call = "ouvrir" /\ UNCHANGED page
        /\ \/ workers' = [workers EXCEPT ![w].stage = "lecture", ![w].db = TRUE]
           \/ workers' = [workers EXCEPT ![w].stage = "echec"]
  BY DEF OpenCache, Moves
<1>2. workers[w] \in Worker /\ WorkerSound(workers[w])
  BY OneWorker
<1>3. CASE workers' = [workers EXCEPT ![w].stage = "lecture", ![w].db = TRUE]
  <2> DEFINE k == [workers[w] EXCEPT !.stage = "lecture", !.db = TRUE]
  <2>1. k \in Worker /\ k.tables = workers[w].tables /\ k.call = "ouvrir" /\ k.db = TRUE
        /\ k.stage = "lecture" /\ k.cache = workers[w].cache
    BY <1>1, <1>2 DEF Worker, Stages
  <2>2. workers' = [workers EXCEPT ![w] = k]
    BY <1>3
  <2> HIDE DEF k
  <2>3. WorkerSound(k)
    BY <1>2, <2>1 DEF WorkerSound
  <2> QED BY <1>1, <2>1, <2>2, <2>3, WorkerMoves
<1>4. CASE workers' = [workers EXCEPT ![w].stage = "echec"]
  <2> DEFINE k == [workers[w] EXCEPT !.stage = "echec"]
  <2>1. k \in Worker /\ k.tables = workers[w].tables /\ k.call = "ouvrir"
        /\ k.db = workers[w].db /\ k.stage = "echec" /\ k.cache = workers[w].cache
    BY <1>1, <1>2 DEF Worker, Stages
  <2>2. workers' = [workers EXCEPT ![w] = k]
    BY <1>4
  <2> HIDE DEF k
  <2>3. WorkerSound(k)
    BY <1>2, <2>1 DEF WorkerSound
  <2> QED BY <1>1, <2>1, <2>2, <2>3, WorkerMoves
<1> QED BY <1>1, <1>3, <1>4

LEMMA EmojiCallStep == ASSUME PageInv, EmojiCall PROVE PageInv'
<1>1. PICK w \in DOMAIN workers :
        /\ workers[w].stage = "pret" /\ workers[w].call = "tous-emojis" /\ UNCHANGED page
        /\ workers' = [workers EXCEPT ![w].stage = "lecture"]
  BY DEF EmojiCall, Moves
<1>2. workers[w] \in Worker /\ WorkerSound(workers[w])
  BY OneWorker
<1> DEFINE k == [workers[w] EXCEPT !.stage = "lecture"]
<1>3. k \in Worker /\ k.tables = workers[w].tables /\ k.call = "tous-emojis"
      /\ k.db = workers[w].db /\ k.stage = "lecture" /\ k.cache = workers[w].cache
  BY <1>1, <1>2 DEF Worker, Stages
<1>4. workers' = [workers EXCEPT ![w] = k]
  BY <1>1
<1> HIDE DEF k
<1>5. WorkerSound(k)
  BY <1>1, <1>2, <1>3 DEF WorkerSound, Whole
<1> QED BY <1>1, <1>3, <1>4, <1>5, WorkerMoves

\* The read of a block: held, received, or refused.
LEMMA ReadBlockStep == ASSUME PageInv, ReadBlock PROVE PageInv'
<1>1. PICK w \in DOMAIN workers, b \in 1..Blocks :
        /\ workers[w].stage = "lecture" /\ UNCHANGED page
        /\ IF Cached(workers[w].cache, b)
           THEN \E i \in DOMAIN workers[w].cache :
                  workers' = [workers EXCEPT ![w].cache = ServeAgain(@, i)]
           ELSE \E status \in Statuses(workers[w].backend) :
                  IF status \in Received(workers[w].backend)
                  THEN workers' = [workers EXCEPT
                         ![w].cache = Keep(@, b, IF status = 206 THEN b ELSE 1)]
                  ELSE workers' = [workers EXCEPT ![w].stage = "echec"]
  BY DEF ReadBlock, Moves
<1>2. workers[w] \in Worker /\ WorkerSound(workers[w]) /\ workers[w].cache \in Seq(Entry)
  BY OneWorker
<1>3. ASSUME NEW cache \in Seq(Entry), Len(cache) <= MaxBlocks,
             workers' = [workers EXCEPT ![w].cache = cache]
      PROVE  PageInv'
  <2> DEFINE k == [workers[w] EXCEPT !.cache = cache]
  <2>1. k \in Worker /\ k.tables = workers[w].tables /\ k.call = workers[w].call
        /\ k.db = workers[w].db /\ k.stage = "lecture" /\ k.cache = cache
    BY <1>1, <1>2 DEF Worker, Stages
  <2>2. workers' = [workers EXCEPT ![w] = k]
    BY <1>3
  <2> HIDE DEF k
  <2>3. WorkerSound(k)
    BY <1>1, <1>2, <1>3, <2>1 DEF WorkerSound, Whole
  <2> QED BY <1>1, <2>1, <2>2, <2>3, WorkerMoves
<1>4. CASE Cached(workers[w].cache, b)
  <2>1. PICK i \in DOMAIN workers[w].cache :
          workers' = [workers EXCEPT ![w].cache = ServeAgain(workers[w].cache, i)]
    BY <1>1, <1>4
  <2> DEFINE cache == ServeAgain(workers[w].cache, i)
  <2>2. cache \in Seq(Entry) /\ Len(cache) <= MaxBlocks
    BY <1>2, ServedAgain DEF WorkerSound
  <2>3. workers' = [workers EXCEPT ![w].cache = cache]
    BY <2>1
  <2> HIDE DEF cache
  <2> QED BY <1>3, <2>2, <2>3
<1>5. CASE ~ Cached(workers[w].cache, b)
  <2>1. PICK status \in Statuses(workers[w].backend) :
          IF status \in Received(workers[w].backend)
          THEN workers' = [workers EXCEPT
                 ![w].cache = Keep(workers[w].cache, b, IF status = 206 THEN b ELSE 1)]
          ELSE workers' = [workers EXCEPT ![w].stage = "echec"]
    BY <1>1, <1>5
  <2>2. CASE status \in Received(workers[w].backend)
    <3> DEFINE cache == Keep(workers[w].cache, b, b)
    <3>1. status = 206
      BY <2>2 DEF Received
    <3>2. workers' = [workers EXCEPT ![w].cache = cache]
      BY <2>1, <2>2, <3>1
    <3>3. cache \in Seq(Entry) /\ Len(cache) <= MaxBlocks
      BY <1>2, Kept DEF WorkerSound
    <3> HIDE DEF cache
    <3> QED BY <1>3, <3>2, <3>3
  <2>3. CASE status \notin Received(workers[w].backend)
    <3> DEFINE k == [workers[w] EXCEPT !.stage = "echec"]
    <3>1. k \in Worker /\ k.tables = workers[w].tables /\ k.call = workers[w].call
          /\ k.db = workers[w].db /\ k.stage = "echec" /\ k.cache = workers[w].cache
      BY <1>1, <1>2 DEF Worker, Stages
    <3>2. workers' = [workers EXCEPT ![w] = k]
      BY <2>1, <2>3
    <3> HIDE DEF k
    <3>3. WorkerSound(k)
      BY <1>1, <1>2, <3>1 DEF WorkerSound, Whole
    <3> QED BY <1>1, <3>1, <3>2, <3>3, WorkerMoves
  <2> QED BY <2>2, <2>3
<1> QED BY <1>4, <1>5

LEMMA QueryDoneStep == ASSUME PageInv, QueryDone PROVE PageInv'
<1>1. PICK w \in DOMAIN workers :
        /\ workers[w].stage = "lecture" /\ UNCHANGED page
        /\ workers' = [workers EXCEPT ![w].stage =
             IF workers[w].call = "ouvrir" /\ workers[w].tables # "index"
             THEN "echec" ELSE "reponse"]
  BY DEF QueryDone, Moves
<1> DEFINE stage == IF workers[w].call = "ouvrir" /\ workers[w].tables # "index"
                    THEN "echec" ELSE "reponse"
           k == [workers[w] EXCEPT !.stage = stage]
<1>2. workers[w] \in Worker /\ WorkerSound(workers[w])
  BY OneWorker
<1>3. stage \in {"echec", "reponse"} /\ (stage = "reponse" => Whole(workers[w]))
  BY <1>1, <1>2 DEF Worker, WorkerSound, Whole
<1>4. workers' = [workers EXCEPT ![w] = k]
  BY <1>1
<1> HIDE DEF stage
<1>5. k \in Worker /\ k.tables = workers[w].tables /\ k.call = workers[w].call
      /\ k.db = workers[w].db /\ k.stage = stage /\ k.cache = workers[w].cache
  BY <1>2, <1>3 DEF Worker, Stages
<1> HIDE DEF k
<1>6. WorkerSound(k)
  BY <1>1, <1>2, <1>3, <1>5 DEF WorkerSound, Whole
<1> QED BY <1>1, <1>4, <1>5, <1>6, WorkerMoves

LEMMA ResolveStep == ASSUME PageInv, Resolve PROVE PageInv'
<1>1. PICK w \in DOMAIN workers :
        /\ workers[w].stage = "reponse"
        /\ workers' = [workers EXCEPT ![w].stage = "pret",
             ![w].call = IF workers[w].call = "ouvrir" THEN "tous-emojis" ELSE "aucun"]
        /\ page' = IF workers[w].call = "ouvrir" THEN page ELSE [page EXCEPT !.client = w]
  BY DEF Resolve
<1> DEFINE call == IF workers[w].call = "ouvrir" THEN "tous-emojis" ELSE "aucun"
           k == [workers[w] EXCEPT !.stage = "pret", !.call = call]
<1>2. workers[w] \in Worker /\ WorkerSound(workers[w]) /\ Whole(workers[w])
  BY <1>1, OneWorker DEF WorkerSound
<1>3. call \in {"tous-emojis", "aucun"}
      /\ (workers[w].call = "ouvrir" => call # "aucun")
  OBVIOUS
<1>4. workers' = [workers EXCEPT ![w] = k]
  BY <1>1
<1> HIDE DEF call
<1>5. k \in Worker /\ k.tables = workers[w].tables /\ k.call = call
      /\ k.db = workers[w].db /\ k.stage = "pret" /\ k.cache = workers[w].cache
  BY <1>2, <1>3 DEF Worker, Stages
<1> HIDE DEF k
<1>6. WorkerSound(k) /\ Whole(k)
  BY <1>2, <1>5 DEF WorkerSound, Whole
<1>7. \/ UNCHANGED page /\ (workers[w].call # "aucun" => k.call # "aucun")
      \/ page' = [page EXCEPT !.client = w] /\ Whole(k)
  BY <1>1, <1>3, <1>5, <1>6
<1> QED BY <1>4, <1>5, <1>6, <1>7, WorkerMoves

LEMMA RejectStep == ASSUME PageInv, Reject PROVE PageInv'
<1>1. PICK w \in DOMAIN workers :
        /\ workers[w].stage = "echec" /\ page' = Refused
        /\ workers' = [workers EXCEPT ![w].stage = "pret", ![w].call = "aucun"]
  BY DEF Reject
<1> DEFINE k == [workers[w] EXCEPT !.stage = "pret", !.call = "aucun"]
<1>2. workers[w] \in Worker /\ WorkerSound(workers[w])
  BY OneWorker
<1>3. k \in Worker /\ k.tables = workers[w].tables /\ k.call = "aucun"
      /\ k.db = workers[w].db /\ k.stage = "pret" /\ k.cache = workers[w].cache
  BY <1>2 DEF Worker, Stages
<1>4. workers' = [workers EXCEPT ![w] = k]
  BY <1>1
<1> HIDE DEF k
<1>5. WorkerSound(k)
  BY <1>2, <1>3 DEF WorkerSound
<1> QED BY <1>1, <1>3, <1>4, <1>5, WorkerMoves

(*------------------------------ the theorem ------------------------------*)
LEMMA BootInitHolds == BootInit => PageInv
<1> SUFFICES ASSUME BootInit PROVE PageInv
  OBVIOUS
<1>1. workers = <<>> /\ page = [mode |-> "inconnu", occupe |-> FALSE, erreur |-> FALSE, client |-> 0]
  BY DEF BootInit
<1>2. workers \in Seq(Worker) /\ DOMAIN workers = {} /\ 0 \in -1..Len(workers)
  BY <1>1, EmptySeq
<1>3. PageTyped(page, workers) /\ ~ page.occupe
  BY <1>1, <1>2 DEF PageTyped
<1> QED BY <1>1, <1>2, <1>3 DEF PageInv, Sound, ClientSound, AnswerComing, Unknown

LEMMA BootStep == PageInv /\ [BootNext]_bootVars => PageInv'
<1> SUFFICES ASSUME PageInv, [BootNext]_bootVars PROVE PageInv'
  OBVIOUS
<1>1. CASE UNCHANGED bootVars
  BY <1>1 DEF bootVars, PageInv
<1> QED BY <1>1, DetectStep, DesignateStep, ModuleLoadsStep, ModuleFailsStep, OpenCacheStep,
           EmojiCallStep, ReadBlockStep, QueryDoneStep, ResolveStep, RejectStep DEF BootNext

LEMMA PageInvSuffices == PageInv => OpeningEndsOnTheFile
<1> SUFFICES ASSUME PageInv PROVE OpeningEndsOnTheFile
  OBVIOUS
<1>1. page.occupe /\ page.client = 0 =>
        \E w \in DOMAIN workers : workers[w].call # "aucun" /\ workers[w].stage # "mort"
  BY DEF PageInv, Sound, AnswerComing, WorkerSound
<1>2. ASSUME page.client > 0
      PROVE  /\ workers[page.client].db /\ workers[page.client].tables = "index"
             /\ Len(workers[page.client].cache) <= MaxBlocks
             /\ \A i \in DOMAIN workers[page.client].cache :
                  workers[page.client].cache[i].what = workers[page.client].cache[i].block
  <2> DEFINE w == page.client
             cache == workers[w].cache
  <2>1. w \in DOMAIN workers
    <3>1. w \in -1..Len(workers) /\ workers \in Seq(Worker)
      BY DEF PageInv, Sound, PageTyped
    <3> QED BY <1>2, <3>1, LenProperties
  <2>2. Whole(workers[w])
    BY <1>2 DEF PageInv, Sound, ClientSound
  <2>3. cache \in Seq(Entry) /\ Len(cache) <= MaxBlocks
    BY <2>1, OneWorker DEF WorkerSound
  <2> HIDE DEF cache
  <2>4. \A i \in DOMAIN cache : cache[i] \in Entry
    BY <2>3, ElementOfSeq, LenProperties
  <2>5. \A i \in DOMAIN cache : cache[i].what = cache[i].block
    BY <2>4 DEF Entry
  <2> QED BY <2>2, <2>3, <2>5 DEF Whole, cache
<1> QED BY <1>1, <1>2 DEF OpeningEndsOnTheFile

\* boot.tsx, worker-client.ts, block-cache.ts: however many files are dropped
\* while others are opened and whichever fail, a page that says it is opening
\* one has an answer coming; the index it ends on has every table, and a cache
\* within its bound that holds blocks of the file itself.
THEOREM PageEndsOnTheFile == BootSpec => []OpeningEndsOnTheFile
<1> QED BY BootInitHolds, BootStep, PageInvSuffices, PTL DEF BootSpec
=============================================================================
