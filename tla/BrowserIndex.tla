----------------------------- MODULE BrowserIndex -----------------------------
(***************************************************************************)
(* The page without a server (web/src/boot.tsx and web/src/lite): Boot     *)
(* finds who answers, each file designated gets a worker of its own, the   *)
(* worker loads the engine, opens the index over a cache of blocks read    *)
(* from the file or by HTTP ranges, and the page waits for it.             *)
(*                                                                         *)
(* A worker has one call at most in flight here: the opening, then the     *)
(* emojis.  `call` is that entry of #pending, `stage` what becomes of it.  *)
(* SQLite is external: it reads blocks in any order.                       *)
(***************************************************************************)
EXTENDS Integers, Sequences

CONSTANTS
  Tables,       \* what a designated file may be: "index", or lacking some table
  Blocks,       \* the blocks of an index are 1..Blocks
  MaxBlocks,    \* those a cache keeps
  MaxWorkers    \* bound

ASSUME BlocksAssumption == Blocks \in Nat /\ MaxBlocks \in Nat

VARIABLES
  page,      \* Boot: [mode, occupe, erreur, client], client 0 until one is set
  workers    \* the sequence of workers started

bootVars == <<page, workers>>

BootInit ==
  /\ page = [mode |-> "inconnu", occupe |-> FALSE, erreur |-> FALSE, client |-> 0]
  /\ workers = <<>>

(* createWorker, then openFile or openUrl: the call is posted at once.     *)
Started(backend, tables) ==
  [backend |-> backend, tables |-> tables, stage |-> "chargement",
   call |-> "ouvrir", cache |-> <<>>, db |-> FALSE]

-----------------------------------------------------------------------------
(* Boot                                                                    *)

(* detectMode and the effects it sets off.                                 *)
Detect ==
  /\ page.mode = "inconnu"
  /\ \E m \in {"serveur", "statique", "fichier"} :
       page' = [page EXCEPT !.mode = m, !.occupe = (m = "statique"),
                            !.client = IF m = "serveur" THEN -1 ELSE 0]
  /\ IF page'.mode = "statique"
     THEN \E t \in Tables : workers' = <<Started("http", t)>>
     ELSE UNCHANGED workers

(* ouvrirFichier: the drop zone takes a file even while another is opened.  *)
(* createWorker is taken not to throw: `new Worker' does so only under a    *)
(* policy of the page that forbids workers, or where file:// refuses a      *)
(* module, for which the worker is built from a blob (boot.tsx:181-183).    *)
Designate ==
  /\ page.mode # "inconnu" /\ page.client = 0
  /\ Len(workers) < MaxWorkers
  /\ \E t \in Tables : workers' = Append(workers, Started("fichier", t))
  /\ page' = [page EXCEPT !.occupe = TRUE, !.erreur = FALSE]

(* The catch of ouvrir.                                                    *)
Refused == [page EXCEPT !.erreur = TRUE, !.occupe = FALSE]

-----------------------------------------------------------------------------
(* The worker                                                              *)

Moves(w, stage) == workers' = [workers EXCEPT ![w].stage = stage]

ModuleLoads ==
  \E w \in DOMAIN workers :
    /\ workers[w].stage = "chargement"
    /\ Moves(w, "pret")
    /\ UNCHANGED page

(* mutant: nobody listens to the errors of the worker.                     *)
ModuleFailsUnheard ==
  \E w \in DOMAIN workers :
    /\ workers[w].stage = "chargement"
    /\ Moves(w, "mort")
    /\ UNCHANGED page

(* The error event: failAll rejects what was pending.                      *)
ModuleFails ==
  \E w \in DOMAIN workers :
    /\ workers[w].stage = "chargement"
    /\ workers' = [workers EXCEPT ![w].stage = "mort", ![w].call = "aucun"]
    /\ page' = Refused

(* open up to the DB, the engine and the cache at hand; the backend by     *)
(* HTTP first probes that the host serves ranges without recompressing.    *)
OpenCache ==
  \E w \in DOMAIN workers :
    /\ workers[w].stage = "pret" /\ workers[w].call = "ouvrir"
    /\ \/ workers' = [workers EXCEPT ![w].stage = "lecture", ![w].db = TRUE]
       \/ Moves(w, "echec")
    /\ UNCHANGED page

EmojiCall ==
  \E w \in DOMAIN workers :
    /\ workers[w].stage = "pret" /\ workers[w].call = "tous-emojis"
    /\ Moves(w, "lecture")
    /\ UNCHANGED page

(* BlockCache: a block it holds goes last when it is served again; one     *)
(* just read goes last, and the first is evicted when there are too many.  *)
ServeAgain(cache, i) ==
  SubSeq(cache, 1, i - 1) \o SubSeq(cache, i + 1, Len(cache)) \o <<cache[i]>>

Keep(cache, b, what) ==
  LET kept == Append(cache, [block |-> b, what |-> what])
  IN  IF Len(kept) > MaxBlocks THEN Tail(kept) ELSE kept

Cached(cache, b) == \E i \in DOMAIN cache : cache[i].block = b

(* mutant: a 200 is taken for the range.                                   *)
ReceivedAnyway(backend) == {206, 200}

(* The answers of a host taken for a range; a file always gives its own.   *)
Received(backend) == {206}

Statuses(backend) == IF backend = "http" THEN {206, 200, 404} ELSE {206}

(* One xRead of the query at work: a 200 carries the file from its start.  *)
ReadBlock ==
  \E w \in DOMAIN workers, b \in 1..Blocks :
    LET k == workers[w]
    IN  /\ k.stage = "lecture"
        /\ IF Cached(k.cache, b)
           THEN \E i \in DOMAIN k.cache :
                  /\ k.cache[i].block = b
                  /\ workers' = [workers EXCEPT ![w].cache = ServeAgain(@, i)]
           ELSE \E status \in Statuses(k.backend) :
                  IF status \in Received(k.backend)
                  THEN workers' = [workers EXCEPT
                         ![w].cache = Keep(@, b, IF status = 206 THEN b ELSE 1)]
                  ELSE Moves(w, "echec")
        /\ UNCHANGED page

(* The query ends: an opening accepts the file by its tables.              *)
QueryDone ==
  \E w \in DOMAIN workers :
    /\ workers[w].stage = "lecture" /\ workers[w].cache # <<>>
    /\ Moves(w, IF workers[w].call = "ouvrir" /\ workers[w].tables # "index"
                THEN "echec" ELSE "reponse")
    /\ UNCHANGED page

(* The answer reaches the page: the opening is followed by the emojis, and *)
(* only then is the client in place, over the one there may already be.    *)
Resolve ==
  \E w \in DOMAIN workers :
    /\ workers[w].stage = "reponse"
    /\ workers' = [workers EXCEPT ![w].stage = "pret",
                                  ![w].call = IF @ = "ouvrir" THEN "tous-emojis" ELSE "aucun"]
    /\ page' = IF workers[w].call = "ouvrir" THEN page ELSE [page EXCEPT !.client = w]

Reject ==
  \E w \in DOMAIN workers :
    /\ workers[w].stage = "echec"
    /\ workers' = [workers EXCEPT ![w].stage = "pret", ![w].call = "aucun"]
    /\ page' = Refused

BootNext ==
  \/ Detect \/ Designate
  \/ ModuleLoads \/ ModuleFails \/ OpenCache \/ EmojiCall
  \/ ReadBlock \/ QueryDone \/ Resolve \/ Reject

BootSpec == BootInit /\ [][BootNext]_bootVars

-----------------------------------------------------------------------------
(* A page that says it is opening an index has an answer coming, from a    *)
(* worker that is not dead, however many files were dropped meanwhile and  *)
(* whichever failed.  The index it ends on has every table, and every      *)
(* block it was, or will be, read from is the file's own: never the start  *)
(* of the file served for another range.                                   *)
OpeningEndsOnTheFile ==
  /\ page.occupe /\ page.client = 0 =>
       \E w \in DOMAIN workers : workers[w].call # "aucun" /\ workers[w].stage # "mort"
  /\ page.client > 0 =>
       /\ workers[page.client].db /\ workers[page.client].tables = "index"
       /\ LET cache == workers[page.client].cache
          IN  /\ Len(cache) <= MaxBlocks
              /\ \A i \in DOMAIN cache : cache[i].what = cache[i].block
=============================================================================
