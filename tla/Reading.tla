------------------------------- MODULE Reading -------------------------------
(***************************************************************************)
(* The web interface over a finished index (packages/viewer/web/src): the  *)
(* view of a channel and its list of messages, the search, the panel of a  *)
(* thread and the permalinks.  Every question to the archive is a promise: *)
(* the reader moves on meanwhile, answers come in any order, late ones of  *)
(* a component that asked again or is gone are dropped by its `cancelled`  *)
(* flag.  `mode` is who answers, the server or the worker of the page.     *)
(***************************************************************************)
EXTENDS ViewerIndex

CONSTANTS
  Archive,     \* the archive the index was built from
  Queries,     \* what the reader may search for: token sequences; <<>> is a blank
  Offset,      \* the reader's offset from Greenwich, that of today for every date
  Limit,       \* messages of a page
  Around,      \* messages of a context, on each side
  MaxCalls     \* bound: questions not answered yet

ASSUME ReadingAssumption == WellFormed(Archive) /\ Limit \in Nat \ {0}

(* What the scanner of the search makes: tokens, and dates that are days.   *)
IsQuery(q) ==
  /\ q \in Seq({q[i] : i \in DOMAIN q})
  /\ \A i \in DOMAIN q :
       /\ q[i].neg \in BOOLEAN
       /\ q[i].mod \in {"word", "in", "from", "on", "after", "before"}
       /\ q[i].mod \in {"on", "after", "before"} => q[i].value \in Int
ASSUME QueriesAssumption == Offset \in Int /\ \A q \in Queries : IsQuery(q)

(* The identifier and the name of an account are its own on the instance it *)
(* was extracted from; the schema of the index asks it of the identifier.   *)
ASSUME AccountsAssumption ==
  LET users == Archive.users IN
  /\ users \in Seq({users[i] : i \in DOMAIN users})
  /\ \A i, j \in DOMAIN users : users[i].uid = users[j].uid \/ users[i].name = users[j].name
                                => i = j
  /\ \A i \in DOMAIN users : users[i].name # NoOne

VARIABLES
  mode,     \* "serveur" or "lite"
  route,    \* what the address asks for
  list,     \* the channel view: None until its messages came
  search,   \* the search view
  panel,    \* the thread panel: None when closed
  calls     \* questions asked: [n, ask, live], live until cancelled

readingVars == <<mode, route, list, search, panel, calls>>

X == Index(Archive, Finished)

None == [ids |-> {}, next |-> -2]
Loading == [ids |-> {}, next |-> -3]
Broken == [ids |-> {}, next |-> -4]
NoRoute == [view |-> "accueil"]
Fresh == [outcome |-> None, busy |-> FALSE, broken |-> FALSE]
Closed == [root |-> 0, bundle |-> None]

(* An address may name a message of another channel than its own.          *)
Routes ==
  {NoRoute}
    \cup {[view |-> "canal", ch |-> ch, focus |-> 0] : ch \in DOMAIN X.channels}
    \cup {[view |-> "canal", ch |-> ch, focus |-> r] :
            ch \in DOMAIN X.channels, r \in DOMAIN X.posts}
    \cup [view : {"recherche"}, query : Queries]
    \cup [view : {"permalien"}, pid : {p.pid : p \in Archive.posts}]

ReadingInit ==
  /\ mode \in {"serveur", "lite"}
  /\ route = NoRoute
  /\ list = Broken /\ search = Fresh /\ panel = Closed
  /\ calls = {}

-----------------------------------------------------------------------------
(* Questions and their answers                                             *)

(* mutant: effects clean nothing up.                                       *)
AskedAndForgotten(cs, kinds, new) ==
  LET n == CHOOSE i \in 1..(Cardinality(cs) + 1) : \A c \in cs : c.n # i
  IN  cs \cup {[n |-> n, ask |-> a, live |-> TRUE] : a \in new}

(* The calls once those of some kinds are cancelled and one is added.      *)
Asked(cs, kinds, new) ==
  LET kept == {[c EXCEPT !.live = @ /\ c.ask.kind \notin kinds] : c \in cs}
      n == CHOOSE i \in 1..(Cardinality(cs) + 1) : \A c \in cs : c.n # i
  IN  kept \cup {[n |-> n, ask |-> a, live |-> TRUE] : a \in new}

(* What every client promises, whatever follows a context.                 *)
Pages(ask, cursor) ==
  CASE ask.kind = "canal" /\ ask.focus = 0 -> ChannelPage(X, ask.ch, 0, Limit)
    [] ask.kind = "canal" /\ ask.focus # 0 ->
         [ids |-> Context(X, ask.focus, Around), next |-> cursor]
    [] ask.kind = "suite" ->
         ChannelPage(X, ask.ch, IF ask.before = Undefined THEN 0 ELSE ask.before, Limit)
    [] ask.kind = "recherche" -> Search(X, ask.query, Offset, Limit)
    [] ask.kind = "fil" -> [ids |-> Thread(X, ask.root), next |-> Null]

(* The routes of app.ts: a context goes without a cursor.                  *)
ServerAnswer(ask) == Pages(ask, Undefined)

(* The methods of the worker, over the same queries: it has a null one.    *)
WorkerAnswer(ask) == Pages(ask, Null)

(* HttpArchiveClient or WorkerArchiveClient.                               *)
Answer(ask) == IF mode = "serveur" THEN ServerAnswer(ask) ELSE WorkerAnswer(ask)

-----------------------------------------------------------------------------
(* Moving on: the effects that depend on the route                         *)

InChannel(r) == r.view = "canal"
InSearch(r) == r.view = "recherche"

Questions(r) ==
  CASE InChannel(r) -> {[kind |-> "canal", ch |-> r.ch, focus |-> r.focus]}
    [] InSearch(r) /\ r.query # <<>> -> {[kind |-> "recherche", query |-> r.query]}
    [] r.view = "permalien" -> {[kind |-> "permalien", pid |-> r.pid]}
    [] OTHER -> {}

(* A search that follows a search keeps the component, its last outcome    *)
(* and, if the new one is blank, its wait; another view starts afresh.     *)
Searching(r) ==
  IF ~InSearch(r) THEN Fresh
  ELSE LET s == IF InSearch(route) THEN search ELSE Fresh
       IN  IF r.query = <<>> THEN [s EXCEPT !.outcome = None]
           ELSE [s EXCEPT !.busy = TRUE, !.broken = FALSE]

(* The panel closes when the view changes, not when the channel does.      *)
MoveTo(r, cs) ==
  /\ r # route
  /\ route' = r
  /\ list' = IF InChannel(r) THEN Loading ELSE Broken
  /\ search' = Searching(r)
  /\ panel' = IF r.view = route.view THEN panel ELSE Closed
  /\ calls' = Asked(cs,
                    {"canal", "suite", "recherche", "permalien"}
                      \cup (IF r.view = route.view THEN {} ELSE {"fil"}),
                    Questions(r))
  /\ UNCHANGED mode

Navigate ==
  /\ Cardinality(calls) < MaxCalls
  /\ \E r \in Routes : MoveTo(r, calls)

(* The answer of an identifier of Mattermost is an address to go to.       *)
FollowPermalink ==
  \E c \in calls :
    /\ c.ask.kind = "permalien" /\ c.live
    /\ \E r \in DOMAIN X.posts :
         /\ X.posts[r].pid = c.ask.pid
         /\ MoveTo([view |-> "canal", ch |-> X.posts[r].ch, focus |-> r], calls \ {c})

MissingPermalink ==
  \E c \in calls :
    /\ c.ask.kind = "permalien"
    /\ ~c.live \/ \A r \in DOMAIN X.posts : X.posts[r].pid # c.ask.pid
    /\ calls' = calls \ {c}
    /\ UNCHANGED <<mode, route, list, search, panel>>

-----------------------------------------------------------------------------
(* The list of messages                                                    *)

(* The first page, or the context of the message of the address.           *)
Opened ==
  \E c \in calls :
    /\ c.ask.kind = "canal"
    /\ calls' = calls \ {c}
    /\ list' = IF c.live
               THEN LET page == Answer(c.ask)
                    IN  [ids |-> page.ids, next |-> page.next, loading |-> FALSE,
                         failed |-> FALSE, seen |-> [next |-> page.next, loading |-> FALSE]]
               ELSE list
    /\ UNCHANGED <<mode, route, search, panel>>

(* A channel without a message is not among those of the archive.          *)
Shown == /\ InChannel(route) /\ list \notin {None, Loading, Broken}
         /\ OfChannel(X, route.ch) # {}

(* loadMore, as the last rendering of the list closed over it.             *)
Scroll ==
  /\ Shown /\ Cardinality(calls) < MaxCalls
  /\ list.seen.next # Null /\ ~list.seen.loading
  /\ list' = [list EXCEPT !.loading = TRUE, !.failed = FALSE]
  /\ calls' = Asked(calls, {}, {[kind |-> "suite", ch |-> route.ch, before |-> list.seen.next]})
  /\ UNCHANGED <<mode, route, search, panel>>

Render ==
  /\ Shown
  /\ list' = [list EXCEPT !.seen = [next |-> list.next, loading |-> list.loading]]
  /\ list' # list
  /\ UNCHANGED <<mode, route, search, panel, calls>>

(* The older page joins the others. Kept as a set: a page asked twice is    *)
(* shown twice by the list, which this does not tell from once.            *)
Older ==
  \E c \in calls :
    /\ c.ask.kind = "suite"
    /\ calls' = calls \ {c}
    /\ list' = IF c.live
               THEN LET page == Answer(c.ask)
                    IN  [list EXCEPT !.ids = @ \cup page.ids, !.next = page.next,
                                     !.loading = FALSE]
               ELSE list
    /\ UNCHANGED <<mode, route, search, panel>>

-----------------------------------------------------------------------------
(* The search and the thread                                               *)

Searched ==
  \E c \in calls :
    /\ c.ask.kind = "recherche"
    /\ calls' = calls \ {c}
    /\ search' = IF c.live THEN [search EXCEPT !.outcome = Answer(c.ask), !.busy = FALSE]
                 ELSE search
    /\ UNCHANGED <<mode, route, list, panel>>

(* A message with replies opens its thread, over the one that was open.    *)
OpenThread ==
  /\ Shown /\ Cardinality(calls) < MaxCalls
  /\ \E r \in list.ids :
       /\ Replies(X, r) # {} /\ r # panel.root
       /\ panel' = [root |-> r, bundle |-> Loading]
       /\ calls' = Asked(calls, {"fil"}, {[kind |-> "fil", root |-> r]})
  /\ UNCHANGED <<mode, route, list, search>>

CloseThread ==
  /\ panel # Closed
  /\ panel' = Closed
  /\ calls' = Asked(calls, {"fil"}, {})
  /\ UNCHANGED <<mode, route, list, search>>

ThreadRead ==
  \E c \in calls :
    /\ c.ask.kind = "fil"
    /\ calls' = calls \ {c}
    /\ panel' = IF c.live THEN [panel EXCEPT !.bundle = Answer(c.ask)] ELSE panel
    /\ UNCHANGED <<mode, route, list, search>>

(* A call that fails: an error is shown where its answer was awaited.      *)
Fail ==
  \E c \in calls :
    /\ calls' = calls \ {c}
    /\ list' = CASE c.live /\ c.ask.kind = "canal" -> Broken
                 [] c.live /\ c.ask.kind = "suite" ->
                      [list EXCEPT !.failed = TRUE, !.loading = FALSE]
                 [] OTHER -> list
    /\ search' = IF c.live /\ c.ask.kind = "recherche"
                 THEN [search EXCEPT !.broken = TRUE, !.busy = FALSE] ELSE search
    /\ panel' = IF c.live /\ c.ask.kind = "fil" THEN [panel EXCEPT !.bundle = Broken] ELSE panel
    /\ UNCHANGED <<mode, route>>

ReadingNext ==
  \/ Navigate \/ FollowPermalink \/ MissingPermalink
  \/ Opened \/ Scroll \/ Render \/ Older
  \/ Searched \/ OpenThread \/ CloseThread \/ ThreadRead \/ Fail

ReadingSpec == ReadingInit /\ [][ReadingNext]_readingVars

-----------------------------------------------------------------------------
(* What the archive itself says                                            *)

MessagesOf(cid) == {p \in Archive.posts : p.human /\ p.ch = cid /\ p.ch \notin Archive.lost}
Messages == UNION {MessagesOf(Archive.channels[i]) : i \in DOMAIN Archive.channels}
Pids(ids) == {X.posts[r].pid : r \in ids}

NameOf(p) == IF \E u \in DOMAIN Archive.users : Archive.users[u].uid = p.by
             THEN Archive.users[CHOOSE u \in DOMAIN Archive.users :
                                  Archive.users[u].uid = p.by].name
             ELSE NoOne

DayOf(p) == (p.at + Offset) \div Day

(* What a search means, token by token, dates in days of the offset sent.  *)
Wanted(q, p) ==
  /\ Words(q, FALSE) \subseteq p.words /\ Words(q, TRUE) \cap p.words = {}
  /\ Names(q, "in", FALSE) # {} => p.ch \in Names(q, "in", FALSE)
  /\ Names(q, "from", FALSE) # {} => NameOf(p) \in Names(q, "from", FALSE)
  /\ p.ch \notin Names(q, "in", TRUE) /\ NameOf(p) \notin Names(q, "from", TRUE)
  /\ DateOf(q, "on") # NoBound => DayOf(p) = DateOf(q, "on")
  /\ DateOf(q, "after") # NoBound => DayOf(p) > DateOf(q, "after")
  /\ DateOf(q, "before") # NoBound => DayOf(p) < DateOf(q, "before")

(* A channel opened on its end shows, whatever pages came, failed or were  *)
(* asked twice before a rendering, messages of that channel only, without  *)
(* a hole: with a message, every later one.  When it announces the start   *)
(* of what was archived, nothing of the channel is missing.  (A channel    *)
(* opened on one message is left out: its context carries no cursor, see   *)
(* the README.)                                                            *)
NoHoleInChannel ==
  Shown /\ route.focus = 0 =>
    LET theirs == MessagesOf(Archive.channels[route.ch])
        seen == {p \in theirs : p.pid \in Pids(list.ids)}
    IN  /\ Cardinality(seen) = Cardinality(list.ids)
        /\ \A p \in seen, q \in theirs : Before(p, q) => q \in seen
        /\ list.next = Null => seen = theirs

(* A token that names a channel or an account the archive does not have.   *)
NobodyBears(token) ==
  \/ token.mod = "in" /\ \A i \in DOMAIN Archive.channels : Archive.channels[i] # token.value
  \/ token.mod = "from" /\ \A u \in DOMAIN Archive.users : Archive.users[u].name # token.value

(* Whatever the order of the answers, what is on screen answers what is    *)
(* asked now.  A settled search shows the newest messages of the archive   *)
(* that satisfy it; a name nobody bears, negated or not, is never ignored  *)
(* (search-syntax.ts:323-325): nothing is shown; the panel of a thread     *)
(* shows the message it was opened on and all of its replies; a channel    *)
(* opened on a message shows it, and it stays shown.                       *)
ShownIsAsked ==
  /\ InSearch(route) /\ route.query # <<>> /\ ~search.busy /\ ~search.broken =>
       /\ search.outcome # None
       /\ (search.outcome.status = "introuvable") =
            \E i \in DOMAIN route.query : NobodyBears(route.query[i])
       /\ LET matching == {p \in Messages : Wanted(route.query, p)}
              shown == {p \in Messages : p.pid \in Pids(search.outcome.ids)}
          IN  CASE search.outcome.status = "ok" ->
                     /\ shown \subseteq matching
                     /\ Cardinality(shown) = Lower(Limit, Cardinality(matching))
                     /\ \A p \in shown, q \in matching \ shown : Before(q, p)
                     /\ (search.outcome.next = Null) = (shown = matching)
                [] OTHER -> shown = {}
  /\ panel.bundle \notin {None, Loading, Broken} =>
       /\ panel.root # 0
       /\ Pids(panel.bundle.ids) =
            {p.pid : p \in {q \in Messages : X.posts[panel.root].pid \in {q.pid, q.root}}}
  /\ Shown /\ route.focus # 0 => route.focus \in list.ids
=============================================================================
