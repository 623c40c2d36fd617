----------------------------- MODULE ViewerIndex -----------------------------
(***************************************************************************)
(* What buildIndex makes of an archive, and the queries over it            *)
(* (packages/viewer/src/index, src/query).                                 *)
(*                                                                         *)
(* An archive is a record: its channels and its users in file order, the   *)
(* channels without a post file, and its posts.  The index numbers the     *)
(* posts of people from 1 in chronological order; every query works on     *)
(* these numbers.  A message is the set of its words: how words are cut,   *)
(* folded and quoted is the business of FTS5 and is left out.              *)
(***************************************************************************)
EXTENDS Integers, Sequences, FiniteSets

CONSTANTS
  Day,       \* length of a day, in the unit of create_at
  NoOne,     \* the name no channel and no account bears
  NoBound    \* undefined: no date given, no bound in time

ASSUME DayAssumption == Day \in Nat \ {0} /\ NoBound \notin Int

(* mutant: the full-text table is created with the others.                 *)
StepsAllTables == <<"ddl", "search", "referentials", "numbered", "texts", "threads",
                    "orphans", "filled", "counted", "done">>

(* The statements of fill, in order: what is on disk after each of them.   *)
Steps == <<"ddl", "referentials", "numbered", "texts", "threads", "orphans",
           "search", "filled", "counted", "done">>

Finished == Len(Steps)
After(k, step) == \E i \in 1..k : Steps[i] = step

(* The position of an element of an injective sequence, 0 when absent.     *)
Position(s, x) == IF \E i \in DOMAIN s : s[i] = x
                  THEN CHOOSE i \in DOMAIN s : s[i] = x
                  ELSE 0

UserId(a, uid) == Position([i \in DOMAIN a.users |-> a.users[i].uid], uid)

(* stagePosts: the posts of people, in the channels listed and present.    *)
Kept(a) == {p \in a.posts : /\ p.human
                            /\ Position(a.channels, p.ch) # 0
                            /\ p.ch \notin a.lost}

(* What the statements rest on: identifiers and dates that compare, and one *)
(* message per identifier, or the unique index post_pid, created as soon as *)
(* the messages are numbered, ends the build.                              *)
WellFormed(a) ==
  /\ IsFiniteSet(a.posts) /\ a.channels \in Seq({a.channels[i] : i \in DOMAIN a.channels})
  /\ \A p \in a.posts : p.pid \in Nat \ {0} /\ p.at \in Int
  /\ \A p, q \in Kept(a) : p.pid = q.pid => p = q

(* ROW_NUMBER() OVER (ORDER BY create_at, pid).                            *)
Before(p, q) == p.at < q.at \/ (p.at = q.at /\ p.pid < q.pid)
RowId(a, p) == Cardinality({q \in Kept(a) : Before(q, p)}) + 1
RowOf(a, pid) == IF \E p \in Kept(a) : p.pid = pid
                 THEN RowId(a, CHOOSE p \in Kept(a) : p.pid = pid)
                 ELSE 0

Row(a, k, p) ==
  [pid    |-> p.pid,
   ch     |-> Position(a.channels, p.ch),
   usr    |-> UserId(a, p.by),
   at     |-> p.at,
   root   |-> IF After(k, "threads") /\ p.root # 0 THEN RowOf(a, p.root) ELSE 0,
   orphan |-> After(k, "orphans") /\ p.root # 0 /\ RowOf(a, p.root) = 0,
   words  |-> IF After(k, "texts") THEN p.words ELSE {}]

(* The index file after its k first steps.                                 *)
Index(a, k) ==
  [posts    |-> IF After(k, "numbered")
                THEN [r \in 1..Cardinality(Kept(a)) |->
                        Row(a, k, CHOOSE p \in Kept(a) : RowId(a, p) = r)]
                ELSE <<>>,
   channels |-> IF After(k, "referentials") THEN a.channels ELSE <<>>,
   users    |-> IF After(k, "referentials") THEN a.users ELSE <<>>,
   found    |-> After(k, "filled"),
   counted  |-> After(k, "counted")]

(* missingIndexTables over a file: all but the search table come at once.  *)
HasEveryTable(k) == After(k, "ddl") /\ After(k, "search")

-----------------------------------------------------------------------------
(* Pages                                                                   *)

Newest(S, n) == {r \in S : Cardinality({q \in S : q > r}) < n}
Oldest(S, n) == {r \in S : Cardinality({q \in S : q < r}) < n}
Least(S) == CHOOSE r \in S : \A q \in S : r <= q

Null == 0        \* nextCursor: null, nothing is left to read
Undefined == -1  \* nextCursor left out of the answer

(* mutant: the cursor is the row read to know that there is more.          *)
PaginatePastTheEnd(S, limit) ==
  IF Cardinality(S) <= limit
  THEN [ids |-> S, next |-> Null]
  ELSE [ids |-> Newest(S, limit), next |-> Least(S)]

(* paginate over the limit + 1 rows a query asked for.                     *)
Paginate(S, limit) ==
  IF Cardinality(S) <= limit
  THEN [ids |-> S, next |-> Null]
  ELSE [ids |-> Newest(S, limit), next |-> Least(Newest(S, limit))]

OfChannel(x, ch) == {r \in DOMAIN x.posts : x.posts[r].ch = ch}

(* listChannelMessages: before = 0 stands for no cursor.                   *)
ChannelPage(x, ch, before, limit) ==
  Paginate(Newest({r \in OfChannel(x, ch) : before = 0 \/ r < before}, limit + 1), limit)

(* getMessageContext: the messages around one, in its channel.             *)
Context(x, id, around) ==
  LET there == OfChannel(x, x.posts[id].ch)
  IN  Newest({r \in there : r < id}, around)
        \cup {id} \cup Oldest({r \in there : r > id}, around)

Replies(x, root) == {r \in DOMAIN x.posts : x.posts[r].root = root}

(* getThread, as the route and the worker assemble it.                     *)
Thread(x, root) == (DOMAIN x.posts \cap {root}) \cup Replies(x, root)

-----------------------------------------------------------------------------
(* Search: a query is a sequence of tokens [neg, mod, value]               *)

Words(q, neg) == {q[i].value : i \in {j \in DOMAIN q : q[j].mod = "word" /\ q[j].neg = neg}}
Names(q, mod, neg) == {q[i].value : i \in {j \in DOMAIN q : q[j].mod = mod /\ q[j].neg = neg}}

(* The last valid date given to a modifier: whether it is negated is not    *)
(* looked at.                                                              *)
DateOf(q, mod) ==
  LET given == {i \in DOMAIN q : q[i].mod = mod}
  IN  IF given = {} THEN NoBound ELSE q[CHOOSE i \in given : \A j \in given : j <= i].value

StartOfDay(d, offset) == d * Day - offset

Higher(a, b) == IF a >= b THEN a ELSE b
Lower(a, b) == IF a <= b THEN a ELSE b

(* timeRangeFor: before and after leave out the whole day they name.       *)
FromMs(q, offset) ==
  LET on == DateOf(q, "on")
      after == DateOf(q, "after")
      first == IF on = NoBound THEN NoBound ELSE StartOfDay(on, offset)
      bound == StartOfDay(after, offset) + Day
  IN  IF after = NoBound THEN first ELSE IF first = NoBound THEN bound ELSE Higher(first, bound)

ToMs(q, offset) ==
  LET on == DateOf(q, "on")
      before == DateOf(q, "before")
      last == IF on = NoBound THEN NoBound ELSE StartOfDay(on, offset) + Day - 1
      bound == StartOfDay(before, offset) - 1
  IN  IF before = NoBound THEN last ELSE IF last = NoBound THEN bound ELSE Lower(last, bound)

(* rowidAtOrAfter: the bisection over the chronological numbers.           *)
RowidAtOrAfter(x, t) ==
  LET n == Len(x.posts)
      bisect[i \in (1..(n + 1)) \X (1..(n + 1))] ==
        LET low == i[1]
            high == i[2]
            middle == (low + high) \div 2
        IN  IF low >= high THEN low
            ELSE IF x.posts[middle].at >= t THEN bisect[<<low, middle>>]
            ELSE bisect[<<middle + 1, high>>]
  IN  bisect[<<1, n + 1>>]

(* createResolver.                                                         *)
ChannelNamed(x, name) == Position(x.channels, name)
UserNamed(x, name) == Position([i \in DOMAIN x.users |-> x.users[i].name], name)

Unresolved(x, q) ==
  {n \in Names(q, "in", FALSE) \cup Names(q, "in", TRUE) : ChannelNamed(x, n) = 0}
    \cup {n \in Names(q, "from", FALSE) \cup Names(q, "from", TRUE) : UserNamed(x, n) = 0}

ChannelsIn(x, q, neg) == {ChannelNamed(x, n) : n \in Names(q, "in", neg)}
UsersIn(x, q, neg) == {UserNamed(x, n) : n \in Names(q, "from", neg)}

Positive(q) == \E i \in DOMAIN q : ~q[i].neg /\ q[i].mod \in {"word", "in", "from"}
Negative(q) == \E i \in DOMAIN q : q[i].neg /\ q[i].mod \in {"word", "in", "from"}
Dated(q) == \E i \in DOMAIN q : q[i].mod \in {"on", "after", "before"}

(* The MATCH expression of compileSearch, over the row of a message.       *)
Matches(x, q, r) ==
  LET m == x.posts[r]
  IN  \/ ~Positive(q)
      \/ /\ Words(q, FALSE) \subseteq m.words
         /\ Names(q, "in", FALSE) # {} => m.ch \in ChannelsIn(x, q, FALSE)
         /\ Names(q, "from", FALSE) # {} => m.usr \in UsersIn(x, q, FALSE)
         /\ Words(q, TRUE) \cap m.words = {}
         /\ m.ch \notin ChannelsIn(x, q, TRUE)
         /\ m.usr \notin UsersIn(x, q, TRUE)

(* compileSearch, then the rows asked for by searchMessages.               *)
Search(x, q, offset, limit) ==
  LET from == FromMs(q, offset)
      to == ToMs(q, offset)
      rows == {r \in DOMAIN x.posts :
                 /\ x.found
                 /\ Matches(x, q, r)
                 /\ from # NoBound => r >= RowidAtOrAfter(x, from)
                 /\ to # NoBound => r < RowidAtOrAfter(x, to + 1)}
      found == Paginate(Newest(rows, limit + 1), limit)
  IN  CASE Unresolved(x, q) # {} -> [status |-> "introuvable", ids |-> {}, next |-> Null]
        [] Unresolved(x, q) = {} /\ ~Positive(q) /\ Negative(q)
             -> [status |-> "sans-terme-positif", ids |-> {}, next |-> Null]
        [] Unresolved(x, q) = {} /\ ~Positive(q) /\ ~Negative(q) /\ ~Dated(q)
             -> [status |-> "vide", ids |-> {}, next |-> Null]
        [] OTHER -> [status |-> "ok", ids |-> found.ids, next |-> found.next]
=============================================================================
