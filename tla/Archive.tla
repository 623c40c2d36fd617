------------------------------- MODULE Archive -------------------------------
(* The files of an archive and what `verify` reads in them                  *)
(* (extractor/src/verify/checks.ts).  An archive is a record:               *)
(*   posts     channel -> sequence of posts, one posts/<id>.ndjson each     *)
(*   users, files, emojis, channels   sequences of rows, in file order      *)
(*   blobs, avatars   the binaries on disk, by file id and by account       *)
(*   stray     the names of work files left behind                          *)
(*   manifest  counts, range and marks, readable or not                     *)
EXTENDS Naturals, Sequences, FiniteSets, FiniteSetsExt, SequencesExt

\* The fields of a row, and of an archive: nothing is said of what they hold.
IsPost(p) == p = [id |-> p.id, at |-> p.at, user |-> p.user, reactors |-> p.reactors,
                  files |-> p.files, sys |-> p.sys, text |-> p.text, props |-> p.props]
IsUser(u) == u = [id |-> u.id, username |-> u.username, names |-> u.names, avatar |-> u.avatar,
                  email |-> u.email]
IsFile(f) == f = [id |-> f.id, user |-> f.user, path |-> f.path, name |-> f.name, ext |-> f.ext]
Kinds == {"mention", "adresse", "adresseMention", "identifiant", "telephone", "mot", "compose"}
IsText(t) == \A i \in DOMAIN t :
    /\ t[i].kind \in Kinds
    /\ t[i] = [kind |-> t[i].kind, v |-> t[i].v, lead |-> t[i].lead, trail |-> t[i].trail]
    /\ Len(t[i].v) \in Nat
IsEmoji(e) == e = [id |-> e.id, user |-> e.user]
AreRows(rows) == rows \in Seq(ToSet(rows))

IsArchive(a) ==
    /\ a = [posts |-> a.posts, users |-> a.users, files |-> a.files, emojis |-> a.emojis,
            channels |-> a.channels, blobs |-> a.blobs, avatars |-> a.avatars,
            stray |-> a.stray, manifest |-> a.manifest]
    /\ a.posts = [c \in DOMAIN a.posts |-> a.posts[c]]
    /\ \A c \in DOMAIN a.posts :
         AreRows(a.posts[c]) /\ \A p \in ToSet(a.posts[c]) : IsPost(p)
    /\ AreRows(a.users) /\ \A u \in ToSet(a.users) : IsUser(u)
    /\ AreRows(a.files) /\ \A f \in ToSet(a.files) : IsFile(f)

IsManifest(m) ==
    /\ m = [readable |-> m.readable, counts |-> m.counts, range |-> m.range, joined |-> m.joined,
            joinedList |-> m.joinedList, operator |-> m.operator, url |-> m.url]
    /\ m.counts = [channels |-> m.counts.channels, posts |-> m.counts.posts,
                   users |-> m.counts.users, emojis |-> m.counts.emojis,
                   attachments |-> m.counts.attachments]

\* What the rows and the manifest hold, where it is read.
IsFilled(a) ==
    /\ IsManifest(a.manifest) /\ a.manifest.readable \in BOOLEAN
    /\ AreRows(a.channels)
    /\ AreRows(a.emojis) /\ \A e \in ToSet(a.emojis) : IsEmoji(e)
    /\ \A c \in DOMAIN a.posts : \A p \in ToSet(a.posts[c]) :
         /\ p.at \in Nat /\ p.sys \in BOOLEAN /\ IsText(p.text)
         /\ "attachments" \in DOMAIN p.props => IsText(p.props["attachments"])

\* The rows that are in K, in the order of the file: what a filter in code keeps.
Those(rows, K) ==
    LET upto[n \in 0..Len(rows)] ==
          IF n = 0 THEN <<>>
          ELSE IF rows[n] \in K THEN Append(upto[n - 1], rows[n]) ELSE upto[n - 1]
    IN  upto[Len(rows)]

Ids(rows) == {r.id : r \in ToSet(rows)}
Repeats(rows) == Len(rows) # Cardinality(Ids(rows))

PostsOf(a) == UNION {ToSet(a.posts[c]) : c \in DOMAIN a.posts}
Lines(posts) == MapThenSumSet(LAMBDA c : Len(posts[c]), DOMAIN posts)
PostLines(a) == Lines(a.posts)

\* Infinity and 0 in the code: no post, no range to compare.
Created(a) == {p.at : p \in PostsOf(a)}
PostRange(a) == IF Created(a) = {} THEN <<>>
                ELSE <<Min(Created(a)), Max(Created(a))>>

WithBlob(a) == Those(a.files, {f \in ToSet(a.files) : f.path})

Counted(a) == [channels |-> Cardinality(Ids(a.channels)),
               posts |-> PostLines(a),
               users |-> Cardinality(Ids(a.users)),
               emojis |-> Len(a.emojis),
               attachments |-> Len(WithBlob(a))]

ChannelErrors(a) ==
    (IF \E c \in ToSet(a.channels) : ~ c.public
     THEN {"tous les canaux sont publics"} ELSE {})
    \cup (IF Repeats(a.channels) THEN {"aucun canal en double"} ELSE {})

RowErrors(a) ==
    (IF Repeats(a.users) THEN {"aucun utilisateur en double"} ELSE {})
    \cup (IF Repeats(a.files) THEN {"aucune piece jointe en double"} ELSE {})

InOrder(ps) == \A i \in 2..Len(ps) : ps[i - 1].at <= ps[i].at

PostErrors(a) ==
    {e.label : e \in {e \in {
       [label |-> "messages tries", broken |->
          \E c \in DOMAIN a.posts : ~ InOrder(a.posts[c])],
       [label |-> "aucun message en double", broken |->
          \E c \in DOMAIN a.posts : Repeats(a.posts[c])],
       [label |-> "tout auteur a une fiche", broken |->
          \E p \in PostsOf(a) : p.user # "" /\ p.user \notin Ids(a.users)],
       [label |-> "toute piece jointe est decrite", broken |->
          \E p \in PostsOf(a) : ~ (p.files \subseteq Ids(a.files))],
       [label |-> "tout canal est decrit", broken |->
          ~ (DOMAIN a.posts \subseteq Ids(a.channels))]} : e.broken}}

BlobErrors(a) ==
    IF \E f \in ToSet(WithBlob(a)) : f.id \notin a.blobs
    THEN {"chaque piece jointe existe sur disque"} ELSE {}

ManifestErrors(a) ==
    {k \in DOMAIN Counted(a) : a.manifest.counts[k] # Counted(a)[k]}
    \cup (IF a.manifest.range # <<>> /\ PostRange(a) # <<>>
             /\ a.manifest.range # PostRange(a)
          THEN {"post_range"} ELSE {})
    \cup (IF a.manifest.joined # Len(a.manifest.joinedList)
          THEN {"canaux rejoints traces"} ELSE {})

(* verifyArchive, with --check-blobs: the labels of its errors.             *)
Verify(a) ==
    IF ~ a.manifest.readable THEN {"manifest.json lisible"}
    ELSE ChannelErrors(a) \cup RowErrors(a) \cup PostErrors(a)
         \cup BlobErrors(a) \cup ManifestErrors(a)
=============================================================================
