------------------------------ MODULE Redaction ------------------------------
(* mmarchive-redact (extractor/src/redact/redact-archive.ts): one erasure   *)
(* request applied in place to an archive, file after file, by a process    *)
(* that may stop between any two of its writes.                             *)
EXTENDS Archive, TLC

CONSTANTS Sources,      \* the archives a run starts from
          Requests,     \* the erasure requests, [user, mode]
          MaxRequests,  \* bound: how many of them are made, each any number of times
          MaxStops      \* bound: how often the process is interrupted

VARIABLES src,          \* the archive on disk
          rd,           \* the redaction under way
          orig,         \* history: the archive before any request
          begun,        \* history: the requests started
          unfinished,   \* history: the started requests that never completed since
          stops

redactVars == <<src, rd, orig, begun, unfinished, stops>>

Pseudonym(u) == "anon-" \o u

ASSUME SourcesAssumption == \A a \in Sources : IsArchive(a) /\ IsFilled(a)
\* An identifier of Mattermost has no dash.
ASSUME PseudonymAssumption == \A q \in Requests : Pseudonym(q.user) # q.user

(*--------------- what the theorems assume of the archives ----------------*)
\* The archives a run starts from pass verify.
Verified == \A a \in Sources : Verify(a) = {}

\* Pseudonyms are distinct, and none is an account of an archive.
PseudonymsAreNew ==
    /\ \A q, r \in Requests : Pseudonym(q.user) = Pseudonym(r.user) => q.user = r.user
    /\ \A q, r \in Requests : Pseudonym(q.user) # r.user
    /\ \A q \in Requests : q.user # "" /\ Pseudonym(q.user) # ""
    /\ \A a \in Sources : \A q \in Requests : Pseudonym(q.user) \notin Ids(a.users)

\* An account attaches its own uploads only: the server refuses the others.
OwnFiles == \A a \in Sources : \A p \in PostsOf(a) : \A f \in ToSet(a.files) :
    f.id \in p.files => f.user = p.user

NoRequest == [user |-> "", mode |-> ""]
Idle == [pc |-> "idle", request |-> NoRequest, left |-> {}, temp |-> <<>>, doomed |-> {}]

RedactInit ==
    /\ src \in Sources
    /\ orig = src
    /\ rd = Idle
    /\ begun = {} /\ unfinished = {}
    /\ stops = 0

(*---------------------------- the rewritten rows -------------------------*)
\* rewriteNdjson: the rows the transformation keeps, transformed.
Rewrite(rows, Kept(_), New(_)) ==
    LET kept == Those(rows, {r \in ToSet(rows) : Kept(r)}) IN [i \in DOMAIN kept |-> New(kept[i])]

\* mutant: the reactions of the account stay
RedactPostsKeepsReactions(posts, q) ==
    Rewrite(posts, LAMBDA p : ~ (p.user = q.user /\ q.mode = "remove"),
        LAMBDA p : [p EXCEPT !.user = IF @ = q.user THEN Pseudonym(q.user) ELSE @])

RedactPosts(posts, q) ==
    Rewrite(posts,
        LAMBDA p : ~ (p.user = q.user /\ q.mode = "remove"),
        LAMBDA p : [p EXCEPT !.reactors = @ \ {q.user},
                             !.user = IF @ = q.user THEN Pseudonym(q.user) ELSE @])

RedactUsers(users, q) ==
    Rewrite(users,
        LAMBDA u : ~ (u.id = q.user /\ q.mode = "remove"),
        LAMBDA u : IF u.id # q.user THEN u
                   ELSE [u EXCEPT !.id = Pseudonym(q.user), !.names = {},
                                  !.username = Pseudonym(q.user), !.avatar = FALSE])

\* mutant: every row kept takes the pseudonym
RedactFilesOfAnyone(files, q) ==
    Rewrite(files, LAMBDA f : ~ (f.user = q.user /\ q.mode = "remove"),
        LAMBDA f : [f EXCEPT !.user = Pseudonym(q.user)])

RedactFiles(files, q) ==
    Rewrite(files,
        LAMBDA f : ~ (f.user = q.user /\ q.mode = "remove"),
        LAMBDA f : IF f.user # q.user THEN f ELSE [f EXCEPT !.user = Pseudonym(q.user)])

\* The paths collected while files.ndjson is rewritten, in memory only.
Doomed(a, q) == IF q.mode # "remove" THEN {}
                ELSE {f.id : f \in {f \in ToSet(WithBlob(a)) : f.user = q.user}}

(*------------------------------- the steps -------------------------------*)
AfterPosts(left) == IF left = {} THEN "users" ELSE "posts"

\* mutant: the binaries go first
StartRedactErases(q) ==
    /\ rd.pc = "idle" /\ Cardinality(begun \cup {q}) <= MaxRequests
    /\ rd' = [Idle EXCEPT !.pc = AfterPosts(DOMAIN src.posts), !.request = q,
                          !.left = DOMAIN src.posts]
    /\ begun' = begun \cup {q}
    /\ unfinished' = unfinished \cup {q}
    /\ src' = [src EXCEPT !.blobs = @ \ Doomed(src, q)]
    /\ UNCHANGED <<orig, stops>>

\* The manifest exists, the avatar can be probed; the simulation writes nothing
\* and is not a step.
StartRedact(q) ==
    /\ rd.pc = "idle" /\ Cardinality(begun \cup {q}) <= MaxRequests
    /\ rd' = [Idle EXCEPT !.pc = AfterPosts(DOMAIN src.posts), !.request = q,
                          !.left = DOMAIN src.posts]
    /\ begun' = begun \cup {q}
    /\ unfinished' = unfinished \cup {q}
    /\ UNCHANGED <<src, orig, stops>>

\* The name of the file the redaction rewrites next: posts/ in directory order,
\* then users.ndjson, then files.ndjson.
NextFiles == CASE rd.pc = "posts" -> {<<"posts", c>> : c \in rd.left}
               [] rd.pc \in {"users", "files"} -> {<<"root", rd.pc>>}
               [] OTHER -> {}

OpenTemporary(f) ==
    /\ rd.temp = <<>> /\ f \in NextFiles
    /\ rd' = [rd EXCEPT !.temp = f]
    /\ src' = [src EXCEPT !.stray = @ \cup {f}]
    /\ UNCHANGED <<orig, begun, unfinished, stops>>

RenamePosts ==
    /\ rd.temp # <<>> /\ rd.pc = "posts"
    /\ LET c == rd.temp[2] IN
         /\ src' = [src EXCEPT !.posts[c] = RedactPosts(@, rd.request),
                               !.stray = @ \ {rd.temp}]
         /\ rd' = [rd EXCEPT !.temp = <<>>, !.left = @ \ {c},
                             !.pc = AfterPosts(rd.left \ {c})]
    /\ UNCHANGED <<orig, begun, unfinished, stops>>

RenameUsers ==
    /\ rd.temp # <<>> /\ rd.pc = "users"
    /\ src' = [src EXCEPT !.users = RedactUsers(@, rd.request), !.stray = @ \ {rd.temp}]
    /\ rd' = [rd EXCEPT !.temp = <<>>, !.pc = "files"]
    /\ UNCHANGED <<orig, begun, unfinished, stops>>

RenameFiles ==
    /\ rd.temp # <<>> /\ rd.pc = "files"
    /\ src' = [src EXCEPT !.files = RedactFiles(@, rd.request), !.stray = @ \ {rd.temp}]
    /\ rd' = [rd EXCEPT !.temp = <<>>, !.pc = "blobs", !.doomed = Doomed(src, rd.request)]
    /\ UNCHANGED <<orig, begun, unfinished, stops>>

EraseBlob(f) ==
    /\ rd.pc = "blobs" /\ f \in rd.doomed
    /\ src' = [src EXCEPT !.blobs = @ \ {f}]
    /\ rd' = [rd EXCEPT !.doomed = @ \ {f}]
    /\ UNCHANGED <<orig, begun, unfinished, stops>>

EraseAvatar ==
    /\ rd.pc = "blobs" /\ rd.doomed = {}
    /\ src' = [src EXCEPT !.avatars = @ \ {rd.request.user}]
    /\ rd' = [rd EXCEPT !.pc = "manifest"]
    /\ UNCHANGED <<orig, begun, unfinished, stops>>

\* mutant: the attachments are not counted again
RefreshedButAttachments(a) ==
    [a.manifest EXCEPT
        !.counts.posts = PostLines(a), !.counts.users = Len(a.users),
        !.range = IF PostRange(a) = <<>> THEN @ ELSE PostRange(a)]

\* counts.channels, emojis and teams are kept; an empty archive keeps its range.
Refreshed(a) ==
    [a.manifest EXCEPT
        !.counts.posts = PostLines(a),
        !.counts.users = Len(a.users),
        !.counts.attachments = Len(WithBlob(a)),
        !.range = IF PostRange(a) = <<>> THEN @ ELSE PostRange(a)]

\* An unreadable manifest is left as it is, without a word.
RefreshManifest ==
    /\ rd.pc = "manifest"
    /\ src' = IF src.manifest.readable THEN [src EXCEPT !.manifest = Refreshed(src)] ELSE src
    /\ rd' = [rd EXCEPT !.pc = "done"]
    /\ unfinished' = unfinished \ {rd.request}
    /\ UNCHANGED <<orig, begun, stops>>

EndRedact ==
    /\ rd.pc = "done"
    /\ rd' = Idle
    /\ UNCHANGED <<src, orig, begun, unfinished, stops>>

\* The process dies, or a system call throws: what is on disk stays, the
\* collected paths are lost; the manifest, written in place, may be torn.
StopRedact ==
    /\ rd.pc \notin {"idle", "done"} /\ stops < MaxStops
    /\ stops' = stops + 1
    /\ rd' = Idle
    /\ \/ UNCHANGED src
       \/ rd.pc = "manifest" /\ src' = [src EXCEPT !.manifest.readable = FALSE]
    /\ UNCHANGED <<orig, begun, unfinished>>

RedactNext ==
    \/ \E q \in Requests : StartRedact(q)
    \/ \E f \in NextFiles : OpenTemporary(f)
    \/ RenamePosts \/ RenameUsers \/ RenameFiles
    \/ \E f \in rd.doomed : EraseBlob(f)
    \/ EraseAvatar \/ RefreshManifest \/ EndRedact \/ StopRedact

(*------------------------------- properties ------------------------------*)
\* Every row of files.ndjson that names a binary finds it on disk, at every
\* instant and after any interruption: rows go before binaries.
RowsNeverDangle == BlobErrors(src) = {}

Asked == {q.user : q \in begun}
Named(asked) == asked \cup {Pseudonym(u) : u \in asked}
StrippedPosts(posts, asked) ==
    Rewrite(posts, LAMBDA p : p.user \notin Named(asked),
        LAMBDA p : [p EXCEPT !.reactors = @ \ asked])
StrippedUsers(users, asked) == Those(users, {u \in ToSet(users) : u.id \notin Named(asked)})
StrippedFiles(files, asked) == Those(files, {f \in ToSet(files) : f.user \notin Named(asked)})
Stripped(a, asked) ==
    [posts |-> [c \in DOMAIN a.posts |-> StrippedPosts(a.posts[c], asked)],
     users |-> StrippedUsers(a.users, asked),
     files |-> StrippedFiles(a.files, asked),
     avatars |-> a.avatars \ asked]

\* Whatever is interrupted or repeated, nothing of the accounts no request
\* names is lost, duplicated or reordered.
OthersUntouched == Stripped(src, Asked) = Stripped(orig, Asked)

\* When a redaction completes and no request was left half done, the archive
\* still passes verify (README.md:426-427: an expurgated archive always passes),
\* unless an earlier interruption tore the manifest, or one account was asked
\* for in both modes: cut between posts/ and users.ndjson, a pseudonymization
\* leaves an author whose row the removal that follows deletes.
BothModes == \E q1, q2 \in begun : q1.user = q2.user /\ q1.mode # q2.mode
CompletedRedactionVerifies ==
    /\ rd.pc = "done" /\ unfinished = {}
    /\ src.manifest.readable /\ ~ BothModes
    => Verify(src) = {}

Mentions(a, u) ==
    \/ \E p \in PostsOf(a) : u = p.user \/ u \in p.reactors
    \/ u \in Ids(a.users)
    \/ \E f \in ToSet(a.files) : f.user = u
    \/ u \in a.avatars

\* A redaction that completes leaves no row and no avatar of the account, even
\* when earlier attempts were cut anywhere and replayed.
ErasedWhenDone == rd.pc = "done" => ~ Mentions(src, rd.request.user)

\* The comment at redact-archive.ts:163-166: removing the row and leaving the
\* document on disk is not an erasure. The binaries of an account whose removal
\* completed are gone.
BinariesErased ==
    rd.pc = "done" /\ rd.request.mode = "remove" =>
        \A f \in ToSet(orig.files) : f.user = rd.request.user => f.id \notin src.blobs
=============================================================================
