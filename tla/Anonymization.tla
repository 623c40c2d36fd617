---------------------------- MODULE Anonymization ----------------------------
(* mmarchive-anonymize: a new archive written beside the source             *)
(* (redact/anonymize-archive.ts), read back by the control of residual      *)
(* identities (redact/residual-check.ts) by the command anonymize.ts, while *)
(* redactions may have cut the source anywhere before.  One command runs at *)
(* a time on an archive.                                                    *)
EXTENDS Redaction, AnonymousText

CONSTANTS Levels,       \* the levels tried
          Threshold,    \* --seuil-noms
          MaxPasses     \* bound: how many anonymizations are started

VARIABLES out,          \* the output directory
          an,           \* the anonymization under way
          basis,        \* history: what the output was made from, and how
          passes

anonVars == <<out, an, basis, passes>>
vars == <<src, rd, orig, begun, unfinished, stops, out, an, basis, passes>>

\* foreign: files the command did not write. files: the files it wrote, a file
\* whose writer was cut being absent from `whole`. cut: a removal of the directory
\* was begun, which may have taken any of them but the mark.
EmptyOut == [foreign |-> FALSE, files |-> {}, whole |-> {}, cut |-> FALSE]
NoPass == [pc |-> "idle", exit |-> "", niveau |-> ""]
NoBasis == [src |-> <<>>, niveau |-> "", table |-> <<>>]

AnonInit ==
    /\ out \in {EmptyOut, [EmptyOut EXCEPT !.foreign = TRUE]}
    /\ an = NoPass
    /\ basis = NoBasis
    /\ passes = 0

(*------------------------- the files of the output -----------------------*)
InRoot(n) == [dir |-> "", name |-> n]
PostsFile(c) == [dir |-> "posts", name |-> c]
PostsDir == InRoot("posts")
Mark == InRoot("manifest")

Expected(s) ==
    {InRoot(n) : n \in {"users", "emojis", "files", "channels", "teams", "manifest"}}
    \cup {PostsFile(c) : c \in DOMAIN s.posts}

RootStage == [users |-> 1, emojis |-> 2, files |-> 3, channels |-> 4, teams |-> 5, manifest |-> 7]

\* mutant: the mark is laid down first
StageMarkFirst(f) == IF f = Mark THEN 0 ELSE IF f.dir = "posts" THEN 6 ELSE RootStage[f.name]

\* The order of the writers; the channels of posts/ in that of the directory.
Stage(f) == IF f.dir = "posts" THEN 6 ELSE RootStage[f.name]

(*------------------------------ the guards -------------------------------*)
\* porteUneArchiveAnonymisee: the manifest, written last, parses and has the mark.
Marked == Mark \in out.whole
Occupied == out.foreign \/ out.files # {}

\* How the command is called: on the source with an output apart from it, with
\* an output that is the source or inside it, or on an output as the source.
Calls == {"apart", "inside", "replay"}

\* An output taken as the source is refused when marked, and without a manifest.
Refused(force, call) ==
    \/ call = "inside"
    \/ call = "replay" /\ (Marked \/ Mark \notin out.files)
    \/ call = "apart" /\ (src.stray # {} \/ (Occupied /\ ~ (force /\ Marked)))

Ended(exit) == [pc |-> "ended", exit |-> exit, niveau |-> ""]

\* All refusals come before the first write: exit 2. Replayed on an output whose
\* manifest is torn, the command ends on that manifest, in another directory.
StartAnonymize(niveau, force, call) ==
    /\ an.pc = "idle" /\ rd.pc = "idle" /\ passes < MaxPasses
    /\ passes' = passes + 1
    /\ IF Refused(force, call) \/ call = "replay"
       THEN /\ an' = Ended(IF Refused(force, call) THEN "refused" ELSE "failed")
            /\ UNCHANGED <<out, basis>>
       ELSE /\ an' = [pc |-> "removing", exit |-> "", niveau |-> niveau]
            /\ out' = [out EXCEPT !.cut = Occupied]
            /\ basis' = NoBasis
    /\ UNCHANGED redactVars

\* rm, recursive: the entries of a marked output go one by one, in any order,
\* whatever else was put beside them.
RemoveMark ==
    /\ an.pc = "removing" /\ Mark \in out.files
    /\ out' = [out EXCEPT !.files = @ \ {Mark}, !.whole = @ \ {Mark}]
    /\ UNCHANGED <<an, basis, passes>> /\ UNCHANGED redactVars

\* The last of the others is gone.
RemoveOthers ==
    /\ an.pc = "removing" /\ (out.foreign \/ out.files \ {Mark} # {})
    /\ out' = [out EXCEPT !.foreign = FALSE, !.files = @ \cap {Mark}, !.whole = @ \cap {Mark}]
    /\ UNCHANGED <<an, basis, passes>> /\ UNCHANGED redactVars

\* posts/ is made, and the tables of the source are read.
BeginPass(order) ==
    /\ an.pc = "removing" /\ ~ Occupied
    /\ an' = [an EXCEPT !.pc = "writing"]
    /\ out' = [EmptyOut EXCEPT !.files = {PostsDir}]
    /\ basis' = [src |-> src, niveau |-> an.niveau, table |-> IdentityTable(order)]
    /\ UNCHANGED passes /\ UNCHANGED redactVars

(*------------------------------ the files --------------------------------*)
Res(b) == Resolver(b.src.users, b.table)
Noms(b) == IF RewritesNames(b.niveau)
           THEN Vocabulary(b.src.users, PostsOf(b.src), b.table, Threshold)
           ELSE NoNames

\* substituer: an identity, or nothing; "" is what its callers write instead.
Substitute(b, id) == IF id \in DOMAIN b.table THEN b.table[id].uid ELSE ""

AnonUser(b, u) == LET i == b.table[u.id] IN
    [id |-> i.uid, username |-> i.username, names |-> {i.pseudonyme}, avatar |-> FALSE,
     email |-> FALSE]

AnonPost(b, r, noms, p) ==
    LET text == DesignatedRewritten(p, r) IN
    [p EXCEPT !.user = Substitute(b, @),
              !.reactors = {b.table[u].uid : u \in @ \cap DOMAIN b.table},
              !.text = IF RewritesForms(b.niveau) THEN Rewritten(text, r, noms) ELSE text,
              !.props = ReducedProps(@, r, RewritesForms(b.niveau), noms)]

AnonEmoji(b, e) == [e EXCEPT !.user = Substitute(b, @)]

\* A name as the control reads it: whole, and the words it is made of.
Form(whole, words) == [whole |-> whole, words |-> words]

\* libelleNeutre: piece-jointe-<rank>.<extension>
Label(rank, ext) ==
    Form("piece-jointe-" \o ToString(rank) \o (IF ext = "" THEN "" ELSE "." \o ext),
         {"piece", "jointe", ToString(rank)} \cup ({ext} \ {""}))

AnonFile(b, f, rank) ==
    [f EXCEPT !.user = Substitute(b, @), !.path = FALSE, !.name = Label(rank, f.ext)]

\* anonymes.sort: the rows of users.ndjson in the order of their new identifiers,
\* a hash: in the order of the ranks as well as any.
Sorted(users, table) ==
    LET n == Len(users)
        Rank(i) == table[users[i].id].rank
        at == CHOOSE p \in SetToSeqs(1..n) : \A i, j \in 1..n : i < j => Rank(p[i]) <= Rank(p[j])
    IN [i \in 1..n |-> users[at[i]]]

\* The operator is found by identifier, then by name.
Signature(i) == [id |-> i.uid, name |-> i.username]
AnonOperator(b, o) ==
    IF o.id \in DOMAIN b.table THEN Signature(b.table[o.id])
    ELSE IF o.name \in DOMAIN Res(b).names THEN Signature(Res(b).names[o.name])
    ELSE [id |-> "", name |-> ""]

\* The counters are those of the rows written; no attachment is taken over.
AnonManifest(b, o) ==
    [b.src.manifest EXCEPT
        !.counts = [channels |-> Len(o.channels), posts |-> PostLines(o), users |-> Len(o.users),
                    emojis |-> Len(o.emojis), attachments |-> 0],
        !.range = IF PostRange(o) = <<>> THEN @ ELSE PostRange(o),
        !.operator = AnonOperator(b, @), !.url = ""]

\* The archive a complete pass leaves.
Produced(b) ==
    LET s == b.src
        r == Res(b)
        noms == Noms(b)
        sorted == Sorted(s.users, b.table)
        bare == [s EXCEPT
                   !.posts = [c \in DOMAIN s.posts |->
                                [i \in DOMAIN s.posts[c] |-> AnonPost(b, r, noms, s.posts[c][i])]],
                   !.users = [i \in DOMAIN sorted |-> AnonUser(b, sorted[i])],
                   !.emojis = [i \in DOMAIN s.emojis |-> AnonEmoji(b, s.emojis[i])],
                   !.files = [i \in DOMAIN s.files |-> AnonFile(b, s.files[i], i)],
                   !.blobs = {}, !.avatars = {}]
    IN [bare EXCEPT !.manifest = AnonManifest(b, bare)]

\* The files that may come next.
NextOut ==
    IF an.pc # "writing" THEN {}
    ELSE {f \in Expected(basis.src) \ out.whole :
            \A g \in Expected(basis.src) : Stage(g) < Stage(f) => g \in out.whole}

\* One writer, opened on an empty file and closed; a manifest that does not parse
\* is only noticed at the end, and ends the pass.
WriteOut(f) ==
    /\ f \in NextOut
    /\ IF f = Mark /\ ~ basis.src.manifest.readable
       THEN an' = Ended("failed") /\ basis' = NoBasis /\ UNCHANGED out
       ELSE /\ out' = [out EXCEPT !.files = @ \cup {f}, !.whole = @ \cup {f}]
            /\ an' = IF Expected(basis.src) \subseteq out.whole \cup {f}
                     THEN [an EXCEPT !.pc = "control"] ELSE an
            /\ UNCHANGED basis
    /\ UNCHANGED passes /\ UNCHANGED redactVars

\* The process dies or a system call throws: in the removal, in a writer, whose
\* file stays begun, or in the control of an output already marked.
StopAnonymize ==
    /\ an.pc \in {"removing", "writing", "control"} /\ stops < MaxStops
    /\ stops' = stops + 1
    /\ an' = Ended("failed")
    /\ \/ UNCHANGED out
       \/ \E f \in NextOut : out' = [out EXCEPT !.files = @ \cup {f}]
    /\ basis' = IF an.pc = "control" THEN basis ELSE NoBasis
    /\ UNCHANGED <<passes, src, rd, orig, begun, unfinished>>

(*------------------------------ the control ------------------------------*)
\* The sets the control knows: the accounts of the source, the new identities
\* as users.ndjson of the output gives them.
NewUids(o) == Ids(o.users)
NewNames(o) == {u.username : u \in ToSet(o.users)}
Known(s) == {u.username : u \in ToSet(s.users)} \ {""}
OldNames(s) == Known(s) \cup UNION {u.names : u \in ToSet(s.users)}

\* The forms looked for inside a value, those long enough.
Searchable(s) == {f \in OldNames(s) : Len(f) >= MinLength}

\* nettoye; two words that follow each other and make a full name are left out.
Survives(form, s) ==
    \/ form.whole \in Ids(s.users) \cup Known(s) \cup Searchable(s)
    \/ form.words \cap Searchable(s) # {}

\* The keys that reduireProps may keep, in lower case and word by word.
KeyForms == [
    from_webhook |-> Form("from_webhook", {"from", "webhook"}),
    from_bot |-> Form("from_bot", {"from", "bot"}),
    from_plugin |-> Form("from_plugin", {"from", "plugin"}),
    disable_group_highlight |->
        Form("disable_group_highlight", {"disable", "group", "highlight"}),
    remove_link_preview |-> Form("remove_link_preview", {"remove", "link", "preview"}),
    userId |-> Form("userid", {"userid"}),
    addedUserId |-> Form("addeduserid", {"addeduserid"}),
    removedUserId |-> Form("removeduserid", {"removeduserid"}),
    created_by |-> Form("created_by", {"created", "by"}),
    username |-> Form("username", {"username"}),
    addedUsername |-> Form("addedusername", {"addedusername"}),
    removedUsername |-> Form("removedusername", {"removedusername"}),
    participants |-> Form("participants", {"participants"}),
    ended_by |-> Form("ended_by", {"ended", "by"}),
    attachments |-> Form("attachments", {"attachments"})]

\* mutant: an orphan reference, emptied, is taken for a leftover
BadReferenceOrEmpty(x, known) == x \notin known

BadReference(x, known) == x # "" /\ x \notin known

PropsFindings(p, o, s) ==
    {k \in DOMAIN p.props :
       \/ Survives(KeyForms[k], s)
       \/ k \in IdKeys /\ BadReference(p.props[k], NewUids(o))
       \/ k \in NameKeys /\ BadReference(p.props[k], NewNames(o))
       \/ k \in ListKeys /\ \E id \in p.props[k] : BadReference(id, NewUids(o))
       \/ k \in PolymorphicKeys /\ BadReference(p.props[k], NewUids(o) \cup NewNames(o))}

\* FORME_PSEUDONYME: a display name is checked by its form, that of an identity,
\* since the words of a pseudonym can be somebody's name.
Pseudonymes(n) == {Identity(i).pseudonyme : i \in 1..n}

ManifestFindings(o) ==
    \/ BadReference(o.manifest.operator.id, NewUids(o))
    \/ BadReference(o.manifest.operator.name, NewNames(o))
    \/ o.manifest.url # ""

\* checkResidualIdentities: the places where it finds an identity.
Findings(o, s) ==
    LET uids == NewUids(o) IN
    {e.at : e \in {e \in {
       [at |-> "users", bad |-> \E u \in ToSet(o.users) : u.avatar \/ u.email
                                  \/ ~ (u.names \subseteq Pseudonymes(Len(o.users)))],
       [at |-> "emojis", bad |-> \E e \in ToSet(o.emojis) : BadReference(e.user, uids)],
       [at |-> "files", bad |-> \E f \in ToSet(o.files) :
                                  BadReference(f.user, uids) \/ Survives(f.name, s)],
       [at |-> "authors", bad |-> \E p \in PostsOf(o) : BadReference(p.user, uids)],
       [at |-> "reactions", bad |-> \E p \in PostsOf(o) :
                                      \E u \in p.reactors : BadReference(u, uids)],
       [at |-> "props", bad |-> \E p \in PostsOf(o) : PropsFindings(p, o, s) # {}],
       [at |-> "manifest", bad |-> ManifestFindings(o)]} : e.bad}}

\* The synthesis is written before the verdict; a finding makes the exit 1.
Control ==
    /\ an.pc = "control"
    /\ an' = Ended(IF Findings(Produced(basis), basis.src) = {} THEN "0" ELSE "condemned")
    /\ UNCHANGED <<out, basis, passes>> /\ UNCHANGED redactVars

EndAnonymize ==
    /\ an.pc = "ended"
    /\ an' = NoPass
    /\ UNCHANGED <<out, basis, passes>> /\ UNCHANGED redactVars

AnonNext ==
    \/ \E niveau \in Levels, force \in BOOLEAN, call \in Calls :
         StartAnonymize(niveau, force, call)
    \/ RemoveMark \/ RemoveOthers
    \/ \E order \in Orders(Ids(src.users)) : BeginPass(order)
    \/ \E f \in NextOut : WriteOut(f)
    \/ StopAnonymize \/ Control \/ EndAnonymize

Init == RedactInit /\ AnonInit
Next == \/ an.pc = "idle" /\ RedactNext /\ UNCHANGED anonVars
        \/ AnonNext
Spec == Init /\ [][Next]_vars

(*--------------- what the theorems assume of the archives ----------------*)
\* What an anonymization writes in the place of a name, with n identities.
Substitutes(n) ==
    (UNION {{Identity(i).uid, Identity(i).username, Identity(i).pseudonyme} : i \in 1..n})
    \cup {"mention-retiree", "adresse-retiree", "numero-retire", NomRetire}
    \cup Collective

\* No account, whether in the archive or renamed by a redaction, has one of
\* them for identifier or name.
NewSubstitutes(n) ==
    /\ \A a \in Sources : (Ids(a.users) \cup OldNames(a)) \cap Substitutes(n) = {}
    /\ \A q \in Requests : Pseudonym(q.user) \notin Substitutes(n)

\* The identities of two accounts differ.
IdentitiesDiffer(n) == \A i, j \in 1..n : Identity(i).uid = Identity(j).uid => i = j

(*------------------------------- properties ------------------------------*)
\* A directory that carries the mark, and that no later pass began to remove
\* (a removal cut in the middle may leave the mark over part of the files, which
\* the comment at anonymize-archive.ts:280-283 does not foresee), carries a whole archive that verify accepts, whatever was cut in the source or
\* in earlier passes: counters and authors are made coherent again, only an
\* attachment that the source does not describe is still not described; and no
\* reference in it is to an account that is not one of its own rows.
Complete == Marked /\ ~ out.cut
MarkedIsPublishable ==
    Complete => /\ out.whole = Expected(basis.src)
                /\ Verify(Produced(basis)) \subseteq
                     Verify(basis.src) \cap {"toute piece jointe est decrite"}
                /\ \A p \in PostsOf(Produced(basis)) :
                     ({p.user} \cup p.reactors) \ {""} \subseteq NewUids(Produced(basis))

Texts(o) == {p.text : p \in PostsOf(o)}
    \cup {p.props["attachments"] : p \in {p \in PostsOf(o) : "attachments" \in DOMAIN p.props}}

\* What each level promises of the texts (niveau.ts, README.md): at every level a
\* system message names no account of at least four letters; from `formes` on no
\* mention, address, number or identifier of an account remains; at `noms` no
\* retained name remains but as an identifier or as a whole word with a hyphen,
\* which README.md:493-494 does not except and the name branch never matches.
LevelPromiseKept ==
    Complete =>
      LET o == Produced(basis)
          s == basis.src
          noms == Noms(basis)
          Found(kinds, values) == \E t \in Texts(o) : \E i \in DOMAIN t :
                                    t[i].kind \in kinds /\ t[i].v \in values
      IN /\ \A p \in PostsOf(o) : p.sys =>
              \A i \in DOMAIN p.text : p.text[i].v \in Known(s) => Len(p.text[i].v) < MinLength
         /\ RewritesForms(basis.niveau) =>
              /\ ~ Found({"mention"}, Known(s)) /\ ~ Found({"identifiant"}, Ids(s.users))
              /\ \A t \in Texts(o) : \A i \in DOMAIN t :
                   t[i].kind \notin {"adresse", "adresseMention", "telephone"}
         /\ \A t \in Texts(o) : \A i \in DOMAIN t :
              t[i].v \in DOMAIN noms => t[i].kind \in {"compose", "identifiant"}

\* An account has for name a word of a key that the source's props keep, or of the
\* label of one of its attachments.
OwnWordsClash(s) ==
    \/ \E p \in PostsOf(s) : \E k \in DOMAIN p.props \cap DOMAIN KeyForms : Survives(KeyForms[k], s)
    \/ \E i \in DOMAIN s.files : Survives(Label(i, s.files[i].ext), s)

\* The control condemns no complete pass, orphan references included, unless an
\* account bears one of the command's own words: the control then finds it in a
\* key or a label, at every attempt, though nobody survives (README.md:489-491).
ControlAccepts == an.exit = "condemned" => OwnWordsClash(basis.src)

\* "The result passed again through this function no longer moves"
\* (text-rewrite.ts:186-187), for the texts where nothing touches a match: the
\* comment says it of any, and a mention left before a hyphen reads on.
SecondPassIsStill(t, r, noms) == Rewritten(Reread(t), r, noms) = t
Apart(t) == \A i \in DOMAIN t : ~ t[i].lead /\ t[i].trail = ""
RewritingSettles ==
    Complete /\ RewritesForms(basis.niveau) =>
      LET r == Res(basis)
          noms == Noms(basis)
      IN \A t \in Texts(Produced(basis)) : Apart(t) => SecondPassIsStill(t, r, noms)
=============================================================================
