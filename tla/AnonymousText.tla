---------------------------- MODULE AnonymousText ----------------------------
(* The pure part of mmarchive-anonymize: substitution identities, the       *)
(* vocabulary of names, the rewriting of texts and the reduction of props.  *)
(*                                                                          *)
(* A text is the sequence of what the code's alternation matches in it:     *)
(*   kind   mention, adresse, adresseMention, identifiant, telephone, mot   *)
(*          (a word the name branch can capture) or compose (words joined   *)
(*          by a hyphen, which that branch never captures)                  *)
(*   v      the name, identifier or word                                    *)
(*   lead   an arobase stands just before the match                         *)
(*   trail  what touches its end: "joint" a hyphen or underscore and more   *)
(*          letters, "host" an arobase and a domain, "" nothing             *)
(* A resolver maps the accounts of users.ndjson, by id and by username, to  *)
(* identities; `props` is a function from the keys present to their values. *)
EXTENDS Naturals, Sequences, FiniteSets, FiniteSetsExt, SequencesExt, TLC

CONSTANT Composed       \* the words of each name written with a hyphen

Token(k, value) == [kind |-> k, v |-> value, lead |-> FALSE, trail |-> ""]

(*--------------------------- substitution identities ---------------------*)
\* assignPseudonyms: the ranks follow a salted hash, so any order of the ids.
Orders(ids) == SetToSeqs(ids)
Identity(rank) == [rank |-> rank,
                   uid |-> "uid" \o ToString(rank),
                   pseudonyme |-> "Anon-" \o ToString(rank),
                   username |-> "anon-" \o ToString(rank)]
IdentityTable(order) == [id \in ToSet(order) |->
    Identity(CHOOSE i \in DOMAIN order : order[i] = id)]

\* The last row of users.ndjson wins a username two rows share.
Resolver(users, table) ==
    LET LastRow(n) == Max({i \in DOMAIN users : users[i].username = n})
    IN [ids |-> table,
        names |-> [n \in {u.username : u \in ToSet(users)} \ {""} |->
                     table[users[LastRow(n)].id]],
        emis |-> {table[id].username : id \in DOMAIN table}]

(*--------------------------- vocabulary of names -------------------------*)
MinLength == 4
MaxBearers == 5
NomRetire == "nom-retire"

Bearers(users, forme) == {u \in ToSet(users) : forme \in u.names}

\* compterFrequences reads the message and the text of the blocks, word by word
\* whatever stands around: a name with a hyphen is never met.
Words(v) == IF v \in DOMAIN Composed THEN Composed[v] ELSE <<v>>
Frequency(posts, forme) ==
    LET Met(t) == IF t.kind \in {"identifiant", "telephone"} THEN {}
                  ELSE {j \in DOMAIN Words(t.v) : Words(t.v)[j] = forme}
        In(text) == Cardinality(UNION {{i} \X Met(text[i]) : i \in DOMAIN text})
    IN MapThenSumSet(LAMBDA p : In(p.text)
         + (IF "attachments" \in DOMAIN p.props
            THEN In(p.props["attachments"]) ELSE 0), posts)

Retained(users, posts, threshold) ==
    {f \in UNION {u.names : u \in ToSet(users)} :
       /\ Len(f) >= MinLength
       /\ Cardinality(Bearers(users, f)) <= MaxBearers
       /\ Frequency(posts, f) <= threshold}

Vocabulary(users, posts, table, threshold) ==
    [f \in Retained(users, posts, threshold) |->
       IF Cardinality(Bearers(users, f)) > 1 THEN NomRetire
       ELSE table[(CHOOSE u \in Bearers(users, f) : TRUE).id].pseudonyme]

(*------------------------------ texts ------------------------------------*)
Collective == {"all", "channel", "here"}

\* mutant: a mention that a former pass wrote is not recognized
MentionForgetsOwn(t, r) ==
    IF t.v \in Collective THEN t
    ELSE IF t.v \in DOMAIN r.names THEN [t EXCEPT !.v = r.names[t.v].username]
    ELSE [t EXCEPT !.kind = "compose", !.v = "mention-retiree"]

Mention(t, r) ==
    IF t.v \in Collective THEN t
    ELSE IF t.v \in DOMAIN r.names THEN [t EXCEPT !.v = r.names[t.v].username]
    ELSE IF t.v \in r.emis THEN t
    ELSE [t EXCEPT !.kind = "compose", !.v = "mention-retiree"]

AddressMention(t, r) ==
    IF t.v \in DOMAIN r.names
    THEN [t EXCEPT !.kind = "mention", !.v = r.names[t.v].username]
    ELSE [t EXCEPT !.kind = "compose", !.v = "adresse-retiree"]

RewrittenToken(t, r, noms) ==
    CASE t.kind = "adresseMention" -> AddressMention(t, r)
      [] t.kind = "adresse" -> [t EXCEPT !.kind = "compose", !.v = "adresse-retiree"]
      [] t.kind = "identifiant" /\ t.v \in DOMAIN r.ids -> [t EXCEPT !.v = r.ids[t.v].uid]
      [] t.kind = "telephone" -> [t EXCEPT !.kind = "compose", !.v = "numero-retire"]
      [] t.kind = "mot" /\ t.v \in DOMAIN noms ->
            [t EXCEPT !.kind = "compose", !.v = noms[t.v]]
      [] t.kind = "mention" -> Mention(t, r)
      [] OTHER -> t

NoNames == [f \in {} |-> ""]

\* reecrireFormesAncrees: one pass, nothing it writes is read again.
Rewritten(text, r, noms) == [i \in DOMAIN text |-> RewrittenToken(text[i], r, noms)]

\* What a second reading would match in a text: a substitute that a domain
\* follows has become an address, one that an arobase precedes a mention, and a
\* mention goes on to the end of what touches it.
RereadToken(t) ==
    CASE t.kind = "compose" /\ t.trail = "host" -> [t EXCEPT !.kind = "adresse", !.trail = ""]
      [] t.kind = "compose" /\ t.lead -> [t EXCEPT !.kind = "mention", !.lead = FALSE]
      [] t.kind = "mention" /\ t.trail = "joint" -> [t EXCEPT !.v = @ \o "-x", !.trail = ""]
      [] OTHER -> t
Reread(text) == [i \in DOMAIN text |-> RereadToken(text[i])]

(*--------------------- names that the props designate ---------------------*)
NameKeys == {"username", "addedUsername", "removedUsername"}
Designated(p) == {p.props[k] : k \in NameKeys \cap DOMAIN p.props} \ {""}

\* A whole word, wherever it stands: behind an arobase and in an address too.
SystemToken(t, p, r) ==
    IF /\ t.v \in Designated(p) \/ (p.sys /\ Len(t.v) >= MinLength)
       /\ t.v \in DOMAIN r.names
    THEN [t EXCEPT !.kind = IF @ \in {"mention", "adresse", "adresseMention"} THEN @
                            ELSE "compose",
                   !.v = r.names[t.v].username]
    ELSE t

DesignatedRewritten(p, r) == [i \in DOMAIN p.text |-> SystemToken(p.text[i], p, r)]

(*------------------------------- props -----------------------------------*)
FlagKeys == {"from_webhook", "from_bot", "from_plugin",
             "disable_group_highlight", "remove_link_preview"}
IdKeys == {"userId", "addedUserId", "removedUserId", "created_by"}
ListKeys == {"participants"}
PolymorphicKeys == {"ended_by"}

\* The identity a reference resolves to, by id first, and what replaces it.
Resolved(k, value, r) ==
    IF k \notin NameKeys /\ value \in DOMAIN r.ids THEN r.ids[value].uid
    ELSE IF k \notin IdKeys /\ value \in DOMAIN r.names THEN r.names[value].username
    ELSE ""

KeptKeys(props, r) ==
    {k \in DOMAIN props :
       \/ k \in FlagKeys \cup ListKeys
       \/ k = "attachments" /\ props[k] # <<>>
       \/ k \in IdKeys \cup NameKeys \cup PolymorphicKeys /\ Resolved(k, props[k], r) # ""}

\* mutant: the text of the blocks is copied as it is
ReducedPropsRawBlocks(props, r, rewrites, noms) ==
    [k \in KeptKeys(props, r) |->
       IF k \in FlagKeys \cup {"attachments"} THEN props[k]
       ELSE IF k \in ListKeys THEN {r.ids[id].uid : id \in props[k] \cap DOMAIN r.ids}
       ELSE Resolved(k, props[k], r)]

ReducedProps(props, r, rewrites, noms) ==
    [k \in KeptKeys(props, r) |->
       IF k \in FlagKeys THEN props[k]
       ELSE IF k = "attachments"
            THEN IF rewrites THEN Rewritten(props[k], r, noms) ELSE props[k]
       ELSE IF k \in ListKeys
            THEN {r.ids[id].uid : id \in props[k] \cap DOMAIN r.ids}
       ELSE Resolved(k, props[k], r)]

(* The passage of one post, at a level.                                     *)
RewritesForms(niveau) == niveau # "comptes"
RewritesNames(niveau) == niveau = "noms"
=============================================================================
