--------------------------- MODULE MCArchiveTools ---------------------------
(* Two accounts and one that left, two channels, one human       *)
(* message, one with blocks, one of the system; requests in both modes.     *)
EXTENDS Anonymization

Led(t) == [t EXCEPT !.lead = TRUE]
Touched(t, by) == [t EXCEPT !.trail = by]
MCComposed == "Jean-Pierre" :> <<"Jean", "Pierre">>

HumanText == <<Token("mention", "bob"), Token("mot", "Alice"), Token("mot", "Robert"),
               Token("mot", "Robert"), Token("adresse", "alicea"),
               Token("mention", "channel"), Led(Token("mention", "nobody")),
               Token("compose", "Jean-Pierre")>>
BlockText == <<Token("adresseMention", "alicea"), Token("adresseMention", "nobody"),
               Token("identifiant", "bob"), Token("identifiant", "permalink"),
               Token("telephone", ""), Token("mot", "Dupont"), Token("mention", "anon-1")>>
GluedText == <<Touched(Token("adresseMention", "alicea"), "joint"),
               Touched(Token("telephone", ""), "host")>>
SystemText == <<Token("mot", "bob"), Token("mot", "alicea"), Token("adresse", "alicea"),
                Token("mot", "added")>>

Post(id, at, user, reactors, files, sys, text, props) ==
    [id |-> id, at |-> at, user |-> user, reactors |-> reactors, files |-> files,
     sys |-> sys, text |-> text, props |-> props]

Posts == [general |-> <<Post("p1", 1, "alice", {"bob", "ghost"}, {"f1"}, FALSE, HumanText,
                             [participants |-> {"alice", "ghost"}, other |-> "bob"]),
                        Post("p2", 2, "bob", {"alice"}, {"f2"}, FALSE, GluedText,
                             [attachments |-> BlockText, from_webhook |-> "true"])>>,
          random |-> <<Post("p3", 3, "bob", {}, {}, TRUE, SystemText,
                            [addedUsername |-> "bob", addedUserId |-> "bob",
                             userId |-> "ghost", ended_by |-> "alicea"])>>]

Bare == [posts |-> Posts,
         users |-> <<[id |-> "alice", username |-> "alicea", names |-> {"Alice", "Dupont", "Jean-Pierre"},
                      avatar |-> TRUE, email |-> TRUE],
                     [id |-> "bob", username |-> "bob", names |-> {"Robert", "Dupont"},
                      avatar |-> FALSE, email |-> FALSE]>>,
         files |-> <<[id |-> "f1", user |-> "alice", path |-> TRUE, 
                      name |-> Form("Alice", {"Alice"}), ext |-> "pdf"],
                     [id |-> "f2", user |-> "bob", path |-> TRUE, 
                      name |-> Form("notes", {"notes"}), ext |-> ""]>>,
         emojis |-> <<[id |-> "e1", user |-> "ghost"]>>,
         channels |-> <<[id |-> "general", public |-> TRUE], [id |-> "random", public |-> TRUE]>>,
         blobs |-> {"f1", "f2"}, avatars |-> {"alice"}, stray |-> {}]

WithManifest(a, operator) ==
    a @@ [manifest |-> [readable |-> TRUE, counts |-> Counted(a), range |-> PostRange(a),
                        joined |-> 0, joinedList |-> <<>>, operator |-> operator, url |-> "https"]]

\* The ghost left the instance: it is named and has no row. In the second
\* archive the message of the system was its own, and has no author; the operator
\* is only found by name; and a nickname of bob is a word of a key.
Whole == WithManifest(Bare, [id |-> "bob", name |-> "bob"])
Orphaned == WithManifest([Bare EXCEPT !.posts.random = <<[@[1] EXCEPT !.user = ""]>>,
                                      !.users[2].names = @ \cup {"webhook"}],
                         [id |-> "ghost", name |-> "alicea"])

MCSources == {Whole, Orphaned}
MCRequests == {[user |-> "alice", mode |-> "remove"],
               [user |-> "alice", mode |-> "pseudonymize"],
               [user |-> "bob", mode |-> "remove"]}
\* The archives and requests of the runs are of those the theorems are about.
ASSUME MCAssumption == Verified /\ PseudonymsAreNew /\ OwnFiles
                       /\ \A n \in 0..5 : NewSubstitutes(n) /\ IdentitiesDiffer(n)

MCRemoval == {[user |-> "alice", mode |-> "remove"]}
=============================================================================
