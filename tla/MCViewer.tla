------------------------------- MODULE MCViewer -------------------------------
(***************************************************************************)
(* The viewer checked on one archive, in three scenes that share nothing:  *)
(* the files derived from the archive, the reader of a finished index, and *)
(* the page that opens an index without a server.                          *)
(***************************************************************************)
EXTENDS ViewerFiles, Reading, BrowserIndex

VARIABLE scene

Post(pid, ch, by, at, root, words) ==
  [pid |-> pid, ch |-> ch, by |-> by, at |-> at, root |-> root, human |-> TRUE, words |-> words]

(* A reply that comes before its root in the numbering, an orphan reply,   *)
(* an unknown author, a message of a bot, a channel without a post file.   *)
Base ==
  [channels |-> <<"dev", "ops", "gone">>,
   lost |-> {"gone"},
   users |-> <<[uid |-> "ua", name |-> "ann"], [uid |-> "ub", name |-> "bob"]>>,
   posts |->
     {Post(3, "dev", "ua", 1, 0, {"x"}), Post(1, "dev", "ub", 1, 3, {"y"}),
      Post(4, "ops", "ux", 2, 0, {}), Post(5, "dev", "ua", 3, 9, {"x", "y"}),
      Post(6, "dev", "ub", 3, 0, {"y"}), Post(7, "dev", "ua", 9, 0, {"x"}),
      Post(2, "gone", "ua", 1, 0, {"x"}),
      [Post(8, "dev", "ua", 2, 0, {"x"}) EXCEPT !.human = FALSE]}]

(* A new message in the middle, after which reply 5 finds its root.        *)
Inserted == [Base EXCEPT !.posts = @ \cup {Post(9, "ops", "ua", 2, 0, {"x"})}]

(* One account under a pseudonym, one message edited.                      *)
Redacted ==
  [Base EXCEPT
     !.users = <<[uid |-> "ua", name |-> "p1"], [uid |-> "ub", name |-> "bob"]>>,
     !.posts = {IF p.pid = 6 THEN [p EXCEPT !.words = {"x"}] ELSE p : p \in @}]

MCArchives == [base |-> Base, inserted |-> Inserted, redacted |-> Redacted]

ASSUME MCAssumption == MessagesStay /\ SomethingIsSaid

Token(neg, mod, value) == [neg |-> neg, mod |-> mod, value |-> value]
MCQueries ==
  {<<>>,
   <<Token(FALSE, "word", "x")>>,
   <<Token(FALSE, "word", "x"), Token(TRUE, "word", "y")>>,
   <<Token(TRUE, "word", "x")>>,
   <<Token(FALSE, "in", "dev"), Token(FALSE, "after", 0), Token(FALSE, "before", 3)>>,
   <<Token(FALSE, "from", "ann"), Token(FALSE, "on", 2)>>,
   <<Token(FALSE, "from", "zoe")>>,
   <<Token(FALSE, "in", "dev"), Token(FALSE, "in", "qa")>>,
   <<Token(FALSE, "on", 1)>>}

Init ==
  /\ FilesInit /\ ReadingInit /\ BootInit
  /\ archive = "base"
  /\ scene \in {"files", "serveur", "lite", "browser"}
  /\ mode = IF scene = "lite" THEN "lite" ELSE "serveur"

Next ==
  \/ scene = "files" /\ FilesNext /\ UNCHANGED <<scene, readingVars, bootVars>>
  \/ scene \in {"serveur", "lite"} /\ ReadingNext /\ UNCHANGED <<scene, filesVars, bootVars>>
  \/ scene = "browser" /\ BootNext /\ UNCHANGED <<scene, filesVars, readingVars>>

vars == <<scene, filesVars, readingVars, bootVars>>
Spec == Init /\ [][Next]_vars
=============================================================================
