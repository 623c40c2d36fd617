----------------------------- MODULE ViewerFiles -----------------------------
(***************************************************************************)
(* The two files derived from an archive: mmarchive-index builds the index *)
(* in place, mmarchive-index chunks builds the store of fragments from an  *)
(* open index under a temporary name.  The archive may be extracted again  *)
(* or rewritten at any time, and each process may fail or be killed.       *)
(***************************************************************************)
EXTENDS Fragments

CONSTANTS
  Archives,    \* what the same directory may hold: a function from names to archives
  MaxBuilds, MaxStores, MaxRewrites   \* bounds

ASSUME ArchivesAssumption == \A a \in DOMAIN Archives : WellFormed(Archives[a])

(* What does not change of a message, extracted again or redacted: its      *)
(* date, its channel, the message it answers, and its author unless the     *)
(* names of the accounts change with it.                                   *)
MessagesStay ==
  \A a, b \in DOMAIN Archives : \A p \in Archives[a].posts, q \in Archives[b].posts :
    p.pid = q.pid =>
      /\ p.at = q.at /\ p.ch = q.ch /\ p.root = q.root
      /\ UserNames(Archives[a].users) = UserNames(Archives[b].users)
           => UserId(Archives[a], p.by) = UserId(Archives[b], q.by)

(* Somebody wrote something in each archive.                               *)
SomethingIsSaid == \A a \in DOMAIN Archives : \E p \in Kept(Archives[a]) : p.words # {}

VARIABLES
  archive,    \* the archive in its directory
  index,      \* the index file: NoFile or [of, k], k steps of a build of archive `of`
  builder,    \* mmarchive-index: "idle", "opening" or "building"
  chunker,    \* mmarchive-index chunks: Idle, or its stage and what it holds
  store,      \* the store of fragments: NoFile or [fragments, print]
  partial,    \* its temporary file, the same: NoFile, Torn or a complete store
  spent       \* builds, stores and rewrites so far

filesVars == <<archive, index, builder, chunker, store, partial, spent>>

(* Every content the index file may have.                                  *)
Contents == [a \in DOMAIN Archives |-> [k \in 0..Finished |-> Index(Archives[a], k)]]

NoFile == [k |-> -1]
Torn == [k |-> 0]
AtPath == [k |-> -2]   \* the chunker reads the file still at the path
Idle == [stage |-> "idle"]
HasFile(f) == f # NoFile
Complete(f) == f \notin {NoFile, Torn}

FilesInit ==
  /\ archive \in DOMAIN Archives
  /\ index = NoFile /\ store = NoFile /\ partial = NoFile
  /\ builder = "idle" /\ chunker = Idle
  /\ spent = [builds |-> 0, stores |-> 0, rewrites |-> 0]

(* A new extraction over the same directory, a redaction in place of it.   *)
Rewrite ==
  /\ spent.rewrites < MaxRewrites
  /\ \E a \in DOMAIN Archives \ {archive} : archive' = a
  /\ spent' = [spent EXCEPT !.rewrites = @ + 1]
  /\ UNCHANGED <<index, builder, chunker, store, partial>>

-----------------------------------------------------------------------------
(* buildIndex                                                              *)

(* The chunker keeps reading the file it opened, once its name is gone.    *)
Detached == IF chunker.stage = "opened" /\ chunker.file = AtPath
            THEN [chunker EXCEPT !.file = index]
            ELSE chunker

(* Without --force an index in place is left alone and nothing happens;    *)
(* with it the index is removed before the new file is opened.             *)
BuildStart ==
  /\ builder = "idle" /\ spent.builds < MaxBuilds
  /\ builder' = "opening"
  /\ index' = NoFile
  /\ chunker' = Detached
  /\ spent' = [spent EXCEPT !.builds = @ + 1]
  /\ UNCHANGED <<archive, store, partial>>

BuildOpen ==
  /\ builder = "opening"
  /\ builder' = "building"
  /\ index' = [of |-> archive, k |-> 0]
  /\ UNCHANGED <<archive, chunker, store, partial, spent>>

BuildStep ==
  /\ builder = "building" /\ index.k < Finished
  /\ index' = [index EXCEPT !.k = @ + 1]
  /\ builder' = IF index.k + 1 = Finished THEN "idle" ELSE "building"
  /\ UNCHANGED <<archive, chunker, store, partial, spent>>

(* An exception closes the file and erases it; the removal or the opening  *)
(* may throw as well.                                                      *)
BuildFails ==
  /\ builder \in {"opening", "building"}
  /\ builder' = "idle"
  /\ index' = NoFile
  /\ chunker' = Detached
  /\ UNCHANGED <<archive, store, partial, spent>>

KillBuild ==
  /\ builder # "idle"
  /\ builder' = "idle"
  /\ UNCHANGED <<archive, index, chunker, store, partial, spent>>

-----------------------------------------------------------------------------
(* buildChunkStore                                                         *)

Held(c) == IF c.file = AtPath THEN Contents[index.of][index.k] ELSE Contents[c.file.of][c.file.k]

(* Without --force a store in place is left alone and nothing happens.     *)
(* The roots and the fingerprint are read first; only a missing table      *)
(* stops the reading, and those it reads come with the first step.         *)
StoreStart ==
  /\ chunker.stage = "idle" /\ spent.stores < MaxStores
  /\ HasFile(index) /\ After(index.k, "ddl")
  /\ LET x == Contents[index.of][index.k]
     IN  chunker' = [stage |-> "opened", file |-> AtPath,
                     roots |-> Roots(x), print |-> Fingerprint(x)]
  /\ partial' = Torn
  /\ spent' = [spent EXCEPT !.stores = @ + 1]
  /\ UNCHANGED <<archive, index, builder, store>>

(* The fragments, the tables built from them and the settings, then close. *)
StoreWrite ==
  /\ chunker.stage = "opened"
  /\ LET x == Held(chunker)
     IN  partial' = [print |-> chunker.print,
                     fragments |-> ThreadFragments(x, chunker.roots)
                                     \o WindowFragments(x, chunker.roots)]
  /\ chunker' = [stage |-> "written"]
  /\ UNCHANGED <<archive, index, builder, store, spent>>

(* mutant: the store in place goes before the new one is written.          *)
StoreRemoveEarly ==
  /\ chunker.stage \in {"opened", "written"}
  /\ chunker' = IF chunker.stage = "written" THEN [stage |-> "removed"] ELSE chunker
  /\ store' = NoFile
  /\ UNCHANGED <<archive, index, builder, partial, spent>>

StoreRemove ==
  /\ chunker.stage = "written"
  /\ chunker' = [stage |-> "removed"]
  /\ store' = NoFile
  /\ UNCHANGED <<archive, index, builder, partial, spent>>

StoreRename ==
  /\ chunker.stage = "removed"
  /\ chunker' = Idle
  /\ store' = partial
  /\ partial' = NoFile
  /\ UNCHANGED <<archive, index, builder, spent>>

(* An exception erases the temporary file, unless it is the only copy.     *)
StoreFails ==
  /\ chunker.stage # "idle"
  /\ chunker' = Idle
  /\ partial' = IF chunker.stage = "opened" THEN NoFile ELSE partial
  /\ UNCHANGED <<archive, index, builder, store, spent>>

KillStore ==
  /\ chunker.stage # "idle"
  /\ chunker' = Idle
  /\ UNCHANGED <<archive, index, builder, store, partial, spent>>

FilesNext ==
  \/ Rewrite
  \/ BuildStart \/ BuildOpen \/ BuildStep \/ BuildFails \/ KillBuild
  \/ StoreStart \/ StoreWrite \/ StoreRemove \/ StoreRename \/ StoreFails \/ KillStore

FilesSpec == FilesInit /\ [][FilesNext]_filesVars

-----------------------------------------------------------------------------
(* An index that the server, or the page of a browser, accepts, whether a  *)
(* build is at work on it or died over it, holds every message of people   *)
(* of the archive it was built from, numbered from the oldest, with their  *)
(* text and the message they answer.  Only the presence of the tables is   *)
(* looked at, so this rests on the search table coming after all of these; *)
(* the search terms, the channel counters and the date of the build may be *)
(* missing after a kill.                                                   *)
AcceptedIndexHoldsEveryMessage ==
  HasFile(index) /\ HasEveryTable(index.k) =>
    LET x == Contents[index.of][index.k]
        kept == Kept(Archives[index.of])
    IN  /\ Len(x.posts) = Cardinality(kept)
        /\ \A p \in kept : \E r \in DOMAIN x.posts :
             /\ x.posts[r].pid = p.pid /\ x.posts[r].at = p.at /\ x.posts[r].words = p.words
             /\ IF \E q \in kept : q.pid = p.root
                THEN x.posts[r].root # 0 /\ x.posts[x.posts[r].root].pid = p.root
                ELSE x.posts[r].root = 0 /\ x.posts[r].orphan = (p.root # 0)
        /\ \A r, s \in DOMAIN x.posts : r < s => x.posts[r].at <= x.posts[s].at

(* A store of fragments that opens with the index in place cites, under    *)
(* the name of its author, what the message it points to says: however     *)
(* the archive was extracted again, edited or pseudonymised to the end,    *)
(* and whatever was being built, failed or was killed, since the store was *)
(* written.  An archive indexed in the middle of a pseudonymisation would  *)
(* break MessagesStay: the fingerprint covers names, not authors.          *)
CitedMessagesAreRight ==
  Complete(store) /\ HasFile(index) /\ HasEveryTable(index.k) =>
    LET x == Contents[index.of][index.k]
    IN  Opens(store, x) =>
          \A i \in DOMAIN store.fragments :
            LET f == store.fragments[i]
            IN  \A j \in DOMAIN f.ids : f.ids[j] \in DOMAIN x.posts /\ f.text[j] = Line(x, f.ids[j])

(* Every message of the index a store was cut from is in one fragment and  *)
(* once, although threads and windows are cut by two passes: a root never  *)
(* counts in both.  A fragment is no larger than its bound, unless it is a *)
(* single message; a window has one channel and no silence above the gap.  *)
FragmentsPartition ==
  Complete(store) /\ HasFile(index) /\ HasEveryTable(index.k) =>
    LET x == Contents[index.of][index.k]
        places == {p \in (DOMAIN store.fragments) \X (1..Len(x.posts)) :
                     p[2] \in DOMAIN store.fragments[p[1]].ids}
    IN  Opens(store, x) =>
          /\ \A id \in DOMAIN x.posts :
               Cardinality({p \in places : store.fragments[p[1]].ids[p[2]] = id}) = 1
          /\ \A i \in DOMAIN store.fragments :
               LET ids == store.fragments[i].ids
               IN  /\ Len(ids) = 1 \/ ~(Size(Text(x, ids)) > MaxChars)
                   /\ \/ \A j \in DOMAIN ids : ThreadOf(x, ids[j]) = ThreadOf(x, ids[1])
                      \/ /\ Len(ids) <= MaxMessages
                         /\ \A j \in 2..Len(ids) :
                              /\ x.posts[ids[j]].ch = x.posts[ids[1]].ch
                              /\ x.posts[ids[j]].at - x.posts[ids[j - 1]].at <= Gap

(* A store in place is only ever replaced by a complete one, and its name  *)
(* only goes when the new store stands complete under the temporary name:  *)
(* a failed or killed build never costs the store that was there.          *)
StoreKeptUntilReplaced ==
  [][/\ store' # store => Complete(store') \/ Complete(partial')
     /\ HasFile(store') => Complete(store')]_filesVars
=============================================================================
