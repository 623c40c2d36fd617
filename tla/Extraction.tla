----------------------------- MODULE Extraction -----------------------------
(***************************************************************************)
(* packages/extractor/src/extract/orchestrator.ts, runExtraction, from the *)
(* loading of the resume state to the manifest, over a sequence of         *)
(* sessions in the same output directory, each of which may be killed at   *)
(* any point.  One worker per channel in flight runs extractChannelPosts,  *)
(* the description of its attachments and its marks in the state; the main *)
(* task then reads back what earlier sessions wrote and finishes.          *)
(*                                                                         *)
(* A save of the state is one step: it writes the whole in-memory state    *)
(* between the call and its return, which is what StateStore implements    *)
(* (DurableRegister).  saveThrottled may or may not write.                 *)
(*                                                                         *)
(* Each post has one author of its own, and one attachment of its own in   *)
(* the channels of WithFiles: <<c, n>> names post n of channel c, its      *)
(* author and its attachment.  Joins, emojis and channel sheets precede    *)
(* this part of the run and share no variable with it.                     *)
(***************************************************************************)
EXTENDS ChannelPosts, FiniteSets

CONSTANTS
  WithFiles,     \* channels whose posts carry an attachment
  Concurrency,   \* runOptions.concurrency: channels in flight
  FlushEvery,    \* FLUSH_EVERY_PAGES
  Faults,        \* what may go wrong, among the names below
  MaxSessions    \* bound: processes started in this directory

ASSUME ExtractionAssumption ==
  /\ WithFiles \subseteq Channel
  /\ Concurrency \in Nat \ {0}
  /\ FlushEvery \in Nat \ {0} /\ MaxSessions \in Nat
  /\ Faults \subseteq {"kill",    \* the process dies
                       "signal",  \* SIGINT or SIGTERM: save the state, then exit
                       "power",   \* the machine dies: what was not synced may go
                       "torn",    \* the process dies inside the write of a line
                       "api",     \* a request fails after its retries
                       "io",      \* a local write fails
                       "lookup"}  \* a user or an attachment is not found again

VARIABLES
  (* one process *)
  main,          \* where runExtraction stands
  mem,           \* the in-memory state
  worker,        \* worker[c]: where the task of channel c stands
  local,         \* local[c]: its own variables, see NoLocal
  fully,         \* fullyExtractedThisSession
  users,         \* allUserIds
  cited,         \* referencedFileIds
  warned,        \* warnings of this session, see Warning
  leaving,       \* the signal handler has saved the state and will exit
  (* the output directory *)
  disk,          \* state.json
  part,          \* posts/<id>.part; <<>> when absent
  torn,          \* its last line has no line feed
  synced,        \* number of its lines forced to disk
  final,         \* posts/<id>.ndjson; <<>> when absent
  rows,          \* files.ndjson: lines that describe each attachment
  rowsTorn,      \* its last line has no line feed
  unfetched,     \* attachments whose line says download_failed
  usersFile,     \* users.ndjson
  manifest,      \* manifest.json: post count and warnings of each channel
  sessions,      \* processes started so far
  behind         \* history: channels a session found with a .part file shorter
                 \* than the count its state was loaded with

process == <<main, mem, worker, local, fully, users, cited, warned, leaving>>
posts == <<part, torn, synced, final>>
listed == <<rows, rowsTorn, unfetched, usersFile, manifest, sessions, behind>>
vars == <<process, disk, posts, listed>>

-----------------------------------------------------------------------------
(* Data                                                                    *)

Statuses == {"pending", "in_progress", "complete", "failed"}

(* createChannelProgress; newest 0 is null.                                *)
NewProgress(c) == [status |-> "pending", cursor |-> NoCursor(c), newest |-> 0,
                   written |-> 0, finalized |-> FALSE]

(* createEmptyState, of which these fields matter here.                    *)
EmptyState == [channel |-> [c \in Channel |-> NewProgress(c)],
               downloaded |-> {}, warned |-> {}]

NoLocal == [cursor |-> 0, written |-> 0, newest |-> 0, from |-> 0, pages |-> 0,
            scratch |-> FALSE, reversed |-> FALSE, left |-> {}]

AllFiles == UNION {{<<c, n>> : n \in 1 .. Size[c]} : c \in WithFiles}
FilesOf(c, ns) == IF c \in WithFiles THEN {<<c, n>> : n \in ns} ELSE {}
AuthorsOf(c, ns) == {<<c, n>> : n \in ns}
Lines(s) == {s[i] : i \in DOMAIN s}
Described == {f \in AllFiles : rows[f] > 0}
Progress(c) == mem.channel[c]
Complete == {c \in Channel : Progress(c).status = "complete"}

(* CHANNEL_INCOMPLETE and FILE_DOWNLOAD_FAILED, for the channel they name.  *)
Warning == {"incomplete", "download"} \X Channel

(* Posts the worker of c read from the instance in this session.           *)
SeenBy(c) == local[c].cursor .. (local[c].from - 1)

Quiet == {"todo", "done", "threw"}
InFlight == {c \in Channel : worker[c] \notin Quiet}
Threw == {c \in Channel : worker[c] = "threw"}

(* mapWithConcurrency: runners take channels in plan order; a runner whose *)
(* worker rejects is gone, the others go on.                               *)
Runners == Concurrency - Cardinality(Threw)
Takes(c) ==
  /\ main = "channels" /\ worker[c] = "todo"
  /\ \A d \in Channel : d < c => worker[d] # "todo"
  /\ Cardinality(InFlight) < Runners

Goes(c, to) == worker' = [worker EXCEPT ![c] = to]
Marks(c, progress) == mem' = [mem EXCEPT !.channel[c] = progress]

(* What dies with the process.                                             *)
Reset ==
  /\ mem' = EmptyState
  /\ worker' = [c \in Channel |-> "todo"]
  /\ local' = [c \in Channel |-> NoLocal]
  /\ fully' = {} /\ users' = {} /\ cited' = {} /\ warned' = {}
  /\ leaving' = FALSE
Down == main' = "down" /\ Reset

-----------------------------------------------------------------------------
(* A session starts                                                        *)

Init ==
  /\ main = "down" /\ mem = EmptyState
  /\ worker = [c \in Channel |-> "todo"]
  /\ local = [c \in Channel |-> NoLocal]
  /\ fully = {} /\ users = {} /\ cited = {} /\ warned = {} /\ leaving = FALSE
  /\ disk = EmptyState
  /\ part = [c \in Channel |-> <<>>] /\ final = [c \in Channel |-> <<>>]
  /\ torn = [c \in Channel |-> FALSE] /\ synced = [c \in Channel |-> 0]
  /\ rows = [f \in AllFiles |-> 0] /\ rowsTorn = FALSE /\ unfetched = {}
  /\ usersFile = {} /\ manifest = <<>> /\ sessions = 0 /\ behind = {}

(* StateStore.load, or StateStore.create when there is no state file yet.  *)
(* Every session runs with --resume.                                       *)
Behind(c) == ~disk.channel[c].finalized /\ Len(part[c]) < disk.channel[c].written

StartFromScratch ==
  /\ main = "down" /\ sessions < MaxSessions
  /\ mem' = EmptyState
  /\ main' = "channels" /\ sessions' = sessions + 1
  /\ behind' = behind \cup {c \in Channel : Behind(c)}
  /\ UNCHANGED <<worker, local, fully, users, cited, warned, leaving, disk, posts,
                 rows, rowsTorn, unfetched, usersFile, manifest>>

StartSession ==
  /\ main = "down" /\ sessions < MaxSessions
  /\ mem' = disk
  /\ main' = "channels" /\ sessions' = sessions + 1
  /\ behind' = behind \cup {c \in Channel : Behind(c)}
  /\ UNCHANGED <<worker, local, fully, users, cited, warned, leaving, disk, posts,
                 rows, rowsTorn, unfetched, usersFile, manifest>>

-----------------------------------------------------------------------------
(* A worker takes a channel                                                *)

SkipComplete(c) ==
  /\ Takes(c) /\ Progress(c).status = "complete"
  /\ Goes(c, "done")
  /\ UNCHANGED <<main, mem, local, fully, users, cited, warned, leaving, disk,
                 posts, listed>>

Inherits(c) ==
  /\ Takes(c) /\ Progress(c).status # "complete"
  /\ Progress(c).finalized /\ Progress(c).written > 0

(* The posts were finalized by an earlier session.  referencedFileIds is a *)
(* const declared after the await on this very loop: its first use here    *)
(* throws, so the worker rejects as soon as a post cites an attachment.    *)
InheritFinalized(c) ==
  /\ Inherits(c)
  /\ users' = users \cup AuthorsOf(c, Lines(final[c]))
  /\ IF FilesOf(c, Lines(final[c])) = {}
       THEN /\ Marks(c, [Progress(c) EXCEPT !.status = "complete"])
            /\ Goes(c, "savingInherited")
       ELSE Goes(c, "threw") /\ UNCHANGED mem
  /\ UNCHANGED <<main, local, fully, cited, warned, leaving, disk, posts, listed>>

(* extractChannelPosts up to its loop: the .part file, when it is readable *)
(* and not empty, wins over the state; a file whose last line is torn is   *)
(* unreadable, and NdjsonWriter.open refuses to append to it.              *)
OpenTrustsState(c) ==
  /\ Takes(c) /\ Progress(c).status # "complete" /\ ~Inherits(c)
  /\ local' = [local EXCEPT ![c] =
         [NoLocal EXCEPT !.cursor = Progress(c).cursor, !.from = Progress(c).cursor,
                         !.written = Progress(c).written,
                         !.newest = Progress(c).newest,
                         !.scratch = (Progress(c).written = 0)]]
  /\ Goes(c, IF torn[c] THEN "failing" ELSE "paging")
  /\ UNCHANGED <<main, mem, fully, users, cited, warned, leaving, disk, posts,
                 listed>>

OpenAddsTail(c) ==
  /\ Takes(c) /\ Progress(c).status # "complete" /\ ~Inherits(c)
  /\ LET p == Progress(c)
         tail == part[c] # <<>> /\ ~torn[c]
         from == IF tail THEN TailCursor(part[c]) ELSE p.cursor
     IN local' = [local EXCEPT ![c] =
          [NoLocal EXCEPT
             !.cursor = from, !.from = from, !.written = p.written + Len(part[c]),
             !.newest = IF tail /\ p.newest = 0 THEN TailNewest(part[c]) ELSE p.newest,
             !.scratch = (p.written = 0)]]
  /\ Goes(c, IF torn[c] THEN "failing" ELSE "paging")
  /\ UNCHANGED <<main, mem, fully, users, cited, warned, leaving, disk, posts,
                 listed>>

OpenChannel(c) ==
  /\ Takes(c) /\ Progress(c).status # "complete" /\ ~Inherits(c)
  /\ LET p == Progress(c)
         tail == part[c] # <<>> /\ ~torn[c]
         from == IF tail THEN TailCursor(part[c]) ELSE p.cursor
     IN local' = [local EXCEPT ![c] =
          [NoLocal EXCEPT
             !.cursor = from, !.from = from,
             !.written = IF tail THEN Len(part[c]) ELSE p.written,
             !.newest = IF tail /\ p.newest = 0 THEN TailNewest(part[c]) ELSE p.newest,
             !.scratch = (p.written = 0)]]
  /\ Goes(c, IF torn[c] THEN "failing" ELSE "paging")
  /\ UNCHANGED <<main, mem, fully, users, cited, warned, leaving, disk, posts,
                 listed>>

-----------------------------------------------------------------------------
(* The pagination                                                          *)

Paging(c) == worker[c] = "paging"

StopsPaging(c) ==
  /\ Goes(c, "closing")
  /\ UNCHANGED <<main, mem, local, fully, users, cited, leaving, disk, posts,
                 listed>>

EmptyPage(c) ==
  /\ Paging(c)
  /\ \E overlap \in Overlaps(c, local[c].cursor) :
       PageHigh(local[c].cursor, overlap) < 1
  /\ StopsPaging(c) /\ UNCHANGED warned

(* Every new post of the page is older than Since.                         *)
PageBelowSince(c) ==
  /\ Paging(c)
  /\ \E overlap \in Overlaps(c, local[c].cursor) :
       /\ PageLow(local[c].cursor, overlap) <= FreshHigh(local[c].cursor)
       /\ BatchLow(local[c].cursor, overlap) > FreshHigh(local[c].cursor)
  /\ StopsPaging(c) /\ UNCHANGED warned

(* A page that brings nothing new ends the loop with a warning.            *)
StuckPage(c) ==
  /\ Paging(c)
  /\ \E overlap \in Overlaps(c, local[c].cursor) :
       /\ PageHigh(local[c].cursor, overlap) >= 1
       /\ PageLow(local[c].cursor, overlap) > FreshHigh(local[c].cursor)
  /\ warned' = warned \cup {<<"incomplete", c>>}
  /\ StopsPaging(c)

(* A page is appended to the .part file, the cursor follows, the state is  *)
(* updated and saved unless the throttle says otherwise.  The loop ends    *)
(* when Since is passed or when prev_post_id says nothing is older.        *)
WritePage(c) ==
  /\ Paging(c)
  /\ \E overlap \in Overlaps(c, local[c].cursor), told \in BOOLEAN, saved \in BOOLEAN :
       LET k == local[c].cursor
           high == FreshHigh(k)
           low == BatchLow(k, overlap)
           flush == local[c].pages + 1 >= FlushEvery
           newest == Larger(local[c].newest, high)
           written == local[c].written + (high - low + 1)
           last == \/ PageLow(k, overlap) < Since
                   \/ told /\ PageLow(k, overlap) = 1
       IN /\ low <= high
          /\ part' = [part EXCEPT ![c] = @ \o NewestFirst(high, low)]
          /\ synced' = IF flush THEN [synced EXCEPT ![c] = Len(part'[c])] ELSE synced
          /\ local' = [local EXCEPT ![c].cursor = low, ![c].written = written,
                                    ![c].newest = newest,
                                    ![c].pages = IF flush THEN 0 ELSE @ + 1]
          /\ Marks(c, [Progress(c) EXCEPT !.status = "in_progress", !.cursor = low,
                                          !.newest = newest, !.written = written])
          /\ disk' = IF saved THEN mem' ELSE disk
          /\ Goes(c, IF last THEN "closing" ELSE "paging")
  /\ UNCHANGED <<main, fully, users, cited, warned, leaving, torn, final, listed>>

(* A page request, the list of pinned posts or a save of the cursor fails. *)
FailPage(c) ==
  /\ Paging(c) /\ ("api" \in Faults \/ "io" \in Faults)
  /\ Goes(c, "failing")
  /\ UNCHANGED <<main, mem, local, fully, users, cited, warned, leaving, disk,
                 posts, listed>>

(* writeMany returns once a page is in the stream: a write that fails is   *)
(* only seen by a later write or by close(), and whatever was appended     *)
(* since the last flush() may be missing, the state having counted it.     *)
FailAppend(c) ==
  /\ worker[c] \in {"paging", "closing"} /\ "io" \in Faults
  /\ \E n \in synced[c] .. Len(part[c]), half \in {FALSE, "torn" \in Faults} :
       /\ part' = [part EXCEPT ![c] = SubSeq(@, 1, n)]
       /\ torn' = [torn EXCEPT ![c] = half]
  /\ Goes(c, "failing")
  /\ UNCHANGED <<main, mem, local, fully, users, cited, warned, leaving, disk,
                 synced, final, listed>>

-----------------------------------------------------------------------------
(* From the .part file to the final file                                   *)

Closing(c) == worker[c] = "closing"

(* reverseLines truncates the final file when it opens it.                 *)
BeginReverse(c) ==
  /\ Closing(c) /\ part[c] # <<>>
  /\ \E n \in 0 .. Len(part[c]) - 1 :
       final' = [final EXCEPT ![c] = SubSeq(ReversedLines(part[c]), 1, n)]
  /\ local' = [local EXCEPT ![c].reversed = TRUE]
  /\ Goes(c, "reversing")
  /\ UNCHANGED <<main, mem, fully, users, cited, warned, leaving, disk, part, torn,
                 synced, listed>>

EndReverseKeepsPart(c) ==
  /\ worker[c] = "reversing"
  /\ final' = [final EXCEPT ![c] = ReversedLines(part[c])]
  /\ Goes(c, "finalized")
  /\ UNCHANGED <<main, mem, local, fully, users, cited, warned, leaving, disk, part,
                 torn, synced, listed>>

EndReverse(c) ==
  /\ worker[c] = "reversing"
  /\ final' = [final EXCEPT ![c] = ReversedLines(part[c])]
  /\ Goes(c, "removing")
  /\ UNCHANGED <<main, mem, local, fully, users, cited, warned, leaving, disk, part,
                 torn, synced, listed>>

(* A failed reversal removes the destination it opened.                    *)
FailReverse(c) ==
  /\ worker[c] = "reversing" /\ "io" \in Faults
  /\ final' = [final EXCEPT ![c] = <<>>]
  /\ Goes(c, "failing")
  /\ UNCHANGED <<main, mem, local, fully, users, cited, warned, leaving, disk, part,
                 torn, synced, listed>>

RemovePart(c) ==
  /\ worker[c] = "removing"
  /\ part' = [part EXCEPT ![c] = <<>>] /\ synced' = [synced EXCEPT ![c] = 0]
  /\ Goes(c, "finalized")
  /\ UNCHANGED <<main, mem, local, fully, users, cited, warned, leaving, disk, torn,
                 final, listed>>

(* rm throws, once the final file is whole or on an empty .part file.      *)
FailRemovePart(c) ==
  /\ "io" \in Faults
  /\ worker[c] = "removing" \/ (Closing(c) /\ part[c] = <<>>)
  /\ Goes(c, "failing")
  /\ UNCHANGED <<main, mem, local, fully, users, cited, warned, leaving, disk,
                 posts, listed>>

(* Nothing in the .part file: the final file, if any, is left as it is.    *)
NoPart(c) ==
  /\ Closing(c) /\ part[c] = <<>>
  /\ warned' = warned \cup
       IF local[c].written > 0 /\ final[c] = <<>> THEN {<<"incomplete", c>>} ELSE {}
  /\ Goes(c, "finalized")
  /\ UNCHANGED <<main, mem, local, fully, users, cited, leaving, disk, posts, listed>>

-----------------------------------------------------------------------------
(* Marks in the state, and the attachments                                 *)

MarkFinalized(c) ==
  /\ worker[c] = "finalized"
  /\ users' = users \cup AuthorsOf(c, SeenBy(c))
  /\ Marks(c, [Progress(c) EXCEPT !.finalized = TRUE, !.written = local[c].written])
  /\ Goes(c, "savingFinal")
  /\ UNCHANGED <<main, local, fully, cited, warned, leaving, disk, posts, listed>>

SaveFinal(c) ==
  /\ worker[c] = "savingFinal"
  /\ disk' = mem
  /\ fully' = fully \cup IF local[c].scratch THEN {c} ELSE {}
  /\ local' = [local EXCEPT ![c].left = FilesOf(c, SeenBy(c)) \ mem.downloaded]
  /\ Goes(c, "describing")
  /\ UNCHANGED <<main, mem, users, cited, warned, leaving, posts, listed>>

(* One line of files.ndjson per attachment, in the order they were seen;   *)
(* a binary the instance refuses has a line and a warning.                 *)
DescribeFile(c) ==
  /\ worker[c] = "describing" /\ ~rowsTorn
  /\ \E f \in local[c].left, refused \in {FALSE, "api" \in Faults} :
       /\ \A g \in local[c].left : g[2] <= f[2]
       /\ rows' = [rows EXCEPT ![f] = @ + 1]
       /\ unfetched' = IF refused THEN unfetched \cup {f} ELSE unfetched
       /\ warned' = IF refused THEN warned \cup {<<"download", c>>} ELSE warned
       /\ local' = [local EXCEPT ![c].left = @ \ {f}]
  /\ UNCHANGED <<main, mem, worker, fully, users, cited, leaving, disk, posts,
                 rowsTorn, usersFile, manifest, sessions, behind>>

(* files.ndjson cannot be opened for appending, or written: the worker,    *)
(* outside its try block by now, rejects.                                  *)
DescribeThrows(c) ==
  /\ worker[c] = "describing" /\ local[c].left # {}
  /\ rowsTorn \/ "io" \in Faults
  /\ Goes(c, "threw")
  /\ UNCHANGED <<main, mem, local, fully, users, cited, warned, leaving, disk,
                 posts, listed>>

MarkComplete(c) ==
  /\ worker[c] = "describing" /\ local[c].left = {}
  /\ Marks(c, [Progress(c) EXCEPT !.status = "complete"])
  /\ Goes(c, "savingDone")
  /\ UNCHANGED <<main, local, fully, users, cited, warned, leaving, disk, posts,
                 listed>>

(* saveNow, then the list of described attachments, saved or throttled.    *)
SaveDone(c) ==
  /\ worker[c] = "savingDone"
  /\ mem' = [mem EXCEPT !.downloaded = @ \cup FilesOf(c, SeenBy(c))]
  /\ disk' \in {mem, mem'}
  /\ Goes(c, "done")
  /\ UNCHANGED <<main, local, fully, users, cited, warned, leaving, posts, listed>>

SaveInherited(c) ==
  /\ worker[c] \in {"savingInherited", "savingFailed"}
  /\ disk' = mem
  /\ Goes(c, "done")
  /\ UNCHANGED <<main, mem, local, fully, users, cited, warned, leaving, posts,
                 listed>>

MarkFailedRetries(c) ==
  /\ worker[c] = "failing"
  /\ Goes(c, "paging")
  /\ UNCHANGED <<main, mem, local, fully, users, cited, warned, leaving, disk, posts,
                 listed>>

MarkFailedForgets(c) ==
  /\ worker[c] = "failing"
  /\ Marks(c, [NewProgress(c) EXCEPT !.status = "failed"])
  /\ warned' = warned \cup {<<"incomplete", c>>}
  /\ Goes(c, "savingFailed")
  /\ UNCHANGED <<main, local, fully, users, cited, leaving, disk, posts, listed>>

MarkFailed(c) ==
  /\ worker[c] = "failing"
  /\ Marks(c, [Progress(c) EXCEPT !.status = "failed"])
  /\ warned' = warned \cup {<<"incomplete", c>>}
  /\ Goes(c, "savingFailed")
  /\ UNCHANGED <<main, local, fully, users, cited, leaving, disk, posts, listed>>

FailSave(c) ==
  /\ "io" \in Faults
  /\ worker[c] \in {"savingFinal", "savingDone", "savingInherited", "savingFailed"}
  /\ Goes(c, IF worker[c] = "savingFinal" THEN "failing" ELSE "threw")
  /\ UNCHANGED <<main, mem, local, fully, users, cited, warned, leaving, disk,
                 posts, listed>>

(* saveNow has written "complete"; the throttled save that follows fails.  *)
FailThrottled(c) ==
  /\ worker[c] = "savingDone" /\ "io" \in Faults
  /\ mem' = [mem EXCEPT !.downloaded = @ \cup FilesOf(c, SeenBy(c))]
  /\ disk' = mem
  /\ Goes(c, "threw")
  /\ UNCHANGED <<main, local, fully, users, cited, warned, leaving, posts, listed>>

-----------------------------------------------------------------------------
(* The main task, once every worker has returned                           *)

(* Complete channels not read from end to end by this session are read     *)
(* back for their authors and attachments.                                 *)
RereadNothing ==
  /\ main = "channels" /\ \A c \in Channel : worker[c] = "done"
  /\ main' = "repair"
  /\ UNCHANGED <<mem, worker, local, fully, users, cited, warned, leaving, disk,
                 posts, listed>>

Reread ==
  /\ main = "channels" /\ \A c \in Channel : worker[c] = "done"
  /\ LET again == Complete \ fully
     IN /\ users' = users \cup UNION {AuthorsOf(c, Lines(final[c])) : c \in again}
        /\ cited' = UNION {FilesOf(c, Lines(final[c])) : c \in again}
  /\ main' = "repair"
  /\ UNCHANGED <<mem, worker, local, fully, warned, leaving, disk, posts, listed>>

(* Promise.all rejects; the runners that are left finish their channels.   *)
Reject ==
  /\ main = "channels" /\ Threw # {} /\ InFlight = {}
  /\ Runners > 0 => \A c \in Channel : worker[c] # "todo"
  /\ main' = "rejected"
  /\ UNCHANGED <<mem, worker, local, fully, users, cited, warned, leaving, disk,
                 posts, listed>>

(* repairMissingFiles: the attachments cited but described nowhere.  One   *)
(* whose sheet the instance does not find again is only a warning; one     *)
(* whose binary it refuses has a line, and no warning.                     *)
Missing == cited \ Described
Found == IF "lookup" \in Faults THEN SUBSET Missing ELSE {Missing}
Refused(found) == IF "api" \in Faults THEN SUBSET found ELSE {{}}

RepairEverythingCited ==
  /\ main = "repair" /\ (rowsTorn => cited = {})
  /\ rows' = [f \in AllFiles |-> rows[f] + IF f \in cited THEN 1 ELSE 0]
  /\ main' = "users"
  /\ UNCHANGED <<mem, worker, local, fully, users, cited, warned, leaving, disk,
                 posts, rowsTorn, unfetched, usersFile, manifest, sessions, behind>>

RepairFiles ==
  /\ main = "repair"
  /\ \E found \in Found :
       /\ rowsTorn => found = {}
       /\ rows' = [f \in AllFiles |-> rows[f] + IF f \in found THEN 1 ELSE 0]
       /\ \E refused \in Refused(found) : unfetched' = unfetched \cup refused
       /\ warned' = warned \cup {<<"download", f[1]>> : f \in Missing \ found}
  /\ main' = "users"
  /\ UNCHANGED <<mem, worker, local, fully, users, cited, leaving, disk, posts,
                 rowsTorn, usersFile, manifest, sessions, behind>>

(* files.ndjson cannot be appended to after a torn line, or a write to it  *)
(* fails, with a part of the lines written: the run rejects.               *)
RepairThrows ==
  /\ main = "repair" /\ Missing # {} /\ (rowsTorn \/ "io" \in Faults)
  /\ \E some \in IF rowsTorn THEN {{}} ELSE SUBSET Missing :
       /\ rows' = [f \in AllFiles |-> rows[f] + IF f \in some THEN 1 ELSE 0]
       /\ \E refused \in Refused(some) : unfetched' = unfetched \cup refused
  /\ rowsTorn' \in {rowsTorn, rowsTorn \/ "torn" \in Faults}
  /\ main' = "rejected"
  /\ UNCHANGED <<mem, worker, local, fully, users, cited, warned, leaving, disk, posts,
                 usersFile, manifest, sessions, behind>>

(* extractUsers: users.ndjson is rewritten through a rename, with the      *)
(* records it already had; an author the instance does not return, or a    *)
(* lookup that fails, leaves no record.                                    *)
FetchUsers ==
  /\ main = "users"
  /\ \E found \in IF "lookup" \in Faults THEN SUBSET (users \ usersFile)
                  ELSE {users \ usersFile} :
       usersFile' = usersFile \cup found
  /\ main' = "publish"
  /\ UNCHANGED <<mem, worker, local, fully, users, cited, warned, leaving, disk,
                 posts, rows, rowsTorn, unfetched, manifest, sessions, behind>>

(* The posts of each complete channel are counted on its file; warnings    *)
(* are merged with those of earlier sessions.                              *)
PublishTrustsState ==
  /\ main = "publish"
  /\ mem' = [mem EXCEPT !.warned = @ \cup warned]
  /\ main' = "closing"
  /\ UNCHANGED <<worker, local, fully, users, cited, warned, leaving, disk, posts,
                 listed>>

Publish ==
  /\ main = "publish"
  /\ warned' = warned \cup {<<"incomplete", c>> :
                            c \in {d \in Complete : Len(final[d]) # Progress(d).written}}
  /\ mem' = [mem EXCEPT !.warned = @ \cup warned']
  /\ main' = "closing"
  /\ UNCHANGED <<worker, local, fully, users, cited, leaving, disk, posts, listed>>

CloseState ==
  /\ main = "closing"
  /\ disk' = mem
  /\ main' = "manifest"
  /\ UNCHANGED <<mem, worker, local, fully, users, cited, warned, leaving, posts,
                 listed>>

WriteManifest ==
  /\ main = "manifest"
  /\ manifest' = [c \in Complete |-> [posts |-> Len(final[c]),
                    warned |-> {w \in {"incomplete", "download"} : <<w, c>> \in mem.warned}]]
  /\ main' = "finished"
  /\ UNCHANGED <<mem, worker, local, fully, users, cited, warned, leaving, disk,
                 posts, rows, rowsTorn, unfetched, usersFile, sessions, behind>>

(* Another local write of the main task fails: users.ndjson before its     *)
(* rename, the teams or channels sheets, the state, or the manifest, which *)
(* is then cut.                                                            *)
MainThrows ==
  /\ main \in {"users", "publish", "closing", "manifest"} /\ "io" \in Faults
  /\ manifest' \in {manifest} \cup IF main = "manifest" THEN {<<>>} ELSE {}
  /\ main' = "rejected"
  /\ UNCHANGED <<mem, worker, local, fully, users, cited, warned, leaving, disk, posts,
                 rows, rowsTorn, unfetched, usersFile, sessions, behind>>

Exit ==
  /\ main \in {"finished", "rejected"}
  /\ Down
  /\ UNCHANGED <<disk, posts, listed>>

-----------------------------------------------------------------------------
(* Ways a session may end early                                            *)

(* The handler saves the state; the tasks run on until process.exit.       *)
Interrupt ==
  /\ "signal" \in Faults /\ main # "down" /\ ~leaving
  /\ disk' = mem
  /\ leaving' = TRUE
  /\ UNCHANGED <<main, mem, worker, local, fully, users, cited, warned, posts, listed>>

Kill ==
  /\ main # "down" /\ (leaving \/ "kill" \in Faults)
  /\ Down
  /\ UNCHANGED <<disk, posts, listed>>

(* The process dies inside the append of a page: some of its lines, then   *)
(* the beginning of one.                                                   *)
KillInsidePage(c) ==
  /\ "torn" \in Faults /\ Paging(c)
  /\ \E overlap \in Overlaps(c, local[c].cursor) :
       LET high == FreshHigh(local[c].cursor)
           low == BatchLow(local[c].cursor, overlap)
       IN /\ low <= high
          /\ \E n \in 0 .. high - low :
               part' = [part EXCEPT ![c] = @ \o SubSeq(NewestFirst(high, low), 1, n)]
  /\ torn' = [torn EXCEPT ![c] = TRUE]
  /\ Down
  /\ UNCHANGED <<disk, synced, final, listed>>

KillInsideRow ==
  /\ "torn" \in Faults
  /\ \/ \E c \in Channel : worker[c] = "describing" /\ local[c].left # {} /\ ~rowsTorn
     \/ main = "repair" /\ Missing # {} /\ ~rowsTorn
  /\ rowsTorn' = TRUE
  /\ Down
  /\ UNCHANGED <<disk, posts, rows, unfetched, usersFile, manifest, sessions, behind>>

(* The attachments of the last lines of files.ndjson, which each worker    *)
(* describes from its most recent post down.                               *)
LastLines ==
  {{f \in Described : f[2] <= upTo[f[1]]} :
     upTo \in [WithFiles -> UNION {0 .. Size[c] : c \in WithFiles}]}

(* state.json is synced before its rename; the .part files every FlushEvery *)
(* pages; the final files, files.ndjson and users.ndjson never.  A killed  *)
(* process whose stream still holds a page, or a line of files.ndjson,     *)
(* loses it too: what is left then is among the outcomes of this.          *)
PowerLoss ==
  /\ "power" \in Faults /\ main # "down"
  /\ \E kept \in [Channel -> 0 .. PerPage * FlushEvery],
        lost \in SUBSET {c \in Channel : local[c].reversed} :
       /\ \A c \in Channel : synced[c] + kept[c] <= Len(part[c])
       /\ part' = [c \in Channel |-> SubSeq(part[c], 1, synced[c] + kept[c])]
       /\ final' = [c \in Channel |-> IF c \in lost THEN <<>> ELSE final[c]]
  /\ \E gone \in LastLines :
       /\ rows' = [f \in AllFiles |-> IF f \in gone THEN 0 ELSE rows[f]]
       /\ rowsTorn' \in IF gone = {} THEN {rowsTorn} ELSE {FALSE, "torn" \in Faults}
  /\ usersFile' \in {usersFile, {}}
  /\ Down
  /\ UNCHANGED <<disk, torn, synced, unfetched, manifest, sessions, behind>>

-----------------------------------------------------------------------------
WorkerStep(c) ==
  \/ SkipComplete(c) \/ InheritFinalized(c) \/ OpenChannel(c)
  \/ EmptyPage(c) \/ PageBelowSince(c) \/ StuckPage(c) \/ WritePage(c)
  \/ BeginReverse(c) \/ EndReverse(c) \/ RemovePart(c) \/ NoPart(c)
  \/ MarkFinalized(c) \/ SaveFinal(c) \/ DescribeFile(c) \/ MarkComplete(c)
  \/ SaveDone(c) \/ SaveInherited(c) \/ MarkFailed(c)

MainStep ==
  \/ Reread \/ Reject \/ RepairFiles \/ RepairThrows \/ FetchUsers
  \/ Publish \/ CloseState \/ WriteManifest \/ MainThrows \/ Exit

WorkerFault(c) ==
  \/ FailPage(c) \/ FailAppend(c) \/ FailReverse(c) \/ FailRemovePart(c)
  \/ DescribeThrows(c) \/ FailSave(c) \/ FailThrottled(c) \/ KillInsidePage(c)

Next ==
  \/ StartSession
  \/ \E c \in Channel : WorkerStep(c) \/ WorkerFault(c)
  \/ MainStep
  \/ Interrupt \/ Kill \/ KillInsideRow \/ PowerLoss

Spec == Init /\ [][Next]_vars

(* Within a session the event loop runs every task that can go on, and a   *)
(* request or a write settles.  Nothing forces a session to be started,    *)
(* nor a fault to happen.                                                  *)
Fairness ==
  /\ \A c \in Channel : WF_vars(WorkerStep(c) \/ DescribeThrows(c))
  /\ WF_vars(MainStep)

FairSpec == Spec /\ Fairness

-----------------------------------------------------------------------------
(* Properties                                                              *)

ProgressOf(c) == [status : Statuses, cursor : 1 .. NoCursor(c), newest : 0 .. Size[c],
                  written : 0 .. Size[c], finalized : BOOLEAN]

IsState(state) ==
  /\ \A c \in Channel : state.channel[c] \in ProgressOf(c)
  /\ state.downloaded \subseteq AllFiles /\ state.warned \subseteq Warning

(* Types; the two post files of a channel hold posts of that channel, and  *)
(* no more of the .part file is forced to disk than it has lines.          *)
TypeOK ==
  /\ main \in {"down", "channels", "repair", "users", "publish", "closing",
               "manifest", "finished", "rejected"}
  /\ worker \in [Channel -> {"todo", "paging", "closing", "reversing", "removing",
                             "finalized", "savingFinal", "describing", "savingDone",
                             "savingInherited", "savingFailed", "failing", "done",
                             "threw"}]
  /\ IsState(mem) /\ IsState(disk)
  /\ fully \subseteq Channel /\ warned \subseteq Warning /\ leaving \in BOOLEAN
  /\ cited \subseteq AllFiles /\ unfetched \subseteq AllFiles
  /\ \A c \in Channel :
       /\ local[c].cursor \in 0 .. NoCursor(c) /\ local[c].from \in 0 .. NoCursor(c)
       /\ local[c].written \in 0 .. Size[c] /\ local[c].left \subseteq AllFiles
       /\ Lines(part[c]) \subseteq 1 .. Size[c] /\ Lines(final[c]) \subseteq 1 .. Size[c]
       /\ synced[c] \in 0 .. Len(part[c]) /\ torn[c] \in BOOLEAN
  /\ rows \in [AllFiles -> Nat] /\ rowsTorn \in BOOLEAN
  /\ DOMAIN manifest \subseteq Channel /\ sessions \in 0 .. MaxSessions
  /\ behind \subseteq Channel

(* Whatever the page overlaps, the saves the throttle refused and the      *)
(* sessions that died, a .part file is always one descending run and a     *)
(* final file one ascending run: no post twice, none skipped in between.   *)
PostFilesAreRuns ==
  \A c \in Channel : IsDescendingRun(part[c]) /\ IsAscendingRun(final[c])

Accounted(c) == final[c] = History(c) \/ "incomplete" \in manifest[c].warned

(* "Il doit decrire ce qui existe, pas ce qui etait prevu": a channel      *)
(* listed by a finished run either has its whole history on disk or a      *)
(* CHANNEL_INCOMPLETE warning, provided no session ever loaded a state     *)
(* that counted more posts than the .part file held.                       *)
LossNeedsStaleState ==
  main = "finished" => \A c \in DOMAIN manifest \ behind : Accounted(c)

(* A run that skipped every channel because earlier sessions completed     *)
(* them, and so read them all back, leaves no author without a record and  *)
(* no attachment without a line.                                           *)
HealedByResume ==
  main = "finished" /\ fully = {} =>
    \A c \in Complete : /\ AuthorsOf(c, Lines(final[c])) \subseteq usersFile
                        /\ FilesOf(c, Lines(final[c])) \subseteq Described

(* No sequence of interrupted sessions describes an attachment twice.      *)
OneRowPerFile == \A f \in AllFiles : rows[f] <= 1

(* A channel the saved state calls finalized is resumed from its final     *)
(* file alone: nothing may be left in the .part file, which no session     *)
(* will read again.                                                        *)
FinalizedIsConsumable ==
  \A c \in Channel :
    disk.channel[c].finalized /\ disk.channel[c].written > 0 =>
      part[c] = <<>> /\ worker[c] \notin {"paging", "reversing", "removing"}

(* The posts of a channel that is saved as complete are never rewritten.   *)
CompleteIsFrozen ==
  [][\A c \in Channel : disk.channel[c].status = "complete" /\ main' # "down"
                          => final'[c] = final[c]]_vars

(* Saved progress is never undone by a later save, of this session or of   *)
(* another: complete and finalized are for ever.                           *)
DurableProgress ==
  [][\A c \in Channel :
       /\ disk.channel[c].finalized => disk'.channel[c].finalized
       /\ disk.channel[c].status = "complete"
            => disk'.channel[c].status = "complete"]_vars

(* Whatever fails in one channel, the session ends: every runner stops,    *)
(* and the main task finishes or rejects.                                  *)
EverySessionEnds == main = "channels" ~> main = "down"

(* Statements of the code that its behaviour contradicts; each is checked  *)
(* by a run that expects a violation.                                      *)

(* "On relit donc les file_ids depuis les messages deja ecrits": resuming  *)
(* a channel finalized by an earlier session never rejects its task.       *)
NoChannelThrows == Threw = {}

(* "Le manifeste est la seule piece auditable": a channel listed by a      *)
(* finished run has its whole history on disk, or a warning, whatever      *)
(* deaths came before.                                                     *)
NoSilentLoss ==
  main = "finished" => \A c \in DOMAIN manifest : Accounted(c)

(* "Sa portion heritee doit etre relue": a finished run has a record for   *)
(* every author of the channels it lists.                                  *)
EveryAuthorHasARecord ==
  main = "finished" =>
    \A c \in DOMAIN manifest : AuthorsOf(c, Lines(final[c])) \subseteq usersFile

(* "Les avertissements decrivent l archive, pas la session": a finished    *)
(* run warns of every attachment whose binary was refused.                 *)
RefusalsAreReported ==
  main = "finished" =>
    \A f \in unfetched : f[1] \in DOMAIN manifest
                           => "download" \in manifest[f[1]].warned
=============================================================================
