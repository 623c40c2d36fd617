# mmarchive in TLA+

TLA+ modules, TLC models and TLAPS proofs about mmarchive, which extracts a
Mattermost instance into a plain-file archive (`packages/extractor`), can redact
and anonymise that archive, and serves it for reading (`packages/viewer`). The
code is TypeScript on Node: one thread, an event loop, and therefore races only
between asynchronous tasks, between a task and the file system, and between a
process and its death.

Paths below are relative to the repository; `extractor/` stands for
`packages/extractor/src/`, `shared/` for `packages/shared/src/`, `viewer/` for
`packages/viewer/`.

## 1. Inventory

| component | source | state | operations | what is hard |
| --- | --- | --- | --- | --- |
| Resume state store | `extractor/archive/state-store.ts` | the in-memory state, `dirty`, `throttleAnchorMs`, `writeChain`, the state file | `load`, `create`, `touch`, `updateProgress`, `saveNow`, `saveThrottled`, `close` | many tasks share one promise chain; a write lowers `dirty` before it is durable; writes fail; SIGINT closes in the middle |
| Channel posts | `extractor/extract/channel-posts.ts`, `archive/reverse-file.ts` | cursor, counts, `seenIds`, `posts/<id>.part`, `posts/<id>.ndjson` | paginate, append, flush, reverse, remove | the file, the cursor and the saved cursor move at different times; a death may fall between any two |
| Orchestrator | `extractor/extract/orchestrator.ts` | `fullyExtractedThisSession`, `allUserIds`, `referencedFileIds`, warnings | one worker per channel, reread, repair, users, publication | several sessions over one directory; an error in one runner while others go on |
| Assets | `extractor/extract/assets.ts` | `files.ndjson`, `users.ndjson`, `emojis.ndjson`, binaries | `extractFiles`, `repairMissingFiles`, `extractUsers`, `extractEmojis` | retries across sessions, refused binaries, lines written once |
| NDJSON | `shared/ndjson.ts` | stream, `#failure`, `#lastWrite`, `#drain` | `open`, `write`, `writeMany`, `flush`, `close`, readers | a write returns before it is done and fails later; torn last lines |
| HTTP client and limiter | `extractor/mattermost/http-client.ts`, `rate-limiter.ts` | tokens, waiters, pause, attempts | `acquire`, `pauseFor`, `send` | concurrent callers, pauses that fall during a sleep, retries, timeouts, mutations sent once |
| Mutation gate, consent, plan | `extractor/mattermost/mutation-gate.ts`, `extract/plan.ts`, `commands/run.ts` | consent, `joined_channels`, `joined_teams` | plan, confirm, `joinTeam`, `joinChannel`, `leaveChannel` | a join whose answer or record is lost; a second run over another inventory; the user on the same account |
| Inventory and selection | `extractor/inventory/*`, `shared/selection.ts` | selection file | build, apply, restrict | a snapshot edited by hand and used later |
| Verification | `extractor/verify/checks.ts` | none | checks over an archive | whether they notice what a run lost |
| Redaction, anonymisation | `extractor/redact/*` | the archive in place, an output directory, identity table | rewrite file by file, replay, control | order of rewrites and erasures across a kill; references to accounts without a row |
| Viewer index, queries | `viewer/src/index`, `viewer/src/query` | SQLite index | build, page, context, thread, search | a build in place interrupted; cursors; dates in the reader's zone |
| Viewer server | `viewer/src/server`, `viewer/src/cli` | none | routes, the index and chunks commands | two processes over one directory |
| Retrieval | `viewer/src/rag/*` | chunk store | cut, fingerprint, replace, open | a store cut from another index than the one in place |
| Browser backend | `viewer/web/src/lite/*` | block cache, pending calls | open, read blocks, query | a dead worker, failed blocks, hosts that ignore ranges |
| Web interface | `viewer/web/src` | route, list, search, panel | navigate, scroll, search, open a thread | answers that come after the reader has moved on |
| Mattermost API, reporting, options, paths, OAuth2 relay | the rest | none the archive depends on | | |

Calls: the orchestrator creates the store and one worker per channel; each
worker calls the posts extraction, which calls back (`onCursor`) into the store
after every page; attachments and users follow; every request goes through the
HTTP client and its limiter. The only shared mutable state of the tasks is the
in-memory state of the store, and the only state that survives a process is the
output directory. Redaction, anonymisation and verification are commands over a
finished archive; the index is built from an archive, the chunk store from an
index, and the interface asks its questions to the server or, without one, to a
worker that reads the index itself: these parts share nothing but files.

What makes each part correct:

- store: no change is lost behind a lowered `dirty`, a save that returned is on
  disk, every caller is answered;
- extraction: post files are gapless and without repetition, a loss is announced,
  progress is never undone, every session ends;
- client: the rate holds, a pause stops everyone, a mutation is sent once;
- membership: only what was ticked and accepted is joined, a join is on disk
  before any reading, the account's own memberships are left alone;
- redaction and anonymisation: no dangling row, nobody else touched, the erasure
  complete after a replay, an output that is whole and names nobody;
- viewer: an accepted index holds every message, a store that opens cites it
  rightly, what is on screen answers what is asked.

## 2. Modules

| module | what it is |
| --- | --- |
| `DurableRegister` | abstract specification of the store: a value that grows, a durable copy that never goes back, and save calls that cover what they were asked to save |
| `StateStore` | the store itself, one action per operation and per half of a write |
| `MCStateStore` | its instance for TLC |
| `StateStore_proofs` | its inductive invariant, and theorems for every instance |
| `ChannelPosts` | the data of the pagination and of the reversal, as operators |
| `Extraction` | `runExtraction` from the loading of the state to the manifest, over several sessions and their deaths |
| `MCExtraction` | its instances for TLC |
| `Extraction_proofs` | lemmas about the runs of `ChannelPosts`, the inductive invariant of all sessions, and theorems for every instance |
| `RateLimiter` | the token bucket: `acquire`, `pauseFor`, `#drain` and its sleeps, over a clock that may be set back |
| `HttpClient` | `send()` and its callers over that limiter: retries, 429s, failures, mutations |
| `MCHttpClient` | its instance for TLC |
| `HttpClient_proofs` | of the limiter and of the client: types, the rate, and what a call may send, for every instance |
| `Membership`, `MCMembership` | inventory, selection, plan, consent, joins and leaves over several runs; its instance |
| `Membership_proofs` | its inductive invariant, and theorems for every instance |
| `Archive` | the files of an archive, and `verify` as the set of its failed checks |
| `Redaction` | erasure requests applied in place, cut anywhere and replayed |
| `Redaction_proofs` | what is erased, what is kept, what is not touched, and that what is left verifies, for any archives and requests |
| `AnonymousText` | identities, vocabulary and rewriting of texts, as operators |
| `Anonymization` | a pass from an archive to an output directory, and its control; composes with `Redaction` |
| `Anonymization_proofs` | the mark, the control, the texts of each level and the second pass, for any archives and passes |
| `MCArchiveTools` | instance of `Anonymization` |
| `ViewerIndex` | the content of an index after each statement of its build, and the queries over it, as operators |
| `Fragments` | the cutting of an index into fragments, its fingerprint |
| `ViewerFiles` | the index and the chunk store as files, under builds that fail or are killed |
| `Reading` | the web interface asking an index, by the server or by the worker |
| `BrowserIndex` | a page that opens an index without a server |
| `BrowserIndex_proofs` | the opening of a page, for any blocks, workers and files |
| `Viewer_proofs` | the numbering of an index as a bijection, what an accepted index holds, the replacement of the store, its fragments and its citations, the reading of a channel, what a search, a thread and a permalink show, for every instance |
| `MCViewer` | the instance of `ViewerFiles`, `Reading` and `BrowserIndex`, one scene each |

### StateStore

The state is serialised whole at every write, so its content is abstracted to a
version number, the number of changes that led to it. The promise chain is a
FIFO. `BeginWrite` is `writeStateFile` up to its first await (it serialises what
memory holds *then* and lowers `dirty`), `EndWrite` its rename, `FailWrite` its
catch. `close()` awaits the chain as it stands at the call, and only then looks
at `dirty`: it is a barrier entry in the FIFO that turns into a write
(`CloseWrites`) or returns (`CloseReturns`). `RecordAndSave` is the way the
orchestrator records a join: pushed into the state without `touch()` and saved
in the same synchronous stretch. A crash keeps the file of the last rename.

### Extraction

`<<c, n>>` names the n-th oldest post of channel c, its author and, in the
channels of `WithFiles`, its attachment. A post file is a sequence of post
numbers. A page is an interval; whether the pivot of `before` comes back is
undocumented (the code says so), so it is a choice. Each worker is at one of the
awaits of its code:

    todo -> paging -> closing -> reversing -> removing -> finalized
         -> savingFinal -> describing -> savingDone -> done
    todo -> savingInherited -> done         (posts finalized by an earlier session)
    ... -> failing -> savingFailed -> done  (the catch of the worker)
    ... -> threw                            (an error outside that catch)

and the main task is at `channels`, `repair`, `users`, `publish`, `closing`,
`manifest`, `finished`, or `rejected`. A save is one step: between the call and
the return of `saveNow` the file receives the memory of some moment in between,
which is what `DurableRegister` says and `StateStore_proofs` proves of the
store; a throttled save may or may not happen. All sessions run with
`--resume`.

Faults, each switched on by name in `Faults`: `kill` (the process dies at any
step), `signal` (the handler saves the state, the tasks run on, then the process
exits), `power` (unsynced lines of a `.part` file and any final file written by
this process may be gone; state.json is synced), `torn` (a death or a failed
write inside a line), `api` (a request fails after its retries), `io` (a local
write fails; since `writeMany` returns before the write is done, lines the state
already counts may be missing), `lookup` (the instance does not return a user or
the sheet of an attachment).

A file that is not synced loses its last lines at a power loss: the `.part` file
those since its last flush, `files.ndjson` any of the last rows of each worker
(`LastLines`; in one order per channel, the rows a repair adds included),
`users.ndjson` everything that its rename installed. A call to the system may throw
in any stage: the removal of the `.part` file (`FailRemovePart`), the throttled
save after a save that succeeded (`FailThrottled`), an append of the repair, with
some of its rows already written (`RepairThrows`), any other write of the main task
(`MainThrows`).

Simplifications: posts do not change on the instance between sessions; every
post has its own author and at most one attachment; a torn last line is
unreadable (a line cut exactly before its line feed, which the reader accepts,
is left out); a final file lost at a power loss is empty rather than partial;
the directory entry of state.json is assumed synced.

### RateLimiter, HttpClient

Instants are distances to now, so that the state is finite: `elapsed` is
`now - #lastRefillAt`, `pause` is `#pausedUntil - now`, `timer` what is left of
the sleep of `#drain`. Tokens are counted in milliseconds of recharge (`Cost` of
them make a token), which is exact for the rates that divide 1000; for the
others the code rounds its sleeps up, and recharges on the time elapsed all the
same. `exact` is a history variable: the bucket an observer would keep with a
clock of his own. `Drain(n)` is one pass of the loop of `#drain` from its wake
to its next sleep or its end; it grants the `n` tokens the bucket holds.
`Reevaluate` is the side effect of `#millisecondsUntilAvailable`.

A caller goes

    settled -> waiting -> inflight -> (refused) -> backoff -> waiting ...
            -> inflight                         -> failed
               inflight -> reading -> done | failed

and `Acquires` is shared by the first attempt and the retries, which queue again
at the end. A status that is not a success has its body read first (`refused`),
with no timer of the client over it; a failure of that read is not retried.
`Mutating` callers go through `createRawExecutor` (`retryOnFailure: false`).
Left out: which header a 429's delay came from, the version and the snapshot
read from headers, the clock being set forward (which creates tokens), and
`SleepFails` in the client, which gives its limiter no sleep that can fail: it
belongs to the limiter alone and only the proofs of the limiter cover it.

### Membership

The only part that writes on the instance. `Inventory`, `Select`, `HandEdit` and
`ForeignFile` are the ways the selection file comes to be: the last one is the file
of another account of the instance, or `joined` edited by hand, which
`assertSelectionMatchesTarget` lets through as it compares the url alone; the
history variable `denied` holds the memberships such a file denies. The category of a channel and
the plan are operators over that file (`Category`, `Plan`), computed as
`categorizeChannel` and `buildPlan` do. `StartRun` is `runCommand` up to the
consent, with a file or with the restricted inventory made on the spot; a run
then goes

    confirm -> teams -> joins -> read -> (leave) -> close

`SendJoin` and `SendLeave` are the request and its effect on the server, whose
answer may be lost; `RecordJoin` and `RecordLeave` push the record and save, in
one synchronous stretch. The two are different steps, since a death falls between
them. A save is one step here, by what `StateStore` proves of it; one that throws
ends the run (`Kill`), except in the loop of the leaves, which announces
`LEAVE_FAILED` and goes on with a record that only memory holds
(`RecordLeaveUnsaved`). `HumanJoins`,
`HumanLeaves`: the user acts on the same account at any time, and not only
between runs. A kill keeps the server and the state file and nothing else.

What the model shows and the properties allow: a channel left by `--leave-after` is
recorded as left and still traced as joined, so a later `--resume` does not join
it again and its reading fails (`departed` in `PlanIsReadable`); a join of a
channel the user joined by hand after the inventory is recorded as the tool's,
and `--leave-after` leaves it; a join killed before its record and followed by a
new inventory is never traced; a channel of the account that a foreign file says is not
joined is joined again to no effect, traced as the tool's, and left
(`denied` in `StandingIsKept`; TLC finds it in eleven states when
`departed \subseteq joinedByTool` is asked); `joined_teams` grows
at each resume.

### Archive, Redaction, AnonymousText, Anonymization

`Archive` holds an archive as a record of row sequences, binaries and a manifest;
`Verify(a)` is the set of labels of the checks that fail, one group of checks of
`verify/checks.ts` per operator. The conformity of rows to their schema, files that
cannot be read and the count of teams are left out.

`Redaction` is `mmarchive-redact` in place. `rewriteNdjson` is two steps, the
temporary file (`OpenTemporary`) and the rename (`RenamePosts`, `RenameUsers`,
`RenameFiles`), in the order of the code; the binaries, the avatar and the
manifest follow. The paths to erase live in `rd.doomed`, in memory, and go with
the process (`StopRedact`). A request can be made again, in the same mode or the
other. A request over an archive without a post file goes straight to
`users.ndjson`. A stop may leave a torn manifest, since `refreshManifestCounts` writes it in
place; nothing repairs it.

The row of a pseudonymised account keeps its `email`, as the code does
(`redact-archive.ts:146`): `ErasedWhenDone` speaks of the account's
identifier, and an address collected with `--include-emails` outlives a pseudonymisation.

`AnonymousText` is pure: a text is the sequence of what the alternation of
`text-rewrite.ts` matches in it, a name being a member of a small set;
identities, the vocabulary and its threshold, mentions, addresses, identifiers,
numbers and names of the three levels are operators. A word with a hyphen is a token
of its own (`compose`), whose parts `Frequency` counts (`Words`, given by `Composed`)
and which the name branch never matches; a name with an apostrophe is retained and left the
same way, and is not modelled apart. What stands next to a match is kept with it
(`lead`, `trail`), since it decides what a second pass reads (`RereadToken`). The
ranks follow a salted hash: any order of the accounts.

`Anonymization` is one pass: refusals (`Refused`, for an output apart from the source, the
same or inside it, or a source that is itself an output), the removal of a marked
output under `--force`, files one writer at a time (`WriteOut`) in the code's order
(`Stage`), with the manifest last, and the control that reads the result back (`Control`).
It composes with `Redaction`: the source of a pass is whatever a redaction, cut or
complete, has left. One command runs at a time on an archive.

The recursive removal is not atomic. Its order is that of the directory, so only one
thing matters of it: the mark may go before the other entries (`RemoveMark`) or after
them (`RemoveOthers`, the last of the others), and a stop may fall before, between or
after; `out.cut` says that a removal was begun in this directory, and that any of its
files may be missing. A directory so cut and still marked is taken for a complete
one by the next `--force`, which removes the rest. As a *source* it is refused, or,
when the stop fell in the manifest itself, the command ends on that manifest.

The control reads values as `nettoye` does: the whole value, then word by word
(`Form`, `Survives`), which concerns the keys of props (`KeyForms`) and the label of an
attachment (`Label`), extension included, taken as one word. Left out of it: the match of two
words that follow each other with a full name, which no key nor label can make
unless an account is called, say, `link preview`; hashtags, headers and the details of
warnings, emptied by the pass.

Exclusions, each for a behaviour of the code, and found by TLC when the exclusion is
taken out of the property:

- `CompletedRedactionVerifies` leaves out an account asked for in both modes after a cut,
  and the torn manifest;
- `MarkedIsPublishable` lets an attachment remain that the source does not describe
  either, and leaves out a directory in which a removal was begun: forced over a complete output and
  cut in `rm`, a pass may leave the manifest and not the rest, where the comment of
  `porteUneArchiveAnonymisee` (anonymize-archive.ts:281-282) says that an interrupted
  output does not carry the mark;
- `ControlAccepts` leaves out a source in which an account bears a word of the command's
  own (`OwnWordsClash`): an account with the nickname `webhook` and one message of a
  webhook condemn every pass, as the control reads the keys of props
  (residual-check.ts:327), though no identity survives;
- `LevelPromiseKept` leaves out, at `noms`, what stands as an identifier, and a retained
  name with a hyphen: `formesCandidates` takes `Jean-Pierre` (name-vocabulary.ts:86-93) and
  the name branch (text-rewrite.ts:143) never matches it, against README.md:493-494;
- `RewritingSettles` is about texts in which nothing touches a match (`Apart`), while the
  comment at text-rewrite.ts:184-187 is about all: of `@@inconnu` one arobase goes per
  pass; `@alice@dom.fr-x` becomes `@anon-...-x`, which a second pass neutralises; a
  number taken out before an arobase and a domain becomes an address.

### ViewerIndex, Fragments, ViewerFiles

`Index(a, k)` is the content of the index file after the k first statements of
`fill`: tables, referentials, numbered posts, texts, threads, the search table,
its rows, the counters, the settings. The queries (pages and cursors, context,
thread, permalink, search from its tokens to its rows) are operators over it.
`Fragments` cuts it as `chunkThreads` and `chunkWindows` do, both being `Cut`
(one `AfterMessage` per message) with one of the two `Breaks`, over the messages
in one of the two orders of `read.ts` (`Ordered`).

`ViewerFiles` has the two files derived from an archive that may itself be
extracted again, edited or pseudonymised (`Rewrite`). With `--force` the index in
place is removed (`BuildStart`), then a new one is opened (`BuildOpen`) and filled
under its final name (`BuildStep`; the two `UPDATE`s of the thread links are two statements), accepted by the presence of its tables
(`HasEveryTable`), erased when the build throws, left as it is when it is killed. The
store is written under a temporary name, the old one removed, the new one renamed.
The chunker opens the index at `StoreStart`, reads its rows at `StoreWrite`, and
keeps the file it opened when the name goes (`Detached`). Roots, names and
fingerprint are three reads of the index, taken as one step. `Fingerprint` is a hash
without collisions of what the code feeds it: identifiers of messages, names of
accounts, channels and texts, and neither the author of a message nor its thread.

Not caught, by the code nor by a property: an index killed after its search table
exists is accepted, with neither search rows nor channel counters, so the list of
channels is empty; a store built from a half-built index whose fingerprint equals the
final one (thread links are not in it) opens with fragments cut without threads,
which `FragmentsPartition` does not see as it asks only that groups be whole,
bounded and disjoint; a complete temporary store, left by a kill between the
removal and the rename, is erased by the next build.

### Reading, BrowserIndex

Every question of the interface is a record of `calls`, with the `cancelled` flag
of its effect (`live`); answers and failures come in any order. `MoveTo` is a
change of address with the effects that depend on it; `Scroll` is `loadMore` as the
last rendering closed over it, and `Render` the next rendering: two scrolls
before it ask the same page twice. `Answer` is the server or the worker, over the
same queries. The one difference matters: after a context the routes of the server
leave `nextCursor` out and the worker says null. So scrolling up from a permalink
loads the newest page again with the server, and announces the start of the
archive with the worker; `NoHoleInChannel` therefore speaks of channels opened on
their end. A permalink may name a message of another channel, as `route.ts` accepts.

What the properties of the reader do not see: the identifiers shown are a set, so
that a page asked twice, which MessageList.tsx:147-148 concatenates, shows no repetition
(a hole would show); the zone of the reader is one offset, today's, which
SearchView.tsx:40 sends for messages of any season while the display follows daylight
saving, so that a message within an hour of midnight may be shown under another day than the one that
finds it; a negated date is read as a positive one, by the code
(search-syntax.ts:171-182) as by the operator the property compares with.

`BrowserIndex` is the page without a server: `Detect` and `Designate` start a
worker each, the worker loads its module or dies (`failAll`), opens the index over
its block cache, checks the tables, then answers the emojis; only then is the
client in place. `new Worker` is taken not to throw when it is called (boot.tsx:181-183):
it would under a policy of the page that forbids workers, and `occupe` would stay up.
`ReadBlock` is one read of SQLite (external: blocks in any order)
through the cache (`ServeAgain` for a block held, `Keep` for one just read), from a
file or by HTTP, where a 200 carries the file from its start.

Behaviours met and left as they are: the thread panel stays open when only the
channel changes (the effect at App.tsx:289 depends on the view alone); a blank search
after a pending one leaves `busy` up; a failed search keeps the previous outcome
under its error; with several files dropped at once the last opening to finish wins,
and the first failure clears `occupe` while another is still opening.

## 3. Runs

| run | question | result |
| --- | --- | --- |
| `state_store` | do concurrent changes, saves, failures and closes ever lose a change, and does the store implement `DurableRegister`? | holds, 186k states |
| `extraction` | over three sessions with every fault: are post files gapless and without repetition, is every loss announced, is saved progress kept? | holds, 2.6M states |
| `extraction_ends` | does every session end, whatever rejects? | holds, 426k states |
| `http_client` | over failures, 429s and a clock set back: does the rate hold, does a pause stop everyone, is the queue fair, does every call end? | holds, 186k states |
| `resume_throws` | can the task of an inherited channel reject? | it does |
| `silent_loss` | can a finished run list a truncated channel with no warning? | it can, after two kills |
| `authors_lost` | can a finished run lack the record of an author? | it can, after one kill |
| `refusal_lost` | can a refused binary leave no warning? | it can |
| `membership` | over hand edits, a file of another account, lost answers, kills and a user on the same account: is anything joined that was not accepted in this run, is any standing membership lost, can a plan be read? | holds, 1.24M states |
| `archive_tools` | requests cut and replayed, then passes over what is left, cut or forced: is the archive coherent, the erasure complete, the output publishable? | holds, 372k states |
| `redact_binaries` | can a replayed removal leave the person's documents? | it can, after one kill |
| `viewer` | builds that fail, are killed or change under a reader; answers late, lost or out of order; files dropped at any time: does what is accepted, cited and shown match the archive? | holds, 355k states |

Bounds. `state_store`: two tasks queue behind, overtake and close around one
write, and a third only repeats what the second does; four versions allow a
change before, during and after a write; three ticks of a two-tick window cross
it once; one crash is enough as a started process keeps nothing of the previous
one but the file. `extraction`: three posts over pages of two give a cursor in
the middle of the history and a last page that may or may not announce itself,
a second, empty, channel gives the concurrency and the reject of one runner
beside another, two pages between flushes let a power loss take synced and
unsynced lines apart, and three sessions are the shortest way to the deepest
loss we know (`silent_loss`) and let a third session heal what a second left.
`extraction_ends` uses a fourth post older than the bound on age.

`http_client`: two readers and a mutating caller are one that meets a 429, one
that waits, and one that must not retry; a burst of two tokens lets a
`Drain` grant one or two; delays 0, 1 and 3 give a pause shorter than the one
under way, one longer than a sleep of the queue, and the `Retry-After: 0` that
`pauseFor` ignores; one retry shows the last attempt and the one before it; a
clock set back by one unit makes a pause longer than the longest timer.

`membership`: a channel of the account, two to join and an archived one give every
category but the unlisted; two runs are a killed one and its resumption, or the
run after a new inventory; one act of the user, anywhere, is what separates the
tool's joins from his, and one foreign file counts as such an act. `archive_tools`: two archives, one with references to an
account without a row, an operator found by name alone and a nickname that is a word of a key; removal and pseudonymisation of one account and removal of
another, two of them at most, each made again any number of times; one stop, of a
redaction, of a removal of the output, of a writer or of the control; two passes, the second of which finds an output to refuse
or to force; a threshold of one makes the vocabulary tell a frequent name from a rare one.
`viewer`: one archive whose eight posts hold a reply numbered before its root, an
orphan reply, an unknown author, a bot and a channel without a post file, and two
variants of it (a message inserted in the middle, an account pseudonymised and a
message edited); two builds and two stores are the file in place and its
replacement; pages of two over five messages give a full page, a last one and an
empty one; nine searches hold a date of each kind, its absence, a name and a channel nobody
bears, and exclusions; two questions pending are a late answer and the one that replaces it;
three blocks over a cache of two evict; two workers are the file opened and the
one dropped meanwhile.

`LossNeedsStaleState` holds where `NoSilentLoss` does not: a loss without a
warning needs a session that loaded a state counting more posts than the `.part`
file held. It is the precise condition under which the manifest can be trusted.
`HealedByResume` is the counterpart of `EveryAuthorHasARecord`: what a run
leaves without a record is caught up by a later run that skips every channel.

Fairness. `StateStore`: weak fairness of the steps of the chain and of a write
(an I/O operation settles, one way or the other); none on callers, ticks or
deaths. `Extraction`: weak fairness of each worker's own steps and of the main
task, that is, of an event loop that runs what is ready and of requests and
writes that settle; none on starting a session or on faults. `HttpClient`: time
passes, the drain and the sleeps wake, and fetch settles (before the headers by
the timer of `fetchOnce`, in a body by the timeout of fetch itself); none on
calls, nor on the clock being set back. The
other modules are checked for safety only and assume no fairness: a command may
never be run again, a reader may leave. Deadlock is not checked where the last
session, run, pass or build may be the last.

## 4. Proofs

`StateStore_proofs` proves, for any set of tasks, interval and bounds:

- `TypeCorrect`, `CleanMeansDurable`, `SavedMeansDurable`: `TypeOK`,
  `CleanIsDurable` and `SavedIsDurable` are invariants;
- `ThrottledWritesAreSpaced`: `ThrottleSpacing`;
- `StoreImplementsRegister`: `Spec => Register!Spec`.

`SavedIsDurable` is not inductive: a save that returns is covered by the file
only because the payload of its write is at least as recent as its call, and a
`close()` that returns with `dirty` down only because every write queued before
it has settled. The inductive invariant `IInv` adds to the checked properties:
a caller has one place, in the chain or in flight (`OnePlace`); file <= payload
<= memory, and a waiting caller asked for no more than the memory holds and no
more than the payload when its write is in flight (`Ordered`); a barrier is
followed by no older write (`BarriersSettle`); a dead process holds what the
file holds (`DownIsEmpty`); the throttle's anchor never falls behind its last
decision (`AnchorCovers`). One lemma per action shows it kept; `PushStep` serves
the four operations that queue a caller. The assumptions are those of the
module: `NoTask` is no task, the interval is a positive number.

`Extraction_proofs` proves one invariant, `RunInvariant`, for any channels,
sizes, page size, concurrency, flush interval, number of sessions and faults,
and most of the rest from it. `IInv` says of each channel what its memory, its
disk record, its worker, its `.part` file and its final file may be together
(`SoundProgress`, `SoundLocal`, `SoundFiles`, `SoundMarks`, `CountsAll`): the
`.part` file is a descending run, from the newest post unless a session found
it shorter than the state said, and down to the cursor of a worker that
paginates; posts counted and cursor never exceed the channel together; a mark on
disk is also in memory, and "complete" is only in memory over posts that are saved
as finalized; a finalized record has nothing left in the `.part` file. `TodoOf` and `RowsOf` add what a worker that has not
started finds and that attachments are described only after their posts are
saved as finalized; `MainInv` what the main task knows at each stage, since all
workers are done when it reads final files back. There is one lemma per step of
a worker, and the lemmas on runs (`ReadFromTop`, what an append, a truncation
and a reversal make of a run) serve all of them. From it:

- `Types`, `FilesAreRuns`, `DescribedOnce`, `NothingLeftInPart`: `TypeOK`,
  `PostFilesAreRuns`, `OneRowPerFile`, `FinalizedIsConsumable`;
- `CompleteStays`, `ProgressIsDurable`: the action properties
  `CompleteIsFrozen`, `DurableProgress`;
- `LossIsAccounted`: `LossNeedsStaleState`, if `PerPage > 1`. The hypothesis is
  needed: the option accepts pages of one post (`config/options.ts`, 1 to 1000, 200 by
  default), where the post that comes back as pivot of `before` fills the page; the session
  stops on the page that brings nothing, warns, and a kill takes that warning away
  while its cursor stays saved (TLC finds it with `PerPage = 1`);
- `ResumeHeals`: `HealedByResume`, if the instance finds the users and attachments it is
  asked for (`"lookup" \notin Faults`: with it a record may never come). `HealInv`
  follows a run that skipped every channel: read back, then described, then
  recorded.

`HttpClient_proofs` first proves of the limiter `RateIsRespected`
(`NeverOverRate`), for any rate, burst, delays and number of callers.
`NeverOverRate` speaks of the observer's bucket alone, of which the code knows
nothing; `IInv` says where the code's bucket would be after a refill *now*: never
ahead of it. One arithmetic fact (`Taking`: both buckets give the same tokens
after a refill) serves `AcquireNow`, `AcquireLater` and `Drain`. `LimiterTypes`
adds that `#drain` runs exactly while somebody waits and that nobody is queued
twice (`LimiterTypeOK`).

A step of the client is a step of the limiter (`ClientStep`), hence
`ClientRespectsRate`. `MutationsAreSentOnce` (`EmissionsBounded`): the count of
requests moves when a token is granted and the attempt when a failure is met, so
the invariant `CInv` ties them by where the caller stands, and needs that the
queue holds a caller once and only while its `acquire()` is pending.
`NobodyBreaksThePause` (`PauseIsForEveryone`) rests on `QuietInv`: what is left of
the delay the server asked for never exceeds what is left of the pause.
`FirstComeFirstServed` (`NoOvertaking`) follows from `CInv`: those `#drain` serves
are a prefix of the queue. `ClientTypes` (`ClientTypeOK`) adds that a caller is
queued exactly while its `acquire()` is pending.

`Membership_proofs` proves the four properties of the run `membership`
(`OwnMembershipsAreKept`, `JoinsAreOnDiskFirst`, `PlansAreReadable`,
`JoinsAreAccepted`) for any channels, starting memberships and number of runs. None
of them is inductive: that the account's own channels are kept depends on the
file, written long before by another command, knowing them as joined unless an edited
or foreign file denied them, and on no record of an earlier run naming another
(`OwnIsKnown`, whose step for such a file is `ForeignFileStep`); that a join was accepted, on
the file not changing between the consent asked and given, and on a run without a
file joining nothing (`ConsentIsAccepted`, `RestrictedJoinsNothing`); the other two,
on the state file never holding fewer joins than memory (`TraceIsDurable`) and on
every record standing for a membership that was made (`TraceIsTrue`).

`Redaction_proofs` proves four theorems for any archives, requests and stops:

- `NothingOfTheAccount` (`ErasedWhenDone`). `ErasedSoFar` says, at each stage of
  a request, which files are already free of its account; rewriting a file keeps
  it free of the accounts it was free of. The files a request rewrites are those
  the first archive has, so the set of channels is fixed too (`Shape`);
- `RowsBeforeBinaries` (`RowsNeverDangle`), for archives that describe no
  attachment twice and hold every binary they name, which `verify` checks: an
  identifier has one owner, no row names an absent binary, and what is about to
  be erased is named by no row left (`BinariesInv`);
- `OthersAreUntouched` (`OthersUntouched`). `SameOthers` compares the archive with
  the first one once the accounts named by a request begun, and their pseudonyms, are
  stripped from both: every rewriting is invisible there, since stripping
  what was rewritten strips the same rows (`RewrittenThenFiltered`,
  `PostsStrippedTwice`);
- `CompletedArchivesVerify` (`CompletedRedactionVerifies`), for archives that pass
  `verify` (`Verified`), pseudonyms that are new and distinct (`PseudonymsAreNew`:
  they carry a hash of the identifier, and a dash) and attachments that belong to the author of
  their post (`OwnFiles`: the server refuses the others). Its invariant,
  `VerifiedInv`, says what is true in the middle of an attempt, or after one that
  died: the rows of the archive are well formed; the author of a post has a row,
  since the row of an account outlives its posts, and a pseudonym whose row is
  missing is one of an unfinished request (`ReferencesInv`); a post and its attachments leave or change names together;
  the counts of the manifest are those of the files once a request completes
  (`ManifestInv`); and `BinariesInv`.

These need induction over row sequences. It is done for a *set* of sequences
(`SequenceInduction`, from `NaturalInduction` and `LeastNatural`, itself from the
library's `WFMin`), as the library's own induction takes an operator; the
filter of the rows (`Those` in `Archive`) is a recursive function for the same
reason.

`Anonymization_proofs` proves the four properties of `Anonymization` under the
hypotheses of `CompletedArchivesVerify` and one more, that the identities of
two ranks differ (`IdentitiesDiffer`: `identity-table.ts` draws a uid until it is
new). The two theorems on texts also assume that nothing an anonymization writes is
already the identifier or a name of an account (`NewSubstitutes`: an opaque uid of 26
characters is not expected twice, names start with `Anon-`, and the other words are labels
of the tool, as `mention-retiree`, or the collective mentions, which the server
reserves; an account that bore a label for name is left out). The instance of
`MCArchiveTools` satisfies all of them (`MCAssumption`). `AnonInv` is the invariant: while
a pass removes, whatever is left was begun to be removed; while it writes, the directory has
no mark, and the mark is the last file expected (`MarkIsLast`); the control only
runs over a complete output; and an output that is marked and not cut has every
file expected of the archive it was made from. What a pass is made from
(`GoodBasis`) is an archive that redactions, cut or not, made of one of
the sources, with an identity table that is a bijection between accounts and
ranks. Then

- `MarkedArePublishable` (`MarkedIsPublishable`): check by check of `verify` over
  what a pass writes. The source may be one that verify refuses, since a redaction
  was cut in it: counters and authors are made again, and only an attachment
  already without a description stays so. Of a directory in which a removal was
  begun the theorem says nothing, and rightly: it may be marked and not whole;
- `ControlNeverCondemns` (`ControlAccepts`): every reference of the output is to one of
  its rows or to nobody, since references to an account without a row are emptied or
  withdrawn; keys and labels, read word by word, are those of the source, hence
  the condition on the words of the command;
- `LevelPromisesAreKept` (`LevelPromiseKept`) and `RewritingSettlesAlways`
  (`RewritingSettles`), form by form of what a text holds: what a form becomes is
  not in the vocabulary, whatever the threshold of the level, and a text in which nothing
  touches a match is read again as it was written.

`Viewer_proofs` first shows that the numbering of an index is a bijection between
the messages kept and 1..n that follows their order (`LaterIsGreater`,
`NumbersAreDistinct`, `EveryNumberHasItsMessage`: an injection into a set of the
same size). Then, for any archives, page sizes, bounds and cutting:

- `AcceptedIsWhole` (`AcceptedIndexHoldsEveryMessage`): whatever is under the
  name of the index is so many steps of a build of some archive (`IndexIsABuild`),
  and the step that makes the search table comes after the ones that number the
  messages, copy their text and resolve their threads (`StepsInOrder`);
- `StoresAreReplacedWhole` (`StoreKeptUntilReplaced`), whatever the cutting
  produces: from the end of the writing on, the temporary file is complete, and
  neither build nor kill touches it before the rename;
- `ChannelsHaveNoHole` (`NoHoleInChannel`). That the list has no hole is not
  inductive: a page asked for before another one came, or before a rendering, is
  merged later. `ReadingInv` says that what is shown is read up to the
  cursor of the list, up to that of its last rendering and up to that of each
  page still awaited (`ReadTo`), that the pages awaited are of the channel shown, and
  that while the opening of a channel is awaited nothing is shown and it is the
  only one awaited. `PageOf` is the fact about `paginate` all of it rests on;
- `WhatIsShownIsAsked` (`ShownIsAsked`), for any archive, searches and zone of the
  reader. One invariant per question asked (`SearchInv`, `FocusInv`, `ThreadInv`):
  the answers awaited and not cancelled are to what is asked now, and what is
  shown, once no question is pending, is the answer of the
  queries. That these answer rightly is proved apart: the bisection over
  the numbered messages finds the first of a date, by induction on the length of
  its interval, since numbers follow dates (`BisectionEnds`); the two bounds kept are then the days of
  `before:`, `after:` and `on:` in the zone of the reader, and the page
  that the query counts is the newest of what is left;
- `FragmentsShareTheMessages` (`FragmentsPartition`) and `CitationsFollowTheIndex`
  (`CitedMessagesAreRight`), for any gap and limits. `Ordered` is shown to be a
  bijection that follows the order (`OrderedIsEach`), and `Cut`, by induction on the
  messages read (`CutIsARun`), to give groups that concatenate into its input,
  each one without a break inside and no larger than allowed unless it is alone
  (`CutIsAPartition`). `StoresAreCut` is the invariant of the files: the index in
  place and the one the chunker holds are so many steps of a build of some archive,
  the one held being at least as far as when its roots were read, and a complete store was cut from one index, with the roots and the fingerprint of
  the same build at an earlier step. The theorems then compare that index with
  the one the store opens with: equal fingerprints mean texts were there when
  it was read (`TextsWereThere`), hence the same rows (`RowsAreTheSame`).

`BrowserIndex_proofs` proves `PageEndsOnTheFile` (`OpeningEndsOnTheFile`) for any
number of blocks, cache size, workers and files. `PageInv` ties the page to its workers: if it
says it is opening, a worker has a call to answer, and a dead one has none; a worker's
cache never exceeds its bound and holds the file's own blocks (`ServeAgain`,
`Keep` are its two moves); a client in place belongs to a worker past the check of
the tables.

Assumed: the named assumptions of the modules, and the hypotheses stated with the
theorems above. Cost, burst and longest timer are positive, delays no
longer than the longest timer, the cap of `rateLimitDelayMs`
(`ClientAssumption`); sizes and page size are numbers (`ChannelAssumption`,
`ExtractionAssumption`); archives are made of rows of the right fields
(`SourcesAssumption`) and a pseudonym is not an identifier, which has no dash
(`PseudonymAssumption`); messages have identifiers and dates that compare and no
two indexed ones share an identifier (`WellFormed`, which the unique index
`post_pid`, created as soon as messages are numbered and before their text, turns into a failed
build); a page has at least one message (`ReadingAssumption`); searches are made of
the tokens of the scanner and dates that are days (`QueriesAssumption`), no number is
the absent bound (`DayAssumption`), and two accounts share neither identifier
nor name (`AccountsAssumption`). The name of a channel stands for the channel: two
channels of the same name in two teams are left out.

The two theorems on fragments have two hypotheses of their own, which the
instance of `MCViewer` satisfies (`MCAssumption`):

- `MessagesStay`: from one state of the archive to another, a message keeps its
  date, its channel and the message it answers, and its author as long as the
  names of the accounts are the same. The fingerprint covers neither, so the
  code relies on it: Mattermost never changes them, and a complete
  pseudonymisation changes names. What it excludes is a pseudonymisation cut
  between the posts and the accounts, indexed as it is: the names are still the old ones, and the
  store of before opens with them;
- `SomethingIsSaid`: some message has a text. Without it, the fingerprint of an index
  read before its texts is that of the finished one, and a store cut from it may
  have been cut without its threads known.

Only model-checked: liveness (`EverySessionEnds`, `EveryCallEnds`, `EveryCallSettles`) and
ENABLED, out of the prover's reach. Every safety property of a passing run is
stated by a theorem.

## 5. Not modelled

- Real-valued scores: lexical search and the fusion of ranks (`rag/fusion.ts`,
  `rag/lexical.ts`); the simulated plan of the fragments (`rag/plan.ts`).
- Of the index: reactions, attachments, emojis and assets. Of the search: the
  cutting of an input into tokens, hashtags, folding (FTS5).
- Of the interface: rendering, markdown, the emoji table, the search box, the
  directory and the export page; of the server: the files of the archive, the
  standalone copy; of the browser backend: the pointers of the VFS.
- A file replaced behind the block cache, and two builders of one index at once.
- Of extraction: emojis, avatars, backpressure, the YAML of the selection.
- Options, paths, terminal reporting, the OAuth2 relay: parsing, naming, display and
  forwarding, with no state the archive depends on.

## 6. Plan

1. Abstract specifications: an archive under redaction is, once a replay
   completes, the archive redacted at once; a block cache is a file read without one.
2. Pure operators against reference definitions: `rateLimitDelayMs`, the line
   splitter and the last line of the NDJSON reader, the block reads of the reversal.
3. The three reads of the chunker (roots, names, fingerprint) as three steps.
