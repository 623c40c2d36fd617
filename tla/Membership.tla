------------------------------ MODULE Membership ------------------------------
(* What the extractor changes on the instance: the selection file it        *)
(* inventories and the user edits, the plan, the consent, the mutation gate *)
(* and the trace of the joins in the resume state (mutation-gate.ts,        *)
(* plan.ts, shared/selection.ts, the head and the tail of orchestrator.ts), *)
(* while the user acts on the same account and the process may die.         *)
(* One team; a membership of it is that of the element Team in `member`.    *)
EXTENDS Naturals, FiniteSets

CONSTANTS Channels, Team,
          Archived,     \* the archived public channels
          Readable,     \* the channels the server lets a non-member read
          Standing,     \* the memberships the account starts with
          MaxRuns,      \* bound: how many runs are started
          MaxHuman      \* bound: what the user does beside the tool

ASSUME MembershipAssumption ==
    /\ Archived \subseteq Channels /\ Readable \subseteq Channels
    /\ Standing \subseteq Channels \cup {Team} /\ Team \notin Channels
    /\ "" \notin Channels \cup {Team}

VARIABLES member,       \* the server: what the account is a member of
          file,         \* the selection file
          disk,         \* the trace of joins in the state file
          run,          \* the run under way
          runs, human,  \* counters of the bounds
          joinedByTool, \* history: the memberships the tool created
          accepted,     \* history: what the user ticked and accepted in this run
          withdrawn,    \* history: what the user left by hand
          departed,     \* history: what --leave-after left
          denied        \* history: own channels a file said are not joined

vars == <<member, file, disk, run, runs, human, joinedByTool, accepted, withdrawn,
          departed, denied>>

hist == <<joinedByTool, accepted, withdrawn, departed, denied>>

(*--------------------------- selection and plan --------------------------*)
\* mutant: a member of the channel is not told from the others
CategoryOfAnyone(f, c) ==
    IF c \in Archived
    THEN IF c \in f.joined \cup f.readable THEN "archived_readable" ELSE "archived_unreadable"
    ELSE IF c \in f.readable THEN "readable_without_join" ELSE "join_required"

\* categorizeChannel; `readable` holds the channels probed with success.
Category(f, c) ==
    IF c \in Archived
    THEN IF c \in f.joined \cup f.readable THEN "archived_readable" ELSE "archived_unreadable"
    ELSE IF c \in f.joined THEN "member"
    ELSE IF c \in f.readable THEN "readable_without_join" ELSE "join_required"

OfCategory(f, kinds) == {c \in f.listed : Category(f, c) \in kinds}

\* buildInventory: reads only. A team the account is not in shows nothing.
Inventoried(probe, selectArchived) ==
    LET listed == IF Team \in member THEN Channels ELSE {}
        blank == [listed |-> listed, joined |-> listed \cap member, here |-> TRUE, team |-> TRUE,
                  readable |-> {c \in listed \cap Readable :
                                  c \notin member /\ (c \in Archived \/ probe)}, selected |-> {}]
    IN [blank EXCEPT !.selected = OfCategory(blank, {"member", "readable_without_join"}
            \cup (IF selectArchived THEN {"archived_readable"} ELSE {}))]

\* applySelection
Applied(f, chosen) ==
    [f EXCEPT !.selected = chosen \cap (f.listed \ OfCategory(f, {"archived_unreadable"}))]

\* restrictToAccessible
Restricted(f) ==
    [f EXCEPT !.selected = OfCategory(f, {"member", "readable_without_join"})]

\* mutant: what is not ticked is joined as well
JoinsOfAll(f) == OfCategory(f, {"join_required"})

\* buildPlan
Joins(f) == f.selected \cap OfCategory(f, {"join_required"})
Plan(f) == [channels |-> f.selected \ OfCategory(f, {"archived_unreadable"}),
            joins |-> Joins(f),
            teams |-> IF Joins(f) # {} /\ ~ f.team THEN {Team} ELSE {}]

(*------------------------------ the state --------------------------------*)
\* joined_channels, those of them with left: true, and joined_teams.
NoTrace == [channels |-> {}, left |-> {}, teams |-> 0]
NoRun == [pc |-> "idle", plan |-> [channels |-> {}, joins |-> {}, teams |-> {}],
          resume |-> FALSE, leaveAfter |-> FALSE, consent |-> {}, trace |-> NoTrace,
          at |-> "", tried |-> {}]

Init ==
    /\ member = Standing
    /\ file = [listed |-> {}, joined |-> {}, readable |-> {}, selected |-> {},
               here |-> TRUE, team |-> TRUE]
    /\ disk = NoTrace
    /\ run = NoRun
    /\ runs = 0 /\ human = 0
    /\ joinedByTool = {} /\ accepted = {} /\ withdrawn = {} /\ departed = {}
    /\ denied = {}

(*------------------------------ the commands -----------------------------*)
Inventory(probe, selectArchived) ==
    /\ run.pc = "idle"
    /\ file' = Inventoried(probe, selectArchived)
    /\ UNCHANGED <<member, disk, run, runs, human, hist>>

\* selectCommand: nothing is written unless the induced joins are confirmed.
Select(chosen) ==
    /\ run.pc = "idle" /\ file.listed # {}
    /\ file' = Applied(file, chosen)
    /\ UNCHANGED <<member, disk, run, runs, human, hist>>

\* The YAML is edited by hand: any tick, a team marked not joined, the url of
\* another instance.
HandEdit(chosen, here, team) ==
    /\ run.pc = "idle" /\ human < MaxHuman
    /\ human' = human + 1
    /\ file' = [file EXCEPT !.selected = chosen \cap file.listed, !.here = here, !.team = team]
    /\ UNCHANGED <<member, disk, run, runs, hist>>

\* The file of another account of the instance, or a `joined` edited by hand:
\* assertSelectionMatchesTarget looks at the url alone.
ForeignFile(joined) ==
    /\ run.pc = "idle" /\ human < MaxHuman /\ file.listed # {}
    /\ human' = human + 1
    /\ file' = [file EXCEPT !.joined = joined \cap file.listed]
    /\ denied' = denied \cup ((Standing \cap file.listed) \ joined)
    /\ UNCHANGED <<member, disk, run, runs, joinedByTool, accepted, withdrawn, departed>>

\* The account joins or leaves a channel from another client, at any time.
HumanJoins(c) ==
    /\ human < MaxHuman /\ c \notin member \cup Archived /\ Team \in member
    /\ human' = human + 1
    /\ member' = member \cup {c}
    /\ UNCHANGED <<file, disk, run, runs, hist>>

HumanLeaves(c) ==
    /\ human < MaxHuman /\ c \in member \cap Channels
    /\ human' = human + 1
    /\ member' = member \ {c}
    /\ withdrawn' = withdrawn \cup {c}
    /\ UNCHANGED <<file, disk, run, runs, joinedByTool, accepted, departed, denied>>

(*-------------------------------- a run ----------------------------------*)
\* The state is loaded with --resume, created otherwise; nothing is written yet.
\* The fingerprint and the account are those of the saved state.
Opened(r) == [r EXCEPT !.pc = "teams", !.trace = IF r.resume THEN disk ELSE NoTrace]

\* runCommand: without a file, an inventory without probes restricted to what
\* is accessible; a file of another instance is refused before anything else.
StartRun(withFile, resume, leaveAfter, joinTeams) ==
    /\ run.pc = "idle" /\ runs < MaxRuns
    /\ withFile => file.here
    /\ runs' = runs + 1
    /\ accepted' = {}
    /\ LET f == IF withFile THEN file ELSE Restricted(Inventoried(FALSE, FALSE))
           plan == [Plan(f) EXCEPT !.teams = IF joinTeams THEN @ ELSE {}]
           r == [NoRun EXCEPT !.plan = plan, !.resume = resume, !.leaveAfter = leaveAfter]
       IN run' = IF plan.joins = {} THEN Opened(r) ELSE [r EXCEPT !.pc = "confirm"]
    /\ UNCHANGED <<member, file, disk, human, joinedByTool, withdrawn, departed, denied>>

\* confirmJoinsInteractively: a refusal, a cancelled prompt or no terminal.
Refuse ==
    /\ run.pc = "confirm"
    /\ run' = NoRun
    /\ UNCHANGED <<member, file, disk, runs, human, hist>>

Accept ==
    /\ run.pc = "confirm"
    /\ run' = Opened([run EXCEPT !.consent = run.plan.joins \cup run.plan.teams])
    /\ accepted' = (run.plan.joins \cap file.selected) \cup run.plan.teams
    /\ UNCHANGED <<member, file, disk, runs, human, joinedByTool, withdrawn, departed, denied>>

\* What is still to join, teams first; a traced channel is not joined again.
ToJoin == IF run.pc = "teams" THEN run.plan.teams
          ELSE IF run.pc = "joins" THEN run.plan.joins \ run.trace.channels ELSE {}

\* The request: MutationGate refuses what has no consent, the server what is in
\* a team the account is not in. A membership that exists is left as it is.
SendJoin(x) ==
    /\ x \in ToJoin /\ run.at = "" /\ x \in run.consent
    /\ x = Team \/ Team \in member
    /\ member' = member \cup {x}
    /\ joinedByTool' = joinedByTool \cup ({x} \ member)
    /\ \/ run' = [run EXCEPT !.at = x]
       \/ run' = NoRun                      \* the answer is lost: the run rejects
    /\ UNCHANGED <<file, disk, runs, human, accepted, withdrawn, departed, denied>>

\* mutant: a join that fails does not stop the run
JoinFailsAndGoesOn ==
    /\ ToJoin # {} /\ run.at = ""
    /\ \E x \in ToJoin : run' = [run EXCEPT !.at = x]
    /\ UNCHANGED <<member, file, disk, runs, human, hist>>

\* The request throws (refused, or failed before the server): the run rejects.
JoinFails ==
    /\ ToJoin # {} /\ run.at = ""
    /\ run' = NoRun
    /\ UNCHANGED <<member, file, disk, runs, human, hist>>

Traced(t, x) == IF x = Team THEN [t EXCEPT !.teams = @ + 1]
                ELSE [t EXCEPT !.channels = @ \cup {x}]

\* mutant: the trace waits for the next periodic save
RecordJoinLazily ==
    /\ run.at \in ToJoin
    /\ run' = [run EXCEPT !.at = "", !.trace = Traced(@, run.at),
                          !.plan.teams = @ \ {run.at}]
    /\ UNCHANGED <<member, file, disk, runs, human, hist>>

\* The record is pushed and the state saved at once.
RecordJoin ==
    /\ run.at \in ToJoin
    /\ run' = [run EXCEPT !.at = "", !.trace = Traced(@, run.at),
                          !.plan.teams = @ \ {run.at}]
    /\ disk' = Traced(run.trace, run.at)
    /\ UNCHANGED <<member, file, runs, human, hist>>

JoinsDone ==
    /\ run.pc \in {"teams", "joins"} /\ ToJoin = {}
    /\ run' = [run EXCEPT !.pc = IF @ = "teams" THEN "joins" ELSE "read"]
    /\ UNCHANGED <<member, file, disk, runs, human, hist>>

\* The extraction proper, whatever it reads; it saves the state.
ReadDone ==
    /\ run.pc = "read"
    /\ run' = [run EXCEPT !.pc = IF run.leaveAfter THEN "leave" ELSE "close"]
    /\ disk' = run.trace
    /\ UNCHANGED <<member, file, runs, human, hist>>

\* What --leave-after still has to leave: every record, of any run, not left.
ToLeave == IF run.pc = "leave" THEN run.trace.channels \ (run.trace.left \cup run.tried) ELSE {}

\* MutationGate leaves only what the tool joined, in this run or an earlier one.
SendLeave(c) ==
    /\ c \in ToLeave /\ run.at = "" /\ c \in run.trace.channels
    /\ member' = member \ {c}
    /\ departed' = departed \cup {c}
    /\ \/ run' = [run EXCEPT !.at = c]
       \/ run' = [run EXCEPT !.tried = @ \cup {c}]   \* answer lost: LEAVE_FAILED
    /\ UNCHANGED <<file, disk, runs, human, joinedByTool, accepted, withdrawn,
                   denied>>

LeaveFails(c) ==
    /\ c \in ToLeave /\ run.at = ""
    /\ run' = [run EXCEPT !.tried = @ \cup {c}]
    /\ UNCHANGED <<member, file, disk, runs, human, hist>>

RecordLeave ==
    /\ run.at \in ToLeave
    /\ run' = [run EXCEPT !.at = "", !.trace.left = @ \cup {run.at}]
    /\ disk' = [run.trace EXCEPT !.left = @ \cup {run.at}]
    /\ UNCHANGED <<member, file, runs, human, hist>>

\* That save throws, inside the try of the loop: the record is left in memory
\* alone, LEAVE_FAILED is announced, and the loop goes on.
RecordLeaveUnsaved ==
    /\ run.at \in ToLeave
    /\ run' = [run EXCEPT !.at = "", !.trace.left = @ \cup {run.at}]
    /\ UNCHANGED <<member, file, disk, runs, human, hist>>

CloseRun ==
    /\ run.pc = "close" \/ (run.pc = "leave" /\ ToLeave = {})
    /\ run' = NoRun
    /\ disk' = run.trace
    /\ UNCHANGED <<member, file, runs, human, hist>>

\* The process dies, or any other save throws.
Kill ==
    /\ run.pc # "idle"
    /\ run' = NoRun
    /\ UNCHANGED <<member, file, disk, runs, human, hist>>

Next ==
    \/ \E probe, selectArchived \in BOOLEAN : Inventory(probe, selectArchived)
    \/ \E chosen \in SUBSET Channels :
         \/ Select(chosen) \/ ForeignFile(chosen)
         \/ \E here, team \in BOOLEAN : HandEdit(chosen, here, team)
    \/ \E c \in Channels : HumanJoins(c) \/ HumanLeaves(c) \/ SendLeave(c) \/ LeaveFails(c)
    \/ \E withFile, resume, leaveAfter, joinTeams \in BOOLEAN :
         StartRun(withFile, resume, leaveAfter, joinTeams)
    \/ \E x \in Channels \cup {Team} : SendJoin(x)
    \/ Refuse \/ Accept \/ JoinFails \/ RecordJoin \/ JoinsDone \/ ReadDone
    \/ RecordLeave \/ RecordLeaveUnsaved \/ CloseRun \/ Kill

Spec == Init /\ [][Next]_vars

(*------------------------------- properties ------------------------------*)
\* README.md:303-304: a channel that is not ticked is never joined. Whatever was
\* killed, resumed, inventoried again or edited by hand, a membership the tool
\* creates was ticked in the file of this run and accepted in this run.
OnlyAcceptedJoins == [][joinedByTool' \ joinedByTool \subseteq accepted]_vars

\* README.md:321-322: the joins are recorded before any reading. When reading starts
\* the state file names every channel the plan had to join, those a killed run
\* had joined without recording them included.
TracedBeforeRead == run.pc = "read" => run.plan.joins \subseteq disk.channels

\* mutation-gate.ts:121-126: --leave-after must not take the user out of
\* channels he has always been a member of, whatever state is resumed; except
\* those a file edited, or of another account, says he is not in: their join
\* succeeds to no effect and is recorded as the tool's.
StandingIsKept == Standing \ (withdrawn \cup denied) \subseteq member

\* When reading starts, every channel of the plan that had to be joined can be
\* read, however many runs it took and wherever they died; except those the user
\* left by hand, and those an earlier --leave-after left, which a resume does not
\* join again.
PlanIsReadable ==
    run.pc = "read" => run.plan.joins \subseteq member \cup departed \cup withdrawn
=============================================================================
