--------------------------- MODULE Membership_proofs ---------------------------
(* For any channels, memberships, selections and number of runs: the        *)
(* invariants of Membership and the property of its steps.                  *)
EXTENDS Membership, TLAPS

(*-------------------------- the inductive invariant ----------------------*)
TraceType == [channels : SUBSET Channels, left : SUBSET Channels, teams : Nat]
PlanType == [channels : SUBSET Channels, joins : SUBSET Channels, teams : SUBSET {Team}]
RunType == [pc : {"idle", "confirm", "teams", "joins", "read", "leave", "close"},
            plan : PlanType, resume : BOOLEAN, leaveAfter : BOOLEAN,
            consent : SUBSET (Channels \cup {Team}), trace : TraceType,
            at : Channels \cup {Team, ""}, tried : SUBSET Channels]
FileType == [listed : SUBSET Channels, joined : SUBSET Channels,
             readable : SUBSET Channels, selected : SUBSET Channels,
             here : BOOLEAN, team : BOOLEAN]

Typed == /\ file \in FileType /\ disk \in TraceType /\ run \in RunType

\* The memberships the account keeps: its user did not leave them, and no file
\* said they were not his.
Own == Standing \ (withdrawn \cup denied)

\* The file is a snapshot: what it lists of the account's own memberships it
\* knows as such; hence no plan, no trace and no pending answer names one.
OwnIsKnown ==
    /\ file.listed \cap Own \subseteq file.joined
    /\ run.plan.joins \cap Own = {}
    /\ disk.channels \cap Own = {} /\ run.trace.channels \cap Own = {}

\* What was agreed to is what was shown, and what was shown was ticked.
ConsentIsAccepted ==
    /\ run.consent \subseteq accepted
    /\ run.pc = "confirm" => run.plan.joins \subseteq file.selected

\* The state file never holds fewer joins than memory.
TraceIsDurable ==
    /\ run.trace.channels \subseteq disk.channels
    /\ run.pc = "read" => run.plan.joins \subseteq run.trace.channels

\* What is traced, or joined and about to be, was joined, unless left since.
TraceIsTrue ==
    disk.channels \cup run.trace.channels \cup ({run.at} \ {"", Team})
        \subseteq member \cup departed \cup withdrawn

IInv == Typed /\ StandingIsKept /\ OwnIsKnown /\ ConsentIsAccepted
              /\ TraceIsDurable /\ TraceIsTrue

(*------------------------------- operators -------------------------------*)
LEMMA NoRunIsTyped == NoRun \in RunType
  BY DEF NoRun, RunType, PlanType, TraceType, NoTrace

\* An inventory knows the account's own memberships of what it lists.
LEMMA InventoryKnows ==
  ASSUME NEW probe \in BOOLEAN, NEW selectArchived \in BOOLEAN
  PROVE  /\ Inventoried(probe, selectArchived) \in FileType
         /\ Inventoried(probe, selectArchived).listed \cap member
              \subseteq Inventoried(probe, selectArchived).joined
  BY MembershipAssumption DEF Inventoried, FileType, OfCategory

\* Only a readable channel, or one of the account's, is ticked without a file:
\* such a run joins nothing.
LEMMA RestrictedJoinsNothing ==
  ASSUME NEW f \in FileType
  PROVE  Restricted(f) \in FileType /\ Joins(Restricted(f)) = {}
  <1> DEFINE g == Restricted(f)
  <1>1. g \in FileType /\ g.joined = f.joined /\ g.readable = f.readable /\ g.listed = f.listed
    BY DEF Restricted, FileType, OfCategory
  <1>2. g.selected = OfCategory(f, {"member", "readable_without_join"})
    BY DEF Restricted, FileType
  <1>3. ASSUME NEW c \in Joins(g) PROVE FALSE
    <2>1. c \in g.selected /\ Category(g, c) = "join_required"
      BY <1>3 DEF Joins, OfCategory
    <2>2. Category(g, c) = Category(f, c)
      BY <1>1 DEF Category
    <2>3. Category(f, c) \in {"member", "readable_without_join"}
      BY <1>2, <2>1 DEF OfCategory
    <2> QED BY <2>1, <2>2, <2>3
  <1> QED BY <1>1, <1>3

\* A plan joins what the file ticks and does not know as joined.
LEMMA PlanOfAFile ==
  ASSUME NEW f \in FileType
  PROVE  /\ Plan(f) \in PlanType
         /\ Plan(f).joins = Joins(f)
         /\ Joins(f) \subseteq f.selected \cap (f.listed \ f.joined)
  <1>1. \A c \in Joins(f) : c \in f.selected /\ c \in f.listed /\ c \notin f.joined
    BY DEF Joins, OfCategory, Category
  <1>2. Joins(f) \subseteq Channels
    BY <1>1 DEF FileType
  <1>3. f.selected \ OfCategory(f, {"archived_unreadable"}) \subseteq Channels
    BY DEF FileType
  <1> QED BY <1>1, <1>2, <1>3 DEF Plan, PlanType

LEMMA OpenedIsTyped ==
  ASSUME NEW r \in RunType, disk \in TraceType
  PROVE  /\ Opened(r) \in RunType
         /\ Opened(r).trace.channels \subseteq disk.channels
         /\ Opened(r).pc = "teams" /\ Opened(r).plan = r.plan
         /\ Opened(r).consent = r.consent /\ Opened(r).at = r.at
  BY DEF Opened, RunType, TraceType, NoTrace

(*------------------------------ initial states ---------------------------*)
LEMMA InitHolds == Init => IInv
  <1> SUFFICES ASSUME Init PROVE IInv
    OBVIOUS
  <1>1. Typed
    BY NoRunIsTyped DEF Init, Typed, FileType, TraceType, NoTrace
  <1>2. StandingIsKept /\ OwnIsKnown /\ ConsentIsAccepted /\ TraceIsDurable /\ TraceIsTrue
    BY DEF Init, StandingIsKept, OwnIsKnown, ConsentIsAccepted, TraceIsDurable, TraceIsTrue,
           NoRun, NoTrace
  <1> QED BY <1>1, <1>2 DEF IInv

(*--------------------- steps that leave the run alone --------------------*)
LEMMA FileSteps ==
  ASSUME IInv,
         \/ \E probe, selectArchived \in BOOLEAN : Inventory(probe, selectArchived)
         \/ \E chosen \in SUBSET Channels :
              \/ Select(chosen)
              \/ \E here, team \in BOOLEAN : HandEdit(chosen, here, team)
  PROVE  IInv'
  <1>1. UNCHANGED <<member, disk, run, hist>> /\ run.pc = "idle"
    BY DEF Inventory, Select, HandEdit, hist
  <1>2. file' \in FileType /\ file'.listed \cap Own \subseteq file'.joined
    <2>1. CASE \E probe, selectArchived \in BOOLEAN : Inventory(probe, selectArchived)
      <3>1. PICK probe \in BOOLEAN, selectArchived \in BOOLEAN :
              file' = Inventoried(probe, selectArchived)
        BY <2>1 DEF Inventory
      <3>2. Own \subseteq member
        BY DEF IInv, StandingIsKept, Own
      <3> QED BY <3>1, <3>2, InventoryKnows
    <2>2. CASE \E chosen \in SUBSET Channels : Select(chosen)
      <3>1. PICK chosen \in SUBSET Channels : file' = Applied(file, chosen)
        BY <2>2 DEF Select
      <3> QED BY <3>1 DEF Applied, IInv, Typed, FileType, OwnIsKnown
    <2>3. CASE \E chosen \in SUBSET Channels, here, team \in BOOLEAN :
                 HandEdit(chosen, here, team)
      <3>1. PICK chosen \in SUBSET Channels, here \in BOOLEAN, team \in BOOLEAN :
              file' = [file EXCEPT !.selected = chosen \cap file.listed, !.here = here,
                                   !.team = team]
        BY <2>3 DEF HandEdit
      <3> QED BY <3>1 DEF IInv, Typed, FileType, OwnIsKnown
    <2> QED BY <2>1, <2>2, <2>3
  <1> QED BY <1>1, <1>2 DEF IInv, Typed, StandingIsKept, OwnIsKnown, Own, ConsentIsAccepted,
             TraceIsDurable, TraceIsTrue, hist

LEMMA ForeignFileStep ==
  ASSUME IInv, NEW joined \in SUBSET Channels, ForeignFile(joined)
  PROVE  IInv'
  <1>1. /\ file' = [file EXCEPT !.joined = joined \cap file.listed]
        /\ denied' = denied \cup ((Standing \cap file.listed) \ joined)
        /\ UNCHANGED <<member, disk, run, accepted, withdrawn, departed>> /\ run.pc = "idle"
    BY DEF ForeignFile
  <1>2. file' \in FileType /\ file'.listed = file.listed /\ file'.selected = file.selected
        /\ file'.joined = joined \cap file.listed
    BY <1>1 DEF IInv, Typed, FileType
  <1>3. Own' \subseteq Own /\ file'.listed \cap Own' \subseteq file'.joined
    BY <1>1, <1>2 DEF Own
  <1> QED BY <1>1, <1>2, <1>3 DEF IInv, Typed, StandingIsKept, OwnIsKnown, Own,
             ConsentIsAccepted, TraceIsDurable, TraceIsTrue

LEMMA HumanSteps ==
  ASSUME IInv, NEW c \in Channels, HumanJoins(c) \/ HumanLeaves(c)
  PROVE  IInv'
  <1>1. CASE HumanJoins(c)
    BY <1>1 DEF HumanJoins, IInv, Typed, StandingIsKept, OwnIsKnown, Own, ConsentIsAccepted,
             TraceIsDurable, TraceIsTrue, hist
  <1>2. CASE HumanLeaves(c)
    BY <1>2 DEF HumanLeaves, IInv, Typed, StandingIsKept, OwnIsKnown, Own, ConsentIsAccepted,
             TraceIsDurable, TraceIsTrue
  <1> QED BY <1>1, <1>2

\* The run is over: refused, rejected, killed.
LEMMA Abandoned ==
  ASSUME IInv, run' = NoRun, UNCHANGED <<member, file, disk, hist>>
  PROVE  IInv'
  <1>1. Typed'
    BY NoRunIsTyped DEF IInv, Typed
  <1>2. StandingIsKept' /\ OwnIsKnown' /\ ConsentIsAccepted' /\ TraceIsDurable' /\ TraceIsTrue'
    BY DEF IInv, StandingIsKept, OwnIsKnown, Own, ConsentIsAccepted, TraceIsDurable, TraceIsTrue,
           NoRun, NoTrace, hist
  <1> QED BY <1>1, <1>2 DEF IInv

(*------------------------------ steps of a run ---------------------------*)
LEMMA StartRunStep ==
  ASSUME IInv, NEW withFile \in BOOLEAN, NEW resume \in BOOLEAN, NEW leaveAfter \in BOOLEAN,
         NEW joinTeams \in BOOLEAN, StartRun(withFile, resume, leaveAfter, joinTeams)
  PROVE  IInv'
  <1> DEFINE f == IF withFile THEN file ELSE Restricted(Inventoried(FALSE, FALSE))
             plan == [Plan(f) EXCEPT !.teams = IF joinTeams THEN @ ELSE {}]
             r == [NoRun EXCEPT !.plan = plan, !.resume = resume, !.leaveAfter = leaveAfter]
  <1>1. f \in FileType /\ (Joins(f) # {} => f = file)
    BY InventoryKnows, RestrictedJoinsNothing DEF IInv, Typed
  <1>2. plan \in PlanType /\ plan.joins = Joins(f)
    <2> HIDE DEF f
    <2> QED BY <1>1, PlanOfAFile DEF PlanType
  <1>3. plan.joins \cap Own = {} /\ plan.joins \subseteq file.selected
    <2> HIDE DEF f, plan
    <2> QED BY <1>1, <1>2, PlanOfAFile DEF IInv, OwnIsKnown
  <1>4. r \in RunType /\ r.plan = plan /\ r.trace = NoTrace /\ r.consent = {} /\ r.at = ""
    <2> HIDE DEF plan
    <2> QED BY <1>2, NoRunIsTyped DEF RunType, NoRun
  <1>5. run' = (IF plan.joins = {} THEN Opened(r) ELSE [r EXCEPT !.pc = "confirm"])
    BY DEF StartRun
  <1>6. /\ run' \in RunType /\ run'.plan = plan /\ run'.consent = {} /\ run'.at = ""
        /\ run'.pc # "read" /\ run'.trace.channels \subseteq disk.channels
    <2> HIDE DEF r, plan
    <2>1. CASE plan.joins = {}
      BY <1>4, <1>5, <2>1, OpenedIsTyped DEF IInv, Typed
    <2>2. CASE plan.joins # {}
      <3>1. run' = [r EXCEPT !.pc = "confirm"]
        BY <1>5, <2>2
      <3>2. run' \in RunType /\ run'.trace = NoTrace
        BY <1>4, <3>1 DEF RunType
      <3>3. run'.plan = plan /\ run'.consent = {} /\ run'.at = "" /\ run'.pc = "confirm"
        BY <1>4, <3>1 DEF RunType
      <3>4. NoTrace.channels = {}
        BY DEF NoTrace
      <3> QED BY <3>2, <3>3, <3>4
    <2> QED BY <2>1, <2>2
  <1>7. UNCHANGED <<member, file, disk, withdrawn, departed, denied>>
    BY DEF StartRun
  <1> HIDE DEF plan, r, f
  <1> QED BY <1>3, <1>6, <1>7 DEF IInv, Typed, StandingIsKept, OwnIsKnown, Own,
             ConsentIsAccepted, TraceIsDurable, TraceIsTrue

LEMMA AcceptStep ==
  ASSUME IInv, Accept
  PROVE  IInv'
  <1> DEFINE r == [run EXCEPT !.consent = run.plan.joins \cup run.plan.teams]
  <1>1. /\ r \in RunType /\ r.plan = run.plan /\ r.at = run.at
        /\ r.consent = run.plan.joins \cup run.plan.teams
    BY DEF IInv, Typed, RunType, PlanType
  <1>2. run' = Opened(r) /\ accepted' = (run.plan.joins \cap file.selected) \cup run.plan.teams
        /\ run.pc = "confirm" /\ UNCHANGED <<member, file, disk, withdrawn, departed, denied>>
    BY DEF Accept
  <1>3. /\ run' \in RunType /\ run'.trace.channels \subseteq disk.channels
        /\ run'.pc = "teams" /\ run'.plan = run.plan /\ run'.at = run.at
        /\ run'.consent = run.plan.joins \cup run.plan.teams
    <2> HIDE DEF r
    <2> QED BY <1>1, <1>2, OpenedIsTyped DEF IInv, Typed
  <1> HIDE DEF r
  <1> QED BY <1>2, <1>3 DEF IInv, Typed, StandingIsKept, OwnIsKnown, Own,
             ConsentIsAccepted, TraceIsDurable, TraceIsTrue

LEMMA ToJoinIsPlanned ==
  ASSUME IInv, NEW x \in ToJoin
  PROVE  /\ x \in Channels \cup {Team} /\ x # ""
         /\ run.pc \in {"teams", "joins"}
         /\ x # Team => x \in run.plan.joins
  BY MembershipAssumption DEF ToJoin, IInv, Typed, RunType, PlanType

LEMMA SendJoinStep ==
  ASSUME IInv, NEW x \in Channels \cup {Team}, SendJoin(x)
  PROVE  IInv'
  <1>1. member \subseteq member' /\ x \in member' /\ UNCHANGED <<file, disk, accepted, withdrawn, departed, denied>>
    BY DEF SendJoin
  <1>2. CASE run' = NoRun
    BY <1>1, <1>2, NoRunIsTyped DEF NoRun, NoTrace, IInv, Typed, StandingIsKept, OwnIsKnown, Own,
             ConsentIsAccepted, TraceIsDurable, TraceIsTrue
  <1>3. CASE run' = [run EXCEPT !.at = x]
    BY <1>1, <1>3 DEF IInv, Typed, RunType, StandingIsKept, OwnIsKnown, Own,
             ConsentIsAccepted, TraceIsDurable, TraceIsTrue
  <1> QED BY <1>2, <1>3 DEF SendJoin

LEMMA RecordJoinStep ==
  ASSUME IInv, RecordJoin
  PROVE  IInv'
  <1> DEFINE t == Traced(run.trace, run.at)
  <1>1. /\ run.at \in ToJoin /\ disk' = t /\ UNCHANGED <<member, file, hist>>
        /\ run' = [run EXCEPT !.at = "", !.trace = t, !.plan.teams = @ \ {run.at}]
    BY DEF RecordJoin
  <1>2. /\ t \in TraceType
        /\ t.channels = run.trace.channels \cup ({run.at} \ {"", Team})
    <2>1. run.trace \in TraceType
      BY DEF IInv, Typed, RunType
    <2>2. run.at \in Channels \cup {Team} /\ run.at # ""
      BY <1>1, ToJoinIsPlanned
    <2>3. CASE run.at = Team
      <3>1. t = [run.trace EXCEPT !.teams = @ + 1] /\ {run.at} \ {"", Team} = {}
        BY <2>3 DEF Traced
      <3>2. run.trace.teams + 1 \in Nat
        BY <2>1 DEF TraceType
      <3> HIDE DEF t
      <3>3. t = [channels |-> run.trace.channels, left |-> run.trace.left,
                 teams |-> run.trace.teams + 1]
        BY <2>1, <3>1 DEF TraceType
      <3>4. t \in TraceType
        BY <2>1, <3>2, <3>3 DEF TraceType
      <3>5. t.channels = run.trace.channels
        BY <3>3
      <3> QED BY <3>1, <3>4, <3>5
    <2>4. CASE run.at # Team
      <3>1. t = [run.trace EXCEPT !.channels = @ \cup {run.at}]
        BY <2>4 DEF Traced
      <3>2. run.at \in Channels /\ {run.at} \ {"", Team} = {run.at}
        BY <2>2, <2>4
      <3> HIDE DEF t
      <3> QED BY <2>1, <3>1, <3>2 DEF TraceType
    <2> QED BY <2>3, <2>4
  <1>3. t.channels \cap Own = {} /\ t.channels \subseteq member \cup departed \cup withdrawn
    BY <1>1, <1>2, ToJoinIsPlanned DEF IInv, OwnIsKnown, TraceIsTrue
  <1> HIDE DEF t
  <1>4. /\ run' \in RunType /\ run'.at = "" /\ run'.trace = t /\ run'.pc = run.pc
        /\ run'.plan.joins = run.plan.joins /\ run'.consent = run.consent
    BY <1>1, <1>2 DEF IInv, Typed, RunType, PlanType
  <1>5. run.pc \in {"teams", "joins"}
    BY <1>1, ToJoinIsPlanned
  <1> QED BY <1>1, <1>2, <1>3, <1>4, <1>5 DEF IInv, Typed, StandingIsKept, OwnIsKnown, Own,
             ConsentIsAccepted, TraceIsDurable, TraceIsTrue, hist

LEMMA JoinsDoneStep ==
  ASSUME IInv, JoinsDone
  PROVE  IInv'
  <1>1. /\ run' = [run EXCEPT !.pc = IF @ = "teams" THEN "joins" ELSE "read"]
        /\ run.pc \in {"teams", "joins"} /\ UNCHANGED <<member, file, disk, hist>>
    BY DEF JoinsDone
  <1>2. run.pc = "joins" => run.plan.joins \subseteq run.trace.channels
    BY DEF JoinsDone, ToJoin
  <1> QED BY <1>1, <1>2 DEF IInv, Typed, RunType, StandingIsKept, OwnIsKnown, Own,
             ConsentIsAccepted, TraceIsDurable, TraceIsTrue, hist

LEMMA ReadDoneStep ==
  ASSUME IInv, ReadDone
  PROVE  IInv'
  <1>1. /\ run' = [run EXCEPT !.pc = IF run.leaveAfter THEN "leave" ELSE "close"]
        /\ disk' = run.trace /\ UNCHANGED <<member, file, hist>>
    BY DEF ReadDone
  <1> QED BY <1>1 DEF IInv, Typed, RunType, StandingIsKept, OwnIsKnown, Own,
             ConsentIsAccepted, TraceIsDurable, TraceIsTrue, hist

LEMMA LeaveSteps ==
  ASSUME IInv, NEW c \in Channels, SendLeave(c) \/ LeaveFails(c)
  PROVE  IInv'
  <1>1. /\ run' = [run EXCEPT !.at = c] \/ run' = [run EXCEPT !.tried = @ \cup {c}]
        /\ c \in run.trace.channels /\ UNCHANGED <<file, disk, accepted, withdrawn, denied>>
        /\ \/ member' = member \ {c} /\ departed' = departed \cup {c}
           \/ run' = [run EXCEPT !.tried = @ \cup {c}] /\ UNCHANGED <<member, departed>>
    BY DEF SendLeave, LeaveFails, ToLeave, hist
  <1>2. c \notin Own
    BY <1>1 DEF IInv, OwnIsKnown
  <1>3. /\ run' \in RunType /\ run'.at \in {c, run.at} /\ run'.trace = run.trace
        /\ run'.pc = run.pc /\ run'.plan = run.plan /\ run'.consent = run.consent
    <2>1. CASE run' = [run EXCEPT !.at = c]
      BY <2>1 DEF IInv, Typed, RunType
    <2>2. CASE run' = [run EXCEPT !.tried = @ \cup {c}]
      BY <2>2 DEF IInv, Typed, RunType
    <2> QED BY <1>1, <2>1, <2>2
  <1>4. /\ member \subseteq member' \cup departed' /\ Own \subseteq member'
        /\ departed \subseteq departed' /\ c \in member' \cup departed' \cup withdrawn
    BY <1>1, <1>2 DEF IInv, StandingIsKept, Own, TraceIsTrue
  <1> QED BY <1>1, <1>3, <1>4 DEF IInv, Typed, StandingIsKept, OwnIsKnown, Own,
             ConsentIsAccepted, TraceIsDurable, TraceIsTrue

LEMMA RecordLeaveStep ==
  ASSUME IInv, RecordLeave \/ RecordLeaveUnsaved
  PROVE  IInv'
  <1>1. /\ run.at \in run.trace.channels /\ UNCHANGED <<member, file, hist>>
        /\ run' = [run EXCEPT !.at = "", !.trace.left = @ \cup {run.at}]
        /\ disk' \in {disk, [run.trace EXCEPT !.left = @ \cup {run.at}]}
    BY DEF RecordLeave, RecordLeaveUnsaved, ToLeave
  <1>2. /\ run' \in RunType /\ run'.at = "" /\ run'.trace.channels = run.trace.channels
        /\ run'.pc = run.pc /\ run'.plan = run.plan /\ run'.consent = run.consent
    BY <1>1 DEF IInv, Typed, RunType, TraceType
  <1>3. disk' \in TraceType /\ disk'.channels \in {disk.channels, run.trace.channels}
    <2>1. CASE disk' = disk
      BY <2>1 DEF IInv, Typed
    <2>2. CASE disk' = [run.trace EXCEPT !.left = @ \cup {run.at}]
      BY <1>1, <2>2 DEF IInv, Typed, RunType, TraceType
    <2> QED BY <1>1, <2>1, <2>2
  <1> QED BY <1>1, <1>2, <1>3 DEF IInv, Typed, StandingIsKept, OwnIsKnown, Own,
             ConsentIsAccepted, TraceIsDurable, TraceIsTrue, hist

LEMMA CloseRunStep ==
  ASSUME IInv, CloseRun
  PROVE  IInv'
  <1>1. run' = NoRun /\ disk' = run.trace /\ UNCHANGED <<member, file, hist>>
    BY DEF CloseRun
  <1>2. Typed'
    BY <1>1, NoRunIsTyped DEF IInv, Typed, RunType
  <1>3. StandingIsKept' /\ OwnIsKnown' /\ ConsentIsAccepted' /\ TraceIsDurable' /\ TraceIsTrue'
    BY <1>1 DEF NoRun, NoTrace, IInv, StandingIsKept, OwnIsKnown, Own,
             ConsentIsAccepted, TraceIsDurable, TraceIsTrue, hist
  <1> QED BY <1>2, <1>3 DEF IInv

(*------------------------------- the theorems ----------------------------*)
LEMMA StepHolds == IInv /\ [Next]_vars => IInv'
  <1> SUFFICES ASSUME IInv, [Next]_vars PROVE IInv'
    OBVIOUS
  <1>1. CASE UNCHANGED vars
    BY <1>1 DEF vars, IInv, Typed, StandingIsKept, OwnIsKnown, Own,
             ConsentIsAccepted, TraceIsDurable, TraceIsTrue
  <1>2. CASE Refuse \/ JoinFails \/ Kill
    BY <1>2, Abandoned DEF Refuse, JoinFails, Kill
  <1>3. CASE \E c \in Channels : HumanJoins(c) \/ HumanLeaves(c)
    BY <1>3, HumanSteps
  <1>4. CASE \E c \in Channels : SendLeave(c) \/ LeaveFails(c)
    BY <1>4, LeaveSteps
  <1>5. CASE \E withFile, resume, leaveAfter, joinTeams \in BOOLEAN :
               StartRun(withFile, resume, leaveAfter, joinTeams)
    BY <1>5, StartRunStep
  <1>6. CASE \E x \in Channels \cup {Team} : SendJoin(x)
    BY <1>6, SendJoinStep
  <1>7. CASE Accept \/ RecordJoin \/ JoinsDone \/ ReadDone \/ RecordLeave
             \/ RecordLeaveUnsaved \/ CloseRun
    BY <1>7, AcceptStep, RecordJoinStep, JoinsDoneStep, ReadDoneStep, RecordLeaveStep,
       CloseRunStep
  <1>8. CASE \E joined \in SUBSET Channels : ForeignFile(joined)
    BY <1>8, ForeignFileStep
  <1> QED BY <1>1, <1>2, <1>3, <1>4, <1>5, <1>6, <1>7, <1>8, FileSteps DEF Next

LEMMA Invariance == Spec => []IInv
  BY InitHolds, StepHolds, PTL DEF Spec

\* mutation-gate.ts:121-126: the memberships the account started with, and that
\* no file denied, are only ever left by its user.
THEOREM OwnMembershipsAreKept == Spec => []StandingIsKept
  BY Invariance, PTL DEF IInv

\* README.md:321-322: a run that reads has every join of its plan on disk.
THEOREM JoinsAreOnDiskFirst == Spec => []TracedBeforeRead
  <1>1. IInv => TracedBeforeRead
    BY DEF IInv, TraceIsDurable, TracedBeforeRead
  <1> QED BY <1>1, Invariance, PTL

\* A run that reads is in every channel it had to join, unless it was left since.
THEOREM PlansAreReadable == Spec => []PlanIsReadable
  <1>1. IInv => PlanIsReadable
    BY DEF IInv, TraceIsDurable, TraceIsTrue, PlanIsReadable
  <1> QED BY <1>1, Invariance, PTL

\* README.md:303-304: the only step that creates a membership is a request the
\* consent of this run covers, and the consent covers what was ticked and accepted.
THEOREM JoinsAreAccepted == Spec => OnlyAcceptedJoins
  <1>1. IInv /\ [Next]_vars => [joinedByTool' \ joinedByTool \subseteq accepted]_vars
    <2> SUFFICES ASSUME IInv, Next PROVE joinedByTool' \ joinedByTool \subseteq accepted
      OBVIOUS
    <2>1. CASE \E x \in Channels \cup {Team} : SendJoin(x)
      BY <2>1 DEF SendJoin, IInv, ConsentIsAccepted
    <2>2. CASE UNCHANGED joinedByTool
      BY <2>2
    <2> QED BY <2>1, <2>2 DEF Next, Inventory, Select, HandEdit, ForeignFile, HumanJoins,
               HumanLeaves, RecordLeaveUnsaved,
               SendLeave, LeaveFails, StartRun, Refuse, Accept, JoinFails, RecordJoin, JoinsDone,
               ReadDone, RecordLeave, CloseRun, Kill, hist
  <1> QED BY <1>1, Invariance, PTL DEF Spec, OnlyAcceptedJoins
=============================================================================
