---------------------------- MODULE AssistantFiles ----------------------------
(***************************************************************************)
(* The two instruction files of a project, CLAUDE.md and AGENTS.md          *)
(* (project/instructions_layout.go, instructions.go, setup.go and the       *)
(* include file of links.go).  A setup sorts the pair into a matrix of      *)
(* cases, removes a misleading link, renames, brings the blocks of          *)
(* k-playbook in AGENTS.md up to date and writes the include file; a start  *)
(* repairs AGENTS.md, reading the context heals the include file.  The runs *)
(* of several processes interleave, fail and are killed.                    *)
(***************************************************************************)
EXTENDS Naturals, Sequences, FiniteSets

CONSTANTS
  Proc,         \* processes that work on the project
  MaxRuns,      \* bound: runs of all of them
  MaxPieces,    \* bound: pieces of the AGENTS.md found at the beginning
  MaxRunFaults  \* bound: failed calls and kills

ASSUME FilesAssumption == {MaxRuns, MaxPieces, MaxRunFaults} \subseteq Nat

VARIABLES
  claude, agents,   \* what lies at the two paths
  ignored,          \* git ignores AGENTS.md
  runOf,            \* Proc -> the run under way
  runCount, runFaults,
  owned,            \* history: the texts of the project found at the beginning
  bothReal,         \* history: both files were real at the beginning
  torn,             \* history: a kill has cut a file short while it was written
  deadTarget,       \* history: a file was written at the dead target of a link
  raced,            \* history: two runs overlapped
  overtaken,        \* history: a run removed, renamed or replaced a file other than the one it had read
  settled           \* history: a setup ended without error and alone, nothing failed since

filesVars == <<claude, agents, ignored, runOf, runCount, runFaults, owned, bothReal, torn,
               deadTarget, raced, overtaken, settled>>

(***************************************************************************)
(* A document is a sequence of lines.  The project's own lines are "text"   *)
(* and "heading"; "loose" is text right after a block somebody has edited,  *)
(* which nothing separates from the block, and "behind" is text which only  *)
(* the session block, obsolete itself, separates from edited findings: a    *)
(* refresh removes the session block, and then the text as part of the      *)
(* findings, if a heading follows (README, section 6).                      *)
(***************************************************************************)
NewBlock  == <<"mark", "title", "new">>
OldBlock  == <<"mark", "title", "old">>
Obsolete  == [session |-> <<"session", "title", "rest">>, findings |-> <<"findings", "title", "rest">>]
Stub      == <<"note", "include">>
Template  == <<"title">> \o NewBlock
Comments  == {"mark", "session", "findings"}
Headings  == {"title", "heading"}
Pieces    == {<<"text">>, <<"heading", "text">>, NewBlock, OldBlock, <<"mark", "title", "old", "edited">>,
              Obsolete.session, Obsolete.findings, <<"session", "title", "edited">>, <<"findings", "title", "edited">>}

Has(doc, line) == \E i \in DOMAIN doc : doc[i] = line
\* What the project owns of a document: its lines, and whether loose text ends it.
OwnUpTo(doc) ==
  LET upTo[n \in Nat] == CASE n = 0 -> <<>>
                           [] n > 0 /\ doc[n] \in {"text", "heading"} -> Append(upTo[n - 1], doc[n])
                           [] OTHER -> upTo[n - 1]
  IN  upTo
OwnText(doc)  == OwnUpTo(doc)[Len(doc)]
EndsLoose(doc) == doc # <<>> /\ doc[Len(doc)] = "loose"
Own(doc) == [lines |-> OwnText(doc), tail |-> EndsLoose(doc)]

\* Behind edited findings comes at most the session block.
EditedFindingsOpen(doc) ==
  \E i \in 1..Len(doc) - 2 : /\ doc[i] = "findings" /\ doc[i + 2] = "edited"
                             /\ \A k \in i + 2..Len(doc) : doc[k] \notin {"mark", "heading"}

\* Up to n pieces one after the other, each block of k-playbook once.
Joined(doc, piece) ==
  CASE piece[1] \in Comments /\ Has(doc, piece[1]) -> doc
    [] piece = <<"text">> /\ doc # <<>> /\ doc[Len(doc)] \in {"edited", "loose"} -> doc \o <<"loose">>
    [] piece = <<"text">> /\ EditedFindingsOpen(doc) /\ doc[Len(doc)] \notin {"edited", "loose"} -> doc \o <<"behind">>
    [] OTHER -> doc \o piece

DocsOf[n \in Nat] ==
  IF n = 0 THEN {<<>>} ELSE DocsOf[n - 1] \cup {Joined(d, p) : d \in DocsOf[n - 1], p \in Pieces}

\* The import line counts outside of fenced code only.
Includes(doc) ==
  \E i \in DOMAIN doc : /\ doc[i] = "include"
                        /\ Cardinality({k \in 1..i - 1 : doc[k] = "fence"}) % 2 = 0

(***************************************************************************)
(* The blocks of k-playbook in AGENTS.md.                                  *)
(***************************************************************************)
First(S) == CHOOSE i \in S : \A j \in S : i <= j
MarkerLine(doc, mark) == LET at == {i \in DOMAIN doc : doc[i] = mark} IN IF at = {} THEN 0 ELSE First(at)

\* Defect: a block without a known end reaches to the end of the file.
BlockEndsWithFile(doc, i, known, wall) ==
  LET stops == {j \in i + 1..Len(doc) : doc[j] \in Comments}
  IN  CASE SubSeq(doc, i, i + Len(known) - 1) = known -> i + Len(known)
        [] OTHER -> IF stops = {} THEN Len(doc) + 1 ELSE First(stops)

\* The first line behind the block that starts at i, 0 when that is unknown:
\* the known text of the block, or the next comment or second heading.
MarkedBlockEnd(doc, i, known, wall) ==
  LET stops == {j \in i + 1..Len(doc) :
                  \/ doc[j] \in Comments
                  \/ doc[j] \in Headings /\ \E k \in i + 1..j - 1 : doc[k] \in Headings}
  IN  CASE SubSeq(doc, i, i + Len(known) - 1) = known -> i + Len(known)
        [] SubSeq(doc, i, i + Len(known) - 1) # known /\ stops = {} -> 0
        [] OTHER -> IF doc[First(stops)] = wall THEN 0 ELSE First(stops)

ReplaceOutdated(doc) ==
  LET start == MarkerLine(doc, "mark")
      end   == MarkedBlockEnd(doc, start, OldBlock, "none")
  IN  IF start = 0 \/ end = 0 THEN doc
      ELSE IF ~Has(SubSeq(doc, start, end - 1), "old") THEN doc
      ELSE SubSeq(doc, 1, start - 1) \o NewBlock \o SubSeq(doc, end, Len(doc))

WithoutBlock(doc, name) ==
  LET start == MarkerLine(doc, name)
      end   == MarkedBlockEnd(doc, start, Obsolete[name], "mark")
  IN  IF start = 0 \/ end = 0 THEN doc ELSE SubSeq(doc, 1, start - 1) \o SubSeq(doc, end, Len(doc))

Refresh(doc, append) ==
  LET cleaned == WithoutBlock(WithoutBlock(ReplaceOutdated(doc), "session"), "findings")
  IN  IF append /\ ~Has(doc, "mark") THEN cleaned \o NewBlock ELSE cleaned

(***************************************************************************)
(* What lies at a path: nothing, a file, a directory, a link (to the other  *)
(* of the two, to a foreign file, to nowhere), or something unreadable.     *)
(***************************************************************************)
At(is, to, doc) == [is |-> is, to |-> to, doc |-> doc]
Nothing == At("missing", "", <<>>)
File(doc) == At("file", "", doc)
Kinds == {"missing", "regular", "include", "dir", "toOther", "foreign", "dangling", "unreadable"}

KindOf(at, isClaude) ==
  CASE at.is = "link" -> at.to
    [] at.is = "file" -> IF isClaude /\ Includes(at.doc) THEN "include" ELSE "regular"
    [] OTHER -> at.is

\* What a read or write of AGENTS.md reaches, links followed.
Reaches ==
  CASE agents.is = "file" \/ agents.to = "foreign" -> "agents"
    [] agents.is = "missing" \/ agents.to = "dangling" -> "absent"
    [] agents.to = "toOther" /\ (claude.is = "file" \/ claude.to = "foreign") -> "claude"
    [] agents.to = "toOther" /\ (claude.is = "missing" \/ claude.to = "dangling") -> "absent"
    [] OTHER -> "error"
Read == IF Reaches = "agents" THEN agents.doc ELSE claude.doc
SourceExists == Reaches \in {"agents", "claude"}

(***************************************************************************)
(* The matrix of cases; the first matching row wins.                       *)
(***************************************************************************)
MatchInstructions(c, a) ==
  LET noContent == {"missing", "toOther", "dangling", "include"} IN
  CASE "unreadable" \in {c, a} -> 1
    [] a = "dir" /\ c # "unreadable" -> 2
    [] c = "dir" /\ a \notin {"dir", "unreadable"} -> 3
    [] c = "foreign" /\ a \notin {"dir", "unreadable"} -> 4
    [] a = "toOther" /\ c = "regular" -> 5
    [] a = "toOther" /\ c \in noContent -> 6
    [] a = "dangling" /\ c \notin {"dir", "foreign", "unreadable"} -> 7
    [] a = "foreign" /\ c = "regular" -> 8
    [] a = "foreign" /\ c \in noContent -> 9
    [] c \in {"regular", "include"} /\ a = "missing" -> 10
    [] c \in {"regular", "include"} /\ a = "regular" -> 11
    [] c = "missing" /\ a = "missing" -> 12
    [] c = "missing" /\ a = "regular" -> 13
    [] c = "toOther" /\ a = "regular" -> 14
    [] c = "toOther" /\ a = "missing" -> 15
    [] c = "dangling" /\ a \in {"missing", "regular"} -> 16

PlanRow(row, conflict, remove, rename) ==
  [row |-> row, conflict |-> conflict \/ (rename /\ ignored), blocked |-> row \in {1, 2, 3},
   remove |-> remove /\ ~(conflict \/ (rename /\ ignored)), rename |-> rename /\ ~ignored,
   mayCreate |-> row \notin {1, 2} /\ ~(conflict \/ (rename /\ ignored)), runs |-> row # 2]

PlanFor(c, a) ==
  LET row == MatchInstructions(c, a) IN
  PlanRow(row, row \in {4, 8} \/ (row = 11 /\ c = "regular"),
          row = 5, row = 5 \/ (row = 10 /\ c = "regular"))

\* Rows 6 and 7 take the link away and sort a second time.
AfterRemovingAgentsLink(c) ==
  LET plan == PlanFor(c, "missing") IN [plan EXCEPT !.remove = ~(plan.conflict \/ plan.blocked)]

ClassifyInstructions ==
  LET c == KindOf(claude, TRUE)  a == KindOf(agents, FALSE) IN
  IF MatchInstructions(c, a) \in {6, 7} THEN AfterRemovingAgentsLink(c) ELSE PlanFor(c, a)

NoPlan == [row |-> 0, conflict |-> FALSE, blocked |-> FALSE, remove |-> FALSE, rename |-> FALSE,
           mayCreate |-> FALSE, runs |-> FALSE]
NoRun == [op |-> "none", step |-> "idle", plan |-> NoPlan, doc |-> <<>>, failed |-> FALSE]
RunSteps == {"idle", "remove", "rename", "root", "write root", "include", "unlink", "stub",
             "repair", "write repair", "create"}

FilesTypeOK ==
  /\ KindOf(claude, TRUE) \in Kinds /\ KindOf(agents, FALSE) \in Kinds \ {"include"}
  /\ \A p \in Proc : /\ runOf[p].step \in RunSteps /\ runOf[p].plan.row \in 0..16
                     /\ runOf[p].op \in {"none", "repair", "heal", "setup"}
                     /\ runOf[p].op = "none" <=> runOf[p].step = "idle"
  /\ runCount \in 0..MaxRuns /\ runFaults \in 0..MaxRunFaults

FilesInit ==
  /\ claude \in {Nothing, At("dir", "", <<>>), At("unreadable", "", <<>>), File(<<"text">>), File(OldBlock \o <<"text">>),
                 File(<<"fence", "include", "fence", "text">>), File(Stub), File(<<"text", "include">>),
                 At("link", "toOther", <<>>), At("link", "foreign", <<"text">>), At("link", "dangling", <<>>)}
  /\ agents \in {Nothing, At("dir", "", <<>>), At("unreadable", "", <<>>), At("link", "toOther", <<>>),
                 At("link", "foreign", <<"heading", "text">>), At("link", "dangling", <<>>)}
                \cup {File(doc) : doc \in DocsOf[MaxPieces]}
  /\ ignored \in {FALSE} \cup {KindOf(agents, FALSE) \in {"missing", "toOther"}}
  /\ runOf = [p \in Proc |-> NoRun] /\ runCount = 0 /\ runFaults = 0
  /\ owned = {Own(claude.doc), Own(agents.doc)} /\ torn = FALSE /\ deadTarget = FALSE
  /\ raced = FALSE /\ overtaken = FALSE /\ settled = FALSE
  /\ bothReal = (claude.is = "file" /\ agents.is = "file")

RunFault == runFaults < MaxRunFaults /\ runFaults' = runFaults + 1
Step(p, step) == runOf' = [runOf EXCEPT ![p].step = step]
FailTo(p, step) == runOf' = [runOf EXCEPT ![p].step = step, ![p].failed = TRUE, ![p].plan.mayCreate = FALSE]
EndRun(p) == runOf' = [runOf EXCEPT ![p] = NoRun]
Frame == UNCHANGED <<ignored, runCount, owned, bothReal, raced>>
FilesStay == UNCHANGED <<claude, agents, torn, deadTarget, overtaken>>

AllIdle == \A p \in Proc : runOf[p] = NoRun

(***************************************************************************)
(* A run begins.                                                           *)
(***************************************************************************)
BeginRun(p) ==
  /\ runOf[p] = NoRun /\ runCount < MaxRuns /\ runCount' = runCount + 1
  /\ raced' = (raced \/ ~AllIdle)
  /\ \/ LET plan == ClassifyInstructions IN
        runOf' = [runOf EXCEPT ![p] = [NoRun EXCEPT !.op = "setup", !.plan = plan,
                    !.step = CASE plan.remove -> "remove" [] ~plan.remove /\ plan.rename -> "rename"
                               [] OTHER -> IF plan.runs THEN "root" ELSE "include"]]
     \/ runOf' = [runOf EXCEPT ![p] = [NoRun EXCEPT !.op = "repair", !.step = "repair"]]
     \/ runOf' = [runOf EXCEPT ![p] = [NoRun EXCEPT !.op = "heal", !.step = "include"]]
  /\ FilesStay /\ UNCHANGED <<ignored, runFaults, owned, bothReal, settled>>

(***************************************************************************)
(* resolveInstructions: the misleading link goes, then the renaming.       *)
(***************************************************************************)
RemoveAgentsLink(p) ==
  /\ runOf[p].step = "remove"
  /\ \/ /\ agents # Nothing /\ agents.is # "dir" /\ agents' = Nothing
        /\ overtaken' = (overtaken \/ agents.is # "link")
        /\ Step(p, IF runOf[p].plan.rename THEN "rename" ELSE "root")
        /\ UNCHANGED <<runFaults, settled>>
     \/ agents = Nothing /\ FailTo(p, "root") /\ UNCHANGED <<agents, runFaults, overtaken, settled>>
     \/ RunFault /\ FailTo(p, "root") /\ settled' = FALSE /\ UNCHANGED <<agents, overtaken>>
  /\ Frame /\ UNCHANGED <<claude, torn, deadTarget>>

RenameClaude(p) ==
  /\ runOf[p].step = "rename"
  /\ \/ /\ claude # Nothing /\ agents' = claude /\ claude' = Nothing /\ Step(p, "root")
        /\ overtaken' = (overtaken \/ KindOf(claude, TRUE) # "regular" \/ agents # Nothing)
        /\ UNCHANGED <<runFaults, settled>>
     \/ claude = Nothing /\ FailTo(p, "root") /\ UNCHANGED <<claude, agents, runFaults, overtaken, settled>>
     \/ RunFault /\ FailTo(p, "root") /\ settled' = FALSE /\ UNCHANGED <<claude, agents, overtaken>>
  /\ Frame /\ UNCHANGED <<torn, deadTarget>>

(***************************************************************************)
(* AGENTS.md is written: os.WriteFile follows links and truncates first.   *)
(***************************************************************************)
WriteAgents(doc) ==
  CASE Reaches = "agents" -> agents' = [agents EXCEPT !.doc = doc] /\ UNCHANGED <<claude, deadTarget>>
    [] Reaches = "claude" -> claude' = [claude EXCEPT !.doc = doc] /\ UNCHANGED <<agents, deadTarget>>
    [] Reaches = "absent" /\ agents = Nothing -> agents' = File(doc) /\ UNCHANGED <<claude, deadTarget>>
    [] Reaches = "absent" /\ agents.to = "toOther" /\ claude = Nothing ->
         claude' = File(doc) /\ UNCHANGED <<agents, deadTarget>>
    [] Reaches = "absent" /\ agents.to = "dangling" ->
         agents' = At("link", "foreign", doc) /\ deadTarget' = TRUE /\ UNCHANGED claude
    [] OTHER -> UNCHANGED <<claude, agents, deadTarget>>

\* What would be written from the file as it is now.
Current(append) == IF SourceExists THEN Refresh(Read, append) ELSE Template

WriteFile(p, append, next) ==
  \/ WriteAgents(runOf[p].doc) /\ next /\ overtaken' = (overtaken \/ Current(append) # runOf[p].doc)
      /\ UNCHANGED <<torn, runFaults, settled>>
  \/ RunFault /\ WriteAgents(<<>>) /\ torn' = TRUE /\ settled' = FALSE /\ EndRun(p) /\ UNCHANGED overtaken

ApplyRootInstructions(p) ==
  /\ runOf[p].step = "root"
  /\ CASE Reaches = "error" -> FailTo(p, "include")
       [] Reaches = "absent" -> IF runOf[p].plan.mayCreate
            THEN runOf' = [runOf EXCEPT ![p].step = "write root", ![p].doc = Template]
            ELSE Step(p, "include")
       [] OTHER -> IF Refresh(Read, TRUE) # Read
            THEN runOf' = [runOf EXCEPT ![p].step = "write root", ![p].doc = Refresh(Read, TRUE)]
            ELSE Step(p, "include")
  /\ FilesStay /\ Frame /\ UNCHANGED <<runFaults, settled>>

WriteRootInstructions(p) ==
  /\ runOf[p].step = "write root" /\ WriteFile(p, TRUE, Step(p, "include")) /\ Frame

(***************************************************************************)
(* applyIncludeFile, at the end of a setup and in a heal.                  *)
(***************************************************************************)
RunEnds(p) ==
  /\ EndRun(p)
  /\ settled' = (settled \/ (runOf[p].op = "setup" /\ ~runOf[p].failed /\ ~raced))

ApplyIncludeFile(p) ==
  /\ runOf[p].step = "include"
  /\ IF ClassifyInstructions.conflict \/ ClassifyInstructions.blocked \/ ~SourceExists
          \/ claude.is \notin {"missing", "link"}
       THEN RunEnds(p)
       ELSE Step(p, IF claude = Nothing THEN "stub" ELSE "unlink") /\ UNCHANGED settled
  /\ FilesStay /\ Frame /\ UNCHANGED runFaults

RemoveClaudeLink(p) ==
  /\ runOf[p].step = "unlink"
  /\ IF claude = Nothing THEN EndRun(p) /\ UNCHANGED claude ELSE claude' = Nothing /\ Step(p, "stub")
  /\ Frame /\ UNCHANGED <<agents, torn, deadTarget, overtaken, runFaults, settled>>

WriteStub(p) ==
  /\ runOf[p].step = "stub" /\ claude.is # "dir"
  /\ \/ claude' = File(Stub) /\ RunEnds(p) /\ UNCHANGED <<torn, runFaults>>
     \/ RunFault /\ claude' = File(<<>>) /\ torn' = TRUE /\ settled' = FALSE /\ EndRun(p)
  /\ Frame /\ UNCHANGED <<agents, deadTarget, overtaken>>

(***************************************************************************)
(* RepairRootInstructions: only a file with the marker is brought up to     *)
(* date, and only a missing one with a plain plan is created.               *)
(***************************************************************************)
RepairReads(p) ==
  /\ runOf[p].step = "repair"
  /\ CASE Reaches = "absent" -> LET plan == ClassifyInstructions IN
            IF plan.conflict \/ plan.blocked \/ plan.rename \/ plan.remove \/ ~plan.mayCreate
              THEN EndRun(p) ELSE Step(p, "create")
       [] Reaches = "error" -> EndRun(p)
       [] OTHER -> IF Has(Read, "mark") /\ Refresh(Read, FALSE) # Read
            THEN runOf' = [runOf EXCEPT ![p].step = "write repair", ![p].doc = Refresh(Read, FALSE)]
            ELSE EndRun(p)
  /\ FilesStay /\ Frame /\ UNCHANGED <<runFaults, settled>>

WriteRepair(p) ==
  /\ runOf[p].step = "write repair" /\ WriteFile(p, FALSE, EndRun(p)) /\ Frame

\* O_EXCL: nothing is created where something lies.
CreateRootInstructions(p) ==
  /\ runOf[p].step = "create" /\ EndRun(p)
  /\ \/ agents' = (IF agents = Nothing THEN File(Template) ELSE agents) /\ UNCHANGED <<torn, runFaults, settled>>
     \/ agents = Nothing /\ RunFault /\ agents' = File(<<>>) /\ torn' = TRUE /\ settled' = FALSE
  /\ Frame /\ UNCHANGED <<claude, deadTarget, overtaken>>

RunKilled(p) ==
  /\ runOf[p] # NoRun /\ RunFault /\ EndRun(p) /\ settled' = FALSE
  /\ FilesStay /\ Frame

FilesNext ==
  \E p \in Proc :
    \/ BeginRun(p) \/ RemoveAgentsLink(p) \/ RenameClaude(p) \/ ApplyRootInstructions(p)
    \/ WriteRootInstructions(p) \/ ApplyIncludeFile(p) \/ RemoveClaudeLink(p) \/ WriteStub(p)
    \/ RepairReads(p) \/ WriteRepair(p) \/ CreateRootInstructions(p) \/ RunKilled(p)

FilesSpec == FilesInit /\ [][FilesNext]_filesVars

(***************************************************************************)
(* Properties                                                              *)
(***************************************************************************)
\* No text of the project is lost, unless a kill cut a file short.
TextStays ==
  torn \/ overtaken \/ \A own \in owned : \E file \in {claude, agents} :
    (own.lines = <<>> \/ Own(file.doc).lines = own.lines) /\ (own.tail => Has(file.doc, "loose"))

\* No second source of instructions is left beside a real CLAUDE.md, unless a
\* run failed while two overlapped.
OneSource ==
  \/ bothReal \/ torn \/ ~AllIdle \/ (raced /\ runFaults > 0)
  \/ ~(KindOf(claude, TRUE) = "regular" /\ KindOf(agents, FALSE) = "regular")

\* AGENTS.md never becomes a file that imports itself.
NoSelfImport == ~overtaken /\ agents.is = "file" => ~Includes(agents.doc)

\* A setup that ended without an error and without a conflict has settled the
\* pair: Claude reads AGENTS.md, AGENTS.md names the briefing, and a second
\* setup would change nothing.
SetupSettles ==
  settled /\ AllIdle /\ ~ClassifyInstructions.conflict /\ ~ClassifyInstructions.blocked =>
    /\ KindOf(claude, TRUE) = "include" /\ SourceExists /\ Has(Read, "mark")
    /\ ~ClassifyInstructions.remove /\ ~ClassifyInstructions.rename /\ Refresh(Read, TRUE) = Read

InstructionsKept == TextStays /\ OneSource /\ NoSelfImport /\ SetupSettles

\* Setting up writes no file at the dead target of a link (the comment on row 7
\* of the matrix, instructions_layout.go).  The code does not keep this, and no
\* run checks it.
NothingAtDeadTarget == ~deadTarget
===============================================================================
