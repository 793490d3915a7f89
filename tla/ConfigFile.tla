------------------------------- MODULE ConfigFile -------------------------------
(***************************************************************************)
(* K-PLAYBOOK.yaml: the edits line by line (project/remediation.go, gh.go,   *)
(* docs_exclude.go, git_settings.go), its move from the earlier place        *)
(* (discover.go), its creation (config.go) and the reset of an outdated one  *)
(* (reset.go).  Requests of the web interface and calls of the command line  *)
(* run at once; nothing locks the file; it is written in place.              *)
(***************************************************************************)
EXTENDS Naturals, Sequences, FiniteSets
LOCAL INSTANCE FiniteSetsExt

CONSTANTS
  Editor,         \* processes and requests that act on the file
  MaxConfigOps,   \* bound: operations of all of them
  MaxConfigFaults \* bound: failed writes and kills

ASSUME ConfigAssumption == MaxConfigOps \in Nat /\ MaxConfigFaults \in Nat

VARIABLES
  configFile, \* .k-playbook/K-PLAYBOOK.yaml
  oldPlace,   \* K-PLAYBOOK.yaml at the root: none, file, link, dangling
  oldFile,    \* the file there, or the one the link names
  backups,    \* the names of backups -> the file
  playbook,   \* what lies in k-playbook/: nothing, a clone, a clone with project files
  editor,     \* Editor -> the operation under way
  configOps, configFaults,
  clobbered,  \* history: a write in place broke off, or a write or rename replaced what it had
              \* not seen, other than an edit replacing another
  configHarm  \* history: what an operation must not do

configVars == <<configFile, oldPlace, oldFile, backups, playbook, editor, configOps, configFaults, clobbered, configHarm>>

(***************************************************************************)
(* Lines                                                                   *)
(***************************************************************************)
Line(col, kind, name, rest) == [col |-> col, kind |-> kind, name |-> name, rest |-> rest]
KeyLine(col, name, rest) == Line(col, "key", name, rest)   \* rest: a value, nothing, or a comment "#"
Remark(col, name) == Line(col, "remark", name, "")
ItemLine(col, name) == Line(col, "item", name, "")
BlankLine == Line(0, "blank", "", "")

TopLevel(l)  == l.kind = "key" /\ l.col = 0
Mute(l)      == l.kind \in {"blank", "remark"}
BlockStart(l, name) == TopLevel(l) /\ l.name = name /\ l.rest \in {"", "#"}
LineFrom(t, from, P(_)) == Min({i \in from..Len(t) : P(t[i])} \cup {Len(t) + 1})
TrimmedText(t) == SubSeq(t, 1, Max({i \in 1..Len(t) : t[i].kind # "blank"} \cup {0}))
TextFrom(t, i) == SubSeq(t, i, Len(t))
\* The block line i lies in: the place of its header, 0 before the first.
HeaderOf(t, i) == Max({k \in 1..i : TopLevel(t[k])} \cup {0})
InSection(t, i, name) == LET h == HeaderOf(t, i) IN h \notin {0, i} /\ t[h].name = name

(***************************************************************************)
(* What is read                                                            *)
(***************************************************************************)
LastValue(t, S, default) == IF S = {} THEN default ELSE t[Max(S)].rest
IsKey(l, name) == l.kind = "key" /\ l.name = name

SchemaOf(t) == LastValue(t, {i \in 1..Len(t) : TopLevel(t[i]) /\ t[i].name = "schema_version"}, "")
VcsOf(t)    == LastValue(t, {i \in 1..Len(t) : IsKey(t[i], "vcs") /\ InSection(t, i, "project")}, "")
ModeOf(t)   == LastValue(t, {i \in 1..Len(t) : IsKey(t[i], "mode") /\ InSection(t, i, "remediation")}, "task-first")
GitSwitchOf(t) ==
  LET start == LineFrom(t, 1, LAMBDA l : TopLevel(l) /\ l.name = "git")
  IN LastValue(t, {i \in 1..Len(t) : IsKey(t[i], "switch") /\ HeaderOf(t, i) = start}, "unknown")

GhStatusLines(t) ==
  LET Under(i, g) == /\ HeaderOf(t, i) = HeaderOf(t, g) /\ g < i
                     /\ \A k \in (g + 1)..i : t[k].kind = "key" => t[k].col > t[g].col
  IN {i \in 1..Len(t) : /\ IsKey(t[i], "status") /\ InSection(t, i, "tools")
                        /\ \E g \in 1..Len(t) : IsKey(t[g], "gh") /\ t[g].rest = "" /\ t[g].col > 0 /\ Under(i, g)}
GhOf(t) == IF GhStatusLines(t) = {} THEN "unknown" ELSE t[Min(GhStatusLines(t))].rest

\* The list under exclude: goes on as long as lines are indented further or are
\* entries in its own column.
ExcludedIn(t) ==
  LET Child(s) == LET c == LineFrom(t, s + 1, LAMBDA l : ~Mute(l)) IN IF c > Len(t) THEN 0 ELSE t[c].col
      Lists(e) == /\ IsKey(t[e], "exclude") /\ InSection(t, e, "docs") /\ t[e].rest \in {"", "#"}
                  /\ t[e].col = Child(HeaderOf(t, e))
      Belongs(i, e) == /\ e < i /\ HeaderOf(t, i) = HeaderOf(t, e)
                       /\ \A k \in (e + 1)..i :
                            ~Mute(t[k]) => t[k].col > t[e].col \/ (t[k].col = t[e].col /\ t[k].kind = "item")
      entries == {i \in 1..Len(t) : t[i].kind = "item" /\ \E e \in 1..i : Lists(e) /\ Belongs(i, e)}
  IN {t[i].name : i \in entries} \ {"/absolute"}

(***************************************************************************)
(* What is written                                                         *)
(***************************************************************************)
RemediationBlock(mode) == <<KeyLine(0, "remediation", ""), Remark(2, "how"), KeyLine(2, "mode", mode)>>
GhBlock(status) == <<KeyLine(2, "gh", ""), Remark(4, "what gh is for"), KeyLine(4, "status", status)>>
DocsBlock(pattern) == <<KeyLine(0, "docs", ""), Remark(2, "what"), KeyLine(2, "exclude", ""), ItemLine(4, pattern)>>

AppendBlock(t, block) == IF TrimmedText(t) = <<>> THEN block ELSE TrimmedText(t) \o <<BlankLine>> \o block

\* Defect: what stands between the block and the next one goes with it.
ReplaceTopLevelBlockWhole(t, name, block) ==
  LET start == LineFrom(t, 1, LAMBDA l : BlockStart(l, name))
      end   == LineFrom(t, start + 1, TopLevel)
  IN IF start > Len(t) THEN AppendBlock(t, block)
     ELSE TrimmedText(SubSeq(t, 1, start - 1) \o block \o IF end > Len(t) THEN <<>> ELSE <<BlankLine>> \o TextFrom(t, end))

\* Comments without indentation at the end of a block belong to what follows.
ReplaceTopLevelBlock(t, name, block) ==
  LET start == LineFrom(t, 1, LAMBDA l : BlockStart(l, name))
      end   == LineFrom(t, start + 1, TopLevel)
      own   == Max({i \in start..(end - 1) : t[i].kind # "blank" /\ ~(t[i].kind = "remark" /\ t[i].col = 0)})
      cut   == Min({end, LineFrom(t, own + 1, LAMBDA l : l.kind = "remark")})
  IN IF start > Len(t) THEN AppendBlock(t, block)
     ELSE TrimmedText(SubSeq(t, 1, start - 1) \o block \o IF cut > Len(t) THEN <<>> ELSE <<BlankLine>> \o TextFrom(t, cut))

\* A comment behind the header of the parent hides it: a second one is appended.
ReplaceNestedBlock(t, parent, child, block) ==
  LET start == LineFrom(t, 1, LAMBDA l : TopLevel(l) /\ l.name = parent /\ l.rest = "")
      end   == LineFrom(t, start + 1, TopLevel)
      at    == Min({i \in (start + 1)..(end - 1) : IsKey(t[i], child)} \cup {end})
      next  == Min({i \in (at + 1)..(end - 1) : ~Mute(t[i]) /\ t[i].col <= t[at].col} \cup {end})
      last  == Max({i \in at..(next - 1) : i = at \/ t[i].kind # "blank"})
      after == Max({i \in start..(end - 1) : t[i].kind # "blank"})
  IN CASE start > Len(t) -> AppendBlock(t, <<KeyLine(0, parent, "")>> \o block)
       [] start <= Len(t) /\ at = end -> TrimmedText(SubSeq(t, 1, after) \o block \o TextFrom(t, after + 1))
       [] OTHER -> TrimmedText(SubSeq(t, 1, at - 1) \o block \o TextFrom(t, last + 1))

\* planDocsExcludeEdit and the inserting: the text with the pattern, or the
\* text as it is when its form is not supported.
InsertDocsExclude(t, pattern) ==
  LET heads == {i \in 1..Len(t) : TopLevel(t[i]) /\ t[i].name = "docs"}
      start == Min(heads)
      end   == LineFrom(t, start + 1, TopLevel)
      inner == {i \in (start + 1)..(end - 1) : ~Mute(t[i])}
      child == IF inner = {} THEN 2 ELSE t[Min(inner)].col
      lists == {i \in inner : t[i].col = child /\ IsKey(t[i], "exclude")}
      list  == Min(lists)
      stop  == Min({i \in inner : i > list /\ (t[i].col < child \/ (t[i].col = child /\ t[i].kind # "item"))} \cup {end})
      body  == {i \in inner : list < i /\ i < stop}
      indented == Max({start} \cup {i \in (start + 1)..(end - 1) : t[i].kind # "blank" /\ t[i].col > 0})
      Insert(at, lines) == SubSeq(t, 1, at) \o lines \o TextFrom(t, at + 1)
      unsupported == \/ Cardinality(heads) > 1 \/ t[start].rest \notin {"", "#"}
                     \/ inner # {} /\ t[Min(inner)].kind = "item"
                     \/ Cardinality(lists) > 1
                     \/ lists # {} /\ t[list].rest \notin {"", "#", "[]"}
                     \/ lists # {} /\ t[list].rest # "[]" /\ \E i, j \in body : t[i].kind # "item" \/ t[i].col # t[j].col
  IN CASE heads = {} -> ReplaceTopLevelBlock(t, "docs", DocsBlock(pattern))
       [] heads # {} /\ unsupported -> t
       [] heads # {} /\ ~unsupported /\ lists = {} ->
            Insert(indented, <<KeyLine(child, "exclude", ""), ItemLine(child + 2, pattern)>>)
       [] OTHER -> IF t[list].rest = "[]"
                   THEN SubSeq(t, 1, list - 1) \o <<[t[list] EXCEPT !.rest = ""], ItemLine(child + 2, pattern)>>
                        \o TextFrom(t, list + 1)
                   ELSE Insert(Max({list} \cup body),
                               <<ItemLine(IF body = {} THEN child + 2 ELSE t[Min(body)].col, pattern)>>)

AddDocsExclude(t, pattern) == IF pattern \in ExcludedIn(t) THEN t ELSE InsertDocsExclude(t, pattern)

EditOps == {"mode", "gh", "docs"}
Edited(op, t) ==
  CASE op = "mode" -> ReplaceTopLevelBlock(t, "remediation", RemediationBlock("direct-allowed"))
    [] op = "gh"   -> ReplaceNestedBlock(t, "tools", "gh", GhBlock("enabled"))
    [] op = "docs" -> AddDocsExclude(t, "new/")

(***************************************************************************)
(* What an edit promises                                                   *)
(***************************************************************************)
Readings(t) == [schema |-> SchemaOf(t), vcs |-> VcsOf(t), switch |-> GitSwitchOf(t),
                mode |-> ModeOf(t), gh |-> GhOf(t), docs |-> ExcludedIn(t)]
Wanted(op, t) ==
  CASE op = "mode" -> [Readings(t) EXCEPT !.mode = "direct-allowed"]
    [] op = "gh"   -> [Readings(t) EXCEPT !.gh = "enabled"]
    [] op = "docs" -> [Readings(t) EXCEPT !.docs = @ \cup {"new/"}]

\* SetGHStatus appends a second block tools behind one with a comment in its
\* header; a status in the first remains the one that is read.
Unheard(op, t) == op = "gh" /\ GhStatusLines(t) # {} /\ t[HeaderOf(t, Min(GhStatusLines(t)))].rest # ""

\* The lines of the block an edit replaces, the comments in it included.
OwnLines(op, t) ==
  CASE op = "mode" -> {i \in 1..Len(t) : /\ HeaderOf(t, i) > 0 /\ BlockStart(t[HeaderOf(t, i)], "remediation")
                                         /\ (TopLevel(t[i]) \/ t[i].col > 0)}
    [] op = "gh"   -> {i \in 1..Len(t) : InSection(t, i, "tools") /\
                        \E g \in 1..i : /\ IsKey(t[g], "gh") /\ InSection(t, g, "tools") /\ HeaderOf(t, g) = HeaderOf(t, i)
                                        /\ \A k \in (g + 1)..i : t[k].kind = "blank" \/ t[k].col > t[g].col}
    [] op = "docs" -> {i \in 1..Len(t) : IsKey(t[i], "exclude")}
\* Comments directly behind the block of gh, in front of what comes next.
BehindGh(t) == {i \in 1..Len(t) : /\ t[i].kind = "remark" /\ i \notin OwnLines("gh", t)
                                  /\ \E g \in OwnLines("gh", t) : g < i /\ \A k \in (g + 1)..i : Mute(t[k])}

LinesOutside(t, own) == LET kept == {i \in 1..Len(t) : i \notin own /\ t[i].kind # "blank"}
                   IN [n \in 1..Cardinality(kept) |-> t[CHOOSE i \in kept : Cardinality({k \in kept : k <= i}) = n]]
\* The lines of s stand in t, in their order.
StandIn(s, t) == LET place[i \in 0..Len(s)] == IF i = 0 THEN 0 ELSE LineFrom(t, place[i - 1] + 1, LAMBDA k : k = s[i])
                 IN place[Len(s)] <= Len(t)

(***************************************************************************)
(* Files and operations                                                    *)
(***************************************************************************)
ConfigText(lines, own) == [there |-> TRUE, lines |-> lines, own |-> own]
NoConfig   == [there |-> FALSE, lines |-> <<>>, own |-> FALSE]
NewConfig  == ConfigText(<<KeyLine(0, "schema_version", "3"), KeyLine(0, "project", ""), KeyLine(2, "vcs", "git"),
                     BlankLine>> \o RemediationBlock("task-first") \o <<Remark(0, "docs example")>>
                     \o <<KeyLine(0, "tools", "")>> \o GhBlock("unknown"), FALSE)
OutdatedLines == <<KeyLine(0, "schema_version", "2"), KeyLine(0, "paths", ""), KeyLine(2, "tasks", "k-playbook/tasks")>>
NoOp == [op |-> "none", step |-> "idle", seen |-> NoConfig, backup |-> 0]
BackupName == 1..2

Spaced(parts) == LET Add(a, b) == IF b = <<>> THEN a ELSE a \o b \o <<BlankLine>>
                 IN Add(Add(Add(Add(<<>>, parts[1]), parts[2]), parts[3]), parts[4])

\* Layouts people write.  No block stands twice, except docs, for which the code looks.
Layouts ==
  LET base  == <<Remark(0, "intro"), KeyLine(0, "schema_version", "3"), KeyLine(0, "project", ""),
                 KeyLine(2, "vcs", "git"), BlankLine>>
      modes == {<<>>, <<Remark(0, "on modes"), KeyLine(0, "remediation", "#"), Remark(2, "how"),
                        KeyLine(2, "mode", "task-branch-pr")>>}
      Docs(rest) == <<Remark(0, "on docs"), KeyLine(0, "docs", "#"), KeyLine(2, "exclude", rest)>>
      docs  == {<<>>, Docs("[]"), Docs("[flow]"),
                Docs("") \o <<ItemLine(4, "a/"), Remark(4, "on /"), ItemLine(4, "/absolute"), KeyLine(2, "include", "")>>,
                Docs("") \o <<ItemLine(2, "a/"), KeyLine(2, "include", "")>>,
                <<KeyLine(0, "docs", ""), KeyLine(2, "include", "")>>, <<KeyLine(0, "docs", ""), ItemLine(2, "a/")>>}
      other == <<Remark(2, "on languages"), KeyLine(2, "languages", ""), KeyLine(4, "status", "other")>>
      gh    == <<KeyLine(2, "gh", ""), KeyLine(4, "status", "disabled")>>
      noted == <<KeyLine(2, "gh", "#"), KeyLine(4, "status", "disabled")>>
      Tools(rest) == <<KeyLine(0, "tools", rest)>>
      tools == {<<>>, Tools("") \o gh \o other, Tools("") \o other \o gh, Tools("") \o other,
                Tools("#") \o gh \o other, Tools("#") \o other, Tools("") \o noted \o other}
      git   == <<Remark(0, "on git"), KeyLine(0, "git", ""), KeyLine(2, "switch", "offer")>>
  IN {base \o Spaced(<<m, d, o, <<>> >>) : m \in modes, d \in docs, o \in tools}
     \cup {base \o Spaced(<<o, git, m, d>>) : m \in modes, d \in docs, o \in tools}

ConfigTypeOK ==
  /\ {configFile.there, configFile.own, oldFile.own} \subseteq BOOLEAN
  /\ \A i \in 1..Len(configFile.lines) : configFile.lines[i].col \in 0..6
  /\ oldPlace \in {"none", "file", "link", "dangling"} /\ oldFile.there = (oldPlace \in {"file", "link"})
  /\ DOMAIN backups = BackupName /\ playbook \in {"none", "clone", "strays"}
  /\ \A p \in Editor : /\ editor[p].step \in {"idle", "write", "set aside", "migrate", "unlink old", "move",
                                              "unlink link", "exists", "create", "restore"}
                       /\ editor[p].op \in EditOps \cup {"none", "discover", "create", "reset"}
                            /\ editor[p].backup \in {0} \cup BackupName
  /\ configOps \in 0..MaxConfigOps /\ configFaults \in 0..MaxConfigFaults /\ clobbered \in BOOLEAN
  /\ configHarm \subseteq {"reading", "lines", "comment", "trap", "unheard", "lost"}

\* A project of today, one of an earlier model, one whose file is at the earlier
\* place, alone or as a leftover beside the new one.
ConfigBegin(today, place, leftover) ==
  /\ configFile = IF place = "none" \/ leftover THEN ConfigText(today, TRUE) ELSE NoConfig
  /\ oldPlace = place /\ oldFile = (IF place = "none" THEN NoConfig ELSE ConfigText(OutdatedLines, ~leftover))
  /\ backups = [b \in BackupName |-> NoConfig] /\ editor = [p \in Editor |-> NoOp]
  /\ configOps = 0 /\ configFaults = 0 /\ clobbered = FALSE /\ configHarm = {}
ConfigInit == /\ \E today \in Layouts \cup {OutdatedLines}, place \in {"none", "file", "link"}, leftover \in BOOLEAN :
                   (place # "none" => today = OutdatedLines) /\ ConfigBegin(today, place, leftover)
              /\ playbook \in {"none", "clone", "strays"} /\ (configFile.lines \in Layouts => playbook = "clone")

ConfigFault == configFaults < MaxConfigFaults /\ configFaults' = configFaults + 1
Does(p, op, step) ==
  editor' = [editor EXCEPT ![p] = [op |-> op, step |-> step, seen |-> editor[p].seen, backup |-> editor[p].backup]]
Ends(p) == editor' = [editor EXCEPT ![p] = NoOp]
Starts(p) == editor[p].step = "idle" /\ configOps < MaxConfigOps /\ configOps' = configOps + 1
StillFiles == UNCHANGED <<configFile, oldPlace, oldFile, backups>>
NoHarm == UNCHANGED <<playbook, configFaults, clobbered, configHarm>>

\* Reads the whole file and computes the new one.
ReadToEdit(p) ==
  /\ Starts(p) /\ configFile.there
  /\ \E op \in EditOps :
       IF Edited(op, configFile.lines) = configFile.lines /\ op = "docs" THEN UNCHANGED editor
       ELSE editor' = [editor EXCEPT ![p] = [NoOp EXCEPT !.op = op, !.step = "write", !.seen = configFile]]
  /\ StillFiles /\ NoHarm

EditHarm(op, t) ==
  LET new == Edited(op, t)
      spared == IF op = "gh" THEN BehindGh(t) ELSE {} IN
  (IF Readings(new) # (IF Unheard(op, t) THEN Readings(t) ELSE Wanted(op, t)) THEN {"reading"} ELSE {})
  \cup (IF Unheard(op, t) THEN {"unheard"} ELSE {})
  \cup (IF ~StandIn(LinesOutside(t, OwnLines(op, t) \cup spared), new) THEN {"lines"} ELSE {})
  \cup (IF ~StandIn(LinesOutside(t, OwnLines(op, t)), new) THEN {"comment"} ELSE {})

\* The edits of others by which the file came from what an edit had read.
EditsUnseen(seen) == {o \in EditOps : configFile.there /\ configFile = ConfigText(Edited(o, seen.lines), seen.own)}

\* What the file says besides the two edits changes.
LossHarm(op, seen) ==
  LET now == Readings(configFile.lines)
      new == Readings(Edited(op, seen.lines))
  IN IF \E o \in EditsUnseen(seen) : \E f \in DOMAIN now \ {o, op} : now[f] # new[f] THEN {"lost"} ELSE {}

WriteEdit(p) ==
  /\ editor[p].step = "write"
  /\ configFile' = ConfigText(Edited(editor[p].op, editor[p].seen.lines), editor[p].seen.own)
  /\ configHarm' = configHarm \cup EditHarm(editor[p].op, editor[p].seen.lines) \cup LossHarm(editor[p].op, editor[p].seen)
  /\ clobbered' = (clobbered \/ (configFile # editor[p].seen /\ EditsUnseen(editor[p].seen) = {}))
  /\ Ends(p) /\ UNCHANGED <<oldPlace, oldFile, backups, playbook, configOps, configFaults>>

\* Project files in k-playbook/, which the next update replaces.  Where git
\* gives no answer, none are found.
LegacyContent(git) == playbook = "strays" /\ git

SchemaResettable(t) == SchemaOf(t) \in {"", "1", "2"}

ResetConfig(p) ==
  /\ Starts(p) /\ configFile.there /\ SchemaResettable(configFile.lines)
  /\ \E git \in BOOLEAN :
       /\ \/ git /\ UNCHANGED configFaults
          \/ ~git /\ playbook # "none" /\ ConfigFault
       /\ \/ LegacyContent(git) /\ UNCHANGED <<editor, configHarm>>
          \/ \E b \in BackupName :
               /\ ~LegacyContent(git) /\ ~backups[b].there /\ \A c \in 1..(b - 1) : backups[c].there
               /\ editor' = [editor EXCEPT ![p] = [NoOp EXCEPT !.op = "reset", !.step = "set aside", !.backup = b]]
               /\ configHarm' = IF playbook = "strays" /\ git THEN configHarm \cup {"trap"} ELSE configHarm
  /\ StillFiles /\ UNCHANGED <<playbook, clobbered>>

SetAside(p) ==
  /\ editor[p].step = "set aside"
  /\ IF configFile.there
     THEN /\ backups' = [backups EXCEPT ![editor[p].backup] = configFile]
          /\ clobbered' = (clobbered \/ backups[editor[p].backup].there)
          /\ configFile' = NoConfig /\ Does(p, "reset", "migrate")
     ELSE Ends(p) /\ UNCHANGED <<backups, configFile, clobbered>>
  /\ UNCHANGED <<oldPlace, oldFile, playbook, configOps, configFaults, configHarm>>

Discover(p) ==
  /\ Starts(p) /\ Does(p, "discover", "migrate") /\ StillFiles /\ NoHarm
CreateConfig(p) ==
  /\ Starts(p) /\ Does(p, "create", "migrate") /\ StillFiles /\ NoHarm

\* What follows migrateConfig, and what an error leads to.
AfterMigration(p) == IF editor[p].op = "discover" THEN Ends(p) ELSE Does(p, editor[p].op, "exists")
ConfigFails(p) == IF editor[p].op = "reset" THEN Does(p, "reset", "restore") ELSE Ends(p)

MigrateConfig(p) ==
  /\ editor[p].step = "migrate"
  /\ CASE oldPlace \notin {"file", "link"} -> AfterMigration(p)
       [] oldPlace \in {"file", "link"} /\ configFile.there -> Does(p, editor[p].op, "unlink old")
       [] OTHER -> Does(p, editor[p].op, "move")
  /\ UNCHANGED configOps /\ StillFiles /\ NoHarm

\* Of a link only the link goes.
RemoveOld(p) ==
  /\ editor[p].step \in {"unlink old", "unlink link"}
  /\ IF oldPlace = "none" THEN ConfigFails(p) ELSE AfterMigration(p)
  /\ oldPlace' = "none" /\ oldFile' = NoConfig /\ UNCHANGED <<configFile, backups, configOps>> /\ NoHarm

MoveOld(p) ==
  /\ editor[p].step = "move"
  /\ IF oldFile.there
     THEN /\ configFile' = oldFile /\ oldFile' = NoConfig /\ clobbered' = (clobbered \/ configFile.there)
          /\ IF oldPlace = "link" THEN oldPlace' = "dangling" /\ Does(p, editor[p].op, "unlink link")
                                  ELSE oldPlace' = "none" /\ AfterMigration(p)
     ELSE ConfigFails(p) /\ UNCHANGED <<configFile, oldPlace, oldFile, clobbered>>
  /\ UNCHANGED <<backups, playbook, configOps, configFaults, configHarm>>

NeverOverwritten(p) ==
  /\ editor[p].step = "exists"
  /\ IF configFile.there THEN ConfigFails(p) ELSE Does(p, editor[p].op, "create")
  /\ UNCHANGED configOps /\ StillFiles /\ NoHarm

WriteNew(p) ==
  /\ editor[p].step = "create" /\ configFile' = NewConfig /\ Ends(p)
  /\ clobbered' = (clobbered \/ configFile.there)
  /\ UNCHANGED <<oldPlace, oldFile, backups, playbook, configOps, configFaults, configHarm>>

RestoreConfig(p) ==
  /\ editor[p].step = "restore" /\ Ends(p)
  /\ IF backups[editor[p].backup].there
     THEN /\ configFile' = backups[editor[p].backup] /\ backups' = [backups EXCEPT ![editor[p].backup] = NoConfig]
          /\ clobbered' = (clobbered \/ configFile.there)
     ELSE UNCHANGED <<configFile, backups, clobbered>>
  /\ UNCHANGED <<oldPlace, oldFile, playbook, configOps, configFaults, configHarm>>

\* A call fails, or the process is killed; a write then leaves a file cut short.
ConfigBreaks(p) ==
  /\ editor[p].step # "idle" /\ ConfigFault
  /\ \/ Ends(p) \/ (editor[p].step \notin {"write", "set aside", "restore"} /\ ConfigFails(p))
  /\ \/ UNCHANGED <<configFile, clobbered>>
     \/ /\ editor[p].step \in {"write", "create"} /\ configFile' = ConfigText(<<>>, FALSE)
        /\ clobbered' = (clobbered \/ configFile.own)
  /\ UNCHANGED <<oldPlace, oldFile, backups, playbook, configOps, configHarm>>

ConfigNext == \E p \in Editor :
  \/ ReadToEdit(p) \/ WriteEdit(p) \/ ResetConfig(p) \/ SetAside(p) \/ Discover(p) \/ CreateConfig(p) \/ MigrateConfig(p)
  \/ RemoveOld(p) \/ MoveOld(p) \/ NeverOverwritten(p) \/ WriteNew(p) \/ RestoreConfig(p) \/ ConfigBreaks(p)

ConfigSpec == ConfigInit /\ [][ConfigNext]_configVars

(***************************************************************************)
(* Properties                                                              *)
(***************************************************************************)
\* The project's own settings are in the file, at the earlier place or in a
\* backup, whatever is moved, reset, created and edited at once, an edit that
\* drops another included, except when a write in place broke off, or a write or
\* a rename replaced what it had not seen of a move, a reset or a creation.
SettingsSurvive == clobbered \/ configFile.own \/ oldFile.own \/ \E b \in BackupName : backups[b].own

\* An edit sets its value and no other (or, where its block is not heard, no
\* value at all), keeps every line outside of its block in its order, drops of
\* another edit at once with it that one's value and nothing else, and no reset
\* leaves project files where an update removes them (remediation.go:145,
\* gh.go:158, docs_exclude.go:259, reset.go:46).
ConfigKept == {"reading", "lines", "lost", "trap"} \cap configHarm = {} /\ SettingsSurvive

\* "Ohne das legte ein Schreiber neben `docs:  # ...` einen zweiten Block gleichen
\* Namens an" (remediation.go:241): the status the page sets is the one that is
\* read.  replaceNestedBlock (gh.go:245) does make that mistake; no run checks it.
StatusHeard == "unheard" \notin configHarm

\* "Kommentare, Reihenfolge und unbekannte Nachbarn bleiben erhalten"
\* (gh.go:232), also the comments behind the block.  The code does not keep this,
\* and no run checks it.
CommentsKept == "comment" \notin configHarm

\* "Eine vorhandene Sicherung wird nie überschrieben" (reset.go:115): a backup
\* goes only when it is put back.  Two resets at once choose the same free name, and
\* the second rename replaces the first backup; no run checks it.
BackupsKept == [][\A b \in BackupName : backups[b].there => backups'[b] \in {backups[b], NoConfig}]_configVars
================================================================================
