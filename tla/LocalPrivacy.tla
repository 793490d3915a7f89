---------------------------- MODULE LocalPrivacy ----------------------------
(***************************************************************************)
(* Whether a directory of k-playbook-local is private                       *)
(* (internal/project/local_private.go, local.go): the measurement through    *)
(* several calls of git, the switch with its two measurements in between,    *)
(* and the first creation, which makes results private.  Pages send them,    *)
(* while people edit rules, stage, reset and commit.                         *)
(***************************************************************************)
EXTENDS Naturals, FiniteSets

CONSTANTS
  Tab,              \* pages; each has at most one call under way
  MaxPrivacyEvents  \* bound: changes by people, calls of git that fail, kills

ASSUME PrivacyAssumption == MaxPrivacyEvents \in Nat

VARIABLES
  localDir,      \* the directory: missing, there
  byDefault,     \* PrivateByDefault: results, not priv
  ignoreFile,    \* its .gitignore: none, managed, torn, own, own all
  outerRule,     \* rules elsewhere: none, the directory, what is inside, some files
  indexed,       \* files of the directory in the index
  committed,     \* and in HEAD
  tab,           \* Tab -> the call under way and what is shown
  asked,         \* history: the last switch that was told to have happened
  privacyEvents

privacyVars == <<localDir, byDefault, ignoreFile, outerRule, indexed, committed, tab, asked, privacyEvents>>

DirContent == {"note", "README.md"}
IgnoreFiles == {"none", "managed", "torn", "own", "own all"}
OwnContent == {"own", "own all"}   \* own: rules for other files
OuterRules == {"none", "directory", "inside", "some"}

(***************************************************************************)
(* What git answers                                                        *)
(***************************************************************************)
\* A rule that takes the directory itself beats the files inside; else the nearest one decides.
RuleFrom == IF outerRule = "directory" THEN "elsewhere"
            ELSE IF ignoreFile \in {"managed", "own all"} THEN "here"
            ELSE IF outerRule = "inside" THEN "elsewhere" ELSE "none"

Ignored(f) ==
  \/ outerRule = "directory" \/ ignoreFile = "own all"
  \/ ignoreFile = "managed" /\ f # "README.md"
  \/ ignoreFile # "managed" /\ (outerRule = "inside" \/ (outerRule = "some" /\ f = "note"))

\* A defect: without --no-index git does not call a file ignored that it tracks.
IgnoredUntracked(files) == {f \in files : Ignored(f) /\ f \notin indexed}

\* ignoredAmong
IgnoredAmong(files) == {f \in files : Ignored(f)}

(***************************************************************************)
(* The measurement                                                         *)
(***************************************************************************)
Unmeasured == {"missing", "unknown"}
Managed(rule) == rule = "here" /\ ignoreFile = "managed"

\* privacyState, privacyToggle
PrivacyState(rule, tracked, inHead) ==
  CASE rule = "none" -> "public"
    [] rule # "none" /\ tracked # {} -> "partial"
    [] rule # "none" /\ tracked = {} /\ inHead # {} -> "pending-commit"
    [] OTHER -> "private"
CanToggle(state, managed) == \/ state = "public" /\ ignoreFile \in {"none", "managed"}
                             \/ state # "public" /\ managed
Status(state, can, tracked) == [state |-> state, can |-> can, tracked |-> tracked]

\* phase: what the measurement under way is for; held: the file it has open still bears its name.
NoCallYet == [step |-> "idle", op |-> "none", phase |-> "none", rule |-> "none", managed |-> FALSE, tracked |-> {},
              fresh |-> FALSE, held |-> FALSE, before |-> {}, untracked |-> {}, told |-> "none",
              shown |-> "none", button |-> "none", disturbed |-> "no"]

PrivacyBegin(dir, default, file, outer, index, head) ==
  /\ localDir = dir /\ byDefault = default /\ ignoreFile = file /\ outerRule = outer
  /\ indexed = index /\ committed = head
  /\ tab = [t \in Tab |-> NoCallYet]
  /\ asked = "none" /\ privacyEvents = 0

PrivacyInit ==
  \E default \in BOOLEAN, file \in IgnoreFiles \ {"torn"}, outer \in OuterRules \ {"some"},
     index \in SUBSET DirContent :
    \/ "README.md" \in index /\ PrivacyBegin("there", TRUE, file, outer, index, index \ {"note"})
    \/ "README.md" \in index /\ PrivacyBegin("there", TRUE, file, outer, index, index)
    \/ "README.md" \notin index /\ PrivacyBegin("missing", default, "none", outer, index, index)

States == {"none", "missing", "unknown", "public", "partial", "pending-commit", "private"}
PrivacyTypeOK ==
  /\ localDir \in {"missing", "there"} /\ byDefault \in BOOLEAN
  /\ ignoreFile \in IgnoreFiles /\ outerRule \in OuterRules /\ (localDir = "missing" => ignoreFile = "none")
  /\ indexed \subseteq DirContent /\ committed \subseteq DirContent
  /\ \A t \in Tab : /\ tab[t].step \in {"idle", "rule", "list", "write", "fill", "untrack", "remove", "look",
                                        "make", "ignore"}
                    /\ tab[t].shown \in States /\ tab[t].button \in {"none", "private", "public"}
                    /\ tab[t].disturbed \in {"no", "yes", "person"}
  /\ asked \in {"none", "private", "public"} /\ privacyEvents \in 0..MaxPrivacyEvents

Ground == <<localDir, byDefault, ignoreFile, outerRule, indexed, committed>>
Event == privacyEvents < MaxPrivacyEvents /\ privacyEvents' = privacyEvents + 1
Goes(t, r) == tab' = [tab EXCEPT ![t] = r]

\* What one call does disturbs the others; of an old answer only the button counts.
Stale(r) == [NoCallYet EXCEPT !.button = r.button]
Felt(r, by) == IF r.step = "idle" THEN Stale(r)
               ELSE [r EXCEPT !.disturbed = IF @ = "person" THEN @ ELSE by, !.before = {}, !.untracked = {}]
Others(t) == [u \in Tab |-> IF u # t THEN Felt(tab[u], "yes") ELSE tab[u]]
Dropped(calls) == [u \in Tab |-> [calls[u] EXCEPT !.held = FALSE]]

Measures(r, phase) == [r EXCEPT !.step = "rule", !.phase = phase, !.rule = "none", !.managed = FALSE, !.tracked = {}]
\* The handler measures again before it answers.
Answers(r, told) == Measures(IF r.disturbed = "no" THEN [r EXCEPT !.told = told]
                             ELSE [NoCallYet EXCEPT !.op = "show", !.disturbed = r.disturbed], "answer")
AnswerShown(r) == IF r.disturbed # "no" THEN Stale(r)
           ELSE [Stale(r) EXCEPT !.op = r.op, !.told = r.told, !.fresh = r.fresh, !.before = r.before,
                                 !.untracked = r.untracked, !.shown = r.shown]

\* privateAction: what the button offers.
Offer(s) == IF ~s.can THEN "none" ELSE IF s.state \in {"public", "partial"} THEN "private" ELSE "public"

\* SetPrivate, makePrivate, makePublic go on with what has been measured.
Reached(op) == IF op = "private" THEN {"private", "pending-commit"} ELSE {"public"}
Switch(r, s) ==
  CASE s.state \in Unmeasured \/ (s.state \notin Reached(r.op) /\ ~s.can) -> Answers(r, "refused")
    [] s.state \in Reached(r.op) -> Answers(r, s.state)
    [] OTHER -> [r EXCEPT !.step = IF r.op = "private" THEN "write" ELSE "remove"]
After(r, s) ==
  CASE r.phase = "answer" -> AnswerShown([r EXCEPT !.shown = s.state, !.button = Offer(s)])
    [] r.phase = "first" -> Switch([r EXCEPT !.rule = "none", !.managed = FALSE], s)
    [] r.phase = "written" /\ s.tracked # {} -> [r EXCEPT !.step = "untrack", !.tracked = s.tracked, !.rule = "none",
                                                            !.managed = FALSE]
    [] r.phase = "removed" -> Answers(r, "public")
    [] OTHER -> Answers(r, IF s.state = "pending-commit" THEN s.state ELSE "private")

\* isDir, rev-parse; then checkIgnoreRule, managedRule.
FindRule(t) ==
  /\ tab[t].step = "rule"
  /\ Goes(t, IF localDir = "missing" THEN After(tab[t], Status("missing", FALSE, {}))
             ELSE [tab[t] EXCEPT !.step = "list", !.rule = RuleFrom, !.managed = Managed(RuleFrom)])
  /\ UNCHANGED <<Ground, asked, privacyEvents>>

\* privacyStatus, where it has measured all: ls-files and ls-tree, one after the other.
Measured(r, inHead) ==
  LET tracked == IgnoredAmong(indexed) IN
  LET state == PrivacyState(r.rule, tracked, inHead) IN Status(state, CanToggle(state, r.managed), tracked)
ListFiles(t) ==
  /\ tab[t].step = "list" /\ localDir = "there"
  /\ Goes(t, After(tab[t], Measured(tab[t], IgnoredAmong(committed))))
  /\ UNCHANGED <<Ground, asked, privacyEvents>>

\* A call of git that fails or does not answer; where it asks for HEAD, there seems to be none.
MeasureFails(t) ==
  /\ tab[t].step \in {"rule", "list"}
  /\ Event \/ (localDir = "missing" /\ tab[t].step = "list" /\ UNCHANGED privacyEvents)
  /\ LET r == Felt(tab[t], "yes")
     IN \/ Goes(t, After(r, Status("unknown", FALSE, {})))
        \/ r.step = "list" /\ Goes(t, After(r, Measured(r, {})))
  /\ UNCHANGED <<Ground, asked>>

(***************************************************************************)
(* The calls                                                               *)
(***************************************************************************)
\* The button may be out of date.  A page whose answer is fresh is not loaded again.
Ask(t) ==
  /\ tab[t].step = "idle"
  /\ \E op \in {"show", "create", tab[t].button} \ {"none", IF tab[t].shown = "none" THEN "none" ELSE "show"} :
       Goes(t, LET r == [NoCallYet EXCEPT !.op = op, !.before = IF op = "private" THEN indexed ELSE {}]
               IN CASE op = "create" -> [r EXCEPT !.step = "look", !.button = tab[t].button]
                    [] op = "show" -> Measures(r, "answer")
                    [] OTHER -> Measures(r, "first"))
  /\ UNCHANGED <<Ground, asked, privacyEvents>>

\* os.WriteFile cuts the file and fills it.
Cut(t) ==
  /\ tab[t].step = "write"
  /\ IF ignoreFile = "managed"
     THEN Goes(t, Measures(tab[t], "written")) /\ UNCHANGED <<ignoreFile, asked>>
     ELSE IF localDir = "missing"
     THEN Goes(t, Answers(tab[t], "refused")) /\ UNCHANGED <<ignoreFile, asked>>
     ELSE /\ ignoreFile' = "torn" /\ asked' = "none"
          /\ tab' = [Others(t) EXCEPT ![t].step = "fill", ![t].held = TRUE]
  /\ UNCHANGED <<localDir, byDefault, outerRule, indexed, committed, privacyEvents>>
FillRule(t) ==
  /\ tab[t].step = "fill"
  /\ ignoreFile' = IF tab[t].held /\ ignoreFile = "torn" THEN "managed" ELSE ignoreFile
  /\ asked' = IF tab[t].held /\ tab[t].op = "private" THEN "private" ELSE asked
  /\ tab' = [Others(t) EXCEPT ![t] = IF tab[t].op = "private" THEN Measures(tab[t], "written")
                                             ELSE AnswerShown([tab[t] EXCEPT !.told = "created"])]
  /\ UNCHANGED <<localDir, byDefault, outerRule, indexed, committed, privacyEvents>>

\* removeFromIndex: git refuses all when one of the files is no longer there.
Untrack(t) ==
  /\ tab[t].step = "untrack"
  /\ IF tab[t].tracked \subseteq indexed /\ localDir = "there"
     THEN /\ indexed' = indexed \ tab[t].tracked
          /\ tab' = [Others(t) EXCEPT ![t] = Measures([tab[t] EXCEPT !.untracked = tab[t].tracked],
                                                              "untracked")]
     ELSE Goes(t, Answers(tab[t], "refused")) /\ UNCHANGED indexed
  /\ UNCHANGED <<localDir, byDefault, ignoreFile, outerRule, committed, asked, privacyEvents>>

Remove(t) ==
  /\ tab[t].step = "remove"
  /\ ignoreFile' = "none"
  /\ asked' = IF localDir = "there" THEN "public" ELSE asked
  /\ tab' = Dropped([Others(t) EXCEPT ![t] = Measures(tab[t], "removed")])
  /\ UNCHANGED <<localDir, byDefault, outerRule, indexed, committed, privacyEvents>>

\* CreateLocal looks whether the directory is there before it makes it.
LookForDir(t) ==
  /\ tab[t].step = "look"
  /\ Goes(t, [tab[t] EXCEPT !.step = "make", !.fresh = localDir = "missing"])
  /\ UNCHANGED <<Ground, asked, privacyEvents>>
MakeDir(t) ==
  /\ tab[t].step = "make"
  /\ localDir' = "there"
  /\ tab' = [(IF localDir = "missing" THEN Others(t) ELSE tab) EXCEPT ![t].step = "ignore"]
  /\ UNCHANGED <<byDefault, ignoreFile, outerRule, indexed, committed, asked, privacyEvents>>

\* writeIfMissing, where this call has made the directory.
FirstRule(t) ==
  /\ tab[t].step = "ignore"
  /\ IF tab[t].fresh /\ byDefault /\ ignoreFile = "none"
     THEN /\ localDir' = "there" /\ ignoreFile' = "torn"
          /\ asked' = IF tab[t].disturbed = "no" THEN asked ELSE "none"
          /\ tab' = [Others(t) EXCEPT ![t].step = "fill", ![t].held = TRUE]
     ELSE Goes(t, AnswerShown([tab[t] EXCEPT !.told = "created"])) /\ UNCHANGED <<localDir, ignoreFile, asked>>
  /\ UNCHANGED <<byDefault, outerRule, indexed, committed, privacyEvents>>

\* A write, a removal or git rm fails: the call says so and measures once more.
StepFails(t) ==
  /\ tab[t].step \in {"write", "fill", "untrack", "remove", "make"} /\ Event
  /\ Goes(t, IF tab[t].op = "create" THEN AnswerShown([tab[t] EXCEPT !.told = "incomplete"])
             ELSE Answers(Felt(tab[t], "yes"), "refused"))
  /\ UNCHANGED <<Ground, asked>>

\* The server goes; the page is loaded again later.
CallKilled(t) ==
  /\ tab[t].step # "idle" /\ Event
  /\ Goes(t, NoCallYet)
  /\ UNCHANGED <<Ground, asked>>

(***************************************************************************)
(* What people do                                                          *)
(***************************************************************************)
Person == Event /\ tab' = [t \in Tab |-> Felt(tab[t], "person")]
EditRule ==
  /\ Person
  /\ \/ /\ localDir = "there"
        /\ \E file \in IgnoreFiles \ {"torn", ignoreFile} : ignoreFile' = file
        /\ asked' = "none"
        /\ UNCHANGED <<localDir, byDefault, outerRule, indexed, committed>>
     \/ /\ \E outer \in OuterRules \ {outerRule} : outerRule' = outer
        /\ UNCHANGED <<localDir, byDefault, ignoreFile, indexed, committed, asked>>
UseGit ==
  /\ Person
  /\ \/ "note" \notin indexed /\ localDir = "there" /\ indexed' = indexed \cup {"note"} /\ UNCHANGED committed
     \/ indexed # committed /\ committed' = indexed /\ UNCHANGED indexed
     \/ indexed # committed /\ indexed' = committed /\ UNCHANGED committed
  /\ UNCHANGED <<localDir, byDefault, ignoreFile, outerRule, asked>>
DeleteDir ==
  /\ Event /\ tab' = Dropped([t \in Tab |-> Felt(tab[t], "person")])
  /\ localDir = "there" /\ localDir' = "missing" /\ ignoreFile' = "none" /\ asked' = "none"
  /\ UNCHANGED <<byDefault, outerRule, indexed, committed>>

PrivacyStep(t) ==
  \/ Ask(t) \/ FindRule(t) \/ ListFiles(t) \/ MeasureFails(t)
  \/ Cut(t) \/ FillRule(t) \/ Untrack(t) \/ Remove(t) \/ LookForDir(t) \/ MakeDir(t) \/ FirstRule(t)
  \/ StepFails(t) \/ CallKilled(t)
PrivacyNext == (\E t \in Tab : PrivacyStep(t)) \/ EditRule \/ UseGit \/ DeleteDir

PrivacySpec == PrivacyInit /\ [][PrivacyNext]_privacyVars

(***************************************************************************)
(* Properties                                                              *)
(***************************************************************************)
\* A call that has answered, and nobody has done anything in the way since it began.
Quiet(t) == tab[t].step = "idle" /\ tab[t].op # "none" /\ tab[t].disturbed = "no"

\* What the page shows is so: shown as private, nothing that the rules take is in the index or in HEAD and
\* new content stays out; shown as versioned, no rule keeps all new content out.
MeasuredTrue(t) ==
  Quiet(t) /\ tab[t].op # "create" =>
    /\ tab[t].shown = "private" => Ignored("note") /\ \A f \in indexed \cup committed : ~Ignored(f)
    /\ tab[t].shown = "pending-commit" => \A f \in indexed : ~Ignored(f)
    /\ tab[t].shown = "public" => ~Ignored("note") \/ outerRule = "some"

\* SetPrivate: told that the content is private, it is out of the index, by the rule of k-playbook where it was
\* written, and the page says whether a commit is still missing; nothing else has left the index.
SwitchTrue(t) ==
  Quiet(t) /\ tab[t].op = "private" /\ tab[t].told \in {"private", "pending-commit"} =>
    /\ Ignored("note") /\ "note" \notin indexed
    /\ tab[t].shown = (IF \E f \in committed : Ignored(f) THEN "pending-commit" ELSE "private")
    /\ tab[t].shown = "pending-commit" => tab[t].told = "pending-commit"
    /\ tab[t].untracked = tab[t].before \ indexed /\ "README.md" \notin tab[t].untracked

\* Only the managed version is written over or removed, unless a person puts another file in its place meanwhile.
OwnKept(t) ==
  tab[t].step \in {"write", "remove"} /\ tab[t].disturbed # "person" => ignoreFile \notin OwnContent

\* CreateLocal: a directory that has been made public does not get the rule back from a later creation, ...
WishKept == asked = "public" => ignoreFile # "managed"
\* ... and one that a creation has made itself, and that is private by default, has the rule.
DefaultKept(t) ==
  Quiet(t) /\ tab[t].told = "created" /\ tab[t].fresh /\ byDefault => ignoreFile = "managed"

\* What k-playbook says of the privacy of a directory is so when it says it, the switch keeps its word, and
\* nobody's own rules and no wish are lost to it.
PrivacyKept ==
  WishKept /\ \A t \in Tab : MeasuredTrue(t) /\ SwitchTrue(t) /\ OwnKept(t) /\ DefaultKept(t)

=============================================================================
