--------------------------- MODULE ProjectFiles_proof -------------------------
(***************************************************************************)
(* Theorems about the files k-playbook keeps in a project, for any number   *)
(* of calls, people, failing calls and kills: what it says of the privacy   *)
(* of its directory is so when it says it (LocalPrivacy, PrivacyKept), the  *)
(* links of the registry end as they should (RegistryLinks, LinksKept), the *)
(* registration with the assistants touches only what it may                *)
(* (McpRegistration, RegistrationKept), and the settings of the project     *)
(* are not lost (ConfigFile, SettingsSurvive, a part of ConfigKept).        *)
(*                                                                         *)
(* They all work with what they have read before.  The arguments of the      *)
(* first three are alike: whatever changes the ground under a call disturbs *)
(* it, so what an undisturbed call has read still holds, step by step.      *)
(***************************************************************************)
EXTENDS LocalPrivacy, RegistryLinks, McpRegistration, ConfigFile, WellFoundedInduction, TLAPS

(***************************************************************************)
(* The privacy of the local directory (LocalPrivacy).                       *)
(***************************************************************************)
Told == {"none", "refused", "created", "incomplete", "private", "pending-commit", "public"}
Call(r) ==
  /\ DOMAIN r = {"step", "op", "phase", "rule", "managed", "tracked", "fresh", "held", "before", "untracked",
                 "told", "shown", "button", "disturbed"}
  /\ r.step \in {"idle", "rule", "list", "write", "fill", "untrack", "remove", "look", "make", "ignore"}
  /\ r.op \in {"none", "show", "create", "private", "public"}
  /\ r.phase \in {"none", "answer", "first", "written", "untracked", "removed"}
  /\ r.rule \in {"none", "here", "elsewhere"} /\ r.managed \in BOOLEAN /\ r.tracked \in SUBSET DirContent
  /\ r.fresh \in BOOLEAN /\ r.held \in BOOLEAN
  /\ r.before \in SUBSET DirContent /\ r.untracked \in SUBSET DirContent
  /\ r.told \in Told /\ r.shown \in States
  /\ r.button \in {"none", "private", "public"} /\ r.disturbed \in {"no", "yes", "person"}

GroundTypes ==
  /\ localDir \in {"missing", "there"} /\ byDefault \in BOOLEAN
  /\ ignoreFile \in IgnoreFiles /\ outerRule \in OuterRules /\ (localDir = "missing" => ignoreFile = "none")
  /\ indexed \in SUBSET DirContent /\ committed \in SUBSET DirContent
  /\ asked \in {"none", "private", "public"} /\ privacyEvents \in 0..MaxPrivacyEvents
Types == GroundTypes /\ DOMAIN tab = Tab /\ \A t \in Tab : Call(tab[t])

\* Where a call can stand, whatever others do.
Measuring(r) == r.step \in {"rule", "list"}
Shaped(r) ==
  /\ Measuring(r) => r.phase # "none" /\ r.op # "create"
  /\ r.step # "idle" => r.told = "none" \/ (Measuring(r) /\ r.phase = "answer")
  /\ Measuring(r) /\ r.phase = "first" => r.op \in {"private", "public"}
  /\ Measuring(r) /\ r.phase \in {"written", "untracked"} => r.op = "private"
  /\ Measuring(r) /\ r.phase = "removed" => r.op = "public"
  /\ r.step \in {"write", "untrack"} => r.op = "private"
  /\ r.step = "remove" => r.op = "public"
  /\ r.step = "fill" => r.op \in {"private", "create"}
  /\ r.step \in {"look", "make", "ignore"} => r.op = "create"
  /\ r.op = "none" => r.step = "idle" /\ r.told = "none"
  /\ r.told = "created" => r.op = "create"

\* The first measurement found the managed rule, or nothing that is anybody's own; only people change that.
OwnSpared(t) ==
  /\ tab[t].step = "list" /\ tab[t].managed /\ tab[t].disturbed # "person" => ignoreFile \notin OwnContent
  /\ OwnKept(t)

Writing(r) == r.op = "private" /\ r.step \in {"write", "fill"}
Written(r) == r.step = "untrack" \/ (Measuring(r) /\ r.phase \in {"written", "untracked"})

\* What a call that nobody has disturbed has measured.
MeasuredSo(t) ==
  /\ tab[t].step = "list" => localDir = "there" /\ tab[t].rule = RuleFrom /\ tab[t].managed = Managed(RuleFrom)
  /\ tab[t].step = "untrack" => tab[t].tracked = IgnoredAmong(indexed)
  /\ tab[t].step = "idle" /\ tab[t].op \notin {"none", "create"} =>
       tab[t].shown = IF localDir = "missing" THEN "missing"
                      ELSE PrivacyState(RuleFrom, IgnoredAmong(indexed), IgnoredAmong(committed))

\* How far the switch to private has come.
SwitchedSo(t) ==
  /\ Writing(tab[t]) \/ Written(tab[t]) => localDir = "there" /\ outerRule # "directory"
  /\ tab[t].step = "write" => ignoreFile \in {"none", "managed"}
  /\ Written(tab[t]) => ignoreFile = "managed"
  /\ Writing(tab[t]) \/ tab[t].step = "untrack"
     \/ (tab[t].op = "private" /\ Measuring(tab[t]) /\ tab[t].phase \in {"first", "written"})
       => tab[t].before = indexed /\ tab[t].untracked = {}
  /\ Measuring(tab[t]) /\ tab[t].phase = "untracked" =>
       IgnoredAmong(indexed) = {} /\ tab[t].untracked = tab[t].before \ indexed /\ "README.md" \notin tab[t].untracked
  /\ tab[t].op = "private" /\ tab[t].told \in {"private", "pending-commit"} =>
       /\ localDir = "there" /\ RuleFrom # "none" /\ Ignored("note") /\ IgnoredAmong(indexed) = {}
       /\ tab[t].told = "private" => IgnoredAmong(committed) = {}
       /\ tab[t].untracked = tab[t].before \ indexed /\ "README.md" \notin tab[t].untracked

\* How far the first creation has come.
CreatedSo(t) ==
  /\ tab[t].step = "fill" => tab[t].held /\ ignoreFile = "torn" /\ localDir = "there"
  /\ tab[t].step \in {"make", "ignore"} /\ tab[t].fresh => ignoreFile = "none" /\ asked # "public"
  /\ DefaultKept(t)

Undisturbed(t) == tab[t].disturbed = "no" => MeasuredSo(t) /\ SwitchedSo(t) /\ CreatedSo(t)

\* Nobody has asked for a directory that is not there to be public, and the rule
\* half written is one that nobody has asked to go.
WishNoted == asked = "public" => localDir = "there" /\ ignoreFile \notin {"managed", "torn"}

Sound(t) == Shaped(tab[t]) /\ OwnSpared(t) /\ Undisturbed(t)

PInv == Types /\ WishNoted /\ \A t \in Tab : Sound(t)

-----------------------------------------------------------------------------
(* What the operators do to a call.                                        *)

LEMMA NoCallType == Call(NoCallYet)
  BY DEF Call, NoCallYet, States, Told

LEMMA StaleEffect ==
  ASSUME NEW r, Call(r)
  PROVE  LET q == Stale(r) IN
         Call(q) /\ q.step = "idle" /\ q.op = "none" /\ q.told = "none" /\ q.disturbed = "no"
  BY NoCallType DEF Stale, Call, NoCallYet

\* A call under way that is disturbed goes on with the step it has reached.
LEMMA FeltEffect ==
  ASSUME NEW r, Call(r), NEW by \in {"yes", "person"}
  PROVE  LET q == Felt(r, by) IN
         /\ Call(q)
         /\ r.step = "idle" => q.step = "idle" /\ q.op = "none" /\ q.told = "none" /\ q.disturbed = "no"
         /\ r.step # "idle" => /\ q.step = r.step /\ q.op = r.op /\ q.phase = r.phase /\ q.told = r.told
                               /\ q.managed = r.managed /\ q.disturbed # "no"
                               /\ q.disturbed # "person" => r.disturbed # "person" /\ by # "person"
  BY StaleEffect DEF Felt, Call

LEMMA MeasuresEffect ==
  ASSUME NEW r, Call(r), NEW phase \in {"answer", "first", "written", "untracked", "removed"}
  PROVE  LET q == Measures(r, phase) IN
         /\ Call(q) /\ q.step = "rule" /\ q.phase = phase /\ ~q.managed
         /\ q.op = r.op /\ q.told = r.told /\ q.disturbed = r.disturbed
         /\ q.before = r.before /\ q.untracked = r.untracked
  BY DEF Measures, Call

\* A disturbed call says nothing of what it did, it shows what it measures.
LEMMA AnswersEffect ==
  ASSUME NEW r, Call(r), NEW told \in Told
  PROVE  LET q == Answers(r, told) IN
         /\ Call(q) /\ q.step = "rule" /\ q.phase = "answer" /\ ~q.managed /\ q.disturbed = r.disturbed
         /\ r.disturbed = "no" => /\ q.op = r.op /\ q.told = told
                                  /\ q.before = r.before /\ q.untracked = r.untracked
         /\ r.disturbed # "no" => q.op = "show" /\ q.told = "none"
<1>1. CASE r.disturbed = "no"
  BY <1>1 DEF Answers, Measures, Call
<1>2. CASE r.disturbed # "no"
  <2>1. Call([NoCallYet EXCEPT !.op = "show", !.disturbed = r.disturbed])
    BY NoCallType DEF Call
  <2>2. /\ [NoCallYet EXCEPT !.op = "show", !.disturbed = r.disturbed].op = "show"
        /\ [NoCallYet EXCEPT !.op = "show", !.disturbed = r.disturbed].disturbed = r.disturbed
        /\ [NoCallYet EXCEPT !.op = "show", !.disturbed = r.disturbed].told = "none"
    BY DEF NoCallYet
  <2>3. Answers(r, told) = Measures([NoCallYet EXCEPT !.op = "show", !.disturbed = r.disturbed], "answer")
    BY <1>2, Zenon DEF Answers
  <2> DEFINE shown == [NoCallYet EXCEPT !.op = "show", !.disturbed = r.disturbed]
  <2>4. LET q == Measures(shown, "answer") IN
        /\ Call(q) /\ q.step = "rule" /\ q.phase = "answer" /\ ~q.managed
        /\ q.op = shown.op /\ q.told = shown.told /\ q.disturbed = shown.disturbed
    <3> HIDE DEF shown
    <3> QED
      BY <2>1, MeasuresEffect DEF shown
  <2> QED
    BY <1>2, <2>2, <2>3, <2>4
<1> QED
  BY <1>1, <1>2

LEMMA AnswerShownEffect ==
  ASSUME NEW r, Call(r)
  PROVE  LET q == AnswerShown(r) IN
         /\ Call(q) /\ q.step = "idle" /\ q.disturbed = "no"
         /\ r.disturbed = "no" => /\ q.op = r.op /\ q.told = r.told /\ q.fresh = r.fresh /\ q.shown = r.shown
                                  /\ q.before = r.before /\ q.untracked = r.untracked
         /\ r.disturbed # "no" => q.op = "none" /\ q.told = "none"
  BY StaleEffect DEF AnswerShown, Call

-----------------------------------------------------------------------------
(* What a call does to the others.                                         *)

\* Nothing has changed for a call, or something has and it is disturbed.
LeftAlone(u) == tab'[u] = tab[u] /\ UNCHANGED <<Ground, asked>>
Displaced(u) ==
  /\ \E by \in {"yes", "person"} :
       /\ tab'[u] \in {Felt(tab[u], by), [Felt(tab[u], by) EXCEPT !.held = FALSE]}
       /\ by = "person" \/ ignoreFile' = ignoreFile \/ ignoreFile' \notin OwnContent

LEMMA LeftAloneSound ==
  ASSUME NEW u \in Tab, Call(tab[u]), Sound(u), LeftAlone(u)
  PROVE  Call(tab[u])' /\ Sound(u)'
<1>1. /\ tab'[u] = tab[u] /\ ignoreFile' = ignoreFile /\ outerRule' = outerRule /\ localDir' = localDir
      /\ indexed' = indexed /\ committed' = committed /\ byDefault' = byDefault /\ asked' = asked
  BY DEF LeftAlone, Ground
<1>2. Call(tab[u])' /\ Shaped(tab[u])' /\ OwnSpared(u)'
  BY <1>1 DEF Call, Sound, Shaped, Measuring, OwnSpared, OwnKept
<1>3. Undisturbed(u)'
  <2>1. /\ RuleFrom' = RuleFrom /\ Managed(RuleFrom)' = Managed(RuleFrom)
        /\ IgnoredAmong(indexed)' = IgnoredAmong(indexed) /\ IgnoredAmong(committed)' = IgnoredAmong(committed)
        /\ Ignored("note")' = Ignored("note")
    BY <1>1 DEF RuleFrom, Managed, Ignored, IgnoredAmong
  <2>2. CASE tab[u].disturbed = "no"
    <3>1. MeasuredSo(u)'
      BY <1>1, <2>1, <2>2 DEF Sound, Undisturbed, MeasuredSo, PrivacyState
    <3>2. SwitchedSo(u)'
      BY <1>1, <2>1, <2>2 DEF Sound, Undisturbed, SwitchedSo, Measuring, Writing, Written
    <3>3. CreatedSo(u)'
      BY <1>1, <2>2 DEF Sound, Undisturbed, CreatedSo, DefaultKept, Quiet
    <3> QED
      BY <3>1, <3>2, <3>3 DEF Undisturbed
  <2> QED
    BY <1>1, <2>2 DEF Undisturbed
<1> QED
  BY <1>2, <1>3 DEF Sound

LEMMA DisplacedSound ==
  ASSUME NEW u \in Tab, Call(tab[u]), Sound(u), Displaced(u)
  PROVE  Call(tab[u])' /\ Sound(u)'
<1>1. PICK by \in {"yes", "person"} :
        /\ tab'[u] \in {Felt(tab[u], by), [Felt(tab[u], by) EXCEPT !.held = FALSE]}
        /\ by = "person" \/ ignoreFile' = ignoreFile \/ ignoreFile' \notin OwnContent
  BY DEF Displaced
<1> DEFINE r == tab[u]
           q == tab'[u]
<1>2. /\ Call(q)
      /\ r.step = "idle" => q.step = "idle" /\ q.op = "none" /\ q.told = "none" /\ q.disturbed = "no"
      /\ r.step # "idle" => /\ q.step = r.step /\ q.op = r.op /\ q.phase = r.phase /\ q.told = r.told
                            /\ q.managed = r.managed /\ q.disturbed # "no"
                            /\ q.disturbed # "person" => r.disturbed # "person" /\ by # "person"
  <2>1. CASE q = Felt(r, by)
    BY <2>1, FeltEffect
  <2>2. CASE q = [Felt(r, by) EXCEPT !.held = FALSE]
    BY <2>2, FeltEffect DEF Call
  <2> QED
    BY <1>1, <2>1, <2>2
<1>3. Shaped(tab[u])' /\ OwnSpared(u)'
  BY <1>1, <1>2 DEF Call, Sound, Shaped, OwnSpared, OwnKept, Measuring
<1>4. Undisturbed(u)'
  BY <1>2 DEF Sound, Undisturbed, MeasuredSo, SwitchedSo, CreatedSo, DefaultKept, Quiet, Measuring, Writing, Written, Call
<1> QED
  BY <1>2, <1>3, <1>4 DEF Sound, Call

-----------------------------------------------------------------------------
(* How a measurement ends.                                                 *)

Measurement(s) == s.state \in States /\ s.can \in BOOLEAN /\ s.tracked \in SUBSET DirContent

\* Where a call goes on after it has measured, and what it remembers.
LEMMA AfterEffect ==
  ASSUME NEW r, Call(r), Shaped(r), Measuring(r),
         NEW s, Measurement(s), NEW q, q = After(r, s)
  PROVE
         /\ Call(q) /\ Shaped(q) /\ q.step \in {"idle", "rule", "write", "remove", "untrack"}
         /\ q.step \in {"write", "remove"} =>
              /\ r.phase = "first" /\ s.can /\ s.state \notin Reached(r.op)
              /\ s.state \notin Unmeasured /\ q.disturbed = r.disturbed
         /\ q.step \in {"rule", "untrack"} => q.disturbed = r.disturbed
         /\ r.disturbed # "no" => q.step # "idle" \/ q.op = "none"
         /\ r.disturbed = "no" =>
              /\ q.disturbed = "no" /\ q.op = r.op /\ q.before = r.before /\ q.untracked = r.untracked
              /\ r.phase = "answer" => q.step = "idle" /\ q.told = r.told /\ q.shown = s.state
              /\ r.phase # "answer" => q.step # "idle"
              /\ q.step = "rule" => q.phase = "answer"
              /\ q.step = "rule" /\ q.told \in {"private", "pending-commit"} =>
                   \/ r.phase = "first" /\ s.state = q.told
                   \/ /\ r.phase = "untracked" \/ (r.phase = "written" /\ s.tracked = {})
                      /\ q.told = "pending-commit" <=> s.state = "pending-commit"
              /\ q.step = "untrack" => r.phase = "written" /\ q.tracked = s.tracked
<1>1. CASE r.phase = "answer"
  <2> DEFINE m == [r EXCEPT !.shown = s.state, !.button = Offer(s)]
  <2>1. Offer(s) \in {"none", "private", "public"}
    BY DEF Offer
  <2>2. Call(m)
    BY <2>1 DEF Call, Measurement
  <2>3. /\ m.shown = s.state /\ m.op = r.op /\ m.told = r.told /\ m.before = r.before
        /\ m.untracked = r.untracked /\ m.disturbed = r.disturbed
    BY DEF Call
  <2>4. q = AnswerShown(m)
    BY <1>1 DEF After
  <2> HIDE DEF m
  <2>5. Shaped(q)
    BY <2>2, <2>3, <2>4, AnswerShownEffect DEF Shaped, Measuring
  <2> QED
    BY <1>1, <2>2, <2>3, <2>4, <2>5, AnswerShownEffect
<1>2. CASE r.phase = "first"
  <2> DEFINE m == [r EXCEPT !.rule = "none", !.managed = FALSE]
  <2>1. Call(m)
    BY DEF Call
  <2>2. /\ m.op = r.op /\ m.told = "none" /\ m.before = r.before /\ m.untracked = r.untracked
        /\ m.disturbed = r.disturbed /\ m.op \in {"private", "public"}
    BY <1>2 DEF Call, Shaped, Measuring
  <2>3. q = Switch(m, s)
    BY <1>2 DEF After
  <2> HIDE DEF m
  <2>4. CASE q = Answers(m, "refused")
    BY <2>1, <2>2, <2>4, AnswersEffect, <1>2 DEF Told, Shaped, Measuring
  <2>5. CASE s.state \in Reached(r.op) /\ q = Answers(m, s.state)
    BY <2>5, <2>1, <2>2, AnswersEffect, <1>2 DEF Reached, Told, Shaped, Measuring
  <2>6. CASE /\ s.state \notin Unmeasured /\ s.state \notin Reached(r.op) /\ s.can
             /\ q = [m EXCEPT !.step = IF m.op = "private" THEN "write" ELSE "remove"]
    BY <2>1, <2>6, <2>2, <1>2 DEF Call, Shaped, Measuring
  <2> QED
    BY <2>2, <2>3, <2>4, <2>5, <2>6 DEF Switch
<1>3. CASE r.phase = "written" /\ s.tracked # {}
  BY <1>3 DEF After, Call, Measurement, Shaped, Measuring
<1>4. CASE r.phase = "removed"
  BY <1>4, AnswersEffect DEF After, Told, Shaped, Measuring
<1>5. CASE r.phase = "untracked" \/ (r.phase = "written" /\ s.tracked = {})
  <2> DEFINE told == IF s.state = "pending-commit" THEN s.state ELSE "private"
  <2>1. q = Answers(r, told)
    BY <1>5 DEF After
  <2>2. told \in {"private", "pending-commit"} /\ (told = "pending-commit" <=> s.state = "pending-commit")
    OBVIOUS
  <2> HIDE DEF told
  <2>3. Shaped(q)
    BY <1>5, <2>1, <2>2, AnswersEffect DEF Told, Shaped, Measuring
  <2> QED
    BY <1>5, <2>1, <2>2, <2>3, AnswersEffect DEF Told
<1> QED
  BY <1>1, <1>2, <1>3, <1>4, <1>5 DEF Call, Shaped

-----------------------------------------------------------------------------
(* The steps.                                                              *)

\* A step of t keeps all if t stays sound and the others are left alone or displaced.
LEMMA StepEnough ==
  ASSUME PInv, NEW t \in Tab, GroundTypes', WishNoted', DOMAIN tab' = Tab, Call(tab[t])', Sound(t)',
         \A u \in Tab \ {t} : LeftAlone(u) \/ Displaced(u)
  PROVE  PInv'
<1>1. ASSUME NEW u \in Tab, u # t PROVE Call(tab[u])' /\ Sound(u)'
  BY <1>1, LeftAloneSound, DisplacedSound DEF PInv, Types
<1> QED
  BY <1>1 DEF PInv, Types

\* A step that only t notices.
LEMMA GoesEnough ==
  ASSUME PInv, NEW t \in Tab, NEW q, Goes(t, q), UNCHANGED <<Ground, asked>>, privacyEvents' \in 0..MaxPrivacyEvents,
         tab'[t] = q => Call(tab[t])' /\ Sound(t)'
  PROVE  PInv'
  BY StepEnough DEF Goes, PInv, Types, LeftAlone, Ground, GroundTypes, WishNoted

\* A step of t that changes the ground displaces all others.
LEMMA OthersEnough ==
  ASSUME PInv, NEW t \in Tab, DOMAIN tab' = Tab,
         \A u \in Tab \ {t} : tab'[u] \in {Felt(tab[u], "yes"), [Felt(tab[u], "yes") EXCEPT !.held = FALSE]},
         ignoreFile' = ignoreFile \/ ignoreFile' \notin OwnContent,
         GroundTypes', WishNoted', Call(tab[t])', Sound(t)'
  PROVE  PInv'
<1>1. \A u \in Tab \ {t} : Displaced(u)
  BY DEF Displaced
<1> QED
  BY <1>1, StepEnough

\* A call that measures, and has found nothing yet.
LEMMA AskSound ==
  ASSUME PInv, NEW t \in Tab, Ask(t)
  PROVE  PInv'
<1>1. PICK op \in {"show", "create", tab[t].button} \ {"none"} :
        Goes(t, LET r == [NoCallYet EXCEPT !.op = op, !.before = IF op = "private" THEN indexed ELSE {}]
                IN CASE op = "create" -> [r EXCEPT !.step = "look", !.button = tab[t].button]
                     [] op = "show" -> Measures(r, "answer")
                     [] OTHER -> Measures(r, "first"))
  BY DEF Ask
<1> DEFINE r == [NoCallYet EXCEPT !.op = op, !.before = IF op = "private" THEN indexed ELSE {}]
<1>2. op \in {"show", "create", "private", "public"} /\ Call(tab[t]) /\ indexed \in SUBSET DirContent
  BY <1>1 DEF PInv, Types, GroundTypes, Call
<1>3. /\ Call(r) /\ r.op = op /\ r.told = "none" /\ r.disturbed = "no" /\ r.untracked = {}
      /\ op = "private" => r.before = indexed
  BY <1>2, NoCallType DEF Call, NoCallYet
<1> HIDE DEF r
<1>4. UNCHANGED <<Ground, asked>> /\ privacyEvents' \in 0..MaxPrivacyEvents
  BY DEF Ask, PInv, Types, GroundTypes
<1>5. CASE op = "create"
  <2> DEFINE q == [r EXCEPT !.step = "look", !.button = tab[t].button]
  <2>1. Goes(t, q)
    BY <1>1, <1>5 DEF r
  <2>2. Call(q) /\ q.step = "look" /\ q.op = "create" /\ q.told = "none" /\ q.disturbed = "no"
    BY <1>2, <1>3, <1>5 DEF Call
  <2> HIDE DEF q
  <2>3. ASSUME tab'[t] = q PROVE Call(tab[t])' /\ Sound(t)'
    BY <2>2, <2>3 DEF Sound, Shaped, OwnSpared, OwnKept, Undisturbed, MeasuredSo, SwitchedSo, CreatedSo,
                      DefaultKept, Quiet, Measuring, Writing, Written
  <2> QED
    BY <1>4, <2>1, <2>3, GoesEnough
<1>6. CASE op # "create"
  <2> DEFINE phase == IF op = "show" THEN "answer" ELSE "first"
             q == Measures(r, phase)
  <2>1. Goes(t, q)
    BY <1>1, <1>6 DEF r
  <2>2. /\ Call(q) /\ q.step = "rule" /\ q.op = op /\ q.told = "none" /\ q.disturbed = "no" /\ q.phase = phase
        /\ q.untracked = {} /\ (op = "private" => q.before = indexed)
    BY <1>2, <1>3, <1>6, MeasuresEffect
  <2>3. phase \in {"answer", "first"} /\ (phase = "answer" <=> op = "show")
    BY <1>2, <1>6
  <2> HIDE DEF q, phase
  <2>4. ASSUME tab'[t] = q PROVE Call(tab[t])' /\ Sound(t)'
    <3>1. Shaped(tab[t])' /\ OwnSpared(t)'
      BY <1>2, <1>6, <2>2, <2>3, <2>4 DEF Shaped, OwnSpared, OwnKept, Measuring
    <3>2. Undisturbed(t)'
      BY <1>2, <1>4, <1>6, <2>2, <2>3, <2>4
      DEF Undisturbed, MeasuredSo, SwitchedSo, CreatedSo, DefaultKept, Quiet, Measuring, Writing, Written, Ground
    <3> QED
      BY <2>2, <2>4, <3>1, <3>2 DEF Sound
  <2> QED
    BY <1>4, <2>1, <2>4, GoesEnough
<1> QED
  BY <1>5, <1>6

\* A measurement that ends: what the call then knows has been measured, or it has been disturbed.
LEMMA AfterSound ==
  ASSUME PInv, NEW t \in Tab, NEW r, NEW s, Goes(t, After(r, s)), UNCHANGED <<Ground, asked>>,
         privacyEvents' \in 0..MaxPrivacyEvents,
         Call(r), Shaped(r), Measuring(r), Measurement(s),
         r.disturbed # "person" /\ s.can => ignoreFile \notin OwnContent,
         r.disturbed = "no" =>
           /\ r = tab[t]
           /\ \/ localDir = "missing" /\ s.state = "missing"
              \/ /\ localDir = "there" /\ tab[t].step = "list"
                 /\ s = Measured(tab[t], IgnoredAmong(committed))
  PROVE  PInv'
<1> DEFINE q == After(r, s)
<1>1. Call(tab[t]) /\ Sound(t) /\ GroundTypes
  BY DEF PInv, Types
<1>2. q = After(r, s)
  OBVIOUS
<1> HIDE DEF q
<1>3. Call(q) /\ Shaped(q) /\ q.step \in {"idle", "rule", "write", "remove", "untrack"}
  BY <1>2, AfterEffect
<1>4. ASSUME tab'[t] = q PROVE OwnSpared(t)'
  BY <1>2, <1>3, <1>4, AfterEffect DEF OwnSpared, OwnKept, Ground
<1>5. ASSUME q.disturbed = "no", r.disturbed # "no" PROVE q.step = "idle" /\ q.op = "none" /\ q.told = "none"
  BY <1>2, <1>5, AfterEffect, <1>3 DEF Shaped
<1>6. ASSUME tab'[t] = q, r.disturbed # "no" PROVE Undisturbed(t)'
  BY <1>3, <1>5, <1>6 DEF Undisturbed, MeasuredSo, SwitchedSo, CreatedSo, DefaultKept, Quiet, Measuring, Writing, Written
<1>7. ASSUME tab'[t] = q, r.disturbed = "no" PROVE Undisturbed(t)'
  <2>1. /\ r = tab[t] /\ tab[t].disturbed = "no" /\ MeasuredSo(t) /\ SwitchedSo(t)
    BY <1>1, <1>7 DEF Sound, Undisturbed
  <2>2. /\ q.op = r.op /\ q.before = r.before /\ q.untracked = r.untracked
        /\ r.phase = "answer" => q.step = "idle" /\ q.told = r.told /\ q.shown = s.state
        /\ r.phase # "answer" => q.step # "idle"
        /\ q.step = "rule" => q.phase = "answer"
        /\ q.step = "rule" /\ q.told \in {"private", "pending-commit"} =>
             \/ r.phase = "first" /\ s.state = q.told
             \/ /\ r.phase = "untracked" \/ (r.phase = "written" /\ s.tracked = {})
                /\ q.told = "pending-commit" <=> s.state = "pending-commit"
        /\ q.step = "untrack" => r.phase = "written" /\ q.tracked = s.tracked
        /\ q.step \in {"write", "remove"} => /\ r.phase = "first" /\ s.can /\ s.state \notin Reached(r.op)
                                             /\ s.state \notin Unmeasured
    BY <1>2, <1>7, AfterEffect
  <2>3. r.op # "create" /\ (r.phase = "first" => r.told = "none")
    BY <2>1 DEF Shaped, Measuring
  <2>4. CASE localDir = "missing" /\ s.state = "missing"
    <3>1. ~Written(r)
      BY <2>1, <2>4 DEF SwitchedSo
    <3>2. q.step \in {"idle", "rule"} /\ (q.step = "rule" => q.told \notin {"private", "pending-commit"})
      BY <1>3, <2>2, <2>4, <3>1 DEF Unmeasured, Written, Measuring
    <3>3. MeasuredSo(t)'
      BY <1>7, <2>1, <2>2, <2>3, <2>4, <3>2 DEF MeasuredSo, Ground, Measuring
    <3>4. SwitchedSo(t)'
      BY <1>7, <2>1, <2>2, <2>3, <2>4, <3>2 DEF SwitchedSo, Measuring, Writing, Written, Ground
    <3>5. CreatedSo(t)'
      BY <1>3, <1>7, <2>2, <2>3, <3>2 DEF CreatedSo, DefaultKept, Quiet, Shaped
    <3> QED
      BY <3>3, <3>4, <3>5 DEF Undisturbed
  <2>5. CASE localDir = "there" /\ tab[t].step = "list" /\ s = Measured(tab[t], IgnoredAmong(committed))
    <3>1. /\ s.state = PrivacyState(RuleFrom, IgnoredAmong(indexed), IgnoredAmong(committed))
          /\ s.can = CanToggle(s.state, Managed(RuleFrom)) /\ s.tracked = IgnoredAmong(indexed)
      BY <2>1, <2>5 DEF MeasuredSo, Measured, Status
    <3>2. /\ s.state \in {"public", "partial", "private", "pending-commit"}
          /\ s.state = "public" <=> RuleFrom = "none"
          /\ s.state \in {"private", "pending-commit"} <=> RuleFrom # "none" /\ IgnoredAmong(indexed) = {}
          /\ s.state = "private" => IgnoredAmong(committed) = {}
          /\ s.state # "pending-commit" /\ RuleFrom # "none" /\ IgnoredAmong(indexed) = {} => IgnoredAmong(committed) = {}
      BY <3>1 DEF PrivacyState
    <3>3. /\ RuleFrom # "none" => Ignored("note")
          /\ RuleFrom = "none" => outerRule # "directory"
          /\ Managed(RuleFrom) => outerRule # "directory" /\ ignoreFile = "managed"
          /\ outerRule # "directory" /\ ignoreFile = "managed" => RuleFrom = "here" /\ ~Ignored("README.md")
      <4>1. CASE outerRule = "directory"
        BY <4>1 DEF RuleFrom, Managed, Ignored
      <4>2. CASE outerRule # "directory" /\ ignoreFile = "managed"
        BY <4>2 DEF RuleFrom, Ignored
      <4>3. CASE outerRule # "directory" /\ ignoreFile # "managed"
        BY <4>3 DEF RuleFrom, Ignored, Managed
      <4> QED
        BY <4>1, <4>2, <4>3
    <3>4. s.can => ignoreFile \in {"none", "managed"} /\ outerRule # "directory"
      BY <3>1, <3>2, <3>3 DEF CanToggle
    <3>5. MeasuredSo(t)'
      <4>1. /\ RuleFrom' = RuleFrom /\ IgnoredAmong(indexed)' = IgnoredAmong(indexed)
            /\ IgnoredAmong(committed)' = IgnoredAmong(committed)
        BY DEF Ground, RuleFrom, IgnoredAmong, Ignored
      <4>2. q.step = "untrack" => q.tracked = IgnoredAmong(indexed)
        BY <2>2, <3>1
      <4>3. q.step = "idle" => q.shown = PrivacyState(RuleFrom, IgnoredAmong(indexed), IgnoredAmong(committed))
        BY <2>2, <3>1
      <4> QED
        BY <1>3, <1>7, <2>5, <4>1, <4>2, <4>3 DEF MeasuredSo, Ground, PrivacyState
    <3>6. SwitchedSo(t)'
      <4>1. /\ RuleFrom' = RuleFrom /\ Ignored("note")' = Ignored("note") /\ IgnoredAmong(indexed)' = IgnoredAmong(indexed)
            /\ IgnoredAmong(committed)' = IgnoredAmong(committed)
            /\ localDir' = localDir /\ outerRule' = outerRule /\ ignoreFile' = ignoreFile /\ indexed' = indexed
        BY DEF Ground, RuleFrom, IgnoredAmong, Ignored
      <4>2. q.op = "private" /\ q.told \in {"private", "pending-commit"} =>
              /\ localDir = "there" /\ RuleFrom # "none" /\ Ignored("note") /\ IgnoredAmong(indexed) = {}
              /\ q.told = "private" => IgnoredAmong(committed) = {}
              /\ q.untracked = q.before \ indexed /\ "README.md" \notin q.untracked
        <5> SUFFICES ASSUME q.op = "private", q.told \in {"private", "pending-commit"}
                     PROVE  /\ localDir = "there" /\ RuleFrom # "none" /\ Ignored("note") /\ IgnoredAmong(indexed) = {}
                            /\ q.told = "private" => IgnoredAmong(committed) = {}
                            /\ q.untracked = q.before \ indexed /\ "README.md" \notin q.untracked
          OBVIOUS
        <5>1. CASE q.step = "idle"
          BY <2>2, <5>1, <2>1 DEF SwitchedSo
        <5>2. CASE q.step = "rule" /\ r.phase = "first" /\ s.state = q.told
          BY <2>1, <2>2, <2>5, <5>2, <3>2, <3>3 DEF SwitchedSo, Measuring
        <5>3. CASE /\ q.step = "rule" /\ (r.phase = "untracked" \/ (r.phase = "written" /\ s.tracked = {}))
                   /\ q.told = "pending-commit" <=> s.state = "pending-commit"
          <6>1. outerRule # "directory" /\ ignoreFile = "managed"
            BY <2>1, <2>5, <5>3 DEF SwitchedSo, Measuring, Written
          <6>2. IgnoredAmong(indexed) = {}
            BY <2>1, <2>5, <3>1, <5>3 DEF SwitchedSo, Measuring
          <6>3. q.untracked = q.before \ indexed /\ "README.md" \notin q.untracked
            BY <2>1, <2>2, <2>5, <5>3 DEF SwitchedSo, Measuring
          <6> QED
            BY <2>5, <3>2, <3>3, <5>3, <6>1, <6>2, <6>3
        <5>4. q.step \in {"write", "remove", "untrack"} => q.told = "none"
          BY <1>3 DEF Shaped, Measuring
        <5> QED
          BY <1>3, <2>2, <5>1, <5>2, <5>3, <5>4
      <4>3. Writing(q) => ignoreFile \in {"none", "managed"} /\ outerRule # "directory" /\ q.before = indexed /\ q.untracked = {}
        BY <1>3, <2>2, <2>1, <2>5, <3>4 DEF Writing, SwitchedSo, Measuring
      <4>4. q.step = "untrack" => /\ r.phase = "written" /\ outerRule # "directory" /\ ignoreFile = "managed"
                                  /\ q.before = indexed /\ q.untracked = {}
        BY <2>1, <2>5, <2>2 DEF Shaped, Measuring, SwitchedSo, Written
      <4>5. Measuring(q) => q.phase = "answer"
        BY <1>3, <2>2 DEF Measuring
      <4>6. Written(q) => q.step = "untrack"
        BY <4>5 DEF Written
      <4>7. q.step = "write" => Writing(q)
        BY <1>3 DEF Writing, Shaped
      <4> QED
        BY <1>7, <2>5, <4>1, <4>2, <4>3, <4>4, <4>5, <4>6, <4>7 DEF SwitchedSo
    <3>7. CreatedSo(t)'
      BY <1>3, <1>7, <2>2, <2>3 DEF CreatedSo, DefaultKept, Quiet, Shaped
    <3> QED
      BY <3>5, <3>6, <3>7 DEF Undisturbed
  <2> QED
    BY <1>7, <2>4, <2>5
<1>8. ASSUME tab'[t] = q PROVE Call(tab[t])' /\ Sound(t)'
  BY <1>3, <1>8, <1>4, <1>6, <1>7 DEF Sound
<1> QED
  BY <1>2, <1>8, GoesEnough

LEMMA FindRuleSound ==
  ASSUME PInv, NEW t \in Tab, FindRule(t)
  PROVE  PInv'
<1>1. /\ UNCHANGED <<Ground, asked>> /\ privacyEvents' \in 0..MaxPrivacyEvents
      /\ Call(tab[t]) /\ Sound(t) /\ Shaped(tab[t]) /\ Measuring(tab[t]) /\ tab[t].step = "rule" /\ GroundTypes
  BY DEF FindRule, PInv, Types, GroundTypes, Sound, Measuring
<1>2. CASE localDir = "missing"
  <2> DEFINE s == Status("missing", FALSE, {})
  <2>1. Measurement(s) /\ ~s.can /\ s.state = "missing"
    BY DEF Status, Measurement, States
  <2>2. Goes(t, After(tab[t], s))
    BY <1>2 DEF FindRule
  <2> HIDE DEF s
  <2> QED
    BY <1>1, <1>2, <2>1, <2>2, AfterSound
<1>3. CASE localDir # "missing"
  <2> DEFINE q == [tab[t] EXCEPT !.step = "list", !.rule = RuleFrom, !.managed = Managed(RuleFrom)]
  <2>1. Goes(t, q) /\ localDir = "there"
    BY <1>1, <1>3 DEF FindRule, GroundTypes
  <2>2. RuleFrom \in {"none", "here", "elsewhere"} /\ Managed(RuleFrom) \in BOOLEAN
        /\ (Managed(RuleFrom) => ignoreFile = "managed")
    BY DEF RuleFrom, Managed
  <2>3. /\ Call(q) /\ q.step = "list" /\ q.rule = RuleFrom /\ q.managed = Managed(RuleFrom)
        /\ q.op = tab[t].op /\ q.phase = tab[t].phase /\ q.told = tab[t].told /\ q.before = tab[t].before
        /\ q.untracked = tab[t].untracked /\ q.disturbed = tab[t].disturbed
    BY <1>1, <2>2 DEF Call
  <2> HIDE DEF q
  <2>4. ASSUME tab'[t] = q PROVE Call(tab[t])' /\ Sound(t)'
    <3>1. /\ RuleFrom' = RuleFrom /\ Managed(RuleFrom)' = Managed(RuleFrom) /\ localDir' = localDir
          /\ outerRule' = outerRule /\ ignoreFile' = ignoreFile /\ indexed' = indexed
          /\ IgnoredAmong(indexed)' = IgnoredAmong(indexed) /\ IgnoredAmong(committed)' = IgnoredAmong(committed)
          /\ Ignored("note")' = Ignored("note")
      BY <1>1 DEF Ground, RuleFrom, Managed, IgnoredAmong, Ignored
    <3>2. Shaped(tab[t])'
      BY <1>1, <2>3, <2>4 DEF Shaped, Measuring
    <3>3. OwnSpared(t)'
      BY <2>2, <2>3, <2>4, <3>1 DEF OwnSpared, OwnKept, OwnContent
    <3>4. ASSUME tab[t].disturbed = "no" PROVE Undisturbed(t)'
      <4>1. SwitchedSo(t)
        BY <1>1, <3>4 DEF Sound, Undisturbed
      <4>2. MeasuredSo(t)'
        BY <2>1, <2>3, <2>4, <3>1 DEF MeasuredSo
      <4>3. SwitchedSo(t)'
        BY <1>1, <2>3, <2>4, <3>1, <4>1 DEF SwitchedSo, Measuring, Writing, Written
      <4>4. CreatedSo(t)'
        BY <2>3, <2>4 DEF CreatedSo, DefaultKept, Quiet
      <4> QED
        BY <4>2, <4>3, <4>4 DEF Undisturbed
    <3>5. tab[t].disturbed # "no" => Undisturbed(t)'
      BY <2>3, <2>4 DEF Undisturbed
    <3> QED
      BY <2>3, <2>4, <3>2, <3>3, <3>4, <3>5 DEF Sound
  <2> QED
    BY <1>1, <2>1, <2>4, GoesEnough
<1> QED
  BY <1>2, <1>3

\* What a measurement may find, and what it says of the button.
LEMMA MeasuredType ==
  ASSUME GroundTypes, NEW r, Call(r), NEW head
  PROVE  /\ Measurement(Measured(r, head))
         /\ Measured(r, head).can => ignoreFile \in {"none", "managed"} \/ r.managed
<1> DEFINE tracked == IgnoredAmong(indexed)
           state == PrivacyState(r.rule, tracked, head)
<1>1. Measured(r, head) = [state |-> state, can |-> CanToggle(state, r.managed), tracked |-> tracked]
  BY DEF Measured, Status
<1>2. state \in States
  BY DEF PrivacyState, States
<1>3. tracked \in SUBSET DirContent
  BY DEF GroundTypes, IgnoredAmong
<1>4. CanToggle(state, r.managed) \in BOOLEAN
  BY DEF CanToggle, Call
<1>5. CanToggle(state, r.managed) => ignoreFile \in {"none", "managed"} \/ r.managed
  BY DEF CanToggle
<1> HIDE DEF tracked, state
<1> QED
  BY <1>1, <1>2, <1>3, <1>4, <1>5 DEF Measurement

LEMMA ListFilesSound ==
  ASSUME PInv, NEW t \in Tab, ListFiles(t)
  PROVE  PInv'
<1> DEFINE s == Measured(tab[t], IgnoredAmong(committed))
<1>1. /\ UNCHANGED <<Ground, asked>> /\ privacyEvents' \in 0..MaxPrivacyEvents /\ localDir = "there"
      /\ Call(tab[t]) /\ Sound(t) /\ Shaped(tab[t]) /\ Measuring(tab[t]) /\ tab[t].step = "list" /\ GroundTypes
      /\ Goes(t, After(tab[t], s))
  BY DEF ListFiles, PInv, Types, GroundTypes, Sound, Measuring
<1>2. Measurement(s) /\ (s.can => ignoreFile \in {"none", "managed"} \/ tab[t].managed)
  BY <1>1, MeasuredType
<1> HIDE DEF s
<1>3. tab[t].disturbed # "person" /\ s.can => ignoreFile \notin OwnContent
  BY <1>1, <1>2 DEF Sound, OwnSpared, OwnContent
<1>4. s = Measured(tab[t], IgnoredAmong(committed))
  BY DEF s
<1> QED
  BY <1>1, <1>2, <1>3, <1>4, AfterSound

LEMMA MeasureFailsSound ==
  ASSUME PInv, NEW t \in Tab, MeasureFails(t)
  PROVE  PInv'
<1> DEFINE r == Felt(tab[t], "yes")
<1>1. /\ UNCHANGED <<Ground, asked>> /\ Call(tab[t]) /\ Sound(t) /\ Shaped(tab[t]) /\ Measuring(tab[t]) /\ GroundTypes
  BY DEF MeasureFails, PInv, Types, Sound, Measuring
<1>2. privacyEvents' \in 0..MaxPrivacyEvents
  BY PrivacyAssumption DEF MeasureFails, Event, PInv, Types, GroundTypes
<1>3. /\ Call(r) /\ r.step = tab[t].step /\ r.op = tab[t].op /\ r.phase = tab[t].phase /\ r.told = tab[t].told
      /\ r.managed = tab[t].managed /\ r.disturbed # "no" /\ (r.disturbed # "person" => tab[t].disturbed # "person")
  BY <1>1, FeltEffect DEF Measuring
<1>4. \/ Goes(t, After(r, Status("unknown", FALSE, {})))
      \/ r.step = "list" /\ Goes(t, After(r, Measured(r, {})))
  BY DEF MeasureFails
<1> HIDE DEF r
<1>5. Shaped(r) /\ Measuring(r)
  BY <1>1, <1>3 DEF Shaped, Measuring
<1>6. CASE Goes(t, After(r, Status("unknown", FALSE, {})))
  <2> DEFINE s == Status("unknown", FALSE, {})
  <2>1. Measurement(s) /\ ~s.can
    BY DEF Status, Measurement, States
  <2>2. Goes(t, After(r, s))
    BY <1>6
  <2> HIDE DEF s
  <2> QED
    BY <1>1, <1>2, <1>3, <1>5, <2>1, <2>2, AfterSound
<1>7. CASE r.step = "list" /\ Goes(t, After(r, Measured(r, {})))
  <2> DEFINE s == Measured(r, {})
  <2>1. Measurement(s) /\ (s.can => ignoreFile \in {"none", "managed"} \/ r.managed)
    BY <1>1, <1>3, MeasuredType
  <2>2. Goes(t, After(r, s))
    BY <1>7
  <2> HIDE DEF s
  <2>3. r.disturbed # "person" /\ s.can => ignoreFile \notin OwnContent
    BY <1>1, <1>3, <1>7, <2>1 DEF Sound, OwnSpared, OwnContent
  <2> QED
    BY <1>1, <1>2, <1>3, <1>5, <2>1, <2>2, <2>3, AfterSound
<1> QED
  BY <1>4, <1>6, <1>7

LEMMA LookForDirSound ==
  ASSUME PInv, NEW t \in Tab, LookForDir(t)
  PROVE  PInv'
<1> DEFINE q == [tab[t] EXCEPT !.step = "make", !.fresh = localDir = "missing"]
<1>1. /\ UNCHANGED <<Ground, asked>> /\ privacyEvents' \in 0..MaxPrivacyEvents /\ Goes(t, q)
      /\ Call(tab[t]) /\ Sound(t) /\ Shaped(tab[t]) /\ tab[t].step = "look" /\ GroundTypes /\ WishNoted
  BY DEF LookForDir, PInv, Types, GroundTypes, Sound
<1>2. /\ Call(q) /\ q.step = "make" /\ q.fresh = (localDir = "missing") /\ q.op = tab[t].op /\ q.told = tab[t].told
      /\ q.disturbed = tab[t].disturbed
  BY <1>1 DEF Call
<1> HIDE DEF q
<1>3. ASSUME tab'[t] = q PROVE Call(tab[t])' /\ Sound(t)'
  <2>1. q.op = "create" /\ q.told = "none"
    BY <1>1, <1>2 DEF Shaped, Measuring
  <2>2. q.fresh => ignoreFile' = "none" /\ asked' # "public"
    BY <1>1, <1>2 DEF GroundTypes, WishNoted, Ground
  <2>3. Shaped(tab[t])' /\ OwnSpared(t)'
    BY <1>2, <1>3, <2>1 DEF Shaped, OwnSpared, OwnKept, Measuring
  <2>4. MeasuredSo(t)' /\ SwitchedSo(t)' /\ CreatedSo(t)'
    BY <1>2, <1>3, <2>1, <2>2
    DEF MeasuredSo, SwitchedSo, CreatedSo, DefaultKept, Quiet, Measuring, Writing, Written
  <2> QED
    BY <1>2, <1>3, <2>3, <2>4 DEF Sound, Undisturbed
<1> QED
  BY <1>1, <1>3, GoesEnough

LEMMA MakeDirSound ==
  ASSUME PInv, NEW t \in Tab, MakeDir(t)
  PROVE  PInv'
<1> DEFINE q == [tab[t] EXCEPT !.step = "ignore"]
<1>1. /\ localDir' = "there" /\ UNCHANGED <<byDefault, ignoreFile, outerRule, indexed, committed, asked, privacyEvents>>
      /\ Call(tab[t]) /\ Sound(t) /\ Shaped(tab[t]) /\ tab[t].step = "make" /\ GroundTypes /\ WishNoted
      /\ DOMAIN tab = Tab /\ \A u \in Tab : Call(tab[u])
  BY DEF MakeDir, PInv, Types, Sound
<1>2. /\ DOMAIN tab' = Tab
      /\ localDir = "missing" => \A u \in Tab \ {t} : tab'[u] = Felt(tab[u], "yes")
      /\ localDir # "missing" => \A u \in Tab \ {t} : tab'[u] = tab[u]
  BY <1>1 DEF MakeDir, Others
<1>3. tab'[t] = q
  BY <1>1 DEF MakeDir, Others
<1>4. /\ Call(q) /\ q.step = "ignore" /\ q.fresh = tab[t].fresh /\ q.op = tab[t].op /\ q.told = tab[t].told
      /\ q.disturbed = tab[t].disturbed
  BY <1>1 DEF Call
<1> HIDE DEF q
<1>5. GroundTypes' /\ WishNoted'
  BY <1>1 DEF GroundTypes, WishNoted
<1>6. Call(tab[t])' /\ Sound(t)'
  <2>1. q.op = "create" /\ q.told = "none"
    BY <1>1, <1>4 DEF Shaped, Measuring
  <2>2. Shaped(tab[t])' /\ OwnSpared(t)'
    BY <1>3, <1>4, <2>1 DEF Shaped, OwnSpared, OwnKept, Measuring
  <2>3. ASSUME q.disturbed = "no" PROVE MeasuredSo(t)' /\ SwitchedSo(t)' /\ CreatedSo(t)'
    <3>1. tab[t].fresh => ignoreFile = "none" /\ asked # "public"
      BY <1>1, <1>4, <2>3 DEF Sound, Undisturbed, CreatedSo
    <3> QED
      BY <1>1, <1>3, <1>4, <2>1, <3>1
      DEF MeasuredSo, SwitchedSo, CreatedSo, DefaultKept, Quiet, Measuring, Writing, Written
  <2> QED
    BY <1>3, <1>4, <2>2, <2>3 DEF Sound, Undisturbed
<1>7. CASE localDir = "missing"
  BY <1>2, <1>7, <1>1, <1>5, <1>6, OthersEnough
<1>8. CASE localDir # "missing"
  BY <1>1, <1>2, <1>8, <1>5, <1>6, StepEnough DEF LeftAlone, Ground, GroundTypes
<1> QED
  BY <1>7, <1>8

\* The call that has made the directory, undisturbed, finds no rule there.
LEMMA FirstRuleSound ==
  ASSUME PInv, NEW t \in Tab, FirstRule(t)
  PROVE  PInv'
<1>1. /\ UNCHANGED <<byDefault, outerRule, indexed, committed, privacyEvents>>
      /\ Call(tab[t]) /\ Sound(t) /\ Shaped(tab[t]) /\ tab[t].step = "ignore" /\ GroundTypes /\ WishNoted
      /\ DOMAIN tab = Tab /\ tab[t].op = "create" /\ tab[t].told = "none"
  BY DEF FirstRule, PInv, Types, Sound, Shaped, Measuring
<1>2. CASE tab[t].fresh /\ byDefault /\ ignoreFile = "none"
  <2> DEFINE q == [tab[t] EXCEPT !.step = "fill", !.held = TRUE]
  <2>1. /\ localDir' = "there" /\ ignoreFile' = "torn"
        /\ asked' = IF tab[t].disturbed = "no" THEN asked ELSE "none"
        /\ tab' = [Others(t) EXCEPT ![t].step = "fill", ![t].held = TRUE]
    BY <1>2 DEF FirstRule
  <2>2. /\ DOMAIN tab' = Tab /\ tab'[t] = q
        /\ \A u \in Tab \ {t} : tab'[u] = Felt(tab[u], "yes")
    BY <2>1 DEF Others
  <2>3. Call(q) /\ q.step = "fill" /\ q.held /\ q.op = "create" /\ q.told = "none" /\ q.disturbed = tab[t].disturbed
    BY <1>1 DEF Call
  <2> HIDE DEF q
  <2>4. tab[t].disturbed = "no" => asked # "public"
    BY <1>1, <1>2 DEF Sound, Undisturbed, CreatedSo
  <2>5. asked' \in {"none", "private"}
    BY <1>1, <2>1, <2>4 DEF GroundTypes
  <2>6. GroundTypes' /\ WishNoted'
    BY <1>1, <2>1, <2>5 DEF GroundTypes, WishNoted, IgnoreFiles
  <2>7. Call(tab[t])' /\ Sound(t)'
    <3>1. Shaped(tab[t])' /\ OwnSpared(t)'
      BY <2>2, <2>3 DEF Shaped, OwnSpared, OwnKept, Measuring
    <3>2. MeasuredSo(t)' /\ SwitchedSo(t)' /\ CreatedSo(t)'
      BY <2>1, <2>2, <2>3 DEF MeasuredSo, SwitchedSo, CreatedSo, DefaultKept, Quiet, Measuring, Writing, Written
    <3> QED
      BY <2>2, <2>3, <3>1, <3>2 DEF Sound, Undisturbed
  <2>8. ignoreFile' \notin OwnContent
    BY <2>1 DEF OwnContent
  <2> QED
    BY <2>2, <2>6, <2>7, <2>8, OthersEnough
<1>3. CASE ~(tab[t].fresh /\ byDefault /\ ignoreFile = "none")
  <2> DEFINE r == [tab[t] EXCEPT !.told = "created"]
             q == AnswerShown(r)
  <2>1. Goes(t, q) /\ UNCHANGED <<Ground, asked>> /\ privacyEvents' \in 0..MaxPrivacyEvents
    BY <1>1, <1>3 DEF FirstRule, Ground, GroundTypes
  <2>2. /\ Call(r) /\ r.told = "created" /\ r.op = "create" /\ r.disturbed = tab[t].disturbed /\ r.fresh = tab[t].fresh
    BY <1>1 DEF Call, Told
  <2> HIDE DEF r
  <2>3. /\ Call(q) /\ q.step = "idle" /\ q.disturbed = "no"
        /\ r.disturbed = "no" => q.op = "create" /\ q.told = "created" /\ q.fresh = tab[t].fresh
        /\ r.disturbed # "no" => q.op = "none" /\ q.told = "none"
    BY <2>2, AnswerShownEffect
  <2> HIDE DEF q
  <2>4. ASSUME tab'[t] = q PROVE Call(tab[t])' /\ Sound(t)'
    <3>1. Shaped(tab[t])' /\ OwnSpared(t)'
      BY <2>3, <2>4 DEF Shaped, OwnSpared, OwnKept, Measuring
    <3>2. ~(q.op = "create" /\ q.fresh /\ byDefault')
      BY <1>1, <1>3, <2>2, <2>3 DEF Sound, Undisturbed, CreatedSo
    <3>3. MeasuredSo(t)' /\ SwitchedSo(t)' /\ CreatedSo(t)'
      BY <2>2, <2>3, <2>4, <3>2 DEF MeasuredSo, SwitchedSo, CreatedSo, DefaultKept, Quiet, Measuring, Writing, Written
    <3> QED
      BY <2>3, <2>4, <3>1, <3>3 DEF Sound, Undisturbed
  <2> QED
    BY <2>1, <2>4, GoesEnough
<1> QED
  BY <1>2, <1>3

\* A call that refuses, and measures once more.
LEMMA AnswersSound ==
  ASSUME NEW t \in Tab, NEW r, Call(r), r.op # "create", r.op # "none", tab'[t] = Answers(r, "refused")
  PROVE  Call(tab[t])' /\ Sound(t)'
<1> DEFINE q == Answers(r, "refused")
<1>1. /\ Call(q) /\ q.step = "rule" /\ q.phase = "answer" /\ ~q.managed
      /\ q.disturbed = r.disturbed
      /\ r.disturbed = "no" => q.op = r.op /\ q.told = "refused"
      /\ r.disturbed # "no" => q.op = "show" /\ q.told = "none"
  BY AnswersEffect DEF Told
<1>2. tab'[t] = q
  OBVIOUS
<1> HIDE DEF q
<1>3. Shaped(tab[t])' /\ OwnSpared(t)'
  BY <1>1, <1>2 DEF Shaped, OwnSpared, OwnKept, Measuring
<1>4. MeasuredSo(t)' /\ CreatedSo(t)'
  BY <1>1, <1>2 DEF MeasuredSo, CreatedSo, DefaultKept, Quiet
<1>5. q.disturbed = "no" => SwitchedSo(t)'
  BY <1>1, <1>2 DEF SwitchedSo, Measuring, Writing, Written
<1> QED
  BY <1>1, <1>2, <1>3, <1>4, <1>5 DEF Sound, Undisturbed

\* The rule is cut: by a call that, undisturbed, has found none.
LEMMA CutSound ==
  ASSUME PInv, NEW t \in Tab, Cut(t)
  PROVE  PInv'
<1>1. /\ UNCHANGED <<localDir, byDefault, outerRule, indexed, committed, privacyEvents>>
      /\ Call(tab[t]) /\ Sound(t) /\ Shaped(tab[t]) /\ tab[t].step = "write" /\ GroundTypes /\ WishNoted
      /\ DOMAIN tab = Tab /\ tab[t].op = "private" /\ tab[t].told = "none"
  BY DEF Cut, PInv, Types, Sound, Shaped, Measuring
<1>2. CASE ignoreFile = "managed"
  <2> DEFINE q == Measures(tab[t], "written")
  <2>1. Goes(t, q) /\ UNCHANGED <<Ground, asked>> /\ privacyEvents' \in 0..MaxPrivacyEvents
    BY <1>1, <1>2 DEF Cut, Ground, GroundTypes
  <2>2. /\ Call(q) /\ q.step = "rule" /\ q.phase = "written" /\ ~q.managed /\ q.op = "private" /\ q.told = "none"
        /\ q.disturbed = tab[t].disturbed /\ q.before = tab[t].before /\ q.untracked = tab[t].untracked
    BY <1>1, MeasuresEffect
  <2> HIDE DEF q
  <2>3. ASSUME tab'[t] = q PROVE Call(tab[t])' /\ Sound(t)'
    <3>1. Shaped(tab[t])' /\ OwnSpared(t)'
      BY <2>2, <2>3 DEF Shaped, OwnSpared, OwnKept, Measuring
    <3>2. ASSUME q.disturbed = "no" PROVE MeasuredSo(t)' /\ SwitchedSo(t)' /\ CreatedSo(t)'
      <4>1. localDir = "there" /\ outerRule # "directory" /\ tab[t].before = indexed /\ tab[t].untracked = {}
        BY <1>1, <2>2, <3>2 DEF Sound, Undisturbed, SwitchedSo, Writing
      <4> QED
        BY <1>1, <1>2, <2>1, <2>2, <2>3, <4>1
        DEF MeasuredSo, SwitchedSo, CreatedSo, DefaultKept, Quiet, Measuring, Writing, Written, Ground
    <3> QED
      BY <2>2, <2>3, <3>1, <3>2 DEF Sound, Undisturbed
  <2> QED
    BY <2>1, <2>3, GoesEnough
<1>3. CASE ignoreFile # "managed" /\ localDir = "missing"
  <2> DEFINE q == Answers(tab[t], "refused")
  <2>1. Goes(t, q) /\ UNCHANGED <<Ground, asked>> /\ privacyEvents' \in 0..MaxPrivacyEvents
    BY <1>1, <1>3 DEF Cut, Ground, GroundTypes
  <2>2. ASSUME tab'[t] = q PROVE Call(tab[t])' /\ Sound(t)'
    BY <1>1, <2>2, AnswersSound
  <2> QED
    BY <2>1, <2>2, GoesEnough
<1>4. CASE ignoreFile # "managed" /\ localDir # "missing"
  <2> DEFINE q == [tab[t] EXCEPT !.step = "fill", !.held = TRUE]
  <2>1. /\ ignoreFile' = "torn" /\ asked' = "none"
        /\ tab' = [Others(t) EXCEPT ![t].step = "fill", ![t].held = TRUE]
    BY <1>4 DEF Cut
  <2>2. /\ DOMAIN tab' = Tab /\ tab'[t] = q
        /\ \A u \in Tab \ {t} : tab'[u] = Felt(tab[u], "yes")
    BY <2>1 DEF Others
  <2>3. /\ Call(q) /\ q.step = "fill" /\ q.held /\ q.op = "private" /\ q.told = "none" /\ q.disturbed = tab[t].disturbed
        /\ q.before = tab[t].before /\ q.untracked = tab[t].untracked
    BY <1>1 DEF Call
  <2> HIDE DEF q
  <2>4. GroundTypes' /\ WishNoted'
    BY <1>1, <1>4, <2>1 DEF GroundTypes, WishNoted, IgnoreFiles
  <2>5. Call(tab[t])' /\ Sound(t)'
    <3>1. Shaped(tab[t])' /\ OwnSpared(t)'
      BY <2>2, <2>3 DEF Shaped, OwnSpared, OwnKept, Measuring
    <3>2. ASSUME q.disturbed = "no" PROVE MeasuredSo(t)' /\ SwitchedSo(t)' /\ CreatedSo(t)'
      <4>1. localDir = "there" /\ outerRule # "directory" /\ tab[t].before = indexed /\ tab[t].untracked = {}
        BY <1>1, <2>3, <3>2 DEF Sound, Undisturbed, SwitchedSo, Writing
      <4> QED
        BY <1>1, <2>1, <2>2, <2>3, <4>1
        DEF MeasuredSo, SwitchedSo, CreatedSo, DefaultKept, Quiet, Measuring, Writing, Written
    <3> QED
      BY <2>2, <2>3, <3>1, <3>2 DEF Sound, Undisturbed
  <2>6. /\ \A u \in Tab \ {t} : tab'[u] \in {Felt(tab[u], "yes"), [Felt(tab[u], "yes") EXCEPT !.held = FALSE]}
        /\ ignoreFile' \notin OwnContent /\ DOMAIN tab' = Tab
    BY <2>1, <2>2 DEF OwnContent
  <2> QED
    BY <2>4, <2>5, <2>6, OthersEnough
<1> QED
  BY <1>2, <1>3, <1>4

\* The rule is filled in: an undisturbed call holds the very file it has cut.
LEMMA FillRuleSound ==
  ASSUME PInv, NEW t \in Tab, FillRule(t)
  PROVE  PInv'
<1>1. /\ UNCHANGED <<localDir, byDefault, outerRule, indexed, committed, privacyEvents>>
      /\ Call(tab[t]) /\ Sound(t) /\ Shaped(tab[t]) /\ tab[t].step = "fill" /\ GroundTypes /\ WishNoted
      /\ DOMAIN tab = Tab /\ tab[t].op \in {"private", "create"} /\ tab[t].told = "none"
      /\ ignoreFile' = (IF tab[t].held /\ ignoreFile = "torn" THEN "managed" ELSE ignoreFile)
      /\ asked' = (IF tab[t].held /\ tab[t].op = "private" THEN "private" ELSE asked)
  BY DEF FillRule, PInv, Types, Sound, Shaped, Measuring
<1> DEFINE r == [tab[t] EXCEPT !.told = "created"]
           q == IF tab[t].op = "private" THEN Measures(tab[t], "written") ELSE AnswerShown(r)
<1>2. /\ DOMAIN tab' = Tab /\ tab'[t] = q
      /\ \A u \in Tab \ {t} : tab'[u] = Felt(tab[u], "yes")
  BY DEF FillRule, Others
<1>3. GroundTypes' /\ WishNoted'
  BY <1>1 DEF GroundTypes, WishNoted, IgnoreFiles
<1>4. tab[t].disturbed = "no" => tab[t].held /\ ignoreFile = "torn" /\ ignoreFile' = "managed" /\ localDir = "there"
  BY <1>1 DEF Sound, Undisturbed, CreatedSo
<1>5. Call(tab[t])' /\ Sound(t)'
  <2>1. CASE tab[t].op = "private"
    <3>1. /\ Call(q) /\ q.step = "rule" /\ q.phase = "written" /\ ~q.managed /\ q.op = "private" /\ q.told = "none"
          /\ q.disturbed = tab[t].disturbed /\ q.before = tab[t].before /\ q.untracked = tab[t].untracked
      BY <1>1, <2>1, MeasuresEffect
    <3> HIDE DEF q
    <3>2. Shaped(tab[t])' /\ OwnSpared(t)'
      BY <1>2, <3>1 DEF Shaped, OwnSpared, OwnKept, Measuring
    <3>3. ASSUME q.disturbed = "no" PROVE MeasuredSo(t)' /\ SwitchedSo(t)' /\ CreatedSo(t)'
      <4>1. localDir = "there" /\ outerRule # "directory" /\ tab[t].before = indexed /\ tab[t].untracked = {}
        BY <1>1, <2>1, <3>1, <3>3 DEF Sound, Undisturbed, SwitchedSo, Writing
      <4> QED
        BY <1>1, <1>2, <1>4, <3>1, <3>3, <4>1
        DEF MeasuredSo, SwitchedSo, CreatedSo, DefaultKept, Quiet, Measuring, Writing, Written
    <3> QED
      BY <1>2, <3>1, <3>2, <3>3 DEF Sound, Undisturbed
  <2>2. CASE tab[t].op = "create"
    <3>1. /\ Call(r) /\ r.told = "created" /\ r.op = "create" /\ r.disturbed = tab[t].disturbed
      BY <1>1, <2>2 DEF Call, Told
    <3> HIDE DEF r
    <3>2. q = AnswerShown(r)
      BY <2>2
    <3> HIDE DEF q
    <3>3. /\ Call(q) /\ q.step = "idle" /\ q.disturbed = "no"
          /\ r.disturbed = "no" => q.op = "create" /\ q.told = "created"
          /\ r.disturbed # "no" => q.op = "none" /\ q.told = "none"
      BY <3>1, <3>2, AnswerShownEffect
    <3>4. Shaped(tab[t])' /\ OwnSpared(t)'
      BY <1>2, <3>3 DEF Shaped, OwnSpared, OwnKept, Measuring
    <3>5. MeasuredSo(t)' /\ SwitchedSo(t)' /\ CreatedSo(t)'
      BY <1>2, <1>4, <3>1, <3>3 DEF MeasuredSo, SwitchedSo, CreatedSo, DefaultKept, Quiet, Measuring, Writing, Written
    <3> QED
      BY <1>2, <3>3, <3>4, <3>5 DEF Sound, Undisturbed
  <2> QED
    BY <1>1, <2>1, <2>2
<1>6. /\ \A u \in Tab \ {t} : tab'[u] \in {Felt(tab[u], "yes"), [Felt(tab[u], "yes") EXCEPT !.held = FALSE]}
      /\ ignoreFile' = ignoreFile \/ ignoreFile' \notin OwnContent
      /\ DOMAIN tab' = Tab
  BY <1>1, <1>2 DEF OwnContent
<1> QED
  BY <1>3, <1>5, <1>6, OthersEnough

\* What an undisturbed call takes out of the index is all that the rule takes.
LEMMA UntrackSound ==
  ASSUME PInv, NEW t \in Tab, Untrack(t)
  PROVE  PInv'
<1>1. /\ UNCHANGED <<localDir, byDefault, ignoreFile, outerRule, committed, asked, privacyEvents>>
      /\ Call(tab[t]) /\ Sound(t) /\ Shaped(tab[t]) /\ tab[t].step = "untrack" /\ GroundTypes /\ WishNoted
      /\ DOMAIN tab = Tab /\ tab[t].op = "private" /\ tab[t].told = "none"
  BY DEF Untrack, PInv, Types, Sound, Shaped, Measuring
<1>2. CASE ~(tab[t].tracked \subseteq indexed /\ localDir = "there")
  <2> DEFINE q == Answers(tab[t], "refused")
  <2>1. Goes(t, q) /\ UNCHANGED <<Ground, asked>> /\ privacyEvents' \in 0..MaxPrivacyEvents
    BY <1>1, <1>2 DEF Untrack, Ground, GroundTypes
  <2>2. ASSUME tab'[t] = q PROVE Call(tab[t])' /\ Sound(t)'
    BY <1>1, <2>2, AnswersSound
  <2> QED
    BY <2>1, <2>2, GoesEnough
<1>3. CASE tab[t].tracked \subseteq indexed /\ localDir = "there"
  <2> DEFINE r == [tab[t] EXCEPT !.untracked = tab[t].tracked]
             q == Measures(r, "untracked")
  <2>1. /\ indexed' = indexed \ tab[t].tracked
        /\ tab' = [Others(t) EXCEPT ![t] = q]
    BY <1>3 DEF Untrack
  <2>2. DOMAIN tab' = Tab /\ tab'[t] = q /\ \A u \in Tab \ {t} : tab'[u] = Felt(tab[u], "yes")
    BY <2>1 DEF Others
  <2>3. /\ Call(r) /\ r.op = "private" /\ r.told = "none" /\ r.disturbed = tab[t].disturbed
        /\ r.before = tab[t].before /\ r.untracked = tab[t].tracked
    BY <1>1 DEF Call
  <2> HIDE DEF r
  <2>4. /\ Call(q) /\ q.step = "rule" /\ q.phase = "untracked" /\ ~q.managed /\ q.op = "private" /\ q.told = "none"
        /\ q.disturbed = tab[t].disturbed /\ q.before = tab[t].before /\ q.untracked = tab[t].tracked
    BY <2>3, MeasuresEffect
  <2> HIDE DEF q
  <2>5. GroundTypes' /\ WishNoted'
    BY <1>1, <2>1 DEF GroundTypes, WishNoted
  <2>6. Call(tab[t])' /\ Sound(t)'
    <3>1. Shaped(tab[t])' /\ OwnSpared(t)'
      BY <2>2, <2>4 DEF Shaped, OwnSpared, OwnKept, Measuring
    <3>2. ASSUME q.disturbed = "no" PROVE MeasuredSo(t)' /\ SwitchedSo(t)' /\ CreatedSo(t)'
      <4>1. /\ localDir = "there" /\ outerRule # "directory" /\ ignoreFile = "managed"
            /\ tab[t].before = indexed /\ tab[t].tracked = IgnoredAmong(indexed)
        BY <1>1, <2>4, <3>2 DEF Sound, Undisturbed, SwitchedSo, MeasuredSo, Written
      <4>2. ~Ignored("README.md")
        BY <4>1 DEF Ignored
      <4>3. IgnoredAmong(indexed)' = {}
        BY <1>1, <2>1, <4>1 DEF IgnoredAmong, Ignored
      <4>4. q.untracked = q.before \ indexed' /\ "README.md" \notin q.untracked
        BY <2>1, <2>4, <4>1, <4>2 DEF IgnoredAmong
      <4> QED
        BY <1>1, <2>2, <2>4, <4>1, <4>3, <4>4
        DEF MeasuredSo, SwitchedSo, CreatedSo, DefaultKept, Quiet, Measuring, Writing, Written
    <3> QED
      BY <2>2, <2>4, <3>1, <3>2 DEF Sound, Undisturbed
  <2>7. /\ \A u \in Tab \ {t} : tab'[u] \in {Felt(tab[u], "yes"), [Felt(tab[u], "yes") EXCEPT !.held = FALSE]}
        /\ ignoreFile' = ignoreFile /\ DOMAIN tab' = Tab
    BY <1>1, <2>2
  <2> QED
    BY <2>5, <2>6, <2>7, OthersEnough
<1> QED
  BY <1>2, <1>3

\* A call that is felt, and may have lost the file it holds.
LEMMA RemoveSound ==
  ASSUME PInv, NEW t \in Tab, Remove(t)
  PROVE  PInv'
<1>1. /\ UNCHANGED <<localDir, byDefault, outerRule, indexed, committed, privacyEvents>>
      /\ Call(tab[t]) /\ Sound(t) /\ Shaped(tab[t]) /\ tab[t].step = "remove" /\ GroundTypes /\ WishNoted
      /\ DOMAIN tab = Tab /\ tab[t].op = "public" /\ tab[t].told = "none"
      /\ ignoreFile' = "none" /\ asked' = (IF localDir = "there" THEN "public" ELSE asked)
      /\ tab' = Dropped([Others(t) EXCEPT ![t] = Measures(tab[t], "removed")])
  BY DEF Remove, PInv, Types, Sound, Shaped, Measuring
<1> DEFINE m == Measures(tab[t], "removed")
           q == [m EXCEPT !.held = FALSE]
<1>2. /\ DOMAIN tab' = Tab /\ tab'[t] = q
      /\ \A u \in Tab \ {t} : tab'[u] = [Felt(tab[u], "yes") EXCEPT !.held = FALSE]
  BY <1>1 DEF Others, Dropped
<1>3. /\ Call(m) /\ m.step = "rule" /\ m.phase = "removed" /\ ~m.managed /\ m.op = "public" /\ m.told = "none"
  BY <1>1, MeasuresEffect
<1> HIDE DEF m
<1>4. /\ Call(q) /\ q.step = "rule" /\ q.phase = "removed" /\ ~q.managed /\ q.op = "public" /\ q.told = "none"
  BY <1>3 DEF Call
<1> HIDE DEF q
<1>5. GroundTypes' /\ WishNoted'
  BY <1>1 DEF GroundTypes, WishNoted, IgnoreFiles
<1>6. Call(tab[t])' /\ Sound(t)'
  <2>1. Shaped(tab[t])' /\ OwnSpared(t)'
    BY <1>2, <1>4 DEF Shaped, OwnSpared, OwnKept, Measuring
  <2>2. MeasuredSo(t)' /\ SwitchedSo(t)' /\ CreatedSo(t)'
    BY <1>2, <1>4 DEF MeasuredSo, SwitchedSo, CreatedSo, DefaultKept, Quiet, Measuring, Writing, Written
  <2> QED
    BY <1>2, <1>4, <2>1, <2>2 DEF Sound, Undisturbed
<1>7. /\ \A u \in Tab \ {t} : tab'[u] \in {Felt(tab[u], "yes"), [Felt(tab[u], "yes") EXCEPT !.held = FALSE]}
      /\ ignoreFile' \notin OwnContent /\ DOMAIN tab' = Tab
  BY <1>1, <1>2 DEF OwnContent
<1> QED
  BY <1>5, <1>6, <1>7, OthersEnough

LEMMA StepFailsSound ==
  ASSUME PInv, NEW t \in Tab, StepFails(t)
  PROVE  PInv'
<1>1. /\ UNCHANGED <<Ground, asked>> /\ GroundTypes /\ privacyEvents < MaxPrivacyEvents
      /\ privacyEvents' = privacyEvents + 1
      /\ Call(tab[t]) /\ Sound(t) /\ Shaped(tab[t]) /\ tab[t].step \in {"write", "fill", "untrack", "remove", "make"}
      /\ Goes(t, IF tab[t].op = "create" THEN AnswerShown([tab[t] EXCEPT !.told = "incomplete"])
                 ELSE Answers(Felt(tab[t], "yes"), "refused"))
  BY DEF StepFails, Event, PInv, Types, Sound
<1>2. privacyEvents' \in 0..MaxPrivacyEvents
  BY <1>1, PrivacyAssumption DEF GroundTypes
<1>3. CASE tab[t].op = "create"
  <2> DEFINE r == [tab[t] EXCEPT !.told = "incomplete"]
             q == AnswerShown(r)
  <2>1. Goes(t, q)
    BY <1>1, <1>3
  <2>2. Call(r) /\ r.told = "incomplete" /\ r.op = "create"
    BY <1>1, <1>3 DEF Call, Told
  <2> HIDE DEF r
  <2>3. /\ Call(q) /\ q.step = "idle" /\ q.disturbed = "no"
        /\ q.told \in {"none", "incomplete"} /\ q.op \in {"none", "create"}
        /\ q.op = "none" => q.told = "none"
    BY <2>2, AnswerShownEffect
  <2> HIDE DEF q
  <2>4. ASSUME tab'[t] = q PROVE Call(tab[t])' /\ Sound(t)'
    BY <2>3, <2>4 DEF Sound, Shaped, OwnSpared, OwnKept, Undisturbed, MeasuredSo, SwitchedSo, CreatedSo,
                      DefaultKept, Quiet, Measuring, Writing, Written
  <2> QED
    BY <1>1, <1>2, <2>1, <2>4, GoesEnough
<1>4. CASE tab[t].op # "create"
  <2> DEFINE r == Felt(tab[t], "yes")
  <2>1. Goes(t, Answers(r, "refused"))
    BY <1>1, <1>4
  <2>2. Call(r) /\ r.op = tab[t].op /\ r.op # "create" /\ r.op # "none"
    BY <1>1, <1>4, FeltEffect DEF Shaped
  <2> HIDE DEF r
  <2>3. ASSUME tab'[t] = Answers(r, "refused") PROVE Call(tab[t])' /\ Sound(t)'
    BY <2>2, <2>3, AnswersSound
  <2> QED
    BY <1>1, <1>2, <2>1, <2>3, GoesEnough
<1> QED
  BY <1>3, <1>4

LEMMA CallKilledSound ==
  ASSUME PInv, NEW t \in Tab, CallKilled(t)
  PROVE  PInv'
<1>1. /\ UNCHANGED <<Ground, asked>> /\ Goes(t, NoCallYet)
      /\ privacyEvents' \in 0..MaxPrivacyEvents
  BY PrivacyAssumption DEF CallKilled, Event, PInv, Types, GroundTypes
<1>2. ASSUME tab'[t] = NoCallYet PROVE Call(tab[t])' /\ Sound(t)'
  <2>1. Call(NoCallYet) /\ NoCallYet.step = "idle" /\ NoCallYet.op = "none" /\ NoCallYet.told = "none"
    BY NoCallType DEF NoCallYet
  <2> QED
    BY <1>2, <2>1 DEF Sound, Shaped, OwnSpared, OwnKept, Undisturbed, MeasuredSo, SwitchedSo, CreatedSo,
                      DefaultKept, Quiet, Measuring, Writing, Written
<1> QED
  BY <1>1, <1>2, GoesEnough

-----------------------------------------------------------------------------
(* What people do.                                                         *)

\* Whatever a person changes displaces every call.
LEMMA PersonEnough ==
  ASSUME PInv, GroundTypes', WishNoted', DOMAIN tab' = Tab,
         \A u \in Tab : tab'[u] \in {Felt(tab[u], "person"), [Felt(tab[u], "person") EXCEPT !.held = FALSE]}
  PROVE  PInv'
<1>1. ASSUME NEW u \in Tab PROVE Call(tab[u])' /\ Sound(u)'
  BY <1>1, DisplacedSound DEF PInv, Types, Displaced
<1> QED
  BY <1>1 DEF PInv, Types

LEMMA PersonSound ==
  ASSUME PInv, EditRule \/ UseGit \/ DeleteDir
  PROVE  PInv'
<1>1. GroundTypes /\ WishNoted /\ privacyEvents' \in 0..MaxPrivacyEvents
  BY PrivacyAssumption DEF EditRule, UseGit, DeleteDir, Person, Event, PInv, Types, GroundTypes
<1>2. CASE EditRule
  BY <1>2, <1>1, PersonEnough DEF EditRule, Person, GroundTypes, WishNoted, IgnoreFiles
<1>3. CASE UseGit
  BY <1>3, <1>1, PersonEnough DEF UseGit, Person, GroundTypes, WishNoted, DirContent
<1>4. CASE DeleteDir
  BY <1>4, <1>1, PersonEnough DEF DeleteDir, Dropped, GroundTypes, WishNoted, IgnoreFiles
<1> QED
  BY <1>2, <1>3, <1>4

-----------------------------------------------------------------------------
(* The theorems.                                                           *)

LEMMA PrivacyStarts ==
  ASSUME PrivacyInit
  PROVE  PInv
<1>1. PICK dir \in {"missing", "there"}, default \in BOOLEAN, file \in IgnoreFiles \ {"torn"}, outer \in OuterRules,
           index \in SUBSET DirContent, head \in SUBSET DirContent :
        PrivacyBegin(dir, default, file, outer, index, head) /\ (dir = "missing" => file = "none")
  <2>1. \A index \in SUBSET DirContent : index \ {"note"} \in SUBSET DirContent
    OBVIOUS
  <2>2. "none" \in IgnoreFiles \ {"torn"} /\ TRUE \in BOOLEAN
    BY DEF IgnoreFiles
  <2> QED
    BY <2>1, <2>2 DEF PrivacyInit
<1>2. tab = [t \in Tab |-> NoCallYet]
  BY <1>1 DEF PrivacyBegin
<1>3. GroundTypes /\ WishNoted
  BY <1>1, PrivacyAssumption DEF PrivacyBegin, GroundTypes, WishNoted
<1>4. ASSUME NEW t \in Tab PROVE Call(tab[t]) /\ Sound(t)
  <2>1. /\ tab[t] = NoCallYet /\ Call(NoCallYet) /\ NoCallYet.step = "idle" /\ NoCallYet.op = "none"
        /\ NoCallYet.told = "none"
    BY <1>2, NoCallType DEF NoCallYet
  <2> QED
    BY <2>1 DEF Sound, Shaped, OwnSpared, OwnKept, Undisturbed, MeasuredSo, SwitchedSo, CreatedSo,
                DefaultKept, Quiet, Measuring, Writing, Written
<1> QED
  BY <1>2, <1>3, <1>4 DEF PInv, Types

LEMMA PrivacyGoesOn ==
  ASSUME PInv, [PrivacyNext]_privacyVars
  PROVE  PInv'
<1>1. CASE \E t \in Tab : PrivacyStep(t)
  <2>1. PICK t \in Tab : PrivacyStep(t)
    BY <1>1
  <2> QED
    BY <2>1, AskSound, FindRuleSound, ListFilesSound, MeasureFailsSound, CutSound, FillRuleSound, UntrackSound,
       RemoveSound, LookForDirSound, MakeDirSound, FirstRuleSound, StepFailsSound, CallKilledSound DEF PrivacyStep
<1>2. CASE EditRule \/ UseGit \/ DeleteDir
  BY <1>2, PersonSound
<1>3. CASE UNCHANGED privacyVars
  BY <1>3, LeftAloneSound DEF privacyVars, Ground, PInv, Types, GroundTypes, WishNoted, LeftAlone
<1> QED
  BY <1>1, <1>2, <1>3 DEF PrivacyNext

\* The inductive invariant: every call is where its operation can be, what an undisturbed one has measured still
\* holds, and people's own rules are spared by every step to come (local_private.go, local.go).
THEOREM PrivacyInvariance == PrivacySpec => []PInv
<1>1. PrivacyInit => PInv
  BY PrivacyStarts
<1>2. PInv /\ [PrivacyNext]_privacyVars => PInv'
  BY PrivacyGoesOn
<1> QED
  BY <1>1, <1>2, PTL DEF PrivacySpec

\* What is told of an undisturbed measurement and switch is so.
LEMMA TruthFollows ==
  ASSUME PInv, NEW t \in Tab
  PROVE  MeasuredTrue(t) /\ SwitchTrue(t)
<1> SUFFICES ASSUME Quiet(t), tab[t].op # "create" PROVE MeasuredTrue(t) /\ SwitchTrue(t)
  BY DEF MeasuredTrue, SwitchTrue
<1>1. MeasuredSo(t) /\ SwitchedSo(t) /\ GroundTypes /\ tab[t].step = "idle" /\ tab[t].op \notin {"none", "create"}
  BY DEF Quiet, PInv, Types, Sound, Undisturbed
<1>2. tab[t].shown = IF localDir = "missing" THEN "missing"
                     ELSE PrivacyState(RuleFrom, IgnoredAmong(indexed), IgnoredAmong(committed))
  BY <1>1 DEF MeasuredSo
<1>3. /\ tab[t].shown = "private" => RuleFrom # "none" /\ IgnoredAmong(indexed) = {} /\ IgnoredAmong(committed) = {}
      /\ tab[t].shown = "pending-commit" => RuleFrom # "none" /\ IgnoredAmong(indexed) = {} /\ IgnoredAmong(committed) # {}
      /\ tab[t].shown = "public" => RuleFrom = "none"
  BY <1>2 DEF PrivacyState
<1>4. /\ RuleFrom # "none" => Ignored("note")
      /\ RuleFrom = "none" => ~Ignored("note") \/ outerRule = "some"
  BY <1>1 DEF RuleFrom, Ignored, GroundTypes, OuterRules
<1>5. \A files : IgnoredAmong(files) = {} <=> \A f \in files : ~Ignored(f)
  BY DEF IgnoredAmong
<1>6. MeasuredTrue(t)
  BY <1>3, <1>4, <1>5 DEF MeasuredTrue
<1>7. SwitchTrue(t)
  BY <1>1, <1>5, <1>2, <1>3 DEF SwitchTrue, SwitchedSo, PrivacyState
<1> QED
  BY <1>6, <1>7

\* What k-playbook says of the privacy of a directory is so when it says it, the switch keeps its word, and nobody's
\* own rules and no wish are lost to it, whatever people and other calls do in between (local_private.go, local.go).
THEOREM PrivacyIsKept == PrivacySpec => []PrivacyKept
<1>1. ASSUME PInv PROVE PrivacyKept
  <2>1. WishKept
    BY <1>1 DEF PInv, WishNoted, WishKept
  <2>2. ASSUME NEW t \in Tab PROVE OwnKept(t) /\ DefaultKept(t)
    BY <1>1 DEF PInv, Sound, OwnSpared, Undisturbed, CreatedSo, DefaultKept, Quiet
  <2> QED
    BY <1>1, <2>1, <2>2, TruthFollows DEF PrivacyKept
<1> QED
  BY <1>1, PrivacyInvariance, PTL

-----------------------------------------------------------------------------
(***************************************************************************)
(* The links of the registry (RegistryLinks): what an overlap of heals that *)
(* nobody disturbs leaves to be mended, some heal under way still mends.    *)
(***************************************************************************)
LinkChanges == [added : SUBSET Name, removed : SUBSET Name, repointed : SUBSET Name]
HealRecord == [step : HealSteps, todo : SUBSET Name, from : [Name -> {"none", "share", "local"}],
               changed : LinkChanges, existed : BOOLEAN, error : BOOLEAN]
LinksTyped ==
  /\ shipped \subseteq Name /\ unpacked \in BOOLEAN /\ ownEntry \in [Name -> {"none", "entry", "off"}]
  /\ registryDir \in {"missing", "link", "file", "dir"} /\ subDir \in {"missing", "dir", "file"}
  /\ linkPlace \in [Name -> Places]
  /\ shareLink \in {"missing", "right", "wrong", "real"} /\ shareIgnored \in BOOLEAN
  /\ healOf \in [Healer -> HealRecord]
  /\ batch \in [error : BOOLEAN, disturbed : BOOLEAN, alone : BOOLEAN, before : [Name -> Places]]
  /\ healCount \in 0..MaxHeals /\ linkChanges \in 0..MaxLinkChanges /\ linkFaults \in 0..MaxLinkFaults

\* Links lie in directories.
PlacesIn ==
  /\ \A n \in Name : linkPlace[n] # "none" => registryDir = "dir"
  /\ \A n \in Nested : linkPlace[n] # "none" => subDir = "dir"

SharePhase == {"ignore", "look", "unlink share", "link share"}
DirPhase   == {"prepare", "unlink dir", "make dir"}
EntryPhase == {"entry", "unlink entry", "link entry"}

\* Where a heal stands, says what it has behind it.
HealShaped(h) ==
  LET r == healOf[h] IN
  /\ r.step \notin {"idle", "ignore", "after"} => shareIgnored
  /\ r.step \in EntryPhase \cup {"stale"} => registryDir = "dir"
  /\ r.step \in {"unlink entry", "link entry"} => r.todo # {}
  /\ \A n \in r.todo : r.from[n] # "none"
  /\ r.step = "unlink entry" => linkPlace[Entry(h)] # "real"

\* Undisturbed, the catalogue a heal has read is the one there is.
FromIsNow(h) ==
  ~batch.disturbed /\ healOf[h].step \in EntryPhase => healOf[h].from = [n \in Name |-> ResolveRegistry(n)]

\* The heal still comes to the name.
ComesTo(h, n) ==
  \/ healOf[h].step \in SharePhase \cup DirPhase \cup {"stale"}
  \/ healOf[h].step \in EntryPhase /\ n \in healOf[h].todo

\* What is to be mended, is before some heal.
StillMended ==
  ~batch.error /\ ~batch.disturbed =>
    /\ ShareFixable => \E h \in Healer : healOf[h].step \in SharePhase
    /\ registryDir \in {"missing", "link"} => \E h \in Healer : healOf[h].step \in SharePhase \cup DirPhase
    /\ registryDir = "dir" =>
         \A n \in MissingNames \cup WrongNames \cup StaleNames : \E h \in Healer : ComesTo(h, n)

\* An overlap of one heal has no other.
OnlyOne ==
  batch.alone => \A h, k \in Healer : healOf[h].step # "idle" /\ healOf[k].step # "idle" => h = k

\* The changes that mend the places as they were before.
MendsOf(before) ==
  [added     |-> {n \in ActiveRegistry : before[n] = "none"},
   removed   |-> {n \in Name : before[n] \in {"share", "local"}} \ ActiveRegistry,
   repointed |-> {n \in ActiveRegistry : before[n] \in {"share", "local", "foreign"} \ {ResolveRegistry(n)}}]

\* How far one name has come since.
NameAt(h, n) ==
  LET was == batch.before[n] IN
  IF n \notin ActiveRegistry THEN linkPlace[n] = IF was \in {"share", "local"} THEN "none" ELSE was
  ELSE IF n \notin healOf[h].todo THEN linkPlace[n] = IF was = "real" THEN "real" ELSE ResolveRegistry(n)
  ELSE IF healOf[h].step = "link entry" /\ n = Entry(h) THEN linkPlace[n] = "none" /\ was # "real"
  ELSE linkPlace[n] = was

\* What a heal that has the overlap for itself will report.
ReportsTruly(h) ==
  LET r == healOf[h] IN
  batch.alone /\ ~batch.disturbed /\ r.step # "idle" /\ ~r.error /\ r.existed =>
    /\ registryDir = "dir"
    /\ r.changed = MendsOf(batch.before)
    /\ r.step \in SharePhase \cup DirPhase \cup {"stale"} => linkPlace = batch.before
    /\ r.step \in EntryPhase \cup {"after"} => \A n \in Name : NameAt(h, n)
    /\ r.step = "after" => r.todo = {}

LinksInv ==
  /\ LinksTyped /\ PlacesIn /\ linkHarm = {} /\ StillMended /\ OnlyOne
  /\ \A h \in Healer : HealShaped(h) /\ FromIsNow(h) /\ ReportsTruly(h)

-----------------------------------------------------------------------------
\* Every set of naturals but the empty one has a smallest element.
LEMMA SmallestIs == ASSUME NEW S \in SUBSET Nat, S # {} PROVE \E n \in S : \A k \in S : n <= k
<1> DEFINE R == {ss \in Nat \X Nat : ss[1] < ss[2]}
<1>1. IsWellFoundedOn(R, Nat)
  BY NatLessThanWellFounded DEF OpToRel
<1>2. PICK n \in S : \A k \in S : ~(<<k, n>> \in R)
  <2> HIDE DEF R
  <2> QED
    BY <1>1, WFMin
<1>3. ASSUME NEW k \in S PROVE n <= k
  <2>1. ~(<<k, n>> \in R) /\ k \in Nat /\ n \in Nat
    BY <1>2
  <2>2. ~(k < n)
    BY <2>1
  <2> QED
    BY <2>1, <2>2
<1> QED
  BY <1>2, <1>3

FirstOf(S) == CHOOSE n \in S : \A k \in S : n <= k

\* The entry a heal is at is one it has still to do, and changes with that set only.
LEMMA EntryIs ==
  /\ \A h : Entry(h) = FirstOf(healOf[h].todo) /\ Entry(h)' = FirstOf(healOf'[h].todo)
  /\ \A S \in SUBSET Name : S # {} => FirstOf(S) \in S
<1>1. ASSUME NEW S \in SUBSET Name, S # {} PROVE FirstOf(S) \in S
  <2>1. S \in SUBSET Nat
    BY <1>1, LinksAssumption DEF Name
  <2>2. \E n \in S : \A k \in S : n <= k
    BY <1>1, <2>1, SmallestIs
  <2> QED
    BY <2>2 DEF FirstOf
<1> QED
  BY <1>1 DEF Entry, FirstOf

LEMMA GoesTo ==
  ASSUME healOf \in [Healer -> HealRecord], NEW h \in Healer, NEW s \in HealSteps, GoTo(h, s)
  PROVE  /\ healOf' \in [Healer -> HealRecord] /\ \A k \in Healer \ {h} : healOf'[k] = healOf[k]
         /\ healOf'[h] = [healOf[h] EXCEPT !.step = s]
         /\ healOf'[h].step = s /\ healOf'[h].todo = healOf[h].todo /\ healOf'[h].from = healOf[h].from
         /\ healOf'[h].changed = healOf[h].changed /\ healOf'[h].existed = healOf[h].existed
         /\ healOf'[h].error = healOf[h].error
  BY DEF HealRecord, GoTo

LEMMA NextEntryIs ==
  ASSUME healOf \in [Healer -> HealRecord], NEW h \in Healer, NextEntry(h)
  PROVE  /\ healOf' \in [Healer -> HealRecord] /\ \A k \in Healer \ {h} : healOf'[k] = healOf[k]
         /\ healOf'[h].step = "entry" /\ healOf'[h].todo = healOf[h].todo \ {Entry(h)}
         /\ healOf'[h].from = healOf[h].from
         /\ healOf'[h].changed = healOf[h].changed /\ healOf'[h].existed = healOf[h].existed
         /\ healOf'[h].error = healOf[h].error
<1> DEFINE r == [healOf[h] EXCEPT !.step = "entry", !.todo = @ \ {Entry(h)}]
<1>1. healOf[h] \in HealRecord /\ r \in HealRecord
  BY DEF HealRecord, HealSteps
<1>2. healOf' = [healOf EXCEPT ![h] = r]
  BY DEF NextEntry
<1>3. healOf'[h] = r /\ healOf' \in [Healer -> HealRecord] /\ \A k \in Healer \ {h} : healOf'[k] = healOf[k]
  <2> HIDE DEF r
  <2> QED
    BY <1>1, <1>2
<1> QED
  BY <1>1, <1>3 DEF HealRecord

LEMMA NoHealIs ==
  /\ NoHeal \in HealRecord /\ NoHeal.step = "idle"
  /\ LET r == [NoHeal EXCEPT !.step = "after", !.error = TRUE]
     IN r \in HealRecord /\ r.step = "after" /\ r.todo = {} /\ r.error
BY DEF NoHeal, HealRecord, NoChanges, LinkChanges, HealSteps

\* The catalogue, read again, is the same when nothing is shipped, unpacked or added.
LEMMA SameCatalogue ==
  UNCHANGED <<shipped, unpacked, ownEntry>> =>
    /\ \A n \in Name : ResolveRegistry(n)' = ResolveRegistry(n)
    /\ ActiveRegistry' = ActiveRegistry /\ \A b : MendsOf(b)' = MendsOf(b)
BY DEF ResolveRegistry, ActiveRegistry, MendsOf

LEMMA ResolvedIs ==
  /\ \A n \in Name : ResolveRegistry(n) \in {"none", "share", "local"}
  /\ ActiveRegistry \subseteq Name /\ \A n \in Name : n \in ActiveRegistry <=> ResolveRegistry(n) # "none"
BY DEF ResolveRegistry, ActiveRegistry

-----------------------------------------------------------------------------
(* A step of one heal that is under way, seen by the others.               *)

Advances(h) ==
  /\ healOf[h].step # "idle"
  /\ healOf' \in [Healer -> HealRecord] /\ \A k \in Healer \ {h} : healOf'[k] = healOf[k]
  /\ UNCHANGED <<shipped, unpacked, ownEntry>>
  /\ registryDir = "dir" => registryDir' = "dir"
  /\ shareIgnored => shareIgnored'
  /\ \A n \in Name : linkPlace'[n] = "real" => linkPlace[n] = "real"
  /\ batch'.disturbed = batch.disturbed \/ batch'.disturbed
  /\ batch'.alone = batch.alone

LEMMA OthersGoOn ==
  ASSUME LinksInv, NEW h \in Healer, Advances(h), NEW k \in Healer \ {h}
  PROVE  HealShaped(k)' /\ FromIsNow(k)' /\ ReportsTruly(k)'
<1>1. healOf'[k] = healOf[k] /\ healOf[k] \in HealRecord
  BY DEF Advances, LinksInv, LinksTyped
<1>2. Entry(k)' = Entry(k) /\ (healOf[k].todo # {} => Entry(k) \in Name)
  BY <1>1, EntryIs DEF HealRecord
<1>3. HealShaped(k)'
  <2>1. HealShaped(k)
    BY DEF LinksInv
  <2>2. healOf'[k].step \notin {"idle", "ignore", "after"} => shareIgnored'
    BY <1>1, <2>1 DEF Advances, HealShaped
  <2>3. healOf'[k].step \in EntryPhase \cup {"stale"} => registryDir' = "dir"
    BY <1>1, <2>1 DEF Advances, HealShaped
  <2>4. healOf'[k].step = "unlink entry" => linkPlace'[Entry(k)'] # "real"
    BY <1>1, <1>2, <2>1 DEF Advances, HealShaped
  <2> QED
    BY <1>1, <2>1, <2>2, <2>3, <2>4 DEF HealShaped
<1>4. FromIsNow(k)'
  <2>1. CASE batch'.disturbed = batch.disturbed
    BY SameCatalogue, <1>1, <2>1 DEF Advances, LinksInv, FromIsNow
  <2>2. CASE batch'.disturbed
    BY <2>2 DEF FromIsNow
  <2> QED
    BY <2>1, <2>2 DEF Advances
<1>5. batch'.alone => healOf'[k].step = "idle"
  BY <1>1 DEF Advances, LinksInv, OnlyOne
<1>6. ReportsTruly(k)'
  BY <1>5 DEF ReportsTruly
<1> QED
  BY <1>3, <1>4, <1>6

\* It is enough to look at the heal itself and at what is left to be mended.
LEMMA AdvanceEnough ==
  ASSUME LinksInv, NEW h \in Healer, Advances(h), LinksTyped', PlacesIn', linkHarm' = {}, StillMended',
         HealShaped(h)', FromIsNow(h)', ReportsTruly(h)'
  PROVE  LinksInv'
<1>1. OnlyOne'
  BY DEF Advances, LinksInv, OnlyOne
<1>2. \A k \in Healer : HealShaped(k)' /\ FromIsNow(k)' /\ ReportsTruly(k)'
  BY OthersGoOn
<1> QED
  BY <1>1, <1>2 DEF LinksInv

\* A heal that reports an error promises nothing more, and its overlap neither.
LEMMA HealErrSound ==
  ASSUME LinksInv, NEW h \in Healer, healOf[h].step # "idle", HealErr(h),
         UNCHANGED <<shipped, unpacked, ownEntry, registryDir, subDir, linkPlace, shareLink, shareIgnored,
                     healCount, linkChanges, linkHarm>>, linkFaults' \in 0..MaxLinkFaults
  PROVE  LinksInv'
<1> DEFINE r == [NoHeal EXCEPT !.step = "after", !.error = TRUE]
<1>1. r \in HealRecord /\ r.step = "after" /\ r.todo = {} /\ r.error
  BY NoHealIs
<1>2. healOf' = [healOf EXCEPT ![h] = r] /\ batch' = [batch EXCEPT !.error = TRUE]
  BY DEF HealErr
<1> HIDE DEF r
<1>3. healOf'[h] = r /\ healOf' \in [Healer -> HealRecord] /\ \A k \in Healer \ {h} : healOf'[k] = healOf[k]
  BY <1>1, <1>2 DEF LinksInv, LinksTyped
<1>4. /\ batch' \in [error : BOOLEAN, disturbed : BOOLEAN, alone : BOOLEAN, before : [Name -> Places]]
      /\ batch'.error /\ batch'.disturbed = batch.disturbed /\ batch'.alone = batch.alone
  BY <1>2 DEF LinksInv, LinksTyped
<1>5. Advances(h)
  BY <1>3, <1>4 DEF Advances
<1>6. LinksTyped' /\ PlacesIn' /\ linkHarm' = {}
  BY <1>3, <1>4 DEF LinksInv, LinksTyped, PlacesIn
<1>7. StillMended'
  BY <1>4 DEF StillMended
<1>8. HealShaped(h)' /\ FromIsNow(h)' /\ ReportsTruly(h)'
  BY <1>1, <1>3 DEF HealShaped, FromIsNow, ReportsTruly, EntryPhase
<1> QED
  BY <1>5, <1>6, <1>7, <1>8, AdvanceEnough

LEMMA BreaksSound == ASSUME LinksInv, NEW h \in Healer, HealBreaks(h) PROVE LinksInv'
<1>1. linkFaults' \in 0..MaxLinkFaults
  BY LinksAssumption DEF HealBreaks, LinkFault, LinksInv, LinksTyped
<1>2. CASE HealErr(h)
  BY <1>1, <1>2, HealErrSound DEF HealBreaks, HealFrame
<1>3. CASE healOf' = [healOf EXCEPT ![h] = NoHeal] /\ Disturb
  <2>1. healOf'[h] = NoHeal /\ healOf' \in [Healer -> HealRecord] /\ \A k \in Healer \ {h} : healOf'[k] = healOf[k]
    BY <1>3, NoHealIs DEF LinksInv, LinksTyped
  <2>2. /\ batch' \in [error : BOOLEAN, disturbed : BOOLEAN, alone : BOOLEAN, before : [Name -> Places]]
        /\ batch'.disturbed /\ batch'.alone = batch.alone
    BY <1>3 DEF Disturb, LinksInv, LinksTyped
  <2>3. Advances(h)
    BY <2>1, <2>2 DEF Advances, HealBreaks, HealFrame
  <2>4. LinksTyped' /\ PlacesIn' /\ linkHarm' = {}
    BY <1>1, <2>1, <2>2 DEF LinksInv, LinksTyped, PlacesIn, HealBreaks, HealFrame
  <2>5. StillMended'
    BY <2>2 DEF StillMended
  <2>6. HealShaped(h)' /\ FromIsNow(h)' /\ ReportsTruly(h)'
    BY <2>1 DEF HealShaped, FromIsNow, ReportsTruly, EntryPhase, NoHeal
  <2> QED
    BY <2>3, <2>4, <2>5, <2>6, AdvanceEnough
<1> QED
  BY <1>2, <1>3 DEF HealBreaks

\* A heal on its way to the entries has all of them to come; what of the shared link
\* it leaves behind must be in order, or before another heal.
Underway == SharePhase \cup DirPhase \cup {"stale"}
SharedSettled ==
  ~batch.error /\ ~batch.disturbed => ~ShareFixable \/ \E k \in Healer : healOf[k].step \in SharePhase

LEMMA MovesOn ==
  ASSUME LinksInv, NEW h \in Healer, NEW s \in Underway \ {"ignore"},
         healOf[h].step \in SharePhase \cup DirPhase, GoTo(h, s), HealFrame,
         UNCHANGED <<subDir, linkPlace, linkFaults, batch, linkHarm>>,
         registryDir' \in {"missing", "link", "file", "dir"}, registryDir = "dir" => registryDir' = "dir",
         shareLink' \in {"missing", "right", "wrong", "real"}, shareIgnored' = TRUE,
         s = "stale" => registryDir' = "dir", s \in SharePhase \/ SharedSettled'
  PROVE  LinksInv'
<1>1. healOf[h].step \in SharePhase \cup DirPhase /\ healOf \in [Healer -> HealRecord] /\ s \in HealSteps
  BY DEF LinksInv, LinksTyped, HealSteps, Underway, SharePhase, DirPhase
<1>2. /\ healOf' \in [Healer -> HealRecord] /\ \A k \in Healer \ {h} : healOf'[k] = healOf[k]
      /\ healOf'[h].step = s /\ healOf'[h].todo = healOf[h].todo /\ healOf'[h].from = healOf[h].from
      /\ healOf'[h].changed = healOf[h].changed /\ healOf'[h].existed = healOf[h].existed
      /\ healOf'[h].error = healOf[h].error
  BY <1>1, GoesTo
<1>3. UNCHANGED <<shipped, unpacked, ownEntry, healCount, linkChanges>>
  BY DEF HealFrame
<1>4. Advances(h)
  BY <1>1, <1>2, <1>3 DEF Advances, SharePhase, DirPhase
<1>5. LinksTyped' /\ linkHarm' = {}
  BY <1>2, <1>3 DEF LinksInv, LinksTyped
<1>6. PlacesIn'
  BY DEF LinksInv, PlacesIn
<1>7. StillMended'
  BY <1>2 DEF ComesTo, Underway, MissingNames, WrongNames, StaleNames, OwnedLinks, ActiveRegistry, SharedSettled, StillMended
<1>8. HealShaped(h)' /\ FromIsNow(h)'
  BY <1>2 DEF LinksInv, HealShaped, FromIsNow, EntryPhase, Underway, SharePhase, DirPhase
<1>9. ReportsTruly(h)'
  BY <1>2, <1>1, <1>3, SameCatalogue DEF LinksInv, EntryPhase, Underway, SharePhase, DirPhase, ReportsTruly
<1> QED
  BY <1>4, <1>5, <1>6, <1>7, <1>8, <1>9, AdvanceEnough

\* A heal that is not at the shared link leaves it as it found it.
LEMMA SharedStays ==
  ASSUME LinksInv, NEW h \in Healer, Advances(h), healOf[h].step \notin SharePhase,
         UNCHANGED <<shareLink, shareIgnored>>, batch'.error = batch.error
  PROVE  SharedSettled'
<1>1. CASE batch'.disturbed \/ batch'.error
  BY <1>1 DEF SharedSettled
<1>2. CASE ~batch'.disturbed /\ ~batch'.error
  <2>1. ~batch.disturbed /\ ~batch.error
    BY <1>2 DEF Advances
  <2>2. ShareFixable' <=> ShareFixable
    BY DEF ShareFixable
  <2>3. CASE ShareFixable
    BY <2>1, <2>3 DEF LinksInv, StillMended, Advances, SharedSettled
  <2>4. CASE ~ShareFixable
    BY <2>2, <2>4 DEF SharedSettled
  <2> QED
    BY <2>3, <2>4
<1> QED
  BY <1>1, <1>2

LEMMA IgnoreSound == ASSUME LinksInv, NEW h \in Healer, EnsureShareIgnored(h) PROVE LinksInv'
BY MovesOn DEF EnsureShareIgnored, LinksInv, LinksTyped, Underway, SharePhase

LEMMA ShareLinkSound == ASSUME LinksInv, NEW h \in Healer, ApplyShareLink(h) PROVE LinksInv'
<1>1. /\ HealFrame /\ UNCHANGED <<registryDir, subDir, linkPlace, shareIgnored, linkFaults, linkHarm>>
      /\ healOf[h].step \in {"look", "unlink share", "link share"}
  BY DEF ApplyShareLink
<1>2. /\ shareIgnored /\ shareIgnored \in BOOLEAN /\ healOf[h].step \in SharePhase
      /\ registryDir \in {"missing", "link", "file", "dir"} /\ shareLink \in {"missing", "right", "wrong", "real"}
  BY <1>1 DEF LinksInv, LinksTyped, HealShaped, SharePhase
<1>3. CASE HealErr(h) /\ UNCHANGED shareLink
  BY <1>1, <1>2, <1>3, HealErrSound DEF HealFrame, LinksInv, LinksTyped, SharePhase
<1>4. CASE ~(HealErr(h) /\ UNCHANGED shareLink)
  <2>1. PICK s \in {"link share", "unlink share", "prepare"} :
          /\ GoTo(h, s) /\ UNCHANGED batch /\ shareLink' \in {"missing", "right", "wrong", "real"}
          /\ s = "prepare" => shareLink' \in {"right", "real"}
    BY <1>1, <1>2, <1>4 DEF ApplyShareLink
  <2>2. s \in SharePhase \/ SharedSettled'
    BY <1>1, <1>2, <2>1 DEF SharePhase, SharedSettled, ShareFixable
  <2>3. s \in Underway \ {"ignore"} /\ s # "stale"
    BY DEF Underway, SharePhase, DirPhase
  <2> QED
    BY <1>1, <1>2, <2>1, <2>2, <2>3, MovesOn
<1> QED
  BY <1>3, <1>4

LEMMA PrepareSound == ASSUME LinksInv, NEW h \in Healer, PrepareRegistryDir(h) PROVE LinksInv'
<1>1. /\ HealFrame /\ UNCHANGED <<subDir, linkPlace, shareLink, shareIgnored, linkFaults, linkHarm>>
      /\ healOf[h].step \in DirPhase
  BY DEF PrepareRegistryDir, DirPhase
<1>2. /\ shareIgnored /\ shareIgnored \in BOOLEAN /\ healOf[h].step \notin SharePhase
      /\ registryDir \in {"missing", "link", "file", "dir"} /\ shareLink \in {"missing", "right", "wrong", "real"}
  BY <1>1 DEF LinksInv, LinksTyped, HealShaped, SharePhase, DirPhase
<1>3. CASE HealErr(h) /\ UNCHANGED registryDir
  BY <1>1, <1>2, <1>3, HealErrSound DEF HealFrame, LinksInv, LinksTyped, DirPhase
<1>4. CASE ~(HealErr(h) /\ UNCHANGED registryDir)
  <2>1. PICK s \in {"unlink dir", "make dir", "stale", "after"} :
          /\ GoTo(h, s) /\ UNCHANGED batch /\ registryDir' \in {"missing", "link", "file", "dir"}
          /\ registryDir = "dir" => registryDir' = "dir"
          /\ s = "stale" => registryDir' = "dir"
          /\ s = "after" => registryDir' = registryDir /\ registryDir = "file"
    BY <1>1, <1>2, <1>4 DEF PrepareRegistryDir
  <2>2. /\ healOf' \in [Healer -> HealRecord] /\ \A k \in Healer \ {h} : healOf'[k] = healOf[k]
        /\ healOf'[h].step = s /\ healOf'[h].todo = healOf[h].todo /\ healOf'[h].from = healOf[h].from
        /\ healOf'[h].changed = healOf[h].changed /\ healOf'[h].existed = healOf[h].existed
        /\ healOf'[h].error = healOf[h].error
    BY <2>1, GoesTo DEF LinksInv, LinksTyped, HealSteps
  <2>3. Advances(h)
    BY <1>1, <2>1, <2>2 DEF Advances, HealFrame, DirPhase
  <2>4. SharedSettled'
    BY <1>1, <1>2, <2>1, <2>3, SharedStays
  <2>5. CASE s # "after"
    BY <2>1, <2>5, <1>1, <1>2, <2>4, MovesOn DEF Underway, SharePhase, DirPhase
  <2>6. CASE s = "after"
    <3>1. LinksTyped' /\ PlacesIn' /\ linkHarm' = {}
      BY <1>1, <2>1, <2>2 DEF LinksInv, LinksTyped, PlacesIn, HealFrame
    <3>2. StillMended'
      BY <2>1, <2>4, <2>6 DEF StillMended, SharedSettled
    <3>3. HealShaped(h)' /\ FromIsNow(h)'
      BY <2>2, <2>6 DEF LinksInv, HealShaped, FromIsNow, EntryPhase
    <3>4. ReportsTruly(h)'
      BY <1>1, <2>1, <2>2, <2>6 DEF LinksInv, ReportsTruly, DirPhase
    <3> QED
      BY <2>3, <3>1, <3>2, <3>3, <3>4, AdvanceEnough
  <2> QED
    BY <2>5, <2>6
<1> QED
  BY <1>3, <1>4

\* The catalogue is read, and what is not in it goes.
LEMMA StaleSound == ASSUME LinksInv, NEW h \in Healer, RemoveStale(h) PROVE LinksInv'
<1> DEFINE now == [n \in Name |-> ResolveRegistry(n)]
           r == [healOf[h] EXCEPT !.step = "entry", !.todo = ActiveRegistry, !.from = now]
<1>1. /\ healOf[h].step = "stale" /\ healOf \in [Healer -> HealRecord] /\ healOf[h] \in HealRecord
      /\ linkPlace' = [n \in Name |-> IF n \in StaleNames THEN "none" ELSE linkPlace[n]]
      /\ UNCHANGED <<shipped, unpacked, ownEntry, healCount, linkChanges>>
      /\ UNCHANGED <<registryDir, subDir, shareLink, shareIgnored, linkFaults, batch, linkHarm>>
      /\ healOf' = [healOf EXCEPT ![h] = r]
  BY DEF RemoveStale, HealFrame, LinksInv, LinksTyped
<1>2. now \in [Name -> {"none", "share", "local"}] /\ ActiveRegistry \subseteq Name
  BY ResolvedIs
<1>3. r \in HealRecord /\ r.step = "entry" /\ r.todo = ActiveRegistry /\ r.from = now
      /\ r.changed = healOf[h].changed /\ r.existed = healOf[h].existed /\ r.error = healOf[h].error
  BY <1>1, <1>2 DEF HealRecord, HealSteps
<1>4. /\ healOf' \in [Healer -> HealRecord] /\ \A k \in Healer \ {h} : healOf'[k] = healOf[k]
      /\ healOf'[h] = r
  <2> HIDE DEF r
  <2> QED
    BY <1>1, <1>3
<1> HIDE DEF r
<1>5. registryDir = "dir" /\ shareIgnored /\ linkPlace \in [Name -> Places]
  BY <1>1 DEF LinksInv, HealShaped, LinksTyped
<1>6. \A n \in Name : linkPlace'[n] = IF n \in StaleNames THEN "none" ELSE linkPlace[n]
  BY <1>1
<1>7. Advances(h)
  BY <1>1, <1>4, <1>6 DEF Advances
<1>8. LinksTyped' /\ PlacesIn' /\ linkHarm' = {}
  BY <1>1, <1>5, <1>6, LinksAssumption, <1>4 DEF Places, LinksInv, PlacesIn, LinksTyped
<1>9. SharedSettled'
  BY <1>1, <1>7, SharedStays DEF SharePhase
<1>10. ActiveRegistry' = ActiveRegistry /\ \A n \in Name : ResolveRegistry(n)' = ResolveRegistry(n)
  BY <1>1, SameCatalogue
<1>11. StillMended'
  <2>1. ASSUME NEW n \in (MissingNames \cup WrongNames \cup StaleNames)' PROVE n \in ActiveRegistry
    BY <2>1, <1>10, ResolvedIs, <1>6 DEF MissingNames, WrongNames, StaleNames, OwnedLinks
  <2>2. \A n \in (MissingNames \cup WrongNames \cup StaleNames)' : ComesTo(h, n)'
    BY <1>3, <1>4, <2>1 DEF ComesTo, EntryPhase
  <2> QED
    BY <1>1, <1>5, <1>9, <2>2 DEF StillMended, SharedSettled
<1>12. HealShaped(h)'
  BY <1>1, <1>3, <1>4, <1>5, ResolvedIs DEF HealShaped, EntryPhase
<1>13. FromIsNow(h)'
  BY <1>3, <1>4, <1>10 DEF FromIsNow
<1>14. ReportsTruly(h)'
  BY <1>1, <1>3, <1>4, <1>5, <1>6, <1>10, SameCatalogue DEF ReportsTruly, LinksInv, NameAt, StaleNames, OwnedLinks, Places,
     SharePhase, DirPhase
<1> QED
  BY <1>7, <1>8, <1>11, <1>12, <1>13, <1>14, AdvanceEnough

\* What a step among the entries has to show of the names to be mended.
LEMMA EntriesMended ==
  ASSUME LinksInv, NEW h \in Healer, Advances(h), healOf[h].step \in EntryPhase,
         UNCHANGED <<shareLink, shareIgnored, batch, registryDir>>,
         ~batch.disturbed => \A n \in Name :
           /\ ComesTo(h, n) /\ n \in (MissingNames \cup WrongNames \cup StaleNames)' => ComesTo(h, n)'
           /\ n \in (MissingNames \cup WrongNames \cup StaleNames)' =>
                n \in MissingNames \cup WrongNames \cup StaleNames \/ ComesTo(h, n)'
  PROVE  StillMended'
<1>1. SharedSettled'
  BY SharedStays DEF EntryPhase, SharePhase
<1>2. registryDir' = "dir"
  BY DEF LinksInv, HealShaped
<1>3. ASSUME ~batch.error, ~batch.disturbed, NEW n \in (MissingNames \cup WrongNames \cup StaleNames)'
      PROVE  \E k \in Healer : ComesTo(k, n)'
  <2>1. n \in Name
    BY <1>3, SameCatalogue, ResolvedIs DEF MissingNames, WrongNames, StaleNames, OwnedLinks, Advances
  <2>2. CASE ComesTo(h, n)'
    BY <2>2
  <2>3. CASE ~ComesTo(h, n)'
    BY <1>3, <2>1, <2>3, <1>2 DEF LinksInv, StillMended, Advances, ComesTo
  <2> QED
    BY <2>2, <2>3
<1> QED
  BY <1>1, <1>2, <1>3 DEF StillMended, SharedSettled

LEMMA EntrySound == ASSUME LinksInv, NEW h \in Healer, ApplyEntry(h) PROVE LinksInv'
<1> DEFINE e == Entry(h)
<1>1. /\ healOf[h].step = "entry" /\ healOf[h].todo # {} /\ healOf \in [Healer -> HealRecord]
      /\ HealFrame /\ UNCHANGED <<registryDir, linkPlace, shareLink, shareIgnored, linkFaults, linkHarm>>
  BY DEF ApplyEntry, LinksInv, LinksTyped
<1>2. e \in Name /\ e \in healOf[h].todo /\ healOf[h].todo \subseteq Name
  BY <1>1, EntryIs DEF HealRecord
<1>3. CASE HealErr(h) /\ UNCHANGED subDir
  BY <1>1, <1>3, HealErrSound DEF HealFrame, LinksInv, LinksTyped
<1>4. CASE ~(HealErr(h) /\ UNCHANGED subDir)
  <2>1. /\ ~(e \in Nested /\ subDir = "file") /\ subDir' = (IF e \in Nested THEN "dir" ELSE subDir)
        /\ UNCHANGED batch
        /\ \/ linkPlace[e] = "real" /\ NextEntry(h)
           \/ linkPlace[e] = "none" /\ GoTo(h, "link entry")
           \/ linkPlace[e] \notin {"real", "none"} /\ GoTo(h, "unlink entry")
    BY <1>4 DEF ApplyEntry
  <2>2. PICK s \in {"entry", "link entry", "unlink entry"} :
          /\ healOf' \in [Healer -> HealRecord] /\ \A k \in Healer \ {h} : healOf'[k] = healOf[k]
          /\ healOf'[h].step = s /\ healOf'[h].from = healOf[h].from
          /\ healOf'[h].todo = IF s = "entry" THEN healOf[h].todo \ {e} ELSE healOf[h].todo
          /\ healOf'[h].changed = healOf[h].changed /\ healOf'[h].existed = healOf[h].existed
          /\ healOf'[h].error = healOf[h].error
          /\ s = "entry" => linkPlace[e] = "real"
          /\ s = "link entry" => linkPlace[e] = "none"
          /\ s = "unlink entry" => linkPlace[e] \notin {"real", "none"}
    BY <1>1, NextEntryIs, GoesTo, <2>1 DEF HealSteps
  <2>3. UNCHANGED <<shipped, unpacked, ownEntry, healCount, linkChanges>>
    BY <1>1 DEF HealFrame
  <2>4. Advances(h)
    BY <1>1, <2>1, <2>2, <2>3 DEF Advances
  <2>5. LinksTyped' /\ PlacesIn' /\ linkHarm' = {}
    BY <1>1, <2>1, <2>2, <2>3 DEF LinksInv, LinksTyped, PlacesIn
  <2>6. ActiveRegistry' = ActiveRegistry /\ \A n \in Name : ResolveRegistry(n)' = ResolveRegistry(n)
    BY <2>3, SameCatalogue
  <2>7. FromIsNow(h)' /\ healOf'[h].todo \subseteq healOf[h].todo
    BY <1>1, <2>1, <2>2, <2>6 DEF LinksInv, FromIsNow, EntryPhase
  <2>8. StillMended'
    BY <1>1, <2>6, <2>2, <2>1, <2>4, EntriesMended DEF MissingNames, WrongNames, StaleNames, OwnedLinks, ActiveRegistry,
       ComesTo, EntryPhase, SharePhase, DirPhase
  <2>9. Entry(h)' = FirstOf(healOf'[h].todo) /\ (healOf'[h].todo = healOf[h].todo => Entry(h)' = e)
    BY EntryIs
  <2>10. HealShaped(h)'
    BY <1>1, <1>2, <2>2, <2>7, <2>9 DEF LinksInv, HealShaped, EntryPhase
  <2>11. ReportsTruly(h)'
    <3> SUFFICES ASSUME batch.alone, ~batch.disturbed, ~healOf[h].error, healOf[h].existed PROVE ReportsTruly(h)'
      BY <2>1, <2>2 DEF ReportsTruly
    <3>1. /\ registryDir = "dir" /\ healOf[h].changed = MendsOf(batch.before)
          /\ \A n \in Name : NameAt(h, n)
      BY <1>1 DEF LinksInv, ReportsTruly, EntryPhase
    <3>2. e \in ActiveRegistry
      BY <1>1, <1>2, ResolvedIs DEF LinksInv, HealShaped, FromIsNow, EntryPhase
    <3>3. \A n \in Name : ResolveRegistry(n) # "real"
      BY ResolvedIs
    <3>4. ASSUME NEW n \in Name PROVE NameAt(h, n)'
      <4>1. NameAt(h, n)
        BY <3>1
      <4> QED
        BY <1>1, <1>2, <2>1, <2>2, <2>6, <2>9, <3>2, <3>3, <4>1 DEF NameAt
    <3>5. MendsOf(batch.before)' = MendsOf(batch.before)
      BY <2>1, <2>3, SameCatalogue
    <3> QED
      BY <1>1, <2>2, <3>1, <3>4, <3>5 DEF ReportsTruly, SharePhase, DirPhase
  <2> QED
    BY <2>4, <2>5, <2>7, <2>8, <2>10, <2>11, AdvanceEnough
<1> QED
  BY <1>3, <1>4

LEMMA ReplaceSound == ASSUME LinksInv, NEW h \in Healer, ReplaceEntry(h) PROVE LinksInv'
<1> DEFINE e == Entry(h)
<1>1. /\ healOf[h].step = "unlink entry" /\ healOf \in [Healer -> HealRecord] /\ linkPlace \in [Name -> Places]
      /\ HealFrame /\ UNCHANGED <<registryDir, subDir, shareLink, shareIgnored, linkFaults>>
  BY DEF ReplaceEntry, LinksInv, LinksTyped
<1>2. e \in Name /\ e \in healOf[h].todo /\ linkPlace[e] # "real" /\ healOf[h].from[e] # "none"
  BY <1>1, EntryIs DEF HealRecord, LinksInv, HealShaped
<1>3. CASE linkPlace[e] = "none"
  BY <1>1, <1>3, HealErrSound DEF ReplaceEntry, HealFrame, LinksInv, LinksTyped
<1>4. CASE linkPlace[e] # "none"
  <2>1. /\ linkPlace' = [linkPlace EXCEPT ![e] = "none"] /\ GoTo(h, "link entry") /\ UNCHANGED <<batch, linkHarm>>
    BY <1>2, <1>4 DEF ReplaceEntry, Taken
  <2>2. /\ healOf' \in [Healer -> HealRecord] /\ \A k \in Healer \ {h} : healOf'[k] = healOf[k]
        /\ healOf'[h].step = "link entry" /\ healOf'[h].todo = healOf[h].todo /\ healOf'[h].from = healOf[h].from
        /\ healOf'[h].changed = healOf[h].changed /\ healOf'[h].existed = healOf[h].existed
        /\ healOf'[h].error = healOf[h].error
    BY <1>1, <2>1, GoesTo DEF HealSteps
  <2>3. UNCHANGED <<shipped, unpacked, ownEntry, healCount, linkChanges>>
    BY <1>1 DEF HealFrame
  <2>4. /\ linkPlace' \in [Name -> Places] /\ linkPlace'[e] = "none"
        /\ \A n \in Name \ {e} : linkPlace'[n] = linkPlace[n]
    BY <1>1, <1>2, <2>1 DEF Places
  <2>5. Advances(h)
    BY <1>1, <2>1, <2>2, <2>3, <2>4 DEF Advances
  <2>6. PlacesIn'
    BY <1>1, <2>4, LinksAssumption DEF LinksInv, PlacesIn
  <2>7. LinksTyped' /\ linkHarm' = {}
    BY <1>1, <2>1, <2>2, <2>3, <2>4 DEF LinksInv, LinksTyped
  <2>8. ActiveRegistry' = ActiveRegistry /\ \A n \in Name : ResolveRegistry(n)' = ResolveRegistry(n)
    BY <2>3, SameCatalogue
  <2>9. FromIsNow(h)'
    BY <1>1, <2>1, <2>2, <2>8 DEF LinksInv, FromIsNow, EntryPhase
  <2>10. StillMended'
    BY <1>1, <1>2, <2>2, <2>4, <2>8, <2>1, <2>5, EntriesMended DEF ComesTo, EntryPhase, SharePhase, DirPhase, MissingNames,
       WrongNames, StaleNames, OwnedLinks
  <2>11. HealShaped(h)'
    BY <1>1, <2>2 DEF LinksInv, HealShaped, EntryPhase
  <2>12. Entry(h)' = e
    BY <2>2, EntryIs
  <2>13. ReportsTruly(h)'
    <3> SUFFICES ASSUME batch.alone, ~batch.disturbed, ~healOf[h].error, healOf[h].existed PROVE ReportsTruly(h)'
      BY <2>1, <2>2 DEF ReportsTruly
    <3>1. /\ registryDir = "dir" /\ healOf[h].changed = MendsOf(batch.before)
          /\ \A n \in Name : NameAt(h, n)
      BY <1>1 DEF LinksInv, ReportsTruly, EntryPhase
    <3>2. e \in ActiveRegistry
      BY <1>1, <1>2, ResolvedIs DEF LinksInv, FromIsNow, EntryPhase
    <3>3. ASSUME NEW n \in Name PROVE NameAt(h, n)'
      <4>1. NameAt(h, n)
        BY <3>1
      <4> QED
        BY <1>1, <1>2, <2>1, <2>2, <2>4, <2>8, <2>12, <3>2, <4>1 DEF NameAt
    <3>4. MendsOf(batch.before)' = MendsOf(batch.before)
      BY <2>1, <2>3, SameCatalogue
    <3> QED
      BY <1>1, <2>2, <3>1, <3>3, <3>4 DEF ReportsTruly, SharePhase, DirPhase
  <2> QED
    BY <2>5, <2>6, <2>7, <2>9, <2>10, <2>11, <2>13, AdvanceEnough
<1> QED
  BY <1>3, <1>4

LEMMA LinkSound == ASSUME LinksInv, NEW h \in Healer, LinkEntry(h) PROVE LinksInv'
<1> DEFINE e == Entry(h)
<1>1. /\ healOf[h].step = "link entry" /\ healOf \in [Healer -> HealRecord] /\ linkPlace \in [Name -> Places]
      /\ HealFrame /\ UNCHANGED <<registryDir, subDir, shareLink, shareIgnored, linkFaults, linkHarm>>
      /\ registryDir = "dir"
  BY DEF LinkEntry, LinksInv, LinksTyped, HealShaped, EntryPhase
<1>2. e \in Name /\ e \in healOf[h].todo /\ healOf[h].from[e] \in {"share", "local"}
  <2>1. /\ healOf[h].todo \in SUBSET Name /\ healOf[h].todo # {}
        /\ healOf[h].from \in [Name -> {"none", "share", "local"}]
        /\ \A n \in healOf[h].todo : healOf[h].from[n] # "none"
    BY <1>1 DEF HealRecord, LinksInv, HealShaped
  <2>2. e \in healOf[h].todo
    BY <2>1, EntryIs
  <2> QED
    BY <2>1, <2>2
<1>3. CASE linkPlace[e] # "none" \/ (e \in Nested /\ subDir # "dir")
  BY <1>1, <1>3, HealErrSound DEF LinkEntry, HealFrame, LinksInv, LinksTyped
<1>4. CASE ~(linkPlace[e] # "none" \/ (e \in Nested /\ subDir # "dir"))
  <2>1. /\ linkPlace' = [linkPlace EXCEPT ![e] = healOf[h].from[e]] /\ NextEntry(h) /\ UNCHANGED batch
    BY <1>4 DEF LinkEntry
  <2>2. /\ healOf' \in [Healer -> HealRecord] /\ \A k \in Healer \ {h} : healOf'[k] = healOf[k]
        /\ healOf'[h].step = "entry" /\ healOf'[h].todo = healOf[h].todo \ {e} /\ healOf'[h].from = healOf[h].from
        /\ healOf'[h].changed = healOf[h].changed /\ healOf'[h].existed = healOf[h].existed
        /\ healOf'[h].error = healOf[h].error
    BY <1>1, <2>1, NextEntryIs
  <2>3. UNCHANGED <<shipped, unpacked, ownEntry, healCount, linkChanges>>
    BY <1>1 DEF HealFrame
  <2>4. /\ linkPlace' \in [Name -> Places] /\ linkPlace'[e] = healOf[h].from[e]
        /\ \A n \in Name \ {e} : linkPlace'[n] = linkPlace[n]
    BY <1>1, <1>2, <2>1 DEF Places
  <2>5. Advances(h)
    BY <1>1, <1>2, <2>1, <2>2, <2>3, <2>4 DEF Advances
  <2>6. PlacesIn'
    BY <1>1, <1>4, <2>4, LinksAssumption DEF LinksInv, PlacesIn
  <2>7. LinksTyped' /\ linkHarm' = {}
    BY <1>1, <2>1, <2>2, <2>3, <2>4 DEF LinksInv, LinksTyped
  <2>8. ActiveRegistry' = ActiveRegistry /\ \A n \in Name : ResolveRegistry(n)' = ResolveRegistry(n)
    BY <2>3, SameCatalogue
  <2>9. FromIsNow(h)'
    BY <1>1, <2>1, <2>2, <2>8 DEF LinksInv, FromIsNow, EntryPhase
  <2>10. ~batch.disturbed => e \in ActiveRegistry /\ linkPlace'[e] = ResolveRegistry(e)
    BY <1>1, <1>2, <2>4, ResolvedIs DEF LinksInv, FromIsNow, EntryPhase
  <2>11. StillMended'
    <3>1. \A n \in Name \ {e} : ComesTo(h, n) => ComesTo(h, n)'
      BY <1>1, <2>2 DEF ComesTo, EntryPhase, SharePhase, DirPhase
    <3>2. ASSUME NEW n \in Name \ {e}, n \in (MissingNames \cup WrongNames \cup StaleNames)'
          PROVE  n \in MissingNames \cup WrongNames \cup StaleNames
      BY <2>4, <2>8, <3>2 DEF MissingNames, WrongNames, StaleNames, OwnedLinks
    <3>3. ~batch.disturbed => e \notin (MissingNames \cup WrongNames \cup StaleNames)'
      BY <1>2, <2>4, <2>8, <2>10 DEF MissingNames, WrongNames, StaleNames, OwnedLinks
    <3> QED
      BY <1>1, <2>1, <2>5, <3>1, <3>2, <3>3, EntriesMended DEF EntryPhase
  <2>12. HealShaped(h)'
    BY <1>1, <2>2 DEF LinksInv, HealShaped, EntryPhase
  <2>13. ReportsTruly(h)'
    <3> SUFFICES ASSUME batch.alone, ~batch.disturbed, ~healOf[h].error, healOf[h].existed PROVE ReportsTruly(h)'
      BY <2>1, <2>2 DEF ReportsTruly
    <3>1. /\ healOf[h].changed = MendsOf(batch.before) /\ \A n \in Name : NameAt(h, n)
      BY <1>1 DEF LinksInv, ReportsTruly, EntryPhase
    <3>2. batch.before[e] # "real"
      BY <1>2, <3>1, <2>10, <1>1 DEF NameAt
    <3>3. ASSUME NEW n \in Name PROVE NameAt(h, n)'
      <4>1. NameAt(h, n)
        BY <3>1
      <4>2. CASE n = e
        BY <1>1, <1>2, <2>1, <2>2, <2>4, <2>8, <2>10, <3>2, <4>2 DEF NameAt
      <4>3. CASE n # e
        BY <1>1, <1>2, <2>1, <2>2, <2>4, <2>8, <4>1, <4>3 DEF NameAt
      <4> QED
        BY <4>2, <4>3
    <3>4. MendsOf(batch.before)' = MendsOf(batch.before)
      BY <2>1, <2>3, SameCatalogue
    <3> QED
      BY <1>1, <2>2, <3>1, <3>3, <3>4 DEF ReportsTruly, SharePhase, DirPhase
  <2> QED
    BY <2>5, <2>6, <2>7, <2>9, <2>11, <2>12, <2>13, AdvanceEnough
<1> QED
  BY <1>3, <1>4

LEMMA EmptyDirsSound == ASSUME LinksInv, NEW h \in Healer, RemoveEmptyDirs(h) PROVE LinksInv'
<1>1. /\ healOf[h].step = "entry" /\ healOf[h].todo = {} /\ healOf \in [Healer -> HealRecord] /\ GoTo(h, "after")
      /\ UNCHANGED <<shipped, unpacked, ownEntry, healCount, linkChanges>>
      /\ UNCHANGED <<registryDir, linkPlace, shareLink, shareIgnored, linkFaults, batch, linkHarm>>
      /\ subDir' = IF subDir = "dir" /\ \A n \in Nested : linkPlace[n] = "none" THEN "missing" ELSE subDir
  BY DEF RemoveEmptyDirs, HealFrame, LinksInv, LinksTyped
<1>2. /\ healOf' \in [Healer -> HealRecord] /\ \A k \in Healer \ {h} : healOf'[k] = healOf[k]
      /\ healOf'[h].step = "after" /\ healOf'[h].todo = healOf[h].todo /\ healOf'[h].from = healOf[h].from
      /\ healOf'[h].changed = healOf[h].changed /\ healOf'[h].existed = healOf[h].existed
      /\ healOf'[h].error = healOf[h].error
  BY <1>1, GoesTo DEF HealSteps
<1>3. Advances(h)
  BY <1>1, <1>2 DEF Advances
<1>4. LinksTyped' /\ PlacesIn' /\ linkHarm' = {}
  BY <1>1, <1>2 DEF LinksInv, LinksTyped, PlacesIn
<1>5. ActiveRegistry' = ActiveRegistry /\ \A n \in Name : ResolveRegistry(n)' = ResolveRegistry(n)
  BY <1>1, SameCatalogue
<1>6. StillMended'
  BY <1>1, <1>5, <1>3, EntriesMended DEF ComesTo, SharePhase, DirPhase, MissingNames, WrongNames, StaleNames, OwnedLinks,
     ActiveRegistry, EntryPhase
<1>7. HealShaped(h)' /\ FromIsNow(h)'
  BY <1>1, <1>2 DEF LinksInv, HealShaped, FromIsNow, EntryPhase
<1>8. ReportsTruly(h)'
  BY <1>1, <1>2, <1>5, SameCatalogue DEF ReportsTruly, LinksInv, EntryPhase, NameAt, SharePhase, DirPhase
<1> QED
  BY <1>3, <1>4, <1>6, <1>7, <1>8, AdvanceEnough

\* The report of a heal that had the overlap for itself names what has happened.
LEMMA ReportIsTrue ==
  ASSUME LinksInv, NEW h \in Healer, healOf[h].step = "after", batch.alone, ~batch.disturbed, ~healOf[h].error,
         healOf[h].existed
  PROVE  healOf[h].changed = Happened
<1>1. /\ healOf[h].changed = MendsOf(batch.before) /\ healOf[h].todo = {} /\ \A n \in Name : NameAt(h, n)
  BY DEF LinksInv, ReportsTruly
<1>2. /\ batch.before \in [Name -> Places] /\ ActiveRegistry \subseteq Name
      /\ \A n \in Name : ResolveRegistry(n) \in {"none", "share", "local"}
      /\ \A n \in Name : n \in ActiveRegistry <=> ResolveRegistry(n) # "none"
  BY ResolvedIs DEF LinksInv, LinksTyped
<1> DEFINE b == batch.before
<1>3. \A n \in Name :
        linkPlace[n] = IF n \notin ActiveRegistry THEN IF b[n] \in {"share", "local"} THEN "none" ELSE b[n]
                       ELSE IF b[n] = "real" THEN "real" ELSE ResolveRegistry(n)
  BY <1>1 DEF NameAt
<1>4. {n \in ActiveRegistry : b[n] = "none"} = {n \in Name : b[n] = "none" /\ linkPlace[n] # "none"}
  BY <1>2, <1>3
<1>5. {n \in Name : b[n] \in {"share", "local"}} \ ActiveRegistry = {n \in Name : b[n] # "none" /\ linkPlace[n] = "none"}
  BY <1>2, <1>3
<1>6. {n \in ActiveRegistry : b[n] \in {"share", "local", "foreign"} \ {ResolveRegistry(n)}}
        = {n \in Name : b[n] # "none" /\ linkPlace[n] \notin {"none", b[n]}}
  BY <1>2, <1>3 DEF Places
<1> QED
  BY <1>1, <1>4, <1>5, <1>6 DEF MendsOf, Happened

LEMMA ReportSound == ASSUME LinksInv, NEW h \in Healer, HealReports(h) PROVE LinksInv'
<1>1. /\ healOf[h].step = "after" /\ healOf' = [healOf EXCEPT ![h] = NoHeal]
      /\ UNCHANGED <<shipped, unpacked, ownEntry, healCount, linkChanges>>
      /\ UNCHANGED <<registryDir, subDir, linkPlace, shareLink, shareIgnored, linkFaults, batch>>
  BY DEF HealReports, HealFrame
<1>2. linkHarm' = {}
  BY <1>1, ReportIsTrue DEF HealReports, LinksInv
<1>3. healOf'[h] = NoHeal /\ healOf' \in [Healer -> HealRecord] /\ \A k \in Healer \ {h} : healOf'[k] = healOf[k]
  BY <1>1, NoHealIs DEF LinksInv, LinksTyped
<1>4. Advances(h)
  BY <1>1, <1>3 DEF Advances
<1>5. LinksTyped' /\ PlacesIn'
  BY <1>1, <1>3 DEF LinksInv, LinksTyped, PlacesIn
<1>6. StillMended'
  <2>1. SharedSettled'
    BY <1>1, <1>4, SharedStays DEF SharePhase
  <2>2. ~(healOf[h].step \in SharePhase \cup DirPhase) /\ \A n \in Name : ~ComesTo(h, n)
    BY <1>1 DEF ComesTo, SharePhase, DirPhase, EntryPhase
  <2>3. (MissingNames \cup WrongNames \cup StaleNames)' = MissingNames \cup WrongNames \cup StaleNames
    BY <1>1, SameCatalogue DEF MissingNames, WrongNames, StaleNames, OwnedLinks, ActiveRegistry
  <2>4. MissingNames \cup WrongNames \cup StaleNames \subseteq Name
    BY ResolvedIs DEF MissingNames, WrongNames, StaleNames, OwnedLinks
  <2>5. \A k \in Healer, n \in Name : ComesTo(k, n) => ComesTo(k, n)'
    BY <2>2, <1>3 DEF ComesTo
  <2>6. \A k \in Healer : healOf[k].step \in SharePhase \cup DirPhase => healOf'[k].step \in SharePhase \cup DirPhase
    BY <1>3, <2>2
  <2>7. ~batch.error /\ ~batch.disturbed => StillMended'
    BY <1>1, <2>3, <2>4, <2>5, <2>1, <2>6 DEF LinksInv, StillMended, SharedSettled
  <2> QED
    BY <1>1, <2>7 DEF StillMended
<1>7. HealShaped(h)' /\ FromIsNow(h)' /\ ReportsTruly(h)'
  BY <1>3 DEF HealShaped, FromIsNow, ReportsTruly, NoHeal, EntryPhase
<1> QED
  BY <1>2, <1>4, <1>5, <1>6, <1>7, AdvanceEnough

-----------------------------------------------------------------------------
LEMMA PendingIs == registryDir = "dir" => PendingLinkChanges = MendsOf(linkPlace)
BY ResolvedIs DEF PendingLinkChanges, MendsOf, MissingNames, StaleNames, WrongNames, OwnedLinks

LEMMA PendingTyped == PendingLinkChanges \in LinkChanges
BY ResolvedIs DEF PendingLinkChanges, LinkChanges, NoChanges, MissingNames, StaleNames, WrongNames, OwnedLinks

\* A heal begins: what is to be mended is before it, and nothing else says it was undisturbed.
LEMMA BeginSound == ASSUME LinksInv, NEW h \in Healer, HealLinks(h) PROVE LinksInv'
<1> DEFINE r == [NoHeal EXCEPT !.step = "ignore", !.changed = PendingLinkChanges, !.existed = (registryDir = "dir")]
<1>1. /\ healOf[h].step = "idle" /\ healOf \in [Healer -> HealRecord]
      /\ UNCHANGED <<shipped, unpacked, ownEntry, registryDir, subDir, linkPlace, shareLink, shareIgnored,
                     linkChanges, linkFaults, linkHarm>>
      /\ healCount' \in 0..MaxHeals /\ unpacked \in BOOLEAN /\ linkPlace \in [Name -> Places]
  BY LinksAssumption DEF HealLinks, LinksInv, LinksTyped
<1>2. /\ r \in HealRecord /\ r.step = "ignore" /\ r.todo = {} /\ ~r.error
      /\ r.changed = PendingLinkChanges /\ r.existed = (registryDir = "dir")
  BY PendingTyped, NoHealIs DEF NoHeal, HealRecord, HealSteps
<1>3. healOf' = IF ~LinksFixable THEN healOf ELSE [healOf EXCEPT ![h] = r]
  BY DEF HealLinks
<1> HIDE DEF r
<1>4. /\ healOf' \in [Healer -> HealRecord] /\ \A k \in Healer \ {h} : healOf'[k] = healOf[k]
      /\ LinksFixable => healOf'[h] = r
      /\ ~LinksFixable => healOf' = healOf
  BY <1>1, <1>2, <1>3
<1>5. \/ /\ NobodyHeals /\ ~batch'.error /\ batch'.disturbed = ~unpacked /\ batch'.alone /\ batch'.before = linkPlace
         /\ batch' \in [error : BOOLEAN, disturbed : BOOLEAN, alone : BOOLEAN, before : [Name -> Places]]
      \/ /\ ~NobodyHeals /\ batch'.error = batch.error /\ batch'.disturbed = batch.disturbed /\ ~batch'.alone
         /\ batch' \in [error : BOOLEAN, disturbed : BOOLEAN, alone : BOOLEAN, before : [Name -> Places]]
  BY <1>1 DEF HealLinks, LinksInv, LinksTyped
<1>6. LinksTyped' /\ PlacesIn' /\ linkHarm' = {}
  BY <1>1, <1>4, <1>5 DEF LinksInv, LinksTyped, PlacesIn
<1>7. OnlyOne'
  BY <1>4, <1>5 DEF OnlyOne, NobodyHeals
<1>8. /\ ActiveRegistry' = ActiveRegistry /\ \A n \in Name : ResolveRegistry(n)' = ResolveRegistry(n)
      /\ [n \in Name |-> ResolveRegistry(n)]' = [n \in Name |-> ResolveRegistry(n)]
  BY <1>1, SameCatalogue
<1>9. StillMended'
  <2>1. /\ ShareFixable' <=> ShareFixable
        /\ (MissingNames \cup WrongNames \cup StaleNames)' = MissingNames \cup WrongNames \cup StaleNames
    BY <1>1, <1>8 DEF ShareFixable, MissingNames, WrongNames, StaleNames, OwnedLinks, ActiveRegistry
  <2>2. CASE LinksFixable
    BY <1>2, <1>4, <2>2 DEF StillMended, ComesTo, SharePhase
  <2>3. CASE ~LinksFixable
    BY <1>1, <2>1, <2>3 DEF StillMended, LinksFixable, RegistryFixable
  <2> QED
    BY <2>2, <2>3
<1>10. ASSUME NEW k \in Healer PROVE HealShaped(k)' /\ FromIsNow(k)' /\ ReportsTruly(k)'
  <2>1. CASE healOf'[k] = healOf[k]
    <3>1. Entry(k)' = Entry(k)
      BY <2>1, EntryIs
    <3>2. HealShaped(k)'
      BY <1>1, <2>1, <3>1 DEF LinksInv, HealShaped
    <3>3. FromIsNow(k)'
      BY <1>5, <1>8, <2>1 DEF LinksInv, FromIsNow, NobodyHeals, EntryPhase
    <3>4. ReportsTruly(k)'
      BY <1>5, <2>1 DEF ReportsTruly, NobodyHeals
    <3> QED
      BY <3>2, <3>3, <3>4
  <2>2. CASE k = h /\ LinksFixable
    <3>1. healOf'[k] = r
      BY <1>4, <2>2
    <3>2. HealShaped(k)' /\ FromIsNow(k)'
      BY <1>2, <3>1 DEF HealShaped, FromIsNow, EntryPhase
    <3>3. registryDir = "dir" => PendingLinkChanges = MendsOf(linkPlace)
      BY PendingIs
    <3>4. batch'.alone => MendsOf(batch.before)' = MendsOf(linkPlace)
      BY ResolvedIs, <1>8, <1>5 DEF MendsOf
    <3>5. ReportsTruly(k)'
      BY <1>1, <1>2, <1>5, <3>1, <3>3, <3>4 DEF ReportsTruly, EntryPhase
    <3> QED
      BY <3>2, <3>5
  <2> QED
    BY <1>4, <2>1, <2>2
<1> QED
  BY <1>6, <1>7, <1>9, <1>10 DEF LinksInv

\* Others change the ground: no overlap is undisturbed then.
LEMMA DisturbSound ==
  ASSUME LinksInv, Disturb, UNCHANGED <<healOf, healCount, linkFaults, registryDir, shareLink, shareIgnored, linkHarm>>,
         shipped' \subseteq Name, unpacked' \in BOOLEAN, ownEntry' \in [Name -> {"none", "entry", "off"}],
         subDir' \in {"missing", "dir", "file"}, linkPlace' \in [Name -> Places], PlacesIn',
         linkChanges' \in 0..MaxLinkChanges, NobodyHeals \/ linkPlace' = linkPlace
  PROVE  LinksInv'
<1>1. /\ batch' \in [error : BOOLEAN, disturbed : BOOLEAN, alone : BOOLEAN, before : [Name -> Places]]
      /\ batch'.disturbed /\ batch'.alone = batch.alone
  BY DEF Disturb, LinksInv, LinksTyped
<1>2. LinksTyped' /\ linkHarm' = {}
  BY <1>1 DEF LinksInv, LinksTyped
<1>3. StillMended' /\ OnlyOne'
  BY <1>1 DEF LinksInv, StillMended, OnlyOne
<1>4. ASSUME NEW k \in Healer PROVE HealShaped(k)' /\ FromIsNow(k)' /\ ReportsTruly(k)'
  BY <1>1, EntryIs DEF FromIsNow, ReportsTruly, LinksInv, HealShaped, NobodyHeals
<1> QED
  BY <1>2, <1>3, <1>4 DEF LinksInv

LEMMA LinksOthersSound == ASSUME LinksInv, UserChanges \/ SwapAside \/ SwapIn PROVE LinksInv'
<1>1. CASE UserChanges
  <2>1. ownEntry' \in [Name -> {"none", "entry", "off"}] /\ subDir' \in {"missing", "dir", "file"}
    BY <1>1 DEF UserChanges, LinksInv, LinksTyped
  <2>2. linkPlace' \in [Name -> Places] /\ PlacesIn'
    BY <1>1, LinksAssumption DEF LinksInv, LinksTyped, UserChanges, PlacesIn, Places
  <2>3. linkChanges' \in 0..MaxLinkChanges
    BY <1>1, LinksAssumption DEF UserChanges, LinksInv, LinksTyped
  <2> QED
    BY <1>1, <2>1, <2>2, <2>3, DisturbSound DEF UserChanges, LinksInv, LinksTyped
<1>2. CASE SwapAside \/ SwapIn
  <2>1. linkChanges' \in 0..MaxLinkChanges /\ PlacesIn'
    BY <1>2, LinksAssumption DEF SwapAside, SwapIn, LinksInv, LinksTyped, PlacesIn
  <2> QED
    BY <1>2, <2>1, DisturbSound DEF SwapAside, SwapIn, LinksInv, LinksTyped
<1> QED
  BY <1>1, <1>2

LEMMA LinksStart == LinksInit => LinksInv
<1> SUFFICES ASSUME NEW dir \in {"missing", "link", "file", "dir"}, NEW share \in {"missing", "right", "wrong", "real"},
                    LinksBegin(dir, share)
             PROVE  LinksInv
  BY DEF LinksInit
<1>1. \A h \in Healer : healOf[h] = NoHeal
  BY DEF LinksBegin
<1>2. healOf \in [Healer -> HealRecord] /\ \A h \in Healer : healOf[h].step = "idle" /\ healOf[h].todo = {}
  BY NoHealIs DEF LinksBegin, NoHeal
<1>3. linkPlace \in [Name -> Places] /\ \A n \in Name : linkPlace[n] # "none" => dir = "dir"
  BY DEF LinksBegin, Places
<1>4. LinksTyped
  BY <1>2, <1>3, LinksAssumption DEF LinksBegin, LinksTyped
<1>5. PlacesIn /\ linkHarm = {}
  BY <1>3, LinksAssumption DEF LinksBegin, PlacesIn
<1>6. batch.disturbed
  BY DEF LinksBegin
<1> QED
  BY <1>2, <1>4, <1>5, <1>6 DEF LinksInv, StillMended, OnlyOne, HealShaped, FromIsNow, ReportsTruly, EntryPhase

LEMMA LinksStep == LinksInv /\ [LinksNext]_linkVars => LinksInv'
<1> SUFFICES ASSUME LinksInv, [LinksNext]_linkVars PROVE LinksInv'
  OBVIOUS
<1>1. CASE UserChanges \/ SwapAside \/ SwapIn
  BY <1>1, LinksOthersSound
<1>2. ASSUME NEW h \in Healer,
             \/ HealLinks(h) \/ EnsureShareIgnored(h) \/ ApplyShareLink(h) \/ PrepareRegistryDir(h) \/ RemoveStale(h)
             \/ ApplyEntry(h) \/ ReplaceEntry(h) \/ LinkEntry(h) \/ RemoveEmptyDirs(h) \/ HealReports(h) \/ HealBreaks(h)
      PROVE  LinksInv'
  BY <1>2, BeginSound, IgnoreSound, ShareLinkSound, PrepareSound, StaleSound, EntrySound, ReplaceSound, LinkSound,
     EmptyDirsSound, ReportSound, BreaksSound
<1>3. CASE UNCHANGED linkVars
  <2>1. /\ UNCHANGED <<shipped, unpacked, ownEntry, registryDir, subDir, linkPlace, shareLink, shareIgnored,
                       healOf, healCount, linkChanges, linkFaults, batch, linkHarm>>
    BY <1>3 DEF linkVars
  <2>2. LinksTyped' /\ PlacesIn' /\ linkHarm' = {}
    BY <2>1 DEF LinksInv, LinksTyped, PlacesIn
  <2>3. OnlyOne'
    BY <2>1 DEF LinksInv, OnlyOne
  <2>4. StillMended'
    BY <2>1 DEF LinksInv, StillMended, ShareFixable, MissingNames, WrongNames, StaleNames, OwnedLinks, ActiveRegistry,
       ResolveRegistry, ComesTo
  <2>5. ASSUME NEW k \in Healer PROVE HealShaped(k)' /\ FromIsNow(k)' /\ ReportsTruly(k)'
    <3>1. Entry(k)' = Entry(k)
      BY <2>1, EntryIs
    <3>2. /\ ActiveRegistry' = ActiveRegistry /\ \A n \in Name : ResolveRegistry(n)' = ResolveRegistry(n)
          /\ MendsOf(batch.before)' = MendsOf(batch.before)
          /\ [n \in Name |-> ResolveRegistry(n)]' = [n \in Name |-> ResolveRegistry(n)]
      BY <2>1, SameCatalogue
    <3>3. HealShaped(k)' /\ FromIsNow(k)'
      BY <2>1, <3>1, <3>2 DEF LinksInv, HealShaped, FromIsNow
    <3>4. \A n \in Name : NameAt(k, n)' <=> NameAt(k, n)
      BY <2>1, <3>1, <3>2 DEF NameAt
    <3>5. ReportsTruly(k)'
      BY <2>1, <3>2, <3>4 DEF LinksInv, ReportsTruly
    <3> QED
      BY <3>3, <3>5
  <2> QED
    BY <2>2, <2>3, <2>4, <2>5 DEF LinksInv
<1> QED
  BY <1>1, <1>2, <1>3 DEF LinksNext

\* The inductive invariant: where each heal stands, what is still to be mended,
\* and what a heal that has an overlap for itself will report.
THEOREM LinksInvariance == LinksSpec => []LinksInv
BY LinksStart, LinksStep, PTL DEF LinksSpec

\* Whatever heals overlap (HealLinks, links.go): none takes away what is the user's
\* or reports changes it did not make, and after an undisturbed overlap without an
\* error nothing is left to mend, for any entries, processes and numbers of faults.
THEOREM LinksAreKept == LinksSpec => []LinksKept
<1>1. LinksInv => LinksKept
  <2> SUFFICES ASSUME LinksInv, NobodyHeals, ~batch.error, ~batch.disturbed PROVE ~LinksFixable
    BY DEF LinksInv, LinksKept, HealSettles
  <2>1. \A h \in Healer : healOf[h].step \notin SharePhase \cup DirPhase /\ \A n \in Name : ~ComesTo(h, n)
    BY DEF NobodyHeals, SharePhase, DirPhase, EntryPhase, ComesTo
  <2>2. MissingNames \cup WrongNames \cup StaleNames \subseteq Name
    BY ResolvedIs DEF MissingNames, WrongNames, StaleNames, OwnedLinks
  <2> QED
    BY <2>1, <2>2 DEF LinksInv, StillMended, LinksFixable, RegistryFixable
<1> QED
  BY <1>1, LinksInvariance, PTL

\* The links of the registry keep their types, and a link lies in a directory.
THEOREM LinksTypes == LinksSpec => []LinksTypeOK
<1>1. LinksInv => LinksTypeOK
  BY DEF LinksInv, LinksTyped, PlacesIn, LinksTypeOK, HealRecord
<1> QED
  BY <1>1, LinksInvariance, PTL

-----------------------------------------------------------------------------
(***************************************************************************)
(* The registration with the assistants (McpRegistration): what a run that *)
(* nobody disturbs has read still holds when it writes.                    *)
(***************************************************************************)
McpEntry == [cmd : {"none", "legacy", "wrapper", "home", "name", "other"}, shape : {"ok", "args", "off", "odd"}]
McpDoc == [is : {"missing", "object", "broken", "torn"}, link : {"none", "inside", "outside", "dangling"},
           section : {"absent", "object", "other"}, entry : McpEntry, memory : {"absent", "list", "has", "other"},
           tracked : BOOLEAN]
McpRecord == [scope : Scopes \cup {"none"}, step : McpSteps, todo : SUBSET TargetId, targets : [TargetId -> FileName],
              name : FileName, doc : McpDoc, cmd : {"none", "home", "wrapper", "name"}, again : BOOLEAN, alone : BOOLEAN]
McpTyped ==
  /\ mcpFile \in [FileName -> McpDoc] /\ mcpRun \in [Env -> McpRecord]
  /\ traces \subseteq TargetId /\ installedAs \in [Env -> {"home", "wrapper", "none"}]
  /\ vcs \in [config : {"git", "none", "unreadable"}, repository : BOOLEAN]
  /\ mcpRuns \in 0..MaxMcpRuns /\ mcpEvents \in 0..MaxMcpEvents /\ lastWritten \subseteq FileName

\* Only an object has an entry, in its section of servers; only OpenCode has instructions.
DocSound(name, doc) ==
  /\ doc.is # "object" => doc.entry = NoEntry
  /\ EntryThere(doc) => doc.section = "object"
  /\ name = ".mcp.json" => doc.memory = "absent"

RunShaped(e) ==
  LET r == mcpRun[e] IN
  /\ r.step # "idle" => r.scope \in Scopes /\ installedAs[e] # "none"
  /\ r.step # "idle" => r.targets["claude"] = ".mcp.json" /\ IsOpencode(r.targets["opencode"])
  /\ r.step \in {"truncate", "fill"} =>
       /\ DocSound(r.name, r.doc) /\ r.cmd \in {"name", installedAs[e]}
       /\ \E t \in TargetId : r.name = r.targets[t]
       /\ r.scope = "all" => r.cmd = installedAs[e]

\* What no run writes again, and what Einrichten leaves behind.
Settled(name, doc) == ReadableFile(doc) => EntryUpToDate(doc.entry) /\ (IsOpencode(name) => MemoryConfigured(doc))
InOrder(doc) == ReadableFile(doc) => EntryThere(doc) /\ EntryUpToDate(doc.entry)

WrittenSettles ==
  Homely => (\A name \in lastWritten : Settled(name, mcpFile[name])) /\ (\A e \in Env : ~mcpRun[e].again)

\* What a run by itself may write over, with which command.
MayWrite(git, doc, cmd) ==
  /\ doc.entry.cmd \notin {"home", "name", "other"}
  /\ git.config = "git" /\ git.repository /\ (doc.tracked \/ doc.link = "outside") =>
       doc.entry.cmd \in {"legacy", "wrapper"} /\ cmd = "name"

UndisturbedRun(e) ==
  LET r == mcpRun[e] IN
  r.alone /\ r.step # "idle" =>
    /\ \A o \in Env \ {e} : mcpRun[o].step = "idle"
    /\ r.targets = TargetsNow
    /\ r.step = "truncate" => mcpFile[r.name] = r.doc
    /\ r.step = "truncate" /\ r.scope # "all" => MayWrite(vcs, r.doc, r.cmd)
    /\ r.scope = "all" /\ installedAs[e] = "home" =>
         \A t \in TargetId \ r.todo :
           InOrder(mcpFile[r.targets[t]]) \/ (r.step \in {"truncate", "fill"} /\ r.name = r.targets[t])

McpInv ==
  /\ McpTyped /\ mcpHarm \subseteq (IF Homely THEN {} ELSE {"again"})
  /\ TornInPassing /\ WrittenSettles
  /\ \A n \in FileName : DocSound(n, mcpFile[n])
  /\ \A e \in Env : RunShaped(e) /\ UndisturbedRun(e)

-----------------------------------------------------------------------------
LEMMA NoMcpRunIs ==
  /\ NoMcpRun \in McpRecord /\ NoMcpRun.step = "idle" /\ ~NoMcpRun.again /\ NoMcpRun.alone
  /\ NoSuchFile \in McpDoc /\ NoEntry \in McpEntry /\ NoSuchFile.is = "missing" /\ NoSuchFile.entry = NoEntry
  /\ NoSuchFile.section = "absent" /\ NoSuchFile.memory = "absent"
BY DEF NoMcpRun, McpRecord, McpSteps, TargetId, FileName, NoSuchFile, McpDoc, NoEntry, McpEntry

\* A run at the file it has now.
LEMMA NextIs ==
  ASSUME McpTyped, NEW e \in Env, NextTarget(e)
  PROVE  /\ mcpRun' \in [Env -> McpRecord] /\ \A o \in Env \ {e} : mcpRun'[o] = mcpRun[o]
         /\ mcpRun'[e].step = "next" /\ mcpRun'[e].scope = mcpRun[e].scope /\ mcpRun'[e].todo = mcpRun[e].todo
         /\ mcpRun'[e].targets = mcpRun[e].targets /\ mcpRun'[e].alone = mcpRun[e].alone /\ ~mcpRun'[e].again
<1> DEFINE r == [NoMcpRun EXCEPT !.scope = mcpRun[e].scope, !.step = "next", !.todo = mcpRun[e].todo,
                                 !.targets = mcpRun[e].targets, !.alone = mcpRun[e].alone]
<1>1. mcpRun[e] \in McpRecord /\ mcpRun \in [Env -> McpRecord]
  BY DEF McpTyped
<1>2. /\ r \in McpRecord /\ r.step = "next" /\ r.scope = mcpRun[e].scope /\ r.todo = mcpRun[e].todo
      /\ r.targets = mcpRun[e].targets /\ r.alone = mcpRun[e].alone /\ ~r.again
  BY <1>1, NoMcpRunIs DEF NoMcpRun, McpRecord, McpSteps
<1>3. mcpRun' = [mcpRun EXCEPT ![e] = r]
  BY DEF NextTarget
<1> HIDE DEF r
<1> QED
  BY <1>1, <1>2, <1>3

LEMMA StepIs ==
  ASSUME McpTyped, NEW e \in Env, NEW s \in McpSteps, McpTo(e, s)
  PROVE  /\ mcpRun' \in [Env -> McpRecord] /\ \A o \in Env \ {e} : mcpRun'[o] = mcpRun[o]
         /\ mcpRun'[e] = [mcpRun[e] EXCEPT !.step = s] /\ mcpRun'[e].step = s
         /\ mcpRun'[e].scope = mcpRun[e].scope /\ mcpRun'[e].todo = mcpRun[e].todo
         /\ mcpRun'[e].targets = mcpRun[e].targets /\ mcpRun'[e].alone = mcpRun[e].alone
         /\ mcpRun'[e].again = mcpRun[e].again /\ mcpRun'[e].name = mcpRun[e].name
         /\ mcpRun'[e].doc = mcpRun[e].doc /\ mcpRun'[e].cmd = mcpRun[e].cmd
  BY DEF McpTyped, McpRecord, McpTo

-----------------------------------------------------------------------------
(* A step of one run, seen by the others.                                  *)

Acts(e) ==
  /\ mcpRun[e].step # "idle" /\ mcpRun' \in [Env -> McpRecord] /\ \A o \in Env \ {e} : mcpRun'[o] = mcpRun[o]
  /\ UNCHANGED <<traces, vcs, installedAs, mcpRuns>>

FilesSound == \A n \in FileName : DocSound(n, mcpFile[n])
HarmBound == mcpHarm \subseteq (IF Homely THEN {} ELSE {"again"})

LEMMA ActsEnough ==
  ASSUME McpInv, NEW e \in Env, Acts(e), McpTyped', HarmBound', TornInPassing', WrittenSettles', FilesSound',
         RunShaped(e)', UndisturbedRun(e)'
  PROVE  McpInv'
<1>1. ASSUME NEW o \in Env \ {e} PROVE RunShaped(o)' /\ UndisturbedRun(o)'
  BY DEF McpInv, Acts, RunShaped, UndisturbedRun
<1>2. \A o \in Env : RunShaped(o)' /\ UndisturbedRun(o)'
  BY <1>1
<1> QED
  BY <1>2 DEF McpInv, HarmBound, FilesSound

\* While a run has the registration for itself, its targets are the ones there are.
LEMMA TargetsStay ==
  ASSUME McpTyped, NEW t \in TargetId, NEW name \in FileName, name = TargetsNow[t],
         \A n \in FileName \ {name} : mcpFile'[n].is = mcpFile[n].is, mcpFile'[name].is # "missing"
  PROVE  TargetsNow' = TargetsNow
  BY DEF OpencodeTarget, FileThere, TargetsNow, TargetId, FileName

LEMMA TargetsAre ==
  /\ TargetsNow \in [TargetId -> FileName] /\ TargetsNow["claude"] = ".mcp.json" /\ IsOpencode(TargetsNow["opencode"])
  /\ TargetId = {"claude", "opencode"}
BY DEF TargetsNow, TargetId, FileName, OpencodeTarget, IsOpencode

LEMMA TargetsDiffer ==
  ASSUME NEW e \in Env, McpTyped, RunShaped(e), mcpRun[e].step # "idle", NEW t \in TargetId, NEW u \in TargetId, t # u
  PROVE  mcpRun[e].targets[t] # mcpRun[e].targets[u]
BY DEF RunShaped, IsOpencode, TargetId

-----------------------------------------------------------------------------
LEMMA BeginEntriesSound == ASSUME McpInv, NEW e \in Env, NEW scope \in Scopes, BeginEntries(e, scope) PROVE McpInv'
<1> DEFINE alone == \A o \in Env : mcpRun[o].step = "idle"
           r == [NoMcpRun EXCEPT !.scope = scope, !.step = "next", !.todo = TargetId, !.targets = TargetsNow,
                                 !.alone = alone]
<1>1. /\ mcpRun[e].step = "idle" /\ installedAs[e] # "none" /\ mcpRuns' \in 0..MaxMcpRuns /\ mcpEvents' \in 0..MaxMcpEvents
      /\ mcpRun' = [o \in Env |-> IF o = e THEN r ELSE [mcpRun[o] EXCEPT !.alone = FALSE]]
      /\ UNCHANGED <<mcpFile, traces, vcs, installedAs, lastWritten, mcpHarm>>
      /\ mcpRun \in [Env -> McpRecord]
  <2>1. mcpRuns \in 0..MaxMcpRuns /\ mcpEvents \in 0..MaxMcpEvents /\ mcpRun \in [Env -> McpRecord]
    BY DEF McpInv, McpTyped
  <2>2. /\ mcpRun[e].step = "idle" /\ installedAs[e] # "none" /\ mcpRuns < MaxMcpRuns /\ mcpRuns' = mcpRuns + 1
        /\ UNCHANGED mcpEvents \/ McpEvent
        /\ UNCHANGED <<mcpFile, traces, vcs, installedAs, lastWritten, mcpHarm>>
    BY DEF BeginEntries
  <2>3. mcpRun' = [o \in Env |-> IF o = e THEN r ELSE [mcpRun[o] EXCEPT !.alone = FALSE]]
    BY Zenon DEF BeginEntries
  <2>4. mcpRuns' \in 0..MaxMcpRuns /\ mcpEvents' \in 0..MaxMcpEvents
    BY <2>1, <2>2, McpAssumption DEF McpEvent
  <2> QED
    BY <2>1, <2>2, <2>3, <2>4
<1>2. alone \in BOOLEAN
  OBVIOUS
<1>3. /\ r \in McpRecord /\ r.step = "next" /\ r.scope = scope /\ r.todo = TargetId /\ r.targets = TargetsNow
      /\ r.alone = alone /\ ~r.again
  <2> HIDE DEF alone
  <2> QED
    BY <1>2, NoMcpRunIs, TargetsAre DEF NoMcpRun, McpRecord, McpSteps
<1> HIDE DEF r
<1>4. ASSUME NEW o \in Env \ {e}
      PROVE  /\ mcpRun'[o] \in McpRecord /\ mcpRun'[o] = [mcpRun[o] EXCEPT !.alone = FALSE]
             /\ ~mcpRun'[o].alone /\ mcpRun'[o].step = mcpRun[o].step /\ mcpRun'[o].again = mcpRun[o].again
             /\ mcpRun'[o].scope = mcpRun[o].scope /\ mcpRun'[o].targets = mcpRun[o].targets
             /\ mcpRun'[o].name = mcpRun[o].name /\ mcpRun'[o].doc = mcpRun[o].doc /\ mcpRun'[o].cmd = mcpRun[o].cmd
  BY <1>1 DEF McpRecord
<1>5. mcpRun'[e] = r /\ mcpRun' \in [Env -> McpRecord]
  BY <1>1, <1>3, <1>4
<1>6. McpTyped'
  BY <1>1, <1>5 DEF McpInv, McpTyped
<1>7. TornInPassing'
  BY <1>1, <1>4 DEF McpInv, TornInPassing
<1>8. WrittenSettles'
  BY <1>1, <1>3, <1>4, <1>5 DEF McpInv, WrittenSettles, Homely, Settled
<1>9. TargetsNow' = TargetsNow
  BY <1>1 DEF TargetsNow, OpencodeTarget, FileThere
<1>10. ASSUME NEW o \in Env \ {e} PROVE RunShaped(o)' /\ UndisturbedRun(o)'
  BY <1>1, <1>4, <1>10 DEF McpInv, RunShaped, UndisturbedRun
<1>11. RunShaped(e)'
  BY <1>1, <1>3, <1>5, TargetsAre DEF RunShaped
<1>12. UndisturbedRun(e)'
  <2>1. alone => \A o \in Env \ {e} : mcpRun'[o].step = "idle"
    BY <1>4
  <2> HIDE DEF alone
  <2> QED
    BY <1>3, <1>5, <1>9, <2>1 DEF UndisturbedRun
<1>13. \A o \in Env : RunShaped(o)' /\ UndisturbedRun(o)'
  BY <1>10, <1>11, <1>12
<1> QED
  BY <1>1, <1>6, <1>7, <1>8, <1>13 DEF McpInv, Homely

-----------------------------------------------------------------------------
(* What a run has to know of a file before it writes it.                   *)

LEMMA SettledNeeds ==
  ASSUME NEW name \in FileName, NEW t, NEW scope \in Scopes, NEW answers \in BOOLEAN,
         Settled(name, mcpFile[name]), ReadableFile(mcpFile[name])
  PROVE  ~NeedsWrite(name, t, mcpFile[name], scope, answers)
<1>1. EntryUpToDate(mcpFile[name].entry) /\ (IsOpencode(name) => MemoryConfigured(mcpFile[name]))
  BY DEF Settled
<1>2. ~EntryOutdated(mcpFile[name].entry) /\ EntryThere(mcpFile[name])
  BY <1>1 DEF EntryUpToDate, EntryOutdated, IsOutdatedCommand, IsAcceptedCommand, EntryThere, NoEntry
<1> QED
  BY <1>1, <1>2 DEF NeedsWrite, Scopes

LEMMA CommandIs ==
  ASSUME NEW name, NEW doc, NEW scope, NEW cmd, NEW answers
  PROVE  /\ CommandFor(name, doc, scope, cmd, answers) \in {"name", cmd}
         /\ scope = "all" => CommandFor(name, doc, scope, cmd, answers) = cmd
BY DEF CommandFor

\* What needs a write by itself may be written: the old wrapper, and nothing git has but for the bare name.
LEMMA NeedsIsAllowed ==
  ASSUME NEW name \in FileName, NEW t \in TargetId, NEW scope \in Scopes, scope # "all", NEW answers \in BOOLEAN,
         NEW cmd \in {"home", "wrapper"},
         vcs.config \in {"git", "none", "unreadable"}, vcs.repository \in BOOLEAN, mcpFile[name] \in McpDoc,
         NeedsWrite(name, t, mcpFile[name], scope, answers)
  PROVE  MayWrite(vcs, mcpFile[name], CommandFor(name, mcpFile[name], scope, cmd, answers))
<1> DEFINE doc == mcpFile[name]
<1>1. \/ EntryThere(doc) /\ EntryOutdated(doc.entry)
      \/ ~EntryThere(doc) /\ ~ViaSymlink(name) /\ ~GitTracked(doc.tracked, answers)
  BY DEF NeedsWrite, Scopes
<1>2. CASE EntryThere(doc) /\ EntryOutdated(doc.entry)
  BY <1>2 DEF EntryOutdated, IsOutdatedCommand, CommandFor, RepairTargetTracked, GitTracked, MayWrite
<1>3. CASE ~EntryThere(doc) /\ ~ViaSymlink(name) /\ ~GitTracked(doc.tracked, answers)
  BY <1>3 DEF EntryThere, NoEntry, ViaSymlink, GitTracked, MayWrite
<1> QED
  BY <1>1, <1>2, <1>3

LEMMA ReadTargetSound == ASSUME McpInv, NEW e \in Env, ReadTarget(e) PROVE McpInv'
<1>0. mcpRun[e].step = "next" /\ mcpRun[e].todo # {}
  BY DEF ReadTarget
<1> DEFINE r == mcpRun[e]
           t == IF "claude" \in r.todo THEN "claude" ELSE "opencode"
           name == r.targets[t]
           doc == mcpFile[name]
<1> DEFINE going(answers) == ReadableFile(doc) /\ NeedsWrite(name, t, doc, r.scope, answers)
           writtenSo(answers) == [r EXCEPT !.todo = @ \ {t}, !.name = name, !.doc = doc, !.again = name \in lastWritten,
                                           !.step = "truncate",
                                           !.cmd = CommandFor(name, doc, r.scope, installedAs[e], answers)]
           passed == [r EXCEPT !.todo = @ \ {t}]
<1>1. PICK answers \in BOOLEAN :
        /\ UNCHANGED mcpEvents \/ McpEvent
        /\ mcpRun' = [mcpRun EXCEPT ![e] = IF going(answers) THEN writtenSo(answers) ELSE passed]
  BY DEF ReadTarget
<1> DEFINE go == going(answers)
           written == writtenSo(answers)
<1>2. UNCHANGED <<mcpFile, traces, vcs, installedAs, mcpRuns, lastWritten, mcpHarm>>
  BY DEF ReadTarget
<1>3. r \in McpRecord /\ mcpRun \in [Env -> McpRecord] /\ McpTyped /\ RunShaped(e) /\ UndisturbedRun(e)
  BY DEF McpInv, McpTyped
<1>4. /\ t \in TargetId /\ t \in r.todo /\ name \in FileName /\ r.scope \in Scopes /\ r.targets \in [TargetId -> FileName]
      /\ r.todo \subseteq TargetId /\ r.alone \in BOOLEAN /\ r.again \in BOOLEAN
  BY <1>0, <1>3 DEF McpRecord, TargetId, RunShaped
<1>5. doc \in McpDoc /\ DocSound(name, doc) /\ installedAs[e] \in {"home", "wrapper"}
  BY <1>0, <1>3, <1>4 DEF McpInv, McpTyped, RunShaped
<1> DEFINE cmd == CommandFor(name, doc, r.scope, installedAs[e], answers)
<1>6. cmd \in {"name", installedAs[e]} /\ (r.scope = "all" => cmd = installedAs[e])
  BY CommandIs
<1>7. /\ written \in McpRecord /\ written.step = "truncate" /\ written.todo = r.todo \ {t} /\ written.name = name
      /\ written.doc = doc /\ written.again = (name \in lastWritten) /\ written.cmd = cmd
      /\ written.scope = r.scope /\ written.targets = r.targets /\ written.alone = r.alone
  <2>1. /\ r \in McpRecord /\ name \in FileName /\ doc \in McpDoc /\ cmd \in {"none", "home", "wrapper", "name"}
        /\ (name \in lastWritten) \in BOOLEAN
    BY <1>3, <1>4, <1>5, <1>6
  <2> HIDE DEF r, t, name, doc, cmd, passed
  <2>2. written = [r EXCEPT !.todo = @ \ {t}, !.name = name, !.doc = doc, !.again = name \in lastWritten,
                            !.step = "truncate", !.cmd = cmd]
    BY DEF cmd
  <2> HIDE DEF written
  <2> QED
    BY <2>1, <2>2 DEF McpRecord, McpSteps
<1>8. /\ passed \in McpRecord /\ passed.step = "next" /\ passed.todo = r.todo \ {t} /\ passed.again = r.again
      /\ passed.scope = r.scope /\ passed.targets = r.targets /\ passed.alone = r.alone
  <2> HIDE DEF t
  <2> QED
    BY <1>0, <1>3, <1>4 DEF McpRecord
<1>9. go \in BOOLEAN /\ mcpRun' = [mcpRun EXCEPT ![e] = IF go THEN written ELSE passed]
  <2>1. go \in BOOLEAN
    OBVIOUS
  <2> QED
    BY <1>1, <2>1
<1>10. go /\ Homely => name \notin lastWritten
  BY <1>4, SettledNeeds DEF McpInv, WrittenSettles
<1>11. go /\ r.scope # "all" => MayWrite(vcs, doc, cmd)
  <2>1. vcs.config \in {"git", "none", "unreadable"} /\ vcs.repository \in BOOLEAN
    BY <1>3 DEF McpTyped
  <2>2. go => NeedsWrite(name, t, mcpFile[name], r.scope, answers)
    OBVIOUS
  <2>3. ASSUME NEW scope \in Scopes, scope # "all", NeedsWrite(name, t, mcpFile[name], scope, answers)
        PROVE  MayWrite(vcs, mcpFile[name], CommandFor(name, mcpFile[name], scope, installedAs[e], answers))
    <3> HIDE DEF t, name
    <3> QED
      BY <1>4, <1>5, <2>1, <2>3, NeedsIsAllowed
  <2> HIDE DEF go, going, written, writtenSo, passed, t, name
  <2> QED
    BY <1>4, <2>2, <2>3
<1>12. ~go /\ r.scope = "all" => InOrder(doc)
  BY <1>4 DEF NeedsWrite, InOrder
<1> HIDE DEF go, going, written, writtenSo, passed, t, name, doc, cmd
<1>13. /\ mcpRun' \in [Env -> McpRecord] /\ \A o \in Env \ {e} : mcpRun'[o] = mcpRun[o]
       /\ mcpRun'[e] = IF go THEN written ELSE passed
  BY <1>3, <1>7, <1>8, <1>9
<1>14. /\ mcpRun'[e].scope = r.scope /\ mcpRun'[e].targets = r.targets /\ mcpRun'[e].alone = r.alone
       /\ mcpRun'[e].todo = r.todo \ {t} /\ mcpRun'[e].step \in {"next", "truncate"} /\ (Homely => ~mcpRun'[e].again)
  BY <1>0, <1>3, <1>7, <1>8, <1>9, <1>10, <1>13 DEF McpInv, WrittenSettles
<1>15. mcpRun'[e].step = "truncate" =>
        /\ go /\ mcpRun'[e].name = name /\ mcpRun'[e].doc = doc /\ mcpRun'[e].cmd = cmd
  BY <1>7, <1>8, <1>9, <1>13
<1>16. go => mcpRun'[e].step = "truncate"
  BY <1>7, <1>13
<1>17. McpTyped'
  BY <1>1, <1>3, McpAssumption, <1>2, <1>13 DEF McpEvent, McpTyped
<1>18. TornInPassing'
  BY <1>0, <1>2, <1>13 DEF McpInv, TornInPassing
<1>19. WrittenSettles'
  BY <1>2, <1>13, <1>14 DEF McpInv, WrittenSettles, Settled, Homely
<1>20. RunShaped(e)'
  BY <1>0, <1>3, <1>2, <1>4, <1>5, <1>6, <1>14, <1>15 DEF RunShaped, name
<1>21. UndisturbedRun(e)'
  <2> SUFFICES ASSUME r.alone PROVE UndisturbedRun(e)'
    BY <1>14 DEF UndisturbedRun
  <2>1. /\ \A o \in Env \ {e} : mcpRun[o].step = "idle"
        /\ r.targets = TargetsNow
        /\ r.scope = "all" /\ installedAs[e] = "home" => \A u \in TargetId \ r.todo : InOrder(mcpFile[r.targets[u]])
    BY <1>0, <1>3 DEF UndisturbedRun
  <2>2. TargetsNow' = TargetsNow
    BY <1>2 DEF TargetsNow, OpencodeTarget, FileThere
  <2>3. \A o \in Env \ {e} : mcpRun'[o].step = "idle"
    BY <1>13, <2>1
  <2>4. mcpRun'[e].step = "truncate" => mcpFile'[mcpRun'[e].name] = mcpRun'[e].doc
    BY <1>2, <1>15 DEF doc
  <2>5. mcpRun'[e].step = "truncate" /\ mcpRun'[e].scope # "all" => MayWrite(vcs', mcpRun'[e].doc, mcpRun'[e].cmd)
    BY <1>2, <1>11, <1>14, <1>15
  <2>6. ASSUME r.scope = "all", installedAs[e] = "home", NEW u \in TargetId \ (r.todo \ {t})
        PROVE  InOrder(mcpFile'[r.targets[u]]) \/ (mcpRun'[e].step = "truncate" /\ mcpRun'[e].name = r.targets[u])
    <3>1. CASE u = t
      <4>1. r.targets[u] = name
        BY <3>1 DEF name
      <4>2. CASE go
        BY <1>15, <1>16, <4>1, <4>2
      <4>3. CASE ~go
        BY <1>12, <2>6, <4>3, <1>2, <4>1 DEF doc
      <4> QED
        BY <1>9, <4>2, <4>3
    <3>2. CASE u # t
      BY <2>1, <2>6, <3>2, <1>2
    <3> QED
      BY <3>1, <3>2
  <2> QED
    BY <1>2, <1>14, <2>1, <2>2, <2>3, <2>4, <2>5, <2>6 DEF UndisturbedRun
<1>22. Acts(e)
  BY <1>0, <1>2, <1>13 DEF Acts
<1>23. FilesSound' /\ HarmBound'
  BY <1>2 DEF McpInv, FilesSound, HarmBound, Homely
<1> QED
  BY <1>17, <1>18, <1>19, <1>20, <1>21, <1>22, <1>23, ActsEnough

-----------------------------------------------------------------------------
(* The write: the file is emptied, then written.                            *)

LEMMA TruncateSound == ASSUME McpInv, NEW e \in Env, Truncate(e) PROVE McpInv'
<1> DEFINE r == mcpRun[e]
           name == r.name
           torn == [mcpFile[name] EXCEPT !.is = "torn", !.section = "absent", !.entry = NoEntry, !.memory = "absent",
                                         !.link = IF @ = "dangling" THEN "inside" ELSE @]
<1>1. /\ r.step = "truncate" /\ McpTo(e, "fill") /\ mcpFile' = [mcpFile EXCEPT ![name] = torn]
      /\ mcpHarm' = mcpHarm \cup (IF r.alone THEN HarmBy(r) ELSE {})
      /\ UNCHANGED <<traces, vcs, installedAs, mcpRuns, mcpEvents, lastWritten>>
  BY DEF Truncate
<1>2. McpTyped /\ RunShaped(e) /\ UndisturbedRun(e) /\ r \in McpRecord /\ mcpFile \in [FileName -> McpDoc]
  BY DEF McpInv, McpTyped
<1>3. /\ r.scope \in Scopes /\ r.targets \in [TargetId -> FileName] /\ name \in FileName
      /\ DocSound(name, r.doc) /\ \E t \in TargetId : name = r.targets[t]
  BY <1>1, <1>2 DEF RunShaped, McpRecord
<1>4. torn \in McpDoc /\ torn.is = "torn" /\ torn.entry = NoEntry /\ torn.memory = "absent"
  <2>1. mcpFile[name] \in McpDoc
    BY <1>2, <1>3
  <2> QED
    BY <2>1, NoMcpRunIs DEF McpDoc
<1> HIDE DEF torn
<1>5. mcpFile'[name] = torn /\ mcpFile' \in [FileName -> McpDoc] /\ \A n \in FileName \ {name} : mcpFile'[n] = mcpFile[n]
  BY <1>1, <1>2, <1>3, <1>4
<1>6. /\ mcpRun' \in [Env -> McpRecord] /\ \A o \in Env \ {e} : mcpRun'[o] = mcpRun[o]
      /\ mcpRun'[e].step = "fill" /\ mcpRun'[e].scope = r.scope /\ mcpRun'[e].todo = r.todo
      /\ mcpRun'[e].targets = r.targets /\ mcpRun'[e].alone = r.alone /\ mcpRun'[e].again = r.again
      /\ mcpRun'[e].name = name /\ mcpRun'[e].doc = r.doc /\ mcpRun'[e].cmd = r.cmd
  BY <1>1, <1>2, StepIs DEF McpSteps
<1>7. McpTyped'
  BY <1>1, <1>2, <1>5, <1>6 DEF McpTyped
<1>8. TornInPassing'
  <2> SUFFICES ASSUME NEW n \in FileName, mcpFile'[n].is = "torn"
               PROVE  \E o \in Env : mcpRun'[o].step = "fill" /\ mcpRun'[o].name = n
    BY DEF TornInPassing
  <2>1. CASE n = name
    BY <1>6, <2>1
  <2>2. CASE n # name
    BY <1>5, <2>2, <1>1, <1>6 DEF McpInv, TornInPassing
  <2> QED
    BY <2>1, <2>2
<1>9. WrittenSettles'
  BY <1>4, <1>5, <1>2, <1>1, <1>6 DEF Settled, ReadableFile, McpTyped, McpInv, WrittenSettles, Homely
<1>10. r.alone => /\ \A o \in Env \ {e} : mcpRun[o].step = "idle"
                  /\ r.targets = TargetsNow /\ mcpFile[name] = r.doc /\ (r.scope # "all" => MayWrite(vcs, r.doc, r.cmd))
  BY <1>1, <1>2 DEF UndisturbedRun
<1>11. HarmBound'
  BY <1>10, <1>1 DEF McpInv, WrittenSettles, TrackedNow, MayWrite, HarmBy, HarmBound, Homely
<1>12. FilesSound'
  BY <1>4, <1>5 DEF McpInv, FilesSound, DocSound, EntryThere
<1>13. RunShaped(e)'
  BY <1>1, <1>2, <1>6 DEF RunShaped
<1>14. UndisturbedRun(e)'
  <2> SUFFICES ASSUME r.alone PROVE UndisturbedRun(e)'
    BY <1>6 DEF UndisturbedRun
  <2>1. PICK t \in TargetId : name = TargetsNow[t]
    BY <1>3, <1>10
  <2>2. TargetsNow' = TargetsNow
    BY <1>2, <1>3, <1>4, <1>5, <2>1, TargetsStay
  <2>3. ASSUME r.scope = "all", installedAs[e] = "home", NEW u \in TargetId \ r.todo
        PROVE  InOrder(mcpFile'[r.targets[u]]) \/ r.targets[u] = name
    BY <1>1, <1>2, <2>3, <1>3, <1>5 DEF UndisturbedRun
  <2>4. \A o \in Env \ {e} : mcpRun'[o].step = "idle"
    BY <1>6, <1>10
  <2> QED
    BY <1>1, <1>6, <1>10, <2>2, <2>3, <2>4 DEF UndisturbedRun
<1>15. Acts(e)
  BY <1>1, <1>6 DEF Acts
<1> QED
  BY <1>7, <1>8, <1>9, <1>11, <1>12, <1>13, <1>14, <1>15, ActsEnough

LEMMA FillSound == ASSUME McpInv, NEW e \in Env, Fill(e) PROVE McpInv'
<1> DEFINE r == mcpRun[e]
           name == r.name
           full == [Patched(name, r.doc, r.cmd) EXCEPT !.link = mcpFile[name].link, !.tracked = mcpFile[name].tracked]
<1>1. /\ r.step = "fill" /\ NextTarget(e) /\ mcpFile' = [mcpFile EXCEPT ![name] = full]
      /\ lastWritten' = lastWritten \cup {name}
      /\ UNCHANGED <<traces, vcs, installedAs, mcpRuns, mcpEvents, mcpHarm>>
  BY DEF Fill
<1>2. McpTyped /\ RunShaped(e) /\ UndisturbedRun(e) /\ r \in McpRecord /\ mcpFile \in [FileName -> McpDoc]
  BY DEF McpInv, McpTyped
<1>3. /\ r.scope \in Scopes /\ r.targets \in [TargetId -> FileName] /\ name \in FileName /\ r.doc \in McpDoc
      /\ DocSound(name, r.doc) /\ (\E t \in TargetId : name = r.targets[t]) /\ r.cmd \in {"name", installedAs[e]}
      /\ (r.scope = "all" => r.cmd = installedAs[e]) /\ installedAs[e] \in {"home", "wrapper"}
      /\ mcpFile[name] \in McpDoc
  BY <1>1, <1>2 DEF RunShaped, McpRecord, McpTyped
<1>4. /\ full \in McpDoc /\ full.is = "object" /\ full.section = "object" /\ full.entry = [cmd |-> r.cmd, shape |-> "ok"]
      /\ IsOpencode(name) => MemoryConfigured(full)
      /\ ~IsOpencode(name) => full.memory = r.doc.memory
  <2>1. [cmd |-> r.cmd, shape |-> "ok"] \in McpEntry
    BY <1>3 DEF McpEntry
  <2> QED
    BY <1>3, <2>1 DEF McpDoc, Patched, MemoryConfigured
<1> HIDE DEF full
<1>5. mcpFile'[name] = full /\ mcpFile' \in [FileName -> McpDoc] /\ \A n \in FileName \ {name} : mcpFile'[n] = mcpFile[n]
  BY <1>1, <1>2, <1>3, <1>4
<1>6. /\ mcpRun' \in [Env -> McpRecord] /\ \A o \in Env \ {e} : mcpRun'[o] = mcpRun[o]
      /\ mcpRun'[e].step = "next" /\ mcpRun'[e].scope = r.scope /\ mcpRun'[e].todo = r.todo
      /\ mcpRun'[e].targets = r.targets /\ mcpRun'[e].alone = r.alone /\ ~mcpRun'[e].again
  BY <1>1, <1>2, NextIs
<1>7. McpTyped'
  BY <1>1, <1>2, <1>3, <1>5, <1>6 DEF McpTyped
<1>8. TornInPassing'
  BY <1>4, <1>5, <1>6 DEF TornInPassing, McpInv
<1>9. ASSUME r.cmd \in {"home", "name"} PROVE EntryUpToDate(full.entry) /\ EntryThere(full)
  BY <1>4, <1>9 DEF EntryUpToDate, IsAcceptedCommand, EntryThere, NoEntry
<1>10. WrittenSettles'
  BY <1>1, <1>3, <1>4, <1>5, <1>9, <1>2, <1>6 DEF WrittenSettles, Homely, Settled, McpInv, McpTyped
<1>11. HarmBound'
  BY <1>1 DEF McpInv, HarmBound, Homely
<1>12. FilesSound'
  <2>1. DocSound(name, full)
    BY <1>3, <1>4 DEF DocSound, IsOpencode
  <2> QED
    BY <1>5, <2>1 DEF McpInv, FilesSound
<1>13. RunShaped(e)'
  BY <1>1, <1>2, <1>6 DEF RunShaped
<1>14. UndisturbedRun(e)'
  <2> SUFFICES ASSUME r.alone PROVE UndisturbedRun(e)'
    BY <1>6 DEF UndisturbedRun
  <2>0. (\A o \in Env \ {e} : mcpRun[o].step = "idle") /\ r.targets = TargetsNow
    BY <1>1, <1>2 DEF UndisturbedRun
  <2>1. PICK t \in TargetId : name = TargetsNow[t]
    BY <1>3, <2>0
  <2>2. TargetsNow' = TargetsNow
    BY <1>4, <1>5, <1>2, <1>3, <2>1, TargetsStay
  <2>3. ASSUME r.scope = "all", installedAs[e] = "home", NEW u \in TargetId \ r.todo
        PROVE  InOrder(mcpFile'[r.targets[u]])
    <3>1. InOrder(mcpFile[r.targets[u]]) \/ r.targets[u] = name
      BY <1>1, <1>2, <2>3 DEF UndisturbedRun
    <3>2. CASE r.targets[u] # name
      BY <1>3, <1>5, <3>1, <3>2
    <3>3. CASE r.targets[u] = name
      BY <1>3, <2>3, <1>5, <1>9, <3>3 DEF InOrder
    <3> QED
      BY <3>2, <3>3
  <2>4. \A o \in Env \ {e} : mcpRun'[o].step = "idle"
    BY <1>6, <2>0
  <2> QED
    BY <1>1, <1>6, <2>0, <2>2, <2>3, <2>4 DEF UndisturbedRun
<1>15. Acts(e)
  BY <1>1, <1>6 DEF Acts
<1> QED
  BY <1>7, <1>8, <1>10, <1>11, <1>12, <1>13, <1>14, <1>15, ActsEnough

-----------------------------------------------------------------------------
(* A write that fails, a kill, the end of a run.                            *)

LEMMA LeftIs ==
  ASSUME McpInv, NEW e \in Env, mcpFile' = LeftOf(e), lastWritten' = lastWritten
  PROVE  /\ mcpFile' \in [FileName -> McpDoc] /\ FilesSound'
         /\ \A n \in lastWritten : Settled(n, mcpFile[n]) => Settled(n, mcpFile'[n])
         /\ \A n \in FileName : mcpFile'[n].is = "torn" =>
              mcpFile[n].is = "torn" /\ ~(mcpRun[e].step = "fill" /\ mcpRun[e].name = n)
<1> DEFINE name == mcpRun[e].name
           left == [mcpFile[name] EXCEPT !.is = IF @ = "torn" THEN "broken" ELSE @]
<1>1. mcpFile \in [FileName -> McpDoc] /\ name \in FileName /\ lastWritten \subseteq FileName
  BY DEF McpInv, McpTyped, McpRecord
<1>2. CASE mcpRun[e].step # "fill"
  BY <1>2, <1>1 DEF LeftOf, McpInv, FilesSound
<1>3. CASE mcpRun[e].step = "fill"
  <2>1. mcpFile[name] \in McpDoc /\ DocSound(name, mcpFile[name])
    BY <1>1 DEF McpInv
  <2>2. /\ left \in McpDoc /\ left.is # "torn" /\ left.section = mcpFile[name].section /\ left.entry = mcpFile[name].entry
        /\ left.memory = mcpFile[name].memory /\ (mcpFile[name].is # "torn" => left.is = mcpFile[name].is)
        /\ (mcpFile[name].is = "torn" => left.is = "broken")
    BY <2>1 DEF McpDoc
  <2>3. mcpFile' = [mcpFile EXCEPT ![name] = left]
    BY <1>3 DEF LeftOf
  <2> HIDE DEF left, name
  <2>4. mcpFile'[name] = left /\ mcpFile' \in [FileName -> McpDoc] /\ \A n \in FileName \ {name} : mcpFile'[n] = mcpFile[n]
    BY <1>1, <2>2, <2>3
  <2>5. DocSound(name, left)
    BY <2>1, <2>2 DEF DocSound, EntryThere
  <2>6. FilesSound'
    BY <2>4, <2>5 DEF McpInv, FilesSound
  <2>7. Settled(name, mcpFile[name]) => Settled(name, left)
    BY <2>2 DEF Settled, ReadableFile, MemoryConfigured
  <2>8. \A n \in lastWritten : Settled(n, mcpFile[n]) => Settled(n, mcpFile'[n])
    BY <1>1, <2>4, <2>7
  <2> QED
    BY <2>2, <2>4, <2>6, <2>8 DEF name
<1> QED
  BY <1>2, <1>3

LEMMA WriteFailsSound == ASSUME McpInv, NEW e \in Env, WriteFails(e) PROVE McpInv'
<1> DEFINE r == [NoMcpRun EXCEPT !.scope = mcpRun[e].scope, !.step = "next", !.todo = mcpRun[e].todo,
                                 !.targets = mcpRun[e].targets, !.alone = FALSE]
<1>1. /\ mcpRun[e].step \in {"truncate", "fill"} /\ mcpEvents' \in 0..MaxMcpEvents /\ mcpFile' = LeftOf(e)
      /\ mcpRun' = [mcpRun EXCEPT ![e] = r]
      /\ UNCHANGED <<traces, vcs, installedAs, mcpRuns, lastWritten, mcpHarm>>
  BY McpAssumption DEF McpInv, McpTyped, WriteFails, McpEvent
<1>2. McpTyped /\ RunShaped(e) /\ mcpRun[e] \in McpRecord /\ mcpRun \in [Env -> McpRecord]
  BY DEF McpInv, McpTyped
<1>3. /\ r \in McpRecord /\ r.step = "next" /\ r.scope = mcpRun[e].scope /\ r.targets = mcpRun[e].targets
      /\ ~r.alone /\ ~r.again
  BY <1>2, NoMcpRunIs DEF NoMcpRun, McpRecord, McpSteps
<1> HIDE DEF r
<1>4. mcpRun'[e] = r /\ mcpRun' \in [Env -> McpRecord] /\ \A o \in Env \ {e} : mcpRun'[o] = mcpRun[o]
  BY <1>1, <1>2, <1>3
<1>5. /\ mcpFile' \in [FileName -> McpDoc] /\ FilesSound'
      /\ \A n \in lastWritten : Settled(n, mcpFile[n]) => Settled(n, mcpFile'[n])
      /\ \A n \in FileName : mcpFile'[n].is = "torn" =>
           mcpFile[n].is = "torn" /\ ~(mcpRun[e].step = "fill" /\ mcpRun[e].name = n)
  BY <1>1, LeftIs
<1>6. McpTyped'
  BY <1>1, <1>2, <1>4, <1>5 DEF McpTyped
<1>7. TornInPassing'
  BY <1>4, <1>5 DEF McpInv, TornInPassing
<1>8. WrittenSettles'
  BY <1>1, <1>3, <1>4, <1>5 DEF McpInv, WrittenSettles, Homely
<1>9. RunShaped(e)'
  BY <1>1, <1>2, <1>3, <1>4 DEF RunShaped
<1>10. UndisturbedRun(e)'
  BY <1>3, <1>4 DEF UndisturbedRun
<1>11. HarmBound' /\ Acts(e)
  BY <1>1, <1>4 DEF McpInv, HarmBound, Homely, Acts
<1> QED
  BY <1>5, <1>6, <1>7, <1>8, <1>9, <1>10, <1>11, ActsEnough

LEMMA KilledSound == ASSUME McpInv, NEW e \in Env, Killed(e) PROVE McpInv'
<1>1. /\ mcpRun[e].step # "idle" /\ mcpEvents' \in 0..MaxMcpEvents /\ mcpFile' = LeftOf(e)
      /\ mcpRun' = [mcpRun EXCEPT ![e] = NoMcpRun]
      /\ UNCHANGED <<traces, vcs, installedAs, mcpRuns, lastWritten, mcpHarm>>
  BY McpAssumption DEF McpInv, McpTyped, Killed, McpEvent
<1>2. McpTyped /\ mcpRun \in [Env -> McpRecord]
  BY DEF McpInv, McpTyped
<1>3. mcpRun'[e] = NoMcpRun /\ mcpRun' \in [Env -> McpRecord] /\ \A o \in Env \ {e} : mcpRun'[o] = mcpRun[o]
  BY <1>1, <1>2, NoMcpRunIs
<1>4. /\ mcpFile' \in [FileName -> McpDoc] /\ FilesSound'
      /\ \A n \in lastWritten : Settled(n, mcpFile[n]) => Settled(n, mcpFile'[n])
      /\ \A n \in FileName : mcpFile'[n].is = "torn" =>
           mcpFile[n].is = "torn" /\ ~(mcpRun[e].step = "fill" /\ mcpRun[e].name = n)
  BY <1>1, LeftIs
<1>5. McpTyped'
  BY <1>1, <1>2, <1>3, <1>4 DEF McpTyped
<1>6. TornInPassing'
  BY <1>3, <1>4 DEF McpInv, TornInPassing
<1>7. WrittenSettles'
  BY <1>1, <1>3, <1>4, NoMcpRunIs DEF McpInv, WrittenSettles, Homely
<1>8. RunShaped(e)' /\ UndisturbedRun(e)'
  BY <1>3, NoMcpRunIs DEF RunShaped, UndisturbedRun
<1>9. HarmBound' /\ Acts(e)
  BY <1>1, <1>3 DEF McpInv, HarmBound, Homely, Acts
<1> QED
  BY <1>4, <1>5, <1>6, <1>7, <1>8, <1>9, ActsEnough

\* What is in order is called so.
LEMMA InOrderIsOk ==
  ASSUME NEW t \in TargetId, DocSound(TargetsNow[t], mcpFile[TargetsNow[t]]), InOrder(mcpFile[TargetsNow[t]]),
         NEW cmd, cmd # "none"
  PROVE  CheckTarget(t, cmd) \in {"ok", "ambiguous-target", "unreadable"}
<1> DEFINE doc == mcpFile[TargetsNow[t]]
<1>1. ReadableFile(doc) => EntryThere(doc) /\ EntryUpToDate(doc.entry) /\ doc.is # "missing"
  BY DEF InOrder, DocSound, EntryThere
<1> QED
  BY <1>1 DEF CheckTarget

LEMMA EndEntriesSound == ASSUME McpInv, NEW e \in Env, EndEntries(e) PROVE McpInv'
<1>1. /\ mcpRun[e].step = "next" /\ mcpRun[e].todo = {} /\ mcpRun' = [mcpRun EXCEPT ![e] = NoMcpRun]
      /\ UNCHANGED <<mcpFile, traces, vcs, installedAs, mcpRuns, mcpEvents, lastWritten>>
  BY DEF EndEntries
<1>2. McpTyped /\ mcpRun \in [Env -> McpRecord] /\ UndisturbedRun(e)
  BY DEF McpInv, McpTyped
<1>3. mcpRun'[e] = NoMcpRun /\ mcpRun' \in [Env -> McpRecord] /\ \A o \in Env \ {e} : mcpRun'[o] = mcpRun[o]
  BY <1>1, <1>2, NoMcpRunIs
<1>4. mcpHarm' = mcpHarm
  <2>1. ASSUME mcpRun[e].scope = "all", mcpRun[e].alone, installedAs[e] = "home", NEW t \in TargetId
        PROVE  CheckTarget(t, installedAs[e]) \in {"ok", "ambiguous-target", "unreadable"}
    BY <1>1, <1>2, <2>1, TargetsAre, InOrderIsOk DEF UndisturbedRun, McpInv
  <2> QED
    BY <2>1 DEF EndEntries
<1>5. McpTyped'
  BY <1>1, <1>2, <1>3 DEF McpTyped
<1>6. TornInPassing'
  BY <1>1, <1>3 DEF McpInv, TornInPassing
<1>7. WrittenSettles'
  BY <1>1, <1>3, NoMcpRunIs DEF McpInv, WrittenSettles, Homely
<1>8. RunShaped(e)' /\ UndisturbedRun(e)'
  BY <1>3, NoMcpRunIs DEF RunShaped, UndisturbedRun
<1>9. HarmBound' /\ FilesSound' /\ Acts(e)
  BY <1>1, <1>3, <1>4 DEF McpInv, HarmBound, FilesSound, Homely, Acts
<1> QED
  BY <1>5, <1>6, <1>7, <1>8, <1>9, ActsEnough

-----------------------------------------------------------------------------
(* Others change a file, a step without an action, the beginning.           *)

LEMMA OthersWriteSound == ASSUME McpInv, OthersWrite PROVE McpInv'
<1>1. PICK n \in {TargetsNow[t] : t \in TargetId} :
       \/ /\ mcpFile[n].is = "object" /\ mcpFile[n].section # "other"
          /\ \E entry \in {NoEntry, OldEntry, [cmd |-> "other", shape |-> "ok"]} :
               mcpFile' = [mcpFile EXCEPT ![n].section = "object", ![n].entry = entry]
       \/ FileThere(n) /\ mcpFile' = [mcpFile EXCEPT ![n] = [NoSuchFile EXCEPT !.tracked = mcpFile[n].tracked]]
       \/ mcpFile[n].is # "object" /\ mcpFile' = [mcpFile EXCEPT ![n] =
             [JsonObject("absent", NoEntry, "absent") EXCEPT !.tracked = mcpFile[n].tracked]]
       \/ vcs.config = "git" /\ mcpFile[n].link # "outside" /\ mcpFile' = [mcpFile EXCEPT ![n].tracked = ~@]
  BY DEF OthersWrite
<1>2. /\ McpEvent /\ lastWritten' = {} /\ mcpRun' = [e \in Env |-> [mcpRun[e] EXCEPT !.alone = FALSE]]
      /\ UNCHANGED <<traces, vcs, installedAs, mcpRuns, mcpHarm>>
  BY DEF OthersWrite
<1>3. McpTyped /\ mcpFile \in [FileName -> McpDoc] /\ n \in FileName /\ mcpFile[n] \in McpDoc /\ DocSound(n, mcpFile[n])
  <2>1. n \in FileName
    BY TargetsAre
  <2> QED
    BY <2>1 DEF McpInv, McpTyped
<1>4. ASSUME NEW doc \in McpDoc, mcpFile' = [mcpFile EXCEPT ![n] = doc], DocSound(n, doc),
             doc.is = "torn" => mcpFile[n].is = "torn"
      PROVE  McpInv'
  <2>1. mcpFile'[n] = doc /\ mcpFile' \in [FileName -> McpDoc] /\ \A m \in FileName \ {n} : mcpFile'[m] = mcpFile[m]
    BY <1>3, <1>4
  <2>2. ASSUME NEW e \in Env
        PROVE  /\ mcpRun'[e] \in McpRecord /\ ~mcpRun'[e].alone /\ mcpRun'[e].step = mcpRun[e].step
               /\ mcpRun'[e].again = mcpRun[e].again /\ mcpRun'[e].scope = mcpRun[e].scope
               /\ mcpRun'[e].targets = mcpRun[e].targets /\ mcpRun'[e].name = mcpRun[e].name
               /\ mcpRun'[e].doc = mcpRun[e].doc /\ mcpRun'[e].cmd = mcpRun[e].cmd
    BY <1>2, <1>3 DEF McpTyped, McpRecord
  <2>3. mcpRun' \in [Env -> McpRecord]
    BY <1>2, <2>2
  <2>4. mcpEvents' \in 0..MaxMcpEvents
    BY <1>2, <1>3, McpAssumption DEF McpEvent, McpTyped
  <2>5. McpTyped'
    BY <1>2, <1>3, <2>1, <2>3, <2>4 DEF McpTyped
  <2>6. TornInPassing'
    BY <1>4, <2>1, <2>2 DEF TornInPassing, McpInv
  <2>7. WrittenSettles'
    BY <1>2, <2>2 DEF McpInv, WrittenSettles, Homely
  <2>8. FilesSound'
    BY <1>4, <2>1 DEF McpInv, FilesSound
  <2>9. HarmBound'
    BY <1>2 DEF McpInv, HarmBound, Homely
  <2>10. ASSUME NEW e \in Env PROVE RunShaped(e)' /\ UndisturbedRun(e)'
    <3>1. RunShaped(e)'
      BY <1>2, <2>2 DEF McpInv, RunShaped
    <3>2. UndisturbedRun(e)'
      BY <2>2 DEF UndisturbedRun
    <3> QED
      BY <3>1, <3>2
  <2> QED
    BY <2>5, <2>6, <2>7, <2>8, <2>9, <2>10 DEF McpInv, HarmBound, FilesSound
<1>5. CASE /\ mcpFile[n].is = "object" /\ mcpFile[n].section # "other"
           /\ \E entry \in {NoEntry, OldEntry, [cmd |-> "other", shape |-> "ok"]} :
                mcpFile' = [mcpFile EXCEPT ![n].section = "object", ![n].entry = entry]
  <2>1. PICK entry \in {NoEntry, OldEntry, [cmd |-> "other", shape |-> "ok"]} :
          mcpFile' = [mcpFile EXCEPT ![n].section = "object", ![n].entry = entry]
    BY <1>5
  <2> DEFINE doc == [mcpFile[n] EXCEPT !.section = "object", !.entry = entry]
  <2>2. entry \in McpEntry
    BY <2>1 DEF NoEntry, OldEntry, McpEntry
  <2>3. doc \in McpDoc /\ doc.is = "object" /\ doc.section = "object" /\ doc.memory = mcpFile[n].memory
    BY <1>3, <1>5, <2>2 DEF McpDoc
  <2>4. mcpFile' = [mcpFile EXCEPT ![n] = doc]
    BY <1>3, <2>1
  <2>5. DocSound(n, doc)
    BY <1>3, <2>3 DEF DocSound
  <2> QED
    BY <1>4, <2>3, <2>4, <2>5
<1>6. CASE FileThere(n) /\ mcpFile' = [mcpFile EXCEPT ![n] = [NoSuchFile EXCEPT !.tracked = mcpFile[n].tracked]]
  <2> DEFINE doc == [NoSuchFile EXCEPT !.tracked = mcpFile[n].tracked]
  <2>1. doc \in McpDoc /\ doc.is = "missing" /\ doc.entry = NoEntry /\ doc.memory = "absent"
    BY <1>3, NoMcpRunIs DEF McpDoc
  <2>2. DocSound(n, doc)
    BY <2>1 DEF DocSound, EntryThere
  <2> QED
    BY <1>4, <1>6, <2>1, <2>2
<1>7. CASE mcpFile[n].is # "object" /\ mcpFile' = [mcpFile EXCEPT ![n] =
             [JsonObject("absent", NoEntry, "absent") EXCEPT !.tracked = mcpFile[n].tracked]]
  <2> DEFINE doc == [JsonObject("absent", NoEntry, "absent") EXCEPT !.tracked = mcpFile[n].tracked]
  <2>1. doc \in McpDoc /\ doc.is = "object" /\ doc.entry = NoEntry /\ doc.memory = "absent"
    BY <1>3, NoMcpRunIs DEF McpDoc, JsonObject
  <2>2. DocSound(n, doc)
    BY <2>1 DEF DocSound, EntryThere
  <2> QED
    BY <1>4, <1>7, <2>1, <2>2
<1>8. CASE mcpFile' = [mcpFile EXCEPT ![n].tracked = ~@]
  <2> DEFINE doc == [mcpFile[n] EXCEPT !.tracked = ~mcpFile[n].tracked]
  <2>1. /\ doc \in McpDoc /\ doc.is = mcpFile[n].is /\ doc.entry = mcpFile[n].entry /\ doc.section = mcpFile[n].section
        /\ doc.memory = mcpFile[n].memory
    BY <1>3 DEF McpDoc
  <2>2. mcpFile' = [mcpFile EXCEPT ![n] = doc]
    BY <1>3, <1>8
  <2>3. DocSound(n, doc)
    BY <1>3, <2>1 DEF DocSound, EntryThere
  <2> QED
    BY <1>4, <2>1, <2>2, <2>3
<1> QED
  BY <1>1, <1>5, <1>6, <1>7, <1>8

LEMMA McpStutterSound == ASSUME McpInv, UNCHANGED mcpVars PROVE McpInv'
<1>1. /\ mcpFile' = mcpFile /\ traces' = traces /\ vcs' = vcs /\ installedAs' = installedAs /\ mcpRun' = mcpRun
      /\ mcpRuns' = mcpRuns /\ mcpEvents' = mcpEvents /\ lastWritten' = lastWritten /\ mcpHarm' = mcpHarm
  BY DEF mcpVars
<1>2. TargetsNow' = TargetsNow
  BY <1>1 DEF TargetsNow, OpencodeTarget, FileThere
<1>3. \A e \in Env : RunShaped(e)' /\ UndisturbedRun(e)'
  BY <1>1, <1>2 DEF McpInv, RunShaped, UndisturbedRun
<1> QED
  BY <1>1, <1>3 DEF McpInv, McpTyped, TornInPassing, WrittenSettles, Homely

LEMMA McpNextSound == ASSUME McpInv, [RegistrationNext]_mcpVars PROVE McpInv'
<1>1. CASE RegistrationNext
  BY <1>1, BeginEntriesSound, ReadTargetSound, TruncateSound, FillSound, WriteFailsSound, EndEntriesSound, KilledSound,
     OthersWriteSound DEF RegistrationNext
<1> QED
  BY <1>1, McpStutterSound

\* A file as the runs may find it.
Fresh(name, doc) == doc \in McpDoc /\ DocSound(name, doc) /\ doc.is # "torn"

LEMMA ObjectIsFresh ==
  ASSUME NEW name \in FileName, NEW section \in {"absent", "object", "other"}, NEW entry \in McpEntry,
         NEW memory \in {"absent", "list", "has", "other"}, entry # NoEntry => section = "object",
         name = ".mcp.json" => memory = "absent"
  PROVE  Fresh(name, JsonObject(section, entry, memory))
<1> DEFINE doc == JsonObject(section, entry, memory)
<1>1. doc \in McpDoc /\ doc.is = "object" /\ doc.section = section /\ doc.entry = entry /\ doc.memory = memory
  BY NoMcpRunIs DEF JsonObject, McpDoc
<1> HIDE DEF doc
<1> QED
  BY <1>1 DEF Fresh, DocSound, EntryThere, doc

LEMMA BareIsFresh ==
  ASSUME NEW name \in FileName
  PROVE  Fresh(name, NoSuchFile) /\ Fresh(name, [NoSuchFile EXCEPT !.is = "broken"])
<1> DEFINE doc == [NoSuchFile EXCEPT !.is = "broken"]
<1>1. doc \in McpDoc /\ doc.is = "broken" /\ doc.entry = NoEntry /\ doc.memory = "absent"
  BY NoMcpRunIs DEF McpDoc
<1> HIDE DEF doc
<1>2. Fresh(name, NoSuchFile)
  BY NoMcpRunIs DEF Fresh, DocSound, EntryThere
<1>3. Fresh(name, doc)
  BY <1>1 DEF Fresh, DocSound, EntryThere
<1> QED
  BY <1>2, <1>3 DEF doc

LEMMA ClaudeFilesFresh == ASSUME NEW doc \in ClaudeFiles PROVE Fresh(".mcp.json", doc)
  BY NoMcpRunIs, ObjectIsFresh, BareIsFresh DEF EntryKinds, McpEntry, NoEntry, FileName, ClaudeFiles

LEMMA OpencodeFilesFresh == ASSUME NEW doc \in OpencodeFiles PROVE Fresh("opencode.json", doc)
<1> DEFINE entries == {NoEntry} \cup [cmd : {"legacy", "name"}, shape : {"ok", "off"}]
<1>1. entries \subseteq McpEntry /\ "opencode.json" \in FileName
  BY NoMcpRunIs DEF McpEntry, FileName
<1>2. CASE doc \in {NoSuchFile, [NoSuchFile EXCEPT !.is = "broken"]}
  BY <1>1, <1>2, BareIsFresh
<1>3. CASE \E memory \in {"absent", "list", "has", "other"}, entry \in entries : doc = JsonObject("object", entry, memory)
  <2> HIDE DEF entries
  <2> QED
    BY <1>1, <1>3, ObjectIsFresh
<1> QED
  BY <1>2, <1>3 DEF OpencodeFiles

LEMMA PlacesFresh ==
  ASSUME NEW name \in FileName, NEW file, Fresh(name, file), NEW doc \in FilePlaces(file)
  PROVE  Fresh(name, doc)
  BY DEF FilePlaces, Fresh, McpDoc, DocSound, EntryThere

LEMMA FilesBeginSound ==
  ASSUME NEW claude, NEW json, NEW jsonc, Fresh(".mcp.json", claude), Fresh("opencode.json", json),
         Fresh("opencode.jsonc", jsonc), NEW trace \in SUBSET TargetId, NEW config \in {"git", "none", "unreadable"},
         NEW repository \in BOOLEAN, NEW commands \in [Env -> {"home", "wrapper", "none"}],
         RegistrationBegin(claude, json, jsonc, trace, config, repository, commands)
  PROVE  McpInv
<1>1. /\ mcpFile = [n \in FileName |-> CASE n = ".mcp.json" -> claude [] n = "opencode.json" -> json [] OTHER -> jsonc]
      /\ traces = trace /\ vcs = [config |-> config, repository |-> repository] /\ installedAs = commands
      /\ mcpRun = [e \in Env |-> NoMcpRun] /\ mcpRuns = 0 /\ mcpEvents = 0 /\ lastWritten = {} /\ mcpHarm = {}
  BY DEF RegistrationBegin
<1>2. \A n \in FileName : Fresh(n, mcpFile[n])
  BY <1>1 DEF FileName
<1>3. McpTyped
  BY <1>1, <1>2, NoMcpRunIs, McpAssumption DEF Fresh, McpTyped
<1>4. TornInPassing
  BY <1>2 DEF TornInPassing, Fresh
<1>5. WrittenSettles
  BY <1>1, NoMcpRunIs DEF WrittenSettles
<1>6. \A e \in Env : RunShaped(e) /\ UndisturbedRun(e)
  BY <1>1, NoMcpRunIs DEF RunShaped, UndisturbedRun
<1> QED
  BY <1>1, <1>2, <1>3, <1>4, <1>5, <1>6 DEF McpInv, Fresh

LEMMA McpInitSound == ASSUME RegistrationInit PROVE McpInv
<1>0. /\ Fresh("opencode.json", NoSuchFile) /\ Fresh("opencode.jsonc", NoSuchFile) /\ Fresh(".mcp.json", NoSuchFile)
      /\ ".mcp.json" \in FileName /\ [e \in Env |-> "home"] \in [Env -> {"home", "wrapper", "none"}]
  BY BareIsFresh DEF FileName
<1>1. OldEntry \in McpEntry
  BY DEF OldEntry, McpEntry
<1>2. Fresh(".mcp.json", JsonObject("object", OldEntry, "absent")) /\ Fresh("opencode.jsonc", JsonObject("object", OldEntry, "list"))
  BY <1>1, ObjectIsFresh DEF FileName
<1>3. CASE \E file \in ClaudeFiles : \E claude \in FilePlaces(file) :
             RegistrationBegin(claude, NoSuchFile, NoSuchFile, TargetId, "git", TRUE, [e \in Env |-> "home"])
  BY <1>3, <1>0, ClaudeFilesFresh, PlacesFresh, FilesBeginSound
<1>4. CASE \E json \in OpencodeFiles, jsonc \in {NoSuchFile, JsonObject("object", OldEntry, "list")} :
             RegistrationBegin(NoSuchFile, json, jsonc, TargetId, "git", TRUE, [e \in Env |-> "home"])
  BY <1>4, <1>0, <1>2, OpencodeFilesFresh, FilesBeginSound
<1>5. CASE \E claude \in FilePlaces(NoSuchFile) \cup FilePlaces(JsonObject("object", OldEntry, "absent")),
              config \in {"git", "none", "unreadable"},
              trace \in {{}, {"claude"}}, repository \in BOOLEAN, wrapped \in {{}} \cup {{e} : e \in Env} :
             RegistrationBegin(claude, NoSuchFile, NoSuchFile, trace, config, repository,
                               [e \in Env |-> IF e \in wrapped THEN "wrapper" ELSE "home"])
  <2>1. PICK claude \in FilePlaces(NoSuchFile) \cup FilePlaces(JsonObject("object", OldEntry, "absent")),
             config \in {"git", "none", "unreadable"},
             trace \in {{}, {"claude"}}, repository \in BOOLEAN, wrapped \in {{}} \cup {{e} : e \in Env} :
          RegistrationBegin(claude, NoSuchFile, NoSuchFile, trace, config, repository,
                            [e \in Env |-> IF e \in wrapped THEN "wrapper" ELSE "home"])
    BY <1>5
  <2>2. Fresh(".mcp.json", claude)
    BY <1>0, <1>2, PlacesFresh
  <2>3. [e \in Env |-> IF e \in wrapped THEN "wrapper" ELSE "home"] \in [Env -> {"home", "wrapper", "none"}]
    OBVIOUS
  <2>4. trace \in SUBSET TargetId
    BY DEF TargetId
  <2> QED
    BY <1>0, <2>1, <2>2, <2>3, <2>4, FilesBeginSound
<1> QED
  BY <1>3, <1>4, <1>5 DEF RegistrationInit

-----------------------------------------------------------------------------
\* The two pages read the same file the same way.
LEMMA PagesAgreeAlways == ASSUME McpInv PROVE PagesAgree
<1> SUFFICES ASSUME ~OpencodeAmbiguous, NEW t \in TargetId
             PROVE  LET state == CheckTarget(t, "home") IN
                    /\ GapFor(t) <=> state \in {"missing-file", "missing-entry", "unreadable"}
                    /\ state = "ok" => ServerListed(TargetsNow[t]) /\ ServerListedAs(TargetsNow[t]) = [transport |-> "local", enabled |-> TRUE]
  BY DEF PagesAgree
<1> DEFINE name == TargetsNow[t]
           doc == mcpFile[name]
<1>1. name \in FileName /\ DocSound(name, doc) /\ (IsOpencode(name) <=> t = "opencode")
  BY TargetsAre DEF McpInv, IsOpencode
<1>2. ASSUME NEW u \in TargetId, u # t PROVE ~(IsOpencode(TargetsNow[u]) <=> t = "opencode")
  BY <1>2, TargetsAre DEF IsOpencode
<1>3. ServerListed(name) <=> ReadableFile(doc) /\ EntryThere(doc)
  BY DEF ServerListed
<1>4. GapFor(t) <=> ~ServerListed(name)
  <2>1. ASSUME NEW other \in FileName, ServerListed(other), other # name PROVE ~(IsOpencode(other) <=> t = "opencode")
    BY <2>1, <1>2 DEF ServerListed
  <2> QED
    BY <1>1, <2>1 DEF GapFor, IsOpencode
<1>5. EntryThere(doc) => doc.is # "missing"
  BY <1>1 DEF DocSound, EntryThere
<1>6. GapFor(t) <=> CheckTarget(t, "home") \in {"missing-file", "missing-entry", "unreadable"}
  BY <1>3, <1>4, <1>5 DEF CheckTarget
<1>7. CheckTarget(t, "home") = "ok" => ReadableFile(doc) /\ EntryThere(doc) /\ EntryUpToDate(doc.entry)
  BY DEF CheckTarget
<1>8. EntryUpToDate(doc.entry) => ServerListedAs(name) = [transport |-> "local", enabled |-> TRUE]
  BY DEF EntryUpToDate, ServerListedAs
<1> QED
  BY <1>3, <1>6, <1>7, <1>8

LEMMA McpInvKeeps == ASSUME McpInv PROVE RegistrationKept
BY PagesAgreeAlways DEF McpInv, RegistrationKept, AutomaticIsNarrow, WrittenOnce, SetUpIsDone, Homely

\* The inductive invariant holds in every reachable state: a file of git and an entry of somebody else
\* are read as what they are when a run of its own accord writes them, unless somebody came between.
THEOREM McpInvariance == RegistrationSpec => []McpInv
<1>1. RegistrationInit => McpInv
  BY McpInitSound
<1>2. McpInv /\ [RegistrationNext]_mcpVars => McpInv'
  BY McpNextSound
<1> QED
  BY <1>1, <1>2, PTL DEF RegistrationSpec

\* For any environments and any number of runs, interruptions and failed writes: what runs by itself
\* touches a file of git only to correct the old wrapper, replaces no entry of others, no run writes
\* again what another wrote, after Einrichten everything readable is set up, the pages agree, and a
\* file is torn only in passing (mcp.go:395-482, 722-1080).
THEOREM RegistrationIsKept == RegistrationSpec => []RegistrationKept
<1>1. McpInv => RegistrationKept
  BY McpInvKeeps
<1> QED
  BY <1>1, McpInvariance, PTL

\* The shapes of the files, runs and counters (RegistrationTypeOK).
THEOREM RegistrationTypes == RegistrationSpec => []RegistrationTypeOK
<1>1. McpInv => RegistrationTypeOK
  BY DEF McpInv, McpTyped, McpDoc, McpRecord, FileName, RegistrationTypeOK, DocSound
<1> QED
  BY <1>1, McpInvariance, PTL

(***************************************************************************)
(* The project's own settings (ConfigFile).                                 *)
(***************************************************************************)
ConfigOps == EditOps \cup {"none", "discover", "create", "reset"}
ConfigSteps == {"idle", "write", "set aside", "migrate", "unlink old", "move", "unlink link", "exists", "create", "restore"}

\* An operation knows its backup while it resets, and only a reset sets aside or restores.
EditorShaped(p) ==
  /\ editor[p].op \in ConfigOps /\ editor[p].step \in ConfigSteps
  /\ editor[p].op = "reset" => editor[p].backup \in BackupName
  /\ editor[p].step \in {"set aside", "restore"} => editor[p].op = "reset"

\* While the settings are at the earlier place, nothing is at the new one and nobody is past the move.
OldFileAlone ==
  oldFile.own => /\ ~configFile.there
                 /\ \A p \in Editor : editor[p].step \in {"idle", "migrate", "move"} /\ editor[p].op # "reset"

ConfigInv ==
  /\ DOMAIN editor = Editor /\ DOMAIN backups = BackupName /\ clobbered \in BOOLEAN
  /\ \A p \in Editor : EditorShaped(p)
  /\ configFile.own => configFile.there
  /\ oldFile.own => oldFile.there /\ oldPlace \in {"file", "link"}
  /\ \A b \in BackupName : backups[b].own => backups[b].there
  /\ OldFileAlone
  /\ SettingsSurvive


\* An operation goes on; the others stay where they are.
LEMMA DoesEffect ==
  ASSUME ConfigInv, NEW p \in Editor, NEW op \in ConfigOps, NEW step \in ConfigSteps, Does(p, op, step),
         op = "reset" => editor[p].op = "reset", step \in {"set aside", "restore"} => op = "reset"
  PROVE  /\ DOMAIN editor' = Editor /\ \A q \in Editor : EditorShaped(q)'
         /\ \A q \in Editor : q # p => editor'[q] = editor[q]
         /\ editor'[p].op = op /\ editor'[p].step = step
  BY DEF ConfigInv, Does, EditorShaped, ConfigOps, ConfigSteps

LEMMA EndsEffect ==
  ASSUME ConfigInv, NEW p \in Editor, Ends(p)
  PROVE  /\ DOMAIN editor' = Editor /\ \A q \in Editor : EditorShaped(q)'
         /\ \A q \in Editor : q # p => editor'[q] = editor[q]
         /\ editor'[p].op = "none" /\ editor'[p].step = "idle"
  BY DEF ConfigInv, Ends, NoOp, EditorShaped, EditOps, ConfigOps, ConfigSteps

\* What an operation does after the migration, and what it does after an error.
LEMMA AfterEffects ==
  ASSUME ConfigInv, NEW p \in Editor, AfterMigration(p) \/ ConfigFails(p)
  PROVE  /\ DOMAIN editor' = Editor /\ \A q \in Editor : EditorShaped(q)'
         /\ \A q \in Editor : q # p => editor'[q] = editor[q]
         /\ ConfigFails(p) /\ editor[p].op # "reset" => editor'[p].step = "idle" /\ editor'[p].op # "reset"
<1>1. DOMAIN editor = Editor /\ \A q \in Editor : EditorShaped(q)
  BY DEF ConfigInv
<1>2. editor[p].op \in ConfigOps
  BY <1>1 DEF EditorShaped
<1> DEFINE Gone == /\ DOMAIN editor' = Editor /\ \A q \in Editor : EditorShaped(q)'
                   /\ \A q \in Editor : q # p => editor'[q] = editor[q]
<1>3. ASSUME Ends(p) PROVE Gone
  BY <1>3, EndsEffect
<1>4. ASSUME Does(p, editor[p].op, "exists") PROVE Gone
  BY <1>2, <1>4, DoesEffect DEF ConfigSteps
<1>5. ASSUME Does(p, "reset", "restore"), editor[p].op = "reset" PROVE Gone
  BY <1>2, <1>5, DoesEffect DEF ConfigSteps, ConfigOps
<1>6. Gone
  BY <1>3, <1>4, <1>5 DEF AfterMigration, ConfigFails
<1>7. ASSUME ConfigFails(p), editor[p].op # "reset" PROVE editor'[p].step = "idle" /\ editor'[p].op = "none"
  BY <1>7, EndsEffect DEF ConfigFails
<1> QED
  BY <1>6, <1>7

\* An action that leaves the files alone need only say where the operations stand.
LEMMA FilesStand ==
  ASSUME ConfigInv, StillFiles, UNCHANGED clobbered, DOMAIN editor' = Editor, \A q \in Editor : EditorShaped(q)',
         oldFile.own => \A q \in Editor : editor'[q].step \in {"idle", "migrate", "move"} /\ editor'[q].op # "reset"
  PROVE  ConfigInv'
  BY DEF ConfigInv, OldFileAlone, StillFiles, SettingsSurvive, BackupName

LEMMA ReadToEditSound == ASSUME ConfigInv, NEW p \in Editor, ReadToEdit(p) PROVE ConfigInv'
<1>1. DOMAIN editor = Editor /\ \A q \in Editor : EditorShaped(q)
  BY DEF ConfigInv
<1>2. ~oldFile.own
  BY DEF ReadToEdit, ConfigInv, OldFileAlone
<1>3. StillFiles /\ UNCHANGED clobbered
  BY DEF ReadToEdit, NoHarm
<1>4. CASE UNCHANGED editor
  BY <1>1, <1>4, <1>2, <1>3, FilesStand DEF EditorShaped, ConfigOps, ConfigSteps
<1>5. ASSUME NEW op \in EditOps, editor' = [editor EXCEPT ![p] = [NoOp EXCEPT !.op = op, !.step = "write", !.seen = configFile]]
      PROVE  ConfigInv'
  BY <1>1, <1>5, <1>2, <1>3, FilesStand DEF NoOp, EditorShaped, ConfigOps, ConfigSteps, EditOps
<1> QED
  BY <1>4, <1>5 DEF ReadToEdit

LEMMA ResetSound == ASSUME ConfigInv, NEW p \in Editor, ResetConfig(p) PROVE ConfigInv'
<1>1. DOMAIN editor = Editor /\ \A q \in Editor : EditorShaped(q)
  BY DEF ConfigInv
<1>2. ~oldFile.own
  BY DEF ResetConfig, ConfigInv, OldFileAlone
<1>3. StillFiles /\ UNCHANGED clobbered
  BY DEF ResetConfig
<1>4. CASE UNCHANGED editor
  BY <1>1, <1>4, <1>2, <1>3, FilesStand DEF EditorShaped, ConfigOps, ConfigSteps
<1>5. ASSUME NEW b \in BackupName,
             editor' = [editor EXCEPT ![p] = [NoOp EXCEPT !.op = "reset", !.step = "set aside", !.backup = b]]
      PROVE  ConfigInv'
  BY <1>1, <1>5, <1>2, <1>3, FilesStand DEF NoOp, EditorShaped, ConfigOps, ConfigSteps, BackupName
<1> QED
  BY <1>4, <1>5 DEF ResetConfig

LEMMA MigrateSound ==
  ASSUME ConfigInv, NEW p \in Editor, Discover(p) \/ CreateConfig(p) \/ MigrateConfig(p) \/ NeverOverwritten(p)
  PROVE  ConfigInv'
<1>1. DOMAIN editor = Editor /\ \A q \in Editor : EditorShaped(q)
  BY DEF ConfigInv
<1>2. StillFiles /\ UNCHANGED clobbered
  BY DEF Discover, CreateConfig, MigrateConfig, NeverOverwritten, NoHarm
<1>3. PICK now \in ConfigOps : now = editor[p].op
  BY <1>1 DEF EditorShaped
<1>4. {"discover", "create"} \subseteq ConfigOps /\ {"migrate", "unlink old", "move", "create"} \subseteq ConfigSteps
  BY DEF ConfigOps, ConfigSteps
<1>5. ASSUME NEW op \in {"discover", "create"}, Does(p, op, "migrate") PROVE ConfigInv'
  <2>1. /\ DOMAIN editor' = Editor /\ \A q \in Editor : EditorShaped(q)'
        /\ \A q \in Editor : q # p => editor'[q] = editor[q]
        /\ editor'[p].op = op /\ editor'[p].step = "migrate"
    BY <1>4, <1>5, DoesEffect
  <2> QED
    BY <1>2, <1>5, <2>1, FilesStand DEF ConfigInv, OldFileAlone
<1>6. ASSUME NEW step \in {"unlink old", "move", "create"}, Does(p, now, step), step = "move" \/ ~oldFile.own PROVE ConfigInv'
  <2>1. /\ DOMAIN editor' = Editor /\ \A q \in Editor : EditorShaped(q)'
        /\ \A q \in Editor : q # p => editor'[q] = editor[q]
        /\ editor'[p].op = now /\ editor'[p].step = step
    BY <1>3, <1>4, <1>6, DoesEffect
  <2> QED
    BY <1>2, <1>3, <1>6, <2>1, FilesStand DEF ConfigInv, OldFileAlone
<1>7. ASSUME ~oldFile.own, AfterMigration(p) \/ ConfigFails(p) PROVE ConfigInv'
  BY <1>2, <1>7, AfterEffects, FilesStand
<1>8. CASE Discover(p) \/ CreateConfig(p)
  BY <1>5, <1>8 DEF Discover, CreateConfig
<1>9. CASE MigrateConfig(p)
  BY <1>3, <1>6, <1>7, <1>9 DEF ConfigInv, OldFileAlone, MigrateConfig
<1>10. CASE NeverOverwritten(p)
  BY <1>10, <1>3, <1>6, <1>7 DEF NeverOverwritten, ConfigInv, OldFileAlone
<1> QED
  BY <1>8, <1>9, <1>10

LEMMA WriteEditSound == ASSUME ConfigInv, NEW p \in Editor, WriteEdit(p) PROVE ConfigInv'
<1>1. configFile # editor[p].seen => clobbered' \/ configFile.own = editor[p].seen.own
  <2>1. CASE EditsUnseen(editor[p].seen) = {}
    BY <2>1 DEF WriteEdit
  <2>2. CASE EditsUnseen(editor[p].seen) # {}
    <3>1. PICK o \in EditsUnseen(editor[p].seen) : TRUE
      BY <2>2
    <3>2. configFile = ConfigText(Edited(o, editor[p].seen.lines), editor[p].seen.own)
      BY <3>1 DEF EditsUnseen
    <3> QED
      BY <3>2, Zenon DEF ConfigText
  <2> QED
    BY <2>1, <2>2
<1>2. clobbered => clobbered'
  BY DEF WriteEdit
<1>3. configFile'.own = editor[p].seen.own /\ configFile'.there /\ clobbered' \in BOOLEAN
  BY DEF WriteEdit, ConfigText, ConfigInv
<1>4. SettingsSurvive'
  BY <1>1, <1>2, <1>3 DEF WriteEdit, ConfigInv, SettingsSurvive, BackupName
<1> QED
  BY <1>3, <1>4, EndsEffect DEF WriteEdit, ConfigInv, OldFileAlone

LEMMA SetAsideSound == ASSUME ConfigInv, NEW p \in Editor, SetAside(p) PROVE ConfigInv'
<1>1. editor[p].op = "reset" /\ editor[p].backup \in BackupName
  BY DEF SetAside, ConfigInv, EditorShaped
<1>2. ~oldFile.own /\ UNCHANGED <<oldPlace, oldFile>>
  BY <1>1 DEF SetAside, ConfigInv, OldFileAlone
<1>3. CASE ~configFile.there
  BY <1>2, <1>3, EndsEffect, FilesStand DEF SetAside, StillFiles
<1>4. CASE configFile.there
  <2>1. /\ backups' = [backups EXCEPT ![editor[p].backup] = configFile] /\ configFile' = NoConfig
        /\ clobbered' = (clobbered \/ backups[editor[p].backup].there) /\ Does(p, "reset", "migrate")
    BY <1>4 DEF SetAside
  <2>2. /\ DOMAIN editor' = Editor /\ \A q \in Editor : EditorShaped(q)'
    BY <1>1, <2>1, DoesEffect DEF ConfigOps, ConfigSteps
  <2>3. /\ DOMAIN backups' = BackupName /\ backups'[editor[p].backup] = configFile
        /\ \A b \in BackupName : b # editor[p].backup => backups'[b] = backups[b]
    BY <1>1, <2>1 DEF ConfigInv
  <2>4. ~configFile'.there /\ ~configFile'.own
    BY <2>1 DEF NoConfig
  <2>5. SettingsSurvive'
    <3>1. SUFFICES ASSUME ~clobbered' PROVE \E b \in BackupName : backups'[b].own
      BY DEF SettingsSurvive, BackupName
    <3>2. ~clobbered /\ ~backups[editor[p].backup].own
      BY <1>1, <2>1, <3>1 DEF ConfigInv
    <3>3. CASE configFile.own
      BY <1>1, <2>3, <3>3
    <3>4. CASE ~configFile.own
      BY <1>2, <3>2, <3>4, <2>3 DEF ConfigInv, SettingsSurvive
    <3> QED
      BY <3>3, <3>4
  <2>6. \A b \in BackupName : backups'[b].own => backups'[b].there
    BY <1>4, <2>3 DEF ConfigInv
  <2>7. clobbered' \in BOOLEAN
    BY <1>1, <2>1 DEF ConfigInv
  <2> QED
    BY <1>2, <2>2, <2>3, <2>4, <2>5, <2>6, <2>7 DEF ConfigInv, OldFileAlone, BackupName
<1> QED
  BY <1>3, <1>4

LEMMA RemoveOldSound == ASSUME ConfigInv, NEW p \in Editor, RemoveOld(p) PROVE ConfigInv'
  BY AfterEffects DEF RemoveOld, ConfigInv, OldFileAlone, NoConfig, NoHarm, SettingsSurvive, BackupName

LEMMA MoveOldSound == ASSUME ConfigInv, NEW p \in Editor, MoveOld(p) PROVE ConfigInv'
<1>1. CASE ~oldFile.there
  BY <1>1, AfterEffects, FilesStand DEF MoveOld, StillFiles, ConfigInv
<1>2. CASE oldFile.there
  <2>1. /\ configFile' = oldFile /\ oldFile' = NoConfig /\ clobbered' = (clobbered \/ configFile.there)
        /\ UNCHANGED backups
    BY <1>2 DEF MoveOld
  <2>2. DOMAIN editor' = Editor /\ \A q \in Editor : EditorShaped(q)'
    <3>1. CASE AfterMigration(p)
      BY <3>1, AfterEffects
    <3>2. CASE Does(p, editor[p].op, "unlink link")
      BY <3>2, DoesEffect DEF ConfigInv, EditorShaped, ConfigSteps
    <3> QED
      BY <1>2, <3>1, <3>2 DEF MoveOld
  <2>3. ~oldFile'.own
    BY <2>1 DEF NoConfig
  <2>4. SettingsSurvive'
    BY <2>1 DEF SettingsSurvive, ConfigInv, BackupName
  <2> QED
    BY <1>2, <2>1, <2>2, <2>3, <2>4 DEF ConfigInv, OldFileAlone, BackupName
<1> QED
  BY <1>1, <1>2

LEMMA WriteNewSound == ASSUME ConfigInv, NEW p \in Editor, WriteNew(p) PROVE ConfigInv'
  BY EndsEffect DEF WriteNew, ConfigInv, OldFileAlone, NewConfig, ConfigText, SettingsSurvive, BackupName

LEMMA RestoreSound == ASSUME ConfigInv, NEW p \in Editor, RestoreConfig(p) PROVE ConfigInv'
<1>1. editor[p].op = "reset" /\ editor[p].backup \in BackupName
  BY DEF RestoreConfig, ConfigInv, EditorShaped
<1>2. ~oldFile.own /\ UNCHANGED <<oldPlace, oldFile>>
  BY <1>1 DEF RestoreConfig, ConfigInv, OldFileAlone
<1>3. DOMAIN editor' = Editor /\ \A q \in Editor : EditorShaped(q)'
  BY EndsEffect DEF RestoreConfig
<1>4. CASE ~backups[editor[p].backup].there
  BY <1>2, <1>4, <1>3, FilesStand DEF RestoreConfig, StillFiles
<1>5. CASE backups[editor[p].backup].there
  <2>1. /\ configFile' = backups[editor[p].backup] /\ backups' = [backups EXCEPT ![editor[p].backup] = NoConfig]
        /\ clobbered' = (clobbered \/ configFile.there)
    BY <1>5 DEF RestoreConfig
  <2>2. /\ DOMAIN backups' = BackupName /\ ~backups'[editor[p].backup].own
        /\ \A b \in BackupName : b # editor[p].backup => backups'[b] = backups[b]
    BY <1>1, <2>1 DEF ConfigInv, NoConfig
  <2>3. SettingsSurvive'
    BY <2>1, <1>2, <2>2 DEF SettingsSurvive, BackupName, ConfigInv
  <2>4. \A b \in BackupName : backups'[b].own => backups'[b].there
    BY <2>2 DEF ConfigInv
  <2> QED
    BY <1>2, <1>3, <1>5, <2>1, <2>2, <2>3, <2>4 DEF ConfigInv, OldFileAlone, BackupName
<1> QED
  BY <1>4, <1>5

LEMMA BreaksConfigSound == ASSUME ConfigInv, NEW p \in Editor, ConfigBreaks(p) PROVE ConfigInv'
<1>1. /\ DOMAIN editor' = Editor /\ \A q \in Editor : EditorShaped(q)'
      /\ \A q \in Editor : q # p => editor'[q] = editor[q]
      /\ editor[p].op # "reset" => editor'[p].step = "idle" /\ editor'[p].op # "reset"
  BY EndsEffect, AfterEffects DEF ConfigBreaks
<1>2. UNCHANGED <<oldPlace, oldFile, backups>>
  BY DEF ConfigBreaks
<1>3. oldFile.own => \A q \in Editor : editor'[q].step \in {"idle", "migrate", "move"} /\ editor'[q].op # "reset"
  BY <1>1 DEF ConfigInv, OldFileAlone
<1>4. CASE UNCHANGED <<configFile, clobbered>>
  BY <1>1, <1>2, <1>3, <1>4, FilesStand DEF StillFiles
<1>5. CASE /\ editor[p].step \in {"write", "create"} /\ configFile' = ConfigText(<<>>, FALSE)
           /\ clobbered' = (clobbered \/ configFile.own)
  BY <1>5, <1>2, <1>1 DEF ConfigInv, OldFileAlone, ConfigText, SettingsSurvive, BackupName
<1> QED
  BY <1>4, <1>5 DEF ConfigBreaks

LEMMA ConfigStarts == ConfigInit => ConfigInv
<1>1. SUFFICES ASSUME NEW today, NEW place \in {"none", "file", "link"}, NEW leftover \in BOOLEAN,
                      ConfigBegin(today, place, leftover)
               PROVE  ConfigInv
  BY DEF ConfigInit
<1>2. DOMAIN editor = Editor /\ \A p \in Editor : editor[p] = NoOp
  BY <1>1 DEF ConfigBegin
<1>3. DOMAIN backups = BackupName /\ \A b \in BackupName : ~backups[b].own
  BY <1>1 DEF ConfigBegin, NoConfig
<1>4. ~clobbered /\ clobbered \in BOOLEAN
  BY <1>1 DEF ConfigBegin
<1>5. \A p \in Editor : editor[p].op = "none" /\ editor[p].step = "idle"
  BY <1>2 DEF NoOp
<1>6. \A p \in Editor : EditorShaped(p)
  BY <1>5 DEF EditorShaped, ConfigOps, ConfigSteps
<1>7. CASE place = "none" \/ leftover
  BY <1>1, <1>7, <1>2, <1>3, <1>4, <1>6 DEF ConfigBegin, ConfigText, NoConfig, ConfigInv, OldFileAlone, SettingsSurvive
<1>8. CASE place # "none" /\ ~leftover
  BY <1>1, <1>8, <1>2, <1>3, <1>4, <1>5, <1>6 DEF ConfigBegin, ConfigText, NoConfig, ConfigInv, OldFileAlone, SettingsSurvive
<1> QED
  BY <1>7, <1>8

LEMMA ConfigGoesOn == ConfigInv /\ [ConfigNext]_configVars => ConfigInv'
<1>1. SUFFICES ASSUME ConfigInv, [ConfigNext]_configVars PROVE ConfigInv'
  OBVIOUS
<1>2. CASE UNCHANGED configVars
  BY <1>1, <1>2 DEF configVars, ConfigInv, EditorShaped, OldFileAlone, SettingsSurvive, ConfigOps, ConfigSteps, BackupName
<1>3. ASSUME NEW p \in Editor, ReadToEdit(p) \/ WriteEdit(p) \/ ResetConfig(p) \/ SetAside(p) PROVE ConfigInv'
  BY <1>1, <1>3, ReadToEditSound, WriteEditSound, ResetSound, SetAsideSound
<1>4. ASSUME NEW p \in Editor, Discover(p) \/ CreateConfig(p) \/ MigrateConfig(p) \/ NeverOverwritten(p) PROVE ConfigInv'
  BY <1>1, <1>4, MigrateSound
<1>5. ASSUME NEW p \in Editor, RemoveOld(p) \/ MoveOld(p) \/ WriteNew(p) \/ RestoreConfig(p) \/ ConfigBreaks(p) PROVE ConfigInv'
  BY <1>1, <1>5, RemoveOldSound, MoveOldSound, WriteNewSound, RestoreSound, BreaksConfigSound
<1> QED
  BY <1>1, <1>2, <1>3, <1>4, <1>5 DEF ConfigNext

\* The settings of the project are in the file, at the earlier place or in a backup, whoever moves,
\* resets and creates at once, except after a write or a rename replaced what it had not
\* seen or broke off: the part of ConfigKept on what is lost.
THEOREM SettingsAreKept == ConfigSpec => []SettingsSurvive
<1>1. ConfigInv => SettingsSurvive
  BY DEF ConfigInv
<1> QED
  BY ConfigStarts, ConfigGoesOn, <1>1, PTL DEF ConfigSpec

================================================================================
