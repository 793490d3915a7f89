------------------------------- MODULE ReviewMerge -------------------------------
(***************************************************************************)
(* The merge of a review run (review/merge): the findings of the scanners    *)
(* and of the assistants are loaded from their SARIF, joined to groups by    *)
(* hard keys, named by stable ids that a later run finds again, rated, and   *)
(* covered by the known decisions of the project (knowndecisions).          *)
(*                                                                         *)
(* A merge is a function of the files it reads; a step makes up the files    *)
(* and computes it.  A second step repeats it after assistants have moved    *)
(* their lines and reworded their texts.                                    *)
(***************************************************************************)
EXTENDS Integers, Sequences, FiniteSets
LOCAL INSTANCE SequencesExt
LOCAL INSTANCE FiniteSetsExt

VARIABLES
  mergedRun,    \* the results in the SARIF files and the decisions
  auditFindings, \* findings[i]: the i-th finding
  groups,   \* groups[k]: members (indices into findings), stable id and key
  coverage, \* coverage[i]: the decision that covers finding i, by its place
  later,    \* the groups of a later run
  rating    \* what is known of a finding, the catalogue of severities, and the result

mergeVars == <<mergedRun, auditFindings, groups, coverage, later, rating>>

(***************************************************************************)
(* Paths: sequences of segments, rooted when they begin with a slash        *)
(***************************************************************************)
PathOf(rooted, segments) == [rooted |-> rooted, segments |-> segments]
NoPath == PathOf(FALSE, <<>>)

Normalize(path) ==
  LET Collapse(kept, s) ==
        CASE s \in {"", "."} -> kept
          [] s = ".." /\ kept # <<>> /\ kept[Len(kept)] # ".." -> Front(kept)
          [] s = ".." /\ path.rooted /\ kept = <<>> -> kept
          [] OTHER -> Append(kept, s)
  IN FoldLeft(Collapse, <<>>, path.segments)

\* The same once more, frozen: it goes into the stable ids.
StablePath(path) == Normalize(path)

\* A pattern is a path, or a directory followed by "**".
GlobMatch(pattern, path) ==
  /\ pattern # <<>> /\ path # <<>>
  /\ IF pattern[Len(pattern)] = "**" THEN IsPrefix(Front(pattern), path) ELSE pattern = path

(***************************************************************************)
(* Findings                                                                *)
(***************************************************************************)
Rules == <<"r1", "r2", "x1">>
RuleForResult(result) == IF result.rule # "" THEN result.rule
                         ELSE IF result.ruleIndex \in 1..Len(Rules) THEN Rules[result.ruleIndex] ELSE ""

NoDependency == [package |-> "", version |-> "", ids |-> {}, keyIds |-> {}, textPackage |-> ""]

\* A package is named by a property or a purl; what only the text names is kept
\* apart.  Ids in the rule or in a property name the finding, others come from
\* the text and are taken if there is nothing better.
ExtractDependency(result) ==
  LET package == IF result.package # "" THEN result.package ELSE result.purl
      ids == result.namedIds \cup result.textIds
  IN IF package = "" /\ ids = {} /\ result.version = "" THEN NoDependency
     ELSE [package |-> package, version |-> result.version, ids |-> ids,
           keyIds |-> IF result.namedIds = {} THEN ids ELSE result.namedIds,
           textPackage |-> IF package = "" THEN result.textPackage ELSE ""]

ReadSARIF(result) ==
  [tool |-> result.tool, evidence |-> result.tool = "recipe", path |-> result.path, line |-> result.line,
   rule |-> RuleForResult(result),
   message |-> result.message, prints |-> result.prints, dependency |-> ExtractDependency(result)]

LoadFindings(results) ==
  LET Loaded(result) == result.entry = "done" /\ result.job = "done"
      kept == SelectSeq(results, Loaded)
  IN [i \in 1..Len(kept) |-> ReadSARIF(kept[i])]

(***************************************************************************)
(* Hard keys                                                               *)
(***************************************************************************)
HasDependency(f) == f.dependency # NoDependency
NamesFinding(tool, print) == tool = "osv" /\ print.name = "hash"

FingerprintKeys(f) == {<<"fingerprint", f.tool, p>> : p \in {p \in f.prints : HasDependency(f) => NamesFinding(f.tool, p)}}

ExactKey(f) == IF f.path = NoPath \/ f.line = 0 \/ f.rule = "" \/ f.message = "" THEN {}
               ELSE {<<"exact", Normalize(f.path), f.line, f.rule, f.message>>}

DependencyKeys(d) == IF d.package = "" THEN {} ELSE {<<"dependency", id, d.package, d.version>> : id \in d.keyIds}

SameLocationToolKey(f) == IF f.evidence \/ HasDependency(f) \/ f.path = NoPath \/ f.line = 0 THEN {}
                          ELSE {<<"same-location-tool", f.tool, Normalize(f.path), f.line>>}

AiPathRuleKey(f) == IF ~f.evidence \/ f.path = NoPath \/ f.rule = "" THEN {} ELSE {<<"ai", f.tool, Normalize(f.path), f.rule>>}

HardKeys(f) == FingerprintKeys(f) \cup ExactKey(f) \cup DependencyKeys(f.dependency) \cup SameLocationToolKey(f)
               \cup AiPathRuleKey(f)

\* What is computed once for all its uses.
Only(values) == CHOOSE value \in values : TRUE

\* Defect: a finding joins the first group that has a key of its, the groups of
\* its other keys stay apart.
JoinFirstKeyOnly(parts, hard, i) ==
  LET met == {p \in parts : \E k \in p : hard[k] \cap hard[i] # {}} IN
  IF met = {} THEN parts \cup {{i}}
  ELSE LET first == CHOOSE p \in met : \A q \in met : Min(p) <= Min(q) IN (parts \ {first}) \cup {first \cup {i}}

\* A finding joins the groups of all owners of its keys.
JoinGroups(parts, hard, i) ==
  LET met == {p \in parts : \E k \in p : hard[k] \cap hard[i] # {}} IN (parts \ met) \cup {UNION met \cup {i}}

\* One finding after the other; the groups in the order of their first members.
GroupFindings(fs) ==
  LET Joined(hard) == FoldLeft(LAMBDA parts, i : JoinGroups(parts, hard, i), {}, [i \in DOMAIN fs |-> i])
  IN Only({SetToSortSeq(parts, LAMBDA p, q : Min(p) < Min(q)) :
             parts \in {Joined(hard) : hard \in {[i \in DOMAIN fs |-> HardKeys(fs[i])]}}})

(***************************************************************************)
(* The representative of a group, and what may be a duplicate of it         *)
(***************************************************************************)
FindingsWithSameDependency(fs, members) ==
  LET d == fs[Min(members)].dependency IN
  IF d.package = "" THEN {Min(members)}
  ELSE {i \in members : fs[i].dependency.package = d.package /\ fs[i].dependency.version = d.version}

Representative(fs, members) ==
  LET same == FindingsWithSameDependency(fs, members)
  IN [fs[Min(members)] EXCEPT !.dependency.ids = UNION {fs[i].dependency.ids : i \in same},
                              !.dependency.keyIds = UNION {fs[i].dependency.keyIds : i \in same}]

SameLine(a, b) == a.path # NoPath /\ b.path # NoPath /\ a.line # 0 /\ a.line = b.line /\ Normalize(a.path) = Normalize(b.path)
SimilarRuleFamily(a, b) == {a.rule, b.rule} \subseteq {"r1", "r2"} \/ (a.rule = b.rule /\ a.rule # "")
PossibleDependencyDuplicate(a, b) ==
  /\ a.ids \cap b.ids # {}
  /\ DependencyKeys(a) = {} \/ DependencyKeys(b) = {} \/ a.package # b.package \/ a.version # b.version

PossibleDuplicates(fs, parts) ==
  LET R(k) == Representative(fs, parts[k]) IN
  [k \in 1..Len(parts) |->
     {m \in (1..Len(parts)) \ {k} : \/ SameLine(R(k), R(m)) /\ SimilarRuleFamily(R(k), R(m))
                                    \/ PossibleDependencyDuplicate(R(k).dependency, R(m).dependency)}]

(***************************************************************************)
(* Stable ids                                                              *)
(***************************************************************************)
AiClassApplies(fs, members) == \A i \in members : fs[i].evidence /\ StablePath(fs[i].path) # <<>> /\ fs[i].rule # ""
DependencyPrimaryIds(fs, members) == UNION {fs[i].dependency.keyIds : i \in members}
StableClass(fs, members) == IF AiClassApplies(fs, members) THEN "ai"
                            ELSE IF DependencyPrimaryIds(fs, members) # {} THEN "dependency" ELSE "location"

StableKey(fs, members) ==
  LET Values(V(_)) == {V(fs[i]) : i \in members}
      class == StableClass(fs, members)
      named == <<class, Values(LAMBDA f : f.tool), Values(LAMBDA f : f.rule)>>
  IN IF class = "ai" THEN named \o <<Values(LAMBDA f : StablePath(f.path))>>
     ELSE named \o <<Values(LAMBDA f : <<StablePath(f.path), f.line>>), Values(LAMBDA f : f.message),
                     Values(LAMBDA f : f.prints),
                     Values(LAMBDA f : <<f.dependency.keyIds, f.dependency.package, f.dependency.version>>)>>

StablePrefix(fs, members) ==
  LET class == StableClass(fs, members) IN
  IF class = "dependency" THEN <<class, DependencyPrimaryIds(fs, members)>>
  ELSE <<class, IF Cardinality({fs[i].tool : i \in members}) = 1 THEN fs[Min(members)].tool ELSE "multi">>

\* The digest of a key, as far as ids show it: the k-th of the different keys
\* has the k-th digest, and digests may begin alike.
DigestPlan == {<< <<1, 1, 1>>, <<2, 1, 1>>, <<3, 1, 1>> >>, << <<1, 1, 1>>, <<1, 2, 1>>, <<2, 1, 1>> >>,
               << <<1, 1, 1>>, <<1, 1, 2>>, <<1, 2, 1>> >>}

\* Every id is as short as it may be, and at least one part of the digest long.
ShortenStableIds(prefixes, full) ==
  LET Unique(k, n) == \A m \in DOMAIN full \ {k} : prefixes[m] = prefixes[k] => SubSeq(full[m], 1, n) # SubSeq(full[k], 1, n)
      Length(k) == CHOOSE n \in 1..3 : (Unique(k, n) \/ n = 3) /\ \A s \in 1..(n - 1) : ~Unique(k, s)
  IN [k \in DOMAIN full |-> <<prefixes[k], SubSeq(full[k], 1, Length(k))>>]

NameGroups(fs, parts, keys, near, digests) ==
  LET First(k) == Min({m \in DOMAIN parts : keys[m] = keys[k]})
      full == [k \in DOMAIN parts |-> digests[Cardinality({keys[m] : m \in 1..First(k)})]]
      prefixes == [k \in DOMAIN parts |-> StablePrefix(fs, parts[k])]
      Group(k, ids) == [members |-> parts[k], key |-> keys[k], stableId |-> ids[k], near |-> {ids[m] : m \in near[k]}]
      Short == {ShortenStableIds(p, f) : p \in {prefixes}, f \in {full}}
  IN Only({[k \in DOMAIN parts |-> Group(k, ids)] : ids \in Short})

BuildGroups(fs, digests) ==
  Only(UNION {{NameGroups(fs, parts, keys, near, digests) :
                 keys \in {[k \in DOMAIN parts |-> StableKey(fs, parts[k])]}, near \in {PossibleDuplicates(fs, parts)}}
              : parts \in {GroupFindings(fs)}})

(***************************************************************************)
(* Known decisions                                                         *)
(***************************************************************************)
\* A line of a decision: a key that opens a block, a field, an entry of match.
Blank == [stableId |-> <<>>, pathGlob |-> <<>>, rule |-> "", location |-> <<>>, id |-> "", package |-> "", version |-> ""]

\* Within match every line is one of its criteria, whatever its column.
ReadDecisionLine(s, l) ==
  CASE l.kind = "opens" -> [s EXCEPT !.inMatch = l.key = "match"]
    [] l.kind = "field" /\ ~s.inMatch /\ l.key = "expires"  -> [s EXCEPT !.expires = l.value]
    [] l.kind = "field" /\ ~s.inMatch /\ l.key = "category" -> [s EXCEPT !.category = l.value]
    [] l.kind = "field" /\ s.inMatch /\ s.match = <<>> -> [s EXCEPT !.readable = FALSE]
    [] l.kind = "item" /\ s.inMatch -> [s EXCEPT !.match = Append(@, l.value)]
    [] OTHER -> s

ParseDecision(lines) == FoldLeft(ReadDecisionLine, [inMatch |-> FALSE, expires |-> 0, category |-> "",
                                                    match |-> <<>>, readable |-> TRUE], lines)

ValidateCriterion(c) == \/ c.stableId # <<>> \/ c.pathGlob # <<>>
                        \/ c.rule # "" /\ c.location # <<>>
                        \/ c.rule = "" /\ c.id # "" /\ (c.package # "" \/ c.version # "")

ValidDecision(d) == d.readable /\ d.category = "wontfix" /\ d.match # <<>>
                    /\ \A i \in 1..Len(d.match) : ValidateCriterion(d.match[i])

\* Days are numbers, 0 for a decision without an end.
Expired(d, today) == d.expires # 0 /\ d.expires <= today

MatchesCriterion(c, f, stableId) ==
  \/ c.stableId # <<>> /\ c.id = "" /\ c.stableId = stableId
  \/ c.pathGlob # <<>> /\ GlobMatch(c.pathGlob, Normalize(f.path))
  \/ c.rule # "" /\ c.rule = f.rule /\ GlobMatch(c.location, Normalize(f.path))
  \/ /\ c.id # "" /\ c.id \in f.dependency.ids
     /\ \/ c.stableId # <<>> /\ c.stableId = stableId
        \/ /\ c.package # "" => c.package = f.dependency.package
           /\ c.version # "" => c.version = f.dependency.version
           /\ c.package # "" \/ c.version # "" \/ c.stableId # <<>>

StableIdOf(gs, i) == (CHOOSE k \in DOMAIN gs : i \in gs[k].members)

\* The first decision, in the order of their ids, that holds and matches.
MatchDecision(f, stableId, decisions, today) ==
  LET hits == {d \in DOMAIN decisions : /\ ~Expired(decisions[d], today)
                                         /\ \E c \in 1..Len(decisions[d].match) :
                                              MatchesCriterion(decisions[d].match[c], f, stableId)}
  IN IF hits = {} THEN 0 ELSE Min(hits)

\* By their ids, here their places; one with a mistake is left out.
LoadDecisions(written) ==
  LET valid == {d \in DOMAIN written : ValidDecision(ParseDecision(written[d]))}
  IN [d \in valid |-> ParseDecision(written[d])]

\* Defect: a decision is asked for once per group, for its first member.
ApplyPerGroup(fs, gs, decisions, today) ==
  [k \in DOMAIN gs |-> MatchDecision(fs[Min(gs[k].members)], gs[k].stableId, decisions, today)]

ApplyKnownDecisions(fs, gs, decisions, today) ==
  [i \in DOMAIN fs |-> MatchDecision(fs[i], gs[StableIdOf(gs, i)].stableId, decisions, today)]

CoverageByGroup(group, covered) ==
  LET by == {covered[i] : i \in group.members} IN
  [full |-> IF Cardinality(by) = 1 /\ by # {0} THEN Min(by) ELSE 0, partial |-> by # {0} /\ Cardinality(by) > 1]

(***************************************************************************)
(* Severity                                                                *)
(***************************************************************************)
\* A line of the catalogue: tool, a beginning of the rule id, a severity.
SortMapping(lines) == SortSeq(lines, LAMBDA a, b : Len(a.rulePrefix) > Len(b.rulePrefix))
MappingSeverity(mapping, tool, rule) ==
  LET Fits(l) == l.tool = tool /\ IsPrefix(l.rulePrefix, rule)
      fit == SelectSeq(mapping, Fits)
  IN IF fit = <<>> THEN "" ELSE fit[1].severity

SeverityForCVSS(score) == CASE score >= 70 -> "error" [] score >= 40 /\ score < 70 -> "warning"
                            [] score > 0 /\ score < 40 -> "note" [] OTHER -> "none"

\* What a vector says, by the gravest of its three effects.
VectorSeverity(vector) == CASE vector = "" -> "" [] vector = "high" -> "error" [] vector = "low" -> "warning" [] OTHER -> "note"

NormalizeToolSeverity(word) ==
  CASE word \in {"critical", "high"} -> "error" [] word \in {"medium", "moderate"} -> "warning"
    [] word \in {"low", "info"} -> "note" [] word = "negligible" -> "none" [] OTHER -> ""

\* The properties of a result or a rule: a score, ten times that of the standard
\* and -1 when there is none, a vector, and the words under the keys a tool may use.
Says(score, vector, words) == [score |-> score, vector |-> vector, words |-> words]

FirstSaid(severities) == LET said == {n \in DOMAIN severities : severities[n] # ""}
                         IN IF said = {} THEN "" ELSE severities[Min(said)]

SeverityFromCVSS(objects) ==
  FirstSaid([k \in DOMAIN objects |-> IF objects[k].score >= 0 THEN SeverityForCVSS(objects[k].score)
                                     ELSE VectorSeverity(objects[k].vector)])

SeverityFromToolMetadata(objects) ==
  FirstSaid([k \in DOMAIN objects |-> FirstSaid([n \in DOMAIN objects[k].words |-> NormalizeToolSeverity(objects[k].words[n])])])

Strong(level) == level \notin {"", "none", "warning"}

DeriveSeverity(level, objects, mapping, tool, rule) ==
  IF Strong(level) THEN level
  ELSE FirstSaid(<<SeverityFromCVSS(objects), SeverityFromToolMetadata(objects), MappingSeverity(mapping, tool, rule),
                   level, "unmapped">>)

(***************************************************************************)
(* What tools and authors write                                            *)
(***************************************************************************)
P(s) == PathOf(FALSE, <<"src", s>>)
Detour == PathOf(TRUE, <<"", ".", "src", "b", "..", "a">>)
HashPrint == [name |-> "hash", value |-> 1]

Reported(tool, path, line, rule, index, message, prints, package, purl, version, namedIds, textIds) ==
  [entry |-> "done", job |-> "done", tool |-> tool, path |-> path, line |-> line, rule |-> rule,
   ruleIndex |-> index, message |-> message,
   prints |-> prints, package |-> package, purl |-> purl, version |-> version, namedIds |-> namedIds,
   textIds |-> textIds, textPackage |-> "p"]

LintResult == {Reported("lint", path, line, "r2", 0, m, prints, "", "", "", {}, {}) :
                 path \in {NoPath, P("a"), Detour, P("b")}, line \in {0, 1}, m \in {"m1", "m2"}, prints \in {{HashPrint}}}
              \cup {Reported("lint", P("a"), 1, "", index, "m1", {}, "", "", "", {}, {}) : index \in {0, 1, 4}}
AiResult == {Reported("recipe", path, line, rule, 0, m, {}, "", "", "", {}, ids) :
               path \in {P("a"), Detour, P("b")}, line \in {0, 1}, rule \in {"r1", "r2"}, m \in {"m1", "m2"},
               ids \in {{}, {"c1"}}}
DependencyResult == {Reported(tool, P("lock"), 1, "x1", 0, "m1", prints, package, purl, version, named, text) :
                       tool \in {"osv", "grype"}, prints \in {{}, {HashPrint}}, package \in {"", "p"},
                       purl \in {"", "q"}, version \in {"", "1"},
                       named \in {{}, {"c1"}}, text \in {{"c2"}}}
Chained == {Reported("osv", P("lock"), 0, "", 0, "", prints, "p", "", "1", ids, {}) :
              prints \in {{}, {HashPrint}}, ids \in {{"c1"}, {"c2"}, {"c1", "c2"}}}
           \cup {Reported("lint", P("a"), 1, "r1", 0, m, {}, "", "", "", {}, {}) : m \in {"m1", "m2"}}
           \cup {Reported("recipe", P("a"), 1, "r1", 0, m, {}, "", "", "", {}, {}) : m \in {"m1", "m2"}}

Lines(c, expires, matchFirst) ==
  LET match == <<[kind |-> "opens", key |-> "match"], [kind |-> "item", value |-> c]>>
      day == IF expires = 0 THEN <<>> ELSE <<[kind |-> "field", key |-> "expires", value |-> expires]>>
      head == <<[kind |-> "field", key |-> "category", value |-> "wontfix"]>>
  IN IF matchFirst THEN head \o match \o day ELSE head \o day \o match

Others == {[Blank EXCEPT !.id = "c1", !.package = "p"], [Blank EXCEPT !.pathGlob = <<"src", "**">>],
           [Blank EXCEPT !.rule = "r1", !.location = <<"src", "a">>], [Blank EXCEPT !.rule = "r1"]}
Criteria(gs) == {[Blank EXCEPT !.stableId = gs[k].stableId] : k \in DOMAIN gs}
                \cup {[Blank EXCEPT !.id = "c1", !.stableId = gs[1].stableId], [Blank EXCEPT !.id = "c1"]} \cup Others

RuleName == {<<"a", "b">>, <<"a", "c">>, <<"c">>}
CatalogueLine == {[tool |-> "lint", rulePrefix |-> <<"a">>, severity |-> "note"],
                  [tool |-> "lint", rulePrefix |-> <<"a", "b">>, severity |-> "error"],
                  [tool |-> "other", rulePrefix |-> <<"a">>, severity |-> "warning"]}

(***************************************************************************)
(* Steps                                                                   *)
(***************************************************************************)
Today == 2
MergeInit == mergedRun = <<>> /\ auditFindings = <<>> /\ groups = <<>> /\ coverage = <<>> /\ later = <<>> /\ rating = <<>>

Merge(results, digests) ==
  /\ mergedRun' = [results |-> results, digests |-> digests, written |-> <<>>]
  /\ auditFindings' = LoadFindings(results)
  /\ groups' = BuildGroups(auditFindings', digests)
  /\ UNCHANGED <<coverage, later, rating>>

Alike == CHOOSE d \in DigestPlan : d[1][1] = d[2][1]
MergeFindings ==
  /\ mergedRun = <<>> /\ rating = <<>>
  /\ \/ \E a \in LintResult \cup AiResult, b \in AiResult : Merge(<<a, b>>, Alike)
     \/ \E a, b \in LintResult : Merge(<<a, b>>, Alike)
     \/ \E a, b \in DependencyResult : Merge(<<a, b>>, Alike)
     \/ \E a, b, c \in Chained, digests \in DigestPlan : Merge(<<a, b, c>>, digests)
     \/ \E a, b \in Chained, e, j \in {"done", "failed"} : Merge(<<[a EXCEPT !.entry = e], [b EXCEPT !.job = j]>>, Alike)

\* Decisions are written about a run that was merged, and it is merged again.
DecideAndMerge ==
  /\ mergedRun # <<>> /\ Len(mergedRun.results) = 2 /\ auditFindings # <<>> /\ mergedRun.written = <<>> /\ later = <<>>
  /\ {mergedRun.results[1], mergedRun.results[2]} \subseteq Chained
  /\ \E c1 \in Criteria(groups), c2 \in Others, day \in {0, 2, 3}, matchFirst \in BOOLEAN :
       /\ matchFirst => day = 2
       /\ mergedRun' = [mergedRun EXCEPT !.written = <<Lines(c1, day, matchFirst), Lines(c2, 0, FALSE)>>]
       /\ \E decisions \in {LoadDecisions(mergedRun'.written)} :
            coverage' = ApplyKnownDecisions(auditFindings, groups, decisions, Today)
  /\ UNCHANGED <<auditFindings, groups, later, rating>>

\* In a later run the assistants name other lines and use other words.
RunAgain ==
  /\ mergedRun # <<>> /\ mergedRun.written = <<>> /\ later = <<>> /\ \E i \in DOMAIN auditFindings : auditFindings[i].evidence
  /\ LET Moved(r) == IF r.tool = "recipe" THEN [r EXCEPT !.line = @ + 5, !.message = "reworded"] ELSE r IN
     \E again \in {LoadFindings([i \in DOMAIN mergedRun.results |-> Moved(mergedRun.results[i])])} :
       later' = BuildGroups(again, mergedRun.digests)
  /\ UNCHANGED <<mergedRun, auditFindings, groups, coverage, rating>>

\* The level, what a result and its rule say, and two lines of the catalogue.
Silent == <<-1, "">>
ResultSays == {Says(said[1], said[2], words) :
                 said \in {Silent, <<0, "">>, <<39, "high">>, <<70, "">>, <<-1, "high">>, <<-1, "low">>, <<-1, "other">>},
                 words \in {<<"", "">>, <<"high", "">>, <<"odd", "low">>}}
RuleSays == {Says(said[1], said[2], words) :
               said \in {Silent, <<40, "">>, <<-1, "low">>}, words \in {<<"", "">>, <<"negligible", "moderate">>}}
Rate ==
  /\ mergedRun = <<>> /\ rating = <<>>
  /\ \E level \in {"", "none", "warning", "error", "odd"}, result \in ResultSays, of \in RuleSays, rule \in RuleName,
        first, second \in CatalogueLine :
       rating' = [level |-> level, says |-> <<result, of>>, rule |-> rule, lines |-> {first, second},
                  severity |-> DeriveSeverity(level, <<result, of>>, SortMapping(<<first, second>>), "lint", rule)]
  /\ UNCHANGED <<mergedRun, auditFindings, groups, coverage, later>>

MergeNext == MergeFindings \/ DecideAndMerge \/ RunAgain \/ Rate
MergeSpec == MergeInit /\ [][MergeNext]_mergeVars

MergeTypeOK == /\ \A k \in DOMAIN groups : groups[k].members \subseteq DOMAIN auditFindings /\ groups[k].members # {}
               /\ coverage = <<>> \/ coverage \in [DOMAIN auditFindings -> 0..2]

(***************************************************************************)
(* Properties                                                              *)
(***************************************************************************)
\* Two findings are in one group if and only if a chain of common keys joins
\* them, in whatever order they came.
Linked(i, j) ==
  LET Next(seen) == seen \cup {k \in DOMAIN auditFindings :
                               \E m \in seen : HardKeys(auditFindings[m]) \cap HardKeys(auditFindings[k]) # {}}
  IN j \in Next(Next({i}))
GroupsAreChains ==
  \A i, j \in DOMAIN auditFindings : (\E k \in DOMAIN groups : {i, j} \subseteq groups[k].members) <=> Linked(i, j)

\* Different keys never get one id, however alike their digests begin.
IdsTellKeysApart == \A k, m \in DOMAIN groups : groups[k].key # groups[m].key => groups[k].stableId # groups[m].stableId

\* A group of findings of assistants is found again under its key when lines
\* and words have changed.
FoundAgain ==
  later # <<>> => \A k \in DOMAIN groups : groups[k].key[1] = "ai" => \E m \in DOMAIN later : later[m].key = groups[k].key

\* What a decision says of its end, and where it says it.
EndedAt(lines) == {n \in 1..Len(lines) : /\ lines[n].kind = "field" /\ lines[n].key = "expires"
                                         /\ lines[n].value <= Today}
BehindMatch(lines, n) == \E m \in 1..(n - 1) : lines[m].kind = "opens" /\ lines[m].key = "match"

\* "expired decisions are visibly reported but not applied"
\* (docs/review-runs.md:1021): a decision whose text says it ended covers
\* nothing, unless its end stands behind its match, where the parser takes it
\* for a criterion.  A group is covered only if every finding of it is, by one
\* decision; a finding is covered by the first one that fits it.
CoverageHonest ==
  coverage # <<>> =>
    LET decisions == LoadDecisions(mergedRun.written) IN
    /\ \A i \in DOMAIN auditFindings : LET d == coverage[i] IN
         d # 0 => \A n \in EndedAt(mergedRun.written[d]) : BehindMatch(mergedRun.written[d], n)
    /\ \A k \in DOMAIN groups : LET c == CoverageByGroup(groups[k], coverage) IN
         c.full # 0 => \A i \in groups[k].members : coverage[i] = c.full
    /\ \A k \in DOMAIN groups, d \in DOMAIN decisions :
         (d = 1 /\ ~Expired(decisions[d], Today) /\ decisions[d].match = <<[Blank EXCEPT !.stableId = groups[k].stableId]>>) =>
           CoverageByGroup(groups[k], coverage).full = d

\* "`error` and `note` apply unchanged, while `warning` and `none` continue
\* through CVSS, tool metadata, and scripts/severity.tsv"
\* (docs/review-runs.md:305): in each source the result goes before its rule, and
\* of the catalogue the line that names the rule best decides, in whatever order
\* the lines stand.
RatedByBestSource ==
  rating # <<>> =>
    LET r == rating
        weighed == {k \in 1..2 : r.says[k].score >= 0 \/ r.says[k].vector # ""}
        worded == {<<k, n>> \in (1..2) \X (1..2) : NormalizeToolSeverity(r.says[k].words[n]) # ""}
        fit == {l \in r.lines : l.tool = "lint" /\ IsPrefix(l.rulePrefix, r.rule)}
        Weight(o) == IF o.score >= 0 THEN SeverityForCVSS(o.score) ELSE VectorSeverity(o.vector)
        Earlier(w, v) == w[1] < v[1] \/ (w[1] = v[1] /\ w[2] <= v[2])
    IN CASE Strong(r.level) -> r.severity = r.level
         [] ~Strong(r.level) /\ weighed # {} -> r.severity = Weight(r.says[Min(weighed)])
         [] ~Strong(r.level) /\ weighed = {} /\ worded # {} ->
              \E w \in worded : /\ \A v \in worded : Earlier(w, v)
                               /\ r.severity = NormalizeToolSeverity(r.says[w[1]].words[w[2]])
         [] ~Strong(r.level) /\ weighed = {} /\ worded = {} /\ fit # {} ->
              \E l \in fit : r.severity = l.severity /\ \A m \in fit : Len(m.rulePrefix) <= Len(l.rulePrefix)
         [] OTHER -> r.severity = (IF r.level = "" THEN "unmapped" ELSE r.level)

\* merge/dedupe.go:21-319, stable.go:18-309, known_decisions.go:12-102, severity.go:42-153.
MergeHonest == GroupsAreChains /\ IdsTellKeysApart /\ FoundAgain /\ CoverageHonest /\ RatedByBestSource

\* The same without the exception for an end behind the match.  The code does not keep
\* this, and no run checks it.
EndedCoversNothing ==
  coverage # <<>> => \A i \in DOMAIN auditFindings :
    coverage[i] # 0 => EndedAt(mergedRun.written[coverage[i]]) = {}
================================================================================
