----------------------------- MODULE ReviewCatalogue -----------------------------
(***************************************************************************)
(* What the catalogues of a review say: the header of an audit recipe       *)
(* (mcpserver/review.go), its contract (review/audit.go), the check of the   *)
(* findings reported under it (review/evidence.go), and the jobs planned     *)
(* for a scanner over the modules of a project (review/scanners.go,          *)
(* modules.go, execute.go).  Functions of their input: each step takes one   *)
(* input and keeps what was computed from it.                               *)
(***************************************************************************)
EXTENDS Naturals, Sequences, FiniteSets
LOCAL INSTANCE SequencesExt

VARIABLES
  recipeLines,   \* the contract an author has in mind, and how it is laid out
  metadata,  \* what is read of the recipe's header
  reported,  \* the pattern of its scope and the findings an assistant reports
  checked,   \* the answer of the check
  scanner,   \* a scanner of the catalogue and the modules below the target
  jobPlan       \* the jobs planned for it

catalogueVars == <<recipeLines, metadata, reported, checked, scanner, jobPlan>>

(***************************************************************************)
(* The header of a recipe, line by line                                    *)
(***************************************************************************)
\* A line is a key with a value, an entry of a list, or a comment.
HeaderLine(indent, kind, key, values) == [indent |-> indent, kind |-> kind, key |-> key, values |-> values]
Field(indent, key, value) == HeaderLine(indent, "field", key, <<value>>)
Opening(indent, key) == HeaderLine(indent, "field", key, <<>>)
Listed(indent, value) == HeaderLine(indent, "item", "", <<value>>)
Aside(indent) == HeaderLine(indent, "comment", "", <<>>)

AppendUnique(list, values) == FoldLeft(LAMBDA l, v : IF \E i \in 1..Len(l) : l[i] = v THEN l ELSE Append(l, v), list, values)

Unread == [title |-> "", enabled |-> FALSE, reviewEnabled |-> TRUE, mode |-> "", required |-> TRUE, requiredSet |-> FALSE,
           result |-> "", ruleIds |-> <<>>, tools |-> <<>>, paths |-> <<>>]
Start == [audit |-> FALSE, review |-> FALSE, scope |-> FALSE, list |-> "", block |-> 0, scopeAt |-> 0,
          listAt |-> 0, data |-> Unread]

\* Defect: a line in the column of the block still belongs to it.
LeftBlockLate(s, indent) ==
  LET endScope == s.scope /\ indent <= s.scopeAt
      endBlock == (s.audit \/ s.review) /\ indent < s.block
  IN [s EXCEPT !.list = IF (@ # "" /\ indent <= s.listAt) \/ endScope \/ endBlock THEN "" ELSE @,
               !.scope = @ /\ ~endScope /\ ~endBlock, !.audit = @ /\ ~endBlock, !.review = @ /\ ~endBlock]

\* A line further to the left ends the list, the scope and the block it is not in.
Left(s, indent) ==
  LET endScope == s.scope /\ indent <= s.scopeAt
      endBlock == (s.audit \/ s.review) /\ indent <= s.block
  IN [s EXCEPT !.list = IF (@ # "" /\ indent <= s.listAt) \/ endScope \/ endBlock THEN "" ELSE @,
               !.scope = @ /\ ~endScope /\ ~endBlock, !.audit = @ /\ ~endBlock, !.review = @ /\ ~endBlock]

Collect(data, list, values) ==
  CASE list = "tools"   -> [data EXCEPT !.tools = AppendUnique(@, values)]
    [] list = "paths"   -> [data EXCEPT !.paths = AppendUnique(@, values)]
    [] list = "ruleIds" -> [data EXCEPT !.ruleIds = AppendUnique(@, values)]

AuditField(data, key, value) ==
  CASE key = "enabled"        -> [data EXCEPT !.enabled = value # "false"]
    [] key = "title"          -> [data EXCEPT !.title = value]
    [] key = "mode"           -> [data EXCEPT !.mode = value]
    [] key = "resultRequired" -> [data EXCEPT !.required = value # "false", !.requiredSet = TRUE]
    [] key = "defaultResult"  -> [data EXCEPT !.result = value]
    [] OTHER -> data

ReadField(s, l) ==
  LET value == IF l.values = <<>> THEN "" ELSE l.values[1]
      inside == (s.audit \/ s.review) /\ l.indent > s.block
      lists == (s.audit /\ s.scope /\ l.indent > s.scopeAt /\ l.key \in {"tools", "paths"}) \/ (s.audit /\ l.key = "ruleIds")
  IN CASE l.values = <<>> /\ l.key \in {"audit", "review"} ->
            [s EXCEPT !.audit = l.key = "audit", !.review = l.key = "review", !.block = l.indent]
       [] l.values = <<>> /\ s.audit /\ l.indent > s.block /\ l.key = "scope" -> [s EXCEPT !.scope = TRUE, !.scopeAt = l.indent]
       [] ~s.audit /\ ~s.review /\ l.indent = 0 /\ l.key = "title" /\ s.data.title = "" -> [s EXCEPT !.data.title = value]
       [] inside /\ s.review /\ l.key = "enabled" -> [s EXCEPT !.data.reviewEnabled = value # "false"]
       [] inside /\ lists /\ l.values = <<>> -> [s EXCEPT !.list = l.key, !.listAt = l.indent]
       [] inside /\ lists /\ l.values # <<>> -> [s EXCEPT !.data = Collect(@, l.key, l.values)]
       [] inside /\ s.audit /\ ~lists /\ l.key \notin {"audit", "review", "scope"} ->
             [s EXCEPT !.data = AuditField(@, l.key, value)]
       [] OTHER -> s

ReadLine(s, l) ==
  LET t == Left(s, l.indent) IN
  CASE l.kind = "comment" -> s
    [] l.kind = "item" -> IF t.list = "" THEN t ELSE [t EXCEPT !.data = Collect(@, t.list, l.values)]
    [] l.kind = "field" -> ReadField(t, l)

ParseFrontmatter(lines) == FoldLeft(ReadLine, Start, lines).data

NormalizeMode(mode) == IF mode = "" THEN "perspective" ELSE mode
ReadRecipeMetadata(lines) ==
  LET d == ParseFrontmatter(lines) IN
  [d EXCEPT !.mode = NormalizeMode(@), !.required = @ /\ NormalizeMode(d.mode) # "evidence",
             !.title = IF @ = "" THEN "heading" ELSE @]

(***************************************************************************)
(* What authors write: a contract and a layout                             *)
(***************************************************************************)
Contract == [mode : {"", "perspective", "evidence", "unknown"}, ruleIds : {<<>>, <<"r1", "r2">>}, tools : {<<>>, <<"lint">>},
             paths : {<<>>, <<"src", "docs">>}, required : {"unset", "true", "false"}, result : {"", "result.md"},
             title : {"", "top", "both"}]
Layout == [step : {2, 4}, block : BOOLEAN, reviewFirst : BOOLEAN, scopeFirst : BOOLEAN]

ListLines(indent, step, key, values, block) ==
  CASE values = <<>> -> <<>>
    [] values # <<>> /\ ~block -> <<HeaderLine(indent, "field", key, values)>>
    [] OTHER -> <<Opening(indent, key), Aside(0)>> \o [i \in 1..Len(values) |-> Listed(indent + step, values[i])]

HeaderLines(c, o) ==
  LET One(key, value, unset) == IF value = unset THEN <<>> ELSE <<Field(o.step, key, value)>>
      scope == IF c.tools = <<>> /\ c.paths = <<>> THEN <<>>
               ELSE <<Opening(o.step, "scope")>> \o ListLines(2 * o.step, o.step, "tools", c.tools, o.block)
                    \o ListLines(2 * o.step, o.step, "paths", c.paths, o.block)
      rules == ListLines(o.step, o.step, "ruleIds", c.ruleIds, o.block)
      audit == <<Opening(0, "audit"), Field(o.step, "enabled", "true")>> \o One("mode", c.mode, "")
               \o (IF o.scopeFirst THEN scope \o rules ELSE rules \o scope)
               \o One("resultRequired", c.required, "unset") \o One("defaultResult", c.result, "")
               \o (IF c.title = "both" THEN <<Field(o.step, "title", "audit title")>> ELSE <<>>)
      review == <<Opening(0, "review"), Field(o.step, "enabled", "false"), Field(o.step, "title", "elsewhere")>>
      top == IF c.title = "" THEN <<>> ELSE <<Field(0, "title", "top title")>>
      tags == <<Opening(0, "tags"), Listed(o.step, "src"), Aside(o.step)>>
  IN IF o.reviewFirst THEN review \o tags \o audit \o top ELSE top \o audit \o tags \o review

AsWritten(c) ==
  [title |-> CASE c.title = "" -> "heading" [] c.title = "top" -> "top title" [] c.title = "both" -> "audit title",
   enabled |-> TRUE, reviewEnabled |-> FALSE, mode |-> IF c.mode = "" THEN "perspective" ELSE c.mode,
   required |-> c.required # "false" /\ c.mode # "evidence", requiredSet |-> c.required # "unset", result |-> c.result,
   ruleIds |-> c.ruleIds, tools |-> c.tools, paths |-> c.paths]

(***************************************************************************)
(* Findings under a contract                                               *)
(***************************************************************************)
Excluded == {"vendor", "node_modules", "testdata", ".git", "k-playbook", "k-playbook-local"}
PathExcludedFromScope(path) == \E i \in 1..(Len(path) - 1) : path[i] \in Excluded

SegmentMatches(pattern, segment) == pattern = "*" \/ pattern = segment

RECURSIVE MatchScopeSegments(_, _)
MatchScopeSegments(pattern, value) ==
  CASE pattern = <<>> -> TRUE
    [] pattern # <<>> /\ pattern[1] = "**" ->
         MatchScopeSegments(Tail(pattern), value) \/ (value # <<>> /\ MatchScopeSegments(pattern, Tail(value)))
    [] OTHER -> value # <<>> /\ SegmentMatches(pattern[1], value[1]) /\ MatchScopeSegments(Tail(pattern), Tail(value))

PathInScope(path, patterns) == path # <<>> /\ \E p \in patterns : MatchScopeSegments(p, path)

\* A foreign tool name or rule fails the artefact; a finding outside falls out.
CheckEvidenceSARIF(findings, ruleIds, patterns) ==
  LET InScope(f) == f.path # <<>> /\ ~PathExcludedFromScope(f.path) /\ PathInScope(f.path, patterns) IN
  IF \E i \in 1..Len(findings) : findings[i].tool # "entry" \/ findings[i].rule \notin ruleIds
  THEN [failed |-> TRUE, kept |-> findings]
  ELSE [failed |-> FALSE, kept |-> SelectSeq(findings, InScope)]

Segments(names, longest) == UNION {[1..n -> names] : n \in 0..longest}
FindingPath == Segments({"a", "b", "vendor"}, 3)
ScopePattern == Segments({"a", "b", "**", "*"}, 2) \ {<<>>}

\* Reference: some beginning of the path is the pattern with each ** replaced
\* by a sequence of segments.
Covers(pattern, path) ==
  \E n \in [1..Len(pattern) -> 0..Len(path)] :
    LET Before(i) == FoldLeft(LAMBDA a, k : a + n[k], 0, [k \in 1..(i - 1) |-> k]) IN
    /\ Before(Len(pattern) + 1) <= Len(path)
    /\ \A i \in 1..Len(pattern) : pattern[i] = "**" \/ (n[i] = 1 /\ pattern[i] \in {"*", path[Before(i) + 1]})

(***************************************************************************)
(* Scanners and their jobs                                                 *)
(***************************************************************************)
\* Names are written as the parts between hyphens; what becomes a hyphen in a
\* file name separates parts as well: a/b and a-b have the same parts.
Modules == {[at |-> ".", parts |-> <<"root">>], [at |-> "a", parts |-> <<"a">>], [at |-> "a/b", parts |-> <<"a", "b">>],
            [at |-> "a-b", parts |-> <<"a", "b">>], [at |-> "a_b", parts |-> <<"a_b">>],
            [at |-> "a-b-2", parts |-> <<"a", "b", "2">>],
            [at |-> "vendor/x", parts |-> <<"vendor", "x">>]}
SkippedModule(module) == module.at = "vendor/x"
FindModules(tree) == {m \in tree : ~SkippedModule(m)}

Scanner == [job : {<<"lint">>, <<"lint", "a">>, <<"other">>}, tool : {<<"lint">>},
            workdir : {"target", "module"}, out : {"file", "stdout"},
            names : SUBSET {"{out}", "{module}"}, timeout : {0, 60}]
BeginsWith(name, start) == Len(start) <= Len(name) /\ SubSeq(name, 1, Len(start)) = start
CheckScanner(s) == /\ BeginsWith(s.job, s.tool) /\ s.timeout > 0
                   /\ (s.out = "file") = ("{out}" \in s.names)
                   /\ "{module}" \in s.names => s.workdir = "module"

JobNameForModule(taken, job, module) ==
  LET name == job \o module.parts
      Round(r) == IF r = 1 THEN name ELSE name \o <<ToString(r)>>
  IN Round(CHOOSE r \in 1..(Cardinality(taken) + 1) : Round(r) \notin taken /\ \A q \in 1..(r - 1) : Round(q) \in taken)

\* The jobs of the scanners of one tool, their names kept apart; other is the
\* name of the tool's second job.
PlanJobs(s, other, modules) ==
  LET Add(acc, m) == LET name == JobNameForModule(acc.taken, s.job, m)
                     IN [taken |-> acc.taken \cup {name}, jobs |-> Append(acc.jobs, [name |-> name, module |-> m.at])]
      order == SetToSeq(modules)
  IN CASE s.workdir # "module" -> <<[name |-> s.job, module |-> "target"]>>
       [] s.workdir = "module" /\ modules = {} -> <<>>
       [] s.workdir = "module" /\ Cardinality(modules) = 1 -> <<[name |-> s.job, module |-> order[1].at]>>
       [] OTHER -> FoldLeft(Add, [taken |-> {s.job, other}, jobs |-> <<>>], order).jobs

(***************************************************************************)
(* Steps                                                                   *)
(***************************************************************************)
CatalogueInit == recipeLines = <<>> /\ metadata = Unread /\ reported = <<>> /\ checked = <<>> /\ scanner = <<>>
                 /\ jobPlan = <<>>

CatalogueTypeOK == /\ metadata.enabled \in BOOLEAN /\ metadata.mode \in {"", "perspective", "evidence", "unknown"}
                   /\ checked # <<>> => checked.failed \in BOOLEAN /\ Len(checked.kept) <= 2
                   /\ Len(jobPlan) <= Cardinality(Modules)

Fresh == recipeLines = <<>> /\ reported = <<>> /\ scanner = <<>>

ReadRecipe ==
  /\ Fresh /\ \E c \in Contract, o \in Layout :
       recipeLines' = <<c, o>> /\ metadata' = ReadRecipeMetadata(HeaderLines(c, o))
  /\ UNCHANGED <<reported, checked, scanner, jobPlan>>

ReportFindings ==
  /\ Fresh
  /\ \E pattern \in ScopePattern, path \in FindingPath, rule \in {"r1", "r3"}, tool \in {"entry", "stranger"} :
       LET findings == <<[tool |-> tool, rule |-> rule, path |-> path], [tool |-> "entry", rule |-> "r1", path |-> <<"a">>]>>
       IN /\ rule = "r1" \/ tool = "entry"
          /\ reported' = [pattern |-> pattern, findings |-> findings]
          /\ checked' = CheckEvidenceSARIF(findings, {"r1", "r2"}, {pattern})
  /\ UNCHANGED <<recipeLines, metadata, scanner, jobPlan>>

PlanScanner ==
  /\ Fresh
  /\ \E s \in Scanner, tree \in {t \in SUBSET Modules : Cardinality(t) <= 4} :
       /\ CheckScanner(s) /\ scanner' = [scanner |-> s, tree |-> tree]
       /\ jobPlan' = PlanJobs(s, <<"lint", "a">>, FindModules(tree))
  /\ UNCHANGED <<recipeLines, metadata, reported, checked>>

CatalogueNext == ReadRecipe \/ ReportFindings \/ PlanScanner
CatalogueSpec == CatalogueInit /\ [][CatalogueNext]_catalogueVars

(***************************************************************************)
(* Properties                                                              *)
(***************************************************************************)
\* The header is read as its author meant it, in whatever order and layout.
ReadAsWritten == recipeLines # <<>> => metadata = AsWritten(recipeLines[1])

\* Of a SARIF that passes exactly the findings inside of the scope and outside
\* of foreign directories are kept; a foreign rule or tool fails it whole.
KeptInScope ==
  reported # <<>> =>
    LET Wanted(f) == f.path # <<>> /\ Covers(reported.pattern, f.path) /\ \A i \in 1..(Len(f.path) - 1) : f.path[i] # "vendor"
        foreign == \E i \in 1..2 : reported.findings[i].rule = "r3" \/ reported.findings[i].tool = "stranger"
    IN /\ checked.failed = foreign
       /\ ~foreign => checked.kept = SelectSeq(reported.findings, Wanted)

\* Every module gets a job of its own, and no two jobs, nor a job and the
\* scanner's second one, write the same file.
JobsApart ==
  scanner # <<>> /\ scanner.scanner.workdir = "module" =>
    /\ {jobPlan[i].module : i \in 1..Len(jobPlan)} = {m.at : m \in {m \in scanner.tree : m.at # "vendor/x"}}
    /\ \A i, j \in 1..Len(jobPlan) : i # j => jobPlan[i].name # jobPlan[j].name
    /\ Len(jobPlan) > 1 => \A i \in 1..Len(jobPlan) : jobPlan[i].name # <<"lint", "a">>

\* mcpserver/review.go:1514-1693, review/evidence.go:86-376, modules.go:233.
CatalogueHonored == ReadAsWritten /\ KeptInScope /\ JobsApart
================================================================================
