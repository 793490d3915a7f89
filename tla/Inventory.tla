------------------------------ MODULE Inventory ------------------------------
(***************************************************************************)
(* The version inventory (internal/inventory, internal/versionsources): a    *)
(* run reads the configuration, plans its sources, reads one after the other *)
(* while people edit them, groups what the rows say and writes the document  *)
(* of the project through the node, whose replica may lag behind the hub.     *)
(***************************************************************************)
EXTENDS NpmRange, FiniteSets

CONSTANTS
  Survey,              \* runs, from a shell or from the page
  MaxInventoryChanges  \* bound: edits of sources, foreign writes and failures

ASSUME InventoryAssumption == MaxInventoryChanges \in Nat

VARIABLES
  sourceFile,       \* what lies at each path
  sourceConfig,     \* version-sources.yaml
  inventoryDoc,     \* the document at the hub
  replica,          \* the document as the node has it
  survey,           \* the runs
  inventoryChanges

inventoryVars == <<sourceFile, sourceConfig, inventoryDoc, replica, survey, inventoryChanges>>

(***************************************************************************)
(* The project.  lock, manifest and yarn lie in one directory, other is the  *)
(* package.json of another one, clone lies in the installation, loose has a  *)
(* name no kind is known by, outside lies beyond every root.                 *)
(***************************************************************************)
Order == <<"chart", "compose", "lock", "manifest", "yarn", "clone", "loose", "other", "outside">>
Path == {Order[i] : i \in DOMAIN Order}
Row(key, name, version) == [key |-> key, name |-> name, version |-> version]
At(state, rows) == [state |-> state, rows |-> rows]
Nothing == At("none", {})
Folder == At("folder", {})    \* or a file that is too large
Away == At("away", {})        \* a link to a place outside the roots
Unparsable == At("broken", {})
Holding(rows) == At("file", rows)
Package(key, version) == Row(key, "node/react", version)
Image(key, version) == Row(key, "container/redis", version)

Declared == [v \in {"^1.0", "1.0.0", "alias"} |->
               CASE v = "^1.0" -> {Caret(Partial(1, 0, X, <<>>))}
                 [] v = "1.0.0" -> {XRange("=", Partial(1, 0, 0, <<>>))}
                 [] OTHER -> {}]
Locked == [v \in {"1.0.0", "2.0.0", "link"} |->
             CASE v = "1.0.0" -> Version(1, 0, 0, <<>>) [] v = "2.0.0" -> Version(2, 0, 0, <<>>) [] OTHER -> NotFull]

States(p) ==
  CASE p = "manifest" -> {Nothing, Folder, Unparsable, Holding({Package("dev", "^1.0")}), Holding({Package("dev", "alias")}),
                          Holding({Package("dev", "^1.0"), Package("peer", "1.0.0")})}
    [] p = "lock" -> {Nothing, Unparsable, Holding({Package("lock", "1.0.0")}), Holding({Package("lock", "2.0.0")}),
                      Holding({Package("lock", "link")})}
    [] p = "yarn" -> {Nothing, Holding({Package("head", "1.0.0")})}
    [] p = "other" -> {Nothing, Holding({Package("dev", "^1.0")})}
    [] p = "chart" -> {Nothing, Away, Unparsable, Holding({Image("image", "7")}),
                          Holding({Image("image", "7"), Image("tag", "6")})}
    [] p = "compose" -> {Nothing, Holding({Image("image", "7")}), Holding({Image("image", "7"), Image("second", "6")})}
    [] OTHER -> {Nothing, Holding({Image("image", "7")})}
Bare == [p \in Path |-> Nothing]
Files == {[Bare EXCEPT !["manifest"] = m, !["lock"] = l] : m \in States("manifest"), l \in States("lock")}
           \cup {[Bare EXCEPT !["manifest"] = m, !["yarn"] = y, !["other"] = o] :
                   m \in States("manifest"), y \in States("yarn"), o \in States("other")}
           \cup {[Bare EXCEPT !["manifest"] = Holding({Package("dev", "^1.0")}), !["lock"] = Holding({Package("lock", "1.0.0")}),
                              !["other"] = o] : o \in States("other")}
Sites == {[Bare EXCEPT !["chart"] = c, !["compose"] = d, !["clone"] = Holding({Image("image", "7")}),
                       !["loose"] = Holding({Image("image", "7")}), !["outside"] = Holding({Image("image", "7")})] :
            c \in States("chart"), d \in States("compose")}

(***************************************************************************)
(* The configuration: sources, patterns to exclude, values in Helm files     *)
(***************************************************************************)
Source(path, kind, env, optional) == [path |-> path, kind |-> kind, env |-> env, optional |-> optional]
Config(state, sources, exclude, rules, schema) ==
  [state |-> state, sources |-> sources, exclude |-> exclude, rules |-> rules, schema |-> schema]
NoConfig == Config("none", {}, {}, {}, 0)
Configs == {NoConfig, Config("broken", {}, {}, {}, 0),
            Config("file", {}, {"manifest"}, {}, 1),
            Config("file", {Source("loose", "auto", "dev", FALSE), Source("outside", "compose", "dev", FALSE)}, {}, {}, 1),
            Config("file", {Source("chart", "compose", "app", FALSE), Source("loose", "tower", "dev", FALSE)}, {}, {}, 1),
            Config("file", {Source("chart", "helm", "dev", TRUE), Source("clone", "auto", "dev", FALSE)}, {"compose"}, {}, 1),
            Config("file", {}, {"chart"}, {"chart"}, 2),
            Config("file", {}, {}, {"chart", "compose", "loose", "outside"}, 2),
            Config("file", {}, {}, {"chart"}, 1)}

DetectKind == [p \in Path |-> CASE p \in {"lock", "manifest", "yarn", "other"} -> "node" [] p = "chart" -> "helm"
                                [] p = "compose" -> "compose" [] p = "clone" -> "go" [] OTHER -> "none"]
DefaultEnv == [node |-> "lokal", helm |-> "deployment", compose |-> "dev", go |-> "lokal"]
SourceKinds == {"auto", "helm", "compose", "node", "go"}
Envs == {"lokal", "dev", "devcontainer", "ci", "deployment"}

\* readSource: an entry that stays without effect and is rejected.
Invalid(s) == s.kind \notin SourceKinds \/ s.env \notin Envs
ValueRules(config) == IF config.schema >= 2 THEN config.rules ELSE {}

\* Check, walking the links as they lie now.
InRoots(p) == p # "outside" /\ sourceFile[p].state # "away"

(***************************************************************************)
(* Planning                                                                *)
(***************************************************************************)
Remark(p, why) == [file |-> p, why |-> why]
Candidate(p, kind, env, optional, configured) ==
  [path |-> p, kind |-> kind, env |-> env, optional |-> optional, configured |-> configured]

\* The walk finds files by their name; the installation and the patterns are passed over.
Walked == {p \in Path \ {"outside"} : sourceFile[p].state \in {"file", "broken", "away"} /\ DetectKind[p] # "none"}
PassedOver(p, config) == p = "clone" \/ p \in config.exclude
Resolved(s) == IF s.kind = "auto" THEN DetectKind[s.path] ELSE s.kind

Plan(config) ==
  LET named == {s \in config.sources : ~Invalid(s)}
      within == {s \in named : InRoots(s.path)}
      usable == {s \in within : Resolved(s) # "none"}
      found == {p \in Walked : ~PassedOver(p, config)}
      taken == {s.path : s \in usable}
  IN [candidates |-> {Candidate(s.path, Resolved(s), s.env, s.optional, TRUE) : s \in usable}
                       \cup {Candidate(p, DetectKind[p], DefaultEnv[DetectKind[p]], FALSE, FALSE) :
                               p \in {p \in found : InRoots(p)} \ taken},
      rejections |-> {Remark(s.path, "entry") : s \in {s \in config.sources : Invalid(s)}}
                       \cup {Remark(p, "outside") : p \in {s.path : s \in named \ within} \cup {p \in found : ~InRoots(p)}}
                       \cup {Remark(s.path, "kind") : s \in within \ usable}
                       \cup IF config.schema = 1 /\ config.rules # {} THEN {Remark("rules", "schema")} ELSE {},
      notes |-> {Remark(p, "rule") : p \in {p \in ValueRules(config) : ~InRoots(p)}},
      exclusions |-> {p \in Walked : PassedOver(p, config)}]

Empty == [entries |-> {}, sources |-> {}, rejections |-> {}, notes |-> {}, exclusions |-> {}, deviations |-> {}, configured |-> 0]

(***************************************************************************)
(* Reading                                                                 *)
(***************************************************************************)
InventoryRow(c, row) == [file |-> c.path, key |-> row.key, name |-> row.name, version |-> row.version, context |-> c.env,
                  manifest |-> IF c.path = "lock" THEN "manifest" ELSE "none", violates |-> {}]

\* The names a lock file may list: those its manifest declares, read again now; or why not.
LockDirect(config) ==
  LET m == sourceFile["manifest"]
  IN IF "manifest" \in config.exclude \/ m.state # "file" THEN [ok |-> FALSE, names |-> {}]
     ELSE [ok |-> TRUE, names |-> {r.name : r \in m.rows}]

\* parseFile; a value of a Helm file is read only where a rule names it.
Parsed(c, rules, direct) ==
  {r \in sourceFile[c.path].rows :
     /\ r.key = "tag" => c.kind = "helm" /\ c.path \in rules
     /\ r.key = "head" => r.name \in direct.names}

\* readCandidate
ReadCandidate(r, c, config) ==
  LET f == sourceFile[c.path]
      direct == LockDirect(config)
      unresolved == c.path = "yarn" /\ ~direct.ok
      unparsed == f.state = "broken"
      rows == IF unparsed THEN {} ELSE Parsed(c, ValueRules(config), direct)
  IN IF ~InRoots(c.path) \/ f.state = "folder" THEN [r EXCEPT !.rejections = @ \cup {Remark(c.path, "refused")}]
     ELSE IF f.state = "none"
     THEN IF c.optional THEN r ELSE [r EXCEPT !.notes = @ \cup {Remark(c.path, "missing")}]
     ELSE [r EXCEPT !.entries = @ \cup {InventoryRow(c, row) : row \in rows},
                    !.notes = @ \cup (IF unparsed THEN {Remark(c.path, "broken")} ELSE {})
                                \cup (IF unresolved THEN {Remark(c.path, "manifest")} ELSE {})
                                \cup (IF c.kind = "helm" /\ c.path \in ValueRules(config) /\ ~unparsed
                                         /\ ~\E row \in rows : row.key = "tag" THEN {Remark(c.path, "key")} ELSE {}),
                    !.sources = @ \cup {[file |-> c.path, kind |-> c.kind, configured |-> c.configured,
                                         count |-> Cardinality(rows), unevaluable |-> unparsed \/ unresolved]}]

\* finishHelmValues: every rule that brought no row is told, with the reason found
\* while reading or looked for now.
Applied(r, p) == \E s \in r.sources : s.file = p /\ s.kind = "helm" /\ ~s.unevaluable
FinishHelmValues(r, config) ==
  [r EXCEPT !.notes = @ \cup {Remark(p, "rule") : p \in {p \in ValueRules(config) : ~Applied(r, p)}}]

(***************************************************************************)
(* Deviations                                                              *)
(***************************************************************************)
\* A defect: the ranges of every manifest of the context are taken together.
PartnersByContext(lock, E) ==
  {e \in E : e.manifest = "none" /\ e.context = lock.context /\ e.name = lock.name}

\* The rows a locked one is checked against: all of the package in its own manifest.
Partners(lock, E) == {e \in E : /\ e.manifest = "none" /\ e.file = lock.manifest /\ e.context = lock.context
                                /\ e.name = lock.name}
Violated(lock, E) == {e \in Partners(lock, E) : /\ Checkable(Declared[e.version], Locked[lock.version])
                                                /\ ~Satisfies(Declared[e.version], Locked[lock.version])}

\* A pair counts as one statement when every range can be checked and is met.
Pairs(lock, E) ==
  /\ lock.manifest # "none" /\ Partners(lock, E) # {}
  /\ \A e \in Partners(lock, E) : /\ Checkable(Declared[e.version], Locked[lock.version])
                                  /\ Satisfies(Declared[e.version], Locked[lock.version])

\* statements: of a row, or of a pair: how often it declares what, and the version.
Statement(context, declared, version) == [context |-> context, declared |-> declared, version |-> version]
Statements(E) ==
  LET locks == {e \in E : Pairs(e, E)}
      paired == locks \cup UNION {Partners(l, E) : l \in locks}
      counts(l) == [v \in {e.version : e \in Partners(l, E)} |-> Cardinality({e \in Partners(l, E) : e.version = v})]
  IN {Statement(l.context, counts(l), l.version) : l \in locks}
       \cup {Statement(e.context, <<>>, e.version) : e \in E \ paired}

\* buildDeviations: the groups that say more than one thing, with all their rows.
BuildDeviations(r) ==
  LET noted == {IF e.manifest # "none" THEN [e EXCEPT !.violates = {<<d.key, d.version>> : d \in Violated(e, r.entries)}]
                ELSE e : e \in r.entries}
      group(n) == {e \in noted : e.name = n}
      said(n) == {[declared |-> s.declared, version |-> s.version] : s \in Statements({e \in r.entries : e.name = n})}
      conflicting(n) == \E s, t \in Statements({e \in r.entries : e.name = n}) :
                          s.context = t.context /\ s # t
  IN [r EXCEPT !.entries = noted,
               !.deviations = {[group |-> n, entries |-> group(n),
                                  art |-> IF conflicting(n) THEN "conflicting" ELSE "environmental"] :
                                 n \in {n \in {e.name : e \in r.entries} : Cardinality(said(n)) > 1}}]

(***************************************************************************)
(* Runs                                                                    *)
(***************************************************************************)
\* A document; over is the revision its writer had read (its own where no run wrote it),
\* was what it replaced.
Doc(kind, content, sound, revision) ==
  [kind |-> kind, content |-> content, sound |-> sound, revision |-> revision, over |-> revision, was |-> Empty]
OtherText(n) == [Empty EXCEPT !.configured = n]   \* a text no run of this project writes
NoDoc == Doc("none", Empty, TRUE, 0)
NoSurvey == [pc |-> "idle", config |-> NoConfig, planned |-> {}, left |-> {}, result |-> Empty, base |-> NoDoc,
             written |-> FALSE, revision |-> 0]

InventoryBegin(files, config, doc) ==
  /\ sourceFile = files
  /\ sourceConfig = config
  /\ inventoryDoc = doc
  /\ replica = doc
  /\ survey = [s \in Survey |-> NoSurvey]
  /\ inventoryChanges = 0

InventoryInit ==
  \/ \E files \in Files : InventoryBegin(files, NoConfig, NoDoc)
  \/ \E files \in {f \in Files : f["lock"] = Nothing} : InventoryBegin(files, Config("file", {}, {"manifest"}, {}, 1), NoDoc)
  \/ \E files \in Sites, config \in Configs : InventoryBegin(files, config, NoDoc)
  \/ \E kind \in {"document", "directory"}, sound \in BOOLEAN :
       InventoryBegin([Bare EXCEPT !["compose"] = Holding({Image("image", "7")})], NoConfig, Doc(kind, OtherText(7), sound, 1))

\* One run collects at a time (a bound): runs that collect only read.
Collecting == \E s \in Survey : survey[s].pc = "reading"

\* Collect reads the configuration, which ends the run when it is broken, and plans.
BeginSurvey(s) ==
  /\ survey[s].pc = "idle" /\ ~Collecting
  /\ LET plan == Plan(sourceConfig) IN
     survey' = [survey EXCEPT ![s] =
       IF sourceConfig.state = "broken" THEN [NoSurvey EXCEPT !.pc = "failed"]
       ELSE [NoSurvey EXCEPT !.pc = "reading", !.config = sourceConfig, !.planned = plan.candidates, !.left = plan.candidates,
                         !.result = [Empty EXCEPT !.rejections = plan.rejections, !.notes = plan.notes,
                                                  !.exclusions = plan.exclusions,
                                                  !.configured = Cardinality(sourceConfig.sources)]]]
  /\ UNCHANGED <<sourceFile, sourceConfig, inventoryDoc, replica, inventoryChanges>>

\* The candidates are read in the order of their paths.
Position(p) == CHOOSE i \in DOMAIN Order : Order[i] = p
ReadNext(s) ==
  /\ survey[s].pc = "reading"
  /\ \E c \in survey[s].left :
       /\ \A d \in survey[s].left : Position(c.path) <= Position(d.path)
       /\ survey' = [survey EXCEPT ![s].left = @ \ {c},
                                   ![s].result = ReadCandidate(@, c, survey[s].config)]
  /\ UNCHANGED <<sourceFile, sourceConfig, inventoryDoc, replica, inventoryChanges>>

FinishCollect(s) ==
  /\ survey[s].pc = "reading" /\ survey[s].left = {}
  /\ survey' = [survey EXCEPT ![s].pc = "collected",
                              ![s].result = BuildDeviations(FinishHelmValues(@, survey[s].config))]
  /\ UNCHANGED <<sourceFile, sourceConfig, inventoryDoc, replica, inventoryChanges>>

\* Write reads the replica: a directory ends the run, an equal document is left alone;
\* a document whose head is not sound is always written again.
ReadDoc(s) ==
  /\ survey[s].pc = "collected"
  /\ survey' = [survey EXCEPT ![s].base = replica,
       ![s].revision = replica.revision,
       ![s].pc = IF replica.kind = "directory" THEN "failed"
                 ELSE IF replica.kind = "document" /\ replica.sound /\ replica.content = survey[s].result THEN "done"
                 ELSE "writing"]
  /\ UNCHANGED <<sourceFile, sourceConfig, inventoryDoc, replica, inventoryChanges>>

\* The hub creates where nothing lies, and writes on top of the revision named.
Accepts(base) == IF base.kind = "none" THEN inventoryDoc.kind = "none"
                 ELSE inventoryDoc.kind = "document" /\ inventoryDoc.revision = base.revision

Written(s) == [Doc("document", survey[s].result, TRUE, inventoryDoc.revision + 1) EXCEPT
                 !.over = survey[s].base.revision, !.was = inventoryDoc.content]
WriteDoc(s) ==
  /\ survey[s].pc = "writing"
  /\ IF Accepts(survey[s].base)
     THEN /\ inventoryDoc' = Written(s)
          /\ survey' = [survey EXCEPT ![s].pc = "done", ![s].written = TRUE, ![s].revision = inventoryDoc.revision + 1]
     ELSE /\ survey' = [survey EXCEPT ![s].pc = "failed"]
          /\ UNCHANGED inventoryDoc
  /\ UNCHANGED <<sourceFile, sourceConfig, replica, inventoryChanges>>

(***************************************************************************)
(* What happens beside the runs                                            *)
(***************************************************************************)
Counted == inventoryChanges < MaxInventoryChanges /\ inventoryChanges' = inventoryChanges + 1

Sync ==
  /\ replica # inventoryDoc
  /\ replica' = inventoryDoc
  /\ UNCHANGED <<sourceFile, sourceConfig, inventoryDoc, survey, inventoryChanges>>

\* A person edits a source; only one that some configuration or walk knows of.
EditSource(p) ==
  /\ Counted
  /\ \E f \in States(p) \ {sourceFile[p]} : sourceFile' = [sourceFile EXCEPT ![p] = f]
  /\ UNCHANGED <<sourceConfig, inventoryDoc, replica, survey>>

\* Somebody else writes the document, on top of what lies there.
ForeignWrite ==
  /\ Counted
  /\ inventoryDoc.kind # "directory"
  /\ inventoryDoc' = Doc("document", OtherText(8), TRUE, inventoryDoc.revision + 1)
  /\ UNCHANGED <<sourceFile, sourceConfig, replica, survey>>

\* There is no access to the collection, or the node or the hub does not answer; the
\* hub may have written all the same, which the run then does not know.
StoreFails(s) ==
  /\ Counted
  /\ survey[s].pc \in {"idle", "collected", "writing"}
  /\ survey' = [survey EXCEPT ![s].pc = "failed"]
  /\ \/ UNCHANGED inventoryDoc
     \/ survey[s].pc = "writing" /\ Accepts(survey[s].base) /\ inventoryDoc' = Written(s)
  /\ UNCHANGED <<sourceFile, sourceConfig, replica>>

SurveyStep(s) == BeginSurvey(s) \/ ReadNext(s) \/ FinishCollect(s) \/ ReadDoc(s) \/ WriteDoc(s)
InventoryNext ==
  \/ \E s \in Survey : SurveyStep(s)
  \/ \E s \in Survey : StoreFails(s)
  \/ \E p \in {"manifest", "lock", "chart", "compose"} : EditSource(p)
  \/ Sync \/ ForeignWrite

InventorySpec == InventoryInit /\ [][InventoryNext]_inventoryVars

(***************************************************************************)
(* Properties                                                              *)
(***************************************************************************)
InventoryTypeOK ==
  /\ \A p \in Path : sourceFile[p] \in States(p) \cup {Nothing}
  /\ sourceConfig \in Configs
  /\ \A d \in {inventoryDoc, replica} : d.kind \in {"none", "document", "directory"} /\ d.revision \in Nat
  /\ \A s \in Survey : survey[s].pc \in {"idle", "reading", "collected", "writing", "done", "failed"}
  /\ inventoryChanges \in 0..MaxInventoryChanges

Surveyed == {s \in Survey : survey[s].pc \in {"collected", "writing", "done"}}
Told(r, p) == \/ \E x \in r.sources : x.file = p /\ (x.unevaluable => \E n \in r.notes : n.file = p)
              \/ \E x \in r.rejections \cup r.notes : x.file = p

\* Every source the configuration names, and every rule, is read, rejected or told of,
\* however the files change during the run; only an optional one may be silent.
NamedTold ==
  \A s \in Surveyed :
    LET r == survey[s].result IN
    /\ \A x \in survey[s].config.sources : Told(r, x.path) \/ (x.optional /\ ~Invalid(x))
    /\ \A p \in survey[s].config.rules :
         \/ \E e \in r.entries : e.file = p /\ e.key = "tag"
         \/ \E n \in r.notes : n.file = p
         \/ \E n \in r.rejections : n.why = "schema"

\* So is everything that was planned, what the walk found included.
PlannedTold ==
  \A s \in Surveyed : \A c \in survey[s].planned : c.optional \/ Told(survey[s].result, c.path)

\* A locked version outside a range of its own directory is never taken for settled:
\* its row says so, and the group is a contradiction.  Rows that differ and are no such
\* pair are a deviation; a pair that fits, alone, is none.
DeviationsTrue ==
  \A s \in Surveyed :
    LET E == survey[s].result.entries
        D == survey[s].result.deviations
        Pair(l, d) == l.file = "lock" /\ d.file = "manifest" /\ l.name = d.name /\ l.context = d.context
        Fits(l, d) == Satisfies(Declared[d.version], Locked[l.version])
    IN /\ \A l, d \in E : Pair(l, d) /\ Checkable(Declared[d.version], Locked[l.version]) /\ ~Fits(l, d) =>
            /\ <<d.key, d.version>> \in l.violates
            /\ \E x \in D : x.art = "conflicting" /\ {l, d} \subseteq x.entries
       /\ \A d, e \in E : d.name = e.name /\ d.version # e.version /\ ~Pair(d, e) /\ ~Pair(e, d)
                            /\ ~(d.file = "manifest" /\ e.file = "manifest") => \E x \in D : {d, e} \subseteq x.entries
       /\ \A x \in D : /\ x.entries = {e \in E : e.name = x.group}
                       /\ x.art = "conflicting" => \E d, e \in x.entries : d # e /\ d.context = e.context
                       /\ ~\E l \in x.entries : \A d \in x.entries \ {l} :
                               Pair(l, d) /\ Checkable(Declared[d.version], Locked[l.version]) /\ Fits(l, d)

\* A revision written by a run replaces the one this run had read, and says something
\* else; replicas may lag and others may write.
DocKept ==
  inventoryDoc.over # inventoryDoc.revision =>
    /\ inventoryDoc.over = inventoryDoc.revision - 1
    /\ inventoryDoc.revision > 1 => inventoryDoc.was # inventoryDoc.content

\* What an inventory promises, with the ranges it rests on.
InventoryTrue == ReleasesTrue /\ PrereleasesTrue /\ NamedTold /\ PlannedTold /\ DeviationsTrue /\ DocKept
==============================================================================
