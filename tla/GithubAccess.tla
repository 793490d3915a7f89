---------------------------- MODULE GithubAccess ----------------------------
(***************************************************************************)
(* The personal file of GitHub accesses and what uses it                    *)
(* (internal/githubaccess): init, the test against GitHub (command, MCP     *)
(* tool and page), and run, which starts one command with an access.  Git   *)
(* and ssh rewrite addresses and choose credentials as the machine, the     *)
(* caller and run tell them together; files change between the steps.        *)
(***************************************************************************)
EXTENDS Integers, Sequences, FiniteSets

CONSTANTS
  AccessCall,        \* calls of init, test and run
  MaxAccessChanges   \* bound: edits of the file and changes of what it points to

ASSUME AccessAssumption == MaxAccessChanges \in Nat /\ {"person", "nobody"} \cap AccessCall = {}

VARIABLES
  accessFile,     \* what lies at the path, and who made it
  held,           \* the credential behind each access on this machine
  accessGrants,         \* what GitHub lets each credential do in the repository
  machineRules,   \* the rewrites of the machine's git configuration
  accessCall,           \* the calls
  accessPage,     \* the rows of the page and the results they show
  accessChanges,
  fileLost        \* history: a person's file was changed by somebody else

accessVars == <<accessFile, held, accessGrants, machineRules, accessCall, accessPage, accessChanges, fileLost>>

(***************************************************************************)
(* The file.  An entry says a type and the keys it names; an access is one   *)
(* without a problem, and its id stands for the credential it points to.     *)
(***************************************************************************)
AccessKeys == [gh |-> {"login"}, token |-> {"file"}, ssh |-> {"key", "host"}, public |-> {}]
Entry(type, key, id) == [type |-> type, keys |-> IF key = "none" THEN {} ELSE {key}, id |-> id, path |-> "absolute",
                         disabled |-> "false"]
Gh == Entry("gh", "login", "alice")
Token == Entry("token", "file", "T")
SshKey == Entry("ssh", "key", "K")
SshHost == Entry("ssh", "host", "work")
SshPlain == Entry("ssh", "host", "github.com")
Public == Entry("public", "none", "nobody")
Disabled(e) == [e EXCEPT !.disabled = "true"]

\* validateAccess: the problems of one entry.
EntryProblems(e) ==
  IF e.type \notin DOMAIN AccessKeys THEN {"type"}
  ELSE {p \in {"key", "missing", "both", "path", "disabled"} :
          CASE p = "key" -> ~(e.keys \subseteq AccessKeys[e.type])
            [] p = "missing" -> AccessKeys[e.type] # {} /\ e.keys \cap AccessKeys[e.type] = {}
            [] p = "both" -> e.type = "ssh" /\ {"key", "host"} \subseteq e.keys
            [] p = "path" -> e.keys \cap {"file", "key"} # {} /\ e.path = "relative"
            [] OTHER -> e.disabled \notin {"true", "false"}}

Faulty == {Entry("app", "login", "alice"), Entry("gh", "host", "work"), Entry("token", "none", "T"),
           [SshKey EXCEPT !.keys = {"key", "host"}], [Token EXCEPT !.path = "relative"],
           [Gh EXCEPT !.disabled = "maybe"]}
\* A file that names the service, or an empty one.
Sound == {<<SshHost, Gh>>, <<Gh, SshHost>>, <<Public, Token>>, <<Disabled(SshHost), SshKey, Token>>, <<SshPlain, Public>>}
Contents == Sound \cup {<<e, Gh>> : e \in Faulty} \cup {<<>>}
FileOf(kind, content, maker) == [kind |-> kind, content |-> content, maker |-> maker]
NoFile == FileOf("none", <<>>, "nobody")

\* LoadAccess: the services or the problems; a path where nothing lies is neither.
LoadAccess ==
  LET problems == IF accessFile.kind = "file"
                  THEN UNION {EntryProblems(accessFile.content[i]) : i \in DOMAIN accessFile.content}
                  ELSE IF accessFile.kind = "none" THEN {} ELSE {"file"}
  IN [present |-> accessFile.kind # "none", problems |-> problems,
      access |-> IF problems = {} THEN accessFile.content ELSE <<>>]

(***************************************************************************)
(* Availability and choice                                                 *)
(***************************************************************************)
\* A credential is good, open (it can be read, but not with these rights or lines) or gone.
Holds == [{"alice", "T", "K", "work"} -> {"good", "open", "gone"}]
Judge(access) ==
  [i \in DOMAIN access |->
     IF access[i].disabled = "true" THEN "disabled"
     ELSE IF access[i].id \in DOMAIN held /\ held[access[i].id] # "good" THEN "unavailable" ELSE "available"]

Option(write, use, skip) == [write |-> write, use |-> use, skip |-> skip]
Plain == Option(FALSE, "any", {})
Options == {Plain, Option(TRUE, "any", {}), Option(FALSE, "any", {"ssh"}), Option(FALSE, "ssh", {})}
Admitted(e, state, options) ==
  /\ state = "available"
  /\ options.write => e.type # "public"
  /\ options.use \in {"any", e.type}
  /\ e.type \notin options.skip

\* The first admitted access of the channel, 0 if there is none.
First(S) == IF S = {} THEN 0 ELSE CHOOSE i \in S : \A j \in S : i <= j
Choose(access, states, options) ==
  LET admitted == {i \in DOMAIN access : Admitted(access[i], states[i], options)}
  IN [git |-> First(admitted), api |-> First({i \in admitted : access[i].type \in {"token", "gh"}})]
NoChoice == [git |-> 0, api |-> 0]
Select(access, states) ==
  [read |-> Choose(access, states, Plain), write |-> Choose(access, states, Option(TRUE, "any", {}))]

(***************************************************************************)
(* Addresses.  The repository is web; website begins with the same text, and *)
(* docs is another one.  A rule rewrites a whole host (0), what begins with   *)
(* the address (1), or the address with .git (2).                            *)
(***************************************************************************)
Url(form, repo, git) == [form |-> form, repo |-> repo, git |-> git]
Rule(form, extent, to, push) == [form |-> form, extent |-> extent, to |-> to, push |-> push]
Matches(rule, url) ==
  /\ rule.form = url.form
  /\ rule.extent >= 1 => url.repo \in {"web", "website"}
  /\ rule.extent = 2 => url.repo = "web" /\ url.git

\* git takes the longest rule, among those as long the one it reads first; for a push
\* it looks at the rules for a push first.  Layers are read in their order.
Longest(layers, url, push) ==
  LET Hits == {h \in UNION {{<<n, r>> : r \in layers[n]} : n \in DOMAIN layers} :
                 h[2].push = push /\ Matches(h[2], url)}
  IN {h \in Hits : \A g \in Hits : g[2].extent < h[2].extent \/ (g[2].extent = h[2].extent /\ h[1] <= g[1])}
Rewritten(layers, url, push) ==
  LET own == IF push THEN Longest(layers, url, TRUE) ELSE {}
      best == IF own # {} THEN own ELSE Longest(layers, url, FALSE)
  IN IF best = {} THEN url ELSE [url EXCEPT !.form = (CHOOSE h \in best : TRUE)[2].to]

AliasForm(host) == IF host = "github.com" THEN "scp" ELSE host
\* formsOf: the three forms of GitHub and those of the aliases the service names.
FormsOf(access) ==
  {"https", "scp", "ssh"}
    \cup {AliasForm(access[i].id) : i \in {i \in DOMAIN access : access[i].type = "ssh" /\ access[i].keys = {"host"}}}
Target(e) == IF e.type # "ssh" THEN "https" ELSE IF e.keys = {"key"} THEN "scp" ELSE AliasForm(e.id)

\* A defect: the target form itself is not pinned.
OthersOnly(access, git) ==
  IF git = 0 THEN {}
  ELSE {Rule(form, extent, Target(access[git]), push) :
          form \in FormsOf(access) \ {Target(access[git])}, extent \in {1, 2}, push \in BOOLEAN}

\* GitConfig: each form, with and without .git, for fetch and push, to the target
\* form, the target form itself too.
GitConfig(access, git) ==
  IF git = 0 THEN {}
  ELSE {Rule(form, extent, Target(access[git]), push) :
          form \in FormsOf(access), extent \in {1, 2}, push \in BOOLEAN}

(***************************************************************************)
(* The environment of a command                                            *)
(***************************************************************************)
\* layers: GIT_CONFIG_*; helper: who answers git for https addresses of web; ssh: the
\* key of GIT_SSH_COMMAND; token: GH_TOKEN.
Environment(layers, helper, ssh, token) == [layers |-> layers, helper |-> helper, ssh |-> ssh, token |-> token]
Clean == Environment(<<>>, "machine", "machine", "none")
Callers == {Clean, Environment(<<{Rule("https", 0, "scp", FALSE)}>>, "machine", "machine", "stray")}

ChildEnv(caller, access, choice, token) ==
  LET git == IF choice.git = 0 THEN Public ELSE access[choice.git] IN
  [layers |-> IF choice.git = 0 THEN caller.layers ELSE Append(caller.layers, GitConfig(access, choice.git)),
   helper |-> IF choice.git = 0 \/ git.type = "ssh" THEN caller.helper ELSE IF git.type = "public" THEN "none" ELSE "own",
   ssh    |-> IF git.type = "ssh" /\ git.keys = {"key"} THEN git.id ELSE caller.ssh,
   token  |-> IF choice.api = 0 THEN "none" ELSE token]

\* The credential of a command that speaks with an address, in an environment.
Credential(env, url) ==
  CASE url.form = "https" /\ url.repo = "web" ->
         (CASE env.helper = "own" -> env.token [] env.helper = "none" -> "nobody" [] OTHER -> "machine")
    [] url.form = "mirror" \/ (url.form = "https" /\ url.repo # "web") -> "machine"
    [] OTHER -> IF env.ssh # "machine" THEN env.ssh ELSE IF url.form \in {"scp", "ssh"} THEN "machine" ELSE url.form
CredentialOf(e) == IF e.id = "github.com" THEN "machine" ELSE e.id
ReadsRepo(credential) == accessGrants[credential] \in {"read", "write"}

(***************************************************************************)
(* Calls                                                                   *)
(***************************************************************************)
Idle == [op |-> "none", step |-> "idle", caller |-> Clean, options |-> Plain, access |-> <<>>, states |-> <<>>,
         choice |-> NoChoice, token |-> "none", env |-> Clean, at |-> 0, results |-> <<>>, ok |-> TRUE,
         created |-> FALSE]
Result(result, identity, read, write) == [result |-> result, identity |-> identity, read |-> read, write |-> write]
Skipped == Result("skipped", "none", "none", "none")
Untested == Result("none", "none", "none", "none")

AccessTypeOK ==
  /\ accessFile.kind \in {"none", "dead link", "directory", "file"} /\ accessFile.content \in Contents
  /\ accessFile.maker \in AccessCall \cup {"person", "nobody"}
  /\ held \in Holds /\ DOMAIN accessGrants = {"alice", "T", "K", "work", "nobody", "machine"}
  /\ \A c \in AccessCall :
       /\ accessCall[c].op \in {"none", "run", "test", "page test", "init"}
       /\ accessCall[c].step \in {"idle", "load", "judge", "token", "exec", "running", "first", "second", "look", "open",
                            "write", "done"}
       /\ accessCall[c].access \in Contents /\ Len(accessCall[c].results) <= Len(accessCall[c].access)
  /\ DOMAIN accessPage.shown = DOMAIN accessPage.rows /\ accessPage.edited \in BOOLEAN
  /\ accessChanges \in 0..MaxAccessChanges /\ fileLost \in BOOLEAN

AccessBegin(file, h, g, rules) ==
  /\ accessFile = file /\ held = h /\ accessGrants = g /\ machineRules = rules
  /\ accessCall = [c \in AccessCall |-> Idle] /\ accessPage = [rows |-> <<>>, shown |-> <<>>, edited |-> FALSE]
  /\ accessChanges = 0 /\ fileLost = FALSE

OpenFor(c) == [x \in {"alice", "T", "K", "work"} |-> IF x = c THEN "open" ELSE "good"]
AllGood == [c \in {"alice", "T", "K", "work"} |-> "good"]
AllWrite == [c \in {"alice", "T", "K", "work", "nobody", "machine"} |->
               IF c = "nobody" THEN "read" ELSE "write"]
Everywhere == Rule("https", 0, "scp", FALSE)
\* The file as it may be found; how the machine rewrites, at last this one address
\* too; a credential that GitHub does not take.
AccessInit ==
  \/ \E k \in {"none", "dead link", "directory"} : AccessBegin(FileOf(k, <<>>, "nobody"), AllGood, AllWrite, {})
  \/ \E content \in Contents \ Sound : AccessBegin(FileOf("file", content, "person"), AllGood, AllWrite, {})
  \/ \E content \in Sound, rules \in {{}, {Everywhere}, {Rule("scp", 0, "https", FALSE)}, {Rule("https", 0, "scp", TRUE)},
                                     {Rule("https", 2, "mirror", FALSE)}} :
       AccessBegin(FileOf("file", content, "person"), AllGood, AllWrite, rules)
  \/ \E content \in Sound :
       content[1].id \in DOMAIN AllGood /\ AccessBegin(FileOf("file", content, "person"), OpenFor(content[1].id), AllWrite, {})
  \/ \E content \in Sound, grant \in {<<"T", "expired">>, <<"alice", "refused">>, <<"K", "none">>, <<"nobody", "none">>} :
       /\ \E i \in DOMAIN content : content[i].id = grant[1]
       /\ AccessBegin(FileOf("file", content, "person"), AllGood, [AllWrite EXCEPT ![grant[1]] = grant[2]], {Everywhere})

AccessWorld == <<accessFile, held, accessGrants, machineRules>>
Steps(c, step) == accessCall' = [accessCall EXCEPT ![c].step = step]
Ends(c) == accessCall' = [accessCall EXCEPT ![c] = [Idle EXCEPT !.op = "run", !.step = "done"]]
OnlyCalls == UNCHANGED <<accessFile, held, accessGrants, machineRules, accessPage, accessChanges, fileLost>>

\* A call from a shell, or from a command that runs under another call of run; two
\* calls of run, or two tests, have nothing in common but the file, nor has the page
\* anything with a call that it did not begin.
BeginAccess(c, op, options, caller) ==
  /\ accessCall[c].step = "idle"
  /\ op # "run" \/ caller # Clean => options = Plain
  /\ op # "run" => caller.token # "stray"
  /\ op = "run" /\ caller \in Callers => \A d \in AccessCall : accessCall[d].op # "run"
  /\ op = "test" => \A d \in AccessCall : accessCall[d].op # "test"
  /\ op \notin {"run", "test"} => caller = Clean
  /\ op = "page test" <=> accessPage.rows # <<>>
  /\ accessCall' = [accessCall EXCEPT ![c] = [Idle EXCEPT !.op = op, !.options = options, !.caller = caller,
                                              !.step = IF op = "init" THEN "look" ELSE "load"]]
  /\ accessPage' = IF op = "page test" THEN [accessPage EXCEPT !.shown = [i \in DOMAIN @ |-> Untested]] ELSE accessPage
  /\ UNCHANGED AccessWorld /\ UNCHANGED <<accessChanges, fileLost>>

\* Without a file, with problems or without the service run ends (125); a test says
\* so, and without a file that is no failure.
LoadFile(c) ==
  /\ accessCall[c].step = "load"
  /\ LET result == LoadAccess
         none == result.problems # {} \/ result.access = <<>>
     IN IF none /\ accessCall[c].op = "run" THEN Ends(c)
        ELSE accessCall' = [accessCall EXCEPT ![c].access = result.access, ![c].ok = result.problems = {},
                                  ![c].step = IF none THEN "done" ELSE "judge"]
  /\ OnlyCalls

JudgeAndChoose(c) ==
  /\ accessCall[c].step = "judge"
  /\ LET states == Judge(accessCall[c].access)
         choice == Choose(accessCall[c].access, states, accessCall[c].options)
     IN IF accessCall[c].op = "run" /\ choice = NoChoice THEN Ends(c)
        ELSE accessCall' = [accessCall EXCEPT ![c].states = states, ![c].choice = choice, ![c].at = 1,
                                  ![c].step = IF accessCall[c].op # "run" THEN "first"
                                              ELSE IF choice.api # 0 THEN "token" ELSE "exec"]
  /\ OnlyCalls

\* gh is asked without the tokens of the environment, else it would answer with them.
TokenOf(e, caller) == e.id
ReadToken(c) ==
  /\ accessCall[c].step = "token"
  /\ LET e == accessCall[c].access[accessCall[c].choice.api] IN
     IF held[e.id] = "gone" THEN Ends(c)
     ELSE accessCall' = [accessCall EXCEPT ![c].token = TokenOf(e, accessCall[c].caller), ![c].step = "exec"]
  /\ OnlyCalls

\* run becomes the command; one that is not there (127) or cannot be executed (126) ends it.
Exec(c) ==
  /\ accessCall[c].step = "exec"
  /\ \/ accessCall' = [accessCall EXCEPT ![c].step = "running",
                             ![c].env = ChildEnv(accessCall[c].caller, accessCall[c].access,
                                                 accessCall[c].choice, accessCall[c].token)]
     \/ Ends(c)
  /\ OnlyCalls

CommandEnds(c) == accessCall[c].step = "running" /\ Ends(c) /\ OnlyCalls

(***************************************************************************)
(* The test against GitHub: per access two questions, who it is and whether *)
(* it reads the repository; one may go unanswered.                          *)
(***************************************************************************)
Tested(c) == accessCall[c].access[accessCall[c].at]
\* The result of the access and the next one, or the end.
Answer(c, result) ==
  LET over == accessCall[c].at = Len(accessCall[c].access) IN
  accessCall' = [accessCall EXCEPT ![c].results = Append(@, result), ![c].at = @ + 1,
                       ![c].step = IF over THEN "done" ELSE "first",
                       ![c].ok = @ /\ result.result # "failed"]

Skips(c) == /\ accessCall[c].step = "first" /\ accessCall[c].states[accessCall[c].at] # "available"
            /\ Answer(c, Skipped) /\ OnlyCalls

\* GET /user with the token, which is read now; ssh -T with the key or the alias;
\* nothing for public.
FirstQuestion(c) ==
  /\ accessCall[c].step = "first" /\ accessCall[c].states[accessCall[c].at] = "available"
  /\ LET e == Tested(c)
         credential == CredentialOf(e)
         gone == credential \in DOMAIN held /\ held[credential] = "gone"
     IN IF e.type = "public" THEN Steps(c, "second")
        ELSE IF gone \/ accessGrants[credential] = "refused" THEN Answer(c, Result("failed", "none", "none", "none"))
        ELSE IF accessGrants[credential] = "expired" THEN Answer(c, Result("failed", credential, "none", "none"))
        ELSE Steps(c, "second")
  /\ OnlyCalls

\* GET /repos with the token; git ls-remote of the target form, which git rewrites as
\* the machine and the caller tell it, with the key of the access and without helpers.
TestEnv(caller, e) ==
  Environment(caller.layers, "none", IF e.type = "ssh" /\ e.keys = {"key"} THEN e.id ELSE "machine", "none")
LsRemote(c, e) ==
  LET env == TestEnv(accessCall[c].caller, e)
  IN Credential(env, Rewritten(<<machineRules>> \o env.layers, Url(Target(e), "web", TRUE), FALSE))
SecondQuestion(c) ==
  /\ accessCall[c].step = "second"
  /\ LET e == Tested(c)
         credential == CredentialOf(e)
         asked == IF e.type \in {"gh", "token"} THEN credential ELSE LsRemote(c, e)
         write == CASE e.type = "ssh" -> "unknown" [] e.type = "public" -> "no"
                    [] OTHER -> IF accessGrants[credential] = "write" THEN "yes" ELSE "no"
     IN IF ReadsRepo(asked) THEN Answer(c, Result("ok", credential, "yes", write))
        ELSE Answer(c, Result("failed", credential, "no", IF e.type \in {"gh", "token"} THEN "none" ELSE write))
  /\ OnlyCalls

Unanswered(c) ==
  /\ accessCall[c].step = "second" \/ (accessCall[c].step = "first" /\ accessCall[c].states[accessCall[c].at] = "available"
                                                       /\ Tested(c).type # "public")
  /\ accessChanges < MaxAccessChanges /\ accessChanges' = accessChanges + 1
  /\ LET asked == IF accessCall[c].step = "first" THEN "none" ELSE CredentialOf(Tested(c))
     IN Answer(c, Result("failed", asked, "none", "none"))
  /\ UNCHANGED AccessWorld /\ UNCHANGED <<accessPage, fileLost>>

SelectedOK(c) ==
  LET ok(i) == IF i = 0 THEN "none" ELSE IF accessCall[c].results[i].result = "ok" THEN "yes" ELSE "no"
      chosen == Select(accessCall[c].access, accessCall[c].states)
  IN [read |-> [git |-> ok(chosen.read.git), api |-> ok(chosen.read.api)],
      write |-> [git |-> ok(chosen.write.git), api |-> ok(chosen.write.api)]]

(***************************************************************************)
(* init                                                                    *)
(***************************************************************************)
\* Where something lies nothing is done; a dead link and a directory are problems.
InitLooks(c) ==
  /\ accessCall[c].step = "look"
  /\ IF accessFile.kind = "none" THEN Steps(c, "open")
     ELSE accessCall' = [accessCall EXCEPT ![c].step = "done", ![c].ok = accessFile.kind = "file"]
  /\ OnlyCalls

\* O_EXCL: only where nothing lies by now.  The directory may be read-only.
InitOpens(c) ==
  /\ accessCall[c].step = "open"
  /\ \/ /\ accessFile.kind = "none"
        /\ accessFile' = FileOf("file", <<>>, c) /\ Steps(c, "write")
     \/ /\ accessFile.kind # "none"
        /\ accessCall' = [accessCall EXCEPT ![c].step = "done"] /\ UNCHANGED accessFile
     \/ /\ accessCall' = [accessCall EXCEPT ![c].step = "done", ![c].ok = FALSE] /\ UNCHANGED accessFile
  /\ fileLost' = (fileLost \/ (accessFile.maker = "person" /\ accessFile' # accessFile))
  /\ UNCHANGED <<held, accessGrants, machineRules, accessPage, accessChanges>>

\* The template is an empty file for the reader; what cannot be written is removed.
InitWrites(c) ==
  /\ accessCall[c].step = "write"
  /\ \/ /\ accessCall' = [accessCall EXCEPT ![c].step = "done", ![c].created = TRUE] /\ UNCHANGED accessFile
     \/ /\ accessCall' = [accessCall EXCEPT ![c].step = "done", ![c].ok = FALSE] /\ accessFile' = NoFile
  /\ fileLost' = (fileLost \/ (accessFile.maker = "person" /\ accessFile' # accessFile))
  /\ UNCHANGED <<held, accessGrants, machineRules, accessPage, accessChanges>>

(***************************************************************************)
(* The page, and what changes meanwhile                                    *)
(***************************************************************************)
\* The page is loaded once; a reload starts it anew.
PageLoads ==
  /\ accessPage.rows = <<>> /\ \A c \in AccessCall : accessCall[c].step \in {"idle", "done"}
  /\ LET rows == LoadAccess.access
     IN accessPage' = [rows |-> rows, shown |-> [i \in DOMAIN rows |-> Untested], edited |-> FALSE]
  /\ UNCHANGED AccessWorld /\ UNCHANGED <<accessCall, accessChanges, fileLost>>

\* The results fill the rows by their place.
PageShows(c) ==
  /\ accessCall[c].op = "page test" /\ accessCall[c].step = "done" /\ accessCall[c].access # <<>>
  /\ accessPage' = [accessPage EXCEPT !.shown = [i \in DOMAIN @ |->
                     IF i \in DOMAIN accessCall[c].results THEN accessCall[c].results[i] ELSE @[i]]]
  /\ accessCall' = [accessCall EXCEPT ![c] = [Idle EXCEPT !.op = "page test", !.step = "done"]]
  /\ UNCHANGED AccessWorld /\ UNCHANGED <<accessChanges, fileLost>>

Changes == accessChanges < MaxAccessChanges /\ accessChanges' = accessChanges + 1
\* A person saves or removes the file, but not in the moment in which init writes it.
EditFile ==
  /\ Changes /\ \A c \in AccessCall : accessCall[c].step # "write"
  /\ accessPage.rows # <<>> \/ \E c \in AccessCall : accessCall[c].step \in {"look", "open", "load"}
  /\ \E f \in {FileOf("file", content, "person") : content \in {<<Gh, SshHost>>, <<Public, Token>>}} \cup {NoFile} :
       f # accessFile /\ accessFile' = f
  /\ accessPage' = [accessPage EXCEPT !.edited = TRUE]
  /\ UNCHANGED <<held, accessGrants, machineRules, accessCall, fileLost>>

\* OnlyCalls what a call has judged matters from then on.
CredentialChanges ==
  /\ Changes
  /\ \E c \in AccessCall, i \in {1, 2, 3} :
       /\ accessCall[c].step \in {"token", "exec", "first", "second"}
       /\ i \in DOMAIN accessCall[c].access /\ accessCall[c].access[i].id \in DOMAIN held
       /\ held' = [held EXCEPT ![accessCall[c].access[i].id] = "gone"] /\ held' # held
  /\ UNCHANGED <<accessFile, accessGrants, machineRules, accessCall, accessPage, fileLost>>

Environments == Callers \cup {accessCall[c].env : c \in {c \in AccessCall : accessCall[c].step = "running"}}
AccessNext ==
  \/ \E c \in AccessCall :
       \/ \E op \in {"run", "test", "page test", "init"}, options \in Options, caller \in Environments :
            BeginAccess(c, op, options, caller)
       \/ LoadFile(c) \/ JudgeAndChoose(c) \/ ReadToken(c) \/ Exec(c) \/ CommandEnds(c)
       \/ Skips(c) \/ FirstQuestion(c) \/ SecondQuestion(c) \/ Unanswered(c)
       \/ InitLooks(c) \/ InitOpens(c) \/ InitWrites(c)
       \/ PageShows(c)
  \/ PageLoads \/ EditFile \/ CredentialChanges

AccessSpec == AccessInit /\ [][AccessNext]_accessVars

(***************************************************************************)
(* Properties                                                              *)
(***************************************************************************)
RunsAccess(c) == accessCall[c].step = "running"
GitAccess(c) == accessCall[c].access[accessCall[c].choice.git]
RewritesBefore(c) == <<machineRules>> \o accessCall[c].caller.layers
\* Nothing that git reads before is as long as the address, unless it leads to the same place.
Undisturbed(c) ==
  /\ \A n \in DOMAIN RewritesBefore(c) : \A r \in RewritesBefore(c)[n] : r.extent = 0 \/ r.to = Target(GitAccess(c))
  /\ GitAccess(c).keys = {"host"} => accessCall[c].caller.ssh = "machine"
Under(c, url, push) == Rewritten(<<machineRules>> \o accessCall[c].env.layers, url, push)

\* "Every form goes to the target form", "The target form is pinned", "Fetch and push"
\* (docs/github-access.md): however the machine rewrites all of GitHub, every form of
\* the repository goes through the access that the line on standard error names, and
\* no helper of the machine is asked or told.
RunsThrough ==
  \A c \in AccessCall : RunsAccess(c) /\ accessCall[c].choice.git # 0 /\ Undisturbed(c) =>
    \A form \in FormsOf(accessCall[c].access), git \in BOOLEAN, push \in BOOLEAN :
      LET url == Under(c, Url(form, "web", git), push)
      IN url.form = Target(GitAccess(c)) /\ Credential(accessCall[c].env, url) = CredentialOf(GitAccess(c))

\* "OnlyCalls this repository": another one goes where it went without run.
OthersUntouched ==
  \A c \in AccessCall : RunsAccess(c) =>
    \A form \in {"https", "scp", "ssh", "work"}, git \in BOOLEAN, push \in BOOLEAN :
      LET url == Url(form, "docs", git)
      IN /\ Under(c, url, push) = Rewritten(RewritesBefore(c), url, push)
         /\ \/ Credential(accessCall[c].env, Under(c, url, push)) = Credential(accessCall[c].caller, Under(c, url, push))
            \/ accessCall[c].choice.git # 0 /\ GitAccess(c).keys = {"key"}

\* A command never sees two tokens, nor one the caller happened to have; what it may
\* write through is no public access.
OneToken ==
  \A c \in AccessCall : RunsAccess(c) =>
    LET choice == accessCall[c].choice IN
    /\ accessCall[c].env.token = IF choice.api = 0 THEN "none" ELSE accessCall[c].access[choice.api].id
    /\ choice.git # 0 => /\ GitAccess(c).type \in {"gh", "token"} => choice.api = choice.git
                         /\ GitAccess(c).type = "public" => ~accessCall[c].options.write

\* What a test calls ok GitHub lets this very access do, unless the machine sends git
\* elsewhere; and what it calls ok of the choice a run through it can read.
Straight(c, e) == Rewritten(RewritesBefore(c), Url(Target(e), "web", TRUE), FALSE).form = Target(e)
TestedOver(c) == accessCall[c].op \in {"test", "page test"} /\ accessCall[c].step = "done" /\ accessCall[c].results # <<>>
TestHonest ==
  \A c \in AccessCall : TestedOver(c) =>
    /\ \A i \in DOMAIN accessCall[c].results :
         LET e == accessCall[c].access[i] IN
         /\ accessCall[c].results[i].result = "ok" =>
              /\ accessCall[c].states[i] = "available" /\ accessCall[c].results[i].identity = CredentialOf(e)
              /\ e.type \in {"gh", "token"} \/ Straight(c, e) => ReadsRepo(CredentialOf(e))
         /\ accessCall[c].results[i].write = "yes" => accessGrants[CredentialOf(e)] = "write"
    /\ accessCall[c].ok = (\A i \in DOMAIN accessCall[c].results : accessCall[c].results[i].result # "failed")
    /\ \A r \in AccessCall :
         /\ RunsAccess(r) /\ accessCall[r].options = Plain
          /\ accessCall[r].access = accessCall[c].access /\ accessCall[r].states = accessCall[c].states
         /\ SelectedOK(c).read.git = "yes" /\ Undisturbed(r) /\ Straight(c, GitAccess(r))
         => \A form \in FormsOf(accessCall[r].access), git \in BOOLEAN :
              ReadsRepo(Credential(accessCall[r].env, Under(r, Url(form, "web", git), FALSE)))

\* A row of the page shows the result of its own access, until the file is edited.
RowsTrue ==
  ~accessPage.edited =>
    \A i \in DOMAIN accessPage.rows :
      accessPage.shown[i].identity # "none" => accessPage.shown[i].identity = CredentialOf(accessPage.rows[i])

\* init never touches what is there, and of several only one made the file.
InitKeeps ==
  /\ ~fileLost
  /\ \A c, d \in AccessCall : accessCall[c].created /\ accessCall[d].created /\ c # d => accessChanges > 0

\* The accesses of a person are used as they are written down (docs/github-access.md).
GithubKept == RunsThrough /\ OthersUntouched /\ OneToken /\ TestHonest /\ RowsTrue /\ InitKeeps
=============================================================================
