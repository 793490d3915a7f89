------------------------------ MODULE BranchList ------------------------------
(***************************************************************************)
(* The list of the page /branches (branches/list.go, environments.go): one *)
(* request asks git a dozen times and more, by the names of refs, and puts *)
(* the answers together.  Terminals, editors, assistants and the fetch of  *)
(* another window move HEAD and refs between any two of the calls.         *)
(***************************************************************************)
EXTENDS Naturals, FiniteSets

CONSTANTS
  BranchName,   \* names of branches
  GitRemote,    \* names of remotes
  Reach,        \* the commits: each is the set of commits it reaches
  EnvName,      \* environments of git.environments and of GitHub, in lower case
  MaxListEvents \* bound: steps of others in the repository and calls that fail

ASSUME ListAssumption ==
  /\ BranchName \cup GitRemote \cup EnvName \subseteq STRING
  /\ "" \notin BranchName \cup GitRemote \cup EnvName
  /\ MaxListEvents \in Nat /\ \A h \in Reach : h # {} /\ IsFiniteSet(h)

VARIABLES
  refs,      \* the repository: HEAD, refs, remotes, worktrees
  given,     \* the options of the request: settings and what GitHub said
  listing,   \* what the request has read
  search,    \* what it knows of the deployments
  listEvents \* steps of others and failed calls so far

listVars == <<refs, given, listing, search, listEvents>>

RefPlace == GitRemote \cup {""}   \* refs/remotes/<remote>/, "": refs/heads/
RefName  == RefPlace \X BranchName
Gone  == {}                        \* there is no such ref
Tips  == [RefPlace -> [BranchName -> Reach \cup {Gone}]]

RefsState ==
  [head : BranchName \cup {""},        \* "": detached
   tip : Tips, remotes : SUBSET GitRemote,
   follows : [BranchName -> GitRemote \cup {""}],  \* branch.<name>.remote
   points : [GitRemote -> BranchName \cup {""}],    \* refs/remotes/<remote>/HEAD
   elsewhere : SUBSET BranchName,      \* checked out in another worktree
   objects : SUBSET Reach]           \* commits that are there

\* Of a deployment the list uses ref and commit; Gone is a sha nobody can read.
Deployment == [ref : BranchName \cup {""}, sha : Reach \cup {Gone}]
NoDeployment == [ref |-> "none", sha |-> Gone]

GivenState ==
  [config : [EnvName -> BranchName \cup {""}],       \* git.environments
   default : BranchName \cup {""},                   \* of GitHub, "": not known
   deployment : [EnvName -> Deployment \cup {NoDeployment}],
   recent : BOOLEAN]                                 \* git 2.41 and later

Call == {"head", "born", "remotes", "remote", "default", "resolve", "local",
         "refs", "merged", "worktrees", "environment", "preferred",
         "candidates", "count", "log", "contains", "ahead"}

ListingState ==
  [at : Call \cup {"idle", "answered"},
   state : {"none", "ok", "error", "failed"},
   head : BranchName \cup {""}, born : BOOLEAN,
   remotes : SUBSET GitRemote, remote : RefPlace,
   name : BranchName \cup {""}, place : RefPlace, known : BOOLEAN,   \* the default branch
   seen : Tips, against : Reach \cup {Gone},   \* the default branch of that call
   counted : BOOLEAN,                          \* git told ahead and behind
   asked : BOOLEAN, merged : SUBSET RefName,
   elsewhere : SUBSET BranchName,
   disturbed : BOOLEAN]   \* history: others moved something, or a call failed

SearchState ==
  [waiting : SUBSET EnvName, env : EnvName \cup {""},
   ref : RefName \cup {<<"", "">>}, left : SUBSET BranchName,
   best : BranchName \cup {""}, least : Nat,
   suggested : [EnvName -> BranchName \cup {""}],
   inBranch : [EnvName -> {"unknown", "contained", "not-contained"}],
   further : [EnvName -> Nat]]

ListTypeOK ==
  /\ refs \in RefsState
  /\ given \in GivenState
  /\ listing \in ListingState
  /\ search \in SearchState
  /\ listing.at \in {"preferred", "candidates", "count", "log", "contains", "ahead"}
       => search.env \in EnvName
  /\ listing.at \in {"count", "contains", "ahead"} => search.ref \in RefName
  /\ listEvents \in 0..MaxListEvents

-----------------------------------------------------------------------------
(* What load has read, as build and environments use it.                   *)

Places(n) == {p \in RefPlace : listing.seen[p][n] # Gone}
ThereIs(n) == Places(n) # {}

\* preferredRef: of the remote that counts, else local, else of any remote,
\* which the iteration over a map picks.
PreferredPlaces(n) ==
  IF listing.remote \in Places(n) \cap GitRemote THEN {listing.remote}
  ELSE IF "" \in Places(n) THEN {""} ELSE Places(n)

\* environmentGroups.
EnvNames == [dev |-> {"dev", "develop", "development"}, stage |-> {"stage", "staging"},
             prod |-> {"prod", "production"}]
NearBranches == [dev |-> <<"dev", "develop", "development">>, stage |-> <<"stage", "staging">>,
                 prod |-> <<"prod", "production", "main", "master">>]
Groups == DOMAIN EnvNames
InGroups ==
  {n \in BranchName : \E g \in Groups : \E i \in DOMAIN NearBranches[g] : NearBranches[g][i] = n}

\* Where the groups of an environment name a branch that is there, and which branches.
Near(e) ==
  {x \in Groups \X (1..4) :
     /\ e \in EnvNames[x[1]] /\ x[2] \in DOMAIN NearBranches[x[1]]
     /\ NearBranches[x[1]][x[2]] \in BranchName /\ ThereIs(NearBranches[x[1]][x[2]])}
Named(near) == {NearBranches[x[1]][x[2]] : x \in near}
FirstOf(near) == CHOOSE x \in near : \A y \in near : x[2] <= y[2]

\* nameSuggestion: the first of its group that is there, the default branch before all.
NameSuggestion(e) ==
  IF listing.name \in Named(Near(e)) THEN listing.name
  ELSE IF Near(e) = {} THEN ""
  ELSE NearBranches[FirstOf(Near(e))[1]][FirstOf(Near(e))[2]]

\* longLivedCandidates.
Candidates ==
  {n \in InGroups \cup {listing.name} \cup {given.config[e] : e \in EnvName} :
     n \in BranchName /\ ThereIs(n)}

\* The branch that counts for an environment: settled, else found, else named.
BranchOf(e) ==
  IF given.config[e] # "" THEN given.config[e]
  ELSE IF search.suggested[e] # "" THEN search.suggested[e] ELSE NameSuggestion(e)

\* addFindings, and the settled branch that is not there.
Findings(e) ==
  LET c == given.config[e]  s == search.suggested[e]  near == NameSuggestion(e) IN
    {f \in {"missing-branch", "deployment-differs", "name-differs", "deployment-not-in-branch"} :
       CASE f = "missing-branch"     -> c # "" /\ ~ThereIs(c)
         [] f = "deployment-differs" -> c # "" /\ s \notin {"", c}
         [] f = "name-differs"       -> c = "" /\ near # "" /\ s \notin {"", near}
         [] OTHER                    -> c # "" /\ search.inBranch[e] = "not-contained"}

\* build: which refs get an entry, and what it says of HEAD and of the default branch.
Entries ==
  {r \in RefName : listing.seen[r[1]][r[2]] # Gone /\ (r[1] # "" => listing.seen[""][r[2]] = Gone)}
IsCurrent(r) == r[1] = "" /\ listing.head = r[2]
IsDefault(r) == r[2] = listing.name
OnTop(r)   == Cardinality(listing.seen[r[1]][r[2]] \ listing.against)
Missing(r) == Cardinality(listing.against \ listing.seen[r[1]][r[2]])
SaysMerged(r) == listing.known /\ ~IsDefault(r) /\ (listing.counted \/ listing.asked)
\* A defect: ahead and behind are taken for each other.
IsMergedSwapped(r) == IF listing.counted THEN Missing(r) = 0 ELSE r \in listing.merged
IsMerged(r) == IF listing.counted THEN OnTop(r) = 0 ELSE r \in listing.merged

-----------------------------------------------------------------------------
(* load: one action for each call of git.                                  *)

GitTells(next, new) ==
  /\ listing' = [new EXCEPT !.at = next]
  /\ UNCHANGED <<refs, given, search, listEvents>>

\* A request begins with nothing read.
NothingRead ==
  [at |-> "head", state |-> "none", head |-> "", born |-> FALSE, remotes |-> {},
   remote |-> "", name |-> "", place |-> "", known |-> FALSE,
   seen |-> [p \in RefPlace |-> [n \in BranchName |-> Gone]], against |-> Gone,
   counted |-> FALSE, asked |-> FALSE, merged |-> {}, elsewhere |-> {}, disturbed |-> FALSE]
NothingFound ==
  [waiting |-> {}, env |-> "", ref |-> <<"", "">>, left |-> {}, best |-> "", least |-> 0,
   suggested |-> [e \in EnvName |-> ""],
   inBranch |-> [e \in EnvName |-> "unknown"], further |-> [e \in EnvName |-> 0]]

NotAsked ==
  [config |-> [e \in EnvName |-> ""], default |-> "",
   deployment |-> [e \in EnvName |-> NoDeployment], recent |-> TRUE]

ListBegin(repository) ==
  /\ refs = repository
  /\ given = NotAsked
  /\ listing = [NothingRead EXCEPT !.at = "idle"]
  /\ search = NothingFound
  /\ listEvents = 0

\* The settings were read and GitHub was asked before the first call of git.
AskList(options) ==
  /\ listing.at = "idle"
  /\ given' = options
  /\ listing' = NothingRead /\ search' = NothingFound
  /\ UNCHANGED <<refs, listEvents>>

\* The page has the answer; its next request knows nothing of this one.
ListShown ==
  /\ listing.at = "answered"
  /\ listing' = [NothingRead EXCEPT !.at = "idle"] /\ search' = NothingFound /\ given' = NotAsked
  /\ UNCHANGED <<refs, listEvents>>

\* git is missing, the directory is no repository, or a call that bears the
\* answer fails or runs out of time.
CallFails ==
  /\ listing.at \in {"head", "born", "remotes", "refs", "worktrees"}
  /\ GitTells("answered", [listing EXCEPT !.state = "failed"])

ReadHead ==
  /\ listing.at = "head"
  /\ GitTells("born", [listing EXCEPT !.head = refs.head])

ReadBorn ==
  /\ listing.at = "born"
  /\ GitTells("remotes", [listing EXCEPT !.born =
                            refs.head # "" => refs.tip[""][refs.head] # Gone])

\* The remote that counts unless the branch names one: origin, else the first.
UsualRemote(remotes) ==
  IF "origin" \in remotes THEN "origin"
  ELSE IF remotes = {} THEN "" ELSE CHOOSE r \in remotes : TRUE

ReadRemotes ==
  /\ listing.at = "remotes"
  /\ GitTells(IF listing.head # "" THEN "remote" ELSE "default",
              [listing EXCEPT !.remotes = refs.remotes, !.remote = UsualRemote(refs.remotes)])

ReadRemote ==
  /\ listing.at = "remote"
  /\ LET named == refs.follows[listing.head] IN
       GitTells("default", [listing EXCEPT !.remote =
                  IF named \in listing.remotes THEN named ELSE listing.remote])

\* readDefault: of GitHub, else where the HEAD of the remote points, there or not.
ReadDefault ==
  /\ listing.at = "default"
  /\ \/ /\ given.default # ""
        /\ GitTells(IF listing.remote # "" THEN "resolve" ELSE "local",
                    [listing EXCEPT !.name = given.default])
     \/ /\ given.default = "" /\ listing.remote # "" /\ refs.points[listing.remote] # ""
        /\ GitTells("refs", [listing EXCEPT !.name = refs.points[listing.remote],
                                    !.place = listing.remote, !.known = TRUE])
     \/ /\ given.default = ""
        /\ listing.remote # "" => refs.points[listing.remote] = ""
        /\ GitTells("refs", listing)

\* resolveDefaultRef: the tracking branch, else the local one, else unknown.
ResolveDefault ==
  /\ listing.at \in {"resolve", "local"}
  /\ LET place == IF listing.at = "resolve" THEN listing.remote ELSE ""
         there == refs.tip[place][listing.name] # Gone
     IN GitTells(IF ~there /\ listing.at = "resolve" THEN "local" ELSE "refs",
                 [listing EXCEPT !.place = IF there THEN place ELSE "", !.known = there])

\* readRefs: all refs in one call, with ahead and behind where git can; a ref of
\* the default branch that is not there makes that call fail.
ReadRefs ==
  /\ listing.at = "refs"
  /\ LET against == IF listing.known THEN refs.tip[listing.place][listing.name] ELSE Gone
         read == [listing EXCEPT !.seen = refs.tip, !.against = against,
                                 !.counted = listing.known /\ given.recent]
     IN \/ /\ ~listing.known
           /\ GitTells("worktrees", read)
        \/ /\ listing.known /\ given.recent /\ against # Gone
           /\ GitTells("worktrees", read)
        \/ /\ listing.known /\ given.recent /\ against = Gone
           /\ GitTells("answered", [listing EXCEPT !.state = "error"])
        \/ /\ listing.known /\ ~given.recent
           /\ GitTells("merged", read)

\* --merged, for an older git: which refs the default branch contains by now.
ReadMerged ==
  /\ listing.at = "merged"
  /\ LET against == refs.tip[listing.place][listing.name] IN
       GitTells("worktrees", [listing EXCEPT
         !.asked = against # Gone,
         !.merged = {r \in RefName : /\ refs.tip[r[1]][r[2]] # Gone
                                     /\ refs.tip[r[1]][r[2]] \subseteq against}])

ReadWorktrees ==
  /\ listing.at = "worktrees"
  /\ listing' = [listing EXCEPT !.elsewhere = refs.elsewhere, !.at = "environment"]
  /\ search' = [search EXCEPT !.waiting = {e \in EnvName : given.deployment[e] # NoDeployment}]
  /\ UNCHANGED <<refs, given, listEvents>>

-----------------------------------------------------------------------------
(* environments: deploymentBranch and resolveDeployment, call by call.     *)

Searches(next, new) ==
  /\ listing' = [listing EXCEPT !.at = next]
  /\ search' = new
  /\ UNCHANGED <<refs, given, listEvents>>

Sha == given.deployment[search.env].sha

\* merge-base --is-ancestor of a commit and a ref, now.
Contains(p, n, sha) == refs.tip[p][n] # Gone /\ sha \in refs.objects /\ sha \subseteq refs.tip[p][n]

\* rev-list --count, now.
Further(p, n, sha) == Cardinality(refs.tip[p][n] \ sha)

\* The candidates are through: the best of them is the suggestion.
Found(branch) == [search EXCEPT !.suggested[search.env] = branch]

\* A branch that ref names is taken unseen.
SearchBegin(e) ==
  /\ listing.at = "environment" /\ e \in search.waiting
  /\ LET deployment == given.deployment[e]
         new == [search EXCEPT !.waiting = search.waiting \ {e}, !.env = e, !.best = "",
                               !.least = 0, !.left = Candidates]
     IN \/ /\ deployment.ref \in BranchName /\ ThereIs(deployment.ref)
           /\ Searches("log", [new EXCEPT !.suggested[e] = deployment.ref])
        \/ /\ ~(deployment.ref \in BranchName /\ ThereIs(deployment.ref))
           /\ deployment.sha = Gone
           /\ Searches("log", new)
        \/ /\ ~(deployment.ref \in BranchName /\ ThereIs(deployment.ref))
           /\ deployment.sha # Gone
           /\ Searches(IF NameSuggestion(e) # "" THEN "preferred" ELSE "candidates", new)

\* The branch the name suggests wins when it contains the commit.
AskPreferred ==
  /\ listing.at = "preferred"
  /\ LET n == NameSuggestion(search.env) IN
       \E p \in PreferredPlaces(n) :
         \/ Contains(p, n, Sha) /\ Searches("log", Found(n))
         \/ ~Contains(p, n, Sha) /\ Searches("candidates", search)

AskCandidate(n) ==
  /\ listing.at = "candidates" /\ n \in search.left
  /\ \E p \in PreferredPlaces(n) :
       \/ Contains(p, n, Sha) /\ Searches("count", [search EXCEPT !.ref = <<p, n>>])
       \/ ~Contains(p, n, Sha) /\ Searches("candidates", [search EXCEPT !.left = search.left \ {n}])

\* The one with the fewest commits on top of the deployment; a ref that went
\* between the two calls drops out.
CountCandidate ==
  /\ listing.at = "count"
  /\ LET p == search.ref[1]  n == search.ref[2]
         fewer == search.best = "" \/ Further(p, n, Sha) < search.least
         tried == [search EXCEPT !.left = search.left \ {n}]
     IN \/ /\ refs.tip[p][n] # Gone /\ fewer
           /\ Searches("candidates", [tried EXCEPT !.best = n, !.least = Further(p, n, Sha)])
        \/ /\ refs.tip[p][n] = Gone \/ ~fewer
           /\ Searches("candidates", tried)

CandidatesDone ==
  /\ listing.at = "candidates" /\ search.left = {}
  /\ Searches("log", Found(search.best))

\* resolveDeployment: is the commit there, and does the branch contain it?
ReadLog ==
  /\ listing.at = "log"
  /\ LET n == BranchOf(search.env) IN
       \/ /\ Sha \in refs.objects /\ n # "" /\ ThereIs(n)
          /\ \E p \in PreferredPlaces(n) : Searches("contains", [search EXCEPT !.ref = <<p, n>>])
       \/ /\ ~(Sha \in refs.objects /\ n # "" /\ ThereIs(n))
          /\ Searches("environment", search)

AskContained ==
  /\ listing.at = "contains"
  /\ LET p == search.ref[1]  n == search.ref[2] IN
       \/ Contains(p, n, Sha) /\ Searches("ahead", search)
       \/ /\ ~Contains(p, n, Sha)
          /\ Searches("environment", [search EXCEPT !.inBranch[search.env] =
                        IF refs.tip[p][n] # Gone THEN "not-contained" ELSE "unknown"])

ReadAhead ==
  /\ listing.at = "ahead"
  /\ LET p == search.ref[1]  n == search.ref[2] IN
       \/ /\ refs.tip[p][n] # Gone
          /\ Searches("environment", [search EXCEPT !.inBranch[search.env] = "contained",
                                                    !.further[search.env] = Further(p, n, Sha)])
       \/ refs.tip[p][n] = Gone /\ Searches("environment", search)

GiveList ==
  /\ listing.at = "environment" /\ search.waiting = {}
  /\ GitTells("answered", [listing EXCEPT !.state = "ok"])

\* Every other call that fails or runs out of time is passed over: as if the
\* branch named no remote, the ref were not there, the commit not contained.
NextCall ==
  [remote |-> "default", default |-> "refs", resolve |-> "local", local |-> "refs",
   merged |-> "worktrees", preferred |-> "candidates", candidates |-> "candidates",
   count |-> "candidates", log |-> "environment", contains |-> "environment",
   ahead |-> "environment"]
CallPassedOver ==
  /\ listing.at \in DOMAIN NextCall /\ listEvents < MaxListEvents
  /\ listing.at = "default" => given.default = "" /\ listing.remote # ""
  /\ listing' = [listing EXCEPT !.at = NextCall[listing.at], !.disturbed = TRUE]
  /\ \/ /\ listing.at = "candidates"
        /\ \E n \in search.left : search' = [search EXCEPT !.left = search.left \ {n}]
     \/ /\ listing.at = "count"
        /\ search' = [search EXCEPT !.left = search.left \ {search.ref[2]}]
     \/ listing.at \notin {"candidates", "count"} /\ UNCHANGED search
  /\ listEvents' = listEvents + 1
  /\ UNCHANGED <<refs, given>>

-----------------------------------------------------------------------------
(* Terminals, editors, assistants, other windows.                          *)

OthersDo(new) ==
  /\ listEvents < MaxListEvents
  /\ refs' = new /\ refs' # refs
  /\ listEvents' = listEvents + 1
  /\ listing' = [listing EXCEPT !.disturbed = TRUE]
  /\ UNCHANGED <<given, search>>

\* Commit, fetch, reset, a new or a deleted branch; what is checked out is not deleted.
OthersMove(p, n, h) ==
  /\ p = "" /\ n \in {refs.head} \cup refs.elsewhere => h # Gone
  /\ OthersDo([refs EXCEPT !.tip[p][n] = h, !.objects = refs.objects \cup ({h} \ {Gone})])

OthersSwitch(n) ==
  /\ n # "" => n \notin refs.elsewhere
  /\ OthersDo([refs EXCEPT !.head = n])

\* git remote set-head, git branch --set-upstream-to, git worktree add and remove.
OthersConfigure ==
  \/ \E r \in GitRemote, n \in BranchName \cup {""} : OthersDo([refs EXCEPT !.points[r] = n])
  \/ \E n \in BranchName, r \in GitRemote \cup {""} : OthersDo([refs EXCEPT !.follows[n] = r])
  \/ \E w \in SUBSET {n \in BranchName : n # refs.head /\ refs.tip[""][n] # Gone} :
       OthersDo([refs EXCEPT !.elsewhere = w])

\* git remote remove and add: the refs of a remote go with it.
OthersRemote(r) ==
  OthersDo(IF r \in refs.remotes
           THEN [refs EXCEPT !.remotes = refs.remotes \ {r}, !.points[r] = "",
                             !.tip[r] = [n \in BranchName |-> Gone]]
           ELSE [refs EXCEPT !.remotes = refs.remotes \cup {r}])

ListStep ==
  \/ ReadHead \/ ReadBorn \/ ReadRemotes \/ ReadRemote \/ ReadDefault \/ ResolveDefault
  \/ ReadRefs \/ ReadMerged \/ ReadWorktrees
  \/ \E e \in EnvName : SearchBegin(e)
  \/ AskPreferred
  \/ \E n \in BranchName : AskCandidate(n)
  \/ CountCandidate \/ CandidatesDone \/ ReadLog \/ AskContained \/ ReadAhead
  \/ GiveList \/ CallFails \/ CallPassedOver

OthersStep ==
  \/ \E p \in RefPlace, n \in BranchName, h \in Reach \cup {Gone} : OthersMove(p, n, h)
  \/ \E n \in BranchName \cup {""} : OthersSwitch(n)
  \/ OthersConfigure
  \/ \E r \in GitRemote : OthersRemote(r)

\* Without the default branch of GitHub nothing else was asked there.
ListOptions ==
  [config : [EnvName -> BranchName \cup {""}], default : {""}, recent : BOOLEAN,
   deployment : [EnvName -> {NoDeployment}]]
  \cup
  [config : [EnvName -> BranchName \cup {""}], default : BranchName, recent : BOOLEAN,
   deployment : [EnvName -> Deployment \cup {NoDeployment}]]

ListNext ==
  \/ listing.at = "idle" /\ \E options \in ListOptions : AskList(options)
  \/ ListShown \/ ListStep
  \/ listEvents < MaxListEvents /\ OthersStep

\* What a clone can look like when the page is opened.
Clone(repository) ==
  /\ repository \in RefsState
  /\ \A r \in RefName : repository.tip[r[1]][r[2]] \in repository.objects \cup {Gone}
  /\ \A n \in repository.elsewhere : repository.tip[""][n] # Gone /\ n # repository.head

ListInit == \E repository \in RefsState : Clone(repository) /\ ListBegin(repository)

ListSpec == ListInit /\ [][ListNext]_listVars

-----------------------------------------------------------------------------
(* Properties.                                                             *)

ListGiven == listing.at = "answered" /\ listing.state = "ok"
Tip(r) == refs.tip[r[1]][r[2]]

\* Told in one call, "merged" and the distance fit the commits that stand beside
\* them, whoever moved the refs before and since.
Together ==
  listing.counted =>
    LET default == listing.seen[listing.place][listing.name]
        shown(r) == listing.seen[r[1]][r[2]]
    IN \A r \in Entries : /\ SaysMerged(r) => (IsMerged(r) <=> shown(r) \subseteq default)
                          /\ Missing(r) = 0 <=> default \subseteq shown(r)

\* No branch of today's work is called the source of a deployment that does not name it.
SourcesAreLongLived ==
  \A e \in EnvName : search.suggested[e] \in {"", given.deployment[e].ref} \cup Candidates

\* The places where the search may look for a branch that contain the commit, and
\* those that do not.
With(n, sha)    == {p \in PreferredPlaces(n) : Contains(p, n, sha)}
Without(n, sha) == {p \in PreferredPlaces(n) : ~Contains(p, n, sha)}

\* No candidate contains the commit with fewer commits on top than that.
Fewest(n, sha, candidates) ==
  \E q \in With(n, sha) : \A m \in candidates :
    Without(m, sha) # {} \/ \E p \in With(m, sha) : Further(q, n, sha) <= Further(p, m, sha)

\* The branch found for a deployment contains its commit; the branch of the name
\* goes first, then the one with the fewest commits on top.
BySha(e) ==
  LET d == given.deployment[e] IN d.sha # Gone /\ ~(d.ref \in BranchName /\ ThereIs(d.ref))
SourceFits(e, n) ==
  LET sha == given.deployment[e].sha  near == NameSuggestion(e) IN
    BySha(e) =>
      /\ n = "" => \A m \in Candidates : Without(m, sha) # {}
      /\ n # "" => With(n, sha) # {}
      /\ n # near /\ near # "" => Without(near, sha) # {}
      /\ n \notin {"", near} => Fewest(n, sha, Candidates)
SourceRight(e) == SourceFits(e, search.suggested[e])

\* What is said of a deployment and the branch of its environment is so, and every
\* finding has its ground.
StandFits(e, n, said, distance) ==
  LET sha == given.deployment[e].sha IN
    /\ said = "contained" => \E p \in With(n, sha) : distance = Further(p, n, sha)
    /\ said = "not-contained" => sha \in refs.objects /\ Without(n, sha) # {}
    /\ said = "unknown" => sha \notin refs.objects \/ n = "" \/ ~ThereIs(n)
StandRight(e) == StandFits(e, BranchOf(e), search.inBranch[e], search.further[e])

FindingsGrounded(e) ==
  LET c == given.config[e]  s == search.suggested[e]  sha == given.deployment[e].sha IN
    /\ "missing-branch" \in Findings(e) => \A p \in RefPlace : refs.tip[p][c] = Gone
    /\ "deployment-not-in-branch" \in Findings(e) => sha \in refs.objects /\ Without(c, sha) # {}
    /\ Findings(e) \cap {"deployment-differs", "name-differs"} # {} =>
         s = given.deployment[e].ref \/ With(s, sha) # {}

DeploymentsSettled ==
  \A e \in EnvName : given.deployment[e] # NoDeployment =>
    SourceRight(e) /\ StandRight(e) /\ FindingsGrounded(e)

\* The page marks the branch that is checked out, and calls merged what the
\* default branch contains, with any git.
HeadSettled ==
  \A n \in BranchName :
    (\E r \in Entries : IsCurrent(r) /\ r[2] = n) <=> refs.head = n /\ Tip(<<"", n>>) # Gone
MergedSettled ==
  \A r \in Entries : SaysMerged(r) =>
    (IsMerged(r) <=> Tip(r) \subseteq refs.tip[listing.place][listing.name])

\* What the list says is so when nobody moved anything meanwhile, it refuses only
\* when the default branch of the remote is gone, and what it says in one breath
\* fits together even when somebody did (List, deploymentBranch, resolveDeployment).
ListingTrue ==
  /\ ListGiven => Together /\ SourcesAreLongLived
  /\ ListGiven /\ ~listing.disturbed => HeadSettled /\ MergedSettled /\ DeploymentsSettled
  /\ listing.at = "answered" /\ listing.state = "error" /\ ~listing.disturbed =>
       /\ refs.points[listing.remote] # ""
       /\ refs.tip[listing.remote][refs.points[listing.remote]] = Gone
=============================================================================
