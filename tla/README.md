# k-playbook: a verification development

TLA+ modules of the parts of k-playbook in which processes, goroutines, requests,
people or repositories meet on shared state, or in which a conversion is hard to
get right; the TLC runs that check them on small instances; and proofs, checked by
TLAPS, that hold for every value of the constants.

Contents: 1 inventory · 2 plan · 3 modules and the code · 4 runs ·
5 proofs · 6 findings and observations · 7 what is not modelled.

Source paths are relative to the repository; `internal/` and `cmd/` stand below
`installer/`.

## 1 Inventory

k-playbook is one Go program (`installer/`), a shared directory of rules,
commands and scripts that it installs into projects, and a small VS Code
extension.  It runs as a command, as a server with a page per project, and as an
MCP server of an assistant, in several processes and on host and container at once.

| Part | State | Operations | Talks to | Hard behaviour | What makes it correct |
|---|---|---|---|---|---|
| `guiproc` | the runtime file of a project; `Registration.released` | Register, Release, Reclaim, Remove, Inspect, Spawn, Await, WaitForExit, Terminate | file system, processes, `/api/health` | several processes, no lock, a check and an act apart from each other | one registered server per project; a file goes only with its own server |
| `webui` server, restart, update | context, `updateMu`, the registration | Serve, shutdown, install and restart, take back | `guiproc`, `program` | hand-over to a new process with a gap; take-back after its failure | the gap closes; the end of one server harms no other |
| `cmd/k-playbook` gui, stop | none of their own | start or reuse, replace, discard, stop | `guiproc` | they act on a finding that may be stale | an invocation ends; nothing alive is lost |
| `review` execution | `entries/<name>.json`, `raw/`, tokens, updates channel | Execute, clear, plan, run, write | scanners, file system | goroutines, a semaphore, an unbuffered channel, failed writes, kills | an end state is an end state; results belong to the call; Execute returns |
| `mcpserver/progress.go` | the record of the entries, timer, two locks | Report, emit, heartbeat, Stop | the client | heartbeat against Report and Stop | counts are honest and never fall; Stop returns |
| `mcpserver/review.go`, `review/run.go` | `run.json`, status files, SARIF, merge times | create, write entry, status | assistants | several calls, assistants that write meanwhile | a run keeps its entries; what is shown complete is complete |
| review catalogues | recipe headers, scanner rules, modules | read, check, plan | files | line-wise parsing, colliding names | read as written; a job a file |
| `review/merge`, `knowndecisions` | groups, stable ids, coverage | load, group, rate, cover | `review` | transitive keys, later runs, expiry | groups are chains; ids are found again |
| `webui` chat | outcomes of commands, event streams | send, watch, poll, shut down | OpenCode | detached goroutines, a bounded store, shutdown | no failure is forgotten; streams end |
| `chat-session.js` | what a page shows | load, play in events, ask, answer | OpenCode through the server | answers and events overtake each other, breaks | the page ends up with what is there |
| `branches` and their page | HEAD, refs, tree, `branchesActionMu` | check, confirm, switch | git, processes | a long reading before an act | a switch is what was confirmed |
| list of the branches | nothing but the request | load, search, resolve, build | git, GitHub | a dozen calls by name while others move refs | what the list says is so |
| `project/local_private.go` | `.gitignore`, index, HEAD | measure, switch, create | git | a measurement in several calls | what is said is so |
| documents in Kephalaion | collection, replica, request ids | create, edit, done, reopen, delete | node and hub | lost and repeated requests, lagging replica | once, and what is reported happened |
| `project/docswork.go` | working directory and record | checkout, publish | Kephalaion | several steps, each may fail | nothing unpublished or unseen is lost |
| instruction files | CLAUDE.md, AGENTS.md, include | set up, repair | files, git | a matrix of cases, two runs, kills | no text is lost; one source |
| `links`, `sharelink`, `sharedir` | links of an assistant's directory | check, apply, heal | files | several healers, exchange of the target | nothing of the user goes; it converges |
| configuration | K-PLAYBOOK.yaml and its backups | read, edit, move, reset | files | edits by line, nothing locks | an edit changes its value only |
| MCP registration | three configuration files | check, apply, repair | git, assistants | host and container write one file | automatic writes are narrow; no ping-pong |
| upgrade, installation | clone, target, server | pull, install, restart | git, script | several calls, releases in between | forward only; says what it did |
| `githubaccess` | the person's file, environments | run, test, init | git, ssh, `gh` | nested rewrites of addresses | a command uses the access it names |
| `inventory` | the document of the inventory | plan, read, group, write | node and hub | files change under the reading | nothing is passed over; deviations are true |
| preflight, context, tasks, links of documents | none kept | readings | files | none | conversions |
| SARIF conversion, parsers of ecosystems, YAML, Markdown, notify, health | none kept | conversions | – | none | conversions |
| VS Code extension, scripts, rules | – | – | the program's commands | outside of the Go program | – |

`PROJECT.json` lists the same parts with their sources, and the hazards of this
code at their lines with the properties that would catch them.

## 2 Plan

The order was by how much depends on a part and by how little a test reaches it.
All modules of the plan are written:

1. `GuiService` over the abstract `ServiceSlot`, with `GuiService_proof`.
2. `ReviewScan` and `ProgressEmitter`, with `ReviewScan_proof`; `ChatCommands`, proved in
   `GuiService_proof`.  The last two are composed in `MCServices`.
3. What changes the project and its repositories: `BranchSwitch`, `DocsPublish` and
   `KephDocs`, each with its proof, `LocalPrivacy`, `RegistryLinks` and `McpRegistration` with theirs in
   `ProjectFiles_proof`, `AssistantFiles` with `AssistantFiles_proof`, and `ConfigFile`.  Composed in `MCWorkspace`.
4. What the review tools, the pages and the commands say: `ReviewRuns` with its proof,
   `BranchList`, proved in `BranchSwitch_proof`, `ProgramUpgrade`, proved in
   `DocsPublish_proof`, `ReviewCatalogue`, `ReviewMerge`, `ChatPage`, `GithubAccess`, `Inventory` over `NpmRange`.  Composed in `MCReviews`.

Left for later: `Rekey` as a second path of `GuiService`, two scans at once on one
run directory (`MaxActive = 2` in `ReviewScan`), the count of candidate files with
its cache, the VS Code extension's lock, what `ConfigKept` says of readings
and lines as theorems, and the observations of section 6 as runs of their own.

## 3 Modules and the code

Conventions.  A variable that is no state of the program is marked `history` where it
is declared.  People, other programs and faults are actions with a bound in their
guard (`Max...`).  A form that a definition would have with a plausible mistake
stands before it, marked "defect"; nothing but the mutants of section 4 uses it.
`PROJECT.json`, "map", names the lines of each definition.

### `GuiService` and `ServiceSlot`

One project, hence one runtime file. A member of `Server` is one process
incarnation, named in the code by PID and start time together.

| Variable | Code |
|---|---|
| `file`, `half` | whose record lies under `Locate(key).File`; whether its content is written yet (between `OpenFile` and `Write` in `writeExclusive`) |
| `srv` | the place in `webui.Serve`: before `Register`, inside it, registered, after `signal.Notify`, shutting down (`closing`), `registration.Remove` has run (`withdrawn`), process over (`exited`), or killed |
| `build` | the program the process runs from (`Identity`) |
| `released` | `Registration.released` |
| `asked` | the context is cancelled, or a shutdown or signal is on its way to do so |
| `job`, `attempt` | the place in `installAndRestart`, `restartFrom`, `takeBack` |
| `pc`, `own` | the place in `runGUI`/`reuseOrStart`/`spawnServer` or `runStop`; the caller's `Identity` |
| `look`, `rec`, `kid` | the place and the locals of an `Inspect` or an `Await` |
| `robbed` | history: servers whose file another actor removed while they held it |
| `late` | history: servers whose update handler created the file after their `Remove` |
| `warned` | history: servers whose update handler told the page that the file could not be written back |
| `crashes` | the number of faults so far, bounded by `MaxCrashes` |

Each read, probe, file operation and signal is one action, so everything that
may happen between two of them does. `Registration.mu` makes `Release`,
`Reclaim` and `Remove` exclude one another; `ServeReturns`, which withdraws the file,
therefore waits while `job = "rewrite"`. Timeouts are a choice: a wait may end in its timeout whenever
its condition does not hold. A health probe may fail although the server
answers (`healthTimeout`), so `InspectProbe` may always say `Unresponsive`.
`SIGTERM` before `signal.Notify` kills the process and leaves its file
(`Terminate`). `Crash` may take any live server, a failed write is a fault too.

A shutdown that is asked for while an update runs waits for the handler until
`shutdownTimeout` and then returns without it.  From there to the end of the process
(`main.go:39-45`) the handler goes on, so the two are two steps: `ServeReturns` removes
the file (`webui/server.go:134`), `Exit` ends the process, each at any point of the
hand-over, and the child may be left behind.  Between them a server whose file is
released may still write it back (`late`); `gui_late_file` shows that this file stays.

Two constants bound the instances: `Updatable` are the servers that find a newer program
in the clone, `Leavable` those that the page or the idle watcher ends.

`Holds(s)` says what the code means by "registered": the server has created
the file and has neither released it nor ended. `ServiceSlot` is the promise
made about it: one slot, taken only while free.

Abstracted: `Install` is one step that fails or succeeds, a failing `Release`
has the effect of a failing installation, `net.Listen` always succeeds, a child
that fails before `Register` is a `Crash`, and an error of `http.Server.Serve`
other than the regular one is left out. A start time that cannot be read, which
`IdentityMatches` counts as a dead process by intention, and a reused PID within
its tolerance are left out as well.

### `ReviewScan`

Calls of `review.Execute` on one run directory. Each call has one entry
goroutine per selected entry (`phase`, `mem`, `failed`) and one worker per
runnable job (`worker`).

| Variable | Code |
|---|---|
| `disk` | `entries/<name>.json`: state and job list; `start` stands for no file (`EntryState`) |
| `raw` | `raw/<job>.sarif`: which call wrote it, and whether it is readable SARIF |
| `phase` | the place in `executeEntry` |
| `mem`, `failed` | `status.Jobs`, `writeErr` |
| `worker` | waiting for a token, offering `running`, in `runJob`, offering the outcome |
| `bare` | history: entries cleared whose file was not written since |

`Undeletable` are the entries whose old files cannot be removed.

The channel is unbuffered: an update is offered (`started` or an outcome) until
the entry takes it (`TakeStart`, `TakeOutcome`), and the token is given back
with the last one. `runJob` is its outcome: which file it may leave for which
state is `Leaves`. `WriteEntryStatus` renames a temporary file into place, so it
happens at once or not at all. `Begin` chooses any plan: how many jobs an entry
has, and which of them are skipped or failed at once, depends on the modules
found. `Kill` ends a call anywhere; a running scanner then leaves half a file or
none.

### `ProgressEmitter` and `ChatCommands`

| Variable | Code |
|---|---|
| `entryFile`, `at` | the state in `entries/<name>.json`; where each goroutine stands between the lines of `Report`, `emit`, the loop and `Stop` |
| `completed`, `stopped`, `recent` | the fields of `progressEmitter` under `mu`; `recent`: `lastSent` is less than the debounce back |
| `flight`, `reset`, `fired` | the notification under `sendMu`; the buffered channel; the timer with its value not yet received |
| `kept`, `running`, `unread` | `commandRuns`: which sessions have an entry, `chatCommandRuns` of each |
| `older` | which of two entries was changed first (`at`) |
| `command`, `stream`, `page`, `service` | the handler and its detached goroutine, `chatEventsHandler`, the page's watch and poll, `Serve` |

`recent` is a Boolean that the clock takes back, so a debounce may end at any moment
it has begun.  The wording of messages is left out, as is `sendNotification` failing:
it is logged and changes nothing.  The page of a command polls as long as its watch
lasts; answers may be lost (`MaxLost`).

### `ReviewRuns`, `ReviewCatalogue`, `ReviewMerge`

A run of the day has its directory (`runDir`: absent, directory, entries, cut, run),
`run.json`, status files, results and SARIF.  Each tool call is a row in `call`
and takes one file operation per step; assistants write artefacts and read merges
beside them, catalogues change, a call may break anywhere.  An end time is the
number of the merge it lies after; `mergedAt` is the time of `review-input.json`.
The scan of a tool entry, which is `ReviewScan`, is one step here.
`runOvertaken` marks behaviours in which an assistant wrote under a check or a
status; `misjudged` that an answer showed a run complete that was not.

`ReviewCatalogue` and `ReviewMerge` are functions of their input: a step takes one
of a bounded set of inputs and keeps what was computed from it, the properties are
reference definitions.  The severity of a finding comes from all sources of
`severity.go`, in its order: a level above warning, score or CVSS vector, the words of the
tool's own metadata, the catalogue, any level; in each the result before its rule.  A line is a record of kind, key and value, a path a
sequence of names, a text of an assistant a member of a small set; reading,
normalising, joining and comparing are written out.

### `BranchSwitch`

`RunCheck` with each reading that may block as a step of its own (`head`, refs, tree,
ignored files, sessions), `findSessions` over a process table with parents, the
confirmation, which repeats the check under `branchesActionMu`, `git switch` as git
does it, fetches and switches of another window, and people who edit, commit, start
sessions and change the allowed branches.  A window's record holds what its request
has read so far; the *stamp* is what the confirmed page showed.  The way over the
parents is at most 32 long in the code; here it may be as long as there are processes
(`Generation`).  The server is the top of its own tree.  Hints that never block are
left out.

### `BranchList`

One request for the list, from the first call of git to its answer, with each call as an
action of its own.  `refs` is the repository as git has it, `given` the settings and what
GitHub said, `listing` what `load` has read (`at`: the call that is next), `search` the
loop of `environments` with the locals of `deploymentBranch` and `resolveDeployment`.  A
commit is the set of commits it reaches, so "contains" is inclusion and a distance the
size of a difference; `Gone` is a ref that is not there.  Two ways stand beside each other:
with git 2.41 the distances come in the call of the refs, before it `--merged` is a call
of its own.  Others commit, fetch, delete, switch, add and remove remotes and worktrees
between any two calls; a call that bears the answer may fail (`CallFails`), every
other one is passed over as the code does it (`CallPassedOver`).  Where the code takes
"any remote", the model takes each.  `disturbed` is history.  Left out: the groups and the
order of the page, pull requests, upstreams, the age of the last fetch.

### `LocalPrivacy`

One directory of `.k-playbook-local/`, two pages and a creation.  `ignoreFile` is
its `.gitignore` (none, managed, torn, own, own that takes everything), `outerRule`
what other ignore files say; `indexed` and `committed` its files in index and HEAD.
Each call of git is a step, except that `rev-parse`, `check-ignore` and the reading of
the managed file are one, and `ls-files` and `ls-tree` another.  `disturbed` is
history: people, or another call, have changed the ground since the call began.
A page whose answer is fresh is not loaded again.  `EnsureLocal` at a start is the
same creation.

### `KephDocs` and `DocsPublish`

`KephDocs` has a hub with the collection and the request ids it remembers, a lagging
replica per machine, and requests on their way that may arrive late or be executed
while their answer is lost.  Hub and replica are external: they are modelled as the
client uses them.  The text of a document is the sequence of changes made to it.  A request
is sent again with its id (`refused`, `underway`); the hub remembers which ids it has
executed.
`DocsPublish` has the working directory, its record, and a publisher that goes
through its plan step by step, may be killed, and whose removals may stop half-way.
`harm` collects what publish must not do, with whether a removal had stopped half-way before.

### `AssistantFiles`, `RegistryLinks`, `ConfigFile`, `McpRegistration`

Files are what their readers tell apart: a document is a sequence of blocks and
lines of a few kinds, a link has a target that lives or not.  Each operation of the
file system is a step; several processes run at once; a write may be cut short by a
kill.  `AssistantFiles` has the matrix of CLAUDE.md and AGENTS.md,
notes when a run acts on another file than the one it has read, and knows the project's
lines from those nothing separates from an edited block ("loose", "behind"); `RegistryLinks`
the names of one assistant's directory over the exchange of the shared directory,
`ConfigFile` the line edits, the move from the earlier place, reset and backup, over files in which
`gh:` or the `tools:` below it may carry a comment;
`McpRegistration` the three files of the assistants in two environments.

### `ProgramUpgrade`, `ChatPage`, `GithubAccess`, `Inventory` and `NpmRange`

`ProgramUpgrade` runs several upgrades of command and page at once over clone, target,
server and releases that appear in between.  What a call does about the entries of the
old wrapper is told apart as in `update.go:164-175`: a correction that fails is a message,
not an error, and the call goes on; the history of a call says whether it has `tried`,
whether it has `told` that entries stay old, and whether its pull found the clone still
writable (`unclosed`) because a protection had failed.  The project step of the script has
its outcomes too: done, without kephalaion, failed, not asked.  `ChatPage` keeps events on the `wire`
and `loads` under way apart, so that each may overtake the other, and a run
(`script`) that makes its events in the order OpenCode does.  `GithubAccess` has the
layers of address rewrites of machine, caller and `run`, with git's rule that the
longest and among equals the first wins, and commands inside commands.  `Inventory`
reads its sources one after the other while people edit them; `NpmRange` is the check
of a version against a range, with numbers as naturals (the program's have 64 bits;
that width is not modelled).

### MC modules

`MCGuiService` and `MCReviewScan` add symmetry and the entry of each job.
`MCServices`, `MCWorkspace` and `MCReviews` put parts side by side that share no
state and no step: `turn` picks the part a behaviour is about, and the others stand
still.  Because a property of one part reads the variables of that part only, and
the initial states of the picked part are all of its own, such a run says of each
part what a run of its own would say; parts that stand still begin in one state, which
keeps the sets of initial states from multiplying.  Where parts do depend on each
other (a publish on the store, a merge on SARIF files, a page on events), the
one takes what the other leaves as an input of its own, every outcome included.

The composition that shares state is inside of the modules: servers, starts and stops
in `GuiService`; entry goroutines, heartbeat and tool call in `ProgressEmitter`; pages,
commands, streams and the server in `ChatCommands`; tool calls and assistants in
`ReviewRuns`; machines, node and hub in `KephDocs`.

`CHECK_DEADLOCK FALSE` stands in every cfg: invocations, calls, changes and faults are
finite in number, and the system rests when all have ended.

## 4 Runs

| Run | Question | Instance | States |
|---|---|---|---|
| `gui_crash` | `TypeOK`, `Ownership`, `FileGoesWithServer`, `ExitSparesOthers` through hand-over, take-back and a fault | 2 servers, both updating, a start, a stop, one after the other, 1 fault, 1 attempt | 8 139 949 |
| `gui_serial` | `NobodyRobbed`, `SlotSpec` (refinement), `GoneMeansClosed` for invocations after each other without update | 3 servers, 2 starts, a stop, 2 faults | 65 641 |
| `gui_handover` | `GapCloses`, `InvocationEnds` under fairness | 3 servers, one of them updating, a start against the hand-over, 1 fault (a failed write, a death), 1 attempt | 548 275 |
| `scan_rerun` | types, `NoEarlyEnd`, `NoStaleResult`, `DoneHasResult`, `ParallelBound`, `CallReturns` | an entry of 2 jobs, whose old files may stay, and one of 1 job, 2 calls, 2 tokens, 1 fault | 503 395 |
| `services` | `CountHonest`, `NotificationsOrdered`, `EmitterGoesOn`; `StoreKept`, `FailureShown`, `ShutdownReleases` | 2 scan entries, 1 update each, 1 failed write; 2 sessions, 2 commands, 1 stream, a store of 1, 1 lost answer | 94 607 |
| `workspace` | `ConfirmedSwitch`, `KephHonest`, `PublishKeepsWork`, `InstructionsKept`, `LinksKept`, `ConfigKept`, `RegistrationKept`, `PrivacyKept` | see below | 2 227 458 |
| `reviews` | `RunKept`, `CatalogueHonored`, `MergeHonest`, `UpgradeKept`, `PageTrue`, `GithubKept`, `InventoryTrue`, `ListingTrue` | see below | 2 936 177 |
| `gui_two_starts` | violated: `OneRegistered` | 2 starts at the same time | |
| `gui_stop_gap` | violated: `GoneMeansClosed` | a stop during a hand-over | |
| `gui_late_file` | violated: `NoFileAfterExit` | an update whose handler outlives the shutdown | |
| `scan_leftover` | violated: `NothingLeftOver` | 3 calls, a file that cannot be removed | |
| `docs_half_removed` | violated: `OnlyUserDeletes` | 2 documents, a removal that stops half-way | |

**What the properties say.**

- `FileGoesWithServer`: a server whose `Remove` has run does not lie under the path, unless its
  update handler made the file after that; one that goes on serving after an update holds
  its file, unless it told the page otherwise.
- `GapCloses`: an update that has released the file ends, whatever became of the successor
  (another version, a death, a lost race), with the old server registered, asked to end,
  gone, or having told the page that it is not found until its restart
  (`restart.go:277-279`).
- `ConfirmedSwitch`: a switch that nobody disturbs since its request took the lock
  goes from and to the commits the page showed, with a clean tree, no operation under
  way, an allowed branch and no session in the project; none overwrites an ignored file.
- `KephHonest`: a change is made once at most, what is reported done is done, a refusal
  changed nothing.  `PublishKeepsWork`: publish overwrites nothing unseen, deletes only
  what the user removed and takes no unpublished work away.
- `InstructionsKept`, `LinksKept`, `ConfigKept`: no text, link or setting of the project
  is lost, and an undisturbed set-up or heal leaves nothing to mend.  A line edit sets the
  value it is for, its reader reads it, and other lines stay; of two edits at once one may
  lose its value, nothing else changes.
- `RegistrationKept`: what runs by itself writes tracked files only to replace the old
  wrapper; two environments do not rewrite each other; the two pages agree.
- `PrivacyKept`: what is said of a directory's privacy is so, a switch keeps its word,
  nobody's rules and no wish are lost.
- `RunKept`: a run keeps its entries, a done entry its checked artefact, a status shows
  nothing complete that is not.  `CatalogueHonored`, `MergeHonest`: header, check, job
  plan, groups, ids, coverage and severity agree with reference definitions: a finding is
  rated by the best source that says something, and a decision that has ended covers
  nothing, unless its end stands behind its match.
- `UpgradeKept`: versions are ordered as semver orders them, upgrades go forward only,
  the clone is protected again.  Whichever of pull, correction, protection, download,
  script, set-up and new program fails: an upgrade that ends has set about the entries of
  the old wrapper (a second time only where the clone could not be protected) or says that
  the project was not brought up, and where entries stay old its report says so.
- `PageTrue`: once all has arrived the page shows what OpenCode has, except where the
  history says what was overtaken or lost.
- `EmitterGoesOn`: a heartbeat that is due is sent while the scan goes on, and `Stop` returns.
- `ListingTrue`: when nobody moved anything meanwhile and no call failed, head, "merged", the
  source and the stand of each deployment and every finding are as they are in the
  repository, and the list is refused only where the default branch of the remote is gone;
  told in one call, distance and "merged" fit their commits whoever disturbs, and no branch
  of today's work is named as a source.
- `GithubKept`: a command uses the access it names and no other repository's way changes;
  a test calls ok only what GitHub allows.  `InventoryTrue`: ranges agree with the
  definition of npm's, every source is read or told of, deviations are true, the
  document replaces only what was read.

**Bounds.**  The protocol of the runtime file is between the server that holds it, the
one that wants it and an actor that looks; two servers and one invocation of each kind
make every pair of them meet, the third server of `gui_serial` lets a replacement be
replaced.  One attempt of `takeBack` reaches each of its branches;
the fault of `gui_handover` is a write-back that fails or a successor that dies, its third
server the one a start brings up, to which the successor loses.  TLC shows there that
attempts can be used up by a start that frees the path each time; this and the failed
write-back are the servers `GapCloses` names as `warned`.  For `ReviewScan`, three jobs over
two entries and two tokens: one job of an entry ends while another waits for a token, tokens
are scarce across entries, and the second call meets everything the first may have left.
For the notifications, two entries
and the heartbeat give three goroutines on two locks, and a store of one outcome is over
its limit with the second session.

In `workspace`: 2 branches, 2 remotes, a window beside another one, 2 processes and one
step of others, which is what a stamp can miss; 2 machines that number, edit and lose
requests (2 faults, 2 attempts); 2 documents with 2 edits, a foreign change and a kill; 2
processes that set up and repair, 3 runs, a failure; 2 healers over 2 names and one
change of the shared directory; 2 editors and a failure; 2 environments with 2 runs and a
change by others; 2 pages and one event between two calls of git.  In the part of
Kephalaion there are 3 operations and 2 faults, 4 events together, on 2 machines that are
alike: an overtaken creation needs all three operations and a fault.  A hazard of these
parts is a step of another between a reading and its use, a failure or kill between two
writes, or both; the bounds leave room for each and for a second run that meets what the first left.

In `reviews`: 2 callers with 2 calls, 2 merges and 2 events, starting before the run,
after its creation and with all but the triage reported and merged, so that "complete" is
reached; every catalogue, recipe and set of findings of the small input sets; 2 upgrades
with two faults (in one call, or one in each); a chat with 3 questions, 2 events on the wire and a break; 2 commands
inside or beside each other; 2 inventories with one change; a list with 3 branches, 2
remotes, 2 commits, an environment, every combination of settings and GitHub's answers, 2
clones (one follows a fork, one lost its remotes while their refs stayed), and one step of
others or failed call.

**Symmetry.**  The server and client names of the GUI runs without liveness, the calls of
`reviews` (callers, upgrades, accesses and inventories share their names), and the
environments, pages, machines, editors and set-ups of `workspace`, which share theirs, are interchangeable: no
definition orders or names them.  Runs with liveness properties have none.

**What the passing instances leave out.**  `FileGoesWithServer` excepts the file that a
handler makes after `Remove` (`gui_late_file`).  `NobodyRobbed` and `SlotSpec` hold for
invocations after each other only (`gui_two_starts` shows why); `NoStaleResult` speaks of
entries whose files can be removed (`scan_leftover`); `PublishKeepsWork` excepts removals that stopped
half-way (`docs_half_removed`).  Exceptions of the others are named in their modules as
history: an artefact written under a check, a write in place that broke off or replaced
what it had not seen, a file cut short by a kill.  They are what the code does not
protect against, and section 6 lists them.

**Mutants.**  Each property of a passing run is violated when one definition is replaced
by its defect (`PROJECT.json`, "mutants"): a file created without `O_EXCL`, a count taken
before the write, a stamp not compared, an id per attempt, an end of a block taken for
the end of the file, `check-ignore` without `--no-index`, the files instead of the times
deciding that a triage is current.

**Fairness.**  In the GUI runs each server process, update handler, invocation, entry
goroutine and call takes a step it can take for ever (weak fairness: operating system and
Go scheduler; one condition for each call of `review.Execute`, and for hand-overs one for each server
that updates).  An update and a request for shutdown are never forced.  A scanner ends, at
the latest by its timeout.  `SuccessorTimeout` and `ChildTimeout` are strongly fair: the
loop in `Await` compares with its deadline after every round, so it passes the deadline
even if actors come by infinitely often.  `Acquire` is strongly fair: a send on a full
buffered channel waits in a queue.  In `services`, goroutines that can go on do; a lock
that is free again and again is got (`sync.Mutex` hands over after a millisecond), hence
strong fairness of the steps that take `mu` or `sendMu`; a `select` whose channel stays
closed takes it sooner or later; timers run out; a page polls while its watch lasts; a
command under way ends when the program is closed under it, and is not forced before.

## 5 Proofs

Eight modules hold 50 theorems and the lemmas they rest on; `PROJECT.json` lists the
theorems.  They prove safety properties of `GuiService` and `ReviewScan` that the runs
check, and for fifteen more parts the property their run checks, for every value of the
constants.

### `GuiService_proof`

`GuiService_proof` proves for any sets of servers and invocations, any number
of faults, of attempts and of invocations at the same time:

| Theorem | States |
|---|---|
| `Invariance` | `IInv` is invariant |
| `TypeCorrect` | `TypeOK` |
| `FileOwnership` | `Ownership` |
| `ExitRemovesFile` | `FileGoesWithServer` |
| `SecondServerTakesRobbery` | while nobody is robbed, at most one server is registered |
| `SlotUnlessRobbed` | a behaviour in which nobody is robbed implements `ServiceSlot` |
| `ExitHarmsNobody` | `ExitSparesOthers` |

Assumptions: `NamesDiffer` (servers, starts, stops and `None` are different
things), `BoundsAreNumbers` and `ChosenAreServers`.

`Ownership` is not inductive. That a server which has its file back is the one
under the path depends on where its update handler stands: `Reclaim` creates the
file while `released` is still true, and `released` is only true once `Release`
has run. `IInv` therefore has two parts besides the types:

- `Shape` – a handler past `install` runs in a live server; from `spawn` to
  `rewrite` the server is released; a server that has not registered has neither
  a handler nor a release; nobody is his own child; the attempts of `takeBack`
  are left over where it looks at the file; a server that serves on without its file is
  asked to end or has told the page (`Findable`, the second half of `FileGoesWithServer`);
- `Placed` – the file lies with its holder, unless the holder was robbed
  (`Ownership`), a server before its registration never lies there, and one that left
  only where its handler made the file late.

`Placed` is where `O_EXCL` enters: only `CreateFile`, from an empty path,
puts a name there, and only `Unlink` takes one away, which makes a robbed server
of any other holder. `NextIInv` goes through the actions, one step each, first
for types, then `Shape`, then `Placed`.

For the refinement, `HoldersStep` shows that each step adds one holder, takes one
away or leaves them alone (`Gains`, `Loses`, `SameHolders`), and `HoldersUnique`
that unrobbed holders are at most one, because each of them is `file`. So a gain
happens while nobody holds and a loss leaves nobody. The two together say that
the second registered server of `gui_two_starts` has exactly one cause, the
removal of a live server's file by another actor; that no actor does so when
invocations follow each other is the part TLC checks (`NobodyRobbed`).

The page of a chat session has its proof in the same module.  `PageIsTrue` holds for any
number of questions, of events on their way and of breaks, from `ChatPageAssumption`, and
`RequestsAreTrue` for the requests alone.  `PageTrue` speaks of the moment when all has
arrived; the invariants say what holds before.  `RequestInv`: of each request the last
event on its way says how it stands (`LastIsNow`), an answer that is out of date is outrun
by an event (`AllDated`), and the page is in step, or noted not to be, or about to be loaded
again (`InStep`).  `MessagesInv`, while a run goes on: the wire holds its last events in order
(`WireOrder`), what is not on its way has reached the page (`SeenAll`), and each part of the
conversation is right with the events on their way counted in (`HeadsFit`, `TextFits`,
`RunFits`, `BubbleFits`).  That an event which arrives sets right what it should rests on the
order in which a run makes its events (`ComingOrder`); that a load may replace the whole
conversation rests on its not being older than what has arrived (`FirstIs`).

The commands of the chat have their proof in the same module.  `OutcomesAreKept` holds for any
sessions, commands and streams and any limit, from `ChatBounds` and `SomeSession`.  `ChatInv`
is the types, `NothingForgotten` and `StoreSound`: a session with a running command or an
untold failure (`Busy`) has an entry, and the idle entries are within the limit.
`NothingForgotten` does not stand alone: it speaks of failures owed to a page and of running
commands, while an entry goes by what the store knows.  `TrimSpares` says what one trimming
does, from the cardinalities of what stays and what goes; the rest is one lemma for each way
the store changes and one for each kind of step.

### `ReviewScan_proof`

`ReviewScan_proof` proves for any entries, jobs, calls, tokens and number of
faults:

| Theorem | States | Needs |
|---|---|---|
| `TypeCorrect` | `TypeOK` | – |
| `TokensBound` | `ParallelBound` | – (any number of calls at the same time) |
| `EndStateIsLast` | `NoEarlyEnd` | `MaxActive = 1` |
| `DoneIsReadable` | `DoneHasResult` | `MaxActive = 1` |
| `NoLeftovers` | `NoStaleResult` | `MaxActive = 1` |

Assumptions: `EntryOfJobs` (every job has its entry), `NoneIsNoCall`,
`ParallelIsPositive` and `ScanBounds`. `MaxActive = 1` is a
hypothesis of the theorems that need it: nothing in `review.Execute` keeps two
calls on one run directory apart.  Any entries may be `Undeletable`; `NoLeftovers`
speaks of the others, and `scan_leftover` shows what a file that stays does.

None of the last three is inductive. An end state is written from the list in
memory, so `Pending` ties that list to the workers (a worker that has not given
its outcome is listed as start or running), and `WorkersHome` ties the workers to
their entry (it takes their updates as long as there is one). A result is read
long after its worker left, so `WorkerHasResult`, `ListHasResult` and
`NotDoneYet` carry it from the worker to the list to the file, and `BeginIsBare`
says that nothing old is listed when a plan begins. For `NoStaleResult` the
clearing has to find everything: `FilesListed` says that every file under `raw/`
belongs to a listed job, and `SameList` keeps the list in memory and the one in
the file about the same jobs, also after failed writes. `ParallelBound` follows
from `Acquire` being the one step that adds a holder, by the cardinality theorems.

The notifications of progress have their proof in the same module.  `EmitTypes`,
`CountIsHonest` and `NotificationsStayOrdered` hold for any number of entries, from
`ActorsDiffer`, `FiniteEntries` and `EmitterBounds`.  The invariant `EInv` adds to the types: `SenderKnown` (who is in the middle of a notification holds
`sendMu`), `StopsLast` (after `stopped` only the caller's notification is left),
`CountedStay` (a counted entry has ended, and its file says so from then on),
`LastReported` and `ToldInOrder` (what is under way is at least what was told, and at most
what is counted).  That a count never falls needs them together: the count is taken
under `mu`, sent under `sendMu`, and between the two others may count.

### `ProjectFiles_proof`

`PrivacyIsKept` holds for any pages and any number of events, from `PrivacyAssumption`.  `PInv` is
the types, `WishNoted` and, per page, `Sound(t)`: the call is where its operation can
be (`Shaped`), the rules of others are spared by every step to come (`OwnSpared`), and
what an undisturbed call has measured still holds (`Undisturbed`).  The argument is
that whatever changes the ground disturbs every call that has measured it: one lemma per
kind of step shows that the others are either disturbed or see nothing change.

`LinksAreKept` holds for any names, healers, heals and faults, from `LinksAssumption`.  `LinksInv`
is the types, `PlacesIn` (links lie in directories), `HealShaped` and `FromIsNow` (where a heal
is says what it has behind it, and what it read is still so), `StillMended` (in an overlap
nobody disturbed and where nothing failed, whatever is to be mended is before some heal under way),
`OnlyOne` and `ReportsTruly` (a heal that has the registry for itself has changed exactly
what is behind it of the changes it computed).  `HealSettles` is `StillMended` when nobody heals.
The heal takes the entries in one order, so "before" needs the smallest name still
to do; that there is one is `SmallestIs`, from the well-foundedness of the naturals.

`RegistrationIsKept` holds for any environments, runs and events, from `McpAssumption`.
`McpInv` is the types, `DocSound` (only an object has an entry), `RunShaped`, `WrittenSettles` (what a run
wrote satisfies every scope of every run, so none writes it again) and, per run,
`UndisturbedRun`: while it has the registration for itself the targets are those it chose,
the file is as it was read until it is emptied, the write is one it may do of its own accord
(`MayWrite`), and every target behind Einrichten is in order.  `NeedsIsAllowed` ties the
decision to write to the command that is written: both ask whether git has the file.  That the
two pages agree is a consequence of `DocSound` alone.

`SettingsAreKept` holds for any number of processes that edit, move, create and reset at once: it is
the part of `ConfigKept` on what is lost with a file (`SettingsSurvive`).  `ConfigInv` adds that settings still at
the earlier place are alone there (`OldFileAlone`): no file is at the new place and no
operation is behind the move, so nothing takes the old file for a leftover and removes it.

### `DocsPublish_proof`

`PublishIsSafe` holds for any set of documents and any number of edits and foreign changes.
`WInv` has four parts: `GroundSound` (a revision is given once), `RecordSound` (what the
record notes of a document that has kept its revision fits the collection, was seen, and
is missing only where the user removed it), `CheckoutSound` and `PublishSound` (the same of
what a run has in memory and has still to do).  A plan is made from the record and carried
out later; that its steps harm nothing rests on the revision the store compares.

The upgrade has its proof in the same module.  `VersionsAreOrdered` is about every version
that can be read: "older" is a strict order in which any two differ; that the first place
of difference exists and is the only one (`FirstDifferenceIs`) carries it.  `UpgradeIsKept`
holds for any number of calls, faults and kills, from `UpgradeAssumption`, over the three
releases of the model.  `UpgradeInv` has two predicates on a call: `Shared` holds whatever
the others do (a call of the page holds the lock, what it puts in place is newer than the server it will replace,
one that is past its pull has set about the entries and says where they stay old, the project
step does so only where no pull has or the clone stayed open, and at the end it is done or the
report says why not), `Lone`
while nobody has begun beside it (what lies at the target and in the clone is still what it
has read, so what `--check` has said comes true).

### `BranchSwitch_proof`

`SwitchIsAsShown` proves the action property for any branches, remotes, windows and
processes, from `BranchAssumption`.  `BInv` says that no switch lost an ignored file and,
per window, `OneAtWork` (a confirmed request holds the lock from its first reading to
its answer) and `StillSo` (what an undisturbed request has read so far still holds, where
`Known` says which readings are behind it).  The step of the switch then has all
readings behind it.

The list has its proof in the same module.  `ListingIsTrue` holds for any branches, remotes,
commits, environments and events, from `ListAssumption` (names are strings, a commit
reaches itself and finitely many others).  `ListInv` is the types, `Read` (before the
refs are read nothing is said of them, and what was counted was counted against the
commit that stands there), `Searched` (sources are candidates or named) and, while nobody
has disturbed the request, `Heard` (what has been read is still so), `Underway` (what the
call under way works on) and `Waits` (each environment the search has behind it is settled, the one
it is at as far as it has come: `BestSoFar` says of the candidates tried that none which
contains the commit has fewer commits on top).  The two halves of the property rest on
different parts: what holds through disturbance needs `Read` and `Searched` alone.

### `ReviewRuns_proof`

`RunIsKept` holds for any number of callers, findings and events, from `RunBounds`.  `RInv` is the types,
`Creation` (one call makes the run, and from then on its entries are the ones it was made with),
`EntriesSound` (a done entry has its checked artefact, whoever reported it, and until
an assistant writes under a check the SARIF is what the check has left) and, per caller,
`ReportSound` and what a status under way has read: it misses no inconsistency of a
later report, because a report leaves none.

The accesses to GitHub have their proof in the same module.  `GithubIsKept` holds for any
number of calls, of commands inside commands and of edits, from `AccessAssumption` (a call is
neither "person" nor "nobody").  `AInv` is the types, `PageSound` and `InitSound` and, per call,
`RunSound` (choice, token and environment are those of what the call has judged) and `TestSound` (each
result is true of the access at its place).  `RunsThrough` rests on `LandsAtTarget`: whatever
layers of rewrites lie before, as long as none but shorter ones or ones to the same place fit,
git has a rule to take (`OneIsTaken`, from the well-foundedness of the naturals), and each it may
take leads to the target form; `OthersAsBefore` is the same set of rules for another repository.
`TestHonest` combines the two calls: what the test asked in its own environment is what a command
under `run` speaks with.

The version inventory has its proof there too.  `RangesMean` says for all versions, not for the
small numbers of the run, what each form of a range admits (caret, tilde, hyphen, partial versions,
comparisons), `PrereleasesNeedTheirOwn` that a preview version satisfies a range only where a
comparison of the range names one of the same version.  `InventoryIsTrue` holds for any number of
edits and foreign writes.  `InventoryInv` has three parts, by where the run is: `WhileReading`
(`Accounted`: every source the run has behind it is in the result or among its problems;
`RulesKept`, `SchemaTold`, `ReadTold`), `OnceCollected`, and `WhileWriting` (what was fetched is
no newer than the hub and differs from the result).  The deviations rest on a property of the
plan: the lock and its manifest lie in one directory, and a directory that no setting names has
the environment "lokal" for both.

### `KephDocs_proof`

`KephSafe` holds for any machines, names, operations and faults.  `KephInv` has four
parts: `Types`; `Store` (no change is twice in a text or in two documents of one number, none
is lost without a trace, and one revision has one text in hub and replicas); `Calls` (what the
code puts into a call, by tool and operation; keys are given once; of the calls of one change
the hub would execute at most one); and `Operations`, which ties each operation to its
calls and its change: unmade while no call of it was executed, made where it reports success,
untouched where it reports a refusal or an unreachable node.  `Live` carries the argument: a
call is live as long as the hub would execute it, and an operation that reports "not done"
must leave no live call behind.  The one that may is a creation whose key was refused when it
was repeated; `Overtaken` is the set of these.

### `AssistantFiles_proof`

`InstructionsAreKept` holds for any processes, runs, failures and kills, and any number of
pieces of the AGENTS.md found at the beginning, from `FilesAssumption`.  The proof has two halves.

The documents.  `DocSafe` is what every document has that is found, written or left by a
refresh: each comment of k-playbook stands once and its block is begun, fences and imports are
in front of the blocks, an "old" line stands in the marked block, and something ends an edited
block before text follows it.  `DocsAreBuilt` shows it of what is joined from any number of
pieces, by the smallest number that would fail; the recursions are functions on the naturals,
whose equations `Iterated` provides.  `RefreshIs` says what a refresh keeps: the project's
lines, the imports, and text which nothing separates from an edited block, as long as nothing
ends that block (`Tailed`).  What it leaves is `Refreshed`: no outdated block, and of the
obsolete ones only those whose end nobody knows (`Stuck`), so a second refresh changes nothing
(`RefreshAgain`).  `RefreshLosesNothing` puts this together.

The runs.  None of the four parts of `InstructionsKept` is inductive, because each speaks of
the files and a run acts on what it has read before.  `FilesInv` adds, from the weakest to the
strongest: what holds of a run whatever the others do (`Beside`: nobody makes the include file
beside a misleading AGENTS.md, nobody writes through a link to a CLAUDE.md that is not there,
and what is renamed is a file or gone; `Through`: what is written through the link imports what
the file imports); what a real CLAUDE.md means for the plans of the setups (`Ever`: it has been
there from the beginning, so none of them creates an AGENTS.md without renaming); where the
texts are while a link is replaced or removed (`Texts`); and what a setup has reached that has
the project for itself (`Reached`), which a settled pair keeps (`StaysSettled`).  `PlanIs` reads
the matrix: a plan conflicts or is blocked just where the pair `Stands`, and removes and renames
just where AGENTS.md misleads and CLAUDE.md is real.  `Assembles` reduces a step to what it has
to respect, and there is one lemma for each action.

### Only model-checked

Liveness (`GapCloses`, `InvocationEnds`, `CallReturns`, `EmitterGoesOn`,
`FailureShown`, `ShutdownReleases`) needs fairness, which is beyond the prover.
`NobodyRobbed` and `GoneMeansClosed` hold for serial invocations, not for every value of
the constants.  What `ConfigKept` says of
readings and lines rests on computations over sequences of lines, each of which would take an
argument like that of the documents of `AssistantFiles`; `SettingsAreKept` proves the rest.
`ReviewMerge` and `ReviewCatalogue` have no constants: TLC goes through all inputs the modules
describe, so there is nothing to generalise over, and `ReviewCatalogue` has recursive operators besides.
The composed `TypeOK`s of the MC modules are conjunctions of the types of their parts; those
of the parts that are proved follow from the invariants above, each for its own specification.

## 6 Findings and observations

### Shown by a run

- **A half-written runtime file counts as orphaned** (`gui_two_starts`).  Two
  simultaneous starts: the first creates the file and has not written it; the
  second reads it, cannot, discards it and starts its own server.  Both are
  registered in their own eyes, one file is under the path.  The comment of
  `Register` excludes this.
- **A missing file is no closed listener** (`gui_stop_gap`).  A hand-over removes
  the file while the old server answers; a stop at that moment reports the end of
  a server that goes on answering, and its successor comes up afterwards.
- **A file outlives its server** (`gui_late_file`).  The shutdown waits `shutdownTimeout`
  for the update handler.  When the file is released then, `Remove` leaves the path alone,
  and before the process ends the handler may take the file back: it stays, although the
  comment at `server.go:103-105` says that it goes with the server.
- **A failed clearing forgets what it left** (`scan_leftover`).  The failure is
  written with an empty job list; the next call reads that list to find out what
  to clear, so the files stay.
- **A half-removed working directory deletes documents** (`docs_half_removed`).  The
  record is removed last; what is already gone reads as removed by the user, and the next
  publish deletes it in Kephalaion.

### Met while modelling, without a run of their own

Each is visible in a module, as an exception a property names, a property no run checks,
or a choice the model makes as the code does.

*Project files.*
Setting up writes at the dead target of a link (`NothingAtDeadTarget` in
`AssistantFiles`), although the comment on row 7 of the matrix excludes it.  Of two
set-ups that sort the same pair at once, the second removes the AGENTS.md the first has just made of
CLAUDE.md, and the text is gone (`overtaken`); two that overlap and fail may leave two sources.
Text that only the session block separates from findings somebody has edited goes with them when a
heading follows: the session block, obsolete itself, is removed first (`obsoleteRootBlocks`), and
then the findings reach to the heading, although the comment of `markedBlockEnd` says that what a project
has written behind a block stays (the lines "behind" in `AssistantFiles`).  A regular file in place of a namespace
directory is reported and stays.  A line edit drops comments behind the replaced block
(`CommentsKept` in `ConfigFile`; `gh.go:232` says they stay).  Where `tools:` carries a comment,
`SetGHStatus` appends a second block, because `gh.go:245` matches the bare line, and `ReadGH` goes on
reading the first: the status that was set is not heard (`StatusHeard`), the mistake
`remediation.go:240-242` names.  Two resets at once choose the same
free name and the second rename replaces the first backup, which may hold the only copy of
the settings (`BackupsKept`; `reset.go:116` says a backup is never overwritten).  A server entry in the form
of the wrapper with the installed command is rewritten at each start (`mcp.go:231-238`).

*Privacy.*
When the second measurement fails after the write, the switch answers "private" with
files still tracked; a time-out of `rev-parse HEAD` reads as "no commits"; a kill in the
first creation leaves `results/` without its rule for good; a `.gitignore` cut short by
a kill blocks the switch as "own content"; going public says git sees the content again
although an outer rule on its files still hides it; the handler says "Nicht umgeschaltet"
after the file was written; `-f` drops content that was only staged; creations that both
looked before may bring the rule back after a switch; a file a person puts in place
between decision and write is lost.

*Documents in Kephalaion.*
Reopening a todo renames it without naming a revision and then writes the text it read from
the replica with the revision of the renaming (`todos.go:471-483`): a change another machine
made meanwhile is overwritten, although `docs/mcp.md:624` says a change in between is
`stale_revision` and nothing is overwritten.  `DoneIsDone` names it (`overwritten`).  A first
copy of a creation may be executed after its repetition was refused, so a name is taken
by nobody's success.

*List of the branches.*
A HEAD of the remote that points to a branch which is gone (the page's own fetch prunes it)
makes the default branch "known" and the call of the refs fail, so with git 2.41 the whole
page is an error, although the comment at `list.go:466` promises "unknown with a reason".
"deployment-differs" also appears where the configured branch contains the deployed
commit and another candidate, or the branch of the name, wins; `environments.go:251` calls
that a false finding.  "Any remote" is the order of a map, so two calls for one branch may ask
two remotes.  A comparison that times out counts as "not contained" in the search.

*Reviews.*
A decision whose `expires` stands behind its match list does not expire: the parser takes the
line for a criterion (`EndedCoversNothing` in `ReviewMerge`, which `CoverageHonest` states with
this exception; `docs/review-runs.md:1021` has none).
Findings of one rule in one file without a line share a stable id.  `ValidateAuditContract`
is called by tests only, though comments rely on it (`evidence.go:339`, `run.go:134`).
The comment on the tools of a header names fewer forms than are read.

*Upgrade.*
The script's step for kephalaion runs after the program was put into place, so a time-out
there reports "nicht aktualisiert" and leaves the restart unasked.  A protection that fails makes the pull count as failed: the message of a failed correction is
lost, and the project step corrects a second time (`unclosed`).  A failing `chmod`
returns before the deferred protection is set up.  Of two updates at once one may protect
the clone under the other's pull; two installations with a release in between can put
the older program into place, which `Verify` then reports.

*Chat page.*
An answer of a load replaces newer events; events between the first snapshot and the
first connection are missing until the next load (`chat-session.js:200` reloads only after
a break); a bubble stays when its message was known before its name
(`chat-session.js:449-455`); "busy" set by the answer of the prompt may come after the
run's "idle"; a question answered while its session was being looked up is shown
until the next load.

*GitHub accesses.*
Of nested `run`s the outer rewrites come first and win among equals; the outer
`GIT_SSH_COMMAND` stays for an inner access over ssh of the host, and applies to other
repositories too; a rewrite of the machine for exactly the same address wins; the test of a
public access asks unpinned, so the machine's key may answer.  A page's rows go by their
index after the file was edited; of two page tests the last answer stands; a failed write
of the template can remove a file saved in that instant.

*Inventory.*
Manifest and lock are read at different times, so a violation may be one of neither
moment; two images of one tag with different digests are one statement; numeric
prerelease parts with leading zeros do not compare the same way round; a lost answer
of the hub reports that nothing was written; a lagging replica answers
"Unverändert" about an older document; the late answer of the first load enables the run
button during a run.

## 7 What is not modelled

Components with status `not_modelled` convert data without keeping state (SARIF
conversion, the parsers of ecosystems, remotes and configuration of `gh`, small helpers),
only read and pass on (readings and texts of the project, the MCP tools and
handlers that call one function that is modelled elsewhere, the MCP status pages), run
once (migrations), or are one call of an external program (the VS Code extension, the
Kephalaion binary).  The command line is dispatch and output.

Inside of modelled parts are left out: `Rekey` and `StatusForDir` of `guiproc`; a reused
PID within the tolerance of its start time; two scans at once on one run directory; the
count of candidate files; the Markdown view of a merge; one directory stands for those of
the assistants in `RegistryLinks`; titles, aborting, the removal of messages and the lists
of agents and commands of a chat page; globs, link walks and workspaces of the
inventory, and the 64 bits of its numbers; wording, pages and layout everywhere.

Each hazard in `PROJECT.json` has a property. Three that were seen and have none stand
here: `Rekey` moves the file of a running server while others look at
the old path (`guiproc.go:360`); a reused PID within three seconds passes for the server
(`process.go:30`); two review calls that select the same entries write the same files
(`scan.go:114`).
