----------------------------- MODULE BranchSwitch -----------------------------
(***************************************************************************)
(* Switching the branch of the code repository from the page /branches     *)
(* (webui/branches.go, branches/check.go, sessions.go, actions.go).  The   *)
(* check reads the repository in many git calls, the confirmation repeats  *)
(* it and then runs git switch.  Terminals, editors and assistants work in *)
(* the same repository meanwhile, another window may fetch or switch.      *)
(***************************************************************************)
EXTENDS Naturals, FiniteSets

CONSTANTS
  Branch,      \* branch names
  Remote,      \* remotes
  MainRemote,  \* state.remote
  Window,      \* pages that switch
  Process,     \* processes of others
  Server,      \* the process of the server
  Nowhere,     \* no branch, no process, no window
  MaxOutside   \* bound: steps of others and of other windows

ASSUME BranchAssumption ==
  /\ Branch # {} /\ IsFiniteSet(Process) /\ MainRemote \in Remote /\ MaxOutside \in Nat
  /\ Server \notin Process /\ Nowhere \notin Branch \cup Process \cup Window

VARIABLES
  repo,       \* HEAD, refs, working tree, other worktree
  allowed,    \* git.switch and git.allow: the branches a switch may go to
  processes,  \* the process table: parent, AI session or MCP server, inside the project
  window,     \* what each page and its request know
  holder,     \* who has branchesActionMu
  outside     \* steps of others and of other windows so far

branchVars == <<repo, allowed, processes, window, holder, outside>>

\* Commit 2 follows commit 1 and versions a file that is ignored in commit 1.
Commit == 1..2
Ref    == 0..2    \* 0: there is no such ref
NoStamp == <<0, 0, TRUE, TRUE>>

RepoState ==
  [branch : Branch \cup {Nowhere}, commit : Commit,   \* HEAD, Nowhere: detached
   local : [Branch -> Ref], tracking : [Remote -> [Branch -> Ref]],
   dirty : BOOLEAN,      \* git status shows something
   ignored : BOOLEAN,    \* the file that commit 2 versions lies there, ignored
   busy : BOOLEAN,       \* a merge, rebase, ... is under way
   elsewhere : Branch \cup {Nowhere},   \* checked out in another worktree
   lost : BOOLEAN]       \* history: an ignored file was overwritten

ProcessState == [up : BOOLEAN, parent : Process \cup {Server, Nowhere},
                 session : BOOLEAN, inside : BOOLEAN]

Place == {"idle", "wait", "head", "refs", "tree", "ignored", "operation",
          "detached", "sessions", "shown", "switch", "after"}

WindowState ==
  [at : Place, post : BOOLEAN, target : Branch, remote : Remote \cup {Nowhere},
   allowed : SUBSET Branch,
   seen : Ref \X Ref \X BOOLEAN \X BOOLEAN,    \* the stamp of the check shown
   stamp : Ref \X Ref \X BOOLEAN \X BOOLEAN,   \* the stamp of the check under way
   from : Branch \cup {Nowhere}, found : {"local", "nothing"} \cup Remote,
   offered : BOOLEAN,
   disturbed : BOOLEAN]   \* history: others worked since the request took the lock

BranchTypeOK ==
  /\ repo \in RepoState
  /\ repo.branch # Nowhere => repo.commit = repo.local[repo.branch]
  /\ allowed \subseteq Branch
  /\ processes \in [Process -> ProcessState]
  /\ window \in [Window -> WindowState]
  /\ holder \in Window \cup {Nowhere}
  /\ outside \in 0..MaxOutside

BranchInit ==
  LET first == CHOOSE b \in Branch : TRUE IN
  /\ repo = [branch |-> first, commit |-> 1,
             local |-> [b \in Branch |-> IF b = first THEN 1 ELSE 0],
             tracking |-> [r \in Remote |-> [b \in Branch |-> IF b = first THEN 1 ELSE 2]],
             dirty |-> FALSE, ignored |-> FALSE, busy |-> FALSE,
             elsewhere |-> Nowhere, lost |-> FALSE]
  /\ allowed = Branch
  /\ processes = [p \in Process |-> [up |-> FALSE, parent |-> Nowhere,
                                     session |-> FALSE, inside |-> FALSE]]
  /\ window = [w \in Window |->
       [at |-> "idle", post |-> FALSE, target |-> first, remote |-> Nowhere,
        allowed |-> {}, seen |-> NoStamp, stamp |-> NoStamp, from |-> Nowhere,
        found |-> "nothing", offered |-> FALSE, disturbed |-> FALSE]]
  /\ holder = Nowhere
  /\ outside = 0

-----------------------------------------------------------------------------
(* Processes.                                                              *)

Up(p) == p \in Process /\ processes[p].up
ParentOf(p) == IF Up(p) THEN processes[p].parent ELSE Nowhere

\* The way up: a process, its parent, ..., no further than maxAncestors.
Generation == 0..Cardinality(Process)
Ancestor(p) ==
  LET up[n \in Generation] ==
        IF n = 0 THEN ParentOf(p) ELSE ParentOf(up[n - 1])
  IN up

SessionAbove(p) ==
  \E n \in Generation : Up(Ancestor(p)[n]) /\ processes[Ancestor(p)[n]].session

\* ownHelper: below the server, with no session on the way up to it.
OwnHelper(p) ==
  /\ ~processes[p].session
  /\ \E n \in Generation :
       /\ Ancestor(p)[n] = Server
       /\ \A m \in 0..(n - 1) :
            ~(Up(Ancestor(p)[m]) /\ processes[Ancestor(p)[m]].session)

\* findSessions, the blocking ones: sessions and what a session has started.
BlockingProcesses ==
  {p \in Process : /\ Up(p) /\ processes[p].inside /\ ~OwnHelper(p)
                   /\ processes[p].session \/ SessionAbove(p)}

-----------------------------------------------------------------------------
(* The check: RunCheck, one action for each time the repository is read.   *)

WindowAt(w, place) == window[w].at = place

\* A step of a request that changes nothing but what the request knows.
Learns(w, new) ==
  /\ window' = [window EXCEPT ![w] = new]
  /\ UNCHANGED <<repo, allowed, processes, holder, outside>>

\* GET switch-check.
AskCheck(w) ==
  /\ WindowAt(w, "idle") \/ WindowAt(w, "shown")
  /\ \E target \in Branch, remote \in Remote \cup {Nowhere} :
       Learns(w, [window[w] EXCEPT !.at = "head", !.post = FALSE, !.target = target,
                                   !.remote = remote, !.allowed = allowed,
                                   !.offered = TRUE])

\* POST switch with the stamp of the check.  The project and its settings are
\* read first, then the request waits for the lock.
Confirm(w) ==
  /\ WindowAt(w, "shown") /\ window[w].offered
  /\ Learns(w, [window[w] EXCEPT !.at = "wait", !.post = TRUE, !.allowed = allowed])

Lock(w) ==
  /\ WindowAt(w, "wait") /\ holder = Nowhere
  /\ holder' = w
  /\ window' = [window EXCEPT ![w].at = "head", ![w].disturbed = FALSE,
                              ![w].offered = TRUE]
  /\ UNCHANGED <<repo, allowed, processes, outside>>

\* readHead; checkPolicy uses the settings of the request.
CheckHead(w) ==
  /\ WindowAt(w, "head")
  /\ Learns(w, [window[w] EXCEPT
       !.at = "refs", !.from = repo.branch, !.stamp[1] = repo.commit,
       !.offered = @ /\ window[w].target \in window[w].allowed])

\* resolveTarget: a local branch, the remote that was asked for, the only remote
\* that has the branch, the remote that counts.
Resolve(name, asked) ==
  LET having == {r \in Remote : repo.tracking[r][name] # 0}
      chosen == IF asked # Nowhere THEN {asked} \cap having
                ELSE IF Cardinality(having) = 1 THEN having
                ELSE {MainRemote} \cap having
  IN IF repo.local[name] # 0 THEN "local"
     ELSE IF chosen = {} THEN "nothing" ELSE CHOOSE r \in chosen : TRUE

TargetCommit(name, found) ==
  IF found = "local" THEN repo.local[name]
  ELSE IF found = "nothing" THEN 0 ELSE repo.tracking[found][name]

\* readRefs and readWorktrees; checkTarget and checkWorktree.
CheckRefs(w) ==
  LET name  == window[w].target
      found == Resolve(name, window[w].remote) IN
  /\ WindowAt(w, "refs")
  /\ Learns(w, [window[w] EXCEPT
       !.at = "tree", !.found = found, !.stamp[2] = TargetCommit(name, found),
       !.offered = /\ @ /\ found # "nothing"
                   /\ found = "local" => name \notin {window[w].from, repo.elsewhere}])

CheckWorkingTree(w) ==
  /\ WindowAt(w, "tree")
  /\ Learns(w, [window[w] EXCEPT !.at = "ignored", !.stamp[3] = repo.dirty,
                                 !.offered = @ /\ ~repo.dirty])

\* checkIgnored, IgnoredConflicts: what lies there against the tree of the target.
CheckIgnored(w) ==
  LET tree == TargetCommit(window[w].target, window[w].found) IN
  /\ WindowAt(w, "ignored")
  /\ Learns(w, [window[w] EXCEPT !.at = "operation", !.stamp[4] = repo.ignored,
                                 !.offered = @ /\ ~(repo.ignored /\ tree = 2)])

CheckOperation(w) ==
  /\ WindowAt(w, "operation")
  /\ Learns(w, [window[w] EXCEPT !.at = "detached", !.offered = @ /\ ~repo.busy])

\* Some branch contains the commit.
Reachable(c) ==
  \/ \E b \in Branch : repo.local[b] >= c
  \/ \E r \in Remote, b \in Branch : repo.tracking[r][b] >= c

CheckDetached(w) ==
  /\ WindowAt(w, "detached")
  /\ Learns(w, [window[w] EXCEPT
       !.at = "sessions",
       !.offered = @ /\ (window[w].from # Nowhere \/ Reachable(window[w].stamp[1]))])

\* A defect: the stamp that came with the request is not compared.
CheckSessionsAnyStamp(w) ==
  LET ok == window[w].offered /\ BlockingProcesses = {} IN
  /\ WindowAt(w, "sessions")
  /\ window' = [window EXCEPT
       ![w].at = IF window[w].post /\ ok THEN "switch" ELSE "shown",
       ![w].offered = ok, ![w].seen = IF window[w].post /\ ok THEN @ ELSE window[w].stamp]
  /\ holder' = IF window[w].post /\ ~ok THEN Nowhere ELSE holder
  /\ UNCHANGED <<repo, allowed, processes, outside>>

\* The last reading that can block.  A GET shows the check with its stamp; a POST
\* goes on only where nothing blocks and the stamp is that of the check shown.
CheckSessions(w) ==
  LET ok     == window[w].offered /\ BlockingProcesses = {}
      passes == window[w].post /\ ok /\ window[w].stamp = window[w].seen IN
  /\ WindowAt(w, "sessions")
  /\ window' = [window EXCEPT
       ![w].at = IF passes THEN "switch" ELSE "shown",
       ![w].offered = ok, ![w].seen = window[w].stamp]
  /\ holder' = IF window[w].post /\ ~passes THEN Nowhere ELSE holder
  /\ UNCHANGED <<repo, allowed, processes, outside>>

-----------------------------------------------------------------------------
(* git switch.                                                             *)

\* What git itself refuses, with --no-overwrite-ignore.
GitRefuses(name, found) ==
  \/ repo.busy
  \/ TargetCommit(name, found) = 0
  \/ found = "local" /\ repo.elsewhere = name
  \/ found # "local" /\ repo.local[name] # 0
  \/ repo.ignored /\ TargetCommit(name, found) = 2

\* A defect: a branch of a remote is checked out without a local branch for it.
GitSwitchWithoutLocal(w) ==
  LET name == window[w].target
      found == window[w].found
      to == TargetCommit(name, found) IN
  /\ WindowAt(w, "switch")
  /\ window' = [window EXCEPT ![w].at = "after"]
  /\ \/ ~GitRefuses(name, found) /\ repo' = [repo EXCEPT !.branch = name, !.commit = to]
     \/ UNCHANGED repo
  /\ UNCHANGED <<allowed, processes, holder, outside>>

\* git switch as the check named it: executed, refused, or killed by the time
\* limit before or after HEAD moved.
GitSwitch(w) ==
  LET name == window[w].target
      found == window[w].found
      to == TargetCommit(name, found) IN
  /\ WindowAt(w, "switch")
  /\ window' = [window EXCEPT ![w].at = "after"]
  /\ \/ /\ ~GitRefuses(name, found)
        /\ repo' = [repo EXCEPT !.branch = name, !.commit = to, !.local[name] = to,
                                !.lost = @ \/ (repo.ignored /\ to = 2)]
     \/ UNCHANGED repo
  /\ UNCHANGED <<allowed, processes, holder, outside>>

\* The state afterwards is read, the answer sent.
Answered(w) ==
  /\ WindowAt(w, "after")
  /\ holder' = Nowhere
  /\ window' = [window EXCEPT ![w].at = "idle", ![w].seen = NoStamp]
  /\ UNCHANGED <<repo, allowed, processes, outside>>

-----------------------------------------------------------------------------
(* The other windows, and what others do to the repository and the project. *)

Counted == outside < MaxOutside /\ outside' = outside + 1

\* Another window fetches (a tracking branch moves or is pruned) or switches;
\* both hold the lock from the check to the end.
OtherWindow ==
  /\ Counted /\ holder = Nowhere
  /\ \/ \E r \in Remote, b \in Branch, c \in Ref :
          repo' = [repo EXCEPT !.tracking[r][b] = c]
     \/ \E b \in Branch \ {repo.branch} :
          /\ repo.local[b] # 0 /\ ~GitRefuses(b, "local")
          /\ repo' = [repo EXCEPT !.branch = b, !.commit = repo.local[b]]
  /\ UNCHANGED <<allowed, processes, window, holder>>

Outside ==
  /\ Counted
  /\ window' = [w \in Window |-> [window[w] EXCEPT !.disturbed = TRUE]]
  /\ UNCHANGED holder

OthersEdit ==
  /\ Outside
  /\ \E dirty, ignored, busy \in BOOLEAN, elsewhere \in Branch \cup {Nowhere} :
       LET new == [repo EXCEPT !.dirty = dirty, !.ignored = ignored,
                               !.busy = busy, !.elsewhere = elsewhere] IN
       /\ Cardinality({x \in {<<1, dirty # repo.dirty>>, <<2, ignored # repo.ignored>>,
            <<3, busy # repo.busy>>, <<4, elsewhere # repo.elsewhere>>} : x[2]}) = 1
       /\ ignored => repo.commit = 1
       /\ elsewhere # Nowhere => elsewhere # repo.branch /\ repo.local[elsewhere] # 0
       /\ repo' = new
  /\ UNCHANGED <<allowed, processes>>

\* A commit, a branch, or a checkout on the command line, also of a bare commit.
OthersCommit ==
  /\ Outside
  /\ ~repo.ignored
  /\ \/ /\ repo.commit = 1
        /\ repo' = IF repo.branch = Nowhere THEN [repo EXCEPT !.commit = 2]
                   ELSE [repo EXCEPT !.commit = 2, !.local[repo.branch] = 2]
     \/ /\ repo.branch # Nowhere
        /\ repo' = [repo EXCEPT !.branch = Nowhere]
     \/ \E b \in Branch :
          /\ repo.local[b] = 0
          /\ repo' = [repo EXCEPT !.branch = b, !.local[b] = repo.commit]
  /\ UNCHANGED <<allowed, processes>>

\* A process starts below one that runs; it may be a session, and work inside.
OthersStart ==
  /\ Outside
  /\ \E p \in Process, new \in ProcessState :
       /\ ~processes[p].up /\ new.up
       /\ new.parent = Nowhere \/ new.parent = Server \/ Up(new.parent)
       /\ processes' = [processes EXCEPT ![p] = new]
  /\ UNCHANGED <<repo, allowed>>

OthersAllow ==
  /\ Outside
  /\ allowed' \in SUBSET Branch \ {allowed}
  /\ UNCHANGED <<repo, processes>>

-----------------------------------------------------------------------------
CheckStep(w) ==
  \/ CheckHead(w) \/ CheckRefs(w) \/ CheckWorkingTree(w) \/ CheckIgnored(w)
  \/ CheckOperation(w) \/ CheckDetached(w) \/ CheckSessions(w)

BranchNext ==
  \/ \E w \in Window :
       \/ AskCheck(w) \/ Confirm(w) \/ Lock(w) \/ CheckStep(w)
       \/ GitSwitch(w) \/ Answered(w)
  \/ OtherWindow
  \/ OthersEdit \/ OthersCommit \/ OthersStart \/ OthersAllow

BranchSpec == BranchInit /\ [][BranchNext]_branchVars

-----------------------------------------------------------------------------
(* Properties.                                                             *)

\* A session in the project: it is an AI session itself, or one started it and
\* the server does not stand between.
SessionInProject ==
  \E p \in Process :
    /\ Up(p) /\ processes[p].inside
    /\ \/ processes[p].session
       \/ \E n \in Generation :
            /\ Up(Ancestor(p)[n]) /\ processes[Ancestor(p)[n]].session
            /\ \A m \in 0..(n - 1) : Ancestor(p)[m] # Server

\* A switch that nobody disturbs since the request took the lock: it goes from
\* and to the commits that were shown, and everything it relies on holds.
Switching(w) == WindowAt(w, "switch") /\ window'[w].at = "after"
SwitchAsShown(w) ==
  LET seen == window[w].seen IN
  /\ repo.commit = seen[1]
  /\ TargetCommit(window[w].target, window[w].found) = seen[2]
  /\ ~repo.dirty /\ ~repo.busy /\ ~SessionInProject
  /\ repo.branch = Nowhere => Reachable(repo.commit)

\* The confirmed switch is the one that was checked, whatever the other window
\* does; and even where others work between the check and git, no ignored file
\* is overwritten, because git is called with --no-overwrite-ignore.
ConfirmedSwitch ==
  [][/\ ~repo'.lost
     /\ \A w \in Window :
          Switching(w) /\ ~window[w].disturbed => SwitchAsShown(w)]_branchVars
=============================================================================
