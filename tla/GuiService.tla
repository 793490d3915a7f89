----------------------------- MODULE GuiService -----------------------------
(***************************************************************************)
(* The local GUI service of k-playbook: one detached server process per    *)
(* project, found through a runtime file that is created with              *)
(* O_CREAT|O_EXCL.  Modelled are the server's life (internal/webui         *)
(* server.go), its runtime file (internal/guiproc), the hand-over to a     *)
(* newly installed program (internal/webui/restart.go), and the two        *)
(* commands that act on a server from outside: the argumentless            *)
(* `k-playbook` (cmd/k-playbook/gui.go) and `k-playbook stop` (stop.go).   *)
(*                                                                         *)
(* One project key, hence one path.  A server is one process incarnation:  *)
(* PID and start time together identify it, so a PID that is reused never  *)
(* confuses two of them.  Deadlines are left to chance: a wait may end in  *)
(* its timeout whenever its condition does not hold.  Processes differ by  *)
(* what they do only: a fresh one takes the next unused name.              *)
(***************************************************************************)
EXTENDS Naturals, FiniteSets

CONSTANTS
  Server,       \* the server processes that may ever be started
  StartClient,  \* invocations of `k-playbook`
  StopClient,   \* invocations of `k-playbook stop`
  None,         \* no server, no file
  MaxActive,    \* bound: invocations that run at the same time
  MaxCrashes,   \* bound: processes that die, or writes that fail
  MaxAttempts,  \* the attempts of takeBack: 3 in the code
  Updatable,    \* the servers that find a newer, installable program in the clone
  Leavable      \* bound: the servers that the page or the idle watcher ends

Client == StartClient \cup StopClient
Actor  == Server \cup Client

ASSUME NamesDiffer ==
  /\ None \notin Actor
  /\ Server \cap Client = {}
  /\ StartClient \cap StopClient = {}

ASSUME BoundsAreNumbers ==
  MaxActive \in Nat /\ MaxCrashes \in Nat /\ MaxAttempts \in Nat
ASSUME ChosenAreServers == Updatable \subseteq Server /\ Leavable \subseteq Server

VARIABLES
  file,      \* the server whose record lies under the path, or None
  half,      \* the file exists, its content is not written yet
  srv,       \* where each server process stands
  build,     \* the program each server runs from
  released,  \* Registration.released of each server
  asked,     \* the server's context is cancelled or its signal is queued
  job,       \* where the update handler of each server stands
  attempt,   \* the attempts of takeBack so far
  pc,        \* where each invocation stands
  own,       \* the program each invocation runs from
  look,      \* where the Inspect or the Await of an actor stands
  rec,       \* the record an actor read, by the process it names
  kid,       \* the child an actor spawned and waits for
  crashes,   \* faults so far
  robbed,    \* history: servers whose file another actor took away
  late,      \* history: servers whose handler created the file after Remove
  warned       \* history: servers whose handler told the page that the file
             \* could not be written back

fileVars == <<file, half, robbed>>
srvVars  == <<srv, build, released, asked>>
jobVars  == <<job, attempt, late, warned>>
cliVars  == <<pc, own>>
lookVars == <<look, rec, kid>>
vars     == <<fileVars, srvVars, jobVars, cliVars, lookVars, crashes>>

-----------------------------------------------------------------------------

Build      == {"old", "new"}
Status     == {"Absent", "Running", "OtherVersion", "Orphaned", "Unresponsive"}
SrvState   == {"unborn", "starting", "writing", "registered", "serving",
               "closing", "withdrawn", "exited", "killed"}
JobState   == {"none", "install", "spawn", "await", "reap", "reclaim",
               "rewrite", "inspect"}
CliState   == {"idle", "inspect", "replace", "spawn", "await", "recheck",
               "stopping", "sigterm", "sigwait", "remove",
               "opened", "stopped", "nothing", "failed"}
LookState  == {"idle", "read", "identify", "probe", "poll", "confirm"} \cup Status
Final      == {"opened", "stopped", "nothing", "failed"}

TypeOK ==
  /\ file \in Server \cup {None}
  /\ half \in BOOLEAN
  /\ srv \in [Server -> SrvState]
  /\ build \in [Server -> Build]
  /\ released \in [Server -> BOOLEAN]
  /\ asked \in [Server -> BOOLEAN]
  /\ job \in [Server -> JobState]
  /\ attempt \in [Server -> 0..MaxAttempts]
  /\ pc \in [Client -> CliState]
  /\ own \in [Client -> Build]
  /\ look \in [Actor -> LookState]
  /\ rec \in [Actor -> Server \cup {None}]
  /\ kid \in [Actor -> Server \cup {None}]
  /\ crashes \in 0..MaxCrashes
  /\ robbed \in SUBSET Server
  /\ late \in SUBSET Server
  /\ warned \in SUBSET Server

\* The process exists: signal 0 reaches it.
Alive(s) ==
  srv[s] \in {"starting", "writing", "registered", "serving", "closing", "withdrawn"}

\* The listener is open and /api/health, /api/shutdown are answered.
Answers(s) == srv[s] \in {"registered", "serving"}

\* The server takes the runtime file for its own: it has created it and has
\* neither released nor removed it.
Holds(s) ==
  /\ srv[s] \in {"writing", "registered", "serving", "closing"}
  /\ released[s] => job[s] = "rewrite"

Init ==
  /\ \E s \in Server \cup {None} :
       /\ s \in {None, CHOOSE t \in Server : TRUE}
       /\ file = s
       /\ srv = [t \in Server |-> IF t = s THEN "serving" ELSE "unborn"]
  /\ half = FALSE
  /\ \E b \in Build : build = [s \in Server |-> IF s = file THEN b ELSE "old"]
  /\ released = [s \in Server |-> FALSE]
  /\ asked = [s \in Server |-> FALSE]
  /\ job = [s \in Server |-> "none"]
  /\ attempt = [s \in Server |-> 0]
  /\ pc = [c \in Client |-> "idle"]
  /\ own = [c \in Client |-> "old"]
  /\ look = [a \in Actor |-> "idle"]
  /\ rec = [a \in Actor |-> None]
  /\ kid = [a \in Actor |-> None]
  /\ crashes = 0
  /\ robbed = {} /\ late = {} /\ warned = {}

-----------------------------------------------------------------------------
(* The runtime file.                                                       *)

\* guiproc.Remove by actor a: whatever lies under the path is gone.
Unlink(a) ==
  /\ file' = None
  /\ half' = FALSE
  /\ robbed' = robbed \cup {t \in Server \ {a} : file = t /\ Holds(t)}

\* A defect: the file is created without O_EXCL.
CreateOverwrites(s) == file' = s /\ half' = TRUE /\ UNCHANGED robbed

\* The first half of writeExclusive, when nothing lies under the path.
CreateFile(s) == file = None /\ file' = s /\ half' = TRUE /\ UNCHANGED robbed

\* The second half: the content goes to the file s created, which may have
\* been removed, or replaced by another, in the meantime.
FillFile(s) ==
  /\ half' = (half /\ file # s)
  /\ UNCHANGED <<file, robbed>>

\* A defect: a Registration that forgets that it was released.
WithdrawsAgain(s) == Unlink(s)

\* Registration.Remove and the removal in Release: not after a release.
Withdraw(s) == IF released[s] THEN UNCHANGED fileVars ELSE Unlink(s)

SetSrv(s, state) ==
  /\ srv' = [srv EXCEPT ![s] = state]
  /\ UNCHANGED <<build, released, asked>>

\* The process ends, in order or not, and its memory goes with it.
Die(s, state) ==
  /\ srv' = [srv EXCEPT ![s] = state]
  /\ build' = [build EXCEPT ![s] = "old"]
  /\ released' = [released EXCEPT ![s] = FALSE]
  /\ asked' = [asked EXCEPT ![s] = FALSE]

\* SIGTERM to server s.  Before signal.Notify it kills the process where it
\* stands; after it, it ends the server in order.  A server that is about to
\* end goes on; a signal that kills it behind signal.Stop is a Crash.
Terminate(s) ==
  CASE srv[s] \in {"starting", "writing", "registered"} -> Die(s, "killed")
    [] srv[s] = "serving" -> /\ asked' = [asked EXCEPT ![s] = TRUE]
                             /\ UNCHANGED <<srv, build, released>>
    [] OTHER -> UNCHANGED srvVars

\* Spawn: a fresh process from program b, child of actor a.
Fork(a, b) ==
  \E k \in Server :
    /\ srv[k] = "unborn" /\ k = CHOOSE t \in Server : srv[t] = "unborn"
    /\ srv' = [srv EXCEPT ![k] = "starting"]
    /\ build' = [build EXCEPT ![k] = b]
    /\ kid' = [kid EXCEPT ![a] = k]
    /\ look' = [look EXCEPT ![a] = "poll"]
    /\ UNCHANGED <<released, asked, rec>>

\* The actor's finding and child are locals of a call that is over.
Forget(a) ==
  /\ look' = [look EXCEPT ![a] = "idle"]
  /\ rec' = [rec EXCEPT ![a] = None]
  /\ kid' = [kid EXCEPT ![a] = None]

StartLook(a) ==
  /\ look' = [look EXCEPT ![a] = "read"]
  /\ UNCHANGED <<rec, kid>>

-----------------------------------------------------------------------------
(* Inspect and Classify, shared by every actor that looks at the file.     *)

InspectRead(a) ==
  /\ look[a] = "read"
  /\ IF file = None \/ half
       THEN /\ look' = [look EXCEPT ![a] = IF file = None THEN "Absent" ELSE "Orphaned"]
            /\ UNCHANGED rec
       ELSE /\ look' = [look EXCEPT ![a] = "identify"]
            /\ rec' = [rec EXCEPT ![a] = file]
  /\ UNCHANGED <<fileVars, srvVars, jobVars, cliVars, kid, crashes>>

InspectIdentity(a) ==
  /\ look[a] = "identify"
  /\ look' = [look EXCEPT ![a] = IF Alive(rec[a]) THEN "probe" ELSE "Orphaned"]
  /\ UNCHANGED <<fileVars, srvVars, jobVars, cliVars, rec, kid, crashes>>

\* A takeBack compares with the empty identity: never the same program.
Matches(a, s) == a \in Client /\ own[a] = build[s]

InspectProbe(a) ==
  /\ look[a] = "probe"
  /\ \/ look' = [look EXCEPT ![a] = "Unresponsive"]
     \/ /\ Answers(rec[a])
        /\ look' = [look EXCEPT ![a] =
                      IF Matches(a, rec[a]) THEN "Running" ELSE "OtherVersion"]
  /\ UNCHANGED <<fileVars, srvVars, jobVars, cliVars, rec, kid, crashes>>

\* One round of Child.Await: read the file, then probe the address in it.
AwaitRead(a) ==
  /\ look[a] = "poll"
  /\ file = kid[a] /\ ~half
  /\ look' = [look EXCEPT ![a] = "confirm"]
  /\ UNCHANGED <<fileVars, srvVars, jobVars, cliVars, rec, kid, crashes>>

AwaitMiss(a) ==
  /\ look[a] = "confirm"
  /\ look' = [look EXCEPT ![a] = "poll"]
  /\ UNCHANGED <<fileVars, srvVars, jobVars, cliVars, rec, kid, crashes>>

LookStep(a) ==
  \/ InspectRead(a) \/ InspectIdentity(a) \/ InspectProbe(a)
  \/ AwaitRead(a) \/ AwaitMiss(a)

-----------------------------------------------------------------------------
(* The server process: Serve.                                              *)

Register(s) ==
  /\ srv[s] = "starting"
  /\ CreateFile(s)
  /\ SetSrv(s, "writing")
  /\ UNCHANGED <<jobVars, cliVars, lookVars, crashes>>

\* fs.ErrExist: another start has won, this process steps back.
RegisterLoses(s) ==
  /\ srv[s] = "starting"
  /\ file # None
  /\ Die(s, "exited")
  /\ UNCHANGED <<fileVars, jobVars, cliVars, lookVars, crashes>>

RegisterWrites(s) ==
  /\ srv[s] = "writing"
  /\ FillFile(s)
  /\ SetSrv(s, "registered")
  /\ UNCHANGED <<jobVars, cliVars, lookVars, crashes>>

RegisterWriteFails(s) ==
  /\ srv[s] = "writing"
  /\ crashes < MaxCrashes /\ crashes' = crashes + 1
  /\ Unlink(s)
  /\ Die(s, "exited")
  /\ UNCHANGED <<jobVars, cliVars, lookVars>>

\* signal.Notify: from here on SIGTERM ends the server in order.
BeginServing(s) ==
  /\ srv[s] = "registered"
  /\ SetSrv(s, "serving")
  /\ UNCHANGED <<fileVars, jobVars, cliVars, lookVars, crashes>>

\* The shutdown button, or the idle watcher, which rests during an update.
AskStop(s) ==
  /\ s \in Leavable /\ Answers(s) /\ ~asked[s]
  /\ asked' = [asked EXCEPT ![s] = TRUE]
  /\ UNCHANGED <<fileVars, srv, build, released, jobVars, cliVars, lookVars, crashes>>

CloseListener(s) ==
  /\ srv[s] = "serving" /\ asked[s]
  /\ SetSrv(s, "closing")
  /\ UNCHANGED <<fileVars, jobVars, cliVars, lookVars, crashes>>

\* A defect: Remove does not wait for the mutex that a Reclaim holds.
ServeReturnsUnlocked(s) ==
  /\ srv[s] = "closing"
  /\ Withdraw(s)
  /\ SetSrv(s, "withdrawn")
  /\ UNCHANGED <<jobVars, cliVars, lookVars, crashes>>

\* Shutdown returns, at the latest after shutdownTimeout with a handler still
\* running; the deferred Registration.Remove waits for its mutex only.
ServeReturns(s) ==
  /\ srv[s] = "closing" /\ job[s] # "rewrite"
  /\ Withdraw(s)
  /\ SetSrv(s, "withdrawn")
  /\ UNCHANGED <<jobVars, cliVars, lookVars, crashes>>

\* main returns.  Until then a handler that Shutdown no longer waited for goes
\* on, and it ends wherever it stands, also in the middle of the file.
Exit(s) ==
  /\ srv[s] = "withdrawn"
  /\ Die(s, "exited")
  /\ job' = [job EXCEPT ![s] = "none"]
  /\ attempt' = [attempt EXCEPT ![s] = 0]
  /\ Forget(s)
  /\ UNCHANGED <<fileVars, late, warned, cliVars, crashes>>

Crash(s) ==
  /\ Alive(s)
  /\ crashes < MaxCrashes /\ crashes' = crashes + 1
  /\ Die(s, "killed")
  /\ job' = [job EXCEPT ![s] = "none"]
  /\ attempt' = [attempt EXCEPT ![s] = 0]
  /\ Forget(s)
  /\ UNCHANGED <<fileVars, late, warned, cliVars>>

ServerStep(s) ==
  \/ Register(s) \/ RegisterLoses(s) \/ RegisterWrites(s) \/ BeginServing(s)
  \/ CloseListener(s) \/ ServeReturns(s) \/ Exit(s)

-----------------------------------------------------------------------------
(* The update handler of a server: installAndRestart, restartFrom,         *)
(* takeBack.  updateMu admits one at a time.                               *)

Goto(s, state) ==
  job' = [job EXCEPT ![s] = state] /\ UNCHANGED <<attempt, late, warned>>

\* The handler answers the page; tells says whether it tells that the service
\* is not to be found any more.
Report(s, tells) ==
  /\ job' = [job EXCEPT ![s] = "none"]
  /\ attempt' = [attempt EXCEPT ![s] = 0]
  /\ warned' = (warned \ {s}) \cup {t \in {s} : tells}
  /\ UNCHANGED late

JobEnds(s) == Report(s, s \in warned)

StartUpdate(s) ==
  /\ s \in Updatable /\ build[s] = "old"
  /\ srv[s] = "serving" /\ job[s] = "none"
  /\ Goto(s, "install")
  /\ UNCHANGED <<fileVars, srvVars, cliVars, lookVars, crashes>>

InstallFails(s) ==
  /\ job[s] = "install"
  /\ JobEnds(s)
  /\ UNCHANGED <<fileVars, srvVars, cliVars, lookVars, crashes>>

Release(s) ==
  /\ job[s] = "install"
  /\ Withdraw(s)
  /\ released' = [released EXCEPT ![s] = TRUE]
  /\ Goto(s, "spawn")
  /\ UNCHANGED <<srv, build, asked, cliVars, lookVars, crashes>>

SpawnSuccessor(s) ==
  /\ job[s] = "spawn"
  /\ \/ Fork(s, "new") /\ UNCHANGED crashes
     \/ Fork(s, "old") /\ crashes < MaxCrashes /\ crashes' = crashes + 1
  /\ Goto(s, "await")
  /\ UNCHANGED <<fileVars, cliVars>>

SpawnSuccessorFails(s) ==
  /\ job[s] = "spawn"
  /\ Goto(s, "reclaim")
  /\ UNCHANGED <<fileVars, srvVars, cliVars, lookVars, crashes>>

\* The successor answers with its own PID and the expected version: the page
\* gets the new address and the old server shuts itself down.
HandOver(s) ==
  /\ job[s] = "await" /\ look[s] = "confirm"
  /\ Answers(kid[s]) /\ build[kid[s]] = "new"
  /\ asked' = [asked EXCEPT ![s] = TRUE]
  /\ JobEnds(s)
  /\ Forget(s)
  /\ UNCHANGED <<fileVars, srv, build, released, cliVars, crashes>>

SuccessorExited(s) ==
  /\ job[s] = "await" /\ look[s] = "poll" /\ ~Alive(kid[s])
  /\ Goto(s, "reclaim")
  /\ Forget(s)
  /\ UNCHANGED <<fileVars, srvVars, cliVars, crashes>>

SuccessorTimeout(s) ==
  /\ job[s] = "await" /\ look[s] = "poll"
  /\ Terminate(kid[s])
  /\ Goto(s, "reap")
  /\ look' = [look EXCEPT ![s] = "idle"]
  /\ UNCHANGED <<fileVars, cliVars, rec, kid, crashes>>

\* waitForChild: the child ends in time, or it is killed.
Reap(s) ==
  /\ job[s] = "reap"
  /\ IF Alive(kid[s]) THEN Die(kid[s], "killed") ELSE UNCHANGED srvVars
  /\ job' = [t \in Server |-> CASE t = s -> "reclaim"
                                [] t = kid[s] -> "none"
                                [] OTHER -> job[t]]
  /\ look' = [look EXCEPT ![kid[s]] = "idle", ![s] = "idle"]
  /\ rec' = [rec EXCEPT ![kid[s]] = None, ![s] = None]
  /\ kid' = [kid EXCEPT ![kid[s]] = None, ![s] = None]
  /\ UNCHANGED <<fileVars, attempt, late, warned, cliVars, crashes>>

\* Reclaim, when the path is free: the file comes back in two halves.
Reclaim(s) ==
  /\ job[s] = "reclaim" /\ attempt[s] < MaxAttempts
  /\ CreateFile(s)
  /\ job' = [job EXCEPT ![s] = "rewrite"]
  /\ late' = late \cup {t \in {s} : srv[t] = "withdrawn"}
  /\ UNCHANGED <<attempt, warned>>
  /\ UNCHANGED <<srvVars, cliVars, lookVars, crashes>>

\* A defect: the flag that says the file is released stays up.
ReclaimKeepsReleased(s) ==
  /\ job[s] = "rewrite"
  /\ FillFile(s)
  /\ JobEnds(s)
  /\ UNCHANGED <<srvVars, cliVars, lookVars, crashes>>

ReclaimWrites(s) ==
  /\ job[s] = "rewrite"
  /\ FillFile(s)
  /\ released' = [released EXCEPT ![s] = FALSE]
  /\ Report(s, FALSE)
  /\ UNCHANGED <<srv, build, asked, cliVars, lookVars, crashes>>

\* The old server goes on, no invocation finds it any more, and it says so.
ReclaimWriteFails(s) ==
  /\ job[s] = "rewrite"
  /\ crashes < MaxCrashes /\ crashes' = crashes + 1
  /\ Unlink(s)
  /\ Report(s, TRUE)
  /\ UNCHANGED <<srvVars, cliVars, lookVars>>

\* A defect: one attempt too many.
ReclaimExistsOnceMore(s) ==
  /\ job[s] = "reclaim" /\ attempt[s] <= MaxAttempts
  /\ file # None
  /\ Goto(s, "inspect")
  /\ StartLook(s)
  /\ UNCHANGED <<fileVars, srvVars, cliVars, crashes>>

ReclaimExists(s) ==
  /\ job[s] = "reclaim" /\ attempt[s] < MaxAttempts
  /\ file # None
  /\ Goto(s, "inspect")
  /\ StartLook(s)
  /\ UNCHANGED <<fileVars, srvVars, cliVars, crashes>>

\* A live process is registered: the old server steps down.
StepDown(s) ==
  /\ job[s] = "inspect"
  /\ look[s] \in {"Running", "OtherVersion", "Unresponsive"}
  /\ asked' = [asked EXCEPT ![s] = TRUE]
  /\ JobEnds(s)
  /\ Forget(s)
  /\ UNCHANGED <<fileVars, srv, build, released, cliVars, crashes>>

TryAgain(s) ==
  /\ job[s] = "inspect"
  /\ \/ look[s] = "Orphaned" /\ Unlink(s)
     \/ look[s] = "Absent" /\ UNCHANGED fileVars
  /\ attempt' = [attempt EXCEPT ![s] = @ + 1]
  /\ job' = [job EXCEPT ![s] = "reclaim"]
  /\ Forget(s)
  /\ UNCHANGED <<srvVars, late, warned, cliVars, crashes>>

GiveUp(s) ==
  /\ job[s] = "reclaim" /\ attempt[s] = MaxAttempts
  /\ Report(s, TRUE)
  /\ UNCHANGED <<fileVars, srvVars, cliVars, lookVars, crashes>>

JobStep(s) ==
  \/ InstallFails(s) \/ Release(s) \/ SpawnSuccessor(s) \/ SpawnSuccessorFails(s)
  \/ HandOver(s) \/ SuccessorExited(s) \/ SuccessorTimeout(s) \/ Reap(s)
  \/ Reclaim(s) \/ ReclaimWrites(s) \/ ReclaimExists(s)
  \/ StepDown(s) \/ TryAgain(s) \/ GiveUp(s)

-----------------------------------------------------------------------------
(* The invocations.                                                        *)

Move(c, state) == pc' = [pc EXCEPT ![c] = state] /\ UNCHANGED own

End(c, state) ==
  /\ pc' = [pc EXCEPT ![c] = state]
  /\ own' = [own EXCEPT ![c] = "old"]
  /\ Forget(c)

Active == {c \in Client : pc[c] \notin Final \cup {"idle"}}

Launch(c) ==
  /\ pc[c] = "idle"
  /\ Cardinality(Active) < MaxActive
  /\ pc' = [pc EXCEPT ![c] = "inspect"]
  /\ \E b \in Build : own' = [own EXCEPT ![c] = b]
  /\ StartLook(c)
  /\ UNCHANGED <<fileVars, srvVars, jobVars, crashes>>

\* RequestShutdown: accepted, or refused, or without an answer in time.
Accepted(s) == Answers(s) /\ asked' = [asked EXCEPT ![s] = TRUE]

\* A defect: the result of the wait is not looked at.
GoneAssumed(c) == TRUE

\* WaitForExit: the file is gone or the process is.
Gone(c) == file = None \/ ~Alive(rec[c])

\* reuseOrStart ends at once: the own server runs, or a live one is silent.
OpenOrRefuse(c) ==
  /\ c \in StartClient /\ pc[c] = "inspect"
  /\ \/ look[c] = "Running" /\ End(c, "opened")
     \/ look[c] = "Unresponsive" /\ End(c, "failed")
  /\ UNCHANGED <<fileVars, srvVars, jobVars, crashes>>

Replace(c) ==
  /\ c \in StartClient /\ pc[c] = "inspect" /\ look[c] = "OtherVersion"
  /\ \/ Accepted(rec[c]) /\ Move(c, "replace") /\ UNCHANGED lookVars
     \/ UNCHANGED asked /\ End(c, "failed")
  /\ UNCHANGED <<fileVars, srv, build, released, jobVars, crashes>>

ReplaceWaits(c) ==
  /\ pc[c] = "replace"
  /\ \/ Gone(c) /\ Move(c, "spawn") /\ UNCHANGED lookVars
     \/ ~Gone(c) /\ End(c, "failed")
  /\ UNCHANGED <<fileVars, srvVars, jobVars, crashes>>

\* A defect: a live server that does not answer passes for dead.
DiscardSilent(c) ==
  /\ c \in StartClient /\ pc[c] = "inspect"
  /\ look[c] \in {"Orphaned", "Unresponsive"}
  /\ Unlink(c)
  /\ Move(c, "spawn")
  /\ UNCHANGED <<srvVars, jobVars, lookVars, crashes>>

Discard(c) ==
  /\ c \in StartClient /\ pc[c] = "inspect" /\ look[c] = "Orphaned"
  /\ Unlink(c)
  /\ Move(c, "spawn")
  /\ UNCHANGED <<srvVars, jobVars, lookVars, crashes>>

SpawnServer(c) ==
  /\ \/ pc[c] = "spawn"
     \/ c \in StartClient /\ pc[c] = "inspect" /\ look[c] = "Absent"
  /\ \/ Fork(c, own[c]) /\ Move(c, "await")
     \/ End(c, "failed") /\ UNCHANGED srvVars
  /\ UNCHANGED <<fileVars, jobVars, crashes>>

ChildAnswers(c) ==
  /\ pc[c] = "await" /\ look[c] = "confirm" /\ Answers(kid[c])
  /\ End(c, "opened")
  /\ UNCHANGED <<fileVars, srvVars, jobVars, crashes>>

ChildExited(c) ==
  /\ pc[c] = "await" /\ look[c] = "poll" /\ ~Alive(kid[c])
  /\ Move(c, "recheck")
  /\ StartLook(c)
  /\ UNCHANGED <<fileVars, srvVars, jobVars, crashes>>

\* A defect: the deadline counts only while the child does not answer.
ChildTimeoutIfSilent(c) ==
  /\ pc[c] = "await" /\ look[c] = "poll" /\ ~Answers(kid[c])
  /\ Terminate(kid[c])
  /\ End(c, "failed")
  /\ UNCHANGED <<fileVars, jobVars, crashes>>

ChildTimeout(c) ==
  /\ pc[c] = "await" /\ look[c] = "poll"
  /\ Terminate(kid[c])
  /\ End(c, "failed")
  /\ UNCHANGED <<fileVars, jobVars, crashes>>

\* A simultaneous start may have won: then its server is the one to open.
Recheck(c) ==
  /\ pc[c] = "recheck" /\ look[c] \in Status
  /\ End(c, IF look[c] = "Running" THEN "opened" ELSE "failed")
  /\ UNCHANGED <<fileVars, srvVars, jobVars, crashes>>

StopNothing(c) ==
  /\ c \in StopClient /\ pc[c] = "inspect"
  /\ \/ look[c] = "Absent" /\ UNCHANGED fileVars
     \/ look[c] = "Orphaned" /\ Unlink(c)
  /\ End(c, "nothing")
  /\ UNCHANGED <<srvVars, jobVars, crashes>>

StopAsks(c) ==
  /\ c \in StopClient /\ pc[c] = "inspect"
  /\ \/ /\ look[c] \in {"Running", "OtherVersion"}
        /\ Accepted(rec[c])
        /\ Move(c, "stopping")
     \/ /\ look[c] \in {"Running", "OtherVersion", "Unresponsive"}
        /\ UNCHANGED asked
        /\ Move(c, "sigterm")
  /\ UNCHANGED <<fileVars, srv, build, released, jobVars, lookVars, crashes>>

StopWaits(c) ==
  /\ pc[c] = "stopping"
  /\ \/ Gone(c) /\ End(c, "stopped")
     \/ ~Gone(c) /\ Move(c, "sigterm") /\ UNCHANGED lookVars
  /\ UNCHANGED <<fileVars, srvVars, jobVars, crashes>>

StopSignals(c) ==
  /\ pc[c] = "sigterm"
  /\ \/ ~Alive(rec[c]) /\ End(c, "failed") /\ UNCHANGED srvVars
     \/ /\ Alive(rec[c])
        /\ Terminate(rec[c])
        /\ Move(c, "sigwait")
        /\ UNCHANGED lookVars
  /\ UNCHANGED <<fileVars, jobVars, crashes>>

\* A defect: the file goes although the signalled server has not ended.
StopSignalRemoves(c) ==
  /\ pc[c] = "sigwait"
  /\ Move(c, "remove")
  /\ UNCHANGED <<fileVars, srvVars, jobVars, lookVars, crashes>>

StopSignalWaits(c) ==
  /\ pc[c] = "sigwait"
  /\ \/ Gone(c) /\ Move(c, "remove") /\ UNCHANGED lookVars
     \/ ~Gone(c) /\ End(c, "failed")
  /\ UNCHANGED <<fileVars, srvVars, jobVars, crashes>>

StopRemoves(c) ==
  /\ pc[c] = "remove"
  /\ Unlink(c)
  /\ End(c, "stopped")
  /\ UNCHANGED <<srvVars, jobVars, crashes>>

ClientStep(c) ==
  \/ OpenOrRefuse(c) \/ Replace(c) \/ ReplaceWaits(c) \/ Discard(c)
  \/ SpawnServer(c) \/ ChildAnswers(c) \/ ChildExited(c) \/ ChildTimeout(c)
  \/ Recheck(c) \/ StopNothing(c) \/ StopAsks(c) \/ StopWaits(c)
  \/ StopSignals(c) \/ StopSignalWaits(c) \/ StopRemoves(c)

-----------------------------------------------------------------------------

Next ==
  \/ \E a \in Actor : LookStep(a)
  \/ \E s \in Server :
       \/ ServerStep(s) \/ JobStep(s)
       \/ StartUpdate(s) \/ AskStop(s) \/ Crash(s)
       \/ RegisterWriteFails(s) \/ ReclaimWriteFails(s)
  \/ \E c \in Client : Launch(c) \/ ClientStep(c)

Spec == Init /\ [][Next]_vars

\* Every process that can take a step of its own takes it; an actor that
\* polls a child reaches its deadline.
Fairness ==
  /\ \A s \in Server : WF_vars(ServerStep(s))
  /\ \A s \in Updatable :
       /\ WF_vars(JobStep(s) \/ LookStep(s))
       /\ SF_vars(SuccessorTimeout(s))
  /\ \A c \in Client :
       /\ WF_vars(ClientStep(c) \/ LookStep(c))
       /\ SF_vars(ChildTimeout(c))

FairSpec == Spec /\ Fairness

-----------------------------------------------------------------------------
(* Properties.                                                             *)

\* A server that takes the runtime file for its own really lies under the
\* path, unless another actor took the file away from it: O_EXCL, Release and
\* Reclaim keep server and file together through every hand-over.
Ownership == \A s \in Server : Holds(s) /\ s \notin robbed => file = s

\* Serve: "sie geht mit dem Server".  A server that ended in order never lies
\* under the path.  (The run of this property finds the exception.)
NoFileAfterExit == \A s \in Server : srv[s] = "exited" => file # s

\* Server and runtime file come and go together.  A server that ended in order
\* never lies under the path, after a hand-over or without one, unless its
\* update handler outlived Serve and created the file once more; and one that
\* goes on serving after an update holds its file, unless it told the page
\* that the file could not be written back.
FileGoesWithServer ==
  \A s \in Server :
    /\ srv[s] \in {"withdrawn", "exited"} /\ s \notin late => file # s
    /\ srv[s] = "serving" /\ job[s] = "none" /\ ~asked[s] /\ s \notin warned => Holds(s)

\* Registration.Remove after Release leaves the path alone: a server that was
\* not robbed takes nobody's file with it when it ends.
ExitSparesOthers ==
  [][\A s \in Server :
       srv[s] = "closing" /\ srv'[s] = "withdrawn" /\ s \notin robbed /\ file # s
         => UNCHANGED file]_vars

\* guiproc.Register and restart.go: two starts never bring up two servers,
\* there is never a second registered one.
OneRegistered == \A s, t \in Server : Holds(s) /\ Holds(t) => s = t

\* The slot of the project, as this module fills it: ServiceSlot!Spec says
\* that a server registers only while nobody is, and leaves it to nobody.
Slot == INSTANCE ServiceSlot WITH holders <- {s \in Server : Holds(s)}
SlotSpec == Slot!Spec

\* A server only ever loses its runtime file by its own doing.
NobodyRobbed == robbed = {}

\* guiproc.WaitForExit: the file disappears after the listener is closed, so
\* a stop or a replacement that saw the file gone left nobody answering.
GoneMeansClosed ==
  [][\A c \in Client :
       pc[c] \in {"replace", "stopping"} /\ pc'[c] \in {"spawn", "stopped"}
         => ~Answers(rec[c])]_vars

\* restart.go: the gap of a hand-over closes, also when the successor reports
\* another version, dies or loses to a concurrent start.  An update that has
\* released the file comes to its end, and then the old server is registered
\* again, steps down, has ended on its way, or told the page that no
\* invocation finds it until its restart.
GapCloses ==
  \A s \in Updatable :
    job[s] = "spawn" ~>
      job[s] = "none" /\ (Holds(s) \/ asked[s] \/ ~Alive(s) \/ s \in warned)

\* An invocation gives the terminal back, whatever the servers do.
InvocationEnds == \A c \in Client : pc[c] = "inspect" ~> pc[c] \in Final

=============================================================================
