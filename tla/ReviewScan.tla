----------------------------- MODULE ReviewScan -----------------------------
(***************************************************************************)
(* The execution of a review run's tool entries (internal/review           *)
(* execute.go, entries.go): calls of Execute on one run directory, from    *)
(* `k-playbook scan` or from the MCP tool.  A call runs each selected      *)
(* entry in a goroutine of its own; the entry clears what it wrote before, *)
(* plans its jobs, starts one worker per runnable job and is the only      *)
(* writer of entries/<name>.json.  Workers of all entries share the tokens *)
(* of the call and hand their updates to the entry over an unbuffered      *)
(* channel.  raw/<job>.sarif is the file a job leaves.                     *)
(*                                                                         *)
(* Scanners, timeouts and cancellation are left to chance: runJob may end  *)
(* in each of its outcomes.                                                *)
(***************************************************************************)
EXTENDS Naturals, FiniteSets

CONSTANTS
  Entry,        \* the tool entries of the run
  Job,          \* the job names that may ever be planned
  EntryOf,      \* the entry each job name belongs to, by its prefix
  Call,         \* the calls of Execute
  None,         \* nobody
  Parallel,     \* Options.Parallel
  MaxActive,    \* bound: calls that run at the same time
  MaxFaults,    \* bound: failed writes of an entry file, and killed calls
  Undeletable   \* the entries whose raw files os.Remove may fail on

ASSUME EntryOfJobs == EntryOf \in [Job -> Entry]
ASSUME NoneIsNoCall == None \notin Call
ASSUME ParallelIsPositive == Parallel \in Nat \ {0}
ASSUME ScanBounds == MaxActive \in Nat /\ MaxFaults \in Nat /\ Undeletable \subseteq Entry

JobsOf(e) == {j \in Job : EntryOf[j] = e}

VARIABLES
  disk,    \* entries/<name>.json: [state, jobs]; state start: no file
  raw,     \* raw/<job>.sarif: [by, good], by None: no file
  call,    \* where each call stands
  phase,   \* where each entry of a call stands
  mem,     \* status.Jobs of each entry goroutine
  failed,  \* the remembered writeErr of each entry goroutine
  worker,  \* where the worker of each job stands
  faults,  \* faults so far
  bare     \* history: entries cleared, their file not written since

files   == <<disk, raw, bare>>
memory  == <<mem, failed>>
vars    == <<files, call, phase, memory, worker, faults>>

Terminal == {"done", "failed", "skipped"}
State    == {"start", "running"} \cup Terminal
Unlisted == "unlisted"   \* the job is not in the list
Phase    == {"idle", "clear", "complain", "begin", "work", "write", "close",
             "done", "error"}
\* wait: for a token; started, and later the outcome: offered to the entry.
Worker   == {"none", "wait", "started", "running"} \cup Terminal
NoFile   == [by |-> None, good |-> FALSE]
NoJobs   == [j \in Job |-> Unlisted]

TypeOK ==
  /\ disk \in [Entry -> [state : State, jobs : [Job -> State \cup {Unlisted}]]]
  /\ raw \in [Job -> [by : Call \cup {None}, good : BOOLEAN]]
  /\ call \in [Call -> {"idle", "running", "returned", "dead"}]
  /\ phase \in [Call -> [Entry -> Phase]]
  /\ mem \in [Call -> [Entry -> [Job -> State \cup {Unlisted}]]]
  /\ failed \in [Call -> [Entry -> BOOLEAN]]
  /\ worker \in [Call -> [Job -> Worker]]
  /\ faults \in 0..MaxFaults
  /\ bare \in SUBSET Entry

\* Defects: rule 0 dropped, and an entry without a job kept without a state.
DeriveWithoutRule0(jobs) ==
  LET states == {jobs[j] : j \in Job} \ {Unlisted} IN
  IF "failed" \in states THEN "failed"
  ELSE IF "done" \in states THEN "done"
  ELSE "skipped"
DeriveFromFirst(jobs) ==
  LET states == {jobs[j] : j \in Job} \ {Unlisted} IN
  IF states = {} THEN Unlisted ELSE DeriveWithoutRule0(jobs)

\* DeriveEntryState, over the states of the listed jobs.
DeriveEntryState(jobs) ==
  LET states == {jobs[j] : j \in Job} \ {Unlisted} IN
  IF states \cap {"start", "running"} # {} THEN "running"
  ELSE IF "failed" \in states THEN "failed"
  ELSE IF "done" \in states THEN "done"
  ELSE "skipped"

Init ==
  /\ disk = [e \in Entry |-> [state |-> "start", jobs |-> NoJobs]]
  /\ raw = [j \in Job |-> NoFile]
  /\ call = [x \in Call |-> "idle"]
  /\ phase = [x \in Call |-> [e \in Entry |-> "idle"]]
  /\ mem = [x \in Call |-> [e \in Entry |-> NoJobs]]
  /\ failed = [x \in Call |-> [e \in Entry |-> FALSE]]
  /\ worker = [x \in Call |-> [j \in Job |-> "none"]]
  /\ faults = 0
  /\ bare = {}

-----------------------------------------------------------------------------

Fault == faults < MaxFaults /\ faults' = faults + 1

Go(x, e, p) == phase' = [phase EXCEPT ![x][e] = p]

\* WriteEntryStatus: a temporary file and a rename, so all or nothing.
WriteEntryStatus(e, state, jobs) ==
  /\ disk' = [disk EXCEPT ![e] = [state |-> state, jobs |-> jobs]]
  /\ bare' = bare \ {e}

\* selectEntries: the named entries, or those still on start.  The calls differ
\* by their order only, so the next unused name begins.
Select(x) ==
  /\ call[x] = "idle" /\ x = CHOOSE y \in Call : call[y] = "idle"
  /\ Cardinality({y \in Call : call[y] = "running"}) < MaxActive
  /\ \E S \in (SUBSET Entry) \ {{}} :
       phase' = [phase EXCEPT ![x] =
                   [e \in Entry |-> IF e \in S THEN "clear" ELSE "idle"]]
  /\ call' = [call EXCEPT ![x] = "running"]
  /\ UNCHANGED <<files, memory, worker, faults>>

\* A defect: by the sarif field, which only a job that is done has.
PreviousDone(e) ==
  {j \in JobsOf(e) : raw[j].by # None /\
     (disk[e].state = "start" \/ disk[e].jobs[j] = "done")}

\* previousJobFiles: the jobs of the entry's file, or else the listing of raw/.
Previous(e) ==
  {j \in JobsOf(e) : raw[j].by # None /\
     (disk[e].state = "start" \/ disk[e].jobs[j] # Unlisted)}

ClearEntryOutputs(x, e) ==
  /\ phase[x][e] = "clear"
  /\ raw' = [j \in Job |-> IF j \in Previous(e) THEN NoFile ELSE raw[j]]
  /\ bare' = bare \cup {e}
  /\ Go(x, e, "begin")
  /\ UNCHANGED <<disk, call, memory, worker, faults>>

\* The first file that cannot be removed ends the clearing.
ClearFails(x, e) ==
  /\ e \in Undeletable /\ phase[x][e] = "clear"
  /\ \E kept \in (SUBSET Previous(e)) \ {{}} :
       raw' = [j \in Job |-> IF j \in Previous(e) \ kept THEN NoFile ELSE raw[j]]
  /\ bare' = bare \cup {e}
  /\ Go(x, e, "complain")
  /\ UNCHANGED <<disk, call, memory, worker, faults>>

\* The entry ends failed, with an empty job list.
Complain(x, e) ==
  /\ phase[x][e] = "complain"
  /\ \/ WriteEntryStatus(e, "failed", NoJobs) /\ UNCHANGED faults
     \/ Fault /\ UNCHANGED <<disk, bare>>
  /\ Go(x, e, "error")
  /\ UNCHANGED <<raw, call, memory, worker>>

\* planJobs and the first write: which jobs there are depends on the modules
\* found; some are skipped or failed before they start.
Begin(x, e) ==
  /\ phase[x][e] = "begin"
  /\ \E plan \in [JobsOf(e) -> {Unlisted, "start", "skipped", "failed"}] :
       LET jobs     == [j \in Job |-> IF j \in JobsOf(e) THEN plan[j] ELSE Unlisted]
           runnable == {j \in JobsOf(e) : plan[j] = "start"}
       IN  /\ WriteEntryStatus(e, DeriveEntryState(jobs), jobs)
           /\ mem' = [mem EXCEPT ![x][e] = jobs]
           /\ worker' = [worker EXCEPT ![x] =
                [j \in Job |-> IF j \in runnable THEN "wait" ELSE @[j]]]
           /\ Go(x, e, IF runnable = {} THEN "close" ELSE "work")
  /\ UNCHANGED <<raw, call, failed, faults>>

BeginFails(x, e) ==
  /\ phase[x][e] = "begin"
  /\ Fault
  /\ Go(x, e, "error")
  /\ UNCHANGED <<files, call, memory, worker>>

\* A worker holds its token until the entry has taken its last update.
Holding(x) == {j \in Job : worker[x][j] \notin {"none", "wait"}}

\* A defect: the tokens are counted per entry.
AcquirePerEntry(x, j) ==
  /\ worker[x][j] = "wait"
  /\ Cardinality(Holding(x) \cap JobsOf(EntryOf[j])) < Parallel
  /\ worker' = [worker EXCEPT ![x][j] = "started"]
  /\ UNCHANGED <<files, call, phase, memory, faults>>

Acquire(x, j) ==
  /\ worker[x][j] = "wait"
  /\ Cardinality(Holding(x)) < Parallel
  /\ worker' = [worker EXCEPT ![x][j] = "started"]
  /\ UNCHANGED <<files, call, phase, memory, faults>>

\* The entry takes the update "running" of a worker, which then goes on.
TakeStart(x, e, j) ==
  /\ phase[x][e] = "work" /\ j \in JobsOf(e) /\ worker[x][j] = "started"
  /\ mem' = [mem EXCEPT ![x][e][j] = "running"]
  /\ worker' = [worker EXCEPT ![x][j] = "running"]
  /\ Go(x, e, "write")
  /\ UNCHANGED <<files, call, failed, faults>>

\* A defect: the exit code decides, whatever the file holds.
AnyFile(x, j, outcome) == {NoFile} \cup [by : {x}, good : BOOLEAN]

\* What an outcome of runJob may leave under raw/.  The old file goes first;
\* where it cannot, the job is failed.  Readable SARIF makes the job done,
\* whatever the exit code; a deadline or a cancelled call makes it failed,
\* whatever lies there; skipped needs a missing or an empty file.
Leaves(x, j, outcome) ==
  IF outcome = "done" THEN [by : {x}, good : {TRUE}]
  ELSE IF outcome = "skipped" THEN {NoFile} \cup [by : {x}, good : {FALSE}]
  ELSE {NoFile} \cup [by : {x}, good : BOOLEAN] \cup {f \in {raw[j]} : EntryOf[j] \in Undeletable}

RunJob(x, j) ==
  /\ worker[x][j] = "running"
  /\ \E outcome \in Terminal :
       /\ worker' = [worker EXCEPT ![x][j] = outcome]
       /\ \E left \in Leaves(x, j, outcome) : raw' = [raw EXCEPT ![j] = left]
  /\ UNCHANGED <<disk, bare, call, phase, memory, faults>>

\* The entry takes the outcome, and the worker gives its token back.
TakeOutcome(x, e, j) ==
  /\ phase[x][e] = "work" /\ j \in JobsOf(e) /\ worker[x][j] \in Terminal
  /\ mem' = [mem EXCEPT ![x][e][j] = worker[x][j]]
  /\ worker' = [worker EXCEPT ![x][j] = "none"]
  /\ Go(x, e, "write")
  /\ UNCHANGED <<files, call, failed, faults>>

WriteProgress(x, e) ==
  /\ phase[x][e] = "write"
  /\ WriteEntryStatus(e, DeriveEntryState(mem[x][e]), mem[x][e])
  /\ Go(x, e, "work")
  /\ UNCHANGED <<raw, call, memory, worker, faults>>

\* A defect: the first failed write ends the entry.
WriteProgressGivesUp(x, e) ==
  /\ phase[x][e] = "write"
  /\ Fault
  /\ Go(x, e, "error")
  /\ UNCHANGED <<files, call, memory, worker>>

\* The error is remembered; the entry goes on taking updates.
WriteProgressFails(x, e) ==
  /\ phase[x][e] = "write"
  /\ Fault
  /\ failed' = [failed EXCEPT ![x][e] = TRUE]
  /\ Go(x, e, "work")
  /\ UNCHANGED <<files, call, mem, worker>>

Drained(x, e) ==
  /\ phase[x][e] = "work"
  /\ \A j \in JobsOf(e) : worker[x][j] = "none"
  /\ Go(x, e, IF failed[x][e] THEN "error" ELSE "close")
  /\ UNCHANGED <<files, call, memory, worker, faults>>

Close(x, e) ==
  /\ phase[x][e] = "close"
  /\ \/ /\ WriteEntryStatus(e, DeriveEntryState(mem[x][e]), mem[x][e])
        /\ Go(x, e, "done")
        /\ UNCHANGED faults
     \/ Fault /\ Go(x, e, "error") /\ UNCHANGED <<disk, bare>>
  /\ UNCHANGED <<raw, call, memory, worker>>

\* The process is over: its memory is gone, its files are not.
Ends(x, state) ==
  /\ call' = [call EXCEPT ![x] = state]
  /\ phase' = [phase EXCEPT ![x] = [e \in Entry |-> "idle"]]
  /\ mem' = [mem EXCEPT ![x] = [e \in Entry |-> NoJobs]]
  /\ failed' = [failed EXCEPT ![x] = [e \in Entry |-> FALSE]]
  /\ worker' = [worker EXCEPT ![x] = [j \in Job |-> "none"]]

\* Execute returns once every entry goroutine has.
Return(x) ==
  /\ call[x] = "running"
  /\ \A e \in Entry : phase[x][e] \in {"idle", "done", "error"}
  /\ Ends(x, "returned")
  /\ UNCHANGED <<files, faults>>

\* The process is killed; a running scanner leaves half a file, or none.
Kill(x) ==
  /\ call[x] = "running"
  /\ Fault
  /\ \E half \in SUBSET {j \in Job : worker[x][j] = "running"} :
       raw' = [j \in Job |-> IF worker[x][j] # "running" THEN raw[j]
                             ELSE IF j \in half THEN [by |-> x, good |-> FALSE]
                             ELSE NoFile]
  /\ Ends(x, "dead")
  /\ UNCHANGED <<disk, bare>>

EntryStep(x, e) ==
  \/ ClearEntryOutputs(x, e) \/ ClearFails(x, e) \/ Complain(x, e)
  \/ Begin(x, e) \/ BeginFails(x, e)
  \/ \E j \in Job : TakeStart(x, e, j) \/ TakeOutcome(x, e, j)
  \/ WriteProgress(x, e) \/ WriteProgressFails(x, e)
  \/ Drained(x, e) \/ Close(x, e)

WorkerStep(x, j) == Acquire(x, j) \/ RunJob(x, j)

Next ==
  \E x \in Call :
    \/ Select(x) \/ Return(x) \/ Kill(x)
    \/ \E e \in Entry : EntryStep(x, e)
    \/ \E j \in Job : WorkerStep(x, j)

Spec == Init /\ [][Next]_vars

CallStep(x) ==
  \/ Return(x)
  \/ \E e \in Entry : EntryStep(x, e)
  \/ \E j \in Job : WorkerStep(x, j)

\* As long as any goroutine of a call can go on, one of them does; a scanner
\* ends, at the latest by its timeout.  Which one is left to chance: a call has
\* finitely many steps, so none waits for ever on that account.
Fairness == \A x \in Call : WF_vars(CallStep(x))

FairSpec == Spec /\ Fairness

-----------------------------------------------------------------------------
(* Properties.                                                             *)

\* Rule 0 of DeriveEntryState: while a call works on an entry, the entry's
\* file names no end state as long as one of its jobs waits or runs.
NoEarlyEnd ==
  \A x \in Call, e \in Entry :
    phase[x][e] \in {"work", "write", "close"} /\ disk[e].state \in Terminal
      => \A j \in JobsOf(e) : worker[x][j] = "none"

\* A job that an entry's file calls done has its readable SARIF, except after
\* a call that cleared the entry and got no further.
DoneHasResult ==
  \A j \in Job :
    disk[EntryOf[j]].jobs[j] = "done" /\ EntryOf[j] \notin bare => raw[j].good

\* clearEntryOutputs: once a call has begun an entry, every file of the entry
\* under raw/ is the work of this call, not a leftover of an earlier one.
\* (The run of this property finds the exception.)
NothingLeftOver ==
  \A x \in Call, j \in Job :
    phase[x][EntryOf[j]] \in {"work", "write", "close", "done"}
      => raw[j].by \in {None, x}

\* The same of every entry whose files can be removed, whatever happens to the
\* others: the job list finds each file again, through kills and failed writes.
NoStaleResult ==
  \A x \in Call, j \in Job :
    EntryOf[j] \notin Undeletable /\ phase[x][EntryOf[j]] \in {"work", "write", "close", "done"}
      => raw[j].by \in {None, x}

\* The tokens bound the jobs over the whole call, not per entry.
ParallelBound == \A x \in Call : Cardinality(Holding(x)) <= Parallel

\* Execute comes back although writes fail: the entry that cannot write goes
\* on taking updates, so no worker keeps a token for ever.
CallReturns == \A x \in Call : call[x] = "running" ~> call[x] # "running"
=============================================================================
