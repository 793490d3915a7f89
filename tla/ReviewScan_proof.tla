--------------------------- MODULE ReviewScan_proof --------------------------
(***************************************************************************)
(* Theorems about ReviewScan, for any entries, jobs and calls.  Types and  *)
(* the bound of the tokens hold for calls that run at the same time; what  *)
(* an entry's file says of its jobs and of the files under raw/ needs that *)
(* one call runs at a time (MaxActive = 1), and that no file of an earlier *)
(* call survives needs besides that files can be removed.                  *)
(*                                                                         *)
(* The argument follows an entry through a call: its workers run only      *)
(* while it takes their updates (WorkersHome), its list in memory is never *)
(* ahead of them (Pending), and its file is never ahead of the list        *)
(* (NotDoneYet, SameList).                                                 *)
(*                                                                         *)
(* Then about ProgressEmitter, for any finite set of entries and any       *)
(* number of updates and faults: what the client is told never falls and   *)
(* ends with the stop, and it is what the files say.                       *)
(***************************************************************************)
EXTENDS ReviewScan, ProgressEmitter, FiniteSetTheorems, TLAPS

\* ParallelBound, with what the cardinality theorems need to know.
Bounded ==
  \A x \in Call : IsFiniteSet(Holding(x)) /\ Cardinality(Holding(x)) <= Parallel

\* While MaxActive is 1, one call runs; one that does not has no entry and no
\* worker; a worker belongs to an entry that takes its updates.
OneRunning ==
  \A x, y \in Call : call[x] = "running" /\ call[y] = "running" => x = y
IdleCalls ==
  \A x \in Call, e \in Entry : phase[x][e] # "idle" => call[x] = "running"
WorkersHome ==
  \A x \in Call, j \in Job :
    worker[x][j] # "none" => phase[x][EntryOf[j]] \in {"work", "write"}
Alone == OneRunning /\ IdleCalls /\ WorkersHome

\* As long as a worker has not given its outcome, the list of its entry says so.
Pending ==
  \A x \in Call, j \in Job :
    worker[x][j] # "none" => mem[x][EntryOf[j]][j] \in {"start", "running"}

\* The entry is past its first write: its list is in memory and in its file.
Busy(x, e) == phase[x][e] \in {"work", "write", "close"}

\* A job whose worker is not through is not done in the entry's file; one that
\* is done, for the worker or in the list, has its result.
NotDoneYet ==
  \A x \in Call, j \in Job :
    worker[x][j] # "none" => disk[EntryOf[j]].jobs[j] # "done"
WorkerHasResult ==
  \A x \in Call, j \in Job : worker[x][j] = "done" => raw[j].good
ListHasResult ==
  \A x \in Call, j \in Job :
    Busy(x, EntryOf[j]) /\ mem[x][EntryOf[j]][j] = "done" => raw[j].good
BeginIsBare ==
  \A x \in Call, e \in Entry : phase[x][e] = "begin" => e \in bare
Results ==
  NotDoneYet /\ WorkerHasResult /\ ListHasResult /\ BeginIsBare /\ DoneHasResult

\* Where files can be removed: an entry begins with none, its file lists the
\* jobs of the list in memory, and every file belongs to a listed job.
NoComplaint == \A x \in Call, e \in Entry \ Undeletable : phase[x][e] # "complain"
BeginIsClean ==
  \A x \in Call, j \in Job :
    EntryOf[j] \notin Undeletable /\ phase[x][EntryOf[j]] = "begin" => raw[j].by = None
SameList ==
  \A x \in Call, j \in Job :
    Busy(x, EntryOf[j]) =>
      (mem[x][EntryOf[j]][j] = Unlisted <=> disk[EntryOf[j]].jobs[j] = Unlisted)
Written ==
  \A x \in Call, e \in Entry : Busy(x, e) => disk[e].state # "start"
FilesListed ==
  \A j \in Job :
    EntryOf[j] \notin Undeletable /\ raw[j].by # None =>
      disk[EntryOf[j]].state = "start" \/ disk[EntryOf[j]].jobs[j] # Unlisted
Fresh ==
  /\ NoComplaint /\ BeginIsClean /\ SameList /\ Written /\ FilesListed
  /\ NoStaleResult

\* The inductive invariant of calls that come one after the other.
SerialInv == TypeOK /\ Alone /\ Pending /\ NoEarlyEnd /\ Results

-----------------------------------------------------------------------------
(* The operators the actions are built from.                               *)

\* DeriveEntryState gives a state, and never start.
LEMMA DeriveTypes ==
  ASSUME NEW jobs \in [Job -> State \cup {Unlisted}]
  PROVE  DeriveEntryState(jobs) \in State \ {"start"}
BY DEF DeriveEntryState, State, Terminal

\* A write of an entry's file keeps its type.
LEMMA WriteTypes ==
  ASSUME TypeOK, NEW e \in Entry, NEW state \in State,
         NEW jobs \in [Job -> State \cup {Unlisted}],
         WriteEntryStatus(e, state, jobs)
  PROVE  /\ disk' \in [Entry -> [state : State, jobs : [Job -> State \cup {Unlisted}]]]
         /\ bare' \in SUBSET Entry
BY DEF TypeOK, WriteEntryStatus

\* What runJob leaves is a file, or none.
LEMMA LeavesTypes ==
  ASSUME TypeOK, NEW x \in Call, NEW j \in Job, NEW outcome \in Terminal
  PROVE  Leaves(x, j, outcome) \subseteq [by : Call \cup {None}, good : BOOLEAN]
<1>1. NoFile \in [by : Call \cup {None}, good : BOOLEAN]
  BY DEF NoFile
<1>2. raw[j] \in [by : Call \cup {None}, good : BOOLEAN]
  BY DEF TypeOK
<1>3. [by : {x}, good : BOOLEAN] \subseteq [by : Call \cup {None}, good : BOOLEAN]
  OBVIOUS
<1>4. /\ [by : {x}, good : {TRUE}] \subseteq [by : {x}, good : BOOLEAN]
      /\ [by : {x}, good : {FALSE}] \subseteq [by : {x}, good : BOOLEAN]
  OBVIOUS
<1> QED
  BY <1>1, <1>2, <1>3, <1>4 DEF Leaves

\* DeriveEntryState, rule 0: an end state means that no job waits or runs.
LEMMA TerminalMeansOver ==
  ASSUME NEW jobs \in [Job -> State \cup {Unlisted}],
         DeriveEntryState(jobs) \in Terminal
  PROVE  \A j \in Job : jobs[j] \notin {"start", "running"}
BY DEF DeriveEntryState, Terminal, State, Unlisted

\* An entry of a call goes on, and no other.
LEMMA GoEffect ==
  ASSUME TypeOK, NEW x \in Call, NEW e \in Entry, NEW p, Go(x, e, p)
  PROVE  \A y \in Call, d \in Entry :
           phase'[y][d] = IF y = x /\ d = e THEN p ELSE phase[y][d]
BY DEF TypeOK, Go

\* What a write changes in the entries' files.
LEMMA WriteEffect ==
  ASSUME TypeOK, NEW e \in Entry, NEW state, NEW jobs,
         WriteEntryStatus(e, state, jobs)
  PROVE  /\ \A d \in Entry :
              /\ d = e => disk'[d].state = state /\ disk'[d].jobs = jobs
              /\ d # e => disk'[d] = disk[d]
         /\ bare' = bare \ {e}
BY DEF TypeOK, WriteEntryStatus

\* What the first write of an entry sets up.
LEMMA BeginEffect ==
  ASSUME TypeOK, NEW x \in Call, NEW e \in Entry, Begin(x, e)
  PROVE  \E jobs \in [Job -> {Unlisted, "start", "skipped", "failed"}] :
           /\ WriteEntryStatus(e, DeriveEntryState(jobs), jobs)
           /\ mem' = [mem EXCEPT ![x][e] = jobs]
           /\ worker' = [worker EXCEPT ![x] = [j \in Job |->
                IF EntryOf[j] = e /\ jobs[j] = "start" THEN "wait" ELSE worker[x][j]]]
           /\ \/ Go(x, e, "work")
              \/ Go(x, e, "close") /\ \A j \in Job : EntryOf[j] = e => jobs[j] # "start"
<1>1. PICK plan \in [JobsOf(e) -> {Unlisted, "start", "skipped", "failed"}] :
        LET jobs     == [j \in Job |-> IF j \in JobsOf(e) THEN plan[j] ELSE Unlisted]
            runnable == {j \in JobsOf(e) : plan[j] = "start"}
        IN  /\ WriteEntryStatus(e, DeriveEntryState(jobs), jobs)
            /\ mem' = [mem EXCEPT ![x][e] = jobs]
            /\ worker' = [worker EXCEPT ![x] =
                 [j \in Job |-> IF j \in runnable THEN "wait" ELSE @[j]]]
            /\ Go(x, e, IF runnable = {} THEN "close" ELSE "work")
  BY DEF Begin
<1> DEFINE jobs     == [j \in Job |-> IF j \in JobsOf(e) THEN plan[j] ELSE Unlisted]
           runnable == {j \in JobsOf(e) : plan[j] = "start"}
<1>2. jobs \in [Job -> {Unlisted, "start", "skipped", "failed"}]
  BY <1>1
<1>3. \A j \in Job : j \in runnable <=> EntryOf[j] = e /\ jobs[j] = "start"
  BY DEF JobsOf, Unlisted
<1>4. worker' = [worker EXCEPT ![x] = [j \in Job |->
        IF EntryOf[j] = e /\ jobs[j] = "start" THEN "wait" ELSE worker[x][j]]]
  BY <1>1, <1>3 DEF TypeOK
<1>5. \/ Go(x, e, "work")
      \/ Go(x, e, "close") /\ \A j \in Job : EntryOf[j] = e => jobs[j] # "start"
  BY <1>1, <1>3
<1> QED
  BY <1>1, <1>2, <1>4, <1>5

-----------------------------------------------------------------------------
(* The steps.                                                                *)

\* Every step keeps the types.
LEMMA TypeStep == TypeOK /\ [Next]_vars => TypeOK'
<1> SUFFICES ASSUME TypeOK, [Next]_vars
             PROVE  TypeOK'
  OBVIOUS
<1>1. ASSUME NEW x \in Call, Select(x)
      PROVE  TypeOK'
  BY <1>1
  DEF Select, TypeOK, files, memory, NoFile, NoJobs, Phase, Worker, State
<1>2. ASSUME NEW x \in Call, Return(x)
      PROVE  TypeOK'
  BY <1>2
  DEF Return, Ends, TypeOK, files, NoFile, NoJobs, Phase, Worker, State
<1>3. ASSUME NEW x \in Call, Kill(x)
      PROVE  TypeOK'
  BY <1>3, ScanBounds
  DEF Kill, Ends, Fault, TypeOK, NoFile, NoJobs, Phase, Worker, State
<1>4. ASSUME NEW x \in Call, NEW e \in Entry, ClearEntryOutputs(x, e)
      PROVE  TypeOK'
  BY <1>4
  DEF ClearEntryOutputs, Go, TypeOK, memory, NoFile, NoJobs, Phase, Worker,
      State
<1>5. ASSUME NEW x \in Call, NEW e \in Entry, ClearFails(x, e)
      PROVE  TypeOK'
  BY <1>5
  DEF ClearFails, Go, TypeOK, memory, NoFile, NoJobs, Phase, Worker, State
<1>6. ASSUME NEW x \in Call, NEW e \in Entry, Complain(x, e)
      PROVE  TypeOK'
  BY WriteTypes, <1>6, ScanBounds DEF TypeOK, NoJobs, State, Terminal, Complain, Go, Phase, memory, Fault
<1>7. ASSUME NEW x \in Call, NEW e \in Entry, Begin(x, e)
      PROVE  TypeOK'
  BY <1>7, DeriveTypes
  DEF Begin, Go, WriteEntryStatus, TypeOK, Phase, Worker, State, JobsOf,
      Unlisted, Terminal
<1>8. ASSUME NEW x \in Call, NEW e \in Entry, BeginFails(x, e)
      PROVE  TypeOK'
  BY <1>8, ScanBounds
  DEF BeginFails, Go, Fault, TypeOK, files, memory, Phase, Worker, State
<1>9. ASSUME NEW x \in Call, NEW e \in Entry, NEW j \in Job, TakeStart(x, e, j)
      PROVE  TypeOK'
  BY <1>9
  DEF TakeStart, Go, TypeOK, files, Phase, Worker, State, Unlisted
<1>10. ASSUME NEW x \in Call, NEW e \in Entry, NEW j \in Job, TakeOutcome(x, e, j)
      PROVE  TypeOK'
  BY <1>10
  DEF TakeOutcome, Go, TypeOK, files, Phase, Worker, Terminal, State, Unlisted
<1>11. ASSUME NEW x \in Call, NEW e \in Entry, WriteProgress(x, e)
      PROVE  TypeOK'
  BY <1>11, DeriveTypes
  DEF WriteProgress, Go, WriteEntryStatus, TypeOK, memory, Phase, Worker, State
<1>12. ASSUME NEW x \in Call, NEW e \in Entry, WriteProgressFails(x, e)
      PROVE  TypeOK'
  BY <1>12, ScanBounds
  DEF WriteProgressFails, Go, Fault, TypeOK, files, Phase, Worker, State
<1>13. ASSUME NEW x \in Call, NEW e \in Entry, Drained(x, e)
      PROVE  TypeOK'
  BY <1>13
  DEF Drained, Go, TypeOK, files, memory, Phase, Worker, State
<1>14. ASSUME NEW x \in Call, NEW e \in Entry, Close(x, e)
      PROVE  TypeOK'
  <2>1. CASE WriteEntryStatus(e, DeriveEntryState(mem[x][e]), mem[x][e]) /\ Go(x, e, "done") /\ UNCHANGED faults
    <3>1. DeriveEntryState(mem[x][e]) \in State /\ mem[x][e] \in [Job -> State \cup {Unlisted}]
      BY DeriveTypes DEF TypeOK, NoJobs, State, Terminal
    <3>2. /\ disk' \in [Entry -> [state : State, jobs : [Job -> State \cup {Unlisted}]]]
          /\ bare' \in SUBSET Entry
      BY <2>1, <3>1, WriteTypes
    <3> QED
      BY <1>14, <2>1, <3>2 DEF Close, Go, TypeOK, Phase, memory
  <2>2. CASE Fault /\ Go(x, e, "error") /\ UNCHANGED <<disk, bare>>
    BY <1>14, <2>2, ScanBounds DEF Close, Fault, Go, TypeOK, Phase, memory
  <2> QED
    BY <1>14, <2>1, <2>2 DEF Close
<1>15. ASSUME NEW x \in Call, NEW j \in Job, Acquire(x, j)
      PROVE  TypeOK'
  BY <1>15
  DEF Acquire, TypeOK, files, memory, Phase, Worker, State
<1>16. ASSUME NEW x \in Call, NEW j \in Job, RunJob(x, j)
      PROVE  TypeOK'
  BY <1>16, LeavesTypes
  DEF RunJob, TypeOK, memory, Phase, Worker, Terminal, State
<1>17. CASE UNCHANGED vars
  BY <1>17 DEF vars, files, memory, TypeOK
<1> QED
  BY <1>1, <1>2, <1>3, <1>4, <1>5, <1>6, <1>7, <1>8, <1>9,
     <1>10, <1>11, <1>12, <1>13, <1>14, <1>15, <1>16, <1>17
  DEF Next, EntryStep, WorkerStep

\* A call that gives tokens back, or hands none out, stays within its tokens.
LEMMA BoundKept ==
  ASSUME Bounded, \A y \in Call : Holding(y)' \subseteq Holding(y)
  PROVE  Bounded'
  BY FS_Subset, FS_CardinalityType, ParallelIsPositive DEF Bounded

\* Only Acquire hands out a token, and only while one is left.
LEMMA BoundStep == TypeOK /\ Bounded /\ [Next]_vars => Bounded'
<1> SUFFICES ASSUME TypeOK, Bounded, [Next]_vars
             PROVE  Bounded'
  OBVIOUS
<1>1. ASSUME NEW x \in Call, Select(x)
      PROVE  Bounded'
  BY <1>1, BoundKept
  DEF Select, TypeOK, Holding, files, memory
<1>2. ASSUME NEW x \in Call, Return(x)
      PROVE  Bounded'
  BY <1>2, BoundKept
  DEF Return, Ends, TypeOK, Holding, files
<1>3. ASSUME NEW x \in Call, Kill(x)
      PROVE  Bounded'
  BY <1>3, BoundKept
  DEF Kill, Ends, Fault, TypeOK, Holding
<1>4. ASSUME NEW x \in Call, NEW e \in Entry, ClearEntryOutputs(x, e)
      PROVE  Bounded'
  BY <1>4, BoundKept
  DEF ClearEntryOutputs, Go, TypeOK, Holding, memory
<1>5. ASSUME NEW x \in Call, NEW e \in Entry, ClearFails(x, e)
      PROVE  Bounded'
  BY <1>5, BoundKept
  DEF ClearFails, Go, TypeOK, Holding, memory
<1>6. ASSUME NEW x \in Call, NEW e \in Entry, Complain(x, e)
      PROVE  Bounded'
  BY <1>6, BoundKept
  DEF Complain, Go, WriteEntryStatus, Fault, TypeOK, Holding, memory
<1>7. ASSUME NEW x \in Call, NEW e \in Entry, Begin(x, e)
      PROVE  Bounded'
  <2>1. PICK jobs \in [Job -> {Unlisted, "start", "skipped", "failed"}] :
          /\ WriteEntryStatus(e, DeriveEntryState(jobs), jobs)
          /\ mem' = [mem EXCEPT ![x][e] = jobs]
          /\ worker' = [worker EXCEPT ![x] = [j \in Job |->
               IF EntryOf[j] = e /\ jobs[j] = "start" THEN "wait" ELSE worker[x][j]]]
          /\ \/ Go(x, e, "work")
             \/ Go(x, e, "close") /\ \A j \in Job : EntryOf[j] = e => jobs[j] # "start"
    BY <1>7, BeginEffect
  <2>2. \A y \in Call, j \in Job :
          worker'[y][j] = worker[y][j] \/ worker'[y][j] = "wait"
    BY <2>1 DEF TypeOK
  <2> QED
    BY <2>2, BoundKept DEF Holding
<1>8. ASSUME NEW x \in Call, NEW e \in Entry, BeginFails(x, e)
      PROVE  Bounded'
  BY <1>8, BoundKept
  DEF BeginFails, Go, Fault, TypeOK, Holding, files, memory
<1>9. ASSUME NEW x \in Call, NEW e \in Entry, NEW j \in Job, TakeStart(x, e, j)
      PROVE  Bounded'
  BY <1>9, BoundKept
  DEF TakeStart, Go, TypeOK, Holding, files
<1>10. ASSUME NEW x \in Call, NEW e \in Entry, NEW j \in Job, TakeOutcome(x, e, j)
      PROVE  Bounded'
  BY <1>10, BoundKept
  DEF TakeOutcome, Go, TypeOK, Holding, files, Terminal
<1>11. ASSUME NEW x \in Call, NEW e \in Entry, WriteProgress(x, e)
      PROVE  Bounded'
  BY <1>11, BoundKept
  DEF WriteProgress, Go, WriteEntryStatus, TypeOK, Holding, memory
<1>12. ASSUME NEW x \in Call, NEW e \in Entry, WriteProgressFails(x, e)
      PROVE  Bounded'
  BY <1>12, BoundKept
  DEF WriteProgressFails, Go, Fault, TypeOK, Holding, files
<1>13. ASSUME NEW x \in Call, NEW e \in Entry, Drained(x, e)
      PROVE  Bounded'
  BY <1>13, BoundKept
  DEF Drained, Go, TypeOK, Holding, files, memory
<1>14. ASSUME NEW x \in Call, NEW e \in Entry, Close(x, e)
      PROVE  Bounded'
  BY <1>14, BoundKept
  DEF Close, Go, WriteEntryStatus, Fault, TypeOK, Holding, memory
<1>15. ASSUME NEW x \in Call, NEW j \in Job, Acquire(x, j)
      PROVE  Bounded'
  <2>1. /\ \A y \in Call, i \in Job : ~(y = x /\ i = j) => worker'[y][i] = worker[y][i]
        /\ Cardinality(Holding(x)) < Parallel
    BY <1>15 DEF Acquire, TypeOK
  <2>2. ASSUME NEW y \in Call
        PROVE  IsFiniteSet(Holding(y)') /\ Cardinality(Holding(y)') <= Parallel
    <3>1. IsFiniteSet(Holding(y)) /\ Cardinality(Holding(y)) <= Parallel
      BY DEF Bounded
    <3>2. CASE y # x
      BY <2>1, <3>2, <3>1 DEF Holding
    <3>3. CASE y = x
      <4> DEFINE S == Holding(x) \cup {j}
      <4>1. IsFiniteSet(S) /\ Cardinality(S) <= Cardinality(Holding(x)) + 1
        <5>1. IsFiniteSet(Holding(x))
          BY <3>1, <3>3
        <5>2. Cardinality(Holding(x)) \in Nat
          BY <5>1, FS_CardinalityType
        <5>3. IsFiniteSet(S) /\ Cardinality(S) = IF j \in Holding(x)
                THEN Cardinality(Holding(x)) ELSE Cardinality(Holding(x)) + 1
          BY <5>1, FS_AddElement
        <5> QED
          BY <5>2, <5>3
      <4>2. Holding(x)' \subseteq S
        BY <2>1 DEF Holding
      <4>3. IsFiniteSet(Holding(x)') /\ Cardinality(Holding(x)') <= Cardinality(S)
        BY <4>1, <4>2, FS_Subset
      <4>4. /\ Cardinality(Holding(x)') \in Nat
            /\ Cardinality(S) \in Nat
            /\ Cardinality(Holding(x)) \in Nat
        BY <3>1, <3>3, <4>1, <4>3, FS_CardinalityType
      <4> HIDE DEF S
      <4> QED
        BY <2>1, <3>3, <4>1, <4>3, <4>4, ParallelIsPositive
    <3> QED
      BY <3>2, <3>3
  <2> QED
    BY <2>2 DEF Bounded
<1>16. ASSUME NEW x \in Call, NEW j \in Job, RunJob(x, j)
      PROVE  Bounded'
  BY <1>16, BoundKept
  DEF RunJob, TypeOK, Holding, memory, Terminal
<1>17. CASE UNCHANGED vars
  BY <1>17, BoundKept DEF vars, files, memory, TypeOK, Holding
<1> QED
  BY <1>1, <1>2, <1>3, <1>4, <1>5, <1>6, <1>7, <1>8, <1>9,
     <1>10, <1>11, <1>12, <1>13, <1>14, <1>15, <1>16, <1>17
  DEF Next, EntryStep, WorkerStep

\* While MaxActive is 1, calls come one after the other.
LEMMA AloneStep ==
  ASSUME MaxActive = 1
  PROVE  TypeOK /\ Alone /\ [Next]_vars => Alone'
<1> SUFFICES ASSUME TypeOK, Alone, [Next]_vars
             PROVE  Alone'
  OBVIOUS
<1>1. ASSUME NEW x \in Call, Select(x)
      PROVE  Alone'
  <2> DEFINE R == {y \in Call : call[y] = "running"}
  <2>1. IsFiniteSet(R)
    <3>1. CASE R = {}
      BY <3>1, FS_EmptySet
    <3>2. ASSUME NEW y \in R
          PROVE  IsFiniteSet(R)
      <4>1. R = {y}
        BY <3>2 DEF Alone, OneRunning
      <4> QED
        BY <4>1, FS_Singleton
    <3> QED
      BY <3>1, <3>2
  <2>2. R = {}
    <3>1. Cardinality(R) < 1
      BY <1>1 DEF Select
    <3> QED
      BY <2>1, <3>1, FS_CardinalityType, FS_EmptySet
  <2>3. \A y \in Call : call[y] # "running"
    BY <2>2
  <2>4. /\ UNCHANGED <<mem, failed, worker>>
        /\ call' = [call EXCEPT ![x] = "running"]
        /\ \E S \in SUBSET Entry : phase' = [phase EXCEPT ![x] = [e \in Entry |-> IF e \in S THEN "clear" ELSE "idle"]]
    BY <1>1 DEF Select, memory
  <2> QED
    BY <2>3, <2>4, EntryOfJobs DEF TypeOK, Alone, OneRunning, IdleCalls, WorkersHome
<1>2. ASSUME NEW x \in Call, Return(x)
      PROVE  Alone'
  BY <1>2, EntryOfJobs
  DEF Return, Ends, TypeOK, Alone, OneRunning, IdleCalls, WorkersHome, files
<1>3. ASSUME NEW x \in Call, Kill(x)
      PROVE  Alone'
  BY <1>3, EntryOfJobs
  DEF Kill, Ends, Fault, TypeOK, Alone, OneRunning, IdleCalls, WorkersHome
<1>4. ASSUME NEW x \in Call, NEW e \in Entry, ClearEntryOutputs(x, e)
      PROVE  Alone'
  BY <1>4, EntryOfJobs
  DEF ClearEntryOutputs, Go, TypeOK, Alone, OneRunning, IdleCalls,
      WorkersHome, memory
<1>5. ASSUME NEW x \in Call, NEW e \in Entry, ClearFails(x, e)
      PROVE  Alone'
  BY <1>5, EntryOfJobs
  DEF ClearFails, Go, TypeOK, Alone, OneRunning, IdleCalls, WorkersHome, memory
<1>6. ASSUME NEW x \in Call, NEW e \in Entry, Complain(x, e)
      PROVE  Alone'
  BY <1>6, EntryOfJobs
  DEF Complain, Go, WriteEntryStatus, Fault, TypeOK, Alone, OneRunning,
      IdleCalls, WorkersHome, memory
<1>7. ASSUME NEW x \in Call, NEW e \in Entry, Begin(x, e)
      PROVE  Alone'
  BY <1>7, EntryOfJobs
  DEF Begin, Go, WriteEntryStatus, TypeOK, Alone, OneRunning, IdleCalls,
      WorkersHome, JobsOf
<1>8. ASSUME NEW x \in Call, NEW e \in Entry, BeginFails(x, e)
      PROVE  Alone'
  BY <1>8, EntryOfJobs
  DEF BeginFails, Go, Fault, TypeOK, Alone, OneRunning, IdleCalls,
      WorkersHome, files, memory
<1>9. ASSUME NEW x \in Call, NEW e \in Entry, NEW j \in Job, TakeStart(x, e, j)
      PROVE  Alone'
  BY <1>9, EntryOfJobs
  DEF TakeStart, Go, TypeOK, Alone, OneRunning, IdleCalls, WorkersHome, files,
      JobsOf
<1>10. ASSUME NEW x \in Call, NEW e \in Entry, NEW j \in Job, TakeOutcome(x, e, j)
      PROVE  Alone'
  BY <1>10, EntryOfJobs
  DEF TakeOutcome, Go, TypeOK, Alone, OneRunning, IdleCalls, WorkersHome,
      files, JobsOf
<1>11. ASSUME NEW x \in Call, NEW e \in Entry, WriteProgress(x, e)
      PROVE  Alone'
  BY <1>11, EntryOfJobs
  DEF WriteProgress, Go, WriteEntryStatus, TypeOK, Alone, OneRunning,
      IdleCalls, WorkersHome, memory
<1>12. ASSUME NEW x \in Call, NEW e \in Entry, WriteProgressFails(x, e)
      PROVE  Alone'
  BY <1>12, EntryOfJobs
  DEF WriteProgressFails, Go, Fault, TypeOK, Alone, OneRunning, IdleCalls,
      WorkersHome, files
<1>13. ASSUME NEW x \in Call, NEW e \in Entry, Drained(x, e)
      PROVE  Alone'
  BY <1>13, EntryOfJobs
  DEF Drained, Go, TypeOK, Alone, OneRunning, IdleCalls, WorkersHome, files,
      memory, JobsOf
<1>14. ASSUME NEW x \in Call, NEW e \in Entry, Close(x, e)
      PROVE  Alone'
  BY <1>14, GoEffect, EntryOfJobs DEF Close, memory, Alone, OneRunning, IdleCalls, WorkersHome
<1>15. ASSUME NEW x \in Call, NEW j \in Job, Acquire(x, j)
      PROVE  Alone'
  BY <1>15, EntryOfJobs
  DEF Acquire, TypeOK, Alone, OneRunning, IdleCalls, WorkersHome, files, memory
<1>16. ASSUME NEW x \in Call, NEW j \in Job, RunJob(x, j)
      PROVE  Alone'
  BY <1>16, EntryOfJobs
  DEF RunJob, TypeOK, Alone, OneRunning, IdleCalls, WorkersHome, memory
<1>17. CASE UNCHANGED vars
  BY <1>17, EntryOfJobs
  DEF vars, files, memory, TypeOK, Alone, OneRunning, IdleCalls, WorkersHome
<1> QED
  BY <1>1, <1>2, <1>3, <1>4, <1>5, <1>6, <1>7, <1>8, <1>9,
     <1>10, <1>11, <1>12, <1>13, <1>14, <1>15, <1>16, <1>17
  DEF Next, EntryStep, WorkerStep

\* The list of an entry keeps up with its workers.
LEMMA PendingStep == TypeOK /\ Alone /\ Pending /\ [Next]_vars => Pending'
<1> SUFFICES ASSUME TypeOK, Alone, Pending, [Next]_vars
             PROVE  Pending'
  OBVIOUS
<1>1. ASSUME NEW x \in Call, Select(x)
      PROVE  Pending'
  BY <1>1, EntryOfJobs
  DEF Select, TypeOK, Alone, OneRunning, IdleCalls, WorkersHome, files,
      memory, Pending
<1>2. ASSUME NEW x \in Call, Return(x)
      PROVE  Pending'
  BY <1>2, EntryOfJobs
  DEF Return, Ends, TypeOK, Alone, OneRunning, IdleCalls, WorkersHome, files,
      Pending
<1>3. ASSUME NEW x \in Call, Kill(x)
      PROVE  Pending'
  BY <1>3, EntryOfJobs
  DEF Kill, Ends, Fault, TypeOK, Alone, OneRunning, IdleCalls, WorkersHome,
      Pending
<1>4. ASSUME NEW x \in Call, NEW e \in Entry, ClearEntryOutputs(x, e)
      PROVE  Pending'
  BY <1>4, EntryOfJobs
  DEF ClearEntryOutputs, Go, TypeOK, Alone, OneRunning, IdleCalls,
      WorkersHome, memory, Pending
<1>5. ASSUME NEW x \in Call, NEW e \in Entry, ClearFails(x, e)
      PROVE  Pending'
  BY <1>5, EntryOfJobs
  DEF ClearFails, Go, TypeOK, Alone, OneRunning, IdleCalls, WorkersHome,
      memory, Pending
<1>6. ASSUME NEW x \in Call, NEW e \in Entry, Complain(x, e)
      PROVE  Pending'
  BY <1>6, EntryOfJobs
  DEF Complain, Go, WriteEntryStatus, Fault, TypeOK, Alone, OneRunning,
      IdleCalls, WorkersHome, memory, Pending
<1>7. ASSUME NEW x \in Call, NEW e \in Entry, Begin(x, e)
      PROVE  Pending'
  <2>1. PICK jobs \in [Job -> {Unlisted, "start", "skipped", "failed"}] :
          /\ WriteEntryStatus(e, DeriveEntryState(jobs), jobs)
          /\ mem' = [mem EXCEPT ![x][e] = jobs]
          /\ worker' = [worker EXCEPT ![x] = [j \in Job |->
               IF EntryOf[j] = e /\ jobs[j] = "start" THEN "wait" ELSE worker[x][j]]]
          /\ \/ Go(x, e, "work")
             \/ Go(x, e, "close") /\ \A j \in Job : EntryOf[j] = e => jobs[j] # "start"
    BY <1>7, BeginEffect
  <2>2. ASSUME NEW y \in Call, NEW j \in Job, worker'[y][j] # "none"
        PROVE  mem'[y][EntryOf[j]][j] \in {"start", "running"}
    <3>1. CASE y = x /\ EntryOf[j] = e
      BY <1>7, <3>1, <2>1, <2>2 DEF Begin, Alone, WorkersHome, TypeOK
    <3>2. CASE ~(y = x /\ EntryOf[j] = e)
      BY <2>1, <3>2, EntryOfJobs, <2>2 DEF TypeOK, Pending
    <3> QED
      BY <3>1, <3>2
  <2> QED
    BY <2>2 DEF Pending
<1>8. ASSUME NEW x \in Call, NEW e \in Entry, BeginFails(x, e)
      PROVE  Pending'
  BY <1>8, EntryOfJobs
  DEF BeginFails, Go, Fault, TypeOK, Alone, OneRunning, IdleCalls,
      WorkersHome, files, memory, Pending
<1>9. ASSUME NEW x \in Call, NEW e \in Entry, NEW j \in Job, TakeStart(x, e, j)
      PROVE  Pending'
  BY <1>9, EntryOfJobs
  DEF TakeStart, Go, TypeOK, Alone, OneRunning, IdleCalls, WorkersHome, files,
      JobsOf, Pending
<1>10. ASSUME NEW x \in Call, NEW e \in Entry, NEW j \in Job, TakeOutcome(x, e, j)
      PROVE  Pending'
  BY <1>10, EntryOfJobs
  DEF TakeOutcome, Go, TypeOK, Alone, OneRunning, IdleCalls, WorkersHome,
      files, JobsOf, Pending, Terminal
<1>11. ASSUME NEW x \in Call, NEW e \in Entry, WriteProgress(x, e)
      PROVE  Pending'
  BY <1>11, EntryOfJobs
  DEF WriteProgress, Go, WriteEntryStatus, TypeOK, Alone, OneRunning,
      IdleCalls, WorkersHome, memory, Pending
<1>12. ASSUME NEW x \in Call, NEW e \in Entry, WriteProgressFails(x, e)
      PROVE  Pending'
  BY <1>12, EntryOfJobs
  DEF WriteProgressFails, Go, Fault, TypeOK, Alone, OneRunning, IdleCalls,
      WorkersHome, files, Pending
<1>13. ASSUME NEW x \in Call, NEW e \in Entry, Drained(x, e)
      PROVE  Pending'
  BY <1>13, EntryOfJobs
  DEF Drained, Go, TypeOK, Alone, OneRunning, IdleCalls, WorkersHome, files,
      memory, JobsOf, Pending
<1>14. ASSUME NEW x \in Call, NEW e \in Entry, Close(x, e)
      PROVE  Pending'
  BY <1>14, EntryOfJobs
  DEF Close, Go, WriteEntryStatus, Fault, TypeOK, Alone, OneRunning,
      IdleCalls, WorkersHome, memory, Pending
<1>15. ASSUME NEW x \in Call, NEW j \in Job, Acquire(x, j)
      PROVE  Pending'
  BY <1>15, EntryOfJobs
  DEF Acquire, TypeOK, Alone, OneRunning, IdleCalls, WorkersHome, files,
      memory, Pending
<1>16. ASSUME NEW x \in Call, NEW j \in Job, RunJob(x, j)
      PROVE  Pending'
  BY <1>16, EntryOfJobs
  DEF RunJob, TypeOK, Alone, OneRunning, IdleCalls, WorkersHome, memory,
      Pending, Terminal
<1>17. CASE UNCHANGED vars
  BY <1>17, EntryOfJobs
  DEF vars, files, memory, TypeOK, Alone, OneRunning, IdleCalls, WorkersHome,
      Pending
<1> QED
  BY <1>1, <1>2, <1>3, <1>4, <1>5, <1>6, <1>7, <1>8, <1>9,
     <1>10, <1>11, <1>12, <1>13, <1>14, <1>15, <1>16, <1>17
  DEF Next, EntryStep, WorkerStep

\* An end state is written when the workers are through.
LEMMA EarlyStep == TypeOK /\ Alone /\ Pending /\ NoEarlyEnd /\ [Next]_vars => NoEarlyEnd'
<1> SUFFICES ASSUME TypeOK, Alone, Pending, NoEarlyEnd, [Next]_vars
             PROVE  NoEarlyEnd'
  OBVIOUS
<1>1. ASSUME NEW x \in Call, Select(x)
      PROVE  NoEarlyEnd'
  BY <1>1, EntryOfJobs
  DEF Select, TypeOK, Alone, OneRunning, IdleCalls, WorkersHome, files,
      memory, Pending, NoEarlyEnd
<1>2. ASSUME NEW x \in Call, Return(x)
      PROVE  NoEarlyEnd'
  BY <1>2, EntryOfJobs
  DEF Return, Ends, TypeOK, Alone, OneRunning, IdleCalls, WorkersHome, files,
      Pending, NoEarlyEnd
<1>3. ASSUME NEW x \in Call, Kill(x)
      PROVE  NoEarlyEnd'
  BY <1>3, EntryOfJobs
  DEF Kill, Ends, Fault, TypeOK, Alone, OneRunning, IdleCalls, WorkersHome,
      Pending, NoEarlyEnd
<1>4. ASSUME NEW x \in Call, NEW e \in Entry, ClearEntryOutputs(x, e)
      PROVE  NoEarlyEnd'
  BY <1>4, EntryOfJobs
  DEF ClearEntryOutputs, Go, TypeOK, Alone, OneRunning, IdleCalls,
      WorkersHome, memory, Pending, NoEarlyEnd
<1>5. ASSUME NEW x \in Call, NEW e \in Entry, ClearFails(x, e)
      PROVE  NoEarlyEnd'
  BY <1>5, EntryOfJobs
  DEF ClearFails, Go, TypeOK, Alone, OneRunning, IdleCalls, WorkersHome,
      memory, Pending, NoEarlyEnd
<1>6. ASSUME NEW x \in Call, NEW e \in Entry, Complain(x, e)
      PROVE  NoEarlyEnd'
  <2>1. CASE WriteEntryStatus(e, "failed", NoJobs)
    <3>1. \A d \in Entry : d # e => disk'[d] = disk[d]
      BY <2>1, WriteEffect
    <3>2. \A y \in Call, d \in Entry :
            phase'[y][d] \in {"work", "write", "close"} =>
              phase[y][d] \in {"work", "write", "close"} /\ d # e
      BY <1>6 DEF Complain, Go, TypeOK, Alone, OneRunning, IdleCalls
    <3> QED
      BY <1>6, <3>1, <3>2 DEF Complain, NoEarlyEnd
  <2>2. CASE UNCHANGED disk
    BY <1>6, <2>2 DEF Complain, Go, TypeOK, NoEarlyEnd
  <2> QED
    BY <1>6, <2>1, <2>2 DEF Complain
<1>7. ASSUME NEW x \in Call, NEW e \in Entry, Begin(x, e)
      PROVE  NoEarlyEnd'
  <2>1. PICK jobs \in [Job -> {Unlisted, "start", "skipped", "failed"}] :
          /\ WriteEntryStatus(e, DeriveEntryState(jobs), jobs)
          /\ mem' = [mem EXCEPT ![x][e] = jobs]
          /\ worker' = [worker EXCEPT ![x] = [j \in Job |->
               IF EntryOf[j] = e /\ jobs[j] = "start" THEN "wait" ELSE worker[x][j]]]
          /\ \/ Go(x, e, "work")
             \/ Go(x, e, "close") /\ \A j \in Job : EntryOf[j] = e => jobs[j] # "start"
    BY <1>7, BeginEffect
  <2>2. jobs \in [Job -> State \cup {Unlisted}]
    BY DEF State, Terminal
  <2>3. ASSUME NEW y \in Call, NEW d \in Entry,
               phase'[y][d] \in {"work", "write", "close"}, disk'[d].state \in Terminal,
               NEW j \in JobsOf(d)
        PROVE  worker'[y][j] = "none"
    <3>1. CASE d = e
      <4>1. y = x
        BY <1>7, <2>1, <2>3, <3>1, GoEffect DEF Begin, Alone, OneRunning, IdleCalls
      <4>2. jobs[j] # "start"
        BY <2>1, <2>2, <2>3, <3>1, WriteEffect, TerminalMeansOver DEF JobsOf
      <4>3. worker[x][j] = "none"
        BY <1>7, <3>1 DEF Begin, JobsOf, Alone, WorkersHome
      <4> QED
        BY <2>1, <4>1, <4>2, <4>3 DEF TypeOK, JobsOf
    <3>2. CASE d # e
      BY <2>1, <3>2, WriteEffect, GoEffect, <2>3 DEF JobsOf, TypeOK, NoEarlyEnd
    <3> QED
      BY <3>1, <3>2
  <2> QED
    BY <2>3 DEF NoEarlyEnd
<1>8. ASSUME NEW x \in Call, NEW e \in Entry, BeginFails(x, e)
      PROVE  NoEarlyEnd'
  BY <1>8, EntryOfJobs
  DEF BeginFails, Go, Fault, TypeOK, Alone, OneRunning, IdleCalls,
      WorkersHome, files, memory, Pending, NoEarlyEnd
<1>9. ASSUME NEW x \in Call, NEW e \in Entry, NEW j \in Job, TakeStart(x, e, j)
      PROVE  NoEarlyEnd'
  BY <1>9, EntryOfJobs
  DEF TakeStart, Go, TypeOK, Alone, OneRunning, IdleCalls, WorkersHome, files,
      JobsOf, Pending, NoEarlyEnd
<1>10. ASSUME NEW x \in Call, NEW e \in Entry, NEW j \in Job, TakeOutcome(x, e, j)
      PROVE  NoEarlyEnd'
  BY <1>10, EntryOfJobs
  DEF TakeOutcome, Go, TypeOK, Alone, OneRunning, IdleCalls, WorkersHome,
      files, JobsOf, Pending, Terminal, NoEarlyEnd
<1>11. ASSUME NEW x \in Call, NEW e \in Entry, WriteProgress(x, e)
      PROVE  NoEarlyEnd'
  <2>1. mem[x][e] \in [Job -> State \cup {Unlisted}]
    BY DEF TypeOK
  <2>2. CASE WriteEntryStatus(e, DeriveEntryState(mem[x][e]), mem[x][e])
    <3>1. ASSUME DeriveEntryState(mem[x][e]) \in Terminal, NEW j \in JobsOf(e)
          PROVE  worker[x][j] = "none"
      BY <2>1, <3>1, TerminalMeansOver DEF JobsOf, Pending
    <3>2. \A d \in Entry :
            /\ d = e => disk'[d].state = DeriveEntryState(mem[x][e])
            /\ d # e => disk'[d] = disk[d]
      BY <2>2, WriteEffect
    <3>3. \A y \in Call, d \in Entry :
            phase'[y][d] \in {"work", "write", "close"} =>
              /\ phase[y][d] \in {"work", "write", "close"}
              /\ d = e => y = x
      BY <1>11 DEF WriteProgress, Go, TypeOK, Alone, OneRunning, IdleCalls
    <3>4. worker' = worker
      BY <1>11 DEF WriteProgress, memory
    <3> QED
      BY <3>1, <3>2, <3>3, <3>4 DEF NoEarlyEnd
  <2>3. CASE UNCHANGED disk
    BY <1>11, GoEffect, <2>3 DEF WriteProgress, memory, NoEarlyEnd
  <2> QED
    BY <1>11, <2>2, <2>3 DEF WriteProgress
<1>12. ASSUME NEW x \in Call, NEW e \in Entry, WriteProgressFails(x, e)
      PROVE  NoEarlyEnd'
  BY <1>12, EntryOfJobs
  DEF WriteProgressFails, Go, Fault, TypeOK, Alone, OneRunning, IdleCalls,
      WorkersHome, files, Pending, NoEarlyEnd
<1>13. ASSUME NEW x \in Call, NEW e \in Entry, Drained(x, e)
      PROVE  NoEarlyEnd'
  BY <1>13, EntryOfJobs
  DEF Drained, Go, TypeOK, Alone, OneRunning, IdleCalls, WorkersHome, files,
      memory, JobsOf, Pending, NoEarlyEnd
<1>14. ASSUME NEW x \in Call, NEW e \in Entry, Close(x, e)
      PROVE  NoEarlyEnd'
  <2>1. mem[x][e] \in [Job -> State \cup {Unlisted}]
    BY DEF TypeOK
  <2>2. CASE WriteEntryStatus(e, DeriveEntryState(mem[x][e]), mem[x][e])
    <3>1. ASSUME DeriveEntryState(mem[x][e]) \in Terminal, NEW j \in JobsOf(e)
          PROVE  worker[x][j] = "none"
      BY <2>1, <3>1, TerminalMeansOver DEF JobsOf, Pending
    <3>2. \A d \in Entry :
            /\ d = e => disk'[d].state = DeriveEntryState(mem[x][e])
            /\ d # e => disk'[d] = disk[d]
      BY <2>2, WriteEffect
    <3>3. \A y \in Call, d \in Entry :
            phase'[y][d] \in {"work", "write", "close"} =>
              /\ phase[y][d] \in {"work", "write", "close"}
              /\ d = e => y = x
      BY <1>14 DEF Close, Go, TypeOK, Alone, OneRunning, IdleCalls
    <3>4. worker' = worker
      BY <1>14 DEF Close, memory
    <3> QED
      BY <3>1, <3>2, <3>3, <3>4 DEF NoEarlyEnd
  <2>3. CASE UNCHANGED disk
    BY <1>14, GoEffect, <2>3 DEF Close, memory, NoEarlyEnd
  <2> QED
    BY <1>14, <2>2, <2>3 DEF Close
<1>15. ASSUME NEW x \in Call, NEW j \in Job, Acquire(x, j)
      PROVE  NoEarlyEnd'
  BY <1>15, EntryOfJobs
  DEF Acquire, TypeOK, Alone, OneRunning, IdleCalls, WorkersHome, files,
      memory, Pending, NoEarlyEnd
<1>16. ASSUME NEW x \in Call, NEW j \in Job, RunJob(x, j)
      PROVE  NoEarlyEnd'
  BY <1>16, EntryOfJobs
  DEF RunJob, TypeOK, Alone, OneRunning, IdleCalls, WorkersHome, memory,
      Pending, Terminal, NoEarlyEnd
<1>17. CASE UNCHANGED vars
  BY <1>17, EntryOfJobs
  DEF vars, files, memory, TypeOK, Alone, OneRunning, IdleCalls, WorkersHome,
      Pending, NoEarlyEnd
<1> QED
  BY <1>1, <1>2, <1>3, <1>4, <1>5, <1>6, <1>7, <1>8, <1>9,
     <1>10, <1>11, <1>12, <1>13, <1>14, <1>15, <1>16, <1>17
  DEF Next, EntryStep, WorkerStep

\* Done means a result.
LEMMA ResultsStep == TypeOK /\ Alone /\ Pending /\ Results /\ [Next]_vars => Results'
<1> SUFFICES ASSUME TypeOK, Alone, Pending, Results, [Next]_vars
             PROVE  Results'
  OBVIOUS
<1>1. ASSUME NEW x \in Call, Select(x)
      PROVE  Results'
  BY <1>1, EntryOfJobs
  DEF Select, TypeOK, Alone, OneRunning, IdleCalls, WorkersHome, files,
      memory, Pending, NotDoneYet, WorkerHasResult, ListHasResult,
      BeginIsBare, DoneHasResult, Results, Busy
<1>2. ASSUME NEW x \in Call, Return(x)
      PROVE  Results'
  BY <1>2, EntryOfJobs
  DEF Return, Ends, TypeOK, Alone, OneRunning, IdleCalls, WorkersHome, files,
      Pending, NotDoneYet, WorkerHasResult, ListHasResult, BeginIsBare,
      DoneHasResult, Results, Busy
<1>3. ASSUME NEW x \in Call, Kill(x)
      PROVE  Results'
  <2>1. \A i \in Job : worker[x][i] # "running" => raw'[i] = raw[i]
    BY <1>3 DEF Kill, TypeOK
  <2>2. /\ UNCHANGED <<disk, bare>>
        /\ \A y \in Call \ {x} : /\ worker'[y] = worker[y] /\ phase'[y] = phase[y]
                                 /\ mem'[y] = mem[y]
        /\ \A i \in Job : worker'[x][i] = "none"
        /\ \A d \in Entry : phase'[x][d] = "idle"
    BY <1>3 DEF Kill, Ends, TypeOK
  <2>3. \A y \in Call \ {x}, d \in Entry : phase[y][d] = "idle"
    BY <1>3 DEF Kill, Alone, OneRunning, IdleCalls
  <2>4. NotDoneYet'
    BY <2>2 DEF Results, NotDoneYet
  <2>5. WorkerHasResult'
    BY <2>2, <2>3, EntryOfJobs DEF WorkerHasResult, Alone, WorkersHome
  <2>6. ListHasResult' /\ BeginIsBare'
    BY <2>2, <2>3, EntryOfJobs DEF ListHasResult, BeginIsBare, Busy
  <2>7. DoneHasResult'
    BY <2>1, <2>2, EntryOfJobs DEF Results, NotDoneYet, DoneHasResult
  <2> QED
    BY <2>4, <2>5, <2>6, <2>7 DEF Results
<1>4. ASSUME NEW x \in Call, NEW e \in Entry, ClearEntryOutputs(x, e)
      PROVE  Results'
  <2>1. /\ phase[x][e] = "clear" /\ call[x] = "running"
        /\ bare' = bare \cup {e}
        /\ UNCHANGED <<disk, mem, worker>>
    BY <1>4 DEF ClearEntryOutputs, memory, Alone, IdleCalls
  <2>2. \A j \in Job : EntryOf[j] # e => raw'[j] = raw[j]
    BY <1>4 DEF ClearEntryOutputs, Previous, JobsOf, TypeOK
  <2>3. \A y \in Call, d \in Entry :
          phase'[y][d] = phase[y][d] \/ (y = x /\ d = e /\ phase'[y][d] \in {"begin", "complain"})
    BY <1>4, GoEffect DEF ClearEntryOutputs
  <2>4. \A y \in Call : phase[y][e] \in {"idle", "clear"}
    BY <2>1 DEF Alone, OneRunning, IdleCalls
  <2>5. NotDoneYet'
    BY <2>1 DEF Results, NotDoneYet
  <2>6. WorkerHasResult'
    BY <2>1, <2>2, <2>4, EntryOfJobs
    DEF Results, WorkerHasResult, Alone, WorkersHome
  <2>7. ListHasResult'
    BY <2>2, <2>3, <2>4, EntryOfJobs, <2>1 DEF Busy, Results, ListHasResult
  <2>8. BeginIsBare' /\ DoneHasResult'
    BY <2>1, <2>2, <2>3, EntryOfJobs DEF Results, BeginIsBare, DoneHasResult
  <2> QED
    BY <2>5, <2>6, <2>7, <2>8 DEF Results
<1>5. ASSUME NEW x \in Call, NEW e \in Entry, ClearFails(x, e)
      PROVE  Results'
  <2>1. /\ phase[x][e] = "clear" /\ call[x] = "running"
        /\ bare' = bare \cup {e}
        /\ UNCHANGED <<disk, mem, worker>>
    BY <1>5 DEF ClearFails, memory, Alone, IdleCalls
  <2>2. \A j \in Job : EntryOf[j] # e => raw'[j] = raw[j]
    BY <1>5 DEF ClearFails, Previous, JobsOf, TypeOK
  <2>3. \A y \in Call, d \in Entry :
          phase'[y][d] = phase[y][d] \/ (y = x /\ d = e /\ phase'[y][d] \in {"begin", "complain"})
    BY <1>5, GoEffect DEF ClearFails
  <2>4. \A y \in Call : phase[y][e] \in {"idle", "clear"}
    BY <2>1 DEF Alone, OneRunning, IdleCalls
  <2>5. NotDoneYet'
    BY <2>1 DEF Results, NotDoneYet
  <2>6. WorkerHasResult'
    BY <2>1, <2>2, <2>4, EntryOfJobs
    DEF Results, WorkerHasResult, Alone, WorkersHome
  <2>7. ListHasResult'
    BY <2>2, <2>3, <2>4, EntryOfJobs, <2>1 DEF Busy, Results, ListHasResult
  <2>8. BeginIsBare' /\ DoneHasResult'
    BY <2>1, <2>2, <2>3, EntryOfJobs DEF Results, BeginIsBare, DoneHasResult
  <2> QED
    BY <2>5, <2>6, <2>7, <2>8 DEF Results
<1>6. ASSUME NEW x \in Call, NEW e \in Entry, Complain(x, e)
      PROVE  Results'
  <2>1. /\ phase[x][e] = "complain" /\ call[x] = "running"
        /\ UNCHANGED <<raw, mem, worker>>
    BY <1>6 DEF Complain, memory, Alone, IdleCalls
  <2>2. \A d \in Entry : disk'[d] = disk[d] \/ (d = e /\ disk'[d].jobs = NoJobs)
    BY <1>6, WriteEffect DEF Complain
  <2>3. \A d \in Entry \ {e} : d \in bare <=> d \in bare'
    BY <1>6, WriteEffect DEF Complain
  <2>4. bare' = bare \/ (bare' = bare \ {e} /\ disk'[e].jobs = NoJobs)
    BY <1>6, WriteEffect DEF Complain
  <2>5. \A y \in Call, d \in Entry :
          \/ phase'[y][d] = phase[y][d] /\ ~(y = x /\ d = e)
          \/ y = x /\ d = e /\ phase'[y][d] = "error"
    BY <1>6, GoEffect DEF Complain
  <2>6. \A j \in Job : NoJobs[j] # "done"
    BY DEF NoJobs, Unlisted
  <2>7. NotDoneYet'
    BY <2>1, <2>2, <2>6, EntryOfJobs DEF Results, NotDoneYet
  <2>8. WorkerHasResult' /\ ListHasResult'
    BY <2>1, <2>5, EntryOfJobs DEF Results, WorkerHasResult, ListHasResult, Busy
  <2>9. BeginIsBare'
    BY <2>1, <2>3, <2>5 DEF Results, BeginIsBare, Alone, OneRunning, IdleCalls
  <2>10. DoneHasResult'
    BY <2>1, <2>2, <2>4, <2>6, EntryOfJobs DEF Results, DoneHasResult
  <2> QED
    BY <2>7, <2>8, <2>9, <2>10 DEF Results
<1>7. ASSUME NEW x \in Call, NEW e \in Entry, Begin(x, e)
      PROVE  Results'
  <2>1. PICK jobs \in [Job -> {Unlisted, "start", "skipped", "failed"}] :
          /\ WriteEntryStatus(e, DeriveEntryState(jobs), jobs)
          /\ mem' = [mem EXCEPT ![x][e] = jobs]
          /\ worker' = [worker EXCEPT ![x] = [j \in Job |->
               IF EntryOf[j] = e /\ jobs[j] = "start" THEN "wait" ELSE worker[x][j]]]
          /\ \/ Go(x, e, "work")
             \/ Go(x, e, "close") /\ \A j \in Job : EntryOf[j] = e => jobs[j] # "start"
    BY <1>7, BeginEffect
  <2>2. /\ phase[x][e] = "begin" /\ call[x] = "running"
        /\ UNCHANGED raw
    BY <1>7 DEF Begin, Alone, IdleCalls
  <2>3. \A d \in Entry : /\ d = e => disk'[d].jobs = jobs
                         /\ d # e => disk'[d] = disk[d]
    BY <2>1, WriteEffect
  <2>4. bare' = bare \ {e}
    BY <2>1, WriteEffect
  <2>5. \A y \in Call, d \in Entry :
          \/ phase'[y][d] = phase[y][d] /\ ~(y = x /\ d = e)
          \/ y = x /\ d = e /\ phase'[y][d] \in {"work", "close"}
    BY <2>1, GoEffect
  <2>6. \A y \in Call, d \in Entry :
          mem'[y][d] = IF y = x /\ d = e THEN jobs ELSE mem[y][d]
    BY <2>1 DEF TypeOK
  <2>7. \A y \in Call, j \in Job :
          worker'[y][j] = worker[y][j] \/ worker'[y][j] = "wait"
    BY <2>1 DEF TypeOK
  <2>8. \A y \in Call, j \in Job : worker'[y][j] # "none" =>
          worker[y][j] # "none" \/ EntryOf[j] = e
    BY <2>1 DEF TypeOK
  <2>9. \A j \in Job : jobs[j] # "done"
    BY DEF Unlisted
  <2>10. NotDoneYet'
    BY <2>3, <2>8, <2>9, EntryOfJobs DEF Results, NotDoneYet
  <2>11. WorkerHasResult'
    BY <2>2, <2>7 DEF Results, WorkerHasResult
  <2>12. ListHasResult'
    BY <2>2, <2>5, <2>6, <2>9, EntryOfJobs DEF Results, ListHasResult, Busy
  <2>13. BeginIsBare'
    BY <2>2, <2>4, <2>5 DEF Results, BeginIsBare, Alone, OneRunning, IdleCalls
  <2>14. DoneHasResult'
    BY <2>2, <2>3, <2>4, <2>9, EntryOfJobs DEF Results, DoneHasResult
  <2> QED
    BY <2>10, <2>11, <2>12, <2>13, <2>14 DEF Results
<1>8. ASSUME NEW x \in Call, NEW e \in Entry, BeginFails(x, e)
      PROVE  Results'
  BY <1>8, EntryOfJobs
  DEF BeginFails, Go, Fault, TypeOK, Alone, OneRunning, IdleCalls,
      WorkersHome, files, memory, Pending, NotDoneYet, WorkerHasResult,
      ListHasResult, BeginIsBare, DoneHasResult, Results, Busy
<1>9. ASSUME NEW x \in Call, NEW e \in Entry, NEW j \in Job, TakeStart(x, e, j)
      PROVE  Results'
  BY <1>9, EntryOfJobs
  DEF TakeStart, Go, TypeOK, Alone, OneRunning, IdleCalls, WorkersHome, files,
      JobsOf, Pending, NotDoneYet, WorkerHasResult, ListHasResult,
      BeginIsBare, DoneHasResult, Results, Busy
<1>10. ASSUME NEW x \in Call, NEW e \in Entry, NEW j \in Job, TakeOutcome(x, e, j)
      PROVE  Results'
  BY <1>10, EntryOfJobs
  DEF TakeOutcome, Go, TypeOK, Alone, OneRunning, IdleCalls, WorkersHome,
      files, JobsOf, Pending, Terminal, NotDoneYet, WorkerHasResult,
      ListHasResult, BeginIsBare, DoneHasResult, Results, Busy
<1>11. ASSUME NEW x \in Call, NEW e \in Entry, WriteProgress(x, e)
      PROVE  Results'
  <2>1. /\ Busy(x, e) /\ call[x] = "running"
        /\ UNCHANGED <<raw, mem, worker>>
    BY <1>11 DEF WriteProgress, memory, Busy, Alone, IdleCalls
  <2>2. \/ bare' = bare /\ UNCHANGED disk
        \/ bare' = bare \ {e} /\ disk'[e].jobs = mem[x][e]
    BY <1>11, WriteEffect DEF WriteProgress
  <2>3. \A d \in Entry : d # e => disk'[d] = disk[d]
    BY <1>11, WriteEffect DEF WriteProgress
  <2>4. \A y \in Call, d \in Entry :
          \/ phase'[y][d] = phase[y][d] /\ ~(y = x /\ d = e)
          \/ y = x /\ d = e /\ phase'[y][d] \in {"work"}
    BY <1>11, GoEffect DEF WriteProgress
  <2>5. NotDoneYet'
    <3>1. ASSUME NEW y \in Call, NEW j \in Job, worker[y][j] # "none", EntryOf[j] = e
          PROVE  mem[x][e][j] # "done"
      <4>1. y = x
        BY <2>1, <3>1 DEF Alone, OneRunning, IdleCalls, WorkersHome
      <4> QED
        BY <3>1, <4>1 DEF Pending
    <3> QED
      BY <2>1, <2>2, <2>3, <3>1, EntryOfJobs DEF Results, NotDoneYet
  <2>6. WorkerHasResult' /\ ListHasResult'
    BY <2>1, <2>4, EntryOfJobs DEF Results, WorkerHasResult, ListHasResult, Busy
  <2>7. BeginIsBare'
    BY <2>1, <2>4, <2>2 DEF Busy, Alone, OneRunning, IdleCalls, Results, BeginIsBare
  <2>8. DoneHasResult'
    BY <2>1, <2>2, <2>3, EntryOfJobs DEF Results, DoneHasResult, ListHasResult
  <2> QED
    BY <2>5, <2>6, <2>7, <2>8 DEF Results
<1>12. ASSUME NEW x \in Call, NEW e \in Entry, WriteProgressFails(x, e)
      PROVE  Results'
  BY <1>12, EntryOfJobs
  DEF WriteProgressFails, Go, Fault, TypeOK, Alone, OneRunning, IdleCalls,
      WorkersHome, files, Pending, NotDoneYet, WorkerHasResult, ListHasResult,
      BeginIsBare, DoneHasResult, Results, Busy
<1>13. ASSUME NEW x \in Call, NEW e \in Entry, Drained(x, e)
      PROVE  Results'
  BY <1>13, EntryOfJobs
  DEF Drained, Go, TypeOK, Alone, OneRunning, IdleCalls, WorkersHome, files,
      memory, JobsOf, Pending, NotDoneYet, WorkerHasResult, ListHasResult,
      BeginIsBare, DoneHasResult, Results, Busy
<1>14. ASSUME NEW x \in Call, NEW e \in Entry, Close(x, e)
      PROVE  Results'
  <2>1. /\ Busy(x, e) /\ call[x] = "running"
        /\ UNCHANGED <<raw, mem, worker>>
    BY <1>14 DEF Close, memory, Busy, Alone, IdleCalls
  <2>2. \/ bare' = bare /\ UNCHANGED disk
        \/ bare' = bare \ {e} /\ disk'[e].jobs = mem[x][e]
    BY <1>14, WriteEffect DEF Close
  <2>3. \A d \in Entry : d # e => disk'[d] = disk[d]
    BY <1>14, WriteEffect DEF Close
  <2>4. \A y \in Call, d \in Entry :
          \/ phase'[y][d] = phase[y][d] /\ ~(y = x /\ d = e)
          \/ y = x /\ d = e /\ phase'[y][d] \in {"done", "error"}
    BY <1>14, GoEffect DEF Close
  <2>5. NotDoneYet'
    <3>1. ASSUME NEW y \in Call, NEW j \in Job, worker[y][j] # "none", EntryOf[j] = e
          PROVE  mem[x][e][j] # "done"
      <4>1. y = x
        BY <2>1, <3>1 DEF Alone, OneRunning, IdleCalls, WorkersHome
      <4> QED
        BY <3>1, <4>1 DEF Pending
    <3> QED
      BY <2>1, <2>2, <2>3, <3>1, EntryOfJobs DEF Results, NotDoneYet
  <2>6. WorkerHasResult' /\ ListHasResult'
    BY <2>1, <2>4, EntryOfJobs DEF Results, WorkerHasResult, ListHasResult, Busy
  <2>7. BeginIsBare'
    BY <2>1, <2>4, <2>2 DEF Busy, Alone, OneRunning, IdleCalls, Results, BeginIsBare
  <2>8. DoneHasResult'
    BY <2>1, <2>2, <2>3, EntryOfJobs DEF Results, DoneHasResult, ListHasResult
  <2> QED
    BY <2>5, <2>6, <2>7, <2>8 DEF Results
<1>15. ASSUME NEW x \in Call, NEW j \in Job, Acquire(x, j)
      PROVE  Results'
  BY <1>15, EntryOfJobs
  DEF Acquire, TypeOK, Alone, OneRunning, IdleCalls, WorkersHome, files,
      memory, Pending, NotDoneYet, WorkerHasResult, ListHasResult,
      BeginIsBare, DoneHasResult, Results, Busy
<1>16. ASSUME NEW x \in Call, NEW j \in Job, RunJob(x, j)
      PROVE  Results'
  <2>0. PICK outcome \in Terminal :
          /\ worker' = [worker EXCEPT ![x][j] = outcome]
          /\ \E left \in Leaves(x, j, outcome) : raw' = [raw EXCEPT ![j] = left]
    BY <1>16 DEF RunJob
  <2>1. PICK left \in Leaves(x, j, outcome) : raw' = [raw EXCEPT ![j] = left]
    BY <2>0
  <2>2. outcome = "done" => left.good
    BY <2>1 DEF Leaves
  <2>3. /\ worker[x][j] = "running"
        /\ UNCHANGED <<disk, bare, phase, mem>>
    BY <1>16 DEF RunJob, memory
  <2>4. /\ raw'[j] = left
        /\ \A i \in Job : i # j => raw'[i] = raw[i]
    BY <2>1 DEF TypeOK
  <2>5. \A y \in Call, i \in Job :
          worker'[y][i] = IF y = x /\ i = j THEN outcome ELSE worker[y][i]
    BY <2>0 DEF TypeOK
  <2>6. \A y \in Call : y # x => worker[y][j] = "none" /\ ~Busy(y, EntryOf[j])
    BY <2>3, EntryOfJobs DEF Busy, Alone, OneRunning, IdleCalls, WorkersHome
  <2>7. NotDoneYet'
    BY <2>3, <2>5 DEF Results, NotDoneYet
  <2>8. WorkerHasResult'
    BY <2>2, <2>4, <2>5, <2>6 DEF Results, WorkerHasResult
  <2>9. ListHasResult'
    BY <2>3, <2>4, <2>6 DEF Pending, Results, ListHasResult, Busy
  <2>10. BeginIsBare' /\ DoneHasResult'
    BY <2>3, <2>4 DEF Results, BeginIsBare, DoneHasResult, NotDoneYet
  <2> QED
    BY <2>7, <2>8, <2>9, <2>10 DEF Results
<1>17. CASE UNCHANGED vars
  BY <1>17, EntryOfJobs
  DEF vars, files, memory, TypeOK, Alone, OneRunning, IdleCalls, WorkersHome,
      Pending, NotDoneYet, WorkerHasResult, ListHasResult, BeginIsBare,
      DoneHasResult, Results, Busy
<1> QED
  BY <1>1, <1>2, <1>3, <1>4, <1>5, <1>6, <1>7, <1>8, <1>9,
     <1>10, <1>11, <1>12, <1>13, <1>14, <1>15, <1>16, <1>17
  DEF Next, EntryStep, WorkerStep

\* No file of an earlier call survives the clearing.
LEMMA FreshStep ==
  TypeOK /\ Alone /\ Pending /\ Fresh /\ [Next]_vars => Fresh'
<1> SUFFICES ASSUME TypeOK, Alone, Pending, Fresh, [Next]_vars
             PROVE  Fresh'
  OBVIOUS
<1>1. ASSUME NEW x \in Call, Select(x)
      PROVE  Fresh'
  BY <1>1, EntryOfJobs
  DEF Select, TypeOK, Alone, OneRunning, IdleCalls, WorkersHome, files,
      memory, Pending, NoComplaint, BeginIsClean, SameList, Written,
      FilesListed, NoStaleResult, Fresh, Busy
<1>2. ASSUME NEW x \in Call, Return(x)
      PROVE  Fresh'
  BY <1>2, EntryOfJobs
  DEF Return, Ends, TypeOK, Alone, OneRunning, IdleCalls, WorkersHome, files,
      Pending, NoComplaint, BeginIsClean, SameList, Written, FilesListed,
      NoStaleResult, Fresh, Busy
<1>3. ASSUME NEW x \in Call, Kill(x)
      PROVE  Fresh'
  <2>1. \A i \in Job : /\ worker[x][i] # "running" => raw'[i] = raw[i]
                       /\ worker[x][i] = "running" => raw'[i].by \in {None, x}
    BY <1>3 DEF Kill, TypeOK, NoFile
  <2>2. /\ UNCHANGED disk
        /\ \A y \in Call, d \in Entry : phase'[y][d] = "idle"
    BY <1>3 DEF Kill, Ends, TypeOK, Alone, OneRunning, IdleCalls
  <2>3. FilesListed'
    BY <2>1, <2>2 DEF Busy, Alone, WorkersHome, Pending, Unlisted, Fresh, SameList, FilesListed
  <2>4. NoComplaint' /\ BeginIsClean' /\ SameList' /\ Written' /\ NoStaleResult'
    BY <2>2, EntryOfJobs
    DEF NoComplaint, BeginIsClean, SameList, Written, NoStaleResult, Busy
  <2> QED
    BY <2>3, <2>4 DEF Fresh
<1>4. ASSUME NEW x \in Call, NEW e \in Entry, ClearEntryOutputs(x, e)
      PROVE  Fresh'
  <2>1. /\ phase[x][e] = "clear" /\ call[x] = "running"
        /\ UNCHANGED <<disk, mem, worker>>
    BY <1>4 DEF ClearEntryOutputs, memory, Alone, IdleCalls
  <2>2. \A j \in Job : /\ EntryOf[j] # e => raw'[j] = raw[j]
                       /\ EntryOf[j] = e /\ e \notin Undeletable => raw'[j].by = None
    BY <1>4 DEF ClearEntryOutputs, Previous, JobsOf, Fresh, FilesListed, NoFile
  <2>3. \A y \in Call, d \in Entry :
          \/ phase'[y][d] = phase[y][d] /\ ~(y = x /\ d = e)
          \/ y = x /\ d = e /\ phase'[y][d] = "begin"
    BY <1>4, GoEffect DEF ClearEntryOutputs
  <2>4. NoComplaint' /\ BeginIsClean' /\ FilesListed' /\ NoStaleResult'
    BY <2>1, <2>2, <2>3, EntryOfJobs
    DEF Fresh, NoComplaint, BeginIsClean, FilesListed, NoStaleResult
  <2>5. SameList' /\ Written'
    BY <2>1, <2>3, EntryOfJobs DEF Fresh, SameList, Written, Busy
  <2> QED
    BY <2>4, <2>5 DEF Fresh
<1>5. ASSUME NEW x \in Call, NEW e \in Entry, ClearFails(x, e)
      PROVE  Fresh'
  <2>1. /\ phase[x][e] = "clear" /\ call[x] = "running" /\ e \in Undeletable
        /\ UNCHANGED <<disk, mem>>
    BY <1>5 DEF ClearFails, memory, Alone, IdleCalls
  <2>2. \A j \in Job : EntryOf[j] # e => raw'[j] = raw[j]
    BY <1>5 DEF ClearFails, Previous, JobsOf, TypeOK
  <2>3. \A y \in Call, d \in Entry :
          \/ phase'[y][d] = phase[y][d] /\ ~(y = x /\ d = e)
          \/ y = x /\ d = e /\ phase'[y][d] = "complain"
    BY <1>5, GoEffect DEF ClearFails
  <2>4. NoComplaint' /\ BeginIsClean' /\ FilesListed' /\ NoStaleResult'
    BY <2>1, <2>2, <2>3, EntryOfJobs
    DEF Fresh, NoComplaint, BeginIsClean, FilesListed, NoStaleResult
  <2>5. SameList' /\ Written'
    BY <2>1, <2>3, EntryOfJobs DEF Fresh, SameList, Written, Busy
  <2> QED
    BY <2>4, <2>5 DEF Fresh
<1>6. ASSUME NEW x \in Call, NEW e \in Entry, Complain(x, e)
      PROVE  Fresh'
  <2>1. /\ phase[x][e] = "complain" /\ e \in Undeletable /\ call[x] = "running"
        /\ UNCHANGED <<raw, mem>>
    BY <1>6 DEF Complain, memory, Alone, IdleCalls, Fresh, NoComplaint
  <2>2. \A d \in Entry : d # e => disk'[d] = disk[d]
    BY <1>6, WriteEffect DEF Complain
  <2>3. \A y \in Call, d \in Entry :
          \/ phase'[y][d] = phase[y][d] /\ ~(y = x /\ d = e)
          \/ y = x /\ d = e /\ phase'[y][d] = "error"
    BY <1>6, GoEffect DEF Complain
  <2>4. NoComplaint' /\ BeginIsClean' /\ FilesListed' /\ NoStaleResult'
    BY <2>1, <2>2, <2>3, EntryOfJobs
    DEF Fresh, NoComplaint, BeginIsClean, FilesListed, NoStaleResult
  <2>5. \A y \in Call : y # x => phase[y][e] = "idle"
    BY <2>1 DEF Alone, OneRunning, IdleCalls
  <2>6. SameList' /\ Written'
    BY <2>1, <2>2, <2>3, <2>5, EntryOfJobs DEF Fresh, SameList, Written, Busy
  <2> QED
    BY <2>4, <2>6 DEF Fresh
<1>7. ASSUME NEW x \in Call, NEW e \in Entry, Begin(x, e)
      PROVE  Fresh'
  <2>1. PICK jobs \in [Job -> {Unlisted, "start", "skipped", "failed"}] :
          /\ WriteEntryStatus(e, DeriveEntryState(jobs), jobs)
          /\ mem' = [mem EXCEPT ![x][e] = jobs]
          /\ worker' = [worker EXCEPT ![x] = [j \in Job |->
               IF EntryOf[j] = e /\ jobs[j] = "start" THEN "wait" ELSE worker[x][j]]]
          /\ \/ Go(x, e, "work")
             \/ Go(x, e, "close") /\ \A j \in Job : EntryOf[j] = e => jobs[j] # "start"
    BY <1>7, BeginEffect
  <2>2. /\ phase[x][e] = "begin" /\ call[x] = "running"
        /\ UNCHANGED raw
    BY <1>7 DEF Begin, Alone, IdleCalls
  <2>3. \A d \in Entry : /\ d = e => disk'[d].jobs = jobs
                         /\ d # e => disk'[d] = disk[d]
    BY <2>1, WriteEffect
  <2>4. \A y \in Call, d \in Entry :
          \/ phase'[y][d] = phase[y][d] /\ ~(y = x /\ d = e)
          \/ y = x /\ d = e /\ phase'[y][d] \in {"work", "close"}
    BY <2>1, GoEffect
  <2>5. \A y \in Call, d \in Entry :
          mem'[y][d] = IF y = x /\ d = e THEN jobs ELSE mem[y][d]
    BY <2>1 DEF TypeOK
  <2>6. \A j \in Job : EntryOf[j] = e /\ e \notin Undeletable => raw[j].by = None
    BY <2>2 DEF Fresh, BeginIsClean
  <2>7. \A y \in Call : y # x => phase[y][e] = "idle"
    BY <2>2 DEF Alone, OneRunning, IdleCalls
  <2>8. NoComplaint' /\ BeginIsClean' /\ NoStaleResult'
    BY <2>2, <2>4, <2>6, EntryOfJobs
    DEF Fresh, NoComplaint, BeginIsClean, NoStaleResult
  <2>9. SameList'
    BY <2>3, <2>4, <2>5, <2>7, EntryOfJobs DEF Fresh, SameList, Busy
  <2>10. FilesListed'
    BY <2>2, <2>3, <2>6, EntryOfJobs DEF Fresh, FilesListed
  <2>11. Written'
    BY DeriveTypes, <2>1, WriteEffect, <2>3, <2>4 DEF State, Terminal, Fresh, Written, Busy
  <2> QED
    BY <2>8, <2>9, <2>10, <2>11 DEF Fresh
<1>8. ASSUME NEW x \in Call, NEW e \in Entry, BeginFails(x, e)
      PROVE  Fresh'
  BY <1>8, EntryOfJobs
  DEF BeginFails, Go, Fault, TypeOK, Alone, OneRunning, IdleCalls,
      WorkersHome, files, memory, Pending, NoComplaint, BeginIsClean,
      SameList, Written, FilesListed, NoStaleResult, Fresh, Busy
<1>9. ASSUME NEW x \in Call, NEW e \in Entry, NEW j \in Job, TakeStart(x, e, j)
      PROVE  Fresh'
  <2>1. /\ UNCHANGED <<disk, raw>>
        /\ phase[x][e] = "work" /\ EntryOf[j] = e /\ worker[x][j] # "none"
    BY <1>9 DEF TakeStart, JobsOf, files, Terminal
  <2>2. \A y \in Call, d \in Entry :
          \/ phase'[y][d] = phase[y][d] /\ ~(y = x /\ d = e)
          \/ y = x /\ d = e /\ phase'[y][d] = "write"
    BY <1>9, GoEffect DEF TakeStart
  <2>3. \A y \in Call, i \in Job :
          (mem'[y][EntryOf[i]][i] = Unlisted) = (mem[y][EntryOf[i]][i] = Unlisted)
    <3>1. mem[x][e][j] # Unlisted
      BY <2>1 DEF Pending, Unlisted
    <3>2. "running" # Unlisted
      BY <1>9 DEF TakeStart, Terminal, Unlisted
    <3>3. mem' = [mem EXCEPT ![x][e][j] = "running"]
      BY <1>9 DEF TakeStart
    <3> QED
      BY <2>1, <3>1, <3>2, <3>3, EntryOfJobs DEF TypeOK
  <2>4. NoComplaint' /\ BeginIsClean' /\ FilesListed' /\ NoStaleResult'
    BY <2>1, <2>2, EntryOfJobs
    DEF Fresh, NoComplaint, BeginIsClean, FilesListed, NoStaleResult
  <2>5. SameList' /\ Written'
    BY <2>1, <2>2, <2>3, EntryOfJobs DEF Fresh, SameList, Written, Busy
  <2> QED
    BY <2>4, <2>5 DEF Fresh
<1>10. ASSUME NEW x \in Call, NEW e \in Entry, NEW j \in Job, TakeOutcome(x, e, j)
      PROVE  Fresh'
  <2>1. /\ UNCHANGED <<disk, raw>>
        /\ phase[x][e] = "work" /\ EntryOf[j] = e /\ worker[x][j] # "none"
    BY <1>10 DEF TakeOutcome, JobsOf, files, Terminal
  <2>2. \A y \in Call, d \in Entry :
          \/ phase'[y][d] = phase[y][d] /\ ~(y = x /\ d = e)
          \/ y = x /\ d = e /\ phase'[y][d] = "write"
    BY <1>10, GoEffect DEF TakeOutcome
  <2>3. \A y \in Call, i \in Job :
          (mem'[y][EntryOf[i]][i] = Unlisted) = (mem[y][EntryOf[i]][i] = Unlisted)
    <3>1. mem[x][e][j] # Unlisted
      BY <2>1 DEF Pending, Unlisted
    <3>2. worker[x][j] # Unlisted
      BY <1>10 DEF TakeOutcome, Terminal, Unlisted
    <3>3. mem' = [mem EXCEPT ![x][e][j] = worker[x][j]]
      BY <1>10 DEF TakeOutcome
    <3> QED
      BY <2>1, <3>1, <3>2, <3>3, EntryOfJobs DEF TypeOK
  <2>4. NoComplaint' /\ BeginIsClean' /\ FilesListed' /\ NoStaleResult'
    BY <2>1, <2>2, EntryOfJobs
    DEF Fresh, NoComplaint, BeginIsClean, FilesListed, NoStaleResult
  <2>5. SameList' /\ Written'
    BY <2>1, <2>2, <2>3, EntryOfJobs DEF Fresh, SameList, Written, Busy
  <2> QED
    BY <2>4, <2>5 DEF Fresh
<1>11. ASSUME NEW x \in Call, NEW e \in Entry, WriteProgress(x, e)
      PROVE  Fresh'
  <2>1. /\ Busy(x, e) /\ call[x] = "running"
        /\ UNCHANGED <<raw, mem, worker>>
    BY <1>11 DEF WriteProgress, memory, Busy, Alone, IdleCalls
  <2>2. UNCHANGED disk \/ disk'[e].jobs = mem[x][e]
    BY <1>11, WriteEffect DEF WriteProgress
  <2>3. \A d \in Entry : d # e => disk'[d] = disk[d]
    BY <1>11, WriteEffect DEF WriteProgress
  <2>4. \A y \in Call, d \in Entry :
          \/ phase'[y][d] = phase[y][d] /\ ~(y = x /\ d = e)
          \/ y = x /\ d = e /\ phase'[y][d] \in {"work"}
    BY <1>11, GoEffect DEF WriteProgress
  <2>5. \A y \in Call : y # x => phase[y][e] = "idle"
    BY <2>1 DEF Busy, Alone, OneRunning, IdleCalls
  <2>6. NoComplaint' /\ BeginIsClean' /\ NoStaleResult'
    BY <2>1, <2>4, EntryOfJobs
    DEF Fresh, NoComplaint, BeginIsClean, NoStaleResult, Busy
  <2>7. SameList'
    BY <2>1, <2>2, <2>3, <2>4, <2>5, EntryOfJobs DEF Fresh, SameList, Busy
  <2>8. FilesListed'
    BY <2>1, <2>2, <2>3, EntryOfJobs DEF Fresh, FilesListed, SameList, Written
  <2>9. Written'
    <3>1. mem[x][e] \in [Job -> State \cup {Unlisted}]
      BY DEF TypeOK
    <3>2. DeriveEntryState(mem[x][e]) # "start"
      BY <3>1, DeriveTypes
    <3>3. UNCHANGED disk \/ disk'[e].state # "start"
      BY <1>11, <3>2, WriteEffect DEF WriteProgress
    <3> QED
      BY <2>1, <2>3, <2>4, <3>3 DEF Fresh, Written, Busy
  <2> QED
    BY <2>6, <2>7, <2>8, <2>9 DEF Fresh
<1>12. ASSUME NEW x \in Call, NEW e \in Entry, WriteProgressFails(x, e)
      PROVE  Fresh'
  BY <1>12, EntryOfJobs
  DEF WriteProgressFails, Go, Fault, TypeOK, Alone, OneRunning, IdleCalls,
      WorkersHome, files, Pending, NoComplaint, BeginIsClean, SameList,
      Written, FilesListed, NoStaleResult, Fresh, Busy
<1>13. ASSUME NEW x \in Call, NEW e \in Entry, Drained(x, e)
      PROVE  Fresh'
  BY <1>13, EntryOfJobs
  DEF Drained, Go, TypeOK, Alone, OneRunning, IdleCalls, WorkersHome, files,
      memory, JobsOf, Pending, NoComplaint, BeginIsClean, SameList, Written,
      FilesListed, NoStaleResult, Fresh, Busy
<1>14. ASSUME NEW x \in Call, NEW e \in Entry, Close(x, e)
      PROVE  Fresh'
  <2>1. /\ Busy(x, e) /\ call[x] = "running"
        /\ UNCHANGED <<raw, mem, worker>>
    BY <1>14 DEF Close, memory, Busy, Alone, IdleCalls
  <2>2. UNCHANGED disk \/ disk'[e].jobs = mem[x][e]
    BY <1>14, WriteEffect DEF Close
  <2>3. \A d \in Entry : d # e => disk'[d] = disk[d]
    BY <1>14, WriteEffect DEF Close
  <2>4. \A y \in Call, d \in Entry :
          \/ phase'[y][d] = phase[y][d] /\ ~(y = x /\ d = e)
          \/ y = x /\ d = e /\ phase'[y][d] \in {"done", "error"}
    BY <1>14, GoEffect DEF Close
  <2>5. \A y \in Call : y # x => phase[y][e] = "idle"
    BY <2>1 DEF Busy, Alone, OneRunning, IdleCalls
  <2>6. NoComplaint' /\ BeginIsClean' /\ NoStaleResult'
    BY <2>1, <2>4, EntryOfJobs
    DEF Fresh, NoComplaint, BeginIsClean, NoStaleResult, Busy
  <2>7. SameList'
    BY <2>1, <2>2, <2>3, <2>4, <2>5, EntryOfJobs DEF Fresh, SameList, Busy
  <2>8. FilesListed'
    BY <2>1, <2>2, <2>3, EntryOfJobs DEF Fresh, FilesListed, SameList, Written
  <2>9. Written'
    <3>1. mem[x][e] \in [Job -> State \cup {Unlisted}]
      BY DEF TypeOK
    <3>2. DeriveEntryState(mem[x][e]) # "start"
      BY <3>1, DeriveTypes
    <3>3. UNCHANGED disk \/ disk'[e].state # "start"
      BY <1>14, <3>2, WriteEffect DEF Close
    <3> QED
      BY <2>1, <2>3, <2>4, <3>3 DEF Fresh, Written, Busy
  <2> QED
    BY <2>6, <2>7, <2>8, <2>9 DEF Fresh
<1>15. ASSUME NEW x \in Call, NEW j \in Job, Acquire(x, j)
      PROVE  Fresh'
  BY <1>15, EntryOfJobs
  DEF Acquire, TypeOK, Alone, OneRunning, IdleCalls, WorkersHome, files,
      memory, Pending, NoComplaint, BeginIsClean, SameList, Written,
      FilesListed, NoStaleResult, Fresh, Busy
<1>16. ASSUME NEW x \in Call, NEW j \in Job, RunJob(x, j)
      PROVE  Fresh'
  <2>0. PICK outcome \in Terminal :
          /\ worker' = [worker EXCEPT ![x][j] = outcome]
          /\ \E left \in Leaves(x, j, outcome) : raw' = [raw EXCEPT ![j] = left]
    BY <1>16 DEF RunJob
  <2>1. PICK left \in Leaves(x, j, outcome) : raw' = [raw EXCEPT ![j] = left]
    BY <2>0
  <2>2. EntryOf[j] \notin Undeletable => left.by \in {None, x}
    <3>1. SUFFICES ASSUME EntryOf[j] \notin Undeletable PROVE left.by \in {None, x}
      OBVIOUS
    <3>2. left \in {NoFile} \cup [by : {x}, good : BOOLEAN]
      BY <2>1, <3>1 DEF Leaves
    <3> QED
      BY <3>2 DEF NoFile
  <2>3. /\ worker[x][j] = "running"
        /\ UNCHANGED <<disk, phase, mem>>
    BY <1>16 DEF RunJob, memory
  <2>4. /\ EntryOf[j] \notin Undeletable => raw'[j].by \in {None, x}
        /\ \A i \in Job : i # j => raw'[i] = raw[i]
    BY <2>1, <2>2 DEF TypeOK
  <2>5. Busy(x, EntryOf[j]) /\ disk[EntryOf[j]].jobs[j] # Unlisted
    BY <2>3 DEF Busy, Alone, WorkersHome, Pending, Unlisted, Fresh, SameList
  <2>6. \A y \in Call : y # x => phase[y][EntryOf[j]] = "idle"
    BY <2>5, EntryOfJobs DEF Busy, Alone, OneRunning, IdleCalls
  <2>7. NoComplaint' /\ SameList' /\ Written'
    BY <2>3 DEF Fresh, NoComplaint, SameList, Written, Busy
  <2>8. BeginIsClean' /\ NoStaleResult'
    BY <2>3, <2>4, <2>5, <2>6 DEF Fresh, BeginIsClean, NoStaleResult, Busy
  <2>9. FilesListed'
    BY <2>3, <2>4, <2>5 DEF Fresh, FilesListed
  <2> QED
    BY <2>7, <2>8, <2>9 DEF Fresh
<1>17. CASE UNCHANGED vars
  BY <1>17, EntryOfJobs
  DEF vars, files, memory, TypeOK, Alone, OneRunning, IdleCalls, WorkersHome,
      Pending, NoComplaint, BeginIsClean, SameList, Written, FilesListed,
      NoStaleResult, Fresh, Busy
<1> QED
  BY <1>1, <1>2, <1>3, <1>4, <1>5, <1>6, <1>7, <1>8, <1>9,
     <1>10, <1>11, <1>12, <1>13, <1>14, <1>15, <1>16, <1>17
  DEF Next, EntryStep, WorkerStep

-----------------------------------------------------------------------------
\* The invariants hold at the start: nothing runs and nothing is written.
LEMMA InitTypes == Init => TypeOK
BY ScanBounds DEF Init, TypeOK, NoFile, NoJobs, State, Terminal, Phase, Worker

\* At the start no worker holds a token.
LEMMA InitBounded == Init => Bounded
<1> SUFFICES ASSUME Init, NEW x \in Call
             PROVE  IsFiniteSet(Holding(x)) /\ Cardinality(Holding(x)) <= Parallel
  BY DEF Bounded
<1>1. Holding(x) = {}
  BY DEF Init, Holding
<1> QED
  BY <1>1, FS_EmptySet, ParallelIsPositive

\* At the start no call runs, and no entry has a file.
LEMMA InitSerial == Init => SerialInv
<1> SUFFICES ASSUME Init
             PROVE  SerialInv
  OBVIOUS
<1>1. TypeOK
  BY InitTypes
<1>2. Alone /\ Pending
  BY EntryOfJobs DEF Init, Alone, OneRunning, IdleCalls, WorkersHome, Pending
<1>3. NoEarlyEnd
  BY DEF Init, NoEarlyEnd
<1>4. Results
  BY EntryOfJobs
  DEF Init, Results, NotDoneYet, WorkerHasResult, ListHasResult, BeginIsBare,
      DoneHasResult, Busy, NoJobs, Unlisted
<1> QED
  BY <1>1, <1>2, <1>3, <1>4 DEF SerialInv

\* At the start there is no file of an earlier call.
LEMMA InitFresh == Init => Fresh
BY EntryOfJobs
DEF Init, Fresh, NoComplaint, BeginIsClean, SameList, Written, FilesListed,
    NoStaleResult, Busy, NoFile

-----------------------------------------------------------------------------

\* Every variable keeps its type: an entry's file names a state the derivation
\* gives, a file under raw/ belongs to a call (review.executeEntry).
THEOREM TypeCorrect == Spec => []TypeOK
<1> QED
  BY InitTypes, TypeStep, PTL DEF Spec

\* The tokens of Execute bound the jobs of a call, however many entries and
\* calls there are.
THEOREM TokensBound == Spec => []ParallelBound
<1>1. Bounded => ParallelBound
  BY DEF Bounded, ParallelBound
<1> QED
  BY <1>1, InitTypes, InitBounded, TypeStep, BoundStep, PTL DEF Spec

\* The invariant of calls that come one after the other.
LEMMA SerialInvariance ==
  ASSUME MaxActive = 1
  PROVE  Spec => []SerialInv
<1>1. SerialInv /\ [Next]_vars => SerialInv'
  BY TypeStep, AloneStep, PendingStep, EarlyStep, ResultsStep DEF SerialInv
<1> QED
  BY <1>1, InitSerial, PTL DEF Spec

\* Rule 0 of DeriveEntryState: an entry's file names no end state while one of
\* its jobs waits or runs.
THEOREM EndStateIsLast ==
  ASSUME MaxActive = 1
  PROVE  Spec => []NoEarlyEnd
<1>1. SerialInv => NoEarlyEnd
  BY DEF SerialInv
<1> QED
  BY <1>1, SerialInvariance, PTL

\* A job that the entry's file calls done has readable SARIF, through failed
\* writes, files that stay and kills (runJob, executeEntry).
THEOREM DoneIsReadable ==
  ASSUME MaxActive = 1
  PROVE  Spec => []DoneHasResult
<1>1. SerialInv => DoneHasResult
  BY DEF SerialInv, Results
<1> QED
  BY <1>1, SerialInvariance, PTL

\* clearEntryOutputs: once a call has begun an entry whose files can be removed,
\* nothing of an earlier call lies under raw/ for it, whatever the others do.
THEOREM NoLeftovers ==
  ASSUME MaxActive = 1
  PROVE  Spec => []NoStaleResult
<1>1. SerialInv /\ Fresh /\ [Next]_vars => Fresh'
  BY FreshStep DEF SerialInv
<1>2. Fresh => NoStaleResult
  BY DEF Fresh
<1> QED
  BY <1>1, <1>2, SerialInvariance, InitFresh, PTL DEF Spec

-----------------------------------------------------------------------------
(***************************************************************************)
(* The notifications of progress (ProgressEmitter): the sender of the one   *)
(* under way holds the mutex, and what is counted stays counted.           *)
(***************************************************************************)

\* The sender of the notification under way is the one that holds sendMu.
SenderKnown ==
  /\ flight.by # NoGoroutine => at[flight.by] = "send"
  /\ flight.by = NoGoroutine => flight.progress = 0

\* The tool stops the emitter after Execute, and waits for the heartbeat.
StopsLast ==
  /\ stopped => at[Caller] \in {"send", "wait", "returned"}
  /\ at[Caller] # "execute" => \A e \in ScanEntry : at[e] = "ended"
  /\ at[Caller] = "returned" => at[Beat] = "ended"

\* A file with an end state gets no other state, so what is counted stays so.
CountedStay ==
  /\ \A e \in ScanEntry : entryFile[e] \in FileTerminal \/ at[e] = "begin" => updatesLeft[e] = 0
  /\ \A e \in completed : at[e] # "begin" /\ entryFile[e] \in FileTerminal

\* Without a fault the last update writes the end state and reports it.
LastReported ==
  fileFaults = 0 => \A e \in ScanEntry :
    /\ at[e] # "begin" /\ updatesLeft[e] = 0 => entryFile[e] \in FileTerminal
    /\ at[e] \in {"emit", "send", "update", "ended"} /\ updatesLeft[e] = 0 => e \in completed
    /\ at[e] = "ended" => updatesLeft[e] = 0

\* What was told, what is being told and what is counted, in this order.
ToldInOrder ==
  /\ shown <= Cardinality(completed)
  /\ flight.progress <= Cardinality(completed)
  /\ flight.by # NoGoroutine => shown <= flight.progress

EInv == EmitTypeOK /\ SenderKnown /\ StopsLast /\ CountedStay /\ LastReported /\ ToldInOrder

-----------------------------------------------------------------------------
\* The number of the counted entries is a number up to that of all.
LEMMA CountType ==
  ASSUME NEW S \in SUBSET ScanEntry
  PROVE  Cardinality(S) \in 0..Cardinality(ScanEntry)
  BY FiniteEntries, FS_Subset, FS_CardinalityType

\* Nothing counted, nothing shown.
LEMMA NoCount == 0 \in 0..Cardinality(ScanEntry) /\ Cardinality({}) = 0
  BY CountType, FS_EmptySet

\* Every step keeps the types.
LEMMA EmitTypeStep ==
  EmitTypeOK /\ [EmitNext]_emitVars => EmitTypeOK'
<1> SUFFICES ASSUME EmitTypeOK, [EmitNext]_emitVars
             PROVE  EmitTypeOK'
  OBVIOUS
<1> USE ActorsDiffer, EmitterBounds
    DEF EmitTypeOK, Goroutine, FileState, FileTerminal, EntryPC, BeatPC, CallerPC, NoFlight
<1>1. ASSUME NEW e \in ScanEntry, EntryBegin(e) PROVE EmitTypeOK'
  BY <1>1 DEF EntryBegin, EmitGoto, DerivedState, recordVars, timerVars
<1>2. ASSUME NEW e \in ScanEntry, EntryBeginFails(e) PROVE EmitTypeOK'
  BY <1>2 DEF EntryBeginFails, EmitGoto, FileFault, recordVars, timerVars
<1>3. ASSUME NEW e \in ScanEntry, EntryUpdate(e) PROVE EmitTypeOK'
  BY <1>3 DEF EntryUpdate, EmitGoto, DerivedState, FileFault, recordVars, timerVars
<1>4. ASSUME NEW e \in ScanEntry, EntryClose(e) PROVE EmitTypeOK'
  BY <1>4 DEF EntryClose, EmitGoto, FileFault, recordVars, timerVars
<1>5. ASSUME NEW e \in ScanEntry, EmitRecord(e) PROVE EmitTypeOK'
  BY <1>5 DEF EmitRecord, EmitGoto, fileVars, timerVars
<1>6. ASSUME NEW a \in ScanEntry \cup {Beat}, Params(a) PROVE EmitTypeOK'
  BY <1>6, CountType DEF Params, EmitGoto, fileVars, recordVars, timerVars
<1>7. ASSUME NEW a \in ScanEntry \cup {Beat}, ParamsNone(a) PROVE EmitTypeOK'
  BY <1>7 DEF ParamsNone, EmitGoto, AfterEmit, fileVars, recordVars
<1>8. ASSUME NEW a \in ScanEntry \cup {Beat}, Notify(a) PROVE EmitTypeOK'
  BY <1>8, NoCount DEF Notify, EmitGoto, AfterEmit, fileVars, recordVars
<1>9. CASE BeatTimer
  BY <1>9 DEF BeatTimer, EmitGoto, fileVars, recordVars
<1>10. CASE BeatReset
  BY <1>10 DEF BeatReset, fileVars, recordVars
<1>11. CASE BeatStop
  BY <1>11 DEF BeatStop, EmitGoto, fileVars, recordVars, timerVars
<1>12. CASE ExecuteReturns
  BY <1>12 DEF ExecuteReturns, EmitGoto, fileVars, recordVars, timerVars
<1>13. CASE StopParams
  BY <1>13, CountType DEF StopParams, EmitGoto, fileVars, timerVars
<1>14. CASE StopNotify
  BY <1>14, NoCount DEF StopNotify, EmitGoto, fileVars, recordVars, timerVars
<1>15. CASE StopWaits
  BY <1>15 DEF StopWaits, EmitGoto, fileVars, recordVars, timerVars
<1>16. CASE DebounceOver
  BY <1>16 DEF DebounceOver, fileVars, recordVars, timerVars
<1>17. CASE TimerFires
  BY <1>17 DEF TimerFires, fileVars, recordVars
<1>18. CASE UNCHANGED emitVars
  BY <1>18 DEF emitVars, fileVars, recordVars, timerVars
<1> QED
  BY <1>1, <1>2, <1>3, <1>4, <1>5, <1>6, <1>7, <1>8, <1>9, <1>10, <1>11, <1>12,
     <1>13, <1>14, <1>15, <1>16, <1>17, <1>18
  DEF EmitNext, EntryEmits, EmitStep, BeatStep, CallerStep, EmitClock

\* Only the sender of the notification under way goes on from there.
LEMMA SenderStep ==
  EmitTypeOK /\ SenderKnown /\ [EmitNext]_emitVars => SenderKnown'
<1> SUFFICES ASSUME EmitTypeOK, SenderKnown, [EmitNext]_emitVars
             PROVE  SenderKnown'
  OBVIOUS
<1> USE ActorsDiffer, EmitterBounds
    DEF EmitTypeOK, Goroutine, FileState, FileTerminal, EntryPC, BeatPC, CallerPC, NoFlight, SenderKnown
<1>1. ASSUME NEW e \in ScanEntry, EntryBegin(e) PROVE SenderKnown'
  BY <1>1 DEF EntryBegin, EmitGoto, DerivedState, recordVars, timerVars
<1>2. ASSUME NEW e \in ScanEntry, EntryBeginFails(e) PROVE SenderKnown'
  BY <1>2 DEF EntryBeginFails, EmitGoto, FileFault, recordVars, timerVars
<1>3. ASSUME NEW e \in ScanEntry, EntryUpdate(e) PROVE SenderKnown'
  BY <1>3 DEF EntryUpdate, EmitGoto, DerivedState, FileFault, recordVars, timerVars
<1>4. ASSUME NEW e \in ScanEntry, EntryClose(e) PROVE SenderKnown'
  BY <1>4 DEF EntryClose, EmitGoto, FileFault, recordVars, timerVars
<1>5. ASSUME NEW e \in ScanEntry, EmitRecord(e) PROVE SenderKnown'
  BY <1>5 DEF EmitRecord, EmitGoto, fileVars, timerVars
<1>6. ASSUME NEW a \in ScanEntry \cup {Beat}, Params(a) PROVE SenderKnown'
  BY <1>6 DEF Params, EmitGoto, fileVars, recordVars, timerVars
<1>7. ASSUME NEW a \in ScanEntry \cup {Beat}, ParamsNone(a) PROVE SenderKnown'
  BY <1>7 DEF ParamsNone, EmitGoto, AfterEmit, fileVars, recordVars
<1>8. ASSUME NEW a \in ScanEntry \cup {Beat}, Notify(a) PROVE SenderKnown'
  BY <1>8 DEF Notify, EmitGoto, AfterEmit, fileVars, recordVars
<1>9. CASE BeatTimer
  BY <1>9 DEF BeatTimer, EmitGoto, fileVars, recordVars
<1>10. CASE BeatReset
  BY <1>10 DEF BeatReset, fileVars, recordVars
<1>11. CASE BeatStop
  BY <1>11 DEF BeatStop, EmitGoto, fileVars, recordVars, timerVars
<1>12. CASE ExecuteReturns
  BY <1>12 DEF ExecuteReturns, EmitGoto, fileVars, recordVars, timerVars
<1>13. CASE StopParams
  BY <1>13 DEF StopParams, EmitGoto, fileVars, timerVars
<1>14. CASE StopNotify
  BY <1>14 DEF StopNotify, EmitGoto, fileVars, recordVars, timerVars
<1>15. CASE StopWaits
  BY <1>15 DEF StopWaits, EmitGoto, fileVars, recordVars, timerVars
<1>16. CASE DebounceOver
  BY <1>16 DEF DebounceOver, fileVars, recordVars, timerVars
<1>17. CASE TimerFires
  BY <1>17 DEF TimerFires, fileVars, recordVars
<1>18. CASE UNCHANGED emitVars
  BY <1>18 DEF emitVars, fileVars, recordVars, timerVars
<1> QED
  BY <1>1, <1>2, <1>3, <1>4, <1>5, <1>6, <1>7, <1>8, <1>9, <1>10, <1>11, <1>12,
     <1>13, <1>14, <1>15, <1>16, <1>17, <1>18
  DEF EmitNext, EntryEmits, EmitStep, BeatStep, CallerStep, EmitClock

\* The entries have ended before the stop, the heartbeat before the answer.
LEMMA StopsStep ==
  EmitTypeOK /\ SenderKnown /\ StopsLast /\ [EmitNext]_emitVars => StopsLast'
<1> SUFFICES ASSUME EmitTypeOK, SenderKnown, StopsLast, [EmitNext]_emitVars
             PROVE  StopsLast'
  OBVIOUS
<1> USE ActorsDiffer, EmitterBounds
    DEF EmitTypeOK, Goroutine, FileState, FileTerminal, EntryPC, BeatPC, CallerPC, NoFlight, SenderKnown, StopsLast
<1>1. ASSUME NEW e \in ScanEntry, EntryBegin(e) PROVE StopsLast'
  BY <1>1 DEF EntryBegin, EmitGoto, DerivedState, recordVars, timerVars
<1>2. ASSUME NEW e \in ScanEntry, EntryBeginFails(e) PROVE StopsLast'
  BY <1>2 DEF EntryBeginFails, EmitGoto, FileFault, recordVars, timerVars
<1>3. ASSUME NEW e \in ScanEntry, EntryUpdate(e) PROVE StopsLast'
  BY <1>3 DEF EntryUpdate, EmitGoto, DerivedState, FileFault, recordVars, timerVars
<1>4. ASSUME NEW e \in ScanEntry, EntryClose(e) PROVE StopsLast'
  BY <1>4 DEF EntryClose, EmitGoto, FileFault, recordVars, timerVars
<1>5. ASSUME NEW e \in ScanEntry, EmitRecord(e) PROVE StopsLast'
  BY <1>5 DEF EmitRecord, EmitGoto, fileVars, timerVars
<1>6. ASSUME NEW a \in ScanEntry \cup {Beat}, Params(a) PROVE StopsLast'
  BY <1>6 DEF Params, EmitGoto, fileVars, recordVars, timerVars
<1>7. ASSUME NEW a \in ScanEntry \cup {Beat}, ParamsNone(a) PROVE StopsLast'
  BY <1>7 DEF ParamsNone, EmitGoto, AfterEmit, fileVars, recordVars
<1>8. ASSUME NEW a \in ScanEntry \cup {Beat}, Notify(a) PROVE StopsLast'
  BY <1>8 DEF Notify, EmitGoto, AfterEmit, fileVars, recordVars
<1>9. CASE BeatTimer
  BY <1>9 DEF BeatTimer, EmitGoto, fileVars, recordVars
<1>10. CASE BeatReset
  BY <1>10 DEF BeatReset, fileVars, recordVars
<1>11. CASE BeatStop
  BY <1>11 DEF BeatStop, EmitGoto, fileVars, recordVars, timerVars
<1>12. CASE ExecuteReturns
  BY <1>12 DEF ExecuteReturns, EmitGoto, fileVars, recordVars, timerVars
<1>13. CASE StopParams
  BY <1>13 DEF StopParams, EmitGoto, fileVars, timerVars
<1>14. CASE StopNotify
  BY <1>14 DEF StopNotify, EmitGoto, fileVars, recordVars, timerVars
<1>15. CASE StopWaits
  BY <1>15 DEF StopWaits, EmitGoto, fileVars, recordVars, timerVars
<1>16. CASE DebounceOver
  BY <1>16 DEF DebounceOver, fileVars, recordVars, timerVars
<1>17. CASE TimerFires
  BY <1>17 DEF TimerFires, fileVars, recordVars
<1>18. CASE UNCHANGED emitVars
  BY <1>18 DEF emitVars, fileVars, recordVars, timerVars
<1> QED
  BY <1>1, <1>2, <1>3, <1>4, <1>5, <1>6, <1>7, <1>8, <1>9, <1>10, <1>11, <1>12,
     <1>13, <1>14, <1>15, <1>16, <1>17, <1>18
  DEF EmitNext, EntryEmits, EmitStep, BeatStep, CallerStep, EmitClock

\* An end state stays, and with it what was counted.
LEMMA CountedStep ==
  EmitTypeOK /\ CountedStay /\ [EmitNext]_emitVars => CountedStay' /\ completed \subseteq completed'
<1> SUFFICES ASSUME EmitTypeOK, CountedStay, [EmitNext]_emitVars
             PROVE  CountedStay' /\ completed \subseteq completed'
  OBVIOUS
<1> USE ActorsDiffer, EmitterBounds
    DEF EmitTypeOK, Goroutine, FileState, FileTerminal, EntryPC, BeatPC, CallerPC, NoFlight, CountedStay
<1>1. ASSUME NEW e \in ScanEntry, EntryBegin(e) PROVE CountedStay' /\ completed \subseteq completed'
  BY <1>1 DEF EntryBegin, EmitGoto, DerivedState, recordVars, timerVars
<1>2. ASSUME NEW e \in ScanEntry, EntryBeginFails(e) PROVE CountedStay' /\ completed \subseteq completed'
  BY <1>2 DEF EntryBeginFails, EmitGoto, FileFault, recordVars, timerVars
<1>3. ASSUME NEW e \in ScanEntry, EntryUpdate(e) PROVE CountedStay' /\ completed \subseteq completed'
  BY <1>3 DEF EntryUpdate, EmitGoto, DerivedState, FileFault, recordVars, timerVars
<1>4. ASSUME NEW e \in ScanEntry, EntryClose(e) PROVE CountedStay' /\ completed \subseteq completed'
  BY <1>4 DEF EntryClose, EmitGoto, FileFault, recordVars, timerVars
<1>5. ASSUME NEW e \in ScanEntry, EmitRecord(e) PROVE CountedStay' /\ completed \subseteq completed'
  BY <1>5 DEF EmitRecord, EmitGoto, fileVars, timerVars
<1>6. ASSUME NEW a \in ScanEntry \cup {Beat}, Params(a) PROVE CountedStay' /\ completed \subseteq completed'
  BY <1>6 DEF Params, EmitGoto, fileVars, recordVars, timerVars
<1>7. ASSUME NEW a \in ScanEntry \cup {Beat}, ParamsNone(a) PROVE CountedStay' /\ completed \subseteq completed'
  BY <1>7 DEF ParamsNone, EmitGoto, AfterEmit, fileVars, recordVars
<1>8. ASSUME NEW a \in ScanEntry \cup {Beat}, Notify(a) PROVE CountedStay' /\ completed \subseteq completed'
  BY <1>8 DEF Notify, EmitGoto, AfterEmit, fileVars, recordVars
<1>9. CASE BeatTimer
  BY <1>9 DEF BeatTimer, EmitGoto, fileVars, recordVars
<1>10. CASE BeatReset
  BY <1>10 DEF BeatReset, fileVars, recordVars
<1>11. CASE BeatStop
  BY <1>11 DEF BeatStop, EmitGoto, fileVars, recordVars, timerVars
<1>12. CASE ExecuteReturns
  BY <1>12 DEF ExecuteReturns, EmitGoto, fileVars, recordVars, timerVars
<1>13. CASE StopParams
  BY <1>13 DEF StopParams, EmitGoto, fileVars, timerVars
<1>14. CASE StopNotify
  BY <1>14 DEF StopNotify, EmitGoto, fileVars, recordVars, timerVars
<1>15. CASE StopWaits
  BY <1>15 DEF StopWaits, EmitGoto, fileVars, recordVars, timerVars
<1>16. CASE DebounceOver
  BY <1>16 DEF DebounceOver, fileVars, recordVars, timerVars
<1>17. CASE TimerFires
  BY <1>17 DEF TimerFires, fileVars, recordVars
<1>18. CASE UNCHANGED emitVars
  BY <1>18 DEF emitVars, fileVars, recordVars, timerVars
<1> QED
  BY <1>1, <1>2, <1>3, <1>4, <1>5, <1>6, <1>7, <1>8, <1>9, <1>10, <1>11, <1>12,
     <1>13, <1>14, <1>15, <1>16, <1>17, <1>18
  DEF EmitNext, EntryEmits, EmitStep, BeatStep, CallerStep, EmitClock

\* The entry reports its end state before it ends.
LEMMA ReportedStep ==
  EmitTypeOK /\ StopsLast /\ CountedStay /\ LastReported /\ [EmitNext]_emitVars => LastReported'
<1> SUFFICES ASSUME EmitTypeOK, StopsLast, CountedStay, LastReported, [EmitNext]_emitVars
             PROVE  LastReported'
  OBVIOUS
<1> USE ActorsDiffer, EmitterBounds
    DEF EmitTypeOK, Goroutine, FileState, FileTerminal, EntryPC, BeatPC, CallerPC, NoFlight, StopsLast, CountedStay, LastReported
<1>1. ASSUME NEW e \in ScanEntry, EntryBegin(e) PROVE LastReported'
  BY <1>1 DEF EntryBegin, EmitGoto, DerivedState, recordVars, timerVars
<1>2. ASSUME NEW e \in ScanEntry, EntryBeginFails(e) PROVE LastReported'
  BY <1>2 DEF EntryBeginFails, EmitGoto, FileFault, recordVars, timerVars
<1>3. ASSUME NEW e \in ScanEntry, EntryUpdate(e) PROVE LastReported'
  BY <1>3 DEF EntryUpdate, EmitGoto, DerivedState, FileFault, recordVars, timerVars
<1>4. ASSUME NEW e \in ScanEntry, EntryClose(e) PROVE LastReported'
  BY <1>4 DEF EntryClose, EmitGoto, FileFault, recordVars, timerVars
<1>5. ASSUME NEW e \in ScanEntry, EmitRecord(e) PROVE LastReported'
  BY <1>5 DEF EmitRecord, EmitGoto, fileVars, timerVars
<1>6. ASSUME NEW a \in ScanEntry \cup {Beat}, Params(a) PROVE LastReported'
  BY <1>6 DEF Params, EmitGoto, fileVars, recordVars, timerVars
<1>7. ASSUME NEW a \in ScanEntry \cup {Beat}, ParamsNone(a) PROVE LastReported'
  BY <1>7 DEF ParamsNone, EmitGoto, AfterEmit, fileVars, recordVars
<1>8. ASSUME NEW a \in ScanEntry \cup {Beat}, Notify(a) PROVE LastReported'
  BY <1>8 DEF Notify, EmitGoto, AfterEmit, fileVars, recordVars
<1>9. CASE BeatTimer
  BY <1>9 DEF BeatTimer, EmitGoto, fileVars, recordVars
<1>10. CASE BeatReset
  BY <1>10 DEF BeatReset, fileVars, recordVars
<1>11. CASE BeatStop
  BY <1>11 DEF BeatStop, EmitGoto, fileVars, recordVars, timerVars
<1>12. CASE ExecuteReturns
  BY <1>12 DEF ExecuteReturns, EmitGoto, fileVars, recordVars, timerVars
<1>13. CASE StopParams
  BY <1>13 DEF StopParams, EmitGoto, fileVars, timerVars
<1>14. CASE StopNotify
  BY <1>14 DEF StopNotify, EmitGoto, fileVars, recordVars, timerVars
<1>15. CASE StopWaits
  BY <1>15 DEF StopWaits, EmitGoto, fileVars, recordVars, timerVars
<1>16. CASE DebounceOver
  BY <1>16 DEF DebounceOver, fileVars, recordVars, timerVars
<1>17. CASE TimerFires
  BY <1>17 DEF TimerFires, fileVars, recordVars
<1>18. CASE UNCHANGED emitVars
  BY <1>18 DEF emitVars, fileVars, recordVars, timerVars
<1> QED
  BY <1>1, <1>2, <1>3, <1>4, <1>5, <1>6, <1>7, <1>8, <1>9, <1>10, <1>11, <1>12,
     <1>13, <1>14, <1>15, <1>16, <1>17, <1>18
  DEF EmitNext, EntryEmits, EmitStep, BeatStep, CallerStep, EmitClock

\* What is counted grows, so a message sent later tells no less.
LEMMA ToldStep ==
  EmitTypeOK /\ SenderKnown /\ CountedStay /\ ToldInOrder /\ [EmitNext]_emitVars => ToldInOrder'
<1> SUFFICES ASSUME EmitTypeOK, SenderKnown, CountedStay, ToldInOrder, [EmitNext]_emitVars
             PROVE  ToldInOrder'
  OBVIOUS
<1>1. Cardinality(completed) <= Cardinality(completed')
  BY EmitTypeStep, CountedStep, FiniteEntries, FS_Subset DEF EmitTypeOK
<1>2. /\ Cardinality(completed) \in Nat /\ Cardinality(completed') \in Nat
      /\ shown \in Nat /\ flight.progress \in Nat
  BY FiniteEntries, FS_CardinalityType, EmitTypeStep, CountType DEF EmitTypeOK
<1>3. CASE shown' = shown /\ flight' = flight
  BY <1>1, <1>2, <1>3 DEF ToldInOrder
<1>4. CASE shown' = shown /\ completed' = completed /\ flight'.progress = Cardinality(completed)
  BY <1>2, <1>4 DEF ToldInOrder
<1>5. CASE /\ shown' = flight.progress /\ completed' = completed /\ flight' = NoFlight
           /\ flight.by # NoGoroutine
  BY <1>2, <1>5 DEF ToldInOrder, NoFlight
<1>6. \/ shown' = shown /\ flight' = flight
      \/ shown' = shown /\ completed' = completed /\ flight'.progress = Cardinality(completed)
      \/ /\ shown' = flight.progress /\ completed' = completed /\ flight' = NoFlight
         /\ flight.by # NoGoroutine
  <2> USE ActorsDiffer DEF fileVars, recordVars, timerVars
  <2>1. ASSUME NEW e \in ScanEntry, EntryEmits(e) PROVE shown' = shown /\ flight' = flight
    BY <2>1 DEF EntryEmits, EntryBegin, EntryBeginFails, EntryUpdate, EntryClose, EmitRecord
  <2>2. ASSUME NEW a \in ScanEntry \cup {Beat}, EmitStep(a) PROVE <1>6!:
    BY <2>2 DEF EmitStep, Params, ParamsNone, Notify
  <2>3. CASE BeatStep \/ EmitClock
    BY <2>3 DEF BeatStep, BeatTimer, BeatReset, BeatStop, EmitClock, DebounceOver, TimerFires
  <2>4. CASE CallerStep
    BY <2>4 DEF CallerStep, ExecuteReturns, StopParams, StopNotify, StopWaits
  <2>5. CASE UNCHANGED emitVars
    BY <2>5 DEF emitVars
  <2> QED
    BY <2>1, <2>2, <2>3, <2>4, <2>5 DEF EmitNext
<1> QED
  BY <1>3, <1>4, <1>5, <1>6

-----------------------------------------------------------------------------
LEMMA InitEInv == EmitInit => EInv
<1> SUFFICES ASSUME EmitInit PROVE EInv
  OBVIOUS
<1> USE ActorsDiffer, EmitterBounds, NoCount DEF EmitInit, NoFlight
<1>1. EmitTypeOK
  <2>1. /\ at \in [Goroutine -> EntryPC \cup BeatPC \cup CallerPC]
        /\ \A e \in ScanEntry : at[e] = "begin"
        /\ at[Beat] = "select" /\ at[Caller] = "execute"
    BY DEF Goroutine, EntryPC, BeatPC, CallerPC
  <2>2. flight \in [by : Goroutine \cup {NoGoroutine}, progress : 0..Cardinality(ScanEntry)]
    OBVIOUS
  <2>3. updatesLeft \in [ScanEntry -> 0..MaxUpdates] /\ fileFaults \in 0..MaxFileFaults
    OBVIOUS
  <2> QED
    BY <2>1, <2>2, <2>3 DEF EmitTypeOK, FileState, EntryPC, BeatPC, CallerPC
<1>2. SenderKnown /\ StopsLast /\ CountedStay /\ ToldInOrder
  BY DEF SenderKnown, StopsLast, CountedStay, ToldInOrder, FileTerminal, Goroutine
<1>3. LastReported
  BY DEF LastReported, FileTerminal, Goroutine
<1> QED
  BY <1>1, <1>2, <1>3 DEF EInv

LEMMA NextEInv == EInv /\ [EmitNext]_emitVars => EInv'
  BY EmitTypeStep, SenderStep, StopsStep, CountedStep, ReportedStep, ToldStep DEF EInv

\* mcpserver/progress.go: the strengthened invariant, from which the rest follows.
THEOREM EmitInvariance == EmitSpec => []EInv
  BY InitEInv, NextEInv, PTL DEF EmitSpec

\* mcpserver/progress.go: the types.
THEOREM EmitTypes == EmitSpec => []EmitTypeOK
<1>1. EInv => EmitTypeOK
  BY DEF EInv
<1> QED
  BY <1>1, EmitInvariance, PTL

\* mcpserver/progress.go: a notification counts only entries whose file has an
\* end state of this scan, the count at the stop is complete where no write
\* failed, and nothing goes on when the tool answers.
THEOREM CountIsHonest == EmitSpec => []CountHonest
<1>1. EInv => NeverAhead
  <2> SUFFICES ASSUME EInv PROVE NeverAhead
    OBVIOUS
  <2> DEFINE Ended == {e \in ScanEntry : entryFile[e] \in FileTerminal /\ at[e] # "begin"}
  <2>1. completed \subseteq Ended /\ Ended \subseteq ScanEntry
    BY DEF EInv, EmitTypeOK, CountedStay
  <2>2. IsFiniteSet(Ended)
    BY <2>1, FiniteEntries, FS_Subset
  <2>3. Cardinality(completed) <= Cardinality(Ended)
    BY <2>1, <2>2, FS_Subset
  <2>4. Cardinality(completed) \in Nat /\ Cardinality(Ended) \in Nat /\ flight.progress \in Nat
    <3>1. Cardinality(ScanEntry) \in Nat
      BY FiniteEntries, FS_CardinalityType
    <3>2. completed \in SUBSET ScanEntry /\ Ended \in SUBSET ScanEntry
      BY <2>1
    <3>3. flight.progress \in 0..Cardinality(ScanEntry)
      BY DEF EInv, EmitTypeOK
    <3> HIDE DEF Ended
    <3> QED
      BY <3>1, <3>2, <3>3, CountType
  <2>5. flight.progress <= Cardinality(completed)
    BY DEF EInv, ToldInOrder
  <2>6. flight.progress <= Cardinality(Ended)
    <3> HIDE DEF Ended
    <3> QED
      BY <2>3, <2>4, <2>5
  <2> QED
    BY <2>6 DEF NeverAhead
<1>2. EInv => FinalCount
  BY DEF EInv, EmitTypeOK, StopsLast, LastReported, FinalCount
<1>3. EInv => QuietAfterReturn
  BY ActorsDiffer DEF EInv, EmitTypeOK, Goroutine, SenderKnown, StopsLast, QuietAfterReturn
<1>4. EInv => CountHonest
  BY <1>1, <1>2, <1>3 DEF CountHonest
<1> QED
  BY <1>4, EmitInvariance, PTL

\* mcpserver/progress.go: what a client is told never falls, and nothing is sent
\* after the message of Stop.
THEOREM NotificationsStayOrdered == EmitSpec => NotificationsOrdered
<1> DEFINE InOrder == shown' >= shown /\ (stopped /\ flight.by = NoGoroutine => flight'.by = NoGoroutine)
<1>1. EInv /\ [EmitNext]_emitVars => [InOrder]_emitVars
  <2> SUFFICES ASSUME EInv, EmitNext PROVE InOrder
    OBVIOUS
  <2> USE ActorsDiffer DEF EInv, EmitTypeOK, SenderKnown, StopsLast, ToldInOrder, Goroutine,
          fileVars, recordVars, timerVars
  <2>1. shown \in Nat /\ flight.progress \in Nat
    BY FiniteEntries, FS_CardinalityType
  <2>2. ASSUME NEW e \in ScanEntry, EntryEmits(e) PROVE InOrder
    BY <2>1, <2>2 DEF EntryEmits, EntryBegin, EntryBeginFails, EntryUpdate, EntryClose, EmitRecord
  <2>3. ASSUME NEW a \in ScanEntry \cup {Beat}, EmitStep(a) PROVE InOrder
    BY <2>1, <2>3 DEF EmitStep, Params, ParamsNone, Notify, NoFlight
  <2>4. CASE BeatStep \/ EmitClock
    BY <2>1, <2>4 DEF BeatStep, BeatTimer, BeatReset, BeatStop, EmitClock, DebounceOver, TimerFires
  <2>5. CASE CallerStep
    BY <2>1, <2>5 DEF CallerStep, ExecuteReturns, StopParams, StopNotify, StopWaits, NoFlight
  <2> QED
    BY <2>2, <2>3, <2>4, <2>5 DEF EmitNext
<1> QED
  BY <1>1, EmitInvariance, PTL DEF EmitSpec, NotificationsOrdered
===============================================================================
