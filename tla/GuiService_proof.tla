--------------------------- MODULE GuiService_proof --------------------------
(***************************************************************************)
(* Theorems about GuiService and, in the second and third part, about      *)
(* ChatPage and ChatCommands.                                              *)
(*                                                                         *)
(* GuiService, for any number of servers and invocations, any bounds and   *)
(* any interleaving: types, who owns the runtime file, what an ending      *)
(* server leaves behind, and that the service implements the abstract slot *)
(* as long as nobody's file is taken away.                                 *)
(*                                                                         *)
(* The properties are not inductive.  The argument needs to know when the  *)
(* update handler of a server can run (JobServes), that it runs under the  *)
(* released flag once the file is given up (JobReleased), that a fresh     *)
(* process has not released anything (FreshKeeps), that a released server  *)
(* is not under the path (ReleasedGone), and that a server never is its    *)
(* own child (NotOwnKid).                                                  *)
(*                                                                         *)
(* ChatPage, for any number of questions, events on their way and breaks:  *)
(* once all has arrived, the page is what OpenCode has.  The invariant     *)
(* behind it says what holds before: of each request the last event on its *)
(* way tells how it stands (LastIsNow), an answer that is out of date is   *)
(* outrun by an event (AllDated), and the page is in step, or noted not to *)
(* be, or about to be loaded anew (InStep); the same of each part of the   *)
(* conversation, with the events on their way counted in (HeadsFit,        *)
(* TextFits, RunFits, BubbleFits).                                         *)
(*                                                                         *)
(* ChatCommands, for any sessions and commands and any limit of the store: *)
(* what is still to be told has an entry, and only entries with nothing to *)
(* tell go (StoreSound, NothingForgotten).                                 *)
(***************************************************************************)
EXTENDS GuiService, ChatPage, ChatCommands, FiniteSetTheorems, WellFoundedInduction, TLAPS

\* The update handler runs only in a server that serves or shuts down.
JobServes == \A s \in Server : job[s] # "none" => srv[s] \in {"serving", "closing", "withdrawn"}

\* takeBack looks at the path only within its attempts.
AttemptLeft == \A s \in Server : job[s] = "inspect" => attempt[s] < MaxAttempts

\* From Release to the end of takeBack the registration is released.
JobReleased == \A s \in Server : job[s] \notin {"none", "install"} => released[s]

\* A process that has not begun to serve has released nothing.
FreshKeeps ==
  \A s \in Server :
    srv[s] \in {"unborn", "starting", "writing", "registered"} => ~released[s]

\* A server waits for a process other than itself.
NotOwnKid == \A s \in Server : kid[s] # s

\* A server that serves without a file is asked to end, or told the page.
Findable ==
  \A s \in Server :
    srv[s] = "serving" /\ job[s] \in {"none", "install"} /\ released[s] => asked[s] \/ s \in warned

Shape == JobServes /\ AttemptLeft /\ JobReleased /\ FreshKeeps /\ NotOwnKid /\ Findable

\* A server that has released the file does not lie under the path, until it
\* writes the file again.
ReleasedGone ==
  \A s \in Server : released[s] /\ job[s] # "rewrite" => file # s

\* Before it registers and after it removed its file, a server has none, unless
\* its handler was late.
NoFileOutside ==
  \A s \in Server :
    /\ srv[s] \in {"unborn", "starting"} => file # s
    /\ srv[s] \in {"withdrawn", "exited"} /\ s \notin late => file # s

Placed == Ownership /\ ReleasedGone /\ NoFileOutside

IInv == TypeOK /\ Shape /\ Placed

-----------------------------------------------------------------------------
(* The operators the actions are built from keep the types.                *)

\* Removing the runtime file leaves no file, and robs servers only.
LEMMA UnlinkTypes ==
  ASSUME TypeOK, NEW a, Unlink(a)
  PROVE  file' \in Server \cup {None} /\ half' \in BOOLEAN /\ robbed' \in SUBSET Server
  BY DEF TypeOK, Unlink

\* So does a Registration that removes its own file, or leaves it.
LEMMA WithdrawTypes ==
  ASSUME TypeOK, NEW s, Withdraw(s)
  PROVE  file' \in Server \cup {None} /\ half' \in BOOLEAN /\ robbed' \in SUBSET Server
  BY UnlinkTypes DEF TypeOK, Withdraw, fileVars

\* A process that ends, ends in a state a server can be in.
LEMMA DieTypes ==
  ASSUME TypeOK, NEW s, NEW state \in {"exited", "killed"}, Die(s, state)
  PROVE  /\ srv' \in [Server -> SrvState] /\ build' \in [Server -> Build]
         /\ released' \in [Server -> BOOLEAN] /\ asked' \in [Server -> BOOLEAN]
  BY DEF TypeOK, Die, SrvState, Build

\* A signal kills a process, asks it to end, or does nothing.
LEMMA TerminateTypes ==
  ASSUME TypeOK, NEW s, Terminate(s)
  PROVE  /\ srv' \in [Server -> SrvState] /\ build' \in [Server -> Build]
         /\ released' \in [Server -> BOOLEAN] /\ asked' \in [Server -> BOOLEAN]
  BY DieTypes DEF Terminate, TypeOK, srvVars

\* The locals of a call that is over are empty.
LEMMA ForgetTypes ==
  ASSUME TypeOK, NEW a, Forget(a)
  PROVE  /\ look' \in [Actor -> LookState] /\ rec' \in [Actor -> Server \cup {None}]
         /\ kid' \in [Actor -> Server \cup {None}]
  BY DEF TypeOK, Forget, LookState

\* An invocation ends in a final state.
LEMMA EndTypes ==
  ASSUME TypeOK, NEW c, NEW state \in Final, End(c, state)
  PROVE  /\ pc' \in [Client -> CliState] /\ own' \in [Client -> Build]
         /\ look' \in [Actor -> LookState] /\ rec' \in [Actor -> Server \cup {None}]
         /\ kid' \in [Actor -> Server \cup {None}]
  BY ForgetTypes DEF TypeOK, End, Final, CliState, Build

\* An update handler that ends takes its attempts with it.
LEMMA JobEndsTypes ==
  ASSUME TypeOK, NEW s \in Server, NEW tells, Report(s, tells)
  PROVE  /\ job' \in [Server -> JobState] /\ attempt' \in [Server -> 0..MaxAttempts]
         /\ late' \in SUBSET Server /\ warned' \in SUBSET Server
<1>1. 0 \in 0..MaxAttempts
  BY BoundsAreNumbers
<1> QED
  BY <1>1 DEF TypeOK, Report, JobState

\* Every step keeps the types.
LEMMA TypeStep ==
  ASSUME TypeOK, AttemptLeft, [Next]_vars
  PROVE  TypeOK'
<1> USE BoundsAreNumbers DEF TypeOK, SrvState, JobState, CliState, LookState, Status,
        Final, Build, Client, Actor
<1>1. ASSUME NEW a \in Actor, LookStep(a)
      PROVE  TypeOK'
  <2>1. CASE InspectRead(a)
    BY <2>1 DEF InspectRead, fileVars, srvVars, jobVars, cliVars
  <2>2. CASE InspectIdentity(a)
    BY <2>2 DEF InspectIdentity, fileVars, srvVars, jobVars, cliVars
  <2>3. CASE InspectProbe(a)
    BY <2>3 DEF InspectProbe, fileVars, srvVars, jobVars, cliVars
  <2>4. CASE AwaitRead(a)
    BY <2>4 DEF AwaitRead, fileVars, srvVars, jobVars, cliVars
  <2>5. CASE AwaitMiss(a)
    BY <2>5 DEF AwaitMiss, fileVars, srvVars, jobVars, cliVars
  <2> QED
    BY <1>1, <2>1, <2>2, <2>3, <2>4, <2>5 DEF LookStep
<1>2. ASSUME NEW s \in Server, ServerStep(s)
      PROVE  TypeOK'
  <2>1. CASE Register(s)
    BY <2>1 DEF Register, CreateFile, SetSrv, jobVars, cliVars, lookVars
  <2>2. CASE RegisterLoses(s)
    BY <2>2, DieTypes DEF RegisterLoses, fileVars, jobVars, cliVars, lookVars
  <2>3. CASE RegisterWrites(s)
    BY <2>3 DEF RegisterWrites, FillFile, SetSrv, jobVars, cliVars, lookVars
  <2>4. CASE BeginServing(s)
    BY <2>4 DEF BeginServing, SetSrv, fileVars, jobVars, cliVars, lookVars
  <2>5. CASE CloseListener(s)
    BY <2>5 DEF CloseListener, SetSrv, fileVars, jobVars, cliVars, lookVars
  <2>6. CASE Exit(s)
    BY <2>6, DieTypes, ForgetTypes DEF Exit, fileVars, cliVars
  <2>7. CASE ServeReturns(s)
    BY <2>7, WithdrawTypes DEF ServeReturns, SetSrv, jobVars, cliVars, lookVars
  <2> QED
    BY <1>2, <2>1, <2>2, <2>3, <2>4, <2>5, <2>6, <2>7 DEF ServerStep
<1>3. ASSUME NEW s \in Server, JobStep(s)
      PROVE  TypeOK'
  <2>1. CASE InstallFails(s)
    BY <2>1, JobEndsTypes DEF InstallFails, JobEnds, fileVars, srvVars, cliVars,
       lookVars
  <2>2. CASE Release(s)
    BY <2>2, WithdrawTypes DEF Release, Goto, cliVars, lookVars
  <2>3. CASE SpawnSuccessor(s)
    BY <2>3 DEF SpawnSuccessor, Fork, Goto, fileVars, cliVars
  <2>4. CASE SpawnSuccessorFails(s)
    BY <2>4 DEF SpawnSuccessorFails, Goto, fileVars, srvVars, cliVars,
       lookVars
  <2>5. CASE HandOver(s)
    BY <2>5, ForgetTypes, JobEndsTypes DEF HandOver, JobEnds, fileVars, cliVars
  <2>6. CASE SuccessorExited(s)
    BY <2>6, ForgetTypes DEF SuccessorExited, Goto, fileVars, srvVars, cliVars
  <2>7. CASE SuccessorTimeout(s)
    BY <2>7, TerminateTypes DEF SuccessorTimeout, Goto, fileVars, cliVars
  <2>8. CASE Reap(s)
    BY <2>8, DieTypes DEF Reap, srvVars, fileVars, cliVars
  <2>9. CASE Reclaim(s)
    BY <2>9 DEF Reclaim, CreateFile, srvVars, cliVars, lookVars
  <2>10. CASE ReclaimWrites(s)
    BY <2>10, JobEndsTypes DEF ReclaimWrites, FillFile, cliVars, lookVars
  <2>11. CASE ReclaimExists(s)
    BY <2>11 DEF ReclaimExists, Goto, StartLook, fileVars, srvVars, cliVars
  <2>12. CASE StepDown(s)
    BY <2>12, ForgetTypes, JobEndsTypes DEF StepDown, JobEnds, fileVars, cliVars
  <2>13. CASE TryAgain(s)
    BY <2>13, UnlinkTypes, ForgetTypes DEF AttemptLeft, TryAgain, fileVars, srvVars, cliVars
  <2>14. CASE GiveUp(s)
    BY <2>14, JobEndsTypes DEF GiveUp, fileVars, srvVars, cliVars, lookVars
  <2> QED
    BY <1>3, <2>1, <2>2, <2>3, <2>4, <2>5, <2>6, <2>7, <2>8, <2>9, <2>10,
       <2>11, <2>12, <2>13, <2>14 DEF JobStep
<1>4. ASSUME NEW s \in Server,
             StartUpdate(s) \/ AskStop(s) \/ Crash(s)
               \/ RegisterWriteFails(s) \/ ReclaimWriteFails(s)
      PROVE  TypeOK'
  <2>1. CASE StartUpdate(s)
    BY <2>1 DEF StartUpdate, Goto, fileVars, srvVars, cliVars, lookVars
  <2>2. CASE AskStop(s)
    BY <2>2 DEF AskStop, fileVars, jobVars, cliVars, lookVars
  <2>3. CASE Crash(s)
    BY <2>3, DieTypes, ForgetTypes DEF Crash, fileVars, cliVars
  <2>4. CASE RegisterWriteFails(s)
    BY <2>4, UnlinkTypes, DieTypes DEF RegisterWriteFails, jobVars, cliVars,
       lookVars
  <2>5. CASE ReclaimWriteFails(s)
    <3>1. file' \in Server \cup {None} /\ half' \in BOOLEAN /\ robbed' \in SUBSET Server
      BY <2>5, UnlinkTypes DEF ReclaimWriteFails
    <3>2. /\ job' \in [Server -> JobState] /\ attempt' \in [Server -> 0..MaxAttempts]
          /\ late' \in SUBSET Server /\ warned' \in SUBSET Server
      BY <2>5, JobEndsTypes DEF ReclaimWriteFails
    <3>3. crashes' \in 0..MaxCrashes
      BY <2>5 DEF ReclaimWriteFails
    <3> QED
      BY <2>5, <3>1, <3>2, <3>3 DEF ReclaimWriteFails, srvVars, cliVars, lookVars
  <2> QED
    BY <1>4, <2>1, <2>2, <2>3, <2>4, <2>5
<1>5. ASSUME NEW c \in Client, Launch(c)
      PROVE  TypeOK'
  BY <1>5 DEF Launch, StartLook, fileVars, srvVars, jobVars
<1>6. ASSUME NEW c \in Client, ClientStep(c)
      PROVE  TypeOK'
  <2>1. CASE OpenOrRefuse(c)
    BY <2>1, EndTypes DEF OpenOrRefuse, fileVars, srvVars, jobVars
  <2>2. CASE Replace(c)
    <3>1. CASE Accepted(rec[c]) /\ Move(c, "replace") /\ UNCHANGED lookVars
      BY <2>2, <3>1 DEF Replace, Accepted, Move, lookVars, fileVars, jobVars
    <3>2. CASE UNCHANGED asked /\ End(c, "failed")
      BY <2>2, <3>2, EndTypes DEF Replace, fileVars, jobVars
    <3> QED
      BY <2>2, <3>1, <3>2 DEF Replace
  <2>3. CASE ReplaceWaits(c)
    BY <2>3, EndTypes DEF ReplaceWaits, Move, lookVars, fileVars, srvVars,
       jobVars
  <2>4. CASE Discard(c)
    BY <2>4, UnlinkTypes DEF Discard, Move, srvVars, jobVars, lookVars
  <2>5. CASE SpawnServer(c)
    BY <2>5, EndTypes DEF SpawnServer, Fork, Move, srvVars, fileVars, jobVars
  <2>6. CASE ChildAnswers(c)
    BY <2>6, EndTypes DEF ChildAnswers, fileVars, srvVars, jobVars
  <2>7. CASE ChildExited(c)
    BY <2>7 DEF ChildExited, Move, StartLook, fileVars, srvVars, jobVars
  <2>8. CASE ChildTimeout(c)
    BY <2>8, TerminateTypes, EndTypes DEF ChildTimeout, fileVars, jobVars
  <2>9. CASE Recheck(c)
    BY <2>9, EndTypes DEF Recheck, fileVars, srvVars, jobVars
  <2>10. CASE StopNothing(c)
    BY <2>10, UnlinkTypes, EndTypes DEF StopNothing, fileVars, srvVars,
       jobVars
  <2>11. CASE StopAsks(c)
    <3>1. asked' \in [Server -> BOOLEAN]
      BY <2>11 DEF StopAsks, Accepted
    <3>2. UNCHANGED <<fileVars, srv, build, released, jobVars, own, lookVars, crashes>>
      BY <2>11 DEF StopAsks, Move
    <3>3. Move(c, "stopping") \/ Move(c, "sigterm")
      BY <2>11 DEF StopAsks
    <3>4. pc' \in [Client -> CliState]
      BY <3>3 DEF Move
    <3> QED
      BY <3>1, <3>2, <3>4 DEF fileVars, jobVars, lookVars
  <2>12. CASE StopWaits(c)
    BY <2>12, EndTypes DEF StopWaits, Move, lookVars, fileVars, srvVars,
       jobVars
  <2>13. CASE StopSignals(c)
    BY <2>13, TerminateTypes, EndTypes DEF StopSignals, srvVars, Move,
       lookVars, fileVars, jobVars
  <2>14. CASE StopSignalWaits(c)
    BY <2>14, EndTypes DEF StopSignalWaits, Move, lookVars, fileVars, srvVars,
       jobVars
  <2>15. CASE StopRemoves(c)
    BY <2>15, UnlinkTypes, EndTypes DEF StopRemoves, srvVars, jobVars
  <2> QED
    BY <1>6, <2>1, <2>2, <2>3, <2>4, <2>5, <2>6, <2>7, <2>8, <2>9, <2>10,
       <2>11, <2>12, <2>13, <2>14, <2>15 DEF ClientStep
<1>7. CASE UNCHANGED vars
  BY <1>7 DEF vars, fileVars, srvVars, jobVars, cliVars, lookVars
<1> QED
  BY <1>1, <1>2, <1>3, <1>4, <1>5, <1>6, <1>7 DEF Next

\* Every step keeps what the argument knows about the update handlers.
LEMMA ShapeStep ==
  ASSUME TypeOK, Shape, [Next]_vars
  PROVE  Shape'
<1> USE NamesDiffer DEF Actor, TypeOK, Shape, JobServes, AttemptLeft, JobReleased,
        FreshKeeps, NotOwnKid, Findable
<1>1. ASSUME NEW a \in Actor, LookStep(a)
      PROVE  Shape'
  BY <1>1 DEF LookStep, InspectRead, srvVars, jobVars, InspectIdentity,
     InspectProbe, AwaitRead, AwaitMiss
<1>2. ASSUME NEW s \in Server, ServerStep(s)
      PROVE  Shape'
  <2>1. CASE Register(s)
    BY <2>1 DEF Register, SetSrv, jobVars, lookVars
  <2>2. CASE RegisterLoses(s)
    BY <2>2 DEF RegisterLoses, Die, jobVars, lookVars
  <2>3. CASE RegisterWrites(s)
    BY <2>3 DEF RegisterWrites, SetSrv, jobVars, lookVars
  <2>4. CASE BeginServing(s)
    BY <2>4 DEF BeginServing, SetSrv, jobVars, lookVars
  <2>5. CASE CloseListener(s)
    BY <2>5 DEF CloseListener, SetSrv, jobVars, lookVars
  <2>6. CASE Exit(s)
    BY <2>6 DEF Exit, Die, Forget
  <2>7. CASE ServeReturns(s)
    BY <2>7 DEF ServeReturns, SetSrv, jobVars, lookVars
  <2> QED
    BY <1>2, <2>1, <2>2, <2>3, <2>4, <2>5, <2>6, <2>7 DEF ServerStep
<1>3. ASSUME NEW s \in Server, JobStep(s)
      PROVE  Shape'
  <2>1. CASE InstallFails(s)
    BY <2>1 DEF InstallFails, JobEnds, Report, srvVars, lookVars
  <2>2. CASE Release(s)
    BY <2>2 DEF Release, Goto, lookVars
  <2>3. CASE SpawnSuccessor(s)
    BY <2>3 DEF SpawnSuccessor, Fork, Goto
  <2>4. CASE SpawnSuccessorFails(s)
    BY <2>4 DEF SpawnSuccessorFails, Goto, srvVars, lookVars
  <2>5. CASE HandOver(s)
    BY <2>5 DEF HandOver, JobEnds, Report, Forget
  <2>6. CASE SuccessorExited(s)
    BY <2>6 DEF SuccessorExited, Goto, Forget, srvVars
  <2>7. CASE SuccessorTimeout(s)
    BY <2>7 DEF SuccessorTimeout, Terminate, Goto, Die, srvVars
  <2>8. CASE Reap(s)
    BY <2>8 DEF Reap, Alive, Die, srvVars
  <2>9. CASE Reclaim(s)
    BY <2>9 DEF Reclaim, srvVars, lookVars
  <2>10. CASE ReclaimWrites(s)
    BY <2>10 DEF ReclaimWrites, Report, lookVars
  <2>11. CASE ReclaimExists(s)
    BY <2>11 DEF ReclaimExists, Goto, StartLook, srvVars
  <2>12. CASE StepDown(s)
    BY <2>12 DEF StepDown, JobEnds, Report, Forget
  <2>13. CASE TryAgain(s)
    BY <2>13 DEF TryAgain, Forget, srvVars
  <2>14. CASE GiveUp(s)
    BY <2>14 DEF GiveUp, Report, srvVars, lookVars
  <2> QED
    BY <1>3, <2>1, <2>2, <2>3, <2>4, <2>5, <2>6, <2>7, <2>8, <2>9, <2>10,
       <2>11, <2>12, <2>13, <2>14 DEF JobStep
<1>4. ASSUME NEW s \in Server,
             StartUpdate(s) \/ AskStop(s) \/ Crash(s)
               \/ RegisterWriteFails(s) \/ ReclaimWriteFails(s)
      PROVE  Shape'
  <2>1. CASE StartUpdate(s)
    BY <2>1 DEF StartUpdate, Goto, srvVars, lookVars
  <2>2. CASE AskStop(s)
    BY <2>2 DEF AskStop, jobVars, lookVars
  <2>3. CASE Crash(s)
    BY <2>3 DEF Crash, Die, Forget
  <2>4. CASE RegisterWriteFails(s)
    BY <2>4 DEF RegisterWriteFails, Die, jobVars, lookVars
  <2>5. CASE ReclaimWriteFails(s)
    BY <2>5 DEF ReclaimWriteFails, Report, srvVars, lookVars
  <2> QED
    BY <1>4, <2>1, <2>2, <2>3, <2>4, <2>5
<1>5. ASSUME NEW c \in Client, Launch(c)
      PROVE  Shape'
  BY <1>5 DEF Launch, StartLook, srvVars, jobVars
<1>6. ASSUME NEW c \in Client, ClientStep(c)
      PROVE  Shape'
  <2>1. CASE OpenOrRefuse(c)
    BY <2>1 DEF OpenOrRefuse, End, srvVars, jobVars, Forget
  <2>2. CASE Replace(c)
    BY <2>2 DEF Replace, Accepted, Move, lookVars, End, jobVars, Forget
  <2>3. CASE ReplaceWaits(c)
    BY <2>3 DEF ReplaceWaits, Move, lookVars, End, srvVars, jobVars, Forget
  <2>4. CASE Discard(c)
    BY <2>4 DEF Discard, Move, srvVars, jobVars, lookVars
  <2>5. CASE SpawnServer(c)
    BY <2>5 DEF SpawnServer, Fork, Move, End, srvVars, jobVars, Forget
  <2>6. CASE ChildAnswers(c)
    BY <2>6 DEF ChildAnswers, End, srvVars, jobVars, Forget
  <2>7. CASE ChildExited(c)
    BY <2>7 DEF ChildExited, Move, StartLook, srvVars, jobVars
  <2>8. CASE ChildTimeout(c)
    BY <2>8 DEF ChildTimeout, Terminate, End, jobVars, Die, srvVars, Forget
  <2>9. CASE Recheck(c)
    BY <2>9 DEF Recheck, End, srvVars, jobVars, Forget
  <2>10. CASE StopNothing(c)
    BY <2>10 DEF StopNothing, End, srvVars, jobVars, Forget
  <2>11. CASE StopAsks(c)
    BY <2>11 DEF StopAsks, Accepted, Move, jobVars, lookVars
  <2>12. CASE StopWaits(c)
    BY <2>12 DEF StopWaits, End, Move, lookVars, srvVars, jobVars, Forget
  <2>13. CASE StopSignals(c)
    BY <2>13 DEF StopSignals, End, srvVars, Terminate, Move, lookVars,
       jobVars, Forget, Die
  <2>14. CASE StopSignalWaits(c)
    BY <2>14 DEF StopSignalWaits, Move, lookVars, End, srvVars, jobVars,
       Forget
  <2>15. CASE StopRemoves(c)
    BY <2>15 DEF StopRemoves, End, srvVars, jobVars, Forget
  <2> QED
    BY <1>6, <2>1, <2>2, <2>3, <2>4, <2>5, <2>6, <2>7, <2>8, <2>9, <2>10,
       <2>11, <2>12, <2>13, <2>14, <2>15 DEF ClientStep
<1>7. CASE UNCHANGED vars
  BY <1>7 DEF vars, srvVars, jobVars, lookVars
<1> QED
  BY <1>1, <1>2, <1>3, <1>4, <1>5, <1>6, <1>7 DEF Next

-----------------------------------------------------------------------------
(* Server and file.                                                        *)

\* Removing the file is harmless when it adds no holder but those who held it
\* before, and whoever removes it holds nothing afterwards.
LEMMA UnlinkPlaces ==
  ASSUME Placed, NEW a, Unlink(a),
         \A t \in Server : Holds(t)' => Holds(t) /\ t # a
  PROVE  Placed'
  BY NamesDiffer DEF Placed, Ownership, ReleasedGone, NoFileOutside, Unlink, Actor

\* Every step keeps them together.
LEMMA PlacedStep ==
  ASSUME TypeOK, Shape, Placed, [Next]_vars
  PROVE  Placed'
<1> USE NamesDiffer DEF Actor, Client, TypeOK, Placed, Ownership, ReleasedGone,
        NoFileOutside, Holds
<1>1. ASSUME NEW a \in Actor, LookStep(a)
      PROVE  Placed'
  BY <1>1 DEF LookStep, InspectRead, fileVars, srvVars, jobVars,
     InspectIdentity, InspectProbe, AwaitRead, AwaitMiss
<1>2. ASSUME NEW s \in Server, ServerStep(s)
      PROVE  Placed'
  <2>1. CASE Register(s)
    BY <2>1 DEF Shape, FreshKeeps, Register, CreateFile, SetSrv, jobVars
  <2>2. CASE RegisterLoses(s)
    BY <2>2 DEF RegisterLoses, Die, fileVars, jobVars
  <2>3. CASE RegisterWrites(s)
    BY <2>3 DEF RegisterWrites, FillFile, SetSrv, jobVars
  <2>4. CASE BeginServing(s)
    BY <2>4 DEF BeginServing, SetSrv, fileVars, jobVars
  <2>5. CASE CloseListener(s)
    BY <2>5 DEF CloseListener, SetSrv, fileVars, jobVars
  <2>6. CASE Exit(s)
    BY <2>6 DEF Exit, Die, fileVars
  <2>7. CASE ServeReturns(s)
    BY <2>7, UnlinkPlaces DEF ServeReturns, Withdraw, SetSrv, fileVars, jobVars
  <2> QED
    BY <1>2, <2>1, <2>2, <2>3, <2>4, <2>5, <2>6, <2>7 DEF ServerStep
<1>3. ASSUME NEW s \in Server, JobStep(s)
      PROVE  Placed'
  <2>1. CASE InstallFails(s)
    BY <2>1 DEF InstallFails, JobEnds, Report, fileVars, srvVars
  <2>2. CASE Release(s)
    BY <2>2, UnlinkPlaces DEF Release, Withdraw, Goto, fileVars
  <2>3. CASE SpawnSuccessor(s)
    BY <2>3 DEF SpawnSuccessor, Fork, Goto, fileVars
  <2>4. CASE SpawnSuccessorFails(s)
    BY <2>4 DEF SpawnSuccessorFails, Goto, fileVars, srvVars
  <2>5. CASE HandOver(s)
    BY <2>5 DEF HandOver, JobEnds, Report, fileVars
  <2>6. CASE SuccessorExited(s)
    BY <2>6 DEF SuccessorExited, Goto, fileVars, srvVars
  <2>7. CASE SuccessorTimeout(s)
    BY <2>7 DEF SuccessorTimeout, Terminate, Goto, fileVars, Die, srvVars
  <2>8. CASE Reap(s)
    BY <2>8 DEF Shape, JobServes, JobReleased, Reap, Alive, Die, srvVars,
       fileVars
  <2>9. CASE Reclaim(s)
    BY <2>9 DEF Shape, JobServes, Reclaim, CreateFile, srvVars
  <2>10. CASE ReclaimWrites(s)
    BY <2>10 DEF ReclaimWrites, FillFile, Report
  <2>11. CASE ReclaimExists(s)
    BY <2>11 DEF ReclaimExists, Goto, fileVars, srvVars
  <2>12. CASE StepDown(s)
    BY <2>12 DEF StepDown, JobEnds, Report, fileVars
  <2>13. CASE TryAgain(s)
    BY <2>13, UnlinkPlaces DEF Shape, JobReleased, TryAgain, fileVars, srvVars
  <2>14. CASE GiveUp(s)
    BY <2>14 DEF GiveUp, Report, fileVars, srvVars
  <2> QED
    BY <1>3, <2>1, <2>2, <2>3, <2>4, <2>5, <2>6, <2>7, <2>8, <2>9, <2>10,
       <2>11, <2>12, <2>13, <2>14 DEF JobStep
<1>4. ASSUME NEW s \in Server,
             StartUpdate(s) \/ AskStop(s) \/ Crash(s)
               \/ RegisterWriteFails(s) \/ ReclaimWriteFails(s)
      PROVE  Placed'
  <2>1. CASE StartUpdate(s)
    BY <2>1 DEF StartUpdate, Goto, fileVars, srvVars
  <2>2. CASE AskStop(s)
    BY <2>2 DEF AskStop, fileVars, jobVars
  <2>3. CASE Crash(s)
    BY <2>3 DEF Crash, Die, fileVars
  <2>4. CASE RegisterWriteFails(s)
    BY <2>4, UnlinkPlaces DEF RegisterWriteFails, Die, jobVars
  <2>5. CASE ReclaimWriteFails(s)
    BY <2>5, UnlinkPlaces DEF Shape, JobReleased, ReclaimWriteFails, Report,
       srvVars
  <2> QED
    BY <1>4, <2>1, <2>2, <2>3, <2>4, <2>5
<1>5. ASSUME NEW c \in Client, Launch(c)
      PROVE  Placed'
  BY <1>5 DEF Launch, fileVars, srvVars, jobVars
<1>6. ASSUME NEW c \in Client, ClientStep(c)
      PROVE  Placed'
  <2>1. CASE OpenOrRefuse(c)
    BY <2>1 DEF OpenOrRefuse, End, fileVars, srvVars, jobVars
  <2>2. CASE Replace(c)
    BY <2>2 DEF Replace, Accepted, Move, End, fileVars, jobVars
  <2>3. CASE ReplaceWaits(c)
    BY <2>3 DEF ReplaceWaits, Move, End, fileVars, srvVars, jobVars
  <2>4. CASE Discard(c)
    BY <2>4, UnlinkPlaces DEF Discard, Move, srvVars, jobVars
  <2>5. CASE SpawnServer(c)
    BY <2>5 DEF SpawnServer, Fork, Move, End, srvVars, fileVars, jobVars
  <2>6. CASE ChildAnswers(c)
    BY <2>6 DEF ChildAnswers, End, fileVars, srvVars, jobVars
  <2>7. CASE ChildExited(c)
    BY <2>7 DEF ChildExited, Move, fileVars, srvVars, jobVars
  <2>8. CASE ChildTimeout(c)
    BY <2>8 DEF ChildTimeout, Terminate, End, fileVars, jobVars, Die, srvVars
  <2>9. CASE Recheck(c)
    BY <2>9 DEF Recheck, End, fileVars, srvVars, jobVars
  <2>10. CASE StopNothing(c)
    BY <2>10, UnlinkPlaces DEF StopNothing, fileVars, End, srvVars, jobVars
  <2>11. CASE StopAsks(c)
    BY <2>11 DEF StopAsks, Accepted, Move, fileVars, jobVars
  <2>12. CASE StopWaits(c)
    BY <2>12 DEF StopWaits, End, Move, fileVars, srvVars, jobVars
  <2>13. CASE StopSignals(c)
    BY <2>13 DEF StopSignals, End, srvVars, Terminate, Move, fileVars,
       jobVars, Die
  <2>14. CASE StopSignalWaits(c)
    BY <2>14 DEF StopSignalWaits, Move, End, fileVars, srvVars, jobVars
  <2>15. CASE StopRemoves(c)
    BY <2>15, UnlinkPlaces DEF StopRemoves, End, srvVars, jobVars
  <2> QED
    BY <1>6, <2>1, <2>2, <2>3, <2>4, <2>5, <2>6, <2>7, <2>8, <2>9, <2>10,
       <2>11, <2>12, <2>13, <2>14, <2>15 DEF ClientStep
<1>7. CASE UNCHANGED vars
  BY <1>7 DEF vars, fileVars, srvVars, jobVars
<1> QED
  BY <1>1, <1>2, <1>3, <1>4, <1>5, <1>6, <1>7 DEF Next

-----------------------------------------------------------------------------
(* The invariant, and what it implies.                                     *)

\* The invariant holds at the start, with a server running or without.
LEMMA InitIInv == Init => IInv
<1> SUFFICES ASSUME Init PROVE IInv
  OBVIOUS
<1> USE NamesDiffer, BoundsAreNumbers DEF Init, Actor, Client
<1>1. TypeOK
  <2>1. srv \in [Server -> SrvState]
    BY DEF SrvState
  <2>2. build \in [Server -> Build]
    BY DEF Build
  <2>3. attempt \in [Server -> 0..MaxAttempts] /\ crashes \in 0..MaxCrashes
    OBVIOUS
  <2>4. /\ file \in Server \cup {None} /\ half \in BOOLEAN
        /\ released \in [Server -> BOOLEAN] /\ asked \in [Server -> BOOLEAN]
        /\ job \in [Server -> JobState]
        /\ robbed \in SUBSET Server /\ late \in SUBSET Server /\ warned \in SUBSET Server
    BY DEF JobState
  <2>5. /\ pc \in [Client -> CliState] /\ own \in [Client -> Build]
        /\ look \in [Actor -> LookState]
        /\ rec \in [Actor -> Server \cup {None}]
        /\ kid \in [Actor -> Server \cup {None}]
    BY DEF CliState, Build, LookState
  <2> QED
    BY <2>1, <2>2, <2>3, <2>4, <2>5 DEF TypeOK
<1>2. Shape
  BY DEF Shape, JobServes, AttemptLeft, JobReleased, FreshKeeps, NotOwnKid, Findable
<1>3. Placed
  BY DEF Placed, Ownership, ReleasedGone, NoFileOutside, Holds
<1> QED
  BY <1>1, <1>2, <1>3 DEF IInv

\* Every step keeps the invariant.
LEMMA NextIInv == IInv /\ [Next]_vars => IInv'
  BY TypeStep, ShapeStep, PlacedStep DEF IInv, Shape

\* The inductive invariant holds in every reachable state.
THEOREM Invariance == Spec => []IInv
  BY InitIInv, NextIInv, PTL DEF Spec

\* The state keeps its types; takeBack never counts beyond its attempts.
THEOREM TypeCorrect == Spec => []TypeOK
<1>1. IInv => TypeOK
  BY DEF IInv
<1> QED
  BY <1>1, Invariance, PTL

\* guiproc: a server that takes the runtime file for its own lies under the
\* path, unless another actor took the file away.
THEOREM FileOwnership == Spec => []Ownership
<1>1. IInv => Ownership
  BY DEF IInv, Placed
<1> QED
  BY <1>1, Invariance, PTL

\* Serve and restart.go: a server that ended in order has left no runtime file,
\* unless its handler outlived Serve and wrote it once more; one that serves on
\* after an update holds its file, unless it told the page that it cannot.
THEOREM ExitRemovesFile == Spec => []FileGoesWithServer
<1>1. IInv => FileGoesWithServer
  BY DEF IInv, Placed, Shape, NoFileOutside, Findable, FileGoesWithServer, Holds
<1> QED
  BY <1>1, Invariance, PTL

\* guiproc.Register, restart.go: a second registered server takes a robbery,
\* that is an actor that removed the file of a server that still holds it.
THEOREM SecondServerTakesRobbery == Spec => [](NobodyRobbed => OneRegistered)
<1>1. IInv => (NobodyRobbed => OneRegistered)
  BY DEF IInv, Placed, Ownership, NobodyRobbed, OneRegistered
<1> QED
  BY <1>1, Invariance, PTL

-----------------------------------------------------------------------------
(* Which steps begin and end a server's hold on the file.                  *)

SameHolders == \A t \in Server : Holds(t)' <=> Holds(t)

\* s takes the free path.
Gains(s) ==
  /\ file = None /\ Holds(s)'
  /\ \A t \in Server \ {s} : Holds(t)' <=> Holds(t)

\* s gives the path up, if it held it.
Loses(s) ==
  /\ ~Holds(s)'
  /\ \A t \in Server \ {s} : Holds(t)' <=> Holds(t)

\* No step lets two servers begin or end to hold the file, and one begins only
\* when nothing lies under the path.
LEMMA HoldersStep ==
  ASSUME TypeOK, Shape, [Next]_vars
  PROVE  SameHolders \/ \E s \in Server : Gains(s) \/ Loses(s)
<1> DEFINE Goal == SameHolders \/ \E s \in Server : Gains(s) \/ Loses(s)
<1> USE DEF Holds, TypeOK
<1>1. ASSUME NEW a \in Actor, LookStep(a)
      PROVE  Goal
  BY <1>1 DEF SameHolders, LookStep, InspectRead, InspectIdentity, InspectProbe,
     AwaitRead, AwaitMiss, srvVars, jobVars
<1>2. ASSUME NEW s \in Server, ServerStep(s)
      PROVE  Goal
  <2>1. CASE Register(s)
    <3>1. Gains(s)
      BY <2>1 DEF Shape, FreshKeeps, Gains, Register, CreateFile, SetSrv,
         jobVars
    <3> QED
      BY <3>1
  <2>2. CASE RegisterLoses(s)
    BY <2>2 DEF SameHolders, RegisterLoses, Die, jobVars
  <2>3. CASE RegisterWrites(s)
    BY <2>3 DEF SameHolders, RegisterWrites, FillFile, SetSrv, jobVars
  <2>4. CASE BeginServing(s)
    BY <2>4 DEF SameHolders, BeginServing, SetSrv, jobVars
  <2>5. CASE CloseListener(s)
    BY <2>5 DEF SameHolders, CloseListener, SetSrv, jobVars
  <2>6. CASE Exit(s)
    BY <2>6 DEF SameHolders, Exit, Die
  <2>7. CASE ServeReturns(s)
    <3>1. Loses(s)
      BY <2>7 DEF Loses, ServeReturns, SetSrv, jobVars
    <3> QED
      BY <3>1
  <2> QED
    BY <1>2, <2>1, <2>2, <2>3, <2>4, <2>5, <2>6, <2>7 DEF ServerStep
<1>3. ASSUME NEW s \in Server, JobStep(s)
      PROVE  Goal
  <2>1. CASE InstallFails(s)
    BY <2>1 DEF SameHolders, InstallFails, JobEnds, Report, srvVars
  <2>2. CASE Release(s)
    <3>1. Loses(s)
      BY <2>2 DEF Loses, Release, Goto
    <3> QED
      BY <3>1
  <2>3. CASE SpawnSuccessor(s)
    BY <2>3 DEF SameHolders, SpawnSuccessor, Fork, Goto
  <2>4. CASE SpawnSuccessorFails(s)
    BY <2>4 DEF SameHolders, SpawnSuccessorFails, Goto, srvVars
  <2>5. CASE HandOver(s)
    BY <2>5 DEF SameHolders, HandOver, JobEnds, Report
  <2>6. CASE SuccessorExited(s)
    BY <2>6 DEF SameHolders, SuccessorExited, Goto, srvVars
  <2>7. CASE SuccessorTimeout(s)
    BY <2>7 DEF SameHolders, Loses, SuccessorTimeout, Terminate, Goto, Die, srvVars
  <2>8. CASE Reap(s)
    BY <2>8 DEF Shape, JobServes, JobReleased, NotOwnKid, SameHolders, Loses, Reap, Die, srvVars
  <2>9. CASE Reclaim(s)
    BY <2>9 DEF Shape, JobServes, JobReleased, SameHolders, Gains, Reclaim, CreateFile, srvVars
  <2>10. CASE ReclaimWrites(s)
    BY <2>10 DEF Shape, JobServes, JobReleased, SameHolders, ReclaimWrites,
       FillFile, Report
  <2>11. CASE ReclaimExists(s)
    BY <2>11 DEF SameHolders, ReclaimExists, Goto, srvVars
  <2>12. CASE StepDown(s)
    BY <2>12 DEF SameHolders, StepDown, JobEnds, Report
  <2>13. CASE TryAgain(s)
    BY <2>13 DEF Shape, JobReleased, SameHolders, TryAgain, srvVars
  <2>14. CASE GiveUp(s)
    BY <2>14 DEF SameHolders, GiveUp, Report, srvVars
  <2> QED
    BY <1>3, <2>1, <2>2, <2>3, <2>4, <2>5, <2>6, <2>7, <2>8, <2>9, <2>10,
       <2>11, <2>12, <2>13, <2>14 DEF JobStep
<1>4. ASSUME NEW s \in Server,
             StartUpdate(s) \/ AskStop(s) \/ Crash(s)
               \/ RegisterWriteFails(s) \/ ReclaimWriteFails(s)
      PROVE  Goal
  <2>1. CASE StartUpdate(s)
    BY <2>1 DEF SameHolders, StartUpdate, Goto, srvVars
  <2>2. CASE AskStop(s)
    BY <2>2 DEF SameHolders, AskStop, jobVars
  <2>3. CASE Crash(s)
    <3>1. Loses(s)
      BY <2>3 DEF Loses, Crash, Die
    <3> QED
      BY <3>1
  <2>4. CASE RegisterWriteFails(s)
    <3>1. Loses(s)
      BY <2>4 DEF Loses, RegisterWriteFails, Die, jobVars
    <3> QED
      BY <3>1
  <2>5. CASE ReclaimWriteFails(s)
    <3>1. Loses(s)
      BY <2>5 DEF Shape, JobReleased, Loses, ReclaimWriteFails, Report,
         srvVars
    <3> QED
      BY <3>1
  <2> QED
    BY <1>4, <2>1, <2>2, <2>3, <2>4, <2>5
<1>5. ASSUME NEW c \in Client, ClientStep(c)
      PROVE  Goal
  <2>1. CASE OpenOrRefuse(c)
    BY <2>1 DEF SameHolders, OpenOrRefuse, End, srvVars, jobVars
  <2>2. CASE Replace(c)
    BY <2>2 DEF SameHolders, Replace, Accepted, Move, End, jobVars
  <2>3. CASE ReplaceWaits(c)
    BY <2>3 DEF SameHolders, ReplaceWaits, Move, End, srvVars, jobVars
  <2>4. CASE Discard(c)
    BY <2>4 DEF SameHolders, Discard, Move, srvVars, jobVars
  <2>5. CASE SpawnServer(c)
    BY <2>5 DEF SameHolders, SpawnServer, Fork, Move, End, srvVars, jobVars
  <2>6. CASE ChildAnswers(c)
    BY <2>6 DEF SameHolders, ChildAnswers, End, srvVars, jobVars
  <2>7. CASE ChildExited(c)
    BY <2>7 DEF SameHolders, ChildExited, Move, srvVars, jobVars
  <2>8. CASE ChildTimeout(c)
    BY <2>8 DEF SameHolders, Loses, ChildTimeout, Terminate, End, jobVars, Die, srvVars
  <2>9. CASE Recheck(c)
    BY <2>9 DEF SameHolders, Recheck, End, srvVars, jobVars
  <2>10. CASE StopNothing(c)
    BY <2>10 DEF SameHolders, StopNothing, End, srvVars, jobVars
  <2>11. CASE StopAsks(c)
    BY <2>11 DEF SameHolders, StopAsks, Accepted, Move, jobVars
  <2>12. CASE StopWaits(c)
    BY <2>12 DEF SameHolders, StopWaits, End, Move, srvVars, jobVars
  <2>13. CASE StopSignals(c)
    BY <2>13 DEF SameHolders, Loses, StopSignals, End, srvVars, Terminate, Move, jobVars, Die
  <2>14. CASE StopSignalWaits(c)
    BY <2>14 DEF SameHolders, StopSignalWaits, Move, End, srvVars, jobVars
  <2>15. CASE StopRemoves(c)
    BY <2>15 DEF SameHolders, StopRemoves, End, srvVars, jobVars
  <2> QED
    BY <1>5, <2>1, <2>2, <2>3, <2>4, <2>5, <2>6, <2>7, <2>8, <2>9, <2>10,
       <2>11, <2>12, <2>13, <2>14, <2>15 DEF ClientStep
<1>6. ASSUME NEW c \in Client, Launch(c)
      PROVE  Goal
  BY <1>6 DEF SameHolders, Launch, srvVars, jobVars
<1>7. CASE UNCHANGED vars
  BY <1>7 DEF SameHolders, vars, srvVars, jobVars
<1> QED
  BY <1>1, <1>2, <1>3, <1>4, <1>5, <1>6, <1>7 DEF Next

\* The hold of one server excludes that of another, while nobody is robbed.
LEMMA HoldersUnique ==
  ASSUME IInv, NobodyRobbed
  PROVE  /\ \A s, t \in Server : Holds(s) /\ Holds(t) => s = t
         /\ file = None => \A s \in Server : ~Holds(s)
  BY NamesDiffer DEF IInv, Placed, Ownership, NobodyRobbed, Actor

\* restart.go and guiproc.Register: as long as no actor takes the file of a
\* server that still holds it, the servers implement the slot: a server
\* registers only when nobody is, and leaves the slot to nobody.
THEOREM SlotUnlessRobbed == Spec /\ []NobodyRobbed => SlotSpec
<1>1. Init => Slot!Init
  BY NamesDiffer DEF Init, Slot!Init, Holds, Actor
<1>2. ASSUME IInv, NobodyRobbed, NobodyRobbed', [Next]_vars
      PROVE  [Slot!Next]_{s \in Server : Holds(s)}
  BY <1>2, HoldersStep, HoldersUnique DEF IInv, SameHolders, Gains, Slot!Take, Loses, Slot!Leave, Slot!Next
<1> QED
  BY <1>1, <1>2, Invariance, PTL DEF Spec, SlotSpec, Slot!Spec

\* A server that shuts down gives up its registration by ServeReturns alone.
LEMMA ReturnsByServe ==
  ASSUME TypeOK, [Next]_vars, NEW s \in Server, srv[s] = "closing", srv'[s] = "withdrawn"
  PROVE  ServeReturns(s)
<1> USE DEF TypeOK
<1>1. ASSUME NEW a \in Actor, LookStep(a)
      PROVE  FALSE
  BY <1>1 DEF LookStep, InspectRead, InspectIdentity, InspectProbe, AwaitRead,
     AwaitMiss, srvVars
<1>2. ASSUME NEW t \in Server, ServerStep(t)
      PROVE  ServeReturns(s)
  BY <1>2 DEF ServerStep, Register, RegisterLoses, RegisterWrites, BeginServing,
     CloseListener, ServeReturns, Exit, SetSrv, Die
<1>3. ASSUME NEW t \in Server, JobStep(t)
      PROVE  FALSE
  BY <1>3 DEF JobStep, InstallFails, Release, SpawnSuccessor, SpawnSuccessorFails,
     HandOver, SuccessorExited, SuccessorTimeout, Reap, Reclaim, ReclaimWrites,
     ReclaimExists, StepDown, TryAgain, GiveUp, Fork, Terminate, Die, srvVars
<1>4. ASSUME NEW t \in Server,
             StartUpdate(t) \/ AskStop(t) \/ Crash(t)
               \/ RegisterWriteFails(t) \/ ReclaimWriteFails(t)
      PROVE  FALSE
  BY <1>4 DEF StartUpdate, AskStop, Crash, RegisterWriteFails, ReclaimWriteFails,
     Die, srvVars
<1>5. ASSUME NEW c \in Client, Launch(c) \/ ClientStep(c)
      PROVE  FALSE
  BY <1>5 DEF Launch, ClientStep, OpenOrRefuse, Replace, ReplaceWaits, Discard,
     SpawnServer, ChildAnswers, ChildExited, ChildTimeout, Recheck, StopNothing,
     StopAsks, StopWaits, StopSignals, StopSignalWaits, StopRemoves, Fork,
     Terminate, Die, srvVars
<1>6. CASE UNCHANGED vars
  BY <1>6 DEF vars, srvVars
<1> QED
  BY <1>1, <1>2, <1>3, <1>4, <1>5, <1>6 DEF Next

\* Registration.Remove: a server that was not robbed of its file takes nobody
\* else's with it when it ends, after a hand-over or without one.
THEOREM ExitHarmsNobody == Spec => ExitSparesOthers
<1> DEFINE Spares ==
      \A s \in Server :
        srv[s] = "closing" /\ srv'[s] = "withdrawn" /\ s \notin robbed /\ file # s
          => UNCHANGED file
<1>1. ASSUME IInv, [Next]_vars, NEW s \in Server,
             srv[s] = "closing", srv'[s] = "withdrawn", s \notin robbed, file # s
      PROVE  UNCHANGED file
  BY <1>1, ReturnsByServe DEF IInv, Placed, Ownership, Holds, ServeReturns, Withdraw, fileVars
<1>2. IInv /\ [Next]_vars => [Spares]_vars
  BY <1>1
<1> QED
  BY <1>2, Invariance, PTL DEF Spec, ExitSparesOthers

(***************************************************************************)
(* The page of a chat session (ChatPage).                                   *)
(***************************************************************************)
\* Who asks: sessions their questions, the own one its permissions.
Askers == Foreign \cup {"own"}
KindFor(r) == IF r = "own" THEN "permissions" ELSE "questions"
LoadOf(r) == IF r = "own" THEN "permissions" ELSE "related"
Told(r) == IF r = "own" THEN {"permission asked", "permission replied"} ELSE {"asked", "replied"}
Open(r) == IF r = "own" THEN "own" \in opened.grants ELSE r \in opened.questions

RunTypes == {"mine", "busy", "answer", "part", "delta", "whole", "completed", "idle", "mine part", "error"}
AskTypes == {"created", "asked", "replied", "permission asked", "permission replied"}
AskedTypes == {"asked", "permission asked"}
OnWire == [type : RunTypes \cup AskTypes \cup {"connected"}, of : Askers, version : Nat]
LoadSteps == {"none", "asked", "children", "second", "read"}
Loads == [at : LoadSteps, version : Nat, content : SUBSET Askers]
OpenTypes == [questions : SUBSET Foreign, grants : SUBSET {"own"}, past : SUBSET Askers, askers : SUBSET Askers,
              child : BOOLEAN, asks : Nat]
SeenTypes == [{"messages", "questions", "permissions"} -> Nat]

WireTypes == wire \in Seq(OnWire) /\ link \in BOOLEAN /\ connectedOnce \in BOOLEAN /\ (~link => wire = <<>>)
BoxTypes ==
  /\ boxes \in SUBSET Foreign /\ grants \in SUBSET {"own"} /\ replying \in SUBSET Askers
  /\ related \in [Foreign -> {"unknown", "yes", "no"}] /\ walks \in [Foreign -> Foreign \cup {"none"}]
NoteTypes == opened \in OpenTypes /\ seen \in SeenTypes /\ excused \in SUBSET History
\* What a load brings: permissions of the own session, questions of the others, the child.
LoadTypes ==
  /\ loads \in [Kinds -> [Generation -> Loads]]
  /\ \A g \in Generation :
       /\ loads["permissions"][g].content \subseteq {"own"} /\ loads["related"][g].content \subseteq Foreign
       /\ loads["related"][g].at = "children" => loads["related"][g].content \subseteq {"child"}
RequestTypes == WireTypes /\ BoxTypes /\ NoteTypes /\ LoadTypes

\* The runs, how far one is, and the events there are with it and without one.
ScriptTypes ==
  /\ script \in [events : {Usual, Early, Broken, NoRun}, at : Nat] /\ script.at <= Len(script.events)
  /\ script.events # NoRun => opened.askers = {} /\ opened.asks = 0
  /\ "own" \in opened.askers => opened.askers = {"own"}
WireFits ==
  \A i \in DOMAIN wire :
    /\ wire[i].version <= script.at + opened.asks
    /\ script.events # NoRun => wire[i].type \in RunTypes \cup {"connected"}
    /\ script.events = NoRun => wire[i].type \in {"created", "connected"} \cup Told(wire[i].of)

\* What is decided of a session is so; a check is at its session or above it; what was
\* answered stays so.
RelatedTrue ==
  /\ \A s \in Foreign : (related[s] = "yes" => s \in Family) /\ (related[s] = "no" => s \notin Family)
  /\ \A q \in Foreign : walks[q] \in {"none", q} \/ (q = "grandchild" /\ walks[q] = "child")
  /\ boxes \subseteq Family
  /\ \A r \in Askers : r \in opened.past => ~Open(r)
  /\ replying \subseteq opened.past

\* The events about a request that are on their way; the last says how it stands.
About(r) == {i \in DOMAIN wire : wire[i].of = r /\ wire[i].type \in Told(r)}
LastIsNow(r) ==
  \A i \in About(r) :
    /\ wire[i].version <= opened.asks
    /\ (\A j \in About(r) : j <= i) => (wire[i].type \in AskedTypes <=> Open(r))

\* Where an answer under way is out of date, an event tells it, on its way or arrived.
Dated(r, l) ==
  l.at = "read" =>
    /\ l.version <= opened.asks
    /\ \/ r \in l.content <=> Open(r)
       \/ seen[KindFor(r)] > l.version
       \/ \E i \in About(r) : wire[i].version > l.version
AllDated(r) == \A g \in Generation : Dated(r, loads[LoadOf(r)][g])

\* What the page has of a request no event is on its way about.
Fits(r) ==
  IF r = "own" THEN "own" \in grants <=> Open(r)
  ELSE /\ r \in boxes => Open(r)
       /\ walks[r] # "none" => Open(r)
       /\ Open(r) /\ r \in Family => r \in boxes \/ walks[r] # "none"

\* It is so, or noted not to be, or all will be loaded again.
Reconnecting == connectedOnce /\ (~link \/ \E i \in DOMAIN wire : wire[i].type = "connected")
Reloading(k) == \E g \in Generation : loads[k][g].at # "none"
InStep(r) ==
  \/ KindFor(r) \in excused \/ Reconnecting \/ Reloading(LoadOf(r))
  \/ About(r) = {} => Fits(r)

\* Of what is not loaded there is nothing.
Nobody(r) ==
  /\ ~Open(r) /\ About(r) = {} /\ r \notin boxes \cup grants /\ ~Reloading(LoadOf(r))
  /\ r # "own" => walks[r] = "none"
NobodyElse(r) == LoadOf(r) \notin Loaded => Nobody(r)

RequestSound(r) == LastIsNow(r) /\ AllDated(r) /\ NobodyElse(r) /\ InStep(r)

RequestInv == RequestTypes /\ ScriptTypes /\ WireFits /\ RelatedTrue /\ \A r \in Askers : RequestSound(r)

-----------------------------------------------------------------------------
\* The conversation.  What the page knows of it, with the events on their way, is what
\* there is; and the last event on its way of each kind sets the rest right.
Coming == {wire[i].type : i \in DOMAIN wire} \ {"connected"}
First(v) == {script.events[i] : i \in 1..v}
\* The messages some events tell of.
NamesIn(types) ==
  {m \in {"mine", "answer"} : \/ m = "mine" /\ types \cap {"mine", "mine part"} # {}
                              \/ m = "answer" /\ types \cap {"answer", "part", "whole"} # {}}
TextIn(types) ==
  CASE types \cap {"delta", "whole"} # {} -> "all"
    [] types \cap {"delta", "whole"} = {} /\ "part" \in types -> "begun"
    [] OTHER -> "none"

PageTypes ==
  /\ shown \in [heads : SUBSET {"mine", "answer"}, parts : SUBSET {"mine", "answer"},
                text : {"none", "begun", "all", "twice"}, completed : BOOLEAN]
  /\ runType \in {"idle", "busy"} /\ failed \in BOOLEAN /\ bubble \in {"none", "unnamed", "named"}
  /\ prompt \in {"none", "sent", "accepted", "done", "failed"}

\* The wire holds the last events of the run, after a connection the new ones.
WireOrder ==
  \A i \in DOMAIN wire :
    IF wire[i].type = "connected" THEN i = 1
    ELSE /\ wire[i].version = script.at - (Len(wire) - i) /\ wire[i].version \in 1..script.at
         /\ wire[i].type = script.events[wire[i].version]
\* What is not on its way any more is in seen; what was read was there.
SeenAll == \A n \in 1..script.at : n <= seen["messages"] \/ script.events[n] \in Coming
ReadFits == \A g \in Generation : loads["messages"][g].at = "read" => loads["messages"][g].version \in 0..script.at

\* A bubble stands for a message that is being sent, and has its name when it was.
PromptFits ==
  /\ bubble = "unnamed" => prompt \in {"sent", "accepted"}
  /\ bubble = "named" => prompt = "done"

Renewing == Reconnecting \/ Reloading("messages")
HeadsFit ==
  \/ "messages" \in excused \/ Renewing
  \/ /\ Known(shown) \cup NamesIn(Coming) = NamesIn(Made(script))
     /\ {"answer", "completed"} \cap Coming # {} \/ (shown.completed <=> "completed" \in Made(script))
TextFits ==
  \/ {"messages", "text"} \cap excused # {} \/ Renewing
  \/ {"part", "whole"} \cap Coming # {}
  \/ "delta" \in Coming /\ shown.text \in {"begun", "all"}
  \/ "delta" \notin Coming /\ shown.text = TextIn(Made(script))
RunFits ==
  \/ "run" \in excused \/ Renewing
  \/ {"busy", "idle"} \cap Coming # {}
  \/ (runType = "busy") <=> Working(script)
BubbleFits ==
  \/ "bubble" \in excused \/ bubble = "none"
  \/ /\ bubble = "named" => "mine" \notin shown.heads
     /\ "error" \in Made(script) => "error" \in Coming
FailedFits == failed => "error" \in Made(script)

RunSound ==
  /\ WireOrder /\ SeenAll /\ ReadFits /\ PromptFits
  /\ HeadsFit /\ TextFits /\ RunFits /\ BubbleFits /\ FailedFits

\* Without a run the page is as it began.
IdlePage ==
  /\ shown = NoMessages /\ runType = "idle" /\ failed = FALSE /\ bubble = "none" /\ prompt = "none"
  /\ ~Reloading("messages")

MessagesInv == PageTypes /\ (script.events # NoRun => RunSound) /\ (script.events = NoRun => IdlePage)
PageInv == RequestInv /\ MessagesInv

-----------------------------------------------------------------------------
\* Every set of naturals but the empty one has a smallest element.
LEMMA SmallestIs == ASSUME NEW S \in SUBSET Nat, S # {} PROVE \E n \in S : \A k \in S : n <= k
<1> DEFINE R == {ss \in Nat \X Nat : ss[1] < ss[2]}
<1>1. IsWellFoundedOn(R, Nat)
  BY NatLessThanWellFounded DEF OpToRel
<1>2. PICK n \in S : \A k \in S : ~(<<k, n>> \in R)
  <2> HIDE DEF R
  <2> QED
    BY <1>1, WFMin
<1>3. ASSUME NEW k \in S PROVE n <= k
  <2>1. ~(<<k, n>> \in R) /\ k \in Nat /\ n \in Nat
    BY <1>2
  <2>2. ~(k < n)
    BY <2>1
  <2> QED
    BY <2>1, <2>2
<1> QED
  BY <1>2, <1>3

-----------------------------------------------------------------------------
LEMMA ForeignIs ==
  /\ Foreign = {"child", "grandchild", "other"} /\ "own" \notin Foreign /\ "none" \notin Foreign
  /\ Parent["child"] = "own" /\ Parent["grandchild"] = "child" /\ Parent["other"] = "none"
  /\ Askers = {"child", "grandchild", "other", "own"}
BY DEF Foreign, Parent, Askers

\* Generations are counted from 1.
LEMMA GenerationIs == Generation \subseteq Nat /\ 1 \in Generation /\ \A g \in Generation : g >= 1
BY ChatPageAssumption DEF Generation

\* What a wire is after an event was put on it, and after one was taken from it.
LEMMA AppendWire ==
  ASSUME wire \in Seq(OnWire), NEW e \in OnWire, wire' = Append(wire, e)
  PROVE /\ wire' \in Seq(OnWire) /\ Len(wire) \in Nat
        /\ DOMAIN wire = 1..Len(wire) /\ DOMAIN wire' = 1..(Len(wire) + 1)
        /\ \A i \in DOMAIN wire : i \in DOMAIN wire' /\ wire'[i] = wire[i]
        /\ wire'[Len(wire) + 1] = e
        /\ \A i \in DOMAIN wire : wire[i] \in OnWire /\ wire[i].version \in Nat
<1>1. \A i \in DOMAIN wire : wire[i] \in OnWire
  OBVIOUS
<1>2. \A f \in OnWire : f.version \in Nat
  BY DEF OnWire
<1>3. /\ wire' \in Seq(OnWire) /\ Len(wire) \in Nat
      /\ DOMAIN wire = 1..Len(wire) /\ DOMAIN wire' = 1..(Len(wire) + 1)
      /\ \A i \in DOMAIN wire : i \in DOMAIN wire' /\ wire'[i] = wire[i]
      /\ wire'[Len(wire) + 1] = e
  OBVIOUS
<1> QED
  BY <1>1, <1>2, <1>3

LEMMA TailWire ==
  ASSUME wire \in Seq(OnWire), wire # <<>>, wire' = Tail(wire)
  PROVE /\ wire' \in Seq(OnWire) /\ Len(wire) \in Nat /\ Len(wire) >= 1
        /\ DOMAIN wire = 1..Len(wire) /\ DOMAIN wire' = 1..(Len(wire) - 1)
        /\ \A i \in DOMAIN wire' : i \in Nat /\ i + 1 \in DOMAIN wire /\ wire'[i] = wire[i + 1]
        /\ \A i \in DOMAIN wire : i = 1 \/ (i - 1 \in DOMAIN wire' /\ wire'[i - 1] = wire[i])
        /\ 1 \in DOMAIN wire /\ Head(wire) = wire[1] /\ Head(wire) \in OnWire
        /\ \A i \in DOMAIN wire : wire[i] \in OnWire /\ wire[i].version \in Nat
<1>1. Len(wire) \in Nat /\ Len(wire) >= 1 /\ DOMAIN wire = 1..Len(wire)
  OBVIOUS
<1>2. wire' \in Seq(OnWire) /\ Len(wire') = Len(wire) - 1 /\ \A i \in 1..(Len(wire) - 1) : wire'[i] = wire[i + 1]
  BY <1>1
<1>3. \A f \in OnWire : f.version \in Nat
  BY DEF OnWire
<1> QED
  BY <1>1, <1>2, <1>3

\* The events about a request, after each.
LEMMA AboutAppended ==
  ASSUME wire \in Seq(OnWire), NEW e \in OnWire, wire' = Append(wire, e), NEW r \in Askers
  PROVE /\ \A i : i \in About(r) => i \in About(r)' /\ i <= Len(wire) /\ i \in Nat
        /\ \A i : i \in About(r)' => i \in About(r) \/ i = Len(wire) + 1
        /\ Len(wire) + 1 \in About(r)' <=> (e.of = r /\ e.type \in Told(r))
<1>1. \A i : i \in About(r) <=> (i \in DOMAIN wire /\ wire[i].of = r /\ wire[i].type \in Told(r))
  BY DEF About
<1>2. \A i : i \in About(r)' <=> (i \in DOMAIN wire' /\ wire'[i].of = r /\ wire'[i].type \in Told(r))
  BY DEF About, Told
<1>3. /\ Len(wire) \in Nat /\ DOMAIN wire = 1..Len(wire) /\ DOMAIN wire' = 1..(Len(wire) + 1)
      /\ \A i \in DOMAIN wire : i \in DOMAIN wire' /\ wire'[i] = wire[i]
      /\ wire'[Len(wire) + 1] = e
  BY AppendWire
<1>4. ASSUME NEW i, i \in About(r) PROVE i \in About(r)' /\ i <= Len(wire) /\ i \in Nat
  BY <1>1, <1>2, <1>3, <1>4
<1>5. ASSUME NEW i, i \in About(r)' PROVE i \in About(r) \/ i = Len(wire) + 1
  BY <1>2, <1>3, <1>5, <1>1
<1>6. Len(wire) + 1 \in About(r)' <=> (e.of = r /\ e.type \in Told(r))
  BY <1>2, <1>3
<1> QED
  BY <1>4, <1>5, <1>6

LEMMA AboutTail ==
  ASSUME wire \in Seq(OnWire), wire # <<>>, wire' = Tail(wire), NEW r \in Askers
  PROVE /\ \A i : i \in About(r)' => i + 1 \in About(r) /\ i \in Nat /\ wire'[i] = wire[i + 1] /\ i # 0
        /\ \A i : i \in About(r) => i = 1 \/ (i - 1 \in About(r)' /\ wire'[i - 1] = wire[i])
        /\ \A i : i \in About(r) => i \in Nat /\ i >= 1
<1>1. \A i : i \in About(r) <=> (i \in DOMAIN wire /\ wire[i].of = r /\ wire[i].type \in Told(r))
  BY DEF About
<1>2. \A i : i \in About(r)' <=> (i \in DOMAIN wire' /\ wire'[i].of = r /\ wire'[i].type \in Told(r))
  BY DEF About, Told
<1>3. /\ Len(wire) \in Nat /\ DOMAIN wire = 1..Len(wire) /\ DOMAIN wire' = 1..(Len(wire) - 1)
      /\ \A i \in DOMAIN wire' : i \in Nat /\ i + 1 \in DOMAIN wire /\ wire'[i] = wire[i + 1]
      /\ \A i \in DOMAIN wire : i = 1 \/ (i - 1 \in DOMAIN wire' /\ wire'[i - 1] = wire[i])
  BY TailWire
<1>4. ASSUME NEW i, i \in About(r)' PROVE i + 1 \in About(r) /\ i \in Nat /\ wire'[i] = wire[i + 1] /\ i # 0
  BY <1>1, <1>2, <1>3, <1>4
<1>5. ASSUME NEW i, i \in About(r) PROVE i = 1 \/ (i - 1 \in About(r)' /\ wire'[i - 1] = wire[i])
  BY <1>1, <1>2, <1>3, <1>5
<1>6. ASSUME NEW i, i \in About(r) PROVE i \in Nat /\ i >= 1
  BY <1>1, <1>3, <1>6
<1> QED
  BY <1>4, <1>5, <1>6

LEMMA AboutNothing == ASSUME NEW r \in Askers, wire' = <<>> PROVE About(r)' = {}
BY DEF About

\* Whom nothing is loaded for is served.
LEMMA NobodySound ==
  ASSUME NEW r \in Askers, Nobody(r)', loads' \in [Kinds -> [Generation -> Loads]]
  PROVE RequestSound(r)'
<1>1. LastIsNow(r)' /\ (About(r) = {})'
  BY DEF Nobody, LastIsNow
<1>2. AllDated(r)'
  BY DEF Nobody, AllDated, Dated, Reloading, Loads
<1>3. InStep(r)'
  BY <1>1, ForeignIs DEF Nobody, InStep, Fits, Open, Askers
<1> QED
  BY <1>1, <1>2, <1>3 DEF RequestSound, NobodyElse

\* What a step leaves alone that has nothing to do with the requests.
RequestVars == <<script, opened, link, wire, connectedOnce, boxes, grants, related, walks, replying>>

LEMMA Quiet ==
  ASSUME RequestInv, UNCHANGED RequestVars, LoadTypes', NoteTypes',
         \A k \in {"permissions", "related"} : loads'[k] = loads[k],
         \A k \in {"permissions", "questions"} : seen'[k] = seen[k] /\ (k \in excused => k \in excused')
  PROVE RequestInv'
<1>1. (WireTypes /\ BoxTypes /\ ScriptTypes /\ WireFits /\ RelatedTrue)'
  <2>1. WireTypes' /\ BoxTypes'
    BY DEF RequestInv, RequestVars, RequestTypes, WireTypes, BoxTypes
  <2>2. ScriptTypes' /\ WireFits'
    BY DEF RequestInv, RequestVars, ScriptTypes, WireFits, Told
  <2>3. RelatedTrue'
    BY DEF RequestInv, RequestVars, RelatedTrue, Open
  <2> QED
    BY <2>1, <2>2, <2>3
<1>2. ASSUME NEW r \in Askers PROVE RequestSound(r)'
  <2>1. RequestSound(r) /\ LoadOf(r) \in {"permissions", "related"} /\ KindFor(r) \in {"permissions", "questions"}
    BY DEF RequestInv, LoadOf, KindFor
  <2>2. About(r)' = About(r) /\ (Open(r)' <=> Open(r)) /\ Loaded' = Loaded
    BY DEF RequestVars, About, Open, Loaded, Told
  <2>3. LastIsNow(r)'
    BY <2>1, <2>2 DEF RequestSound, LastIsNow, RequestVars
  <2>4. AllDated(r)'
    BY <2>1, <2>2 DEF RequestSound, AllDated, Dated, RequestVars, LoadOf, KindFor
  <2>5. Reloading(LoadOf(r))' <=> Reloading(LoadOf(r))
    BY <2>1 DEF Reloading, LoadOf
  <2>6. NobodyElse(r)'
    BY <2>1, <2>2, <2>5 DEF RequestSound, NobodyElse, Nobody, RequestVars, LoadOf
  <2>7. InStep(r)'
    BY <2>2, <2>1, <2>5 DEF Fits, RequestVars, Family, Reconnecting, RequestSound, InStep, KindFor, LoadOf
  <2> QED
    BY <2>3, <2>4, <2>6, <2>7 DEF RequestSound
<1> QED
  BY <1>1, <1>2 DEF RequestInv, RequestTypes

LEMMA PromptsQuiet ==
  ASSUME RequestInv, SendPrompt \/ PromptAccepted \/ PromptAnswered \/ PromptFails
  PROVE RequestInv'
<1>1. UNCHANGED RequestVars /\ loads' = loads /\ seen' = seen
  BY DEF RequestVars, SendPrompt, PromptAccepted, PromptAnswered, PromptFails
<1>2. \/ excused' = excused \/ excused' = excused \ {"bubble"}
      \/ \E s \in SUBSET {"run", "bubble"} : excused' = excused \cup s
  <2>1. CASE SendPrompt \/ PromptAccepted \/ PromptFails
    BY <2>1 DEF SendPrompt, PromptAccepted, PromptFails
  <2>2. CASE PromptAnswered
    <3> DEFINE a == IF "idle" \in Made(script) /\ \A i \in DOMAIN wire : wire[i].type # "idle" THEN {"run"} ELSE {}
               b == IF bubble # "none" /\ "mine" \in shown.heads THEN {"bubble"} ELSE {}
    <3>1. excused' = excused \cup (a \cup b)
      BY <2>2 DEF PromptAnswered
    <3>2. a \cup b \in SUBSET {"run", "bubble"}
      OBVIOUS
    <3> HIDE DEF a, b
    <3> QED
      BY <3>1, <3>2
  <2> QED
    BY <2>1, <2>2
<1>3. NoteTypes' /\ \A k \in {"permissions", "questions"} : k \in excused => k \in excused'
  BY <1>1, <1>2 DEF RequestInv, RequestTypes, RequestVars, NoteTypes, History
<1>4. LoadTypes'
  BY <1>1 DEF RequestInv, RequestTypes, LoadTypes
<1> QED
  BY <1>1, <1>3, <1>4, Quiet

\* While a run goes on nobody asks.
LEMMA RunHasNobody ==
  ASSUME RequestInv, script.events # NoRun, NEW r \in Askers
  PROVE Nobody(r)
BY DEF RequestInv, RequestSound, NobodyElse, Loaded, LoadOf

\* What a step of a run leaves alone.
RunVars == <<opened, boxes, grants, related, walks, replying>>
LEMMA RunQuiet ==
  ASSUME RequestInv, UNCHANGED RunVars, script.events # NoRun, script'.events = script.events,
         ScriptTypes', WireFits', WireTypes', NoteTypes', LoadTypes',
         \A k \in {"permissions", "related"} : loads'[k] = loads[k]
  PROVE RequestInv'
<1>1. (BoxTypes /\ RelatedTrue)'
  BY DEF RequestInv, RunVars, RequestTypes, BoxTypes, RelatedTrue, Open
<1>2. ASSUME NEW r \in Askers PROVE RequestSound(r)'
  <2>1. Nobody(r)
    BY RunHasNobody
  <2>2. (About(r) = {})'
    BY DEF WireFits, RunTypes, Told, About
  <2>3. LoadOf(r) \in {"permissions", "related"}
    BY DEF LoadOf
  <2>4. Reloading(LoadOf(r))' <=> Reloading(LoadOf(r))
    BY <2>3 DEF Reloading, LoadOf
  <2>5. Nobody(r)'
    BY <2>1, <2>2, <2>4 DEF Nobody, Open, RunVars, LoadOf
  <2> QED
    BY <2>5, NobodySound DEF LoadTypes
<1> QED
  BY <1>1, <1>2 DEF RequestInv, RequestTypes

\* A set of naturals that is bounded has a largest element.
LEMMA LargestIs ==
  ASSUME NEW S \in SUBSET Nat, S # {}, NEW b \in Nat, \A v \in S : v <= b
  PROVE \E v \in S : \A w \in S : w <= v
<1> DEFINE T == {b - v : v \in S}
<1>1. T \in SUBSET Nat /\ T # {}
  <2>1. \A v \in S : v \in Nat /\ v <= b
    OBVIOUS
  <2>2. \A v \in S : b - v \in Nat
    BY <2>1
  <2>3. PICK v \in S : TRUE
    OBVIOUS
  <2>4. b - v \in T
    OBVIOUS
  <2> QED
    BY <2>2, <2>4
<1>2. PICK n \in T : \A k \in T : n <= k
  <2> HIDE DEF T
  <2> QED
    BY <1>1, SmallestIs
<1>3. PICK v \in S : n = b - v
  BY <1>2
<1>4. ASSUME NEW w \in S PROVE w <= v
  <2>1. n <= b - w
    BY <1>2
  <2>2. v \in Nat /\ w \in Nat /\ b \in Nat
    OBVIOUS
  <2> HIDE DEF T
  <2> QED
    BY <1>3, <2>1, <2>2
<1> QED
  BY <1>4

LEMMA KindsAre ==
  /\ \A t : KindsOf(t) \subseteq History
  /\ \A r \in Askers : \A t : t \in Told(r) => KindFor(r) \in KindsOf(t)
  /\ \A t \in RunTypes : KindsOf(t) = {"messages", "text", "run", "bubble"}
  /\ KindsOf("created") = {} /\ KindsOf("connected") = {}
BY DEF KindsOf, History, Told, KindFor, RunTypes

\* What is lost with some events.
LEMMA LostIs ==
  ASSUME NEW E \in SUBSET OnWire, NEW b \in Nat, \A e \in E : e.version <= b,
         seen \in SeenTypes, excused \in SUBSET History, Lost(E)
  PROVE /\ seen' \in SeenTypes /\ excused' \in SUBSET History /\ excused \subseteq excused'
        /\ \A k \in {"messages", "questions", "permissions"} :
             /\ seen'[k] >= seen[k]
             /\ seen'[k] = seen[k] \/ \E e \in E : k \in KindsOf(e.type) /\ seen'[k] = e.version
             /\ \A e \in E : k \in KindsOf(e.type) => seen'[k] >= e.version
        /\ ~connectedOnce => \A e \in E : KindsOf(e.type) \subseteq excused'
<1> DEFINE D == {"messages", "questions", "permissions"}
           V(k) == {e.version : e \in {f \in E : k \in KindsOf(f.type)}} \cup {seen[k]}
           kinds == UNION {KindsOf(e.type) : e \in E}
<1>1. DOMAIN seen = D /\ \A k \in D : seen[k] \in Nat
  BY DEF SeenTypes
<1>2. seen' = [k \in D |-> CHOOSE v \in V(k) : \A w \in V(k) : w <= v]
  BY <1>1 DEF Lost
<1>3. ASSUME NEW k \in D PROVE seen'[k] \in V(k) /\ \A w \in V(k) : w <= seen'[k]
  <2>1. V(k) \in SUBSET Nat /\ V(k) # {}
    BY <1>1 DEF OnWire
  <2>2. b + seen[k] \in Nat /\ \A v \in V(k) : v <= b + seen[k]
    BY <1>1 DEF OnWire
  <2>3. seen'[k] = CHOOSE v \in V(k) : \A w \in V(k) : w <= v
    BY <1>2
  <2> HIDE DEF V
  <2>4. \E v \in V(k) : \A w \in V(k) : w <= v
    BY <2>1, <2>2, LargestIs
  <2> QED
    BY <2>3, <2>4
<1>4. ASSUME NEW k \in D
      PROVE /\ seen'[k] \in Nat /\ seen'[k] >= seen[k]
            /\ seen'[k] = seen[k] \/ \E e \in E : k \in KindsOf(e.type) /\ seen'[k] = e.version
            /\ \A e \in E : k \in KindsOf(e.type) => seen'[k] >= e.version
  <2>1. seen'[k] \in V(k) /\ \A w \in V(k) : w <= seen'[k]
    BY <1>3
  <2>2. seen[k] \in Nat /\ seen[k] \in V(k)
    BY <1>1
  <2>3. \A e \in E : e.version \in Nat /\ (k \in KindsOf(e.type) => e.version \in V(k))
    BY DEF OnWire
  <2>4. seen'[k] = seen[k] \/ \E e \in E : k \in KindsOf(e.type) /\ seen'[k] = e.version
    BY <2>1
  <2> HIDE DEF V
  <2> QED
    BY <2>1, <2>2, <2>3, <2>4
<1>5. seen' \in SeenTypes
  BY <1>4, <1>2 DEF SeenTypes
<1>6. excused' = excused \cup (IF connectedOnce THEN {} ELSE kinds)
                   \cup (IF \E e \in E : e.type = "error" THEN {"bubble"} ELSE {})
  BY DEF Lost
<1>7. kinds \subseteq History /\ \A e \in E : KindsOf(e.type) \subseteq kinds
  BY KindsAre
<1>8. excused' \in SUBSET History /\ excused \subseteq excused' /\ (~connectedOnce => \A e \in E : KindsOf(e.type) \subseteq excused')
  <2> HIDE DEF kinds
  <2> QED
    BY <1>6, <1>7 DEF History
<1> QED
  BY <1>4, <1>5, <1>8

\* What an event does that OpenCode sends.
LEMMA EmitIs ==
  ASSUME NEW e \in OnWire, RequestInv, Emit(e.type, e.of, e.version)
  PROVE /\ seen' \in SeenTypes /\ excused' \in SUBSET History /\ excused \subseteq excused'
        /\ link => wire' = Append(wire, e) /\ excused' = excused /\ seen' = seen
        /\ ~link => wire' = <<>> /\ wire = <<>>
        /\ \A k \in {"messages", "questions", "permissions"} :
             /\ seen'[k] >= seen[k]
             /\ seen'[k] = seen[k] \/ (k \in KindsOf(e.type) /\ seen'[k] = e.version)
             /\ ~link /\ k \in KindsOf(e.type) => seen'[k] >= e.version
        /\ ~link /\ ~connectedOnce => KindsOf(e.type) \subseteq excused'
  BY LostIs DEF RequestInv, RequestTypes, NoteTypes, WireTypes, OnWire, Emit, SeenTypes

\* What OpenCode's steps leave alone.
AsideVars == <<script, link, connectedOnce, boxes, grants, related, walks, loads>>

LEMMA OthersKeep ==
  ASSUME RequestInv, NEW e \in OnWire, Emit(e.type, e.of, e.version), UNCHANGED AsideVars,
         opened' \in OpenTypes, opened'.asks >= opened.asks, Loaded' = Loaded,
         NEW r \in Askers, Open(r)' <=> Open(r), ~(e.of = r /\ e.type \in Told(r))
  PROVE RequestSound(r)'
<1>1. /\ RequestSound(r) /\ LoadOf(r) \in Kinds /\ KindFor(r) \in {"permissions", "questions"}
      /\ wire \in Seq(OnWire) /\ link \in BOOLEAN /\ opened.asks \in Nat /\ opened'.asks \in Nat
      /\ loads \in [Kinds -> [Generation -> Loads]] /\ seen \in SeenTypes
  BY DEF RequestInv, LoadOf, KindFor, Kinds, RequestTypes, WireTypes, NoteTypes, LoadTypes, OpenTypes
<1>2. /\ \A i : i \in About(r)' <=> i \in About(r)
      /\ \A i \in About(r) : wire'[i] = wire[i] /\ wire[i].version \in Nat
      /\ \A i \in DOMAIN wire : i \in DOMAIN wire' /\ wire'[i] = wire[i]
  BY EmitIs, <1>1, AppendWire, AboutAppended DEF About
<1>3. /\ excused \subseteq excused'
      /\ seen'[KindFor(r)] >= seen[KindFor(r)] /\ seen'[KindFor(r)] \in Nat /\ seen[KindFor(r)] \in Nat
  BY <1>1, EmitIs DEF SeenTypes
<1>4. LastIsNow(r)'
  BY <1>1, <1>2 DEF LastIsNow, RequestSound
<1>5. AllDated(r)'
  <2> SUFFICES ASSUME NEW g \in Generation PROVE Dated(r, loads[LoadOf(r)][g])'
    BY DEF AllDated
  <2>1. Dated(r, loads[LoadOf(r)][g]) /\ loads' = loads
    BY <1>1 DEF RequestSound, AllDated, AsideVars
  <2>2. loads[LoadOf(r)][g].version \in Nat
    BY <1>1 DEF Loads
  <2>3. LoadOf(r)' = LoadOf(r) /\ KindFor(r)' = KindFor(r)
    BY DEF LoadOf, KindFor
  <2> QED
    BY <1>1, <1>2, <1>3, <2>1, <2>2, <2>3 DEF Dated
<1>6. NobodyElse(r)'
  BY <1>2, <1>1 DEF Reloading, AsideVars, LoadOf, RequestSound, NobodyElse, Nobody
<1>7. InStep(r)'
  BY <1>1, <1>2, <1>3 DEF RequestSound, Reloading, AsideVars, LoadOf, Reconnecting, Fits, Family, InStep, KindFor
<1> QED
  BY <1>4, <1>5, <1>6, <1>7 DEF RequestSound

LEMMA ToldOf ==
  ASSUME RequestInv, NEW e \in OnWire, Emit(e.type, e.of, e.version), UNCHANGED AsideVars,
         opened' \in OpenTypes, opened'.asks = opened.asks + 1, e.version = opened.asks + 1, Loaded' = Loaded,
         NEW r \in Askers, e.of = r, e.type \in Told(r), LoadOf(r) \in Loaded,
         Open(r)' <=> e.type \in AskedTypes
  PROVE RequestSound(r)'
<1>1. /\ RequestSound(r) /\ LoadOf(r) \in Kinds /\ KindFor(r) \in {"permissions", "questions"}
      /\ wire \in Seq(OnWire) /\ link \in BOOLEAN /\ connectedOnce \in BOOLEAN /\ opened.asks \in Nat /\ opened'.asks \in Nat
      /\ loads \in [Kinds -> [Generation -> Loads]] /\ seen \in SeenTypes /\ KindFor(r) \in KindsOf(e.type)
  BY KindsAre DEF RequestInv, LoadOf, KindFor, Kinds, RequestTypes, WireTypes, NoteTypes, LoadTypes, OpenTypes
<1>0. e.version = opened'.asks /\ opened.asks < e.version /\ e.version \in Nat /\ opened.asks \in Nat /\ \A v \in Nat : v <= opened.asks => v < e.version
  BY <1>1
<1>2. NobodyElse(r)'
  BY DEF NobodyElse, LoadOf
<1>3. ASSUME NEW g \in Generation, loads[LoadOf(r)][g].at = "read"
      PROVE loads[LoadOf(r)][g].version \in Nat /\ loads[LoadOf(r)][g].version <= opened.asks
  BY <1>1, <1>3 DEF RequestSound, AllDated, Loads, Dated
<1>4. CASE link
  <2> DEFINE n == Len(wire) + 1
  <2>1. wire' = Append(wire, e)
    BY <1>4, EmitIs
  <2>2. /\ n \in About(r)' /\ wire'[n] = e /\ n \in Nat
        /\ \A i \in About(r)' : i = n \/ (i \in About(r) /\ i < n /\ wire'[i] = wire[i] /\ wire[i].version \in Nat /\ i \in Nat)
    BY <1>1, <2>1, AboutAppended, AppendWire DEF About
  <2> HIDE DEF n
  <2>3. LastIsNow(r)'
    BY <1>1, <2>2 DEF LastIsNow, RequestSound
  <2>4. AllDated(r)'
    BY <1>1, <1>3, <2>2 DEF AllDated, AsideVars, LoadOf, Dated
  <2>5. InStep(r)'
    BY <2>2 DEF InStep
  <2> QED
    BY <1>2, <2>3, <2>4, <2>5 DEF RequestSound
<1>5. CASE ~link
  <2>1. wire' = <<>> /\ seen'[KindFor(r)] >= e.version /\ (~connectedOnce => KindFor(r) \in excused') /\ seen'[KindFor(r)] \in Nat
    BY <1>1, <1>5, EmitIs DEF SeenTypes
  <2>2. About(r)' = {}
    BY <2>1, AboutNothing
  <2>3. LastIsNow(r)'
    BY <2>2 DEF LastIsNow
  <2>4. AllDated(r)'
    <3> SUFFICES ASSUME NEW g \in Generation PROVE Dated(r, loads[LoadOf(r)][g])'
      BY DEF AllDated
    <3>1. loads' = loads /\ LoadOf(r)' = LoadOf(r) /\ KindFor(r)' = KindFor(r)
      BY DEF AsideVars, LoadOf, KindFor
    <3>2. loads[LoadOf(r)][g].at = "read"
            => loads[LoadOf(r)][g].version <= opened'.asks /\ seen'[KindFor(r)] > loads[LoadOf(r)][g].version
      <4> DEFINE l == loads[LoadOf(r)][g]
      <4> SUFFICES ASSUME l.at = "read" PROVE l.version <= opened'.asks /\ seen'[KindFor(r)] > l.version
        OBVIOUS
      <4>1. l.version \in Nat /\ l.version <= opened.asks
        BY <1>3
      <4>2. e.version \in Nat /\ seen'[KindFor(r)] >= e.version /\ seen'[KindFor(r)] \in Nat
        BY <1>1, <2>1
      <4> HIDE DEF l
      <4> QED
        BY <1>1, <4>1, <4>2
    <3> QED
      BY <3>1, <3>2 DEF Dated
  <2>5. InStep(r)'
    BY <1>1, <1>5, <2>1 DEF InStep, Reconnecting, AsideVars, KindFor
  <2> QED
    BY <1>2, <2>3, <2>4, <2>5 DEF RequestSound
<1> QED
  BY <1>1, <1>4, <1>5

\* The types after an event was sent.
LEMMA EmitTypes ==
  ASSUME RequestInv, NEW e \in OnWire, Emit(e.type, e.of, e.version), UNCHANGED <<link, connectedOnce>>,
         opened' \in OpenTypes, script'.events = script.events, script.at \in Nat, script'.at \in Nat,
         script'.at >= script.at, opened'.asks >= opened.asks, e.version <= script'.at + opened'.asks,
         script.events # NoRun => e.type \in RunTypes,
         script.events = NoRun => e.type \in {"created"} \cup Told(e.of)
  PROVE WireTypes' /\ NoteTypes' /\ WireFits'
<1>1. WireTypes /\ NoteTypes /\ WireFits /\ opened.asks \in Nat /\ opened'.asks \in Nat
  BY DEF RequestInv, RequestTypes, NoteTypes, OpenTypes
<1>2. NoteTypes'
  BY EmitIs DEF NoteTypes
<1>3. WireTypes' /\ WireFits'
  <2>1. CASE link
    <3>1. wire' = Append(wire, e) /\ wire \in Seq(OnWire)
      BY <1>1, <2>1, EmitIs DEF WireTypes
    <3>2. /\ wire' \in Seq(OnWire) /\ DOMAIN wire = 1..Len(wire) /\ DOMAIN wire' = 1..(Len(wire) + 1) /\ Len(wire) \in Nat
          /\ \A i \in DOMAIN wire : wire'[i] = wire[i] /\ wire[i].version \in Nat
          /\ wire'[Len(wire) + 1] = e
      BY <3>1, AppendWire
    <3>3. WireTypes'
      BY <1>1, <2>1, <3>2 DEF WireTypes
    <3>4. ASSUME NEW i \in DOMAIN wire'
          PROVE /\ wire'[i].version <= script'.at + opened'.asks
                /\ script'.events # NoRun => wire'[i].type \in RunTypes \cup {"connected"}
                /\ script'.events = NoRun => wire'[i].type \in {"created", "connected"} \cup Told(wire'[i].of)
      <4>1. CASE i = Len(wire) + 1
        BY <3>2, <4>1
      <4>2. CASE i # Len(wire) + 1
        <5>1. i \in DOMAIN wire /\ wire'[i] = wire[i] /\ wire[i].version \in Nat
          BY <3>2, <4>2
        <5>2. wire[i].version <= script.at + opened.asks
          BY <1>1, <5>1 DEF WireFits
        <5> QED
          BY <1>1, <5>1, <5>2 DEF WireFits
      <4> QED
        BY <4>1, <4>2
    <3> QED
      BY <3>3, <3>4 DEF WireFits, Told, RunTypes
  <2>2. CASE ~link
    <3>1. wire' = <<>>
      BY <2>2, EmitIs
    <3> QED
      BY <1>1, <2>2, <3>1 DEF WireTypes, WireFits
  <2> QED
    BY <1>1, <2>1, <2>2 DEF WireTypes
<1> QED
  BY <1>2, <1>3

\* A question or a permission is asked or answered.
LEMMA ToldStep ==
  ASSUME RequestInv, NEW r \in Askers, NEW t \in Told(r), Emit(t, r, opened.asks + 1),
         UNCHANGED AsideVars, script.events = NoRun, LoadOf(r) \in Loaded,
         opened' \in OpenTypes, opened'.asks = opened.asks + 1, opened'.askers = opened.askers,
         t \in AskedTypes => Open(r)', t \notin AskedTypes => ~Open(r)',
         \A s \in Askers \ {r} : Open(s)' <=> Open(s),
         replying' \subseteq opened'.past, opened'.past \in SUBSET Askers,
         \A s \in Askers : s \in opened'.past => ~Open(s)'
  PROVE RequestInv'
<1>1. /\ opened.asks \in Nat /\ opened'.asks \in Nat /\ opened'.asks >= opened.asks
      /\ script'.events = script.events /\ script' = script /\ script.at \in Nat
  BY DEF RequestInv, RequestTypes, NoteTypes, OpenTypes, AsideVars, ScriptTypes
<1>2. Loaded' = Loaded
  BY <1>1 DEF Loaded
<1>3. PICK e \in OnWire : e.type = t /\ e.of = r /\ e.version = opened.asks + 1
  <2>1. [type |-> t, of |-> r, version |-> opened.asks + 1] \in OnWire
    BY <1>1 DEF OnWire, Told, AskTypes
  <2> QED
    BY <2>1
<1>4. Emit(e.type, e.of, e.version)
  BY <1>3
<1>5. WireTypes' /\ NoteTypes' /\ WireFits'
  BY <1>1, <1>3, <1>4, EmitTypes DEF AsideVars
<1>6. BoxTypes' /\ LoadTypes' /\ ScriptTypes'
  BY <1>1 DEF RequestInv, RequestTypes, BoxTypes, AsideVars, LoadTypes, ScriptTypes
<1>7. RelatedTrue'
  BY DEF RequestInv, RelatedTrue, AsideVars, Family
<1>8. ASSUME NEW s \in Askers PROVE RequestSound(s)'
  BY <1>3, <1>1, <1>2, <1>4, ToldOf, OthersKeep
<1> QED
  BY <1>5, <1>6, <1>7, <1>8 DEF RequestInv, RequestTypes

LEMMA OpenTypesAre ==
  ASSUME RequestInv
  PROVE /\ opened.questions \subseteq Foreign /\ opened.grants \subseteq {"own"} /\ opened.past \subseteq Askers
        /\ opened.askers \subseteq Askers /\ opened.asks \in Nat /\ opened \in OpenTypes
BY DEF RequestInv, RequestTypes, NoteTypes, OpenTypes

LEMMA AsksKeeps == ASSUME RequestInv, Asks PROVE RequestInv'
<1>1. script.events = NoRun /\ UNCHANGED AsideVars /\ replying' = replying
  BY DEF Asks, PageKept, AsideVars
<1>2. /\ \A s \in Askers : s \in opened.past => ~Open(s)
      /\ replying \subseteq opened.past /\ ("own" \in opened.askers => opened.askers = {"own"})
  BY DEF RequestInv, RelatedTrue, ScriptTypes
<1>3. CASE \E q \in (opened.askers \cap Foreign) \ (opened.questions \cup opened.past) :
             /\ Exists(q) /\ opened' = [opened EXCEPT !.questions = @ \cup {q}, !.asks = @ + 1]
             /\ Emit("asked", q, opened.asks + 1)
  <2>1. PICK q \in (opened.askers \cap Foreign) \ (opened.questions \cup opened.past) :
               /\ opened' = [opened EXCEPT !.questions = @ \cup {q}, !.asks = @ + 1]
               /\ Emit("asked", q, opened.asks + 1)
    BY <1>3
  <2>2. q \in Askers /\ q \in Foreign /\ q # "own" /\ q \notin opened.past /\ "asked" \in Told(q) /\ "asked" \in AskedTypes
    BY <2>1, ForeignIs DEF Askers, Told, AskedTypes
  <2>3. LoadOf(q) \in Loaded
    BY <1>1, <1>2, <2>1, <2>2 DEF LoadOf, Loaded
  <2>4. /\ opened' \in OpenTypes /\ opened'.asks = opened.asks + 1 /\ opened'.askers = opened.askers
        /\ opened'.past = opened.past /\ opened'.questions = opened.questions \cup {q} /\ opened'.grants = opened.grants
    <3>1. opened \in OpenTypes /\ opened.asks + 1 \in Nat /\ opened.questions \cup {q} \in SUBSET Foreign
      BY <2>1, <2>2, OpenTypesAre
    <3>2. opened' \in OpenTypes
      BY <2>1, <2>2, <3>1 DEF OpenTypes
    <3> QED
      BY <2>1, <2>2, <3>1, <3>2 DEF OpenTypes
  <2>5. Open(q)' /\ \A s \in Askers \ {q} : Open(s)' <=> Open(s)
    BY <2>2, <2>4 DEF Open
  <2>6. \A s \in Askers : s \in opened'.past => ~Open(s)'
    BY <1>2, <2>2, <2>4, <2>5
  <2> QED
    BY <1>1, <1>2, <2>1, <2>2, <2>3, <2>4, <2>5, <2>6, OpenTypesAre, ToldStep
<1>4. CASE \E p \in (opened.askers \ Foreign) \ (opened.grants \cup opened.past) :
             /\ opened' = [opened EXCEPT !.grants = @ \cup {p}, !.asks = @ + 1]
             /\ Emit("permission asked", p, opened.asks + 1)
  <2>1. PICK p \in (opened.askers \ Foreign) \ (opened.grants \cup opened.past) :
               /\ opened' = [opened EXCEPT !.grants = @ \cup {p}, !.asks = @ + 1]
               /\ Emit("permission asked", p, opened.asks + 1)
    BY <1>4
  <2>2. p = "own" /\ "own" \in Askers /\ p \notin opened.past /\ "own" \in opened.askers
        /\ "permission asked" \in Told("own") /\ "permission asked" \in AskedTypes
    BY <2>1, OpenTypesAre DEF Askers, Told, AskedTypes
  <2>3. LoadOf("own") \in Loaded
    BY <1>1, <2>2 DEF LoadOf, Loaded
  <2>4. /\ opened' \in OpenTypes /\ opened'.asks = opened.asks + 1 /\ opened'.askers = opened.askers
        /\ opened'.past = opened.past /\ opened'.questions = opened.questions /\ opened'.grants = opened.grants \cup {"own"}
    <3>1. opened \in OpenTypes /\ opened.asks + 1 \in Nat
      BY OpenTypesAre
    <3>2. opened.grants \cup {"own"} \in SUBSET {"own"}
      BY OpenTypesAre
    <3>3. opened' = [opened EXCEPT !.grants = @ \cup {"own"}, !.asks = @ + 1]
      BY <2>1, <2>2
    <3>4. opened' \in OpenTypes
      BY <3>1, <3>2, <3>3 DEF OpenTypes
    <3> QED
      BY <3>1, <3>3, <3>4 DEF OpenTypes
  <2>5. Open("own")' /\ \A s \in Askers \ {"own"} : Open(s)' <=> Open(s)
    BY <2>2, <2>4 DEF Open
  <2>6. \A s \in Askers : s \in opened'.past => ~Open(s)'
    BY <1>2, <2>2, <2>4, <2>5
  <2> QED
    BY <1>1, <1>2, <2>1, <2>2, <2>3, <2>4, <2>5, <2>6, OpenTypesAre, ToldStep
<1> QED
  BY <1>3, <1>4 DEF Asks

\* Whom something is open of is loaded.
LEMMA OpenLoaded ==
  ASSUME RequestInv, NEW r \in Askers, Open(r)
  PROVE LoadOf(r) \in Loaded /\ script.events = NoRun
BY DEF RequestInv, RequestSound, NobodyElse, Nobody, Loaded, LoadOf

\* An answer, given here or elsewhere.
LEMMA AnsweredKeeps ==
  ASSUME RequestInv, UNCHANGED AsideVars, NEW r \in Askers, Open(r),
         opened' = IF r = "own"
                   THEN [opened EXCEPT !.grants = @ \ {r}, !.past = @ \cup {r}, !.asks = @ + 1]
                   ELSE [opened EXCEPT !.questions = @ \ {r}, !.past = @ \cup {r}, !.asks = @ + 1],
         NEW t \in Told(r), t \notin AskedTypes, Emit(t, r, opened.asks + 1), replying' \subseteq replying \cup {r}
  PROVE RequestInv'
<1>1. /\ \A s \in Askers : s \in opened.past => ~Open(s)
      /\ replying \subseteq opened.past
  BY DEF RequestInv, RelatedTrue
<1>2. /\ opened' \in OpenTypes /\ opened'.asks = opened.asks + 1 /\ opened'.askers = opened.askers
      /\ opened'.past = opened.past \cup {r}
      /\ opened'.questions = opened.questions \ {r} /\ opened'.grants = opened.grants \ {r}
  <2>1. CASE r = "own"
    <3>1. /\ opened \in OpenTypes /\ opened.asks + 1 \in Nat /\ opened.past \cup {r} \in SUBSET Askers
          /\ opened.questions \ {r} \in SUBSET Foreign /\ opened.grants \ {r} \in SUBSET {"own"}
      BY OpenTypesAre
    <3>2. opened' \in OpenTypes
      BY <2>1, <3>1 DEF OpenTypes
    <3>3. /\ opened.questions = opened.questions \ {r} \/ r # "own"
          /\ opened.grants = opened.grants \ {r} \/ r = "own"
      BY OpenTypesAre, ForeignIs
    <3>4. /\ opened'.asks = opened.asks + 1 /\ opened'.askers = opened.askers
          /\ opened'.past = opened.past \cup {r}
      BY <2>1, <3>1 DEF OpenTypes
    <3>5. /\ opened'.questions = IF r = "own" THEN opened.questions ELSE opened.questions \ {r}
          /\ opened'.grants = IF r = "own" THEN opened.grants \ {r} ELSE opened.grants
      BY <2>1, <3>1 DEF OpenTypes
    <3> QED
      BY <3>2, <3>3, <3>4, <3>5
  <2>2. CASE r # "own"
    <3>1. /\ opened \in OpenTypes /\ opened.asks + 1 \in Nat /\ opened.past \cup {r} \in SUBSET Askers
          /\ opened.questions \ {r} \in SUBSET Foreign /\ opened.grants \ {r} \in SUBSET {"own"}
      BY OpenTypesAre
    <3>2. opened' \in OpenTypes
      BY <2>2, <3>1 DEF OpenTypes
    <3>3. /\ opened.questions = opened.questions \ {r} \/ r # "own"
          /\ opened.grants = opened.grants \ {r} \/ r = "own"
      BY OpenTypesAre, ForeignIs
    <3>4. /\ opened'.asks = opened.asks + 1 /\ opened'.askers = opened.askers
          /\ opened'.past = opened.past \cup {r}
      BY <2>2, <3>1 DEF OpenTypes
    <3>5. /\ opened'.questions = IF r = "own" THEN opened.questions ELSE opened.questions \ {r}
          /\ opened'.grants = IF r = "own" THEN opened.grants \ {r} ELSE opened.grants
      BY <2>2, <3>1 DEF OpenTypes
    <3> QED
      BY <3>2, <3>3, <3>4, <3>5
  <2> QED
    BY <2>1, <2>2
<1>3. ~Open(r)' /\ \A s \in Askers \ {r} : Open(s)' <=> Open(s)
  BY <1>2 DEF Open
<1>4. \A s \in Askers : s \in opened'.past => ~Open(s)'
  BY <1>1, <1>2, <1>3
<1>5. LoadOf(r) \in Loaded /\ script.events = NoRun
  BY OpenLoaded
<1>6. replying' \subseteq opened'.past /\ opened'.past \in SUBSET Askers
  BY <1>1, <1>2, OpenTypesAre
<1> QED
  BY <1>2, <1>3, <1>4, <1>5, <1>6, ToldStep

LEMMA AnswerIs ==
  ASSUME RequestInv, NEW r, (r \in Foreign /\ AnsweredQuestion(r)) \/ (r = "own" /\ AnsweredPermission(r))
  PROVE /\ r \in Askers /\ Open(r)
        /\ opened' = IF r = "own"
                     THEN [opened EXCEPT !.grants = @ \ {r}, !.past = @ \cup {r}, !.asks = @ + 1]
                     ELSE [opened EXCEPT !.questions = @ \ {r}, !.past = @ \cup {r}, !.asks = @ + 1]
        /\ \E t \in Told(r) : t \notin AskedTypes /\ Emit(t, r, opened.asks + 1)
  BY ForeignIs DEF AnsweredQuestion, Askers, Open, Told, AskedTypes, AnsweredPermission

LEMMA AnswersKeep == ASSUME RequestInv, AnsweredElsewhere \/ Replies PROVE RequestInv'
  BY AnswerIs, AnsweredKeeps DEF AnsweredElsewhere, Replies, PageKept, AsideVars, RequestInv, RequestTypes, BoxTypes

LEMMA ChildCreatedKeeps == ASSUME RequestInv, ChildCreated PROVE RequestInv'
<1>1. /\ script.events = NoRun /\ UNCHANGED AsideVars /\ replying' = replying /\ opened.asks \in Nat
      /\ opened' = [opened EXCEPT !.child = TRUE] /\ Emit("created", "child", 0) /\ opened \in OpenTypes
  BY OpenTypesAre DEF ChildCreated, PageKept, AsideVars
<1>2. /\ opened' \in OpenTypes /\ opened'.asks = opened.asks /\ opened'.askers = opened.askers
      /\ opened'.past = opened.past /\ opened'.questions = opened.questions /\ opened'.grants = opened.grants
  BY <1>1 DEF OpenTypes
<1>3. PICK e \in OnWire : e.type = "created" /\ e.of = "child" /\ e.version = 0
  <2>1. [type |-> "created", of |-> "child", version |-> 0] \in OnWire
    BY ForeignIs DEF OnWire, AskTypes
  <2> QED
    BY <2>1
<1>4. Emit(e.type, e.of, e.version) /\ script' = script /\ script.at \in Nat
  BY <1>1, <1>3 DEF AsideVars, RequestInv, ScriptTypes
<1>5. WireTypes' /\ NoteTypes' /\ WireFits'
  <2>1. e.version <= script'.at + opened'.asks /\ opened'.asks >= opened.asks /\ script'.at >= script.at
    BY <1>1, <1>2, <1>3, <1>4
  <2> QED
    BY <1>1, <1>2, <1>3, <1>4, <2>1, EmitTypes DEF AsideVars
<1>6. BoxTypes' /\ LoadTypes' /\ ScriptTypes' /\ RelatedTrue'
  BY <1>1, <1>2 DEF RequestInv, RequestTypes, BoxTypes, AsideVars, LoadTypes, ScriptTypes, RelatedTrue, Family, Open
<1>7. ASSUME NEW s \in Askers PROVE RequestSound(s)'
  <2>1. (Open(s)' <=> Open(s)) /\ Loaded' = Loaded /\ e.type \notin Told(s)
    BY <1>2, <1>3, <1>4 DEF Open, Loaded, Told
  <2>2. opened'.asks >= opened.asks
    BY <1>1, <1>2
  <2> QED
    BY <1>1, <1>2, <1>4, <2>1, <2>2, OthersKeep
<1> QED
  BY <1>5, <1>6, <1>7 DEF RequestInv, RequestTypes

\* The events of a run.
LEMMA EventsAre ==
  /\ \A s \in {Usual, Early, Broken, NoRun} : s \in Seq(RunTypes) /\ Len(s) \in 0..8 /\ DOMAIN s = 1..Len(s)
  /\ \A s \in {Usual, Early, Broken, NoRun} : \A i \in 1..Len(s) : s[i] \in RunTypes
  /\ NoRun = <<>>
<1>1. Usual \in Seq(RunTypes) /\ Len(Usual) = 8
  BY DEF Usual, RunTypes
<1>2. Early \in Seq(RunTypes) /\ Len(Early) = 8
  BY DEF Early, RunTypes
<1>3. Broken \in Seq(RunTypes) /\ Len(Broken) = 3
  BY DEF Broken, RunTypes
<1>4. NoRun \in Seq(RunTypes) /\ Len(NoRun) = 0 /\ NoRun = <<>>
  BY DEF NoRun
<1>5. \A s \in Seq(RunTypes) : DOMAIN s = 1..Len(s) /\ \A i \in 1..Len(s) : s[i] \in RunTypes
  OBVIOUS
<1>6. ASSUME NEW s \in {Usual, Early, Broken, NoRun} PROVE s \in Seq(RunTypes) /\ Len(s) \in 0..8
  <2>1. CASE s = Usual
    BY <1>1, <2>1
  <2>2. CASE s = Early
    BY <1>2, <2>2
  <2>3. CASE s = Broken
    BY <1>3, <2>3
  <2>4. CASE s = NoRun
    BY <1>4, <2>4
  <2> QED
    BY <2>1, <2>2, <2>3, <2>4
<1> QED
  BY <1>4, <1>5, <1>6

LEMMA RunGoesOnKeeps == ASSUME RequestInv, RunGoesOn PROVE RequestInv'
<1>1. /\ script.events \in {Usual, Early, Broken, NoRun} /\ script.at \in Nat /\ script.at < Len(script.events)
      /\ script' = [script EXCEPT !.at = @ + 1] /\ script \in [events : {Usual, Early, Broken, NoRun}, at : Nat]
      /\ Emit(script.events[script.at + 1], "own", script.at + 1)
      /\ opened' = opened /\ opened.asks \in Nat /\ opened \in OpenTypes
  BY OpenTypesAre DEF RequestInv, ScriptTypes, RunGoesOn
<1>2. Len(script.events) \in Nat /\ script.events # NoRun /\ script.events[script.at + 1] \in RunTypes
  BY <1>1, EventsAre
<1>3. script'.events = script.events /\ script'.at = script.at + 1 /\ script' \in [events : {Usual, Early, Broken, NoRun}, at : Nat]
  BY <1>1
<1>4. PICK e \in OnWire : e.type = script.events[script.at + 1] /\ e.of = "own" /\ e.version = script.at + 1
  <2>1. [type |-> script.events[script.at + 1], of |-> "own", version |-> script.at + 1] \in OnWire
    BY <1>1, <1>2 DEF OnWire, Askers
  <2> QED
    BY <2>1
<1>5. Emit(e.type, e.of, e.version)
  BY <1>1, <1>4
<1>6. WireTypes' /\ NoteTypes' /\ WireFits'
  BY <1>1, <1>3, <1>4, <1>2, <1>5, EmitTypes DEF RunGoesOn
<1>7. ScriptTypes' /\ LoadTypes'
  BY <1>1, <1>2, <1>3 DEF RequestInv, RequestTypes, LoadTypes, RunGoesOn, ScriptTypes
<1>8. UNCHANGED RunVars /\ loads' = loads
  BY DEF RunGoesOn, RunVars
<1> QED
  BY <1>2, <1>3, <1>6, <1>7, <1>8, RunQuiet

\* A step on the page alone: for each who asks, what fitted fits.
StandVars == <<script, opened, link, wire, connectedOnce>>
LEMMA StandKeeps ==
  ASSUME RequestInv, UNCHANGED StandVars
  PROVE /\ WireTypes' /\ ScriptTypes' /\ WireFits' /\ Loaded' = Loaded /\ (Reconnecting' <=> Reconnecting)
        /\ opened \in OpenTypes /\ opened' \in OpenTypes
        /\ \A r \in Askers : LastIsNow(r)' /\ About(r)' = About(r) /\ (Open(r)' <=> Open(r))
<1>1. WireTypes' /\ ScriptTypes' /\ WireFits'
  BY DEF RequestInv, RequestTypes, WireTypes, ScriptTypes, WireFits, StandVars, Told
<1>2. Loaded' = Loaded /\ (Reconnecting' <=> Reconnecting) /\ opened' = opened
  BY DEF Loaded, Reconnecting, StandVars
<1>3. ASSUME NEW r \in Askers PROVE LastIsNow(r)' /\ About(r)' = About(r) /\ (Open(r)' <=> Open(r))
  BY DEF About, Open, StandVars, Told, RequestInv, RequestSound, LastIsNow
<1> QED
  BY <1>1, <1>2, <1>3, OpenTypesAre

LEMMA BoxStep ==
  ASSUME RequestInv, UNCHANGED <<StandVars, loads, seen>>, excused \subseteq excused', excused' \in SUBSET History,
         BoxTypes', RelatedTrue',
         \A r \in Askers : Nobody(r) => r \notin (boxes \cup grants)' /\ (r # "own" => walks'[r] = "none"),
         \A r \in Askers : Fits(r) => Fits(r)' \/ KindFor(r) \in excused'
  PROVE RequestInv'
<1>1. UNCHANGED StandVars /\ loads' = loads /\ seen' = seen
  OBVIOUS
<1>2. NoteTypes' /\ LoadTypes'
  BY <1>1, StandKeeps DEF RequestInv, RequestTypes, NoteTypes, LoadTypes
<1>3. ASSUME NEW r \in Askers PROVE RequestSound(r)'
  <2>1. LastIsNow(r)' /\ About(r)' = About(r) /\ (Open(r)' <=> Open(r)) /\ Loaded' = Loaded /\ (Reconnecting' <=> Reconnecting)
    BY <1>1, StandKeeps
  <2>2. AllDated(r) /\ NobodyElse(r) /\ InStep(r)
    BY DEF RequestInv, RequestSound
  <2>3. AllDated(r)'
    BY <1>1, <2>1, <2>2 DEF AllDated, Dated, StandVars, LoadOf, KindFor
  <2>4. Reloading(LoadOf(r))' <=> Reloading(LoadOf(r))
    BY <1>1 DEF Reloading, LoadOf
  <2>5. NobodyElse(r)'
    BY <2>1, <2>2, <2>4 DEF NobodyElse, Nobody, LoadOf
  <2>6. InStep(r)'
    BY <2>1, <2>2, <2>4 DEF InStep, KindFor, LoadOf
  <2> QED
    BY <2>1, <2>3, <2>5, <2>6 DEF RequestSound
<1> QED
  BY <1>1, <1>2, <1>3, StandKeeps DEF RequestInv, RequestTypes

LEMMA WalkAnswersKeeps == ASSUME RequestInv, NEW q \in Foreign, WalkAnswers(q) PROVE RequestInv'
<1>1. UNCHANGED <<StandVars, loads, seen>> /\ excused' = excused /\ grants' = grants /\ replying' = replying /\ walks[q] # "none"
  BY DEF WalkAnswers, StandVars
<1>2. /\ boxes \in SUBSET Foreign /\ grants \in SUBSET {"own"} /\ replying \in SUBSET Askers
      /\ related \in [Foreign -> {"unknown", "yes", "no"}] /\ walks \in [Foreign -> Foreign \cup {"none"}]
      /\ excused \in SUBSET History
  BY DEF RequestInv, RequestTypes, BoxTypes, NoteTypes
<1>3. /\ \A s \in Foreign : (related[s] = "yes" => s \in Family) /\ (related[s] = "no" => s \notin Family)
      /\ \A s \in Foreign : walks[s] \in {"none", s} \/ (s = "grandchild" /\ walks[s] = "child")
      /\ boxes \subseteq Family
  BY DEF RequestInv, RelatedTrue
<1> DEFINE parent == Parent[walks[q]]
           belongs == parent = "own" \/ (parent \in Foreign /\ related[parent] = "yes")
           decided == belongs \/ parent = "none" \/ related[parent] = "no"
<1>4. /\ walks' = [walks EXCEPT ![q] = IF decided THEN "none" ELSE parent]
      /\ related' = IF ~decided THEN related
                    ELSE [s \in Foreign |-> IF s \in Chain(q) THEN IF belongs THEN "yes" ELSE "no" ELSE related[s]]
      /\ boxes' = IF decided /\ belongs THEN boxes \cup {q} ELSE boxes
  BY DEF WalkAnswers
<1>5. walks[q] \in Foreign /\ parent \in {"own", "none", "child"} /\ "child" \in Family /\ "grandchild" \in Family /\ "other" \notin Family
  BY <1>1, <1>2, ForeignIs DEF Family
\* What a check finds is so.
<1>6. CASE belongs
  <2>1. q \in Family /\ Chain(q) \subseteq Family
    BY <1>6, ForeignIs, <1>5, <1>3 DEF Chain
  <2>2. /\ walks' = [walks EXCEPT ![q] = "none"] /\ boxes' = boxes \cup {q}
        /\ related' = [s \in Foreign |-> IF s \in Chain(q) THEN "yes" ELSE related[s]]
    BY <1>4, <1>6
  <2> HIDE DEF parent, belongs, decided
  <2>3. BoxTypes'
    BY <1>1, <1>2, <2>2 DEF BoxTypes
  <2>4. RelatedTrue'
    BY <1>3, <2>1, <2>2, <1>2, <1>1, StandKeeps DEF RequestInv, RelatedTrue, StandVars, Family
  <2>5. ASSUME NEW r \in Askers, Nobody(r) PROVE r \notin (boxes \cup grants)' /\ (r # "own" => walks'[r] = "none")
    BY <1>1, <2>5, ForeignIs, <1>2, <2>2 DEF Nobody, Askers
  <2>6. ASSUME NEW r \in Askers, Fits(r) PROVE Fits(r)'
    BY <1>1, <2>6, StandKeeps, <1>2, <2>2 DEF Fits, Open, StandVars, Askers, Family
  <2> QED
    BY <1>1, <1>2, <2>3, <2>4, <2>5, <2>6, BoxStep
<1>7. CASE ~belongs /\ decided
  <2>1. q = "other" /\ walks[q] = "other" /\ Chain(q) = {q}
    BY <1>7, ForeignIs, <1>3, <1>5 DEF Chain
  <2>2. /\ walks' = [walks EXCEPT ![q] = "none"] /\ boxes' = boxes
        /\ related' = [s \in Foreign |-> IF s = q THEN "no" ELSE related[s]]
    BY <1>4, <1>7, <2>1
  <2> HIDE DEF parent, belongs, decided
  <2>3. BoxTypes'
    BY <1>1, <1>2, <2>2 DEF BoxTypes
  <2>4. RelatedTrue'
    BY <1>3, <1>5, <2>1, <2>2, <1>2, <1>1, StandKeeps DEF RequestInv, RelatedTrue, StandVars, Family
  <2>5. ASSUME NEW r \in Askers, Nobody(r) PROVE r \notin (boxes \cup grants)' /\ (r # "own" => walks'[r] = "none")
    BY <1>1, <1>2, <2>2, <2>5 DEF Nobody, Askers
  <2>6. ASSUME NEW r \in Askers, Fits(r) PROVE Fits(r)'
    BY <1>1, <2>6, StandKeeps, <1>5, <2>1, <1>2, <2>2 DEF Fits, Open, StandVars, Askers, Family
  <2> QED
    BY <1>1, <1>2, <2>3, <2>4, <2>5, <2>6, BoxStep
<1>8. CASE ~decided
  <2>1. q = "grandchild" /\ parent = "child"
    BY <1>8, ForeignIs, <1>3, <1>5
  <2>2. walks' = [walks EXCEPT !["grandchild"] = "child"] /\ boxes' = boxes /\ related' = related
    BY <1>4, <1>8, <2>1
  <2> HIDE DEF parent, belongs, decided
  <2>3. BoxTypes'
    BY <1>1, <1>2, <2>2, ForeignIs DEF BoxTypes
  <2>4. RelatedTrue'
    BY <1>2, <1>3, <2>2, <1>1, StandKeeps DEF RequestInv, RelatedTrue, StandVars, Family
  <2>5. ASSUME NEW r \in Askers, Nobody(r) PROVE r \notin (boxes \cup grants)' /\ (r # "own" => walks'[r] = "none")
    BY <1>1, <2>5, ForeignIs, <1>2, <2>1, <2>2 DEF Nobody, Askers
  <2>6. ASSUME NEW r \in Askers, Fits(r) PROVE Fits(r)'
    BY <1>1, <2>6, StandKeeps, <1>2, <2>1, <2>2 DEF Fits, Open, StandVars, Askers, Family
  <2> QED
    BY <1>1, <1>2, <2>3, <2>4, <2>5, <2>6, BoxStep
<1> QED
  BY <1>6, <1>7, <1>8

LEMMA WalkFailsKeeps == ASSUME RequestInv, NEW q \in Foreign, WalkFails(q) PROVE RequestInv'
<1>1. /\ UNCHANGED <<StandVars, loads, seen>> /\ excused' = excused \cup {"questions"}
      /\ UNCHANGED <<boxes, grants, related, replying>> /\ walks' = [walks EXCEPT ![q] = "none"]
  BY DEF WalkFails, StandVars
<1>2. BoxTypes' /\ excused' \in SUBSET History /\ excused \subseteq excused'
  BY <1>1 DEF RequestInv, RequestTypes, BoxTypes, NoteTypes, History
<1>3. walks \in [Foreign -> Foreign \cup {"none"}]
  BY DEF RequestInv, RequestTypes, BoxTypes
<1>4. RelatedTrue'
  BY <1>1, StandKeeps, <1>3 DEF RequestInv, RelatedTrue, StandVars, Family
<1>5. ASSUME NEW r \in Askers, Nobody(r) PROVE r \notin (boxes \cup grants)' /\ (r # "own" => walks'[r] = "none")
  BY <1>1, <1>3, <1>5 DEF Nobody, Askers
<1>6. ASSUME NEW r \in Askers, Fits(r) PROVE Fits(r)' \/ KindFor(r) \in excused'
  BY <1>1, <1>6, StandKeeps DEF Fits, Open, StandVars, KindFor
<1> QED
  BY <1>1, <1>2, <1>4, <1>5, <1>6, BoxStep

LEMMA ReplyAnsweredKeeps == ASSUME RequestInv, ReplyAnswered PROVE RequestInv'
<1>1. /\ UNCHANGED <<StandVars, loads, seen>> /\ UNCHANGED <<excused, related, walks>>
      /\ \E a \in replying : /\ replying' = replying \ {a}
                             /\ \/ boxes' = boxes \ {a} /\ grants' = grants \ {a}
                                \/ boxes' = boxes /\ grants' = grants
  BY DEF ReplyAnswered, StandVars
<1>2. PICK a \in replying : /\ replying' = replying \ {a}
                            /\ \/ boxes' = boxes \ {a} /\ grants' = grants \ {a}
                               \/ boxes' = boxes /\ grants' = grants
  BY <1>1
<1>3. BoxTypes' /\ excused' \in SUBSET History /\ excused \subseteq excused'
  BY <1>1, <1>2 DEF RequestInv, RequestTypes, BoxTypes, NoteTypes
<1>4. RelatedTrue' /\ a \in Askers /\ ~Open(a)
  BY <1>1, <1>2, StandKeeps DEF RequestInv, RelatedTrue, StandVars, RequestTypes, BoxTypes, Family
<1>5. ASSUME NEW r \in Askers, Nobody(r) PROVE r \notin (boxes \cup grants)' /\ (r # "own" => walks'[r] = "none")
  BY <1>1, <1>2, <1>5 DEF Nobody
<1>6. ASSUME NEW r \in Askers, Fits(r) PROVE Fits(r)' \/ KindFor(r) \in excused'
  <2>1. Open(r)' <=> Open(r)
    BY <1>1, StandKeeps
  <2> QED
    BY <1>1, <1>2, <1>4, <1>6, <2>1 DEF Fits, Family
<1> QED
  BY <1>1, <1>3, <1>4, <1>5, <1>6, BoxStep

\* What a step on the loads has to keep.
LEMMA LoadStep ==
  ASSUME RequestInv, UNCHANGED StandVars, BoxTypes', LoadTypes', NoteTypes', RelatedTrue',
         \A r \in Askers : AllDated(r)' /\ InStep(r)' /\ (Nobody(r) => Nobody(r)')
  PROVE RequestInv'
  BY StandKeeps DEF RequestInv, RequestSound, NobodyElse, LoadOf, RequestTypes

LEMMA LoadSet ==
  ASSUME LoadTypes, NEW k \in Kinds, NEW g \in Generation, NEW x \in Loads, loads' = [loads EXCEPT ![k][g] = x],
         k = "permissions" => x.content \subseteq {"own"},
         k = "related" => x.content \subseteq Foreign /\ (x.at = "children" => x.content \subseteq {"child"})
  PROVE /\ LoadTypes' /\ loads'[k][g] = x
        /\ \A kk \in Kinds, gg \in Generation : kk # k \/ gg # g => loads'[kk][gg] = loads[kk][gg]
        /\ \A kk \in Kinds : kk # k => loads'[kk] = loads[kk]
  BY DEF LoadTypes, Kinds, Generation, Loads, LoadSteps

\* Who keeps to another kind of load is not concerned.
LEMMA OtherLoad ==
  ASSUME RequestInv, UNCHANGED StandVars, NEW r \in Askers,
         r \in boxes' <=> r \in boxes, r \in grants' <=> r \in grants, r # "own" => walks'[r] = walks[r],
         loads'[LoadOf(r)] = loads[LoadOf(r)], seen' \in SeenTypes, seen'[KindFor(r)] >= seen[KindFor(r)],
         KindFor(r) \in excused => KindFor(r) \in excused'
  PROVE AllDated(r)' /\ InStep(r)' /\ (Nobody(r) => Nobody(r)')
<1>1. /\ AllDated(r) /\ InStep(r) /\ LoadOf(r) \in Kinds /\ KindFor(r) \in {"permissions", "questions"}
      /\ seen \in SeenTypes /\ loads \in [Kinds -> [Generation -> Loads]]
  BY DEF RequestInv, RequestSound, LoadOf, KindFor, Kinds, RequestTypes, NoteTypes, LoadTypes
<1>2. About(r)' = About(r) /\ (Open(r)' <=> Open(r)) /\ (Reconnecting' <=> Reconnecting) /\ wire' = wire /\ opened' = opened
  BY StandKeeps DEF StandVars
<1>3. LoadOf(r)' = LoadOf(r) /\ KindFor(r)' = KindFor(r)
  BY DEF LoadOf, KindFor
<1>4. Reloading(LoadOf(r))' <=> Reloading(LoadOf(r))
  BY DEF Reloading, LoadOf
<1>5. AllDated(r)'
  BY <1>1, <1>2, <1>3 DEF AllDated, Loads, SeenTypes, Dated
<1>6. Fits(r)' <=> Fits(r)
  BY <1>2 DEF Fits, Family
<1>7. InStep(r)'
  BY <1>1, <1>2, <1>3, <1>4, <1>6 DEF InStep
<1>8. Nobody(r) => Nobody(r)'
  BY <1>2, <1>3, <1>4 DEF Nobody
<1> QED
  BY <1>5, <1>7, <1>8

LEMMA AloneKeeps ==
  ASSUME RequestInv, UNCHANGED StandVars, UNCHANGED <<boxes, grants, related, walks, replying>>
  PROVE BoxTypes' /\ RelatedTrue'
  BY DEF RequestInv, RequestTypes, BoxTypes, RelatedTrue, StandVars, Open, Family

LEMMA ReadsKeeps == ASSUME RequestInv, NEW k \in Kinds, NEW g \in Generation, Reads(k, g) PROVE RequestInv'
<1>1. UNCHANGED StandVars /\ UNCHANGED <<boxes, grants, related, walks, replying, seen, excused>>
  BY DEF Reads, StandVars
<1>2. LoadTypes /\ loads[k][g].at # "none" /\ loads[k][g] \in Loads /\ opened \in OpenTypes /\ script.at \in Nat /\ seen \in SeenTypes
  BY DEF RequestInv, RequestTypes, LoadTypes, Reads, NoteTypes, ScriptTypes
<1> DEFINE x == CASE k = "messages"                       -> [at |-> "read", version |-> script.at, content |-> {}]
             [] k = "permissions"                         -> [at |-> "read", version |-> opened.asks, content |-> opened.grants]
             [] k = "related" /\ loads[k][g].at = "asked" -> [at |-> "children", version |-> 0,
                                                              content |-> IF opened.child THEN {"child"} ELSE {}]
             [] OTHER                                     -> [at |-> "read", version |-> opened.asks, content |-> opened.questions]
<1>3. loads' = [loads EXCEPT ![k][g] = x]
  BY DEF Reads
<1>4. /\ x \in Loads /\ x.at # "none" /\ x.content \in SUBSET Askers
      /\ k = "permissions" => x.content \subseteq {"own"}
      /\ k = "related" => x.content \subseteq Foreign /\ (x.at = "children" => x.content \subseteq {"child"})
      /\ k = "permissions" /\ x.at = "read" => x.version = opened.asks /\ x.content = opened.grants
      /\ k = "related" /\ x.at = "read" => x.version = opened.asks /\ x.content = opened.questions
  <2>1. CASE k = "messages"
    <3>1. x = [at |-> "read", version |-> script.at, content |-> {}]
      BY <2>1
    <3> HIDE DEF x
    <3> QED
      BY <1>2, <2>1, <3>1 DEF Loads, LoadSteps
  <2>2. CASE k = "permissions"
    <3>1. x = [at |-> "read", version |-> opened.asks, content |-> opened.grants]
      BY <2>2
    <3> HIDE DEF x
    <3> QED
      BY <1>2, <2>2, <3>1, OpenTypesAre DEF Loads, LoadSteps, Askers
  <2>3. CASE k = "related" /\ loads[k][g].at = "asked"
    <3>1. x = [at |-> "children", version |-> 0, content |-> IF opened.child THEN {"child"} ELSE {}]
      BY <2>3
    <3> HIDE DEF x
    <3>2. (IF opened.child THEN {"child"} ELSE {}) \in SUBSET {"child"} /\ "child" \in Foreign
      BY ForeignIs
    <3> QED
      BY <1>2, <2>3, <3>1, <3>2, OpenTypesAre DEF Loads, LoadSteps, Askers
  <2>4. CASE k = "related" /\ loads[k][g].at # "asked"
    <3>1. x = [at |-> "read", version |-> opened.asks, content |-> opened.questions]
      BY <2>4
    <3> HIDE DEF x
    <3> QED
      BY <1>2, <2>4, <3>1, OpenTypesAre DEF Loads, LoadSteps, Askers
  <2> HIDE DEF x
  <2> QED
    BY <2>1, <2>2, <2>3, <2>4 DEF Kinds
<1> HIDE DEF x
<1>5. /\ LoadTypes' /\ loads'[k][g] = x
      /\ \A kk \in Kinds, gg \in Generation : kk # k \/ gg # g => loads'[kk][gg] = loads[kk][gg]
      /\ \A kk \in Kinds : kk # k => loads'[kk] = loads[kk]
  BY <1>2, <1>3, <1>4, LoadSet
<1>6. BoxTypes' /\ RelatedTrue'
  BY <1>1, AloneKeeps
<1>7. NoteTypes'
  BY <1>1 DEF RequestInv, RequestTypes, NoteTypes, StandVars
<1>8. ASSUME NEW r \in Askers PROVE AllDated(r)' /\ InStep(r)' /\ (Nobody(r) => Nobody(r)')
  <2>0. /\ LoadOf(r) \in Kinds /\ KindFor(r) \in {"permissions", "questions"} /\ seen[KindFor(r)] \in Nat
    BY <1>2 DEF LoadOf, Kinds, KindFor, SeenTypes
  <2>1. CASE LoadOf(r) # k
    BY <1>1, <2>0, <1>2, <1>5, <2>1, OtherLoad
  <2>2. CASE LoadOf(r) = k
    <3>1. /\ About(r)' = About(r) /\ (Open(r)' <=> Open(r)) /\ opened' = opened /\ wire' = wire
          /\ LoadOf(r)' = LoadOf(r) /\ KindFor(r)' = KindFor(r) /\ AllDated(r)
      BY <1>1, StandKeeps DEF StandVars, LoadOf, KindFor, RequestInv, RequestSound
    <3>2. Reloading(LoadOf(r))'
      BY <1>4, <1>5, <2>2, <3>1 DEF Reloading
    <3>3. ~Nobody(r)
      BY <1>2, <2>2 DEF Nobody, Reloading
    <3>4. InStep(r)'
      BY <3>2 DEF InStep, LoadOf
    <3>5. AllDated(r)'
      BY OpenTypesAre, <1>4, <2>2, <1>5, <3>1, <2>0, <1>1 DEF AllDated, LoadOf, Open, Dated
    <3> QED
      BY <3>3, <3>4, <3>5
  <2> QED
    BY <2>1, <2>2
<1> QED
  BY <1>1, <1>5, <1>6, <1>7, <1>8, LoadStep

\* A load that is no answer any more says nothing.
LEMMA EndedDated ==
  ASSUME RequestInv, UNCHANGED StandVars, NEW r \in Askers, NEW g \in Generation, loads'[LoadOf(r)][g].at # "read",
         \A gg \in Generation : gg # g => loads'[LoadOf(r)][gg] = loads[LoadOf(r)][gg],
         seen' \in SeenTypes, seen'[KindFor(r)] >= seen[KindFor(r)]
  PROVE AllDated(r)'
<1>1. /\ AllDated(r) /\ LoadOf(r) \in Kinds /\ KindFor(r) \in {"permissions", "questions"}
      /\ seen \in SeenTypes /\ loads \in [Kinds -> [Generation -> Loads]]
  BY DEF RequestInv, RequestSound, LoadOf, KindFor, Kinds, RequestTypes, NoteTypes, LoadTypes
<1>2. /\ About(r)' = About(r) /\ (Open(r)' <=> Open(r)) /\ wire' = wire /\ opened' = opened
      /\ LoadOf(r)' = LoadOf(r) /\ KindFor(r)' = KindFor(r)
  BY StandKeeps DEF StandVars, LoadOf, KindFor
<1> SUFFICES ASSUME NEW gg \in Generation PROVE Dated(r, loads[LoadOf(r)][gg])'
  BY DEF AllDated
<1>3. CASE gg = g
  BY <1>2, <1>3 DEF Dated
<1>4. CASE gg # g
  BY <1>1, <1>4, <1>2 DEF AllDated, Loads, SeenTypes, Dated
<1> QED
  BY <1>3, <1>4

LEMMA LoadFailsKeeps == ASSUME RequestInv, NEW k \in Kinds, NEW g \in Generation, LoadFails(k, g) PROVE RequestInv'
<1>1. UNCHANGED StandVars /\ UNCHANGED <<boxes, grants, related, walks, replying, seen>>
  BY DEF LoadFails, StandVars
<1>2. LoadTypes /\ loads[k][g].at # "none" /\ seen \in SeenTypes /\ excused \in SUBSET History
  BY DEF RequestInv, RequestTypes, NoteTypes, LoadFails
<1> DEFINE x == IF k = "related" /\ loads[k][g].at \in {"asked", "children"} THEN [NoLoad EXCEPT !.at = "second"] ELSE NoLoad
<1>3. loads' = [loads EXCEPT ![k][g] = x]
  BY DEF LoadFails
<1>4. /\ x \in Loads /\ x.at \in {"none", "second"} /\ x.content = {}
      /\ x.at = "none" => ~(k = "related" /\ loads[k][g].at \in {"asked", "children"})
  BY DEF NoLoad, Loads, LoadSteps
<1> HIDE DEF x
<1>5. /\ LoadTypes' /\ loads'[k][g] = x
      /\ \A kk \in Kinds, gg \in Generation : kk # k \/ gg # g => loads'[kk][gg] = loads[kk][gg]
      /\ \A kk \in Kinds : kk # k => loads'[kk] = loads[kk]
  BY <1>4, <1>2, <1>3, LoadSet
<1>6. /\ excused \subseteq excused' /\ excused' \in SUBSET History
      /\ k = "permissions" => "permissions" \in excused'
      /\ k = "related" /\ x.at = "none" => "questions" \in excused'
  BY <1>2, <1>4 DEF LoadTypes, Loads, LoadFails, History, LoadSteps, Kinds
<1>7. BoxTypes' /\ RelatedTrue' /\ NoteTypes'
  BY <1>1, <1>6, AloneKeeps DEF RequestInv, RequestTypes, NoteTypes, StandVars
<1>8. ASSUME NEW r \in Askers PROVE AllDated(r)' /\ InStep(r)' /\ (Nobody(r) => Nobody(r)')
  BY <1>1, <1>2, <1>5, <1>6, OtherLoad, <1>4, EndedDated DEF LoadOf, Kinds, KindFor, SeenTypes, Nobody, Reloading, InStep
<1> QED
  BY <1>1, <1>5, <1>7, <1>8, LoadStep

LEMMA MessagesArriveKeeps == ASSUME RequestInv, NEW g \in Generation, MessagesArrive(g) PROVE RequestInv'
<1> DEFINE l == loads["messages"][g]
           m == Conversation(script.events, l.version)
           fresh == NotOlder("messages", l)
           e == Excuses({"messages", "text"}, fresh)
           before == [script EXCEPT !.at = l.version]
           same == (Derived(m) = "busy") = Working(before)
<1>1. /\ UNCHANGED RequestVars /\ loads' = [loads EXCEPT !["messages"][g] = NoLoad]
      /\ seen' = [seen EXCEPT !["messages"] = IF l.version > @ THEN l.version ELSE @]
      /\ excused' = (IF fresh /\ same THEN e \ {"run"} ELSE e \cup {"run"}) \ (IF bubble' = "none" THEN {"bubble"} ELSE {})
  BY DEF MessagesArrive, RequestVars
<1>2. LoadTypes /\ NoLoad \in Loads /\ NoLoad.content = {} /\ "messages" \in Kinds /\ NoteTypes
  BY DEF RequestInv, RequestTypes, NoLoad, Loads, LoadSteps, Kinds
<1>3. LoadTypes' /\ \A kk \in Kinds : kk # "messages" => loads'[kk] = loads[kk]
  BY <1>1, <1>2, LoadSet
<1>4. l.version \in Nat
  BY <1>2 DEF LoadTypes, Loads
<1> HIDE DEF l, same
<1>5. /\ seen' \in SeenTypes /\ \A k \in {"permissions", "questions"} : seen'[k] = seen[k]
  BY <1>1, <1>2, <1>4 DEF NoteTypes, SeenTypes
<1>6. /\ excused' \in SUBSET History
      /\ \A k \in {"permissions", "questions"} : k \in excused => k \in excused'
  BY <1>1, <1>2 DEF NoteTypes, Excuses, History
<1>7. NoteTypes'
  BY <1>1, <1>2, <1>5, <1>6 DEF NoteTypes, RequestVars
<1> QED
  BY <1>1, <1>3, <1>5, <1>6, <1>7, Quiet DEF Kinds

LEMMA PermissionsArriveKeeps == ASSUME RequestInv, NEW g \in Generation, PermissionsArrive(g) PROVE RequestInv'
<1> DEFINE l == loads["permissions"][g]
           fresh == NotOlder("permissions", l)
<1>1. /\ UNCHANGED StandVars /\ UNCHANGED <<boxes, related, walks, replying>>
      /\ l.at = "read" /\ loads' = [loads EXCEPT !["permissions"][g] = NoLoad] /\ grants' = l.content
      /\ seen' = [seen EXCEPT !["permissions"] = IF l.version > @ THEN l.version ELSE @]
      /\ excused' = Excuses({"permissions"}, fresh)
  BY DEF PermissionsArrive, StandVars
<1>2. LoadTypes /\ NoLoad \in Loads /\ NoLoad.content = {} /\ NoLoad.at = "none" /\ "permissions" \in Kinds /\ NoteTypes
  BY DEF RequestInv, RequestTypes, NoLoad, Loads, LoadSteps, Kinds
<1>3. /\ LoadTypes' /\ loads'["permissions"][g] = NoLoad
      /\ \A kk \in Kinds, gg \in Generation : kk # "permissions" \/ gg # g => loads'[kk][gg] = loads[kk][gg]
      /\ \A kk \in Kinds : kk # "permissions" => loads'[kk] = loads[kk]
  BY <1>1, <1>2, LoadSet
<1>4. l \in Loads /\ l.version \in Nat /\ l.content \subseteq {"own"}
  BY <1>2 DEF LoadTypes, Loads
<1>5. fresh <=> l.version >= seen["permissions"]
  BY DEF NotOlder
<1> HIDE DEF l, fresh
<1>6. /\ seen' \in SeenTypes /\ \A k \in {"permissions", "questions"} : seen'[k] >= seen[k]
  BY <1>1, <1>2, <1>4 DEF NoteTypes, SeenTypes
<1>7. /\ excused' \in SUBSET History /\ ("questions" \in excused => "questions" \in excused')
      /\ ~fresh => "permissions" \in excused'
  BY <1>1, <1>2 DEF NoteTypes, Excuses, History
<1>8. BoxTypes' /\ RelatedTrue' /\ NoteTypes'
  BY <1>1, <1>4, <1>2, <1>6, <1>7 DEF RequestInv, RequestTypes, BoxTypes, RelatedTrue, StandVars, Open, Family, NoteTypes
<1>9. ASSUME NEW r \in Askers PROVE AllDated(r)' /\ InStep(r)' /\ (Nobody(r) => Nobody(r)')
  <2>0. grants \subseteq {"own"}
    BY DEF RequestInv, RequestTypes, BoxTypes
  <2>1. CASE r # "own"
    BY <1>1, <1>3, <1>4, <1>6, <2>0, <2>1, <1>7, OtherLoad DEF LoadOf, KindFor, Kinds
  <2>2. CASE r = "own"
    <3>1. LoadOf(r) = "permissions" /\ KindFor(r) = "permissions" /\ AllDated(r)
      BY <2>2 DEF LoadOf, KindFor, RequestInv, RequestSound
    <3>2. AllDated(r)'
      BY <1>1, <1>2, <1>3, <1>6, <3>1, EndedDated
    <3>3. ~Nobody(r)
      BY <1>1, <2>2 DEF Nobody, Reloading, LoadOf, l
    <3>4. InStep(r)'
      <4>1. CASE ~fresh
        BY <1>7, <2>2, <4>1 DEF InStep, KindFor
      <4>2. CASE fresh
        <5>1. Dated(r, l)
          BY <3>1 DEF AllDated, l
        <5>2. seen["permissions"] \in Nat /\ ~(seen["permissions"] > l.version)
          BY <1>2, <1>4, <1>5, <4>2 DEF NoteTypes, SeenTypes
        <5>3. (r \in l.content <=> Open(r)) \/ About(r) # {}
          BY <1>1, <3>1, <5>1, <5>2 DEF Dated
        <5>4. (Open(r)' <=> Open(r)) /\ About(r)' = About(r)
          BY <1>1, StandKeeps
        <5> QED
          BY <1>1, <2>2, <5>3, <5>4 DEF InStep, Fits
      <4> QED
        BY <4>1, <4>2
    <3> QED
      BY <3>2, <3>3, <3>4
  <2> QED
    BY <2>1, <2>2
<1> QED
  BY <1>1, <1>3, <1>8, <1>9, LoadStep

LEMMA ChildrenArriveKeeps == ASSUME RequestInv, NEW g \in Generation, ChildrenArrive(g) PROVE RequestInv'
<1> DEFINE l == loads["related"][g]
           x == [NoLoad EXCEPT !.at = "second"]
<1>1. /\ UNCHANGED StandVars /\ UNCHANGED <<boxes, grants, walks, replying, seen, excused>>
      /\ l.at = "children" /\ loads' = [loads EXCEPT !["related"][g] = x]
      /\ related' = [s \in Foreign |-> IF s \in l.content THEN "yes" ELSE related[s]]
  BY DEF ChildrenArrive, StandVars
<1>2. /\ LoadTypes /\ x \in Loads /\ x.content = {} /\ x.at = "second" /\ "related" \in Kinds /\ NoteTypes
      /\ related \in [Foreign -> {"unknown", "yes", "no"}]
  BY DEF RequestInv, RequestTypes, NoLoad, Loads, LoadSteps, Kinds, BoxTypes
<1> HIDE DEF x
<1>3. /\ LoadTypes' /\ loads'["related"][g] = x
      /\ \A kk \in Kinds, gg \in Generation : kk # "related" \/ gg # g => loads'[kk][gg] = loads[kk][gg]
      /\ \A kk \in Kinds : kk # "related" => loads'[kk] = loads[kk]
  BY <1>2, <1>1, LoadSet
<1>4. l.content \subseteq {"child"}
  BY <1>1, <1>2 DEF LoadTypes
<1> HIDE DEF l
<1>5. BoxTypes' /\ RelatedTrue' /\ NoteTypes'
  BY <1>1, <1>2, <1>4 DEF RequestInv, RequestTypes, BoxTypes, RelatedTrue, Family, StandVars, Open, NoteTypes
<1>6. ASSUME NEW r \in Askers PROVE AllDated(r)' /\ InStep(r)' /\ (Nobody(r) => Nobody(r)')
  BY <1>2, <1>1, <1>3, OtherLoad, EndedDated DEF NoteTypes, KindFor, SeenTypes, LoadOf, Kinds, Reloading, InStep, Nobody, l
<1> QED
  BY <1>1, <1>3, <1>5, <1>6, LoadStep

LEMMA QuestionsArriveKeeps == ASSUME RequestInv, NEW g \in Generation, QuestionsArrive(g) PROVE RequestInv'
<1> DEFINE l == loads["related"][g]
           fresh == NotOlder("questions", l)
           still == boxes \cap l.content
           sure == fresh /\ \A q \in Foreign : walks[q] # "none" => q \in l.content
<1>1. /\ UNCHANGED StandVars /\ UNCHANGED <<grants, related, replying>>
      /\ l.at = "read" /\ loads' = [loads EXCEPT !["related"][g] = NoLoad]
      /\ boxes' = still \cup {q \in l.content : related[q] = "yes"}
      /\ walks' = [q \in Foreign |-> IF q \in l.content \ still /\ related[q] = "unknown" /\ walks[q] = "none"
                                     THEN q ELSE walks[q]]
      /\ seen' = [seen EXCEPT !["questions"] = IF l.version > @ THEN l.version ELSE @]
      /\ excused' = Excuses({"questions"}, sure)
  BY DEF QuestionsArrive, StandVars
<1>2. /\ LoadTypes /\ NoLoad \in Loads /\ NoLoad.content = {} /\ NoLoad.at = "none" /\ "related" \in Kinds /\ NoteTypes
      /\ related \in [Foreign -> {"unknown", "yes", "no"}] /\ walks \in [Foreign -> Foreign \cup {"none"}]
      /\ boxes \subseteq Foreign
  BY DEF RequestInv, RequestTypes, NoLoad, Loads, LoadSteps, Kinds, BoxTypes
<1>3. /\ LoadTypes' /\ loads'["related"][g] = NoLoad
      /\ \A kk \in Kinds, gg \in Generation : kk # "related" \/ gg # g => loads'[kk][gg] = loads[kk][gg]
      /\ \A kk \in Kinds : kk # "related" => loads'[kk] = loads[kk]
  BY <1>1, <1>2, LoadSet
<1>4. l \in Loads /\ l.version \in Nat /\ l.content \subseteq Foreign
  BY <1>2 DEF LoadTypes, Loads
<1>5. fresh <=> l.version >= seen["questions"]
  BY DEF NotOlder
<1>6. sure => fresh /\ \A q \in Foreign : walks[q] # "none" => q \in l.content
  OBVIOUS
<1> HIDE DEF l, fresh, sure
<1>7. /\ seen' \in SeenTypes /\ \A k \in {"permissions", "questions"} : seen'[k] >= seen[k]
  BY <1>1, <1>2, <1>4 DEF NoteTypes, SeenTypes
<1>8. /\ excused' \in SUBSET History /\ ("permissions" \in excused => "permissions" \in excused')
      /\ ~sure => "questions" \in excused'
  BY <1>1, <1>2 DEF NoteTypes, Excuses, History
<1>9. BoxTypes' /\ RelatedTrue' /\ NoteTypes'
  BY <1>1, <1>2, <1>4, <1>7, <1>8 DEF RequestInv, RequestTypes, BoxTypes, RelatedTrue, StandVars, Open, Family, NoteTypes
<1>10. ASSUME NEW r \in Askers PROVE AllDated(r)' /\ InStep(r)' /\ (Nobody(r) => Nobody(r)')
  <2>1. CASE r = "own"
    <3>1. /\ LoadOf(r) = "permissions" /\ KindFor(r) = "permissions" /\ loads'[LoadOf(r)] = loads[LoadOf(r)]
          /\ seen'[KindFor(r)] >= seen[KindFor(r)] /\ r \notin boxes /\ r \notin boxes'
      BY <1>1, <1>2, <1>3, <1>4, <1>7, <2>1, ForeignIs DEF LoadOf, KindFor, Kinds
    <3> QED
      BY <1>1, <1>7, <1>8, <2>1, <3>1, OtherLoad
  <2>2. CASE r # "own"
    <3>1. LoadOf(r) = "related" /\ KindFor(r) = "questions" /\ AllDated(r) /\ r \in Foreign
      BY <2>2 DEF LoadOf, KindFor, RequestInv, RequestSound, Askers
    <3>2. AllDated(r)'
      <4>1. /\ loads'[LoadOf(r)][g].at # "read" /\ seen' \in SeenTypes /\ seen'[KindFor(r)] >= seen[KindFor(r)]
            /\ \A gg \in Generation : gg # g => loads'[LoadOf(r)][gg] = loads[LoadOf(r)][gg]
        BY <1>2, <1>3, <1>7, <3>1
      <4> QED
        BY <1>1, <4>1, EndedDated
    <3>3. ~Nobody(r)
      BY <1>1, <3>1 DEF Nobody, Reloading, l
    <3>4. InStep(r)'
      <4>1. CASE ~sure
        BY <1>8, <2>2, <4>1 DEF InStep, KindFor
      <4>2. CASE sure
        <5>1. Dated(r, l)
          BY <3>1 DEF AllDated, l
        <5>2. seen["questions"] \in Nat /\ ~(seen["questions"] > l.version)
          BY <1>2, <1>4, <1>5, <1>6, <4>2 DEF NoteTypes, SeenTypes
        <5>3. (r \in l.content <=> Open(r)) \/ About(r) # {}
          BY <1>1, <3>1, <5>1, <5>2 DEF Dated
        <5>4. (Open(r)' <=> Open(r)) /\ About(r)' = About(r)
          BY <1>1, StandKeeps
        <5>5. ASSUME r \in l.content <=> Open(r) PROVE Fits(r)'
          <6>1. r \in boxes' => Open(r)'
            BY <1>1, <5>4, <5>5
          <6>2. walks'[r] # "none" => Open(r)'
            BY <1>1, <1>6, <3>1, <4>2, <5>4, <5>5
          <6>3. ASSUME Open(r)', r \in Family PROVE r \in boxes' \/ walks'[r] # "none"
            BY <5>4, <5>5, <6>3, <3>1, <1>1, ForeignIs, <1>2 DEF RequestInv, RelatedTrue
          <6> QED
            BY <2>2, <6>1, <6>2, <6>3 DEF Fits, Family
        <5> QED
          BY <5>3, <5>4, <5>5 DEF InStep
      <4> QED
        BY <4>1, <4>2
    <3> QED
      BY <3>2, <3>3, <3>4
  <2> QED
    BY <2>1, <2>2
<1> QED
  BY <1>1, <1>3, <1>9, <1>10, LoadStep

LEMMA ConnectsKeeps == ASSUME RequestInv, Connects PROVE RequestInv'
<1> DEFINE c == [type |-> "connected", of |-> "own", version |-> 0]
<1>1. /\ ~link /\ link' = TRUE /\ wire' = <<c>>
      /\ UNCHANGED <<script, opened, connectedOnce, boxes, grants, related, walks, loads, replying, seen, excused>>
  BY DEF Connects
<1>2. c \in OnWire /\ c.type = "connected" /\ c.version = 0
  BY DEF OnWire, Askers
<1> HIDE DEF c
<1>3. wire' \in Seq(OnWire) /\ DOMAIN wire' = {1} /\ wire'[1] = c /\ wire = <<>>
  BY <1>1, <1>2 DEF RequestInv, RequestTypes, WireTypes
<1>4. script.at + opened.asks >= 0 /\ script' = script /\ opened' = opened
  BY <1>1, OpenTypesAre DEF RequestInv, ScriptTypes
<1>5. WireTypes' /\ WireFits' /\ ScriptTypes'
  BY <1>1, <1>3, <1>2, <1>4 DEF RequestInv, RequestTypes, WireTypes, WireFits, ScriptTypes
<1>6. BoxTypes' /\ NoteTypes' /\ LoadTypes' /\ RelatedTrue'
  BY <1>1 DEF RequestInv, RequestTypes, BoxTypes, NoteTypes, LoadTypes, RelatedTrue, Open, Family
<1>7. ASSUME NEW r \in Askers PROVE RequestSound(r)'
  <2>1. /\ AllDated(r) /\ NobodyElse(r) /\ InStep(r) /\ (Open(r)' <=> Open(r)) /\ Loaded' = Loaded
    BY <1>1 DEF RequestInv, RequestSound, Open, Loaded
  <2>2. About(r) = {} /\ About(r)' = {}
    <3>1. About(r) = {}
      BY <1>3 DEF About
    <3>2. "connected" \notin Told(r)
      BY DEF Told
    <3>3. \A i : i \in About(r)' => i \in DOMAIN wire' /\ wire'[i].type \in Told(r)
      BY DEF About, Told
    <3> QED
      BY <1>2, <1>3, <3>1, <3>2, <3>3
  <2>3. LoadOf(r)' = LoadOf(r) /\ KindFor(r)' = KindFor(r) /\ (Reloading(LoadOf(r))' <=> Reloading(LoadOf(r)))
    BY <1>1 DEF LoadOf, KindFor, Reloading
  <2>4. LastIsNow(r)'
    BY <2>2 DEF LastIsNow
  <2>5. AllDated(r)'
    BY <1>1, <2>1, <2>2, <2>3 DEF AllDated, Dated
  <2>6. NobodyElse(r)'
    BY <1>1, <2>1, <2>2, <2>3 DEF NobodyElse, Nobody
  <2>7. InStep(r)'
    BY <1>1, <1>2, <1>3, <2>1, <2>2, <2>3 DEF Reconnecting, Fits, Family, InStep
  <2> QED
    BY <2>4, <2>5, <2>6, <2>7 DEF RequestSound
<1> QED
  BY <1>5, <1>6, <1>7 DEF RequestInv, RequestTypes

LEMMA BreaksKeeps == ASSUME RequestInv, Breaks PROVE RequestInv'
<1> DEFINE E == {wire[i] : i \in DOMAIN wire}
           b == script.at + opened.asks
<1>1. /\ link' = FALSE /\ wire' = <<>> /\ Lost(E)
      /\ UNCHANGED <<script, opened, connectedOnce, boxes, grants, related, walks, loads, replying>>
  BY DEF Breaks
<1>2. wire \in Seq(OnWire) /\ NoteTypes /\ b \in Nat /\ connectedOnce \in BOOLEAN /\ script.at \in Nat
  BY OpenTypesAre DEF RequestInv, RequestTypes, WireTypes, ScriptTypes
<1>3. E \in SUBSET OnWire /\ \A e \in E : e.version <= b
  BY <1>2 DEF RequestInv, WireFits
<1> HIDE DEF b
<1>4. /\ seen' \in SeenTypes /\ excused' \in SUBSET History /\ excused \subseteq excused'
      /\ \A k \in {"messages", "questions", "permissions"} :
           /\ seen'[k] >= seen[k]
           /\ \A e \in E : k \in KindsOf(e.type) => seen'[k] >= e.version
      /\ ~connectedOnce => \A e \in E : KindsOf(e.type) \subseteq excused'
  <2> HIDE DEF E
  <2> QED
    BY <1>1, <1>2, <1>3, LostIs DEF NoteTypes
<1>5. WireTypes' /\ WireFits' /\ ScriptTypes'
  <2>0. wire' = <<>> /\ link' = FALSE /\ connectedOnce' = connectedOnce
    BY <1>1
  <2>1. wire' \in Seq(OnWire) /\ DOMAIN wire' = {} /\ link' \in BOOLEAN /\ connectedOnce' \in BOOLEAN /\ wire' = <<>>
    <3>1. <<>> \in Seq(OnWire) /\ DOMAIN <<>> = {}
      OBVIOUS
    <3> QED
      BY <1>2, <2>0, <3>1
  <2>3. WireTypes' /\ WireFits'
    BY <2>1 DEF WireTypes, WireFits
  <2>2. ScriptTypes'
    BY <1>1 DEF RequestInv, ScriptTypes
  <2> QED
    BY <2>2, <2>3
<1>6. BoxTypes' /\ NoteTypes' /\ LoadTypes' /\ RelatedTrue'
  BY <1>1, <1>4 DEF RequestInv, RequestTypes, BoxTypes, LoadTypes, RelatedTrue, Open, Family, NoteTypes
<1>7. ASSUME NEW r \in Askers PROVE RequestSound(r)'
  <2>1. /\ AllDated(r) /\ NobodyElse(r) /\ InStep(r) /\ (Open(r)' <=> Open(r)) /\ Loaded' = Loaded
        /\ LoadOf(r) \in Kinds /\ KindFor(r) \in {"permissions", "questions"}
    BY <1>1 DEF RequestInv, RequestSound, Open, Loaded, LoadOf, KindFor, Kinds
  <2>2. About(r)' = {}
    BY <1>1, AboutNothing
  <2>3. LoadOf(r)' = LoadOf(r) /\ KindFor(r)' = KindFor(r) /\ (Reloading(LoadOf(r))' <=> Reloading(LoadOf(r)))
    BY <1>1 DEF LoadOf, KindFor, Reloading
  <2>4. ASSUME NEW i \in About(r)
        PROVE /\ seen'[KindFor(r)] >= wire[i].version /\ (~connectedOnce => KindFor(r) \in excused')
              /\ wire[i].version \in Nat
    <3>1. i \in DOMAIN wire /\ wire[i].type \in Told(r) /\ wire[i] \in E
      BY DEF About
    <3>2. KindFor(r) \in KindsOf(wire[i].type)
      BY <3>1, KindsAre
    <3>3. wire[i].version \in Nat
      BY <1>3, <3>1 DEF OnWire
    <3> HIDE DEF E
    <3> QED
      BY <1>4, <2>1, <3>1, <3>2, <3>3
  <2>5. LastIsNow(r)'
    BY <2>2 DEF LastIsNow
  <2>6. AllDated(r)'
    <3> SUFFICES ASSUME NEW g \in Generation PROVE Dated(r, loads[LoadOf(r)][g])'
      BY DEF AllDated
    <3> DEFINE l == loads[LoadOf(r)][g]
    <3>1. Dated(r, l) /\ loads'[LoadOf(r)][g] = l
      BY <1>1, <2>1 DEF AllDated
    <3>2. l \in Loads /\ seen[KindFor(r)] \in Nat /\ seen'[KindFor(r)] \in Nat /\ seen'[KindFor(r)] >= seen[KindFor(r)]
      BY <1>2, <1>4, <2>1 DEF RequestInv, RequestTypes, LoadTypes, NoteTypes, SeenTypes
    <3>3. l.version \in Nat
      BY <3>2 DEF Loads
    <3> HIDE DEF l
    <3>4. seen[KindFor(r)] > l.version => seen'[KindFor(r)] > l.version
      BY <3>2, <3>3
    <3>5. (\E i \in About(r) : wire[i].version > l.version) => seen'[KindFor(r)] > l.version
      BY <2>4, <3>2, <3>3
    <3>6. l.at = "read" => /\ l.version <= opened.asks
                           /\ (r \in l.content <=> Open(r)) \/ seen'[KindFor(r)] > l.version
      BY <3>1, <3>4, <3>5 DEF Dated
    <3> QED
      BY <1>1, <2>1, <2>3, <3>1, <3>6 DEF Dated
  <2>7. NobodyElse(r)'
    BY <1>1, <2>1, <2>2, <2>3 DEF NobodyElse, Nobody
  <2>8. InStep(r)'
    BY <1>1, <2>1, <2>4, <1>2, <1>4, <2>2, <2>3 DEF Reconnecting, Fits, Family, InStep
  <2> QED
    BY <2>5, <2>6, <2>7, <2>8 DEF RequestSound
<1> QED
  BY <1>5, <1>6, <1>7 DEF RequestInv, RequestTypes

\* What the arrival of an event does to those still on their way.
LEMMA TailTypes ==
  ASSUME RequestInv, wire # <<>>, wire' = Tail(wire), UNCHANGED <<script, opened, link>>, connectedOnce' \in BOOLEAN
  PROVE WireTypes' /\ WireFits' /\ ScriptTypes' /\ link
<1>1. /\ wire \in Seq(OnWire) /\ link /\ link' = link /\ script' = script /\ opened' = opened /\ WireFits
  BY DEF RequestInv, RequestTypes, WireTypes
<1>2. /\ wire' \in Seq(OnWire)
      /\ \A i \in DOMAIN wire' : i \in Nat /\ i + 1 \in DOMAIN wire /\ wire'[i] = wire[i + 1]
  BY <1>1, TailWire
<1>3. WireFits'
  <2>1. ASSUME NEW i \in DOMAIN wire'
        PROVE /\ wire'[i].version <= script'.at + opened'.asks
              /\ script'.events # NoRun => wire'[i].type \in RunTypes \cup {"connected"}
              /\ script'.events = NoRun => wire'[i].type \in {"created", "connected"} \cup Told(wire'[i].of)
    BY <1>2, <1>1 DEF WireFits
  <2> QED
    BY <2>1 DEF WireFits, Told, RunTypes
<1>4. WireTypes' /\ ScriptTypes'
  BY <1>1, <1>2 DEF RequestInv, ScriptTypes, WireTypes
<1> QED
  BY <1>1, <1>3, <1>4

LEMMA TailLast ==
  ASSUME RequestInv, wire # <<>>, wire' = Tail(wire), UNCHANGED <<script, opened>>, NEW r \in Askers
  PROVE /\ LastIsNow(r)' /\ (Open(r)' <=> Open(r)) /\ Loaded' = Loaded
        /\ About(r) = {} => About(r)' = {}
        /\ 1 \notin About(r) /\ About(r)' = {} => About(r) = {}
        /\ About(r)' = {} => About(r) \subseteq {1}
<1>1. wire \in Seq(OnWire) /\ LastIsNow(r)
  BY DEF RequestInv, RequestTypes, WireTypes, RequestSound
<1>2. /\ \A i : i \in About(r)' => i + 1 \in About(r) /\ i \in Nat /\ wire'[i] = wire[i + 1]
      /\ \A i : i \in About(r) => i = 1 \/ i - 1 \in About(r)'
      /\ \A i : i \in About(r) => i \in Nat /\ i >= 1
  BY <1>1, AboutTail
<1>3. (Open(r)' <=> Open(r)) /\ opened' = opened /\ Loaded' = Loaded
  BY DEF Open, Loaded
<1>4. LastIsNow(r)'
  <2> SUFFICES ASSUME NEW i \in About(r)'
               PROVE /\ wire'[i].version <= opened'.asks
                     /\ (\A j \in About(r)' : j <= i) => (wire'[i].type \in AskedTypes <=> Open(r)')
    BY DEF LastIsNow
  <2>1. i + 1 \in About(r) /\ i \in Nat /\ wire'[i] = wire[i + 1]
    BY <1>2
  <2>2. wire[i + 1].version <= opened.asks
    BY <1>1, <2>1 DEF LastIsNow
  <2>3. ASSUME \A j \in About(r)' : j <= i PROVE wire[i + 1].type \in AskedTypes <=> Open(r)
    BY <1>2, <2>1, <2>3, <1>1 DEF LastIsNow
  <2> QED
    BY <1>3, <2>1, <2>2, <2>3
<1>5. /\ About(r) = {} => About(r)' = {}
      /\ 1 \notin About(r) /\ About(r)' = {} => About(r) = {}
      /\ About(r)' = {} => About(r) \subseteq {1}
  BY <1>2
<1> QED
  BY <1>3, <1>4, <1>5

LEMMA TailDated ==
  ASSUME RequestInv, wire # <<>>, wire' = Tail(wire), UNCHANGED <<script, opened>>, NEW r \in Askers,
         seen' \in SeenTypes, seen'[KindFor(r)] >= seen[KindFor(r)],
         1 \in About(r) => seen'[KindFor(r)] >= wire[1].version,
         \A g \in Generation : loads'[LoadOf(r)][g] = loads[LoadOf(r)][g] \/ loads'[LoadOf(r)][g].at # "read"
  PROVE AllDated(r)'
<1>1. /\ AllDated(r) /\ LoadOf(r) \in Kinds /\ KindFor(r) \in {"permissions", "questions"}
      /\ seen \in SeenTypes /\ loads \in [Kinds -> [Generation -> Loads]] /\ wire \in Seq(OnWire)
      /\ LoadOf(r)' = LoadOf(r) /\ KindFor(r)' = KindFor(r) /\ opened' = opened
  BY DEF RequestInv, RequestSound, LoadOf, KindFor, Kinds, RequestTypes, NoteTypes, LoadTypes, WireTypes
<1> SUFFICES ASSUME NEW g \in Generation PROVE Dated(r, loads[LoadOf(r)][g])'
  BY DEF AllDated
<1>2. CASE loads'[LoadOf(r)][g].at # "read"
  BY <1>1, <1>2 DEF Dated
<1>3. CASE loads'[LoadOf(r)][g] = loads[LoadOf(r)][g]
  <2> DEFINE l == loads[LoadOf(r)][g]
  <2>1. Dated(r, l) /\ l.version \in Nat
    BY <1>1 DEF AllDated, Loads
  <2>2. seen[KindFor(r)] \in Nat /\ seen'[KindFor(r)] \in Nat
    BY <1>1 DEF SeenTypes
  <2>3. Open(r)' <=> Open(r)
    BY TailLast
  <2>4. /\ \A i : i \in About(r) => i = 1 \/ (i - 1 \in About(r)' /\ wire'[i - 1] = wire[i])
        /\ \A i \in About(r) : i \in DOMAIN wire
    BY <1>1, AboutTail DEF About
  <2>5. \A i \in DOMAIN wire : wire[i].version \in Nat
    BY <1>1, TailWire
  <2> HIDE DEF l
  <2>6. seen[KindFor(r)] > l.version => seen'[KindFor(r)] > l.version
    BY <2>1, <2>2
  <2>7. ASSUME NEW i \in About(r), wire[i].version > l.version
        PROVE seen'[KindFor(r)] > l.version \/ \E j \in About(r)' : wire'[j].version > l.version
    <3>1. CASE i = 1
      BY <2>4, <2>5, <2>7, <3>1, <2>1, <2>2
    <3>2. CASE i # 1
      BY <2>4, <2>7, <3>2
    <3> QED
      BY <3>1, <3>2
  <2>8. l.at = "read" => /\ l.version <= opened.asks
                         /\ \/ r \in l.content <=> Open(r)
                            \/ seen'[KindFor(r)] > l.version
                            \/ \E j \in About(r)' : wire'[j].version > l.version
    BY <2>1, <2>6, <2>7 DEF Dated
  <2>9. loads'[LoadOf(r)'][g] = l
    BY <1>1, <1>3 DEF l
  <2> QED
    BY <1>1, <2>3, <2>8, <2>9 DEF Dated
<1> QED
  BY <1>2, <1>3

LEMMA ConnectedKeeps ==
  ASSUME RequestInv, wire # <<>>, wire' = Tail(wire), UNCHANGED <<script, opened, link, replying>>,
         Head(wire).type = "connected", Connected
  PROVE RequestInv'
<1>1. /\ connectedOnce' = TRUE /\ UNCHANGED <<boxes, grants, related, walks, seen, excused>>
      /\ loads' = IF ~connectedOnce THEN loads
                  ELSE [k \in Kinds |-> [g \in Generation |->
                          IF k \in Loaded /\ g \in NextGeneration(k) THEN Load ELSE loads[k][g]]]
  BY DEF Connected, Reloads
<1>2. LoadTypes /\ Load \in Loads /\ Load.at = "asked" /\ Load.content = {} /\ loads \in [Kinds -> [Generation -> Loads]]
  BY DEF RequestInv, RequestTypes, LoadTypes, Load, NoLoad, Loads, LoadSteps
<1>3. WireTypes' /\ WireFits' /\ ScriptTypes'
  BY <1>1, TailTypes
<1>4. \A k \in Kinds, g \in Generation :
        \/ loads'[k][g] = loads[k][g]
        \/ loads'[k][g] = Load /\ loads[k][g].at = "none"
  BY <1>1 DEF NextGeneration
<1>5. LoadTypes'
  <2>1. loads' \in [Kinds -> [Generation -> Loads]]
    BY <1>1, <1>2
  <2>2. "permissions" \in Kinds /\ "related" \in Kinds
    BY DEF Kinds
  <2>3. ASSUME NEW g \in Generation
        PROVE /\ loads'["permissions"][g].content \subseteq {"own"} /\ loads'["related"][g].content \subseteq Foreign
              /\ loads'["related"][g].at = "children" => loads'["related"][g].content \subseteq {"child"}
    BY <1>2, <1>4, <2>2 DEF LoadTypes
  <2> QED
    BY <2>1, <2>3 DEF LoadTypes, Kinds, Generation, Loads, LoadSteps
<1>6. BoxTypes' /\ NoteTypes' /\ RelatedTrue'
  BY <1>1 DEF RequestInv, RequestTypes, BoxTypes, NoteTypes, RelatedTrue, Open, Family
<1>7. wire \in Seq(OnWire) /\ connectedOnce \in BOOLEAN /\ Head(wire) = wire[1] /\ wire[1].type = "connected"
  BY TailWire DEF RequestInv, RequestTypes, WireTypes
\* Where a load ran one runs, and after a break one is begun of each kind that is loaded.
<1>8. ASSUME NEW k \in Kinds PROVE (Reloading(k) => Reloading(k)') /\ (connectedOnce /\ k \in Loaded => Reloading(k)')
  BY <1>2, <1>4, GenerationIs, <1>1 DEF Reloading, NextGeneration
<1>9. ASSUME NEW r \in Askers PROVE RequestSound(r)'
  <2>1. /\ InStep(r) /\ NobodyElse(r) /\ LoadOf(r) \in Kinds /\ KindFor(r) \in {"permissions", "questions"}
        /\ LoadOf(r)' = LoadOf(r) /\ KindFor(r)' = KindFor(r)
    BY DEF RequestInv, RequestSound, LoadOf, KindFor, Kinds
  <2>2. 1 \notin About(r)
    BY <1>7 DEF About, Told
  <2>3. /\ LastIsNow(r)' /\ (Open(r)' <=> Open(r)) /\ Loaded' = Loaded /\ (About(r)' = {} <=> About(r) = {})
    BY <2>2, TailLast
  <2>4. AllDated(r)'
    BY <1>1, <2>1, <1>2, <1>4, <2>2, TailDated DEF RequestInv, RequestTypes, NoteTypes, SeenTypes
  <2>5. NobodyElse(r)'
    BY <1>1, <1>2, <2>1, <2>3 DEF NobodyElse, Nobody, Reloading
  <2>6. InStep(r)'
    <3>1. CASE connectedOnce /\ LoadOf(r) \in Loaded
      BY <1>8, <2>1, <3>1 DEF InStep
    <3>2. CASE LoadOf(r) \notin Loaded
      <4>1. Nobody(r)'
        BY <2>1, <2>3, <2>5, <3>2 DEF NobodyElse
      <4> QED
        BY <1>5, <4>1, NobodySound DEF LoadTypes, RequestSound
    <3>3. CASE ~connectedOnce
      BY <3>3, <1>1, <2>3, <1>8, <2>1 DEF Reconnecting, Fits, Family, InStep
    <3> QED
      BY <1>7, <3>1, <3>2, <3>3
  <2> QED
    BY <2>3, <2>4, <2>5, <2>6 DEF RequestSound
<1> QED
  BY <1>3, <1>5, <1>6, <1>9 DEF RequestInv, RequestTypes

LEMMA MessageEventKeeps ==
  ASSUME RequestInv, wire # <<>>, wire' = Tail(wire), UNCHANGED <<script, opened, link, replying>>,
         script.events # NoRun, MessageEvent(Head(wire))
  PROVE RequestInv'
<1> DEFINE e == Head(wire)
           out == (IF e.type \in {"busy", "idle"} THEN {"run"} ELSE {}) \cup (IF e.type = "whole" THEN {"text"} ELSE {})
                    \cup (IF bubble' = "none" THEN {"bubble"} ELSE {})
           in == IF shown'.text = "twice" THEN {"text"} ELSE {}
<1>1. /\ UNCHANGED <<connectedOnce, boxes, grants, related, walks, loads>>
      /\ seen' = [seen EXCEPT !["messages"] = IF e.version > @ THEN e.version ELSE @]
      /\ excused' = (excused \ out) \cup in
  BY DEF MessageEvent
<1>2. wire \in Seq(OnWire) /\ NoteTypes /\ LoadTypes /\ connectedOnce' \in BOOLEAN
  BY <1>1 DEF RequestInv, RequestTypes, WireTypes
<1>3. e \in OnWire /\ e.version \in Nat
  BY <1>2, TailWire DEF OnWire
<1>4. in \in SUBSET History
  BY DEF History
<1> HIDE DEF e, out, in
<1>5. NoteTypes'
  BY <1>1, <1>2, <1>3, <1>4 DEF NoteTypes, SeenTypes
<1>6. WireTypes' /\ WireFits' /\ ScriptTypes'
  BY <1>2, TailTypes
<1>7. LoadTypes' /\ loads' = loads /\ UNCHANGED RunVars
  BY <1>1, <1>2 DEF LoadTypes, RunVars
<1> QED
  BY <1>5, <1>6, <1>7, RunQuiet

\* The events about requests, kind by kind; for each who asks, what fits then.
LEMMA EventStep ==
  ASSUME RequestInv, wire # <<>>, wire' = Tail(wire), UNCHANGED <<script, opened, link, replying, connectedOnce, loads>>,
         wire[1].type # "connected", BoxTypes', RelatedTrue', excused \subseteq excused', excused' \in SUBSET History,
         seen' \in SeenTypes,
         \A r \in Askers : /\ seen'[KindFor(r)] >= seen[KindFor(r)]
                           /\ 1 \in About(r) => seen'[KindFor(r)] >= wire[1].version
                           /\ 1 \notin About(r) => (Fits(r) => Fits(r)') /\ (Nobody(r) => r \notin (boxes \cup grants)' /\ (r # "own" => walks'[r] = "none"))
                           /\ About(r) = {1} => Fits(r)' \/ KindFor(r) \in excused'
  PROVE RequestInv'
<1>1. connectedOnce' \in BOOLEAN /\ wire \in Seq(OnWire) /\ LoadTypes'
  BY DEF RequestInv, RequestTypes, WireTypes, LoadTypes
<1>2. WireTypes' /\ WireFits' /\ ScriptTypes' /\ link
  BY <1>1, TailTypes
<1>3. NoteTypes'
  BY DEF RequestInv, RequestTypes, NoteTypes
<1>4. ASSUME NEW r \in Askers PROVE RequestSound(r)'
  <2>1. /\ InStep(r) /\ NobodyElse(r) /\ LoadOf(r)' = LoadOf(r) /\ KindFor(r)' = KindFor(r)
        /\ (Reloading(LoadOf(r))' <=> Reloading(LoadOf(r)))
    BY DEF RequestInv, RequestSound, LoadOf, KindFor, Reloading
  <2>2. /\ LastIsNow(r)' /\ (Open(r)' <=> Open(r)) /\ Loaded' = Loaded
        /\ About(r) = {} => About(r)' = {}
        /\ 1 \notin About(r) /\ About(r)' = {} => About(r) = {}
        /\ About(r)' = {} => About(r) \subseteq {1}
    BY TailLast
  <2>3. AllDated(r)'
    BY TailDated
  <2>4. NobodyElse(r)'
    BY <2>1, <2>2 DEF Nobody, NobodyElse
  <2>5. InStep(r)'
    <3>1. Reconnecting => Reconnecting'
      BY <1>2, <1>1, TailWire DEF Reconnecting
    <3>2. About(r)' = {} /\ Fits(r) => Fits(r)' \/ KindFor(r) \in excused'
      BY <2>2
    <3>3. CASE 1 \in About(r)
      BY <2>2, <3>3 DEF InStep, KindFor
    <3>4. CASE 1 \notin About(r)
      BY <2>1, <2>2, <3>1, <3>4 DEF InStep
    <3> QED
      BY <3>3, <3>4
  <2> QED
    BY <2>2, <2>3, <2>4, <2>5 DEF RequestSound
<1> QED
  BY <1>1, <1>2, <1>3, <1>4 DEF RequestInv, RequestTypes

LEMMA RequestEventKeeps ==
  ASSUME RequestInv, wire # <<>>, wire' = Tail(wire), UNCHANGED <<script, opened, link, replying>>,
         script.events = NoRun, Head(wire).type # "connected", RequestEvent(Head(wire))
  PROVE RequestInv'
<1>1. wire \in Seq(OnWire) /\ NoteTypes /\ BoxTypes /\ RelatedTrue
  BY DEF RequestInv, RequestTypes, WireTypes
<1>2. PICK e \in OnWire : e = Head(wire) /\ e = wire[1] /\ 1 \in DOMAIN wire
  BY <1>1, TailWire
<1>3. e.type \in {"created"} \cup Told(e.of) /\ e.of \in Askers /\ e.version \in Nat
  BY <1>2 DEF OnWire, RequestInv, WireFits
<1>4. RequestEvent(e) /\ UNCHANGED <<connectedOnce, loads>> /\ wire[1].type # "connected"
  BY <1>2 DEF RequestEvent
<1> DEFINE kind == IF e.type \in {"asked", "replied"} THEN "questions" ELSE "permissions"
<1>5. seen' = [k \in DOMAIN seen |-> IF k = kind /\ e.version > seen[k] THEN e.version ELSE seen[k]]
  BY <1>4 DEF RequestEvent
<1>6. /\ \A r \in Askers : 1 \in About(r) <=> (e.of = r /\ e.type \in Told(r))
      /\ \A r \in Askers : e.of = r /\ e.type \in Told(r) => kind = KindFor(r)
  BY <1>2 DEF About, Told, KindFor
<1> HIDE DEF kind
<1>7. seen' \in SeenTypes
  BY <1>1, <1>3, <1>5 DEF NoteTypes, SeenTypes
<1>8. ASSUME NEW r \in Askers
      PROVE seen'[KindFor(r)] >= seen[KindFor(r)] /\ (1 \in About(r) => seen'[KindFor(r)] >= wire[1].version)
  BY <1>1, <1>5, <1>6, <1>2, <1>3 DEF KindFor, NoteTypes, SeenTypes
\* The last event about a request says how it stands.
<1>9. ASSUME NEW r \in Askers, About(r) = {1} PROVE e.of = r /\ e.type \in Told(r) /\ (Open(r) <=> e.type \in AskedTypes)
  BY <1>9, <1>2, <1>6 DEF RequestInv, RequestSound, LastIsNow
<1>10. \A r \in Askers : Open(r)' <=> Open(r)
  BY DEF Open
<1>11. /\ boxes \in SUBSET Foreign /\ grants \in SUBSET {"own"} /\ replying \in SUBSET Askers
       /\ related \in [Foreign -> {"unknown", "yes", "no"}] /\ walks \in [Foreign -> Foreign \cup {"none"}]
       /\ excused \in SUBSET History
  BY <1>1 DEF BoxTypes, NoteTypes
<1>12. /\ \A s \in Foreign : (related[s] = "yes" => s \in Family) /\ (related[s] = "no" => s \notin Family)
       /\ \A q \in Foreign : walks[q] \in {"none", q} \/ (q = "grandchild" /\ walks[q] = "child")
       /\ boxes \subseteq Family
  BY <1>1 DEF RelatedTrue
<1>13. (\A r \in Askers : r \in opened'.past => ~Open(r)') /\ replying' \subseteq opened'.past
  BY <1>1, <1>10 DEF RelatedTrue
<1>14. CASE e.type = "created"
  <2>1. related' = [related EXCEPT !["child"] = "yes"] /\ UNCHANGED <<boxes, walks, grants, excused>>
    BY <1>4, <1>14 DEF RequestEvent
  <2>2. "child" \in Foreign /\ "child" \in Family
    BY ForeignIs DEF Family
  <2>3. BoxTypes'
    BY <1>11, <2>1 DEF BoxTypes
  <2>4. RelatedTrue'
    BY <1>11, <1>12, <2>1, <2>2, <1>13 DEF RelatedTrue, Family
  <2>5. ASSUME NEW r \in Askers
        PROVE /\ 1 \notin About(r)
              /\ (Fits(r) => Fits(r)') /\ (Nobody(r) => r \notin (boxes \cup grants)' /\ (r # "own" => walks'[r] = "none"))
    <3>1. 1 \notin About(r)
      BY <1>6, <1>14 DEF Told
    <3> QED
      BY <1>10, <2>1, <3>1 DEF Fits, Nobody, Family
  <2> QED
    BY <1>4, <1>7, <1>8, <1>11, <2>1, <2>3, <2>4, <2>5, EventStep
<1>15. CASE e.type = "asked"
  <2>1. e.of \in Foreign /\ e.of # "own" /\ e.of # "none"
    BY <1>3, <1>15, ForeignIs DEF Told, Askers
  <2>2. /\ UNCHANGED <<related, grants, excused>>
        /\ boxes' = boxes \cup {q \in {e.of} : related[q] = "yes"}
        /\ walks' = [q \in Foreign |-> IF q \in {e.of} \ boxes /\ related[q] = "unknown" /\ walks[q] = "none"
                                       THEN q ELSE walks[q]]
    BY <1>4, <1>15 DEF RequestEvent, Offer
  <2>3. BoxTypes'
    BY <1>11, <2>1, <2>2 DEF BoxTypes
  <2>4. RelatedTrue'
    BY <1>12, <2>1, <2>2, <1>13 DEF RelatedTrue, Family
  <2>5. ASSUME NEW r \in Askers, 1 \notin About(r)
        PROVE (Fits(r) => Fits(r)') /\ (Nobody(r) => r \notin (boxes \cup grants)' /\ (r # "own" => walks'[r] = "none"))
    BY <1>6, <1>15, <2>1, <2>5, <2>2, <1>10 DEF Told, Askers, Fits, Nobody, Family
  <2>6. ASSUME NEW r \in Askers, About(r) = {1} PROVE Fits(r)'
    BY <1>9, <1>10, <1>15, <2>1, <2>6, <1>12, <2>2, <1>11 DEF AskedTypes, Fits, Family
  <2> QED
    BY <1>4, <1>7, <1>8, <1>11, <2>2, <2>3, <2>4, <2>5, <2>6, EventStep
<1>16. CASE e.type = "replied"
  <2>1. e.of \in Foreign /\ e.of # "own"
    BY <1>3, <1>16, ForeignIs DEF Told, Askers
  <2>2. /\ boxes' = boxes \ {e.of} /\ UNCHANGED <<related, walks, grants>>
        /\ excused' = IF walks[e.of] # "none" THEN excused \cup {"questions"} ELSE excused
    BY <1>4, <1>16 DEF RequestEvent
  <2>3. BoxTypes' /\ excused \subseteq excused' /\ excused' \in SUBSET History
    BY <1>11, <2>2 DEF BoxTypes, History
  <2>4. RelatedTrue'
    BY <1>12, <1>13, <2>2 DEF RelatedTrue, Family
  <2>5. ASSUME NEW r \in Askers, 1 \notin About(r)
        PROVE (Fits(r) => Fits(r)') /\ (Nobody(r) => r \notin (boxes \cup grants)' /\ (r # "own" => walks'[r] = "none"))
    <3>1. r # e.of
      BY <1>6, <1>16, <2>1, <2>5 DEF Told
    <3> QED
      BY <1>10, <2>2, <3>1 DEF Fits, Nobody, Family
  <2>6. ASSUME NEW r \in Askers, About(r) = {1} PROVE Fits(r)' \/ KindFor(r) \in excused'
    BY <1>9, <1>10, <1>16, <2>1, <2>6, <2>2 DEF AskedTypes, KindFor, Fits, Family
  <2> QED
    BY <1>4, <1>7, <1>8, <2>3, <2>4, <2>5, <2>6, EventStep
<1>17. CASE e.type \in {"permission asked", "permission replied"}
  <2>1. e.of = "own" /\ e.type \notin {"created", "asked", "replied"}
    BY <1>3, <1>17 DEF Told
  <2>2. /\ UNCHANGED <<boxes, related, walks, excused>>
        /\ grants' = IF e.type = "permission asked" THEN grants \cup {"own"} ELSE grants \ {"own"}
    BY <1>4, <1>17, <2>1 DEF RequestEvent
  <2>3. BoxTypes'
    BY <1>11, <2>2 DEF BoxTypes
  <2>4. RelatedTrue'
    BY <1>12, <1>13, <2>2 DEF RelatedTrue, Family
  <2>5. ASSUME NEW r \in Askers, 1 \notin About(r)
        PROVE (Fits(r) => Fits(r)') /\ (Nobody(r) => r \notin (boxes \cup grants)' /\ (r # "own" => walks'[r] = "none"))
    <3>1. r # "own"
      BY <1>6, <1>17, <2>1, <2>5 DEF Told
    <3> QED
      BY <1>10, <2>2, <3>1 DEF Fits, Nobody, Family
  <2>6. ASSUME NEW r \in Askers, About(r) = {1} PROVE Fits(r)'
    BY <1>9, <1>10, <1>17, <2>1, <2>6, <2>2 DEF AskedTypes, Fits
  <2> QED
    BY <1>4, <1>7, <1>8, <1>11, <2>2, <2>3, <2>4, <2>5, <2>6, EventStep
<1> QED
  BY <1>3, <1>14, <1>15, <1>16, <1>17 DEF Told

LEMMA EventArrivesKeeps == ASSUME RequestInv, EventArrives PROVE RequestInv'
<1>1. wire # <<>> /\ wire' = Tail(wire) /\ UNCHANGED <<script, opened, link, prompt, replying, pageFaults>>
  BY DEF EventArrives
<1>2. CASE Head(wire).type = "connected"
  <2>1. Connected
    BY <1>2 DEF EventArrives
  <2> QED
    BY <1>1, <1>2, <2>1, ConnectedKeeps
<1>3. CASE Head(wire).type # "connected" /\ script.events # NoRun
  BY <1>3, <1>1, MessageEventKeeps DEF EventArrives
<1>4. CASE Head(wire).type # "connected" /\ script.events = NoRun
  BY <1>4, <1>1, RequestEventKeeps DEF EventArrives
<1> QED
  BY <1>2, <1>3, <1>4

LEMMA PageInitHolds == PageInit => RequestInv
<1> SUFFICES ASSUME PageInit PROVE RequestInv
  OBVIOUS
<1>1. PICK events, askers : /\ PageBegin(events, askers)
                            /\ \/ events \in {Usual, Early, Broken} /\ askers = {}
                               \/ events = NoRun /\ askers \in {{"own"}, {"child", "grandchild"}, {"other"}}
  BY DEF PageInit
<1>2. events \in {Usual, Early, Broken, NoRun} /\ askers \in SUBSET Askers /\ Len(events) \in Nat
      /\ ("own" \in askers => askers = {"own"}) /\ (events # NoRun => askers = {})
  BY <1>1, ForeignIs, EventsAre
<1>3. /\ script = [events |-> events, at |-> 0] /\ link = FALSE /\ wire = <<>> /\ connectedOnce = FALSE
      /\ opened = [questions |-> {}, grants |-> {}, past |-> {}, askers |-> askers, child |-> FALSE, asks |-> 0]
      /\ boxes = {} /\ grants = {} /\ related = [s \in Foreign |-> "unknown"] /\ walks = [s \in Foreign |-> "none"]
      /\ loads = [k \in Kinds |-> [g \in Generation |-> IF g = 1 /\ k \in Loaded THEN Load ELSE NoLoad]]
      /\ replying = {} /\ seen = [k \in {"messages", "questions", "permissions"} |-> 0] /\ excused = {}
  BY <1>1 DEF PageBegin
<1>4. /\ Load \in Loads /\ Load.at = "asked" /\ Load.content = {} /\ NoLoad \in Loads /\ NoLoad.at = "none" /\ NoLoad.content = {}
  BY DEF Load, NoLoad, Loads, LoadSteps
<1>5. opened \in OpenTypes /\ opened.questions = {} /\ opened.grants = {} /\ opened.past = {} /\ opened.asks = 0 /\ opened.askers = askers
  BY <1>2, <1>3 DEF OpenTypes
<1>6. WireTypes /\ BoxTypes /\ NoteTypes
  <2>1. <<>> \in Seq(OnWire)
    OBVIOUS
  <2>2. WireTypes
    BY <1>3, <2>1 DEF WireTypes
  <2>3. BoxTypes
    BY <1>3 DEF BoxTypes
  <2>4. NoteTypes
    BY <1>3, <1>5 DEF NoteTypes, SeenTypes
  <2> QED
    BY <2>2, <2>3, <2>4
<1>7. LoadTypes
  BY <1>3, <1>4 DEF Kinds, LoadTypes
<1>8. ScriptTypes
  BY <1>2, <1>3, <1>5 DEF ScriptTypes
<1>9. WireFits /\ RelatedTrue
  BY <1>3, <1>5, ForeignIs DEF WireFits, RelatedTrue, Open, Family
<1>10. ASSUME NEW r \in Askers PROVE RequestSound(r)
  <2>1. About(r) = {} /\ ~Open(r) /\ (r # "own" => walks[r] = "none") /\ r \notin boxes \cup grants
    BY <1>3, <1>5 DEF About, Open, Askers
  <2>2. LastIsNow(r) /\ InStep(r)
    BY <2>1, <1>3 DEF LastIsNow, InStep, Fits
  <2>3. LoadOf(r) \in Kinds /\ \A g \in Generation : loads[LoadOf(r)][g].at # "read"
    BY <1>3, <1>4 DEF LoadOf, Kinds
  <2>4. AllDated(r)
    BY <2>3 DEF AllDated, Dated
  <2>5. NobodyElse(r)
    BY <1>3, <1>4, <2>1, <2>3 DEF NobodyElse, Nobody, Reloading
  <2> QED
    BY <2>2, <2>4, <2>5 DEF RequestSound
<1> QED
  BY <1>6, <1>7, <1>8, <1>9, <1>10 DEF RequestInv, RequestTypes

LEMMA RequestInvStep == RequestInv /\ [PageNext]_pageVars => RequestInv'
<1> SUFFICES ASSUME RequestInv, [PageNext]_pageVars PROVE RequestInv'
  OBVIOUS
<1>1. CASE UNCHANGED pageVars
  BY <1>1, Quiet DEF pageVars, RequestVars, RequestInv, RequestTypes, LoadTypes, NoteTypes
<1>2. CASE RunGoesOn
  BY <1>2, RunGoesOnKeeps
<1>3. CASE ChildCreated
  BY <1>3, ChildCreatedKeeps
<1>4. CASE Asks
  BY <1>4, AsksKeeps
<1>5. CASE AnsweredElsewhere \/ Replies
  BY <1>5, AnswersKeep
<1>6. CASE \E q \in Foreign : WalkAnswers(q) \/ WalkFails(q)
  BY <1>6, WalkAnswersKeeps, WalkFailsKeeps
<1>7. CASE EventArrives
  BY <1>7, EventArrivesKeeps
<1>8. CASE Connects
  BY <1>8, ConnectsKeeps
<1>9. CASE Breaks
  BY <1>9, BreaksKeeps
<1>10. CASE \E k \in Kinds, g \in Generation : Reads(k, g) \/ LoadFails(k, g)
  BY <1>10, ReadsKeeps, LoadFailsKeeps
<1>11. CASE \E g \in Generation : MessagesArrive(g) \/ PermissionsArrive(g) \/ ChildrenArrive(g) \/ QuestionsArrive(g)
  BY <1>11, MessagesArriveKeeps, PermissionsArriveKeeps, ChildrenArriveKeeps, QuestionsArriveKeeps
<1>12. CASE SendPrompt \/ PromptAccepted \/ PromptAnswered \/ PromptFails
  BY <1>12, PromptsQuiet
<1>13. CASE ReplyAnswered
  BY <1>13, ReplyAnsweredKeeps
<1> QED
  BY <1>1, <1>2, <1>3, <1>4, <1>5, <1>6, <1>7, <1>8, <1>9, <1>10, <1>11, <1>12, <1>13 DEF PageNext

\* When all has arrived, what is open is shown and nothing else.
LEMMA RequestsShown == RequestInv => boxes \subseteq Family /\ (Settled => RequestsTrue)
<1> SUFFICES ASSUME RequestInv PROVE boxes \subseteq Family /\ (Settled => RequestsTrue)
  OBVIOUS
<1>1. boxes \subseteq Family /\ boxes \subseteq Foreign /\ grants \subseteq {"own"}
  BY DEF RequestInv, RelatedTrue, RequestTypes, BoxTypes
<1>2. ASSUME Settled, NEW r \in Askers PROVE KindFor(r) \in excused \/ Fits(r)
  BY <1>2 DEF Settled, About, Reconnecting, Reloading, LoadOf, Kinds, RequestInv, RequestSound, InStep
<1>3. ASSUME Settled PROVE RequestsTrue
  <2>1. "permissions" \in excused \/ grants = opened.grants
    <3>1. "own" \in Askers /\ KindFor("own") = "permissions"
      BY DEF Askers, KindFor
    <3>2. "permissions" \in excused \/ Fits("own")
      BY <1>2, <1>3, <3>1
    <3>3. Fits("own") => ("own" \in grants <=> "own" \in opened.grants)
      BY DEF Fits, Open
    <3> QED
      <4>1. opened.grants \subseteq {"own"}
        BY OpenTypesAre
      <4>2. ("own" \in grants <=> "own" \in opened.grants) => grants = opened.grants
        BY <1>1, <4>1
      <4> QED
        BY <3>2, <3>3, <4>2
  <2>2. ASSUME "questions" \notin excused PROVE boxes = opened.questions \cap Family
    BY <1>3, ForeignIs, <1>2, <2>2, <1>1, OpenTypesAre DEF Askers, Settled, KindFor, Fits, Open
  <2> QED
    BY <2>1, <2>2 DEF RequestsTrue
<1> QED
  BY <1>1, <1>3

\* chat-session.js:205-325, 1045-1124: however questions, answers, events and checks of
\* the parents overtake each other and whatever a break of the stream swallows, when all
\* has arrived the page shows what waits for the user in this session and those below it,
\* and nothing else; a question of another session is never shown.
THEOREM RequestsAreTrue == PageSpec => [](boxes \subseteq Family /\ (Settled => RequestsTrue))
<1>1. PageSpec => []RequestInv
  BY PageInitHolds, RequestInvStep, PTL DEF PageSpec
<1> QED
  BY <1>1, RequestsShown, PTL

\* The order in which a run makes its events.
LEMMA ScriptOrder ==
  ASSUME NEW s \in {Usual, Early, Broken}
  PROVE /\ \A m, n \in 1..Len(s) : s[m] = "answer" /\ s[n] = "completed" => m < n
        /\ \A m, n \in 1..Len(s) : s[m] = "part" /\ s[n] \in {"delta", "whole"} => m < n
        /\ \A m, n \in 1..Len(s) : s[m] = "busy" /\ s[n] = "idle" => m < n
        /\ \A n \in 1..Len(s) : s[n] = "completed" => \E m \in 1..n : s[m] = "answer"
        /\ \A n \in 1..Len(s) : s[n] = "delta" => \E m \in 1..n : s[m] = "part"
<1>1. CASE s = Usual
  BY <1>1 DEF Usual
<1>2. CASE s = Early
  <2>1. /\ Len(s) = 8 /\ s[1] = "mine part" /\ s[2] = "mine" /\ s[3] = "busy" /\ s[4] = "part" /\ s[5] = "answer"
        /\ s[6] = "whole" /\ s[7] = "completed" /\ s[8] = "idle"
    BY <1>2 DEF Early
  <2>2. \A n \in 1..Len(s) : n = 1 \/ n = 2 \/ n = 3 \/ n = 4 \/ n = 5 \/ n = 6 \/ n = 7 \/ n = 8
    <3>1. Len(s) = 8
      BY <2>1
    <3> QED
      BY <3>1
  <2>3. \A n \in 1..Len(s) : /\ s[n] = "answer" => n = 5
                             /\ s[n] = "completed" => n = 7
                             /\ s[n] = "part" => n = 4
                             /\ s[n] # "delta"
                             /\ s[n] = "whole" => n = 6
                             /\ s[n] = "busy" => n = 3
                             /\ s[n] = "idle" => n = 8
    BY <2>1, <2>2
  <2>4. 5 \in 1..7
    OBVIOUS
  <2>5. /\ \A m, n \in 1..Len(s) : s[m] = "answer" /\ s[n] = "completed" => m < n
        /\ \A m, n \in 1..Len(s) : s[m] = "part" /\ s[n] \in {"delta", "whole"} => m < n
        /\ \A m, n \in 1..Len(s) : s[m] = "busy" /\ s[n] = "idle" => m < n
    BY <2>3
  <2>6. \A n \in 1..Len(s) : s[n] = "completed" => \E m \in 1..n : s[m] = "answer"
    BY <2>1, <2>3, <2>4
  <2>7. \A n \in 1..Len(s) : s[n] # "delta"
    BY <2>3
  <2> QED
    BY <2>5, <2>6, <2>7
<1>3. CASE s = Broken
  BY <1>3 DEF Broken
<1> QED
  BY <1>1, <1>2, <1>3

Running == script.events # NoRun /\ RequestInv /\ PageTypes /\ RunSound
LEMMA RunningIs ==
  ASSUME Running
  PROVE /\ script.events \in {Usual, Early, Broken} /\ script.at \in Nat /\ Len(script.events) \in Nat
        /\ script.at <= Len(script.events) /\ wire \in Seq(OnWire) /\ Len(wire) \in Nat /\ DOMAIN wire = 1..Len(wire)
        /\ seen \in SeenTypes /\ excused \in SUBSET History /\ LoadTypes /\ link \in BOOLEAN /\ connectedOnce \in BOOLEAN
        /\ Loaded = {"messages"}
        /\ script \in [events : {Usual, Early, Broken, NoRun}, at : Nat]
        /\ ~link => wire = <<>>
  BY EventsAre DEF Running, RequestInv, ScriptTypes, RequestTypes, WireTypes, NoteTypes, Loaded

LEMMA MadeIs == ASSUME Running PROVE /\ \A t : t \in Made(script) <=> \E n \in 1..script.at : t = script.events[n]
                                     /\ Made(script) \subseteq RunTypes /\ Coming \subseteq Made(script)
<1>1. \A t : t \in Made(script) <=> \E n \in 1..script.at : t = script.events[n]
  BY DEF Made
<1>2. Made(script) \subseteq RunTypes
  BY RunningIs, EventsAre, <1>1
<1>3. Coming \subseteq Made(script)
  BY <1>1 DEF Running, RunSound, WireOrder, Coming
<1> QED
  BY <1>1, <1>2, <1>3

\* What was made after an event on its way is on its way too.
LEMMA ComingFollows ==
  ASSUME Running, NEW m \in 1..script.at, NEW n \in 1..script.at, m < n,
         NEW i \in DOMAIN wire, wire[i].type # "connected", wire[i].version = m
  PROVE script.events[n] \in Coming
<1>1. script.at \in Nat /\ Len(wire) \in Nat /\ DOMAIN wire = 1..Len(wire) /\ WireOrder
  BY RunningIs DEF Running, RunSound
<1>2. m = script.at - (Len(wire) - i) /\ i \in Nat /\ i >= 1
  BY <1>1 DEF WireOrder
<1> DEFINE j == i + (n - m)
<1>3. j \in 1..Len(wire) /\ j # 1 /\ script.at - (Len(wire) - j) = n
  BY <1>1, <1>2
<1> HIDE DEF j
<1>4. wire[j].type # "connected" /\ wire[j].version = n /\ wire[j].type = script.events[n]
  BY <1>1, <1>3 DEF WireOrder
<1> QED
  BY <1>1, <1>3, <1>4 DEF Coming

LEMMA ComingOrder ==
  ASSUME Running
  PROVE /\ "answer" \in Coming /\ "completed" \in Made(script) => "completed" \in Coming
        /\ \A t \in {"delta", "whole"} : "part" \in Coming /\ t \in Made(script) => t \in Coming
        /\ "busy" \in Coming /\ "idle" \in Made(script) => "idle" \in Coming
        /\ "completed" \in Made(script) => "answer" \in Made(script)
        /\ "delta" \in Made(script) => "part" \in Made(script)
<1>1. /\ script.events \in {Usual, Early, Broken} /\ \A n \in 1..script.at : n \in 1..Len(script.events)
      /\ script.at \in Nat
  BY RunningIs
<1>2. ASSUME NEW a \in Coming PROVE \E i \in DOMAIN wire, m \in 1..script.at : wire[i].type = a /\ a # "connected" /\ wire[i].version = m /\ script.events[m] = a
  BY DEF Coming, Running, RunSound, WireOrder
<1>3. ASSUME NEW a \in Coming, NEW b \in Made(script), \A m, n \in 1..Len(script.events) : script.events[m] = a /\ script.events[n] = b => m < n
      PROVE b \in Coming
  BY <1>2, MadeIs, <1>1, <1>3, ComingFollows
<1>4. ASSUME NEW b \in Made(script), NEW a, \A n \in 1..Len(script.events) : script.events[n] = b => \E m \in 1..n : script.events[m] = a
      PROVE a \in Made(script)
  BY MadeIs, <1>1, <1>4
<1>5. /\ \A m, n \in 1..Len(script.events) : script.events[m] = "answer" /\ script.events[n] = "completed" => m < n
      /\ \A m, n \in 1..Len(script.events) : script.events[m] = "part" /\ script.events[n] \in {"delta", "whole"} => m < n
      /\ \A m, n \in 1..Len(script.events) : script.events[m] = "busy" /\ script.events[n] = "idle" => m < n
      /\ \A n \in 1..Len(script.events) : script.events[n] = "completed" => \E m \in 1..n : script.events[m] = "answer"
      /\ \A n \in 1..Len(script.events) : script.events[n] = "delta" => \E m \in 1..n : script.events[m] = "part"
  BY <1>1, ScriptOrder
<1>6. "answer" \in Coming /\ "completed" \in Made(script) => "completed" \in Coming
  BY <1>3, <1>5
<1>7. \A t \in {"delta", "whole"} : "part" \in Coming /\ t \in Made(script) => t \in Coming
  BY <1>3, <1>5
<1>8. "busy" \in Coming /\ "idle" \in Made(script) => "idle" \in Coming
  BY <1>3, <1>5
<1>9. "completed" \in Made(script) => "answer" \in Made(script)
  BY <1>4, <1>5
<1>10. "delta" \in Made(script) => "part" \in Made(script)
  BY <1>4, <1>5
<1> QED
  BY <1>6, <1>7, <1>8, <1>9, <1>10

\* What the first events of a run make of the conversation.
LEMMA ConversationIs ==
  ASSUME NEW v
  PROVE /\ Known(Conversation(script.events, v)) = NamesIn(First(v))
        /\ Conversation(script.events, v).text = TextIn(First(v))
        /\ Conversation(script.events, v).completed \in BOOLEAN
        /\ Conversation(script.events, v).completed <=> "completed" \in First(v)
        /\ Conversation(script.events, v).heads \in SUBSET {"mine", "answer"}
        /\ Conversation(script.events, v).parts \in SUBSET {"mine", "answer"}
        /\ Conversation(script.events, v) = [heads |-> Conversation(script.events, v).heads,
                                             parts |-> Conversation(script.events, v).parts,
                                             text |-> Conversation(script.events, v).text,
                                             completed |-> Conversation(script.events, v).completed]
<1> DEFINE m == Conversation(script.events, v)
<1>1. m = [heads |-> First(v) \cap {"mine", "answer"},
           parts |-> {mm \in {"mine", "answer"} : \/ mm = "mine" /\ "mine part" \in First(v)
                                                  \/ mm = "answer" /\ First(v) \cap {"part", "whole"} # {}},
           text |-> TextIn(First(v)),
           completed |-> "completed" \in First(v)]
  BY DEF Conversation, First, TextIn
<1> HIDE DEF m
<1>2. /\ m.heads = First(v) \cap {"mine", "answer"}
      /\ m.parts = {mm \in {"mine", "answer"} : \/ mm = "mine" /\ "mine part" \in First(v)
                                                \/ mm = "answer" /\ First(v) \cap {"part", "whole"} # {}}
      /\ m.text = TextIn(First(v)) /\ m.completed = ("completed" \in First(v))
  BY <1>1
<1>3. Known(m) = NamesIn(First(v))
  BY <1>2 DEF Known, NamesIn
<1>4. m = [heads |-> m.heads, parts |-> m.parts, text |-> m.text, completed |-> m.completed]
  BY <1>1, <1>2
<1>5. m.heads \in SUBSET {"mine", "answer"}
  BY <1>2
<1>6. m.parts \in SUBSET {"mine", "answer"}
  BY <1>2
<1>7. m.completed \in BOOLEAN /\ (m.completed <=> "completed" \in First(v))
  <2>1. m.completed = ("completed" \in First(v))
    BY <1>2
  <2>2. CASE "completed" \in First(v)
    BY <2>1, <2>2
  <2>3. CASE "completed" \notin First(v)
    <3>1. ("completed" \in First(v)) = FALSE
      BY <2>3
    <3>2. m.completed = FALSE
      BY <2>1, <3>1
    <3> QED
      BY <2>3, <3>2
  <2> QED
    BY <2>2, <2>3
<1> QED
  BY <1>2, <1>3, <1>4, <1>5, <1>6, <1>7, Zenon DEF m

LEMMA TextIs == \A S : TextIn(S) \in {"none", "begun", "all"} /\ (TextIn(S) = "none" <=> S \cap {"part", "delta", "whole"} = {})
BY DEF TextIn

LEMMA FirstIs ==
  ASSUME Running, NEW v \in Nat, v <= script.at
  PROVE /\ First(v) \subseteq Made(script) /\ First(script.at) = Made(script)
        /\ v >= seen["messages"] => Made(script) \ Coming \subseteq First(v)
  BY RunningIs, MadeIs DEF SeenTypes, Running, RunSound, First, Made, SeenAll

\* What an event does to the messages of the page.
LEMMA EventDoes ==
  ASSUME PageTypes, NEW t
  PROVE LET m == AfterEvent(shown, t) IN
        /\ m \in [heads : SUBSET {"mine", "answer"}, parts : SUBSET {"mine", "answer"},
                  text : {"none", "begun", "all", "twice"}, completed : BOOLEAN]
        /\ Known(m) = Known(shown) \cup NamesIn({t}) \cup (IF t = "completed" THEN {"answer"} ELSE {})
        /\ m.completed = IF t = "answer" THEN FALSE ELSE IF t = "completed" THEN TRUE ELSE shown.completed
        /\ m.heads = shown.heads \cup (IF t = "mine" THEN {"mine"} ELSE IF t \in {"answer", "completed"} THEN {"answer"} ELSE {})
        /\ t = "part" => m.text = "begun"
        /\ t = "whole" => m.text = "all"
        /\ t = "delta" => m.text = IF shown.text = "none" THEN "none" ELSE IF shown.text = "begun" THEN "all" ELSE "twice"
        /\ t \notin {"part", "whole", "delta"} => m.text = shown.text
<1> DEFINE T == [heads : SUBSET {"mine", "answer"}, parts : SUBSET {"mine", "answer"},
                 text : {"none", "begun", "all", "twice"}, completed : BOOLEAN]
           m == AfterEvent(shown, t)
<1>1. shown \in T
  BY DEF PageTypes
<1>2. CASE t = "mine"
  <2>1. m = [shown EXCEPT !.heads = @ \cup {"mine"}]
    BY <1>2 DEF AfterEvent
  <2> HIDE DEF m
  <2>2. m \in T /\ m.heads = shown.heads \cup {"mine"} /\ m.parts = shown.parts /\ m.text = shown.text /\ m.completed = shown.completed
    BY <1>1, <2>1
  <2> QED
    BY <1>2, <2>2 DEF Known, NamesIn, m
<1>3. CASE t = "answer"
  <2>1. m = [shown EXCEPT !.heads = @ \cup {"answer"}, !.completed = FALSE]
    BY <1>3 DEF AfterEvent
  <2> HIDE DEF m
  <2>2. m \in T /\ m.heads = shown.heads \cup {"answer"} /\ m.parts = shown.parts /\ m.text = shown.text /\ m.completed = FALSE
    BY <1>1, <2>1
  <2> QED
    BY <1>3, <2>2 DEF Known, NamesIn, m
<1>4. CASE t = "completed"
  <2>1. m = [shown EXCEPT !.heads = @ \cup {"answer"}, !.completed = TRUE]
    BY <1>4 DEF AfterEvent
  <2> HIDE DEF m
  <2>2. m \in T /\ m.heads = shown.heads \cup {"answer"} /\ m.parts = shown.parts /\ m.text = shown.text /\ m.completed = TRUE
    BY <1>1, <2>1
  <2> QED
    BY <1>4, <2>2 DEF Known, NamesIn, m
<1>5. CASE t = "mine part"
  <2>1. m = [shown EXCEPT !.parts = @ \cup {"mine"}]
    BY <1>5 DEF AfterEvent
  <2> HIDE DEF m
  <2>2. m \in T /\ m.heads = shown.heads /\ m.parts = shown.parts \cup {"mine"} /\ m.text = shown.text /\ m.completed = shown.completed
    BY <1>1, <2>1
  <2> QED
    BY <1>5, <2>2 DEF Known, NamesIn, m
<1>6. CASE t = "part"
  <2>1. m = [shown EXCEPT !.parts = @ \cup {"answer"}, !.text = "begun"]
    BY <1>6 DEF AfterEvent
  <2> HIDE DEF m
  <2>2. m \in T /\ m.heads = shown.heads /\ m.parts = shown.parts \cup {"answer"} /\ m.text = "begun" /\ m.completed = shown.completed
    BY <1>1, <2>1
  <2> QED
    BY <1>6, <2>2 DEF Known, NamesIn, m
<1>7. CASE t = "whole"
  <2>1. m = [shown EXCEPT !.parts = @ \cup {"answer"}, !.text = "all"]
    BY <1>7 DEF AfterEvent
  <2> HIDE DEF m
  <2>2. m \in T /\ m.heads = shown.heads /\ m.parts = shown.parts \cup {"answer"} /\ m.text = "all" /\ m.completed = shown.completed
    BY <1>1, <2>1
  <2> QED
    BY <1>7, <2>2 DEF Known, NamesIn, m
<1>8. CASE t = "delta"
  <2> DEFINE x == IF shown.text = "none" THEN "none" ELSE IF shown.text = "begun" THEN "all" ELSE "twice"
  <2>1. m = [shown EXCEPT !.text = x]
    BY <1>8 DEF AfterEvent
  <2>3. x \in {"none", "begun", "all", "twice"}
    OBVIOUS
  <2> HIDE DEF m, x
  <2>2. m \in T /\ m.heads = shown.heads /\ m.parts = shown.parts /\ m.text = x /\ m.completed = shown.completed
    BY <1>1, <2>1, <2>3
  <2> QED
    BY <1>8, <2>2 DEF Known, NamesIn, m, x
<1>9. CASE t \notin {"mine", "answer", "completed", "mine part", "part", "whole", "delta"}
  <2>1. m = shown
    BY <1>9 DEF AfterEvent
  <2> HIDE DEF m
  <2> QED
    BY <1>1, <1>9, <2>1 DEF Known, NamesIn, m
<1> QED
  BY <1>2, <1>3, <1>4, <1>5, <1>6, <1>7, <1>8, <1>9

\* The events on their way, after each thing that befalls the wire.
LEMMA ComingAppended ==
  ASSUME Running, NEW e \in OnWire, e.type # "connected", wire' = Append(wire, e)
  PROVE Coming' = Coming \cup {e.type}
  BY RunningIs, AppendWire DEF Coming

LEMMA ComingTail ==
  ASSUME Running, wire # <<>>, wire' = Tail(wire)
  PROVE /\ Coming' \subseteq Coming /\ Coming \subseteq Coming' \cup {Head(wire).type}
        /\ Head(wire).type = "connected" => Coming' = Coming
        /\ Head(wire).type # "connected" => Head(wire).type \in Coming
<1>1. /\ \A i \in DOMAIN wire' : i + 1 \in DOMAIN wire /\ wire'[i] = wire[i + 1]
      /\ \A i \in DOMAIN wire : i = 1 \/ (i - 1 \in DOMAIN wire' /\ wire'[i - 1] = wire[i])
      /\ 1 \in DOMAIN wire /\ Head(wire) = wire[1]
  BY RunningIs, TailWire
<1>2. /\ \A t : t \in Coming <=> (t # "connected" /\ \E i \in DOMAIN wire : wire[i].type = t)
      /\ \A t : t \in Coming' <=> (t # "connected" /\ \E i \in DOMAIN wire' : wire'[i].type = t)
  BY DEF Coming
<1>3. ASSUME NEW t \in Coming' PROVE t \in Coming
  BY <1>1, <1>2
<1>4. ASSUME NEW t \in Coming PROVE t \in Coming' \cup {Head(wire).type}
  BY <1>2, <1>1
<1>5. ASSUME Head(wire).type = "connected", NEW t \in Coming PROVE t \in Coming'
  BY <1>2, <1>4, <1>5
<1>6. Head(wire).type # "connected" => Head(wire).type \in Coming
  BY <1>1, <1>2
<1> QED
  BY <1>3, <1>4, <1>5, <1>6

\* What the messages of the page depend on; the kinds that may be noted as missing.
MessageVars == <<script, link, wire, connectedOnce, shown, runType, failed, bubble, prompt>>
MessageKinds == {"messages", "text", "run", "bubble"}

\* A step that is about something else.
LEMMA MessagesQuiet ==
  ASSUME MessagesInv, UNCHANGED MessageVars, loads'["messages"] = loads["messages"],
         seen'["messages"] = seen["messages"], \A k \in MessageKinds : k \in excused => k \in excused'
  PROVE MessagesInv'
<1>1. /\ UNCHANGED <<script, link, wire, connectedOnce, shown, runType, failed, bubble, prompt>>
      /\ "messages" \in excused => "messages" \in excused'
      /\ "text" \in excused => "text" \in excused'
      /\ "run" \in excused => "run" \in excused'
      /\ "bubble" \in excused => "bubble" \in excused'
  BY DEF MessageVars, MessageKinds
<1>2. Coming' = Coming /\ Made(script)' = Made(script) /\ (Working(script)' <=> Working(script))
  BY <1>1 DEF Coming, Made, Working
<1>3. (Reconnecting' <=> Reconnecting) /\ (Reloading("messages")' <=> Reloading("messages"))
  BY <1>1 DEF Reconnecting, Reloading
<1>4. PageTypes'
  BY <1>1 DEF MessagesInv, PageTypes
<1>5. ASSUME RunSound PROVE RunSound'
  <2>1. (WireOrder /\ SeenAll /\ ReadFits /\ PromptFits /\ FailedFits)'
    BY <1>1, <1>5, <1>2 DEF RunSound, WireOrder, SeenAll, ReadFits, PromptFits, FailedFits
  <2>2. HeadsFit'
    BY <1>1, <1>2, <1>3, <1>5 DEF RunSound, HeadsFit, Renewing
  <2>3. TextFits'
    BY <1>1, <1>2, <1>3, <1>5 DEF RunSound, TextFits, Renewing
  <2>4. RunFits'
    BY <1>1, <1>2, <1>3, <1>5 DEF RunSound, RunFits, Renewing
  <2>5. BubbleFits'
    BY <1>1, <1>2, <1>5 DEF RunSound, BubbleFits
  <2> QED
    BY <2>1, <2>2, <2>3, <2>4, <2>5 DEF RunSound
<1>6. ASSUME IdlePage PROVE IdlePage'
  BY <1>1, <1>3, <1>6 DEF IdlePage
<1> QED
  BY <1>1, <1>4, <1>5, <1>6 DEF MessagesInv

\* Without a run the page has no conversation, whatever arrives.
LEMMA IdleQuiet ==
  ASSUME MessagesInv, script.events = NoRun, script' = script,
         UNCHANGED <<shown, runType, failed, bubble, prompt>>, loads'["messages"] = loads["messages"]
  PROVE MessagesInv'
  BY DEF Reloading, MessagesInv, PageTypes, IdlePage

\* Where all is noted as missing, only how wire and history are kept counts.
LEMMA AllMissed ==
  ASSUME MessageKinds \subseteq excused'
  PROVE (HeadsFit /\ TextFits /\ RunFits /\ BubbleFits)'
  BY DEF MessageKinds, HeadsFit, TextFits, RunFits, BubbleFits

\* So it is where all will be loaded again, but for the bubble.
LEMMA AllRenewed ==
  ASSUME Renewing' PROVE (HeadsFit /\ TextFits /\ RunFits)'
BY DEF HeadsFit, TextFits, RunFits

\* The messages some events tell of, taken together.
LEMMA NamesJoin ==
  \A S, T : NamesIn(S \cup T) = NamesIn(S) \cup NamesIn(T)
  BY DEF NamesIn

\* The run goes on: what it makes comes over the wire, or is loaded after the break, or
\* is noted as missing.
LEMMA RunGoesOnSound == ASSUME Running, RunGoesOn PROVE PageTypes' /\ RunSound'
<1> DEFINE t == script.events[script.at + 1]
<1>1. /\ script' = [script EXCEPT !.at = @ + 1] /\ script.at < Len(script.events) /\ Emit(t, "own", script.at + 1)
      /\ UNCHANGED <<link, connectedOnce, shown, loads, runType, failed, bubble, prompt>>
  BY DEF RunGoesOn
<1>2. /\ script.events \in {Usual, Early, Broken} /\ script.at \in Nat /\ Len(script.events) \in Nat
      /\ wire \in Seq(OnWire) /\ Len(wire) \in Nat /\ DOMAIN wire = 1..Len(wire) /\ seen["messages"] \in Nat
      /\ link \in BOOLEAN /\ connectedOnce \in BOOLEAN /\ RequestInv /\ RunSound
  BY RunningIs DEF Running, SeenTypes
<1>3. script'.events = script.events /\ script'.at = script.at + 1
  BY RunningIs, <1>1
<1>4. t \in RunTypes /\ script.at + 1 \in 1..Len(script.events)
  BY <1>1, <1>2, EventsAre
<1>5. PICK e \in OnWire : e.type = t /\ e.of = "own" /\ e.version = script.at + 1
  <2>1. [type |-> t, of |-> "own", version |-> script.at + 1] \in OnWire
    BY <1>2, <1>4 DEF OnWire, Askers
  <2> QED
    BY <2>1
<1>6. Emit(e.type, e.of, e.version)
  BY <1>1, <1>5
<1>7. \A x : x \in Made(script)' <=> x \in Made(script) \/ x = t
  BY <1>2, <1>3, MadeIs DEF Made
<1>8. PageTypes'
  BY <1>1 DEF Running, PageTypes
<1>9. PromptFits' /\ FailedFits' /\ (Working(script)' <=> t # "idle" /\ "idle" \notin Made(script) /\ (t = "busy" \/ "busy" \in Made(script) \/ prompt = "done"))
  BY <1>1, <1>2, <1>7 DEF RunSound, PromptFits, FailedFits, Working
<1>10. ReadFits'
  BY <1>2, <1>3, <1>1 DEF RunSound, ReadFits
<1>11. KindsOf(t) = MessageKinds /\ t # "connected"
  BY <1>4, KindsAre DEF MessageKinds, RunTypes
<1> HIDE DEF t
<1>12. CASE link
  <2>1. wire' = Append(wire, e) /\ excused' = excused /\ seen' = seen
    BY <1>2, <1>6, <1>12, EmitIs
  <2>2. /\ DOMAIN wire' = 1..(Len(wire) + 1) /\ Len(wire') = Len(wire) + 1
        /\ \A i \in DOMAIN wire : i \in DOMAIN wire' /\ wire'[i] = wire[i]
        /\ wire'[Len(wire) + 1] = e
    BY <1>2, <2>1, AppendWire
  <2>3. Coming' = Coming \cup {t}
    BY <1>5, <1>11, <2>1, ComingAppended
  <2>4. WireOrder'
    <3>1. ASSUME NEW i \in DOMAIN wire' PROVE
            IF wire'[i].type = "connected" THEN i = 1
            ELSE /\ wire'[i].version = script'.at - (Len(wire') - i) /\ wire'[i].version \in 1..script'.at
                 /\ wire'[i].type = script'.events[wire'[i].version]
      <4>1. CASE i = Len(wire) + 1
        BY <1>2, <1>3, <1>5, <1>11, <2>2, <4>1 DEF t
      <4>2. CASE i # Len(wire) + 1
        <5>1. i \in DOMAIN wire /\ wire'[i] = wire[i] /\ i \in Nat
          BY <1>2, <2>2, <4>2
        <5>2. CASE wire[i].type = "connected"
          BY <1>2, <5>1, <5>2 DEF RunSound, WireOrder
        <5>3. CASE wire[i].type # "connected"
          <6>1. wire[i].version = script.at - (Len(wire) - i) /\ wire[i].version \in 1..script.at /\ wire[i].type = script.events[wire[i].version]
            BY <1>2, <5>1, <5>3 DEF RunSound, WireOrder
          <6>2. wire[i].version = script'.at - (Len(wire') - i) /\ wire[i].version \in 1..script'.at
            <7>1. Len(wire') = Len(wire) + 1 /\ Len(wire) \in Nat /\ script.at \in Nat /\ script'.at = script.at + 1 /\ i \in Nat
              BY <1>2, <1>3, <2>2, <5>1
            <7>2. script'.at - (Len(wire') - i) = script.at - (Len(wire) - i)
              BY <7>1
            <7>3. \A n \in 1..script.at : n \in 1..script'.at
              BY <7>1
            <7> QED
              BY <6>1, <7>2, <7>3
          <6> QED
            BY <1>3, <5>1, <5>3, <6>1, <6>2
        <5> QED
          BY <5>2, <5>3
      <4> QED
        BY <4>1, <4>2
    <3> QED
      BY <3>1 DEF WireOrder
  <2>5. SeenAll'
    BY <1>2, <1>3, <2>1, <2>3 DEF RunSound, SeenAll, t
  <2>6. Renewing => Renewing'
    BY <1>1, <1>12, <2>2 DEF Reconnecting, Reloading, Renewing
  <2>7. Made(script)' = Made(script) \cup {t}
    BY <1>7
  <2>8. HeadsFit'
    <3>1. CASE "messages" \in excused \/ Renewing
      BY <2>1, <2>6, <3>1 DEF HeadsFit
    <3>2. CASE ~("messages" \in excused \/ Renewing)
      <4>1. /\ Known(shown) \cup NamesIn(Coming) = NamesIn(Made(script))
            /\ {"answer", "completed"} \cap Coming # {} \/ (shown.completed <=> "completed" \in Made(script))
        BY <1>2, <3>2 DEF RunSound, HeadsFit
      <4>2. NamesIn(Coming') = NamesIn(Coming) \cup NamesIn({t}) /\ NamesIn(Made(script)') = NamesIn(Made(script)) \cup NamesIn({t})
        BY <2>3, <2>7, NamesJoin
      <4>3. Known(shown)' \cup NamesIn(Coming)' = NamesIn(Made(script))'
        BY <1>1, <4>1, <4>2 DEF Known, NamesIn
      <4>4. ({"answer", "completed"} \cap Coming # {})' \/ (shown'.completed <=> "completed" \in Made(script)')
        BY <1>1, <2>3, <2>7, <4>1
      <4> QED
        BY <4>3, <4>4 DEF HeadsFit
    <3> QED
      BY <3>1, <3>2
  <2>9. TextFits'
    <3>1. CASE {"messages", "text"} \cap excused # {} \/ Renewing
      BY <2>1, <2>6, <3>1 DEF TextFits
    <3>2. CASE t \in {"part", "whole"} \/ {"part", "whole"} \cap Coming # {}
      BY <2>3, <3>2 DEF TextFits
    <3>3. CASE t \notin {"part", "whole"} /\ "delta" \in Coming /\ shown.text \in {"begun", "all"}
      BY <1>1, <2>3, <3>3 DEF TextFits
    <3>4. CASE t \notin {"part", "whole"} /\ "delta" \notin Coming /\ shown.text = TextIn(Made(script))
      <4>1. CASE t = "delta"
        <5>1. \E m \in 1..(script.at + 1) : script.events[m] = "part"
          BY <1>2, <1>4, <4>1, ScriptOrder DEF t
        <5>2. PICK m \in 1..(script.at + 1) : script.events[m] = "part"
          BY <5>1
        <5>3. m # script.at + 1
          BY <4>1, <5>2 DEF t
        <5>4. m \in 1..script.at
          BY <1>2, <5>3
        <5>5. "part" \in Made(script)
          BY <5>2, <5>4, MadeIs
        <5>6. TextIn(Made(script)) \in {"begun", "all"}
          BY <5>5, TextIs
        <5> QED
          BY <1>1, <2>3, <3>4, <4>1, <5>6 DEF TextFits
      <4>2. CASE t # "delta"
        BY <2>7, <3>4, <4>2, <1>1, <2>3 DEF TextIn, TextFits
      <4> QED
        BY <4>1, <4>2
    <3> QED
      BY <1>2, <3>1, <3>2, <3>3, <3>4 DEF RunSound, TextFits
  <2>10. RunFits'
    BY <2>1, <2>6, <2>3, <1>9, <1>1, <1>2 DEF RunFits, Working, RunSound
  <2>11. BubbleFits'
    BY <1>1, <1>2, <2>1, <2>3, <2>7 DEF RunSound, BubbleFits
  <2> QED
    BY <1>8, <1>9, <1>10, <2>4, <2>5, <2>8, <2>9, <2>10, <2>11 DEF RunSound
<1>13. CASE ~link
  <2>1. /\ wire' = <<>> /\ wire = <<>> /\ seen'["messages"] >= script.at + 1 /\ seen'["messages"] \in Nat /\ excused \subseteq excused'
        /\ ~connectedOnce => MessageKinds \subseteq excused'
    BY <1>5, <1>11, <1>2, <1>6, <1>13, EmitIs DEF MessageKinds, SeenTypes
  <2>2. WireOrder' /\ Coming' = {} /\ Coming = {}
    BY <2>1 DEF WireOrder, Coming
  <2>3. SeenAll'
    BY <1>2, <1>3, <2>1 DEF SeenAll
  <2>4. connectedOnce => Renewing'
    BY <1>1, <1>13 DEF Renewing, Reconnecting
  <2>5. connectedOnce => (HeadsFit /\ TextFits /\ RunFits)'
    BY <2>4, AllRenewed
  <2>6. connectedOnce => BubbleFits'
    BY <1>1, <1>13, <1>2, <1>7, <2>1, <2>2 DEF Emit, Lost, RunSound, BubbleFits
  <2>7. ~connectedOnce => (HeadsFit /\ TextFits /\ RunFits /\ BubbleFits)'
    BY <2>1, AllMissed
  <2> QED
    BY <1>8, <1>9, <1>10, <2>2, <2>3, <2>5, <2>6, <2>7 DEF RunSound
<1> QED
  BY <1>2, <1>12, <1>13

\* The events behind one that is taken off the wire.
LEMMA TailSound ==
  ASSUME Running, wire # <<>>, wire' = Tail(wire), script' = script
  PROVE /\ WireOrder' /\ \A i \in DOMAIN wire' : wire'[i].type # "connected"
        /\ Head(wire).type # "connected" => Head(wire).version \in 1..script.at /\ \A n \in 1..script.at : n > Head(wire).version => script.events[n] \in Coming'
<1>1. /\ DOMAIN wire = 1..Len(wire) /\ Len(wire) \in Nat /\ Len(wire) >= 1 /\ DOMAIN wire' = 1..(Len(wire) - 1)
      /\ Len(wire') = Len(wire) - 1 /\ Head(wire) = wire[1]
      /\ \A i \in DOMAIN wire' : i \in Nat /\ i + 1 \in DOMAIN wire /\ wire'[i] = wire[i + 1]
      /\ \A i \in DOMAIN wire : i = 1 \/ (i - 1 \in DOMAIN wire' /\ wire'[i - 1] = wire[i])
      /\ script.at \in Nat /\ WireOrder /\ 1 \in DOMAIN wire
  BY RunningIs, TailWire DEF Running, RunSound
<1>2. ASSUME NEW i \in DOMAIN wire'
      PROVE /\ wire'[i].type # "connected" /\ wire'[i].version = script.at - (Len(wire') - i)
            /\ wire'[i].version \in 1..script.at /\ wire'[i].type = script.events[wire'[i].version]
  BY <1>1 DEF WireOrder
<1>3. WireOrder'
  BY <1>2 DEF WireOrder
<1>4. ASSUME Head(wire).type # "connected"
      PROVE Head(wire).version \in 1..script.at /\ \A n \in 1..script.at : n > Head(wire).version => script.events[n] \in Coming'
  <2>1. wire[1].version \in 1..script.at /\ wire[1].version = script.at - (Len(wire) - 1)
    BY <1>1, <1>4 DEF WireOrder
  <2>2. ASSUME NEW n \in 1..script.at, n > wire[1].version PROVE script.events[n] \in Coming'
    <3> DEFINE i == n - wire[1].version
    <3>1. i \in 1..(Len(wire) - 1) /\ script.at - (Len(wire') - i) = n
      BY <1>1, <2>1, <2>2
    <3> HIDE DEF i
    <3>2. i \in DOMAIN wire'
      BY <1>1, <3>1
    <3>3. wire'[i].type # "connected" /\ wire'[i].version = n /\ wire'[i].type = script.events[wire'[i].version]
      BY <1>2, <3>1, <3>2
    <3> QED
      BY <3>2, <3>3 DEF Coming
  <2> QED
    BY <1>1, <2>1, <2>2
<1> QED
  BY <1>2, <1>3, <1>4

\* The stream stands again: after a break all is loaded once more.
LEMMA ConnectedSound ==
  ASSUME Running, wire # <<>>, wire' = Tail(wire), UNCHANGED <<script, link, prompt>>,
         Head(wire).type = "connected", Connected
  PROVE PageTypes' /\ RunSound'
<1>1. /\ connectedOnce' = TRUE /\ UNCHANGED <<shown, runType, failed, bubble, seen, excused, script, link, prompt>>
      /\ loads' = IF ~connectedOnce THEN loads
                  ELSE [k \in Kinds |-> [g \in Generation |-> IF k \in Reloads /\ g \in NextGeneration(k) THEN Load ELSE loads[k][g]]]
  BY DEF Connected
<1>2. RunSound /\ LoadTypes /\ Loaded = {"messages"} /\ connectedOnce \in BOOLEAN
  BY RunningIs DEF Running
<1>3. Coming' = Coming /\ Made(script)' = Made(script) /\ (Working(script)' <=> Working(script))
  BY <1>1, ComingTail DEF Made, Working
<1>4. PageTypes'
  BY <1>1 DEF Running, PageTypes
<1>5. WireOrder' /\ SeenAll' /\ PromptFits' /\ FailedFits' /\ BubbleFits'
  BY <1>1, TailSound, <1>2, <1>3 DEF RunSound, SeenAll, PromptFits, FailedFits, BubbleFits
<1>6. \A g \in Generation : loads'["messages"][g] = loads["messages"][g] \/ loads'["messages"][g] = Load
  BY <1>1 DEF Kinds
<1>7. ReadFits'
  <2>1. Load.at # "read"
    BY DEF Load, NoLoad
  <2> QED
    BY <1>1, <1>2, <1>6, <2>1 DEF RunSound, ReadFits
<1>8. CASE ~connectedOnce
  BY <1>1, <1>8, <1>2, <1>3, <1>4, <1>5, <1>7 DEF Renewing, Reconnecting, Reloading, RunSound, HeadsFit, TextFits, RunFits
<1>9. CASE connectedOnce
  <2>1. Reloading("messages")'
    BY <1>6, GenerationIs, <1>1, <1>2, <1>9 DEF Load, NoLoad, Reloading, NextGeneration, Reloads, Kinds
  <2>2. Renewing'
    BY <2>1 DEF Renewing
  <2> QED
    BY <1>4, <1>5, <1>7, <2>2, AllRenewed DEF RunSound
<1> QED
  BY <1>2, <1>8, <1>9

\* An event of the run arrives.
LEMMA MessageEventSound ==
  ASSUME Running, wire # <<>>, wire' = Tail(wire), UNCHANGED <<script, link, prompt>>,
         Head(wire).type # "connected", MessageEvent(Head(wire))
  PROVE PageTypes' /\ RunSound'
<1> DEFINE t == Head(wire).type
           v == Head(wire).version
           out == (IF t \in {"busy", "idle"} THEN {"run"} ELSE {}) \cup (IF t = "whole" THEN {"text"} ELSE {})
                    \cup (IF bubble' = "none" THEN {"bubble"} ELSE {})
           in == IF shown'.text = "twice" THEN {"text"} ELSE {}
<1>1. /\ shown' = AfterEvent(shown, t)
      /\ bubble' = IF \/ t = "mine" /\ (bubble = "named" \/ "mine" \notin Known(shown))
                      \/ t = "error" THEN "none" ELSE bubble
      /\ runType' = CASE t = "busy" -> "busy" [] t = "idle" -> "idle" [] OTHER -> runType
      /\ failed' = ((failed \/ t = "error") /\ t # "busy")
      /\ excused' = (excused \ out) \cup in
      /\ seen' = [seen EXCEPT !["messages"] = IF v > @ THEN v ELSE @]
      /\ UNCHANGED <<connectedOnce, loads, script, link, prompt>>
  BY DEF MessageEvent
<1>2. /\ RunSound /\ seen \in SeenTypes /\ script.at \in Nat /\ link /\ v \in 1..script.at
      /\ \A n \in 1..script.at : n > v => script.events[n] \in Coming'
      /\ WireOrder' /\ \A i \in DOMAIN wire' : wire'[i].type # "connected"
  BY TailSound, RunningIs DEF Running
<1>3. /\ t \in Coming /\ t \in Made(script) /\ Coming' \subseteq Coming /\ Coming \subseteq Coming' \cup {t}
      /\ Coming \subseteq Made(script)
  BY ComingTail, MadeIs
<1>4. Made(script)' = Made(script) /\ (Working(script)' <=> Working(script))
  BY <1>1 DEF Made, Working
<1>5. /\ shown' \in [heads : SUBSET {"mine", "answer"}, parts : SUBSET {"mine", "answer"},
                     text : {"none", "begun", "all", "twice"}, completed : BOOLEAN]
      /\ Known(shown') = Known(shown) \cup NamesIn({t}) \cup (IF t = "completed" THEN {"answer"} ELSE {})
      /\ shown'.completed = IF t = "answer" THEN FALSE ELSE IF t = "completed" THEN TRUE ELSE shown.completed
      /\ shown'.heads = shown.heads \cup (IF t = "mine" THEN {"mine"} ELSE IF t \in {"answer", "completed"} THEN {"answer"} ELSE {})
      /\ t = "part" => shown'.text = "begun"
      /\ t = "whole" => shown'.text = "all"
      /\ t = "delta" => shown'.text = IF shown.text = "none" THEN "none" ELSE IF shown.text = "begun" THEN "all" ELSE "twice"
      /\ t \notin {"part", "whole", "delta"} => shown'.text = shown.text
  BY <1>1, EventDoes DEF Running
<1>6. /\ "answer" \in Coming /\ "completed" \in Made(script) => "completed" \in Coming
      /\ \A x \in {"delta", "whole"} : "part" \in Coming /\ x \in Made(script) => x \in Coming
      /\ "busy" \in Coming /\ "idle" \in Made(script) => "idle" \in Coming
      /\ "completed" \in Made(script) => "answer" \in Made(script)
      /\ "delta" \in Made(script) => "part" \in Made(script)
  BY ComingOrder
<1>7. /\ "messages" \in excused => "messages" \in excused'
      /\ "text" \in excused /\ t # "whole" => "text" \in excused'
      /\ "run" \in excused /\ t \notin {"busy", "idle"} => "run" \in excused'
      /\ "bubble" \in excused /\ bubble' # "none" => "bubble" \in excused'
      /\ shown'.text = "twice" => "text" \in excused'
  BY <1>1
<1> HIDE DEF t, v, out, in
<1>8. PageTypes'
  BY <1>1, <1>5 DEF Running, PageTypes
<1>9. ~Reconnecting /\ (Renewing => Renewing')
  BY RunningIs, TailWire, <1>2, <1>1 DEF RunSound, WireOrder, Reconnecting, Reloading, Renewing
<1>10. SeenAll' /\ ReadFits'
  BY <1>1, <1>2 DEF SeenTypes, SeenAll, RunSound, ReadFits
<1>11. PromptFits' /\ FailedFits'
  BY <1>1, <1>2, <1>3, <1>4 DEF RunSound, PromptFits, FailedFits
<1>12. HeadsFit'
  <2>1. CASE "messages" \in excused \/ Renewing
    BY <1>7, <1>9, <2>1 DEF HeadsFit
  <2>2. CASE ~("messages" \in excused \/ Renewing)
    <3>1. /\ Known(shown) \cup NamesIn(Coming) = NamesIn(Made(script))
          /\ {"answer", "completed"} \cap Coming # {} \/ (shown.completed <=> "completed" \in Made(script))
      BY <1>2, <2>2 DEF RunSound, HeadsFit
    <3>2. NamesIn(Coming) = NamesIn(Coming') \cup NamesIn({t})
      BY <1>3, NamesJoin
    <3>3. t = "completed" => "answer" \in NamesIn(Made(script))
      BY <1>3, <1>6 DEF NamesIn
    <3>4. Known(shown') \cup NamesIn(Coming') = NamesIn(Made(script))
      BY <1>5, <3>1, <3>2, <3>3
    <3>5. {"answer", "completed"} \cap Coming' # {} \/ (shown'.completed <=> "completed" \in Made(script))
      BY <1>3, <1>5, <1>6, <3>1
    <3> QED
      BY <1>4, <3>4, <3>5 DEF Known, NamesIn, HeadsFit
  <2> QED
    BY <2>1, <2>2
<1>13. TextFits'
  BY <1>7, <1>9, <1>4, <1>3, <1>5, <1>6, <1>2 DEF TextFits, TextIn, RunSound
<1>14. RunFits'
  BY <1>9, <1>1, <1>3, <1>6, <1>4, <1>2, <1>7 DEF RunFits, Working, RunSound
<1>15. BubbleFits'
  BY <1>1, <1>7, <1>2, <1>5, <1>3, <1>4 DEF BubbleFits, RunSound
<1> QED
  BY <1>2, <1>8, <1>10, <1>11, <1>12, <1>13, <1>14, <1>15 DEF RunSound

\* The stream is asked for anew.
LEMMA ConnectsSound == ASSUME Running, Connects PROVE PageTypes' /\ RunSound'
<1> DEFINE c == [type |-> "connected", of |-> "own", version |-> 0]
<1>1. /\ ~link /\ link' = TRUE /\ wire' = <<c>>
      /\ UNCHANGED <<script, connectedOnce, shown, loads, runType, failed, bubble, prompt, seen, excused>>
  BY DEF Connects
<1>2. wire = <<>> /\ RunSound /\ PageTypes
  BY <1>1, RunningIs DEF Running
<1>3. DOMAIN wire' = {1} /\ wire'[1] = c /\ c.type = "connected"
  BY <1>1
<1>4. Coming' = Coming /\ Made(script)' = Made(script) /\ (Working(script)' <=> Working(script))
  BY <1>2, <1>3, <1>1 DEF Coming, Made, Working
<1>5. Renewing' <=> Renewing
  BY <1>1, <1>2, <1>3 DEF Reconnecting, Reloading, Renewing
<1>6. PageTypes' /\ WireOrder'
  BY <1>1, <1>2, <1>3 DEF PageTypes, WireOrder
<1>7. SeenAll' /\ ReadFits' /\ PromptFits' /\ FailedFits' /\ BubbleFits'
  BY <1>1, <1>2, <1>4 DEF RunSound, SeenAll, ReadFits, PromptFits, FailedFits, BubbleFits
<1>8. HeadsFit'
  BY <1>1, <1>2, <1>4, <1>5 DEF RunSound, HeadsFit
<1>9. TextFits'
  BY <1>1, <1>2, <1>4, <1>5 DEF RunSound, TextFits
<1>10. RunFits'
  BY <1>1, <1>2, <1>4, <1>5 DEF RunSound, RunFits
<1> QED
  BY <1>6, <1>7, <1>8, <1>9, <1>10 DEF RunSound

\* The stream breaks off: what was on its way is loaded again, or noted as missing.
LEMMA BreaksSound == ASSUME Running, Breaks PROVE PageTypes' /\ RunSound'
<1> DEFINE E == {wire[i] : i \in DOMAIN wire}
<1>1. /\ link' = FALSE /\ wire' = <<>> /\ Lost(E)
      /\ UNCHANGED <<script, connectedOnce, shown, loads, runType, failed, bubble, prompt>>
  BY DEF Breaks
<1>2. /\ RunSound /\ PageTypes /\ wire \in Seq(OnWire) /\ DOMAIN wire = 1..Len(wire) /\ Len(wire) \in Nat
      /\ seen \in SeenTypes /\ excused \in SUBSET History /\ script.at \in Nat /\ link
  BY RunningIs DEF Running, Breaks
<1>3. E \in SUBSET OnWire /\ \A e \in E : e.version <= script.at
  BY <1>2 DEF Running, RequestInv, WireFits, ScriptTypes
<1>4. /\ seen' \in SeenTypes /\ excused' \in SUBSET History /\ excused \subseteq excused'
      /\ seen'["messages"] >= seen["messages"] /\ \A e \in E : "messages" \in KindsOf(e.type) => seen'["messages"] >= e.version
      /\ ~connectedOnce => \A e \in E : KindsOf(e.type) \subseteq excused'
  BY <1>1, <1>2, <1>3, LostIs
<1>5. "error" \in Coming => "bubble" \in excused'
  BY <1>1 DEF Coming, Lost
<1>6. Coming' = {} /\ WireOrder'
  BY <1>1 DEF Coming, WireOrder
<1>7. Made(script)' = Made(script) /\ (Working(script)' <=> Working(script))
  BY <1>1 DEF Made, Working
<1>8. ASSUME NEW x \in Coming PROVE \E e \in E : e.type \in RunTypes /\ e.version = script.at
  BY <1>2 DEF Coming, RunSound, WireOrder, Running, RequestInv, WireFits
<1> HIDE DEF E
<1>9. SeenAll'
  BY <1>2, <1>4, <1>8, KindsAre, <1>1 DEF SeenTypes, RunSound, SeenAll
<1>10. PageTypes' /\ ReadFits' /\ PromptFits' /\ FailedFits'
  BY <1>1, <1>2, <1>7 DEF PageTypes, RunSound, ReadFits, PromptFits, FailedFits
<1>11. CASE connectedOnce
  <2>1. Renewing'
    BY <1>1, <1>11 DEF Renewing, Reconnecting
  <2>2. BubbleFits'
    BY <1>1, <1>2, <1>4, <1>5, <1>7 DEF RunSound, BubbleFits
  <2> QED
    BY <1>6, <1>9, <1>10, <2>1, <2>2, AllRenewed DEF RunSound
<1>12. CASE ~connectedOnce /\ Coming # {}
  BY <1>12, <1>8, <1>4, KindsAre, <1>6, <1>9, <1>10, AllMissed DEF MessageKinds, RunSound
<1>13. CASE ~connectedOnce /\ Coming = {}
  BY <1>1, <1>6, <1>13, <1>2, <1>4, <1>7, <1>9, <1>10 DEF Renewing, Reconnecting, Reloading, RunSound, HeadsFit, TextFits,
     RunFits, BubbleFits
<1> QED
  BY <1>11, <1>12, <1>13

\* OpenCode answers a load, or the load fails.
LEMMA LoadOfMessages ==
  ASSUME Running, NEW g \in Generation, loads["messages"][g].at # "none",
         Reads("messages", g) \/ LoadFails("messages", g)
  PROVE PageTypes' /\ RunSound'
<1>1. /\ RunSound /\ PageTypes /\ LoadTypes /\ script.at \in Nat /\ Renewing /\ "messages" \in Kinds
      /\ excused \in SUBSET History
  BY RunningIs DEF Running, Renewing, Reloading, Kinds
<1>2. UNCHANGED <<script, link, wire, connectedOnce, shown, runType, failed, bubble, prompt, seen>>
  BY DEF Reads, LoadFails
<1>3. /\ Coming' = Coming /\ Made(script)' = Made(script)
      /\ PageTypes' /\ WireOrder' /\ SeenAll' /\ PromptFits' /\ FailedFits'
  BY <1>2, <1>1 DEF Coming, Made, PageTypes, RunSound, WireOrder, SeenAll, PromptFits, FailedFits
<1>4. CASE Reads("messages", g)
  <2> DEFINE x == [at |-> "read", version |-> script.at, content |-> {}]
  <2>1. loads' = [loads EXCEPT !["messages"][g] = x] /\ excused' = excused
    BY <1>4 DEF Reads
  <2>2. x \in Loads
    BY <1>1 DEF Loads, LoadSteps
  <2>3. x.version = script.at /\ x.at = "read" /\ x.content = {}
    OBVIOUS
  <2> HIDE DEF x
  <2>4. loads'["messages"][g] = x /\ \A gg \in Generation : gg # g => loads'["messages"][gg] = loads["messages"][gg]
    <3>1. /\ LoadTypes' /\ loads'["messages"][g] = x
          /\ \A kk \in Kinds, gg \in Generation : kk # "messages" \/ gg # g => loads'[kk][gg] = loads[kk][gg]
          /\ \A kk \in Kinds : kk # "messages" => loads'[kk] = loads[kk]
      BY <1>1, <2>1, <2>2, <2>3, LoadSet
    <3> QED
      BY <1>1, <3>1
  <2>5. ReadFits'
    BY <1>1, <1>2, <2>3, <2>4 DEF RunSound, ReadFits
  <2>6. Renewing'
    BY <2>3, <2>4 DEF Renewing, Reloading
  <2>7. BubbleFits'
    BY <1>1, <1>2, <1>3, <2>1 DEF RunSound, BubbleFits
  <2> QED
    BY <1>3, <2>5, <2>6, <2>7, AllRenewed DEF RunSound
<1>5. CASE LoadFails("messages", g)
  <2>1. /\ loads' = [loads EXCEPT !["messages"][g] = NoLoad] /\ excused' = excused \cup {"messages", "text", "run", "bubble"}
    BY <1>5 DEF LoadFails
  <2>2. NoLoad \in Loads /\ NoLoad.at = "none" /\ NoLoad.content = {}
    BY DEF Loads, LoadSteps, NoLoad
  <2>3. loads'["messages"][g] = NoLoad /\ \A gg \in Generation : gg # g => loads'["messages"][gg] = loads["messages"][gg]
    <3>1. /\ LoadTypes' /\ loads'["messages"][g] = NoLoad
          /\ \A kk \in Kinds, gg \in Generation : kk # "messages" \/ gg # g => loads'[kk][gg] = loads[kk][gg]
          /\ \A kk \in Kinds : kk # "messages" => loads'[kk] = loads[kk]
      BY <1>1, <2>1, <2>2, LoadSet
    <3> QED
      BY <1>1, <3>1
  <2>4. ReadFits'
    BY <1>1, <1>2, <2>2, <2>3 DEF RunSound, ReadFits
  <2>5. MessageKinds \subseteq excused'
    BY <2>1 DEF MessageKinds
  <2> QED
    BY <1>3, <2>4, <2>5, AllMissed DEF RunSound
<1> QED
  BY <1>4, <1>5

\* The conversation is loaded.  One that is not older than what has arrived holds all
\* that is not on its way; an older one is noted.
LEMMA MessagesArriveSound == ASSUME Running, NEW g \in Generation, MessagesArrive(g) PROVE PageTypes' /\ RunSound'
<1> DEFINE l == loads["messages"][g]
           v == l.version
           m == Conversation(script.events, v)
           fresh == NotOlder("messages", l)
           before == [script EXCEPT !.at = v]
           same == (Derived(m) = "busy") = Working(before)
           e == Excuses({"messages", "text"}, fresh)
<1>1. /\ l.at = "read" /\ loads' = [loads EXCEPT !["messages"][g] = NoLoad]
      /\ shown' = [m EXCEPT !.heads = Known(m)] /\ runType' = Derived(m)
      /\ failed' = (failed /\ Derived(m) # "busy")
      /\ bubble' = IF bubble = "named" /\ "mine" \in Known(m) THEN "none" ELSE bubble
      /\ seen' = [seen EXCEPT !["messages"] = IF v > @ THEN v ELSE @]
      /\ excused' = (IF fresh /\ same THEN e \ {"run"} ELSE e \cup {"run"}) \ (IF bubble' = "none" THEN {"bubble"} ELSE {})
      /\ UNCHANGED <<script, link, wire, connectedOnce, prompt>>
  BY DEF MessagesArrive
<1>2. /\ RunSound /\ PageTypes /\ LoadTypes /\ script.at \in Nat /\ seen \in SeenTypes /\ "messages" \in Kinds
      /\ script \in [events : {Usual, Early, Broken, NoRun}, at : Nat]
  BY RunningIs DEF Running, Kinds
<1>3. v \in Nat /\ v <= script.at
  BY <1>1, <1>2 DEF RunSound, ReadFits
<1>4. /\ First(v) \subseteq Made(script) /\ First(script.at) = Made(script)
      /\ v >= seen["messages"] => Made(script) \ Coming \subseteq First(v)
      /\ Coming \subseteq Made(script)
  BY <1>2, <1>3, FirstIs, MadeIs
<1>5. /\ Known(m) = NamesIn(First(v)) /\ m.text = TextIn(First(v)) /\ m.completed \in BOOLEAN
      /\ (m.completed <=> "completed" \in First(v))
      /\ m.heads \in SUBSET {"mine", "answer"} /\ m.parts \in SUBSET {"mine", "answer"}
      /\ m = [heads |-> m.heads, parts |-> m.parts, text |-> m.text, completed |-> m.completed]
  BY ConversationIs
<1>6. fresh <=> v >= seen["messages"]
  BY DEF NotOlder
<1>7. Working(before) <=> "idle" \notin First(v) /\ ("busy" \in First(v) \/ prompt = "done")
  <2>1. before.events = script.events /\ before.at = v
    BY <1>2
  <2> HIDE DEF before
  <2> QED
    BY <2>1 DEF Working, Made, First
<1>8. e = IF fresh THEN excused \ {"messages", "text"} ELSE excused \cup {"messages", "text"}
  BY DEF Excuses
<1> HIDE DEF l, v, m, fresh, before, e
<1>9. /\ shown' = [heads |-> Known(m), parts |-> m.parts, text |-> m.text, completed |-> m.completed]
      /\ Known(m) \subseteq {"mine", "answer"} /\ m.parts \subseteq Known(m)
  BY <1>1, <1>5 DEF Known
<1>10. shown'.heads = Known(m) /\ shown'.text = m.text /\ shown'.completed = m.completed /\ Known(shown') = Known(m)
  BY <1>9 DEF Known
<1>11. m.text \in {"none", "begun", "all", "twice"}
  BY <1>5, TextIs
<1>12. PageTypes'
  BY <1>5, <1>9, <1>11, <1>1, <1>2 DEF Derived, PageTypes
<1>13. Coming' = Coming /\ Made(script)' = Made(script) /\ (Working(script)' <=> Working(script))
  BY <1>1 DEF Coming, Made, Working
<1>14. \A h \in Generation : loads'["messages"][h] = IF h = g THEN NoLoad ELSE loads["messages"][h]
  <2>1. NoLoad \in Loads /\ NoLoad.content = {}
    BY DEF NoLoad, Loads, LoadSteps
  <2>2. /\ LoadTypes' /\ loads'["messages"][g] = NoLoad
        /\ \A kk \in Kinds, gg \in Generation : kk # "messages" \/ gg # g => loads'[kk][gg] = loads[kk][gg]
        /\ \A kk \in Kinds : kk # "messages" => loads'[kk] = loads[kk]
    BY <1>1, <1>2, <2>1, LoadSet
  <2> QED
    BY <1>2, <2>2
<1>15. WireOrder' /\ SeenAll' /\ ReadFits' /\ PromptFits' /\ FailedFits'
  <2>1. WireOrder'
    BY <1>1, <1>2 DEF RunSound, WireOrder
  <2>2. seen'["messages"] = (IF v > seen["messages"] THEN v ELSE seen["messages"]) /\ seen["messages"] \in Nat
    BY <1>1, <1>2 DEF SeenTypes
  <2>3. seen'["messages"] \in Nat /\ seen'["messages"] >= seen["messages"]
    BY <1>3, <2>2
  <2>4. SeenAll'
    BY <1>2, <2>2, <2>3, <1>1, <1>13 DEF RunSound, SeenAll
  <2>5. ReadFits'
    BY <1>1, <1>2, <1>14 DEF NoLoad, RunSound, ReadFits
  <2>6. PromptFits' /\ FailedFits'
    BY <1>1, <1>2, <1>13 DEF RunSound, PromptFits, FailedFits
  <2> QED
    BY <2>1, <2>4, <2>5, <2>6
<1>16. BubbleFits'
  BY <1>1, <1>8, <1>2, <1>10, <1>13 DEF BubbleFits, RunSound
<1>17. CASE ~fresh
  BY <1>1, <1>8, <1>17, <1>12, <1>15, <1>16 DEF HeadsFit, TextFits, RunFits, RunSound
<1>18. CASE fresh
  <2>1. Made(script) = First(v) \cup Coming
    BY <1>4, <1>6, <1>18
  <2>2. /\ "completed" \in Made(script) => "completed" \in First(v) \/ "completed" \in Coming
        /\ "completed" \in First(v) => "completed" \in Made(script)
    BY <2>1
  <2>3. HeadsFit'
    <3>1. Known(shown') \cup NamesIn(Coming) = NamesIn(Made(script))
      BY <1>5, <1>10, <2>1, NamesJoin
    <3>2. {"answer", "completed"} \cap Coming # {} \/ (shown'.completed <=> "completed" \in Made(script))
      BY <1>5, <1>10, <2>2
    <3>3. Known(shown)' = Known(shown') /\ NamesIn(Coming)' = NamesIn(Coming) /\ NamesIn(Made(script))' = NamesIn(Made(script))
      BY <1>13 DEF Known, NamesIn
    <3> QED
      BY <1>13, <3>1, <3>2, <3>3 DEF HeadsFit
  <2>4. TextFits'
    BY <1>13, <2>1, ComingOrder, TextIs, <1>5, <1>10 DEF TextFits, TextIn
  <2>5. RunFits'
    BY <1>13, <1>1, <2>1, <1>7 DEF RunFits, Working
  <2> QED
    BY <1>12, <1>15, <1>16, <2>3, <2>4, <2>5 DEF RunSound
<1> QED
  BY <1>17, <1>18

\* The user sends a message: only bubble, run and mark are concerned.
LEMMA PromptsSound ==
  ASSUME Running, SendPrompt \/ PromptAccepted \/ PromptAnswered \/ PromptFails
  PROVE PageTypes' /\ RunSound'
<1>1. UNCHANGED <<script, link, wire, connectedOnce, shown, loads, seen>>
  BY DEF SendPrompt, PromptAccepted, PromptAnswered, PromptFails
<1>2. RunSound /\ PageTypes /\ excused \in SUBSET History /\ script.at \in Nat
  BY RunningIs DEF Running
<1>3. Coming' = Coming /\ Made(script)' = Made(script)
  BY <1>1 DEF Coming, Made
<1>4. Renewing' <=> Renewing
  BY <1>1 DEF Renewing, Reconnecting, Reloading
<1>5. \A k \in {"messages", "text", "run"} : k \in excused => k \in excused'
  BY DEF SendPrompt, PromptAccepted, PromptAnswered, PromptFails
<1>6. WireOrder' /\ SeenAll' /\ ReadFits'
  BY <1>1, <1>2, <1>3 DEF RunSound, WireOrder, SeenAll, ReadFits
<1>7. HeadsFit'
  BY <1>1, <1>2, <1>3, <1>4, <1>5 DEF RunSound, HeadsFit
<1>8. TextFits'
  BY <1>1, <1>2, <1>3, <1>4, <1>5 DEF RunSound, TextFits
<1>9. PageTypes'
  BY <1>1, <1>2 DEF PageTypes, SendPrompt, PromptAccepted, PromptAnswered, PromptFails
<1>10. PromptFits'
  BY <1>2 DEF RunSound, PromptFits, SendPrompt, PromptAccepted, PromptAnswered, PromptFails
<1>11. FailedFits'
  BY <1>2, <1>3 DEF RunSound, FailedFits, SendPrompt, PromptAccepted, PromptAnswered, PromptFails
<1>12. RunFits'
  BY <1>3, <1>2, <1>4, <1>5 DEF PromptAnswered, Coming, Working, RunFits, SendPrompt, PromptAccepted, PromptFails, RunSound
<1>13. BubbleFits'
  BY <1>3, <1>1, <1>2 DEF SendPrompt, Made, BubbleFits, RunSound, PromptAccepted, PromptAnswered, PromptFails
<1> QED
  BY <1>6, <1>7, <1>8, <1>9, <1>10, <1>11, <1>12, <1>13 DEF RunSound

\* Every step keeps the conversation.
LEMMA MessagesStep == RequestInv /\ MessagesInv /\ [PageNext]_pageVars => MessagesInv'
<1> SUFFICES ASSUME RequestInv, MessagesInv, [PageNext]_pageVars PROVE MessagesInv'
  OBVIOUS
<1>1. script.events # NoRun => Running
  BY DEF Running, MessagesInv
<1>2. ASSUME PageTypes' /\ RunSound', script.events # NoRun, script'.events = script.events PROVE MessagesInv'
  BY <1>2 DEF MessagesInv
<1>3. CASE UNCHANGED pageVars
  BY <1>3, MessagesQuiet DEF pageVars, MessageVars
<1>4. CASE RunGoesOn
  BY <1>4, <1>1, <1>2, RunGoesOnSound DEF RequestInv, ScriptTypes, NoRun, RunGoesOn
<1>5. CASE ChildCreated \/ Asks \/ AnsweredElsewhere \/ Replies
  BY AnswerIs, OpenLoaded, <1>5, IdleQuiet DEF RequestInv, RequestTypes, BoxTypes, AnsweredElsewhere, Replies, ChildCreated,
     Asks, PageKept
<1>6. CASE \E q \in Foreign : WalkAnswers(q) \/ WalkFails(q)
  BY <1>6, MessagesQuiet DEF WalkAnswers, WalkFails, MessageVars
<1>7. CASE ReplyAnswered
  BY <1>7, MessagesQuiet DEF ReplyAnswered, MessageVars
<1>8. CASE EventArrives
  <2>1. wire # <<>> /\ wire' = Tail(wire) /\ UNCHANGED <<script, link, prompt>>
    BY <1>8 DEF EventArrives
  <2>2. CASE script.events # NoRun
    BY <1>8, <1>1, <1>2, <2>1, <2>2, ConnectedSound, MessageEventSound DEF EventArrives
  <2>3. CASE script.events = NoRun
    <3>1. CASE Head(wire).type = "connected"
      BY <1>8, <3>1, <2>3, <2>1, IdleQuiet DEF EventArrives, Connected, Reloads, Loaded, Kinds, RequestInv, RequestTypes,
         LoadTypes
    <3>2. CASE Head(wire).type # "connected"
      BY <1>8, <2>3, <3>2, <2>1, IdleQuiet DEF EventArrives, RequestEvent
    <3> QED
      BY <3>1, <3>2
  <2> QED
    BY <2>2, <2>3
<1>9. CASE Connects
  BY <1>9, <1>1, <1>2, ConnectsSound, IdleQuiet DEF Connects
<1>10. CASE Breaks
  BY <1>10, <1>1, <1>2, BreaksSound, IdleQuiet DEF Breaks
<1>11. ASSUME NEW k \in Kinds, NEW g \in Generation, Reads(k, g) \/ LoadFails(k, g) PROVE MessagesInv'
  <2>1. loads[k][g].at # "none" /\ UNCHANGED MessageVars /\ seen' = seen
    BY <1>11 DEF Reads, LoadFails, MessageVars
  <2>2. CASE k = "messages"
    BY <2>1, <2>2, <1>1, <1>2, <1>11, LoadOfMessages DEF MessagesInv, IdlePage, Reloading, MessageVars
  <2>3. CASE k # "messages"
    BY <1>11, <2>3, <2>1, MessagesQuiet DEF Reads, LoadFails, RequestInv, RequestTypes, LoadTypes, Kinds
  <2> QED
    BY <2>2, <2>3
<1>12. ASSUME NEW g \in Generation, MessagesArrive(g) PROVE MessagesInv'
  BY <1>12, <1>1, <1>2, MessagesArriveSound DEF MessagesArrive, MessagesInv, IdlePage, Reloading
<1>13. ASSUME NEW g \in Generation, PermissionsArrive(g) \/ ChildrenArrive(g) \/ QuestionsArrive(g) PROVE MessagesInv'
  <2>1. UNCHANGED MessageVars
    BY <1>13 DEF PermissionsArrive, ChildrenArrive, QuestionsArrive, MessageVars
  <2>2. loads'["messages"] = loads["messages"]
    BY <1>13 DEF PermissionsArrive, ChildrenArrive, QuestionsArrive, RequestInv, RequestTypes, LoadTypes, Kinds
  <2>3. seen'["messages"] = seen["messages"]
    BY <1>13 DEF PermissionsArrive, ChildrenArrive, QuestionsArrive, RequestInv, RequestTypes, NoteTypes, SeenTypes
  <2>4. \A k \in MessageKinds : k \in excused => k \in excused'
    BY <1>13 DEF PermissionsArrive, ChildrenArrive, QuestionsArrive, Excuses, MessageKinds
  <2> QED
    BY <2>1, <2>2, <2>3, <2>4, MessagesQuiet
<1>14. CASE SendPrompt \/ PromptAccepted \/ PromptAnswered \/ PromptFails
  BY <1>14, <1>1, <1>2, PromptsSound DEF SendPrompt, PromptAccepted, PromptAnswered, PromptFails, MessagesInv, IdlePage
<1> QED
  BY <1>3, <1>4, <1>5, <1>6, <1>7, <1>8, <1>9, <1>10, <1>11, <1>12, <1>13, <1>14 DEF PageNext

LEMMA MessagesInit == PageInit => MessagesInv
<1> SUFFICES ASSUME PageInit PROVE MessagesInv
  OBVIOUS
<1>1. PICK events, askers : /\ PageBegin(events, askers)
                            /\ \/ events \in {Usual, Early, Broken} /\ askers = {}
                               \/ events = NoRun /\ askers \in {{"own"}, {"child", "grandchild"}, {"other"}}
  BY DEF PageInit
<1>2. /\ script = [events |-> events, at |-> 0] /\ link = FALSE /\ wire = <<>> /\ connectedOnce = FALSE
      /\ shown = NoMessages /\ runType = "idle" /\ failed = FALSE /\ bubble = "none" /\ prompt = "none"
      /\ loads = [k \in Kinds |-> [g \in Generation |-> IF g = 1 /\ k \in Loaded THEN Load ELSE NoLoad]]
  BY <1>1 DEF PageBegin
<1>3. PageTypes
  BY <1>2 DEF PageTypes, NoMessages
<1>4. script.events = events /\ script.at = 0 /\ Made(script) = {} /\ Coming = {}
  BY <1>2 DEF Made, Coming
<1>5. Load.at = "asked" /\ NoLoad.at = "none" /\ "messages" \in Kinds
  BY DEF Load, NoLoad, Kinds
<1>6. CASE events # NoRun
  <2>1. Renewing
    BY <1>4, <1>6, <1>2, <1>5, GenerationIs DEF Loaded, Renewing, Reloading
  <2>2. WireOrder /\ SeenAll /\ PromptFits /\ FailedFits /\ BubbleFits
    BY <1>2, <1>4 DEF WireOrder, SeenAll, PromptFits, FailedFits, BubbleFits
  <2>3. ReadFits
    BY <1>2, <1>5 DEF ReadFits
  <2>4. HeadsFit /\ TextFits /\ RunFits
    BY <2>1 DEF HeadsFit, TextFits, RunFits
  <2> QED
    BY <1>3, <1>4, <1>6, <2>2, <2>3, <2>4 DEF MessagesInv, RunSound
<1>7. CASE events = NoRun
  BY <1>4, <1>7, <1>2, <1>5, <1>3 DEF Loaded, Reloading, MessagesInv, IdlePage
<1> QED
  BY <1>6, <1>7

\* Once all has arrived, the page is what OpenCode has.
LEMMA PageShows == RequestInv /\ MessagesInv => PageTrue
<1> SUFFICES ASSUME RequestInv, MessagesInv, Settled PROVE ConversationTrue /\ BubbleTrue /\ RequestsTrue /\ MarkTrue
  BY RequestsShown DEF PageTrue
<1>1. boxes \subseteq Family /\ RequestsTrue
  BY RequestsShown
<1>2. /\ link /\ wire = <<>> /\ prompt \in {"none", "done", "failed"}
      /\ \A k \in Kinds, g \in Generation : loads[k][g].at = "none"
  BY DEF Settled
<1>3. Coming = {} /\ ~Renewing
  <2>1. "messages" \in Kinds
    BY DEF Kinds
  <2> QED
    BY <1>2, <2>1 DEF Coming, Renewing, Reconnecting, Reloading
<1> DEFINE m == Conversation(script.events, script.at)
<1>4. /\ Known(m) = NamesIn(First(script.at)) /\ m.text = TextIn(First(script.at))
      /\ (m.completed <=> "completed" \in First(script.at)) /\ m.completed \in BOOLEAN
  BY ConversationIs
<1>5. First(script.at) = Made(script)
  BY DEF First, Made
<1>6. Mark \in {"failed", "waiting", "works", "ready"}
  BY <1>2 DEF Mark
<1>7. CASE script.events # NoRun
  <2>1. RunSound /\ PageTypes
    BY <1>7 DEF MessagesInv
  <2>2. ConversationTrue
    <3>1. "messages" \in excused \/ (Known(shown) = Known(m) /\ shown.completed = m.completed)
      <4>1. SUFFICES ASSUME "messages" \notin excused PROVE Known(shown) = Known(m) /\ shown.completed = m.completed
        OBVIOUS
      <4>2. Known(shown) \cup NamesIn({}) = NamesIn(Made(script)) /\ (shown.completed <=> "completed" \in Made(script))
        BY <1>3, <2>1, <4>1 DEF RunSound, HeadsFit
      <4>3. NamesIn({}) = {}
        BY DEF NamesIn
      <4>4. shown.completed \in BOOLEAN
        BY <2>1 DEF PageTypes
      <4> HIDE DEF m
      <4>5. shown.completed = m.completed
        BY <1>4, <1>5, <4>2, <4>4
      <4>6. Known(shown) = Known(m)
        BY <1>4, <1>5, <4>2, <4>3
      <4> QED
        BY <4>5, <4>6
    <3>2. {"messages", "text"} \cap excused # {} \/ shown.text = m.text
      BY <1>3, <1>4, <1>5, <2>1 DEF RunSound, TextFits
    <3> QED
      BY <3>1, <3>2 DEF ConversationTrue
  <2>3. BubbleTrue
    BY <1>3, <2>1, <1>2 DEF RunSound, BubbleFits, PromptFits, PageTypes, BubbleTrue
  <2>4. MarkTrue
    <3>1. boxes \cup grants = {} /\ opened.questions \cap Family = {} /\ "own" \notin opened.grants
      BY <1>7, RunHasNobody, OpenTypesAre, ForeignIs DEF Nobody, RequestInv, RequestTypes, BoxTypes, Askers, Open
    <3>2. ~OpenRequests
      BY <3>1 DEF OpenRequests
    <3>3. Mark = IF failed THEN "failed" ELSE IF runType = "busy" THEN "works" ELSE "ready"
      BY <1>2, <3>2 DEF Mark
    <3>4. failed => "error" \in Made(script)
      BY <2>1 DEF RunSound, FailedFits
    <3>5. "run" \in excused \/ (runType = "busy" <=> Working(script))
      BY <1>3, <2>1 DEF RunSound, RunFits
    <3> QED
      BY <3>1, <3>3, <3>4, <3>5 DEF MarkTrue
  <2> QED
    BY <1>1, <2>2, <2>3, <2>4
<1>8. CASE script.events = NoRun
  <2>1. IdlePage
    BY <1>8 DEF MessagesInv
  <2>2. Made(script) = {}
    <3>1. script.at = 0
      BY <1>8 DEF RequestInv, ScriptTypes, NoRun
    <3> QED
      BY <3>1 DEF Made
  <2>3. ConversationTrue
    <3>1. Known(shown) = {} /\ ~shown.completed /\ shown.completed = FALSE /\ shown.text = "none"
      BY <2>1 DEF IdlePage, NoMessages, Known
    <3>2. Known(m) = {} /\ m.text = "none"
      BY <1>4, <1>5, <2>2 DEF NamesIn, TextIn
    <3>3. m.completed = FALSE
      <4> HIDE DEF m
      <4> QED
        BY <1>4, <1>5, <2>2
    <3> QED
      BY <3>1, <3>2, <3>3 DEF ConversationTrue
  <2>4. BubbleTrue
    BY <2>1 DEF IdlePage, BubbleTrue
  <2>5. MarkTrue
    BY <2>1, <2>2, <1>2, <1>1, OpenTypesAre DEF Working, IdlePage, Mark, RequestsTrue, MarkTrue, OpenRequests
  <2> QED
    BY <1>1, <2>3, <2>4, <2>5
<1> QED
  BY <1>7, <1>8

\* chat-session.js:205-325, 352-372, 1045-1124: in whatever order events, answers, loads
\* and breaks of the stream come, when all has arrived the page has the conversation of
\* OpenCode, the bubble of a message that is not there yet and only that, what waits for
\* the user, and the mark of the run; but for what the history names as overtaken.
THEOREM PageIsTrue == PageSpec => []PageTrue
<1>1. PageInit => RequestInv /\ MessagesInv
  BY PageInitHolds, MessagesInit
<1>2. (RequestInv /\ MessagesInv) /\ [PageNext]_pageVars => (RequestInv /\ MessagesInv)'
  BY RequestInvStep, MessagesStep
<1>3. PageSpec => [](RequestInv /\ MessagesInv)
  BY <1>1, <1>2, PTL DEF PageSpec
<1> QED
  BY <1>3, PageShows, PTL

-----------------------------------------------------------------------------
(***************************************************************************)
(* The outcomes of the commands of the chat (ChatCommands): what is still  *)
(* to be told has an entry, and only entries with nothing to tell go.      *)
(***************************************************************************)
StoreTyped ==
  /\ kept \subseteq Session /\ IsFiniteSet(kept)
  /\ older \subseteq kept \X kept
  /\ running \in [Session -> SUBSET Command]
  /\ unread \in [Session -> BOOLEAN]

\* A session that has something to tell, has an entry.
Busy == {s \in Session : running[s] # {} \/ unread[s]}
StoreSound == StoreTyped /\ Busy \subseteq kept /\ StoreBounded

ChatInv == ChatTypeOK /\ StoreSound /\ NothingForgotten

\* Entries with nothing to tell are those that are not busy.
LEMMA BoundIs == ASSUME StoreTyped PROVE StoreBounded <=> Cardinality(kept \ Busy) <= StateLimit
  BY DEF StoreTyped, Busy, StoreBounded

\* Trimming spares the busy and leaves no more idle ones than the limit.
LEMMA TrimSpares ==
  ASSUME NEW have, NEW before, NEW busy, IsFiniteSet(have), before \subseteq have \X have,
         Trim(have, before, busy)
  PROVE  /\ kept' \subseteq have /\ IsFiniteSet(kept') /\ have \cap busy \subseteq kept'
         /\ older' \subseteq kept' \X kept'
         /\ Cardinality(kept' \ busy) <= StateLimit
<1>1. PICK gone \in SUBSET (have \ busy) :
        /\ Cardinality(gone) <= Excess(have)
        /\ Cardinality(gone) = Excess(have) \/ gone = have \ busy
        /\ kept' = have \ gone
        /\ older' = {p \in before : p[1] \notin gone /\ p[2] \notin gone}
  BY DEF Trim
<1>2. kept' \subseteq have /\ have \cap busy \subseteq kept' /\ older' \subseteq kept' \X kept'
  BY <1>1
<1>3. IsFiniteSet(kept') /\ IsFiniteSet(have \ busy) /\ IsFiniteSet(gone)
  BY <1>1, <1>2, FS_Subset
<1>4. kept' \ busy = (have \ busy) \ gone
  BY <1>1
<1>5. Cardinality((have \ busy) \ gone) = Cardinality(have \ busy) - Cardinality(gone)
  <2>1. gone = (have \ busy) \cap gone
    BY <1>1
  <2> QED
    BY <1>3, <2>1, FS_Difference
<1>6. Cardinality(have \ busy) <= Cardinality(have)
  BY FS_Subset
<1>7. Cardinality(have) \in Nat /\ Cardinality(have \ busy) \in Nat /\ Cardinality(gone) \in Nat
  BY <1>3, FS_CardinalityType
<1>8. Cardinality(have \ busy) - Cardinality(gone) <= StateLimit
  BY <1>7, ChatBounds, <1>6, <1>1 DEF Excess
<1> QED
  BY <1>2, <1>3, <1>4, <1>5, <1>8

\* The youngest entry is one of them.
LEMMA YoungestIs ==
  ASSUME StoreTyped, NEW s \in Session
  PROVE  /\ kept \cup {s} \subseteq Session /\ IsFiniteSet(kept \cup {s})
         /\ Youngest(s) \subseteq (kept \cup {s}) \X (kept \cup {s})
  BY FS_AddElement DEF StoreTyped, Youngest

LEMMA NoteRunning ==
  ASSUME StoreSound, NEW c \in Command, NEW s \in Session, NoteCommandRunning(c, s)
  PROVE  /\ StoreSound' /\ kept \subseteq kept' /\ s \in kept' /\ unread' = unread
         /\ c \in running'[s] /\ \A t \in Session : running[t] \subseteq running'[t]
  BY YoungestIs, FS_Subset, FS_CardinalityType, BoundIs, ChatBounds DEF NoteCommandRunning, StoreSound, StoreTyped, Busy,
     StoreBounded

\* What trimming after a change of one entry leaves.
LEMMA TrimSound ==
  ASSUME NEW have \in SUBSET Session, NEW before, IsFiniteSet(have), before \subseteq have \X have,
         running' \in [Session -> SUBSET Command], unread' \in [Session -> BOOLEAN],
         Busy' \subseteq have, Trim(have, before, Busy')
  PROVE  StoreSound' /\ Busy' \subseteq kept'
<1>1. /\ kept' \subseteq have /\ IsFiniteSet(kept') /\ have \cap Busy' \subseteq kept'
      /\ older' \subseteq kept' \X kept'
      /\ Cardinality(kept' \ Busy') <= StateLimit
  <2> DEFINE B == Busy'
  <2>1. Trim(have, before, B)
    OBVIOUS
  <2> HIDE DEF B
  <2>2. /\ kept' \subseteq have /\ IsFiniteSet(kept') /\ have \cap B \subseteq kept'
        /\ older' \subseteq kept' \X kept'
        /\ Cardinality(kept' \ B) <= StateLimit
    BY <2>1, TrimSpares
  <2> QED
    BY <2>2 DEF B
<1>2. StoreTyped'
  BY <1>1 DEF StoreTyped
<1>3. StoreBounded'
  BY <1>2, <1>1 DEF StoreTyped, Busy, StoreBounded
<1> QED
  BY <1>1, <1>2, <1>3 DEF StoreSound

LEMMA NoteFinished ==
  ASSUME StoreSound, NEW c \in Command, NEW s \in Session, NEW fails \in BOOLEAN,
         NoteCommandFinished(c, s, fails)
  PROVE  /\ StoreSound'
         /\ \A t \in Session : /\ running[t] \ {c} \subseteq running'[t]
                               /\ t # s => running'[t] = running[t]
                               /\ unread[t] => unread'[t]
         /\ fails => unread'[s]
  BY YoungestIs, TrimSound DEF NoteCommandFinished, StoreSound, StoreTyped, Busy

LEMMA NoteRead ==
  ASSUME StoreSound, NEW s \in Session, ReadOutcome(s)
  PROVE  /\ StoreSound' /\ running' = running
         /\ \A t \in Session \ {s} : unread'[t] = unread[t]
         /\ unread[s] => Outcome(s) = "failed"
<1>1. running' = running /\ unread' = [unread EXCEPT ![s] = FALSE]
  BY DEF ReadOutcome
<1>2. running' \in [Session -> SUBSET Command] /\ unread' \in [Session -> BOOLEAN]
  BY <1>1 DEF StoreSound, StoreTyped
<1>3. Busy' \subseteq Busy
  BY <1>1, <1>2 DEF StoreSound, StoreTyped, Busy
<1>4. unread[s] => Outcome(s) = "failed"
  BY DEF StoreSound, Busy, Outcome
<1>5. StoreSound'
  <2>1. CASE Trim(kept, older, Busy')
    BY <1>2, <1>3, <2>1, TrimSound DEF StoreSound, StoreTyped
  <2>2. CASE Outcome(s) # "failed" /\ UNCHANGED <<kept, older>>
    BY <1>4, <2>2, <1>1 DEF StoreSound, StoreTyped, StoreBounded, Busy
  <2>3. Trim(kept, older, Busy') \/ (Outcome(s) # "failed" /\ UNCHANGED <<kept, older>>)
    BY <1>1 DEF ReadOutcome, Busy
  <2> QED
    BY <2>1, <2>2, <2>3
<1> QED
  BY <1>1, <1>4, <1>5 DEF StoreSound, StoreTyped

-----------------------------------------------------------------------------
LEMMA ChatStart == ChatInit => ChatInv
  BY FS_EmptySet, ChatBounds, SomeSession DEF ChatInit, StoreTyped, Busy, StoreBounded, ChatTypeOK, NothingForgotten,
     ChatInv, StoreSound

\* The type invariant is that of the store and that of the rest.
RestTyped ==
  /\ command \in [Command -> [at : {"new", "sent", "refused", "running", "ended"},
                              session : Session]]
  /\ page \in [Session -> [sending : Command \cup {Nothing}, watch : BOOLEAN,
                           poll : Answer \cup {"none", "asked"}]]
  /\ stream \in [Stream -> {"closed", "connecting", "open"}]
  /\ service \in {"up", "closing", "closed"}
  /\ lost \in 0..MaxLost
  /\ owed \subseteq Session /\ stale \subseteq Session /\ astray \subseteq Session

LEMMA TypedInTwo == (ChatTypeOK <=> StoreTyped /\ RestTyped) /\ (ChatTypeOK <=> StoreTyped /\ RestTyped)'
BY DEF ChatTypeOK, StoreTyped, RestTyped

\* A step that leaves the store alone leaves it sound.
LEMMA StoreStays == StoreSound /\ UNCHANGED store => StoreSound'
  BY DEF store, StoreSound, StoreTyped, StoreBounded, Busy

\* What is known of a command that runs and of a page that is owed a failure.
CommandKept(c) ==
  command[c].at = "running" => command[c].session \in kept /\ c \in running[command[c].session]
FailureKept(s) == s \in owed \ astray => (s \in kept /\ unread[s]) \/ page[s].poll = "failed"

LEMMA Forgotten ==
  /\ NothingForgotten <=> (\A c \in Command : CommandKept(c)) /\ (\A s \in owed : FailureKept(s))
  /\ NothingForgotten' <=> (\A c \in Command : CommandKept(c)') /\ (\A s \in owed' : FailureKept(s)')
BY DEF NothingForgotten, CommandKept, FailureKept

-----------------------------------------------------------------------------
LEMMA SendStep == ChatInv /\ (\E s \in Session : Send(s)) => ChatInv'
  BY StoreStays, TypedInTwo, Forgotten DEF Send, ChatInv, RestTyped, history, CommandKept, store, FailureKept, StoreSound

LEMMA HandleStep == ChatInv /\ (\E c \in Command : Handle(c)) => ChatInv'
<1> SUFFICES ASSUME ChatInv, NEW c \in Command, Handle(c) PROVE ChatInv'
  OBVIOUS
<1> DEFINE s == command[c].session
<1>1. /\ command' = [command EXCEPT ![c].at = "running"]
      /\ UNCHANGED <<page, stream, service, lost, owed, astray>>
      /\ NoteCommandRunning(c, s)
      /\ stale' \in {stale, stale \cup {s}}
  BY DEF Handle
<1>2. s \in Session
  BY TypedInTwo DEF ChatInv, RestTyped
<1>3. /\ StoreSound' /\ kept \subseteq kept' /\ s \in kept' /\ unread' = unread
      /\ c \in running'[s] /\ \A t \in Session : running[t] \subseteq running'[t]
  <2> HIDE DEF s
  <2> QED
    BY <1>1, <1>2, NoteRunning DEF ChatInv
<1>4. RestTyped'
  BY <1>1, <1>2, TypedInTwo DEF ChatInv, RestTyped
<1>5. NothingForgotten'
  BY Forgotten, TypedInTwo, <1>1, <1>3 DEF ChatInv, RestTyped, CommandKept, FailureKept
<1> QED
  BY <1>3, <1>4, <1>5, TypedInTwo DEF ChatInv, StoreSound

LEMMA RefuseStep == ChatInv /\ (\E c \in Command : Refuse(c)) => ChatInv'
  BY StoreStays, TypedInTwo, Forgotten DEF Refuse, ChatInv, RestTyped, history, CommandKept, store, FailureKept, StoreSound

LEMMA FinishStep == ChatInv /\ (\E c \in Command, fails \in BOOLEAN : Finish(c, fails)) => ChatInv'
<1> SUFFICES ASSUME ChatInv, NEW c \in Command, NEW fails \in BOOLEAN, Finish(c, fails) PROVE ChatInv'
  OBVIOUS
<1> DEFINE s == command[c].session
<1>1. /\ command' = [command EXCEPT ![c].at = "ended"]
      /\ UNCHANGED <<page, stream, service, lost, stale, astray>>
      /\ NoteCommandFinished(c, s, fails)
      /\ owed' = IF fails THEN owed \cup {s} ELSE owed
  BY DEF Finish
<1>2. s \in Session
  BY TypedInTwo DEF ChatInv, RestTyped
<1>3. /\ StoreSound'
      /\ \A t \in Session : /\ running[t] \ {c} \subseteq running'[t]
                            /\ t # s => running'[t] = running[t]
                            /\ unread[t] => unread'[t]
      /\ fails => unread'[s]
  <2> HIDE DEF s
  <2> QED
    BY <1>1, <1>2, NoteFinished DEF ChatInv
<1>4. RestTyped'
  BY <1>1, <1>2, TypedInTwo DEF ChatInv, RestTyped
<1>5. \A t \in Session : running'[t] # {} \/ unread'[t] => t \in kept'
  BY <1>3 DEF StoreSound, Busy
<1>6. NothingForgotten'
  BY Forgotten, TypedInTwo, <1>1, <1>3, <1>5, <1>4, <1>2 DEF ChatInv, RestTyped, CommandKept, FailureKept
<1> QED
  BY <1>3, <1>4, <1>6, TypedInTwo DEF ChatInv, StoreSound

LEMMA TellStep == ChatInv /\ (\E s \in Session : Tell(s)) => ChatInv'
<1> SUFFICES ASSUME ChatInv, NEW s \in Session, Tell(s) PROVE ChatInv'
  OBVIOUS
<1>1. /\ page[s].poll = "asked" /\ page' = [page EXCEPT ![s].poll = Outcome(s)]
      /\ UNCHANGED <<command, stream, service, history>>
      /\ ReadOutcome(s)
  BY DEF Tell
<1>2. /\ StoreSound' /\ running' = running
      /\ \A t \in Session \ {s} : unread'[t] = unread[t]
      /\ unread[s] => Outcome(s) = "failed"
  BY <1>1, NoteRead DEF ChatInv
<1>3. Outcome(s) \in Answer
  BY DEF Outcome, Answer
<1>4. RestTyped'
  BY <1>1, <1>3, TypedInTwo DEF ChatInv, RestTyped, history
<1>5. \A t \in Session : running'[t] # {} \/ unread'[t] => t \in kept'
  BY <1>2 DEF StoreSound, Busy
<1>6. NothingForgotten'
  BY <1>1, <1>2, <1>5, Forgotten, TypedInTwo DEF ChatInv, RestTyped, CommandKept, history, FailureKept
<1> QED
  BY <1>2, <1>4, <1>6, TypedInTwo DEF ChatInv, StoreSound

\* The steps of the page that change neither the store nor a command.
PageOnly(s) ==
  \/ SendAccepted(s) \/ Rejected(s) \/ LoseAccepted(s) \/ Poll(s) \/ Learn(s) \/ LoseAnswer(s)

\* What they have in common: the page owed a failure is shown it or goes astray.
PageMoves(s) ==
  /\ UNCHANGED <<store, command, stream, service>>
  /\ page' \in [Session -> [sending : Command \cup {Nothing}, watch : BOOLEAN,
                            poll : Answer \cup {"none", "asked"}]]
  /\ \A t \in Session \ {s} : page'[t] = page[t]
  /\ lost' \in 0..MaxLost
  /\ owed' \subseteq owed /\ stale' \subseteq stale
  /\ astray \subseteq astray' /\ astray' \subseteq astray \cup {s}
  /\ page[s].poll = "failed" /\ page'[s].poll # "failed" =>
       unread[s] \/ s \notin owed' \/ s \in astray'

LEMMA PageMoving ==
  ASSUME ChatInv, NEW s \in Session, PageOnly(s)
  PROVE  PageMoves(s)
<1>1. RestTyped
  BY TypedInTwo DEF ChatInv
<1>2. CASE SendAccepted(s)
  BY <1>1, <1>2 DEF SendAccepted, PageMoves, RestTyped, history
<1>3. CASE Rejected(s)
  BY <1>1, <1>3 DEF Rejected, PageMoves, RestTyped, history
<1>4. CASE LoseAccepted(s)
  BY <1>1, <1>4, ChatBounds DEF LoseAccepted, PageMoves, RestTyped, history
<1>5. CASE Poll(s)
  BY <1>1, <1>5 DEF Poll, PageMoves, RestTyped, history
<1>6. CASE Learn(s)
  <2>1. page' \in [Session -> [sending : Command \cup {Nothing}, watch : BOOLEAN,
                            poll : Answer \cup {"none", "asked"}]]
    BY <1>1, <1>6 DEF Learn, RestTyped
  <2>2. /\ owed' \subseteq owed /\ stale' \subseteq stale
        /\ astray \subseteq astray' /\ astray' \subseteq astray \cup {s}
    BY <1>6 DEF Learn
  <2>3. page[s].poll = "failed" => unread[s] \/ s \notin owed'
    BY <1>6 DEF Learn
  <2>4. /\ UNCHANGED <<store, command, stream, service, lost>>
        /\ \A t \in Session \ {s} : page'[t] = page[t]
    BY <1>1, <1>6 DEF Learn, RestTyped
  <2> QED
    BY <1>1, <2>1, <2>2, <2>3, <2>4 DEF PageMoves, RestTyped
<1>7. CASE LoseAnswer(s)
  BY <1>1, <1>7, ChatBounds DEF LoseAnswer, PageMoves, RestTyped, history
<1> QED
  BY <1>2, <1>3, <1>4, <1>5, <1>6, <1>7 DEF PageOnly

LEMMA PageSteps == ChatInv /\ (\E s \in Session : PageOnly(s)) => ChatInv'
  BY PageMoving, StoreStays, TypedInTwo, Forgotten DEF ChatInv, PageMoves, RestTyped, CommandKept, store, StoreSound, Busy,
     FailureKept

\* The streams and the shutdown touch neither a command nor a page.
LEMMA ServiceSteps ==
  ChatInv /\ ((\E e \in Stream : StreamStep(e)) \/ Shutdown \/ CloseStreams \/ UNCHANGED chatVars) => ChatInv'
<1> SUFFICES ASSUME ChatInv,
                    (\E e \in Stream : StreamStep(e)) \/ Shutdown \/ CloseStreams \/ UNCHANGED chatVars
             PROVE  ChatInv'
  OBVIOUS
<1>1. RestTyped
  BY TypedInTwo DEF ChatInv
<1>2. /\ UNCHANGED <<store, command, page, history>>
      /\ stream' \in [Stream -> {"closed", "connecting", "open"}]
      /\ service' \in {"up", "closing", "closed"}
  <2>1. CASE \E e \in Stream : StreamStep(e)
    BY <1>1, <2>1 DEF StreamStep, OpenStream, StreamConnects, StreamLeaves, StreamCancelled, StreamTo, RestTyped
  <2>2. CASE Shutdown \/ CloseStreams \/ UNCHANGED chatVars
    BY <1>1, <2>2 DEF Shutdown, CloseStreams, chatVars, RestTyped
  <2> QED
    BY <2>1, <2>2
<1>3. StoreSound'
  BY <1>2, StoreStays DEF ChatInv
<1>4. RestTyped'
  BY <1>1, <1>2 DEF RestTyped, history
<1>5. NothingForgotten'
  BY <1>2 DEF ChatInv, NothingForgotten, store, history
<1> QED
  BY <1>3, <1>4, <1>5, TypedInTwo DEF ChatInv, StoreSound

LEMMA ChatStep == ChatInv /\ [ChatNext]_chatVars => ChatInv'
  BY SendStep, PageSteps, TellStep, HandleStep, RefuseStep, FinishStep, ServiceSteps DEF ChatNext, PageStep, PageOnly, CommandStep

\* The inductive invariant: the types, and that a session with a running command
\* or an untold failure is in the store, however the store is trimmed.
THEOREM ChatInvariance == ChatSpec => []ChatInv
BY ChatStart, ChatStep, PTL DEF ChatSpec

\* What the store of outcomes is for (noteCommandRunning, noteCommandFinished,
\* commandState, trimCommandRuns): with any number of sessions and commands and
\* any limit, a running command and an untold failure stay in it, and of the
\* sessions with nothing to tell no more than the limit do.
THEOREM OutcomesAreKept == ChatSpec => []StoreKept
<1>1. ChatInv => StoreKept
  BY DEF ChatInv, StoreSound, StoreKept
<1> QED
  BY <1>1, ChatInvariance, PTL
===============================================================================
