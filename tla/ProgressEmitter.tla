--------------------------- MODULE ProgressEmitter ---------------------------
(***************************************************************************)
(* The progress notifications of one scan (mcpserver/progress.go): entry   *)
(* goroutines of review.Execute report after each write of their file, a   *)
(* heartbeat goroutine reports when nothing was sent for a while, and the  *)
(* tool call stops both before it answers.  sendMu orders the              *)
(* notifications, mu guards the record of the entries.                     *)
(***************************************************************************)
EXTENDS Naturals, FiniteSets

CONSTANTS
  ScanEntry,       \* the entries of the call
  Beat,        \* the heartbeat goroutine
  Caller,      \* the goroutine of the tool call
  NoGoroutine,        \* nobody
  MaxUpdates,  \* bound: job updates of an entry
  MaxFileFaults    \* bound: failed clearings and failed writes of an entry file

ASSUME ActorsDiffer == Beat # Caller /\ ScanEntry \cap {Beat, Caller, NoGoroutine} = {}
                       /\ NoGoroutine \notin {Beat, Caller}
ASSUME FiniteEntries == IsFiniteSet(ScanEntry)
ASSUME EmitterBounds == MaxUpdates \in Nat /\ MaxFileFaults \in Nat

VARIABLES
  entryFile,       \* entries/<name>.json, the state only
  updatesLeft,       \* the updates the workers of an entry have still to give
  fileFaults,     \* failures so far
  at,         \* where each goroutine stands
  completed,  \* progressEmitter.completed
  stopped,    \* progressEmitter.stopped, and the closed channel stop
  recent,     \* lastSent lies less than the debounce interval back
  flight,     \* the notification being sent, under sendMu: [by, progress]
  reset,      \* a token in the channel reset
  fired,      \* the heartbeat timer has fired, its value not yet received
  shown       \* the progress of the last notification that was sent

fileVars == <<entryFile, updatesLeft, fileFaults>>
recordVars  == <<completed, stopped>>
timerVars   == <<reset, fired>>
emitVars    == <<fileVars, at, recordVars, recent, flight, timerVars, shown>>

Goroutine    == ScanEntry \cup {Beat, Caller}
FileState    == {"start", "running", "done", "failed", "skipped"}
FileTerminal == {"done", "failed", "skipped"}
NoFlight     == [by |-> NoGoroutine, progress |-> 0]
EntryPC  == {"begin", "update", "report", "emit", "send", "ended"}
BeatPC   == {"select", "emit", "send", "ended"}
CallerPC == {"execute", "stop", "send", "wait", "returned"}

EmitTypeOK ==
  /\ entryFile \in [ScanEntry -> FileState]
  /\ updatesLeft \in [ScanEntry -> 0..MaxUpdates]
  /\ fileFaults \in 0..MaxFileFaults
  /\ at \in [Goroutine -> EntryPC \cup BeatPC \cup CallerPC]
  /\ \A e \in ScanEntry : at[e] \in EntryPC
  /\ at[Beat] \in BeatPC
  /\ at[Caller] \in CallerPC
  /\ completed \in SUBSET ScanEntry
  /\ stopped \in BOOLEAN /\ recent \in BOOLEAN
  /\ reset \in BOOLEAN /\ fired \in BOOLEAN
  /\ flight \in [by : Goroutine \cup {NoGoroutine}, progress : 0..Cardinality(ScanEntry)]
  /\ shown \in 0..Cardinality(ScanEntry)

\* The files are those of an earlier scan: what is counted must be this one.
EmitInit ==
  /\ entryFile = [e \in ScanEntry |-> "done"]
  /\ updatesLeft = [e \in ScanEntry |-> 0]
  /\ fileFaults = 0
  /\ at = [a \in Goroutine |-> IF a = Beat THEN "select"
                           ELSE IF a = Caller THEN "execute" ELSE "begin"]
  /\ completed = {}
  /\ stopped = FALSE
  /\ recent = FALSE
  /\ flight = NoFlight
  /\ reset = FALSE /\ fired = FALSE
  /\ shown = 0

EmitGoto(a, place) == at' = [at EXCEPT ![a] = place]

-----------------------------------------------------------------------------
(* An entry of review.Execute: it writes its file, then it reports.        *)

FileFault == fileFaults < MaxFileFaults /\ fileFaults' = fileFaults + 1

\* The state DeriveEntryState gives while n updates are to come.
DerivedState(n) == IF n = 0 THEN FileTerminal ELSE {"start", "running"}

\* The first write.  Jobs that are skipped at once report themselves; where no
\* job runs at least one report is due, that of the entry if it has no job.
EntryBegin(e) ==
  /\ at[e] = "begin"
  /\ \E n \in 0..MaxUpdates, state \in FileState :
       /\ state \in DerivedState(n)
       /\ updatesLeft' = [updatesLeft EXCEPT ![e] = n]
       /\ entryFile' = [entryFile EXCEPT ![e] = state]
       /\ \/ EmitGoto(e, "report")
          \/ n > 0 /\ EmitGoto(e, "update")
  /\ UNCHANGED <<fileFaults, recordVars, recent, flight, timerVars, shown>>

\* The clearing failed and is noted in the file, or the first write failed:
\* the entry ends without a report.
EntryBeginFails(e) ==
  /\ at[e] = "begin"
  /\ FileFault
  /\ entryFile' \in {entryFile, [entryFile EXCEPT ![e] = "failed"]}
  /\ EmitGoto(e, "ended")
  /\ UNCHANGED <<updatesLeft, recordVars, recent, flight, timerVars, shown>>

\* A defect: the closed channel of the updates is read once more.
EntryUpdatePastLast(e) ==
  /\ at[e] = "update"
  /\ updatesLeft' = [updatesLeft EXCEPT ![e] = @ - 1]
  /\ EmitGoto(e, "report")
  /\ UNCHANGED <<entryFile, fileFaults, recordVars, recent, flight, timerVars, shown>>

EntryUpdate(e) ==
  /\ at[e] = "update" /\ updatesLeft[e] > 0
  /\ updatesLeft' = [updatesLeft EXCEPT ![e] = @ - 1]
  /\ \/ /\ \E state \in FileState :
             /\ state \in DerivedState(updatesLeft[e] - 1)
             /\ entryFile' = [entryFile EXCEPT ![e] = state]
        /\ UNCHANGED fileFaults
     \/ FileFault /\ UNCHANGED entryFile
  /\ EmitGoto(e, "report")
  /\ UNCHANGED <<recordVars, recent, flight, timerVars, shown>>

\* The last write of the entry, with its end.
EntryClose(e) ==
  /\ at[e] = "update" /\ updatesLeft[e] = 0
  /\ \/ /\ \E state \in FileTerminal : entryFile' = [entryFile EXCEPT ![e] = state]
        /\ UNCHANGED fileFaults
     \/ FileFault /\ UNCHANGED entryFile
  /\ EmitGoto(e, "ended")
  /\ UNCHANGED <<updatesLeft, recordVars, recent, flight, timerVars, shown>>

-----------------------------------------------------------------------------
(* Report and emit.                                                        *)

\* A defect: the state of the job is taken for the state of the entry.
EmitRecordJob(e) ==
  /\ at[e] = "report"
  /\ EmitGoto(e, "emit")
  /\ completed' \in {completed \cup {e}, completed \ {e}}
  /\ UNCHANGED <<fileVars, stopped, recent, flight, timerVars, shown>>

\* record, under mu.  The entry's file is read before the lock; no other
\* goroutine writes it, so the state cannot change in between.
EmitRecord(e) ==
  /\ at[e] = "report"
  /\ IF stopped
     THEN EmitGoto(e, "update") /\ UNCHANGED completed
     ELSE /\ EmitGoto(e, "emit")
          /\ completed' = IF entryFile[e] \in FileTerminal THEN completed \cup {e}
                          ELSE completed \ {e}
  /\ UNCHANGED <<fileVars, stopped, recent, flight, timerVars, shown>>

\* Where a goroutine goes on after emit.  The heartbeat sets its timer anew.
AfterEmit(a) == IF a = Beat THEN "select" ELSE "update"

\* A defect: params forgets to ask whether the emitter is stopped.
ParamsUnasked(a) ==
  /\ at[a] = "emit" /\ flight.by = NoGoroutine /\ ~recent
  /\ recent' = TRUE
  /\ flight' = [by |-> a, progress |-> Cardinality(completed)]
  /\ EmitGoto(a, "send")
  /\ UNCHANGED <<fileVars, recordVars, timerVars, shown>>

\* emit takes sendMu, params decides under mu whether to send.
Params(a) ==
  /\ at[a] = "emit" /\ flight.by = NoGoroutine
  /\ ~stopped /\ ~recent
  /\ recent' = TRUE
  /\ flight' = [by |-> a, progress |-> Cardinality(completed)]
  /\ EmitGoto(a, "send")
  /\ UNCHANGED <<fileVars, recordVars, timerVars, shown>>

\* resetTimer: the timer runs from here, a value not yet received is dropped.
ParamsNone(a) ==
  /\ at[a] = "emit" /\ flight.by = NoGoroutine
  /\ stopped \/ recent
  /\ EmitGoto(a, AfterEmit(a))
  /\ fired' = (fired /\ a # Beat)
  /\ UNCHANGED <<fileVars, recordVars, recent, flight, reset, shown>>

\* notify returns; resetHeartbeat leaves a token if there is none.
Notify(a) ==
  /\ a # Caller /\ at[a] = "send" /\ flight.by = a
  /\ shown' = flight.progress
  /\ flight' = NoFlight
  /\ reset' = TRUE
  /\ EmitGoto(a, AfterEmit(a))
  /\ fired' = (fired /\ a # Beat)
  /\ UNCHANGED <<fileVars, recordVars, recent>>

\* Debounce and timer run by the clock.
DebounceOver ==
  /\ recent
  /\ recent' = FALSE
  /\ UNCHANGED <<fileVars, at, recordVars, flight, timerVars, shown>>

TimerFires ==
  /\ at[Beat] # "ended" /\ ~fired
  /\ fired' = TRUE
  /\ UNCHANGED <<fileVars, at, recordVars, recent, flight, reset, shown>>

-----------------------------------------------------------------------------
(* runHeartbeat: a select over the timer, reset and stop.                  *)

BeatTimer ==
  /\ at[Beat] = "select" /\ fired
  /\ fired' = FALSE
  /\ EmitGoto(Beat, "emit")
  /\ UNCHANGED <<fileVars, recordVars, recent, flight, reset, shown>>

\* A defect: a token of reset ends the loop's interest in the timer.
BeatResetStuck ==
  /\ at[Beat] = "select" /\ reset
  /\ reset' = FALSE /\ fired' = FALSE
  /\ EmitGoto(Beat, "ended")
  /\ UNCHANGED <<fileVars, recordVars, recent, flight, shown>>

BeatReset ==
  /\ at[Beat] = "select" /\ reset
  /\ reset' = FALSE /\ fired' = FALSE
  /\ UNCHANGED <<fileVars, at, recordVars, recent, flight, shown>>

BeatStop ==
  /\ at[Beat] = "select" /\ stopped
  /\ EmitGoto(Beat, "ended")
  /\ UNCHANGED <<fileVars, recordVars, recent, flight, timerVars, shown>>

-----------------------------------------------------------------------------
(* scanReviewRun: Execute, then Stop.                                      *)

ExecuteReturns ==
  /\ at[Caller] = "execute"
  /\ \A e \in ScanEntry : at[e] = "ended"
  /\ EmitGoto(Caller, "stop")
  /\ UNCHANGED <<fileVars, recordVars, recent, flight, timerVars, shown>>

\* stopParams, under sendMu: the last message falls to the debounce, too.
StopParams ==
  /\ at[Caller] = "stop" /\ flight.by = NoGoroutine
  /\ stopped' = TRUE
  /\ recent' = TRUE
  /\ IF recent
     THEN EmitGoto(Caller, "wait") /\ UNCHANGED flight
     ELSE /\ EmitGoto(Caller, "send")
          /\ flight' = [by |-> Caller, progress |-> Cardinality(completed)]
  /\ UNCHANGED <<fileVars, completed, timerVars, shown>>

\* A defect: sendMu is kept until the heartbeat has ended.
StopNotifyLocked ==
  /\ at[Caller] = "send" /\ flight.by = Caller
  /\ shown' = flight.progress
  /\ EmitGoto(Caller, "wait")
  /\ UNCHANGED <<fileVars, recordVars, recent, flight, timerVars>>

StopNotify ==
  /\ at[Caller] = "send" /\ flight.by = Caller
  /\ shown' = flight.progress
  /\ flight' = NoFlight
  /\ EmitGoto(Caller, "wait")
  /\ UNCHANGED <<fileVars, recordVars, recent, timerVars>>

StopWaits ==
  /\ at[Caller] = "wait" /\ at[Beat] = "ended"
  /\ EmitGoto(Caller, "returned")
  /\ UNCHANGED <<fileVars, recordVars, recent, flight, timerVars, shown>>

-----------------------------------------------------------------------------
EntryEmits(e) == EntryBegin(e) \/ EntryBeginFails(e) \/ EntryUpdate(e) \/ EntryClose(e) \/ EmitRecord(e)
EmitStep(a)  == Params(a) \/ ParamsNone(a) \/ Notify(a)
BeatStep     == BeatTimer \/ BeatReset \/ BeatStop
CallerStep   == ExecuteReturns \/ StopParams \/ StopNotify \/ StopWaits
EmitClock        == DebounceOver \/ TimerFires

EmitNext ==
  \/ \E e \in ScanEntry : EntryEmits(e)
  \/ \E a \in ScanEntry \cup {Beat} : EmitStep(a)
  \/ BeatStep \/ CallerStep \/ EmitClock

EmitSpec == EmitInit /\ [][EmitNext]_emitVars

-----------------------------------------------------------------------------
(* Properties.                                                             *)

\* What a client is told never falls, whichever goroutine tells it, and after
\* the message of Stop nothing is sent, not even by a heartbeat that was under
\* way: at most the notification of Stop itself begins with the stop.
NotificationsOrdered ==
  [][/\ shown' >= shown
     /\ stopped /\ flight.by = NoGoroutine => flight'.by = NoGoroutine]_emitVars

\* A notification counts no entry whose file does not say so by then.
NeverAhead ==
  flight.progress <= Cardinality({e \in ScanEntry : entryFile[e] \in FileTerminal
                                                      /\ at[e] # "begin"})

\* Where no clearing and no write failed, the last count covers every entry.
FinalCount == stopped /\ fileFaults = 0 => completed = ScanEntry

\* When the tool answers, no notification is under way and the heartbeat is gone.
QuietAfterReturn ==
  at[Caller] = "returned" => flight.by = NoGoroutine /\ at[Beat] = "ended"

\* The count that a client gets is that of the files, up to the answer of the
\* tool: record takes the state of the entry and not that of the job.
CountHonest == NeverAhead /\ FinalCount /\ QuietAfterReturn

\* The heartbeat: until the stop, a notification is sent again and again, also
\* while a scanner gives no update.
SignOfLife == []<>(flight.by # NoGoroutine \/ stopped)

\* The tool call comes to its answer, although it waits for the heartbeat,
\* which may wait for the lock under which the tool sends its own message.
StopReturns == at[Caller] = "stop" ~> at[Caller] = "returned"
=============================================================================
