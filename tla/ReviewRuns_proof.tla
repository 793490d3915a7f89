--------------------------- MODULE ReviewRuns_proof ---------------------------
(***************************************************************************)
(* What the review tools keep of a run, for any number of calls, reports,  *)
(* merges and artefacts; what the accesses to GitHub keep, for any number  *)
(* of calls and edits; what the ranges of npm mean, for all numbers; and    *)
(* what an inventory says, for any number of runs and of changes to what    *)
(* they read.  Each part stands alone.                                     *)
(*                                                                         *)
(* One call makes the run (Creation).  An evidence entry is done only with *)
(* a checked job, and until an assistant writes under a check the SARIF is *)
(* what the check has left (CheckSound).  A result that was reported stays *)
(* (ReportSound).  A status that was begun misses no inconsistency of a    *)
(* later report, because a report leaves none (CheckSound); and the end    *)
(* of a triage is never later than the merge its text is about.            *)
(***************************************************************************)
EXTENDS ReviewRuns, GithubAccess, Inventory, FiniteSetTheorems, WellFoundedInduction, TLAPS

EntryStates == Terminal \cup {"start", "running"}
JobStates == {"none", "done", "failed"}
StatusType == [state : EntryStates, there : BOOLEAN, result : BOOLEAN, job : JobStates,
               finished : Nat, seen : Nat, kept : SUBSET Finding]
SarifType == [is : {"none", "empty", "broken", "sarif"}, found : SUBSET Finding, version : Nat]
InputType == [entry : RunEntries, state : EntryStates, result : BOOLEAN, job : BOOLEAN, reason : BOOLEAN, finished : Nat]
RunSteps == {"idle", "mkdir", "mkdir entries", "write run", "first status", "check", "clean", "write", "answer"}
CallType == [step : RunSteps, wanted : SUBSET RunEntries, input : InputType, seen : SarifType, state : EntryStates,
             job : JobStates, finished : Nat, inconsistent : SUBSET RunEntries]

Types ==
  /\ offered \subseteq RunEntries /\ runDir \in {"absent", "directory", "entries", "cut", "run"}
  /\ runEntries \subseteq RunEntries /\ created \subseteq RunEntries
  /\ statusFile \in [RunEntries -> StatusType] /\ call \in [Caller -> CallType]
  /\ resultFiles \in [ResultEntries -> {"none", "empty", "text"}] /\ sarif \in SarifType
  /\ textBasis \in Nat /\ reading \in Nat /\ merges \in Nat /\ mergedAt = merges
  /\ textBasis <= reading /\ reading <= merges
  /\ runOvertaken \in BOOLEAN /\ misjudged = FALSE

Making(c) == call[c].step \in {"mkdir entries", "write run"}
Creation ==
  /\ \A c, d \in Caller : Making(c) /\ Making(d) => c = d
  /\ \A c \in Caller : Making(c) => runDir \in {"directory", "entries"} /\ created = {}
  /\ runDir = "absent" => created = {}
  /\ runDir = "run" => runEntries = created

\* A done entry, whoever reported it.
EntriesSound ==
  /\ statusFile["evidence"].state = "done" =>
       statusFile["evidence"].job = "done" /\ statusFile["evidence"].kept \subseteq {"in"}
  /\ \A e \in ResultEntries : statusFile[e].state = "done" => statusFile[e].result /\ resultFiles[e] # "none"
  /\ ~runOvertaken =>
       /\ statusFile["evidence"].seen <= sarif.version /\ statusFile["scan-triage"].finished <= textBasis
       /\ statusFile["evidence"].state = "done" /\ statusFile["evidence"].seen = sarif.version =>
            sarif.found = statusFile["evidence"].kept

\* A report under way.
Reports(c) == call[c].step \in {"check", "clean", "write"}
ReportSound(c) ==
  /\ call[c].step \in {"check", "clean"} =>
       call[c].input.entry = "evidence" /\ call[c].state = "done" /\ ~call[c].input.result
  /\ call[c].step = "check" => call[c].job = "none"
  /\ call[c].step = "clean" => call[c].job = "done"
  /\ Reports(c) /\ call[c].job = "done" => call[c].seen.found \subseteq {"in", "out"}
  /\ call[c].step = "write" => call[c].input.entry \in AIEntries
  /\ call[c].step = "write" /\ call[c].state = "done" =>
       /\ call[c].input.entry = "evidence" => call[c].job = "done"
       /\ call[c].input.entry # "evidence" => call[c].input.result /\ resultFiles[call[c].input.entry] # "none"

\* What a call knows as long as no assistant wrote under it.
CheckSound(c) ==
  /\ Reports(c) => call[c].input.finished <= textBasis /\ call[c].seen.version <= sarif.version
  /\ call[c].step \in {"clean", "write"} /\ call[c].job = "done" =>
       /\ call[c].seen.version = sarif.version /\ sarif.is = "sarif" /\ call[c].seen.is = "sarif"
       /\ KeptFindings(call[c].seen.found) = KeptFindings(sarif.found)
       /\ call[c].step = "write" => sarif.found = KeptFindings(sarif.found)
  /\ call[c].step = "write" /\ call[c].state = "done" /\ call[c].input.entry \in ResultEntries =>
       resultFiles[call[c].input.entry] = "text"
  /\ call[c].step = "answer" =>
       /\ call[c].finished <= textBasis
       /\ \A e \in EffectiveEntries \cap AIEntries : Inconsistent(e) => e \in call[c].inconsistent

CallSound(c) == /\ ReportSound(c) /\ (~runOvertaken => CheckSound(c))
                /\ call[c].step = "answer" => runDir = "run"

RInv == Types /\ Creation /\ EntriesSound /\ \A c \in Caller : CallSound(c)

-----------------------------------------------------------------------------
(* What a step leaves alone.                                               *)

LEMMA Kept == \A found : /\ KeptFindings(KeptFindings(found)) = KeptFindings(found)
                         /\ "out" \notin found => KeptFindings(found) = found
  BY DEF KeptFindings

LEMMA AtMostItself == \A n \in Nat : n <= n
  OBVIOUS

\* A call that a step of another leaves where it is.
LEMMA StaysSound ==
  ASSUME NEW d \in Caller, Types, CallSound(d), call'[d] = call[d],
         runOvertaken => runOvertaken', runDir = "run" => runDir' = "run",
         \A e \in ResultEntries : resultFiles[e] # "none" => resultFiles'[e] # "none",
         textBasis' \in Nat, textBasis <= textBasis',
         ~runOvertaken' /\ Reports(d) =>
           /\ sarif'.version = sarif.version /\ sarif'.is = sarif.is
           /\ KeptFindings(sarif'.found) = KeptFindings(sarif.found)
           /\ sarif.found = KeptFindings(sarif.found) => sarif'.found = KeptFindings(sarif'.found),
         ~runOvertaken' /\ call[d].step = "write" => resultFiles' = resultFiles,
         ~runOvertaken' /\ call[d].step = "answer" =>
           /\ EffectiveEntries' \subseteq EffectiveEntries
           /\ \A e \in EffectiveEntries' \cap AIEntries : Inconsistent(e)' => Inconsistent(e)
  PROVE  CallSound(d)'
<1>1. call[d] \in CallType
  BY DEF Types
<1>2. ReportSound(d)'
  BY DEF AIEntries, ResultEntries, CallSound, ReportSound, Reports
<1>3. ASSUME ~runOvertaken'
      PROVE  CheckSound(d)'
  BY <1>3, <1>1 DEF CallSound, CheckSound, Types, CallType, Reports, InputType
<1> QED
  BY <1>2, <1>3 DEF CallSound

\* A step that leaves the entries, the artefacts and the offer.
LEMMA SameEffect ==
  ASSUME runEntries' = runEntries, offered' = offered
  PROVE  EffectiveEntries' = EffectiveEntries
  BY DEF EffectiveEntries

LEMMA SameInconsistency ==
  ASSUME statusFile' = statusFile, resultFiles' = resultFiles, sarif' = sarif
  PROVE  \A e : Inconsistent(e)' <=> Inconsistent(e)
  BY DEF Inconsistent, EntryState, NonEmptyResult

\* A step that changes one call and, at most, how far the creation has come.
LEMMA OneCall ==
  ASSUME RInv, NEW c \in Caller, NEW new \in CallType, call' = [call EXCEPT ![c] = new],
         UNCHANGED <<offered, runEntries, created, statusFile, misjudged, resultFiles, textBasis, sarif,
                     mergedAt, reading, merges, runOvertaken>>,
         runDir' \in {"absent", "directory", "entries", "cut", "run"},
         runDir' = "absent" => runDir = "absent", runDir' = "run" <=> runDir = "run",
         \A d \in Caller \ {c} : Making(d) =>
           new.step \notin {"mkdir entries", "write run"} /\ runDir' \in {"directory", "entries"},
         new.step \in {"mkdir entries", "write run"} => runDir' \in {"directory", "entries"} /\ created = {},
         CallSound(c)'
  PROVE  RInv'
<1>1. Types'
  BY DEF RInv, Types
<1>2. \A d \in Caller \ {c} : call'[d] = call[d]
  BY DEF RInv, Types
<1>3. call'[c] = new
  BY DEF RInv, Types
<1>4. Creation'
  <2>1. \A d \in Caller \ {c} : Making(d)' <=> Making(d)
    BY <1>2 DEF Making
  <2>2. Making(c)' <=> new.step \in {"mkdir entries", "write run"}
    BY <1>3 DEF Making
  <2> QED
    BY <2>1, <2>2 DEF RInv, Creation
<1>5. EntriesSound'
  BY DEF RInv, EntriesSound
<1>6. ASSUME NEW d \in Caller \ {c}
      PROVE  CallSound(d)'
  BY SameEffect, SameInconsistency, AtMostItself, <1>2, StaysSound DEF RInv, Types
<1> QED
  BY <1>1, <1>4, <1>5, <1>6 DEF RInv

-----------------------------------------------------------------------------
(* The creation.                                                           *)

\* A call that goes no further with what it knows.
LEMMA PassiveSound ==
  ASSUME NEW c \in Caller, call'[c].step \in {"idle", "mkdir", "mkdir entries", "write run", "first status"}
  PROVE  CallSound(c)'
  BY DEF CallSound, ReportSound, CheckSound, Reports

LEMMA NoCallTyped == NoCall \in CallType /\ NoCall.step = "idle"
  BY DEF NoCall, CallType, RunSteps, InputType, SarifType, NoInput, NoSarif, EntryStates, Terminal, JobStates, RunEntries, Tools

LEMMA BeginCreateSound ==
  ASSUME RInv, NEW c \in Caller, BeginCreate(c)
  PROVE  RInv'
<1> PICK request \in Requests :
      /\ Accepted(request) /\ runDir = "absent"
      /\ call' = [call EXCEPT ![c] = [NoCall EXCEPT !.step = "mkdir", !.wanted = SelectionOf(request)]]
  BY DEF BeginCreate
<1> DEFINE new == [NoCall EXCEPT !.step = "mkdir", !.wanted = SelectionOf(request)]
<1>1. SelectionOf(request) \subseteq RunEntries
  BY DEF SelectionOf, Accepted, RInv, Types
<1>2. new \in CallType /\ new.step = "mkdir"
  BY <1>1, NoCallTyped DEF CallType, RunSteps
<1> HIDE DEF new
<1>3. call'[c] = new
  BY DEF RInv, Types, new
<1>4. CallSound(c)'
  BY <1>2, <1>3, PassiveSound
<1>5. \A d \in Caller : ~Making(d)
  BY DEF RInv, Creation
<1> QED
  BY <1>2, <1>4, <1>5, OneCall DEF BeginCreate, CallStarts, OffersStay, RunFilesStay, ArtefactsStay, RInv, Types, new

LEMMA MakeRunDirSound ==
  ASSUME RInv, NEW c \in Caller, MakeRunDir(c)
  PROVE  RInv'
<1>1. /\ UNCHANGED <<offered, runEntries, created, statusFile, misjudged, resultFiles, textBasis, sarif,
                     mergedAt, reading, merges, runOvertaken>>
      /\ call[c].step = "mkdir" /\ call[c] \in CallType /\ call \in [Caller -> CallType]
      /\ runDir \in {"absent", "directory", "entries", "cut", "run"}
  BY DEF MakeRunDir, OffersStay, ArtefactsStay, RInv, Types
<1>2. CASE runDir = "absent"
  <2> DEFINE new == [call[c] EXCEPT !.step = "mkdir entries"]
  <2>1. runDir' = "directory" /\ call' = [call EXCEPT ![c] = new]
    BY <1>2 DEF MakeRunDir, Goes
  <2>2. new \in CallType /\ new.step = "mkdir entries"
    BY <1>1 DEF CallType, RunSteps
  <2> HIDE DEF new
  <2>3. CallSound(c)'
    BY <1>1, <2>1, <2>2, PassiveSound
  <2>4. created = {} /\ \A d \in Caller : ~Making(d)
    BY <1>2 DEF RInv, Creation
  <2> QED
    BY <1>1, <1>2, <2>1, <2>2, <2>3, <2>4, OneCall
<1>3. CASE runDir # "absent"
  BY <1>3, <1>1, NoCallTyped, PassiveSound, OneCall DEF MakeRunDir, Returns, RInv, Creation
<1> QED
  BY <1>2, <1>3

LEMMA MakeEntriesDirSound ==
  ASSUME RInv, NEW c \in Caller, MakeEntriesDir(c)
  PROVE  RInv'
<1> DEFINE new == [call[c] EXCEPT !.step = "write run"]
<1>1. /\ UNCHANGED <<offered, runEntries, created, statusFile, misjudged, resultFiles, textBasis, sarif,
                     mergedAt, reading, merges, runOvertaken>>
      /\ Making(c) /\ call[c] \in CallType /\ call \in [Caller -> CallType]
      /\ runDir' = (IF runDir = "directory" THEN "entries" ELSE runDir) /\ call' = [call EXCEPT ![c] = new]
  BY DEF MakeEntriesDir, OffersStay, ArtefactsStay, RInv, Types, Making, Goes
<1>2. runDir' = "entries" /\ runDir \in {"directory", "entries"} /\ created = {}
  BY <1>1 DEF RInv, Creation
<1>3. \A d \in Caller \ {c} : ~Making(d)
  BY <1>1 DEF RInv, Creation
<1>4. new \in CallType /\ new.step = "write run"
  BY <1>1 DEF CallType, RunSteps
<1> HIDE DEF new
<1>5. CallSound(c)'
  BY <1>1, <1>4, PassiveSound
<1> QED
  BY <1>1, <1>2, <1>3, <1>4, <1>5, OneCall

LEMMA WriteRunSound ==
  ASSUME RInv, NEW c \in Caller, WriteRun(c)
  PROVE  RInv'
<1> DEFINE new == IF "scan-triage" \in call[c].wanted THEN [call[c] EXCEPT !.step = "first status"] ELSE NoCall
<1>1. /\ UNCHANGED <<offered, statusFile, misjudged, resultFiles, textBasis, sarif,
                     mergedAt, reading, merges, runOvertaken>>
      /\ Making(c) /\ call[c] \in CallType /\ call \in [Caller -> CallType]
      /\ runDir' = "run" /\ runEntries' = call[c].wanted
      /\ created' = (IF created = {} THEN call[c].wanted ELSE created)
      /\ call' = [call EXCEPT ![c] = new]
  BY DEF WriteRun, OffersStay, ArtefactsStay, RInv, Types, Making, Goes, Returns
<1>2. runDir \in {"directory", "entries"} /\ created = {} /\ \A d \in Caller \ {c} : ~Making(d)
  BY <1>1 DEF RInv, Creation
<1>3. new \in CallType /\ new.step \in {"first status", "idle"}
  BY <1>1, NoCallTyped DEF CallType, RunSteps
<1> HIDE DEF new
<1>4. call'[c] = new /\ \A d \in Caller \ {c} : call'[d] = call[d]
  BY <1>1
<1>5. Types'
  BY <1>1, <1>2, <1>3 DEF RInv, Types, CallType
<1>6. Creation'
  BY <1>2, <1>3, <1>4, <1>1 DEF Making, Creation
<1>7. EntriesSound'
  BY <1>1 DEF RInv, EntriesSound
<1>8. ASSUME NEW d \in Caller \ {c}
      PROVE  CallSound(d)'
  <2>1. call[d].step # "answer" /\ textBasis \in Nat /\ Types /\ CallSound(d)
    BY <1>2 DEF RInv, Types, CallSound
  <2> QED
    BY <1>1, <1>4, <2>1, StaysSound
<1>9. CallSound(c)'
  BY <1>3, <1>4, PassiveSound
<1> QED
  BY <1>5, <1>6, <1>7, <1>8, <1>9 DEF RInv

LEMMA FirstStatusSound ==
  ASSUME RInv, NEW c \in Caller, WriteInitialScanTriageEntry(c)
  PROVE  RInv'
<1> DEFINE first == [NoStatus EXCEPT !.there = TRUE]
<1>1. /\ UNCHANGED <<offered, runDir, runEntries, created, misjudged, resultFiles, textBasis, sarif,
                     mergedAt, reading, merges, runOvertaken>>
      /\ call' = [call EXCEPT ![c] = NoCall] /\ call \in [Caller -> CallType]
      /\ statusFile' = [statusFile EXCEPT !["scan-triage"] = first] /\ statusFile \in [RunEntries -> StatusType]
  BY DEF WriteInitialScanTriageEntry, OffersStay, RunFilesStay, ArtefactsStay, RInv, Types, Returns
<1>2. first \in StatusType /\ first.state = "start" /\ first.finished = 0
  BY DEF NoStatus, StatusType, EntryStates, JobStates
<1>3. "scan-triage" \in RunEntries /\ "evidence" \in RunEntries
      /\ ResultEntries \subseteq RunEntries /\ AIEntries \subseteq RunEntries
  BY DEF RunEntries, AIEntries, ResultEntries
<1> HIDE DEF first
<1>4. /\ statusFile'["scan-triage"] = first
      /\ \A e \in RunEntries \ {"scan-triage"} : statusFile'[e] = statusFile[e]
      /\ \A d \in Caller \ {c} : call'[d] = call[d]
      /\ call'[c] = NoCall
  BY <1>1, <1>3
<1>5. Types'
  BY <1>1, <1>2, <1>3, NoCallTyped DEF RInv, Types
<1>6. Creation'
  BY <1>1, <1>4, NoCallTyped DEF RInv, Creation, Making
<1>7. EntriesSound'
  BY <1>1, <1>2, <1>3, <1>4 DEF RInv, EntriesSound, Types
<1>8. ASSUME NEW d \in Caller \ {c}
      PROVE  CallSound(d)'
  <2>1. \A e \in AIEntries : Inconsistent(e)' => Inconsistent(e)
    BY <1>1, <1>2, <1>3, <1>4 DEF Inconsistent, EntryState, NonEmptyResult
  <2>2. EffectiveEntries' = EffectiveEntries
    BY <1>1, SameEffect
  <2>3. textBasis \in Nat /\ Types /\ CallSound(d)
    BY DEF RInv, Types
  <2> QED
    BY <1>1, <1>4, <2>1, <2>2, <2>3, StaysSound
<1>9. CallSound(c)'
  BY <1>4, NoCallTyped, PassiveSound
<1> QED
  BY <1>5, <1>6, <1>7, <1>8, <1>9 DEF RInv

\* A kill; what is written by renaming stays as it was.
LEMMA CallBreaksSound ==
  ASSUME RInv, NEW c \in Caller, CallBreaks(c)
  PROVE  RInv'
  BY NoCallTyped, PassiveSound, OneCall DEF CallBreaks, ArtefactsStay, RInv, Types, Returns, Creation, Making

-----------------------------------------------------------------------------
(* The reports.                                                            *)

LEMMA Reportable ==
  ASSUME RInv, NEW i \in InputType, i.entry \in AIEntries, ValidateAIEntryInput(i)
  PROVE  /\ i.job => i.entry = "evidence" /\ i.state = "done" /\ ~i.result
         /\ i.state = "done" /\ ~i.job =>
              i.entry \in ResultEntries /\ i.result /\ resultFiles[i.entry] = "text"
  BY DEF ValidateAIEntryInput, AIEntries, ResultEntries, InputType

LEMMA BeginReportSound ==
  ASSUME RInv, NEW c \in Caller, BeginReport(c)
  PROVE  RInv'
<1> PICK e \in AIEntries, state \in {"running", "done", "failed"},
         finished \in {0, merges} \cup {m \in {merges - 1} : m > 0} :
       LET i == [entry |-> e, state |-> state, result |-> e # "evidence" /\ state = "done",
                 job |-> e = "evidence" /\ state = "done",
                 reason |-> state = "failed", finished |-> IF e = "scan-triage" /\ state = "done" THEN finished ELSE 0]
       IN /\ ReportableEntry(e) /\ ValidateAIEntryInput(i)
          /\ call' = [call EXCEPT ![c] = [NoCall EXCEPT !.step = (IF i.job THEN "check" ELSE "write"),
                                          !.input = i, !.state = state]]
          /\ runOvertaken' = (runOvertaken \/ (e = "scan-triage" /\ state = "done" /\ textBasis < merges))
  BY DEF BeginReport
<1> DEFINE i == [entry |-> e, state |-> state, result |-> e # "evidence" /\ state = "done",
                 job |-> e = "evidence" /\ state = "done",
                 reason |-> state = "failed", finished |-> IF e = "scan-triage" /\ state = "done" THEN finished ELSE 0]
           new == [NoCall EXCEPT !.step = (IF i.job THEN "check" ELSE "write"), !.input = i, !.state = state]
<1>1. /\ UNCHANGED <<offered, runDir, runEntries, created, statusFile, misjudged, resultFiles, textBasis, sarif,
                     mergedAt, reading, merges>>
      /\ call' = [call EXCEPT ![c] = new] /\ call \in [Caller -> CallType]
      /\ runOvertaken' = (runOvertaken \/ (e = "scan-triage" /\ state = "done" /\ textBasis < merges))
      /\ ValidateAIEntryInput(i) /\ runDir = "run" /\ textBasis \in Nat /\ merges \in Nat /\ textBasis <= merges
      /\ runOvertaken \in BOOLEAN
  <2>1. /\ ValidateAIEntryInput(i) /\ call' = [call EXCEPT ![c] = new]
        /\ runOvertaken' = (runOvertaken \/ (e = "scan-triage" /\ state = "done" /\ textBasis < merges))
    OBVIOUS
  <2> HIDE DEF i, new
  <2>2. /\ UNCHANGED <<offered, runDir, runEntries, created, statusFile, misjudged, resultFiles, textBasis, sarif,
                       mergedAt, reading, merges>>
        /\ runDir = "run"
    BY DEF BeginReport, OffersStay, RunFilesStay, RunReadable
  <2>3. /\ call \in [Caller -> CallType] /\ textBasis \in Nat /\ merges \in Nat /\ textBasis <= merges
        /\ runOvertaken \in BOOLEAN
    BY DEF RInv, Types
  <2> QED
    BY <2>1, <2>2, <2>3
<1>2. finished \in Nat /\ finished <= merges
  BY <1>1
<1>3. /\ i \in InputType /\ i.entry = e /\ i.state = state
      /\ (e = "scan-triage" /\ state = "done") \/ i.finished = 0
      /\ i.finished <= merges /\ i.finished \in Nat
  BY <1>1, <1>2 DEF InputType, RunEntries, AIEntries, Tools, EntryStates, Terminal
<1> HIDE DEF i
<1>4. /\ new \in CallType /\ new.step = (IF i.job THEN "check" ELSE "write") /\ new.input = i /\ new.state = state
      /\ new.job = "none" /\ new.seen = NoSarif
  BY <1>3, NoCallTyped DEF CallType, RunSteps, EntryStates, Terminal, NoCall
<1> HIDE DEF new
<1>5. call'[c] = new /\ \A d \in Caller \ {c} : call'[d] = call[d]
  BY <1>1
<1>6. /\ i.job => e = "evidence" /\ state = "done" /\ ~i.result
      /\ state = "done" /\ ~i.job => e \in ResultEntries /\ i.result /\ resultFiles[e] = "text"
  BY <1>1, <1>3, Reportable
<1>7. Types'
  BY <1>1, <1>4 DEF RInv, Types
<1>8. Creation'
  BY <1>4, <1>5, <1>1 DEF Making, RInv, Creation
<1>9. EntriesSound'
  BY <1>1 DEF RInv, EntriesSound
<1>10. ASSUME NEW d \in Caller \ {c}
       PROVE  CallSound(d)'
  <2>1. EffectiveEntries' = EffectiveEntries /\ \A x : Inconsistent(x)' <=> Inconsistent(x)
    BY <1>1, SameEffect, SameInconsistency
  <2>2. Types /\ CallSound(d)
    BY DEF RInv, Types
  <2> QED
    BY <1>1, <1>5, <2>1, <2>2, StaysSound
<1>11. ReportSound(c)'
  BY <1>1, <1>3, <1>4, <1>5, <1>6 DEF ReportSound, Reports, ResultEntries
<1>12. ~runOvertaken' => CheckSound(c)'
  <2> SUFFICES ASSUME ~runOvertaken'
               PROVE  CheckSound(c)'
    OBVIOUS
  <2>1. i.finished <= textBasis
    <3>1. i.finished = 0 \/ ~(textBasis < merges)
      BY <1>1, <1>3
    <3>2. textBasis \in Nat /\ merges \in Nat /\ i.finished \in Nat /\ i.finished <= merges
      BY <1>1, <1>3
    <3> QED
      BY <3>1, <3>2
  <2>4. textBasis' = textBasis /\ sarif' = sarif /\ resultFiles' = resultFiles
    BY <1>1
  <2>2. sarif.version \in Nat
    BY DEF RInv, Types, SarifType
  <2>5. NoSarif.version <= sarif.version
    BY <2>2 DEF NoSarif
  <2>3. i.job \in BOOLEAN
    BY <1>3 DEF InputType
  <2> QED
    BY <1>3, <1>4, <1>5, <1>6, <2>1, <2>3, <2>4, <2>5 DEF CheckSound, Reports, ResultEntries
<1>13. CallSound(c)'
  BY <1>1, <1>11, <1>12 DEF CallSound
<1> QED
  BY <1>7, <1>8, <1>9, <1>10, <1>13 DEF RInv

LEMMA EvaluateSound ==
  ASSUME RInv, NEW c \in Caller, EvaluateEvidenceJob(c)
  PROVE  RInv'
<1>1. /\ UNCHANGED <<offered, runDir, runEntries, created, statusFile, misjudged, resultFiles, textBasis, sarif,
                     mergedAt, reading, merges, runOvertaken>>
      /\ call[c].step = "check" /\ call[c] \in CallType /\ call \in [Caller -> CallType]
      /\ runDir \in {"absent", "directory", "entries", "cut", "run"} /\ sarif \in SarifType
      /\ ReportSound(c) /\ (~runOvertaken => CheckSound(c))
  BY DEF EvaluateEvidenceJob, OffersStay, RunFilesStay, ArtefactsStay, RInv, Types, CallSound
<1>2. /\ call[c].input.entry = "evidence" /\ call[c].state = "done"
      /\ ~runOvertaken => call[c].input.finished <= textBasis /\ call[c].seen.version <= sarif.version
  BY <1>1 DEF ReportSound, CheckSound, Reports
<1>3. \A d \in Caller : Making(d) => runDir \in {"directory", "entries"}
  BY DEF RInv, Creation
<1>4. "evidence" \in AIEntries /\ "evidence" \notin ResultEntries
  BY DEF AIEntries, ResultEntries
<1>5. CASE Returns(c)
  BY <1>1, <1>5, NoCallTyped, PassiveSound, <1>3, OneCall DEF Returns
<1>6. CASE call' = [call EXCEPT ![c].step = "write", ![c].state = "failed", ![c].job = "failed"]
  <2> DEFINE new == [call[c] EXCEPT !.step = "write", !.state = "failed", !.job = "failed"]
  <2>1. call' = [call EXCEPT ![c] = new]
    BY <1>6
  <2>2. /\ new \in CallType /\ new.step = "write" /\ new.state = "failed" /\ new.job = "failed"
        /\ new.input = call[c].input /\ new.seen = call[c].seen
    BY <1>1 DEF CallType, RunSteps, EntryStates, Terminal, JobStates
  <2> HIDE DEF new
  <2>3. call'[c] = new
    BY <1>1, <2>1
  <2>4. CallSound(c)'
    BY <1>1, <1>2, <1>4, <2>2, <2>3 DEF CallSound, ReportSound, CheckSound, Reports
  <2> QED
    BY <1>1, <1>3, <2>1, <2>2, <2>4, OneCall
<1>7. CASE /\ sarif.is \notin {"none", "empty", "broken"} /\ "foreign rule" \notin sarif.found
           /\ call' = [call EXCEPT ![c].step = IF "out" \in sarif.found THEN "clean" ELSE "write",
                                   ![c].job = "done", ![c].seen = sarif]
  <2> DEFINE new == [call[c] EXCEPT !.step = IF "out" \in sarif.found THEN "clean" ELSE "write",
                                    !.job = "done", !.seen = sarif]
  <2>1. call' = [call EXCEPT ![c] = new]
    BY <1>7
  <2>2. /\ new \in CallType /\ new.step = (IF "out" \in sarif.found THEN "clean" ELSE "write") /\ new.state = "done"
        /\ new.job = "done" /\ new.input = call[c].input /\ new.seen = sarif
    BY <1>1, <1>2 DEF CallType, RunSteps, JobStates
  <2> HIDE DEF new
  <2>3. call'[c] = new
    BY <1>1, <2>1
  <2>4. /\ sarif.is = "sarif" /\ sarif.found \subseteq {"in", "out"} /\ sarif.version <= sarif.version
    BY <1>1, AtMostItself, <1>7 DEF SarifType, Finding
  <2>5. ~call[c].input.result
    BY <1>1 DEF ReportSound
  <2>6. ReportSound(c)'
    BY <1>2, <1>4, <2>2, <2>3, <2>4, <2>5 DEF ReportSound, Reports
  <2>7. ~runOvertaken' => CheckSound(c)'
    BY <1>1, <1>2, <1>4, <2>2, <2>3, <2>4, Kept DEF CheckSound, Reports
  <2>8. CallSound(c)'
    BY <2>2, <2>3, <2>6, <2>7 DEF CallSound
  <2> QED
    BY <1>1, <1>3, <2>1, <2>2, <2>8, OneCall
<1> QED
  BY <1>5, <1>6, <1>7 DEF EvaluateEvidenceJob

LEMMA RewriteSound ==
  ASSUME RInv, NEW c \in Caller, RewriteSarif(c)
  PROVE  RInv'
<1> DEFINE new == [call[c] EXCEPT !.step = "write"]
<1>1. /\ UNCHANGED <<offered, runDir, runEntries, created, statusFile, misjudged, resultFiles, textBasis,
                     mergedAt, reading, merges, runOvertaken>>
      /\ call' = [call EXCEPT ![c] = new] /\ call[c].step = "clean" /\ call[c] \in CallType /\ call \in [Caller -> CallType]
      /\ sarif' = [call[c].seen EXCEPT !.found = KeptFindings(@)]
      /\ ReportSound(c) /\ (~runOvertaken => CheckSound(c)) /\ textBasis \in Nat
  BY DEF RewriteSarif, OffersStay, RunFilesStay, RInv, Types, CallSound, Goes
<1>2. /\ new \in CallType /\ new.step = "write" /\ new.state = call[c].state /\ new.job = call[c].job
      /\ new.input = call[c].input /\ new.seen = call[c].seen
  BY <1>1 DEF CallType, RunSteps
<1> HIDE DEF new
<1>3. call'[c] = new /\ \A d \in Caller \ {c} : call'[d] = call[d]
  BY <1>1
<1>4. /\ sarif' \in SarifType /\ sarif'.is = call[c].seen.is /\ sarif'.version = call[c].seen.version
      /\ sarif'.found = KeptFindings(call[c].seen.found)
  BY <1>1 DEF KeptFindings, CallType, SarifType
<1>5. /\ call[c].input.entry = "evidence" /\ call[c].state = "done" /\ call[c].job = "done"
      /\ call[c].seen.found \subseteq {"in", "out"} /\ "evidence" \in AIEntries /\ "evidence" \notin ResultEntries
  BY <1>1 DEF ReportSound, AIEntries, ResultEntries, Reports
<1>6. ~runOvertaken =>
        /\ sarif'.version = sarif.version /\ sarif'.is = sarif.is /\ sarif.is = "sarif"
        /\ sarif'.found = KeptFindings(sarif.found)
        /\ sarif'.found = KeptFindings(sarif'.found)
        /\ KeptFindings(sarif'.found) = KeptFindings(sarif.found)
  BY <1>1, <1>4, <1>5, Kept DEF CheckSound
<1>7. Types'
  BY <1>1, <1>2, <1>4 DEF RInv, Types
<1>8. Creation'
  BY <1>2, <1>3, <1>1 DEF Making, RInv, Creation
<1>9. EntriesSound'
  BY <1>6, Kept, <1>1 DEF RInv, EntriesSound
<1>10. ASSUME NEW d \in Caller \ {c}
       PROVE  CallSound(d)'
  BY <1>1, SameEffect, <1>6, <1>3, StaysSound DEF Inconsistent, EntryState, NonEmptyResult, RInv
<1>11. ReportSound(c)'
  BY <1>2, <1>3, <1>5 DEF ReportSound, Reports
<1>12. ~runOvertaken' => CheckSound(c)'
  BY <1>1, <1>2, <1>3, <1>4, <1>5, <1>6 DEF CheckSound, Reports
<1>13. CallSound(c)'
  BY <1>2, <1>3, <1>11, <1>12 DEF CallSound
<1> QED
  BY <1>7, <1>8, <1>9, <1>10, <1>13 DEF RInv

LEMMA WriteStatusSound ==
  ASSUME RInv, NEW c \in Caller, WriteAIEntryStatus(c)
  PROVE  RInv'
<1> DEFINE i == call[c].input
           entry == [state |-> call[c].state, there |-> TRUE, result |-> i.result, job |-> call[c].job,
                     finished |-> i.finished, seen |-> call[c].seen.version, kept |-> KeptFindings(call[c].seen.found)]
<1>1. /\ UNCHANGED <<offered, runDir, runEntries, created, misjudged, resultFiles, textBasis, sarif,
                     mergedAt, reading, merges, runOvertaken>>
      /\ call' = [call EXCEPT ![c] = NoCall] /\ call[c].step = "write" /\ call[c] \in CallType
      /\ call \in [Caller -> CallType] /\ statusFile \in [RunEntries -> StatusType]
      /\ statusFile' = [statusFile EXCEPT ![i.entry] = entry]
      /\ ReportSound(c) /\ (~runOvertaken => CheckSound(c)) /\ textBasis \in Nat
  BY DEF WriteAIEntryStatus, OffersStay, RunFilesStay, ArtefactsStay, RInv, Types, CallSound, Returns
<1>2. entry \in StatusType
  BY <1>1 DEF CallType, InputType, SarifType, StatusType, KeptFindings
<1>3. /\ "scan-triage" \in ResultEntries /\ ResultEntries \subseteq AIEntries /\ AIEntries \subseteq RunEntries
      /\ AIEntries = ResultEntries \cup {"evidence"} /\ "evidence" \notin ResultEntries
  BY DEF RunEntries, AIEntries, ResultEntries
<1>4. i.entry \in AIEntries
  BY <1>1 DEF ReportSound
<1>5. /\ statusFile'[i.entry] = entry /\ \A e \in RunEntries \ {i.entry} : statusFile'[e] = statusFile[e]
      /\ call'[c] = NoCall /\ \A d \in Caller \ {c} : call'[d] = call[d]
  BY <1>1, <1>3, <1>4
<1>6. /\ entry.state = "done" /\ i.entry = "evidence" => entry.job = "done" /\ entry.kept \subseteq {"in"}
      /\ entry.state = "done" /\ i.entry \in ResultEntries => entry.result /\ resultFiles[i.entry] # "none"
  BY <1>1, <1>3 DEF ReportSound, Reports, KeptFindings
<1>7. ~runOvertaken =>
        /\ entry.seen <= sarif.version /\ entry.finished <= textBasis
        /\ entry.state = "done" /\ i.entry = "evidence" => sarif.found = entry.kept /\ sarif.is = "sarif"
        /\ entry.state = "done" /\ i.entry \in ResultEntries => resultFiles[i.entry] = "text"
  BY <1>1, <1>6 DEF CheckSound, Reports
<1> HIDE DEF entry, i
<1>8. Types'
  BY <1>1, <1>2, NoCallTyped DEF RInv, Types
<1>9. Creation'
  BY <1>1, <1>5, NoCallTyped DEF RInv, Creation, Making
<1>10. EntriesSound'
  BY <1>1, <1>3, <1>5, <1>6, <1>7, <1>4 DEF RInv, EntriesSound
<1>11. ASSUME NEW d \in Caller \ {c}
       PROVE  CallSound(d)'
  BY <1>1, SameEffect, <1>3, <1>5, <1>6, <1>7, StaysSound DEF Inconsistent, EntryState, NonEmptyResult, RInv
<1>12. CallSound(c)'
  BY <1>5, NoCallTyped, PassiveSound
<1> QED
  BY <1>8, <1>9, <1>10, <1>11, <1>12 DEF RInv

-----------------------------------------------------------------------------
(* The scan, the merge, the status.                                        *)

LEMMA ScanSound ==
  ASSUME RInv, NEW c \in Caller, ScanEntry(c)
  PROVE  RInv'
<1> PICK state \in {"done", "failed"} :
      statusFile' = [statusFile EXCEPT !["lint"] = [NoStatus EXCEPT !.state = state, !.there = TRUE]]
  BY DEF ScanEntry
<1> DEFINE entry == [NoStatus EXCEPT !.state = state, !.there = TRUE]
<1>1. /\ UNCHANGED <<offered, runDir, runEntries, created, misjudged, resultFiles, textBasis, sarif,
                     mergedAt, reading, merges, runOvertaken, call>>
      /\ statusFile' = [statusFile EXCEPT !["lint"] = entry] /\ statusFile \in [RunEntries -> StatusType]
      /\ textBasis \in Nat /\ textBasis <= textBasis
  BY AtMostItself DEF ScanEntry, OffersStay, RunFilesStay, ArtefactsStay, RInv, Types
<1>2. entry \in StatusType
  BY DEF NoStatus, StatusType, EntryStates, JobStates, Terminal
<1>3. "lint" \in RunEntries /\ AIEntries \subseteq RunEntries \ {"lint"} /\ ResultEntries \subseteq AIEntries
      /\ "evidence" \in AIEntries /\ "scan-triage" \in AIEntries
  BY DEF RunEntries, AIEntries, ResultEntries, Tools
<1> HIDE DEF entry
<1>4. \A e \in AIEntries : statusFile'[e] = statusFile[e]
  BY <1>1, <1>3
<1>5. Types'
  BY <1>1, <1>2, <1>3 DEF RInv, Types
<1>6. Creation'
  BY <1>1 DEF RInv, Creation, Making
<1>7. EntriesSound'
  BY <1>1, <1>3, <1>4 DEF RInv, EntriesSound
<1>8. ASSUME NEW d \in Caller
      PROVE  CallSound(d)'
  BY <1>1, SameEffect, <1>4, StaysSound DEF Inconsistent, EntryState, NonEmptyResult, RInv
<1> QED
  BY <1>5, <1>6, <1>7, <1>8 DEF RInv

\* A step that changes nothing a call knows.
LEMMA NothingKnownChanges ==
  ASSUME RInv, UNCHANGED <<runDir, runEntries, created, statusFile, resultFiles, textBasis, sarif, call,
                           runOvertaken, misjudged>>,
         offered' \subseteq offered, "scan-triage" \in offered' => "scan-triage" \in offered,
         reading' \in Nat, merges' \in Nat, mergedAt' = merges', textBasis <= reading', reading' <= merges'
  PROVE  RInv'
  BY SameInconsistency, AtMostItself, StaysSound DEF RInv, Types, Creation, Making, EntriesSound, EffectiveEntries

LEMMA MergeSound ==
  ASSUME RInv, NEW c \in Caller, MergeRun(c)
  PROVE  RInv'
<1>1. textBasis \in Nat /\ reading \in Nat /\ merges \in Nat /\ textBasis <= reading /\ reading <= merges
  BY DEF RInv, Types
<1>2. reading \in Nat /\ merges + 1 \in Nat /\ textBasis <= reading /\ reading <= merges + 1
  BY <1>1
<1> QED
  BY <1>2, NothingKnownChanges DEF MergeRun, OffersStay, RunFilesStay

LEMMA ReadSound ==
  ASSUME RInv, AssistantReadsMerge
  PROVE  RInv'
<1>1. textBasis \in Nat /\ reading \in Nat /\ merges \in Nat /\ textBasis <= reading /\ reading <= merges /\ mergedAt = merges
  BY DEF RInv, Types
<1>2. textBasis <= merges /\ merges <= merges
  BY <1>1
<1> QED
  BY <1>1, <1>2, NothingKnownChanges DEF AssistantReadsMerge

LEMMA CatalogueSound ==
  ASSUME RInv, CatalogueChanges
  PROVE  RInv'
  BY NothingKnownChanges DEF RInv, Types, CatalogueChanges

LEMMA BeginStatusSound ==
  ASSUME RInv, NEW c \in Caller, BeginStatus(c)
  PROVE  RInv'
<1> DEFINE missed == {e \in EffectiveEntries \cap AIEntries : Inconsistent(e)}
           ended == statusFile["scan-triage"].finished
           new == [NoCall EXCEPT !.step = "answer", !.finished = ended, !.inconsistent = missed]
<1>1. /\ UNCHANGED <<offered, runDir, runEntries, created, statusFile, misjudged, resultFiles, textBasis, sarif,
                     mergedAt, reading, merges, runOvertaken>>
      /\ call' = [call EXCEPT ![c] = new] /\ call \in [Caller -> CallType] /\ runDir = "run"
  BY DEF BeginStatus, OffersStay, RunFilesStay, ArtefactsStay, RInv, Types, RunReadable
<1>2. missed \subseteq RunEntries
  BY DEF AIEntries, RunEntries
<1>3. ended \in Nat /\ (~runOvertaken => ended <= textBasis)
  BY DEF RInv, Types, RunEntries, AIEntries, EntriesSound, StatusType
<1>4. \A e \in EffectiveEntries \cap AIEntries : Inconsistent(e) => e \in missed
  OBVIOUS
<1> HIDE DEF missed, ended
<1>5. new \in CallType /\ new.step = "answer" /\ new.finished = ended /\ new.inconsistent = missed
  BY <1>2, <1>3, NoCallTyped DEF CallType, RunSteps, NoCall
<1> HIDE DEF new
<1>6. call'[c] = new
  BY <1>1
<1>7. EffectiveEntries' = EffectiveEntries /\ \A e : Inconsistent(e)' <=> Inconsistent(e)
  BY <1>1, SameEffect, SameInconsistency
<1>8. ReportSound(c)'
  BY <1>5, <1>6 DEF ReportSound, Reports
<1>9. ~runOvertaken' => CheckSound(c)'
  BY <1>1, <1>3, <1>4, <1>5, <1>6, <1>7 DEF CheckSound, Reports
<1>10. CallSound(c)'
  BY <1>1, <1>8, <1>9 DEF CallSound
<1>11. \A d \in Caller : ~Making(d)
  BY <1>1 DEF RInv, Creation
<1> QED
  BY <1>1, <1>5, <1>10, <1>11, OneCall

\* What an answer shows was so when the status was begun, and stays so: a
\* later report adds no inconsistency, and a later merge makes the end time of
\* the triage older than it.
LEMMA AnswerStatusSound ==
  ASSUME RInv, NEW c \in Caller, AnswerStatus(c)
  PROVE  RInv'
<1> DEFINE triage == TriageFreshness(resultFiles["scan-triage"] # "none", call[c].finished)
           shownComplete == DeriveRunState(EffectiveEntries) = "done" /\ call[c].inconsistent = {} /\ triage # "stale"
<1>1. /\ UNCHANGED <<offered, runDir, runEntries, created, statusFile, resultFiles, textBasis, sarif,
                     mergedAt, reading, merges, runOvertaken>>
      /\ call' = [call EXCEPT ![c] = NoCall] /\ call[c].step = "answer" /\ call[c] \in CallType
      /\ call \in [Caller -> CallType] /\ runDir = "run"
      /\ textBasis \in Nat /\ reading \in Nat /\ merges \in Nat /\ textBasis <= reading /\ reading <= merges
      /\ mergedAt = merges /\ misjudged = FALSE
  BY DEF AnswerStatus, OffersStay, RunFilesStay, ArtefactsStay, RInv, Types, CallSound, Returns
<1>2. misjudged' = (misjudged \/ (~runOvertaken /\ ((shownComplete /\ ~Complete)
                                                    \/ (triage = "current" /\ textBasis < merges))))
  BY DEF AnswerStatus
<1>3. ASSUME ~runOvertaken
      PROVE  /\ call[c].finished <= textBasis
             /\ \A e \in EffectiveEntries \cap AIEntries : Inconsistent(e) => e \in call[c].inconsistent
  BY <1>1, <1>3 DEF RInv, CallSound, CheckSound
<1>4. ASSUME ~runOvertaken, triage = "current"
      PROVE  textBasis = merges
  BY <1>1, <1>4, <1>3 DEF TriageFreshness, CallType
<1>5. ASSUME ~runOvertaken, shownComplete
      PROVE  Complete
  BY <1>3, <1>5, <1>4 DEF TriageFreshness, Complete
<1>6. misjudged' = FALSE
  <2>1. triage = "current" /\ ~runOvertaken => ~(textBasis < merges)
    BY <1>1, <1>4
  <2>2. ~runOvertaken => ~(shownComplete /\ ~Complete)
    BY <1>5
  <2> HIDE DEF triage, shownComplete
  <2> QED
    BY <1>1, <1>2, <2>1, <2>2
<1>7. CallSound(c)'
  BY <1>1, NoCallTyped, PassiveSound
<1>8. \A d \in Caller : ~Making(d)
  BY <1>1 DEF RInv, Creation
<1> QED
  BY <1>1, <1>6, <1>7, <1>8, NoCallTyped, OneCall

-----------------------------------------------------------------------------
(* The assistants.                                                         *)

LEMMA ResultSound ==
  ASSUME RInv, AssistantWritesResult
  PROVE  RInv'
<1> PICK e \in ResultEntries, text \in {"empty", "text"} :
      /\ resultFiles' = [resultFiles EXCEPT ![e] = text]
      /\ textBasis' = IF e = "scan-triage" THEN reading ELSE textBasis
  BY DEF AssistantWritesResult
<1>1. /\ UNCHANGED <<offered, runDir, runEntries, created, statusFile, sarif, mergedAt, reading, call, merges, misjudged>>
      /\ runOvertaken' = (runOvertaken \/ \E c \in Caller : call[c].step \in {"write", "answer"})
      /\ textBasis \in Nat /\ reading \in Nat /\ merges \in Nat /\ textBasis <= reading /\ reading <= merges
      /\ resultFiles \in [ResultEntries -> {"none", "empty", "text"}] /\ runOvertaken \in BOOLEAN
  BY DEF AssistantWritesResult, RInv, Types
<1>2. textBasis' \in Nat /\ textBasis <= textBasis' /\ textBasis' <= reading
  BY <1>1
<1>3. \A x \in ResultEntries : resultFiles[x] # "none" => resultFiles'[x] # "none"
  BY <1>1
<1>4. Types'
  BY <1>1, <1>2 DEF RInv, Types
<1>5. Creation'
  BY <1>1 DEF RInv, Creation, Making
<1>6. EntriesSound'
  BY <1>1, <1>2, <1>3 DEF RInv, Types, StatusType, RunEntries, AIEntries, EntriesSound
<1>7. ASSUME NEW d \in Caller
      PROVE  CallSound(d)'
  BY <1>1, <1>2, <1>3, StaysSound DEF RInv
<1> QED
  BY <1>4, <1>5, <1>6, <1>7 DEF RInv

LEMMA Later == \A n \in Nat : n + 1 \in Nat /\ \A m \in Nat : m <= n => m <= n + 1 /\ m # n + 1
  OBVIOUS

LEMMA SarifSound ==
  ASSUME RInv, AssistantWritesSarif
  PROVE  RInv'
<1> PICK is \in {"empty", "broken", "sarif"}, found \in {{}, {"in", "out"}, {"in", "foreign rule"}} :
      sarif' = [is |-> is, found |-> found, version |-> sarif.version + 1]
  BY DEF AssistantWritesSarif
<1>1. /\ UNCHANGED <<offered, runDir, runEntries, created, statusFile, resultFiles, textBasis, mergedAt, reading,
                     call, merges, misjudged>>
      /\ runOvertaken' = (runOvertaken \/ \E c \in Caller : call[c].step \in {"check", "clean", "write", "answer"})
      /\ textBasis \in Nat /\ textBasis <= textBasis /\ sarif.version \in Nat /\ runOvertaken \in BOOLEAN
  BY AtMostItself DEF AssistantWritesSarif, RInv, Types, SarifType
<1>2. sarif' \in SarifType /\ sarif'.version = sarif.version + 1
  BY <1>1, Later DEF Finding, SarifType
<1>3. Types'
  BY <1>1, <1>2 DEF RInv, Types
<1>4. Creation'
  BY <1>1 DEF RInv, Creation, Making
<1>5. EntriesSound'
  BY <1>1, <1>2, Later DEF RInv, Types, StatusType, RunEntries, AIEntries, EntriesSound
<1>6. ASSUME NEW d \in Caller
      PROVE  CallSound(d)'
  BY <1>1, StaysSound DEF RInv, Reports
<1> QED
  BY <1>3, <1>4, <1>5, <1>6 DEF RInv

-----------------------------------------------------------------------------
(* The theorems.                                                           *)

LEMMA BeginsSound ==
  ASSUME NEW offer \in SUBSET RunEntries, NEW entries \in SUBSET RunEntries, NEW done \in SUBSET entries,
         NEW merged \in Nat, RunsBegin(offer, entries, done, merged)
  PROVE  RInv
<1>1. "scan-triage" \in RunEntries /\ "evidence" \in RunEntries
      /\ ResultEntries \subseteq RunEntries /\ "evidence" \notin ResultEntries
  BY DEF RunEntries, AIEntries, ResultEntries
<1>2. \A e \in RunEntries :
        /\ statusFile[e] \in StatusType /\ statusFile[e].finished = 0
        /\ statusFile[e].state = "done" => e \in done
        /\ e \in done => /\ statusFile[e].state = "done" /\ statusFile[e].result = (e \in ResultEntries)
                         /\ e = "evidence" => statusFile[e].job = "done" /\ statusFile[e].kept = {"in"} /\ statusFile[e].seen = 1
        /\ e \notin done => statusFile[e].seen = 0
  <2>1. NoStatus \in StatusType /\ NoStatus.state = "start" /\ NoStatus.finished = 0 /\ NoStatus.seen = 0
    BY DEF NoStatus, StatusType, EntryStates, JobStates
  <2> TAKE e \in RunEntries
  <2> DEFINE entry == [state |-> "done", there |-> TRUE, result |-> e \in ResultEntries,
                       job |-> IF e = "evidence" THEN "done" ELSE "none", finished |-> 0,
                       seen |-> IF e = "evidence" THEN 1 ELSE 0, kept |-> IF e = "evidence" THEN {"in"} ELSE {}]
  <2>2. statusFile[e] = IF e \notin done THEN NoStatus ELSE entry
    BY DEF RunsBegin
  <2>3. entry \in StatusType
    BY DEF StatusType, EntryStates, Terminal, JobStates, Finding
  <2>4. CASE e \in done
    BY <2>2, <2>3, <2>4
  <2>5. CASE e \notin done
    <3>1. statusFile[e] = NoStatus
      BY <2>2, <2>5
    <3> HIDE DEF entry
    <3> QED
      BY <2>1, <2>5, <3>1
  <2> QED
    BY <2>4, <2>5
<1>3. /\ sarif \in SarifType
      /\ sarif = IF "evidence" \in done THEN [is |-> "sarif", found |-> {"in"}, version |-> 1] ELSE NoSarif
  BY DEF RunsBegin, NoSarif, SarifType, Finding
<1>4. \A c \in Caller : call[c] = NoCall
  BY DEF RunsBegin
<1>5. Types
  <2>1. statusFile \in [RunEntries -> StatusType] /\ call \in [Caller -> CallType]
    BY <1>2, NoCallTyped DEF RunsBegin
  <2>2. /\ mergedAt = merges /\ textBasis = 0 /\ reading = merged /\ merges = merged
        /\ resultFiles \in [ResultEntries -> {"none", "empty", "text"}]
        /\ runDir \in {"absent", "directory", "entries", "cut", "run"}
        /\ offered \subseteq RunEntries /\ runEntries \subseteq RunEntries /\ created \subseteq RunEntries
        /\ runOvertaken \in BOOLEAN /\ misjudged = FALSE
    BY DEF RunsBegin
  <2>3. 0 <= merged /\ merged <= merged
    OBVIOUS
  <2> QED
    BY <1>3, <2>1, <2>2, <2>3 DEF Types
<1>6. Creation
  BY <1>4, NoCallTyped DEF RunsBegin, Creation, Making
<1>7. EntriesSound
  <2>1. \A e \in ResultEntries : e \in done => resultFiles[e] = "text"
    BY DEF RunsBegin
  <2>2. statusFile["evidence"].seen <= sarif.version
    BY <1>1, <1>2, <1>3 DEF NoSarif
  <2>3. statusFile["scan-triage"].finished <= textBasis
    <3>1. statusFile["scan-triage"].finished = 0 /\ textBasis = 0
      BY <1>1, <1>2 DEF RunsBegin
    <3> QED
      BY <3>1, AtMostItself
  <2> QED
    BY <1>1, <1>2, <1>3, <2>1, <2>2, <2>3 DEF EntriesSound
<1>8. \A c \in Caller : CallSound(c)
  BY <1>4, NoCallTyped DEF CallSound, ReportSound, CheckSound, Reports
<1> QED
  BY <1>5, <1>6, <1>7, <1>8 DEF RInv

LEMMA RunsInitSound == RunsInit => RInv
  BY BeginsSound DEF RunEntries, Tools, AIEntries, RunsInit

LEMMA RunsNextSound == RInv /\ [RunsNext]_runVars => RInv'
<1> SUFFICES ASSUME RInv, [RunsNext]_runVars
             PROVE  RInv'
  OBVIOUS
<1>1. ASSUME NEW c \in Caller,
             BeginCreate(c) \/ MakeRunDir(c) \/ MakeEntriesDir(c) \/ WriteRun(c) \/ WriteInitialScanTriageEntry(c)
             \/ CallBreaks(c)
      PROVE  RInv'
  BY <1>1, BeginCreateSound, MakeRunDirSound, MakeEntriesDirSound, WriteRunSound, FirstStatusSound, CallBreaksSound
<1>2. ASSUME NEW c \in Caller, BeginReport(c) \/ EvaluateEvidenceJob(c) \/ RewriteSarif(c) \/ WriteAIEntryStatus(c)
      PROVE  RInv'
  BY <1>2, BeginReportSound, EvaluateSound, RewriteSound, WriteStatusSound
<1>3. ASSUME NEW c \in Caller, ScanEntry(c) \/ MergeRun(c) \/ BeginStatus(c) \/ AnswerStatus(c)
      PROVE  RInv'
  BY <1>3, ScanSound, MergeSound, BeginStatusSound, AnswerStatusSound
<1>4. CASE AssistantWritesResult \/ AssistantReadsMerge \/ AssistantWritesSarif \/ CatalogueChanges
  BY <1>4, ResultSound, ReadSound, SarifSound, CatalogueSound
<1>5. CASE UNCHANGED runVars
  BY <1>5, NothingKnownChanges DEF RInv, Types, runVars
<1> QED
  BY <1>1, <1>2, <1>3, <1>4, <1>5 DEF RunsNext

\* The invariant of a run of review tools, calls and assistants.
THEOREM RunsInvariance == RunsSpec => []RInv
  BY RunsInitSound, RunsNextSound, PTL DEF RunsSpec

\* A run keeps the entries it was created with; a done evidence entry has a checked job and the SARIF the
\* check left; a done entry has its result; and no status shows complete what is not (run.go:271,
\* mcpserver/review.go:513-680, 1113-1204).
THEOREM RunIsKept == RunsSpec => []RunKept
<1>1. RInv => RunKept
  BY DEF RInv, Creation, RunStays, Types, EntriesSound, EvidenceHonest, ResultsThere, RunKept
<1> QED
  BY <1>1, RunsInvariance, PTL

(***************************************************************************)
(* The accesses of a person.  A running command has the choice, the token  *)
(* and the environment of its own judgement (RunSound); the results of a    *)
(* test are true of the access at their place (TestSound); a page whose     *)
(* file nobody edited shows that file and the tests it began (PageSound);   *)
(* who writes the file with init has made it (InitSound).                   *)
(***************************************************************************)
AccessOps == {"none", "run", "test", "page test", "init"}
AccessSteps == {"idle", "load", "judge", "token", "exec", "running", "first", "second", "look", "open", "write", "done"}
UrlForm == {"https", "scp", "ssh", "mirror", "work"}
RewriteRule == [form : UrlForm, extent : 0..2, to : UrlForm, push : BOOLEAN]
AccessIds == {"alice", "T", "K", "work", "github.com", "nobody"}
TokenType == AccessIds \cup {"none"}
EnvType == [layers : Seq(SUBSET RewriteRule), helper : {"machine", "none", "own"}, ssh : AccessIds \cup {"machine"},
            token : TokenType \cup {"stray"}]
Loadable == Sound \cup {<<>>}
AccessState == {"disabled", "unavailable", "available"}
TestResult == [result : {"skipped", "failed", "ok"}, identity : AccessIds \cup {"none", "machine"},
               read : {"none", "yes", "no"}, write : {"none", "yes", "no", "unknown"}]
AccessCallType ==
  [op : AccessOps, step : AccessSteps, caller : EnvType, options : Options, access : Loadable, states : Seq(AccessState),
   choice : [git : 0..3, api : 0..3], token : TokenType, env : EnvType, at : Nat, results : Seq(TestResult),
   ok : BOOLEAN, created : BOOLEAN]

AccessTypes ==
  /\ AccessTypeOK
  /\ accessFile \in [kind : {"none", "dead link", "directory", "file"}, content : Contents,
                     maker : AccessCall \cup {"person", "nobody"}]
  /\ accessFile.kind = "none" => accessFile.content = <<>>
  /\ machineRules \in SUBSET RewriteRule
  /\ accessCall \in [AccessCall -> AccessCallType]
  /\ accessPage.rows \in Loadable
  /\ accessPage = [rows |-> accessPage.rows, shown |-> accessPage.shown, edited |-> accessPage.edited]

\* A run that has chosen: the choice is that of its judgement, the token that of the
\* access chosen, the environment that of both.
RunSound(c) ==
  accessCall[c].step \in {"token", "exec", "running"} =>
    /\ accessCall[c].op = "run" /\ accessCall[c].access \in Sound
    /\ accessCall[c].choice = Choose(accessCall[c].access, accessCall[c].states, accessCall[c].options)
    /\ accessCall[c].step = "token" => accessCall[c].choice.api # 0
    /\ accessCall[c].step # "token" /\ accessCall[c].choice.api # 0 =>
         accessCall[c].token = accessCall[c].access[accessCall[c].choice.api].id
    /\ accessCall[c].step = "running" =>
         accessCall[c].env = ChildEnv(accessCall[c].caller, accessCall[c].access, accessCall[c].choice, accessCall[c].token)

\* A test at an access, and what its results say.
IsTest(c) == accessCall[c].op \in {"test", "page test"}
ResultTrue(c, i) ==
  LET e == accessCall[c].access[i] IN
  /\ accessCall[c].results[i].identity \in {"none", CredentialOf(e)}
  /\ accessCall[c].results[i].result = "ok" =>
       /\ accessCall[c].states[i] = "available" /\ accessCall[c].results[i].identity = CredentialOf(e)
       /\ e.type \in {"gh", "token"} \/ Straight(c, e) => ReadsRepo(CredentialOf(e))
  /\ accessCall[c].results[i].write = "yes" => accessGrants[CredentialOf(e)] = "write"
TestSound(c) ==
  /\ accessCall[c].step \in {"first", "second"} =>
       /\ IsTest(c) /\ accessCall[c].access \in Sound
       /\ accessCall[c].at = Len(accessCall[c].results) + 1 /\ accessCall[c].at <= Len(accessCall[c].access)
  /\ accessCall[c].step = "second" => accessCall[c].states[accessCall[c].at] = "available"
  /\ accessCall[c].results # <<>> => IsTest(c) /\ accessCall[c].step \in {"first", "second", "done"}
  /\ accessCall[c].step = "judge" => accessCall[c].access # <<>> /\ accessCall[c].ok
  /\ accessCall[c].step = "done" /\ accessCall[c].results # <<>> => Len(accessCall[c].results) = Len(accessCall[c].access)
  /\ Len(accessCall[c].results) <= Len(accessCall[c].access)
  /\ accessCall[c].step \in {"first", "second"} \/ (accessCall[c].step = "done" /\ accessCall[c].results # <<>>) =>
       accessCall[c].ok = (\A i \in DOMAIN accessCall[c].results : accessCall[c].results[i].result # "failed")
  /\ \A i \in DOMAIN accessCall[c].results : ResultTrue(c, i)

\* The page, and the tests that belong to it.
PageSound ==
  /\ \A c \in AccessCall : accessCall[c].op = "page test" => accessPage.rows # <<>>
  /\ accessPage.rows # <<>> =>
       \A c \in AccessCall : accessCall[c].step \notin {"idle", "done"} => accessCall[c].op = "page test"
  /\ accessPage.rows # <<>> /\ ~accessPage.edited => accessFile.kind = "file" /\ LoadAccess.access = accessPage.rows
  /\ ~accessPage.edited =>
       \A c \in AccessCall : accessCall[c].op = "page test" /\ accessCall[c].access # <<>> => accessCall[c].access = accessPage.rows
  /\ RowsTrue

\* init, and who made the file.
InitSound ==
  /\ accessFile.kind = "none" => accessFile.maker = "nobody"
  /\ \A c \in AccessCall :
       /\ accessCall[c].step \in {"look", "open", "write"} => accessCall[c].op = "init"
       /\ accessCall[c].step \in {"load", "judge"} => accessCall[c].op = "run" \/ IsTest(c)
       /\ accessCall[c].step = "write" => accessFile.maker = c /\ accessFile.kind = "file"
       /\ accessCall[c].created => accessCall[c].step = "done" /\ accessCall[c].op = "init"
       /\ accessCall[c].created /\ accessChanges = 0 => accessFile.maker = c /\ accessFile.kind = "file"
  /\ ~fileLost

AInv == AccessTypes /\ PageSound /\ InitSound /\ \A c \in AccessCall : RunSound(c) /\ TestSound(c)

(***************************************************************************)
(* What the choice and the rewrites of git compute.                        *)
(***************************************************************************)
\* A set of places that is not empty has a first one, and First is it.
LEMMA LeastPlace ==
  ASSUME NEW S \in SUBSET Nat, S # {}
  PROVE  /\ First(S) \in S
         /\ \A j \in S : First(S) <= j
<1> DEFINE R == {ss \in Nat \X Nat : ss[1] < ss[2]}
<1>1. IsWellFoundedOn(R, Nat)
  BY NatLessThanWellFounded DEF OpToRel
<1>2. PICK n \in S : \A k \in S : ~(<<k, n>> \in R)
  <2> HIDE DEF R
  <2> QED
    BY <1>1, WFMin
<1>3. ASSUME NEW k \in S PROVE n <= k
  <2>1. ~(<<k, n>> \in R) /\ k \in Nat /\ n \in Nat
    BY <1>2
  <2>2. ~(k < n)
    BY <2>1
  <2> QED
    BY <2>1, <2>2
<1>4. \E i \in S : \A j \in S : i <= j
  BY <1>3
<1> QED
  BY <1>4 DEF First

\* The accesses a file without a problem may name.
Accesses == {Gh, Token, SshKey, SshHost, SshPlain, Public, Disabled(SshHost)}
LEMMA AccessesAre ==
  ASSUME NEW e \in Accesses
  PROVE  /\ e.type \in {"gh", "token", "ssh", "public"}
         /\ e.id \in AccessIds /\ e.disabled \in {"true", "false"}
         /\ e.type = "public" => e.id = "nobody" /\ e.keys = {}
         /\ e.type \in {"gh", "token"} => e.id \in {"alice", "T"} /\ e.keys \in {{"login"}, {"file"}}
         /\ e.type = "ssh" => \/ e.keys = {"key"} /\ e.id = "K"
                              \/ e.keys = {"host"} /\ e.id \in {"work", "github.com"}
BY DEF Accesses, Gh, Token, SshKey, SshHost, SshPlain, Public, Disabled, Entry, AccessIds

LEMMA TuplesOf ==
  ASSUME NEW S
  PROVE  /\ \A x, y \in S : <<x, y>> \in Seq(S) /\ Len(<<x, y>>) = 2
         /\ \A x, y, z \in S : <<x, y, z>> \in Seq(S) /\ Len(<<x, y, z>>) = 3
OBVIOUS

LEMMA SoundFile ==
  ASSUME NEW a \in Sound
  PROVE  /\ a \in Seq(Accesses) /\ Len(a) \in 1..3 /\ DOMAIN a = 1..Len(a) /\ a # <<>>
         /\ \A i \in DOMAIN a : a[i] \in Accesses
<1>1. /\ SshHost \in Accesses /\ Gh \in Accesses /\ Public \in Accesses /\ Token \in Accesses
      /\ SshKey \in Accesses /\ SshPlain \in Accesses /\ Disabled(SshHost) \in Accesses
  BY DEF Accesses
<1>2. a \in Seq(Accesses) /\ Len(a) \in {2, 3}
  BY <1>1, TuplesOf DEF Sound
<1>3. DOMAIN a = 1..Len(a) /\ \A i \in DOMAIN a : a[i] \in Accesses
  BY <1>2
<1> QED
  BY <1>2, <1>3

LEMMA ChosenPlace ==
  ASSUME NEW access \in Sound, NEW states, NEW options
  PROVE  LET c == Choose(access, states, options) IN
         /\ c.git \in 0..3 /\ c.api \in 0..3 /\ c = [git |-> c.git, api |-> c.api]
         /\ c.git # 0 => c.git \in DOMAIN access /\ Admitted(access[c.git], states[c.git], options)
         /\ c.api # 0 => c.api \in DOMAIN access /\ access[c.api].type \in {"token", "gh"}
         /\ c.git # 0 /\ access[c.git].type \in {"token", "gh"} => c.api = c.git
<1> DEFINE A == {i \in DOMAIN access : Admitted(access[i], states[i], options)}
           B == {i \in A : access[i].type \in {"token", "gh"}}
<1>1. DOMAIN access = 1..Len(access) /\ Len(access) \in 1..3
  BY SoundFile
<1>2. A \in SUBSET Nat /\ B \in SUBSET Nat /\ A \subseteq 1..3 /\ B \subseteq 1..3 /\ B \subseteq A
  BY <1>1
<1>3. Choose(access, states, options) = [git |-> First(A), api |-> First(B)]
  BY DEF Choose
<1>4. A = {} => First(A) = 0
  BY DEF First
<1>5. B = {} => First(B) = 0
  BY DEF First
<1>6. A # {} => First(A) \in A /\ \A j \in A : First(A) <= j
  BY <1>2, LeastPlace
<1>7. B # {} => First(B) \in B /\ \A j \in B : First(B) <= j
  BY <1>2, LeastPlace
<1>8. First(A) # 0 => First(A) \in DOMAIN access /\ Admitted(access[First(A)], states[First(A)], options)
  BY <1>4, <1>6
<1>9. First(B) # 0 => First(B) \in DOMAIN access /\ access[First(B)].type \in {"token", "gh"}
  BY <1>5, <1>7
<1>10. First(A) # 0 /\ access[First(A)].type \in {"token", "gh"} => First(A) = First(B)
  BY <1>4, <1>6, <1>2, <1>7
<1>11. First(A) \in 0..3 /\ First(B) \in 0..3
  BY <1>2, <1>4, <1>5, <1>6, <1>7
<1> HIDE DEF A, B
<1> QED
  BY <1>3, <1>8, <1>9, <1>10, <1>11

Layers == Seq(SUBSET RewriteRule)
LEMMA LayersAre ==
  ASSUME NEW L \in Layers
  PROVE  /\ Len(L) \in Nat /\ DOMAIN L = 1..Len(L)
         /\ \A n \in DOMAIN L : L[n] \in SUBSET RewriteRule
BY DEF Layers

Hits(L, url, push) ==
  {h \in UNION {{<<n, r>> : r \in L[n]} : n \in DOMAIN L} : h[2].push = push /\ Matches(h[2], url)}

LEMMA HitsAre ==
  ASSUME NEW L, NEW url, NEW push
  PROVE  /\ \A h \in Hits(L, url, push) : /\ h = <<h[1], h[2]>> /\ h[1] \in DOMAIN L /\ h[2] \in L[h[1]]
                                          /\ h[2].push = push /\ Matches(h[2], url)
         /\ \A n \in DOMAIN L : \A r \in L[n] : r.push = push /\ Matches(r, url) => <<n, r>> \in Hits(L, url, push)
BY DEF Hits

LEMMA LongestAre ==
  ASSUME NEW L, NEW url, NEW push
  PROVE  /\ \A h \in Longest(L, url, push) :
              /\ h \in Hits(L, url, push)
              /\ \A g \in Hits(L, url, push) : g[2].extent < h[2].extent \/ (g[2].extent = h[2].extent /\ h[1] <= g[1])
         /\ \A h \in Hits(L, url, push) :
              (\A g \in Hits(L, url, push) : g[2].extent < h[2].extent \/ (g[2].extent = h[2].extent /\ h[1] <= g[1]))
                => h \in Longest(L, url, push)
BY DEF Longest, Hits

\* Of rules that fit there is one that git takes.
LEMMA OneIsTaken ==
  ASSUME NEW L \in Layers, NEW url, NEW push, Hits(L, url, push) # {}
  PROVE  Longest(L, url, push) # {}
<1> DEFINE H == Hits(L, url, push)
           Places(x) == {n \in DOMAIN L : \E h \in H : h[1] = n /\ h[2].extent = x}
<1>1. \A h \in H : h[1] \in DOMAIN L /\ h[1] \in Nat /\ h[2].extent \in 0..2
  BY HitsAre, LayersAre DEF RewriteRule
<1>2. \E x \in 0..2 : Places(x) # {} /\ \A h \in H : h[2].extent <= x
  <2> HIDE DEF H
  <2>1. CASE \E h \in H : h[2].extent = 2
    BY <2>1, <1>1
  <2>2. CASE (\A h \in H : h[2].extent # 2) /\ \E h \in H : h[2].extent = 1
    BY <2>2, <1>1
  <2>3. CASE \A h \in H : h[2].extent # 2 /\ h[2].extent # 1
    BY <2>3, <1>1 DEF H
  <2> QED
    BY <2>1, <2>2, <2>3
<1>3. PICK x \in 0..2 : Places(x) # {} /\ \A h \in H : h[2].extent <= x
  BY <1>2
<1>4. Places(x) \in SUBSET Nat
  BY LayersAre
<1>5. First(Places(x)) \in Places(x) /\ \A j \in Places(x) : First(Places(x)) <= j
  BY <1>3, <1>4, LeastPlace
<1>6. PICK h \in H : h[1] = First(Places(x)) /\ h[2].extent = x
  BY <1>5
<1>7. ASSUME NEW g \in H
      PROVE  g[2].extent < h[2].extent \/ (g[2].extent = h[2].extent /\ h[1] <= g[1])
  BY <1>1, <1>3, <1>6, <1>5
<1>8. h \in Longest(L, url, push)
  BY <1>7, LongestAre
<1> QED
  BY <1>8

\* What git speaks with differs in the form alone.
LEMMA RewrittenIs ==
  ASSUME NEW L, NEW form, NEW repo, NEW git, NEW push \in BOOLEAN
  PROVE  LET u == Rewritten(L, Url(form, repo, git), push) IN
         /\ u.repo = repo
         /\ Longest(L, Url(form, repo, git), push) # {} =>
              \E h \in Longest(L, Url(form, repo, git), push) : u.form = h[2].to
<1> DEFINE url == Url(form, repo, git)
           own == IF push THEN Longest(L, url, TRUE) ELSE {}
           best == IF own # {} THEN own ELSE Longest(L, url, FALSE)
<1>1. Rewritten(L, url, push) = IF best = {} THEN url ELSE [url EXCEPT !.form = (CHOOSE h \in best : TRUE)[2].to]
  BY DEF Rewritten
<1>2. best # {} => (CHOOSE h \in best : TRUE) \in best
  OBVIOUS
<1>3. url.repo = repo /\ url = [form |-> form, repo |-> repo, git |-> git]
  BY DEF Url
<1> QED
  BY <1>1, <1>2, <1>3

LEMMA FormsIn ==
  ASSUME NEW access \in Sound
  PROVE  /\ FormsOf(access) \subseteq {"https", "scp", "ssh", "work"}
         /\ \A e \in Accesses : Target(e) \in {"https", "scp", "work"}
         /\ \A i \in DOMAIN access : Target(access[i]) \in {"https", "scp", "work"}
  BY AccessesAre, SoundFile DEF Target, AliasForm, FormsOf

LEMMA ConfigIn ==
  ASSUME NEW access \in Sound, NEW git, git = 0 \/ git \in DOMAIN access
  PROVE  GitConfig(access, git) \in SUBSET RewriteRule
  BY FormsIn DEF GitConfig, UrlForm, Rule, RewriteRule

\* The rewrites of the machine are read first, those of a command last.
LEMMA LayersOf ==
  ASSUME NEW S, NEW m \in S, NEW s \in Seq(S), NEW G \in S
  PROVE  /\ <<m>> \o s \in Seq(S) /\ Append(s, G) \in Seq(S)
         /\ <<m>> \o Append(s, G) = Append(<<m>> \o s, G)
         /\ Append(<<m>> \o s, G) \in Seq(S)
OBVIOUS

LEMMA AppendedIs ==
  ASSUME NEW L \in Layers, NEW G \in SUBSET RewriteRule
  PROVE  /\ Append(L, G) \in Layers /\ DOMAIN Append(L, G) = 1..(Len(L) + 1) /\ Len(L) \in Nat
         /\ \A n \in DOMAIN L : n \in DOMAIN Append(L, G) /\ Append(L, G)[n] = L[n]
         /\ Append(L, G)[Len(L) + 1] = G /\ Len(L) + 1 \in DOMAIN Append(L, G)
         /\ \A n \in DOMAIN Append(L, G) : n \in DOMAIN L \/ n = Len(L) + 1
BY DEF Layers

\* Every form of the repository lands at the target form, whatever shorter rewrites
\* lie before, and whoever else pins the same form.
LEMMA LandsAtTarget ==
  ASSUME NEW L \in Layers, NEW access \in Sound, NEW i \in DOMAIN access,
         NEW form \in FormsOf(access), NEW git \in BOOLEAN, NEW push \in BOOLEAN,
         \A n \in DOMAIN L : \A r \in L[n] : r.extent = 0 \/ r.to = Target(access[i])
  PROVE  LET u == Rewritten(Append(L, GitConfig(access, i)), Url(form, "web", git), push) IN
         u.form = Target(access[i]) /\ u.repo = "web"
<1> DEFINE G == GitConfig(access, i)
           A == Append(L, G)
           url == Url(form, "web", git)
           mine == Rule(form, 1, Target(access[i]), push)
<1>1. G \in SUBSET RewriteRule
  BY ConfigIn
<1>2. i # 0
  BY SoundFile
<1>3. mine \in G /\ \A r \in G : r.extent \in {1, 2} /\ r.to = Target(access[i])
  BY <1>2 DEF GitConfig, Rule
<1>4. mine.push = push /\ mine.extent = 1 /\ Matches(mine, url)
  BY DEF Matches, Url, Rule
<1> HIDE DEF G, url, mine
<1>5. A \in Layers
  BY <1>1, AppendedIs
<1>6. Len(L) + 1 \in DOMAIN A /\ A[Len(L) + 1] = G
  BY <1>1, AppendedIs
<1>7. <<Len(L) + 1, mine>> \in Hits(A, url, push)
  BY <1>3, <1>4, <1>6, HitsAre
<1>8. Longest(A, url, push) # {}
  BY <1>5, <1>7, OneIsTaken
<1>9. ASSUME NEW h \in Longest(A, url, push) PROVE h[2].to = Target(access[i])
  <2>1. h \in Hits(A, url, push) /\ (1 < h[2].extent \/ 1 = h[2].extent)
    BY <1>4, <1>7, LongestAre
  <2>2. h[1] \in DOMAIN A /\ h[2] \in A[h[1]]
    BY <2>1, HitsAre
  <2>3. h[2].extent # 0
    BY <2>1
  <2>4. CASE h[1] \in DOMAIN L
    BY <1>1, <2>2, <2>4, AppendedIs, <2>3
  <2>5. CASE h[1] = Len(L) + 1
    BY <1>3, <1>6, <2>2, <2>5
  <2> QED
    BY <1>1, <2>2, <2>4, <2>5, AppendedIs
<1> QED
  BY <1>8, <1>9, RewrittenIs DEF url, G

\* Another repository goes where it went without the command's own rewrites.
LEMMA OthersAsBefore ==
  ASSUME NEW L \in Layers, NEW access \in Sound, NEW i \in DOMAIN access, NEW form, NEW git, NEW push
  PROVE  Rewritten(Append(L, GitConfig(access, i)), Url(form, "docs", git), push) = Rewritten(L, Url(form, "docs", git), push)
<1> DEFINE G == GitConfig(access, i)
           A == Append(L, G)
           url == Url(form, "docs", git)
<1>1. G \in SUBSET RewriteRule
  BY ConfigIn
<1>2. i # 0
  BY SoundFile
<1>3. \A r \in G : ~Matches(r, url)
  BY <1>2 DEF GitConfig, Rule, Matches, Url
<1>8. /\ \A n \in DOMAIN L : n \in DOMAIN A /\ A[n] = L[n]
      /\ A[Len(L) + 1] = G /\ \A n \in DOMAIN A : n \in DOMAIN L \/ n = Len(L) + 1
  BY <1>1, AppendedIs
<1> HIDE DEF G, url, A
<1>4. ASSUME NEW p PROVE Hits(A, url, p) = Hits(L, url, p)
  <2>1. ASSUME NEW h \in Hits(A, url, p) PROVE h \in Hits(L, url, p)
    BY <2>1, HitsAre, <1>3, <1>8
  <2>2. ASSUME NEW h \in Hits(L, url, p) PROVE h \in Hits(A, url, p)
    BY <2>2, HitsAre, <1>8
  <2> QED
    BY <2>1, <2>2
<1>5. ASSUME NEW p PROVE Longest(A, url, p) = Longest(L, url, p)
  BY <1>4 DEF Longest, Hits
<1>6. Longest(A, url, TRUE) = Longest(L, url, TRUE) /\ Longest(A, url, FALSE) = Longest(L, url, FALSE)
  BY <1>5
<1>7. Rewritten(A, url, push) = Rewritten(L, url, push)
  BY <1>6 DEF Rewritten
<1> QED
  BY <1>7 DEF url, A, G

(***************************************************************************)
(* What the invariant says of a running command and of a test.             *)
(***************************************************************************)
LEMMA CallTyped ==
  ASSUME AccessTypes, NEW c \in AccessCall
  PROVE  /\ accessCall[c] \in AccessCallType
         /\ accessCall[c].caller \in EnvType /\ accessCall[c].env \in EnvType
         /\ accessCall[c].caller.layers \in Layers /\ accessCall[c].env.layers \in Layers
         /\ accessCall[c].access \in Loadable /\ accessCall[c].op \in AccessOps /\ accessCall[c].step \in AccessSteps
         /\ accessCall[c].results \in Seq(TestResult) /\ accessCall[c].states \in Seq(AccessState)
         /\ accessCall[c].at \in Nat /\ accessCall[c].ok \in BOOLEAN /\ accessCall[c].created \in BOOLEAN
         /\ accessCall[c].options \in Options /\ accessCall[c].token \in TokenType
         /\ RewritesBefore(c) \in Layers
  BY LayersOf DEF AccessTypes, AccessCallType, EnvType, Layers, RewritesBefore

LEMMA RunningIs ==
  ASSUME AInv, NEW c \in AccessCall, RunsAccess(c)
  PROVE  LET a == accessCall[c] IN
         /\ a.op = "run" /\ a.access \in Sound /\ a.choice = Choose(a.access, a.states, a.options)
         /\ a.choice.git \in 0..3 /\ a.choice.api \in 0..3
         /\ a.env = ChildEnv(a.caller, a.access, a.choice, a.token)
         /\ a.choice.api # 0 => /\ a.token = a.access[a.choice.api].id /\ a.choice.api \in DOMAIN a.access
                                /\ a.access[a.choice.api].type \in {"token", "gh"}
         /\ a.choice.git # 0 => /\ a.choice.git \in DOMAIN a.access /\ GitAccess(c) = a.access[a.choice.git]
                                /\ GitAccess(c) \in Accesses
                                /\ Admitted(GitAccess(c), a.states[a.choice.git], a.options)
                                /\ GitAccess(c).type \in {"token", "gh"} => a.choice.api = a.choice.git
                                /\ <<machineRules>> \o a.env.layers = Append(RewritesBefore(c), GitConfig(a.access, a.choice.git))
         /\ a.choice.git = 0 => a.env.layers = a.caller.layers
<1> DEFINE a == accessCall[c]
<1>1. /\ a.op = "run" /\ a.access \in Sound /\ a.choice = Choose(a.access, a.states, a.options)
      /\ a.env = ChildEnv(a.caller, a.access, a.choice, a.token)
      /\ a.choice.api # 0 => a.token = a.access[a.choice.api].id
  BY DEF AInv, RunSound, RunsAccess
<1>2. /\ a.choice.git \in 0..3 /\ a.choice.api \in 0..3
      /\ a.choice.git # 0 => a.choice.git \in DOMAIN a.access /\ Admitted(a.access[a.choice.git], a.states[a.choice.git], a.options)
      /\ a.choice.api # 0 => a.choice.api \in DOMAIN a.access /\ a.access[a.choice.api].type \in {"token", "gh"}
      /\ a.choice.git # 0 /\ a.access[a.choice.git].type \in {"token", "gh"} => a.choice.api = a.choice.git
  BY <1>1, ChosenPlace
<1>3. a.choice.git # 0 => GitAccess(c) = a.access[a.choice.git] /\ GitAccess(c) \in Accesses
  BY <1>1, <1>2, SoundFile DEF GitAccess
<1>4. a.env.layers = IF a.choice.git = 0 THEN a.caller.layers ELSE Append(a.caller.layers, GitConfig(a.access, a.choice.git))
  <2>1. a.env.layers = ChildEnv(a.caller, a.access, a.choice, a.token).layers
    BY <1>1
  <2> QED BY <2>1 DEF ChildEnv
<1>5. a.choice.git # 0 => <<machineRules>> \o a.env.layers = Append(RewritesBefore(c), GitConfig(a.access, a.choice.git))
  <2> HAVE a.choice.git # 0
  <2>1. GitConfig(a.access, a.choice.git) \in SUBSET RewriteRule
    BY <1>1, <1>2, ConfigIn
  <2>2. a.caller.layers \in Seq(SUBSET RewriteRule) /\ machineRules \in SUBSET RewriteRule
    BY CallTyped DEF AInv, AccessTypes, Layers
  <2>3. a.env.layers = Append(a.caller.layers, GitConfig(a.access, a.choice.git))
    BY <1>4
  <2>4. <<machineRules>> \o Append(a.caller.layers, GitConfig(a.access, a.choice.git))
           = Append(<<machineRules>> \o a.caller.layers, GitConfig(a.access, a.choice.git))
    <3> DEFINE S == SUBSET RewriteRule
               G == GitConfig(a.access, a.choice.git)
               s == a.caller.layers
    <3>1. G \in S /\ machineRules \in S /\ s \in Seq(S)
      BY <2>1, <2>2
    <3> HIDE DEF S, G, s, a
    <3>2. <<machineRules>> \o Append(s, G) = Append(<<machineRules>> \o s, G)
      BY <3>1, LayersOf
    <3> QED
      BY <3>2 DEF G, s
  <2> QED
    BY <2>3, <2>4 DEF RewritesBefore
<1> QED
  BY <1>1, <1>2, <1>3, <1>4, <1>5

LEMMA RunsThroughHolds == ASSUME AInv PROVE RunsThrough
<1> SUFFICES ASSUME NEW c \in AccessCall, RunsAccess(c), accessCall[c].choice.git # 0, Undisturbed(c),
                    NEW form \in FormsOf(accessCall[c].access), NEW git \in BOOLEAN, NEW push \in BOOLEAN
             PROVE  /\ Under(c, Url(form, "web", git), push).form = Target(GitAccess(c))
                    /\ Credential(accessCall[c].env, Under(c, Url(form, "web", git), push)) = CredentialOf(GitAccess(c))
  BY DEF RunsThrough
<1> DEFINE a == accessCall[c]
           e == GitAccess(c)
           u == Under(c, Url(form, "web", git), push)
<1>1. /\ a.access \in Sound /\ a.choice.git \in DOMAIN a.access /\ e = a.access[a.choice.git] /\ e \in Accesses
      /\ a.env = ChildEnv(a.caller, a.access, a.choice, a.token)
      /\ a.choice.api # 0 => a.token = a.access[a.choice.api].id
      /\ e.type \in {"token", "gh"} => a.choice.api = a.choice.git
      /\ <<machineRules>> \o a.env.layers = Append(RewritesBefore(c), GitConfig(a.access, a.choice.git))
  BY RunningIs
<1>2. u.form = Target(e) /\ u.repo = "web"
  <2>1. RewritesBefore(c) \in Layers
    BY CallTyped DEF AInv
  <2>2. \A n \in DOMAIN RewritesBefore(c) : \A r \in RewritesBefore(c)[n] : r.extent = 0 \/ r.to = Target(a.access[a.choice.git])
    BY <1>1 DEF Undisturbed
  <2>3. u = Rewritten(Append(RewritesBefore(c), GitConfig(a.access, a.choice.git)), Url(form, "web", git), push)
    BY <1>1 DEF Under
  <2> HIDE DEF u
  <2> QED
    BY <1>1, <2>1, <2>2, <2>3, LandsAtTarget
<1>3. /\ a.env.helper = IF e.type = "ssh" THEN a.caller.helper ELSE IF e.type = "public" THEN "none" ELSE "own"
      /\ a.env.ssh = IF e.type = "ssh" /\ e.keys = {"key"} THEN e.id ELSE a.caller.ssh
      /\ a.env.token = IF a.choice.api = 0 THEN "none" ELSE a.token
  <2> DEFINE given == ChildEnv(a.caller, a.access, a.choice, a.token)
  <2>1. a.env.helper = given.helper /\ a.env.ssh = given.ssh /\ a.env.token = given.token
    BY <1>1
  <2>2. /\ given.helper = IF e.type = "ssh" THEN a.caller.helper ELSE IF e.type = "public" THEN "none" ELSE "own"
        /\ given.ssh = IF e.type = "ssh" /\ e.keys = {"key"} THEN e.id ELSE a.caller.ssh
        /\ given.token = IF a.choice.api = 0 THEN "none" ELSE a.token
    BY <1>1 DEF ChildEnv
  <2> HIDE DEF given
  <2> QED BY <2>1, <2>2
<1>4. e.keys = {"host"} => a.caller.ssh = "machine"
  BY DEF Undisturbed
<1> HIDE DEF u, a, e
<1>5. ASSUME e.type \in {"gh", "token"} PROVE Credential(a.env, u) = CredentialOf(e)
  BY <1>1, <1>3, <1>5, <1>2, AccessesAre DEF a, Target, CredentialOf, Credential
<1>6. ASSUME e.type = "public" PROVE Credential(a.env, u) = CredentialOf(e)
  BY <1>1, <1>2, <1>3, <1>6, AccessesAre DEF Target, CredentialOf, Credential
<1>7. ASSUME e.type = "ssh" /\ e.keys = {"key"} PROVE Credential(a.env, u) = CredentialOf(e)
  BY <1>1, <1>2, <1>3, <1>7, AccessesAre DEF Target, CredentialOf, Credential
<1>8. ASSUME e.type = "ssh" /\ e.keys # {"key"} PROVE Credential(a.env, u) = CredentialOf(e)
  BY <1>1, <1>2, <1>3, <1>4, <1>8, AccessesAre DEF Target, Credential, CredentialOf, AliasForm
<1>9. Credential(a.env, u) = CredentialOf(e)
  BY <1>1, <1>5, <1>6, <1>7, <1>8, AccessesAre
<1> QED
  BY <1>2, <1>9 DEF u, a, e

LEMMA OthersUntouchedHolds == ASSUME AInv PROVE OthersUntouched
<1> SUFFICES ASSUME NEW c \in AccessCall, RunsAccess(c), NEW form \in {"https", "scp", "ssh", "work"},
                    NEW git \in BOOLEAN, NEW push \in BOOLEAN
             PROVE  LET url == Url(form, "docs", git) IN
                    /\ Under(c, url, push) = Rewritten(RewritesBefore(c), url, push)
                    /\ \/ Credential(accessCall[c].env, Under(c, url, push)) = Credential(accessCall[c].caller, Under(c, url, push))
                       \/ accessCall[c].choice.git # 0 /\ GitAccess(c).keys = {"key"}
  BY DEF OthersUntouched
<1> DEFINE a == accessCall[c]
           url == Url(form, "docs", git)
           u == Under(c, url, push)
<1>1. RewritesBefore(c) \in Layers
  BY CallTyped DEF AInv
<1>2. a.choice.git \in 0..3 /\ a.env = ChildEnv(a.caller, a.access, a.choice, a.token) /\ a.access \in Sound
  BY RunningIs
<1>3. u = Rewritten(RewritesBefore(c), url, push)
  <2>1. CASE a.choice.git = 0
    BY <2>1, RunningIs DEF Under, RewritesBefore
  <2>2. CASE a.choice.git # 0
    <3>1. <<machineRules>> \o a.env.layers = Append(RewritesBefore(c), GitConfig(a.access, a.choice.git))
             /\ a.choice.git \in DOMAIN a.access
      BY <2>2, RunningIs
    <3>2. u = Rewritten(Append(RewritesBefore(c), GitConfig(a.access, a.choice.git)), url, push)
      BY <3>1 DEF Under
    <3> HIDE DEF u
    <3> QED
      BY <1>1, <1>2, <3>1, <3>2, OthersAsBefore
  <2> QED
    BY <2>1, <2>2
<1>4. u.repo = "docs"
  <2> HIDE DEF u
  <2> QED
    BY <1>3, RewrittenIs
<1>5. a.env.ssh = a.caller.ssh \/ (a.choice.git # 0 /\ GitAccess(c).keys = {"key"})
  <2>1. a.choice.git = 0 => a.env.ssh = a.caller.ssh
    BY <1>2 DEF ChildEnv, Public, Entry
  <2>2. a.choice.git # 0 => a.env.ssh = IF GitAccess(c).type = "ssh" /\ GitAccess(c).keys = {"key"} THEN GitAccess(c).id ELSE a.caller.ssh
    BY <1>2 DEF ChildEnv, GitAccess
  <2> QED
    BY <2>1, <2>2
<1>6. a.env.ssh = a.caller.ssh => Credential(a.env, u) = Credential(a.caller, u)
  <2> HIDE DEF u, a
  <2> QED
    BY <1>4 DEF Credential
<1> QED
  BY <1>3, <1>5, <1>6

LEMMA OneTokenHolds == ASSUME AInv PROVE OneToken
<1> SUFFICES ASSUME NEW c \in AccessCall, RunsAccess(c)
             PROVE  LET choice == accessCall[c].choice IN
                    /\ accessCall[c].env.token = IF choice.api = 0 THEN "none" ELSE accessCall[c].access[choice.api].id
                    /\ choice.git # 0 => /\ GitAccess(c).type \in {"gh", "token"} => choice.api = choice.git
                                         /\ GitAccess(c).type = "public" => ~accessCall[c].options.write
  BY DEF OneToken
<1> DEFINE a == accessCall[c]
<1>1. a.env.token = IF a.choice.api = 0 THEN "none" ELSE a.token
  <2>1. a.env = ChildEnv(a.caller, a.access, a.choice, a.token)
    BY RunningIs
  <2> QED
    BY <2>1 DEF ChildEnv
<1>2. a.choice.api # 0 => a.token = a.access[a.choice.api].id
  BY RunningIs
<1>3. a.choice.git # 0 => /\ GitAccess(c).type \in {"token", "gh"} => a.choice.api = a.choice.git
                          /\ Admitted(GitAccess(c), a.states[a.choice.git], a.options)
  BY RunningIs
<1>4. a.choice.git # 0 => (GitAccess(c).type = "public" => ~a.options.write)
  BY <1>3 DEF Admitted
<1> QED
  BY <1>1, <1>2, <1>3, <1>4

\* What a run through the access chosen reads, a test has found.
LEMMA TestHonestHolds == ASSUME AInv, RunsThrough PROVE TestHonest
<1> SUFFICES ASSUME NEW c \in AccessCall, TestedOver(c)
             PROVE  /\ \A i \in DOMAIN accessCall[c].results :
                         LET e == accessCall[c].access[i] IN
                         /\ accessCall[c].results[i].result = "ok" =>
                              /\ accessCall[c].states[i] = "available" /\ accessCall[c].results[i].identity = CredentialOf(e)
                              /\ e.type \in {"gh", "token"} \/ Straight(c, e) => ReadsRepo(CredentialOf(e))
                         /\ accessCall[c].results[i].write = "yes" => accessGrants[CredentialOf(e)] = "write"
                    /\ accessCall[c].ok = (\A i \in DOMAIN accessCall[c].results : accessCall[c].results[i].result # "failed")
                    /\ \A r \in AccessCall :
                         /\ RunsAccess(r) /\ accessCall[r].options = Plain
                         /\ accessCall[r].access = accessCall[c].access /\ accessCall[r].states = accessCall[c].states
                         /\ SelectedOK(c).read.git = "yes" /\ Undisturbed(r) /\ Straight(c, GitAccess(r))
                         => \A form \in FormsOf(accessCall[r].access), git \in BOOLEAN :
                              ReadsRepo(Credential(accessCall[r].env, Under(r, Url(form, "web", git), FALSE)))
  BY DEF TestHonest
<1>1. TestSound(c) /\ accessCall[c].step = "done" /\ accessCall[c].results # <<>> /\ IsTest(c)
  BY DEF AInv, TestedOver, IsTest
<1>2. \A i \in DOMAIN accessCall[c].results : ResultTrue(c, i)
  BY <1>1 DEF TestSound
<1>3. accessCall[c].ok = (\A i \in DOMAIN accessCall[c].results : accessCall[c].results[i].result # "failed")
  BY <1>1 DEF TestSound
<1>4. ASSUME NEW r \in AccessCall,
             RunsAccess(r), accessCall[r].options = Plain,
             accessCall[r].access = accessCall[c].access, accessCall[r].states = accessCall[c].states,
             SelectedOK(c).read.git = "yes", Undisturbed(r), Straight(c, GitAccess(r)),
             NEW form \in FormsOf(accessCall[r].access), NEW git \in BOOLEAN
      PROVE  ReadsRepo(Credential(accessCall[r].env, Under(r, Url(form, "web", git), FALSE)))
  <2> DEFINE i == accessCall[r].choice.git
  <2>1. /\ accessCall[r].choice = Choose(accessCall[c].access, accessCall[c].states, Plain) /\ accessCall[r].access \in Sound
        /\ i \in 0..3 /\ (i # 0 => i \in DOMAIN accessCall[c].access /\ GitAccess(r) = accessCall[c].access[i])
    BY <1>4, RunningIs
  <2>2. Select(accessCall[c].access, accessCall[c].states).read.git = i
    BY <2>1 DEF Select
  <2>3. i # 0 /\ accessCall[c].results[i].result = "ok"
    BY <2>2, <1>4 DEF SelectedOK
  <2>4. i \in DOMAIN accessCall[c].results
    BY <1>1, <1>4, <2>1, CallTyped, <2>3, SoundFile DEF TestSound, AInv
  <2>5. ReadsRepo(CredentialOf(GitAccess(r)))
    BY <1>2, <1>4, <2>1, <2>3, <2>4 DEF ResultTrue
  <2>6. Credential(accessCall[r].env, Under(r, Url(form, "web", git), FALSE)) = CredentialOf(GitAccess(r))
    BY <1>4, <2>3 DEF RunsThrough
  <2> QED
    BY <2>5, <2>6
<1> QED
  BY <1>2, <1>3, <1>4 DEF ResultTrue

LEMMA GithubKeptHolds == ASSUME AInv PROVE GithubKept
<1>1. RunsThrough /\ OthersUntouched /\ OneToken
  BY RunsThroughHolds, OthersUntouchedHolds, OneTokenHolds
<1>2. TestHonest
  BY <1>1, TestHonestHolds
<1>3. RowsTrue
  BY DEF AInv, PageSound
<1>4. InitKeeps
  <2>1. accessChanges \in Nat /\ ~fileLost
    <3>1. AccessTypeOK /\ InitSound
      BY DEF AInv, AccessTypes
    <3>2. accessChanges \in 0..MaxAccessChanges
      BY <3>1 DEF AccessTypeOK
    <3>3. ~fileLost
      BY <3>1 DEF InitSound
    <3> QED
      BY <3>2, <3>3, AccessAssumption
  <2>2. ASSUME NEW c \in AccessCall, NEW d \in AccessCall, accessCall[c].created, accessCall[d].created, c # d
        PROVE  accessChanges > 0
    <3>1. accessChanges # 0
      BY <2>2 DEF AInv, InitSound
    <3> QED
      BY <2>1, <3>1
  <2> QED
    BY <2>1, <2>2 DEF InitKeeps
<1> QED
  BY <1>1, <1>2, <1>3, <1>4 DEF GithubKept

(***************************************************************************)
(* Steps of one call.                                                      *)
(***************************************************************************)
LEMMA SameLoad == ASSUME accessFile' = accessFile PROVE LoadAccess' = LoadAccess
<1> DEFINE P == IF accessFile.kind = "file"
                THEN UNION {EntryProblems(accessFile.content[i]) : i \in DOMAIN accessFile.content}
                ELSE IF accessFile.kind = "none" THEN {} ELSE {"file"}
<1>1. P' = P
  OBVIOUS
<1>2. LoadAccess = [present |-> accessFile.kind # "none", problems |-> P,
                    access |-> IF P = {} THEN accessFile.content ELSE <<>>]
  BY DEF LoadAccess
<1>3. LoadAccess' = [present |-> accessFile'.kind # "none", problems |-> P',
                     access |-> IF P' = {} THEN accessFile'.content ELSE <<>>]
  BY DEF LoadAccess
<1> HIDE DEF P
<1> QED
  BY <1>1, <1>2, <1>3

LEMMA SameCall ==
  ASSUME NEW d, accessCall'[d] = accessCall[d], accessGrants' = accessGrants, machineRules' = machineRules,
         RunSound(d), TestSound(d)
  PROVE  RunSound(d)' /\ TestSound(d)'
<1>1. RunSound(d)'
  BY DEF RunSound
<1>2. IsTest(d)' = IsTest(d)
  BY DEF IsTest
<1>3. ASSUME NEW i PROVE ResultTrue(d, i)' = ResultTrue(d, i)
  BY DEF Straight, RewritesBefore, ReadsRepo, ResultTrue
<1>4. TestSound(d)'
  BY <1>2, <1>3 DEF TestSound
<1> QED
  BY <1>1, <1>4

LEMMA LoadableIs == Loadable \subseteq Contents /\ <<>> \in Loadable
BY DEF Loadable, Contents

LEMMA TypedAgain ==
  ASSUME AccessTypes, NEW c \in AccessCall,
         UNCHANGED <<accessFile, held, accessGrants, machineRules, accessPage, fileLost>>,
         accessChanges' \in 0..MaxAccessChanges,
         accessCall' \in [AccessCall -> AccessCallType],
         \A d \in AccessCall : TestSound(d)'
  PROVE  AccessTypes'
  BY LoadableIs DEF AccessCallType, TestSound, AccessTypes, AccessTypeOK, AccessOps, AccessSteps

LEMMA CallStepSound ==
  ASSUME AInv, NEW c \in AccessCall,
         UNCHANGED <<accessFile, held, accessGrants, machineRules, accessPage, fileLost>>,
         accessChanges' \in 0..MaxAccessChanges, accessChanges' # 0 \/ accessChanges' = accessChanges,
         accessCall[c].step \notin {"idle", "done"},
         \A d \in AccessCall : d # c => accessCall'[d] = accessCall[d],
         accessCall' = [d \in AccessCall |-> accessCall'[d]],
         accessCall'[c] \in AccessCallType,
         accessCall'[c].op = accessCall[c].op,
         accessCall'[c].step \in {"look", "open", "write"} => accessCall[c].op = "init",
         accessCall'[c].step = "write" => accessCall[c].step = "write",
         accessCall'[c].step \in {"load", "judge"} => accessCall[c].op = "run" \/ IsTest(c),
         accessCall'[c].created = FALSE,
         accessCall[c].op = "page test" =>
           accessCall'[c].access \in {<<>>, accessCall[c].access, LoadAccess.access},
         RunSound(c)', TestSound(c)'
  PROVE  AInv'
<1>1. \A d \in AccessCall : RunSound(d)' /\ TestSound(d)'
  BY SameCall DEF AInv
<1>2. accessCall' \in [AccessCall -> AccessCallType]
  BY CallTyped DEF AInv
<1>3. AccessTypes'
  BY <1>1, <1>2, TypedAgain DEF AInv
<1>4. PageSound'
  BY SameLoad DEF RowsTrue, AInv, PageSound
<1>5. InitSound'
  <2>1. ASSUME NEW d \in AccessCall
        PROVE  /\ accessCall'[d].step \in {"look", "open", "write"} => accessCall'[d].op = "init"
               /\ accessCall'[d].step \in {"load", "judge"} => accessCall'[d].op = "run" \/ IsTest(d)'
               /\ accessCall'[d].step = "write" => accessFile.maker = d /\ accessFile.kind = "file"
               /\ accessCall'[d].created => accessCall'[d].step = "done" /\ accessCall'[d].op = "init"
               /\ accessCall'[d].created /\ accessChanges' = 0 => accessFile.maker = d /\ accessFile.kind = "file"
    BY DEF AInv, InitSound, IsTest
  <2>2. (accessFile.kind = "none" => accessFile.maker = "nobody") /\ ~fileLost
    BY DEF AInv, InitSound
  <2> QED
    BY <2>1, <2>2 DEF InitSound
<1> QED
  BY <1>1, <1>3, <1>4, <1>5 DEF AInv

LEMMA IdleTyped ==
  /\ Idle \in AccessCallType /\ Idle.created = FALSE /\ Idle.results = <<>> /\ Idle.access = <<>>
  /\ Clean \in EnvType /\ \A env \in Callers : env \in EnvType
<1>1. /\ <<>> \in Seq(SUBSET RewriteRule) /\ <<>> \in Seq(AccessState) /\ <<>> \in Seq(TestResult)
  OBVIOUS
<1>2. Rule("https", 0, "scp", FALSE) \in RewriteRule
  BY DEF Rule, RewriteRule, UrlForm
<1>3. <<{Rule("https", 0, "scp", FALSE)}>> \in Seq(SUBSET RewriteRule)
  <2> DEFINE S == SUBSET RewriteRule
             G == {Rule("https", 0, "scp", FALSE)}
  <2>1. G \in S
    BY <1>2
  <2> HIDE DEF S, G
  <2>2. <<G>> \in Seq(S)
    BY <2>1
  <2> QED
    BY <2>2 DEF S, G
<1>4. Clean \in EnvType /\ \A env \in Callers : env \in EnvType
  <2>1. ASSUME NEW L \in Seq(SUBSET RewriteRule), NEW token \in {"none", "stray"}
        PROVE  Environment(L, "machine", "machine", token) \in EnvType
    BY DEF Environment, EnvType, AccessIds, TokenType
  <2> QED
    BY <1>1, <1>3, <2>1 DEF Clean, Callers
<1>5. Plain \in Options /\ NoChoice \in [git : 0..3, api : 0..3] /\ <<>> \in Loadable
  BY DEF Options, NoChoice, Loadable
<1> QED
  BY <1>1, <1>4, <1>5 DEF Idle, AccessCallType, AccessOps, AccessSteps, TokenType

\* A run that ends keeps nothing.
LEMMA EndsSound ==
  ASSUME AInv, NEW c \in AccessCall, Ends(c),
         UNCHANGED <<accessFile, held, accessGrants, machineRules, accessPage, accessChanges, fileLost>>,
         accessCall[c].step \notin {"idle", "done"}, accessCall[c].op = "run"
  PROVE  AInv'
<1> DEFINE over == [Idle EXCEPT !.op = "run", !.step = "done"]
<1>1. accessCall \in [AccessCall -> AccessCallType]
  BY DEF AInv, AccessTypes
<1>2. accessCall' = [accessCall EXCEPT ![c] = over]
  BY DEF Ends
<1>3. accessCall'[c] = over /\ accessCall' = [d \in AccessCall |-> accessCall'[d]]
      /\ \A d \in AccessCall : d # c => accessCall'[d] = accessCall[d]
  <2> HIDE DEF over
  <2> QED
    BY <1>1, <1>2
<1>4. over \in AccessCallType
  BY IdleTyped DEF AccessCallType, AccessOps, AccessSteps
<1>5. /\ over.op = "run" /\ over.step = "done" /\ over.created = FALSE /\ over.results = <<>> /\ over.access = <<>>
  BY IdleTyped DEF Idle
<1> HIDE DEF over
<1>6. RunSound(c)'
  BY <1>3, <1>5 DEF RunSound
<1>7. TestSound(c)'
  BY <1>3, <1>5 DEF TestSound
<1>8. accessChanges \in 0..MaxAccessChanges
  BY DEF AInv, AccessTypes, AccessTypeOK
<1> QED
  BY <1>3, <1>4, <1>5, <1>6, <1>7, <1>8, CallStepSound

\* Only a sound content names accesses.
LEMMA LoadedIs == ASSUME AccessTypes
                  PROVE  /\ LoadAccess.access \in Loadable
                         /\ LoadAccess.access # <<>> => accessFile.kind = "file" /\ LoadAccess.problems = {}
                                                        /\ LoadAccess.access = accessFile.content
<1> DEFINE content == accessFile.content
           problems == IF accessFile.kind = "file" THEN UNION {EntryProblems(content[i]) : i \in DOMAIN content}
                       ELSE IF accessFile.kind = "none" THEN {} ELSE {"file"}
<1>1. LoadAccess = [present |-> accessFile.kind # "none", problems |-> problems,
                    access |-> IF problems = {} THEN content ELSE <<>>]
  BY DEF LoadAccess
<1>2. content \in Contents /\ accessFile.kind \in {"none", "dead link", "directory", "file"}
  BY DEF AccessTypes
<1>3. ASSUME NEW e \in Faulty PROVE EntryProblems(e) # {}
  <2> DEFINE P == {p \in {"key", "missing", "both", "path", "disabled"} :
          CASE p = "key" -> ~(e.keys \subseteq AccessKeys[e.type])
            [] p = "missing" -> AccessKeys[e.type] # {} /\ e.keys \cap AccessKeys[e.type] = {}
            [] p = "both" -> e.type = "ssh" /\ {"key", "host"} \subseteq e.keys
            [] p = "path" -> e.keys \cap {"file", "key"} # {} /\ e.path = "relative"
            [] OTHER -> e.disabled \notin {"true", "false"}}
  <2>1. EntryProblems(e) = IF e.type \notin DOMAIN AccessKeys THEN {"type"} ELSE P
    BY DEF EntryProblems
  <2>2. CASE e = Entry("app", "login", "alice")
    BY <2>1, <2>2 DEF Entry, AccessKeys
  <2>3. CASE e = Entry("gh", "host", "work")
    BY <2>3, <2>1 DEF Entry, AccessKeys
  <2>4. CASE e = Entry("token", "none", "T")
    BY <2>4, <2>1 DEF Entry, AccessKeys
  <2>5. CASE e = [SshKey EXCEPT !.keys = {"key", "host"}]
    BY <2>5, <2>1 DEF Entry, SshKey
  <2>6. CASE e = [Token EXCEPT !.path = "relative"]
    BY <2>6, <2>1 DEF Entry, Token
  <2>7. CASE e = [Gh EXCEPT !.disabled = "maybe"]
    BY <2>7, <2>1 DEF Entry, Gh
  <2> QED
    BY <1>3, <2>2, <2>3, <2>4, <2>5, <2>6, <2>7 DEF Faulty
<1>4. content \in Loadable \/ \E e \in Faulty : content = <<e, Gh>>
  BY <1>2 DEF Contents, Loadable
<1>5. ASSUME NEW e \in Faulty, content = <<e, Gh>> PROVE accessFile.kind = "file" => problems # {}
  BY <1>5, <1>3
<1>6. accessFile.kind = "none" => content = <<>>
  BY DEF AccessTypes
<1>7. <<>> \in Loadable
  BY DEF Loadable
<1> HIDE DEF content, problems
<1> QED
  BY <1>1, <1>4, <1>5, <1>6, <1>7 DEF problems, content

LEMMA SetCall ==
  ASSUME AccessTypes, NEW c \in AccessCall, NEW r, accessCall' = [accessCall EXCEPT ![c] = r]
  PROVE  /\ accessCall'[c] = r /\ accessCall' = [d \in AccessCall |-> accessCall'[d]]
         /\ \A d \in AccessCall : d # c => accessCall'[d] = accessCall[d]
BY DEF AccessTypes

\* A step of a call that changes nothing but the call.
LEMMA OnlyCallSound ==
  ASSUME AInv, NEW c \in AccessCall, OnlyCalls, accessCall[c].step \notin {"idle", "done"}, NEW r \in AccessCallType,
         accessCall' = [accessCall EXCEPT ![c] = r],
         r.op = accessCall[c].op, r.created = FALSE,
         r.step \in {"look", "open", "write"} => accessCall[c].op = "init" /\ r.step # "write",
         r.step \in {"load", "judge"} => accessCall[c].op = "run" \/ IsTest(c),
         accessCall[c].op = "page test" => r.access \in {<<>>, accessCall[c].access, LoadAccess.access},
         RunSound(c)', TestSound(c)'
  PROVE  AInv'
  BY SetCall, CallStepSound DEF AInv, OnlyCalls, AccessTypes, AccessTypeOK

\* Nobody is at work who has results or has made a file.
LEMMA AtWork ==
  ASSUME AInv, NEW c \in AccessCall, accessCall[c].step \notin {"idle", "done"}
  PROVE  /\ accessCall[c].created = FALSE
         /\ accessCall[c].step \notin {"first", "second"} => accessCall[c].results = <<>>
         /\ accessCall[c].step \in {"load", "judge"} => accessCall[c].op = "run" \/ IsTest(c)
         /\ accessCall[c].step \in {"token", "exec", "running"} => accessCall[c].op = "run"
  BY CallTyped DEF AInv, InitSound, TestSound, RunSound

\* A call without results is a sound test.
LEMMA TestBegins ==
  ASSUME NEW c, accessCall'[c].results = <<>>, Len(accessCall'[c].access) \in Nat, accessCall'[c].step # "second",
         accessCall'[c].step = "first" => /\ IsTest(c)' /\ accessCall'[c].access \in Sound /\ accessCall'[c].at = 1
                                          /\ accessCall'[c].ok = TRUE,
         accessCall'[c].step = "judge" => accessCall'[c].access # <<>> /\ accessCall'[c].ok
  PROVE  TestSound(c)'
<1>1. Len(<<>>) = 0 /\ DOMAIN <<>> = {}
  OBVIOUS
<1>2. Len(accessCall'[c].results) = 0 /\ DOMAIN accessCall'[c].results = {}
  BY <1>1
<1>3. Len(accessCall'[c].results) <= Len(accessCall'[c].access)
  BY <1>2
<1>4. accessCall'[c].step = "first" => 1 <= Len(accessCall'[c].access)
  BY SoundFile
<1>5. accessCall'[c].step = "first" =>
        accessCall'[c].ok = (\A i \in DOMAIN accessCall'[c].results : accessCall'[c].results[i].result # "failed")
  BY <1>2
<1>6. accessCall'[c].step = "first" => accessCall'[c].at = Len(accessCall'[c].results) + 1
                                       /\ accessCall'[c].at <= Len(accessCall'[c].access)
  BY <1>2, <1>4
<1> QED
  BY <1>2, <1>3, <1>5, <1>6 DEF TestSound

LEMMA LoadFileSound == ASSUME AInv, NEW c \in AccessCall, LoadFile(c) PROVE AInv'
<1> DEFINE loaded == LoadAccess
           none == loaded.problems # {} \/ loaded.access = <<>>
           sound == loaded.problems = {}
           step == IF none THEN "done" ELSE "judge"
           r == [accessCall[c] EXCEPT !.access = loaded.access, !.ok = sound, !.step = step]
<1>1. accessCall[c].step = "load" /\ OnlyCalls /\ (accessCall[c].op = "run" \/ IsTest(c))
      /\ accessCall[c].created = FALSE /\ accessCall[c].results = <<>>
  BY AtWork DEF LoadFile
<1>2. CASE none /\ accessCall[c].op = "run"
  <2>1. Ends(c)
    BY <1>2 DEF LoadFile
  <2> QED
    BY <1>1, <1>2, <2>1, EndsSound DEF OnlyCalls
<1>3. CASE ~(none /\ accessCall[c].op = "run")
  <2>1. accessCall' = [accessCall EXCEPT ![c] = r]
    <3>1. accessCall' = [accessCall EXCEPT ![c].access = loaded.access, ![c].ok = loaded.problems = {},
                                  ![c].step = IF none THEN "done" ELSE "judge"]
      BY <1>3 DEF LoadFile
    <3>2. accessCall \in [AccessCall -> AccessCallType]
      BY DEF AInv, AccessTypes
    <3> HIDE DEF loaded, none
    <3> QED
      BY <3>1, <3>2 DEF AccessCallType
  <2>2. loaded.access \in Loadable /\ (loaded.access # <<>> => loaded.problems = {})
    BY LoadedIs DEF AInv
  <2>3. sound \in BOOLEAN /\ step \in {"done", "judge"} /\ (step = "judge" => loaded.access # <<>> /\ sound)
    OBVIOUS
  <2> HIDE DEF step, sound
  <2>4. accessCall[c] \in AccessCallType
    BY CallTyped DEF AInv
  <2>5. r \in AccessCallType
    BY <2>2, <2>3, <2>4 DEF AccessCallType, AccessSteps
  <2>6. r.op = accessCall[c].op /\ r.created = FALSE /\ r.step = step /\ r.access = loaded.access /\ r.results = <<>>
        /\ (sound => r.ok)
    BY <1>1, <2>4 DEF AccessCallType
  <2> HIDE DEF r
  <2>7. accessCall'[c] = r
    BY <2>1, SetCall DEF AInv
  <2>8. RunSound(c)'
    BY <2>3, <2>6, <2>7 DEF RunSound
  <2>9. TestSound(c)'
    <3>1. Len(<<>>) = 0 /\ DOMAIN <<>> = {} /\ loaded.access \in Seq(Accesses) \cup {<<>>}
      BY <2>2, SoundFile DEF Loadable
    <3> HIDE DEF loaded
    <3>2. Len(r.access) \in Nat
      BY <2>6, <3>1
    <3> QED
      BY <2>3, <2>6, <2>7, <3>2, TestBegins
  <2> QED
    BY <1>1, <2>1, <2>3, <2>5, <2>6, <2>8, <2>9, OnlyCallSound
<1> QED
  BY <1>2, <1>3

LEMMA JudgeIs == ASSUME NEW access \in Loadable PROVE Judge(access) \in Seq(AccessState)
<1>1. \A i \in DOMAIN access : Judge(access)[i] \in AccessState
  BY DEF Judge, AccessState
<1>2. DOMAIN access = 1..Len(access) /\ Len(access) \in Nat
  BY SoundFile DEF Loadable
<1> DEFINE n == Len(access)
           J == Judge(access)
<1>3. J = [i \in 1..n |-> J[i]] /\ n \in Nat
  BY <1>2 DEF Judge
<1>4. \A i \in 1..n : J[i] \in AccessState
  BY <1>1, <1>2
<1> HIDE DEF J, n
<1>5. J \in Seq(AccessState)
  BY <1>3, <1>4
<1> QED
  BY <1>5 DEF J

LEMMA ChoiceTyped ==
  ASSUME NEW access \in Sound, NEW states, NEW options
  PROVE  Choose(access, states, options) \in [git : 0..3, api : 0..3]
<1> DEFINE ch == Choose(access, states, options)
<1>1. ch = [git |-> ch.git, api |-> ch.api] /\ ch.git \in 0..3 /\ ch.api \in 0..3
  BY ChosenPlace
<1> HIDE DEF ch
<1>2. ch \in [git : 0..3, api : 0..3]
  BY <1>1
<1> QED
  BY <1>2 DEF ch

LEMMA JudgeSound == ASSUME AInv, NEW c \in AccessCall, JudgeAndChoose(c) PROVE AInv'
<1> DEFINE a == accessCall[c]
           states == Judge(a.access)
           choice == Choose(a.access, states, a.options)
           step == IF a.op # "run" THEN "first" ELSE IF choice.api # 0 THEN "token" ELSE "exec"
           r == [a EXCEPT !.states = states, !.choice = choice, !.at = 1, !.step = step]
<1>1. a.step = "judge" /\ OnlyCalls /\ (a.op = "run" \/ IsTest(c)) /\ a.created = FALSE /\ a.results = <<>>
      /\ a.access # <<>> /\ a.ok
  BY AtWork DEF JudgeAndChoose, AInv, TestSound
<1>2. CASE a.op = "run" /\ choice = NoChoice
  <2>1. Ends(c)
    BY <1>2 DEF JudgeAndChoose
  <2> QED
    BY <1>1, <1>2, <2>1, EndsSound DEF OnlyCalls
<1>3. CASE ~(a.op = "run" /\ choice = NoChoice)
  <2>1. accessCall' = [accessCall EXCEPT ![c] = r]
    <3>1. accessCall' = [accessCall EXCEPT ![c].states = states, ![c].choice = choice, ![c].at = 1, ![c].step = step]
      BY <1>3 DEF JudgeAndChoose
    <3>2. accessCall \in [AccessCall -> AccessCallType]
      BY DEF AInv, AccessTypes
    <3> HIDE DEF states, choice, step
    <3> QED
      BY <3>1, <3>2 DEF AccessCallType
  <2>2. a \in AccessCallType /\ a.access \in Sound
    BY <1>1, CallTyped DEF AInv, Loadable
  <2>3. states \in Seq(AccessState) /\ choice \in [git : 0..3, api : 0..3]
    BY <2>2, JudgeIs, ChoiceTyped DEF Loadable
  <2>4. choice = Choose(a.access, states, a.options)
    OBVIOUS
  <2>5. step \in {"first", "token", "exec"} /\ (step = "first" <=> a.op # "run") /\ (step = "exec" => choice.api = 0) /\ (step = "token" => choice.api # 0)
    OBVIOUS
  <2> HIDE DEF step, states, choice
  <2>6. r \in AccessCallType
    BY <2>2, <2>3, <2>5 DEF AccessCallType, AccessSteps
  <2>7. r.op = a.op /\ r.created = FALSE /\ r.step = step /\ r.access = a.access /\ r.results = <<>> /\ r.ok
        /\ r.states = states /\ r.choice = choice /\ r.at = 1 /\ r.options = a.options
    BY <1>1, <2>2 DEF AccessCallType
  <2> HIDE DEF r, a
  <2>8. accessCall'[c] = r
    BY <2>1, SetCall DEF AInv
  <2>9. RunSound(c)'
    BY <2>2, <2>4, <2>5, <2>7, <2>8 DEF RunSound
  <2>10. TestSound(c)'
    <3>1. Len(<<>>) = 0 /\ DOMAIN <<>> = {} /\ Len(a.access) \in 1..3
      BY <2>2, SoundFile
    <3>2. IsTest(c)' <=> IsTest(c)
      BY <2>7, <2>8 DEF IsTest, a
    <3>3. step = "first" => IsTest(c)
      BY <1>1, <2>5
    <3>4. r.ok = TRUE
      BY <2>6, <2>7 DEF AccessCallType
    <3>5. /\ accessCall'[c].results = <<>> /\ Len(accessCall'[c].access) \in Nat /\ accessCall'[c].step # "second"
          /\ accessCall'[c].step # "judge"
      BY <2>5, <2>7, <2>8, <3>1
    <3>6. accessCall'[c].step = "first" => /\ IsTest(c)' /\ accessCall'[c].access \in Sound /\ accessCall'[c].at = 1
                                           /\ accessCall'[c].ok = TRUE
      BY <2>2, <2>7, <2>8, <3>2, <3>3, <3>4
    <3> QED
      BY <3>5, <3>6, TestBegins
  <2>11. r.step \notin {"look", "open", "write", "load", "judge"} /\ r.access = accessCall[c].access
         /\ accessCall[c].step \notin {"idle", "done"} /\ r.op = accessCall[c].op
    BY <1>1, <2>5, <2>7 DEF a
  <2> QED
    BY <1>1, <2>1, <2>6, <2>7, <2>9, <2>10, <2>11, OnlyCallSound
<1> QED
  BY <1>2, <1>3

LEMMA ReadTokenSound == ASSUME AInv, NEW c \in AccessCall, ReadToken(c) PROVE AInv'
<1> DEFINE a == accessCall[c]
           e == a.access[a.choice.api]
           r == [a EXCEPT !.token = e.id, !.step = "exec"]
<1>1. a.step = "token" /\ OnlyCalls /\ a.op = "run" /\ a.created = FALSE /\ a.results = <<>>
  BY AtWork DEF ReadToken
<1>2. a.access \in Sound /\ a.choice = Choose(a.access, a.states, a.options) /\ a \in AccessCallType
  BY <1>1, CallTyped DEF AInv, RunSound
<1>3. CASE held[e.id] = "gone"
  <2>1. Ends(c)
    BY <1>3 DEF ReadToken
  <2> QED
    BY <1>1, <2>1, EndsSound DEF OnlyCalls
<1>4. CASE held[e.id] # "gone"
  <2>1. accessCall' = [accessCall EXCEPT ![c] = r]
    <3>1. accessCall' = [accessCall EXCEPT ![c].token = e.id, ![c].step = "exec"]
      BY <1>4 DEF ReadToken, TokenOf
    <3>2. accessCall \in [AccessCall -> AccessCallType]
      BY DEF AInv, AccessTypes
    <3> HIDE DEF e
    <3> QED
      BY <3>1, <3>2 DEF AccessCallType
  <2>2. a.choice.api # 0 => e \in Accesses
    BY <1>2, ChosenPlace, SoundFile
  <2>3. a.choice.api # 0
    BY <1>1 DEF AInv, RunSound
  <2>4. e.id \in TokenType
    BY <2>2, <2>3, AccessesAre DEF TokenType
  <2>5. e.id = a.access[a.choice.api].id
    OBVIOUS
  <2> HIDE DEF e
  <2>6. r \in AccessCallType
    BY <1>2, <2>4 DEF AccessCallType, AccessSteps
  <2>7. r.op = a.op /\ r.created = FALSE /\ r.step = "exec" /\ r.access = a.access /\ r.results = <<>>
        /\ r.states = a.states /\ r.choice = a.choice /\ r.options = a.options /\ r.token = e.id
    BY <1>1, <1>2 DEF AccessCallType
  <2> HIDE DEF r, a
  <2>8. accessCall'[c] = r
    BY <2>1, SetCall DEF AInv
  <2>9. RunSound(c)'
    BY <1>1, <1>2, <2>5, <2>7, <2>8 DEF RunSound
  <2>10. TestSound(c)'
    <3>1. /\ accessCall'[c].results = <<>> /\ Len(accessCall'[c].access) \in Nat
          /\ accessCall'[c].step \notin {"first", "second", "judge"}
      BY <1>2, <2>7, <2>8, SoundFile
    <3> QED
      BY <3>1, TestBegins
  <2>11. r.step \notin {"look", "open", "write", "load", "judge"} /\ r.access = accessCall[c].access
         /\ accessCall[c].step \notin {"idle", "done"} /\ r.op = accessCall[c].op
    BY <1>1, <2>7 DEF a
  <2> QED
    BY <1>1, <2>1, <2>6, <2>7, <2>9, <2>10, <2>11, OnlyCallSound
<1> QED
  BY <1>3, <1>4

LEMMA ChildEnvTyped ==
  ASSUME NEW caller \in EnvType, NEW access \in Sound, NEW states, NEW options, NEW token \in TokenType
  PROVE  ChildEnv(caller, access, Choose(access, states, options), token) \in EnvType
<1> DEFINE ch == Choose(access, states, options)
           git == IF ch.git = 0 THEN Public ELSE access[ch.git]
           layers == IF ch.git = 0 THEN caller.layers ELSE Append(caller.layers, GitConfig(access, ch.git))
           helper == IF ch.git = 0 \/ git.type = "ssh" THEN caller.helper ELSE IF git.type = "public" THEN "none" ELSE "own"
           ssh == IF git.type = "ssh" /\ git.keys = {"key"} THEN git.id ELSE caller.ssh
           given == IF ch.api = 0 THEN "none" ELSE token
<1>1. ch.git # 0 => ch.git \in DOMAIN access
  BY ChosenPlace
<1>2. caller.layers \in Layers /\ caller.helper \in {"machine", "none", "own"} /\ caller.ssh \in AccessIds \cup {"machine"}
  BY DEF EnvType, Layers
<1>3. layers \in Layers
  <2>1. ch.git # 0 => GitConfig(access, ch.git) \in SUBSET RewriteRule
    BY <1>1, ConfigIn
  <2> HIDE DEF ch
  <2> QED
    BY <1>2, <2>1, AppendedIs
<1>4. git \in Accesses
  BY <1>1, SoundFile DEF Accesses
<1>5. helper \in {"machine", "none", "own"} /\ ssh \in AccessIds \cup {"machine"} /\ given \in TokenType
  <2>1. git.id \in AccessIds
    BY <1>4, AccessesAre
  <2> HIDE DEF git, ch
  <2> QED
    BY <1>2, <2>1 DEF TokenType
<1>6. ChildEnv(caller, access, ch, token) = [layers |-> layers, helper |-> helper, ssh |-> ssh, token |-> given]
  BY DEF ChildEnv
<1> HIDE DEF layers, helper, ssh, given, ch
<1>7. ChildEnv(caller, access, ch, token) \in EnvType
  BY <1>3, <1>5, <1>6 DEF EnvType, Layers
<1> QED
  BY <1>7 DEF ch

LEMMA ExecSound == ASSUME AInv, NEW c \in AccessCall, Exec(c) PROVE AInv'
<1> DEFINE a == accessCall[c]
           env == ChildEnv(a.caller, a.access, a.choice, a.token)
           r == [a EXCEPT !.step = "running", !.env = env]
<1>1. a.step = "exec" /\ OnlyCalls /\ a.op = "run" /\ a.created = FALSE /\ a.results = <<>>
  BY AtWork DEF Exec
<1>2. a.access \in Sound /\ a.choice = Choose(a.access, a.states, a.options) /\ a \in AccessCallType
      /\ (a.choice.api # 0 => a.token = a.access[a.choice.api].id)
  BY <1>1, CallTyped DEF AInv, RunSound
<1>3. CASE Ends(c)
  BY <1>1, <1>3, EndsSound DEF OnlyCalls
<1>4. CASE accessCall' = [accessCall EXCEPT ![c].step = "running", ![c].env = env]
  <2>1. accessCall' = [accessCall EXCEPT ![c] = r]
    <3>2. accessCall \in [AccessCall -> AccessCallType]
      BY DEF AInv, AccessTypes
    <3> HIDE DEF env
    <3> QED
      BY <1>4, <3>2 DEF AccessCallType
  <2>2. a.caller \in EnvType /\ a.token \in TokenType
    BY CallTyped DEF AInv
  <2>3. env \in EnvType
    BY <1>2, <2>2, ChildEnvTyped
  <2>5. env = ChildEnv(a.caller, a.access, a.choice, a.token)
    OBVIOUS
  <2> HIDE DEF env
  <2>6. r \in AccessCallType
    BY <1>2, <2>3 DEF AccessCallType, AccessSteps
  <2>7. r.op = a.op /\ r.created = FALSE /\ r.step = "running" /\ r.access = a.access /\ r.results = <<>>
        /\ r.states = a.states /\ r.choice = a.choice /\ r.options = a.options /\ r.token = a.token /\ r.env = env
        /\ r.caller = a.caller
    BY <1>1, <1>2 DEF AccessCallType
  <2> HIDE DEF r, a
  <2>8. accessCall'[c] = r
    BY <2>1, SetCall DEF AInv
  <2>9. RunSound(c)'
    BY <1>1, <1>2, <2>5, <2>7, <2>8 DEF RunSound
  <2>10. TestSound(c)'
    <3>1. /\ accessCall'[c].results = <<>> /\ Len(accessCall'[c].access) \in Nat
          /\ accessCall'[c].step \notin {"first", "second", "judge"}
      BY <1>2, <2>7, <2>8, SoundFile
    <3> QED
      BY <3>1, TestBegins
  <2>11. r.step \notin {"look", "open", "write", "load", "judge"} /\ r.access = accessCall[c].access
         /\ accessCall[c].step \notin {"idle", "done"} /\ r.op = accessCall[c].op
    BY <1>1, <2>7 DEF a
  <2> QED
    BY <1>1, <2>1, <2>6, <2>7, <2>9, <2>10, <2>11, OnlyCallSound
<1> QED
  BY <1>3, <1>4 DEF Exec

LEMMA CommandEndsSound == ASSUME AInv, NEW c \in AccessCall, CommandEnds(c) PROVE AInv'
  BY AtWork, EndsSound DEF CommandEnds, OnlyCalls

LEMMA InitLooksSound == ASSUME AInv, NEW c \in AccessCall, InitLooks(c) PROVE AInv'
<1> DEFINE a == accessCall[c]
<1>1. a.step = "look" /\ OnlyCalls /\ a.created = FALSE /\ a.results = <<>> /\ a.op = "init"
  BY AtWork DEF InitLooks, AInv, InitSound
<1>2. a \in AccessCallType /\ accessCall \in [AccessCall -> AccessCallType]
  BY CallTyped DEF AInv, AccessTypes
<1>3. ASSUME NEW r, \/ r = [a EXCEPT !.step = "open"]
                    \/ \E ok \in BOOLEAN : r = [a EXCEPT !.step = "done", !.ok = ok],
             accessCall' = [accessCall EXCEPT ![c] = r]
      PROVE  AInv'
  <2>1. r \in AccessCallType /\ r.op = a.op /\ r.created = FALSE /\ r.results = <<>> /\ r.step \in {"open", "done"}
        /\ r.access = a.access
    BY <1>1, <1>2, <1>3 DEF AccessCallType, AccessSteps
  <2>2. accessCall'[c] = r
    BY <1>3, SetCall DEF AInv
  <2>3. Len(a.access) \in Nat
    BY CallTyped, SoundFile DEF AInv, Loadable
  <2> HIDE DEF a
  <2>4. RunSound(c)' /\ TestSound(c)'
    BY <2>1, <2>2, <2>3, TestBegins DEF RunSound
  <2>5. accessCall[c].step \notin {"idle", "done"} /\ r.op = accessCall[c].op /\ accessCall[c].op = "init"
    BY <1>1, <2>1 DEF a
  <2> QED
    BY <1>1, <1>3, <2>1, <2>4, <2>5, OnlyCallSound
<1>4. CASE accessFile.kind = "none"
  BY <1>4, <1>2, <1>3 DEF InitLooks, Steps, AccessCallType
<1>5. CASE accessFile.kind # "none"
  <2> DEFINE ok == accessFile.kind = "file"
  <2>1. accessCall' = [accessCall EXCEPT ![c].step = "done", ![c].ok = ok]
    BY <1>5 DEF InitLooks
  <2>2. ok \in BOOLEAN
    OBVIOUS
  <2> HIDE DEF ok
  <2>3. accessCall' = [accessCall EXCEPT ![c] = [a EXCEPT !.step = "done", !.ok = ok]]
    BY <1>2, <2>1 DEF AccessCallType
  <2> QED
    BY <1>3, <2>2, <2>3
<1> QED
  BY <1>4, <1>5

LEMMA AppendIs ==
  ASSUME NEW S, NEW s \in Seq(S), NEW x \in S
  PROVE  /\ Append(s, x) \in Seq(S) /\ Len(Append(s, x)) = Len(s) + 1 /\ Len(s) \in Nat
         /\ DOMAIN Append(s, x) = 1..(Len(s) + 1) /\ Append(s, x)[Len(s) + 1] = x /\ Append(s, x) # <<>>
         /\ DOMAIN s = 1..Len(s) /\ \A i \in 1..Len(s) : Append(s, x)[i] = s[i]
OBVIOUS

\* A result that is true of the access tested is added to true ones.
LEMMA AnswerSound ==
  ASSUME AInv, NEW c \in AccessCall, accessCall[c].step \in {"first", "second"},
         NEW result \in TestResult, Answer(c, result),
         UNCHANGED <<accessFile, held, accessGrants, machineRules, accessPage, fileLost>>,
         accessChanges' \in 0..MaxAccessChanges, accessChanges' # 0 \/ accessChanges' = accessChanges,
         result.identity \in {"none", CredentialOf(Tested(c))},
         result.result = "ok" =>
           /\ accessCall[c].states[accessCall[c].at] = "available" /\ result.identity = CredentialOf(Tested(c))
           /\ Tested(c).type \in {"gh", "token"} \/ Straight(c, Tested(c)) => ReadsRepo(CredentialOf(Tested(c))),
         result.write = "yes" => accessGrants[CredentialOf(Tested(c))] = "write"
  PROVE  AInv'
<1> DEFINE a == accessCall[c]
           step == IF a.at = Len(a.access) THEN "done" ELSE "first"
           ok == a.ok /\ result.result # "failed"
           more == Append(a.results, result)
           r == [a EXCEPT !.results = more, !.at = a.at + 1, !.step = step, !.ok = ok]
<1>1. /\ a.access \in Sound /\ IsTest(c) /\ a.at = Len(a.results) + 1 /\ a.at <= Len(a.access)
      /\ a.ok = (\A i \in DOMAIN a.results : a.results[i].result # "failed")
      /\ \A i \in DOMAIN a.results : ResultTrue(c, i)
      /\ a.created = FALSE
  BY AtWork DEF AInv, TestSound
<1>2. a \in AccessCallType /\ accessCall \in [AccessCall -> AccessCallType] /\ a.results \in Seq(TestResult) /\ a.at \in Nat
      /\ a.ok \in BOOLEAN
  BY CallTyped DEF AInv, AccessTypes
<1>3. accessCall' = [accessCall EXCEPT ![c] = r]
  <2>1. accessCall' = [accessCall EXCEPT ![c].results = Append(@, result), ![c].at = @ + 1, ![c].step = step, ![c].ok = @ /\ result.result # "failed"]
    BY DEF Answer
  <2> HIDE DEF step
  <2> QED
    BY <1>2, <2>1 DEF AccessCallType
<1>4. /\ more \in Seq(TestResult) /\ Len(more) = Len(a.results) + 1 /\ Len(a.results) \in Nat /\ more # <<>>
      /\ DOMAIN more = 1..(Len(a.results) + 1) /\ DOMAIN a.results = 1..Len(a.results)
      /\ more[Len(a.results) + 1] = result /\ \A i \in 1..Len(a.results) : more[i] = a.results[i]
  <2> DEFINE s == a.results
  <2>1. s \in Seq(TestResult)
    BY <1>2
  <2> HIDE DEF s
  <2>2. /\ Append(s, result) \in Seq(TestResult) /\ Len(Append(s, result)) = Len(s) + 1 /\ Len(s) \in Nat
        /\ DOMAIN Append(s, result) = 1..(Len(s) + 1) /\ Append(s, result)[Len(s) + 1] = result /\ Append(s, result) # <<>>
        /\ DOMAIN s = 1..Len(s) /\ \A i \in 1..Len(s) : Append(s, result)[i] = s[i]
    BY <2>1, AppendIs
  <2> QED
    BY <2>2 DEF s
<1>5. step \in {"done", "first"} /\ (step = "done" <=> a.at = Len(a.access)) /\ Len(a.access) \in 1..3
  BY <1>1, SoundFile
<1>6. ok \in BOOLEAN /\ (ok <=> a.ok /\ result.result # "failed")
  OBVIOUS
<1>7. \A i \in DOMAIN more : i \in DOMAIN a.results \/ i = Len(a.results) + 1
  BY <1>4
<1>8. ok <=> \A i \in DOMAIN more : more[i].result # "failed"
  <2> HIDE DEF ok, more
  <2> QED
    BY <1>1, <1>4, <1>6, <1>7
<1>9. Tested(c) = a.access[a.at]
  BY DEF Tested
<1> HIDE DEF step, ok, more
<1>10. r \in AccessCallType
  <2> DEFINE next == a.at + 1
  <2>1. next \in Nat /\ step \in AccessSteps
    BY <1>2, <1>5 DEF AccessSteps
  <2>2. r = [a EXCEPT !.results = more, !.at = next, !.step = step, !.ok = ok]
    OBVIOUS
  <2> HIDE DEF next, r, a
  <2> QED
    BY <1>2, <1>4, <1>6, <2>1, <2>2 DEF AccessCallType
<1>11. /\ r.op = a.op /\ r.created = FALSE /\ r.step = step /\ r.access = a.access /\ r.results = more /\ r.ok = ok
       /\ r.at = a.at + 1 /\ r.states = a.states /\ r.caller = a.caller
  BY <1>1, <1>2 DEF AccessCallType
<1> HIDE DEF r
<1>12. /\ accessCall'[c] = r /\ accessCall' = [d \in AccessCall |-> accessCall'[d]]
       /\ \A d \in AccessCall : d # c => accessCall'[d] = accessCall[d]
  BY <1>3, SetCall DEF AInv
<1>13. ASSUME NEW i \in DOMAIN more PROVE ResultTrue(c, i)'
  <2>1. \A e : Straight(c, e)' = Straight(c, e)
    BY <1>11, <1>12 DEF Straight, RewritesBefore
  <2>2. \A x : ReadsRepo(x)' = ReadsRepo(x)
    BY DEF ReadsRepo
  <2>3. CASE i \in DOMAIN a.results
    <3>1. more[i] = a.results[i]
      BY <1>4, <2>3
    <3>2. ResultTrue(c, i)
      BY <1>1, <2>3
    <3> QED
      BY <1>11, <1>12, <2>1, <2>2, <3>1, <3>2 DEF ResultTrue
  <2>4. CASE i = Len(a.results) + 1
    <3>1. more[i] = result /\ a.access[i] = Tested(c) /\ i = a.at
      BY <1>1, <1>4, <1>9, <2>4
    <3> QED
      BY <1>11, <1>12, <2>1, <2>2, <3>1 DEF ResultTrue
  <2> QED
    BY <1>7, <2>3, <2>4
<1>14. RunSound(c)'
  BY <1>5, <1>11, <1>12 DEF RunSound
<1>15. TestSound(c)'
  <2>1. IsTest(c)'
    BY <1>1, <1>11, <1>12 DEF IsTest
  <2>2. step = "first" => a.at + 1 = Len(more) + 1 /\ a.at + 1 <= Len(a.access)
    BY <1>1, <1>2, <1>4, <1>5
  <2>3. step = "done" => Len(more) = Len(a.access)
    BY <1>1, <1>2, <1>4, <1>5
  <2>4. Len(more) <= Len(a.access)
    BY <1>1, <1>4
  <2>5. ok = (\A i \in DOMAIN more : more[i].result # "failed")
    BY <1>6, <1>8
  <2> QED
    BY <1>1, <1>4, <1>5, <1>11, <1>12, <1>13, <2>1, <2>2, <2>3, <2>4, <2>5 DEF TestSound
<1>16. /\ accessCall'[c].step \notin {"look", "open", "write", "load", "judge"} /\ accessCall'[c].created = FALSE
       /\ accessCall'[c].op = accessCall[c].op /\ accessCall'[c].access = accessCall[c].access
       /\ accessCall[c].step \notin {"idle", "done"} /\ accessCall'[c] \in AccessCallType
  BY <1>5, <1>10, <1>11, <1>12
<1> QED
  BY <1>12, <1>14, <1>15, <1>16, CallStepSound

LEMMA CredentialIn == \A e \in Accesses : CredentialOf(e) \in AccessIds \cup {"machine"}
BY AccessesAre DEF CredentialOf

LEMMA ResultIs ==
  ASSUME NEW result \in {"skipped", "failed", "ok"}, NEW identity \in AccessIds \cup {"none", "machine"},
         NEW read \in {"none", "yes", "no"}, NEW write \in {"none", "yes", "no", "unknown"}
  PROVE  LET x == Result(result, identity, read, write) IN
         x \in TestResult /\ x.result = result /\ x.identity = identity /\ x.read = read /\ x.write = write
BY DEF Result, TestResult

LEMMA TestedIs ==
  ASSUME AInv, NEW c \in AccessCall, accessCall[c].step \in {"first", "second"}
  PROVE  /\ Tested(c) \in Accesses /\ CredentialOf(Tested(c)) \in AccessIds \cup {"machine"}
         /\ accessCall[c].at \in DOMAIN accessCall[c].access
<1>1. /\ accessCall[c].access \in Sound /\ accessCall[c].at = Len(accessCall[c].results) + 1
      /\ accessCall[c].at <= Len(accessCall[c].access)
  BY DEF AInv, TestSound
<1>2. Len(accessCall[c].results) \in Nat
  BY CallTyped DEF AInv
<1>3. accessCall[c].at \in DOMAIN accessCall[c].access
  BY <1>1, <1>2, SoundFile
<1> QED
  BY <1>1, <1>3, SoundFile, CredentialIn DEF Tested

LEMMA OnlyCallsIs ==
  ASSUME AInv, OnlyCalls
  PROVE  /\ UNCHANGED <<accessFile, held, accessGrants, machineRules, accessPage, fileLost>>
         /\ accessChanges' \in 0..MaxAccessChanges /\ accessChanges' = accessChanges
BY DEF AInv, AccessTypes, AccessTypeOK, OnlyCalls

LEMMA SkipsSound == ASSUME AInv, NEW c \in AccessCall, Skips(c) PROVE AInv'
  BY ResultIs, OnlyCallsIs, AnswerSound DEF Skips, Skipped

\* A result that says no more than that nothing was heard.
LEMMA FailedSound ==
  ASSUME AInv, NEW c \in AccessCall, accessCall[c].step \in {"first", "second"},
         NEW identity \in {"none", CredentialOf(Tested(c))}, Answer(c, Result("failed", identity, "none", "none")),
         UNCHANGED <<accessFile, held, accessGrants, machineRules, accessPage, fileLost>>,
         accessChanges' \in 0..MaxAccessChanges, accessChanges' # 0 \/ accessChanges' = accessChanges
  PROVE  AInv'
<1> DEFINE x == Result("failed", identity, "none", "none")
<1>1. x \in TestResult /\ x.result = "failed" /\ x.identity = identity /\ x.write = "none"
  BY TestedIs, ResultIs
<1> HIDE DEF x
<1>2. Answer(c, x)
  BY DEF x
<1> QED
  BY <1>1, <1>2, AnswerSound

LEMMA ToSecondSound ==
  ASSUME AInv, NEW c \in AccessCall, accessCall[c].step = "first", OnlyCalls,
         accessCall[c].states[accessCall[c].at] = "available", Steps(c, "second")
  PROVE  AInv'
<1> DEFINE a == accessCall[c]
           r == [a EXCEPT !.step = "second"]
<1>1. a.created = FALSE /\ TestSound(c)
  BY AtWork DEF AInv
<1>2. a \in AccessCallType /\ accessCall \in [AccessCall -> AccessCallType]
  BY CallTyped DEF AInv, AccessTypes
<1>3. accessCall' = [accessCall EXCEPT ![c] = r]
  BY <1>2 DEF AccessCallType, Steps
<1>4. r \in AccessCallType
  BY <1>2 DEF AccessCallType, AccessSteps
<1>5. /\ r.op = a.op /\ r.created = FALSE /\ r.step = "second" /\ r.access = a.access /\ r.results = a.results /\ r.ok = a.ok
       /\ r.at = a.at /\ r.states = a.states /\ r.caller = a.caller
  BY <1>1, <1>2 DEF AccessCallType
<1> HIDE DEF r
<1>6. accessCall'[c] = r
  BY <1>3, SetCall DEF AInv
<1>7. RunSound(c)'
  BY <1>5, <1>6 DEF RunSound
<1>8. TestSound(c)'
  <2>1. \A e : Straight(c, e)' = Straight(c, e)
    BY <1>5, <1>6 DEF Straight, RewritesBefore, OnlyCalls
  <2>2. \A x : ReadsRepo(x)' = ReadsRepo(x)
    BY DEF ReadsRepo, OnlyCalls
  <2>3. \A i : ResultTrue(c, i)' = ResultTrue(c, i)
    BY <1>5, <1>6, <2>1, <2>2 DEF ResultTrue, OnlyCalls
  <2>4. IsTest(c)' = IsTest(c)
    BY <1>5, <1>6 DEF IsTest
  <2> QED
    BY <1>1, <1>5, <1>6, <2>3, <2>4 DEF TestSound
<1>9. /\ accessCall[c].step \notin {"idle", "done"} /\ r.step \notin {"look", "open", "write", "load", "judge"}
      /\ r.op = accessCall[c].op /\ r.access = accessCall[c].access
  BY <1>5
<1> QED
  BY <1>3, <1>4, <1>5, <1>7, <1>8, <1>9, OnlyCallSound

LEMMA FirstQuestionSound == ASSUME AInv, NEW c \in AccessCall, FirstQuestion(c) PROVE AInv'
  BY ToSecondSound, OnlyCallsIs, FailedSound DEF FirstQuestion

LEMMA UnansweredSound == ASSUME AInv, NEW c \in AccessCall, Unanswered(c) PROVE AInv'
<1>1. accessCall[c].step \in {"first", "second"} /\ accessChanges < MaxAccessChanges /\ accessChanges' = accessChanges + 1
      /\ UNCHANGED <<accessFile, held, accessGrants, machineRules, accessPage, fileLost>>
  BY DEF Unanswered, AccessWorld
<1>2. accessChanges' \in 0..MaxAccessChanges /\ accessChanges' # 0
  <2>1. accessChanges \in 0..MaxAccessChanges
    BY DEF AInv, AccessTypes, AccessTypeOK
  <2> QED
    BY <1>1, <2>1, AccessAssumption
<1>3. PICK identity \in {"none", CredentialOf(Tested(c))} : Answer(c, Result("failed", identity, "none", "none"))
  BY DEF Unanswered
<1> QED
  BY <1>1, <1>2, <1>3, FailedSound

\* What ls-remote speaks with, where the machine sends it nowhere else, is the access.
LEMMA LsRemoteIs ==
  ASSUME NEW c, NEW e \in Accesses, e.type \in {"ssh", "public"}, Straight(c, e)
  PROVE  LsRemote(c, e) = CredentialOf(e)
<1> DEFINE env == TestEnv(accessCall[c].caller, e)
           u == Rewritten(RewritesBefore(c), Url(Target(e), "web", TRUE), FALSE)
<1>1. env.layers = accessCall[c].caller.layers /\ env.helper = "none"
      /\ env.ssh = IF e.type = "ssh" /\ e.keys = {"key"} THEN e.id ELSE "machine"
  BY DEF TestEnv, Environment
<1>2. LsRemote(c, e) = Credential(env, u)
  BY <1>1 DEF LsRemote, RewritesBefore
<1>3. u.form = Target(e) /\ u.repo = "web"
  <2>1. \A L, form, git : \A push \in BOOLEAN : Rewritten(L, Url(form, "web", git), push).repo = "web"
    BY RewrittenIs
  <2>2. u.repo = "web"
    BY <2>1
  <2> QED
    BY <2>2 DEF Straight
<1> HIDE DEF env, u
<1>4. CASE e.type = "public"
  BY <1>3, <1>4, AccessesAre, <1>1, <1>2 DEF Target, Credential, CredentialOf
<1>5. CASE e.type = "ssh" /\ e.keys = {"key"}
  BY <1>1, <1>3, <1>5, AccessesAre, <1>2 DEF Target, Credential, CredentialOf
<1>6. CASE e.type = "ssh" /\ e.keys = {"host"}
  BY <1>1, <1>3, <1>6, AccessesAre, <1>2 DEF Target, Credential, CredentialOf, AliasForm
<1> QED
  BY <1>4, <1>5, <1>6, AccessesAre

LEMMA SecondQuestionSound == ASSUME AInv, NEW c \in AccessCall, SecondQuestion(c) PROVE AInv'
<1> DEFINE e == Tested(c)
           credential == CredentialOf(e)
           asked == IF e.type \in {"gh", "token"} THEN credential ELSE LsRemote(c, e)
           write == CASE e.type = "ssh" -> "unknown" [] e.type = "public" -> "no"
                      [] OTHER -> IF accessGrants[credential] = "write" THEN "yes" ELSE "no"
           other == IF e.type \in {"gh", "token"} THEN "none" ELSE write
<1>1. accessCall[c].step = "second" /\ OnlyCalls
      /\ IF ReadsRepo(asked) THEN Answer(c, Result("ok", credential, "yes", write))
         ELSE Answer(c, Result("failed", credential, "no", other))
  BY DEF SecondQuestion
<1>2. e \in Accesses /\ credential \in AccessIds \cup {"machine"}
  BY <1>1, TestedIs
<1>3. accessCall[c].states[accessCall[c].at] = "available"
  BY <1>1 DEF AInv, TestSound
<1>4. write \in {"unknown", "no", "yes"} /\ (write = "yes" => accessGrants[credential] = "write")
  OBVIOUS
<1>5. other \in {"none", "unknown", "no", "yes"} /\ (other = "yes" => accessGrants[credential] = "write")
  <2> HIDE DEF write, credential
  <2> QED
    BY <1>4
<1>6. ReadsRepo(asked) => (e.type \in {"gh", "token"} \/ Straight(c, e) => ReadsRepo(credential))
  BY <1>2, LsRemoteIs, AccessesAre
<1> HIDE DEF e, credential, write, other
<1>7. CASE ReadsRepo(asked)
  <2> DEFINE x == Result("ok", credential, "yes", write)
  <2>1. x \in TestResult /\ x.result = "ok" /\ x.identity = credential /\ x.write = write
    BY <1>2, <1>4, ResultIs
  <2>2. Answer(c, x)
    BY <1>1, <1>7
  <2> HIDE DEF x
  <2>3. /\ x.identity \in {"none", CredentialOf(Tested(c))}
        /\ x.result = "ok" =>
           /\ accessCall[c].states[accessCall[c].at] = "available" /\ x.identity = CredentialOf(Tested(c))
           /\ Tested(c).type \in {"gh", "token"} \/ Straight(c, Tested(c)) => ReadsRepo(CredentialOf(Tested(c)))
        /\ x.write = "yes" => accessGrants[CredentialOf(Tested(c))] = "write"
    BY <1>3, <1>4, <1>6, <1>7, <2>1 DEF e, credential
  <2> QED
    BY <1>1, <2>1, <2>2, <2>3, OnlyCallsIs, AnswerSound
<1>8. CASE ~ReadsRepo(asked)
  <2> DEFINE x == Result("failed", credential, "no", other)
  <2>1. x \in TestResult /\ x.result = "failed" /\ x.identity = credential /\ x.write = other
    BY <1>2, <1>5, ResultIs
  <2>2. Answer(c, x)
    BY <1>1, <1>8
  <2> HIDE DEF x
  <2>3. /\ x.identity \in {"none", CredentialOf(Tested(c))} /\ x.result # "ok"
        /\ x.write = "yes" => accessGrants[CredentialOf(Tested(c))] = "write"
    BY <1>5, <2>1 DEF e, credential
  <2> QED
    BY <1>1, <2>1, <2>2, <2>3, OnlyCallsIs, AnswerSound
<1> QED
  BY <1>7, <1>8

(***************************************************************************)
(* Calls that begin, init, the page and what changes meanwhile.            *)
(***************************************************************************)
LEMMA TypedNext ==
  ASSUME AccessTypes,
         accessFile' \in [kind : {"none", "dead link", "directory", "file"}, content : Contents,
                          maker : AccessCall \cup {"person", "nobody"}],
         accessFile'.kind = "none" => accessFile'.content = <<>>,
         held' \in Holds, UNCHANGED <<accessGrants, machineRules>>, fileLost' \in BOOLEAN,
         accessPage' = [rows |-> accessPage'.rows, shown |-> accessPage'.shown, edited |-> accessPage'.edited],
         accessPage'.rows \in Loadable, DOMAIN accessPage'.shown = DOMAIN accessPage'.rows, accessPage'.edited \in BOOLEAN,
         accessChanges' \in 0..MaxAccessChanges,
         accessCall' \in [AccessCall -> AccessCallType],
         \A d \in AccessCall : TestSound(d)'
  PROVE  AccessTypes'
  BY LoadableIs DEF AccessCallType, TestSound, AccessTypes, AccessTypeOK, AccessOps, AccessSteps

LEMMA PageIs ==
  ASSUME AccessTypes
  PROVE  /\ \A shown : LET page == [accessPage EXCEPT !.shown = shown] IN
                       page.rows = accessPage.rows /\ page.shown = shown /\ page.edited = accessPage.edited
                       /\ page = [rows |-> page.rows, shown |-> page.shown, edited |-> page.edited]
         /\ \A edited : LET page == [accessPage EXCEPT !.edited = edited] IN
                        page.rows = accessPage.rows /\ page.shown = accessPage.shown /\ page.edited = edited
                        /\ page = [rows |-> page.rows, shown |-> page.shown, edited |-> page.edited]
<1>1. accessPage = [rows |-> accessPage.rows, shown |-> accessPage.shown, edited |-> accessPage.edited]
  BY DEF AccessTypes
<1>2. ASSUME NEW shown, NEW page, page = [accessPage EXCEPT !.shown = shown]
      PROVE  page.rows = accessPage.rows /\ page.shown = shown /\ page.edited = accessPage.edited
             /\ page = [rows |-> page.rows, shown |-> page.shown, edited |-> page.edited]
  BY <1>1, <1>2
<1>3. ASSUME NEW edited, NEW page, page = [accessPage EXCEPT !.edited = edited]
      PROVE  page.rows = accessPage.rows /\ page.shown = accessPage.shown /\ page.edited = edited
             /\ page = [rows |-> page.rows, shown |-> page.shown, edited |-> page.edited]
  BY <1>1, <1>3
<1> QED
  BY <1>2, <1>3

LEMMA BeginSound ==
  ASSUME AInv, NEW c \in AccessCall, NEW op \in {"run", "test", "page test", "init"}, NEW options \in Options,
         NEW caller \in Environments, BeginAccess(c, op, options, caller)
  PROVE  AInv'
<1> DEFINE step == IF op = "init" THEN "look" ELSE "load"
           r == [Idle EXCEPT !.op = op, !.options = options, !.caller = caller, !.step = step]
<1>1. /\ accessCall[c].step = "idle" /\ (op = "page test" <=> accessPage.rows # <<>>)
      /\ accessCall' = [accessCall EXCEPT ![c] = r]
      /\ accessPage' = IF op = "page test" THEN [accessPage EXCEPT !.shown = [i \in DOMAIN @ |-> Untested]] ELSE accessPage
      /\ UNCHANGED <<accessFile, held, accessGrants, machineRules, accessChanges, fileLost>>
  BY DEF BeginAccess, AccessWorld
<1>2. caller \in EnvType
  BY IdleTyped, CallTyped DEF AInv, Environments
<1>3. step \in {"look", "load"} /\ (step = "look" <=> op = "init")
  OBVIOUS
<1> HIDE DEF step
<1>4. r \in AccessCallType
  BY <1>2, <1>3, IdleTyped DEF AccessCallType, AccessOps, AccessSteps
<1>5. r.op = op /\ r.step = step /\ r.created = FALSE /\ r.results = <<>> /\ r.access = <<>>
  BY IdleTyped DEF AccessCallType
<1> HIDE DEF r
<1>6. /\ accessCall'[c] = r /\ accessCall' = [d \in AccessCall |-> accessCall'[d]]
      /\ \A d \in AccessCall : d # c => accessCall'[d] = accessCall[d]
  BY <1>1, SetCall DEF AInv
<1>7. \A d \in AccessCall : RunSound(d)' /\ TestSound(d)'
  <2>1. RunSound(c)'
    BY <1>3, <1>5, <1>6 DEF RunSound
  <2>2. TestSound(c)'
    BY <1>5, <1>6, <1>3, TestBegins
  <2>3. \A d \in AccessCall : d # c => RunSound(d)' /\ TestSound(d)'
    BY <1>1, <1>6, SameCall DEF AInv
  <2> QED
    BY <2>1, <2>2, <2>3
<1>8. /\ accessPage'.rows = accessPage.rows /\ accessPage'.edited = accessPage.edited
      /\ DOMAIN accessPage'.shown = DOMAIN accessPage.shown
      /\ accessPage' = [rows |-> accessPage'.rows, shown |-> accessPage'.shown, edited |-> accessPage'.edited]
      /\ \/ accessPage'.shown = accessPage.shown
         \/ \A i \in DOMAIN accessPage'.shown : accessPage'.shown[i].identity = "none"
  <2>1. CASE op # "page test"
    BY <1>1, <2>1 DEF AInv, AccessTypes
  <2>2. CASE op = "page test"
    <3> DEFINE shown == [i \in DOMAIN accessPage.shown |-> Untested]
    <3>1. accessPage' = [accessPage EXCEPT !.shown = shown]
      BY <1>1, <2>2
    <3>2. Untested.identity = "none"
      BY DEF Untested, Result
    <3>3. \A i \in DOMAIN shown : shown[i].identity = "none"
      BY <3>2
    <3>4. DOMAIN shown = DOMAIN accessPage.shown
      OBVIOUS
    <3> HIDE DEF shown
    <3>5. /\ accessPage'.shown = shown /\ accessPage'.rows = accessPage.rows /\ accessPage'.edited = accessPage.edited
          /\ accessPage' = [rows |-> accessPage'.rows, shown |-> accessPage'.shown, edited |-> accessPage'.edited]
      BY <3>1, PageIs DEF AInv
    <3> QED
      BY <3>3, <3>4, <3>5
  <2> QED
    BY <2>1, <2>2
<1>9. AccessTypes'
  BY <1>4, <1>6, CallTyped, <1>1, <1>7, <1>8, TypedNext DEF AInv, AccessTypes, AccessTypeOK
<1>10. PageSound'
  <2>1. PageSound /\ RowsTrue /\ DOMAIN accessPage.shown = DOMAIN accessPage.rows
    BY DEF AInv, PageSound, AccessTypes, AccessTypeOK
  <2>2. RowsTrue'
    BY <1>8, <2>1 DEF RowsTrue
  <2>3. \A d \in AccessCall : accessCall'[d].op = "page test" => accessPage'.rows # <<>>
    BY <1>1, <1>5, <1>6, <1>8, <2>1 DEF PageSound
  <2>4. accessPage'.rows # <<>> =>
          \A d \in AccessCall : accessCall'[d].step \notin {"idle", "done"} => accessCall'[d].op = "page test"
    BY <1>1, <1>5, <1>6, <1>8, <2>1 DEF PageSound
  <2>5. LoadAccess' = LoadAccess
    BY <1>1, SameLoad
  <2>6. ~accessPage'.edited =>
          \A d \in AccessCall : accessCall'[d].op = "page test" /\ accessCall'[d].access # <<>> => accessCall'[d].access = accessPage'.rows
    BY <1>5, <1>6, <1>8, <2>1 DEF PageSound
  <2> QED
    BY <1>1, <1>8, <2>1, <2>2, <2>3, <2>4, <2>5, <2>6 DEF PageSound
<1>11. InitSound'
  <2>1. InitSound
    BY DEF AInv
  <2>2. IsTest(c)' \/ op \in {"run", "init"}
    BY <1>5, <1>6 DEF IsTest
  <2>3. ASSUME NEW d \in AccessCall
        PROVE  /\ accessCall'[d].step \in {"look", "open", "write"} => accessCall'[d].op = "init"
               /\ accessCall'[d].step \in {"load", "judge"} => accessCall'[d].op = "run" \/ IsTest(d)'
               /\ accessCall'[d].step = "write" => accessFile.maker = d /\ accessFile.kind = "file"
               /\ accessCall'[d].created => accessCall'[d].step = "done" /\ accessCall'[d].op = "init"
               /\ accessCall'[d].created /\ accessChanges = 0 => accessFile.maker = d /\ accessFile.kind = "file"
    <3>1. CASE d = c
      BY <1>3, <1>5, <1>6, <2>2, <3>1
    <3>2. CASE d # c
      <4>1. accessCall'[d] = accessCall[d]
        BY <1>6, <3>2
      <4>2. IsTest(d)' = IsTest(d)
        BY <4>1 DEF IsTest
      <4> QED
        BY <2>1, <4>1, <4>2 DEF InitSound
    <3> QED
      BY <3>1, <3>2
  <2> QED
    BY <1>1, <2>1, <2>3 DEF InitSound
<1> QED
  BY <1>7, <1>9, <1>10, <1>11 DEF AInv

LEMMA LoadableLen == ASSUME NEW access \in Loadable PROVE Len(access) \in Nat
  BY SoundFile DEF Loadable

\* A step of init, which is at work only while the page has no rows.
LEMMA InitStepSound ==
  ASSUME AInv, NEW c \in AccessCall, accessCall[c].step \in {"open", "write"}, NEW r \in AccessCallType,
         accessCall' = [accessCall EXCEPT ![c] = r], r.op = "init", r.access = accessCall[c].access, r.results = <<>>,
         r.step \in {"write", "done"}, r.created => r.step = "done",
         accessFile' \in [kind : {"none", "dead link", "directory", "file"}, content : Contents,
                          maker : AccessCall \cup {"person", "nobody"}],
         accessFile'.kind = "none" => accessFile'.content = <<>> /\ accessFile'.maker = "nobody",
         fileLost' = FALSE, UNCHANGED <<held, accessGrants, machineRules, accessPage, accessChanges>>,
         r.step = "write" \/ r.created => accessFile'.maker = c /\ accessFile'.kind = "file",
         accessFile' = accessFile \/ (\A d \in AccessCall : d # c => accessCall[d].step # "write"
                                                                    /\ (accessCall[d].created => accessChanges # 0))
  PROVE  AInv'
<1>1. accessCall[c].op = "init"
  BY DEF AInv, InitSound
<1>2. /\ accessCall'[c] = r /\ accessCall' = [d \in AccessCall |-> accessCall'[d]]
      /\ \A d \in AccessCall : d # c => accessCall'[d] = accessCall[d]
  BY SetCall DEF AInv
<1>3. \A d \in AccessCall : RunSound(d)' /\ TestSound(d)'
  BY CallTyped, LoadableLen, <1>2, TestBegins, SameCall DEF AInv, RunSound
<1>4. AccessTypes'
  BY <1>3, TypedNext DEF AInv, AccessTypes, AccessTypeOK
<1>5. accessPage.rows = <<>> /\ \A d \in AccessCall : accessCall[d].op # "page test"
  BY <1>1 DEF AInv, PageSound
<1>6. PageSound'
  <2>1. RowsTrue'
    <3>1. RowsTrue
      BY DEF AInv, PageSound
    <3> QED
      BY <3>1 DEF RowsTrue
  <2>2. \A d \in AccessCall : accessCall'[d].op # "page test"
    BY <1>2, <1>5
  <2> QED
    BY <1>5, <2>1, <2>2 DEF PageSound
<1>7. InitSound'
  <2>1. InitSound
    BY DEF AInv
  <2>2. ASSUME NEW d \in AccessCall
        PROVE  /\ accessCall'[d].step \in {"look", "open", "write"} => accessCall'[d].op = "init"
               /\ accessCall'[d].step \in {"load", "judge"} => accessCall'[d].op = "run" \/ IsTest(d)'
               /\ accessCall'[d].step = "write" => accessFile'.maker = d /\ accessFile'.kind = "file"
               /\ accessCall'[d].created => accessCall'[d].step = "done" /\ accessCall'[d].op = "init"
               /\ accessCall'[d].created /\ accessChanges = 0 => accessFile'.maker = d /\ accessFile'.kind = "file"
    <3>1. CASE d = c
      BY <1>2, <3>1
    <3>2. CASE d # c
      <4>1. accessCall'[d] = accessCall[d]
        BY <1>2, <3>2
      <4>2. IsTest(d)' = IsTest(d)
        BY <4>1 DEF IsTest
      <4>3. /\ accessCall[d].step \in {"look", "open", "write"} => accessCall[d].op = "init"
            /\ accessCall[d].step \in {"load", "judge"} => accessCall[d].op = "run" \/ IsTest(d)
            /\ accessCall[d].created => accessCall[d].step = "done" /\ accessCall[d].op = "init"
        BY <2>1 DEF InitSound
      <4>4. /\ accessCall[d].step = "write" => accessFile'.maker = d /\ accessFile'.kind = "file"
            /\ accessCall[d].created /\ accessChanges = 0 => accessFile'.maker = d /\ accessFile'.kind = "file"
        BY <2>1, <3>2 DEF InitSound
      <4> QED
        BY <4>1, <4>2, <4>3, <4>4
    <3> QED
      BY <3>1, <3>2
  <2>3. accessFile'.kind = "none" => accessFile'.maker = "nobody"
    OBVIOUS
  <2> QED
    BY <2>2, <2>3 DEF InitSound
<1> QED
  BY <1>3, <1>4, <1>6, <1>7 DEF AInv

LEMMA InitOpensSound == ASSUME AInv, NEW c \in AccessCall, InitOpens(c) PROVE AInv'
<1> DEFINE a == accessCall[c]
<1>1. a.step = "open" /\ UNCHANGED <<held, accessGrants, machineRules, accessPage, accessChanges>>
      /\ fileLost' = (fileLost \/ (accessFile.maker = "person" /\ accessFile' # accessFile))
  BY DEF InitOpens
<1>2. a \in AccessCallType /\ accessCall \in [AccessCall -> AccessCallType] /\ a.ok \in BOOLEAN /\ a.created = FALSE
      /\ fileLost = FALSE /\ a.op = "init" /\ a.results = <<>>
  BY <1>1, CallTyped, AtWork DEF AInv, AccessTypes, AccessTypeOK, InitSound
<1>3. accessFile \in [kind : {"none", "dead link", "directory", "file"}, content : Contents,
                          maker : AccessCall \cup {"person", "nobody"}]
      /\ (accessFile.kind = "none" => accessFile.content = <<>> /\ accessFile.maker = "nobody")
  BY DEF AInv, AccessTypes, InitSound
<1>4. CASE accessFile.kind = "none" /\ accessFile' = FileOf("file", <<>>, c) /\ Steps(c, "write")
  <2> DEFINE r == [a EXCEPT !.step = "write", !.ok = a.ok, !.created = FALSE]
  <2>1. accessCall' = [accessCall EXCEPT ![c] = r]
    BY <1>2, <1>4 DEF Steps, AccessCallType
  <2>2. r \in AccessCallType /\ r.op = "init" /\ r.access = a.access /\ r.results = <<>> /\ r.step = "write" /\ r.created = FALSE
    BY <1>2 DEF AccessCallType, AccessSteps
  <2> HIDE DEF r
  <2>3. /\ accessFile' \in [kind : {"none", "dead link", "directory", "file"}, content : Contents,
                            maker : AccessCall \cup {"person", "nobody"}]
        /\ accessFile'.kind = "file" /\ accessFile'.maker = c
    BY <1>4, LoadableIs DEF FileOf
  <2>4. fileLost' = FALSE
    BY <1>1, <1>2, <1>3, <1>4
  <2>5. \A d \in AccessCall : accessCall[d].step # "write" /\ (accessCall[d].created => accessChanges # 0)
    BY <1>4 DEF AInv, InitSound
  <2> QED
    BY <1>1, <2>1, <2>2, <2>3, <2>4, <2>5, InitStepSound
<1>5. ASSUME NEW ok \in BOOLEAN, UNCHANGED accessFile,
             accessCall' = [accessCall EXCEPT ![c] = [a EXCEPT !.step = "done", !.ok = ok, !.created = FALSE]]
      PROVE  AInv'
  <2> DEFINE r == [a EXCEPT !.step = "done", !.ok = ok, !.created = FALSE]
  <2>1. accessCall' = [accessCall EXCEPT ![c] = r]
    BY <1>5
  <2>2. r \in AccessCallType /\ r.op = "init" /\ r.access = a.access /\ r.results = <<>> /\ r.step = "done" /\ r.created = FALSE
    BY <1>2 DEF AccessCallType, AccessSteps
  <2> HIDE DEF r
  <2>3. fileLost' = FALSE
    BY <1>1, <1>2, <1>5
  <2> QED
    BY <1>1, <1>3, <1>5, <2>1, <2>2, <2>3, InitStepSound
<1>6. CASE accessCall' = [accessCall EXCEPT ![c].step = "done"] /\ UNCHANGED accessFile
  <2>1. accessCall' = [accessCall EXCEPT ![c] = [a EXCEPT !.step = "done", !.ok = a.ok, !.created = FALSE]]
    BY <1>2, <1>6 DEF AccessCallType
  <2> QED
    BY <1>2, <1>5, <1>6, <2>1
<1>7. CASE accessCall' = [accessCall EXCEPT ![c].step = "done", ![c].ok = FALSE] /\ UNCHANGED accessFile
  <2>1. accessCall' = [accessCall EXCEPT ![c] = [a EXCEPT !.step = "done", !.ok = FALSE, !.created = FALSE]]
    BY <1>2, <1>7 DEF AccessCallType
  <2>2. FALSE \in BOOLEAN
    OBVIOUS
  <2> QED
    BY <1>5, <1>7, <2>1, <2>2
<1> QED
  BY <1>4, <1>6, <1>7 DEF InitOpens

LEMMA InitWritesSound == ASSUME AInv, NEW c \in AccessCall, InitWrites(c) PROVE AInv'
<1> DEFINE a == accessCall[c]
<1>1. a.step = "write" /\ UNCHANGED <<held, accessGrants, machineRules, accessPage, accessChanges>>
      /\ fileLost' = (fileLost \/ (accessFile.maker = "person" /\ accessFile' # accessFile))
  BY DEF InitWrites
<1>2. a \in AccessCallType /\ accessCall \in [AccessCall -> AccessCallType] /\ a.ok \in BOOLEAN /\ a.created = FALSE
      /\ fileLost = FALSE /\ a.op = "init" /\ a.results = <<>>
  BY <1>1, CallTyped, AtWork DEF AInv, AccessTypes, AccessTypeOK, InitSound
<1>3. accessFile \in [kind : {"none", "dead link", "directory", "file"}, content : Contents,
                          maker : AccessCall \cup {"person", "nobody"}]
      /\ (accessFile.kind = "none" => accessFile.content = <<>> /\ accessFile.maker = "nobody")
  BY DEF AInv, AccessTypes, InitSound
<1>4. accessFile.maker = c /\ accessFile.kind = "file"
  BY <1>1 DEF AInv, InitSound
<1>5. fileLost' = FALSE
  BY <1>1, <1>2, <1>4, AccessAssumption
<1>6. CASE accessCall' = [accessCall EXCEPT ![c].step = "done", ![c].created = TRUE] /\ UNCHANGED accessFile
  <2> DEFINE r == [a EXCEPT !.step = "done", !.ok = a.ok, !.created = TRUE]
  <2>1. accessCall' = [accessCall EXCEPT ![c] = r]
    BY <1>2, <1>6 DEF AccessCallType
  <2>2. r \in AccessCallType /\ r.op = "init" /\ r.access = a.access /\ r.results = <<>> /\ r.step = "done" /\ r.created
    BY <1>2 DEF AccessCallType, AccessSteps
  <2> HIDE DEF r
  <2> QED
    BY <1>1, <1>3, <1>4, <1>5, <1>6, <2>1, <2>2, InitStepSound
<1>7. CASE accessCall' = [accessCall EXCEPT ![c].step = "done", ![c].ok = FALSE] /\ accessFile' = NoFile
  <2> DEFINE r == [a EXCEPT !.step = "done", !.ok = FALSE, !.created = FALSE]
  <2>1. accessCall' = [accessCall EXCEPT ![c] = r]
    BY <1>2, <1>7 DEF AccessCallType
  <2>2. r \in AccessCallType /\ r.op = "init" /\ r.access = a.access /\ r.results = <<>> /\ r.step = "done" /\ ~r.created
    BY <1>2 DEF AccessCallType, AccessSteps
  <2> HIDE DEF r
  <2>3. /\ accessFile' \in [kind : {"none", "dead link", "directory", "file"}, content : Contents,
                            maker : AccessCall \cup {"person", "nobody"}]
        /\ accessFile'.kind = "none" /\ accessFile'.maker = "nobody" /\ accessFile'.content = <<>>
    BY <1>7, LoadableIs DEF FileOf, NoFile
  <2>4. \A d \in AccessCall : d # c => accessCall[d].step # "write" /\ (accessCall[d].created => accessChanges # 0)
    BY <1>4 DEF AInv, InitSound
  <2> QED
    BY <1>1, <1>5, <2>1, <2>2, <2>3, <2>4, InitStepSound
<1> QED
  BY <1>6, <1>7 DEF InitWrites

LEMMA PageLoadsSound == ASSUME AInv, PageLoads PROVE AInv'
<1> DEFINE rows == LoadAccess.access
           shown == [i \in DOMAIN rows |-> Untested]
<1>1. /\ accessPage.rows = <<>> /\ \A c \in AccessCall : accessCall[c].step \in {"idle", "done"}
      /\ accessPage' = [rows |-> rows, shown |-> shown, edited |-> FALSE]
      /\ UNCHANGED <<accessFile, held, accessGrants, machineRules, accessCall, accessChanges, fileLost>>
  BY DEF PageLoads, AccessWorld
<1>2. rows \in Loadable /\ (rows # <<>> => accessFile.kind = "file")
  BY LoadedIs DEF AInv
<1>3. DOMAIN shown = DOMAIN rows /\ \A i \in DOMAIN rows : shown[i].identity = "none"
  BY DEF Untested, Result
<1>4. LoadAccess' = LoadAccess
  BY <1>1, SameLoad
<1> HIDE DEF rows, shown
<1>5. /\ accessPage'.rows = rows /\ accessPage'.shown = shown /\ accessPage'.edited = FALSE
      /\ accessPage' = [rows |-> accessPage'.rows, shown |-> accessPage'.shown, edited |-> accessPage'.edited]
  BY <1>1
<1>6. \A c \in AccessCall : RunSound(c)' /\ TestSound(c)'
  BY <1>1, SameCall DEF AInv
<1>7. AccessTypes'
  BY <1>1, <1>2, <1>3, <1>5, <1>6, TypedNext DEF AInv, AccessTypes, AccessTypeOK
<1>8. PageSound'
  BY <1>1, <1>3, <1>5, <1>4, <1>2 DEF AInv, PageSound, RowsTrue, rows
<1>9. InitSound'
  BY <1>1 DEF IsTest, AInv, InitSound
<1> QED
  BY <1>6, <1>7, <1>8, <1>9 DEF AInv

LEMMA PageShowsSound == ASSUME AInv, NEW c \in AccessCall, PageShows(c) PROVE AInv'
<1> DEFINE a == accessCall[c]
           shown == [i \in DOMAIN accessPage.shown |-> IF i \in DOMAIN a.results THEN a.results[i] ELSE accessPage.shown[i]]
           r == [Idle EXCEPT !.op = "page test", !.step = "done"]
<1>1. /\ a.op = "page test" /\ a.step = "done" /\ a.access # <<>>
      /\ accessPage' = [accessPage EXCEPT !.shown = shown] /\ accessCall' = [accessCall EXCEPT ![c] = r]
      /\ UNCHANGED <<accessFile, held, accessGrants, machineRules, accessChanges, fileLost>>
  BY DEF PageShows, AccessWorld
<1>2. r \in AccessCallType /\ r.op = "page test" /\ r.step = "done" /\ r.created = FALSE /\ r.results = <<>> /\ r.access = <<>>
  BY IdleTyped DEF AccessCallType, AccessOps, AccessSteps
<1> HIDE DEF r
<1>3. DOMAIN shown = DOMAIN accessPage.shown
      /\ \A i \in DOMAIN shown : shown[i] = accessPage.shown[i] \/ (i \in DOMAIN a.results /\ shown[i] = a.results[i])
  OBVIOUS
<1> HIDE DEF shown
<1>4. /\ accessPage'.shown = shown /\ accessPage'.rows = accessPage.rows /\ accessPage'.edited = accessPage.edited
      /\ accessPage' = [rows |-> accessPage'.rows, shown |-> accessPage'.shown, edited |-> accessPage'.edited]
  BY <1>1, PageIs DEF AInv
<1>5. /\ accessCall'[c] = r /\ accessCall' = [d \in AccessCall |-> accessCall'[d]]
      /\ \A d \in AccessCall : d # c => accessCall'[d] = accessCall[d]
  BY <1>1, SetCall DEF AInv
<1>6. \A d \in AccessCall : RunSound(d)' /\ TestSound(d)'
  <2>1. RunSound(c)'
    BY <1>2, <1>5 DEF RunSound
  <2>2. TestSound(c)'
    BY <1>2, <1>5, TestBegins
  <2>3. \A d \in AccessCall : d # c => RunSound(d)' /\ TestSound(d)'
    BY <1>1, <1>5, SameCall DEF AInv
  <2> QED
    BY <2>1, <2>2, <2>3
<1>7. AccessTypes'
  BY <1>1, <1>2, <1>3, <1>4, <1>6, TypedNext DEF AInv, AccessTypes, AccessTypeOK
<1>8. PageSound'
  <2>1. PageSound /\ RowsTrue /\ DOMAIN accessPage.shown = DOMAIN accessPage.rows
    BY DEF AInv, PageSound, AccessTypes, AccessTypeOK
  <2>2. RowsTrue'
    <3>1. SUFFICES ASSUME ~accessPage.edited, NEW i \in DOMAIN accessPage.rows, shown[i].identity # "none"
                   PROVE  shown[i].identity = CredentialOf(accessPage.rows[i])
      BY <1>4 DEF RowsTrue
    <3>2. CASE shown[i] = accessPage.shown[i]
      BY <2>1, <3>1, <3>2 DEF RowsTrue
    <3>3. CASE i \in DOMAIN a.results /\ shown[i] = a.results[i]
      <4>1. a.access = accessPage.rows
        BY <1>1, <2>1, <3>1 DEF PageSound
      <4>2. ResultTrue(c, i)
        BY <3>3 DEF AInv, TestSound
      <4>3. a.results[i].identity \in {"none", CredentialOf(a.access[i])}
        BY <4>2 DEF ResultTrue
      <4> QED
        BY <3>1, <3>3, <4>1, <4>3
    <3> QED
      BY <1>3, <2>1, <3>2, <3>3
  <2>3. \A d \in AccessCall : accessCall'[d].op = accessCall[d].op
    BY <1>1, <1>2, <1>5
  <2>4. \A d \in AccessCall : accessCall'[d].step \notin {"idle", "done"} => accessCall'[d].step = accessCall[d].step
    BY <1>2, <1>5
  <2>5. \A d \in AccessCall : accessCall'[d].access # <<>> => accessCall'[d].access = accessCall[d].access
    BY <1>2, <1>5
  <2>6. LoadAccess' = LoadAccess
    BY <1>1, SameLoad
  <2>7. \A d \in AccessCall : accessCall'[d].op = "page test" => accessPage'.rows # <<>>
    BY <1>4, <2>1, <2>3 DEF PageSound
  <2>8. accessPage'.rows # <<>> =>
          \A d \in AccessCall : accessCall'[d].step \notin {"idle", "done"} => accessCall'[d].op = "page test"
    BY <1>4, <2>1, <2>3, <2>4 DEF PageSound
  <2>9. accessPage'.rows # <<>> /\ ~accessPage'.edited => accessFile'.kind = "file" /\ LoadAccess'.access = accessPage'.rows
    BY <1>1, <1>4, <2>1, <2>6 DEF PageSound
  <2>10. ~accessPage'.edited =>
           \A d \in AccessCall : accessCall'[d].op = "page test" /\ accessCall'[d].access # <<>> => accessCall'[d].access = accessPage'.rows
    BY <1>4, <2>1, <2>3, <2>5 DEF PageSound
  <2> QED
    BY <2>2, <2>7, <2>8, <2>9, <2>10 DEF PageSound
<1>9. InitSound'
  <2>1. InitSound
    BY DEF AInv
  <2>2. ASSUME NEW d \in AccessCall
        PROVE  /\ accessCall'[d].step \in {"look", "open", "write"} => accessCall'[d].op = "init"
               /\ accessCall'[d].step \in {"load", "judge"} => accessCall'[d].op = "run" \/ IsTest(d)'
               /\ accessCall'[d].step = "write" => accessFile.maker = d /\ accessFile.kind = "file"
               /\ accessCall'[d].created => accessCall'[d].step = "done" /\ accessCall'[d].op = "init"
               /\ accessCall'[d].created /\ accessChanges = 0 => accessFile.maker = d /\ accessFile.kind = "file"
    <3>1. CASE d = c
      BY <1>2, <1>5, <3>1
    <3>2. CASE d # c
      <4>1. accessCall'[d] = accessCall[d]
        BY <1>5, <3>2
      <4>2. IsTest(d)' = IsTest(d)
        BY <4>1 DEF IsTest
      <4> QED
        BY <2>1, <4>1, <4>2 DEF InitSound
    <3> QED
      BY <3>1, <3>2
  <2> QED
    BY <1>1, <2>1, <2>2 DEF InitSound
<1> QED
  BY <1>6, <1>7, <1>8, <1>9 DEF AInv

\* Somebody else changes the file or a credential.
LEMMA ChangesIs ==
  ASSUME AInv, Changes
  PROVE  accessChanges' \in 0..MaxAccessChanges /\ accessChanges' # 0
<1>1. accessChanges \in 0..MaxAccessChanges
  BY DEF AInv, AccessTypes, AccessTypeOK
<1> QED
  BY <1>1, AccessAssumption DEF Changes

LEMMA EditFileSound == ASSUME AInv, EditFile PROVE AInv'
<1>1. /\ Changes /\ \A c \in AccessCall : accessCall[c].step # "write"
      /\ accessPage' = [accessPage EXCEPT !.edited = TRUE]
      /\ UNCHANGED <<held, accessGrants, machineRules, accessCall, fileLost>>
  BY DEF EditFile
<1>2. PICK f \in {FileOf("file", content, "person") : content \in {<<Gh, SshHost>>, <<Public, Token>>}} \cup {NoFile} :
        accessFile' = f
  BY DEF EditFile
<1>3. /\ accessFile' \in [kind : {"none", "dead link", "directory", "file"}, content : Contents,
                          maker : AccessCall \cup {"person", "nobody"}]
      /\ accessFile'.kind = "none" => accessFile'.content = <<>> /\ accessFile'.maker = "nobody"
  <2>1. <<Gh, SshHost>> \in Contents /\ <<Public, Token>> \in Contents /\ <<>> \in Contents
    BY DEF Contents, Sound
  <2>2. CASE f = FileOf("file", <<Gh, SshHost>>, "person")
    BY <1>2, <2>1, <2>2 DEF FileOf
  <2>3. CASE f = FileOf("file", <<Public, Token>>, "person")
    BY <1>2, <2>1, <2>3 DEF FileOf
  <2>4. CASE f = NoFile
    BY <1>2, <2>1, <2>4 DEF FileOf, NoFile
  <2> QED
    BY <2>2, <2>3, <2>4
<1>4. accessChanges' \in 0..MaxAccessChanges /\ accessChanges' # 0
  BY <1>1, ChangesIs
<1>5. /\ accessPage'.shown = accessPage.shown /\ accessPage'.rows = accessPage.rows /\ accessPage'.edited = TRUE
      /\ accessPage' = [rows |-> accessPage'.rows, shown |-> accessPage'.shown, edited |-> accessPage'.edited]
  BY <1>1, PageIs DEF AInv
<1>6. \A c \in AccessCall : RunSound(c)' /\ TestSound(c)'
  BY <1>1, SameCall DEF AInv
<1>7. AccessTypes'
  BY <1>1, <1>3, <1>4, <1>5, <1>6, TypedNext DEF AInv, AccessTypes, AccessTypeOK
<1>8. PageSound'
  <2>1. PageSound
    BY DEF AInv
  <2> QED
    BY <1>1, <1>5, <2>1 DEF PageSound, RowsTrue
<1>9. InitSound'
  BY <1>1, <1>3, <1>4 DEF IsTest, AInv, InitSound
<1> QED
  BY <1>6, <1>7, <1>8, <1>9 DEF AInv

LEMMA CredentialChangesSound == ASSUME AInv, CredentialChanges PROVE AInv'
<1>1. /\ Changes /\ UNCHANGED <<accessFile, accessGrants, machineRules, accessCall, accessPage, fileLost>>
      /\ \E id \in DOMAIN held : held' = [held EXCEPT ![id] = "gone"]
  BY DEF CredentialChanges
<1>2. accessChanges' \in 0..MaxAccessChanges /\ accessChanges' # 0
  BY <1>1, ChangesIs
<1>3. \A c \in AccessCall : RunSound(c)' /\ TestSound(c)'
  BY <1>1, SameCall DEF AInv
<1>4. AccessTypes'
  <2>1. /\ held \in Holds /\ fileLost \in BOOLEAN /\ accessCall \in [AccessCall -> AccessCallType]
        /\ accessPage.rows \in Loadable /\ DOMAIN accessPage.shown = DOMAIN accessPage.rows /\ accessPage.edited \in BOOLEAN
        /\ accessPage = [rows |-> accessPage.rows, shown |-> accessPage.shown, edited |-> accessPage.edited]
        /\ accessFile \in [kind : {"none", "dead link", "directory", "file"}, content : Contents,
                           maker : AccessCall \cup {"person", "nobody"}]
        /\ accessFile.kind = "none" => accessFile.content = <<>>
    BY DEF AInv, AccessTypes, AccessTypeOK
  <2>2. held' \in Holds
    BY <1>1, <2>1 DEF Holds
  <2> QED
    BY <1>1, <1>2, <1>3, <2>1, <2>2, TypedNext DEF AInv
<1>5. PageSound'
  BY <1>1, SameLoad DEF AInv, PageSound, RowsTrue
<1>6. InitSound'
  BY <1>1, <1>2 DEF IsTest, AInv, InitSound
<1> QED
  BY <1>3, <1>4, <1>5, <1>6 DEF AInv

(***************************************************************************)
(* The invariant, and the accesses as they are written down.               *)
(***************************************************************************)
LEMMA EmptyIs == /\ Len(<<>>) = 0 /\ DOMAIN <<>> = {} /\ Len(<<>>) <= Len(<<>>) /\ 0 \in 0..MaxAccessChanges
BY AccessAssumption

LEMMA RulesAre ==
  /\ {} \in SUBSET RewriteRule /\ {Everywhere} \in SUBSET RewriteRule
  /\ {Rule("scp", 0, "https", FALSE)} \in SUBSET RewriteRule /\ {Rule("https", 0, "scp", TRUE)} \in SUBSET RewriteRule
  /\ {Rule("https", 2, "mirror", FALSE)} \in SUBSET RewriteRule
  BY DEF Rule, RewriteRule, UrlForm, Everywhere

LEMMA AccessBeginSound ==
  ASSUME NEW file \in [kind : {"none", "dead link", "directory", "file"}, content : Contents,
                       maker : AccessCall \cup {"person", "nobody"}],
         file.kind = "none" => file.content = <<>> /\ file.maker = "nobody",
         NEW h \in Holds, NEW g, DOMAIN g = {"alice", "T", "K", "work", "nobody", "machine"},
         NEW rules \in SUBSET RewriteRule, AccessBegin(file, h, g, rules)
  PROVE  AInv
<1>1. /\ accessFile = file /\ held = h /\ accessGrants = g /\ machineRules = rules
      /\ accessCall = [c \in AccessCall |-> Idle] /\ accessPage = [rows |-> <<>>, shown |-> <<>>, edited |-> FALSE]
      /\ accessChanges = 0 /\ fileLost = FALSE
  BY DEF AccessBegin
<1>2. \A c \in AccessCall : accessCall[c] = Idle
  BY <1>1
<1>3. Idle.op = "none" /\ Idle.step = "idle" /\ Idle.results = <<>> /\ Idle.access = <<>> /\ Idle.created = FALSE
  BY DEF Idle
<1>4. Len(<<>>) = 0 /\ DOMAIN <<>> = {} /\ Len(<<>>) <= Len(<<>>)
  BY EmptyIs
<1>5. \A c \in AccessCall : RunSound(c) /\ TestSound(c)
  BY <1>2, <1>3, <1>4 DEF RunSound, TestSound
<1>6. AccessTypes
  BY <1>1, IdleTyped, EmptyIs, <1>2, <1>3, <1>4, LoadableIs DEF AccessOps, AccessSteps, AccessTypeOK, AccessTypes
<1>7. PageSound
  BY <1>1, <1>4, <1>2, <1>3 DEF PageSound, RowsTrue
<1>8. InitSound
  BY <1>1, <1>2, <1>3 DEF InitSound
<1> QED
  BY <1>5, <1>6, <1>7, <1>8 DEF AInv

LEMMA AccessBegins == AccessInit => AInv
<1> SUFFICES ASSUME AccessInit PROVE AInv
  OBVIOUS
<1> DEFINE Rules == {{}, {Everywhere}, {Rule("scp", 0, "https", FALSE)}, {Rule("https", 0, "scp", TRUE)},
                     {Rule("https", 2, "mirror", FALSE)}}
<1>1. AllGood \in Holds /\ \A id : OpenFor(id) \in Holds
  BY DEF AllGood, OpenFor, Holds
<1>2. DOMAIN AllWrite = {"alice", "T", "K", "work", "nobody", "machine"}
      /\ \A x, grant : DOMAIN [AllWrite EXCEPT ![x] = grant] = {"alice", "T", "K", "work", "nobody", "machine"}
  BY DEF AllWrite
<1>3. ASSUME NEW rules \in Rules PROVE rules \in SUBSET RewriteRule
  BY RulesAre
<1>4. ASSUME NEW k \in {"none", "dead link", "directory"}
      PROVE  LET file == FileOf(k, <<>>, "nobody") IN
             /\ file \in [kind : {"none", "dead link", "directory", "file"}, content : Contents,
                          maker : AccessCall \cup {"person", "nobody"}]
             /\ file.kind = "none" => file.content = <<>> /\ file.maker = "nobody"
  BY LoadableIs DEF FileOf
<1>5. ASSUME NEW content \in Contents
      PROVE  LET file == FileOf("file", content, "person") IN
             /\ file \in [kind : {"none", "dead link", "directory", "file"}, content : Contents,
                          maker : AccessCall \cup {"person", "nobody"}]
             /\ file.kind # "none"
  BY DEF FileOf
<1>6. ASSUME NEW k \in {"none", "dead link", "directory"}, AccessBegin(FileOf(k, <<>>, "nobody"), AllGood, AllWrite, {})
      PROVE  AInv
  <2> DEFINE file == FileOf(k, <<>>, "nobody")
  <2>1. {} \in SUBSET RewriteRule
    OBVIOUS
  <2> HIDE DEF file
  <2> QED
    BY <1>1, <1>2, <1>4, <1>6, <2>1, AccessBeginSound DEF file
<1>7. ASSUME NEW content \in Contents, NEW h \in Holds, NEW g, NEW rules \in Rules,
             DOMAIN g = {"alice", "T", "K", "work", "nobody", "machine"},
             AccessBegin(FileOf("file", content, "person"), h, g, rules)
      PROVE  AInv
  <2> DEFINE file == FileOf("file", content, "person")
  <2>1. /\ file \in [kind : {"none", "dead link", "directory", "file"}, content : Contents,
                     maker : AccessCall \cup {"person", "nobody"}]
        /\ file.kind # "none" /\ AccessBegin(file, h, g, rules) /\ rules \in SUBSET RewriteRule
    BY <1>3, <1>5, <1>7
  <2> HIDE DEF file, Rules
  <2> QED
    BY <1>7, <2>1, AccessBeginSound
<1>8. {} \in Rules /\ {Everywhere} \in Rules /\ Sound \subseteq Contents
  BY DEF Contents
<1> HIDE DEF Rules
<1>9. CASE \E k \in {"none", "dead link", "directory"} : AccessBegin(FileOf(k, <<>>, "nobody"), AllGood, AllWrite, {})
  BY <1>6, <1>9
<1>10. CASE \E content \in Contents \ Sound : AccessBegin(FileOf("file", content, "person"), AllGood, AllWrite, {})
  BY <1>1, <1>2, <1>7, <1>8, <1>10
<1>11. CASE \E content \in Sound, rules \in Rules : AccessBegin(FileOf("file", content, "person"), AllGood, AllWrite, rules)
  BY <1>1, <1>2, <1>7, <1>8, <1>11
<1>12. CASE \E content \in Sound : AccessBegin(FileOf("file", content, "person"), OpenFor(content[1].id), AllWrite, {})
  BY <1>1, <1>2, <1>7, <1>8, <1>12
<1>13. CASE \E content \in Sound, grant \in {<<"T", "expired">>, <<"alice", "refused">>, <<"K", "none">>, <<"nobody", "none">>} :
              AccessBegin(FileOf("file", content, "person"), AllGood, [AllWrite EXCEPT ![grant[1]] = grant[2]], {Everywhere})
  BY <1>1, <1>2, <1>7, <1>8, <1>13
<1> QED
  BY <1>9, <1>10, <1>11, <1>12, <1>13 DEF AccessInit, Rules

LEMMA AccessStep == AInv /\ [AccessNext]_accessVars => AInv'
<1> SUFFICES ASSUME AInv, [AccessNext]_accessVars PROVE AInv'
  OBVIOUS
<1>1. CASE UNCHANGED accessVars
  BY <1>1, SameCall, SameLoad DEF accessVars, AInv, AccessTypes, AccessTypeOK, PageSound, RowsTrue, IsTest, InitSound
<1>2. CASE \E c \in AccessCall, op \in {"run", "test", "page test", "init"}, options \in Options, caller \in Environments :
             BeginAccess(c, op, options, caller)
  BY <1>2, BeginSound
<1>3. CASE \E c \in AccessCall : LoadFile(c) \/ JudgeAndChoose(c) \/ ReadToken(c) \/ Exec(c) \/ CommandEnds(c)
  BY <1>3, LoadFileSound, JudgeSound, ReadTokenSound, ExecSound, CommandEndsSound
<1>4. CASE \E c \in AccessCall : Skips(c) \/ FirstQuestion(c) \/ SecondQuestion(c) \/ Unanswered(c)
  BY <1>4, SkipsSound, FirstQuestionSound, SecondQuestionSound, UnansweredSound
<1>5. CASE \E c \in AccessCall : InitLooks(c) \/ InitOpens(c) \/ InitWrites(c) \/ PageShows(c)
  BY <1>5, InitLooksSound, InitOpensSound, InitWritesSound, PageShowsSound
<1>6. CASE PageLoads \/ EditFile \/ CredentialChanges
  BY <1>6, PageLoadsSound, EditFileSound, CredentialChangesSound
<1> QED
  BY <1>1, <1>2, <1>3, <1>4, <1>5, <1>6 DEF AccessNext

\* The inductive invariant: what a call has judged, chosen and been told, what the
\* results of a test rest on, whose the rows of the page are and who made the file.
THEOREM AccessInvariance == AccessSpec => []AInv
<1> QED
  BY AccessBegins, AccessStep, PTL DEF AccessSpec

\* GithubKept of the runs, for every number of calls, edits and nested commands: a
\* command under run reaches its repository through the access chosen and no other
\* repository differently, sees one token, a test says what GitHub lets the access do,
\* the page shows each result at its own access, and init keeps a person's file.
THEOREM GithubIsKept == AccessSpec => []GithubKept
<1> QED
  BY AccessInvariance, GithubKeptHolds, PTL

(***************************************************************************)
(* Ranges (NpmRange), for every number a version may have.                 *)
(***************************************************************************)
Identifiers == [word : BOOLEAN, value : Nat]
AnyRelease == [major : Nat, minor : Nat, patch : Nat, pre : {<<>>}]
AnyPrerelease == [major : Nat, minor : Nat, patch : Nat, pre : Seq(Identifiers) \ {<<>>}]
PartOf == Nat \cup {X}
AnyPartial == {p \in [major : PartOf, minor : PartOf, patch : PartOf, pre : Seq(Identifiers)] : p.pre # <<>> => ~AnyX(p)}

LEMMA VersionIs ==
  ASSUME NEW a, NEW b, NEW c, NEW pre
  PROVE  LET v == Version(a, b, c, pre) IN v.major = a /\ v.minor = b /\ v.patch = c /\ v.pre = pre
BY DEF Version

\* What comes before what, where one of the two is a release.
LEMMA ReleaseOlder ==
  ASSUME NEW v \in AnyRelease, NEW w
  PROVE  /\ Older(v, w) <=> CoreBefore(v, w)
         /\ Older(w, v) <=> CoreBefore(w, v) \/ (SameCore(w, v) /\ w.pre # <<>>)
<1>1. v.pre = <<>>
  BY DEF AnyRelease
<1> QED
  BY <1>1 DEF Older, PreBefore

\* For a release a set of conditions is met when each is.
LEMMA ReleaseMeets ==
  ASSUME NEW v \in AnyRelease
  PROVE  /\ \A set : TestSet(set, v) <=> \A c \in set : Test(c, v)
         /\ Test(AnyVersion, v)
         /\ ~Test(None, v)
         /\ \A a, b, c, pre : Test(AtLeast(a, b, c, pre), v) <=> ~CoreBefore(v, Version(a, b, c, pre))
         /\ \A a, b, c : Test(Below(a, b, c), v) <=> CoreBefore(v, Version(a, b, c, <<Zero>>))
<1>1. v.pre = <<>> /\ v.major \in Nat /\ v.minor \in Nat /\ v.patch \in Nat
  BY DEF AnyRelease
<1>2. \A set : TestSet(set, v) <=> \A c \in set : Test(c, v)
  BY <1>1 DEF TestSet
<1>3. Test(AnyVersion, v)
  BY DEF Test, AnyVersion, Comparator
<1>4. \A a, b, c, pre : Test(AtLeast(a, b, c, pre), v) <=> ~CoreBefore(v, Version(a, b, c, pre))
  BY ReleaseOlder DEF Test, AtLeast, Comparator
<1>5. \A a, b, c : Test(Below(a, b, c), v) <=> CoreBefore(v, Version(a, b, c, <<Zero>>))
  BY ReleaseOlder DEF Test, Below, Comparator
<1>6. ~Test(None, v)
  BY ReleaseOlder, <1>1 DEF Test, None, Comparator, CoreBefore, Version
<1> QED
  BY <1>2, <1>3, <1>4, <1>5, <1>6

\* The places of a version one after the other.
LEMMA PlacesAre ==
  ASSUME NEW a, NEW b
  PROVE  /\ ~Ahead(a, b, 0)
         /\ Ahead(a, b, 1) <=> a.major < b.major
         /\ Ahead(a, b, 2) <=> a.major < b.major \/ (a.major = b.major /\ a.minor < b.minor)
         /\ Ahead(a, b, 3) <=> CoreBefore(a, b)
         /\ Agree(a, b, 0)
         /\ Agree(a, b, 1) <=> a.major = b.major
         /\ Agree(a, b, 2) <=> a.major = b.major /\ a.minor = b.minor
         /\ Agree(a, b, 3) <=> SameCore(a, b)
  BY DEF Place, Agree, Ahead, CoreBefore, SameCore

\* How many places a partial gives, and which of them a caret keeps.
LEMMA GivenIs ==
  ASSUME NEW p \in AnyPartial
  PROVE  \/ Given(p) = 0 /\ p.major = X
         \/ Given(p) = 1 /\ p.major \in Nat /\ p.minor = X
         \/ Given(p) = 2 /\ p.major \in Nat /\ p.minor \in Nat /\ p.patch = X
         \/ Given(p) = 3 /\ p.major \in Nat /\ p.minor \in Nat /\ p.patch \in Nat /\ ~AnyX(p)
  BY DEF AnyPartial, PartOf, X, Given, AnyX

LEMMA FixedIs ==
  ASSUME NEW p \in AnyPartial
  PROVE  /\ Given(p) = 0 => Fixed(p) = 0
         /\ Given(p) = 1 => Fixed(p) = 1
         /\ Given(p) = 2 => Fixed(p) = IF p.major # 0 THEN 1 ELSE 2
         /\ Given(p) = 3 => Fixed(p) = IF p.major # 0 THEN 1 ELSE IF p.minor # 0 THEN 2 ELSE 3
<1> DEFINE Firsts(n) == {i \in 1..n : Place(p, i) # 0 /\ \A j \in 1..(i - 1) : Place(p, j) = 0}
           Some(n) == \E i \in 1..n : Place(p, i) # 0
<1>1. Place(p, 1) = p.major /\ Place(p, 2) = p.minor /\ Place(p, 3) = p.patch
  BY DEF Place
<1>2. 1..0 = {} /\ 1..1 = {1} /\ 1..2 = {1, 2} /\ 1..3 = {1, 2, 3} /\ 1 - 1 = 0 /\ 2 - 1 = 1 /\ 3 - 1 = 2
  OBVIOUS
<1>3. Fixed(p) = IF Some(Given(p)) THEN CHOOSE i \in 1..Given(p) : Place(p, i) # 0 /\ \A j \in 1..(i - 1) : Place(p, j) = 0
                 ELSE Given(p)
  BY DEF Fixed
<1>4. ASSUME NEW n \in {1, 2, 3}, NEW k \in 1..n, Place(p, k) # 0, \A j \in 1..(k - 1) : Place(p, j) = 0, Given(p) = n
      PROVE  Fixed(p) = k
  BY <1>4, <1>3
<1>5. ASSUME NEW n \in {0, 1, 2, 3}, ~Some(n), Given(p) = n PROVE Fixed(p) = n
  BY <1>3, <1>5
<1>6. ASSUME Given(p) = 0 PROVE Fixed(p) = 0
  BY <1>2, <1>5, <1>6
<1>7. ASSUME NEW n \in {1, 2, 3}, Given(p) = n, p.major # 0 PROVE Fixed(p) = 1
  BY <1>1, <1>2, <1>4, <1>7
<1>8. ASSUME Given(p) = 1, p.major = 0 PROVE Fixed(p) = 1
  <2>1. ~Some(1)
    BY <1>1, <1>2, <1>8
  <2> QED
    BY <1>5, <1>8, <2>1
<1>9. ASSUME NEW n \in {2, 3}, Given(p) = n, p.major = 0, p.minor # 0 PROVE Fixed(p) = 2
  BY <1>1, <1>2, <1>4, <1>9
<1>10. ASSUME Given(p) = 2, p.major = 0, p.minor = 0 PROVE Fixed(p) = 2
  <2>1. ~Some(2)
    BY <1>1, <1>2, <1>10
  <2> QED
    BY <1>5, <1>10, <2>1
<1>11. ASSUME Given(p) = 3, p.major = 0, p.minor = 0 PROVE Fixed(p) = 3
  <2>1. CASE p.patch = 0
    <3>1. ~Some(3)
      BY <1>1, <1>2, <1>11, <2>1
    <3> QED
      BY <1>5, <1>11, <3>1
  <2>2. CASE p.patch # 0
    BY <1>1, <1>2, <1>4, <1>11, <2>2
  <2> QED
    BY <2>1, <2>2
<1> QED
  BY <1>6, <1>7, <1>8, <1>9, <1>10, <1>11

\* Before and after a version, by its three numbers.
LEMMA CoreIs ==
  ASSUME NEW v, NEW a, NEW b, NEW c, NEW pre
  PROVE  /\ CoreBefore(v, Version(a, b, c, pre)) <=>
              v.major < a \/ (v.major = a /\ v.minor < b) \/ (v.major = a /\ v.minor = b /\ v.patch < c)
         /\ CoreBefore(Version(a, b, c, pre), v) <=>
              a < v.major \/ (a = v.major /\ b < v.minor) \/ (a = v.major /\ b = v.minor /\ c < v.patch)
BY DEF CoreBefore, Version

\* A comparison with a whole version.
LEMMA ComparatorIs ==
  ASSUME NEW v \in AnyRelease, NEW w
  PROVE  LET below == CoreBefore(v, w)
             above == CoreBefore(w, v) \/ (SameCore(w, v) /\ w.pre # <<>>)
         IN /\ Test(Comparator(">=", w), v) <=> ~below
            /\ Test(Comparator(">", w), v) <=> above
            /\ Test(Comparator("<", w), v) <=> below
            /\ Test(Comparator("<=", w), v) <=> ~above
            /\ Test(Comparator("=", w), v) <=> ~below /\ ~above
BY ReleaseOlder DEF Test, Comparator

\* A comparison with a partial.
LEMMA WidenedIs ==
  ASSUME NEW p \in AnyPartial, NEW v \in AnyRelease, Given(p) \in {1, 2}
  PROVE  LET below == Ahead(v, p, Given(p))
             above == Ahead(p, v, Given(p))
         IN /\ Test(Widened(">=", p), v) <=> ~below
            /\ Test(Widened(">", p), v) <=> above
            /\ Test(Widened("<", p), v) <=> below
            /\ Test(Widened("<=", p), v) <=> ~above
<1>1. v.major \in Nat /\ v.minor \in Nat /\ v.patch \in Nat
  BY DEF AnyRelease
<1>2. /\ \A a, b, c, pre : Test(AtLeast(a, b, c, pre), v) <=> ~CoreBefore(v, Version(a, b, c, pre))
      /\ \A a, b, c : Test(Below(a, b, c), v) <=> CoreBefore(v, Version(a, b, c, <<Zero>>))
  BY ReleaseMeets
<1>3. CASE Given(p) = 1
  BY <1>3, GivenIs, PlacesAre, <1>1, <1>2, CoreIs DEF Widened
<1>4. CASE Given(p) = 2
  <2>1. /\ p.major \in Nat /\ p.minor \in Nat /\ p.minor # X
        /\ Ahead(v, p, 2) <=> v.major < p.major \/ (v.major = p.major /\ v.minor < p.minor)
        /\ Ahead(p, v, 2) <=> p.major < v.major \/ (p.major = v.major /\ p.minor < v.minor)
    BY <1>4, GivenIs, PlacesAre DEF X
  <2>2. /\ Widened(">=", p) = AtLeast(p.major, p.minor, 0, <<>>)
        /\ Widened(">", p) = AtLeast(p.major, p.minor + 1, 0, <<>>)
        /\ Widened("<", p) = Below(p.major, p.minor, 0)
        /\ Widened("<=", p) = Below(p.major, p.minor + 1, 0)
    BY <2>1 DEF Widened
  <2> QED
    BY <1>1, <1>2, <1>4, <2>1, <2>2, CoreIs
<1> QED
  BY <1>3, <1>4

\* Below and above a range with an operator.
LEMMA XRangeIs ==
  ASSUME NEW p \in AnyPartial, NEW v \in AnyRelease, NEW op \in {"=", ">=", ">", "<", "<="}
  PROVE  TestSet(XRange(op, p), v) <=> Meets(op, p, v)
<1> DEFINE below == Ahead(v, p, Given(p))
           above == Ahead(p, v, Given(p)) \/ (Given(p) = 3 /\ Agree(p, v, 3) /\ p.pre # <<>>)
<1>1. /\ op = "=" => (Meets(op, p, v) <=> ~below /\ ~above)
      /\ op = ">=" => (Meets(op, p, v) <=> ~below)
      /\ op = ">" => (Meets(op, p, v) <=> above)
      /\ op = "<" => (Meets(op, p, v) <=> below)
      /\ op = "<=" => (Meets(op, p, v) <=> ~above)
  BY DEF Meets
<1>2. \A set : TestSet(set, v) <=> \A c \in set : Test(c, v)
  BY ReleaseMeets
<1>3. CASE Given(p) = 0
  <2>1. p.major = X /\ ~below /\ ~above
    BY <1>3, GivenIs, PlacesAre DEF X
  <2>2. XRange(op, p) = IF op \in {">", "<"} THEN {None} ELSE {AnyVersion}
    BY <2>1 DEF XRange
  <2>3. Test(AnyVersion, v) /\ ~Test(None, v)
    BY ReleaseMeets
  <2> HIDE DEF below, above
  <2> QED
    BY <1>1, <1>2, <2>1, <2>2, <2>3
<1>4. CASE Given(p) \in {1, 2}
  <2>1. p.major # X /\ AnyX(p) /\ (above <=> Ahead(p, v, Given(p)))
    BY <1>4, GivenIs DEF X, AnyX
  <2>2. XRange(op, p) = IF op # "=" THEN {Widened(op, p)} ELSE {Widened(">=", p), Widened("<=", p)}
    BY <2>1 DEF XRange
  <2>3. /\ Test(Widened(">=", p), v) <=> ~below
        /\ Test(Widened(">", p), v) <=> above
        /\ Test(Widened("<", p), v) <=> below
        /\ Test(Widened("<=", p), v) <=> ~above
    BY <1>4, <2>1, WidenedIs
  <2> HIDE DEF below, above
  <2> QED
    BY <1>1, <1>2, <2>2, <2>3
<1>5. CASE Given(p) = 3
  <2>1. p.major # X /\ ~AnyX(p)
    BY <1>5, GivenIs DEF X
  <2>2. XRange(op, p) = {Comparator(op, p)}
    BY <2>1 DEF XRange
  <2>3. (below <=> CoreBefore(v, p)) /\ (above <=> (CoreBefore(p, v) \/ (SameCore(p, v) /\ p.pre # <<>>)))
    BY <1>5, PlacesAre
  <2>4. /\ Test(Comparator(">=", p), v) <=> ~below
        /\ Test(Comparator(">", p), v) <=> above
        /\ Test(Comparator("<", p), v) <=> below
        /\ Test(Comparator("<=", p), v) <=> ~above
        /\ Test(Comparator("=", p), v) <=> ~below /\ ~above
    BY <2>3, ComparatorIs
  <2> HIDE DEF below, above
  <2> QED
    BY <1>1, <1>2, <2>2, <2>4
<1> QED
  BY <1>3, <1>4, <1>5, GivenIs

\* ~: at least the version, and no further than its last place but one.
LEMMA TildeIs ==
  ASSUME NEW p \in AnyPartial, NEW v \in AnyRelease
  PROVE  TestSet(Tilde(p), v) <=> Meets("~", p, v)
<1>1. v.major \in Nat /\ v.minor \in Nat /\ v.patch \in Nat
  BY DEF AnyRelease
<1>2. /\ \A set : TestSet(set, v) <=> \A c \in set : Test(c, v)
      /\ Test(AnyVersion, v)
      /\ \A a, b, c, pre : Test(AtLeast(a, b, c, pre), v) <=> ~CoreBefore(v, Version(a, b, c, pre))
      /\ \A a, b, c : Test(Below(a, b, c), v) <=> CoreBefore(v, Version(a, b, c, <<Zero>>))
  BY ReleaseMeets
<1>3. Meets("~", p, v) <=> ~Ahead(v, p, Given(p)) /\ Agree(p, v, IF Given(p) < 2 THEN Given(p) ELSE 2)
  BY DEF Meets
<1>4. CASE Given(p) = 0
  BY <1>4, GivenIs, <1>2, <1>3, PlacesAre DEF X, Tilde
<1>5. CASE Given(p) = 1
  BY <1>5, GivenIs, <1>3, PlacesAre, <1>1, <1>2, CoreIs DEF X, Tilde
<1>6. CASE Given(p) = 2
  <2>1. p.major \in Nat /\ p.minor \in Nat
        /\ Tilde(p) = {AtLeast(p.major, p.minor, 0, p.pre), Below(p.major, p.minor + 1, 0)}
    BY <1>6, GivenIs DEF X, Tilde
  <2>2. Meets("~", p, v) <=> ~(v.major < p.major \/ (v.major = p.major /\ v.minor < p.minor))
                             /\ p.major = v.major /\ p.minor = v.minor
    BY <1>3, <1>6, PlacesAre
  <2> QED
    BY <1>1, <1>2, <2>1, <2>2, CoreIs
<1>7. CASE Given(p) = 3
  <2>1. p.major \in Nat /\ p.minor \in Nat /\ p.patch \in Nat
        /\ Tilde(p) = {AtLeast(p.major, p.minor, p.patch, p.pre), Below(p.major, p.minor + 1, 0)}
    BY <1>7, GivenIs DEF X, Tilde
  <2>2. Meets("~", p, v) <=> ~CoreBefore(v, p) /\ p.major = v.major /\ p.minor = v.minor
    BY <1>3, <1>7, PlacesAre
  <2>3. CoreBefore(v, p) <=> CoreBefore(v, Version(p.major, p.minor, p.patch, p.pre))
    BY DEF CoreBefore, Version
  <2> QED
    BY <1>1, <1>2, <2>1, <2>2, <2>3, CoreIs
<1> QED
  BY <1>4, <1>5, <1>6, <1>7, GivenIs

\* ^: at least the version, and the first place that is not 0 stays.
LEMMA CaretIs ==
  ASSUME NEW p \in AnyPartial, NEW v \in AnyRelease
  PROVE  TestSet(Caret(p), v) <=> Meets("^", p, v)
<1>1. v.major \in Nat /\ v.minor \in Nat /\ v.patch \in Nat
  BY DEF AnyRelease
<1>2. /\ \A set : TestSet(set, v) <=> \A c \in set : Test(c, v)
      /\ Test(AnyVersion, v)
      /\ \A a, b, c, pre : Test(AtLeast(a, b, c, pre), v) <=> ~CoreBefore(v, Version(a, b, c, pre))
      /\ \A a, b, c : Test(Below(a, b, c), v) <=> CoreBefore(v, Version(a, b, c, <<Zero>>))
  BY ReleaseMeets
<1>3. Meets("^", p, v) <=> ~Ahead(v, p, Given(p)) /\ Agree(p, v, Fixed(p))
  BY DEF Meets
<1>4. CASE Given(p) = 0
  BY <1>4, GivenIs, <1>2, <1>3, PlacesAre, FixedIs DEF X, Caret
<1>5. CASE Given(p) = 1
  BY <1>5, GivenIs, <1>3, PlacesAre, FixedIs, <1>1, <1>2, CoreIs DEF X, Caret
<1>6. CASE Given(p) = 2
  <2>1. p.major \in Nat /\ p.minor \in Nat
        /\ Caret(p) = {AtLeast(p.major, p.minor, 0, <<>>),
                       IF p.major = 0 THEN Below(0, p.minor + 1, 0) ELSE Below(p.major + 1, 0, 0)}
    BY <1>6, GivenIs DEF X, Caret
  <2>2. Meets("^", p, v) <=> ~(v.major < p.major \/ (v.major = p.major /\ v.minor < p.minor))
                             /\ p.major = v.major /\ (p.major = 0 => p.minor = v.minor)
    BY <1>3, <1>6, PlacesAre, FixedIs
  <2>3. CASE p.major = 0
    BY <1>1, <1>2, <2>1, <2>2, <2>3, CoreIs
  <2>4. CASE p.major # 0
    BY <1>1, <1>2, <2>1, <2>2, <2>4, CoreIs
  <2> QED
    BY <2>3, <2>4
<1>7. CASE Given(p) = 3
  <2>1. p.major \in Nat /\ p.minor \in Nat /\ p.patch \in Nat
        /\ Caret(p) = {AtLeast(p.major, p.minor, p.patch, p.pre),
                       IF p.major # 0 THEN Below(p.major + 1, 0, 0)
                       ELSE IF p.minor # 0 THEN Below(0, p.minor + 1, 0) ELSE Below(0, 0, p.patch + 1)}
    BY <1>7, GivenIs DEF X, Caret
  <2>2. Meets("^", p, v) <=> ~CoreBefore(v, p) /\ p.major = v.major
                             /\ (p.major = 0 => p.minor = v.minor) /\ (p.major = 0 /\ p.minor = 0 => p.patch = v.patch)
    BY <1>3, <1>7, PlacesAre, FixedIs DEF SameCore
  <2>3. CoreBefore(v, p) <=> CoreBefore(v, Version(p.major, p.minor, p.patch, p.pre))
    BY DEF CoreBefore, Version
  <2>4. CASE p.major # 0
    BY <1>1, <1>2, <2>1, <2>2, <2>3, <2>4, CoreIs
  <2>5. CASE p.major = 0 /\ p.minor # 0
    BY <1>1, <1>2, <2>1, <2>2, <2>3, <2>5, CoreIs
  <2>6. CASE p.major = 0 /\ p.minor = 0
    BY <1>1, <1>2, <2>1, <2>2, <2>3, <2>6, CoreIs
  <2> QED
    BY <2>4, <2>5, <2>6
<1> QED
  BY <1>4, <1>5, <1>6, <1>7, GivenIs

\* From a version to another.
LEMMA HyphenIs ==
  ASSUME NEW p \in AnyPartial, NEW to \in AnyPartial, NEW v \in AnyRelease
  PROVE  TestSet(Hyphen(p, to), v) <=> Meets(">=", p, v) /\ Meets("<=", to, v)
<1> DEFINE lower == IF p.major = X THEN {} ELSE IF AnyX(p) THEN {Widened(">=", p)} ELSE {Comparator(">=", p)}
           upper == IF to.major = X THEN {} ELSE IF AnyX(to) THEN {Widened("<=", to)} ELSE {Comparator("<=", to)}
<1>1. /\ \A set : TestSet(set, v) <=> \A c \in set : Test(c, v)
      /\ Test(AnyVersion, v)
  BY ReleaseMeets
<1>2. (\A c \in lower : Test(c, v)) <=> Meets(">=", p, v)
  BY XRangeIs, <1>1 DEF XRange
<1>3. (\A c \in upper : Test(c, v)) <=> Meets("<=", to, v)
  BY XRangeIs, <1>1 DEF XRange
<1>4. Hyphen(p, to) = IF lower \cup upper = {} THEN {AnyVersion} ELSE lower \cup upper
  BY DEF Hyphen
<1> HIDE DEF lower, upper
<1>5. TestSet(Hyphen(p, to), v) <=> \A c \in lower \cup upper : Test(c, v)
  BY <1>1, <1>4
<1> QED
  BY <1>2, <1>3, <1>5

\* A released version meets a token of a declaration, or a range from one version to
\* another, exactly where the range means it, place by place, whatever the numbers are
\* (ReleasesTrue is the same over small numbers).
THEOREM RangesMean ==
  ASSUME NEW p \in AnyPartial, NEW to \in AnyPartial, NEW v \in AnyRelease
  PROVE  /\ \A op \in Operators : TestSet(TokenSet(op, p), v) <=> Meets(op, p, v)
         /\ TestSet(Hyphen(p, to), v) <=> Meets(">=", p, v) /\ Meets("<=", to, v)
  BY XRangeIs, TildeIs, CaretIs, HyphenIs DEF TokenSet, Operators

\* The upper bound of a range lets no prerelease of itself in.
LEMMA NoneBelow ==
  ASSUME NEW v \in AnyPrerelease, NEW a, NEW b, NEW c, SameCore(Version(a, b, c, <<Zero>>), v)
  PROVE  ~Older(v, Version(a, b, c, <<Zero>>))
<1> DEFINE w == Version(a, b, c, <<Zero>>)
           s == v.pre
<1>1. v.major \in Nat /\ v.minor \in Nat /\ v.patch \in Nat /\ s \in Seq(Identifiers) /\ s # <<>>
  BY DEF AnyPrerelease
<1>2. w.major = v.major /\ w.minor = v.minor /\ w.patch = v.patch /\ w.pre = <<Zero>>
  BY VersionIs DEF SameCore
<1>3. ~CoreBefore(v, w)
  BY <1>1, <1>2 DEF CoreBefore
<1> HIDE DEF s
<1>4. Len(s) \in Nat /\ Len(s) >= 1 /\ s[1] \in Identifiers /\ Len(<<Zero>>) = 1 /\ <<Zero>>[1] = Zero
  BY <1>1
<1>5. ~IdBefore(s[1], Zero)
  <2>1. s[1].value \in Nat /\ s[1].word \in BOOLEAN
    BY <1>4 DEF Identifiers
  <2>2. Zero.word = FALSE /\ Zero.value = 0
    BY DEF Zero
  <2>3. CASE s[1].word = FALSE
    BY <2>2, <2>3, <2>1 DEF IdBefore
  <2>4. CASE s[1].word = TRUE
    BY <2>2, <2>4 DEF IdBefore
  <2> QED
    BY <2>1, <2>3, <2>4
<1>6. ~PreBefore(s, <<Zero>>)
  BY <1>4, <1>5 DEF PreBefore
<1> QED
  BY <1>2, <1>3, <1>6 DEF Older, s

\* What a prerelease needs: a condition that names one of the same core.
LEMMA PrereleaseNeeds ==
  ASSUME NEW v \in AnyPrerelease, NEW p, NEW set, TestSet(set, v),
         \A c \in set : \/ c.op = "any"
                        \/ \E a, b, d : c = Below(a, b, d)
                        \/ c.version.pre = <<>>
                        \/ c.version.pre = p.pre /\ SameCore(c.version, p)
  PROVE  p.pre # <<>> /\ SameCore(p, v)
  BY NoneBelow DEF AnyPrerelease, TestSet, Below, Comparator, Test, SameCore

LEMMA ConditionIs ==
  ASSUME NEW a, NEW b, NEW c, NEW pre, NEW op, NEW w
  PROVE  /\ AtLeast(a, b, c, pre).version = Version(a, b, c, pre) /\ AtLeast(a, b, c, pre).op = ">="
         /\ AtLeast(a, b, c, pre).version.pre = pre
         /\ Comparator(op, w).version = w /\ Comparator(op, w).op = op
         /\ AnyVersion.op = "any" /\ None = Below(0, 0, 0)
BY DEF AtLeast, Comparator, Version, AnyVersion, None, Below

\* The order of versions rests on their parts.
LEMMA SameParts ==
  ASSUME NEW p, NEW v
  PROVE  LET w == Version(p.major, p.minor, p.patch, p.pre)
         IN (Older(v, w) <=> Older(v, p)) /\ SameCore(w, p) /\ w.pre = p.pre
BY DEF Version, Older, CoreBefore, SameCore

\* A prerelease meets a token only where it names a prerelease of the same version and,
\* by order, lets this one in, whatever the numbers and identifiers are (PrereleasesTrue
\* is the same over small ones).
THEOREM PrereleasesNeedTheirOwn ==
  ASSUME NEW p \in AnyPartial, NEW v \in AnyPrerelease, NEW op \in Operators, TestSet(TokenSet(op, p), v)
  PROVE  /\ p.pre # <<>> /\ SameCore(p, v)
         /\ op \in {">=", "~", "^"} => ~Older(v, p)
         /\ op \in {"<=", "="} => ~Older(p, v)
<1> DEFINE w == Version(p.major, p.minor, p.patch, p.pre)
           mine == AtLeast(p.major, p.minor, p.patch, p.pre)
<1>1. \A c \in TokenSet(op, p) : Test(c, v)
  BY DEF TestSet
<1>2. p.pre # <<>> => p.major # X /\ p.minor # X /\ p.patch # X /\ ~AnyX(p)
  BY DEF AnyPartial, AnyX
<1>3. mine.version = w /\ mine.op = ">=" /\ mine.version.pre = p.pre /\ SameCore(mine.version, p)
  BY ConditionIs, SameParts
<1>4. mine \in TokenSet(op, p) => ~Older(v, p)
  BY <1>3, <1>1, SameParts DEF Test
<1>5. CASE op = "~"
  <2>1. TokenSet(op, p) = Tilde(p)
    BY <1>5 DEF TokenSet
  <2>2. CASE p.pre = <<>>
    BY <2>2, ConditionIs, <2>1, PrereleaseNeeds DEF Tilde
  <2>3. CASE p.pre # <<>>
    <3>1. Tilde(p) = {mine, Below(p.major, p.minor + 1, 0)}
      BY <1>2, <2>3 DEF Tilde
    <3> HIDE DEF mine
    <3>2. p.pre # <<>> /\ SameCore(p, v)
      BY <1>3, <2>1, <3>1, PrereleaseNeeds
    <3> QED
      BY <1>4, <1>5, <2>1, <3>1, <3>2
  <2> QED
    BY <2>2, <2>3
<1>6. CASE op = "^"
  <2>1. TokenSet(op, p) = Caret(p)
    BY <1>6 DEF TokenSet
  <2>2. CASE p.pre = <<>>
    BY <2>2, ConditionIs, <2>1, PrereleaseNeeds DEF Caret
  <2>3. CASE p.pre # <<>>
    <3>1. mine \in Caret(p) /\ \A c \in Caret(p) : c = mine \/ \E a, b, d : c = Below(a, b, d)
      BY <1>2, <2>3 DEF Caret
    <3> HIDE DEF mine
    <3>2. p.pre # <<>> /\ SameCore(p, v)
      BY <1>3, <2>1, <3>1, PrereleaseNeeds
    <3> QED
      BY <1>4, <1>6, <2>1, <3>1, <3>2
  <2> QED
    BY <2>2, <2>3
<1>7. CASE op \in {"=", ">=", ">", "<", "<="}
  <2>1. TokenSet(op, p) = XRange(op, p)
    BY <1>7 DEF TokenSet
  <2>2. CASE p.pre = <<>>
    BY ConditionIs, <2>2, <2>1, PrereleaseNeeds DEF Widened, XRange
  <2>3. CASE p.pre # <<>>
    BY <1>2, <2>3, ConditionIs, <2>1, PrereleaseNeeds, <1>1, <1>7 DEF XRange, SameCore, Test
  <2> QED
    BY <2>2, <2>3
<1> QED
  BY <1>5, <1>6, <1>7 DEF Operators

LEMMA SmallAre ==
  /\ Partials \subseteq AnyPartial /\ Releases \subseteq AnyRelease /\ Prereleases \subseteq AnyPrerelease
<1>1. Zero \in Identifiers /\ Letters(1) \in Identifiers
  BY DEF Zero, Letters, Identifiers
<1>2. <<Letters(1)>> \in Seq(Identifiers) \ {<<>>} /\ <<Letters(1), Zero>> \in Seq(Identifiers) \ {<<>>}
      /\ <<Zero>> \in Seq(Identifiers) \ {<<>>} /\ <<>> \in Seq(Identifiers)
  <2> DEFINE z == Zero
             l == Letters(1)
  <2>1. z \in Identifiers /\ l \in Identifiers
    BY <1>1
  <2> HIDE DEF z, l
  <2>2. <<l>> \in Seq(Identifiers) \ {<<>>} /\ <<l, z>> \in Seq(Identifiers) \ {<<>>}
        /\ <<z>> \in Seq(Identifiers) \ {<<>>} /\ <<>> \in Seq(Identifiers)
    BY <2>1
  <2> QED
    BY <2>2 DEF z, l
<1>3. \A n \in 0..2 : n \in Nat
  OBVIOUS
<1>4. Releases \subseteq AnyRelease
  BY <1>3 DEF Parts, Version, AnyRelease, Releases
<1>5. Prereleases \subseteq AnyPrerelease
  <2>1. ASSUME NEW a \in 0..1, NEW b \in 0..1, NEW c \in 0..1, NEW pre \in Betas PROVE Version(a, b, c, pre) \in AnyPrerelease
    <3>1. pre \in Seq(Identifiers) \ {<<>>}
      BY <1>2 DEF Betas
    <3>2. a \in Nat /\ b \in Nat /\ c \in Nat
      OBVIOUS
    <3> QED
      BY <3>1, <3>2 DEF Version, AnyPrerelease
  <2> QED
    BY <2>1 DEF Prereleases
<1>6. Partials \subseteq AnyPartial
  <2>1. 0 \in PartOf /\ 1 \in PartOf /\ X \in PartOf /\ 0 # X /\ 1 # X
    BY DEF PartOf, X
  <2>2. ASSUME NEW a \in {X, 0, 1}, NEW b \in {X, 0, 1}, NEW c \in {X, 0, 1} PROVE Partial(a, b, c, <<>>) \in AnyPartial
    BY <2>1, <1>2 DEF Partial, Version, AnyPartial
  <2>3. ASSUME NEW a \in 0..1, NEW b \in 0..1, NEW c \in 0..1 PROVE Partial(a, b, c, <<Letters(1)>>) \in AnyPartial
    <3>1. a \in PartOf /\ b \in PartOf /\ c \in PartOf /\ a # X /\ b # X /\ c # X
      BY DEF PartOf, X
    <3> DEFINE l == <<Letters(1)>>
    <3>2. l \in Seq(Identifiers)
      BY <1>2
    <3> HIDE DEF l
    <3>3. Partial(a, b, c, l) \in AnyPartial
      BY <3>1, <3>2 DEF Partial, Version, AnyPartial, AnyX
    <3> QED
      BY <3>3 DEF l
  <2> QED
    BY <2>2, <2>3 DEF Partials
<1> QED
  BY <1>4, <1>5, <1>6

LEMMA RangesTrue == ReleasesTrue /\ PrereleasesTrue
  BY SmallAre, RangesMean, PrereleasesNeedTheirOwn DEF ReleasesTrue, PrereleasesTrue

(***************************************************************************)
(* Deviations.                                                             *)
(***************************************************************************)
LEMMA MoreThanOne ==
  ASSUME NEW S, IsFiniteSet(S)
  PROVE  Cardinality(S) > 1 <=> \E s, t \in S : s # t
<1>1. Cardinality(S) \in Nat /\ (Cardinality(S) = 0 <=> S = {}) /\ (Cardinality(S) = 1 <=> \E x : S = {x})
  BY FS_CardinalityType, FS_EmptySet, FS_Singleton
<1>2. CASE S = {}
  BY <1>1, <1>2
<1>3. CASE \E x : S = {x}
  <2>1. Cardinality(S) = 1
    BY <1>1, <1>3
  <2>2. ~(Cardinality(S) > 1)
    BY <2>1
  <2>3. ~\E s, t \in S : s # t
    BY <1>3
  <2> QED
    BY <2>2, <2>3
<1>4. CASE S # {} /\ ~\E x : S = {x}
  BY <1>1, <1>4
<1> QED
  BY <1>2, <1>3, <1>4

LEMMA FiniteImage ==
  ASSUME NEW S, IsFiniteSet(S), NEW f, DOMAIN f = S
  PROVE  IsFiniteSet({f[x] : x \in S})
<1> DEFINE T == {f[x] : x \in S}
           g == [x \in S |-> f[x]]
<1>1. g \in Surjection(S, T)
  BY DEF Surjection
<1> QED
  BY <1>1, FS_Surjection

\* An entry as it is read: the lock file and its manifest lie in one directory and are
\* never configured, so both are of the environment of their kind.
Raw(e) ==
  /\ e = [file |-> e.file, key |-> e.key, name |-> e.name, version |-> e.version, context |-> e.context,
          manifest |-> e.manifest, violates |-> e.violates]
  /\ e.violates = {} /\ e.manifest = IF e.file = "lock" THEN "manifest" ELSE "none"
  /\ e.file = "manifest" => e.version \in {"^1.0", "1.0.0", "alias"}
  /\ e.file = "lock" => e.version \in {"1.0.0", "2.0.0", "link"}
  /\ e.file \in {"lock", "manifest"} => e.context = "lokal"

Noted(e, R) ==
  IF e.manifest # "none" THEN [e EXCEPT !.violates = {<<d.key, d.version>> : d \in Violated(e, R)}] ELSE e
Named(n, R) == {e \in R : e.name = n}
Said(n, R) == {[declared |-> s.declared, version |-> s.version] : s \in Statements(Named(n, R))}
Conflicting(n, R) == \E s, t \in Statements(Named(n, R)) : s.context = t.context /\ s # t

\* What DeviationsTrue says of a result.
Pair(l, d) == l.file = "lock" /\ d.file = "manifest" /\ l.name = d.name /\ l.context = d.context
Checks(l, d) == Checkable(Declared[d.version], Locked[l.version])
Fits(l, d) == Satisfies(Declared[d.version], Locked[l.version])
DeviationsSound(r) ==
  /\ \A l, d \in r.entries : Pair(l, d) /\ Checks(l, d) /\ ~Fits(l, d) =>
       /\ <<d.key, d.version>> \in l.violates
       /\ \E x \in r.deviations : x.art = "conflicting" /\ {l, d} \subseteq x.entries
  /\ \A d, e \in r.entries :
       d.name = e.name /\ d.version # e.version /\ ~Pair(d, e) /\ ~Pair(e, d) /\ ~(d.file = "manifest" /\ e.file = "manifest")
         => \E x \in r.deviations : {d, e} \subseteq x.entries
  /\ \A x \in r.deviations :
       /\ x.entries = {e \in r.entries : e.name = x.group}
       /\ x.art = "conflicting" => \E d, e \in x.entries : d # e /\ d.context = e.context
       /\ ~\E l \in x.entries : \A d \in x.entries \ {l} : Pair(l, d) /\ Checks(l, d) /\ Fits(l, d)

LEMMA DeviationsAre == DeviationsTrue <=> \A s \in Surveyed : DeviationsSound(survey[s].result)
BY DEF DeviationsTrue, DeviationsSound, Pair, Checks, Fits

\* An entry with its remarks is the entry but for the remarks.
LEMMA NotedIs ==
  ASSUME NEW R, NEW e, Raw(e)
  PROVE  LET n == Noted(e, R) IN
         /\ n.file = e.file /\ n.key = e.key /\ n.name = e.name /\ n.version = e.version /\ n.context = e.context
         /\ n.manifest = e.manifest
         /\ e.manifest # "none" => n.violates = {<<d.key, d.version>> : d \in Violated(e, R)}
<1> DEFINE v == {<<d.key, d.version>> : d \in Violated(e, R)}
<1>1. Noted(e, R) = IF e.manifest # "none" THEN [e EXCEPT !.violates = v] ELSE e
  BY DEF Noted
<1> HIDE DEF v
<1>2. e = [file |-> e.file, key |-> e.key, name |-> e.name, version |-> e.version, context |-> e.context,
           manifest |-> e.manifest, violates |-> e.violates]
  BY DEF Raw
<1>3. CASE e.manifest = "none"
  BY <1>1, <1>3
<1>4. CASE e.manifest # "none"
  BY <1>1, <1>4, <1>2 DEF v
<1> QED
  BY <1>3, <1>4

LEMMA NotedDiffer ==
  ASSUME NEW R, NEW d, NEW e, Raw(d), Raw(e), d # e
  PROVE  Noted(d, R) # Noted(e, R)
<1> SUFFICES ASSUME Noted(d, R) = Noted(e, R) PROVE FALSE
  OBVIOUS
<1>1. d.file = e.file /\ d.key = e.key /\ d.name = e.name /\ d.version = e.version /\ d.context = e.context
      /\ d.manifest = e.manifest
  BY NotedIs
<1>2. d.violates = e.violates
  BY DEF Raw
<1> QED
  BY <1>1, <1>2 DEF Raw

\* What a locked row declares, and a row that is a statement of its own.
Counts(l, E) == [v \in {e.version : e \in Partners(l, E)} |-> Cardinality({e \in Partners(l, E) : e.version = v})]
Alone(e, E) == ~Pairs(e, E) /\ \A l \in E : Pairs(l, E) => e \notin Partners(l, E)
StatementOf(e, E) == Statement(e.context, IF Pairs(e, E) THEN Counts(e, E) ELSE <<>>, e.version)

LEMMA StatementIs ==
  ASSUME NEW c, NEW d, NEW v
  PROVE  Statement(c, d, v).context = c /\ Statement(c, d, v).declared = d /\ Statement(c, d, v).version = v
BY DEF Statement

LEMMA StatementsAre ==
  ASSUME NEW E
  PROVE  Statements(E) = {StatementOf(e, E) : e \in {e \in E : Pairs(e, E) \/ Alone(e, E)}}
<1> DEFINE locks == {e \in E : Pairs(e, E)}
           paired == locks \cup UNION {Partners(l, E) : l \in locks}
           pairs == {Statement(l.context, Counts(l, E), l.version) : l \in locks}
           rest == {Statement(e.context, <<>>, e.version) : e \in E \ paired}
<1>1. Statements(E) = pairs \cup rest
  BY DEF Statements, Counts
<1>2. \A e \in E : e \in E \ paired <=> Alone(e, E)
  BY DEF Alone
<1>3. \A e \in locks : StatementOf(e, E) = Statement(e.context, Counts(e, E), e.version)
  BY DEF StatementOf
<1>4. \A e \in E \ paired : StatementOf(e, E) = Statement(e.context, <<>>, e.version)
  BY <1>2 DEF StatementOf, Alone
<1>5. pairs \cup rest = {StatementOf(e, E) : e \in {e \in E : Pairs(e, E) \/ Alone(e, E)}}
  BY <1>2, <1>3, <1>4
<1> QED
  BY <1>1, <1>5

LEMMA SaidIsFinite ==
  ASSUME NEW n, NEW R, IsFiniteSet(R)
  PROVE  IsFiniteSet(Said(n, R))
<1> DEFINE E == Named(n, R)
           S == {e \in E : Pairs(e, E) \/ Alone(e, E)}
           said(s) == [declared |-> s.declared, version |-> s.version]
           f == [e \in S |-> said(StatementOf(e, E))]
<1>1. IsFiniteSet(S)
  <2>1. S \subseteq R
    BY DEF Named
  <2> QED
    BY <2>1, FS_Subset
<1>2. Said(n, R) = {said(s) : s \in Statements(E)}
  BY DEF Said
<1>3. Statements(E) = {StatementOf(e, E) : e \in S}
  BY StatementsAre
<1> HIDE DEF E, S
<1>4. {said(s) : s \in Statements(E)} = {f[x] : x \in S}
  BY <1>3
<1>5. DOMAIN f = S
  OBVIOUS
<1> HIDE DEF f, said
<1>6. IsFiniteSet({f[x] : x \in S})
  BY <1>1, <1>5, FiniteImage
<1> QED
  BY <1>2, <1>4, <1>6

\* With whom a row is paired.
LEMMA PairsAre ==
  ASSUME NEW n, NEW R, \A e \in R : Raw(e)
  PROVE  LET E == Named(n, R) IN
         /\ \A l \in E : Pairs(l, E) => l.file = "lock" /\ Counts(l, E) # <<>>
         /\ \A l, d \in E : l.file = "lock" => (d \in Partners(l, E) <=> Pair(l, d))
         /\ \A l \in E : l.file = "lock" => (Pairs(l, E) \/ Alone(l, E))
         /\ \A e \in E : e.file \notin {"lock", "manifest"} => Alone(e, E)
<1> DEFINE E == Named(n, R)
<1>1. \A e \in E : e \in R /\ Raw(e) /\ e.name = n
  BY DEF Named
<1>2. \A e \in E : e.manifest = IF e.file = "lock" THEN "manifest" ELSE "none"
  BY <1>1 DEF Raw
<1>3. \A e \in E : (e.file = "lock" => e.manifest = "manifest") /\ (e.file # "lock" => e.manifest = "none")
  BY <1>2
<1>4. "manifest" # "none" /\ "manifest" # "lock"
  OBVIOUS
<1>5. ASSUME NEW l \in E, Pairs(l, E)
      PROVE  l.file = "lock" /\ Counts(l, E) # <<>>
  BY <1>5, <1>3 DEF Pairs, Counts
<1>6. ASSUME NEW l \in E, NEW d \in E, l.file = "lock"
      PROVE  d \in Partners(l, E) <=> Pair(l, d)
  BY <1>1, <1>3, <1>6, <1>4 DEF Partners, Pair
<1>7. \A l, e \in E : Pairs(l, E) /\ e \in Partners(l, E) => e.file = "manifest"
  BY <1>5, <1>6 DEF Pair
<1>8. ASSUME NEW l \in E, l.file = "lock"
      PROVE  Pairs(l, E) \/ Alone(l, E)
  BY <1>4, <1>7, <1>8 DEF Alone
<1>9. ASSUME NEW e \in E, e.file \notin {"lock", "manifest"}
      PROVE  Alone(e, E)
  BY <1>5, <1>7, <1>9 DEF Alone
<1> HIDE DEF E
<1>10. /\ \A l \in E : Pairs(l, E) => l.file = "lock" /\ Counts(l, E) # <<>>
       /\ \A l, d \in E : l.file = "lock" => (d \in Partners(l, E) <=> Pair(l, d))
       /\ \A l \in E : l.file = "lock" => (Pairs(l, E) \/ Alone(l, E))
       /\ \A e \in E : e.file \notin {"lock", "manifest"} => Alone(e, E)
  BY <1>5, <1>6, <1>8, <1>9
<1> QED
  BY <1>10 DEF E

\* A version meets the range that names it.
LEMMA OneFits == Satisfies(Declared["1.0.0"], Locked["1.0.0"])
<1> DEFINE v == Version(1, 0, 0, <<>>)
<1>1. Declared["1.0.0"] = {XRange("=", Partial(1, 0, 0, <<>>))}
  BY DEF Declared
<1>2. Locked["1.0.0"] = v
  BY DEF Locked
<1>3. XRange("=", Partial(1, 0, 0, <<>>)) = {Comparator("=", v)}
  BY VersionIs DEF AnyX, X, XRange, Partial
<1>4. TestSet({Comparator("=", v)}, v)
  BY DEF Version, Older, CoreBefore, PreBefore, Test, Comparator, TestSet
<1> QED
  BY <1>1, <1>2, <1>3, <1>4 DEF Satisfies

Group(n, R) == {e \in {Noted(e, R) : e \in R} : e.name = n}
DeviationsIn(R) ==
  {[group |-> n, entries |-> Group(n, R), art |-> IF Conflicting(n, R) THEN "conflicting" ELSE "environmental"] :
     n \in {n \in {e.name : e \in R} : Cardinality(Said(n, R)) > 1}}

LEMMA DeviationIs ==
  ASSUME NEW R
  PROVE  \A x \in DeviationsIn(R) :
           /\ x.group \in {e.name : e \in R} /\ Cardinality(Said(x.group, R)) > 1
           /\ x.entries = Group(x.group, R)
           /\ x.art = "conflicting" <=> Conflicting(x.group, R)
  BY DEF DeviationsIn

\* Two statements that say different things make a deviation of their group.
LEMMA TwoDeviate ==
  ASSUME NEW R, IsFiniteSet(R), \A e \in R : Raw(e), NEW e \in R,
         NEW s \in Statements(Named(e.name, R)), NEW t \in Statements(Named(e.name, R)),
         s.declared # t.declared \/ s.version # t.version
  PROVE  \E x \in DeviationsIn(R) :
           /\ x.entries = Group(e.name, R)
           /\ s.context = t.context => x.art = "conflicting"
<1> DEFINE n == e.name
           a == [declared |-> s.declared, version |-> s.version]
           b == [declared |-> t.declared, version |-> t.version]
           x == [group |-> n, entries |-> Group(n, R), art |-> IF Conflicting(n, R) THEN "conflicting" ELSE "environmental"]
<1>1. a \in Said(n, R) /\ b \in Said(n, R)
  BY DEF Said
<1>2. a # b
  OBVIOUS
<1>3. Cardinality(Said(n, R)) > 1
  <2>1. IsFiniteSet(Said(n, R))
    BY SaidIsFinite
  <2> QED
    BY <1>1, <1>2, <2>1, MoreThanOne
<1>4. x \in DeviationsIn(R)
  BY <1>3 DEF DeviationsIn
<1>5. s.context = t.context => Conflicting(n, R)
  BY DEF Conflicting
<1>6. x.entries = Group(n, R) /\ (Conflicting(n, R) => x.art = "conflicting")
  OBVIOUS
<1> QED
  BY <1>4, <1>5, <1>6

\* What a row states, or the locked row it belongs to.
LEMMA RowStates ==
  ASSUME NEW R, \A e \in R : Raw(e), NEW e \in R
  PROVE  LET E == Named(e.name, R) IN
         \/ \E s \in Statements(E) : s.context = e.context /\ s.version = e.version /\ s.declared = <<>> /\ Alone(e, E)
         \/ /\ Pairs(e, E) /\ e.file = "lock"
            /\ \E s \in Statements(E) : s.context = e.context /\ s.version = e.version /\ s.declared # <<>>
         \/ /\ e.file = "manifest"
            /\ \E s \in Statements(E) : s.context = e.context /\ s.declared # <<>>
<1> DEFINE E == Named(e.name, R)
<1>1. e \in E /\ e \in R /\ Raw(e)
  BY DEF Named
<1>2. /\ \A l \in E : Pairs(l, E) => l.file = "lock" /\ Counts(l, E) # <<>>
      /\ \A l, d \in E : l.file = "lock" => (d \in Partners(l, E) <=> Pair(l, d))
  BY PairsAre
<1>3. \A f \in E : Pairs(f, E) \/ Alone(f, E) => StatementOf(f, E) \in Statements(E)
  BY StatementsAre
<1>4. \A f \in E : /\ StatementOf(f, E).context = f.context /\ StatementOf(f, E).version = f.version
                   /\ StatementOf(f, E).declared = IF Pairs(f, E) THEN Counts(f, E) ELSE <<>>
  BY StatementIs DEF StatementOf
<1>5. CASE Alone(e, E)
  <2>1. ~Pairs(e, E)
    BY <1>5 DEF Alone
  <2> HIDE DEF E
  <2>2. StatementOf(e, E).declared = <<>>
    BY <1>1, <1>4, <2>1
  <2>3. \E s \in Statements(E) : s.context = e.context /\ s.version = e.version /\ s.declared = <<>> /\ Alone(e, E)
    BY <1>1, <1>3, <1>4, <1>5, <2>2
  <2> QED
    BY <2>3 DEF E
<1>6. CASE Pairs(e, E)
  <2> HIDE DEF E
  <2>1. StatementOf(e, E).declared = Counts(e, E) /\ Counts(e, E) # <<>> /\ e.file = "lock"
    BY <1>1, <1>2, <1>4, <1>6
  <2>2. \E s \in Statements(E) : s.context = e.context /\ s.version = e.version /\ s.declared # <<>>
    BY <1>1, <1>3, <1>4, <1>6, <2>1
  <2> QED
    BY <1>6, <2>1, <2>2 DEF E
<1>7. CASE ~Alone(e, E) /\ ~Pairs(e, E)
  <2>1. PICK l \in E : Pairs(l, E) /\ e \in Partners(l, E)
    BY <1>7 DEF Alone
  <2> HIDE DEF E
  <2>2. Pair(l, e) /\ Counts(l, E) # <<>>
    BY <1>1, <1>2, <2>1
  <2>3. e.file = "manifest" /\ l.context = e.context
    BY <2>2 DEF Pair
  <2>4. StatementOf(l, E).declared # <<>> /\ StatementOf(l, E).context = e.context
    BY <1>4, <2>1, <2>2, <2>3
  <2>5. StatementOf(l, E) \in Statements(E)
    BY <1>3, <2>1
  <2> QED
    BY <2>3, <2>4, <2>5 DEF E
<1> QED
  BY <1>5, <1>6, <1>7

\* A locked version outside a range it can be checked against.
LEMMA ViolatedDeviates ==
  ASSUME NEW R, IsFiniteSet(R), \A e \in R : Raw(e),
         NEW l \in R, NEW d \in R, Pair(l, d), Checks(l, d), ~Fits(l, d)
  PROVE  /\ <<d.key, d.version>> \in Noted(l, R).violates
         /\ \E x \in DeviationsIn(R) : x.art = "conflicting" /\ x.entries = Group(l.name, R)
<1> DEFINE E == Named(l.name, R)
<1>1. Raw(l) /\ Raw(d) /\ l.file = "lock" /\ d.file = "manifest" /\ l.name = d.name /\ l.context = d.context
  BY DEF Pair
<1>2. l.manifest = "manifest" /\ d.manifest = "none" /\ l.manifest # "none"
  BY <1>1 DEF Raw
<1>3. <<d.key, d.version>> \in Noted(l, R).violates
  BY <1>1, <1>2, NotedIs DEF Violated, Partners, Checks, Fits
<1>4. l \in E /\ d \in E
  BY <1>1 DEF Named
<1>5. d \in Partners(l, E)
  BY <1>1, <1>2, <1>4 DEF Partners
<1>6. ~Pairs(l, E)
  BY <1>5 DEF Pairs, Fits
<1>7. PICK s \in Statements(E) : s.context = l.context /\ s.version = l.version /\ s.declared = <<>>
  <2>1. l.file # "manifest"
    BY <1>1
  <2> QED
    BY <1>6, <2>1, RowStates
<1>8. PICK t \in Statements(E) : t.context = d.context /\ (t.declared # <<>> \/ t.version = d.version)
  <2>1. Named(d.name, R) = E
    BY <1>1
  <2> HIDE DEF E
  <2> QED
    BY <2>1, RowStates
<1>9. l.version # d.version
  BY <1>1, OneFits DEF Raw, Fits
<1>10. s.declared # t.declared \/ s.version # t.version
  BY <1>7, <1>8, <1>9
<1>11. s.context = t.context
  BY <1>1, <1>7, <1>8
<1>12. \E x \in DeviationsIn(R) : x.entries = Group(l.name, R) /\ (s.context = t.context => x.art = "conflicting")
  BY <1>10, TwoDeviate
<1> QED
  BY <1>3, <1>11, <1>12

\* Rows that differ and are no such pair.
LEMMA DifferentDeviate ==
  ASSUME NEW R, IsFiniteSet(R), \A e \in R : Raw(e),
         NEW d \in R, NEW e \in R, d.name = e.name, d.version # e.version, ~Pair(d, e), d.file # "manifest"
  PROVE  \E x \in DeviationsIn(R) : x.entries = Group(d.name, R)
<1> DEFINE E == Named(d.name, R)
<1>1. Raw(d) /\ Raw(e)
  OBVIOUS
<1>2. \/ \E s \in Statements(E) : s.version = d.version /\ s.declared = <<>>
      \/ d.file = "lock" /\ \E s \in Statements(E) : s.version = d.version
  BY RowStates
<1>3. Named(e.name, R) = E
  OBVIOUS
<1>4. \/ \E t \in Statements(E) : t.version = e.version
      \/ e.file = "manifest" /\ \E t \in Statements(E) : t.declared # <<>>
  <2> HIDE DEF E
  <2> QED
    BY <1>3, RowStates
<1>5. ~(d.file = "lock" /\ e.file = "manifest")
  BY <1>1 DEF Raw, Pair
<1>6. \E s, t \in Statements(E) : s.declared # t.declared \/ s.version # t.version
  <2> HIDE DEF E
  <2>1. CASE \E t \in Statements(E) : t.version = e.version
    BY <1>2, <2>1
  <2>2. CASE e.file = "manifest" /\ \E t \in Statements(E) : t.declared # <<>>
    BY <1>2, <1>5, <2>2
  <2> QED
    BY <1>4, <2>1, <2>2
<1>7. PICK s \in Statements(E), t \in Statements(E) : s.declared # t.declared \/ s.version # t.version
  BY <1>6
<1> QED
  BY <1>7, TwoDeviate

\* Two different statements come from two rows, and are of their environments.
LEMMA ConflictsHaveRows ==
  ASSUME NEW R, \A e \in R : Raw(e), NEW n, Conflicting(n, R)
  PROVE  \E d, e \in Group(n, R) : d # e /\ d.context = e.context
<1> DEFINE E == Named(n, R)
<1>1. PICK s \in Statements(E), t \in Statements(E) : s.context = t.context /\ s # t
  BY DEF Conflicting
<1>2. PICK d \in E, e \in E : s = StatementOf(d, E) /\ t = StatementOf(e, E)
  BY <1>1, StatementsAre
<1>3. d # e /\ d.context = e.context
  BY <1>2, StatementIs, <1>1 DEF StatementOf
<1>4. d \in R /\ e \in R /\ Raw(d) /\ Raw(e) /\ d.name = n /\ e.name = n
  BY DEF Named
<1>5. Noted(d, R) # Noted(e, R)
  BY <1>3, <1>4, NotedDiffer
<1>6. Noted(d, R).context = d.context /\ Noted(e, R).context = e.context /\ Noted(d, R).name = n /\ Noted(e, R).name = n
  BY <1>4, NotedIs
<1>7. Noted(d, R) \in Group(n, R) /\ Noted(e, R) \in Group(n, R)
  BY <1>4, <1>6 DEF Group
<1> QED
  BY <1>3, <1>5, <1>6, <1>7

\* A locked row whose partners are all the other rows and fit says one thing.
LEMMA FittingIsOne ==
  ASSUME NEW R, IsFiniteSet(R), \A e \in R : Raw(e), NEW l \in R,
         \A d \in Named(l.name, R) \ {l} : Pair(l, d) /\ Checks(l, d) /\ Fits(l, d)
  PROVE  ~(Cardinality(Said(l.name, R)) > 1)
<1> DEFINE E == Named(l.name, R)
<1>1. l \in E
  BY DEF Named
<1>2. /\ \A f, d \in E : f.file = "lock" => (d \in Partners(f, E) <=> Pair(f, d))
      /\ \A f \in E : Pairs(f, E) => f.file = "lock"
  BY PairsAre
<1>3. \A d \in E \ {l} : ~Pairs(d, E) /\ ~Alone(d, E)
  <2>1. SUFFICES ASSUME NEW d \in E \ {l} PROVE ~Pairs(d, E) /\ ~Alone(d, E)
    OBVIOUS
  <2>2. l.file = "lock" /\ d.file = "manifest"
    BY DEF Pair
  <2>3. d \in Partners(l, E)
    BY <1>1, <1>2, <2>2
  <2>4. \A f \in Partners(l, E) : Checks(l, f) /\ Fits(l, f)
    BY <1>1, <1>2, <2>2 DEF Partners, Pair
  <2>5. l.manifest # "none"
    BY <2>2 DEF Raw
  <2>6. Pairs(l, E)
    BY <2>3, <2>4, <2>5 DEF Pairs, Checks, Fits
  <2> HIDE DEF E
  <2> QED
    BY <1>1, <1>2, <2>2, <2>3, <2>6 DEF Alone
<1>4. \A s \in Statements(E) : s = StatementOf(l, E)
  <2> HIDE DEF E
  <2> QED
    BY <1>3, StatementsAre
<1>5. \A a, b \in Said(l.name, R) : a = b
  BY <1>4 DEF Said
<1>6. IsFiniteSet(Said(l.name, R))
  BY SaidIsFinite
<1> QED
  BY <1>5, <1>6, MoreThanOne

\* A result is the record of its parts.
Shaped(r) ==
  r = [entries |-> r.entries, sources |-> r.sources, rejections |-> r.rejections, notes |-> r.notes,
       exclusions |-> r.exclusions, deviations |-> r.deviations, configured |-> r.configured]

LEMMA BuildIs ==
  ASSUME NEW r, Shaped(r)
  PROVE  LET b == BuildDeviations(r) IN
         /\ b.entries = {Noted(e, r.entries) : e \in r.entries} /\ b.deviations = DeviationsIn(r.entries)
         /\ b.sources = r.sources /\ b.rejections = r.rejections /\ b.notes = r.notes /\ b.configured = r.configured
<1> DEFINE noted == {Noted(e, r.entries) : e \in r.entries}
           found == DeviationsIn(r.entries)
<1>1. BuildDeviations(r) = [r EXCEPT !.entries = noted, !.deviations = found]
  BY DEF BuildDeviations, DeviationsIn, Noted, Group, Said, Named, Conflicting
<1> HIDE DEF noted, found
<1>2. ASSUME NEW b, b = [r EXCEPT !.entries = noted, !.deviations = found]
      PROVE  /\ b.entries = noted /\ b.deviations = found
             /\ b.sources = r.sources /\ b.rejections = r.rejections /\ b.notes = r.notes /\ b.configured = r.configured
  BY <1>2 DEF Shaped
<1> QED
  BY <1>1, <1>2 DEF noted, found

\* What a run finds of its rows, whatever they are.
LEMMA DeviationsOf ==
  ASSUME NEW r, Shaped(r), IsFiniteSet(r.entries), \A e \in r.entries : Raw(e)
  PROVE  DeviationsSound(BuildDeviations(r))
<1> DEFINE R == r.entries
           b == BuildDeviations(r)
<1>1. b.entries = {Noted(e, R) : e \in R} /\ b.deviations = DeviationsIn(R)
  BY BuildIs
<1> HIDE DEF b
<1>2. \A e \in R : /\ Noted(e, R).file = e.file /\ Noted(e, R).key = e.key /\ Noted(e, R).name = e.name
                   /\ Noted(e, R).version = e.version /\ Noted(e, R).context = e.context
  BY NotedIs
<1> HIDE DEF R
<1>r. IsFiniteSet(R) /\ \A e \in R : Raw(e)
  BY DEF R
<1>3. \A n : Group(n, R) = {e \in b.entries : e.name = n}
  BY <1>1 DEF Group
<1>4. ASSUME NEW l \in b.entries, NEW d \in b.entries, Pair(l, d), Checks(l, d), ~Fits(l, d)
      PROVE  <<d.key, d.version>> \in l.violates /\ \E x \in b.deviations : x.art = "conflicting" /\ {l, d} \subseteq x.entries
  BY <1>1, <1>2, <1>4, <1>r, ViolatedDeviates, <1>3 DEF Pair, Checks, Fits
<1>5. ASSUME NEW d \in b.entries, NEW e \in b.entries, d.name = e.name, d.version # e.version, ~Pair(d, e), ~Pair(e, d),
             ~(d.file = "manifest" /\ e.file = "manifest")
      PROVE  \E x \in b.deviations : {d, e} \subseteq x.entries
  BY <1>1, <1>2, <1>5, <1>r, DifferentDeviate, <1>3 DEF Pair
<1>6. ASSUME NEW x \in b.deviations
      PROVE  /\ x.entries = {e \in b.entries : e.name = x.group}
             /\ x.art = "conflicting" => \E d, e \in x.entries : d # e /\ d.context = e.context
             /\ ~\E l \in x.entries : \A d \in x.entries \ {l} : Pair(l, d) /\ Checks(l, d) /\ Fits(l, d)
  <2>1. x.entries = Group(x.group, R) /\ Cardinality(Said(x.group, R)) > 1 /\ (x.art = "conflicting" => Conflicting(x.group, R))
    BY <1>1, <1>6, DeviationIs
  <2>2. ASSUME x.art = "conflicting" PROVE \E d, e \in x.entries : d # e /\ d.context = e.context
    BY <1>r, <2>1, <2>2, ConflictsHaveRows
  <2>3. ASSUME NEW l \in x.entries, \A d \in x.entries \ {l} : Pair(l, d) /\ Checks(l, d) /\ Fits(l, d) PROVE FALSE
    BY <1>2, <2>1, <2>3, <1>r, NotedDiffer, FittingIsOne DEF Group, Named, Pair, Checks, Fits
  <2> QED
    BY <1>3, <2>1, <2>2, <2>3
<1>7. DeviationsSound(b)
  BY <1>4, <1>5, <1>6 DEF DeviationsSound
<1> QED
  BY <1>7 DEF b

(***************************************************************************)
(* The run of an inventory: what is true of it, step by step.              *)
(***************************************************************************)
TagOrNote(r, p) == (\E e \in r.entries : e.file = p /\ e.key = "tag") \/ \E n \in r.notes : n.file = p
Known(c) == c.path \in Path /\ (c.path \in {"lock", "manifest"} => c.env = "lokal")

\* Every source of the configuration is rejected or planned.
Accounted(u) ==
  \A x \in u.config.sources :
    \/ \E n \in u.result.rejections : n.file = x.path
    \/ ~Invalid(x) /\ \E c \in u.planned : c.path = x.path /\ c.optional = x.optional
\* A value of a Helm file that a rule names was read, or why not is told.
RulesKept(u) ==
  \A x \in u.result.sources :
    x.kind = "helm" /\ x.file \in ValueRules(u.config) /\ ~x.unevaluable => TagOrNote(u.result, x.file)
SchemaTold(u) ==
  u.config.rules = ValueRules(u.config) \/ \E n \in u.result.rejections : n.why = "schema"
ReadTold(u, left) == \A c \in u.planned \ left : c.optional \/ Told(u.result, c.path)

WhileReading(u) ==
  /\ u.left \subseteq u.planned /\ \A c \in u.planned : Known(c)
  /\ IsFiniteSet(u.result.entries) /\ \A e \in u.result.entries : Raw(e)
  /\ Accounted(u) /\ RulesKept(u) /\ SchemaTold(u) /\ ReadTold(u, u.left)
OnceCollected(u) ==
  /\ \A x \in u.config.sources : Told(u.result, x.path) \/ (x.optional /\ ~Invalid(x))
  /\ \A p \in u.config.rules : TagOrNote(u.result, p) \/ \E n \in u.result.rejections : n.why = "schema"
  /\ ReadTold(u, {})
  /\ DeviationsSound(u.result)

\* A document, and how one that was read stands to the one at the hub.
DocSound(d) ==
  /\ d.kind \in {"none", "document", "directory"} /\ d.revision \in Nat
  /\ d.kind = "none" => d.revision = 0
  /\ ~d.sound => d.content = OtherText(7)
Behind(d, doc) == d.revision <= doc.revision /\ (d.revision = doc.revision => d = doc)
WhileWriting(u, doc) ==
  /\ DocSound(u.base) /\ u.base.kind # "directory" /\ Behind(u.base, doc)
  /\ u.base.kind = "document" /\ u.base.sound => u.base.content # u.result

RunShaped(u) ==
  u = [pc |-> u.pc, config |-> u.config, planned |-> u.planned, left |-> u.left, result |-> u.result, base |-> u.base,
       written |-> u.written, revision |-> u.revision]
RunTrue(u, doc) ==
  /\ RunShaped(u) /\ Shaped(u.result) /\ u.result.configured \in 0..2
  /\ u.pc \in {"idle", "reading", "collected", "writing", "done", "failed"}
  /\ u.pc = "reading" => WhileReading(u)
  /\ u.pc \in {"collected", "writing", "done"} => OnceCollected(u)
  /\ u.pc = "writing" => WhileWriting(u, doc)

FilesTrue == DOMAIN sourceFile = Path /\ \A p \in Path : sourceFile[p] \in States(p)
InventoryInv ==
  /\ FilesTrue /\ sourceConfig \in Configs /\ inventoryChanges \in 0..MaxInventoryChanges
  /\ DocSound(inventoryDoc) /\ DocSound(replica) /\ Behind(replica, inventoryDoc) /\ DocKept
  /\ DOMAIN survey = Survey /\ \A s \in Survey : RunTrue(survey[s], inventoryDoc)

LEMMA PathsAre ==
  Path = {"chart", "compose", "lock", "manifest", "yarn", "clone", "loose", "other", "outside"}
  BY DEF Order, Path

LEMMA RowsOf ==
  ASSUME NEW state, NEW rows, NEW key, NEW name, NEW version
  PROVE  /\ At(state, rows).rows = rows /\ At(state, rows).state = state
         /\ Row(key, name, version).key = key /\ Row(key, name, version).name = name /\ Row(key, name, version).version = version
BY DEF At, Row

RowsFit(p, rows) ==
  /\ IsFiniteSet(rows)
  /\ p = "manifest" => \A r \in rows : r.version \in {"^1.0", "1.0.0", "alias"}
  /\ p = "lock" => \A r \in rows : r.version \in {"1.0.0", "2.0.0", "link"}

\* What may lie at a path.
LEMMA StatesFit ==
  /\ \A p \in Path : Nothing \in States(p)
  /\ \A p \in Path : \A f \in States(p) : RowsFit(p, f.rows)
<1>1. \A p : RowsFit(p, {})
  BY FS_EmptySet DEF RowsFit
<1>2. RowsFit("manifest", {Package("dev", "^1.0")}) /\ RowsFit("manifest", {Package("dev", "alias")})
      /\ RowsFit("manifest", {Package("dev", "^1.0"), Package("peer", "1.0.0")})
  BY RowsOf, FS_Singleton, FS_AddElement, FS_EmptySet DEF Package, RowsFit
<1>3. \A v \in {"1.0.0", "2.0.0", "link"} : RowsFit("lock", {Package("lock", v)})
  <2>1. \A v : Package("lock", v).version = v
    BY RowsOf DEF Package
  <2>2. "manifest" # "lock"
    OBVIOUS
  <2>3. \A a : IsFiniteSet({a})
    BY FS_Singleton
  <2> QED
    BY <2>1, <2>2, <2>3 DEF RowsFit
<1>4. \A p : \A a, b : p \notin {"lock", "manifest"} => RowsFit(p, {a}) /\ RowsFit(p, {a, b})
  BY FS_Singleton, FS_AddElement, FS_EmptySet DEF RowsFit
<1>a. ASSUME NEW p, p \notin {"lock", "manifest"}
      PROVE  /\ RowsFit(p, {Package("head", "1.0.0")}) /\ RowsFit(p, {Package("dev", "^1.0")}) /\ RowsFit(p, {Image("image", "7")})
             /\ RowsFit(p, {Image("image", "7"), Image("tag", "6")}) /\ RowsFit(p, {Image("image", "7"), Image("second", "6")})
  <2>1. \A a, b : RowsFit(p, {a}) /\ RowsFit(p, {a, b})
    BY <1>4, <1>a
  <2> DEFINE head == Package("head", "1.0.0")
             dev == Package("dev", "^1.0")
             image == Image("image", "7")
             tag == Image("tag", "6")
             second == Image("second", "6")
  <2>2. RowsFit(p, {head}) /\ RowsFit(p, {dev}) /\ RowsFit(p, {image}) /\ RowsFit(p, {image, tag}) /\ RowsFit(p, {image, second})
    <3> HIDE DEF head, dev, image, tag, second
    <3> QED
      BY <2>1
  <2> QED
    BY <2>2
<1>5. /\ Nothing.rows = {} /\ Folder.rows = {} /\ Away.rows = {} /\ Unparsable.rows = {}
      /\ \A rows : Holding(rows).rows = rows
  BY RowsOf DEF Nothing, Folder, Away, Unparsable, Holding
<1>6. ASSUME NEW p \in Path PROVE Nothing \in States(p) /\ \A f \in States(p) : RowsFit(p, f.rows)
  <2>1. CASE p = "manifest"
    BY <2>1, <1>1, <1>2, <1>5 DEF States
  <2>2. CASE p = "lock"
    BY <2>2, <1>1, <1>3, <1>5 DEF States
  <2>3. CASE p = "yarn"
    BY <2>3, <1>1, <1>a, <1>5 DEF States
  <2>4. CASE p = "other"
    BY <2>4, <1>1, <1>a, <1>5 DEF States
  <2>5. CASE p = "chart"
    BY <2>5, <1>1, <1>a, <1>5 DEF States
  <2>6. CASE p = "compose"
    BY <2>6, <1>1, <1>a, <1>5 DEF States
  <2>7. CASE p \notin {"manifest", "lock", "yarn", "other", "chart", "compose"}
    BY <2>7, <1>1, <1>a, <1>5 DEF States
  <2> QED
    BY <2>1, <2>2, <2>3, <2>4, <2>5, <2>6, <2>7
<1> QED
  BY <1>6

FilesFit(files) == DOMAIN files = Path /\ \A p \in Path : files[p] \in States(p)
LEMMA FilesAre == \A files \in Files \cup Sites : FilesFit(files)
<1>1. FilesFit(Bare)
  BY StatesFit DEF FilesFit, Bare
<1>2. \A files, p, f : FilesFit(files) /\ p \in Path /\ f \in States(p) => FilesFit([files EXCEPT ![p] = f])
  BY DEF FilesFit
<1>3. {"chart", "compose", "lock", "manifest", "yarn", "clone", "loose", "other", "outside"} \subseteq Path
  BY PathsAre
<1>4. /\ Holding({Package("dev", "^1.0")}) \in States("manifest") /\ Holding({Package("lock", "1.0.0")}) \in States("lock")
      /\ \A p \in {"clone", "loose", "outside"} : Holding({Image("image", "7")}) \in States(p)
  BY DEF States
<1>5. ASSUME NEW m \in States("manifest"), NEW l \in States("lock")
      PROVE  FilesFit([Bare EXCEPT !["manifest"] = m, !["lock"] = l])
  BY <1>1, <1>2, <1>3
<1>6. ASSUME NEW m \in States("manifest"), NEW y \in States("yarn"), NEW o \in States("other")
      PROVE  FilesFit([Bare EXCEPT !["manifest"] = m, !["yarn"] = y, !["other"] = o])
  BY <1>1, <1>2, <1>3
<1>7. ASSUME NEW o \in States("other")
      PROVE  FilesFit([Bare EXCEPT !["manifest"] = Holding({Package("dev", "^1.0")}), !["lock"] = Holding({Package("lock", "1.0.0")}),
                                   !["other"] = o])
  <2> DEFINE m == Holding({Package("dev", "^1.0")})
             l == Holding({Package("lock", "1.0.0")})
  <2>0. m \in States("manifest") /\ l \in States("lock")
    BY <1>4
  <2> HIDE DEF m, l
  <2>1. FilesFit([Bare EXCEPT !["manifest"] = m, !["lock"] = l])
    BY <1>5, <2>0
  <2>2. FilesFit([Bare EXCEPT !["manifest"] = m, !["lock"] = l, !["other"] = o])
    BY <1>2, <1>3, <2>1
  <2> QED
    BY <2>2 DEF m, l
<1>8. ASSUME NEW c \in States("chart"), NEW d \in States("compose")
      PROVE  FilesFit([Bare EXCEPT !["chart"] = c, !["compose"] = d, !["clone"] = Holding({Image("image", "7")}),
                                   !["loose"] = Holding({Image("image", "7")}), !["outside"] = Holding({Image("image", "7")})])
  <2> DEFINE h == Holding({Image("image", "7")})
  <2>0. h \in States("clone") /\ h \in States("loose") /\ h \in States("outside")
    BY <1>4
  <2> HIDE DEF h
  <2>1. FilesFit([Bare EXCEPT !["chart"] = c])
    BY <1>1, <1>2, <1>3
  <2>2. FilesFit([Bare EXCEPT !["chart"] = c, !["compose"] = d])
    BY <1>2, <1>3, <2>1
  <2>3. FilesFit([Bare EXCEPT !["chart"] = c, !["compose"] = d, !["clone"] = h])
    BY <1>2, <1>3, <2>0, <2>2
  <2>4. FilesFit([Bare EXCEPT !["chart"] = c, !["compose"] = d, !["clone"] = h, !["loose"] = h])
    BY <1>2, <1>3, <2>0, <2>3
  <2>5. FilesFit([Bare EXCEPT !["chart"] = c, !["compose"] = d, !["clone"] = h, !["loose"] = h, !["outside"] = h])
    BY <1>2, <1>3, <2>0, <2>4
  <2> QED
    BY <2>5 DEF h
<1>9. \A files \in Files : FilesFit(files)
  BY <1>5, <1>6, <1>7 DEF Files
<1>10. \A files \in Sites : FilesFit(files)
  BY <1>8 DEF Sites
<1> QED
  BY <1>9, <1>10

\* What a configuration names.
ConfigFit(c) ==
  /\ \A x \in c.sources : x.path \in {"loose", "outside", "chart", "clone"}
  /\ Cardinality(c.sources) \in 0..2
  /\ c.rules = ValueRules(c) \/ (c.schema = 1 /\ c.rules # {})

LEMMA ConfigsFit == \A c \in Configs : ConfigFit(c)
<1>1. \A state, sources, exclude, rules, schema :
        LET c == Config(state, sources, exclude, rules, schema) IN
        c.sources = sources /\ c.rules = rules /\ c.schema = schema
  BY DEF Config
<1>2. Cardinality({}) = 0 /\ \A a, b : Cardinality({a, b}) \in 0..2
  <2>1. Cardinality({}) = 0 /\ IsFiniteSet({})
    BY FS_EmptySet
  <2>2. \A a : Cardinality({a}) = 1 /\ IsFiniteSet({a})
    BY FS_Singleton
  <2>3. ASSUME NEW a, NEW b PROVE Cardinality({a, b}) \in 0..2
    <3>1. Cardinality({a} \cup {b}) = IF b \in {a} THEN Cardinality({a}) ELSE Cardinality({a}) + 1
      BY <2>2, FS_AddElement
    <3>2. {a} \cup {b} = {a, b}
      OBVIOUS
    <3>3. CASE b \in {a}
      <4>1. Cardinality({a, b}) = 1
        BY <2>2, <3>1, <3>2, <3>3
      <4> QED
        BY <4>1
    <3>4. CASE b \notin {a}
      <4>1. Cardinality({a, b}) = 1 + 1
        BY <2>2, <3>1, <3>2, <3>4
      <4> QED
        BY <4>1
    <3> QED
      BY <3>3, <3>4
  <2> QED
    BY <2>1, <2>3
<1>3. \A p, kind, env, optional : Source(p, kind, env, optional).path = p
  BY DEF Source
<1>4. ASSUME NEW state, NEW exclude, NEW rules, NEW schema \in {0, 1, 2}, schema = 0 => rules = {}
      PROVE  ConfigFit(Config(state, {}, exclude, rules, schema))
  <2> DEFINE c == Config(state, {}, exclude, rules, schema)
  <2>1. c.sources = {} /\ c.rules = rules /\ c.schema = schema
    BY <1>1
  <2> HIDE DEF c
  <2>2. Cardinality(c.sources) \in 0..2
    BY <1>2, <2>1
  <2>3. c.rules = ValueRules(c) \/ (c.schema = 1 /\ c.rules # {})
    <3>1. CASE schema = 0
      BY <1>4, <3>1, <2>1 DEF ValueRules
    <3>2. CASE schema = 1
      BY <3>2, <2>1 DEF ValueRules
    <3>3. CASE schema = 2
      <4>1. schema >= 2
        BY <3>3
      <4> QED
        BY <2>1, <4>1 DEF ValueRules
    <3> QED
      BY <3>1, <3>2, <3>3
  <2>4. ConfigFit(c)
    BY <2>1, <2>2, <2>3 DEF ConfigFit
  <2> QED
    BY <2>4 DEF c
<1>5. ASSUME NEW a, NEW b, NEW exclude, a.path \in {"loose", "outside", "chart", "clone"}, b.path \in {"loose", "outside", "chart", "clone"}
      PROVE  ConfigFit(Config("file", {a, b}, exclude, {}, 1))
  <2> DEFINE c == Config("file", {a, b}, exclude, {}, 1)
  <2>1. c.sources = {a, b} /\ c.rules = {} /\ c.schema = 1
    BY <1>1
  <2> HIDE DEF c
  <2>2. Cardinality(c.sources) \in 0..2
    BY <1>2, <2>1
  <2>3. c.rules = ValueRules(c)
    BY <2>1 DEF ValueRules
  <2>4. \A x \in c.sources : x.path \in {"loose", "outside", "chart", "clone"}
    BY <1>5, <2>1
  <2>5. ConfigFit(c)
    BY <2>3, <2>2, <2>4 DEF ConfigFit
  <2> QED
    BY <2>5 DEF c
<1>6. ConfigFit(NoConfig)
  BY <1>4 DEF NoConfig
<1>7. ConfigFit(Config("broken", {}, {}, {}, 0)) /\ ConfigFit(Config("file", {}, {"manifest"}, {}, 1))
      /\ ConfigFit(Config("file", {}, {"chart"}, {"chart"}, 2)) /\ ConfigFit(Config("file", {}, {}, {"chart"}, 1))
      /\ ConfigFit(Config("file", {}, {}, {"chart", "compose", "loose", "outside"}, 2))
  BY <1>4
<1>8. /\ ConfigFit(Config("file", {Source("loose", "auto", "dev", FALSE), Source("outside", "compose", "dev", FALSE)}, {}, {}, 1))
      /\ ConfigFit(Config("file", {Source("chart", "compose", "app", FALSE), Source("loose", "tower", "dev", FALSE)}, {}, {}, 1))
      /\ ConfigFit(Config("file", {Source("chart", "helm", "dev", TRUE), Source("clone", "auto", "dev", FALSE)}, {"compose"}, {}, 1))
  <2>1. ASSUME NEW p \in {"loose", "outside", "chart", "clone"}, NEW q \in {"loose", "outside", "chart", "clone"},
               NEW k, NEW l, NEW e, NEW f, NEW o, NEW n, NEW exclude
        PROVE  ConfigFit(Config("file", {Source(p, k, e, o), Source(q, l, f, n)}, exclude, {}, 1))
    <3>1. Source(p, k, e, o).path = p /\ Source(q, l, f, n).path = q
      BY <1>3
    <3> DEFINE a == Source(p, k, e, o)
               b == Source(q, l, f, n)
    <3>2. a.path \in {"loose", "outside", "chart", "clone"} /\ b.path \in {"loose", "outside", "chart", "clone"}
      BY <3>1
    <3> HIDE DEF a, b
    <3>3. ConfigFit(Config("file", {a, b}, exclude, {}, 1))
      BY <1>5, <3>2
    <3> QED
      BY <3>3 DEF a, b
  <2> QED
    BY <2>1
<1> QED
  BY <1>6, <1>7, <1>8 DEF Configs

LEMMA OtherIs ==
  ASSUME NEW n
  PROVE  Shaped(Empty) /\ OtherText(n).configured = n /\ Empty.configured = 0 /\ Empty.entries = {} /\ Empty.sources = {}
         /\ Empty.notes = {} /\ Empty.rejections = {}
BY DEF Shaped, Empty, OtherText

LEMMA DocIs ==
  ASSUME NEW kind, NEW content, NEW sound, NEW revision
  PROVE  LET d == Doc(kind, content, sound, revision) IN
         d.kind = kind /\ d.content = content /\ d.sound = sound /\ d.revision = revision /\ d.over = revision
BY DEF Doc

\* Only a run that writes looks at the document.
LEMMA DocMoves ==
  ASSUME NEW u, NEW doc, NEW next, RunTrue(u, doc), doc.revision \in Nat, next.revision = doc.revision + 1
  PROVE  RunTrue(u, next)
<1>1. ASSUME WhileWriting(u, doc) PROVE WhileWriting(u, next)
  <2>1. u.base.revision \in Nat /\ u.base.revision <= doc.revision
    BY <1>1 DEF WhileWriting, DocSound, Behind
  <2>2. u.base.revision <= next.revision /\ u.base.revision # next.revision
    <3> DEFINE a == u.base.revision
               b == doc.revision
               c == next.revision
    <3>1. a \in Nat /\ b \in Nat /\ a <= b /\ c = b + 1
      BY <2>1
    <3> HIDE DEF a, b, c
    <3>2. a <= c /\ a # c
      BY <3>1
    <3> QED
      BY <3>2 DEF a, b, c
  <2> QED
    BY <1>1, <2>2 DEF WhileWriting, Behind
<1> QED
  BY <1>1 DEF RunTrue

\* A run that ends.
LEMMA RunEnds ==
  ASSUME NEW u, NEW doc, RunTrue(u, doc)
  PROVE  RunTrue([u EXCEPT !.pc = "failed"], doc)
<1> DEFINE v == [u EXCEPT !.pc = "failed"]
<1>1. RunShaped(u) /\ Shaped(u.result) /\ u.result.configured \in 0..2
  BY DEF RunTrue
<1>2. v.pc = "failed" /\ RunShaped(v) /\ v.result = u.result
  BY <1>1 DEF RunShaped
<1> HIDE DEF v
<1>3. RunTrue(v, doc)
  BY <1>1, <1>2 DEF RunTrue
<1> QED
  BY <1>3 DEF v

LEMMA IdleRun ==
  ASSUME NEW doc
  PROVE  RunTrue(NoSurvey, doc)
  BY OtherIs DEF NoSurvey, RunShaped, RunTrue

LEMMA InventoryStarts == InventoryInit => InventoryInv
<1>1. ASSUME NEW files, NEW config, NEW doc, InventoryBegin(files, config, doc),
             FilesFit(files), config \in Configs, DocSound(doc), doc.over = doc.revision
      PROVE  InventoryInv
  BY <1>1, InventoryAssumption, IdleRun DEF InventoryBegin, FilesTrue, FilesFit, DocSound, Behind, DocKept, InventoryInv
<1>2. NoConfig \in Configs /\ Config("file", {}, {"manifest"}, {}, 1) \in Configs
  BY DEF Configs
<1>3. DocSound(NoDoc) /\ NoDoc.over = NoDoc.revision
  BY DEF Doc, NoDoc, DocSound
<1>4. \A kind \in {"document", "directory"}, sound \in BOOLEAN :
        LET d == Doc(kind, OtherText(7), sound, 1) IN DocSound(d) /\ d.over = d.revision
  <2>1. SUFFICES ASSUME NEW kind \in {"document", "directory"}, NEW sound \in BOOLEAN
                 PROVE  LET d == Doc(kind, OtherText(7), sound, 1) IN DocSound(d) /\ d.over = d.revision
    OBVIOUS
  <2> DEFINE d == Doc(kind, OtherText(7), sound, 1)
  <2>2. d.kind = kind /\ d.content = OtherText(7) /\ d.sound = sound /\ d.revision = 1 /\ d.over = 1
    BY DocIs
  <2> HIDE DEF d
  <2>3. DocSound(d) /\ d.over = d.revision
    BY <2>2 DEF DocSound
  <2> QED
    BY <2>3 DEF d
<1>5. \A files \in Files : FilesFit(files)
  BY FilesAre
<1>6. \A files \in Sites : FilesFit(files)
  BY FilesAre
<1>7. FilesFit([Bare EXCEPT !["compose"] = Holding({Image("image", "7")})])
  BY StatesFit DEF States, FilesFit, Bare
<1> SUFFICES ASSUME InventoryInit PROVE InventoryInv
  OBVIOUS
<1>8. CASE \E files \in Files : InventoryBegin(files, NoConfig, NoDoc)
  BY <1>1, <1>2, <1>3, <1>5, <1>8
<1>9. CASE \E files \in {f \in Files : f["lock"] = Nothing} : InventoryBegin(files, Config("file", {}, {"manifest"}, {}, 1), NoDoc)
  BY <1>1, <1>2, <1>3, <1>5, <1>9
<1>10. CASE \E files \in Sites, config \in Configs : InventoryBegin(files, config, NoDoc)
  BY <1>1, <1>3, <1>6, <1>10
<1>11. CASE \E kind \in {"document", "directory"}, sound \in BOOLEAN :
              InventoryBegin([Bare EXCEPT !["compose"] = Holding({Image("image", "7")})], NoConfig, Doc(kind, OtherText(7), sound, 1))
  BY <1>1, <1>2, <1>4, <1>7, <1>11
<1> QED
  BY <1>8, <1>9, <1>10, <1>11 DEF InventoryInit

(***************************************************************************)
(* Planning.                                                               *)
(***************************************************************************)
LEMMA RemarkIs ==
  ASSUME NEW p, NEW why
  PROVE  Remark(p, why).file = p /\ Remark(p, why).why = why
BY DEF Remark

\* What is planned is known, and nothing that is named is passed over.
LEMMA PlanTold ==
  ASSUME NEW config, ConfigFit(config)
  PROVE  LET plan == Plan(config) IN
         /\ \A c \in plan.candidates : Known(c)
         /\ \A x \in config.sources :
              \/ \E n \in plan.rejections : n.file = x.path
              \/ ~Invalid(x) /\ \E c \in plan.candidates : c.path = x.path /\ c.optional = x.optional
         /\ config.rules = ValueRules(config) \/ \E n \in plan.rejections : n.why = "schema"
<1> DEFINE named == {s \in config.sources : ~Invalid(s)}
           within == {s \in named : InRoots(s.path)}
           usable == {s \in within : Resolved(s) # "none"}
           found == {p \in Walked : ~PassedOver(p, config)}
           taken == {s.path : s \in usable}
           chosen == {Candidate(s.path, Resolved(s), s.env, s.optional, TRUE) : s \in usable}
           walked == {Candidate(p, DetectKind[p], DefaultEnv[DetectKind[p]], FALSE, FALSE) : p \in {p \in found : InRoots(p)} \ taken}
           entry == {Remark(s.path, "entry") : s \in {s \in config.sources : Invalid(s)}}
           outside == {Remark(p, "outside") : p \in {s.path : s \in named \ within} \cup {p \in found : ~InRoots(p)}}
           kind == {Remark(s.path, "kind") : s \in within \ usable}
           schema == IF config.schema = 1 /\ config.rules # {} THEN {Remark("rules", "schema")} ELSE {}
           plan == Plan(config)
<1>1. plan.candidates = chosen \cup walked /\ plan.rejections = entry \cup outside \cup kind \cup schema
  BY DEF Plan
<1>2. ASSUME NEW c \in chosen PROVE Known(c)
  BY <1>2, PathsAre DEF Candidate, ConfigFit, Known
<1>3. ASSUME NEW c \in walked PROVE Known(c)
  <2>1. PICK p \in found : c = Candidate(p, DetectKind[p], DefaultEnv[DetectKind[p]], FALSE, FALSE)
    BY <1>3
  <2>2. c.path = p /\ c.env = DefaultEnv[DetectKind[p]] /\ p \in Path
    <3>1. c.path = p /\ c.env = DefaultEnv[DetectKind[p]]
      <4> DEFINE k == DetectKind[p]
                 e == DefaultEnv[DetectKind[p]]
      <4>1. c = Candidate(p, k, e, FALSE, FALSE)
        BY <2>1
      <4> HIDE DEF k, e
      <4>2. c.path = p /\ c.env = e
        BY <4>1 DEF Candidate
      <4> QED
        BY <4>2 DEF e
    <3>2. p \in Path
      BY DEF Walked
    <3> QED
      BY <3>1, <3>2
  <2>3. p \in {"lock", "manifest"} => DefaultEnv[DetectKind[p]] = "lokal"
    BY <2>2 DEF DetectKind, DefaultEnv
  <2> QED
    BY <2>2, <2>3 DEF Known
<1>4. ASSUME NEW x \in config.sources
      PROVE  \/ \E n \in plan.rejections : n.file = x.path
             \/ ~Invalid(x) /\ \E c \in plan.candidates : c.path = x.path /\ c.optional = x.optional
  <2>1. CASE Invalid(x)
    <3>1. Remark(x.path, "entry") \in plan.rejections
      BY <1>1, <2>1
    <3> HIDE DEF plan
    <3> QED
      BY <3>1, RemarkIs
  <2>2. CASE ~Invalid(x) /\ ~InRoots(x.path)
    <3>1. Remark(x.path, "outside") \in plan.rejections
      BY <1>1, <2>2
    <3> HIDE DEF plan
    <3> QED
      BY <3>1, RemarkIs
  <2>3. CASE ~Invalid(x) /\ InRoots(x.path) /\ Resolved(x) = "none"
    <3>1. Remark(x.path, "kind") \in plan.rejections
      BY <1>1, <2>3
    <3> HIDE DEF plan
    <3> QED
      BY <3>1, RemarkIs
  <2>4. CASE ~Invalid(x) /\ InRoots(x.path) /\ Resolved(x) # "none"
    <3> DEFINE c == Candidate(x.path, Resolved(x), x.env, x.optional, TRUE)
    <3>1. c \in plan.candidates
      BY <1>1, <2>4
    <3>2. c.path = x.path /\ c.optional = x.optional
      <4> HIDE DEF plan
      <4> QED
        BY DEF Candidate
    <3> HIDE DEF plan, c
    <3> QED
      BY <2>4, <3>1, <3>2
  <2> QED
    BY <2>1, <2>2, <2>3, <2>4
<1>5. config.rules = ValueRules(config) \/ \E n \in plan.rejections : n.why = "schema"
  <2>1. CASE config.schema = 1 /\ config.rules # {}
    <3>1. Remark("rules", "schema") \in plan.rejections
      BY <1>1, <2>1
    <3> HIDE DEF plan
    <3> QED
      BY <3>1, RemarkIs
  <2> QED
    BY <2>1 DEF ConfigFit
<1>6. \A c \in plan.candidates : Known(c)
  BY <1>1, <1>2, <1>3
<1> HIDE DEF plan
<1>7. /\ \A c \in plan.candidates : Known(c)
      /\ \A x \in config.sources :
           \/ \E n \in plan.rejections : n.file = x.path
           \/ ~Invalid(x) /\ \E c \in plan.candidates : c.path = x.path /\ c.optional = x.optional
      /\ config.rules = ValueRules(config) \/ \E n \in plan.rejections : n.why = "schema"
  BY <1>4, <1>5, <1>6
<1> QED
  BY <1>7 DEF plan

\* The run as it begins.
LEMMA BeganRun ==
  ASSUME NEW config, ConfigFit(config), NEW doc
  PROVE  LET plan == Plan(config) IN
         RunTrue([NoSurvey EXCEPT !.pc = "reading", !.config = config, !.planned = plan.candidates, !.left = plan.candidates,
                    !.result = [Empty EXCEPT !.rejections = plan.rejections, !.notes = plan.notes,
                                             !.exclusions = plan.exclusions, !.configured = Cardinality(config.sources)]], doc)
<1> DEFINE candidates == Plan(config).candidates
           rejections == Plan(config).rejections
           notes == Plan(config).notes
           exclusions == Plan(config).exclusions
           number == Cardinality(config.sources)
           r == [Empty EXCEPT !.rejections = rejections, !.notes = notes, !.exclusions = exclusions, !.configured = number]
           u == [NoSurvey EXCEPT !.pc = "reading", !.config = config, !.planned = candidates, !.left = candidates, !.result = r]
<1>1. /\ \A c \in candidates : Known(c)
      /\ \A x \in config.sources :
           \/ \E n \in rejections : n.file = x.path
           \/ ~Invalid(x) /\ \E c \in candidates : c.path = x.path /\ c.optional = x.optional
      /\ config.rules = ValueRules(config) \/ \E n \in rejections : n.why = "schema"
  BY PlanTold
<1>2. number \in 0..2
  BY DEF ConfigFit
<1> HIDE DEF candidates, rejections, notes, exclusions, number
<1>3. Shaped(r) /\ r.entries = {} /\ r.sources = {} /\ r.rejections = rejections /\ r.configured = number
  <2>1. Shaped(Empty) /\ Empty.entries = {} /\ Empty.sources = {}
    BY OtherIs
  <2>2. ASSUME NEW q, Shaped(q), NEW p,
               p = [q EXCEPT !.rejections = rejections, !.notes = notes, !.exclusions = exclusions, !.configured = number]
        PROVE  /\ Shaped(p) /\ p.entries = q.entries /\ p.sources = q.sources /\ p.rejections = rejections
               /\ p.configured = number
    BY <2>2 DEF Shaped
  <2>3. ASSUME NEW p, p = r PROVE Shaped(p) /\ p.entries = {} /\ p.sources = {} /\ p.rejections = rejections /\ p.configured = number
    BY <2>1, <2>2, <2>3
  <2> QED
    BY <2>3
<1> HIDE DEF r
<1>4. RunShaped(u) /\ u.pc = "reading" /\ u.config = config /\ u.planned = candidates /\ u.left = candidates /\ u.result = r
  <2>1. RunShaped(NoSurvey)
    BY IdleRun DEF RunTrue
  <2>2. ASSUME NEW q, RunShaped(q), NEW p,
               p = [q EXCEPT !.pc = "reading", !.config = config, !.planned = candidates, !.left = candidates, !.result = r]
        PROVE  RunShaped(p) /\ p.pc = "reading" /\ p.config = config /\ p.planned = candidates /\ p.left = candidates /\ p.result = r
    BY <2>2 DEF RunShaped
  <2>3. ASSUME NEW p, p = u
        PROVE  RunShaped(p) /\ p.pc = "reading" /\ p.config = config /\ p.planned = candidates /\ p.left = candidates /\ p.result = r
    BY <2>1, <2>2, <2>3
  <2> QED
    BY <2>3
<1> HIDE DEF u
<1>5. IsFiniteSet(u.result.entries) /\ (\A e \in u.result.entries : Raw(e)) /\ RulesKept(u) /\ ReadTold(u, u.left)
  BY <1>3, <1>4, FS_EmptySet DEF RulesKept, ReadTold
<1>6. Accounted(u) /\ SchemaTold(u)
  BY <1>1, <1>3, <1>4 DEF Accounted, SchemaTold
<1>7. WhileReading(u)
  BY <1>1, <1>4, <1>5, <1>6 DEF WhileReading
<1>8. RunTrue(u, doc)
  BY <1>2, <1>3, <1>4, <1>7 DEF RunTrue
<1> QED
  BY <1>8 DEF u, r, candidates, rejections, notes, exclusions, number

(***************************************************************************)
(* Reading.                                                                *)
(***************************************************************************)
\* A result that says at least what another one says.
Grown(r, q) ==
  /\ r.entries \subseteq q.entries /\ r.sources \subseteq q.sources /\ r.rejections \subseteq q.rejections
  /\ r.notes \subseteq q.notes /\ q.configured = r.configured

LEMMA GrownTells ==
  ASSUME NEW r, NEW q, Grown(r, q)
  PROVE  /\ \A p : Told(r, p) => Told(q, p)
         /\ \A p : TagOrNote(r, p) => TagOrNote(q, p)
  BY DEF Grown, Told, TagOrNote

\* A row that is read.
LEMMA RowIsRaw ==
  ASSUME FilesTrue, NEW c, Known(c), NEW row \in sourceFile[c.path].rows
  PROVE  Raw(InventoryRow(c, row)) /\ InventoryRow(c, row).file = c.path /\ InventoryRow(c, row).key = row.key
<1> DEFINE e == InventoryRow(c, row)
           manifest == IF c.path = "lock" THEN "manifest" ELSE "none"
<1>1. e = [file |-> c.path, key |-> row.key, name |-> row.name, version |-> row.version, context |-> c.env,
           manifest |-> manifest, violates |-> {}]
  BY DEF InventoryRow
<1> HIDE DEF e, manifest
<1>2. /\ e.file = c.path /\ e.key = row.key /\ e.name = row.name /\ e.version = row.version /\ e.context = c.env
      /\ e.manifest = manifest /\ e.violates = {}
      /\ e = [file |-> e.file, key |-> e.key, name |-> e.name, version |-> e.version, context |-> e.context,
              manifest |-> e.manifest, violates |-> e.violates]
  BY <1>1
<1>3. c.path \in Path /\ (c.path \in {"lock", "manifest"} => c.env = "lokal")
  BY DEF Known
<1>4. RowsFit(c.path, sourceFile[c.path].rows)
  BY <1>3, StatesFit DEF FilesTrue
<1>5. /\ c.path = "manifest" => row.version \in {"^1.0", "1.0.0", "alias"}
      /\ c.path = "lock" => row.version \in {"1.0.0", "2.0.0", "link"}
  BY <1>4 DEF RowsFit
<1>6. Raw(e)
  BY <1>2, <1>3, <1>5 DEF Raw, manifest
<1> QED
  BY <1>2, <1>6 DEF e

\* Reading a candidate: the rows are read as they stand, the candidate is told of, a
\* value that a rule names is read or told of, and nothing that was told is lost.
LEMMA CandidateRead ==
  ASSUME FilesTrue, NEW r, Shaped(r), IsFiniteSet(r.entries), \A e \in r.entries : Raw(e),
         NEW c, Known(c), NEW config
  PROVE  LET q == ReadCandidate(r, c, config) IN
         /\ Shaped(q) /\ Grown(r, q)
         /\ IsFiniteSet(q.entries) /\ \A e \in q.entries : Raw(e)
         /\ c.optional \/ Told(q, c.path)
         /\ \A x \in q.sources \ r.sources :
              x.kind = "helm" /\ x.file \in ValueRules(config) /\ ~x.unevaluable => TagOrNote(q, x.file)
<1> DEFINE f == sourceFile[c.path]
           direct == LockDirect(config)
           unresolved == c.path = "yarn" /\ ~direct.ok
           unparsed == f.state = "broken"
           rows == IF unparsed THEN {} ELSE Parsed(c, ValueRules(config), direct)
           refused == ~InRoots(c.path) \/ f.state = "folder"
           keyless == c.kind = "helm" /\ c.path \in ValueRules(config) /\ ~unparsed /\ ~\E row \in rows : row.key = "tag"
           entries == {InventoryRow(c, row) : row \in rows}
           notes == (IF unparsed THEN {Remark(c.path, "broken")} ELSE {})
                      \cup (IF unresolved THEN {Remark(c.path, "manifest")} ELSE {})
                      \cup (IF keyless THEN {Remark(c.path, "key")} ELSE {})
           source == [file |-> c.path, kind |-> c.kind, configured |-> c.configured,
                      count |-> Cardinality(rows), unevaluable |-> unparsed \/ unresolved]
           q == ReadCandidate(r, c, config)
           Good(t) == /\ Shaped(t) /\ Grown(r, t)
                      /\ IsFiniteSet(t.entries) /\ \A e \in t.entries : Raw(e)
                      /\ c.optional \/ Told(t, c.path)
                      /\ \A x \in t.sources \ r.sources :
                           x.kind = "helm" /\ x.file \in ValueRules(config) /\ ~x.unevaluable => TagOrNote(t, x.file)
<1>1. CASE refused
  <2>1. q = [r EXCEPT !.rejections = r.rejections \cup {Remark(c.path, "refused")}]
    BY <1>1 DEF ReadCandidate
  <2> DEFINE more == r.rejections \cup {Remark(c.path, "refused")}
  <2>2. r.rejections \subseteq more /\ \E n \in more : n.file = c.path
    BY RemarkIs
  <2> HIDE DEF more
  <2>3. ASSUME NEW t, t = [r EXCEPT !.rejections = more]
        PROVE  /\ Shaped(t) /\ t.entries = r.entries /\ t.sources = r.sources /\ t.rejections = more /\ t.notes = r.notes
               /\ t.configured = r.configured
    BY <2>3 DEF Shaped
  <2>4. ASSUME NEW t, t = [r EXCEPT !.rejections = more] PROVE Good(t)
    BY <2>3, <2>4, <2>2 DEF Grown, Told
  <2>5. q = [r EXCEPT !.rejections = more]
    BY <2>1 DEF more
  <2> QED
    BY <2>4, <2>5
<1>2. CASE ~refused /\ f.state = "none" /\ c.optional
  BY <1>2 DEF ReadCandidate, Grown
<1>3. CASE ~refused /\ f.state = "none" /\ ~c.optional
  <2>1. q = [r EXCEPT !.notes = r.notes \cup {Remark(c.path, "missing")}]
    BY <1>3 DEF ReadCandidate
  <2> DEFINE more == r.notes \cup {Remark(c.path, "missing")}
  <2>2. r.notes \subseteq more /\ \E n \in more : n.file = c.path
    BY RemarkIs
  <2> HIDE DEF more
  <2>3. ASSUME NEW t, t = [r EXCEPT !.notes = more]
        PROVE  /\ Shaped(t) /\ t.entries = r.entries /\ t.sources = r.sources /\ t.rejections = r.rejections /\ t.notes = more
               /\ t.configured = r.configured
    BY <2>3 DEF Shaped
  <2>4. ASSUME NEW t, t = [r EXCEPT !.notes = more] PROVE Good(t)
    BY <2>3, <2>4, <2>2 DEF Grown, Told
  <2>5. q = [r EXCEPT !.notes = more]
    BY <2>1 DEF more
  <2> QED
    BY <2>4, <2>5
<1>4. CASE ~refused /\ f.state # "none"
  <2>1. q = [r EXCEPT !.entries = r.entries \cup entries, !.notes = r.notes \cup notes, !.sources = r.sources \cup {source}]
    BY <1>4 DEF ReadCandidate
  <2>2. IsFiniteSet(rows) /\ \A row \in rows : row \in f.rows
    <3>1. RowsFit(c.path, f.rows)
      BY StatesFit DEF FilesTrue, Known
    <3>2. rows \subseteq f.rows
      BY DEF Parsed
    <3> HIDE DEF rows, f
    <3>3. IsFiniteSet(f.rows)
      BY <3>1 DEF RowsFit
    <3>4. IsFiniteSet(rows)
      BY <3>2, <3>3, FS_Subset
    <3> QED
      BY <3>2, <3>4
  <2>3. \A row \in rows : Raw(InventoryRow(c, row)) /\ InventoryRow(c, row).file = c.path /\ InventoryRow(c, row).key = row.key
    <3> HIDE DEF rows
    <3> QED
      BY <2>2, RowIsRaw
  <2>4. source.file = c.path /\ source.kind = c.kind /\ (source.unevaluable <=> unparsed \/ unresolved)
    <3> DEFINE count == Cardinality(rows)
               bad == unparsed \/ unresolved
    <3> HIDE DEF count, bad
    <3> QED
      BY DEF count, bad
  <2>5. /\ unparsed \/ unresolved => \E n \in notes : n.file = c.path
        /\ keyless => \E n \in notes : n.file = c.path
    <3> HIDE DEF unparsed, unresolved, keyless
    <3> QED
      BY RemarkIs
  <2>6. c.kind = "helm" /\ c.path \in ValueRules(config) /\ ~unparsed =>
          (\E e \in entries : e.file = c.path /\ e.key = "tag") \/ \E n \in notes : n.file = c.path
    <3>1. CASE keyless
      BY <2>5, <3>1
    <3>2. CASE \E row \in rows : row.key = "tag"
      <4> HIDE DEF rows
      <4> QED
        BY <2>3, <3>2
    <3> QED
      BY <3>1, <3>2
  <2>7. IsFiniteSet(entries)
    <3> DEFINE g == [row \in rows |-> InventoryRow(c, row)]
    <3> HIDE DEF rows
    <3>1. entries = {g[row] : row \in rows} /\ DOMAIN g = rows
      OBVIOUS
    <3> HIDE DEF g, entries
    <3>2. IsFiniteSet({g[row] : row \in rows})
      BY <2>2, <3>1, FiniteImage
    <3> QED
      BY <3>1, <3>2
  <2>8. \A e \in entries : Raw(e)
    BY <2>3
  <2> HIDE DEF entries, notes, source, rows, unparsed, unresolved, keyless
  <2>9. ASSUME NEW t, t = [r EXCEPT !.entries = r.entries \cup entries, !.notes = r.notes \cup notes, !.sources = r.sources \cup {source}]
        PROVE  Good(t)
    <3>1. /\ Shaped(t) /\ t.entries = r.entries \cup entries /\ t.sources = r.sources \cup {source} /\ t.rejections = r.rejections
          /\ t.notes = r.notes \cup notes /\ t.configured = r.configured
      BY <2>9 DEF Shaped
    <3>2. Grown(r, t)
      BY <3>1 DEF Grown
    <3>3. IsFiniteSet(t.entries)
      <4> DEFINE S == r.entries
      <4>1. IsFiniteSet(S)
        OBVIOUS
      <4> HIDE DEF S
      <4>2. IsFiniteSet(S \cup entries)
        BY <2>7, <4>1, FS_Union
      <4> QED
        BY <3>1, <4>2 DEF S
    <3>4. \A e \in t.entries : Raw(e)
      BY <2>8, <3>1
    <3>5. Told(t, c.path)
      BY <2>4, <2>5, <3>1 DEF Told
    <3>6. ASSUME NEW x \in t.sources \ r.sources, x.kind = "helm", x.file \in ValueRules(config), ~x.unevaluable
          PROVE  TagOrNote(t, x.file)
      BY <3>1, <3>6, <2>4, <2>6 DEF TagOrNote
    <3> QED
      BY <3>1, <3>2, <3>3, <3>4, <3>5, <3>6
  <2> QED
    BY <2>1, <2>9
<1>5. Good(q)
  BY <1>1, <1>2, <1>3, <1>4
<1> HIDE DEF q
<1>6. /\ Shaped(q) /\ Grown(r, q)
      /\ IsFiniteSet(q.entries) /\ \A e \in q.entries : Raw(e)
      /\ c.optional \/ Told(q, c.path)
      /\ \A x \in q.sources \ r.sources :
           x.kind = "helm" /\ x.file \in ValueRules(config) /\ ~x.unevaluable => TagOrNote(q, x.file)
  BY <1>5
<1> QED
  BY <1>6 DEF q

LEMMA RunReads ==
  ASSUME FilesTrue, NEW u, NEW doc, RunTrue(u, doc), u.pc = "reading", NEW c \in u.left
  PROVE  RunTrue([u EXCEPT !.left = u.left \ {c}, !.result = ReadCandidate(u.result, c, u.config)], doc)
<1> DEFINE q == ReadCandidate(u.result, c, u.config)
           v == [u EXCEPT !.left = u.left \ {c}, !.result = q]
<1>1. RunShaped(u) /\ Shaped(u.result) /\ u.result.configured \in 0..2 /\ WhileReading(u)
  BY DEF RunTrue
<1>2. /\ u.left \subseteq u.planned /\ (\A d \in u.planned : Known(d)) /\ Known(c)
      /\ IsFiniteSet(u.result.entries) /\ (\A e \in u.result.entries : Raw(e))
      /\ Accounted(u) /\ RulesKept(u) /\ SchemaTold(u) /\ ReadTold(u, u.left)
  BY <1>1 DEF WhileReading
<1>3. /\ Shaped(q) /\ Grown(u.result, q)
      /\ IsFiniteSet(q.entries) /\ (\A e \in q.entries : Raw(e))
      /\ c.optional \/ Told(q, c.path)
      /\ \A x \in q.sources \ u.result.sources :
           x.kind = "helm" /\ x.file \in ValueRules(u.config) /\ ~x.unevaluable => TagOrNote(q, x.file)
  BY <1>1, <1>2, CandidateRead
<1> HIDE DEF q
<1>4. /\ \A p : Told(u.result, p) => Told(q, p)
      /\ \A p : TagOrNote(u.result, p) => TagOrNote(q, p)
  BY <1>3, GrownTells
<1>5. /\ RunShaped(v) /\ v.pc = "reading" /\ v.config = u.config /\ v.planned = u.planned
      /\ v.left = u.left \ {c} /\ v.result = q
  <2> DEFINE left == u.left \ {c}
  <2> HIDE DEF left
  <2>1. ASSUME NEW t, t = [u EXCEPT !.left = left, !.result = q]
        PROVE  /\ RunShaped(t) /\ t.pc = "reading" /\ t.config = u.config /\ t.planned = u.planned /\ t.left = left /\ t.result = q
    BY <1>1, <2>1 DEF RunShaped
  <2> QED
    BY <2>1 DEF left
<1> HIDE DEF v
<1>6. Accounted(v) /\ SchemaTold(v)
  BY <1>2, <1>3, <1>5 DEF Accounted, SchemaTold, Grown
<1>7. RulesKept(v)
  BY <1>5, <1>2, <1>4, <1>3 DEF RulesKept
<1>8. ReadTold(v, v.left)
  BY <1>5, <1>3, <1>2, <1>4 DEF ReadTold
<1>9. WhileReading(v)
  BY <1>2, <1>5, <1>3, <1>6, <1>7, <1>8 DEF WhileReading
<1>10. q.configured \in 0..2
  BY <1>1, <1>3 DEF Grown
<1>11. RunTrue(v, doc)
  BY <1>3, <1>5, <1>9, <1>10 DEF RunTrue
<1> QED
  BY <1>11 DEF v, q

LEMMA RunCollects ==
  ASSUME NEW u, NEW doc, RunTrue(u, doc), u.pc = "reading", u.left = {}
  PROVE  RunTrue([u EXCEPT !.pc = "collected", !.result = BuildDeviations(FinishHelmValues(u.result, u.config))], doc)
<1> DEFINE r == u.result
           notes == r.notes \cup {Remark(p, "rule") : p \in {p \in ValueRules(u.config) : ~Applied(r, p)}}
           q == FinishHelmValues(r, u.config)
           b == BuildDeviations(q)
           v == [u EXCEPT !.pc = "collected", !.result = b]
<1>1. RunShaped(u) /\ Shaped(r) /\ r.configured \in 0..2 /\ WhileReading(u)
  BY DEF RunTrue
<1>2. /\ IsFiniteSet(r.entries) /\ (\A e \in r.entries : Raw(e))
      /\ Accounted(u) /\ RulesKept(u) /\ SchemaTold(u) /\ ReadTold(u, {})
  BY <1>1 DEF WhileReading
<1>3. Shaped(q) /\ q.entries = r.entries /\ q.sources = r.sources /\ q.rejections = r.rejections /\ q.notes = notes
      /\ q.configured = r.configured
  <2>1. q = [r EXCEPT !.notes = notes]
    BY DEF FinishHelmValues
  <2> HIDE DEF q, notes
  <2>2. ASSUME NEW t, t = [r EXCEPT !.notes = notes]
        PROVE  Shaped(t) /\ t.entries = r.entries /\ t.sources = r.sources /\ t.rejections = r.rejections /\ t.notes = notes
               /\ t.configured = r.configured
    BY <1>1, <2>2 DEF Shaped
  <2> QED
    BY <2>1, <2>2
<1>4. Shaped(b)
  <2>1. b = [q EXCEPT !.entries = {Noted(e, q.entries) : e \in q.entries}, !.deviations = DeviationsIn(q.entries)]
    BY DEF BuildDeviations, DeviationsIn, Noted, Group, Said, Named, Conflicting
  <2> DEFINE noted == {Noted(e, q.entries) : e \in q.entries}
             found == DeviationsIn(q.entries)
  <2> HIDE DEF noted, found, q, b
  <2>2. ASSUME NEW t, t = [q EXCEPT !.entries = noted, !.deviations = found] PROVE Shaped(t)
    BY <1>3, <2>2 DEF Shaped
  <2> QED
    BY <2>1, <2>2 DEF noted, found
<1>5. DeviationsSound(b)
  <2> HIDE DEF q, b
  <2>1. IsFiniteSet(q.entries) /\ \A e \in q.entries : Raw(e)
    BY <1>2, <1>3
  <2> QED
    BY <1>3, <2>1, DeviationsOf DEF b
<1>6. /\ b.entries = {Noted(e, r.entries) : e \in r.entries}
      /\ b.sources = r.sources /\ b.rejections = r.rejections /\ b.notes = notes /\ b.configured = r.configured
  <2> HIDE DEF q, notes, r
  <2>1. /\ b.entries = {Noted(e, q.entries) : e \in q.entries}
        /\ b.sources = q.sources /\ b.rejections = q.rejections /\ b.notes = q.notes /\ b.configured = q.configured
    BY <1>3, BuildIs
  <2> HIDE DEF b
  <2> QED
    BY <1>3, <2>1
<1>7. r.notes \subseteq notes /\ \A p \in ValueRules(u.config) : Applied(r, p) \/ \E n \in notes : n.file = p
  BY RemarkIs
<1>8. \A e \in r.entries : Noted(e, r.entries).file = e.file /\ Noted(e, r.entries).key = e.key
  BY <1>2, NotedIs
<1> HIDE DEF b, q, notes, r
<1>9. \A p : Told(r, p) => Told(b, p)
  BY <1>6, <1>7 DEF Told
<1>10. \A p : TagOrNote(r, p) => TagOrNote(b, p)
  BY <1>6, <1>7, <1>8 DEF TagOrNote
<1>11. RunShaped(v) /\ v.pc = "collected" /\ v.config = u.config /\ v.planned = u.planned /\ v.result = b
  <2>1. ASSUME NEW t, t = [u EXCEPT !.pc = "collected", !.result = b]
        PROVE  RunShaped(t) /\ t.pc = "collected" /\ t.config = u.config /\ t.planned = u.planned /\ t.result = b
    BY <1>1, <2>1 DEF RunShaped
  <2> QED
    BY <2>1
<1> HIDE DEF v
<1>r. u.result = r
  BY DEF r
<1>12. \A c \in u.planned : c.optional \/ Told(b, c.path)
  BY <1>2, <1>9, <1>r DEF ReadTold
<1>13. ASSUME NEW x \in u.config.sources PROVE Told(b, x.path) \/ (x.optional /\ ~Invalid(x))
  BY <1>6, <1>12, <1>2, <1>r DEF Told, Accounted
<1>14. ASSUME NEW p \in u.config.rules PROVE TagOrNote(b, p) \/ \E n \in b.rejections : n.why = "schema"
  <2>1. CASE \E n \in r.rejections : n.why = "schema"
    BY <1>6, <2>1
  <2>2. CASE u.config.rules = ValueRules(u.config)
    BY <1>2, <1>r, <2>2, <1>10, <1>6, <1>7 DEF Applied, RulesKept, TagOrNote
  <2> QED
    BY <1>2, <1>r, <2>1, <2>2 DEF SchemaTold
<1>15. OnceCollected(v)
  <2>1. ReadTold(v, {})
    BY <1>11, <1>12 DEF ReadTold
  <2> QED
    BY <1>5, <1>11, <1>13, <1>14, <2>1 DEF OnceCollected
<1>16. RunTrue(v, doc)
  <2>1. b.configured \in 0..2
    BY <1>1, <1>6
  <2> QED
    BY <1>4, <1>11, <1>15, <2>1 DEF RunTrue
<1> QED
  BY <1>16 DEF v, b, q, r

(***************************************************************************)
(* Every step.                                                             *)
(***************************************************************************)
\* A step of one run that leaves the rest alone.
LEMMA RunMoves ==
  ASSUME InventoryInv, NEW s \in Survey, NEW v, RunTrue(v, inventoryDoc),
         DOMAIN survey' = Survey, survey'[s] = v, \A t \in Survey \ {s} : survey'[t] = survey[t],
         UNCHANGED <<sourceFile, sourceConfig, inventoryDoc, replica>>, inventoryChanges' \in 0..MaxInventoryChanges
  PROVE  InventoryInv'
<1>1. \A t \in Survey : RunTrue(survey[t], inventoryDoc)
  BY DEF InventoryInv
<1>2. \A t \in Survey : survey'[t] = v \/ survey'[t] = survey[t]
  OBVIOUS
<1> DEFINE doc == inventoryDoc
           next == survey'
<1>3. \A t \in Survey : RunTrue(next[t], doc)
  <2> HIDE DEF doc, next
  <2> QED
    BY <1>1, <1>2 DEF next, doc
<1>4. (\A t \in Survey : RunTrue(survey[t], inventoryDoc))'
  <2>1. inventoryDoc' = doc
    OBVIOUS
  <2> QED
    BY <1>3, <2>1
<1>5. (DocSound(inventoryDoc) /\ DocSound(replica) /\ Behind(replica, inventoryDoc) /\ DocKept)'
  BY DEF InventoryInv, DocKept
<1>6. (FilesTrue /\ sourceConfig \in Configs)'
  BY DEF InventoryInv, FilesTrue
<1> QED
  BY <1>4, <1>5, <1>6 DEF InventoryInv

LEMMA BeginKeeps ==
  ASSUME InventoryInv, NEW s \in Survey, BeginSurvey(s)
  PROVE  InventoryInv'
<1>1. /\ sourceConfig \in Configs /\ DOMAIN survey = Survey /\ inventoryChanges \in 0..MaxInventoryChanges
      /\ RunTrue(survey[s], inventoryDoc)
  BY DEF InventoryInv
<1> DEFINE plan == Plan(sourceConfig)
           begun == [NoSurvey EXCEPT !.pc = "reading", !.config = sourceConfig, !.planned = plan.candidates, !.left = plan.candidates,
                       !.result = [Empty EXCEPT !.rejections = plan.rejections, !.notes = plan.notes,
                                                !.exclusions = plan.exclusions,
                                                !.configured = Cardinality(sourceConfig.sources)]]
           v == IF sourceConfig.state = "broken" THEN [NoSurvey EXCEPT !.pc = "failed"] ELSE begun
<1>2. RunTrue(v, inventoryDoc)
  BY IdleRun, RunEnds, <1>1, ConfigsFit, BeganRun
<1>3. survey' = [survey EXCEPT ![s] = v] /\ UNCHANGED <<sourceFile, sourceConfig, inventoryDoc, replica, inventoryChanges>>
  BY DEF BeginSurvey
<1> HIDE DEF v
<1>4. DOMAIN survey' = Survey /\ survey'[s] = v /\ \A t \in Survey \ {s} : survey'[t] = survey[t]
  BY <1>1, <1>3
<1>5. inventoryChanges' \in 0..MaxInventoryChanges
  BY <1>1, <1>3
<1> QED
  BY <1>2, <1>3, <1>4, <1>5, RunMoves

LEMMA ReadKeeps ==
  ASSUME InventoryInv, NEW s \in Survey, ReadNext(s)
  PROVE  InventoryInv'
<1>1. /\ FilesTrue /\ DOMAIN survey = Survey /\ inventoryChanges \in 0..MaxInventoryChanges
      /\ RunTrue(survey[s], inventoryDoc)
  BY DEF InventoryInv
<1>2. PICK c \in survey[s].left :
        survey' = [survey EXCEPT ![s].left = @ \ {c}, ![s].result = ReadCandidate(@, c, survey[s].config)]
  BY DEF ReadNext
<1>3. survey[s].pc = "reading" /\ UNCHANGED <<sourceFile, sourceConfig, inventoryDoc, replica, inventoryChanges>>
  BY DEF ReadNext
<1> DEFINE u == survey[s]
           left == u.left \ {c}
           result == ReadCandidate(u.result, c, u.config)
           v == [u EXCEPT !.left = left, !.result = result]
<1>4. RunTrue(v, inventoryDoc)
  <2> HIDE DEF u
  <2> QED
    BY <1>1, <1>2, <1>3, RunReads DEF u
<1>5. DOMAIN survey' = Survey /\ survey'[s] = v /\ \A t \in Survey \ {s} : survey'[t] = survey[t]
  <2>1. survey' = [survey EXCEPT ![s].left = left, ![s].result = result]
    <3>1. RunShaped(u)
      BY <1>1 DEF RunTrue
    <3>2. survey' = [survey EXCEPT ![s].left = left, ![s].result = ReadCandidate(@, c, u.config)]
      BY <1>2
    <3> HIDE DEF left
    <3>3. [survey EXCEPT ![s].left = left][s].result = u.result
      BY <1>1, <3>1 DEF RunShaped
    <3> QED
      BY <3>2, <3>3
  <2> HIDE DEF left, result
  <2> QED
    BY <1>1, <2>1
<1> HIDE DEF v
<1>6. inventoryChanges' \in 0..MaxInventoryChanges
  BY <1>1, <1>3
<1> QED
  BY <1>3, <1>4, <1>5, <1>6, RunMoves

LEMMA CollectKeeps ==
  ASSUME InventoryInv, NEW s \in Survey, FinishCollect(s)
  PROVE  InventoryInv'
<1>1. DOMAIN survey = Survey /\ inventoryChanges \in 0..MaxInventoryChanges /\ RunTrue(survey[s], inventoryDoc)
  BY DEF InventoryInv
<1> DEFINE u == survey[s]
           result == BuildDeviations(FinishHelmValues(u.result, u.config))
           v == [u EXCEPT !.pc = "collected", !.result = result]
<1>2. /\ survey' = [survey EXCEPT ![s].pc = "collected", ![s].result = BuildDeviations(FinishHelmValues(@, u.config))]
      /\ u.pc = "reading" /\ u.left = {} /\ UNCHANGED <<sourceFile, sourceConfig, inventoryDoc, replica, inventoryChanges>>
  BY DEF FinishCollect
<1>3. RunTrue(v, inventoryDoc)
  <2> HIDE DEF u
  <2> QED
    BY <1>1, <1>2, RunCollects DEF u
<1>4. DOMAIN survey' = Survey /\ survey'[s] = v /\ \A t \in Survey \ {s} : survey'[t] = survey[t]
  <2>1. survey' = [survey EXCEPT ![s].pc = "collected", ![s].result = result]
    BY <1>1, <1>2 DEF RunTrue, RunShaped
  <2> HIDE DEF result
  <2> QED
    BY <1>1, <2>1
<1> HIDE DEF v
<1>5. inventoryChanges' \in 0..MaxInventoryChanges
  BY <1>1, <1>2
<1> QED
  BY <1>2, <1>3, <1>4, <1>5, RunMoves

LEMMA ReadDocKeeps ==
  ASSUME InventoryInv, NEW s \in Survey, ReadDoc(s)
  PROVE  InventoryInv'
<1>1. /\ DOMAIN survey = Survey /\ inventoryChanges \in 0..MaxInventoryChanges /\ RunTrue(survey[s], inventoryDoc)
      /\ DocSound(replica) /\ Behind(replica, inventoryDoc)
  BY DEF InventoryInv
<1> DEFINE u == survey[s]
           next == IF replica.kind = "directory" THEN "failed"
                   ELSE IF replica.kind = "document" /\ replica.sound /\ replica.content = u.result THEN "done" ELSE "writing"
           revision == replica.revision
           v == [u EXCEPT !.base = replica, !.revision = revision, !.pc = next]
<1>2. /\ survey' = [survey EXCEPT ![s].base = replica, ![s].revision = revision, ![s].pc = next]
      /\ u.pc = "collected" /\ UNCHANGED <<sourceFile, sourceConfig, inventoryDoc, replica, inventoryChanges>>
  BY DEF ReadDoc
<1>3. /\ next \in {"failed", "done", "writing"}
      /\ next = "writing" => replica.kind # "directory" /\ (replica.kind = "document" /\ replica.sound => replica.content # u.result)
  OBVIOUS
<1>4. RunShaped(u) /\ Shaped(u.result) /\ u.result.configured \in 0..2 /\ OnceCollected(u)
  BY <1>1, <1>2 DEF RunTrue
<1> HIDE DEF next, revision
<1>5. RunShaped(v) /\ v.pc = next /\ v.config = u.config /\ v.planned = u.planned /\ v.result = u.result /\ v.base = replica
  <2> HIDE DEF u
  <2>1. ASSUME NEW t, t = [u EXCEPT !.base = replica, !.revision = revision, !.pc = next]
        PROVE  RunShaped(t) /\ t.pc = next /\ t.config = u.config /\ t.planned = u.planned /\ t.result = u.result /\ t.base = replica
    BY <1>4, <2>1 DEF RunShaped
  <2> QED
    BY <2>1
<1>6. DOMAIN survey' = Survey /\ survey'[s] = v /\ \A t \in Survey \ {s} : survey'[t] = survey[t]
  BY <1>1, <1>2
<1> HIDE DEF v, u
<1>7. OnceCollected(v)
  BY <1>4, <1>5 DEF OnceCollected, ReadTold
<1>8. next = "writing" => WhileWriting(v, inventoryDoc)
  BY <1>1, <1>3, <1>5 DEF WhileWriting
<1>9. RunTrue(v, inventoryDoc)
  BY <1>3, <1>4, <1>5, <1>7, <1>8 DEF RunTrue
<1>10. inventoryChanges' \in 0..MaxInventoryChanges
  BY <1>1, <1>2
<1> QED
  BY <1>2, <1>6, <1>9, <1>10, RunMoves

\* A revision comes on top of the one at the hub.
LEMMA HubMoves ==
  ASSUME InventoryInv, DOMAIN survey' = Survey, \A t \in Survey : RunTrue(survey'[t], inventoryDoc),
         inventoryDoc'.revision = inventoryDoc.revision + 1, DocSound(inventoryDoc'), DocKept',
         UNCHANGED <<sourceFile, sourceConfig, replica>>, inventoryChanges' \in 0..MaxInventoryChanges
  PROVE  InventoryInv'
<1>1. /\ FilesTrue /\ sourceConfig \in Configs /\ DocSound(inventoryDoc) /\ DocSound(replica) /\ Behind(replica, inventoryDoc)
  BY DEF InventoryInv
<1> DEFINE doc == inventoryDoc
           next == inventoryDoc'
           new == survey'
<1>2. \A t \in Survey : RunTrue(new[t], next)
  <2>1. doc.revision \in Nat /\ next.revision = doc.revision + 1 /\ \A t \in Survey : RunTrue(new[t], doc)
    BY <1>1 DEF DocSound
  <2> HIDE DEF doc, next, new
  <2> QED
    BY <2>1, DocMoves
<1>3. (\A t \in Survey : RunTrue(survey[t], inventoryDoc))'
  BY <1>2
<1>4. Behind(replica, next)
  <2> DEFINE a == replica.revision
             b == doc.revision
             c == next.revision
  <2>1. a \in Nat /\ b \in Nat /\ a <= b /\ c = b + 1
    BY <1>1 DEF DocSound, Behind
  <2> HIDE DEF a, b, c
  <2>2. a <= c /\ a # c
    BY <2>1
  <2> QED
    BY <2>2 DEF a, c, Behind
<1>5. (DocSound(inventoryDoc) /\ DocSound(replica) /\ Behind(replica, inventoryDoc))'
  BY <1>1, <1>4
<1>6. (FilesTrue /\ sourceConfig \in Configs)'
  BY <1>1 DEF FilesTrue
<1> QED
  BY <1>3, <1>5, <1>6 DEF InventoryInv

\* What a run writes: on top of what it had read, and something else.
LEMMA WrittenKept ==
  ASSUME InventoryInv, NEW s \in Survey, survey[s].pc = "writing", Accepts(survey[s].base), inventoryDoc' = Written(s)
  PROVE  inventoryDoc'.revision = inventoryDoc.revision + 1 /\ DocSound(inventoryDoc') /\ DocKept'
<1> DEFINE u == survey[s]
           base == u.base
           result == u.result
           doc == inventoryDoc
           next == inventoryDoc'
           number == doc.revision + 1
           over == base.revision
           was == doc.content
<1>1. RunTrue(u, doc) /\ DocSound(doc)
  BY DEF InventoryInv
<1>2. next.kind = "document" /\ next.content = result /\ next.sound = TRUE /\ next.revision = number /\ next.over = over /\ next.was = was
  <2>1. next = [Doc("document", result, TRUE, number) EXCEPT !.over = over, !.was = was]
    BY DEF Written
  <2> HIDE DEF number, over, was, result, next
  <2> QED
    BY <2>1 DEF Doc
<1>3. DocSound(base) /\ Behind(base, doc) /\ (base.kind = "document" /\ base.sound => base.content # result)
      /\ base.kind # "directory" /\ result.configured \in 0..2
  BY <1>1 DEF RunTrue, WhileWriting
<1>4. Accepts(base)
  OBVIOUS
<1>5. doc.revision \in Nat /\ base.revision \in Nat
  BY <1>1, <1>3 DEF DocSound
<1>6. base.revision = doc.revision
  BY <1>4, <1>1, <1>3 DEF Accepts, DocSound
<1>7. base = doc
  BY <1>3, <1>6 DEF Behind
<1>8. next.revision > 1 => was # result
  BY <1>2, <1>5, <1>3, <1>7, OtherIs DEF DocSound
<1>9. over = number - 1
  BY <1>5, <1>6
<1>10. DocKept'
  BY <1>2, <1>8, <1>9 DEF DocKept
<1>11. number \in Nat
  BY <1>5
<1>12. DocSound(next)
  BY <1>2, <1>11 DEF DocSound
<1> QED
  BY <1>2, <1>10, <1>12

LEMMA WriteDocKeeps ==
  ASSUME InventoryInv, NEW s \in Survey, WriteDoc(s)
  PROVE  InventoryInv'
<1>1. /\ DOMAIN survey = Survey /\ inventoryChanges \in 0..MaxInventoryChanges /\ \A t \in Survey : RunTrue(survey[t], inventoryDoc)
  BY DEF InventoryInv
<1> DEFINE u == survey[s]
<1>2. RunTrue(u, inventoryDoc) /\ u.pc = "writing" /\ UNCHANGED <<sourceFile, sourceConfig, replica, inventoryChanges>>
  BY <1>1 DEF WriteDoc
<1>3. CASE Accepts(u.base)
  <2> DEFINE number == inventoryDoc.revision + 1
             v == [u EXCEPT !.pc = "done", !.written = TRUE, !.revision = number]
  <2>1. inventoryDoc' = Written(s) /\ survey' = [survey EXCEPT ![s].pc = "done", ![s].written = TRUE, ![s].revision = number]
    BY <1>3 DEF WriteDoc
  <2>2. inventoryDoc'.revision = inventoryDoc.revision + 1 /\ DocSound(inventoryDoc') /\ DocKept'
    BY <1>2, <1>3, <2>1, WrittenKept
  <2> HIDE DEF number
  <2>3. DOMAIN survey' = Survey /\ survey'[s] = v /\ \A t \in Survey \ {s} : survey'[t] = survey[t]
    BY <1>1, <2>1
  <2>4. RunShaped(u) /\ Shaped(u.result) /\ u.result.configured \in 0..2 /\ OnceCollected(u)
    BY <1>2 DEF RunTrue
  <2> HIDE DEF u
  <2>5. RunShaped(v) /\ v.pc = "done" /\ v.config = u.config /\ v.planned = u.planned /\ v.result = u.result
    <3>1. ASSUME NEW t, t = [u EXCEPT !.pc = "done", !.written = TRUE, !.revision = number]
          PROVE  RunShaped(t) /\ t.pc = "done" /\ t.config = u.config /\ t.planned = u.planned /\ t.result = u.result
      BY <2>4, <3>1 DEF RunShaped
    <3> QED
      BY <3>1
  <2> HIDE DEF v
  <2>6. OnceCollected(v)
    BY <2>4, <2>5 DEF OnceCollected, ReadTold
  <2>7. RunTrue(v, inventoryDoc)
    BY <2>4, <2>5, <2>6 DEF RunTrue
  <2>8. \A t \in Survey : RunTrue(survey'[t], inventoryDoc)
    <3> DEFINE new == survey'
    <3>1. \A t \in Survey : new[t] = v \/ new[t] = survey[t]
      BY <2>3
    <3> HIDE DEF new
    <3>2. \A t \in Survey : RunTrue(new[t], inventoryDoc)
      BY <1>1, <2>7, <3>1
    <3> QED
      BY <3>2 DEF new
  <2>9. inventoryChanges' \in 0..MaxInventoryChanges
    BY <1>1, <1>2
  <2> QED
    BY <1>2, <2>2, <2>3, <2>8, <2>9, HubMoves
<1>4. CASE ~Accepts(u.base)
  <2> DEFINE v == [u EXCEPT !.pc = "failed"]
  <2>1. survey' = [survey EXCEPT ![s].pc = "failed"] /\ UNCHANGED inventoryDoc
    BY <1>4 DEF WriteDoc
  <2>2. RunTrue(v, inventoryDoc)
    <3> HIDE DEF u
    <3> QED
      BY <1>2, RunEnds
  <2>3. DOMAIN survey' = Survey /\ survey'[s] = v /\ \A t \in Survey \ {s} : survey'[t] = survey[t]
    BY <1>1, <2>1
  <2> HIDE DEF v
  <2>4. inventoryChanges' \in 0..MaxInventoryChanges
    BY <1>1, <1>2
  <2> QED
    BY <1>2, <2>1, <2>2, <2>3, <2>4, RunMoves
<1> QED
  BY <1>3, <1>4

LEMMA CountedInRange ==
  ASSUME inventoryChanges \in 0..MaxInventoryChanges, Counted
  PROVE  inventoryChanges' \in 0..MaxInventoryChanges
  BY InventoryAssumption DEF Counted

LEMMA FailureKeeps ==
  ASSUME InventoryInv, NEW s \in Survey, StoreFails(s)
  PROVE  InventoryInv'
<1>1. /\ DOMAIN survey = Survey /\ inventoryChanges \in 0..MaxInventoryChanges /\ \A t \in Survey : RunTrue(survey[t], inventoryDoc)
  BY DEF InventoryInv
<1> DEFINE u == survey[s]
           v == [u EXCEPT !.pc = "failed"]
<1>2. survey' = [survey EXCEPT ![s].pc = "failed"] /\ UNCHANGED <<sourceFile, sourceConfig, replica>> /\ Counted
  BY DEF StoreFails
<1>3. RunTrue(v, inventoryDoc)
  <2>1. RunTrue(u, inventoryDoc)
    BY <1>1
  <2> HIDE DEF u
  <2> QED
    BY <2>1, RunEnds
<1>4. DOMAIN survey' = Survey /\ survey'[s] = v /\ \A t \in Survey \ {s} : survey'[t] = survey[t]
  BY <1>1, <1>2
<1> HIDE DEF v
<1>5. inventoryChanges' \in 0..MaxInventoryChanges
  BY <1>1, <1>2, CountedInRange
<1>6. CASE UNCHANGED inventoryDoc
  BY <1>2, <1>3, <1>4, <1>5, <1>6, RunMoves
<1>7. CASE u.pc = "writing" /\ Accepts(u.base) /\ inventoryDoc' = Written(s)
  <2>1. inventoryDoc'.revision = inventoryDoc.revision + 1 /\ DocSound(inventoryDoc') /\ DocKept'
    BY <1>7, WrittenKept
  <2>2. \A t \in Survey : RunTrue(survey'[t], inventoryDoc)
    <3> DEFINE new == survey'
    <3>1. \A t \in Survey : new[t] = v \/ new[t] = survey[t]
      BY <1>4
    <3> HIDE DEF new
    <3>2. \A t \in Survey : RunTrue(new[t], inventoryDoc)
      BY <1>1, <1>3, <3>1
    <3> QED
      BY <3>2 DEF new
  <2> QED
    BY <1>2, <1>4, <1>5, <2>1, <2>2, HubMoves
<1> QED
  BY <1>6, <1>7 DEF StoreFails

LEMMA SyncKeeps ==
  ASSUME InventoryInv, Sync
  PROVE  InventoryInv'
  BY DEF Sync, InventoryInv, DocSound, Behind, FilesTrue, DocKept

\* Whether a link leads outside is asked of the files, not of what was read.
LEMMA EditKeeps ==
  ASSUME InventoryInv, NEW p \in {"manifest", "lock", "chart", "compose"}, EditSource(p)
  PROVE  InventoryInv'
  BY PathsAre, CountedInRange DEF EditSource, InventoryInv, FilesTrue, DocKept

LEMMA ForeignKeeps ==
  ASSUME InventoryInv, ForeignWrite
  PROVE  InventoryInv'
<1> DEFINE number == inventoryDoc.revision + 1
           text == OtherText(8)
<1>1. inventoryDoc' = Doc("document", text, TRUE, number) /\ UNCHANGED <<sourceFile, sourceConfig, replica, survey>> /\ Counted
  BY DEF ForeignWrite
<1>2. /\ DOMAIN survey = Survey /\ inventoryChanges \in 0..MaxInventoryChanges /\ \A t \in Survey : RunTrue(survey[t], inventoryDoc)
      /\ DocSound(inventoryDoc)
  BY DEF InventoryInv
<1>3. number \in Nat
  BY <1>2 DEF DocSound
<1> DEFINE next == inventoryDoc'
<1>4. next.kind = "document" /\ next.sound = TRUE /\ next.revision = number /\ next.over = number
  <2> HIDE DEF number, text, next
  <2> QED
    BY <1>1 DEF next, Doc
<1>5. DocSound(next) /\ DocKept'
  BY <1>4, <1>3 DEF DocSound, DocKept
<1>6. inventoryChanges' \in 0..MaxInventoryChanges
  BY <1>1, <1>2, CountedInRange
<1>7. DOMAIN survey' = Survey /\ \A t \in Survey : RunTrue(survey'[t], inventoryDoc)
  BY <1>1, <1>2
<1>8. inventoryDoc'.revision = inventoryDoc.revision + 1
  BY <1>4
<1> QED
  BY <1>1, <1>5, <1>6, <1>7, <1>8, HubMoves

\* What the proof rests on, for every number of runs and any bound on the changes:
\* whatever a run has read so far accounts for every source it is through with, a run
\* that writes holds a revision no newer than the hub's, and what it writes differs
\* from what it read.
THEOREM InventoryInvariance == InventorySpec => []InventoryInv
<1>1. InventoryInv /\ InventoryNext => InventoryInv'
  <2>1. ASSUME InventoryInv, InventoryNext PROVE InventoryInv'
    <3>1. ASSUME NEW s \in Survey, SurveyStep(s) PROVE InventoryInv'
      BY <2>1, <3>1, BeginKeeps, ReadKeeps, CollectKeeps, ReadDocKeeps, WriteDocKeeps DEF SurveyStep
    <3>2. ASSUME NEW s \in Survey, StoreFails(s) PROVE InventoryInv'
      BY <2>1, <3>2, FailureKeeps
    <3>3. ASSUME NEW p \in {"manifest", "lock", "chart", "compose"}, EditSource(p) PROVE InventoryInv'
      BY <2>1, <3>3, EditKeeps
    <3>4. ASSUME Sync \/ ForeignWrite PROVE InventoryInv'
      BY <2>1, <3>4, SyncKeeps, ForeignKeeps
    <3> QED
      BY <2>1, <3>1, <3>2, <3>3, <3>4 DEF InventoryNext
  <2> QED
    BY <2>1
<1>2. InventoryInv /\ UNCHANGED inventoryVars => InventoryInv'
  <2>1. ASSUME InventoryInv, UNCHANGED inventoryVars PROVE InventoryInv'
    BY <2>1 DEF inventoryVars, InventoryInv, DocKept, FilesTrue
  <2> QED
    BY <2>1
<1> QED
  BY InventoryStarts, <1>1, <1>2, PTL DEF InventorySpec

LEMMA InventoryTypes == InventoryInv => InventoryTypeOK
  BY DEF InventoryInv, FilesTrue, DocSound, RunTrue, InventoryTypeOK

\* An inventory says what it promises, for any number of runs, however the sources
\* change while they are read and whoever else writes the document: every source and
\* every rule is read or told of, deviations are the ones there are, a revision
\* replaces the one its run had read (Collect, Write, buildDeviations, finishHelmValues).
THEOREM InventoryIsTrue == InventorySpec => []InventoryTrue
<1>1. InventoryInv => InventoryTrue
  BY DeviationsAre, RangesTrue DEF InventoryInv, RunTrue, Surveyed, NamedTold, OnceCollected, TagOrNote, PlannedTold,
     ReadTold, InventoryTrue
<1> QED
  BY InventoryInvariance, <1>1, PTL

\* Paths, runs and documents are of their kinds (part of the type invariant of the run).
THEOREM InventoryTypeInvariance == InventorySpec => []InventoryTypeOK
BY InventoryInvariance, InventoryTypes, PTL
=============================================================================
