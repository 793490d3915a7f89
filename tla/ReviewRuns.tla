------------------------------- MODULE ReviewRuns -------------------------------
(***************************************************************************)
(* A review run of one day and the MCP tools that act on it                *)
(* (mcpserver/review.go, review/run.go, review/entries.go): the choice of   *)
(* its entries, its creation in steps, the reports of assistants on their   *)
(* entries with the check of their SARIF, and the status.  Several calls    *)
(* run at once; assistants write their artefacts beside them.               *)
(***************************************************************************)
EXTENDS Naturals, Sequences, FiniteSets

CONSTANTS
  Caller,        \* tool calls that may run at once
  MaxRunCalls,   \* bound: tool calls of all of them
  MaxMerges,     \* bound: merges of the run
  MaxRunEvents   \* bound: artefacts written by assistants, changes of the catalogue, failures

ASSUME RunBounds == {MaxRunCalls, MaxMerges, MaxRunEvents} \subseteq Nat

\* A scanner, an evidence recipe, a perspective recipe, and the triage, which
\* comes from a command module and not from the catalogue.
Tools == {"lint"}
AIEntries == {"evidence", "perspective", "scan-triage"}
RunEntries == Tools \cup AIEntries
ResultEntries == {"perspective", "scan-triage"}
Terminal == {"done", "failed", "skipped"}

VARIABLES
  offered,    \* the entries that can be chosen: installed, for the languages, with a valid contract
  recipe,     \* the evidence recipe when it is read: valid, invalid, missing
  runDir,     \* absent, directory, entries, cut, run
  runEntries, \* what run.json names
  statusFile, \* entry -> its file below entries/
  resultFiles,    \* entry -> its result file: none, empty, text
  textBasis,      \* the merge the triage's text is about
  sarif,      \* raw/evidence.sarif
  mergedAt,   \* the time of review-input.json, 0 before the first merge
  reading,    \* the merge the triage's assistant works with
  call,       \* Caller -> the call under way
  runCalls, merges, runEvents,
  created,    \* history: the entries the creation wrote
  runOvertaken,  \* history: an assistant wrote under a check or a status, or was overtaken by a merge
  misjudged   \* history: an answer showed a run complete that was not

runVars == <<offered, recipe, runDir, runEntries, statusFile, resultFiles, textBasis, sarif, mergedAt, reading, call,
             runCalls, merges, runEvents, created, runOvertaken, misjudged>>

NoStatus == [state |-> "start", there |-> FALSE, result |-> FALSE, job |-> "none", finished |-> 0, seen |-> 0, kept |-> {}]
NoSarif  == [is |-> "none", found |-> {}, version |-> 0]
\* What stands in a SARIF: findings in the scope, outside of it, or without a
\* place, and findings of a rule the recipe does not name.
Finding == {"in", "out", "foreign rule"}
NoInput == [entry |-> "lint", state |-> "running", result |-> FALSE, job |-> FALSE, reason |-> FALSE, finished |-> 0]
NoCall  == [step |-> "idle", wanted |-> {}, input |-> NoInput, seen |-> NoSarif, state |-> "start", job |-> "none",
            finished |-> 0, inconsistent |-> {}]

(***************************************************************************)
(* The choice of entries                                                   *)
(***************************************************************************)
\* A request names entries with their kinds; a name outside of the offer, a
\* wrong kind or a repeated name refuses all of it.
EntryKind(e) == IF e \in Tools THEN "tool" ELSE "ai"
Request(names, kind) == [i \in 1..Len(names) |-> [name |-> names[i], kind |-> kind[i]]]
Requests == {<<>>} \cup {Request(<<e>>, <<k>>) : e \in RunEntries \cup {"unknown"}, k \in {"tool", "ai"}}
            \cup {Request(<<"lint", e>>, <<"tool", "ai">>) : e \in {"evidence", "scan-triage"}}
            \cup {Request(<<"lint", "lint">>, <<"tool", "tool">>)}

Accepted(request) ==
  /\ \A i \in 1..Len(request) : request[i].name \in offered /\ request[i].kind = EntryKind(request[i].name)
  /\ \A i, j \in 1..Len(request) : i # j => request[i].name # request[j].name
SelectionOf(request) == IF request = <<>> THEN offered ELSE {request[i].name : i \in 1..Len(request)}

(***************************************************************************)
(* What a reader makes of the files                                        *)
(***************************************************************************)
RunReadable == runDir = "run"
EntryState(e) == statusFile[e].state
DeriveRunState(entries) ==
  CASE \A e \in entries : EntryState(e) = "start" -> "created"
    [] entries # {} /\ \A e \in entries : EntryState(e) \in Terminal -> "done"
    [] OTHER -> "running"

\* The triage belongs to a run even when run.json does not name it.
EffectiveEntries == IF "scan-triage" \in runEntries \/ "scan-triage" \notin offered THEN runEntries
                    ELSE runEntries \cup {"scan-triage"}

NonEmptyResult(e) == resultFiles[e] = "text"
Inconsistent(e) ==
  IF e = "evidence" THEN EntryState(e) = "done" /\ (statusFile[e].job # "done" \/ sarif.is \in {"none", "empty"})
  ELSE EntryState(e) = "done" /\ (~statusFile[e].result \/ ~NonEmptyResult(e))

\* Defect: the existence of the files decides.
TriageByFiles(text, finished) == IF ~text THEN "missing" ELSE IF mergedAt = 0 THEN "stale" ELSE "current"

\* Without a merge or a usable end time nothing shows that the triage is current.
TriageFreshness(text, finished) ==
  CASE ~text -> "missing"
    [] text /\ (mergedAt = 0 \/ finished = 0 \/ mergedAt > finished) -> "stale"
    [] OTHER -> "current"

(***************************************************************************)
(* Initial states                                                          *)
(***************************************************************************)
\* Before the run of the day, or with a run of the given entries, of which some have
\* been reported, and merged so far.
RunsBegin(offer, entries, done, merged) ==
  /\ offered = offer /\ recipe = "valid" /\ runEntries = entries /\ created = entries
  /\ runDir = IF entries = {} THEN "absent" ELSE "run"
  /\ statusFile = [e \in RunEntries |-> IF e \notin done THEN NoStatus ELSE
       [state |-> "done", there |-> TRUE, result |-> e \in ResultEntries, job |-> IF e = "evidence" THEN "done" ELSE "none",
        finished |-> 0, seen |-> IF e = "evidence" THEN 1 ELSE 0, kept |-> IF e = "evidence" THEN {"in"} ELSE {}]]
  /\ sarif = IF "evidence" \in done THEN [is |-> "sarif", found |-> {"in"}, version |-> 1] ELSE NoSarif
  /\ resultFiles = [e \in ResultEntries |-> IF e \in done THEN "text" ELSE "none"] /\ textBasis = 0
  /\ merges = merged /\ mergedAt = merged /\ reading = merged /\ call = [c \in Caller |-> NoCall]
  /\ runCalls = 0 /\ runEvents = 0 /\ runOvertaken = FALSE /\ misjudged = FALSE
RunsInit == \/ \E offer \in {RunEntries, {"lint", "evidence"}} : RunsBegin(offer, {}, {}, 0)
            \/ \E entries \in {{"lint", "evidence"}, {"perspective", "scan-triage"}} : RunsBegin(RunEntries, entries, {}, 0)
            \/ LET entries == {"lint", "evidence", "perspective"}
               IN MaxMerges > 0 /\ RunsBegin(RunEntries, entries, entries, 1)

RunsTypeOK ==
  /\ offered \subseteq RunEntries /\ recipe \in {"valid", "invalid", "missing"}
  /\ runDir \in {"absent", "directory", "entries", "cut", "run"} /\ runEntries \subseteq RunEntries
  /\ \A e \in RunEntries : /\ statusFile[e].state \in Terminal \cup {"start", "running"}
                           /\ statusFile[e].job \in {"none", "done", "failed"} /\ statusFile[e].kept \subseteq Finding
  /\ resultFiles \in [ResultEntries -> {"none", "empty", "text"}] /\ sarif.is \in {"none", "empty", "broken", "sarif"}
  /\ sarif.found \subseteq Finding /\ {textBasis, mergedAt, reading, merges} \subseteq 0..MaxMerges
  /\ \A c \in Caller : call[c].step \in {"idle", "mkdir", "mkdir entries", "write run", "first status",
                                         "check", "clean", "write", "answer"}
  /\ runCalls \in 0..MaxRunCalls /\ runEvents \in 0..MaxRunEvents
  /\ created \subseteq RunEntries /\ runOvertaken \in BOOLEAN /\ misjudged \in BOOLEAN

CallStarts(c) == call[c].step = "idle" /\ runCalls < MaxRunCalls /\ runCalls' = runCalls + 1
Goes(c, step) == call' = [call EXCEPT ![c].step = step]
Returns(c) == call' = [call EXCEPT ![c] = NoCall]
RunFilesStay == UNCHANGED <<runDir, runEntries, created>>
ArtefactsStay == UNCHANGED <<resultFiles, textBasis, sarif, mergedAt, reading, merges, runOvertaken>>
OffersStay == UNCHANGED <<offered, recipe, runEvents>>

(***************************************************************************)
(* review_create                                                           *)
(***************************************************************************)
BeginCreate(c) ==
  /\ CallStarts(c)
  /\ \E request \in Requests :
       /\ Accepted(request) /\ SelectionOf(request) # {} /\ runDir = "absent"
       /\ call' = [call EXCEPT ![c] = [NoCall EXCEPT !.step = "mkdir", !.wanted = SelectionOf(request)]]
  /\ UNCHANGED <<statusFile, misjudged>> /\ OffersStay /\ RunFilesStay /\ ArtefactsStay

\* Only one call makes the directory of the day.
MakeRunDir(c) ==
  /\ call[c].step = "mkdir"
  /\ IF runDir = "absent" THEN runDir' = "directory" /\ Goes(c, "mkdir entries")
                          ELSE Returns(c) /\ UNCHANGED runDir
  /\ UNCHANGED <<runEntries, created, statusFile, runCalls, misjudged>> /\ OffersStay /\ ArtefactsStay

MakeEntriesDir(c) ==
  /\ call[c].step = "mkdir entries" /\ runDir' = (IF runDir = "directory" THEN "entries" ELSE runDir) /\ Goes(c, "write run")
  /\ UNCHANGED <<runEntries, created, statusFile, runCalls, misjudged>> /\ OffersStay /\ ArtefactsStay

WriteRun(c) ==
  /\ call[c].step = "write run" /\ runDir' = "run" /\ runEntries' = call[c].wanted
  /\ created' = IF created = {} THEN call[c].wanted ELSE created
  /\ IF "scan-triage" \in call[c].wanted THEN Goes(c, "first status") ELSE Returns(c)
  /\ UNCHANGED <<statusFile, runCalls, misjudged>> /\ OffersStay /\ ArtefactsStay

WriteInitialScanTriageEntry(c) ==
  /\ call[c].step = "first status" /\ statusFile' = [statusFile EXCEPT !["scan-triage"] = [NoStatus EXCEPT !.there = TRUE]]
  /\ Returns(c) /\ UNCHANGED <<runCalls, misjudged>> /\ OffersStay /\ RunFilesStay /\ ArtefactsStay

(***************************************************************************)
(* review_write_ai_entry                                                   *)
(***************************************************************************)
\* The triage can be reported even where the run does not name it.
ReportableEntry(e) == e \in AIEntries /\ (e \in runEntries \/ (e = "scan-triage" /\ e \in offered))

ValidateAIEntryInput(i) ==
  /\ i.job => i.entry = "evidence" /\ i.state = "done"
  /\ i.entry = "evidence" => ~i.result /\ (i.state = "done" => i.job)
  /\ i.entry # "evidence" /\ i.state = "done" => i.result
  /\ i.state = "done" /\ i.result => resultFiles[i.entry] = "text"
  /\ i.state = "running" => i.finished = 0
  /\ i.state \in {"failed", "skipped"} => i.reason

\* The end time is that of the writing or of the report, cut to the second: it
\* may lie before a merge within the same second.
BeginReport(c) ==
  /\ CallStarts(c) /\ RunReadable
  /\ \E e \in AIEntries, state \in {"running", "done", "failed"}, finished \in {0, merges} \cup {m \in {merges - 1} : m > 0} :
       LET i == [entry |-> e, state |-> state, result |-> e # "evidence" /\ state = "done",
                 job |-> e = "evidence" /\ state = "done",
                 reason |-> state = "failed", finished |-> IF e = "scan-triage" /\ state = "done" THEN finished ELSE 0]
       IN /\ ReportableEntry(e) /\ ValidateAIEntryInput(i)
          /\ call' = [call EXCEPT ![c] = [NoCall EXCEPT !.step = (IF i.job THEN "check" ELSE "write"),
                                          !.input = i, !.state = state]]
          /\ runOvertaken' = (runOvertaken \/ (e = "scan-triage" /\ state = "done" /\ textBasis < merges))
  /\ UNCHANGED <<statusFile, misjudged, resultFiles, textBasis, sarif, mergedAt, reading, merges>>
  /\ OffersStay /\ RunFilesStay

KeptFindings(found) == found \ {"out"}

\* Faults of the call are refused, faults of the artefact make the entry failed.
EvaluateEvidenceJob(c) ==
  /\ call[c].step = "check"
  /\ IF sarif.is \in {"none", "empty"} \/ recipe # "valid" THEN Returns(c)
     ELSE IF sarif.is = "broken" \/ "foreign rule" \in sarif.found
     THEN call' = [call EXCEPT ![c].step = "write", ![c].state = "failed", ![c].job = "failed"]
     ELSE call' = [call EXCEPT ![c].step = IF "out" \in sarif.found THEN "clean" ELSE "write",
                               ![c].job = "done", ![c].seen = sarif]
  /\ UNCHANGED <<statusFile, runCalls, misjudged>> /\ OffersStay /\ RunFilesStay /\ ArtefactsStay

RewriteSarif(c) ==
  /\ call[c].step = "clean" /\ Goes(c, "write")
  /\ sarif' = [call[c].seen EXCEPT !.found = KeptFindings(@)]
  /\ UNCHANGED <<statusFile, runCalls, misjudged, resultFiles, textBasis, mergedAt, reading, merges, runOvertaken>>
  /\ OffersStay /\ RunFilesStay

WriteAIEntryStatus(c) ==
  LET i == call[c].input IN
  /\ call[c].step = "write" /\ Returns(c)
  /\ statusFile' = [statusFile EXCEPT ![i.entry] =
       [state |-> call[c].state, there |-> TRUE, result |-> i.result, job |-> call[c].job, finished |-> i.finished,
        seen |-> call[c].seen.version, kept |-> KeptFindings(call[c].seen.found)]]
  /\ UNCHANGED <<runCalls, misjudged>> /\ OffersStay /\ RunFilesStay /\ ArtefactsStay

(***************************************************************************)
(* review_scan's choice, review_merge, review_status                       *)
(***************************************************************************)
\* The scan itself is ReviewScan; here an entry gets its end state.
ScanEntry(c) ==
  /\ CallStarts(c) /\ RunReadable /\ "lint" \in runEntries /\ EntryState("lint") = "start"
  /\ \E state \in {"done", "failed"} :
       statusFile' = [statusFile EXCEPT !["lint"] = [NoStatus EXCEPT !.state = state, !.there = TRUE]]
  /\ UNCHANGED <<call, misjudged>> /\ OffersStay /\ RunFilesStay /\ ArtefactsStay

MergeRun(c) ==
  /\ call[c].step = "idle" /\ RunReadable /\ merges < MaxMerges /\ merges' = merges + 1 /\ mergedAt' = merges + 1
  /\ UNCHANGED <<call, runCalls, statusFile, misjudged, resultFiles, textBasis, sarif, reading, runOvertaken>>
  /\ OffersStay /\ RunFilesStay

\* The entries are read first, the artefacts and the state of the run after them.
BeginStatus(c) ==
  /\ CallStarts(c) /\ RunReadable
  /\ call' = [call EXCEPT ![c] = [NoCall EXCEPT !.step = "answer", !.finished = statusFile["scan-triage"].finished,
                                                !.inconsistent = {e \in EffectiveEntries \cap AIEntries : Inconsistent(e)}]]
  /\ UNCHANGED <<statusFile, misjudged>> /\ OffersStay /\ RunFilesStay /\ ArtefactsStay

\* Complete is a run that is done, without an inconsistent entry, its triage current.
Complete == /\ DeriveRunState(EffectiveEntries) = "done"
            /\ \A e \in EffectiveEntries \cap AIEntries : ~Inconsistent(e)
            /\ resultFiles["scan-triage"] # "none" => textBasis = merges
AnswerStatus(c) ==
  LET triage == TriageFreshness(resultFiles["scan-triage"] # "none", call[c].finished)
      shownComplete == DeriveRunState(EffectiveEntries) = "done" /\ call[c].inconsistent = {} /\ triage # "stale"
  IN /\ call[c].step = "answer" /\ Returns(c)
     /\ misjudged' = (misjudged \/ (~runOvertaken /\ ((shownComplete /\ ~Complete)
                                                      \/ (triage = "current" /\ textBasis < merges))))
     /\ UNCHANGED <<statusFile, runCalls>> /\ OffersStay /\ RunFilesStay /\ ArtefactsStay

(***************************************************************************)
(* Assistants, the catalogue, faults                                       *)
(***************************************************************************)
RunEvent == runEvents < MaxRunEvents /\ runEvents' = runEvents + 1

AssistantWritesResult ==
  /\ RunReadable /\ RunEvent
  /\ \E e \in ResultEntries, text \in {"empty", "text"} :
       /\ e = "scan-triage" => merges > 0 /\ reading > 0
       /\ resultFiles' = [resultFiles EXCEPT ![e] = text] /\ textBasis' = IF e = "scan-triage" THEN reading ELSE textBasis
  /\ runOvertaken' = (runOvertaken \/ \E c \in Caller : call[c].step \in {"write", "answer"})
  /\ UNCHANGED <<offered, recipe, runDir, runEntries, created, statusFile, sarif, mergedAt, reading, call, runCalls, merges,
                 misjudged>>

AssistantReadsMerge ==
  /\ mergedAt > 0 /\ reading' = merges /\ reading # merges
  /\ UNCHANGED <<offered, recipe, runDir, runEntries, created, statusFile, resultFiles, textBasis, sarif,
                 mergedAt, call, runCalls,
                 merges, runEvents, runOvertaken, misjudged>>

AssistantWritesSarif ==
  /\ RunReadable /\ "evidence" \in runEntries /\ RunEvent
  /\ \E is \in {"empty", "broken", "sarif"}, found \in {{}, {"in", "out"}, {"in", "foreign rule"}} :
       /\ is # "sarif" => found = {}
       /\ sarif' = [is |-> is, found |-> found, version |-> sarif.version + 1]
  /\ runOvertaken' = (runOvertaken \/ \E c \in Caller : call[c].step \in {"check", "clean", "write", "answer"})
  /\ UNCHANGED <<offered, recipe, runDir, runEntries, created, statusFile, resultFiles, textBasis, mergedAt,
                 reading, call, runCalls,
                 merges, misjudged>>

\* Recipes and command modules belong to the project and may change in a run.
CatalogueChanges ==
  /\ RunEvent
  /\ \/ recipe' \in {"invalid", "missing"} /\ UNCHANGED offered
     \/ offered' = offered \ {"scan-triage"} /\ UNCHANGED recipe
  /\ UNCHANGED <<runDir, runEntries, created, statusFile, resultFiles, textBasis, sarif, mergedAt, reading, call, runCalls,
                 merges, runOvertaken, misjudged>>

\* A kill, or a failing call: what is written by renaming stays as it was,
\* run.json may be cut short.
CallBreaks(c) ==
  /\ call[c].step # "idle" /\ RunEvent /\ Returns(c)
  /\ \/ UNCHANGED runDir
     \/ call[c].step = "write run" /\ runDir' = "cut"
  /\ UNCHANGED <<offered, recipe, runEntries, created, statusFile, runCalls, misjudged>> /\ ArtefactsStay

RunsNext ==
  \/ \E c \in Caller :
       \/ BeginCreate(c) \/ MakeRunDir(c) \/ MakeEntriesDir(c) \/ WriteRun(c) \/ WriteInitialScanTriageEntry(c)
       \/ BeginReport(c) \/ EvaluateEvidenceJob(c) \/ RewriteSarif(c) \/ WriteAIEntryStatus(c)
       \/ ScanEntry(c) \/ MergeRun(c) \/ BeginStatus(c) \/ AnswerStatus(c) \/ CallBreaks(c)
  \/ AssistantWritesResult \/ AssistantReadsMerge \/ AssistantWritesSarif \/ CatalogueChanges

RunsSpec == RunsInit /\ [][RunsNext]_runVars

(***************************************************************************)
(* Properties                                                              *)
(***************************************************************************)
\* A run keeps the entries it was created with, whoever creates at once.
RunStays == runDir = "run" => runEntries = created

\* A done evidence entry has a checked job, and its SARIF is what the check has
\* left, unless the assistant wrote it again.
EvidenceHonest ==
  LET s == statusFile["evidence"] IN
  s.state = "done" => /\ s.job = "done" /\ s.kept \subseteq {"in"}
                      /\ sarif.version = s.seen /\ ~runOvertaken => sarif.found = s.kept

\* A done entry that needs a result names one, and its file was written.
ResultsThere == \A e \in ResultEntries : statusFile[e].state = "done" => statusFile[e].result /\ resultFiles[e] # "none"

\* What a status shows as complete is complete; run.go:271, mcpserver/review.go:513-680, 1113-1204.
RunKept == RunStays /\ EvidenceHonest /\ ResultsThere /\ ~misjudged
================================================================================
