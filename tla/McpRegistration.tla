--------------------------- MODULE McpRegistration ---------------------------
(***************************************************************************)
(* The registration of the MCP server with the assistants                  *)
(* (project/mcp.go, mcp_servers.go): .mcp.json of Claude Code, opencode.json *)
(* or opencode.jsonc of OpenCode.  The button Einrichten writes whatever is *)
(* missing; a start and an update of the clone repair by themselves and may *)
(* do much less.  Two environments, host and container, share the project: *)
(* each has a home of its own.  Assistants and users write the same files. *)
(***************************************************************************)
EXTENDS Naturals, FiniteSets

CONSTANTS
  Env,            \* the environments that run k-playbook
  MaxMcpRuns,     \* bound: runs
  MaxMcpEvents    \* bound: runs during another, changes of others, failed writes, kills, git without an answer

ASSUME McpAssumption == {MaxMcpRuns, MaxMcpEvents} \subseteq Nat

VARIABLES
  mcpFile,     \* what lies under the three names
  traces,      \* the targets whose assistant has files of its own in the project
  vcs,         \* what K-PLAYBOOK.yaml says, and whether git finds a repository
  installedAs,   \* the command InstalledCommandPath finds in each environment
  mcpRun,      \* the run of each environment
  mcpRuns, mcpEvents,
  lastWritten,     \* history: names written by runs since somebody else changed something
  mcpHarm      \* history: what a run did that it may not

mcpVars == <<mcpFile, traces, vcs, installedAs, mcpRun, mcpRuns, mcpEvents, lastWritten, mcpHarm>>

FileName == {".mcp.json", "opencode.json", "opencode.jsonc"}
TargetId == {"claude", "opencode"}
Scopes   == {"all", "outdated", "outdated and unversioned"}  \* Einrichten, update, start

(***************************************************************************)
(* Entries: whose command, and in which shape.  legacy is the old wrapper,  *)
(* home the path in some home, name the bare name, other anything else.    *)
(* ok is what k-playbook writes; args has other arguments; off is disabled  *)
(* or has no list of arguments; odd names no command.                       *)
(***************************************************************************)
NoEntry == [cmd |-> "none", shape |-> "odd"]
IsOutdatedCommand(cmd) == cmd \in {"legacy", "wrapper"}  \* wrapper: an absolute path that ends like the old one
IsAcceptedCommand(cmd) == cmd \in {"home", "name"}
EntryUpToDate(entry) == entry.shape = "ok" /\ IsAcceptedCommand(entry.cmd)
EntryOutdated(entry) == entry.shape # "odd" /\ IsOutdatedCommand(entry.cmd)

(***************************************************************************)
(* A file: nothing, a JSON object, or something else; over a link into the *)
(* repository or out of it; its section of servers; the own entry; the      *)
(* instructions of OpenCode; tracked: git has the file the path leads to.    *)
(***************************************************************************)
NoSuchFile == [is |-> "missing", link |-> "none", section |-> "absent", entry |-> NoEntry,
               memory |-> "absent", tracked |-> FALSE]
JsonObject(section, entry, memory) == [NoSuchFile EXCEPT !.is = "object", !.section = section, !.entry = entry,
                                       !.memory = memory]
FileThere(name) == mcpFile[name].is # "missing"

\* opencode.jsonc counts only where it lies alone.
OpencodeTarget == IF FileThere("opencode.jsonc") /\ ~FileThere("opencode.json") THEN "opencode.jsonc" ELSE "opencode.json"
OpencodeAmbiguous == FileThere("opencode.jsonc") /\ FileThere("opencode.json")
TargetsNow == [t \in TargetId |-> IF t = "claude" THEN ".mcp.json" ELSE OpencodeTarget]
IsOpencode(name) == name # ".mcp.json"

\* readJSONObject and mcpSection: a file that is no object, and a section that is none, are left alone.
ReadableFile(doc) == doc.is \notin {"broken", "torn"} /\ doc.section # "other"
EntryThere(doc)  == doc.entry # NoEntry
MemoryConfigured(doc) == doc.memory \in {"has", "other"}

CheckTarget(t, cmd) ==
  LET doc == mcpFile[TargetsNow[t]] IN
  IF cmd = "none" THEN "no-command"
  ELSE IF ~ReadableFile(doc) THEN "unreadable"
  ELSE IF doc.is = "missing" THEN "missing-file"
  ELSE IF ~EntryThere(doc) THEN "missing-entry"
  ELSE IF EntryUpToDate(doc.entry) THEN IF t = "opencode" /\ OpencodeAmbiguous THEN "ambiguous-target" ELSE "ok"
  ELSE IF EntryOutdated(doc.entry) THEN "outdated" ELSE "stale"

\* The inventory of the servers lists the own entry wherever it is read, in both files of OpenCode.
ServerListed(name) == /\ name \in {TargetsNow[t] : t \in TargetId} \/ OpencodeAmbiguous
                /\ ReadableFile(mcpFile[name]) /\ EntryThere(mcpFile[name])
ServerListedAs(name) ==
  LET entry == mcpFile[name].entry IN
  [transport |-> IF entry.shape = "odd" THEN "unknown" ELSE "local", enabled |-> entry.shape # "off"]
\* newMCPServerInventory: where a required server is missing.
GapFor(t) == \A name \in FileName : ServerListed(name) => (IsOpencode(name) # (t = "opencode"))

(***************************************************************************)
(* Whether git has the file.  Whatever cannot be found out counts as       *)
(* tracked; without a repository, or with another vcs, nothing is.          *)
(***************************************************************************)
GitTracked(tracked, answers) ==
  vcs.config = "unreadable" \/ (vcs.config # "none" /\ (answers => vcs.repository /\ tracked))
\* An addition measures the name and stays away from links, a repair measures where a link leads.
ViaSymlink(name) == mcpFile[name].link # "none"
\* Defect: a repair measures the name, which is a link of its own.
RepairTargetByName(name, answers) == GitTracked(mcpFile[name].link = "none" /\ mcpFile[name].tracked, answers)
RepairTargetTracked(name, answers) == GitTracked(mcpFile[name].tracked \/ mcpFile[name].link = "outside", answers)

NeedsWrite(name, t, doc, scope, answers) ==
  CASE scope = "outdated" -> EntryThere(doc) /\ EntryOutdated(doc.entry)
    [] scope = "outdated and unversioned" ->
         IF EntryThere(doc) THEN EntryOutdated(doc.entry)
         ELSE /\ ~ViaSymlink(name)
              /\ doc.is = "missing" => t \in traces
              /\ ~GitTracked(mcpFile[name].tracked, answers)
    [] OTHER -> \/ ~EntryThere(doc) \/ ~EntryUpToDate(doc.entry)
                \/ IsOpencode(name) /\ ~MemoryConfigured(doc)

\* The absolute path of this environment, but the bare name where a repair meets a tracked file.
CommandFor(name, doc, scope, cmd, answers) ==
  IF scope # "all" /\ EntryThere(doc) /\ EntryOutdated(doc.entry) /\ RepairTargetTracked(name, answers) THEN "name" ELSE cmd

\* patchMCPFile and newMCPFile: the entry and the instructions, nothing else.
Patched(name, doc, cmd) ==
  [doc EXCEPT !.is = "object", !.section = "object", !.entry = [cmd |-> cmd, shape |-> "ok"],
              !.memory = IF IsOpencode(name) /\ @ \in {"absent", "list"} THEN "has" ELSE @]

(***************************************************************************)
(* Initial states                                                          *)
(***************************************************************************)
NoMcpRun == [scope |-> "none", step |-> "idle", todo |-> {}, targets |-> [t \in TargetId |-> ".mcp.json"],
             name |-> ".mcp.json", doc |-> NoSuchFile, cmd |-> "none", again |-> FALSE, alone |-> TRUE]
McpSteps == {"idle", "next", "truncate", "fill"}

OldEntry == [cmd |-> "legacy", shape |-> "ok"]
EntryKinds == {NoEntry} \cup [cmd : {"legacy", "home", "name", "other"}, shape : {"ok"}]
           \cup [cmd : {"legacy", "name"}, shape : {"args"}] \cup {[cmd |-> "other", shape |-> "odd"]}
ClaudeFiles == {NoSuchFile, [NoSuchFile EXCEPT !.is = "broken"], JsonObject("other", NoEntry, "absent"),
                JsonObject("absent", NoEntry, "absent")}
               \cup {JsonObject("object", entry, "absent") : entry \in EntryKinds}
OpencodeFiles == {NoSuchFile, [NoSuchFile EXCEPT !.is = "broken"]}
                 \cup {JsonObject("object", entry, memory) : memory \in {"absent", "list", "has", "other"},
                         entry \in {NoEntry} \cup [cmd : {"legacy", "name"}, shape : {"ok", "off"}]}
\* A file over a link lies elsewhere; what is missing behind a link is a dangling one.
FilePlaces(file) ==
  {file, [file EXCEPT !.tracked = TRUE]} \cup
  (IF file.is = "missing" THEN {[file EXCEPT !.link = "dangling"]}
   ELSE {[file EXCEPT !.link = "outside"], [file EXCEPT !.link = "inside", !.tracked = TRUE], [file EXCEPT !.link = "inside"]})

RegistrationTypeOK ==
  /\ \A n \in FileName : /\ mcpFile[n].is \in {"missing", "object", "broken", "torn"}
                          /\ mcpFile[n].link \in {"none", "inside", "outside", "dangling"}
                         /\ mcpFile[n].is # "object" => mcpFile[n].entry = NoEntry
                         /\ EntryThere(mcpFile[n]) => mcpFile[n].section = "object"
  /\ mcpFile[".mcp.json"].memory = "absent"
  /\ traces \subseteq TargetId /\ vcs.config \in {"git", "none", "unreadable"}
       /\ installedAs \in [Env -> {"home", "wrapper", "none"}]
  /\ \A e \in Env : mcpRun[e].step \in McpSteps /\ mcpRun[e].scope \in Scopes \cup {"none"} /\ mcpRun[e].todo \subseteq TargetId
  /\ mcpRuns \in 0..MaxMcpRuns /\ mcpEvents \in 0..MaxMcpEvents
  /\ lastWritten \subseteq FileName

\* One assistant has its files in some state, the other none; host and container.
RegistrationBegin(claude, json, jsonc, trace, config, repository, commands) ==
  /\ mcpFile = [n \in FileName |-> CASE n = ".mcp.json" -> claude [] n = "opencode.json" -> json [] OTHER -> jsonc]
  /\ traces = trace /\ vcs = [config |-> config, repository |-> repository] /\ installedAs = commands
  /\ mcpRun = [e \in Env |-> NoMcpRun] /\ mcpRuns = 0 /\ mcpEvents = 0
  /\ lastWritten = {} /\ mcpHarm = {}

\* A file in a git repository whose assistant is used, in any state; the files most
\* easily harmed, also where git, the trace or the command are others.
RegistrationInit ==
  \/ \E file \in ClaudeFiles : \E claude \in FilePlaces(file) :
       RegistrationBegin(claude, NoSuchFile, NoSuchFile, TargetId, "git", TRUE, [e \in Env |-> "home"])
  \/ \E json \in OpencodeFiles, jsonc \in {NoSuchFile, JsonObject("object", OldEntry, "list")} :
       RegistrationBegin(NoSuchFile, json, jsonc, TargetId, "git", TRUE, [e \in Env |-> "home"])
  \/ \E claude \in FilePlaces(NoSuchFile) \cup FilePlaces(JsonObject("object", OldEntry, "absent")),
        config \in {"git", "none", "unreadable"},
        trace \in {{}, {"claude"}}, repository \in BOOLEAN, wrapped \in {{}} \cup {{e} : e \in Env} :
       RegistrationBegin(claude, NoSuchFile, NoSuchFile, trace, config, repository,
                         [e \in Env |-> IF e \in wrapped THEN "wrapper" ELSE "home"])

(***************************************************************************)
(* A run                                                                   *)
(***************************************************************************)
McpEvent == mcpEvents < MaxMcpEvents /\ mcpEvents' = mcpEvents + 1
McpTo(e, step) == mcpRun' = [mcpRun EXCEPT ![e].step = step]
NextTarget(e) == mcpRun' = [mcpRun EXCEPT ![e] = [NoMcpRun EXCEPT !.scope = mcpRun[e].scope, !.step = "next",
                                                  !.todo = mcpRun[e].todo,
                                                     !.targets = mcpRun[e].targets, !.alone = mcpRun[e].alone]]
TrackedNow(name) == vcs.config = "git" /\ vcs.repository /\ (mcpFile[name].tracked \/ mcpFile[name].link = "outside")
Homely == \A e \in Env : installedAs[e] # "wrapper"

\* The targets are chosen once.  Without a command of its own a run writes nothing.
BeginEntries(e, scope) ==
  /\ mcpRun[e].step = "idle" /\ mcpRuns < MaxMcpRuns /\ mcpRuns' = mcpRuns + 1 /\ installedAs[e] # "none"
  /\ LET alone == \A o \in Env : mcpRun[o].step = "idle" IN
     /\ (alone /\ UNCHANGED mcpEvents) \/ (~alone /\ McpEvent)
     /\ mcpRun' = [o \in Env |-> IF o = e THEN [NoMcpRun EXCEPT !.scope = scope, !.step = "next", !.todo = TargetId,
                                                             !.targets = TargetsNow, !.alone = alone]
                              ELSE [mcpRun[o] EXCEPT !.alone = FALSE]]
  /\ UNCHANGED <<mcpFile, traces, vcs, installedAs, lastWritten, mcpHarm>>

\* Each target is read; what cannot be read stays as it is.  git may give no
\* answer: then nothing is added, and a repair writes the bare name.
ReadTarget(e) ==
  /\ mcpRun[e].step = "next" /\ mcpRun[e].todo # {}
  /\ \E answers \in BOOLEAN :
       LET r    == mcpRun[e]
           t    == IF "claude" \in r.todo THEN "claude" ELSE "opencode"
           name == r.targets[t]
           doc  == mcpFile[name]
           go   == ReadableFile(doc) /\ NeedsWrite(name, t, doc, r.scope, answers)
       IN /\ (answers /\ UNCHANGED mcpEvents) \/ (~answers /\ vcs.config = "git" /\ r.scope # "all" /\ McpEvent)
          /\ mcpRun' = [mcpRun EXCEPT ![e] =
               IF go THEN [r EXCEPT !.todo = r.todo \ {t}, !.name = name, !.doc = doc,
                           !.again = name \in lastWritten, !.step = "truncate",
                           !.cmd = CommandFor(name, doc, r.scope, installedAs[e], answers)]
               ELSE [r EXCEPT !.todo = r.todo \ {t}]]
  /\ UNCHANGED <<mcpFile, traces, vcs, installedAs, mcpRuns, lastWritten, mcpHarm>>

\* What a run that nobody disturbed may not do to the file it writes now.
HarmBy(r) ==
  (IF r.scope # "all" /\ TrackedNow(r.name) /\ ~(mcpFile[r.name].entry.cmd \in {"legacy", "wrapper"} /\ r.cmd = "name")
     THEN {"tracked"} ELSE {})
    \cup (IF r.scope # "all" /\ mcpFile[r.name].entry.cmd \in {"home", "name", "other"} THEN {"replaced"} ELSE {})
    \cup (IF r.again THEN {"again"} ELSE {})

\* os.WriteFile: the file is emptied, then written.
Truncate(e) ==
  /\ mcpRun[e].step = "truncate"
  /\ LET r == mcpRun[e] IN
     /\ mcpFile' = [mcpFile EXCEPT ![r.name] = [mcpFile[r.name] EXCEPT !.is = "torn", !.section = "absent", !.entry = NoEntry,
                                     !.memory = "absent", !.link = IF @ = "dangling" THEN "inside" ELSE @]]
     /\ mcpHarm' = mcpHarm \cup (IF r.alone THEN HarmBy(r) ELSE {})
  /\ McpTo(e, "fill")
  /\ UNCHANGED <<traces, vcs, installedAs, mcpRuns, mcpEvents, lastWritten>>

Fill(e) ==
  /\ mcpRun[e].step = "fill"
  /\ LET r == mcpRun[e] IN
     /\ mcpFile' = [mcpFile EXCEPT ![r.name] = [Patched(r.name, r.doc, r.cmd) EXCEPT !.link = mcpFile[r.name].link,
                                                                                 !.tracked = mcpFile[r.name].tracked]]
     /\ lastWritten' = lastWritten \cup {r.name}
  /\ NextTarget(e)
  /\ UNCHANGED <<traces, vcs, installedAs, mcpRuns, mcpEvents, mcpHarm>>

\* What is left of a file that was emptied and not written.
LeftOf(e) == IF mcpRun[e].step = "fill"
             THEN [mcpFile EXCEPT ![mcpRun[e].name].is = IF @ = "torn" THEN "broken" ELSE @] ELSE mcpFile

\* A write that fails: the error is kept for the end, the other target still gets its turn.
WriteFails(e) ==
  /\ mcpRun[e].step \in {"truncate", "fill"} /\ McpEvent
  /\ mcpRun' = [mcpRun EXCEPT ![e] = [NoMcpRun EXCEPT !.scope = mcpRun[e].scope, !.step = "next", !.todo = mcpRun[e].todo,
                                                     !.targets = mcpRun[e].targets, !.alone = FALSE]]
  /\ mcpFile' = LeftOf(e)
  /\ UNCHANGED <<traces, vcs, installedAs, mcpRuns, lastWritten, mcpHarm>>

\* What Einrichten answers with: the states of both targets afterwards.
EndEntries(e) ==
  /\ mcpRun[e].step = "next" /\ mcpRun[e].todo = {}
  /\ mcpHarm' = mcpHarm \cup
       (IF mcpRun[e].scope = "all" /\ mcpRun[e].alone /\ installedAs[e] = "home"
           /\ \E t \in TargetId : CheckTarget(t, installedAs[e]) \notin {"ok", "ambiguous-target", "unreadable"}
                THEN {"not set up"} ELSE {})
  /\ mcpRun' = [mcpRun EXCEPT ![e] = NoMcpRun]
  /\ UNCHANGED <<mcpFile, traces, vcs, installedAs, mcpRuns, mcpEvents, lastWritten>>

Killed(e) ==
  /\ mcpRun[e].step # "idle" /\ McpEvent
  /\ mcpFile' = LeftOf(e) /\ mcpRun' = [mcpRun EXCEPT ![e] = NoMcpRun]
  /\ UNCHANGED <<traces, vcs, installedAs, mcpRuns, lastWritten, mcpHarm>>

\* Users and assistants write the entry, take the file away, make another, mend a
\* torn one; git add and git rm --cached.
OthersWrite ==
  /\ McpEvent
  /\ \E n \in {TargetsNow[t] : t \in TargetId} :
       \/ /\ mcpFile[n].is = "object" /\ mcpFile[n].section # "other"
          /\ \E entry \in {NoEntry, OldEntry, [cmd |-> "other", shape |-> "ok"]} :
               mcpFile' = [mcpFile EXCEPT ![n].section = "object", ![n].entry = entry]
       \/ FileThere(n) /\ mcpFile' = [mcpFile EXCEPT ![n] = [NoSuchFile EXCEPT !.tracked = mcpFile[n].tracked]]
       \/ mcpFile[n].is # "object" /\ mcpFile' = [mcpFile EXCEPT ![n] =
             [JsonObject("absent", NoEntry, "absent") EXCEPT !.tracked = mcpFile[n].tracked]]
       \/ vcs.config = "git" /\ mcpFile[n].link # "outside" /\ mcpFile' = [mcpFile EXCEPT ![n].tracked = ~@]
  /\ lastWritten' = {} /\ mcpRun' = [e \in Env |-> [mcpRun[e] EXCEPT !.alone = FALSE]]
  /\ UNCHANGED <<traces, vcs, installedAs, mcpRuns, mcpHarm>>

RegistrationNext ==
  \/ \E e \in Env : \/ \E scope \in Scopes : BeginEntries(e, scope)
                    \/ ReadTarget(e) \/ Truncate(e) \/ Fill(e) \/ WriteFails(e) \/ EndEntries(e) \/ Killed(e)
  \/ OthersWrite
RegistrationSpec == RegistrationInit /\ [][RegistrationNext]_mcpVars

(***************************************************************************)
(* Properties                                                              *)
(***************************************************************************)
\* "Sonst machte jeder Start die getrackten MCP-Dateien eines Projekts dreckig"
\* (mcp.go:423): what runs by itself changes a file of git only to replace the
\* old wrapper by the bare name, also behind a link and when git does not answer,
\* and never replaces what somebody else may have written.
AutomaticIsNarrow == {"tracked", "replaced"} \cap mcpHarm = {}

\* Host and container play no ping-pong (mcp.go:259): what one run wrote no other
\* writes again, whoever runs and how often; the wrapper itself as command is excepted.
WrittenOnce == Homely => "again" \notin mcpHarm

\* After Einrichten both targets are in order, or cannot be read.
SetUpIsDone == "not set up" \notin mcpHarm

\* The page of the servers and the one of the registration say the same, but for
\* two files of OpenCode beside each other.
PagesAgree ==
  ~OpencodeAmbiguous => \A t \in TargetId :
    LET state == CheckTarget(t, "home") IN
    /\ GapFor(t) <=> state \in {"missing-file", "missing-entry", "unreadable"}
    /\ state = "ok" => ServerListed(TargetsNow[t]) /\ ServerListedAs(TargetsNow[t]) = [transport |-> "local", enabled |-> TRUE]

\* Whoever else reads and writes: a file is torn only while it is being written,
\* or after a write that failed or was killed.
TornInPassing == \A n \in FileName : mcpFile[n].is = "torn" => \E e \in Env : mcpRun[e].step = "fill" /\ mcpRun[e].name = n

\* mcp.go:395-482, 722-1080, mcp_servers.go:137-340.
RegistrationKept == TornInPassing /\ AutomaticIsNarrow /\ WrittenOnce /\ SetUpIsDone /\ PagesAgree
================================================================================
