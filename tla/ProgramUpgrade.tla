--------------------------- MODULE ProgramUpgrade ---------------------------
(***************************************************************************)
(* The upgrade of the program and what follows from it: k-playbook upgrade  *)
(* (cmd/upgrade.go), the button of the page (webui/update.go, restart.go),  *)
(* the pull in the clone (project/update.go), the installation              *)
(* (program/install.go, bin/install) and the order of versions               *)
(* (program/version.go).  Calls run at the same time; a pull, a download, a *)
(* script or a child may fail, an attempt may be killed between any two steps.   *)
(***************************************************************************)
EXTENDS Integers, Sequences, FiniteSets

CONSTANTS
  UpgradeCall,              \* calls of upgrade and of the page
  MaxUpgradeCalls,   \* bound: calls
  MaxUpgradeFaults   \* bound: failures, kills, and releases that appear meanwhile

ASSUME UpgradeAssumption == {MaxUpgradeCalls, MaxUpgradeFaults} \subseteq Nat /\ "free" \notin UpgradeCall

VARIABLES
  remote,      \* the release the remote has, a place in Release
  clone,       \* what VERSION in the clone names, 0 nothing readable
  readOnly,    \* the clone is protected: yes, no, or left open by a call that was cut off
  address,     \* how the clone names its remote
  target,      \* the program at ~/.local/bin/k-playbook, 0 none
  found,       \* what k-playbook in the PATH is: that program, or another or none
  kephalaion,  \* a kephalaion lies in the PATH
  entries,     \* an MCP entry still names the old wrapper
  serving,     \* the version of the server of the page
  updateMu,    \* the page's lock: the call that holds it
  attempt,        \* the calls
  upgradeCalls, upgradeFaults,
  upgradeHarm  \* history

upgradeVars == <<remote, clone, readOnly, address, target, found, kephalaion, entries, serving, updateMu,
                 attempt, upgradeCalls, upgradeFaults, upgradeHarm>>

(***************************************************************************)
(* Versions: three numbers and the identifiers of a pre-release, each a     *)
(* number or a word, here <<0, n>> or <<1, place in the alphabet>>.          *)
(***************************************************************************)
Semver(core, pre) == [core |-> core, pre |-> pre]
NoVersion == Semver(<<>>, <<>>)
Word(n) == <<1, n>>
Number(n) == <<0, n>>
Pre(identifiers) == Semver(<<0, 10, 0>>, identifiers)
Ascending == << Semver(<<0, 9, 0>>, <<>>), Pre(<<Number(1)>>), Pre(<<Word(1), Number(2)>>), Pre(<<Word(1), Number(10)>>),
                Pre(<<Word(1), Number(10), Number(0)>>), Pre(<<Word(1), Word(1)>>), Pre(<<Word(2)>>), Pre(<<>>),
                Semver(<<1, 0, 0>>, <<>>) >>
Release == <<Ascending[3], Ascending[4], Ascending[8]>>  \* 0.10.0-a.2, 0.10.0-a.10, 0.10.0
VersionOf(place) == IF place \in DOMAIN Release THEN Release[place] ELSE NoVersion

\* compareIdentifier: numbers by their value and before words.
CompareIdentifier(a, b) == a[1] < b[1] \/ (a[1] = b[1] /\ a[2] < b[2])

\* The first place where two versions differ decides; a pre-release comes before
\* its release, and the shorter list of identifiers before the longer.
FirstDifference(a, b) ==
  {i \in DOMAIN a \cap DOMAIN b : a[i] # b[i] /\ \A j \in 1..(i - 1) : a[j] = b[j]}
Before(a, b) ==
  \/ \E i \in FirstDifference(a.core, b.core) : a.core[i] < b.core[i]
  \/ /\ a.core = b.core
     /\ \/ a.pre # <<>> /\ b.pre = <<>>
        \/ /\ a.pre # <<>> /\ b.pre # <<>>
           /\ \/ \E i \in FirstDifference(a.pre, b.pre) : CompareIdentifier(a.pre[i], b.pre[i])
              \/ FirstDifference(a.pre, b.pre) = {} /\ Len(a.pre) < Len(b.pre)
Readable(version) == Len(version.core) = 3
Compare(version, reference) ==
  CASE ~Readable(version) \/ ~Readable(reference) -> "unknown"
    [] Before(version, reference) -> "older"
    [] Before(reference, version) -> "newer"
    [] OTHER -> "equal"
IsOlder(place, reference) == Compare(VersionOf(place), VersionOf(reference)) = "older"

(***************************************************************************)
(* What is read                                                            *)
(***************************************************************************)
CheckPath == target # 0 /\ found = "target"
\* status.Installable, and hence the page's button.
CheckStatus(running) == [outdated |-> IsOlder(running, clone), installable |-> CheckPath]
\* Whether git can pull: with the address of the public repository by ssh it asks for a key.
PublicRemote(a) == IF a = "ssh" THEN "https" ELSE a
\* update.Available: the remote is asked by the public address.
CheckUpdate == remote # clone

(***************************************************************************)
(* Calls                                                                   *)
(***************************************************************************)
NoAttempt == [op |-> "none", step |-> "idle", running |-> 0, before |-> 0, version |-> 0, pulled |-> FALSE,
           installed |-> FALSE, script |-> 0, stepBy |-> 0, stepDone |-> FALSE, error |-> FALSE,
           tried |-> FALSE,     \* this call has set about correcting the entries
           told |-> FALSE,      \* its report says they are not corrected, or the project not brought up
           unclosed |-> FALSE,  \* the clone could not be protected after the pull
           alone |-> TRUE, foretold |-> "none"]
Ops == {"upgrade", "page update", "page program"}
UpgradeSteps == {"idle", "writable", "switch", "pull", "repair", "protect", "status", "install", "script", "move",
                 "kephalaion script", "verify", "kephalaion", "project", "restart", "end"}

UpgradeTypeOK ==
  /\ remote \in 1..Len(Release) /\ clone \in 0..Len(Release) /\ target \in 0..Len(Release) /\ serving \in 0..Len(Release)
  /\ readOnly \in {"yes", "no", "left"} /\ {kephalaion, entries} \subseteq BOOLEAN
  /\ address \in {"ssh", "https", "alias"} /\ found \in {"target", "other"} /\ updateMu \in UpgradeCall \cup {"free"}
  /\ \A c \in UpgradeCall : /\ attempt[c].op \in Ops \cup {"none"} /\ attempt[c].step \in UpgradeSteps
                           /\ attempt[c].running \in 0..Len(Release)
  /\ upgradeCalls \in 0..MaxUpgradeCalls /\ upgradeFaults \in 0..MaxUpgradeFaults

UpgradeBegin(r, c, t, f, a, k, e) ==
  /\ remote = r /\ clone = c /\ target = t /\ found = f /\ address = a /\ kephalaion = k /\ entries = e /\ serving = t
  /\ readOnly = "yes" /\ updateMu = "free" /\ attempt = [x \in UpgradeCall |-> NoAttempt]
  /\ upgradeCalls = 0 /\ upgradeFaults = 0 /\ upgradeHarm = {}

UpgradeInit ==
  \E c \in {0, 1, 2}, t \in {0, 1, 2}, f \in {"target", "other"}, a \in {"ssh", "https", "alias"}, k \in BOOLEAN :
    /\ f = "target" => t # 0
    /\ a # "https" => k /\ f = "target" /\ c = 1 /\ t = 1
    /\ f = "other" => t # 2
    /\ ~k => f = "target"
    /\ UpgradeBegin(2, c, t, f, a, k, TRUE)

UpgradeFault == upgradeFaults < MaxUpgradeFaults /\ upgradeFaults' = upgradeFaults + 1
Now(c, step) == attempt' = [attempt EXCEPT ![c].step = step]
Fails(c, step) == UpgradeFault /\ attempt' = [attempt EXCEPT ![c].step = step, ![c].error = TRUE]
World == <<remote, clone, readOnly, address, target, found, kephalaion, entries, serving, updateMu>>

\* What upgrade --check says of a run of the installed program, while the clone is up to date.
Foretell(running) ==
  IF CheckUpdate \/ running # target THEN "none"
  ELSE IF CheckStatus(running).outdated /\ CheckStatus(running).installable THEN "installs"
  ELSE "installs nothing"

\* The installed program, an older one from elsewhere, or one without a version.
\* The page's calls take the lock of their server or end; only what is outdated is
\* offered there, and a chat at work is asked about first.
BeginUpgrade(c, op, running) ==
  /\ attempt[c].step = "idle" /\ upgradeCalls < MaxUpgradeCalls /\ upgradeCalls' = upgradeCalls + 1
  /\ op # "upgrade" => updateMu = "free" /\ running = serving
  /\ op = "upgrade" => running \in {target, 1, 0}
  /\ op = "page program" => CheckStatus(running).outdated /\ CheckStatus(running).installable
  /\ LET alone == \A x \in UpgradeCall : attempt[x].step = "idle"
         first == CASE op = "page program" -> "install" [] clone = 0 /\ op = "upgrade" -> "status" [] OTHER -> "writable"
     IN attempt' = [x \in UpgradeCall |-> IF x = c THEN [NoAttempt EXCEPT !.op = op, !.step = first, !.running = running,
                                                      !.before = clone, !.alone = alone, !.foretold = Foretell(running)]
                                ELSE [attempt[x] EXCEPT !.alone = FALSE]]
  /\ updateMu' = IF op = "upgrade" THEN updateMu ELSE c
  /\ UNCHANGED <<remote, clone, readOnly, address, target, found, kephalaion, entries, serving, upgradeFaults,
                 upgradeHarm>>

\* project.Update: the clone is made writable (what fails there leaves what it has
\* opened), its address public, and pulled
\* fast-forward; then the entries of the old wrapper are corrected, and at the end
\* the clone is protected again, whatever happened.
MakeWritable(c) ==
  /\ attempt[c].step = "writable"
  /\ \/ readOnly' = "no" /\ Now(c, "switch") /\ UNCHANGED upgradeFaults
     \/ Fails(c, "status") /\ readOnly' \in {readOnly, "left"}
  /\ UNCHANGED <<remote, clone, address, target, found, kephalaion, entries, serving, updateMu, upgradeCalls,
                 upgradeHarm>>

UsePublicRemote(c) ==
  /\ attempt[c].step = "switch" /\ address' = PublicRemote(address) /\ Now(c, "pull")
  /\ UNCHANGED <<remote, clone, readOnly, target, found, kephalaion, entries, serving, updateMu, upgradeCalls,
                 upgradeFaults, upgradeHarm>>

\* Into a protected clone nothing can be pulled, by ssh nothing without a key.
Pull(c) ==
  /\ attempt[c].step = "pull"
  /\ LET possible == readOnly # "yes" /\ address # "ssh" /\ clone # 0 IN
     \/ /\ possible /\ clone' = remote /\ UNCHANGED upgradeFaults
        /\ attempt' = [attempt EXCEPT ![c].step = "repair", ![c].pulled = TRUE, ![c].version = remote]
     \/ /\ ~possible /\ UNCHANGED <<clone, upgradeFaults>>
        /\ attempt' = [attempt EXCEPT ![c].step = "protect", ![c].error = TRUE]
     \/ possible /\ Fails(c, "protect") /\ UNCHANGED clone
  /\ UNCHANGED <<remote, readOnly, address, target, found, kephalaion, entries, serving, updateMu, upgradeCalls,
                 upgradeHarm>>

\* A failed correction leaves the pull as good as it was: it is a message, no error.
RepairEntries(c) ==
  /\ attempt[c].step = "repair"
  /\ \/ /\ entries' = FALSE /\ UNCHANGED upgradeFaults
        /\ attempt' = [attempt EXCEPT ![c].step = "protect", ![c].tried = TRUE]
     \/ /\ UpgradeFault /\ UNCHANGED entries
        /\ attempt' = [attempt EXCEPT ![c].step = "protect", ![c].tried = TRUE, ![c].told = TRUE]
  /\ UNCHANGED <<remote, clone, readOnly, address, target, found, kephalaion, serving, updateMu, upgradeCalls,
                 upgradeHarm>>

\* Where it fails the pull counts as failed, and its message is lost.
Protect(c) ==
  /\ attempt[c].step = "protect"
  /\ \/ readOnly' = "yes" /\ Now(c, "status") /\ UNCHANGED upgradeFaults
     \/ /\ UpgradeFault /\ readOnly' \in {readOnly, "left"} \ {"no"}
        /\ attempt' = [attempt EXCEPT ![c].step = "status", ![c].error = TRUE, ![c].unclosed = TRUE,
                                      ![c].pulled = FALSE, ![c].told = FALSE]
  /\ UNCHANGED <<remote, clone, address, target, found, kephalaion, entries, serving, updateMu, upgradeCalls,
                 upgradeHarm>>

NotInstalled(c) == IF attempt[c].op = "upgrade" THEN "kephalaion" ELSE "end"

\* What the pull has read, not what the clone names by now.
RestartAfterPull(c) == attempt[c].version # attempt[c].before /\ IsOlder(attempt[c].running, attempt[c].version)

\* upgradeProgram after the pull; applyUpdateHandler: an error of the pull ends the
\* answer, and only a pull that changed the version makes the page install, unless a
\* chat is at work.
Status(c) ==
  /\ attempt[c].step = "status"
  /\ LET state == CheckStatus(attempt[c].running)
         goes  == IF attempt[c].op = "upgrade" THEN state.outdated /\ state.installable
                  ELSE attempt[c].pulled /\ RestartAfterPull(c) /\ state.installable
     IN \/ ~goes /\ Now(c, NotInstalled(c))
        \/ goes /\ Now(c, "install")
        \/ goes /\ attempt[c].op = "page update" /\ Now(c, "end")
  /\ UNCHANGED World /\ UNCHANGED <<upgradeCalls, upgradeFaults, upgradeHarm>>

After(c) == IF attempt[c].op = "upgrade" THEN "kephalaion" ELSE "restart"

\* program.Install: what lies at the target already is not installed again.
Install(c) ==
  /\ attempt[c].step = "install"
  /\ LET order == Compare(VersionOf(target), VersionOf(clone)) IN
     attempt' = CASE ~CheckPath \/ clone = 0 -> [attempt EXCEPT ![c].error = TRUE, ![c].step = NotInstalled(c)]
               [] CheckPath /\ clone # 0 /\ order \in {"equal", "newer"} ->
                      [attempt EXCEPT ![c].step = After(c), ![c].script = target]
               [] OTHER -> [attempt EXCEPT ![c].step = "script"]
  /\ UNCHANGED World /\ UNCHANGED <<upgradeCalls, upgradeFaults, upgradeHarm>>

\* bin/install reads VERSION and the sums, loads and compares, and moves the file
\* into its place; then it looks for kephalaion.  The caller waits three minutes.
ReadAndLoad(c) ==
  /\ attempt[c].step = "script"
  /\ (attempt' = [attempt EXCEPT ![c].step = "move", ![c].script = clone] /\ UNCHANGED upgradeFaults)
       \/ Fails(c, NotInstalled(c))
  /\ UNCHANGED World /\ UNCHANGED <<upgradeCalls, upgradeHarm>>

MoveIntoPlace(c) ==
  /\ attempt[c].step = "move" /\ target' = attempt[c].script
  /\ attempt' = [attempt EXCEPT ![c].step = "kephalaion script"]
  /\ upgradeHarm' = upgradeHarm \cup (IF attempt[c].alone /\ IsOlder(attempt[c].script, target) THEN {"downgrade"} ELSE {})
  /\ UNCHANGED <<remote, clone, readOnly, address, found, kephalaion, entries, serving, updateMu, upgradeCalls,
                 upgradeFaults>>

ScriptLooksForKephalaion(c) ==
  /\ attempt[c].step = "kephalaion script"
  /\ \/ kephalaion' = TRUE /\ Now(c, "verify") /\ UNCHANGED upgradeFaults
     \/ ~kephalaion /\ UpgradeFault /\ Now(c, "verify") /\ UNCHANGED kephalaion
     \/ ~kephalaion /\ Fails(c, NotInstalled(c)) /\ UNCHANGED kephalaion
  /\ UNCHANGED <<remote, clone, readOnly, address, target, found, entries, serving, updateMu, upgradeCalls,
                 upgradeHarm>>

\* The file at the target against the sums of the clone, both as they are now.
Verify(c) ==
  /\ attempt[c].step = "verify"
  /\ attempt' = IF target = clone THEN [attempt EXCEPT ![c].installed = TRUE, ![c].script = clone, ![c].step = After(c)]
             ELSE [attempt EXCEPT ![c].error = TRUE, ![c].step = NotInstalled(c)]
  /\ UNCHANGED World /\ UNCHANGED <<upgradeCalls, upgradeFaults, upgradeHarm>>

\* A present kephalaion is left alone; without a clone none is installed.
UpgradeKephalaion(c) ==
  /\ attempt[c].step = "kephalaion" /\ Now(c, "project")
  /\ \/ (kephalaion \/ clone = 0) /\ UNCHANGED <<kephalaion, upgradeFaults>>
     \/ ~kephalaion /\ clone # 0 /\ kephalaion' = TRUE /\ UNCHANGED upgradeFaults
     \/ ~kephalaion /\ clone # 0 /\ UpgradeFault /\ UNCHANGED kephalaion
  /\ UNCHANGED <<remote, clone, readOnly, address, target, found, entries, serving, updateMu, upgradeCalls,
                 upgradeHarm>>

\* Defect: the project step corrects the entries when the pull has done it.
RepairsAgain(c) == attempt[c].pulled
RepairsEntries(c) == ~attempt[c].pulled

\* The project is brought up by the program that was just installed, else by this
\* one; the entries are its affair when the pull did not do it.  The set-up may fail
\* and the entries are corrected all the same, the correction may fail, and of a new
\* program that fails the caller knows nothing but that.
ProjectStep(c) ==
  /\ attempt[c].step = "project"
  /\ LET repairs == RepairsEntries(c)
         by    == IF attempt[c].installed THEN target ELSE attempt[c].running
         Ended(error, told) == [attempt EXCEPT ![c].step = "end", ![c].stepBy = by, ![c].stepDone = TRUE,
                                               ![c].tried = @ \/ repairs, ![c].error = @ \/ error, ![c].told = @ \/ told]
     IN /\ \/ attempt' = Ended(FALSE, FALSE) /\ entries' = (entries /\ ~repairs) /\ UNCHANGED upgradeFaults
           \/ UpgradeFault /\ attempt' = Ended(TRUE, FALSE) /\ entries' = (entries /\ ~repairs)
           \/ repairs /\ UpgradeFault /\ attempt' = Ended(TRUE, TRUE) /\ UNCHANGED entries
           \/ /\ attempt[c].installed /\ UpgradeFault /\ entries' \in {entries, entries /\ ~repairs}
              /\ attempt' = [attempt EXCEPT ![c].step = "end", ![c].error = TRUE, ![c].told = TRUE]
        /\ upgradeHarm' = IF repairs /\ attempt[c].tried /\ ~attempt[c].unclosed
                          THEN upgradeHarm \cup {"corrected twice"} ELSE upgradeHarm
  /\ UNCHANGED <<remote, clone, readOnly, address, target, found, kephalaion, serving, updateMu, upgradeCalls>>

\* restartFrom: the successor is the program at the target; one of another version
\* than expected is ended and the old server goes on.
Restart(c) ==
  /\ attempt[c].step = "restart"
  /\ \/ /\ target = attempt[c].script /\ serving' = target /\ Now(c, "end") /\ UNCHANGED upgradeFaults
        /\ upgradeHarm' = upgradeHarm \cup (IF IsOlder(target, serving) THEN {"older server"} ELSE {})
     \/ /\ target # attempt[c].script /\ attempt' = [attempt EXCEPT ![c].step = "end", ![c].error = TRUE]
        /\ UNCHANGED <<serving, upgradeFaults, upgradeHarm>>
     \/ Fails(c, "end") /\ UNCHANGED <<serving, upgradeHarm>>
  /\ UNCHANGED <<remote, clone, readOnly, address, target, found, kephalaion, entries, updateMu, upgradeCalls>>

\* What the report says against what happened.
Untrue(c) ==
  LET r == attempt[c] IN
  (IF (r.op = "upgrade" \/ r.pulled) /\ entries /\ ~r.told THEN {"entries left"} ELSE {})
    \cup (IF r.op = "upgrade" /\ ~r.tried /\ ~r.told THEN {"not tried"} ELSE {})
    \cup (IF r.op = "upgrade" /\ r.alone /\ r.foretold # "none" /\ ~r.error /\ r.installed # (r.foretold = "installs")
          THEN {"foretold"} ELSE {})
    \cup (IF r.alone /\ r.installed /\ (target # clone \/ (r.op = "upgrade" /\ r.stepDone /\ r.stepBy # clone))
          THEN {"not installed"} ELSE {})

EndUpgrade(c) ==
  /\ attempt[c].step = "end" /\ upgradeHarm' = upgradeHarm \cup Untrue(c)
  /\ attempt' = [attempt EXCEPT ![c] = NoAttempt] /\ updateMu' = IF updateMu = c THEN "free" ELSE updateMu
  /\ UNCHANGED <<remote, clone, readOnly, address, target, found, kephalaion, entries, serving, upgradeCalls,
                 upgradeFaults>>

Opened == {"switch", "pull", "repair", "protect"}
UpgradeKilled(c) ==
  /\ attempt[c].step # "idle" /\ UpgradeFault
  /\ attempt' = [attempt EXCEPT ![c] = NoAttempt] /\ updateMu' = IF updateMu = c THEN "free" ELSE updateMu
  /\ readOnly' = IF readOnly = "no" /\ attempt[c].step \in Opened THEN "left" ELSE readOnly
  /\ UNCHANGED <<remote, clone, address, target, found, kephalaion, entries, serving, upgradeCalls, upgradeHarm>>

\* A new release on the remote.
Released ==
  /\ remote < Len(Release) /\ UpgradeFault /\ remote' = remote + 1
  /\ attempt' = [c \in UpgradeCall |-> [attempt[c] EXCEPT !.foretold = "none"]]
  /\ UNCHANGED <<clone, readOnly, address, target, found, kephalaion, entries, serving, updateMu, upgradeCalls,
                 upgradeHarm>>

UpgradeNext ==
  \/ \E c \in UpgradeCall : \/ \E op \in Ops, running \in 0..Len(Release) : BeginUpgrade(c, op, running)
                     \/ MakeWritable(c) \/ UsePublicRemote(c) \/ Pull(c) \/ RepairEntries(c) \/ Protect(c) \/ Status(c)
                     \/ Install(c) \/ ReadAndLoad(c) \/ MoveIntoPlace(c) \/ ScriptLooksForKephalaion(c) \/ Verify(c)
                     \/ UpgradeKephalaion(c) \/ ProjectStep(c) \/ Restart(c) \/ EndUpgrade(c) \/ UpgradeKilled(c)
  \/ Released
UpgradeSpec == UpgradeInit /\ [][UpgradeNext]_upgradeVars

(***************************************************************************)
(* Properties                                                              *)
(***************************************************************************)
\* The order of versions is that of semver, on every pair of some in ascending order.
OrderIsSemver ==
  \A i, j \in DOMAIN Ascending :
    Compare(Ascending[i], Ascending[j]) = (IF i < j THEN "older" ELSE IF i > j THEN "newer" ELSE "equal")

\* However many calls update at the same time and whatever fails: the clone is open
\* only while one of them is at it, or after one was cut off or failed to open it.
ProtectedAgain == readOnly = "no" => \E c \in UpgradeCall : attempt[c].step \in Opened

\* Undisturbed, an installed program is the one of the clone and has brought up the
\* project, nothing is replaced by something older, and a run of the installed
\* program installs exactly when --check has said so.
InstalledIsNew == {"not installed", "downgrade", "foretold"} \cap upgradeHarm = {}

\* Also when others install at the same time the page never ends at an older server.
ServerNeverOlder == "older server" \notin upgradeHarm

\* Whatever of pull, protection, download, script, set-up and new program fails, an
\* upgrade that comes to its end has set about correcting the entries of the old
\* wrapper, or says that the project was not brought up; where they are still old
\* then, and also where the page reports a pull, the report says so.  It sets about
\* it once, unless the clone could not be protected after the pull.
EntriesCorrected == {"entries left", "not tried", "corrected twice"} \cap upgradeHarm = {}

\* upgrade.go:201-356, update.go:121-178, install.go:116-211, version.go:60-178.
UpgradeKept == OrderIsSemver /\ ProtectedAgain /\ InstalledIsNew /\ ServerNeverOlder /\ EntriesCorrected
=============================================================================
