----------------------------- MODULE RegistryLinks -----------------------------
(***************************************************************************)
(* The links that register commands and skills with the assistants          *)
(* (project/links.go, registry.go, sharelink.go) and the shared directory   *)
(* they point into (sharedir).  Every reading of the context heals them:    *)
(* compare, and only when something can be mended apply.  Several healers   *)
(* run at once, the shared directory is replaced under them, calls fail,     *)
(* runs are killed.                                                         *)
(***************************************************************************)
EXTENDS Naturals, FiniteSets

CONSTANTS
  MaxName,       \* the entries are 1..MaxName, handled in this order
  Nested,        \* those among them that lie in a subdirectory
  Healer,        \* processes that heal
  MaxHeals,      \* bound: heals of all of them
  MaxLinkChanges,\* bound: changes of the user and of the shipped files between heals
  MaxLinkFaults  \* bound: failed calls and kills

Name == 1..MaxName
ASSUME LinksAssumption == Nested \subseteq Name /\ {MaxName, MaxHeals, MaxLinkChanges, MaxLinkFaults} \subseteq Nat

VARIABLES
  shipped,      \* names in the shared directory
  unpacked,     \* the directory of the shipped entries is in place (swap, sharedir.go)
  ownEntry,     \* Name -> the project's own entry: none, entry, or an empty one that disables
  registryDir,  \* the directory of the assistant: missing, link, file, dir
  subDir,       \* the subdirectory in it: missing, dir, or a file of the user
  linkPlace,        \* Name -> what lies at its place in it
  shareLink,    \* .k-playbook/share: missing, right, wrong, real
  shareIgnored, \* its line in .gitignore
  healOf,       \* Healer -> the heal under way
  healCount, linkChanges, linkFaults,
  batch,        \* history of the heals that overlap: an error, a disturbance, the places before
  linkHarm      \* history: what a heal must not do

linkVars == <<shipped, unpacked, ownEntry, registryDir, subDir, linkPlace, shareLink, shareIgnored,
              healOf, healCount, linkChanges, linkFaults, batch, linkHarm>>

Places == {"none", "share", "local", "foreign", "real"}   \* links by their target
NoChanges == [added |-> {}, removed |-> {}, repointed |-> {}]
NoHeal == [step |-> "idle", todo |-> {}, from |-> [n \in Name |-> "none"], changed |-> NoChanges,
           existed |-> FALSE, error |-> FALSE]
HealSteps == {"idle", "ignore", "look", "unlink share", "link share", "prepare", "unlink dir", "make dir",
              "stale", "entry", "unlink entry", "link entry", "clear", "after"}

LinksTypeOK ==
  /\ shipped \subseteq Name /\ unpacked \in BOOLEAN /\ ownEntry \in [Name -> {"none", "entry", "off"}]
  /\ registryDir \in {"missing", "link", "file", "dir"} /\ subDir \in {"missing", "dir", "file"}
  /\ linkPlace \in [Name -> Places] /\ \A n \in Name : linkPlace[n] # "none" => registryDir = "dir"
  /\ \A n \in Nested : linkPlace[n] # "none" => subDir = "dir"
  /\ shareLink \in {"missing", "right", "wrong", "real"} /\ shareIgnored \in BOOLEAN
  /\ \A h \in Healer : healOf[h].step \in HealSteps /\ healOf[h].todo \subseteq Name
  /\ healCount \in 0..MaxHeals /\ linkChanges \in 0..MaxLinkChanges /\ linkFaults \in 0..MaxLinkFaults
  /\ linkHarm \subseteq {"taken", "misreported"}

(***************************************************************************)
(* The catalogue: own entries go before shipped ones, an empty one disables. *)
(* The project has a directory for its own, so a source is always present.  *)
(***************************************************************************)
ResolveRegistry(n) ==
  CASE ownEntry[n] = "entry" -> "local"
    [] ownEntry[n] = "off" -> "none"
    [] OTHER -> IF n \in shipped /\ unpacked THEN "share" ELSE "none"
ActiveRegistry == {n \in Name : ResolveRegistry(n) # "none"}

(***************************************************************************)
(* CheckLinks and what of it can be mended.                                *)
(***************************************************************************)
MissingNames == {n \in ActiveRegistry : linkPlace[n] = "none"}
WrongNames   == {n \in ActiveRegistry : linkPlace[n] \in {"share", "local", "foreign"} \ {ResolveRegistry(n)}}
OwnedLinks   == {n \in Name : linkPlace[n] \in {"share", "local"}}
StaleNames   == OwnedLinks \ ActiveRegistry

ShareFixable == shareLink \in {"missing", "wrong"} \/ (shareLink = "right" /\ ~shareIgnored)
RegistryFixable ==
  \/ registryDir \in {"missing", "link"}
  \/ registryDir = "dir" /\ MissingNames \cup WrongNames \cup StaleNames # {}
LinksFixable == ShareFixable \/ RegistryFixable

PendingLinkChanges ==
  IF registryDir # "dir" THEN NoChanges
  ELSE [added |-> MissingNames, removed |-> StaleNames, repointed |-> WrongNames]

NobodyHeals == \A h \in Healer : healOf[h].step = "idle"

LinksBegin(dir, share) ==
  /\ shipped = Name /\ unpacked = TRUE /\ ownEntry = [n \in Name |-> "none"]
  /\ registryDir = dir /\ subDir = IF dir = "dir" THEN "dir" ELSE "missing"
  /\ linkPlace = [n \in Name |-> IF dir = "dir" THEN "share" ELSE "none"]
  /\ shareLink = share /\ shareIgnored = (share = "right")
  /\ healOf = [h \in Healer |-> NoHeal] /\ healCount = 0 /\ linkChanges = 0 /\ linkFaults = 0
  /\ batch = [error |-> FALSE, disturbed |-> TRUE, alone |-> TRUE, before |-> linkPlace] /\ linkHarm = {}
LinksInit ==
  \E dir \in {"missing", "link", "file", "dir"}, share \in {"missing", "right", "wrong", "real"} : LinksBegin(dir, share)

LinkFault == linkFaults < MaxLinkFaults /\ linkFaults' = linkFaults + 1
GoTo(h, step) == healOf' = [healOf EXCEPT ![h].step = step]
HealErr(h) == /\ healOf' = [healOf EXCEPT ![h] = [NoHeal EXCEPT !.step = "after", !.error = TRUE]]
              /\ batch' = [batch EXCEPT !.error = TRUE]
\* What the heal may not take: files, and a foreign link under a name its catalogue does not have.
Taken(h, n) == linkPlace[n] = "real" \/ (linkPlace[n] = "foreign" /\ healOf[h].from[n] = "none")
HealFrame == UNCHANGED <<shipped, unpacked, ownEntry, healCount, linkChanges>>

(***************************************************************************)
(* Between heals the user works in the directory, and a new version ships   *)
(* other entries: sharedir.Ensure moves the old directory aside and the new *)
(* one in, under a lock, while heals may run.                              *)
(***************************************************************************)
Disturb == batch' = [batch EXCEPT !.disturbed = TRUE]

UserChanges ==
  /\ NobodyHeals /\ linkChanges < MaxLinkChanges /\ linkChanges' = linkChanges + 1 /\ Disturb
  /\ \/ \E n \in Name, own \in {"none", "entry", "off"} :
          ownEntry' = [ownEntry EXCEPT ![n] = own] /\ UNCHANGED <<linkPlace, subDir>>
     \/ \E n \in Name, at \in {"none", "foreign", "real"} :
          /\ registryDir = "dir" /\ (n \in Nested => subDir = "dir")
          /\ linkPlace' = [linkPlace EXCEPT ![n] = at] /\ UNCHANGED <<ownEntry, subDir>>
     \/ /\ registryDir = "dir" /\ subDir' = "file"
        /\ linkPlace' = [n \in Name |-> IF n \in Nested THEN "none" ELSE linkPlace[n]] /\ UNCHANGED ownEntry
  /\ UNCHANGED <<shipped, unpacked, registryDir, shareLink, shareIgnored, healOf, healCount, linkFaults, linkHarm>>

SwapAside ==
  /\ unpacked /\ linkChanges < MaxLinkChanges /\ linkChanges' = linkChanges + 1 /\ unpacked' = FALSE /\ Disturb
  /\ UNCHANGED <<shipped, ownEntry, registryDir, subDir, linkPlace, shareLink, shareIgnored, healOf, healCount,
                 linkFaults, linkHarm>>

SwapIn ==
  /\ ~unpacked /\ unpacked' = TRUE /\ shipped' \in SUBSET Name /\ Disturb
  /\ UNCHANGED <<ownEntry, registryDir, subDir, linkPlace, shareLink, shareIgnored, healOf, healCount,
                 linkChanges, linkFaults, linkHarm>>

(***************************************************************************)
(* HealLinks.                                                              *)
(***************************************************************************)
HealLinks(h) ==
  /\ healOf[h].step = "idle" /\ healCount < MaxHeals /\ healCount' = healCount + 1
  /\ batch' = IF NobodyHeals THEN [error |-> FALSE, disturbed |-> ~unpacked, alone |-> TRUE, before |-> linkPlace]
              ELSE [batch EXCEPT !.alone = FALSE]
  /\ healOf' = IF ~LinksFixable THEN healOf
               ELSE [healOf EXCEPT ![h] = [NoHeal EXCEPT !.step = "ignore", !.changed = PendingLinkChanges,
                                                         !.existed = registryDir = "dir"]]
  /\ UNCHANGED <<shipped, unpacked, ownEntry, registryDir, subDir, linkPlace, shareLink, shareIgnored,
                 linkChanges, linkFaults, linkHarm>>

EnsureShareIgnored(h) ==
  /\ healOf[h].step = "ignore" /\ shareIgnored' = TRUE /\ GoTo(h, "look")
  /\ HealFrame /\ UNCHANGED <<registryDir, subDir, linkPlace, shareLink, linkFaults, batch, linkHarm>>

ApplyShareLink(h) ==
  /\ \/ healOf[h].step = "look" /\ UNCHANGED <<shareLink, batch>>
        /\ GoTo(h, CASE shareLink = "missing" -> "link share" [] shareLink = "wrong" -> "unlink share" [] OTHER -> "prepare")
     \/ healOf[h].step = "unlink share" /\ IF shareLink = "missing" THEN HealErr(h) /\ UNCHANGED shareLink
          ELSE shareLink' = "missing" /\ GoTo(h, "link share") /\ UNCHANGED batch
     \/ healOf[h].step = "link share" /\ IF shareLink # "missing" THEN HealErr(h) /\ UNCHANGED shareLink
          ELSE shareLink' = "right" /\ GoTo(h, "prepare") /\ UNCHANGED batch
  /\ HealFrame /\ UNCHANGED <<registryDir, subDir, linkPlace, shareIgnored, linkFaults, linkHarm>>

PrepareRegistryDir(h) ==
  /\ \/ healOf[h].step = "prepare" /\ UNCHANGED <<registryDir, batch>>
        /\ GoTo(h, CASE registryDir = "missing" -> "make dir" [] registryDir = "link" -> "unlink dir"
                     [] registryDir = "dir" -> "stale" [] OTHER -> "after")
     \/ healOf[h].step = "unlink dir" /\ IF registryDir = "link"
          THEN registryDir' = "missing" /\ GoTo(h, "make dir") /\ UNCHANGED batch
          ELSE HealErr(h) /\ UNCHANGED registryDir
     \/ healOf[h].step = "make dir" /\ registryDir' = "dir" /\ GoTo(h, "stale") /\ UNCHANGED batch
  /\ HealFrame /\ UNCHANGED <<subDir, linkPlace, shareLink, shareIgnored, linkFaults, linkHarm>>

\* The catalogue is read once; links of k-playbook that are not in it go.
RemoveStale(h) ==
  /\ healOf[h].step = "stale"
  /\ linkPlace' = [n \in Name |-> IF n \in StaleNames THEN "none" ELSE linkPlace[n]]
  /\ healOf' = [healOf EXCEPT ![h].step = "entry", ![h].todo = ActiveRegistry,
                              ![h].from = [n \in Name |-> ResolveRegistry(n)]]
  /\ HealFrame /\ UNCHANGED <<registryDir, subDir, shareLink, shareIgnored, linkFaults, batch, linkHarm>>

Entry(h) == CHOOSE n \in healOf[h].todo : \A k \in healOf[h].todo : n <= k
NextEntry(h) == healOf' = [healOf EXCEPT ![h].step = "entry", ![h].todo = @ \ {Entry(h)}]

\* Defect: whatever lies at the place is replaced.
ApplyEntryOverFiles(h) ==
  /\ healOf[h].step = "entry" /\ healOf[h].todo # {}
  /\ IF Entry(h) \in Nested /\ subDir = "file" THEN HealErr(h) /\ UNCHANGED subDir
     ELSE /\ subDir' = (IF Entry(h) \in Nested THEN "dir" ELSE subDir)
          /\ GoTo(h, IF linkPlace[Entry(h)] = "none" THEN "link entry" ELSE "unlink entry")
          /\ UNCHANGED batch
  /\ HealFrame /\ UNCHANGED <<registryDir, linkPlace, shareLink, shareIgnored, linkFaults, linkHarm>>

ApplyEntry(h) ==
  /\ healOf[h].step = "entry" /\ healOf[h].todo # {}
  /\ IF Entry(h) \in Nested /\ subDir = "file" THEN HealErr(h) /\ UNCHANGED subDir
     ELSE /\ subDir' = (IF Entry(h) \in Nested THEN "dir" ELSE subDir)
          /\ CASE linkPlace[Entry(h)] = "real" -> NextEntry(h)
               [] linkPlace[Entry(h)] = "none" -> GoTo(h, "link entry")
               [] OTHER -> GoTo(h, "unlink entry")
          /\ UNCHANGED batch
  /\ HealFrame /\ UNCHANGED <<registryDir, linkPlace, shareLink, shareIgnored, linkFaults, linkHarm>>

ReplaceEntry(h) ==
  /\ healOf[h].step = "unlink entry"
  /\ IF linkPlace[Entry(h)] = "none" THEN HealErr(h) /\ UNCHANGED <<linkPlace, linkHarm>>
     ELSE /\ linkPlace' = [linkPlace EXCEPT ![Entry(h)] = "none"] /\ GoTo(h, "link entry") /\ UNCHANGED batch
          /\ linkHarm' = IF Taken(h, Entry(h)) THEN linkHarm \cup {"taken"} ELSE linkHarm
  /\ HealFrame /\ UNCHANGED <<registryDir, subDir, shareLink, shareIgnored, linkFaults>>

LinkEntry(h) ==
  /\ healOf[h].step = "link entry"
  /\ IF linkPlace[Entry(h)] # "none" \/ (Entry(h) \in Nested /\ subDir # "dir") THEN HealErr(h) /\ UNCHANGED linkPlace
     ELSE linkPlace' = [linkPlace EXCEPT ![Entry(h)] = healOf[h].from[Entry(h)]] /\ NextEntry(h) /\ UNCHANGED batch
  /\ HealFrame /\ UNCHANGED <<registryDir, subDir, shareLink, shareIgnored, linkFaults, linkHarm>>

RemoveEmptyDirs(h) ==
  /\ healOf[h].step = "entry" /\ healOf[h].todo = {} /\ GoTo(h, "after")
  /\ subDir' = IF subDir = "dir" /\ \A n \in Nested : linkPlace[n] = "none" THEN "missing" ELSE subDir
  /\ HealFrame /\ UNCHANGED <<registryDir, linkPlace, shareLink, shareIgnored, linkFaults, batch, linkHarm>>

(***************************************************************************)
(* The report: the changes are the ones computed before applying.          *)
(***************************************************************************)
Happened ==
  LET b == batch.before IN
  [added     |-> {n \in Name : b[n] = "none" /\ linkPlace[n] # "none"},
   removed   |-> {n \in Name : b[n] # "none" /\ linkPlace[n] = "none"},
   repointed |-> {n \in Name : b[n] # "none" /\ linkPlace[n] \notin {"none", b[n]}}]

HealReports(h) ==
  /\ healOf[h].step = "after" /\ healOf' = [healOf EXCEPT ![h] = NoHeal]
  /\ linkHarm' = IF /\ batch.alone /\ ~batch.disturbed /\ ~healOf[h].error /\ healOf[h].existed
                    /\ healOf[h].changed # Happened
                 THEN linkHarm \cup {"misreported"} ELSE linkHarm
  /\ HealFrame /\ UNCHANGED <<registryDir, subDir, linkPlace, shareLink, shareIgnored, linkFaults, batch>>

\* A call fails, or the process is killed.
HealBreaks(h) ==
  /\ healOf[h].step \notin {"idle", "after"} /\ LinkFault
  /\ \/ HealErr(h)
     \/ healOf' = [healOf EXCEPT ![h] = NoHeal] /\ Disturb
  /\ HealFrame /\ UNCHANGED <<registryDir, subDir, linkPlace, shareLink, shareIgnored, linkHarm>>

LinksNext ==
  \/ UserChanges \/ SwapAside \/ SwapIn
  \/ \E h \in Healer :
       \/ HealLinks(h) \/ EnsureShareIgnored(h) \/ ApplyShareLink(h) \/ PrepareRegistryDir(h) \/ RemoveStale(h)
       \/ ApplyEntry(h) \/ ReplaceEntry(h) \/ LinkEntry(h) \/ RemoveEmptyDirs(h) \/ HealReports(h) \/ HealBreaks(h)

LinksSpec == LinksInit /\ [][LinksNext]_linkVars

(***************************************************************************)
(* Properties                                                              *)
(***************************************************************************)
\* When heals that overlapped have all ended, none reported an error, and
\* nothing disturbed them, nothing is left to mend: the next reading writes
\* nothing.
HealSettles == NobodyHeals /\ ~batch.error /\ ~batch.disturbed => ~LinksFixable

\* A heal takes nothing away that is the user's, reports exactly the changes it
\* made, and what it leaves undone it has reported.
LinksKept == linkHarm = {} /\ HealSettles
================================================================================
