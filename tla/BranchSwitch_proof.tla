-------------------------- MODULE BranchSwitch_proof --------------------------
(***************************************************************************)
(* The page of the branches: the confirmed switch is the one that was      *)
(* checked (BranchSwitch), and what the list says is so (BranchList), for  *)
(* any number of windows, branches, remotes, environments and processes.   *)
(*                                                                         *)
(* A confirmed request holds the lock from its first reading to its answer *)
(* (OneAtWork), so nobody but the world outside changes the repository     *)
(* meanwhile; while that has not happened, everything the request has read *)
(* so far is still so (StillSo).                                           *)
(***************************************************************************)
EXTENDS BranchSwitch, BranchList, FiniteSetTheorems, TLAPS

Reading == {"head", "refs", "tree", "ignored", "operation", "detached", "sessions"}
KnowsHead == (Reading \ {"head"}) \cup {"switch"}
KnowsTarget == KnowsHead \ {"refs"}
KnowsTree == KnowsTarget \ {"tree"}
KnowsOperation == {"detached", "sessions", "switch"}

Types ==
  /\ repo \in RepoState /\ allowed \subseteq Branch /\ processes \in [Process -> ProcessState]
  /\ window \in [Window -> WindowState] /\ holder \in Window \cup {Nowhere}

\* Whoever confirmed and is at work has the lock; only a confirmed request switches.
OneAtWork(w) ==
  /\ WindowAt(w, "wait") \/ WindowAt(w, "switch") \/ WindowAt(w, "after") => window[w].post
  /\ window[w].post /\ window[w].at \in Reading \cup {"switch", "after"} => holder = w

\* What an undisturbed request has found out still holds.
Known(r) ==
  /\ r.at \in KnowsHead => r.from = repo.branch /\ r.stamp[1] = repo.commit
  /\ r.at \in KnowsTarget => r.stamp[2] = TargetCommit(r.target, r.found)
  /\ r.at \in KnowsTree /\ r.offered => ~repo.dirty
  /\ r.at \in KnowsOperation /\ r.offered => ~repo.busy
  /\ r.at \in {"sessions", "switch"} /\ r.offered => r.from # Nowhere \/ Reachable(r.stamp[1])
  /\ r.at = "switch" => r.offered /\ r.seen = r.stamp /\ BlockingProcesses = {}

StillSo(w) == window[w].post /\ ~window[w].disturbed => Known(window[w])

BInv ==
  /\ Types /\ ~repo.lost
  /\ \A w \in Window : OneAtWork(w) /\ StillSo(w)

-----------------------------------------------------------------------------
(* What a step leaves alone.                                               *)

\* The processes alone decide which of them block.
LEMMA SameSessions ==
  ASSUME processes' = processes
  PROVE  BlockingProcesses' = BlockingProcesses
  BY DEF Ancestor, ParentOf, Up, BlockingProcesses, OwnHelper, SessionAbove

\* A step of one request that changes neither the repository nor a process.
LEMMA OneRequest ==
  ASSUME BInv, NEW w \in Window, NEW new \in WindowState,
         window' = [window EXCEPT ![w] = new],
         repo' = repo, processes' = processes, allowed' = allowed,
         holder' \in Window \cup {Nowhere},
         \A v \in Window \ {w} : holder = v => holder' = v,
         new.at \in {"wait", "switch", "after"} => new.post,
         new.post /\ new.at \in Reading \cup {"switch", "after"} => holder' = w,
         new.post /\ ~new.disturbed => Known(new)
  PROVE  BInv'
<1>1. Types' /\ ~repo'.lost
  BY DEF BInv, Types
<1>2. BlockingProcesses' = BlockingProcesses
  BY SameSessions
<1>3. ASSUME NEW v \in Window \ {w}
      PROVE  OneAtWork(v)' /\ StillSo(v)'
  BY <1>3, <1>2 DEF BInv, Types, OneAtWork, WindowAt, StillSo, Known, TargetCommit, Reachable
<1>4. OneAtWork(w)' /\ StillSo(w)'
  BY <1>2 DEF BInv, Types, OneAtWork, WindowAt, StillSo, Known, TargetCommit, Reachable
<1> QED
  BY <1>1, <1>3, <1>4 DEF BInv

\* The target of a check.
LEMMA TargetTyped ==
  ASSUME Types, NEW name \in Branch
  PROVE  /\ \A found \in {"local", "nothing"} \cup Remote : TargetCommit(name, found) \in Ref
         /\ \A asked : Resolve(name, asked) \in {"local", "nothing"} \cup Remote
  BY DEF Types, RepoState, TargetCommit, Resolve, Ref

-----------------------------------------------------------------------------
(* The requests.                                                           *)

LEMMA AskSound ==
  ASSUME BInv, NEW w \in Window, AskCheck(w)
  PROVE  BInv'
<1> PICK target \in Branch, remote \in Remote \cup {Nowhere} :
       Learns(w, [window[w] EXCEPT !.at = "head", !.post = FALSE, !.target = target,
                                   !.remote = remote, !.allowed = allowed, !.offered = TRUE])
  BY DEF AskCheck
<1> DEFINE new == [window[w] EXCEPT !.at = "head", !.post = FALSE, !.target = target,
                                    !.remote = remote, !.allowed = allowed, !.offered = TRUE]
<1>1. window[w] \in WindowState /\ allowed \in SUBSET Branch
  BY DEF BInv, Types
<1>2. new \in WindowState /\ new.at = "head" /\ ~new.post
  BY <1>1 DEF WindowState, Place
<1>3. (window[w].post /\ holder = w) \/ holder' = holder
  BY DEF Learns
<1> QED
  BY <1>2, OneRequest DEF Learns, BInv, Types

LEMMA ConfirmSound ==
  ASSUME BInv, NEW w \in Window, Confirm(w)
  PROVE  BInv'
<1> DEFINE new == [window[w] EXCEPT !.at = "wait", !.post = TRUE, !.allowed = allowed]
<1>1. window[w] \in WindowState /\ allowed \in SUBSET Branch
  BY DEF BInv, Types
<1>2. new \in WindowState /\ new.at = "wait" /\ new.post
  BY <1>1 DEF WindowState, Place
<1>3. Known(new)
  BY <1>2 DEF Known, KnowsHead, KnowsTarget, KnowsTree, KnowsOperation, Reading
<1> QED
  BY <1>2, <1>3, OneRequest DEF Confirm, Learns, BInv, Types, Reading

LEMMA LockSound ==
  ASSUME BInv, NEW w \in Window, Lock(w)
  PROVE  BInv'
<1> DEFINE new == [window[w] EXCEPT !.at = "head", !.disturbed = FALSE, !.offered = TRUE]
<1>1. window[w] \in WindowState
  BY DEF BInv, Types
<1>2. new \in WindowState /\ new.at = "head" /\ new.post = window[w].post
  BY <1>1 DEF WindowState, Place
<1>3. Known(new)
  BY <1>2 DEF Known, KnowsHead, KnowsTarget, KnowsTree, KnowsOperation, Reading
<1>4. /\ window' = [window EXCEPT ![w] = new] /\ holder = Nowhere /\ holder' = w
      /\ repo' = repo /\ processes' = processes /\ allowed' = allowed
  BY DEF Lock
<1>5. Nowhere \notin Window
  BY BranchAssumption
<1> HIDE DEF new
<1>6. \A v \in Window \ {w} : holder = v => holder' = v
  BY <1>4, <1>5
<1> QED
  BY <1>2, <1>3, <1>4, <1>6, OneRequest

\* One reading after the other: what was known before, and what is read now.
LEMMA ReadingSound ==
  ASSUME BInv, NEW w \in Window, NEW new \in WindowState, Learns(w, new),
         window[w].at \in Reading, new.at \in Reading, new.post = window[w].post,
         new.disturbed = window[w].disturbed,
         new.post /\ ~new.disturbed => Known(new)
  PROVE  BInv'
  BY OneRequest DEF BInv, Types, OneAtWork, Reading, Learns

\* The parts of a stamp are read one at a time.
LEMMA StampParts ==
  ASSUME NEW stamp \in Ref \X Ref \X BOOLEAN \X BOOLEAN
  PROVE  /\ \A c \in Ref :
              /\ [stamp EXCEPT ![1] = c] \in Ref \X Ref \X BOOLEAN \X BOOLEAN
              /\ [stamp EXCEPT ![1] = c][1] = c
              /\ [stamp EXCEPT ![2] = c] \in Ref \X Ref \X BOOLEAN \X BOOLEAN
              /\ [stamp EXCEPT ![2] = c][1] = stamp[1] /\ [stamp EXCEPT ![2] = c][2] = c
         /\ \A b \in BOOLEAN :
              /\ [stamp EXCEPT ![3] = b] \in Ref \X Ref \X BOOLEAN \X BOOLEAN
              /\ [stamp EXCEPT ![3] = b][1] = stamp[1] /\ [stamp EXCEPT ![3] = b][2] = stamp[2]
              /\ [stamp EXCEPT ![4] = b] \in Ref \X Ref \X BOOLEAN \X BOOLEAN
              /\ [stamp EXCEPT ![4] = b][1] = stamp[1] /\ [stamp EXCEPT ![4] = b][2] = stamp[2]
  OBVIOUS

LEMMA NoStampTyped == NoStamp \in Ref \X Ref \X BOOLEAN \X BOOLEAN
<1>1. 0 \in Ref
  BY DEF Ref
<1> QED
  BY <1>1 DEF NoStamp

LEMMA HeadSound ==
  ASSUME BInv, NEW w \in Window, CheckHead(w)
  PROVE  BInv'
<1> DEFINE new == [window[w] EXCEPT !.at = "refs", !.from = repo.branch, !.stamp[1] = repo.commit,
                                    !.offered = @ /\ window[w].target \in window[w].allowed]
<1>1. window[w] \in WindowState /\ repo.commit \in Ref /\ repo.branch \in Branch \cup {Nowhere}
  BY DEF BInv, Types, RepoState, Commit, Ref
<1> DEFINE stamp == [window[w].stamp EXCEPT ![1] = repo.commit]
<1>6. stamp \in Ref \X Ref \X BOOLEAN \X BOOLEAN /\ stamp[1] = repo.commit
  BY <1>1, StampParts DEF WindowState
<1> DEFINE still == window[w].offered /\ window[w].target \in window[w].allowed
<1>7. /\ new = [window[w] EXCEPT !.at = "refs", !.from = repo.branch, !.stamp = stamp, !.offered = still]
      /\ still \in BOOLEAN
  OBVIOUS
<1> HIDE DEF stamp, new, still
<1>2. /\ new \in WindowState /\ new.at = "refs" /\ new.post = window[w].post
      /\ new.disturbed = window[w].disturbed /\ new.from = repo.branch /\ new.stamp[1] = repo.commit
  BY <1>1, <1>6, <1>7 DEF WindowState, Place
<1>3. Known(new)
  BY <1>2 DEF Known, KnowsHead, KnowsTarget, KnowsTree, KnowsOperation, Reading
<1> QED
  BY <1>2, <1>3, ReadingSound DEF CheckHead, WindowAt, Reading, new

LEMMA RefsSound ==
  ASSUME BInv, NEW w \in Window, CheckRefs(w)
  PROVE  BInv'
<1> DEFINE name == window[w].target
           found == Resolve(name, window[w].remote)
           to == TargetCommit(name, found)
           new == [window[w] EXCEPT
             !.at = "tree", !.found = found, !.stamp[2] = to,
             !.offered = /\ @ /\ found # "nothing"
                         /\ found = "local" => name \notin {window[w].from, repo.elsewhere}]
<1>1. Types /\ window[w] \in WindowState /\ name \in Branch
  BY DEF BInv, Types, WindowState
<1>2. found \in {"local", "nothing"} \cup Remote /\ to \in Ref
  BY <1>1, TargetTyped
<1> DEFINE stamp == [window[w].stamp EXCEPT ![2] = to]
           offered == /\ window[w].offered /\ found # "nothing"
                      /\ found = "local" => name \notin {window[w].from, repo.elsewhere}
<1>5. Learns(w, new)
  BY DEF CheckRefs
<1> HIDE DEF found, to
<1>6. stamp \in Ref \X Ref \X BOOLEAN \X BOOLEAN /\ stamp[1] = window[w].stamp[1] /\ stamp[2] = to
  BY <1>1, <1>2, StampParts DEF WindowState
<1>7. new = [window[w] EXCEPT !.at = "tree", !.found = found, !.stamp = stamp, !.offered = offered]
  OBVIOUS
<1>8. offered \in BOOLEAN
  BY <1>1 DEF WindowState
<1> HIDE DEF stamp, new, offered
<1>3. /\ new \in WindowState /\ new.at = "tree" /\ new.post = window[w].post
      /\ new.disturbed = window[w].disturbed /\ new.from = window[w].from
      /\ new.target = window[w].target /\ new.found = found
      /\ new.stamp[1] = window[w].stamp[1] /\ new.stamp[2] = to
  BY <1>1, <1>2, <1>6, <1>7, <1>8 DEF WindowState, Place
<1>4. new.post /\ ~new.disturbed => Known(new)
  BY <1>3 DEF BInv, StillSo, Known, CheckRefs, WindowAt, KnowsHead, KnowsTarget, KnowsTree, KnowsOperation, Reading, to
<1> QED
  BY <1>3, <1>4, <1>5, ReadingSound DEF CheckRefs, WindowAt, Reading

LEMMA WorkingTreeSound ==
  ASSUME BInv, NEW w \in Window, CheckWorkingTree(w)
  PROVE  BInv'
<1> DEFINE stamp == [window[w].stamp EXCEPT ![3] = repo.dirty]
           new == [window[w] EXCEPT !.at = "ignored", !.stamp[3] = repo.dirty,
                                    !.offered = @ /\ ~repo.dirty]
<1>1. window[w] \in WindowState /\ repo.dirty \in BOOLEAN
  BY DEF BInv, Types, RepoState
<1>2. Learns(w, new) /\ window[w].at = "tree"
  BY DEF CheckWorkingTree, WindowAt
<1>3. /\ stamp \in Ref \X Ref \X BOOLEAN \X BOOLEAN
      /\ stamp[1] = window[w].stamp[1] /\ stamp[2] = window[w].stamp[2]
  BY <1>1, StampParts DEF WindowState
<1>4. new = [window[w] EXCEPT !.at = "ignored", !.stamp = stamp, !.offered = @ /\ ~repo.dirty]
  OBVIOUS
<1> HIDE DEF stamp, new
<1>5. /\ new \in WindowState /\ new.at = "ignored" /\ new.post = window[w].post
      /\ new.disturbed = window[w].disturbed /\ new.from = window[w].from
      /\ new.target = window[w].target /\ new.found = window[w].found
      /\ new.stamp[1] = window[w].stamp[1] /\ new.stamp[2] = window[w].stamp[2]
      /\ new.offered => ~repo.dirty
  BY <1>1, <1>3, <1>4 DEF WindowState, Place
<1>6. new.post /\ ~new.disturbed => Known(new)
  BY <1>2, <1>5 DEF BInv, StillSo, Known, KnowsHead, KnowsTarget, KnowsTree, KnowsOperation, Reading
<1> QED
  BY <1>2, <1>5, <1>6, ReadingSound DEF Reading

LEMMA IgnoredSound ==
  ASSUME BInv, NEW w \in Window, CheckIgnored(w)
  PROVE  BInv'
<1> DEFINE stamp == [window[w].stamp EXCEPT ![4] = repo.ignored]
           free == ~(repo.ignored /\ TargetCommit(window[w].target, window[w].found) = 2)
           new == [window[w] EXCEPT !.at = "operation", !.stamp[4] = repo.ignored, !.offered = @ /\ free]
<1>1. window[w] \in WindowState /\ repo.ignored \in BOOLEAN /\ free \in BOOLEAN
  BY DEF BInv, Types, RepoState
<1>2. Learns(w, new) /\ window[w].at = "ignored"
  BY DEF CheckIgnored, WindowAt
<1>3. /\ stamp \in Ref \X Ref \X BOOLEAN \X BOOLEAN
      /\ stamp[1] = window[w].stamp[1] /\ stamp[2] = window[w].stamp[2]
  BY <1>1, StampParts DEF WindowState
<1> HIDE DEF free
<1>4. new = [window[w] EXCEPT !.at = "operation", !.stamp = stamp, !.offered = @ /\ free]
  OBVIOUS
<1> HIDE DEF stamp, new
<1>5. /\ new \in WindowState /\ new.at = "operation" /\ new.post = window[w].post
      /\ new.disturbed = window[w].disturbed /\ new.from = window[w].from
      /\ new.target = window[w].target /\ new.found = window[w].found
      /\ new.stamp[1] = window[w].stamp[1] /\ new.stamp[2] = window[w].stamp[2]
      /\ new.offered => window[w].offered
  BY <1>1, <1>3, <1>4 DEF WindowState, Place
<1>6. new.post /\ ~new.disturbed => Known(new)
  BY <1>2, <1>5 DEF BInv, StillSo, Known, KnowsHead, KnowsTarget, KnowsTree, KnowsOperation, Reading
<1> QED
  BY <1>2, <1>5, <1>6, ReadingSound DEF Reading

LEMMA OperationSound ==
  ASSUME BInv, NEW w \in Window, CheckOperation(w)
  PROVE  BInv'
<1> DEFINE new == [window[w] EXCEPT !.at = "detached", !.offered = @ /\ ~repo.busy]
<1>1. window[w] \in WindowState /\ repo.busy \in BOOLEAN
  BY DEF BInv, Types, RepoState
<1>2. Learns(w, new) /\ window[w].at = "operation"
  BY DEF CheckOperation, WindowAt
<1>5. /\ new \in WindowState /\ new.at = "detached" /\ new.post = window[w].post
      /\ new.disturbed = window[w].disturbed /\ new.from = window[w].from
      /\ new.target = window[w].target /\ new.found = window[w].found
      /\ new.stamp = window[w].stamp
      /\ new.offered => window[w].offered /\ ~repo.busy
  BY <1>1 DEF WindowState, Place
<1> HIDE DEF new
<1>6. new.post /\ ~new.disturbed => Known(new)
  BY <1>2, <1>5 DEF BInv, StillSo, Known, KnowsHead, KnowsTarget, KnowsTree, KnowsOperation, Reading
<1> QED
  BY <1>2, <1>5, <1>6, ReadingSound DEF Reading

LEMMA DetachedSound ==
  ASSUME BInv, NEW w \in Window, CheckDetached(w)
  PROVE  BInv'
<1> DEFINE safe == window[w].from # Nowhere \/ Reachable(window[w].stamp[1])
           new == [window[w] EXCEPT !.at = "sessions", !.offered = @ /\ safe]
<1>1. window[w] \in WindowState /\ safe \in BOOLEAN
  BY DEF BInv, Types, Reachable
<1>2. Learns(w, new) /\ window[w].at = "detached"
  BY DEF CheckDetached, WindowAt
<1> HIDE DEF safe
<1>5. /\ new \in WindowState /\ new.at = "sessions" /\ new.post = window[w].post
      /\ new.disturbed = window[w].disturbed /\ new.from = window[w].from
      /\ new.target = window[w].target /\ new.found = window[w].found
      /\ new.stamp = window[w].stamp
      /\ new.offered => window[w].offered /\ safe
  BY <1>1 DEF WindowState, Place
<1> HIDE DEF new
<1>6. new.post /\ ~new.disturbed => Known(new)
  BY <1>2, <1>5 DEF BInv, StillSo, Known, KnowsHead, KnowsTarget, KnowsTree, KnowsOperation, Reading, safe
<1> QED
  BY <1>2, <1>5, <1>6, ReadingSound DEF Reading

LEMMA SessionsSound ==
  ASSUME BInv, NEW w \in Window, CheckSessions(w)
  PROVE  BInv'
<1> DEFINE ok == window[w].offered /\ BlockingProcesses = {}
           passes == window[w].post /\ ok /\ window[w].stamp = window[w].seen
           new == [window[w] EXCEPT !.at = IF passes THEN "switch" ELSE "shown", !.offered = ok,
                                    !.seen = window[w].stamp]
<1>1. window[w] \in WindowState /\ window[w].at = "sessions"
  BY DEF BInv, Types, CheckSessions, WindowAt
<1>2. /\ window' = [window EXCEPT ![w] = new]
      /\ holder' = IF window[w].post /\ ~passes THEN Nowhere ELSE holder
      /\ repo' = repo /\ allowed' = allowed /\ processes' = processes
  BY DEF CheckSessions
<1>3. OneAtWork(w) /\ StillSo(w) /\ holder \in Window \cup {Nowhere}
  BY DEF BInv, Types
<1>4. ok \in BOOLEAN /\ passes \in BOOLEAN
  BY <1>1 DEF WindowState
<1>5. passes => window[w].post /\ window[w].offered /\ BlockingProcesses = {} /\ ok
  OBVIOUS
<1> HIDE DEF ok, passes
<1>6. /\ new \in WindowState /\ new.at = (IF passes THEN "switch" ELSE "shown")
      /\ new.post = window[w].post /\ new.disturbed = window[w].disturbed
      /\ new.from = window[w].from /\ new.target = window[w].target
      /\ new.found = window[w].found /\ new.stamp = window[w].stamp
      /\ new.seen = window[w].stamp /\ new.offered = ok
  BY <1>1, <1>4 DEF WindowState, Place
<1> HIDE DEF new
<1>7. new.post /\ ~new.disturbed => Known(new)
  BY <1>1, <1>3, <1>5, <1>6 DEF StillSo, Known, KnowsHead, KnowsTarget, KnowsTree, KnowsOperation, Reading
<1>8. window[w].post => holder = w
  BY <1>1, <1>3 DEF OneAtWork, Reading
<1>9. \A v \in Window \ {w} : holder = v => holder' = v
  BY <1>2, <1>8
<1>10. new.at \in {"wait", "switch", "after"} => new.post
  BY <1>5, <1>6
<1>11. new.post /\ new.at \in Reading \cup {"switch", "after"} => holder' = w
  BY <1>2, <1>6, <1>8 DEF Reading
<1>12. holder' \in Window \cup {Nowhere}
  BY <1>2, <1>3
<1> QED
  BY <1>2, <1>6, <1>7, <1>9, <1>10, <1>11, <1>12, OneRequest

LEMMA AnsweredSound ==
  ASSUME BInv, NEW w \in Window, Answered(w)
  PROVE  BInv'
<1> DEFINE new == [window[w] EXCEPT !.at = "idle", !.seen = NoStamp]
<1>1. window[w] \in WindowState /\ holder = w
  BY DEF BInv, Types, Answered, WindowAt, OneAtWork
<1>2. /\ window' = [window EXCEPT ![w] = new] /\ holder' = Nowhere
      /\ repo' = repo /\ allowed' = allowed /\ processes' = processes
  BY DEF Answered
<1>3. new \in WindowState /\ new.at = "idle"
  BY <1>1, NoStampTyped DEF WindowState, Place
<1> HIDE DEF new
<1>4. Known(new)
  BY <1>3 DEF Known, KnowsHead, KnowsTarget, KnowsTree, KnowsOperation, Reading
<1>5. new.at \notin Reading \cup {"switch", "after"} /\ new.at \notin {"wait", "switch", "after"}
  BY <1>3 DEF Reading
<1>6. \A v \in Window \ {w} : holder = v => holder' = v
  BY <1>1
<1> QED
  BY <1>2, <1>3, <1>4, <1>5, <1>6, OneRequest

-----------------------------------------------------------------------------
(* git switch, the other windows and the world outside.                    *)

\* Nobody but the holder of the lock knows anything that a switch could change.
LEMMA GitSwitchSound ==
  ASSUME BInv, NEW w \in Window, GitSwitch(w)
  PROVE  BInv'
<1> DEFINE to == TargetCommit(window[w].target, window[w].found)
<1>1. /\ window[w].at = "switch" /\ window' = [window EXCEPT ![w].at = "after"]
      /\ allowed' = allowed /\ processes' = processes /\ holder' = holder
      /\ window[w] \in WindowState /\ Types /\ holder = w /\ window[w].post
  BY DEF GitSwitch, WindowAt, BInv, Types, OneAtWork
<1>2. repo' \in RepoState /\ ~repo'.lost
  <2>1. CASE UNCHANGED repo
    BY <2>1 DEF BInv, Types
  <2>2. CASE /\ ~GitRefuses(window[w].target, window[w].found)
             /\ repo' = [repo EXCEPT !.branch = window[w].target, !.commit = to,
                           !.local[window[w].target] = to, !.lost = @ \/ (repo.ignored /\ to = 2)]
    <3>1. window[w].target \in Branch /\ to \in Ref
      BY <1>1, TargetTyped DEF WindowState
    <3>2. to # 0 /\ ~(repo.ignored /\ to = 2)
      BY <2>2 DEF GitRefuses
    <3>3. to \in Commit
      BY <3>1, <3>2 DEF Ref, Commit
    <3>4. [repo.local EXCEPT ![window[w].target] = to] \in [Branch -> Ref]
      BY <1>1, <3>1 DEF Types, RepoState
    <3>5. (repo.lost \/ (repo.ignored /\ to = 2)) = FALSE
      BY <3>2 DEF BInv
    <3> HIDE DEF to
    <3>6. repo' = [repo EXCEPT !.branch = window[w].target, !.commit = to,
                     !.local = [repo.local EXCEPT ![window[w].target] = to], !.lost = FALSE]
      BY <2>2, <3>5
    <3> QED
      BY <1>1, <3>1, <3>3, <3>4, <3>6 DEF Types, RepoState
  <2> QED
    BY <2>1, <2>2 DEF GitSwitch
<1>3. window' \in [Window -> WindowState]
  BY <1>1 DEF WindowState, Place, Types
<1>4. ASSUME NEW v \in Window \ {w}
      PROVE  OneAtWork(v)' /\ StillSo(v)'
  <2>1. window'[v] = window[v] /\ OneAtWork(v) /\ holder # v
    BY <1>1, <1>4 DEF BInv, Types
  <2>2. window[v].post => window[v].at \notin Reading \cup {"switch", "after"}
    BY <2>1 DEF OneAtWork
  <2>3. StillSo(v)'
    BY <2>1, <2>2 DEF StillSo, Known, KnowsHead, KnowsTarget, KnowsTree, KnowsOperation, Reading
  <2> QED
    BY <1>1, <2>1, <2>3 DEF OneAtWork, WindowAt
<1>5. OneAtWork(w)' /\ StillSo(w)'
  <2>1. window'[w].at = "after" /\ window'[w].post
    BY <1>1 DEF Types, WindowState
  <2> QED
    BY <1>1, <2>1 DEF OneAtWork, StillSo, Known, WindowAt, KnowsHead, KnowsTarget, KnowsTree, KnowsOperation, Reading
<1> QED
  BY <1>1, <1>2, <1>3, <1>4, <1>5 DEF BInv, Types

\* Another window needs the lock, so no confirmed request is at work.
LEMMA OtherWindowSound ==
  ASSUME BInv, OtherWindow
  PROVE  BInv'
<1>1. /\ holder = Nowhere /\ allowed' = allowed /\ processes' = processes
      /\ window' = window /\ holder' = holder /\ Types
  BY DEF OtherWindow, BInv
<1>2. repo' \in RepoState /\ ~repo'.lost
  <2>1. CASE \E r \in Remote, b \in Branch, c \in Ref : repo' = [repo EXCEPT !.tracking[r][b] = c]
    <3> PICK r \in Remote, b \in Branch, c \in Ref : repo' = [repo EXCEPT !.tracking[r][b] = c]
      BY <2>1
    <3>1. [repo.tracking EXCEPT ![r] = [repo.tracking[r] EXCEPT ![b] = c]] \in [Remote -> [Branch -> Ref]]
      BY <1>1 DEF Types, RepoState
    <3>2. repo' = [repo EXCEPT !.tracking = [repo.tracking EXCEPT ![r] = [repo.tracking[r] EXCEPT ![b] = c]]]
      OBVIOUS
    <3> QED
      BY <1>1, <3>1, <3>2 DEF BInv, Types, RepoState
  <2>2. CASE \E b \in Branch \ {repo.branch} :
               /\ repo.local[b] # 0 /\ ~GitRefuses(b, "local")
               /\ repo' = [repo EXCEPT !.branch = b, !.commit = repo.local[b]]
    <3> PICK b \in Branch : repo.local[b] # 0 /\ repo' = [repo EXCEPT !.branch = b, !.commit = repo.local[b]]
      BY <2>2
    <3>1. repo.local[b] \in Commit
      BY <1>1 DEF Types, RepoState, Ref, Commit
    <3> QED
      BY <1>1, <3>1 DEF BInv, Types, RepoState
  <2> QED
    BY <2>1, <2>2 DEF OtherWindow
<1>3. ASSUME NEW v \in Window
      PROVE  OneAtWork(v)' /\ StillSo(v)'
  <2>1. OneAtWork(v) /\ v # Nowhere
    BY BranchAssumption DEF BInv
  <2>2. window[v].post => window[v].at \notin Reading \cup {"switch", "after"}
    BY <1>1, <2>1 DEF OneAtWork
  <2> QED
    BY <1>1, <2>1, <2>2
    DEF OneAtWork, WindowAt, StillSo, Known, KnowsHead, KnowsTarget, KnowsTree, KnowsOperation, Reading
<1> QED
  BY <1>1, <1>2, <1>3 DEF BInv, Types

\* The world outside disturbs every request, and a disturbed one claims nothing.
LEMMA OutsideSound ==
  ASSUME BInv, Outside, repo' \in RepoState, repo'.lost = repo.lost,
         allowed' \subseteq Branch, processes' \in [Process -> ProcessState]
  PROVE  BInv'
<1>1. /\ window' = [v \in Window |-> [window[v] EXCEPT !.disturbed = TRUE]] /\ holder' = holder
      /\ window \in [Window -> WindowState]
  BY DEF Outside, BInv, Types
<1>2. ASSUME NEW v \in Window
      PROVE  /\ window'[v] \in WindowState /\ window'[v].disturbed
             /\ window'[v].at = window[v].at /\ window'[v].post = window[v].post
  BY <1>1 DEF WindowState
<1>3. window' \in [Window -> WindowState]
  BY <1>1, <1>2
<1>4. ASSUME NEW v \in Window
      PROVE  OneAtWork(v)' /\ StillSo(v)'
  <2>1. OneAtWork(v)
    BY DEF BInv
  <2> QED
    BY <1>1, <1>2, <2>1 DEF OneAtWork, WindowAt, StillSo
<1> QED
  BY <1>1, <1>3, <1>4 DEF BInv, Types

LEMMA EditSound ==
  ASSUME BInv, OthersEdit
  PROVE  BInv'
<1> PICK dirty, ignored, busy \in BOOLEAN, elsewhere \in Branch \cup {Nowhere} :
       repo' = [repo EXCEPT !.dirty = dirty, !.ignored = ignored, !.busy = busy, !.elsewhere = elsewhere]
  BY DEF OthersEdit
<1>1. repo' \in RepoState /\ repo'.lost = repo.lost
  BY DEF BInv, Types, RepoState
<1> QED
  BY <1>1, OutsideSound DEF OthersEdit, BInv, Types

LEMMA CommitSound ==
  ASSUME BInv, OthersCommit
  PROVE  BInv'
<1>1. repo \in RepoState
  BY DEF BInv, Types
<1>2. repo' \in RepoState /\ repo'.lost = repo.lost
  <2>1. ASSUME NEW b \in Branch, NEW c \in Ref
        PROVE  [repo.local EXCEPT ![b] = c] \in [Branch -> Ref]
    BY <1>1 DEF RepoState
  <2>2. CASE repo.branch # Nowhere /\ repo' = [repo EXCEPT !.commit = 2, !.local[repo.branch] = 2]
    <3>1. repo.branch \in Branch /\ 2 \in Ref /\ 2 \in Commit
      BY <1>1, <2>2 DEF RepoState, Ref, Commit
    <3>2. [repo.local EXCEPT ![repo.branch] = 2] \in [Branch -> Ref]
      BY <2>1, <3>1
    <3>3. repo' = [repo EXCEPT !.commit = 2, !.local = [repo.local EXCEPT ![repo.branch] = 2]]
      BY <2>2
    <3> QED
      BY <1>1, <3>1, <3>2, <3>3 DEF RepoState
  <2>3. CASE repo' = [repo EXCEPT !.commit = 2] \/ repo' = [repo EXCEPT !.branch = Nowhere]
    BY <1>1, <2>3 DEF RepoState, Commit
  <2>4. CASE \E b \in Branch : repo' = [repo EXCEPT !.branch = b, !.local[b] = repo.commit]
    <3> PICK b \in Branch : repo' = [repo EXCEPT !.branch = b, !.local[b] = repo.commit]
      BY <2>4
    <3>1. repo.commit \in Ref
      BY <1>1 DEF RepoState, Ref, Commit
    <3>2. [repo.local EXCEPT ![b] = repo.commit] \in [Branch -> Ref]
      BY <2>1, <3>1
    <3>3. repo' = [repo EXCEPT !.branch = b, !.local = [repo.local EXCEPT ![b] = repo.commit]]
      OBVIOUS
    <3> QED
      BY <1>1, <3>2, <3>3 DEF RepoState
  <2> QED
    BY <2>2, <2>3, <2>4 DEF OthersCommit
<1> QED
  BY <1>2, OutsideSound DEF OthersCommit, BInv, Types

LEMMA StartSound ==
  ASSUME BInv, OthersStart
  PROVE  BInv'
  BY OutsideSound DEF OthersStart, BInv, Types

LEMMA AllowSound ==
  ASSUME BInv, OthersAllow
  PROVE  BInv'
  BY OutsideSound DEF OthersAllow, BInv, Types

-----------------------------------------------------------------------------
(* The theorems.                                                           *)

LEMMA BranchStarts ==
  ASSUME BranchInit
  PROVE  BInv
<1> DEFINE first == CHOOSE b \in Branch : TRUE
           idle == [at |-> "idle", post |-> FALSE, target |-> first, remote |-> Nowhere,
                    allowed |-> {}, seen |-> NoStamp, stamp |-> NoStamp, from |-> Nowhere,
                    found |-> "nothing", offered |-> FALSE, disturbed |-> FALSE]
<1>1. first \in Branch
  BY BranchAssumption
<1>2. idle \in WindowState /\ window = [w \in Window |-> idle] /\ holder = Nowhere
  <2> QED
    BY <1>1, NoStampTyped DEF BranchInit, WindowState, Place
<1>3. repo \in RepoState /\ ~repo.lost
  BY <1>1 DEF BranchInit, RepoState, Commit, Ref
<1>4. processes \in [Process -> ProcessState] /\ allowed \subseteq Branch
  BY DEF BranchInit, ProcessState
<1>5. ASSUME NEW w \in Window
      PROVE  window[w].at = "idle" /\ ~window[w].post
  BY <1>2
<1>6. \A w \in Window : OneAtWork(w) /\ StillSo(w)
  BY <1>5 DEF OneAtWork, StillSo, WindowAt
<1> QED
  BY <1>2, <1>3, <1>4, <1>6 DEF BInv, Types

LEMMA BranchGoesOn ==
  ASSUME BInv, [BranchNext]_branchVars
  PROVE  BInv'
<1>1. ASSUME NEW w \in Window, AskCheck(w) \/ Confirm(w) \/ Lock(w)
      PROVE  BInv'
  BY <1>1, AskSound, ConfirmSound, LockSound
<1>2. ASSUME NEW w \in Window, CheckStep(w)
      PROVE  BInv'
  BY <1>2, HeadSound, RefsSound, WorkingTreeSound, IgnoredSound, OperationSound, DetachedSound, SessionsSound
  DEF CheckStep
<1>3. ASSUME NEW w \in Window, GitSwitch(w) \/ Answered(w)
      PROVE  BInv'
  BY <1>3, GitSwitchSound, AnsweredSound
<1>4. ASSUME OthersEdit \/ OthersCommit \/ OthersStart \/ OthersAllow
      PROVE  BInv'
  BY <1>4, EditSound, CommitSound, StartSound, AllowSound
<1>5. CASE UNCHANGED branchVars
  BY <1>5, SameSessions DEF branchVars, BInv, Types, OneAtWork, StillSo, Known, WindowAt, TargetCommit, Reachable
<1> QED
  BY <1>1, <1>2, <1>3, <1>4, <1>5, OtherWindowSound DEF BranchNext

\* Nothing blocks, so no session is in the project: an own helper that a session
\* started would have the server between, and one below the server is a session
\* itself or has none on the way up to it.
LEMMA NothingBlocks ==
  ASSUME BlockingProcesses = {}
  PROVE  ~SessionInProject
  BY BranchAssumption, FS_CardinalityType DEF SessionInProject, BlockingProcesses, SessionAbove, OwnHelper, Up, Generation

\* check.go, actions.go: the invariant of the confirmed requests.
THEOREM BranchInvariance == BranchSpec => []BInv
<1> QED
  BY BranchStarts, BranchGoesOn, PTL DEF BranchSpec

LEMMA SwitchesAsShown ==
  ASSUME BInv, BInv', [BranchNext]_branchVars
  PROVE  /\ ~repo'.lost
         /\ \A w \in Window : Switching(w) /\ ~window[w].disturbed => SwitchAsShown(w)
<1>1. ~repo'.lost
  BY DEF BInv
<1>2. ASSUME NEW w \in Window, Switching(w), ~window[w].disturbed
      PROVE  SwitchAsShown(w)
  <2>1. Known(window[w]) /\ window[w].at = "switch"
    BY <1>2 DEF BInv, OneAtWork, StillSo, Switching, WindowAt
  <2>2. ~SessionInProject
    BY <2>1, NothingBlocks DEF Known
  <2> QED
    BY <2>1, <2>2 DEF SwitchAsShown, Known, KnowsHead, KnowsTarget, KnowsTree, KnowsOperation, Reading
<1> QED
  BY <1>1, <1>2

\* A confirmed switch that nobody disturbs goes from and to the commits that were
\* shown, with a clean tree, no operation under way and no session in the project;
\* and no switch overwrites an ignored file.
THEOREM SwitchIsAsShown == BranchSpec => ConfirmedSwitch
<1>1. ASSUME BInv, BInv', [BranchNext]_branchVars
      PROVE  [/\ ~repo'.lost
              /\ \A w \in Window :
                   Switching(w) /\ ~window[w].disturbed => SwitchAsShown(w)]_branchVars
  BY <1>1, SwitchesAsShown
<1> QED
  BY <1>1, BranchInvariance, PTL DEF BranchSpec, ConfirmedSwitch

(***************************************************************************)
(* The list.  Before the refs are read nothing is said of them; afterwards *)
(* what has been said fits what was read in the same call.                 *)
(***************************************************************************)
Early   == {"idle", "head", "born", "remotes", "remote", "default", "resolve", "local"}
Finding == {"preferred", "candidates", "count"}
Weighing == {"log", "contains", "ahead"}
HasRefs == listing.at \in {"merged", "worktrees", "environment"} \cup Finding \cup Weighing \/ ListGiven
HasEnvironments == listing.at \in {"environment"} \cup Finding \cup Weighing \/ ListGiven

Read ==
  /\ listing.at = "answered" \/ listing.state = "none"
  /\ listing.at \in Early => ~listing.known
  /\ listing.at \in {"resolve", "local"} => listing.name \in BranchName
  /\ listing.known => listing.name \in BranchName
  /\ listing.at \in Early \cup {"refs"} => ~listing.counted /\ ~listing.asked
  /\ listing.at = "merged" => listing.known /\ ~listing.counted
  /\ listing.counted => listing.known /\ listing.against = listing.seen[listing.place][listing.name]
  /\ listing.asked => listing.known /\ ~listing.counted

\* Nothing is found before the search, and what is found is a candidate or named.
Searched ==
  /\ ~HasEnvironments => search = NothingFound \/ listing.at = "answered"
  /\ ListGiven => search.waiting = {}
  /\ listing.at \in {"environment"} \cup Finding \cup Weighing => search.env \notin search.waiting
  /\ HasEnvironments => SourcesAreLongLived
  /\ listing.at \in Finding => search.left \subseteq Candidates /\ search.best \in {""} \cup Candidates
  /\ listing.at = "count" => search.ref[2] \in search.left
  /\ listing.at = "preferred" => NameSuggestion(search.env) # ""

\* What the search has found so far when nobody disturbs it.
BestFits(sha, best, least, gone) ==
  IF best = "" THEN \A m \in gone : Without(m, sha) # {}
  ELSE \E q \in With(best, sha) :
         /\ least = Further(q, best, sha)
         /\ \A m \in gone : \/ Without(m, sha) # {}
                            \/ \E p \in With(m, sha) : least <= Further(p, m, sha)
BestSoFar == BestFits(Sha, search.best, search.least, Candidates \ search.left)

\* The branch that ref names, and none without a sha.
Grounds(e, s) ==
  LET d == given.deployment[e] IN
    ~BySha(e) => s = IF d.ref \in BranchName /\ ThereIs(d.ref) THEN d.ref ELSE ""

Weighed(e) == SourceRight(e) /\ Grounds(e, search.suggested[e])
Settled(e) == Weighed(e) /\ StandRight(e)
InHand(e)  == e = search.env /\ listing.at \in Finding \cup Weighing

Underway ==
  LET p == search.ref[1]  n == search.ref[2] IN
    /\ listing.at \in Finding => BySha(search.env) /\ BestSoFar
    /\ listing.at \in {"candidates", "count"} /\ NameSuggestion(search.env) # "" =>
         Without(NameSuggestion(search.env), Sha) # {}
    /\ listing.at = "count" => p \in With(n, Sha)
    /\ listing.at \in Weighing => Weighed(search.env)
    /\ listing.at \in {"contains", "ahead"} =>
         n = BranchOf(search.env) /\ p \in PreferredPlaces(n) /\ Sha \in refs.objects
    /\ listing.at = "ahead" => p \in With(n, Sha)

Waits ==
  HasEnvironments =>
    /\ \A e \in EnvName : \/ given.deployment[e] = NoDeployment \/ e \in search.waiting
                         \/ InHand(e) \/ Settled(e)
    /\ \A e \in EnvName : e \in search.waiting \/ InHand(e) => search.inBranch[e] = "unknown"
    /\ \A e \in EnvName :
         e \in search.waiting \/ (InHand(e) /\ listing.at \in Finding) => search.suggested[e] = ""

DefaultGone ==
  /\ refs.points[listing.remote] # ""
  /\ refs.tip[listing.remote][refs.points[listing.remote]] = Gone

Heard ==
  /\ listing.at \notin {"idle", "head"} /\ listing.state # "failed" => listing.head = refs.head
  /\ HasRefs => listing.seen = refs.tip
  /\ listing.at = "refs" /\ listing.known =>
       \/ refs.tip[listing.place][listing.name] # Gone
       \/ listing.remote \in GitRemote /\ refs.points[listing.remote] = listing.name
                                       /\ listing.place = listing.remote
  /\ listing.at = "answered" /\ listing.state = "error" => DefaultGone
  /\ HasRefs /\ listing.asked =>
       \A r \in RefName : r \in listing.merged <=>
          Tip(r) # Gone /\ Tip(r) \subseteq refs.tip[listing.place][listing.name]

Undisturbed == Heard /\ Underway /\ Waits

ListInv == ListTypeOK /\ Read /\ Searched /\ (~listing.disturbed => Undisturbed)


-----------------------------------------------------------------------------
(* What the names mean.                                                    *)

\* Of the places 1..4 that are taken in a group one is the first.
LEMMA FirstOfGroup ==
  ASSUME NEW near, near # {}, near \subseteq Groups \X (1..4)
  PROVE  \E x \in near : \A y \in near : x[2] <= y[2]
<1>1. \A x \in near : x[2] \in 1..4
  OBVIOUS
<1>2. CASE \E x \in near : x[2] = 1
  <2>1. PICK x \in near : x[2] = 1
    BY <1>2
  <2> QED BY <1>1, <2>1
<1>3. CASE (\A x \in near : x[2] # 1) /\ \E x \in near : x[2] = 2
  BY <1>3, <1>1
<1>4. CASE (\A x \in near : x[2] \notin {1, 2}) /\ \E x \in near : x[2] = 3
  BY <1>4, <1>1
<1>5. CASE \A x \in near : x[2] \notin {1, 2, 3}
  <2>1. PICK x \in near : TRUE
    OBVIOUS
  <2> QED BY <1>1, <1>5, <2>1
<1> QED BY <1>2, <1>3, <1>4, <1>5

\* nameSuggestion names a branch that is there, and one of the long-lived.
LEMMA NearIsCandidate ==
  ASSUME NEW e
  PROVE  NameSuggestion(e) \in {""} \cup Candidates
<1>1. ASSUME NEW x \in Near(e)
      PROVE  NearBranches[x[1]][x[2]] \in Candidates
  BY <1>1 DEF Near, InGroups, Candidates
<1>2. Near(e) # {} => FirstOf(Near(e)) \in Near(e)
  BY FirstOfGroup DEF Near, FirstOf
<1>3. Named(Near(e)) \subseteq Candidates
  BY <1>1 DEF Named
<1> QED BY <1>1, <1>2, <1>3 DEF NameSuggestion

LEMMA CandidatesTyped == Candidates \subseteq BranchName
BY DEF Candidates

LEMMA PlacesTyped ==
  ASSUME NEW n
  PROVE  PreferredPlaces(n) \subseteq RefPlace \cap Places(n)
BY DEF PreferredPlaces, Places

LEMMA SomePlace ==
  ASSUME NEW n, ThereIs(n)
  PROVE  PreferredPlaces(n) # {}
BY DEF PreferredPlaces, ThereIs

LEMMA TipTyped ==
  ASSUME refs \in RefsState, NEW p \in RefPlace, NEW n \in BranchName
  PROVE  refs.tip[p][n] \in Reach \cup {Gone} /\ IsFiniteSet(refs.tip[p][n])
<1>1. refs.tip \in Tips
  BY DEF RefsState
<1>2. refs.tip[p] \in [BranchName -> Reach \cup {Gone}]
  BY <1>1 DEF Tips
<1>3. refs.tip[p][n] \in Reach \cup {Gone}
  BY <1>2
<1> QED BY <1>3, FS_EmptySet, ListAssumption DEF Gone

LEMMA FurtherTyped ==
  ASSUME refs \in RefsState, NEW p \in RefPlace, NEW n \in BranchName, NEW sha
  PROVE  Further(p, n, sha) \in Nat
BY TipTyped, FS_Difference, FS_CardinalityType DEF Further


-----------------------------------------------------------------------------
(* Types.                                                                  *)

LEMMA UnreadTyped == NothingRead \in ListingState /\ [NothingRead EXCEPT !.at = "idle"] \in ListingState
BY DEF NothingRead, ListingState, Call, Tips, RefPlace, Gone

LEMMA UnfoundTyped == NothingFound \in SearchState
BY DEF NothingFound, SearchState

LEMMA NotAskedTyped == NotAsked \in GivenState
BY DEF NotAsked, GivenState

LEMMA BoundTyped == MaxListEvents \in Nat
BY ListAssumption

LEMMA TypesInit == ListInit => ListTypeOK
<1> SUFFICES ASSUME NEW repository \in RefsState, ListBegin(repository)
             PROVE  ListTypeOK
  BY DEF ListInit
<1>1. listing \in ListingState /\ listing.at = "idle"
  BY UnreadTyped DEF ListBegin, NothingRead
<1>2. listEvents \in 0..MaxListEvents
  BY BoundTyped DEF ListBegin
<1> QED BY <1>1, <1>2, UnfoundTyped, NotAskedTyped DEF ListBegin, ListTypeOK

\* A call that only reads for the list.
LEMMA TellsTyped ==
  ASSUME ListTypeOK, NEW next, NEW new, GitTells(next, new), new \in ListingState,
         next \in {"born", "remotes", "remote", "default", "resolve", "local", "refs", "merged",
                   "worktrees", "answered"}
  PROVE  ListTypeOK'
  BY DEF GitTells, ListingState, Call, ListTypeOK

\* A call of the search.
LEMMA SearchTyped ==
  ASSUME ListTypeOK, NEW next, NEW new, Searches(next, new), new \in SearchState,
         next \in {"environment", "preferred", "candidates", "count", "log", "contains", "ahead"},
         next # "environment" => new.env \in EnvName,
         next \in {"count", "contains", "ahead"} => new.ref \in RefName
  PROVE  ListTypeOK'
  BY DEF Searches, ListingState, Call, ListTypeOK

LEMMA OthersTyped ==
  ASSUME ListTypeOK, NEW new \in RefsState, OthersDo(new)
  PROVE  ListTypeOK'
<1>1. listing' \in ListingState /\ listing'.at = listing.at
  BY DEF OthersDo, ListingState, ListTypeOK
<1>2. listEvents' \in 0..MaxListEvents
  BY BoundTyped DEF OthersDo, ListTypeOK
<1>3. refs' \in RefsState /\ given' \in GivenState /\ search' \in SearchState
  BY DEF OthersDo, ListTypeOK
<1> QED BY <1>1, <1>2, <1>3 DEF OthersDo, ListTypeOK

LEMMA UsualTyped ==
  ASSUME NEW rs, rs \subseteq GitRemote
  PROVE  UsualRemote(rs) \in RefPlace
BY DEF UsualRemote, RefPlace

LEMMA ReadingTyped ==
  ASSUME ListTypeOK,
         ReadHead \/ ReadBorn \/ ReadRemotes \/ ReadRemote \/ CallFails \/ GiveList
  PROVE  ListTypeOK'
<1>1. CASE ReadHead
  BY <1>1, TellsTyped DEF ReadHead, ListTypeOK, ListingState, RefsState
<1>2. CASE ReadBorn
  BY <1>2, TellsTyped DEF ListTypeOK, ListingState, ReadBorn
<1>3. CASE ReadRemotes
  BY UsualTyped, <1>3, TellsTyped DEF ListTypeOK, RefsState, ListingState, ReadRemotes
<1>4. CASE ReadRemote
  <2> DEFINE named == refs.follows[listing.head]
  <2>1. (IF named \in listing.remotes THEN named ELSE listing.remote) \in RefPlace
    BY DEF ListTypeOK, ListingState, RefPlace
  <2>2. [listing EXCEPT !.remote = IF named \in listing.remotes THEN named ELSE listing.remote]
          \in ListingState
    BY <2>1 DEF ListTypeOK, ListingState
  <2> QED BY <1>4, <2>2, TellsTyped DEF ReadRemote
<1>5. CASE CallFails
  BY <1>5, TellsTyped DEF CallFails, ListTypeOK, ListingState
<1>6. CASE GiveList
  BY <1>6, TellsTyped DEF GiveList, ListTypeOK, ListingState
<1> QED BY <1>1, <1>2, <1>3, <1>4, <1>5, <1>6

LEMMA DefaultTyped ==
  ASSUME ListTypeOK, ReadDefault \/ ResolveDefault
  PROVE  ListTypeOK'
<1>1. CASE ReadDefault
  BY <1>1, TellsTyped DEF ListTypeOK, ListingState, GivenState, RefsState, RefPlace, ReadDefault
<1>2. CASE ResolveDefault
  <2> DEFINE place == IF listing.at = "resolve" THEN listing.remote ELSE ""
             there == refs.tip[place][listing.name] # Gone
             next == IF ~there /\ listing.at = "resolve" THEN "local" ELSE "refs"
             new == [listing EXCEPT !.place = IF there THEN place ELSE "", !.known = there]
  <2>1. place \in RefPlace /\ there \in BOOLEAN
    BY DEF ListTypeOK, ListingState, RefPlace
  <2>2. ASSUME NEW q \in RefPlace, NEW k \in BOOLEAN
        PROVE  [listing EXCEPT !.place = q, !.known = k] \in ListingState
    BY DEF ListTypeOK, ListingState
  <2>3. (IF there THEN place ELSE "") \in RefPlace
    BY <2>1 DEF RefPlace
  <2>4. new \in ListingState
    BY <2>1, <2>2, <2>3
  <2>5. GitTells(next, new) /\ next \in {"local", "refs"}
    BY <1>2 DEF ResolveDefault
  <2> HIDE DEF next, new
  <2> QED BY <2>4, <2>5, TellsTyped
<1> QED BY <1>1, <1>2

LEMMA RefsTyped ==
  ASSUME ListTypeOK, Read, ReadRefs \/ ReadMerged \/ ReadWorktrees
  PROVE  ListTypeOK'
<1>1. CASE ReadRefs
  <2> DEFINE against == IF listing.known THEN refs.tip[listing.place][listing.name] ELSE Gone
             read == [listing EXCEPT !.seen = refs.tip, !.against = against,
                                     !.counted = listing.known /\ given.recent]
  <2>0. listing.known => listing.place \in RefPlace /\ listing.name \in BranchName
    BY DEF ListTypeOK, ListingState, Read
  <2>1. against \in Reach \cup {Gone}
    BY <2>0, TipTyped DEF ListTypeOK
  <2>2. read \in ListingState
    BY <2>1 DEF ListTypeOK, ListingState, RefsState
  <2>3. [listing EXCEPT !.state = "error"] \in ListingState
    BY DEF ListTypeOK, ListingState
  <2>4. \/ GitTells("worktrees", read) \/ GitTells("merged", read)
        \/ GitTells("answered", [listing EXCEPT !.state = "error"])
    BY <1>1 DEF ReadRefs
  <2> HIDE DEF read
  <2> QED BY <2>2, <2>3, <2>4, TellsTyped
<1>2. CASE ReadMerged
  <2> DEFINE against == refs.tip[listing.place][listing.name]
             merged == {r \in RefName : refs.tip[r[1]][r[2]] # Gone /\ refs.tip[r[1]][r[2]] \subseteq against}
             read == [listing EXCEPT !.asked = against # Gone, !.merged = merged]
  <2>1. read \in ListingState
    BY DEF ListTypeOK, ListingState
  <2>2. GitTells("worktrees", read)
    BY <1>2 DEF ReadMerged
  <2> HIDE DEF read
  <2> QED BY <2>1, <2>2, TellsTyped
<1>3. CASE ReadWorktrees
  BY <1>3 DEF ReadWorktrees, ListTypeOK, ListingState, RefsState, Call, SearchState
<1> QED BY <1>1, <1>2, <1>3


LEMMA NearTyped == ASSUME NEW e PROVE NameSuggestion(e) \in BranchName \cup {""}
BY NearIsCandidate, CandidatesTyped

LEMMA BranchOfTyped ==
  ASSUME ListTypeOK, NEW e \in EnvName
  PROVE  BranchOf(e) \in BranchName \cup {""}
BY NearTyped DEF BranchOf, ListTypeOK, GivenState, SearchState

LEMMA FoundTyped ==
  ASSUME ListTypeOK, search.env \in EnvName, NEW branch \in BranchName \cup {""}
  PROVE  Found(branch) \in SearchState /\ Found(branch).env = search.env
BY DEF Found, ListTypeOK, SearchState

LEMMA BeginTyped ==
  ASSUME ListTypeOK, NEW e \in EnvName, SearchBegin(e)
  PROVE  ListTypeOK'
<1> DEFINE deployment == given.deployment[e]
           new == [search EXCEPT !.waiting = search.waiting \ {e}, !.env = e, !.best = "",
                                 !.least = 0, !.left = Candidates]
           named == [new EXCEPT !.suggested[e] = deployment.ref]
           next == IF NameSuggestion(e) # "" THEN "preferred" ELSE "candidates"
<1>1. new \in SearchState /\ new.env = e
  BY CandidatesTyped DEF ListTypeOK, SearchState
<1>2. ASSUME deployment.ref \in BranchName
      PROVE  named \in SearchState /\ named.env = e
  BY <1>1, <1>2 DEF SearchState
<1>3. \/ deployment.ref \in BranchName /\ Searches("log", named)
      \/ Searches("log", new) \/ Searches(next, new)
  BY DEF SearchBegin
<1>4. next \in {"preferred", "candidates"}
  OBVIOUS
<1> HIDE DEF new, named, next
<1>5. CASE deployment.ref \in BranchName /\ Searches("log", named)
  BY <1>2, <1>5, SearchTyped
<1>6. CASE Searches("log", new)
  BY <1>1, <1>6, SearchTyped
<1>7. CASE Searches(next, new)
  BY <1>1, <1>4, <1>7, SearchTyped
<1> QED BY <1>3, <1>5, <1>6, <1>7

LEMMA AskedTyped ==
  ASSUME ListTypeOK, AskPreferred \/ \E n \in BranchName : AskCandidate(n)
  PROVE  ListTypeOK'
<1>1. CASE AskPreferred
  BY <1>1, SearchTyped, FoundTyped, NearTyped DEF AskPreferred, ListTypeOK
<1>2. ASSUME NEW n \in BranchName, AskCandidate(n)
      PROVE  ListTypeOK'
  <2>1. search.env \in EnvName /\ search \in SearchState
    BY <1>2 DEF AskCandidate, ListTypeOK
  <2>2. PICK p \in RefPlace :
          \/ Searches("count", [search EXCEPT !.ref = <<p, n>>])
          \/ Searches("candidates", [search EXCEPT !.left = search.left \ {n}])
    BY <1>2, PlacesTyped DEF AskCandidate
  <2>3. CASE Searches("count", [search EXCEPT !.ref = <<p, n>>])
    <3> DEFINE new == [search EXCEPT !.ref = <<p, n>>]
    <3>1. new \in SearchState /\ new.env = search.env /\ new.ref \in RefName
      BY <2>1 DEF SearchState, RefName
    <3>2. Searches("count", new)
      BY <2>3
    <3> HIDE DEF new
    <3> QED BY <2>1, <3>1, <3>2, SearchTyped
  <2>4. CASE Searches("candidates", [search EXCEPT !.left = search.left \ {n}])
    <3> DEFINE new == [search EXCEPT !.left = search.left \ {n}]
    <3>1. new \in SearchState /\ new.env = search.env
      BY <2>1 DEF SearchState
    <3>2. Searches("candidates", new)
      BY <2>4
    <3> HIDE DEF new
    <3> QED BY <2>1, <3>1, <3>2, SearchTyped
  <2> QED BY <2>2, <2>3, <2>4
<1> QED BY <1>1, <1>2

LEMMA CountedTyped ==
  ASSUME ListTypeOK, CountCandidate \/ CandidatesDone
  PROVE  ListTypeOK'
<1>0. search.env \in EnvName /\ search \in SearchState
  BY DEF CountCandidate, CandidatesDone, ListTypeOK
<1>1. CASE CountCandidate
  <2> DEFINE p == search.ref[1]  n == search.ref[2]  far == Further(p, n, Sha)
             tried == [search EXCEPT !.left = search.left \ {n}]
             better == [tried EXCEPT !.best = n, !.least = far]
  <2>1. p \in RefPlace /\ n \in BranchName
    BY <1>1 DEF CountCandidate, ListTypeOK, RefName
  <2>2. far \in Nat
    BY <2>1, FurtherTyped DEF ListTypeOK
  <2>3. tried \in SearchState /\ tried.env = search.env
    BY <1>0 DEF SearchState
  <2>4. better \in SearchState /\ better.env = search.env
    <3> HIDE DEF far
    <3> QED BY <1>0, <2>1, <2>2 DEF SearchState
  <2>5. Searches("candidates", better) \/ Searches("candidates", tried)
    BY <1>1 DEF CountCandidate
  <2> HIDE DEF tried, better
  <2> QED BY <1>0, <2>3, <2>4, <2>5, SearchTyped
<1>2. CASE CandidatesDone
  BY <1>0, <1>2, FoundTyped, SearchTyped DEF SearchState, CandidatesDone
<1> QED BY <1>1, <1>2

LEMMA WeighedTyped ==
  ASSUME ListTypeOK, ReadLog \/ AskContained \/ ReadAhead
  PROVE  ListTypeOK'
<1>0. search.env \in EnvName /\ search \in SearchState
  BY DEF ReadLog, AskContained, ReadAhead, ListTypeOK
<1>1. Searches("environment", search) => ListTypeOK'
  BY <1>0, SearchTyped
<1>2. CASE ReadLog
  <2> DEFINE n == BranchOf(search.env)
  <2>1. \/ Searches("environment", search)
        \/ n # "" /\ \E p \in PreferredPlaces(n) : Searches("contains", [search EXCEPT !.ref = <<p, n>>])
    BY <1>2 DEF ReadLog
  <2>2. ASSUME n # "", NEW p \in PreferredPlaces(n),
               Searches("contains", [search EXCEPT !.ref = <<p, n>>])
        PROVE  ListTypeOK'
    <3> DEFINE new == [search EXCEPT !.ref = <<p, n>>]
    <3>1. p \in RefPlace /\ n \in BranchName
      BY <1>0, <2>2, PlacesTyped, BranchOfTyped
    <3>2. new \in SearchState /\ new.env = search.env /\ new.ref \in RefName
      <4> HIDE DEF n
      <4> QED BY <1>0, <3>1 DEF SearchState, RefName
    <3>3. Searches("contains", new)
      BY <2>2
    <3> HIDE DEF new
    <3> QED BY <1>0, <3>2, <3>3, SearchTyped
  <2> QED BY <1>1, <2>1, <2>2
<1>3. CASE AskContained
  <2> DEFINE said == IF refs.tip[search.ref[1]][search.ref[2]] # Gone THEN "not-contained" ELSE "unknown"
             new == [search EXCEPT !.inBranch[search.env] = said]
  <2>1. new \in SearchState /\ new.env = search.env
    BY <1>0 DEF SearchState
  <2>2. \/ Searches("ahead", search) /\ search.ref \in RefName
        \/ Searches("environment", new)
    BY <1>3 DEF AskContained, ListTypeOK
  <2> HIDE DEF new
  <2> QED BY <1>0, <2>1, <2>2, SearchTyped
<1>4. CASE ReadAhead
  <2> DEFINE far == Further(search.ref[1], search.ref[2], Sha)
             new == [search EXCEPT !.inBranch[search.env] = "contained", !.further[search.env] = far]
  <2>1. search.ref[1] \in RefPlace /\ search.ref[2] \in BranchName
    BY <1>4 DEF ReadAhead, ListTypeOK, RefName
  <2>2. far \in Nat
    BY <2>1, FurtherTyped DEF ListTypeOK
  <2>3. new \in SearchState /\ new.env = search.env
    <3> HIDE DEF far
    <3> QED BY <1>0, <2>2 DEF SearchState
  <2>4. Searches("environment", new) \/ Searches("environment", search)
    BY <1>4 DEF ReadAhead
  <2> HIDE DEF new
  <2> QED BY <1>0, <1>1, <2>3, <2>4, SearchTyped
<1> QED BY <1>2, <1>3, <1>4

LEMMA NextCalls ==
  /\ DOMAIN NextCall = {"remote", "default", "resolve", "local", "merged", "preferred",
                        "candidates", "count", "log", "contains", "ahead"}
  /\ NextCall["remote"] = "default" /\ NextCall["default"] = "refs"
  /\ NextCall["resolve"] = "local" /\ NextCall["local"] = "refs"
  /\ NextCall["merged"] = "worktrees" /\ NextCall["preferred"] = "candidates"
  /\ NextCall["candidates"] = "candidates" /\ NextCall["count"] = "candidates"
  /\ NextCall["log"] = "environment" /\ NextCall["contains"] = "environment"
  /\ NextCall["ahead"] = "environment"
BY DEF NextCall

LEMMA PassedTyped ==
  ASSUME ListTypeOK, Read, CallPassedOver
  PROVE  ListTypeOK'
<1>1. listing \in ListingState /\ search \in SearchState /\ listEvents \in 0..MaxListEvents
  BY DEF ListTypeOK
<1>2. NextCall[listing.at] \in Call
  BY NextCalls DEF CallPassedOver, Call
<1>3. listing' = [listing EXCEPT !.at = NextCall[listing.at], !.disturbed = TRUE]
  BY DEF CallPassedOver
<1>4. listing' \in ListingState /\ listing'.at = NextCall[listing.at]
  BY <1>1, <1>2, <1>3 DEF ListingState
<1>5. ASSUME NEW n PROVE [search EXCEPT !.left = search.left \ {n}] \in SearchState
  BY <1>1 DEF SearchState
<1>6. search' \in SearchState /\ search'.env = search.env
  BY <1>1, <1>5 DEF CallPassedOver, SearchState
<1>7. listEvents < MaxListEvents /\ listEvents' = listEvents + 1
  BY DEF CallPassedOver
<1>8. listEvents' \in 0..MaxListEvents
  BY <1>1, <1>7, BoundTyped
<1>9. /\ NextCall[listing.at] \notin {"preferred", "count", "log", "contains", "ahead"}
      /\ NextCall[listing.at] = "candidates" => listing.at \in {"preferred", "candidates", "count"}
  BY NextCalls DEF CallPassedOver
<1> QED BY <1>4, <1>6, <1>8, <1>9 DEF CallPassedOver, ListTypeOK

LEMMA ChangedTyped ==
  ASSUME ListTypeOK, OthersStep
  PROVE  ListTypeOK'
<1>0. refs \in RefsState
  BY DEF ListTypeOK
<1>1. ASSUME NEW p \in RefPlace, NEW n \in BranchName, NEW h \in Reach \cup {Gone}, OthersMove(p, n, h)
      PROVE  ListTypeOK'
  <2> DEFINE tip == [refs.tip EXCEPT ![p][n] = h]
  <2>1. tip \in Tips
    BY <1>0 DEF RefsState, Tips
  <2>2. refs.objects \cup ({h} \ {Gone}) \subseteq Reach
    BY <1>0 DEF RefsState
  <2>3. [refs EXCEPT !.tip[p][n] = h, !.objects = refs.objects \cup ({h} \ {Gone})] \in RefsState
    BY <1>0, <2>1, <2>2 DEF RefsState
  <2> QED BY <1>1, <2>3, OthersTyped DEF OthersMove
<1>2. ASSUME NEW n \in BranchName \cup {""}, OthersSwitch(n)
      PROVE  ListTypeOK'
  BY <1>0, <1>2, OthersTyped DEF RefsState, OthersSwitch
<1>3. CASE OthersConfigure
  <2>1. ASSUME NEW r \in GitRemote, NEW n \in BranchName \cup {""},
               OthersDo([refs EXCEPT !.points[r] = n])
        PROVE  ListTypeOK'
    BY <1>0, <2>1, OthersTyped DEF RefsState
  <2>2. ASSUME NEW n \in BranchName, NEW r \in GitRemote \cup {""},
               OthersDo([refs EXCEPT !.follows[n] = r])
        PROVE  ListTypeOK'
    BY <1>0, <2>2, OthersTyped DEF RefsState
  <2>3. ASSUME NEW w \in SUBSET {n \in BranchName : n # refs.head /\ refs.tip[""][n] # Gone},
               OthersDo([refs EXCEPT !.elsewhere = w])
        PROVE  ListTypeOK'
    BY <1>0, <2>3, OthersTyped DEF RefsState
  <2> QED BY <1>3, <2>1, <2>2, <2>3 DEF OthersConfigure
<1>4. ASSUME NEW r \in GitRemote, OthersRemote(r)
      PROVE  ListTypeOK'
  <2> DEFINE tip == [refs.tip EXCEPT ![r] = [n \in BranchName |-> Gone]]
             out == [refs EXCEPT !.remotes = refs.remotes \ {r}, !.points[r] = "",
                                 !.tip[r] = [n \in BranchName |-> Gone]]
             back == [refs EXCEPT !.remotes = refs.remotes \cup {r}]
  <2>1. tip \in Tips
    BY <1>0 DEF RefsState, Tips, RefPlace
  <2>2. out \in RefsState /\ back \in RefsState
    BY <1>0, <2>1 DEF RefsState
  <2>3. OthersDo(out) \/ OthersDo(back)
    BY <1>4 DEF OthersRemote
  <2> HIDE DEF out, back
  <2> QED BY <2>2, <2>3, OthersTyped
<1> QED BY <1>1, <1>2, <1>3, <1>4 DEF OthersStep

LEMMA OptionsTyped == ListOptions \subseteq GivenState
BY DEF ListOptions, GivenState

\* Every step keeps the types.
LEMMA ListTypesStep ==
  ASSUME ListTypeOK, Read, [ListNext]_listVars
  PROVE  ListTypeOK'
<1>1. ASSUME NEW options \in ListOptions, AskList(options)
      PROVE  ListTypeOK'
  BY <1>1, UnreadTyped, UnfoundTyped, OptionsTyped DEF AskList, NothingRead, ListTypeOK
<1>2. CASE ListShown
  BY <1>2, UnreadTyped, UnfoundTyped, NotAskedTyped DEF ListShown, NothingRead, ListTypeOK
<1>3. CASE ListStep
  BY <1>3, ReadingTyped, DefaultTyped, RefsTyped, BeginTyped, AskedTyped, CountedTyped,
     WeighedTyped, PassedTyped DEF ListStep
<1>4. CASE OthersStep
  BY <1>4, ChangedTyped
<1>5. CASE UNCHANGED listVars
  BY <1>5 DEF listVars, ListTypeOK
<1> QED BY <1>1, <1>2, <1>3, <1>4, <1>5 DEF ListNext


-----------------------------------------------------------------------------
(* What is said of the refs fits what was read.                            *)

\* A step that leaves the default branch and what was read of it alone.
LEMMA ReadKept ==
  ASSUME Read, listing'.at = "answered" \/ (listing.at # "answered" /\ listing'.state = listing.state),
         listing'.known = listing.known, listing'.name = listing.name, listing'.place = listing.place,
         listing'.seen = listing.seen, listing'.against = listing.against,
         listing'.counted = listing.counted, listing'.asked = listing.asked,
         listing'.at \in Early => listing.at \in Early,
         listing'.at = "refs" => listing.at \in Early \cup {"refs"},
         listing'.at \in {"resolve", "local"} => listing.at \in {"resolve", "local"},
         listing'.at = "merged" => listing.at = "merged"
  PROVE  Read'
BY DEF Read

LEMMA ReadBegins ==
  ASSUME listing' = NothingRead \/ listing' = [NothingRead EXCEPT !.at = "idle"]
  PROVE  Read'
<1>1. NothingRead.at = "head" /\ NothingRead.state = "none" /\ ~NothingRead.known /\ ~NothingRead.counted /\ ~NothingRead.asked
  BY DEF NothingRead
<1>2. CASE listing' = NothingRead
  BY <1>1, <1>2 DEF Read
<1>3. CASE listing' = [NothingRead EXCEPT !.at = "idle"]
  BY <1>3 DEF NothingRead, Read
<1> QED BY <1>2, <1>3

LEMMA ReadStep ==
  ASSUME ListTypeOK, Read, [ListNext]_listVars
  PROVE  Read'
<1>0. listing \in ListingState
  BY DEF ListTypeOK
<1>1. CASE ListShown \/ \E options \in ListOptions : AskList(options)
  BY <1>1, ReadBegins DEF ListShown, AskList
<1>2. CASE CallFails \/ ReadHead \/ ReadBorn \/ ReadRemotes \/ ReadRemote \/ GiveList
  BY <1>0, <1>2, ReadKept
     DEF CallFails, ReadHead, ReadBorn, ReadRemotes, ReadRemote, GiveList, GitTells, ListingState, Early
<1>3. CASE ReadDefault
  <2>1. listing.at = "default" /\ ~listing.known /\ ~listing.counted /\ ~listing.asked
    BY <1>3 DEF ReadDefault, Read, Early
  <2>2. given.default \in BranchName \cup {""} /\ (listing.remote # "" => listing.remote \in GitRemote)
    BY DEF ListTypeOK, GivenState, ListingState, RefPlace
  <2>3. listing.remote # "" => refs.points[listing.remote] \in BranchName \cup {""}
    BY <2>2 DEF ListTypeOK, RefsState
  <2>4. \/ /\ given.default # "" /\ listing'.known = listing.known /\ listing'.name = given.default
           /\ listing'.at \in {"resolve", "local"}
        \/ /\ listing.remote # "" /\ refs.points[listing.remote] # ""
           /\ listing'.name = refs.points[listing.remote] /\ listing'.known /\ listing'.at = "refs"
        \/ listing'.known = listing.known /\ listing'.name = listing.name /\ listing'.at = "refs"
    BY <1>0, <1>3 DEF ReadDefault, GitTells, ListingState
  <2>5. /\ listing'.counted = listing.counted /\ listing'.asked = listing.asked
        /\ listing'.state = listing.state
    BY <1>0, <1>3 DEF ReadDefault, GitTells, ListingState
  <2> QED BY <2>1, <2>2, <2>3, <2>4, <2>5 DEF Read, Early
<1>4. CASE ResolveDefault
  BY <1>4, <1>0 DEF ResolveDefault, Read, Early, GitTells, ListingState
<1>5. CASE ReadRefs
  <2>1. listing.at = "refs" /\ ~listing.counted /\ ~listing.asked
    BY <1>5 DEF ReadRefs, Read
  <2>2. listing'.at \in {"worktrees", "answered", "merged"} /\ listing'.name = listing.name
        /\ listing'.known = listing.known /\ listing'.asked = listing.asked
        /\ listing'.place = listing.place
    BY <1>0, <1>5 DEF ReadRefs, GitTells, ListingState
  <2>3. /\ listing'.at = "merged" => listing.known /\ ~listing'.counted
        /\ listing'.at # "answered" => listing'.state = listing.state
    BY <1>0, <1>5 DEF ReadRefs, GitTells, ListingState
  <2>4. listing'.counted => listing.known /\ listing'.seen = refs.tip
                            /\ listing'.against = refs.tip[listing.place][listing.name]
    BY <1>0, <1>5, <2>1 DEF ReadRefs, GitTells, ListingState
  <2> QED BY <2>1, <2>2, <2>3, <2>4 DEF Read, Early
<1>6. CASE ReadMerged
  BY <1>6, <1>0 DEF ReadMerged, Read, GitTells, ListingState, Early
<1>7. CASE ReadWorktrees
  BY <1>0, <1>7, ReadKept DEF ReadWorktrees, ListingState, Early
<1>8. ASSUME NEW next \in {"environment", "preferred", "candidates", "count", "log", "contains", "ahead"},
             NEW new, Searches(next, new), listing.at # "answered"
      PROVE  Read'
  BY <1>0, <1>8, ReadKept DEF Searches, ListingState, Early
<1>9. ASSUME NEW e \in EnvName, SearchBegin(e)
      PROVE  Read'
  BY <1>8, <1>9 DEF SearchBegin
<1>10. ASSUME NEW n \in BranchName, AskCandidate(n)
       PROVE  Read'
  BY <1>8, <1>10 DEF AskCandidate
<1>11. CASE AskPreferred \/ CountCandidate \/ CandidatesDone
  BY <1>8, <1>11 DEF AskPreferred, CountCandidate, CandidatesDone
<1>12. CASE ReadLog \/ AskContained \/ ReadAhead
  BY <1>8, <1>12 DEF ReadLog, AskContained, ReadAhead
<1>13. CASE CallPassedOver
  BY <1>0, <1>13, NextCalls, ReadKept DEF CallPassedOver, ListingState, Early
<1>14. ASSUME NEW new, OthersDo(new)
       PROVE  Read'
  BY <1>0, <1>14, ReadKept DEF OthersDo, ListingState
<1>15. CASE OthersStep
  BY <1>14, <1>15 DEF OthersStep, OthersMove, OthersSwitch, OthersConfigure, OthersRemote
<1>16. CASE UNCHANGED listVars
  BY <1>16 DEF listVars, Read
<1> QED BY <1>1, <1>2, <1>3, <1>4, <1>5, <1>6, <1>7, <1>9, <1>10, <1>11, <1>12, <1>13, <1>15, <1>16
        DEF ListNext, ListStep


-----------------------------------------------------------------------------
(* The search reads the list, and nothing in it changes under its hands.   *)

\* What the list has read of the refs.
LEMMA SameList ==
  ASSUME listing'.seen = listing.seen, listing'.name = listing.name,
         listing'.remote = listing.remote, given' = given
  PROVE  /\ \A n : ThereIs(n)' = ThereIs(n) /\ PreferredPlaces(n)' = PreferredPlaces(n)
         /\ \A e : NameSuggestion(e)' = NameSuggestion(e)
         /\ Candidates' = Candidates
         /\ \A e : BySha(e)' = BySha(e)
         /\ \A e, s : Grounds(e, s)' = Grounds(e, s)
  BY DEF Places, ThereIs, PreferredPlaces, Near, NameSuggestion, Candidates, BySha, Grounds

\* And the repository itself, while nobody moves it.
LEMMA SameRefs ==
  ASSUME listing'.seen = listing.seen, listing'.name = listing.name,
         listing'.remote = listing.remote, given' = given, refs' = refs
  PROVE  /\ \A p, n, sha : Contains(p, n, sha)' = Contains(p, n, sha)
         /\ \A p, n, sha : Further(p, n, sha)' = Further(p, n, sha)
         /\ \A n, sha : With(n, sha)' = With(n, sha) /\ Without(n, sha)' = Without(n, sha)
         /\ \A e, n : SourceFits(e, n)' = SourceFits(e, n)
         /\ \A e, n, said, far : StandFits(e, n, said, far)' <=> StandFits(e, n, said, far)
         /\ \A sha, b, l, gone : BestFits(sha, b, l, gone)' = BestFits(sha, b, l, gone)
<1>1. \A p, n, sha : Contains(p, n, sha)' = Contains(p, n, sha)
  BY DEF Contains
<1>2. \A p, n, sha : Further(p, n, sha)' = Further(p, n, sha)
  BY DEF Further
<1>3. \A n, sha : With(n, sha)' = With(n, sha) /\ Without(n, sha)' = Without(n, sha)
  BY <1>1, SameList DEF With, Without
<1>4. \A n, sha, cs : Fewest(n, sha, cs)' = Fewest(n, sha, cs)
  BY <1>2, <1>3 DEF Fewest
<1>5. \A e, n : SourceFits(e, n)' = SourceFits(e, n)
  BY <1>3, <1>4, SameList DEF SourceFits
<1>6. ASSUME NEW e, NEW n, NEW said, NEW far
      PROVE  StandFits(e, n, said, far)' <=> StandFits(e, n, said, far)
  <2> DEFINE sha == given.deployment[e].sha
  <2>1. sha' = sha /\ refs'.objects = refs.objects
    OBVIOUS
  <2>2. ThereIs(n)' = ThereIs(n)
    BY SameList
  <2>3. With(n, sha)' = With(n, sha) /\ Without(n, sha)' = Without(n, sha)
    BY <1>3, <2>1
  <2>4. \A p : Further(p, n, sha)' = Further(p, n, sha)
    BY <1>2, <2>1
  <2>5. StandFits(e, n, said, far)' <=>
          /\ said = "contained" => \E p \in With(n, sha)' : far = Further(p, n, sha)'
          /\ said = "not-contained" => sha' \in refs'.objects /\ Without(n, sha)' # {}
          /\ said = "unknown" => sha' \notin refs'.objects \/ n = "" \/ ~ThereIs(n)'
    BY DEF StandFits
  <2>6. StandFits(e, n, said, far) <=>
          /\ said = "contained" => \E p \in With(n, sha) : far = Further(p, n, sha)
          /\ said = "not-contained" => sha \in refs.objects /\ Without(n, sha) # {}
          /\ said = "unknown" => sha \notin refs.objects \/ n = "" \/ ~ThereIs(n)
    BY DEF StandFits
  <2> HIDE DEF sha
  <2> QED BY <2>1, <2>2, <2>3, <2>4, <2>5, <2>6
<1>7. \A sha, b, l, gone : BestFits(sha, b, l, gone)' = BestFits(sha, b, l, gone)
  BY <1>2, <1>3 DEF BestFits
<1> QED BY <1>1, <1>2, <1>3, <1>5, <1>6, <1>7


-----------------------------------------------------------------------------
(* What is found is a candidate, or a branch that the deployment names.    *)

\* What a call of the search leaves alone.
LEMMA SearchKeeps ==
  ASSUME ListTypeOK, NEW next, NEW new, Searches(next, new)
  PROVE  /\ listing'.at = next /\ search' = new /\ refs' = refs /\ given' = given
         /\ listing'.seen = listing.seen /\ listing'.name = listing.name
         /\ listing'.remote = listing.remote /\ listing'.place = listing.place
         /\ listing'.state = listing.state /\ listing'.head = listing.head
         /\ listing'.known = listing.known /\ listing'.asked = listing.asked
         /\ listing'.merged = listing.merged /\ listing'.disturbed = listing.disturbed
  BY DEF ListTypeOK, Searches, ListingState

LEMMA LongLivedKept ==
  ASSUME SourcesAreLongLived, given' = given, Candidates' = Candidates,
         \A e \in EnvName :
           search'.suggested[e] \in {"", search.suggested[e], given.deployment[e].ref} \cup Candidates
  PROVE  SourcesAreLongLived'
  BY DEF SourcesAreLongLived

\* A call that leaves the search alone, before it.
LEMMA BeforeSearch ==
  ASSUME Searched, search' = search, listing.at # "answered", ~HasEnvironments, ~HasEnvironments'
  PROVE  Searched'
BY DEF Searched, HasEnvironments, Finding, Weighing

LEMMA NothingSearched ==
  ASSUME search' = NothingFound, listing'.at \in {"head", "idle"}
  PROVE  Searched'
BY DEF Searched, HasEnvironments, ListGiven, Finding, Weighing

LEMMA LoadSearched ==
  ASSUME ListTypeOK, Searched,
         \/ CallFails \/ ReadHead \/ ReadBorn \/ ReadRemotes \/ ReadRemote \/ ReadDefault
         \/ ResolveDefault \/ ReadRefs \/ ReadMerged
  PROVE  Searched'
<1> DEFINE before == Early \cup {"refs", "merged", "worktrees"}
           still  == listing'.at \in before \/ (listing'.at = "answered" /\ listing'.state # "ok")
<1>0. listing \in ListingState
  BY DEF ListTypeOK
<1>1. listing.at \in before /\ search' = search
  BY DEF CallFails, ReadHead, ReadBorn, ReadRemotes, ReadRemote, ReadDefault, ResolveDefault, ReadRefs,
         ReadMerged, GitTells, Early
<1>2. CASE CallFails \/ ReadHead \/ ReadBorn
  <2>1. still
    BY <1>0, <1>2 DEF CallFails, ReadHead, ReadBorn, GitTells, ListingState, Early
  <2> QED BY <1>1, <2>1, BeforeSearch DEF HasEnvironments, ListGiven, Early, Finding, Weighing
<1>3. CASE ReadRemotes \/ ReadRemote \/ ReadDefault
  <2>1. still
    BY <1>0, <1>3 DEF ReadRemotes, ReadRemote, ReadDefault, GitTells, ListingState, Early
  <2> QED BY <1>1, <2>1, BeforeSearch DEF HasEnvironments, ListGiven, Early, Finding, Weighing
<1>4. CASE ResolveDefault \/ ReadMerged
  <2>1. still
    BY <1>0, <1>4 DEF ResolveDefault, ReadMerged, GitTells, ListingState, Early
  <2> QED BY <1>1, <2>1, BeforeSearch DEF HasEnvironments, ListGiven, Early, Finding, Weighing
<1>5. CASE ReadRefs
  <2>1. still
    BY <1>0, <1>5 DEF ReadRefs, GitTells, ListingState, Early
  <2> QED BY <1>1, <2>1, BeforeSearch DEF HasEnvironments, ListGiven, Early, Finding, Weighing
<1> QED BY <1>2, <1>3, <1>4, <1>5

\* At a call of the search the branches found are long-lived and its environment waits no more.
LEMMA AtSearch ==
  ASSUME Searched, listing.at \in {"environment"} \cup Finding \cup Weighing
  PROVE  HasEnvironments /\ SourcesAreLongLived /\ search.env \notin search.waiting
BY DEF Searched, HasEnvironments, Finding, Weighing

LEMMA SearchedFound ==
  ASSUME ListTypeOK, Searched,
         \/ \E e \in EnvName : SearchBegin(e)
         \/ AskPreferred \/ (\E n \in BranchName : AskCandidate(n)) \/ CountCandidate
         \/ CandidatesDone
  PROVE  Searched'
<1>0. search \in SearchState /\ given \in GivenState
  BY DEF ListTypeOK
<1>1. ASSUME NEW next, NEW new, Searches(next, new)
      PROVE  /\ listing'.at = next /\ search' = new /\ given' = given
             /\ Candidates' = Candidates
             /\ \A e : NameSuggestion(e)' = NameSuggestion(e)
  BY <1>1, SearchKeeps, SameList
<1>2. ASSUME NEW next \in {"environment", "log", "contains", "ahead"}, NEW new, Searches(next, new),
             new.env \notin new.waiting, SourcesAreLongLived,
             \A e \in EnvName :
               new.suggested[e] \in {"", search.suggested[e], given.deployment[e].ref} \cup Candidates
      PROVE  Searched'
  BY <1>1, <1>2, LongLivedKept DEF Searched, HasEnvironments, ListGiven, Finding, Weighing
<1>3. ASSUME NEW next \in Finding, NEW new, Searches(next, new),
             new.env \notin new.waiting, SourcesAreLongLived, new.suggested = search.suggested,
             new.left \subseteq Candidates, new.best \in {""} \cup Candidates,
             next = "count" => new.ref[2] \in new.left,
             next = "preferred" => NameSuggestion(new.env) # ""
      PROVE  Searched'
  BY <1>1, <1>3, LongLivedKept DEF Searched, HasEnvironments, ListGiven, Finding, Weighing
<1>4. ASSUME NEW e \in EnvName, SearchBegin(e)
      PROVE  Searched'
  <2> DEFINE deployment == given.deployment[e]
             new == [search EXCEPT !.waiting = search.waiting \ {e}, !.env = e, !.best = "",
                                   !.least = 0, !.left = Candidates]
             named == [new EXCEPT !.suggested[e] = deployment.ref]
             next == IF NameSuggestion(e) # "" THEN "preferred" ELSE "candidates"
  <2>0. SourcesAreLongLived
    BY <1>4, AtSearch DEF SearchBegin
  <2>1. /\ new.env = e /\ new.waiting = search.waiting \ {e} /\ new.best = ""
        /\ new.left = Candidates /\ new.suggested = search.suggested
    BY <1>0 DEF SearchState
  <2>2. /\ named.env = e /\ named.waiting = search.waiting \ {e}
        /\ \A f \in EnvName : named.suggested[f] \in {search.suggested[f], given.deployment[f].ref}
    BY <1>0 DEF SearchState
  <2>3. next \in Finding /\ (next = "preferred" => NameSuggestion(e) # "") /\ next # "count"
    BY DEF Finding
  <2>4. Searches("log", named) \/ Searches("log", new) \/ Searches(next, new)
    BY <1>4 DEF SearchBegin
  <2> HIDE DEF new, named, next
  <2>5. CASE Searches("log", named)
    BY <1>2, <2>0, <2>2, <2>5
  <2>6. CASE Searches("log", new)
    BY <1>2, <2>0, <2>1, <2>6
  <2>7. CASE Searches(next, new)
    BY <1>3, <2>0, <2>1, <2>3, <2>7
  <2> QED BY <2>4, <2>5, <2>6, <2>7
<1>5. ASSUME listing.at \in Finding, NEW branch \in {""} \cup Candidates, Searches("log", Found(branch))
      PROVE  Searched'
  <2>1. SourcesAreLongLived /\ search.env \notin search.waiting
    BY <1>5, AtSearch
  <2>2. Found(branch).env = search.env /\ Found(branch).waiting = search.waiting
    BY <1>0 DEF Found, SearchState
  <2>3. \A f \in EnvName : Found(branch).suggested[f] \in {search.suggested[f], branch}
    BY <1>0 DEF Found, SearchState
  <2> QED BY <1>2, <1>5, <2>1, <2>2, <2>3
<1>6. ASSUME listing.at \in Finding, NEW next \in {"candidates", "count"}, NEW new, Searches(next, new),
             new.env = search.env, new.waiting = search.waiting, new.suggested = search.suggested,
             new.left \subseteq search.left, new.best \in {search.best} \cup search.left,
             next = "count" => new.ref[2] \in new.left
      PROVE  Searched'
  BY <1>6, AtSearch, <1>3 DEF Searched, Finding
<1>7. CASE AskPreferred
  BY <1>7, <1>5, <1>6, NearIsCandidate DEF AskPreferred, Finding
<1>8. ASSUME NEW n \in BranchName, AskCandidate(n)
      PROVE  Searched'
  <2>1. listing.at \in Finding /\ n \in search.left
    BY <1>8 DEF AskCandidate, Finding
  <2>2. PICK p \in PreferredPlaces(n) :
          \/ Searches("count", [search EXCEPT !.ref = <<p, n>>])
          \/ Searches("candidates", [search EXCEPT !.left = search.left \ {n}])
    BY <1>8 DEF AskCandidate
  <2>3. CASE Searches("count", [search EXCEPT !.ref = <<p, n>>])
    <3> DEFINE new == [search EXCEPT !.ref = <<p, n>>]
    <3>1. /\ new.env = search.env /\ new.waiting = search.waiting /\ new.suggested = search.suggested
          /\ new.left = search.left /\ new.best = search.best /\ new.ref[2] = n
      BY <1>0 DEF SearchState
    <3>2. Searches("count", new)
      BY <2>3
    <3> HIDE DEF new
    <3> QED BY <1>6, <2>1, <3>1, <3>2
  <2>4. CASE Searches("candidates", [search EXCEPT !.left = search.left \ {n}])
    <3> DEFINE new == [search EXCEPT !.left = search.left \ {n}]
    <3>1. /\ new.env = search.env /\ new.waiting = search.waiting /\ new.suggested = search.suggested
          /\ new.left \subseteq search.left /\ new.best = search.best
      BY <1>0 DEF SearchState
    <3>2. Searches("candidates", new)
      BY <2>4
    <3> HIDE DEF new
    <3> QED BY <1>6, <2>1, <3>1, <3>2
  <2> QED BY <2>2, <2>3, <2>4
<1>9. CASE CountCandidate
  <2> DEFINE p == search.ref[1]  n == search.ref[2]  far == Further(p, n, Sha)
             tried == [search EXCEPT !.left = search.left \ {n}]
             better == [tried EXCEPT !.best = n, !.least = far]
  <2>1. listing.at \in Finding /\ n \in search.left
    BY <1>9 DEF CountCandidate, Finding, Searched
  <2>2. /\ tried.env = search.env /\ tried.waiting = search.waiting /\ tried.best = search.best
        /\ tried.suggested = search.suggested /\ tried.left \subseteq search.left
    BY <1>0 DEF SearchState
  <2>3. /\ better.env = search.env /\ better.waiting = search.waiting /\ better.best = n
        /\ better.suggested = search.suggested /\ better.left \subseteq search.left
    <3> HIDE DEF n, far
    <3> QED BY <1>0 DEF SearchState
  <2>4. Searches("candidates", better) \/ Searches("candidates", tried)
    BY <1>9 DEF CountCandidate
  <2> HIDE DEF tried, better, n
  <2> QED BY <1>6, <2>1, <2>2, <2>3, <2>4
<1>10. CASE CandidatesDone
  BY <1>10, <1>5 DEF CandidatesDone, Finding, Searched
<1> QED BY <1>4, <1>7, <1>8, <1>9, <1>10

LEMMA SearchedWeighed ==
  ASSUME ListTypeOK, Searched, ReadLog \/ AskContained \/ ReadAhead \/ GiveList
  PROVE  Searched'
<1>0. search \in SearchState /\ listing \in ListingState
  BY DEF ListTypeOK
<1>1. SourcesAreLongLived /\ search.env \notin search.waiting
  BY AtSearch DEF ReadLog, AskContained, ReadAhead, GiveList, Weighing
<1>2. ASSUME NEW next \in {"environment", "contains", "ahead"}, NEW new, Searches(next, new),
             new.env = search.env, new.waiting = search.waiting, new.suggested = search.suggested
      PROVE  Searched'
  BY <1>2, SearchKeeps, SameList, <1>1, LongLivedKept DEF Searched, HasEnvironments, ListGiven, Finding, Weighing
<1>3. CASE ReadLog
  <2>1. ASSUME NEW p, Searches("contains", [search EXCEPT !.ref = <<p, BranchOf(search.env)>>])
        PROVE  Searched'
    <3> DEFINE new == [search EXCEPT !.ref = <<p, BranchOf(search.env)>>]
    <3>1. /\ new.env = search.env /\ new.waiting = search.waiting /\ new.suggested = search.suggested
      BY <1>0 DEF SearchState
    <3>2. Searches("contains", new)
      BY <2>1
    <3> HIDE DEF new
    <3> QED BY <1>2, <3>1, <3>2
  <2> QED BY <1>2, <1>3, <2>1 DEF ReadLog
<1>4. CASE AskContained
  <2> DEFINE said == IF refs.tip[search.ref[1]][search.ref[2]] # Gone THEN "not-contained" ELSE "unknown"
             new == [search EXCEPT !.inBranch[search.env] = said]
  <2>1. new.env = search.env /\ new.waiting = search.waiting /\ new.suggested = search.suggested
    BY <1>0 DEF SearchState
  <2>2. Searches("ahead", search) \/ Searches("environment", new)
    BY <1>4 DEF AskContained
  <2> HIDE DEF new
  <2> QED BY <1>2, <2>1, <2>2
<1>5. CASE ReadAhead
  <2> DEFINE far == Further(search.ref[1], search.ref[2], Sha)
             new == [search EXCEPT !.inBranch[search.env] = "contained", !.further[search.env] = far]
  <2>1. new.env = search.env /\ new.waiting = search.waiting /\ new.suggested = search.suggested
    BY <1>0 DEF SearchState
  <2>2. Searches("environment", new) \/ Searches("environment", search)
    BY <1>5 DEF ReadAhead
  <2> HIDE DEF new
  <2> QED BY <1>2, <2>1, <2>2
<1>6. CASE GiveList
  BY <1>0, <1>6, SameList, <1>1, LongLivedKept DEF GiveList, GitTells, ListingState, Searched, HasEnvironments, ListGiven,
     Finding, Weighing
<1> QED BY <1>3, <1>4, <1>5, <1>6

LEMMA SearchedStep ==
  ASSUME ListTypeOK, Searched, [ListNext]_listVars
  PROVE  Searched'
<1>0. listing \in ListingState /\ search \in SearchState
  BY DEF ListTypeOK
<1>1. CASE ListShown \/ \E options \in ListOptions : AskList(options)
  <2>1. NothingRead.at = "head" /\ [NothingRead EXCEPT !.at = "idle"].at = "idle"
    BY DEF NothingRead
  <2>2. listing'.at \in {"head", "idle"} /\ search' = NothingFound
    BY <1>1, <2>1 DEF ListShown, AskList
  <2> QED BY <2>2, NothingSearched
<1>2. CASE ReadWorktrees
  <2>1. search = NothingFound
    BY <1>2 DEF ReadWorktrees, Searched, HasEnvironments, ListGiven, Finding, Weighing
  <2>2. /\ listing'.at = "environment" /\ listing'.seen = listing.seen /\ listing'.name = listing.name
        /\ listing'.remote = listing.remote /\ given' = given
    BY <1>0, <1>2 DEF ReadWorktrees, ListingState
  <2>3. /\ search'.env = "" /\ search'.suggested = [e \in EnvName |-> ""]
        /\ search'.waiting \subseteq EnvName
    BY <1>2, <2>1 DEF ReadWorktrees, NothingFound
  <2>4. SourcesAreLongLived'
    BY <2>3 DEF SourcesAreLongLived
  <2>5. "" \notin EnvName
    BY ListAssumption
  <2> QED BY <2>2, <2>3, <2>4, <2>5 DEF Searched, HasEnvironments, ListGiven, Finding, Weighing
<1>3. CASE CallPassedOver
  <2>1. /\ listing'.at = NextCall[listing.at] /\ listing'.state = listing.state
        /\ listing'.seen = listing.seen /\ listing'.name = listing.name
        /\ listing'.remote = listing.remote /\ given' = given
    BY <1>0, <1>3 DEF CallPassedOver, ListingState
  <2>2. /\ search'.env = search.env /\ search'.waiting = search.waiting /\ search'.best = search.best
        /\ search'.suggested = search.suggested /\ search'.left \subseteq search.left
    BY <1>0, <1>3 DEF SearchState, CallPassedOver
  <2>3. Candidates' = Candidates
    BY <2>1, SameList
  <2>4. CASE listing.at \in {"remote", "default", "resolve", "local", "merged"}
    BY <1>3, <2>1, <2>4, NextCalls, BeforeSearch DEF CallPassedOver, HasEnvironments, ListGiven, Finding, Weighing
  <2>5. CASE listing.at \in Finding \cup Weighing
    BY <2>1, <2>5, NextCalls, AtSearch, <2>2, <2>3, LongLivedKept DEF Finding, Weighing, Searched, HasEnvironments, ListGiven
  <2> QED BY <1>3, <2>4, <2>5, NextCalls DEF CallPassedOver, Finding, Weighing
<1>4. ASSUME NEW new, OthersDo(new)
      PROVE  Searched'
  BY <1>0, <1>4, SameList, LongLivedKept DEF OthersDo, ListingState, HasEnvironments, ListGiven, Searched
<1>5. CASE OthersStep
  BY <1>4, <1>5 DEF OthersStep, OthersMove, OthersSwitch, OthersConfigure, OthersRemote
<1>6. CASE UNCHANGED listVars
  BY <1>6, SameList DEF listVars, SourcesAreLongLived, Searched, HasEnvironments, ListGiven
<1> QED BY <1>1, <1>2, <1>3, <1>5, <1>6, LoadSearched, SearchedFound, SearchedWeighed
        DEF ListNext, ListStep


-----------------------------------------------------------------------------
(* What the list heard is so while nobody disturbs it.                     *)

\* A step that leaves what was heard alone and says nothing new of it.
LEMMA HeardKept ==
  ASSUME Heard, refs' = refs,
         listing'.head = listing.head, listing'.state = listing.state, listing'.seen = listing.seen,
         listing'.known = listing.known, listing'.place = listing.place, listing'.name = listing.name,
         listing'.remote = listing.remote, listing'.asked = listing.asked,
         listing'.merged = listing.merged,
         listing'.at \notin {"idle", "head"} => listing.at \notin {"idle", "head"},
         HasRefs' => HasRefs,
         listing'.at = "refs" => listing.at = "refs" \/ ~listing.known,
         listing'.at = "answered" => listing.at = "answered" \/ listing.state # "error"
  PROVE  Heard'
  BY DEF Tip, DefaultGone, Heard

\* Before the refs are read only HEAD has been heard of.
LEMMA HeardEarly ==
  ASSUME listing'.at \in Early, listing'.at \notin {"idle", "head"} /\ listing'.state # "failed" =>
                                   listing'.head = refs'.head
  PROVE  Heard'
BY DEF Heard, HasRefs, ListGiven, Early, Finding, Weighing

LEMMA HeardDefault ==
  ASSUME ListTypeOK, Read, Heard, ReadDefault \/ ResolveDefault
  PROVE  Heard'
<1>0. /\ listing \in ListingState /\ refs' = refs
      /\ listing.at \in Early /\ listing.at \notin {"idle", "head"} /\ ~listing.known
  BY DEF ListTypeOK, ReadDefault, ResolveDefault, GitTells, Early, Read
<1>1. listing.state # "failed" => listing.head = refs.head
  BY <1>0 DEF Heard
<1>2. listing'.state = listing.state /\ listing'.head = listing.head /\ listing'.asked = listing.asked
  BY <1>0 DEF ReadDefault, ResolveDefault, GitTells, ListingState
<1>3. listing'.at \in {"resolve", "local", "refs"}
  BY <1>0 DEF ReadDefault, ResolveDefault, GitTells, ListingState
<1>4. CASE listing'.at # "refs"
  BY <1>0, <1>1, <1>2, <1>3, <1>4, HeardEarly DEF Early
<1>5. CASE listing'.at = "refs"
  <2>1. listing'.known =>
          \/ refs.tip[listing'.place][listing'.name] # Gone
          \/ listing'.remote \in GitRemote /\ refs.points[listing'.remote] = listing'.name
                                           /\ listing'.place = listing'.remote
    <3>1. CASE ReadDefault
      <4>1. listing.remote # "" => listing.remote \in GitRemote
        BY <1>0 DEF ListingState, RefPlace
      <4>2. \/ listing'.at \in {"resolve", "local"}
            \/ /\ listing.remote # "" /\ listing'.name = refs.points[listing.remote]
               /\ listing'.place = listing.remote /\ listing'.remote = listing.remote
            \/ listing'.known = listing.known
        BY <1>0, <3>1 DEF ReadDefault, GitTells, ListingState
      <4> QED BY <1>0, <1>5, <4>1, <4>2
    <3>2. CASE ResolveDefault
      BY <1>0, <3>2 DEF ResolveDefault, GitTells, ListingState
    <3> QED BY <3>1, <3>2
  <2>2. ~HasRefs'
    BY <1>5 DEF HasRefs, ListGiven, Finding, Weighing
  <2> QED BY <1>0, <1>1, <1>2, <1>5, <2>1, <2>2 DEF Heard
<1> QED BY <1>4, <1>5

LEMMA HeardRefs ==
  ASSUME ListTypeOK, Read, Heard, ReadRefs
  PROVE  Heard'
<1>0. /\ listing \in ListingState /\ listing.at = "refs" /\ ~listing.asked /\ refs' = refs
      /\ listing.state = "none"
  BY DEF ListTypeOK, ReadRefs, GitTells, Read
<1>1. listing.state # "failed" => listing.head = refs.head
  BY <1>0 DEF Heard
<1>2. listing'.head = listing.head /\ ~listing'.asked
  BY <1>0 DEF ReadRefs, GitTells, ListingState
<1>3. CASE listing'.at # "answered"
  BY <1>0, <1>3, <1>1, <1>2 DEF ReadRefs, GitTells, ListingState, Heard
<1>4. CASE listing'.at = "answered"
  <2>1. /\ listing.known /\ refs.tip[listing.place][listing.name] = Gone
        /\ listing' = [listing EXCEPT !.state = "error", !.at = "answered"]
    BY <1>0, <1>4 DEF ReadRefs, GitTells, ListingState
  <2>2. listing.name \in BranchName
    BY <2>1 DEF Read
  <2>3. listing.name # ""
    BY <2>2, ListAssumption
  <2>4. listing'.state = "error" /\ listing'.remote = listing.remote
    BY <1>0, <2>1 DEF ListingState
  <2>5. DefaultGone'
    BY <1>0, <2>1, <2>4, <2>3 DEF Heard, DefaultGone
  <2>6. ~HasRefs'
    BY <1>4, <2>4 DEF HasRefs, ListGiven, Finding, Weighing
  <2> QED BY <1>0, <1>1, <1>2, <1>4, <2>4, <2>5, <2>6 DEF Heard
<1> QED BY <1>3, <1>4

LEMMA HeardMerged ==
  ASSUME ListTypeOK, Read, Heard, ReadMerged
  PROVE  Heard'
  BY DEF ListTypeOK, ReadMerged, GitTells, Heard, HasRefs, ListingState, Tip

LEMMA HeardLoad ==
  ASSUME ListTypeOK, Read, Heard,
         CallFails \/ ReadHead \/ ReadBorn \/ ReadRemotes \/ ReadRemote \/ ReadWorktrees
  PROVE  Heard'
<1>0. listing \in ListingState
  BY DEF ListTypeOK
<1>1. CASE CallFails
  BY <1>0, <1>1 DEF CallFails, GitTells, ListingState, Heard, HasRefs, ListGiven, Finding, Weighing
<1>2. CASE ReadHead
  BY <1>0, <1>2, HeardEarly DEF ReadHead, GitTells, ListingState, Early
<1>3. CASE ReadBorn \/ ReadRemotes \/ ReadRemote
  BY <1>0, <1>3, HeardEarly DEF ReadBorn, ReadRemotes, ReadRemote, GitTells, ListingState, Heard, Early
<1>4. CASE ReadWorktrees
  BY <1>0, <1>4, HeardKept DEF ReadWorktrees, ListingState, HasRefs
<1> QED BY <1>1, <1>2, <1>3, <1>4

\* The calls of the search move on and leave what was heard.
LEMMA HeardSearch ==
  ASSUME ListTypeOK, Heard, HasEnvironments, NEW next, NEW new, Searches(next, new),
         next \in {"environment"} \cup Finding \cup Weighing, listing.at # "answered"
  PROVE  Heard'
  BY SearchKeeps, HeardKept DEF HasRefs, HasEnvironments, ListGiven, Finding, Weighing


-----------------------------------------------------------------------------
(* What the search has found is so while nobody disturbs it.               *)

\* The places where a branch is looked for, and the commits there.
LEMMA Looked ==
  ASSUME NEW n, NEW p \in PreferredPlaces(n), NEW sha
  PROVE  IF Contains(p, n, sha) THEN p \in With(n, sha) ELSE p \in Without(n, sha)
BY DEF With, Without

\* Where the search looks for a branch there is one.
LEMMA LookedThere ==
  ASSUME HasRefs, Heard, NEW n, NEW p \in PreferredPlaces(n)
  PROVE  refs.tip[p][n] # Gone
BY PlacesTyped DEF Heard, Places

\* An environment the step does not weigh keeps what was found for it.
LEMMA SettledKept ==
  ASSUME listing'.seen = listing.seen, listing'.name = listing.name,
         listing'.remote = listing.remote, given' = given, refs' = refs,
         NEW e, Settled(e), search'.suggested[e] = search.suggested[e],
         search'.inBranch[e] = search.inBranch[e], search'.further[e] = search.further[e]
  PROVE  Settled(e)'
  BY SameRefs, SameList DEF Settled, Weighed, SourceRight, BranchOf, StandRight


\* The environments a step does not weigh wait or are settled as before.
LEMMA WaitsKept ==
  ASSUME Waits, HasEnvironments,
         listing'.seen = listing.seen, listing'.name = listing.name,
         listing'.remote = listing.remote, given' = given, refs' = refs,
         NEW w, search'.waiting = search.waiting \ {w},
         \A e \in EnvName : e # w =>
           /\ ~InHand(e) /\ search'.suggested[e] = search.suggested[e]
           /\ search'.inBranch[e] = search.inBranch[e] /\ search'.further[e] = search.further[e],
         w \in EnvName => InHand(w)' \/ Settled(w)',
         \A e \in EnvName : InHand(e)' =>
           /\ e = w /\ search'.inBranch[e] = "unknown"
           /\ listing'.at \in Finding => search'.suggested[e] = ""
  PROVE  Waits'
<1>1. ASSUME NEW e \in EnvName
      PROVE  \/ given'.deployment[e] = NoDeployment \/ e \in search'.waiting
             \/ InHand(e)' \/ Settled(e)'
  <2>1. CASE e # w
    BY <2>1, SettledKept DEF Waits
  <2> QED BY <2>1
<1>2. \A e \in EnvName : e \in search'.waiting \/ InHand(e)' => search'.inBranch[e] = "unknown"
  BY DEF Waits
<1>3. \A e \in EnvName :
        e \in search'.waiting \/ (InHand(e)' /\ listing'.at \in Finding) => search'.suggested[e] = ""
  BY DEF Waits
<1> QED BY <1>1, <1>2, <1>3 DEF Waits

LEMMA BeginFinds ==
  ASSUME ListTypeOK, Searched, Underway, Waits, NEW e \in EnvName, SearchBegin(e)
  PROVE  Underway' /\ Waits'
<1> DEFINE d == given.deployment[e]
           seen == d.ref \in BranchName /\ ThereIs(d.ref)
           new == [search EXCEPT !.waiting = search.waiting \ {e}, !.env = e, !.best = "",
                                 !.least = 0, !.left = Candidates]
           named == [new EXCEPT !.suggested[e] = d.ref]
           next == IF NameSuggestion(e) # "" THEN "preferred" ELSE "candidates"
<1>0. search \in SearchState /\ listing.at = "environment" /\ e \in search.waiting /\ HasEnvironments
  BY DEF ListTypeOK, SearchBegin, HasEnvironments
<1>1. search.inBranch[e] = "unknown" /\ search.suggested[e] = ""
  BY <1>0 DEF Waits
<1>2. /\ search'.waiting = search.waiting \ {e} /\ search'.env = e /\ search'.best = ""
      /\ search'.left = Candidates /\ search'.inBranch = search.inBranch
      /\ search'.further = search.further
      /\ \A f \in EnvName : f # e => search'.suggested[f] = search.suggested[f]
      /\ \/ seen /\ listing'.at = "log" /\ search'.suggested[e] = d.ref
         \/ ~seen /\ d.sha = Gone /\ listing'.at = "log" /\ search'.suggested[e] = ""
         \/ ~seen /\ d.sha # Gone /\ listing'.at = next /\ search'.suggested[e] = ""
  <2>1. /\ new.waiting = search.waiting \ {e} /\ new.env = e /\ new.best = ""
        /\ new.left = Candidates /\ new.inBranch = search.inBranch
        /\ new.further = search.further /\ new.suggested = search.suggested
    BY <1>0 DEF SearchState
  <2>2. /\ named.waiting = search.waiting \ {e} /\ named.env = e /\ named.best = ""
        /\ named.left = Candidates /\ named.inBranch = search.inBranch
        /\ named.further = search.further
        /\ named.suggested = [search.suggested EXCEPT ![e] = d.ref]
    BY <1>0 DEF SearchState
  <2>3. search.suggested \in [EnvName -> BranchName \cup {""}]
    BY <1>0 DEF SearchState
  <2>4. \/ seen /\ Searches("log", named)
        \/ ~seen /\ d.sha = Gone /\ Searches("log", new)
        \/ ~seen /\ d.sha # Gone /\ Searches(next, new)
    BY DEF SearchBegin
  <2>5. ASSUME NEW at, NEW s, Searches(at, s)
        PROVE  listing'.at = at /\ search' = s
    BY <2>5, SearchKeeps
  <2> HIDE DEF new, named, next, seen
  <2>6. CASE seen /\ Searches("log", named)
    <3>1. listing'.at = "log" /\ search' = named
      BY <2>5, <2>6
    <3> QED BY <1>1, <2>2, <2>3, <2>6, <3>1
  <2>7. CASE ~seen /\ d.sha = Gone /\ Searches("log", new)
    BY <2>5, <2>7, <1>1, <2>1
  <2>8. CASE ~seen /\ d.sha # Gone /\ Searches(next, new)
    BY <2>5, <2>8, <1>1, <2>1
  <2> QED BY <2>4, <2>6, <2>7, <2>8
<1>4. next \in {"preferred", "candidates"} /\ (next = "candidates" => NameSuggestion(e) = "")
  OBVIOUS
<1>5. /\ listing'.seen = listing.seen /\ listing'.name = listing.name
      /\ listing'.remote = listing.remote /\ given' = given /\ refs' = refs
  BY SearchKeeps DEF SearchBegin
<1> HIDE DEF next, seen
<1>6. seen \/ d.sha = Gone <=> ~BySha(e)
  BY DEF BySha, seen
<1>7. Candidates' = Candidates /\ BySha(e)' = BySha(e) /\ NameSuggestion(e)' = NameSuggestion(e)
  BY <1>5, SameList
<1>8. listing'.at \in Finding => BySha(e) /\ (listing'.at = "candidates" => NameSuggestion(e) = "")
  BY <1>2, <1>4, <1>6 DEF Finding
<1>9. listing'.at \in Finding => BestSoFar'
  BY <1>2, <1>7 DEF BestSoFar, BestFits
<1>10. listing'.at \in Weighing => ~BySha(e) /\ Grounds(e, search'.suggested[e])
  BY <1>2, <1>4, <1>6 DEF Grounds, Weighing, seen
<1>11. listing'.at \in Weighing => Weighed(search.env)'
  BY <1>2, <1>5, <1>7, <1>10, SameList DEF Weighed, SourceRight, SourceFits
<1>12. listing'.at \in Finding \cup {"log"} /\ listing'.at # "count"
  BY <1>2, <1>4 DEF Finding
<1>13. Underway'
  BY <1>2, <1>7, <1>8, <1>9, <1>11, <1>12 DEF Underway, Finding
<1>14. Waits'
  BY <1>2, <1>12, <1>0, <1>1, <1>5, WaitsKept DEF InHand, Weighing, Finding
<1> QED BY <1>13, <1>14


\* While an environment is in hand: it does not wait, and no other is in hand.
LEMMA WithinSearch ==
  ASSUME ListTypeOK, Searched, Waits, NEW next, NEW new, Searches(next, new),
         listing.at \in Finding \cup Weighing, next \in Finding \cup Weighing,
         new.env = search.env, new.waiting = search.waiting, new.inBranch = search.inBranch,
         new.further = search.further,
         \A e \in EnvName : e # search.env => new.suggested[e] = search.suggested[e],
         next \in Finding => listing.at \in Finding /\ new.suggested = search.suggested
  PROVE  Waits'
<1> PICK w : w = search.env
  OBVIOUS
<1>0. HasEnvironments /\ w \notin search.waiting /\ search' = new /\ listing'.at = next
  BY SearchKeeps, AtSearch
<1>1. w \in EnvName => InHand(w) /\ InHand(w)'
  BY <1>0 DEF InHand
<1>2. \A e : e # w => ~InHand(e) /\ ~InHand(e)'
  BY <1>0 DEF InHand
<1>3. /\ listing'.seen = listing.seen /\ listing'.name = listing.name
      /\ listing'.remote = listing.remote /\ given' = given /\ refs' = refs
  BY SearchKeeps
<1>4. search'.waiting = search.waiting \ {w}
  BY <1>0
<1>5. w \in EnvName => /\ search.inBranch[w] = "unknown"
                       /\ listing.at \in Finding => search.suggested[w] = ""
  BY <1>0, <1>1 DEF Waits
<1> QED BY <1>0, <1>1, <1>2, <1>3, <1>4, <1>5, WaitsKept

LEMMA PreferredFinds ==
  ASSUME ListTypeOK, Searched, Underway, Waits, AskPreferred
  PROVE  Underway' /\ Waits'
<1> DEFINE n == NameSuggestion(search.env)
<1>0. /\ search \in SearchState /\ listing.at = "preferred" /\ search.env \in EnvName
      /\ n # "" /\ BySha(search.env) /\ BestSoFar
  BY DEF ListTypeOK, AskPreferred, Searched, Underway, Finding
<1>1. PICK p \in PreferredPlaces(n) :
        \/ Contains(p, n, Sha) /\ Searches("log", Found(n))
        \/ ~Contains(p, n, Sha) /\ Searches("candidates", search)
  BY DEF AskPreferred
<1>2. CASE Contains(p, n, Sha) /\ Searches("log", Found(n))
  <2>1. /\ Found(n).env = search.env /\ Found(n).waiting = search.waiting
        /\ Found(n).inBranch = search.inBranch /\ Found(n).further = search.further
        /\ Found(n).suggested = [search.suggested EXCEPT ![search.env] = n]
    BY <1>0 DEF Found, SearchState
  <2>2. search.suggested \in [EnvName -> BranchName \cup {""}]
    BY <1>0 DEF SearchState
  <2>3. /\ search' = Found(n) /\ listing'.at = "log"
        /\ listing'.seen = listing.seen /\ listing'.name = listing.name
        /\ listing'.remote = listing.remote /\ given' = given /\ refs' = refs
    BY <1>2, SearchKeeps
  <2>4. With(n, Sha) # {}
    BY <1>2, Looked
  <2>5. SourceFits(search.env, n)
    BY <1>0, <2>4 DEF SourceFits, Sha
  <2>6. search'.env = search.env /\ search'.suggested[search.env] = n
    BY <1>0, <2>1, <2>2, <2>3
  <2>7. Weighed(search.env)'
    BY <1>0, <2>3, <2>5, <2>6, SameRefs, SameList DEF Weighed, SourceRight, Grounds
  <2>8. Underway'
    BY <2>3, <2>7 DEF Underway, Finding
  <2>9. Waits'
    <3> HIDE DEF n
    <3> QED BY <1>0, <1>2, <2>1, <2>2, WithinSearch DEF Finding, Weighing
  <2> QED BY <2>8, <2>9
<1>3. CASE ~Contains(p, n, Sha) /\ Searches("candidates", search)
  <2>1. /\ search' = search /\ listing'.at = "candidates"
        /\ listing'.seen = listing.seen /\ listing'.name = listing.name
        /\ listing'.remote = listing.remote /\ given' = given /\ refs' = refs
    BY <1>3, SearchKeeps
  <2>2. Without(n, Sha) # {}
    BY <1>3, Looked
  <2>3. Without(NameSuggestion(search.env), Sha)' # {}
    BY <2>1, SameList, <2>2, SameRefs DEF Sha
  <2>4. BySha(search.env)' /\ BestSoFar'
    <3>1. BySha(search.env)' = BySha(search.env)
      BY <2>1, SameList
    <3>2. BestSoFar' = BestSoFar
      BY <2>1, SameRefs, SameList DEF BestSoFar, Sha
    <3> QED BY <1>0, <3>1, <3>2
  <2>5. Underway'
    BY <2>1, <2>3, <2>4 DEF Underway, Finding, Weighing
  <2>6. Waits'
    BY <1>0, <1>3, WithinSearch DEF Finding
  <2> QED BY <2>5, <2>6
<1> QED BY <1>1, <1>2, <1>3

\* The name of the environment in hand keeps its verdict.
LEMMA NameKept ==
  ASSUME Underway, listing.at \in {"candidates", "count"}, listing'.at = "candidates" \/ listing'.at = "count",
         listing'.seen = listing.seen, listing'.name = listing.name,
         listing'.remote = listing.remote, given' = given, refs' = refs, search'.env = search.env
  PROVE  /\ BySha(search.env)'
         /\ NameSuggestion(search.env)' # "" => Without(NameSuggestion(search.env), Sha)' # {}
  BY SameRefs, SameList DEF Underway, Finding, Sha

LEMMA CandidateFinds ==
  ASSUME ListTypeOK, Searched, Underway, Waits, NEW n \in BranchName, AskCandidate(n)
  PROVE  Underway' /\ Waits'
<1>0. /\ search \in SearchState /\ listing.at = "candidates" /\ n \in search.left
      /\ BestSoFar /\ search.left \subseteq Candidates
  BY DEF ListTypeOK, AskCandidate, Underway, Searched, Finding
<1>1. PICK p \in PreferredPlaces(n) :
        \/ Contains(p, n, Sha) /\ Searches("count", [search EXCEPT !.ref = <<p, n>>])
        \/ ~Contains(p, n, Sha) /\ Searches("candidates", [search EXCEPT !.left = search.left \ {n}])
  BY DEF AskCandidate
<1>2. CASE Contains(p, n, Sha) /\ Searches("count", [search EXCEPT !.ref = <<p, n>>])
  <2> DEFINE new == [search EXCEPT !.ref = <<p, n>>]
  <2>1. /\ new.env = search.env /\ new.waiting = search.waiting /\ new.inBranch = search.inBranch
        /\ new.further = search.further /\ new.suggested = search.suggested
        /\ new.left = search.left /\ new.best = search.best /\ new.least = search.least
        /\ new.ref[1] = p /\ new.ref[2] = n
    BY <1>0 DEF SearchState
  <2>2. Searches("count", new)
    BY <1>2
  <2> HIDE DEF new
  <2>3. /\ search' = new /\ listing'.at = "count"
        /\ listing'.seen = listing.seen /\ listing'.name = listing.name
        /\ listing'.remote = listing.remote /\ given' = given /\ refs' = refs
    BY <2>2, SearchKeeps
  <2>4. p \in With(n, Sha)
    BY <1>2, Looked
  <2>5. With(search.ref[2], Sha)' = With(n, Sha)
    BY <2>1, <2>3, SameRefs DEF Sha
  <2>6. BestSoFar'
    BY <1>0, <2>1, <2>3, SameRefs, SameList DEF BestSoFar, Sha
  <2>7. Underway'
    BY <1>0, <2>1, <2>3, <2>4, <2>5, <2>6, NameKept DEF Underway, Weighing
  <2>8. Waits'
    BY <1>0, <2>1, <2>2, WithinSearch DEF Finding
  <2> QED BY <2>7, <2>8
<1>3. CASE ~Contains(p, n, Sha) /\ Searches("candidates", [search EXCEPT !.left = search.left \ {n}])
  <2> DEFINE new == [search EXCEPT !.left = search.left \ {n}]
  <2>1. /\ new.env = search.env /\ new.waiting = search.waiting /\ new.inBranch = search.inBranch
        /\ new.further = search.further /\ new.suggested = search.suggested
        /\ new.left = search.left \ {n} /\ new.best = search.best /\ new.least = search.least
    BY <1>0 DEF SearchState
  <2>2. Searches("candidates", new)
    BY <1>3
  <2> HIDE DEF new
  <2>3. /\ search' = new /\ listing'.at = "candidates"
        /\ listing'.seen = listing.seen /\ listing'.name = listing.name
        /\ listing'.remote = listing.remote /\ given' = given /\ refs' = refs
    BY <2>2, SearchKeeps
  <2>4. Without(n, Sha) # {}
    BY <1>3, Looked
  <2>5. BestFits(Sha, search.best, search.least, Candidates \ new.left)
    BY <2>1, <1>0, <2>4 DEF BestSoFar, BestFits
  <2>6. BestSoFar'
    BY <2>1, <2>3, <2>5, SameRefs, SameList DEF BestSoFar, Sha
  <2>7. Underway'
    BY <1>0, <2>1, <2>3, <2>6, NameKept DEF Underway, Weighing
  <2>8. Waits'
    BY <1>0, <2>1, <2>2, WithinSearch DEF Finding
  <2> QED BY <2>7, <2>8
<1> QED BY <1>1, <1>2, <1>3


\* The fewest commits so far, with the candidate just counted.
LEMMA CountFinds ==
  ASSUME ListTypeOK, Searched, Underway, Waits, CountCandidate
  PROVE  Underway' /\ Waits'
<1> DEFINE p == search.ref[1]  n == search.ref[2]  far == Further(p, n, Sha)
           tried == [search EXCEPT !.left = search.left \ {n}]
           better == [tried EXCEPT !.best = n, !.least = far]
           gone == Candidates \ search.left
<1>0. /\ search \in SearchState /\ listing.at = "count" /\ n \in search.left
      /\ BestSoFar /\ search.left \subseteq Candidates /\ p \in With(n, Sha)
      /\ p \in RefPlace /\ n \in BranchName
  BY DEF ListTypeOK, CountCandidate, Underway, Searched, Finding, RefName
<1>1. /\ tried.env = search.env /\ tried.waiting = search.waiting /\ tried.inBranch = search.inBranch
      /\ tried.further = search.further /\ tried.suggested = search.suggested
      /\ tried.left = search.left \ {n} /\ tried.best = search.best /\ tried.least = search.least
  BY <1>0 DEF SearchState
<1>2. /\ better.env = search.env /\ better.waiting = search.waiting /\ better.inBranch = search.inBranch
      /\ better.further = search.further /\ better.suggested = search.suggested
      /\ better.left = search.left \ {n} /\ better.best = n /\ better.least = far
  <2> HIDE DEF n, far
  <2> QED BY <1>0 DEF SearchState
<1>3. far \in Nat /\ search.least \in Nat
  BY <1>0, FurtherTyped DEF ListTypeOK, SearchState
<1>4. \A m \in BranchName : \A q \in With(m, Sha) : Further(q, m, Sha) \in Nat
  BY FurtherTyped, PlacesTyped DEF With, ListTypeOK
<1>5. "" \notin Candidates /\ n # ""
  BY <1>0, CandidatesTyped, ListAssumption
<1>6. \/ (search.best = "" \/ far < search.least) /\ Searches("candidates", better)
      \/ search.best # "" /\ ~(far < search.least) /\ Searches("candidates", tried)
  <2>1. refs.tip[p][n] # Gone
    BY <1>0 DEF With, Contains
  <2> QED BY <2>1 DEF CountCandidate
<1>7. ASSUME NEW new, Searches("candidates", new), new \in {tried, better},
             BestFits(Sha, new.best, new.least, Candidates \ new.left)
      PROVE  Underway' /\ Waits'
  <2>1. /\ search' = new /\ listing'.at = "candidates"
        /\ listing'.seen = listing.seen /\ listing'.name = listing.name
        /\ listing'.remote = listing.remote /\ given' = given /\ refs' = refs
    BY <1>7, SearchKeeps
  <2>2. /\ new.env = search.env /\ new.waiting = search.waiting /\ new.inBranch = search.inBranch
        /\ new.further = search.further /\ new.suggested = search.suggested
    BY <1>1, <1>2, <1>7
  <2>3. BestSoFar'
    BY <1>7, <2>1, <2>2, SameRefs, SameList DEF BestSoFar, Sha
  <2>4. Underway'
    BY <1>0, <2>1, <2>2, <2>3, NameKept DEF Underway, Weighing
  <2>5. Waits'
    BY <1>0, <1>7, <2>2, WithinSearch DEF Finding
  <2> QED BY <2>4, <2>5
<1>8. \A m \in Candidates \ (search.left \ {n}) : m = n \/ m \in gone
  OBVIOUS
<1> HIDE DEF tried, better, far, gone, n, p
<1>9. CASE (search.best = "" \/ far < search.least) /\ Searches("candidates", better)
  <2>1. ASSUME NEW m \in gone, Without(m, Sha) = {}
        PROVE  \E q \in With(m, Sha) : far <= Further(q, m, Sha)
    <3>1. search.best # "" /\ \E q \in With(m, Sha) : search.least <= Further(q, m, Sha)
      BY <1>0, <2>1 DEF BestSoFar, BestFits, gone
    <3>2. PICK q \in With(m, Sha) : search.least <= Further(q, m, Sha)
      BY <3>1
    <3>3. Further(q, m, Sha) \in Nat
      BY <1>4, <2>1, CandidatesTyped DEF gone
    <3>4. far < search.least
      BY <1>9, <3>1
    <3>5. far <= Further(q, m, Sha)
      BY <1>3, <3>2, <3>3, <3>4
    <3> QED BY <3>5
  <2>2. \E q \in With(n, Sha) : far <= Further(q, n, Sha)
    BY <1>0, <1>3 DEF far
  <2>3. BestFits(Sha, better.best, better.least, Candidates \ better.left)
    <3>1. \A m \in Candidates \ better.left :
             Without(m, Sha) # {} \/ \E q \in With(m, Sha) : far <= Further(q, m, Sha)
      BY <1>2, <1>8, <2>1, <2>2
    <3>2. p \in With(n, Sha) /\ far = Further(p, n, Sha)
      BY <1>0 DEF far
    <3>3. BestFits(Sha, n, far, Candidates \ better.left)
      BY <1>5, <3>1, <3>2 DEF BestFits
    <3> QED BY <1>2, <3>3
  <2> QED BY <1>7, <1>9, <2>3
<1>10. ASSUME search.best # "", ~(far < search.least), Searches("candidates", tried)
       PROVE  Underway' /\ Waits'
  <2>1. search.least <= far
    <3>1. \A a, b \in Nat : ~(a < b) => b <= a
      OBVIOUS
    <3> QED BY <1>3, <1>10, <3>1
  <2>2. \E q \in With(n, Sha) : search.least <= Further(q, n, Sha)
    BY <1>0, <2>1 DEF far
  <2>3. BestFits(Sha, tried.best, tried.least, Candidates \ tried.left)
    BY <1>0, <1>10, <1>8, <2>2, <1>1 DEF BestSoFar, BestFits, gone
  <2> QED BY <1>7, <1>10, <2>3
<1> QED BY <1>6, <1>9, <1>10

\* The candidates are through.
LEMMA CandidatesFind ==
  ASSUME ListTypeOK, Searched, Underway, Waits, CandidatesDone
  PROVE  Underway' /\ Waits'
<1> DEFINE b == search.best  near == NameSuggestion(search.env)
<1>0. /\ search \in SearchState /\ listing.at = "candidates" /\ search.env \in EnvName
      /\ search.left = {} /\ BySha(search.env) /\ BestSoFar
      /\ near # "" => Without(near, Sha) # {}
  BY DEF ListTypeOK, CandidatesDone, Underway, Finding
<1>1. Searches("log", Found(b))
  BY DEF CandidatesDone
<1>2. /\ Found(b).env = search.env /\ Found(b).waiting = search.waiting
      /\ Found(b).inBranch = search.inBranch /\ Found(b).further = search.further
      /\ Found(b).suggested = [search.suggested EXCEPT ![search.env] = b]
  BY <1>0 DEF Found, SearchState
<1>3. search.suggested \in [EnvName -> BranchName \cup {""}]
  BY <1>0 DEF SearchState
<1>4. /\ search' = Found(b) /\ listing'.at = "log"
      /\ listing'.seen = listing.seen /\ listing'.name = listing.name
      /\ listing'.remote = listing.remote /\ given' = given /\ refs' = refs
  BY <1>1, SearchKeeps
<1>5. SourceFits(search.env, b)
  <2>1. b = "" => \A m \in Candidates : Without(m, Sha) # {}
    BY <1>0 DEF BestSoFar, BestFits
  <2>2. b # "" => With(b, Sha) # {} /\ Fewest(b, Sha, Candidates)
    BY <1>0 DEF BestSoFar, BestFits, Fewest
  <2> QED BY <1>0, <2>1, <2>2 DEF SourceFits, Sha
<1>6. search'.env = search.env /\ search'.suggested[search.env] = b
  BY <1>0, <1>2, <1>3, <1>4
<1>7. Weighed(search.env)'
  BY <1>0, <1>4, <1>5, <1>6, SameRefs, SameList DEF Weighed, SourceRight, Grounds
<1>8. Underway'
  BY <1>4, <1>7 DEF Underway, Finding
<1>9. Waits'
  <2> HIDE DEF b
  <2> QED BY <1>0, <1>1, <1>2, <1>3, WithinSearch DEF Finding, Weighing
<1> QED BY <1>8, <1>9


\* The branch of the environment is asked for the commit.
LEMMA LogFinds ==
  ASSUME ListTypeOK, Searched, Underway, Waits, Heard, ReadLog
  PROVE  Underway' /\ Waits'
<1> PICK w : w = search.env
  OBVIOUS
<1> DEFINE n == BranchOf(w)
<1>0. /\ search \in SearchState /\ listing.at = "log" /\ w \in EnvName
      /\ w = search.env /\ Weighed(w) /\ HasEnvironments
  BY AtSearch DEF ListTypeOK, ReadLog, Underway, Weighing
<1>1. \/ /\ Sha \in refs.objects
         /\ \E p \in PreferredPlaces(n) : Searches("contains", [search EXCEPT !.ref = <<p, n>>])
      \/ /\ Sha \notin refs.objects \/ n = "" \/ ~ThereIs(n)
         /\ Searches("environment", search)
  BY <1>0 DEF ReadLog
<1>2. ASSUME NEW p \in PreferredPlaces(n), Sha \in refs.objects,
             Searches("contains", [search EXCEPT !.ref = <<p, n>>])
      PROVE  Underway' /\ Waits'
  <2> DEFINE new == [search EXCEPT !.ref = <<p, n>>]
  <2>1. /\ new.env = search.env /\ new.waiting = search.waiting /\ new.inBranch = search.inBranch
        /\ new.further = search.further /\ new.suggested = search.suggested
        /\ new.ref[1] = p /\ new.ref[2] = n
    <3> HIDE DEF n
    <3> QED BY <1>0 DEF SearchState
  <2>2. Searches("contains", new)
    BY <1>2
  <2> HIDE DEF new
  <2>3. /\ search' = new /\ listing'.at = "contains"
        /\ listing'.seen = listing.seen /\ listing'.name = listing.name
        /\ listing'.remote = listing.remote /\ given' = given /\ refs' = refs
    BY <2>2, SearchKeeps
  <2>4. BranchOf(w)' = n
    BY <2>1, <2>3, SameList DEF BranchOf
  <2>5. BranchOf(search.env)' = n /\ PreferredPlaces(n)' = PreferredPlaces(n) /\ Sha' = Sha
    BY <1>0, <2>1, <2>3, <2>4, SameList DEF Sha
  <2>6. Weighed(w)'
    BY <1>0, <2>1, <2>3, SameRefs, SameList DEF Weighed, SourceRight
  <2>7. Underway'
    BY <1>0, <1>2, <2>1, <2>3, <2>5, <2>6, SameList DEF Underway, Finding
  <2>8. Waits'
    BY <1>0, <2>1, <2>2, WithinSearch DEF Finding, Weighing
  <2> QED BY <2>7, <2>8
<1>3. CASE (Sha \notin refs.objects \/ n = "" \/ ~ThereIs(n)) /\ Searches("environment", search)
  <2>1. /\ search' = search /\ listing'.at = "environment"
        /\ listing'.seen = listing.seen /\ listing'.name = listing.name
        /\ listing'.remote = listing.remote /\ given' = given /\ refs' = refs
    BY <1>3, SearchKeeps
  <2>2. search.inBranch[w] = "unknown" /\ w \notin search.waiting
    BY <1>0, AtSearch DEF Waits, InHand, Weighing
  <2>3. Settled(w)
    BY <1>0, <1>3, <2>2 DEF Settled, StandRight, StandFits, Sha
  <2>4. Settled(w)'
    BY <2>1, <2>3, SettledKept
  <2>5. Underway' /\ \A e : ~InHand(e)'
    BY <2>1 DEF Underway, InHand, Finding, Weighing
  <2>6. \A e : e # w => ~InHand(e)
    BY <1>0 DEF InHand
  <2>7. search'.waiting = search.waiting \ {w}
    BY <2>1, <2>2
  <2>8. Waits'
    BY <1>0, <2>1, <2>4, <2>5, <2>6, <2>7, WaitsKept
  <2> QED BY <2>5, <2>8
<1> QED BY <1>1, <1>2, <1>3

\* An environment is through: what is said of it now stands.
LEMMA ThroughFinds ==
  ASSUME ListTypeOK, Searched, Waits, NEW w, w = search.env, w \in EnvName,
         listing.at \in Weighing, NEW new, Searches("environment", new),
         new.env = search.env, new.waiting = search.waiting, new.suggested = search.suggested,
         \A e \in EnvName : e # w =>
           new.inBranch[e] = search.inBranch[e] /\ new.further[e] = search.further[e],
         Weighed(w), StandFits(w, BranchOf(w), new.inBranch[w], new.further[w])
  PROVE  Underway' /\ Waits'
<1>1. /\ search' = new /\ listing'.at = "environment"
      /\ listing'.seen = listing.seen /\ listing'.name = listing.name
      /\ listing'.remote = listing.remote /\ given' = given /\ refs' = refs
  BY SearchKeeps
<1>2. w \notin search.waiting /\ HasEnvironments
  BY AtSearch
<1>3. BranchOf(w)' = BranchOf(w)
  BY <1>1, SameList DEF BranchOf
<1>4. StandRight(w)'
  BY <1>1, <1>3, SameRefs DEF StandRight
<1>5. Weighed(w)'
  BY <1>1, SameRefs, SameList DEF Weighed, SourceRight
<1>6. Underway' /\ \A e : ~InHand(e)'
  BY <1>1 DEF Underway, InHand, Finding, Weighing
<1>7. \A e : e # w => ~InHand(e)
  BY DEF InHand
<1>8. search'.waiting = search.waiting \ {w}
  BY <1>1, <1>2
<1>9. Settled(w)'
  BY <1>4, <1>5 DEF Settled
<1>10. Waits'
  BY <1>1, <1>2, <1>6, <1>7, <1>8, <1>9, WaitsKept
<1> QED BY <1>6, <1>10

LEMMA ContainedFinds ==
  ASSUME ListTypeOK, Searched, Underway, Waits, Heard, AskContained
  PROVE  Underway' /\ Waits'
<1> PICK w : w = search.env
  OBVIOUS
<1> DEFINE p == search.ref[1]  n == search.ref[2]
           said == IF refs.tip[p][n] # Gone THEN "not-contained" ELSE "unknown"
           new == [search EXCEPT !.inBranch[search.env] = said]
<1>0. /\ search \in SearchState /\ listing.at = "contains" /\ w \in EnvName
      /\ w = search.env /\ Weighed(w)
      /\ n = BranchOf(w) /\ p \in PreferredPlaces(n) /\ Sha \in refs.objects
  BY DEF ListTypeOK, AskContained, Underway, Weighing
<1>1. HasRefs
  BY <1>0 DEF HasRefs, Weighing
<1>2. CASE Contains(p, n, Sha) /\ Searches("ahead", search)
  <2>1. /\ search' = search /\ listing'.at = "ahead"
        /\ listing'.seen = listing.seen /\ listing'.name = listing.name
        /\ listing'.remote = listing.remote /\ given' = given /\ refs' = refs
    BY <1>2, SearchKeeps
  <2>2. p \in With(n, Sha)
    BY <1>0, <1>2, Looked
  <2>3. /\ BranchOf(search.env)' = n /\ Sha' = Sha /\ PreferredPlaces(search.ref[2])' = PreferredPlaces(n)
        /\ With(search.ref[2], Sha)' = With(n, Sha)
    BY <1>0, <2>1, SameList, SameRefs DEF BranchOf, Sha
  <2>4. Weighed(search.env)'
    BY <1>0, <2>1, SameRefs, SameList DEF Weighed, SourceRight
  <2>5. Underway'
    BY <1>0, <2>1, <2>2, <2>3, <2>4 DEF Underway, Finding
  <2>6. Waits'
    BY <1>0, <1>2, WithinSearch DEF Finding, Weighing
  <2> QED BY <2>5, <2>6
<1>3. CASE ~Contains(p, n, Sha) /\ Searches("environment", new)
  <2>1. refs.tip[p][n] # Gone
    BY <1>0, <1>1, LookedThere
  <2>2. /\ new.env = search.env /\ new.waiting = search.waiting /\ new.suggested = search.suggested
        /\ new.further = search.further /\ new.inBranch = [search.inBranch EXCEPT ![search.env] = said]
    BY <1>0 DEF SearchState
  <2>3. search.inBranch \in [EnvName -> {"unknown", "contained", "not-contained"}]
    BY <1>0 DEF SearchState
  <2>4. Without(n, Sha) # {}
    BY <1>0, <1>3, Looked
  <2>5. new.inBranch[w] = "not-contained"
    BY <1>0, <2>1, <2>2, <2>3
  <2>6. StandFits(w, BranchOf(w), new.inBranch[w], new.further[w])
    BY <1>0, <2>4, <2>5 DEF StandFits, Sha
  <2>7. Searches("environment", new)
    BY <1>3
  <2> HIDE DEF new, said
  <2> QED BY <1>0, <2>2, <2>3, <2>6, <2>7, ThroughFinds DEF Weighing
<1>4. \/ Contains(p, n, Sha) /\ Searches("ahead", search)
      \/ ~Contains(p, n, Sha) /\ Searches("environment", new)
  BY DEF AskContained
<1> QED BY <1>2, <1>3, <1>4

LEMMA AheadFinds ==
  ASSUME ListTypeOK, Searched, Underway, Waits, Heard, ReadAhead
  PROVE  Underway' /\ Waits'
<1> PICK w : w = search.env
  OBVIOUS
<1> DEFINE p == search.ref[1]  n == search.ref[2]  far == Further(p, n, Sha)
           new == [search EXCEPT !.inBranch[search.env] = "contained", !.further[search.env] = far]
<1>0. /\ search \in SearchState /\ listing.at = "ahead" /\ w \in EnvName
      /\ w = search.env /\ Weighed(w)
      /\ n = BranchOf(w) /\ p \in With(n, Sha)
  BY DEF ListTypeOK, ReadAhead, Underway, Weighing
<1>1. Searches("environment", new)
  <2>1. refs.tip[p][n] # Gone
    BY <1>0 DEF With, Contains
  <2> QED BY <2>1 DEF ReadAhead
<1>2. /\ new.env = search.env /\ new.waiting = search.waiting /\ new.suggested = search.suggested
      /\ new.inBranch = [search.inBranch EXCEPT ![search.env] = "contained"]
      /\ new.further = [search.further EXCEPT ![search.env] = far]
  <2> HIDE DEF far
  <2> QED BY <1>0 DEF SearchState
<1>3. /\ search.inBranch \in [EnvName -> {"unknown", "contained", "not-contained"}]
      /\ search.further \in [EnvName -> Nat]
  BY <1>0 DEF SearchState
<1> HIDE DEF new
<1>4. new.inBranch[w] = "contained" /\ new.further[w] = far
  <2> HIDE DEF far
  <2> QED BY <1>0, <1>2, <1>3
<1>5. StandFits(w, BranchOf(w), new.inBranch[w], new.further[w])
  BY <1>0, <1>4 DEF StandFits, Sha
<1> HIDE DEF far
<1> QED BY <1>0, <1>1, <1>2, <1>3, <1>5, ThroughFinds DEF Weighing

LEMMA GiveFinds ==
  ASSUME ListTypeOK, Read, Searched, Waits, Heard, GiveList
  PROVE  Heard' /\ Underway' /\ Waits'
<1>0. listing \in ListingState /\ listing.at = "environment" /\ search.waiting = {}
  BY DEF ListTypeOK, GiveList
<1>1. /\ search' = search /\ listing'.at = "answered" /\ listing'.state = "ok"
      /\ listing'.seen = listing.seen /\ listing'.name = listing.name
      /\ listing'.remote = listing.remote /\ given' = given /\ refs' = refs
      /\ listing'.head = listing.head /\ listing'.known = listing.known
      /\ listing'.asked = listing.asked /\ listing'.place = listing.place
      /\ listing'.merged = listing.merged
  BY <1>0 DEF GiveList, GitTells, ListingState
<1>2. Underway' /\ \A e : ~InHand(e) /\ ~InHand(e)'
  BY <1>0, <1>1 DEF Underway, InHand, Finding, Weighing
<1>3. "" \notin EnvName /\ HasEnvironments
  BY <1>0, ListAssumption DEF HasEnvironments
<1>4. search'.waiting = search.waiting \ {""}
  BY <1>0, <1>1
<1>5. Waits'
  BY <1>1, <1>2, <1>3, <1>4, WaitsKept
<1>6. \A r : Tip(r)' = Tip(r)
  BY <1>1 DEF Tip
<1>7. /\ listing.head = refs.head /\ listing.seen = refs.tip
      /\ listing.asked => \A r \in RefName : r \in listing.merged <=>
           Tip(r) # Gone /\ Tip(r) \subseteq refs.tip[listing.place][listing.name]
  BY <1>0 DEF Heard, HasRefs, Read
<1>8. Heard'
  BY <1>1, <1>6, <1>7 DEF Heard
<1> QED BY <1>2, <1>5, <1>8


-----------------------------------------------------------------------------
(* The invariant, and that the list is true.                               *)

LEMMA SearchHeard ==
  ASSUME ListTypeOK, Read, Searched, Undisturbed,
         \/ \E e \in EnvName : SearchBegin(e)
         \/ AskPreferred \/ (\E n \in BranchName : AskCandidate(n)) \/ CountCandidate
         \/ CandidatesDone \/ ReadLog \/ AskContained \/ ReadAhead
  PROVE  Heard'
<1>1. PICK next, new : next \in {"environment"} \cup Finding \cup Weighing /\ Searches(next, new)
  BY DEF SearchBegin, AskPreferred, AskCandidate, CountCandidate, CandidatesDone, ReadLog, AskContained,
         ReadAhead, Finding, Weighing
<1>2. listing.at \in {"environment"} \cup Finding \cup Weighing
  BY DEF SearchBegin, AskPreferred, AskCandidate, CountCandidate, CandidatesDone, ReadLog, AskContained,
         ReadAhead, Finding, Weighing
<1>3. HasEnvironments /\ listing.at # "answered"
  BY <1>2 DEF HasEnvironments, Finding, Weighing
<1> QED BY <1>1, <1>3, HeardSearch DEF Undisturbed

\* Before the search nothing is under way.
LEMMA NothingUnderway ==
  ASSUME listing'.at \notin {"environment"} \cup Finding \cup Weighing, ~ListGiven'
  PROVE  Underway' /\ Waits'
BY DEF Underway, Waits, HasEnvironments, Finding, Weighing

LEMMA WorktreesFind ==
  ASSUME ListTypeOK, Searched, ReadWorktrees
  PROVE  Underway' /\ Waits'
<1>1. search = NothingFound /\ listing'.at = "environment" /\ given' = given
  BY DEF ListTypeOK, ListingState, ReadWorktrees, Searched, HasEnvironments, ListGiven, Finding, Weighing
<1>2. /\ search'.waiting = {e \in EnvName : given.deployment[e] # NoDeployment}
      /\ \A e \in EnvName : search'.inBranch[e] = "unknown" /\ search'.suggested[e] = ""
  BY <1>1 DEF ReadWorktrees, NothingFound
<1>3. Underway' /\ \A e : ~InHand(e)'
  BY <1>1 DEF Underway, InHand, Finding, Weighing
<1>4. Waits'
  BY <1>1, <1>2, <1>3 DEF Waits
<1> QED BY <1>3, <1>4

LEMMA UndisturbedLoad ==
  ASSUME ListTypeOK, Read, Searched, Undisturbed,
         \/ CallFails \/ ReadHead \/ ReadBorn \/ ReadRemotes \/ ReadRemote \/ ReadDefault
         \/ ResolveDefault \/ ReadRefs \/ ReadMerged \/ ReadWorktrees
  PROVE  Undisturbed'
<1>1. Heard'
  BY HeardLoad, HeardDefault, HeardRefs, HeardMerged DEF Undisturbed
<1>2. CASE ReadWorktrees
  BY <1>1, <1>2, WorktreesFind DEF Undisturbed
<1>3. CASE ~ReadWorktrees
  <2>0. listing \in ListingState
    BY DEF ListTypeOK
  <2>1. \/ listing'.at \in Early \cup {"refs", "merged", "worktrees"}
        \/ listing'.at = "answered" /\ listing'.state \in {"failed", "error"}
    BY <1>3, <2>0 DEF CallFails, ReadHead, ReadBorn, ReadRemotes, ReadRemote, ReadDefault, ResolveDefault,
                      ReadRefs, ReadMerged, GitTells, ListingState, Early
  <2> QED BY <1>1, <2>1, NothingUnderway DEF Undisturbed, Early, ListGiven, Finding, Weighing
<1> QED BY <1>2, <1>3

\* A step that disturbs nothing keeps what is so while nothing is disturbed.
LEMMA UndisturbedStep ==
  ASSUME ListInv, [ListNext]_listVars, ~listing'.disturbed
  PROVE  Undisturbed'
<1>0. /\ ListTypeOK /\ Read /\ Searched /\ listing \in ListingState
      /\ ~listing.disturbed => Undisturbed /\ Heard /\ Underway /\ Waits
  BY DEF ListInv, ListTypeOK, Undisturbed
<1>1. CASE ListShown \/ \E options \in ListOptions : AskList(options)
  <2>1. /\ NothingRead.at = "head" /\ NothingRead.state = "none"
        /\ [NothingRead EXCEPT !.at = "idle"].at = "idle" /\ [NothingRead EXCEPT !.at = "idle"].state = "none"
    BY DEF NothingRead
  <2>2. listing'.at \in {"head", "idle"} /\ listing'.state = "none"
    BY <1>1, <2>1 DEF ListShown, AskList
  <2>3. ~HasRefs' /\ ~ListGiven' /\ listing'.at \notin {"environment"} \cup Finding \cup Weighing
    BY <2>2 DEF HasRefs, ListGiven, Finding, Weighing
  <2>4. Heard'
    BY <2>2, <2>3 DEF Heard
  <2> QED BY <2>3, <2>4, NothingUnderway DEF Undisturbed
<1>2. CASE \/ CallFails \/ ReadHead \/ ReadBorn \/ ReadRemotes \/ ReadRemote \/ ReadDefault
           \/ ResolveDefault \/ ReadRefs \/ ReadMerged \/ ReadWorktrees
  <2>1. listing'.disturbed = listing.disturbed
    BY <1>0, <1>2 DEF CallFails, ReadHead, ReadBorn, ReadRemotes, ReadRemote, ReadDefault, ResolveDefault,
                      ReadRefs, ReadMerged, ReadWorktrees, GitTells, ListingState
  <2> QED BY <1>0, <1>2, <2>1, UndisturbedLoad
<1>3. CASE \/ \E e \in EnvName : SearchBegin(e)
           \/ AskPreferred \/ (\E n \in BranchName : AskCandidate(n)) \/ CountCandidate
           \/ CandidatesDone \/ ReadLog \/ AskContained \/ ReadAhead
  <2>1. \E next, new : Searches(next, new)
    BY <1>3 DEF SearchBegin, AskPreferred, AskCandidate, CountCandidate, CandidatesDone, ReadLog,
                AskContained, ReadAhead
  <2>2. listing'.disturbed = listing.disturbed
    BY <1>0, <2>1, SearchKeeps
  <2>3. Heard'
    BY <1>0, <1>3, <2>2, SearchHeard
  <2>4. Underway' /\ Waits'
    BY <1>0, <1>3, <2>2, BeginFinds, PreferredFinds, CandidateFinds, CountFinds, CandidatesFind, LogFinds,
       ContainedFinds, AheadFinds
  <2> QED BY <2>3, <2>4 DEF Undisturbed
<1>4. CASE GiveList
  BY <1>0, <1>4, GiveFinds DEF GiveList, GitTells, ListingState, Undisturbed
<1>5. CASE CallPassedOver
  BY <1>0, <1>5 DEF CallPassedOver, ListingState
<1>6. ASSUME NEW new, OthersDo(new)
      PROVE  FALSE
  BY <1>0, <1>6 DEF OthersDo, ListingState
<1>7. ~OthersStep
  BY <1>6 DEF OthersStep, OthersMove, OthersSwitch, OthersConfigure, OthersRemote
<1>8. CASE UNCHANGED listVars
  <2>1. /\ listing' = listing /\ given' = given /\ refs' = refs /\ search' = search
    BY <1>8 DEF listVars
  <2>2. Heard' /\ \A e : InHand(e)' = InHand(e)
    BY <2>1, <1>0 DEF Tip, DefaultGone, HasRefs, ListGiven, Heard, InHand
  <2>3. \A e \in EnvName : Settled(e) => Settled(e)'
    BY <2>1, SettledKept
  <2>4. Waits'
    BY <1>0, <2>1, <2>2, <2>3 DEF Waits, HasEnvironments, ListGiven
  <2>5. /\ BySha(search.env)' = BySha(search.env) /\ NameSuggestion(search.env)' = NameSuggestion(search.env)
        /\ BestSoFar' = BestSoFar
    BY <2>1, SameRefs, SameList DEF BestSoFar, Sha
  <2>6. Weighed(search.env)' = Weighed(search.env) /\ BranchOf(search.env)' = BranchOf(search.env)
    BY <2>1, SameRefs, SameList DEF Weighed, SourceRight, BranchOf
  <2>7. /\ With(search.ref[2], Sha)' = With(search.ref[2], Sha) /\ Sha' = Sha
        /\ PreferredPlaces(search.ref[2])' = PreferredPlaces(search.ref[2])
        /\ Without(NameSuggestion(search.env), Sha)' = Without(NameSuggestion(search.env), Sha)
    BY <2>1, <2>5, SameRefs, SameList DEF Sha
  <2>8. Underway'
    BY <1>0, <2>1, <2>5, <2>6, <2>7 DEF Underway
  <2> QED BY <2>2, <2>4, <2>8 DEF Undisturbed
<1> QED BY <1>1, <1>2, <1>3, <1>4, <1>5, <1>7, <1>8 DEF ListNext, ListStep


\* Distances and containment of commits that the list has seen.
LEMMA SeenTyped ==
  ASSUME listing \in ListingState, NEW r \in RefName
  PROVE  IsFiniteSet(listing.seen[r[1]][r[2]])
<1>1. listing.seen \in Tips /\ r[1] \in RefPlace /\ r[2] \in BranchName
  BY DEF ListingState, RefName
<1>2. listing.seen[r[1]] \in [BranchName -> Reach \cup {Gone}]
  BY <1>1 DEF Tips
<1>3. listing.seen[r[1]][r[2]] \in Reach \cup {Gone}
  BY <1>1, <1>2
<1> QED BY <1>3, FS_EmptySet, ListAssumption DEF Gone

LEMMA NothingLeft ==
  ASSUME NEW S, NEW T, IsFiniteSet(S)
  PROVE  Cardinality(S \ T) = 0 <=> S \subseteq T
  BY FS_Difference, FS_EmptySet

LEMMA CountedTogether ==
  ASSUME ListTypeOK, Read
  PROVE  Together
<1> SUFFICES ASSUME listing.counted, NEW r \in Entries
             PROVE  /\ SaysMerged(r) => (IsMerged(r) <=>
                         listing.seen[r[1]][r[2]] \subseteq listing.seen[listing.place][listing.name])
                    /\ Missing(r) = 0 <=>
                         listing.seen[listing.place][listing.name] \subseteq listing.seen[r[1]][r[2]]
  BY DEF Together
<1>1. /\ listing \in ListingState /\ listing.place \in RefPlace /\ listing.name \in BranchName
      /\ listing.against = listing.seen[listing.place][listing.name]
  BY DEF ListTypeOK, ListingState, Read
<1>2. r \in RefName /\ <<listing.place, listing.name>> \in RefName
  BY <1>1 DEF Entries, RefName
<1>3. IsFiniteSet(listing.seen[r[1]][r[2]]) /\ IsFiniteSet(listing.against)
  BY <1>1, <1>2, SeenTyped
<1>4. IsMerged(r) <=> listing.seen[r[1]][r[2]] \subseteq listing.against
  BY <1>3, NothingLeft DEF IsMerged, OnTop
<1>5. Missing(r) = 0 <=> listing.against \subseteq listing.seen[r[1]][r[2]]
  BY <1>3, NothingLeft DEF Missing
<1> QED BY <1>1, <1>4, <1>5

\* At the end every environment is settled.
LEMMA AllSettled ==
  ASSUME ListTypeOK, Searched, Undisturbed, ListGiven
  PROVE  DeploymentsSettled
<1> SUFFICES ASSUME NEW e \in EnvName, given.deployment[e] # NoDeployment
             PROVE  SourceRight(e) /\ StandRight(e) /\ FindingsGrounded(e)
  BY DEF DeploymentsSettled
<1> DEFINE c == given.config[e]  s == search.suggested[e]  sha == given.deployment[e].sha
<1>1. search.waiting = {} /\ HasEnvironments /\ HasRefs /\ ~InHand(e)
  BY DEF Searched, HasEnvironments, HasRefs, InHand, ListGiven, Finding, Weighing
<1>2. SourceRight(e) /\ Grounds(e, s) /\ StandRight(e) /\ listing.seen = refs.tip
  BY <1>1 DEF Undisturbed, Waits, Heard, Settled, Weighed
<1>3. "missing-branch" \in Findings(e) => \A p \in RefPlace : refs.tip[p][c] = Gone
  BY <1>2 DEF Findings, ThereIs, Places
<1>4. "deployment-not-in-branch" \in Findings(e) => sha \in refs.objects /\ Without(c, sha) # {}
  BY <1>2 DEF Findings, StandRight, StandFits, BranchOf
<1>5. Findings(e) \cap {"deployment-differs", "name-differs"} # {} =>
        s = given.deployment[e].ref \/ With(s, sha) # {}
  BY <1>2 DEF Findings, SourceRight, SourceFits, Grounds
<1> QED BY <1>2, <1>3, <1>4, <1>5 DEF FindingsGrounded

LEMMA ListIsTrue == ListInv => ListingTrue
<1> SUFFICES ASSUME ListInv PROVE ListingTrue
  OBVIOUS
<1>1. ListTypeOK /\ Read /\ Searched /\ listing \in ListingState
  BY DEF ListInv, ListTypeOK
<1>2. ListGiven => Together /\ SourcesAreLongLived
  BY <1>1, CountedTogether DEF Searched, HasEnvironments
<1>3. ASSUME ListGiven, ~listing.disturbed
      PROVE  HeadSettled /\ MergedSettled /\ DeploymentsSettled
  <2>1. Undisturbed /\ Heard /\ HasRefs /\ listing.at = "answered" /\ listing.state = "ok"
    BY <1>3 DEF ListInv, Undisturbed, HasRefs, ListGiven
  <2>2. listing.seen = refs.tip /\ listing.head = refs.head
    BY <2>1 DEF Heard
  <2>3. HeadSettled
    <3> SUFFICES ASSUME NEW n \in BranchName
                 PROVE  (\E r \in Entries : IsCurrent(r) /\ r[2] = n) <=>
                          refs.head = n /\ refs.tip[""][n] # Gone
      BY DEF HeadSettled, Tip
    <3>1. ASSUME NEW r \in Entries, IsCurrent(r), r[2] = n
          PROVE  refs.head = n /\ refs.tip[""][n] # Gone
      BY <2>2, <3>1 DEF Entries, IsCurrent
    <3>2. ASSUME refs.head = n, refs.tip[""][n] # Gone
          PROVE  \E r \in Entries : IsCurrent(r) /\ r[2] = n
      <4>1. <<"", n>> \in Entries
        BY <2>2, <3>2 DEF Entries, RefName, RefPlace
      <4> QED BY <2>2, <3>2, <4>1 DEF IsCurrent
    <3> QED BY <3>1, <3>2
  <2>4. MergedSettled
    <3> SUFFICES ASSUME NEW r \in Entries, SaysMerged(r)
                 PROVE  IsMerged(r) <=> Tip(r) \subseteq refs.tip[listing.place][listing.name]
      BY DEF MergedSettled
    <3>1. r \in RefName /\ Tip(r) # Gone /\ Tip(r) = listing.seen[r[1]][r[2]]
      BY <2>2 DEF Entries, Tip
    <3>2. CASE listing.counted
      BY <1>1, <2>2, <3>1, <3>2, SeenTyped, NothingLeft DEF IsMerged, OnTop, Read
    <3>3. CASE ~listing.counted
      BY <2>1, <3>1, <3>3 DEF IsMerged, SaysMerged, Heard
    <3> QED BY <3>2, <3>3
  <2> QED BY <1>1, <1>3, <2>1, <2>3, <2>4, AllSettled
<1>4. listing.at = "answered" /\ listing.state = "error" /\ ~listing.disturbed => DefaultGone
  BY DEF ListInv, Undisturbed, Heard
<1> QED BY <1>2, <1>3, <1>4 DEF ListingTrue, DefaultGone

LEMMA ListInvInit == ListInit => ListInv
<1> SUFFICES ASSUME NEW repository, Clone(repository), ListBegin(repository)
             PROVE  ListInv
  BY DEF ListInit
<1>1. /\ listing.at = "idle" /\ listing.state = "none" /\ ~listing.known /\ ~listing.counted
      /\ ~listing.asked /\ search = NothingFound
  BY DEF ListBegin, NothingRead
<1>2. ~HasRefs /\ ~HasEnvironments /\ ~ListGiven
  BY <1>1 DEF HasRefs, HasEnvironments, ListGiven, Finding, Weighing
<1>3. Read
  BY <1>1 DEF Read
<1>4. Searched
  BY <1>1, <1>2 DEF Searched, Finding, Weighing
<1>5. Undisturbed
  BY <1>1, <1>2 DEF Undisturbed, Heard, Underway, Waits, Finding, Weighing
<1>6. ListTypeOK
  BY TypesInit DEF ListInit, Clone
<1> QED BY <1>3, <1>4, <1>5, <1>6 DEF ListInv

\* The invariant of the list, whatever the clone, the settings and the others do.
THEOREM ListInvariance == ListSpec => []ListInv
<1>1. ListInv /\ [ListNext]_listVars => ListInv'
  BY ListTypesStep, ReadStep, SearchedStep, UndisturbedStep DEF ListInv
<1> QED BY <1>1, ListInvInit, PTL DEF ListSpec

\* What the page says of branches and deployments is so when nobody moved anything
\* meanwhile, and fits together even when somebody did.
THEOREM ListingIsTrue == ListSpec => []ListingTrue
BY ListInvariance, ListIsTrue, PTL
=============================================================================
