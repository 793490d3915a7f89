----------------------------- MODULE DocsPublish -----------------------------
(***************************************************************************)
(* The working directory of a documentation producer                       *)
(* (project/docswork.go): checkout fetches the documents of a directory of  *)
(* the collection and notes their revisions in a record, publish compares  *)
(* files and record and creates, writes and deletes.  The user edits the   *)
(* files, others change the collection, a run may be killed, and removing  *)
(* a directory may stop half-way.                                          *)
(***************************************************************************)
EXTENDS Naturals, FiniteSets

CONSTANTS
  WorkDoc,         \* documents of the producer
  MaxEdits,        \* bound: edits of the user
  MaxForeign,      \* bound: changes of others in the collection
  MaxPublishFaults \* bound: failed store calls, kills, removals that stop half-way

ASSUME PublishAssumption == MaxEdits \in Nat /\ MaxForeign \in Nat /\ MaxPublishFaults \in Nat

VARIABLES
  collection,    \* WorkDoc -> revision and content, revision 0: no such document
  revision,      \* the last revision given
  workDir,       \* the working directory exists
  workFile,      \* WorkDoc -> content of the file, NoFile
  checkoutRecord,\* the record file: there, and what it notes per document
  publisher,     \* the run of checkout or publish under way
  edits, foreignEdits, publishFaults,
  basis,         \* history: the revision of each document the user has seen or written
  removedByUser, \* history: files the user removed
  halfRemoved,   \* history: a removal of the directory stopped half-way
  harm           \* history: what publish must not do

workVars == <<collection, revision, workDir, workFile, checkoutRecord, publisher, edits, foreignEdits,
              publishFaults, basis, removedByUser, halfRemoved, harm>>

\* A content: who wrote it, a number, and whether it carries hints.
Content == [by : {"user", "other"}, n : Nat, hints : BOOLEAN]
NoFile  == [by |-> "other", n |-> 0, hints |-> FALSE]
NoDoc   == [rev |-> 0, content |-> NoFile]
NoItem  == [rev |-> 0, content |-> NoFile]     \* the record has no entry
Nobody  == [step |-> "idle", plan |-> <<>>, todo |-> {}, open |-> {}, memory |-> <<>>, allow |-> FALSE]
Steps   == {"idle", "clear", "clear record", "write files", "write record",
            "publish", "readme", "clean", "clean record", "keep record"}
Harm    == {"overwritten", "deleted", "lost", "hints"}

WorkTypeOK ==
  /\ \A d \in WorkDoc : collection[d].rev \in 0..revision /\ collection[d].content \in Content
  /\ workDir \in BOOLEAN /\ \A d \in WorkDoc : workFile[d] \in Content
  /\ ~workDir => \A d \in WorkDoc : workFile[d] = NoFile
  /\ checkoutRecord.there \in BOOLEAN
  /\ \A d \in WorkDoc : checkoutRecord.items[d].rev \in 0..revision
  /\ publisher.step \in Steps /\ publisher.todo \subseteq WorkDoc /\ publisher.open \subseteq WorkDoc
  /\ removedByUser \subseteq WorkDoc /\ halfRemoved \in BOOLEAN /\ harm \subseteq Harm \X BOOLEAN

NoRecord == [there |-> FALSE, items |-> [d \in WorkDoc |-> NoItem]]

WorkInit ==
  /\ collection = [d \in WorkDoc |-> IF d = CHOOSE e \in WorkDoc : TRUE
                     THEN [rev |-> 1, content |-> [by |-> "other", n |-> 1, hints |-> TRUE]]
                     ELSE NoDoc]
  /\ revision = 1 /\ workDir = FALSE /\ workFile = [d \in WorkDoc |-> NoFile]
  /\ checkoutRecord = NoRecord /\ publisher = Nobody
  /\ edits = 0 /\ foreignEdits = 0 /\ publishFaults = 0
  /\ basis = [d \in WorkDoc |-> 0] /\ removedByUser = {} /\ halfRemoved = FALSE /\ harm = {}

PublishFault == publishFaults < MaxPublishFaults /\ publishFaults' = publishFaults + 1
Go(step) == publisher' = [publisher EXCEPT !.step = step]
Bystanders == UNCHANGED <<collection, revision, edits, foreignEdits>>

(***************************************************************************)
(* The user works on the files, others on the collection.                  *)
(***************************************************************************)
UserEdits(d) ==
  /\ workDir /\ edits < MaxEdits /\ edits' = edits + 1
  /\ \/ \E hints \in BOOLEAN : workFile' = [workFile EXCEPT ![d] = [by |-> "user", n |-> edits', hints |-> hints]]
        /\ removedByUser' = removedByUser \ {d}
     \/ /\ workFile[d] # NoFile /\ workFile' = [workFile EXCEPT ![d] = NoFile]
        /\ removedByUser' = removedByUser \cup {d}
  /\ UNCHANGED <<collection, revision, workDir, checkoutRecord, publisher, foreignEdits, publishFaults,
                 basis, halfRemoved, harm>>

OthersChange(d) ==
  /\ foreignEdits < MaxForeign /\ foreignEdits' = foreignEdits + 1 /\ revision' = revision + 1
  /\ \/ collection' = [collection EXCEPT ![d] =
                         [rev |-> revision', content |-> [by |-> "other", n |-> revision', hints |-> @.content.hints]]]
     \/ collection[d].rev > 0 /\ collection' = [collection EXCEPT ![d] = NoDoc]
  /\ UNCHANGED <<workDir, workFile, checkoutRecord, publisher, edits, publishFaults,
                 basis, removedByUser, halfRemoved, harm>>

(***************************************************************************)
(* removeDocsWork: the directory, then the record.  RemoveAll may stop     *)
(* half-way, with an error or because the run is killed.                    *)
(***************************************************************************)
RemoveDir(next) ==
  \/ /\ workDir' = FALSE /\ workFile' = [d \in WorkDoc |-> NoFile] /\ Go(next)
     /\ UNCHANGED <<publishFaults, halfRemoved>>
  \/ /\ workDir /\ PublishFault /\ halfRemoved' = TRUE /\ publisher' = Nobody
     /\ \E gone \in SUBSET WorkDoc :
          workFile' = [d \in WorkDoc |-> IF d \in gone THEN NoFile ELSE workFile[d]]
     /\ UNCHANGED workDir

RemoveRecord(next) ==
  /\ checkoutRecord' = NoRecord
  /\ IF next = "idle" THEN publisher' = Nobody ELSE Go(next)

(***************************************************************************)
(* Checkout: an existing directory or record is reported, not overwritten; *)
(* with discard everything is read first and then replaced.                *)
(***************************************************************************)
CheckoutReads(discard) ==
  /\ publisher.step = "idle"
  /\ workDir \/ checkoutRecord.there => discard
  /\ publisher' = [Nobody EXCEPT !.step = IF discard THEN "clear" ELSE "write files",
                                 !.memory = collection, !.todo = {d \in WorkDoc : collection[d].rev > 0}]
  /\ Bystanders /\ UNCHANGED <<workDir, workFile, checkoutRecord, publishFaults, basis, removedByUser, halfRemoved, harm>>

CheckoutClears ==
  /\ publisher.step = "clear" /\ RemoveDir("clear record")
  /\ removedByUser' = {}
  /\ Bystanders /\ UNCHANGED <<checkoutRecord, basis, harm>>

CheckoutClearsRecord ==
  /\ publisher.step = "clear record" /\ RemoveRecord("write files")
  /\ Bystanders /\ UNCHANGED <<workDir, workFile, publishFaults, basis, removedByUser, halfRemoved, harm>>

CheckoutWrites ==
  /\ publisher.step = "write files"
  /\ workDir' = TRUE
  /\ IF publisher.todo = {} THEN Go("write record") /\ UNCHANGED workFile
     ELSE \E d \in publisher.todo :
            /\ workFile' = [workFile EXCEPT ![d] = publisher.memory[d].content]
            /\ publisher' = [publisher EXCEPT !.todo = @ \ {d}]
  /\ Bystanders /\ UNCHANGED <<checkoutRecord, publishFaults, basis, removedByUser, halfRemoved, harm>>

\* A file or the record cannot be written: everything fetched goes again.
CheckoutFails ==
  /\ publisher.step \in {"write files", "write record"} /\ PublishFault
  /\ workDir' = FALSE /\ workFile' = [d \in WorkDoc |-> NoFile]
  /\ checkoutRecord' = NoRecord /\ publisher' = Nobody
  /\ Bystanders /\ UNCHANGED <<basis, removedByUser, halfRemoved, harm>>

CheckoutRecords ==
  /\ publisher.step = "write record"
  /\ checkoutRecord' = [there |-> TRUE, items |-> publisher.memory]
  /\ basis' = [d \in WorkDoc |-> publisher.memory[d].rev]
  /\ publisher' = Nobody /\ halfRemoved' = FALSE
  /\ Bystanders /\ UNCHANGED <<workDir, workFile, publishFaults, removedByUser, harm>>

(***************************************************************************)
(* Publish: the plan is made from the files and the record at one moment.  *)
(***************************************************************************)
PlannedAction(d) ==
  IF workFile[d] = NoFile
  THEN IF checkoutRecord.items[d].rev > 0 THEN "deleted" ELSE "nothing"
  ELSE IF checkoutRecord.items[d].rev = 0 THEN "created"
  ELSE IF checkoutRecord.items[d].content = workFile[d] THEN "unchanged" ELSE "written"

HintsChanged(d) ==
  CASE PlannedAction(d) = "created" -> workFile[d].hints
    [] PlannedAction(d) = "written" -> workFile[d].hints # checkoutRecord.items[d].content.hints
    [] PlannedAction(d) = "deleted" -> checkoutRecord.items[d].content.hints
    [] OTHER -> FALSE

PublishPlans(allowHints) ==
  /\ publisher.step = "idle" /\ checkoutRecord.there /\ workDir
  /\ allowHints \/ \A d \in WorkDoc : ~HintsChanged(d)
  /\ publisher' = [Nobody EXCEPT
       !.step = "publish", !.allow = allowHints,
       !.plan = [d \in WorkDoc |-> [action |-> PlannedAction(d), content |-> workFile[d],
                                    base |-> checkoutRecord.items[d].rev, removed |-> d \in removedByUser]],
       !.todo = {d \in WorkDoc : PlannedAction(d) \notin {"nothing", "unchanged"}},
       !.memory = checkoutRecord.items]
  /\ Bystanders /\ UNCHANGED <<workDir, workFile, checkoutRecord, publishFaults, basis, removedByUser, halfRemoved, harm>>

\* Defect: a failed README does not keep the directory.
ReadmeIgnored ==
  /\ publisher.step = "publish" /\ publisher.todo = {}
  /\ Go("clean") /\ UNCHANGED publishFaults
  /\ Bystanders /\ UNCHANGED <<workDir, workFile, checkoutRecord, basis, removedByUser, halfRemoved, harm>>

Rejected(d) ==
  LET s == publisher.plan[d] IN
  IF s.action = "created" THEN collection[d].rev > 0 ELSE collection[d].rev # s.base

\* What a step of publish may not do to the collection.
HarmOf(d) ==
  LET s == publisher.plan[d] IN
  (IF collection[d].rev \notin {0, basis[d]} THEN {"overwritten"} ELSE {})
    \cup (IF s.action = "deleted" /\ ~s.removed THEN {"deleted"} ELSE {})
    \cup (IF ~publisher.allow /\ collection[d].content.hints # s.content.hints THEN {"hints"} ELSE {})

Executes(d) ==
  LET s == publisher.plan[d] IN
  /\ ~Rejected(d)
  /\ revision' = revision + 1
  /\ collection' = [collection EXCEPT ![d] = IF s.action = "deleted" THEN NoDoc
                                             ELSE [rev |-> revision', content |-> s.content]]
  /\ harm' = harm \cup (HarmOf(d) \X {halfRemoved})
  /\ basis' = [basis EXCEPT ![d] = collection'[d].rev]

\* The outcomes of a store call: done, conflict, failed; a failed one may have
\* been executed (outcome_unknown).
PublishStep ==
  /\ publisher.step = "publish" /\ publisher.todo # {}
  /\ \E d \in publisher.todo :
       \/ /\ Executes(d)
          /\ publisher' = [publisher EXCEPT !.todo = @ \ {d}, !.memory = [@ EXCEPT ![d] = collection'[d]]]
          /\ UNCHANGED publishFaults
       \/ /\ Rejected(d)
          /\ publisher' = [publisher EXCEPT !.todo = @ \ {d}, !.open = @ \cup {d}]
          /\ UNCHANGED <<collection, revision, harm, basis, publishFaults>>
       \/ /\ PublishFault
          /\ publisher' = [publisher EXCEPT !.todo = @ \ {d}, !.open = @ \cup {d}]
          /\ Executes(d) \/ UNCHANGED <<collection, revision, harm, basis>>
  /\ UNCHANGED <<workDir, workFile, checkoutRecord, edits, foreignEdits, removedByUser, halfRemoved>>

\* The README of the directory is compared and written; then the directory
\* goes when nothing is open, or the record notes what was published.
PublishReadme ==
  /\ publisher.step = "publish" /\ publisher.todo = {}
  /\ \/ Go(IF publisher.open = {} THEN "clean" ELSE "keep record") /\ UNCHANGED publishFaults
     \/ PublishFault /\ Go("keep record")
  /\ Bystanders /\ UNCHANGED <<workDir, workFile, checkoutRecord, basis, removedByUser, halfRemoved, harm>>

\* Work of the user that goes with the directory, unless it was made while
\* publish ran.
Lost == {d \in WorkDoc : /\ workFile[d].by = "user" /\ workFile[d] = publisher.plan[d].content
                         /\ publisher.memory[d].content # workFile[d]}

PublishCleans ==
  /\ publisher.step = "clean" /\ RemoveDir("clean record")
  /\ harm' = IF Lost = {} THEN harm ELSE harm \cup {<<"lost", halfRemoved>>}
  /\ Bystanders /\ UNCHANGED <<checkoutRecord, basis, removedByUser>>

PublishCleansRecord ==
  /\ publisher.step = "clean record" /\ RemoveRecord("idle")
  /\ Bystanders /\ UNCHANGED <<workDir, workFile, publishFaults, basis, removedByUser, halfRemoved, harm>>

PublishKeepsRecord ==
  /\ publisher.step = "keep record"
  /\ checkoutRecord' = [checkoutRecord EXCEPT !.items = publisher.memory] /\ publisher' = Nobody
  /\ Bystanders /\ UNCHANGED <<workDir, workFile, publishFaults, basis, removedByUser, halfRemoved, harm>>

\* The run is killed, or the record cannot be written.
PublisherKilled ==
  /\ publisher.step # "idle" /\ PublishFault /\ publisher' = Nobody
  /\ Bystanders /\ UNCHANGED <<workDir, workFile, checkoutRecord, basis, removedByUser, halfRemoved, harm>>

WorkNext ==
  \/ \E d \in WorkDoc : UserEdits(d) \/ OthersChange(d)
  \/ \E b \in BOOLEAN : CheckoutReads(b) \/ PublishPlans(b)
  \/ CheckoutClears \/ CheckoutClearsRecord \/ CheckoutWrites \/ CheckoutFails \/ CheckoutRecords
  \/ PublishStep \/ PublishReadme \/ PublishCleans \/ PublishCleansRecord \/ PublishKeepsRecord
  \/ PublisherKilled

WorkSpec == WorkInit /\ [][WorkNext]_workVars

(***************************************************************************)
(* Properties                                                              *)
(***************************************************************************)
\* Publish overwrites no change the user has not seen, deletes only documents
\* whose files the user removed, changes hints only with permission and takes
\* no unpublished work away -- as long as no removal stopped half-way.
PublishKeepsWork == \A h \in harm : h[2]

\* Also after a removal that stopped half-way, publish deletes only documents
\* whose files the user removed ("for a document deleted in the working
\* directory", docs/kephalaion-client.md).
OnlyUserDeletes == \A h \in harm : h[1] # "deleted"
=============================================================================
