-------------------------- MODULE DocsPublish_proof --------------------------
(***************************************************************************)
(* Theorems about DocsPublish, for any documents and any number of edits,  *)
(* changes of others and failures: publish does no harm as long as no      *)
(* removal of the working directory stopped half-way (PublishKeepsWork).   *)
(*                                                                         *)
(* The argument: a revision is given once, so a document of the collection *)
(* that bears the revision of the record is the document of the record,    *)
(* and the one the user has seen (Fits, Seen); and what the record lists    *)
(* and is not there, the user has removed (Missing).                       *)
(* Then the program's own clone and upgrade (ProgramUpgrade).              *)
(***************************************************************************)
EXTENDS DocsPublish, ProgramUpgrade, WellFoundedInduction, SequenceTheorems, TLAPS

Doc  == [rev : Nat, content : Content]
Item == [action : {"created", "written", "deleted", "unchanged", "nothing"}, content : Content,
         base : Nat, removed : BOOLEAN]

\* A document of the collection that bears the revision of the item is the item.
Fits(items) ==
  /\ items \in [WorkDoc -> Doc]
  /\ \A d \in WorkDoc : /\ items[d].rev <= revision /\ (items[d].rev # 0 => items[d].content # NoFile)
                        /\ items[d].rev # 0 /\ collection[d].rev = items[d].rev => collection[d] = items[d]

\* ... and it is the one the user has seen or written.
Seen(items) ==
  \A d \in WorkDoc : items[d].rev # 0 /\ collection[d].rev = items[d].rev => basis[d] = items[d].rev

\* What is listed and is not there, the user has removed.
Missing(items) == \A d \in WorkDoc : items[d].rev # 0 /\ workFile[d] = NoFile => d \in removedByUser

GroundSound ==
  /\ collection \in [WorkDoc -> Doc] /\ revision \in Nat
  /\ \A d \in WorkDoc : /\ collection[d].rev <= revision
                        /\ collection[d].rev = 0 => collection[d] = NoDoc
                        /\ collection[d].rev # 0 => collection[d].content # NoFile
  /\ workDir \in BOOLEAN /\ workFile \in [WorkDoc -> Content] /\ (~workDir => \A d \in WorkDoc : workFile[d] = NoFile)
  /\ basis \in [WorkDoc -> Nat] /\ removedByUser \in SUBSET WorkDoc /\ halfRemoved \in BOOLEAN /\ edits \in Nat
  /\ harm \in SUBSET (Harm \X BOOLEAN) /\ PublishKeepsWork

RecordSound ==
  /\ DOMAIN checkoutRecord = {"there", "items"} /\ checkoutRecord.there \in BOOLEAN
  /\ Fits(checkoutRecord.items) /\ Seen(checkoutRecord.items)
  /\ checkoutRecord.there /\ workDir /\ ~halfRemoved => Missing(checkoutRecord.items)

Run(r) ==
  /\ DOMAIN r = {"step", "plan", "todo", "open", "memory", "allow"}
  /\ r.step \in Steps /\ r.todo \in SUBSET WorkDoc /\ r.open \in SUBSET WorkDoc /\ r.allow \in BOOLEAN

Clearing(r)   == r.step \in {"clear", "clear record"}
Writing(r)    == r.step \in {"write files", "write record"}
Publishing(r) == r.step \in {"publish", "clean", "keep record"}

\* What checkout has read, and what of it lies in the directory.
CheckoutSound ==
  /\ Clearing(publisher) \/ Writing(publisher) => Fits(publisher.memory)
  /\ Clearing(publisher) => \A d \in WorkDoc \ publisher.todo : publisher.memory[d].rev = 0
  /\ Writing(publisher) =>
       /\ ~checkoutRecord.there
       /\ \A d \in WorkDoc \ publisher.todo :
            publisher.memory[d].rev # 0 => workFile[d] # NoFile \/ d \in removedByUser
  /\ publisher.step = "write record" => publisher.todo = {}

\* What publish has yet to do with a document.
TodoSound(d) ==
  LET s == publisher.plan[d] IN
  /\ s.action \in {"created", "written", "deleted"} /\ (s.action # "created" => s.base # 0)
  /\ s.base # 0 /\ collection[d].rev = s.base => basis[d] = s.base
  /\ s.action = "deleted" /\ ~halfRemoved => s.removed
  /\ ~publisher.allow /\ s.action = "created" => ~s.content.hints
  /\ ~publisher.allow /\ s.action # "created" /\ collection[d].rev = s.base =>
       collection[d].content.hints = s.content.hints

PlanSound ==
  /\ publisher.plan \in [WorkDoc -> Item]
  /\ \A d \in WorkDoc :
       LET s == publisher.plan[d] IN
       /\ s.base <= revision
       /\ s.action \in {"created", "written"} => s.content # NoFile /\ (workFile[d] # NoFile \/ d \in removedByUser)
       /\ s.action = "deleted" => s.content = NoFile
       /\ d \in publisher.todo => TodoSound(d)
       /\ d \notin publisher.todo \cup publisher.open /\ s.content # NoFile => publisher.memory[d].content = s.content

PublishSound ==
  /\ Publishing(publisher) => Fits(publisher.memory) /\ Seen(publisher.memory) /\ PlanSound
  /\ Publishing(publisher) /\ ~halfRemoved => Missing(publisher.memory)
  /\ publisher.step = "clean" => publisher.todo = {} /\ publisher.open = {}

WInv == GroundSound /\ RecordSound /\ Run(publisher) /\ CheckoutSound /\ PublishSound

-----------------------------------------------------------------------------
LEMMA NoFileType == NoFile \in Content /\ NoDoc \in Doc /\ NoItem = NoDoc /\ NoDoc.rev = 0 /\ NoDoc.content = NoFile
  BY DEF NoFile, Content, NoDoc, Doc, NoItem

LEMMA NobodyIdle == Run(Nobody) /\ Nobody.step = "idle"
  BY DEF Nobody, Run, Steps

\* Without a record nothing is claimed.
LEMMA NoRecordSound ==
  ASSUME revision \in Nat
  PROVE  Fits(NoRecord.items) /\ Seen(NoRecord.items) /\ NoRecord.there = FALSE /\ DOMAIN NoRecord = {"there", "items"}
  BY NoFileType DEF NoRecord, Fits, Seen

\* A run that has ended claims nothing either.
LEMMA IdleEnough ==
  ASSUME publisher' = Nobody
  PROVE  Run(publisher)' /\ CheckoutSound' /\ PublishSound'
  BY NobodyIdle DEF CheckoutSound, PublishSound, Clearing, Writing, Publishing, Run

\* A new revision fits nothing that was known before, and neither does none.
LEMMA NewRevision ==
  ASSUME GroundSound, NEW d \in WorkDoc, revision' = revision + 1,
         NEW new \in Doc, new.rev \in {0, revision + 1}, collection' = [collection EXCEPT ![d] = new],
         NEW items, Fits(items), NEW b, basis' = [basis EXCEPT ![d] = b]
  PROVE  Fits(items)' /\ (Seen(items) => Seen(items)')
  BY DEF GroundSound, Fits, Doc, Seen

-----------------------------------------------------------------------------
(* What the user and others do.                                            *)

LEMMA UserEditsSound ==
  ASSUME WInv, NEW d \in WorkDoc, UserEdits(d)
  PROVE  WInv'
<1>1. /\ UNCHANGED <<collection, revision, workDir, checkoutRecord, publisher, basis, halfRemoved, harm>>
      /\ workDir /\ edits' = edits + 1 /\ GroundSound /\ RecordSound /\ CheckoutSound /\ PublishSound
  BY DEF UserEdits, WInv
<1>2. PICK file \in Content : workFile' = [workFile EXCEPT ![d] = file]
  BY <1>1, NoFileType DEF UserEdits, GroundSound, Content
<1>3. /\ workFile' \in [WorkDoc -> Content] /\ removedByUser' \in SUBSET WorkDoc
      /\ \A e \in WorkDoc : workFile[e] # NoFile \/ e \in removedByUser => workFile'[e] # NoFile \/ e \in removedByUser'
  <2>1. CASE workFile' = [workFile EXCEPT ![d] = NoFile] /\ removedByUser' = removedByUser \cup {d}
    BY <1>1, <2>1, NoFileType DEF GroundSound
  <2>2. CASE \E hints \in BOOLEAN : /\ workFile' = [workFile EXCEPT ![d] = [by |-> "user", n |-> edits', hints |-> hints]]
                                    /\ removedByUser' = removedByUser \ {d}
    BY <2>2, <1>1 DEF Content, GroundSound, NoFile
  <2> QED
    BY <2>1, <2>2 DEF UserEdits
<1>4. GroundSound'
  BY <1>1, <1>3 DEF GroundSound, PublishKeepsWork
<1>5. RecordSound'
  BY <1>1, <1>3 DEF RecordSound, Fits, Seen, Missing
<1>6. CheckoutSound'
  BY <1>1, <1>3 DEF CheckoutSound, Fits, Clearing, Writing
<1>7. PublishSound'
  BY <1>1, <1>3 DEF PublishSound, Fits, Seen, PlanSound, TodoSound, Missing, Publishing
<1> QED
  BY <1>1, <1>4, <1>5, <1>6, <1>7 DEF WInv

\* What others write bears a new revision.
LEMMA OthersChangeSound ==
  ASSUME WInv, NEW d \in WorkDoc, OthersChange(d)
  PROVE  WInv'
<1>1. /\ UNCHANGED <<workDir, workFile, checkoutRecord, publisher, edits, basis, removedByUser, halfRemoved, harm>>
      /\ revision' = revision + 1 /\ GroundSound /\ RecordSound /\ CheckoutSound /\ PublishSound
  BY DEF OthersChange, WInv
<1>2. PICK new \in Doc : /\ collection' = [collection EXCEPT ![d] = new] /\ new.rev \in {0, revision + 1}
                         /\ new.rev = 0 => new = NoDoc
                         /\ new.rev # 0 => new.content # NoFile
  <2>1. CASE collection' = [collection EXCEPT ![d] = NoDoc]
    BY <2>1, NoFileType
  <2>2. CASE collection' = [collection EXCEPT ![d] =
                              [rev |-> revision', content |-> [by |-> "other", n |-> revision', hints |-> @.content.hints]]]
    <3> DEFINE content == [by |-> "other", n |-> revision', hints |-> collection[d].content.hints]
               new == [rev |-> revision', content |-> content]
    <3>1. collection[d].content.hints \in BOOLEAN /\ revision' \in Nat /\ revision' # 0
      BY <1>1 DEF GroundSound, Doc, Content
    <3>2. content \in Content /\ content # NoFile
      BY <3>1 DEF Content, NoFile
    <3>3. new \in Doc /\ new.rev = revision + 1 /\ new.rev # 0 /\ new.content # NoFile
      BY <1>1, <3>1, <3>2 DEF Doc
    <3>4. collection' = [collection EXCEPT ![d] = new]
      BY <2>2
    <3> QED
      BY <3>3, <3>4
  <2> QED
    BY <2>1, <2>2 DEF OthersChange
<1>3. basis' = [basis EXCEPT ![d] = basis[d]]
  BY <1>1 DEF GroundSound
<1>4. \A e \in WorkDoc : collection'[e] = IF e = d THEN new ELSE collection[e]
  BY <1>1, <1>2 DEF GroundSound
<1>5. GroundSound'
  BY <1>1, <1>2, <1>4 DEF GroundSound, Doc, PublishKeepsWork
<1>6. ASSUME NEW items, Fits(items) PROVE Fits(items)' /\ (Seen(items) => Seen(items)')
  BY <1>1, <1>2, <1>3, <1>6, NewRevision
<1>7. RecordSound'
  BY <1>1, <1>6 DEF RecordSound, Missing
<1>8. CheckoutSound'
  BY <1>1, <1>6 DEF CheckoutSound, Clearing, Writing
<1>9. PublishSound'
  <2>1. Publishing(publisher) => Fits(publisher.memory)' /\ Seen(publisher.memory)'
    BY <1>1, <1>6 DEF PublishSound
  <2>2. ASSUME Publishing(publisher) PROVE PlanSound'
    BY <2>2, <1>1, <1>2, <1>4 DEF PublishSound, PlanSound, Item, GroundSound, TodoSound
  <2> QED
    BY <1>1, <2>1, <2>2 DEF PublishSound, Publishing, Missing
<1> QED
  BY <1>1, <1>5, <1>7, <1>8, <1>9 DEF WInv

-----------------------------------------------------------------------------
(* Checkout.                                                               *)

LEMMA CheckoutReadsSound ==
  ASSUME WInv, NEW discard \in BOOLEAN, CheckoutReads(discard)
  PROVE  WInv'
<1>1. /\ UNCHANGED <<collection, revision, edits, workDir, workFile, checkoutRecord, basis, removedByUser, halfRemoved, harm>>
      /\ GroundSound /\ RecordSound /\ (workDir \/ checkoutRecord.there => discard)
      /\ publisher' = [Nobody EXCEPT !.step = IF discard THEN "clear" ELSE "write files",
                                     !.memory = collection, !.todo = {d \in WorkDoc : collection[d].rev > 0}]
  BY DEF CheckoutReads, Bystanders, WInv
<1>2. /\ Run(publisher)' /\ publisher'.step = (IF discard THEN "clear" ELSE "write files")
      /\ publisher'.memory = collection /\ publisher'.todo = {d \in WorkDoc : collection[d].rev > 0}
  BY <1>1 DEF Run, Nobody, Steps
<1>3. GroundSound' /\ RecordSound'
  BY <1>1 DEF GroundSound, PublishKeepsWork, RecordSound, Fits, Seen, Missing
<1>4. Fits(publisher.memory)'
  BY <1>1, <1>2 DEF GroundSound, Fits
<1>5. \A d \in WorkDoc \ publisher'.todo : publisher'.memory[d].rev = 0
  BY <1>1, <1>2 DEF GroundSound, Doc
<1>6. CheckoutSound' /\ PublishSound'
  BY <1>1, <1>2, <1>4, <1>5 DEF CheckoutSound, PublishSound, RecordSound, Clearing, Writing, Publishing
<1> QED
  BY <1>2, <1>3, <1>6 DEF WInv

\* A removal of the directory, whole or half-way, leaves a sound record.
LEMMA RemoveDirSound ==
  ASSUME GroundSound, RecordSound, NEW next \in Steps, RemoveDir(next),
         UNCHANGED <<collection, revision, edits, checkoutRecord, basis>>, removedByUser' \in SUBSET WorkDoc,
         harm' \in SUBSET (Harm \X BOOLEAN), PublishKeepsWork'
  PROVE  GroundSound' /\ RecordSound'
  BY NoFileType DEF GroundSound, RemoveDir, RecordSound, Fits, Seen

LEMMA CheckoutClearsSound ==
  ASSUME WInv, CheckoutClears
  PROVE  WInv'
<1>1. /\ UNCHANGED <<collection, revision, edits, checkoutRecord, basis, harm>> /\ removedByUser' = {}
      /\ GroundSound /\ RecordSound /\ CheckoutSound /\ Run(publisher) /\ publisher.step = "clear"
      /\ RemoveDir("clear record")
  BY DEF CheckoutClears, Bystanders, WInv
<1>2. GroundSound' /\ RecordSound'
  BY <1>1, RemoveDirSound DEF GroundSound, PublishKeepsWork, Steps
<1>3. CASE publisher' = Nobody
  BY <1>2, <1>3, IdleEnough DEF WInv
<1>4. CASE publisher' = [publisher EXCEPT !.step = "clear record"]
  BY <1>1, <1>4, <1>2 DEF Run, Steps, CheckoutSound, Fits, Clearing, PublishSound, Writing, Publishing, WInv
<1> QED
  BY <1>1, <1>3, <1>4 DEF RemoveDir, Go

LEMMA CheckoutClearsRecordSound ==
  ASSUME WInv, CheckoutClearsRecord
  PROVE  WInv'
<1>1. /\ UNCHANGED <<collection, revision, edits, workDir, workFile, basis, removedByUser, halfRemoved, harm>>
      /\ checkoutRecord' = NoRecord /\ publisher.step = "clear record"
      /\ publisher' = [publisher EXCEPT !.step = "write files"]
      /\ GroundSound /\ RecordSound /\ CheckoutSound /\ Run(publisher)
  BY DEF CheckoutClearsRecord, RemoveRecord, Go, Bystanders, WInv
<1>2. /\ Run(publisher)' /\ publisher'.step = "write files" /\ publisher'.memory = publisher.memory
      /\ publisher'.todo = publisher.todo
  BY <1>1 DEF Run, Steps
<1>3. GroundSound'
  BY <1>1 DEF GroundSound, PublishKeepsWork
<1>4. RecordSound' /\ ~checkoutRecord'.there
  BY <1>1, NoRecordSound DEF GroundSound, Fits, Seen, RecordSound
<1>5. Fits(publisher.memory)'
  BY <1>1, <1>2 DEF CheckoutSound, Fits, Clearing
<1>6. CheckoutSound' /\ PublishSound'
  BY <1>1, <1>2, <1>4, <1>5 DEF CheckoutSound, PublishSound, Clearing, Writing, Publishing
<1> QED
  BY <1>2, <1>3, <1>4, <1>6 DEF WInv

LEMMA CheckoutWritesSound ==
  ASSUME WInv, CheckoutWrites
  PROVE  WInv'
<1>1. /\ UNCHANGED <<collection, revision, edits, checkoutRecord, basis, removedByUser, halfRemoved, harm>>
      /\ workDir' = TRUE /\ publisher.step = "write files" /\ ~checkoutRecord.there
      /\ GroundSound /\ RecordSound /\ CheckoutSound /\ Run(publisher)
  BY DEF CheckoutWrites, Bystanders, WInv, CheckoutSound, Writing
<1>2. RecordSound'
  BY <1>1 DEF RecordSound, Fits, Seen
<1>3. CASE publisher.todo = {}
  <2>1. publisher' = [publisher EXCEPT !.step = "write record"] /\ UNCHANGED workFile
    BY <1>3 DEF CheckoutWrites, Go
  <2>2. /\ Run(publisher)' /\ publisher'.step = "write record" /\ publisher'.memory = publisher.memory
        /\ publisher'.todo = {}
    BY <1>1, <1>3, <2>1 DEF Run, Steps
  <2>3. GroundSound'
    BY <1>1, <2>1 DEF GroundSound, PublishKeepsWork
  <2>4. Fits(publisher.memory)'
    BY <1>1, <2>2 DEF CheckoutSound, Fits, Writing
  <2>5. CheckoutSound' /\ PublishSound'
    BY <1>1, <1>3, <2>1, <2>2, <2>4 DEF CheckoutSound, PublishSound, Clearing, Writing, Publishing
  <2> QED
    BY <1>2, <2>2, <2>3, <2>5 DEF WInv
<1>4. CASE publisher.todo # {}
  <2>1. PICK d \in publisher.todo : /\ workFile' = [workFile EXCEPT ![d] = publisher.memory[d].content]
                                    /\ publisher' = [publisher EXCEPT !.todo = @ \ {d}]
    BY <1>4 DEF CheckoutWrites
  <2>2. /\ Run(publisher)' /\ publisher'.step = "write files" /\ publisher'.memory = publisher.memory
        /\ publisher'.todo = publisher.todo \ {d} /\ d \in WorkDoc
    BY <1>1, <2>1 DEF Run, Steps
  <2>3. /\ publisher.memory \in [WorkDoc -> Doc]
        /\ \A e \in WorkDoc : publisher.memory[e].rev # 0 => publisher.memory[e].content # NoFile
    BY <1>1 DEF CheckoutSound, Fits, Writing
  <2>4. GroundSound'
    BY <1>1, <2>1, <2>2, <2>3 DEF GroundSound, PublishKeepsWork, Doc
  <2>5. Fits(publisher.memory)'
    BY <1>1, <2>2 DEF CheckoutSound, Fits, Writing
  <2>6. \A e \in WorkDoc \ publisher'.todo :
          publisher'.memory[e].rev # 0 => workFile'[e] # NoFile \/ e \in removedByUser'
    BY <1>1, <2>1, <2>2, <2>3 DEF CheckoutSound, Writing, GroundSound
  <2>7. CheckoutSound' /\ PublishSound'
    BY <1>1, <2>2, <2>5, <2>6 DEF CheckoutSound, PublishSound, Clearing, Writing, Publishing
  <2> QED
    BY <1>2, <2>2, <2>4, <2>7 DEF WInv
<1> QED
  BY <1>3, <1>4

LEMMA CheckoutFailsSound ==
  ASSUME WInv, CheckoutFails
  PROVE  WInv'
  BY NoFileType, NoRecordSound, IdleEnough DEF CheckoutFails, Bystanders, WInv, GroundSound, PublishKeepsWork, Fits, Seen,
     RecordSound

LEMMA CheckoutRecordsSound ==
  ASSUME WInv, CheckoutRecords
  PROVE  WInv'
<1>1. /\ UNCHANGED <<collection, revision, edits, workDir, workFile, removedByUser, harm>>
      /\ checkoutRecord' = [there |-> TRUE, items |-> publisher.memory]
      /\ basis' = [d \in WorkDoc |-> publisher.memory[d].rev]
      /\ publisher' = Nobody /\ halfRemoved' = FALSE /\ publisher.step = "write record"
      /\ GroundSound /\ CheckoutSound
  BY DEF CheckoutRecords, Bystanders, WInv
<1>2. /\ Fits(publisher.memory) /\ publisher.memory \in [WorkDoc -> Doc]
      /\ \A d \in WorkDoc : publisher.memory[d].rev # 0 => workFile[d] # NoFile \/ d \in removedByUser
  BY <1>1 DEF CheckoutSound, Writing, Fits
<1>3. GroundSound'
  BY <1>1, <1>2 DEF GroundSound, PublishKeepsWork, Doc
<1>4. /\ DOMAIN checkoutRecord' = {"there", "items"} /\ checkoutRecord'.there \in BOOLEAN
      /\ checkoutRecord'.items = publisher.memory
  BY <1>1
<1>5. Fits(checkoutRecord.items)' /\ Seen(checkoutRecord.items)' /\ Missing(checkoutRecord.items)'
  BY <1>1, <1>2, <1>4 DEF Fits, Seen, Missing
<1>6. RecordSound'
  BY <1>4, <1>5 DEF RecordSound
<1> QED
  BY <1>1, <1>3, <1>6, IdleEnough DEF WInv

-----------------------------------------------------------------------------
(* Publish.                                                                *)

LEMMA PublishPlansSound ==
  ASSUME WInv, NEW allow \in BOOLEAN, PublishPlans(allow)
  PROVE  WInv'
<1> DEFINE plan == [d \in WorkDoc |-> [action |-> PlannedAction(d), content |-> workFile[d],
                                       base |-> checkoutRecord.items[d].rev, removed |-> d \in removedByUser]]
           todo == {d \in WorkDoc : PlannedAction(d) \notin {"nothing", "unchanged"}}
<1>1. /\ UNCHANGED <<collection, revision, edits, workDir, workFile, checkoutRecord, basis, removedByUser, halfRemoved, harm>>
      /\ GroundSound /\ RecordSound /\ checkoutRecord.there /\ workDir
      /\ allow \/ \A d \in WorkDoc : ~HintsChanged(d)
      /\ publisher' = [Nobody EXCEPT !.step = "publish", !.allow = allow, !.plan = plan, !.todo = todo,
                                     !.memory = checkoutRecord.items]
  BY DEF PublishPlans, Bystanders, WInv
<1>2. /\ Run(publisher)' /\ publisher'.step = "publish" /\ publisher'.allow = allow /\ publisher'.plan = plan
      /\ publisher'.todo = todo /\ publisher'.memory = checkoutRecord.items
  BY <1>1 DEF Run, Nobody, Steps
<1>3. GroundSound' /\ RecordSound'
  BY <1>1 DEF GroundSound, PublishKeepsWork, RecordSound, Fits, Seen, Missing
<1>4. Fits(publisher.memory)' /\ Seen(publisher.memory)'
  BY <1>1, <1>2 DEF RecordSound, Fits, Seen
<1>5. ~halfRemoved => Missing(publisher.memory)'
  BY <1>1, <1>2 DEF RecordSound, Missing
<1>6. ASSUME NEW d \in WorkDoc
      PROVE  /\ plan[d] \in Item /\ plan[d].base <= revision /\ plan[d].content = workFile[d]
             /\ plan[d].action = PlannedAction(d) /\ plan[d].base = checkoutRecord.items[d].rev
             /\ plan[d].action \in {"created", "written"} => workFile[d] # NoFile
             /\ plan[d].action = "created" => plan[d].base = 0
             /\ plan[d].action \in {"written", "deleted", "unchanged"} => plan[d].base # 0
             /\ plan[d].action = "deleted" => workFile[d] = NoFile
             /\ plan[d].action = "unchanged" => workFile[d] = checkoutRecord.items[d].content
             /\ plan[d].action = "nothing" => workFile[d] = NoFile
             /\ plan[d].removed = (d \in removedByUser)
  BY <1>1 DEF RecordSound, Fits, Doc, GroundSound, PlannedAction, Item
<1> HIDE DEF plan
<1>7. ASSUME NEW d \in WorkDoc, d \in todo PROVE TodoSound(d)'
  <2> DEFINE s == plan[d]
  <2>1. /\ s.action \in {"created", "written", "deleted"} /\ s.base = checkoutRecord.items[d].rev
        /\ s.content = workFile[d] /\ s.action = PlannedAction(d)
    BY <1>6, <1>7 DEF Item
  <2>2. s.base # 0 /\ collection[d].rev = s.base => basis[d] = s.base /\ collection[d] = checkoutRecord.items[d]
    BY <1>1, <2>1 DEF RecordSound, Fits, Seen
  <2>3. s.action = "deleted" /\ ~halfRemoved => s.removed
    BY <1>1, <1>6, <2>1 DEF RecordSound, Missing
  <2>4. /\ collection[d].content.hints \in BOOLEAN /\ workFile[d].hints \in BOOLEAN
        /\ checkoutRecord.items[d].content.hints \in BOOLEAN
    BY <1>1 DEF GroundSound, RecordSound, Fits, Doc, Content
  <2>5. ASSUME ~allow
        PROVE  /\ s.action = "created" => ~s.content.hints
               /\ s.action # "created" => s.content.hints = checkoutRecord.items[d].content.hints
    <3>1. ~HintsChanged(d)
      BY <1>1, <2>5
    <3>2. CASE s.action = "created"
      BY <2>1, <2>4, <3>1, <3>2 DEF HintsChanged
    <3>3. CASE s.action = "written"
      BY <2>1, <2>4, <3>1, <3>3 DEF HintsChanged
    <3>4. CASE s.action = "deleted"
      BY <1>6, <2>1, <3>4, <2>4, <3>1 DEF HintsChanged, NoFile
    <3>5. s.action = "created" \/ s.action = "written" \/ s.action = "deleted"
      BY <2>1
    <3> HIDE DEF s
    <3> QED
      BY <3>2, <3>3, <3>4, <3>5
  <2>6. s.action # "created" => s.base # 0
    BY <1>6, <2>1
  <2> HIDE DEF s
  <2>7. publisher'.plan[d] = s /\ publisher'.allow = allow
    BY <1>2 DEF s
  <2> QED
    BY <1>1, <2>1, <2>2, <2>3, <2>5, <2>6, <2>7 DEF TodoSound
<1>8. PlanSound'
  BY <1>6, <1>1, <1>2, <1>7 DEF plan, PlanSound
<1>9. CheckoutSound' /\ PublishSound'
  BY <1>1, <1>2, <1>4, <1>5, <1>8 DEF CheckoutSound, PublishSound, Clearing, Writing, Publishing
<1> QED
  BY <1>2, <1>3, <1>9 DEF WInv

\* A step of publish that a store call has executed does no harm, ...
LEMMA ExecutesHarmless ==
  ASSUME GroundSound, PlanSound, NEW d \in WorkDoc, d \in publisher.todo, Executes(d)
  PROVE  halfRemoved \/ HarmOf(d) = {}
<1> DEFINE s == publisher.plan[d]
<1>1. TodoSound(d) /\ ~Rejected(d) /\ s \in Item
  BY DEF PlanSound, Executes
<1>2. /\ s.action = "created" => collection[d].rev = 0
      /\ s.action # "created" => collection[d].rev = s.base
  BY <1>1 DEF Rejected, GroundSound, Doc
<1>3. /\ collection[d].content.hints \in BOOLEAN /\ s.content.hints \in BOOLEAN
      /\ collection[d].rev = 0 => ~collection[d].content.hints
  BY NoFileType, <1>1 DEF GroundSound, Doc, Item, Content, NoFile
<1>4. collection[d].rev \in {0, basis[d]}
  BY <1>1, <1>2 DEF TodoSound
<1>5. s.action = "deleted" /\ ~halfRemoved => s.removed
  BY <1>1 DEF TodoSound
<1>6. ~publisher.allow => collection[d].content.hints = s.content.hints
  BY <1>1, <1>2, <1>3 DEF TodoSound
<1> QED
  BY <1>4, <1>5, <1>6 DEF HarmOf

\* ... and leaves all known revisions as old as they are.
LEMMA ExecutesGround ==
  ASSUME GroundSound, PlanSound, NEW d \in WorkDoc, d \in publisher.todo, Executes(d),
         UNCHANGED <<workDir, workFile, edits, removedByUser, halfRemoved>>
  PROVE  /\ GroundSound'
         /\ \A e \in WorkDoc \ {d} : collection'[e] = collection[e] /\ basis'[e] = basis[e]
         /\ collection'[d] \in Doc /\ basis'[d] = collection'[d].rev /\ revision' = revision + 1
         /\ collection'[d] = NoDoc \/ (/\ collection'[d].content = publisher.plan[d].content
                                      /\ publisher.plan[d].action \in {"created", "written"})
         /\ publisher.plan[d].action # "deleted" => collection'[d].content = publisher.plan[d].content
         /\ \A items : Fits(items) => Fits(items)' /\ (Seen(items) => Seen(items)')
<1> DEFINE s == publisher.plan[d]
           new == IF s.action = "deleted" THEN NoDoc ELSE [rev |-> revision', content |-> s.content]
<1>1. /\ revision' = revision + 1 /\ collection' = [collection EXCEPT ![d] = new]
      /\ harm' = harm \cup (HarmOf(d) \X {halfRemoved}) /\ basis' = [basis EXCEPT ![d] = collection'[d].rev]
  BY DEF Executes
<1>2. /\ s \in Item /\ s.action \in {"created", "written", "deleted"}
      /\ s.action \in {"created", "written"} => s.content # NoFile
  BY DEF PlanSound, TodoSound
<1>3. /\ new \in Doc /\ new.rev \in {0, revision + 1} /\ (new.rev = 0 => new = NoDoc)
      /\ new.rev # 0 => new.content # NoFile
      /\ s.action # "deleted" => new.content = s.content
      /\ new = NoDoc \/ s.action # "deleted"
  BY NoFileType, <1>1, <1>2 DEF Doc, Item, GroundSound
<1>4. \A e \in WorkDoc : collection'[e] = IF e = d THEN new ELSE collection[e]
  BY <1>1 DEF GroundSound
<1> HIDE DEF new
<1>5. \A e \in WorkDoc : basis'[e] = IF e = d THEN new.rev ELSE basis[e]
  BY <1>1, <1>4 DEF GroundSound
<1>6. HarmOf(d) \subseteq Harm /\ (halfRemoved \/ HarmOf(d) = {})
  BY ExecutesHarmless DEF HarmOf, Harm
<1>7. harm' \in SUBSET (Harm \X BOOLEAN) /\ PublishKeepsWork'
  BY <1>1, <1>6 DEF GroundSound, PublishKeepsWork
<1>8. collection' \in [WorkDoc -> Doc] /\ revision' \in Nat /\ basis' \in [WorkDoc -> Nat]
  BY <1>1, <1>3, <1>4 DEF GroundSound, Doc
<1>9. \A e \in WorkDoc : /\ collection'[e].rev <= revision'
                         /\ collection'[e].rev = 0 => collection'[e] = NoDoc
                         /\ collection'[e].rev # 0 => collection'[e].content # NoFile
  BY <1>1, <1>3, <1>4 DEF GroundSound, Doc
<1>10. GroundSound'
  BY <1>7, <1>8, <1>9 DEF GroundSound
<1>11. \A items : Fits(items) => Fits(items)' /\ (Seen(items) => Seen(items)')
  BY <1>1, <1>3, NewRevision
<1> QED
  BY <1>1, <1>2, <1>3, <1>4, <1>5, <1>10, <1>11

LEMMA PublishStepSound ==
  ASSUME WInv, PublishStep
  PROVE  WInv'
<1>1. /\ UNCHANGED <<workDir, workFile, checkoutRecord, edits, removedByUser, halfRemoved>>
      /\ publisher.step = "publish"
      /\ GroundSound /\ RecordSound /\ Run(publisher) /\ Fits(publisher.memory) /\ Seen(publisher.memory) /\ PlanSound
      /\ ~halfRemoved => Missing(publisher.memory)
  BY DEF PublishStep, WInv, PublishSound, Publishing
<1>2. PICK d \in publisher.todo :
       \/ /\ Executes(d)
          /\ publisher' = [publisher EXCEPT !.todo = @ \ {d}, !.memory = [@ EXCEPT ![d] = collection'[d]]]
       \/ /\ UNCHANGED <<collection, revision, harm, basis>>
          /\ publisher' = [publisher EXCEPT !.todo = @ \ {d}, !.open = @ \cup {d}]
       \/ /\ Executes(d)
          /\ publisher' = [publisher EXCEPT !.todo = @ \ {d}, !.open = @ \cup {d}]
  BY DEF PublishStep
<1>3. d \in WorkDoc /\ publisher.plan[d].content \in Content /\ publisher.plan[d].action \in {"created", "written", "deleted"}
  BY <1>1 DEF Run, PlanSound, TodoSound, Item
<1>4. /\ Run(publisher)' /\ publisher'.step = "publish" /\ publisher'.plan = publisher.plan
      /\ publisher'.allow = publisher.allow /\ publisher'.todo = publisher.todo \ {d}
  <2>1. CASE publisher' = [publisher EXCEPT !.todo = @ \ {d}, !.memory = [@ EXCEPT ![d] = collection'[d]]]
    BY <1>1, <1>3, <2>1 DEF Run, Steps
  <2>2. CASE publisher' = [publisher EXCEPT !.todo = @ \ {d}, !.open = @ \cup {d}]
    BY <1>1, <1>3, <2>2 DEF Run, Steps
  <2> QED
    BY <1>2, <2>1, <2>2
<1>5. CASE /\ UNCHANGED <<collection, revision, harm, basis>>
           /\ publisher' = [publisher EXCEPT !.todo = @ \ {d}, !.open = @ \cup {d}]
  <2>1. publisher'.memory = publisher.memory /\ publisher'.open = publisher.open \cup {d}
    BY <1>1, <1>5 DEF Run
  <2>2. GroundSound' /\ RecordSound'
    BY <1>1, <1>5 DEF GroundSound, PublishKeepsWork, RecordSound, Fits, Seen, Missing
  <2>3. Fits(publisher.memory)' /\ Seen(publisher.memory)' /\ (~halfRemoved => Missing(publisher.memory)')
    BY <1>1, <1>5, <2>1 DEF Fits, Seen, Missing
  <2>4. PlanSound'
    BY <1>1, <1>4, <1>5, <2>1 DEF PlanSound, TodoSound
  <2>5. CheckoutSound' /\ PublishSound'
    BY <1>1, <1>4, <2>3, <2>4 DEF CheckoutSound, PublishSound, Clearing, Writing, Publishing
  <2> QED
    BY <1>4, <2>2, <2>5 DEF WInv
<1>6. CASE Executes(d)
  <2>1. /\ GroundSound'
        /\ \A e \in WorkDoc \ {d} : collection'[e] = collection[e] /\ basis'[e] = basis[e]
        /\ collection'[d] \in Doc /\ basis'[d] = collection'[d].rev /\ revision' = revision + 1
        /\ collection'[d] = NoDoc \/ (/\ collection'[d].content = publisher.plan[d].content
                                     /\ publisher.plan[d].action \in {"created", "written"})
        /\ publisher.plan[d].action # "deleted" => collection'[d].content = publisher.plan[d].content
        /\ \A items : Fits(items) => Fits(items)' /\ (Seen(items) => Seen(items)')
    BY <1>1, <1>3, <1>6, ExecutesGround
  <2>2. RecordSound'
    BY <1>1, <2>1 DEF RecordSound, Missing
  <2>3. Fits(publisher.memory) /\ Seen(publisher.memory) /\ publisher.memory \in [WorkDoc -> Doc]
    BY <1>1 DEF Fits
  <2>4. publisher'.memory = publisher.memory \/ publisher'.memory = [publisher.memory EXCEPT ![d] = collection'[d]]
    BY <1>1, <1>2 DEF Run
  <2>5. ASSUME NEW e \in WorkDoc
        PROVE  publisher'.memory[e] = publisher.memory[e] \/ (e = d /\ publisher'.memory[e] = collection'[e])
    BY <2>3, <2>4
  <2>6. publisher'.memory \in [WorkDoc -> Doc]
    BY <2>1, <2>3, <2>4
  <2>7. Fits(publisher.memory)'
    BY <2>1, <2>3, <2>4, <1>3, <2>5, <2>6 DEF Fits, Seen, GroundSound
  <2>8. Seen(publisher.memory)'
    BY <2>3, <2>1, <2>5 DEF Seen
  <2>9. ASSUME ~halfRemoved PROVE Missing(publisher.memory)'
    BY <1>1, <2>9, <1>3, <2>1, NoFileType, <2>5 DEF PlanSound, Missing
  <2>10. PlanSound'
    <3>1. ASSUME NEW e \in WorkDoc, e \in publisher'.todo PROVE TodoSound(e)'
      BY <1>1, <1>4, <3>1, <2>1 DEF PlanSound, TodoSound
    <3>2. \A e \in WorkDoc : publisher.plan[e].base <= revision'
      BY <1>1, <2>1 DEF PlanSound, Item, GroundSound
    <3>3. ASSUME NEW e \in WorkDoc, e \notin publisher'.todo \cup publisher'.open, publisher.plan[e].content # NoFile
          PROVE  publisher'.memory[e].content = publisher.plan[e].content
      <4>1. CASE e # d
        <5>1. e \notin publisher.todo \cup publisher.open
          BY <1>1, <1>2, <1>4, <3>3, <4>1 DEF Run
        <5>2. publisher'.memory[e] = publisher.memory[e]
          BY <2>5, <4>1
        <5> QED
          BY <1>1, <3>3, <5>1, <5>2 DEF PlanSound
      <4>2. CASE e = d
        <5>1. publisher' = [publisher EXCEPT !.todo = @ \ {d}, !.memory = [@ EXCEPT ![d] = collection'[d]]]
          BY <1>1, <1>2, <3>3, <4>2 DEF Run
        <5>2. publisher'.memory[d] = collection'[d]
          BY <1>1, <1>3, <2>3, <5>1 DEF Run
        <5>3. publisher.plan[d].action # "deleted"
          BY <1>1, <1>3, <3>3, <4>2 DEF PlanSound
        <5> QED
          BY <2>1, <4>2, <5>2, <5>3
      <4> QED
        BY <4>1, <4>2
    <3> QED
      BY <1>1, <1>4, <3>1, <3>2, <3>3 DEF PlanSound
  <2>11. CheckoutSound' /\ PublishSound'
    BY <1>1, <1>4, <2>7, <2>8, <2>9, <2>10 DEF CheckoutSound, PublishSound, Clearing, Writing, Publishing
  <2> QED
    BY <1>4, <2>1, <2>2, <2>11 DEF WInv
<1> QED
  BY <1>2, <1>5, <1>6

LEMMA PublishReadmeSound ==
  ASSUME WInv, PublishReadme
  PROVE  WInv'
<1>1. /\ UNCHANGED <<collection, revision, edits, workDir, workFile, checkoutRecord, basis, removedByUser, halfRemoved, harm>>
      /\ publisher.step = "publish" /\ publisher.todo = {}
      /\ GroundSound /\ RecordSound /\ PublishSound /\ Run(publisher)
  BY DEF PublishReadme, Bystanders, WInv
<1>2. PICK step \in {"clean", "keep record"} :
        publisher' = [publisher EXCEPT !.step = step] /\ (step = "clean" => publisher.open = {})
  BY DEF PublishReadme, Go
<1>3. /\ Run(publisher)' /\ publisher'.step = step /\ publisher'.plan = publisher.plan
      /\ publisher'.memory = publisher.memory /\ publisher'.allow = publisher.allow
      /\ publisher'.todo = publisher.todo /\ publisher'.open = publisher.open
  BY <1>1, <1>2 DEF Run, Steps
<1>4. GroundSound' /\ RecordSound'
  BY <1>1 DEF GroundSound, PublishKeepsWork, RecordSound, Fits, Seen, Missing
<1>5. Fits(publisher.memory) /\ Seen(publisher.memory) /\ PlanSound /\ (~halfRemoved => Missing(publisher.memory))
  BY <1>1 DEF PublishSound, Publishing
<1>6. Fits(publisher.memory)' /\ Seen(publisher.memory)' /\ PlanSound' /\ (~halfRemoved' => Missing(publisher.memory)')
  BY <1>1, <1>3, <1>5 DEF Fits, Seen, Missing, PlanSound, TodoSound
<1>7. CheckoutSound' /\ PublishSound'
  BY <1>1, <1>2, <1>3, <1>6 DEF CheckoutSound, PublishSound, Clearing, Writing, Publishing
<1> QED
  BY <1>3, <1>4, <1>7 DEF WInv

\* All that was planned is done: what the user has written is in the collection.
LEMMA PublishCleansSound ==
  ASSUME WInv, PublishCleans
  PROVE  WInv'
<1>1. /\ UNCHANGED <<collection, revision, edits, checkoutRecord, basis, removedByUser>>
      /\ harm' = (IF Lost = {} THEN harm ELSE harm \cup {<<"lost", halfRemoved>>})
      /\ publisher.step = "clean" /\ RemoveDir("clean record")
      /\ GroundSound /\ RecordSound /\ PublishSound /\ Run(publisher)
  BY DEF PublishCleans, Bystanders, WInv
<1>2. Lost = {}
  <2>1. \A d \in WorkDoc : publisher.plan[d].content # NoFile => publisher.memory[d].content = publisher.plan[d].content
    BY <1>1 DEF PublishSound, Publishing, PlanSound
  <2>2. NoFile.by # "user"
    BY DEF NoFile
  <2> QED
    BY <2>1, <2>2 DEF Lost
<1>3. GroundSound' /\ RecordSound'
  BY <1>1, <1>2, RemoveDirSound DEF GroundSound, PublishKeepsWork, Steps
<1>4. CASE publisher' = Nobody
  BY <1>3, <1>4, IdleEnough DEF WInv
<1>5. CASE publisher' = [publisher EXCEPT !.step = "clean record"]
  BY <1>1, <1>5, <1>3 DEF Run, Steps, CheckoutSound, PublishSound, Clearing, Writing, Publishing, WInv
<1> QED
  BY <1>1, <1>4, <1>5 DEF RemoveDir, Go

LEMMA PublishEndsSound ==
  ASSUME WInv, PublishCleansRecord \/ PublishKeepsRecord
  PROVE  WInv'
<1>1. /\ UNCHANGED <<collection, revision, edits, workDir, workFile, basis, removedByUser, halfRemoved, harm>>
      /\ publisher' = Nobody /\ GroundSound /\ RecordSound /\ PublishSound
  BY DEF PublishCleansRecord, PublishKeepsRecord, RemoveRecord, Bystanders, WInv
<1>2. GroundSound' /\ revision \in Nat
  BY <1>1 DEF GroundSound, PublishKeepsWork
<1>3. CASE checkoutRecord' = NoRecord
  BY <1>1, <1>2, NoRecordSound, <1>3, IdleEnough DEF Fits, Seen, RecordSound, WInv
<1>4. CASE publisher.step = "keep record" /\ checkoutRecord' = [checkoutRecord EXCEPT !.items = publisher.memory]
  BY <1>1, <1>4, <1>2, IdleEnough DEF PublishSound, Publishing, RecordSound, Fits, Seen, Missing, WInv
<1> QED
  BY <1>3, <1>4 DEF PublishCleansRecord, PublishKeepsRecord, RemoveRecord

LEMMA PublisherKilledSound ==
  ASSUME WInv, PublisherKilled
  PROVE  WInv'
  BY IdleEnough DEF PublisherKilled, Bystanders, WInv, GroundSound, PublishKeepsWork, RecordSound, Fits, Seen, Missing

-----------------------------------------------------------------------------
(* The theorems.                                                           *)

LEMMA WorkStarts ==
  ASSUME WorkInit
  PROVE  WInv
<1> DEFINE first == [rev |-> 1, content |-> [by |-> "other", n |-> 1, hints |-> TRUE]]
<1>1. first \in Doc /\ first.rev = 1 /\ first.content # NoFile
  BY DEF Doc, Content, NoFile
<1> HIDE DEF first
<1>2. /\ collection \in [WorkDoc -> Doc] /\ revision = 1
      /\ \A d \in WorkDoc : collection[d] = first \/ collection[d] = NoDoc
  BY <1>1, NoFileType DEF WorkInit, first
<1>3. GroundSound
  <2>1. \A d \in WorkDoc : /\ collection[d].rev <= revision
                           /\ collection[d].rev = 0 => collection[d] = NoDoc
                           /\ collection[d].rev # 0 => collection[d].content # NoFile
    BY <1>1, <1>2, NoFileType
  <2>2. /\ workDir \in BOOLEAN /\ workFile \in [WorkDoc -> Content]
        /\ ~workDir => \A d \in WorkDoc : workFile[d] = NoFile
    BY NoFileType DEF WorkInit
  <2>3. basis \in [WorkDoc -> Nat] /\ removedByUser \in SUBSET WorkDoc /\ edits \in Nat
    BY DEF WorkInit
  <2>4. halfRemoved \in BOOLEAN /\ harm \in SUBSET (Harm \X BOOLEAN)
    BY DEF WorkInit
  <2>5. PublishKeepsWork
    BY DEF WorkInit, PublishKeepsWork
  <2>6. collection \in [WorkDoc -> Doc] /\ revision \in Nat
    BY <1>2
  <2> QED
    BY <2>1, <2>2, <2>3, <2>4, <2>5, <2>6 DEF GroundSound
<1>4. RecordSound
  <2>1. revision \in Nat /\ checkoutRecord = NoRecord
    BY <1>2 DEF WorkInit
  <2> QED
    BY <2>1, NoRecordSound DEF RecordSound
<1>5. Run(publisher) /\ CheckoutSound /\ PublishSound
  BY NobodyIdle DEF WorkInit, CheckoutSound, PublishSound, Clearing, Writing, Publishing
<1> QED
  BY <1>3, <1>4, <1>5 DEF WInv

LEMMA WorkGoesOn ==
  ASSUME WInv, [WorkNext]_workVars
  PROVE  WInv'
<1>1. CASE WorkNext
  BY <1>1, UserEditsSound, OthersChangeSound, CheckoutReadsSound, PublishPlansSound, CheckoutClearsSound,
     CheckoutClearsRecordSound, CheckoutWritesSound, CheckoutFailsSound, CheckoutRecordsSound, PublishStepSound,
     PublishReadmeSound, PublishCleansSound, PublishEndsSound, PublisherKilledSound DEF WorkNext
<1>2. CASE UNCHANGED workVars
  <2>1. /\ UNCHANGED <<collection, revision, edits, workDir, workFile, checkoutRecord, basis, removedByUser, halfRemoved, harm>>
        /\ UNCHANGED publisher
    BY <1>2 DEF workVars
  <2>2. GroundSound' /\ RecordSound' /\ Run(publisher)'
    BY <2>1 DEF WInv, GroundSound, PublishKeepsWork, RecordSound, Fits, Seen, Missing, Run
  <2>3. CheckoutSound'
    BY <2>1 DEF WInv, CheckoutSound, Clearing, Writing, Fits
  <2>4. PublishSound'
    BY <2>1 DEF WInv, PublishSound, Fits, Seen, PlanSound, TodoSound, Missing, Publishing
  <2> QED
    BY <2>2, <2>3, <2>4 DEF WInv
<1> QED
  BY <1>1, <1>2

\* The inductive invariant: record, memory and plan fit the collection wherever the revisions agree, and what they
\* list and is not there the user has removed (docswork.go: checkout, publish).
THEOREM WorkInvariance == WorkSpec => []WInv
<1>1. WorkInit => WInv
  BY WorkStarts
<1>2. WInv /\ [WorkNext]_workVars => WInv'
  BY WorkGoesOn
<1> QED
  BY <1>1, <1>2, PTL DEF WorkSpec

\* Publish overwrites no change the user has not seen, deletes only documents whose files the user removed, changes
\* hints only with permission and takes no unpublished work away, as long as no removal stopped half-way.
THEOREM PublishIsSafe == WorkSpec => []PublishKeepsWork
<1>1. WInv => PublishKeepsWork
  BY DEF WInv, GroundSound
<1> QED
  BY <1>1, WorkInvariance, PTL

-----------------------------------------------------------------------------
(***************************************************************************)
(* The upgrade of the program (ProgramUpgrade): the order of versions, and  *)
(* what calls that overlap, fail and are killed leave behind.               *)
(***************************************************************************)

\* Every inhabited set of numbers has a smallest.
LEMMA SmallestIs == ASSUME NEW S \in SUBSET Nat, S # {} PROVE \E n \in S : \A k \in S : n <= k
<1> DEFINE R == {ss \in Nat \X Nat : ss[1] < ss[2]}
<1>1. IsWellFoundedOn(R, Nat)
  BY NatLessThanWellFounded DEF OpToRel
<1>2. PICK n \in S : \A k \in S : ~(<<k, n>> \in R)
  <2> HIDE DEF R
  <2> QED
    BY <1>1, WFMin
<1>3. ASSUME NEW k \in S PROVE n <= k
  <2>1. ~(<<k, n>> \in R) /\ k \in Nat /\ n \in Nat
    BY <1>2
  <2>2. ~(k < n)
    BY <2>1
  <2> QED
    BY <2>1, <2>2
<1> QED
  BY <1>2, <1>3

\* Versions as parseVersion reads them: three numbers, and the identifiers of a pre-release.
Identifier == {0, 1} \X Nat
Version == {v \in [core : Seq(Nat), pre : Seq(Identifier)] : Len(v.core) = 3}

\* Where two lists differ somewhere, there is a first place; there is no second.
LEMMA FirstDifferenceIs ==
  ASSUME NEW S, NEW a \in Seq(S), NEW b \in Seq(S)
  PROVE  /\ FirstDifference(a, b) = FirstDifference(b, a) /\ FirstDifference(a, b) \subseteq Nat
         /\ \A i, j \in FirstDifference(a, b) : i = j
         /\ FirstDifference(a, b) = {} => \A i \in DOMAIN a \cap DOMAIN b : a[i] = b[i]
<1>1. DOMAIN a = 1..Len(a) /\ DOMAIN b = 1..Len(b) /\ Len(a) \in Nat /\ Len(b) \in Nat
  OBVIOUS
<1>2. FirstDifference(a, b) = FirstDifference(b, a) /\ FirstDifference(a, b) \subseteq Nat
  BY <1>1 DEF FirstDifference
<1>3. ASSUME NEW i \in FirstDifference(a, b), NEW j \in FirstDifference(a, b) PROVE i = j
  BY <1>1, <1>3 DEF FirstDifference
<1>4. ASSUME FirstDifference(a, b) = {}, NEW i \in DOMAIN a \cap DOMAIN b, a[i] # b[i] PROVE FALSE
  <2> DEFINE D == {k \in DOMAIN a \cap DOMAIN b : a[k] # b[k]}
  <2>1. D \in SUBSET Nat /\ D # {}
    BY <1>1, <1>4
  <2>2. PICK n \in D : \A k \in D : n <= k
    <3> HIDE DEF D
    <3> QED
      BY <2>1, SmallestIs
  <2>3. ASSUME NEW k \in 1..(n - 1) PROVE a[k] = b[k]
    BY <1>1, <2>2, <2>3
  <2>4. n \in FirstDifference(a, b)
    BY <2>2, <2>3 DEF FirstDifference
  <2> QED
    BY <1>4, <2>4
<1> QED
  BY <1>2, <1>3, <1>4

\* The lists in order: by the first place where they differ, else by their lengths.
CoreBefore(a, b) == \E i \in FirstDifference(a, b) : a[i] < b[i]
PreBefore(a, b) == \/ \E i \in FirstDifference(a, b) : CompareIdentifier(a[i], b[i])
                   \/ FirstDifference(a, b) = {} /\ Len(a) < Len(b)

LEMMA IdentifiersAreOrdered ==
  ASSUME NEW a \in Identifier, NEW b \in Identifier
  PROVE  /\ ~(CompareIdentifier(a, b) /\ CompareIdentifier(b, a)) /\ ~CompareIdentifier(a, a)
         /\ a # b => CompareIdentifier(a, b) \/ CompareIdentifier(b, a)
         /\ \A c \in Identifier : CompareIdentifier(a, b) /\ CompareIdentifier(b, c) => CompareIdentifier(a, c)
  BY DEF Identifier, CompareIdentifier

LEMMA SameLists ==
  ASSUME NEW S, NEW a \in Seq(S), NEW b \in Seq(S), FirstDifference(a, b) = {}, Len(a) = Len(b)
  PROVE  a = b
<1>1. \A i \in 1..Len(a) : a[i] = b[i]
  BY FirstDifferenceIs
<1> QED
  BY <1>1, SeqEqual

LEMMA CoresAreOrdered ==
  ASSUME NEW a \in Seq(Nat), NEW b \in Seq(Nat), Len(a) = 3, Len(b) = 3
  PROVE  /\ ~(CoreBefore(a, b) /\ CoreBefore(b, a)) /\ ~CoreBefore(a, a)
         /\ a # b => CoreBefore(a, b) \/ CoreBefore(b, a)
<1>1. /\ FirstDifference(a, b) = FirstDifference(b, a) /\ FirstDifference(a, b) \subseteq Nat
      /\ \A i, j \in FirstDifference(a, b) : i = j
  BY FirstDifferenceIs
<1>2. FirstDifference(a, b) = {} => a = b
  BY SameLists
<1>3. \A i \in FirstDifference(a, b) : a[i] \in Nat /\ b[i] \in Nat /\ a[i] # b[i]
  BY DEF FirstDifference
<1>4. FirstDifference(a, a) = {}
  BY DEF FirstDifference
<1>5. ~(CoreBefore(a, b) /\ CoreBefore(b, a))
  BY <1>1, <1>3 DEF CoreBefore
<1>6. a # b => CoreBefore(a, b) \/ CoreBefore(b, a)
  <2> SUFFICES ASSUME NEW i \in FirstDifference(a, b) PROVE CoreBefore(a, b) \/ CoreBefore(b, a)
    BY <1>2
  <2>1. a[i] < b[i] \/ b[i] < a[i]
    BY <1>3
  <2> QED
    BY <1>1, <2>1 DEF CoreBefore
<1> QED
  BY <1>4, <1>5, <1>6 DEF CoreBefore

LEMMA PresAreOrdered ==
  ASSUME NEW a \in Seq(Identifier), NEW b \in Seq(Identifier)
  PROVE  /\ ~(PreBefore(a, b) /\ PreBefore(b, a)) /\ ~PreBefore(a, a)
         /\ a # b => PreBefore(a, b) \/ PreBefore(b, a)
<1>1. /\ FirstDifference(a, b) = FirstDifference(b, a)
      /\ \A i, j \in FirstDifference(a, b) : i = j
  BY FirstDifferenceIs
<1>2. FirstDifference(a, b) = {} /\ Len(a) = Len(b) => a = b
  BY SameLists
<1>3. \A i \in FirstDifference(a, b) : a[i] \in Identifier /\ b[i] \in Identifier /\ a[i] # b[i]
  BY DEF FirstDifference
<1>4. FirstDifference(a, a) = {} /\ Len(a) \in Nat /\ Len(b) \in Nat
  BY DEF FirstDifference
<1>5. ~(PreBefore(a, b) /\ PreBefore(b, a))
  BY <1>1, <1>3, <1>4, IdentifiersAreOrdered DEF PreBefore
<1>6. a # b => PreBefore(a, b) \/ PreBefore(b, a)
  BY <1>1, <1>2, <1>4, <1>3, IdentifiersAreOrdered DEF PreBefore
<1> QED
  BY <1>4, <1>5, <1>6 DEF PreBefore

\* Two lists that first differ where these two do, and agree before.
LEMMA DifferAt ==
  ASSUME NEW S, NEW a \in Seq(S), NEW b \in Seq(S), NEW i \in DOMAIN a \cap DOMAIN b, a[i] # b[i],
         \A k \in 1..(i - 1) : a[k] = b[k]
  PROVE  i \in FirstDifference(a, b)
BY DEF FirstDifference

LEMMA DifferenceIs ==
  ASSUME NEW S, NEW a \in Seq(S), NEW b \in Seq(S), NEW i \in FirstDifference(a, b)
  PROVE  /\ i \in Nat /\ 1 <= i /\ i <= Len(a) /\ i <= Len(b) /\ a[i] \in S /\ b[i] \in S
         /\ Len(a) \in Nat /\ Len(b) \in Nat /\ \A k \in 1..(i - 1) : a[k] = b[k]
  BY DEF FirstDifference

LEMMA CoresAreTransitive ==
  ASSUME NEW a \in Seq(Nat), NEW b \in Seq(Nat), NEW c \in Seq(Nat), CoreBefore(a, b), CoreBefore(b, c)
  PROVE  CoreBefore(a, c)
<1>0. /\ Len(a) \in Nat /\ Len(b) \in Nat /\ Len(c) \in Nat
      /\ DOMAIN a = 1..Len(a) /\ DOMAIN b = 1..Len(b) /\ DOMAIN c = 1..Len(c)
  OBVIOUS
<1>1. PICK i \in FirstDifference(a, b) : a[i] < b[i]
  BY DEF CoreBefore
<1>2. PICK j \in FirstDifference(b, c) : b[j] < c[j]
  BY DEF CoreBefore
<1>3. /\ i \in Nat /\ 1 <= i /\ i <= Len(a) /\ i <= Len(b) /\ a[i] \in Nat /\ b[i] \in Nat
      /\ Len(a) \in Nat /\ Len(b) \in Nat /\ \A k \in 1..(i - 1) : a[k] = b[k]
  BY DifferenceIs
<1>4. /\ j \in Nat /\ 1 <= j /\ j <= Len(b) /\ j <= Len(c) /\ b[j] \in Nat /\ c[j] \in Nat
      /\ Len(b) \in Nat /\ Len(c) \in Nat /\ \A k \in 1..(j - 1) : b[k] = c[k]
  BY DifferenceIs
<1>5. \E m \in DOMAIN a \cap DOMAIN c : a[m] < c[m] /\ a[m] # c[m] /\ \A k \in 1..(m - 1) : a[k] = c[k]
  <2>1. CASE i < j
    <3>1. b[i] = c[i] /\ i \in DOMAIN a \cap DOMAIN c
      BY <1>0, <1>3, <1>4, <2>1
    <3>2. \A k \in 1..(i - 1) : a[k] = c[k]
      BY <1>0, <1>3, <1>4, <2>1
    <3> QED
      BY <1>1, <1>3, <3>1, <3>2
  <2>2. CASE j < i
    <3>1. a[j] = b[j] /\ j \in DOMAIN a \cap DOMAIN c
      BY <1>0, <1>3, <1>4, <2>2
    <3>2. \A k \in 1..(j - 1) : a[k] = c[k]
      BY <1>0, <1>3, <1>4, <2>2
    <3>3. a[j] < c[j] /\ a[j] # c[j]
      BY <1>2, <1>4, <3>1
    <3> QED
      BY <3>1, <3>2, <3>3
  <2>3. CASE i = j
    <3>1. i \in DOMAIN a \cap DOMAIN c
      BY <1>0, <1>3, <1>4, <2>3
    <3>2. a[i] < c[i] /\ a[i] # c[i]
      BY <1>1, <1>2, <1>3, <1>4, <2>3
    <3> QED
      BY <1>0, <1>3, <1>4, <2>3, <3>1, <3>2
  <2> QED
    BY <1>0, <1>3, <1>4, <2>1, <2>2, <2>3
<1> QED
  BY <1>5, DifferAt DEF CoreBefore

LEMMA NoDifference ==
  ASSUME NEW S, NEW a \in Seq(S), NEW b \in Seq(S)
  PROVE  FirstDifference(a, b) = {} <=> \A k \in DOMAIN a \cap DOMAIN b : a[k] = b[k]
BY FirstDifferenceIs DEF FirstDifference

LEMMA PresAreTransitive ==
  ASSUME NEW a \in Seq(Identifier), NEW b \in Seq(Identifier), NEW c \in Seq(Identifier),
         PreBefore(a, b), PreBefore(b, c)
  PROVE  PreBefore(a, c)
<1>0. /\ Len(a) \in Nat /\ Len(b) \in Nat /\ Len(c) \in Nat
      /\ DOMAIN a = 1..Len(a) /\ DOMAIN b = 1..Len(b) /\ DOMAIN c = 1..Len(c)
  OBVIOUS
<1>1. ASSUME NEW m \in DOMAIN a \cap DOMAIN c, CompareIdentifier(a[m], c[m]), \A k \in 1..(m - 1) : a[k] = c[k]
      PROVE  PreBefore(a, c)
  <2>1. a[m] \in Identifier /\ c[m] \in Identifier
    BY <1>1
  <2>2. a[m] # c[m]
    BY <1>1, <2>1, IdentifiersAreOrdered
  <2> QED
    BY <1>1, <2>2, DifferAt DEF PreBefore
<1>2. ASSUME NEW i \in FirstDifference(a, b), CompareIdentifier(a[i], b[i]),
             NEW j \in FirstDifference(b, c), CompareIdentifier(b[j], c[j])
      PROVE  PreBefore(a, c)
  <2>1. /\ i \in Nat /\ 1 <= i /\ i <= Len(a) /\ i <= Len(b) /\ a[i] \in Identifier /\ b[i] \in Identifier
        /\ \A k \in 1..(i - 1) : a[k] = b[k]
    BY DifferenceIs
  <2>2. /\ j \in Nat /\ 1 <= j /\ j <= Len(b) /\ j <= Len(c) /\ b[j] \in Identifier /\ c[j] \in Identifier
        /\ \A k \in 1..(j - 1) : b[k] = c[k]
    BY DifferenceIs
  <2>3. CASE i < j
    BY <1>0, <2>1, <2>2, <2>3, <1>1, <1>2
  <2>4. CASE j < i
    BY <1>0, <2>1, <2>2, <2>4, <1>1, <1>2
  <2>5. CASE i = j
    BY <1>0, <2>1, <2>2, <2>5, <1>2, IdentifiersAreOrdered, <1>1
  <2> QED
    BY <2>1, <2>2, <2>3, <2>4, <2>5
<1>3. ASSUME FirstDifference(a, b) = {}, Len(a) < Len(b), NEW j \in FirstDifference(b, c), CompareIdentifier(b[j], c[j])
      PROVE  PreBefore(a, c)
  <2>1. /\ j \in Nat /\ 1 <= j /\ j <= Len(b) /\ j <= Len(c) /\ \A k \in 1..(j - 1) : b[k] = c[k]
    BY DifferenceIs
  <2>2. \A k \in 1..Len(a) : a[k] = b[k]
    BY <1>0, <1>3, NoDifference
  <2>3. CASE j <= Len(a)
    BY <1>0, <2>1, <2>2, <2>3, <1>1, <1>3
  <2>4. CASE Len(a) < j
    <3>1. \A k \in DOMAIN a \cap DOMAIN c : a[k] = c[k]
      BY <1>0, <2>1, <2>2, <2>4
    <3>2. Len(a) < Len(c)
      BY <1>0, <2>1, <2>4
    <3> QED
      BY <3>1, <3>2, NoDifference DEF PreBefore
  <2> QED
    BY <1>0, <2>1, <2>3, <2>4
<1>4. ASSUME NEW i \in FirstDifference(a, b), CompareIdentifier(a[i], b[i]), FirstDifference(b, c) = {}, Len(b) < Len(c)
      PROVE  PreBefore(a, c)
  <2>1. /\ i \in Nat /\ 1 <= i /\ i <= Len(a) /\ i <= Len(b) /\ \A k \in 1..(i - 1) : a[k] = b[k]
    BY DifferenceIs
  <2>2. \A k \in 1..Len(b) : b[k] = c[k]
    BY <1>0, <1>4, NoDifference
  <2>3. b[i] = c[i] /\ i \in DOMAIN a \cap DOMAIN c /\ \A k \in 1..(i - 1) : a[k] = c[k]
    BY <1>0, <1>4, <2>1, <2>2
  <2> QED
    BY <1>1, <1>4, <2>3
<1>5. ASSUME FirstDifference(a, b) = {}, Len(a) < Len(b), FirstDifference(b, c) = {}, Len(b) < Len(c)
      PROVE  PreBefore(a, c)
  BY <1>0, <1>5, NoDifference DEF PreBefore
<1> QED
  BY <1>2, <1>3, <1>4, <1>5 DEF PreBefore

\* For all versions that can be read: exactly one of "older", "equal" and "newer", and "older" is transitive.
THEOREM VersionsAreOrdered ==
  ASSUME NEW a \in Version, NEW b \in Version
  PROVE  /\ ~(Before(a, b) /\ Before(b, a)) /\ ~Before(a, a)
         /\ a # b => Before(a, b) \/ Before(b, a)
         /\ \A c \in Version : Before(a, b) /\ Before(b, c) => Before(a, c)
<1>1. ASSUME NEW x \in Version, NEW y \in Version
      PROVE  /\ Before(x, y) <=> \/ CoreBefore(x.core, y.core)
                                 \/ /\ x.core = y.core /\ x.pre # <<>>
                                    /\ y.pre = <<>> \/ PreBefore(x.pre, y.pre)
             /\ x.core \in Seq(Nat) /\ x.pre \in Seq(Identifier) /\ Len(x.core) = 3
             /\ x.core = y.core /\ x.pre = y.pre => x = y
  <2>0. x \in [core : Seq(Nat), pre : Seq(Identifier)] /\ y \in [core : Seq(Nat), pre : Seq(Identifier)] /\ Len(x.core) = 3
    BY DEF Version
  <2>1. x.core \in Seq(Nat) /\ x.pre \in Seq(Identifier) /\ y.pre \in Seq(Identifier)
    BY <2>0
  <2>2. x.core = y.core /\ x.pre = y.pre => x = y
    <3>1. x = [core |-> x.core, pre |-> x.pre] /\ y = [core |-> y.core, pre |-> y.pre]
      BY <2>0
    <3> QED
      BY <3>1, Zenon
  <2>3. y.pre = <<>> => ~PreBefore(x.pre, y.pre)
    BY <2>1 DEF PreBefore, FirstDifference
  <2>4. Before(x, y) <=> \/ CoreBefore(x.core, y.core)
                         \/ /\ x.core = y.core /\ x.pre # <<>>
                            /\ y.pre = <<>> \/ PreBefore(x.pre, y.pre)
    BY <2>3, Zenon DEF Before, CoreBefore, PreBefore
  <2> QED
    BY <2>0, <2>1, <2>2, <2>4
<1>2. ~Before(a, a)
  BY <1>1, CoresAreOrdered, PresAreOrdered
<1>3. ~(Before(a, b) /\ Before(b, a))
  BY <1>1, CoresAreOrdered, PresAreOrdered
<1>4. a # b => Before(a, b) \/ Before(b, a)
  BY <1>1, CoresAreOrdered, PresAreOrdered
<1>5. ASSUME NEW c \in Version, Before(a, b), Before(b, c) PROVE Before(a, c)
  BY <1>1, <1>5, CoresAreTransitive, PresAreTransitive
<1> QED
  BY <1>2, <1>3, <1>4, <1>5

\* The versions of Ascending, spelled out.
LEMMA AscendingIs ==
  /\ DOMAIN Ascending = 1..9
  /\ Ascending[1] = [core |-> <<0, 9, 0>>, pre |-> <<>>]
  /\ Ascending[2] = [core |-> <<0, 10, 0>>, pre |-> << <<0, 1>> >>]
  /\ Ascending[3] = [core |-> <<0, 10, 0>>, pre |-> << <<1, 1>>, <<0, 2>> >>]
  /\ Ascending[4] = [core |-> <<0, 10, 0>>, pre |-> << <<1, 1>>, <<0, 10>> >>]
  /\ Ascending[5] = [core |-> <<0, 10, 0>>, pre |-> << <<1, 1>>, <<0, 10>>, <<0, 0>> >>]
  /\ Ascending[6] = [core |-> <<0, 10, 0>>, pre |-> << <<1, 1>>, <<1, 1>> >>]
  /\ Ascending[7] = [core |-> <<0, 10, 0>>, pre |-> << <<1, 2>> >>]
  /\ Ascending[8] = [core |-> <<0, 10, 0>>, pre |-> <<>>]
  /\ Ascending[9] = [core |-> <<1, 0, 0>>, pre |-> <<>>]
BY DEF Ascending, Semver, Pre, Word, Number

LEMMA AscendingAreVersions ==
  ASSUME NEW i \in DOMAIN Ascending
  PROVE  Ascending[i] \in Version
<1>1. /\ <<0, 9, 0>> \in Seq(Nat) /\ <<0, 10, 0>> \in Seq(Nat) /\ <<1, 0, 0>> \in Seq(Nat)
      /\ Len(<<0, 9, 0>>) = 3 /\ Len(<<0, 10, 0>>) = 3 /\ Len(<<1, 0, 0>>) = 3
  OBVIOUS
<1>2. /\ <<0, 1>> \in Identifier /\ <<1, 1>> \in Identifier /\ <<0, 2>> \in Identifier
      /\ <<0, 10>> \in Identifier /\ <<0, 0>> \in Identifier /\ <<1, 2>> \in Identifier
  BY DEF Identifier
<1>3. /\ <<>> \in Seq(Identifier)
      /\ << <<0, 1>> >> \in Seq(Identifier)
      /\ << <<1, 2>> >> \in Seq(Identifier)
      /\ << <<1, 1>>, <<0, 2>> >> \in Seq(Identifier)
      /\ << <<1, 1>>, <<0, 10>> >> \in Seq(Identifier)
      /\ << <<1, 1>>, <<1, 1>> >> \in Seq(Identifier)
      /\ << <<1, 1>>, <<0, 10>>, <<0, 0>> >> \in Seq(Identifier)
  BY <1>2
<1>4. ASSUME NEW c \in Seq(Nat), NEW p \in Seq(Identifier), Len(c) = 3 PROVE [core |-> c, pre |-> p] \in Version
  BY <1>4 DEF Version
<1>5. \/ i = 1 \/ i = 2 \/ i = 3 \/ i = 4 \/ i = 5 \/ i = 6 \/ i = 7 \/ i = 8 \/ i = 9
  BY AscendingIs
<1> QED
  BY <1>1, <1>3, <1>4, <1>5, AscendingIs, Zenon

\* Each comes before the next.
LEMMA AscendingAscends ==
  ASSUME NEW k \in 1..8
  PROVE  Before(Ascending[k], Ascending[k + 1])
<1> DEFINE A == Ascending
<1>0. ASSUME NEW x \in Version, NEW y \in Version
      PROVE  /\ CoreBefore(x.core, y.core) => Before(x, y)
             /\ x.core = y.core /\ x.pre # <<>> /\ y.pre = <<>> => Before(x, y)
             /\ x.core = y.core /\ x.pre # <<>> /\ y.pre # <<>> /\ PreBefore(x.pre, y.pre) => Before(x, y)
  BY Zenon DEF Before, CoreBefore, PreBefore
<1>00. \A i \in 1..9 : A[i] \in Version
  BY AscendingIs, AscendingAreVersions
<1>01. ASSUME NEW x \in Version, NEW y \in Version, 1 \in DOMAIN x.pre \cap DOMAIN y.pre,
              CompareIdentifier(x.pre[1], y.pre[1]), x.pre[1] # y.pre[1]
       PROVE  PreBefore(x.pre, y.pre)
  BY <1>01 DEF FirstDifference, PreBefore
<1>02. ASSUME NEW x \in Version, NEW y \in Version, 2 \in DOMAIN x.pre \cap DOMAIN y.pre, x.pre[1] = y.pre[1],
              CompareIdentifier(x.pre[2], y.pre[2]), x.pre[2] # y.pre[2]
       PROVE  PreBefore(x.pre, y.pre)
  BY <1>02 DEF FirstDifference, PreBefore
<1>1. Before(A[1], A[2])
  <2>1. 2 \in FirstDifference(A[1].core, A[2].core)
    BY AscendingIs DEF FirstDifference
  <2>2. A[1].core[2] < A[2].core[2]
    BY AscendingIs
  <2> QED
    BY <1>0, <1>00, <2>1, <2>2 DEF CoreBefore
<1>2. Before(A[2], A[3])
  <2> DEFINE x == A[2]  y == A[3]
  <2>1. /\ 1 \in DOMAIN x.pre \cap DOMAIN y.pre /\ x.pre[1] = <<0, 1>> /\ y.pre[1] = <<1, 1>>
        /\ x.core = y.core /\ x.pre # <<>> /\ y.pre # <<>>
    BY AscendingIs
  <2>2. CompareIdentifier(x.pre[1], y.pre[1]) /\ x.pre[1] # y.pre[1]
    BY <2>1 DEF CompareIdentifier
  <2>3. PreBefore(x.pre, y.pre)
    <3>1. x \in Version /\ y \in Version
      BY <1>00
    <3> HIDE DEF x, y
    <3> QED
      BY <3>1, <1>01, <2>1, <2>2
  <2> QED
    BY <1>0, <1>00, <2>1, <2>3
<1>3. Before(A[3], A[4])
  <2> DEFINE x == A[3]  y == A[4]
  <2>1. /\ 2 \in DOMAIN x.pre \cap DOMAIN y.pre /\ x.pre[2] = <<0, 2>> /\ y.pre[2] = <<0, 10>> /\ x.pre[1] = y.pre[1]
        /\ x.core = y.core /\ x.pre # <<>> /\ y.pre # <<>>
    BY AscendingIs
  <2>2. CompareIdentifier(x.pre[2], y.pre[2]) /\ x.pre[2] # y.pre[2]
    BY <2>1 DEF CompareIdentifier
  <2>3. PreBefore(x.pre, y.pre)
    <3>1. x \in Version /\ y \in Version
      BY <1>00
    <3> HIDE DEF x, y
    <3> QED
      BY <3>1, <1>02, <2>1, <2>2
  <2> QED
    BY <1>0, <1>00, <2>1, <2>3
<1>4. Before(A[4], A[5])
  <2> DEFINE x == A[4]  y == A[5]
  <2>1. /\ DOMAIN x.pre = 1..2 /\ DOMAIN y.pre = 1..3 /\ Len(x.pre) < Len(y.pre)
        /\ x.pre[1] = y.pre[1] /\ x.pre[2] = y.pre[2] /\ x.core = y.core /\ x.pre # <<>> /\ y.pre # <<>>
    BY AscendingIs
  <2>2. FirstDifference(x.pre, y.pre) = {}
    BY <2>1 DEF FirstDifference
  <2>3. PreBefore(x.pre, y.pre)
    BY <2>1, <2>2 DEF PreBefore
  <2> QED
    BY <1>0, <1>00, <2>1, <2>3
<1>5. Before(A[5], A[6])
  <2> DEFINE x == A[5]  y == A[6]
  <2>1. /\ 2 \in DOMAIN x.pre \cap DOMAIN y.pre /\ x.pre[2] = <<0, 10>> /\ y.pre[2] = <<1, 1>> /\ x.pre[1] = y.pre[1]
        /\ x.core = y.core /\ x.pre # <<>> /\ y.pre # <<>>
    BY AscendingIs
  <2>2. CompareIdentifier(x.pre[2], y.pre[2]) /\ x.pre[2] # y.pre[2]
    BY <2>1 DEF CompareIdentifier
  <2>3. PreBefore(x.pre, y.pre)
    <3>1. x \in Version /\ y \in Version
      BY <1>00
    <3> HIDE DEF x, y
    <3> QED
      BY <3>1, <1>02, <2>1, <2>2
  <2> QED
    BY <1>0, <1>00, <2>1, <2>3
<1>6. Before(A[6], A[7])
  <2> DEFINE x == A[6]  y == A[7]
  <2>1. /\ 1 \in DOMAIN x.pre \cap DOMAIN y.pre /\ x.pre[1] = <<1, 1>> /\ y.pre[1] = <<1, 2>>
        /\ x.core = y.core /\ x.pre # <<>> /\ y.pre # <<>>
    BY AscendingIs
  <2>2. CompareIdentifier(x.pre[1], y.pre[1]) /\ x.pre[1] # y.pre[1]
    BY <2>1 DEF CompareIdentifier
  <2>3. PreBefore(x.pre, y.pre)
    <3>1. x \in Version /\ y \in Version
      BY <1>00
    <3> HIDE DEF x, y
    <3> QED
      BY <3>1, <1>01, <2>1, <2>2
  <2> QED
    BY <1>0, <1>00, <2>1, <2>3
<1>7. Before(A[7], A[8])
  <2>1. A[7].core = A[8].core /\ A[7].pre # <<>> /\ A[8].pre = <<>>
    BY AscendingIs
  <2> QED
    BY <1>0, <1>00, <2>1
<1>8. Before(A[8], A[9])
  <2>1. 1 \in FirstDifference(A[8].core, A[9].core)
    BY AscendingIs DEF FirstDifference
  <2>2. A[8].core[1] < A[9].core[1]
    BY AscendingIs
  <2> QED
    BY <1>0, <1>00, <2>1, <2>2 DEF CoreBefore
<1> HIDE DEF A
<1>9. \/ k = 1 \/ k = 2 \/ k = 3 \/ k = 4 \/ k = 5 \/ k = 6 \/ k = 7 \/ k = 8
  OBVIOUS
<1>10. Before(A[k], A[k + 1])
  BY <1>1, <1>2, <1>3, <1>4, <1>5, <1>6, <1>7, <1>8, <1>9
<1> QED
  BY <1>10 DEF A

\* What is to the left comes before what is to the right.
LEMMA AscendingOrder ==
  ASSUME NEW i \in 1..9, NEW j \in 1..9, i < j
  PROVE  Before(Ascending[i], Ascending[j])
<1> DEFINE P(x, y) == Before(Ascending[x], Ascending[y])
<1>1. \A x, y, z \in 1..9 : P(x, y) /\ P(y, z) => P(x, z)
  BY AscendingIs, AscendingAreVersions, VersionsAreOrdered
<1>2. \A x \in 1..8 : P(x, x + 1)
  BY AscendingAscends
<1> DEFINE Q(y) == \A x \in 1..9 : x < y => P(x, y)
<1> HIDE DEF P
<1>3. ASSUME NEW y \in 1..8, Q(y) PROVE Q(y + 1)
  BY <1>1, <1>2, <1>3
<1>4. Q(1)
  OBVIOUS
<1> HIDE DEF Q
<1>5. Q(2) /\ Q(3) /\ Q(4)
  BY <1>3, <1>4
<1>6. Q(5) /\ Q(6) /\ Q(7)
  BY <1>3, <1>5
<1>7. Q(8) /\ Q(9)
  BY <1>3, <1>6
<1>8. Q(j)
  BY <1>4, <1>5, <1>6, <1>7
<1> QED
  BY <1>8 DEF P, Q

\* Compare on two readable versions.
LEMMA CompareIs ==
  ASSUME NEW a \in Version, NEW b \in Version
  PROVE  /\ Before(a, b) => Compare(a, b) = "older" /\ Compare(b, a) = "newer"
         /\ Compare(a, a) = "equal" /\ Compare(a, b) \in {"older", "equal", "newer"}
  BY VersionsAreOrdered DEF Version, Readable, Compare

LEMMA SemverHolds == OrderIsSemver
  BY AscendingIs, AscendingAreVersions, AscendingOrder, CompareIs DEF OrderIsSemver

\* The releases of the model follow that order; a place without a readable version is neither older nor newer.
LEMMA ReleasesAreOrdered ==
  /\ Len(Release) = 3
  /\ \A i, j \in 0..3 : IsOlder(i, j) <=> 1 <= i /\ i < j
  /\ \A i, j \in 0..3 : Compare(VersionOf(i), VersionOf(j)) \in {"equal", "newer"} <=> 1 <= j /\ j <= i
<1>1. /\ Len(Release) = 3 /\ DOMAIN Release = 1..3
      /\ Release[1] = Ascending[3] /\ Release[2] = Ascending[4] /\ Release[3] = Ascending[8]
  BY DEF Release
<1>2. ~Readable(VersionOf(0)) /\ VersionOf(0) = [core |-> <<>>, pre |-> <<>>]
  BY <1>1 DEF VersionOf, NoVersion, Semver, Readable
<1> DEFINE C(i, j) == Compare(VersionOf(i), VersionOf(j))
<1>3. ASSUME NEW i \in 0..3 PROVE C(i, 0) = "unknown" /\ C(0, i) = "unknown"
  <2>1. /\ ~Before(VersionOf(i), VersionOf(0)) /\ ~Before(VersionOf(0), VersionOf(i))
    <3>1. i = 0 \/ VersionOf(i) \in Version
      <4>1. 3 \in DOMAIN Ascending /\ 4 \in DOMAIN Ascending /\ 8 \in DOMAIN Ascending
        BY AscendingIs
      <4>2. i = 0 \/ i = 1 \/ i = 2 \/ i = 3
        OBVIOUS
      <4>3. 1 \in DOMAIN Release /\ 2 \in DOMAIN Release /\ 3 \in DOMAIN Release
        BY <1>1
      <4> QED
        BY <1>1, <4>1, <4>2, <4>3, AscendingAreVersions, Zenon DEF VersionOf
    <3>2. VersionOf(0).core = <<>> /\ VersionOf(0).pre = <<>>
      BY <1>2
    <3>3. ASSUME NEW s PROVE FirstDifference(s, <<>>) = {} /\ FirstDifference(<<>>, s) = {}
      <4>1. DOMAIN <<>> = {}
        OBVIOUS
      <4>2. DOMAIN s \cap DOMAIN <<>> = {} /\ DOMAIN <<>> \cap DOMAIN s = {}
        BY <4>1, Zenon
      <4> QED
        BY <4>2, Zenon DEF FirstDifference
    <3>4. i = 0 \/ VersionOf(i).core # <<>>
      <4>1. CASE VersionOf(i) \in Version
        <5>1. Len(VersionOf(i).core) = 3
          BY <4>1 DEF Version
        <5>2. Len(<<>>) = 0
          OBVIOUS
        <5> QED
          BY <5>1, <5>2
      <4> QED
        BY <3>1, <4>1
    <3> QED
      BY <3>2, <3>3, <3>4, Zenon DEF Before
  <2> QED
    BY <1>2, <2>1, Zenon DEF Compare
<1>4. /\ VersionOf(1) = Ascending[3] /\ VersionOf(2) = Ascending[4] /\ VersionOf(3) = Ascending[8]
  BY <1>1 DEF VersionOf
<1>5. /\ C(1, 2) = "older" /\ C(1, 3) = "older" /\ C(2, 3) = "older"
      /\ C(2, 1) = "newer" /\ C(3, 1) = "newer" /\ C(3, 2) = "newer"
      /\ C(1, 1) = "equal" /\ C(2, 2) = "equal" /\ C(3, 3) = "equal"
  <2>1. ASSUME NEW x \in {3, 4, 8}, NEW y \in {3, 4, 8}
        PROVE  Compare(Ascending[x], Ascending[y]) = (IF x < y THEN "older" ELSE IF x > y THEN "newer" ELSE "equal")
    BY SemverHolds, AscendingIs DEF OrderIsSemver
  <2> QED
    BY <1>4, <2>1
<1> HIDE DEF C
<1>6. ASSUME NEW i \in 0..3, NEW j \in 0..3
      PROVE  /\ C(i, j) = "older" <=> 1 <= i /\ i < j
             /\ C(i, j) \in {"equal", "newer"} <=> 1 <= j /\ j <= i
  BY <1>3, <1>5
<1> QED
  BY <1>1, <1>6 DEF C, IsOlder

-----------------------------------------------------------------------------
(* The invariant of the upgrade.                                           *)

Place == 0..3
AttemptRecord ==
  [op : Ops \cup {"none"}, step : UpgradeSteps, running : Place, before : Place, version : Place, pulled : BOOLEAN,
   installed : BOOLEAN, script : Place, stepBy : Place, stepDone : BOOLEAN, error : BOOLEAN,
   tried : BOOLEAN, told : BOOLEAN, unclosed : BOOLEAN, alone : BOOLEAN, foretold : {"none", "installs", "installs nothing"}]

UpgradeTypes ==
  /\ remote \in 1..3 /\ clone \in Place /\ clone <= remote /\ target \in Place /\ serving \in Place
  /\ readOnly \in {"yes", "no", "left"} /\ kephalaion \in BOOLEAN /\ entries \in BOOLEAN
  /\ address \in {"ssh", "https", "alias"} /\ found \in {"target", "other"} /\ updateMu \in UpgradeCall \cup {"free"}
  /\ attempt \in [UpgradeCall -> AttemptRecord]
  /\ upgradeCalls \in 0..MaxUpgradeCalls /\ upgradeFaults \in 0..MaxUpgradeFaults

PageOps == {"page update", "page program"}
Pulling == {"writable", "switch", "pull"}
Replacing == {"move", "kephalaion script", "verify"}
ToReplace == Pulling \cup {"repair", "protect", "status", "install", "script", "move"}
Reported == {"kephalaion", "project", "end"}

\* What holds of a call whatever the others do: a call of the page holds the lock, and what it
\* puts in place is newer than the server; once a pull has come through the call
\* has set about the entries, and where they are old still it says so; it has done it without
\* a pull only where the clone could not be protected; at the end it has done it or says why not.
OfThePage(c, r, cl, sv, mu) ==
  /\ r.step \notin {"kephalaion", "project"}
  /\ mu = c
  /\ r.step # "end" => r.running = sv
  /\ r.step \in {"install", "script"} => 1 <= r.running /\ r.running < cl
  /\ r.step \in Replacing \cup {"restart"} => 1 <= r.running /\ r.running < r.script
Shared(c, r, cl, en, sv, mu) ==
  /\ (r.op = "none") <=> (r.step = "idle")
  /\ r.op = "upgrade" => r.step # "restart"
  /\ r.op \in PageOps => OfThePage(c, r, cl, sv, mu)
  /\ r.version <= cl
  /\ r.step \in Replacing => r.script <= cl
  /\ r.step \in Pulling => ~r.pulled
  /\ r.step = "repair" => r.pulled
  /\ r.step \in Pulling \cup {"repair"} => ~r.tried
  /\ (r.step \notin Pulling \cup {"repair"} /\ r.pulled) => r.tried /\ (en => r.told)
  /\ (r.tried /\ ~r.unclosed /\ r.step # "end") => r.pulled
  /\ r.stepDone => r.step = "end"
  /\ (r.op = "upgrade" /\ r.step = "end") => (r.tried \/ r.told) /\ (en => r.told)

\* What holds of a call that nobody has disturbed: what the script puts in place is the
\* clone's and newer than what lay there, and what --check has said comes true.
Lone(r, cl, rm, tg, fo) ==
  (r.alone /\ r.step # "idle") =>
  /\ r.step \in {"script", "move"} => 1 <= tg /\ tg < cl
  /\ r.step \in Replacing => r.script = cl
  /\ r.step \in {"kephalaion script", "verify"} => tg = cl
  /\ r.installed => tg = cl /\ r.step \in {"kephalaion", "project", "restart", "end"}
  /\ (r.installed /\ r.stepDone) => r.stepBy = cl
  /\ (r.op = "upgrade" /\ r.foretold # "none") =>
       /\ cl = rm /\ 1 <= cl
       /\ r.step \in ToReplace => r.running = tg
       /\ r.foretold = "installs" <=> (1 <= r.running /\ r.running < cl /\ fo = "target")
       /\ r.step \in Replacing \cup {"install", "script"} => r.foretold = "installs"
       /\ (r.step \in Reported /\ ~r.error) => (r.installed <=> r.foretold = "installs")

UpgradeInv ==
  /\ UpgradeTypes
  /\ \A c \in UpgradeCall : Shared(c, attempt[c], clone, entries, serving, updateMu)
  /\ \A c \in UpgradeCall : Lone(attempt[c], clone, remote, target, found)
  /\ \A c, x \in UpgradeCall : (attempt[c].alone /\ attempt[c].step # "idle" /\ x # c) => attempt[x].step = "idle"
  /\ ProtectedAgain
  /\ upgradeHarm = {}

\* A call that takes a step, and what that step leaves of the rest.
LEMMA CallStep ==
  ASSUME UpgradeInv, NEW c \in UpgradeCall, NEW q \in AttemptRecord, attempt[c].step # "idle",
         attempt' = [attempt EXCEPT ![c] = q], (q.alone /\ q.step # "idle") => attempt[c].alone,
         Shared(c, q, clone', entries', serving', updateMu'), Lone(q, clone', remote', target', found'),
         remote' = remote, clone' \in {clone, remote}, target' \in Place, serving' \in Place,
         readOnly' \in {"yes", "no", "left"}, kephalaion' \in BOOLEAN, entries' \in BOOLEAN, entries' => entries,
         address' \in {"ssh", "https", "alias"}, found' = found, updateMu' \in UpgradeCall \cup {"free"},
         updateMu # c => updateMu' = updateMu /\ serving' = serving,
         upgradeCalls' = upgradeCalls, upgradeFaults' \in 0..MaxUpgradeFaults,
         readOnly' = "no" => \/ q.step \in Opened
                             \/ readOnly = "no" /\ attempt[c].step \notin Opened,
         upgradeHarm' = {}
  PROVE  UpgradeInv'
<1>1. UpgradeTypes /\ clone \in Place /\ remote \in Place /\ clone <= remote /\ attempt \in [UpgradeCall -> AttemptRecord]
  BY DEF UpgradeInv, UpgradeTypes, Place
<1>2. clone' \in Place /\ clone' <= remote' /\ clone <= clone'
  BY <1>1 DEF Place
<1>3. attempt'[c] = q /\ \A x \in UpgradeCall : x # c => attempt'[x] = attempt[x]
  BY <1>1
<1>4. UpgradeTypes'
  BY <1>1, <1>2 DEF UpgradeTypes
<1>5. ASSUME NEW x \in UpgradeCall, x # c
      PROVE  Shared(x, attempt[x], clone', entries', serving', updateMu')
  <2> DEFINE r == attempt[x]
  <2>1. r \in AttemptRecord /\ Shared(x, r, clone, entries, serving, updateMu)
    BY <1>1 DEF UpgradeInv
  <2>2. r.version \in Place /\ r.running \in Place /\ r.script \in Place
    BY <2>1 DEF AttemptRecord
  <2>3. r.version \in Int /\ r.running \in Int /\ r.script \in Int /\ clone \in Int /\ clone' \in Int
    BY <1>1, <1>2, <2>2 DEF Place
  <2> HIDE DEF r
  <2>4. r.version <= clone' /\ (r.step \in Replacing => r.script <= clone')
    BY <1>2, <2>1, <2>3 DEF Shared
  <2>5. r.op \in PageOps => OfThePage(x, r, clone', serving', updateMu')
    BY <2>1, <1>5, <1>2, <2>3 DEF Shared, OfThePage
  <2>6. ~entries => ~entries'
    OBVIOUS
  <2>7. Shared(x, r, clone', entries', serving', updateMu')
    BY <2>1, <2>4, <2>5, <2>6 DEF Shared
  <2> QED
    BY <2>7 DEF r
<1>6. ASSUME NEW x \in UpgradeCall, x # c
      PROVE  Lone(attempt[x], clone', remote', target', found') /\ (attempt[x].alone => attempt[x].step = "idle")
  BY <1>6 DEF UpgradeInv, Lone
<1>7. \A x \in UpgradeCall : /\ Shared(x, attempt'[x], clone', entries', serving', updateMu')
                             /\ Lone(attempt'[x], clone', remote', target', found')
  BY <1>3, <1>5, <1>6
<1>8. ASSUME NEW y \in UpgradeCall, NEW x \in UpgradeCall, attempt'[y].alone, attempt'[y].step # "idle", x # y
      PROVE  attempt'[x].step = "idle"
  BY <1>3, <1>8, <1>6 DEF UpgradeInv
<1>9. ProtectedAgain'
  BY <1>3 DEF UpgradeInv, ProtectedAgain
<1> QED
  BY <1>4, <1>7, <1>8, <1>9 DEF UpgradeInv

LEMMA CallIs ==
  ASSUME UpgradeInv, NEW c \in UpgradeCall
  PROVE  /\ attempt[c] \in AttemptRecord /\ Shared(c, attempt[c], clone, entries, serving, updateMu)
         /\ Lone(attempt[c], clone, remote, target, found)
         /\ clone \in Int /\ target \in Int /\ remote \in Int /\ serving \in Int
         /\ attempt[c].running \in Int /\ attempt[c].script \in Int /\ attempt[c].version \in Int
<1>1. UpgradeTypes /\ attempt[c] \in AttemptRecord
  BY DEF UpgradeInv, UpgradeTypes
<1>2. clone \in Int /\ target \in Int /\ remote \in Int /\ serving \in Int
  BY <1>1 DEF UpgradeTypes, Place
<1>3. attempt[c].running \in Place /\ attempt[c].script \in Place /\ attempt[c].version \in Place
  BY <1>1 DEF AttemptRecord
<1>4. attempt[c].running \in Int /\ attempt[c].script \in Int /\ attempt[c].version \in Int
  BY <1>3 DEF Place
<1> QED
  BY <1>1, <1>2, <1>4 DEF UpgradeInv

LEMMA FaultCounts == ASSUME UpgradeTypes, UpgradeFault PROVE upgradeFaults' \in 0..MaxUpgradeFaults
  BY UpgradeAssumption DEF UpgradeTypes, UpgradeFault

LEMMA MakeWritableKeeps ==
  ASSUME UpgradeInv, NEW c \in UpgradeCall, MakeWritable(c)
  PROVE  UpgradeInv'
<1> DEFINE r == attempt[c]
<1>0. r.step = "writable"
  BY DEF MakeWritable
<1>1. /\ UpgradeTypes /\ upgradeHarm = {} /\ r \in AttemptRecord
      /\ Shared(c, r, clone, entries, serving, updateMu) /\ Lone(r, clone, remote, target, found)
      /\ clone \in Int /\ target \in Int /\ remote \in Int /\ serving \in Int
      /\ r.running \in Int /\ r.script \in Int /\ r.version \in Int
      /\ clone \in Place /\ target \in Place /\ remote \in Place /\ serving \in Place /\ clone <= remote
  BY CallIs DEF UpgradeInv, UpgradeTypes, Place
<1>2. ASSUME readOnly' = "no", Now(c, "switch"), upgradeFaults' = upgradeFaults,
             UNCHANGED <<remote, clone, address, target, found, kephalaion>>,
             UNCHANGED <<entries, serving, updateMu, upgradeCalls, upgradeHarm>>
      PROVE  UpgradeInv'
  <2> DEFINE q == [r EXCEPT !.step = "switch"]
  <2>1. attempt' = [attempt EXCEPT ![c] = q]
    BY <1>0, <1>2 DEF Now, Fails
  <2>2. /\ remote' = remote /\ clone' = clone /\ readOnly' = "no"
        /\ address' = address /\ target' = target /\ found' = found
        /\ kephalaion' = kephalaion /\ entries' = entries /\ serving' = serving
        /\ updateMu' = updateMu /\ upgradeCalls' = upgradeCalls /\ upgradeFaults' = upgradeFaults
        /\ upgradeHarm' = {}
    BY <1>0, <1>1, <1>2, FaultCounts
  <2>3. /\ q.op = r.op /\ q.step = "switch" /\ q.running = r.running /\ q.before = r.before
        /\ q.version = r.version /\ q.pulled = r.pulled /\ q.installed = r.installed /\ q.script = r.script
        /\ q.tried = r.tried /\ q.told = r.told /\ q.unclosed = r.unclosed
        /\ q.stepBy = r.stepBy /\ q.stepDone = r.stepDone /\ q.error = r.error
        /\ q.alone = r.alone /\ q.foretold = r.foretold
    BY <1>1 DEF AttemptRecord
  <2>4. q \in AttemptRecord
    BY <1>1, <1>2 DEF AttemptRecord, UpgradeSteps
  <2> HIDE DEF q
  <2>5. Shared(c, q, clone', entries', serving', updateMu')
    BY <1>0, <1>1, <1>2, <2>2, <2>3 DEF Shared, OfThePage, PageOps, Pulling, Replacing, Ops
  <2>6. Lone(q, clone', remote', target', found')
    BY <1>0, <1>1, <1>2, <2>2, <2>3 DEF Lone, Shared, OfThePage, PageOps, Pulling, Replacing, ToReplace, Reported
  <2>7. readOnly' = "no" => q.step \in Opened \/ (readOnly = "no" /\ r.step \notin Opened)
    BY <1>0, <1>2, <2>2, <2>3 DEF Opened
  <2> QED
    BY <1>0, <1>1, <2>1, <2>2, <2>3, <2>4, <2>5, <2>6, <2>7, CallStep DEF UpgradeTypes, Place
<1>3. ASSUME Fails(c, "status"), readOnly' \in {readOnly, "left"},
             UNCHANGED <<remote, clone, address, target, found, kephalaion>>,
             UNCHANGED <<entries, serving, updateMu, upgradeCalls, upgradeHarm>>
      PROVE  UpgradeInv'
  <2> DEFINE q == [r EXCEPT !.step = "status", !.error = TRUE]
  <2>1. attempt' = [attempt EXCEPT ![c] = q]
    BY <1>0, <1>3 DEF Now, Fails
  <2>2. /\ remote' = remote /\ clone' = clone /\ readOnly' \in {readOnly, "left"}
        /\ address' = address /\ target' = target /\ found' = found
        /\ kephalaion' = kephalaion /\ entries' = entries /\ serving' = serving
        /\ updateMu' = updateMu /\ upgradeCalls' = upgradeCalls /\ upgradeFaults' \in 0..MaxUpgradeFaults
        /\ upgradeHarm' = {}
    BY <1>0, <1>1, <1>3, FaultCounts DEF Fails
  <2>3. /\ q.op = r.op /\ q.step = "status" /\ q.running = r.running /\ q.before = r.before
        /\ q.version = r.version /\ q.pulled = r.pulled /\ q.installed = r.installed /\ q.script = r.script
        /\ q.tried = r.tried /\ q.told = r.told /\ q.unclosed = r.unclosed
        /\ q.stepBy = r.stepBy /\ q.stepDone = r.stepDone /\ q.error = TRUE
        /\ q.alone = r.alone /\ q.foretold = r.foretold
    BY <1>1 DEF AttemptRecord
  <2>4. q \in AttemptRecord
    BY <1>1, <1>3 DEF AttemptRecord, UpgradeSteps
  <2> HIDE DEF q
  <2>5. Shared(c, q, clone', entries', serving', updateMu')
    BY <1>0, <1>1, <1>3, <2>2, <2>3 DEF Shared, OfThePage, PageOps, Pulling, Replacing, Ops
  <2>6. Lone(q, clone', remote', target', found')
    BY <1>0, <1>1, <1>3, <2>2, <2>3 DEF Lone, Shared, OfThePage, PageOps, Pulling, Replacing, ToReplace, Reported
  <2>7. readOnly' = "no" => q.step \in Opened \/ (readOnly = "no" /\ r.step \notin Opened)
    BY <1>0, <1>3, <2>2, <2>3 DEF Opened
  <2> QED
    BY <1>0, <1>1, <2>1, <2>2, <2>3, <2>4, <2>5, <2>6, <2>7, CallStep DEF UpgradeTypes, Place
<1> QED
  BY <1>0, <1>1, <1>2, <1>3 DEF MakeWritable

LEMMA UsePublicRemoteKeeps ==
  ASSUME UpgradeInv, NEW c \in UpgradeCall, UsePublicRemote(c)
  PROVE  UpgradeInv'
<1> DEFINE r == attempt[c]
<1>0. r.step = "switch"
  BY DEF UsePublicRemote
<1>1. /\ UpgradeTypes /\ upgradeHarm = {} /\ r \in AttemptRecord
      /\ Shared(c, r, clone, entries, serving, updateMu) /\ Lone(r, clone, remote, target, found)
      /\ clone \in Int /\ target \in Int /\ remote \in Int /\ serving \in Int
      /\ r.running \in Int /\ r.script \in Int /\ r.version \in Int
      /\ clone \in Place /\ target \in Place /\ remote \in Place /\ serving \in Place /\ clone <= remote
  BY CallIs DEF UpgradeInv, UpgradeTypes, Place
<1>2. ASSUME address' = PublicRemote(address), Now(c, "pull"), upgradeFaults' = upgradeFaults,
             UNCHANGED <<remote, clone, readOnly, target, found, kephalaion>>,
             UNCHANGED <<entries, serving, updateMu, upgradeCalls, upgradeHarm>>
      PROVE  UpgradeInv'
  <2> DEFINE q == [r EXCEPT !.step = "pull"]
  <2>1. attempt' = [attempt EXCEPT ![c] = q]
    BY <1>0, <1>2 DEF Now, Fails
  <2>2. /\ remote' = remote /\ clone' = clone /\ readOnly' = readOnly
        /\ address' \in {"ssh", "https", "alias"} /\ target' = target /\ found' = found
        /\ kephalaion' = kephalaion /\ entries' = entries /\ serving' = serving
        /\ updateMu' = updateMu /\ upgradeCalls' = upgradeCalls /\ upgradeFaults' = upgradeFaults
        /\ upgradeHarm' = {}
    BY <1>0, <1>1, <1>2, FaultCounts DEF PublicRemote, UpgradeTypes
  <2>3. /\ q.op = r.op /\ q.step = "pull" /\ q.running = r.running /\ q.before = r.before
        /\ q.version = r.version /\ q.pulled = r.pulled /\ q.installed = r.installed /\ q.script = r.script
        /\ q.tried = r.tried /\ q.told = r.told /\ q.unclosed = r.unclosed
        /\ q.stepBy = r.stepBy /\ q.stepDone = r.stepDone /\ q.error = r.error
        /\ q.alone = r.alone /\ q.foretold = r.foretold
    BY <1>1 DEF AttemptRecord
  <2>4. q \in AttemptRecord
    BY <1>1, <1>2 DEF AttemptRecord, UpgradeSteps
  <2> HIDE DEF q
  <2>5. Shared(c, q, clone', entries', serving', updateMu')
    BY <1>0, <1>1, <1>2, <2>2, <2>3 DEF Shared, OfThePage, PageOps, Pulling, Replacing, Ops
  <2>6. Lone(q, clone', remote', target', found')
    BY <1>0, <1>1, <1>2, <2>2, <2>3 DEF Lone, Shared, OfThePage, PageOps, Pulling, Replacing, ToReplace, Reported
  <2>7. readOnly' = "no" => q.step \in Opened \/ (readOnly = "no" /\ r.step \notin Opened)
    BY <1>0, <1>2, <2>2, <2>3 DEF Opened
  <2> QED
    BY <1>0, <1>1, <2>1, <2>2, <2>3, <2>4, <2>5, <2>6, <2>7, CallStep DEF UpgradeTypes, Place
<1> QED
  BY <1>0, <1>1, <1>2 DEF UsePublicRemote

LEMMA PullKeeps ==
  ASSUME UpgradeInv, NEW c \in UpgradeCall, Pull(c)
  PROVE  UpgradeInv'
<1> DEFINE r == attempt[c]
<1>0. r.step = "pull"
  BY DEF Pull
<1>1. /\ UpgradeTypes /\ upgradeHarm = {} /\ r \in AttemptRecord
      /\ Shared(c, r, clone, entries, serving, updateMu) /\ Lone(r, clone, remote, target, found)
      /\ clone \in Int /\ target \in Int /\ remote \in Int /\ serving \in Int
      /\ r.running \in Int /\ r.script \in Int /\ r.version \in Int
      /\ clone \in Place /\ target \in Place /\ remote \in Place /\ serving \in Place /\ clone <= remote
  BY CallIs DEF UpgradeInv, UpgradeTypes, Place
<1>2. ASSUME clone' = remote, upgradeFaults' = upgradeFaults,
             attempt' = [attempt EXCEPT ![c].step = "repair", ![c].pulled = TRUE, ![c].version = remote],
             UNCHANGED <<remote, readOnly, address, target, found, kephalaion>>,
             UNCHANGED <<entries, serving, updateMu, upgradeCalls, upgradeHarm>>
      PROVE  UpgradeInv'
  <2> DEFINE q == [r EXCEPT !.step = "repair", !.version = remote, !.pulled = TRUE]
  <2>1. attempt' = [attempt EXCEPT ![c] = q]
    BY <1>0, <1>2 DEF Now, Fails
  <2>2. /\ remote' = remote /\ clone' = remote /\ readOnly' = readOnly
        /\ address' = address /\ target' = target /\ found' = found
        /\ kephalaion' = kephalaion /\ entries' = entries /\ serving' = serving
        /\ updateMu' = updateMu /\ upgradeCalls' = upgradeCalls /\ upgradeFaults' = upgradeFaults
        /\ upgradeHarm' = {}
    BY <1>0, <1>1, <1>2, FaultCounts
  <2>3. /\ q.op = r.op /\ q.step = "repair" /\ q.running = r.running /\ q.before = r.before
        /\ q.version = remote /\ q.pulled = TRUE /\ q.installed = r.installed /\ q.script = r.script
        /\ q.tried = r.tried /\ q.told = r.told /\ q.unclosed = r.unclosed
        /\ q.stepBy = r.stepBy /\ q.stepDone = r.stepDone /\ q.error = r.error
        /\ q.alone = r.alone /\ q.foretold = r.foretold
    BY <1>1 DEF AttemptRecord
  <2>4. q \in AttemptRecord
    BY <1>1, <1>2 DEF AttemptRecord, UpgradeSteps
  <2> HIDE DEF q
  <2>5. Shared(c, q, clone', entries', serving', updateMu')
    <3>1. q.op \in PageOps => OfThePage(c, q, clone', serving', updateMu')
      BY <1>0, <1>1, <1>2, <2>2, <2>3 DEF Shared, OfThePage, PageOps, Replacing
    <3> QED
      BY <1>0, <1>1, <1>2, <2>2, <2>3, <3>1 DEF Shared, Pulling, Replacing
  <2>6. Lone(q, clone', remote', target', found')
    BY <1>0, <1>1, <1>2, <2>3, <2>2 DEF Lone, Replacing, ToReplace, Pulling, Reported
  <2>7. readOnly' = "no" => q.step \in Opened \/ (readOnly = "no" /\ r.step \notin Opened)
    BY <1>0, <1>2, <2>2, <2>3 DEF Opened
  <2> QED
    BY <1>0, <1>1, <2>1, <2>2, <2>3, <2>4, <2>5, <2>6, <2>7, CallStep DEF UpgradeTypes, Place
<1>3. ASSUME upgradeFaults' = upgradeFaults, attempt' = [attempt EXCEPT ![c].step = "protect", ![c].error = TRUE],
             UNCHANGED <<remote, clone, readOnly, address, target, found>>,
             UNCHANGED <<kephalaion, entries, serving, updateMu, upgradeCalls, upgradeHarm>>
      PROVE  UpgradeInv'
  <2> DEFINE q == [r EXCEPT !.step = "protect", !.error = TRUE]
  <2>1. attempt' = [attempt EXCEPT ![c] = q]
    BY <1>0, <1>3 DEF Now, Fails
  <2>2. /\ remote' = remote /\ clone' = clone /\ readOnly' = readOnly
        /\ address' = address /\ target' = target /\ found' = found
        /\ kephalaion' = kephalaion /\ entries' = entries /\ serving' = serving
        /\ updateMu' = updateMu /\ upgradeCalls' = upgradeCalls /\ upgradeFaults' = upgradeFaults
        /\ upgradeHarm' = {}
    BY <1>0, <1>1, <1>3, FaultCounts
  <2>3. /\ q.op = r.op /\ q.step = "protect" /\ q.running = r.running /\ q.before = r.before
        /\ q.version = r.version /\ q.pulled = r.pulled /\ q.installed = r.installed /\ q.script = r.script
        /\ q.tried = r.tried /\ q.told = r.told /\ q.unclosed = r.unclosed
        /\ q.stepBy = r.stepBy /\ q.stepDone = r.stepDone /\ q.error = TRUE
        /\ q.alone = r.alone /\ q.foretold = r.foretold
    BY <1>1 DEF AttemptRecord
  <2>4. q \in AttemptRecord
    BY <1>1, <1>3 DEF AttemptRecord, UpgradeSteps
  <2> HIDE DEF q
  <2>5. Shared(c, q, clone', entries', serving', updateMu')
    BY <1>0, <1>1, <1>3, <2>2, <2>3 DEF Shared, OfThePage, PageOps, Pulling, Replacing, Ops
  <2>6. Lone(q, clone', remote', target', found')
    BY <1>0, <1>1, <1>3, <2>2, <2>3 DEF Lone, Shared, OfThePage, PageOps, Pulling, Replacing, ToReplace, Reported
  <2>7. readOnly' = "no" => q.step \in Opened \/ (readOnly = "no" /\ r.step \notin Opened)
    BY <1>0, <1>3, <2>2, <2>3 DEF Opened
  <2> QED
    BY <1>0, <1>1, <2>1, <2>2, <2>3, <2>4, <2>5, <2>6, <2>7, CallStep DEF UpgradeTypes, Place
<1>4. ASSUME Fails(c, "protect"), UNCHANGED <<remote, clone, readOnly, address, target, found>>,
             UNCHANGED <<kephalaion, entries, serving, updateMu, upgradeCalls, upgradeHarm>>
      PROVE  UpgradeInv'
  <2> DEFINE q == [r EXCEPT !.step = "protect", !.error = TRUE]
  <2>1. attempt' = [attempt EXCEPT ![c] = q]
    BY <1>0, <1>4 DEF Now, Fails
  <2>2. /\ remote' = remote /\ clone' = clone /\ readOnly' = readOnly
        /\ address' = address /\ target' = target /\ found' = found
        /\ kephalaion' = kephalaion /\ entries' = entries /\ serving' = serving
        /\ updateMu' = updateMu /\ upgradeCalls' = upgradeCalls /\ upgradeFaults' \in 0..MaxUpgradeFaults
        /\ upgradeHarm' = {}
    BY <1>0, <1>1, <1>4, FaultCounts DEF Fails
  <2>3. /\ q.op = r.op /\ q.step = "protect" /\ q.running = r.running /\ q.before = r.before
        /\ q.version = r.version /\ q.pulled = r.pulled /\ q.installed = r.installed /\ q.script = r.script
        /\ q.tried = r.tried /\ q.told = r.told /\ q.unclosed = r.unclosed
        /\ q.stepBy = r.stepBy /\ q.stepDone = r.stepDone /\ q.error = TRUE
        /\ q.alone = r.alone /\ q.foretold = r.foretold
    BY <1>1 DEF AttemptRecord
  <2>4. q \in AttemptRecord
    BY <1>1, <1>4 DEF AttemptRecord, UpgradeSteps
  <2> HIDE DEF q
  <2>5. Shared(c, q, clone', entries', serving', updateMu')
    BY <1>0, <1>1, <1>4, <2>2, <2>3 DEF Shared, OfThePage, PageOps, Pulling, Replacing, Ops
  <2>6. Lone(q, clone', remote', target', found')
    BY <1>0, <1>1, <1>4, <2>2, <2>3 DEF Lone, Shared, OfThePage, PageOps, Pulling, Replacing, ToReplace, Reported
  <2>7. readOnly' = "no" => q.step \in Opened \/ (readOnly = "no" /\ r.step \notin Opened)
    BY <1>0, <1>4, <2>2, <2>3 DEF Opened
  <2> QED
    BY <1>0, <1>1, <2>1, <2>2, <2>3, <2>4, <2>5, <2>6, <2>7, CallStep DEF UpgradeTypes, Place
<1> QED
  BY <1>0, <1>1, <1>2, <1>3, <1>4 DEF Pull

LEMMA RepairEntriesKeeps ==
  ASSUME UpgradeInv, NEW c \in UpgradeCall, RepairEntries(c)
  PROVE  UpgradeInv'
<1> DEFINE r == attempt[c]
<1>0. r.step = "repair"
  BY DEF RepairEntries
<1>1. /\ UpgradeTypes /\ upgradeHarm = {} /\ r \in AttemptRecord
      /\ Shared(c, r, clone, entries, serving, updateMu) /\ Lone(r, clone, remote, target, found)
      /\ clone \in Int /\ target \in Int /\ remote \in Int /\ serving \in Int
      /\ r.running \in Int /\ r.script \in Int /\ r.version \in Int
      /\ clone \in Place /\ target \in Place /\ remote \in Place /\ serving \in Place /\ clone <= remote
  BY CallIs DEF UpgradeInv, UpgradeTypes, Place
<1>2. ASSUME entries' = FALSE, upgradeFaults' = upgradeFaults,
             attempt' = [attempt EXCEPT ![c].step = "protect", ![c].tried = TRUE],
             UNCHANGED <<remote, clone, readOnly, address, target, found>>,
             UNCHANGED <<kephalaion, serving, updateMu, upgradeCalls, upgradeHarm>>
      PROVE  UpgradeInv'
  <2> DEFINE q == [r EXCEPT !.step = "protect", !.tried = TRUE]
  <2>1. attempt' = [attempt EXCEPT ![c] = q]
    BY <1>0, <1>2 DEF Now, Fails
  <2>2. /\ remote' = remote /\ clone' = clone /\ readOnly' = readOnly
        /\ address' = address /\ target' = target /\ found' = found
        /\ kephalaion' = kephalaion /\ entries' = FALSE /\ serving' = serving
        /\ updateMu' = updateMu /\ upgradeCalls' = upgradeCalls /\ upgradeFaults' = upgradeFaults
        /\ upgradeHarm' = {}
    BY <1>0, <1>1, <1>2, FaultCounts
  <2>3. /\ q.op = r.op /\ q.step = "protect" /\ q.running = r.running /\ q.before = r.before
        /\ q.version = r.version /\ q.pulled = r.pulled /\ q.installed = r.installed /\ q.script = r.script
        /\ q.tried = TRUE /\ q.told = r.told /\ q.unclosed = r.unclosed
        /\ q.stepBy = r.stepBy /\ q.stepDone = r.stepDone /\ q.error = r.error
        /\ q.alone = r.alone /\ q.foretold = r.foretold
    BY <1>1 DEF AttemptRecord
  <2>4. q \in AttemptRecord
    BY <1>1, <1>2 DEF AttemptRecord, UpgradeSteps
  <2> HIDE DEF q
  <2>5. Shared(c, q, clone', entries', serving', updateMu')
    BY <1>0, <1>1, <1>2, <2>2, <2>3 DEF Shared, OfThePage, PageOps, Pulling, Replacing, Ops
  <2>6. Lone(q, clone', remote', target', found')
    BY <1>0, <1>1, <1>2, <2>2, <2>3 DEF Lone, Shared, OfThePage, PageOps, Pulling, Replacing, ToReplace, Reported
  <2>7. readOnly' = "no" => q.step \in Opened \/ (readOnly = "no" /\ r.step \notin Opened)
    BY <1>0, <1>2, <2>2, <2>3 DEF Opened
  <2> QED
    BY <1>0, <1>1, <2>1, <2>2, <2>3, <2>4, <2>5, <2>6, <2>7, CallStep DEF UpgradeTypes, Place
<1>3. ASSUME UpgradeFault, attempt' = [attempt EXCEPT ![c].step = "protect", ![c].tried = TRUE, ![c].told = TRUE],
             UNCHANGED <<remote, clone, readOnly, address, target, found>>,
             UNCHANGED <<kephalaion, entries, serving, updateMu, upgradeCalls, upgradeHarm>>
      PROVE  UpgradeInv'
  <2> DEFINE q == [r EXCEPT !.step = "protect", !.tried = TRUE, !.told = TRUE]
  <2>1. attempt' = [attempt EXCEPT ![c] = q]
    BY <1>0, <1>3 DEF Now, Fails
  <2>2. /\ remote' = remote /\ clone' = clone /\ readOnly' = readOnly
        /\ address' = address /\ target' = target /\ found' = found
        /\ kephalaion' = kephalaion /\ entries' = entries /\ serving' = serving
        /\ updateMu' = updateMu /\ upgradeCalls' = upgradeCalls /\ upgradeFaults' \in 0..MaxUpgradeFaults
        /\ upgradeHarm' = {}
    BY <1>0, <1>1, <1>3, FaultCounts
  <2>3. /\ q.op = r.op /\ q.step = "protect" /\ q.running = r.running /\ q.before = r.before
        /\ q.version = r.version /\ q.pulled = r.pulled /\ q.installed = r.installed /\ q.script = r.script
        /\ q.tried = TRUE /\ q.told = TRUE /\ q.unclosed = r.unclosed
        /\ q.stepBy = r.stepBy /\ q.stepDone = r.stepDone /\ q.error = r.error
        /\ q.alone = r.alone /\ q.foretold = r.foretold
    BY <1>1 DEF AttemptRecord
  <2>4. q \in AttemptRecord
    BY <1>1, <1>3 DEF AttemptRecord, UpgradeSteps
  <2> HIDE DEF q
  <2>5. Shared(c, q, clone', entries', serving', updateMu')
    BY <1>0, <1>1, <1>3, <2>2, <2>3 DEF Shared, OfThePage, PageOps, Pulling, Replacing, Ops
  <2>6. Lone(q, clone', remote', target', found')
    BY <1>0, <1>1, <1>3, <2>2, <2>3 DEF Lone, Shared, OfThePage, PageOps, Pulling, Replacing, ToReplace, Reported
  <2>7. readOnly' = "no" => q.step \in Opened \/ (readOnly = "no" /\ r.step \notin Opened)
    BY <1>0, <1>3, <2>2, <2>3 DEF Opened
  <2> QED
    BY <1>0, <1>1, <2>1, <2>2, <2>3, <2>4, <2>5, <2>6, <2>7, CallStep DEF UpgradeTypes, Place
<1> QED
  BY <1>0, <1>1, <1>2, <1>3 DEF RepairEntries

LEMMA ProtectKeeps ==
  ASSUME UpgradeInv, NEW c \in UpgradeCall, Protect(c)
  PROVE  UpgradeInv'
<1> DEFINE r == attempt[c]
<1>0. r.step = "protect"
  BY DEF Protect
<1>1. /\ UpgradeTypes /\ upgradeHarm = {} /\ r \in AttemptRecord
      /\ Shared(c, r, clone, entries, serving, updateMu) /\ Lone(r, clone, remote, target, found)
      /\ clone \in Int /\ target \in Int /\ remote \in Int /\ serving \in Int
      /\ r.running \in Int /\ r.script \in Int /\ r.version \in Int
      /\ clone \in Place /\ target \in Place /\ remote \in Place /\ serving \in Place /\ clone <= remote
  BY CallIs DEF UpgradeInv, UpgradeTypes, Place
<1>2. ASSUME readOnly' = "yes", Now(c, "status"), upgradeFaults' = upgradeFaults,
             UNCHANGED <<remote, clone, address, target, found, kephalaion>>,
             UNCHANGED <<entries, serving, updateMu, upgradeCalls, upgradeHarm>>
      PROVE  UpgradeInv'
  <2> DEFINE q == [r EXCEPT !.step = "status"]
  <2>1. attempt' = [attempt EXCEPT ![c] = q]
    BY <1>0, <1>2 DEF Now, Fails
  <2>2. /\ remote' = remote /\ clone' = clone /\ readOnly' = "yes"
        /\ address' = address /\ target' = target /\ found' = found
        /\ kephalaion' = kephalaion /\ entries' = entries /\ serving' = serving
        /\ updateMu' = updateMu /\ upgradeCalls' = upgradeCalls /\ upgradeFaults' = upgradeFaults
        /\ upgradeHarm' = {}
    BY <1>0, <1>1, <1>2, FaultCounts
  <2>3. /\ q.op = r.op /\ q.step = "status" /\ q.running = r.running /\ q.before = r.before
        /\ q.version = r.version /\ q.pulled = r.pulled /\ q.installed = r.installed /\ q.script = r.script
        /\ q.tried = r.tried /\ q.told = r.told /\ q.unclosed = r.unclosed
        /\ q.stepBy = r.stepBy /\ q.stepDone = r.stepDone /\ q.error = r.error
        /\ q.alone = r.alone /\ q.foretold = r.foretold
    BY <1>1 DEF AttemptRecord
  <2>4. q \in AttemptRecord
    BY <1>1, <1>2 DEF AttemptRecord, UpgradeSteps
  <2> HIDE DEF q
  <2>5. Shared(c, q, clone', entries', serving', updateMu')
    <3>1. q.op \in PageOps => OfThePage(c, q, clone', serving', updateMu')
      BY <1>0, <1>1, <1>2, <2>2, <2>3 DEF Shared, OfThePage, PageOps, Replacing
    <3> QED
      BY <1>0, <1>1, <1>2, <2>2, <2>3, <3>1 DEF Shared, Pulling, Replacing
  <2>6. Lone(q, clone', remote', target', found')
    BY <1>0, <1>1, <1>2, <2>2, <2>3 DEF Lone, Shared, OfThePage, PageOps, Pulling, Replacing, ToReplace, Reported
  <2>7. readOnly' = "no" => q.step \in Opened \/ (readOnly = "no" /\ r.step \notin Opened)
    BY <1>0, <1>2, <2>2, <2>3 DEF Opened
  <2> QED
    BY <1>0, <1>1, <2>1, <2>2, <2>3, <2>4, <2>5, <2>6, <2>7, CallStep DEF UpgradeTypes, Place
<1>3. ASSUME UpgradeFault, readOnly' \in {readOnly, "left"} \ {"no"},
             attempt' = [attempt EXCEPT ![c].step = "status", ![c].error = TRUE, ![c].unclosed = TRUE,
                                           ![c].pulled = FALSE, ![c].told = FALSE],
             UNCHANGED <<remote, clone, address, target, found, kephalaion>>,
             UNCHANGED <<entries, serving, updateMu, upgradeCalls, upgradeHarm>>
      PROVE  UpgradeInv'
  <2> DEFINE q == [r EXCEPT !.step = "status", !.pulled = FALSE, !.told = FALSE, !.unclosed = TRUE, !.error = TRUE]
  <2>1. attempt' = [attempt EXCEPT ![c] = q]
    BY <1>0, <1>3 DEF Now, Fails
  <2>2. /\ remote' = remote /\ clone' = clone /\ readOnly' \in {readOnly, "left"} \ {"no"}
        /\ address' = address /\ target' = target /\ found' = found
        /\ kephalaion' = kephalaion /\ entries' = entries /\ serving' = serving
        /\ updateMu' = updateMu /\ upgradeCalls' = upgradeCalls /\ upgradeFaults' \in 0..MaxUpgradeFaults
        /\ upgradeHarm' = {}
    BY <1>0, <1>1, <1>3, FaultCounts
  <2>3. /\ q.op = r.op /\ q.step = "status" /\ q.running = r.running /\ q.before = r.before
        /\ q.version = r.version /\ q.pulled = FALSE /\ q.installed = r.installed /\ q.script = r.script
        /\ q.tried = r.tried /\ q.told = FALSE /\ q.unclosed = TRUE
        /\ q.stepBy = r.stepBy /\ q.stepDone = r.stepDone /\ q.error = TRUE
        /\ q.alone = r.alone /\ q.foretold = r.foretold
    BY <1>1 DEF AttemptRecord
  <2>4. q \in AttemptRecord
    BY <1>1, <1>3 DEF AttemptRecord, UpgradeSteps
  <2> HIDE DEF q
  <2>5. Shared(c, q, clone', entries', serving', updateMu')
    BY <1>0, <1>1, <1>3, <2>2, <2>3 DEF Shared, OfThePage, PageOps, Pulling, Replacing, Ops
  <2>6. Lone(q, clone', remote', target', found')
    BY <1>0, <1>1, <1>3, <2>2, <2>3 DEF Lone, Shared, OfThePage, PageOps, Pulling, Replacing, ToReplace, Reported
  <2>7. readOnly' = "no" => q.step \in Opened \/ (readOnly = "no" /\ r.step \notin Opened)
    BY <1>0, <1>3, <2>2, <2>3 DEF Opened
  <2> QED
    BY <1>0, <1>1, <2>1, <2>2, <2>3, <2>4, <2>5, <2>6, <2>7, CallStep DEF UpgradeTypes, Place
<1> QED
  BY <1>0, <1>1, <1>2, <1>3 DEF Protect

LEMMA StatusKeeps ==
  ASSUME UpgradeInv, NEW c \in UpgradeCall, Status(c)
  PROVE  UpgradeInv'
<1> DEFINE r == attempt[c]
<1>0. r.step = "status"
  BY DEF Status
<1>1. /\ UpgradeTypes /\ upgradeHarm = {} /\ r \in AttemptRecord
      /\ Shared(c, r, clone, entries, serving, updateMu) /\ Lone(r, clone, remote, target, found)
      /\ clone \in Int /\ target \in Int /\ remote \in Int /\ serving \in Int
      /\ r.running \in Int /\ r.script \in Int /\ r.version \in Int
      /\ clone \in Place /\ target \in Place /\ remote \in Place /\ serving \in Place /\ clone <= remote
  BY CallIs DEF UpgradeInv, UpgradeTypes, Place
<1>o. /\ CheckStatus(r.running).outdated <=> (1 <= r.running /\ r.running < clone)
      /\ CheckStatus(r.running).installable <=> (target # 0 /\ found = "target")
  BY <1>1, ReleasesAreOrdered DEF AttemptRecord, Place, CheckStatus, CheckPath
<1>p. r.op # "upgrade" => r.op \in PageOps
  BY <1>0, <1>1 DEF AttemptRecord, Shared, PageOps, Ops
<1>2. ASSUME r.op = "upgrade", ~(CheckStatus(r.running).outdated /\ CheckStatus(r.running).installable),
             Now(c, "kephalaion"), upgradeFaults' = upgradeFaults,
             UNCHANGED <<remote, clone, readOnly, address, target, found>>,
             UNCHANGED <<kephalaion, entries, serving, updateMu, upgradeCalls, upgradeHarm>>
      PROVE  UpgradeInv'
  <2> DEFINE q == [r EXCEPT !.step = "kephalaion"]
  <2>1. attempt' = [attempt EXCEPT ![c] = q]
    BY <1>0, <1>2 DEF Now, Fails
  <2>2. /\ remote' = remote /\ clone' = clone /\ readOnly' = readOnly
        /\ address' = address /\ target' = target /\ found' = found
        /\ kephalaion' = kephalaion /\ entries' = entries /\ serving' = serving
        /\ updateMu' = updateMu /\ upgradeCalls' = upgradeCalls /\ upgradeFaults' = upgradeFaults
        /\ upgradeHarm' = {}
    BY <1>0, <1>1, <1>2, FaultCounts
  <2>3. /\ q.op = r.op /\ q.step = "kephalaion" /\ q.running = r.running /\ q.before = r.before
        /\ q.version = r.version /\ q.pulled = r.pulled /\ q.installed = r.installed /\ q.script = r.script
        /\ q.tried = r.tried /\ q.told = r.told /\ q.unclosed = r.unclosed
        /\ q.stepBy = r.stepBy /\ q.stepDone = r.stepDone /\ q.error = r.error
        /\ q.alone = r.alone /\ q.foretold = r.foretold
    BY <1>1 DEF AttemptRecord
  <2>4. q \in AttemptRecord
    BY <1>1, <1>2 DEF AttemptRecord, UpgradeSteps
  <2> HIDE DEF q
  <2>5. Shared(c, q, clone', entries', serving', updateMu')
    BY <1>0, <1>1, <1>2, <2>2, <2>3 DEF Shared, OfThePage, PageOps, Pulling, Replacing, Ops
  <2>6. Lone(q, clone', remote', target', found')
    BY <1>0, <1>1, <1>2, <1>o, <2>2, <2>3 DEF Lone, ToReplace, Replacing, Reported, Pulling
  <2>7. readOnly' = "no" => q.step \in Opened \/ (readOnly = "no" /\ r.step \notin Opened)
    BY <1>0, <1>2, <2>2, <2>3 DEF Opened
  <2> QED
    BY <1>0, <1>1, <2>1, <2>2, <2>3, <2>4, <2>5, <2>6, <2>7, CallStep DEF UpgradeTypes, Place
<1>3. ASSUME r.op # "upgrade", Now(c, "end"), upgradeFaults' = upgradeFaults,
             UNCHANGED <<remote, clone, readOnly, address, target, found>>,
             UNCHANGED <<kephalaion, entries, serving, updateMu, upgradeCalls, upgradeHarm>>
      PROVE  UpgradeInv'
  <2> DEFINE q == [r EXCEPT !.step = "end"]
  <2>1. attempt' = [attempt EXCEPT ![c] = q]
    BY <1>0, <1>3 DEF Now, Fails
  <2>2. /\ remote' = remote /\ clone' = clone /\ readOnly' = readOnly
        /\ address' = address /\ target' = target /\ found' = found
        /\ kephalaion' = kephalaion /\ entries' = entries /\ serving' = serving
        /\ updateMu' = updateMu /\ upgradeCalls' = upgradeCalls /\ upgradeFaults' = upgradeFaults
        /\ upgradeHarm' = {}
    BY <1>0, <1>1, <1>3, FaultCounts
  <2>3. /\ q.op = r.op /\ q.step = "end" /\ q.running = r.running /\ q.before = r.before
        /\ q.version = r.version /\ q.pulled = r.pulled /\ q.installed = r.installed /\ q.script = r.script
        /\ q.tried = r.tried /\ q.told = r.told /\ q.unclosed = r.unclosed
        /\ q.stepBy = r.stepBy /\ q.stepDone = r.stepDone /\ q.error = r.error
        /\ q.alone = r.alone /\ q.foretold = r.foretold
    BY <1>1 DEF AttemptRecord
  <2>4. q \in AttemptRecord
    BY <1>1, <1>3 DEF AttemptRecord, UpgradeSteps
  <2> HIDE DEF q
  <2>5. Shared(c, q, clone', entries', serving', updateMu')
    <3>1. q.op \in PageOps => OfThePage(c, q, clone', serving', updateMu')
      BY <1>0, <1>1, <1>3, <2>2, <2>3, <1>p DEF Shared, OfThePage, PageOps, Replacing
    <3> QED
      BY <1>0, <1>1, <1>3, <2>2, <2>3, <3>1, <1>p DEF Shared, Pulling, Replacing
  <2>6. Lone(q, clone', remote', target', found')
    BY <1>0, <1>1, <1>3, <2>2, <2>3, <1>p DEF Lone, Shared, OfThePage, PageOps, Pulling, Replacing, ToReplace, Reported
  <2>7. readOnly' = "no" => q.step \in Opened \/ (readOnly = "no" /\ r.step \notin Opened)
    BY <1>0, <1>3, <2>2, <2>3 DEF Opened
  <2> QED
    BY <1>0, <1>1, <2>1, <2>2, <2>3, <2>4, <2>5, <2>6, <2>7, CallStep DEF UpgradeTypes, Place
<1>4. ASSUME r.op = "upgrade", CheckStatus(r.running).outdated /\ CheckStatus(r.running).installable, Now(c, "install"),
             upgradeFaults' = upgradeFaults, UNCHANGED <<remote, clone, readOnly, address, target, found>>,
             UNCHANGED <<kephalaion, entries, serving, updateMu, upgradeCalls, upgradeHarm>>
      PROVE  UpgradeInv'
  <2> DEFINE q == [r EXCEPT !.step = "install"]
  <2>1. attempt' = [attempt EXCEPT ![c] = q]
    BY <1>0, <1>4 DEF Now, Fails
  <2>2. /\ remote' = remote /\ clone' = clone /\ readOnly' = readOnly
        /\ address' = address /\ target' = target /\ found' = found
        /\ kephalaion' = kephalaion /\ entries' = entries /\ serving' = serving
        /\ updateMu' = updateMu /\ upgradeCalls' = upgradeCalls /\ upgradeFaults' = upgradeFaults
        /\ upgradeHarm' = {}
    BY <1>0, <1>1, <1>4, FaultCounts
  <2>3. /\ q.op = r.op /\ q.step = "install" /\ q.running = r.running /\ q.before = r.before
        /\ q.version = r.version /\ q.pulled = r.pulled /\ q.installed = r.installed /\ q.script = r.script
        /\ q.tried = r.tried /\ q.told = r.told /\ q.unclosed = r.unclosed
        /\ q.stepBy = r.stepBy /\ q.stepDone = r.stepDone /\ q.error = r.error
        /\ q.alone = r.alone /\ q.foretold = r.foretold
    BY <1>1 DEF AttemptRecord
  <2>4. q \in AttemptRecord
    BY <1>1, <1>4 DEF AttemptRecord, UpgradeSteps
  <2> HIDE DEF q
  <2>5. Shared(c, q, clone', entries', serving', updateMu')
    BY <1>0, <1>1, <1>4, <2>2, <2>3 DEF Shared, OfThePage, PageOps, Replacing, Pulling
  <2>6. Lone(q, clone', remote', target', found')
    BY <1>0, <1>1, <1>4, <1>o, <2>2, <2>3 DEF Lone, ToReplace, Replacing, Reported, Pulling
  <2>7. readOnly' = "no" => q.step \in Opened \/ (readOnly = "no" /\ r.step \notin Opened)
    BY <1>0, <1>4, <2>2, <2>3 DEF Opened
  <2> QED
    BY <1>0, <1>1, <2>1, <2>2, <2>3, <2>4, <2>5, <2>6, <2>7, CallStep DEF UpgradeTypes, Place
<1>5. ASSUME r.op # "upgrade", RestartAfterPull(c), Now(c, "install"), upgradeFaults' = upgradeFaults,
             UNCHANGED <<remote, clone, readOnly, address, target, found>>,
             UNCHANGED <<kephalaion, entries, serving, updateMu, upgradeCalls, upgradeHarm>>
      PROVE  UpgradeInv'
  <2> DEFINE q == [r EXCEPT !.step = "install"]
  <2>1. attempt' = [attempt EXCEPT ![c] = q]
    BY <1>0, <1>5 DEF Now, Fails
  <2>2. /\ remote' = remote /\ clone' = clone /\ readOnly' = readOnly
        /\ address' = address /\ target' = target /\ found' = found
        /\ kephalaion' = kephalaion /\ entries' = entries /\ serving' = serving
        /\ updateMu' = updateMu /\ upgradeCalls' = upgradeCalls /\ upgradeFaults' = upgradeFaults
        /\ upgradeHarm' = {}
    BY <1>0, <1>1, <1>5, FaultCounts
  <2>3. /\ q.op = r.op /\ q.step = "install" /\ q.running = r.running /\ q.before = r.before
        /\ q.version = r.version /\ q.pulled = r.pulled /\ q.installed = r.installed /\ q.script = r.script
        /\ q.tried = r.tried /\ q.told = r.told /\ q.unclosed = r.unclosed
        /\ q.stepBy = r.stepBy /\ q.stepDone = r.stepDone /\ q.error = r.error
        /\ q.alone = r.alone /\ q.foretold = r.foretold
    BY <1>1 DEF AttemptRecord
  <2>4. q \in AttemptRecord
    BY <1>1, <1>5 DEF AttemptRecord, UpgradeSteps
  <2> HIDE DEF q
  <2>e. 1 <= r.running /\ r.running < clone
    <3>1. r.running \in 0..3 /\ r.version \in 0..3
      BY <1>1 DEF AttemptRecord, Place
    <3>2. 1 <= r.running /\ r.running < r.version /\ r.version <= clone
      BY <1>1, <1>5, <3>1, ReleasesAreOrdered DEF RestartAfterPull, Shared
    <3> QED
      BY <1>1, <3>2
  <2>5. Shared(c, q, clone', entries', serving', updateMu')
    <3>1. q.op \in PageOps => OfThePage(c, q, clone', serving', updateMu')
      BY <1>0, <1>1, <1>5, <2>2, <2>3, <2>e, <1>p DEF Shared, OfThePage, PageOps, Replacing
    <3> QED
      BY <1>0, <1>1, <1>5, <2>2, <2>3, <3>1, <2>e, <1>p DEF Shared, Pulling, Replacing
  <2>6. Lone(q, clone', remote', target', found')
    BY <1>0, <1>1, <1>5, <2>2, <2>3, <2>e, <1>p DEF Lone, Shared, OfThePage, PageOps, Pulling, Replacing, ToReplace, Reported
  <2>7. readOnly' = "no" => q.step \in Opened \/ (readOnly = "no" /\ r.step \notin Opened)
    BY <1>0, <1>5, <2>2, <2>3 DEF Opened
  <2> QED
    BY <1>0, <1>1, <2>1, <2>2, <2>3, <2>4, <2>5, <2>6, <2>7, CallStep DEF UpgradeTypes, Place
<1> QED
  BY <1>0, <1>1, <1>2, <1>3, <1>4, <1>5, <1>o, <1>p DEF Status, World, NotInstalled

LEMMA InstallKeeps ==
  ASSUME UpgradeInv, NEW c \in UpgradeCall, Install(c)
  PROVE  UpgradeInv'
<1> DEFINE r == attempt[c]
<1>0. r.step = "install"
  BY DEF Install
<1>1. /\ UpgradeTypes /\ upgradeHarm = {} /\ r \in AttemptRecord
      /\ Shared(c, r, clone, entries, serving, updateMu) /\ Lone(r, clone, remote, target, found)
      /\ clone \in Int /\ target \in Int /\ remote \in Int /\ serving \in Int
      /\ r.running \in Int /\ r.script \in Int /\ r.version \in Int
      /\ clone \in Place /\ target \in Place /\ remote \in Place /\ serving \in Place /\ clone <= remote
  BY CallIs DEF UpgradeInv, UpgradeTypes, Place
<1>p. r.op # "upgrade" => r.op \in PageOps
  BY <1>0, <1>1 DEF AttemptRecord, Shared, PageOps, Ops
<1>o. Compare(VersionOf(target), VersionOf(clone)) \in {"equal", "newer"} <=> (1 <= clone /\ clone <= target)
  BY <1>1, ReleasesAreOrdered DEF Place
<1>x. /\ CheckPath => 1 <= target
      /\ clone # 0 => 1 <= clone
  BY <1>1 DEF CheckPath, Place
<1>y. /\ \/ attempt' = [attempt EXCEPT ![c].error = TRUE, ![c].step = NotInstalled(c)]
         \/ /\ 1 <= clone /\ clone <= target
            /\ attempt' = [attempt EXCEPT ![c].step = After(c), ![c].script = target]
         \/ /\ 1 <= target /\ target < clone
            /\ attempt' = [attempt EXCEPT ![c].step = "script"]
      /\ UNCHANGED World /\ UNCHANGED <<upgradeCalls, upgradeFaults, upgradeHarm>>
  BY <1>o, <1>1, <1>x DEF Install
<1>2. ASSUME r.op = "upgrade", attempt' = [attempt EXCEPT ![c].error = TRUE, ![c].step = "kephalaion"],
             upgradeFaults' = upgradeFaults, UNCHANGED <<remote, clone, readOnly, address, target, found>>,
             UNCHANGED <<kephalaion, entries, serving, updateMu, upgradeCalls, upgradeHarm>>
      PROVE  UpgradeInv'
  <2> DEFINE q == [r EXCEPT !.step = "kephalaion", !.error = TRUE]
  <2>1. attempt' = [attempt EXCEPT ![c] = q]
    BY <1>0, <1>2 DEF Now, Fails
  <2>2. /\ remote' = remote /\ clone' = clone /\ readOnly' = readOnly
        /\ address' = address /\ target' = target /\ found' = found
        /\ kephalaion' = kephalaion /\ entries' = entries /\ serving' = serving
        /\ updateMu' = updateMu /\ upgradeCalls' = upgradeCalls /\ upgradeFaults' = upgradeFaults
        /\ upgradeHarm' = {}
    BY <1>0, <1>1, <1>2, FaultCounts
  <2>3. /\ q.op = r.op /\ q.step = "kephalaion" /\ q.running = r.running /\ q.before = r.before
        /\ q.version = r.version /\ q.pulled = r.pulled /\ q.installed = r.installed /\ q.script = r.script
        /\ q.tried = r.tried /\ q.told = r.told /\ q.unclosed = r.unclosed
        /\ q.stepBy = r.stepBy /\ q.stepDone = r.stepDone /\ q.error = TRUE
        /\ q.alone = r.alone /\ q.foretold = r.foretold
    BY <1>1 DEF AttemptRecord
  <2>4. q \in AttemptRecord
    BY <1>1, <1>2 DEF AttemptRecord, UpgradeSteps
  <2> HIDE DEF q
  <2>5. Shared(c, q, clone', entries', serving', updateMu')
    BY <1>0, <1>1, <1>2, <2>2, <2>3 DEF Shared, OfThePage, PageOps, Pulling, Replacing, Ops
  <2>6. Lone(q, clone', remote', target', found')
    BY <1>0, <1>1, <1>2, <2>2, <2>3 DEF Lone, Shared, OfThePage, PageOps, Pulling, Replacing, ToReplace, Reported
  <2>7. readOnly' = "no" => q.step \in Opened \/ (readOnly = "no" /\ r.step \notin Opened)
    BY <1>0, <1>2, <2>2, <2>3 DEF Opened
  <2> QED
    BY <1>0, <1>1, <2>1, <2>2, <2>3, <2>4, <2>5, <2>6, <2>7, CallStep DEF UpgradeTypes, Place
<1>3. ASSUME r.op # "upgrade", attempt' = [attempt EXCEPT ![c].error = TRUE, ![c].step = "end"],
             upgradeFaults' = upgradeFaults, UNCHANGED <<remote, clone, readOnly, address, target, found>>,
             UNCHANGED <<kephalaion, entries, serving, updateMu, upgradeCalls, upgradeHarm>>
      PROVE  UpgradeInv'
  <2> DEFINE q == [r EXCEPT !.step = "end", !.error = TRUE]
  <2>1. attempt' = [attempt EXCEPT ![c] = q]
    BY <1>0, <1>3 DEF Now, Fails
  <2>2. /\ remote' = remote /\ clone' = clone /\ readOnly' = readOnly
        /\ address' = address /\ target' = target /\ found' = found
        /\ kephalaion' = kephalaion /\ entries' = entries /\ serving' = serving
        /\ updateMu' = updateMu /\ upgradeCalls' = upgradeCalls /\ upgradeFaults' = upgradeFaults
        /\ upgradeHarm' = {}
    BY <1>0, <1>1, <1>3, FaultCounts
  <2>3. /\ q.op = r.op /\ q.step = "end" /\ q.running = r.running /\ q.before = r.before
        /\ q.version = r.version /\ q.pulled = r.pulled /\ q.installed = r.installed /\ q.script = r.script
        /\ q.tried = r.tried /\ q.told = r.told /\ q.unclosed = r.unclosed
        /\ q.stepBy = r.stepBy /\ q.stepDone = r.stepDone /\ q.error = TRUE
        /\ q.alone = r.alone /\ q.foretold = r.foretold
    BY <1>1 DEF AttemptRecord
  <2>4. q \in AttemptRecord
    BY <1>1, <1>3 DEF AttemptRecord, UpgradeSteps
  <2> HIDE DEF q
  <2>5. Shared(c, q, clone', entries', serving', updateMu')
    <3>1. q.op \in PageOps => OfThePage(c, q, clone', serving', updateMu')
      BY <1>0, <1>1, <1>3, <2>2, <2>3, <1>p DEF Shared, OfThePage, PageOps, Replacing
    <3> QED
      BY <1>0, <1>1, <1>3, <2>2, <2>3, <1>p, <3>1 DEF Shared, Pulling, Replacing
  <2>6. Lone(q, clone', remote', target', found')
    BY <1>0, <1>1, <1>3, <2>2, <2>3, <1>p DEF Lone, Shared, OfThePage, PageOps, Pulling, Replacing, ToReplace, Reported
  <2>7. readOnly' = "no" => q.step \in Opened \/ (readOnly = "no" /\ r.step \notin Opened)
    BY <1>0, <1>3, <2>2, <2>3 DEF Opened
  <2> QED
    BY <1>0, <1>1, <2>1, <2>2, <2>3, <2>4, <2>5, <2>6, <2>7, CallStep DEF UpgradeTypes, Place
<1>4. ASSUME r.op = "upgrade", 1 <= clone /\ clone <= target,
             attempt' = [attempt EXCEPT ![c].step = "kephalaion", ![c].script = target], upgradeFaults' = upgradeFaults,
             UNCHANGED <<remote, clone, readOnly, address, target, found>>,
             UNCHANGED <<kephalaion, entries, serving, updateMu, upgradeCalls, upgradeHarm>>
      PROVE  UpgradeInv'
  <2> DEFINE q == [r EXCEPT !.step = "kephalaion", !.script = target]
  <2>1. attempt' = [attempt EXCEPT ![c] = q]
    BY <1>0, <1>4 DEF Now, Fails
  <2>2. /\ remote' = remote /\ clone' = clone /\ readOnly' = readOnly
        /\ address' = address /\ target' = target /\ found' = found
        /\ kephalaion' = kephalaion /\ entries' = entries /\ serving' = serving
        /\ updateMu' = updateMu /\ upgradeCalls' = upgradeCalls /\ upgradeFaults' = upgradeFaults
        /\ upgradeHarm' = {}
    BY <1>0, <1>1, <1>4, FaultCounts
  <2>3. /\ q.op = r.op /\ q.step = "kephalaion" /\ q.running = r.running /\ q.before = r.before
        /\ q.version = r.version /\ q.pulled = r.pulled /\ q.installed = r.installed /\ q.script = target
        /\ q.tried = r.tried /\ q.told = r.told /\ q.unclosed = r.unclosed
        /\ q.stepBy = r.stepBy /\ q.stepDone = r.stepDone /\ q.error = r.error
        /\ q.alone = r.alone /\ q.foretold = r.foretold
    BY <1>1 DEF AttemptRecord
  <2>4. q \in AttemptRecord
    BY <1>1, <1>4 DEF AttemptRecord, UpgradeSteps
  <2> HIDE DEF q
  <2>5. Shared(c, q, clone', entries', serving', updateMu')
    BY <1>0, <1>1, <1>4, <2>2, <2>3 DEF Shared, OfThePage, PageOps, Pulling, Replacing, Ops
  <2>6. Lone(q, clone', remote', target', found')
    BY <1>0, <1>1, <1>4, <2>2, <2>3 DEF Lone, ToReplace, Replacing, Reported, Pulling
  <2>7. readOnly' = "no" => q.step \in Opened \/ (readOnly = "no" /\ r.step \notin Opened)
    BY <1>0, <1>4, <2>2, <2>3 DEF Opened
  <2> QED
    BY <1>0, <1>1, <2>1, <2>2, <2>3, <2>4, <2>5, <2>6, <2>7, CallStep DEF UpgradeTypes, Place
<1>5. ASSUME r.op # "upgrade", 1 <= clone /\ clone <= target,
             attempt' = [attempt EXCEPT ![c].step = "restart", ![c].script = target], upgradeFaults' = upgradeFaults,
             UNCHANGED <<remote, clone, readOnly, address, target, found>>,
             UNCHANGED <<kephalaion, entries, serving, updateMu, upgradeCalls, upgradeHarm>>
      PROVE  UpgradeInv'
  <2> DEFINE q == [r EXCEPT !.step = "restart", !.script = target]
  <2>1. attempt' = [attempt EXCEPT ![c] = q]
    BY <1>0, <1>5 DEF Now, Fails
  <2>2. /\ remote' = remote /\ clone' = clone /\ readOnly' = readOnly
        /\ address' = address /\ target' = target /\ found' = found
        /\ kephalaion' = kephalaion /\ entries' = entries /\ serving' = serving
        /\ updateMu' = updateMu /\ upgradeCalls' = upgradeCalls /\ upgradeFaults' = upgradeFaults
        /\ upgradeHarm' = {}
    BY <1>0, <1>1, <1>5, FaultCounts
  <2>3. /\ q.op = r.op /\ q.step = "restart" /\ q.running = r.running /\ q.before = r.before
        /\ q.version = r.version /\ q.pulled = r.pulled /\ q.installed = r.installed /\ q.script = target
        /\ q.tried = r.tried /\ q.told = r.told /\ q.unclosed = r.unclosed
        /\ q.stepBy = r.stepBy /\ q.stepDone = r.stepDone /\ q.error = r.error
        /\ q.alone = r.alone /\ q.foretold = r.foretold
    BY <1>1 DEF AttemptRecord
  <2>4. q \in AttemptRecord
    BY <1>1, <1>5 DEF AttemptRecord, UpgradeSteps
  <2> HIDE DEF q
  <2>e. 1 <= r.running /\ r.running < target
    BY <1>0, <1>1, <1>5, <1>p DEF Shared, OfThePage
  <2>5. Shared(c, q, clone', entries', serving', updateMu')
    <3>1. q.op \in PageOps => OfThePage(c, q, clone', serving', updateMu')
      BY <1>0, <1>1, <1>5, <2>2, <2>3, <2>e, <1>p DEF Shared, OfThePage, PageOps, Replacing
    <3> QED
      BY <1>0, <1>1, <1>5, <2>2, <2>3, <3>1, <2>e, <1>p DEF Shared, Pulling, Replacing
  <2>6. Lone(q, clone', remote', target', found')
    BY <1>0, <1>1, <1>5, <2>2, <2>3, <2>e, <1>p DEF Lone, Shared, OfThePage, PageOps, Pulling, Replacing, ToReplace, Reported
  <2>7. readOnly' = "no" => q.step \in Opened \/ (readOnly = "no" /\ r.step \notin Opened)
    BY <1>0, <1>5, <2>2, <2>3 DEF Opened
  <2> QED
    BY <1>0, <1>1, <2>1, <2>2, <2>3, <2>4, <2>5, <2>6, <2>7, CallStep DEF UpgradeTypes, Place
<1>6. ASSUME 1 <= target /\ target < clone, attempt' = [attempt EXCEPT ![c].step = "script"],
             upgradeFaults' = upgradeFaults, UNCHANGED <<remote, clone, readOnly, address, target, found>>,
             UNCHANGED <<kephalaion, entries, serving, updateMu, upgradeCalls, upgradeHarm>>
      PROVE  UpgradeInv'
  <2> DEFINE q == [r EXCEPT !.step = "script"]
  <2>1. attempt' = [attempt EXCEPT ![c] = q]
    BY <1>0, <1>6 DEF Now, Fails
  <2>2. /\ remote' = remote /\ clone' = clone /\ readOnly' = readOnly
        /\ address' = address /\ target' = target /\ found' = found
        /\ kephalaion' = kephalaion /\ entries' = entries /\ serving' = serving
        /\ updateMu' = updateMu /\ upgradeCalls' = upgradeCalls /\ upgradeFaults' = upgradeFaults
        /\ upgradeHarm' = {}
    BY <1>0, <1>1, <1>6, FaultCounts
  <2>3. /\ q.op = r.op /\ q.step = "script" /\ q.running = r.running /\ q.before = r.before
        /\ q.version = r.version /\ q.pulled = r.pulled /\ q.installed = r.installed /\ q.script = r.script
        /\ q.tried = r.tried /\ q.told = r.told /\ q.unclosed = r.unclosed
        /\ q.stepBy = r.stepBy /\ q.stepDone = r.stepDone /\ q.error = r.error
        /\ q.alone = r.alone /\ q.foretold = r.foretold
    BY <1>1 DEF AttemptRecord
  <2>4. q \in AttemptRecord
    BY <1>1, <1>6 DEF AttemptRecord, UpgradeSteps
  <2> HIDE DEF q
  <2>5. Shared(c, q, clone', entries', serving', updateMu')
    <3>1. q.op \in PageOps => OfThePage(c, q, clone', serving', updateMu')
      BY <1>0, <1>1, <1>6, <2>2, <2>3 DEF Shared, OfThePage, PageOps, Replacing
    <3> QED
      BY <1>0, <1>1, <1>6, <2>2, <2>3, <3>1 DEF Shared, Pulling, Replacing
  <2>6. Lone(q, clone', remote', target', found')
    BY <1>0, <1>1, <1>6, <2>2, <2>3 DEF Lone, Shared, OfThePage, PageOps, Pulling, Replacing, ToReplace, Reported
  <2>7. readOnly' = "no" => q.step \in Opened \/ (readOnly = "no" /\ r.step \notin Opened)
    BY <1>0, <1>6, <2>2, <2>3 DEF Opened
  <2> QED
    BY <1>0, <1>1, <2>1, <2>2, <2>3, <2>4, <2>5, <2>6, <2>7, CallStep DEF UpgradeTypes, Place
<1> QED
  BY <1>0, <1>1, <1>2, <1>3, <1>4, <1>5, <1>6, <1>o, <1>p, <1>x, <1>y DEF Install, World, NotInstalled, After

LEMMA ReadAndLoadKeeps ==
  ASSUME UpgradeInv, NEW c \in UpgradeCall, ReadAndLoad(c)
  PROVE  UpgradeInv'
<1> DEFINE r == attempt[c]
<1>0. r.step = "script"
  BY DEF ReadAndLoad
<1>1. /\ UpgradeTypes /\ upgradeHarm = {} /\ r \in AttemptRecord
      /\ Shared(c, r, clone, entries, serving, updateMu) /\ Lone(r, clone, remote, target, found)
      /\ clone \in Int /\ target \in Int /\ remote \in Int /\ serving \in Int
      /\ r.running \in Int /\ r.script \in Int /\ r.version \in Int
      /\ clone \in Place /\ target \in Place /\ remote \in Place /\ serving \in Place /\ clone <= remote
  BY CallIs DEF UpgradeInv, UpgradeTypes, Place
<1>p. r.op # "upgrade" => r.op \in PageOps
  BY <1>0, <1>1 DEF AttemptRecord, Shared, PageOps, Ops
<1>2. ASSUME attempt' = [attempt EXCEPT ![c].step = "move", ![c].script = clone], upgradeFaults' = upgradeFaults,
             UNCHANGED <<remote, clone, readOnly, address, target, found>>,
             UNCHANGED <<kephalaion, entries, serving, updateMu, upgradeCalls, upgradeHarm>>
      PROVE  UpgradeInv'
  <2> DEFINE q == [r EXCEPT !.step = "move", !.script = clone]
  <2>1. attempt' = [attempt EXCEPT ![c] = q]
    BY <1>0, <1>2 DEF Now, Fails
  <2>2. /\ remote' = remote /\ clone' = clone /\ readOnly' = readOnly
        /\ address' = address /\ target' = target /\ found' = found
        /\ kephalaion' = kephalaion /\ entries' = entries /\ serving' = serving
        /\ updateMu' = updateMu /\ upgradeCalls' = upgradeCalls /\ upgradeFaults' = upgradeFaults
        /\ upgradeHarm' = {}
    BY <1>0, <1>1, <1>2, FaultCounts
  <2>3. /\ q.op = r.op /\ q.step = "move" /\ q.running = r.running /\ q.before = r.before
        /\ q.version = r.version /\ q.pulled = r.pulled /\ q.installed = r.installed /\ q.script = clone
        /\ q.tried = r.tried /\ q.told = r.told /\ q.unclosed = r.unclosed
        /\ q.stepBy = r.stepBy /\ q.stepDone = r.stepDone /\ q.error = r.error
        /\ q.alone = r.alone /\ q.foretold = r.foretold
    BY <1>1 DEF AttemptRecord
  <2>4. q \in AttemptRecord
    BY <1>1, <1>2 DEF AttemptRecord, UpgradeSteps
  <2> HIDE DEF q
  <2>5. Shared(c, q, clone', entries', serving', updateMu')
    <3>1. q.op \in PageOps => OfThePage(c, q, clone', serving', updateMu')
      BY <1>0, <1>1, <1>2, <2>2, <2>3 DEF Shared, OfThePage, PageOps, Replacing
    <3> QED
      BY <1>0, <1>1, <1>2, <2>2, <2>3, <3>1 DEF Shared, Pulling, Replacing
  <2>6. Lone(q, clone', remote', target', found')
    BY <1>0, <1>1, <1>2, <2>2, <2>3 DEF Lone, Shared, OfThePage, PageOps, Pulling, Replacing, ToReplace, Reported
  <2>7. readOnly' = "no" => q.step \in Opened \/ (readOnly = "no" /\ r.step \notin Opened)
    BY <1>0, <1>2, <2>2, <2>3 DEF Opened
  <2> QED
    BY <1>0, <1>1, <2>1, <2>2, <2>3, <2>4, <2>5, <2>6, <2>7, CallStep DEF UpgradeTypes, Place
<1>3. ASSUME r.op = "upgrade", Fails(c, "kephalaion"), UNCHANGED <<remote, clone, readOnly, address, target, found>>,
             UNCHANGED <<kephalaion, entries, serving, updateMu, upgradeCalls, upgradeHarm>>
      PROVE  UpgradeInv'
  <2> DEFINE q == [r EXCEPT !.step = "kephalaion", !.error = TRUE]
  <2>1. attempt' = [attempt EXCEPT ![c] = q]
    BY <1>0, <1>3 DEF Now, Fails
  <2>2. /\ remote' = remote /\ clone' = clone /\ readOnly' = readOnly
        /\ address' = address /\ target' = target /\ found' = found
        /\ kephalaion' = kephalaion /\ entries' = entries /\ serving' = serving
        /\ updateMu' = updateMu /\ upgradeCalls' = upgradeCalls /\ upgradeFaults' \in 0..MaxUpgradeFaults
        /\ upgradeHarm' = {}
    BY <1>0, <1>1, <1>3, FaultCounts DEF Fails
  <2>3. /\ q.op = r.op /\ q.step = "kephalaion" /\ q.running = r.running /\ q.before = r.before
        /\ q.version = r.version /\ q.pulled = r.pulled /\ q.installed = r.installed /\ q.script = r.script
        /\ q.tried = r.tried /\ q.told = r.told /\ q.unclosed = r.unclosed
        /\ q.stepBy = r.stepBy /\ q.stepDone = r.stepDone /\ q.error = TRUE
        /\ q.alone = r.alone /\ q.foretold = r.foretold
    BY <1>1 DEF AttemptRecord
  <2>4. q \in AttemptRecord
    BY <1>1, <1>3 DEF AttemptRecord, UpgradeSteps
  <2> HIDE DEF q
  <2>5. Shared(c, q, clone', entries', serving', updateMu')
    BY <1>0, <1>1, <1>3, <2>2, <2>3 DEF Shared, OfThePage, PageOps, Pulling, Replacing, Ops
  <2>6. Lone(q, clone', remote', target', found')
    BY <1>0, <1>1, <1>3, <2>2, <2>3 DEF Lone, Shared, OfThePage, PageOps, Pulling, Replacing, ToReplace, Reported
  <2>7. readOnly' = "no" => q.step \in Opened \/ (readOnly = "no" /\ r.step \notin Opened)
    BY <1>0, <1>3, <2>2, <2>3 DEF Opened
  <2> QED
    BY <1>0, <1>1, <2>1, <2>2, <2>3, <2>4, <2>5, <2>6, <2>7, CallStep DEF UpgradeTypes, Place
<1>4. ASSUME r.op # "upgrade", Fails(c, "end"), UNCHANGED <<remote, clone, readOnly, address, target, found>>,
             UNCHANGED <<kephalaion, entries, serving, updateMu, upgradeCalls, upgradeHarm>>
      PROVE  UpgradeInv'
  <2> DEFINE q == [r EXCEPT !.step = "end", !.error = TRUE]
  <2>1. attempt' = [attempt EXCEPT ![c] = q]
    BY <1>0, <1>4 DEF Now, Fails
  <2>2. /\ remote' = remote /\ clone' = clone /\ readOnly' = readOnly
        /\ address' = address /\ target' = target /\ found' = found
        /\ kephalaion' = kephalaion /\ entries' = entries /\ serving' = serving
        /\ updateMu' = updateMu /\ upgradeCalls' = upgradeCalls /\ upgradeFaults' \in 0..MaxUpgradeFaults
        /\ upgradeHarm' = {}
    BY <1>0, <1>1, <1>4, FaultCounts DEF Fails
  <2>3. /\ q.op = r.op /\ q.step = "end" /\ q.running = r.running /\ q.before = r.before
        /\ q.version = r.version /\ q.pulled = r.pulled /\ q.installed = r.installed /\ q.script = r.script
        /\ q.tried = r.tried /\ q.told = r.told /\ q.unclosed = r.unclosed
        /\ q.stepBy = r.stepBy /\ q.stepDone = r.stepDone /\ q.error = TRUE
        /\ q.alone = r.alone /\ q.foretold = r.foretold
    BY <1>1 DEF AttemptRecord
  <2>4. q \in AttemptRecord
    BY <1>1, <1>4 DEF AttemptRecord, UpgradeSteps
  <2> HIDE DEF q
  <2>5. Shared(c, q, clone', entries', serving', updateMu')
    <3>1. q.op \in PageOps => OfThePage(c, q, clone', serving', updateMu')
      BY <1>0, <1>1, <1>4, <2>2, <2>3, <1>p DEF Shared, OfThePage, PageOps, Replacing
    <3> QED
      BY <1>0, <1>1, <1>4, <2>2, <2>3, <1>p, <3>1 DEF Shared, Pulling, Replacing
  <2>6. Lone(q, clone', remote', target', found')
    BY <1>0, <1>1, <1>4, <2>2, <2>3, <1>p DEF Lone, Shared, OfThePage, PageOps, Pulling, Replacing, ToReplace, Reported
  <2>7. readOnly' = "no" => q.step \in Opened \/ (readOnly = "no" /\ r.step \notin Opened)
    BY <1>0, <1>4, <2>2, <2>3 DEF Opened
  <2> QED
    BY <1>0, <1>1, <2>1, <2>2, <2>3, <2>4, <2>5, <2>6, <2>7, CallStep DEF UpgradeTypes, Place
<1> QED
  BY <1>0, <1>1, <1>2, <1>3, <1>4, <1>p DEF ReadAndLoad, World, NotInstalled

LEMMA MoveIntoPlaceKeeps ==
  ASSUME UpgradeInv, NEW c \in UpgradeCall, MoveIntoPlace(c)
  PROVE  UpgradeInv'
<1> DEFINE r == attempt[c]
<1>0. r.step = "move"
  BY DEF MoveIntoPlace
<1>1. /\ UpgradeTypes /\ upgradeHarm = {} /\ r \in AttemptRecord
      /\ Shared(c, r, clone, entries, serving, updateMu) /\ Lone(r, clone, remote, target, found)
      /\ clone \in Int /\ target \in Int /\ remote \in Int /\ serving \in Int
      /\ r.running \in Int /\ r.script \in Int /\ r.version \in Int
      /\ clone \in Place /\ target \in Place /\ remote \in Place /\ serving \in Place /\ clone <= remote
  BY CallIs DEF UpgradeInv, UpgradeTypes, Place
<1>s. r.script \in Place
  BY <1>1 DEF AttemptRecord
<1>h. upgradeHarm' = {}
  <2>1. ASSUME r.alone PROVE ~IsOlder(r.script, target)
    <3>1. target < r.script /\ r.script \in 0..3 /\ target \in 0..3
      BY <1>0, <1>1, <2>1 DEF Lone, Replacing, AttemptRecord, Place
    <3> QED
      BY <3>1, ReleasesAreOrdered
  <2> QED
    BY <1>1, <2>1 DEF MoveIntoPlace
<1>2. ASSUME target' = r.script, attempt' = [attempt EXCEPT ![c].step = "kephalaion script"], upgradeHarm' = {},
             upgradeFaults' = upgradeFaults, UNCHANGED <<remote, clone, readOnly, address, found, kephalaion>>,
             UNCHANGED <<entries, serving, updateMu, upgradeCalls>>
      PROVE  UpgradeInv'
  <2> DEFINE q == [r EXCEPT !.step = "kephalaion script"]
  <2>1. attempt' = [attempt EXCEPT ![c] = q]
    BY <1>0, <1>2 DEF Now, Fails
  <2>2. /\ remote' = remote /\ clone' = clone /\ readOnly' = readOnly
        /\ address' = address /\ target' = r.script /\ found' = found
        /\ kephalaion' = kephalaion /\ entries' = entries /\ serving' = serving
        /\ updateMu' = updateMu /\ upgradeCalls' = upgradeCalls /\ upgradeFaults' = upgradeFaults
        /\ upgradeHarm' = {}
    BY <1>0, <1>1, <1>2, FaultCounts
  <2>3. /\ q.op = r.op /\ q.step = "kephalaion script" /\ q.running = r.running /\ q.before = r.before
        /\ q.version = r.version /\ q.pulled = r.pulled /\ q.installed = r.installed /\ q.script = r.script
        /\ q.tried = r.tried /\ q.told = r.told /\ q.unclosed = r.unclosed
        /\ q.stepBy = r.stepBy /\ q.stepDone = r.stepDone /\ q.error = r.error
        /\ q.alone = r.alone /\ q.foretold = r.foretold
    BY <1>1 DEF AttemptRecord
  <2>4. q \in AttemptRecord
    BY <1>1, <1>2 DEF AttemptRecord, UpgradeSteps
  <2> HIDE DEF q
  <2>5. Shared(c, q, clone', entries', serving', updateMu')
    <3>1. q.op \in PageOps => OfThePage(c, q, clone', serving', updateMu')
      BY <1>0, <1>1, <1>2, <2>2, <2>3 DEF Shared, OfThePage, PageOps, Replacing
    <3>2. q.version <= clone' /\ q.script <= clone'
      BY <1>0, <1>1, <1>2, <2>2, <2>3 DEF Shared, Replacing
    <3>6. r.step \notin Pulling \cup {"repair"}
      BY <1>0 DEF Pulling
    <3>7. r.pulled => r.tried /\ (entries => r.told)
      BY <1>1, <3>6 DEF Shared
    <3>4. q.pulled => q.tried /\ (entries' => q.told)
      BY <2>2, <2>3, <3>7
    <3>5. ~q.stepDone
      BY <1>0, <1>1, <2>3 DEF Shared
    <3>3. q.op # "none"
      BY <1>0, <1>1, <2>3 DEF Shared
    <3>8. (q.tried /\ ~q.unclosed) => q.pulled
      BY <1>0, <1>1, <2>3 DEF Shared
    <3> QED
      BY <2>3, <3>1, <3>2, <3>3, <3>4, <3>5, <3>8 DEF Shared, Pulling
  <2>6. Lone(q, clone', remote', target', found')
    BY <1>0, <1>1, <1>2, <2>2, <2>3 DEF Lone, Shared, OfThePage, PageOps, Pulling, Replacing, ToReplace, Reported
  <2>7. readOnly' = "no" => q.step \in Opened \/ (readOnly = "no" /\ r.step \notin Opened)
    BY <1>0, <1>2, <2>2, <2>3 DEF Opened
  <2> QED
    BY <1>0, <1>1, <2>1, <2>2, <2>3, <2>4, <2>5, <2>6, <2>7, CallStep, <1>s DEF UpgradeTypes, Place
<1> QED
  BY <1>0, <1>1, <1>2, <1>h DEF MoveIntoPlace

LEMMA ScriptLooksForKephalaionKeeps ==
  ASSUME UpgradeInv, NEW c \in UpgradeCall, ScriptLooksForKephalaion(c)
  PROVE  UpgradeInv'
<1> DEFINE r == attempt[c]
<1>0. r.step = "kephalaion script"
  BY DEF ScriptLooksForKephalaion
<1>1. /\ UpgradeTypes /\ upgradeHarm = {} /\ r \in AttemptRecord
      /\ Shared(c, r, clone, entries, serving, updateMu) /\ Lone(r, clone, remote, target, found)
      /\ clone \in Int /\ target \in Int /\ remote \in Int /\ serving \in Int
      /\ r.running \in Int /\ r.script \in Int /\ r.version \in Int
      /\ clone \in Place /\ target \in Place /\ remote \in Place /\ serving \in Place /\ clone <= remote
  BY CallIs DEF UpgradeInv, UpgradeTypes, Place
<1>p. r.op # "upgrade" => r.op \in PageOps
  BY <1>0, <1>1 DEF AttemptRecord, Shared, PageOps, Ops
<1>k. kephalaion \in BOOLEAN /\ upgradeFaults \in 0..MaxUpgradeFaults
  BY <1>1 DEF UpgradeTypes
<1>2. ASSUME kephalaion' \in BOOLEAN, Now(c, "verify"), upgradeFaults' \in 0..MaxUpgradeFaults,
             UNCHANGED <<remote, clone, readOnly, address, target, found>>,
             UNCHANGED <<entries, serving, updateMu, upgradeCalls, upgradeHarm>>
      PROVE  UpgradeInv'
  <2> DEFINE q == [r EXCEPT !.step = "verify"]
  <2>1. attempt' = [attempt EXCEPT ![c] = q]
    BY <1>0, <1>2 DEF Now, Fails
  <2>2. /\ remote' = remote /\ clone' = clone /\ readOnly' = readOnly
        /\ address' = address /\ target' = target /\ found' = found
        /\ kephalaion' \in BOOLEAN /\ entries' = entries /\ serving' = serving
        /\ updateMu' = updateMu /\ upgradeCalls' = upgradeCalls /\ upgradeFaults' \in 0..MaxUpgradeFaults
        /\ upgradeHarm' = {}
    BY <1>0, <1>1, <1>2, FaultCounts
  <2>3. /\ q.op = r.op /\ q.step = "verify" /\ q.running = r.running /\ q.before = r.before
        /\ q.version = r.version /\ q.pulled = r.pulled /\ q.installed = r.installed /\ q.script = r.script
        /\ q.tried = r.tried /\ q.told = r.told /\ q.unclosed = r.unclosed
        /\ q.stepBy = r.stepBy /\ q.stepDone = r.stepDone /\ q.error = r.error
        /\ q.alone = r.alone /\ q.foretold = r.foretold
    BY <1>1 DEF AttemptRecord
  <2>4. q \in AttemptRecord
    BY <1>1, <1>2 DEF AttemptRecord, UpgradeSteps
  <2> HIDE DEF q
  <2>5. Shared(c, q, clone', entries', serving', updateMu')
    <3>1. q.op \in PageOps => OfThePage(c, q, clone', serving', updateMu')
      BY <1>0, <1>1, <1>2, <2>2, <2>3 DEF Shared, OfThePage, PageOps, Replacing
    <3>2. q.version <= clone' /\ q.script <= clone'
      BY <1>0, <1>1, <1>2, <2>2, <2>3 DEF Shared, Replacing
    <3>6. r.step \notin Pulling \cup {"repair"}
      BY <1>0 DEF Pulling
    <3>7. r.pulled => r.tried /\ (entries => r.told)
      BY <1>1, <3>6 DEF Shared
    <3>4. q.pulled => q.tried /\ (entries' => q.told)
      BY <2>2, <2>3, <3>7
    <3>5. ~q.stepDone
      BY <1>0, <1>1, <2>3 DEF Shared
    <3>3. q.op # "none"
      BY <1>0, <1>1, <2>3 DEF Shared
    <3>8. (q.tried /\ ~q.unclosed) => q.pulled
      BY <1>0, <1>1, <2>3 DEF Shared
    <3> QED
      BY <2>3, <3>1, <3>2, <3>3, <3>4, <3>5, <3>8 DEF Shared, Pulling
  <2>6. Lone(q, clone', remote', target', found')
    BY <1>0, <1>1, <1>2, <2>2, <2>3 DEF Lone, Shared, OfThePage, PageOps, Pulling, Replacing, ToReplace, Reported
  <2>7. readOnly' = "no" => q.step \in Opened \/ (readOnly = "no" /\ r.step \notin Opened)
    BY <1>0, <1>2, <2>2, <2>3 DEF Opened
  <2> QED
    BY <1>0, <1>1, <2>1, <2>2, <2>3, <2>4, <2>5, <2>6, <2>7, CallStep DEF UpgradeTypes, Place
<1>3. ASSUME r.op = "upgrade", Fails(c, "kephalaion"), UNCHANGED <<remote, clone, readOnly, address, target, found>>,
             UNCHANGED <<kephalaion, entries, serving, updateMu, upgradeCalls, upgradeHarm>>
      PROVE  UpgradeInv'
  <2> DEFINE q == [r EXCEPT !.step = "kephalaion", !.error = TRUE]
  <2>1. attempt' = [attempt EXCEPT ![c] = q]
    BY <1>0, <1>3 DEF Now, Fails
  <2>2. /\ remote' = remote /\ clone' = clone /\ readOnly' = readOnly
        /\ address' = address /\ target' = target /\ found' = found
        /\ kephalaion' = kephalaion /\ entries' = entries /\ serving' = serving
        /\ updateMu' = updateMu /\ upgradeCalls' = upgradeCalls /\ upgradeFaults' \in 0..MaxUpgradeFaults
        /\ upgradeHarm' = {}
    BY <1>0, <1>1, <1>3, FaultCounts DEF Fails
  <2>3. /\ q.op = r.op /\ q.step = "kephalaion" /\ q.running = r.running /\ q.before = r.before
        /\ q.version = r.version /\ q.pulled = r.pulled /\ q.installed = r.installed /\ q.script = r.script
        /\ q.tried = r.tried /\ q.told = r.told /\ q.unclosed = r.unclosed
        /\ q.stepBy = r.stepBy /\ q.stepDone = r.stepDone /\ q.error = TRUE
        /\ q.alone = r.alone /\ q.foretold = r.foretold
    BY <1>1 DEF AttemptRecord
  <2>4. q \in AttemptRecord
    BY <1>1, <1>3 DEF AttemptRecord, UpgradeSteps
  <2> HIDE DEF q
  <2>5. Shared(c, q, clone', entries', serving', updateMu')
    <3>1. q.op \in PageOps => OfThePage(c, q, clone', serving', updateMu')
      BY <1>0, <1>1, <1>3, <2>2, <2>3 DEF Shared, OfThePage, PageOps, Replacing
    <3>2. q.version <= clone' /\ q.step \notin Replacing \cup Pulling \cup {"idle", "repair", "restart"} /\ q.op # "none"
      BY <1>0, <1>1, <1>3, <2>2, <2>3 DEF Shared, Replacing, Pulling
    <3>3. r.step \notin Pulling \cup {"repair"} /\ r.step # "end"
      BY <1>0 DEF Pulling
    <3>4. (q.pulled => q.tried /\ (entries' => q.told)) /\ ((q.tried /\ ~q.unclosed) => q.pulled) /\ ~q.stepDone
      BY <1>1, <2>2, <2>3, <3>3 DEF Shared
    <3> QED
      BY <1>3, <2>3, <3>1, <3>2, <3>4 DEF Shared
  <2>6. Lone(q, clone', remote', target', found')
    BY <1>0, <1>1, <1>3, <2>2, <2>3 DEF Lone, Shared, OfThePage, PageOps, Pulling, Replacing, ToReplace, Reported
  <2>7. readOnly' = "no" => q.step \in Opened \/ (readOnly = "no" /\ r.step \notin Opened)
    BY <1>0, <1>3, <2>2, <2>3 DEF Opened
  <2> QED
    BY <1>0, <1>1, <2>1, <2>2, <2>3, <2>4, <2>5, <2>6, <2>7, CallStep DEF UpgradeTypes, Place
<1>4. ASSUME r.op # "upgrade", Fails(c, "end"), UNCHANGED <<remote, clone, readOnly, address, target, found>>,
             UNCHANGED <<kephalaion, entries, serving, updateMu, upgradeCalls, upgradeHarm>>
      PROVE  UpgradeInv'
  <2> DEFINE q == [r EXCEPT !.step = "end", !.error = TRUE]
  <2>1. attempt' = [attempt EXCEPT ![c] = q]
    BY <1>0, <1>4 DEF Now, Fails
  <2>2. /\ remote' = remote /\ clone' = clone /\ readOnly' = readOnly
        /\ address' = address /\ target' = target /\ found' = found
        /\ kephalaion' = kephalaion /\ entries' = entries /\ serving' = serving
        /\ updateMu' = updateMu /\ upgradeCalls' = upgradeCalls /\ upgradeFaults' \in 0..MaxUpgradeFaults
        /\ upgradeHarm' = {}
    BY <1>0, <1>1, <1>4, FaultCounts DEF Fails
  <2>3. /\ q.op = r.op /\ q.step = "end" /\ q.running = r.running /\ q.before = r.before
        /\ q.version = r.version /\ q.pulled = r.pulled /\ q.installed = r.installed /\ q.script = r.script
        /\ q.tried = r.tried /\ q.told = r.told /\ q.unclosed = r.unclosed
        /\ q.stepBy = r.stepBy /\ q.stepDone = r.stepDone /\ q.error = TRUE
        /\ q.alone = r.alone /\ q.foretold = r.foretold
    BY <1>1 DEF AttemptRecord
  <2>4. q \in AttemptRecord
    BY <1>1, <1>4 DEF AttemptRecord, UpgradeSteps
  <2> HIDE DEF q
  <2>5. Shared(c, q, clone', entries', serving', updateMu')
    <3>1. q.op \in PageOps => OfThePage(c, q, clone', serving', updateMu')
      BY <1>0, <1>1, <1>4, <2>2, <2>3, <1>p DEF Shared, OfThePage, PageOps, Replacing
    <3>2. q.version <= clone' /\ q.step \notin Replacing \cup Pulling \cup {"idle", "repair", "restart"} /\ q.op # "none"
      BY <1>0, <1>1, <1>4, <2>2, <2>3 DEF Shared, Replacing, Pulling
    <3>3. r.step \notin Pulling \cup {"repair"} /\ r.step # "end"
      BY <1>0 DEF Pulling
    <3>4. (q.pulled => q.tried /\ (entries' => q.told)) /\ ((q.tried /\ ~q.unclosed) => q.pulled) /\ ~q.stepDone
      BY <1>1, <2>2, <2>3, <3>3 DEF Shared
    <3> QED
      BY <1>4, <2>3, <3>1, <3>2, <3>4 DEF Shared
  <2>6. Lone(q, clone', remote', target', found')
    BY <1>0, <1>1, <1>4, <2>2, <2>3, <1>p DEF Lone, Shared, OfThePage, PageOps, Pulling, Replacing, ToReplace, Reported
  <2>7. readOnly' = "no" => q.step \in Opened \/ (readOnly = "no" /\ r.step \notin Opened)
    BY <1>0, <1>4, <2>2, <2>3 DEF Opened
  <2> QED
    BY <1>0, <1>1, <2>1, <2>2, <2>3, <2>4, <2>5, <2>6, <2>7, CallStep DEF UpgradeTypes, Place
<1> QED
  BY <1>0, <1>1, <1>2, <1>3, <1>4, <1>k, <1>p, FaultCounts DEF ScriptLooksForKephalaion, NotInstalled

LEMMA VerifyKeeps ==
  ASSUME UpgradeInv, NEW c \in UpgradeCall, Verify(c)
  PROVE  UpgradeInv'
<1> DEFINE r == attempt[c]
<1>0. r.step = "verify"
  BY DEF Verify
<1>1. /\ UpgradeTypes /\ upgradeHarm = {} /\ r \in AttemptRecord
      /\ Shared(c, r, clone, entries, serving, updateMu) /\ Lone(r, clone, remote, target, found)
      /\ clone \in Int /\ target \in Int /\ remote \in Int /\ serving \in Int
      /\ r.running \in Int /\ r.script \in Int /\ r.version \in Int
      /\ clone \in Place /\ target \in Place /\ remote \in Place /\ serving \in Place /\ clone <= remote
  BY CallIs DEF UpgradeInv, UpgradeTypes, Place
<1>p. r.op # "upgrade" => r.op \in PageOps
  BY <1>0, <1>1 DEF AttemptRecord, Shared, PageOps, Ops
<1>2. ASSUME r.op = "upgrade", target = clone,
             attempt' = [attempt EXCEPT ![c].installed = TRUE, ![c].script = clone, ![c].step = "kephalaion"],
             upgradeFaults' = upgradeFaults, UNCHANGED <<remote, clone, readOnly, address, target, found>>,
             UNCHANGED <<kephalaion, entries, serving, updateMu, upgradeCalls, upgradeHarm>>
      PROVE  UpgradeInv'
  <2> DEFINE q == [r EXCEPT !.step = "kephalaion", !.installed = TRUE, !.script = clone]
  <2>1. attempt' = [attempt EXCEPT ![c] = q]
    BY <1>0, <1>2 DEF Now, Fails
  <2>2. /\ remote' = remote /\ clone' = clone /\ readOnly' = readOnly
        /\ address' = address /\ target' = target /\ found' = found
        /\ kephalaion' = kephalaion /\ entries' = entries /\ serving' = serving
        /\ updateMu' = updateMu /\ upgradeCalls' = upgradeCalls /\ upgradeFaults' = upgradeFaults
        /\ upgradeHarm' = {}
    BY <1>0, <1>1, <1>2, FaultCounts
  <2>3. /\ q.op = r.op /\ q.step = "kephalaion" /\ q.running = r.running /\ q.before = r.before
        /\ q.version = r.version /\ q.pulled = r.pulled /\ q.installed = TRUE /\ q.script = clone
        /\ q.tried = r.tried /\ q.told = r.told /\ q.unclosed = r.unclosed
        /\ q.stepBy = r.stepBy /\ q.stepDone = r.stepDone /\ q.error = r.error
        /\ q.alone = r.alone /\ q.foretold = r.foretold
    BY <1>1 DEF AttemptRecord
  <2>4. q \in AttemptRecord
    BY <1>1, <1>2 DEF AttemptRecord, UpgradeSteps
  <2> HIDE DEF q
  <2>5. Shared(c, q, clone', entries', serving', updateMu')
    BY <1>0, <1>1, <1>2, <2>2, <2>3 DEF Shared, OfThePage, PageOps, Pulling, Replacing, Ops
  <2>6. Lone(q, clone', remote', target', found')
    <3>1. ASSUME r.alone, r.foretold # "none" PROVE r.foretold = "installs" /\ clone = remote /\ 1 <= clone
      BY <1>0, <1>1, <1>2, <3>1 DEF Lone, Replacing
    <3>2. q.stepDone = FALSE
      BY <1>0, <1>1, <2>3 DEF Shared, AttemptRecord
    <3> QED
      BY <1>0, <1>1, <1>2, <2>2, <2>3, <3>1, <3>2 DEF Lone, ToReplace, Replacing, Reported, Pulling
  <2>7. readOnly' = "no" => q.step \in Opened \/ (readOnly = "no" /\ r.step \notin Opened)
    BY <1>0, <1>2, <2>2, <2>3 DEF Opened
  <2> QED
    BY <1>0, <1>1, <2>1, <2>2, <2>3, <2>4, <2>5, <2>6, <2>7, CallStep DEF UpgradeTypes, Place
<1>3. ASSUME r.op # "upgrade", target = clone,
             attempt' = [attempt EXCEPT ![c].installed = TRUE, ![c].script = clone, ![c].step = "restart"],
             upgradeFaults' = upgradeFaults, UNCHANGED <<remote, clone, readOnly, address, target, found>>,
             UNCHANGED <<kephalaion, entries, serving, updateMu, upgradeCalls, upgradeHarm>>
      PROVE  UpgradeInv'
  <2> DEFINE q == [r EXCEPT !.step = "restart", !.installed = TRUE, !.script = clone]
  <2>1. attempt' = [attempt EXCEPT ![c] = q]
    BY <1>0, <1>3 DEF Now, Fails
  <2>2. /\ remote' = remote /\ clone' = clone /\ readOnly' = readOnly
        /\ address' = address /\ target' = target /\ found' = found
        /\ kephalaion' = kephalaion /\ entries' = entries /\ serving' = serving
        /\ updateMu' = updateMu /\ upgradeCalls' = upgradeCalls /\ upgradeFaults' = upgradeFaults
        /\ upgradeHarm' = {}
    BY <1>0, <1>1, <1>3, FaultCounts
  <2>3. /\ q.op = r.op /\ q.step = "restart" /\ q.running = r.running /\ q.before = r.before
        /\ q.version = r.version /\ q.pulled = r.pulled /\ q.installed = TRUE /\ q.script = clone
        /\ q.tried = r.tried /\ q.told = r.told /\ q.unclosed = r.unclosed
        /\ q.stepBy = r.stepBy /\ q.stepDone = r.stepDone /\ q.error = r.error
        /\ q.alone = r.alone /\ q.foretold = r.foretold
    BY <1>1 DEF AttemptRecord
  <2>4. q \in AttemptRecord
    BY <1>1, <1>3 DEF AttemptRecord, UpgradeSteps
  <2> HIDE DEF q
  <2>e. 1 <= r.running /\ r.running < clone /\ q.stepDone = FALSE
    <3>1. 1 <= r.running /\ r.running < r.script /\ r.script <= clone /\ r.stepDone = FALSE
      BY <1>0, <1>1, <1>3, <1>p DEF Shared, OfThePage, Replacing, AttemptRecord
    <3> QED
      BY <1>1, <2>3, <3>1
  <2>5. Shared(c, q, clone', entries', serving', updateMu')
    <3>1. q.op \in PageOps => OfThePage(c, q, clone', serving', updateMu')
      BY <1>0, <1>1, <1>3, <2>2, <2>3, <2>e, <1>p DEF Shared, OfThePage, PageOps, Replacing
    <3> QED
      BY <1>0, <1>1, <1>3, <2>2, <2>3, <3>1, <2>e, <1>p DEF Shared, Pulling, Replacing
  <2>6. Lone(q, clone', remote', target', found')
    BY <1>0, <1>1, <1>3, <2>2, <2>3, <2>e, <1>p DEF Lone, Shared, OfThePage, PageOps, Pulling, Replacing, ToReplace, Reported
  <2>7. readOnly' = "no" => q.step \in Opened \/ (readOnly = "no" /\ r.step \notin Opened)
    BY <1>0, <1>3, <2>2, <2>3 DEF Opened
  <2> QED
    BY <1>0, <1>1, <2>1, <2>2, <2>3, <2>4, <2>5, <2>6, <2>7, CallStep DEF UpgradeTypes, Place
<1>4. ASSUME r.op = "upgrade", attempt' = [attempt EXCEPT ![c].error = TRUE, ![c].step = "kephalaion"],
             upgradeFaults' = upgradeFaults, UNCHANGED <<remote, clone, readOnly, address, target, found>>,
             UNCHANGED <<kephalaion, entries, serving, updateMu, upgradeCalls, upgradeHarm>>
      PROVE  UpgradeInv'
  <2> DEFINE q == [r EXCEPT !.step = "kephalaion", !.error = TRUE]
  <2>1. attempt' = [attempt EXCEPT ![c] = q]
    BY <1>0, <1>4 DEF Now, Fails
  <2>2. /\ remote' = remote /\ clone' = clone /\ readOnly' = readOnly
        /\ address' = address /\ target' = target /\ found' = found
        /\ kephalaion' = kephalaion /\ entries' = entries /\ serving' = serving
        /\ updateMu' = updateMu /\ upgradeCalls' = upgradeCalls /\ upgradeFaults' = upgradeFaults
        /\ upgradeHarm' = {}
    BY <1>0, <1>1, <1>4, FaultCounts
  <2>3. /\ q.op = r.op /\ q.step = "kephalaion" /\ q.running = r.running /\ q.before = r.before
        /\ q.version = r.version /\ q.pulled = r.pulled /\ q.installed = r.installed /\ q.script = r.script
        /\ q.tried = r.tried /\ q.told = r.told /\ q.unclosed = r.unclosed
        /\ q.stepBy = r.stepBy /\ q.stepDone = r.stepDone /\ q.error = TRUE
        /\ q.alone = r.alone /\ q.foretold = r.foretold
    BY <1>1 DEF AttemptRecord
  <2>4. q \in AttemptRecord
    BY <1>1, <1>4 DEF AttemptRecord, UpgradeSteps
  <2> HIDE DEF q
  <2>5. Shared(c, q, clone', entries', serving', updateMu')
    BY <1>0, <1>1, <1>4, <2>2, <2>3 DEF Shared, OfThePage, PageOps, Pulling, Replacing, Ops
  <2>6. Lone(q, clone', remote', target', found')
    BY <1>0, <1>1, <1>4, <2>2, <2>3 DEF Lone, Shared, OfThePage, PageOps, Pulling, Replacing, ToReplace, Reported
  <2>7. readOnly' = "no" => q.step \in Opened \/ (readOnly = "no" /\ r.step \notin Opened)
    BY <1>0, <1>4, <2>2, <2>3 DEF Opened
  <2> QED
    BY <1>0, <1>1, <2>1, <2>2, <2>3, <2>4, <2>5, <2>6, <2>7, CallStep DEF UpgradeTypes, Place
<1>5. ASSUME r.op # "upgrade", attempt' = [attempt EXCEPT ![c].error = TRUE, ![c].step = "end"],
             upgradeFaults' = upgradeFaults, UNCHANGED <<remote, clone, readOnly, address, target, found>>,
             UNCHANGED <<kephalaion, entries, serving, updateMu, upgradeCalls, upgradeHarm>>
      PROVE  UpgradeInv'
  <2> DEFINE q == [r EXCEPT !.step = "end", !.error = TRUE]
  <2>1. attempt' = [attempt EXCEPT ![c] = q]
    BY <1>0, <1>5 DEF Now, Fails
  <2>2. /\ remote' = remote /\ clone' = clone /\ readOnly' = readOnly
        /\ address' = address /\ target' = target /\ found' = found
        /\ kephalaion' = kephalaion /\ entries' = entries /\ serving' = serving
        /\ updateMu' = updateMu /\ upgradeCalls' = upgradeCalls /\ upgradeFaults' = upgradeFaults
        /\ upgradeHarm' = {}
    BY <1>0, <1>1, <1>5, FaultCounts
  <2>3. /\ q.op = r.op /\ q.step = "end" /\ q.running = r.running /\ q.before = r.before
        /\ q.version = r.version /\ q.pulled = r.pulled /\ q.installed = r.installed /\ q.script = r.script
        /\ q.tried = r.tried /\ q.told = r.told /\ q.unclosed = r.unclosed
        /\ q.stepBy = r.stepBy /\ q.stepDone = r.stepDone /\ q.error = TRUE
        /\ q.alone = r.alone /\ q.foretold = r.foretold
    BY <1>1 DEF AttemptRecord
  <2>4. q \in AttemptRecord
    BY <1>1, <1>5 DEF AttemptRecord, UpgradeSteps
  <2> HIDE DEF q
  <2>5. Shared(c, q, clone', entries', serving', updateMu')
    <3>1. q.op \in PageOps => OfThePage(c, q, clone', serving', updateMu')
      BY <1>0, <1>1, <1>5, <2>2, <2>3, <1>p DEF Shared, OfThePage, PageOps, Replacing
    <3> QED
      BY <1>0, <1>1, <1>5, <2>2, <2>3, <1>p, <3>1 DEF Shared, Pulling, Replacing
  <2>6. Lone(q, clone', remote', target', found')
    BY <1>0, <1>1, <1>5, <2>2, <2>3, <1>p DEF Lone, Shared, OfThePage, PageOps, Pulling, Replacing, ToReplace, Reported
  <2>7. readOnly' = "no" => q.step \in Opened \/ (readOnly = "no" /\ r.step \notin Opened)
    BY <1>0, <1>5, <2>2, <2>3 DEF Opened
  <2> QED
    BY <1>0, <1>1, <2>1, <2>2, <2>3, <2>4, <2>5, <2>6, <2>7, CallStep DEF UpgradeTypes, Place
<1> QED
  BY <1>0, <1>1, <1>2, <1>3, <1>4, <1>5, <1>p DEF Verify, World, NotInstalled, After

LEMMA UpgradeKephalaionKeeps ==
  ASSUME UpgradeInv, NEW c \in UpgradeCall, UpgradeKephalaion(c)
  PROVE  UpgradeInv'
<1> DEFINE r == attempt[c]
<1>0. r.step = "kephalaion"
  BY DEF UpgradeKephalaion
<1>1. /\ UpgradeTypes /\ upgradeHarm = {} /\ r \in AttemptRecord
      /\ Shared(c, r, clone, entries, serving, updateMu) /\ Lone(r, clone, remote, target, found)
      /\ clone \in Int /\ target \in Int /\ remote \in Int /\ serving \in Int
      /\ r.running \in Int /\ r.script \in Int /\ r.version \in Int
      /\ clone \in Place /\ target \in Place /\ remote \in Place /\ serving \in Place /\ clone <= remote
  BY CallIs DEF UpgradeInv, UpgradeTypes, Place
<1>p. r.op # "upgrade" => r.op \in PageOps
  BY <1>0, <1>1 DEF AttemptRecord, Shared, PageOps, Ops
<1>k. kephalaion \in BOOLEAN /\ upgradeFaults \in 0..MaxUpgradeFaults
  BY <1>1 DEF UpgradeTypes
<1>2. ASSUME kephalaion' \in BOOLEAN, Now(c, "project"), upgradeFaults' \in 0..MaxUpgradeFaults,
             UNCHANGED <<remote, clone, readOnly, address, target, found>>,
             UNCHANGED <<entries, serving, updateMu, upgradeCalls, upgradeHarm>>
      PROVE  UpgradeInv'
  <2> DEFINE q == [r EXCEPT !.step = "project"]
  <2>1. attempt' = [attempt EXCEPT ![c] = q]
    BY <1>0, <1>2 DEF Now, Fails
  <2>2. /\ remote' = remote /\ clone' = clone /\ readOnly' = readOnly
        /\ address' = address /\ target' = target /\ found' = found
        /\ kephalaion' \in BOOLEAN /\ entries' = entries /\ serving' = serving
        /\ updateMu' = updateMu /\ upgradeCalls' = upgradeCalls /\ upgradeFaults' \in 0..MaxUpgradeFaults
        /\ upgradeHarm' = {}
    BY <1>0, <1>1, <1>2, FaultCounts
  <2>3. /\ q.op = r.op /\ q.step = "project" /\ q.running = r.running /\ q.before = r.before
        /\ q.version = r.version /\ q.pulled = r.pulled /\ q.installed = r.installed /\ q.script = r.script
        /\ q.tried = r.tried /\ q.told = r.told /\ q.unclosed = r.unclosed
        /\ q.stepBy = r.stepBy /\ q.stepDone = r.stepDone /\ q.error = r.error
        /\ q.alone = r.alone /\ q.foretold = r.foretold
    BY <1>1 DEF AttemptRecord
  <2>4. q \in AttemptRecord
    BY <1>1, <1>2 DEF AttemptRecord, UpgradeSteps
  <2> HIDE DEF q
  <2>5. Shared(c, q, clone', entries', serving', updateMu')
    <3>1. q.op \in PageOps => OfThePage(c, q, clone', serving', updateMu')
      BY <1>0, <1>1, <1>2, <2>2, <2>3, <1>p DEF Shared, OfThePage, PageOps, Replacing
    <3> QED
      BY <1>0, <1>1, <1>2, <2>2, <2>3, <3>1, <1>p DEF Shared, Pulling, Replacing
  <2>6. Lone(q, clone', remote', target', found')
    BY <1>0, <1>1, <1>2, <2>2, <2>3, <1>p DEF Lone, Shared, OfThePage, PageOps, Pulling, Replacing, ToReplace, Reported
  <2>7. readOnly' = "no" => q.step \in Opened \/ (readOnly = "no" /\ r.step \notin Opened)
    BY <1>0, <1>2, <2>2, <2>3 DEF Opened
  <2> QED
    BY <1>0, <1>1, <2>1, <2>2, <2>3, <2>4, <2>5, <2>6, <2>7, CallStep DEF UpgradeTypes, Place
<1> QED
  BY <1>0, <1>1, <1>2, <1>k, FaultCounts DEF UpgradeKephalaion

LEMMA ProjectStepKeeps ==
  ASSUME UpgradeInv, NEW c \in UpgradeCall, ProjectStep(c)
  PROVE  UpgradeInv'
<1> DEFINE r == attempt[c]
<1>0. r.step = "project"
  BY DEF ProjectStep
<1>1. /\ UpgradeTypes /\ upgradeHarm = {} /\ r \in AttemptRecord
      /\ Shared(c, r, clone, entries, serving, updateMu) /\ Lone(r, clone, remote, target, found)
      /\ clone \in Int /\ target \in Int /\ remote \in Int /\ serving \in Int
      /\ r.running \in Int /\ r.script \in Int /\ r.version \in Int
      /\ clone \in Place /\ target \in Place /\ remote \in Place /\ serving \in Place /\ clone <= remote
  BY CallIs DEF UpgradeInv, UpgradeTypes, Place
<1>p. r.op # "upgrade" => r.op \in PageOps
  BY <1>0, <1>1 DEF AttemptRecord, Shared, PageOps, Ops
<1>e. r.pulled => r.tried /\ (entries => r.told)
  BY <1>0, <1>1 DEF Shared, Pulling
<1>f. upgradeHarm' = {}
  BY <1>0, <1>1 DEF Shared, ProjectStep, RepairsEntries
<1>2. ASSUME NEW error \in BOOLEAN, NEW told \in BOOLEAN, told => error,
             attempt' = [attempt EXCEPT ![c].step = "end", ![c].stepBy = IF r.installed THEN target ELSE r.running, ![c].stepDone = TRUE,
                                       ![c].tried = @ \/ ~r.pulled, ![c].error = @ \/ error, ![c].told = @ \/ told],
             entries' = (entries /\ (told \/ r.pulled)), upgradeFaults' \in 0..MaxUpgradeFaults,
             UNCHANGED <<remote, clone, readOnly, address, target, found>>,
             UNCHANGED <<kephalaion, serving, updateMu, upgradeCalls>>
      PROVE  UpgradeInv'
  <2> DEFINE by == IF r.installed THEN target ELSE r.running
             tried == r.tried \/ ~r.pulled
             wrong == r.error \/ error
             says == r.told \/ told
             q == [r EXCEPT !.step = "end", !.stepBy = by, !.stepDone = TRUE, !.tried = tried, !.error = wrong, !.told = says]
  <2>1. attempt' = [attempt EXCEPT ![c] = q]
    BY <1>0, <1>2
  <2>2. /\ remote' = remote /\ clone' = clone /\ readOnly' = readOnly
        /\ address' = address /\ target' = target /\ found' = found
        /\ kephalaion' = kephalaion /\ entries' = (entries /\ (told \/ r.pulled)) /\ serving' = serving
        /\ updateMu' = updateMu /\ upgradeCalls' = upgradeCalls /\ upgradeFaults' \in 0..MaxUpgradeFaults
        /\ upgradeHarm' = {}
    BY <1>0, <1>1, <1>2, <1>f, FaultCounts DEF UpgradeTypes
  <2>3. /\ q.op = r.op /\ q.step = "end" /\ q.running = r.running /\ q.before = r.before
        /\ q.version = r.version /\ q.pulled = r.pulled /\ q.installed = r.installed /\ q.script = r.script
        /\ q.tried = (r.tried \/ ~r.pulled) /\ q.told = (r.told \/ told) /\ q.unclosed = r.unclosed
        /\ q.stepBy = (IF r.installed THEN target ELSE r.running) /\ q.stepDone = TRUE /\ q.error = (r.error \/ error)
        /\ q.alone = r.alone /\ q.foretold = r.foretold
    BY <1>1 DEF AttemptRecord
  <2>8. by \in Place /\ tried \in BOOLEAN /\ wrong \in BOOLEAN /\ says \in BOOLEAN
    BY <1>1 DEF AttemptRecord
  <2>4. q \in AttemptRecord
    <3> HIDE DEF by, tried, wrong, says
    <3> QED
      BY <1>1, <2>8 DEF AttemptRecord, UpgradeSteps
  <2> HIDE DEF q
  <2>5. Shared(c, q, clone', entries', serving', updateMu')
    BY <1>0, <1>1, <1>2, <1>e, <2>2, <2>3, <1>p DEF Shared, OfThePage, PageOps, Replacing, Pulling
  <2>6. Lone(q, clone', remote', target', found')
    BY <1>0, <1>1, <1>2, <2>2, <2>3, <1>p DEF Lone, Shared, OfThePage, PageOps, Pulling, Replacing, ToReplace, Reported
  <2>7. readOnly' = "no" => q.step \in Opened \/ (readOnly = "no" /\ r.step \notin Opened)
    BY <1>0, <1>2, <2>2, <2>3 DEF Opened
  <2> QED
    BY <1>0, <1>1, <2>1, <2>2, <2>3, <2>4, <2>5, <2>6, <2>7, CallStep DEF UpgradeTypes, Place
<1>3. ASSUME UpgradeFault, entries' \in BOOLEAN, entries' => entries,
             attempt' = [attempt EXCEPT ![c].step = "end", ![c].error = TRUE, ![c].told = TRUE],
             UNCHANGED <<remote, clone, readOnly, address, target, found>>,
             UNCHANGED <<kephalaion, serving, updateMu, upgradeCalls>>
      PROVE  UpgradeInv'
  <2> DEFINE q == [r EXCEPT !.step = "end", !.error = TRUE, !.told = TRUE]
  <2>1. attempt' = [attempt EXCEPT ![c] = q]
    BY <1>0, <1>3
  <2>2. /\ remote' = remote /\ clone' = clone /\ readOnly' = readOnly
        /\ address' = address /\ target' = target /\ found' = found
        /\ kephalaion' = kephalaion /\ entries' \in BOOLEAN /\ (entries' => entries) /\ serving' = serving
        /\ updateMu' = updateMu /\ upgradeCalls' = upgradeCalls /\ upgradeFaults' \in 0..MaxUpgradeFaults
        /\ upgradeHarm' = {}
    BY <1>0, <1>1, <1>3, <1>f, FaultCounts DEF UpgradeTypes
  <2>3. /\ q.op = r.op /\ q.step = "end" /\ q.running = r.running /\ q.before = r.before
        /\ q.version = r.version /\ q.pulled = r.pulled /\ q.installed = r.installed /\ q.script = r.script
        /\ q.tried = r.tried /\ q.told = TRUE /\ q.unclosed = r.unclosed
        /\ q.stepBy = r.stepBy /\ q.stepDone = r.stepDone /\ q.error = TRUE
        /\ q.alone = r.alone /\ q.foretold = r.foretold
    BY <1>1 DEF AttemptRecord
  <2>4. q \in AttemptRecord
    BY <1>1, <1>3 DEF AttemptRecord, UpgradeSteps
  <2> HIDE DEF q
  <2>5. Shared(c, q, clone', entries', serving', updateMu')
    BY <1>0, <1>1, <1>3, <1>e, <2>2, <2>3, <1>p DEF Shared, OfThePage, PageOps, Replacing, Pulling
  <2>6. Lone(q, clone', remote', target', found')
    BY <1>0, <1>1, <1>3, <2>2, <2>3, <1>p DEF Lone, Shared, OfThePage, PageOps, Pulling, Replacing, ToReplace, Reported
  <2>7. readOnly' = "no" => q.step \in Opened \/ (readOnly = "no" /\ r.step \notin Opened)
    BY <1>0, <1>3, <2>2, <2>3 DEF Opened
  <2> QED
    BY <1>0, <1>1, <2>1, <2>2, <2>3, <2>4, <2>5, <2>6, <2>7, CallStep DEF UpgradeTypes, Place
<1> QED
  <2> DEFINE repairs == RepairsEntries(c)
             Ended(error, told) ==
               [attempt EXCEPT ![c].step = "end", ![c].stepBy = IF r.installed THEN target ELSE r.running,
                               ![c].stepDone = TRUE, ![c].tried = @ \/ repairs, ![c].error = @ \/ error,
                               ![c].told = @ \/ told]
  <2>1. repairs = ~r.pulled /\ r.pulled \in BOOLEAN /\ entries \in BOOLEAN /\ upgradeFaults \in 0..MaxUpgradeFaults
    BY <1>1 DEF RepairsEntries, UpgradeTypes, AttemptRecord
  <2>2. /\ UNCHANGED <<remote, clone, readOnly, address, target, found>>
        /\ UNCHANGED <<kephalaion, serving, updateMu, upgradeCalls>>
    BY DEF ProjectStep
  <2>3. \/ attempt' = Ended(FALSE, FALSE) /\ entries' = (entries /\ ~repairs) /\ upgradeFaults' = upgradeFaults
        \/ UpgradeFault /\ attempt' = Ended(TRUE, FALSE) /\ entries' = (entries /\ ~repairs)
        \/ repairs /\ UpgradeFault /\ attempt' = Ended(TRUE, TRUE) /\ entries' = entries
        \/ /\ UpgradeFault /\ entries' \in {entries, entries /\ ~repairs}
           /\ attempt' = [attempt EXCEPT ![c].step = "end", ![c].error = TRUE, ![c].told = TRUE]
    BY DEF ProjectStep
  <2>4. CASE attempt' = Ended(FALSE, FALSE) /\ entries' = (entries /\ ~repairs) /\ upgradeFaults' = upgradeFaults
    BY <1>2, <2>1, <2>2, <2>4
  <2>5. CASE UpgradeFault /\ attempt' = Ended(TRUE, FALSE) /\ entries' = (entries /\ ~repairs)
    BY <1>1, <1>2, <2>1, <2>2, <2>5, FaultCounts
  <2>6. CASE repairs /\ UpgradeFault /\ attempt' = Ended(TRUE, TRUE) /\ entries' = entries
    BY <1>1, <1>2, <2>1, <2>2, <2>6, FaultCounts
  <2>7. CASE /\ UpgradeFault /\ entries' \in {entries, entries /\ ~repairs}
             /\ attempt' = [attempt EXCEPT ![c].step = "end", ![c].error = TRUE, ![c].told = TRUE]
    BY <1>3, <2>1, <2>2, <2>7
  <2> QED
    BY <2>3, <2>4, <2>5, <2>6, <2>7

LEMMA RestartKeeps ==
  ASSUME UpgradeInv, NEW c \in UpgradeCall, Restart(c)
  PROVE  UpgradeInv'
<1> DEFINE r == attempt[c]
<1>0. r.step = "restart"
  BY DEF Restart
<1>1. /\ UpgradeTypes /\ upgradeHarm = {} /\ r \in AttemptRecord
      /\ Shared(c, r, clone, entries, serving, updateMu) /\ Lone(r, clone, remote, target, found)
      /\ clone \in Int /\ target \in Int /\ remote \in Int /\ serving \in Int
      /\ r.running \in Int /\ r.script \in Int /\ r.version \in Int
      /\ clone \in Place /\ target \in Place /\ remote \in Place /\ serving \in Place /\ clone <= remote
  BY CallIs DEF UpgradeInv, UpgradeTypes, Place
<1>p. r.op \in PageOps
  BY <1>0, <1>1 DEF AttemptRecord, Shared, PageOps, Ops
<1>m. updateMu = c
  BY <1>1, <1>p DEF Shared, OfThePage
<1>h. target = r.script => ~IsOlder(target, serving) /\ updateMu = c
  BY <1>0, <1>1, <1>p, ReleasesAreOrdered DEF Shared, OfThePage, Replacing, Place
<1>2. ASSUME target = r.script, serving' = target, Now(c, "end"), upgradeHarm' = {}, upgradeFaults' = upgradeFaults,
             UNCHANGED <<remote, clone, readOnly, address, target, found>>,
             UNCHANGED <<kephalaion, entries, updateMu, upgradeCalls>>
      PROVE  UpgradeInv'
  <2> DEFINE q == [r EXCEPT !.step = "end"]
  <2>1. attempt' = [attempt EXCEPT ![c] = q]
    BY <1>0, <1>2 DEF Now, Fails
  <2>2. /\ remote' = remote /\ clone' = clone /\ readOnly' = readOnly
        /\ address' = address /\ target' = target /\ found' = found
        /\ kephalaion' = kephalaion /\ entries' = entries /\ serving' = target
        /\ updateMu' = updateMu /\ upgradeCalls' = upgradeCalls /\ upgradeFaults' = upgradeFaults
        /\ upgradeHarm' = {}
    BY <1>0, <1>1, <1>2, FaultCounts
  <2>3. /\ q.op = r.op /\ q.step = "end" /\ q.running = r.running /\ q.before = r.before
        /\ q.version = r.version /\ q.pulled = r.pulled /\ q.installed = r.installed /\ q.script = r.script
        /\ q.tried = r.tried /\ q.told = r.told /\ q.unclosed = r.unclosed
        /\ q.stepBy = r.stepBy /\ q.stepDone = r.stepDone /\ q.error = r.error
        /\ q.alone = r.alone /\ q.foretold = r.foretold
    BY <1>1 DEF AttemptRecord
  <2>4. q \in AttemptRecord
    BY <1>1, <1>2 DEF AttemptRecord, UpgradeSteps
  <2> HIDE DEF q
  <2>5. Shared(c, q, clone', entries', serving', updateMu')
    <3>1. q.op \in PageOps => OfThePage(c, q, clone', serving', updateMu')
      BY <1>0, <1>1, <1>2, <2>2, <2>3, <1>p DEF Shared, OfThePage, PageOps, Replacing
    <3> QED
      BY <1>0, <1>1, <1>2, <2>2, <2>3, <3>1, <1>p DEF Shared, Pulling, Replacing
  <2>6. Lone(q, clone', remote', target', found')
    BY <1>0, <1>1, <1>2, <2>2, <2>3, <1>p DEF Lone, Shared, OfThePage, PageOps, Pulling, Replacing, ToReplace, Reported
  <2>7. readOnly' = "no" => q.step \in Opened \/ (readOnly = "no" /\ r.step \notin Opened)
    BY <1>0, <1>2, <2>2, <2>3 DEF Opened
  <2> QED
    BY <1>0, <1>1, <2>1, <2>2, <2>3, <2>4, <2>5, <2>6, <2>7, CallStep, <1>m DEF UpgradeTypes, Place
<1>3. ASSUME attempt' = [attempt EXCEPT ![c].step = "end", ![c].error = TRUE], upgradeFaults' = upgradeFaults,
             UNCHANGED <<remote, clone, readOnly, address, target, found>>,
             UNCHANGED <<kephalaion, entries, serving, updateMu, upgradeCalls, upgradeHarm>>
      PROVE  UpgradeInv'
  <2> DEFINE q == [r EXCEPT !.step = "end", !.error = TRUE]
  <2>1. attempt' = [attempt EXCEPT ![c] = q]
    BY <1>0, <1>3 DEF Now, Fails
  <2>2. /\ remote' = remote /\ clone' = clone /\ readOnly' = readOnly
        /\ address' = address /\ target' = target /\ found' = found
        /\ kephalaion' = kephalaion /\ entries' = entries /\ serving' = serving
        /\ updateMu' = updateMu /\ upgradeCalls' = upgradeCalls /\ upgradeFaults' = upgradeFaults
        /\ upgradeHarm' = {}
    BY <1>0, <1>1, <1>3, FaultCounts
  <2>3. /\ q.op = r.op /\ q.step = "end" /\ q.running = r.running /\ q.before = r.before
        /\ q.version = r.version /\ q.pulled = r.pulled /\ q.installed = r.installed /\ q.script = r.script
        /\ q.tried = r.tried /\ q.told = r.told /\ q.unclosed = r.unclosed
        /\ q.stepBy = r.stepBy /\ q.stepDone = r.stepDone /\ q.error = TRUE
        /\ q.alone = r.alone /\ q.foretold = r.foretold
    BY <1>1 DEF AttemptRecord
  <2>4. q \in AttemptRecord
    BY <1>1, <1>3 DEF AttemptRecord, UpgradeSteps
  <2> HIDE DEF q
  <2>5. Shared(c, q, clone', entries', serving', updateMu')
    <3>1. q.op \in PageOps => OfThePage(c, q, clone', serving', updateMu')
      BY <1>0, <1>1, <1>3, <2>2, <2>3, <1>p DEF Shared, OfThePage, PageOps, Replacing
    <3> QED
      BY <1>0, <1>1, <1>3, <2>2, <2>3, <1>p, <3>1 DEF Shared, Pulling, Replacing
  <2>6. Lone(q, clone', remote', target', found')
    BY <1>0, <1>1, <1>3, <2>2, <2>3, <1>p DEF Lone, Shared, OfThePage, PageOps, Pulling, Replacing, ToReplace, Reported
  <2>7. readOnly' = "no" => q.step \in Opened \/ (readOnly = "no" /\ r.step \notin Opened)
    BY <1>0, <1>3, <2>2, <2>3 DEF Opened
  <2> QED
    BY <1>0, <1>1, <2>1, <2>2, <2>3, <2>4, <2>5, <2>6, <2>7, CallStep DEF UpgradeTypes, Place
<1>4. ASSUME Fails(c, "end"), UNCHANGED <<remote, clone, readOnly, address, target, found>>,
             UNCHANGED <<kephalaion, entries, serving, updateMu, upgradeCalls, upgradeHarm>>
      PROVE  UpgradeInv'
  <2> DEFINE q == [r EXCEPT !.step = "end", !.error = TRUE]
  <2>1. attempt' = [attempt EXCEPT ![c] = q]
    BY <1>0, <1>4 DEF Now, Fails
  <2>2. /\ remote' = remote /\ clone' = clone /\ readOnly' = readOnly
        /\ address' = address /\ target' = target /\ found' = found
        /\ kephalaion' = kephalaion /\ entries' = entries /\ serving' = serving
        /\ updateMu' = updateMu /\ upgradeCalls' = upgradeCalls /\ upgradeFaults' \in 0..MaxUpgradeFaults
        /\ upgradeHarm' = {}
    BY <1>0, <1>1, <1>4, FaultCounts DEF Fails
  <2>3. /\ q.op = r.op /\ q.step = "end" /\ q.running = r.running /\ q.before = r.before
        /\ q.version = r.version /\ q.pulled = r.pulled /\ q.installed = r.installed /\ q.script = r.script
        /\ q.tried = r.tried /\ q.told = r.told /\ q.unclosed = r.unclosed
        /\ q.stepBy = r.stepBy /\ q.stepDone = r.stepDone /\ q.error = TRUE
        /\ q.alone = r.alone /\ q.foretold = r.foretold
    BY <1>1 DEF AttemptRecord
  <2>4. q \in AttemptRecord
    BY <1>1, <1>4 DEF AttemptRecord, UpgradeSteps
  <2> HIDE DEF q
  <2>5. Shared(c, q, clone', entries', serving', updateMu')
    <3>1. q.op \in PageOps => OfThePage(c, q, clone', serving', updateMu')
      BY <1>0, <1>1, <1>4, <2>2, <2>3, <1>p DEF Shared, OfThePage, PageOps, Replacing
    <3> QED
      BY <1>0, <1>1, <1>4, <2>2, <2>3, <1>p, <3>1 DEF Shared, Pulling, Replacing
  <2>6. Lone(q, clone', remote', target', found')
    BY <1>0, <1>1, <1>4, <2>2, <2>3, <1>p DEF Lone, Shared, OfThePage, PageOps, Pulling, Replacing, ToReplace, Reported
  <2>7. readOnly' = "no" => q.step \in Opened \/ (readOnly = "no" /\ r.step \notin Opened)
    BY <1>0, <1>4, <2>2, <2>3 DEF Opened
  <2> QED
    BY <1>0, <1>1, <2>1, <2>2, <2>3, <2>4, <2>5, <2>6, <2>7, CallStep DEF UpgradeTypes, Place
<1> QED
  BY <1>0, <1>1, <1>2, <1>3, <1>4, <1>h DEF Restart

LEMMA NoAttemptIs ==
  /\ NoAttempt \in AttemptRecord /\ NoAttempt.op = "none" /\ NoAttempt.step = "idle" /\ NoAttempt.running = 0
  /\ NoAttempt.before = 0 /\ NoAttempt.version = 0 /\ NoAttempt.pulled = FALSE /\ NoAttempt.installed = FALSE
  /\ NoAttempt.script = 0 /\ NoAttempt.tried = FALSE /\ NoAttempt.told = FALSE /\ NoAttempt.unclosed = FALSE
   /\ NoAttempt.stepBy = 0 /\ NoAttempt.stepDone = FALSE
  /\ NoAttempt.error = FALSE /\ NoAttempt.alone = TRUE /\ NoAttempt.foretold = "none"
BY DEF NoAttempt, AttemptRecord, Place, UpgradeSteps

LEMMA NoAttemptShared ==
  ASSUME NEW c, NEW cl \in Place, NEW en, NEW sv, NEW mu
  PROVE  Shared(c, NoAttempt, cl, en, sv, mu)
BY NoAttemptIs DEF Shared, PageOps, Pulling, Replacing, Place

\* A call that is over or killed leaves the lock and nothing to answer for.
LEMMA LeaveKeeps ==
  ASSUME UpgradeInv, NEW c \in UpgradeCall, attempt[c].step # "idle", attempt' = [attempt EXCEPT ![c] = NoAttempt],
         updateMu' = IF updateMu = c THEN "free" ELSE updateMu,
         upgradeHarm' = {}, readOnly' \in {"yes", "no", "left"},
         readOnly' = "no" => readOnly = "no" /\ attempt[c].step \notin Opened,
         upgradeFaults' \in 0..MaxUpgradeFaults, UNCHANGED <<remote, clone, address, target, found>>,
         UNCHANGED <<kephalaion, entries, serving, upgradeCalls>>
  PROVE  UpgradeInv'
<1>1. UpgradeTypes
  BY DEF UpgradeInv
<1>2. Shared(c, NoAttempt, clone', entries', serving', updateMu')
  <2>1. clone' \in Place
    BY <1>1 DEF UpgradeTypes
  <2> QED
    BY <2>1, NoAttemptShared
<1>3. Lone(NoAttempt, clone', remote', target', found')
  BY NoAttemptIs DEF Lone
<1>4. updateMu' \in UpgradeCall \cup {"free"} /\ (updateMu # c => updateMu' = updateMu)
  BY <1>1 DEF UpgradeTypes
<1>5. NoAttempt \in AttemptRecord /\ NoAttempt.step = "idle"
  BY NoAttemptIs
<1> QED
  BY <1>1, <1>2, <1>3, <1>4, <1>5, CallStep DEF UpgradeTypes

LEMMA EndUpgradeKeeps ==
  ASSUME UpgradeInv, NEW c \in UpgradeCall, EndUpgrade(c)
  PROVE  UpgradeInv'
<1> DEFINE r == attempt[c]
<1>0. r.step = "end"
  BY DEF EndUpgrade
<1>1. /\ UpgradeTypes /\ upgradeHarm = {} /\ r \in AttemptRecord
      /\ Shared(c, r, clone, entries, serving, updateMu) /\ Lone(r, clone, remote, target, found)
  BY CallIs DEF UpgradeInv
<1>2. Untrue(c) = {}
  <2>1. /\ (r.op = "upgrade" \/ r.pulled) /\ entries => r.told
        /\ r.op = "upgrade" => r.tried \/ r.told
    BY <1>0, <1>1 DEF Shared, Pulling
  <2>2. (r.op = "upgrade" /\ r.alone /\ r.foretold # "none" /\ ~r.error) => (r.installed <=> r.foretold = "installs")
    BY <1>0, <1>1 DEF Lone, Reported
  <2>3. r.installed \in BOOLEAN
    BY <1>1 DEF AttemptRecord
  <2>4. (r.alone /\ r.installed) => target = clone /\ (r.stepDone => r.stepBy = clone)
    BY <1>0, <1>1 DEF Lone
  <2>5. (r.op = "upgrade" /\ r.alone /\ r.foretold # "none" /\ ~r.error) => r.installed = (r.foretold = "installs")
    BY <2>2, <2>3
  <2> QED
    BY <2>1, <2>4, <2>5, Zenon DEF Untrue
<1>3. /\ upgradeHarm' = {} /\ attempt' = [attempt EXCEPT ![c] = NoAttempt]
      /\ updateMu' = IF updateMu = c THEN "free" ELSE updateMu
      /\ UNCHANGED <<remote, clone, address, target, found>> /\ UNCHANGED <<kephalaion, entries, serving, upgradeCalls>>
      /\ readOnly' = readOnly /\ upgradeFaults' = upgradeFaults
  BY <1>1, <1>2 DEF EndUpgrade
<1> QED
  BY <1>0, <1>1, <1>3, LeaveKeeps DEF UpgradeTypes, Opened

LEMMA UpgradeKilledKeeps ==
  ASSUME UpgradeInv, NEW c \in UpgradeCall, UpgradeKilled(c)
  PROVE  UpgradeInv'
  BY FaultCounts, LeaveKeeps DEF UpgradeInv, UpgradeKilled, UpgradeTypes

\* A call that begins alone is alone; the others it disturbs, and the lock of the page was free.
LEMMA BeginUpgradeKeeps ==
  ASSUME UpgradeInv, NEW c \in UpgradeCall, NEW op \in Ops, NEW running \in Place, BeginUpgrade(c, op, running)
  PROVE  UpgradeInv'
<1>1. /\ UpgradeTypes /\ attempt \in [UpgradeCall -> AttemptRecord] /\ upgradeHarm = {}
      /\ clone \in Place /\ remote \in 1..3 /\ target \in Place
  BY DEF UpgradeInv, UpgradeTypes
<1> DEFINE lone == \A x \in UpgradeCall : attempt[x].step = "idle"
           first == CASE op = "page program" -> "install" [] clone = 0 /\ op = "upgrade" -> "status" [] OTHER -> "writable"
           q == [NoAttempt EXCEPT !.op = op, !.step = first, !.running = running,
                                  !.before = clone, !.alone = lone, !.foretold = Foretell(running)]
           d(x) == [attempt[x] EXCEPT !.alone = FALSE]
<1>2. /\ attempt[c].step = "idle" /\ attempt' = [x \in UpgradeCall |-> IF x = c THEN q ELSE d(x)]
      /\ updateMu' = IF op = "upgrade" THEN updateMu ELSE c
      /\ op # "upgrade" => updateMu = "free" /\ running = serving
      /\ op = "page program" => CheckStatus(running).outdated
      /\ upgradeCalls < MaxUpgradeCalls /\ upgradeCalls' = upgradeCalls + 1
      /\ UNCHANGED <<remote, clone, readOnly, address, target, found>>
      /\ UNCHANGED <<kephalaion, entries, serving, upgradeFaults, upgradeHarm>>
  BY DEF BeginUpgrade
<1>3. /\ first \in {"install", "status", "writable"} /\ (first = "install" => op = "page program")
      /\ op \in {"upgrade", "page update", "page program"}
  BY DEF Ops
<1>4. lone \in BOOLEAN /\ Foretell(running) \in {"none", "installs", "installs nothing"}
  BY DEF Foretell
<1>o. CheckStatus(running).outdated <=> (1 <= running /\ running < clone)
  BY <1>1, ReleasesAreOrdered DEF CheckStatus, Place
<1>5. /\ q.op = op /\ q.step = first /\ q.running = running /\ q.version = 0 /\ q.pulled = FALSE /\ q.installed = FALSE
      /\ q.script = 0 /\ q.tried = FALSE /\ q.stepDone = FALSE /\ q.error = FALSE /\ q.alone = lone
      /\ q.foretold = Foretell(running)
  BY DEF NoAttempt
<1>6. q \in AttemptRecord
  <2>1. first \in UpgradeSteps /\ op \in Ops \cup {"none"}
    BY <1>3 DEF UpgradeSteps
  <2> HIDE DEF lone, first
  <2> QED
    BY <1>1, <1>4, <2>1, NoAttemptIs DEF AttemptRecord
<1>7. ASSUME NEW x \in UpgradeCall
      PROVE  /\ d(x) \in AttemptRecord /\ d(x).alone = FALSE /\ d(x).step = attempt[x].step
             /\ d(x).op = attempt[x].op /\ d(x).running = attempt[x].running /\ d(x).version = attempt[x].version
             /\ d(x).pulled = attempt[x].pulled /\ d(x).script = attempt[x].script
             /\ d(x).tried = attempt[x].tried /\ d(x).told = attempt[x].told
             /\ d(x).unclosed = attempt[x].unclosed /\ d(x).stepDone = attempt[x].stepDone
             /\ d(x).error = attempt[x].error
  BY <1>1 DEF AttemptRecord
<1> HIDE DEF d, q
<1>8. attempt'[c] = q /\ \A x \in UpgradeCall : x # c => attempt'[x] = d(x)
  BY <1>2
<1>9. UpgradeTypes'
  <2>1. attempt' \in [UpgradeCall -> AttemptRecord]
    BY <1>6, <1>7, <1>8, <1>2
  <2>2. upgradeCalls' \in 0..MaxUpgradeCalls
    <3>1. MaxUpgradeCalls \in Nat /\ upgradeCalls \in 0..MaxUpgradeCalls
      BY <1>1, UpgradeAssumption DEF UpgradeTypes
    <3>2. upgradeCalls < MaxUpgradeCalls /\ upgradeCalls' = upgradeCalls + 1
      BY <1>2
    <3> QED
      BY <3>1, <3>2
  <2>3. updateMu' \in UpgradeCall \cup {"free"}
    BY <1>1, <1>2 DEF UpgradeTypes
  <2> QED
    BY <1>1, <1>2, <2>1, <2>2, <2>3 DEF UpgradeTypes
<1>10. Shared(c, q, clone', entries', serving', updateMu')
  <2>1. q.op \in PageOps => OfThePage(c, q, clone', serving', updateMu')
    <3>1. op \in PageOps => op # "upgrade"
      BY DEF PageOps
    <3>2. op # "upgrade" => updateMu' = c /\ running = serving' /\ clone' = clone
      BY <1>2
    <3>3. first = "install" => 1 <= running /\ running < clone
      BY <1>2, <1>3, <1>o
    <3>4. first \in {"install", "status", "writable"}
      BY <1>3
    <3> HIDE DEF first
    <3> QED
      BY <1>5, <3>1, <3>2, <3>3, <3>4 DEF OfThePage, Replacing
  <2>2. q.version <= clone'
    <3>1. clone' = clone /\ clone \in 0..3 /\ q.version = 0
      BY <1>1, <1>2, <1>5 DEF Place
    <3> QED
      BY <3>1
  <2> HIDE DEF first
  <2> QED
    BY <1>3, <1>5, <2>1, <2>2 DEF Shared, Pulling, Replacing
<1>11. Lone(q, clone', remote', target', found')
  <2>1. ASSUME op = "upgrade", Foretell(running) # "none"
        PROVE  /\ clone = remote /\ 1 <= clone /\ running = target
               /\ Foretell(running) = "installs" <=> (1 <= running /\ running < clone /\ found = "target")
    <3>1. clone = remote /\ running = target
      BY <2>1 DEF Foretell, CheckUpdate
    <3>2. CheckStatus(running).installable <=> (target # 0 /\ found = "target")
      BY DEF CheckStatus, CheckPath
    <3>3. Foretell(running) = "installs" <=> (CheckStatus(running).outdated /\ CheckStatus(running).installable)
      BY <3>1 DEF Foretell, CheckUpdate
    <3>4. 1 <= clone /\ target \in Int /\ running \in Int /\ clone \in Int
      BY <1>1, <3>1 DEF Place
    <3> QED
      BY <1>o, <3>1, <3>2, <3>3, <3>4
  <2>2. op = "upgrade" => first \in {"status", "writable"}
    BY <1>3
  <2>3. first \in ToReplace \cup {"install"} /\ first \notin Replacing \cup {"script"} /\ first \notin Reported
    BY <1>3 DEF ToReplace, Pulling, Replacing, Reported
  <2> HIDE DEF first, lone
  <2> QED
    BY <1>2, <1>3, <1>5, <2>1, <2>2, <2>3 DEF Lone, Replacing, ToReplace, Pulling, Reported
<1>12. ASSUME NEW x \in UpgradeCall, x # c
       PROVE  Shared(x, d(x), clone', entries', serving', updateMu') /\ Lone(d(x), clone', remote', target', found')
  <2> DEFINE r == attempt[x]
  <2>1. Shared(x, r, clone, entries, serving, updateMu)
    BY DEF UpgradeInv
  <2>2. r.op \in PageOps => OfThePage(x, r, clone, serving, updateMu)
    BY <2>1 DEF Shared
  <2>3. d(x).op \in PageOps => OfThePage(x, d(x), clone', serving', updateMu')
    BY <1>2, <2>2, UpgradeAssumption, <1>7 DEF OfThePage
  <2>4. Shared(x, d(x), clone', entries', serving', updateMu')
    BY <1>2, <1>7, <2>1, <2>3 DEF Shared
  <2> QED
    BY <1>7, <2>4 DEF Lone
<1>13. \A x \in UpgradeCall : /\ Shared(x, attempt'[x], clone', entries', serving', updateMu')
                              /\ Lone(attempt'[x], clone', remote', target', found')
  BY <1>8, <1>10, <1>11, <1>12
<1>14. ASSUME NEW y \in UpgradeCall, NEW x \in UpgradeCall, attempt'[y].alone, attempt'[y].step # "idle", x # y
       PROVE  attempt'[x].step = "idle"
  BY <1>7, <1>8, <1>14, <1>5
<1>15. ProtectedAgain'
  BY <1>2, <1>7, <1>8 DEF UpgradeInv, ProtectedAgain, Opened
<1> QED
  BY <1>1, <1>2, <1>9, <1>13, <1>14, <1>15 DEF UpgradeInv

\* A new release takes back what --check has said.
LEMMA ReleasedKeeps ==
  ASSUME UpgradeInv, Released
  PROVE  UpgradeInv'
<1> DEFINE d(x) == [attempt[x] EXCEPT !.foretold = "none"]
<1>1. UpgradeTypes /\ attempt \in [UpgradeCall -> AttemptRecord] /\ upgradeHarm = {}
  BY DEF UpgradeInv, UpgradeTypes
<1>2. /\ attempt' = [x \in UpgradeCall |-> d(x)] /\ remote' = remote + 1 /\ remote < 3
      /\ UNCHANGED <<clone, readOnly, address, target, found>>
      /\ UNCHANGED <<kephalaion, entries, serving, updateMu, upgradeCalls, upgradeHarm>>
  BY ReleasesAreOrdered DEF Released
<1>3. upgradeFaults' \in 0..MaxUpgradeFaults
  BY <1>1, FaultCounts DEF Released
<1>4. ASSUME NEW x \in UpgradeCall
      PROVE  /\ d(x) \in AttemptRecord /\ d(x).alone = attempt[x].alone /\ d(x).step = attempt[x].step
             /\ d(x).op = attempt[x].op /\ d(x).running = attempt[x].running /\ d(x).version = attempt[x].version
             /\ d(x).pulled = attempt[x].pulled /\ d(x).script = attempt[x].script
             /\ d(x).tried = attempt[x].tried /\ d(x).told = attempt[x].told
             /\ d(x).unclosed = attempt[x].unclosed /\ d(x).stepDone = attempt[x].stepDone
             /\ d(x).error = attempt[x].error /\ d(x).installed = attempt[x].installed
             /\ d(x).stepBy = attempt[x].stepBy /\ d(x).foretold = "none"
  BY <1>1 DEF AttemptRecord
<1> HIDE DEF d
<1>5. \A x \in UpgradeCall : attempt'[x] = d(x)
  BY <1>2
<1>6. UpgradeTypes'
  BY <1>2, <1>4, <1>1, <1>3 DEF UpgradeTypes, Place
<1>7. ASSUME NEW x \in UpgradeCall
      PROVE  Shared(x, d(x), clone', entries', serving', updateMu') /\ Lone(d(x), clone', remote', target', found')
  <2>1. Shared(x, attempt[x], clone, entries, serving, updateMu) /\ Lone(attempt[x], clone, remote, target, found)
    BY DEF UpgradeInv
  <2>2. Shared(x, d(x), clone', entries', serving', updateMu')
    BY <1>2, <1>4, <2>1 DEF Shared, OfThePage
  <2>3. Lone(d(x), clone', remote', target', found')
    BY <1>2, <1>4, <2>1 DEF Lone
  <2> QED
    BY <2>2, <2>3
<1>8. ProtectedAgain'
  BY <1>2, <1>4, <1>5 DEF UpgradeInv, ProtectedAgain
<1>9. \A y, x \in UpgradeCall : (attempt'[y].alone /\ attempt'[y].step # "idle" /\ x # y) => attempt'[x].step = "idle"
  BY <1>4, <1>5 DEF UpgradeInv
<1>10. \A x \in UpgradeCall : /\ Shared(x, attempt'[x], clone', entries', serving', updateMu')
                              /\ Lone(attempt'[x], clone', remote', target', found')
  BY <1>5, <1>7
<1> QED
  BY <1>1, <1>2, <1>6, <1>8, <1>9, <1>10 DEF UpgradeInv

LEMMA UpgradeStarts == UpgradeInit => UpgradeInv
<1> SUFFICES ASSUME UpgradeInit PROVE UpgradeInv
  OBVIOUS
<1>1. PICK cl \in {0, 1, 2}, t \in {0, 1, 2}, f \in {"target", "other"}, a \in {"ssh", "https", "alias"}, k \in BOOLEAN :
        UpgradeBegin(2, cl, t, f, a, k, TRUE)
  BY DEF UpgradeInit
<1>2. /\ remote = 2 /\ clone = cl /\ target = t /\ found = f /\ address = a /\ kephalaion = k /\ entries = TRUE /\ serving = t
      /\ readOnly = "yes" /\ updateMu = "free" /\ attempt = [x \in UpgradeCall |-> NoAttempt]
      /\ upgradeCalls = 0 /\ upgradeFaults = 0 /\ upgradeHarm = {}
  BY <1>1 DEF UpgradeBegin
<1>3. UpgradeTypes
  BY <1>2, NoAttemptIs, UpgradeAssumption DEF UpgradeTypes, Place
<1>4. ASSUME NEW x \in UpgradeCall
      PROVE  /\ attempt[x] = NoAttempt /\ Shared(x, attempt[x], clone, entries, serving, updateMu)
             /\ Lone(attempt[x], clone, remote, target, found)
  BY <1>2, <1>3, NoAttemptShared, NoAttemptIs DEF UpgradeTypes, Lone
<1>5. ProtectedAgain
  BY <1>2 DEF ProtectedAgain
<1> QED
  BY <1>2, <1>3, <1>4, <1>5, NoAttemptIs DEF UpgradeInv

\* Every step of any number of calls, whatever fails and is killed, keeps the invariant.
THEOREM UpgradeInvariance == UpgradeSpec => []UpgradeInv
<1>1. UpgradeInit => UpgradeInv
  BY UpgradeStarts
<1>2. ASSUME UpgradeInv, [UpgradeNext]_upgradeVars PROVE UpgradeInv'
  <2>1. CASE UNCHANGED upgradeVars
    BY <1>2, <2>1 DEF upgradeVars, UpgradeInv, UpgradeTypes, ProtectedAgain
  <2>2. ASSUME NEW c \in UpgradeCall, NEW op \in Ops, NEW running \in 0..Len(Release), BeginUpgrade(c, op, running)
        PROVE  UpgradeInv'
    <3>1. running \in Place
      BY ReleasesAreOrdered DEF Place
    <3> QED
      BY <1>2, <2>2, <3>1, BeginUpgradeKeeps
  <2>3. ASSUME NEW c \in UpgradeCall,
               \/ MakeWritable(c) \/ UsePublicRemote(c) \/ Pull(c) \/ RepairEntries(c) \/ Protect(c) \/ Status(c)
               \/ Install(c) \/ ReadAndLoad(c)
        PROVE  UpgradeInv'
    BY <1>2, <2>3, MakeWritableKeeps, UsePublicRemoteKeeps, PullKeeps, RepairEntriesKeeps, ProtectKeeps, StatusKeeps,
       InstallKeeps, ReadAndLoadKeeps
  <2>4. ASSUME NEW c \in UpgradeCall,
               \/ MoveIntoPlace(c) \/ ScriptLooksForKephalaion(c) \/ Verify(c) \/ UpgradeKephalaion(c) \/ ProjectStep(c)
               \/ Restart(c) \/ EndUpgrade(c) \/ UpgradeKilled(c)
        PROVE  UpgradeInv'
    BY <1>2, <2>4, MoveIntoPlaceKeeps, ScriptLooksForKephalaionKeeps, VerifyKeeps, UpgradeKephalaionKeeps,
       ProjectStepKeeps, RestartKeeps, EndUpgradeKeeps, UpgradeKilledKeeps
  <2>5. CASE Released
    BY <1>2, <2>5, ReleasedKeeps
  <2> QED
    BY <1>2, <2>1, <2>2, <2>3, <2>4, <2>5 DEF UpgradeNext
<1> QED
  BY <1>1, <1>2, PTL DEF UpgradeSpec

\* The order is that of semver, the clone is closed again, an undisturbed upgrade installs what the
\* clone has and --check has said, the page never ends at an older server, and whatever
\* fails an upgrade that ends has set about the entries of the old wrapper once, unless the clone
\* stayed open, and says where they are old still: upgrade.go:201-356, update.go:121-178, install.go:116-211, version.go:60-178.
THEOREM UpgradeIsKept == UpgradeSpec => []UpgradeKept
<1>1. UpgradeInv => UpgradeKept
  BY SemverHolds DEF UpgradeInv, UpgradeKept, InstalledIsNew, ServerNeverOlder, EntriesCorrected
<1> QED
  BY <1>1, UpgradeInvariance, PTL
=============================================================================
