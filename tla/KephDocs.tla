------------------------------ MODULE KephDocs ------------------------------
(***************************************************************************)
(* Documents of a Kephalaion collection, changed through the node of each  *)
(* machine (kephalaion/docs.go, project/docedit.go, userdocs.go, todos.go). *)
(* Reads come from the replica of the machine, which may lag; writes go to  *)
(* the hub with a request_id, are repeated at most once and may arrive     *)
(* late, or be executed while their answer is lost.                        *)
(***************************************************************************)
EXTENDS Naturals, Sequences, FiniteSets

CONSTANTS
  Machine,         \* machines with a node and a replica
  MaxNumber,       \* numbers of documents that fit the name rule
  CreateAttempts,  \* docCreateAttempts
  EditRetries,     \* docEditRetries
  MaxDocOps,       \* bound: operations of all machines
  MaxKephFaults,   \* bound: attempts not sent, given up or refused by a node
  MaxKephEvents    \* bound: both together

ASSUME KephAssumption ==
  /\ MaxNumber \in Nat \ {0} /\ CreateAttempts \in Nat \ {0} /\ EditRetries \in Nat
  /\ MaxDocOps \in Nat /\ MaxKephFaults \in Nat /\ MaxKephEvents \in Nat

VARIABLES
  hub,         \* the collection at the hub: DocName -> Doc
  clock,       \* the last revision the hub gave
  executed,    \* request_ids the hub remembers, with the revision of their success
  underway,    \* attempts sent and not yet taken by the hub
  replica,     \* the state of the last sync, per machine
  docOp,       \* the operation each machine runs
  home,        \* history: the number under which a change was first made, or 0
  dropped,     \* history: changes deleted by someone who had read them
  overwritten, \* history: changes lost to the second step of a reopening
  refused,     \* history: request_ids of creations the hub refused
  docOps, kephFaults

kephVars == <<hub, clock, executed, underway, replica, docOp, home, dropped,
              overwritten, refused, docOps, kephFaults>>

Area      == {"open", "done"}               \* the directory of a kind and its done/
DocName   == (1..MaxNumber) \X Area
Change    == Machine \X (1..MaxDocOps)      \* the change an operation makes
Doc       == [rev : Nat, text : Seq(Change)]
Absent    == [rev |-> 0, text |-> <<>>]     \* a tombstone does not block a name
KephRequest == [change : Change, call : Nat]  \* request_id: one per call of Client.write
OpKind    == {"create", "edit", "done", "reopen", "move", "delete"}
ErrorCode == {"name_taken", "not_found", "stale_revision"}
Moved(name, area) == <<name[1], area>>
In(text)  == {text[i] : i \in DOMAIN text}

\* A call of Client.write (the text of a rename is what its operation writes next).
StoreCall == [id : KephRequest, kind : OpKind, tool : {"create", "write", "rename", "delete"},
              name : DocName, to : DocName, text : Seq(Change), base : Nat]
NoCall    == [tool |-> "none"]
Attempt   == [req : StoreCall, again : BOOLEAN]
DocOp     == [kind : OpKind, n : 0..MaxDocOps, name : DocName, since : Nat, known : Nat,
              retries : Nat, call : Nat, req : StoreCall \cup {NoCall},
              step : {"idle", "read", "send", "wait", "repeat", "wait2"},
              result : {"none", "ok", "foreign_change", "invalid_input", "unavailable",
                        "unknown", "half"} \cup ErrorCode]

Active(o) == o.step \in {"send", "wait", "repeat", "wait2"}

KephTypeOK ==
  /\ hub \in [DocName -> Doc] /\ clock \in Nat
  /\ DOMAIN executed \subseteq KephRequest /\ \A id \in DOMAIN executed : executed[id] \in 1..clock
  /\ underway \subseteq Attempt
  /\ replica \in [Machine -> [DocName -> Doc]]
  /\ docOp \in [Machine -> DocOp]
  /\ \A m \in Machine : Active(docOp[m]) => docOp[m].req \in StoreCall
  /\ home \in [Change -> 0..MaxNumber]
  /\ dropped \subseteq Change /\ overwritten \subseteq Change /\ refused \subseteq KephRequest
  /\ docOps \in 0..MaxDocOps /\ kephFaults \in 0..MaxKephFaults

Idle == [kind |-> "edit", n |-> 0, step |-> "idle", name |-> <<1, "open">>, since |-> 0,
         known |-> 0, retries |-> 0, call |-> 0, req |-> NoCall, result |-> "none"]

\* A collection with one document, or with none.
KephBegin(there) ==
  LET first == [d \in DocName |-> IF d \in there THEN [rev |-> 1, text |-> <<>>] ELSE Absent] IN
  /\ hub = first /\ clock = 1 /\ executed = <<>> /\ underway = {}
  /\ replica = [m \in Machine |-> first]
  /\ docOp = [m \in Machine |-> Idle]
  /\ home = [c \in Change |-> 0]
  /\ dropped = {} /\ overwritten = {} /\ refused = {} /\ docOps = 0 /\ kephFaults = 0

KephInit == \E there \in {{}, {<<1, "open">>}} : KephBegin(there)

ChangeOf(m)  == <<m, docOp[m].n>>
Repeats(o)   == o.step \in {"repeat", "wait2"}
\* Defect: a repetition gets a key of its own.
RequestOfEachAttempt(m) ==
  [docOp[m].req EXCEPT !.id.call = @ + (IF Repeats(docOp[m]) THEN 10 ELSE 0)]

RequestOf(m) == docOp[m].req
Set(m, new)  == docOp' = [docOp EXCEPT ![m] = new]
\* The operation returns: only its outcome stays, and the revision it told.
End(o, result) == [o EXCEPT !.step = "idle", !.result = result, !.name = Idle.name,
                            !.since = 0, !.retries = 0, !.req = NoCall]
Room  == docOps + kephFaults < MaxKephEvents
Fault == Room /\ kephFaults < MaxKephFaults /\ kephFaults' = kephFaults + 1
HubStands == UNCHANGED <<hub, clock, executed, home, dropped, overwritten, refused>>

(***************************************************************************)
(* One store call begins: a new request_id.                                *)
(***************************************************************************)
Call(m, o, tool, name, to, text, base) ==
  [o EXCEPT !.step = "send", !.call = @ + 1,
            !.req = [id |-> [change |-> <<m, o.n>>, call |-> o.call + 1], kind |-> o.kind,
                     tool |-> tool, name |-> name, to |-> to, text |-> text, base |-> base]]

\* The next number after those of the replica, the ones in done/ included.
Numbers(m) == {d[1] : d \in {d \in DocName : replica[m][d].rev > 0}}
NextNumber(m, number) ==
  /\ \A k \in Numbers(m) : k < number
  /\ number = 1 \/ number - 1 \in Numbers(m)

\* A number whose name does not fit the name rule ends the creation.
CreateUnder(m, o, number) ==
  IF number > MaxNumber THEN End(o, "invalid_input")
  ELSE Call(m, o, "create", <<number, "open">>, <<number, "open">>, <<<<m, o.n>>>>, 0)

\* The caller may name the revision it knows (since_revision) or none.
BeginOp(m) ==
  /\ docOp[m].step = "idle" /\ Room /\ docOps < MaxDocOps
  /\ \E kind \in OpKind, name \in DocName, since \in {0, docOp[m].known} :
       /\ kind = "create" => name = <<1, "open">>
       /\ kind \in {"done", "reopen", "move"} => name[2] = IF kind = "reopen" THEN "done" ELSE "open"
       /\ since > 0 => kind = "edit"
       /\ Set(m, [docOp[m] EXCEPT !.kind = kind, !.n = @ + 1, !.step = "read", !.name = name,
                                  !.since = since, !.retries = 0, !.call = 0, !.result = "none"])
  /\ docOps' = docOps + 1
  /\ HubStands /\ UNCHANGED <<underway, replica, kephFaults>>

(***************************************************************************)
(* nextNumber, readForEdit, find: what the replica says.                    *)
(***************************************************************************)
\* A replica that is behind the revision the caller knows is read again.
ReadForEdit(m, o, doc, text) ==
  CASE doc.rev = 0 -> End(o, "not_found")
    [] doc.rev \in 1..(o.since - 1) /\ o.retries < EditRetries -> [o EXCEPT !.retries = @ + 1]
    [] doc.rev > 0 /\ o.since \notin {0, doc.rev} /\ (doc.rev > o.since \/ o.retries >= EditRetries)
         -> End(o, "foreign_change")
    [] OTHER -> Call(m, o, "write", o.name, o.name, text, doc.rev)

FindTodo(m, o, doc, text) ==
  CASE doc.rev = 0       -> End(o, "not_found")
    [] doc.rev > 0 /\ o.kind = "done"   -> Call(m, o, "write", o.name, o.name, text, doc.rev)
    [] doc.rev > 0 /\ o.kind = "reopen" -> Call(m, o, "rename", o.name, Moved(o.name, "open"), text, 0)
    [] OTHER             -> Call(m, o, "delete", o.name, o.name, <<>>, doc.rev)

ReadStep(m) ==
  LET o == docOp[m]  doc == replica[m][o.name]  text == Append(doc.text, ChangeOf(m)) IN
  /\ o.step = "read"
  /\ \/ /\ o.kind = "create"
        /\ \E number \in 1..(MaxNumber + 1) :
             NextNumber(m, number) /\ Set(m, CreateUnder(m, o, number))
     \/ o.kind = "move" /\ Set(m, Call(m, o, "rename", o.name, Moved(o.name, "done"), <<>>, 0))
     \/ o.kind = "edit" /\ Set(m, ReadForEdit(m, o, doc, text))
     \/ o.kind \in {"done", "reopen", "delete"} /\ Set(m, FindTodo(m, o, doc, text))
  /\ HubStands /\ UNCHANGED <<underway, replica, docOps, kephFaults>>

(***************************************************************************)
(* What the operation makes of the outcome of a store call.                *)
(***************************************************************************)
AfterDone(m, o, rev) ==
  IF o.kind = "done" /\ o.req.tool = "write"
  THEN Call(m, o, "rename", o.name, Moved(o.name, "done"), <<>>, 0)
  ELSE IF o.kind = "reopen" /\ o.req.tool = "rename"
  THEN Call(m, o, "write", o.req.to, o.req.to, o.req.text, rev)
  ELSE [End(o, "ok") EXCEPT !.known = rev]

Failed(o, code) ==
  IF \/ o.kind = "done" /\ o.req.tool = "rename"
     \/ o.kind = "reopen" /\ o.req.tool = "write"
  THEN End(o, "half") ELSE End(o, code)

AfterRefusal(m, o, code) ==
  IF code = "name_taken" /\ o.kind = "create" /\ o.call < CreateAttempts
  THEN CreateUnder(m, o, o.req.name[1] + 1)
  ELSE IF code = "stale_revision" /\ o.kind = "edit" /\ o.since > 0 THEN End(o, "foreign_change")
  ELSE IF code = "stale_revision" /\ o.kind = "edit" /\ o.retries < EditRetries
  THEN [o EXCEPT !.step = "read", !.retries = @ + 1]
  ELSE Failed(o, code)

(***************************************************************************)
(* Client.write: an attempt that was not sent, sent, given up.             *)
(***************************************************************************)
Send(m) ==
  /\ docOp[m].step \in {"send", "repeat"}
  /\ underway' = underway \cup {[req |-> RequestOf(m), again |-> docOp[m].step = "repeat"]}
  /\ Set(m, [docOp[m] EXCEPT !.step = IF @ = "send" THEN "wait" ELSE "wait2"])
  /\ HubStands /\ UNCHANGED <<replica, docOps, kephFaults>>

OutcomeNotSent(o) == IF Repeats(o) THEN Failed(o, "unknown") ELSE Failed(o, "unavailable")

NotSent(m) ==
  /\ docOp[m].step \in {"send", "repeat"} /\ Fault
  /\ Set(m, OutcomeNotSent(docOp[m]))
  /\ HubStands /\ UNCHANGED <<underway, replica, docOps>>

\* The operation of machine m waits for the answer to this attempt.
Mine(m, q) == docOp[m].step = (IF q.again THEN "wait2" ELSE "wait") /\ q.req.id = RequestOf(m).id

\* The node reports unreachable, unsupported or internal: it sent nothing on.
NodeRefuses(m) ==
  /\ docOp[m].step \in {"wait", "wait2"} /\ Fault
  /\ \E q \in underway : Mine(m, q) /\ underway' = underway \ {q}
  /\ Set(m, OutcomeNotSent(docOp[m]))
  /\ HubStands /\ UNCHANGED <<replica, docOps>>

\* Timeout, broken connection, unreadable answer: the outcome is open.  The
\* caller may have given up, then there is no repetition.
OutcomeOpen(o, cancelled) ==
  IF o.step = "wait" /\ ~cancelled THEN [o EXCEPT !.step = "repeat"] ELSE Failed(o, "unknown")

StopWaiting(m) ==
  /\ docOp[m].step \in {"wait", "wait2"} /\ Fault
  /\ \E cancelled \in BOOLEAN : Set(m, OutcomeOpen(docOp[m], cancelled))
  /\ HubStands /\ UNCHANGED <<underway, replica, docOps>>

(***************************************************************************)
(* The hub: a key it knows is replayed, a refusal is not remembered.        *)
(***************************************************************************)
Refusal(r) ==
  IF r.tool = "create" /\ hub[r.name].rev > 0 THEN "name_taken"
  ELSE IF r.tool # "create" /\ hub[r.name].rev = 0 THEN "not_found"
  ELSE IF r.tool = "rename" /\ hub[r.to].rev > 0 THEN "name_taken"
  ELSE IF r.base > 0 /\ r.base # hub[r.name].rev THEN "stale_revision" ELSE "none"

Makes(r) == r.tool \in {"create", "write"}

Applied(r, rev) ==
  IF Makes(r) THEN [hub EXCEPT ![r.name] = [rev |-> rev, text |-> r.text]]
  ELSE IF r.tool = "rename"
  THEN [hub EXCEPT ![r.to] = [rev |-> rev, text |-> hub[r.name].text], ![r.name] = Absent]
  ELSE [hub EXCEPT ![r.name] = Absent]

\* The machine that sent q, and what it makes of the answer if it waits for it.
Owner(q) == q.req.id.change[1]
Answer(q, next) ==
  IF Mine(Owner(q), q) THEN docOp' = [docOp EXCEPT ![Owner(q)] = next] ELSE UNCHANGED docOp

HubReplays(q) ==
  /\ q.req.id \in DOMAIN executed
  /\ Answer(q, AfterDone(Owner(q), docOp[Owner(q)], executed[q.req.id]))
  /\ HubStands /\ UNCHANGED replica

HubRefuses(q) ==
  /\ q.req.id \notin DOMAIN executed /\ Refusal(q.req) # "none"
  /\ refused' = IF q.req.tool = "create" THEN refused \cup {q.req.id} ELSE refused
  /\ Answer(q, AfterRefusal(Owner(q), docOp[Owner(q)], Refusal(q.req)))
  /\ UNCHANGED <<hub, clock, executed, home, dropped, overwritten, replica>>

\* The node of a machine that got the answer takes the row into its replica.
HubExecutes(q) ==
  LET r == q.req  old == In(hub[r.name].text) IN
  /\ r.id \notin DOMAIN executed /\ Refusal(r) = "none"
  /\ clock' = clock + 1
  /\ hub' = Applied(r, clock')
  /\ executed' = [i \in DOMAIN executed \cup {r.id} |-> IF i = r.id THEN clock' ELSE executed[i]]
  /\ home' = IF Makes(r) /\ home[r.id.change] = 0 THEN [home EXCEPT ![r.id.change] = r.name[1]] ELSE home
  /\ dropped' = IF r.tool = "delete" THEN dropped \cup old ELSE dropped
  /\ overwritten' = IF r.tool = "write" /\ r.kind = "reopen" THEN overwritten \cup (old \ In(r.text)) ELSE overwritten
  /\ UNCHANGED refused
  /\ Answer(q, AfterDone(Owner(q), docOp[Owner(q)], clock'))
  /\ replica' = IF Mine(Owner(q), q)
                THEN [replica EXCEPT ![Owner(q)] = [d \in DocName |-> IF d \in {r.name, r.to} THEN hub'[d] ELSE @[d]]]
                ELSE replica

HubTakes ==
  \E q \in underway :
    /\ underway' = underway \ {q}
    /\ HubReplays(q) \/ HubRefuses(q) \/ HubExecutes(q)
    /\ UNCHANGED <<docOps, kephFaults>>

Sync(m) ==
  /\ replica[m] # hub /\ replica' = [replica EXCEPT ![m] = hub]
  /\ HubStands /\ UNCHANGED <<underway, docOp, docOps, kephFaults>>

KephNext ==
  \/ HubTakes
  \/ \E m \in Machine : BeginOp(m) \/ ReadStep(m) \/ Send(m) \/ NotSent(m) \/ NodeRefuses(m)
                        \/ StopWaiting(m) \/ Sync(m)

KephSpec == KephInit /\ [][KephNext]_kephVars

(***************************************************************************)
(* Properties                                                              *)
(***************************************************************************)
Changes(o) == o.kind \in {"create", "edit", "done", "reopen"}

\* Changes of creations the hub executed after it had refused them: the first
\* attempt came after its own repetition, and the name was free by then.
Overtaken == {id.change : id \in refused \cap DOMAIN executed}

Holds(d, c) == c \in In(hub[d].text)

\* A change is made once at most, in one document, however often it was sent
\* (one request_id per call; the exception is a creation that arrives after its
\* own repetition was refused).
Once ==
  \A c \in Change \ Overtaken : \A d1, d2 \in DocName :
    \A i \in DOMAIN hub[d1].text, j \in DOMAIN hub[d2].text :
      hub[d1].text[i] = c /\ hub[d2].text[j] = c => d1 = d2 /\ i = j

\* An operation that reports success made its change, and nobody wrote over
\* it without having read it (base_revision), a reopening excepted, which
\* writes on the revision of its own rename; a todo whose move to done/ is
\* reported as missing has its done: written.
DoneIsDone ==
  \A m \in Machine :
    (Changes(docOp[m]) /\ docOp[m].result = "ok") \/ (docOp[m].kind = "done" /\ docOp[m].result = "half")
      => \/ \E d \in DocName : Holds(d, ChangeOf(m))
         \/ ChangeOf(m) \in dropped \cup overwritten

\* An operation that reports a refusal or an unreachable node changed nothing.
RefusedIsNothing ==
  \A m \in Machine :
    /\ docOp[m].result \in {"unavailable", "foreign_change", "invalid_input"} \cup ErrorCode
    /\ ChangeOf(m) \notin Overtaken
    => \A d \in DocName : ~Holds(d, ChangeOf(m)) /\ ChangeOf(m) \notin dropped

\* What the three answers ok, refused and unavailable promise, whatever the
\* order of the messages and the lag of the replicas (attempt, write, edit,
\* createNumbered, UpdateTodo, DeleteTodo).
KephHonest == Once /\ DoneIsDone /\ RefusedIsNothing
=============================================================================
