---------------------------- MODULE KephDocs_proof ---------------------------
(***************************************************************************)
(* Theorems about KephDocs, for any machines, numbers, attempts, retries   *)
(* and bounds, and any order of the messages: types, and KephHonest, what  *)
(* the answers of a document operation promise.                            *)
(*                                                                         *)
(* KephHonest speaks of answers and documents; neither says what is still  *)
(* under way.  The argument keeps three things apart:                      *)
(*   Store       every version of a document, at the hub and in the        *)
(*               replicas, holds a change once, and only changes that were *)
(*               made under its number (home); none is lost but by someone *)
(*               who read it, or by a reopening;                           *)
(*   Calls       every call that is still around has the shape its         *)
(*               operation gave it, a key of its own, and what it relies   *)
(*               on (Ready); of one change at most one call is still Live, *)
(*               that is, could make it;                                   *)
(*   Operations  an operation knows whether its change can still be made,  *)
(*               and whether it was made, before it reports.               *)
(* A creation refused and yet executed by its late first attempt is the    *)
(* one way out of this, and Overtaken names it.                            *)
(***************************************************************************)
EXTENDS KephDocs, TLAPS

(***************************************************************************)
(* Types.                                                                  *)
(***************************************************************************)
\* An operation has a number as soon as it has begun.
Counted ==
  \A m \in Machine : docOp[m].n <= docOps /\ (docOp[m].step # "idle" \/ docOp[m].result # "none" => docOp[m].n > 0)

Types == KephTypeOK /\ Counted

\* What an operation may become.
Typed(o, n) ==
  /\ o \in DocOp /\ (Active(o) => o.req \in StoreCall)
  /\ o.n = n

\* A store call that begins is one.
LEMMA CallTyped ==
  ASSUME NEW m \in Machine, NEW o \in DocOp, o.n > 0,
         NEW tool \in {"create", "write", "rename", "delete"}, NEW name \in DocName, NEW to \in DocName,
         NEW text \in Seq(Change), NEW base \in Nat
  PROVE  Typed(Call(m, o, tool, name, to, text, base), o.n)
<1> DEFINE r == [id |-> [change |-> <<m, o.n>>, call |-> o.call + 1], kind |-> o.kind,
                 tool |-> tool, name |-> name, to |-> to, text |-> text, base |-> base]
<1>1. <<m, o.n>> \in Change
  BY KephAssumption DEF Change, DocOp
<1>2. o.call + 1 \in Nat /\ o.kind \in OpKind
  BY DEF DocOp
<1>3. r \in StoreCall
  BY <1>1, <1>2 DEF StoreCall, KephRequest
<1>4. [o EXCEPT !.step = "send", !.call = @ + 1, !.req = r] \in DocOp
  <2> HIDE DEF r
  <2> QED BY <1>3, <1>2 DEF DocOp
<1> QED BY <1>3, <1>4 DEF Call, DocOp, Typed

\* An operation that returns is one.
LEMMA EndTyped ==
  ASSUME NEW o \in DocOp,
         NEW result \in {"ok", "foreign_change", "invalid_input", "unavailable", "unknown", "half"} \cup ErrorCode
  PROVE  Typed(End(o, result), o.n) /\ End(o, result).step = "idle"
<1>1. Idle.name \in DocName /\ NoCall \in StoreCall \cup {NoCall} /\ 0 \in Nat
  BY KephAssumption DEF Idle, DocName, Area
<1>2. End(o, result) \in DocOp
  <2> HIDE DEF NoCall, Idle
  <2> QED BY <1>1 DEF End, DocOp
<1> QED BY <1>2 DEF End, Active, Typed, DocOp

\* A moved name is a name.
LEMMA NameTyped ==
  ASSUME NEW d \in DocName, NEW area \in Area, NEW number \in 1..MaxNumber
  PROVE  Moved(d, area) \in DocName /\ <<number, area>> \in DocName /\ d[1] \in 1..MaxNumber /\ d[2] \in Area
BY KephAssumption DEF Moved, DocName

\* So it is with the call of a creation, what follows an answer, a failure and a refusal.
LEMMA CreateTyped ==
  ASSUME NEW m \in Machine, NEW o \in DocOp, o.n > 0, NEW number \in 1..(MaxNumber + 1)
  PROVE  Typed(CreateUnder(m, o, number), o.n)
<1>1. CASE number > MaxNumber
  BY <1>1, EndTyped DEF CreateUnder
<1>2. CASE ~(number > MaxNumber)
  <2>1. number \in 1..MaxNumber
    BY <1>2, KephAssumption
  <2>2. <<number, "open">> \in DocName
    BY <2>1 DEF DocName, Area
  <2>3. <<<<m, o.n>>>> \in Seq(Change)
    BY KephAssumption DEF Change, DocOp
  <2> QED BY <1>2, <2>2, <2>3, CallTyped DEF CreateUnder
<1> QED BY <1>1, <1>2

\* An active call of machine m.
LEMMA AnswerTyped ==
  ASSUME NEW m \in Machine, NEW o \in DocOp, o.n > 0, Active(o), o.req \in StoreCall, NEW rev \in Nat
  PROVE  Typed(AfterDone(m, o, rev), o.n)
<1>1. CASE o.kind = "done" /\ o.req.tool = "write"
  <2>1. o.name \in DocName /\ Moved(o.name, "done") \in DocName
    BY KephAssumption DEF DocOp, Moved, DocName, Area
  <2>2. <<>> \in Seq(Change) /\ 0 \in Nat
    OBVIOUS
  <2> QED BY <1>1, <2>1, <2>2, CallTyped DEF AfterDone
<1>2. CASE o.kind = "reopen" /\ o.req.tool = "rename"
  BY <1>2, CallTyped DEF StoreCall, AfterDone
<1>3. CASE ~(o.kind = "done" /\ o.req.tool = "write") /\ ~(o.kind = "reopen" /\ o.req.tool = "rename")
  <2>1. AfterDone(m, o, rev) = [End(o, "ok") EXCEPT !.known = rev]
    BY <1>3 DEF AfterDone
  <2>2. Typed(End(o, "ok"), o.n) /\ End(o, "ok").step = "idle"
    BY EndTyped
  <2> DEFINE e == End(o, "ok")
  <2> HIDE DEF e
  <2>3. e \in DocOp /\ e.step = "idle" /\ e.n = o.n
    BY <2>2 DEF e, Typed
  <2>4. Typed([e EXCEPT !.known = rev], o.n)
    BY <2>3 DEF Typed, DocOp, Active
  <2> QED BY <2>1, <2>4 DEF e
<1> QED BY <1>1, <1>2, <1>3

LEMMA FailedTyped ==
  ASSUME NEW o \in DocOp,
         NEW code \in {"foreign_change", "invalid_input", "unavailable", "unknown"} \cup ErrorCode
  PROVE  Typed(Failed(o, code), o.n) /\ Failed(o, code).step = "idle"
BY EndTyped DEF Failed

LEMMA RefusalTyped ==
  ASSUME NEW m \in Machine, NEW o \in DocOp, o.n > 0, Active(o), o.req \in StoreCall, NEW code \in ErrorCode
  PROVE  Typed(AfterRefusal(m, o, code), o.n)
<1>1. CASE code = "name_taken" /\ o.kind = "create" /\ o.call < CreateAttempts
  <2>1. o.req.name[1] + 1 \in 1..(MaxNumber + 1)
    BY KephAssumption DEF StoreCall, DocName
  <2> QED BY <1>1, <2>1, CreateTyped DEF AfterRefusal
<1>2. CASE ~(code = "name_taken" /\ o.kind = "create" /\ o.call < CreateAttempts)
  <2>1. CASE code = "stale_revision" /\ o.kind = "edit" /\ o.since > 0
    BY <1>2, <2>1, EndTyped DEF AfterRefusal
  <2>2. CASE ~(code = "stale_revision" /\ o.kind = "edit" /\ o.since > 0)
             /\ code = "stale_revision" /\ o.kind = "edit" /\ o.retries < EditRetries
    <3>1. AfterRefusal(m, o, code) = [o EXCEPT !.step = "read", !.retries = @ + 1]
      BY <1>2, <2>2 DEF AfterRefusal
    <3>2. o.retries + 1 \in Nat
      BY DEF DocOp
    <3>3. [o EXCEPT !.step = "read", !.retries = o.retries + 1] \in DocOp
      BY <3>2 DEF DocOp
    <3>4. Typed([o EXCEPT !.step = "read", !.retries = @ + 1], o.n)
      BY <3>3 DEF DocOp, Typed, Active
    <3> QED BY <3>1, <3>4
  <2>3. CASE ~(code = "stale_revision" /\ o.kind = "edit" /\ o.since > 0)
             /\ ~(code = "stale_revision" /\ o.kind = "edit" /\ o.retries < EditRetries)
    BY <1>2, <2>3, FailedTyped DEF AfterRefusal
  <2> QED BY <2>1, <2>2, <2>3
<1> QED BY <1>1, <1>2

OpsTyped ==
  /\ docOp \in [Machine -> DocOp]
  /\ \A m \in Machine : Active(docOp[m]) => docOp[m].req \in StoreCall
  /\ Counted

LEMMA SetTyped ==
  ASSUME Types, NEW m \in Machine, NEW new, Typed(new, docOp[m].n), docOp[m].n > 0, Set(m, new),
         UNCHANGED docOps
  PROVE  OpsTyped'
BY DEF Types, KephTypeOK, Counted, Typed, Set, OpsTyped

LEMMA AnswerKeepsTypes ==
  ASSUME Types, NEW q \in underway, NEW next, UNCHANGED docOps,
         Active(docOp[Owner(q)]) => Typed(next, docOp[Owner(q)].n),
         Answer(q, next)
  PROVE  OpsTyped'
<1>1. Owner(q) \in Machine
  BY DEF Types, KephTypeOK, Owner, Attempt, StoreCall, KephRequest, Change
<1>2. CASE Mine(Owner(q), q)
  BY <1>1, <1>2, SetTyped DEF Mine, Active, Types, Counted, Answer, Set
<1>3. CASE ~Mine(Owner(q), q)
  BY <1>3 DEF Answer, OpsTyped, Types, KephTypeOK, Counted
<1> QED BY <1>2, <1>3

\* The types hold at the beginning, and after each of the steps.
LEMMA TypesInit == KephInit => Types
<1> SUFFICES ASSUME KephInit PROVE Types
  OBVIOUS
<1>1. PICK there \in {{}, {<<1, "open">>}} : KephBegin(there)
  BY DEF KephInit
<1>2. Idle \in DocOp /\ ~Active(Idle) /\ Idle.n = 0 /\ Idle.step = "idle" /\ Idle.result = "none"
  BY KephAssumption DEF Idle, DocOp, Active, DocName, Area, OpKind
<1>3. Absent \in Doc /\ [rev |-> 1, text |-> <<>>] \in Doc
  BY DEF Absent, Doc
<1> DEFINE first == [d \in DocName |-> IF d \in there THEN [rev |-> 1, text |-> <<>>] ELSE Absent]
<1>4. first \in [DocName -> Doc]
  BY <1>3
<1> HIDE DEF first
<1>5. /\ hub = first /\ clock = 1 /\ executed = <<>> /\ underway = {}
      /\ replica = [m \in Machine |-> first] /\ docOp = [m \in Machine |-> Idle]
      /\ home = [c \in Change |-> 0]
      /\ dropped = {} /\ overwritten = {} /\ refused = {} /\ docOps = 0 /\ kephFaults = 0
  BY <1>1 DEF KephBegin, first
<1>6. DOMAIN executed = {}
  BY <1>5
<1>7. docOp \in [Machine -> DocOp] /\ \A m \in Machine : docOp[m] = Idle
  <2> HIDE DEF Idle
  <2> QED BY <1>2, <1>5
<1>8. replica \in [Machine -> [DocName -> Doc]] /\ hub \in [DocName -> Doc]
  BY <1>4, <1>5
<1>9. home \in [Change -> 0..MaxNumber]
  BY <1>5, KephAssumption
<1> QED BY <1>2, <1>5, <1>6, <1>7, <1>8, <1>9, KephAssumption DEF Types, KephTypeOK, Counted

LEMMA AppliedTyped ==
  ASSUME Types, NEW r \in StoreCall, NEW rev \in Nat
  PROVE  Applied(r, rev) \in [DocName -> Doc]
<1>1. r.name \in DocName /\ r.to \in DocName /\ r.text \in Seq(Change) /\ hub \in [DocName -> Doc]
  BY DEF StoreCall, Types, KephTypeOK
<1>2. Absent \in Doc /\ [rev |-> rev, text |-> r.text] \in Doc /\ [rev |-> rev, text |-> hub[r.name].text] \in Doc
  BY <1>1 DEF Absent, Doc
<1> QED BY <1>1, <1>2 DEF Applied

LEMMA TypesBegin ==
  ASSUME Types, NEW m \in Machine, BeginOp(m)
  PROVE  Types'
<1>1. PICK kind \in OpKind, name \in DocName, since \in {0, docOp[m].known} :
        Set(m, [docOp[m] EXCEPT !.kind = kind, !.n = @ + 1, !.step = "read", !.name = name,
                                !.since = since, !.retries = 0, !.call = 0, !.result = "none"])
  BY DEF BeginOp
<1>2. docOp[m] \in DocOp /\ docOp[m].n <= docOps /\ docOps \in 0..MaxDocOps /\ docOps < MaxDocOps
  BY DEF BeginOp, Types, KephTypeOK, Counted
<1> DEFINE o == docOp[m]
           new == [o EXCEPT !.kind = kind, !.n = o.n + 1, !.step = "read", !.name = name,
                            !.since = since, !.retries = 0, !.call = 0, !.result = "none"]
<1>3. o.n + 1 \in 0..MaxDocOps /\ since \in Nat /\ o.n + 1 > 0 /\ o.n + 1 <= docOps + 1
  BY <1>2, KephAssumption DEF DocOp
<1>4. new \in DocOp /\ ~Active(new) /\ new.n = o.n + 1
  <2> HIDE DEF o
  <2>1. o \in DocOp
    BY <1>2 DEF o
  <2> QED BY <1>3, <2>1 DEF DocOp, Active
<1>5. docOp' = [docOp EXCEPT ![m] = new]
  BY <1>1 DEF Set
<1> HIDE DEF new
<1>6. docOp' \in [Machine -> DocOp] /\ \A p \in Machine : Active(docOp'[p]) => docOp'[p].req \in StoreCall
  BY <1>4, <1>5 DEF Types, KephTypeOK
<1>7. Counted'
  BY <1>3, <1>4, <1>5 DEF Types, KephTypeOK, Counted, BeginOp, DocOp
<1> QED BY <1>2, <1>6, <1>7, KephAssumption DEF Types, KephTypeOK, BeginOp, HubStands

LEMMA TypesRead ==
  ASSUME Types, NEW m \in Machine, ReadStep(m)
  PROVE  Types'
<1> DEFINE o == docOp[m]  doc == replica[m][o.name]  text == Append(doc.text, ChangeOf(m))
<1>1. o \in DocOp /\ o.n > 0 /\ o.name \in DocName /\ doc \in Doc
  BY DEF ReadStep, Types, KephTypeOK, Counted, DocOp
<1>2. doc.rev \in Nat /\ text \in Seq(Change) /\ <<>> \in Seq(Change) /\ 0 \in Nat
  BY <1>1, KephAssumption DEF Doc, ChangeOf, Change, DocOp
<1>3. Moved(o.name, "open") \in DocName /\ Moved(o.name, "done") \in DocName
  BY <1>1 DEF Moved, DocName, Area
<1> HIDE DEF o, doc, text
<1>4. Typed(ReadForEdit(m, o, doc, text), o.n)
  <2>1. Typed(End(o, "not_found"), o.n) /\ Typed(End(o, "foreign_change"), o.n)
    BY <1>1, EndTyped DEF ErrorCode
  <2>2. Typed(Call(m, o, "write", o.name, o.name, text, doc.rev), o.n)
    BY <1>1, <1>2, CallTyped
  <2>3. Typed([o EXCEPT !.retries = @ + 1], o.n) \/ o.step # "read"
    BY <1>1 DEF Typed, DocOp, Active
  <2>4. o.step = "read"
    BY DEF ReadStep, o
  <2> QED BY <2>1, <2>2, <2>3, <2>4 DEF ReadForEdit
<1>5. Typed(FindTodo(m, o, doc, text), o.n)
  BY <1>1, <1>2, <1>3, EndTyped, CallTyped DEF FindTodo, ErrorCode
<1>6. Typed(Call(m, o, "rename", o.name, Moved(o.name, "done"), <<>>, 0), o.n)
  BY <1>1, <1>2, <1>3, CallTyped
<1>7. \A number \in 1..(MaxNumber + 1) : Typed(CreateUnder(m, o, number), o.n)
  BY <1>1, CreateTyped
<1>8. OpsTyped'
  BY <1>1, <1>4, <1>5, <1>6, <1>7, SetTyped DEF ReadStep, o, doc, text
<1> QED BY <1>8 DEF Types, KephTypeOK, OpsTyped, ReadStep, HubStands

LEMMA TypesClient ==
  ASSUME Types, NEW m \in Machine, Send(m) \/ NotSent(m) \/ NodeRefuses(m) \/ StopWaiting(m)
  PROVE  Types'
<1> DEFINE o == docOp[m]
<1>1. o \in DocOp /\ o.n > 0 /\ Active(o) /\ o.req \in StoreCall
  BY DEF Send, NotSent, NodeRefuses, StopWaiting, Types, KephTypeOK, Counted, Active
<1> HIDE DEF o
<1>2. CASE Send(m)
  <2>1. Typed([o EXCEPT !.step = IF @ = "send" THEN "wait" ELSE "wait2"], o.n)
    BY <1>1 DEF Typed, DocOp, Active
  <2>2. OpsTyped'
    BY <1>1, <1>2, <2>1, SetTyped DEF Send, o
  <2>3. underway' \subseteq Attempt
    <3> DEFINE again == o.step = "repeat"
    <3>1. again \in BOOLEAN
      OBVIOUS
    <3>2. underway' = underway \cup {[req |-> o.req, again |-> again]}
      BY <1>2 DEF Send, RequestOf, o
    <3> HIDE DEF again
    <3>3. [req |-> o.req, again |-> again] \in Attempt
      BY <1>1, <3>1 DEF Attempt
    <3> QED BY <3>2, <3>3 DEF Types, KephTypeOK
  <2> QED BY <1>2, <2>2, <2>3 DEF Types, KephTypeOK, OpsTyped, Send, HubStands
<1>3. CASE NotSent(m) \/ NodeRefuses(m)
  BY <1>1, FailedTyped, <1>3, SetTyped, KephAssumption DEF OutcomeNotSent, NotSent, NodeRefuses, o, Fault, Types,
     KephTypeOK, OpsTyped, HubStands
<1>4. CASE StopWaiting(m)
  <2>1. \A cancelled \in BOOLEAN : Typed(OutcomeOpen(o, cancelled), o.n)
    BY <1>1, FailedTyped DEF Typed, DocOp, Active, OutcomeOpen
  <2>2. OpsTyped'
    BY <1>1, <1>4, <2>1, SetTyped DEF StopWaiting, o
  <2>3. kephFaults' \in 0..MaxKephFaults
    BY <1>4, KephAssumption DEF StopWaiting, Fault, Types, KephTypeOK
  <2> QED BY <1>4, <2>2, <2>3 DEF Types, KephTypeOK, OpsTyped, StopWaiting, HubStands
<1> QED BY <1>2, <1>3, <1>4

LEMMA TypesHub ==
  ASSUME Types, HubTakes
  PROVE  Types'
<1>1. PICK q \in underway : /\ underway' = underway \ {q}
                            /\ HubReplays(q) \/ HubRefuses(q) \/ HubExecutes(q)
                            /\ UNCHANGED <<docOps, kephFaults>>
  BY DEF HubTakes
<1> DEFINE m == Owner(q)  r == q.req  o == docOp[m]
<1>2. m \in Machine /\ r \in StoreCall /\ o \in DocOp
  BY DEF Types, KephTypeOK, Owner, Attempt, StoreCall, KephRequest, Change
<1>3. r.id \in KephRequest /\ r.id.change \in Change /\ r.name \in DocName /\ r.name[1] \in 1..MaxNumber
  BY <1>2 DEF StoreCall, KephRequest, DocName
<1>4. Active(o) => o.n > 0 /\ o.req \in StoreCall
  BY <1>2 DEF Types, KephTypeOK, Counted, Active
<1>5. CASE HubReplays(q)
  BY <1>5, <1>1, <1>2, <1>4, AnswerTyped, AnswerKeepsTypes DEF HubReplays, Types, KephTypeOK, OpsTyped, HubStands
<1>6. CASE HubRefuses(q)
  BY <1>6, <1>1, <1>2, <1>4, RefusalTyped, AnswerKeepsTypes, <1>3 DEF HubRefuses, Refusal, ErrorCode, Types, KephTypeOK, OpsTyped
<1>7. CASE HubExecutes(q)
  <2>1. clock' = clock + 1 /\ clock' \in Nat /\ clock' \in 1..clock' /\ clock \in Nat
    BY <1>7 DEF HubExecutes, Types, KephTypeOK
  <2>2. OpsTyped'
    BY <1>1, <1>2, <1>4, <1>7, <2>1, AnswerTyped, AnswerKeepsTypes DEF HubExecutes
  <2>3. hub' \in [DocName -> Doc]
    BY <1>2, <1>7, <2>1, AppliedTyped DEF HubExecutes
  <2>4. DOMAIN executed' \subseteq KephRequest /\ \A id \in DOMAIN executed' : executed'[id] \in 1..clock'
    BY <1>3, <1>7, <2>1 DEF HubExecutes, Types, KephTypeOK
  <2>5. replica' \in [Machine -> [DocName -> Doc]]
    BY <1>2, <1>7, <2>3 DEF HubExecutes, Types, KephTypeOK
  <2>6. home' \in [Change -> 0..MaxNumber]
    BY <1>3, <1>7, KephAssumption DEF HubExecutes, Types, KephTypeOK
  <2>7. In(hub[r.name].text) \subseteq Change
    BY <1>3 DEF Types, KephTypeOK, Doc, In
  <2>8. dropped' \subseteq Change /\ overwritten' \subseteq Change
    BY <1>7, <2>7 DEF HubExecutes, Types, KephTypeOK
  <2> QED BY <1>1, <1>7, <2>1, <2>2, <2>3, <2>4, <2>5, <2>6, <2>8 DEF Types, KephTypeOK, OpsTyped, HubExecutes
<1> QED BY <1>1, <1>5, <1>6, <1>7

LEMMA TypesStep == Types /\ [KephNext]_kephVars => Types'
  BY TypesBegin, TypesRead, TypesClient, TypesHub DEF Sync, HubStands, Types, KephTypeOK, Counted, kephVars, KephNext

(* The calls the hub may still get, and those an operation is about. *)
Known == {q.req : q \in underway} \cup {docOp[m].req : m \in {p \in Machine : Active(docOp[p])}}

Own(r) == r.id.change

\* The change c was made, and first under number k.
At(c, k) == home[c] # 0 /\ (home[c] = k \/ c \in Overtaken)

\* No change is twice in a text.
Distinct(text) == \A i, j \in DOMAIN text : text[i] = text[j] => i = j

\* A version of a document of number k.
Sound(doc, k) ==
  /\ doc.rev <= clock
  /\ doc.rev = 0 => doc.text = <<>>
  /\ Distinct(doc.text)
  /\ \A c \in In(doc.text) : At(c, k)

\* Every document at the hub is sound,
HubSound == \A d \in DocName : Sound(hub[d], d[1])

\* and so is every version a replica has; one revision has one text.
ReplicaSound ==
  \A m \in Machine : \A d \in DocName :
    /\ Sound(replica[m][d], d[1])
    /\ replica[m][d].rev = hub[d].rev => replica[m][d].text = hub[d].text

\* Two documents of one number, one open, one done, share no change.
Split ==
  \A d1, d2 \in DocName : \A c \in Change \ Overtaken :
    d1 # d2 /\ c \in In(hub[d1].text) => c \notin In(hub[d2].text)

\* No change is lost.
Kept ==
  \A c \in Change : home[c] # 0 => (\E d \in DocName : Holds(d, c)) \/ c \in dropped \cup overwritten

Gone == \A c \in dropped \cup overwritten : home[c] # 0

\* What holds of the documents.
Store == HubSound /\ ReplicaSound /\ Split /\ Kept /\ Gone

\* The text a call writes: its own change, and others of the same number.
Carries(r) ==
  /\ Own(r) \in In(r.text) /\ Distinct(r.text)
  /\ \A c \in In(r.text) \ {Own(r)} : At(c, r.name[1])

\* What the code gives a call, by the operation and the tool.
Shape(r) ==
  /\ r.tool = "create" =>
       r.kind = "create" /\ r.name[2] = "open" /\ In(r.text) = {Own(r)} /\ Distinct(r.text) /\ r.base = 0
  /\ r.tool = "write" => r.kind \in {"edit", "done", "reopen"} /\ r.base \in 1..clock /\ Carries(r)
  /\ r.tool = "write" /\ r.kind = "reopen" => r.name[2] = "open"
  /\ r.tool = "rename" => r.kind \in {"done", "reopen", "move"} /\ r.to[1] = r.name[1] /\ r.base = 0
  /\ r.tool = "rename" /\ r.kind # "reopen" => r.name[2] = "open" /\ r.to[2] = "done"
  /\ r.tool = "rename" /\ r.kind = "reopen" => r.name[2] = "done" /\ r.to[2] = "open" /\ Carries(r)
  /\ r.tool = "delete" => r.kind = "delete"
  /\ r.tool # "rename" => r.to = r.name

\* A key of its own for every call, in order.
Issued(id) ==
  LET o == docOp[id.change[1]] IN
  /\ id.change[2] \in 1..o.n /\ id.call > 0
  /\ id.change[2] = o.n => id.call <= o.call

\* The operation that makes the change has begun.
Begun(c) == c[2] \in 1..docOp[c[1]].n

\* The hub would execute it.
Live(r) ==
  /\ r.id \notin DOMAIN executed
  /\ \/ r.tool = "create" /\ r.id \notin refused
     \/ r.tool = "write" /\ hub[r.name].rev = r.base

\* What a call relies on when the hub takes it.
Ready(r) ==
  /\ r.tool = "write" /\ r.kind # "reopen" /\ hub[r.name].rev = r.base
       => In(r.text) = In(hub[r.name].text) \cup {Own(r)}
  /\ r.tool = "write" /\ r.kind = "reopen" /\ hub[r.name].rev = r.base
       => hub[<<r.name[1], "done">>].rev = 0
  /\ r.tool = "rename" /\ r.kind = "reopen" /\ r.id \in DOMAIN executed /\ hub[r.to].rev = executed[r.id]
       => hub[r.name].rev = 0
  /\ Makes(r) /\ r.id \in DOMAIN executed => home[Own(r)] # 0
  /\ Live(r) => home[Own(r)] = 0 \/ Own(r) \in Overtaken

\* A call that is around.
CallOK(r) == Shape(r) /\ Issued(r.id) /\ Ready(r)

\* What holds of the calls: sound, keys given, one key one call, one live call of a change.
Calls ==
  /\ \A r \in Known : CallOK(r)
  /\ \A id \in refused \cup DOMAIN executed : Issued(id)
  /\ \A c \in Change : home[c] # 0 => Begun(c)
  /\ \A r, s \in Known : r.id = s.id => r = s
  /\ \A r, s \in Known : Live(r) /\ Live(s) /\ Own(r) = Own(s) => r = s

\* The change of the operation can no longer be made; is not made; is at most made by an overtaken creation.
NoneLive(m)  == \A r \in Known : Own(r) = ChangeOf(m) => ~Live(r)
Unmade(m)    == home[ChangeOf(m)] = 0
Untouched(m) == Unmade(m) \/ ChangeOf(m) \in Overtaken
\* The results that say that nothing happened.
Denied == {"unavailable", "foreign_change", "invalid_input"} \cup ErrorCode

\* What an operation knows of itself
Running(m) ==
  LET o == docOp[m]  r == o.req IN
  /\ o.step # "idle" => o.result = "none"
  /\ o.step # "idle" /\ o.kind \in {"create", "done", "move"} => o.name[2] = "open"
  /\ o.step # "idle" /\ o.kind = "reopen" => o.name[2] = "done"
  /\ Active(o) => r.id = [change |-> ChangeOf(m), call |-> o.call] /\ r.kind = o.kind
  /\ Active(o) /\ o.kind \in {"reopen", "done"} /\ r.tool = "rename" => r.name = o.name
  /\ o.step = "read" /\ o.kind = "create" => o.call = 0

\* ... of its calls
Sent(m) ==
  LET o == docOp[m]  r == o.req IN
  /\ o.step \in {"send", "wait"} => r.id \notin DOMAIN executed /\ r.id \notin refused
  /\ o.step = "send" => \A q \in underway : q.req.id # r.id
  /\ o.step = "wait" => \A q \in underway : q.req.id = r.id => ~q.again
  /\ \A s \in Known : Own(s) = ChangeOf(m) => s.kind = o.kind
  /\ \A s \in Known : Live(s) /\ Own(s) = ChangeOf(m) => s.id.call = o.call
  /\ o.step = "read" => NoneLive(m)
  /\ Active(o) /\ r.tool = "rename" => NoneLive(m)
  /\ o.result \in Denied => NoneLive(m)

\* ... and of its change.
Progress(m) ==
  LET o == docOp[m]  r == o.req IN
  /\ o.step = "read" => Unmade(m)
  /\ Active(o) /\ o.kind = "reopen" /\ r.tool = "rename" => Unmade(m)
  /\ Active(o) /\ r.tool = "write" /\ r.id \notin DOMAIN executed => Unmade(m)
  /\ Active(o) /\ r.tool = "create" /\ r.id \notin DOMAIN executed => Untouched(m)
  /\ Active(o) /\ o.kind = "done" /\ r.tool = "rename" => ~Unmade(m)
  /\ Active(o) /\ o.kind \in {"move", "delete"} => Unmade(m)
  /\ o.result \in Denied => Untouched(m)
  /\ o.result = "ok" /\ Changes(o) => ~Unmade(m)
  /\ o.result = "half" /\ o.kind = "done" => ~Unmade(m)

\* What holds of the operations.
Operations == \A m \in Machine : Running(m) /\ Sent(m) /\ Progress(m)

\* The inductive invariant.
KephInv == Types /\ Store /\ Calls /\ Operations

\* Facts on the calls around.
LEMMA KnownTyped ==
  ASSUME Types
  PROVE  /\ Known \subseteq StoreCall
         /\ \A q \in underway : q.req \in Known
         /\ \A m \in Machine : Active(docOp[m]) => docOp[m].req \in Known
BY DEF Known, Types, KephTypeOK, Attempt

LEMMA CallFields ==
  ASSUME NEW r \in StoreCall
  PROVE  /\ r.id \in KephRequest /\ Own(r) \in Change /\ Own(r)[1] \in Machine /\ Own(r)[2] \in 1..MaxDocOps
         /\ Own(r) = <<Own(r)[1], Own(r)[2]>> /\ r.id.call \in Nat
         /\ r.id = [change |-> Own(r), call |-> r.id.call]
         /\ r.name \in DocName /\ r.to \in DocName /\ r.base \in Nat /\ r.text \in Seq(Change)
         /\ r.name[1] \in 1..MaxNumber /\ In(r.text) \subseteq Change
         /\ r.name = <<r.name[1], r.name[2]>> /\ r.name[2] \in Area
         /\ r.to = <<r.to[1], r.to[2]>> /\ r.to[2] \in Area
BY KephAssumption DEF StoreCall, KephRequest, Change, DocName, Own, In

LEMMA DocFields ==
  ASSUME Types, NEW d \in DocName
  PROVE  /\ hub[d] \in Doc /\ hub[d].rev \in Nat /\ hub[d].text \in Seq(Change) /\ In(hub[d].text) \subseteq Change
         /\ d[1] \in 1..MaxNumber /\ d[2] \in Area /\ d = <<d[1], d[2]>>
         /\ \A m \in Machine : replica[m][d] \in Doc /\ replica[m][d].rev \in Nat
                               /\ In(replica[m][d].text) \subseteq Change
BY DEF Types, KephTypeOK, Doc, DocName, In

\* What the execution of a call does.
Executing(q) ==
  /\ clock' = clock + 1
  /\ DOMAIN executed' = DOMAIN executed \cup {q.req.id}
  /\ executed'[q.req.id] = clock' /\ \A id \in DOMAIN executed : executed'[id] = executed[id]
  /\ refused' = refused
  /\ Overtaken' = Overtaken \cup (IF q.req.id \in refused THEN {Own(q.req)} ELSE {})
  /\ \A c \in Change : home[c] # 0 => home'[c] = home[c]
  /\ \A c \in Change : c # Own(q.req) => home'[c] = home[c]
  /\ ~Makes(q.req) => home' = home

LEMMA ExecutingStep ==
  ASSUME Types, NEW q \in underway, HubExecutes(q)
  PROVE  Executing(q)
<1> DEFINE r == q.req
<1>1. r \in StoreCall /\ Own(r) \in Change
  BY KnownTyped, CallFields
<1>2. r.id \notin DOMAIN executed /\ refused' = refused /\ clock' = clock + 1
  BY DEF HubExecutes
<1>3. /\ DOMAIN executed' = DOMAIN executed \cup {r.id}
      /\ executed'[r.id] = clock' /\ \A id \in DOMAIN executed : executed'[id] = executed[id]
  BY <1>2 DEF HubExecutes
<1>4. Overtaken' = Overtaken \cup (IF r.id \in refused THEN {Own(r)} ELSE {})
  BY <1>2, <1>3 DEF Overtaken, Own
<1>5. /\ \A c \in Change : home[c] # 0 => home'[c] = home[c]
      /\ \A c \in Change : c # Own(r) => home'[c] = home[c]
      /\ ~Makes(r) => home' = home
  BY <1>1 DEF HubExecutes, Own, Types, KephTypeOK
<1> QED BY <1>2, <1>3, <1>4, <1>5 DEF Executing

\* Once made, a change stays made.
LEMMA AtStays ==
  ASSUME Types, NEW q \in underway, Executing(q), NEW c \in Change, NEW k
  PROVE  (At(c, k) => At(c, k)') /\ (c \in Overtaken => c \in Overtaken')
BY DEF Executing, At

\* A call that makes a change and is executed makes it for the first time, unless it was overtaken.
LEMMA MadeNow ==
  ASSUME Types, Calls, NEW q \in underway, HubExecutes(q), Makes(q.req)
  PROVE  /\ At(Own(q.req), q.req.name[1])'
         /\ home[Own(q.req)] = 0 \/ Own(q.req) \in Overtaken'
         /\ q.req.tool = "write" => q.req.base = hub[q.req.name].rev /\ Live(q.req)
<1> DEFINE r == q.req
<1>1. r \in Known /\ r \in StoreCall /\ Own(r) \in Change /\ r.name \in DocName /\ r.name[1] \in 1..MaxNumber
      /\ r.base \in Nat
  BY KnownTyped, CallFields
<1>2. Executing(q)
  BY ExecutingStep
<1>3. r.id \notin DOMAIN executed /\ Refusal(r) = "none"
      /\ home' = IF home[r.id.change] = 0 THEN [home EXCEPT ![r.id.change] = r.name[1]] ELSE home
  BY DEF HubExecutes
<1>4. CallOK(r)
  BY <1>1 DEF Calls
<1>5. r.tool = "write" => r.base = hub[r.name].rev
  BY <1>1, <1>3, <1>4 DEF Refusal, CallOK, Shape
<1>6. Live(r) \/ r.id \in refused
  BY <1>3, <1>5 DEF Live, Makes
<1>7. home[Own(r)] = 0 \/ Own(r) \in Overtaken'
  BY <1>2, <1>4, <1>6 DEF CallOK, Ready, Executing
<1>8. home'[Own(r)] # 0 /\ (home[Own(r)] = 0 => home'[Own(r)] = r.name[1])
  BY <1>1, <1>3 DEF Own, Types, KephTypeOK
<1>9. At(Own(r), r.name[1])'
  BY <1>7, <1>8 DEF At
<1>10. r.tool = "write" => Live(r)
  BY <1>3, <1>5 DEF Live
<1> QED BY <1>5, <1>7, <1>9, <1>10

\* The collection after a call was executed.
Becomes(r) ==
  \/ /\ Makes(r)
     /\ \A d \in DocName : hub'[d] = IF d = r.name THEN [rev |-> clock', text |-> r.text] ELSE hub[d]
  \/ /\ r.tool = "rename" /\ r.to # r.name /\ hub[r.to].rev = 0 /\ hub[r.name].rev # 0
     /\ \A d \in DocName : hub'[d] = IF d = r.to THEN [rev |-> clock', text |-> hub[r.name].text]
                                     ELSE IF d = r.name THEN Absent ELSE hub[d]
  \/ /\ r.tool = "delete" /\ \A d \in DocName : hub'[d] = IF d = r.name THEN Absent ELSE hub[d]

\* An execution is one of these.
LEMMA HubBecomes ==
  ASSUME Types, Calls, NEW q \in underway, HubExecutes(q)
  PROVE  /\ Becomes(q.req)
         /\ Makes(q.req) => q.req.tool = "create" \/ hub[q.req.name].rev = q.req.base
         /\ q.req.tool = "create" => hub[q.req.name].rev = 0
<1> DEFINE r == q.req
<1>1. r \in Known /\ r \in StoreCall /\ r.name \in DocName /\ r.to \in DocName
  BY KnownTyped, CallFields
<1>2. CallOK(r) /\ Refusal(r) = "none" /\ hub' = Applied(r, clock')
  BY <1>1 DEF Calls, HubExecutes
<1>3. hub[r.name].rev \in Nat /\ hub[r.to].rev \in Nat /\ hub \in [DocName -> Doc]
  BY <1>1, DocFields DEF Types, KephTypeOK
<1>4. CASE Makes(r)
  BY <1>1, <1>2, <1>3, <1>4, MadeNow DEF Applied, Becomes, Makes, Refusal
<1>5. CASE r.tool = "rename"
  BY <1>2, <1>5, <1>3, <1>1 DEF CallOK, Shape, Refusal, Makes, Applied, Becomes
<1>6. CASE r.tool = "delete"
  BY <1>2, <1>6, <1>1, <1>3 DEF Applied, Makes, Becomes
<1> QED BY <1>1, <1>4, <1>5, <1>6 DEF StoreCall, Makes

LEMMA AbsentSound ==
  ASSUME NEW k
  PROVE  Absent.rev = 0 /\ Absent.text = <<>> /\ In(Absent.text) = {} /\ Distinct(Absent.text)
BY DEF Absent, In, Distinct

\* An execution keeps the documents at the hub sound,
LEMMA ExecutedHubSound ==
  ASSUME Types, Store, Calls, NEW q \in underway, HubExecutes(q)
  PROVE  HubSound'
<1> DEFINE r == q.req
<1>1. r \in Known /\ r \in StoreCall /\ r.name \in DocName /\ r.to \in DocName /\ Own(r) \in Change
      /\ In(r.text) \subseteq Change
  BY KnownTyped, CallFields
<1>2. CallOK(r) /\ Executing(q) /\ Becomes(r)
  BY <1>1, ExecutingStep, HubBecomes DEF Calls
<1>3. clock \in Nat /\ clock' = clock + 1
  BY <1>2 DEF Types, KephTypeOK, Executing
<1> SUFFICES ASSUME NEW d \in DocName PROVE Sound(hub[d], d[1])'
  BY DEF HubSound
<1>4. Sound(hub[d], d[1]) /\ hub[d] \in Doc /\ hub[d].rev \in Nat /\ In(hub[d].text) \subseteq Change
      /\ Sound(hub[r.name], r.name[1]) /\ In(hub[r.name].text) \subseteq Change
  BY <1>1, DocFields DEF Store, HubSound
<1>5. CASE hub'[d] = hub[d]
  BY <1>2, <1>4, AtStays, <1>3, <1>5 DEF Sound
<1>6. CASE hub'[d] = Absent
  BY <1>3, <1>6, AbsentSound DEF Sound
<1>7. CASE Makes(r) /\ d = r.name
  BY <1>2, <1>7, MadeNow, <1>1, AtStays, <1>3 DEF Becomes, Makes, CallOK, Shape, Carries, Sound
<1>8. CASE r.tool = "rename" /\ d = r.to
  BY <1>2, <1>8, <1>4, AtStays, <1>3 DEF Becomes, Makes, CallOK, Shape, Sound
<1> QED BY <1>2, <1>5, <1>6, <1>7, <1>8 DEF Becomes

\* the versions of the replicas,
LEMMA ExecutedReplicaSound ==
  ASSUME Types, Store, Calls, NEW q \in underway, HubExecutes(q)
  PROVE  ReplicaSound'
<1> DEFINE r == q.req
<1>1. r \in StoreCall /\ r.name \in DocName /\ r.to \in DocName
  BY KnownTyped, CallFields
<1>2. Executing(q) /\ Becomes(r) /\ HubSound'
  BY ExecutingStep, HubBecomes, ExecutedHubSound
<1>3. clock \in Nat /\ clock' = clock + 1
  BY <1>2 DEF Types, KephTypeOK, Executing
<1> SUFFICES ASSUME NEW m \in Machine, NEW d \in DocName
             PROVE  /\ Sound(replica[m][d], d[1])'
                    /\ replica'[m][d].rev = hub'[d].rev => replica'[m][d].text = hub'[d].text
  BY DEF ReplicaSound
<1>4. replica'[m][d] = replica[m][d] \/ replica'[m][d] = hub'[d]
  BY <1>1 DEF HubExecutes, Types, KephTypeOK
<1>5. CASE replica'[m][d] = hub'[d]
  BY <1>2, <1>5 DEF HubSound, Sound
<1>6. CASE replica'[m][d] = replica[m][d]
  <2>1. Sound(replica[m][d], d[1]) /\ replica[m][d].rev \in Nat /\ In(replica[m][d].text) \subseteq Change
        /\ (replica[m][d].rev = hub[d].rev => replica[m][d].text = hub[d].text)
    BY DocFields DEF Store, ReplicaSound
  <2>2. \A c \in In(replica[m][d].text) : At(c, d[1])'
    BY <1>2, <2>1, AtStays DEF Sound
  <2>3. Sound(replica[m][d], d[1])'
    BY <1>3, <1>6, <2>1, <2>2 DEF Sound
  <2>4. hub'[d] = hub[d] \/ hub'[d] = Absent \/ hub'[d].rev = clock'
    BY <1>1, <1>2 DEF Becomes
  <2>5. replica[m][d].rev = 0 => replica[m][d].text = <<>>
    BY <2>1 DEF Sound
  <2>6. replica[m][d].rev # clock'
    BY <1>3, <2>1 DEF Sound
  <2> QED BY <1>6, <2>1, <2>3, <2>4, <2>5, <2>6, AbsentSound
<1> QED BY <1>4, <1>5, <1>6

\* the open and the done document of a number apart,
LEMMA ExecutedSplit ==
  ASSUME Types, Store, Calls, NEW q \in underway, HubExecutes(q)
  PROVE  Split'
<1> DEFINE r == q.req
<1>1. r \in Known /\ r \in StoreCall /\ r.name \in DocName /\ r.to \in DocName /\ Own(r) \in Change
      /\ In(r.text) \subseteq Change /\ r.name = <<r.name[1], r.name[2]>>
  BY KnownTyped, CallFields
<1>2. CallOK(r) /\ Executing(q) /\ Becomes(r)
  BY <1>1, ExecutingStep, HubBecomes DEF Calls
<1>3. \A d \in DocName : hub'[d] = Absent => In(hub'[d].text) = {}
  BY AbsentSound
<1>4. \A d1, d2 \in DocName : \A c \in Change \ Overtaken' :
        d1 # d2 /\ c \in In(hub[d1].text) => c \notin In(hub[d2].text)
  BY <1>2 DEF Store, Split, Executing
<1> SUFFICES ASSUME NEW d1 \in DocName, NEW d2 \in DocName, NEW c \in Change \ Overtaken',
                    d1 # d2, c \in In(hub'[d1].text), c \in In(hub'[d2].text)
             PROVE  FALSE
  BY DEF Split
<1>5. CASE r.tool = "delete"
  BY <1>2, <1>3, <1>4, <1>5 DEF Becomes, Makes
<1>6. CASE r.tool = "rename"
  BY <1>2, <1>3, <1>6, <1>1, <1>4 DEF Becomes, Makes
<1>7. CASE Makes(r)
  <2>1. \A d \in DocName : hub'[d] = IF d = r.name THEN [rev |-> clock', text |-> r.text] ELSE hub[d]
    BY <1>2, <1>7 DEF Becomes, Makes
  <2>2. ASSUME NEW d \in DocName, d # r.name, c \in In(r.text), c \in In(hub[d].text)
        PROVE  FALSE
    <3>1. Sound(hub[d], d[1]) /\ At(c, d[1])
      BY <2>2 DEF Store, HubSound, Sound
    <3>2. c # Own(r)
      BY <1>7, <3>1, MadeNow DEF At
    <3>3. r.tool = "write" /\ r.base = hub[r.name].rev
      BY <1>2, <1>7, <2>2, <3>2, MadeNow DEF CallOK, Shape, Makes
    <3>4. CASE r.kind # "reopen"
      BY <1>2, <2>2, <3>2, <3>3, <3>4, <1>1, <1>4 DEF CallOK, Ready
    <3>5. CASE r.kind = "reopen"
      <4>1. At(c, r.name[1]) /\ hub[<<r.name[1], "done">>].rev = 0 /\ r.name[2] = "open"
        BY <1>2, <2>2, <3>2, <3>3, <3>5 DEF CallOK, Ready, Shape, Carries
      <4>2. c \notin Overtaken
        BY <1>2 DEF Executing
      <4>3. d[1] = r.name[1]
        BY <3>1, <4>1, <4>2 DEF At
      <4>4. d = <<d[1], d[2]>> /\ d[2] \in Area
        BY DocFields
      <4>5. d = <<r.name[1], "done">>
        BY <1>1, <2>2, <4>1, <4>3, <4>4 DEF Area
      <4>6. hub[d].text = <<>>
        BY <3>1, <4>1, <4>5 DEF Sound
      <4> QED BY <2>2, <4>6 DEF In
    <3> QED BY <3>4, <3>5
  <2> QED BY <1>4, <2>1, <2>2
<1> QED BY <1>1, <1>5, <1>6, <1>7 DEF StoreCall, Makes

\* and loses no change.
LEMMA ExecutedKept ==
  ASSUME Types, Store, Calls, NEW q \in underway, HubExecutes(q)
  PROVE  Kept' /\ Gone'
<1> DEFINE r == q.req  old == In(hub[r.name].text)
<1>1. r \in Known /\ r \in StoreCall /\ r.name \in DocName /\ r.to \in DocName /\ Own(r) \in Change
  BY KnownTyped, CallFields
<1>2. CallOK(r) /\ Executing(q) /\ Becomes(r)
  BY <1>1, ExecutingStep, HubBecomes DEF Calls
<1>3. /\ dropped' = IF r.tool = "delete" THEN dropped \cup old ELSE dropped
      /\ overwritten' = IF r.tool = "write" /\ r.kind = "reopen" THEN overwritten \cup (old \ In(r.text)) ELSE overwritten
  BY DEF HubExecutes
<1>4. Gone'
  BY <1>1, DocFields, <1>3, <1>2 DEF Store, HubSound, Sound, At, Gone, Types, KephTypeOK, Executing
<1>5. Kept'
  <2> SUFFICES ASSUME NEW c \in Change, home'[c] # 0
               PROVE  (\E d \in DocName : c \in In(hub'[d].text)) \/ c \in dropped' \cup overwritten'
    BY DEF Kept, Holds
  <2>1. CASE Makes(r) /\ c = Own(r)
    BY <1>1, <1>2, <2>1 DEF Becomes, Makes, CallOK, Shape, Carries
  <2>2. CASE ~(Makes(r) /\ c = Own(r))
    <3>1. home[c] # 0
      BY <1>2, <2>2 DEF Executing
    <3>2. CASE c \in dropped \cup overwritten
      BY <1>3, <3>2
    <3>3. CASE \E d \in DocName : c \in In(hub[d].text)
      <4>1. PICK d \in DocName : c \in In(hub[d].text)
        BY <3>3
      <4>2. CASE Makes(r)
        <5>1. CASE d = r.name
          <6>1. r.tool = "create" => hub[r.name].rev = 0
            BY HubBecomes
          <6>2. r.tool # "create"
            BY <1>1, <4>1, <5>1, <6>1 DEF Store, HubSound, Sound, In
          <6>3. CASE r.kind = "reopen"
            BY <1>3, <4>1, <4>2, <5>1, <6>2, <6>3, <1>1, <1>2 DEF Makes, Becomes
          <6>4. CASE r.kind # "reopen"
            BY <1>2, <4>1, <4>2, <5>1, <6>2, <6>4, HubBecomes, <1>1 DEF CallOK, Ready, Makes, Becomes
          <6> QED BY <6>3, <6>4
        <5>2. CASE d # r.name
          BY <1>2, <4>1, <4>2, <5>2 DEF Becomes, Makes
        <5> QED BY <5>1, <5>2
      <4>3. CASE r.tool = "rename"
        BY <1>1, <1>2, <4>1, <4>3, AbsentSound DEF Becomes, Makes, Store, HubSound, Sound, In
      <4>4. CASE r.tool = "delete"
        BY <1>1, <1>2, <1>3, <4>1, <4>4 DEF Becomes, Makes
      <4> QED BY <1>1, <4>2, <4>3, <4>4 DEF StoreCall, Makes
    <3> QED BY <3>1, <3>2, <3>3 DEF Store, Kept, Holds
  <2> QED BY <2>1, <2>2
<1> QED BY <1>4, <1>5

\* What every step leaves of the calls it finds.
Preserves ==
  /\ \A r \in Known : Shape(r)' /\ Ready(r)' /\ (Live(r)' => Live(r))
  /\ \A id \in refused' \cup DOMAIN executed' : Issued(id)
  /\ \A c \in Change : home'[c] # 0 => Begun(c)

\* A step that leaves the hub alone keeps what the calls rely on.
LEMMA StandsPreserves ==
  ASSUME Calls, HubStands
  PROVE  Preserves /\ Overtaken' = Overtaken
BY DEF Calls, HubStands, Preserves, CallOK, Shape, Ready, Live, Carries, At, Overtaken

\* So does a refusal,
LEMMA RefusesPreserves ==
  ASSUME Types, Calls, NEW q \in underway, HubRefuses(q)
  PROVE  Preserves /\ Overtaken' = Overtaken
<1> DEFINE e == q.req
<1>1. e \in Known
  BY KnownTyped
<1>2. e.id \notin DOMAIN executed /\ UNCHANGED <<hub, clock, executed, home>>
      /\ refused \subseteq refused' /\ refused' \subseteq refused \cup {e.id}
  BY DEF HubRefuses
<1>3. Overtaken' = Overtaken
  BY <1>2 DEF Overtaken
<1>4. ASSUME NEW r \in Known PROVE Shape(r)' /\ Ready(r)' /\ (Live(r)' => Live(r))
  BY <1>2, <1>3 DEF Live, Calls, CallOK, Shape, Carries, At, Ready
<1>5. \A id \in refused' \cup DOMAIN executed' : Issued(id)
  BY <1>1, <1>2 DEF Calls, CallOK
<1> QED BY <1>2, <1>3, <1>4, <1>5 DEF Preserves, Calls

\* A document whose revision is one that was known before has not changed.
LEMMA SameRevision ==
  ASSUME Types, Calls, NEW q \in underway, HubExecutes(q), NEW d \in DocName, hub'[d].rev \in 1..clock
  PROVE  hub'[d] = hub[d]
<1>1. Becomes(q.req) /\ Executing(q)
  BY HubBecomes, ExecutingStep
<1>2. clock \in Nat /\ Absent.rev = 0
  BY DEF Types, KephTypeOK, Absent
<1> QED BY <1>1, <1>2 DEF Becomes, Executing

LEMMA DoneStaysAbsent ==
  ASSUME Types, Calls, NEW q \in underway, HubExecutes(q), NEW k \in 1..MaxNumber,
         hub'[<<k, "open">>] = hub[<<k, "open">>], hub[<<k, "done">>].rev = 0
  PROVE  hub'[<<k, "done">>].rev = 0
<1> DEFINE e == q.req
<1>1. Becomes(e) /\ e \in Known /\ e \in StoreCall /\ CallOK(e)
  BY HubBecomes, KnownTyped DEF Calls
<1>2. e.name \in DocName /\ e.name = <<e.name[1], e.name[2]>> /\ e.to = <<e.to[1], e.to[2]>> /\ e.base \in Nat
      /\ e.name[2] \in Area /\ e.to[2] \in Area
  BY <1>1, CallFields
<1>3. <<k, "done">> \in DocName /\ <<k, "open">> \in DocName /\ Absent.rev = 0
  BY DEF DocName, Area, Absent
<1>4. Makes(e) => e.name # <<k, "done">>
  BY <1>1, HubBecomes DEF CallOK, Shape, Makes
<1>5. e.tool = "rename" => e.to # <<k, "done">>
  BY <1>1, <1>2, <1>3 DEF CallOK, Shape, Becomes, Makes
<1> QED BY <1>1, <1>3, <1>4, <1>5 DEF Becomes

LEMMA ExecutedShape ==
  ASSUME Types, Calls, NEW q \in underway, HubExecutes(q), NEW r \in Known
  PROVE  Shape(r)'
<1>1. Executing(q) /\ r \in StoreCall /\ In(r.text) \subseteq Change /\ Shape(r)
  BY ExecutingStep, KnownTyped, CallFields DEF Calls, CallOK
<1>2. Carries(r) => Carries(r)'
  BY <1>1, AtStays DEF Carries
<1>3. r.base \in 1..clock => r.base \in 1..clock'
  BY <1>1 DEF Executing, Types, KephTypeOK
<1> QED BY <1>1, <1>2, <1>3 DEF Shape

LEMMA ExecutedLive ==
  ASSUME Types, Calls, NEW q \in underway, HubExecutes(q), NEW r \in Known, Live(r)'
  PROVE  Live(r) /\ r # q.req /\ r.id # q.req.id
  BY ExecutingStep, KnownTyped, CallFields, SameRevision DEF Calls, CallOK, Live, Executing, Shape

LEMMA ExecutedReady ==
  ASSUME Types, Calls, NEW q \in underway, HubExecutes(q), NEW r \in Known
  PROVE  Ready(r)'
<1> DEFINE e == q.req
<1>1. Executing(q) /\ Becomes(e) /\ r \in StoreCall /\ CallOK(r) /\ e \in Known
  BY ExecutingStep, HubBecomes, KnownTyped DEF Calls
<1>2. r.name \in DocName /\ r.to \in DocName /\ Own(r) \in Change /\ Own(e) \in Change
      /\ r.name = <<r.name[1], r.name[2]>> /\ r.to = <<r.to[1], r.to[2]>> /\ r.name[1] \in 1..MaxNumber
  BY <1>1, KnownTyped, CallFields
<1>3. r.tool = "write" /\ hub'[r.name].rev = r.base => hub'[r.name] = hub[r.name]
  BY <1>1, <1>2, SameRevision DEF CallOK, Shape
<1>4. r.tool = "write" /\ r.kind # "reopen" /\ hub'[r.name].rev = r.base
        => In(r.text) = In(hub'[r.name].text) \cup {Own(r)}
  BY <1>1, <1>3 DEF CallOK, Ready
<1>5. r.tool = "write" /\ r.kind = "reopen" /\ hub'[r.name].rev = r.base
        => hub'[<<r.name[1], "done">>].rev = 0
  BY <1>1, <1>2, <1>3, DoneStaysAbsent DEF CallOK, Ready, Shape
<1>6. ASSUME r.tool = "rename", r.kind = "reopen", r.id \in DOMAIN executed', hub'[r.to].rev = executed'[r.id]
      PROVE  hub'[r.name].rev = 0
  <2>1. r.name = <<r.name[1], "done">> /\ r.to = <<r.name[1], "open">>
    BY <1>1, <1>2, <1>6 DEF CallOK, Shape
  <2>2. CASE r.id = e.id
    <3>1. r = e
      BY <1>1, <2>2 DEF Calls
    <3> QED BY <1>1, <1>2, <1>6, <3>1 DEF Becomes, Makes, Absent
  <2>3. CASE r.id # e.id
    <3>1. r.id \in DOMAIN executed /\ executed'[r.id] = executed[r.id] /\ executed[r.id] \in 1..clock
      BY <1>1, <1>6, <2>3 DEF Executing, Types, KephTypeOK
    <3>2. hub'[r.to] = hub[r.to]
      BY <1>2, <1>6, <3>1, SameRevision
    <3>3. hub[r.name].rev = 0
      BY <1>1, <1>6, <3>1, <3>2 DEF CallOK, Ready
    <3> QED BY <1>2, <2>1, <3>2, <3>3, DoneStaysAbsent
  <2> QED BY <2>2, <2>3
<1>7. Makes(r) /\ r.id \in DOMAIN executed' => home'[Own(r)] # 0
  <2>1. r.id = e.id => r = e
    BY <1>1 DEF Calls
  <2> QED BY <1>1, <1>2, <2>1, MadeNow DEF Executing, CallOK, Ready, At
<1>8. ASSUME Live(r)' PROVE home'[Own(r)] = 0 \/ Own(r) \in Overtaken'
  <2>1. Live(r) /\ r # e
    BY <1>8, ExecutedLive
  <2>2. home[Own(r)] = 0 \/ Own(r) \in Overtaken
    BY <1>1, <2>1 DEF CallOK, Ready
  <2>3. CASE Own(r) # Own(e) \/ ~Makes(e)
    BY <1>1, <1>2, <2>2, <2>3 DEF Executing
  <2>4. CASE Own(r) = Own(e) /\ Makes(e)
    BY <1>1, <2>1, <2>4, MadeNow DEF Calls, Makes, Live, HubExecutes, Executing
  <2> QED BY <2>3, <2>4
<1> QED BY <1>4, <1>5, <1>6, <1>7, <1>8 DEF Ready

\* An execution keeps what the calls rely on.
LEMMA ExecutesPreserves ==
  ASSUME Types, Calls, NEW q \in underway, HubExecutes(q)
  PROVE  Preserves
<1>1. Executing(q) /\ q.req \in Known
  BY ExecutingStep, KnownTyped
<1>2. \A id \in refused' \cup DOMAIN executed' : Issued(id)
  BY <1>1 DEF Executing, Calls, CallOK
<1>3. \A r \in Known : Shape(r)' /\ Ready(r)' /\ (Live(r)' => Live(r))
  BY ExecutedShape, ExecutedReady, ExecutedLive
<1>4. Begun(Own(q.req))
  BY <1>1 DEF Calls, CallOK, Issued, Begun, Own
<1>5. \A c \in Change : home'[c] # 0 => Begun(c)
  BY <1>1, <1>4 DEF Executing, Calls
<1> QED BY <1>2, <1>3, <1>5 DEF Preserves

\* A call that no one has issued before.
Fresh(r) ==
  /\ Shape(r)' /\ Ready(r)' /\ Issued(r.id)'
  /\ ~Issued(r.id)
  /\ \A s \in Known : Own(s) = Own(r) => ~Live(s)'

\* Calls that stay, and at most one fresh one, are sound.
LEMMA CallsStep ==
  ASSUME Types, Types', Calls, Preserves,
         \A id \in KephRequest : Issued(id) => Issued(id)', \A c \in Change : Begun(c) => Begun(c)',
         \A r \in Known' : r \in Known \/ Fresh(r),
         \A r, s \in Known' : r \in Known \/ s \in Known \/ r = s
  PROVE  Calls'
  BY KnownTyped, CallFields DEF Calls, CallOK, Preserves, Fresh, Types, KephTypeOK

\* An operation whose record has its fields.
LEMMA OpFields ==
  ASSUME Types, NEW m \in Machine
  PROVE  /\ docOp[m] \in DocOp /\ docOp[m].n \in Nat /\ docOp[m].call \in Nat /\ docOp[m].name \in DocName
         /\ docOp[m].step # "idle" \/ docOp[m].result # "none" => docOp[m].n > 0 /\ ChangeOf(m) \in Change
         /\ Active(docOp[m]) => docOp[m].req \in StoreCall /\ docOp[m].req \in Known /\ docOp[m].step # "idle"
         /\ ChangeOf(m) = <<m, docOp[m].n>>
BY KnownTyped, KephAssumption DEF Types, KephTypeOK, Counted, DocOp, ChangeOf, Change, Active

\* The step is none of machine p's.
Apart(p) ==
  /\ docOp'[p] = docOp[p]
  /\ \A r \in Known' : Own(r)[1] = p => r \in Known
  /\ \A q \in underway' : Own(q.req)[1] = p => q \in underway
  /\ \A id \in KephRequest : id.change[1] = p /\ id \in DOMAIN executed' => id \in DOMAIN executed
  /\ \A id \in KephRequest : id.change[1] = p /\ id \in refused' => id \in refused
  /\ \A c \in Change : c[1] = p => home'[c] = home[c]
  /\ Overtaken \subseteq Overtaken' /\ DOMAIN executed \subseteq DOMAIN executed'

\* An operation whose machine takes no part keeps what it knows.
LEMMA Bystander ==
  ASSUME Types, Types', Operations, Preserves, NEW p \in Machine, Apart(p)
  PROVE  Running(p)' /\ Sent(p)' /\ Progress(p)'
<1> DEFINE o == docOp[p]  r == o.req
<1>1. Running(p) /\ Sent(p) /\ Progress(p)
  BY DEF Operations
<1>2. docOp'[p] = o /\ ChangeOf(p)' = ChangeOf(p) /\ ChangeOf(p)[1] = p
  BY DEF Apart, ChangeOf
<1>3. o.step # "idle" \/ o.result # "none" => ChangeOf(p) \in Change /\ home'[ChangeOf(p)] = home[ChangeOf(p)]
  BY <1>2, OpFields DEF Apart
<1>4. Running(p)'
  BY <1>1, <1>2 DEF Running
<1>5. \A s \in Known' : Own(s) = ChangeOf(p) => s \in Known /\ (Live(s)' => Live(s))
  BY <1>2 DEF Apart, Preserves
<1>6. NoneLive(p) => NoneLive(p)'
  BY <1>2, <1>5 DEF NoneLive
<1>7. Active(o) => r.id \in KephRequest /\ r.id.change[1] = p /\ Own(r)[1] = p
  BY <1>1, OpFields, <1>2 DEF Running, StoreCall, Own
<1>8. Sent(p)'
  BY <1>1, <1>7, <1>2, <1>5, <1>6 DEF Sent, Apart, Active, Own
<1>9. Progress(p)'
  BY <1>2, <1>3, <1>1 DEF Unmade, Untouched, Apart, Progress, Active, Denied, ErrorCode
<1> QED BY <1>4, <1>8, <1>9

(***************************************************************************)
(* The machine whose step it is becomes new.                                *)
(***************************************************************************)
Becoming(m, new) ==
  /\ docOp' = [docOp EXCEPT ![m] = new]
  /\ new.n = docOp[m].n /\ new.kind = docOp[m].kind /\ new.call \in Nat /\ new.call >= docOp[m].call

\* The keys given stay given.
LEMMA IssuedStays ==
  ASSUME Types, NEW m \in Machine, NEW new, Becoming(m, new)
  PROVE  /\ \A id \in KephRequest : Issued(id) => Issued(id)'
         /\ \A c \in Change : Begun(c) => Begun(c)'
<1>1. docOp \in [Machine -> DocOp] /\ docOp[m].call \in Nat
  BY OpFields DEF Types, KephTypeOK
<1>2. \A c \in Change : Begun(c) => Begun(c)'
  BY <1>1 DEF Begun, Becoming, Change
<1>3. ASSUME NEW id \in KephRequest, Issued(id) PROVE Issued(id)'
  BY <1>1, <1>3 DEF KephRequest, Change, Issued, Becoming
<1> QED BY <1>2, <1>3

\* It returns.
LEMMA OwnEnd ==
  ASSUME Types, Types', Calls, Operations, Preserves, NEW m \in Machine, NEW new,
         Becoming(m, new), new.step = "idle", new.call = docOp[m].call,
         Known' \subseteq Known, 
         new.result \in Denied => NoneLive(m)' /\ Untouched(m)',
         new.result = "ok" /\ Changes(new) => ~Unmade(m)',
         new.result = "half" /\ new.kind = "done" => ~Unmade(m)'
  PROVE  Calls' /\ Running(m)' /\ Sent(m)' /\ Progress(m)'
<1> DEFINE o == docOp[m]
<1>1. Running(m) /\ Sent(m)
  BY DEF Operations
<1>2. docOp'[m] = new /\ ChangeOf(m)' = ChangeOf(m) /\ ~Active(new)
  BY DEF Becoming, ChangeOf, Types, KephTypeOK, Active
<1>3. Calls'
  BY IssuedStays, CallsStep
<1>4. Running(m)'
  BY <1>2 DEF Running
<1>5. Sent(m)'
  BY <1>1, <1>2 DEF Sent, Preserves, Becoming
<1>6. Progress(m)'
  BY <1>2 DEF Progress
<1> QED BY <1>3, <1>4, <1>5, <1>6

\* It begins a store call.
LEMMA OwnCall ==
  ASSUME Types, Types', Calls, Operations, Preserves, NEW m \in Machine, NEW new, NEW r \in StoreCall,
         Becoming(m, new), new.step = "send", new.call = docOp[m].call + 1, new.req = r,
         new.name = docOp[m].name, new.result = "none", docOp[m].step # "idle",
         r.id = [change |-> ChangeOf(m), call |-> new.call], r.kind = docOp[m].kind,
         r.tool = "rename" => r.name = docOp[m].name,
         \A s \in Known' : s \in Known \/ s = r,
         \A q \in underway' : q \in underway,
         Shape(r)', Ready(r)',
         \A s \in Known : Own(s) = ChangeOf(m) => ~Live(s)',
         r.tool = "rename" /\ r.kind = "reopen" => Unmade(m)',
         r.tool = "write" => Unmade(m)',
         r.tool = "create" => Untouched(m)',
         r.tool = "rename" /\ r.kind = "done" => ~Unmade(m)',
         r.kind \in {"move", "delete"} => Unmade(m)'
  PROVE  Calls' /\ Running(m)' /\ Sent(m)' /\ Progress(m)'
<1> DEFINE o == docOp[m]
<1>1. Running(m) /\ Sent(m)
  BY DEF Operations
<1>2. docOp'[m] = new /\ ChangeOf(m)' = ChangeOf(m) /\ Active(new) /\ new.kind = o.kind
  BY DEF Becoming, ChangeOf, Types, KephTypeOK, Active
<1>3. ChangeOf(m) \in Change /\ ChangeOf(m) = <<m, o.n>> /\ o.n \in Nat /\ o.n > 0 /\ o.call \in Nat
  BY OpFields
<1>4. Own(r) = ChangeOf(m) /\ r.id \in KephRequest /\ r.id.change[1] = m /\ r.id.change[2] = o.n /\ r.id.call = o.call + 1
  BY <1>3, CallFields DEF Own
<1>5. ~Issued(r.id) /\ Issued(r.id)'
  BY <1>2, <1>3, <1>4 DEF Issued, Becoming
<1>6. r.id \notin DOMAIN executed' /\ r.id \notin refused'
  BY <1>5 DEF Preserves
<1>7. Fresh(r)
  BY <1>4, <1>5 DEF Fresh
<1>8. Calls'
  BY <1>7, IssuedStays, CallsStep
<1>9. Running(m)'
  BY <1>1, <1>2 DEF Running
<1>10. Sent(m)'
  BY <1>5, KnownTyped, <1>1, <1>4, <1>2, <1>6 DEF Calls, CallOK, Sent, NoneLive, Live, Denied, ErrorCode
<1>11. Progress(m)'
  BY <1>2 DEF Progress, Denied, ErrorCode
<1> QED BY <1>8, <1>9, <1>10, <1>11

\* Its call is sent, or is to be repeated, or the document is read again.
LEMMA OwnGoesOn ==
  ASSUME Types, Types', Calls, Operations, Preserves, NEW m \in Machine, NEW new,
         Becoming(m, new), new.call = docOp[m].call, new.name = docOp[m].name, new.req = docOp[m].req,
         new.result = docOp[m].result, docOp[m].step # "idle",
         \/ Active(new) /\ Active(docOp[m]) /\ new.step # "send"
         \/ new.step = "read" /\ docOp[m].kind # "create" /\ NoneLive(m)' /\ Unmade(m)',
         Known' \subseteq Known, home'[ChangeOf(m)] = home[ChangeOf(m)], Overtaken' = Overtaken,
         DOMAIN executed' = DOMAIN executed, 
         new.step = "wait" => /\ docOp[m].step = "send" /\ refused' = refused
                              /\ \A q \in underway' : q.req.id = new.req.id /\ q \notin underway => ~q.again
  PROVE  Calls' /\ Running(m)' /\ Sent(m)' /\ Progress(m)'
<1> DEFINE o == docOp[m]  r == o.req
<1>1. Running(m) /\ Sent(m) /\ Progress(m)
  BY DEF Operations
<1>2. docOp'[m] = new /\ ChangeOf(m)' = ChangeOf(m) /\ new.kind = o.kind
  BY DEF Becoming, ChangeOf, Types, KephTypeOK
<1>3. Calls'
  BY IssuedStays, CallsStep
<1>4. Running(m)'
  BY <1>1, <1>2 DEF Running, Active
<1>5. \A s \in Known' : s \in Known /\ (Live(s)' => Live(s))
  BY DEF Preserves
<1>6. NoneLive(m) => NoneLive(m)'
  BY <1>2, <1>5 DEF NoneLive
<1>7. o.result = "none"
  BY <1>1 DEF Running
<1>8. Sent(m)'
  BY <1>1, <1>2, <1>5, <1>6, <1>7 DEF Sent, Active, Denied, ErrorCode
<1>9. (Unmade(m)' <=> Unmade(m)) /\ (Untouched(m)' <=> Untouched(m))
  BY <1>2 DEF Unmade, Untouched
<1>10. Progress(m)'
  BY <1>1, <1>2, <1>7, <1>9 DEF Progress, Denied, ErrorCode, Active
<1> QED BY <1>3, <1>4, <1>8, <1>10

\* A step that does not touch the documents.
LEMMA StoreStands ==
  ASSUME Store, UNCHANGED <<hub, clock, home, dropped, overwritten, replica>>, Overtaken' = Overtaken
  PROVE  Store'
BY DEF Store, HubSound, ReplicaSound, Split, Kept, Gone, Sound, At, Holds

\* The calls around after a step of machine m.
LEMMA KnownStep ==
  ASSUME Types, NEW m \in Machine, NEW new, docOp' = [docOp EXCEPT ![m] = new],
         \A q \in underway' : q.req \in Known
  PROVE  \A s \in Known' : s \in Known \/ (Active(new) /\ s = new.req)
  BY KnownTyped DEF Types, KephTypeOK, Known

\* A step of one machine that does not reach the hub keeps everything of the others.
LEMMA QuietApart ==
  ASSUME Types, HubStands, NEW m \in Machine, NEW new, docOp' = [docOp EXCEPT ![m] = new],
         \A s \in Known' : s \in Known \/ Own(s)[1] = m,
         \A q \in underway' : q \in underway \/ Own(q.req)[1] = m
  PROVE  \A p \in Machine \ {m} : Apart(p)
BY DEF Apart, HubStands, Overtaken, Types, KephTypeOK

LEMMA QuietStep ==
  ASSUME Types, Types', Store, Operations, HubStands, UNCHANGED replica, NEW m \in Machine, NEW new,
         docOp' = [docOp EXCEPT ![m] = new], Preserves,
         \A s \in Known' : s \in Known \/ Own(s)[1] = m,
         \A q \in underway' : q \in underway \/ Own(q.req)[1] = m,
         Running(m)', Sent(m)', Progress(m)', Calls'
  PROVE  KephInv'
  BY StoreStands, QuietApart, Bystander DEF HubStands, Overtaken, Operations, KephInv

\* An operation begins.
LEMMA BeginKeeps ==
  ASSUME KephInv, Types', NEW m \in Machine, BeginOp(m)
  PROVE  KephInv'
<1>1. PICK kind \in OpKind, name \in DocName, since \in {0, docOp[m].known} :
       /\ kind = "create" => name = <<1, "open">>
       /\ kind \in {"done", "reopen", "move"} => name[2] = IF kind = "reopen" THEN "done" ELSE "open"
       /\ Set(m, [docOp[m] EXCEPT !.kind = kind, !.n = @ + 1, !.step = "read", !.name = name,
                                  !.since = since, !.retries = 0, !.call = 0, !.result = "none"])
  BY DEF BeginOp
<1> DEFINE o == docOp[m]
           new == [o EXCEPT !.kind = kind, !.n = o.n + 1, !.step = "read", !.name = name,
                            !.since = since, !.retries = 0, !.call = 0, !.result = "none"]
<1>2. Types /\ Store /\ Calls /\ Operations /\ HubStands /\ UNCHANGED <<underway, replica>>
  BY DEF KephInv, BeginOp
<1>3. o \in DocOp /\ o.n \in Nat
  BY <1>2, OpFields
<1>4. /\ docOp' = [docOp EXCEPT ![m] = new]
      /\ new.kind = kind /\ new.n = o.n + 1 /\ new.step = "read" /\ new.name = name
      /\ new.call = 0 /\ new.result = "none"
  BY <1>1, <1>3 DEF Set, DocOp
<1> HIDE DEF new
<1>5. Preserves /\ Overtaken' = Overtaken /\ home' = home
  BY <1>2, StandsPreserves DEF HubStands
<1>6. Known' \subseteq Known
  BY <1>2, KnownTyped, <1>4, KnownStep DEF Active
<1>7. docOp'[m] = new /\ docOp \in [Machine -> DocOp]
  BY <1>2, <1>4 DEF Types, KephTypeOK
<1>8. \A id \in KephRequest : Issued(id) => Issued(id)'
  BY <1>3, <1>4, <1>7 DEF Issued, KephRequest, Change
<1>9. \A c \in Change : Begun(c) => Begun(c)'
  BY <1>3, <1>4, <1>7 DEF Begun, Change
<1>10. Calls'
  BY <1>2, <1>5, <1>6, <1>8, <1>9, CallsStep
<1>11. ChangeOf(m)' = <<m, o.n + 1>> /\ ChangeOf(m)' \in Change
  BY <1>3, <1>4, <1>7, KephAssumption DEF Types, KephTypeOK, ChangeOf, Change, DocOp
<1>12. \A s \in Known : Own(s) # <<m, o.n + 1>>
  BY <1>2, <1>3 DEF Own, Calls, CallOK, Issued
<1>13. home[<<m, o.n + 1>>] = 0
  <2>1. ~Begun(<<m, o.n + 1>>)
    BY <1>3 DEF Begun
  <2> QED BY <1>2, <1>11, <2>1 DEF Calls
<1>14. Running(m)'
  BY <1>1, <1>4, <1>7 DEF Running, Active
<1>15. Sent(m)'
  BY <1>4, <1>6, <1>7, <1>11, <1>12 DEF Sent, NoneLive, Active, Denied, ErrorCode
<1>16. Progress(m)'
  BY <1>4, <1>5, <1>7, <1>11, <1>13 DEF Progress, Unmade, Active, Denied, ErrorCode
<1> QED BY <1>2, <1>4, <1>5, <1>6, <1>10, <1>14, <1>15, <1>16, QuietStep

\* A text with one change more.
LEMMA DistinctAppend ==
  ASSUME NEW t \in Seq(Change), NEW c \in Change
  PROVE  /\ In(Append(t, c)) = In(t) \cup {c} /\ Append(t, c) \in Seq(Change)
         /\ Distinct(t) /\ c \notin In(t) => Distinct(Append(t, c))
<1> DEFINE a == Append(t, c)
<1>1. Len(t) \in Nat /\ DOMAIN t = 1..Len(t) /\ a \in Seq(Change)
      /\ DOMAIN a = 1..(Len(t) + 1) /\ a[Len(t) + 1] = c /\ \A i \in 1..Len(t) : a[i] = t[i]
  OBVIOUS
<1> HIDE DEF a
<1>2. In(a) = In(t) \cup {c}
  BY <1>1 DEF In
<1>3. Distinct(t) /\ c \notin In(t) => Distinct(a)
  BY <1>1 DEF In, Distinct
<1> QED BY <1>1, <1>2, <1>3 DEF a

\* What a call of the operation of machine m looks like.
IsCall(new, m, o, tool, name, to, text, base) ==
  /\ new.step = "send" /\ new.call = o.call + 1 /\ new.n = o.n /\ new.kind = o.kind
  /\ new.name = o.name /\ new.result = o.result /\ new.known = o.known
  /\ new.req.id = [change |-> <<m, o.n>>, call |-> o.call + 1] /\ new.req.kind = o.kind
  /\ new.req.tool = tool /\ new.req.name = name /\ new.req.to = to /\ new.req.text = text /\ new.req.base = base
  /\ Own(new.req) = <<m, o.n>>

LEMMA CallIs ==
  ASSUME NEW m, NEW o \in DocOp, NEW tool, NEW name, NEW to, NEW text, NEW base
  PROVE  IsCall(Call(m, o, tool, name, to, text, base), m, o, tool, name, to, text, base)
<1> DEFINE c == [id |-> [change |-> <<m, o.n>>, call |-> o.call + 1], kind |-> o.kind,
                 tool |-> tool, name |-> name, to |-> to, text |-> text, base |-> base]
<1>1. Call(m, o, tool, name, to, text, base) = [o EXCEPT !.step = "send", !.call = @ + 1, !.req = c]
  BY DEF Call
<1>2. /\ c.id = [change |-> <<m, o.n>>, call |-> o.call + 1] /\ c.kind = o.kind /\ c.tool = tool
      /\ c.name = name /\ c.to = to /\ c.text = text /\ c.base = base
  OBVIOUS
<1> HIDE DEF c
<1> QED BY <1>1, <1>2 DEF DocOp, IsCall, Own

LEMMA EndIs ==
  ASSUME NEW o \in DocOp, NEW result
  PROVE  LET new == End(o, result) IN
         /\ new.step = "idle" /\ new.call = o.call /\ new.n = o.n /\ new.kind = o.kind /\ new.result = result
  BY DEF End, DocOp

\* What the operation that reads becomes: it returns, reads again or calls.
Reading(m, new) ==
  /\ docOp[m].step = "read" /\ HubStands /\ UNCHANGED <<underway, replica>>
  /\ docOp' = [docOp EXCEPT ![m] = new]

Facts(m, new) ==
  /\ Types /\ Store /\ Calls /\ Operations /\ Preserves /\ HubStands
  /\ Overtaken' = Overtaken /\ home' = home /\ executed' = executed
  /\ \A s \in Known' : s \in Known \/ (Active(new) /\ s = new.req)
  /\ docOp[m] \in DocOp /\ docOp[m].result = "none" /\ docOp[m].step # "idle"
  /\ docOp[m].n \in Nat /\ docOp[m].n > 0 /\ docOp[m].call \in Nat /\ docOp[m].name \in DocName
  /\ ChangeOf(m) \in Change /\ ChangeOf(m) = <<m, docOp[m].n>>
  /\ \A s \in Known : Own(s) = ChangeOf(m) => ~Live(s)'
  /\ Unmade(m) /\ (new.n = docOp[m].n => ChangeOf(m)' = ChangeOf(m) /\ Unmade(m)')
  /\ docOp[m].step = "read" /\ docOp' = [docOp EXCEPT ![m] = new] /\ UNCHANGED <<underway, replica>>

\* What an operation that reads can rely on.
LEMMA ReadingFacts ==
  ASSUME KephInv, Types', NEW m \in Machine, NEW new, Reading(m, new)
  PROVE  Facts(m, new)
<1>1. Types /\ Store /\ Calls /\ Operations /\ HubStands
  BY DEF KephInv, Reading
<1>2. Preserves /\ Overtaken' = Overtaken /\ home' = home /\ executed' = executed
  BY <1>1, StandsPreserves DEF HubStands
<1>3. \A s \in Known' : s \in Known \/ (Active(new) /\ s = new.req)
  BY <1>1, KnownStep, KnownTyped DEF Reading
<1>4. docOp[m] \in DocOp /\ ChangeOf(m) \in Change /\ ChangeOf(m) = <<m, docOp[m].n>>
      /\ docOp[m].n \in Nat /\ docOp[m].n > 0 /\ docOp[m].call \in Nat /\ docOp[m].name \in DocName
  BY <1>1, OpFields DEF Reading
<1>5. docOp[m].result = "none" /\ NoneLive(m) /\ Unmade(m)
  BY <1>1 DEF Reading, Operations, Running, Sent, Progress
<1>6. \A s \in Known : Own(s) = ChangeOf(m) => ~Live(s)'
  BY <1>2, <1>5 DEF NoneLive, Preserves
<1>7. new.n = docOp[m].n => ChangeOf(m)' = ChangeOf(m) /\ Unmade(m)'
  BY <1>1, <1>2, <1>5 DEF Reading, ChangeOf, Unmade, Types, KephTypeOK
<1> QED BY <1>1, <1>2, <1>3, <1>4, <1>5, <1>6, <1>7 DEF Reading, Facts

\* It reads and returns.
LEMMA ReadEnds ==
  ASSUME KephInv, Types', NEW m \in Machine, NEW new, Reading(m, new),
         NEW code \in {"not_found", "foreign_change", "invalid_input"}, new = End(docOp[m], code)
  PROVE  KephInv'
  BY ReadingFacts, EndIs, OwnEnd, QuietStep DEF Facts, Active, Becoming, DocOp, NoneLive, Untouched

\* It reads again.
LEMMA ReadAgain ==
  ASSUME KephInv, Types', NEW m \in Machine, NEW new, Reading(m, new), docOp[m].kind = "edit",
         new = [docOp[m] EXCEPT !.retries = @ + 1]
  PROVE  KephInv'
<1>1. Facts(m, new)
  BY ReadingFacts
<1>2. docOp[m] \in DocOp /\ ChangeOf(m) = <<m, docOp[m].n>> /\ ChangeOf(m) \in Change /\ docOp[m].n \in Nat
      /\ docOp[m].call \in Nat /\ docOp[m].name \in DocName /\ docOp[m].n > 0
  BY <1>1 DEF Facts
<1> DEFINE o == docOp[m]
<1>3. /\ new.step = "read" /\ new.call = o.call /\ new.n = o.n /\ new.kind = o.kind
      /\ new.result = o.result /\ new.name = o.name /\ new.req = o.req
  BY <1>1 DEF DocOp, Facts
<1>4. Known' \subseteq Known
  BY <1>3, <1>1 DEF Active, Facts
<1>5. Becoming(m, new)
  BY <1>3, <1>1 DEF Becoming, DocOp, Facts
<1>6. NoneLive(m)' /\ Unmade(m)'
  BY <1>3, <1>4, <1>1 DEF NoneLive, Facts
<1>7. Calls' /\ Running(m)' /\ Sent(m)' /\ Progress(m)'
  BY <1>3, <1>4, <1>5, <1>6, <1>1, OwnGoesOn DEF Unmade, Facts
<1> QED BY <1>4, <1>7, <1>1, QuietStep DEF Facts

\* It reads and calls.
LEMMA ReadCalls ==
  ASSUME KephInv, Types', NEW m \in Machine, NEW new, Reading(m, new),
         NEW tool \in {"create", "write", "rename", "delete"}, NEW name \in DocName, NEW to \in DocName,
         NEW text \in Seq(Change), NEW base \in Nat,
         new = Call(m, docOp[m], tool, name, to, text, base), NEW r, r = new.req,
         Shape(r), Ready(r), tool = "rename" => name = docOp[m].name /\ docOp[m].kind # "done"
  PROVE  KephInv'
<1>1. Facts(m, new)
  BY ReadingFacts
<1>2. docOp[m] \in DocOp /\ ChangeOf(m) = <<m, docOp[m].n>> /\ ChangeOf(m) \in Change /\ docOp[m].n \in Nat
      /\ docOp[m].call \in Nat /\ docOp[m].name \in DocName /\ docOp[m].n > 0
  BY <1>1 DEF Facts
<1> DEFINE o == docOp[m]
<1>3. /\ new.step = "send" /\ new.call = o.call + 1 /\ new.n = o.n /\ new.kind = o.kind
      /\ new.name = o.name /\ new.result = o.result
      /\ r.id = [change |-> <<m, o.n>>, call |-> o.call + 1] /\ r.kind = o.kind /\ r.tool = tool
      /\ r.name = name
  BY <1>2, CallIs DEF IsCall
<1>4. r \in StoreCall
  <2>1. o.n > 0
    BY <1>1, OpFields DEF Facts
  <2> QED BY <1>3, <2>1, <1>1, CallTyped DEF Typed, Active, Facts
<1>5. Becoming(m, new)
  BY <1>3, <1>1 DEF Becoming, DocOp, Facts
<1>6. Shape(r)' /\ Ready(r)'
  BY <1>1 DEF HubStands, Shape, Ready, Carries, At, Live, Facts
<1>7. Calls' /\ Running(m)' /\ Sent(m)' /\ Progress(m)'
  BY <1>3, <1>4, <1>5, <1>6, <1>1, OwnCall DEF Untouched, Facts
<1>8. Own(r)[1] = m
  BY <1>3 DEF Own
<1> QED BY <1>7, <1>8, <1>1, QuietStep DEF Facts

\* It reads the numbers and creates.
LEMMA ReadCreates ==
  ASSUME KephInv, Types', NEW m \in Machine, NEW new, Reading(m, new), docOp[m].kind = "create",
         NEW number \in 1..(MaxNumber + 1), new = CreateUnder(m, docOp[m], number)
  PROVE  KephInv'
<1>1. Facts(m, new)
  BY ReadingFacts
<1>2. docOp[m] \in DocOp /\ ChangeOf(m) = <<m, docOp[m].n>> /\ ChangeOf(m) \in Change /\ docOp[m].n \in Nat
      /\ docOp[m].call \in Nat /\ docOp[m].name \in DocName /\ docOp[m].n > 0
  BY <1>1 DEF Facts
<1> DEFINE o == docOp[m]
<1>3. CASE number > MaxNumber
  BY <1>3, ReadEnds DEF CreateUnder
<1>4. o.kind = "create"
  OBVIOUS
<1>5. CASE ~(number > MaxNumber)
  <2> DEFINE name == <<number, "open">>  text == <<<<m, o.n>>>>
  <2>1. name \in DocName /\ name[2] = "open"
    BY <1>5, KephAssumption DEF DocName, Area
  <2>2. text \in Seq(Change) /\ In(text) = {<<m, o.n>>} /\ Distinct(text)
    BY <1>1 DEF In, Distinct, Facts
  <2>3. new = Call(m, o, "create", name, name, text, 0)
    BY <1>5 DEF CreateUnder
  <2> HIDE DEF name, text
  <2>4. IsCall(new, m, o, "create", name, name, text, 0)
    BY <2>3, <1>2, CallIs
  <2> DEFINE r == new.req
  <2>5. r.kind = "create" /\ r.tool = "create" /\ r.name = name /\ r.to = name /\ r.text = text /\ r.base = 0
        /\ r.id = [change |-> <<m, o.n>>, call |-> o.call + 1]
    BY <2>4, <1>4 DEF IsCall
  <2>6. Own(r) = ChangeOf(m)
    BY <2>5, <1>2 DEF Own
  <2> HIDE DEF r
  <2>7. Shape(r)
    BY <2>1, <2>2, <2>5, <2>6, <1>1 DEF Shape, Facts
  <2>8. ~Issued(r.id) /\ r.id \notin DOMAIN executed
    BY <2>5, <1>1 DEF Issued, DocOp, Facts, Calls
  <2>9. home[Own(r)] = 0
    <3>1. new.n = o.n
      BY <2>4 DEF IsCall
    <3> QED BY <2>6, <3>1, <1>1 DEF Unmade, Facts
  <2>10. Ready(r)
    BY <2>5, <2>8, <2>9 DEF Ready
  <2> QED BY <2>1, <2>2, <2>3, <2>7, <2>10, ReadCalls DEF r
<1> QED BY <1>3, <1>5

\* A write on what the replica shows.
LEMMA ReadWrites ==
  ASSUME KephInv, Types', NEW m \in Machine, NEW new, Reading(m, new), docOp[m].kind \in {"edit", "done"},
         replica[m][docOp[m].name].rev # 0,
         new = Call(m, docOp[m], "write", docOp[m].name, docOp[m].name,
                    Append(replica[m][docOp[m].name].text, ChangeOf(m)), replica[m][docOp[m].name].rev)
  PROVE  KephInv'
<1>1. Facts(m, new)
  BY ReadingFacts
<1>2. docOp[m] \in DocOp /\ ChangeOf(m) = <<m, docOp[m].n>> /\ ChangeOf(m) \in Change /\ docOp[m].n \in Nat
      /\ docOp[m].call \in Nat /\ docOp[m].name \in DocName /\ docOp[m].n > 0
  BY <1>1 DEF Facts
<1> DEFINE o == docOp[m]
<1>3. o.name \in DocName
  BY <1>1 DEF DocOp, Facts
<1> DEFINE doc == replica[m][o.name]  text == Append(doc.text, ChangeOf(m))
<1>4. doc \in Doc /\ Sound(doc, o.name[1]) /\ (doc.rev = hub[o.name].rev => doc.text = hub[o.name].text)
      /\ clock \in Nat
  BY <1>3, <1>1 DEF Store, ReplicaSound, Types, KephTypeOK, Facts
<1>5. doc.rev \in 1..clock /\ doc.text \in Seq(Change)
  BY <1>4 DEF Doc, Sound
<1>6. IsCall(new, m, o, "write", o.name, o.name, text, doc.rev)
  BY <1>2, CallIs
<1>7. new.n = o.n
  BY <1>6 DEF IsCall
<1>8. Unmade(m) /\ ChangeOf(m) \in Change
  BY <1>7, <1>1 DEF Facts
<1>9. ChangeOf(m) \notin In(doc.text)
  BY <1>4, <1>8 DEF Sound, At, Unmade
<1>10. text \in Seq(Change) /\ In(text) = In(doc.text) \cup {ChangeOf(m)} /\ Distinct(text)
  BY <1>4, <1>5, <1>8, <1>9, DistinctAppend DEF Sound
<1>11. new = Call(m, o, "write", o.name, o.name, text, doc.rev)
  OBVIOUS
<1>12. ChangeOf(m) = <<m, o.n>> /\ o.kind \in {"edit", "done"}
  BY <1>2
<1> HIDE DEF o, doc, text
<1> DEFINE r == new.req
<1>13. r.kind = o.kind /\ r.tool = "write" /\ r.name = o.name /\ r.to = o.name /\ r.text = text /\ r.base = doc.rev
      /\ r.id = [change |-> <<m, o.n>>, call |-> o.call + 1]
  BY <1>6 DEF IsCall
<1>14. Own(r) = ChangeOf(m)
  BY <1>6, <1>12 DEF IsCall
<1> HIDE DEF r
<1>15. Shape(r)
  <2>1. Carries(r)
    BY <1>4, <1>10, <1>13, <1>14 DEF Carries, Sound
  <2> QED BY <1>5, <1>13, <2>1 DEF Shape, o
<1>16. r.id \notin DOMAIN executed
  <2>1. ~Issued(r.id)
    BY <1>13, <1>2 DEF Issued, o
  <2> QED BY <2>1, <1>1 DEF Calls, Facts
<1>17. Ready(r)
  BY <1>4, <1>8, <1>10, <1>13, <1>14, <1>16 DEF Ready, Unmade, o
<1>18. doc.rev \in Nat
  BY <1>4, <1>5
<1> QED BY <1>3, <1>10, <1>11, <1>15, <1>17, <1>18, ReadCalls DEF r, o

\* A rename or a deletion, without a text or with the one to write next.
LEMMA ReadMoves ==
  ASSUME KephInv, Types', NEW m \in Machine, NEW new, Reading(m, new),
         NEW text \in Seq(Change), NEW base \in Nat,
         \/ /\ docOp[m].kind = "move" /\ base = 0
            /\ new = Call(m, docOp[m], "rename", docOp[m].name, Moved(docOp[m].name, "done"), text, base)
         \/ /\ docOp[m].kind = "reopen" /\ base = 0 /\ text = Append(replica[m][docOp[m].name].text, ChangeOf(m))
            /\ new = Call(m, docOp[m], "rename", docOp[m].name, Moved(docOp[m].name, "open"), text, base)
         \/ /\ docOp[m].kind = "delete"
            /\ new = Call(m, docOp[m], "delete", docOp[m].name, docOp[m].name, text, base)
  PROVE  KephInv'
<1>1. Facts(m, new)
  BY ReadingFacts
<1>2. docOp[m] \in DocOp /\ ChangeOf(m) = <<m, docOp[m].n>> /\ ChangeOf(m) \in Change /\ docOp[m].n \in Nat
      /\ docOp[m].call \in Nat /\ docOp[m].name \in DocName /\ docOp[m].n > 0
  BY <1>1 DEF Facts
<1> DEFINE o == docOp[m]  r == new.req
<1>3. o.name \in DocName /\ Moved(o.name, "done") \in DocName /\ Moved(o.name, "open") \in DocName
      /\ Moved(o.name, "done")[1] = o.name[1] /\ Moved(o.name, "open")[1] = o.name[1]
      /\ Moved(o.name, "done")[2] = "done" /\ Moved(o.name, "open")[2] = "open"
      /\ o.name = <<o.name[1], o.name[2]>>
  BY <1>2 DEF DocName, Moved, Area
<1>4. Running(m)
  BY <1>1 DEF Operations, Facts
<1>5. PICK tool, to :
        /\ IsCall(new, m, o, tool, o.name, to, text, base)
        /\ \/ o.kind = "move" /\ tool = "rename" /\ to = Moved(o.name, "done")
           \/ o.kind = "reopen" /\ tool = "rename" /\ to = Moved(o.name, "open")
           \/ o.kind = "delete" /\ tool = "delete" /\ to = o.name
        /\ new = Call(m, o, tool, o.name, to, text, base)
  BY <1>2, CallIs
<1>6. r.kind = o.kind /\ r.tool = tool /\ r.to = to /\ r.name = o.name /\ r.text = text /\ r.base = base
       /\ r.id = [change |-> <<m, o.n>>, call |-> o.call + 1] /\ Own(r) = ChangeOf(m)
  BY <1>5, <1>2 DEF IsCall
<1>7. o.kind \in {"move", "reopen", "delete"} /\ (o.kind # "delete" => base = 0)
  OBVIOUS
<1>8. (o.kind = "move" => o.name[2] = "open") /\ (o.kind = "reopen" => o.name[2] = "done")
  BY <1>4, <1>1 DEF Running, Facts
<1>9. Own(r) = ChangeOf(m) /\ Unmade(m) /\ ChangeOf(m) \in Change
  <2>1. Unmade(m)
    BY <1>1 DEF Facts
  <2> QED BY <1>6, <1>2, <2>1
<1> HIDE DEF r
<1>10. o.kind = "reopen" => Carries(r)
  <2> SUFFICES ASSUME o.kind = "reopen" PROVE Carries(r)
    OBVIOUS
  <2> DEFINE doc == replica[m][o.name]
  <2>1. doc \in Doc /\ Sound(doc, o.name[1])
    BY <1>3, <1>1 DEF Store, ReplicaSound, Types, KephTypeOK, Facts
  <2>2. ChangeOf(m) \notin In(doc.text) /\ doc.text \in Seq(Change)
    BY <1>9, <2>1 DEF Sound, At, Unmade, Doc
  <2>3. In(text) = In(doc.text) \cup {ChangeOf(m)} /\ Distinct(text)
    BY <1>9, <2>1, <2>2, DistinctAppend DEF Sound
  <2> QED BY <1>6, <1>9, <2>1, <2>3 DEF Carries, Sound
<1>11. Shape(r)
  BY <1>3, <1>5, <1>6, <1>10, <1>7, <1>8 DEF Shape
<1>12. r.id \notin DOMAIN executed
  <2>1. ~Issued(r.id)
    BY <1>6, <1>2 DEF Issued
  <2> QED BY <2>1, <1>1 DEF Calls, Facts
<1>13. Ready(r)
  BY <1>5, <1>6, <1>12, <1>7 DEF Ready, Makes, Live
<1> QED BY <1>3, <1>5, <1>11, <1>13, <1>7, <1>2, ReadCalls DEF r

\* The operation reads its replica.
LEMMA ReadKeeps ==
  ASSUME KephInv, Types', NEW m \in Machine, ReadStep(m)
  PROVE  KephInv'
<1> DEFINE o == docOp[m]  doc == replica[m][o.name]  text == Append(doc.text, ChangeOf(m))
<1>1. o.step = "read" /\ HubStands /\ UNCHANGED <<underway, replica>>
  BY DEF ReadStep
<1>2. \A new : Set(m, new) => Reading(m, new)
  BY <1>1 DEF Reading, Set
<1>3. o \in DocOp /\ o.name \in DocName /\ ChangeOf(m) \in Change
  BY <1>1, OpFields DEF KephInv
<1>4. doc.rev \in Nat /\ text \in Seq(Change) /\ <<>> \in Seq(Change)
  BY <1>3, DocFields, DistinctAppend DEF KephInv, Doc
<1>5. CASE o.kind = "create" /\ \E number \in 1..(MaxNumber + 1) :
             NextNumber(m, number) /\ Set(m, CreateUnder(m, o, number))
  BY <1>2, <1>5, ReadCreates
<1>6. CASE o.kind = "move" /\ Set(m, Call(m, o, "rename", o.name, Moved(o.name, "done"), <<>>, 0))
  BY <1>2, <1>4, <1>6, ReadMoves
<1>7. CASE o.kind = "edit" /\ Set(m, ReadForEdit(m, o, doc, text))
  <2> DEFINE new == ReadForEdit(m, o, doc, text)
  <2>1. Reading(m, new)
    BY <1>2, <1>7
  <2>2. \/ new = End(o, "not_found")
        \/ new = [o EXCEPT !.retries = @ + 1]
        \/ new = End(o, "foreign_change")
        \/ doc.rev # 0 /\ new = Call(m, o, "write", o.name, o.name, text, doc.rev)
    BY <1>4 DEF ReadForEdit
  <2> QED BY <1>7, <2>1, <2>2, ReadEnds, ReadAgain, ReadWrites
<1>8. CASE o.kind \in {"done", "reopen", "delete"} /\ Set(m, FindTodo(m, o, doc, text))
  <2> DEFINE new == FindTodo(m, o, doc, text)
  <2>1. Reading(m, new)
    BY <1>2, <1>8
  <2>2. \/ new = End(o, "not_found")
        \/ doc.rev # 0 /\ o.kind = "done" /\ new = Call(m, o, "write", o.name, o.name, text, doc.rev)
        \/ o.kind = "reopen" /\ new = Call(m, o, "rename", o.name, Moved(o.name, "open"), text, 0)
        \/ o.kind = "delete" /\ new = Call(m, o, "delete", o.name, o.name, <<>>, doc.rev)
    <3>1. CASE o.kind = "done"
      BY <1>4, <3>1 DEF FindTodo
    <3>2. CASE o.kind = "reopen"
      BY <1>4, <3>2 DEF FindTodo
    <3>3. CASE o.kind = "delete"
      BY <1>4, <3>3 DEF FindTodo
    <3> QED BY <1>8, <3>1, <3>2, <3>3
  <2> QED BY <1>4, <1>8, <2>1, <2>2, ReadEnds, ReadMoves, ReadWrites
<1> QED BY <1>5, <1>6, <1>7, <1>8 DEF ReadStep

\* What is known of an operation that has a call.
LEMMA ActiveFacts ==
  ASSUME Types, Calls, Operations, NEW m \in Machine, Active(docOp[m])
  PROVE  /\ docOp[m] \in DocOp /\ docOp[m].step # "idle" /\ docOp[m].result = "none" /\ docOp[m].n > 0
         /\ docOp[m].n \in Nat /\ docOp[m].call \in Nat /\ docOp[m].name \in DocName
         /\ docOp[m].req \in StoreCall /\ docOp[m].req \in Known /\ docOp[m].req.kind = docOp[m].kind
         /\ CallOK(docOp[m].req)
         /\ Own(docOp[m].req) = ChangeOf(m) /\ ChangeOf(m) = <<m, docOp[m].n>> /\ ChangeOf(m) \in Change
         /\ docOp[m].req.id = [change |-> ChangeOf(m), call |-> docOp[m].call]
         /\ Own(docOp[m].req)[1] = m /\ ChangeOf(m)[1] = m
  BY OpFields DEF Operations, Active, Running, Own, ChangeOf, Calls

\* Before the hub executed its call, an operation that can fail has not made its change.
LEMMA NotYetMade ==
  ASSUME Types, Calls, Operations, NEW m \in Machine, Active(docOp[m]), docOp[m].req.id \notin DOMAIN executed
  PROVE  Untouched(m) \/ (docOp[m].kind = "done" /\ docOp[m].req.tool = "rename")
<1> DEFINE o == docOp[m]  r == o.req
<1>1. Progress(m) /\ r \in StoreCall /\ Shape(r) /\ r.kind = o.kind
  BY ActiveFacts DEF Operations, CallOK
<1>2. CASE r.tool = "create"
  BY <1>1, <1>2 DEF Progress
<1>3. CASE r.tool = "write"
  BY <1>1, <1>3 DEF Progress, Untouched
<1>4. CASE r.tool = "delete"
  BY <1>1, <1>4 DEF Progress, Untouched, Shape
<1>5. CASE r.tool = "rename"
  BY <1>1, <1>5 DEF Progress, Untouched, Shape
<1> QED BY <1>1, <1>2, <1>3, <1>4, <1>5 DEF StoreCall

\* The second of two calls.
Halfway(o) == \/ o.kind = "done" /\ o.req.tool = "rename"
              \/ o.kind = "reopen" /\ o.req.tool = "write"

LEMMA FailedIs ==
  ASSUME NEW o, NEW code
  PROVE  \/ Halfway(o) /\ Failed(o, code) = End(o, "half")
         \/ ~Halfway(o) /\ Failed(o, code) = End(o, code)
BY DEF Failed, Halfway

\* It gives up.
LEMMA FailedOwn ==
  ASSUME Types, Types', Calls, Operations, Preserves, NEW m \in Machine, Active(docOp[m]),
         NEW code \in {"unknown", "unavailable", "foreign_change"} \cup ErrorCode, NEW new,
         new = Failed(docOp[m], code) \/ (new = End(docOp[m], code) /\ docOp[m].kind # "done"),
         docOp' = [docOp EXCEPT ![m] = new],
         Known' \subseteq Known, home' = home, Overtaken' = Overtaken,
         code # "unknown" => NoneLive(m)' /\ docOp[m].req.id \notin DOMAIN executed
  PROVE  Calls' /\ Running(m)' /\ Sent(m)' /\ Progress(m)'
<1> DEFINE o == docOp[m]  r == o.req
<1>1. o \in DocOp /\ o.call \in Nat
  BY ActiveFacts
<1>2. PICK result : new = End(o, result) /\ result \in {code, "half"}
                    /\ (result = code \/ Halfway(o))
                    /\ (o.kind = "done" /\ r.tool = "rename" => result = "half")
  <2>1. CASE Halfway(o) /\ new = End(o, "half")
    <3> WITNESS "half"
    <3> QED BY <2>1 DEF Halfway
  <2>2. CASE new = End(o, code) /\ o.kind # "done"
    <3> WITNESS code
    <3> QED BY <2>2
  <2>3. CASE ~Halfway(o) /\ new = End(o, code)
    <3> WITNESS code
    <3> QED BY <2>3 DEF Halfway
  <2> QED BY <2>1, <2>2, <2>3, FailedIs
<1>3. new.step = "idle" /\ new.call = o.call /\ new.n = o.n /\ new.kind = o.kind /\ new.result = result
  BY <1>1, <1>2, EndIs
<1>4. Becoming(m, new)
  BY <1>1, <1>3 DEF Becoming
<1>5. ChangeOf(m)' = ChangeOf(m)
  BY <1>3 DEF ChangeOf, Types, KephTypeOK
<1>6. result \in Denied => NoneLive(m)' /\ Untouched(m)'
  BY <1>2, NotYetMade, <1>5 DEF Denied, ErrorCode, Untouched, Unmade
<1>7. result # "ok"
  BY <1>2 DEF ErrorCode
<1>8. result = "half" /\ o.kind = "done" => ~Unmade(m)'
  BY <1>2, <1>5 DEF ErrorCode, Halfway, Operations, Progress, Unmade
<1> QED BY <1>3, <1>4, <1>6, <1>7, <1>8, OwnEnd

(***************************************************************************)
(* The client: an attempt is sent, was not sent, or its outcome is open.   *)
(***************************************************************************)
Handling(m, new) ==
  /\ Active(docOp[m]) /\ HubStands /\ UNCHANGED replica
  /\ docOp' = [docOp EXCEPT ![m] = new]
  /\ \A q \in underway' : q \in underway \/ q.req = docOp[m].req

LEMMA HandlingFacts ==
  ASSUME KephInv, Types', NEW m \in Machine, NEW new, Handling(m, new), Active(new) => new.req = docOp[m].req
  PROVE  /\ Types /\ Store /\ Calls /\ Operations /\ Preserves /\ Overtaken' = Overtaken /\ home' = home
         /\ executed' = executed /\ refused' = refused
         /\ Known' \subseteq Known
         /\ \A q \in underway' : q \in underway \/ Own(q.req)[1] = m
<1>1. Types /\ Store /\ Calls /\ Operations /\ HubStands
  BY DEF KephInv, Handling
<1>2. Preserves /\ Overtaken' = Overtaken /\ home' = home /\ executed' = executed /\ refused' = refused
  BY <1>1, StandsPreserves DEF HubStands
<1>3. docOp[m].req \in Known /\ Own(docOp[m].req)[1] = m
  BY <1>1, ActiveFacts DEF Handling
<1>4. \A q \in underway' : q.req \in Known /\ (q \in underway \/ Own(q.req)[1] = m)
  BY <1>1, <1>3, KnownTyped DEF Handling
<1>5. Known' \subseteq Known
  BY <1>1, <1>3, <1>4, KnownStep DEF Handling
<1> QED BY <1>1, <1>2, <1>4, <1>5

LEMMA HandlingKeeps ==
  ASSUME KephInv, Types', NEW m \in Machine, NEW new, Handling(m, new), Active(new) => new.req = docOp[m].req,
         Calls' /\ Running(m)' /\ Sent(m)' /\ Progress(m)'
  PROVE  KephInv'
BY HandlingFacts, QuietStep DEF Handling

LEMMA HandlingFails ==
  ASSUME KephInv, Types', NEW m \in Machine, NEW new, Handling(m, new),
         NEW code \in {"unknown", "unavailable"}, new = Failed(docOp[m], code),
         code # "unknown" => NoneLive(m)' /\ docOp[m].req.id \notin DOMAIN executed
  PROVE  KephInv'
<1>1. ~Active(new)
  BY ActiveFacts, EndIs DEF KephInv, Handling, Failed, Active
<1>2. /\ Types /\ Calls /\ Operations /\ Preserves /\ Overtaken' = Overtaken /\ home' = home
      /\ Known' \subseteq Known /\ Active(docOp[m]) /\ docOp' = [docOp EXCEPT ![m] = new]
  BY <1>1, HandlingFacts DEF Handling
<1>3. code \in {"unknown", "unavailable", "foreign_change"} \cup ErrorCode
  OBVIOUS
<1>4. Calls' /\ Running(m)' /\ Sent(m)' /\ Progress(m)'
  BY <1>2, <1>3, FailedOwn
<1> QED BY <1>1, <1>4, HandlingKeeps

\* An attempt is sent.
LEMMA SendKeeps ==
  ASSUME KephInv, Types', NEW m \in Machine, Send(m)
  PROVE  KephInv'
<1> DEFINE o == docOp[m]  r == o.req
           new == [o EXCEPT !.step = IF o.step = "send" THEN "wait" ELSE "wait2"]
           a == [req |-> r, again |-> o.step = "repeat"]
<1>1. /\ o.step \in {"send", "repeat"} /\ underway' = underway \cup {a}
      /\ docOp' = [docOp EXCEPT ![m] = new] /\ HubStands /\ UNCHANGED replica
  BY DEF Send, Set, RequestOf
<1>2. Active(o) /\ Types /\ Calls /\ Operations
  BY <1>1 DEF Active, KephInv
<1>3. o \in DocOp /\ o.call \in Nat /\ o.step # "idle"
  BY <1>2, ActiveFacts
<1>4. /\ new.step = (IF o.step = "send" THEN "wait" ELSE "wait2") /\ new.call = o.call /\ new.n = o.n
      /\ new.kind = o.kind /\ new.name = o.name /\ new.req = r /\ new.result = o.result
  BY <1>3 DEF DocOp
<1>5. a.req = r /\ a.again = (o.step = "repeat")
  OBVIOUS
<1> HIDE DEF new, a
<1>6. Active(new) /\ new.step # "send"
  BY <1>1, <1>4 DEF Active
<1>7. Handling(m, new)
  BY <1>1, <1>2, <1>5 DEF Handling
<1>8. Becoming(m, new)
  BY <1>1, <1>3, <1>4 DEF Becoming
<1>9. new.step = "wait" => /\ o.step = "send"
                           /\ \A q \in underway' : q.req.id = new.req.id /\ q \notin underway => ~q.again
  BY <1>1, <1>4, <1>5
<1>10. Calls' /\ Running(m)' /\ Sent(m)' /\ Progress(m)'
  <2>1. /\ Preserves /\ Overtaken' = Overtaken /\ home' = home /\ executed' = executed /\ refused' = refused
        /\ Known' \subseteq Known
    BY <1>4, <1>7, HandlingFacts
  <2> QED BY <1>2, <1>3, <1>4, <1>6, <1>8, <1>9, <2>1, OwnGoesOn
<1> QED BY <1>4, <1>7, <1>10, HandlingKeeps

\* The client stops waiting.
LEMMA StopKeeps ==
  ASSUME KephInv, Types', NEW m \in Machine, StopWaiting(m)
  PROVE  KephInv'
<1> DEFINE o == docOp[m]
<1>1. PICK cancelled \in BOOLEAN : docOp' = [docOp EXCEPT ![m] = OutcomeOpen(o, cancelled)]
  BY DEF StopWaiting, Set
<1>2. Active(o) /\ Types /\ Calls /\ Operations /\ HubStands /\ UNCHANGED <<replica, underway>>
  BY DEF StopWaiting, Active, KephInv
<1>3. \A new : docOp' = [docOp EXCEPT ![m] = new] => Handling(m, new)
  BY <1>2 DEF Handling
<1>4. CASE OutcomeOpen(o, cancelled) = Failed(o, "unknown")
  BY <1>1, <1>3, <1>4, HandlingFails
<1>5. CASE OutcomeOpen(o, cancelled) = [o EXCEPT !.step = "repeat"]
  <2> DEFINE new == [o EXCEPT !.step = "repeat"]
  <2>1. o \in DocOp /\ o.call \in Nat /\ o.step # "idle"
    BY <1>2, ActiveFacts
  <2>2. /\ new.step = "repeat" /\ new.call = o.call /\ new.n = o.n
        /\ new.kind = o.kind /\ new.name = o.name /\ new.req = o.req /\ new.result = o.result
    BY <2>1 DEF DocOp
  <2>3. docOp' = [docOp EXCEPT ![m] = new]
    BY <1>1, <1>5
  <2> HIDE DEF new
  <2>4. Handling(m, new)
    BY <1>3, <2>3
  <2>5. Becoming(m, new) /\ Active(new)
    BY <2>1, <2>2, <2>3 DEF Becoming, Active
  <2>6. Calls' /\ Running(m)' /\ Sent(m)' /\ Progress(m)'
    BY <2>2, <2>4, HandlingFacts, <1>2, <2>1, <2>5, OwnGoesOn
  <2> QED BY <2>2, <2>4, <2>6, HandlingKeeps
<1> QED BY <1>4, <1>5 DEF OutcomeOpen

\* The only attempt was not sent, or the node sent it nowhere: no call is left.
LEMMA NoneLeft ==
  ASSUME KephInv, NEW m \in Machine, Handling(m, Failed(docOp[m], "unavailable")),
         \A q \in underway' : q \in underway /\ q.req.id # docOp[m].req.id
  PROVE  NoneLive(m)'
<1> DEFINE o == docOp[m]  r == o.req  new == Failed(o, "unavailable")
<1>1. Types /\ Calls /\ Operations /\ Active(o) /\ HubStands /\ docOp' = [docOp EXCEPT ![m] = new]
      /\ docOp \in [Machine -> DocOp]
  BY DEF KephInv, Handling, Types, KephTypeOK
<1>2. o \in DocOp /\ r.id = [change |-> ChangeOf(m), call |-> o.call] /\ ChangeOf(m)[1] = m
  BY <1>1, ActiveFacts
<1>3. new.step = "idle" /\ new.n = o.n
  BY <1>2, EndIs DEF Failed
<1> HIDE DEF new
<1>4. ChangeOf(m)' = ChangeOf(m)
  BY <1>1, <1>3 DEF ChangeOf
<1>5. SUFFICES ASSUME NEW s \in Known', Own(s) = ChangeOf(m), Live(s)' PROVE FALSE
  BY <1>4 DEF NoneLive
<1>6. PICK q \in underway' : s = q.req
  <2>1. ASSUME NEW p \in Machine, Active(docOp'[p]), s = docOp'[p].req PROVE FALSE
    <3>1. p # m
      BY <1>1, <1>3, <2>1 DEF Active
    <3>2. docOp'[p] = docOp[p]
      BY <1>1, <3>1
    <3>3. Own(s) = ChangeOf(p) /\ ChangeOf(p)[1] = p
      BY <1>1, <2>1, <3>2, ActiveFacts
    <3> QED BY <1>2, <1>5, <3>1, <3>3
  <2> QED BY <1>5, <2>1 DEF Known
<1>7. q \in underway /\ s \in Known /\ s \in StoreCall
  BY <1>1, <1>6, KnownTyped
<1>8. Live(s)
  BY <1>1, <1>5 DEF Live, HubStands
<1>9. s.id.call = o.call
  BY <1>1, <1>5, <1>7, <1>8 DEF Operations, Sent
<1>10. s.id = r.id
  BY <1>2, <1>5, <1>7, <1>9, CallFields
<1> QED BY <1>6, <1>10

\* An attempt is not sent, or refused by the node.
LEMMA NotSentKeeps ==
  ASSUME KephInv, Types', NEW m \in Machine, NotSent(m) \/ NodeRefuses(m)
  PROVE  KephInv'
<1> DEFINE o == docOp[m]  r == o.req
<1>1. Active(o) /\ Types /\ Calls /\ Operations /\ HubStands /\ UNCHANGED replica
      /\ docOp' = [docOp EXCEPT ![m] = OutcomeNotSent(o)] /\ underway' \subseteq underway
  BY DEF NotSent, NodeRefuses, Active, KephInv, Set
<1>2. Handling(m, OutcomeNotSent(o))
  BY <1>1 DEF Handling
<1>3. Sent(m)
  BY <1>1 DEF Operations
<1>4. CASE Repeats(o)
  BY <1>2, <1>4, HandlingFails DEF OutcomeNotSent
<1>5. CASE ~Repeats(o)
  <2>1. Handling(m, Failed(o, "unavailable"))
    BY <1>2, <1>5 DEF OutcomeNotSent
  <2>2. o.step \in {"send", "wait"}
    BY <1>1, <1>5 DEF Repeats, Active
  <2>3. r.id \notin DOMAIN executed
    BY <1>3, <2>2 DEF Sent
  <2>4. \A q \in underway' : q.req.id # r.id
    <3>1. CASE o.step = "send"
      BY <1>1, <1>3, <3>1 DEF Sent
    <3>2. CASE o.step = "wait"
      <4>1. PICK q \in underway : Mine(m, q) /\ underway' = underway \ {q}
        BY <3>2 DEF NotSent, NodeRefuses
      <4>2. q.req.id = r.id /\ ~q.again
        BY <1>3, <3>2, <4>1 DEF Mine, RequestOf, Sent
      <4>3. ASSUME NEW p \in underway, p.req.id = r.id PROVE p = q
        BY <1>3, <3>2, <4>3, <1>1, <4>2, KnownTyped DEF Sent, Calls, Types, KephTypeOK, Attempt
      <4> QED BY <4>1, <4>3
    <3> QED BY <2>2, <3>1, <3>2
  <2>5. NoneLive(m)'
    BY <1>1, <2>1, <2>4, NoneLeft
  <2> QED BY <1>2, <1>5, <2>3, <2>5, HandlingFails DEF OutcomeNotSent
<1> QED BY <1>4, <1>5

(***************************************************************************)
(* The hub takes an attempt: what every case has in common.                *)
(***************************************************************************)
Takes(q) ==
  /\ underway' = underway \ {q}
  /\ HubReplays(q) \/ HubRefuses(q) \/ HubExecutes(q)

LEMMA TakesPreserves ==
  ASSUME Types, Calls, NEW q \in underway, Takes(q)
  PROVE  /\ Preserves /\ Overtaken \subseteq Overtaken' /\ DOMAIN executed \subseteq DOMAIN executed'
         /\ refused' \subseteq refused \cup {q.req.id} /\ DOMAIN executed' \subseteq DOMAIN executed \cup {q.req.id}
         /\ \A c \in Change : c # Own(q.req) => home'[c] = home[c]
         /\ \A c \in Change : home[c] # 0 => home'[c] = home[c]
         /\ \A s \in underway' : s \in underway
  BY StandsPreserves, RefusesPreserves, ExecutesPreserves, ExecutingStep DEF HubReplays, HubStands, Takes, HubRefuses, Executing

\* The operation an attempt belongs to.
LEMMA OwnerIs ==
  ASSUME Types, NEW q \in underway
  PROVE  /\ Owner(q) \in Machine /\ Owner(q) = Own(q.req)[1] /\ q.req \in StoreCall /\ q.req \in Known
         /\ q.req.id.change = Own(q.req) /\ Own(q.req) \in Change
BY KnownTyped, CallFields DEF Owner, Own

\* An attempt concerns its owner alone.
LEMMA TakesApart ==
  ASSUME Types, Calls, NEW q \in underway, Takes(q), NEW p \in Machine, p # Owner(q), docOp'[p] = docOp[p],
         \A s \in Known' : s \in Known \/ Own(s)[1] = Owner(q)
  PROVE  Apart(p)
  BY OwnerIs, TakesPreserves DEF Apart

\* Nobody waits for the answer: no operation changes.
LEMMA LateCalls ==
  ASSUME Types, Types', Calls, NEW q \in underway, Takes(q), docOp' = docOp
  PROVE  Calls' /\ Known' \subseteq Known
  BY TakesPreserves, CallsStep DEF Known, Issued, Begun

\* What comes late is not the only attempt of the call an operation has.
LEMMA LateIsNot ==
  ASSUME Types, Calls, Operations, NEW q \in underway, NEW m \in Machine, ~Mine(m, q),
         docOp[m].step \in {"send", "wait"}
  PROVE  q.req.id # docOp[m].req.id
BY DEF Operations, Sent, Mine, RequestOf

\* A late execution makes the change of an operation that does not deny it.
LEMMA LateExecutionProgress ==
  ASSUME Types, Calls, Operations, NEW q \in underway, Takes(q), HubExecutes(q), docOp' = docOp,
         NEW m \in Machine, m = Owner(q)
  PROVE  Progress(m)'
<1> DEFINE o == docOp[m]  r == o.req  e == q.req
<1>1. Running(m) /\ Sent(m) /\ Progress(m)
  BY DEF Operations
<1>2. ChangeOf(m)' = ChangeOf(m)
  BY DEF ChangeOf
<1>3. Executing(q) /\ DOMAIN executed \subseteq DOMAIN executed' /\ Overtaken \subseteq Overtaken'
  BY ExecutingStep, TakesPreserves
<1>4. o.step # "idle" \/ o.result # "none" => ChangeOf(m) \in Change
  BY OpFields
<1>5. e \in Known /\ e \in StoreCall /\ Shape(e) /\ Issued(e.id)
  BY OwnerIs DEF Calls, CallOK
<1>6. CASE ~(Makes(e) /\ Own(e) = ChangeOf(m))
  BY <1>2, <1>3, <1>4, <1>6, <1>1 DEF Unmade, Untouched, Executing, Progress, Active, Denied, ErrorCode
<1>7. CASE Makes(e) /\ Own(e) = ChangeOf(m) /\ Live(e)
  <2>1. o.step # "read" /\ o.result \notin Denied
    BY <1>1, <1>5, <1>7 DEF Sent, NoneLive
  <2>2. e.id.call = o.call
    BY <1>1, <1>5, <1>7 DEF Sent
  <2>3. Active(o) => r = e
    <3> SUFFICES ASSUME Active(o) PROVE r = e
      OBVIOUS
    <3>1. r \in Known /\ r.id = [change |-> ChangeOf(m), call |-> o.call]
      BY ActiveFacts
    <3>2. r.id = e.id
      BY <1>5, <1>7, <2>2, <3>1, CallFields
    <3> QED BY <1>5, <3>1, <3>2 DEF Calls
  <2>4. e.id \in DOMAIN executed'
    BY <1>3 DEF Executing
  <2>5. Active(o) => r.tool \in {"create", "write"} /\ o.kind \notin {"move", "delete"}
    BY ActiveFacts, <1>5, <1>7, <2>3 DEF Shape, Makes
  <2>6. ~Unmade(m) => ~Unmade(m)'
    BY <1>2, <1>5, <1>3, <1>7, OwnerIs DEF Unmade, Executing
  <2> QED BY <1>1, <2>1, <2>3, <2>4, <2>5, <2>6 DEF Progress
<1>8. CASE Makes(e) /\ Own(e) = ChangeOf(m) /\ ~Live(e)
  <2>1. e.tool = "create" /\ e.id \in refused
    BY <1>8, MadeNow DEF Makes, Live, HubExecutes
  <2>2. ChangeOf(m) \in Overtaken' /\ Untouched(m)'
    BY <1>2, <1>3, <1>8, <2>1 DEF Executing, Untouched
  <2>3. o.kind = "create"
    BY <1>1, <1>5, <1>8, <2>1 DEF Sent, Shape
  <2>4. o.step # "read"
    <3> SUFFICES ASSUME o.step = "read" PROVE FALSE
      OBVIOUS
    <3>1. o.call = 0
      BY <1>1, <2>3 DEF Running
    <3>2. e.id.change[1] = m /\ e.id.change[2] = o.n
      BY <1>8 DEF Own, ChangeOf
    <3>3. e.id.call \in Nat
      BY <1>5, CallFields
    <3> QED BY <1>5, <3>1, <3>2, <3>3 DEF Issued
  <2>5. Active(o) => r.tool = "create"
    BY ActiveFacts, <2>3 DEF CallOK, Shape, StoreCall
  <2>6. ~Unmade(m) => ~Unmade(m)'
    BY <1>2, <1>5, <1>3, <1>8, OwnerIs DEF Unmade, Executing
  <2> QED BY <1>1, <2>2, <2>3, <2>4, <2>5, <2>6 DEF Progress
<1> QED BY <1>6, <1>7, <1>8

\* An answer nobody waits for says nothing about the calls of the operation.
LEMMA LateSent ==
  ASSUME Types, Types', Calls, Operations, NEW q \in underway, Takes(q), docOp' = docOp,
         NEW m \in Machine, m = Owner(q), ~Mine(m, q)
  PROVE  Running(m)' /\ Sent(m)'
<1> DEFINE o == docOp[m]  r == o.req
<1>1. Running(m) /\ Sent(m)
  BY DEF Operations
<1>2. ChangeOf(m)' = ChangeOf(m)
  BY DEF ChangeOf
<1>3. Known' \subseteq Known
  BY LateCalls
<1>4. /\ Preserves /\ refused' \subseteq refused \cup {q.req.id}
      /\ DOMAIN executed' \subseteq DOMAIN executed \cup {q.req.id}
      /\ \A s \in underway' : s \in underway
  BY TakesPreserves
<1>5. Running(m)'
  BY <1>1, <1>2 DEF Running
<1>6. o.step \in {"send", "wait"} => r.id \notin DOMAIN executed' /\ r.id \notin refused'
  BY <1>1, <1>4, LateIsNot DEF Sent
<1>7. \A s \in Known' : s \in Known /\ (Live(s)' => Live(s))
  BY <1>3, <1>4 DEF Preserves
<1>8. NoneLive(m) => NoneLive(m)'
  BY <1>2, <1>7 DEF NoneLive
<1>9. Sent(m)'
  BY <1>1, <1>2, <1>4, <1>6, <1>7, <1>8 DEF Sent
<1> QED BY <1>5, <1>9

LEMMA ExecutedStore ==
  ASSUME Types, Store, Calls, NEW q \in underway, HubExecutes(q)
  PROVE  Store'
BY ExecutedHubSound, ExecutedReplicaSound, ExecutedSplit, ExecutedKept DEF Store

LEMMA TakesStore ==
  ASSUME Types, Store, Calls, NEW q \in underway, Takes(q)
  PROVE  Store'
  BY StoreStands, RefusesPreserves, ExecutedStore DEF HubReplays, HubStands, Overtaken, HubRefuses, Takes

\* An attempt the hub takes while nobody waits for the answer.
LEMMA LateKeeps ==
  ASSUME KephInv, Types', NEW q \in underway, Takes(q), docOp' = docOp, ~Mine(Owner(q), q)
  PROVE  KephInv'
<1>1. Types /\ Store /\ Calls /\ Operations
  BY DEF KephInv
<1>2. Preserves /\ Calls' /\ Known' \subseteq Known
  BY <1>1, TakesPreserves, LateCalls
<1>3. ASSUME NEW p \in Machine, p # Owner(q) PROVE Running(p)' /\ Sent(p)' /\ Progress(p)'
  BY <1>1, <1>2, <1>3, TakesApart, Bystander
<1> DEFINE m == Owner(q)
<1>4. m \in Machine
  BY <1>1, OwnerIs
<1> HIDE DEF m
<1>5. Running(m)' /\ Sent(m)'
  BY <1>1, <1>4, LateSent DEF m
<1>6. Progress(m)'
  <2>1. CASE HubExecutes(q)
    BY <1>1, <1>4, <2>1, LateExecutionProgress DEF m
  <2>2. CASE HubReplays(q) \/ HubRefuses(q)
    BY <1>1, <2>2, RefusesPreserves, <1>4 DEF HubReplays, HubRefuses, HubStands, Overtaken, Operations, Progress, Unmade,
       Untouched, ChangeOf
  <2> QED BY <2>1, <2>2 DEF Takes
<1>7. Operations'
  BY <1>3, <1>4, <1>5, <1>6 DEF Operations, m
<1>8. Store'
  BY <1>1, TakesStore
<1> QED BY <1>2, <1>7, <1>8 DEF KephInv

(***************************************************************************)
(* The hub's answer reaches the operation that waits for it.               *)
(***************************************************************************)
LEMMA MineIs ==
  ASSUME Types, Calls, Operations, NEW q \in underway, Mine(Owner(q), q)
  PROVE  Owner(q) \in Machine /\ Active(docOp[Owner(q)]) /\ docOp[Owner(q)].req = q.req
<1> DEFINE m == Owner(q)
<1>1. m \in Machine /\ q.req \in Known
  BY OwnerIs
<1>2. Active(docOp[m]) /\ q.req.id = docOp[m].req.id
  BY DEF Mine, RequestOf, Active
<1>3. docOp[m].req \in Known
  BY <1>1, <1>2, ActiveFacts
<1> QED BY <1>1, <1>2, <1>3 DEF Calls

\* The call the hub executed or refused was the last that could have an effect.
LEMMA NoneLiveAfter ==
  ASSUME Types, Calls, Operations, Preserves, NEW m \in Machine, Active(docOp[m]),
         NEW r, r = docOp[m].req, ~Live(r)'
  PROVE  \A s \in Known : Own(s) = ChangeOf(m) => ~Live(s)'
<1> DEFINE o == docOp[m]
<1>1. SUFFICES ASSUME NEW s \in Known, Own(s) = ChangeOf(m), Live(s)' PROVE FALSE
  OBVIOUS
<1>2. Live(s) /\ Sent(m) /\ s \in StoreCall
  BY <1>1, KnownTyped DEF Preserves, Operations
<1>3. s.id.call = o.call
  BY <1>1, <1>2 DEF Sent
<1>4. r \in Known /\ r.id = [change |-> ChangeOf(m), call |-> o.call]
  BY ActiveFacts
<1>5. s.id = r.id
  BY <1>1, <1>2, <1>3, <1>4, CallFields
<1>6. s = r
  BY <1>4, <1>5 DEF Calls
<1> QED BY <1>1, <1>6

\* The facts on which the answer ok builds.
Confirmed(m, r) ==
  /\ r.id \in DOMAIN executed'
  /\ Makes(r) => home'[ChangeOf(m)] # 0
  /\ home[ChangeOf(m)] # 0 => home'[ChangeOf(m)] # 0
  /\ ~Makes(r) => home'[ChangeOf(m)] = home[ChangeOf(m)]

\* The operation reports success.
LEMMA ConfirmedEnds ==
  ASSUME Types, Types', Calls, Operations, Preserves, NEW m \in Machine, Active(docOp[m]), NEW rev, NEW new,
         Confirmed(m, docOp[m].req), \A q \in underway' : q \in underway,
         docOp' = [docOp EXCEPT ![m] = new], new = [End(docOp[m], "ok") EXCEPT !.known = rev],
         ~(docOp[m].kind = "done" /\ docOp[m].req.tool = "write"),
         ~(docOp[m].kind = "reopen" /\ docOp[m].req.tool = "rename")
  PROVE  Calls' /\ Running(m)' /\ Sent(m)' /\ Progress(m)' /\ (Active(new) => Own(new.req)[1] = m)
<1> DEFINE o == docOp[m]  r == o.req
<1>1. o \in DocOp /\ o.n \in Nat /\ o.call \in Nat /\ Shape(r) /\ r.kind = o.kind /\ r \in StoreCall
  BY ActiveFacts DEF CallOK
<1>2. /\ new.step = "idle" /\ new.call = o.call /\ new.n = o.n /\ new.kind = o.kind /\ new.result = "ok"
  BY <1>1 DEF End, DocOp
<1>3. ~Active(new)
  BY <1>2 DEF Active
<1>4. Becoming(m, new) /\ ChangeOf(m)' = ChangeOf(m)
  BY <1>1, <1>2 DEF Becoming, ChangeOf, Types, KephTypeOK
<1>5. Known' \subseteq Known
  BY <1>3, KnownStep, KnownTyped
<1>6. Changes(o) => Makes(r) \/ ~Unmade(m)
  BY <1>1 DEF Changes, Makes, Shape, StoreCall, Operations, Progress
<1>7. Changes(new) => ~Unmade(m)'
  BY <1>2, <1>4, <1>6 DEF Changes, Unmade, Confirmed
<1>8. "ok" \notin Denied /\ "ok" # "half"
  BY DEF Denied, ErrorCode
<1> QED BY <1>2, <1>3, <1>4, <1>5, <1>7, <1>8, OwnEnd

\* A todo is marked done, then moved; or moved, then written.
LEMMA ConfirmedGoesOn ==
  ASSUME Types, Types', Calls, Operations, Preserves, NEW m \in Machine, Active(docOp[m]), NEW new,
         NEW r, r = docOp[m].req, Confirmed(m, r), \A q \in underway' : q \in underway,
         docOp' = [docOp EXCEPT ![m] = new],
         \/ /\ docOp[m].kind = "done" /\ r.tool = "write"
            /\ new = Call(m, docOp[m], "rename", docOp[m].name, Moved(docOp[m].name, "done"), <<>>, 0)
         \/ /\ docOp[m].kind = "reopen" /\ r.tool = "rename"
            /\ new = Call(m, docOp[m], "write", r.to, r.to, r.text,
                          executed'[r.id])
  PROVE  Calls' /\ Running(m)' /\ Sent(m)' /\ Progress(m)' /\ (Active(new) => Own(new.req)[1] = m)
<1> DEFINE o == docOp[m]  rev == executed'[r.id]
<1>1. /\ o \in DocOp /\ o.n \in Nat /\ o.n > 0 /\ o.call \in Nat /\ o.name \in DocName /\ o.result = "none"
      /\ o.step # "idle" /\ r \in StoreCall /\ r \in Known /\ r.kind = o.kind /\ Own(r) = ChangeOf(m)
      /\ ChangeOf(m) = <<m, o.n>> /\ ChangeOf(m)[1] = m
  BY ActiveFacts
<1>2. Shape(r)' /\ Ready(r)' /\ Running(m) /\ Progress(m)
  BY <1>1 DEF Preserves, Operations
<1>3. rev \in 1..clock' /\ rev \in Nat
  BY DEF Confirmed, Types, KephTypeOK
<1>4. PICK tool \in {"write", "rename"}, name \in DocName, to \in DocName, text \in Seq(Change), base \in Nat :
        /\ new = Call(m, o, tool, name, to, text, base)
        /\ \/ /\ o.kind = "done" /\ r.tool = "write" /\ tool = "rename" /\ name = o.name
              /\ to = Moved(o.name, "done") /\ base = 0
           \/ /\ o.kind = "reopen" /\ r.tool = "rename" /\ tool = "write" /\ name = r.to /\ to = r.to
              /\ text = r.text /\ base = rev
  <2>1. CASE o.kind = "done" /\ r.tool = "write"
    <3>1. Moved(o.name, "done") \in DocName /\ <<>> \in Seq(Change) /\ 0 \in Nat
      BY <1>1 DEF Moved, DocName, Area
    <3> QED BY <1>1, <2>1, <3>1
  <2>2. CASE o.kind = "reopen" /\ r.tool = "rename"
    BY <1>1, CallFields, <1>3, <2>2
  <2> QED BY <2>1, <2>2
<1>5. IsCall(new, m, o, tool, name, to, text, base)
  BY <1>1, <1>4, CallIs
<1>6. tool \in {"create", "write", "rename", "delete"}
  OBVIOUS
<1>7. Typed(new, o.n)
  BY <1>1, <1>4, <1>6, CallTyped
<1> DEFINE c == new.req
<1>8. /\ new.step = "send" /\ new.call = o.call + 1 /\ new.n = o.n /\ new.kind = o.kind /\ new.name = o.name
      /\ new.result = "none"
      /\ c.id = [change |-> ChangeOf(m), call |-> new.call] /\ c.kind = o.kind /\ c.tool = tool /\ c.name = name
      /\ c.to = to /\ c.text = text /\ c.base = base /\ Own(c) = ChangeOf(m)
  BY <1>1, <1>5 DEF IsCall
<1>9. c \in StoreCall
  BY <1>7, <1>8 DEF Typed, Active
<1>10. Becoming(m, new) /\ docOp'[m] = new /\ ChangeOf(m)' = ChangeOf(m)
  BY <1>1, <1>8 DEF Becoming, ChangeOf, Types, KephTypeOK
<1> HIDE DEF c
<1>11. \A s \in Known' : s \in Known \/ s = c
  BY KnownStep, KnownTyped DEF c
<1>12. \A s \in Known : Own(s) = ChangeOf(m) => ~Live(s)'
  <2>1. ~Live(r)'
    BY DEF Live, Confirmed
  <2> QED BY <2>1, NoneLiveAfter
<1>13. c.id \notin DOMAIN executed'
  <2>1. ~Issued(c.id)
    BY <1>1, <1>8 DEF Issued
  <2> QED BY <2>1 DEF Preserves
<1>14. CASE o.kind = "done" /\ r.tool = "write"
  <2>1. tool = "rename" /\ name = o.name /\ to = Moved(o.name, "done") /\ base = 0
    BY <1>4, <1>14
  <2>2. o.name[2] = "open" /\ to[1] = name[1] /\ to[2] = "done"
    BY <1>1, <1>2, <1>14, <2>1 DEF Running, Moved
  <2>3. Shape(c)'
    BY <1>8, <1>14, <2>1, <2>2 DEF Shape
  <2>4. Ready(c)'
    BY <1>8, <1>14, <2>1 DEF Ready, Makes, Live
  <2>5. ~Unmade(m)'
    BY <1>10, <1>14 DEF Unmade, Confirmed, Makes
  <2>6. Calls' /\ Running(m)' /\ Sent(m)' /\ Progress(m)'
    BY <1>1, <1>8, <1>9, <1>10, <1>11, <1>12, <1>14, <2>1, <2>3, <2>4, <2>5, OwnCall DEF c
  <2> QED BY <1>1, <1>8, <2>6 DEF c
<1>15. CASE o.kind = "reopen" /\ r.tool = "rename"
  <2>1. tool = "write" /\ name = r.to /\ to = r.to /\ base = rev /\ text = r.text
    BY <1>4, <1>15
  <2>2. Carries(r)' /\ r.to[1] = r.name[1] /\ r.name[2] = "done" /\ r.to[2] = "open"
    BY <1>1, <1>2, <1>15 DEF Shape
  <2>3. Carries(c)'
    BY <1>1, <1>8, <2>1, <2>2 DEF Carries
  <2>4. Shape(c)'
    BY <1>3, <1>8, <1>15, <2>1, <2>2, <2>3 DEF Shape
  <2>5. r.name = <<r.to[1], "done">>
    BY <1>1, <2>2, CallFields
  <2>6. Unmade(m)'
    BY <1>2, <1>10, <1>15 DEF Progress, Unmade, Confirmed, Makes
  <2>7. hub'[c.name].rev = c.base => hub'[<<c.name[1], "done">>].rev = 0
    BY <1>1, <1>2, <1>8, <1>15, <2>1, <2>5 DEF Ready, Confirmed
  <2>8. Ready(c)'
    BY <1>8, <1>10, <1>13, <1>15, <2>1, <2>6, <2>7 DEF Ready, Makes, Unmade
  <2>9. Calls' /\ Running(m)' /\ Sent(m)' /\ Progress(m)'
    BY <1>1, <1>8, <1>9, <1>10, <1>11, <1>12, <1>15, <2>1, <2>4, <2>6, <2>8, OwnCall DEF c
  <2> QED BY <1>1, <1>8, <2>9 DEF c
<1> QED BY <1>14, <1>15

LEMMA AfterDoneEnds ==
  ASSUME NEW m, NEW o, NEW rev,
         ~(o.kind = "done" /\ o.req.tool = "write"), ~(o.kind = "reopen" /\ o.req.tool = "rename")
  PROVE  AfterDone(m, o, rev) = [End(o, "ok") EXCEPT !.known = rev]
BY Zenon DEF AfterDone

LEMMA ConfirmedStep ==
  ASSUME Types, Types', Calls, Operations, Preserves, NEW m \in Machine, Active(docOp[m]),
         Confirmed(m, docOp[m].req), \A q \in underway' : q \in underway,
         NEW new, new = AfterDone(m, docOp[m], executed'[docOp[m].req.id]), docOp' = [docOp EXCEPT ![m] = new]
  PROVE  Calls' /\ Running(m)' /\ Sent(m)' /\ Progress(m)' /\ (Active(new) => Own(new.req)[1] = m)
<1> DEFINE o == docOp[m]  r == o.req
<1>1. PICK rev : rev = executed'[r.id]
  OBVIOUS
<1>2. CASE o.kind = "done" /\ r.tool = "write"
  BY <1>2, ConfirmedGoesOn DEF AfterDone
<1>3. CASE o.kind = "reopen" /\ r.tool = "rename"
  BY <1>1, <1>3, ConfirmedGoesOn DEF AfterDone
<1>4. CASE ~(o.kind = "done" /\ r.tool = "write") /\ ~(o.kind = "reopen" /\ r.tool = "rename")
  <2>1. new = [End(o, "ok") EXCEPT !.known = rev]
    BY <1>1, <1>4, AfterDoneEnds
  <2> QED BY <1>4, <2>1, ConfirmedEnds
<1> QED BY <1>2, <1>3, <1>4

\* A step of the hub whose answer reaches the operation of the owner.
LEMMA TakesKeeps ==
  ASSUME KephInv, Types', NEW q \in underway, Takes(q), NEW m \in Machine, m = Owner(q), NEW new,
         docOp' = [docOp EXCEPT ![m] = new], Calls' /\ Running(m)' /\ Sent(m)' /\ Progress(m)',
         Active(new) => Own(new.req)[1] = m
  PROVE  KephInv'
<1>1. Types /\ Store /\ Calls /\ Operations
  BY DEF KephInv
<1>2. Preserves /\ \A s \in underway' : s \in underway
  BY <1>1, TakesPreserves
<1>3. \A s \in Known' : s \in Known \/ Own(s)[1] = Owner(q)
  BY <1>1, <1>2, KnownStep, KnownTyped
<1>4. ASSUME NEW p \in Machine, p # m PROVE Running(p)' /\ Sent(p)' /\ Progress(p)'
  BY <1>1, <1>4, <1>3, TakesApart, <1>2, Bystander DEF Types, KephTypeOK
<1>5. Operations'
  BY <1>4 DEF Operations
<1>6. Store'
  BY <1>1, TakesStore
<1> QED BY <1>5, <1>6 DEF KephInv

\* The hub executes or replays, and the operation gets the answer.
LEMMA ConfirmedKeeps ==
  ASSUME KephInv, Types', NEW q \in underway, Takes(q), Mine(Owner(q), q), HubReplays(q) \/ HubExecutes(q)
  PROVE  KephInv'
<1>1. Types /\ Store /\ Calls /\ Operations
  BY DEF KephInv
<1>2. PICK m \in Machine : m = Owner(q) /\ Active(docOp[m]) /\ docOp[m].req = q.req
  BY <1>1, MineIs
<1> DEFINE r == docOp[m].req
<1>3. r.id \in DOMAIN executed' /\ docOp' = [docOp EXCEPT ![m] = AfterDone(m, docOp[m], executed'[r.id])]
  <2>1. CASE HubReplays(q)
    BY <1>2, <2>1 DEF HubReplays, Answer, HubStands
  <2>2. CASE HubExecutes(q)
    BY <1>1, <1>2, <2>2, ExecutingStep DEF Executing, HubExecutes, Answer
  <2> QED BY <2>1, <2>2
<1>4. Own(r) = ChangeOf(m) /\ ChangeOf(m) \in Change /\ CallOK(r) /\ r \in Known
  BY <1>1, <1>2, ActiveFacts
<1>5. Confirmed(m, r)
  <2>1. home[ChangeOf(m)] # 0 => home'[ChangeOf(m)] # 0
    BY <1>1, <1>4, TakesPreserves
  <2>2. ~Makes(r) => home'[ChangeOf(m)] = home[ChangeOf(m)]
    BY <1>1, <1>2, <1>4, ExecutingStep DEF HubReplays, HubStands, Executing
  <2>3. Makes(r) => home'[ChangeOf(m)] # 0
    <3>1. CASE HubReplays(q)
      BY <1>2, <3>1, <1>4, <2>1 DEF HubReplays, CallOK, Ready
    <3>2. CASE HubExecutes(q)
      BY <1>1, <1>2, <1>4, <3>2, MadeNow DEF At
    <3> QED BY <3>1, <3>2
  <2> QED BY <1>3, <2>1, <2>2, <2>3 DEF Confirmed
<1>6. Preserves /\ \A s \in underway' : s \in underway
  BY <1>1, TakesPreserves
<1>7. PICK new : new = AfterDone(m, docOp[m], executed'[r.id])
  OBVIOUS
<1>8. docOp' = [docOp EXCEPT ![m] = new]
  BY <1>3, <1>7
<1>9. Calls' /\ Running(m)' /\ Sent(m)' /\ Progress(m)' /\ (Active(new) => Own(new.req)[1] = m)
  BY <1>1, <1>2, <1>5, <1>6, <1>7, <1>8, ConfirmedStep
<1> QED BY <1>2, <1>8, <1>9, TakesKeeps

\* The call that was refused.
Denies(m, r, code) ==
  /\ code = Refusal(r) /\ code \in ErrorCode /\ r.id \notin DOMAIN executed
  /\ \A s \in Known : Own(s) = ChangeOf(m) => ~Live(s)'
  /\ home' = home /\ Overtaken' = Overtaken /\ executed' = executed

\* A refusal leaves no live call.
LEMMA DeniesIs ==
  ASSUME Types, Calls, Operations, NEW q \in underway, Takes(q), HubRefuses(q), NEW m \in Machine,
         Active(docOp[m]), NEW r, r = docOp[m].req, r = q.req
  PROVE  Denies(m, r, Refusal(r))
<1>1. r \in Known /\ r \in StoreCall /\ Shape(r) /\ r.name \in DocName
  BY ActiveFacts, CallFields DEF CallOK
<1>2. /\ r.id \notin DOMAIN executed /\ Refusal(r) # "none" /\ UNCHANGED <<hub, executed, home>>
      /\ refused' = IF r.tool = "create" THEN refused \cup {r.id} ELSE refused
  BY DEF HubRefuses
<1>3. Refusal(r) \in ErrorCode
  BY <1>2 DEF Refusal, ErrorCode
<1>4. ~Live(r)'
  <2>1. r.tool = "create" => r.id \in refused'
    BY <1>2
  <2>2. r.tool = "write" => hub[r.name].rev # r.base
    BY <1>1, DocFields, <1>2 DEF Refusal, Shape
  <2> QED BY <1>2, <2>1, <2>2 DEF Live
<1>5. Preserves /\ Overtaken' = Overtaken
  BY RefusesPreserves, TakesPreserves
<1>6. \A s \in Known : Own(s) = ChangeOf(m) => ~Live(s)'
  BY <1>4, <1>5, NoneLiveAfter
<1> QED BY <1>2, <1>3, <1>5, <1>6 DEF Denies

\* The operation passes the refusal on.
LEMMA RefusedEnds ==
  ASSUME Types, Types', Calls, Operations, Preserves, NEW m \in Machine, Active(docOp[m]),
         NEW code, Denies(m, docOp[m].req, code), \A q \in underway' : q \in underway, NEW new,
         docOp' = [docOp EXCEPT ![m] = new],
         \/ new = Failed(docOp[m], code)
         \/ new = End(docOp[m], "foreign_change") /\ docOp[m].kind = "edit"
         \/ new = End(docOp[m], "invalid_input") /\ docOp[m].kind = "create"
  PROVE  Calls' /\ Running(m)' /\ Sent(m)' /\ Progress(m)' /\ ~Active(new)
<1> DEFINE o == docOp[m]
<1>1. o \in DocOp /\ o.n \in Nat /\ o.call \in Nat
  BY ActiveFacts
<1>2. new.step = "idle" /\ new.n = o.n /\ new.call = o.call /\ new.kind = o.kind
  BY <1>1, EndIs, FailedIs
<1>3. ~Active(new)
  BY <1>2 DEF Active
<1>4. Known' \subseteq Known
  BY <1>3, KnownStep, KnownTyped
<1>5. ChangeOf(m)' = ChangeOf(m) /\ Becoming(m, new)
  BY <1>1, <1>2 DEF ChangeOf, Becoming, Types, KephTypeOK
<1>6. NoneLive(m)' /\ home' = home /\ Overtaken' = Overtaken /\ o.req.id \notin DOMAIN executed /\ code \in ErrorCode
  BY <1>4, <1>5 DEF Denies, NoneLive
<1>7. CASE new = Failed(o, code)
  BY <1>3, <1>4, <1>6, <1>7, FailedOwn
<1>8. CASE new = End(o, "foreign_change") /\ o.kind = "edit"
  BY <1>3, <1>4, <1>6, <1>8, FailedOwn
<1>9. CASE new = End(o, "invalid_input") /\ o.kind = "create"
  <2>1. new.result = "invalid_input"
    BY <1>1, <1>9, EndIs
  <2>2. Untouched(m)'
    BY <1>5, <1>6, <1>9, NotYetMade DEF Untouched, Unmade
  <2> QED BY <1>2, <1>3, <1>4, <1>5, <1>6, <2>1, <2>2, OwnEnd
<1> QED BY <1>7, <1>8, <1>9

\* An edit without since_revision is read again.
LEMMA RefusedReads ==
  ASSUME Types, Types', Calls, Operations, Preserves, NEW m \in Machine, Active(docOp[m]),
         NEW code, Denies(m, docOp[m].req, code), \A q \in underway' : q \in underway, NEW new,
         docOp' = [docOp EXCEPT ![m] = new], docOp[m].kind = "edit",
         new = [docOp[m] EXCEPT !.step = "read", !.retries = @ + 1]
  PROVE  Calls' /\ Running(m)' /\ Sent(m)' /\ Progress(m)' /\ ~Active(new)
<1> DEFINE o == docOp[m]
<1>1. o \in DocOp /\ o.n \in Nat /\ o.call \in Nat /\ o.step # "idle" /\ o.req.kind = o.kind /\ Shape(o.req)
      /\ o.req \in StoreCall
  BY ActiveFacts DEF CallOK
<1>2. /\ new.step = "read" /\ new.n = o.n /\ new.call = o.call /\ new.kind = o.kind /\ new.name = o.name
      /\ new.req = o.req /\ new.result = o.result
  BY <1>1 DEF DocOp
<1>3. ~Active(new)
  BY <1>2 DEF Active
<1>4. Known' \subseteq Known
  BY <1>3, KnownStep, KnownTyped
<1>5. ChangeOf(m)' = ChangeOf(m) /\ Becoming(m, new)
  BY <1>1, <1>2 DEF ChangeOf, Becoming, Types, KephTypeOK
<1>6. NoneLive(m)' /\ home' = home /\ Overtaken' = Overtaken /\ executed' = executed
  BY <1>4, <1>5 DEF Denies, NoneLive
<1>7. o.req.tool = "write"
  BY <1>1 DEF Shape, StoreCall
<1>8. Unmade(m)
  BY <1>7 DEF Operations, Progress, Denies
<1>9. Unmade(m)'
  BY <1>5, <1>6, <1>8 DEF Unmade
<1> QED BY <1>1, <1>2, <1>3, <1>4, <1>5, <1>6, <1>9, OwnGoesOn

\* A creation whose number was taken is called again, under the next one.
LEMMA RefusedCreates ==
  ASSUME Types, Types', Calls, Operations, Preserves, NEW m \in Machine, Active(docOp[m]),
         NEW code, Denies(m, docOp[m].req, code), \A q \in underway' : q \in underway, NEW new,
         docOp' = [docOp EXCEPT ![m] = new], docOp[m].kind = "create",
         NEW number \in 1..(MaxNumber + 1), new = CreateUnder(m, docOp[m], number)
  PROVE  Calls' /\ Running(m)' /\ Sent(m)' /\ Progress(m)' /\ (Active(new) => Own(new.req)[1] = m)
<1> DEFINE o == docOp[m]
<1>1. CASE number > MaxNumber
  <2>1. new = End(o, "invalid_input")
    BY <1>1 DEF CreateUnder
  <2> QED BY <2>1, RefusedEnds
<1>2. CASE ~(number > MaxNumber)
  <2> DEFINE name == <<number, "open">>  text == <<<<m, o.n>>>>
  <2>1. /\ o \in DocOp /\ o.n \in Nat /\ o.n > 0 /\ o.call \in Nat /\ o.step # "idle" /\ o.result = "none"
        /\ ChangeOf(m) = <<m, o.n>> /\ ChangeOf(m) \in Change /\ ChangeOf(m)[1] = m
    BY ActiveFacts
  <2>2. name \in DocName /\ name[2] = "open"
    BY <1>2, KephAssumption DEF DocName, Area
  <2>3. text \in Seq(Change) /\ In(text) = {ChangeOf(m)} /\ Distinct(text)
    BY <2>1 DEF In, Distinct
  <2>4. new = Call(m, o, "create", name, name, text, 0)
    BY <1>2 DEF CreateUnder
  <2> HIDE DEF name, text
  <2>5. IsCall(new, m, o, "create", name, name, text, 0)
    BY <2>1, <2>4, CallIs
  <2>6. Typed(new, o.n)
    BY <2>1, <2>2, <2>3, <2>4, CallTyped
  <2> DEFINE c == new.req
  <2>7. /\ new.step = "send" /\ new.call = o.call + 1 /\ new.n = o.n /\ new.kind = o.kind /\ new.name = o.name
        /\ new.result = "none"
        /\ c.id = [change |-> ChangeOf(m), call |-> new.call] /\ c.kind = "create" /\ c.tool = "create"
        /\ c.name = name /\ c.to = name /\ c.text = text /\ c.base = 0 /\ Own(c) = ChangeOf(m)
    BY <2>1, <2>5 DEF IsCall
  <2>8. c \in StoreCall
    BY <2>6, <2>7 DEF Typed, Active
  <2>9. Becoming(m, new) /\ ChangeOf(m)' = ChangeOf(m)
    BY <2>1, <2>7 DEF Becoming, ChangeOf, Types, KephTypeOK
  <2>10. \A s \in Known' : s \in Known \/ s = c
    BY KnownStep, KnownTyped
  <2> HIDE DEF c
  <2>11. Untouched(m) /\ Untouched(m)'
    BY <2>9, NotYetMade DEF Untouched, Unmade, Denies
  <2>12. c.id \notin DOMAIN executed'
    <3>1. ~Issued(c.id)
      BY <2>1, <2>7 DEF Issued
    <3> QED BY <3>1 DEF Preserves
  <2>13. Shape(c)'
    BY <2>2, <2>3, <2>7 DEF Shape
  <2>14. Ready(c)'
    BY <2>7, <2>9, <2>11, <2>12 DEF Ready, Untouched, Unmade
  <2>15. Calls' /\ Running(m)' /\ Sent(m)' /\ Progress(m)'
    BY <2>1, <2>7, <2>8, <2>9, <2>10, <2>11, <2>13, <2>14, OwnCall DEF c, Denies
  <2> QED BY <2>1, <2>7, <2>15 DEF c
<1> QED BY <1>1, <1>2

LEMMA AfterRefusalIs ==
  ASSUME NEW m, NEW o, NEW code
  PROVE  \/ AfterRefusal(m, o, code) = CreateUnder(m, o, o.req.name[1] + 1) /\ o.kind = "create"
         \/ AfterRefusal(m, o, code) = End(o, "foreign_change") /\ o.kind = "edit"
         \/ AfterRefusal(m, o, code) = [o EXCEPT !.step = "read", !.retries = @ + 1] /\ o.kind = "edit"
         \/ AfterRefusal(m, o, code) = Failed(o, code)
BY DEF AfterRefusal

\* The hub refuses, and the operation gets the answer.
LEMMA RefusedKeeps ==
  ASSUME KephInv, Types', NEW q \in underway, Takes(q), Mine(Owner(q), q), HubRefuses(q)
  PROVE  KephInv'
<1>1. Types /\ Store /\ Calls /\ Operations
  BY DEF KephInv
<1>2. PICK m \in Machine : m = Owner(q) /\ Active(docOp[m]) /\ docOp[m].req = q.req
  BY <1>1, MineIs
<1>3. PICK code : code = Refusal(docOp[m].req) /\ Denies(m, docOp[m].req, code)
  BY <1>1, <1>2, DeniesIs
<1>4. PICK new : new = AfterRefusal(m, docOp[m], code) /\ docOp' = [docOp EXCEPT ![m] = new]
  BY <1>2, <1>3 DEF HubRefuses, Answer
<1>5. Preserves /\ \A s \in underway' : s \in underway
  BY <1>1, TakesPreserves
<1>6. Calls' /\ Running(m)' /\ Sent(m)' /\ Progress(m)' /\ (Active(new) => Own(new.req)[1] = m)
  <2>1. CASE new = CreateUnder(m, docOp[m], docOp[m].req.name[1] + 1) /\ docOp[m].kind = "create"
    <3>1. docOp[m].req.name[1] \in 1..MaxNumber
      BY <1>1, <1>2, ActiveFacts, CallFields
    <3>2. docOp[m].req.name[1] + 1 \in 1..(MaxNumber + 1)
      BY <3>1, KephAssumption
    <3> QED BY <1>1, <1>2, <1>3, <1>4, <1>5, <2>1, <3>2, RefusedCreates
  <2>2. CASE new = [docOp[m] EXCEPT !.step = "read", !.retries = @ + 1] /\ docOp[m].kind = "edit"
    BY <1>1, <1>2, <1>3, <1>4, <1>5, <2>2, RefusedReads
  <2>3. CASE new = Failed(docOp[m], code) \/ (new = End(docOp[m], "foreign_change") /\ docOp[m].kind = "edit")
    BY <1>1, <1>2, <1>3, <1>4, <1>5, <2>3, RefusedEnds
  <2> QED BY <1>4, <2>1, <2>2, <2>3, AfterRefusalIs
<1> QED BY <1>2, <1>4, <1>6, TakesKeeps

\* A step of which the calls and the operations know nothing.
LEMMA OperationsStand ==
  ASSUME Calls, Operations, UNCHANGED <<hub, clock, executed, home, refused, underway, docOp>>
  PROVE  Calls' /\ Operations' /\ Overtaken' = Overtaken
<1>1. Overtaken' = Overtaken /\ Known' = Known /\ \A m \in Machine : ChangeOf(m)' = ChangeOf(m)
  BY DEF Overtaken, Known, ChangeOf
<1>2. ASSUME NEW r PROVE (Live(r)' <=> Live(r)) /\ (Shape(r) => Shape(r)') /\ (Ready(r) => Ready(r)')
  BY <1>1 DEF Live, Shape, Carries, At, Ready
<1>3. Calls'
  BY <1>1, <1>2 DEF Calls, CallOK, Issued, Begun
<1>4. ASSUME NEW m \in Machine PROVE Running(m)' /\ Sent(m)' /\ Progress(m)'
  BY <1>1, <1>2 DEF Operations, Running, NoneLive, Sent, Progress, Unmade, Untouched
<1> QED BY <1>1, <1>3, <1>4 DEF Operations

\* A replica catches up.
LEMMA SyncKeeps ==
  ASSUME KephInv, Types', NEW m \in Machine, Sync(m)
  PROVE  KephInv'
<1>1. /\ Types /\ Store /\ Calls /\ Operations /\ HubStands /\ UNCHANGED <<underway, docOp>>
      /\ replica' = [replica EXCEPT ![m] = hub]
  BY DEF KephInv, Sync
<1>2. Calls' /\ Operations' /\ Overtaken' = Overtaken
  BY <1>1, OperationsStand DEF HubStands
<1>3. HubSound' /\ Split' /\ Kept' /\ Gone'
  BY <1>1, <1>2 DEF HubStands, Store, HubSound, Sound, At, Split, Kept, Gone, Holds
<1>4. ReplicaSound'
  BY <1>1, <1>2 DEF Types, KephTypeOK, Store, HubSound, HubStands, ReplicaSound, Sound, At
<1> QED BY <1>2, <1>3, <1>4 DEF KephInv, Store

\* The invariant holds at the beginning,
LEMMA InvInit == KephInit => KephInv
<1> SUFFICES ASSUME KephInit PROVE KephInv
  OBVIOUS
<1>1. PICK there \in {{}, {<<1, "open">>}} : KephBegin(there)
  BY DEF KephInit
<1> DEFINE first == [d \in DocName |-> IF d \in there THEN [rev |-> 1, text |-> <<>>] ELSE Absent]
<1>2. /\ hub = first /\ clock = 1 /\ executed = <<>> /\ underway = {} /\ replica = [m \in Machine |-> first]
      /\ docOp = [m \in Machine |-> Idle] /\ home = [c \in Change |-> 0]
      /\ dropped = {} /\ overwritten = {} /\ refused = {}
  BY <1>1 DEF KephBegin
<1>3. \A d \in DocName : first[d].text = <<>> /\ first[d].rev \in {0, 1}
  BY DEF Absent
<1> HIDE DEF first
<1>4. Types
  BY TypesInit
<1>5. In(<<>>) = {} /\ Distinct(<<>>)
  BY DEF In, Distinct
<1>6. HubSound
  BY <1>2, <1>3, <1>5 DEF HubSound, Sound
<1>7. ReplicaSound
  BY <1>2, <1>3, <1>5 DEF ReplicaSound, Sound
<1>8. Split /\ Kept /\ Gone
  BY <1>2, <1>3, <1>5 DEF Split, Kept, Gone
<1>9. \A m \in Machine : docOp[m].step = "idle" /\ docOp[m].result = "none"
  BY <1>2 DEF Idle
<1>10. DOMAIN executed = {}
  BY <1>2
<1>11. Known = {}
  BY <1>2, <1>9 DEF Known, Active
<1>12. Calls
  BY <1>2, <1>10, <1>11 DEF Calls
<1>13. Operations
  BY <1>9, <1>11 DEF Operations, Running, Sent, Progress, Active, Denied, ErrorCode
<1> QED BY <1>4, <1>6, <1>7, <1>8, <1>12, <1>13 DEF KephInv, Store

\* and every step keeps it.
LEMMA InvStep == KephInv /\ [KephNext]_kephVars => KephInv'
<1> SUFFICES ASSUME KephInv, [KephNext]_kephVars PROVE KephInv'
  OBVIOUS
<1>1. Types'
  BY TypesStep DEF KephInv
<1>2. CASE HubTakes
  <2>1. PICK q \in underway : Takes(q)
    BY <1>2 DEF HubTakes, Takes
  <2>2. CASE ~Mine(Owner(q), q)
    <3>1. docOp' = docOp
      BY <2>1, <2>2 DEF Takes, HubReplays, HubRefuses, HubExecutes, Answer
    <3> QED BY <1>1, <2>1, <2>2, <3>1, LateKeeps
  <2>3. CASE Mine(Owner(q), q)
    BY <1>1, <2>1, <2>3, ConfirmedKeeps, RefusedKeeps DEF Takes
  <2> QED BY <2>2, <2>3
<1>3. ASSUME NEW m \in Machine, BeginOp(m) PROVE KephInv'
  BY <1>1, <1>3, BeginKeeps
<1>4. ASSUME NEW m \in Machine, ReadStep(m) PROVE KephInv'
  BY <1>1, <1>4, ReadKeeps
<1>5. ASSUME NEW m \in Machine, Send(m) PROVE KephInv'
  BY <1>1, <1>5, SendKeeps
<1>6. ASSUME NEW m \in Machine, NotSent(m) \/ NodeRefuses(m) PROVE KephInv'
  BY <1>1, <1>6, NotSentKeeps
<1>7. ASSUME NEW m \in Machine, StopWaiting(m) PROVE KephInv'
  BY <1>1, <1>7, StopKeeps
<1>8. ASSUME NEW m \in Machine, Sync(m) PROVE KephInv'
  BY <1>1, <1>8, SyncKeeps
<1>9. CASE UNCHANGED kephVars
  BY <1>9, OperationsStand, StoreStands, <1>1 DEF kephVars, KephInv
<1> QED BY <1>2, <1>3, <1>4, <1>5, <1>6, <1>7, <1>8, <1>9 DEF KephNext

\* Every state of KephDocs has its types: the operations, the calls, the documents
\* of the hub and of every replica.
THEOREM KephTyped == KephSpec => []KephTypeOK
<1>1. Types => KephTypeOK
  BY DEF Types
<1> QED BY <1>1, TypesInit, TypesStep, PTL DEF KephSpec

\* Every step of every machine, of the hub and of the events keeps the invariant
\* (write, edit, createNumbered, UpdateTodo, DeleteTodo and what the node does).
THEOREM KephInvariance == KephSpec => []KephInv
<1> QED BY InvInit, InvStep, PTL DEF KephSpec

\* It implies the three parts of KephHonest.
LEMMA InvOnce == KephInv => Once
  BY DEF Once, In, KephInv, Store, Split, HubSound, Sound, Distinct

LEMMA InvDone == KephInv => DoneIsDone
  BY OpFields DEF DoneIsDone, KephInv, Operations, Progress, Store, Kept, Unmade

LEMMA InvRefused == KephInv => RefusedIsNothing
<1> SUFFICES ASSUME KephInv, NEW m \in Machine,
                    docOp[m].result \in {"unavailable", "foreign_change", "invalid_input"} \cup ErrorCode,
                    ChangeOf(m) \notin Overtaken
             PROVE  \A d \in DocName : ~Holds(d, ChangeOf(m)) /\ ChangeOf(m) \notin dropped
  BY DEF RefusedIsNothing
<1>1. docOp[m].result \in Denied /\ docOp[m].result # "none"
  BY DEF Denied, ErrorCode
<1>2. ChangeOf(m) \in Change
  BY <1>1, OpFields DEF KephInv
<1>3. home[ChangeOf(m)] = 0
  BY <1>1 DEF KephInv, Operations, Progress, Untouched, Unmade
<1>4. \A d \in DocName : ~Holds(d, ChangeOf(m))
  BY <1>3 DEF KephInv, Store, HubSound, Sound, At, Holds
<1>5. ChangeOf(m) \notin dropped
  BY <1>2, <1>3 DEF KephInv, Store, Gone
<1> QED BY <1>4, <1>5

\* What an answer says is so (attempt, write, edit, createNumbered, UpdateTodo): a
\* change is there once at most, one reported as made was made and is only gone by
\* someone who read it or by a reopening, one reported as refused is not there and
\* never comes, the overtaken creation excepted.
THEOREM KephSafe == KephSpec => []KephHonest
<1>1. KephInv => KephHonest
  BY InvOnce, InvDone, InvRefused DEF KephHonest
<1> QED BY <1>1, KephInvariance, PTL
=============================================================================
