------------------------------ MODULE ChatPage ------------------------------
(***************************************************************************)
(* The page of a chat session (webui/static/chat-session.js, chat-common.js) *)
(* and the handlers of chat.go that pass its requests on to OpenCode.  The   *)
(* page keeps nothing: it loads the conversation and the open requests, and  *)
(* plays in the events of the stream, which breaks off and comes back.       *)
(* Answers and events travel apart, so either may overtake the other.        *)
(***************************************************************************)
EXTENDS Integers, Sequences, FiniteSets

CONSTANTS
  MaxAsks,        \* bound: questions and permissions asked and answered
  MaxWire,        \* bound: events on their way
  MaxPageFaults   \* bound: breaks of the stream, requests that fail

ASSUME ChatPageAssumption == {MaxAsks, MaxWire, MaxPageFaults} \subseteq Nat

VARIABLES
  script,    \* the run in OpenCode: the events it makes, and how far it is
  opened,    \* what OpenCode waits for: questions, permissions, and whether the child exists
  link,      \* the stream is up
  wire,      \* events on their way
  connectedOnce,
  shown,     \* chat.messages
  boxes,     \* chat.questions, each by its session
  grants,    \* chat.permissions, each by its session
  related,   \* chat.related
  walks,     \* chat.relatedChecks: the session a check asks for
  loads,     \* the loads under way: those of init, then those after each break
  runType,   \* run.type
  failed,    \* run.failed
  bubble,    \* pending: none, unnamed, named
  prompt,    \* the message sent on this page
  replying,  \* questions and permissions whose answer is on its way
  seen,      \* history: the latest version of each kind that has reached the page
  excused,   \* history: kinds of which something was overtaken or is missing
  pageFaults

pageVars == <<script, opened, link, wire, connectedOnce, shown, boxes, grants, related, walks, loads,
              runType, failed, bubble, prompt, replying, seen, excused, pageFaults>>

(***************************************************************************)
(* OpenCode, as far as the page sees it                                    *)
(***************************************************************************)
\* The events of a run.  A part may come before the head of its message; a run may
\* fail before it has a message.
Usual  == <<"mine", "busy", "answer", "part", "delta", "whole", "completed", "idle">>
Early  == <<"mine part", "mine", "busy", "part", "answer", "whole", "completed", "idle">>
Broken == <<"busy", "error", "idle">>
NoRun  == <<>>
Made(s) == {s.events[i] : i \in 1..s.at}
\* It works from the answer to the prompt on.
Working(s) == "idle" \notin Made(s) /\ ("busy" \in Made(s) \/ prompt = "done")

\* Whose sessions they are: the questions of the own one and its descendants
\* belong on the page.
Parent == [child |-> "own", grandchild |-> "child", other |-> "none"]
Foreign == DOMAIN Parent
Family == {"own", "child", "grandchild"}
Exists(session) == session \in {"own", "other"} \/ opened.child

(***************************************************************************)
(* What the events do to chat.messages (applyEvent): a head replaces the    *)
(* head, a part the part with all its text, a delta is appended to a part    *)
(* that is there.                                                           *)
(***************************************************************************)
NoMessages == [heads |-> {}, parts |-> {}, text |-> "none", completed |-> FALSE]
AfterEvent(m, event) ==
  CASE event = "mine"      -> [m EXCEPT !.heads = @ \cup {"mine"}]
    [] event = "answer"    -> [m EXCEPT !.heads = @ \cup {"answer"}, !.completed = FALSE]
    [] event = "completed" -> [m EXCEPT !.heads = @ \cup {"answer"}, !.completed = TRUE]
    [] event = "mine part" -> [m EXCEPT !.parts = @ \cup {"mine"}]
    [] event = "part"      -> [m EXCEPT !.parts = @ \cup {"answer"}, !.text = "begun"]
    [] event = "whole"     -> [m EXCEPT !.parts = @ \cup {"answer"}, !.text = "all"]
    [] event = "delta"     -> [m EXCEPT !.text = CASE @ = "none" -> "none" [] @ = "begun" -> "all" [] OTHER -> "twice"]
    [] OTHER               -> m
Known(m) == m.heads \cup m.parts

\* The conversation OpenCode has after the first events of the run.
Conversation(events, at) ==
  LET made == {events[i] : i \in 1..at} IN
  [heads |-> made \cap {"mine", "answer"},
   parts |-> {m \in {"mine", "answer"} : \/ m = "mine" /\ "mine part" \in made
                                         \/ m = "answer" /\ made \cap {"part", "whole"} # {}},
   text |-> CASE made \cap {"delta", "whole"} # {} -> "all"
              [] made \cap {"delta", "whole"} = {} /\ "part" \in made -> "begun"
              [] OTHER -> "none",
   completed |-> "completed" \in made]
\* loadMessages: an answer without an end and without an error goes on.
Derived(m) == IF "answer" \in Known(m) /\ ~m.completed THEN "busy" ELSE "idle"

(***************************************************************************)
(* State                                                                   *)
(***************************************************************************)
Kinds == {"messages", "permissions", "related"}
\* The run, the questions and the permissions share nothing but the stream: only what
\* can change is loaded.
Loaded == IF script.events # NoRun THEN {"messages"}
          ELSE IF "own" \in opened.askers THEN {"permissions"} ELSE {"related"}
Generation == 1..(MaxPageFaults + 1)
NoLoad == [at |-> "none", version |-> 0, content |-> {}]
Load == [NoLoad EXCEPT !.at = "asked"]
History == {"messages", "text", "run", "bubble", "questions", "permissions"}

PageTypeOK ==
  /\ script.events \in {Usual, Early, Broken, NoRun} /\ script.at \in 0..Len(script.events)
  /\ opened.questions \subseteq DOMAIN Parent /\ opened.grants \subseteq {"own"} /\ opened.asks \in 0..MaxAsks
  /\ {link, connectedOnce, failed} \subseteq BOOLEAN
  /\ shown.text \in {"none", "begun", "all", "twice"} /\ Known(shown) \subseteq {"mine", "answer"}
  /\ boxes \subseteq Foreign /\ grants \subseteq {"own"}
  /\ related \in [Foreign -> {"unknown", "yes", "no"}] /\ walks \in [Foreign -> Foreign \cup {"none"}]
  /\ \A k \in Kinds, g \in Generation : loads[k][g].at \in {"none", "asked", "children", "second", "read"}
  /\ runType \in {"idle", "busy"} /\ bubble \in {"none", "unnamed", "named"}
  /\ prompt \in {"none", "sent", "accepted", "done", "failed"} /\ excused \subseteq History /\ pageFaults \in 0..MaxPageFaults

\* init has asked for the session, opened the stream and begun its loads.
PageBegin(events, askers) ==
  /\ script = [events |-> events, at |-> 0]
  /\ opened = [questions |-> {}, grants |-> {}, past |-> {}, askers |-> askers, child |-> FALSE, asks |-> 0]
  /\ link = FALSE /\ wire = <<>> /\ connectedOnce = FALSE
  /\ shown = NoMessages /\ boxes = {} /\ grants = {} /\ related = [s \in Foreign |-> "unknown"]
  /\ walks = [s \in Foreign |-> "none"]
  /\ loads = [k \in Kinds |-> [g \in Generation |-> IF g = 1 /\ k \in Loaded THEN Load ELSE NoLoad]]
  /\ runType = "idle" /\ failed = FALSE /\ bubble = "none" /\ prompt = "none" /\ replying = {}
  /\ seen = [k \in {"messages", "questions", "permissions"} |-> 0] /\ excused = {} /\ pageFaults = 0
PageInit ==
  \/ \E events \in {Usual, Early, Broken} : PageBegin(events, {})
  \/ \E askers \in {{"own"}, {"child", "grandchild"}, {"other"}} : PageBegin(NoRun, askers)

PageFault == pageFaults < MaxPageFaults /\ pageFaults' = pageFaults + 1
\* chatEventsHandler passes on what comes while the stream stands.  What is lost before
\* the page was connected once is not loaded again.
KindsOf(type) ==
  CASE type \in {"asked", "replied"}                          -> {"questions"}
    [] type \in {"permission asked", "permission replied"}    -> {"permissions"}
    [] type \in {"connected", "created"}                      -> {}
    [] OTHER                                                  -> {"messages", "text", "run", "bubble"}
Lost(events) ==
  LET kinds == UNION {KindsOf(e.type) : e \in events} IN
  /\ excused' = excused \cup (IF connectedOnce THEN {} ELSE kinds)
                  \cup (IF \E e \in events : e.type = "error" THEN {"bubble"} ELSE {})
  /\ seen' = [k \in DOMAIN seen |->
                LET versions == {e.version : e \in {f \in events : k \in KindsOf(f.type)}} \cup {seen[k]}
                IN CHOOSE v \in versions : \A w \in versions : w <= v]
Emit(type, of, version) ==
  Len(wire) < MaxWire /\
  LET e == [type |-> type, of |-> of, version |-> version] IN
  IF link THEN wire' = Append(wire, e) /\ UNCHANGED <<excused, seen>> ELSE wire' = wire /\ Lost({e})

(***************************************************************************)
(* OpenCode goes on                                                        *)
(***************************************************************************)
RunGoesOn ==
  /\ prompt # "sent" /\ script.at < Len(script.events)
  /\ script' = [script EXCEPT !.at = @ + 1]
  /\ Emit(script.events[script.at + 1], "own", script.at + 1)
  /\ UNCHANGED <<opened, link, connectedOnce, shown, boxes, grants, related, walks, loads, runType, failed, bubble,
                 prompt, replying, pageFaults>>

PageKept == <<script, link, connectedOnce, shown, boxes, grants, related, walks, loads, runType, failed, bubble, prompt,
              replying, pageFaults>>

ChildCreated ==
  /\ script.events = NoRun /\ ~opened.child /\ opened' = [opened EXCEPT !.child = TRUE]
  /\ Emit("created", "child", 0) /\ UNCHANGED PageKept

Asks ==
  /\ script.events = NoRun /\ opened.asks < MaxAsks
  /\ \/ \E q \in (opened.askers \cap Foreign) \ (opened.questions \cup opened.past) :
          /\ Exists(q) /\ opened' = [opened EXCEPT !.questions = @ \cup {q}, !.asks = @ + 1]
          /\ Emit("asked", q, opened.asks + 1)
     \/ \E p \in (opened.askers \ Foreign) \ (opened.grants \cup opened.past) :
          /\ opened' = [opened EXCEPT !.grants = @ \cup {p}, !.asks = @ + 1]
          /\ Emit("permission asked", p, opened.asks + 1)
  /\ UNCHANGED PageKept

AnsweredQuestion(q) ==
  /\ q \in opened.questions /\ opened.asks < MaxAsks
  /\ opened' = [opened EXCEPT !.questions = @ \ {q}, !.past = @ \cup {q}, !.asks = @ + 1]
  /\ Emit("replied", q, opened.asks + 1)
AnsweredPermission(p) ==
  /\ p \in opened.grants /\ opened.asks < MaxAsks
  /\ opened' = [opened EXCEPT !.grants = @ \ {p}, !.past = @ \cup {p}, !.asks = @ + 1]
  /\ Emit("permission replied", p, opened.asks + 1)

\* In the terminal, or on another page.
AnsweredElsewhere ==
  /\ (\E q \in Foreign : AnsweredQuestion(q)) \/ AnsweredPermission("own")
  /\ UNCHANGED PageKept

(***************************************************************************)
(* Questions: do they belong here?                                         *)
(***************************************************************************)
\* offerQuestion: what is known to belong here is taken, what is unknown is followed
\* up, with one check for each session.
Offer(qs, rel) ==
  /\ boxes' = (boxes \cup {q \in qs : rel[q] = "yes"})
  /\ walks' = [q \in Foreign |-> IF q \in qs \ boxes /\ rel[q] = "unknown" /\ walks[q] = "none" THEN q ELSE walks[q]]

\* The sessions a check has passed.
Chain(q) == IF walks[q] = q THEN {q} ELSE {q, walks[q]}

\* walkParents: one answer.
WalkAnswers(q) ==
  /\ walks[q] # "none"
  /\ LET parent  == Parent[walks[q]]
         belongs == parent = "own" \/ (parent \in Foreign /\ related[parent] = "yes")
         decided == belongs \/ parent = "none" \/ related[parent] = "no"
     IN /\ walks' = [walks EXCEPT ![q] = IF decided THEN "none" ELSE parent]
        /\ related' = IF ~decided THEN related
                      ELSE [s \in Foreign |-> IF s \in Chain(q) THEN IF belongs THEN "yes" ELSE "no" ELSE related[s]]
        /\ boxes' = IF decided /\ belongs THEN boxes \cup {q} ELSE boxes
  /\ UNCHANGED <<script, opened, link, wire, connectedOnce, shown, grants, loads, runType, failed, bubble, prompt,
                 replying, seen, excused, pageFaults>>

\* No answer is no result: nothing is kept of it, the question is not shown.
WalkFails(q) ==
  /\ walks[q] # "none" /\ PageFault /\ walks' = [walks EXCEPT ![q] = "none"]
  /\ excused' = excused \cup {"questions"}
  /\ UNCHANGED <<script, opened, link, wire, connectedOnce, shown, boxes, grants, related, loads, runType, failed, bubble,
                 prompt, replying, seen>>

(***************************************************************************)
(* Events                                                                  *)
(***************************************************************************)
\* Defect: after a break only the messages are loaded again.
ReloadsMessages == Loaded \cap {"messages"}
\* server.connected after a break: what happened meanwhile came as no event.
Reloads == Loaded
NextGeneration(k) == {g \in Generation : loads[k][g].at = "none" /\ \A h \in Generation : h < g => loads[k][h].at # "none"}

Connected ==
  /\ connectedOnce' = TRUE
  /\ loads' = IF ~connectedOnce THEN loads
              ELSE [k \in Kinds |-> [g \in Generation |->
                       IF k \in Reloads /\ g \in NextGeneration(k) THEN Load ELSE loads[k][g]]]
  /\ UNCHANGED <<shown, boxes, grants, related, walks, runType, failed, bubble, seen, excused>>

\* message.updated takes the bubble away by its name, without a name by the first
\* message of a user that is not known; an error of the run by itself.
MessageEvent(e) ==
  /\ shown' = AfterEvent(shown, e.type)
  /\ bubble' = IF \/ e.type = "mine" /\ (bubble = "named" \/ "mine" \notin Known(shown))
                  \/ e.type = "error" THEN "none" ELSE bubble
  /\ runType' = CASE e.type = "busy" -> "busy" [] e.type = "idle" -> "idle" [] OTHER -> runType
  /\ failed' = ((failed \/ e.type = "error") /\ e.type # "busy")
  /\ excused' = (excused \ ((IF e.type \in {"busy", "idle"} THEN {"run"} ELSE {})
                              \cup (IF e.type = "whole" THEN {"text"} ELSE {})
                              \cup (IF bubble' = "none" THEN {"bubble"} ELSE {})))
                  \cup (IF shown'.text = "twice" THEN {"text"} ELSE {})
  /\ seen' = [seen EXCEPT !["messages"] = IF e.version > @ THEN e.version ELSE @]
  /\ UNCHANGED <<connectedOnce, boxes, grants, related, walks, loads>>

RequestEvent(e) ==
  /\ CASE e.type = "created" ->
            related' = [related EXCEPT !["child"] = "yes"] /\ UNCHANGED <<boxes, walks, grants, excused>>
       [] e.type = "asked" -> Offer({e.of}, related) /\ UNCHANGED <<related, grants, excused>>
       [] e.type = "replied" ->
            /\ boxes' = boxes \ {e.of} /\ UNCHANGED <<related, walks, grants>>
            /\ excused' = IF walks[e.of] # "none" THEN excused \cup {"questions"} ELSE excused
       [] e.type = "permission asked" -> grants' = grants \cup {e.of} /\ UNCHANGED <<boxes, related, walks, excused>>
       [] OTHER -> grants' = grants \ {e.of} /\ UNCHANGED <<boxes, related, walks, excused>>
  /\ seen' = [k \in DOMAIN seen |->
                IF k = (IF e.type \in {"asked", "replied"} THEN "questions" ELSE "permissions") /\ e.version > seen[k]
                THEN e.version ELSE seen[k]]
  /\ UNCHANGED <<connectedOnce, shown, loads, runType, failed, bubble>>

\* applyEvent
EventArrives ==
  /\ wire # <<>> /\ wire' = Tail(wire)
  /\ CASE Head(wire).type = "connected" -> Connected
       [] Head(wire).type # "connected" /\ script.events # NoRun -> MessageEvent(Head(wire))
       [] OTHER -> RequestEvent(Head(wire))
  /\ UNCHANGED <<script, opened, link, prompt, replying, pageFaults>>

\* openChatEvents: EventSource connects, breaks off and connects again.
Connects ==
  /\ ~link /\ link' = TRUE /\ wire' = <<[type |-> "connected", of |-> "own", version |-> 0]>>
  /\ UNCHANGED <<script, opened, connectedOnce, shown, boxes, grants, related, walks, loads, runType, failed, bubble, prompt,
                 replying, seen, excused, pageFaults>>
Breaks ==
  /\ link /\ PageFault /\ link' = FALSE /\ wire' = <<>>
  /\ Lost({wire[i] : i \in DOMAIN wire})
  /\ UNCHANGED <<script, opened, connectedOnce, shown, boxes, grants, related, walks, loads, runType, failed, bubble, prompt,
                 replying>>

(***************************************************************************)
(* Loads                                                                   *)
(***************************************************************************)
\* chatMessagesHandler, chatPermissionsHandler, chatSessionChildrenHandler and
\* chatQuestionsHandler pass on what OpenCode has at that moment.
Reads(k, g) ==
  LET l == loads[k][g] IN
  /\ l.at \in {"asked", "second"}
  /\ loads' = [loads EXCEPT ![k][g] =
       CASE k = "messages"                     -> [at |-> "read", version |-> script.at, content |-> {}]
         [] k = "permissions"                  -> [at |-> "read", version |-> opened.asks, content |-> opened.grants]
         [] k = "related" /\ l.at = "asked"    -> [at |-> "children", version |-> 0,
                                                   content |-> IF opened.child THEN {"child"} ELSE {}]
         [] OTHER                              -> [at |-> "read", version |-> opened.asks, content |-> opened.questions]]
  /\ UNCHANGED <<script, opened, link, wire, connectedOnce, shown, boxes, grants, related, walks, runType, failed, bubble,
                 prompt, replying, seen, excused, pageFaults>>

NotOlder(kind, l) == l.version >= seen[kind]
Excuses(kinds, fresh) == IF fresh THEN excused \ kinds ELSE excused \cup kinds

\* loadMessages replaces the whole conversation, and the state of the run with it.
MessagesArrive(g) ==
  LET l == loads["messages"][g]  m == Conversation(script.events, l.version) IN
  /\ l.at = "read" /\ loads' = [loads EXCEPT !["messages"][g] = NoLoad]
  /\ shown' = [m EXCEPT !.heads = Known(m)] /\ runType' = Derived(m)
  /\ failed' = (failed /\ Derived(m) # "busy")
  /\ bubble' = IF bubble = "named" /\ "mine" \in Known(m) THEN "none" ELSE bubble
  /\ seen' = [seen EXCEPT !["messages"] = IF l.version > @ THEN l.version ELSE @]
  /\ LET before == [script EXCEPT !.at = l.version]
         e == Excuses({"messages", "text"}, NotOlder("messages", l))
     IN excused' = (IF NotOlder("messages", l) /\ (Derived(m) = "busy") = Working(before) THEN e \ {"run"} ELSE e \cup {"run"})
                     \ (IF bubble' = "none" THEN {"bubble"} ELSE {})
  /\ UNCHANGED <<script, opened, link, wire, connectedOnce, boxes, grants, related, walks, prompt, replying, pageFaults>>

PermissionsArrive(g) ==
  LET l == loads["permissions"][g] IN
  /\ l.at = "read" /\ loads' = [loads EXCEPT !["permissions"][g] = NoLoad]
  /\ grants' = l.content /\ excused' = Excuses({"permissions"}, NotOlder("permissions", l))
  /\ seen' = [seen EXCEPT !["permissions"] = IF l.version > @ THEN l.version ELSE @]
  /\ UNCHANGED <<script, opened, link, wire, connectedOnce, shown, boxes, related, walks, runType, failed, bubble, prompt,
                 replying, pageFaults>>

\* loadChildren, then loadQuestions.
ChildrenArrive(g) ==
  LET l == loads["related"][g] IN
  /\ l.at = "children" /\ loads' = [loads EXCEPT !["related"][g] = [NoLoad EXCEPT !.at = "second"]]
  /\ related' = [s \in Foreign |-> IF s \in l.content THEN "yes" ELSE related[s]]
  /\ UNCHANGED <<script, opened, link, wire, connectedOnce, shown, boxes, grants, walks, runType, failed, bubble, prompt,
                 replying, seen, excused, pageFaults>>

\* What was answered elsewhere goes, what stays is left alone, what is new is offered.
QuestionsArrive(g) ==
  LET l == loads["related"][g] IN
  /\ l.at = "read" /\ loads' = [loads EXCEPT !["related"][g] = NoLoad]
  /\ \E kept \in {boxes \cap l.content} :
       /\ boxes' = kept \cup {q \in l.content : related[q] = "yes"}
       /\ walks' = [q \in Foreign |-> IF q \in l.content \ kept /\ related[q] = "unknown" /\ walks[q] = "none"
                                      THEN q ELSE walks[q]]
  /\ excused' = Excuses({"questions"}, NotOlder("questions", l) /\ \A q \in Foreign : walks[q] # "none" => q \in l.content)
  /\ seen' = [seen EXCEPT !["questions"] = IF l.version > @ THEN l.version ELSE @]
  /\ UNCHANGED <<script, opened, link, wire, connectedOnce, shown, grants, related, runType, failed, bubble, prompt,
                 replying, pageFaults>>

\* Without the children the check of the parents carries alone.
LoadFails(k, g) ==
  LET l == loads[k][g] IN
  /\ l.at # "none" /\ PageFault
  /\ loads' = [loads EXCEPT ![k][g] = IF k = "related" /\ l.at \in {"asked", "children"} THEN [NoLoad EXCEPT !.at = "second"]
                                      ELSE NoLoad]
  /\ excused' = excused \cup CASE k = "messages" -> {"messages", "text", "run", "bubble"}
                               [] k = "permissions" -> {"permissions"}
                               [] k = "related" /\ l.at \in {"second", "read"} -> {"questions"}
                               [] OTHER -> {}
  /\ UNCHANGED <<script, opened, link, wire, connectedOnce, shown, boxes, grants, related, walks, runType, failed, bubble,
                 prompt, replying, seen>>

(***************************************************************************)
(* What the user does                                                      *)
(***************************************************************************)
\* sendPrompt locks the form and shows the bubble before it waits.
SendPrompt ==
  /\ script.events # NoRun /\ script.at = 0 /\ prompt = "none"
  /\ prompt' = "sent" /\ bubble' = "unnamed" /\ failed' = FALSE
  /\ UNCHANGED <<script, opened, link, wire, connectedOnce, shown, boxes, grants, related, walks, loads, runType, replying,
                 seen, excused, pageFaults>>

\* chatPromptHandler names the message; OpenCode takes it and begins.
PromptAccepted ==
  /\ prompt = "sent" /\ prompt' = "accepted"
  /\ UNCHANGED <<script, opened, link, wire, connectedOnce, shown, boxes, grants, related, walks, loads, runType, failed,
                 bubble, replying, seen, excused, pageFaults>>

\* The answer may come after everything else that the run has to tell.
PromptAnswered ==
  /\ prompt = "accepted" /\ prompt' = "done" /\ runType' = "busy"
  /\ bubble' = IF bubble = "unnamed" THEN "named" ELSE bubble
  /\ failed' = FALSE
  /\ LET told == "idle" \in Made(script) /\ \A i \in DOMAIN wire : wire[i].type # "idle"
     IN excused' = excused \cup (IF told THEN {"run"} ELSE {})
                     \cup (IF bubble # "none" /\ "mine" \in shown.heads THEN {"bubble"} ELSE {})
  /\ UNCHANGED <<script, opened, link, wire, connectedOnce, shown, boxes, grants, related, walks, loads, replying, seen,
                 pageFaults>>

\* Refused, or the answer is lost: the bubble goes, the text stays in the form.
PromptFails ==
  /\ prompt \in {"sent", "accepted"} /\ PageFault /\ bubble' = "none" /\ excused' = excused \ {"bubble"}
  /\ prompt' = IF prompt = "sent" THEN "none" ELSE "failed"
  /\ UNCHANGED <<script, opened, link, wire, connectedOnce, shown, boxes, grants, related, walks, loads, runType, failed,
                 replying, seen>>

\* sendQuestion and replyPermission
Replies ==
  /\ \/ \E q \in boxes \ replying : AnsweredQuestion(q) /\ replying' = replying \cup {q}
     \/ \E p \in grants \ replying : AnsweredPermission(p) /\ replying' = replying \cup {p}
  /\ UNCHANGED <<script, link, connectedOnce, shown, boxes, grants, related, walks, loads, runType, failed, bubble, prompt,
                 pageFaults>>
ReplyAnswered ==
  /\ \E r \in replying :
       /\ replying' = replying \ {r}
       /\ \/ boxes' = boxes \ {r} /\ grants' = grants \ {r} /\ UNCHANGED pageFaults
          \/ PageFault /\ UNCHANGED <<boxes, grants>>
  /\ UNCHANGED <<script, opened, link, wire, connectedOnce, shown, related, walks, loads, runType, failed, bubble, prompt,
                 seen, excused>>

PageNext ==
  \/ RunGoesOn \/ ChildCreated \/ Asks \/ AnsweredElsewhere
  \/ \E q \in Foreign : WalkAnswers(q) \/ WalkFails(q)
  \/ EventArrives \/ Connects \/ Breaks
  \/ \E k \in Kinds, g \in Generation : Reads(k, g) \/ LoadFails(k, g)
  \/ \E g \in Generation : MessagesArrive(g) \/ PermissionsArrive(g) \/ ChildrenArrive(g) \/ QuestionsArrive(g)
  \/ SendPrompt \/ PromptAccepted \/ PromptAnswered \/ PromptFails \/ Replies \/ ReplyAnswered
PageSpec == PageInit /\ [][PageNext]_pageVars

(***************************************************************************)
(* What the page shows                                                     *)
(***************************************************************************)
OpenRequests == boxes \cup grants # {}
\* renderRunState, from above.
Mark ==
  IF ~link \/ \E i \in DOMAIN wire : wire[i].type = "connected" THEN "disconnected"
  ELSE IF failed THEN "failed"
  ELSE IF OpenRequests THEN "waiting"
  ELSE IF runType = "busy" THEN "works" ELSE "ready"

\* All has arrived: nothing is on its way in either direction.
Settled ==
  /\ link /\ wire = <<>> /\ prompt \in {"none", "done", "failed"} /\ replying = {}
  /\ \A k \in Kinds, g \in Generation : loads[k][g].at = "none"
  /\ \A q \in Foreign : walks[q] = "none"

\* The messages and texts are those of OpenCode.
ConversationTrue ==
  LET m == Conversation(script.events, script.at) IN
  /\ "messages" \in excused \/ (Known(shown) = Known(m) /\ shown.completed = m.completed)
  /\ {"messages", "text"} \cap excused # {} \/ shown.text = m.text

\* The bubble stands exactly until its message is there or cannot come any more.
BubbleTrue ==
  "bubble" \in excused \/ bubble = "none"
    \/ (prompt = "done" /\ "mine" \notin shown.heads /\ "error" \notin Made(script))

\* What waits for the user is shown, whoever asked first and in whatever order it
\* became known that the session belongs here.
RequestsTrue ==
  /\ "questions" \in excused \/ boxes = opened.questions \cap Family
  /\ "permissions" \in excused \/ grants = opened.grants

\* The mark says whether the run works or waits.
MarkTrue ==
  \/ Mark = "failed" /\ "error" \in Made(script)
  \/ {"run", "questions", "permissions"} \cap excused # {}
  \/ Mark = IF opened.questions \cap Family # {} \/ "own" \in opened.grants THEN "waiting"
            ELSE IF Working(script) THEN "works" ELSE "ready"

\* chat-session.js:205-325, 352-372, 1045-1124: however events and answers overtake
\* each other and whatever a break swallows, the page ends up with what OpenCode has.
\* Excepted is only what the history names: a kind of which an older answer replaced a
\* newer event or a request failed, until it is loaded anew; a state of the run that the
\* messages do not tell; a bubble whose message was known before its name.
\* A question of another session is never shown.
PageTrue ==
  /\ boxes \subseteq Family
  /\ Settled => ConversationTrue /\ BubbleTrue /\ RequestsTrue /\ MarkTrue
=============================================================================
