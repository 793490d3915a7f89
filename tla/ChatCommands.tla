---------------------------- MODULE ChatCommands ----------------------------
(***************************************************************************)
(* Commands of the chat (webui/chat.go).  The handler answers a command at *)
(* once and a detached goroutine waits for its end; no event tells of a    *)
(* command that fails, so the server keeps per session what runs and which *)
(* failure nobody has read, and the page of the session polls for it.      *)
(* Event streams and the shutdown of the server are modelled with it.      *)
(***************************************************************************)
EXTENDS Naturals, FiniteSets

CONSTANTS
  Session,     \* the sessions, each with one page
  Command,     \* the commands that are sent, by their messageID
  Stream,      \* the requests for an event stream
  Nothing,     \* no command
  StateLimit,  \* chatCommandStateLimit
  MaxLost      \* bound: answers to a page that get lost

ASSUME NothingIsNoCommand == Nothing \notin Command
ASSUME ChatBounds == StateLimit \in Nat \ {0} /\ MaxLost \in Nat
ASSUME SomeSession == Session # {}

VARIABLES
  kept,     \* the sessions in commandRuns
  older,    \* pairs of them: the last change (at) of the first lies before that of the second
  running,  \* chatCommandRuns.running of each session
  unread,   \* chatCommandRuns.failed
  command,  \* where each command stands: [at, session]
  page,     \* the page of a session: its command being sent, its watch, its poll
  stream,   \* the chatEventsHandler of each stream
  service,  \* Serve: up, closing (Shutdown called), closed (streams closed)
  lost,     \* answers lost so far
  owed,     \* history: sessions with a failure their page has not been told of
  stale,    \* history: sessions whose answer on its way is older than a command
  astray    \* history: sessions that missed an answer or stopped on a stale one

store    == <<kept, older, running, unread>>
history  == <<lost, owed, stale, astray>>
chatVars == <<store, command, page, stream, service, history>>

Answer  == {"unknown", "failed", "running", "done"}

ChatTypeOK ==
  /\ kept \subseteq Session /\ IsFiniteSet(kept)
  /\ older \subseteq kept \X kept
  /\ running \in [Session -> SUBSET Command]
  /\ unread \in [Session -> BOOLEAN]
  /\ command \in [Command -> [at : {"new", "sent", "refused", "running", "ended"},
                              session : Session]]
  /\ page \in [Session -> [sending : Command \cup {Nothing}, watch : BOOLEAN,
                           poll : Answer \cup {"none", "asked"}]]
  /\ stream \in [Stream -> {"closed", "connecting", "open"}]
  /\ service \in {"up", "closing", "closed"}
  /\ lost \in 0..MaxLost
  /\ owed \subseteq Session /\ stale \subseteq Session /\ astray \subseteq Session

ChatInit ==
  /\ kept = {} /\ older = {}
  /\ running = [s \in Session |-> {}]
  /\ unread = [s \in Session |-> FALSE]
  /\ command = [c \in Command |-> [at |-> "new", session |-> CHOOSE s \in Session : TRUE]]
  /\ page = [s \in Session |-> [sending |-> Nothing, watch |-> FALSE, poll |-> "none"]]
  /\ stream = [e \in Stream |-> "closed"]
  /\ service = "up"
  /\ lost = 0 /\ owed = {} /\ stale = {} /\ astray = {}

-----------------------------------------------------------------------------
(* The store.                                                              *)

\* runs.at = time.Now(): the session becomes the youngest.
Youngest(s) == {p \in older : s \notin {p[1], p[2]}} \cup ((kept \ {s}) \X {s})

\* How many sessions are more than the limit.
Excess(have) ==
  IF Cardinality(have) > StateLimit THEN Cardinality(have) - StateLimit ELSE 0

\* A defect: the oldest sessions go, whatever they have still to tell.
TrimOldest(have, before, busy) ==
  \E gone \in SUBSET have :
    /\ Cardinality(gone) = Excess(have)
    /\ \A s \in gone, t \in have \ gone : <<s, t>> \in before
    /\ kept' = have \ gone
    /\ older' = {p \in before : p[1] \notin gone /\ p[2] \notin gone}

\* trimCommandRuns: of the sessions that neither run nor have an unread failure
\* the oldest go, until the limit is kept or none of them is left.
Trim(have, before, busy) ==
  \E gone \in SUBSET (have \ busy) :
    /\ Cardinality(gone) <= Excess(have)
    /\ Cardinality(gone) = Excess(have) \/ gone = have \ busy
    /\ \A s \in gone, t \in have \ (busy \cup gone) : <<s, t>> \in before
    /\ kept' = have \ gone
    /\ older' = {p \in before : p[1] \notin gone /\ p[2] \notin gone}

\* commandRunsFor sets an entry up where there is none.
NoteCommandRunning(c, s) ==
  /\ running' = [running EXCEPT ![s] = @ \cup {c}]
  /\ kept' = kept \cup {s} /\ older' = Youngest(s)
  /\ UNCHANGED unread

NoteCommandFinished(c, s, fails) ==
  /\ running' = [running EXCEPT ![s] = @ \ {c}]
  /\ unread' = [unread EXCEPT ![s] = @ \/ fails]
  /\ Trim(kept \cup {s}, Youngest(s), {t \in Session : running'[t] # {} \/ unread'[t]})

Outcome(s) ==
  IF s \notin kept THEN "unknown"
  ELSE IF unread[s] THEN "failed"
  ELSE IF running[s] # {} THEN "running" ELSE "done"

\* commandState: a failure goes out once.
ReadOutcome(s) ==
  /\ unread' = [unread EXCEPT ![s] = FALSE]
  /\ UNCHANGED running
  /\ \/ /\ Outcome(s) = "failed"
        /\ Trim(kept, older, {t \in Session : running[t] # {} \/ unread'[t]})
     \/ Outcome(s) # "failed" /\ UNCHANGED <<kept, older>>

-----------------------------------------------------------------------------
(* A command, from the page and back.                                      *)

\* sendPrompt keeps the form locked until it has its answer.
Send(s) ==
  /\ page[s].sending = Nothing
  /\ \E c \in Command :
       /\ command[c].at = "new"
       /\ command' = [command EXCEPT ![c] = [at |-> "sent", session |-> s]]
       /\ page' = [page EXCEPT ![s].sending = c]
  /\ UNCHANGED <<store, stream, service, history>>

\* chatCommandHandler notes the command before its goroutine starts.
Handle(c) ==
  LET s == command[c].session IN
  /\ command[c].at = "sent" /\ service = "up"
  /\ command' = [command EXCEPT ![c].at = "running"]
  /\ NoteCommandRunning(c, s)
  /\ stale' = IF page[s].poll \in Answer THEN stale \cup {s} ELSE stale
  /\ UNCHANGED <<page, stream, service, lost, owed, astray>>

\* No such command, no project, or OpenCode does not answer.
Refuse(c) ==
  /\ command[c].at = "sent"
  /\ command' = [command EXCEPT ![c].at = "refused"]
  /\ UNCHANGED <<store, page, stream, service, history>>

SendAccepted(s) ==
  LET c == page[s].sending IN
  /\ c # Nothing /\ command[c].at \in {"running", "ended"}
  /\ page' = [page EXCEPT ![s].sending = Nothing, ![s].watch = TRUE]
  /\ UNCHANGED <<store, command, stream, service, history>>

Rejected(s) ==
  LET c == page[s].sending IN
  /\ c # Nothing /\ command[c].at = "refused"
  /\ page' = [page EXCEPT ![s].sending = Nothing]
  /\ UNCHANGED <<store, command, stream, service, history>>

\* The answer 202 does not arrive: the page takes the command for not sent.
LoseAccepted(s) ==
  LET c == page[s].sending IN
  /\ c # Nothing /\ command[c].at \in {"running", "ended"}
  /\ lost < MaxLost /\ lost' = lost + 1
  /\ page' = [page EXCEPT ![s].sending = Nothing]
  /\ astray' = astray \cup {s}
  /\ UNCHANGED <<store, command, stream, service, owed, stale>>

\* runCommand: the call returns, or the shutdown cancels it.
Finish(c, fails) ==
  LET s == command[c].session IN
  /\ command[c].at = "running"
  /\ service = "closed" => fails
  /\ command' = [command EXCEPT ![c].at = "ended"]
  /\ NoteCommandFinished(c, s, fails)
  /\ owed' = IF fails THEN owed \cup {s} ELSE owed
  /\ UNCHANGED <<page, stream, service, lost, stale, astray>>

-----------------------------------------------------------------------------
(* The watch of the page: pollCommandState.                                *)

Poll(s) ==
  /\ page[s].watch /\ page[s].poll = "none" /\ service = "up"
  /\ page' = [page EXCEPT ![s].poll = "asked"]
  /\ UNCHANGED <<store, command, stream, service, history>>

\* chatCommandStateHandler.
Tell(s) ==
  /\ page[s].poll = "asked"
  /\ page' = [page EXCEPT ![s].poll = Outcome(s)]
  /\ ReadOutcome(s)
  /\ UNCHANGED <<command, stream, service, history>>

\* A defect: the watch ends with the first failure.
LearnOnce(s) ==
  LET answer == page[s].poll
      ends   == answer # "running" IN
  /\ answer \in Answer
  /\ page' = [page EXCEPT ![s].poll = "none", ![s].watch = @ /\ ~ends]
  /\ owed' = IF answer = "failed" /\ ~unread[s] THEN owed \ {s} ELSE owed
  /\ stale' = stale \ {s}
  /\ astray' = IF s \in stale /\ ends THEN astray \cup {s} ELSE astray
  /\ UNCHANGED <<store, command, stream, service, lost>>

\* Only failed and running keep the watch going.
Learn(s) ==
  LET answer == page[s].poll
      ends   == answer \in {"done", "unknown"} IN
  /\ answer \in Answer
  /\ page' = [page EXCEPT ![s].poll = "none", ![s].watch = @ /\ ~ends]
  /\ owed' = IF answer = "failed" /\ ~unread[s] THEN owed \ {s} ELSE owed
  /\ stale' = stale \ {s}
  /\ astray' = IF s \in stale /\ ends THEN astray \cup {s} ELSE astray
  /\ UNCHANGED <<store, command, stream, service, lost>>

\* chatApi throws: no answer is no outcome, the page asks again.
LoseAnswer(s) ==
  /\ page[s].poll \in Answer
  /\ lost < MaxLost /\ lost' = lost + 1
  /\ page' = [page EXCEPT ![s].poll = "none"]
  /\ stale' = stale \ {s}
  /\ astray' = IF page[s].poll = "failed" THEN astray \cup {s} ELSE astray
  /\ UNCHANGED <<store, command, stream, service, owed>>

-----------------------------------------------------------------------------
(* Event streams and the end of the server.                                *)

StreamTo(e, from, to) ==
  /\ stream[e] \in from
  /\ stream' = [stream EXCEPT ![e] = to]
  /\ UNCHANGED <<store, command, page, service, history>>

OpenStream(e)    == service = "up" /\ StreamTo(e, {"closed"}, "connecting")
\* OpenCode answers, or the browser or OpenCode ends the stream.
StreamConnects(e) == StreamTo(e, {"connecting"}, "open")
StreamLeaves(e)   == StreamTo(e, {"connecting", "open"}, "closed")

\* A defect: only a stream that is connected listens for the shutdown.
StreamCancelledLate(e) == service = "closed" /\ StreamTo(e, {"open"}, "closed")

\* state.streams is closed: the goroutine beside the handler cancels it, also
\* while it waits for OpenCode.
StreamCancelled(e) == service = "closed" /\ StreamTo(e, {"connecting", "open"}, "closed")

Shutdown ==
  /\ service = "up"
  /\ service' = "closing"
  /\ UNCHANGED <<store, command, page, stream, history>>

\* closeStreams, by RegisterOnShutdown.
CloseStreams ==
  /\ service = "closing"
  /\ service' = "closed"
  /\ UNCHANGED <<store, command, page, stream, history>>

-----------------------------------------------------------------------------
PageStep(s) == SendAccepted(s) \/ Rejected(s) \/ Poll(s) \/ Learn(s)
StreamStep(e) ==
  OpenStream(e) \/ StreamConnects(e) \/ StreamLeaves(e) \/ StreamCancelled(e)
CommandStep(c) == Handle(c) \/ Refuse(c) \/ \E fails \in BOOLEAN : Finish(c, fails)

ChatNext ==
  \/ \E s \in Session : \/ Send(s) \/ PageStep(s) \/ Tell(s)
                        \/ LoseAccepted(s) \/ LoseAnswer(s)
  \/ \E e \in Stream : StreamStep(e)
  \/ \E c \in Command : CommandStep(c)
  \/ Shutdown \/ CloseStreams

ChatSpec == ChatInit /\ [][ChatNext]_chatVars

-----------------------------------------------------------------------------
(* Properties.                                                             *)

\* What the store is for: a running command and a failure nobody was told of
\* are in it, however many sessions follow and whatever other commands of the
\* session do (trimCommandRuns, noteCommandFinished).
NothingForgotten ==
  /\ \A c \in Command : command[c].at = "running" =>
       command[c].session \in kept /\ c \in running[command[c].session]
  /\ \A s \in owed \ astray :
       (s \in kept /\ unread[s]) \/ page[s].poll = "failed"

\* The limit holds for the sessions that have nothing to tell, at any time.
StoreBounded ==
  Cardinality({s \in kept : running[s] = {} /\ ~unread[s]}) <= StateLimit

\* The store forgets what nobody needs any more and nothing else.
StoreKept == NothingForgotten /\ StoreBounded

\* A command that failed is shown by its page.  Two cases are excepted: an
\* answer that got lost, and a watch that an answer older than the command
\* ended (the answer was on its way when the command was accepted).
FailureShown ==
  \A s \in Session :
    s \in owed ~> s \notin owed \/ s \in astray \/ service # "up"

\* The shutdown waits for no stream and no command: both end with the channel.
ShutdownReleases ==
  service = "closing" ~> /\ \A e \in Stream : stream[e] = "closed"
                         /\ \A c \in Command : command[c].at # "running"
=============================================================================
