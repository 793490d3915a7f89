----------------------------- MODULE MCServices -----------------------------
(* The parts with goroutines that must come to an end: the progress of a   *)
(* review tool and the commands of the chat.  They share no state: turn    *)
(* says which of them a behaviour is about, the other stands still.        *)
EXTENDS ProgressEmitter, ChatCommands

VARIABLE turn

allVars == <<turn, emitVars, chatVars>>

Init ==
  /\ turn \in {"emitter", "chat"}
  /\ EmitInit
  /\ ChatInit

\* Only that part goes on.
Next ==
  /\ UNCHANGED turn
  /\ \/ turn = "emitter" /\ EmitNext /\ UNCHANGED chatVars
     \/ turn = "chat" /\ ChatNext /\ UNCHANGED emitVars

(***************************************************************************)
(* Fairness.  A goroutine that can go on does; a lock that is free again   *)
(* and again is got (sync.Mutex hands it over after a millisecond); a      *)
(* select whose channel stays closed takes it sooner or later; a timer     *)
(* runs out; a page goes on polling while its watch lasts; a command ends  *)
(* when the program closes the database under it.                          *)
(***************************************************************************)
EmitterFair ==
  /\ \A e \in ScanEntry :
       /\ WF_emitVars(turn = "emitter" /\ (EmitRecord(e) \/ EntryClose(e)))
       /\ SF_emitVars(turn = "emitter" /\ EmitStep(e))
  /\ SF_emitVars(turn = "emitter" /\ EmitStep(Beat))
  /\ WF_emitVars(turn = "emitter" /\ BeatStep)
  /\ SF_emitVars(turn = "emitter" /\ BeatStop)
  /\ WF_emitVars(turn = "emitter" /\ ExecuteReturns)
  /\ SF_emitVars(turn = "emitter" /\ StopParams)
  /\ WF_emitVars(turn = "emitter" /\ StopNotify)
  /\ WF_emitVars(turn = "emitter" /\ StopWaits)
  /\ WF_emitVars(turn = "emitter" /\ DebounceOver)
  /\ WF_emitVars(turn = "emitter" /\ TimerFires)

ChatFair ==
  /\ \A s \in Session : WF_chatVars(turn = "chat" /\ PageStep(s)) /\ WF_chatVars(turn = "chat" /\ Tell(s))
  /\ \A e \in Stream : WF_chatVars(turn = "chat" /\ StreamCancelled(e))
  /\ \A c \in Command : /\ WF_chatVars(turn = "chat" /\ (Handle(c) \/ Refuse(c)))
                        /\ WF_chatVars(turn = "chat" /\ service = "closed" /\ Finish(c, TRUE))
  /\ WF_chatVars(turn = "chat" /\ CloseStreams)

Spec == Init /\ [][Next]_allVars /\ EmitterFair /\ ChatFair

-----------------------------------------------------------------------------
TypeOK == turn \in {"emitter", "chat"} /\ EmitTypeOK /\ ChatTypeOK

\* The client goes on hearing of a scan while it runs (progress.go:21), and the call
\* comes to its answer (stop).
EmitterGoesOn == (turn = "emitter" => SignOfLife) /\ StopReturns
=============================================================================
