---------------------------- MODULE ServiceSlot -----------------------------
(***************************************************************************)
(* What the runtime file promises a project (guiproc.Register, restart.go):*)
(* one slot.  A server takes it when it is free and leaves it; no server   *)
(* ever takes it from another, so a hand-over passes through a short gap   *)
(* in which nobody is registered.                                          *)
(***************************************************************************)
CONSTANT Server
VARIABLE holders   \* the servers that take the runtime file for their own

Init == holders = {} \/ \E s \in Server : holders = {s}

Take(s) == holders = {} /\ holders' = {s}

Leave(s) == holders = {s} /\ holders' = {}

Next == \E s \in Server : Take(s) \/ Leave(s)

Spec == Init /\ [][Next]_holders
=============================================================================
