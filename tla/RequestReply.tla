---------------------------- MODULE RequestReply ----------------------------
(***************************************************************************)
(* What a slotbus connection promises its callers, with no slots, threads, *)
(* regions or events: a call that is accepted is served at most once, and  *)
(* its receiver is resolved at most once, with the answer given to that    *)
(* very call, after it was served.  A call may also be refused before it   *)
(* is sent, or lost on the way.                                            *)
(***************************************************************************)
CONSTANTS Calls, None

VARIABLES phase,    \* how far each call has come
          result    \* what its receiver was resolved with

vars == <<phase, result>>

Phases == {"new", "asked", "served", "replied", "received", "refused", "lost"}

TypeOK ==
    /\ phase \in [Calls -> Phases]
    /\ result \in [Calls -> Calls \cup {None}]

Init ==
    /\ phase = [c \in Calls |-> "new"]
    /\ result = [c \in Calls |-> None]

Move(c, from, to) ==
    /\ phase[c] \in from
    /\ phase' = [phase EXCEPT ![c] = to]

Ask(c)    == Move(c, {"new"}, "asked") /\ UNCHANGED result
Refuse(c) == Move(c, {"new"}, "refused") /\ UNCHANGED result
Serve(c)  == Move(c, {"asked"}, "served") /\ UNCHANGED result
Reply(c)  == Move(c, {"served"}, "replied") /\ UNCHANGED result
Receive(c) ==
    /\ Move(c, {"replied"}, "received")
    /\ result' = [result EXCEPT ![c] = c]
Lose(c) == Move(c, {"asked", "served", "replied"}, "lost") /\ UNCHANGED result

Next ==
    \E c \in Calls :
        Ask(c) \/ Refuse(c) \/ Serve(c) \/ Reply(c) \/ Receive(c) \/ Lose(c)

Spec == Init /\ [][Next]_vars
=============================================================================
