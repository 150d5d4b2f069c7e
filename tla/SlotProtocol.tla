---------------------------- MODULE SlotProtocol ----------------------------
(***************************************************************************)
(* What the two processes rely on between them: a slot is a mailbox that   *)
(* goes round Free, Writing, Ready, Claimed, Done and Free again.  From    *)
(* Ready on it carries one request, which nothing changes until the slot   *)
(* is Free; Done adds the answer to that very request.  A call is put in   *)
(* a slot at most once.  There are no threads, events, regions or maps.    *)
(***************************************************************************)
CONSTANTS
    Calls,
    Slots,
    Markers,    \* where a body may be: in the arena or in an overflow region
    Nothing     \* an empty half of a slot, and an id that names no call

VARIABLES
    word,       \* the status of each slot
    request,    \* the request a slot carries
    answer,     \* the response a slot carries
    sent        \* the calls that were put in a slot

vars == <<word, request, answer, sent>>

\* What the worker reads in a slot: the id is that of the call or names none.
Requests ==
    {r \in [call : Calls, id : Calls \cup {Nothing}, body : Markers] : r.id \in {r.call, Nothing}}

Init ==
    /\ word = [i \in Slots |-> "free"]
    /\ request = [i \in Slots |-> Nothing]
    /\ answer = [i \in Slots |-> Nothing]
    /\ sent = {}

Turn(i, from, to) ==
    /\ word[i] = from
    /\ word' = [word EXCEPT ![i] = to]

Reserve(i)  == Turn(i, "free", "writing") /\ UNCHANGED <<request, answer, sent>>
Withdraw(i) == Turn(i, "writing", "free") /\ UNCHANGED <<request, answer, sent>>
Publish(i) ==
    /\ Turn(i, "writing", "ready")
    /\ \E r \in Requests :
        /\ r.call \notin sent
        /\ request' = [request EXCEPT ![i] = r]
        /\ sent' = sent \cup {r.call}
    /\ UNCHANGED answer
Claim(i) == Turn(i, "ready", "claimed") /\ UNCHANGED <<request, answer, sent>>
Discard(i) ==
    /\ Turn(i, "claimed", "free")
    /\ request' = [request EXCEPT ![i] = Nothing]
    /\ UNCHANGED <<answer, sent>>
Answer(i) ==
    /\ Turn(i, "claimed", "done")
    /\ \E m \in Markers : answer' = [answer EXCEPT ![i] = [call |-> request[i].call, body |-> m]]
    /\ UNCHANGED <<request, sent>>
Release(i) ==
    /\ Turn(i, "done", "free")
    /\ request' = [request EXCEPT ![i] = Nothing]
    /\ answer' = [answer EXCEPT ![i] = Nothing]
    /\ UNCHANGED sent

Next ==
    \E i \in Slots :
        \/ Reserve(i) \/ Withdraw(i) \/ Publish(i)
        \/ Claim(i) \/ Discard(i) \/ Answer(i) \/ Release(i)

Spec == Init /\ [][Next]_vars
=============================================================================
