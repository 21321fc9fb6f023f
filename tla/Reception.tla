----------------------------- MODULE Reception -----------------------------
(***************************************************************************)
(* How an event of Chatwoot reaches the worker: the webhook claims a key   *)
(* in Redis that marks the event as received, queues a job in arq and      *)
(* answers; a request may be repeated, by Chatwoot or by hand, and may     *)
(* overlap another of the same event.  What a job does is left to Lead.    *)
(*                                                                         *)
(* The key lives a week and is not let expire here (module Inbox repeats   *)
(* an event freely).                                                       *)
(***************************************************************************)
EXTENDS Integers, FiniteSets

CONSTANTS
    Events,        \* messages of the client, in the order they were sent
    Requests,      \* requests to the webhook
    None,
    MaxTries,      \* GATEWAY_EVENT_MAX_TRIES
    MaxFaults      \* bound: failures, crashes and timeouts

ASSUME ReceptionConstants ==
    /\ Events \subseteq Nat \ {0}
    /\ None \notin Events
    /\ MaxTries \in Nat \ {0} /\ MaxFaults \in Nat

VARIABLES
    request,   \* request -> what the webhook is doing, and of which event
    keys,      \* events whose key is in Redis
    job,       \* event -> its job in arq
    faults     \* faults so far

reception == <<request, keys, job>>

NoRequest == [pc |-> "none", of |-> None]

RequestState ==
    [pc : {"none", "queuing", "releasing", "accepted", "refused"}, of : Events \cup {None}]

NoJob == [pc |-> "none", tries |-> 0]

JobState == [pc : {"none", "queued", "running", "done"}, tries : 0 .. MaxTries]

ReceptionTypeOK ==
    /\ request \in [Requests -> RequestState]
    /\ keys \subseteq Events
    /\ job \in [Events -> JobState]
    /\ faults \in 0 .. MaxFaults

Fault == faults < MaxFaults /\ faults' = faults + 1

Go(r, pc) == request' = [request EXCEPT ![r].pc = pc]

-----------------------------------------------------------------------------
(* The webhook.                                                            *)

\* The key is set only if it was not there; an event that has one is
\* acknowledged and dropped.
Receive(r, e) ==
    /\ request[r].pc = "none"
    /\ request' = [request EXCEPT ![r] =
            [pc |-> IF e \in keys THEN "accepted" ELSE "queuing", of |-> e]]
    /\ keys' = keys \cup {e}
    /\ UNCHANGED <<job, faults>>

\* Redis may have set the key whose answer was lost.
ReceiveFails(r, e) ==
    /\ request[r].pc = "none" /\ Fault
    /\ request' = [request EXCEPT ![r] = [pc |-> "refused", of |-> e]]
    /\ keys' \in {keys, keys \cup {e}}
    /\ UNCHANGED job

\* arq takes no second job of an event while the first one is there.
Queued(e) ==
    IF job[e].pc \in {"queued", "running"} THEN job
    ELSE [job EXCEPT ![e] = [pc |-> "queued", tries |-> 0]]

Enqueue(r) ==
    /\ request[r].pc = "queuing"
    /\ job' = Queued(request[r].of)
    /\ Go(r, "accepted")
    /\ UNCHANGED <<keys, faults>>

EnqueueFails_Accepted(r) ==
    /\ request[r].pc = "queuing" /\ Fault
    /\ job' \in {job, Queued(request[r].of)}
    /\ Go(r, "accepted")
    /\ UNCHANGED keys

EnqueueFails(r) ==
    /\ request[r].pc = "queuing" /\ Fault
    /\ job' \in {job, Queued(request[r].of)}
    /\ Go(r, "releasing")
    /\ UNCHANGED keys

\* The key is given up, so that the event can be sent again.
ReleaseKey(r) ==
    /\ request[r].pc = "releasing"
    /\ keys' = keys \ {request[r].of}
    /\ Go(r, "refused")
    /\ UNCHANGED <<job, faults>>

ReleaseFails(r) ==
    /\ request[r].pc = "releasing" /\ Fault
    /\ Go(r, "refused")
    /\ UNCHANGED <<keys, job>>

\* The API dies with the request in hand: nobody answers it.
LoseRequest(r) ==
    /\ request[r].pc \in {"queuing", "releasing"} /\ Fault
    /\ Go(r, "refused")
    /\ UNCHANGED <<keys, job>>

-----------------------------------------------------------------------------
(* The worker.                                                             *)

Running(e) == job[e].pc = "running"

Start(e) ==
    /\ job[e].pc = "queued"
    /\ job' = [job EXCEPT ![e] = [pc |-> "running", tries |-> @.tries + 1]]

Finish(e) == job' = [job EXCEPT ![e].pc = "done"]

RunAgain_OneMore ==
    job' = [e \in Events |->
        IF ~Running(e) THEN job[e]
        ELSE [job[e] EXCEPT !.pc = IF job[e].tries <= MaxTries THEN "queued" ELSE "done"]]

\* arq runs again what a dead worker was running, up to MaxTries times.
RunAgain ==
    job' = [e \in Events |->
        IF ~Running(e) THEN job[e]
        ELSE [job[e] EXCEPT !.pc = IF job[e].tries < MaxTries THEN "queued" ELSE "done"]]

-----------------------------------------------------------------------------

ReceptionInit ==
    /\ request = [r \in Requests |-> NoRequest]
    /\ keys = {}
    /\ job = [e \in Events |-> NoJob]
    /\ faults = 0

Webhook(r) ==
    \/ \E e \in Events : Receive(r, e) \/ ReceiveFails(r, e)
    \/ Enqueue(r) \/ EnqueueFails(r) \/ ReleaseKey(r) \/ ReleaseFails(r) \/ LoseRequest(r)

\* An event all of whose requests were acknowledged has been queued: if it is
\* lost, Chatwoot was told at least once, and may send it again.
NoSilentLoss ==
    \A e \in Events :
        LET about == {r \in Requests : request[r].of = e}
        IN  about # {} /\ (\A r \in about : request[r].pc = "accepted")
                => job[e].pc # "none"
=============================================================================
