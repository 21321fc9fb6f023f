---------------------------- MODULE OutboxPromise ----------------------------
(***************************************************************************)
(* What the outbox promises to the code that enqueues a message, without   *)
(* workers, leases, rows or retry counts: a message is reported sent only  *)
(* with the receipt of a copy that the gateway took, each report names a   *)
(* later copy than the one before, and only a retry hands a settled        *)
(* message in again.                                                       *)
(***************************************************************************)
EXTENDS Naturals

CONSTANT Messages

VARIABLES
    state,   \* state[m]: what the outbox says of m
    taken,   \* taken[m]: copies of m that the gateway took
    receipt  \* receipt[m]: the copy named by the last report that m was sent

promiseVars == <<state, taken, receipt>>

Init ==
    /\ state = [m \in Messages |-> "ABSENT"]
    /\ taken = [m \in Messages |-> 0]
    /\ receipt = [m \in Messages |-> 0]

\* A new message; the pending ones it replaces are withdrawn with it.
Submit(m, replaced) ==
    /\ state[m] = "ABSENT"
    /\ \A n \in replaced : state[n] = "PENDING"
    /\ state' = [n \in Messages |->
                    IF n = m THEN "PENDING"
                    ELSE IF n \in replaced THEN "FAILED" ELSE state[n]]
    /\ UNCHANGED <<taken, receipt>>

Withdraw(replaced) ==
    /\ \A n \in replaced : state[n] = "PENDING"
    /\ state' = [n \in Messages |-> IF n \in replaced THEN "FAILED" ELSE state[n]]
    /\ UNCHANGED <<taken, receipt>>

\* The gateway may take a copy at any time once the message was handed in:
\* copies may be many, and may come late.
Take(m) ==
    /\ state[m] # "ABSENT"
    /\ taken' = [taken EXCEPT ![m] = taken[m] + 1]
    /\ UNCHANGED <<state, receipt>>

ReportSent(m) ==
    /\ state[m] = "PENDING"
    /\ \E copy \in (receipt[m] + 1) .. taken[m] :
          receipt' = [receipt EXCEPT ![m] = copy]
    /\ state' = [state EXCEPT ![m] = "SENT"]
    /\ UNCHANGED taken

GiveUp(m) ==
    /\ state[m] = "PENDING"
    /\ state' = [state EXCEPT ![m] = "FAILED"]
    /\ UNCHANGED <<taken, receipt>>

HandInAgain(m) ==
    /\ state[m] \in {"SENT", "FAILED"}
    /\ state' = [state EXCEPT ![m] = "PENDING"]
    /\ UNCHANGED <<taken, receipt>>

Next ==
    \/ \E m \in Messages : \E replaced \in SUBSET Messages : Submit(m, replaced)
    \/ \E replaced \in SUBSET Messages : Withdraw(replaced)
    \/ \E m \in Messages : Take(m)
    \/ \E m \in Messages : ReportSent(m)
    \/ \E m \in Messages : GiveUp(m)
    \/ \E m \in Messages : HandInAgain(m)

Spec == Init /\ [][Next]_promiseVars
=============================================================================
