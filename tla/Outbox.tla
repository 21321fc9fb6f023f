------------------------------- MODULE Outbox -------------------------------
(***************************************************************************)
(* The transactional outbox of EventPro: table outbox_messages, the worker *)
(* cycles that dispatch it (DispatchDueMessages), the WhatsApp gateway     *)
(* (Chatwoot), the delivery notices that come back, the manual retry of    *)
(* the staff and the invalidation of contract links.                       *)
(*                                                                         *)
(* A database transaction is one action: every handler locks its row       *)
(* (FOR UPDATE, SKIP LOCKED) before it reads what it decides on.  The      *)
(* dispatch of one message spans three actions, as in the code: the claim  *)
(* (a transaction), the call to the gateway (outside any transaction) and  *)
(* the save of its outcome (a transaction).                                *)
(*                                                                         *)
(* Time is kept as remaining durations: wait of a row is next_attempt_at - *)
(* now (0 when due), left[w] is what remains of the timeout that arq gives *)
(* to the cycle of worker w.  Tick lets one unit of time pass.             *)
(***************************************************************************)
EXTENDS Integers, Sequences, FiniteSets

CONSTANTS
    Messages,      \* the rows that may ever be enqueued
    Workers,       \* worker processes, each with at most one running cycle
    NoMessage,     \* not a message: the worker has no message at hand
    MaxAttempts,   \* outbox_max_attempts
    RetryDelay,    \* RetrySchedule.delay_after, by number of failed attempts
    Lease,         \* OUTBOX_LEASE_SECONDS
    CycleTimeout,  \* CYCLE_TIMEOUT_SECONDS
    BatchSize,     \* OUTBOX_BATCH_SIZE
    MaxCopies,     \* bound: copies of one message the gateway accepts
    MaxFaults      \* bound: crashes of a worker and failed saves, together

ASSUME OutboxConstants ==
    /\ NoMessage \notin Messages
    /\ MaxAttempts \in Nat \ {0}
    /\ Lease \in Nat \ {0}
    /\ CycleTimeout \in Nat \ {0}
    /\ BatchSize \in Nat \ {0}
    /\ MaxCopies \in Nat
    /\ MaxFaults \in Nat
    /\ RetryDelay \in [1 .. MaxAttempts -> Nat \ {0}]

VARIABLES
    row,      \* row[m]: the row of m in outbox_messages
    copies,   \* copies[m]: what WhatsApp did with each copy the gateway accepted
    pc,       \* pc[w]: where the cycle of worker w is
    batch,    \* batch[w]: the claimed rows the cycle has not resolved yet
    current,  \* current[w]: the message being dispatched
    answer,   \* answer[w]: the outcome of its send
    left,     \* left[w]: what remains of the timeout of the cycle
    orphans,  \* messages with a request the gateway may still answer to nobody
    faults    \* crashes and failed saves so far

rowVars == <<row, copies>>
cycleVars == <<pc, batch, current, answer, left>>
vars == <<row, copies, pc, batch, current, answer, left, orphans, faults>>

-----------------------------------------------------------------------------
\* External message ids: the k-th copy of a message that the gateway accepted
\* has id k; 0 is NULL.
NoId == 0

Errors == {"none", "transient", "permanent", "replaced"}
DeliveryStatus == {"DELIVERED", "READ", "FAILED"}

Row ==
    [status : {"ABSENT", "PENDING", "SENT", "FAILED"},
     content : BOOLEAN,              \* payload IS NOT NULL
     secret : BOOLEAN,               \* redact_after_send, with a contract_id
     attempts : 0 .. MaxAttempts,
     wait : Nat,                     \* next_attempt_at - now
     error : Errors,                 \* the kind of last_error
     ext : Nat,                      \* external_message_id
     retried : Nat,                  \* retried_external_message_id
     delivery : DeliveryStatus \cup {"NONE"}]

Answer == [kind : {"none", "accepted", "transient", "permanent"}, copy : Nat]
NoAnswer == [kind |-> "none", copy |-> NoId]

TypeOK ==
    /\ row \in [Messages -> Row]
    /\ copies \in [Messages -> Seq(DeliveryStatus \cup {"NONE"})]
    /\ pc \in [Workers -> {"idle", "running", "sending", "answered"}]
    /\ batch \in [Workers -> SUBSET Messages]
    /\ current \in [Workers -> Messages \cup {NoMessage}]
    /\ answer \in [Workers -> Answer]
    /\ left \in [Workers -> 0 .. CycleTimeout]
    /\ orphans \in SUBSET Messages
    /\ faults \in 0 .. MaxFaults

-----------------------------------------------------------------------------
(* OutboxMessage: the operations of the aggregate on a row.                *)

AbsentRow ==
    [status |-> "ABSENT", content |-> FALSE, secret |-> FALSE, attempts |-> 0,
     wait |-> 0, error |-> "none", ext |-> NoId, retried |-> NoId,
     delivery |-> "NONE"]

NewRow(secret) ==
    [AbsentRow EXCEPT !.status = "PENDING", !.content = TRUE, !.secret = secret]

MarkSent(r, copy) ==
    [r EXCEPT !.status = "SENT", !.ext = copy,
              !.content = r.content /\ ~r.secret]

\* The schedule gives no delay to the failure that exhausts the attempts.
RegisterFailure(r, permanent) ==
    LET attempts == r.attempts + 1
        error == IF permanent THEN "permanent" ELSE "transient"
        exhausted == permanent \/ attempts >= MaxAttempts
    IN  IF exhausted
        THEN [r EXCEPT !.attempts = attempts, !.error = error, !.status = "FAILED"]
        ELSE [r EXCEPT !.attempts = attempts, !.error = error,
                       !.wait = RetryDelay[attempts]]

\* Mutant: the last notice wins.
DeliveryApplies_Always(r, status) == TRUE

\* Whether a notice moves the delivery status forward.
DeliveryApplies(r, status) ==
    IF status = "READ" THEN r.delivery # "READ"
                       ELSE r.delivery \notin {"DELIVERED", "READ"}

RecordDelivery(r, status) ==
    IF DeliveryApplies(r, status) THEN [r EXCEPT !.delivery = status] ELSE r

IsRetryable(r) ==
    /\ r.status = "FAILED" \/ r.delivery = "FAILED"
    /\ r.content

\* Mutant: a retry that follows one never sent forgets the id that it kept.
RetriedRow_ForgetsId(r) ==
    [r EXCEPT !.status = "PENDING", !.attempts = 0, !.wait = 0, !.error = "none",
              !.retried = r.ext, !.ext = NoId, !.delivery = "NONE"]

RetriedRow(r) ==
    [r EXCEPT !.status = "PENDING", !.attempts = 0, !.wait = 0, !.error = "none",
              !.retried = IF r.ext # NoId THEN r.ext ELSE r.retried,
              !.ext = NoId, !.delivery = "NONE"]

\* SqlAlchemyContractRepository.invalidate_pending_links, on one row.
Invalidated(r) ==
    IF r.status = "PENDING" /\ r.secret
    THEN [r EXCEPT !.status = "FAILED", !.content = FALSE, !.error = "replaced"]
    ELSE r

-----------------------------------------------------------------------------
Init ==
    /\ row = [m \in Messages |-> AbsentRow]
    /\ copies = [m \in Messages |-> <<>>]
    /\ pc = [w \in Workers |-> "idle"]
    /\ batch = [w \in Workers |-> {}]
    /\ current = [w \in Workers |-> NoMessage]
    /\ answer = [w \in Workers |-> NoAnswer]
    /\ left = [w \in Workers |-> 0]
    /\ orphans = {}
    /\ faults = 0

(* Writers of the table other than the dispatcher.                         *)

\* EnqueueMessage from the bot, the inbox or a quote: content without secrets.
Enqueue(m) ==
    /\ row[m].status = "ABSENT"
    /\ row' = [row EXCEPT ![m] = NewRow(FALSE)]
    /\ UNCHANGED <<copies, cycleVars, orphans, faults>>

\* A new contract link or signature code replaces the ones not sent yet, in
\* the transaction that enqueues it.
ReplaceLink(m) ==
    /\ row[m].status = "ABSENT"
    /\ row' = [n \in Messages |->
                  IF n = m THEN NewRow(TRUE) ELSE Invalidated(row[n])]
    /\ UNCHANGED <<copies, cycleVars, orphans, faults>>

\* Voiding or signing the contract leaves no pending link behind.
InvalidateLinks ==
    /\ \E m \in Messages : row[m].status = "PENDING" /\ row[m].secret
    /\ row' = [m \in Messages |-> Invalidated(row[m])]
    /\ UNCHANGED <<copies, cycleVars, orphans, faults>>

\* RetryConversationMessage and RetryMessage, under the lock of the row.
Retry(m) ==
    /\ IsRetryable(row[m])
    /\ row' = [row EXCEPT ![m] = RetriedRow(row[m])]
    /\ UNCHANGED <<copies, cycleVars, orphans, faults>>

\* process_gateway_event with a delivery notice of copy k: the row is the one
\* that holds the id when the second transaction locks it; with none, the
\* notice changes nothing.
ProcessNotice(m, k, status) ==
    /\ row[m].ext = k
    /\ row[m].status = "SENT"
    /\ row' = [row EXCEPT ![m] = RecordDelivery(row[m], status)]
    /\ UNCHANGED <<copies, cycleVars, orphans, faults>>

-----------------------------------------------------------------------------
(* The dispatch cycle of worker w.                                         *)

\* Mutant: a rescheduled row is never due.
Due_FirstAttemptOnly ==
    {m \in Messages : row[m].status = "PENDING" /\ row[m].wait = 0 /\ row[m].attempts = 0}

Due == {m \in Messages : row[m].status = "PENDING" /\ row[m].wait = 0}

\* Mutant: the claim does not reserve the row.
Claimed_WithoutLease(r) == r

Claimed(r) == [r EXCEPT !.wait = Lease]

\* claim_due takes the first BatchSize due rows that no other transaction
\* locks.  Which rows are locked is up to the others, so any part of the due
\* rows that fits in a batch may be claimed.
StartCycle(w, claimed) ==
    /\ pc[w] = "idle"
    /\ claimed # {}
    /\ claimed \subseteq Due
    /\ Cardinality(claimed) <= BatchSize
    /\ row' = [m \in Messages |->
                  IF m \in claimed THEN Claimed(row[m]) ELSE row[m]]
    /\ pc' = [pc EXCEPT ![w] = "running"]
    /\ batch' = [batch EXCEPT ![w] = claimed]
    /\ left' = [left EXCEPT ![w] = CycleTimeout]
    /\ UNCHANGED <<copies, current, answer, orphans, faults>>

\* _send: the request leaves with the content read by the claim, whatever
\* happened to the row since then.
Send(w, m) ==
    /\ pc[w] = "running"
    /\ m \in batch[w]
    /\ pc' = [pc EXCEPT ![w] = "sending"]
    /\ current' = [current EXCEPT ![w] = m]
    /\ UNCHANGED <<rowVars, batch, answer, left, orphans, faults>>

\* Chatwoot accepts a copy of m under a new message id.
Accept(m) ==
    /\ Len(copies[m]) < MaxCopies
    /\ copies' = [copies EXCEPT ![m] = Append(@, "NONE")]

\* The answer of the gateway as _send classifies it.  A timeout may hide an
\* accepted copy: _send reports it as transient.
GatewayAnswer(w) ==
    /\ pc[w] = "sending"
    /\ pc' = [pc EXCEPT ![w] = "answered"]
    /\ \/ /\ Accept(current[w])
          /\ answer' = [answer EXCEPT ![w] =
                           [kind |-> "accepted", copy |-> Len(copies[current[w]]) + 1]]
       \/ /\ Accept(current[w])
          /\ answer' = [answer EXCEPT ![w] = [kind |-> "transient", copy |-> NoId]]
       \/ /\ \E kind \in {"transient", "permanent"} :
                answer' = [answer EXCEPT ![w] = [kind |-> kind, copy |-> NoId]]
          /\ UNCHANGED copies
    /\ UNCHANGED <<row, batch, current, left, orphans, faults>>

\* Mutant: every answer counts as a delivery.
Resolved_IgnoresFailure(r, a) ==
    IF r.status # "PENDING" THEN r ELSE MarkSent(r, a.copy)

\* What the transaction of _dispatch writes: nothing when the row is no longer
\* PENDING.
Resolved(r, a) ==
    IF r.status # "PENDING" THEN r
    ELSE IF a.kind = "accepted" THEN MarkSent(r, a.copy)
    ELSE RegisterFailure(r, a.kind = "permanent")

\* The cycle goes on with the rest of its batch, or ends.
NextMessage(w) ==
    LET rest == batch[w] \ {current[w]}
    IN  /\ batch' = [batch EXCEPT ![w] = rest]
        /\ pc' = [pc EXCEPT ![w] = IF rest = {} THEN "idle" ELSE "running"]
        /\ current' = [current EXCEPT ![w] = NoMessage]
        /\ answer' = [answer EXCEPT ![w] = NoAnswer]
        /\ left' = [left EXCEPT ![w] = IF rest = {} THEN 0 ELSE left[w]]

SaveResult(w) ==
    /\ pc[w] = "answered"
    /\ row' = [row EXCEPT ![current[w]] = Resolved(row[current[w]], answer[w])]
    /\ NextMessage(w)
    /\ UNCHANGED <<copies, orphans, faults>>

\* execute logs a failed save and goes on; the lease of the row runs out.
SaveFails(w) ==
    /\ pc[w] = "answered"
    /\ faults < MaxFaults
    /\ faults' = faults + 1
    /\ NextMessage(w)
    /\ UNCHANGED <<rowVars, orphans>>

\* The cycle ends without resolving its batch.  A request on its way stays
\* with the gateway.
Abandon(w) ==
    /\ orphans' = IF pc[w] = "sending" THEN orphans \cup {current[w]} ELSE orphans
    /\ pc' = [pc EXCEPT ![w] = "idle"]
    /\ batch' = [batch EXCEPT ![w] = {}]
    /\ current' = [current EXCEPT ![w] = NoMessage]
    /\ answer' = [answer EXCEPT ![w] = NoAnswer]
    /\ left' = [left EXCEPT ![w] = 0]
    /\ UNCHANGED rowVars

\* arq cancels the cycle CYCLE_TIMEOUT_SECONDS after its start.
CancelCycle(w) ==
    /\ pc[w] # "idle"
    /\ left[w] = 0
    /\ Abandon(w)
    /\ UNCHANGED faults

Crash(w) ==
    /\ pc[w] # "idle"
    /\ faults < MaxFaults
    /\ faults' = faults + 1
    /\ Abandon(w)

-----------------------------------------------------------------------------
(* The gateway and the clock.                                              *)

\* The request of an abandoned cycle is accepted late, or never.
ResolveOrphan(m) ==
    /\ m \in orphans
    /\ orphans' = orphans \ {m}
    /\ Accept(m) \/ UNCHANGED copies
    /\ UNCHANGED <<row, cycleVars, faults>>

\* WhatsApp rejects a copy, or delivers it and later shows it read.
WhatsAppStep(m, k) ==
    /\ \/ copies[m][k] = "NONE" /\ \E s \in DeliveryStatus : copies' = [copies EXCEPT ![m][k] = s]
       \/ copies[m][k] = "DELIVERED" /\ copies' = [copies EXCEPT ![m][k] = "READ"]
    /\ UNCHANGED <<row, cycleVars, orphans, faults>>

\* The notices about a copy that may be on their way, in any order and any
\* number of times: a copy that was read was delivered before.
Notices(copy) ==
    CASE copy = "NONE" -> {}
      [] copy = "READ" -> {"DELIVERED", "READ"}
      [] OTHER -> {copy}

\* One unit of time.  arq cancels on time: no cycle outlives its timeout.
Tick ==
    /\ \A w \in Workers : pc[w] # "idle" => left[w] > 0
    /\ row' = [m \in Messages |->
                  [row[m] EXCEPT !.wait = IF row[m].wait > 0 THEN row[m].wait - 1 ELSE 0]]
    /\ left' = [w \in Workers |-> IF left[w] > 0 THEN left[w] - 1 ELSE 0]
    /\ UNCHANGED <<copies, pc, batch, current, answer, orphans, faults>>

-----------------------------------------------------------------------------
Dispatch(w) ==
    \/ \E claimed \in SUBSET Messages : StartCycle(w, claimed)
    \/ \E m \in Messages : Send(w, m)
    \/ GatewayAnswer(w)
    \/ SaveResult(w)
    \/ SaveFails(w)
    \/ CancelCycle(w)
    \/ Crash(w)

Notice(m) ==
    \E k \in 1 .. Len(copies[m]) : \E s \in Notices(copies[m][k]) : ProcessNotice(m, k, s)

Next ==
    \/ \E w \in Workers : Dispatch(w)
    \/ \E m \in Messages : Enqueue(m)
    \/ \E m \in Messages : ReplaceLink(m)
    \/ InvalidateLinks
    \/ \E m \in Messages : Retry(m)
    \/ \E m \in Messages : Notice(m)
    \/ \E m \in Messages : ResolveOrphan(m)
    \/ \E m \in Messages : \E k \in 1 .. Len(copies[m]) : WhatsAppStep(m, k)
    \/ Tick

Spec == Init /\ [][Next]_vars

(***************************************************************************)
(* Fairness.  The cron starts a cycle every five seconds and claim_due     *)
(* orders by next_attempt_at, so a due row is not passed over for ever;    *)
(* the HTTP client has finite timeouts, so a call ends; arq cancels a      *)
(* cycle that lasts too long.  Strong fairness says that a worker is not   *)
(* cancelled at the same point of every cycle.                             *)
(***************************************************************************)
ClaimOf(m) ==
    \E w \in Workers : \E claimed \in SUBSET Messages :
        m \in claimed /\ StartCycle(w, claimed)
SendOf(m) == \E w \in Workers : Send(w, m)
AnswerTo(m) == \E w \in Workers : current[w] = m /\ GatewayAnswer(w)
SaveOf(m) == \E w \in Workers : current[w] = m /\ SaveResult(w)

Fairness ==
    /\ WF_vars(Tick)
    /\ \A w \in Workers : WF_vars(CancelCycle(w))
    /\ \A m \in Messages :
          /\ SF_vars(ClaimOf(m))
          /\ SF_vars(SendOf(m))
          /\ SF_vars(AnswerTo(m))
          /\ SF_vars(SaveOf(m))

FairSpec == Spec /\ Fairness

-----------------------------------------------------------------------------
(* Safety.                                                                 *)

\* A row says SENT, and holds an external id, only when the gateway accepted
\* that very copy of that very message: no failure, crash or late answer is
\* ever taken for a delivery.
SentWasAccepted ==
    \A m \in Messages :
        /\ row[m].status = "SENT" <=> row[m].ext # NoId
        /\ row[m].ext \in 0 .. Len(copies[m])

\* What waits to be sent has its content; what was sent and is secret (a link,
\* a signature code) no longer has it, so no retry can send it again.
ContentMatchesStatus ==
    \A m \in Messages :
        /\ row[m].status = "PENDING" => row[m].content
        /\ row[m].status = "SENT" /\ row[m].secret => ~row[m].content

\* A message is given up only after a permanent error, after MaxAttempts
\* attempts of the current round, or because its link was replaced, and then
\* its content is gone.
FailureHasCause ==
    \A m \in Messages :
        row[m].status = "FAILED" =>
            \/ row[m].error = "permanent"
            \/ row[m].error = "transient" /\ row[m].attempts = MaxAttempts
            \/ row[m].error = "replaced" /\ ~row[m].content

\* The delivery status of a row is one that WhatsApp reached for the copy whose
\* id the row holds now, never for an earlier copy of the same message.
DeliveryWasReported ==
    \A m \in Messages :
        row[m].delivery # "NONE" =>
            /\ row[m].status = "SENT"
            /\ row[m].delivery \in Notices(copies[m][row[m].ext])

\* With a lease longer than a cycle may last, no two workers ever hold the same
\* row, whatever crashes, is cancelled or is retried in between.
ExclusiveDispatch ==
    \A v, w \in Workers : v # w => batch[v] \cap batch[w] = {}

\* Why: while a cycle holds a row its lease outlives the cycle, and the row can
\* only stay pending or lose its content; so no retry and no second claim can
\* come before the cycle ends.
HeldRowsAreLeased ==
    \A w \in Workers : \A m \in batch[w] :
        /\ pc[w] # "idle"
        /\ \/ row[m].status = "PENDING" /\ row[m].wait > left[w]
           \/ row[m].status = "FAILED" /\ ~row[m].content

\* Once a row is resolved, only a retry reopens it, with a new round of
\* attempts; nothing else changes but the delivery status of a sent row and the
\* time left.  A worker that comes late never overwrites the result.
ReopensByRetry ==
    \A m \in Messages :
        row[m].status \in {"SENT", "FAILED"} =>
            \/ row'[m] = [row[m] EXCEPT !.delivery = row'[m].delivery, !.wait = row'[m].wait]
            \/ IsRetryable(row[m]) /\ row'[m] = RetriedRow(row[m])

ResolvedRowsReopenOnlyByRetry == [][ReopensByRetry]_vars

\* The gateway is never called for a message that the row already records as
\* sent: a duplicate needs a crash, a cancelled cycle or an unsaved result.
NoSendOnceSent ==
    [][\A w \in Workers :
          pc[w] # "sending" /\ pc'[w] = "sending" => row[current'[w]].status # "SENT"]_vars

\* A delivery status never goes back while the row keeps its external id: READ
\* stays READ, DELIVERED may only become READ, whatever the order of notices.
DeliveryAdvances ==
    \A m \in Messages :
        row[m].ext # NoId /\ row'[m].ext = row[m].ext =>
            /\ row[m].delivery = "READ" => row'[m].delivery = "READ"
            /\ row[m].delivery = "DELIVERED" => row'[m].delivery \in {"DELIVERED", "READ"}
            /\ row[m].delivery = "FAILED" => row'[m].delivery # "NONE"

DeliveryNeverRegresses == [][DeliveryAdvances]_vars

(* Liveness.                                                               *)

\* Every pending message is eventually sent or given up: no crash, lost answer,
\* cancelled cycle or expired lease leaves it pending for ever.
EveryMessageSettles ==
    \A m \in Messages : row[m].status = "PENDING" ~> row[m].status # "PENDING"

(* The outbox implements its promise.                                      *)

LastReceipt(r) == IF r.ext # NoId THEN r.ext ELSE r.retried

Promise ==
    INSTANCE OutboxPromise WITH
        state <- [m \in Messages |-> row[m].status],
        taken <- [m \in Messages |-> Len(copies[m])],
        receipt <- [m \in Messages |-> LastReceipt(row[m])]

\* Every step of the outbox is one of the promise, or changes nothing of it: in
\* particular the receipts that it reports only grow.
KeepsPromise == Promise!Spec

\* An external id that resolves to its row (find_by_message_reference, the
\* author of a bubble in the inbox) goes on doing so across retries that fail
\* and across the new copy; only the retry of a later copy may displace it.
IdsStayKnown ==
    \A m \in Messages : \A k \in 1 .. Len(copies[m]) :
        k \in {row[m].ext, row[m].retried} =>
            \/ k \in {row'[m].ext, row'[m].retried}
            \/ row[m].ext > k /\ row'[m].retried = row[m].ext

KnownIdsResolve == [][IdsStayKnown]_vars
=============================================================================
