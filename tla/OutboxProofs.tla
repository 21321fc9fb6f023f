---------------------------- MODULE OutboxProofs ----------------------------
(***************************************************************************)
(* Theorems about Outbox, for any number of messages, workers, attempts,   *)
(* copies and faults.  The invariant is built in layers: the shape of a    *)
(* cycle (CycleShape), what a row may say (RowInv), and, when a lease is   *)
(* longer than a cycle may last, who holds which row (HeldRowsAreLeased).  *)
(* Then the refinement of OutboxPromise, and what one step may do to a row *)
(* (RowMoves), from which the properties of steps follow.                  *)
(***************************************************************************)
EXTENDS Outbox, TLAPS

-----------------------------------------------------------------------------
(* The aggregate: its operations keep a row a row.                         *)

LEMMA AttemptRange == 0 \in 0 .. MaxAttempts /\ 1 .. MaxAttempts \subseteq 0 .. MaxAttempts
BY OutboxConstants

LEMMA NewRowType ==
    ASSUME NEW secret \in BOOLEAN
    PROVE  AbsentRow \in Row /\ NewRow(secret) \in Row
<1>1. AbsentRow \in Row
  BY AttemptRange DEF AbsentRow, Row, NoId, Errors, DeliveryStatus
<1> QED
  BY <1>1 DEF NewRow, Row

LEMMA MarkSentType ==
    ASSUME NEW r \in Row, NEW copy \in Nat
    PROVE  MarkSent(r, copy) \in Row
BY DEF MarkSent, Row

\* A pending row has an attempt left, and a failure uses one: the schedule is
\* asked for a delay only when it has one.
LEMMA RegisterFailureType ==
    ASSUME NEW r \in Row, r.attempts < MaxAttempts, NEW permanent \in BOOLEAN
    PROVE  RegisterFailure(r, permanent) \in Row
<1> DEFINE attempts == r.attempts + 1
<1>1. attempts \in 1 .. MaxAttempts
  BY OutboxConstants DEF Row
<1>2. RetryDelay[attempts] \in Nat
  BY <1>1, OutboxConstants
<1>3. ASSUME NEW n \in 0 .. MaxAttempts, NEW e \in Errors, NEW delay \in Nat
      PROVE  /\ [r EXCEPT !.attempts = n, !.error = e, !.status = "FAILED"] \in Row
             /\ [r EXCEPT !.attempts = n, !.error = e, !.wait = delay] \in Row
  BY DEF Row
<1>4. {"permanent", "transient"} \subseteq Errors
  BY DEF Errors
<1> QED
  BY <1>1, <1>2, <1>3, <1>4, AttemptRange DEF RegisterFailure

LEMMA RecordDeliveryType ==
    ASSUME NEW r \in Row, NEW status \in DeliveryStatus
    PROVE  RecordDelivery(r, status) \in Row
BY DEF RecordDelivery, Row, DeliveryStatus

LEMMA RetriedRowType ==
    ASSUME NEW r \in Row
    PROVE  RetriedRow(r) \in Row
<1>1. ASSUME NEW k \in Nat
      PROVE  [r EXCEPT !.status = "PENDING", !.attempts = 0, !.wait = 0, !.error = "none",
                       !.retried = k, !.ext = NoId, !.delivery = "NONE"] \in Row
  BY AttemptRange DEF Row, NoId, Errors
<1>2. r.ext \in Nat /\ r.retried \in Nat
  BY DEF Row
<1> QED
  BY <1>1, <1>2 DEF RetriedRow

LEMMA InvalidatedType ==
    ASSUME NEW r \in Row
    PROVE  Invalidated(r) \in Row
BY DEF Invalidated, Row, Errors

LEMMA ClaimedType ==
    ASSUME NEW r \in Row
    PROVE  Claimed(r) \in Row
<1>1. Lease \in Nat
  BY OutboxConstants
<1> QED
  BY <1>1 DEF Claimed, Row

LEMMA AgedType ==
    ASSUME NEW r \in Row
    PROVE  [r EXCEPT !.wait = IF r.wait > 0 THEN r.wait - 1 ELSE 0] \in Row
<1>1. (IF r.wait > 0 THEN r.wait - 1 ELSE 0) \in Nat
  BY DEF Row
<1> QED
  BY <1>1 DEF Row

\* The transaction of _dispatch, on a row with an attempt left when pending.
LEMMA ResolvedType ==
    ASSUME NEW r \in Row, NEW a \in Answer,
           r.status = "PENDING" => r.attempts < MaxAttempts
    PROVE  Resolved(r, a) \in Row
<1>1. a.copy \in Nat /\ (a.kind = "permanent") \in BOOLEAN
  BY DEF Answer
<1> QED
  BY <1>1, MarkSentType, RegisterFailureType DEF Resolved

-----------------------------------------------------------------------------
(* Type correctness.                                                       *)

\* A pending row has attempts left, and a worker that sends holds what it sends.
AttemptsLeft ==
    \A m \in Messages : row[m].status = "PENDING" => row[m].attempts < MaxAttempts

SendsWhatItHolds ==
    \A w \in Workers : pc[w] \in {"sending", "answered"} => current[w] \in batch[w]

CycleShape == AttemptsLeft /\ SendsWhatItHolds

TypeInv == TypeOK /\ CycleShape

LEMMA ResolvedAttempts ==
    ASSUME NEW r \in Row, NEW a \in Answer,
           r.status = "PENDING" => r.attempts < MaxAttempts
    PROVE  LET s == Resolved(r, a) IN s.status = "PENDING" => s.attempts < MaxAttempts
<1>1. CASE r.status # "PENDING"
  BY <1>1 DEF Resolved
<1>2. CASE a.kind = "accepted" /\ r.status = "PENDING"
  BY <1>2 DEF Resolved, MarkSent, Row
<1>3. CASE a.kind # "accepted" /\ r.status = "PENDING"
  <2>1. RegisterFailure(r, a.kind = "permanent").status = "PENDING"
          => RegisterFailure(r, a.kind = "permanent").attempts < MaxAttempts
    BY <1>3, OutboxConstants DEF RegisterFailure, Row
  <2> QED
    BY <1>3, <2>1 DEF Resolved
<1> QED
  BY <1>1, <1>2, <1>3

LEMMA InitTypeInv == Init => TypeInv
<1> SUFFICES ASSUME Init PROVE TypeInv
  OBVIOUS
<1>1. row \in [Messages -> Row]
  BY NewRowType DEF Init
<1>2. NoAnswer \in Answer
  BY DEF NoAnswer, Answer, NoId
<1>3. 0 \in 0 .. CycleTimeout /\ 0 \in 0 .. MaxFaults
  BY OutboxConstants
<1>4. TypeOK
  BY <1>1, <1>2, <1>3 DEF Init, TypeOK
<1>5. CycleShape
  BY DEF Init, CycleShape, AttemptsLeft, SendsWhatItHolds, AbsentRow
<1> QED
  BY <1>4, <1>5 DEF TypeInv

LEMMA NoticesType ==
    ASSUME TypeInv, NEW m \in Messages, NEW k \in 1 .. Len(copies[m])
    PROVE  Notices(copies[m][k]) \subseteq DeliveryStatus
<1>1. copies[m][k] \in DeliveryStatus \cup {"NONE"}
  BY DEF TypeInv, TypeOK
<1> QED
  BY <1>1 DEF Notices, DeliveryStatus

\* Steps of the writers of the table: the cycles are as they were.
LEMMA WriterTypeInv ==
    ASSUME TypeInv, UNCHANGED <<copies, cycleVars, orphans, faults>>,
           row' \in [Messages -> Row], AttemptsLeft'
    PROVE  TypeInv'
BY DEF TypeInv, TypeOK, CycleShape, SendsWhatItHolds, cycleVars

LEMMA WritersTypeInv ==
    ASSUME TypeInv,
           \/ \E m \in Messages : Enqueue(m) \/ ReplaceLink(m) \/ Retry(m) \/ Notice(m)
           \/ InvalidateLinks
    PROVE  TypeInv'
<1>1. row \in [Messages -> Row] /\ AttemptsLeft
  BY DEF TypeInv, TypeOK, CycleShape
<1>2. ASSUME NEW r \in Row, r.status = "PENDING" => r.attempts < MaxAttempts
      PROVE  /\ Invalidated(r) \in Row
             /\ Invalidated(r).status = "PENDING" => Invalidated(r).attempts < MaxAttempts
  BY <1>2, InvalidatedType DEF Invalidated, Row
<1>3. ASSUME NEW secret \in BOOLEAN
      PROVE  NewRow(secret) \in Row /\ NewRow(secret).attempts < MaxAttempts
  <2>1. NewRow(secret).attempts = 0
    BY DEF NewRow, AbsentRow
  <2> QED
    BY <2>1, NewRowType, OutboxConstants
<1>4. ASSUME NEW m \in Messages, Enqueue(m) PROVE TypeInv'
  <2>1. row' \in [Messages -> Row] /\ AttemptsLeft'
    BY <1>1, <1>3, <1>4 DEF Enqueue, AttemptsLeft
  <2> QED
    BY <2>1, <1>4, WriterTypeInv DEF Enqueue
<1>5. ASSUME NEW m \in Messages, ReplaceLink(m) PROVE TypeInv'
  <2>1. row' \in [Messages -> Row] /\ AttemptsLeft'
    BY <1>1, <1>2, <1>3, <1>5 DEF ReplaceLink, AttemptsLeft
  <2> QED
    BY <2>1, <1>5, WriterTypeInv DEF ReplaceLink
<1>6. ASSUME InvalidateLinks PROVE TypeInv'
  <2>1. row' \in [Messages -> Row] /\ AttemptsLeft'
    BY <1>1, <1>2, <1>6 DEF InvalidateLinks, AttemptsLeft
  <2> QED
    BY <2>1, <1>6, WriterTypeInv DEF InvalidateLinks
<1>7. ASSUME NEW m \in Messages, Retry(m) PROVE TypeInv'
  <2>1. row[m] \in Row
    BY <1>1
  <2>2. RetriedRow(row[m]) \in Row /\ RetriedRow(row[m]).attempts < MaxAttempts
    <3>1. RetriedRow(row[m]).attempts = 0
      BY <2>1 DEF RetriedRow, Row
    <3> QED
      BY <2>1, <3>1, RetriedRowType, OutboxConstants
  <2>3. row' \in [Messages -> Row] /\ AttemptsLeft'
    BY <1>1, <1>7, <2>2 DEF Retry, AttemptsLeft
  <2> QED
    BY <2>3, <1>7, WriterTypeInv DEF Retry
<1>8. ASSUME NEW m \in Messages, Notice(m) PROVE TypeInv'
  <2> PICK k \in 1 .. Len(copies[m]) : \E s \in Notices(copies[m][k]) : ProcessNotice(m, k, s)
    BY <1>8 DEF Notice
  <2>1. PICK s \in Notices(copies[m][k]) : ProcessNotice(m, k, s)
    OBVIOUS
  <2>2. s \in DeliveryStatus
    BY NoticesType
  <2>3. RecordDelivery(row[m], s) \in Row
    BY <1>1, <2>2, RecordDeliveryType
  <2>4. RecordDelivery(row[m], s).status = "PENDING" => FALSE
    BY <1>1, <2>1 DEF RecordDelivery, ProcessNotice, Row
  <2>5. row' \in [Messages -> Row] /\ AttemptsLeft'
    BY <1>1, <2>1, <2>3, <2>4 DEF ProcessNotice, AttemptsLeft
  <2> QED
    BY <2>1, <2>5, WriterTypeInv DEF ProcessNotice
<1> QED
  BY <1>4, <1>5, <1>6, <1>7, <1>8

LEMMA AcceptType ==
    ASSUME TypeInv, NEW m \in Messages, Accept(m)
    PROVE  /\ copies' \in [Messages -> Seq(DeliveryStatus \cup {"NONE"})]
           /\ Len(copies'[m]) = Len(copies[m]) + 1
           /\ \A k \in 1 .. Len(copies[m]) : copies'[m][k] = copies[m][k]
           /\ \A n \in Messages \ {m} : copies'[n] = copies[n]
<1>1. copies \in [Messages -> Seq(DeliveryStatus \cup {"NONE"})]
  BY DEF TypeInv, TypeOK
<1>2. Append(copies[m], "NONE") \in Seq(DeliveryStatus \cup {"NONE"})
  BY <1>1
<1>3. copies' = [copies EXCEPT ![m] = Append(copies[m], "NONE")]
  BY DEF Accept
<1>4. copies'[m] = Append(copies[m], "NONE")
  BY <1>1, <1>3
<1> QED
  BY <1>1, <1>2, <1>3, <1>4

\* The cycle of w leaves its message behind: saved, or not.
LEMMA NextMessageShape ==
    ASSUME TypeInv, NEW w \in Workers, pc[w] = "answered", NextMessage(w),
           UNCHANGED orphans, copies' = copies, faults' \in 0 .. MaxFaults,
           row' \in [Messages -> Row], AttemptsLeft'
    PROVE  TypeInv'
<1>1. NoAnswer \in Answer /\ 0 \in 0 .. CycleTimeout
  BY OutboxConstants DEF NoAnswer, Answer, NoId
<1>2. TypeOK'
  BY <1>1 DEF TypeInv, TypeOK, NextMessage
<1>3. SendsWhatItHolds'
  BY DEF TypeInv, TypeOK, CycleShape, SendsWhatItHolds, NextMessage
<1> QED
  BY <1>2, <1>3 DEF TypeInv, CycleShape

LEMMA AbandonShape ==
    ASSUME TypeInv, NEW w \in Workers, Abandon(w), faults' \in 0 .. MaxFaults
    PROVE  TypeInv'
<1>1. NoAnswer \in Answer /\ 0 \in 0 .. CycleTimeout
  BY OutboxConstants DEF NoAnswer, Answer, NoId
<1>2. orphans' \in SUBSET Messages
  BY DEF Abandon, TypeInv, TypeOK, CycleShape, SendsWhatItHolds
<1>3. TypeOK'
  BY <1>1, <1>2 DEF TypeInv, TypeOK, Abandon, rowVars
<1>4. CycleShape'
  BY DEF TypeInv, TypeOK, CycleShape, SendsWhatItHolds, AttemptsLeft, Abandon, rowVars
<1> QED
  BY <1>3, <1>4 DEF TypeInv

LEMMA DispatchTypeInv ==
    ASSUME TypeInv, NEW w \in Workers, Dispatch(w)
    PROVE  TypeInv'
<1>1. row \in [Messages -> Row] /\ AttemptsLeft
  BY DEF TypeInv, TypeOK, CycleShape
<1>2. ASSUME NEW claimed \in SUBSET Messages, StartCycle(w, claimed) PROVE TypeInv'
  <2>1. \A m \in Messages : /\ Claimed(row[m]) \in Row
                            /\ Claimed(row[m]).status = row[m].status
                            /\ Claimed(row[m]).attempts = row[m].attempts
    BY <1>1, ClaimedType DEF Claimed, Row
  <2>2. row' \in [Messages -> Row] /\ AttemptsLeft'
    BY <1>1, <1>2, <2>1 DEF StartCycle, AttemptsLeft
  <2>3. CycleTimeout \in 0 .. CycleTimeout
    BY OutboxConstants
  <2>4. TypeOK'
    BY <1>2, <2>2, <2>3 DEF TypeInv, TypeOK, StartCycle
  <2>5. SendsWhatItHolds'
    BY <1>2 DEF TypeInv, TypeOK, CycleShape, SendsWhatItHolds, StartCycle
  <2> QED
    BY <2>2, <2>4, <2>5 DEF TypeInv, CycleShape
<1>3. ASSUME NEW m \in Messages, Send(w, m) PROVE TypeInv'
  <2>1. TypeOK'
    BY <1>3 DEF TypeInv, TypeOK, Send, rowVars
  <2>2. CycleShape'
    BY <1>3 DEF TypeInv, TypeOK, CycleShape, SendsWhatItHolds, AttemptsLeft, Send, rowVars
  <2> QED
    BY <2>1, <2>2 DEF TypeInv
<1>4. ASSUME GatewayAnswer(w) PROVE TypeInv'
  <2>1. current[w] \in Messages /\ current[w] \in batch[w]
    BY <1>4 DEF TypeInv, TypeOK, CycleShape, SendsWhatItHolds, GatewayAnswer
  <2>2. copies' \in [Messages -> Seq(DeliveryStatus \cup {"NONE"})]
    BY <1>4, <2>1, AcceptType DEF TypeInv, TypeOK, GatewayAnswer
  <2>3. answer' \in [Workers -> Answer]
    <3>1. [kind |-> "accepted", copy |-> Len(copies[current[w]]) + 1] \in Answer
      <4>1. Len(copies[current[w]]) + 1 \in Nat
        BY <2>1 DEF TypeInv, TypeOK
      <4> QED
        BY <4>1 DEF Answer
    <3>2. \A kind \in {"transient", "permanent"} : [kind |-> kind, copy |-> NoId] \in Answer
      BY DEF Answer, NoId
    <3> QED
      BY <1>4, <3>1, <3>2 DEF TypeInv, TypeOK, GatewayAnswer
  <2>4. TypeOK'
    BY <1>4, <2>2, <2>3 DEF TypeInv, TypeOK, GatewayAnswer
  <2>5. CycleShape'
    BY <1>4, <2>1 DEF TypeInv, TypeOK, CycleShape, SendsWhatItHolds, AttemptsLeft, GatewayAnswer
  <2> QED
    BY <2>4, <2>5 DEF TypeInv
<1>5. ASSUME SaveResult(w) PROVE TypeInv'
  <2>1. current[w] \in Messages /\ answer[w] \in Answer
    BY <1>5 DEF TypeInv, TypeOK, CycleShape, SendsWhatItHolds, SaveResult
  <2>2. row' \in [Messages -> Row] /\ AttemptsLeft'
    BY <1>1, <1>5, <2>1, ResolvedType, ResolvedAttempts DEF SaveResult, AttemptsLeft
  <2>3. faults' \in 0 .. MaxFaults
    BY <1>5 DEF TypeInv, TypeOK, SaveResult
  <2> QED
    BY <1>5, <2>2, <2>3, NextMessageShape DEF SaveResult
<1>6. ASSUME SaveFails(w) PROVE TypeInv'
  <2>1. faults' \in 0 .. MaxFaults
    BY <1>6, OutboxConstants DEF TypeInv, TypeOK, SaveFails
  <2>2. row' \in [Messages -> Row] /\ AttemptsLeft'
    BY <1>1, <1>6 DEF SaveFails, AttemptsLeft, rowVars
  <2> QED
    BY <1>6, <2>1, <2>2, NextMessageShape DEF SaveFails, rowVars
<1>7. ASSUME CancelCycle(w) PROVE TypeInv'
  BY <1>7, AbandonShape DEF CancelCycle, TypeInv, TypeOK
<1>8. ASSUME Crash(w) PROVE TypeInv'
  <2>1. faults' \in 0 .. MaxFaults
    BY <1>8, OutboxConstants DEF TypeInv, TypeOK, Crash
  <2> QED
    BY <1>8, <2>1, AbandonShape DEF Crash
<1> QED
  BY <1>2, <1>3, <1>4, <1>5, <1>6, <1>7, <1>8 DEF Dispatch

LEMMA EnvironmentTypeInv ==
    ASSUME TypeInv,
           \/ \E m \in Messages : ResolveOrphan(m)
           \/ \E m \in Messages : \E k \in 1 .. Len(copies[m]) : WhatsAppStep(m, k)
           \/ Tick
    PROVE  TypeInv'
<1>1. row \in [Messages -> Row] /\ AttemptsLeft
  BY DEF TypeInv, TypeOK, CycleShape
<1>2. ASSUME NEW m \in Messages, ResolveOrphan(m) PROVE TypeInv'
  <2>1. copies' \in [Messages -> Seq(DeliveryStatus \cup {"NONE"})]
    BY <1>2, AcceptType DEF TypeInv, TypeOK, ResolveOrphan
  <2> QED
    BY <1>2, <2>1 DEF TypeInv, TypeOK, CycleShape, SendsWhatItHolds, AttemptsLeft,
                      ResolveOrphan, cycleVars
<1>3. ASSUME NEW m \in Messages, NEW k \in 1 .. Len(copies[m]), WhatsAppStep(m, k)
      PROVE  TypeInv'
  <2>1. ASSUME NEW s \in DeliveryStatus
        PROVE  [copies EXCEPT ![m][k] = s] \in [Messages -> Seq(DeliveryStatus \cup {"NONE"})]
    <3>1. copies[m] \in Seq(DeliveryStatus \cup {"NONE"})
      BY DEF TypeInv, TypeOK
    <3>2. [copies[m] EXCEPT ![k] = s] \in Seq(DeliveryStatus \cup {"NONE"})
      BY <3>1
    <3> QED
      BY <3>2 DEF TypeInv, TypeOK
  <2>2. copies' \in [Messages -> Seq(DeliveryStatus \cup {"NONE"})]
    BY <1>3, <2>1 DEF WhatsAppStep, DeliveryStatus
  <2> QED
    BY <1>3, <2>2 DEF TypeInv, TypeOK, CycleShape, SendsWhatItHolds, AttemptsLeft,
                      WhatsAppStep, cycleVars
<1>4. ASSUME Tick PROVE TypeInv'
  <2>1. ASSUME NEW r \in Row, NEW n \in Nat
        PROVE  /\ [r EXCEPT !.wait = n].status = r.status
               /\ [r EXCEPT !.wait = n].attempts = r.attempts
    BY DEF Row
  <2>2. \A m \in Messages : (IF row[m].wait > 0 THEN row[m].wait - 1 ELSE 0) \in Nat
    BY <1>1 DEF Row
  <2>3. row' \in [Messages -> Row] /\ AttemptsLeft'
    <3>1. row' \in [Messages -> Row]
      BY <1>1, <1>4, <2>2, AgedType DEF Tick
    <3>2. ASSUME NEW m \in Messages
          PROVE  row'[m].status = row[m].status /\ row'[m].attempts = row[m].attempts
      <4>1. row'[m] = [row[m] EXCEPT !.wait = IF row[m].wait > 0 THEN row[m].wait - 1 ELSE 0]
        BY <1>4 DEF Tick
      <4> QED
        BY <1>1, <2>1, <2>2, <4>1
    <3> QED
      BY <1>1, <3>1, <3>2 DEF AttemptsLeft
  <2>4. ASSUME NEW n \in 0 .. CycleTimeout
        PROVE  (IF n > 0 THEN n - 1 ELSE 0) \in 0 .. CycleTimeout
    BY OutboxConstants
  <2>5. left' \in [Workers -> 0 .. CycleTimeout]
    <3>1. left' = [w \in Workers |-> IF left[w] > 0 THEN left[w] - 1 ELSE 0]
      BY <1>4 DEF Tick
    <3>2. \A w \in Workers : left[w] \in 0 .. CycleTimeout
      BY DEF TypeInv, TypeOK
    <3> QED
      BY <2>4, <3>1, <3>2
  <2> QED
    BY <1>4, <2>3, <2>5 DEF TypeInv, TypeOK, CycleShape, SendsWhatItHolds, Tick
<1> QED
  BY <1>2, <1>3, <1>4

\* Every reachable state is well typed, the attempts of a row never exceed the
\* maximum, and a worker only sends a message of its batch.
THEOREM TypeCorrect == Spec => []TypeInv
<1>1. ASSUME TypeInv, [Next]_vars PROVE TypeInv'
  <2>1. CASE UNCHANGED vars
    BY <1>1, <2>1 DEF TypeInv, TypeOK, CycleShape, SendsWhatItHolds, AttemptsLeft, vars
  <2>2. CASE Next
    BY <1>1, <2>2, DispatchTypeInv, WritersTypeInv, EnvironmentTypeInv DEF Next
  <2> QED
    BY <1>1, <2>1, <2>2
<1> QED
  BY <1>1, InitTypeInv, PTL DEF Spec

\* The type invariant, as the runs check it.
THEOREM RowsWellTyped == Spec => []TypeOK
<1>1. TypeInv => TypeOK
  BY DEF TypeInv
<1> QED
  BY <1>1, TypeCorrect, PTL

-----------------------------------------------------------------------------
(* What a row may say of the copies c of its message.                      *)

RowTellsTruth(r, c) ==
    /\ r.status = "SENT" <=> r.ext # NoId
    /\ r.ext \in 0 .. Len(c) /\ r.retried \in 0 .. Len(c)
    /\ r.status = "ABSENT" => r.retried = NoId
    /\ r.status = "PENDING" => r.content
    /\ r.status = "SENT" /\ r.secret => ~r.content
    /\ r.status = "FAILED" =>
          \/ r.error = "permanent"
          \/ r.error = "transient" /\ r.attempts = MaxAttempts
          \/ r.error = "replaced" /\ ~r.content
    /\ r.delivery # "NONE" => r.status = "SENT" /\ r.delivery \in Notices(c[r.ext])

Copies == Seq(DeliveryStatus \cup {"NONE"})

\* The operations of the aggregate, one by one.
LEMMA NewRowTellsTruth ==
    ASSUME NEW secret \in BOOLEAN, NEW c \in Copies
    PROVE  RowTellsTruth(AbsentRow, c) /\ RowTellsTruth(NewRow(secret), c)
<1>1. Len(c) \in Nat
  BY DEF Copies
<1>2. RowTellsTruth(AbsentRow, c)
  BY <1>1 DEF RowTellsTruth, AbsentRow, NoId
<1>3. /\ NewRow(secret).status = "PENDING" /\ NewRow(secret).content
      /\ NewRow(secret).ext = 0 /\ NewRow(secret).retried = 0
      /\ NewRow(secret).delivery = "NONE"
  BY DEF NewRow, AbsentRow, NoId
<1> QED
  BY <1>1, <1>2, <1>3 DEF RowTellsTruth, NoId

LEMMA InvalidatedTellsTruth ==
    ASSUME NEW r \in Row, NEW c \in Copies, RowTellsTruth(r, c)
    PROVE  RowTellsTruth(Invalidated(r), c)
<1>1. CASE r.status = "PENDING" /\ r.secret
  <2> DEFINE s == Invalidated(r)
  <2>1. /\ s.status = "FAILED" /\ s.error = "replaced" /\ s.ext = r.ext
        /\ s.retried = r.retried /\ s.delivery = r.delivery
    BY <1>1 DEF Invalidated, Row
  <2>2. ~s.content
    BY <1>1 DEF Invalidated, Row
  <2> QED
    BY <1>1, <2>1, <2>2 DEF RowTellsTruth
<1>2. CASE ~(r.status = "PENDING" /\ r.secret)
  BY <1>2 DEF Invalidated
<1> QED
  BY <1>1, <1>2

LEMMA RetriedTellsTruth ==
    ASSUME NEW r \in Row, NEW c \in Copies, RowTellsTruth(r, c), IsRetryable(r)
    PROVE  RowTellsTruth(RetriedRow(r), c)
<1> DEFINE s == RetriedRow(r)
<1>1. /\ s.status = "PENDING" /\ s.ext = NoId /\ s.delivery = "NONE"
      /\ s.retried = IF r.ext # NoId THEN r.ext ELSE r.retried
  BY DEF RetriedRow, Row
<1>2. s.content = r.content
  BY DEF RetriedRow, Row
<1>3. Len(c) \in Nat
  BY DEF Copies
<1> QED
  BY <1>1, <1>2, <1>3 DEF RowTellsTruth, IsRetryable, NoId

LEMMA RecordDeliveryTellsTruth ==
    ASSUME NEW r \in Row, NEW c \in Copies, RowTellsTruth(r, c), r.status = "SENT",
           NEW status \in Notices(c[r.ext])
    PROVE  RowTellsTruth(RecordDelivery(r, status), c)
<1> DEFINE s == RecordDelivery(r, status)
<1>1. CASE DeliveryApplies(r, status)
  <2>1. /\ s.status = r.status /\ s.ext = r.ext /\ s.retried = r.retried
        /\ s.delivery = status
    BY <1>1 DEF RecordDelivery, Row
  <2>2. s.content = r.content /\ s.secret = r.secret
    BY <1>1 DEF RecordDelivery, Row
  <2> QED
    BY <2>1, <2>2 DEF RowTellsTruth
<1>2. CASE ~DeliveryApplies(r, status)
  BY <1>2 DEF RecordDelivery
<1> QED
  BY <1>1, <1>2

LEMMA WaitTellsTruth ==
    ASSUME NEW r \in Row, NEW c \in Copies, RowTellsTruth(r, c), NEW n
    PROVE  RowTellsTruth([r EXCEPT !.wait = n], c)
<1> DEFINE s == [r EXCEPT !.wait = n]
<1>1. /\ s.status = r.status /\ s.ext = r.ext /\ s.retried = r.retried
      /\ s.delivery = r.delivery /\ s.error = r.error /\ s.attempts = r.attempts
  BY DEF Row
<1>2. s.content = r.content /\ s.secret = r.secret
  BY DEF Row
<1> QED
  BY <1>1, <1>2 DEF RowTellsTruth

LEMMA ResolvedTellsTruth ==
    ASSUME NEW r \in Row, NEW c \in Copies, RowTellsTruth(r, c), NEW a \in Answer,
           a.kind = "accepted" => a.copy \in 1 .. Len(c),
           r.status = "PENDING" => r.attempts < MaxAttempts
    PROVE  RowTellsTruth(Resolved(r, a), c)
<1>1. CASE r.status # "PENDING"
  BY <1>1 DEF Resolved
<1>2. CASE r.status = "PENDING" /\ a.kind = "accepted"
  <2> DEFINE s == MarkSent(r, a.copy)
  <2>1. /\ s.status = "SENT" /\ s.ext = a.copy /\ s.retried = r.retried
        /\ s.delivery = r.delivery
    BY DEF MarkSent, Row
  <2>2. s.secret = r.secret /\ (s.secret => ~s.content)
    BY DEF MarkSent, Row
  <2>3. RowTellsTruth(s, c)
    BY <1>2, <2>1, <2>2 DEF RowTellsTruth, NoId, Copies
  <2> QED
    BY <1>2, <2>3 DEF Resolved
<1>3. CASE r.status = "PENDING" /\ a.kind # "accepted"
  <2> DEFINE s == RegisterFailure(r, a.kind = "permanent")
  <2>1. /\ s.ext = r.ext /\ s.retried = r.retried /\ s.delivery = r.delivery
        /\ s.status \in {"PENDING", "FAILED"}
        /\ s.status = "FAILED" => \/ s.error = "permanent"
                                  \/ s.error = "transient" /\ s.attempts = MaxAttempts
    BY <1>3, OutboxConstants DEF RegisterFailure, Row
  <2>2. s.content = r.content
    BY DEF RegisterFailure, Row
  <2>3. RowTellsTruth(s, c)
    BY <1>3, <2>1, <2>2 DEF RowTellsTruth
  <2> QED
    BY <1>3, <2>3 DEF Resolved
<1> QED
  BY <1>1, <1>2, <1>3

\* The gateway takes one more copy; WhatsApp moves a copy on.
LEMMA AppendTellsTruth ==
    ASSUME NEW r \in Row, NEW c \in Copies, NEW d \in Copies, RowTellsTruth(r, c),
           Len(d) >= Len(c), \A k \in 1 .. Len(c) : d[k] = c[k]
    PROVE  RowTellsTruth(r, d)
BY DEF RowTellsTruth, Row, Copies, NoId

LEMMA ProgressTellsTruth ==
    ASSUME NEW r \in Row, NEW c \in Copies, RowTellsTruth(r, c),
           NEW k \in 1 .. Len(c), NEW s \in DeliveryStatus,
           c[k] = "NONE" \/ (c[k] = "DELIVERED" /\ s = "READ")
    PROVE  RowTellsTruth(r, [c EXCEPT ![k] = s])
<1> DEFINE d == [c EXCEPT ![k] = s]
<1>1. /\ Len(d) = Len(c) /\ d \in Copies
      /\ \A n \in 1 .. Len(c) : d[n] = IF n = k THEN s ELSE c[n]
  BY DEF Copies
<1>2. Notices("NONE") = {} /\ "DELIVERED" \in Notices("READ")
  BY DEF Notices
<1>3. Notices("DELIVERED") = {"DELIVERED"}
  BY DEF Notices
<1>4. r.ext \in 1 .. Len(c) => Notices(c[r.ext]) \subseteq Notices(d[r.ext])
  BY <1>1, <1>2, <1>3 DEF Copies
<1> QED
  BY <1>1, <1>4 DEF RowTellsTruth, Row, NoId, Copies

-----------------------------------------------------------------------------
(* The rows of a reachable state tell the truth.                           *)

AnswersAreReal ==
    \A w \in Workers : answer[w].kind = "accepted" =>
        pc[w] = "answered" /\ answer[w].copy \in 1 .. Len(copies[current[w]])

RowInv ==
    /\ \A m \in Messages : RowTellsTruth(row[m], copies[m])
    /\ AnswersAreReal

LEMMA InitRowInv == Init => RowInv
<1> SUFFICES ASSUME Init PROVE RowInv
  OBVIOUS
<1>1. <<>> \in Copies /\ FALSE \in BOOLEAN
  BY DEF Copies
<1>2. \A m \in Messages : RowTellsTruth(row[m], copies[m])
  BY <1>1, NewRowTellsTruth DEF Init
<1>3. AnswersAreReal
  BY DEF Init, AnswersAreReal, NoAnswer
<1> QED
  BY <1>2, <1>3 DEF RowInv

\* The writers of the table, the copies being as they were.
LEMMA WritersRowInv ==
    ASSUME TypeInv, RowInv,
           \/ \E m \in Messages : Enqueue(m) \/ ReplaceLink(m) \/ Retry(m) \/ Notice(m)
           \/ InvalidateLinks
    PROVE  RowInv'
<1>1. /\ row \in [Messages -> Row]
      /\ \A m \in Messages : row[m] \in Row /\ copies[m] \in Copies
      /\ \A m \in Messages : RowTellsTruth(row[m], copies[m])
      /\ AnswersAreReal
  BY DEF TypeInv, TypeOK, RowInv, Copies
<1>2. TRUE \in BOOLEAN /\ FALSE \in BOOLEAN
  OBVIOUS
<1>3. UNCHANGED <<copies, cycleVars>>
  BY DEF Enqueue, ReplaceLink, Retry, Notice, ProcessNotice, InvalidateLinks
<1>4. AnswersAreReal'
  BY <1>1, <1>3 DEF AnswersAreReal, cycleVars
<1>5. ASSUME NEW m \in Messages, Enqueue(m)
      PROVE  \A n \in Messages : RowTellsTruth(row[n], copies[n])'
  BY <1>1, <1>2, <1>3, <1>5, NewRowTellsTruth DEF Enqueue
<1>6. ASSUME NEW m \in Messages, ReplaceLink(m)
      PROVE  \A n \in Messages : RowTellsTruth(row[n], copies[n])'
  BY <1>1, <1>2, <1>3, <1>6, NewRowTellsTruth, InvalidatedTellsTruth DEF ReplaceLink
<1>7. ASSUME InvalidateLinks
      PROVE  \A n \in Messages : RowTellsTruth(row[n], copies[n])'
  BY <1>1, <1>3, <1>7, InvalidatedTellsTruth DEF InvalidateLinks
<1>8. ASSUME NEW m \in Messages, Retry(m)
      PROVE  \A n \in Messages : RowTellsTruth(row[n], copies[n])'
  BY <1>1, <1>3, <1>8, RetriedTellsTruth DEF Retry
<1>9. ASSUME NEW m \in Messages, Notice(m)
      PROVE  \A n \in Messages : RowTellsTruth(row[n], copies[n])'
  <2> PICK k \in 1 .. Len(copies[m]) : \E s \in Notices(copies[m][k]) : ProcessNotice(m, k, s)
    BY <1>9 DEF Notice
  <2>1. PICK s \in Notices(copies[m][k]) : ProcessNotice(m, k, s)
    OBVIOUS
  <2>2. row[m].ext = k /\ row[m].status = "SENT"
    BY <2>1 DEF ProcessNotice
  <2>3. RowTellsTruth(RecordDelivery(row[m], s), copies[m])
    BY <1>1, <2>2, RecordDeliveryTellsTruth
  <2> QED
    BY <1>1, <1>3, <2>1, <2>3 DEF ProcessNotice
<1> QED
  BY <1>4, <1>5, <1>6, <1>7, <1>8, <1>9 DEF RowInv

LEMMA NextMessageRowInv ==
    ASSUME TypeInv, RowInv, NEW w \in Workers, NextMessage(w), copies' = copies
    PROVE  AnswersAreReal'
BY DEF TypeInv, TypeOK, RowInv, AnswersAreReal, NextMessage, NoAnswer

LEMMA AbandonRowInv ==
    ASSUME TypeInv, RowInv, NEW w \in Workers, Abandon(w)
    PROVE  RowInv'
BY DEF TypeInv, TypeOK, RowInv, AnswersAreReal, Abandon, rowVars, NoAnswer

LEMMA AcceptRowInv ==
    ASSUME TypeInv, RowInv, NEW m \in Messages, Accept(m), UNCHANGED row
    PROVE  /\ \A n \in Messages : RowTellsTruth(row[n], copies[n])'
           /\ \A n \in Messages : Len(copies'[n]) >= Len(copies[n])
<1>1. \A n \in Messages : /\ copies[n] \in Copies /\ copies'[n] \in Copies
                          /\ row[n] \in Row /\ RowTellsTruth(row[n], copies[n])
  BY AcceptType DEF TypeInv, TypeOK, RowInv, Copies
<1>2. \A n \in Messages : /\ Len(copies'[n]) >= Len(copies[n])
                          /\ \A k \in 1 .. Len(copies[n]) : copies'[n][k] = copies[n][k]
  <2> TAKE n \in Messages
  <2>1. Len(copies[n]) \in Nat
    BY <1>1 DEF Copies
  <2> QED
    BY <2>1, AcceptType
<1> QED
  BY <1>1, <1>2, AppendTellsTruth

LEMMA DispatchRowInv ==
    ASSUME TypeInv, RowInv, NEW w \in Workers, Dispatch(w)
    PROVE  RowInv'
<1>1. /\ row \in [Messages -> Row]
      /\ \A m \in Messages : row[m] \in Row /\ copies[m] \in Copies
      /\ \A m \in Messages : RowTellsTruth(row[m], copies[m])
      /\ AnswersAreReal
  BY DEF TypeInv, TypeOK, RowInv, Copies
<1>2. ASSUME NEW claimed \in SUBSET Messages, StartCycle(w, claimed) PROVE RowInv'
  <2>1. \A m \in Messages : RowTellsTruth(row[m], copies[m])'
    BY <1>1, <1>2, WaitTellsTruth DEF StartCycle, Claimed
  <2>2. AnswersAreReal'
    BY <1>1, <1>2 DEF AnswersAreReal, StartCycle, TypeInv, TypeOK
  <2> QED
    BY <2>1, <2>2 DEF RowInv
<1>3. ASSUME NEW m \in Messages, Send(w, m) PROVE RowInv'
  BY <1>1, <1>3 DEF RowInv, AnswersAreReal, Send, rowVars, TypeInv, TypeOK
<1>4. ASSUME GatewayAnswer(w) PROVE RowInv'
  <2>1. current[w] \in Messages
    BY <1>4 DEF TypeInv, TypeOK, CycleShape, SendsWhatItHolds, GatewayAnswer
  <2>2. CASE Accept(current[w])
    <3>1. \A m \in Messages : RowTellsTruth(row[m], copies[m])'
      BY <1>4, <2>1, <2>2, AcceptRowInv DEF GatewayAnswer
    <3>2. \A m \in Messages : /\ Len(copies[m]) \in Nat /\ Len(copies'[m]) \in Nat
                              /\ Len(copies'[m]) >= Len(copies[m])
      BY <1>1, <1>4, <2>1, <2>2, AcceptRowInv, AcceptType DEF GatewayAnswer, Copies
    <3>3. Len(copies'[current[w]]) = Len(copies[current[w]]) + 1
      BY <2>1, <2>2, AcceptType
    <3>4. answer'[w].kind = "accepted" => answer'[w].copy \in 1 .. Len(copies'[current[w]])
      BY <1>4, <2>1, <3>2, <3>3 DEF GatewayAnswer, TypeInv, TypeOK
    <3>5. \A v \in Workers : pc[v] = "answered" => current[v] \in Messages
      BY DEF TypeInv, TypeOK, CycleShape, SendsWhatItHolds
    <3>6. AnswersAreReal'
      BY <1>1, <1>4, <3>2, <3>4, <3>5 DEF AnswersAreReal, GatewayAnswer, TypeInv, TypeOK
    <3> QED
      BY <3>1, <3>6 DEF RowInv
  <2>3. CASE ~Accept(current[w])
    <3>1. copies' = copies /\ answer'[w].kind # "accepted"
      BY <1>4, <2>3 DEF GatewayAnswer, TypeInv, TypeOK
    <3> QED
      BY <1>1, <1>4, <3>1 DEF RowInv, AnswersAreReal, GatewayAnswer, TypeInv, TypeOK
  <2> QED
    BY <2>2, <2>3
<1>5. ASSUME SaveResult(w) PROVE RowInv'
  <2>1. /\ current[w] \in Messages /\ answer[w] \in Answer
        /\ \A m \in Messages : row[m].status = "PENDING" => row[m].attempts < MaxAttempts
    BY <1>5 DEF TypeInv, TypeOK, CycleShape, SendsWhatItHolds, AttemptsLeft, SaveResult
  <2>2. RowTellsTruth(Resolved(row[current[w]], answer[w]), copies[current[w]])
    BY <1>1, <2>1, ResolvedTellsTruth DEF AnswersAreReal
  <2>3. \A m \in Messages : RowTellsTruth(row[m], copies[m])'
    BY <1>1, <1>5, <2>1, <2>2 DEF SaveResult
  <2>4. AnswersAreReal'
    BY <1>5, NextMessageRowInv DEF SaveResult
  <2> QED
    BY <2>3, <2>4 DEF RowInv
<1>6. ASSUME SaveFails(w) PROVE RowInv'
  <2>1. AnswersAreReal'
    BY <1>6, NextMessageRowInv DEF SaveFails, rowVars
  <2> QED
    BY <1>1, <1>6, <2>1 DEF RowInv, SaveFails, rowVars
<1>7. ASSUME CancelCycle(w) \/ Crash(w) PROVE RowInv'
  BY <1>7, AbandonRowInv DEF CancelCycle, Crash
<1> QED
  BY <1>2, <1>3, <1>4, <1>5, <1>6, <1>7 DEF Dispatch

LEMMA EnvironmentRowInv ==
    ASSUME TypeInv, RowInv,
           \/ \E m \in Messages : ResolveOrphan(m)
           \/ \E m \in Messages : \E k \in 1 .. Len(copies[m]) : WhatsAppStep(m, k)
           \/ Tick
    PROVE  RowInv'
<1>1. /\ row \in [Messages -> Row]
      /\ \A m \in Messages : row[m] \in Row /\ copies[m] \in Copies
      /\ \A m \in Messages : RowTellsTruth(row[m], copies[m])
      /\ AnswersAreReal
      /\ \A w \in Workers : pc[w] = "answered" => current[w] \in Messages
  BY DEF TypeInv, TypeOK, RowInv, Copies, CycleShape, SendsWhatItHolds
<1>2. ASSUME NEW m \in Messages, ResolveOrphan(m) PROVE RowInv'
  <2>1. CASE Accept(m)
    <3>1. /\ \A n \in Messages : RowTellsTruth(row[n], copies[n])'
          /\ \A n \in Messages : Len(copies'[n]) >= Len(copies[n])
      BY <1>2, <2>1, AcceptRowInv DEF ResolveOrphan
    <3>2. \A n \in Messages : Len(copies[n]) \in Nat /\ Len(copies'[n]) \in Nat
      BY <1>1, <2>1, AcceptType DEF Copies
    <3>3. AnswersAreReal'
      BY <1>1, <1>2, <3>1, <3>2 DEF AnswersAreReal, ResolveOrphan, cycleVars
    <3> QED
      BY <3>1, <3>3 DEF RowInv
  <2>2. CASE UNCHANGED copies
    BY <1>1, <1>2, <2>2 DEF RowInv, AnswersAreReal, ResolveOrphan, cycleVars
  <2> QED
    BY <1>2, <2>1, <2>2 DEF ResolveOrphan
<1>3. ASSUME NEW m \in Messages, NEW k \in 1 .. Len(copies[m]), WhatsAppStep(m, k)
      PROVE  RowInv'
  <2>1. PICK s \in DeliveryStatus :
           /\ copies' = [copies EXCEPT ![m][k] = s]
           /\ copies[m][k] = "NONE" \/ (copies[m][k] = "DELIVERED" /\ s = "READ")
    BY <1>3 DEF WhatsAppStep, DeliveryStatus
  <2>2. /\ copies'[m] = [copies[m] EXCEPT ![k] = s]
        /\ \A n \in Messages \ {m} : copies'[n] = copies[n]
    BY <2>1 DEF TypeInv, TypeOK
  <2>3. RowTellsTruth(row[m], copies'[m])
    BY <1>1, <2>1, <2>2, ProgressTellsTruth
  <2>4. row' = row /\ UNCHANGED cycleVars
    BY <1>3 DEF WhatsAppStep
  <2>5. \A n \in Messages : RowTellsTruth(row[n], copies[n])'
    BY <1>1, <2>2, <2>3, <2>4
  <2>6. \A n \in Messages : Len(copies'[n]) = Len(copies[n])
    BY <1>1, <2>2 DEF Copies
  <2>7. AnswersAreReal'
    BY <1>1, <2>4, <2>6 DEF AnswersAreReal, cycleVars
  <2> QED
    BY <2>5, <2>7 DEF RowInv
<1>4. ASSUME Tick PROVE RowInv'
  <2>1. \A m \in Messages : RowTellsTruth(row[m], copies[m])'
    BY <1>1, <1>4, WaitTellsTruth DEF Tick
  <2> QED
    BY <1>1, <1>4, <2>1 DEF RowInv, AnswersAreReal, Tick
<1> QED
  BY <1>2, <1>3, <1>4

\* Whatever the workers, the gateway and the staff do, every row tells the
\* truth about the copies of its message.
THEOREM RowsTellTheTruth == Spec => [](TypeInv /\ RowInv)
<1>1. ASSUME TypeInv, RowInv, [Next]_vars PROVE RowInv'
  <2>1. CASE UNCHANGED vars
    BY <1>1, <2>1 DEF RowInv, AnswersAreReal, vars
  <2>2. CASE Next
    BY <1>1, <2>2, DispatchRowInv, WritersRowInv, EnvironmentRowInv DEF Next
  <2> QED
    BY <1>1, <2>1, <2>2
<1> QED
  BY <1>1, InitRowInv, TypeCorrect, PTL DEF Spec

\* A row is SENT only with the id of a copy that the gateway accepted.
THEOREM SentRowsWereAccepted == Spec => []SentWasAccepted
<1>1. RowInv => SentWasAccepted
  BY DEF RowInv, RowTellsTruth, SentWasAccepted
<1> QED
  BY <1>1, RowsTellTheTruth, PTL

\* What waits has its content, and no secret outlives its sending.
THEOREM ContentIsKeptOrWiped == Spec => []ContentMatchesStatus
<1>1. RowInv => ContentMatchesStatus
  BY DEF RowInv, RowTellsTruth, ContentMatchesStatus
<1> QED
  BY <1>1, RowsTellTheTruth, PTL

\* No message is given up without one of the three causes.
THEOREM FailuresHaveCauses == Spec => []FailureHasCause
<1>1. RowInv => FailureHasCause
  BY DEF RowInv, RowTellsTruth, FailureHasCause
<1> QED
  BY <1>1, RowsTellTheTruth, PTL

\* The delivery status of a row is about the copy that it holds.
THEOREM DeliveriesWereReported == Spec => []DeliveryWasReported
<1>1. RowInv => DeliveryWasReported
  BY DEF RowInv, RowTellsTruth, DeliveryWasReported
<1> QED
  BY <1>1, RowsTellTheTruth, PTL

-----------------------------------------------------------------------------
(* A lease longer than a cycle makes the dispatch of a row exclusive.      *)
(* config.py asks for it in a comment; nothing enforces it, so it is an    *)
(* assumption of the theorems that follow and of no other.                 *)

LeaseCoversCycle == CycleTimeout < Lease

Leased(r, time) ==
    \/ r.status = "PENDING" /\ r.wait > time
    \/ r.status = "FAILED" /\ ~r.content

\* The copy of an answer is newer than the id that the row kept.
AnswersAreNew ==
    \A w \in Workers : answer[w].kind = "accepted" => row[current[w]].retried < answer[w].copy

OrphansWereEnqueued == \A m \in orphans : row[m].status # "ABSENT"

LeaseInv == ExclusiveDispatch /\ HeldRowsAreLeased /\ AnswersAreNew /\ OrphansWereEnqueued

LEMMA InitLeaseInv == Init => LeaseInv
BY DEF Init, LeaseInv, ExclusiveDispatch, HeldRowsAreLeased, AnswersAreNew,
       OrphansWereEnqueued, NoAnswer

\* What the steps below use of a state.
LEMMA Held ==
    ASSUME TypeInv, RowInv, LeaseInv
    PROVE  /\ row \in [Messages -> Row] /\ \A m \in Messages : row[m] \in Row
           /\ \A m \in Messages : row[m].wait \in Nat
           /\ \A w \in Workers : left[w] \in Nat
           /\ \A w \in Workers : batch[w] \subseteq Messages
           /\ \A w \in Workers : \A m \in batch[w] : pc[w] # "idle" /\ Leased(row[m], left[w])
           /\ \A w \in Workers : answer[w].kind = "accepted" =>
                 /\ pc[w] = "answered"
                 /\ current[w] \in batch[w] /\ current[w] \in Messages
           /\ \A m \in Messages : row[m].delivery # "NONE" => row[m].status = "SENT"
<1>1. row \in [Messages -> Row] /\ left \in [Workers -> 0 .. CycleTimeout]
  BY DEF TypeInv, TypeOK
<1>2. \A m \in Messages : row[m].wait \in Nat
  BY <1>1 DEF Row
<1>3. \A w \in Workers : left[w] \in Nat
  BY <1>1
<1>4. \A w \in Workers : answer[w].kind = "accepted" =>
         pc[w] = "answered" /\ current[w] \in batch[w] /\ current[w] \in Messages
  BY DEF TypeInv, TypeOK, CycleShape, SendsWhatItHolds, RowInv, AnswersAreReal
<1>5. \A w \in Workers : batch[w] \subseteq Messages
  BY DEF TypeInv, TypeOK
<1> QED
  BY <1>1, <1>2, <1>3, <1>4, <1>5 DEF LeaseInv, HeldRowsAreLeased, Leased, RowInv, RowTellsTruth

\* Steps that leave the cycles alone and keep every leased row leased.
LEMMA WriterLeaseInv ==
    ASSUME TypeInv, RowInv, LeaseInv, UNCHANGED cycleVars, UNCHANGED orphans,
           \A m \in Messages : row[m].status # "ABSENT" => row'[m].status # "ABSENT",
           \A w \in Workers : \A m \in batch[w] :
              Leased(row'[m], left[w]) /\ row'[m].retried = row[m].retried
    PROVE  LeaseInv'
<1>1. ExclusiveDispatch' /\ HeldRowsAreLeased'
  BY Held DEF LeaseInv, ExclusiveDispatch, HeldRowsAreLeased, Leased, cycleVars
<1>2. AnswersAreNew'
  BY Held DEF LeaseInv, AnswersAreNew, cycleVars
<1>3. OrphansWereEnqueued'
  BY DEF LeaseInv, OrphansWereEnqueued, TypeInv, TypeOK
<1> QED
  BY <1>1, <1>2, <1>3 DEF LeaseInv

LEMMA WritersLeaseInv ==
    ASSUME TypeInv, RowInv, LeaseInv,
           \/ \E m \in Messages : Enqueue(m) \/ ReplaceLink(m) \/ Retry(m) \/ Notice(m)
           \/ InvalidateLinks
    PROVE  LeaseInv'
<1>1. UNCHANGED <<cycleVars, orphans>>
  BY DEF Enqueue, ReplaceLink, Retry, Notice, ProcessNotice, InvalidateLinks
<1>2. \A w \in Workers : \A m \in batch[w] :
         m \in Messages /\ row[m].status # "ABSENT" /\ row[m].status # "SENT"
  BY Held DEF Leased
<1>3. \A w \in Workers : \A m \in batch[w] : ~IsRetryable(row[m])
  BY <1>2, Held DEF Leased, IsRetryable
<1>4. ASSUME NEW r \in Row
      PROVE  /\ r.status # "ABSENT" => Invalidated(r).status # "ABSENT"
             /\ Invalidated(r).retried = r.retried
             /\ \A time \in Nat : Leased(r, time) => Leased(Invalidated(r), time)
  BY DEF Invalidated, Leased, Row
<1>5. \A secret \in BOOLEAN : NewRow(secret).status # "ABSENT"
  BY DEF NewRow, AbsentRow
<1>6. ASSUME NEW m \in Messages, Enqueue(m) PROVE LeaseInv'
  <2>1. \A n \in Messages : row[n].status # "ABSENT" => row'[n].status # "ABSENT"
    BY <1>6, Held DEF Enqueue
  <2>2. \A w \in Workers : \A n \in batch[w] : row'[n] = row[n]
    BY <1>2, <1>6, Held DEF Enqueue
  <2> QED
    BY <1>1, <2>1, <2>2, Held, WriterLeaseInv
<1>7. ASSUME NEW m \in Messages, ReplaceLink(m) PROVE LeaseInv'
  <2>1. \A n \in Messages : row[n].status # "ABSENT" => row'[n].status # "ABSENT"
    BY <1>4, <1>7, Held DEF ReplaceLink
  <2>2. \A w \in Workers : \A n \in batch[w] : row'[n] = Invalidated(row[n])
    BY <1>2, <1>7, Held DEF ReplaceLink
  <2> QED
    BY <1>1, <1>4, <2>1, <2>2, Held, WriterLeaseInv
<1>8. ASSUME InvalidateLinks PROVE LeaseInv'
  <2>1. \A n \in Messages : row'[n] = Invalidated(row[n])
    BY <1>8 DEF InvalidateLinks
  <2> QED
    BY <1>1, <1>4, <2>1, Held, WriterLeaseInv
<1>9. ASSUME NEW m \in Messages, Retry(m) PROVE LeaseInv'
  <2>1. RetriedRow(row[m]).status = "PENDING"
    BY Held DEF RetriedRow, Row
  <2>2. \A n \in Messages : row[n].status # "ABSENT" => row'[n].status # "ABSENT"
    BY <1>9, <2>1, Held DEF Retry
  <2>3. \A w \in Workers : \A n \in batch[w] : row'[n] = row[n]
    BY <1>2, <1>3, <1>9, Held DEF Retry
  <2> QED
    BY <1>1, <2>2, <2>3, Held, WriterLeaseInv
<1>10. ASSUME NEW m \in Messages, Notice(m) PROVE LeaseInv'
  <2> PICK k \in 1 .. Len(copies[m]) : \E s \in Notices(copies[m][k]) : ProcessNotice(m, k, s)
    BY <1>10 DEF Notice
  <2>1. PICK s \in Notices(copies[m][k]) : ProcessNotice(m, k, s)
    OBVIOUS
  <2>2. RecordDelivery(row[m], s).status = "SENT"
    BY <2>1, Held DEF RecordDelivery, ProcessNotice, Row
  <2>3. \A n \in Messages : row[n].status # "ABSENT" => row'[n].status # "ABSENT"
    BY <2>1, <2>2, Held DEF ProcessNotice
  <2>4. \A w \in Workers : \A n \in batch[w] : row'[n] = row[n]
    BY <1>2, <2>1, Held DEF ProcessNotice
  <2> QED
    BY <1>1, <2>3, <2>4, Held, WriterLeaseInv
<1> QED
  BY <1>6, <1>7, <1>8, <1>9, <1>10

LEMMA ClaimLeaseInv ==
    ASSUME LeaseCoversCycle, TypeInv, RowInv, LeaseInv, NEW w \in Workers,
           NEW claimed \in SUBSET Messages, StartCycle(w, claimed)
    PROVE  LeaseInv'
<1>1. \A m \in claimed : row[m].status = "PENDING" /\ row[m].wait = 0
  BY DEF StartCycle, Due
<1>2. \A v \in Workers : batch[v] \cap claimed = {}
  BY <1>1, Held DEF Leased
<1>3. pc[w] = "idle" /\ batch[w] = {}
  BY Held DEF StartCycle
<1>4. \A m \in Messages : row'[m] = IF m \in claimed THEN Claimed(row[m]) ELSE row[m]
  BY DEF StartCycle
<1>5. \A m \in Messages : /\ Claimed(row[m]).status = row[m].status
                          /\ Claimed(row[m]).retried = row[m].retried
                          /\ Claimed(row[m]).wait = Lease
  BY Held DEF Claimed, Row
<1>6. /\ \A v \in Workers : batch'[v] = IF v = w THEN claimed ELSE batch[v]
      /\ \A v \in Workers : left'[v] = IF v = w THEN CycleTimeout ELSE left[v]
      /\ \A v \in Workers : pc'[v] = IF v = w THEN "running" ELSE pc[v]
  BY DEF StartCycle, TypeInv, TypeOK
<1>7. ExclusiveDispatch'
  BY <1>2, <1>6 DEF LeaseInv, ExclusiveDispatch
<1>8. \A m \in claimed : Leased(row'[m], CycleTimeout)
  BY <1>1, <1>4, <1>5 DEF Leased, LeaseCoversCycle
<1>9. HeldRowsAreLeased'
  BY <1>2, <1>4, <1>6, <1>8, Held DEF HeldRowsAreLeased, Leased
<1>10. AnswersAreNew'
  <2>1. \A m \in Messages : row'[m].retried = row[m].retried
    BY <1>4, <1>5
  <2> QED
    BY <2>1, Held DEF LeaseInv, AnswersAreNew, StartCycle
<1>11. OrphansWereEnqueued'
  BY <1>4, <1>5 DEF LeaseInv, OrphansWereEnqueued, StartCycle, TypeInv, TypeOK
<1> QED
  BY <1>7, <1>9, <1>10, <1>11 DEF LeaseInv

\* The cycle of w goes on without its current message, whose row may be saved.
LEMMA NextMessageLeaseInv ==
    ASSUME TypeInv, RowInv, LeaseInv, NEW w \in Workers, pc[w] = "answered",
           NextMessage(w), UNCHANGED orphans,
           \A m \in Messages \ {current[w]} : row'[m] = row[m],
           current[w] \in Messages => row'[current[w]].status # "ABSENT"
    PROVE  LeaseInv'
<1>1. current[w] \in batch[w] /\ current[w] \in Messages
  BY DEF TypeInv, TypeOK, CycleShape, SendsWhatItHolds
<1>2. \A v \in Workers \ {w} : current[w] \notin batch[v]
  BY <1>1 DEF LeaseInv, ExclusiveDispatch
<1>3. /\ \A v \in Workers : batch'[v] = IF v = w THEN batch[w] \ {current[w]} ELSE batch[v]
      /\ \A v \in Workers \ {w} : /\ pc'[v] = pc[v] /\ left'[v] = left[v]
                                   /\ answer'[v] = answer[v] /\ current'[v] = current[v]
      /\ answer'[w].kind = "none"
      /\ batch'[w] # {} => pc'[w] # "idle" /\ left'[w] = left[w]
  BY DEF NextMessage, NoAnswer, TypeInv, TypeOK
<1>4. ExclusiveDispatch'
  BY <1>3 DEF LeaseInv, ExclusiveDispatch
<1>5. \A v \in Workers : \A m \in batch'[v] :
         m \in batch[v] /\ pc'[v] # "idle" /\ left'[v] = left[v] /\ row'[m] = row[m]
  BY <1>2, <1>3, Held
<1>6. HeldRowsAreLeased'
  BY <1>5, Held DEF HeldRowsAreLeased, Leased
<1>7. AnswersAreNew'
  <2>1. \A v \in Workers \ {w} : answer[v].kind = "accepted" =>
           row'[current[v]] = row[current[v]]
    BY <1>2, Held
  <2> QED
    BY <1>3, <2>1 DEF LeaseInv, AnswersAreNew
<1>8. OrphansWereEnqueued'
  BY DEF LeaseInv, OrphansWereEnqueued, TypeInv, TypeOK
<1> QED
  BY <1>4, <1>6, <1>7, <1>8 DEF LeaseInv

LEMMA AbandonLeaseInv ==
    ASSUME TypeInv, RowInv, LeaseInv, NEW w \in Workers, pc[w] # "idle", Abandon(w)
    PROVE  LeaseInv'
<1>1. /\ \A v \in Workers : batch'[v] = IF v = w THEN {} ELSE batch[v]
      /\ \A v \in Workers \ {w} : /\ pc'[v] = pc[v] /\ left'[v] = left[v]
                                   /\ answer'[v] = answer[v] /\ current'[v] = current[v]
      /\ answer'[w].kind = "none" /\ row' = row
  BY DEF Abandon, NoAnswer, rowVars, TypeInv, TypeOK
<1>2. ExclusiveDispatch' /\ HeldRowsAreLeased' /\ AnswersAreNew'
  BY <1>1 DEF LeaseInv, ExclusiveDispatch, HeldRowsAreLeased, AnswersAreNew
<1>3. pc[w] = "sending" => row[current[w]].status # "ABSENT"
  BY Held DEF TypeInv, CycleShape, SendsWhatItHolds, Leased
<1>4. OrphansWereEnqueued'
  BY <1>1, <1>3 DEF Abandon, LeaseInv, OrphansWereEnqueued
<1> QED
  BY <1>2, <1>4 DEF LeaseInv

LEMMA DispatchLeaseInv ==
    ASSUME LeaseCoversCycle, TypeInv, RowInv, LeaseInv, NEW w \in Workers, Dispatch(w)
    PROVE  LeaseInv'
<1>1. ASSUME NEW m \in Messages, Send(w, m) PROVE LeaseInv'
  <2>1. /\ UNCHANGED <<row, batch, answer, left, orphans>>
        /\ \A v \in Workers : pc'[v] # "idle" <=> pc[v] # "idle"
        /\ \A v \in Workers : answer[v].kind = "accepted" => current'[v] = current[v]
    BY <1>1, Held DEF Send, rowVars, TypeInv, TypeOK
  <2> QED
    BY <2>1 DEF LeaseInv, ExclusiveDispatch, HeldRowsAreLeased, AnswersAreNew, OrphansWereEnqueued
<1>2. ASSUME GatewayAnswer(w) PROVE LeaseInv'
  <2>1. current[w] \in Messages
    BY <1>2 DEF TypeInv, TypeOK, CycleShape, SendsWhatItHolds, GatewayAnswer
  <2>2. /\ row[current[w]].retried \in 0 .. Len(copies[current[w]])
        /\ Len(copies[current[w]]) \in Nat
    BY <2>1 DEF RowInv, RowTellsTruth, TypeInv, TypeOK
  <2>3. answer'[w].kind = "accepted" => answer'[w].copy = Len(copies[current[w]]) + 1
    BY <1>2 DEF GatewayAnswer, TypeInv, TypeOK
  <2>4. AnswersAreNew'
    <3>1. /\ row' = row /\ current' = current
          /\ \A v \in Workers \ {w} : answer'[v] = answer[v]
      BY <1>2 DEF GatewayAnswer, TypeInv, TypeOK
    <3> QED
      BY <2>2, <2>3, <3>1 DEF LeaseInv, AnswersAreNew
  <2>5. ExclusiveDispatch' /\ HeldRowsAreLeased' /\ OrphansWereEnqueued'
    <3>1. /\ UNCHANGED <<row, batch, left, orphans>>
          /\ \A v \in Workers : pc[v] # "idle" => pc'[v] # "idle"
      BY <1>2 DEF GatewayAnswer, TypeInv, TypeOK
    <3> QED
      BY <3>1 DEF LeaseInv, ExclusiveDispatch, HeldRowsAreLeased, OrphansWereEnqueued
  <2> QED
    BY <2>4, <2>5 DEF LeaseInv
<1>3. ASSUME SaveResult(w) PROVE LeaseInv'
  <2>1. current[w] \in Messages /\ current[w] \in batch[w]
    BY <1>3 DEF TypeInv, TypeOK, CycleShape, SendsWhatItHolds, SaveResult
  <2>2. row[current[w]] \in Row /\ row[current[w]].status # "ABSENT"
    BY <2>1, Held DEF Leased
  <2>3. Resolved(row[current[w]], answer[w]).status # "ABSENT"
    BY <2>2 DEF Resolved, MarkSent, RegisterFailure, Row
  <2>4. row' = [row EXCEPT ![current[w]] = Resolved(row[current[w]], answer[w])]
    BY <1>3 DEF SaveResult
  <2>5. /\ \A m \in Messages \ {current[w]} : row'[m] = row[m]
        /\ row'[current[w]].status # "ABSENT"
    BY <2>1, <2>3, <2>4, Held
  <2> QED
    BY <1>3, <2>5, NextMessageLeaseInv DEF SaveResult
<1>4. ASSUME SaveFails(w) PROVE LeaseInv'
  <2>1. current[w] \in Messages => row[current[w]].status # "ABSENT"
    BY <1>4, Held DEF Leased, SaveFails, TypeInv, CycleShape, SendsWhatItHolds
  <2> QED
    BY <1>4, <2>1, NextMessageLeaseInv DEF SaveFails, rowVars
<1> QED
  BY <1>1, <1>2, <1>3, <1>4, ClaimLeaseInv, AbandonLeaseInv DEF Dispatch, CancelCycle, Crash

LEMMA EnvironmentLeaseInv ==
    ASSUME TypeInv, RowInv, LeaseInv,
           \/ \E m \in Messages : ResolveOrphan(m)
           \/ \E m \in Messages : \E k \in 1 .. Len(copies[m]) : WhatsAppStep(m, k)
           \/ Tick
    PROVE  LeaseInv'
<1>1. CASE \E m \in Messages : ResolveOrphan(m)
  BY <1>1 DEF ResolveOrphan, cycleVars, LeaseInv, ExclusiveDispatch, HeldRowsAreLeased,
              AnswersAreNew, OrphansWereEnqueued
<1>2. CASE \E m \in Messages : \E k \in 1 .. Len(copies[m]) : WhatsAppStep(m, k)
  BY <1>2 DEF WhatsAppStep, cycleVars, LeaseInv, ExclusiveDispatch, HeldRowsAreLeased,
              AnswersAreNew, OrphansWereEnqueued
<1>3. CASE Tick
  <2>1. \A m \in Messages : /\ row'[m].status = row[m].status
                            /\ row'[m].retried = row[m].retried
                            /\ row'[m].wait = IF row[m].wait > 0 THEN row[m].wait - 1 ELSE 0
    BY <1>3, Held DEF Tick, Row
  <2>2. \A m \in Messages : row'[m].content = row[m].content
    BY <1>3, Held DEF Tick, Row
  <2>3. /\ UNCHANGED <<batch, pc, current, answer, orphans>>
        /\ \A w \in Workers : left'[w] = IF left[w] > 0 THEN left[w] - 1 ELSE 0
        /\ \A w \in Workers : pc[w] # "idle" => left[w] > 0
    BY <1>3 DEF Tick
  <2>4. \A w \in Workers : \A m \in batch[w] : Leased(row'[m], left'[w])
    BY <2>1, <2>2, <2>3, Held DEF Leased
  <2>5. HeldRowsAreLeased'
    BY <2>3, <2>4, Held DEF HeldRowsAreLeased, Leased
  <2>6. ExclusiveDispatch'
    BY <2>3 DEF LeaseInv, ExclusiveDispatch
  <2>7. AnswersAreNew'
    <3> SUFFICES ASSUME NEW w \in Workers, answer[w].kind = "accepted"
                 PROVE  row'[current[w]].retried < answer[w].copy
      BY <2>3 DEF AnswersAreNew
    <3>1. current[w] \in Messages
      BY Held
    <3> QED
      BY <2>1, <3>1 DEF LeaseInv, AnswersAreNew
  <2>8. OrphansWereEnqueued'
    <3>1. orphans \subseteq Messages
      BY DEF TypeInv, TypeOK
    <3> QED
      BY <2>1, <2>3, <3>1 DEF LeaseInv, OrphansWereEnqueued
  <2> QED
    BY <2>5, <2>6, <2>7, <2>8 DEF LeaseInv
<1> QED
  BY <1>1, <1>2, <1>3

\* With a lease longer than a cycle may last, every held row is leased to its
\* holder until after the end of the cycle.
THEOREM LeasesHold == ASSUME LeaseCoversCycle PROVE Spec => [](TypeInv /\ RowInv /\ LeaseInv)
<1>1. ASSUME TypeInv, RowInv, LeaseInv, [Next]_vars PROVE LeaseInv'
  <2>1. CASE UNCHANGED vars
    BY <1>1, <2>1 DEF LeaseInv, ExclusiveDispatch, HeldRowsAreLeased, AnswersAreNew,
                      OrphansWereEnqueued, vars
  <2>2. CASE Next
    BY <1>1, <2>2, DispatchLeaseInv, WritersLeaseInv, EnvironmentLeaseInv DEF Next
  <2> QED
    BY <1>1, <2>1, <2>2
<1> QED
  BY <1>1, InitLeaseInv, RowsTellTheTruth, PTL DEF Spec

\* So a row in the hands of a cycle is neither retried nor claimed again.
THEOREM HeldRowsStayLeased == ASSUME LeaseCoversCycle PROVE Spec => []HeldRowsAreLeased
<1>1. LeaseInv => HeldRowsAreLeased
  BY DEF LeaseInv
<1> QED
  BY <1>1, LeasesHold, PTL

\* Then no two workers ever dispatch the same message.
THEOREM DispatchIsExclusive == ASSUME LeaseCoversCycle PROVE Spec => []ExclusiveDispatch
<1>1. LeaseInv => ExclusiveDispatch
  BY DEF LeaseInv
<1> QED
  BY <1>1, LeasesHold, PTL

-----------------------------------------------------------------------------
(* The outbox implements its promise.                                      *)

PromisedSame(m) ==
    /\ row'[m].status = row[m].status
    /\ Len(copies'[m]) = Len(copies[m])
    /\ LastReceipt(row'[m]) = LastReceipt(row[m])

LEMMA PromiseStutters ==
    ASSUME \A m \in Messages : PromisedSame(m)
    PROVE  UNCHANGED Promise!promiseVars
BY DEF PromisedSame, Promise!promiseVars

LEMMA SubmitsOrWithdraws ==
    ASSUME NEW replaced \in SUBSET Messages, \A n \in replaced : row[n].status = "PENDING",
           \A n \in Messages : /\ Len(copies'[n]) = Len(copies[n])
                               /\ LastReceipt(row'[n]) = LastReceipt(row[n])
    PROVE  /\ (\A n \in Messages :
                  row'[n].status = IF n \in replaced THEN "FAILED" ELSE row[n].status)
              => Promise!Next
           /\ \A m \in Messages :
                 /\ row[m].status = "ABSENT"
                 /\ \A n \in Messages :
                       row'[n].status = IF n = m THEN "PENDING"
                                        ELSE IF n \in replaced THEN "FAILED" ELSE row[n].status
                 => Promise!Next
<1>1. ASSUME \A n \in Messages :
                row'[n].status = IF n \in replaced THEN "FAILED" ELSE row[n].status
      PROVE  Promise!Withdraw(replaced)
  BY <1>1 DEF Promise!Withdraw
<1>2. ASSUME NEW m \in Messages, row[m].status = "ABSENT",
             \A n \in Messages :
                row'[n].status = IF n = m THEN "PENDING"
                                 ELSE IF n \in replaced THEN "FAILED" ELSE row[n].status
      PROVE  Promise!Submit(m, replaced)
  BY <1>2 DEF Promise!Submit
<1> QED
  BY <1>1, <1>2 DEF Promise!Next

LEMMA WritersKeepPromise ==
    ASSUME TypeInv, RowInv, LeaseInv,
           \/ \E m \in Messages : Enqueue(m) \/ ReplaceLink(m) \/ Retry(m) \/ Notice(m)
           \/ InvalidateLinks
    PROVE  Promise!Next \/ UNCHANGED Promise!promiseVars
<1>1. copies' = copies
  BY DEF Enqueue, ReplaceLink, Retry, Notice, ProcessNotice, InvalidateLinks
<1>2. \A m \in Messages : row[m].status = "ABSENT" => LastReceipt(row[m]) = NoId
  BY DEF RowInv, RowTellsTruth, LastReceipt
<1>3. ASSUME NEW r \in Row
      PROVE  /\ Invalidated(r).status = IF r.status = "PENDING" /\ r.secret
                                        THEN "FAILED" ELSE r.status
             /\ LastReceipt(Invalidated(r)) = LastReceipt(r)
  BY DEF Invalidated, Row, LastReceipt
<1>4. ASSUME NEW secret \in BOOLEAN
      PROVE  NewRow(secret).status = "PENDING" /\ LastReceipt(NewRow(secret)) = NoId
  BY DEF NewRow, AbsentRow, LastReceipt, NoId
<1> DEFINE links == {m \in Messages : row[m].status = "PENDING" /\ row[m].secret}
<1>5. ASSUME NEW m \in Messages, Enqueue(m) PROVE Promise!Next
  <2>1. \A n \in Messages : /\ row'[n] = IF n = m THEN NewRow(FALSE) ELSE row[n]
                            /\ LastReceipt(row'[n]) = LastReceipt(row[n])
    BY <1>2, <1>4, <1>5, Held DEF Enqueue
  <2>2. row[m].status = "ABSENT" /\ {} \in SUBSET Messages
    BY <1>5 DEF Enqueue
  <2>3. \A n \in Messages : row'[n].status = IF n = m THEN "PENDING"
                                             ELSE IF n \in {} THEN "FAILED" ELSE row[n].status
    BY <1>4, <2>1
  <2> QED
    BY <1>1, <2>1, <2>2, <2>3, SubmitsOrWithdraws
<1>6. ASSUME NEW m \in Messages, ReplaceLink(m) PROVE Promise!Next
  <2>1. \A n \in Messages : row'[n] = IF n = m THEN NewRow(TRUE) ELSE Invalidated(row[n])
    BY <1>6 DEF ReplaceLink
  <2>2. row[m].status = "ABSENT" /\ links \in SUBSET Messages
    BY <1>6 DEF ReplaceLink
  <2>3. \A n \in Messages : LastReceipt(row'[n]) = LastReceipt(row[n])
    BY <1>2, <1>3, <1>4, <2>1, <2>2, Held
  <2>4. \A n \in Messages : row'[n].status = IF n = m THEN "PENDING"
                                             ELSE IF n \in links THEN "FAILED" ELSE row[n].status
    BY <1>3, <1>4, <2>1, Held
  <2> QED
    BY <1>1, <2>2, <2>3, <2>4, SubmitsOrWithdraws
<1>7. ASSUME InvalidateLinks PROVE Promise!Next
  <2>1. \A n \in Messages : row'[n] = Invalidated(row[n])
    BY <1>7 DEF InvalidateLinks
  <2>2. \A n \in Messages : /\ LastReceipt(row'[n]) = LastReceipt(row[n])
                            /\ row'[n].status = IF n \in links THEN "FAILED" ELSE row[n].status
    BY <1>3, <2>1, Held
  <2> QED
    BY <1>1, <2>2, SubmitsOrWithdraws
<1>8. ASSUME NEW m \in Messages, Retry(m) PROVE Promise!Next
  <2>1. row[m].status \in {"SENT", "FAILED"}
    BY <1>8, Held DEF Retry, IsRetryable
  <2>2. RetriedRow(row[m]).status = "PENDING"
    BY Held DEF RetriedRow, Row
  <2>3. LastReceipt(RetriedRow(row[m])) = LastReceipt(row[m])
    BY Held DEF RetriedRow, Row, LastReceipt, NoId
  <2>4. \A n \in Messages : row'[n] = IF n = m THEN RetriedRow(row[m]) ELSE row[n]
    BY <1>8, Held DEF Retry
  <2>5. Promise!HandInAgain(m)
    BY <1>1, <2>1, <2>2, <2>3, <2>4 DEF Promise!HandInAgain
  <2> QED
    BY <2>5 DEF Promise!Next
<1>9. ASSUME NEW m \in Messages, Notice(m) PROVE UNCHANGED Promise!promiseVars
  <2> PICK k \in 1 .. Len(copies[m]) : \E s \in Notices(copies[m][k]) : ProcessNotice(m, k, s)
    BY <1>9 DEF Notice
  <2>1. PICK s \in Notices(copies[m][k]) : ProcessNotice(m, k, s)
    OBVIOUS
  <2>2. /\ RecordDelivery(row[m], s).status = row[m].status
        /\ LastReceipt(RecordDelivery(row[m], s)) = LastReceipt(row[m])
    BY Held DEF RecordDelivery, Row, LastReceipt
  <2>3. \A n \in Messages : row'[n] = IF n = m THEN RecordDelivery(row[m], s) ELSE row[n]
    BY <2>1, Held DEF ProcessNotice
  <2> QED
    BY <1>1, <2>2, <2>3, PromiseStutters DEF PromisedSame
<1> QED
  BY <1>5, <1>6, <1>7, <1>8, <1>9

LEMMA TakesCopy ==
    ASSUME TypeInv, NEW m \in Messages, Accept(m), row[m].status # "ABSENT", row' = row
    PROVE  Promise!Next
<1>1. \A n \in Messages : Len(copies'[n]) = IF n = m THEN Len(copies[m]) + 1 ELSE Len(copies[n])
  BY AcceptType
<1>2. Promise!Take(m)
  BY <1>1 DEF Promise!Take
<1> QED
  BY <1>2 DEF Promise!Next

\* Saving an answer reports a newer copy, gives the message up or reschedules it.
LEMMA SaveKeepsPromise ==
    ASSUME TypeInv, RowInv, LeaseInv, NEW w \in Workers, SaveResult(w)
    PROVE  Promise!Next \/ UNCHANGED Promise!promiseVars
<1> PICK m \in Messages : m = current[w]
  BY DEF TypeInv, TypeOK, CycleShape, SendsWhatItHolds, SaveResult
<1> DEFINE s == Resolved(row[m], answer[w])
<1>1. row[m] \in Row /\ answer[w] \in Answer
  BY Held DEF TypeInv, TypeOK
<1>2. copies' = copies /\ \A n \in Messages : row'[n] = IF n = m THEN s ELSE row[n]
  BY Held DEF SaveResult
<1>3. CASE row[m].status # "PENDING"
  <2>1. s = row[m]
    BY <1>3 DEF Resolved
  <2> QED
    BY <1>2, <2>1, PromiseStutters DEF PromisedSame
<1>4. CASE row[m].status = "PENDING" /\ answer[w].kind = "accepted"
  <2>1. s.status = "SENT" /\ s.ext = answer[w].copy
    BY <1>1, <1>4 DEF Resolved, MarkSent, Row
  <2>2. answer[w].copy \in 1 .. Len(copies[m]) /\ row[m].retried < answer[w].copy
    BY <1>4 DEF RowInv, AnswersAreReal, LeaseInv, AnswersAreNew
  <2>3. LastReceipt(row[m]) = row[m].retried /\ LastReceipt(s) = answer[w].copy
    BY <1>1, <1>4, <2>1, <2>2 DEF LastReceipt, RowInv, RowTellsTruth, NoId
  <2>4. row[m].retried \in Nat /\ Len(copies[m]) \in Nat
    BY <1>1 DEF Row, TypeInv, TypeOK
  <2>5. answer[w].copy \in (LastReceipt(row[m]) + 1) .. Len(copies[m])
    BY <2>2, <2>3, <2>4
  <2>6. Promise!ReportSent(m)
    <3>1. /\ [n \in Messages |-> row[n].status]'
              = [[n \in Messages |-> row[n].status] EXCEPT ![m] = "SENT"]
          /\ [n \in Messages |-> LastReceipt(row[n])]'
              = [[n \in Messages |-> LastReceipt(row[n])] EXCEPT ![m] = answer[w].copy]
          /\ [n \in Messages |-> Len(copies[n])]' = [n \in Messages |-> Len(copies[n])]
      <4> HIDE DEF s
      <4> QED
        BY <1>2, <2>1, <2>3
    <3> QED
      BY <1>4, <2>5, <3>1 DEF Promise!ReportSent
  <2> QED
    BY <1>1, <2>6 DEF Promise!Next
<1>5. CASE row[m].status = "PENDING" /\ answer[w].kind # "accepted"
  <2>1. s = RegisterFailure(row[m], answer[w].kind = "permanent")
    BY <1>5 DEF Resolved
  <2>2. s.status \in {"PENDING", "FAILED"} /\ LastReceipt(s) = LastReceipt(row[m])
    BY <1>1, <1>5, <2>1 DEF RegisterFailure, Row, LastReceipt
  <2>3. CASE s.status = "PENDING"
    BY <1>2, <1>5, <2>2, <2>3, PromiseStutters DEF PromisedSame
  <2>4. CASE s.status = "FAILED"
    <3>1. Promise!GiveUp(m)
      BY <1>1, <1>2, <1>5, <2>2, <2>4 DEF Promise!GiveUp
    <3> QED
      BY <1>1, <3>1 DEF Promise!Next
  <2> QED
    BY <2>2, <2>3, <2>4
<1> QED
  BY <1>3, <1>4, <1>5

LEMMA CyclesKeepPromise ==
    ASSUME TypeInv, RowInv, LeaseInv,
           \/ \E w \in Workers : Dispatch(w)
           \/ \E m \in Messages : ResolveOrphan(m)
           \/ \E m \in Messages : \E k \in 1 .. Len(copies[m]) : WhatsAppStep(m, k)
           \/ Tick
    PROVE  Promise!Next \/ UNCHANGED Promise!promiseVars
<1>1. ASSUME UNCHANGED copies, \A m \in Messages : \E n : row'[m] = [row[m] EXCEPT !.wait = n]
      PROVE  UNCHANGED Promise!promiseVars
  <2>1. ASSUME NEW m \in Messages PROVE PromisedSame(m)
    <3>1. PICK n : row'[m] = [row[m] EXCEPT !.wait = n]
      BY <1>1
    <3>2. /\ row'[m].status = row[m].status /\ row'[m].ext = row[m].ext
          /\ row'[m].retried = row[m].retried
      BY <3>1, Held DEF Row
    <3> QED
      BY <1>1, <3>2 DEF PromisedSame, LastReceipt
  <2> QED
    BY <2>1, PromiseStutters
<1>2. ASSUME UNCHANGED rowVars PROVE UNCHANGED Promise!promiseVars
  BY <1>2, PromiseStutters DEF PromisedSame, rowVars
<1>3. ASSUME NEW w \in Workers, NEW claimed \in SUBSET Messages, StartCycle(w, claimed)
      PROVE  UNCHANGED Promise!promiseVars
  <2>1. ASSUME NEW m \in Messages PROVE \E n : row'[m] = [row[m] EXCEPT !.wait = n]
    <3>1. row[m] = [row[m] EXCEPT !.wait = row[m].wait]
      BY Held DEF Row
    <3>2. row'[m] = IF m \in claimed THEN [row[m] EXCEPT !.wait = Lease] ELSE row[m]
      BY <1>3 DEF StartCycle, Claimed
    <3> QED
      BY <3>1, <3>2
  <2> QED
    BY <1>1, <1>3, <2>1 DEF StartCycle
<1>4. ASSUME NEW w \in Workers, GatewayAnswer(w)
      PROVE  Promise!Next \/ UNCHANGED Promise!promiseVars
  <2>1. current[w] \in Messages /\ row[current[w]].status # "ABSENT"
    BY <1>4, Held DEF TypeInv, TypeOK, CycleShape, SendsWhatItHolds, Leased, GatewayAnswer
  <2>2. row' = row /\ (Accept(current[w]) \/ UNCHANGED copies)
    BY <1>4 DEF GatewayAnswer
  <2> QED
    BY <1>2, <2>1, <2>2, TakesCopy DEF rowVars
<1>5. ASSUME NEW w \in Workers, Dispatch(w)
      PROVE  Promise!Next \/ UNCHANGED Promise!promiseVars
  <2>1. ASSUME NEW m \in Messages, Send(w, m) PROVE UNCHANGED rowVars
    BY <2>1 DEF Send
  <2>2. SaveFails(w) \/ CancelCycle(w) \/ Crash(w) => UNCHANGED rowVars
    BY DEF SaveFails, CancelCycle, Crash, Abandon
  <2> QED
    BY <1>2, <1>3, <1>4, <1>5, <2>1, <2>2, SaveKeepsPromise DEF Dispatch
<1>6. ASSUME NEW m \in Messages, ResolveOrphan(m)
      PROVE  Promise!Next \/ UNCHANGED Promise!promiseVars
  <2>1. row[m].status # "ABSENT" /\ row' = row
    BY <1>6 DEF ResolveOrphan, LeaseInv, OrphansWereEnqueued
  <2> QED
    BY <1>2, <1>6, <2>1, TakesCopy DEF ResolveOrphan, rowVars
<1>7. ASSUME NEW m \in Messages, NEW k \in 1 .. Len(copies[m]), WhatsAppStep(m, k)
      PROVE  UNCHANGED Promise!promiseVars
  <2>1. PICK s : copies' = [copies EXCEPT ![m][k] = s] /\ row' = row
    BY <1>7 DEF WhatsAppStep
  <2>2. \A n \in Messages : Len(copies'[n]) = Len(copies[n])
    BY <2>1 DEF TypeInv, TypeOK
  <2> QED
    BY <2>1, <2>2, PromiseStutters DEF PromisedSame
<1>8. ASSUME Tick PROVE UNCHANGED Promise!promiseVars
  BY <1>1, <1>8 DEF Tick
<1> QED
  BY <1>5, <1>6, <1>7, <1>8

\* The outbox implements its promise: whatever crashes, is retried or comes
\* late, a message is reported sent only with the receipt of a copy that the
\* gateway took, and each report names a later copy than the one before.
THEOREM OutboxKeepsPromise == ASSUME LeaseCoversCycle PROVE Spec => KeepsPromise
<1>1. Init => Promise!Init
  <2>1. Len(<<>>) = 0 /\ LastReceipt(AbsentRow) = 0 /\ AbsentRow.status = "ABSENT"
    BY DEF LastReceipt, AbsentRow, NoId
  <2> QED
    BY <2>1 DEF Init, Promise!Init
<1>2. ASSUME TypeInv, RowInv, LeaseInv, [Next]_vars
      PROVE  [Promise!Next]_(Promise!promiseVars)
  <2>1. CASE UNCHANGED vars
    BY <2>1, PromiseStutters DEF vars, PromisedSame
  <2>2. CASE Next
    BY <1>2, <2>2, WritersKeepPromise, CyclesKeepPromise DEF Next
  <2> QED
    BY <1>2, <2>1, <2>2
<1> QED
  BY <1>1, <1>2, LeasesHold, PTL DEF Spec, KeepsPromise, Promise!Spec

\* The gateway is not called for a message that the row records as sent.
THEOREM NothingSentIsSentAgain == ASSUME LeaseCoversCycle PROVE Spec => NoSendOnceSent
<1>1. ASSUME TypeInv, RowInv, LeaseInv, [Next]_vars,
             NEW w \in Workers, pc[w] # "sending", pc'[w] = "sending"
      PROVE  row[current'[w]].status # "SENT"
  <2>1. \E m \in Messages : Send(w, m)
    <3>1. ASSUME NEW v \in Workers, v # w, Dispatch(v) PROVE pc'[w] = pc[w]
      <4>1. \E x : pc' = [pc EXCEPT ![v] = x]
        BY <3>1 DEF Dispatch, StartCycle, Send, GatewayAnswer, SaveResult, SaveFails,
                    NextMessage, CancelCycle, Crash, Abandon
      <4> QED
        BY <1>1, <3>1, <4>1 DEF TypeInv, TypeOK
    <3>2. Dispatch(w) => \E m \in Messages : Send(w, m)
      BY <1>1 DEF Dispatch, StartCycle, GatewayAnswer, SaveResult, SaveFails, NextMessage,
                  CancelCycle, Crash, Abandon, TypeInv, TypeOK
    <3>3. Next /\ (\A v \in Workers : ~Dispatch(v)) => pc' = pc
      BY DEF Next, Enqueue, ReplaceLink, InvalidateLinks, Retry, Notice, ProcessNotice,
             ResolveOrphan, WhatsAppStep, Tick, cycleVars
    <3> QED
      BY <1>1, <3>1, <3>2, <3>3 DEF vars
  <2>2. current'[w] \in batch[w]
    BY <1>1, <2>1 DEF Send, TypeInv, TypeOK
  <2> QED
    BY <1>1, <2>2, Held DEF Leased
<1>2. TypeInv /\ RowInv /\ LeaseInv /\ [Next]_vars =>
      [\A w \in Workers :
          pc[w] # "sending" /\ pc'[w] = "sending" => row[current'[w]].status # "SENT"]_vars
  BY <1>1
<1> QED
  BY <1>2, LeasesHold, PTL DEF Spec, NoSendOnceSent

-----------------------------------------------------------------------------
(* How a row may change in one step: the operations of the aggregate, each *)
(* under the condition that its caller has checked.                        *)

RowMoves(m) ==
    \/ \E n \in Nat : row'[m] = [row[m] EXCEPT !.wait = n]
    \/ row[m].status = "ABSENT" /\ \E secret \in BOOLEAN : row'[m] = NewRow(secret)
    \/ row'[m] = Invalidated(row[m])
    \/ IsRetryable(row[m]) /\ row'[m] = RetriedRow(row[m])
    \/ row[m].status = "SENT" /\ \E s \in DeliveryStatus : row'[m] = RecordDelivery(row[m], s)
    \/ \E w \in Workers : current[w] = m /\ row'[m] = Resolved(row[m], answer[w])

LEMMA RowsMove ==
    ASSUME TypeInv, [Next]_vars, NEW m \in Messages
    PROVE  RowMoves(m)
<1>1. row \in [Messages -> Row] /\ row[m] \in Row
  BY DEF TypeInv, TypeOK
<1>2. row[m].wait \in Nat
  BY <1>1 DEF Row
<1>3. row[m] = [row[m] EXCEPT !.wait = row[m].wait]
  BY <1>1 DEF Row
<1>4. ASSUME row'[m] = row[m] PROVE RowMoves(m)
  BY <1>2, <1>3, <1>4 DEF RowMoves
<1>5. ASSUME NEW n \in Nat, row'[m] = [row[m] EXCEPT !.wait = n] PROVE RowMoves(m)
  BY <1>5 DEF RowMoves
<1>6. ASSUME NEW w \in Workers, Dispatch(w) PROVE RowMoves(m)
  <2>1. ASSUME NEW claimed \in SUBSET Messages, StartCycle(w, claimed) PROVE RowMoves(m)
    <3>1. row'[m] = IF m \in claimed THEN [row[m] EXCEPT !.wait = Lease] ELSE row[m]
      BY <2>1 DEF StartCycle, Claimed
    <3>2. Lease \in Nat
      BY OutboxConstants
    <3> QED
      BY <1>4, <1>5, <3>1, <3>2
  <2>2. ASSUME SaveResult(w) PROVE RowMoves(m)
    <3>1. row'[m] = IF m = current[w] THEN Resolved(row[m], answer[w]) ELSE row[m]
      BY <1>1, <2>2 DEF SaveResult
    <3>2. CASE m = current[w]
      BY <3>1, <3>2 DEF RowMoves
    <3> QED
      BY <1>4, <3>1, <3>2
  <2>3. \/ \E n \in Messages : Send(w, n)
        \/ GatewayAnswer(w) \/ SaveFails(w) \/ CancelCycle(w) \/ Crash(w)
        => row' = row
    BY DEF Send, GatewayAnswer, SaveFails, CancelCycle, Crash, Abandon, rowVars
  <2> QED
    BY <1>4, <1>6, <2>1, <2>2, <2>3 DEF Dispatch
<1>7. ASSUME NEW n \in Messages, Enqueue(n) PROVE RowMoves(m)
  <2>1. row'[m] = IF m = n THEN NewRow(FALSE) ELSE row[m]
    BY <1>1, <1>7 DEF Enqueue
  <2>2. CASE m = n
    BY <1>7, <2>1, <2>2 DEF RowMoves, Enqueue
  <2> QED
    BY <1>4, <2>1, <2>2
<1>8. ASSUME NEW n \in Messages, ReplaceLink(n) PROVE RowMoves(m)
  <2>1. row'[m] = IF m = n THEN NewRow(TRUE) ELSE Invalidated(row[m])
    BY <1>8 DEF ReplaceLink
  <2> QED
    BY <1>8, <2>1 DEF RowMoves, ReplaceLink
<1>9. ASSUME InvalidateLinks PROVE RowMoves(m)
  BY <1>9 DEF InvalidateLinks, RowMoves
<1>10. ASSUME NEW n \in Messages, Retry(n) PROVE RowMoves(m)
  <2>1. row'[m] = IF m = n THEN RetriedRow(row[m]) ELSE row[m]
    BY <1>1, <1>10 DEF Retry
  <2>2. CASE m = n
    BY <1>10, <2>1, <2>2 DEF RowMoves, Retry
  <2> QED
    BY <1>4, <2>1, <2>2
<1>11. ASSUME NEW n \in Messages, Notice(n) PROVE RowMoves(m)
  <2> PICK k \in 1 .. Len(copies[n]) : \E s \in Notices(copies[n][k]) : ProcessNotice(n, k, s)
    BY <1>11 DEF Notice
  <2> PICK s \in Notices(copies[n][k]) : ProcessNotice(n, k, s)
    OBVIOUS
  <2>1. s \in DeliveryStatus
    BY NoticesType
  <2>2. row'[m] = IF m = n THEN RecordDelivery(row[m], s) ELSE row[m]
    BY <1>1 DEF ProcessNotice
  <2>3. CASE m = n
    BY <2>1, <2>2, <2>3 DEF RowMoves, ProcessNotice
  <2> QED
    BY <1>4, <2>2, <2>3
<1>12. ASSUME Tick PROVE RowMoves(m)
  <2>1. row'[m] = [row[m] EXCEPT !.wait = IF row[m].wait > 0 THEN row[m].wait - 1 ELSE 0]
    BY <1>12 DEF Tick
  <2>2. (IF row[m].wait > 0 THEN row[m].wait - 1 ELSE 0) \in Nat
    BY <1>2
  <2> QED
    BY <1>5, <2>1, <2>2
<1>13. \/ \E n \in Messages : ResolveOrphan(n)
       \/ \E n \in Messages : \E k \in 1 .. Len(copies[n]) : WhatsAppStep(n, k)
       \/ UNCHANGED vars
       => row' = row
  BY DEF ResolveOrphan, WhatsAppStep, vars
<1> QED
  BY <1>4, <1>6, <1>7, <1>8, <1>9, <1>10, <1>11, <1>12, <1>13 DEF Next

\* What the operations leave of the id, of the id kept by a retry and of the
\* delivery status.
LEMMA OperationsOnIds ==
    ASSUME NEW r \in Row
    PROVE  /\ \A n \in Nat : LET s == [r EXCEPT !.wait = n] IN
                 s.ext = r.ext /\ s.retried = r.retried /\ s.delivery = r.delivery
           /\ LET s == Invalidated(r) IN
                 s.ext = r.ext /\ s.retried = r.retried /\ s.delivery = r.delivery
           /\ RetriedRow(r).ext = NoId
           /\ RetriedRow(r).retried = IF r.ext # NoId THEN r.ext ELSE r.retried
           /\ \A d \in DeliveryStatus : LET s == RecordDelivery(r, d) IN
                 /\ s.ext = r.ext /\ s.retried = r.retried
                 /\ s.delivery = IF DeliveryApplies(r, d) THEN d ELSE r.delivery
           /\ \A a \in Answer : LET s == Resolved(r, a) IN
                 /\ s.retried = r.retried /\ s.delivery = r.delivery
                 /\ s.ext # r.ext =>
                       r.status = "PENDING" /\ a.kind = "accepted" /\ s.ext = a.copy
<1>1. \A n \in Nat : LET s == [r EXCEPT !.wait = n] IN
         s.ext = r.ext /\ s.retried = r.retried /\ s.delivery = r.delivery
  BY DEF Row
<1>2. LET s == Invalidated(r) IN
         s.ext = r.ext /\ s.retried = r.retried /\ s.delivery = r.delivery
  BY DEF Row, Invalidated
<1>3. /\ RetriedRow(r).ext = NoId
      /\ RetriedRow(r).retried = IF r.ext # NoId THEN r.ext ELSE r.retried
  BY DEF Row, RetriedRow
<1>4. \A d \in DeliveryStatus : LET s == RecordDelivery(r, d) IN
         /\ s.ext = r.ext /\ s.retried = r.retried
         /\ s.delivery = IF DeliveryApplies(r, d) THEN d ELSE r.delivery
  BY DEF Row, RecordDelivery
<1>5. ASSUME NEW a \in Answer
      PROVE  LET s == Resolved(r, a) IN
                /\ s.retried = r.retried /\ s.delivery = r.delivery
                /\ s.ext # r.ext =>
                      r.status = "PENDING" /\ a.kind = "accepted" /\ s.ext = a.copy
  <2>1. /\ MarkSent(r, a.copy).retried = r.retried /\ MarkSent(r, a.copy).ext = a.copy
        /\ MarkSent(r, a.copy).delivery = r.delivery
    BY DEF Row, MarkSent
  <2>2. ASSUME NEW permanent \in BOOLEAN
        PROVE  LET s == RegisterFailure(r, permanent) IN
                  s.ext = r.ext /\ s.retried = r.retried /\ s.delivery = r.delivery
    BY DEF Row, RegisterFailure
  <2>3. (a.kind = "permanent") \in BOOLEAN
    OBVIOUS
  <2> QED
    BY <2>1, <2>2, <2>3 DEF Resolved
<1> QED
  BY <1>1, <1>2, <1>3, <1>4, <1>5

\* A step leaves the ids of a row alone but for a new row, a retry and a copy.
SameIds(m) == row'[m].ext = row[m].ext /\ row'[m].retried = row[m].retried

Notified(m) ==
    \E d \in DeliveryStatus : DeliveryApplies(row[m], d) /\ row'[m].delivery = d

LEMMA IdsMove ==
    ASSUME TypeInv, [Next]_vars, NEW m \in Messages
    PROVE  \/ SameIds(m) /\ (row'[m].delivery = row[m].delivery \/ Notified(m))
           \/ row[m].status = "ABSENT" /\ row'[m].ext = NoId
           \/ row'[m] = RetriedRow(row[m])
           \/ \E w \in Workers : current[w] = m /\ row'[m] = Resolved(row[m], answer[w])
<1>1. RowMoves(m)
  BY RowsMove
<1>2. row[m] \in Row
  BY DEF TypeInv, TypeOK
<1>3. ASSUME NEW n \in Nat, row'[m] = [row[m] EXCEPT !.wait = n]
      PROVE  SameIds(m) /\ row'[m].delivery = row[m].delivery
  BY <1>2, <1>3, OperationsOnIds DEF SameIds
<1>4. ASSUME row'[m] = Invalidated(row[m])
      PROVE  SameIds(m) /\ row'[m].delivery = row[m].delivery
  BY <1>2, <1>4, OperationsOnIds DEF SameIds
<1>5. ASSUME NEW d \in DeliveryStatus, row'[m] = RecordDelivery(row[m], d)
      PROVE  SameIds(m) /\ (row'[m].delivery = row[m].delivery \/ Notified(m))
  <2>1. row'[m].delivery = IF DeliveryApplies(row[m], d) THEN d ELSE row[m].delivery
    BY <1>2, <1>5, OperationsOnIds
  <2>2. SameIds(m)
    BY <1>2, <1>5, OperationsOnIds DEF SameIds
  <2> QED
    BY <2>1, <2>2 DEF Notified
<1>6. \A secret \in BOOLEAN : NewRow(secret).ext = NoId
  BY DEF NewRow, AbsentRow
<1> QED
  BY <1>1, <1>3, <1>4, <1>5, <1>6 DEF RowMoves

\* What the theorems below use of a state.
LEMMA RowFacts ==
    ASSUME TypeInv, RowInv, NEW m \in Messages
    PROVE  /\ row[m] \in Row
           /\ row[m].ext \in Nat /\ row[m].retried \in Nat /\ Len(copies[m]) \in Nat
           /\ row[m].ext # NoId <=> row[m].status = "SENT"
           /\ row[m].delivery # "NONE" => row[m].status = "SENT"
           /\ row[m].status = "ABSENT" => row[m].retried = NoId
           /\ \A w \in Workers : answer[w] \in Answer
<1>1. row[m] \in Row /\ copies[m] \in Seq(DeliveryStatus \cup {"NONE"})
  BY DEF TypeInv, TypeOK
<1>2. \A w \in Workers : answer[w] \in Answer
  BY DEF TypeInv, TypeOK
<1>3. row[m].ext \in Nat /\ row[m].retried \in Nat
  BY <1>1 DEF Row
<1>4. Len(copies[m]) \in Nat
  BY <1>1
<1>5. RowTellsTruth(row[m], copies[m])
  BY DEF RowInv
<1> QED
  BY <1>1, <1>2, <1>3, <1>4, <1>5 DEF RowTellsTruth

\* Once a row is resolved, only a retry reopens it: a worker that comes late
\* leaves it as it is.
THEOREM ResolvedRowsStayResolved == Spec => ResolvedRowsReopenOnlyByRetry
<1>1. ASSUME TypeInv, [Next]_vars, NEW m \in Messages, row[m].status \in {"SENT", "FAILED"}
      PROVE  \/ row'[m] = [row[m] EXCEPT !.delivery = row'[m].delivery, !.wait = row'[m].wait]
             \/ IsRetryable(row[m]) /\ row'[m] = RetriedRow(row[m])
  <2>1. RowMoves(m)
    BY <1>1, RowsMove
  <2>2. row[m] \in Row
    BY <1>1 DEF TypeInv, TypeOK
  <2>3. row[m].status # "PENDING" /\ row[m].status # "ABSENT"
    BY <1>1
  <2>4. \A r \in Row : \A n \in Nat :
           [r EXCEPT !.wait = n] = [r EXCEPT !.delivery = r.delivery, !.wait = n]
    BY DEF Row
  <2>5. \A r \in Row : r = [r EXCEPT !.delivery = r.delivery, !.wait = r.wait]
    BY DEF Row
  <2>6. \A r \in Row : \A d \in DeliveryStatus :
           [r EXCEPT !.delivery = d] = [r EXCEPT !.delivery = d, !.wait = r.wait]
    BY DEF Row
  <2>7. ASSUME NEW n \in Nat, row'[m] = [row[m] EXCEPT !.wait = n]
        PROVE  row'[m] = [row[m] EXCEPT !.delivery = row'[m].delivery, !.wait = row'[m].wait]
    <3>1. row'[m].wait = n /\ row'[m].delivery = row[m].delivery
      BY <2>2, <2>7 DEF Row
    <3> QED
      BY <2>2, <2>4, <2>7, <3>1
  <2>8. ASSUME row'[m] = row[m]
        PROVE  row'[m] = [row[m] EXCEPT !.delivery = row'[m].delivery, !.wait = row'[m].wait]
    BY <2>2, <2>5, <2>8
  <2>9. ASSUME NEW d \in DeliveryStatus, row'[m] = [row[m] EXCEPT !.delivery = d]
        PROVE  row'[m] = [row[m] EXCEPT !.delivery = row'[m].delivery, !.wait = row'[m].wait]
    <3>1. row'[m].wait = row[m].wait /\ row'[m].delivery = d
      BY <2>2, <2>9 DEF Row
    <3> QED
      BY <2>2, <2>6, <2>9, <3>1
  <2>10. /\ Invalidated(row[m]) = row[m]
         /\ \A w \in Workers : Resolved(row[m], answer[w]) = row[m]
    BY <2>3 DEF Invalidated, Resolved
  <2>11. \A d \in DeliveryStatus :
            RecordDelivery(row[m], d) \in {row[m], [row[m] EXCEPT !.delivery = d]}
    BY DEF RecordDelivery
  <2> QED
    BY <2>1, <2>3, <2>7, <2>8, <2>9, <2>10, <2>11 DEF RowMoves
<1>2. TypeInv /\ [Next]_vars => [ReopensByRetry]_vars
  BY <1>1 DEF ReopensByRetry
<1> QED
  BY <1>2, TypeCorrect, PTL DEF Spec, ResolvedRowsReopenOnlyByRetry

\* In whatever order the notices of a copy arrive, its delivery status never
\* goes back.
THEOREM DeliveryOnlyAdvances == Spec => DeliveryNeverRegresses
<1>1. ASSUME TypeInv, RowInv, [Next]_vars, NEW m \in Messages,
             row[m].ext # NoId, row'[m].ext = row[m].ext
      PROVE  row'[m].delivery = row[m].delivery \/ Notified(m)
  <2>1. /\ row[m] \in Row /\ row[m].status = "SENT"
        /\ \A w \in Workers : answer[w] \in Answer
    BY <1>1, RowFacts
  <2>2. row'[m] # RetriedRow(row[m])
    BY <1>1, <2>1, OperationsOnIds
  <2>3. ASSUME NEW w \in Workers, row'[m] = Resolved(row[m], answer[w])
        PROVE  row'[m].delivery = row[m].delivery
    BY <2>1, <2>3, OperationsOnIds
  <2> QED
    BY <1>1, <2>1, <2>2, <2>3, IdsMove
<1>2. ASSUME TypeInv, RowInv, [Next]_vars PROVE DeliveryAdvances
  <2> SUFFICES ASSUME NEW m \in Messages, row[m].ext # NoId, row'[m].ext = row[m].ext
               PROVE  /\ row[m].delivery = "READ" => row'[m].delivery = "READ"
                      /\ row[m].delivery = "DELIVERED" => row'[m].delivery \in {"DELIVERED", "READ"}
                      /\ row[m].delivery = "FAILED" => row'[m].delivery # "NONE"
    BY DEF DeliveryAdvances
  <2> QED
    BY <1>1, <1>2 DEF Notified, DeliveryApplies, DeliveryStatus
<1>3. TypeInv /\ RowInv /\ [Next]_vars => [DeliveryAdvances]_vars
  BY <1>2
<1> QED
  BY <1>3, RowsTellTheTruth, PTL DEF Spec, DeliveryNeverRegresses

\* The id that a retry keeps is of an earlier copy than the one of the row.
KeptIdsAreOlder ==
    \A m \in Messages : row[m].ext # NoId => row[m].retried < row[m].ext

LEMMA KeptIdsStayOlder ==
    ASSUME TypeInv, RowInv, LeaseInv, KeptIdsAreOlder, [Next]_vars
    PROVE  KeptIdsAreOlder'
<1> SUFFICES ASSUME NEW m \in Messages, row'[m].ext # NoId
             PROVE  row'[m].retried < row'[m].ext
  BY DEF KeptIdsAreOlder
<1>1. /\ row[m] \in Row /\ \A w \in Workers : answer[w] \in Answer
      /\ row[m].ext # NoId => row[m].retried < row[m].ext
  BY RowFacts DEF KeptIdsAreOlder
<1>2. ASSUME SameIds(m) PROVE row'[m].retried < row'[m].ext
  BY <1>1, <1>2 DEF SameIds
<1>3. ASSUME NEW w \in Workers, current[w] = m, row'[m] = Resolved(row[m], answer[w])
      PROVE  row'[m].retried < row'[m].ext
  <2>1. answer[w].kind = "accepted" => row[m].retried < answer[w].copy
    BY <1>3 DEF LeaseInv, AnswersAreNew
  <2>2. row'[m].retried = row[m].retried
    BY <1>1, <1>3, OperationsOnIds
  <2>3. row'[m].ext # row[m].ext => answer[w].kind = "accepted" /\ row'[m].ext = answer[w].copy
    BY <1>1, <1>3, OperationsOnIds
  <2> QED
    BY <1>2, <2>1, <2>2, <2>3 DEF SameIds
<1>4. row'[m] # RetriedRow(row[m])
  BY <1>1, OperationsOnIds
<1> QED
  BY <1>2, <1>3, <1>4, IdsMove

\* An id that resolves to its row goes on doing so, until a later copy has been
\* retried in its turn.  It takes the leases: an answer that came after the one
\* of another worker could store an earlier id.
THEOREM IdsKeepResolving == ASSUME LeaseCoversCycle PROVE Spec => KnownIdsResolve
<1>1. ASSUME TypeInv, RowInv, KeptIdsAreOlder, [Next]_vars PROVE IdsStayKnown
  <2> SUFFICES ASSUME NEW m \in Messages, NEW k \in 1 .. Len(copies[m]),
                      k \in {row[m].ext, row[m].retried}
               PROVE  \/ k \in {row'[m].ext, row'[m].retried}
                      \/ row[m].ext > k /\ row'[m].retried = row[m].ext
    BY DEF IdsStayKnown
  <2>1. /\ row[m] \in Row /\ \A w \in Workers : answer[w] \in Answer
        /\ row[m].ext \in Nat /\ row[m].retried \in Nat
        /\ row[m].ext # NoId <=> row[m].status = "SENT"
        /\ row[m].status = "ABSENT" => row[m].retried = NoId
        /\ row[m].ext # NoId => row[m].retried < row[m].ext
    BY <1>1, RowFacts DEF KeptIdsAreOlder
  <2>2. k # NoId /\ k \in Nat
    BY <1>1, RowFacts DEF NoId
  <2>3. row[m].status # "ABSENT"
    BY <2>1, <2>2
  <2>4. CASE SameIds(m)
    BY <2>4 DEF SameIds
  <2>5. CASE row'[m] = RetriedRow(row[m])
    <3>1. row'[m].retried = IF row[m].ext # NoId THEN row[m].ext ELSE row[m].retried
      BY <2>1, <2>5, OperationsOnIds
    <3> QED
      BY <2>1, <2>2, <3>1
  <2>6. ASSUME NEW w \in Workers, row'[m] = Resolved(row[m], answer[w])
        PROVE  k \in {row'[m].ext, row'[m].retried}
    <3>1. /\ row'[m].retried = row[m].retried
          /\ row'[m].ext # row[m].ext => row[m].status = "PENDING"
      BY <2>1, <2>6, OperationsOnIds
    <3> QED
      BY <2>1, <2>2, <3>1
  <2> QED
    BY <1>1, <2>3, <2>4, <2>5, <2>6, IdsMove
<1>2. TypeInv /\ RowInv /\ KeptIdsAreOlder /\ [Next]_vars => [IdsStayKnown]_vars
  BY <1>1
<1>3. Init => KeptIdsAreOlder
  BY DEF Init, KeptIdsAreOlder, AbsentRow
<1> QED
  BY <1>2, <1>3, KeptIdsStayOlder, LeasesHold, PTL DEF Spec, KnownIdsResolve
=============================================================================
