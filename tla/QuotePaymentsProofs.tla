------------------------ MODULE QuotePaymentsProofs ------------------------
(***************************************************************************)
(* Theorems about QuotePayments, for any number of quotes, payments and    *)
(* requests of the staff.  The invariant says what a payment, a quote and  *)
(* a request between two of its transactions may look like; an operation   *)
(* touches one of each, so every proof of preservation looks at one        *)
(* payment, one quote or one request at a time.                            *)
(***************************************************************************)
EXTENDS QuotePayments, TLAPS

Back == {"REFUND_PENDING", "REFUNDED"}
Closed == {"CONVERTED", "EXPIRED", "CANCELLED"}

\* One payment and its quote.
PaymentInv(p) ==
    LET r == payment[p] IN
        /\ p > constructed => r.status = "ABSENT"
        /\ r.status = "ABSENT" => r = AbsentPayment
        /\ r.status # "ABSENT" => r.quote \in Quotes /\ quote[r.quote].status # "ABSENT"
        /\ r.status = "VERIFIED" =>
              r.event /\ r.verifier /\ quote[r.quote].status = "CONVERTED"
        /\ r.event => r.status = "VERIFIED"
        /\ r.verifier => r.status \in {"VERIFIED"} \cup Back
        /\ r.status \in Back /\ r.verifier => quote[r.quote].status \in Closed

\* One quote, its event, its advances and its contract.
QuoteInv(q) ==
    /\ quote[q].status = "CONVERTED" <=> event[q] # "NONE"
    /\ quote[q].status = "CONVERTED" =>
          \E p \in Ids : payment[p].quote = q /\ payment[p].status = "VERIFIED"
    /\ document[q] # NoDocument =>
          quote[q].status = "CONVERTED" /\ document[q] = quote[q].version

\* One request between its two transactions: a constructed payment is not in
\* the table yet, and a refund that was read is still under way or done.
SessionInv(s) ==
    LET t == session[s] IN
        /\ t.task = "registering" =>
              /\ t.id \in Ids /\ t.id <= constructed
              /\ payment[t.id].status = "ABSENT"
              /\ t.quote \in Quotes /\ quote[t.quote].status # "ABSENT"
        /\ t.task = "confirming" => t.id \in Ids /\ t.quote \in Quotes
        /\ t.task = "refunding" =>
              /\ t.id \in Ids
              /\ t.row.status = "REFUND_PENDING" /\ ~t.row.event
              /\ t.row.quote \in Quotes /\ quote[t.row.quote].status # "ABSENT"
              /\ payment[t.id].quote = t.row.quote
              /\ payment[t.id].status \in Back
              /\ t.row.verifier => quote[t.row.quote].status \in Closed

\* No two requests constructed the same payment.
OwnPayments ==
    \A s, t \in Staff :
        /\ s # t
        /\ session[s].task = "registering"
        /\ session[t].task = "registering"
        => session[s].id # session[t].id

Inv ==
    /\ TypeOK
    /\ \A p \in Ids : PaymentInv(p)
    /\ \A q \in Quotes : QuoteInv(q)
    /\ \A s \in Staff : SessionInv(s)
    /\ OwnPayments

-----------------------------------------------------------------------------
(* What every step keeps of the quotes and payments that it finds.         *)

QuotesKeep ==
    \A q \in Quotes :
        /\ quote[q].status # "ABSENT" => quote'[q].status # "ABSENT"
        /\ quote[q].status \in Closed => quote'[q].status = quote[q].status

PaymentsKeep ==
    \A p \in Ids :
        payment[p].status \in {"VERIFIED"} \cup Back =>
            /\ payment'[p].quote = payment[p].quote
            /\ payment[p].status \in Back => payment'[p].status \in Back
            /\ payment[p].status = "VERIFIED" => payment'[p].status = "VERIFIED"

LEMMA PaymentKept ==
    ASSUME TypeOK, QuotesKeep, constructed' \in Nat, constructed' >= constructed,
           NEW p \in Ids, PaymentInv(p), payment'[p] = payment[p]
    PROVE  PaymentInv(p)'
<1>1. p > constructed' => p > constructed
  BY DEF TypeOK, Ids
<1>2. payment[p].status # "ABSENT" =>
         /\ payment[p].quote \in Quotes
         /\ quote'[payment[p].quote].status # "ABSENT"
         /\ quote[payment[p].quote].status \in Closed =>
               quote'[payment[p].quote].status = quote[payment[p].quote].status
  BY DEF PaymentInv, QuotesKeep
<1> QED
  BY <1>1, <1>2 DEF PaymentInv, Back, Closed, AbsentPayment

LEMMA QuoteKept ==
    ASSUME PaymentsKeep, NEW q \in Quotes, QuoteInv(q),
           quote[q].status = "CONVERTED" <=> quote'[q].status = "CONVERTED",
           quote[q].status = "CONVERTED" => quote'[q].version = quote[q].version,
           event'[q] = event[q], document'[q] = document[q]
    PROVE  QuoteInv(q)'
BY DEF QuoteInv, PaymentsKeep, Back, NoDocument

LEMMA SessionKept ==
    ASSUME TypeOK, QuotesKeep, PaymentsKeep, constructed' \in Nat, constructed' >= constructed,
           NEW s \in Staff, SessionInv(s), session'[s] = session[s],
           session[s].task = "registering" => payment'[session[s].id].status = "ABSENT"
    PROVE  SessionInv(s)'
<1> DEFINE t == session[s]
<1>1. t.task = "registering" =>
         t.id \in Ids /\ t.id <= constructed' /\ quote'[t.quote].status # "ABSENT"
  BY DEF SessionInv, QuotesKeep, TypeOK, Ids
<1>2. t.task = "refunding" =>
         /\ quote'[t.row.quote].status # "ABSENT"
         /\ payment'[t.id].quote = payment[t.id].quote
         /\ payment'[t.id].status \in Back
         /\ t.row.verifier => quote'[t.row.quote].status \in Closed
  BY DEF SessionInv, QuotesKeep, PaymentsKeep
<1> QED
  BY <1>1, <1>2 DEF SessionInv

\* A step keeps the invariant when whatever it changes is as it should be.
LEMMA Combine ==
    ASSUME Inv, TypeOK', QuotesKeep, PaymentsKeep, constructed' >= constructed,
           \A p \in Ids : payment'[p] = payment[p] \/ PaymentInv(p)',
           \A q \in Quotes :
              \/ QuoteInv(q)'
              \/ /\ quote[q].status = "CONVERTED" <=> quote'[q].status = "CONVERTED"
                 /\ quote[q].status = "CONVERTED" => quote'[q].version = quote[q].version
                 /\ event'[q] = event[q]
                 /\ document'[q] = document[q],
           \A s \in Staff :
              \/ SessionInv(s)'
              \/ /\ session'[s] = session[s]
                 /\ session[s].task = "registering" =>
                       payment'[session[s].id].status = "ABSENT",
           OwnPayments'
    PROVE  Inv'
<1>1. constructed' \in Nat
  BY DEF TypeOK
<1>2. \A p \in Ids : PaymentInv(p)'
  BY <1>1, PaymentKept DEF Inv
<1>3. \A q \in Quotes : QuoteInv(q)'
  BY QuoteKept DEF Inv
<1>4. \A s \in Staff : SessionInv(s)'
  BY <1>1, SessionKept DEF Inv
<1> QED
  BY <1>2, <1>3, <1>4 DEF Inv

\* Only the request that registers a payment has it before it is inserted.
LEMMA RegisteringAbsent ==
    ASSUME Inv, NEW s \in Staff, session[s].task = "registering"
    PROVE  payment[session[s].id].status = "ABSENT"
BY DEF Inv, SessionInv

LEMMA OwnPaymentsKept ==
    ASSUME Inv,
           \A s \in Staff : session'[s] = session[s] \/ session'[s].task # "registering"
    PROVE  OwnPayments'
BY DEF Inv, OwnPayments

LEMMA IdleType == Idle \in Session
<1>1. AbsentQuote \in Quote
  BY QuoteConstants DEF AbsentQuote, Quote, Versions
<1>2. AbsentPayment \in Payment
  BY DEF AbsentPayment, Payment
<1>3. NoView \in View
  BY <1>1 DEF NoView, View
<1> QED
  BY <1>2, <1>3 DEF Idle, Session

-----------------------------------------------------------------------------
(* The life of a quote.                                                    *)

\* A step that changes one quote and no more, without converting it.
LEMMA QuoteOnly ==
    ASSUME Inv, NEW q \in Quotes, NEW row \in Quote,
           quote' = [quote EXCEPT ![q] = row],
           row.status # "ABSENT",
           quote[q].status \in Closed =>
              row.status = quote[q].status /\ row.version = quote[q].version,
           row.status = "CONVERTED" => quote[q].status = "CONVERTED",
           UNCHANGED <<event, document, payment, constructed, session>>,
           found' \in SUBSET Quotes
    PROVE  Inv'
<1>1. TypeOK'
  BY DEF Inv, TypeOK
<1>2. QuotesKeep
  BY DEF Inv, TypeOK, QuotesKeep
<1>3. PaymentsKeep
  BY DEF PaymentsKeep
<1>4. \A o \in Quotes :
         /\ quote[o].status = "CONVERTED" <=> quote'[o].status = "CONVERTED"
         /\ quote[o].status = "CONVERTED" => quote'[o].version = quote[o].version
  BY DEF Inv, TypeOK, Closed
<1>5. OwnPayments'
  BY OwnPaymentsKept
<1>6. constructed' >= constructed
  BY DEF Inv, TypeOK
<1> QED
  BY <1>1, <1>2, <1>3, <1>4, <1>5, <1>6, Combine, RegisteringAbsent

LEMMA CreateQuoteKeeps ==
    ASSUME Inv, NEW q \in Quotes, NEW manual \in BOOLEAN, CreateQuote(q, manual)
    PROVE  Inv'
<1> DEFINE row == [quote[q] EXCEPT !.status = "SENT", !.manual = manual]
<1>1. row \in Quote /\ row.status = "SENT" /\ quote[q].status = "ABSENT"
  BY DEF Inv, TypeOK, Quote, QuoteStatus, CreateQuote
<1>2. quote' = [quote EXCEPT ![q] = row]
  BY DEF CreateQuote, Inv, TypeOK, Quote
<1> HIDE DEF row
<1> QED
  BY <1>1, <1>2, QuoteOnly DEF CreateQuote, Inv, TypeOK, Closed

\* The same for a step that changes no row: only the cron's snapshot may move.
LEMMA UnmovedKeeps ==
    ASSUME Inv, TypeOK',
           UNCHANGED <<quote, event, document, payment, constructed, session>>
    PROVE  Inv'
<1>1. \A p \in Ids : PaymentInv(p)'
  BY DEF Inv, PaymentInv
<1>2. \A q \in Quotes : QuoteInv(q)'
  BY DEF Inv, QuoteInv
<1>3. \A s \in Staff : SessionInv(s)'
  BY DEF Inv, SessionInv
<1>4. OwnPayments'
  BY DEF Inv, OwnPayments
<1> QED
  BY <1>1, <1>2, <1>3, <1>4 DEF Inv

\* The same for a step that only sets the status.
LEMMA SetStatusKeeps ==
    ASSUME Inv, NEW q \in Quotes, NEW status \in {"PAYMENT_STARTED", "EXPIRED", "CANCELLED"},
           quote[q].status \notin Closed, SetStatus(q, status),
           UNCHANGED <<event, document, payment, constructed, session>>,
           found' \in SUBSET Quotes
    PROVE  Inv'
<1> DEFINE row == [quote[q] EXCEPT !.status = status]
<1>1. row \in Quote /\ row.status = status
  BY DEF Inv, TypeOK, Quote, QuoteStatus
<1>2. quote' = [quote EXCEPT ![q] = row]
  BY DEF SetStatus
<1> HIDE DEF row
<1> QED
  BY <1>1, <1>2, QuoteOnly

LEMMA QuoteLifeKeeps ==
    ASSUME Inv, NEW q \in Quotes,
           \/ PayAdvance(q)
           \/ CancelQuote(q)
           \/ ExpireDue(q)
    PROVE  Inv'
<1>1. CASE PayAdvance(q)
  BY <1>1, SetStatusKeeps DEF PayAdvance, Closed, Inv, TypeOK
<1>2. CASE CancelQuote(q)
  BY <1>2, SetStatusKeeps DEF CancelQuote, Open, Closed, Inv, TypeOK
<1>3. CASE ExpireDue(q)
  <2>1. found' \in SUBSET Quotes
    BY <1>3 DEF ExpireDue, Inv, TypeOK
  <2>2. CASE MayExpire(q)
    BY <1>3, <2>1, <2>2, SetStatusKeeps DEF ExpireDue, MayExpire, Open, Closed
  <2>3. CASE ~MayExpire(q)
    <3>1. quote' = quote
      BY <1>3, <2>3 DEF ExpireDue
    <3>2. TypeOK'
      BY <1>3, <2>1, <3>1 DEF ExpireDue, Inv, TypeOK
    <3> QED
      BY <1>3, <3>1, <3>2, UnmovedKeeps DEF ExpireDue
  <2> QED
    BY <2>2, <2>3
<1> QED
  BY <1>1, <1>2, <1>3

LEMMA OverrideMobilityKeeps ==
    ASSUME Inv, NEW q \in Quotes, OverrideMobility(q)
    PROVE  Inv'
<1> DEFINE row == [quote[q] EXCEPT !.version = @ + 1]
<1>1. quote[q].version + 1 \in Versions
  BY QuoteConstants DEF OverrideMobility, Inv, TypeOK, Quote, Versions
<1>2. row \in Quote /\ row.status = quote[q].status
  BY <1>1 DEF Inv, TypeOK, Quote
<1>3. quote' = [quote EXCEPT ![q] = row]
  BY DEF OverrideMobility, Inv, TypeOK, Quote
<1>4. quote[q].status \in {"SENT", "PAYMENT_STARTED"}
  BY DEF OverrideMobility, Open
<1> HIDE DEF row
<1> QED
  BY <1>2, <1>3, <1>4, QuoteOnly DEF OverrideMobility, Inv, TypeOK, Closed

LEMMA BecomeDueKeeps ==
    ASSUME Inv, NEW q \in Quotes, BecomeDue(q)
    PROVE  Inv'
<1> DEFINE row == [quote[q] EXCEPT !.due = TRUE]
<1>1. row \in Quote /\ row.status = quote[q].status /\ row.version = quote[q].version
  BY DEF Inv, TypeOK, Quote
<1>2. quote' = [quote EXCEPT ![q] = row]
  BY DEF BecomeDue
<1> HIDE DEF row
<1> QED
  BY <1>1, <1>2, QuoteOnly DEF BecomeDue, Inv, TypeOK

\* The snapshot of the cron is no part of the invariant.
LEMMA SnapshotKeeps ==
    ASSUME Inv, FindDue \/ \E q \in Quotes : SkipDue(q)
    PROVE  Inv'
<1>1. UNCHANGED <<booking, payment, constructed, session>> /\ found' \in SUBSET Quotes
  BY DEF FindDue, SkipDue, Inv, TypeOK
<1>2. UNCHANGED <<quote, event, document>>
  BY <1>1 DEF booking
<1>3. TypeOK'
  BY <1>1, <1>2 DEF Inv, TypeOK
<1> QED
  BY <1>1, <1>2, <1>3 DEF Inv, PaymentInv, QuoteInv, SessionInv, OwnPayments

-----------------------------------------------------------------------------
(* Payments.                                                               *)

LEMMA CheckAdvanceKeeps ==
    ASSUME Inv, NEW s \in Staff, NEW q \in Quotes, CheckAdvance(s, q)
    PROVE  Inv'
<1> DEFINE t == [Idle EXCEPT !.task = "registering", !.quote = q, !.id = constructed + 1]
<1>1. constructed + 1 \in Ids /\ constructed \in Nat
  BY QuoteConstants DEF CheckAdvance, Inv, TypeOK, Ids
<1>2. /\ t \in Session /\ t.task = "registering"
      /\ t.quote = q /\ t.id = constructed + 1
  BY <1>1, IdleType DEF Idle, Session
<1>3. session' = [session EXCEPT ![s] = t] /\ session[s] = Idle
  BY DEF CheckAdvance, Begin
<1>4. /\ constructed' = constructed + 1 /\ quote[q].status # "ABSENT"
      /\ UNCHANGED <<quote, event, document, payment, found>>
  BY DEF CheckAdvance, booking
<1> HIDE DEF t
<1>5. TypeOK'
  BY <1>1, <1>2, <1>3, <1>4 DEF Inv, TypeOK, Ids
<1>6. QuotesKeep /\ PaymentsKeep
  BY <1>4 DEF QuotesKeep, PaymentsKeep
<1>7. payment[constructed + 1].status = "ABSENT"
  BY <1>1 DEF Inv, PaymentInv
<1>8. SessionInv(s)'
  BY <1>1, <1>2, <1>3, <1>4, <1>7 DEF SessionInv, Inv, TypeOK
<1>9. \A r \in Staff : r # s => session'[r] = session[r]
  BY <1>3 DEF Inv, TypeOK
<1>10. \A r \in Staff : session[r].task = "registering" => session[r].id <= constructed /\ session[r].id \in Ids
  BY DEF Inv, SessionInv
<1>11. session'[s].id = constructed + 1
  BY <1>2, <1>3 DEF Inv, TypeOK
<1>12. OwnPayments'
  BY <1>1, <1>9, <1>10, <1>11 DEF Inv, OwnPayments, Ids
<1> QED
  BY <1>1, <1>4, <1>5, <1>6, <1>8, <1>9, <1>12, Combine, RegisteringAbsent

\* A step that writes one payment, without verifying it, and ends at most one
\* request.
LEMMA PaymentOnly ==
    ASSUME Inv, TypeOK', NEW p \in Ids, NEW row \in Payment,
           payment' = [payment EXCEPT ![p] = row],
           UNCHANGED <<quote, event, document, constructed>>,
           p <= constructed,
           row.status \notin {"ABSENT", "VERIFIED"}, ~row.event,
           row.quote \in Quotes, quote[row.quote].status # "ABSENT",
           row.verifier => row.status \in Back /\ quote[row.quote].status \in Closed,
           payment[p].status # "VERIFIED",
           payment[p].status \in Back => row.status \in Back /\ row.quote = payment[p].quote,
           \A s \in Staff :
              \/ session'[s] = session[s] /\ (session[s].task = "registering" => session[s].id # p)
              \/ session'[s] = Idle
    PROVE  Inv'
<1>1. payment'[p] = row
  BY DEF Inv, TypeOK
<1>2. \A o \in Ids : o # p => payment'[o] = payment[o]
  BY DEF Inv, TypeOK
<1>3. QuotesKeep
  BY DEF QuotesKeep
<1>4. PaymentsKeep
  BY <1>1, <1>2 DEF PaymentsKeep, Back
<1>5. ~(p > constructed')
  BY DEF Ids, Inv, TypeOK
<1>6. PaymentInv(p)'
  BY <1>1, <1>5 DEF PaymentInv, Back
<1>7. \A o \in Ids : payment'[o] = payment[o] \/ PaymentInv(o)'
  BY <1>2, <1>6
<1>8. Idle.task = "idle"
  BY DEF Idle
<1>9. \A s \in Staff : session'[s] = Idle => SessionInv(s)'
  BY <1>8 DEF SessionInv
<1>10. \A s \in Staff :
          session'[s] = session[s] /\ session[s].task = "registering" /\ session[s].id # p =>
             payment'[session[s].id].status = "ABSENT"
  BY <1>2 DEF Inv, SessionInv
<1>11. OwnPayments'
  BY <1>8, OwnPaymentsKept
<1>12. constructed' >= constructed
  BY DEF Inv, TypeOK
<1>13. \A s \in Staff :
          \/ SessionInv(s)'
          \/ /\ session'[s] = session[s]
             /\ session[s].task = "registering" => payment'[session[s].id].status = "ABSENT"
  BY <1>9, <1>10
<1> QED
  BY <1>3, <1>4, <1>7, <1>11, <1>12, <1>13, Combine

\* A payment of the table: it was constructed, and its quote exists.
LEMMA PresentPayment ==
    ASSUME Inv, NEW p \in Ids, payment[p].status # "ABSENT"
    PROVE  /\ p <= constructed
           /\ payment[p].quote \in Quotes
           /\ quote[payment[p].quote].status # "ABSENT"
           /\ payment[p].event => payment[p].status = "VERIFIED"
           /\ payment[p].verifier => payment[p].status \in {"VERIFIED"} \cup Back
           /\ \A s \in Staff : session[s].task = "registering" => session[s].id # p
<1>1. p <= constructed
  BY DEF Inv, PaymentInv, TypeOK, Ids
<1>2. \A s \in Staff : session[s].task = "registering" => session[s].id # p
  BY RegisteringAbsent
<1> QED
  BY <1>1, <1>2 DEF Inv, PaymentInv

LEMMA InsertAdvanceKeeps ==
    ASSUME Inv, NEW s \in Staff, InsertAdvance(s)
    PROVE  Inv'
<1> DEFINE p == session[s].id
           row == [AbsentPayment EXCEPT !.status = "PENDING_VERIFICATION", !.quote = session[s].quote]
<1>1. /\ p \in Ids /\ payment[p].status = "ABSENT"
      /\ session[s].quote \in Quotes /\ quote[session[s].quote].status # "ABSENT"
      /\ p <= constructed
  BY DEF InsertAdvance, Inv, SessionInv
<1>2. /\ row \in Payment /\ row.status = "PENDING_VERIFICATION"
      /\ row.quote = session[s].quote /\ ~row.event /\ ~row.verifier
  BY <1>1 DEF AbsentPayment, Payment, PaymentStatus, ReviewStatus
<1>3. /\ payment' = [payment EXCEPT ![p] = row]
      /\ session' = [session EXCEPT ![s] = Idle]
      /\ session[s].task = "registering"
      /\ UNCHANGED <<quote, event, document, constructed, found>>
  BY DEF InsertAdvance, booking
<1>4. \A r \in Staff : r # s /\ session[r].task = "registering" => session[r].id # p
  BY <1>3 DEF Inv, OwnPayments
<1> HIDE DEF p, row
<1>5. TypeOK'
  BY <1>1, <1>2, <1>3, IdleType DEF Inv, TypeOK
<1>6. \A r \in Staff :
         IF r = s THEN session'[r] = Idle ELSE session'[r] = session[r]
  BY <1>3 DEF Inv, TypeOK
<1>7. payment[p].status \notin Back
  BY <1>1 DEF Back
<1> QED
  BY <1>1, <1>2, <1>3, <1>4, <1>5, <1>6, <1>7, PaymentOnly

\* Somebody decides against an advance: it is rejected, or to be given back.
LEMMA DecisionKeeps ==
    ASSUME Inv, NEW p \in Ids,
           \/ RejectPayment(p)
           \/ RejectOverbooked(p)
    PROVE  Inv'
<1> DEFINE status == IF RejectPayment(p) THEN "REJECTED" ELSE "REFUND_PENDING"
           row == [payment[p] EXCEPT !.status = status]
<1>1. /\ payment[p].status \in ReviewStatus
      /\ status \in {"REJECTED", "REFUND_PENDING"}
      /\ payment' = [payment EXCEPT ![p] = row]
      /\ UNCHANGED <<quote, event, document, constructed, session, found>>
  BY DEF RejectPayment, RejectOverbooked, ReviewStatus, booking
<1> HIDE DEF status
<1>2. row \in Payment /\ row.status = status /\ row.quote = payment[p].quote
         /\ row.event = payment[p].event /\ row.verifier = payment[p].verifier
  BY <1>1 DEF Inv, TypeOK, Payment, PaymentStatus, ReviewStatus
<1> HIDE DEF row
<1>3. TypeOK'
  BY <1>1, <1>2 DEF Inv, TypeOK
<1>4. payment[p].status \notin {"ABSENT", "VERIFIED"} \cup Back
  BY <1>1 DEF ReviewStatus, Back
<1>5. /\ p <= constructed
      /\ payment[p].quote \in Quotes
      /\ quote[payment[p].quote].status # "ABSENT"
      /\ ~payment[p].event
      /\ ~payment[p].verifier
      /\ \A s \in Staff : session[s].task = "registering" => session[s].id # p
  BY <1>4, PresentPayment DEF Inv, TypeOK, Payment
<1> QED
  BY <1>1, <1>2, <1>3, <1>4, <1>5, PaymentOnly

\* A request that reads, or ends without writing.
LEMMA SessionOnly ==
    ASSUME Inv, NEW s \in Staff, NEW t \in Session, t.task # "registering",
           session' = [session EXCEPT ![s] = t], SessionInv(s)',
           UNCHANGED <<quote, event, document, payment, constructed, found>>
    PROVE  Inv'
<1>1. TypeOK'
  BY DEF Inv, TypeOK
<1>2. QuotesKeep /\ PaymentsKeep /\ constructed' >= constructed
  BY DEF QuotesKeep, PaymentsKeep, Inv, TypeOK
<1>3. \A r \in Staff : IF r = s THEN session'[r] = t ELSE session'[r] = session[r]
  BY DEF Inv, TypeOK
<1>4. OwnPayments'
  BY <1>3, OwnPaymentsKept
<1> QED
  BY <1>1, <1>2, <1>3, <1>4, Combine, RegisteringAbsent

LEMMA ReadRefundKeeps ==
    ASSUME Inv, NEW s \in Staff, NEW p \in Ids, ReadRefund(s, p)
    PROVE  Inv'
<1> DEFINE t == [Idle EXCEPT !.task = "refunding", !.id = p, !.row = payment[p]]
<1>1. t \in Session /\ t.task = "refunding" /\ t.id = p /\ t.row = payment[p]
  BY IdleType DEF Idle, Session, Inv, TypeOK
<1>2. /\ session' = [session EXCEPT ![s] = t]
      /\ payment[p].status = "REFUND_PENDING"
      /\ UNCHANGED <<quote, event, document, payment, constructed, found>>
  BY DEF ReadRefund, Begin, Refundable, booking
<1> HIDE DEF t
<1>3. session'[s] = t
  BY <1>2 DEF Inv, TypeOK
<1>4. PaymentInv(p)
  BY DEF Inv
<1>5. SessionInv(s)'
  BY <1>1, <1>2, <1>3, <1>4 DEF SessionInv, PaymentInv, Back
<1> QED
  BY <1>1, <1>2, <1>5, SessionOnly

LEMMA SaveRefundKeeps ==
    ASSUME Inv, NEW s \in Staff, SaveRefund(s)
    PROVE  Inv'
<1> DEFINE p == session[s].id
           read == session[s].row
           row == [read EXCEPT !.status = "REFUNDED"]
<1>1. /\ p \in Ids /\ ~read.event
      /\ read.quote \in Quotes /\ quote[read.quote].status # "ABSENT"
      /\ payment[p].quote = read.quote /\ payment[p].status \in Back
      /\ read.verifier => quote[read.quote].status \in Closed
  BY DEF SaveRefund, Inv, SessionInv
<1>2. read \in Payment
  BY DEF Inv, TypeOK, Session
<1>3. /\ payment' = [payment EXCEPT ![p] = row]
      /\ session' = [session EXCEPT ![s] = Idle]
      /\ UNCHANGED <<quote, event, document, constructed, found>>
  BY DEF SaveRefund, booking
<1> HIDE DEF p, read
<1>4. /\ row \in Payment /\ row.status = "REFUNDED" /\ row.quote = read.quote
      /\ row.event = read.event /\ row.verifier = read.verifier
  BY <1>2 DEF Payment, PaymentStatus
<1> HIDE DEF row
<1>5. TypeOK'
  BY <1>1, <1>3, <1>4, IdleType DEF Inv, TypeOK
<1>6. payment[p].status \notin {"ABSENT", "VERIFIED"} /\ row.status \in Back
  BY <1>1, <1>4 DEF Back
<1>7. /\ p <= constructed
      /\ \A r \in Staff : session[r].task = "registering" => session[r].id # p
  BY <1>1, <1>6, PresentPayment
<1>8. \A r \in Staff : IF r = s THEN session'[r] = Idle ELSE session'[r] = session[r]
  BY <1>3 DEF Inv, TypeOK
<1> QED
  BY <1>1, <1>3, <1>4, <1>5, <1>6, <1>7, <1>8, PaymentOnly

-----------------------------------------------------------------------------
(* The manual booking desk.                                                *)

LEMMA PreviewBookingKeeps ==
    ASSUME Inv, NEW s \in Staff, NEW q \in Quotes, NEW p \in Ids, PreviewBooking(s, q, p)
    PROVE  Inv'
<1> DEFINE t == [Idle EXCEPT !.task = "confirming", !.quote = q, !.id = p, !.view = ViewOf(q, p)]
<1>1. [quote[q] EXCEPT !.due = FALSE] \in Quote
  BY DEF Inv, TypeOK, Quote
<1>2. ViewOf(q, p) \in View
  BY <1>1 DEF ViewOf, View, Inv, TypeOK, Payment
<1>3. t \in Session /\ t.task = "confirming" /\ t.id = p /\ t.quote = q
  BY <1>2, IdleType DEF Idle, Session
<1>4. /\ session' = [session EXCEPT ![s] = t]
      /\ UNCHANGED <<quote, event, document, payment, constructed, found>>
  BY DEF PreviewBooking, Begin, booking
<1> HIDE DEF t
<1>5. session'[s] = t
  BY <1>4 DEF Inv, TypeOK
<1>6. SessionInv(s)'
  BY <1>3, <1>5 DEF SessionInv
<1> QED
  BY <1>3, <1>4, <1>6, SessionOnly

LEMMA RefuseConfirmationKeeps ==
    ASSUME Inv, NEW s \in Staff, RefuseConfirmation(s)
    PROVE  Inv'
<1>1. /\ session' = [session EXCEPT ![s] = Idle]
      /\ UNCHANGED <<quote, event, document, payment, constructed, found>>
  BY DEF RefuseConfirmation, EndConfirmation, booking
<1>2. session'[s] = Idle /\ Idle.task = "idle"
  BY <1>1 DEF Inv, TypeOK, Idle
<1>3. SessionInv(s)'
  BY <1>2 DEF SessionInv
<1> QED
  BY <1>1, <1>2, <1>3, IdleType, SessionOnly

LEMMA RequireApprovalKeeps ==
    ASSUME Inv, NEW s \in Staff, RequireApproval(s)
    PROVE  Inv'
<1> DEFINE p == session[s].id
           row == [payment[p] EXCEPT !.status = "REQUIRES_MANUAL_APPROVAL"]
<1>1. /\ session[s].task = "confirming"
      /\ payment[p].status \in ReviewStatus
      /\ payment' = [payment EXCEPT ![p] = row]
      /\ session' = [session EXCEPT ![s] = Idle]
      /\ UNCHANGED <<quote, event, document, constructed, found>>
  BY DEF RequireApproval, EndConfirmation, MayConfirm, booking
<1>2. p \in Ids
  BY <1>1 DEF Inv, SessionInv
<1> HIDE DEF p
<1>3. row \in Payment /\ row.status = "REQUIRES_MANUAL_APPROVAL" /\ row.quote = payment[p].quote
         /\ row.event = payment[p].event /\ row.verifier = payment[p].verifier
  BY <1>2 DEF Inv, TypeOK, Payment, PaymentStatus, ReviewStatus
<1> HIDE DEF row
<1>4. TypeOK'
  BY <1>1, <1>2, <1>3, IdleType DEF Inv, TypeOK
<1>5. payment[p].status \notin {"ABSENT", "VERIFIED"} \cup Back
  BY <1>1 DEF ReviewStatus, Back
<1>6. /\ p <= constructed
      /\ payment[p].quote \in Quotes
      /\ quote[payment[p].quote].status # "ABSENT"
      /\ ~payment[p].event
      /\ ~payment[p].verifier
      /\ \A r \in Staff : session[r].task = "registering" => session[r].id # p
  BY <1>2, <1>5, PresentPayment DEF Inv, TypeOK, Payment
<1>7. \A r \in Staff : IF r = s THEN session'[r] = Idle ELSE session'[r] = session[r]
  BY <1>1 DEF Inv, TypeOK
<1> QED
  BY <1>1, <1>2, <1>3, <1>4, <1>5, <1>6, <1>7, PaymentOnly

\* The quotes that Released gives.
LEMMA ReleasedCloses ==
    ASSUME NEW status
    PROVE  /\ Released(status) \in {"CANCELLED", "EXPIRED"}
           /\ status \in {"CANCELLED", "EXPIRED"} => Released(status) = status
BY DEF Released

LEMMA RefundBookingKeeps ==
    ASSUME Inv, NEW q \in Quotes, NEW p \in Ids,
           RequestRefund(q, p) \/ ConfirmRefund(q, p)
    PROVE  Inv'
<1> DEFINE status == IF RequestRefund(q, p) THEN "REFUND_PENDING" ELSE "REFUNDED"
           row == [payment[p] EXCEPT !.status = status, !.verifier = TRUE]
           closed == Released(quote[q].status)
<1>1. /\ payment[p].status \in {"REQUIRES_MANUAL_APPROVAL", "REFUND_PENDING"}
      /\ status \in Back
      /\ payment[p].quote = q /\ event[q] = "NONE"
      /\ payment' = [payment EXCEPT ![p] = row]
      /\ quote' = [quote EXCEPT ![q].status = closed]
      /\ UNCHANGED <<event, document, constructed, session, found>>
  BY DEF RequestRefund, ConfirmRefund, RefundBooking, IsLatest, AdvancesOf, SetStatus, Back
<1> HIDE DEF status
<1>2. row \in Payment /\ row.status = status /\ row.quote = q
         /\ row.event = payment[p].event /\ row.verifier
  BY <1>1 DEF Inv, TypeOK, Payment, PaymentStatus, ReviewStatus, Back
<1>3. /\ closed \in {"CANCELLED", "EXPIRED"}
      /\ quote[q].status \in {"CANCELLED", "EXPIRED"} => closed = quote[q].status
  BY ReleasedCloses
<1> HIDE DEF row, closed
<1>4. quote[q].status # "CONVERTED"
  BY <1>1 DEF Inv, QuoteInv
<1>5. \A o \in Quotes : o # q => quote'[o] = quote[o]
  BY <1>1 DEF Inv, TypeOK
<1>6. quote'[q].status = closed /\ quote'[q].version = quote[q].version /\ quote'[q] \in Quote
  BY <1>1, <1>3 DEF Inv, TypeOK, Quote, QuoteStatus
<1>7. TypeOK'
  BY <1>1, <1>2, <1>6 DEF Inv, TypeOK
<1>8. payment'[p] = row /\ \A o \in Ids : o # p => payment'[o] = payment[o]
  BY <1>1 DEF Inv, TypeOK
<1>9. QuotesKeep
  BY <1>3, <1>4, <1>5, <1>6 DEF QuotesKeep, Closed
<1>10. PaymentsKeep
  BY <1>1, <1>2, <1>8 DEF PaymentsKeep, Back
<1>11. /\ p <= constructed
       /\ ~payment[p].event
       /\ \A s \in Staff : session[s].task = "registering" => session[s].id # p
  BY <1>1, PresentPayment DEF Inv, TypeOK, Payment
<1>12. PaymentInv(p)'
  <2>1. ~(p > constructed')
    BY <1>1, <1>11 DEF Ids, Inv, TypeOK
  <2> QED
    BY <1>1, <1>2, <1>3, <1>6, <1>8, <1>11, <2>1 DEF PaymentInv, Back, Closed
<1>13. \A o \in Quotes :
          /\ quote[o].status = "CONVERTED" <=> quote'[o].status = "CONVERTED"
          /\ quote[o].status = "CONVERTED" => quote'[o].version = quote[o].version
          /\ event'[o] = event[o]
          /\ document'[o] = document[o]
  BY <1>1, <1>3, <1>4, <1>5, <1>6
<1>14. \A s \in Staff :
          /\ session'[s] = session[s]
          /\ session[s].task = "registering" => payment'[session[s].id].status = "ABSENT"
  BY <1>1, <1>8, <1>11 DEF Inv, SessionInv
<1>15. OwnPayments' /\ constructed' >= constructed
  BY <1>1, OwnPaymentsKept DEF Inv, TypeOK
<1>16. \A o \in Ids : payment'[o] = payment[o] \/ PaymentInv(o)'
  BY <1>8, <1>12
<1> QED
  BY <1>7, <1>9, <1>10, <1>13, <1>14, <1>15, <1>16, Combine

LEMMA VerifiedRow ==
    ASSUME NEW read \in Payment
    PROVE  /\ Verified(read) \in Payment
           /\ Verified(read).status = "VERIFIED" /\ Verified(read).quote = read.quote
           /\ Verified(read).event /\ Verified(read).verifier
BY DEF Verified, Payment, PaymentStatus

\* A payment is verified for a quote that has, or gets with it, its event and
\* a contract made from its amounts.
LEMMA VerifiedKeeps ==
    ASSUME Inv, NEW p \in Ids, NEW q \in Quotes, payment[p].quote = q,
           payment[p].status \in ReviewStatus,
           payment' = [payment EXCEPT ![p] = Verified(payment[p])],
           \/ quote' = quote /\ quote[q].status = "CONVERTED"
           \/ quote' = [quote EXCEPT ![q].status = "CONVERTED"] /\ quote[q].status \notin Closed,
           event' = [event EXCEPT ![q] = "AWAITING_SIGNATURE"],
           NEW made \in {quote[q].version, NoDocument},
           document' = [document EXCEPT ![q] = made],
           \A s \in Staff : session'[s] = session[s] \/ session'[s] = Idle,
           session' \in [Staff -> Session],
           UNCHANGED <<constructed, found>>
    PROVE  Inv'
<1> DEFINE row == Verified(payment[p])
<1>1. /\ row \in Payment /\ row.status = "VERIFIED" /\ row.quote = q
      /\ row.event /\ row.verifier
  <2>1. payment[p] \in Payment
    BY DEF Inv, TypeOK
  <2> QED
    BY <2>1, VerifiedRow
<1>2. payment' = [payment EXCEPT ![p] = row]
  OBVIOUS
<1> HIDE DEF row
<1>3. \A o \in Quotes : o # q =>
         quote'[o] = quote[o] /\ event'[o] = event[o] /\ document'[o] = document[o]
  BY DEF Inv, TypeOK
<1>4. /\ quote'[q].status = "CONVERTED" /\ quote'[q].version = quote[q].version
      /\ quote' \in [Quotes -> Quote]
  <2> DEFINE kept == [quote[q] EXCEPT !.status = "CONVERTED"]
  <2>1. quote \in [Quotes -> Quote] /\ quote[q] \in Quote
    BY DEF Inv, TypeOK
  <2>2. kept \in Quote /\ kept.status = "CONVERTED" /\ kept.version = quote[q].version
    BY <2>1 DEF Quote, QuoteStatus
  <2>3. \/ quote' = quote /\ quote[q].status = "CONVERTED"
        \/ quote' = [quote EXCEPT ![q] = kept]
    BY <2>1
  <2> HIDE DEF kept
  <2>4. CASE quote' = [quote EXCEPT ![q] = kept]
    BY <2>1, <2>2, <2>4
  <2> QED
    BY <2>1, <2>3, <2>4
<1>5. event'[q] = "AWAITING_SIGNATURE" /\ document'[q] = made
  BY DEF Inv, TypeOK
<1>6. quote[q].version \in Versions
  BY DEF Inv, TypeOK, Quote
<1>7. document' \in [Quotes -> Versions \cup {NoDocument}]
  BY <1>6 DEF Inv, TypeOK
<1>8. event' \in [Quotes -> EventStatus]
  BY DEF Inv, TypeOK, EventStatus
<1>9. TypeOK'
  BY <1>1, <1>2, <1>4, <1>7, <1>8 DEF Inv, TypeOK
<1>10. payment'[p] = row /\ \A o \in Ids : o # p => payment'[o] = payment[o]
  BY <1>2 DEF Inv, TypeOK
<1>11. payment[p].status \notin {"ABSENT", "VERIFIED"} \cup Back
  BY DEF ReviewStatus, Back
<1>12. PaymentsKeep
  BY <1>10, <1>11 DEF PaymentsKeep
<1>13. QuotesKeep
  BY <1>3, <1>4 DEF QuotesKeep, Closed
<1>14. /\ p <= constructed
       /\ \A s \in Staff : session[s].task = "registering" => session[s].id # p
  BY <1>11, PresentPayment
<1>15. PaymentInv(p)'
  <2>1. ~(p > constructed')
    BY <1>14 DEF Ids, Inv, TypeOK
  <2> QED
    BY <1>1, <1>4, <1>10, <2>1 DEF PaymentInv, Back
<1>16. QuoteInv(q)'
  <2>1. p \in Ids /\ payment'[p].quote = q /\ payment'[p].status = "VERIFIED"
    BY <1>1, <1>10
  <2> QED
    BY <1>4, <1>5, <2>1 DEF QuoteInv, NoDocument
<1>17. Idle.task = "idle"
  BY DEF Idle
<1>18. \A s \in Staff :
          \/ SessionInv(s)'
          \/ /\ session'[s] = session[s]
             /\ session[s].task = "registering" => payment'[session[s].id].status = "ABSENT"
  <2> SUFFICES ASSUME NEW s \in Staff
               PROVE  \/ SessionInv(s)'
                      \/ /\ session'[s] = session[s]
                         /\ session[s].task = "registering" =>
                               payment'[session[s].id].status = "ABSENT"
    OBVIOUS
  <2>1. CASE session'[s] = Idle
    BY <1>17, <2>1 DEF SessionInv
  <2>2. CASE session'[s] = session[s]
    BY <1>10, <1>14, <2>2 DEF Inv, SessionInv
  <2> QED
    BY <2>1, <2>2
<1>19. OwnPayments'
  BY <1>17, OwnPaymentsKept
<1>20. constructed' >= constructed
  BY DEF Inv, TypeOK
<1>21. \A o \in Ids : payment'[o] = payment[o] \/ PaymentInv(o)'
  BY <1>10, <1>15
<1>22. \A o \in Quotes :
          \/ QuoteInv(o)'
          \/ /\ quote[o].status = "CONVERTED" <=> quote'[o].status = "CONVERTED"
             /\ quote[o].status = "CONVERTED" => quote'[o].version = quote[o].version
             /\ event'[o] = event[o]
             /\ document'[o] = document[o]
  BY <1>3, <1>16
<1> QED
  BY <1>9, <1>12, <1>13, <1>18, <1>19, <1>20, <1>21, <1>22, Combine

LEMMA ApproveKeeps ==
    ASSUME Inv, NEW p \in Ids, VerifyPayment(p) \/ ApproveOverbooked(p)
    PROVE  Inv'
<1> DEFINE q == payment[p].quote
           made == IF document[q] = NoDocument THEN quote[q].version ELSE document[q]
<1>1. /\ payment[p].status \in ReviewStatus
      /\ event[q] = "AWAITING_SIGNATURE"
      /\ payment' = [payment EXCEPT ![p] = Verified(payment[p])]
      /\ document' = [document EXCEPT ![q] = made]
      /\ UNCHANGED <<quote, event, constructed, session, found>>
  BY DEF VerifyPayment, ApproveOverbooked, Approve, AdmitsPayment, Issued, ReviewStatus
<1>2. q \in Quotes
  BY <1>1, PresentPayment DEF ReviewStatus
<1>3. quote[q].status = "CONVERTED" /\ made \in {quote[q].version, NoDocument}
  BY <1>1, <1>2 DEF Inv, QuoteInv
<1>4. event' = [event EXCEPT ![q] = "AWAITING_SIGNATURE"]
  BY <1>1, <1>2 DEF Inv, TypeOK
<1>5. session' \in [Staff -> Session]
  BY <1>1 DEF Inv, TypeOK
<1> HIDE DEF made
<1> QED
  BY <1>1, <1>2, <1>3, <1>4, <1>5, VerifiedKeeps

LEMMA ConfirmBookingKeeps ==
    ASSUME Inv, NEW s \in Staff, NEW capacity \in Capacity, NEW approved \in BOOLEAN,
           ConfirmBooking(s, capacity, approved)
    PROVE  Inv'
<1> DEFINE q == session[s].quote
           p == session[s].id
           made == session[s].view.quote.version
<1>1. /\ session[s].task = "confirming"
      /\ payment[p].quote = q
      /\ payment[p].status \in ReviewStatus
      /\ quote[q].status = "PAYMENT_STARTED"
      /\ ViewOf(q, p) = session[s].view
      /\ quote' = [quote EXCEPT ![q].status = "CONVERTED"]
      /\ event' = [event EXCEPT ![q] = "AWAITING_SIGNATURE"]
      /\ payment' = [payment EXCEPT ![p] = Verified(payment[p])]
      /\ document' = [document EXCEPT ![q] = made]
      /\ session' = [session EXCEPT ![s] = Idle]
      /\ UNCHANGED <<constructed, found>>
  BY DEF ConfirmBooking, EndConfirmation, MayConfirm, IsLatest, AdvancesOf, SetStatus
<1>2. p \in Ids /\ q \in Quotes
  BY <1>1 DEF Inv, SessionInv
<1>3. ViewOf(q, p).quote.version = quote[q].version
  BY <1>2 DEF ViewOf, Inv, TypeOK, Quote
<1>4. made = quote[q].version
  BY <1>1, <1>3
<1>5. quote[q].status \notin Closed
  BY <1>1 DEF Closed
<1>6. session' \in [Staff -> Session] /\ \A r \in Staff : session'[r] = session[r] \/ session'[r] = Idle
  BY <1>1, IdleType DEF Inv, TypeOK
<1> HIDE DEF p, q, made
<1> QED
  BY <1>1, <1>2, <1>4, <1>5, <1>6, VerifiedKeeps

\* A quote is made together with its advance, booked or not.
LEMMA InsertedKeeps ==
    ASSUME Inv, NEW q \in Quotes, quote[q].status = "ABSENT", constructed < MaxPayments,
           NEW status \in {"PAYMENT_STARTED", "CONVERTED"},
           NEW made \in Quote, made.status = status, made.version = quote[q].version,
           quote' = [quote EXCEPT ![q] = made],
           NEW row \in Payment, row.quote = q,
           NEW p \in Ids, p = constructed + 1, constructed' = p,
           payment' = [payment EXCEPT ![p] = row],
           \/ /\ status = "PAYMENT_STARTED" /\ row.status \in ReviewStatus
              /\ ~row.event /\ ~row.verifier
              /\ UNCHANGED <<event, document>>
           \/ /\ status = "CONVERTED" /\ row.status = "VERIFIED"
              /\ row.event /\ row.verifier
              /\ event' = [event EXCEPT ![q] = "AWAITING_SIGNATURE"]
              /\ \E version \in {quote[q].version, NoDocument} :
                    document' = [document EXCEPT ![q] = version],
           UNCHANGED <<session, found>>
    PROVE  Inv'
<1>1. constructed \in Nat /\ constructed' \in 0 .. MaxPayments
  BY QuoteConstants DEF Inv, TypeOK, Ids
<1>2. payment[p].status = "ABSENT"
  BY <1>1 DEF Inv, PaymentInv
<1>3. /\ payment'[p] = row /\ payment' \in [Ids -> Payment]
      /\ \A o \in Ids : o # p => payment'[o] = payment[o]
  BY <1>1 DEF Inv, TypeOK
<1>4. \A s \in Staff : session[s].task = "registering" =>
         session[s].id \in Ids /\ session[s].id # p /\ payment[session[s].id].status = "ABSENT"
  BY <1>1 DEF Inv, SessionInv
<1>5. /\ quote'[q].status = status /\ quote'[q].version = quote[q].version
      /\ quote' \in [Quotes -> Quote]
  BY DEF Inv, TypeOK, Quote, QuoteStatus
<1>6. \A o \in Quotes : o # q =>
         quote'[o] = quote[o] /\ event'[o] = event[o] /\ document'[o] = document[o]
  BY DEF Inv, TypeOK
<1>7. event' \in [Quotes -> EventStatus]
  BY DEF Inv, TypeOK, EventStatus
<1>8. document' \in [Quotes -> Versions \cup {NoDocument}]
  <2>1. quote[q].version \in Versions
    BY DEF Inv, TypeOK, Quote
  <2> QED
    BY <2>1 DEF Inv, TypeOK
<1>9. event[q] = "NONE" /\ document[q] = NoDocument
  BY DEF Inv, QuoteInv
<1>10. TypeOK'
  BY <1>1, <1>3, <1>5, <1>7, <1>8 DEF Inv, TypeOK
<1>11. PaymentsKeep
  BY <1>2, <1>3 DEF PaymentsKeep, Back
<1>12. QuotesKeep
  BY <1>5, <1>6 DEF QuotesKeep, Closed
<1>13. PaymentInv(p)'
  <2>1. ~(p > constructed')
    BY <1>1
  <2>2. CASE status = "PAYMENT_STARTED"
    BY <1>3, <1>5, <2>1, <2>2 DEF PaymentInv, Back, ReviewStatus
  <2>3. CASE status = "CONVERTED"
    BY <1>3, <1>5, <2>1, <2>3 DEF PaymentInv, Back
  <2> QED
    BY <2>2, <2>3
<1>14. QuoteInv(q)'
  <2>1. CASE status = "PAYMENT_STARTED"
    BY <1>5, <1>9, <2>1 DEF QuoteInv, NoDocument
  <2>2. CASE status = "CONVERTED"
    <3>1. event'[q] = "AWAITING_SIGNATURE" /\ document'[q] \in {quote[q].version, NoDocument}
      BY <2>2 DEF Inv, TypeOK
    <3>2. p \in Ids /\ payment'[p].quote = q /\ payment'[p].status = "VERIFIED"
      BY <1>1, <1>3, <2>2
    <3> QED
      BY <1>5, <2>2, <3>1, <3>2 DEF QuoteInv, NoDocument
  <2> QED
    BY <2>1, <2>2
<1>15. \A o \in Ids : payment'[o] = payment[o] \/ PaymentInv(o)'
  BY <1>3, <1>13
<1>16. \A o \in Quotes :
          \/ QuoteInv(o)'
          \/ /\ quote[o].status = "CONVERTED" <=> quote'[o].status = "CONVERTED"
             /\ quote[o].status = "CONVERTED" => quote'[o].version = quote[o].version
             /\ event'[o] = event[o]
             /\ document'[o] = document[o]
  BY <1>6, <1>14
<1>17. \A s \in Staff :
          /\ session'[s] = session[s]
          /\ session[s].task = "registering" => payment'[session[s].id].status = "ABSENT"
  BY <1>3, <1>4
<1>18. OwnPayments' /\ constructed' >= constructed
  BY <1>1, OwnPaymentsKept
<1> QED
  BY <1>10, <1>11, <1>12, <1>15, <1>16, <1>17, <1>18, Combine

LEMMA MadeQuote ==
    ASSUME Inv, NEW q \in Quotes, NEW status \in QuoteStatus,
           quote' = [quote EXCEPT ![q].status = status, ![q].manual = TRUE]
    PROVE  \E made \in Quote :
              /\ made.status = status /\ made.version = quote[q].version
              /\ quote' = [quote EXCEPT ![q] = made]
<1> DEFINE made == [quote[q] EXCEPT !.status = status, !.manual = TRUE]
<1>1. quote[q] \in Quote /\ quote \in [Quotes -> Quote]
  BY DEF Inv, TypeOK
<1>2. made \in Quote /\ made.status = status /\ made.version = quote[q].version
  BY <1>1 DEF Quote
<1>3. quote' = [quote EXCEPT ![q] = made]
  BY <1>1
<1> HIDE DEF made
<1> QED
  BY <1>2, <1>3

LEMMA NextPayment ==
    ASSUME Inv, constructed < MaxPayments
    PROVE  \E p \in Ids : p = constructed + 1
<1>1. constructed + 1 \in Ids
  BY QuoteConstants DEF Inv, TypeOK, Ids
<1> QED
  BY <1>1

LEMMA StageBookingKeeps ==
    ASSUME Inv, NEW q \in Quotes, NEW capacity \in Capacity, StageBooking(q, capacity)
    PROVE  Inv'
<1> DEFINE status == IF capacity = "available"
                     THEN "PENDING_VERIFICATION" ELSE "REQUIRES_MANUAL_APPROVAL"
           row == [[AbsentPayment EXCEPT !.status = status] EXCEPT !.quote = q]
<1>1. /\ quote[q].status = "ABSENT" /\ constructed < MaxPayments
      /\ quote' = [quote EXCEPT ![q].status = "PAYMENT_STARTED", ![q].manual = TRUE]
      /\ constructed' = constructed + 1
      /\ payment' = [payment EXCEPT ![constructed + 1] = row]
      /\ UNCHANGED <<event, document, session, found>>
  BY DEF StageBooking, Insert
<1>2. status \in ReviewStatus
  BY DEF ReviewStatus
<1> HIDE DEF status
<1>3. /\ row \in Payment /\ row.status = status /\ row.quote = q
      /\ ~row.event /\ ~row.verifier
  BY <1>2 DEF AbsentPayment, Payment, PaymentStatus
<1> HIDE DEF row
<1>4. "PAYMENT_STARTED" \in QuoteStatus
  BY DEF QuoteStatus
<1>5. PICK made \in Quote :
         /\ made.status = "PAYMENT_STARTED" /\ made.version = quote[q].version
         /\ quote' = [quote EXCEPT ![q] = made]
  BY <1>1, <1>4, MadeQuote, Zenon
<1>6. PICK p \in Ids : p = constructed + 1
  BY <1>1, NextPayment
<1> QED
  BY <1>1, <1>2, <1>3, <1>5, <1>6, InsertedKeeps

LEMMA CreateManualContractKeeps ==
    ASSUME Inv, NEW q \in Quotes, NEW issue \in BOOLEAN, CreateManualContract(q, issue)
    PROVE  Inv'
<1> DEFINE row == [Verified(AbsentPayment) EXCEPT !.quote = q]
           made == IF issue THEN quote[q].version ELSE NoDocument
<1>1. /\ quote[q].status = "ABSENT" /\ constructed < MaxPayments
      /\ quote' = [quote EXCEPT ![q].status = "CONVERTED", ![q].manual = TRUE]
      /\ constructed' = constructed + 1
      /\ payment' = [payment EXCEPT ![constructed + 1] = row]
      /\ event' = [event EXCEPT ![q] = "AWAITING_SIGNATURE"]
      /\ document' = [document EXCEPT ![q] = made]
      /\ UNCHANGED <<session, found>>
  BY DEF CreateManualContract, Insert
<1>2. /\ row \in Payment /\ row.status = "VERIFIED" /\ row.quote = q
      /\ row.event /\ row.verifier
  BY DEF Verified, AbsentPayment, Payment, PaymentStatus
<1>3. made \in {quote[q].version, NoDocument}
  OBVIOUS
<1> HIDE DEF row, made
<1>4. \E m \in {quote[q].version, NoDocument} : document' = [document EXCEPT ![q] = m]
  BY <1>1, <1>3
<1>5. "CONVERTED" \in QuoteStatus
  BY DEF QuoteStatus
<1>6. PICK whole \in Quote :
         /\ whole.status = "CONVERTED" /\ whole.version = quote[q].version
         /\ quote' = [quote EXCEPT ![q] = whole]
  BY <1>1, <1>5, MadeQuote, Zenon
<1>7. PICK p \in Ids : p = constructed + 1
  BY <1>1, NextPayment
<1>8. constructed' = p /\ payment' = [payment EXCEPT ![p] = row] /\ UNCHANGED <<session, found>>
  BY <1>1, <1>7
<1>9. event' = [event EXCEPT ![q] = "AWAITING_SIGNATURE"]
  BY <1>1
<1>10. quote[q].status = "ABSENT" /\ constructed < MaxPayments
  BY <1>1
<1> QED
  BY <1>2, <1>4, <1>6, <1>7, <1>8, <1>9, <1>10, InsertedKeeps

\* The contract of a booked quote is issued, or its event scheduled.
LEMMA BookedKeeps ==
    ASSUME Inv, NEW q \in Quotes, IssueContract(q) \/ ScheduleEvent(q)
    PROVE  Inv'
<1>1. /\ event[q] = "AWAITING_SIGNATURE"
      /\ UNCHANGED <<quote, payment, constructed, session, found>>
  BY DEF IssueContract, ScheduleEvent
<1>2. quote[q].status = "CONVERTED"
  BY <1>1 DEF Inv, QuoteInv
<1>3. quote[q].version \in Versions
  BY DEF Inv, TypeOK, Quote
<1>4. \/ /\ event' = event /\ document[q] = NoDocument
         /\ document' = [document EXCEPT ![q] = quote[q].version]
      \/ event' = [event EXCEPT ![q] = "SCHEDULED"] /\ document' = document
  BY DEF IssueContract, ScheduleEvent, Issued
<1>5. /\ event' \in [Quotes -> EventStatus]
      /\ event'[q] # "NONE"
      /\ \A o \in Quotes : o # q => event'[o] = event[o] /\ document'[o] = document[o]
  BY <1>1, <1>4 DEF Inv, TypeOK, EventStatus
<1>6. /\ document' \in [Quotes -> Versions \cup {NoDocument}]
      /\ document'[q] \in {document[q], quote[q].version}
  BY <1>3, <1>4 DEF Inv, TypeOK
<1>7. TypeOK'
  BY <1>1, <1>5, <1>6 DEF Inv, TypeOK
<1>8. QuotesKeep /\ PaymentsKeep
  BY <1>1 DEF QuotesKeep, PaymentsKeep
<1>9. QuoteInv(q)'
  BY <1>1, <1>2, <1>5, <1>6 DEF Inv, QuoteInv, NoDocument
<1>10. OwnPayments' /\ constructed' >= constructed
  BY <1>1, OwnPaymentsKept DEF Inv, TypeOK
<1> QED
  BY <1>1, <1>5, <1>7, <1>8, <1>9, <1>10, Combine, RegisteringAbsent

-----------------------------------------------------------------------------
(* The theorems.                                                           *)

LEMMA InitInv == Init => Inv
<1> SUFFICES ASSUME Init PROVE Inv
  OBVIOUS
<1>1. AbsentQuote \in Quote /\ AbsentQuote.status = "ABSENT"
  BY QuoteConstants DEF AbsentQuote, Quote, Versions
<1>2. /\ AbsentPayment \in Payment /\ AbsentPayment.status = "ABSENT"
      /\ ~AbsentPayment.event /\ ~AbsentPayment.verifier
  BY DEF AbsentPayment, Payment
<1>3. constructed \in 0 .. MaxPayments
  BY QuoteConstants DEF Init
<1>4. TypeOK
  BY <1>1, <1>2, <1>3, IdleType DEF Init, TypeOK, EventStatus
<1>5. \A p \in Ids : PaymentInv(p)
  BY <1>2 DEF Init, PaymentInv, Back
<1>6. \A q \in Quotes : QuoteInv(q)
  BY <1>1 DEF Init, QuoteInv
<1>7. \A s \in Staff : session[s].task = "idle"
  BY DEF Init, Idle
<1>8. (\A s \in Staff : SessionInv(s)) /\ OwnPayments
  BY <1>7 DEF SessionInv, OwnPayments
<1> QED
  BY <1>4, <1>5, <1>6, <1>8 DEF Inv

LEMMA QuoteStepKeeps ==
    ASSUME Inv, NEW q \in Quotes, QuoteStep(q)
    PROVE  Inv'
<1>1. CASE \E manual \in BOOLEAN : CreateQuote(q, manual)
  BY <1>1, CreateQuoteKeeps
<1>2. CASE PayAdvance(q) \/ CancelQuote(q) \/ ExpireDue(q)
  BY <1>2, QuoteLifeKeeps
<1>3. CASE OverrideMobility(q)
  BY <1>3, OverrideMobilityKeeps
<1>4. CASE BecomeDue(q)
  BY <1>4, BecomeDueKeeps
<1>5. CASE SkipDue(q)
  BY <1>5, SnapshotKeeps
<1>6. CASE \E capacity \in Capacity : StageBooking(q, capacity)
  BY <1>6, StageBookingKeeps
<1>7. CASE \E issue \in BOOLEAN : CreateManualContract(q, issue)
  BY <1>7, CreateManualContractKeeps
<1>8. CASE IssueContract(q) \/ ScheduleEvent(q)
  BY <1>8, BookedKeeps
<1>9. CASE \E p \in Ids : RequestRefund(q, p) \/ ConfirmRefund(q, p)
  BY <1>9, RefundBookingKeeps
<1> QED
  BY <1>1, <1>2, <1>3, <1>4, <1>5, <1>6, <1>7, <1>8, <1>9 DEF QuoteStep

LEMMA SessionStepKeeps ==
    ASSUME Inv, NEW s \in Staff, SessionStep(s)
    PROVE  Inv'
<1>1. CASE \E q \in Quotes : CheckAdvance(s, q)
  BY <1>1, CheckAdvanceKeeps
<1>2. CASE InsertAdvance(s)
  BY <1>2, InsertAdvanceKeeps
<1>3. CASE \E p \in Ids : ReadRefund(s, p)
  BY <1>3, ReadRefundKeeps
<1>4. CASE SaveRefund(s)
  BY <1>4, SaveRefundKeeps
<1>5. CASE \E q \in Quotes, p \in Ids : PreviewBooking(s, q, p)
  BY <1>5, PreviewBookingKeeps
<1>6. CASE RequireApproval(s)
  BY <1>6, RequireApprovalKeeps
<1>7. CASE \E capacity \in Capacity, approved \in BOOLEAN : ConfirmBooking(s, capacity, approved)
  BY <1>7, ConfirmBookingKeeps
<1>8. CASE RefuseConfirmation(s)
  BY <1>8, RefuseConfirmationKeeps
<1> QED
  BY <1>1, <1>2, <1>3, <1>4, <1>5, <1>6, <1>7, <1>8 DEF SessionStep

\* Every step of the endpoints and of the cron keeps the invariant.
LEMMA StepKeeps == Inv /\ [Next]_vars => Inv'
<1> SUFFICES ASSUME Inv, [Next]_vars PROVE Inv'
  OBVIOUS
<1>1. CASE \E q \in Quotes : QuoteStep(q)
  BY <1>1, QuoteStepKeeps
<1>2. CASE \E p \in Ids : PaymentStep(p)
  BY <1>2, ApproveKeeps, DecisionKeeps DEF PaymentStep
<1>3. CASE \E s \in Staff : SessionStep(s)
  BY <1>3, SessionStepKeeps
<1>4. CASE FindDue
  BY <1>4, SnapshotKeeps
<1>5. CASE UNCHANGED vars
  BY <1>5, UnmovedKeeps DEF vars, Inv, TypeOK
<1> QED
  BY <1>1, <1>2, <1>3, <1>4, <1>5 DEF Next

\* Whatever the endpoints, the desk and the cron do, in any order, the rows of
\* a payment, of its quote and of a half-done request agree (Inv).
THEOREM RowsAgree == Spec => []Inv
BY InitInv, StepKeeps, PTL DEF Spec

\* Every table keeps rows of its type, the numbers of payments and corrections
\* within their bounds.
THEOREM TypeCorrect == Spec => []TypeOK
<1>1. Inv => TypeOK
  BY DEF Inv
<1> QED
  BY RowsAgree, <1>1, PTL

\* A quote is converted exactly when it has its event, and exactly when one of
\* its advances was verified: by VerifyPayment, ApproveOverbooked, the desk or
\* the manual contract.
THEOREM QuotesAreBookedIffPaid == Spec => []BookedIffPaid
<1>1. Inv => BookedIffPaid
  <2> SUFFICES ASSUME Inv, NEW q \in Quotes
               PROVE  /\ quote[q].status = "CONVERTED" <=> event[q] # "NONE"
                      /\ quote[q].status = "CONVERTED" <=> Advances(q, {"VERIFIED"}) # {}
                      /\ \A p \in AdvancesOf(q) :
                            IF payment[p].status = "VERIFIED"
                            THEN payment[p].event /\ payment[p].verifier
                            ELSE ~payment[p].event
    BY DEF BookedIffPaid
  <2>1. quote[q].status = "CONVERTED" <=> event[q] # "NONE"
    BY DEF Inv, QuoteInv
  <2>2. quote[q].status = "CONVERTED" => Advances(q, {"VERIFIED"}) # {}
    BY DEF Inv, QuoteInv, Advances, AdvancesOf
  <2>3. Advances(q, {"VERIFIED"}) # {} => quote[q].status = "CONVERTED"
    BY DEF Inv, PaymentInv, Advances, AdvancesOf
  <2>4. \A p \in Ids : /\ payment[p].status = "VERIFIED" => payment[p].event /\ payment[p].verifier
                       /\ payment[p].event => payment[p].status = "VERIFIED"
    BY DEF Inv, PaymentInv
  <2>5. \A p \in AdvancesOf(q) : p \in Ids
    BY DEF AdvancesOf
  <2> QED
    BY <2>1, <2>2, <2>3, <2>4, <2>5
<1> QED
  BY RowsAgree, <1>1, PTL

\* The contract of a booking has the amounts of its quote, although the desk
\* renders it before it holds the locks.
THEOREM ContractsMatchTheirBooking == Spec => []ContractMatchesBooking
<1>1. Inv => ContractMatchesBooking
  BY DEF Inv, QuoteInv, ContractMatchesBooking
<1> QED
  BY RowsAgree, <1>1, PTL

\* Money that the desk gives back leaves no open quote behind.
THEOREM RefundsCloseTheirQuotes == Spec => []RefundsCloseQuotes
<1>1. Inv => RefundsCloseQuotes
  <2> SUFFICES ASSUME Inv, NEW q \in Quotes, NEW p \in Advances(q, {"REFUND_PENDING", "REFUNDED"}),
                      payment[p].verifier
               PROVE  ~Open(q)
    BY DEF RefundsCloseQuotes
  <2>1. p \in Ids /\ payment[p].quote = q /\ payment[p].status \in Back
    BY DEF Advances, AdvancesOf, Back
  <2>2. quote[q].status \in Closed
    BY <2>1 DEF Inv, PaymentInv
  <2> QED
    BY <2>2 DEF Open, Closed
<1> QED
  BY RowsAgree, <1>1, PTL

-----------------------------------------------------------------------------
(* What a step may never do.                                               *)

DecisionsStand ==
    \A p \in Ids :
        /\ payment[p].status \in {"VERIFIED", "REJECTED", "REFUNDED"} =>
              /\ payment'[p].status = payment[p].status
              /\ payment'[p].event = payment[p].event
        /\ payment[p].status = "REFUND_PENDING" =>
              payment'[p].status \in {"REFUND_PENDING", "REFUNDED"}

\* A step that writes an undecided payment, or completes a refund.
LEMMA WriteStands ==
    ASSUME TypeOK, NEW p \in Ids, NEW row, payment' = [payment EXCEPT ![p] = row],
           \/ payment[p].status \in ReviewStatus \cup {"ABSENT"}
           \/ payment[p].status = "REFUND_PENDING" /\ row.status = "REFUNDED"
           \/ payment[p].status = "REFUNDED" /\ row.status = "REFUNDED"
              /\ row.event = payment[p].event
    PROVE  DecisionsStand
<1>1. payment'[p] = row /\ \A o \in Ids : o # p => payment'[o] = payment[o]
  BY DEF TypeOK
<1>2. \A o \in Ids : o # p =>
         payment'[o].status = payment[o].status /\ payment'[o].event = payment[o].event
  BY <1>1
<1> QED
  BY <1>1, <1>2 DEF DecisionsStand, ReviewStatus

LEMMA RefundsStand ==
    ASSUME Inv, NEW s \in Staff, SaveRefund(s)
    PROVE  DecisionsStand
<1> DEFINE p == session[s].id
           row == [session[s].row EXCEPT !.status = "REFUNDED"]
<1>1. payment' = [payment EXCEPT ![p] = row]
  BY DEF SaveRefund
<1>2. p \in Ids /\ payment[p].status \in Back /\ ~session[s].row.event
  BY DEF SaveRefund, Inv, SessionInv
<1>3. session[s].row \in Payment
  BY DEF Inv, TypeOK, Session
<1>4. row.status = "REFUNDED" /\ row.event = FALSE
  BY <1>2, <1>3 DEF Payment
<1>5. payment[p].event = FALSE
  BY <1>2 DEF Inv, PaymentInv, TypeOK, Payment, Back
<1> HIDE DEF p, row
<1>6. TypeOK
  BY DEF Inv
<1> QED
  BY <1>1, <1>2, <1>4, <1>5, <1>6, WriteStands DEF Back

LEMMA DeskStands ==
    ASSUME Inv, NEW q \in Quotes, NEW p \in Ids, RequestRefund(q, p) \/ ConfirmRefund(q, p)
    PROVE  DecisionsStand
<1> DEFINE status == IF RequestRefund(q, p) THEN "REFUND_PENDING" ELSE "REFUNDED"
           row == [payment[p] EXCEPT !.status = status, !.verifier = TRUE]
<1>1. /\ payment' = [payment EXCEPT ![p] = row]
      /\ \/ payment[p].status \in ReviewStatus
         \/ payment[p].status = "REFUND_PENDING" /\ status = "REFUNDED"
  BY DEF RequestRefund, ConfirmRefund, RefundBooking, ReviewStatus
<1> HIDE DEF status
<1>2. row.status = status
  BY DEF Inv, TypeOK, Payment
<1> HIDE DEF row
<1>3. TypeOK
  BY DEF Inv
<1> QED
  BY <1>1, <1>2, <1>3, WriteStands

LEMMA InsertStands ==
    ASSUME Inv, NEW q \in Quotes, NEW row, Insert(q, row)
    PROVE  DecisionsStand
<1>1. PICK p \in Ids : p = constructed + 1
  BY NextPayment DEF Insert
<1>2. payment[p].status = "ABSENT"
  BY <1>1 DEF Inv, PaymentInv, TypeOK, Ids
<1>3. TypeOK
  BY DEF Inv
<1> QED
  BY <1>1, <1>2, <1>3, WriteStands DEF Insert

LEMMA StepStands ==
    ASSUME Inv, [Next]_vars
    PROVE  DecisionsStand
<1>1. TypeOK
  BY DEF Inv
<1>2. CASE UNCHANGED payment
  BY <1>2 DEF DecisionsStand
<1>3. CASE \E p \in Ids : PaymentStep(p)
  BY <1>1, <1>3, WriteStands
  DEF PaymentStep, VerifyPayment, ApproveOverbooked, Approve, RejectPayment, RejectOverbooked,
      ReviewStatus
<1>4. CASE \E q \in Quotes, p \in Ids : RequestRefund(q, p) \/ ConfirmRefund(q, p)
  BY <1>4, DeskStands
<1>5. CASE \E q \in Quotes, capacity \in Capacity : StageBooking(q, capacity)
  BY <1>5, InsertStands DEF StageBooking
<1>6. CASE \E q \in Quotes, issue \in BOOLEAN : CreateManualContract(q, issue)
  BY <1>6, InsertStands DEF CreateManualContract
<1>7. CASE \E s \in Staff : InsertAdvance(s)
  <2>1. PICK s \in Staff : InsertAdvance(s)
    BY <1>7
  <2>2. /\ session[s].id \in Ids
        /\ payment[session[s].id].status = "ABSENT"
        /\ \E row : payment' = [payment EXCEPT ![session[s].id] = row]
    BY <2>1 DEF InsertAdvance, Inv, SessionInv
  <2> QED
    BY <1>1, <2>2, WriteStands
<1>8. CASE \E s \in Staff : SaveRefund(s)
  BY <1>8, RefundsStand
<1>9. CASE \E s \in Staff :
             \/ RequireApproval(s)
             \/ \E capacity \in Capacity, approved \in BOOLEAN :
                   ConfirmBooking(s, capacity, approved)
  <2>1. PICK s \in Staff :
           \/ RequireApproval(s)
           \/ \E capacity \in Capacity, approved \in BOOLEAN :
                 ConfirmBooking(s, capacity, approved)
    BY <1>9
  <2>2. /\ session[s].id \in Ids
        /\ payment[session[s].id].status \in ReviewStatus
        /\ \E row : payment' = [payment EXCEPT ![session[s].id] = row]
    BY <2>1 DEF RequireApproval, ConfirmBooking, EndConfirmation, MayConfirm, Inv, SessionInv
  <2> QED
    BY <1>1, <2>2, WriteStands
<1> QED
  BY <1>2, <1>3, <1>4, <1>5, <1>6, <1>7, <1>8, <1>9
  DEF Next, QuoteStep, SessionStep, vars, CreateQuote, PayAdvance, OverrideMobility, CancelQuote,
      BecomeDue, ExpireDue, SkipDue, IssueContract, ScheduleEvent, CheckAdvance, ReadRefund,
      PreviewBooking, RefuseConfirmation, FindDue

\* A verified, rejected or refunded payment stays so and a refund is only
\* completed, although RefundPayment saves a row that it read without a lock.
THEOREM MoneyStaysDecided == Spec => MoneyDecisionsAreFinal
<1>1. Inv /\ [Next]_vars => [DecisionsStand]_vars
  BY StepStands
<1> QED
  BY RowsAgree, <1>1, PTL DEF Spec, MoneyDecisionsAreFinal, DecisionsStand

ReviewsSpared ==
    \A q \in Quotes :
        Open(q) /\ quote'[q].status \in {"EXPIRED", "CANCELLED"} =>
            \/ ~InReview(q)
            \/ \E p \in Ids :
                  /\ IsLatest(p, q)
                  /\ payment'[p].status \in {"REFUND_PENDING", "REFUNDED"}

\* A step that writes one quote: it leaves it open or converts it, or nothing
\* is under review, or the desk gives its last advance back.
LEMMA WriteSpares ==
    ASSUME Inv, NEW q \in Quotes, NEW row, quote' = [quote EXCEPT ![q] = row],
           \/ row.status \notin {"EXPIRED", "CANCELLED"}
           \/ row.status = quote[q].status
           \/ ~InReview(q)
           \/ \E p \in Ids : IsLatest(p, q) /\ payment'[p].status \in Back
    PROVE  ReviewsSpared
<1>1. quote'[q] = row /\ \A o \in Quotes : o # q => quote'[o] = quote[o]
  BY DEF Inv, TypeOK
<1>2. \A o \in Quotes : quote'[o].status = quote[o].status =>
         ~(Open(o) /\ quote'[o].status \in {"EXPIRED", "CANCELLED"})
  BY DEF Open
<1> QED
  BY <1>1, <1>2 DEF ReviewsSpared, Back

LEMMA SetStatusSpares ==
    ASSUME Inv, NEW q \in Quotes, NEW status, SetStatus(q, status),
           \/ status \notin {"EXPIRED", "CANCELLED"}
           \/ ~InReview(q)
           \/ \E p \in Ids : IsLatest(p, q) /\ payment'[p].status \in Back
    PROVE  ReviewsSpared
<1> DEFINE row == [quote[q] EXCEPT !.status = status]
<1>1. row.status = status
  BY DEF Inv, TypeOK, Quote
<1>2. quote' = [quote EXCEPT ![q] = row]
  BY DEF SetStatus
<1> HIDE DEF row
<1> QED
  BY <1>1, <1>2, WriteSpares

LEMMA DeskSpares ==
    ASSUME Inv, NEW q \in Quotes, NEW p \in Ids, RequestRefund(q, p) \/ ConfirmRefund(q, p)
    PROVE  ReviewsSpared
<1> DEFINE status == IF RequestRefund(q, p) THEN "REFUND_PENDING" ELSE "REFUNDED"
           row == [payment[p] EXCEPT !.status = status, !.verifier = TRUE]
<1>1. /\ payment' = [payment EXCEPT ![p] = row]
      /\ IsLatest(p, q)
      /\ SetStatus(q, Released(quote[q].status))
      /\ status \in Back
  BY DEF RequestRefund, ConfirmRefund, RefundBooking, Back
<1> HIDE DEF status
<1>2. row.status = status
  BY DEF Inv, TypeOK, Payment
<1> HIDE DEF row
<1>3. payment'[p].status \in Back
  BY <1>1, <1>2 DEF Inv, TypeOK
<1> QED
  BY <1>1, <1>3, SetStatusSpares

LEMMA StepSpares ==
    ASSUME Inv, [Next]_vars
    PROVE  ReviewsSpared
<1>1. CASE UNCHANGED quote
  BY <1>1 DEF ReviewsSpared, Open
<1>2. CASE \E q \in Quotes : \E status : SetStatus(q, status) /\
             (status \notin {"EXPIRED", "CANCELLED"} \/ ~InReview(q))
  BY <1>2, SetStatusSpares
<1>3. CASE \E q \in Quotes, p \in Ids : RequestRefund(q, p) \/ ConfirmRefund(q, p)
  BY <1>3, DeskSpares
<1>4. CASE \E q \in Quotes, status \in {"SENT", "PAYMENT_STARTED", "CONVERTED"}, manual \in BOOLEAN :
             quote' = [quote EXCEPT ![q].status = status, ![q].manual = manual]
  <2>1. PICK q \in Quotes, status \in {"SENT", "PAYMENT_STARTED", "CONVERTED"}, manual \in BOOLEAN :
           quote' = [quote EXCEPT ![q].status = status, ![q].manual = manual]
    BY <1>4
  <2> DEFINE row == [quote[q] EXCEPT !.status = status, !.manual = manual]
  <2>2. quote' = [quote EXCEPT ![q] = row] /\ row.status = status
    BY <2>1 DEF Inv, TypeOK, Quote
  <2> HIDE DEF row
  <2> QED
    BY <2>2, WriteSpares
<1>5. CASE \E q \in Quotes : OverrideMobility(q) \/ BecomeDue(q)
  <2>1. PICK q \in Quotes : OverrideMobility(q) \/ BecomeDue(q)
    BY <1>5
  <2>2. \E row : quote' = [quote EXCEPT ![q] = row] /\ row.status = quote[q].status
    <3> DEFINE row == IF BecomeDue(q) THEN [quote[q] EXCEPT !.due = TRUE]
                                      ELSE [quote[q] EXCEPT !.version = @ + 1]
    <3>1. quote' = [quote EXCEPT ![q] = row]
      BY <2>1 DEF OverrideMobility, BecomeDue, Inv, TypeOK
    <3>2. row.status = quote[q].status
      BY DEF Inv, TypeOK, Quote
    <3> HIDE DEF row
    <3> QED
      BY <3>1, <3>2
  <2> QED
    BY <2>2, WriteSpares
<1>6. ASSUME NEW q \in Quotes, QuoteStep(q)
      PROVE  ReviewsSpared
  <2>1. CASE \E manual \in BOOLEAN : CreateQuote(q, manual)
    BY <1>4, <2>1 DEF CreateQuote
  <2>2. CASE PayAdvance(q) \/ CancelQuote(q) \/ ExpireDue(q)
    BY <1>1, <1>2, <2>2 DEF PayAdvance, CancelQuote, ExpireDue, MayExpire
  <2>3. CASE OverrideMobility(q) \/ BecomeDue(q)
    BY <1>5, <2>3
  <2>4. CASE SkipDue(q) \/ IssueContract(q) \/ ScheduleEvent(q)
    BY <1>1, <2>4 DEF SkipDue, IssueContract, ScheduleEvent, booking
  <2>5. CASE \E capacity \in Capacity : StageBooking(q, capacity)
    BY <1>4, <2>5 DEF StageBooking
  <2>6. CASE \E issue \in BOOLEAN : CreateManualContract(q, issue)
    BY <1>4, <2>6 DEF CreateManualContract
  <2>7. CASE \E p \in Ids : RequestRefund(q, p) \/ ConfirmRefund(q, p)
    BY <1>3, <2>7
  <2> QED
    BY <1>6, <2>1, <2>2, <2>3, <2>4, <2>5, <2>6, <2>7 DEF QuoteStep
<1>7. ASSUME NEW s \in Staff, SessionStep(s)
      PROVE  ReviewsSpared
  <2>1. \/ UNCHANGED quote
        \/ SetStatus(session[s].quote, "CONVERTED") /\ session[s].quote \in Quotes
    BY <1>7 DEF SessionStep, CheckAdvance, InsertAdvance, ReadRefund, SaveRefund, PreviewBooking,
                RequireApproval, ConfirmBooking, RefuseConfirmation, EndConfirmation, booking,
                Inv, SessionInv
  <2> QED
    BY <1>1, <1>2, <2>1
<1>8. ASSUME NEW p \in Ids, PaymentStep(p)
      PROVE  ReviewsSpared
  BY <1>1, <1>8
  DEF PaymentStep, VerifyPayment, ApproveOverbooked, Approve, RejectPayment, RejectOverbooked, booking
<1> QED
  BY <1>1, <1>6, <1>7, <1>8 DEF Next, vars, FindDue, booking

\* RN-09: no advance is under review when a quote is expired or cancelled,
\* unless the desk gives the last one back.
THEOREM ReviewsAreSpared == Spec => ClosingSparesReviews
<1>1. Inv /\ [Next]_vars => [ReviewsSpared]_vars
  BY StepSpares
<1> QED
  BY RowsAgree, <1>1, PTL DEF Spec, ClosingSparesReviews, ReviewsSpared
=============================================================================
