--------------------------- MODULE QuotePayments ---------------------------
(***************************************************************************)
(* Quotes, the advances paid for them and the manual booking that turns a  *)
(* paid quote into an event with its contract: tables quotes, payments,    *)
(* events and contracts, the endpoints /quotes, /payments, /overrides and  *)
(* /manual-bookings, and the cron that expires quotes.                     *)
(*                                                                         *)
(* One action is one transaction that decides on rows it holds locked.  A  *)
(* handler that reads without a lock, or in an earlier transaction, takes  *)
(* two: what it read is kept in session[s] (or in found, for the snapshot  *)
(* of the cron) until the transaction that uses it.  Inserting a payment   *)
(* takes the key-share lock of its quote (foreign key), so it cannot come  *)
(* between the lock of a quote and the end of that transaction.            *)
(*                                                                         *)
(* An aggregate without a row has status ABSENT.  A payment is numbered    *)
(* when the program constructs it, which is when created_at is set.        *)
(***************************************************************************)
EXTENDS Integers, FiniteSets

CONSTANTS
    Quotes,        \* the quotes that may ever be made
    Staff,         \* requests of the staff that may run at the same time
    NoQuote,       \* not a quote
    MaxPayments,   \* bound: payments ever constructed
    MaxVersions    \* bound: corrections of the mobility of one quote

ASSUME QuoteConstants ==
    /\ NoQuote \notin Quotes
    /\ MaxPayments \in Nat
    /\ MaxVersions \in Nat

VARIABLES
    quote,        \* quote[q]: the row of q
    event,        \* event[q]: the status of the event of q
    document,     \* document[q]: the version of the quote its contract was made from
    payment,      \* payment[p]: the row of p, an advance
    constructed,  \* payments constructed so far
    session,      \* session[s]: what request s has read and not used yet
    found         \* the quotes the running cron read as due

booking == <<quote, event, document>>
vars == <<quote, event, document, payment, constructed, session, found>>

-----------------------------------------------------------------------------
Ids == 1 .. MaxPayments
NoId == 0
Versions == 0 .. MaxVersions
NoDocument == MaxVersions + 1

QuoteStatus == {"SENT", "PAYMENT_STARTED", "CONVERTED", "EXPIRED", "CANCELLED"}
ReviewStatus == {"PENDING_VERIFICATION", "REQUIRES_MANUAL_APPROVAL"}
PaymentStatus == ReviewStatus \cup {"VERIFIED", "REJECTED", "REFUND_PENDING", "REFUNDED"}
EventStatus == {"NONE", "AWAITING_SIGNATURE", "SCHEDULED"}

Quote ==
    [status : QuoteStatus \cup {"ABSENT"},
     manual : BOOLEAN,      \* source = 'MANUAL'
     due : BOOLEAN,         \* expires_at <= now
     version : Versions]    \* the liquidation, by number of corrections

Payment ==
    [status : PaymentStatus \cup {"ABSENT"},
     quote : Quotes \cup {NoQuote},
     event : BOOLEAN,       \* event_id IS NOT NULL
     verifier : BOOLEAN]    \* verified_by_user_id IS NOT NULL

\* What the manual booking desk sees of a quote.
View == [quote : Quote, id : Ids \cup {NoId}, paid : PaymentStatus \cup {"ABSENT"}]

AbsentQuote == [status |-> "ABSENT", manual |-> FALSE, due |-> FALSE, version |-> 0]
AbsentPayment == 
    [status |-> "ABSENT", quote |-> NoQuote, event |-> FALSE, verifier |-> FALSE]
NoView == [quote |-> AbsentQuote, id |-> NoId, paid |-> "ABSENT"]

Session ==
    [task : {"idle", "registering", "confirming", "refunding"},
     quote : Quotes \cup {NoQuote},
     id : Ids \cup {NoId},
     row : Payment,          \* the payment read by a refund
     view : View]            \* the preview of a confirmation

Idle ==
    [task |-> "idle", quote |-> NoQuote, id |-> NoId, row |-> AbsentPayment,
     view |-> NoView]

TypeOK ==
    /\ quote \in [Quotes -> Quote]
    /\ event \in [Quotes -> EventStatus]
    /\ document \in [Quotes -> Versions \cup {NoDocument}]
    /\ payment \in [Ids -> Payment]
    /\ constructed \in 0 .. MaxPayments
    /\ session \in [Staff -> Session]
    /\ found \in SUBSET Quotes

-----------------------------------------------------------------------------
(* Queries.                                                                *)

AdvancesOf(q) == {p \in Ids : payment[p].quote = q}

\* Quote._OPEN_STATUSES
Open(q) == quote[q].status \in {"SENT", "PAYMENT_STARTED"}

\* has_payment_in_review
InReview(q) == \E p \in AdvancesOf(q) : payment[p].status \in ReviewStatus

\* find_active_advance finds one.
HasActiveAdvance(q) ==
    \E p \in AdvancesOf(q) : payment[p].status \in ReviewStatus \cup {"REFUND_PENDING"}

\* The advance the desk works with: ORDER BY created_at DESC LIMIT 1.
IsLatest(p, q) ==
    /\ p \in AdvancesOf(q)
    /\ \A o \in AdvancesOf(q) : o <= p

\* What the preview shows of quote q, whose last advance is p.  The deadline is
\* a date there: whether it has passed is no part of it.
ViewOf(q, p) ==
    [quote |-> [quote[q] EXCEPT !.due = FALSE], id |-> p, paid |-> payment[p].status]

-----------------------------------------------------------------------------
Init ==
    /\ quote = [q \in Quotes |-> AbsentQuote]
    /\ event = [q \in Quotes |-> "NONE"]
    /\ document = [q \in Quotes |-> NoDocument]
    /\ payment = [p \in Ids |-> AbsentPayment]
    /\ constructed = 0
    /\ session = [s \in Staff |-> Idle]
    /\ found = {}

SetStatus(q, status) == quote' = [quote EXCEPT ![q].status = status]

\* The next payment, constructed and inserted in the same transaction.
Insert(q, row) ==
    /\ constructed < MaxPayments
    /\ constructed' = constructed + 1
    /\ payment' = [payment EXCEPT ![constructed + 1] = [row EXCEPT !.quote = q]]

(* The life of a quote, each operation under the lock of its row.          *)

\* POST /quotes, or the bot.
CreateQuote(q, manual) ==
    /\ quote[q].status = "ABSENT"
    /\ quote' = [quote EXCEPT ![q].status = "SENT", ![q].manual = manual]
    /\ UNCHANGED <<event, document, payment, constructed, session, found>>

\* PayAdvance: the client asks for the payment instructions in time, and there
\* is still room when it has to be checked again.
PayAdvance(q) ==
    /\ quote[q].status = "SENT"
    /\ ~quote[q].due
    /\ SetStatus(q, "PAYMENT_STARTED")
    /\ UNCHANGED <<event, document, payment, constructed, session, found>>

OverrideMobility(q) ==
    /\ Open(q)
    /\ quote[q].version < MaxVersions
    /\ quote' = [quote EXCEPT ![q].version = @ + 1]
    /\ UNCHANGED <<event, document, payment, constructed, session, found>>

CancelQuote(q) ==
    /\ Open(q)
    /\ ~InReview(q)
    /\ SetStatus(q, "CANCELLED")
    /\ UNCHANGED <<event, document, payment, constructed, session, found>>

\* expires_at comes.
BecomeDue(q) ==
    /\ quote[q].status # "ABSENT"
    /\ ~quote[q].due
    /\ quote' = [quote EXCEPT ![q].due = TRUE]
    /\ UNCHANGED <<event, document, payment, constructed, session, found>>

\* find_due: the snapshot of the cron, from before it holds the locks.
FindDue ==
    /\ found = {}
    /\ found' = {q \in Quotes : Open(q) /\ quote[q].due /\ ~InReview(q)}
    /\ UNCHANGED <<booking, payment, constructed, session>>

\* Mutants: the cron trusts its snapshot; the cron sees paid quotes only.
MayExpire_BySnapshot(q) == Open(q)
MayExpire_Started(q) == quote[q].status = "PAYMENT_STARTED" /\ ~InReview(q)

\* The lock gives the last version of the quote, and the payments are read
\* again under it.
MayExpire(q) == Open(q) /\ ~InReview(q)

\* One quote of the cron; one locked by somebody else is skipped.
ExpireDue(q) ==
    /\ q \in found
    /\ found' = found \ {q}
    /\ IF MayExpire(q) THEN SetStatus(q, "EXPIRED") ELSE UNCHANGED quote
    /\ UNCHANGED <<event, document, payment, constructed, session>>

SkipDue(q) ==
    /\ q \in found
    /\ found' = found \ {q}
    /\ UNCHANGED <<booking, payment, constructed, session>>

-----------------------------------------------------------------------------
(* Payments.                                                               *)

Begin(s, task) ==
    /\ session[s] = Idle
    /\ session' = [session EXCEPT ![s] = task]

\* RegisterAdvancePayment looks for an active advance without a lock ...
CheckAdvance(s, q) ==
    /\ quote[q].status # "ABSENT"
    /\ ~HasActiveAdvance(q)
    /\ constructed < MaxPayments
    /\ constructed' = constructed + 1
    /\ Begin(s, [Idle EXCEPT !.task = "registering", !.quote = q, !.id = constructed + 1])
    /\ UNCHANGED <<booking, payment, found>>

\* ... and inserts what it constructed, whatever happened since.
InsertAdvance(s) ==
    /\ session[s].task = "registering"
    /\ payment' = [payment EXCEPT ![session[s].id] =
                      [AbsentPayment EXCEPT !.status = "PENDING_VERIFICATION",
                                            !.quote = session[s].quote]]
    /\ session' = [session EXCEPT ![s] = Idle]
    /\ UNCHANGED <<booking, constructed, found>>

Verified(row) == [row EXCEPT !.status = "VERIFIED", !.event = TRUE, !.verifier = TRUE]

\* issue_for_event makes the document of a contract that has none from the
\* amounts of the event, and keeps the one there is.
Issued(q) ==
    document' = [document EXCEPT ![q] =
                    IF document[q] = NoDocument THEN quote[q].version ELSE document[q]]

\* Mutant: prepare_payment_event does not ask for the event.
AdmitsPayment_Always(q) == TRUE

\* prepare_payment_event
AdmitsPayment(q) == event[q] = "AWAITING_SIGNATURE"

\* The locks of the payment and of the event are held from here to the end.
Approve(p, status) ==
    /\ payment[p].status = status
    /\ AdmitsPayment(payment[p].quote)
    /\ payment' = [payment EXCEPT ![p] = Verified(payment[p])]
    /\ Issued(payment[p].quote)
    /\ UNCHANGED <<quote, event, constructed, session, found>>

\* VerifyPayment, of either outcome.
VerifyPayment(p) == Approve(p, "PENDING_VERIFICATION")

RejectPayment(p) ==
    /\ payment[p].status \in ReviewStatus
    /\ payment' = [payment EXCEPT ![p].status = "REJECTED"]
    /\ UNCHANGED <<booking, constructed, session, found>>

\* ApproveOverbookedPayment, of either decision.
ApproveOverbooked(p) == Approve(p, "REQUIRES_MANUAL_APPROVAL")

RejectOverbooked(p) ==
    /\ payment[p].status = "REQUIRES_MANUAL_APPROVAL"
    /\ payment' = [payment EXCEPT ![p].status = "REFUND_PENDING"]
    /\ UNCHANGED <<booking, constructed, session, found>>

\* Mutant: confirm_refund does not look at the status.
Refundable_Any(row) == row.status # "ABSENT"

Refundable(row) == row.status = "REFUND_PENDING"

\* RefundPayment reads the payment without a lock ...
ReadRefund(s, p) ==
    /\ Refundable(payment[p])
    /\ Begin(s, [Idle EXCEPT !.task = "refunding", !.id = p, !.row = payment[p]])
    /\ UNCHANGED <<booking, payment, constructed, found>>

\* ... and saves every column of the row that it read.
SaveRefund(s) ==
    /\ session[s].task = "refunding"
    /\ payment' = [payment EXCEPT ![session[s].id] =
                      [session[s].row EXCEPT !.status = "REFUNDED"]]
    /\ session' = [session EXCEPT ![s] = Idle]
    /\ UNCHANGED <<booking, constructed, found>>

-----------------------------------------------------------------------------
(* The manual booking desk.                                                *)

\* What the availability check answers: room, too many simultaneous shows, or
\* stock that does not suffice.
Capacity == {"available", "overbooked", "short"}

\* RegisterManualBooking: quote and advance in one transaction.
StageBooking(q, capacity) ==
    /\ quote[q].status = "ABSENT"
    /\ quote' = [quote EXCEPT ![q].status = "PAYMENT_STARTED", ![q].manual = TRUE]
    /\ Insert(q, [AbsentPayment EXCEPT
                     !.status = IF capacity = "available"
                                THEN "PENDING_VERIFICATION" ELSE "REQUIRES_MANUAL_APPROVAL"])
    /\ UNCHANGED <<event, document, session, found>>

\* CreateManualContract: everything at once, for a receipt already checked;
\* the contract is issued or left as a draft.
CreateManualContract(q, issue) ==
    /\ quote[q].status = "ABSENT"
    /\ quote' = [quote EXCEPT ![q].status = "CONVERTED", ![q].manual = TRUE]
    /\ Insert(q, Verified(AbsentPayment))
    /\ event' = [event EXCEPT ![q] = "AWAITING_SIGNATURE"]
    /\ document' = [document EXCEPT ![q] = IF issue THEN quote[q].version ELSE NoDocument]
    /\ UNCHANGED <<session, found>>

\* POST /contracts for an event whose contract is a draft.
IssueContract(q) ==
    /\ event[q] = "AWAITING_SIGNATURE"
    /\ document[q] = NoDocument
    /\ Issued(q)
    /\ UNCHANGED <<quote, event, payment, constructed, session, found>>

\* ConfirmManualBooking reads the request and renders the contract from it,
\* holding no lock.
PreviewBooking(s, q, p) ==
    /\ quote[q].manual
    /\ IsLatest(p, q)
    /\ event[q] = "NONE"
    /\ Begin(s, [Idle EXCEPT !.task = "confirming", !.quote = q, !.id = p,
                             !.view = ViewOf(q, p)])
    /\ UNCHANGED <<booking, payment, constructed, found>>

\* Mutant: the request is not compared with its preview.
MayConfirm_Changed(q, p, view) ==
    /\ event[q] = "NONE"
    /\ IsLatest(p, q)
    /\ quote[q].status = "PAYMENT_STARTED"
    /\ ~quote[q].due
    /\ payment[p].status \in ReviewStatus

\* What execute demands of the request that it reads again under the locks.
MayConfirm(q, p, view) ==
    /\ event[q] = "NONE"
    /\ IsLatest(p, q)
    /\ ViewOf(q, p) = view
    /\ quote[q].status = "PAYMENT_STARTED"
    /\ ~quote[q].due
    /\ payment[p].status \in ReviewStatus

EndConfirmation(s) ==
    /\ session[s].task = "confirming"
    /\ session' = [session EXCEPT ![s] = Idle]

\* require_approval: the confirmation finds no room.
RequireApproval(s) ==
    LET p == session[s].id
    IN  /\ EndConfirmation(s)
        /\ MayConfirm(session[s].quote, p, session[s].view)
        /\ payment' = [payment EXCEPT ![p].status = "REQUIRES_MANUAL_APPROVAL"]
        /\ UNCHANGED <<booking, constructed, found>>

\* finalize: event, payment, quote and contract in one transaction.  Too many
\* shows, or a payment sent for approval, need an explicit approval.
ConfirmBooking(s, capacity, approved) ==
    LET q == session[s].quote
        p == session[s].id
    IN  /\ EndConfirmation(s)
        /\ MayConfirm(q, p, session[s].view)
        /\ capacity = "available" \/ (capacity = "overbooked" /\ approved)
        /\ payment[p].status = "REQUIRES_MANUAL_APPROVAL" => approved
        /\ SetStatus(q, "CONVERTED")
        /\ event' = [event EXCEPT ![q] = "AWAITING_SIGNATURE"]
        /\ payment' = [payment EXCEPT ![p] = Verified(payment[p])]
        /\ document' = [document EXCEPT ![q] = session[s].view.quote.version]
        /\ UNCHANGED <<constructed, found>>

\* Any refusal: a request that changed, expired or was resolved, a receipt of
\* one's own, an amount that differs, a missing approval, an error.
RefuseConfirmation(s) ==
    /\ EndConfirmation(s)
    /\ UNCHANGED <<booking, payment, constructed, found>>

\* Mutant: the refund leaves the quote open.
Released_Open(status) == status

\* refund resolves the quote with the payment, unless it was closed before.
Released(status) == IF status \in {"CANCELLED", "EXPIRED"} THEN status ELSE "CANCELLED"

\* ManualBookingRepository.refund, which repeated changes nothing.
RefundBooking(q, p, from, to) ==
    /\ quote[q].manual
    /\ IsLatest(p, q)
    /\ event[q] = "NONE"
    /\ payment[p].status = from
    /\ payment' = [payment EXCEPT ![p].status = to, ![p].verifier = TRUE]
    /\ SetStatus(q, Released(quote[q].status))
    /\ UNCHANGED <<event, document, constructed, session, found>>

RequestRefund(q, p) == RefundBooking(q, p, "REQUIRES_MANUAL_APPROVAL", "REFUND_PENDING")
ConfirmRefund(q, p) == RefundBooking(q, p, "REFUND_PENDING", "REFUNDED")

\* The contract is signed: schedule_event.
ScheduleEvent(q) ==
    /\ event[q] = "AWAITING_SIGNATURE"
    /\ document[q] # NoDocument
    /\ event' = [event EXCEPT ![q] = "SCHEDULED"]
    /\ UNCHANGED <<quote, document, payment, constructed, session, found>>

-----------------------------------------------------------------------------
QuoteStep(q) ==
    \/ \E manual \in BOOLEAN : CreateQuote(q, manual)
    \/ PayAdvance(q)
    \/ OverrideMobility(q)
    \/ CancelQuote(q)
    \/ BecomeDue(q)
    \/ ExpireDue(q)
    \/ SkipDue(q)
    \/ \E capacity \in Capacity : StageBooking(q, capacity)
    \/ \E issue \in BOOLEAN : CreateManualContract(q, issue)
    \/ IssueContract(q)
    \/ \E p \in Ids : RequestRefund(q, p)
    \/ \E p \in Ids : ConfirmRefund(q, p)
    \/ ScheduleEvent(q)

PaymentStep(p) ==
    \/ VerifyPayment(p)
    \/ RejectPayment(p)
    \/ ApproveOverbooked(p)
    \/ RejectOverbooked(p)

SessionStep(s) ==
    \/ \E q \in Quotes : CheckAdvance(s, q)
    \/ InsertAdvance(s)
    \/ \E p \in Ids : ReadRefund(s, p)
    \/ SaveRefund(s)
    \/ \E q \in Quotes, p \in Ids : PreviewBooking(s, q, p)
    \/ RequireApproval(s)
    \/ \E capacity \in Capacity, approved \in BOOLEAN : ConfirmBooking(s, capacity, approved)
    \/ RefuseConfirmation(s)

Next ==
    \/ \E q \in Quotes : QuoteStep(q)
    \/ \E p \in Ids : PaymentStep(p)
    \/ \E s \in Staff : SessionStep(s)
    \/ FindDue

Spec == Init /\ [][Next]_vars

\* The cron runs every minute.  A quote is skipped only while a transaction
\* holds its lock, so not at every run.
Fairness ==
    /\ WF_vars(FindDue)
    /\ \A q \in Quotes : SF_vars(ExpireDue(q))

FairSpec == Spec /\ Fairness

-----------------------------------------------------------------------------
(* Safety.                                                                 *)

Advances(q, statuses) == {p \in AdvancesOf(q) : payment[p].status \in statuses}

\* A quote is converted exactly when it has its event, and exactly when an
\* advance of it was verified; every verified advance belongs to the event and
\* names who verified it.  No endpoint, in any order, takes the money of a
\* quote that is not booked, nor books a quote that nobody paid.
BookedIffPaid ==
    \A q \in Quotes :
        /\ quote[q].status = "CONVERTED" <=> event[q] # "NONE"
        /\ quote[q].status = "CONVERTED" <=> Advances(q, {"VERIFIED"}) # {}
        /\ \A p \in AdvancesOf(q) :
              IF payment[p].status = "VERIFIED"
              THEN payment[p].event /\ payment[p].verifier
              ELSE ~payment[p].event

\* The contract of a booked quote was made from the very amounts that the
\* quote, and so the event, has: a correction of the mobility that comes
\* between the preview and the confirmation is never lost.
ContractMatchesBooking ==
    \A q \in Quotes : document[q] \in {quote[q].version, NoDocument}

\* Decisions about money are final: a verified, rejected or refunded payment
\* stays so, and a refund under way can only be completed, although a refund is
\* saved from a row read without a lock.
MoneyDecisionsAreFinal ==
    [][\A p \in Ids :
          /\ payment[p].status \in {"VERIFIED", "REJECTED", "REFUNDED"} =>
                /\ payment'[p].status = payment[p].status
                /\ payment'[p].event = payment[p].event
          /\ payment[p].status = "REFUND_PENDING" =>
                payment'[p].status \in {"REFUND_PENDING", "REFUNDED"}]_vars

\* The cron and the staff close a quote only when no advance of it is under
\* review (RN-09), although both read the payments apart from the quote.  Only
\* the desk closes it otherwise, with the refund of its last advance.
ClosingSparesReviews ==
    [][\A q \in Quotes :
          Open(q) /\ quote'[q].status \in {"EXPIRED", "CANCELLED"} =>
              \/ ~InReview(q)
              \/ \E p \in Ids :
                    /\ IsLatest(p, q)
                    /\ payment'[p].status \in {"REFUND_PENDING", "REFUNDED"}]_vars

\* An advance that is given back at the desk takes its quote with it: no later
\* step confirms a booking for money that was returned.
RefundsCloseQuotes ==
    \A q \in Quotes :
        \A p \in Advances(q, {"REFUND_PENDING", "REFUNDED"}) :
            payment[p].verifier => ~Open(q)

(* Liveness.                                                               *)

\* A quote whose deadline passes is closed, unless a receipt of it is under
\* review.
DueQuotesClose ==
    \A q \in Quotes : Open(q) /\ quote[q].due ~> ~Open(q) \/ InReview(q)

-----------------------------------------------------------------------------
(* What the repository says and the code does not keep.                    *)

\* Payment.__post_init__: "El estado VERIFIED/REFUNDED exige
\* verified_by_user_id".  A row that breaks it cannot be loaded again.
StoredPaymentsLoad ==
    \A p \in Ids : payment[p].status \in {"VERIFIED", "REFUNDED"} => payment[p].verifier

\* RegisterAdvancePayment: one advance at a time is pending or under review.
OneActiveAdvance ==
    \A q \in Quotes :
        Cardinality(Advances(q, ReviewStatus \cup {"REFUND_PENDING"})) <= 1
=============================================================================
