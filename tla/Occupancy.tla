----------------------------- MODULE Occupancy -----------------------------
(***************************************************************************)
(* Who holds which room, items and crews at which time.  Bookings (the     *)
(* confirmation of a manual booking and the direct manual contract) and    *)
(* extensions of a running show compete for them under one advisory lock   *)
(* of the database; the staff edits the catalogue and the transit          *)
(* intervals without it.  An extension also stores the evidence of its     *)
(* payment in a file, outside the transaction.  A settled show leaves a    *)
(* financial snapshot that the reports add up.                             *)
(*                                                                         *)
(* A transaction that holds the lock is the action that takes it, with all *)
(* it reads and decides, and the one that commits or gives up: what the    *)
(* lock does not guard changes in between.  Operations that lock one event *)
(* only are one action.                                                    *)
(***************************************************************************)
EXTENDS Schedule, Functions

CONSTANTS
    Events,     \* shows, those booked at first and those to be booked
    Items,      \* items of the inventory
    Crews,
    Requests,   \* attempts to extend: each has a file, a payment and a row
    Booked,     \* events that are scheduled at first
    Manual,     \* events booked by a direct manual contract
    Slot,       \* event -> [date, start] that its client asked for
    District,   \* event -> district
    Periods,    \* accounting periods, as sets of dates from start to end
    Advance,    \* advance of every show
    Due,        \* total of services and mobility of every show
    Verified,   \* event -> verified balance (kept outside this code)
    Legacy,     \* event -> extension amount of before the migration
    Assigned,   \* event -> crews (assigned outside this code)
    Durations, Stocks, Quantities, Costs,  \* what the catalogue may say
    First,      \* the catalogue at first
    Minutes, Rates,                        \* what an extension may ask
    Intervals,                             \* transit intervals of the staff
    Offset,     \* slots from local time to UTC
    Horizon,    \* bound: last instant of the clock
    MaxEdits    \* bound: edits of the staff

Catalogue == [stock : [Items -> Stocks], requires : [Items -> Quantities],
              duration : Durations, cost : Costs]

ASSUME OccupancyConstants ==
    /\ IsFiniteSet(Events) /\ IsFiniteSet(Requests)
    /\ Events \cap Requests = {} /\ None \notin Events \cup Requests
    /\ Booked \subseteq Events /\ Manual \subseteq Events \ Booked
    /\ Durations \subseteq Nat \ {0} /\ Quantities \subseteq Nat \ {0}
    /\ Stocks \subseteq Nat /\ Costs \subseteq Nat
    /\ Minutes \subseteq Nat \ {0} /\ Rates \subseteq Nat \ {0}
    /\ First \in Catalogue
    /\ Intervals \subseteq Nat /\ Offset \in Nat /\ Horizon \in Nat
    /\ Advance \in Nat \ {0} /\ Due \in Nat
    /\ Slot \in [Events -> [date : Nat, start : 0 .. (Day - 1)]]
    /\ Verified \in [Events -> Nat] /\ Legacy \in [Events -> Nat]
    /\ Assigned \in [Events -> SUBSET Crews]
    /\ \A e \in Events \ Booked : Assigned[e] = {}
    /\ Periods \subseteq [start : Nat, end : Nat]

VARIABLES
    event,        \* rows of events
    reservation,  \* event -> item -> [quantity, window]
    interval,     \* event -> crew -> transit interval of the assignment
    charge,       \* request -> the extension row with its payment
    evidence,     \* files of payments
    snapshot,     \* event -> what its settlement recorded
    catalogue,    \* [stock, requires, duration, cost]
    review,       \* events whose advance waits for an approval
    booking,      \* event -> the booking in progress
    extension,    \* request -> the extension in progress
    lock,         \* holder of pg_advisory_xact_lock, or None
    edit,         \* the update of an item in progress, or None
    edits,        \* edits of the staff so far
    now           \* local time

vars == <<event, reservation, interval, charge, evidence, snapshot, catalogue,
          review, booking, extension, lock, edit, edits, now>>

rows == <<event, reservation, charge, snapshot>>
staff == <<interval, catalogue, edit, edits>>

-----------------------------------------------------------------------------
(* Rows.                                                                   *)

EventStatus == {"AWAITING_SIGNATURE", "SCHEDULED", "AWAITING_BALANCE",
                "IN_PROGRESS", "EXTENDED", "SETTLED", "CANCELLED"}

EventRow ==
    [status : EventStatus, date : Nat, start : 0 .. (Day - 1),
     end : 0 .. (Day - 1), extra : Nat, advance : Nat, balance : Nat,
     extraAmount : Nat, legacy : Nat, total : Nat, overbooked : BOOLEAN]

ReservationRow ==
    [quantity : Nat \ {0}, window : [start : Nat, end : Nat]]

ChargeRow == [event : Events, minutes : Minutes, rate : Rates, evidence : Requests]

SnapshotRow == [revenue : Nat, package : Nat]

ASSUME NoneIsNoRow ==
    /\ None \notin EventRow /\ None \notin ReservationRow
    /\ None \notin ChargeRow /\ None \notin SnapshotRow

Exists(e) == event[e] # None

ScheduledWindow(row) == EventWindow(row.date, row.start, row.end)

OperationalWindow(row) ==
    LET w == ScheduledWindow(row) IN [w EXCEPT !.end = @ + row.extra]

Countable(row) == row.status # "CANCELLED"

\* Mutant: shows without their extra minutes.
CountableEvents_AsScheduled(w) ==
    LET shows == {e \in Events : /\ Exists(e) /\ Countable(event[e])
                                 /\ Overlaps(ScheduledWindow(event[e]), w)}
    IN  [e \in shows |-> ScheduledWindow(event[e])]

\* Windows of the shows that overlap w.
CountableEvents(w) ==
    LET shows == {e \in Events : /\ Exists(e) /\ Countable(event[e])
                                 /\ Overlaps(OperationalWindow(event[e]), w)}
    IN  [e \in shows |-> OperationalWindow(event[e])]

\* Those of other shows with a paid advance, which an extension counts.
SimultaneousWindows(e, w) ==
    LET shows == {f \in DOMAIN CountableEvents(w) : f # e /\ event[f].advance > 0}
    IN  Restrict(CountableEvents(w), shows)

\* Reservations of an item, but for those of the given event.
Reservations(item, but) ==
    LET holders == {e \in Events \ {but} : reservation[e][item] # None}
    IN  [e \in holders |-> reservation[e][item]]

ChargesOf(e) == {r \in Requests : charge[r] # None /\ charge[r].event = e}

VerifiedMinutes(e) == SumOf([r \in ChargesOf(e) |-> charge[r].minutes])
VerifiedAmount(e) == SumOf([r \in ChargesOf(e) |-> charge[r].rate])

-----------------------------------------------------------------------------
(* Availability.                                                           *)

Shortages(w) ==
    {i \in Items :
        ~IsCovered(catalogue.stock[i], Reservations(i, None),
                   [quantity |-> catalogue.requires[i], window |-> w])}

CheckAvailability(w) ==
    IF Shortages(w) # {} THEN "CONFLICT"
    ELSE IF RequiresManualApproval(CountableEvents(w), w)
         THEN "REQUIRES_MANUAL_APPROVAL" ELSE "AVAILABLE"

-----------------------------------------------------------------------------
(* Bookings.  They are idle, prepared (only a manual contract, whose       *)
(* budget fixes the duration before the lock), reserving (with the lock)   *)
(* or done.                                                                *)

NoBooking == [pc |-> "idle", duration |-> None, window |-> None,
              requires |-> None, stock |-> None, overbooked |-> FALSE]

RequestedWindow(e, duration) == WindowOf(Slot[e].date, Slot[e].start, duration)

PrepareBudget(e) ==
    /\ e \in Manual /\ booking[e].pc = "idle" /\ ~Exists(e)
    /\ RequestedWindow(e, catalogue.duration).start > now
    /\ booking' = [booking EXCEPT ![e].pc = "prepared",
                                  ![e].duration = catalogue.duration]
    /\ UNCHANGED <<rows, staff, evidence, review, extension, lock, now>>

\* The window that is checked and then reserved, with what the check read.
Reserving(e, duration, overbooked) ==
    [pc |-> "reserving", duration |-> duration,
     window |-> RequestedWindow(e, duration),
     requires |-> catalogue.requires, stock |-> catalogue.stock,
     overbooked |-> overbooked]

\* A room that is gone sends the advance to the approval of the staff; with
\* the approval only a shortage of items does.
ConfirmBooking(e, approve) ==
    LET w == RequestedWindow(e, catalogue.duration)
        found == CheckAvailability(w)
        admitted == \/ found = "AVAILABLE"
                    \/ approve /\ found = "REQUIRES_MANUAL_APPROVAL"
    IN  /\ e \notin Manual /\ booking[e].pc = "idle" /\ ~Exists(e)
        /\ lock = None /\ w.start > now
        /\ IF admitted
           THEN /\ e \in review => approve
                /\ booking' = [booking EXCEPT ![e] =
                        Reserving(e, catalogue.duration, found # "AVAILABLE")]
                /\ lock' = e
                /\ UNCHANGED review
           ELSE /\ e \notin review
                /\ review' = review \cup {e}
                /\ UNCHANGED <<booking, lock>>
        /\ UNCHANGED <<rows, staff, evidence, extension, now>>

\* A manual contract has no approval: without room it fails.
CheckManualContract(e) ==
    LET duration == booking[e].duration IN
    /\ booking[e].pc = "prepared" /\ lock = None
    /\ IF CheckAvailability(RequestedWindow(e, duration)) = "AVAILABLE"
       THEN /\ booking' = [booking EXCEPT ![e] = Reserving(e, duration, FALSE)]
            /\ lock' = e
       ELSE /\ booking' = [booking EXCEPT ![e] = NoBooking]
            /\ UNCHANGED lock
    /\ UNCHANGED <<rows, staff, evidence, review, extension, now>>

NewEvent(e) ==
    [status |-> "AWAITING_SIGNATURE", date |-> Slot[e].date,
     start |-> Slot[e].start, end |-> TimeOfDay(booking[e].window.end),
     extra |-> 0, advance |-> Advance, balance |-> 0, extraAmount |-> 0,
     legacy |-> 0, total |-> Due, overbooked |-> booking[e].overbooked]

\* The table of events refuses a show that ends at the time of day at which
\* it starts.
HasHours(row) == row.end # row.start

\* The requirements of the package are read again.
Finalize(e) ==
    /\ booking[e].pc = "reserving" /\ HasHours(NewEvent(e))
    /\ event' = [event EXCEPT ![e] = NewEvent(e)]
    /\ reservation' = [reservation EXCEPT ![e] = [i \in Items |->
            [quantity |-> catalogue.requires[i], window |-> booking[e].window]]]
    /\ review' = review \ {e}
    /\ booking' = [booking EXCEPT ![e] = [NoBooking EXCEPT !.pc = "done"]]
    /\ lock' = None
    /\ UNCHANGED <<staff, charge, evidence, snapshot, extension, now>>

\* An error or a crash rolls the booking back.
AbortBooking(e) ==
    /\ booking[e].pc \in {"prepared", "reserving"}
    /\ booking' = [booking EXCEPT ![e] = NoBooking]
    /\ lock' = IF lock = e THEN None ELSE lock
    /\ UNCHANGED <<rows, staff, evidence, review, extension, now>>

-----------------------------------------------------------------------------
(* The life of an event.                                                   *)

\* The row of an event that is being extended is locked.
RowIsFree(e) == \A r \in Requests : extension[r].pc = "persisting" => extension[r].event # e

\* The signature of the contract (module ContractSigning).
ScheduleEvent(e) ==
    /\ Exists(e) /\ RowIsFree(e)
    /\ event[e].status = "AWAITING_SIGNATURE"
    /\ event' = [event EXCEPT ![e].status = "SCHEDULED"]
    /\ UNCHANGED <<reservation, charge, snapshot, staff, evidence, review, booking, extension, lock, now>>

StartEvent(e) ==
    /\ Exists(e) /\ RowIsFree(e)
    /\ event[e].status \in {"SCHEDULED", "AWAITING_BALANCE"}
    /\ event[e].advance + Verified[e] >= event[e].total
    /\ event' = [event EXCEPT ![e].status = "IN_PROGRESS",
                              ![e].balance = Verified[e]]
    /\ UNCHANGED <<reservation, charge, snapshot, staff, evidence, review, booking, extension, lock, now>>

\* Mutant: every show that was started.
Operating_Started(row) == row.status \in {"IN_PROGRESS", "EXTENDED", "SETTLED"}

Operating(row) == row.status \in {"IN_PROGRESS", "EXTENDED"}

-----------------------------------------------------------------------------
(* Extensions.  They are idle, stored (the evidence is a file),            *)
(* persisting (with the lock and the row of the event) or done.            *)

NoExtension == [pc |-> "idle", event |-> None, minutes |-> None,
                rate |-> None, stock |-> None]

StoreEvidence(r, e, minutes, rate) ==
    /\ extension[r].pc = "idle" /\ Exists(e)
    /\ evidence' = evidence \cup {r}
    /\ extension' = [extension EXCEPT ![r] =
            [pc |-> "stored", event |-> e, minutes |-> minutes, rate |-> rate,
             stock |-> None]]
    /\ UNCHANGED <<rows, staff, review, booking, lock, now>>

Extended(row, minutes, rate) ==
    [row EXCEPT !.status = "EXTENDED", !.extra = @ + minutes,
                !.extraAmount = @ + rate, !.total = @ + rate]

Longer(window, minutes) == [window EXCEPT !.end = @ + minutes]

\* Mutant: the item is looked for in the hours it is already reserved for.
InventoryAdmits_OldHours(e, minutes) ==
    \A i \in Items : reservation[e][i] # None =>
        IsCovered(catalogue.stock[i], Reservations(i, e), reservation[e][i])

InventoryAdmits(e, minutes) ==
    \A i \in Items : reservation[e][i] # None =>
        IsCovered(catalogue.stock[i], Reservations(i, e),
                  [quantity |-> reservation[e][i].quantity,
                   window |-> Longer(reservation[e][i].window, minutes)])

\* Other shows of a crew of e, with their windows.
CrewShows(e, c) ==
    {f \in Events \ {e} : Exists(f) /\ Countable(event[f]) /\ c \in Assigned[f]}

NextShow(e, c, w) ==
    LET following == {f \in CrewShows(e, c) :
                            ScheduledWindow(event[f]).start >= w.end}
    IN  {f \in following : \A g \in following :
            ScheduledWindow(event[f]).start <= ScheduledWindow(event[g]).start}

\* Mutant: only the shows after the extended window count.
CrewAdmits_NextOnly(e, c, w) ==
    \A f \in NextShow(e, c, w) :
        /\ interval[f][c] # None
        /\ IsFeasible(w, OperationalWindow(event[f]), 0, interval[f][c])

CrewAdmits(e, c, w) ==
    /\ \A f \in CrewShows(e, c) : ~Overlaps(OperationalWindow(event[f]), w)
    /\ \A f \in NextShow(e, c, w) :
            /\ interval[f][c] # None
            /\ IsFeasible(w, OperationalWindow(event[f]), 0, interval[f][c])

ExtensionFits(e, minutes) ==
    LET w == Longer(OperationalWindow(event[e]), minutes) IN
    /\ ~RequiresManualApproval(SimultaneousWindows(e, w), w)
    /\ InventoryAdmits(e, minutes)
    /\ \A c \in Assigned[e] : CrewAdmits(e, c, w)

CheckExtension(r) ==
    LET x == extension[r] IN
    /\ x.pc = "stored" /\ lock = None
    /\ Operating(event[x.event])
    /\ ExtensionFits(x.event, x.minutes)
    /\ lock' = r
    /\ extension' = [extension EXCEPT ![r].pc = "persisting",
                                      ![r].stock = catalogue.stock]
    /\ UNCHANGED <<rows, staff, evidence, review, booking, now>>

EndExtension(r) ==
    extension' = [extension EXCEPT ![r] = [NoExtension EXCEPT !.pc = "done"]]

\* What was refused before the rows were written leaves no file, unless the
\* deletion of the file fails.
RefuseExtension(r) ==
    LET x == extension[r] IN
    /\ x.pc = "stored" /\ lock = None
    /\ ~Operating(event[x.event]) \/ ~ExtensionFits(x.event, x.minutes)
    /\ evidence' \in {evidence, evidence \ {r}}
    /\ EndExtension(r)
    /\ UNCHANGED <<rows, staff, review, booking, lock, now>>

\* What a show holds, for as long as it takes now.
Lengthened(held, minutes) ==
    [i \in Items |-> IF held[i] = None THEN None
                     ELSE [held[i] EXCEPT !.window = Longer(@, minutes)]]

\* Mutant: the reservations keep their end.
SaveExtension_EventOnly(r) ==
    LET x == extension[r] IN
    /\ charge' = [charge EXCEPT ![r] =
            [event |-> x.event, minutes |-> x.minutes, rate |-> x.rate,
             evidence |-> r]]
    /\ event' = [event EXCEPT ![x.event] = Extended(@, x.minutes, x.rate)]
    /\ UNCHANGED <<reservation, snapshot>>

\* The rows of payment, extension, event and reservations, in one commit.
SaveExtension(r) ==
    LET x == extension[r] IN
    /\ charge' = [charge EXCEPT ![r] =
            [event |-> x.event, minutes |-> x.minutes, rate |-> x.rate,
             evidence |-> r]]
    /\ event' = [event EXCEPT ![x.event] = Extended(@, x.minutes, x.rate)]
    /\ reservation' = [reservation EXCEPT ![x.event] = Lengthened(@, x.minutes)]
    /\ UNCHANGED snapshot

\* The commit is answered, or its answer is lost: then the payment is found
\* in the database and the file stays.
PersistExtension(r) ==
    /\ extension[r].pc = "persisting"
    /\ Operating(event[extension[r].event])
    /\ SaveExtension(r)
    /\ EndExtension(r)
    /\ lock' = None
    /\ UNCHANGED <<staff, evidence, review, booking, now>>

\* Mutant: a failed answer is taken for a failed commit.
CanDiscardEvidence_Failed(r, charges, rolledBack) == rolledBack

\* The file goes only when the rollback succeeded and the payment is not in
\* the database.
CanDiscardEvidence(r, charges, rolledBack) == rolledBack /\ charges[r] = None

FailExtension(r, rolledBack) ==
    /\ extension[r].pc = "persisting"
    /\ evidence' \in IF CanDiscardEvidence(r, charge, rolledBack)
                     THEN {evidence, evidence \ {r}} ELSE {evidence}
    /\ EndExtension(r)
    /\ lock' = None
    /\ UNCHANGED <<rows, staff, review, booking, now>>

\* The rows are committed and the client is told of an error.
LoseAnswer(r, rolledBack) ==
    /\ extension[r].pc = "persisting"
    /\ Operating(event[extension[r].event])
    /\ SaveExtension(r)
    /\ evidence' \in IF CanDiscardEvidence(r, charge', rolledBack)
                     THEN {evidence, evidence \ {r}} ELSE {evidence}
    /\ EndExtension(r)
    /\ lock' = None
    /\ UNCHANGED <<staff, review, booking, now>>

\* A crash leaves the file behind.
CrashExtension(r) ==
    /\ extension[r].pc \in {"stored", "persisting"}
    /\ EndExtension(r)
    /\ lock' = IF lock = r THEN None ELSE lock
    /\ UNCHANGED <<rows, staff, evidence, review, booking, now>>

-----------------------------------------------------------------------------
(* Settlement and reports.                                                 *)

MatchesCharges(e) ==
    /\ event[e].legacy + VerifiedAmount(e) = event[e].extraAmount
    /\ VerifiedMinutes(e) = event[e].extra

Collected(e) ==
    event[e].advance + event[e].balance + event[e].legacy + VerifiedAmount(e)

SettleEvent(e) ==
    /\ Exists(e) /\ RowIsFree(e)
    /\ Operating(event[e])
    /\ MatchesCharges(e)
    /\ Collected(e) >= event[e].total
    /\ event' = [event EXCEPT ![e].status = "SETTLED"]
    /\ snapshot' = [snapshot EXCEPT ![e] =
            [revenue |-> Collected(e), package |-> catalogue.cost]]
    /\ UNCHANGED <<reservation, charge, staff, evidence, review, booking,
                   extension, lock, now>>

SettledIn(period) ==
    {e \in Events : /\ Exists(e) /\ event[e].status = "SETTLED"
                    /\ event[e].date \in period.start .. (period.end - 1)}

\* Mutant: the cost of today.
DirectCost_OfCatalogue(e) == catalogue.cost

\* The costs of a settled show are those of its snapshot, not the catalogue's.
DirectCost(e) == snapshot[e].package

Totals(shows) ==
    [events |-> Cardinality(shows),
     revenue |-> SumOf([e \in shows |-> snapshot[e].revenue]),
     costs |-> SumOf([e \in shows |-> DirectCost(e)])]

NetProfit(totals) == totals.revenue - totals.costs

Pnl(period) == NetProfit(Totals(SettledIn(period)))

DistrictProfit(period, d) ==
    NetProfit(Totals({e \in SettledIn(period) : District[e] = d}))

-----------------------------------------------------------------------------
(* The staff, without the advisory lock.                                   *)

Editing == edits < MaxEdits /\ edits' = edits + 1

OverrideInterval(e, c, minutes) ==
    /\ Editing /\ Exists(e) /\ RowIsFree(e) /\ c \in Assigned[e]
    /\ event[e].status \in {"AWAITING_SIGNATURE", "SCHEDULED", "AWAITING_BALANCE"}
    /\ interval' = [interval EXCEPT ![e][c] = minutes]
    /\ UNCHANGED <<rows, catalogue, edit, evidence, review, booking, extension,
                   lock, now>>

UpdatePackage(duration, cost) ==
    /\ Editing
    /\ catalogue' = [catalogue EXCEPT !.duration = duration, !.cost = cost]
    /\ UNCHANGED <<rows, interval, edit, evidence, review, booking, extension,
                   lock, now>>

SetRequirements(item, quantity) ==
    /\ Editing
    /\ catalogue' = [catalogue EXCEPT !.requires[item] = quantity]
    /\ UNCHANGED <<rows, interval, edit, evidence, review, booking, extension,
                   lock, now>>

\* The end of a reservation is a local mark, which is compared with UTC.
FutureReservedUnits(item) ==
    LET future == {e \in Events : /\ reservation[e][item] # None
                                  /\ reservation[e][item].window.end > now + Offset}
    IN  SumOf([e \in future |-> reservation[e][item].quantity])

\* An update of the stock counts the reserved units and writes later.
ReadReserved(item, stock) ==
    /\ edit = None /\ Editing
    /\ stock >= FutureReservedUnits(item)
    /\ edit' = [item |-> item, stock |-> stock]
    /\ UNCHANGED <<rows, interval, catalogue, evidence, review, booking,
                   extension, lock, now>>

UpdateStock ==
    /\ edit # None
    /\ catalogue' = [catalogue EXCEPT !.stock[edit.item] = edit.stock]
    /\ edit' = None
    /\ UNCHANGED <<rows, interval, edits, evidence, review, booking, extension,
                   lock, now>>

Tick ==
    /\ now < Horizon
    /\ now' = now + 1
    /\ UNCHANGED <<rows, staff, evidence, review, booking, extension, lock>>

-----------------------------------------------------------------------------
(* The specification.  At first the booked shows are scheduled, or already *)
(* extended before the minutes of extensions were kept, with their         *)
(* reservations; there is room for them, and no crew has two at a time.    *)

Instants(window) == window.start .. (window.end - 1)

Covers(window, t) == window.start <= t /\ t < window.end

FirstWindow(e) == RequestedWindow(e, First.duration)

ASSUME FirstCalendar ==
    /\ \A e \in Booked : TimeOfDay(FirstWindow(e).end) # Slot[e].start
    /\ \A e \in Booked : \A t \in Instants(FirstWindow(e)) :
            Cardinality({f \in Booked : Covers(FirstWindow(f), t)}) <= Threshold
    /\ \A e, f \in Booked :
            e # f /\ Overlaps(FirstWindow(e), FirstWindow(f)) =>
                Assigned[e] \cap Assigned[f] = {}

FirstEvent(e) ==
    LET started == Legacy[e] > 0 IN
    [status |-> IF started THEN "EXTENDED" ELSE "SCHEDULED",
     date |-> Slot[e].date, start |-> Slot[e].start,
     end |-> TimeOfDay(FirstWindow(e).end), extra |-> 0,
     advance |-> Advance, balance |-> IF started THEN Verified[e] ELSE 0,
     extraAmount |-> Legacy[e], legacy |-> Legacy[e],
     total |-> Due + Legacy[e], overbooked |-> FALSE]

Init ==
    /\ catalogue = First
    /\ event = [e \in Events |-> IF e \in Booked THEN FirstEvent(e) ELSE None]
    /\ reservation = [e \in Events |-> [i \in Items |->
            IF e \in Booked
            THEN [quantity |-> First.requires[i], window |-> FirstWindow(e)]
            ELSE None]]
    /\ interval = [e \in Events |-> [c \in Assigned[e] |-> None]]
    /\ charge = [r \in Requests |-> None]
    /\ evidence = {}
    /\ snapshot = [e \in Events |-> None]
    /\ review = {}
    /\ booking = [e \in Events |-> NoBooking]
    /\ extension = [r \in Requests |-> NoExtension]
    /\ lock = None
    /\ edit = None
    /\ edits = 0
    /\ now = 0

EditStaff ==
    \/ \E e \in Events, c \in Crews, m \in Intervals : OverrideInterval(e, c, m)
    \/ \E d \in Durations, k \in Costs : UpdatePackage(d, k)
    \/ \E i \in Items, q \in Quantities : SetRequirements(i, q)
    \/ \E i \in Items, n \in Stocks : ReadReserved(i, n)
    \/ UpdateStock

Book(e) ==
    \/ PrepareBudget(e)
    \/ \E approve \in BOOLEAN : ConfirmBooking(e, approve)
    \/ CheckManualContract(e)
    \/ Finalize(e)
    \/ AbortBooking(e)

Extend(r) ==
    \/ \E e \in Events, m \in Minutes, k \in Rates : StoreEvidence(r, e, m, k)
    \/ CheckExtension(r)
    \/ RefuseExtension(r)
    \/ PersistExtension(r)
    \/ \E rolledBack \in BOOLEAN : FailExtension(r, rolledBack)
    \/ \E rolledBack \in BOOLEAN : LoseAnswer(r, rolledBack)
    \/ CrashExtension(r)

Next ==
    \/ \E e \in Events : Book(e)
    \/ \E e \in Events : ScheduleEvent(e) \/ StartEvent(e) \/ SettleEvent(e)
    \/ \E r \in Requests : Extend(r)
    \/ EditStaff
    \/ Tick

Spec == Init /\ [][Next]_vars

-----------------------------------------------------------------------------
(* Properties.                                                             *)

\* Rows keep to their columns: units are counted, windows of reservations
\* never end before they start, and what runs holds what it read.
TypeOK ==
    /\ event \in [Events -> EventRow \cup {None}]
    /\ \A e \in Events : Exists(e) => event[e].advance > 0
    /\ \A e \in Events, i \in Items : reservation[e][i] # None =>
            /\ reservation[e][i] \in ReservationRow
            /\ reservation[e][i].window.start < reservation[e][i].window.end
    /\ charge \in [Requests -> ChargeRow \cup {None}]
    /\ snapshot \in [Events -> SnapshotRow \cup {None}]
    /\ evidence \subseteq Requests /\ review \subseteq Events \ Manual
    /\ lock \in Events \cup Requests \cup {None}
    /\ \A e \in Events : booking[e].pc = "reserving" <=> lock = e
    /\ \A r \in Requests : extension[r].pc = "persisting" <=> lock = r

ReservedAt(item, t) ==
    LET holders == {e \in Events : /\ reservation[e][item] # None
                                   /\ Covers(reservation[e][item].window, t)}
    IN  SumOf([e \in holders |-> reservation[e][item].quantity])

\* The stock and the quantity that the reservation of e was checked with.
Judged(e, item) ==
    IF booking[e].pc = "reserving"
    THEN [stock |-> booking[e].stock[item], quantity |-> booking[e].requires[item]]
    ELSE LET r == CHOOSE r \in Requests : /\ extension[r].pc = "persisting"
                                          /\ extension[r].event = e
         IN  [stock |-> extension[r].stock[item],
              quantity |-> reservation[e][item].quantity]

ReservesWithinStock ==
    \A e \in Events, i \in Items :
        LET reserved == reservation'[e][i] IN
        /\ reserved # reservation[e][i]
        /\ catalogue.stock[i] >= Judged(e, i).stock
        /\ reserved.quantity <= Judged(e, i).quantity
        => \A t \in Instants(reserved.window) :
                ReservedAt(i, t)' <= catalogue.stock[i]

\* The advisory lock makes the check of a booking or of an extension hold
\* until its commit: unless the staff edits the catalogue in between, no
\* instant of what it reserves has more units reserved than there are.
BookedWithinStock == [][ReservesWithinStock]_vars

ShowsAt(t) ==
    {e \in Events : /\ Exists(e) /\ Countable(event[e])
                    /\ Covers(OperationalWindow(event[e]), t)}

\* More shows than the threshold take place at a time, by the hours of their
\* rows, only when the staff approved one of them, however bookings and
\* extensions compete.
ShowsWithinThreshold ==
    \A e \in Events : Exists(e) =>
        \A t \in Instants(OperationalWindow(event[e])) :
            Cardinality(ShowsAt(t)) > Threshold =>
                \E f \in ShowsAt(t) : event[f].overbooked

\* An extension never makes a crew work in two shows at a time.
CrewsInOnePlace ==
    \A e, f \in Events :
        /\ Exists(e) /\ Exists(f) /\ e # f
        /\ Overlaps(OperationalWindow(event[e]), OperationalWindow(event[f]))
        => Assigned[e] \cap Assigned[f] = {}

\* The evidence of a payment that is in the database is never deleted, not
\* even when the answer of the commit is lost.
EvidenceOfCharges == \A r \in Requests : charge[r] # None => r \in evidence

\* A window and what a row of hours keeps of it: all of it if it is shorter
\* than a day before the extra minutes; else whole days are lost, and no more.
SameHours(held, show, extra) ==
    /\ held.start = show.start
    /\ held.end >= show.end /\ (held.end - show.end) % Day = 0
    /\ held.end - held.start < Day + extra => held = show

\* The items of a show are reserved from its start to its end, past midnight
\* and after extensions too, but for the whole days that the hours of a show
\* of more than a day have lost.
ReservationsFollowEvent ==
    \A e \in Events, i \in Items : reservation[e][i] # None =>
        /\ Exists(e)
        /\ SameHours(reservation[e][i].window, OperationalWindow(event[e]),
                     event[e].extra)

\* What was settled covers the final total and stays as it was recorded: no
\* late extension reaches a settled show.
SettledAddsUp ==
    \A e \in Events :
        /\ snapshot[e] # None <=> Exists(e) /\ event[e].status = "SETTLED"
        /\ snapshot[e] # None =>
            /\ snapshot[e].revenue = event[e].advance + event[e].balance + event[e].extraAmount
            /\ snapshot[e].revenue >= event[e].total
            /\ MatchesCharges(e)

ReportsFollowSettlements ==
    \A p \in Periods :
        LET settled == SettledIn(p)' \ SettledIn(p) IN
        /\ settled = {} => Pnl(p)' = Pnl(p)
        /\ \A d \in {District[e] : e \in Events} :
                d \notin {District[e] : e \in settled} =>
                    DistrictProfit(p, d)' = DistrictProfit(p, d)

\* A report of the past changes only by the settlement of a show of its
\* period and its district, whatever the staff does to the catalogue.
ReportsAreStable == [][ReportsFollowSettlements]_vars

\* "The stock cannot fall below the units already reserved for future dates"
\* (manage_catalog.py): an update keeps what is reserved from now on.
StockKeepsReservations ==
    [][\A i \in Items : catalogue'.stock[i] # catalogue.stock[i] =>
            \A t \in (now + 1) .. (2 * Day + Horizon) :
                ReservedAt(i, t) <= catalogue'.stock[i]]_vars
=============================================================================
