------------------------------ MODULE Schedule ------------------------------
(***************************************************************************)
(* Windows of time and the services of the domain that compare them: how   *)
(* many shows overlap, how many units of an item are free, and how long a  *)
(* crew needs between two shows.  Nothing here has state; Occupancy uses   *)
(* these operators as the adapters of the code use the services.           *)
(*                                                                         *)
(* An instant is a number of slots since the first day; a day has Day      *)
(* slots.  Dates and times are local marks that the code labels as UTC.    *)
(***************************************************************************)
EXTENDS Integers, FiniteSets, FiniteSetsExt

CONSTANTS
    Day,        \* slots of a day
    Threshold,  \* shows that may overlap without an approval
    RestBuffer, \* slots a crew rests besides its transit
    None        \* an absent value

ASSUME ScheduleConstants ==
    /\ Day \in Nat \ {0}
    /\ Threshold \in Nat
    /\ RestBuffer \in Nat
    /\ None \notin Int

-----------------------------------------------------------------------------
(* TimeWindow: the interval [start, end).                                  *)

WindowOf(date, start, duration) ==
    [start |-> date * Day + start, end |-> date * Day + start + duration]

\* An end before the start belongs to the next day; an event never has them
\* equal.
EventWindow(date, start, end) ==
    WindowOf(date, start, IF end < start THEN end + Day - start ELSE end - start)

\* Mutant: an end past midnight stays beyond the day.
TimeOfDay_Unwrapped(instant) == instant

TimeOfDay(instant) == instant % Day

Overlaps(v, w) == v.start < w.end /\ w.start < v.end

GapBefore(v, w) == w.start - v.end

-----------------------------------------------------------------------------
(* ConcurrencyEvaluator: windows is a function, as two shows may have the  *)
(* same window.                                                            *)

SimultaneousCount(windows, candidate) ==
    1 + Cardinality({e \in DOMAIN windows : Overlaps(windows[e], candidate)})

RequiresManualApproval(windows, candidate) ==
    SimultaneousCount(windows, candidate) > Threshold

-----------------------------------------------------------------------------
(* InventoryAvailabilityService: reservations maps each holder to the      *)
(* quantity and the window it holds of one item.                           *)

SumOf(f) == MapThenSumSet(LAMBDA x : f[x], DOMAIN f)

ReservedQuantity(reservations, window) ==
    SumOf([h \in {h \in DOMAIN reservations :
                        Overlaps(reservations[h].window, window)}
              |-> reservations[h].quantity])

AvailableQuantity(stock, reservations, window) ==
    Max({0, stock - ReservedQuantity(reservations, window)})

IsCovered(stock, reservations, request) ==
    AvailableQuantity(stock, reservations, request.window) >= request.quantity

-----------------------------------------------------------------------------
(* TravelIntervalService.                                                  *)

RequiredInterval(transit, override) ==
    IF override = None THEN transit + RestBuffer ELSE override

IsGapFeasible(gap, transit, override) ==
    gap >= RequiredInterval(transit, override)

IsFeasible(previous, following, transit, override) ==
    IsGapFeasible(GapBefore(previous, following), transit, override)
=============================================================================
