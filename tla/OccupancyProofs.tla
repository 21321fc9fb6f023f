--------------------------- MODULE OccupancyProofs ---------------------------
(***************************************************************************)
(* What Occupancy promises of shows, crews, reservations, charges and the  *)
(* stock, for any number of shows, bookings, extensions, units and hours.  *)
(*                                                                         *)
(* First the theory of sums that the stock and the report need, from       *)
(* minimal counterexamples instead of inductions; then windows and         *)
(* reservations; then OccupancyInv, one lemma per command; last the two    *)
(* properties of steps, about the stock and about reports of the past.     *)
(***************************************************************************)
EXTENDS Occupancy, FiniteSetTheorems, WellFoundedInduction, TLAPS

Pick(s) == CHOOSE x \in s : TRUE

\* g sums f over every subset of D, one element after another.
Sums(f, D, g) ==
    g = [s \in SUBSET D |-> IF s = {} THEN 0 ELSE f[Pick(s)] + g[s \ {Pick(s)}]]

\* SumOf, from what the folds of the library are made of.
LEMMA SumUnfolds ==
    ASSUME NEW f
    PROVE  SumOf(f) = (CHOOSE g : Sums(f, DOMAIN f, g))[DOMAIN f]
BY DEF SumOf, MapThenSumSet, MapThenFoldSet, Sums, Pick

\* A set of subsets of a finite set has a minimal one.
LEMMA MinimalSubset ==
    ASSUME NEW S, IsFiniteSet(S), NEW B, B \subseteq SUBSET S, B # {}
    PROVE  \E T \in B : \A U \in B : U \subseteq T => U = T
<1> DEFINE R == StrictSubsetOrdering(S)
<1>1. IsWellFoundedOn(R, SUBSET S)
    BY FS_FiniteSubsetsOfFinite, FS_StrictSubsetOrderingWellFounded
<1>2. \E T \in B : \A U \in B : ~(<<U, T>> \in R)
    <2> HIDE DEF R
    <2> QED BY <1>1, WFMin
<1> QED BY <1>2 DEF StrictSubsetOrdering

LEMMA PickIn == ASSUME NEW s, s # {} PROVE Pick(s) \in s
BY DEF Pick

\* Functions that sum f agree wherever both do,
LEMMA SumsAgree ==
    ASSUME NEW f, NEW D, IsFiniteSet(D), NEW C, NEW g, NEW h,
           Sums(f, D, g), Sums(f, C, h), D \subseteq C
    PROVE  \A s \in SUBSET D : g[s] = h[s]
<1> DEFINE B == {s \in SUBSET D : g[s] # h[s]}
<1> SUFFICES ASSUME B # {} PROVE FALSE
    OBVIOUS
<1>1. PICK T \in B : \A U \in B : U \subseteq T => U = T
    <2>1. B \subseteq SUBSET D
        OBVIOUS
    <2> HIDE DEF B
    <2> QED BY <2>1, MinimalSubset
<1>2. /\ g[T] = IF T = {} THEN 0 ELSE f[Pick(T)] + g[T \ {Pick(T)}]
      /\ h[T] = IF T = {} THEN 0 ELSE f[Pick(T)] + h[T \ {Pick(T)}]
    BY DEF Sums
<1>3. T # {}
    BY <1>2
<1>4. T \ {Pick(T)} \notin B
    BY <1>1, <1>3, PickIn
<1>5. T \ {Pick(T)} \in SUBSET D
    OBVIOUS
<1> QED BY <1>2, <1>4, <1>5

\* and there is one over every finite set.
LEMMA SumsExist ==
    ASSUME NEW f, NEW D, IsFiniteSet(D)
    PROVE  \E g : Sums(f, D, g)
<1> DEFINE Has(T) == \E g : Sums(f, T, g)
           B == {T \in SUBSET D : ~Has(T)}
<1> SUFFICES ASSUME B # {} PROVE FALSE
    OBVIOUS
<1>1. PICK T \in B : \A U \in B : U \subseteq T => U = T
    <2>1. B \subseteq SUBSET D
        OBVIOUS
    <2> HIDE DEF B
    <2> QED BY <2>1, MinimalSubset
<1>2. \A U \in SUBSET T : U # T => Has(U)
    BY <1>1
<1> DEFINE G(U) == CHOOSE g : Sums(f, U, g)
           Step(s) == IF s = {} THEN 0
                      ELSE f[Pick(s)] + G(s \ {Pick(s)})[s \ {Pick(s)}]
           g == [s \in SUBSET T |-> Step(s)]
<1>3. \A U \in SUBSET T : U # T => Sums(f, U, G(U))
    BY <1>2
<1>4. \A U \in SUBSET T : U # T => G(U)[U] = Step(U)
    <2> TAKE U \in SUBSET T
    <2> HAVE U # T
    <2>1. G(U)[U] = IF U = {} THEN 0 ELSE f[Pick(U)] + G(U)[U \ {Pick(U)}]
        <3> HIDE DEF G
        <3>1. Sums(f, U, G(U)) /\ U \in SUBSET U
            BY <1>3
        <3> QED BY <3>1 DEF Sums
    <2>2. CASE U = {}
        BY <2>1, <2>2
    <2>3. CASE U # {}
        <3> DEFINE V == U \ {Pick(U)}
        <3>1. V \in SUBSET T /\ V # T /\ V \subseteq U /\ V \in SUBSET V
            BY <2>3, PickIn
        <3>2. IsFiniteSet(V)
            BY <3>1, FS_Subset
        <3>3. G(V)[V] = G(U)[V]
            <4> HIDE DEF G, V
            <4> QED BY <3>1, <3>2, <1>3, SumsAgree
        <3> QED BY <2>1, <2>3, <3>3
    <2> QED BY <2>2, <2>3
<1>5. ASSUME NEW s \in SUBSET T, s # {}
      PROVE  g[s] = f[Pick(s)] + g[s \ {Pick(s)}]
    <2>1. s \ {Pick(s)} \in SUBSET T /\ s \ {Pick(s)} # T
        BY <1>5, PickIn
    <2>2. G(s \ {Pick(s)})[s \ {Pick(s)}] = Step(s \ {Pick(s)})
        <3> HIDE DEF G, Step
        <3> QED BY <2>1, <1>4
    <2>3. g[s \ {Pick(s)}] = Step(s \ {Pick(s)})
        <3> HIDE DEF Step
        <3> QED BY <2>1
    <2>4. g[s] = Step(s)
        <3> HIDE DEF Step
        <3> QED OBVIOUS
    <2>5. Step(s) = f[Pick(s)] + G(s \ {Pick(s)})[s \ {Pick(s)}]
        BY <1>5
    <2> HIDE DEF G, Step, g
    <2> QED BY <2>2, <2>3, <2>4, <2>5
<1>6. g[{}] = 0
    OBVIOUS
<1>7. g = [s \in SUBSET T |-> IF s = {} THEN 0 ELSE f[Pick(s)] + g[s \ {Pick(s)}]]
    <2>1. \A s \in SUBSET T : g[s] = IF s = {} THEN 0 ELSE f[Pick(s)] + g[s \ {Pick(s)}]
        <3> HIDE DEF g
        <3> QED BY <1>5, <1>6
    <2>2. g = [s \in SUBSET T |-> g[s]]
        OBVIOUS
    <2> HIDE DEF g
    <2> QED BY <2>1, <2>2
<1> HIDE DEF g
<1>8. Sums(f, T, g)
    BY <1>7 DEF Sums
<1> QED BY <1>8

\* What SumOf is of a part of the domain.
LEMMA SumOfPart ==
    ASSUME NEW f, NEW D, IsFiniteSet(D), NEW g, Sums(f, D, g), NEW T \in SUBSET D
    PROVE  SumOf([x \in T |-> f[x]]) = g[T]
<1> DEFINE p == [x \in T |-> f[x]]
           h == CHOOSE h : Sums(p, T, h)
<1>1. IsFiniteSet(T) /\ DOMAIN p = T
    BY FS_Subset
<1>2. SumOf(p) = h[T]
    <2> HIDE DEF p
    <2> QED BY <1>1, SumUnfolds
<1>3. Sums(p, T, h)
    <2> HIDE DEF p
    <2> QED BY <1>1, SumsExist
<1>4. \A s \in SUBSET T : s # {} => p[Pick(s)] = f[Pick(s)]
    BY PickIn
<1> HIDE DEF p, h
<1>5. Sums(f, T, h)
    <2>1. h = [s \in SUBSET T |-> IF s = {} THEN 0 ELSE p[Pick(s)] + h[s \ {Pick(s)}]]
        BY <1>3 DEF Sums
    <2>2. h = [s \in SUBSET T |-> IF s = {} THEN 0 ELSE f[Pick(s)] + h[s \ {Pick(s)}]]
        BY <2>1, <1>4
    <2> QED BY <2>2 DEF Sums
<1>6. h[T] = g[T]
    BY <1>1, <1>5, SumsAgree
<1> QED BY <1>2, <1>6 DEF p

\* Whichever element is taken first, the sum is the same.
LEMMA SumsInAnyOrder ==
    ASSUME NEW D, IsFiniteSet(D), NEW f \in [D -> Nat], NEW g, Sums(f, D, g)
    PROVE  /\ \A T \in SUBSET D : g[T] \in Nat
           /\ \A T \in SUBSET D : \A x \in T : g[T] = f[x] + g[T \ {x}]
<1>0. \A T \in SUBSET D : g[T] = IF T = {} THEN 0 ELSE f[Pick(T)] + g[T \ {Pick(T)}]
    BY DEF Sums
<1>1. \A T \in SUBSET D : g[T] \in Nat
    <2> DEFINE B == {T \in SUBSET D : g[T] \notin Nat}
    <2> SUFFICES ASSUME B # {} PROVE FALSE
        OBVIOUS
    <2>1. PICK T \in B : \A U \in B : U \subseteq T => U = T
        <3>1. B \subseteq SUBSET D
            OBVIOUS
        <3> HIDE DEF B
        <3> QED BY <3>1, MinimalSubset
    <2>2. T # {}
        <3>1. g[{}] = 0
            BY <1>0
        <3> QED BY <3>1
    <2>3. T \ {Pick(T)} \notin B /\ T \ {Pick(T)} \in SUBSET D /\ Pick(T) \in D
        BY <2>1, <2>2, PickIn
    <2> QED BY <1>0, <2>2, <2>3
<1>2. \A T \in SUBSET D : \A x \in T : g[T] = f[x] + g[T \ {x}]
    <2> DEFINE Splits(T) == \A x \in T : g[T] = f[x] + g[T \ {x}]
               B == {T \in SUBSET D : ~Splits(T)}
    <2> SUFFICES ASSUME B # {} PROVE FALSE
        OBVIOUS
    <2>1. PICK T \in B : \A U \in B : U \subseteq T => U = T
        <3>1. B \subseteq SUBSET D
            OBVIOUS
        <3> HIDE DEF B
        <3> QED BY <3>1, MinimalSubset
    <2>2. PICK x \in T : g[T] # f[x] + g[T \ {x}]
        OBVIOUS
    <2> DEFINE y == Pick(T)
    <2>3. y \in T /\ g[T] = f[y] + g[T \ {y}]
        BY <1>0, <2>2, PickIn
    <2> HIDE DEF y
    <2>4. x # y
        BY <2>2, <2>3
    <2>5. \A U \in SUBSET T : U # T => Splits(U)
        BY <2>1
    <2>6. /\ T \ {y} \in SUBSET T /\ T \ {y} # T /\ x \in T \ {y}
          /\ T \ {x} \in SUBSET T /\ T \ {x} # T /\ y \in T \ {x}
        BY <2>3, <2>4
    <2>7. g[T \ {y}] = f[x] + g[(T \ {y}) \ {x}]
        <3>1. Splits(T \ {y})
            <4> HIDE DEF Splits
            <4> QED BY <2>5, <2>6
        <3> QED BY <3>1, <2>6
    <2>8. g[T \ {x}] = f[y] + g[(T \ {x}) \ {y}]
        <3>1. Splits(T \ {x})
            <4> HIDE DEF Splits
            <4> QED BY <2>5, <2>6
        <3> QED BY <3>1, <2>6
    <2> DEFINE rest == g[(T \ {x}) \ {y}]
    <2>9. g[(T \ {y}) \ {x}] = rest
        <3>1. (T \ {y}) \ {x} = (T \ {x}) \ {y}
            OBVIOUS
        <3> QED BY <3>1
    <2>10. f[x] \in Nat /\ f[y] \in Nat /\ rest \in Nat
        BY <1>1, <2>3
    <2>11. g[T] = f[y] + (f[x] + rest)
        BY <2>3, <2>7, <2>9
    <2>12. g[T \ {x}] = f[y] + rest
        BY <2>8
    <2> HIDE DEF B, Splits, rest
    <2> QED BY <2>2, <2>10, <2>11, <2>12
<1> QED BY <1>1, <1>2

LEMMA SumIsWhole ==
    ASSUME NEW D, IsFiniteSet(D), NEW f \in [D -> Nat]
    PROVE  \E g : Sums(f, D, g) /\ SumOf(f) = g[D]
<1>1. DOMAIN f = D
    OBVIOUS
<1> QED BY <1>1, SumUnfolds, SumsExist

\* A sum of numbers is a number.
LEMMA SumIsNat ==
    ASSUME NEW D, IsFiniteSet(D), NEW f \in [D -> Nat]
    PROVE  SumOf(f) \in Nat
<1>1. PICK g : Sums(f, D, g) /\ SumOf(f) = g[D]
    BY SumIsWhole
<1> QED BY <1>1, SumsInAnyOrder

\* Any element may be added last.
LEMMA SumWithout ==
    ASSUME NEW D, IsFiniteSet(D), NEW f \in [D -> Nat], NEW x \in D
    PROVE  SumOf(f) = f[x] + SumOf([y \in D \ {x} |-> f[y]])
<1>1. PICK g : Sums(f, D, g) /\ SumOf(f) = g[D]
    BY SumIsWhole
<1>2. g[D] = f[x] + g[D \ {x}]
    <2>1. Sums(f, D, g)
        BY <1>1
    <2>2. \A y \in D : g[D] = f[y] + g[D \ {y}]
        BY <2>1, SumsInAnyOrder
    <2> QED BY <2>2
<1>3. SumOf([y \in D \ {x} |-> f[y]]) = g[D \ {x}]
    BY <1>1, SumOfPart
<1> QED BY <1>1, <1>2, <1>3

\* A part of a sum is not more than the whole.
LEMMA PartIsLess ==
    ASSUME NEW D, IsFiniteSet(D), NEW f \in [D -> Nat], NEW T \in SUBSET D
    PROVE  SumOf([x \in T |-> f[x]]) <= SumOf(f)
<1>1. PICK g : Sums(f, D, g) /\ SumOf(f) = g[D]
    BY SumIsWhole
<1>2. SumOf([x \in T |-> f[x]]) = g[T]
    BY <1>1, SumOfPart
<1> DEFINE B == {U \in SUBSET D : T \subseteq U /\ ~(g[T] <= g[U])}
<1> SUFFICES ASSUME B # {} PROVE FALSE
    BY <1>1, <1>2
<1>3. PICK V \in B : \A U \in B : U \subseteq V => U = V
    <2>1. B \subseteq SUBSET D
        OBVIOUS
    <2> HIDE DEF B
    <2> QED BY <2>1, MinimalSubset
<1>4. \A U \in SUBSET D : g[U] \in Nat
    BY <1>1, SumsInAnyOrder
<1>5. V # T
    BY <1>4
<1>6. PICK x \in V : x \notin T
    BY <1>5
<1>7. g[V] = f[x] + g[V \ {x}]
    BY <1>1, SumsInAnyOrder
<1>8. g[T] <= g[V \ {x}]
    BY <1>3, <1>6
<1>9. f[x] \in Nat /\ g[V \ {x}] \in Nat /\ g[T] \in Nat /\ g[V] \in Nat /\ ~(g[T] <= g[V])
    BY <1>4, <1>6
<1> HIDE DEF B
<1> QED BY <1>7, <1>8, <1>9
-----------------------------------------------------------------------------
(* The calendar: the shows there are, with the windows they take.          *)

Windows == [start : Nat, end : Nat]

Calendar(ev) ==
    [e \in {e \in Events : ev[e] # None} |-> OperationalWindow(ev[e])]

\* Shows besides e that take place in a part of w.
Room(cal, e, w) == {f \in DOMAIN cal \ {e} : Overlaps(cal[f], w)}

\* Holders besides e of some units of an item in a part of w, and the units.
Held(res, e, i, w) ==
    {f \in Events \ {e} : res[f][i] # None /\ Overlaps(res[f][i].window, w)}

Units(res, i, holders) == SumOf([f \in holders |-> res[f][i].quantity])

-----------------------------------------------------------------------------
(* The invariant.                                                          *)

RowsTyped ==
    /\ event \in [Events -> EventRow \cup {None}]
    /\ reservation \in [Events -> [Items -> ReservationRow \cup {None}]]
    /\ charge \in [Requests -> ChargeRow \cup {None}]
    /\ snapshot \in [Events -> SnapshotRow \cup {None}]
    /\ evidence \subseteq Requests
    /\ review \subseteq Events \ Manual
    /\ lock \in Events \cup Requests \cup {None}
    /\ catalogue \in Catalogue
    /\ edit \in [item : Items, stock : Stocks] \cup {None}

\* Shows are paid, last a while, and no code cancels one.
EventsSound ==
    /\ \A e \in Booked : Exists(e)
    /\ \A e \in Events : Exists(e) =>
            /\ event[e].advance > 0
            /\ event[e].status # "CANCELLED"
            /\ event[e].end # event[e].start

\* What the lock guards is still as the check of the booking b of e found it.
BookingFits(cal, res, e, b) ==
    /\ b.overbooked \in BOOLEAN
    /\ b.window = RequestedWindow(e, b.duration)
    /\ ~b.overbooked => Cardinality(Room(cal, e, b.window)) < Threshold
    /\ \A i \in Items :
          /\ b.stock[i] \in Nat /\ b.requires[i] \in Nat
          /\ Units(res, i, Held(res, e, i, b.window)) + b.requires[i] <= b.stock[i]

BookingRow ==
    [pc : {"idle", "prepared", "reserving", "done"},
     duration : Durations \cup {None}, window : Windows \cup {None},
     requires : [Items -> Quantities] \cup {None},
     stock : [Items -> Stocks] \cup {None}, overbooked : BOOLEAN]

BookingsSound ==
    /\ booking \in [Events -> BookingRow]
    /\ \A e \in Events :
        /\ booking[e].pc = "reserving" <=> lock = e
        /\ booking[e].pc \in {"prepared", "reserving"} =>
                ~Exists(e) /\ booking[e].duration \in Durations
        /\ booking[e].pc = "reserving" =>
                BookingFits(Calendar(event), reservation, e, booking[e])

\* The same for the extension x.
ExtensionFound(cal, res, x) ==
    LET e == x.event
        w == Longer(cal[e], x.minutes)
    IN  /\ Cardinality(Room(cal, e, w)) < Threshold
        /\ \A f \in Room(cal, e, w) : Assigned[f] \cap Assigned[e] = {}
        /\ \A i \in Items : res[e][i] # None =>
              /\ x.stock[i] \in Nat
              /\ Units(res, i, Held(res, e, i, Longer(res[e][i].window, x.minutes)))
                    + res[e][i].quantity <= x.stock[i]

ExtensionRow ==
    [pc : {"idle", "stored", "persisting", "done"}, event : Events \cup {None},
     minutes : Minutes \cup {None}, rate : Rates \cup {None},
     stock : [Items -> Stocks] \cup {None}]

ExtensionsSound ==
    /\ extension \in [Requests -> ExtensionRow]
    /\ \A r \in Requests :
        /\ extension[r].pc = "persisting" <=> lock = r
        /\ extension[r].pc # "done" => charge[r] = None
        /\ charge[r] # None => r \in evidence
        /\ extension[r].pc \in {"stored", "persisting"} =>
                /\ r \in evidence
                /\ extension[r].event \in Events /\ Exists(extension[r].event)
                /\ extension[r].minutes \in Minutes /\ extension[r].rate \in Rates
        /\ extension[r].pc = "persisting" =>
                ExtensionFound(Calendar(event), reservation, extension[r])

OccupancyInv ==
    /\ RowsTyped /\ EventsSound /\ BookingsSound /\ ExtensionsSound
    /\ ReservationsFollowEvent
    /\ ShowsWithinThreshold /\ CrewsInOnePlace /\ SettledAddsUp
-----------------------------------------------------------------------------
(* Windows.                                                                *)

\* Constants that are numbers.
LEMMA Numbers ==
    /\ Day \in Nat \ {0} /\ Threshold \in Nat
    /\ Durations \subseteq Nat \ {0} /\ Quantities \subseteq Nat \ {0}
    /\ Stocks \subseteq Nat /\ Costs \subseteq Nat
    /\ Minutes \subseteq Nat \ {0} /\ Rates \subseteq Nat \ {0}
    /\ Advance \in Nat \ {0} /\ Due \in Nat
BY ScheduleConstants, OccupancyConstants

LEMMA Names ==
    /\ IsFiniteSet(Events) /\ IsFiniteSet(Requests)
    /\ Events \cap Requests = {} /\ None \notin Events /\ None \notin Requests
    /\ None \notin Int
    /\ Booked \subseteq Events
    /\ None \notin EventRow /\ None \notin ReservationRow
    /\ None \notin ChargeRow /\ None \notin SnapshotRow
BY ScheduleConstants, OccupancyConstants, NoneIsNoRow

LEMMA SlotsOfEvents ==
    ASSUME NEW e \in Events
    PROVE  /\ Slot[e].date \in Nat /\ Slot[e].start \in 0 .. (Day - 1)
           /\ Verified[e] \in Nat /\ Legacy[e] \in Nat
BY OccupancyConstants

LEMMA Remainder ==
    ASSUME NEW d \in Nat \ {0}, NEW q \in Nat, NEW r \in 0 .. (d - 1)
    PROVE  (q * d + r) % d = r
OBVIOUS

LEMMA Days ==
    ASSUME NEW d \in Nat \ {0}, NEW n \in Nat
    PROVE  \E k \in Nat, m \in 0 .. (d - 1) : n = k * d + m
<1> DEFINE k == n \div d
           m == n % d
<1>1. k \in Nat /\ m \in 0 .. (d - 1) /\ n = k * d + m
    OBVIOUS
<1> QED BY <1>1

LEMMA TimesOfDay ==
    ASSUME NEW n \in Nat
    PROVE  TimeOfDay(n) \in 0 .. (Day - 1)
BY Numbers DEF TimeOfDay

\* The time of day of an end, read back with the date and the start, gives the
\* window that was written, but for its whole days.
LEMMA EndIsReadBack ==
    ASSUME NEW date \in Nat, NEW start \in 0 .. (Day - 1), NEW n \in Nat \ {0},
           NEW end, end = TimeOfDay(WindowOf(date, start, n).end), end # start
    PROVE  SameHours(WindowOf(date, start, n), EventWindow(date, start, end), 0)
<1>1. Day \in Nat \ {0}
    BY Numbers
<1>2. PICK k \in Nat, m \in 0 .. (Day - 1) : n = k * Day + m
    BY <1>1, Days
<1> DEFINE base == date * Day
           lost == k * Day
<1>3. base \in Nat /\ lost \in Nat /\ lost % Day = 0
    <2>1. 0 \in 0 .. (Day - 1)
        BY <1>1
    <2>2. (k * Day + 0) % Day = 0
        BY <1>1, <2>1, Remainder
    <2> QED BY <1>1, <2>2
<1>4. (date + k) * Day = base + lost /\ (date + k + 1) * Day = base + lost + Day
    BY <1>1
<1>5. end = (base + start + (lost + m)) % Day
    BY <1>2 DEF TimeOfDay, WindowOf
<1>6. EventWindow(date, start, end) = [start |-> base + start, end |-> base + start + m]
    <2>1. CASE start + m < Day
        <3>1. start + m \in 0 .. (Day - 1)
            BY <1>1, <2>1
        <3>2. ((date + k) * Day + (start + m)) % Day = start + m
            <4> DEFINE q == date + k
                       r == start + m
            <4>1. q \in Nat /\ r \in 0 .. (Day - 1)
                BY <3>1
            <4> HIDE DEF q, r
            <4>2. (q * Day + r) % Day = r
                BY <1>1, <4>1, Remainder
            <4> QED BY <4>2 DEF q, r
        <3>3. end = start + m
            <4> HIDE DEF base, lost
            <4>1. base + start + (lost + m) = (date + k) * Day + (start + m)
                BY <1>1, <1>3, <1>4
            <4> QED BY <1>5, <3>2, <4>1
        <3>4. ~(end < start)
            BY <3>1, <3>3
        <3>5. base + start + (end - start) = base + start + m
            BY <1>1, <1>3, <3>1, <3>3
        <3> QED BY <3>4, <3>5 DEF EventWindow, WindowOf
    <2>2. CASE ~(start + m < Day)
        <3>1. start + m - Day \in 0 .. (Day - 1)
            BY <1>1, <2>2
        <3>2. ((date + k + 1) * Day + (start + m - Day)) % Day = start + m - Day
            <4> DEFINE q == date + k + 1
                       r == start + m - Day
            <4>1. q \in Nat /\ r \in 0 .. (Day - 1)
                BY <3>1
            <4> HIDE DEF q, r
            <4>2. (q * Day + r) % Day = r
                BY <1>1, <4>1, Remainder
            <4> QED BY <4>2 DEF q, r
        <3>3. end = start + m - Day
            <4> HIDE DEF base, lost
            <4>1. base + start + (lost + m) = (date + k + 1) * Day + (start + m - Day)
                BY <1>1, <1>3, <1>4
            <4> QED BY <1>5, <3>2, <4>1
        <3>4. end < start
            BY <1>1, <3>1, <3>3
        <3>5. base + start + (end + Day - start) = base + start + m
            BY <1>1, <1>3, <3>1, <3>3
        <3> QED BY <3>4, <3>5 DEF EventWindow, WindowOf
    <2> QED BY <2>1, <2>2
<1>7. WindowOf(date, start, n) = [start |-> base + start, end |-> base + start + (lost + m)]
    BY <1>2 DEF WindowOf
<1>8. lost + m < Day => lost = 0
    <2>1. lost < Day => lost = 0
        BY <1>1, <1>2
    <2> HIDE DEF lost
    <2> QED BY <1>1, <1>3, <2>1
<1> HIDE DEF base, lost
<1> QED BY <1>1, <1>3, <1>6, <1>7, <1>8 DEF SameHours

LEMMA RequestedWindows ==
    ASSUME NEW e \in Events, NEW n \in Durations
    PROVE  /\ RequestedWindow(e, n) \in Windows
           /\ RequestedWindow(e, n).start < RequestedWindow(e, n).end
<1>1. Slot[e].date * Day \in Nat
    BY Numbers, SlotsOfEvents
<1> QED BY <1>1, Numbers, SlotsOfEvents DEF RequestedWindow, WindowOf, Windows

LEMMA OperationalWindows ==
    ASSUME NEW row \in EventRow, row.end # row.start
    PROVE  /\ OperationalWindow(row) \in Windows
           /\ OperationalWindow(row).start < OperationalWindow(row).end
<1>1. row.date * Day \in Nat
    BY Numbers DEF EventRow
<1>2. /\ row.start \in 0 .. (Day - 1) /\ row.end \in 0 .. (Day - 1)
      /\ row.extra \in Nat /\ Day \in Nat
    BY Numbers DEF EventRow
<1> DEFINE base == row.date * Day
           length == IF row.end < row.start THEN row.end + Day - row.start
                                            ELSE row.end - row.start
<1>3. base \in Nat /\ length \in Nat \ {0}
    BY <1>1, <1>2
<1>4. ScheduledWindow(row) = [start |-> base + row.start, end |-> base + row.start + length]
    BY DEF ScheduledWindow, EventWindow, WindowOf
<1> HIDE DEF base, length
<1>5. OperationalWindow(row) =
        [start |-> base + row.start, end |-> base + row.start + length + row.extra]
    BY <1>4 DEF OperationalWindow
<1> QED BY <1>2, <1>3, <1>5 DEF Windows

SameTimes(row, old) ==
    /\ row.date = old.date /\ row.start = old.start
    /\ row.end = old.end /\ row.extra = old.extra

LEMMA SameWindow ==
    ASSUME NEW row, NEW old, SameTimes(row, old)
    PROVE  OperationalWindow(row) = OperationalWindow(old)
BY DEF SameTimes, OperationalWindow, ScheduledWindow

\* So the window of a new show keeps the hours of the one that was written.
LEMMA HoursReadBack ==
    ASSUME NEW date \in Nat, NEW start \in 0 .. (Day - 1), NEW n \in Nat \ {0},
           NEW w, w = WindowOf(date, start, n),
           NEW row \in EventRow, row.date = date, row.start = start,
           row.end = TimeOfDay(w.end), row.end # row.start, row.extra = 0
    PROVE  /\ OperationalWindow(row) \in Windows
           /\ SameHours(w, OperationalWindow(row), 0)
<1>1. OperationalWindow(row) \in Windows
    BY OperationalWindows
<1> DEFINE s == ScheduledWindow(row)
<1>2. s \in [start : Int, end : Int]
    <2>1. row.date * Day \in Int /\ row.start \in Int /\ row.end \in Int /\ Day \in Int
        BY Numbers DEF EventRow
    <2> QED BY <2>1 DEF ScheduledWindow, EventWindow, WindowOf
<1>3. s = EventWindow(date, start, row.end)
    BY DEF ScheduledWindow
<1>4. OperationalWindow(row) = [s EXCEPT !.end = @ + 0]
    BY DEF OperationalWindow
<1> HIDE DEF s
<1>5. OperationalWindow(row) = s
    <2>1. s.end + 0 = s.end
        BY <1>2
    <2> QED BY <1>2, <1>4, <2>1
<1>6. SameHours(w, s, 0)
    <2>1. row.end = TimeOfDay(WindowOf(date, start, n).end) /\ row.end # start
        OBVIOUS
    <2>2. SameHours(WindowOf(date, start, n), EventWindow(date, start, row.end), 0)
        BY <2>1, EndIsReadBack
    <2> QED BY <1>3, <2>2
<1> QED BY <1>1, <1>5, <1>6

\* What is held as long as its hours stays so with extra minutes.
LEMMA LongerHours ==
    ASSUME NEW held \in Windows, NEW show \in Windows, NEW extra \in Nat, NEW minutes \in Nat,
           SameHours(held, show, extra)
    PROVE  SameHours(Longer(held, minutes), Longer(show, minutes), extra + minutes)
<1>1. /\ Longer(held, minutes) = [start |-> held.start, end |-> held.end + minutes]
      /\ Longer(show, minutes) = [start |-> show.start, end |-> show.end + minutes]
    BY DEF Longer, Windows
<1>2. /\ held.start \in Int /\ held.end \in Int /\ show.start \in Int /\ show.end \in Int
      /\ Day \in Int
    BY Numbers DEF Windows
<1>3. /\ held.start = show.start /\ held.end >= show.end /\ (held.end - show.end) % Day = 0
      /\ held.end - held.start < Day + extra => held = show
    BY DEF SameHours
<1>4. (held.end + minutes) - (show.end + minutes) = held.end - show.end
    BY <1>2
<1>5. held.end + minutes >= show.end + minutes
    BY <1>2, <1>3
<1>6. (held.end + minutes) - held.start < Day + (extra + minutes)
        => held.end - held.start < Day + extra
    BY <1>2
<1> QED BY <1>1, <1>3, <1>4, <1>5, <1>6 DEF SameHours

\* Extra minutes make the window longer.
LEMMA ExtendedWindow ==
    ASSUME NEW row \in EventRow, NEW minutes \in Nat, NEW rate \in Nat
    PROVE  /\ Extended(row, minutes, rate) \in EventRow
           /\ OperationalWindow(Extended(row, minutes, rate))
                = Longer(OperationalWindow(row), minutes)
<1> DEFINE long == Extended(row, minutes, rate)
<1>1. /\ long.extra = row.extra + minutes /\ long.date = row.date
      /\ long.start = row.start /\ long.end = row.end
    BY DEF Extended, EventRow
<1>2. long \in EventRow
    <2>1. /\ row.extra + minutes \in Nat /\ row.extraAmount + rate \in Nat
          /\ row.total + rate \in Nat /\ "EXTENDED" \in EventStatus
        BY DEF EventRow, EventStatus
    <2> QED BY <2>1 DEF Extended, EventRow
<1>3. /\ row.date * Day \in Nat /\ row.start \in 0 .. (Day - 1)
      /\ row.end \in 0 .. (Day - 1) /\ row.extra \in Nat
    BY Numbers DEF EventRow
<1> HIDE DEF long
<1>4. ScheduledWindow(long) = ScheduledWindow(row)
    BY <1>1 DEF ScheduledWindow
<1> DEFINE w == ScheduledWindow(row)
<1>5. w \in [start : Int, end : Int]
    BY <1>3, Numbers DEF ScheduledWindow, EventWindow, WindowOf
<1>6. OperationalWindow(long) = [w EXCEPT !.end = @ + (row.extra + minutes)]
    BY <1>1, <1>4 DEF OperationalWindow
<1>7. OperationalWindow(row) = [w EXCEPT !.end = @ + row.extra]
    BY DEF OperationalWindow
<1> HIDE DEF w
<1>8. OperationalWindow(long) = Longer(OperationalWindow(row), minutes)
    <2>1. OperationalWindow(row) = [start |-> w.start, end |-> w.end + row.extra]
        BY <1>5, <1>7
    <2>2. OperationalWindow(long)
            = [start |-> w.start, end |-> w.end + (row.extra + minutes)]
        BY <1>5, <1>6
    <2>3. w.end + (row.extra + minutes) = (w.end + row.extra) + minutes
        BY <1>3, <1>5
    <2> QED BY <2>1, <2>2, <2>3 DEF Longer
<1> QED BY <1>2, <1>8 DEF long
-----------------------------------------------------------------------------
(* What the actions leave alone.                                           *)

\* Rows that stay keep what is said of them.
LEMMA RowsStay ==
    ASSUME OccupancyInv, UNCHANGED rows
    PROVE  /\ EventsSound' /\ ReservationsFollowEvent'
           /\ ShowsWithinThreshold' /\ CrewsInOnePlace' /\ SettledAddsUp'
           /\ Calendar(event') = Calendar(event)
<1> USE DEF OccupancyInv, rows
<1>1. EventsSound'
    BY DEF EventsSound, Exists
<1>2. ReservationsFollowEvent'
    BY DEF ReservationsFollowEvent, Exists
<1>3. ShowsWithinThreshold'
    BY DEF ShowsWithinThreshold, ShowsAt, Exists
<1>4. CrewsInOnePlace'
    BY DEF CrewsInOnePlace, Exists
<1>5. SettledAddsUp'
    BY DEF SettledAddsUp, MatchesCharges, VerifiedAmount, VerifiedMinutes, ChargesOf, Exists
<1> QED BY <1>1, <1>2, <1>3, <1>4, <1>5

\* Bookings that stay, while the lock goes to or from nobody or an extension.
LEMMA BookingsStay ==
    ASSUME OccupancyInv, UNCHANGED booking,
           \A e \in Events : Exists(e)' <=> Exists(e),
           \A e \in Events : lock' = e <=> lock = e,
           \A e \in Events : lock = e =>
                Calendar(event') = Calendar(event) /\ reservation' = reservation
    PROVE  BookingsSound'
BY DEF OccupancyInv, BookingsSound

LEMMA ExtensionsStay ==
    ASSUME OccupancyInv, UNCHANGED <<extension, charge, evidence>>,
           \A e \in Events : Exists(e) => Exists(e)',
           \A r \in Requests : lock' = r <=> lock = r,
           \A r \in Requests : lock = r =>
                Calendar(event') = Calendar(event) /\ reservation' = reservation
    PROVE  ExtensionsSound'
BY DEF OccupancyInv, ExtensionsSound

\* A row with other columns but the same times is the same show.
EventChanges(e, row) ==
    /\ e \in Events /\ Exists(e)
    /\ row \in EventRow
    /\ SameTimes(row, event[e])
    /\ row.advance = event[e].advance /\ row.overbooked = event[e].overbooked
    /\ row.status # "CANCELLED"
    /\ event' = [event EXCEPT ![e] = row]
    /\ UNCHANGED reservation

LEMMA ShowStays ==
    ASSUME OccupancyInv, NEW e, NEW row, EventChanges(e, row)
    PROVE  /\ event' \in [Events -> EventRow \cup {None}]
           /\ \A f \in Events : Exists(f)' <=> Exists(f)
           /\ \A f \in Events : Exists(f) =>
                    /\ OperationalWindow(event'[f]) = OperationalWindow(event[f])
                    /\ event'[f].overbooked = event[f].overbooked
                    /\ event'[f].extra = event[f].extra
                    /\ event'[f].status # "CANCELLED"
                    /\ event'[f].advance > 0 /\ event'[f].end # event'[f].start
<1> USE DEF EventChanges
<1>1. event \in [Events -> EventRow \cup {None}]
    BY DEF OccupancyInv, RowsTyped
<1>2. row # None
    BY Names
<1>3. \A f \in Events : event'[f] = IF f = e THEN row ELSE event[f]
    BY <1>1
<1>4. \A f \in Events : Exists(f)' <=> Exists(f)
    BY <1>2, <1>3 DEF Exists
<1>5. ASSUME NEW f \in Events, Exists(f)
      PROVE  /\ OperationalWindow(event'[f]) = OperationalWindow(event[f])
             /\ event'[f].overbooked = event[f].overbooked
             /\ event'[f].extra = event[f].extra
             /\ event'[f].status # "CANCELLED"
             /\ event'[f].advance > 0 /\ event'[f].end # event'[f].start
    <2>1. /\ event[f].advance > 0 /\ event[f].status # "CANCELLED"
          /\ event[f].end # event[f].start
        BY <1>5 DEF OccupancyInv, EventsSound
    <2>2. CASE f = e
        <3>1. event'[f] = row
            BY <1>3, <2>2
        <3>2. OperationalWindow(row) = OperationalWindow(event[f])
            BY <2>2, SameWindow
        <3> QED BY <2>1, <2>2, <3>1, <3>2 DEF SameTimes
    <2>3. CASE f # e
        BY <1>3, <2>1, <2>3
    <2> QED BY <2>2, <2>3
<1>6. event' \in [Events -> EventRow \cup {None}]
    BY <1>1
<1> QED BY <1>4, <1>5, <1>6

LEMMA CalendarStays ==
    ASSUME OccupancyInv, NEW e, NEW row, EventChanges(e, row)
    PROVE  /\ EventsSound' /\ ReservationsFollowEvent'
           /\ ShowsWithinThreshold' /\ CrewsInOnePlace'
           /\ Calendar(event') = Calendar(event)
<1>1. /\ \A f \in Events : Exists(f)' <=> Exists(f)
      /\ \A f \in Events : Exists(f) =>
                /\ OperationalWindow(event'[f]) = OperationalWindow(event[f])
                /\ event'[f].overbooked = event[f].overbooked
                /\ event'[f].extra = event[f].extra
                /\ event'[f].status # "CANCELLED"
                /\ event'[f].advance > 0 /\ event'[f].end # event'[f].start
    BY ShowStays
<1>2. UNCHANGED reservation
    BY DEF EventChanges
<1> USE DEF OccupancyInv
<1>3. EventsSound'
    BY <1>1, Names DEF EventsSound
<1>4. ReservationsFollowEvent'
    BY <1>1, <1>2 DEF ReservationsFollowEvent
<1>5. CrewsInOnePlace'
    BY <1>1 DEF CrewsInOnePlace
<1>6. Calendar(event') = Calendar(event)
    <2>1. \A f \in Events : event'[f] # None <=> event[f] # None
        BY <1>1 DEF Exists
    <2>2. \A f \in Events : event[f] # None =>
                OperationalWindow(event'[f]) = OperationalWindow(event[f])
        BY <1>1 DEF Exists
    <2> QED BY <2>1, <2>2 DEF Calendar
<1>7. ShowsWithinThreshold'
    <2>1. \A t : ShowsAt(t)' = ShowsAt(t)
        BY <1>1 DEF ShowsAt, EventsSound, Countable
    <2>2. \A t : \A f \in ShowsAt(t) :
                event'[f].overbooked = event[f].overbooked
        BY <1>1 DEF ShowsAt
    <2> QED BY <1>1, <2>1, <2>2 DEF ShowsWithinThreshold
<1> QED BY <1>3, <1>4, <1>5, <1>6, <1>7
-----------------------------------------------------------------------------
(* Bookings.                                                               *)

\* The booking of e becomes b, and nothing else that the invariant reads
\* changes but the lock and the reviews.
BookingChanges(e, b) ==
    /\ e \in Events
    /\ b \in BookingRow
    /\ booking' = [booking EXCEPT ![e] = b]
    /\ lock' = IF b.pc = "reserving" THEN e ELSE IF lock = e THEN None ELSE lock
    /\ b.pc = "reserving" => lock \in {None, e}
    /\ b.pc \in {"prepared", "reserving"} => ~Exists(e) /\ b.duration \in Durations
    /\ b.pc = "reserving" => BookingFits(Calendar(event), reservation, e, b)
    /\ review' \subseteq Events \ Manual
    /\ UNCHANGED <<rows, staff, evidence, extension>>

\* A step of a booking keeps the invariant, if it does what BookingChanges says.
LEMMA BookingKeepsInv ==
    ASSUME OccupancyInv, NEW e, NEW b, BookingChanges(e, b)
    PROVE  OccupancyInv'
<1> USE DEF BookingChanges
<1>1. UNCHANGED rows
    OBVIOUS
<1>2. /\ EventsSound' /\ ReservationsFollowEvent'
      /\ ShowsWithinThreshold' /\ CrewsInOnePlace' /\ SettledAddsUp'
      /\ Calendar(event') = Calendar(event)
    BY <1>1, RowsStay
<1>3. /\ UNCHANGED <<event, reservation, charge, snapshot, evidence, extension,
                     catalogue, edit>>
      /\ lock \in Events \cup Requests \cup {None}
    BY DEF rows, staff, OccupancyInv, RowsTyped
<1>4. lock' \in Events \cup Requests \cup {None}
    BY <1>3
<1>5. RowsTyped'
    BY <1>3, <1>4 DEF OccupancyInv, RowsTyped
<1>6. BookingsSound'
    <2>1. booking \in [Events -> BookingRow]
        BY DEF OccupancyInv, BookingsSound
    <2>2. booking' \in [Events -> BookingRow]
        BY <2>1
    <2>3. ASSUME NEW f \in Events
          PROVE  /\ booking'[f].pc = "reserving" <=> lock' = f
                 /\ booking'[f].pc \in {"prepared", "reserving"} =>
                        ~Exists(f)' /\ booking'[f].duration \in Durations
                 /\ booking'[f].pc = "reserving" =>
                        BookingFits(Calendar(event'), reservation', f, booking'[f])
        <3>1. Exists(f)' <=> Exists(f)
            BY <1>3 DEF Exists
        <3>2. CASE f = e
            <4>1. booking'[f] = b
                BY <2>1, <3>2
            <4>2. lock' = e <=> b.pc = "reserving"
                BY Names
            <4> QED BY <1>2, <1>3, <3>1, <3>2, <4>1, <4>2
        <3>3. CASE f # e
            <4>1. booking'[f] = booking[f]
                BY <2>1, <3>3
            <4>2. lock' = f <=> lock = f
                BY <3>3, Names
            <4>3. /\ booking[f].pc = "reserving" <=> lock = f
                  /\ booking[f].pc \in {"prepared", "reserving"} =>
                        ~Exists(f) /\ booking[f].duration \in Durations
                  /\ booking[f].pc = "reserving" =>
                        BookingFits(Calendar(event), reservation, f, booking[f])
                BY DEF OccupancyInv, BookingsSound
            <4> QED BY <1>2, <1>3, <3>1, <4>1, <4>2, <4>3
        <3> QED BY <3>2, <3>3
    <2> QED BY <2>2, <2>3 DEF BookingsSound
<1>7. ExtensionsSound'
    <2>1. \A r \in Requests : lock' = r <=> lock = r
        BY Names
    <2>2. \A f \in Events : Exists(f) => Exists(f)'
        BY <1>3 DEF Exists
    <2> QED BY <1>2, <1>3, <2>1, <2>2, ExtensionsStay
<1> QED BY <1>2, <1>5, <1>6, <1>7 DEF OccupancyInv

LEMMA NoBookingIsRow ==
    /\ NoBooking \in BookingRow /\ NoBooking.pc = "idle"
    /\ [NoBooking EXCEPT !.pc = "done"] \in BookingRow
    /\ [NoBooking EXCEPT !.pc = "done"].pc = "done"
BY DEF NoBooking, BookingRow

LEMMA PrepareBudgetKeepsInv ==
    ASSUME OccupancyInv, NEW e \in Events, PrepareBudget(e)
    PROVE  OccupancyInv'
<1> DEFINE b == [booking[e] EXCEPT !.pc = "prepared", !.duration = catalogue.duration]
<1>1. booking[e] \in BookingRow /\ catalogue.duration \in Durations
    BY DEF OccupancyInv, BookingsSound, RowsTyped, Catalogue
<1>2. b \in BookingRow /\ b.pc = "prepared" /\ b.duration = catalogue.duration
    BY <1>1 DEF BookingRow
<1>3. booking' = [booking EXCEPT ![e] = b]
    BY DEF PrepareBudget
<1>4. lock # e
    BY DEF PrepareBudget, OccupancyInv, BookingsSound
<1>5. BookingChanges(e, b)
    <2> HIDE DEF b
    <2>1. review' \subseteq Events \ Manual
        BY DEF PrepareBudget, OccupancyInv, RowsTyped
    <2> QED BY <1>1, <1>2, <1>3, <1>4, <2>1 DEF BookingChanges, PrepareBudget
<1> QED BY <1>5, BookingKeepsInv

LEMMA UnitsAreNat ==
    ASSUME OccupancyInv, NEW e, NEW i \in Items, NEW w
    PROVE  Units(reservation, i, Held(reservation, e, i, w)) \in Nat
<1> DEFINE S == Held(reservation, e, i, w)
<1>1. S \subseteq Events /\ IsFiniteSet(S)
    BY Names, FS_Subset DEF Held
<1>2. [f \in S |-> reservation[f][i].quantity] \in [S -> Nat]
    BY DEF Held, OccupancyInv, RowsTyped, ReservationRow
<1> HIDE DEF S
<1>3. Units(reservation, i, S) \in Nat
    BY <1>1, <1>2, SumIsNat DEF Units
<1> QED BY <1>3 DEF S

\* What is left of a resource, at any time of a window.
LEMMA EnoughIsFree ==
    ASSUME NEW stock \in Nat, NEW q \in Nat \ {0}, NEW units \in Nat,
           Max({0, stock - units}) >= q
    PROVE  units + q <= stock
<1> DEFINE free == stock - units
<1>1. free \in Int
    OBVIOUS
<1>2. Max({0, free}) \in {0, free}
    <2> HIDE DEF free
    <2>1. \E x \in {0, free} : \A y \in {0, free} : x >= y
        BY <1>1
    <2> QED BY <2>1 DEF Max
<1>3. free >= q
    <2>1. Max({0, free}) >= q
        OBVIOUS
    <2> HIDE DEF free
    <2> QED BY <1>1, <1>2, <2>1
<1> QED BY <1>3

\* What the check of availability finds is what the lock then guards.
LEMMA CheckFinds ==
    ASSUME OccupancyInv, NEW e \in Events, ~Exists(e), NEW n \in Durations,
           NEW over \in BOOLEAN, Shortages(RequestedWindow(e, n)) = {},
           over \/ CheckAvailability(RequestedWindow(e, n)) = "AVAILABLE"
    PROVE  /\ Reserving(e, n, over) \in BookingRow
           /\ Reserving(e, n, over).pc = "reserving"
           /\ Reserving(e, n, over).duration = n
           /\ BookingFits(Calendar(event), reservation, e, Reserving(e, n, over))
<1> DEFINE w == RequestedWindow(e, n)
           b == Reserving(e, n, over)
           cal == Calendar(event)
<1>1. /\ catalogue.stock \in [Items -> Stocks]
      /\ catalogue.requires \in [Items -> Quantities]
    BY DEF OccupancyInv, RowsTyped, Catalogue
<1>2. /\ b \in BookingRow /\ b.pc = "reserving" /\ b.duration = n
      /\ b.window = w /\ b.requires = catalogue.requires
      /\ b.stock = catalogue.stock /\ b.overbooked = over
    BY <1>1, RequestedWindows DEF Reserving, BookingRow
<1>3. ASSUME NEW i \in Items
      PROVE  /\ catalogue.stock[i] \in Nat /\ catalogue.requires[i] \in Nat
             /\ Units(reservation, i, Held(reservation, e, i, w))
                    + catalogue.requires[i] <= catalogue.stock[i]
    <2> DEFINE q == catalogue.requires[i]
               stock == catalogue.stock[i]
               S == Held(reservation, e, i, w)
    <2>1. stock \in Nat /\ q \in Nat \ {0}
        BY <1>1, Numbers
    <2>2. IsCovered(stock, Reservations(i, None), [quantity |-> q, window |-> w])
        BY DEF Shortages
    <2>3. reservation[e][i] = None
        BY DEF OccupancyInv, ReservationsFollowEvent
    <2>4. ReservedQuantity(Reservations(i, None), w) = Units(reservation, i, S)
        <3> DEFINE res == Reservations(i, None)
        <3>1. res = [f \in {f \in Events : reservation[f][i] # None}
                        |-> reservation[f][i]]
            BY Names DEF Reservations
        <3>2. {h \in DOMAIN res : Overlaps(res[h].window, w)} = S
            <4> HIDE DEF w
            <4> QED BY <2>3, <3>1 DEF Held
        <3>3. \A h \in S : res[h].quantity = reservation[h][i].quantity
            BY <3>1 DEF Held
        <3> HIDE DEF res, S, w
        <3>4. [h \in {h \in DOMAIN res : Overlaps(res[h].window, w)} |-> res[h].quantity]
                = [f \in S |-> reservation[f][i].quantity]
            BY <3>2, <3>3
        <3> QED BY <3>4 DEF ReservedQuantity, Units, res
    <2>5. Units(reservation, i, S) \in Nat
        <3> HIDE DEF w
        <3> QED BY UnitsAreNat
    <2>6. Max({0, stock - Units(reservation, i, S)}) >= q
        BY <2>2, <2>4 DEF IsCovered, AvailableQuantity
    <2>7. Units(reservation, i, S) + q <= stock
        <3> HIDE DEF stock, q, S
        <3> QED BY <2>1, <2>5, <2>6, EnoughIsFree
    <2> QED BY <2>1, <2>7
<1>4. ~over => Cardinality(Room(cal, e, w)) < Threshold
    <2> SUFFICES ASSUME ~over PROVE Cardinality(Room(cal, e, w)) < Threshold
        OBVIOUS
    <2>1. ~RequiresManualApproval(CountableEvents(w), w)
        BY DEF CheckAvailability
    <2> DEFINE found == CountableEvents(w)
    <2>2. {f \in DOMAIN found : Overlaps(found[f], w)} = Room(cal, e, w)
        <3>1. \A f \in Events : Exists(f) => Countable(event[f])
            BY DEF OccupancyInv, EventsSound, Countable
        <3> HIDE DEF w
        <3> QED BY <3>1 DEF CountableEvents, Room, Calendar, Exists
    <2>3. Cardinality(Room(cal, e, w)) \in Nat
        <3>1. Room(cal, e, w) \in SUBSET Events
            BY DEF Room, Calendar
        <3> QED BY <3>1, Names, FS_Subset, FS_CardinalityType
    <2>4. SimultaneousCount(found, w) = 1 + Cardinality(Room(cal, e, w))
        <3> HIDE DEF w, found, cal
        <3> QED BY <2>2 DEF SimultaneousCount
    <2>5. ~(SimultaneousCount(found, w) > Threshold)
        BY <2>1 DEF RequiresManualApproval
    <2> HIDE DEF w, found, cal
    <2> QED BY <2>3, <2>4, <2>5, Numbers
<1>5. BookingFits(cal, reservation, e, b)
    <2> HIDE DEF b, cal
    <2> QED BY <1>2, <1>3, <1>4 DEF BookingFits
<1> QED BY <1>2, <1>5

LEMMA ConfirmBookingKeepsInv ==
    ASSUME OccupancyInv, NEW e \in Events, NEW approve \in BOOLEAN,
           ConfirmBooking(e, approve)
    PROVE  OccupancyInv'
<1> DEFINE n == catalogue.duration
           w == RequestedWindow(e, n)
           found == CheckAvailability(w)
           admitted == \/ found = "AVAILABLE"
                       \/ approve /\ found = "REQUIRES_MANUAL_APPROVAL"
           over == found # "AVAILABLE"
           b == Reserving(e, n, over)
<1>0. /\ e \notin Manual /\ ~Exists(e) /\ lock = None
      /\ UNCHANGED <<rows, staff, evidence, extension>>
    BY DEF ConfirmBooking
<1>1. n \in Durations
    BY DEF OccupancyInv, RowsTyped, Catalogue
<1>2. review \subseteq Events \ Manual /\ booking \in [Events -> BookingRow]
    BY DEF OccupancyInv, RowsTyped, BookingsSound
<1>3. CASE admitted
    <2>1. /\ booking' = [booking EXCEPT ![e] = b]
          /\ lock' = e /\ review' = review
        BY <1>3 DEF ConfirmBooking
    <2>2. Shortages(w) = {} /\ (over \/ CheckAvailability(w) = "AVAILABLE")
        BY <1>3 DEF CheckAvailability
    <2>3. over \in BOOLEAN
        OBVIOUS
    <2>4. /\ b \in BookingRow /\ b.pc = "reserving" /\ b.duration = n
          /\ BookingFits(Calendar(event), reservation, e, b)
        <3> HIDE DEF over, n
        <3> QED BY <1>0, <1>1, <2>2, <2>3, CheckFinds
    <2>5. BookingChanges(e, b)
        <3> HIDE DEF b, n
        <3> QED BY <1>0, <1>1, <1>2, <2>1, <2>4 DEF BookingChanges
    <2> QED BY <2>5, BookingKeepsInv
<1>4. CASE ~admitted
    <2>1. /\ UNCHANGED <<booking, lock>>
          /\ review' = review \cup {e}
        BY <1>4 DEF ConfirmBooking
    <2> DEFINE c == booking[e]
    <2>2. /\ c \in BookingRow /\ booking' = [booking EXCEPT ![e] = c]
        BY <1>2, <2>1
    <2>3. /\ c.pc # "reserving"
          /\ c.pc \in {"prepared", "reserving"} => c.duration \in Durations
        BY <1>0, Names DEF OccupancyInv, BookingsSound
    <2>4. BookingChanges(e, c)
        <3> HIDE DEF c
        <3> QED BY <1>0, <1>2, <2>1, <2>2, <2>3, Names DEF BookingChanges
    <2> QED BY <2>4, BookingKeepsInv
<1> QED BY <1>3, <1>4

LEMMA CheckManualContractKeepsInv ==
    ASSUME OccupancyInv, NEW e \in Events, CheckManualContract(e)
    PROVE  OccupancyInv'
<1> DEFINE n == booking[e].duration
           w == RequestedWindow(e, n)
           b == Reserving(e, n, FALSE)
<1>0. /\ booking[e].pc = "prepared" /\ lock = None
      /\ UNCHANGED <<rows, staff, evidence, review, extension>>
    BY DEF CheckManualContract
<1>1. n \in Durations /\ ~Exists(e)
    BY <1>0 DEF OccupancyInv, BookingsSound
<1>2. review \subseteq Events \ Manual
    BY DEF OccupancyInv, RowsTyped
<1>3. CASE CheckAvailability(w) = "AVAILABLE"
    <2>1. booking' = [booking EXCEPT ![e] = b] /\ lock' = e
        BY <1>3 DEF CheckManualContract
    <2>2. Shortages(w) = {}
        BY <1>3 DEF CheckAvailability
    <2>3. /\ b \in BookingRow /\ b.pc = "reserving" /\ b.duration = n
          /\ BookingFits(Calendar(event), reservation, e, b)
        <3> HIDE DEF n
        <3> QED BY <1>1, <1>3, <2>2, CheckFinds
    <2>4. BookingChanges(e, b)
        <3> HIDE DEF b, n
        <3> QED BY <1>0, <1>1, <1>2, <2>1, <2>3 DEF BookingChanges
    <2> QED BY <2>4, BookingKeepsInv
<1>4. CASE CheckAvailability(w) # "AVAILABLE"
    <2>1. booking' = [booking EXCEPT ![e] = NoBooking] /\ lock' = lock
        BY <1>4 DEF CheckManualContract
    <2>2. BookingChanges(e, NoBooking)
        BY <1>0, <1>2, <2>1, Names, NoBookingIsRow DEF BookingChanges
    <2> QED BY <2>2, BookingKeepsInv
<1> QED BY <1>3, <1>4

LEMMA AbortBookingKeepsInv ==
    ASSUME OccupancyInv, NEW e \in Events, AbortBooking(e)
    PROVE  OccupancyInv'
<1>1. review \subseteq Events \ Manual
    BY DEF OccupancyInv, RowsTyped
<1>2. BookingChanges(e, NoBooking)
    BY <1>1, NoBookingIsRow DEF AbortBooking, BookingChanges
<1> QED BY <1>2, BookingKeepsInv

-----------------------------------------------------------------------------
(* Extensions that write no row.                                           *)

\* The extension r becomes x, and nothing else that the invariant reads
\* changes but the lock and the files.
ExtensionChanges(r, x) ==
    /\ r \in Requests
    /\ x \in ExtensionRow
    /\ extension' = [extension EXCEPT ![r] = x]
    /\ lock' = IF x.pc = "persisting" THEN r ELSE IF lock = r THEN None ELSE lock
    /\ x.pc = "persisting" => lock \in {None, r}
    /\ x.pc # "done" => charge[r] = None
    /\ evidence' \subseteq Requests /\ \A q \in Requests \ {r} : q \in evidence => q \in evidence'
    /\ charge[r] # None => r \in evidence'
    /\ x.pc \in {"stored", "persisting"} =>
            /\ r \in evidence'
            /\ x.event \in Events /\ Exists(x.event)
            /\ x.minutes \in Minutes /\ x.rate \in Rates
    /\ x.pc = "persisting" => ExtensionFound(Calendar(event), reservation, x)
    /\ UNCHANGED <<rows, staff, review, booking>>

LEMMA ExtensionKeepsInv ==
    ASSUME OccupancyInv, NEW r, NEW x, ExtensionChanges(r, x)
    PROVE  OccupancyInv'
<1> USE DEF ExtensionChanges
<1>1. UNCHANGED rows
    OBVIOUS
<1>2. /\ EventsSound' /\ ReservationsFollowEvent'
      /\ ShowsWithinThreshold' /\ CrewsInOnePlace' /\ SettledAddsUp'
      /\ Calendar(event') = Calendar(event)
    BY <1>1, RowsStay
<1>3. /\ UNCHANGED <<event, reservation, charge, snapshot, review, booking,
                     catalogue, edit>>
      /\ lock \in Events \cup Requests \cup {None}
    BY DEF rows, staff, OccupancyInv, RowsTyped
<1>4. lock' \in Events \cup Requests \cup {None}
    BY <1>3
<1>5. RowsTyped'
    BY <1>3, <1>4 DEF OccupancyInv, RowsTyped
<1>6. BookingsSound'
    <2>1. \A f \in Events : lock' = f <=> lock = f
        BY Names
    <2>2. \A f \in Events : Exists(f)' <=> Exists(f)
        BY <1>3 DEF Exists
    <2> QED BY <1>2, <1>3, <2>1, <2>2, BookingsStay
<1>7. ExtensionsSound'
    <2>1. extension \in [Requests -> ExtensionRow]
        BY DEF OccupancyInv, ExtensionsSound
    <2>2. extension' \in [Requests -> ExtensionRow]
        BY <2>1
    <2>3. ASSUME NEW q \in Requests
          PROVE  /\ extension'[q].pc = "persisting" <=> lock' = q
                 /\ extension'[q].pc # "done" => charge'[q] = None
                 /\ charge'[q] # None => q \in evidence'
                 /\ extension'[q].pc \in {"stored", "persisting"} =>
                        /\ q \in evidence'
                        /\ extension'[q].event \in Events
                        /\ event'[extension'[q].event] # None
                        /\ extension'[q].minutes \in Minutes
                        /\ extension'[q].rate \in Rates
                 /\ extension'[q].pc = "persisting" =>
                        ExtensionFound(Calendar(event'), reservation', extension'[q])
        <3>1. CASE q = r
            <4>1. extension'[q] = x
                BY <2>1, <3>1
            <4>2. lock' = r <=> x.pc = "persisting"
                BY Names
            <4>3. Exists(x.event) <=> event'[x.event] # None
                BY <1>3 DEF Exists
            <4> HIDE DEF Exists
            <4> QED BY <1>2, <1>3, <3>1, <4>1, <4>2, <4>3
        <3>2. CASE q # r
            <4>1. extension'[q] = extension[q]
                BY <2>1, <3>2
            <4>2. lock' = q <=> lock = q
                BY <3>2, Names
            <4>4. /\ extension[q].pc = "persisting" <=> lock = q
                  /\ extension[q].pc # "done" => charge[q] = None
                  /\ charge[q] # None => q \in evidence
                  /\ extension[q].pc \in {"stored", "persisting"} =>
                        /\ q \in evidence
                        /\ extension[q].event \in Events /\ Exists(extension[q].event)
                        /\ extension[q].minutes \in Minutes
                        /\ extension[q].rate \in Rates
                  /\ extension[q].pc = "persisting" =>
                        ExtensionFound(Calendar(event), reservation, extension[q])
                BY DEF OccupancyInv, ExtensionsSound
            <4>5. Exists(extension[q].event) <=> event'[extension'[q].event] # None
                BY <1>3, <4>1 DEF Exists
            <4> QED BY <1>2, <1>3, <3>2, <4>1, <4>2, <4>4, <4>5
        <3> QED BY <3>1, <3>2
    <2> QED BY <2>2, <2>3 DEF ExtensionsSound, Exists
<1> QED BY <1>2, <1>5, <1>6, <1>7 DEF OccupancyInv

LEMMA StoreEvidenceKeepsInv ==
    ASSUME OccupancyInv, NEW r \in Requests, NEW e \in Events,
           NEW minutes \in Minutes, NEW rate \in Rates,
           StoreEvidence(r, e, minutes, rate)
    PROVE  OccupancyInv'
<1> DEFINE x == [pc |-> "stored", event |-> e, minutes |-> minutes, rate |-> rate,
                 stock |-> None]
<1>1. x \in ExtensionRow
    BY DEF ExtensionRow
<1>2. /\ x.pc = "stored" /\ x.event = e /\ x.minutes = minutes /\ x.rate = rate
    OBVIOUS
<1>3. /\ extension' = [extension EXCEPT ![r] = x]
      /\ Exists(e) /\ evidence' = evidence \cup {r}
      /\ UNCHANGED <<rows, staff, review, booking, lock, now>>
      /\ extension[r].pc = "idle"
    BY DEF StoreEvidence
<1>4. lock # r /\ charge[r] = None /\ evidence \subseteq Requests
    BY <1>3 DEF OccupancyInv, ExtensionsSound, RowsTyped
<1> HIDE DEF x
<1>5. ExtensionChanges(r, x)
    BY <1>1, <1>2, <1>3, <1>4 DEF ExtensionChanges
<1> QED BY <1>5, ExtensionKeepsInv

LEMMA DoneIsRow ==
    /\ [NoExtension EXCEPT !.pc = "done"] \in ExtensionRow
    /\ [NoExtension EXCEPT !.pc = "done"].pc = "done"
BY DEF NoExtension, ExtensionRow

\* An extension that ends without rows leaves its file or not.
LEMMA EndKeepsInv ==
    ASSUME OccupancyInv, NEW r \in Requests, EndExtension(r),
           charge[r] = None \/ evidence' = evidence,
           evidence' \in {evidence, evidence \ {r}},
           lock' = IF lock = r THEN None ELSE lock,
           UNCHANGED <<rows, staff, review, booking>>
    PROVE  OccupancyInv'
<1> DEFINE x == [NoExtension EXCEPT !.pc = "done"]
<1>1. evidence \subseteq Requests /\ (charge[r] # None => r \in evidence)
    BY DEF OccupancyInv, RowsTyped, ExtensionsSound
<1>2. /\ x \in ExtensionRow /\ x.pc = "done"
      /\ extension' = [extension EXCEPT ![r] = x]
    BY DoneIsRow DEF EndExtension
<1> HIDE DEF x
<1>3. ExtensionChanges(r, x)
    BY <1>1, <1>2 DEF ExtensionChanges
<1> QED BY <1>3, ExtensionKeepsInv

LEMMA NoRowsYet ==
    ASSUME OccupancyInv, NEW r \in Requests,
           extension[r].pc \in {"idle", "stored", "persisting"}
    PROVE  charge[r] = None
BY DEF OccupancyInv, ExtensionsSound

LEMMA RefuseExtensionKeepsInv ==
    ASSUME OccupancyInv, NEW r \in Requests, RefuseExtension(r)
    PROVE  OccupancyInv'
<1>1. /\ extension[r].pc = "stored" /\ lock = None /\ lock' = lock
      /\ EndExtension(r) /\ evidence' \in {evidence, evidence \ {r}}
      /\ UNCHANGED <<rows, staff, review, booking>>
    BY DEF RefuseExtension
<1>2. charge[r] = None
    BY <1>1, NoRowsYet
<1>3. lock' = IF lock = r THEN None ELSE lock
    BY <1>1
<1> QED BY <1>1, <1>2, <1>3, EndKeepsInv

LEMMA FailExtensionKeepsInv ==
    ASSUME OccupancyInv, NEW r \in Requests, NEW rolledBack \in BOOLEAN,
           FailExtension(r, rolledBack)
    PROVE  OccupancyInv'
<1>1. /\ extension[r].pc = "persisting" /\ lock' = None
      /\ EndExtension(r) /\ evidence' \in {evidence, evidence \ {r}}
      /\ UNCHANGED <<rows, staff, review, booking>>
    BY DEF FailExtension
<1>2. charge[r] = None
    BY <1>1, NoRowsYet
<1>3. lock = r
    BY <1>1 DEF OccupancyInv, ExtensionsSound
<1>4. lock' = IF lock = r THEN None ELSE lock
    BY <1>1, <1>3
<1> QED BY <1>1, <1>2, <1>4, EndKeepsInv

LEMMA CrashExtensionKeepsInv ==
    ASSUME OccupancyInv, NEW r \in Requests, CrashExtension(r)
    PROVE  OccupancyInv'
BY EndKeepsInv DEF CrashExtension

\* What the check of an extension finds is what the lock then guards.
LEMMA ExtensionCheckFinds ==
    ASSUME OccupancyInv, NEW e \in Events, Exists(e), NEW m \in Minutes,
           ExtensionFits(e, m), NEW x,
           x.event = e, x.minutes = m, x.stock = catalogue.stock
    PROVE  ExtensionFound(Calendar(event), reservation, x)
<1> DEFINE cal == Calendar(event)
           w == Longer(OperationalWindow(event[e]), m)
<1>1. cal[e] = OperationalWindow(event[e])
    BY DEF Calendar, Exists
<1>2. catalogue.stock \in [Items -> Stocks]
    BY DEF OccupancyInv, RowsTyped, Catalogue
<1>3. \A f \in Events : Exists(f) => Countable(event[f]) /\ event[f].advance > 0
    BY DEF OccupancyInv, EventsSound, Countable
<1>4. Cardinality(Room(cal, e, w)) < Threshold
    <2> DEFINE found == SimultaneousWindows(e, w)
    <2>1. ~(SimultaneousCount(found, w) > Threshold)
        BY DEF ExtensionFits, RequiresManualApproval
    <2>2. {f \in DOMAIN found : Overlaps(found[f], w)} = Room(cal, e, w)
        <3> HIDE DEF w
        <3>1. DOMAIN CountableEvents(w) =
                {f \in Events : Exists(f) /\ Overlaps(OperationalWindow(event[f]), w)}
            BY <1>3 DEF CountableEvents
        <3>2. \A f \in DOMAIN CountableEvents(w) :
                    CountableEvents(w)[f] = OperationalWindow(event[f])
            BY DEF CountableEvents
        <3>3. DOMAIN found = {f \in DOMAIN CountableEvents(w) : f # e}
            BY <1>3, <3>1 DEF SimultaneousWindows, Restrict
        <3>4. \A f \in DOMAIN found : found[f] = OperationalWindow(event[f])
            BY <3>2, <3>3 DEF SimultaneousWindows, Restrict
        <3> HIDE DEF found
        <3> QED BY <3>1, <3>3, <3>4 DEF Room, Calendar, Exists
    <2>3. Cardinality(Room(cal, e, w)) \in Nat
        <3>1. Room(cal, e, w) \in SUBSET Events
            BY DEF Room, Calendar
        <3> QED BY <3>1, Names, FS_Subset, FS_CardinalityType
    <2>4. SimultaneousCount(found, w) = 1 + Cardinality(Room(cal, e, w))
        <3> HIDE DEF w, found, cal
        <3> QED BY <2>2 DEF SimultaneousCount
    <2> HIDE DEF w, found, cal
    <2> QED BY <2>1, <2>3, <2>4, Numbers
<1>5. \A f \in Room(cal, e, w) : Assigned[f] \cap Assigned[e] = {}
    <2> SUFFICES ASSUME NEW f \in Room(cal, e, w), NEW c \in Assigned[f] \cap Assigned[e]
                 PROVE  FALSE
        OBVIOUS
    <2>1. f \in Events \ {e} /\ Exists(f) /\ Overlaps(OperationalWindow(event[f]), w)
        BY DEF Room, Calendar, Exists
    <2>2. f \in CrewShows(e, c)
        BY <1>3, <2>1 DEF CrewShows
    <2>3. CrewAdmits(e, c, w)
        BY DEF ExtensionFits
    <2> HIDE DEF w
    <2> QED BY <2>1, <2>2, <2>3 DEF CrewAdmits
<1>6. ASSUME NEW i \in Items, reservation[e][i] # None
      PROVE  /\ catalogue.stock[i] \in Nat
             /\ Units(reservation, i,
                      Held(reservation, e, i, Longer(reservation[e][i].window, m)))
                    + reservation[e][i].quantity <= catalogue.stock[i]
    <2> DEFINE q == reservation[e][i].quantity
               stock == catalogue.stock[i]
               v == Longer(reservation[e][i].window, m)
               S == Held(reservation, e, i, v)
    <2>1. stock \in Nat /\ q \in Nat \ {0}
        <3>1. reservation[e][i] \in ReservationRow
            BY <1>6 DEF OccupancyInv, RowsTyped
        <3> QED BY <1>2, <3>1, Numbers DEF ReservationRow
    <2>2. IsCovered(stock, Reservations(i, e), [quantity |-> q, window |-> v])
        BY <1>6 DEF ExtensionFits, InventoryAdmits
    <2>3. ReservedQuantity(Reservations(i, e), v) = Units(reservation, i, S)
        <3> DEFINE res == Reservations(i, e)
        <3>1. res = [f \in {f \in Events \ {e} : reservation[f][i] # None}
                        |-> reservation[f][i]]
            BY DEF Reservations
        <3>2. {h \in DOMAIN res : Overlaps(res[h].window, v)} = S
            <4> HIDE DEF v
            <4> QED BY <3>1 DEF Held
        <3>3. \A h \in S : res[h].quantity = reservation[h][i].quantity
            BY <3>1 DEF Held
        <3> HIDE DEF res, S, v
        <3>4. [h \in {h \in DOMAIN res : Overlaps(res[h].window, v)} |-> res[h].quantity]
                = [f \in S |-> reservation[f][i].quantity]
            BY <3>2, <3>3
        <3> QED BY <3>4 DEF ReservedQuantity, Units, res
    <2> HIDE DEF v
    <2>4. Units(reservation, i, S) \in Nat
        BY UnitsAreNat
    <2>5. Max({0, stock - Units(reservation, i, S)}) >= q
        BY <2>2, <2>3 DEF IsCovered, AvailableQuantity
    <2>6. Units(reservation, i, S) + q <= stock
        <3> HIDE DEF stock, q, S
        <3> QED BY <2>1, <2>4, <2>5, EnoughIsFree
    <2> QED BY <2>1, <2>6 DEF v
<1> HIDE DEF cal
<1> QED BY <1>1, <1>4, <1>5, <1>6 DEF ExtensionFound, cal

LEMMA CheckExtensionKeepsInv ==
    ASSUME OccupancyInv, NEW r \in Requests, CheckExtension(r)
    PROVE  OccupancyInv'
<1> DEFINE x == [extension[r] EXCEPT !.pc = "persisting", !.stock = catalogue.stock]
<1>0. /\ extension[r] \in ExtensionRow /\ catalogue.stock \in [Items -> Stocks]
      /\ evidence \subseteq Requests
    BY DEF OccupancyInv, ExtensionsSound, RowsTyped, Catalogue
<1>1. /\ x \in ExtensionRow /\ x.pc = "persisting" /\ x.event = extension[r].event
      /\ x.minutes = extension[r].minutes /\ x.rate = extension[r].rate
      /\ x.stock = catalogue.stock
    BY <1>0 DEF ExtensionRow
<1>2. /\ extension[r].pc = "stored" /\ lock = None /\ lock' = r
      /\ ExtensionFits(extension[r].event, extension[r].minutes)
      /\ extension' = [extension EXCEPT ![r] = x]
      /\ UNCHANGED <<rows, staff, evidence, review, booking>>
    BY DEF CheckExtension
<1>3. /\ charge[r] = None /\ r \in evidence
      /\ extension[r].event \in Events /\ Exists(extension[r].event)
      /\ extension[r].minutes \in Minutes /\ extension[r].rate \in Rates
    BY <1>2 DEF OccupancyInv, ExtensionsSound
<1> HIDE DEF x
<1>4. ExtensionFound(Calendar(event), reservation, x)
    BY <1>1, <1>2, <1>3, ExtensionCheckFinds
<1>5. Exists(x.event)
    BY <1>1, <1>3 DEF Exists
<1>6. ExtensionChanges(r, x)
    BY <1>0, <1>1, <1>2, <1>3, <1>4, <1>5 DEF ExtensionChanges
<1> QED BY <1>6, ExtensionKeepsInv

-----------------------------------------------------------------------------
(* The staff and the time.                                                 *)

LEMMA StaffKeepsInv ==
    ASSUME OccupancyInv, UNCHANGED <<rows, evidence, review, booking, extension, lock>>,
           catalogue' \in Catalogue,
           edit' \in [item : Items, stock : Stocks] \cup {None}
    PROVE  OccupancyInv'
<1>1. UNCHANGED <<event, reservation, charge, snapshot, evidence, review, booking,
                  extension, lock>>
    BY DEF rows
<1>2. /\ EventsSound' /\ ReservationsFollowEvent'
      /\ ShowsWithinThreshold' /\ CrewsInOnePlace' /\ SettledAddsUp'
      /\ Calendar(event') = Calendar(event)
    BY RowsStay
<1>3. RowsTyped'
    BY <1>1 DEF OccupancyInv, RowsTyped
<1>4. \A e \in Events : Exists(e)' <=> Exists(e)
    BY <1>1 DEF Exists
<1>5. BookingsSound'
    BY <1>1, <1>2, <1>4, BookingsStay
<1>6. ExtensionsSound'
    BY <1>1, <1>2, <1>4, ExtensionsStay
<1> QED BY <1>2, <1>3, <1>5, <1>6 DEF OccupancyInv

LEMMA EditStaffKeepsInv ==
    ASSUME OccupancyInv, EditStaff
    PROVE  OccupancyInv'
<1>0. /\ catalogue \in Catalogue
      /\ edit \in [item : Items, stock : Stocks] \cup {None}
    BY DEF OccupancyInv, RowsTyped
<1>1. CASE \E e \in Events, c \in Crews, m \in Intervals : OverrideInterval(e, c, m)
    BY <1>0, <1>1, StaffKeepsInv DEF OverrideInterval
<1>2. CASE \E d \in Durations, k \in Costs : UpdatePackage(d, k)
    <2>1. PICK d \in Durations, k \in Costs : UpdatePackage(d, k)
        BY <1>2
    <2>2. catalogue' \in Catalogue
        BY <1>0, <2>1 DEF UpdatePackage, Catalogue
    <2> QED BY <1>0, <2>1, <2>2, StaffKeepsInv DEF UpdatePackage
<1>3. CASE \E i \in Items, q \in Quantities : SetRequirements(i, q)
    <2>1. PICK i \in Items, q \in Quantities : SetRequirements(i, q)
        BY <1>3
    <2>2. catalogue' \in Catalogue
        BY <1>0, <2>1 DEF SetRequirements, Catalogue
    <2> QED BY <1>0, <2>1, <2>2, StaffKeepsInv DEF SetRequirements
<1>4. CASE \E i \in Items, n \in Stocks : ReadReserved(i, n)
    BY <1>0, <1>4, StaffKeepsInv DEF ReadReserved
<1>5. CASE UpdateStock
    <2>1. edit.item \in Items /\ edit.stock \in Stocks
        BY <1>0, <1>5 DEF UpdateStock
    <2>2. catalogue' \in Catalogue
        BY <1>0, <1>5, <2>1 DEF UpdateStock, Catalogue
    <2> QED BY <1>5, <2>2, StaffKeepsInv DEF UpdateStock
<1> QED BY <1>1, <1>2, <1>3, <1>4, <1>5 DEF EditStaff

LEMMA TickKeepsInv ==
    ASSUME OccupancyInv, Tick
    PROVE  OccupancyInv'
<1>1. /\ catalogue' = catalogue /\ edit' = edit
      /\ UNCHANGED <<rows, evidence, review, booking, extension, lock>>
    BY DEF Tick, staff
<1>2. /\ catalogue \in Catalogue
      /\ edit \in [item : Items, stock : Stocks] \cup {None}
    BY DEF OccupancyInv, RowsTyped
<1> QED BY <1>1, <1>2, StaffKeepsInv

-----------------------------------------------------------------------------
(* The life of a show.                                                     *)

LEMMA ShowKeepsInv ==
    ASSUME OccupancyInv, NEW e, NEW row, EventChanges(e, row),
           snapshot' \in [Events -> SnapshotRow \cup {None}], SettledAddsUp',
           UNCHANGED <<charge, staff, evidence, review, booking, extension, lock>>
    PROVE  OccupancyInv'
<1>1. /\ EventsSound' /\ ReservationsFollowEvent'
      /\ ShowsWithinThreshold' /\ CrewsInOnePlace'
      /\ Calendar(event') = Calendar(event)
    BY CalendarStays
<1>2. /\ event' \in [Events -> EventRow \cup {None}]
      /\ \A f \in Events : Exists(f)' <=> Exists(f)
    BY ShowStays
<1>3. UNCHANGED <<reservation, catalogue, edit>>
    BY DEF EventChanges, staff
<1>4. RowsTyped'
    BY <1>2, <1>3 DEF OccupancyInv, RowsTyped
<1>5. BookingsSound'
    BY <1>1, <1>2, <1>3, BookingsStay
<1>6. ExtensionsSound'
    BY <1>1, <1>2, <1>3, ExtensionsStay
<1> QED BY <1>1, <1>4, <1>5, <1>6 DEF OccupancyInv

LEMMA ChargesStay ==
    ASSUME NEW e, charge' = charge
    PROVE  /\ VerifiedMinutes(e)' = VerifiedMinutes(e)
           /\ VerifiedAmount(e)' = VerifiedAmount(e)
BY DEF VerifiedMinutes, VerifiedAmount, ChargesOf

\* The settlement of a show says nothing of the others.
LEMMA OthersStaySettled ==
    ASSUME OccupancyInv, NEW e, NEW row, EventChanges(e, row), charge' = charge,
           NEW f \in Events, f # e, snapshot'[f] = snapshot[f]
    PROVE  /\ snapshot'[f] # None <=> Exists(f)' /\ event'[f].status = "SETTLED"
           /\ snapshot'[f] # None =>
                /\ snapshot'[f].revenue
                        = event'[f].advance + event'[f].balance + event'[f].extraAmount
                /\ snapshot'[f].revenue >= event'[f].total
                /\ MatchesCharges(f)'
<1>1. event'[f] = event[f]
    BY DEF OccupancyInv, RowsTyped, EventChanges
<1>2. MatchesCharges(f)' <=> MatchesCharges(f)
    BY <1>1, ChargesStay DEF MatchesCharges
<1>3. /\ snapshot[f] # None <=> Exists(f) /\ event[f].status = "SETTLED"
      /\ snapshot[f] # None =>
            /\ snapshot[f].revenue
                    = event[f].advance + event[f].balance + event[f].extraAmount
            /\ snapshot[f].revenue >= event[f].total
            /\ MatchesCharges(f)
    BY DEF OccupancyInv, SettledAddsUp
<1> QED BY <1>1, <1>2, <1>3 DEF Exists

\* A show that is not settled, before and after.
LEMMA UnsettledKeepsInv ==
    ASSUME OccupancyInv, NEW e, NEW row, EventChanges(e, row),
           event[e].status # "SETTLED", row.status # "SETTLED",
           UNCHANGED <<charge, snapshot, staff, evidence, review, booking, extension, lock>>
    PROVE  OccupancyInv'
<1>1. snapshot[e] = None /\ snapshot \in [Events -> SnapshotRow \cup {None}]
    BY DEF OccupancyInv, SettledAddsUp, RowsTyped, EventChanges
<1>2. event'[e] = row
    BY DEF OccupancyInv, RowsTyped, EventChanges
<1>3. SettledAddsUp'
    <2> SUFFICES ASSUME NEW f \in Events
                 PROVE  /\ snapshot'[f] # None <=> Exists(f)' /\ event'[f].status = "SETTLED"
                        /\ snapshot'[f] # None =>
                            /\ snapshot'[f].revenue = event'[f].advance
                                    + event'[f].balance + event'[f].extraAmount
                            /\ snapshot'[f].revenue >= event'[f].total
                            /\ MatchesCharges(f)'
        BY DEF SettledAddsUp
    <2>1. CASE f = e
        BY <1>1, <1>2, <2>1
    <2>2. CASE f # e
        BY <2>2, OthersStaySettled
    <2> QED BY <2>1, <2>2
<1> QED BY <1>1, <1>3, ShowKeepsInv

LEMMA ScheduleEventKeepsInv ==
    ASSUME OccupancyInv, NEW e \in Events, ScheduleEvent(e)
    PROVE  OccupancyInv'
<1> DEFINE row == [event[e] EXCEPT !.status = "SCHEDULED"]
<1>1. /\ Exists(e) /\ event[e].status = "AWAITING_SIGNATURE"
      /\ event' = [event EXCEPT ![e] = row]
      /\ UNCHANGED <<reservation, charge, snapshot, staff, evidence, review, booking,
                     extension, lock>>
    BY DEF ScheduleEvent
<1>2. event[e] \in EventRow
    BY <1>1 DEF OccupancyInv, RowsTyped, Exists
<1>3. /\ row \in EventRow /\ SameTimes(row, event[e])
      /\ row.advance = event[e].advance /\ row.overbooked = event[e].overbooked
      /\ row.status = "SCHEDULED"
    BY <1>2 DEF EventRow, EventStatus, SameTimes
<1> HIDE DEF row
<1>4. EventChanges(e, row)
    BY <1>1, <1>3 DEF EventChanges
<1> QED BY <1>1, <1>3, <1>4, UnsettledKeepsInv

LEMMA StartEventKeepsInv ==
    ASSUME OccupancyInv, NEW e \in Events, StartEvent(e)
    PROVE  OccupancyInv'
<1> DEFINE row == [event[e] EXCEPT !.status = "IN_PROGRESS", !.balance = Verified[e]]
<1>1. /\ Exists(e) /\ event[e].status \in {"SCHEDULED", "AWAITING_BALANCE"}
      /\ event' = [event EXCEPT ![e] = row]
      /\ UNCHANGED <<reservation, charge, snapshot, staff, evidence, review, booking,
                     extension, lock>>
    BY DEF StartEvent
<1>2. event[e] \in EventRow /\ Verified[e] \in Nat
    BY <1>1, SlotsOfEvents DEF OccupancyInv, RowsTyped, Exists
<1>3. /\ row \in EventRow /\ SameTimes(row, event[e])
      /\ row.advance = event[e].advance /\ row.overbooked = event[e].overbooked
      /\ row.status = "IN_PROGRESS"
    BY <1>2 DEF EventRow, EventStatus, SameTimes
<1> HIDE DEF row
<1>4. EventChanges(e, row)
    BY <1>1, <1>3 DEF EventChanges
<1> QED BY <1>1, <1>3, <1>4, UnsettledKeepsInv

LEMMA VerifiedAmountIsNat ==
    ASSUME OccupancyInv, NEW e
    PROVE  VerifiedAmount(e) \in Nat
<1>1. ChargesOf(e) \subseteq Requests /\ IsFiniteSet(ChargesOf(e))
    BY Names, FS_Subset DEF ChargesOf
<1>2. [r \in ChargesOf(e) |-> charge[r].rate] \in [ChargesOf(e) -> Nat]
    BY Numbers DEF ChargesOf, OccupancyInv, RowsTyped, ChargeRow
<1> QED BY <1>1, <1>2, SumIsNat DEF VerifiedAmount

LEMMA SettleEventKeepsInv ==
    ASSUME OccupancyInv, NEW e \in Events, SettleEvent(e)
    PROVE  OccupancyInv'
<1> DEFINE row == [event[e] EXCEPT !.status = "SETTLED"]
           snap == [revenue |-> Collected(e), package |-> catalogue.cost]
<1>1. /\ Exists(e) /\ MatchesCharges(e) /\ Collected(e) >= event[e].total
      /\ event' = [event EXCEPT ![e] = row]
      /\ snapshot' = [snapshot EXCEPT ![e] = snap]
      /\ UNCHANGED <<reservation, charge, staff, evidence, review, booking,
                     extension, lock>>
    BY DEF SettleEvent
<1>2. /\ event[e] \in EventRow /\ catalogue.cost \in Nat
      /\ snapshot \in [Events -> SnapshotRow \cup {None}]
      /\ event \in [Events -> EventRow \cup {None}]
    BY <1>1, Numbers DEF OccupancyInv, RowsTyped, Exists, Catalogue
<1>3. /\ row \in EventRow /\ SameTimes(row, event[e])
      /\ row.advance = event[e].advance /\ row.overbooked = event[e].overbooked
      /\ row.status = "SETTLED" /\ row.balance = event[e].balance
      /\ row.extraAmount = event[e].extraAmount /\ row.total = event[e].total
      /\ row.legacy = event[e].legacy /\ row.extra = event[e].extra
    BY <1>2 DEF EventRow, EventStatus, SameTimes
<1>4. /\ Collected(e) = event[e].advance + event[e].balance + event[e].extraAmount
      /\ Collected(e) \in Nat
    <2>1. VerifiedAmount(e) \in Nat
        BY VerifiedAmountIsNat
    <2>2. /\ event[e].advance \in Nat /\ event[e].balance \in Nat
          /\ event[e].legacy \in Nat /\ event[e].extraAmount \in Nat
        BY <1>2 DEF EventRow
    <2>3. event[e].legacy + VerifiedAmount(e) = event[e].extraAmount
        BY <1>1 DEF MatchesCharges
    <2> QED BY <2>1, <2>2, <2>3 DEF Collected
<1>5. snap \in SnapshotRow /\ snap # None /\ snap.revenue = Collected(e)
    BY <1>2, <1>4, Names DEF SnapshotRow
<1> HIDE DEF row, snap
<1>6. EventChanges(e, row)
    BY <1>1, <1>3 DEF EventChanges
<1>7. snapshot' \in [Events -> SnapshotRow \cup {None}]
    BY <1>1, <1>2, <1>5
<1>8. SettledAddsUp'
    <2> SUFFICES ASSUME NEW f \in Events
                 PROVE  /\ snapshot'[f] # None <=> Exists(f)' /\ event'[f].status = "SETTLED"
                        /\ snapshot'[f] # None =>
                            /\ snapshot'[f].revenue = event'[f].advance
                                    + event'[f].balance + event'[f].extraAmount
                            /\ snapshot'[f].revenue >= event'[f].total
                            /\ MatchesCharges(f)'
        BY DEF SettledAddsUp
    <2>1. CASE f = e
        <3>1. snapshot'[f] = snap /\ event'[f] = row
            BY <1>1, <1>2, <2>1
        <3>2. Exists(f)'
            BY <1>3, <3>1, Names DEF Exists
        <3>3. MatchesCharges(f)'
            BY <1>1, <1>3, <2>1, <3>1, ChargesStay DEF MatchesCharges
        <3> QED BY <1>1, <1>3, <1>4, <1>5, <2>1, <3>1, <3>2, <3>3
    <2>2. CASE f # e
        <3>1. snapshot'[f] = snapshot[f]
            BY <1>1, <1>2, <2>2
        <3> QED BY <1>1, <1>6, <2>2, <3>1, OthersStaySettled
    <2> QED BY <2>1, <2>2
<1> QED BY <1>1, <1>6, <1>7, <1>8, ShowKeepsInv

-----------------------------------------------------------------------------
(* Rows that are written under the lock.                                   *)

\* The show e takes the window w from now on, which has room for it.
TakesWindow(e, row, w) ==
    /\ e \in Events
    /\ row \in EventRow /\ row.end # row.start
    /\ row.advance > 0 /\ row.status # "CANCELLED"
    /\ OperationalWindow(row) = w
    /\ w \in Windows
    /\ Exists(e) => \A t \in Int : Covers(OperationalWindow(event[e]), t) => Covers(w, t)
    /\ row.overbooked \/ Cardinality(Room(Calendar(event), e, w)) < Threshold
    /\ \A f \in Room(Calendar(event), e, w) : Assigned[e] \cap Assigned[f] = {}
    /\ event' = [event EXCEPT ![e] = row]

LEMMA RowsAfter ==
    ASSUME OccupancyInv, NEW e, NEW row, NEW w, TakesWindow(e, row, w)
    PROVE  /\ event' \in [Events -> EventRow \cup {None}]
           /\ event'[e] = row /\ Exists(e)'
           /\ \A f \in Events \ {e} : event'[f] = event[f] /\ (Exists(f)' <=> Exists(f))
<1>1. event \in [Events -> EventRow \cup {None}] /\ row # None
    BY Names DEF TakesWindow, OccupancyInv, RowsTyped
<1> QED BY <1>1 DEF TakesWindow, Exists

\* Whoever takes a window keeps the threshold of shows,
LEMMA ThresholdKept ==
    ASSUME OccupancyInv, NEW e, NEW row, NEW w, TakesWindow(e, row, w)
    PROVE  ShowsWithinThreshold'
<1> DEFINE room == Room(Calendar(event), e, w)
<1>1. /\ event'[e] = row /\ Exists(e)'
      /\ \A f \in Events \ {e} : event'[f] = event[f] /\ (Exists(f)' <=> Exists(f))
    BY RowsAfter
<1>2. /\ e \in Events /\ row.status # "CANCELLED" /\ OperationalWindow(row) = w
      /\ w \in Windows
      /\ Exists(e) => \A t \in Int : Covers(OperationalWindow(event[e]), t) => Covers(w, t)
      /\ row.overbooked \/ Cardinality(room) < Threshold
    BY DEF TakesWindow
<1> SUFFICES ASSUME NEW g \in Events, Exists(g)',
                    NEW t \in Instants(OperationalWindow(event'[g])),
                    Cardinality(ShowsAt(t)') > Threshold
             PROVE  \E f \in ShowsAt(t)' : event'[f].overbooked
    BY DEF ShowsWithinThreshold
<1>3. /\ t \in Int
      /\ g # e => event'[g] = event[g] /\ Exists(g) /\ t \in Instants(OperationalWindow(event[g]))
      /\ g = e => t \in Instants(w)
    BY <1>1, <1>2 DEF Instants
<1>4. CASE Covers(w, t)
    <2>1. e \in ShowsAt(t)'
        BY <1>1, <1>2, <1>4 DEF ShowsAt, Countable
    <2>2. CASE row.overbooked
        BY <1>1, <2>1, <2>2
    <2>3. CASE ~row.overbooked
        <3>1. ShowsAt(t)' \subseteq room \cup {e}
            <4> SUFFICES ASSUME NEW f \in ShowsAt(t)', f # e
                         PROVE  f \in room
                OBVIOUS
            <4>1. /\ f \in Events /\ Exists(f) /\ event'[f] = event[f]
                  /\ Covers(OperationalWindow(event[f]), t)
                BY <1>1 DEF ShowsAt
            <4> DEFINE v == OperationalWindow(event[f])
            <4>2. v \in Windows
                BY <4>1, OperationalWindows
                    DEF OccupancyInv, RowsTyped, EventsSound, Exists
            <4>3. Overlaps(v, w)
                <5>1. Covers(v, t)
                    BY <4>1
                <5> HIDE DEF v
                <5> QED BY <1>2, <1>3, <1>4, <4>2, <5>1 DEF Overlaps, Covers, Windows
            <4> QED BY <4>1, <4>3 DEF Room, Calendar, Exists
        <3>2. IsFiniteSet(room) /\ Cardinality(room) \in Nat
            <4>1. room \in SUBSET Events
                BY DEF Room, Calendar
            <4> HIDE DEF room
            <4> QED BY <4>1, Names, FS_Subset, FS_CardinalityType
        <3>5. Cardinality(room) < Threshold
            BY <1>2, <2>3
        <3> HIDE DEF room
        <3>3. /\ IsFiniteSet(room \cup {e})
              /\ Cardinality(room \cup {e}) <= Threshold
            <4>1. /\ IsFiniteSet(room \cup {e})
                  /\ Cardinality(room \cup {e})
                        = IF e \in room THEN Cardinality(room) ELSE Cardinality(room) + 1
                BY <3>2, FS_AddElement
            <4> QED BY <3>2, <3>5, <4>1, Numbers
        <3>4. Cardinality(ShowsAt(t)') <= Cardinality(room \cup {e})
            BY <3>1, <3>3, FS_Subset
        <3>6. Cardinality(ShowsAt(t)') \in Nat /\ Cardinality(room \cup {e}) \in Nat
            BY <3>1, <3>3, FS_Subset, FS_CardinalityType
        <3> QED BY <3>3, <3>4, <3>6, Numbers
    <2> QED BY <2>2, <2>3
<1>5. CASE ~Covers(w, t)
    <2>1. ShowsAt(t)' = ShowsAt(t)
        <3>1. e \notin ShowsAt(t)' /\ e \notin ShowsAt(t)
            BY <1>1, <1>2, <1>3, <1>5 DEF ShowsAt
        <3>2. \A f \in Events \ {e} : f \in ShowsAt(t)' <=> f \in ShowsAt(t)
            BY <1>1 DEF ShowsAt
        <3>3. ShowsAt(t)' \subseteq Events /\ ShowsAt(t) \subseteq Events
            BY DEF ShowsAt
        <3> QED BY <3>1, <3>2, <3>3
    <2>2. e \notin ShowsAt(t)
        BY <1>2, <1>3, <1>5 DEF ShowsAt
    <2>3. \E f \in ShowsAt(t) : event[f].overbooked
        <3>1. g # e
            BY <1>2, <1>3, <1>5 DEF Instants, Covers, Windows
        <3> QED BY <1>3, <2>1, <3>1 DEF OccupancyInv, ShowsWithinThreshold
    <2>4. PICK f \in ShowsAt(t) : event[f].overbooked
        BY <2>3
    <2>5. f \in Events \ {e}
        BY <2>2, <2>4 DEF ShowsAt
    <2> QED BY <1>1, <2>1, <2>4, <2>5
<1> QED BY <1>4, <1>5

\* and leaves every crew in one place.
LEMMA CrewsKept ==
    ASSUME OccupancyInv, NEW e, NEW row, NEW w, TakesWindow(e, row, w)
    PROVE  CrewsInOnePlace'
<1>1. /\ event'[e] = row /\ Exists(e)'
      /\ \A f \in Events \ {e} : event'[f] = event[f] /\ (Exists(f)' <=> Exists(f))
    BY RowsAfter
<1>2. /\ e \in Events /\ OperationalWindow(row) = w
      /\ \A f \in Room(Calendar(event), e, w) : Assigned[e] \cap Assigned[f] = {}
    BY DEF TakesWindow
<1>3. ASSUME NEW f \in Events \ {e}, Exists(f)', Overlaps(OperationalWindow(event'[f]), w)
      PROVE  Assigned[e] \cap Assigned[f] = {}
    <2>1. f \in Room(Calendar(event), e, w)
        BY <1>1, <1>3 DEF Room, Calendar, Exists
    <2> QED BY <1>2, <2>1
<1>4. \A v, u : Overlaps(v, u) <=> Overlaps(u, v)
    BY DEF Overlaps
<1> SUFFICES ASSUME NEW f \in Events, NEW g \in Events, Exists(f)', Exists(g)', f # g,
                    Overlaps(OperationalWindow(event'[f]), OperationalWindow(event'[g]))
             PROVE  Assigned[f] \cap Assigned[g] = {}
    BY DEF CrewsInOnePlace
<1>5. CASE f = e
    BY <1>1, <1>2, <1>3, <1>4, <1>5
<1>6. CASE g = e
    BY <1>1, <1>2, <1>3, <1>6
<1>7. CASE f # e /\ g # e
    BY <1>1, <1>7 DEF OccupancyInv, CrewsInOnePlace
<1> QED BY <1>5, <1>6, <1>7

LEMMA EventsSoundAfter ==
    ASSUME OccupancyInv, NEW e, NEW row, NEW w, TakesWindow(e, row, w)
    PROVE  EventsSound'
<1>1. /\ event'[e] = row /\ Exists(e)'
      /\ \A f \in Events \ {e} : event'[f] = event[f] /\ (Exists(f)' <=> Exists(f))
    BY RowsAfter
<1>2. /\ \A f \in Booked : Exists(f)
      /\ \A f \in Events : Exists(f) =>
            /\ event[f].advance > 0 /\ event[f].status # "CANCELLED"
            /\ event[f].end # event[f].start
    BY DEF OccupancyInv, EventsSound
<1>3. /\ row.advance > 0 /\ row.status # "CANCELLED" /\ row.end # row.start
    BY DEF TakesWindow
<1> SUFFICES /\ \A f \in Booked : Exists(f)'
             /\ \A f \in Events : Exists(f)' =>
                    /\ event'[f].advance > 0 /\ event'[f].status # "CANCELLED"
                    /\ event'[f].end # event'[f].start
    BY DEF EventsSound
<1>4. \A f \in Booked : Exists(f)'
    BY <1>1, <1>2, Names
<1>5. ASSUME NEW f \in Events, Exists(f)'
      PROVE  /\ event'[f].advance > 0 /\ event'[f].status # "CANCELLED"
             /\ event'[f].end # event'[f].start
    <2>1. CASE f = e
        BY <1>1, <1>3, <2>1
    <2>2. CASE f # e
        <3>1. event'[f] = event[f] /\ Exists(f)
            BY <1>1, <1>5, <2>2
        <3> QED BY <1>2, <3>1
    <2> QED BY <2>1, <2>2
<1> QED BY <1>4, <1>5

\* Who has room for a window has room for a part of it.
LEMMA PartHasRoom ==
    ASSUME OccupancyInv, NEW e \in Events, NEW v \in Windows, NEW w \in Windows,
           v.start = w.start, v.end <= w.end
    PROVE  Cardinality(Room(Calendar(event), e, v)) <= Cardinality(Room(Calendar(event), e, w))
<1>1. Room(Calendar(event), e, v) \subseteq Room(Calendar(event), e, w)
    <2> SUFFICES ASSUME NEW f \in Room(Calendar(event), e, v)
                 PROVE  f \in Room(Calendar(event), e, w)
        OBVIOUS
    <2> DEFINE u == OperationalWindow(event[f])
    <2>1. /\ f \in Events \ {e} /\ Exists(f) /\ Calendar(event)[f] = u
          /\ f \in DOMAIN Calendar(event) /\ Overlaps(u, v)
        BY DEF Room, Calendar, Exists
    <2>2. u \in Windows
        BY <2>1, OperationalWindows DEF OccupancyInv, RowsTyped, EventsSound, Exists
    <2>3. Overlaps(u, w)
        <3> HIDE DEF u
        <3> QED BY <2>1, <2>2 DEF Overlaps, Windows
    <2> HIDE DEF u
    <2> QED BY <2>1, <2>3 DEF Room
<1>2. IsFiniteSet(Room(Calendar(event), e, w))
    <2>1. Room(Calendar(event), e, w) \in SUBSET Events
        BY DEF Room, Calendar
    <2> QED BY <2>1, Names, FS_Subset
<1> QED BY <1>1, <1>2, FS_Subset

\* A contract that becomes final takes the window of its show,
LEMMA FinalizeTakesWindow ==
    ASSUME OccupancyInv, NEW e \in Events, Finalize(e)
    PROVE  /\ TakesWindow(e, NewEvent(e), OperationalWindow(NewEvent(e)))
           /\ SameHours(booking[e].window, OperationalWindow(NewEvent(e)), NewEvent(e).extra)
           /\ booking[e].window \in Windows
           /\ ~Exists(e) /\ lock = e
           /\ BookingFits(Calendar(event), reservation, e, booking[e])
           /\ NewEvent(e).status = "AWAITING_SIGNATURE"
<1> DEFINE b == booking[e]
           w == RequestedWindow(e, b.duration)
           row == NewEvent(e)
           show == OperationalWindow(row)
<1>1. /\ ~Exists(e) /\ lock = e /\ b.duration \in Durations
      /\ BookingFits(Calendar(event), reservation, e, b)
    BY DEF Finalize, OccupancyInv, BookingsSound
<1>2. /\ b.window = w /\ b.overbooked \in BOOLEAN
      /\ ~b.overbooked => Cardinality(Room(Calendar(event), e, w)) < Threshold
    BY <1>1 DEF BookingFits
<1>3. /\ Slot[e].date \in Nat /\ Slot[e].start \in 0 .. (Day - 1)
      /\ b.duration \in Nat \ {0}
    BY <1>1, SlotsOfEvents, Numbers
<1>4. w \in Windows /\ w = WindowOf(Slot[e].date, Slot[e].start, b.duration)
    BY <1>1, RequestedWindows DEF RequestedWindow
<1>5. /\ row.status = "AWAITING_SIGNATURE" /\ row.date = Slot[e].date
      /\ row.start = Slot[e].start /\ row.end = TimeOfDay(w.end) /\ row.extra = 0
      /\ row.advance = Advance /\ row.overbooked = b.overbooked
      /\ row.end # row.start
    BY <1>2 DEF NewEvent, Finalize, HasHours
<1>6. row \in EventRow
    <2>1. TimeOfDay(b.window.end) \in 0 .. (Day - 1)
        BY <1>2, <1>4, TimesOfDay DEF Windows
    <2>2. "AWAITING_SIGNATURE" \in EventStatus
        BY DEF EventStatus
    <2> QED BY <1>2, <1>3, <2>1, <2>2, Numbers DEF NewEvent, EventRow
<1>7. show \in Windows /\ SameHours(w, show, 0)
    BY <1>3, <1>4, <1>5, <1>6, HoursReadBack
<1>8. Cardinality(Room(Calendar(event), e, show)) <= Cardinality(Room(Calendar(event), e, w))
    <2>1. show.start = w.start /\ show.end <= w.end
        <3> HIDE DEF show, w
        <3> QED BY <1>4, <1>7 DEF SameHours, Windows
    <2> HIDE DEF show, w
    <2> QED BY <1>4, <1>7, <2>1, PartHasRoom
<1>9. event' = [event EXCEPT ![e] = row]
    BY DEF Finalize
<1>10. Assigned[e] = {}
    <2>1. e \in Events \ Booked
        BY <1>1 DEF OccupancyInv, EventsSound
    <2> QED BY <2>1, OccupancyConstants
<1> HIDE DEF row, w, show
<1>11. row.overbooked \/ Cardinality(Room(Calendar(event), e, show)) < Threshold
    <2>1. /\ Cardinality(Room(Calendar(event), e, show)) \in Nat
          /\ Cardinality(Room(Calendar(event), e, w)) \in Nat
        <3>1. /\ Room(Calendar(event), e, show) \in SUBSET Events
              /\ Room(Calendar(event), e, w) \in SUBSET Events
            BY DEF Room, Calendar
        <3> QED BY <3>1, Names, FS_Subset, FS_CardinalityType
    <2> QED BY <1>2, <1>5, <1>8, <2>1, Numbers
<1>12. row.advance > 0 /\ row.status # "CANCELLED"
    BY <1>5, Numbers
<1>13. TakesWindow(e, row, show)
    BY <1>1, <1>5, <1>6, <1>7, <1>9, <1>10, <1>11, <1>12 DEF TakesWindow, show
<1> QED BY <1>1, <1>2, <1>4, <1>5, <1>7, <1>13 DEF row, show

\* The contract becomes final.
LEMMA FinalizeKeepsInv ==
    ASSUME OccupancyInv, NEW e \in Events, Finalize(e)
    PROVE  OccupancyInv'
<1> DEFINE w == booking[e].window
           row == NewEvent(e)
           show == OperationalWindow(row)
           new == [i \in Items |-> [quantity |-> catalogue.requires[i], window |-> w]]
           b == [NoBooking EXCEPT !.pc = "done"]
<1>1. /\ TakesWindow(e, row, show) /\ ~Exists(e) /\ lock = e
      /\ row.status = "AWAITING_SIGNATURE"
      /\ w \in Windows /\ SameHours(w, show, row.extra)
    BY FinalizeTakesWindow
<1>2. /\ reservation' = [reservation EXCEPT ![e] = new]
      /\ booking' = [booking EXCEPT ![e] = b]
      /\ review' = review \ {e} /\ lock' = None
      /\ UNCHANGED <<staff, charge, evidence, snapshot, extension>>
    BY DEF Finalize
<1>3. b \in BookingRow /\ b.pc = "done"
    BY NoBookingIsRow
<1>5. new \in [Items -> ReservationRow] /\ \A i \in Items : new[i].window = w
    <2>1. catalogue.requires \in [Items -> Nat \ {0}]
        BY Numbers DEF OccupancyInv, RowsTyped, Catalogue
    <2> HIDE DEF w
    <2> QED BY <1>1, <2>1 DEF ReservationRow, Windows
<1>4. show = OperationalWindow(row)
    OBVIOUS
<1> HIDE DEF w, row, show, new, b
<1>6. /\ event' \in [Events -> EventRow \cup {None}]
      /\ event'[e] = row /\ Exists(e)'
      /\ \A f \in Events \ {e} : event'[f] = event[f] /\ (Exists(f)' <=> Exists(f))
    BY <1>1, RowsAfter
<1>7. /\ reservation \in [Events -> [Items -> ReservationRow \cup {None}]]
      /\ snapshot \in [Events -> SnapshotRow \cup {None}]
      /\ booking \in [Events -> BookingRow]
    BY DEF OccupancyInv, RowsTyped, BookingsSound
<1>8. /\ reservation' \in [Events -> [Items -> ReservationRow \cup {None}]]
      /\ reservation'[e] = new
      /\ \A f \in Events \ {e} : reservation'[f] = reservation[f]
    BY <1>2, <1>5, <1>7
<1>9. RowsTyped'
    BY <1>2, <1>6, <1>8 DEF OccupancyInv, RowsTyped, staff
<1>10. EventsSound'
    BY <1>1, EventsSoundAfter
<1>11. ShowsWithinThreshold'
    BY <1>1, ThresholdKept
<1>12. CrewsInOnePlace'
    BY <1>1, CrewsKept
<1>13. ReservationsFollowEvent'
    <2> SUFFICES ASSUME NEW f \in Events, NEW i \in Items, reservation'[f][i] # None
                 PROVE  /\ Exists(f)'
                        /\ SameHours(reservation'[f][i].window,
                                     OperationalWindow(event'[f]), event'[f].extra)
        BY DEF ReservationsFollowEvent
    <2>1. CASE f = e
        BY <1>1, <1>4, <1>5, <1>6, <1>8, <2>1
    <2>2. CASE f # e
        BY <1>6, <1>8, <2>2 DEF OccupancyInv, ReservationsFollowEvent
    <2> QED BY <2>1, <2>2
<1>14. BookingsSound'
    <2>1. booking' \in [Events -> BookingRow]
        BY <1>2, <1>3, <1>7
    <2>2. ASSUME NEW f \in Events
          PROVE  /\ booking'[f].pc # "reserving"
                 /\ booking'[f].pc \in {"prepared", "reserving"} =>
                        ~Exists(f)' /\ booking'[f].duration \in Durations
        <3>1. CASE f = e
            BY <1>2, <1>3, <1>7, <3>1
        <3>2. CASE f # e
            <4>1. booking'[f] = booking[f]
                BY <1>2, <1>7, <3>2
            <4>2. /\ booking[f].pc = "reserving" <=> lock = f
                  /\ booking[f].pc \in {"prepared", "reserving"} =>
                        ~Exists(f) /\ booking[f].duration \in Durations
                BY DEF OccupancyInv, BookingsSound
            <4> QED BY <1>1, <1>6, <3>2, <4>1, <4>2
        <3> QED BY <3>1, <3>2
    <2> QED BY <1>2, <2>1, <2>2, Names DEF BookingsSound
<1>15. ExtensionsSound'
    <2>1. \A r \in Requests : (lock' = r <=> lock = r) /\ lock # r
        BY <1>1, <1>2, Names
    <2>2. \A f \in Events : Exists(f) => Exists(f)'
        BY <1>6
    <2> QED BY <1>2, <2>1, <2>2, ExtensionsStay
<1>16. SettledAddsUp'
    <2> SUFFICES ASSUME NEW f \in Events
                 PROVE  /\ snapshot'[f] # None <=> Exists(f)' /\ event'[f].status = "SETTLED"
                        /\ snapshot'[f] # None =>
                            /\ snapshot'[f].revenue = event'[f].advance
                                    + event'[f].balance + event'[f].extraAmount
                            /\ snapshot'[f].revenue >= event'[f].total
                            /\ MatchesCharges(f)'
        BY DEF SettledAddsUp
    <2>1. /\ snapshot[f] # None <=> Exists(f) /\ event[f].status = "SETTLED"
          /\ snapshot[f] # None =>
                /\ snapshot[f].revenue
                        = event[f].advance + event[f].balance + event[f].extraAmount
                /\ snapshot[f].revenue >= event[f].total
                /\ MatchesCharges(f)
        BY DEF OccupancyInv, SettledAddsUp
    <2>2. CASE f = e
        BY <1>1, <1>2, <1>6, <2>1, <2>2
    <2>3. CASE f # e
        <3>1. event'[f] = event[f] /\ (Exists(f)' <=> Exists(f))
            BY <1>6, <2>3
        <3>2. MatchesCharges(f)' <=> MatchesCharges(f)
            BY <1>2, <3>1, ChargesStay DEF MatchesCharges
        <3> QED BY <1>2, <2>1, <3>1, <3>2
    <2> QED BY <2>2, <2>3
<1> QED BY <1>9, <1>10, <1>11, <1>12, <1>13, <1>14, <1>15, <1>16 DEF OccupancyInv

\* The rows of the extension r are written, whatever the client is told.
Saves(r) ==
    /\ extension[r].pc = "persisting"
    /\ Operating(event[extension[r].event])
    /\ SaveExtension(r)
    /\ EndExtension(r)
    /\ lock' = None
    /\ evidence' = evidence
    /\ UNCHANGED <<staff, review, booking>>

\* The row of the extension r.
Charge(r) ==
    [event |-> extension[r].event, minutes |-> extension[r].minutes,
     rate |-> extension[r].rate, evidence |-> r]

LEMMA ExtensionUnderWay ==
    ASSUME OccupancyInv, NEW r \in Requests, extension[r].pc = "persisting"
    PROVE  /\ lock = r /\ charge[r] = None /\ r \in evidence
           /\ extension[r].event \in Events /\ Exists(extension[r].event)
           /\ event[extension[r].event] \in EventRow
           /\ extension[r].minutes \in Minutes /\ extension[r].rate \in Rates
           /\ ExtensionFound(Calendar(event), reservation, extension[r])
           /\ Charge(r) \in ChargeRow /\ Charge(r) # None
<1>1. /\ lock = r /\ charge[r] = None /\ r \in evidence
      /\ extension[r].event \in Events /\ Exists(extension[r].event)
      /\ extension[r].minutes \in Minutes /\ extension[r].rate \in Rates
      /\ ExtensionFound(Calendar(event), reservation, extension[r])
    BY DEF OccupancyInv, ExtensionsSound
<1>2. event[extension[r].event] \in EventRow
    BY <1>1 DEF OccupancyInv, RowsTyped, Exists
<1>3. Charge(r) \in ChargeRow /\ Charge(r) # None
    BY <1>1, Names DEF Charge, ChargeRow
<1> QED BY <1>1, <1>2, <1>3

LEMMA PersistSaves ==
    ASSUME OccupancyInv, NEW r \in Requests,
           PersistExtension(r) \/ \E rolledBack \in BOOLEAN : LoseAnswer(r, rolledBack)
    PROVE  Saves(r)
<1>1. CASE PersistExtension(r)
    BY <1>1 DEF PersistExtension, Saves
<1>2. CASE \E rolledBack \in BOOLEAN : LoseAnswer(r, rolledBack)
    <2>1. PICK rolledBack \in BOOLEAN : LoseAnswer(r, rolledBack)
        BY <1>2
    <2>2. extension[r].pc = "persisting" /\ SaveExtension(r)
        BY <2>1 DEF LoseAnswer
    <2>3. charge' = [charge EXCEPT ![r] = Charge(r)]
        BY <2>2 DEF SaveExtension, Charge
    <2>4. charge'[r] # None
        BY <2>2, <2>3, ExtensionUnderWay DEF OccupancyInv, RowsTyped
    <2>5. evidence' = evidence
        BY <2>1, <2>4 DEF LoseAnswer, CanDiscardEvidence
    <2> QED BY <2>1, <2>5 DEF LoseAnswer, Saves
<1> QED BY <1>1, <1>2

LEMMA LongerWindow ==
    ASSUME NEW v \in Windows, NEW m \in Nat
    PROVE  /\ Longer(v, m) \in Windows
           /\ \A t \in Int : Covers(v, t) => Covers(Longer(v, m), t)
           /\ Longer(v, m).start = v.start /\ Longer(v, m).end = v.end + m
BY DEF Windows, Longer, Covers

\* and an extension that is saved the longer window of its own.
LEMMA SaveTakesWindow ==
    ASSUME OccupancyInv, NEW r \in Requests, Saves(r)
    PROVE  LET e == extension[r].event
               row == Extended(event[e], extension[r].minutes, extension[r].rate)
           IN  /\ TakesWindow(e, row, Longer(OperationalWindow(event[e]),
                                             extension[r].minutes))
               /\ row.status = "EXTENDED"
<1> DEFINE e == extension[r].event
           m == extension[r].minutes
           k == extension[r].rate
           old == event[e]
           row == Extended(old, m, k)
           v == OperationalWindow(old)
           w == Longer(v, m)
<1>1. /\ e \in Events /\ Exists(e) /\ old \in EventRow /\ m \in Nat /\ k \in Nat
      /\ ExtensionFound(Calendar(event), reservation, extension[r])
      /\ event' = [event EXCEPT ![e] = row]
    BY ExtensionUnderWay, Numbers DEF Saves, SaveExtension
<1>2. old.advance > 0 /\ old.end # old.start
    BY <1>1 DEF OccupancyInv, EventsSound
<1>3. row \in EventRow /\ OperationalWindow(row) = w
    BY <1>1, ExtendedWindow
<1>4. /\ row.status = "EXTENDED" /\ row.advance = old.advance
      /\ row.start = old.start /\ row.end = old.end
    BY <1>1 DEF Extended, EventRow
<1>5. v \in Windows
    BY <1>1, <1>2, OperationalWindows
<1>6. w \in Windows /\ \A t \in Int : Covers(v, t) => Covers(w, t)
    <2> HIDE DEF v, m
    <2> QED BY <1>1, <1>5, LongerWindow
<1>7. Calendar(event)[e] = v
    BY <1>1 DEF Calendar, Exists
<1>8. /\ Cardinality(Room(Calendar(event), e, w)) < Threshold
      /\ \A f \in Room(Calendar(event), e, w) : Assigned[f] \cap Assigned[e] = {}
    BY <1>1, <1>7 DEF ExtensionFound
<1>9. \A f \in Room(Calendar(event), e, w) : Assigned[e] \cap Assigned[f] = {}
    BY <1>8
<1> HIDE DEF row, w
<1>10. TakesWindow(e, row, w)
    BY <1>1, <1>2, <1>3, <1>4, <1>6, <1>8, <1>9 DEF TakesWindow
<1> QED BY <1>4, <1>10 DEF row, w

\* The charges of other shows stay as they are.
LEMMA OthersKeepCharges ==
    ASSUME OccupancyInv, NEW r \in Requests, Saves(r),
           NEW f, f # extension[r].event
    PROVE  /\ VerifiedMinutes(f)' = VerifiedMinutes(f)
           /\ VerifiedAmount(f)' = VerifiedAmount(f)
<1>1. charge' = [charge EXCEPT ![r] = Charge(r)]
    BY DEF Saves, SaveExtension, Charge
<1>2. charge \in [Requests -> ChargeRow \cup {None}] /\ charge[r] = None
    BY ExtensionUnderWay DEF OccupancyInv, RowsTyped, Saves
<1>3. Charge(r).event = extension[r].event
    BY DEF Charge
<1>4. \A q \in Requests \ {r} : charge'[q] = charge[q]
    BY <1>1, <1>2
<1>5. charge'[r] = Charge(r)
    BY <1>1, <1>2
<1>6. ChargesOf(f)' = ChargesOf(f)
    <2>1. r \notin ChargesOf(f)' /\ r \notin ChargesOf(f)
        BY <1>2, <1>3, <1>5 DEF ChargesOf
    <2>2. \A q \in Requests \ {r} : q \in ChargesOf(f)' <=> q \in ChargesOf(f)
        BY <1>4 DEF ChargesOf
    <2>3. ChargesOf(f)' \subseteq Requests /\ ChargesOf(f) \subseteq Requests
        BY DEF ChargesOf
    <2> QED BY <2>1, <2>2, <2>3
<1>7. \A q \in ChargesOf(f) : charge'[q] = charge[q]
    BY <1>2, <1>4 DEF ChargesOf
<1>8. [q \in ChargesOf(f) |-> charge[q].minutes]' = [q \in ChargesOf(f) |-> charge[q].minutes]
    BY <1>6, <1>7
<1>9. [q \in ChargesOf(f) |-> charge[q].rate]' = [q \in ChargesOf(f) |-> charge[q].rate]
    BY <1>6, <1>7
<1> QED BY <1>8, <1>9 DEF VerifiedMinutes, VerifiedAmount

\* The extension is saved.
LEMMA SaveKeepsInv ==
    ASSUME OccupancyInv, NEW r \in Requests, Saves(r),
           NEW e, e = extension[r].event, NEW m, m = extension[r].minutes,
           NEW k, k = extension[r].rate
    PROVE  OccupancyInv'
<1> DEFINE row == Extended(event[e], m, k)
           v == OperationalWindow(event[e])
           w == Longer(v, m)
           new == Lengthened(reservation[e], m)
           x == [NoExtension EXCEPT !.pc = "done"]
<1>1. /\ e \in Events /\ Exists(e) /\ m \in Nat /\ lock = r /\ charge[r] = None
      /\ r \in evidence /\ Charge(r) \in ChargeRow
    BY ExtensionUnderWay, Numbers DEF Saves
<1>2. TakesWindow(e, row, w) /\ row.status = "EXTENDED"
    BY SaveTakesWindow
<1>3. /\ charge' = [charge EXCEPT ![r] = Charge(r)]
      /\ reservation' = [reservation EXCEPT ![e] = new]
      /\ extension' = [extension EXCEPT ![r] = x]
      /\ snapshot' = snapshot /\ lock' = None
      /\ UNCHANGED <<evidence, staff, review, booking>>
      /\ event[e].status # "SETTLED"
    <2>1. charge' = [charge EXCEPT ![r] = Charge(r)]
        BY DEF Saves, SaveExtension, Charge
    <2>2. reservation' = [reservation EXCEPT ![e] = new]
        BY DEF Saves, SaveExtension
    <2>3. extension' = [extension EXCEPT ![r] = x]
        BY DEF Saves, EndExtension
    <2>4. /\ snapshot' = snapshot /\ lock' = None
          /\ UNCHANGED <<evidence, staff, review, booking>>
        BY DEF Saves, SaveExtension
    <2>5. event[e].status # "SETTLED"
        BY DEF Saves, Operating
    <2> QED BY <2>1, <2>2, <2>3, <2>4, <2>5
<1>4. x \in ExtensionRow /\ x.pc = "done"
    BY DoneIsRow
<1>5. w \in Windows /\ OperationalWindow(row) = w
    BY <1>2 DEF TakesWindow
<1>6. /\ reservation \in [Events -> [Items -> ReservationRow \cup {None}]]
      /\ snapshot \in [Events -> SnapshotRow \cup {None}]
      /\ extension \in [Requests -> ExtensionRow]
      /\ charge \in [Requests -> ChargeRow \cup {None}]
    BY DEF OccupancyInv, RowsTyped, ExtensionsSound
<1>7. \A i \in Items : /\ new[i] \in ReservationRow \cup {None}
                       /\ reservation[e][i] = None => new[i] = None
                       /\ reservation[e][i] # None =>
                            SameHours(new[i].window, w, row.extra)
    <2> SUFFICES ASSUME NEW i \in Items
                 PROVE  /\ new[i] \in ReservationRow \cup {None}
                        /\ reservation[e][i] = None => new[i] = None
                        /\ reservation[e][i] # None =>
                             SameHours(new[i].window, w, row.extra)
        OBVIOUS
    <2>1. CASE reservation[e][i] = None
        BY <2>1 DEF Lengthened
    <2>2. CASE reservation[e][i] # None
        <3> DEFINE h == reservation[e][i]
        <3>1. /\ h \in ReservationRow /\ h.window \in Windows
              /\ SameHours(h.window, v, event[e].extra)
            BY <1>1, <1>6, <2>2
                DEF OccupancyInv, ReservationsFollowEvent, ReservationRow, Windows
        <3>2. new[i] = [h EXCEPT !.window = Longer(h.window, m)]
            BY <2>2 DEF Lengthened
        <3>3. v \in Windows /\ event[e].extra \in Nat /\ row.extra = event[e].extra + m
            <4>1. event[e] \in EventRow /\ event[e].end # event[e].start
                BY <1>1 DEF OccupancyInv, RowsTyped, EventsSound, Exists
            <4> QED BY <4>1, OperationalWindows DEF EventRow, Extended
        <3> HIDE DEF h, new, v, w, row
        <3>4. Longer(h.window, m) \in Windows
            BY <1>1, <3>1, LongerWindow
        <3>5. new[i] \in ReservationRow /\ new[i].window = Longer(h.window, m)
            BY <3>1, <3>2, <3>4 DEF ReservationRow, Windows
        <3>6. SameHours(Longer(h.window, m), Longer(v, m), event[e].extra + m)
            BY <1>1, <3>1, <3>3, LongerHours
        <3> QED BY <2>2, <3>3, <3>5, <3>6 DEF h, w
    <2> QED BY <2>1, <2>2
<1>8. new \in [Items -> ReservationRow \cup {None}]
    <2>1. new = [i \in Items |-> new[i]]
        BY DEF Lengthened
    <2> HIDE DEF new
    <2> QED BY <1>7, <2>1
<1> HIDE DEF w, v, row, new, x
<1>9. /\ event' \in [Events -> EventRow \cup {None}]
      /\ event'[e] = row /\ Exists(e)'
      /\ \A f \in Events \ {e} : event'[f] = event[f] /\ (Exists(f)' <=> Exists(f))
    BY <1>2, RowsAfter
<1>10. /\ reservation' \in [Events -> [Items -> ReservationRow \cup {None}]]
       /\ reservation'[e] = new
       /\ \A f \in Events \ {e} : reservation'[f] = reservation[f]
    BY <1>1, <1>3, <1>6, <1>8
<1>11. /\ charge' \in [Requests -> ChargeRow \cup {None}]
       /\ \A q \in Requests \ {r} : charge'[q] = charge[q]
    BY <1>1, <1>3, <1>6
<1>12. RowsTyped'
    BY <1>3, <1>9, <1>10, <1>11 DEF OccupancyInv, RowsTyped, staff
<1>13. EventsSound' /\ ShowsWithinThreshold' /\ CrewsInOnePlace'
    BY <1>2, EventsSoundAfter, ThresholdKept, CrewsKept
<1>14. ReservationsFollowEvent'
    <2> SUFFICES ASSUME NEW f \in Events, NEW i \in Items, reservation'[f][i] # None
                 PROVE  /\ Exists(f)'
                        /\ SameHours(reservation'[f][i].window,
                                     OperationalWindow(event'[f]), event'[f].extra)
        BY DEF ReservationsFollowEvent
    <2>1. CASE f = e
        BY <1>5, <1>7, <1>9, <1>10, <2>1
    <2>2. CASE f # e
        BY <1>9, <1>10, <2>2 DEF OccupancyInv, ReservationsFollowEvent
    <2> QED BY <2>1, <2>2
<1>15. BookingsSound'
    <2>1. \A f \in Events : (lock' = f <=> lock = f) /\ lock # f
        BY <1>1, <1>3, Names
    <2>2. \A f \in Events : Exists(f)' <=> Exists(f)
        BY <1>1, <1>9
    <2> QED BY <1>3, <2>1, <2>2, BookingsStay
<1>16. ExtensionsSound'
    <2>1. extension' \in [Requests -> ExtensionRow]
        BY <1>3, <1>4, <1>6
    <2>2. ASSUME NEW q \in Requests
          PROVE  /\ extension'[q].pc # "persisting"
                 /\ extension'[q].pc # "done" => charge'[q] = None
                 /\ charge'[q] # None => q \in evidence'
                 /\ extension'[q].pc \in {"stored", "persisting"} =>
                        /\ q \in evidence'
                        /\ extension'[q].event \in Events
                        /\ event'[extension'[q].event] # None
                        /\ extension'[q].minutes \in Minutes
                        /\ extension'[q].rate \in Rates
        <3>1. CASE q = r
            <4>1. extension'[q] = x
                BY <1>3, <1>6, <3>1
            <4> QED BY <1>1, <1>3, <1>4, <3>1, <4>1
        <3>2. CASE q # r
            <4>1. extension'[q] = extension[q] /\ charge'[q] = charge[q]
                BY <1>3, <1>6, <1>11, <3>2
            <4>2. /\ extension[q].pc = "persisting" <=> lock = q
                  /\ extension[q].pc # "done" => charge[q] = None
                  /\ charge[q] # None => q \in evidence
                  /\ extension[q].pc \in {"stored", "persisting"} =>
                        /\ q \in evidence
                        /\ extension[q].event \in Events /\ Exists(extension[q].event)
                        /\ extension[q].minutes \in Minutes
                        /\ extension[q].rate \in Rates
                BY DEF OccupancyInv, ExtensionsSound
            <4>3. \A f \in Events : Exists(f) => event'[f] # None
                BY <1>9 DEF Exists
            <4> QED BY <1>1, <1>3, <3>2, <4>1, <4>2, <4>3
        <3> QED BY <3>1, <3>2
    <2>3. \A q \in Requests : lock' # q
        BY <1>3, Names
    <2> QED BY <2>1, <2>2, <2>3 DEF ExtensionsSound, Exists
<1>17. SettledAddsUp'
    <2> SUFFICES ASSUME NEW f \in Events
                 PROVE  /\ snapshot'[f] # None <=> Exists(f)' /\ event'[f].status = "SETTLED"
                        /\ snapshot'[f] # None =>
                            /\ snapshot'[f].revenue = event'[f].advance
                                    + event'[f].balance + event'[f].extraAmount
                            /\ snapshot'[f].revenue >= event'[f].total
                            /\ MatchesCharges(f)'
        BY DEF SettledAddsUp
    <2>1. /\ snapshot[f] # None <=> Exists(f) /\ event[f].status = "SETTLED"
          /\ snapshot[f] # None =>
                /\ snapshot[f].revenue
                        = event[f].advance + event[f].balance + event[f].extraAmount
                /\ snapshot[f].revenue >= event[f].total
                /\ MatchesCharges(f)
        BY DEF OccupancyInv, SettledAddsUp
    <2>2. CASE f = e
        BY <1>2, <1>3, <1>9, <2>1, <2>2
    <2>3. CASE f # e
        <3>1. event'[f] = event[f] /\ (Exists(f)' <=> Exists(f))
            BY <1>9, <2>3
        <3>2. MatchesCharges(f)' <=> MatchesCharges(f)
            BY <2>3, <3>1, OthersKeepCharges DEF MatchesCharges
        <3> QED BY <1>3, <2>1, <3>1, <3>2
    <2> QED BY <2>2, <2>3
<1> QED BY <1>12, <1>13, <1>14, <1>15, <1>16, <1>17 DEF OccupancyInv
-----------------------------------------------------------------------------
(* The first state.                                                        *)

LEMMA FirstShow ==
    ASSUME NEW e \in Booked
    PROVE  /\ FirstEvent(e) \in EventRow /\ FirstEvent(e) # None
           /\ FirstWindow(e) \in Windows /\ OperationalWindow(FirstEvent(e)) \in Windows
           /\ SameHours(FirstWindow(e), OperationalWindow(FirstEvent(e)), FirstEvent(e).extra)
           /\ FirstEvent(e).advance > 0
           /\ FirstEvent(e).status \in {"EXTENDED", "SCHEDULED"}
           /\ FirstEvent(e).end # FirstEvent(e).start
<1> DEFINE row == FirstEvent(e)
           w == FirstWindow(e)
           n == First.duration
<1>1. e \in Events /\ n \in Durations /\ n \in Nat \ {0}
    BY Names, Numbers, OccupancyConstants DEF Catalogue
<1>2. w = WindowOf(Slot[e].date, Slot[e].start, n) /\ w \in Windows
    BY <1>1, RequestedWindows DEF FirstWindow, RequestedWindow
<1>3. /\ Slot[e].date \in Nat /\ Slot[e].start \in 0 .. (Day - 1)
      /\ Verified[e] \in Nat /\ Legacy[e] \in Nat
    BY <1>1, SlotsOfEvents
<1>4. /\ row.date = Slot[e].date /\ row.start = Slot[e].start
      /\ row.end = TimeOfDay(w.end) /\ row.extra = 0 /\ row.advance = Advance
      /\ row.status \in {"EXTENDED", "SCHEDULED"}
    BY DEF FirstEvent
<1>5. TimeOfDay(w.end) \in 0 .. (Day - 1) /\ row.end # row.start
    <2>1. TimeOfDay(w.end) # Slot[e].start
        BY FirstCalendar
    <2> HIDE DEF w, row
    <2> QED BY <1>2, <1>4, <2>1, TimesOfDay DEF Windows
<1>6. row \in EventRow
    <2>1. /\ Due + Legacy[e] \in Nat /\ Advance \in Nat
          /\ (IF Legacy[e] > 0 THEN Verified[e] ELSE 0) \in Nat
        BY <1>3, Numbers
    <2>2. (IF Legacy[e] > 0 THEN "EXTENDED" ELSE "SCHEDULED") \in EventStatus
        BY DEF EventStatus
    <2> HIDE DEF w
    <2> QED BY <1>3, <1>5, <2>1, <2>2 DEF FirstEvent, EventRow, w
<1>7. OperationalWindow(row) \in Windows /\ SameHours(w, OperationalWindow(row), row.extra)
    <2> HIDE DEF w, row, n
    <2> QED BY <1>1, <1>2, <1>3, <1>4, <1>5, <1>6, HoursReadBack
<1>8. row.advance > 0 /\ row # None
    <2> HIDE DEF row
    <2> QED BY <1>4, <1>6, Numbers, Names
<1> QED BY <1>2, <1>4, <1>5, <1>6, <1>7, <1>8

\* whose hours are a part of the window that FirstCalendar speaks of.
LEMMA FirstHours ==
    ASSUME NEW e \in Booked
    PROVE  /\ \A t \in Int : Covers(OperationalWindow(FirstEvent(e)), t) =>
                    Covers(FirstWindow(e), t)
           /\ Instants(OperationalWindow(FirstEvent(e))) \subseteq Instants(FirstWindow(e))
<1> DEFINE show == OperationalWindow(FirstEvent(e))
           w == FirstWindow(e)
<1>1. show \in Windows /\ w \in Windows /\ show.start = w.start /\ show.end <= w.end
    BY FirstShow DEF SameHours, Windows
<1> HIDE DEF show, w
<1>2. /\ \A t \in Int : Covers(show, t) => Covers(w, t)
      /\ Instants(show) \subseteq Instants(w)
    BY <1>1 DEF Covers, Instants, Windows
<1> QED BY <1>2 DEF show, w

\* The invariant holds at first,
LEMMA InitInv == Init => OccupancyInv
<1> SUFFICES ASSUME Init PROVE OccupancyInv
    OBVIOUS
<1>1. \A e \in Events : event[e] = IF e \in Booked THEN FirstEvent(e) ELSE None
    BY DEF Init
<1>2. \A e \in Events : Exists(e) <=> e \in Booked
    BY <1>1, FirstShow DEF Exists
<1>3. \A e \in Events, i \in Items : reservation[e][i] # None =>
        e \in Booked /\ reservation[e][i].window = FirstWindow(e)
    <2> TAKE e \in Events, i \in Items
    <2>1. reservation[e][i] = IF e \in Booked
            THEN [quantity |-> First.requires[i], window |-> FirstWindow(e)] ELSE None
        BY DEF Init
    <2> QED BY <2>1
<1>4. First \in Catalogue
    BY OccupancyConstants
<1>5. NoBooking \in BookingRow /\ NoBooking.pc = "idle"
    BY NoBookingIsRow
<1>6. NoExtension \in ExtensionRow /\ NoExtension.pc = "idle"
    BY DEF NoExtension, ExtensionRow
<1>7. RowsTyped
    <2>1. event \in [Events -> EventRow \cup {None}]
        <3>1. event = [e \in Events |-> event[e]]
            BY DEF Init
        <3> QED BY <1>1, <3>1, FirstShow
    <2>2. reservation \in [Events -> [Items -> ReservationRow \cup {None}]]
        <3> DEFINE held(e) == [i \in Items |-> IF e \in Booked
                        THEN [quantity |-> First.requires[i], window |-> FirstWindow(e)]
                        ELSE None]
        <3>1. ASSUME NEW e \in Events PROVE held(e) \in [Items -> ReservationRow \cup {None}]
            <4>1. CASE e \in Booked
                <5>1. FirstWindow(e) \in [start : Nat, end : Nat]
                    BY <4>1, FirstShow DEF Windows
                <5>2. \A i \in Items : First.requires[i] \in Nat \ {0}
                    BY <1>4, Numbers DEF Catalogue
                <5> QED BY <4>1, <5>1, <5>2 DEF ReservationRow
            <4>2. CASE e \notin Booked
                BY <4>2
            <4> QED BY <4>1, <4>2
        <3>2. reservation = [e \in Events |-> held(e)]
            BY DEF Init
        <3> HIDE DEF held
        <3> QED BY <3>1, <3>2
    <2>3. /\ charge \in [Requests -> ChargeRow \cup {None}]
          /\ snapshot \in [Events -> SnapshotRow \cup {None}]
        BY DEF Init
    <2>4. /\ evidence \subseteq Requests /\ review \subseteq Events \ Manual
          /\ lock \in Events \cup Requests \cup {None}
          /\ catalogue \in Catalogue
          /\ edit \in [item : Items, stock : Stocks] \cup {None}
        BY <1>4 DEF Init
    <2> QED BY <2>1, <2>2, <2>3, <2>4 DEF RowsTyped
<1>8. EventsSound
    BY <1>1, <1>2, FirstShow, Names DEF EventsSound
<1>9. BookingsSound
    <2>1. \A e \in Events : booking[e] = NoBooking /\ lock # e
        BY Names DEF Init
    <2>2. booking \in [Events -> BookingRow]
        BY <1>5 DEF Init
    <2> QED BY <1>5, <2>1, <2>2 DEF BookingsSound
<1>10. ExtensionsSound
    <2>1. \A r \in Requests : extension[r] = NoExtension /\ lock # r /\ charge[r] = None
        BY Names DEF Init
    <2>2. extension \in [Requests -> ExtensionRow]
        BY <1>6 DEF Init
    <2> QED BY <1>6, <2>1, <2>2 DEF ExtensionsSound
<1>11. ReservationsFollowEvent
    <2> SUFFICES ASSUME NEW e \in Events, NEW i \in Items, reservation[e][i] # None
                 PROVE  /\ Exists(e)
                        /\ SameHours(reservation[e][i].window,
                                     OperationalWindow(event[e]), event[e].extra)
        BY DEF ReservationsFollowEvent
    <2>1. e \in Booked /\ reservation[e][i].window = FirstWindow(e)
        BY <1>3
    <2> QED BY <1>1, <1>2, <2>1, FirstShow
<1>12. ShowsWithinThreshold
    <2>1. \A e \in Booked : event[e] = FirstEvent(e)
        BY <1>1, Names
    <2> SUFFICES ASSUME NEW e \in Booked, NEW t \in Instants(OperationalWindow(FirstEvent(e)))
                 PROVE  ~(Cardinality(ShowsAt(t)) > Threshold)
        BY <1>2, <2>1 DEF ShowsWithinThreshold
    <2> DEFINE W == {f \in Booked : Covers(FirstWindow(f), t)}
    <2>2. t \in Instants(FirstWindow(e)) /\ t \in Int
        BY FirstHours DEF Instants
    <2>3. ShowsAt(t) \subseteq W
        BY <1>2, <2>1, <2>2, FirstHours DEF ShowsAt
    <2>4. Cardinality(W) <= Threshold
        BY <2>2, FirstCalendar
    <2>5. IsFiniteSet(W) /\ W \in SUBSET Events
        BY Names, FS_Subset
    <2> HIDE DEF W
    <2>6. /\ Cardinality(ShowsAt(t)) <= Cardinality(W)
          /\ Cardinality(ShowsAt(t)) \in Nat /\ Cardinality(W) \in Nat
        BY <2>3, <2>5, FS_Subset, FS_CardinalityType
    <2> QED BY <2>4, <2>6, Numbers
<1>13. CrewsInOnePlace
    <2>1. \A e \in Booked : event[e] = FirstEvent(e)
        BY <1>1, Names
    <2>2. ASSUME NEW e \in Booked, NEW f \in Booked,
                 Overlaps(OperationalWindow(FirstEvent(e)), OperationalWindow(FirstEvent(f)))
          PROVE  Overlaps(FirstWindow(e), FirstWindow(f))
        <3> DEFINE u == OperationalWindow(FirstEvent(e))
                   v == OperationalWindow(FirstEvent(f))
        <3>1. /\ u \in Windows /\ u.start = FirstWindow(e).start /\ u.end <= FirstWindow(e).end
              /\ FirstWindow(e) \in Windows
            BY FirstShow DEF SameHours, Windows
        <3>2. /\ v \in Windows /\ v.start = FirstWindow(f).start /\ v.end <= FirstWindow(f).end
              /\ FirstWindow(f) \in Windows
            BY FirstShow DEF SameHours, Windows
        <3>3. Overlaps(u, v)
            BY <2>2
        <3> HIDE DEF u, v
        <3> QED BY <3>1, <3>2, <3>3 DEF Overlaps, Windows
    <2> QED BY <1>2, <2>1, <2>2, FirstCalendar DEF CrewsInOnePlace
<1>14. SettledAddsUp
    <2>1. \A e \in Events : snapshot[e] = None /\ (Exists(e) => event[e].status # "SETTLED")
        BY <1>1, <1>2, FirstShow DEF Init
    <2> QED BY <2>1 DEF SettledAddsUp
<1> QED BY <1>7, <1>8, <1>9, <1>10, <1>11, <1>12, <1>13, <1>14 DEF OccupancyInv

-----------------------------------------------------------------------------
(* Every step.                                                             *)

LEMMA StutterInv ==
    ASSUME OccupancyInv, UNCHANGED vars
    PROVE  OccupancyInv'
<1>1. UNCHANGED rows /\ UNCHANGED <<booking, extension, charge, evidence, lock>>
    BY DEF vars, rows
<1>2. /\ EventsSound' /\ ReservationsFollowEvent'
      /\ ShowsWithinThreshold' /\ CrewsInOnePlace' /\ SettledAddsUp'
      /\ Calendar(event') = Calendar(event)
    BY <1>1, RowsStay
<1>3. RowsTyped'
    BY DEF OccupancyInv, RowsTyped, vars
<1>4. BookingsSound' /\ ExtensionsSound'
    BY <1>1, <1>2, BookingsStay, ExtensionsStay DEF rows, Exists
<1> QED BY <1>2, <1>3, <1>4 DEF OccupancyInv

\* every step keeps it,
LEMMA NextKeepsInv ==
    ASSUME OccupancyInv, [Next]_vars
    PROVE  OccupancyInv'
<1>1. CASE UNCHANGED vars
    BY <1>1, StutterInv
<1>2. ASSUME NEW e \in Events, Book(e) PROVE OccupancyInv'
    BY <1>2, PrepareBudgetKeepsInv, ConfirmBookingKeepsInv,
       CheckManualContractKeepsInv, FinalizeKeepsInv, AbortBookingKeepsInv DEF Book
<1>3. ASSUME NEW e \in Events, ScheduleEvent(e) \/ StartEvent(e) \/ SettleEvent(e)
      PROVE  OccupancyInv'
    BY <1>3, ScheduleEventKeepsInv, StartEventKeepsInv, SettleEventKeepsInv
<1>4. ASSUME NEW r \in Requests, Extend(r) PROVE OccupancyInv'
    <2>1. CASE \E e \in Events, m \in Minutes, k \in Rates : StoreEvidence(r, e, m, k)
        BY <2>1, StoreEvidenceKeepsInv
    <2>2. CASE CheckExtension(r)
        BY <2>2, CheckExtensionKeepsInv
    <2>3. CASE RefuseExtension(r)
        BY <2>3, RefuseExtensionKeepsInv
    <2>4. CASE PersistExtension(r) \/ \E rolledBack \in BOOLEAN : LoseAnswer(r, rolledBack)
        BY <2>4, PersistSaves, SaveKeepsInv
    <2>5. CASE \E rolledBack \in BOOLEAN : FailExtension(r, rolledBack)
        BY <2>5, FailExtensionKeepsInv
    <2>6. CASE CrashExtension(r)
        BY <2>6, CrashExtensionKeepsInv
    <2> QED BY <1>4, <2>1, <2>2, <2>3, <2>4, <2>5, <2>6 DEF Extend
<1>5. CASE EditStaff
    BY <1>5, EditStaffKeepsInv
<1>6. CASE Tick
    BY <1>6, TickKeepsInv
<1> QED BY <1>1, <1>2, <1>3, <1>4, <1>5, <1>6 DEF Next

\* and so it holds at any time.
LEMMA Inductive == Spec => []OccupancyInv
<1>1. Init => OccupancyInv
    BY InitInv
<1>2. OccupancyInv /\ [Next]_vars => OccupancyInv'
    BY NextKeepsInv
<1> QED BY <1>1, <1>2, PTL DEF Spec

-----------------------------------------------------------------------------
(* The theorems.                                                           *)

LEMMA InvIsTyped == OccupancyInv => TypeOK
<1> SUFFICES ASSUME OccupancyInv PROVE TypeOK
    OBVIOUS
<1>1. \A e \in Events : Exists(e) => event[e].advance > 0
    BY DEF OccupancyInv, EventsSound
<1>2. ASSUME NEW e \in Events, NEW i \in Items, reservation[e][i] # None
      PROVE  /\ reservation[e][i] \in ReservationRow
             /\ reservation[e][i].window.start < reservation[e][i].window.end
    <2>1. /\ Exists(e)
          /\ reservation[e][i].window.start = OperationalWindow(event[e]).start
          /\ reservation[e][i].window.end >= OperationalWindow(event[e]).end
        BY <1>2 DEF OccupancyInv, ReservationsFollowEvent, SameHours
    <2>2. event[e] \in EventRow /\ event[e].end # event[e].start
        BY <2>1 DEF OccupancyInv, RowsTyped, EventsSound, Exists
    <2>3. reservation[e][i] \in ReservationRow
        BY <1>2 DEF OccupancyInv, RowsTyped
    <2> DEFINE show == OperationalWindow(event[e])
    <2>4. show \in Windows /\ show.start < show.end
        BY <2>2, OperationalWindows
    <2> HIDE DEF show
    <2> QED BY <2>1, <2>3, <2>4 DEF show, ReservationRow, Windows
<1> QED BY <1>1, <1>2
        DEF OccupancyInv, RowsTyped, BookingsSound, ExtensionsSound, TypeOK

\* Whatever the constants are, rows keep to their columns: units are counted,
\* reservations end after they start, and the advisory lock is held exactly by
\* the booking or the extension that is about to commit.
THEOREM TypeCorrect == Spec => []TypeOK
BY Inductive, InvIsTyped, PTL

\* However bookings and extensions compete for the advisory lock, more shows
\* than the threshold take place at a time only with an approval of the staff.
THEOREM ThresholdHolds == Spec => []ShowsWithinThreshold
<1>1. OccupancyInv => ShowsWithinThreshold
    BY DEF OccupancyInv
<1> QED BY <1>1, Inductive, PTL

\* No booking and no extension makes a crew work in two shows at a time.
THEOREM CrewsAreInOnePlace == Spec => []CrewsInOnePlace
<1>1. OccupancyInv => CrewsInOnePlace
    BY DEF OccupancyInv
<1> QED BY <1>1, Inductive, PTL

\* Compensations delete a file only when no committed payment refers to it.
THEOREM EvidenceIsKept == Spec => []EvidenceOfCharges
<1>1. OccupancyInv => EvidenceOfCharges
    BY DEF OccupancyInv, ExtensionsSound, EvidenceOfCharges
<1> QED BY <1>1, Inductive, PTL

\* Whatever the packages last, a show holds its items for the hours that its
\* row says, although the row has times of day only and extensions are kept
\* apart from its end: exactly if the package takes less than a day, else with
\* the whole days that the row has lost.
THEOREM ReservationsAreTheShows == Spec => []ReservationsFollowEvent
<1>1. OccupancyInv => ReservationsFollowEvent
    BY DEF OccupancyInv
<1> QED BY <1>1, Inductive, PTL

\* A settlement covers the final total of its show and no extension commits
\* after it.
THEOREM SettlementsAddUp == Spec => []SettledAddsUp
<1>1. OccupancyInv => SettledAddsUp
    BY DEF OccupancyInv
<1> QED BY <1>1, Inductive, PTL

-----------------------------------------------------------------------------
(* What a commit may do to reservations and to reports.                    *)

\* The steps that write rows.
LEMMA StepsOnRows ==
    ASSUME OccupancyInv, [Next]_vars
    PROVE  \/ UNCHANGED rows
           \/ \E e \in Events : Finalize(e)
           \/ \E e \in Events : ScheduleEvent(e) \/ StartEvent(e) \/ SettleEvent(e)
           \/ \E r \in Requests : Saves(r)
<1>1. CASE UNCHANGED vars
    BY <1>1 DEF vars, rows
<1>2. ASSUME NEW e \in Events, Book(e) PROVE UNCHANGED rows \/ Finalize(e)
    <2>1. CASE Finalize(e)
        BY <2>1
    <2>2. CASE PrepareBudget(e)
        BY <2>2 DEF PrepareBudget
    <2>3. CASE \E approve \in BOOLEAN : ConfirmBooking(e, approve)
        BY <2>3 DEF ConfirmBooking
    <2>4. CASE CheckManualContract(e)
        BY <2>4 DEF CheckManualContract
    <2>5. CASE AbortBooking(e)
        BY <2>5 DEF AbortBooking
    <2> QED BY <1>2, <2>1, <2>2, <2>3, <2>4, <2>5 DEF Book
<1>3. ASSUME NEW r \in Requests, Extend(r) PROVE UNCHANGED rows \/ Saves(r)
    <2>1. CASE \E e \in Events, m \in Minutes, k \in Rates : StoreEvidence(r, e, m, k)
        BY <2>1 DEF StoreEvidence
    <2>2. CASE CheckExtension(r)
        BY <2>2 DEF CheckExtension
    <2>3. CASE RefuseExtension(r)
        BY <2>3 DEF RefuseExtension
    <2>4. CASE PersistExtension(r) \/ \E rolledBack \in BOOLEAN : LoseAnswer(r, rolledBack)
        BY <2>4, PersistSaves
    <2>5. CASE \E rolledBack \in BOOLEAN : FailExtension(r, rolledBack)
        BY <2>5 DEF FailExtension
    <2>6. CASE CrashExtension(r)
        BY <2>6 DEF CrashExtension
    <2> QED BY <1>3, <2>1, <2>2, <2>3, <2>4, <2>5, <2>6 DEF Extend
<1>4. CASE EditStaff
    <2>1. ASSUME NEW e \in Events, NEW c \in Crews, NEW m \in Intervals, OverrideInterval(e, c, m)
          PROVE  UNCHANGED rows
        BY <2>1 DEF OverrideInterval
    <2>2. ASSUME NEW d \in Durations, NEW k \in Costs, UpdatePackage(d, k) PROVE UNCHANGED rows
        BY <2>2 DEF UpdatePackage
    <2>3. ASSUME NEW i \in Items, NEW q \in Quantities, SetRequirements(i, q) PROVE UNCHANGED rows
        BY <2>3 DEF SetRequirements
    <2>4. ASSUME NEW i \in Items, NEW n \in Stocks, ReadReserved(i, n) PROVE UNCHANGED rows
        BY <2>4 DEF ReadReserved
    <2>5. CASE UpdateStock
        BY <2>5 DEF UpdateStock
    <2> QED BY <1>4, <2>1, <2>2, <2>3, <2>4, <2>5 DEF EditStaff
<1>5. CASE Tick
    BY <1>5 DEF Tick
<1> QED BY <1>1, <1>2, <1>3, <1>4, <1>5 DEF Next

\* A reservation that fits in what the others hold within its window fits at
\* every instant of it: who holds units then holds them within the window.
LEMMA FitsAtEveryInstant ==
    ASSUME OccupancyInv, RowsTyped', NEW e \in Events, NEW i \in Items, NEW w, NEW stock \in Nat,
           reservation'[e][i] # None, w = reservation'[e][i].window,
           \A f \in Events \ {e} : reservation'[f] = reservation[f],
           Units(reservation, i, Held(reservation, e, i, w))
                + reservation'[e][i].quantity <= stock,
           NEW t \in w.start .. (w.end - 1)
    PROVE  ReservedAt(i, t)' <= stock
<1> DEFINE H == {f \in Events : /\ reservation'[f][i] # None
                                /\ Covers(reservation'[f][i].window, t)}
           F == [f \in H |-> reservation'[f][i].quantity]
           D == Held(reservation, e, i, w)
           G == [f \in D |-> reservation[f][i].quantity]
           T == H \ {e}
<1>1. \A f \in Events : reservation'[f][i] # None => reservation'[f][i] \in ReservationRow
    BY DEF RowsTyped
<1>2. \A f \in Events : reservation[f][i] # None => reservation[f][i] \in ReservationRow
    BY DEF OccupancyInv, RowsTyped
<1>3. w.start \in Nat /\ w.end \in Nat /\ t \in Int /\ w.start <= t /\ t < w.end
    BY <1>1 DEF ReservationRow
<1>4. e \in H
    BY <1>3 DEF Covers
<1>5. IsFiniteSet(H) /\ IsFiniteSet(D) /\ D \subseteq Events
    BY Names, FS_Subset DEF Held
<1>6. F \in [H -> Nat] /\ F[e] = reservation'[e][i].quantity /\ F[e] \in Nat
    BY <1>1, <1>4 DEF ReservationRow
<1>7. G \in [D -> Nat]
    BY <1>2 DEF ReservationRow, Held
<1>8. T \in SUBSET D
    <2> SUFFICES ASSUME NEW f \in T PROVE f \in D
        OBVIOUS
    <2>1. /\ f \in Events \ {e} /\ reservation[f][i] # None
          /\ Covers(reservation[f][i].window, t)
        OBVIOUS
    <2>2. reservation[f][i].window \in [start : Nat, end : Nat]
        BY <1>2, <2>1 DEF ReservationRow
    <2>3. Overlaps(reservation[f][i].window, w)
        BY <1>3, <2>1, <2>2 DEF Covers, Overlaps
    <2> QED BY <2>1, <2>3 DEF Held
<1>9. \A f \in T : F[f] = G[f]
    BY <1>8
<1>10. ReservedAt(i, t)' = SumOf(F)
    BY DEF ReservedAt
<1>11. Units(reservation, i, D) = SumOf(G)
    BY DEF Units
<1> HIDE DEF F, G, H, D
<1>12. SumOf(F) = F[e] + SumOf([f \in T |-> F[f]])
    <2>1. IsFiniteSet(H) /\ F \in [H -> Nat] /\ e \in H
        BY <1>4, <1>5, <1>6
    <2>2. SumOf(F) = F[e] + SumOf([f \in H \ {e} |-> F[f]])
        BY <2>1, SumWithout
    <2> QED BY <2>2
<1>13. [f \in T |-> F[f]] = [f \in T |-> G[f]]
    BY <1>9
<1> HIDE DEF T
<1>14. SumOf([f \in T |-> G[f]]) <= SumOf(G)
    BY <1>5, <1>7, <1>8, PartIsLess
<1>15. SumOf(G) \in Nat /\ SumOf([f \in T |-> G[f]]) \in Nat
    <2>1. SumOf(G) \in Nat
        BY <1>5, <1>7, SumIsNat
    <2>2. IsFiniteSet(T) /\ [f \in T |-> G[f]] \in [T -> Nat]
        BY <1>5, <1>7, <1>8, FS_Subset
    <2>3. SumOf([f \in T |-> G[f]]) \in Nat
        BY <2>2, SumIsNat
    <2> QED BY <2>1, <2>3
<1>16. SumOf(G) + F[e] <= stock
    BY <1>6, <1>11 DEF D
<1>17. SumOf(F) <= stock
    BY <1>6, <1>12, <1>13, <1>14, <1>15, <1>16
<1> QED BY <1>10, <1>17

\* Neither a final contract
LEMMA FinalizeWithinStock ==
    ASSUME OccupancyInv, RowsTyped', NEW e \in Events, Finalize(e), NEW i \in Items,
           catalogue.stock[i] >= Judged(e, i).stock,
           reservation'[e][i].quantity <= Judged(e, i).quantity,
           NEW t \in reservation'[e][i].window.start .. (reservation'[e][i].window.end - 1)
    PROVE  ReservedAt(i, t)' <= catalogue.stock[i]
<1> DEFINE b == booking[e]
           q == catalogue.requires[i]
           stock == catalogue.stock[i]
           units == Units(reservation, i, Held(reservation, e, i, b.window))
<1>1. b.pc = "reserving" /\ BookingFits(Calendar(event), reservation, e, b)
    BY FinalizeTakesWindow DEF Finalize
<1>2. Judged(e, i).stock = b.stock[i] /\ Judged(e, i).quantity = b.requires[i]
    BY <1>1 DEF Judged
<1>3. /\ reservation'[e][i] = [quantity |-> q, window |-> b.window]
      /\ \A f \in Events \ {e} : reservation'[f] = reservation[f]
    BY DEF Finalize, OccupancyInv, RowsTyped
<1>4. /\ b.stock[i] \in Nat /\ b.requires[i] \in Nat
      /\ units + b.requires[i] <= b.stock[i]
    BY <1>1 DEF BookingFits
<1>5. stock \in Nat /\ q \in Nat
    BY Numbers DEF OccupancyInv, RowsTyped, Catalogue
<1>6. units \in Nat
    <2> HIDE DEF b
    <2> QED BY UnitsAreNat
<1>7. reservation'[e][i].quantity = q /\ reservation'[e][i].window = b.window
    BY <1>3
<1>8. reservation'[e][i] # None
    <2>1. reservation'[e][i] \in ReservationRow
        <3>1. b.window \in Windows
            <4>1. b.window = RequestedWindow(e, b.duration) /\ b.duration \in Durations
                BY <1>1 DEF BookingFits, OccupancyInv, BookingsSound
            <4> QED BY <4>1, RequestedWindows
        <3>2. q \in Nat \ {0}
            BY Numbers DEF OccupancyInv, RowsTyped, Catalogue
        <3> HIDE DEF b, q
        <3> QED BY <1>3, <3>1, <3>2 DEF ReservationRow, Windows
    <2> QED BY <2>1, Names
<1>9. b.stock[i] <= stock /\ q <= b.requires[i]
    BY <1>2, <1>7, <1>4, <1>5
<1>10. units + q <= stock
    <2> HIDE DEF units, q, stock, b
    <2> QED BY <1>4, <1>5, <1>6, <1>9
<1> HIDE DEF q, stock, b
<1>11. ReservedAt(i, t)' <= stock
    BY <1>3, <1>5, <1>7, <1>8, <1>10, FitsAtEveryInstant DEF units
<1> QED BY <1>11 DEF stock

\* nor a saved extension reserves more than was free,
LEMMA SaveWithinStock ==
    ASSUME OccupancyInv, RowsTyped', NEW r \in Requests, Saves(r), NEW e, e = extension[r].event,
           NEW i \in Items, reservation[e][i] # None,
           catalogue.stock[i] >= Judged(e, i).stock,
           NEW t \in reservation'[e][i].window.start .. (reservation'[e][i].window.end - 1)
    PROVE  ReservedAt(i, t)' <= catalogue.stock[i]
<1> DEFINE m == extension[r].minutes
           h == reservation[e][i]
           w == Longer(h.window, m)
           stock == catalogue.stock[i]
           read == extension[r].stock[i]
           units == Units(reservation, i, Held(reservation, e, i, w))
<1>1. /\ extension[r].pc = "persisting" /\ lock = r /\ e \in Events /\ m \in Nat
      /\ ExtensionFound(Calendar(event), reservation, extension[r])
    BY ExtensionUnderWay, Numbers DEF Saves
<1>2. Judged(e, i).stock = read
    <2>1. booking[e].pc # "reserving"
        BY <1>1, Names DEF OccupancyInv, BookingsSound
    <2>2. \A q \in Requests : extension[q].pc = "persisting" /\ extension[q].event = e <=> q = r
        BY <1>1 DEF OccupancyInv, ExtensionsSound
    <2>3. (CHOOSE q \in Requests : extension[q].pc = "persisting" /\ extension[q].event = e) = r
        BY <2>2
    <2> QED BY <2>1, <2>3 DEF Judged
<1>3. read \in Nat /\ units + h.quantity <= read
    BY <1>1 DEF ExtensionFound
<1>4. stock \in Nat
    BY Numbers DEF OccupancyInv, RowsTyped, Catalogue
<1>5. h \in ReservationRow
    BY <1>1 DEF OccupancyInv, RowsTyped
<1>6. /\ reservation' = [reservation EXCEPT ![e] = Lengthened(reservation[e], m)]
      /\ reservation \in [Events -> [Items -> ReservationRow \cup {None}]]
    BY DEF Saves, SaveExtension, OccupancyInv, RowsTyped
<1>7. /\ reservation'[e] = Lengthened(reservation[e], m)
      /\ \A f \in Events \ {e} : reservation'[f] = reservation[f]
    BY <1>1, <1>6
<1>8. reservation'[e][i] = [h EXCEPT !.window = Longer(h.window, m)]
    BY <1>7 DEF Lengthened
<1>9. /\ reservation'[e][i].quantity = h.quantity /\ reservation'[e][i].window = w
    <2> HIDE DEF h, m
    <2> QED BY <1>5, <1>8 DEF ReservationRow
<1>10. reservation'[e][i] # None
    <2>1. w \in Windows
        <3>1. h.window \in Windows
            BY <1>5 DEF ReservationRow, Windows
        <3> HIDE DEF h, m
        <3> QED BY <1>1, <3>1, LongerWindow
    <2>2. reservation'[e][i] \in ReservationRow
        <3> HIDE DEF h, m
        <3> QED BY <1>5, <1>8, <2>1 DEF ReservationRow, Windows
    <2> QED BY <2>2, Names
<1>11. units \in Nat /\ h.quantity \in Nat
    <2>1. units \in Nat
        <3> HIDE DEF w
        <3> QED BY UnitsAreNat
    <2> QED BY <1>5, <2>1 DEF ReservationRow
<1>12. units + h.quantity <= stock
    <2>1. read <= stock
        BY <1>2, <1>3, <1>4
    <2> HIDE DEF units, h, read, stock
    <2> QED BY <1>3, <1>4, <1>11, <2>1
<1> HIDE DEF w, stock, h
<1>13. ReservedAt(i, t)' <= stock
    BY <1>1, <1>4, <1>7, <1>9, <1>10, <1>12, FitsAtEveryInstant DEF units
<1> QED BY <1>13 DEF stock

\* and no other step reserves anything.
LEMMA StepWithinStock ==
    ASSUME OccupancyInv, [Next]_vars
    PROVE  ReservesWithinStock
<1> SUFFICES ASSUME NEW e \in Events, NEW i \in Items,
                    reservation'[e][i] # reservation[e][i],
                    catalogue.stock[i] >= Judged(e, i).stock,
                    reservation'[e][i].quantity <= Judged(e, i).quantity,
                    NEW t \in reservation'[e][i].window.start
                                .. (reservation'[e][i].window.end - 1)
             PROVE  ReservedAt(i, t)' <= catalogue.stock[i]
    BY DEF ReservesWithinStock, Instants
<1>1. RowsTyped'
    BY NextKeepsInv DEF OccupancyInv
<1>2. reservation \in [Events -> [Items -> ReservationRow \cup {None}]]
    BY DEF OccupancyInv, RowsTyped
<1>3. CASE UNCHANGED rows
    BY <1>3 DEF rows
<1>4. ASSUME NEW f \in Events, Finalize(f) PROVE ReservedAt(i, t)' <= catalogue.stock[i]
    <2>1. f = e
        BY <1>2, <1>4 DEF Finalize
    <2> QED BY <1>1, <1>4, <2>1, FinalizeWithinStock
<1>5. ASSUME NEW f \in Events, ScheduleEvent(f) \/ StartEvent(f) \/ SettleEvent(f)
      PROVE  FALSE
    BY <1>5 DEF ScheduleEvent, StartEvent, SettleEvent
<1>6. ASSUME NEW r \in Requests, Saves(r) PROVE ReservedAt(i, t)' <= catalogue.stock[i]
    <2>1. /\ reservation' = [reservation EXCEPT ![extension[r].event] =
                Lengthened(reservation[extension[r].event], extension[r].minutes)]
        BY <1>6 DEF Saves, SaveExtension
    <2>2. e = extension[r].event
        BY <1>2, <2>1
    <2>3. reservation[e][i] # None
        <3> SUFFICES ASSUME reservation[e][i] = None PROVE FALSE
            OBVIOUS
        <3>1. reservation'[e] = Lengthened(reservation[e], extension[r].minutes)
            BY <1>2, <2>1, <2>2
        <3>2. reservation'[e][i] = None
            BY <3>1 DEF Lengthened
        <3> QED BY <3>2
    <2> QED BY <1>1, <1>6, <2>2, <2>3, SaveWithinStock
<1> QED BY <1>3, <1>4, <1>5, <1>6, StepsOnRows

\* Whatever the constants are, a booking or an extension that commits while
\* the catalogue is as it was checked never reserves more units than there
\* are, at any instant of its window.
THEOREM CommitsFitTheStock == Spec => BookedWithinStock
<1>1. OccupancyInv /\ [Next]_vars => ReservesWithinStock
    BY StepWithinStock
<1> QED BY <1>1, Inductive, PTL DEF Spec, BookedWithinStock

LEMMA SettledStays ==
    ASSUME OccupancyInv, [Next]_vars, NEW e \in Events, Exists(e), event[e].status = "SETTLED"
    PROVE  Exists(e)' /\ event'[e] = event[e] /\ snapshot'[e] = snapshot[e]
<1> SUFFICES event'[e] = event[e] /\ snapshot'[e] = snapshot[e]
    BY DEF Exists
<1>1. /\ event \in [Events -> EventRow \cup {None}]
      /\ snapshot \in [Events -> SnapshotRow \cup {None}]
    BY DEF OccupancyInv, RowsTyped
<1>2. CASE UNCHANGED rows
    BY <1>2 DEF rows
<1>3. ASSUME NEW f \in Events, Finalize(f) PROVE event'[e] = event[e] /\ snapshot'[e] = snapshot[e]
    <2>1. f # e
        BY <1>3, FinalizeTakesWindow
    <2> QED BY <1>1, <1>3, <2>1 DEF Finalize
<1>4. ASSUME NEW f \in Events, ScheduleEvent(f) PROVE event'[e] = event[e] /\ snapshot'[e] = snapshot[e]
    BY <1>1, <1>4 DEF ScheduleEvent
<1>5. ASSUME NEW f \in Events, StartEvent(f) PROVE event'[e] = event[e] /\ snapshot'[e] = snapshot[e]
    BY <1>1, <1>5 DEF StartEvent
<1>6. ASSUME NEW f \in Events, SettleEvent(f) PROVE event'[e] = event[e] /\ snapshot'[e] = snapshot[e]
    BY <1>1, <1>6 DEF SettleEvent, Operating
<1>7. ASSUME NEW r \in Requests, Saves(r) PROVE event'[e] = event[e] /\ snapshot'[e] = snapshot[e]
    <2>1. extension[r].event # e
        BY <1>7 DEF Saves, Operating
    <2> QED BY <1>1, <1>7, <2>1 DEF Saves, SaveExtension
<1> QED BY <1>2, <1>3, <1>4, <1>5, <1>6, <1>7, StepsOnRows

LEMMA SameTotals ==
    ASSUME NEW S, \A e \in S : snapshot'[e] = snapshot[e]
    PROVE  NetProfit(Totals(S))' = NetProfit(Totals(S))
<1>1. [e \in S |-> snapshot'[e].revenue] = [e \in S |-> snapshot[e].revenue]
    OBVIOUS
<1>2. [e \in S |-> DirectCost(e)'] = [e \in S |-> DirectCost(e)]
    BY DEF DirectCost
<1>3. Totals(S)' = Totals(S)
    BY <1>1, <1>2 DEF Totals
<1> QED BY <1>3 DEF NetProfit

\* A step changes what was settled only by settling.
LEMMA StepKeepsReports ==
    ASSUME OccupancyInv, [Next]_vars
    PROVE  ReportsFollowSettlements
<1> SUFFICES ASSUME NEW p \in Periods, NEW S, S = SettledIn(p)
             PROVE  /\ SettledIn(p)' \ S = {} => Pnl(p)' = Pnl(p)
                    /\ \A d \in {District[e] : e \in Events} :
                            d \notin {District[e] : e \in SettledIn(p)' \ S} =>
                                DistrictProfit(p, d)' = DistrictProfit(p, d)
    BY DEF ReportsFollowSettlements
<1>1. \A e \in S : e \in Events /\ e \in SettledIn(p)' /\ snapshot'[e] = snapshot[e]
    BY SettledStays DEF SettledIn
<1>2. ASSUME SettledIn(p)' \ S = {} PROVE Pnl(p)' = Pnl(p)
    <2>1. SettledIn(p)' = S
        BY <1>1, <1>2
    <2>2. NetProfit(Totals(S))' = NetProfit(Totals(S))
        BY <1>1, SameTotals
    <2> QED BY <2>1, <2>2 DEF Pnl
<1>3. ASSUME NEW d, d \notin {District[e] : e \in SettledIn(p)' \ S}
      PROVE  DistrictProfit(p, d)' = DistrictProfit(p, d)
    <2> DEFINE Q == {e \in S : District[e] = d}
    <2>1. {e \in SettledIn(p)' : District[e] = d} = Q
        BY <1>1, <1>3
    <2>2. NetProfit(Totals(Q))' = NetProfit(Totals(Q))
        <3>1. \A e \in Q : snapshot'[e] = snapshot[e]
            BY <1>1
        <3> HIDE DEF Q
        <3> QED BY <3>1, SameTotals
    <2> QED BY <2>1, <2>2 DEF DistrictProfit
<1> QED BY <1>2, <1>3

\* Reports of the past follow the snapshots of the settled shows: only a new
\* settlement changes one, and only those of its period and district.
THEOREM ReportsOfThePast == Spec => ReportsAreStable
<1>1. OccupancyInv /\ [Next]_vars => ReportsFollowSettlements
    BY StepKeepsReports
<1> QED BY <1>1, Inductive, PTL DEF Spec, ReportsAreStable
=============================================================================
