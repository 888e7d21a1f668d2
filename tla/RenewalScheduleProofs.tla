------------------------ MODULE RenewalScheduleProofs ------------------------
(***************************************************************************)
(* Proofs that the dates of RenewalSchedule and CalendarView are the right *)
(* ones for every schedule, entered date and sequence of days: the loops   *)
(* of the calendar end, what they reach is the first date of the schedule  *)
(* on or after a day, short months cost no more than MonthEndsBounded      *)
(* says, and the web client computes the dates that the server computes.   *)
(***************************************************************************)
EXTENDS CalendarView, NaturalsInduction, WellFoundedInduction, TLAPS

-----------------------------------------------------------------------------
(* Loops: a function by recursion exists if every turn lowers a measure.   *)

\* A set of natural numbers that is not empty has a least element.
LEMMA LeastIs ==
  ASSUME NEW T \in SUBSET Nat, T # {}
  PROVE  \E n \in T : \A m \in T : n <= m
<1> DEFINE R == OpToRel(<, Nat)
<1>1. IsWellFoundedOn(R, Nat)
  BY NatLessThanWellFounded
<1>2. \A x, y \in Nat : <<x, y>> \in R <=> x < y
  BY DEF OpToRel
<1> HIDE DEF R
<1>3. PICK x \in T : \A y \in T : <<y, x>> \notin R
  BY <1>1, WFMin
<1>4. \A y \in T : x <= y
  <2> SUFFICES ASSUME NEW y \in T PROVE x <= y
    OBVIOUS
  <2>1. x \in Nat /\ y \in Nat /\ ~(y < x)
    BY <1>2, <1>3
  <2> QED
    BY ONLY <2>1
<1> QED
  BY <1>4

\* A set of natural numbers that has 0 and the next of each of its numbers has all of them.
LEMMA AllNumbers ==
  ASSUME NEW T \in SUBSET Nat, 0 \in T, \A n \in T : n + 1 \in T
  PROVE  T = Nat
<1> SUFFICES ASSUME Nat \ T # {} PROVE FALSE
  OBVIOUS
<1>1. PICK n \in Nat \ T : \A m \in Nat \ T : n <= m
  BY LeastIs
<1>2. n \in Nat /\ n # 0 /\ n \notin T
  BY <1>1
<1>3. n - 1 \in Nat /\ ~(n <= n - 1) /\ (n - 1) + 1 = n
  BY ONLY <1>2
<1>4. n - 1 \in T
  BY <1>1, <1>3
<1> QED
  BY <1>2, <1>3, <1>4

\* One turn of a loop over the states of S: on from a state of D, out of any other.
Turn(S, D, step, out, f) == [c \in S |-> IF c \in D THEN f[step[c]] ELSE out[c]]

HasLoop(S, D, step, out) == \E f : f = Turn(S, D, step, out, f)

LEMMA LoopExists ==
  ASSUME NEW S, NEW V, NEW D \in SUBSET S, NEW step \in [S -> S], NEW out \in [S -> V],
         NEW m \in [S -> Nat], \A c \in D : m[step[c]] < m[c]
  PROVE  HasLoop(S, D, step, out)
<1> DEFINE Holds(f, c) == f[c] = IF c \in D THEN f[step[c]] ELSE out[c]
           Upto(f, n) == \A c \in S : m[c] < n => Holds(f, c)
           T == {n \in Nat : \E f \in [S -> V] : Upto(f, n)}
<1>1. T = Nat
  <2>1. 0 \in T
    <3>1. \A c \in S : ~(m[c] < 0)
      OBVIOUS
    <3>2. Upto(out, 0)
      BY <3>1
    <3> QED
      BY <3>2
  <2>2. ASSUME NEW n \in T PROVE n + 1 \in T
    <3>1. PICK f \in [S -> V] : Upto(f, n)
      BY <2>2
    <3> DEFINE g == Turn(S, D, step, out, f)
    <3>2. g \in [S -> V]
      BY DEF Turn
    <3>3. ASSUME NEW c \in S, m[c] < n + 1 PROVE Holds(g, c)
      <4>1. CASE c \in D
        <5>1. step[c] \in S /\ m[step[c]] < n
          <6>1. step[c] \in S /\ m[step[c]] < m[c] /\ m[step[c]] \in Nat /\ m[c] \in Nat /\ n \in Nat
            BY <4>1
          <6> QED
            BY <3>3, <6>1
        <5>2. Holds(f, step[c])
          BY <3>1, <5>1
        <5>3. g[step[c]] = f[step[c]] /\ g[c] = f[step[c]]
          BY <4>1, <5>1, <5>2 DEF Turn
        <5> QED
          BY <4>1, <5>3
      <4>2. CASE c \notin D
        BY <4>2 DEF Turn
      <4> QED
        BY <4>1, <4>2
    <3> HIDE DEF g
    <3>4. Upto(g, n + 1)
      BY <3>3
    <3> HIDE DEF Upto
    <3> QED
      BY <3>2, <3>4
  <2> HIDE DEF T
  <2>3. T \in SUBSET Nat
    BY DEF T
  <2> QED
    BY <2>1, <2>2, <2>3, AllNumbers
<1>2. ASSUME NEW f \in [S -> V], NEW g \in [S -> V], NEW n \in Nat, NEW k \in Nat,
             Upto(f, n), Upto(g, k), NEW c \in S, m[c] < n, m[c] < k
      PROVE  f[c] = g[c]
  <2> DEFINE Apart == {i \in Nat : \E x \in S : m[x] = i /\ m[x] < n /\ m[x] < k /\ f[x] # g[x]}
  <2> SUFFICES ASSUME Apart # {} PROVE FALSE
    BY <1>2
  <2>1. PICK i \in Apart : \A j \in Apart : i <= j
    BY LeastIs
  <2>2. PICK x \in S : m[x] = i /\ m[x] < n /\ m[x] < k /\ f[x] # g[x]
    BY <2>1
  <2>3. Holds(f, x) /\ Holds(g, x)
    BY <1>2, <2>2
  <2>4. x \in D /\ f[step[x]] # g[step[x]]
    BY <2>2, <2>3
  <2>5. step[x] \in S /\ m[step[x]] < i /\ m[step[x]] < n /\ m[step[x]] < k /\ m[step[x]] \in Nat
    <3>1. step[x] \in S /\ m[step[x]] < m[x] /\ m[step[x]] \in Nat /\ m[x] \in Nat
      BY <2>4
    <3> QED
      BY <2>2, <3>1
  <2>6. m[step[x]] \in Apart
    BY <2>4, <2>5
  <2> QED
    BY <2>1, <2>5, <2>6
<1>3. \A n \in Nat : \E f \in [S -> V] : Upto(f, n)
  BY <1>1
<1> DEFINE F(n) == CHOOSE f \in [S -> V] : Upto(f, n)
<1>4. \A n \in Nat : F(n) \in [S -> V] /\ Upto(F(n), n)
  BY <1>3
<1> DEFINE f == [c \in S |-> F(m[c] + 1)[c]]
<1>5. f \in [S -> V]
  <2>1. ASSUME NEW c \in S PROVE F(m[c] + 1)[c] \in V
    <3>1. m[c] + 1 \in Nat
      OBVIOUS
    <3> HIDE DEF F
    <3> QED
      BY <1>4, <3>1
  <2> HIDE DEF F
  <2> QED
    BY <2>1
<1>6. ASSUME NEW c \in S PROVE Holds(f, c)
  <2>1. m[c] \in Nat /\ m[c] + 1 \in Nat /\ m[c] < m[c] + 1
    OBVIOUS
  <2> HIDE DEF F, Upto
  <2>2. F(m[c] + 1) \in [S -> V] /\ Upto(F(m[c] + 1), m[c] + 1)
    BY <1>4, <2>1
  <2>3. Holds(F(m[c] + 1), c)
    BY <2>1, <2>2 DEF Upto
  <2>4. CASE c \notin D
    BY <2>3, <2>4
  <2>5. CASE c \in D
    <3>1. step[c] \in S /\ m[step[c]] < m[c] /\ m[step[c]] \in Nat
      BY <2>5
    <3>2. m[step[c]] + 1 \in Nat /\ m[step[c]] < m[step[c]] + 1 /\ m[step[c]] < m[c] + 1
      BY <2>1, <3>1
    <3>3. F(m[step[c]] + 1) \in [S -> V] /\ Upto(F(m[step[c]] + 1), m[step[c]] + 1)
      BY <1>4, <3>2
    <3>4. F(m[step[c]] + 1)[step[c]] = F(m[c] + 1)[step[c]]
      BY <1>2, <2>1, <2>2, <3>1, <3>2, <3>3
    <3> QED
      BY <2>3, <2>5, <3>1, <3>4
  <2> QED
    BY <2>4, <2>5
<1>7. f = Turn(S, D, step, out, f)
  <2> HIDE DEF F
  <2>1. \A c \in S : f[c] = IF c \in D THEN f[step[c]] ELSE out[c]
    BY <1>6
  <2> HIDE DEF f
  <2> QED
    BY <1>5, <2>1 DEF Turn
<1> HIDE DEF f
<1> QED
  BY <1>7 DEF HasLoop

\* Whatever such a loop hands out is one of the values it gets out with.
LEMMA LoopType ==
  ASSUME NEW S, NEW V, NEW D \in SUBSET S, NEW step \in [S -> S], NEW out \in [S -> V],
         NEW m \in [S -> Nat], \A c \in D : m[step[c]] < m[c],
         NEW f, f = Turn(S, D, step, out, f)
  PROVE  f \in [S -> V]
<1>1. /\ DOMAIN f = S /\ f = [c \in S |-> f[c]]
      /\ \A c \in S : f[c] = IF c \in D THEN f[step[c]] ELSE out[c]
  BY DEF Turn
<1> DEFINE Outside == {i \in Nat : \E x \in S : m[x] = i /\ f[x] \notin V}
<1>2. Outside = {}
  <2> SUFFICES ASSUME Outside # {} PROVE FALSE
    OBVIOUS
  <2>1. PICK i \in Outside : \A j \in Outside : i <= j
    BY LeastIs
  <2>2. PICK x \in S : m[x] = i /\ f[x] \notin V
    BY <2>1
  <2>3. x \in D /\ f[step[x]] \notin V
    BY <1>1, <2>2
  <2>4. step[x] \in S /\ m[step[x]] \in Nat /\ i \in Nat /\ m[step[x]] < i
    BY <2>2, <2>3
  <2>5. m[step[x]] \in Outside
    BY <2>3, <2>4
  <2> QED
    BY <2>1, <2>4, <2>5
<1>3. \A c \in S : f[c] \in V
  BY <1>2
<1> QED
  BY <1>1, <1>3

-----------------------------------------------------------------------------
(* The calendar: the order of dates, and AddDays.                          *)

LEMMA MonthLengths ==
  \A y, m : DaysInMonth(y, m) \in 28..31
  BY DEF DaysInMonth

LEMMA DateIs ==
  ASSUME NEW c \in Date
  PROVE  /\ c.year \in Int /\ c.month \in 1..12 /\ c.day \in 1..31
         /\ c.day <= DaysInMonth(c.year, c.month)
         /\ c = [year |-> c.year, month |-> c.month, day |-> c.day]
  BY DEF Date

LEMMA DateMade ==
  ASSUME NEW y \in Int, NEW m \in 1..12, NEW d \in 1..DaysInMonth(y, m)
  PROVE  [year |-> y, month |-> m, day |-> d] \in Date
<1>1. DaysInMonth(y, m) \in 28..31
  BY MonthLengths
<1>2. d \in 1..31 /\ d <= DaysInMonth(y, m)
  BY ONLY <1>1, d \in 1..DaysInMonth(y, m)
<1> HIDE DEF DaysInMonth
<1> QED
  BY <1>2 DEF Date

LEMMA NextMonthIs ==
  ASSUME NEW c \in Date
  PROVE  /\ NextMonth(c) \in Date /\ NextMonth(c).day = 1
         /\ MonthNumber(NextMonth(c)) = MonthNumber(c) + 1
<1>1. c.year \in Int /\ c.month \in 1..12
  BY DateIs
<1>2. CASE c.month < 12
  <2>1. c.month + 1 \in 1..12
    BY <1>1, <1>2
  <2>2. 1 \in 1..DaysInMonth(c.year, c.month + 1)
    BY MonthLengths
  <2>3. [year |-> c.year, month |-> c.month + 1, day |-> 1] \in Date
    BY <1>1, <2>1, <2>2, DateMade
  <2>4. NextMonth(c) = [year |-> c.year, month |-> c.month + 1, day |-> 1]
    BY <1>2 DEF NextMonth
  <2> QED
    BY <1>1, <2>3, <2>4 DEF MonthNumber
<1>3. CASE ~(c.month < 12)
  <2>1. c.year + 1 \in Int /\ 1 \in 1..12 /\ c.month = 12
    BY <1>1, <1>3
  <2>2. 1 \in 1..DaysInMonth(c.year + 1, 1)
    BY MonthLengths
  <2>3. [year |-> c.year + 1, month |-> 1, day |-> 1] \in Date
    BY <2>1, <2>2, DateMade
  <2>4. NextMonth(c) = [year |-> c.year + 1, month |-> 1, day |-> 1]
    BY <1>3 DEF NextMonth
  <2> QED
    BY <1>1, <2>1, <2>3, <2>4 DEF MonthNumber
<1> QED
  BY <1>2, <1>3

LEMMA DaysLeftIs ==
  ASSUME NEW c \in Date
  PROVE  DaysLeft(c) \in Nat /\ c.day + DaysLeft(c) = DaysInMonth(c.year, c.month)
<1>1. c.day \in 1..31 /\ c.day <= DaysInMonth(c.year, c.month) /\ DaysInMonth(c.year, c.month) \in 28..31
  BY DateIs, MonthLengths
<1> QED
  BY <1>1 DEF DaysLeft

\* AddDays ends and returns a date: the equation of its recursion holds.
LEMMA AddDaysIs ==
  ASSUME NEW c \in Date, NEW n \in Nat
  PROVE  /\ AddDays(c, n) \in Date
         /\ AddDays(c, n) = IF n <= DaysLeft(c) THEN [c EXCEPT !.day = @ + n]
                            ELSE AddDays(NextMonth(c), n - DaysLeft(c) - 1)
<1> DEFINE S == Date \X Nat
           D == {p \in S : ~(p[2] <= DaysLeft(p[1]))}
           step == [p \in S |-> IF p \in D THEN <<NextMonth(p[1]), p[2] - DaysLeft(p[1]) - 1>> ELSE p]
           out == [p \in S |-> IF p \in D THEN p[1] ELSE [p[1] EXCEPT !.day = @ + p[2]]]
           m == [p \in S |-> p[2]]
<1>1. ASSUME NEW p \in D
      PROVE  <<NextMonth(p[1]), p[2] - DaysLeft(p[1]) - 1>> \in S /\ p[2] - DaysLeft(p[1]) - 1 < p[2]
  <2>1. p[1] \in Date /\ p[2] \in Nat /\ ~(p[2] <= DaysLeft(p[1]))
    OBVIOUS
  <2>2. NextMonth(p[1]) \in Date /\ DaysLeft(p[1]) \in Nat
    BY <2>1, NextMonthIs, DaysLeftIs
  <2>3. p[2] - DaysLeft(p[1]) - 1 \in Nat /\ p[2] - DaysLeft(p[1]) - 1 < p[2]
    BY ONLY <2>1, <2>2
  <2> QED
    BY <2>2, <2>3
<1>2. step \in [S -> S]
  BY <1>1
<1>3. out \in [S -> Date]
  <2>1. ASSUME NEW p \in S, p \notin D PROVE [p[1] EXCEPT !.day = @ + p[2]] \in Date
    <3>1. p[1] \in Date /\ p[2] \in Nat /\ p[2] <= DaysLeft(p[1])
      BY <2>1
    <3> DEFINE e == p[1]
    <3>2. /\ e.year \in Int /\ e.month \in 1..12 /\ e.day \in 1..31
          /\ e = [year |-> e.year, month |-> e.month, day |-> e.day]
      BY <3>1, DateIs
    <3>3. DaysLeft(e) \in Nat /\ e.day + DaysLeft(e) = DaysInMonth(e.year, e.month)
      BY <3>1, DaysLeftIs
    <3>4. e.day + p[2] \in 1..DaysInMonth(e.year, e.month)
      BY <3>1, <3>2, <3>3, MonthLengths
    <3>5. [e EXCEPT !.day = @ + p[2]] = [year |-> e.year, month |-> e.month, day |-> e.day + p[2]]
      BY <3>2
    <3> QED
      BY <3>2, <3>4, <3>5, DateMade
  <2>2. \A p \in D : p[1] \in Date
    OBVIOUS
  <2> HIDE DEF D
  <2> QED
    BY <2>1, <2>2
<1>4. m \in [S -> Nat] /\ D \in SUBSET S
  OBVIOUS
<1>5. \A p \in D : m[step[p]] < m[p]
  BY <1>1
<1> DEFINE E(f) == [p \in S |-> IF p[2] <= DaysLeft(p[1]) THEN [p[1] EXCEPT !.day = @ + p[2]]
                                 ELSE f[<<NextMonth(p[1]), p[2] - DaysLeft(p[1]) - 1>>]]
<1>6. ASSUME NEW f PROVE Turn(S, D, step, out, f) = E(f)
  <2>1. ASSUME NEW p \in S
        PROVE  (IF p \in D THEN f[step[p]] ELSE out[p])
                 = IF p[2] <= DaysLeft(p[1]) THEN [p[1] EXCEPT !.day = @ + p[2]]
                   ELSE f[<<NextMonth(p[1]), p[2] - DaysLeft(p[1]) - 1>>]
    <3>1. p \in D <=> ~(p[2] <= DaysLeft(p[1]))
      BY <2>1
    <3> QED
      BY <2>1, <3>1
  <2> HIDE DEF S, D, step, out
  <2> QED
    BY <2>1 DEF Turn
<1> HIDE DEF S, D, step, out, m
<1>7. \E f : f = E(f)
  <2>1. HasLoop(S, D, step, out)
    BY ONLY <1>2, <1>3, <1>4, <1>5, LoopExists, Zenon
  <2> QED
    BY <1>6, <2>1 DEF HasLoop
<1>8. DaysAfter = CHOOSE f : f = E(f)
  BY DEF DaysAfter, S
<1>9. DaysAfter = E(DaysAfter)
  BY <1>7, <1>8
<1>10. DaysAfter \in [S -> Date]
  <2>1. DaysAfter = Turn(S, D, step, out, DaysAfter)
    BY <1>6, <1>9
  <2> QED
    BY ONLY <1>2, <1>3, <1>4, <1>5, <2>1, LoopType, Zenon
<1>11. \A a \in Date, k \in Nat :
         DaysAfter[<<a, k>>] = IF k <= DaysLeft(a) THEN [a EXCEPT !.day = @ + k]
                               ELSE DaysAfter[<<NextMonth(a), k - DaysLeft(a) - 1>>]
  <2> TAKE a \in Date, k \in Nat
  <2>1. <<a, k>> \in S /\ <<a, k>>[1] = a /\ <<a, k>>[2] = k
    BY DEF S
  <2>2. \A p \in S : DaysAfter[p] = IF p[2] <= DaysLeft(p[1]) THEN [p[1] EXCEPT !.day = @ + p[2]]
                                 ELSE DaysAfter[<<NextMonth(p[1]), p[2] - DaysLeft(p[1]) - 1>>]
    BY <1>9
  <2> QED
    BY <2>1, <2>2
<1> QED
  BY <1>10, <1>11 DEF AddDays, S

LEMMA MonthOrder ==
  ASSUME NEW y \in Int, NEW z \in Int, NEW m \in 1..12, NEW n \in 1..12
  PROVE  /\ 12 * y + m \in Int
         /\ 12 * y + m = 12 * z + n <=> y = z /\ m = n
         /\ 12 * y + m < 12 * z + n <=> y < z \/ (y = z /\ m < n)
  OBVIOUS

LEMMA DayOrder ==
  ASSUME NEW y \in Int, NEW z \in Int, NEW m \in 1..31, NEW n \in 1..31
  PROVE  /\ 31 * y + m \in Int
         /\ 31 * y + m = 31 * z + n <=> y = z /\ m = n
         /\ 31 * y + m < 31 * z + n <=> y < z \/ (y = z /\ m < n)
  OBVIOUS

\* Dates are in the order of their day numbers.
LEMMA DayNumberOrders ==
  ASSUME NEW a \in Date, NEW b \in Date
  PROVE  /\ MonthNumber(a) \in Int /\ DayNumber(a) \in Int
         /\ Before(a, b) <=> DayNumber(a) < DayNumber(b)
         /\ a = b <=> DayNumber(a) = DayNumber(b)
         /\ MonthNumber(a) < MonthNumber(b) => DayNumber(a) < DayNumber(b)
<1>1. /\ a.year \in Int /\ a.month \in 1..12 /\ a.day \in 1..31
      /\ b.year \in Int /\ b.month \in 1..12 /\ b.day \in 1..31
  BY DateIs
<1>2. a = b <=> a.year = b.year /\ a.month = b.month /\ a.day = b.day
  <2>1. /\ a = [year |-> a.year, month |-> a.month, day |-> a.day]
        /\ b = [year |-> b.year, month |-> b.month, day |-> b.day]
    BY DateIs
  <2> QED
    BY <2>1
<1>3. /\ MonthNumber(a) \in Int /\ MonthNumber(b) \in Int
      /\ MonthNumber(a) = MonthNumber(b) <=> a.year = b.year /\ a.month = b.month
      /\ MonthNumber(a) < MonthNumber(b) <=> a.year < b.year \/ (a.year = b.year /\ a.month < b.month)
  BY <1>1, MonthOrder DEF MonthNumber
<1>4. /\ DayNumber(a) \in Int
      /\ DayNumber(a) = DayNumber(b) <=> MonthNumber(a) = MonthNumber(b) /\ a.day = b.day
      /\ DayNumber(a) < DayNumber(b)
           <=> MonthNumber(a) < MonthNumber(b) \/ (MonthNumber(a) = MonthNumber(b) /\ a.day < b.day)
  <2>1. PICK y \in Int, z \in Int, m \in 1..31, n \in 1..31 :
          y = MonthNumber(a) /\ z = MonthNumber(b) /\ m = a.day /\ n = b.day
    BY <1>1, <1>3
  <2>2. /\ 31 * y + m \in Int
        /\ 31 * y + m = 31 * z + n <=> y = z /\ m = n
        /\ 31 * y + m < 31 * z + n <=> y < z \/ (y = z /\ m < n)
    BY DayOrder
  <2>3. DayNumber(a) = 31 * y + m /\ DayNumber(b) = 31 * z + n
    BY <2>1 DEF DayNumber
  <2> QED
    BY ONLY <2>1, <2>2, <2>3
<1> QED
  BY <1>2, <1>3, <1>4 DEF Before

\* The day n days later, within the month.
LEMMA LaterInMonth ==
  ASSUME NEW c \in Date, NEW n \in Nat, n <= DaysLeft(c)
  PROVE  /\ AddDays(c, n) \in Date
         /\ AddDays(c, n) = [year |-> c.year, month |-> c.month, day |-> c.day + n]
         /\ AddDays(c, n).year = c.year /\ AddDays(c, n).month = c.month
         /\ AddDays(c, n).day = c.day + n
         /\ DaysLeft(AddDays(c, n)) = DaysLeft(c) - n
         /\ NextMonth(AddDays(c, n)) = NextMonth(c)
         /\ DayNumber(AddDays(c, n)) = DayNumber(c) + n
<1>1. AddDays(c, n) = [c EXCEPT !.day = @ + n] /\ AddDays(c, n) \in Date
  BY AddDaysIs
<1>2. /\ c = [year |-> c.year, month |-> c.month, day |-> c.day]
      /\ c.year \in Int /\ c.month \in Int /\ c.day \in Int
  BY DateIs
<1>3. AddDays(c, n) = [year |-> c.year, month |-> c.month, day |-> c.day + n]
  BY <1>1, <1>2
<1> DEFINE d == AddDays(c, n)
<1>4. d.year = c.year /\ d.month = c.month /\ d.day = c.day + n
  BY <1>3
<1> HIDE DEF d
<1>5. NextMonth(d) = NextMonth(c)
  BY <1>4 DEF NextMonth
<1>6. DaysInMonth(c.year, c.month) \in Int
  BY MonthLengths
<1>7. DaysLeft(d) = DaysLeft(c) - n
  BY <1>2, <1>4, <1>6 DEF DaysLeft
<1>8. DayNumber(d) = DayNumber(c) + n
  BY <1>2, <1>4 DEF DayNumber, MonthNumber
<1> QED
  BY <1>1, <1>3, <1>4, <1>5, <1>7, <1>8 DEF d

LEMMA AddDaysGrows ==
  ASSUME NEW c \in Date, NEW n \in Nat
  PROVE  DayNumber(AddDays(c, n)) >= DayNumber(c) + n
<1> DEFINE Short == {k \in Nat : \E x \in Date : ~(DayNumber(AddDays(x, k)) >= DayNumber(x) + k)}
<1> SUFFICES ASSUME Short # {} PROVE FALSE
  OBVIOUS
<1>1. PICK k \in Short : \A j \in Short : k <= j
  BY LeastIs
<1>2. PICK x \in Date : ~(DayNumber(AddDays(x, k)) >= DayNumber(x) + k)
  BY <1>1
<1>3. k \in Nat /\ DayNumber(x) \in Int /\ DaysLeft(x) \in Nat
  BY DayNumberOrders, DaysLeftIs
<1>4. CASE k <= DaysLeft(x)
  BY <1>2, <1>3, <1>4, LaterInMonth
<1>5. CASE ~(k <= DaysLeft(x))
  <2> DEFINE y == NextMonth(x)
             j == k - DaysLeft(x) - 1
  <2>1. y \in Date /\ y.day = 1 /\ MonthNumber(y) = MonthNumber(x) + 1
    BY NextMonthIs
  <2>2. j \in Nat /\ j < k
    BY <1>3, <1>5
  <2>3. AddDays(x, k) = AddDays(y, j)
    BY <1>3, <1>5, AddDaysIs
  <2> HIDE DEF y, j
  <2>4. DayNumber(AddDays(y, j)) >= DayNumber(y) + j
    BY <1>1, <2>1, <2>2
  <2>5. DayNumber(y) + j >= DayNumber(x) + k
    <3>1. /\ MonthNumber(x) \in Int /\ x.day \in 1..31
          /\ x.day + DaysLeft(x) = DaysInMonth(x.year, x.month) /\ DaysInMonth(x.year, x.month) \in 28..31
      BY DayNumberOrders, DateIs, DaysLeftIs, MonthLengths
    <3> DEFINE l == DaysInMonth(x.year, x.month)
    <3>2. l \in 28..31 /\ x.day + DaysLeft(x) = l
      BY <3>1
    <3> HIDE DEF l
    <3>3. j = k - DaysLeft(x) - 1
      BY DEF j
    <3>4. 31 * (MonthNumber(x) + 1) + 1 + j >= 31 * MonthNumber(x) + x.day + k
      BY ONLY <1>3, <3>1, <3>2, <3>3
    <3> QED
      BY <2>1, <3>4 DEF DayNumber
  <2>6. DayNumber(AddDays(y, j)) \in Int /\ DayNumber(y) \in Int
    BY <2>1, <2>2, AddDaysIs, DayNumberOrders
  <2> QED
    BY <1>2, <1>3, <2>2, <2>3, <2>4, <2>5, <2>6
<1> QED
  BY <1>4, <1>5

LEMMA AddDaysAdds ==
  ASSUME NEW c \in Date, NEW n \in Nat, NEW k \in Nat
  PROVE  AddDays(AddDays(c, n), k) = AddDays(c, n + k)
<1> DEFINE Wrong == {i \in Nat : \E x \in Date, j \in Nat : AddDays(AddDays(x, i), j) # AddDays(x, i + j)}
<1> SUFFICES ASSUME Wrong # {} PROVE FALSE
  OBVIOUS
<1>1. PICK i \in Wrong : \A j \in Wrong : i <= j
  BY LeastIs
<1>2. PICK x \in Date, j \in Nat : AddDays(AddDays(x, i), j) # AddDays(x, i + j)
  BY <1>1
<1>3. i \in Nat /\ j \in Nat /\ i + j \in Nat /\ DaysLeft(x) \in Nat
  BY DaysLeftIs
<1> DEFINE l == DaysLeft(x)
<1>4. CASE i <= l
  <2> DEFINE d == AddDays(x, i)
  <2>1. /\ d \in Date /\ DaysLeft(d) = l - i /\ NextMonth(d) = NextMonth(x)
        /\ d.year = x.year /\ d.month = x.month /\ d.day = x.day + i
    BY <1>3, <1>4, LaterInMonth
  <2>2. CASE j <= l - i
    <3>1. i + j <= l
      BY <1>3, <1>4, <2>2
    <3>2. AddDays(x, i + j) = [year |-> x.year, month |-> x.month, day |-> x.day + (i + j)]
      BY <1>3, <3>1, LaterInMonth
    <3> HIDE DEF d
    <3>3. AddDays(d, j) = [year |-> d.year, month |-> d.month, day |-> d.day + j]
      BY <1>3, <2>1, <2>2, LaterInMonth
    <3>4. x.day \in Int /\ (x.day + i) + j = x.day + (i + j)
      BY <1>3, DateIs
    <3> QED
      BY <1>2, <2>1, <3>2, <3>3, <3>4 DEF d
  <2>3. CASE ~(j <= l - i)
    <3>1. ~(i + j <= l) /\ j - (l - i) - 1 = (i + j) - l - 1
      BY <1>3, <1>4, <2>3
    <3>2. AddDays(d, j) = AddDays(NextMonth(d), j - (l - i) - 1)
      BY <1>3, <2>1, <2>3, AddDaysIs
    <3>3. AddDays(x, i + j) = AddDays(NextMonth(x), (i + j) - l - 1)
      BY <1>3, <3>1, AddDaysIs
    <3> QED
      BY <1>2, <2>1, <3>1, <3>2, <3>3
  <2> QED
    BY <2>2, <2>3
<1>5. CASE ~(i <= l)
  <2> DEFINE y == NextMonth(x)
             h == i - l - 1
  <2>1. h \in Nat /\ h < i /\ ~(i + j <= l) /\ h + j = (i + j) - l - 1
    BY <1>3, <1>5
  <2>2. AddDays(x, i) = AddDays(y, h) /\ AddDays(x, i + j) = AddDays(y, (i + j) - l - 1)
    BY <1>3, <1>5, <2>1, AddDaysIs
  <2>3. y \in Date
    BY NextMonthIs
  <2> HIDE DEF y, h
  <2>4. h \notin Wrong
    BY <1>1, <1>3, <2>1
  <2>5. AddDays(AddDays(y, h), j) = AddDays(y, h + j)
    BY <1>3, <2>1, <2>3, <2>4
  <2> QED
    BY <1>2, <2>1, <2>2, <2>5
<1> QED
  BY <1>4, <1>5

\* The day after a date is the first one that comes after it.
LEMMA DayAfter ==
  ASSUME NEW c \in Date, NEW x \in Date
  PROVE  AddDays(c, 1) \in Date /\ (Before(x, AddDays(c, 1)) <=> ~Before(c, x))
<1> DEFINE n == AddDays(c, 1)
<1>1. n \in Date
  BY AddDaysIs
<1>2. DaysLeft(c) \in Nat /\ c.day + DaysLeft(c) = DaysInMonth(c.year, c.month)
  BY DaysLeftIs
<1>3. /\ c.year \in Int /\ c.month \in 1..12 /\ c.day \in 1..31
      /\ x.year \in Int /\ x.month \in 1..12 /\ x.day \in 1..31
      /\ x.day <= DaysInMonth(x.year, x.month)
  BY DateIs
<1>4. CASE 1 <= DaysLeft(c)
  <2>1. n.year = c.year /\ n.month = c.month /\ n.day = c.day + 1
    BY <1>4, LaterInMonth
  <2> HIDE DEF n
  <2> QED
    BY <1>1, <1>3, <2>1 DEF Before, n
<1>5. CASE ~(1 <= DaysLeft(c))
  <2>1. n = AddDays(NextMonth(c), 0) /\ c.day = DaysInMonth(c.year, c.month)
    <3>1. DaysLeft(c) = 0 /\ 1 - DaysLeft(c) - 1 = 0
      BY <1>2, <1>5
    <3> QED
      BY <1>2, <1>3, <1>5, <3>1, AddDaysIs
  <2>2. NextMonth(c) \in Date /\ NextMonth(c).day = 1 /\ MonthNumber(NextMonth(c)) = MonthNumber(c) + 1
    BY NextMonthIs
  <2>3. n = NextMonth(c)
    <3>1. DaysLeft(NextMonth(c)) \in Nat
      BY <2>2, DaysLeftIs
    <3> DEFINE f == NextMonth(c)
    <3>2. AddDays(f, 0) = [year |-> f.year, month |-> f.month, day |-> f.day + 0]
      BY <2>2, <3>1, LaterInMonth
    <3>3. f = [year |-> f.year, month |-> f.month, day |-> f.day] /\ f.day + 0 = f.day
      BY <2>2, DateIs
    <3> QED
      BY <2>1, <3>2, <3>3
  <2>4. Before(x, n) <=> DayNumber(x) < 31 * (MonthNumber(c) + 1) + 1
    BY <2>2, <2>3, DayNumberOrders DEF DayNumber
  <2>5. MonthNumber(c) = MonthNumber(x) => c.year = x.year /\ c.month = x.month
    BY <1>3 DEF MonthNumber
  <2>6. MonthNumber(c) = MonthNumber(x) => x.day <= c.day
    BY <1>3, <2>1, <2>5
  <2>7. MonthNumber(c) \in Int /\ MonthNumber(x) \in Int
    BY DayNumberOrders
  <2> DEFINE C == MonthNumber(c)
             X == MonthNumber(x)
  <2>8. C \in Int /\ X \in Int /\ (C = X => x.day <= c.day)
    BY <2>6, <2>7
  <2>9. Before(c, x) <=> 31 * C + c.day < 31 * X + x.day
    BY DayNumberOrders DEF DayNumber
  <2>10. Before(x, n) <=> 31 * X + x.day < 31 * (C + 1) + 1
    BY <2>4 DEF DayNumber
  <2> HIDE DEF C, X
  <2>11. 31 * X + x.day < 31 * (C + 1) + 1 <=> ~(31 * C + c.day < 31 * X + x.day)
    BY ONLY <1>3, <2>8
  <2> QED
    BY <1>1, <2>9, <2>10, <2>11
<1> QED
  BY <1>4, <1>5

-----------------------------------------------------------------------------
(* Schedules: the dates one charges on, and the first of them on a day or  *)
(* after it.                                                               *)

LEMMA ScheduleIs ==
  ASSUME NEW s \in Schedule
  PROVE  \/ /\ s.type = "day" \/ s.type = "week" \/ s.type = "month" \/ s.type = "year"
            /\ s.type \in IntervalUnit /\ s.count \in Nat /\ s.count > 0
            /\ s.type # "monthly_date" /\ s.type # "yearly_date"
         \/ s.type = "monthly_date" /\ s.day \in 1..31 /\ s.type \notin IntervalUnit
         \/ /\ s.type = "yearly_date" /\ s.month \in 1..12 /\ s.day \in 1..31
            /\ s.type \notin IntervalUnit
  BY DEF Schedule, IntervalUnit

\* A date of a month on a day that it may not have: its last day then.
LEMMA BuildDay ==
  ASSUME NEW y \in Int, NEW m \in 1..12, NEW d \in 1..31
  PROVE  /\ BuildDate(y, m, d).day \in 1..DaysInMonth(y, m) /\ BuildDate(y, m, d).day <= d
         /\ BuildDate(y, m, d).day < d => BuildDate(y, m, d).day = DaysInMonth(y, m)
<1>1. DaysInMonth(y, m) \in 28..31
  BY MonthLengths
<1>2. ~(d < 1) /\ d \in Int
  OBVIOUS
<1>3. ClampDay(y, m, d) = IF d > DaysInMonth(y, m) THEN DaysInMonth(y, m) ELSE d
  BY <1>2 DEF ClampDay
<1> QED
  BY <1>1, <1>3 DEF BuildDate

LEMMA BuildDateIs ==
  ASSUME NEW y \in Int, NEW m \in 1..12, NEW d \in 1..31
  PROVE  /\ BuildDate(y, m, d) \in Date
         /\ BuildDate(y, m, d).year = y /\ BuildDate(y, m, d).month = m
  BY BuildDay, DateMade DEF BuildDate

\* The same, with what it asks of the year, the month and the day under one name.
Buildable(y, m, d) == y \in Int /\ m \in 1..12 /\ d \in 1..31

LEMMA DateIsBuilt ==
  ASSUME NEW y, NEW m, NEW d, Buildable(y, m, d)
  PROVE  /\ BuildDate(y, m, d) \in Date
         /\ BuildDate(y, m, d).year = y /\ BuildDate(y, m, d).month = m
<1>1. y \in Int /\ m \in 1..12 /\ d \in 1..31
  BY DEF Buildable
<1> QED
  BY <1>1, BuildDay, DateMade DEF BuildDate

LEMMA BuiltAgain ==
  ASSUME NEW c \in Date
  PROVE  BuildDate(c.year, c.month, c.day) = c
<1>1. /\ c.year \in Int /\ c.month \in 1..12 /\ c.day \in 1..31
      /\ c.day <= DaysInMonth(c.year, c.month) /\ DaysInMonth(c.year, c.month) \in Int
      /\ c = [year |-> c.year, month |-> c.month, day |-> c.day]
  BY DateIs, MonthLengths
<1>2. ClampDay(c.year, c.month, c.day) = c.day
  BY <1>1 DEF ClampDay
<1> QED
  BY <1>1, <1>2 DEF BuildDate

LEMMA MonthIndex ==
  ASSUME NEW i \in Int
  PROVE  (i % 12) + 1 \in 1..12 /\ i \div 12 \in Int /\ 12 * (i \div 12) + (i % 12) = i
  OBVIOUS

BuiltOn(d, c) == c = BuildDate(c.year, c.month, d)

LEMMA AddMonthsIs ==
  ASSUME NEW c \in Date, NEW n \in Int, NEW d \in 1..31
  PROVE  /\ AddMonthsPreservePreferredDay(c, n, d) \in Date
         /\ MonthNumber(AddMonthsPreservePreferredDay(c, n, d)) = MonthNumber(c) + n
         /\ BuiltOn(d, AddMonthsPreservePreferredDay(c, n, d))
<1> DEFINE i == c.month - 1 + n
           y == c.year + (i \div 12)
           m == (i % 12) + 1
<1>1. c.year \in Int /\ c.month \in Int /\ i \in Int
  BY DateIs
<1>2. m \in 1..12 /\ i \div 12 \in Int /\ 12 * (i \div 12) + (i % 12) = i
  BY <1>1, MonthIndex
<1>3. AddMonthsPreservePreferredDay(c, n, d) = BuildDate(y, m, d)
  BY DEF AddMonthsPreservePreferredDay
<1>4. y \in Int
  BY <1>1, <1>2
<1>5. 12 * y + m = 12 * c.year + c.month + n
  <2>1. PICK q \in Int, r \in Int : q = i \div 12 /\ r = i % 12
    BY <1>1, <1>2
  <2>2. 12 * q + r = c.month - 1 + n
    BY <1>2, <2>1
  <2>3. 12 * (c.year + q) + (r + 1) = 12 * c.year + c.month + n
    BY ONLY <1>1, <2>2, q \in Int, r \in Int, n \in Int
  <2> QED
    BY <2>1, <2>3
<1>6. Buildable(y, m, d)
  BY <1>2, <1>4 DEF Buildable
<1> HIDE DEF y, m
<1>7. BuildDate(y, m, d) \in Date /\ BuildDate(y, m, d).year = y /\ BuildDate(y, m, d).month = m
  BY ONLY <1>6, DateIsBuilt
<1> QED
  BY <1>3, <1>5, <1>7 DEF MonthNumber, BuiltOn

\* A date built on a day is known by its month.
LEMMA SameBuilt ==
  ASSUME NEW a \in Date, NEW b \in Date, NEW d,
         BuiltOn(d, a), BuiltOn(d, b),
         MonthNumber(a) = MonthNumber(b)
  PROVE  a = b
<1>1. a.year \in Int /\ a.month \in 1..12 /\ b.year \in Int /\ b.month \in 1..12
  BY DateIs
<1>2. a.year = b.year /\ a.month = b.month
  BY <1>1, MonthOrder DEF MonthNumber
<1> QED
  BY <1>2 DEF BuiltOn

Interval(s) == s \in Schedule /\ s.type \in IntervalUnit

\* The dates of an interval schedule one after the other: each turn of the loop goes
\* from one to the next.
LEMMA OccurrenceIs ==
  ASSUME NEW s, Interval(s), NEW a \in Date, NEW k \in Nat
  PROVE  /\ Occurrence(s, a, k) \in Date
         /\ Occurrence(s, a, 0) = a
         /\ StepOf(s, a, Occurrence(s, a, k)) = Occurrence(s, a, k + 1)
<1>1. /\ s.type = "day" \/ s.type = "week" \/ s.type = "month" \/ s.type = "year"
      /\ s.count \in Nat
  BY ScheduleIs DEF Interval
<1> DEFINE n == k * s.count
<1>2. n \in Nat /\ (k + 1) * s.count = n + s.count /\ 0 * s.count = 0
  BY <1>1
<1>3. k + 1 \in Nat /\ (k + 1) * s.count \in Nat
  BY <1>1
<1>4. a.year \in Int /\ a.month \in 1..12 /\ a.day \in 1..31 /\ a.month \in Int
  BY DateIs
<1> HIDE DEF n
<1>5. CASE s.type = "day"
  <2>1. \A j : Occurrence(s, a, j) = AddDays(a, j * s.count)
    BY <1>5 DEF Occurrence
  <2>2. AddDays(a, 0) = a
    <3>1. DaysLeft(a) \in Nat /\ a.day + 0 = a.day /\ a = [year |-> a.year, month |-> a.month, day |-> a.day]
      BY <1>4, DaysLeftIs, DateIs
    <3>2. AddDays(a, 0) = [year |-> a.year, month |-> a.month, day |-> a.day + 0]
      BY <3>1, LaterInMonth
    <3> QED
      BY <3>1, <3>2
  <2>3. AddDays(AddDays(a, n), s.count) = AddDays(a, n + s.count)
    BY <1>1, <1>2, AddDaysAdds
  <2>4. StepOf(s, a, AddDays(a, n)) = AddDays(AddDays(a, n), s.count)
    BY <1>5 DEF StepOf
  <2> QED
    BY <1>2, <2>1, <2>2, <2>3, <2>4, AddDaysIs DEF n
<1>6. CASE s.type = "week"
  <2>1. \A j : Occurrence(s, a, j) = AddDays(a, 7 * (j * s.count))
    BY <1>6 DEF Occurrence
  <2>2. AddDays(a, 0) = a
    <3>1. DaysLeft(a) \in Nat /\ a.day + 0 = a.day /\ a = [year |-> a.year, month |-> a.month, day |-> a.day]
      BY <1>4, DaysLeftIs, DateIs
    <3>2. AddDays(a, 0) = [year |-> a.year, month |-> a.month, day |-> a.day + 0]
      BY <3>1, LaterInMonth
    <3> QED
      BY <3>1, <3>2
  <2>3. /\ 7 * n \in Nat /\ 7 * s.count \in Nat /\ 7 * n + 7 * s.count = 7 * (n + s.count)
        /\ 7 * 0 = 0
    BY <1>1, <1>2
  <2>4. AddDays(AddDays(a, 7 * n), 7 * s.count) = AddDays(a, 7 * n + 7 * s.count)
    BY <2>3, AddDaysAdds
  <2>5. StepOf(s, a, AddDays(a, 7 * n)) = AddDays(AddDays(a, 7 * n), 7 * s.count)
    BY <1>6 DEF StepOf
  <2> QED
    BY <1>2, <2>1, <2>2, <2>3, <2>4, <2>5, AddDaysIs DEF n
<1>7. CASE s.type = "month"
  <2>1. \A j : Occurrence(s, a, j) = AddMonthsPreservePreferredDay(a, j * s.count, a.day)
    BY <1>7 DEF Occurrence, AddMonthsPreservePreferredDay
  <2> DEFINE o == AddMonthsPreservePreferredDay(a, n, a.day)
             p == AddMonthsPreservePreferredDay(a, n + s.count, a.day)
             z == AddMonthsPreservePreferredDay(a, 0, a.day)
             q == AddMonthsPreservePreferredDay(o, s.count, a.day)
  <2>2. o \in Date /\ MonthNumber(o) = MonthNumber(a) + n
    <3>1. n \in Int
      BY <1>2
    <3> QED
      BY ONLY a \in Date, <1>4, <3>1, AddMonthsIs
  <2>3. p \in Date /\ MonthNumber(p) = MonthNumber(a) + (n + s.count) /\ BuiltOn(a.day, p)
    <3>1. n + s.count \in Int
      BY <1>1, <1>2
    <3> QED
      BY ONLY a \in Date, <1>4, <3>1, AddMonthsIs
  <2>4. z \in Date /\ MonthNumber(z) = MonthNumber(a) + 0 /\ BuiltOn(a.day, z)
    <3>1. 0 \in Int
      OBVIOUS
    <3> QED
      BY ONLY a \in Date, <1>4, <3>1, AddMonthsIs
  <2>5. q \in Date /\ MonthNumber(q) = MonthNumber(o) + s.count /\ BuiltOn(a.day, q)
    <3>1. s.count \in Int
      BY <1>1
    <3> HIDE DEF o
    <3> QED
      BY ONLY <1>4, <2>2, <3>1, AddMonthsIs
  <2>6. StepOf(s, a, o) = q
    BY <1>7 DEF StepOf
  <2> HIDE DEF o, p, q, z
  <2>7. MonthNumber(a) \in Int /\ BuiltOn(a.day, a)
    BY BuiltAgain, DayNumberOrders DEF BuiltOn
  <2>8. MonthNumber(q) = MonthNumber(p) /\ MonthNumber(z) = MonthNumber(a)
    BY <1>1, <1>2, <2>2, <2>3, <2>4, <2>5, <2>7
  <2>9. q = p /\ z = a
    BY <2>3, <2>4, <2>5, <2>7, <2>8, SameBuilt
  <2> QED
    BY <1>2, <2>1, <2>2, <2>6, <2>9 DEF o, p, z, n
<1>8. CASE s.type = "year"
  <2>1. \A j : Occurrence(s, a, j) = BuildDate(a.year + (j * s.count), a.month, a.day)
    BY <1>8 DEF Occurrence
  <2> DEFINE o == BuildDate(a.year + n, a.month, a.day)
  <2>2. o \in Date /\ o.year = a.year + n
    <3>1. a.year + n \in Int
      BY <1>2, <1>4
    <3> QED
      BY ONLY <1>4, <3>1, BuildDateIs
  <2>3. StepOf(s, a, o) = BuildDate(o.year + s.count, a.month, a.day)
    BY <1>8 DEF StepOf, AddYearsPreservePreferredDate
  <2>4. o.year + s.count = a.year + (n + s.count) /\ a.year + 0 = a.year
    BY <1>1, <1>2, <1>4, <2>2
  <2> HIDE DEF o
  <2> QED
    BY <1>2, <2>1, <2>2, <2>3, <2>4, BuiltAgain DEF o, n
<1> QED
  BY <1>1, <1>5, <1>6, <1>7, <1>8

\* A turn of the loop raises the day number, from any date: what the loop makes of the
\* month and day of the date it started from only counts within a month.
LEMMA StepGrows ==
  ASSUME NEW s, Interval(s), NEW a \in Date, NEW c \in Date
  PROVE  StepOf(s, a, c) \in Date /\ DayNumber(StepOf(s, a, c)) > DayNumber(c)
<1>1. /\ s.type = "day" \/ s.type = "week" \/ s.type = "month" \/ s.type = "year"
      /\ s.count \in Nat /\ s.count > 0
  BY ScheduleIs DEF Interval
<1>2. /\ c.year \in Int /\ c.month \in 1..12 /\ a.month \in 1..12 /\ a.day \in 1..31
      /\ MonthNumber(c) \in Int /\ DayNumber(c) \in Int
  BY DateIs, DayNumberOrders
<1>3. CASE s.type = "day" \/ s.type = "week"
  <2>1. PICK n \in Nat : n > 0 /\ StepOf(s, a, c) = AddDays(c, n)
    <3>1. CASE s.type = "day"
      BY <1>1, <3>1 DEF StepOf
    <3>2. CASE s.type = "week"
      <4>1. 7 * s.count \in Nat /\ 7 * s.count > 0
        BY <1>1
      <4>2. StepOf(s, a, c) = AddDays(c, 7 * s.count)
        BY <3>2 DEF StepOf
      <4> QED
        BY <4>1, <4>2
    <3> QED
      BY <1>3, <3>1, <3>2
  <2>2. AddDays(c, n) \in Date /\ DayNumber(AddDays(c, n)) >= DayNumber(c) + n
    BY AddDaysIs, AddDaysGrows
  <2>3. DayNumber(AddDays(c, n)) \in Int
    BY <2>2, DayNumberOrders
  <2> QED
    BY <1>2, <2>1, <2>2, <2>3
<1>4. CASE s.type = "month"
  <2> DEFINE q == AddMonthsPreservePreferredDay(c, s.count, a.day)
  <2>1. StepOf(s, a, c) = q
    BY <1>4 DEF StepOf
  <2>2. q \in Date /\ MonthNumber(q) = MonthNumber(c) + s.count
    <3>1. s.count \in Int
      BY <1>1
    <3> QED
      BY ONLY c \in Date, <1>2, <3>1, AddMonthsIs
  <2> HIDE DEF q
  <2>3. MonthNumber(c) < MonthNumber(q)
    BY <1>1, <1>2, <2>2
  <2> QED
    BY <2>1, <2>2, <2>3, DayNumberOrders
<1>5. CASE s.type = "year"
  <2> DEFINE y == c.year + s.count
             q == BuildDate(y, a.month, a.day)
  <2>1. StepOf(s, a, c) = q
    BY <1>5 DEF StepOf, AddYearsPreservePreferredDate
  <2>2. y \in Int /\ c.year < y
    BY <1>1, <1>2
  <2> HIDE DEF y
  <2>3. q \in Date /\ q.year = y
    BY ONLY <1>2, <2>2, BuildDateIs
  <2> HIDE DEF q
  <2>4. Before(c, q)
    BY <2>2, <2>3 DEF Before
  <2> QED
    BY <2>1, <2>3, <2>4, DayNumberOrders
<1> QED
  BY <1>1, <1>3, <1>4, <1>5

\* The loop of nextIntervalOccurrence ends: its equation holds for every date.
ReachOf(s, a, from) ==
  CHOOSE reach : reach = [c \in Date |-> IF Before(c, from) THEN reach[StepOf(s, a, c)] ELSE c]

LEMMA ReachIs ==
  ASSUME NEW s, Interval(s), NEW a \in Date, NEW from \in Date
  PROVE  /\ NextIntervalOccurrence(s, a, from) = ReachOf(s, a, from)[a]
         /\ \A c \in Date : ReachOf(s, a, from)[c] =
              IF Before(c, from) THEN ReachOf(s, a, from)[StepOf(s, a, c)] ELSE c
<1> DEFINE D == {c \in Date : Before(c, from)}
           step == [c \in Date |-> StepOf(s, a, c)]
           out == [c \in Date |-> c]
           m == [c \in Date |-> IF c \in D THEN DayNumber(from) - DayNumber(c) ELSE 0]
           E(f) == [c \in Date |-> IF Before(c, from) THEN f[StepOf(s, a, c)] ELSE c]
<1>1. step \in [Date -> Date] /\ out \in [Date -> Date] /\ D \in SUBSET Date
  BY StepGrows
<1>2. ASSUME NEW c \in Date
      PROVE  m[c] \in Nat /\ (c \in D => m[c] > 0 /\ m[c] = DayNumber(from) - DayNumber(c))
  <2>1. DayNumber(c) \in Int /\ DayNumber(from) \in Int /\ (c \in D => DayNumber(c) < DayNumber(from))
    BY DayNumberOrders
  <2>2. CASE c \in D
    <3>1. m[c] = DayNumber(from) - DayNumber(c)
      BY <2>2
    <3> HIDE DEF m
    <3> QED
      BY <2>1, <2>2, <3>1
  <2>3. CASE c \notin D
    BY <2>3
  <2> QED
    BY <2>2, <2>3
<1>3. m \in [Date -> Nat]
  BY <1>2
<1>4. \A c \in D : m[step[c]] < m[c]
  <2> SUFFICES ASSUME NEW c \in D PROVE m[step[c]] < m[c]
    OBVIOUS
  <2>1. c \in Date /\ step[c] = StepOf(s, a, c) /\ step[c] \in Date /\ DayNumber(step[c]) > DayNumber(c)
    BY StepGrows
  <2> DEFINE t == step[c]
  <2>2. /\ t \in Date /\ DayNumber(t) > DayNumber(c)
        /\ DayNumber(t) \in Int /\ DayNumber(c) \in Int /\ DayNumber(from) \in Int
    BY <2>1, DayNumberOrders
  <2>3. m[c] > 0 /\ m[c] = DayNumber(from) - DayNumber(c)
    BY <1>2, <2>1
  <2>4. t \in D => m[t] = DayNumber(from) - DayNumber(t)
    BY <1>2, <2>2
  <2>5. t \notin D => m[t] = 0
    BY <2>2
  <2> HIDE DEF m, t, D
  <2> QED
    BY <2>2, <2>3, <2>4, <2>5 DEF t
<1>5. ASSUME NEW f PROVE Turn(Date, D, step, out, f) = E(f)
  <2>1. ASSUME NEW c \in Date
        PROVE  (IF c \in D THEN f[step[c]] ELSE out[c]) = IF Before(c, from) THEN f[StepOf(s, a, c)] ELSE c
    <3>1. (c \in D <=> Before(c, from)) /\ step[c] = StepOf(s, a, c) /\ out[c] = c
      OBVIOUS
    <3> HIDE DEF D, step, out
    <3> QED
      BY <3>1
  <2> HIDE DEF D, step, out
  <2> QED
    BY <2>1 DEF Turn
<1>6. HasLoop(Date, D, step, out)
  <2> HIDE DEF D, step, out, m
  <2> QED
    BY ONLY <1>1, <1>3, <1>4, LoopExists, Zenon
<1>7. \E f : f = E(f)
  <2> HIDE DEF D, step, out, E
  <2> QED
    BY <1>5, <1>6 DEF HasLoop
<1>8. ReachOf(s, a, from) = CHOOSE f : f = E(f)
  BY DEF ReachOf
<1>9. ReachOf(s, a, from) = E(ReachOf(s, a, from))
  <2> HIDE DEF E
  <2> QED
    BY <1>7, <1>8
<1>10. NextIntervalOccurrence(s, a, from) = ReachOf(s, a, from)[a]
  BY DEF NextIntervalOccurrence, ReachOf
<1> HIDE DEF D, step, out, m
<1>11. \A c \in Date : ReachOf(s, a, from)[c] =
              IF Before(c, from) THEN ReachOf(s, a, from)[StepOf(s, a, c)] ELSE c
  BY <1>9
<1> QED
  BY <1>10, <1>11

LEMMA OccurrencesGrow ==
  ASSUME NEW s, Interval(s), NEW a \in Date, NEW k \in Nat, NEW n \in Nat
  PROVE  DayNumber(Occurrence(s, a, k)) + n <= DayNumber(Occurrence(s, a, k + n))
<1> DEFINE O(i) == DayNumber(Occurrence(s, a, i))
           T == {i \in Nat : O(k) + i <= O(k + i)}
<1>1. \A i \in Nat : Occurrence(s, a, i) \in Date /\ O(i) \in Int /\ O(i + 1) > O(i)
  <2> TAKE i \in Nat
  <2>1. /\ Occurrence(s, a, i) \in Date
        /\ StepOf(s, a, Occurrence(s, a, i)) = Occurrence(s, a, i + 1)
    BY OccurrenceIs
  <2> QED
    BY <2>1, StepGrows, DayNumberOrders
<1> HIDE DEF O
<1>2. 0 \in T
  <2>1. k + 0 = k /\ O(k) \in Int
    BY <1>1
  <2> QED
    BY <2>1
<1>3. ASSUME NEW i \in T PROVE i + 1 \in T
  <2>1. i \in Nat /\ O(k) + i <= O(k + i) /\ k + i \in Nat /\ k + (i + 1) = (k + i) + 1
    OBVIOUS
  <2>2. O(k) \in Int /\ O(k + i) \in Int /\ O((k + i) + 1) > O(k + i) /\ O((k + i) + 1) \in Int
    BY <1>1, <2>1
  <2>3. O(k) + (i + 1) <= O((k + i) + 1)
    BY ONLY <2>1, <2>2
  <2> QED
    BY <2>1, <2>3
<1>4. T = Nat
  <2> HIDE DEF T
  <2>1. T \in SUBSET Nat
    BY DEF T
  <2> QED
    BY <1>2, <1>3, <2>1, AllNumbers
<1> QED
  BY <1>4 DEF O

LEMMA OccurrencesAscend ==
  ASSUME NEW s, Interval(s), NEW a \in Date, NEW j \in Nat, NEW k \in Nat, j < k
  PROVE  Before(Occurrence(s, a, j), Occurrence(s, a, k))
<1>1. k - j \in Nat /\ j + (k - j) = k /\ k - j > 0
  OBVIOUS
<1>2. DayNumber(Occurrence(s, a, j)) + (k - j) <= DayNumber(Occurrence(s, a, k))
  BY <1>1, OccurrencesGrow
<1>3. Occurrence(s, a, j) \in Date /\ Occurrence(s, a, k) \in Date
  BY OccurrenceIs
<1>4. DayNumber(Occurrence(s, a, j)) \in Int /\ DayNumber(Occurrence(s, a, k)) \in Int
  BY <1>3, DayNumberOrders
<1>5. DayNumber(Occurrence(s, a, j)) < DayNumber(Occurrence(s, a, k))
  BY ONLY <1>1, <1>2, <1>4
<1> QED
  BY <1>3, <1>5, DayNumberOrders

MonthlyDates(d) == {BuildDate(y, m, d) : y \in Int, m \in 1..12}

\* All the dates that a schedule charges on, from a date on for the interval types.
Charges(s, a) ==
  IF s.type \in IntervalUnit THEN {Occurrence(s, a, k) : k \in Nat}
  ELSE IF s.type = "monthly_date" THEN MonthlyDates(s.day)
  ELSE {BuildDate(y, s.month, s.day) : y \in Int}

LEMMA ChargesAreDates ==
  ASSUME NEW s \in Schedule, NEW a \in Date
  PROVE  Charges(s, a) \subseteq Date
<1>1. CASE s.type \in IntervalUnit
  BY <1>1, OccurrenceIs DEF Charges, Interval
<1>2. CASE s.type = "monthly_date"
  <2>1. s.day \in 1..31
    BY <1>2, ScheduleIs
  <2>2. \A y \in Int, m \in 1..12 : BuildDate(y, m, s.day) \in Date
    BY <2>1, BuildDateIs
  <2> QED
    BY <1>2, <2>2, ScheduleIs DEF Charges, MonthlyDates
<1>3. CASE s.type = "yearly_date"
  <2>1. s.day \in 1..31 /\ s.month \in 1..12
    BY <1>3, ScheduleIs
  <2>2. \A y \in Int : BuildDate(y, s.month, s.day) \in Date
    BY <2>1, BuildDateIs
  <2> QED
    BY <1>3, <2>2, ScheduleIs DEF Charges
<1> QED
  BY <1>1, <1>2, <1>3, ScheduleIs

\* The first date of a set that is not before a day.
FirstOf(C, from, x) ==
  /\ x \in C
  /\ ~Before(x, from)
  /\ \A c \in C : Before(c, from) \/ ~Before(c, x)

LEMMA FirstIsOne ==
  ASSUME NEW C \in SUBSET Date, NEW from \in Date, NEW x, NEW y, FirstOf(C, from, x), FirstOf(C, from, y)
  PROVE  x = y
<1>1. x \in Date /\ y \in Date /\ ~Before(x, y) /\ ~Before(y, x)
  BY DEF FirstOf
<1>2. /\ DayNumber(x) \in Int /\ DayNumber(y) \in Int
      /\ ~(DayNumber(x) < DayNumber(y)) /\ ~(DayNumber(y) < DayNumber(x))
  BY <1>1, DayNumberOrders
<1>3. DayNumber(x) = DayNumber(y)
  BY ONLY <1>2
<1> QED
  BY <1>1, <1>3, DayNumberOrders

\* nextIntervalOccurrence: the loop runs from date to date of the schedule.
LEMMA FirstOfInterval ==
  ASSUME NEW s, Interval(s), NEW a \in Date, NEW from \in Date
  PROVE  \E k \in Nat : /\ NextIntervalOccurrence(s, a, from) = Occurrence(s, a, k)
                        /\ ~Before(Occurrence(s, a, k), from)
                        /\ \A j \in Nat : j < k => Before(Occurrence(s, a, j), from)
<1> DEFINE O(i) == Occurrence(s, a, i)
           Late == {i \in Nat : ~Before(O(i), from)}
           R == ReachOf(s, a, from)
<1>1. \A i \in Nat : O(i) \in Date /\ StepOf(s, a, O(i)) = O(i + 1)
  BY OccurrenceIs
<1>2. Late # {}
  <2>1. DayNumber(a) \in Int /\ DayNumber(from) \in Int
    BY DayNumberOrders
  <2>2. PICK n \in Nat : DayNumber(a) + n >= DayNumber(from)
    <3>1. CASE DayNumber(from) <= DayNumber(a)
      <4>1. 0 \in Nat /\ DayNumber(a) + 0 >= DayNumber(from)
        BY <2>1, <3>1
      <4> QED
        BY <4>1
    <3>2. CASE ~(DayNumber(from) <= DayNumber(a))
      <4>1. /\ DayNumber(from) - DayNumber(a) \in Nat
            /\ DayNumber(a) + (DayNumber(from) - DayNumber(a)) >= DayNumber(from)
        BY <2>1, <3>2
      <4> QED
        BY <4>1
    <3> QED
      BY <3>1, <3>2
  <2>3. DayNumber(O(0)) + n <= DayNumber(O(0 + n)) /\ O(0) = a /\ 0 + n = n
    BY OccurrencesGrow, OccurrenceIs
  <2> HIDE DEF O
  <2>4. DayNumber(O(n)) \in Int /\ DayNumber(O(n)) >= DayNumber(from)
    <3>1. DayNumber(O(n)) \in Int /\ DayNumber(a) + n <= DayNumber(O(n))
      BY <1>1, <2>3, DayNumberOrders
    <3> QED
      BY ONLY <2>1, <2>2, <3>1, n \in Nat
  <2>5. ~(DayNumber(O(n)) < DayNumber(from))
    BY ONLY <2>1, <2>4
  <2>6. ~Before(O(n), from)
    BY <1>1, <2>5, DayNumberOrders
  <2> QED
    BY <2>6
<1>3. PICK k \in Late : \A j \in Late : k <= j
  <2> HIDE DEF O
  <2>1. Late \in SUBSET Nat
    OBVIOUS
  <2> HIDE DEF Late
  <2> QED
    BY <1>2, <2>1, LeastIs
<1>4. k \in Nat /\ ~Before(O(k), from)
  BY <1>3
<1> HIDE DEF O
<1>5. \A j \in Nat : j < k => Before(O(j), from)
  <2> TAKE j \in Nat
  <2> SUFFICES ASSUME j < k PROVE Before(O(j), from)
    OBVIOUS
  <2>1. ~(k <= j)
    BY <1>4
  <2> QED
    BY <1>3, <2>1
<1>6. \A c \in Date : R[c] = IF Before(c, from) THEN R[StepOf(s, a, c)] ELSE c
  BY ReachIs
<1> HIDE DEF R
<1> DEFINE T == {i \in Nat : i <= k => R[O(k - i)] = O(k)}
<1>7. 0 \in T
  <2>1. k - 0 = k /\ R[O(k)] = O(k)
    BY <1>1, <1>4, <1>6
  <2> QED
    BY <2>1
<1>8. ASSUME NEW i \in T PROVE i + 1 \in T
  <2> SUFFICES ASSUME i + 1 <= k PROVE R[O(k - (i + 1))] = O(k)
    OBVIOUS
  <2> DEFINE h == k - (i + 1)
  <2>1. i \in Nat /\ h \in Nat /\ h < k /\ h + 1 = k - i /\ i <= k
    BY <1>4
  <2>2. R[O(k - i)] = O(k)
    BY <2>1
  <2> HIDE DEF h
  <2>3. Before(O(h), from) /\ O(h) \in Date /\ StepOf(s, a, O(h)) = O(h + 1)
    BY <1>1, <1>5, <2>1
  <2>4. R[O(h)] = R[O(h + 1)]
    BY <1>6, <2>3
  <2> QED
    BY <2>1, <2>2, <2>4 DEF h
<1>9. T = Nat
  <2>1. T \in SUBSET Nat
    OBVIOUS
  <2> HIDE DEF T
  <2> QED
    BY <1>7, <1>8, <2>1, AllNumbers
<1>10. R[O(0)] = O(k)
  <2>1. k \in T /\ k - k = 0 /\ k <= k
    BY <1>4, <1>9
  <2> QED
    BY <2>1
<1>11. NextIntervalOccurrence(s, a, from) = R[a] /\ O(0) = a
  BY ReachIs, OccurrenceIs DEF R, O
<1> QED
  BY <1>4, <1>5, <1>10, <1>11 DEF O

LEMMA FirstOfMonthly ==
  ASSUME NEW from \in Date, NEW d \in 1..31
  PROVE  FirstOf(MonthlyDates(d), from, NextMonthlyDayOccurrence(from, d))
<1> DEFINE C == MonthlyDates(d)
           b == BuildDate(from.year, from.month, d)
           n == AddMonthsPreservePreferredDay(b, 1, d)
           x == NextMonthlyDayOccurrence(from, d)
<1>1. from.year \in Int /\ from.month \in 1..12 /\ MonthNumber(from) \in Int
  BY DateIs, DayNumberOrders
<1>2. /\ \A y \in Int, m \in 1..12 : /\ BuildDate(y, m, d) \in Date
                                     /\ BuildDate(y, m, d).year = y /\ BuildDate(y, m, d).month = m
      /\ \A c \in C : c \in Date /\ BuiltOn(d, c)
  <2>1. \A y \in Int, m \in 1..12 : /\ BuildDate(y, m, d) \in Date
                                  /\ BuildDate(y, m, d).year = y /\ BuildDate(y, m, d).month = m
    <3> TAKE y \in Int, m \in 1..12
    <3>1. Buildable(y, m, d)
      BY DEF Buildable
    <3> QED
      BY ONLY <3>1, DateIsBuilt
  <2>2. ASSUME NEW c \in C PROVE c \in Date /\ BuiltOn(d, c)
    <3>1. PICK y \in Int, m \in 1..12 : c = BuildDate(y, m, d)
      BY DEF MonthlyDates
    <3>2. c \in Date /\ c.year = y /\ c.month = m
      BY <2>1, <3>1
    <3> QED
      BY <3>1, <3>2 DEF BuiltOn
  <2> QED
    BY <2>1, <2>2
<1>3. b \in Date /\ b \in C /\ b.year = from.year /\ b.month = from.month /\ BuiltOn(d, b)
  BY <1>1, <1>2 DEF MonthlyDates
<1>4. MonthNumber(b) = MonthNumber(from)
  BY <1>3 DEF MonthNumber
<1>5. x = IF Before(b, from) THEN n ELSE b
  BY DEF NextMonthlyDayOccurrence
<1>6. n \in Date /\ MonthNumber(n) = MonthNumber(b) + 1 /\ BuiltOn(d, n)
  <2>1. 1 \in Int
    OBVIOUS
  <2>2. d \in 1..31 /\ b \in Date
    BY <1>3
  <2> HIDE DEF b
  <2> QED
    BY ONLY <2>1, <2>2, AddMonthsIs
<1> HIDE DEF b, n, C
<1>7. n \in C
  <2>1. n.year \in Int /\ n.month \in 1..12
    BY <1>6, DateIs
  <2> QED
    BY <1>6, <2>1 DEF C, MonthlyDates, BuiltOn
<1>8. ASSUME NEW c \in C
      PROVE  /\ c \in Date /\ MonthNumber(c) \in Int
             /\ MonthNumber(c) < MonthNumber(from) => Before(c, from)
             /\ MonthNumber(c) = MonthNumber(from) => c = b
             /\ MonthNumber(c) = MonthNumber(from) + 1 => c = n
             /\ MonthNumber(c) > MonthNumber(b) => Before(b, c)
             /\ MonthNumber(c) > MonthNumber(n) => Before(n, c)
  <2>1. c \in Date /\ BuiltOn(d, c)
    BY <1>2
  <2>2. MonthNumber(c) = MonthNumber(b) => c = b
    BY <1>3, <2>1, SameBuilt
  <2>3. MonthNumber(c) = MonthNumber(n) => c = n
    BY <1>6, <2>1, SameBuilt
  <2>4. /\ MonthNumber(c) \in Int /\ MonthNumber(b) \in Int /\ MonthNumber(n) \in Int
        /\ MonthNumber(c) < MonthNumber(from) => DayNumber(c) < DayNumber(from)
        /\ MonthNumber(b) < MonthNumber(c) => DayNumber(b) < DayNumber(c)
        /\ MonthNumber(n) < MonthNumber(c) => DayNumber(n) < DayNumber(c)
    BY <1>3, <1>6, <2>1, DayNumberOrders
  <2>5. /\ Before(c, from) <=> DayNumber(c) < DayNumber(from)
        /\ Before(b, c) <=> DayNumber(b) < DayNumber(c)
        /\ Before(n, c) <=> DayNumber(n) < DayNumber(c)
    BY <1>3, <1>6, <2>1, DayNumberOrders
  <2> QED
    BY <1>4, <1>6, <2>1, <2>2, <2>3, <2>4, <2>5
<1>9. \A p, q \in Date : Before(p, q) => ~Before(q, p)
  <2> SUFFICES ASSUME NEW p \in Date, NEW q \in Date, Before(p, q) PROVE ~Before(q, p)
    OBVIOUS
  <2>1. DayNumber(p) \in Int /\ DayNumber(q) \in Int /\ DayNumber(p) < DayNumber(q)
    BY DayNumberOrders
  <2>2. ~(DayNumber(q) < DayNumber(p))
    BY ONLY <2>1
  <2> QED
    BY <2>2, DayNumberOrders
<1>10. CASE Before(b, from)
  <2>1. x = n
    BY <1>5, <1>10
  <2>2. ~Before(n, from)
    <3>1. MonthNumber(from) < MonthNumber(n)
      BY <1>1, <1>4, <1>6
    <3> QED
      BY <1>6, <1>9, <3>1, DayNumberOrders
  <2>3. ASSUME NEW c \in C PROVE Before(c, from) \/ ~Before(c, n)
    <3>1. \/ MonthNumber(c) < MonthNumber(from) \/ MonthNumber(c) = MonthNumber(from)
          \/ MonthNumber(c) = MonthNumber(from) + 1 \/ MonthNumber(c) > MonthNumber(n)
      <4>1. MonthNumber(c) \in Int /\ MonthNumber(n) = MonthNumber(from) + 1
        BY <1>4, <1>6, <1>8
      <4> QED
        BY ONLY <1>1, <4>1
    <3>2. CASE c = n
      BY <1>6, <1>9, <3>2
    <3> QED
      BY <1>6, <1>8, <1>9, <1>10, <3>1, <3>2
  <2> HIDE DEF x
  <2> QED
    BY <1>7, <2>1, <2>2, <2>3 DEF FirstOf, C, x
<1>11. CASE ~Before(b, from)
  <2>1. x = b
    BY <1>5, <1>11
  <2>2. ASSUME NEW c \in C PROVE Before(c, from) \/ ~Before(c, b)
    <3>1. \/ MonthNumber(c) < MonthNumber(from) \/ MonthNumber(c) = MonthNumber(from)
          \/ MonthNumber(c) > MonthNumber(b)
      <4>1. MonthNumber(c) \in Int
        BY <1>8
      <4> QED
        BY ONLY <1>1, <1>4, <4>1
    <3>2. CASE c = b
      BY <1>3, <1>9, <3>2
    <3> QED
      BY <1>3, <1>8, <1>9, <3>1, <3>2
  <2> HIDE DEF x
  <2> QED
    BY <1>3, <1>11, <2>1, <2>2 DEF FirstOf, C, x
<1> QED
  BY <1>10, <1>11

LEMMA BeforeIsStrict ==
  ASSUME NEW p \in Date, NEW q \in Date
  PROVE  /\ Before(p, q) => ~Before(q, p) /\ p # q
         /\ ~Before(p, p)
<1>1. /\ DayNumber(p) \in Int /\ DayNumber(q) \in Int
      /\ Before(p, q) <=> DayNumber(p) < DayNumber(q)
      /\ Before(q, p) <=> DayNumber(q) < DayNumber(p)
      /\ Before(p, p) <=> DayNumber(p) < DayNumber(p)
  BY DayNumberOrders
<1>2. ~(DayNumber(p) < DayNumber(p)) /\ (DayNumber(p) < DayNumber(q) => ~(DayNumber(q) < DayNumber(p)))
  BY ONLY <1>1
<1> QED
  BY <1>1, <1>2

LEMMA BeforeFollows ==
  ASSUME NEW p \in Date, NEW q \in Date, NEW r \in Date
  PROVE  /\ Before(p, q) /\ ~Before(r, q) => Before(p, r)
         /\ ~Before(q, p) /\ Before(q, r) => Before(p, r)
         /\ ~Before(q, p) /\ ~Before(r, q) => ~Before(r, p)
<1>1. /\ DayNumber(p) \in Int /\ DayNumber(q) \in Int /\ DayNumber(r) \in Int
      /\ Before(p, q) <=> DayNumber(p) < DayNumber(q)
      /\ Before(r, q) <=> DayNumber(r) < DayNumber(q)
      /\ Before(p, r) <=> DayNumber(p) < DayNumber(r)
      /\ Before(q, p) <=> DayNumber(q) < DayNumber(p)
      /\ Before(q, r) <=> DayNumber(q) < DayNumber(r)
      /\ Before(r, p) <=> DayNumber(r) < DayNumber(p)
  BY DayNumberOrders
<1> DEFINE P == DayNumber(p)
           Q == DayNumber(q)
           R == DayNumber(r)
<1>2. P \in Int /\ Q \in Int /\ R \in Int
  BY <1>1
<1> HIDE DEF P, Q, R
<1>3. /\ P < Q /\ ~(R < Q) => P < R
      /\ ~(Q < P) /\ Q < R => P < R
      /\ ~(Q < P) /\ ~(R < Q) => ~(R < P)
  BY ONLY <1>2
<1> QED
  BY <1>1, <1>3 DEF P, Q, R

LEMMA FirstOfYearly ==
  ASSUME NEW from \in Date, NEW m \in 1..12, NEW d \in 1..31
  PROVE  FirstOf({BuildDate(y, m, d) : y \in Int}, from, NextYearlyDateOccurrence(from, m, d))
<1> DEFINE C == {BuildDate(y, m, d) : y \in Int}
           b == BuildDate(from.year, m, d)
           n == BuildDate(from.year + 1, m, d)
           x == NextYearlyDateOccurrence(from, m, d)
<1>1. from.year \in Int /\ from.year + 1 \in Int
  BY DateIs
<1>2. \A y \in Int : BuildDate(y, m, d) \in Date /\ BuildDate(y, m, d).year = y
  BY BuildDateIs
<1>3. x = IF Before(b, from) THEN n ELSE b
  BY DEF NextYearlyDateOccurrence
<1>4. b \in Date /\ b \in C /\ b.year = from.year /\ n \in Date /\ n \in C /\ n.year = from.year + 1
  BY <1>1, <1>2
<1>5. ASSUME NEW c \in C
      PROVE  /\ c \in Date /\ c.year \in Int
             /\ c.year = from.year => c = b
             /\ c.year = from.year + 1 => c = n
  BY <1>2
<1> HIDE DEF C, b, n
<1>6. ASSUME NEW p \in Date, NEW q \in Date, p.year < q.year
      PROVE  Before(p, q) /\ ~Before(q, p)
  <2>1. Before(p, q)
    BY <1>6 DEF Before
  <2> QED
    BY <2>1, BeforeIsStrict
<1>7. CASE Before(b, from)
  <2>1. x = n /\ ~Before(n, from)
    BY <1>1, <1>3, <1>4, <1>6, <1>7
  <2>2. ASSUME NEW c \in C PROVE Before(c, from) \/ ~Before(c, n)
    <3>1. c.year < from.year \/ c.year = from.year \/ c.year = from.year + 1 \/ n.year < c.year
      <4>1. c.year \in Int
        BY <1>5
      <4> QED
        BY ONLY <1>1, <1>4, <4>1
    <3>2. CASE c = n
      BY <1>4, <3>2, BeforeIsStrict
    <3> QED
      BY <1>4, <1>5, <1>6, <1>7, <3>1, <3>2
  <2> HIDE DEF x
  <2> QED
    BY <1>4, <2>1, <2>2 DEF FirstOf, C, x
<1>8. CASE ~Before(b, from)
  <2>1. x = b
    BY <1>3, <1>8
  <2>2. ASSUME NEW c \in C PROVE Before(c, from) \/ ~Before(c, b)
    <3>1. c.year < from.year \/ c.year = from.year \/ b.year < c.year
      <4>1. c.year \in Int
        BY <1>5
      <4> QED
        BY ONLY <1>1, <1>4, <4>1
    <3>2. CASE c = b
      BY <1>4, <3>2, BeforeIsStrict
    <3> QED
      BY <1>4, <1>5, <1>6, <1>8, <3>1, <3>2
  <2> HIDE DEF x
  <2> QED
    BY <1>4, <1>8, <2>1, <2>2 DEF FirstOf, C, x
<1> QED
  BY <1>7, <1>8

\* nextRecurringOccurrenceOnOrAfter: the first date of the schedule on or after a day.
LEMMA NextIsFirst ==
  ASSUME NEW s \in Schedule, NEW a \in Date, NEW from \in Date
  PROVE  FirstOf(Charges(s, a), from, NextOnOrAfter(s, a, from))
<1>1. CASE s.type \in IntervalUnit
  <2>1. Interval(s)
    BY <1>1 DEF Interval
  <2>2. PICK k \in Nat : /\ NextIntervalOccurrence(s, a, from) = Occurrence(s, a, k)
                         /\ ~Before(Occurrence(s, a, k), from)
                         /\ \A j \in Nat : j < k => Before(Occurrence(s, a, j), from)
    BY <2>1, FirstOfInterval
  <2>3. ASSUME NEW j \in Nat
        PROVE  Before(Occurrence(s, a, j), from) \/ ~Before(Occurrence(s, a, j), Occurrence(s, a, k))
    <3>1. CASE j < k
      BY <2>2, <3>1
    <3>2. CASE j = k
      BY <2>1, <3>2, OccurrenceIs, BeforeIsStrict
    <3>3. CASE k < j
      <4>1. Before(Occurrence(s, a, k), Occurrence(s, a, j))
        BY <2>1, <3>3, OccurrencesAscend
      <4>2. Occurrence(s, a, j) \in Date /\ Occurrence(s, a, k) \in Date
        BY <2>1, OccurrenceIs
      <4> QED
        BY <4>1, <4>2, BeforeIsStrict
    <3> QED
      BY <3>1, <3>2, <3>3
  <2>4. NextOnOrAfter(s, a, from) = Occurrence(s, a, k)
    <3>1. s.type # "monthly_date" /\ s.type # "yearly_date"
      BY <1>1, ScheduleIs
    <3> QED
      BY <1>1, <2>2, <3>1 DEF NextOnOrAfter
  <2>5. Charges(s, a) = {Occurrence(s, a, i) : i \in Nat}
    BY <1>1 DEF Charges
  <2> QED
    BY <2>2, <2>3, <2>4, <2>5 DEF FirstOf
<1>2. CASE s.type = "monthly_date"
  <2>1. s.day \in 1..31 /\ s.type \notin IntervalUnit
    BY <1>2, ScheduleIs
  <2>2. NextOnOrAfter(s, a, from) = NextMonthlyDayOccurrence(from, s.day)
    BY <1>2, <2>1 DEF NextOnOrAfter
  <2>3. Charges(s, a) = MonthlyDates(s.day)
    BY <1>2, <2>1 DEF Charges
  <2>4. FirstOf(MonthlyDates(s.day), from, NextMonthlyDayOccurrence(from, s.day))
    BY <2>1, FirstOfMonthly
  <2> QED
    BY ONLY <2>2, <2>3, <2>4
<1>3. CASE s.type = "yearly_date"
  <2>1. s.day \in 1..31 /\ s.month \in 1..12 /\ s.type \notin IntervalUnit /\ s.type # "monthly_date"
    BY <1>3, ScheduleIs
  <2>2. NextOnOrAfter(s, a, from) = NextYearlyDateOccurrence(from, s.month, s.day)
    BY <1>3, <2>1 DEF NextOnOrAfter
  <2>3. Charges(s, a) = {BuildDate(y, s.month, s.day) : y \in Int}
    BY <1>3, <2>1 DEF Charges
  <2> QED
    BY <2>1, <2>2, <2>3, FirstOfYearly
<1> QED
  BY <1>1, <1>2, <1>3, ScheduleIs

\* A quotient is at least what fits.
LEMMA DivBound ==
  ASSUME NEW g \in Int, NEW n \in Nat, n > 0, NEW k \in Nat, k * n <= g
  PROVE  k <= g \div n /\ g \div n \in Int
<1>1. g \div n \in Int /\ g % n \in 0..(n - 1) /\ g = n * (g \div n) + (g % n)
  OBVIOUS
<1>2. PICK q \in Int, r \in 0..(n - 1) : q = g \div n /\ g = n * q + r
  BY <1>1
<1>3. CASE k <= q
  BY <1>2, <1>3
<1>4. CASE k >= q + 1
  <2>1. PICK e \in Nat : k = q + 1 + e
    <3>1. k - q - 1 \in Nat /\ k = q + 1 + (k - q - 1)
      BY <1>2, <1>4
    <3> QED
      BY <3>1
  <2>2. e * n \in Nat
    OBVIOUS
  <2>3. k * n = n * q + n + e * n
    BY <2>1
  <2>4. n * q \in Int
    OBVIOUS
  <2> DEFINE p == n * q
             h == e * n
             t == k * n
  <2>5. p \in Int /\ h \in Nat /\ t = p + n + h /\ t <= g /\ g = p + r
    BY <1>2, <2>2, <2>3, <2>4
  <2> HIDE DEF p, h, t
  <2> QED
    BY ONLY <2>5, r \in 0..(n - 1), n \in Nat
<1> QED
  BY <1>2, <1>3, <1>4

\* Periods counts far enough: any date of the schedule that is not after a date.
LEMMA PeriodsReach ==
  ASSUME NEW s, Interval(s), NEW a \in Date, NEW until \in Date, NEW k \in Nat,
         \/ ~Before(until, Occurrence(s, a, k))
         \/ /\ s.type = "month" \/ s.type = "year"
            /\ MonthNumber(Occurrence(s, a, k)) = MonthNumber(until)
  PROVE  Periods(s, a, until) \in Int /\ k + 1 <= Periods(s, a, until)
<1> DEFINE o == Occurrence(s, a, k)
           n == k * s.count
<1>1. /\ s.type = "day" \/ s.type = "week" \/ s.type = "month" \/ s.type = "year"
      /\ s.count \in Nat /\ s.count > 0
  BY ScheduleIs DEF Interval
<1>2. /\ a.year \in Int /\ a.month \in 1..12 /\ a.day \in 1..31
      /\ until.year \in Int /\ until.month \in 1..12 /\ until.day \in 1..31
      /\ MonthNumber(a) \in Int /\ MonthNumber(until) \in Int
      /\ DayNumber(a) \in Int /\ DayNumber(until) \in Int
  BY DateIs, DayNumberOrders
<1>3. o \in Date /\ DayNumber(o) \in Int /\ MonthNumber(o) \in Int /\ n \in Nat
  <2>1. o \in Date
    BY OccurrenceIs
  <2> HIDE DEF o
  <2> QED
    BY <1>1, <2>1, DayNumberOrders
<1>4. ~Before(until, o) => DayNumber(o) <= DayNumber(until) /\ MonthNumber(o) <= MonthNumber(until)
  <2> HIDE DEF o
  <2>1. /\ Before(until, o) <=> DayNumber(until) < DayNumber(o)
        /\ MonthNumber(until) < MonthNumber(o) => DayNumber(until) < DayNumber(o)
    BY <1>3, DayNumberOrders
  <2> QED
    BY <1>2, <1>3, <2>1
<1>5. ASSUME NEW g \in Int, NEW u \in Nat, u > 0, k * u <= g, Periods(s, a, until) = 1 + g \div u
      PROVE  Periods(s, a, until) \in Int /\ k + 1 <= Periods(s, a, until)
  <2>1. k <= g \div u /\ g \div u \in Int
    BY <1>5, DivBound
  <2> QED
    BY <1>5, <2>1
<1>6. CASE s.type = "day"
  <2>1. Periods(s, a, until) = 1 + (DayNumber(until) - DayNumber(a)) \div s.count
    BY <1>6 DEF Periods
  <2>2. o = AddDays(a, n)
    BY <1>6 DEF Occurrence
  <2>3. DayNumber(o) >= DayNumber(a) + n /\ DayNumber(o) <= DayNumber(until)
    BY <1>3, <1>4, <1>6, <2>2, AddDaysGrows
  <2> HIDE DEF o, n
  <2>4. DayNumber(until) - DayNumber(a) \in Int /\ n <= DayNumber(until) - DayNumber(a)
    BY <1>2, <1>3, <2>3
  <2> QED
    BY <1>1, <1>5, <2>1, <2>4 DEF n
<1>7. CASE s.type = "week"
  <2>1. Periods(s, a, until) = 1 + (DayNumber(until) - DayNumber(a)) \div (7 * s.count)
    BY <1>7 DEF Periods
  <2>2. o = AddDays(a, 7 * n)
    BY <1>7 DEF Occurrence
  <2>3. DayNumber(o) >= DayNumber(a) + 7 * n /\ DayNumber(o) <= DayNumber(until)
    <3>1. 7 * n \in Nat
      BY <1>3
    <3> HIDE DEF n
    <3> QED
      BY <1>3, <1>4, <1>7, <2>2, <3>1, AddDaysGrows
  <2>4. 7 * n = k * (7 * s.count)
    BY <1>1
  <2> HIDE DEF o, n
  <2>5. DayNumber(until) - DayNumber(a) \in Int /\ 7 * n <= DayNumber(until) - DayNumber(a)
    BY <1>2, <1>3, <2>3
  <2>6. 7 * s.count \in Nat /\ 7 * s.count > 0
    BY <1>1
  <2> QED
    BY <1>5, <2>1, <2>4, <2>5, <2>6
<1>8. CASE s.type = "month"
  <2>1. Periods(s, a, until) = 1 + (MonthNumber(until) - MonthNumber(a)) \div s.count
    BY <1>8 DEF Periods
  <2>2. o = AddMonthsPreservePreferredDay(a, n, a.day)
    BY <1>8 DEF Occurrence, AddMonthsPreservePreferredDay
  <2>3. MonthNumber(o) = MonthNumber(a) + n
    <3>1. n \in Int
      BY <1>3
    <3> HIDE DEF n, o
    <3> QED
      BY ONLY a \in Date, <1>2, <2>2, <3>1, AddMonthsIs
  <2> HIDE DEF o, n
  <2>4. MonthNumber(until) - MonthNumber(a) \in Int /\ n <= MonthNumber(until) - MonthNumber(a)
    BY <1>2, <1>3, <1>4, <2>3 DEF o
  <2> QED
    BY <1>1, <1>5, <2>1, <2>4 DEF n
<1>9. CASE s.type = "year"
  <2>1. Periods(s, a, until) = 1 + (until.year - a.year) \div s.count
    BY <1>9 DEF Periods
  <2>2. o.year = a.year + n
    <3> DEFINE y == a.year + n
    <3>1. y \in Int /\ a.month \in 1..12 /\ a.day \in 1..31
      BY <1>2, <1>3
    <3>2. o = BuildDate(y, a.month, a.day)
      BY <1>9 DEF Occurrence
    <3> HIDE DEF y
    <3>3. BuildDate(y, a.month, a.day).year = y
      BY ONLY <3>1, BuildDateIs
    <3> QED
      BY <3>2, <3>3 DEF y
  <2>3. MonthNumber(o) <= MonthNumber(until)
    BY <1>2, <1>3, <1>4
  <2> HIDE DEF o, n
  <2>4. o.month \in 1..12 /\ o.year \in Int
    BY <1>3, DateIs
  <2>5. o.year <= until.year
    BY <1>2, <2>3, <2>4 DEF MonthNumber
  <2>6. until.year - a.year \in Int /\ n <= until.year - a.year
    BY <1>2, <1>3, <2>2, <2>5
  <2> QED
    BY <1>1, <1>5, <2>1, <2>6 DEF n
<1> QED
  BY <1>1, <1>6, <1>7, <1>8, <1>9

\* ChargeDates are charges, and go on to the first one on a day or after it.
LEMMA ChargeDatesReach ==
  ASSUME NEW s \in Schedule, NEW a \in Date, NEW until \in Date
  PROVE  /\ ChargeDates(s, a, until) \subseteq Charges(s, a)
         /\ \A x : FirstOf(Charges(s, a), until, x) /\ ~Before(until, a) => x \in ChargeDates(s, a, until)
<1>1. a.year \in Int /\ until.year \in Int /\ until.year + 1 \in Int
  BY DateIs
<1>2. ASSUME NEW x \in Date, ~Before(x, until), ~Before(until, a),
             NEW y \in Date, y.year = until.year + 1, Before(y, until) \/ ~Before(y, x)
      PROVE  x.year \in a.year .. until.year + 1
  <2>1. x.year \in Int /\ ~Before(x, a)
    BY <1>2, DateIs, BeforeFollows
  <2>2. ~(x.year < a.year)
    BY <2>1 DEF Before
  <2>3. ~Before(y, until)
    <3>1. Before(until, y)
      BY <1>1, <1>2 DEF Before
    <3> QED
      BY <3>1, BeforeIsStrict
  <2>4. ~(y.year < x.year)
    BY <1>2, <2>3 DEF Before
  <2> QED
    BY <1>1, <1>2, <2>1, <2>2, <2>4
<1>3. Charges(s, a) \subseteq Date
  BY ChargesAreDates
<1>4. CASE s.type \in IntervalUnit
  <2>1. Interval(s) /\ s.type # "monthly_date" /\ s.type # "yearly_date"
    BY <1>4, ScheduleIs DEF Interval
  <2>2. /\ ChargeDates(s, a, until) = {Occurrence(s, a, k) : k \in 0..Periods(s, a, until)}
        /\ Charges(s, a) = {Occurrence(s, a, k) : k \in Nat}
    BY <1>4, <2>1 DEF ChargeDates, Charges
  <2>3. \A k \in Int : k \in 0..Periods(s, a, until) => k \in Nat
    OBVIOUS
  <2>4. ChargeDates(s, a, until) \subseteq Charges(s, a)
    BY <2>2, <2>3
  <2>5. ASSUME NEW x, FirstOf(Charges(s, a), until, x), ~Before(until, a) PROVE x \in ChargeDates(s, a, until)
    <3> DEFINE K == {i \in Nat : Occurrence(s, a, i) = x}
    <3>1. K # {}
      BY <2>2, <2>5 DEF FirstOf
    <3>2. PICK k \in Nat : x = Occurrence(s, a, k)
      BY <3>1
    <3>3. CASE k = 0
      <4>1. Occurrence(s, a, 0) = a
        BY <2>1, OccurrenceIs
      <4>2. Periods(s, a, until) \in Int /\ 0 + 1 <= Periods(s, a, until)
        BY <2>1, <2>5, <4>1, PeriodsReach
      <4>3. k \in 0..Periods(s, a, until)
        BY <3>3, <4>2
      <4> QED
        BY <2>2, <3>2, <4>3
    <3>4. CASE k # 0
      <4>1. k - 1 \in Nat /\ k - 1 < k /\ (k - 1) + 1 = k
        BY <3>4
      <4>2. Before(Occurrence(s, a, k - 1), x)
        BY <2>1, <3>2, <4>1, OccurrencesAscend
      <4>3. Occurrence(s, a, k - 1) \in Charges(s, a) /\ Occurrence(s, a, k - 1) \in Date
        BY <2>1, <2>2, <4>1, OccurrenceIs
      <4>4. Before(Occurrence(s, a, k - 1), until)
        BY <2>5, <4>2, <4>3 DEF FirstOf
      <4>5. ~Before(until, Occurrence(s, a, k - 1))
        BY <4>3, <4>4, BeforeIsStrict
      <4>6. Periods(s, a, until) \in Int /\ (k - 1) + 1 <= Periods(s, a, until)
        BY <2>1, <4>1, <4>5, PeriodsReach
      <4>7. k \in 0..Periods(s, a, until)
        BY <4>1, <4>6
      <4> QED
        BY <2>2, <3>2, <4>7
    <3> QED
      BY <3>3, <3>4
  <2> QED
    BY <2>4, <2>5
<1>5. CASE s.type = "monthly_date"
  <2>1. s.day \in 1..31 /\ s.type \notin IntervalUnit
    BY <1>5, ScheduleIs
  <2> DEFINE years == a.year .. until.year + 1
  <2>2. /\ ChargeDates(s, a, until) = {BuildDate(y, m, s.day) : y \in years, m \in 1..12}
        /\ Charges(s, a) = MonthlyDates(s.day)
    BY <1>5, <2>1 DEF ChargeDates, Charges
  <2>3. ChargeDates(s, a, until) \subseteq Charges(s, a)
    BY <1>1, <2>2 DEF MonthlyDates
  <2>4. ASSUME NEW x, FirstOf(Charges(s, a), until, x), ~Before(until, a) PROVE x \in ChargeDates(s, a, until)
    <3>1. x \in Date /\ x \in MonthlyDates(s.day) /\ ~Before(x, until)
      BY <1>3, <2>2, <2>4 DEF FirstOf
    <3>2. PICK y \in Int, m \in 1..12 : x = BuildDate(y, m, s.day)
      BY <3>1 DEF MonthlyDates
    <3>3. x.year = y
      <4>1. Buildable(y, m, s.day)
        BY <2>1, <3>2 DEF Buildable
      <4> QED
        BY ONLY <3>2, <4>1, DateIsBuilt
    <3> DEFINE z == BuildDate(until.year + 1, 1, s.day)
    <3>4. z \in Date /\ z.year = until.year + 1
      <4>1. 1 \in 1..12
        OBVIOUS
      <4> QED
        BY ONLY <1>1, <2>1, <4>1, BuildDateIs
    <3>5. z \in Charges(s, a)
      BY <1>1, <2>2 DEF MonthlyDates
    <3> HIDE DEF z
    <3>6. Before(z, until) \/ ~Before(z, x)
      BY <2>4, <3>5 DEF FirstOf
    <3>7. y \in years
      BY <1>2, <2>4, <3>1, <3>3, <3>4, <3>6
    <3> HIDE DEF years
    <3> QED
      BY <2>2, <3>2, <3>7
  <2> QED
    BY <2>3, <2>4
<1>6. CASE s.type = "yearly_date"
  <2>1. s.day \in 1..31 /\ s.month \in 1..12 /\ s.type \notin IntervalUnit /\ s.type # "monthly_date"
    BY <1>6, ScheduleIs
  <2> DEFINE years == a.year .. until.year + 1
  <2>2. /\ ChargeDates(s, a, until) = {BuildDate(y, s.month, s.day) : y \in years}
        /\ Charges(s, a) = {BuildDate(y, s.month, s.day) : y \in Int}
    BY <1>6, <2>1 DEF ChargeDates, Charges
  <2>3. ChargeDates(s, a, until) \subseteq Charges(s, a)
    BY <1>1, <2>2
  <2>4. ASSUME NEW x, FirstOf(Charges(s, a), until, x), ~Before(until, a) PROVE x \in ChargeDates(s, a, until)
    <3>1. x \in Date /\ x \in Charges(s, a) /\ ~Before(x, until)
      BY <1>3, <2>4 DEF FirstOf
    <3>2. PICK y \in Int : x = BuildDate(y, s.month, s.day)
      BY <2>2, <3>1
    <3>3. x.year = y
      <4>1. Buildable(y, s.month, s.day)
        BY <1>1, <2>1, <3>2 DEF Buildable
      <4> QED
        BY ONLY <3>2, <4>1, DateIsBuilt
    <3> DEFINE z == BuildDate(until.year + 1, s.month, s.day)
    <3>4. z \in Date /\ z.year = until.year + 1
      <4> DEFINE e == until.year + 1
      <4>1. e \in Int /\ s.month \in 1..12 /\ s.day \in 1..31
        BY <1>1, <2>1
      <4> HIDE DEF e
      <4>2. BuildDate(e, s.month, s.day) \in Date /\ BuildDate(e, s.month, s.day).year = e
        BY ONLY <4>1, BuildDateIs
      <4> QED
        BY <4>2 DEF e
    <3>5. z \in Charges(s, a)
      BY <1>1, <2>2
    <3> HIDE DEF z
    <3>6. Before(z, until) \/ ~Before(z, x)
      BY <2>4, <3>5 DEF FirstOf
    <3>7. y \in years
      BY <1>2, <2>4, <3>1, <3>3, <3>4, <3>6
    <3> HIDE DEF years
    <3> QED
      BY <2>2, <3>2, <3>7
  <2> QED
    BY <2>3, <2>4
<1> QED
  BY <1>4, <1>5, <1>6, ScheduleIs

\* The date that an overdue subscription rolls to is the first of its schedule that is
\* not in the past.
LEMMA RolledIs ==
  ASSUME NEW s \in Schedule, NEW a \in Date, NEW t \in Date
  PROVE  /\ RolledTo(s, a, t) \in Date
         /\ ~Before(a, t) => RolledTo(s, a, t) = a
         /\ Before(a, t) => /\ FirstOf(Charges(s, a), t, RolledTo(s, a, t))
                            /\ RolledTo(s, a, t) = NextOnOrAfter(s, a, t)
<1> DEFINE n == NextOnOrAfter(s, a, t)
<1>1. FirstOf(Charges(s, a), t, n)
  BY NextIsFirst
<1>2. n \in Date /\ ~Before(n, t)
  BY <1>1, ChargesAreDates DEF FirstOf
<1> HIDE DEF n
<1>3. Before(a, t) => Before(a, n)
  BY <1>2, BeforeFollows
<1>4. RolledTo(s, a, t) = IF Before(a, t) /\ Before(a, n) THEN n ELSE a
  BY DEF RolledTo, n
<1> QED
  BY <1>1, <1>2, <1>3, <1>4 DEF n

\* nextRecurringOccurrenceAfter: the first date of the schedule after a date.
LEMMA NextAfterIs ==
  ASSUME NEW s \in Schedule, NEW a \in Date
  PROVE  /\ FirstOf(Charges(s, a), AddDays(a, 1), NextAfter(s, a))
         /\ NextAfter(s, a) \in Date /\ Before(a, NextAfter(s, a))
<1>1. AddDays(a, 1) \in Date /\ \A x \in Date : Before(x, AddDays(a, 1)) <=> ~Before(a, x)
  BY DayAfter
<1>2. FirstOf(Charges(s, a), AddDays(a, 1), NextAfter(s, a))
  BY <1>1, NextIsFirst DEF NextAfter
<1>3. NextAfter(s, a) \in Date /\ ~Before(NextAfter(s, a), AddDays(a, 1))
  BY <1>2, ChargesAreDates DEF FirstOf
<1> QED
  BY <1>1, <1>2, <1>3

-----------------------------------------------------------------------------
(* The theorems.                                                           *)

LEMMA TypeInit == Init => TypeOK
<1> SUFFICES ASSUME Init PROVE TypeOK
  OBVIOUS
<1>1. entered \in Date /\ FirstDay \in Date /\ MaxDays \in Nat
  BY CalendarAssumption DEF Init
<1>2. elapsed \in 0..MaxDays
  BY <1>1 DEF Init
<1> QED
  BY <1>1, <1>2 DEF Init, TypeOK

LEMMA TypeStep ==
  ASSUME TypeOK, [Next]_vars
  PROVE  TypeOK'
<1>1. /\ schedule \in Schedules /\ schedule \in Schedule /\ mode \in {"auto_renew", "manual_renew"}
      /\ entered \in Date /\ next \in Date /\ today \in Date /\ elapsed \in 0..MaxDays
  BY CalendarAssumption DEF TypeOK
<1>2. CASE DaysPass
  <2>1. PICK n \in Pauses : elapsed + n <= MaxDays /\ elapsed' = elapsed + n /\ today' = AddDays(today, n)
    BY <1>2 DEF DaysPass
  <2>2. n \in Nat /\ MaxDays \in Nat
    BY CalendarAssumption
  <2>3. today' \in Date /\ elapsed' \in 0..MaxDays
    BY <1>1, <2>1, <2>2, AddDaysIs
  <2> QED
    BY <1>1, <1>2, <2>3 DEF DaysPass, TypeOK, subscription
<1>3. CASE Sweep
  <2>1. next' \in Date
    BY <1>1, <1>3, RolledIs DEF Sweep
  <2> QED
    BY <1>1, <1>3, <2>1 DEF Sweep, TypeOK, subscription
<1>4. CASE MarkRenewed
  <2>1. next' \in Date
    BY <1>1, <1>4, NextAfterIs DEF MarkRenewed
  <2> QED
    BY <1>1, <1>4, <2>1 DEF MarkRenewed, TypeOK, subscription
<1>5. CASE UNCHANGED vars
  BY <1>5 DEF vars, subscription, TypeOK
<1> QED
  BY <1>2, <1>3, <1>4, <1>5 DEF Next

\* The dates that the rollover computes are dates of the calendar: no loop of it runs on
\* for ever, whatever the schedule, the date entered and the days that pass.
THEOREM CalendarTypeCorrect == Spec => []TypeOK
<1>1. TypeOK /\ [Next]_vars => TypeOK'
  BY TypeStep
<1> QED
  BY TypeInit, <1>1, PTL DEF Spec

LEMMA ShownFollows == TypeOK => ShownIsFirstDue
<1> SUFFICES ASSUME TypeOK, mode = "auto_renew", Before(next, today)
             PROVE  /\ Presented(next) \in ChargeDates(schedule, next, today)
                    /\ ~Before(Presented(next), today)
                    /\ \A c \in ChargeDates(schedule, next, today) :
                         Before(c, today) \/ ~Before(c, Presented(next))
  BY DEF ShownIsFirstDue
<1>1. schedule \in Schedule /\ next \in Date /\ today \in Date
  BY CalendarAssumption DEF TypeOK
<1> DEFINE x == Presented(next)
<1>2. x = RolledTo(schedule, next, today)
  BY DEF Presented
<1>3. FirstOf(Charges(schedule, next), today, x)
  BY <1>1, <1>2, RolledIs
<1>4. ~Before(today, next)
  BY <1>1, BeforeIsStrict
<1> HIDE DEF x
<1>5. /\ x \in ChargeDates(schedule, next, today)
      /\ ChargeDates(schedule, next, today) \subseteq Charges(schedule, next)
  BY <1>1, <1>3, <1>4, ChargeDatesReach
<1> QED
  BY <1>3, <1>5 DEF FirstOf, x

\* For every schedule, entered date and sequence of days, an overdue subscription that
\* renews by itself shows the first date of its schedule that is not in the past
\* (nextRecurringBillingDateOnOrAfter).
THEOREM FirstDueIsShown == Spec => []ShownIsFirstDue
<1>1. TypeOK => ShownIsFirstDue
  BY ShownFollows
<1> QED
  BY CalendarTypeCorrect, <1>1, PTL

LEMMA RenewalStep ==
  ASSUME TypeOK, [Next]_vars, mode = "manual_renew", next' # next
  PROVE  /\ Before(next, next')
         /\ next' \in ChargeDates(schedule, next, next')
         /\ \A c \in ChargeDates(schedule, next, next') : ~Before(next, c) \/ ~Before(c, next')
<1>1. schedule \in Schedule /\ next \in Date
  BY CalendarAssumption DEF TypeOK
<1>2. next' = NextAfter(schedule, next)
  BY DEF Next, DaysPass, Sweep, MarkRenewed, vars
<1> DEFINE x == next'
<1>3. /\ FirstOf(Charges(schedule, next), AddDays(next, 1), x)
      /\ x \in Date /\ Before(next, x)
  BY <1>1, <1>2, NextAfterIs
<1> HIDE DEF x
<1>4. \A y \in Date : Before(y, AddDays(next, 1)) <=> ~Before(next, y)
  BY <1>1, DayAfter
<1>5. Charges(schedule, next) \subseteq Date
  BY <1>1, ChargesAreDates
<1>6. FirstOf(Charges(schedule, next), x, x)
  BY <1>3, <1>5, BeforeIsStrict DEF FirstOf
<1>7. ~Before(x, next)
  BY <1>1, <1>3, BeforeIsStrict
<1>8. /\ x \in ChargeDates(schedule, next, x)
      /\ ChargeDates(schedule, next, x) \subseteq Charges(schedule, next)
  BY <1>1, <1>3, <1>6, <1>7, ChargeDatesReach
<1>9. \A c \in Charges(schedule, next) : ~Before(next, c) \/ ~Before(c, x)
  BY <1>3, <1>4, <1>5 DEF FirstOf
<1> QED
  BY <1>3, <1>8, <1>9 DEF x

\* For every schedule, a renewal by hand moves the date to the next one of the schedule:
\* none lies between (MarkManualRenewed).
THEOREM RenewalsMoveOnePeriod == Spec => RenewsOnePeriod
<1>1. TypeOK /\ [Next]_vars =>
        [mode = "manual_renew" /\ next' # next =>
          /\ Before(next, next')
          /\ next' \in ChargeDates(schedule, next, next')
          /\ \A c \in ChargeDates(schedule, next, next') : ~Before(next, c) \/ ~Before(c, next')]_vars
  BY RenewalStep
<1> QED
  BY CalendarTypeCorrect, <1>1, PTL DEF Spec, RenewsOnePeriod

-----------------------------------------------------------------------------
(* What short months do.  On days that every month has, the dates counted  *)
(* from a date of a schedule are the dates of the schedule from there on,  *)
(* so a roll over two spans of days is the roll over both at once.         *)

Common(s, e) == s.type \in {"month", "year"} => e.day <= 28

LEMMA CommonDayStays ==
  ASSUME NEW s, Interval(s), NEW e \in Date, Common(s, e), NEW k \in Nat
  PROVE  /\ s.type \in {"month", "year"} => Occurrence(s, e, k).day = e.day
         /\ s.type = "year" => Occurrence(s, e, k).month = e.month
<1>1. s.count \in Nat /\ e.year \in Int /\ e.month \in 1..12 /\ e.day \in 1..31
  BY ScheduleIs, DateIs DEF Interval
<1>2. k * s.count \in Nat
  BY <1>1
<1>3. ASSUME NEW y \in Int, NEW m \in 1..12, e.day <= 28 PROVE BuildDate(y, m, e.day).day = e.day
  <2>1. /\ BuildDate(y, m, e.day).day \in 1..DaysInMonth(y, m) /\ BuildDate(y, m, e.day).day <= e.day
        /\ BuildDate(y, m, e.day).day < e.day => BuildDate(y, m, e.day).day = DaysInMonth(y, m)
    BY <1>1, BuildDay
  <2>2. DaysInMonth(y, m) \in 28..31
    BY MonthLengths
  <2> DEFINE d == BuildDate(y, m, e.day).day
             l == DaysInMonth(y, m)
  <2>3. l \in 28..31 /\ d \in 1..l /\ d <= e.day /\ (d < e.day => d = l)
    BY <2>1, <2>2
  <2> HIDE DEF d, l
  <2>4. d = e.day
    BY ONLY <1>1, <1>3, <2>3
  <2> QED
    BY <2>4 DEF d
<1>4. CASE s.type = "month"
  <2> DEFINE o == AddMonthsPreservePreferredDay(e, k * s.count, e.day)
  <2>1. Occurrence(s, e, k) = o
    BY <1>4 DEF Occurrence, AddMonthsPreservePreferredDay
  <2>2. o \in Date /\ BuiltOn(e.day, o)
    <3> DEFINE n == k * s.count
    <3>1. n \in Int /\ e.day \in 1..31
      BY <1>1, <1>2
    <3> HIDE DEF n
    <3>2. AddMonthsPreservePreferredDay(e, n, e.day) \in Date /\ BuiltOn(e.day, AddMonthsPreservePreferredDay(e, n, e.day))
      BY ONLY e \in Date, <3>1, AddMonthsIs
    <3> QED
      BY <3>2 DEF n
  <2> HIDE DEF o
  <2>3. o.year \in Int /\ o.month \in 1..12
    BY <2>2, DateIs
  <2>4. o.day = e.day
    BY <1>3, <1>4, <2>2, <2>3 DEF BuiltOn, Common
  <2> QED
    BY <1>4, <2>1, <2>4
<1>5. CASE s.type = "year"
  <2> DEFINE y == e.year + k * s.count
  <2>1. Occurrence(s, e, k) = BuildDate(y, e.month, e.day)
    BY <1>5 DEF Occurrence
  <2>2. y \in Int /\ e.month \in 1..12 /\ e.day \in 1..31
    BY <1>1, <1>2
  <2> HIDE DEF y
  <2>3. BuildDate(y, e.month, e.day).month = e.month
    <3>1. Buildable(y, e.month, e.day)
      BY <2>2 DEF Buildable
    <3> QED
      BY ONLY <3>1, DateIsBuilt
  <2> QED
    BY <1>3, <1>5, <2>1, <2>2, <2>3 DEF Common
<1> QED
  BY <1>4, <1>5

LEMMA OccurrencesFrom ==
  ASSUME NEW s, Interval(s), NEW e \in Date, Common(s, e), NEW k \in Nat, NEW n \in Nat
  PROVE  Occurrence(s, Occurrence(s, e, k), n) = Occurrence(s, e, k + n)
<1> DEFINE a == Occurrence(s, e, k)
           T == {i \in Nat : Occurrence(s, a, i) = Occurrence(s, e, k + i)}
<1>1. a \in Date
  BY OccurrenceIs
<1>2. /\ s.type = "day" \/ s.type = "week" \/ s.type = "month" \/ s.type = "year"
      /\ s.type \in {"month", "year"} => a.day = e.day
      /\ s.type = "year" => a.month = e.month
  BY CommonDayStays, ScheduleIs DEF Interval
<1>3. \A c : StepOf(s, a, c) = StepOf(s, e, c)
  <2> HIDE DEF a
  <2> TAKE c
  <2>1. CASE s.type = "day"
    BY <2>1 DEF StepOf
  <2>2. CASE s.type = "week"
    BY <2>2 DEF StepOf
  <2>3. CASE s.type = "month"
    BY <1>2, <2>3 DEF StepOf
  <2>4. CASE s.type = "year"
    BY <1>2, <2>4 DEF StepOf
  <2> QED
    BY <1>2, <2>1, <2>2, <2>3, <2>4
<1>4. 0 \in T
  <2>1. k + 0 = k /\ Occurrence(s, a, 0) = a
    BY <1>1, OccurrenceIs
  <2> QED
    BY <2>1
<1> HIDE DEF a
<1>5. ASSUME NEW i \in T PROVE i + 1 \in T
  <2>1. i \in Nat /\ k + i \in Nat /\ (k + i) + 1 = k + (i + 1)
        /\ Occurrence(s, a, i) = Occurrence(s, e, k + i)
    OBVIOUS
  <2>2. StepOf(s, a, Occurrence(s, a, i)) = Occurrence(s, a, i + 1)
    BY <1>1, <2>1, OccurrenceIs
  <2>3. StepOf(s, e, Occurrence(s, e, k + i)) = Occurrence(s, e, (k + i) + 1)
    BY <2>1, OccurrenceIs
  <2> QED
    BY <1>3, <2>1, <2>2, <2>3
<1>6. T = Nat
  <2>1. T \in SUBSET Nat
    OBVIOUS
  <2> HIDE DEF T
  <2> QED
    BY <1>4, <1>5, <2>1, AllNumbers
<1> QED
  BY <1>6 DEF a

\* The dates from a later date of the schedule on are those of the schedule from there on.
LEMMA ChargesFrom ==
  ASSUME NEW s \in Schedule, NEW e \in Date, Common(s, e), NEW a \in Charges(s, e)
  PROVE  /\ Charges(s, a) \subseteq Charges(s, e)
         /\ \A c \in Charges(s, e) : Before(c, a) \/ c \in Charges(s, a)
<1>1. CASE s.type \in IntervalUnit
  <2>1. Interval(s) /\ \A b : Charges(s, b) = {Occurrence(s, b, i) : i \in Nat}
    BY <1>1 DEF Interval, Charges
  <2>2. PICK k \in Nat : a = Occurrence(s, e, k)
    BY <2>1
  <2>3. \A n \in Nat : Occurrence(s, a, n) = Occurrence(s, e, k + n)
    BY <2>1, <2>2, OccurrencesFrom
  <2>4. Charges(s, a) \subseteq Charges(s, e)
    <3>1. \A n \in Nat : k + n \in Nat
      OBVIOUS
    <3> QED
      BY <2>1, <2>3, <3>1
  <2>5. ASSUME NEW c \in Charges(s, e) PROVE Before(c, a) \/ c \in Charges(s, a)
    <3>1. PICK i \in Nat : c = Occurrence(s, e, i)
      BY <2>1
    <3>2. CASE i < k
      BY <2>1, <2>2, <3>1, <3>2, OccurrencesAscend
    <3>3. CASE ~(i < k)
      <4>1. i - k \in Nat /\ k + (i - k) = i
        BY <3>3
      <4>2. c = Occurrence(s, a, i - k)
        BY <2>3, <3>1, <4>1
      <4> QED
        BY <2>1, <4>1, <4>2
    <3> QED
      BY <3>2, <3>3
  <2> QED
    BY <2>4, <2>5
<1>2. CASE s.type \notin IntervalUnit
  BY <1>2 DEF Charges
<1> QED
  BY <1>1, <1>2

LEMMA RollsCompose ==
  ASSUME NEW s \in Schedule, NEW e \in Date, Common(s, e),
         NEW t \in Date, NEW u \in Date, ~Before(u, t)
  PROVE  RolledTo(s, RolledTo(s, e, t), u) = RolledTo(s, e, u)
<1> DEFINE a == RolledTo(s, e, t)
           x == RolledTo(s, a, u)
           y == RolledTo(s, e, u)
<1>1. CASE ~Before(e, t)
  BY <1>1, RolledIs
<1>2. CASE Before(e, t)
  <2>1. FirstOf(Charges(s, e), t, a) /\ a \in Date /\ Charges(s, e) \subseteq Date
    BY <1>2, RolledIs, ChargesAreDates
  <2> HIDE DEF a
  <2>2. Before(e, u)
    BY <1>2, BeforeFollows
  <2>3. FirstOf(Charges(s, e), u, y)
    BY <2>2, RolledIs
  <2>4. CASE ~Before(a, u)
    <3>1. x = a
      BY <2>1, <2>4, RolledIs
    <3>2. \A c \in Charges(s, e) : Before(c, t) => Before(c, u)
      BY <2>1, BeforeFollows
    <3>3. FirstOf(Charges(s, e), u, a)
      BY <2>1, <2>4, <3>2 DEF FirstOf
    <3> HIDE DEF x, y
    <3>4. a = y
      BY <2>1, <2>3, <3>3, FirstIsOne
    <3> QED
      BY <3>1, <3>4 DEF x, y, a
  <2>5. CASE Before(a, u)
    <3>1. FirstOf(Charges(s, a), u, x)
      BY <2>1, <2>5, RolledIs
    <3>2. a \in Charges(s, e)
      BY <2>1 DEF FirstOf
    <3>3. /\ Charges(s, a) \subseteq Charges(s, e)
          /\ \A c \in Charges(s, e) : Before(c, a) \/ c \in Charges(s, a)
      BY <3>2, ChargesFrom
    <3>4. \A c \in Charges(s, e) : Before(c, a) => Before(c, u)
      <4> TAKE c \in Charges(s, e)
      <4>1. c \in Date
        BY <2>1
      <4>2. ~Before(u, a)
        BY <2>1, <2>5, BeforeIsStrict
      <4> QED
        BY <2>1, <4>1, <4>2, BeforeFollows
    <3> HIDE DEF x, y
    <3>5. FirstOf(Charges(s, e), u, x)
      BY <3>1, <3>3, <3>4 DEF FirstOf
    <3>6. x = y
      BY <2>1, <2>3, <3>5, FirstIsOne
    <3> QED
      BY <3>6 DEF x, y, a
  <2> QED
    BY <2>4, <2>5
<1> QED
  BY <1>1, <1>2

(* A date that a short month cut stays in the months of the schedule.      *)

ByMonths(s) == Interval(s) /\ (s.type = "month" \/ s.type = "year")

Width(s) == IF s.type = "month" THEN s.count ELSE 12 * s.count

LEMMA OccurrenceMonth ==
  ASSUME NEW s, ByMonths(s), NEW a \in Date, NEW k \in Nat
  PROVE  /\ Occurrence(s, a, k) \in Date
         /\ MonthNumber(Occurrence(s, a, k)) = MonthNumber(a) + k * Width(s)
         /\ BuiltOn(a.day, Occurrence(s, a, k))
<1>1. /\ s.count \in Nat /\ k * s.count \in Nat
      /\ a.year \in Int /\ a.month \in 1..12 /\ a.day \in 1..31
  BY ScheduleIs, DateIs DEF ByMonths, Interval
<1>2. CASE s.type = "month"
  <2> DEFINE n == k * s.count
  <2>1. n \in Int /\ a.day \in 1..31 /\ n = k * Width(s)
    BY <1>1, <1>2 DEF Width
  <2>2. Occurrence(s, a, k) = AddMonthsPreservePreferredDay(a, n, a.day)
    BY <1>2 DEF Occurrence, AddMonthsPreservePreferredDay
  <2> HIDE DEF n
  <2>3. /\ AddMonthsPreservePreferredDay(a, n, a.day) \in Date
        /\ MonthNumber(AddMonthsPreservePreferredDay(a, n, a.day)) = MonthNumber(a) + n
        /\ BuiltOn(a.day, AddMonthsPreservePreferredDay(a, n, a.day))
    BY ONLY a \in Date, <2>1, AddMonthsIs
  <2> QED
    BY <2>1, <2>2, <2>3
<1>3. CASE s.type = "year"
  <2> DEFINE n == k * s.count
             y == a.year + n
             o == BuildDate(y, a.month, a.day)
  <2>1. n \in Int /\ y \in Int /\ a.month \in 1..12 /\ a.day \in 1..31
    BY <1>1
  <2>2. 12 * n = k * Width(s)
    BY <1>1, <1>3 DEF Width
  <2>3. Occurrence(s, a, k) = o
    BY <1>3 DEF Occurrence
  <2>4. 12 * y + a.month = 12 * a.year + a.month + 12 * n
    BY <1>1, <2>1
  <2> HIDE DEF n, y
  <2>5. o \in Date /\ o.year = y /\ o.month = a.month
    <3>1. Buildable(y, a.month, a.day)
      BY <2>1 DEF Buildable
    <3> QED
      BY ONLY <3>1, DateIsBuilt
  <2>6. BuiltOn(a.day, o)
    BY <2>5 DEF BuiltOn
  <2>7. MonthNumber(o) = 12 * y + a.month
    BY <2>5 DEF MonthNumber
  <2>8. MonthNumber(o) = MonthNumber(a) + 12 * n
    BY <2>4, <2>7 DEF MonthNumber
  <2> HIDE DEF o
  <2> QED
    BY <2>2, <2>3, <2>5, <2>6, <2>8
<1> QED
  BY <1>2, <1>3 DEF ByMonths

LEMMA BuiltDay ==
  ASSUME NEW c \in Date, NEW d \in 1..31, BuiltOn(d, c)
  PROVE  /\ c.day \in 1..DaysInMonth(c.year, c.month) /\ c.day <= d
         /\ c.day < d => c.day = DaysInMonth(c.year, c.month)
<1>1. c.year \in Int /\ c.month \in 1..12
  BY DateIs
<1>2. /\ BuildDate(c.year, c.month, d).day \in 1..DaysInMonth(c.year, c.month)
      /\ BuildDate(c.year, c.month, d).day <= d
      /\ BuildDate(c.year, c.month, d).day < d
           => BuildDate(c.year, c.month, d).day = DaysInMonth(c.year, c.month)
  BY ONLY <1>1, d \in 1..31, BuildDay
<1>3. c.day = BuildDate(c.year, c.month, d).day
  BY DEF BuiltOn
<1> QED
  BY <1>2, <1>3

\* c is what a month of l days keeps of the day d.
Cut(l, d, c) ==
  l \in 28..31 /\ d \in 1..31 /\ c \in 1..l /\ c <= d /\ (c < d => c = l)

\* The day kept in a month by a date that other months cut before.
LEMMA DayCut ==
  ASSUME NEW l, NEW h, NEW e, NEW a, NEW o, NEW p, NEW q,
         Cut(l, e, o), Cut(h, a, p), Cut(h, e, q), a = o \/ a \in 28..o
  PROVE  p = q \/ p \in 28..q
  BY DEF Cut

\* A date in the month of the k-th date of a schedule, cut to a day from the 28th on.
KeptAt(s, e, a, k) ==
  LET o == Occurrence(s, e, k)
  IN  a.year = o.year /\ a.month = o.month /\ (a.day = o.day \/ a.day \in 28..o.day)

LEMMA KeptOn ==
  ASSUME NEW s, ByMonths(s), NEW e \in Date, NEW a \in Date, NEW k \in Nat, KeptAt(s, e, a, k), NEW j \in Nat
  PROVE  KeptAt(s, e, Occurrence(s, a, j), k + j)
<1> DEFINE o == Occurrence(s, e, k)
           p == Occurrence(s, a, j)
           q == Occurrence(s, e, k + j)
           w == Width(s)
<1>1. /\ w \in Nat /\ k * w \in Nat /\ j * w \in Nat /\ k + j \in Nat
      /\ (k + j) * w = k * w + j * w
  <2>1. w \in Nat
    BY ScheduleIs DEF ByMonths, Interval, Width
  <2> HIDE DEF w
  <2> QED
    BY <2>1
<1>2. o \in Date /\ MonthNumber(o) = MonthNumber(e) + k * w /\ BuiltOn(e.day, o)
  BY OccurrenceMonth
<1>3. p \in Date /\ MonthNumber(p) = MonthNumber(a) + j * w /\ BuiltOn(a.day, p)
  BY OccurrenceMonth
<1>4. q \in Date /\ MonthNumber(q) = MonthNumber(e) + (k + j) * w /\ BuiltOn(e.day, q)
  BY <1>1, OccurrenceMonth
<1>5. a.year = o.year /\ a.month = o.month /\ (a.day = o.day \/ a.day \in 28..o.day)
  BY DEF KeptAt
<1> HIDE DEF o, p, q, w
<1>6. MonthNumber(a) = MonthNumber(o)
  BY <1>5 DEF MonthNumber
<1>7. MonthNumber(p) = MonthNumber(q)
  <2>1. MonthNumber(e) \in Int
    BY DayNumberOrders
  <2> QED
    BY <1>1, <1>2, <1>3, <1>4, <1>6, <2>1
<1>8. p.year = q.year /\ p.month = q.month
  <2>1. p.year \in Int /\ p.month \in 1..12 /\ q.year \in Int /\ q.month \in 1..12
    BY <1>3, <1>4, DateIs
  <2> QED
    BY <1>7, <2>1, MonthOrder DEF MonthNumber
<1> DEFINE l == DaysInMonth(o.year, o.month)
           h == DaysInMonth(q.year, q.month)
<1>9. l \in 28..31 /\ h \in 28..31 /\ e.day \in 1..31 /\ a.day \in 1..31
  BY MonthLengths, DateIs
<1>10. Cut(l, e.day, o.day)
  BY <1>2, <1>9, BuiltDay DEF Cut
<1>11. Cut(h, e.day, q.day)
  BY <1>4, <1>9, BuiltDay DEF Cut
<1>12. Cut(h, a.day, p.day)
  BY <1>3, <1>8, <1>9, BuiltDay DEF Cut
<1> HIDE DEF l, h
<1>13. p.day = q.day \/ p.day \in 28..q.day
  BY ONLY <1>5, <1>10, <1>11, <1>12, DayCut
<1> QED
  BY <1>8, <1>13 DEF KeptAt, p, q

\* What is inductive: the date kept is in a month of the schedule, and on days that
\* every month has it is the date entered, rolled to a day that has been.
KeptInv == schedule.type \in {"month", "year"} => \E k \in Nat : KeptAt(schedule, entered, next, k)

SweptInv ==
  mode = "auto_renew" /\ Common(schedule, entered) =>
    \/ next = entered
    \/ \E t \in Date : ~Before(today, t) /\ next = RolledTo(schedule, entered, t)

DatesInv == TypeOK /\ KeptInv /\ SweptInv

LEMMA DatesInit == Init => DatesInv
<1> SUFFICES ASSUME Init PROVE KeptInv /\ SweptInv
  BY TypeInit DEF DatesInv
<1>1. TypeOK /\ next = entered
  BY TypeInit DEF Init
<1>2. schedule \in Schedule /\ entered \in Date
  BY <1>1, CalendarAssumption DEF TypeOK
<1>3. KeptInv
  <2> SUFFICES ASSUME schedule.type \in {"month", "year"}
               PROVE  \E k \in Nat : KeptAt(schedule, entered, next, k)
    BY DEF KeptInv
  <2>1. Interval(schedule)
    BY <1>2 DEF Interval, IntervalUnit
  <2>2. Occurrence(schedule, entered, 0) = entered /\ 0 \in Nat
    BY <1>2, <2>1, OccurrenceIs
  <2>3. KeptAt(schedule, entered, next, 0)
    BY <1>1, <2>2 DEF KeptAt
  <2> QED
    BY <2>2, <2>3
<1> QED
  BY <1>1, <1>3 DEF SweptInv

\* A date of the schedule counted from the date kept keeps what the date kept had.
LEMMA KeptMoves ==
  ASSUME TypeOK, KeptInv, NEW from \in Date, UNCHANGED subscription, UNCHANGED entered,
         next' = NextOnOrAfter(schedule, next, from)
  PROVE  KeptInv'
<1> SUFFICES ASSUME schedule.type \in {"month", "year"}
             PROVE  \E k \in Nat : KeptAt(schedule, entered, next', k)
  BY DEF KeptInv, subscription
<1>1. schedule \in Schedule /\ entered \in Date /\ next \in Date
  BY CalendarAssumption DEF TypeOK
<1>2. Interval(schedule) /\ ByMonths(schedule) /\ schedule.type \in IntervalUnit
  BY <1>1 DEF Interval, IntervalUnit, ByMonths
<1>3. PICK k \in Nat : KeptAt(schedule, entered, next, k)
  BY DEF KeptInv
<1>4. NextOnOrAfter(schedule, next, from) = NextIntervalOccurrence(schedule, next, from)
  BY <1>2 DEF NextOnOrAfter
<1>5. PICK j \in Nat : NextIntervalOccurrence(schedule, next, from) = Occurrence(schedule, next, j)
  BY <1>1, <1>2, FirstOfInterval
<1>6. KeptAt(schedule, entered, Occurrence(schedule, next, j), k + j) /\ k + j \in Nat
  BY <1>1, <1>2, <1>3, KeptOn
<1> QED
  BY <1>4, <1>5, <1>6

LEMMA DatesStep ==
  ASSUME DatesInv, [Next]_vars
  PROVE  DatesInv'
<1>1. TypeOK /\ KeptInv /\ SweptInv /\ TypeOK'
  BY TypeStep DEF DatesInv
<1>2. schedule \in Schedule /\ entered \in Date /\ next \in Date /\ today \in Date
  BY <1>1, CalendarAssumption DEF TypeOK
<1>3. CASE DaysPass
  <2>1. PICK n \in Pauses : today' = AddDays(today, n) /\ UNCHANGED <<subscription, entered, next>>
    BY <1>3 DEF DaysPass
  <2>2. ~Before(today', today) /\ today' \in Date
    <3>1. n \in Nat /\ n > 0
      BY CalendarAssumption
    <3>2. AddDays(today, n) \in Date /\ DayNumber(AddDays(today, n)) >= DayNumber(today) + n
      BY <1>2, <3>1, AddDaysIs, AddDaysGrows
    <3> DEFINE d == AddDays(today, n)
    <3> HIDE DEF d
    <3>3. DayNumber(d) \in Int /\ DayNumber(today) \in Int /\ DayNumber(d) >= DayNumber(today) + n
      BY <1>2, <3>2, DayNumberOrders DEF d
    <3>4. ~(DayNumber(d) < DayNumber(today))
      BY ONLY <3>1, <3>3
    <3> QED
      BY <1>2, <2>1, <3>2, <3>4, DayNumberOrders DEF d
  <2>3. KeptInv'
    BY <1>1, <2>1 DEF KeptInv, subscription
  <2>4. \A t \in Date : ~Before(today, t) => ~Before(today', t)
    BY <1>2, <2>2, BeforeFollows
  <2>5. SweptInv'
    BY <1>1, <2>1, <2>4 DEF SweptInv, subscription
  <2> QED
    BY <1>1, <2>3, <2>5 DEF DatesInv
<1>4. CASE Sweep
  <2>1. /\ mode = "auto_renew" /\ next' = RolledTo(schedule, next, today) /\ next' # next
        /\ UNCHANGED subscription /\ UNCHANGED entered /\ UNCHANGED today
    BY <1>4 DEF Sweep
  <2>2. Before(next, today) /\ next' = NextOnOrAfter(schedule, next, today)
    BY <1>2, <2>1, RolledIs
  <2>3. KeptInv'
    BY <1>1, <1>2, <2>1, <2>2, KeptMoves
  <2>4. SweptInv'
    <3> SUFFICES ASSUME Common(schedule, entered) PROVE next' = RolledTo(schedule, entered, today)
      BY <1>2, <2>1, BeforeIsStrict DEF SweptInv, subscription
    <3>1. CASE next = entered
      BY <2>1, <3>1
    <3>2. CASE \E t \in Date : ~Before(today, t) /\ next = RolledTo(schedule, entered, t)
      BY <1>2, <2>1, <3>2, RollsCompose
    <3> QED
      BY <1>1, <2>1, <3>1, <3>2 DEF SweptInv
  <2> QED
    BY <1>1, <2>3, <2>4 DEF DatesInv
<1>5. CASE MarkRenewed
  <2>1. /\ mode = "manual_renew" /\ next' = NextAfter(schedule, next)
        /\ UNCHANGED subscription /\ UNCHANGED entered
    BY <1>5 DEF MarkRenewed
  <2>2. AddDays(next, 1) \in Date /\ next' = NextOnOrAfter(schedule, next, AddDays(next, 1))
    BY <1>2, <2>1, DayAfter DEF NextAfter
  <2>3. KeptInv'
    BY <1>1, <2>1, <2>2, KeptMoves
  <2>4. SweptInv'
    BY <2>1 DEF SweptInv, subscription
  <2> QED
    BY <1>1, <2>3, <2>4 DEF DatesInv
<1>6. CASE UNCHANGED vars
  BY <1>1, <1>6 DEF vars, subscription, DatesInv, KeptInv, SweptInv
<1> QED
  BY <1>3, <1>4, <1>5, <1>6 DEF Next

LEMMA DatesImply == DatesInv => MonthEndsBounded
<1> SUFFICES ASSUME DatesInv PROVE SameOnCommonDays /\ MonthKept
  BY DEF MonthEndsBounded
<1>1. TypeOK /\ KeptInv /\ SweptInv
  BY DEF DatesInv
<1>2. schedule \in Schedule /\ entered \in Date /\ next \in Date /\ today \in Date
  BY <1>1, CalendarAssumption DEF TypeOK
<1>3. SameOnCommonDays
  <2> SUFFICES ASSUME Common(schedule, entered), mode = "auto_renew"
               PROVE  RolledTo(schedule, next, today) = RolledTo(schedule, entered, today)
    BY DEF SameOnCommonDays, SameWhetherSwept, Presented, Common
  <2>1. CASE next = entered
    BY <2>1
  <2>2. CASE \E t \in Date : ~Before(today, t) /\ next = RolledTo(schedule, entered, t)
    BY <1>2, <2>2, RollsCompose
  <2> QED
    BY <1>1, <2>1, <2>2 DEF SweptInv
<1>4. MonthKept
  <2> SUFFICES ASSUME schedule.type \in {"month", "year"}
               PROVE  \E c \in ChargeDates(schedule, entered, next) :
                        /\ c.year = next.year /\ c.month = next.month
                        /\ next.day = c.day \/ next.day \in 28 .. c.day
    BY DEF MonthKept
  <2>1. Interval(schedule) /\ schedule.type \in IntervalUnit /\ (schedule.type = "month" \/ schedule.type = "year")
    BY <1>2 DEF Interval, IntervalUnit
  <2>2. PICK k \in Nat : KeptAt(schedule, entered, next, k)
    BY <1>1 DEF KeptInv
  <2> DEFINE c == Occurrence(schedule, entered, k)
  <2>3. c.year = next.year /\ c.month = next.month /\ (next.day = c.day \/ next.day \in 28 .. c.day)
    BY <2>2 DEF KeptAt
  <2>4. MonthNumber(c) = MonthNumber(next)
    BY <2>3 DEF MonthNumber
  <2>5. Periods(schedule, entered, next) \in Int /\ k + 1 <= Periods(schedule, entered, next)
    BY <1>2, <2>1, <2>4, PeriodsReach
  <2>6. k \in 0..Periods(schedule, entered, next)
    BY <2>5
  <2>7. c \in ChargeDates(schedule, entered, next)
    BY <2>1, <2>6 DEF ChargeDates
  <2> QED
    BY <2>3, <2>7
<1> QED
  BY <1>3, <1>4

\* For every schedule, entered date and sequence of days and sweeps, a day that every
\* month has never depends on when the sweeps ran, and a later one loses days but never
\* its month, and never falls before the 28th (advanceSubscriptionLifecycle).
THEOREM MonthEndsStayBounded == Spec => []MonthEndsBounded
<1>1. DatesInv /\ [Next]_vars => DatesInv'
  BY DatesStep
<1>2. DatesInv => MonthEndsBounded
  BY DatesImply
<1> QED
  BY DatesInit, <1>1, <1>2, PTL DEF Spec

-----------------------------------------------------------------------------
(* What SubscriptionLifecycle asks of a calendar, of this one: its dates   *)
(* are the day numbers of the dates here, its FirstDue and DueAfter the    *)
(* rolls.                                                                  *)

DayOf(n) == CHOOSE c \in Date : DayNumber(c) = n

DayNumbers == {DayNumber(c) : c \in {x \in Date : x.year \in Nat}}

FirstDue(s, a, day) == DayNumber(RolledTo(s, DayOf(a), DayOf(day)))

DueAfter(s, a) == DayNumber(NextAfter(s, DayOf(a)))

Regular == {x \in Schedule \X DayNumbers : Common(x[1], DayOf(x[2]))}

LEMMA DayOfNumber ==
  ASSUME NEW c \in Date
  PROVE  DayOf(DayNumber(c)) = c
<1>1. PICK d \in Date : d = DayOf(DayNumber(c)) /\ DayNumber(d) = DayNumber(c)
  BY DEF DayOf
<1> QED
  BY <1>1, DayNumberOrders

LEMMA NumberIs ==
  ASSUME NEW n \in DayNumbers
  PROVE  DayOf(n) \in Date /\ DayOf(n).year \in Nat /\ DayNumber(DayOf(n)) = n /\ n \in Nat
<1>1. PICK c \in Date : c.year \in Nat /\ n = DayNumber(c)
  BY DEF DayNumbers
<1>2. c.month \in 1..12 /\ c.day \in 1..31
  BY DateIs
<1>3. n \in Nat
  BY <1>1, <1>2 DEF DayNumber, MonthNumber
<1> QED
  BY <1>1, <1>3, DayOfNumber

\* A date that is not before one of a year from 0 on has such a year too.
LEMMA LaterIsNumber ==
  ASSUME NEW c \in Date, NEW d \in Date, d.year \in Nat, ~Before(c, d)
  PROVE  DayNumber(c) \in DayNumbers /\ DayNumber(c) \in Nat /\ DayNumber(c) >= DayNumber(d)
<1>1. c.year \in Int /\ DayNumber(c) \in Int /\ DayNumber(d) \in Int /\ ~(DayNumber(c) < DayNumber(d))
  BY DateIs, DayNumberOrders
<1>2. c.year \in Nat
  BY <1>1 DEF Before
<1>3. DayNumber(c) \in DayNumbers
  BY <1>2 DEF DayNumbers
<1> QED
  BY <1>1, <1>3, NumberIs

\* The assumption DueAssumption of SubscriptionLifecycle: a roll leads to a date on or
\* after the day, for every schedule and all dates (nextRecurringBillingDateOnOrAfter).
THEOREM RollsAreDue ==
  ASSUME NEW s \in Schedule, NEW a \in DayNumbers, NEW day \in DayNumbers, a < day
  PROVE  FirstDue(s, a, day) \in DayNumbers /\ FirstDue(s, a, day) >= day
<1> DEFINE e == DayOf(a)
           t == DayOf(day)
           r == RolledTo(s, e, t)
<1>1. e \in Date /\ t \in Date /\ t.year \in Nat /\ DayNumber(e) = a /\ DayNumber(t) = day
  BY NumberIs
<1>2. Before(e, t)
  BY <1>1, DayNumberOrders
<1>3. r \in Date /\ ~Before(r, t)
  BY <1>1, <1>2, RolledIs DEF FirstOf
<1> QED
  BY <1>1, <1>3, LaterIsNumber DEF FirstDue

\* Dates of a schedule stay on days that every month has.
LEMMA CommonStays ==
  ASSUME NEW s \in Schedule, NEW e \in Date, Common(s, e), NEW c \in Charges(s, e)
  PROVE  Common(s, c)
<1> SUFFICES ASSUME s.type \in {"month", "year"} PROVE c.day <= 28
  BY DEF Common
<1>1. s.type \in IntervalUnit /\ Interval(s)
  BY DEF IntervalUnit, Interval
<1>2. PICK k \in Nat : c = Occurrence(s, e, k)
  BY <1>1 DEF Charges
<1>3. c.day = e.day
  BY <1>1, <1>2, CommonDayStays
<1> QED
  BY <1>3 DEF Common

\* The calendar's half of RollsCompose of SubscriptionLifecycle: the dates on days that
\* every month has are not left by rolls and renewals, and to roll to one day and then to
\* a later one is to roll to the later one (advanceSubscriptionLifecycle). The other
\* half is about what users enter.
THEOREM RollsComposeInNumbers ==
  ASSUME NEW s \in Schedule, NEW a \in DayNumbers, <<s, a>> \in Regular
  PROVE  /\ <<s, DueAfter(s, a)>> \in Regular
         /\ \A day, later \in DayNumbers : a < day /\ day <= later =>
              LET due == FirstDue(s, a, day)
              IN  /\ <<s, due>> \in Regular
                  /\ FirstDue(s, a, later) = IF due < later THEN FirstDue(s, due, later) ELSE due
<1> DEFINE e == DayOf(a)
<1>1. e \in Date /\ e.year \in Nat /\ DayNumber(e) = a /\ a \in Nat /\ Common(s, e)
  BY NumberIs DEF Regular
<1> HIDE DEF e
<1>2. ASSUME NEW c \in Charges(s, e), NEW d \in Date, d.year \in Nat, ~Before(c, d)
      PROVE  c \in Date /\ DayNumber(c) \in DayNumbers /\ DayNumber(c) \in Nat /\ <<s, DayNumber(c)>> \in Regular
  <2>1. c \in Date /\ Common(s, c)
    BY <1>1, ChargesAreDates, CommonStays
  <2>2. DayNumber(c) \in DayNumbers /\ DayNumber(c) \in Nat /\ DayOf(DayNumber(c)) = c
    BY <1>2, <2>1, LaterIsNumber, DayOfNumber
  <2> QED
    BY <2>1, <2>2 DEF Regular
<1>3. <<s, DueAfter(s, a)>> \in Regular
  <2> DEFINE n == NextAfter(s, e)
  <2>1. n \in Charges(s, e) /\ n \in Date /\ Before(e, n)
    BY <1>1, NextAfterIs DEF FirstOf
  <2>2. ~Before(n, e)
    BY <1>1, <2>1, BeforeIsStrict
  <2> HIDE DEF n
  <2>3. <<s, DayNumber(n)>> \in Regular
    BY <1>1, <1>2, <2>1, <2>2
  <2> QED
    BY <2>3 DEF DueAfter, n, e
<1>4. ASSUME NEW day \in DayNumbers, NEW later \in DayNumbers, a < day, day <= later
      PROVE  /\ <<s, FirstDue(s, a, day)>> \in Regular
             /\ FirstDue(s, a, later) = IF FirstDue(s, a, day) < later
                                        THEN FirstDue(s, FirstDue(s, a, day), later) ELSE FirstDue(s, a, day)
  <2> DEFINE t == DayOf(day)
             u == DayOf(later)
             r == RolledTo(s, e, t)
  <2>1. /\ t \in Date /\ u \in Date /\ t.year \in Nat /\ DayNumber(t) = day /\ DayNumber(u) = later
        /\ day \in Nat /\ later \in Nat
    BY NumberIs
  <2> HIDE DEF t, u
  <2>2. Before(e, t) /\ ~Before(u, t)
    BY <1>1, <1>4, <2>1, DayNumberOrders
  <2>3. r \in Charges(s, e) /\ ~Before(r, t) /\ r \in Date
    BY <1>1, <2>1, <2>2, RolledIs DEF FirstOf
  <2>4. RolledTo(s, e, u) = RolledTo(s, r, u)
    BY <1>1, <2>1, <2>2, RollsCompose
  <2> HIDE DEF r
  <2>5. DayNumber(r) \in DayNumbers /\ DayNumber(r) \in Nat /\ <<s, DayNumber(r)>> \in Regular
    BY <1>2, <2>1, <2>3
  <2>6. DayOf(DayNumber(r)) = r
    BY <2>3, DayOfNumber
  <2>7. FirstDue(s, a, day) = DayNumber(r) /\ FirstDue(s, a, later) = DayNumber(RolledTo(s, r, u))
    BY <2>4 DEF FirstDue, r, t, u, e
  <2>8. FirstDue(s, DayNumber(r), later) = DayNumber(RolledTo(s, r, u))
    BY <2>6 DEF FirstDue, u
  <2>9. ~(DayNumber(r) < later) => RolledTo(s, r, u) = r
    BY <2>1, <2>3, DayNumberOrders, RolledIs
  <2> QED
    BY <2>5, <2>7, <2>8, <2>9
<1> QED
  BY <1>3, <1>4

-----------------------------------------------------------------------------
(* The dates of the web client: days back, and months that run over.       *)

MonthOf(m) == m.year \in Int /\ m.month \in 1..12 /\ m = [year |-> m.year, month |-> m.month]

LEMMA MonthEdges ==
  ASSUME NEW m, MonthOf(m)
  PROVE  /\ Day(m, 1) \in Date /\ Day(m, Lasts(m)) \in Date
         /\ Day(m, 1).day = 1 /\ Day(m, Lasts(m)).day = Lasts(m) /\ Lasts(m) \in 28..31
         /\ MonthNumber(m) \in Int
         /\ MonthNumber(Day(m, 1)) = MonthNumber(m) /\ MonthNumber(Day(m, Lasts(m))) = MonthNumber(m)
<1>1. Lasts(m) \in 28..31 /\ Lasts(m) = DaysInMonth(m.year, m.month)
  BY MonthLengths DEF Lasts
<1>2. 1 \in 1..DaysInMonth(m.year, m.month) /\ Lasts(m) \in 1..DaysInMonth(m.year, m.month)
  BY <1>1
<1>3. m.year \in Int /\ m.month \in 1..12
  BY DEF MonthOf
<1>4. Day(m, 1) \in Date /\ Day(m, Lasts(m)) \in Date
  BY <1>2, <1>3, DateMade DEF Day
<1>5. MonthNumber(m) \in Int
  BY <1>3 DEF MonthNumber
<1> QED
  BY <1>1, <1>4, <1>5 DEF Day, MonthNumber

LEMMA MonthIsMonth ==
  ASSUME NEW c \in Date
  PROVE  /\ MonthOf(Month(c)) /\ MonthOf(PreviousMonth(Month(c)))
         /\ MonthNumber(Month(c)) = MonthNumber(c)
         /\ MonthNumber(PreviousMonth(Month(c))) = MonthNumber(c) - 1
<1>1. c.year \in Int /\ c.month \in 1..12
  BY DateIs
<1> DEFINE m == Month(c)
           p == PreviousMonth(m)
<1>2. m = [year |-> c.year, month |-> c.month] /\ m.year = c.year /\ m.month = c.month
  BY DEF Month
<1> HIDE DEF m
<1>3. MonthOf(m) /\ MonthNumber(m) = MonthNumber(c)
  BY <1>1, <1>2 DEF MonthOf, MonthNumber
<1>4. CASE c.month > 1
  <2>1. p = [year |-> c.year, month |-> c.month - 1]
    BY <1>1, <1>2, <1>4 DEF PreviousMonth
  <2> HIDE DEF p
  <2>2. p.year = c.year /\ p.month = c.month - 1 /\ c.month - 1 \in 1..12
    BY <1>1, <1>4, <2>1
  <2>3. 12 * c.year + (c.month - 1) = 12 * c.year + c.month - 1
    BY <1>1
  <2>4. MonthOf(p)
    BY <1>1, <2>1, <2>2 DEF MonthOf
  <2>5. MonthNumber(p) = MonthNumber(c) - 1
    BY <1>1, <2>2, <2>3 DEF MonthNumber
  <2> QED
    BY <1>3, <2>4, <2>5 DEF p, m
<1>5. CASE ~(c.month > 1)
  <2>1. p = [year |-> c.year - 1, month |-> 12]
    BY <1>1, <1>2, <1>5 DEF PreviousMonth
  <2> HIDE DEF p
  <2>2. p.year = c.year - 1 /\ p.month = 12 /\ c.year - 1 \in Int /\ c.month = 1
    BY <1>1, <1>5, <2>1
  <2>3. 12 * (c.year - 1) + 12 = 12 * c.year + 1 - 1
    BY <1>1
  <2>4. MonthOf(p)
    BY <2>1, <2>2 DEF MonthOf
  <2>5. MonthNumber(p) = MonthNumber(c) - 1
    BY <1>1, <2>2, <2>3 DEF MonthNumber
  <2> QED
    BY <1>3, <2>4, <2>5 DEF p, m
<1> QED
  BY <1>4, <1>5

LEMMA MonthBeforeIs ==
  ASSUME NEW c \in Date
  PROVE  /\ MonthBefore(c) \in Date /\ MonthNumber(MonthBefore(c)) = MonthNumber(c) - 1
         /\ DaysLeft(MonthBefore(c)) = 0
<1> DEFINE m == PreviousMonth(Month(c))
<1>1. MonthOf(m) /\ MonthNumber(m) = MonthNumber(c) - 1
  BY MonthIsMonth
<1> HIDE DEF m
<1>2. /\ Day(m, Lasts(m)) \in Date /\ Day(m, Lasts(m)).day = Lasts(m) /\ Lasts(m) \in 28..31
      /\ MonthNumber(Day(m, Lasts(m))) = MonthNumber(m)
  BY <1>1, MonthEdges
<1>3. MonthBefore(c) = Day(m, Lasts(m))
  BY DEF MonthBefore, m
<1>4. DaysLeft(Day(m, Lasts(m))) = Lasts(m) - Lasts(m)
  BY <1>2 DEF DaysLeft, Lasts, Day
<1> QED
  BY <1>1, <1>2, <1>3, <1>4

\* Going back ends and returns a date: the equation of its recursion holds.
LEMMA BackDaysIs ==
  ASSUME NEW c \in Date, NEW n \in Nat
  PROVE  /\ BackDays(c, n) \in Date
         /\ BackDays(c, n) = IF n < c.day THEN [c EXCEPT !.day = @ - n]
                             ELSE BackDays(MonthBefore(c), n - c.day)
<1> DEFINE S == Date \X Nat
           D == {p \in S : ~(p[2] < p[1].day)}
           step == [p \in S |-> IF p \in D THEN <<MonthBefore(p[1]), p[2] - p[1].day>> ELSE p]
           out == [p \in S |-> IF p \in D THEN p[1] ELSE [p[1] EXCEPT !.day = @ - p[2]]]
           m == [p \in S |-> p[2]]
<1>1. ASSUME NEW p \in D
      PROVE  <<MonthBefore(p[1]), p[2] - p[1].day>> \in S /\ p[2] - p[1].day < p[2]
  <2>1. p[1] \in Date /\ p[2] \in Nat /\ ~(p[2] < p[1].day)
    OBVIOUS
  <2>2. MonthBefore(p[1]) \in Date /\ p[1].day \in 1..31
    BY <2>1, MonthBeforeIs, DateIs
  <2>3. p[2] - p[1].day \in Nat /\ p[2] - p[1].day < p[2]
    BY ONLY <2>1, <2>2
  <2> QED
    BY <2>2, <2>3
<1>2. step \in [S -> S]
  BY <1>1
<1>3. out \in [S -> Date]
  <2>1. ASSUME NEW p \in S, p \notin D PROVE [p[1] EXCEPT !.day = @ - p[2]] \in Date
    <3>1. p[1] \in Date /\ p[2] \in Nat /\ p[2] < p[1].day
      BY <2>1
    <3> DEFINE e == p[1]
    <3>2. /\ e.year \in Int /\ e.month \in 1..12 /\ e.day \in 1..31
          /\ e.day <= DaysInMonth(e.year, e.month)
          /\ e = [year |-> e.year, month |-> e.month, day |-> e.day]
      BY <3>1, DateIs
    <3>3. e.day - p[2] \in 1..DaysInMonth(e.year, e.month)
      BY <3>1, <3>2, MonthLengths
    <3>4. [e EXCEPT !.day = @ - p[2]] = [year |-> e.year, month |-> e.month, day |-> e.day - p[2]]
      BY <3>2
    <3> QED
      BY <3>2, <3>3, <3>4, DateMade
  <2>2. \A p \in D : p[1] \in Date
    OBVIOUS
  <2> HIDE DEF D
  <2> QED
    BY <2>1, <2>2
<1>4. m \in [S -> Nat] /\ D \in SUBSET S
  OBVIOUS
<1>5. \A p \in D : m[step[p]] < m[p]
  BY <1>1
<1> DEFINE E(f) == [p \in S |-> IF p[2] < p[1].day THEN [p[1] EXCEPT !.day = @ - p[2]]
                                 ELSE f[<<MonthBefore(p[1]), p[2] - p[1].day>>]]
<1>6. ASSUME NEW f PROVE Turn(S, D, step, out, f) = E(f)
  <2>1. ASSUME NEW p \in S
        PROVE  (IF p \in D THEN f[step[p]] ELSE out[p])
                 = IF p[2] < p[1].day THEN [p[1] EXCEPT !.day = @ - p[2]]
                   ELSE f[<<MonthBefore(p[1]), p[2] - p[1].day>>]
    <3>1. p \in D <=> ~(p[2] < p[1].day)
      BY <2>1
    <3> QED
      BY <2>1, <3>1
  <2> HIDE DEF S, D, step, out
  <2> QED
    BY <2>1 DEF Turn
<1> HIDE DEF S, D, step, out, m
<1>7. \E f : f = E(f)
  <2>1. HasLoop(S, D, step, out)
    BY ONLY <1>2, <1>3, <1>4, <1>5, LoopExists, Zenon
  <2> QED
    BY <1>6, <2>1 DEF HasLoop
<1>8. DaysBefore = CHOOSE f : f = E(f)
  BY DEF DaysBefore, S
<1>9. DaysBefore = E(DaysBefore)
  BY <1>7, <1>8
<1>10. DaysBefore \in [S -> Date]
  <2>1. DaysBefore = Turn(S, D, step, out, DaysBefore)
    BY <1>6, <1>9
  <2> QED
    BY ONLY <1>2, <1>3, <1>4, <1>5, <2>1, LoopType, Zenon
<1>11. \A a \in Date, k \in Nat :
         DaysBefore[<<a, k>>] = IF k < a.day THEN [a EXCEPT !.day = @ - k]
                                ELSE DaysBefore[<<MonthBefore(a), k - a.day>>]
  <2> TAKE a \in Date, k \in Nat
  <2>1. <<a, k>> \in S /\ <<a, k>>[1] = a /\ <<a, k>>[2] = k
    BY DEF S
  <2>2. \A p \in S : DaysBefore[p] = IF p[2] < p[1].day THEN [p[1] EXCEPT !.day = @ - p[2]]
                                 ELSE DaysBefore[<<MonthBefore(p[1]), p[2] - p[1].day>>]
    BY <1>9
  <2> QED
    BY <2>1, <2>2
<1> QED
  BY <1>10, <1>11 DEF BackDays, S

\* Days back and the same number of days on lead to the date again.
LEMMA BackAndOn ==
  ASSUME NEW c \in Date, NEW n \in Nat
  PROVE  AddDays(BackDays(c, n), n) = c
<1> DEFINE Wrong == {k \in Nat : \E x \in Date : AddDays(BackDays(x, k), k) # x}
<1> SUFFICES ASSUME Wrong # {} PROVE FALSE
  OBVIOUS
<1>1. PICK k \in Wrong : \A j \in Wrong : k <= j
  BY LeastIs
<1>2. PICK x \in Date : AddDays(BackDays(x, k), k) # x
  BY <1>1
<1>3. /\ k \in Nat /\ x.year \in Int /\ x.month \in 1..12 /\ x.day \in 1..31
      /\ x = [year |-> x.year, month |-> x.month, day |-> x.day]
      /\ DaysLeft(x) \in Nat /\ x.day + DaysLeft(x) = DaysInMonth(x.year, x.month)
      /\ DaysInMonth(x.year, x.month) \in 28..31
  BY DateIs, DaysLeftIs, MonthLengths
<1>4. CASE k < x.day
  <2> DEFINE d == BackDays(x, k)
  <2>1. d = [year |-> x.year, month |-> x.month, day |-> x.day - k] /\ d \in Date
    <3>1. d = [x EXCEPT !.day = @ - k] /\ d \in Date
      BY <1>3, <1>4, BackDaysIs
    <3> QED
      BY <1>3, <3>1
  <2> HIDE DEF d
  <2>2. d.year = x.year /\ d.month = x.month /\ d.day = x.day - k
    BY <2>1
  <2>3. k <= DaysLeft(d)
    <3>1. DaysLeft(d) = DaysInMonth(x.year, x.month) - (x.day - k)
      BY <2>2 DEF DaysLeft
    <3> DEFINE l == DaysInMonth(x.year, x.month)
    <3>2. l \in 28..31 /\ x.day + DaysLeft(x) = l /\ DaysLeft(d) = l - (x.day - k)
      BY <1>3, <3>1
    <3> HIDE DEF l
    <3> QED
      BY <1>3, <3>2
  <2>4. AddDays(d, k) = [year |-> d.year, month |-> d.month, day |-> d.day + k]
    BY <1>3, <2>1, <2>3, LaterInMonth
  <2>5. (x.day - k) + k = x.day
    BY <1>3
  <2> QED
    BY <1>2, <1>3, <2>2, <2>4, <2>5 DEF d
<1>5. CASE ~(k < x.day)
  <2> DEFINE y == MonthBefore(x)
             j == k - x.day
             b == BackDays(y, j)
  <2>1. /\ y \in Date /\ MonthNumber(y) = MonthNumber(x) - 1 /\ DaysLeft(y) = 0
    BY MonthBeforeIs
  <2>2. j \in Nat /\ j < k /\ j + x.day = k /\ x.day \in Nat
    BY <1>3, <1>5
  <2>3. BackDays(x, k) = b
    BY <1>3, <1>5, BackDaysIs
  <2> HIDE DEF y, j
  <2>4. b \in Date /\ AddDays(b, j) = y
    <3>1. ~(k <= j)
      BY <1>3, <2>2
    <3>2. j \notin Wrong
      BY <1>1, <3>1
    <3> QED
      BY <2>1, <2>2, <3>2, BackDaysIs
  <2> HIDE DEF b
  <2>5. AddDays(b, k) = AddDays(y, x.day)
    BY <2>2, <2>4, AddDaysAdds
  <2> DEFINE f == NextMonth(y)
  <2>6. f \in Date /\ f.day = 1 /\ MonthNumber(f) = MonthNumber(y) + 1
    BY <2>1, NextMonthIs
  <2>7. AddDays(y, x.day) = AddDays(f, x.day - 1)
    <3>1. ~(x.day <= DaysLeft(y)) /\ x.day - DaysLeft(y) - 1 = x.day - 1
      BY <1>3, <2>1
    <3> QED
      BY <2>1, <2>2, <3>1, AddDaysIs
  <2> HIDE DEF f
  <2>8. f.year = x.year /\ f.month = x.month
    <3>1. MonthNumber(f) = MonthNumber(x)
      <4>1. MonthNumber(x) \in Int
        BY DayNumberOrders
      <4> QED
        BY <2>1, <2>6, <4>1
    <3>2. f.year \in Int /\ f.month \in 1..12 /\ x.year \in Int /\ x.month \in 1..12
      BY <2>6, DateIs
    <3>3. 12 * f.year + f.month = 12 * x.year + x.month
      BY <3>1 DEF MonthNumber
    <3> QED
      BY ONLY <3>2, <3>3, MonthOrder
  <2>9. x.day - 1 \in Nat /\ x.day - 1 <= DaysLeft(f)
    <3> DEFINE l == DaysInMonth(x.year, x.month)
    <3>1. DaysLeft(f) = l - 1
      BY <2>6, <2>8 DEF DaysLeft
    <3>2. l \in 28..31 /\ x.day + DaysLeft(x) = l
      BY <1>3
    <3> HIDE DEF l
    <3> QED
      BY <1>3, <3>1, <3>2
  <2>10. AddDays(f, x.day - 1) = [year |-> f.year, month |-> f.month, day |-> f.day + (x.day - 1)]
    BY <2>6, <2>9, LaterInMonth
  <2>11. f.day + (x.day - 1) = x.day
    BY <1>3, <2>6
  <2> QED
    BY <1>2, <1>3, <2>3, <2>5, <2>7, <2>8, <2>10, <2>11
<1> QED
  BY <1>4, <1>5

LEMMA SetMonthIs ==
  ASSUME NEW c \in Date, NEW n \in Int
  PROVE  \E f \in Date : /\ f.day = 1 /\ MonthNumber(f) = MonthNumber(c) + n
                         /\ c.day - 1 \in Nat /\ SetMonth(c, n) = AddDays(f, c.day - 1)
<1> DEFINE i == c.month - 1 + n
           y == c.year + (i \div 12)
           m == (i % 12) + 1
           f == [year |-> y, month |-> m, day |-> 1]
           r == AddMonthsPreservePreferredDay(c, n, 1)
<1>1. c.year \in Int /\ c.month \in Int /\ c.day \in 1..31 /\ c.day - 1 \in Nat /\ i \in Int
  BY DateIs
<1>2. m \in 1..12 /\ y \in Int
  BY <1>1, MonthIndex
<1>3. SetMonth(c, n) = AddDays(f, c.day - 1)
  BY DEF SetMonth
<1>4. r = BuildDate(y, m, 1)
  BY DEF AddMonthsPreservePreferredDay
<1>5. r \in Date /\ MonthNumber(r) = MonthNumber(c) + n
  <2>1. 1 \in 1..31
    OBVIOUS
  <2> QED
    BY ONLY c \in Date, n \in Int, <2>1, AddMonthsIs
<1> HIDE DEF y, m, r
<1>6. r = f
  <2>1. DaysInMonth(y, m) \in 28..31
    BY MonthLengths
  <2>2. ClampDay(y, m, 1) = 1
    BY <2>1 DEF ClampDay
  <2> QED
    BY <1>4, <2>2 DEF BuildDate
<1>7. f \in Date /\ f.day = 1 /\ MonthNumber(f) = MonthNumber(c) + n
  BY <1>5, <1>6
<1> QED
  BY <1>1, <1>3, <1>7

\* On a day that every month has, months are added as the server adds them.
LEMMA SetMonthCommon ==
  ASSUME NEW c \in Date, NEW n \in Int, c.day <= 28
  PROVE  /\ SetMonth(c, n) \in Date
         /\ MonthNumber(SetMonth(c, n)) = MonthNumber(c) + n
         /\ BuiltOn(c.day, SetMonth(c, n))
<1>1. PICK f \in Date : /\ f.day = 1 /\ MonthNumber(f) = MonthNumber(c) + n
                        /\ c.day - 1 \in Nat /\ SetMonth(c, n) = AddDays(f, c.day - 1)
  BY SetMonthIs
<1>2. c.day \in 1..31 /\ DaysLeft(f) \in Nat /\ f.day + DaysLeft(f) \in 28..31
  BY DateIs, DaysLeftIs, MonthLengths
<1>3. c.day - 1 <= DaysLeft(f)
  BY <1>1, <1>2
<1> DEFINE r == AddDays(f, c.day - 1)
<1>4. r \in Date /\ r.year = f.year /\ r.month = f.month /\ r.day = f.day + (c.day - 1)
  BY <1>1, <1>3, LaterInMonth
<1> HIDE DEF r
<1>5. r.day = c.day
  BY <1>1, <1>2, <1>4
<1>6. MonthNumber(r) = MonthNumber(f)
  BY <1>4 DEF MonthNumber
<1>7. BuiltOn(c.day, r)
  BY <1>4, <1>5, BuiltAgain DEF BuiltOn
<1> QED
  BY <1>1, <1>4, <1>6, <1>7 DEF r

LEMMA SetMonthOn ==
  ASSUME NEW c \in Date, NEW n \in Nat, n > 0
  PROVE  SetMonth(c, n) \in Date /\ DayNumber(SetMonth(c, n)) > DayNumber(c)
<1>1. PICK f \in Date : /\ f.day = 1 /\ MonthNumber(f) = MonthNumber(c) + n
                        /\ c.day - 1 \in Nat /\ SetMonth(c, n) = AddDays(f, c.day - 1)
  BY SetMonthIs
<1> DEFINE r == AddDays(f, c.day - 1)
<1>2. r \in Date /\ DayNumber(r) >= DayNumber(f) + (c.day - 1)
  BY <1>1, AddDaysIs, AddDaysGrows
<1> HIDE DEF r
<1>3. DayNumber(r) \in Int /\ MonthNumber(c) \in Int /\ c.day \in 1..31
  BY <1>2, DayNumberOrders, DateIs
<1>4. DayNumber(f) = 31 * (MonthNumber(c) + n) + 1 /\ DayNumber(c) = 31 * MonthNumber(c) + c.day
  BY <1>1 DEF DayNumber
<1>5. DayNumber(r) > 31 * MonthNumber(c) + c.day
  BY ONLY <1>2, <1>3, <1>4, n \in Nat, n > 0
<1> QED
  BY <1>1, <1>2, <1>4, <1>5 DEF r

LEMMA SetMonthBack ==
  ASSUME NEW c \in Date, NEW n \in Int, n < 0
  PROVE  SetMonth(c, n) \in Date /\ DayNumber(SetMonth(c, n)) < DayNumber(c)
<1>1. PICK f \in Date : /\ f.day = 1 /\ MonthNumber(f) = MonthNumber(c) + n
                        /\ c.day - 1 \in Nat /\ SetMonth(c, n) = AddDays(f, c.day - 1)
  BY SetMonthIs
<1> DEFINE d == c.day - 1
           l == DaysLeft(f)
           r == AddDays(f, d)
<1>2. c.day \in 1..31 /\ l \in 27..30 /\ d \in Nat /\ d = c.day - 1 /\ MonthNumber(c) \in Int
  <2>1. l \in Nat /\ f.day + l \in 28..31
    BY DaysLeftIs, MonthLengths
  <2> HIDE DEF l
  <2>2. l \in 27..30
    BY <1>1, <2>1
  <2> QED
    BY <1>1, <2>2, DateIs, DayNumberOrders
<1> HIDE DEF l, d
<1>3. CASE d <= l
  <2>1. r \in Date /\ r.year = f.year /\ r.month = f.month
    BY <1>2, <1>3, LaterInMonth DEF l
  <2> HIDE DEF r
  <2>2. MonthNumber(r) = MonthNumber(f)
    BY <2>1 DEF MonthNumber
  <2>3. MonthNumber(r) < MonthNumber(c)
    BY <1>1, <1>2, <2>2
  <2> QED
    BY <1>1, <2>1, <2>3, DayNumberOrders DEF r, d
<1>4. CASE ~(d <= l)
  <2> DEFINE g == NextMonth(f)
             k == d - l - 1
  <2>1. r = AddDays(g, k)
    BY <1>2, <1>4, AddDaysIs DEF l
  <2>2. g \in Date /\ g.day = 1 /\ MonthNumber(g) = MonthNumber(f) + 1
    BY NextMonthIs
  <2>3. k \in Nat /\ k <= 2 /\ 1 + k < c.day
    <3>1. PICK x \in 1..31, y \in 27..30 : x = c.day /\ y = l /\ d = x - 1
      BY ONLY <1>2
    <3>2. ~(x - 1 <= y)
      BY ONLY <1>4, <3>1
    <3>3. x - 1 - y - 1 \in Nat /\ x - 1 - y - 1 <= 2 /\ 1 + (x - 1 - y - 1) < x
      BY ONLY x \in 1..31, y \in 27..30, <3>2
    <3>4. k = x - 1 - y - 1
      BY <3>1
    <3> QED
      BY ONLY <3>1, <3>3, <3>4
  <2> HIDE DEF g, k, r
  <2>4. DaysLeft(g) \in Nat /\ g.day + DaysLeft(g) \in 28..31
    BY <2>2, DaysLeftIs, MonthLengths
  <2>5. k <= DaysLeft(g)
    BY <2>2, <2>3, <2>4
  <2>6. r \in Date /\ r.year = g.year /\ r.month = g.month /\ r.day = g.day + k
    BY <2>1, <2>2, <2>3, <2>5, LaterInMonth
  <2>7. MonthNumber(r) = MonthNumber(f) + 1
    BY <2>2, <2>6 DEF MonthNumber
  <2>8. r.day < c.day /\ r.day \in Int
    BY <2>2, <2>3, <2>6
  <2>9. 31 * MonthNumber(r) + r.day < 31 * MonthNumber(c) + c.day
    <3> DEFINE M == MonthNumber(c)
    <3>1. MonthNumber(r) = M + n + 1 /\ M \in Int
      BY <1>1, <1>2, <2>7
    <3> HIDE DEF M
    <3>2. 31 * (M + n + 1) + r.day < 31 * M + c.day
      BY ONLY <1>2, <2>8, <3>1, n \in Int, n < 0
    <3> QED
      BY <3>1, <3>2 DEF M
  <2> QED
    BY <1>1, <2>6, <2>9 DEF r, d, DayNumber
<1> QED
  BY <1>3, <1>4

LEMMA AddIntervalGrows ==
  ASSUME NEW s, Interval(s), NEW c \in Date
  PROVE  AddInterval(s, c) \in Date /\ DayNumber(AddInterval(s, c)) > DayNumber(c)
<1>1. /\ s.type = "day" \/ s.type = "week" \/ s.type = "month" \/ s.type = "year"
      /\ s.count \in Nat /\ s.count > 0
  BY ScheduleIs DEF Interval
<1>2. 7 * s.count \in Nat /\ 7 * s.count > 0 /\ 12 * s.count \in Nat /\ 12 * s.count > 0
  BY <1>1
<1>3. ASSUME NEW n \in Nat, n > 0
      PROVE  AddDays(c, n) \in Date /\ DayNumber(AddDays(c, n)) > DayNumber(c)
  <2>1. AddDays(c, n) \in Date /\ DayNumber(AddDays(c, n)) >= DayNumber(c) + n
    BY AddDaysIs, AddDaysGrows
  <2>2. DayNumber(AddDays(c, n)) \in Int /\ DayNumber(c) \in Int
    BY <2>1, DayNumberOrders
  <2> QED
    BY <1>3, <2>1, <2>2
<1>4. CASE s.type = "day"
  BY <1>1, <1>3, <1>4 DEF AddInterval
<1>5. CASE s.type = "week"
  <2>1. AddInterval(s, c) = AddDays(c, 7 * s.count)
    BY <1>5 DEF AddInterval
  <2> QED
    BY <1>2, <1>3, <2>1
<1>6. CASE s.type = "month"
  BY <1>1, <1>6, SetMonthOn DEF AddInterval
<1>7. CASE s.type = "year"
  <2>1. AddInterval(s, c) = SetMonth(c, 12 * s.count)
    BY <1>7 DEF AddInterval
  <2> QED
    BY <1>2, <2>1, SetMonthOn
<1> QED
  BY <1>1, <1>4, <1>5, <1>6, <1>7

LEMMA BackDaysFall ==
  ASSUME NEW c \in Date, NEW n \in Nat, n > 0
  PROVE  BackDays(c, n) \in Date /\ DayNumber(BackDays(c, n)) < DayNumber(c)
<1> DEFINE b == BackDays(c, n)
<1>1. b \in Date /\ AddDays(b, n) = c
  BY BackDaysIs, BackAndOn
<1> HIDE DEF b
<1>2. DayNumber(AddDays(b, n)) >= DayNumber(b) + n
  BY <1>1, AddDaysGrows
<1>3. DayNumber(b) \in Int /\ DayNumber(c) \in Int
  BY <1>1, DayNumberOrders
<1>4. DayNumber(b) < DayNumber(c)
  BY <1>1, <1>2, <1>3
<1> QED
  BY <1>1, <1>4 DEF b

LEMMA RewindFalls ==
  ASSUME NEW s, Interval(s), NEW c \in Date
  PROVE  Rewind(s, c) \in Date /\ DayNumber(Rewind(s, c)) < DayNumber(c)
<1>1. /\ s.type = "day" \/ s.type = "week" \/ s.type = "month" \/ s.type = "year"
      /\ s.count \in Nat /\ s.count > 0
  BY ScheduleIs DEF Interval
<1>2. /\ 7 * s.count \in Nat /\ 7 * s.count > 0
      /\ -s.count \in Int /\ -s.count < 0 /\ -12 * s.count \in Int /\ -12 * s.count < 0
  BY <1>1
<1>3. CASE s.type = "day"
  BY <1>1, <1>3, BackDaysFall DEF Rewind
<1>4. CASE s.type = "week"
  <2>1. Rewind(s, c) = BackDays(c, 7 * s.count)
    BY <1>4 DEF Rewind
  <2> QED
    BY <1>2, <2>1, BackDaysFall
<1>5. CASE s.type = "month"
  <2>1. Rewind(s, c) = SetMonth(c, -s.count)
    BY <1>5 DEF Rewind
  <2> QED
    BY <1>2, <2>1, SetMonthBack
<1>6. CASE s.type = "year"
  <2>1. Rewind(s, c) = SetMonth(c, -12 * s.count)
    BY <1>6 DEF Rewind
  <2> QED
    BY <1>2, <2>1, SetMonthBack
<1> QED
  BY <1>1, <1>3, <1>4, <1>5, <1>6


(* The calendar page: its loop gathers the days of a month.                *)

\* The days gathered by a loop over the states of S that runs while in D.
Gather(S, D, step, add, f) == [c \in S |-> IF c \in D THEN add[c] \cup f[step[c]] ELSE {}]

HasGather(S, D, step, add) == \E f : f = Gather(S, D, step, add, f)

\* The states that every set closed under the loop has: those that it comes by.
Visited(S, D, step, c) ==
  {d \in D : \A P \in SUBSET S : c \in P /\ (\A x \in P \cap D : step[x] \in P) => d \in P}

LEMMA VisitedIs ==
  ASSUME NEW S, NEW D \in SUBSET S, NEW step \in [S -> S], NEW c \in S
  PROVE  /\ c \in D => Visited(S, D, step, c) = {c} \cup Visited(S, D, step, step[c])
         /\ c \notin D => Visited(S, D, step, c) = {}
<1>1. ASSUME c \in D PROVE Visited(S, D, step, c) = {c} \cup Visited(S, D, step, step[c])
  <2>1. c \in Visited(S, D, step, c)
    BY <1>1 DEF Visited
  <2>2. ASSUME NEW d \in Visited(S, D, step, step[c]) PROVE d \in Visited(S, D, step, c)
    <3>1. ASSUME NEW P \in SUBSET S, c \in P, \A x \in P \cap D : step[x] \in P PROVE d \in P
      <4>1. step[c] \in P
        BY <1>1, <3>1
      <4> QED
        BY <2>2, <3>1, <4>1 DEF Visited
    <3>2. d \in D
      BY <2>2 DEF Visited
    <3> QED
      BY <3>1, <3>2 DEF Visited
  <2>3. ASSUME NEW d \in Visited(S, D, step, c), d # c PROVE d \in Visited(S, D, step, step[c])
    <3>1. ASSUME NEW P \in SUBSET S, step[c] \in P, \A x \in P \cap D : step[x] \in P PROVE d \in P
      <4>1. P \cup {c} \in SUBSET S /\ \A x \in (P \cup {c}) \cap D : step[x] \in P \cup {c}
        BY <3>1
      <4>2. d \in P \cup {c}
        BY <2>3, <4>1 DEF Visited
      <4> QED
        BY <2>3, <4>2
    <3>2. d \in D
      BY <2>3 DEF Visited
    <3> QED
      BY <3>1, <3>2 DEF Visited
  <2> QED
    BY <2>1, <2>2, <2>3
<1>2. ASSUME c \notin D, NEW d \in Visited(S, D, step, c) PROVE FALSE
  <2>1. {c} \in SUBSET S /\ \A x \in {c} \cap D : step[x] \in {c}
    BY <1>2
  <2>2. d \in {c} /\ d \in D
    BY <1>2, <2>1 DEF Visited
  <2> QED
    BY <1>2, <2>2
<1> QED
  BY <1>1, <1>2

LEMMA GatherExists ==
  ASSUME NEW S, NEW D \in SUBSET S, NEW step \in [S -> S], NEW add
  PROVE  HasGather(S, D, step, add)
<1> DEFINE V(c) == Visited(S, D, step, c)
           f == [c \in S |-> UNION {add[d] : d \in V(c)}]
<1>1. ASSUME NEW c \in S PROVE f[c] = IF c \in D THEN add[c] \cup f[step[c]] ELSE {}
  <2>1. step[c] \in S
    OBVIOUS
  <2>2. c \in D => V(c) = {c} \cup V(step[c])
    BY VisitedIs
  <2>3. c \notin D => V(c) = {}
    BY VisitedIs
  <2> HIDE DEF V
  <2>4. f[c] = UNION {add[d] : d \in V(c)} /\ f[step[c]] = UNION {add[d] : d \in V(step[c])}
    BY <2>1
  <2> HIDE DEF f
  <2>5. CASE c \in D
    <3>1. UNION {add[d] : d \in {c} \cup V(step[c])} = add[c] \cup UNION {add[d] : d \in V(step[c])}
      OBVIOUS
    <3> QED
      BY <2>2, <2>4, <2>5, <3>1
  <2>6. CASE c \notin D
    <3>1. UNION {add[d] : d \in {}} = {}
      OBVIOUS
    <3> QED
      BY <2>3, <2>4, <2>6, <3>1
  <2> QED
    BY <2>5, <2>6
<1>2. f = Gather(S, D, step, add, f)
  <2> HIDE DEF V
  <2>1. f = [c \in S |-> f[c]]
    OBVIOUS
  <2> HIDE DEF f
  <2> QED
    BY <1>1, <2>1 DEF Gather
<1> HIDE DEF f
<1> QED
  BY <1>2 DEF HasGather

\* The two loops of getBillingDatesInMonth.
BackOf(s, last) ==
  CHOOSE back : back = [c \in Date |-> IF Before(last, c) THEN back[Rewind(s, c)] ELSE c]

DaysOf(s, first, last) ==
  CHOOSE days : days = [c \in Date |->
    IF Before(last, c) THEN {}
    ELSE (IF Before(c, first) THEN {} ELSE {c.day}) \cup days[AddInterval(s, c)]]

\* Both loops end, and one that starts in the month or before it is not taken back.
LEMMA BackOfIs ==
  ASSUME NEW s, Interval(s), NEW last \in Date, NEW c \in Date, ~Before(last, c)
  PROVE  BackOf(s, last)[c] = c
<1> DEFINE D == {x \in Date : Before(last, x)}
           step == [x \in Date |-> Rewind(s, x)]
           out == [x \in Date |-> x]
           m == [x \in Date |-> IF x \in D THEN DayNumber(x) - DayNumber(last) ELSE 0]
           E(f) == [x \in Date |-> IF Before(last, x) THEN f[Rewind(s, x)] ELSE x]
<1>1. step \in [Date -> Date] /\ out \in [Date -> Date] /\ D \in SUBSET Date
  BY RewindFalls
<1>2. ASSUME NEW x \in Date
      PROVE  m[x] \in Nat /\ (x \in D => m[x] > 0 /\ m[x] = DayNumber(x) - DayNumber(last))
  <2>1. DayNumber(x) \in Int /\ DayNumber(last) \in Int /\ (x \in D => DayNumber(last) < DayNumber(x))
    BY DayNumberOrders
  <2>2. CASE x \in D
    <3>1. m[x] = DayNumber(x) - DayNumber(last)
      BY <2>2
    <3> HIDE DEF m
    <3> QED
      BY <2>1, <2>2, <3>1
  <2>3. CASE x \notin D
    <3>1. m[x] = 0
      BY <2>3
    <3> HIDE DEF m
    <3> QED
      BY <2>3, <3>1
  <2> QED
    BY <2>2, <2>3
<1>3. ASSUME NEW x \in D PROVE m[step[x]] < m[x]
  <2> DEFINE y == Rewind(s, x)
  <2>1. x \in Date /\ y \in Date /\ DayNumber(y) < DayNumber(x) /\ step[x] = y
    BY RewindFalls
  <2>2. m[x] > 0 /\ m[x] = DayNumber(x) - DayNumber(last)
    BY <1>2
  <2>3. /\ DayNumber(x) \in Int /\ DayNumber(y) \in Int /\ DayNumber(last) \in Int
        /\ m[y] = 0 \/ m[y] = DayNumber(y) - DayNumber(last)
    BY <2>1, DayNumberOrders
  <2> HIDE DEF m, D, step, y
  <2> QED
    BY <2>1, <2>2, <2>3
<1>4. m \in [Date -> Nat]
  <2> HIDE DEF D
  <2> QED
    BY <1>2
<1>5. ASSUME NEW f PROVE Turn(Date, D, step, out, f) = E(f)
  <2>1. ASSUME NEW x \in Date
        PROVE  (IF x \in D THEN f[step[x]] ELSE out[x]) = IF Before(last, x) THEN f[Rewind(s, x)] ELSE x
    BY <2>1
  <2> HIDE DEF D, step, out
  <2> QED
    BY <2>1 DEF Turn
<1> HIDE DEF D, step, out, m
<1>6. \E f : f = E(f)
  <2>1. \A x \in D : m[step[x]] < m[x]
    BY <1>3
  <2>2. HasLoop(Date, D, step, out)
    BY ONLY <1>1, <1>4, <2>1, LoopExists, Zenon
  <2> QED
    BY <1>5, <2>2 DEF HasLoop
<1>7. BackOf(s, last) = CHOOSE f : f = E(f)
  BY DEF BackOf
<1>8. BackOf(s, last) = E(BackOf(s, last))
  BY <1>6, <1>7
<1> QED
  BY <1>8

LEMMA DaysOfIs ==
  ASSUME NEW s, Interval(s), NEW first \in Date, NEW last \in Date, NEW c \in Date
  PROVE  /\ Before(last, c) => DaysOf(s, first, last)[c] = {}
         /\ ~Before(last, c) => DaysOf(s, first, last)[c]
              = (IF Before(c, first) THEN {} ELSE {c.day}) \cup DaysOf(s, first, last)[AddInterval(s, c)]
<1> DEFINE D == {x \in Date : ~Before(last, x)}
           step == [x \in Date |-> AddInterval(s, x)]
           add == [x \in Date |-> IF Before(x, first) THEN {} ELSE {x.day}]
           E(f) == [x \in Date |->
                     IF Before(last, x) THEN {}
                     ELSE (IF Before(x, first) THEN {} ELSE {x.day}) \cup f[AddInterval(s, x)]]
<1>1. step \in [Date -> Date] /\ D \in SUBSET Date
  BY AddIntervalGrows
<1>2. ASSUME NEW f PROVE Gather(Date, D, step, add, f) = E(f)
  <2>1. ASSUME NEW x \in Date
        PROVE  (IF x \in D THEN add[x] \cup f[step[x]] ELSE {})
                 = IF Before(last, x) THEN {}
                   ELSE (IF Before(x, first) THEN {} ELSE {x.day}) \cup f[AddInterval(s, x)]
    <3>1. /\ x \in D <=> ~Before(last, x)
          /\ add[x] = IF Before(x, first) THEN {} ELSE {x.day}
          /\ step[x] = AddInterval(s, x)
      OBVIOUS
    <3> HIDE DEF D, add, step
    <3> QED
      BY <3>1
  <2> HIDE DEF D, step, add
  <2> QED
    BY <2>1 DEF Gather
<1> HIDE DEF D, step, add
<1>3. HasGather(Date, D, step, add)
  BY ONLY <1>1, GatherExists, Zenon
<1>4. \E f : f = E(f)
  BY <1>2, <1>3 DEF HasGather
<1>5. DaysOf(s, first, last) = CHOOSE f : f = E(f)
  BY DEF DaysOf
<1>6. DaysOf(s, first, last) = E(DaysOf(s, first, last))
  BY <1>4, <1>5
<1> QED
  BY <1>6

LEMMA WidthIs ==
  ASSUME NEW s, ByMonths(s)
  PROVE  /\ Width(s) \in Nat /\ Width(s) > 0
         /\ s.type = "month" => Width(s) = s.count
         /\ s.type = "year" => Width(s) = 12 * s.count
<1>1. s.count \in Nat /\ s.count > 0
  BY ScheduleIs DEF ByMonths, Interval
<1>2. s.type = "month" \/ s.type = "year"
  BY DEF ByMonths
<1> QED
  BY <1>1, <1>2 DEF Width

\* On a day that every month has, the client goes from date to date as the server does.
LEMMA AddIntervalFollows ==
  ASSUME NEW s, Interval(s), NEW e \in Date, Common(s, e), NEW k \in Nat
  PROVE  AddInterval(s, Occurrence(s, e, k)) = Occurrence(s, e, k + 1)
<1> DEFINE o == Occurrence(s, e, k)
           p == Occurrence(s, e, k + 1)
<1>1. /\ s.type = "day" \/ s.type = "week" \/ s.type = "month" \/ s.type = "year"
      /\ k + 1 \in Nat
  BY ScheduleIs DEF Interval
<1>2. o \in Date /\ p \in Date /\ StepOf(s, e, o) = p
  BY <1>1, OccurrenceIs
<1>3. CASE s.type = "day"
  <2>1. AddInterval(s, o) = AddDays(o, s.count) /\ StepOf(s, e, o) = AddDays(o, s.count)
    BY <1>3 DEF AddInterval, StepOf
  <2> QED
    BY <1>2, <2>1
<1>4. CASE s.type = "week"
  <2>1. AddInterval(s, o) = AddDays(o, 7 * s.count) /\ StepOf(s, e, o) = AddDays(o, 7 * s.count)
    BY <1>4 DEF AddInterval, StepOf
  <2> QED
    BY <1>2, <2>1
<1>5. CASE s.type = "month" \/ s.type = "year"
  <2> DEFINE w == Width(s)
             q == SetMonth(o, w)
  <2>1. ByMonths(s) /\ e.day <= 28
    BY <1>5 DEF ByMonths, Common
  <2>2. w \in Nat /\ w \in Int /\ (s.type = "month" => w = s.count) /\ (s.type = "year" => w = 12 * s.count)
    BY <2>1, WidthIs
  <2>3. AddInterval(s, o) = q
    BY <1>5, <2>2 DEF AddInterval
  <2>4. /\ MonthNumber(o) = MonthNumber(e) + k * w
        /\ MonthNumber(p) = MonthNumber(e) + (k + 1) * w /\ BuiltOn(e.day, p)
    BY <1>1, <2>1, OccurrenceMonth
  <2>5. o.day = e.day
    BY <1>5, CommonDayStays
  <2>6. k * w \in Nat /\ (k + 1) * w = k * w + w /\ MonthNumber(e) \in Int
    <3> HIDE DEF w
    <3> QED
      BY <2>2, DayNumberOrders
  <2> HIDE DEF o, p, w
  <2>7. q \in Date /\ MonthNumber(q) = MonthNumber(o) + w /\ BuiltOn(o.day, q)
    BY <1>2, <2>1, <2>2, <2>5, SetMonthCommon
  <2> HIDE DEF q
  <2>8. MonthNumber(q) = MonthNumber(p)
    BY <2>2, <2>4, <2>6, <2>7
  <2>9. q = p
    BY <1>2, <2>4, <2>5, <2>7, <2>8, SameBuilt
  <2> QED
    BY <2>3, <2>9 DEF o, p
<1> QED
  BY <1>1, <1>3, <1>4, <1>5

\* The dates of a schedule from the k-th on that lie in a span of days.
Within(s, e, first, last, k) ==
  {i \in Nat : i >= k /\ ~Before(Occurrence(s, e, i), first) /\ ~Before(last, Occurrence(s, e, i))}

DaysWithin(s, e, first, last, k) == {Occurrence(s, e, i).day : i \in Within(s, e, first, last, k)}

LEMMA WithinStep ==
  ASSUME NEW s, Interval(s), NEW e \in Date, NEW first \in Date, NEW last \in Date, NEW k \in Nat
  PROVE  /\ Before(last, Occurrence(s, e, k)) => DaysWithin(s, e, first, last, k) = {}
         /\ ~Before(last, Occurrence(s, e, k)) => DaysWithin(s, e, first, last, k)
              = (IF Before(Occurrence(s, e, k), first) THEN {} ELSE {Occurrence(s, e, k).day})
                \cup DaysWithin(s, e, first, last, k + 1)
<1> DEFINE O(i) == Occurrence(s, e, i)
           In(i) == Within(s, e, first, last, i)
<1>1. \A i \in Nat : O(i) \in Date
  BY OccurrenceIs
<1>2. \A i \in Nat : k < i => Before(O(k), O(i))
  BY OccurrencesAscend
<1>3. ASSUME Before(last, O(k)), NEW i \in In(k) PROVE FALSE
  <2>1. i \in Nat /\ i >= k /\ ~Before(last, O(i))
    BY <1>3 DEF Within
  <2>2. CASE i = k
    BY <1>3, <2>1, <2>2
  <2>3. CASE k < i
    <3>1. Before(O(k), O(i))
      BY <1>2, <2>1, <2>3
    <3> HIDE DEF O
    <3>2. ~Before(O(i), O(k))
      BY <1>1, <2>1, <3>1, BeforeIsStrict
    <3>3. Before(last, O(i))
      BY <1>1, <1>3, <2>1, <3>2, BeforeFollows
    <3> QED
      BY <2>1, <3>3
  <2> QED
    BY <2>1, <2>2, <2>3
<1>4. ASSUME ~Before(last, O(k))
      PROVE  In(k) = (IF Before(O(k), first) THEN {} ELSE {k}) \cup In(k + 1)
  <2>1. \A i \in Nat : i >= k <=> i = k \/ i >= k + 1
    OBVIOUS
  <2> QED
    BY <1>4, <2>1 DEF Within
<1>5. ASSUME Before(last, O(k)) PROVE DaysWithin(s, e, first, last, k) = {}
  BY <1>3, <1>5 DEF DaysWithin
<1>6. ASSUME ~Before(last, O(k))
      PROVE  DaysWithin(s, e, first, last, k)
               = (IF Before(O(k), first) THEN {} ELSE {O(k).day}) \cup DaysWithin(s, e, first, last, k + 1)
  <2>1. /\ DaysWithin(s, e, first, last, k) = {O(i).day : i \in In(k)}
        /\ DaysWithin(s, e, first, last, k + 1) = {O(i).day : i \in In(k + 1)}
    BY DEF DaysWithin
  <2>2. In(k) = (IF Before(O(k), first) THEN {} ELSE {k}) \cup In(k + 1)
    BY <1>4, <1>6
  <2> HIDE DEF In, O
  <2> QED
    BY <2>1, <2>2
<1> QED
  BY <1>5, <1>6

\* The loop of the calendar page gathers the days of the dates of the schedule.
LEMMA DaysGathered ==
  ASSUME NEW s, Interval(s), NEW e \in Date, Common(s, e), NEW first \in Date, NEW last \in Date
  PROVE  DaysOf(s, first, last)[e] = DaysWithin(s, e, first, last, 0)
<1> DEFINE O(i) == Occurrence(s, e, i)
           W(i) == DaysWithin(s, e, first, last, i)
           days == DaysOf(s, first, last)
           far(i) == IF Before(last, O(i)) THEN 0 ELSE 1 + DayNumber(last) - DayNumber(O(i))
           Wrong == {n \in Nat : \E i \in Nat : far(i) = n /\ days[O(i)] # W(i)}
<1>1. ASSUME NEW i \in Nat
      PROVE  /\ O(i) \in Date /\ i + 1 \in Nat
             /\ AddInterval(s, O(i)) = O(i + 1)
             /\ DayNumber(O(i)) \in Int /\ DayNumber(O(i + 1)) > DayNumber(O(i)) /\ DayNumber(O(i + 1)) \in Int
             /\ DayNumber(last) \in Int
             /\ Before(last, O(i)) <=> DayNumber(last) < DayNumber(O(i))
  <2>1. O(i) \in Date /\ i + 1 \in Nat /\ O(i + 1) \in Date
    BY OccurrenceIs
  <2>2. AddInterval(s, O(i)) = O(i + 1)
    BY AddIntervalFollows
  <2> HIDE DEF O
  <2> QED
    BY <2>1, <2>2, AddIntervalGrows, DayNumberOrders
<1>2. \A i \in Nat : /\ Before(last, O(i)) => days[O(i)] = {}
                     /\ ~Before(last, O(i)) => days[O(i)]
                          = (IF Before(O(i), first) THEN {} ELSE {O(i).day}) \cup days[AddInterval(s, O(i))]
  BY <1>1, DaysOfIs
<1>3. \A i \in Nat : /\ Before(last, O(i)) => W(i) = {}
                     /\ ~Before(last, O(i)) => W(i)
                          = (IF Before(O(i), first) THEN {} ELSE {O(i).day}) \cup W(i + 1)
  BY WithinStep
<1> HIDE DEF O, W, days
<1>4. ASSUME NEW i \in Nat
      PROVE  /\ far(i) \in Nat
             /\ ~Before(last, O(i)) => far(i + 1) < far(i)
  <2>1. /\ DayNumber(O(i)) \in Int /\ DayNumber(O(i + 1)) > DayNumber(O(i)) /\ DayNumber(O(i + 1)) \in Int
        /\ DayNumber(last) \in Int
        /\ Before(last, O(i)) <=> DayNumber(last) < DayNumber(O(i))
    BY <1>1
  <2> QED
    BY <2>1
<1> HIDE DEF far
<1>5. Wrong = {}
  <2> SUFFICES ASSUME Wrong # {} PROVE FALSE
    OBVIOUS
  <2>1. PICK n \in Wrong : \A j \in Wrong : n <= j
    BY LeastIs
  <2>2. PICK i \in Nat : far(i) = n /\ days[O(i)] # W(i)
    BY <2>1
  <2>3. ~Before(last, O(i))
    BY <1>2, <1>3, <2>2
  <2>4. i + 1 \in Nat /\ far(i + 1) \in Nat /\ far(i + 1) < n /\ n \in Nat
    BY <1>4, <2>2, <2>3
  <2>5. days[O(i)] = (IF Before(O(i), first) THEN {} ELSE {O(i).day}) \cup days[O(i + 1)]
    BY <1>1, <1>2, <2>3
  <2>6. W(i) = (IF Before(O(i), first) THEN {} ELSE {O(i).day}) \cup W(i + 1)
    BY <1>3, <2>3
  <2>7. days[O(i + 1)] # W(i + 1)
    BY <2>2, <2>5, <2>6
  <2>8. far(i + 1) \in Wrong
    BY <2>4, <2>7
  <2>9. ~(n <= far(i + 1))
    BY ONLY <2>4
  <2> QED
    BY <2>1, <2>8, <2>9
<1>6. days[O(0)] = W(0)
  <2>1. 0 \in Nat /\ far(0) \in Nat
    BY <1>4
  <2> QED
    BY <1>5, <2>1
<1>7. O(0) = e
  BY OccurrenceIs DEF O
<1> QED
  BY <1>6, <1>7 DEF days, W

\* The days of a month are those between its first and its last.
LEMMA InMonth ==
  ASSUME NEW m, MonthOf(m), NEW x \in Date
  PROVE  /\ Month(x) = m <=> ~Before(x, Day(m, 1)) /\ ~Before(Day(m, Lasts(m)), x)
         /\ Month(x) = m => x = Day(m, x.day) /\ MonthNumber(x) = MonthNumber(m)
         /\ MonthNumber(x) = MonthNumber(m) => Month(x) = m
<1>1. /\ x.year \in Int /\ x.month \in 1..12 /\ x.day \in 1..31
      /\ x.day <= DaysInMonth(x.year, x.month)
      /\ x = [year |-> x.year, month |-> x.month, day |-> x.day]
      /\ m.year \in Int /\ m.month \in 1..12 /\ m = [year |-> m.year, month |-> m.month]
      /\ Lasts(m) \in 28..31
  BY DateIs, MonthEdges DEF MonthOf
<1>2. Month(x) = m <=> x.year = m.year /\ x.month = m.month
  <2>1. Month(x) = [year |-> x.year, month |-> x.month]
    BY DEF Month
  <2> QED
    BY <1>1, <2>1
<1>3. x.year = m.year /\ x.month = m.month => x.day <= Lasts(m)
  BY <1>1 DEF Lasts
<1>4. /\ ~Before(x, Day(m, 1)) <=> ~(x.year < m.year) /\ ~(x.year = m.year /\ x.month < m.month)
                                     /\ ~(x.year = m.year /\ x.month = m.month /\ x.day < 1)
      /\ ~Before(Day(m, Lasts(m)), x) <=> ~(m.year < x.year) /\ ~(m.year = x.year /\ m.month < x.month)
                                     /\ ~(m.year = x.year /\ m.month = x.month /\ Lasts(m) < x.day)
  BY DEF Before, Day
<1> DEFINE l == Lasts(m)
<1>5. l \in Int /\ (x.year = m.year /\ x.month = m.month => x.day <= l)
  BY <1>1, <1>3
<1>6. Month(x) = m <=> ~Before(x, Day(m, 1)) /\ ~Before(Day(m, Lasts(m)), x)
  <2> HIDE DEF l
  <2>1. x.year = m.year /\ x.month = m.month
          <=> /\ ~(x.year < m.year) /\ ~(x.year = m.year /\ x.month < m.month)
              /\ ~(x.year = m.year /\ x.month = m.month /\ x.day < 1)
              /\ ~(m.year < x.year) /\ ~(m.year = x.year /\ m.month < x.month)
              /\ ~(m.year = x.year /\ m.month = x.month /\ l < x.day)
    BY ONLY <1>1, <1>5
  <2> QED
    BY <1>2, <1>4, <2>1 DEF l
<1>7. Month(x) = m => x = Day(m, x.day) /\ MonthNumber(x) = MonthNumber(m)
  BY <1>1, <1>2 DEF Day, MonthNumber
<1>8. MonthNumber(x) = MonthNumber(m) => Month(x) = m
  <2> SUFFICES ASSUME 12 * x.year + x.month = 12 * m.year + m.month PROVE Month(x) = m
    BY DEF MonthNumber
  <2>1. x.year = m.year /\ x.month = m.month
    BY ONLY <1>1, 12 * x.year + x.month = 12 * m.year + m.month
  <2> QED
    BY <1>2, <2>1
<1> QED
  BY <1>6, <1>7, <1>8

LEMMA EarlierMonth ==
  ASSUME NEW m, MonthOf(m), NEW e \in Date, MonthNumber(m) < MonthNumber(e), NEW d
  PROVE  Before(Day(m, d), e)
<1>1. m.year \in Int /\ m.month \in 1..12 /\ e.year \in Int /\ e.month \in 1..12
  BY DateIs DEF MonthOf
<1>2. 12 * m.year + m.month < 12 * e.year + e.month
  BY DEF MonthNumber
<1>3. m.year < e.year \/ (m.year = e.year /\ m.month < e.month)
  BY ONLY <1>1, <1>2, MonthOrder
<1> QED
  BY <1>3 DEF Before, Day

LEMMA LaterMonth ==
  ASSUME NEW m, MonthOf(m), NEW e \in Date, ~(MonthNumber(m) < MonthNumber(e))
  PROVE  ~Before(Day(m, Lasts(m)), e) /\ ~(m.year < e.year)
<1>1. /\ Day(m, Lasts(m)) \in Date /\ MonthNumber(Day(m, Lasts(m))) = MonthNumber(m)
      /\ Day(m, Lasts(m)).day = Lasts(m) /\ MonthNumber(m) \in Int
  BY MonthEdges
<1>2. m.year \in Int /\ m.month \in 1..12 /\ e.year \in Int /\ e.month \in 1..12 /\ MonthNumber(e) \in Int
  BY DateIs, DayNumberOrders DEF MonthOf
<1>3. ~(m.year < e.year)
  <2>1. ~(12 * m.year + m.month < 12 * e.year + e.month)
    BY DEF MonthNumber
  <2> QED
    BY ONLY <1>2, <2>1
<1>4. CASE MonthNumber(e) = MonthNumber(m)
  <2>1. Month(e) = m
    BY <1>4, InMonth
  <2>2. ~Before(Day(m, Lasts(m)), e)
    BY <2>1, InMonth
  <2> QED
    BY <1>3, <2>2
<1>5. CASE MonthNumber(e) < MonthNumber(m)
  <2>1. Before(e, Day(m, Lasts(m)))
    BY <1>1, <1>5, DayNumberOrders
  <2> QED
    BY <1>1, <1>3, <2>1, BeforeIsStrict
<1> QED
  BY <1>1, <1>2, <1>4, <1>5

\* What CalendarMarksCharges says of the marks of a month.
Marks(days, charges, m, e) ==
  {d \in days : ~Before(Day(m, d), e)} = {c.day : c \in {x \in charges : Month(x) = m /\ ~Before(x, e)}}

LEMMA MarksEarlier ==
  ASSUME NEW m, MonthOf(m), NEW e \in Date, MonthNumber(m) < MonthNumber(e),
         NEW days, NEW charges \in SUBSET Date
  PROVE  Marks(days, charges, m, e)
<1>1. \A d \in days : Before(Day(m, d), e)
  BY EarlierMonth
<1>2. ASSUME NEW x \in charges, Month(x) = m PROVE Before(x, e)
  <2>1. x = Day(m, x.day)
    BY <1>2, InMonth
  <2> QED
    BY <2>1, EarlierMonth
<1> QED
  BY <1>1, <1>2 DEF Marks

LEMMA MarksInterval ==
  ASSUME NEW s, Interval(s), NEW e \in Date, Common(s, e),
         NEW m, MonthOf(m), ~(MonthNumber(m) < MonthNumber(e))
  PROVE  Marks(CursorDays(s, e, m), ChargeDates(s, e, Day(m, Lasts(m))), m, e)
<1> DEFINE first == Day(m, 1)
           last == Day(m, Lasts(m))
           O(i) == Occurrence(s, e, i)
           I == {i \in Nat : Month(O(i)) = m}
           K == 0..Periods(s, e, last)
<1>1. first \in Date /\ last \in Date /\ ~Before(last, e)
  BY MonthEdges, LaterMonth
<1>2. CursorDays(s, e, m) = DaysOf(s, first, last)[BackOf(s, last)[e]]
  BY DEF CursorDays, DaysOf, BackOf
<1> HIDE DEF first, last
<1>3. CursorDays(s, e, m) = DaysWithin(s, e, first, last, 0)
  BY <1>1, <1>2, BackOfIs, DaysGathered
<1>4. \A i \in Nat : O(i) \in Date /\ ~Before(O(i), e)
  <2> TAKE i \in Nat
  <2>1. O(i) \in Date /\ O(0) = e
    BY OccurrenceIs
  <2>2. CASE i = 0
    BY <2>1, <2>2, BeforeIsStrict
  <2>3. CASE 0 < i
    <3>1. Before(O(0), O(i))
      BY <2>3, OccurrencesAscend
    <3> HIDE DEF O
    <3> QED
      BY <2>1, <3>1, BeforeIsStrict
  <2> QED
    BY <2>1, <2>2, <2>3
<1>5. Within(s, e, first, last, 0) = I
  <2>1. \A i \in Nat : i >= 0
    OBVIOUS
  <2>2. \A i \in Nat : Month(O(i)) = m <=> ~Before(O(i), first) /\ ~Before(last, O(i))
    BY <1>4, InMonth DEF first, last
  <2> QED
    BY <2>1, <2>2 DEF Within
<1>6. \A i \in I : i \in Nat /\ O(i) = Day(m, O(i).day) /\ Month(O(i)) = m
  <2> TAKE i \in I
  <2>1. i \in Nat /\ Month(O(i)) = m /\ O(i) \in Date
    BY <1>4
  <2> HIDE DEF O
  <2> QED
    BY <2>1, InMonth
<1>7. I \subseteq K
  <2> SUFFICES ASSUME NEW i \in I PROVE i \in K
    OBVIOUS
  <2>1. i \in Nat /\ ~Before(last, O(i))
    <3>1. i \in Within(s, e, first, last, 0)
      BY <1>5
    <3> QED
      BY <3>1 DEF Within
  <2>2. Periods(s, e, last) \in Int /\ i + 1 <= Periods(s, e, last)
    BY <1>1, <2>1, PeriodsReach
  <2> QED
    BY <2>1, <2>2
<1>8. K \subseteq Nat
  OBVIOUS
<1>9. ChargeDates(s, e, last) = {O(k) : k \in K}
  <2>1. s.type \in IntervalUnit /\ s.type # "monthly_date" /\ s.type # "yearly_date"
    BY ScheduleIs DEF Interval
  <2> QED
    BY <2>1 DEF ChargeDates
<1>10. CursorDays(s, e, m) = {O(i).day : i \in I}
  BY <1>3, <1>5 DEF DaysWithin
<1>11. I = {k \in K : Month(O(k)) = m}
  <2> HIDE DEF K
  <2> QED
    BY <1>7, <1>8
<1> HIDE DEF O, K, I
<1>12. {d \in CursorDays(s, e, m) : ~Before(Day(m, d), e)} = {O(i).day : i \in I}
  BY <1>4, <1>6, <1>10
<1>13. {x \in ChargeDates(s, e, last) : Month(x) = m /\ ~Before(x, e)} = {O(i) : i \in I}
  BY <1>4, <1>8, <1>9, <1>11
<1>14. {c.day : c \in {O(i) : i \in I}} = {O(i).day : i \in I}
  OBVIOUS
<1> QED
  BY <1>12, <1>13, <1>14 DEF Marks, last

\* A dated schedule has at most one charge in a month: on its day or the last one.
LEMMA MarksOne ==
  ASSUME NEW m, MonthOf(m), NEW e \in Date, NEW b \in Date, Month(b) = m,
         NEW charges \in SUBSET Date, b \in charges, \A c \in charges : Month(c) = m => c = b
  PROVE  Marks({b.day}, charges, m, e)
<1>1. b = Day(m, b.day)
  BY InMonth
<1>2. {d \in {b.day} : ~Before(Day(m, d), e)} = {x.day : x \in {x \in {b} : ~Before(x, e)}}
  BY <1>1
<1>3. {x \in charges : Month(x) = m /\ ~Before(x, e)} = {x \in {b} : ~Before(x, e)}
  OBVIOUS
<1> QED
  BY <1>2, <1>3 DEF Marks

LEMMA LastDayIs ==
  ASSUME NEW m, MonthOf(m), NEW d \in 1..31
  PROVE  /\ BuildDate(m.year, m.month, d).day = IF d > Lasts(m) THEN Lasts(m) ELSE d
         /\ BuildDate(m.year, m.month, d) \in Date /\ Month(BuildDate(m.year, m.month, d)) = m
<1>1. m.year \in Int /\ m.month \in 1..12 /\ m = [year |-> m.year, month |-> m.month]
  BY DEF MonthOf
<1> DEFINE b == BuildDate(m.year, m.month, d)
<1>2. b \in Date /\ b.year = m.year /\ b.month = m.month
  <2>1. Buildable(m.year, m.month, d)
    BY <1>1 DEF Buildable
  <2> QED
    BY ONLY <2>1, DateIsBuilt
<1>3. b.day = ClampDay(m.year, m.month, d) /\ ~(d < 1)
  BY DEF BuildDate
<1>4. b.day = IF d > Lasts(m) THEN Lasts(m) ELSE d
  BY <1>3 DEF ClampDay, Lasts
<1> HIDE DEF b
<1>5. Month(b) = m
  BY <1>1, <1>2 DEF Month
<1> QED
  BY <1>2, <1>4, <1>5 DEF b

LEMMA MarksMonthly ==
  ASSUME NEW s \in Schedule, s.type = "monthly_date", NEW e \in Date,
         NEW m, MonthOf(m), ~(MonthNumber(m) < MonthNumber(e))
  PROVE  Marks({IF s.day > Lasts(m) THEN Lasts(m) ELSE s.day}, ChargeDates(s, e, Day(m, Lasts(m))), m, e)
<1> DEFINE last == Day(m, Lasts(m))
           years == e.year .. last.year + 1
           C == ChargeDates(s, e, last)
           b == BuildDate(m.year, m.month, s.day)
<1>1. s.day \in 1..31 /\ s.type \notin IntervalUnit
  BY ScheduleIs
<1>2. m.year \in Int /\ m.month \in 1..12 /\ e.year \in Int /\ ~(m.year < e.year)
  BY LaterMonth, DateIs DEF MonthOf
<1>3. last.year = m.year
  BY DEF Day
<1>4. C = {BuildDate(y, n, s.day) : y \in years, n \in 1..12}
  BY <1>1 DEF ChargeDates
<1>5. m.year \in years /\ years \subseteq Int
  BY <1>2, <1>3
<1>6. /\ b.day = IF s.day > Lasts(m) THEN Lasts(m) ELSE s.day
      /\ b \in Date /\ Month(b) = m
  BY <1>1, LastDayIs
<1> HIDE DEF years
<1>7. b \in C
  BY <1>2, <1>4, <1>5
<1>8. ASSUME NEW c \in C PROVE c \in Date /\ (Month(c) = m => c = b)
  <2>1. PICK y \in years, n \in 1..12 : c = BuildDate(y, n, s.day)
    BY <1>4
  <2>2. y \in Int /\ n \in 1..12
    BY <1>5, <2>1
  <2>3. c \in Date /\ c.year = y /\ c.month = n
    <3>1. Buildable(y, n, s.day)
      BY <1>1, <2>2 DEF Buildable
    <3> QED
      BY ONLY <2>1, <3>1, DateIsBuilt
  <2>4. Month(c) = m => m.year = y /\ m.month = n
    BY <2>3 DEF Month
  <2> QED
    BY <2>1, <2>3, <2>4
<1> HIDE DEF b, C
<1>9. C \in SUBSET Date /\ \A c \in C : Month(c) = m => c = b
  BY <1>8
<1>10. Marks({b.day}, C, m, e)
  BY <1>6, <1>7, <1>9, MarksOne
<1> QED
  BY <1>6, <1>10 DEF C, last

LEMMA MarksYearly ==
  ASSUME NEW s \in Schedule, s.type = "yearly_date", NEW e \in Date,
         NEW m, MonthOf(m), ~(MonthNumber(m) < MonthNumber(e))
  PROVE  Marks(IF s.month # m.month THEN {} ELSE {IF s.day > Lasts(m) THEN Lasts(m) ELSE s.day},
               ChargeDates(s, e, Day(m, Lasts(m))), m, e)
<1> DEFINE last == Day(m, Lasts(m))
           years == e.year .. last.year + 1
           C == ChargeDates(s, e, last)
           b == BuildDate(m.year, m.month, s.day)
<1>1. s.day \in 1..31 /\ s.month \in 1..12 /\ s.type \notin IntervalUnit /\ s.type # "monthly_date"
  BY ScheduleIs
<1>2. m.year \in Int /\ m.month \in 1..12 /\ e.year \in Int /\ ~(m.year < e.year)
  BY LaterMonth, DateIs DEF MonthOf
<1>3. last.year = m.year
  BY DEF Day
<1>4. C = {BuildDate(y, s.month, s.day) : y \in years}
  BY <1>1 DEF ChargeDates
<1>5. m.year \in years /\ years \subseteq Int
  BY <1>2, <1>3
<1>6. /\ b.day = IF s.day > Lasts(m) THEN Lasts(m) ELSE s.day
      /\ b \in Date /\ Month(b) = m
  BY <1>1, LastDayIs
<1> HIDE DEF years
<1>7. ASSUME NEW c \in C PROVE c \in Date /\ (Month(c) = m => s.month = m.month /\ c = b)
  <2>1. PICK y \in years : c = BuildDate(y, s.month, s.day)
    BY <1>4
  <2>2. y \in Int
    BY <1>5, <2>1
  <2>3. c \in Date /\ c.year = y /\ c.month = s.month
    <3>1. Buildable(y, s.month, s.day)
      BY <1>1, <2>2 DEF Buildable
    <3>2. /\ BuildDate(y, s.month, s.day) \in Date
          /\ BuildDate(y, s.month, s.day).year = y /\ BuildDate(y, s.month, s.day).month = s.month
      BY ONLY <3>1, DateIsBuilt
    <3> QED
      BY <2>1, <3>2
  <2>4. Month(c) = m => m.year = y /\ m.month = s.month
    BY <2>3 DEF Month
  <2> QED
    BY <2>1, <2>3, <2>4
<1>8. CASE s.month = m.month
  <2>1. b \in C
    BY <1>4, <1>5, <1>8
  <2> HIDE DEF b, C
  <2>2. C \in SUBSET Date /\ \A c \in C : Month(c) = m => c = b
    BY <1>7
  <2>3. Marks({b.day}, C, m, e)
    BY <1>6, <2>1, <2>2, MarksOne
  <2> QED
    BY <1>6, <1>8, <2>3 DEF C, last
<1>9. CASE s.month # m.month
  <2> HIDE DEF C
  <2>1. \A c \in C : Month(c) # m
    BY <1>7, <1>9
  <2>2. Marks({}, C, m, e)
    BY <2>1 DEF Marks
  <2> QED
    BY <1>9, <2>2 DEF C, last
<1> QED
  BY <1>8, <1>9

-----------------------------------------------------------------------------
(* The cycle of the progress bar.                                          *)

\* The date after one of an interval schedule is a period later.
LEMMA AfterInterval ==
  ASSUME NEW s, Interval(s), NEW p \in Date
  PROVE  NextAfter(s, p) = Occurrence(s, p, 1) /\ NextAfter(s, p) = StepOf(s, p, p)
<1> DEFINE O(i) == Occurrence(s, p, i)
           C == Charges(s, p)
<1>1. s \in Schedule /\ s.type \in IntervalUnit
  BY DEF Interval
<1>2. 0 \in Nat /\ 1 \in Nat /\ 0 + 1 = 1 /\ \A i \in Nat : i = 0 \/ i = 1 \/ 1 < i
  OBVIOUS
<1>3. \A i \in Nat : O(i) \in Date
  BY OccurrenceIs
<1>4. O(0) = p /\ StepOf(s, p, O(0)) = O(1)
  BY <1>2, OccurrenceIs
<1>5. Before(p, O(1)) /\ \A i \in Nat : 1 < i => Before(O(1), O(i))
  <2>1. Before(O(0), O(1))
    BY <1>2, OccurrencesAscend
  <2>2. \A i \in Nat : 1 < i => Before(O(1), O(i))
    BY <1>2, OccurrencesAscend
  <2> QED
    BY <1>4, <2>1, <2>2
<1>6. C = {O(i) : i \in Nat}
  BY <1>1 DEF Charges
<1> HIDE DEF O
<1>7. AddDays(p, 1) \in Date /\ \A x \in Date : Before(x, AddDays(p, 1)) <=> ~Before(p, x)
  BY DayAfter
<1>8. ASSUME NEW i \in Nat PROVE Before(O(i), AddDays(p, 1)) \/ ~Before(O(i), O(1))
  <2>1. CASE i = 0
    BY <1>4, <1>7, <2>1, BeforeIsStrict
  <2>2. CASE i = 1
    BY <1>3, <2>2, BeforeIsStrict
  <2>3. CASE 1 < i
    BY <1>2, <1>3, <1>5, <2>3, BeforeIsStrict
  <2> QED
    BY <1>2, <2>1, <2>2, <2>3
<1>9. FirstOf(C, AddDays(p, 1), O(1))
  BY <1>2, <1>3, <1>5, <1>6, <1>7, <1>8 DEF FirstOf
<1>10. FirstOf(C, AddDays(p, 1), NextAfter(s, p)) /\ C \in SUBSET Date
  BY <1>1, NextAfterIs, ChargesAreDates
<1> HIDE DEF C
<1>11. NextAfter(s, p) = O(1)
  BY <1>7, <1>9, <1>10, FirstIsOne
<1> QED
  BY <1>4, <1>11 DEF O

\* On days that every month has, months back and on again lead to the date.
LEMMA BuiltBack ==
  ASSUME NEW s, ByMonths(s), NEW p \in Date, NEW e \in Date, e.day <= 28, BuiltOn(e.day, p),
         MonthNumber(p) = MonthNumber(e) - Width(s)
  PROVE  Occurrence(s, p, 1) = e
<1> DEFINE o == Occurrence(s, p, 1)
           w == Width(s)
<1>1. 1 \in Nat /\ w \in Nat /\ 1 * w = w
  <2>1. w \in Nat
    BY WidthIs
  <2> HIDE DEF w
  <2> QED
    BY <2>1
<1>2. o \in Date /\ MonthNumber(o) = MonthNumber(p) + 1 * w /\ BuiltOn(p.day, o)
  BY <1>1, OccurrenceMonth
<1> HIDE DEF o, w
<1>3. p.day = e.day
  <2>1. e.day \in 1..31
    BY DateIs
  <2>2. p.day \in Int /\ p.day <= e.day /\ (p.day < e.day => p.day = DaysInMonth(p.year, p.month))
    BY <2>1, BuiltDay, DateIs
  <2>3. DaysInMonth(p.year, p.month) \in 28..31
    BY MonthLengths
  <2> DEFINE l == DaysInMonth(p.year, p.month)
  <2>4. l \in 28..31 /\ (p.day < e.day => p.day = l)
    BY <2>2, <2>3
  <2> HIDE DEF l
  <2> QED
    BY ONLY <2>1, <2>2, <2>4, e.day <= 28
<1>4. MonthNumber(o) = MonthNumber(e)
  <2>1. MonthNumber(e) \in Int
    BY DayNumberOrders
  <2> QED
    BY <1>1, <1>2, <2>1 DEF w
<1>5. BuiltOn(e.day, e)
  BY BuiltAgain DEF BuiltOn
<1>6. o = e
  BY <1>2, <1>3, <1>4, <1>5, SameBuilt
<1> QED
  BY <1>6 DEF o

\* The cycle starts before the date, and for an interval schedule a period before it.
LEMMA CycleInterval ==
  ASSUME NEW s, Interval(s), NEW e \in Date
  PROVE  /\ PreviousCycle(s, e) \in Date /\ Before(PreviousCycle(s, e), e)
         /\ e.day <= 28 => NextAfter(s, PreviousCycle(s, e)) = e
<1> DEFINE p == PreviousCycle(s, e)
<1>1. /\ s.type = "day" \/ s.type = "week" \/ s.type = "month" \/ s.type = "year"
      /\ s.count \in Nat /\ s.count > 0
  BY ScheduleIs DEF Interval
<1>2. /\ e.year \in Int /\ e.month \in 1..12 /\ e.day \in 1..31
      /\ MonthNumber(e) \in Int
  BY DateIs, DayNumberOrders
<1>3. ASSUME NEW n \in Nat, n > 0, p = BackDays(e, n), StepOf(s, p, p) = AddDays(p, n)
      PROVE  p \in Date /\ Before(p, e) /\ NextAfter(s, p) = e
  <2>1. p \in Date /\ DayNumber(p) < DayNumber(e) /\ AddDays(p, n) = e
    BY <1>3, BackDaysFall, BackAndOn
  <2> HIDE DEF p
  <2> QED
    BY <1>3, <2>1, DayNumberOrders, AfterInterval
<1>4. ASSUME ByMonths(s), p \in Date, BuiltOn(e.day, p), MonthNumber(p) = MonthNumber(e) - Width(s)
      PROVE  Before(p, e) /\ (e.day <= 28 => NextAfter(s, p) = e)
  <2> HIDE DEF p
  <2>1. Width(s) \in Nat /\ Width(s) > 0
    BY <1>4, WidthIs
  <2>2. MonthNumber(p) < MonthNumber(e)
    BY <1>2, <1>4, <2>1
  <2>3. Before(p, e)
    BY <1>4, <2>2, DayNumberOrders
  <2>4. e.day <= 28 => NextAfter(s, p) = e
    BY <1>4, AfterInterval, BuiltBack
  <2> QED
    BY <2>3, <2>4
<1>5. CASE s.type = "day"
  <2>1. p = BackDays(e, s.count)
    BY <1>5 DEF PreviousCycle
  <2>2. StepOf(s, p, p) = AddDays(p, s.count)
    BY <1>5 DEF StepOf
  <2> HIDE DEF p
  <2> QED
    BY <1>1, <1>3, <2>1, <2>2 DEF p
<1>6. CASE s.type = "week"
  <2> DEFINE n == 7 * s.count
  <2>1. p = BackDays(e, n)
    BY <1>6 DEF PreviousCycle
  <2>2. StepOf(s, p, p) = AddDays(p, n)
    BY <1>6 DEF StepOf
  <2>3. n \in Nat /\ n > 0
    BY <1>1
  <2> HIDE DEF p, n
  <2> QED
    BY <1>3, <2>1, <2>2, <2>3 DEF p
<1>7. CASE s.type = "month"
  <2> DEFINE n == -s.count
  <2>1. p = AddMonthsPreservePreferredDay(e, n, e.day)
    BY <1>7 DEF PreviousCycle
  <2>2. n \in Int /\ Width(s) = s.count /\ ByMonths(s)
    BY <1>1, <1>7 DEF Width, ByMonths
  <2>3. MonthNumber(e) + n = MonthNumber(e) - s.count
    BY <1>1, <1>2
  <2> HIDE DEF p, n
  <2>4. p \in Date /\ MonthNumber(p) = MonthNumber(e) + n /\ BuiltOn(e.day, p)
    BY ONLY e \in Date, <1>2, <2>1, <2>2, AddMonthsIs
  <2> QED
    BY <1>4, <2>2, <2>3, <2>4 DEF p
<1>8. CASE s.type = "year"
  <2> DEFINE y == e.year - s.count
  <2>1. p = BuildDate(y, e.month, e.day)
    BY <1>8 DEF PreviousCycle
  <2>2. y \in Int /\ Width(s) = 12 * s.count /\ ByMonths(s)
    BY <1>1, <1>2, <1>8 DEF Width, ByMonths
  <2>3. 12 * y + e.month = (12 * e.year + e.month) - 12 * s.count
    BY <1>1, <1>2
  <2> HIDE DEF p, y
  <2>4. p \in Date /\ p.year = y /\ p.month = e.month
    <3>1. Buildable(y, e.month, e.day)
      BY <1>2, <2>2 DEF Buildable
    <3> QED
      BY ONLY <2>1, <3>1, DateIsBuilt
  <2>5. BuiltOn(e.day, p)
    BY <2>1, <2>4 DEF BuiltOn
  <2>6. MonthNumber(p) = MonthNumber(e) - Width(s)
    BY <2>2, <2>3, <2>4 DEF MonthNumber
  <2> QED
    BY <1>4, <2>2, <2>4, <2>5, <2>6 DEF p
<1> QED
  BY <1>1, <1>5, <1>6, <1>7, <1>8

LEMMA MonthlyIsBuilt ==
  ASSUME NEW d \in 1..31, NEW c \in MonthlyDates(d)
  PROVE  c \in Date /\ BuiltOn(d, c)
<1>1. PICK y \in Int, m \in 1..12 : c = BuildDate(y, m, d)
  BY DEF MonthlyDates
<1>2. c \in Date /\ c.year = y /\ c.month = m
  <2>1. Buildable(y, m, d)
    BY DEF Buildable
  <2> QED
    BY ONLY <1>1, <2>1, DateIsBuilt
<1> QED
  BY <1>1, <1>2 DEF BuiltOn

\* For a dated schedule, a month or a year before it.
LEMMA CycleMonthly ==
  ASSUME NEW s \in Schedule, s.type = "monthly_date", NEW e \in Date
  PROVE  /\ PreviousCycle(s, e) \in Date /\ Before(PreviousCycle(s, e), e)
         /\ e \in MonthlyDates(s.day) /\ e.day = s.day => NextAfter(s, PreviousCycle(s, e)) = e
<1> DEFINE p == PreviousCycle(s, e)
           C == MonthlyDates(s.day)
<1>1. s.day \in 1..31 /\ s.type \notin IntervalUnit /\ e.day \in 1..31 /\ MonthNumber(e) \in Int
  BY ScheduleIs, DateIs, DayNumberOrders
<1>2. p = AddMonthsPreservePreferredDay(e, -1, e.day)
  BY DEF PreviousCycle
<1> HIDE DEF p
<1>3. p \in Date /\ MonthNumber(p) = MonthNumber(e) + (-1) /\ BuiltOn(e.day, p)
  <2>1. -1 \in Int
    OBVIOUS
  <2> QED
    BY ONLY e \in Date, <1>1, <1>2, <2>1, AddMonthsIs
<1>4. MonthNumber(p) < MonthNumber(e) /\ MonthNumber(p) + 1 = MonthNumber(e) /\ MonthNumber(p) \in Int
  BY <1>1, <1>3
<1>5. Before(p, e)
  BY <1>3, <1>4, DayNumberOrders
<1>6. ASSUME e \in C, e.day = s.day PROVE NextAfter(s, p) = e
  <2>1. AddDays(p, 1) \in Date /\ \A x \in Date : Before(x, AddDays(p, 1)) <=> ~Before(p, x)
    BY <1>3, DayAfter
  <2>2. ASSUME NEW c \in C PROVE Before(c, AddDays(p, 1)) \/ ~Before(c, e)
    <3>1. c \in Date /\ BuiltOn(s.day, c) /\ BuiltOn(s.day, e) /\ BuiltOn(s.day, p)
      BY <1>1, <1>3, <1>6, MonthlyIsBuilt
    <3>2. MonthNumber(c) \in Int
      BY <3>1, DayNumberOrders
    <3>3. CASE MonthNumber(c) < MonthNumber(p)
      <4>1. Before(c, p)
        BY <1>3, <3>1, <3>3, DayNumberOrders
      <4> QED
        BY <1>3, <2>1, <3>1, <4>1, BeforeIsStrict
    <3>4. CASE MonthNumber(c) = MonthNumber(p)
      <4>1. c = p
        BY <1>3, <3>1, <3>4, SameBuilt
      <4> QED
        BY <1>3, <2>1, <4>1, BeforeIsStrict
    <3>5. CASE MonthNumber(c) = MonthNumber(e)
      <4>1. c = e
        BY <3>1, <3>5, SameBuilt
      <4> QED
        BY <4>1, BeforeIsStrict
    <3>6. CASE MonthNumber(e) < MonthNumber(c)
      <4>1. Before(e, c)
        BY <3>1, <3>6, DayNumberOrders
      <4> QED
        BY <3>1, <4>1, BeforeIsStrict
    <3>7. \/ MonthNumber(c) < MonthNumber(p) \/ MonthNumber(c) = MonthNumber(p)
          \/ MonthNumber(c) = MonthNumber(e) \/ MonthNumber(e) < MonthNumber(c)
      BY ONLY <1>4, <3>2
    <3> QED
      BY <3>3, <3>4, <3>5, <3>6, <3>7
  <2>3. FirstOf(C, AddDays(p, 1), e)
    BY <1>5, <1>6, <2>1, <2>2 DEF FirstOf
  <2>4. Charges(s, p) = C
    BY <1>1 DEF Charges
  <2>5. FirstOf(C, AddDays(p, 1), NextAfter(s, p)) /\ C \in SUBSET Date
    BY <1>3, <2>4, NextAfterIs, ChargesAreDates
  <2> HIDE DEF C
  <2> QED
    BY <2>1, <2>3, <2>5, FirstIsOne
<1> QED
  BY <1>3, <1>5, <1>6 DEF p

LEMMA CycleYearly ==
  ASSUME NEW s \in Schedule, s.type = "yearly_date", NEW e \in Date
  PROVE  /\ PreviousCycle(s, e) \in Date /\ Before(PreviousCycle(s, e), e)
         /\ e \in {BuildDate(y, s.month, s.day) : y \in Int} /\ e.day = s.day
              => NextAfter(s, PreviousCycle(s, e)) = e
<1> DEFINE p == PreviousCycle(s, e)
           C == {BuildDate(y, s.month, s.day) : y \in Int}
           z == e.year - 1
<1>1. /\ s.day \in 1..31 /\ s.month \in 1..12 /\ s.type \notin IntervalUnit /\ s.type # "monthly_date"
      /\ e.year \in Int /\ e.month \in 1..12 /\ e.day \in 1..31
  BY ScheduleIs, DateIs
<1>2. p = BuildDate(z, e.month, e.day)
  BY <1>1 DEF PreviousCycle, IntervalUnit
<1>3. z \in Int /\ z < e.year /\ \A y \in Int : y < z \/ y = z \/ y = e.year \/ e.year < y
  BY <1>1
<1> HIDE DEF p, z
<1>4. p \in Date /\ p.year = z
  <2>1. Buildable(z, e.month, e.day)
    BY <1>1, <1>3 DEF Buildable
  <2> QED
    BY ONLY <1>2, <2>1, DateIsBuilt
<1>5. ASSUME NEW a \in Date, NEW b \in Date, a.year < b.year PROVE Before(a, b) /\ ~Before(b, a)
  <2>1. Before(a, b)
    BY <1>5 DEF Before
  <2> QED
    BY <2>1, BeforeIsStrict
<1>6. Before(p, e)
  BY <1>3, <1>4, <1>5
<1>7. ASSUME e \in C, e.day = s.day PROVE NextAfter(s, p) = e
  <2>1. AddDays(p, 1) \in Date /\ \A x \in Date : Before(x, AddDays(p, 1)) <=> ~Before(p, x)
    BY <1>4, DayAfter
  <2>2. \A y \in Int : /\ BuildDate(y, s.month, s.day) \in Date
                       /\ BuildDate(y, s.month, s.day).year = y /\ BuildDate(y, s.month, s.day).month = s.month
    <3> TAKE y \in Int
    <3>1. Buildable(y, s.month, s.day)
      BY <1>1 DEF Buildable
    <3> QED
      BY ONLY <3>1, DateIsBuilt
  <2>3. e.month = s.month /\ e = BuildDate(e.year, s.month, s.day)
    <3>1. PICK y \in Int : e = BuildDate(y, s.month, s.day)
      BY <1>7
    <3> QED
      BY <2>2, <3>1
  <2>4. p = BuildDate(z, s.month, s.day)
    BY <1>2, <1>7, <2>3
  <2>5. ASSUME NEW c \in C PROVE Before(c, AddDays(p, 1)) \/ ~Before(c, e)
    <3>1. PICK y \in Int : c = BuildDate(y, s.month, s.day)
      OBVIOUS
    <3>2. c \in Date /\ c.year = y
      BY <2>2, <3>1
    <3>3. CASE y < z
      BY <1>4, <1>5, <2>1, <3>2, <3>3
    <3>4. CASE y = z
      BY <1>4, <2>1, <2>4, <3>1, <3>4, BeforeIsStrict
    <3>5. CASE y = e.year
      BY <2>3, <3>1, <3>5, BeforeIsStrict
    <3>6. CASE e.year < y
      BY <1>5, <3>2, <3>6
    <3> QED
      BY <1>3, <3>3, <3>4, <3>5, <3>6
  <2>6. FirstOf(C, AddDays(p, 1), e)
    BY <1>6, <1>7, <2>1, <2>5 DEF FirstOf
  <2>7. Charges(s, p) = C
    BY <1>1 DEF Charges
  <2>8. FirstOf(C, AddDays(p, 1), NextAfter(s, p)) /\ C \in SUBSET Date
    BY <1>4, <2>7, NextAfterIs, ChargesAreDates
  <2> HIDE DEF C
  <2> QED
    BY <2>1, <2>6, <2>8, FirstIsOne
<1> QED
  BY <1>4, <1>6, <1>7 DEF p

LEMMA ViewedAreMonths ==
  ASSUME NEW e \in Date, NEW m \in Viewed(e)
  PROVE  MonthOf(m)
<1> DEFINE f == NextMonth(e)
<1>1. f \in Date /\ NextMonth(f) \in Date
  BY NextMonthIs
<1> HIDE DEF f
<1>2. MonthOf(Month(e)) /\ MonthOf(PreviousMonth(Month(e))) /\ MonthOf(Month(f)) /\ MonthOf(Month(NextMonth(f)))
  BY <1>1, MonthIsMonth
<1> QED
  BY <1>2 DEF Viewed, f

LEMMA DaysMarked ==
  ASSUME NEW e \in Date, schedule \in Schedule, mode = "auto_renew", CommonDay(e), NEW m, MonthOf(m)
  PROVE  Marks(BillingDays(e, m), ChargeDates(schedule, e, Day(m, Lasts(m))), m, e)
<1> DEFINE last == Day(m, Lasts(m))
<1>1. Common(schedule, e)
  BY DEF CommonDay, Common
<1>2. CASE MonthNumber(m) < MonthNumber(e)
  <2>1. last \in Date
    BY MonthEdges
  <2>2. ChargeDates(schedule, e, last) \in SUBSET Date
    BY <2>1, ChargeDatesReach, ChargesAreDates
  <2> QED
    BY <1>2, <2>2, MarksEarlier
<1>3. CASE ~(MonthNumber(m) < MonthNumber(e))
  <2>1. CASE schedule.type \in IntervalUnit
    <3>1. Interval(schedule) /\ schedule.type # "monthly_date" /\ schedule.type # "yearly_date"
      BY <2>1, ScheduleIs DEF Interval
    <3>2. BillingDays(e, m) = CursorDays(schedule, e, m)
      BY <3>1 DEF BillingDays
    <3> QED
      BY <1>1, <1>3, <3>1, <3>2, MarksInterval
  <2>2. CASE schedule.type = "monthly_date"
    <3>1. BillingDays(e, m) = {IF schedule.day > Lasts(m) THEN Lasts(m) ELSE schedule.day}
      BY <2>2 DEF BillingDays
    <3> QED
      BY <1>3, <2>2, <3>1, MarksMonthly
  <2>3. CASE schedule.type = "yearly_date"
    <3>1. BillingDays(e, m) =
            IF schedule.month # m.month THEN {}
            ELSE {IF schedule.day > Lasts(m) THEN Lasts(m) ELSE schedule.day}
      BY <2>3 DEF BillingDays
    <3> QED
      BY <1>3, <2>3, <3>1, MarksYearly
  <2> QED
    BY <2>1, <2>2, <2>3, ScheduleIs
<1> QED
  BY <1>2, <1>3

LEMMA MarksFollow == TypeOK => CalendarMarksCharges
<1> DEFINE date == Presented(next)
<1> SUFFICES ASSUME TypeOK, mode = "auto_renew", CommonDay(date), NEW m \in Viewed(date)
             PROVE  Marks(BillingDays(date, m), ChargeDates(schedule, date, Day(m, Lasts(m))), m, date)
  BY DEF CalendarMarksCharges, Marks
<1>1. schedule \in Schedule /\ next \in Date /\ today \in Date
  BY CalendarAssumption DEF TypeOK
<1>2. date \in Date
  BY <1>1, RolledIs DEF Presented
<1> HIDE DEF date
<1>3. MonthOf(m)
  BY <1>2, ViewedAreMonths
<1> QED
  BY <1>1, <1>2, <1>3, DaysMarked

LEMMA CycleFollows == TypeOK => CycleIsOnePeriod
<1> DEFINE date == Presented(next)
           previous == PreviousCycle(schedule, date)
           dated == schedule.type \in {"monthly_date", "yearly_date"}
<1> SUFFICES ASSUME TypeOK
             PROVE  /\ Before(previous, date)
                    /\ date.day <= 28
                         /\ (dated => date \in ChargeDates(schedule, date, date) /\ date.day = schedule.day)
                       => NextAfter(schedule, previous) = date
  BY DEF CycleIsOnePeriod
<1>1. schedule \in Schedule /\ next \in Date /\ today \in Date
  BY CalendarAssumption DEF TypeOK
<1>2. date \in Date
  BY <1>1, RolledIs DEF Presented
<1> HIDE DEF date
<1>3. ChargeDates(schedule, date, date) \subseteq Charges(schedule, date)
  BY <1>1, <1>2, ChargeDatesReach
<1>4. CASE schedule.type \in IntervalUnit
  <2>1. Interval(schedule)
    BY <1>1, <1>4 DEF Interval
  <2> QED
    BY <1>2, <2>1, CycleInterval
<1>5. CASE schedule.type = "monthly_date"
  <2>1. Charges(schedule, date) = MonthlyDates(schedule.day)
    BY <1>1, <1>5, ScheduleIs DEF Charges
  <2> QED
    BY <1>1, <1>2, <1>3, <1>5, <2>1, CycleMonthly
<1>6. CASE schedule.type = "yearly_date"
  <2>1. Charges(schedule, date) = {BuildDate(y, schedule.month, schedule.day) : y \in Int}
    BY <1>1, <1>6, ScheduleIs DEF Charges
  <2> QED
    BY <1>1, <1>2, <1>3, <1>6, <2>1, CycleYearly
<1> QED
  BY <1>1, <1>4, <1>5, <1>6, ScheduleIs

\* For every schedule, entered date and sequence of days, the calendar page marks the days
\* that the server charges on, and the progress bar runs over one period of the schedule,
\* on days that every month has (getBillingDatesInMonth, getPreviousCycleDate).
THEOREM ClientDatesFollow == Spec => []ClientDatesAgree
<1>1. TypeOK => ClientDatesAgree
  BY MarksFollow, CycleFollows DEF ClientDatesAgree
<1> QED
  BY CalendarTypeCorrect, <1>1, PTL
=============================================================================
