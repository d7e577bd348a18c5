-------------------------- MODULE VestingSchedule ---------------------------
(***************************************************************************)
(* The schedules of x/vesting: a start time and a sequence of periods,     *)
(* each with a length and the amount that its end adds.  Amounts are of    *)
(* one denomination.                                                       *)
(***************************************************************************)
EXTENDS Integers, Sequences, FiniteSets, SequencesExt

Min64(i, j) == IF i < j THEN i ELSE j
Max64(i, j) == IF i > j THEN i ELSE j

Period == [length : Nat, amount : Nat]

TotalLength(periods) == FoldLeft(LAMBDA n, p : n + p.length, 0, periods)
TotalAmount(periods) == FoldLeft(LAMBDA n, p : n + p.amount, 0, periods)

\* The end of the i-th period.
EventTime(start, periods, i) == start + TotalLength(SubSeq(periods, 1, i))

ReadPastPeriodCount(start, end, periods, t) ==
    IF t <= start THEN 0
    ELSE IF t >= end THEN Len(periods)
    ELSE Cardinality({i \in DOMAIN periods : EventTime(start, periods, i) <= t})

ReadSchedule(start, end, periods, total, t) ==
    IF t <= start THEN 0
    ELSE IF t >= end THEN total
    ELSE TotalAmount(SubSeq(periods, 1, ReadPastPeriodCount(start, end, periods, t)))

-----------------------------------------------------------------------------
\* The loops that DisjunctPeriods and ConjunctPeriods share.  Each round takes
\* the next event of A, of B, or of both if they fall together.
NextEvent(m, A, B) ==
    LET moreA == m.idxA < Len(A)
        moreB == m.idxB < Len(B)
        nextA == m.timeA + A[m.idxA + 1].length
        nextB == m.timeB + B[m.idxB + 1].length
        takeA == moreA /\ (moreB => nextA <= nextB)
        takeB == moreB /\ (moreA => nextB <= nextA)
        a == IF takeA THEN A[m.idxA + 1].amount ELSE 0
        b == IF takeB THEN B[m.idxB + 1].amount ELSE 0
        afterA == IF takeA THEN [m EXCEPT !.idxA = @ + 1, !.timeA = nextA] ELSE m
        afterB == IF takeB THEN [afterA EXCEPT !.idxB = @ + 1, !.timeB = nextB]
                           ELSE afterA
    IN  IF takeA \/ takeB
        THEN [afterB EXCEPT !.events = Append(@,
                [time |-> IF takeA THEN nextA ELSE nextB, a |-> a, b |-> b])]
        ELSE m

Events(startA, startB, A, B) ==
    FoldLeft(LAMBDA m, i : NextEvent(m, A, B),
             [idxA |-> 0, idxB |-> 0, timeA |-> startA, timeB |-> startB, events |-> <<>>],
             [i \in 1..(Len(A) + Len(B)) |-> i]).events

\* emit: a period that ends at the time given, after the last one emitted.
Emit(s, time, amount) ==
    [s EXCEPT !.end = time,
              !.periods = Append(@, [length |-> time - s.end, amount |-> amount])]

\* Mutant: of two events that fall together the larger one counts.
DisjunctLargerEvent(startA, startB, A, B) ==
    LET start == Min64(startA, startB)
    IN  FoldLeft(LAMBDA s, e : Emit(s, e.time, Max64(e.a, e.b)),
                 [start |-> start, end |-> start, periods |-> <<>>],
                 Events(startA, startB, A, B))

\* The union of the events of two schedules.
DisjunctPeriods(startA, startB, A, B) ==
    LET start == Min64(startA, startB)
    IN  FoldLeft(LAMBDA s, e : Emit(s, e.time, e.a + e.b),
                 [start |-> start, end |-> start, periods |-> <<>>],
                 Events(startA, startB, A, B))

\* Mutant: the larger of the two sums.
ConjunctLargerSum(s, e) ==
    LET counted == [s EXCEPT !.totalA = @ + e.a, !.totalB = @ + e.b]
        gained == Max64(counted.totalA, counted.totalB) - Max64(s.totalA, s.totalB)
    IN  IF gained = 0 THEN counted ELSE Emit(counted, e.time, gained)

\* The minimum of two schedules: what the smaller of the two sums has gained
\* with an event.
ConjunctEvent(s, e) ==
    LET totalA == s.totalA + e.a
        totalB == s.totalB + e.b
        counted == [s EXCEPT !.totalA = totalA, !.totalB = totalB]
        gained == Min64(totalA, totalB) - Min64(s.totalA, s.totalB)
    IN  IF gained = 0 THEN counted ELSE Emit(counted, e.time, gained)

ConjunctPeriods(startA, startB, A, B) ==
    LET start == Min64(startA, startB)
    IN  FoldLeft(ConjunctEvent,
                 [start |-> start, end |-> start, periods |-> <<>>,
                  totalA |-> 0, totalB |-> 0],
                 Events(startA, startB, A, B))
=============================================================================
