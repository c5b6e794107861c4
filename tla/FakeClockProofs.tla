--------------------------- MODULE FakeClockProofs ---------------------------
(***************************************************************************)
(* Proofs about FakeClock: the types, for any number of goroutines that    *)
(* advance the clock; and, when there is one, as in the tests, the order   *)
(* in which callbacks run, the pace of chains, and that FakeClock          *)
(* implements AbstractTimers.                                              *)
(***************************************************************************)
EXTENDS FakeClock, WellFoundedInduction, TLAPS

---------------------------------------------------------------------------
(* Sequences of timers. *)

LEMMA TimerFields ==
    \A t \in FakeTimer : /\ t.deadline \in Nat
                         /\ t.chain \in Delay \cup {NoChain}
                         /\ t.cause \in Nat
                         /\ t.fired \in BOOLEAN
                         /\ t.stopped \in BOOLEAN
  BY DEF FakeTimer

\* What writing one of its flags does to a timer.
LEMMA FireSets ==
    ASSUME NEW b \in BOOLEAN
    PROVE  \A t \in FakeTimer : /\ [t EXCEPT !.fired = b] \in FakeTimer
                                /\ [t EXCEPT !.fired = b].deadline = t.deadline
                                /\ [t EXCEPT !.fired = b].chain = t.chain
                                /\ [t EXCEPT !.fired = b].cause = t.cause
                                /\ [t EXCEPT !.fired = b].fired = b
                                /\ [t EXCEPT !.fired = b].stopped = t.stopped
  BY DEF FakeTimer

LEMMA StopSets ==
    ASSUME NEW b \in BOOLEAN
    PROVE  \A t \in FakeTimer : /\ [t EXCEPT !.stopped = b] \in FakeTimer
                                /\ [t EXCEPT !.stopped = b].deadline = t.deadline
                                /\ [t EXCEPT !.stopped = b].chain = t.chain
                                /\ [t EXCEPT !.stopped = b].cause = t.cause
                                /\ [t EXCEPT !.stopped = b].stopped = b
                                /\ [t EXCEPT !.stopped = b].fired = t.fired
  BY DEF FakeTimer

\* w is v but for the flags of timer i, which are now these.
Flagged(v, w, i, fired, stopped) ==
    /\ w \in Seq(FakeTimer) /\ Len(w) = Len(v) /\ DOMAIN w = DOMAIN v
    /\ w[i].fired = fired /\ w[i].stopped = stopped
    /\ \A j \in DOMAIN v : /\ w[j].deadline = v[j].deadline
                           /\ w[j].chain = v[j].chain
                           /\ w[j].cause = v[j].cause
                           /\ j # i => w[j].fired = v[j].fired /\ w[j].stopped = v[j].stopped

LEMMA WrittenIsFlagged ==
    ASSUME NEW v \in Seq(FakeTimer), NEW i \in DOMAIN v, NEW u \in FakeTimer,
           u.deadline = v[i].deadline, u.chain = v[i].chain, u.cause = v[i].cause,
           NEW w, w = [j \in 1 .. Len(v) |-> IF j = i THEN u ELSE v[j]]
    PROVE  Flagged(v, w, i, u.fired, u.stopped)
<1>1. w \in [1 .. Len(v) -> FakeTimer]
  OBVIOUS
<1>2. w \in Seq(FakeTimer) /\ Len(w) = Len(v) /\ DOMAIN w = DOMAIN v
  BY <1>1
<1>3. w[i] = u /\ \A j \in DOMAIN v : j # i => w[j] = v[j]
  OBVIOUS
<1> QED
  BY <1>2, <1>3 DEF Flagged

LEMMA FireFlags ==
    ASSUME NEW v \in Seq(FakeTimer), NEW i \in DOMAIN v, NEW b \in BOOLEAN
    PROVE  Flagged(v, [v EXCEPT ![i].fired = b], i, b, v[i].stopped)
<1> DEFINE u == [v[i] EXCEPT !.fired = b]
           w == [v EXCEPT ![i].fired = b]
<1>1. /\ u \in FakeTimer /\ u.fired = b /\ u.stopped = v[i].stopped
      /\ u.deadline = v[i].deadline /\ u.chain = v[i].chain /\ u.cause = v[i].cause
  <2>1. v[i] \in FakeTimer
    OBVIOUS
  <2> QED
    BY <2>1, FireSets
<1>2. w = [j \in 1 .. Len(v) |-> IF j = i THEN u ELSE v[j]]
  <2>1. w = [j \in 1 .. Len(v) |-> IF j = i THEN [v[j] EXCEPT !.fired = b] ELSE v[j]]
    OBVIOUS
  <2>2. \A j \in 1 .. Len(v) : (IF j = i THEN [v[j] EXCEPT !.fired = b] ELSE v[j])
                                 = (IF j = i THEN u ELSE v[j])
    OBVIOUS
  <2> HIDE DEF u, w
  <2> QED
    BY <2>1, <2>2
<1> HIDE DEF u, w
<1>3. Flagged(v, w, i, u.fired, u.stopped)
  BY <1>1, <1>2, WrittenIsFlagged
<1> QED
  BY <1>1, <1>3 DEF w

LEMMA StopFlags ==
    ASSUME NEW v \in Seq(FakeTimer), NEW i \in DOMAIN v, NEW b \in BOOLEAN
    PROVE  Flagged(v, [v EXCEPT ![i].stopped = b], i, v[i].fired, b)
<1> DEFINE u == [v[i] EXCEPT !.stopped = b]
           w == [v EXCEPT ![i].stopped = b]
<1>1. /\ u \in FakeTimer /\ u.fired = v[i].fired /\ u.stopped = b
      /\ u.deadline = v[i].deadline /\ u.chain = v[i].chain /\ u.cause = v[i].cause
  <2>1. v[i] \in FakeTimer
    OBVIOUS
  <2> QED
    BY <2>1, StopSets
<1>2. w = [j \in 1 .. Len(v) |-> IF j = i THEN u ELSE v[j]]
  <2>1. w = [j \in 1 .. Len(v) |-> IF j = i THEN [v[j] EXCEPT !.stopped = b] ELSE v[j]]
    OBVIOUS
  <2>2. \A j \in 1 .. Len(v) : (IF j = i THEN [v[j] EXCEPT !.stopped = b] ELSE v[j])
                                 = (IF j = i THEN u ELSE v[j])
    OBVIOUS
  <2> HIDE DEF u, w
  <2> QED
    BY <2>1, <2>2
<1> HIDE DEF u, w
<1>3. Flagged(v, w, i, u.fired, u.stopped)
  BY <1>1, <1>2, WrittenIsFlagged
<1> QED
  BY <1>1, <1>3 DEF w

\* w is v and one timer more.
Extended(v, w, u) ==
    /\ w \in Seq(FakeTimer) /\ Len(w) = Len(v) + 1 /\ DOMAIN w = 1 .. Len(v) + 1
    /\ w[Len(v) + 1] = u
    /\ \A j \in DOMAIN v : w[j] = v[j]

LEMMA ArmExtends ==
    ASSUME NEW v \in Seq(FakeTimer), NEW u \in FakeTimer
    PROVE  Extended(v, Append(v, u), u)
  BY DEF Extended

\* The least of a set of numbers.
LEMMA LeastNumber ==
    ASSUME NEW S \in SUBSET Nat, S # {}
    PROVE  \E n \in S : \A m \in S : n <= m
<1> DEFINE R == OpToRel(<, Nat)
<1>1. PICK n \in S : \A m \in S : ~ (<<m, n>> \in R)
  BY NatLessThanWellFounded, WFMin
<1>2. \A m, k \in Nat : m < k => <<m, k>> \in R
  BY DEF OpToRel
<1> HIDE DEF R
<1>3. \A m \in S : ~ (m < n)
  BY <1>1, <1>2
<1> QED
  BY <1>3

\* Of the timers that are due there is a next one.
LEMMA NextDueExists ==
    ASSUME timers \in Seq(FakeTimer), NEW S \in SUBSET DOMAIN timers, S # {}
    PROVE  /\ NextDue(S) \in S
           /\ \A j \in S : \/ timers[NextDue(S)].deadline < timers[j].deadline
                           \/ /\ timers[NextDue(S)].deadline = timers[j].deadline
                              /\ NextDue(S) <= j
<1> DEFINE D == {timers[i].deadline : i \in S}
<1>1. DOMAIN timers \subseteq Nat /\ \A i \in DOMAIN timers : timers[i].deadline \in Nat
  BY TimerFields
<1>2. PICK d \in D : \A e \in D : d <= e
  <2>1. D \in SUBSET Nat /\ D # {}
    BY <1>1
  <2> QED
    BY <2>1, LeastNumber
<1> DEFINE T == {i \in S : timers[i].deadline = d}
<1>3. PICK i \in T : \A j \in T : i <= j
  <2>1. T \in SUBSET Nat /\ T # {}
    BY <1>1, <1>2
  <2> QED
    BY <2>1, LeastNumber
<1>4. \A j \in S : \/ timers[i].deadline < timers[j].deadline
                   \/ timers[i].deadline = timers[j].deadline /\ i <= j
  <2> SUFFICES ASSUME NEW j \in S
               PROVE  \/ timers[i].deadline < timers[j].deadline
                      \/ timers[i].deadline = timers[j].deadline /\ i <= j
    OBVIOUS
  <2>1. timers[i].deadline = d /\ d <= timers[j].deadline
    BY <1>2, <1>3
  <2>2. d \in Nat /\ timers[j].deadline \in Nat
    BY <1>1, <1>2
  <2>3. CASE timers[j].deadline = d
    BY <1>3, <2>1, <2>3
  <2> QED
    BY <2>1, <2>2, <2>3
<1>5. i \in S
  OBVIOUS
<1> HIDE DEF T, D
<1> QED
  BY <1>4, <1>5 DEF NextDue

---------------------------------------------------------------------------
(* Types, for any number of goroutines. *)

\* Where goroutines can be, and what current is then.
Places ==
    /\ \A g \in Advancer :
          /\ pc[g] \in {"idle", "look", "call", "update", "chain", "relock", "mark"}
          /\ pc[g] \in {"call", "update", "chain", "mark"} => current[g] \in DOMAIN timers
          /\ pc[g] = "chain" => timers[current[g]].chain # NoChain
    /\ \A h \in Handler : pc[h] \in {"idle", "touch", "schedule", "done"}

TypeInv == FakeClockTypeOK /\ Places

LEMMA InitTypeInv == Init => TypeInv
<1> SUFFICES ASSUME Init PROVE TypeInv
  OBVIOUS
<1>1. timers \in Seq(FakeTimer) /\ Len(timers) = 0
  BY DEF Init
<1> QED
  BY <1>1, FakeClockAssumption DEF Init, TypeInv, FakeClockTypeOK, Places, Goroutine

\* The timer an AfterFunc arms.
Armed(delay, chain, cause) ==
    [deadline |-> now + delay, chain |-> chain, cause |-> cause,
     fired |-> FALSE, stopped |-> FALSE]

LEMMA ArmedFields ==
    ASSUME TypeInv, NEW d \in Delay, NEW c \in Delay \cup {NoChain}, NEW k \in Nat
    PROVE  /\ Armed(d, c, k) \in FakeTimer
           /\ Armed(d, c, k).deadline = now + d
           /\ Armed(d, c, k).chain = c
           /\ Armed(d, c, k).cause = k
           /\ Armed(d, c, k).fired = FALSE
           /\ Armed(d, c, k).stopped = FALSE
<1>1. now + d \in Nat
  BY FakeClockAssumption DEF TypeInv, FakeClockTypeOK
<1> QED
  BY <1>1 DEF Armed, FakeTimer

\* What a Fire writes besides the timers.
LEMMA FireFrame ==
    ASSUME NEW g \in Advancer, Fire(g)
    PROVE  LET i == NextDue(Due(g)) IN
           /\ pc[g] = "look" /\ pc' = [pc EXCEPT ![g] = "call"]
           /\ now' = timers[i].deadline
           /\ current' = [current EXCEPT ![g] = i]
           /\ mu' = Free
           /\ storeMu' = storeMu /\ target' = target
<1>1. pc[g] = "look" /\ now' = timers[NextDue(Due(g))].deadline /\ mu' = Free
  BY Zenon DEF Fire
<1>2. pc' = [pc EXCEPT ![g] = "call"]
  BY Zenon DEF Fire, Goto
<1>3. current' = [current EXCEPT ![g] = NextDue(Due(g))]
  BY Zenon DEF Fire
<1>4. storeMu' = storeMu /\ target' = target
  BY Zenon DEF Fire
<1> QED
  BY <1>1, <1>2, <1>3, <1>4

\* What each of the four actions that write the timers leaves of them.
LEMMA FireTimers ==
    ASSUME TypeInv, NEW g \in Advancer, Fire(g)
    PROVE  LET i == NextDue(Due(g)) IN
           /\ i \in Due(g) /\ i \in DOMAIN timers
           /\ \A j \in Due(g) : \/ timers[i].deadline < timers[j].deadline
                                \/ timers[i].deadline = timers[j].deadline /\ i <= j
           /\ Flagged(timers, timers', i, TRUE, timers[i].stopped)
<1> DEFINE i == NextDue(Due(g))
<1>1. timers \in Seq(FakeTimer)
  BY DEF TypeInv, FakeClockTypeOK
<1>2. Due(g) \subseteq DOMAIN timers /\ Due(g) # {}
  BY DEF Due, Fire
<1>3. /\ i \in Due(g) /\ i \in DOMAIN timers
      /\ \A j \in Due(g) : \/ timers[i].deadline < timers[j].deadline
                           \/ timers[i].deadline = timers[j].deadline /\ i <= j
  BY <1>1, <1>2, NextDueExists
<1>4. PICK b \in BOOLEAN : b = TRUE
  OBVIOUS
<1>5. timers' = [timers EXCEPT ![i].fired = b]
  BY <1>4, Zenon DEF Fire
<1> HIDE DEF i
<1>6. Flagged(timers, timers', i, b, timers[i].stopped)
  BY <1>1, <1>3, <1>5, FireFlags
<1> QED
  BY <1>3, <1>4, <1>6 DEF i

LEMMA StopTimers ==
    ASSUME TypeInv, NEW g \in Advancer, MarkStopped(g)
    PROVE  /\ current[g] \in DOMAIN timers
           /\ Flagged(timers, timers', current[g], timers[current[g]].fired, TRUE)
<1> DEFINE i == current[g]
<1>1. timers \in Seq(FakeTimer) /\ i \in DOMAIN timers
  BY DEF TypeInv, FakeClockTypeOK, Places, MarkStopped
<1>4. PICK b \in BOOLEAN : b = TRUE
  OBVIOUS
<1>5. timers' = [timers EXCEPT ![i].stopped = b]
  BY <1>4, Zenon DEF MarkStopped
<1> HIDE DEF i
<1>6. Flagged(timers, timers', i, timers[i].fired, b)
  BY <1>1, <1>5, StopFlags
<1> QED
  BY <1>1, <1>4, <1>6 DEF i

LEMMA ChainTimers ==
    ASSUME TypeInv, NEW g \in Advancer, Chain(g)
    PROVE  LET c == timers[current[g]].chain IN
           /\ current[g] \in DOMAIN timers /\ c \in Delay
           /\ Extended(timers, timers', Armed(c, NoChain, current[g]))
           /\ Armed(c, NoChain, current[g]) \in FakeTimer
<1> DEFINE c == timers[current[g]].chain
<1>1. timers \in Seq(FakeTimer) /\ current[g] \in DOMAIN timers /\ c # NoChain
  BY DEF TypeInv, FakeClockTypeOK, Places, Chain
<1>2. current[g] \in Nat /\ c \in Delay
  BY <1>1, TimerFields
<1>3. Armed(c, NoChain, current[g]) \in FakeTimer
  BY <1>2, ArmedFields
<1>4. timers' = Append(timers, Armed(c, NoChain, current[g]))
  BY DEF Chain, AfterFunc, Armed
<1> QED
  BY <1>1, <1>2, <1>3, <1>4, ArmExtends

LEMMA ScheduleTimers ==
    ASSUME TypeInv, NEW h \in Handler, Schedule(h)
    PROVE  \E d \in Delay, c \in Delay \cup {NoChain} :
              /\ Extended(timers, timers', Armed(d, c, 0))
              /\ Armed(d, c, 0) \in FakeTimer
<1>1. timers \in Seq(FakeTimer)
  BY DEF TypeInv, FakeClockTypeOK
<1>2. PICK d \in Delay, c \in Delay \cup {NoChain} : timers' = Append(timers, Armed(d, c, 0))
  BY DEF Schedule, AfterFunc, Armed
<1>3. Armed(d, c, 0) \in FakeTimer
  BY ArmedFields
<1> QED
  BY <1>1, <1>2, <1>3, ArmExtends

\* No step takes a timer away or changes when it is due and what it arms.
TimersStay ==
    /\ timers' \in Seq(FakeTimer) /\ Len(timers) <= Len(timers')
    /\ DOMAIN timers \subseteq DOMAIN timers'
    /\ \A i \in DOMAIN timers : /\ timers'[i].deadline = timers[i].deadline
                                /\ timers'[i].chain = timers[i].chain
                                /\ timers'[i].cause = timers[i].cause

LEMMA StaysIfFlagged ==
    ASSUME NEW i, NEW f, NEW b, Flagged(timers, timers', i, f, b), timers \in Seq(FakeTimer)
    PROVE  TimersStay
  BY DEF Flagged, TimersStay

LEMMA StaysIfExtended ==
    ASSUME NEW u, Extended(timers, timers', u), timers \in Seq(FakeTimer)
    PROVE  TimersStay
  BY DEF Extended, TimersStay

LEMMA NextTimersStay == TypeInv /\ [Next]_vars => TimersStay
<1> SUFFICES ASSUME TypeInv, [Next]_vars PROVE TimersStay
  OBVIOUS
<1>t. timers \in Seq(FakeTimer)
  BY DEF TypeInv, FakeClockTypeOK
<1>1. ASSUME UNCHANGED timers PROVE TimersStay
  BY <1>t, <1>1 DEF TimersStay
<1>2. ASSUME NEW g \in Advancer, Fire(g) PROVE TimersStay
  BY <1>t, <1>2, FireTimers, StaysIfFlagged
<1>3. ASSUME NEW g \in Advancer, MarkStopped(g) PROVE TimersStay
  BY <1>t, <1>3, StopTimers, StaysIfFlagged
<1>4. ASSUME NEW g \in Advancer, Chain(g) PROVE TimersStay
  BY <1>t, <1>4, ChainTimers, StaysIfExtended
<1>5. ASSUME NEW h \in Handler, Schedule(h) PROVE TimersStay
  BY <1>t, <1>5, ScheduleTimers, StaysIfExtended
<1>6. ASSUME NEW g \in Advancer, \/ Advance(g) \/ EnterStore(g) \/ LeaveStore(g) \/ Relock(g)
                                 \/ Return(g) \/ LookAtTimer(g)
      PROVE UNCHANGED timers
  BY <1>6 DEF Advance, EnterStore, LeaveStore, Relock, Return, LookAtTimer, clockVars
<1>7. ASSUME NEW h \in Handler, BeginTouch(h) \/ Touch(h) PROVE UNCHANGED timers
  BY <1>7 DEF BeginTouch, Touch, clockVars
<1>8. ASSUME UNCHANGED vars PROVE UNCHANGED timers
  BY <1>8 DEF vars, clockVars
<1> QED
  BY <1>1, <1>2, <1>3, <1>4, <1>5, <1>6, <1>7, <1>8 DEF Next, Call, InAdvance, InTouch

\* The parts of TypeInv that are not about the timers themselves.
PlacesAfter ==
    /\ now' \in Nat
    /\ mu' \in Goroutine \cup {Free}
    /\ storeMu' \in Goroutine \cup {Free}
    /\ pc' \in [Goroutine -> {"idle", "look", "call", "update", "chain", "relock", "mark",
                              "touch", "schedule", "done"}]
    /\ target' \in [Advancer -> Nat]
    /\ current' \in [Advancer -> 0 .. Len(timers')]
    /\ \A g \in Goroutine : mu' = g <=> pc'[g] = "look"
    /\ \A g \in Goroutine : storeMu' = g <=> pc'[g] \in {"update", "touch"}
    /\ Places'

LEMMA NextTypeInv == TypeInv /\ [Next]_vars => TypeInv'
<1> SUFFICES ASSUME TypeInv, [Next]_vars PROVE PlacesAfter
  BY NextTimersStay DEF TimersStay, PlacesAfter, TypeInv, FakeClockTypeOK
<1>t. /\ TimersStay /\ timers \in Seq(FakeTimer)
      /\ Len(timers) \in Nat /\ Len(timers') \in Nat /\ Len(timers) <= Len(timers')
      /\ DOMAIN timers = 1 .. Len(timers) /\ DOMAIN timers' = 1 .. Len(timers')
  <2>1. TimersStay /\ timers \in Seq(FakeTimer)
    BY NextTimersStay DEF TypeInv, FakeClockTypeOK
  <2> QED
    BY <2>1 DEF TimersStay
<1>c. current \in [Advancer -> 0 .. Len(timers')]
  BY <1>t DEF TypeInv, FakeClockTypeOK
<1>p. \A g \in Advancer : current[g] \in DOMAIN timers =>
         current[g] \in DOMAIN timers' /\ timers'[current[g]].chain = timers[current[g]].chain
  BY <1>t DEF TimersStay
<1>f. Free \notin Goroutine /\ Advancer \subseteq Goroutine /\ Handler \subseteq Goroutine
      /\ \A g \in Advancer, h \in Handler : g # h
  BY FakeClockAssumption DEF Goroutine
<1> USE DEF TypeInv, FakeClockTypeOK, Places, PlacesAfter, Goto
<1>1. ASSUME NEW g \in Advancer, Advance(g) PROVE PlacesAfter
  <2>1. PICK d \in Window : target' = [target EXCEPT ![g] = now + d]
    BY <1>1 DEF Advance
  <2>2. target' \in [Advancer -> Nat]
    BY <2>1, FakeClockAssumption
  <2> QED
    BY <1>1, <1>c, <1>p, <1>f, <2>2 DEF Advance, clockVars
<1>2. ASSUME NEW g \in Advancer, Fire(g) PROVE PlacesAfter
  <2> DEFINE i == NextDue(Due(g))
  <2>1. i \in DOMAIN timers /\ timers[i].deadline \in Nat
    <3>1. i \in DOMAIN timers
      BY <1>2, FireTimers
    <3> QED
      BY <3>1, <1>t, TimerFields
  <2>2. /\ pc[g] = "look" /\ now' = timers[i].deadline /\ current' = [current EXCEPT ![g] = i]
        /\ mu' = Free /\ pc' = [pc EXCEPT ![g] = "call"] /\ storeMu' = storeMu /\ target' = target
    <3> HIDE DEF TypeInv, FakeClockTypeOK, Places, PlacesAfter, Goto
    <3> QED
      BY <1>2, FireFrame
  <2> HIDE DEF i
  <2>3. current' \in [Advancer -> 0 .. Len(timers')] /\ i \in DOMAIN timers'
    BY <1>c, <1>t, <2>1, <2>2
  <2> QED
    BY <1>t, <1>p, <1>f, <2>1, <2>2, <2>3
<1>3. ASSUME NEW g \in Advancer, EnterStore(g) PROVE PlacesAfter
  BY <1>3, <1>c, <1>p, <1>f DEF EnterStore, clockVars
<1>4. ASSUME NEW g \in Advancer, LeaveStore(g) PROVE PlacesAfter
  BY <1>4, <1>c, <1>p, <1>f DEF LeaveStore, clockVars
<1>5. ASSUME NEW g \in Advancer, Chain(g) PROVE PlacesAfter
  BY <1>5, <1>c, <1>p, <1>f DEF Chain, LockedBriefly
<1>6. ASSUME NEW g \in Advancer, Relock(g) PROVE PlacesAfter
  BY <1>6, <1>c, <1>p, <1>f DEF Relock, clockVars
<1>7. ASSUME NEW g \in Advancer, Return(g) PROVE PlacesAfter
  BY <1>7, <1>c, <1>p, <1>f DEF Return, clockVars
<1>8. ASSUME NEW g \in Advancer, LookAtTimer(g) PROVE PlacesAfter
  <2>1. PICK i \in DOMAIN timers : current' = [current EXCEPT ![g] = i]
    BY <1>8 DEF LookAtTimer
  <2>2. current' \in [Advancer -> 0 .. Len(timers')] /\ i \in DOMAIN timers'
    BY <1>c, <1>t, <2>1
  <2>3. /\ pc[g] = "idle" /\ pc' = [pc EXCEPT ![g] = "mark"]
        /\ UNCHANGED <<now, timers, mu, storeMu, target>>
    BY <1>8 DEF LookAtTimer, clockVars
  <2>4. Places'
    <3>1. current'[g] = i /\ pc'[g] = "mark" /\ timers' = timers
      BY <1>f, <2>1, <2>3
    <3>2. \A q \in Advancer : q # g => current'[q] = current[q]
      BY <2>1
    <3>3. \A q \in Goroutine : q # g => pc'[q] = pc[q]
      BY <2>3
    <3> QED
      BY <1>f, <2>2, <3>1, <3>2, <3>3
  <2> QED
    BY <1>f, <2>2, <2>3, <2>4
<1>9. ASSUME NEW g \in Advancer, MarkStopped(g) PROVE PlacesAfter
  BY <1>9, <1>c, <1>p, <1>f DEF MarkStopped
<1>10. ASSUME NEW h \in Handler, BeginTouch(h) \/ Touch(h) PROVE PlacesAfter
  BY <1>10, <1>c, <1>p, <1>f DEF BeginTouch, Touch, LockedBriefly, clockVars
<1>11. ASSUME NEW h \in Handler, Schedule(h) PROVE PlacesAfter
  BY <1>11, <1>c, <1>p, <1>f DEF Schedule, LockedBriefly
<1>12. CASE UNCHANGED vars
  BY <1>12 DEF vars, clockVars
<1> QED
  BY <1>1, <1>2, <1>3, <1>4, <1>5, <1>6, <1>7, <1>8, <1>9, <1>10, <1>11, <1>12
  DEF Next, Call, InAdvance, InTouch

LEMMA TypeInvHolds == Spec => []TypeInv
  BY InitTypeInv, NextTypeInv, PTL DEF Spec

\* Every variable keeps its type, and each mutex is held by the goroutine that
\* is in the code it protects, for any number of goroutines.
THEOREM FakeClockTypesHold == Spec => []FakeClockTypeOK
<1>1. TypeInv => FakeClockTypeOK
  BY DEF TypeInv
<1> QED
  BY TypeInvHolds, <1>1, PTL

---------------------------------------------------------------------------
(* Order and pace, when one goroutine advances the clock.  (Two could take *)
(* it back: the one that comes to the end of its window last sets it.)     *)

OneAdvancer == \A g, h \in Advancer : g = h

\* Nothing pending is overdue, and nothing fired ahead of its time.
TimeInv ==
    \A i \in DOMAIN timers :
        /\ Pending(i) => now <= timers[i].deadline
        /\ timers[i].fired => timers[i].deadline <= now

\* An Advance does not overshoot, and while the callback of a timer runs it is
\* the time that timer was due.  What Stop is about to mark is still pending.
AdvanceInv ==
    \A g \in Advancer :
        /\ pc[g] \in {"look", "call", "update", "chain", "relock"} => now <= target[g]
        /\ pc[g] \in {"call", "update", "chain"} =>
              timers[current[g]].fired /\ timers[current[g]].deadline = now
        /\ pc[g] = "mark" => Pending(current[g])

\* ChainsKeepPace, of causes that are timers.
ChainInv ==
    \A i \in DOMAIN timers : timers[i].cause # 0 =>
        LET c == timers[timers[i].cause] IN
        /\ timers[i].cause \in DOMAIN timers
        /\ c.fired /\ timers[i].deadline = c.deadline + c.chain

ClockInv == TimeInv /\ AdvanceInv /\ FiresInOrder /\ ChainInv

LEMMA ClockTypes ==
    ASSUME TypeInv
    PROVE  /\ timers \in Seq(FakeTimer) /\ now \in Nat
           /\ Len(timers) \in Nat /\ DOMAIN timers = 1 .. Len(timers)
           /\ \A i \in DOMAIN timers : /\ timers[i].deadline \in Nat
                                       /\ timers[i].chain \in Delay \cup {NoChain}
                                       /\ timers[i].cause \in Nat
           /\ \A g \in Advancer : target[g] \in Nat
  BY TimerFields DEF TypeInv, FakeClockTypeOK

\* What is pending after one flag was set was pending before, and what has
\* fired before has fired after.
LEMMA FlagsOnlySet ==
    ASSUME TypeInv, NEW i \in DOMAIN timers,
           \/ Flagged(timers, timers', i, TRUE, timers[i].stopped)
           \/ Flagged(timers, timers', i, timers[i].fired, TRUE)
    PROVE  /\ DOMAIN timers' = DOMAIN timers
           /\ \A j \in DOMAIN timers : /\ Pending(j)' => Pending(j) /\ j # i
                                       /\ timers[j].fired => timers'[j].fired
                                       /\ timers'[j].fired => timers[j].fired \/ j = i
  BY DEF Flagged, Pending

LEMMA FireOrder ==
    ASSUME TypeInv, ClockInv, NEW g \in Advancer, Fire(g)
    PROVE  TimeInv' /\ FiresInOrder'
<1> DEFINE i == NextDue(Due(g))
<1>1. /\ i \in DOMAIN timers /\ Pending(i) /\ timers[i].deadline <= target[g]
      /\ \A j \in Due(g) : \/ timers[i].deadline < timers[j].deadline
                           \/ timers[i].deadline = timers[j].deadline /\ i <= j
      /\ Flagged(timers, timers', i, TRUE, timers[i].stopped)
  BY FireTimers DEF Due
<1>2. now' = timers[i].deadline
  BY FireFrame
<1> HIDE DEF i
<1>t. /\ DOMAIN timers' = DOMAIN timers /\ TimersStay /\ now \in Nat /\ target[g] \in Nat
      /\ DOMAIN timers = 1 .. Len(timers) /\ Len(timers) \in Nat
      /\ \A j \in DOMAIN timers : timers[j].deadline \in Nat
  BY <1>1, ClockTypes, FlagsOnlySet, StaysIfFlagged
<1>3. ASSUME NEW j \in DOMAIN timers, Pending(j), j # i
      PROVE  \/ timers[i].deadline < timers[j].deadline
             \/ timers[i].deadline = timers[j].deadline /\ i < j
  <2>1. CASE j \in Due(g)
    BY <1>1, <1>3, <1>t, <2>1
  <2>2. CASE j \notin Due(g)
    BY <1>1, <1>3, <1>t, <2>2 DEF Due
  <2> QED
    BY <2>1, <2>2
<1>4. now <= timers[i].deadline
  BY <1>1 DEF ClockInv, TimeInv
<1>5. ASSUME NEW j \in DOMAIN timers', Pending(j)'
      PROVE  Pending(j) /\ j # i /\ j \in DOMAIN timers
  BY <1>1, <1>5, <1>t, FlagsOnlySet
<1>6. ASSUME NEW j \in DOMAIN timers', timers'[j].fired
      PROVE  j \in DOMAIN timers /\ (timers[j].fired \/ j = i)
  BY <1>1, <1>6, <1>t, FlagsOnlySet
<1>7. ASSUME NEW j \in DOMAIN timers'
      PROVE  /\ Pending(j)' => now' <= timers'[j].deadline
             /\ timers'[j].fired => timers'[j].deadline <= now'
  <2>1. timers'[j].deadline = timers[j].deadline /\ j \in DOMAIN timers
    BY <1>7, <1>t DEF TimersStay
  <2>2. Pending(j)' => now' <= timers[j].deadline
    BY <1>1, <1>2, <1>3, <1>5, <1>7, <1>t
  <2>3. timers[j].fired => timers[j].deadline <= now
    BY <2>1 DEF ClockInv, TimeInv
  <2>4. timers'[j].fired => timers[j].deadline <= now'
    BY <1>1, <1>2, <1>4, <1>6, <1>7, <1>t, <2>1, <2>3
  <2> QED
    BY <2>1, <2>2, <2>4
<1>8. ASSUME NEW a \in DOMAIN timers', NEW b \in DOMAIN timers', timers'[a].fired, Pending(b)'
      PROVE  \/ timers'[a].deadline < timers'[b].deadline
             \/ timers'[a].deadline = timers'[b].deadline /\ a < b
  <2>1. /\ timers'[a].deadline = timers[a].deadline /\ a \in DOMAIN timers
        /\ timers'[b].deadline = timers[b].deadline /\ b \in DOMAIN timers
    BY <1>8, <1>t DEF TimersStay
  <2>2. Pending(b) /\ b # i /\ (timers[a].fired \/ a = i)
    BY <1>5, <1>6, <1>8
  <2>3. CASE a = i
    BY <1>3, <2>1, <2>2, <2>3
  <2>4. CASE timers[a].fired
    BY <2>1, <2>2, <2>4 DEF ClockInv, FiresInOrder
  <2> QED
    BY <2>2, <2>3, <2>4
<1> QED
  BY <1>7, <1>8 DEF TimeInv, FiresInOrder

LEMMA StopOrder ==
    ASSUME TypeInv, ClockInv, NEW g \in Advancer, MarkStopped(g)
    PROVE  TimeInv' /\ FiresInOrder'
<1> DEFINE i == current[g]
<1>1. i \in DOMAIN timers /\ Flagged(timers, timers', i, timers[i].fired, TRUE) /\ now' = now
  BY StopTimers DEF MarkStopped
<1> HIDE DEF i
<1>2. DOMAIN timers' = DOMAIN timers /\ TimersStay
  BY <1>1, ClockTypes, FlagsOnlySet, StaysIfFlagged
<1>3. ASSUME NEW j \in DOMAIN timers
      PROVE  /\ timers'[j].deadline = timers[j].deadline
             /\ Pending(j)' => Pending(j)
             /\ timers'[j].fired => timers[j].fired
  BY <1>1, <1>2, FlagsOnlySet DEF TimersStay, Flagged
<1>4. TimeInv'
  BY <1>1, <1>2, <1>3 DEF ClockInv, TimeInv
<1>5. FiresInOrder'
  BY <1>2, <1>3 DEF ClockInv, FiresInOrder
<1> QED
  BY <1>4, <1>5

LEMMA ArmOrder ==
    ASSUME TypeInv, ClockInv, NEW d \in Delay, NEW c \in Delay \cup {NoChain}, NEW k \in Nat,
           Extended(timers, timers', Armed(d, c, k)), now' = now
    PROVE  TimeInv' /\ FiresInOrder'
<1> DEFINE u == Armed(d, c, k)
           n == Len(timers) + 1
<1>1. u.deadline = now + d /\ u.fired = FALSE /\ now <= now + d
  <2>1. u.deadline = now + d /\ u.fired = FALSE
    BY ArmedFields
  <2>2. now \in Nat /\ d \in Nat
    BY ClockTypes, FakeClockAssumption
  <2> QED
    BY <2>1, <2>2
<1> HIDE DEF u
<1>t. /\ now \in Nat /\ d \in Nat /\ now + d \in Nat
      /\ DOMAIN timers = 1 .. Len(timers) /\ Len(timers) \in Nat
      /\ \A j \in DOMAIN timers : timers[j].deadline \in Nat
  BY <1>1, ClockTypes, FakeClockAssumption
<1>2. /\ DOMAIN timers' = DOMAIN timers \cup {n}
      /\ timers'[n] = u
      /\ \A j \in DOMAIN timers : timers'[j] = timers[j] /\ j < n
  <2>1. DOMAIN timers' = 1 .. Len(timers) + 1 /\ timers'[Len(timers) + 1] = u
        /\ \A j \in DOMAIN timers : timers'[j] = timers[j]
    BY DEF Extended, u
  <2> QED
    BY <1>t, <2>1
<1> HIDE DEF n
<1>3. ASSUME NEW j \in DOMAIN timers PROVE Pending(j)' <=> Pending(j)
  BY <1>2 DEF Pending
<1>4. TimeInv'
  <2>1. ASSUME NEW j \in DOMAIN timers
        PROVE  /\ Pending(j)' => now' <= timers'[j].deadline
               /\ timers'[j].fired => timers'[j].deadline <= now'
    BY <1>2, <1>3 DEF ClockInv, TimeInv
  <2>2. now' <= timers'[n].deadline /\ ~timers'[n].fired
    BY <1>1, <1>2
  <2> QED
    BY <1>2, <2>1, <2>2 DEF TimeInv
<1>5. FiresInOrder'
  <2>1. ASSUME NEW a \in DOMAIN timers, NEW b \in DOMAIN timers, timers'[a].fired, Pending(b)'
        PROVE  \/ timers'[a].deadline < timers'[b].deadline
               \/ timers'[a].deadline = timers'[b].deadline /\ a < b
    BY <1>2, <1>3, <2>1 DEF ClockInv, FiresInOrder
  <2>2. ASSUME NEW a \in DOMAIN timers, timers'[a].fired
        PROVE  \/ timers'[a].deadline < timers'[n].deadline
               \/ timers'[a].deadline = timers'[n].deadline /\ a < n
    <3>1. timers[a].deadline <= now
      BY <1>2, <2>2 DEF ClockInv, TimeInv
    <3> QED
      BY <1>1, <1>2, <1>t, <3>1
  <2>3. ~timers'[n].fired
    BY <1>1, <1>2
  <2> QED
    BY <1>2, <2>1, <2>2, <2>3 DEF FiresInOrder
<1> QED
  BY <1>4, <1>5

LEMMA FlagsKeepChains ==
    ASSUME TypeInv, ClockInv, NEW i \in DOMAIN timers,
           \/ Flagged(timers, timers', i, TRUE, timers[i].stopped)
           \/ Flagged(timers, timers', i, timers[i].fired, TRUE)
    PROVE  ChainInv'
<1>1. TimersStay /\ DOMAIN timers' = DOMAIN timers
  BY ClockTypes, FlagsOnlySet, StaysIfFlagged
<1> SUFFICES ASSUME NEW j \in DOMAIN timers, timers'[j].cause # 0
             PROVE  LET c == timers'[timers'[j].cause] IN
                    /\ timers'[j].cause \in DOMAIN timers'
                    /\ c.fired /\ timers'[j].deadline = c.deadline + c.chain
  BY <1>1 DEF ChainInv
<1> DEFINE k == timers[j].cause
<1>2. timers'[j].cause = k /\ timers'[j].deadline = timers[j].deadline
  BY <1>1 DEF TimersStay
<1>3. /\ k \in DOMAIN timers /\ timers[k].fired
      /\ timers[j].deadline = timers[k].deadline + timers[k].chain
  BY <1>2 DEF ClockInv, ChainInv
<1> HIDE DEF k
<1>4. /\ timers'[k].fired
      /\ timers'[k].deadline = timers[k].deadline /\ timers'[k].chain = timers[k].chain
  BY <1>1, <1>3, FlagsOnlySet DEF TimersStay
<1> QED
  BY <1>1, <1>2, <1>3, <1>4

LEMMA ArmKeepsChains ==
    ASSUME TypeInv, ClockInv, NEW u, Extended(timers, timers', u),
           u.cause # 0 => /\ u.cause \in DOMAIN timers /\ timers[u.cause].fired
                          /\ u.deadline = timers[u.cause].deadline + timers[u.cause].chain
    PROVE  ChainInv'
<1> DEFINE n == Len(timers) + 1
<1>1. /\ DOMAIN timers' = DOMAIN timers \cup {n}
      /\ timers'[n] = u
      /\ \A j \in DOMAIN timers : timers'[j] = timers[j]
  BY ClockTypes DEF Extended
<1> HIDE DEF n
<1>2. ASSUME NEW j \in DOMAIN timers, timers'[j].cause # 0
      PROVE  LET c == timers'[timers'[j].cause] IN
             /\ timers'[j].cause \in DOMAIN timers'
             /\ c.fired /\ timers'[j].deadline = c.deadline + c.chain
  BY <1>1, <1>2 DEF ClockInv, ChainInv
<1>3. ASSUME timers'[n].cause # 0
      PROVE  LET c == timers'[timers'[n].cause] IN
             /\ timers'[n].cause \in DOMAIN timers'
             /\ c.fired /\ timers'[n].deadline = c.deadline + c.chain
  BY <1>1, <1>3
<1> QED
  BY <1>1, <1>2, <1>3 DEF ChainInv

\* A step that writes neither the timers nor the clock.
LEMMA NothingArmed ==
    ASSUME ClockInv, UNCHANGED <<now, timers>>
    PROVE  TimeInv' /\ FiresInOrder' /\ ChainInv'
  BY DEF ClockInv, TimeInv, FiresInOrder, ChainInv, Pending

LEMMA NextOrder ==
    TypeInv /\ ClockInv /\ [Next]_vars => TimeInv' /\ FiresInOrder' /\ ChainInv'
<1> SUFFICES ASSUME TypeInv, ClockInv, [Next]_vars
             PROVE  TimeInv' /\ FiresInOrder' /\ ChainInv'
  OBVIOUS
<1>1. ASSUME NEW g \in Advancer, Fire(g) PROVE TimeInv' /\ FiresInOrder' /\ ChainInv'
  BY <1>1, FireOrder, FireTimers, FlagsKeepChains
<1>2. ASSUME NEW g \in Advancer, MarkStopped(g) PROVE TimeInv' /\ FiresInOrder' /\ ChainInv'
  BY <1>2, StopOrder, StopTimers, FlagsKeepChains
<1>3. ASSUME NEW g \in Advancer, Chain(g) PROVE TimeInv' /\ FiresInOrder' /\ ChainInv'
  <2> DEFINE k == current[g]
             c == timers[k].chain
             u == Armed(c, NoChain, k)
  <2>1. k \in DOMAIN timers /\ c \in Delay /\ Extended(timers, timers', u) /\ k \in Nat
    BY <1>3, ChainTimers, ClockTypes
  <2>2. pc[g] = "chain" /\ now' = now
    BY <1>3 DEF Chain
  <2>3. timers[k].fired /\ timers[k].deadline = now
    BY <2>2 DEF ClockInv, AdvanceInv
  <2> HIDE DEF k, c
  <2>4. u.cause = k /\ u.deadline = now + c
    BY DEF Armed
  <2>5. TimeInv' /\ FiresInOrder'
    BY <2>1, <2>2, ArmOrder
  <2> HIDE DEF u
  <2>6. ChainInv'
    BY <2>1, <2>3, <2>4, ArmKeepsChains DEF c
  <2> QED
    BY <2>5, <2>6
<1>4. ASSUME NEW h \in Handler, Schedule(h) PROVE TimeInv' /\ FiresInOrder' /\ ChainInv'
  <2>1. PICK d \in Delay, c \in Delay \cup {NoChain} : Extended(timers, timers', Armed(d, c, 0))
    BY <1>4, ScheduleTimers
  <2>2. Armed(d, c, 0).cause = 0
    BY DEF Armed
  <2>3. now' = now
    BY <1>4 DEF Schedule
  <2>4. TimeInv' /\ FiresInOrder'
    BY <2>1, <2>3, ArmOrder
  <2>5. ChainInv'
    BY <2>1, <2>2, ArmKeepsChains
  <2> QED
    BY <2>4, <2>5
<1>5. ASSUME NEW g \in Advancer, Return(g) PROVE TimeInv' /\ FiresInOrder' /\ ChainInv'
  <2>1. timers' = timers /\ now' = target[g] /\ now <= target[g]
        /\ \A i \in DOMAIN timers : Pending(i) => ~(timers[i].deadline <= target[g])
    BY <1>5 DEF Return, Due, ClockInv, AdvanceInv
  <2>2. TimeInv'
    <3>1. now \in Nat /\ target[g] \in Nat /\ \A i \in DOMAIN timers : timers[i].deadline \in Nat
      BY ClockTypes
    <3>2. ASSUME NEW i \in DOMAIN timers
          PROVE  /\ Pending(i) => target[g] <= timers[i].deadline
                 /\ timers[i].fired => timers[i].deadline <= target[g]
      BY <2>1, <3>1 DEF ClockInv, TimeInv
    <3> QED
      BY <2>1, <3>2 DEF TimeInv, Pending
  <2>3. FiresInOrder' /\ ChainInv'
    BY <2>1 DEF ClockInv, FiresInOrder, ChainInv, Pending
  <2> QED
    BY <2>2, <2>3
<1>6. ASSUME NEW g \in Advancer, Advance(g) \/ EnterStore(g) \/ LeaveStore(g) \/ Relock(g)
                                 \/ LookAtTimer(g)
      PROVE  UNCHANGED <<now, timers>>
  BY <1>6 DEF Advance, EnterStore, LeaveStore, Relock, LookAtTimer, clockVars
<1>7. ASSUME NEW h \in Handler, BeginTouch(h) \/ Touch(h) PROVE UNCHANGED <<now, timers>>
  BY <1>7 DEF BeginTouch, Touch, clockVars
<1>8. ASSUME UNCHANGED vars PROVE UNCHANGED <<now, timers>>
  BY <1>8 DEF vars, clockVars
<1> QED
  BY <1>1, <1>2, <1>3, <1>4, <1>5, <1>6, <1>7, <1>8, NothingArmed
  DEF Next, Call, InAdvance, InTouch

\* AdvanceInv of one goroutine after a step.
AdvanceAfter(q) ==
    /\ pc'[q] \in {"look", "call", "update", "chain", "relock"} => now' <= target'[q]
    /\ pc'[q] \in {"call", "update", "chain"} =>
          timers'[current'[q]].fired /\ timers'[current'[q]].deadline = now'
    /\ pc'[q] = "mark" => ~timers'[current'[q]].fired /\ ~timers'[current'[q]].stopped

LEMMA ExtendedKeepsCurrent ==
    ASSUME TypeInv, ClockInv, NEW u, Extended(timers, timers', u), NEW q \in Advancer,
           pc[q] \in {"call", "update", "chain", "mark"}
    PROVE  timers'[current[q]] = timers[current[q]]
  BY DEF TypeInv, Places, Extended

LEMMA NextAdvanceInv ==
    ASSUME OneAdvancer
    PROVE  TypeInv /\ ClockInv /\ [Next]_vars => AdvanceInv'
<1> SUFFICES ASSUME TypeInv, ClockInv, [Next]_vars, NEW q \in Advancer
             PROVE  AdvanceAfter(q)
  BY DEF AdvanceInv, AdvanceAfter, Pending
<1>t. /\ q \in Goroutine /\ pc \in [Goroutine -> {"idle", "look", "call", "update", "chain",
                                       "relock", "mark", "touch", "schedule", "done"}]
      /\ target \in [Advancer -> Nat] /\ now \in Nat
      /\ current \in [Advancer -> 0 .. Len(timers)]
      /\ \A h \in Handler : h # q
  BY FakeClockAssumption DEF TypeInv, FakeClockTypeOK, Goroutine
<1>a. /\ pc[q] \in {"look", "call", "update", "chain", "relock"} => now <= target[q]
      /\ pc[q] \in {"call", "update", "chain"} =>
            timers[current[q]].fired /\ timers[current[q]].deadline = now
      /\ pc[q] = "mark" => ~timers[current[q]].fired /\ ~timers[current[q]].stopped
  BY DEF ClockInv, AdvanceInv, Pending
<1> USE DEF AdvanceAfter, Goto
<1>1. ASSUME Advance(q) PROVE AdvanceAfter(q)
  <2>1. PICK d \in Window : target' = [target EXCEPT ![q] = now + d]
    BY <1>1 DEF Advance
  <2>2. d \in Nat /\ target'[q] = now + d /\ now' = now /\ pc'[q] = "look"
    BY <1>1, <1>t, <2>1, FakeClockAssumption DEF Advance, clockVars
  <2> QED
    BY <1>t, <2>2
<1>2. ASSUME Fire(q) PROVE AdvanceAfter(q)
  <2> DEFINE i == NextDue(Due(q))
  <2>1. /\ i \in DOMAIN timers /\ timers[i].deadline <= target[q]
        /\ Flagged(timers, timers', i, TRUE, timers[i].stopped)
    BY <1>2, FireTimers DEF Due
  <2>2. /\ pc' = [pc EXCEPT ![q] = "call"] /\ now' = timers[i].deadline
        /\ current' = [current EXCEPT ![q] = i] /\ target' = target
    BY <1>2, FireFrame
  <2> HIDE DEF i
  <2>3. pc'[q] = "call" /\ current'[q] = i
    BY <1>t, <2>2
  <2>4. timers'[i].fired /\ timers'[i].deadline = timers[i].deadline
    BY <2>1 DEF Flagged
  <2> QED
    BY <2>1, <2>2, <2>3, <2>4
<1>3. ASSUME EnterStore(q) \/ Relock(q) PROVE AdvanceAfter(q)
  BY <1>3, <1>t, <1>a DEF EnterStore, Relock, clockVars
<1>4. ASSUME LeaveStore(q) PROVE AdvanceAfter(q)
  BY <1>4, <1>t, <1>a DEF LeaveStore, clockVars
<1>5. ASSUME Chain(q) PROVE AdvanceAfter(q)
  BY <1>5, <1>t, <1>a DEF Chain
<1>6. ASSUME Return(q) PROVE AdvanceAfter(q)
  BY <1>6, <1>t DEF Return
<1>7. ASSUME LookAtTimer(q) PROVE AdvanceAfter(q)
  <2>1. PICK i \in DOMAIN timers : Pending(i) /\ current' = [current EXCEPT ![q] = i]
    BY <1>7 DEF LookAtTimer
  <2>2. pc'[q] = "mark" /\ timers' = timers /\ current'[q] = i
    BY <1>7, <1>t, <2>1 DEF LookAtTimer, clockVars
  <2> QED
    BY <2>1, <2>2 DEF Pending
<1>8. ASSUME MarkStopped(q) PROVE AdvanceAfter(q)
  <2>1. pc'[q] = "idle"
    BY <1>8, <1>t DEF MarkStopped
  <2> QED
    BY <2>1
<1>9. ASSUME NEW h \in Handler, BeginTouch(h) \/ Touch(h) PROVE AdvanceAfter(q)
  BY <1>9, <1>t, <1>a DEF BeginTouch, Touch, clockVars
<1>10. ASSUME NEW h \in Handler, Schedule(h) PROVE AdvanceAfter(q)
  <2>1. PICK u : Extended(timers, timers', u)
    BY <1>10, ScheduleTimers
  <2>2. pc'[q] = pc[q] /\ now' = now /\ target' = target /\ current' = current
    BY <1>10, <1>t DEF Schedule
  <2>3. pc[q] \in {"call", "update", "chain", "mark"} => timers'[current[q]] = timers[current[q]]
    BY <2>1, ExtendedKeepsCurrent
  <2> QED
    BY <1>a, <2>2, <2>3
<1>11. ASSUME UNCHANGED vars PROVE AdvanceAfter(q)
  BY <1>11, <1>a DEF vars, clockVars
<1>12. \A g \in Advancer : g = q
  BY DEF OneAdvancer
<1> QED
  BY <1>1, <1>2, <1>3, <1>4, <1>5, <1>6, <1>7, <1>8, <1>9, <1>10, <1>11, <1>12
  DEF Next, Call, InAdvance, InTouch

LEMMA ClockInvHolds ==
    ASSUME OneAdvancer
    PROVE  Spec => [](TypeInv /\ ClockInv)
<1>1. Init => ClockInv
  BY DEF Init, ClockInv, TimeInv, AdvanceInv, FiresInOrder, ChainInv, Goroutine
<1>2. TypeInv /\ ClockInv /\ [Next]_vars => ClockInv'
  BY NextOrder, NextAdvanceInv DEF ClockInv
<1> QED
  BY TypeInvHolds, <1>1, <1>2, PTL DEF Spec

\* When one goroutine advances the clock, callbacks run in the order of their
\* deadlines and, at one deadline, of arming.
THEOREM CallbacksRunInOrder ==
    ASSUME OneAdvancer
    PROVE  Spec => []FiresInOrder
<1>1. ClockInv => FiresInOrder
  BY DEF ClockInv
<1> QED
  BY ClockInvHolds, <1>1, PTL

\* When one goroutine advances the clock, a timer that a callback armed is due
\* its delay after that callback's timer was, however far one Advance goes.
THEOREM ChainedTimersKeepPace ==
    ASSUME OneAdvancer
    PROVE  Spec => []ChainsKeepPace
<1>1. ClockInv => ChainsKeepPace
  BY DEF ClockInv, ChainInv, ChainsKeepPace
<1> QED
  BY ClockInvHolds, <1>1, PTL

\* When one goroutine advances the clock it does not go back, although Fire and
\* Return set it outright.
THEOREM ClockGoesForward ==
    ASSUME OneAdvancer
    PROVE  Spec => [][now <= now']_vars
<1>1. ASSUME TypeInv, ClockInv, [Next]_vars PROVE now <= now'
  <2>1. ASSUME NEW g \in Advancer, Fire(g) PROVE now <= now'
    <3>1. PICK i \in DOMAIN timers : i = NextDue(Due(g)) /\ i \in Due(g)
      BY <1>1, <2>1, FireTimers
    <3>2. Pending(i)
      BY <3>1 DEF Due
    <3>3. now' = timers[i].deadline
      BY <2>1, <3>1, FireFrame
    <3> QED
      BY <1>1, <3>1, <3>2, <3>3 DEF ClockInv, TimeInv
  <2>2. ASSUME NEW g \in Advancer, Return(g) PROVE now <= now'
    BY <1>1, <2>2 DEF Return, ClockInv, AdvanceInv
  <2>3. ASSUME now' = now PROVE now <= now'
    BY <1>1, <2>3, ClockTypes
  <2>4. ASSUME NEW g \in Advancer, \/ Advance(g) \/ EnterStore(g) \/ LeaveStore(g) \/ Chain(g)
                                   \/ Relock(g) \/ LookAtTimer(g) \/ MarkStopped(g)
        PROVE  now' = now
    BY <2>4 DEF Advance, EnterStore, LeaveStore, Chain, Relock, LookAtTimer, MarkStopped,
                clockVars
  <2>5. ASSUME NEW h \in Handler, BeginTouch(h) \/ InTouch(h) PROVE now' = now
    BY <2>5 DEF BeginTouch, InTouch, Touch, Schedule, clockVars
  <2>6. ASSUME UNCHANGED vars PROVE now' = now
    BY <2>6 DEF vars, clockVars
  <2> QED
    BY <1>1, <2>1, <2>2, <2>3, <2>4, <2>5, <2>6 DEF Next, Call, InAdvance
<1>2. TypeInv /\ ClockInv /\ [Next]_vars => [now <= now']_vars
  BY <1>1
<1> QED
  BY ClockInvHolds, <1>2, PTL DEF Spec

---------------------------------------------------------------------------
(* FakeClock implements AbstractTimers, when one goroutine advances it. *)

\* What AbstractTimers has of one timer, and of all of them.
StateOf(t) == IF t.stopped THEN "cancelled" ELSE IF t.fired THEN "fired" ELSE "armed"

Shown(v) == [i \in DOMAIN v |-> [deadline |-> v[i].deadline,
                                 state |-> IF v[i].stopped THEN "cancelled"
                                           ELSE IF v[i].fired THEN "fired" ELSE "armed"]]

Row == [deadline : Nat, state : {"armed", "fired", "cancelled"}]

LEMMA ShownRows ==
    ASSUME NEW v \in Seq(FakeTimer)
    PROVE  /\ Shown(v) \in Seq(Row) /\ DOMAIN Shown(v) = DOMAIN v /\ Len(Shown(v)) = Len(v)
           /\ \A i \in DOMAIN v :
                 /\ Shown(v)[i] = [deadline |-> v[i].deadline, state |-> StateOf(v[i])]
                 /\ Shown(v)[i].deadline = v[i].deadline
                 /\ Shown(v)[i].state = StateOf(v[i])
                 /\ Shown(v)[i].state = "armed" <=> ~v[i].fired /\ ~v[i].stopped
<1>1. ASSUME NEW i \in DOMAIN v
      PROVE  /\ Shown(v)[i] = [deadline |-> v[i].deadline, state |-> StateOf(v[i])]
             /\ Shown(v)[i] \in Row
             /\ Shown(v)[i].deadline = v[i].deadline
             /\ Shown(v)[i].state = StateOf(v[i])
             /\ Shown(v)[i].state = "armed" <=> ~v[i].fired /\ ~v[i].stopped
  <2>1. v[i] \in FakeTimer
    OBVIOUS
  <2>2. v[i].deadline \in Nat /\ StateOf(v[i]) \in {"armed", "fired", "cancelled"}
    BY <2>1, TimerFields DEF StateOf
  <2>3. Shown(v)[i] = [deadline |-> v[i].deadline, state |-> StateOf(v[i])]
    BY DEF Shown, StateOf
  <2>4. StateOf(v[i]) = "armed" <=> ~v[i].fired /\ ~v[i].stopped
    BY DEF StateOf
  <2> QED
    BY <2>2, <2>3, <2>4 DEF Row
<1>2. DOMAIN Shown(v) = DOMAIN v
  BY DEF Shown
<1>3. Shown(v) \in [1 .. Len(v) -> Row]
  <2>1. Shown(v) = [i \in 1 .. Len(v) |-> Shown(v)[i]]
    BY DEF Shown
  <2>2. DOMAIN v = 1 .. Len(v)
    OBVIOUS
  <2> QED
    BY <1>1, <2>1, <2>2
<1>4. Shown(v) \in Seq(Row) /\ Len(Shown(v)) = Len(v)
  BY <1>3
<1> QED
  BY <1>1, <1>2, <1>4

\* A flag that is set shows in one row.
LEMMA ShownFlagged ==
    ASSUME NEW v \in Seq(FakeTimer), NEW w, NEW i \in DOMAIN v, NEW f, NEW b,
           Flagged(v, w, i, f, b),
           NEW s, s = StateOf(w[i])
    PROVE  Shown(w) = [Shown(v) EXCEPT ![i].state = s]
<1>1. /\ w \in Seq(FakeTimer) /\ DOMAIN w = DOMAIN v /\ w[i].fired = f /\ w[i].stopped = b
      /\ \A j \in DOMAIN v : w[j].deadline = v[j].deadline
      /\ \A j \in DOMAIN v : j # i => w[j].fired = v[j].fired /\ w[j].stopped = v[j].stopped
  BY DEF Flagged
<1> DEFINE new == [deadline |-> v[i].deadline, state |-> s]
           x == [Shown(v) EXCEPT ![i].state = s]
<1>2. DOMAIN Shown(v) = DOMAIN v /\ DOMAIN Shown(w) = DOMAIN v
  BY <1>1, ShownRows
<1>3. Shown(v)[i] = [deadline |-> v[i].deadline, state |-> StateOf(v[i])]
  BY ShownRows
<1>4. [Shown(v)[i] EXCEPT !.state = s] = new
  BY <1>3
<1>5. x = [j \in DOMAIN v |-> IF j = i THEN [Shown(v)[i] EXCEPT !.state = s] ELSE Shown(v)[j]]
  BY <1>2
<1> HIDE DEF new, x
<1>6. x = [j \in DOMAIN v |-> IF j = i THEN new ELSE Shown(v)[j]]
  BY <1>4, <1>5
<1>7. Shown(w)[i] = new
  BY <1>1, ShownRows DEF StateOf, new
<1>8. ASSUME NEW j \in DOMAIN v, j # i PROVE Shown(w)[j] = Shown(v)[j]
  <2>1. StateOf(w[j]) = StateOf(v[j]) /\ w[j].deadline = v[j].deadline
    BY <1>1, <1>8 DEF StateOf
  <2>2. Shown(w)[j] = [deadline |-> w[j].deadline, state |-> StateOf(w[j])]
    BY <1>1, ShownRows
  <2>3. Shown(v)[j] = [deadline |-> v[j].deadline, state |-> StateOf(v[j])]
    BY ShownRows
  <2> QED
    BY <2>1, <2>2, <2>3
<1>9. Shown(w) = [j \in DOMAIN v |-> Shown(w)[j]]
  BY <1>1 DEF Shown
<1>10. Shown(w) = x
  BY <1>6, <1>7, <1>8, <1>9
<1> QED
  BY <1>10 DEF x

\* A timer that is armed shows as one row more.
LEMMA ShownExtended ==
    ASSUME NEW v \in Seq(FakeTimer), NEW w, NEW u \in FakeTimer, Extended(v, w, u),
           ~u.fired, ~u.stopped
    PROVE  Shown(w) = Append(Shown(v), [deadline |-> u.deadline, state |-> "armed"])
<1> DEFINE n == Len(v) + 1
           row == [deadline |-> u.deadline, state |-> "armed"]
           x == Append(Shown(v), row)
<1>1. /\ w \in Seq(FakeTimer) /\ Len(w) = n /\ w[n] = u /\ n \in DOMAIN w
      /\ DOMAIN w = 1 .. n /\ DOMAIN v = 1 .. Len(v) /\ Len(v) \in Nat
      /\ \A j \in DOMAIN v : w[j] = v[j] /\ j \in DOMAIN w
  BY DEF Extended
<1>2. row \in Row
  BY TimerFields DEF Row
<1>3. Shown(v) \in Seq(Row) /\ Len(Shown(v)) = Len(v)
  BY ShownRows
<1> HIDE DEF row
<1>4. /\ DOMAIN x = 1 .. n /\ x[n] = row
      /\ \A j \in DOMAIN v : x[j] = Shown(v)[j]
      /\ x = [j \in 1 .. n |-> x[j]]
  <2>1. x \in Seq(Row) /\ Len(x) = n
    BY <1>2, <1>3
  <2>2. DOMAIN x = 1 .. n /\ x[n] = row /\ \A j \in DOMAIN v : x[j] = Shown(v)[j]
    BY <1>1, <1>2, <1>3, <2>1
  <2>3. x = [j \in 1 .. n |-> x[j]]
    <3> HIDE DEF x, n
    <3>1. x \in [1 .. n -> Row]
      BY <2>1
    <3> QED
      BY <3>1
  <2> QED
    BY <2>2, <2>3
<1> HIDE DEF x
<1>5. Shown(w)[n] = row
  BY <1>1, ShownRows DEF StateOf, row
<1>6. ASSUME NEW j \in DOMAIN v PROVE Shown(w)[j] = Shown(v)[j]
  <2>1. w[j] = v[j] /\ j \in DOMAIN w
    BY <1>1, <1>6
  <2>2. Shown(v)[j] = [deadline |-> v[j].deadline, state |-> StateOf(v[j])]
    BY <1>6 DEF Shown, StateOf
  <2>3. Shown(w)[j] = [deadline |-> w[j].deadline, state |-> StateOf(w[j])]
    BY <2>1 DEF Shown, StateOf
  <2> QED
    BY <2>1, <2>2, <2>3
<1>7. Shown(w) = [j \in 1 .. n |-> Shown(w)[j]]
  BY <1>1 DEF Shown
<1>8. \A j \in 1 .. n : Shown(w)[j] = x[j]
  <2> SUFFICES ASSUME NEW j \in 1 .. n PROVE Shown(w)[j] = x[j]
    OBVIOUS
  <2>1. CASE j = n
    BY <1>4, <1>5, <2>1
  <2>2. CASE j # n
    <3>1. j \in DOMAIN v
      BY <1>1, <2>2
    <3> QED
      BY <1>4, <1>6, <3>1
  <2> QED
    BY <2>1, <2>2
<1> HIDE DEF n
<1>9. Shown(w) = x
  BY <1>4, <1>7, <1>8
<1> QED
  BY <1>9 DEF x, row

LEMMA FireImplements ==
    ASSUME TypeInv, ClockInv, NEW g \in Advancer, Fire(g)
    PROVE  \E i \in DOMAIN Shown(timers) : Abstract!Fire(i)
<1>n. PICK i \in DOMAIN timers : i = NextDue(Due(g))
  BY FireTimers
<1>1. /\ Pending(i) /\ timers[i].deadline <= target[g]
      /\ \A j \in Due(g) : \/ timers[i].deadline < timers[j].deadline
                           \/ timers[i].deadline = timers[j].deadline /\ i <= j
      /\ Flagged(timers, timers', i, TRUE, timers[i].stopped)
  BY <1>n, FireTimers DEF Due
<1>2. now' = timers[i].deadline
  BY <1>n, FireFrame
<1>t. /\ timers \in Seq(FakeTimer) /\ target[g] \in Nat
      /\ DOMAIN timers = 1 .. Len(timers) /\ Len(timers) \in Nat
      /\ \A j \in DOMAIN timers : timers[j].deadline \in Nat
  BY ClockTypes
<1>3. ASSUME NEW j \in DOMAIN timers, Pending(j), j # i
      PROVE  \/ timers[i].deadline < timers[j].deadline
             \/ timers[i].deadline = timers[j].deadline /\ i < j
  <2>1. CASE j \in Due(g)
    BY <1>1, <1>3, <1>t, <2>1
  <2>2. CASE j \notin Due(g)
    BY <1>1, <1>3, <1>t, <2>2 DEF Due
  <2> QED
    BY <2>1, <2>2
<1>4. Shown(timers') = [Shown(timers) EXCEPT ![i].state = "fired"]
  <2>1. StateOf(timers'[i]) = "fired"
    BY <1>1 DEF Flagged, Pending, StateOf
  <2>2. PICK f, b : Flagged(timers, timers', i, f, b)
    BY <1>1
  <2>3. PICK s : s = StateOf(timers'[i])
    OBVIOUS
  <2>4. Shown(timers') = [Shown(timers) EXCEPT ![i].state = s]
    BY <1>t, <2>2, <2>3, ShownFlagged
  <2> QED
    BY <2>1, <2>3, <2>4
<1>5. /\ DOMAIN Shown(timers) = DOMAIN timers
      /\ \A j \in DOMAIN timers : /\ Shown(timers)[j].deadline = timers[j].deadline
                                  /\ Shown(timers)[j].state = "armed" <=> Pending(j)
  BY <1>t, ShownRows DEF Pending
<1>6. /\ Shown(timers)[i].state = "armed"
      /\ now' = Shown(timers)[i].deadline
      /\ \A j \in DOMAIN Shown(timers) : (Shown(timers)[j].state = "armed" /\ j # i) =>
            \/ Shown(timers)[i].deadline < Shown(timers)[j].deadline
            \/ Shown(timers)[i].deadline = Shown(timers)[j].deadline /\ i < j
  BY <1>1, <1>2, <1>3, <1>5
<1>7. Abstract!Fire(i)
  BY <1>4, <1>6 DEF Shown, Abstract!Fire, Abstract!Armed, Abstract!Before
<1> QED
  BY <1>1, <1>5, <1>7

LEMMA StopImplements ==
    ASSUME TypeInv, ClockInv, NEW g \in Advancer, MarkStopped(g)
    PROVE  \E i \in DOMAIN Shown(timers) : Abstract!Cancel(i)
<1>n. PICK i \in DOMAIN timers : i = current[g]
  BY StopTimers
<1>1. /\ Pending(i) /\ now' = now
      /\ Flagged(timers, timers', i, timers[i].fired, TRUE)
  BY <1>n, StopTimers DEF MarkStopped, ClockInv, AdvanceInv
<1>2. timers \in Seq(FakeTimer)
  BY ClockTypes
<1>3. Shown(timers') = [Shown(timers) EXCEPT ![i].state = "cancelled"]
  <2>1. StateOf(timers'[i]) = "cancelled"
    BY <1>1 DEF Flagged, StateOf
  <2>2. PICK f, b : Flagged(timers, timers', i, f, b)
    BY <1>1
  <2>3. PICK s : s = StateOf(timers'[i])
    OBVIOUS
  <2>4. Shown(timers') = [Shown(timers) EXCEPT ![i].state = s]
    BY <1>2, <2>2, <2>3, ShownFlagged
  <2> QED
    BY <2>1, <2>3, <2>4
<1>4. DOMAIN Shown(timers) = DOMAIN timers /\ Shown(timers)[i].state = "armed"
  BY <1>1, <1>2, ShownRows DEF Pending
<1>5. Abstract!Cancel(i)
  BY <1>1, <1>3, <1>4 DEF Shown, Abstract!Cancel, Abstract!Armed
<1> QED
  BY <1>1, <1>4, <1>5

LEMMA ArmImplements ==
    ASSUME TypeInv, NEW d \in Delay, NEW c \in Delay \cup {NoChain}, NEW k \in Nat,
           Extended(timers, timers', Armed(d, c, k)), now' = now
    PROVE  Abstract!Arm(d)
<1> DEFINE u == Armed(d, c, k)
<1>1. u \in FakeTimer /\ u.deadline = now + d /\ ~u.fired /\ ~u.stopped
  BY ArmedFields
<1> HIDE DEF u
<1>2. timers \in Seq(FakeTimer)
  BY ClockTypes
<1>3. Shown(timers') = Append(Shown(timers), [deadline |-> u.deadline, state |-> "armed"])
  BY <1>1, <1>2, ShownExtended DEF u
<1> QED
  BY <1>1, <1>3 DEF Shown, Abstract!Arm

LEMMA ReturnImplements ==
    ASSUME TypeInv, ClockInv, NEW g \in Advancer, Return(g)
    PROVE  Abstract!Pass \/ UNCHANGED <<now, Shown(timers)>>
<1>1. timers' = timers /\ now' = target[g] /\ now <= target[g]
      /\ \A i \in DOMAIN timers : Pending(i) => ~(timers[i].deadline <= target[g])
  BY DEF Return, Due, ClockInv, AdvanceInv
<1>2. /\ now \in Nat /\ target[g] \in Nat /\ timers \in Seq(FakeTimer)
      /\ \A i \in DOMAIN timers : timers[i].deadline \in Nat
  BY ClockTypes
<1>3. /\ DOMAIN Shown(timers) = DOMAIN timers
      /\ \A j \in DOMAIN timers : /\ Shown(timers)[j].deadline = timers[j].deadline
                                  /\ Shown(timers)[j].state = "armed" <=> Pending(j)
  BY <1>2, ShownRows DEF Pending
<1>4. Shown(timers') = Shown(timers)
  BY <1>1
<1>5. CASE now' = now
  BY <1>4, <1>5
<1>6. CASE now' > now
  <2>1. \A i \in DOMAIN Shown(timers) :
           Shown(timers)[i].state = "armed" => Shown(timers)[i].deadline > now'
    BY <1>1, <1>2, <1>3
  <2> QED
    BY <1>4, <1>6, <2>1 DEF Shown, Abstract!Pass, Abstract!Armed
<1> QED
  BY <1>1, <1>2, <1>5, <1>6

\* When one goroutine advances the clock, the fake clock is a clock with
\* timers: none fires twice, early, late or after it was stopped, and the clock
\* does not go back.
THEOREM FakeClockImplementsTimers ==
    ASSUME OneAdvancer
    PROVE  Spec => ImplementsTimers
<1>1. Init => Abstract!TimersInit
  <2> SUFFICES ASSUME Init PROVE Shown(timers) = <<>> /\ now = 0
    BY DEF Shown, Abstract!TimersInit
  <2>1. timers \in Seq(FakeTimer) /\ Len(timers) = 0 /\ now = 0
    BY DEF Init
  <2>2. Shown(timers) \in Seq(Row) /\ Len(Shown(timers)) = 0
    BY <2>1, ShownRows
  <2> QED
    BY <2>1, <2>2
<1>2. TypeInv /\ ClockInv /\ [Next]_vars => [Abstract!TimersNext]_(Abstract!timerVars)
  <2> SUFFICES ASSUME TypeInv, ClockInv, [Next]_vars
               PROVE  \/ \E i \in DOMAIN Shown(timers) : Abstract!Fire(i) \/ Abstract!Cancel(i)
                      \/ \E d \in Delay : Abstract!Arm(d)
                      \/ Abstract!Pass
                      \/ UNCHANGED <<now, Shown(timers)>>
    BY Zenon DEF Shown, Abstract!TimersNext, Abstract!timerVars
  <2>1. ASSUME NEW g \in Advancer, Fire(g)
        PROVE  \E i \in DOMAIN Shown(timers) : Abstract!Fire(i) \/ Abstract!Cancel(i)
    BY <2>1, FireImplements, Zenon
  <2>2. ASSUME NEW g \in Advancer, MarkStopped(g)
        PROVE  \E i \in DOMAIN Shown(timers) : Abstract!Fire(i) \/ Abstract!Cancel(i)
    BY <2>2, StopImplements, Zenon
  <2>3. ASSUME NEW g \in Advancer, Chain(g) PROVE \E d \in Delay : Abstract!Arm(d)
    <3>1. PICK c \in Delay, k \in Nat : Extended(timers, timers', Armed(c, NoChain, k))
      BY <2>3, ChainTimers, ClockTypes
    <3>2. now' = now
      BY <2>3 DEF Chain
    <3>3. Abstract!Arm(c)
      BY <3>1, <3>2, ArmImplements
    <3> QED
      BY <3>3
  <2>4. ASSUME NEW h \in Handler, Schedule(h) PROVE \E d \in Delay : Abstract!Arm(d)
    <3>1. PICK d \in Delay, c \in Delay \cup {NoChain} :
             Extended(timers, timers', Armed(d, c, 0))
      BY <2>4, ScheduleTimers
    <3>2. now' = now
      BY <2>4 DEF Schedule
    <3>3. Abstract!Arm(d)
      BY <3>1, <3>2, ArmImplements
    <3> QED
      BY <3>3
  <2>5. ASSUME NEW g \in Advancer, Return(g)
        PROVE  Abstract!Pass \/ UNCHANGED <<now, Shown(timers)>>
    BY <2>5, ReturnImplements
  <2>6. ASSUME UNCHANGED <<now, timers>> PROVE UNCHANGED <<now, Shown(timers)>>
    BY <2>6
  <2>7. ASSUME NEW g \in Advancer, Advance(g) \/ EnterStore(g) \/ LeaveStore(g) \/ Relock(g)
                                   \/ LookAtTimer(g)
        PROVE  UNCHANGED <<now, timers>>
    BY <2>7 DEF Advance, EnterStore, LeaveStore, Relock, LookAtTimer, clockVars
  <2>8. ASSUME NEW h \in Handler, BeginTouch(h) \/ Touch(h) PROVE UNCHANGED <<now, timers>>
    BY <2>8 DEF BeginTouch, Touch, clockVars
  <2>9. ASSUME UNCHANGED vars PROVE UNCHANGED <<now, timers>>
    BY <2>9 DEF vars, clockVars
  <2> QED
    BY <2>1, <2>2, <2>3, <2>4, <2>5, <2>6, <2>7, <2>8, <2>9, Zenon
    DEF Next, Call, InAdvance, InTouch
<1> QED
  BY ClockInvHolds, <1>1, <1>2, PTL DEF Spec, ImplementsTimers, Abstract!TimersSpec

=============================================================================
