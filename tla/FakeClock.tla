------------------------------ MODULE FakeClock ------------------------------
(***************************************************************************)
(* The fake clock of the tests (internal/clock/clock.go, Fake) between the *)
(* goroutine that advances it and the handlers and callbacks that use it.  *)
(* Two mutexes are involved: the clock's own, mu, which Advance holds      *)
(* except while a callback runs, and the store's, which a handler holds    *)
(* while it reads the clock (touch, server.go:813) and a callback takes    *)
(* for its update (set, machine.go:151).                                   *)
(*                                                                         *)
(* A goroutine advances the clock or stops a timer, one at a time; the     *)
(* tests have one such goroutine.  Handlers arm timers when they like.     *)
(***************************************************************************)
EXTENDS Integers, Sequences, FiniteSets

CONSTANTS
    Advancer,   \* goroutines that call Advance and Stop
    Handler,    \* goroutines that touch a machine and arm one timer
    Window,     \* what Advance is called with
    Delay,      \* the delays of timers
    NoChain,    \* a callback that arms no timer
    Free,       \* nobody holds the mutex
    MaxTime     \* the bound of the clock in a run

ASSUME FakeClockAssumption ==
    /\ Advancer \cap Handler = {}
    /\ Free \notin Advancer \cup Handler
    /\ Window \subseteq Nat \ {0}
    /\ Delay \subseteq Nat
    /\ NoChain \notin Delay
    /\ MaxTime \in Nat

VARIABLES
    now,       \* Fake.now
    timers,    \* Fake.timers, in the order in which they were armed
    mu,        \* who holds Fake.mu
    storeMu,   \* who holds Store.mu
    pc,        \* what each goroutine does next
    target,    \* Advance: the time it advances to
    current    \* Advance: the timer whose callback runs; Stop: the timer

clockVars == <<now, timers>>
vars == <<clockVars, mu, storeMu, pc, target, current>>

Goroutine == Advancer \cup Handler

\* chain: the delay of the timer its callback arms, if any (Advancer.Create).
\* cause: the timer whose callback armed this one, or 0.
FakeTimer == [deadline : Nat, chain : Delay \cup {NoChain}, cause : Nat,
              fired : BOOLEAN, stopped : BOOLEAN]

Pending(i) == ~timers[i].fired /\ ~timers[i].stopped

Due(g) == {i \in DOMAIN timers : Pending(i) /\ timers[i].deadline <= target[g]}

\* The timer the loop of Advance settles on: of those with the earliest
\* deadline the one armed first.  Faulty form first: the one armed last.
NextArmedLast(S) ==
    CHOOSE i \in S : \A j \in S :
        \/ timers[i].deadline < timers[j].deadline
        \/ timers[i].deadline = timers[j].deadline /\ i >= j
NextDue(S) ==
    CHOOSE i \in S : \A j \in S :
        \/ timers[i].deadline < timers[j].deadline
        \/ timers[i].deadline = timers[j].deadline /\ i <= j

Init ==
    /\ now = 0
    /\ timers = <<>>
    /\ mu = Free
    /\ storeMu = Free
    /\ pc = [g \in Goroutine |-> "idle"]
    /\ target = [g \in Advancer |-> 0]
    /\ current = [g \in Advancer |-> 0]

Goto(g, label) == pc' = [pc EXCEPT ![g] = label]

\* A critical section of Fake.mu in which nothing can block.
LockedBriefly == mu = Free /\ UNCHANGED mu

AfterFunc(delay, chain, cause) ==
    timers' = Append(timers, [deadline |-> now + delay, chain |-> chain, cause |-> cause,
                              fired |-> FALSE, stopped |-> FALSE])

---------------------------------------------------------------------------
(* Advance. *)

Advance(g) ==
    /\ pc[g] = "idle"
    /\ mu = Free
    /\ \E d \in Window : now + d <= MaxTime /\ target' = [target EXCEPT ![g] = now + d]
    /\ mu' = g
    /\ Goto(g, "look")
    /\ UNCHANGED <<clockVars, storeMu, current>>

\* The next due timer is marked, the clock set to its deadline, and the mutex
\* released for the callback.  Faulty forms first: the clock is set to the end
\* of the window; the mutex is kept.
FireAtTarget(g) ==
    LET i == NextDue(Due(g)) IN
    /\ pc[g] = "look" /\ Due(g) # {}
    /\ timers' = [timers EXCEPT ![i].fired = TRUE]
    /\ now' = target[g]
    /\ current' = [current EXCEPT ![g] = i]
    /\ mu' = Free
    /\ Goto(g, "call")
    /\ UNCHANGED <<storeMu, target>>
FireLocked(g) ==
    LET i == NextDue(Due(g)) IN
    /\ pc[g] = "look" /\ Due(g) # {}
    /\ timers' = [timers EXCEPT ![i].fired = TRUE]
    /\ now' = timers[i].deadline
    /\ current' = [current EXCEPT ![g] = i]
    /\ Goto(g, "call")
    /\ UNCHANGED <<mu, storeMu, target>>
Fire(g) ==
    LET i == NextDue(Due(g)) IN
    /\ pc[g] = "look" /\ Due(g) # {}
    /\ timers' = [timers EXCEPT ![i].fired = TRUE]
    /\ now' = timers[i].deadline
    /\ current' = [current EXCEPT ![g] = i]
    /\ mu' = Free
    /\ Goto(g, "call")
    /\ UNCHANGED <<storeMu, target>>

\* The callback updates a machine under the store's mutex ...
EnterStore(g) ==
    /\ pc[g] = "call"
    /\ storeMu = Free
    /\ storeMu' = g
    /\ Goto(g, "update")
    /\ UNCHANGED <<clockVars, mu, target, current>>

LeaveStore(g) ==
    /\ pc[g] = "update"
    /\ storeMu' = Free
    /\ Goto(g, IF timers[current[g]].chain = NoChain THEN "relock" ELSE "chain")
    /\ UNCHANGED <<clockVars, mu, target, current>>

\* ... and may arm the next timer.
Chain(g) ==
    /\ pc[g] = "chain"
    /\ LockedBriefly
    /\ AfterFunc(timers[current[g]].chain, NoChain, current[g])
    /\ Goto(g, "relock")
    /\ UNCHANGED <<now, storeMu, target, current>>

\* Faulty form first: Advance is done after one callback.
RelockAndLeave(g) ==
    /\ pc[g] = "relock"
    /\ LockedBriefly
    /\ now' = target[g]
    /\ Goto(g, "idle")
    /\ UNCHANGED <<timers, storeMu, target, current>>
Relock(g) ==
    /\ pc[g] = "relock"
    /\ mu = Free
    /\ mu' = g
    /\ Goto(g, "look")
    /\ UNCHANGED <<clockVars, storeMu, target, current>>

Return(g) ==
    /\ pc[g] = "look" /\ Due(g) = {}
    /\ now' = target[g]
    /\ mu' = Free
    /\ Goto(g, "idle")
    /\ UNCHANGED <<timers, storeMu, target, current>>

---------------------------------------------------------------------------
(* Stop, which takes no mutex: it looks, and then it marks. *)

\* Faulty form first: a timer that fired is stopped as well.
LookAtAnyTimer(g) ==
    /\ pc[g] = "idle"
    /\ \E i \in DOMAIN timers : current' = [current EXCEPT ![g] = i]
    /\ Goto(g, "mark")
    /\ UNCHANGED <<clockVars, mu, storeMu, target>>
LookAtTimer(g) ==
    /\ pc[g] = "idle"
    /\ \E i \in DOMAIN timers : Pending(i) /\ current' = [current EXCEPT ![g] = i]
    /\ Goto(g, "mark")
    /\ UNCHANGED <<clockVars, mu, storeMu, target>>

MarkStopped(g) ==
    /\ pc[g] = "mark"
    /\ timers' = [timers EXCEPT ![current[g]].stopped = TRUE]
    /\ Goto(g, "idle")
    /\ UNCHANGED <<now, mu, storeMu, target, current>>

---------------------------------------------------------------------------
(* A handler: touch reads the clock under the store's mutex, and a timer is *)
(* armed when it is done.                                                   *)

BeginTouch(h) ==
    /\ pc[h] = "idle"
    /\ storeMu = Free
    /\ storeMu' = h
    /\ Goto(h, "touch")
    /\ UNCHANGED <<clockVars, mu, target, current>>

Touch(h) ==
    /\ pc[h] = "touch"
    /\ LockedBriefly
    /\ storeMu' = Free
    /\ Goto(h, "schedule")
    /\ UNCHANGED <<clockVars, target, current>>

Schedule(h) ==
    /\ pc[h] = "schedule"
    /\ LockedBriefly
    /\ \E d \in Delay, c \in Delay \cup {NoChain} : AfterFunc(d, c, 0)
    /\ Goto(h, "done")
    /\ UNCHANGED <<now, storeMu, target, current>>

---------------------------------------------------------------------------
InAdvance(g) ==
    Fire(g) \/ EnterStore(g) \/ LeaveStore(g) \/ Chain(g) \/ Relock(g) \/ Return(g)

Call(g) == Advance(g) \/ LookAtTimer(g)

InTouch(h) == Touch(h) \/ Schedule(h)

Next ==
    \/ \E g \in Advancer : Call(g) \/ InAdvance(g) \/ MarkStopped(g)
    \/ \E h \in Handler : BeginTouch(h) \/ InTouch(h)

Spec == Init /\ [][Next]_vars

\* Goroutines are scheduled once they are under way; nobody need begin.
FairSpec ==
    /\ Spec
    /\ \A g \in Advancer : WF_vars(InAdvance(g) \/ MarkStopped(g))
    /\ \A h \in Handler : WF_vars(InTouch(h))

---------------------------------------------------------------------------
(* Properties. *)

\* Every variable has its type, and a mutex is held by whoever is in the code
\* it protects.
FakeClockTypeOK ==
    /\ now \in Nat
    /\ timers \in Seq(FakeTimer)
    /\ mu \in Goroutine \cup {Free}
    /\ storeMu \in Goroutine \cup {Free}
    /\ pc \in [Goroutine -> {"idle", "look", "call", "update", "chain", "relock", "mark",
                             "touch", "schedule", "done"}]
    /\ target \in [Advancer -> Nat]
    /\ current \in [Advancer -> 0 .. Len(timers)]
    /\ \A g \in Goroutine : mu = g <=> pc[g] = "look"
    /\ \A g \in Goroutine : storeMu = g <=> pc[g] \in {"update", "touch"}

\* Callbacks run in deadline order, those of one deadline in the order of
\* arming: nothing pending should have run before one that ran, although
\* callbacks and handlers arm timers while an Advance is under way
\* (clock.go:99-107).
FiresInOrder ==
    \A i, j \in DOMAIN timers :
        (timers[i].fired /\ Pending(j)) =>
            \/ timers[i].deadline < timers[j].deadline
            \/ timers[i].deadline = timers[j].deadline /\ i < j

\* A chain of timers keeps its pace however far one Advance goes: a timer that
\* a callback armed is due its delay after the timer of that callback was
\* (clock.go:111-116; machine.go:63-68 boots a machine by such a chain).
ChainsKeepPace ==
    \A i \in DOMAIN timers : timers[i].cause # 0 =>
        LET c == timers[timers[i].cause] IN
        c.fired /\ timers[i].deadline = c.deadline + c.chain

\* The fake clock is a clock with timers: no timer fires twice, early, late or
\* after it was stopped, and the clock does not go back.
Abstract ==
    INSTANCE AbstractTimers WITH
        timers <- [i \in DOMAIN timers |->
                      [deadline |-> timers[i].deadline,
                       state |-> IF timers[i].stopped THEN "cancelled"
                                 ELSE IF timers[i].fired THEN "fired" ELSE "armed"]]

ImplementsTimers == Abstract!TimersSpec

\* Advance returns and every handler comes to its end: goroutines that hold
\* one of the mutexes and want the other do not wait for each other in a
\* circle (server.go:815 reads the clock under the store's mutex, clock.go:114
\* releases the clock's before the callback takes the store's).
EveryCallEnds ==
    /\ \A g \in Advancer : pc[g] # "idle" ~> pc[g] = "idle"
    /\ \A h \in Handler : pc[h] = "touch" ~> pc[h] = "done"

\* A timer due in the window of an Advance that is under way fires, also one
\* that a callback or a handler arms in the middle of it: that Advance need
\* not be followed by another (clock.go:42-45, 98-119).  A handler arms a timer
\* and its chain another.
DueTimersFire ==
    \A g \in Advancer, i \in 1 .. 2 * Cardinality(Handler) :
        (/\ pc[g] \in {"look", "call", "update", "chain", "relock"}
         /\ i \in DOMAIN timers /\ i \in Due(g))
            ~> (i \in DOMAIN timers /\ timers[i].fired)

===============================================================================
