--------------------------- MODULE AbstractTimers ---------------------------
(***************************************************************************)
(* What a clock with timers promises whoever arms them: a timer fires at   *)
(* most once, when its time has come and not later, in the order of the    *)
(* deadlines and, at one deadline, in the order in which the timers were   *)
(* armed; one that was cancelled does not fire; the clock does not go      *)
(* back.  FakeClock is shown to implement this module.                     *)
(***************************************************************************)
EXTENDS Integers, Sequences

CONSTANT Delay   \* what timers are armed for

VARIABLES
    now,       \* the time
    timers     \* every timer ever armed, in the order of arming

timerVars == <<now, timers>>

Armed(i) == timers[i].state = "armed"

Before(i, j) ==
    \/ timers[i].deadline < timers[j].deadline
    \/ timers[i].deadline = timers[j].deadline /\ i < j

TimersInit ==
    /\ now = 0
    /\ timers = <<>>

Arm(d) ==
    /\ timers' = Append(timers, [deadline |-> now + d, state |-> "armed"])
    /\ UNCHANGED now

\* The next timer fires, and it is then the time it was due.
Fire(i) ==
    /\ Armed(i)
    /\ \A j \in DOMAIN timers : (Armed(j) /\ j # i) => Before(i, j)
    /\ timers' = [timers EXCEPT ![i].state = "fired"]
    /\ now' = timers[i].deadline

Cancel(i) ==
    /\ Armed(i)
    /\ timers' = [timers EXCEPT ![i].state = "cancelled"]
    /\ UNCHANGED now

\* Time passes as far as nothing is due.
Pass ==
    /\ now' > now
    /\ \A i \in DOMAIN timers : Armed(i) => timers[i].deadline > now'
    /\ UNCHANGED timers

TimersNext ==
    \/ \E i \in DOMAIN timers : Fire(i) \/ Cancel(i)
    \/ \E d \in Delay : Arm(d)
    \/ Pass

TimersSpec == TimersInit /\ [][TimersNext]_timerVars

=============================================================================
