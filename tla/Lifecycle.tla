------------------------------ MODULE Lifecycle ------------------------------
(***************************************************************************)
(* internal/machine/machine.go: the advancer, which moves machines through *)
(* their states from timers.  Every operation arms one timer when its      *)
(* handler is done; nothing ever cancels a timer, and its callback runs    *)
(* against whatever machine the store then holds under the id, if any.     *)
(*                                                                         *)
(* The delays are configuration (Delays), so a timer fires at any time     *)
(* after it was armed, and any two timers in either order.                 *)
(***************************************************************************)
EXTENDS Store

VARIABLE timers   \* the armed timers

Kind == {"create", "settle", "stop", "suspend", "destroy"}

\* id is the machine the timer is about, by the request whose handler armed it.
Timer == [id : Req, by : Req, kind : Kind]

TimersInit == timers = {}

Arm(r, i, kind) == timers' = timers \cup {[id |-> i, by |-> r, kind |-> kind]}

\* UpdateMachine from a timer: a machine that is gone is skipped.
Advance(i, mach) ==
    IF Stored(i) THEN UpdateMachine(i, mach) ELSE UNCHANGED storeVars

---------------------------------------------------------------------------
(* One action for each callback. *)

\* Create's first callback: set starting, then arm the boot timer (even when
\* the machine is gone).  The two calls are one step here: a boot timer armed
\* later is one that fires later, which it may anyway.  Faulty form first: the
\* boot timer is never armed.
FireCreateOnce(t) ==
    /\ t.kind = "create"
    /\ Advance(t.id, SetState(machines[t.id], "starting"))
    /\ timers' = timers \ {t}
FireCreate(t) ==
    /\ t.kind = "create"
    /\ Advance(t.id, SetState(machines[t.id], "starting"))
    /\ timers' = (timers \ {t}) \cup {[t EXCEPT !.kind = "settle"]}

\* The boot ends: after create's starting, and for start, restart and update.
FireSettle(t) ==
    /\ t.kind = "settle"
    /\ Advance(t.id, Settle(machines[t.id]))
    /\ timers' = timers \ {t}

FireStop(t) ==
    /\ t.kind = "stop"
    /\ Advance(t.id, SetState(machines[t.id], "stopped"))
    /\ timers' = timers \ {t}

FireSuspend(t) ==
    /\ t.kind = "suspend"
    /\ Advance(t.id, SetState(machines[t.id], "suspended"))
    /\ timers' = timers \ {t}

\* The reap; a machine that is gone already is skipped.  Faulty forms first: a
\* reap that marks the machine and keeps it, and one that finds the machine no
\* longer destroying and lets it live.
FireDestroyMarks(t) ==
    /\ t.kind = "destroy"
    /\ Advance(t.id, SetState(machines[t.id], "destroyed"))
    /\ timers' = timers \ {t}
FireDestroyIfDestroying(t) ==
    /\ t.kind = "destroy"
    /\ IF Stored(t.id) /\ machines[t.id].state = "destroying"
       THEN DeleteMachine(t.id) ELSE UNCHANGED storeVars
    /\ timers' = timers \ {t}
FireDestroy(t) ==
    /\ t.kind = "destroy"
    /\ IF Stored(t.id) THEN DeleteMachine(t.id) ELSE UNCHANGED storeVars
    /\ timers' = timers \ {t}

Fire(t) ==
    \/ FireCreate(t)
    \/ FireSettle(t)
    \/ FireStop(t)
    \/ FireSuspend(t)
    \/ FireDestroy(t)

=============================================================================
