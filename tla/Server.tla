-------------------------------- MODULE Server --------------------------------
(***************************************************************************)
(* internal/server/server.go over the store, the lease manager and the     *)
(* advancer: every request runs its handler in a goroutine of its own, and *)
(* a handler is a sequence of calls, each atomic under the mutex of the    *)
(* component called, with nothing held in between.  One action is one such *)
(* call; pc[r] names the call request r makes next, or its answer.         *)
(*                                                                         *)
(* Time enters twice, and each time as little as the properties need: the  *)
(* lease clock is AbstractLease's Expire (LeaseManager implements it), the *)
(* timers fire at any time (Lifecycle), and `now` only dates UpdatedAt.    *)
(***************************************************************************)
EXTENDS Lifecycle

CONSTANTS
    ClientOp,     \* the operations clients request in a run
    NoNonce,      \* no lease is held; no nonce is presented
    KeepConfig,   \* an update that carries no config
    NoCall,       \* the request has not arrived yet
    MaxTime       \* the bound of the clock in a run

ASSUME ServerAssumption ==
    /\ NoNonce \notin Req
    /\ KeepConfig \notin {"pullable", "unpullable"}
    /\ MaxTime \in Nat

VARIABLES
    holder,   \* the lease of each machine: who holds it
    issued,   \* the nonces granted, named after the requests they answered
    now,      \* the clock UpdatedAt is read from
    pc,       \* the next call of each request's handler, or its answer
    call,     \* what each request asks for
    todo,     \* deleteApp: the machines listed whose lease is still to clear
    stamp,    \* create: the time read for UpdatedAt; others: when they mutated
    seen      \* history: the nonces issued when a request passed its lease
              \* check, or when its delete cleared the lease; for a create, the
              \* deletions of its app answered before it looked the app up

leaseVars == <<holder, issued>>
handlerVars == <<pc, call, todo, stamp, seen>>
vars == <<storeVars, timers, leaseVars, now, handlerVars>>

\* Leases are keyed by machine (leaseKey); a nonce is named after the acquire
\* request that was granted it.
Lease == INSTANCE AbstractLease WITH Key <- Req, Nonce <- Req

---------------------------------------------------------------------------
(* Requests. *)

AppOp == {"createApp", "deleteApp"}
TransitionOp == {"start", "stop", "restart", "suspend"}
GatedOp == TransitionOp \cup {"update", "delete", "cordon"}
MachineOp == GatedOp \cup {"metadata", "acquire", "release"}
Op == AppOp \cup MachineOp \cup {"create"}

\* id: the machine asked for (create: the id it will draw).  flag: skip_launch
\* of a create, and the value a cordon or uncordon sets.
Call == [app : App, config : {"pullable", "unpullable", KeepConfig}, id : Req, op : Op,
         nonce : Req \cup {NoNonce}, flag : BOOLEAN]

ASSUME NoCallAssumption == NoCall \notin Call

Answer == {"ok", "400", "404", "409", "500"}
Step == {"createApp", "listMachines", "clearLeases", "dropApp",
         "findApp", "readClock", "store",
         "leaseCheck", "terminalCheck", "mutate", "clearLease", "touch", "schedule",
         "lookup", "grant", "refresh", "release"}

Idle(r) == pc[r] = "idle"

\* The first call of each handler.
Entry(op) ==
    CASE op = "createApp" -> "createApp"
      [] op = "deleteApp" -> "listMachines"
      [] op = "create" -> "findApp"
      [] op \in GatedOp -> "leaseCheck"
      [] op = "metadata" -> "mutate"
      [] op \in {"acquire", "release"} -> "lookup"

\* The state a handler puts a machine in, and the timer it arms when done.
TransientOf ==
    [start |-> "starting", stop |-> "stopping", restart |-> "restarting",
     suspend |-> "suspending", delete |-> "destroying"]
TimerOf ==
    [create |-> "create", start |-> "settle", restart |-> "settle", update |-> "settle",
     stop |-> "stop", suspend |-> "suspend", delete |-> "destroy"]

\* Ids clients can know: those of machines the store once held.
Known == {i \in Req : pc[i] \in {"schedule", "ok"} /\ call[i].op = "create"}

Init ==
    /\ StoreInit
    /\ TimersInit
    /\ Lease!LeaseInit
    /\ now = 0
    /\ pc = [r \in Req |-> "idle"]
    /\ call = [r \in Req |-> NoCall]
    /\ todo = [r \in Req |-> {}]
    /\ stamp = [r \in Req |-> 0]
    /\ seen = [r \in Req |-> {}]

Goto(r, label) == pc' = [pc EXCEPT ![r] = label]

Arrive(r, c) ==
    /\ Idle(r)
    /\ c.op \in ClientOp
    /\ call' = [call EXCEPT ![r] = c]
    /\ Goto(r, Entry(c.op))
    /\ UNCHANGED <<storeVars, timers, leaseVars, now, todo, stamp, seen>>

\* Clients send what they please, but ids and nonces are unguessable: they ask
\* for machines they have seen and present nonces they were granted.
ArriveApp(r) ==
    \E op \in AppOp, a \in App :
        Arrive(r, [app |-> a, config |-> KeepConfig, id |-> r, op |-> op,
                   nonce |-> NoNonce, flag |-> FALSE])

ArriveCreate(r) ==
    \E a \in App, c \in Config, skipLaunch \in BOOLEAN :
        Arrive(r, [app |-> a, config |-> c, id |-> r, op |-> "create",
                   nonce |-> NoNonce, flag |-> skipLaunch])

ArriveMachine(r) ==
    \E op \in MachineOp, i \in Known, n \in issued \cup {NoNonce} :
        \E c \in IF op = "update" THEN Config \cup {KeepConfig} ELSE {KeepConfig},
           f \in IF op = "cordon" THEN BOOLEAN ELSE {FALSE} :
              Arrive(r, [app |-> call[i].app, config |-> c, id |-> i, op |-> op,
                         nonce |-> n, flag |-> f])

---------------------------------------------------------------------------
(* Apps. *)

CreateAppStep(r) ==
    LET a == call[r].app IN
    /\ pc[r] = "createApp"
    /\ IF a \in apps
       THEN Goto(r, "409") /\ UNCHANGED storeVars
       ELSE Goto(r, "ok") /\ CreateApp(a)
    /\ UNCHANGED <<timers, leaseVars, now, call, todo, stamp, seen>>

\* deleteApp, first part: the machines to clear are those listed now.  When
\* the app is unknown there is nothing to clear, but DeleteApp is still called.
ListMachines(r) ==
    /\ pc[r] = "listMachines"
    /\ todo' = [todo EXCEPT ![r] = MachinesOf(call[r].app)]
    /\ Goto(r, "clearLeases")
    /\ UNCHANGED <<storeVars, timers, leaseVars, now, call, stamp, seen>>

ClearListed(r) ==
    /\ pc[r] = "clearLeases"
    /\ \E i \in todo[r] :
          /\ Lease!Clear(i)
          /\ todo' = [todo EXCEPT ![r] = @ \ {i}]
    /\ UNCHANGED <<storeVars, timers, now, pc, call, stamp, seen>>

DropApp(r) ==
    LET a == call[r].app IN
    /\ pc[r] = "clearLeases" /\ todo[r] = {}
    /\ IF a \in apps
       THEN Goto(r, "ok") /\ DeleteApp(a)
       ELSE Goto(r, "404") /\ UNCHANGED storeVars
    /\ UNCHANGED <<timers, leaseVars, now, call, todo, stamp, seen>>

---------------------------------------------------------------------------
(* createMachine. *)

\* The deletions of app a that have dropped it.
Deletions(a) ==
    {d \in Req : pc[d] = "ok" /\ call[d].op = "deleteApp" /\ call[d].app = a}

\* Faulty form first: any app will do.
FindAppUnchecked(r) ==
    /\ pc[r] = "findApp"
    /\ seen' = [seen EXCEPT ![r] = Deletions(call[r].app)]
    /\ Goto(r, "readClock")
    /\ UNCHANGED <<storeVars, timers, leaseVars, now, call, todo, stamp>>
FindApp(r) ==
    /\ pc[r] = "findApp"
    /\ seen' = [seen EXCEPT ![r] = Deletions(call[r].app)]
    /\ Goto(r, IF call[r].app \in apps THEN "readClock" ELSE "404")
    /\ UNCHANGED <<storeVars, timers, leaseVars, now, call, todo, stamp>>

ReadClock(r) ==
    /\ pc[r] = "readClock"
    /\ stamp' = [stamp EXCEPT ![r] = now]
    /\ Goto(r, "store")
    /\ UNCHANGED <<storeVars, timers, leaseVars, now, call, todo, seen>>

\* A machine that skips its launch is stored at rest and arms no timer.  An
\* app deleted since FindApp is an internal error.  Faulty form first: the
\* timer is armed all the same.
StoreAndLaunch(r) ==
    LET c == call[r]
        state == IF c.flag THEN "created" ELSE "creating" IN
    /\ pc[r] = "store"
    /\ IF c.app \in apps
       THEN /\ CreateMachine(c.app, r, NewMachine(c.app, r, c.config, state, stamp[r]))
            /\ Goto(r, "schedule")
       ELSE UNCHANGED storeVars /\ Goto(r, "500")
    /\ UNCHANGED <<timers, leaseVars, now, call, todo, stamp, seen>>
StoreMachine(r) ==
    LET c == call[r]
        state == IF c.flag THEN "created" ELSE "creating" IN
    /\ pc[r] = "store"
    /\ IF c.app \in apps
       THEN /\ CreateMachine(c.app, r, NewMachine(c.app, r, c.config, state, stamp[r]))
            /\ Goto(r, IF c.flag THEN "ok" ELSE "schedule")
       ELSE UNCHANGED storeVars /\ Goto(r, "500")
    /\ UNCHANGED <<timers, leaseVars, now, call, todo, stamp, seen>>

---------------------------------------------------------------------------
(* The handlers that change a machine.                                     *)

\* rejectIfLeased: someone else's lease is in force.  Faulty form first: a
\* request that presents no nonce is let through.
LeasedIfPresented(i, n) == n # NoNonce /\ holder[i] \notin {NoNonce, n}
Leased(i, n) == holder[i] \notin {NoNonce, n}

LeaseCheck(r) ==
    LET c == call[r] IN
    /\ pc[r] = "leaseCheck"
    /\ Goto(r, IF Leased(c.id, c.nonce) THEN "409"
               ELSE IF c.op = "delete" THEN "mutate" ELSE "terminalCheck")
    /\ seen' = [seen EXCEPT ![r] = issued]
    /\ UNCHANGED <<storeVars, timers, leaseVars, now, call, todo, stamp>>

\* rejectIfTerminal; a machine that is gone is left to the mutation's lookup.
Terminal(i) == Stored(i) /\ machines[i].state = "destroying"

TerminalCheck(r) ==
    /\ pc[r] = "terminalCheck"
    /\ Goto(r, IF Terminal(call[r].id) THEN "400" ELSE "mutate")
    /\ UNCHANGED <<storeVars, timers, leaseVars, now, call, todo, stamp, seen>>

\* What the closure given to UpdateMachine leaves behind.  Metadata is not
\* modelled beyond its handlers' steps, so their closure changes nothing here.
Mutated(r, mach) ==
    LET c == call[r] IN
    CASE c.op = "update" ->
            Churn(mach, r, IF c.config = KeepConfig THEN mach.config ELSE c.config, now)
      [] c.op = "cordon" -> [mach EXCEPT !.cordoned = c.flag]
      [] c.op = "metadata" -> mach
      [] OTHER -> WithState(mach, TransientOf[c.op])

AfterMutation(op) ==
    CASE op = "update" -> "schedule"
      [] op = "delete" -> "clearLease"
      [] OTHER -> "touch"

Mutate(r) ==
    LET c == call[r] IN
    /\ pc[r] = "mutate"
    /\ IF Stored(c.id)
       THEN /\ UpdateMachine(c.id, Mutated(r, machines[c.id]))
            /\ Goto(r, AfterMutation(c.op))
       ELSE UNCHANGED storeVars /\ Goto(r, "404")
    /\ stamp' = [stamp EXCEPT ![r] = now]
    /\ UNCHANGED <<timers, leaseVars, now, call, todo, seen>>

\* deleteMachine: whoever holds a lease by now loses it.  Faulty form first:
\* only the lease of the nonce presented is released.
ClearOwnLease(r) ==
    /\ pc[r] = "clearLease"
    /\ IF holder[call[r].id] = call[r].nonce
       THEN Lease!Clear(call[r].id) ELSE UNCHANGED leaseVars
    /\ seen' = [seen EXCEPT ![r] = issued]
    /\ Goto(r, "touch")
    /\ UNCHANGED <<storeVars, timers, now, call, todo, stamp>>
ClearLease(r) ==
    /\ pc[r] = "clearLease"
    /\ Lease!Clear(call[r].id)
    /\ seen' = [seen EXCEPT ![r] = issued]
    /\ Goto(r, "touch")
    /\ UNCHANGED <<storeVars, timers, now, call, todo, stamp>>

\* touch reads the clock under the store's mutex, and ignores a machine that
\* is gone.  Faulty form first: the time is that of the mutation.
TouchTimeOfMutation(r) == stamp[r]
TouchTime(r) == now

Touch(r) ==
    LET c == call[r] IN
    /\ pc[r] = "touch"
    /\ Advance(c.id, [machines[c.id] EXCEPT !.updatedAt = TouchTime(r)])
    /\ Goto(r, IF c.op \in {"cordon", "metadata"} THEN "ok" ELSE "schedule")
    /\ UNCHANGED <<timers, leaseVars, now, call, todo, stamp, seen>>

\* The advancer's method: arm the operation's timer, then answer.  Faulty form
\* first: the operation is answered and no timer armed.
ScheduleNothing(r) ==
    /\ pc[r] = "schedule"
    /\ Goto(r, "ok")
    /\ UNCHANGED <<storeVars, timers, leaseVars, now, call, todo, stamp, seen>>
Schedule(r) ==
    /\ pc[r] = "schedule"
    /\ Arm(r, call[r].id, TimerOf[call[r].op])
    /\ Goto(r, "ok")
    /\ UNCHANGED <<storeVars, leaseVars, now, call, todo, stamp, seen>>

---------------------------------------------------------------------------
(* Leases. *)

Lookup(r) ==
    LET c == call[r] IN
    /\ pc[r] = "lookup"
    /\ Goto(r, IF ~Stored(c.id) THEN "404"
               ELSE IF c.op = "release" THEN "release"
               ELSE IF c.nonce = NoNonce THEN "grant" ELSE "refresh")
    /\ UNCHANGED <<storeVars, timers, leaseVars, now, call, todo, stamp, seen>>

AcquireLease(r) ==
    LET i == call[r].id IN
    /\ pc[r] = "grant"
    /\ IF i \in Lease!Held
       THEN Goto(r, "409") /\ UNCHANGED leaseVars
       ELSE Goto(r, "ok") /\ Lease!Grant(i, r)
    /\ UNCHANGED <<storeVars, timers, now, call, todo, stamp, seen>>

\* A refresh moves an expiry, which AbstractLease does not show.
RefreshLease(r) ==
    LET c == call[r] IN
    /\ pc[r] = "refresh"
    /\ Goto(r, IF holder[c.id] = c.nonce THEN "ok" ELSE "409")
    /\ UNCHANGED <<storeVars, timers, leaseVars, now, call, todo, stamp, seen>>

ReleaseLease(r) ==
    LET c == call[r] IN
    /\ pc[r] = "release"
    /\ CASE c.id \notin Lease!Held -> Goto(r, "404") /\ UNCHANGED leaseVars
         [] c.id \in Lease!Held /\ holder[c.id] # c.nonce ->
                Goto(r, "409") /\ UNCHANGED leaseVars
         [] OTHER -> Goto(r, "ok") /\ Lease!Release(c.id, c.nonce)
    /\ UNCHANGED <<storeVars, timers, now, call, todo, stamp, seen>>

---------------------------------------------------------------------------
\* A lease runs out.
LeaseExpires ==
    /\ \E S \in SUBSET Req : Lease!Expire(S)
    /\ UNCHANGED <<storeVars, timers, now, handlerVars>>

TimerFires(r) ==
    /\ \E t \in timers : t.by = r /\ Fire(t)
    /\ UNCHANGED <<leaseVars, now, handlerVars>>

Tick ==
    /\ now < MaxTime
    /\ now' = now + 1
    /\ UNCHANGED <<storeVars, timers, leaseVars, handlerVars>>

Arrival(r) == ArriveApp(r) \/ ArriveCreate(r) \/ ArriveMachine(r)

Handler(r) ==
    \/ CreateAppStep(r) \/ ListMachines(r) \/ ClearListed(r) \/ DropApp(r)
    \/ FindApp(r) \/ ReadClock(r) \/ StoreMachine(r)
    \/ LeaseCheck(r) \/ TerminalCheck(r) \/ Mutate(r)
    \/ ClearLease(r) \/ Touch(r) \/ Schedule(r)
    \/ Lookup(r) \/ AcquireLease(r) \/ RefreshLease(r) \/ ReleaseLease(r)

Next ==
    \/ \E r \in Req : Arrival(r) \/ Handler(r) \/ TimerFires(r)
    \/ LeaseExpires
    \/ Tick

Spec == Init /\ [][Next]_vars

\* Goroutines are scheduled and timers fire; clients need not send anything,
\* the clock need not move and leases need not run out.
FairSpec ==
    /\ Spec
    /\ \A r \in Req : WF_vars(Handler(r)) /\ WF_vars(TimerFires(r))

=============================================================================
