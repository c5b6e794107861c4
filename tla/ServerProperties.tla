--------------------------- MODULE ServerProperties ---------------------------
(***************************************************************************)
(* What makes the server correct, over the state of Server.  First what    *)
(* the code keeps; then, at the end, what its documents say and the code   *)
(* does not keep.                                                          *)
(***************************************************************************)
EXTENDS Server

---------------------------------------------------------------------------
(* Types. *)

\* Every variable has its type; deleteApp's list and the timers are finite
\* by construction.
TypeOK ==
    /\ apps \subseteq App
    /\ machines \in [Req -> Machine \cup {NoMachine}]
    /\ timers \subseteq Timer
    /\ holder \in [Req -> issued \cup {NoNonce}]
    /\ issued \subseteq Req
    /\ now \in Nat
    /\ pc \in [Req -> {"idle"} \cup Step \cup Answer]
    /\ call \in [Req -> Call \cup {NoCall}]
    /\ \A r \in Req : call[r] = NoCall <=> Idle(r)
    /\ todo \in [Req -> SUBSET Req]
    /\ stamp \in [Req -> Nat]
    /\ seen \in [Req -> SUBSET Req]

---------------------------------------------------------------------------
(* The machine record. *)

\* Machines live in apps that exist: whatever order an app's deletion, its
\* re-creation and the creation of machines run in, no request reaches a
\* machine whose app is gone (store.go:89-97, 101-111, 172-182).
NoStrayMachine ==
    \A i \in Req : Stored(i) => machines[i].app \in apps

\* The history of a machine names each instance once, ends with the current
\* one, and every earlier one is marked replaced, with updates, timers and
\* transitions of any number of clients interleaved (server.go:363-383,
\* machine.go:139, 154; a timer armed before an update writes after it).
VersionHistory ==
    \A i \in Req : Stored(i) =>
        LET v == machines[i].versions IN
        /\ v # <<>>
        /\ v[Len(v)].instance = machines[i].instance
        /\ v[Len(v)].state # "replaced"
        /\ \A j \in 1 .. Len(v) - 1 : v[j].state = "replaced"
        /\ \A j, k \in DOMAIN v : v[j].instance = v[k].instance => j = k

\* A machine says started only if its present config can boot, and failed
\* only if it cannot: a wait for started is never satisfied by a config that
\* fails, whichever timer settled the machine (machine.go:125-142 reads the
\* config inside the mutation; fidelity.md:64).
BootVerdict ==
    \A i \in Req : Stored(i) =>
        /\ machines[i].state = "started" => machines[i].config = "pullable"
        /\ machines[i].state = "failed" => machines[i].config = "unpullable"

\* At rest, the machine and the current entry of its history show the same
\* state, although handlers write the machine only and timers write both
\* (server.go:550-554, machine.go:138-141, 153-156).
InStep ==
    \A i \in Req : (Stored(i) /\ machines[i].state \in Resting) =>
        machines[i].versions[Len(machines[i].versions)].state = machines[i].state

\* Somebody will move machine i on: a timer about it is armed, or the handler
\* that will arm one has not finished.
Arming(r, i) ==
    /\ pc[r] \in {"clearLease", "touch", "schedule"}
    /\ call[r].id = i
    /\ call[r].op \in DOMAIN TimerOf
Owned(i) == (\E t \in timers : t.id = i) \/ (\E r \in Req : Arming(r, i))

\* A machine is never stuck in a transient state: whoever else writes it in
\* between, some armed timer or unfinished handler will move it on
\* (server.go:303-308, 383-387, 396-405, 550-559; machine.go:63-68).
TransientIsOwned ==
    \A i \in Req : (Stored(i) /\ machines[i].state \in Transient) => Owned(i)

\* Once the reap of an accepted delete has run, the machine is gone for good:
\* no handler that looked the machine up before, and no timer armed before,
\* brings it back (machine.go:107-113, store.go:140-169).
Reaped ==
    \A r \in Req :
        (pc[r] = "ok" /\ call[r].op = "delete" /\ \A t \in timers : t.by # r)
            => ~Stored(call[r].id)

\* A machine's life as its owner sees it: gone is what was stored once and is
\* not any more.
Life == [i \in Req |->
    [stage |-> IF Stored(i) THEN "live" ELSE IF i \in Known THEN "gone" ELSE "unborn",
     history |-> IF Stored(i)
                 THEN [j \in DOMAIN machines[i].versions |-> machines[i].versions[j].instance]
                 ELSE <<>>]]

MachineLife == INSTANCE MachineLife WITH Id <- Req, Instance <- Req, life <- Life

\* The server gives every machine the life MachineLife describes: whatever
\* requests and timers are on their way when it goes, alone or with its app,
\* nothing brings it back, and no update loses, reorders or repeats an
\* instance of its history (server.go:375-378; store.go:89-97, 101-111,
\* 140-169).
ImplementsMachineLife == MachineLife!LifeSpec

---------------------------------------------------------------------------
(* UpdatedAt. *)

\* An answered mutation shows in UpdatedAt: it is not older than the moment
\* the mutation was made, although another handler's touch may come between
\* the mutation and its own touch (server.go:381, 813-819).
UpdatedAtFresh ==
    \A r \in Req :
        (/\ pc[r] = "ok"
         /\ call[r].op \in GatedOp \cup {"metadata"}
         /\ Stored(call[r].id))
            => machines[call[r].id].updatedAt >= stamp[r]

\* UpdatedAt never goes back (server.go:381 and :816 read the clock under the
\* store's mutex).
UpdatedAtMonotone ==
    [][\A i \in Req : (Stored(i) /\ Stored(i)') =>
          machines[i].updatedAt <= machines'[i].updatedAt]_vars

---------------------------------------------------------------------------
(* Leases and answers. *)

\* The lease check is never wrong about the past: a request that passed it
\* and now faces another client's lease faces one granted after the check, so
\* a client that held its lease before the request came is safe from it for as
\* long as it keeps the lease (server.go:347, 393, 458, 543; lease.go:58-67).
ForeignLeaseIsLater ==
    \A r \in Req :
        (pc[r] \in {"terminalCheck", "mutate"} /\ call[r].op \in GatedOp)
            => holder[call[r].id] \notin seen[r] \ {call[r].nonce}

\* A delete leaves no lease behind that was granted before it cleared: what
\* holds the machine's key afterwards was granted since (server.go:403,
\* lease.go:133-139).
ClearedByDelete ==
    \A r \in Req :
        (pc[r] \in {"touch", "schedule", "ok"} /\ call[r].op = "delete")
            => holder[call[r].id] \notin seen[r]

\* The server fails with an internal error only when the app was deleted
\* between a create's lookup of it and its insertion: a deletion that was over
\* before the lookup is no reason (server.go:271, 302-306).
ErrorMeansAppDeleted ==
    \A r \in Req : pc[r] = "500" => Deletions(call[r].app) \ seen[r] # {}

---------------------------------------------------------------------------
(* What was asked for. *)

\* The states an accepted operation puts its machine in, now or by its timers.
OutcomesOf(c) ==
    CASE c.op = "create" ->
            IF c.flag THEN {"created"} ELSE {"creating", "starting", "started", "failed"}
      [] c.op = "start" -> {"starting", "started", "failed"}
      [] c.op = "restart" -> {"restarting", "started", "failed"}
      [] c.op = "update" -> {"replacing", "started", "failed"}
      [] c.op = "stop" -> {"stopping", "stopped"}
      [] c.op = "suspend" -> {"suspending", "suspended"}
      [] c.op = "delete" -> {"destroying"}
      [] OTHER -> {}

\* Request r was let through to machine i.
Accepted(r, i) ==
    /\ pc[r] \in {"clearLease", "touch", "schedule", "ok"}
    /\ call[r].id = i

\* A machine is in a state only if some client's accepted operation leads
\* there: in whatever order timers and handlers overwrite one another, nothing
\* boots a machine that skipped its launch before it is started, restarted or
\* updated, and nothing stops one that nobody stopped (server.go:281-286,
\* 307-309, 541-560; machine.go:60-123).
StateWasAskedFor ==
    \A i \in Req : Stored(i) =>
        \E r \in Req : Accepted(r, i) /\ machines[i].state \in OutcomesOf(call[r])

---------------------------------------------------------------------------
(* Progress, when goroutines are scheduled and timers fire (FairSpec). *)

\* Every machine comes to rest or goes, unless clients keep acting on it: each
\* client acts a bounded number of times.
EveryMachineSettles ==
    \A i \in Req :
        <>[](Stored(i) => machines[i].state \in Resting)

\* An accepted delete ends with the machine gone, whatever other operations
\* and timers write its state in the meantime.
DeleteReaps ==
    \A r \in Req : (pc[r] = "ok" /\ call[r].op = "delete")
                        ~> (pc[r] = "ok" /\ ~Stored(call[r].id))

---------------------------------------------------------------------------
(* What the documents say and the code does not keep. *)

\* Request r changes its machine in this step.
Mutates(r) == pc[r] = "mutate" /\ pc'[r] # "mutate" /\ Stored(call[r].id)

\* "A lease grants its holder exclusive rights to mutate a machine" (lease.go:2,
\* fidelity.md:72): no lease-gated mutation lands while another client's lease
\* is in force.
LeaseIsExclusive ==
    [][\A r \in Req : (Mutates(r) /\ call[r].op \in GatedOp) =>
          holder[call[r].id] \in {NoNonce, call[r].nonce}]_vars

\* "mutating operations on a destroying/destroyed machine are rejected (400)
\* instead of resurrecting it" (CHANGELOG.md): once a delete was answered, a
\* mutating operation that comes to its terminal check is turned away.
DeletedRejectsOperations ==
    [][\A r, d \in Req :
          (/\ pc[d] = "ok" /\ call[d].op = "delete"
           /\ pc[r] = "terminalCheck" /\ pc'[r] # "terminalCheck"
           /\ call[r].id = call[d].id
           /\ Stored(call[r].id)) => pc'[r] = "400"]_vars

\* "Persistent states: a machine rests in one of these until acted upon"
\* (types.go:22): only a request takes a machine out of a resting state.
RestsUntilActedUpon ==
    [][\A i \in Req :
          (/\ Stored(i) /\ Stored(i)'
           /\ machines[i].state \in Resting
           /\ machines'[i].state # machines[i].state)
              => \E r \in Req : Mutates(r) /\ call[r].id = i]_vars

\* "Clear any leases held on this app's machines so they don't leak in the
\* lease manager after the machines are dropped" (server.go:252): when the app
\* is dropped, no lease on one of its machines is left.
DropLeavesNoLease ==
    [][\A r \in Req : (pc[r] = "clearLeases" /\ pc'[r] = "ok") =>
          \A i \in MachinesOf(call[r].app) : holder[i] = NoNonce]_vars

===============================================================================
