----------------------------- MODULE ServerProofs -----------------------------
(***************************************************************************)
(* Proofs about Server, for any number of requests, apps and ticks and any *)
(* mix of operations.                                                      *)
(***************************************************************************)
EXTENDS ServerProperties, TLAPS

---------------------------------------------------------------------------
(* The operators on machine records. *)

LEMMA NewMachineType ==
    ASSUME NEW a \in App, NEW i \in Req, NEW c \in {"pullable", "unpullable"},
           NEW s \in State, NEW t \in Nat
    PROVE  NewMachine(a, i, c, s, t) \in Machine
<1>1. [instance |-> i, state |-> s] \in Version
  BY DEF Version
<1> QED
  BY <1>1 DEF NewMachine, Machine

\* Writing the state of the current version entry keeps the history a history.
LEMMA MarkType ==
    ASSUME NEW v \in Seq(Version), NEW s \in State \cup {"replaced"}
    PROVE  /\ [v EXCEPT ![Len(v)].state = s] \in Seq(Version)
           /\ Len([v EXCEPT ![Len(v)].state = s]) = Len(v)
           /\ \A j \in 1 .. Len(v) :
                 [v EXCEPT ![Len(v)].state = s][j] =
                    IF j = Len(v) THEN [v[j] EXCEPT !.state = s] ELSE v[j]
<1>0. \A j \in 1 .. Len(v) : v[j] \in Version
  OBVIOUS
<1>1. \A u \in Version : [u EXCEPT !.state = s] \in Version
  BY DEF Version
<1>2. [v EXCEPT ![Len(v)].state = s] =
         [j \in 1 .. Len(v) |-> IF j = Len(v) THEN [v[j] EXCEPT !.state = s] ELSE v[j]]
  OBVIOUS
<1> DEFINE w == [j \in 1 .. Len(v) |-> IF j = Len(v) THEN [v[j] EXCEPT !.state = s] ELSE v[j]]
<1>3. w \in [1 .. Len(v) -> Version]
  BY <1>0, <1>1
<1>4. w \in Seq(Version) /\ Len(w) = Len(v)
  BY <1>3
<1> QED
  BY <1>2, <1>4

LEMMA WithStateType ==
    ASSUME NEW mach \in Machine, NEW s \in State
    PROVE  WithState(mach, s) \in Machine
  BY DEF WithState, Machine

LEMMA SetStateType ==
    ASSUME NEW mach \in Machine, NEW s \in State
    PROVE  SetState(mach, s) \in Machine
<1> DEFINE v == [mach.versions EXCEPT ![Len(mach.versions)].state = s]
<1>1. v \in Seq(Version)
  BY MarkType DEF Machine
<1>2. SetState(mach, s) = [mach EXCEPT !.state = s, !.versions = v]
  BY DEF SetState, Machine
<1> QED
  BY <1>1, <1>2 DEF Machine

LEMMA SetStateState ==
    ASSUME NEW mach \in Machine, NEW s \in State
    PROVE  SetState(mach, s).state = s
<1> DEFINE v == [mach.versions EXCEPT ![Len(mach.versions)].state = s]
<1>1. SetState(mach, s) = [mach EXCEPT !.state = s, !.versions = v]
  BY DEF SetState, Machine
<1> HIDE DEF v
<1> QED
  BY <1>1 DEF Machine

LEMMA ChurnType ==
    ASSUME NEW mach \in Machine, NEW r \in Req, NEW c \in {"pullable", "unpullable"},
           NEW t \in Nat
    PROVE  Churn(mach, r, c, t) \in Machine
<1> DEFINE v == [mach.versions EXCEPT ![Len(mach.versions)].state = "replaced"]
<1>1. v \in Seq(Version)
  BY MarkType DEF Machine
<1>2. [instance |-> r, state |-> "replacing"] \in Version
  BY DEF Version, State, Transient
<1>3. Append(v, [instance |-> r, state |-> "replacing"]) \in Seq(Version)
  BY <1>1, <1>2
<1> QED
  BY <1>3 DEF Churn, Machine, State, Transient

---------------------------------------------------------------------------
(* Types. *)

\* What a handler at a given call is a handler of.
Control ==
    \A r \in Req :
        /\ pc[r] \in {"findApp", "readClock", "store"} =>
              /\ call[r].op = "create"
              /\ call[r].id = r
              /\ call[r].config \in {"pullable", "unpullable"}
        /\ pc[r] = "createApp" => call[r].op = "createApp"
        /\ pc[r] \in {"listMachines", "clearLeases"} => call[r].op = "deleteApp"
        /\ pc[r] \in {"lookup", "grant", "refresh", "release"} =>
              call[r].op \in {"acquire", "release"}
        /\ pc[r] \in {"leaseCheck", "terminalCheck"} => call[r].op \in GatedOp
        /\ pc[r] = "mutate" => call[r].op \in GatedOp \cup {"metadata"}
        /\ pc[r] = "clearLease" => call[r].op = "delete"
        /\ pc[r] = "touch" => call[r].op \in TransitionOp \cup {"delete", "cordon", "metadata"}
        /\ pc[r] = "schedule" => call[r].op \in DOMAIN TimerOf
        /\ (pc[r] = "schedule" /\ call[r].op = "create") => call[r].id = r

TypeInv == TypeOK /\ Control

LEMMA InitTypeInv == Init => TypeInv
  BY StoreAssumption, ServerAssumption
  DEF Init, StoreInit, TimersInit, Lease!LeaseInit, TypeInv, TypeOK, Control, Idle

\* An arrival comes to a request not used yet, and writes its call and its pc.
LEMMA ArrivalFrame ==
    ASSUME NEW r \in Req, Arrival(r)
    PROVE  Idle(r) /\ UNCHANGED <<storeVars, leaseVars, timers, seen>>
<1>1. CASE ArriveApp(r)
  <2>1. PICK op \in AppOp, a \in App :
           Arrive(r, [app |-> a, config |-> KeepConfig, id |-> r, op |-> op,
                      nonce |-> NoNonce, flag |-> FALSE])
    BY <1>1 DEF ArriveApp
  <2> QED
    BY <2>1 DEF Arrive
<1>2. CASE ArriveCreate(r)
  <2>1. PICK a \in App, c \in Config, skipLaunch \in BOOLEAN :
           Arrive(r, [app |-> a, config |-> c, id |-> r, op |-> "create",
                      nonce |-> NoNonce, flag |-> skipLaunch])
    BY <1>2 DEF ArriveCreate
  <2> QED
    BY <2>1 DEF Arrive
<1>3. CASE ArriveMachine(r)
  <2>1. PICK op \in MachineOp, i \in Known, n \in issued \cup {NoNonce} :
           \E c \in IF op = "update" THEN Config \cup {KeepConfig} ELSE {KeepConfig},
              f \in IF op = "cordon" THEN BOOLEAN ELSE {FALSE} :
                 Arrive(r, [app |-> call[i].app, config |-> c, id |-> i, op |-> op,
                            nonce |-> n, flag |-> f])
    BY <1>3 DEF ArriveMachine
  <2>2. \E c : Arrive(r, c)
    BY <2>1
  <2> QED
    BY <2>2 DEF Arrive
<1> QED
  BY <1>1, <1>2, <1>3 DEF Arrival

\* A request arrives well-formed.
LEMMA ArrivalCall ==
    ASSUME TypeOK, NEW r \in Req, Arrival(r)
    PROVE  \E c \in Call :
              /\ Arrive(r, c)
              /\ c.op = "create" => c.id = r /\ c.config \in {"pullable", "unpullable"}
              /\ c.op \in MachineOp => c.id \in Known
<1>1. CASE ArriveApp(r)
  <2>1. PICK op \in AppOp, a \in App :
           Arrive(r, [app |-> a, config |-> KeepConfig, id |-> r, op |-> op,
                      nonce |-> NoNonce, flag |-> FALSE])
    BY <1>1 DEF ArriveApp
  <2> DEFINE c == [app |-> a, config |-> KeepConfig, id |-> r, op |-> op,
                   nonce |-> NoNonce, flag |-> FALSE]
  <2>2. c \in Call
    BY DEF Call, Op
  <2>3. c.op # "create" /\ c.op \notin MachineOp
    BY DEF AppOp, MachineOp, GatedOp, TransitionOp
  <2> HIDE DEF c
  <2> QED
    BY <2>1, <2>2, <2>3 DEF c
<1>2. CASE ArriveCreate(r)
  <2>1. PICK a \in App, c \in Config, f \in BOOLEAN :
           Arrive(r, [app |-> a, config |-> c, id |-> r, op |-> "create",
                      nonce |-> NoNonce, flag |-> f])
    BY <1>2 DEF ArriveCreate
  <2>2. c \in {"pullable", "unpullable"}
    BY StoreAssumption
  <2> QED
    BY <2>1, <2>2 DEF Call, Op, MachineOp, GatedOp, TransitionOp
<1>3. CASE ArriveMachine(r)
  <2>1. PICK op \in MachineOp, i \in Known, n \in issued \cup {NoNonce},
             c \in Config \cup {KeepConfig}, f \in BOOLEAN :
           Arrive(r, [app |-> call[i].app, config |-> c, id |-> i, op |-> op,
                      nonce |-> n, flag |-> f])
    BY <1>3 DEF ArriveMachine
  <2>2. call[i] \in Call
    BY DEF Known, TypeOK, Idle
  <2>3. [app |-> call[i].app, config |-> c, id |-> i, op |-> op, nonce |-> n, flag |-> f] \in Call
    BY <2>2, StoreAssumption DEF Call, Op, Known, TypeOK
  <2> QED
    BY <2>1, <2>3 DEF MachineOp, GatedOp, TransitionOp
<1> QED
  BY <1>1, <1>2, <1>3 DEF Arrival

\* Where the first call of each handler is.
LEMMA EntryCases ==
    \A op \in Op :
        /\ Entry(op) \in Step
        /\ Entry(op) = "findApp" => op = "create"
        /\ Entry(op) = "createApp" => op = "createApp"
        /\ Entry(op) = "listMachines" => op = "deleteApp"
        /\ Entry(op) = "lookup" => op \in {"acquire", "release"}
        /\ Entry(op) = "leaseCheck" => op \in GatedOp
        /\ Entry(op) = "mutate" => op = "metadata"
        /\ Entry(op) \notin {"clearLeases", "readClock", "store", "terminalCheck",
                             "clearLease", "touch", "schedule", "grant", "refresh",
                             "release"} \cup Answer
<1>1. Op = {"createApp", "deleteApp", "create", "metadata", "acquire", "release"} \cup GatedOp
  BY DEF Op, AppOp, MachineOp
<1>2. \A op \in GatedOp : Entry(op) = "leaseCheck" /\ op \notin {"createApp", "deleteApp", "create"}
  BY DEF Entry, GatedOp, TransitionOp
<1>3. /\ Entry("createApp") = "createApp" /\ Entry("deleteApp") = "listMachines"
      /\ Entry("create") = "findApp" /\ Entry("metadata") = "mutate"
      /\ Entry("acquire") = "lookup" /\ Entry("release") = "lookup"
  BY DEF Entry, GatedOp, TransitionOp
<1> QED
  BY <1>1, <1>2, <1>3 DEF Step, Answer

LEMMA NextTypeOK == TypeInv /\ [Next]_vars => TypeOK'
<1> SUFFICES ASSUME TypeInv, [Next]_vars PROVE TypeOK'
  OBVIOUS
<1> USE DEF TypeInv, TypeOK, Goto, Idle
<1>1. ASSUME NEW r \in Req, Arrival(r) PROVE TypeOK'
  <2>1. PICK c \in Call : Arrive(r, c)
    BY <1>1, ArrivalCall
  <2>2. c.op \in Op /\ Entry(c.op) \in Step
    BY EntryCases DEF Call
  <2> QED
    BY <2>1, <2>2, NoCallAssumption DEF Arrive, storeVars, leaseVars, Step
<1>2. ASSUME NEW r \in Req, CreateAppStep(r) \/ ListMachines(r) \/ ClearListed(r) \/ DropApp(r)
      PROVE TypeOK'
  <2>0. pc[r] \notin {"createApp", "listMachines", "clearLeases"} \/ call[r] \in Call
    OBVIOUS
  <2>1. CASE CreateAppStep(r)
    BY <2>0, <2>1 DEF CreateAppStep, CreateApp, storeVars, leaseVars, Answer, Step, Call
  <2>2. CASE ListMachines(r)
    BY <2>2 DEF ListMachines, MachinesOf, storeVars, leaseVars, Answer, Step
  <2>3. CASE ClearListed(r)
    BY <2>3 DEF ClearListed, Lease!Clear, storeVars
  <2>4. CASE DropApp(r)
    BY <2>4 DEF DropApp, DeleteApp, storeVars, leaseVars, Answer, Step
  <2> QED
    BY <1>2, <2>1, <2>2, <2>3, <2>4
<1>3. ASSUME NEW r \in Req, FindApp(r) \/ ReadClock(r) \/ StoreMachine(r) PROVE TypeOK'
  <2>1. CASE FindApp(r)
    <3>1. Deletions(call[r].app) \subseteq Req
      BY DEF Deletions
    <3> QED
      BY <2>1, <3>1 DEF FindApp, storeVars, leaseVars, Answer, Step
  <2>2. CASE ReadClock(r)
    BY <2>2 DEF ReadClock, storeVars, leaseVars, Answer, Step
  <2>3. CASE StoreMachine(r)
    <3>1. /\ call[r] \in Call /\ call[r].config \in {"pullable", "unpullable"}
          /\ stamp[r] \in Nat
      BY <2>3 DEF StoreMachine, Control
    <3>2. \A s \in {"created", "creating"} :
             NewMachine(call[r].app, r, call[r].config, s, stamp[r]) \in Machine
      BY <3>1, NewMachineType DEF Call, State, Resting, Transient
    <3> QED
      BY <2>3, <3>2 DEF StoreMachine, CreateMachine, storeVars, leaseVars, Answer, Step
  <2> QED
    BY <1>3, <2>1, <2>2, <2>3
<1>4. ASSUME NEW r \in Req, LeaseCheck(r) \/ TerminalCheck(r) PROVE TypeOK'
  BY <1>4 DEF LeaseCheck, TerminalCheck, storeVars, leaseVars, Answer, Step
<1>5. ASSUME NEW r \in Req, Mutate(r) PROVE TypeOK'
  <2>1. call[r] \in Call /\ call[r].op \in GatedOp \cup {"metadata"}
    BY <1>5 DEF Mutate, Control
  <2>2. ASSUME NEW mach \in Machine PROVE Mutated(r, mach) \in Machine
    <3>1. CASE call[r].op = "update"
      <4>1. mach.config \in {"pullable", "unpullable"}
        BY DEF Machine
      <4>2. (IF call[r].config = KeepConfig THEN mach.config ELSE call[r].config)
               \in {"pullable", "unpullable"}
        BY <2>1, <4>1 DEF Call
      <4> QED
        BY <3>1, <4>2, ChurnType DEF Mutated
    <3>2. CASE call[r].op = "cordon"
      BY <2>1, <3>2 DEF Mutated, Machine, Call
    <3>3. CASE call[r].op = "metadata"
      BY <3>3 DEF Mutated
    <3>4. CASE call[r].op \in TransitionOp \cup {"delete"}
      <4>1. TransientOf[call[r].op] \in State
        BY <3>4 DEF TransientOf, TransitionOp, State, Transient
      <4> QED
        BY <3>4, <4>1, WithStateType DEF Mutated, TransitionOp
    <3> QED
      BY <2>1, <3>1, <3>2, <3>3, <3>4 DEF GatedOp
  <2>3. AfterMutation(call[r].op) \in Step
    BY DEF AfterMutation, Step
  <2> QED
    BY <1>5, <2>1, <2>2, <2>3
    DEF Mutate, UpdateMachine, Stored, storeVars, leaseVars, Answer, Step, Call
<1>6. ASSUME NEW r \in Req, ClearLease(r) PROVE TypeOK'
  BY <1>6 DEF ClearLease, Lease!Clear, storeVars, Step
<1>7. ASSUME NEW r \in Req, Touch(r) PROVE TypeOK'
  <2>1. call[r] \in Call
    BY <1>7 DEF Touch
  <2>2. \A mach \in Machine : [mach EXCEPT !.updatedAt = TouchTime(r)] \in Machine
    BY DEF Machine, TouchTime
  <2> QED
    BY <1>7, <2>1, <2>2
    DEF Touch, Advance, UpdateMachine, Stored, storeVars, leaseVars, Answer, Step, Call
<1>8. ASSUME NEW r \in Req, Schedule(r) PROVE TypeOK'
  <2>1. call[r] \in Call /\ TimerOf[call[r].op] \in Kind
    BY <1>8 DEF Schedule, Control, TimerOf, Kind
  <2> QED
    BY <1>8, <2>1 DEF Schedule, Arm, Timer, storeVars, leaseVars, Answer, Step, Call
<1>9. ASSUME NEW r \in Req,
             Lookup(r) \/ AcquireLease(r) \/ RefreshLease(r) \/ ReleaseLease(r)
      PROVE TypeOK'
  <2>1. CASE Lookup(r) \/ RefreshLease(r)
    BY <2>1 DEF Lookup, RefreshLease, storeVars, leaseVars, Answer, Step
  <2>2. CASE AcquireLease(r)
    BY <2>2 DEF AcquireLease, Lease!Grant, storeVars, leaseVars, Answer, Step
  <2>3. CASE ReleaseLease(r)
    BY <2>3 DEF ReleaseLease, Lease!Release, storeVars, leaseVars, Answer, Step
  <2> QED
    BY <1>9, <2>1, <2>2, <2>3
<1>10. ASSUME NEW r \in Req, TimerFires(r) PROVE TypeOK'
  <2>1. PICK t \in timers : t.by = r /\ Fire(t)
    BY <1>10 DEF TimerFires
  <2>2. t \in Timer /\ t.id \in Req
    BY <2>1 DEF Timer
  <2>3. \A k \in Kind : [t EXCEPT !.kind = k] \in Timer
    BY <2>2 DEF Timer
  <2>4. timers' \subseteq Timer
    BY <2>1, <2>2, <2>3
    DEF Fire, FireCreate, FireSettle, FireStop, FireSuspend, FireDestroy, Kind
  <2>5. machines' \in [Req -> Machine \cup {NoMachine}] /\ apps' = apps
    <3>1. ASSUME NEW s \in State, Advance(t.id, SetState(machines[t.id], s))
          PROVE machines' \in [Req -> Machine \cup {NoMachine}] /\ apps' = apps
      <4>1. CASE Stored(t.id)
        <5>1. SetState(machines[t.id], s) \in Machine
          BY <2>2, <4>1, SetStateType DEF Stored
        <5> QED
          BY <2>2, <3>1, <5>1 DEF Advance, UpdateMachine, storeVars
      <4>2. CASE ~Stored(t.id)
        BY <3>1, <4>2 DEF Advance, storeVars
      <4> QED
        BY <4>1, <4>2
    <3>2. CASE FireDestroy(t)
      BY <2>2, <3>2 DEF FireDestroy, DeleteMachine, storeVars
    <3>3. CASE FireCreate(t) \/ FireSettle(t) \/ FireStop(t) \/ FireSuspend(t)
      BY <3>1, <3>3
      DEF FireCreate, FireSettle, FireStop, FireSuspend, Settle, State, Resting, Transient
    <3> QED
      BY <2>1, <3>2, <3>3 DEF Fire
  <2> QED
    BY <1>10, <2>4, <2>5 DEF TimerFires, leaseVars, handlerVars
<1>11. CASE LeaseExpires
  BY <1>11 DEF LeaseExpires, Lease!Expire, storeVars, handlerVars
<1>12. CASE Tick
  BY <1>12 DEF Tick, storeVars, leaseVars, handlerVars
<1>13. CASE UNCHANGED vars
  BY <1>13 DEF vars, storeVars, leaseVars, handlerVars
<1> QED
  BY <1>1, <1>2, <1>3, <1>4, <1>5, <1>6, <1>7, <1>8, <1>9, <1>10, <1>11, <1>12, <1>13
  DEF Next, Handler

LEMMA NextControl == TypeInv /\ [Next]_vars => Control'
<1> SUFFICES ASSUME TypeInv, [Next]_vars PROVE Control'
  OBVIOUS
<1> USE DEF TypeInv, TypeOK, Control, Goto, Idle
<1>1. ASSUME NEW r \in Req, Arrival(r) PROVE Control'
  <2>1. PICK c \in Call :
           /\ Arrive(r, c)
           /\ c.op = "create" => c.id = r /\ c.config \in {"pullable", "unpullable"}
    BY <1>1, ArrivalCall
  <2>2. c.op \in Op
    BY DEF Call
  <2>3. call' = [call EXCEPT ![r] = c] /\ pc' = [pc EXCEPT ![r] = Entry(c.op)]
    BY <2>1 DEF Arrive
  <2> QED
    BY <2>1, <2>2, <2>3, EntryCases
<1>2. ASSUME NEW r \in Req, CreateAppStep(r) \/ ListMachines(r) \/ ClearListed(r) \/ DropApp(r)
      PROVE Control'
  BY <1>2 DEF CreateAppStep, ListMachines, ClearListed, DropApp
<1>3. ASSUME NEW r \in Req, FindApp(r) \/ ReadClock(r) \/ StoreMachine(r) PROVE Control'
  BY <1>3 DEF FindApp, ReadClock, StoreMachine, TimerOf
<1>4. ASSUME NEW r \in Req, LeaseCheck(r) \/ TerminalCheck(r) PROVE Control'
  BY <1>4 DEF LeaseCheck, TerminalCheck
<1>5. ASSUME NEW r \in Req, Mutate(r) PROVE Control'
  BY <1>5 DEF Mutate, AfterMutation, GatedOp, TransitionOp, TimerOf
<1>6. ASSUME NEW r \in Req, ClearLease(r) PROVE Control'
  BY <1>6 DEF ClearLease
<1>7. ASSUME NEW r \in Req, Touch(r) PROVE Control'
  BY <1>7 DEF Touch, TransitionOp, TimerOf
<1>8. ASSUME NEW r \in Req, Schedule(r) PROVE Control'
  BY <1>8 DEF Schedule
<1>9. ASSUME NEW r \in Req,
             Lookup(r) \/ AcquireLease(r) \/ RefreshLease(r) \/ ReleaseLease(r)
      PROVE Control'
  BY <1>9 DEF Lookup, AcquireLease, RefreshLease, ReleaseLease
<1>10. ASSUME NEW r \in Req, TimerFires(r) PROVE Control'
  BY <1>10 DEF TimerFires, handlerVars
<1>11. CASE LeaseExpires \/ Tick \/ UNCHANGED vars
  BY <1>11 DEF LeaseExpires, Tick, vars, handlerVars
<1> QED
  BY <1>1, <1>2, <1>3, <1>4, <1>5, <1>6, <1>7, <1>8, <1>9, <1>10, <1>11 DEF Next, Handler

LEMMA TypeInvHolds == Spec => []TypeInv
<1>1. TypeInv /\ [Next]_vars => TypeInv'
  BY NextTypeOK, NextControl DEF TypeInv
<1> QED
  BY InitTypeInv, <1>1, PTL DEF Spec

\* Every variable keeps its type.
THEOREM TypesHold == Spec => []TypeOK
<1>1. TypeInv => TypeOK
  BY DEF TypeInv
<1> QED
  BY TypeInvHolds, <1>1, PTL

---------------------------------------------------------------------------
(* No machine is stuck in a transient state. *)

\* Every machine has a legal state (and NoMachine is none).
LEMMA StoredIsMachine == TypeOK => \A i \in Req : Stored(i) => machines[i] \in Machine
  BY DEF TypeOK, Stored

\* A step that keeps the timers and moves no handler out of its arming calls
\* keeps every owner.
LEMMA OwnersStay ==
    ASSUME TypeInv, timers \subseteq timers',
           \A q \in Req : (pc[q] \in {"clearLease", "touch", "schedule"}
                              /\ call[q].op \in DOMAIN TimerOf) =>
                             (pc'[q] \in {"clearLease", "touch", "schedule"} /\ call'[q] = call[q])
    PROVE  \A i \in Req : Owned(i) => Owned(i)'
  BY DEF Owned, Arming

\* A step that leaves the machines alone, or only takes some away, leaves as
\* many to be owned.
LEMMA OwnedIfStateKept ==
    ASSUME TransientIsOwned,
           \A i \in Req : Owned(i) => Owned(i)',
           \A i \in Req : Stored(i)' => (machines'[i].state \in Transient =>
                                            Stored(i) /\ machines[i].state \in Transient)
                                        \/ Owned(i)'
    PROVE  TransientIsOwned'
  BY DEF TransientIsOwned

LEMMA NextOwned == TypeInv /\ TransientIsOwned /\ [Next]_vars => TransientIsOwned'
<1> SUFFICES ASSUME TypeInv, TransientIsOwned, [Next]_vars PROVE TransientIsOwned'
  OBVIOUS
<1> USE DEF TypeInv, Goto, Idle
<1>t. TypeOK
  OBVIOUS
<1>1. ASSUME NEW r \in Req, Arrival(r) PROVE TransientIsOwned'
  <2>1. PICK c \in Call : Arrive(r, c)
    BY <1>1, ArrivalCall
  <2> QED
    BY <2>1, OwnersStay, OwnedIfStateKept DEF Arrive, storeVars, TypeOK, Stored
<1>2. ASSUME NEW r \in Req, CreateAppStep(r) \/ ListMachines(r) \/ ClearListed(r) \/ DropApp(r)
      PROVE TransientIsOwned'
  <2>1. \A i \in Req : Owned(i) => Owned(i)'
    BY <1>2, OwnersStay DEF CreateAppStep, ListMachines, ClearListed, DropApp, TypeOK
  <2>2. \A i \in Req : machines'[i] = machines[i] \/ machines'[i] = NoMachine
    BY <1>2 DEF CreateAppStep, CreateApp, ListMachines, ClearListed, DropApp, DeleteApp, storeVars
  <2> QED
    BY <2>1, <2>2, OwnedIfStateKept DEF Stored
<1>3. ASSUME NEW r \in Req, FindApp(r) \/ ReadClock(r) PROVE TransientIsOwned'
  BY <1>3, OwnersStay, OwnedIfStateKept DEF FindApp, ReadClock, storeVars, TypeOK, Stored
<1>4. ASSUME NEW r \in Req, StoreMachine(r) PROVE TransientIsOwned'
  <2>1. \A i \in Req : Owned(i) => Owned(i)'
    BY <1>4, OwnersStay DEF StoreMachine, TypeOK
  <2>2. call[r].op = "create" /\ call[r].id = r
    BY <1>4 DEF StoreMachine, Control
  <2>3. \A i \in Req : i # r => machines'[i] = machines[i]
    BY <1>4 DEF StoreMachine, CreateMachine, storeVars, TypeOK
  <2>4. \/ machines'[r] = machines[r]
        \/ machines'[r].state = "created"
        \/ Arming(r, r)'
    BY <1>4, <2>2 DEF StoreMachine, CreateMachine, NewMachine, storeVars, TypeOK, Arming, TimerOf
  <2>5. "created" \notin Transient
    BY DEF Transient
  <2> QED
    BY <2>1, <2>3, <2>4, <2>5, OwnedIfStateKept DEF Stored, Owned
<1>5. ASSUME NEW r \in Req, LeaseCheck(r) \/ TerminalCheck(r) PROVE TransientIsOwned'
  BY <1>5, OwnersStay, OwnedIfStateKept
  DEF LeaseCheck, TerminalCheck, storeVars, TypeOK, Stored
<1>6. ASSUME NEW r \in Req, Mutate(r) PROVE TransientIsOwned'
  <2>1. \A i \in Req : Owned(i) => Owned(i)'
    BY <1>6, OwnersStay DEF Mutate, TypeOK
  <2>2. call[r] \in Call /\ call[r].id \in Req /\ call[r].op \in GatedOp \cup {"metadata"}
    BY <1>6 DEF Mutate, Control, TypeOK, Call
  <2>3. \A i \in Req : i # call[r].id => machines'[i] = machines[i]
    BY <1>6, <2>2 DEF Mutate, UpdateMachine, storeVars, TypeOK
  <2>4. CASE ~Stored(call[r].id)
    BY <1>6, <2>1, <2>4, OwnedIfStateKept DEF Mutate, storeVars, Stored
  <2>5. CASE Stored(call[r].id) /\ call[r].op \in {"cordon", "metadata"}
    <3>1. machines'[call[r].id] = Mutated(r, machines[call[r].id])
      BY <1>6, <2>2, <2>5 DEF Mutate, UpdateMachine, TypeOK
    <3>2. machines'[call[r].id].state = machines[call[r].id].state
      BY <1>t, <2>2, <2>5, <3>1, StoredIsMachine DEF Mutated, Machine
    <3> QED
      BY <2>1, <2>3, <2>5, <3>2, OwnedIfStateKept DEF Stored
  <2>6. CASE Stored(call[r].id) /\ call[r].op \in DOMAIN TimerOf
    <3>1. PICK j \in Req : j = call[r].id
      BY <2>2
    <3>2. Arming(r, j)'
      BY <1>6, <2>2, <2>6, <3>1 DEF Mutate, Arming, AfterMutation, TypeOK
    <3>3. Owned(j)'
      BY <3>2 DEF Owned
    <3> QED
      BY <2>1, <2>3, <3>1, <3>3, OwnedIfStateKept DEF Stored
  <2> QED
    BY <2>2, <2>4, <2>5, <2>6 DEF GatedOp, TransitionOp, TimerOf
<1>7. ASSUME NEW r \in Req, ClearLease(r) PROVE TransientIsOwned'
  BY <1>7, OwnersStay, OwnedIfStateKept DEF ClearLease, storeVars, TypeOK, Stored
<1>8. ASSUME NEW r \in Req, Touch(r) PROVE TransientIsOwned'
  <2>1. \A i \in Req : Owned(i) => Owned(i)'
    <3>1. call[r].op \in DOMAIN TimerOf => call[r].op \notin {"cordon", "metadata"}
      BY DEF TimerOf
    <3> QED
      BY <1>8, <3>1, OwnersStay DEF Touch, TypeOK
  <2>2. call[r].id \in Req
    BY <1>8 DEF Touch, TypeOK, Call
  <2>3. \A i \in Req : \/ machines'[i] = machines[i]
                       \/ Stored(i) /\ machines'[i].state = machines[i].state
    <3>1. \A mach \in Machine : [mach EXCEPT !.updatedAt = TouchTime(r)].state = mach.state
      BY DEF Machine
    <3>2. CASE Stored(call[r].id)
      <4>1. machines[call[r].id] \in Machine
        BY <1>t, <2>2, <3>2, StoredIsMachine
      <4> QED
        BY <1>8, <2>2, <3>1, <3>2, <4>1
        DEF Touch, Advance, UpdateMachine, TypeOK, Stored
    <3>3. CASE ~Stored(call[r].id)
      BY <1>8, <3>3 DEF Touch, Advance, storeVars
    <3> QED
      BY <3>2, <3>3
  <2> QED
    BY <2>1, <2>3, OwnedIfStateKept DEF Stored
<1>9. ASSUME NEW r \in Req, Schedule(r) PROVE TransientIsOwned'
  <2>1. ASSUME NEW i \in Req, Owned(i) PROVE Owned(i)'
    <3>1. CASE Arming(r, i)
      <4> DEFINE t == [id |-> i, by |-> r, kind |-> TimerOf[call[r].op]]
      <4>1. t \in timers' /\ t.id = i
        BY <1>9, <3>1 DEF Schedule, Arm, Arming
      <4> HIDE DEF t
      <4> QED
        BY <4>1 DEF Owned
    <3>2. CASE ~Arming(r, i)
      BY <1>9, <2>1, <3>2 DEF Schedule, Arm, Owned, Arming, TypeOK
    <3> QED
      BY <3>1, <3>2
  <2> QED
    BY <1>9, <2>1, OwnedIfStateKept DEF Schedule, storeVars, Stored
<1>10. ASSUME NEW r \in Req,
              Lookup(r) \/ AcquireLease(r) \/ RefreshLease(r) \/ ReleaseLease(r)
       PROVE TransientIsOwned'
  BY <1>10, OwnersStay, OwnedIfStateKept
  DEF Lookup, AcquireLease, RefreshLease, ReleaseLease, storeVars, TypeOK, Stored
<1>11. ASSUME NEW r \in Req, TimerFires(r) PROVE TransientIsOwned'
  <2>1. PICK t \in timers : Fire(t)
    BY <1>11 DEF TimerFires
  <2>2. t \in Timer /\ t.id \in Req
    BY <2>1 DEF TypeOK, Timer
  <2>3. /\ timers \ {t} \subseteq timers'
        /\ UNCHANGED <<pc, call>>
    BY <1>11, <2>1
    DEF TimerFires, handlerVars, Fire, FireCreate, FireSettle, FireStop, FireSuspend, FireDestroy
  <2>4. ASSUME NEW i \in Req, i # t.id, Stored(i)', machines'[i].state \in Transient
        PROVE Owned(i)'
    <3>1. machines'[i] = machines[i]
      BY <2>1, <2>2, <2>4
      DEF Fire, FireCreate, FireSettle, FireStop, FireSuspend, FireDestroy, Advance,
          UpdateMachine, DeleteMachine, storeVars, TypeOK
    <3> QED
      BY <2>3, <2>4, <3>1 DEF TransientIsOwned, Owned, Arming, Stored
  <2>5. ASSUME Stored(t.id)', machines'[t.id].state \in Transient PROVE Owned(t.id)'
    <3>1. FireCreate(t)
      <4>1. CASE Stored(t.id)
        <5>1. \A s \in State : SetState(machines[t.id], s).state = s
          BY <1>t, <2>2, <4>1, StoredIsMachine, SetStateState
        <5>2. {"started", "stopped", "suspended", "failed"} \subseteq State \ Transient
          BY DEF State, Resting, Transient
        <5> QED
          BY <2>1, <2>2, <2>5, <4>1, <5>1, <5>2
          DEF Fire, FireSettle, Settle, FireStop, FireSuspend, FireDestroy, Advance,
              UpdateMachine, DeleteMachine, TypeOK, Stored
      <4>2. CASE ~Stored(t.id)
        BY <2>1, <2>5, <4>2
        DEF Fire, FireCreate, FireSettle, FireStop, FireSuspend, FireDestroy, Advance,
            storeVars, Stored
      <4> QED
        BY <4>1, <4>2
    <3>2. [t EXCEPT !.kind = "settle"] \in timers' /\ [t EXCEPT !.kind = "settle"].id = t.id
      BY <2>2, <3>1 DEF FireCreate, Timer
    <3> QED
      BY <3>2 DEF Owned
  <2> QED
    BY <2>4, <2>5 DEF TransientIsOwned
<1>12. CASE LeaseExpires \/ Tick \/ UNCHANGED vars
  BY <1>12 DEF LeaseExpires, Tick, vars, storeVars, handlerVars, TransientIsOwned, Owned,
               Arming, Stored
<1> QED
  BY <1>1, <1>2, <1>3, <1>4, <1>5, <1>6, <1>7, <1>8, <1>9, <1>10, <1>11, <1>12
  DEF Next, Handler

\* Whoever interferes, some timer or handler is left to move a machine out of
\* a transient state.
THEOREM TransientMachinesAreOwned == Spec => []TransientIsOwned
<1>1. Init => TransientIsOwned
  BY DEF Init, StoreInit, TransientIsOwned, Stored
<1> QED
  BY TypeInvHolds, <1>1, NextOwned, PTL DEF Spec

---------------------------------------------------------------------------
(* Steps that leave the store alone need no second look.                   *)

LEMMA StoreSteps ==
    ASSUME [Next]_vars
    PROVE  \/ UNCHANGED storeVars
           \/ \E r \in Req : \/ CreateAppStep(r) \/ DropApp(r) \/ StoreMachine(r)
                             \/ Mutate(r) \/ Touch(r) \/ TimerFires(r)
<1>1. ASSUME NEW r \in Req, Arrival(r) PROVE UNCHANGED storeVars
  BY <1>1, ArrivalFrame
<1>2. ASSUME NEW r \in Req, \/ ListMachines(r) \/ ClearListed(r) \/ FindApp(r) \/ ReadClock(r)
                            \/ LeaseCheck(r) \/ TerminalCheck(r) \/ ClearLease(r)
                            \/ Schedule(r) \/ Lookup(r) \/ AcquireLease(r)
                            \/ RefreshLease(r) \/ ReleaseLease(r)
      PROVE UNCHANGED storeVars
  BY <1>2 DEF ListMachines, ClearListed, FindApp, ReadClock, LeaseCheck, TerminalCheck,
              ClearLease, Schedule, Lookup, AcquireLease, RefreshLease, ReleaseLease
<1>3. CASE LeaseExpires \/ Tick \/ UNCHANGED vars
  BY <1>3 DEF LeaseExpires, Tick, vars
<1> QED
  BY <1>1, <1>2, <1>3 DEF Next, Handler

\* The operators on records keep the app, and all but an update's the config.
LEMMA SetStateKeeps ==
    ASSUME NEW mach \in Machine, NEW s \in State
    PROVE  SetState(mach, s).app = mach.app /\ SetState(mach, s).config = mach.config
<1> DEFINE v == [mach.versions EXCEPT ![Len(mach.versions)].state = s]
<1>1. SetState(mach, s) = [mach EXCEPT !.state = s, !.versions = v]
  BY DEF SetState, Machine
<1> HIDE DEF v
<1> QED
  BY <1>1 DEF Machine

LEMMA ChurnKeeps ==
    ASSUME NEW mach \in Machine, NEW r \in Req, NEW c, NEW t
    PROVE  /\ Churn(mach, r, c, t).app = mach.app
           /\ Churn(mach, r, c, t).state = "replacing"
<1> DEFINE v == Append([mach.versions EXCEPT ![Len(mach.versions)].state = "replaced"],
                       [instance |-> r, state |-> "replacing"])
<1>1. Churn(mach, r, c, t) =
         [mach EXCEPT !.config = c, !.instance = r, !.state = "replacing",
                      !.versions = v, !.updatedAt = t]
  BY DEF Churn, Machine
<1> HIDE DEF v
<1> QED
  BY <1>1 DEF Machine

\* What a handler's closure does to the app, the state and the config.
LEMMA MutatedKeeps ==
    ASSUME NEW r \in Req, NEW mach \in Machine, call[r].op \in GatedOp \cup {"metadata"}
    PROVE  /\ Mutated(r, mach).app = mach.app
           /\ \/ Mutated(r, mach).state \in Transient
              \/ /\ Mutated(r, mach).state = mach.state
                 /\ Mutated(r, mach).config = mach.config
<1>1. CASE call[r].op = "update"
  BY <1>1, ChurnKeeps DEF Mutated, Transient
<1>2. CASE call[r].op \in {"cordon", "metadata"}
  BY <1>2 DEF Mutated, Machine
<1>3. CASE call[r].op \in TransitionOp \cup {"delete"}
  BY <1>3 DEF Mutated, WithState, TransientOf, TransitionOp, Transient, Machine
<1> QED
  BY <1>1, <1>2, <1>3 DEF GatedOp

\* What a timer does to them.
LEMMA FireKeeps ==
    ASSUME TypeInv, NEW t \in timers, Fire(t), NEW i \in Req, Stored(i)'
    PROVE  /\ Stored(i)
           /\ machines'[i].app = machines[i].app
           /\ machines'[i].config = machines[i].config
           /\ \/ machines'[i].state = machines[i].state
              \/ machines'[i].state \in {"starting", "stopped", "suspended"}
              \/ machines'[i].state = IF FailsToBoot(machines[i]) THEN "failed" ELSE "started"
<1>1. t.id \in Req /\ TypeOK
  BY DEF TypeInv, TypeOK, Timer
<1>2. CASE i # t.id
  BY <1>1, <1>2
  DEF Fire, FireCreate, FireSettle, FireStop, FireSuspend, FireDestroy, Advance,
      UpdateMachine, DeleteMachine, storeVars, TypeOK, Stored
<1>3. CASE i = t.id
  <2>1. Stored(i) /\ ~FireDestroy(t)
    BY <1>1, <1>3
    DEF Fire, FireCreate, FireSettle, FireStop, FireSuspend, FireDestroy, Advance,
        UpdateMachine, DeleteMachine, storeVars, TypeOK, Stored
  <2>2. machines[i] \in Machine
    BY <1>1, <2>1, StoredIsMachine
  <2>3. \E s \in {"starting", "stopped", "suspended",
                  IF FailsToBoot(machines[i]) THEN "failed" ELSE "started"} :
           machines'[i] = SetState(machines[i], s)
    BY <1>1, <1>3, <2>1
    DEF Fire, FireCreate, FireSettle, Settle, FireStop, FireSuspend, Advance, UpdateMachine,
        TypeOK
  <2>4. PICK s \in State :
           /\ s \in {"starting", "stopped", "suspended",
                     IF FailsToBoot(machines[i]) THEN "failed" ELSE "started"}
           /\ machines'[i] = SetState(machines[i], s)
    BY <2>3 DEF State, Resting, Transient
  <2> QED
    BY <2>1, <2>2, <2>4, SetStateKeeps, SetStateState
<1> QED
  BY <1>2, <1>3

---------------------------------------------------------------------------
(* Machines live in apps that exist. *)

LEMMA NextNoStray == TypeInv /\ NoStrayMachine /\ [Next]_vars => NoStrayMachine'
<1> SUFFICES ASSUME TypeInv, NoStrayMachine, [Next]_vars PROVE NoStrayMachine'
  OBVIOUS
<1>t. TypeOK /\ Control
  BY DEF TypeInv
<1>1. CASE UNCHANGED storeVars
  BY <1>1 DEF NoStrayMachine, Stored, storeVars
<1>2. ASSUME NEW r \in Req, CreateAppStep(r) PROVE NoStrayMachine'
  BY <1>2 DEF CreateAppStep, CreateApp, storeVars, NoStrayMachine, Stored
<1>3. ASSUME NEW r \in Req, DropApp(r) PROVE NoStrayMachine'
  BY <1>3, <1>t DEF DropApp, DeleteApp, MachinesOf, storeVars, NoStrayMachine, Stored, TypeOK
<1>4. ASSUME NEW r \in Req, StoreMachine(r) PROVE NoStrayMachine'
  BY <1>4, <1>t
  DEF StoreMachine, CreateMachine, NewMachine, storeVars, NoStrayMachine, Stored, TypeOK
<1>5. ASSUME NEW r \in Req, Mutate(r) PROVE NoStrayMachine'
  <2>1. call[r].id \in Req /\ call[r].op \in GatedOp \cup {"metadata"}
    BY <1>5, <1>t DEF Mutate, TypeOK, Control, Idle, Call
  <2>2. CASE Stored(call[r].id)
    <3>1. Mutated(r, machines[call[r].id]).app = machines[call[r].id].app
      BY <1>t, <2>1, <2>2, StoredIsMachine, MutatedKeeps
    <3> QED
      BY <1>5, <1>t, <2>1, <2>2, <3>1
      DEF Mutate, UpdateMachine, NoStrayMachine, Stored, TypeOK
  <2>3. CASE ~Stored(call[r].id)
    BY <1>5, <2>3 DEF Mutate, NoStrayMachine, Stored, storeVars
  <2> QED
    BY <2>2, <2>3
<1>6. ASSUME NEW r \in Req, Touch(r) PROVE NoStrayMachine'
  <2>1. call[r].id \in Req
    BY <1>6, <1>t DEF Touch, TypeOK, Idle, Call
  <2>2. CASE Stored(call[r].id)
    <3>1. [machines[call[r].id] EXCEPT !.updatedAt = TouchTime(r)].app = machines[call[r].id].app
      BY <1>t, <2>1, <2>2, StoredIsMachine DEF Machine
    <3> QED
      BY <1>6, <1>t, <2>1, <2>2, <3>1
      DEF Touch, Advance, UpdateMachine, NoStrayMachine, Stored, TypeOK
  <2>3. CASE ~Stored(call[r].id)
    BY <1>6, <2>3 DEF Touch, Advance, NoStrayMachine, Stored, storeVars
  <2> QED
    BY <2>2, <2>3
<1>7. ASSUME NEW r \in Req, TimerFires(r) PROVE NoStrayMachine'
  <2>1. PICK t \in timers : Fire(t)
    BY <1>7 DEF TimerFires
  <2>2. apps' = apps
    BY <2>1
    DEF Fire, FireCreate, FireSettle, FireStop, FireSuspend, FireDestroy, Advance,
        UpdateMachine, DeleteMachine, storeVars
  <2> QED
    BY <2>1, <2>2, FireKeeps DEF NoStrayMachine
<1> QED
  BY <1>1, <1>2, <1>3, <1>4, <1>5, <1>6, <1>7, StoreSteps

\* No order of app deletion and machine creation leaves a machine outside an
\* app that exists.
THEOREM NoMachineStrays == Spec => []NoStrayMachine
<1>1. Init => NoStrayMachine
  BY DEF Init, StoreInit, NoStrayMachine, Stored
<1> QED
  BY TypeInvHolds, <1>1, NextNoStray, PTL DEF Spec

---------------------------------------------------------------------------
(* A machine comes up exactly if its config can boot. *)

LEMMA NextBootVerdict == TypeInv /\ BootVerdict /\ [Next]_vars => BootVerdict'
<1> SUFFICES ASSUME TypeInv, BootVerdict, [Next]_vars PROVE BootVerdict'
  OBVIOUS
<1>t. TypeOK /\ Control
  BY DEF TypeInv
<1>r. \A s \in Transient \cup {"created", "stopped", "suspended"} : s \notin {"started", "failed"}
  BY DEF Transient
<1>1. CASE UNCHANGED storeVars
  BY <1>1 DEF BootVerdict, Stored, storeVars
<1>2. ASSUME NEW r \in Req, CreateAppStep(r) \/ DropApp(r) PROVE BootVerdict'
  BY <1>2 DEF CreateAppStep, CreateApp, DropApp, DeleteApp, storeVars, BootVerdict, Stored
<1>3. ASSUME NEW r \in Req, StoreMachine(r) PROVE BootVerdict'
  BY <1>3, <1>t
  DEF StoreMachine, CreateMachine, NewMachine, storeVars, BootVerdict, Stored, TypeOK
<1>4. ASSUME NEW r \in Req, Mutate(r) PROVE BootVerdict'
  <2>1. call[r].id \in Req /\ call[r].op \in GatedOp \cup {"metadata"}
    BY <1>4, <1>t DEF Mutate, TypeOK, Control, Idle, Call
  <2>2. CASE Stored(call[r].id)
    <3> DEFINE after == Mutated(r, machines[call[r].id])
    <3>1. \/ after.state \in Transient
          \/ /\ after.state = machines[call[r].id].state
             /\ after.config = machines[call[r].id].config
      BY <1>t, <2>1, <2>2, StoredIsMachine, MutatedKeeps
    <3>2. machines' = [machines EXCEPT ![call[r].id] = after]
      BY <1>4, <2>2 DEF Mutate, UpdateMachine
    <3> HIDE DEF after
    <3> QED
      BY <1>t, <1>r, <2>1, <2>2, <3>1, <3>2 DEF BootVerdict, Stored, TypeOK
  <2>3. CASE ~Stored(call[r].id)
    BY <1>4, <2>3 DEF Mutate, BootVerdict, Stored, storeVars
  <2> QED
    BY <2>2, <2>3
<1>5. ASSUME NEW r \in Req, Touch(r) PROVE BootVerdict'
  <2>1. call[r].id \in Req
    BY <1>5, <1>t DEF Touch, TypeOK, Idle, Call
  <2>2. CASE Stored(call[r].id)
    <3> DEFINE after == [machines[call[r].id] EXCEPT !.updatedAt = TouchTime(r)]
    <3>1. /\ after.state = machines[call[r].id].state
          /\ after.config = machines[call[r].id].config
      BY <1>t, <2>1, <2>2, StoredIsMachine DEF Machine
    <3>2. machines' = [machines EXCEPT ![call[r].id] = after]
      BY <1>5, <2>2 DEF Touch, Advance, UpdateMachine
    <3> HIDE DEF after
    <3> QED
      BY <1>t, <2>1, <2>2, <3>1, <3>2 DEF BootVerdict, Stored, TypeOK
  <2>3. CASE ~Stored(call[r].id)
    BY <1>5, <2>3 DEF Touch, Advance, BootVerdict, Stored, storeVars
  <2> QED
    BY <2>2, <2>3
<1>6. ASSUME NEW r \in Req, TimerFires(r) PROVE BootVerdict'
  <2>1. PICK t \in timers : Fire(t)
    BY <1>6 DEF TimerFires
  <2> SUFFICES ASSUME NEW i \in Req, Stored(i)'
               PROVE  /\ machines'[i].state = "started" => machines'[i].config = "pullable"
                      /\ machines'[i].state = "failed" => machines'[i].config = "unpullable"
    BY DEF BootVerdict
  <2>2. machines[i].config \in {"pullable", "unpullable"}
    BY <1>t, <2>1, FireKeeps, StoredIsMachine DEF Machine
  <2> QED
    BY <2>1, <2>2, FireKeeps DEF BootVerdict, FailsToBoot
<1> QED
  BY <1>1, <1>2, <1>3, <1>4, <1>5, <1>6, StoreSteps

\* Whatever timers were armed before an update, the verdict of a boot is that
\* of the config the machine has.
THEOREM BootVerdictHolds == Spec => []BootVerdict
<1>1. Init => BootVerdict
  BY DEF Init, StoreInit, BootVerdict, Stored
<1> QED
  BY TypeInvHolds, <1>1, NextBootVerdict, PTL DEF Spec

---------------------------------------------------------------------------
(* Leases. *)

\* Only request q's own steps move q.
LEMMA OthersStay ==
    ASSUME TypeInv, [Next]_vars, NEW q \in Req
    PROVE  \/ UNCHANGED <<pc[q], call[q], seen[q]>>
           \/ Arrival(q)
           \/ Handler(q)
<1> USE DEF TypeInv, TypeOK, Goto
<1>1. ASSUME NEW r \in Req, r # q, Arrival(r) PROVE UNCHANGED <<pc[q], call[q], seen[q]>>
  <2>1. PICK c \in Call : Arrive(r, c)
    BY <1>1, ArrivalCall
  <2> QED
    BY <1>1, <2>1 DEF Arrive
<1>2. ASSUME NEW r \in Req, r # q, Handler(r) PROVE UNCHANGED <<pc[q], call[q], seen[q]>>
  <2>1. CASE CreateAppStep(r) \/ ListMachines(r) \/ ClearListed(r) \/ DropApp(r)
             \/ FindApp(r) \/ ReadClock(r) \/ StoreMachine(r)
    BY <1>2, <2>1
    DEF CreateAppStep, ListMachines, ClearListed, DropApp, FindApp, ReadClock, StoreMachine
  <2>2. CASE LeaseCheck(r) \/ TerminalCheck(r) \/ Mutate(r) \/ ClearLease(r) \/ Touch(r)
             \/ Schedule(r)
    BY <1>2, <2>2 DEF LeaseCheck, TerminalCheck, Mutate, ClearLease, Touch, Schedule
  <2>3. CASE Lookup(r) \/ AcquireLease(r) \/ RefreshLease(r) \/ ReleaseLease(r)
    BY <1>2, <2>3 DEF Lookup, AcquireLease, RefreshLease, ReleaseLease
  <2> QED
    BY <1>2, <2>1, <2>2, <2>3 DEF Handler
<1>3. ASSUME NEW r \in Req, TimerFires(r) PROVE UNCHANGED <<pc[q], call[q], seen[q]>>
  BY <1>3 DEF TimerFires, handlerVars
<1>4. CASE LeaseExpires \/ Tick \/ UNCHANGED vars
  BY <1>4 DEF LeaseExpires, Tick, vars, handlerVars
<1> QED
  BY <1>1, <1>2, <1>3, <1>4 DEF Next

\* The server uses leases only as AbstractLease allows.
LEMMA LeaseStep ==
    ASSUME TypeInv, [Next]_vars
    PROVE  [Lease!LeaseNext]_leaseVars
<1>t. TypeOK /\ Control
  BY DEF TypeInv
<1> USE DEF Lease!LeaseNext
<1>1. ASSUME NEW r \in Req, Arrival(r) PROVE UNCHANGED leaseVars
  BY <1>1, ArrivalFrame
<1>2. ASSUME NEW r \in Req, \/ CreateAppStep(r) \/ ListMachines(r) \/ DropApp(r) \/ FindApp(r)
                            \/ ReadClock(r) \/ StoreMachine(r) \/ LeaseCheck(r)
                            \/ TerminalCheck(r) \/ Mutate(r) \/ Touch(r) \/ Schedule(r)
                            \/ Lookup(r) \/ RefreshLease(r)
      PROVE UNCHANGED leaseVars
  BY <1>2 DEF CreateAppStep, ListMachines, DropApp, FindApp, ReadClock, StoreMachine, LeaseCheck,
              TerminalCheck, Mutate, Touch, Schedule, Lookup, RefreshLease
<1>3. ASSUME NEW r \in Req, TimerFires(r) PROVE UNCHANGED leaseVars
  BY <1>3 DEF TimerFires
<1>4. CASE Tick \/ UNCHANGED vars
  BY <1>4 DEF Tick, vars
<1>5. ASSUME NEW r \in Req, ClearListed(r) PROVE Lease!LeaseNext
  BY <1>5, <1>t DEF ClearListed, TypeOK
<1>6. ASSUME NEW r \in Req, ClearLease(r) PROVE Lease!LeaseNext
  <2>1. call[r].id \in Req
    BY <1>6, <1>t DEF ClearLease, TypeOK, Idle, Call
  <2> QED
    BY <1>6, <2>1 DEF ClearLease
<1>7. ASSUME NEW r \in Req, AcquireLease(r) PROVE [Lease!LeaseNext]_leaseVars
  <2>1. call[r].id \in Req
    BY <1>7, <1>t DEF AcquireLease, TypeOK, Idle, Call
  <2> QED
    BY <1>7, <2>1 DEF AcquireLease
<1>8. ASSUME NEW r \in Req, ReleaseLease(r) PROVE [Lease!LeaseNext]_leaseVars
  <2>1. call[r].id \in Req /\ call[r].nonce \in Req \cup {NoNonce}
    BY <1>8, <1>t DEF ReleaseLease, TypeOK, Idle, Call
  <2>2. UNCHANGED leaseVars \/ Lease!Release(call[r].id, call[r].nonce)
    BY <1>8 DEF ReleaseLease
  <2> QED
    BY <2>1, <2>2 DEF Lease!Release
<1>9. CASE LeaseExpires
  BY <1>9 DEF LeaseExpires
<1> QED
  BY <1>1, <1>2, <1>3, <1>4, <1>5, <1>6, <1>7, <1>8, <1>9 DEF Next, Handler

\* So a step keeps the lease of a machine, ends it, or grants it to a nonce
\* that no request can have seen.
LEMMA LeaseStepCases ==
    ASSUME TypeInv, [Next]_vars
    PROVE  /\ issued \subseteq issued'
           /\ \A i \in Req : \/ holder'[i] = holder[i]
                             \/ holder'[i] = NoNonce
                             \/ holder'[i] \in Req \ issued
  BY LeaseStep
  DEF Lease!LeaseNext, Lease!Grant, Lease!Release, Lease!Clear, Lease!Expire, leaseVars,
      TypeInv, TypeOK

\* The history variable only holds nonces that were issued, but for a create.
SeenIssued == \A r \in Req : (Idle(r) \/ call[r].op # "create") => seen[r] \subseteq issued

LeaseInv == SeenIssued /\ ForeignLeaseIsLater /\ ClearedByDelete

LEMMA NextLeaseInv == TypeInv /\ LeaseInv /\ [Next]_vars => LeaseInv'
<1> SUFFICES ASSUME TypeInv, LeaseInv, [Next]_vars,
                    NEW q \in Req
             PROVE  /\ (pc'[q] = "idle" \/ call'[q].op # "create") => seen'[q] \subseteq issued'
                    /\ (/\ pc'[q] \in {"terminalCheck", "mutate"}
                        /\ call'[q].op \in GatedOp)
                         => holder'[call'[q].id] \notin seen'[q] \ {call'[q].nonce}
                    /\ (/\ pc'[q] \in {"touch", "schedule", "ok"}
                        /\ call'[q].op = "delete")
                         => holder'[call'[q].id] \notin seen'[q]
  BY DEF LeaseInv, SeenIssued, Idle, ForeignLeaseIsLater, ClearedByDelete
<1>t. TypeOK /\ Control /\ NoNonce \notin issued
  BY ServerAssumption DEF TypeInv, TypeOK
<1>s. /\ issued \subseteq issued'
      /\ (pc[q] = "idle" \/ call[q].op # "create") =>
            seen[q] \subseteq issued /\ NoNonce \notin seen[q]
  BY <1>t, LeaseStepCases DEF LeaseInv, SeenIssued, Idle
\* A machine's lease is not in what q saw unless it was before the step.
<1>h. ASSUME call[q].op # "create", NEW i \in Req, holder'[i] \in seen[q]
      PROVE  holder[i] = holder'[i]
  <2>1. seen[q] \subseteq issued /\ NoNonce \notin seen[q]
    BY <1>s, <1>h
  <2> QED
    BY <1>h, <2>1, LeaseStepCases
<1>g. "create" \notin GatedOp
  BY DEF GatedOp, TransitionOp
<1>c. pc[q] # "idle" => call[q].id \in Req
  BY <1>t DEF TypeOK, Idle, Call
<1>1. CASE UNCHANGED <<pc[q], call[q], seen[q]>>
  BY <1>1, <1>s, <1>h, <1>c, <1>g DEF LeaseInv, ForeignLeaseIsLater, ClearedByDelete
<1>2. CASE Arrival(q)
  <2>1. PICK c \in Call : Arrive(q, c)
    BY <1>2, <1>t, ArrivalCall
  <2>2. /\ pc'[q] = Entry(c.op) /\ call'[q] = c /\ seen'[q] = seen[q] /\ pc[q] = "idle"
        /\ c.op \in Op
    BY <2>1, <1>t DEF Arrive, Idle, Goto, TypeOK, Call
  <2>3. /\ pc'[q] \notin {"terminalCheck", "touch", "schedule", "ok"}
        /\ pc'[q] = "mutate" => call'[q].op = "metadata"
    BY <2>2, EntryCases DEF Answer
  <2> QED
    BY <1>s, <2>2, <2>3 DEF GatedOp, TransitionOp
<1>3. CASE LeaseCheck(q)
  <2>1. /\ seen'[q] = issued /\ issued' = issued /\ holder' = holder /\ call' = call
        /\ pc'[q] \in {"409", "terminalCheck", "mutate"}
        /\ pc'[q] # "409" => holder[call[q].id] \in {NoNonce, call[q].nonce}
    BY <1>3, <1>t DEF LeaseCheck, Leased, Goto, TypeOK, leaseVars
  <2> QED
    BY <1>t, <2>1
<1>4. CASE ClearLease(q)
  <2>1. /\ seen'[q] = issued /\ issued' = issued /\ call' = call
        /\ holder'[call[q].id] = NoNonce
        /\ pc'[q] = "touch"
    BY <1>4, <1>t, <1>c DEF ClearLease, Lease!Clear, Goto, TypeOK
  <2> QED
    BY <1>t, <2>1
<1>5. CASE \/ TerminalCheck(q) \/ Mutate(q)
  <2>1. /\ seen'[q] = seen[q] /\ call' = call /\ pc[q] # "idle" /\ call[q].op # "create"
        /\ pc'[q] \in {"terminalCheck", "mutate"} =>
              pc[q] \in {"terminalCheck", "mutate"}
        /\ pc'[q] \in {"touch", "schedule", "ok"} => call[q].op # "delete"
    BY <1>5, <1>t, <1>g DEF TerminalCheck, Mutate, AfterMutation, Goto, TypeOK, Control
  <2> QED
    BY <1>s, <1>h, <1>c, <2>1 DEF LeaseInv, ForeignLeaseIsLater
<1>6. CASE Touch(q) \/ Schedule(q)
  <2>1. /\ seen'[q] = seen[q] /\ call' = call /\ pc'[q] # "idle"
        /\ pc[q] \in {"touch", "schedule"}
        /\ pc'[q] \in {"schedule", "ok"}
    BY <1>6, <1>t DEF Touch, Schedule, Goto, TypeOK
  <2> QED
    BY <1>s, <1>h, <1>c, <2>1 DEF LeaseInv, ClearedByDelete
<1>7. CASE \/ CreateAppStep(q) \/ ListMachines(q) \/ ClearListed(q) \/ DropApp(q)
           \/ ReadClock(q) \/ StoreMachine(q)
  <2>1. /\ seen'[q] = seen[q] /\ call' = call /\ pc'[q] # "idle"
        /\ call[q].op \in {"createApp", "deleteApp", "create"}
    BY <1>7, <1>t
    DEF CreateAppStep, ListMachines, ClearListed, DropApp, ReadClock, StoreMachine, Goto,
        TypeOK, Control
  <2> QED
    BY <1>s, <2>1 DEF GatedOp, TransitionOp
<1>9. CASE FindApp(q)
  <2>1. call' = call /\ call[q].op = "create" /\ pc'[q] # "idle"
    BY <1>9, <1>t DEF FindApp, Goto, TypeOK, Control
  <2> QED
    BY <2>1, <1>g
<1>8. CASE Lookup(q) \/ AcquireLease(q) \/ RefreshLease(q) \/ ReleaseLease(q)
  <2>1. /\ seen'[q] = seen[q] /\ call' = call
        /\ call[q].op \in {"acquire", "release"}
    BY <1>8, <1>t DEF Lookup, AcquireLease, RefreshLease, ReleaseLease, Control
  <2> QED
    BY <1>s, <2>1 DEF GatedOp, TransitionOp
<1> QED
  BY <1>1, <1>2, <1>3, <1>4, <1>5, <1>6, <1>7, <1>8, <1>9, OthersStay DEF Handler

LEMMA LeaseInvHolds == Spec => []LeaseInv
<1>1. Init => LeaseInv
  BY DEF Init, LeaseInv, SeenIssued, ForeignLeaseIsLater, ClearedByDelete
<1> QED
  BY TypeInvHolds, <1>1, NextLeaseInv, PTL DEF Spec

\* The lease check is never wrong about the past.
THEOREM ForeignLeasesAreLater == Spec => []ForeignLeaseIsLater
<1>1. LeaseInv => ForeignLeaseIsLater
  BY DEF LeaseInv
<1> QED
  BY LeaseInvHolds, <1>1, PTL

\* A delete leaves no lease behind that was granted before it cleared.
THEOREM DeletesClearLeases == Spec => []ClearedByDelete
<1>1. LeaseInv => ClearedByDelete
  BY DEF LeaseInv
<1> QED
  BY LeaseInvHolds, <1>1, PTL

\* Every handler, app deletion and lapse of a lease does to the leases only what
\* a lease service does, which LeaseManager implements.
THEOREM LeasesAreAService == Spec => Lease!LeaseSpec
<1>1. Init => Lease!LeaseInit
  BY DEF Init
<1>2. TypeInv /\ [Next]_vars => [Lease!LeaseNext]_(Lease!leaseVars)
  <2>1. Lease!leaseVars = leaseVars
    BY DEF Lease!leaseVars, leaseVars
  <2>2. ASSUME UNCHANGED leaseVars PROVE UNCHANGED Lease!leaseVars
    BY <2>2 DEF Lease!leaseVars, leaseVars
  <2> QED
    BY <2>2, LeaseStep, Zenon
<1> QED
  BY TypeInvHolds, <1>1, <1>2, PTL DEF Spec, Lease!LeaseSpec

LeaseFacts == INSTANCE AbstractLeaseProofs WITH Key <- Req, Nonce <- Req

LEMMA LeaseFactsApply == Lease!LeaseSpec => LeaseFacts!LeaseSpec
<1>1. Lease!LeaseInit => LeaseFacts!LeaseInit
  BY DEF Lease!LeaseInit, LeaseFacts!LeaseInit
<1>2. [Lease!LeaseNext]_(Lease!leaseVars) => [LeaseFacts!LeaseNext]_(LeaseFacts!leaseVars)
  BY DEF Lease!LeaseNext, LeaseFacts!LeaseNext, Lease!leaseVars, LeaseFacts!leaseVars,
         Lease!Grant, LeaseFacts!Grant, Lease!Release, LeaseFacts!Release,
         Lease!Clear, LeaseFacts!Clear, Lease!Expire, LeaseFacts!Expire,
         Lease!Held, LeaseFacts!Held
<1> QED
  BY <1>1, <1>2, PTL DEF Lease!LeaseSpec, LeaseFacts!LeaseSpec

\* However requests interleave, a client's nonce is in force for one machine at
\* most: it never passes the lease check of another.
THEOREM NoncesOpenOneMachine == Spec => []Lease!NonceHoldsOneKey
<1>1. NoNonce \notin Req
  BY ServerAssumption
<1>2. LeaseFacts!LeaseSpec => []LeaseFacts!NonceHoldsOneKey
  BY <1>1, LeaseFacts!OneKeyPerNonce
<1>3. LeaseFacts!NonceHoldsOneKey => Lease!NonceHoldsOneKey
  BY DEF LeaseFacts!NonceHoldsOneKey, Lease!NonceHoldsOneKey, LeaseFacts!Held, Lease!Held
<1> QED
  BY <1>2, <1>3, LeaseFactsApply, LeasesAreAService, PTL

\* A lease that was released, cleared or ran out is not revived: its nonce never
\* again holds the machine, whatever requests are still under way.
THEOREM NoLeaseIsRevived == Spec => Lease!NoRevival
<1>1. NoNonce \notin Req
  BY ServerAssumption
<1>2. LeaseFacts!LeaseSpec => LeaseFacts!NoRevival
  BY <1>1, LeaseFacts!LapsedNonceStaysLapsed
<1>3. LeaseFacts!NoRevival => Lease!NoRevival
  BY PTL DEF LeaseFacts!NoRevival, Lease!NoRevival, LeaseFacts!leaseVars, Lease!leaseVars
<1> QED
  BY <1>2, <1>3, LeaseFactsApply, LeasesAreAService, PTL

---------------------------------------------------------------------------
(* Accepted deletes. *)

\* A machine comes into the store only by its own create.
LEMMA StoredSteps ==
    ASSUME TypeInv, [Next]_vars, NEW i \in Req, Stored(i)', ~Stored(i)
    PROVE  pc[i] = "store"
<1>t. TypeOK /\ Control
  BY DEF TypeInv
<1>1. CASE UNCHANGED storeVars
  BY <1>1 DEF Stored, storeVars
<1>2. ASSUME NEW r \in Req, CreateAppStep(r) \/ DropApp(r) PROVE FALSE
  BY <1>2 DEF CreateAppStep, CreateApp, DropApp, DeleteApp, storeVars, Stored
<1>3. ASSUME NEW r \in Req, StoreMachine(r) PROVE pc[i] = "store"
  BY <1>3, <1>t DEF StoreMachine, CreateMachine, storeVars, Stored, TypeOK
<1>4. ASSUME NEW r \in Req, Mutate(r) PROVE FALSE
  BY <1>4, <1>t DEF Mutate, UpdateMachine, storeVars, Stored, TypeOK
<1>5. ASSUME NEW r \in Req, Touch(r) PROVE FALSE
  BY <1>5, <1>t DEF Touch, Advance, UpdateMachine, storeVars, Stored, TypeOK
<1>6. ASSUME NEW r \in Req, TimerFires(r) PROVE FALSE
  BY <1>6, FireKeeps DEF TimerFires
<1> QED
  BY <1>1, <1>2, <1>3, <1>4, <1>5, <1>6, StoreSteps

\* Requests are for machines that were stored once.
TargetsKnown ==
    \A r \in Req : (~Idle(r) /\ call[r].op \in MachineOp) => call[r].id \in Known

\* An accepted delete has its reap ahead of it, or the machine is gone.
ReapAhead ==
    \A r \in Req : (pc[r] = "ok" /\ call[r].op = "delete") =>
        \/ ~Stored(call[r].id)
        \/ [id |-> call[r].id, by |-> r, kind |-> "destroy"] \in timers

\* What a request is for, and that it was answered, does not change.
LEMMA CallStays ==
    ASSUME TypeInv, [Next]_vars, NEW q \in Req, ~Idle(q)
    PROVE  /\ call'[q] = call[q]
           /\ pc[q] = "ok" => pc'[q] = "ok"
           /\ (pc[q] = "schedule" /\ pc'[q] # "schedule") => pc'[q] = "ok" /\ Schedule(q)
<1> USE DEF TypeInv, TypeOK, Goto, Idle
<1>1. CASE UNCHANGED <<pc[q], call[q], seen[q]>>
  BY <1>1
<1>2. CASE Arrival(q)
  BY <1>2, ArrivalFrame
<1>3. CASE CreateAppStep(q) \/ ListMachines(q) \/ ClearListed(q) \/ DropApp(q)
           \/ FindApp(q) \/ ReadClock(q) \/ StoreMachine(q)
  BY <1>3
  DEF CreateAppStep, ListMachines, ClearListed, DropApp, FindApp, ReadClock, StoreMachine
<1>4. CASE LeaseCheck(q) \/ TerminalCheck(q) \/ Mutate(q) \/ ClearLease(q) \/ Touch(q)
           \/ Schedule(q)
  BY <1>4 DEF LeaseCheck, TerminalCheck, Mutate, ClearLease, Touch, Schedule
<1>5. CASE Lookup(q) \/ AcquireLease(q) \/ RefreshLease(q) \/ ReleaseLease(q)
  BY <1>5 DEF Lookup, AcquireLease, RefreshLease, ReleaseLease
<1> QED
  BY <1>1, <1>2, <1>3, <1>4, <1>5, OthersStay DEF Handler

LEMMA KnownStays == TypeInv /\ [Next]_vars => Known \subseteq Known'
<1> SUFFICES ASSUME TypeInv, [Next]_vars, NEW i \in Known PROVE i \in Known'
  OBVIOUS
<1>1. i \in Req /\ ~Idle(i)
  BY DEF Known, Idle
<1> QED
  BY <1>1, CallStays DEF Known

LEMMA LeavesIdleByArrival ==
    ASSUME TypeInv, [Next]_vars, NEW q \in Req, Idle(q), ~Idle(q)'
    PROVE  Arrival(q)
<1>1. pc'[q] # pc[q]
  BY DEF Idle
<1>2. ~Handler(q)
  BY DEF Handler, Idle, CreateAppStep, ListMachines, ClearListed, DropApp, FindApp, ReadClock,
         StoreMachine, LeaseCheck, TerminalCheck, Mutate, ClearLease, Touch, Schedule, Lookup,
         AcquireLease, RefreshLease, ReleaseLease
<1> QED
  BY <1>1, <1>2, OthersStay

LEMMA NextTargets == TypeInv /\ TargetsKnown /\ [Next]_vars => TargetsKnown'
<1> SUFFICES ASSUME TypeInv, TargetsKnown, [Next]_vars, NEW q \in Req,
                    ~Idle(q)', call'[q].op \in MachineOp
             PROVE  call'[q].id \in Known'
  BY DEF TargetsKnown
<1>1. CASE ~Idle(q)
  BY <1>1, CallStays, KnownStays DEF TargetsKnown
<1>2. CASE Idle(q)
  <2>1. Arrival(q)
    BY <1>2, LeavesIdleByArrival
  <2>2. PICK c \in Call : Arrive(q, c) /\ (c.op \in MachineOp => c.id \in Known)
    BY <2>1, ArrivalCall DEF TypeInv
  <2>3. call'[q] = c
    BY <2>2 DEF Arrive, TypeInv, TypeOK
  <2> QED
    BY <2>2, <2>3, KnownStays
<1> QED
  BY <1>1, <1>2

\* A fired timer leaves the others armed.
LEMMA TimersSteps ==
    ASSUME TypeInv, [Next]_vars, NEW t \in timers, t \notin timers'
    PROVE  Fire(t)
<1>1. ASSUME NEW r \in Req, Arrival(r) PROVE FALSE
  BY <1>1, ArrivalFrame
<1>2. ASSUME NEW r \in Req, \/ CreateAppStep(r) \/ ListMachines(r) \/ ClearListed(r) \/ DropApp(r)
                            \/ FindApp(r) \/ ReadClock(r) \/ StoreMachine(r)
                            \/ LeaseCheck(r) \/ TerminalCheck(r) \/ Mutate(r)
                            \/ ClearLease(r) \/ Touch(r)
                            \/ Lookup(r) \/ AcquireLease(r) \/ RefreshLease(r)
                            \/ ReleaseLease(r)
      PROVE FALSE
  BY <1>2 DEF CreateAppStep, ListMachines, ClearListed, DropApp, FindApp, ReadClock, StoreMachine,
              LeaseCheck, TerminalCheck, Mutate, ClearLease, Touch, Lookup, AcquireLease,
              RefreshLease, ReleaseLease
<1>3. ASSUME NEW r \in Req, Schedule(r) PROVE FALSE
  BY <1>3 DEF Schedule, Arm
<1>4. ASSUME NEW r \in Req, TimerFires(r) PROVE Fire(t)
  <2>1. PICK u \in timers : Fire(u)
    BY <1>4 DEF TimerFires
  <2>2. u = t
    BY <2>1 DEF Fire, FireCreate, FireSettle, FireStop, FireSuspend, FireDestroy
  <2> QED
    BY <2>1, <2>2
<1>5. CASE LeaseExpires \/ Tick \/ UNCHANGED vars
  BY <1>5 DEF LeaseExpires, Tick, vars
<1> QED
  BY <1>1, <1>2, <1>3, <1>4, <1>5 DEF Next, Handler

LEMMA NextReapAhead ==
    TypeInv /\ TargetsKnown /\ ReapAhead /\ [Next]_vars => ReapAhead'
<1> SUFFICES ASSUME TypeInv, TargetsKnown, ReapAhead, [Next]_vars, NEW q \in Req,
                    pc'[q] = "ok", call'[q].op = "delete", machines'[call'[q].id] # NoMachine
             PROVE  [id |-> call'[q].id, by |-> q, kind |-> "destroy"] \in timers'
  BY DEF ReapAhead, Stored
<1>t. TypeOK /\ Control
  BY DEF TypeInv
\* Nothing is answered at its arrival.
<1>1. ~Idle(q)
  <2>1. CASE Arrival(q)
    <3>1. PICK c \in Call : Arrive(q, c)
      BY <1>t, <2>1, ArrivalCall
    <3>2. pc'[q] = Entry(c.op) /\ c.op \in Op
      BY <1>t, <3>1 DEF Arrive, Goto, TypeOK, Call
    <3> QED
      BY <3>2, EntryCases DEF Answer
  <2>2. CASE Handler(q)
    BY <2>2
    DEF Handler, Idle, CreateAppStep, ListMachines, ClearListed, DropApp, FindApp, ReadClock,
        StoreMachine, LeaseCheck, TerminalCheck, Mutate, ClearLease, Touch, Schedule, Lookup,
        AcquireLease, RefreshLease, ReleaseLease
  <2> QED
    BY <2>1, <2>2, OthersStay DEF Idle
<1>2. /\ call'[q] = call[q]
      /\ call[q].id \in Known
  BY <1>1, CallStays DEF TargetsKnown, MachineOp, GatedOp
<1>3. PICK i \in Req : i = call[q].id /\ pc[i] # "store"
  BY <1>2 DEF Known
<1>4. Stored(i)' /\ Stored(i)
  <2>1. Stored(i)'
    BY <1>2, <1>3 DEF Stored
  <2> QED
    BY <1>3, <2>1, StoredSteps
<1>5. CASE pc[q] = "ok"
  <2> DEFINE t == [id |-> i, by |-> q, kind |-> "destroy"]
  <2>1. t \in timers
    BY <1>2, <1>3, <1>4, <1>5 DEF ReapAhead
  <2>2. ASSUME Fire(t) PROVE FALSE
    <3>1. FireDestroy(t)
      BY <2>2 DEF Fire, FireCreate, FireSettle, FireStop, FireSuspend
    <3>2. t.id = i
      OBVIOUS
    <3> HIDE DEF t
    <3> QED
      BY <1>t, <1>4, <3>1, <3>2 DEF FireDestroy, DeleteMachine, Stored, TypeOK
  <2>3. t \in timers'
    BY <2>1, <2>2, TimersSteps
  <2> QED
    BY <1>2, <1>3, <2>3
<1>6. CASE pc[q] # "ok"
  <2>1. Schedule(q)
    <3>1. CASE UNCHANGED <<pc[q], call[q], seen[q]>>
      BY <1>6, <3>1
    <3>2. CASE Arrival(q)
      BY <1>1, <1>6, <3>2, ArrivalFrame DEF Idle
    <3>3. CASE \/ CreateAppStep(q) \/ ListMachines(q) \/ ClearListed(q) \/ DropApp(q)
               \/ FindApp(q) \/ ReadClock(q) \/ StoreMachine(q)
               \/ Lookup(q) \/ AcquireLease(q) \/ RefreshLease(q) \/ ReleaseLease(q)
      BY <1>t, <1>2, <3>3
      DEF CreateAppStep, ListMachines, ClearListed, DropApp, FindApp, ReadClock, StoreMachine,
          Lookup, AcquireLease, RefreshLease, ReleaseLease, Control
    <3>4. CASE LeaseCheck(q) \/ TerminalCheck(q) \/ Mutate(q) \/ ClearLease(q) \/ Touch(q)
      BY <1>t, <1>2, <3>4
      DEF LeaseCheck, TerminalCheck, Mutate, AfterMutation, ClearLease, Touch, Goto, TypeOK
    <3> QED
      BY <3>1, <3>2, <3>3, <3>4, OthersStay DEF Handler
  <2> QED
    BY <1>2, <2>1 DEF Schedule, Arm, TimerOf
<1> QED
  BY <1>5, <1>6

\* Once the reap of an accepted delete has run, nothing brings the machine back.
THEOREM DeletesReap == Spec => []Reaped
<1>1. Init => TargetsKnown /\ ReapAhead
  BY DEF Init, TargetsKnown, ReapAhead, Idle
<1>2. ReapAhead => Reaped
  <2> SUFFICES ASSUME ReapAhead, NEW r \in Req, pc[r] = "ok", call[r].op = "delete",
                      \A t \in timers : t.by # r
               PROVE  ~Stored(call[r].id)
    BY DEF Reaped
  <2>1. [id |-> call[r].id, by |-> r, kind |-> "destroy"].by = r
    OBVIOUS
  <2> QED
    BY <2>1 DEF ReapAhead
<1> QED
  BY TypeInvHolds, <1>1, <1>2, NextTargets, NextReapAhead, PTL DEF Spec

===============================================================================
