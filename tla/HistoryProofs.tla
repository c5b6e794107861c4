---------------------------- MODULE HistoryProofs ----------------------------
(***************************************************************************)
(* More proofs about Server: the histories machines keep of their versions,*)
(* their UpdatedAt, and the life of a machine from its create to its end.  *)
(* They rest on RecordSteps, which says all that a step can do to a        *)
(* machine's record.                                                       *)
(***************************************************************************)
EXTENDS ServerProofs

---------------------------------------------------------------------------
(* What the operators on records do to the rest of a record. *)

LEMMA SetStateRest ==
    ASSUME NEW mach \in Machine, NEW s \in State
    PROVE  /\ SetState(mach, s).instance = mach.instance
           /\ SetState(mach, s).updatedAt = mach.updatedAt
           /\ SetState(mach, s).versions = [mach.versions EXCEPT ![Len(mach.versions)].state = s]
<1> DEFINE v == [mach.versions EXCEPT ![Len(mach.versions)].state = s]
<1>1. SetState(mach, s) = [mach EXCEPT !.state = s, !.versions = v]
  BY DEF SetState, Machine
<1> HIDE DEF v
<1>2. /\ SetState(mach, s).instance = mach.instance
      /\ SetState(mach, s).updatedAt = mach.updatedAt
      /\ SetState(mach, s).versions = v
  BY <1>1 DEF Machine
<1> QED
  BY <1>2 DEF v

LEMMA ChurnFields ==
    ASSUME NEW mach \in Machine, NEW r \in Req, NEW c, NEW t
    PROVE  /\ Churn(mach, r, c, t).instance = r
           /\ Churn(mach, r, c, t).updatedAt = t
           /\ Churn(mach, r, c, t).config = c
<1> DEFINE v == Append([mach.versions EXCEPT ![Len(mach.versions)].state = "replaced"],
                       [instance |-> r, state |-> "replacing"])
<1>1. Churn(mach, r, c, t) =
         [mach EXCEPT !.config = c, !.instance = r, !.state = "replacing",
                      !.versions = v, !.updatedAt = t]
  BY DEF Churn, Machine
<1> HIDE DEF v
<1> QED
  BY <1>1 DEF Machine

LEMMA ChurnVersions ==
    ASSUME NEW mach \in Machine, NEW r \in Req, NEW c, NEW t
    PROVE  Churn(mach, r, c, t).versions =
              Append([mach.versions EXCEPT ![Len(mach.versions)].state = "replaced"],
                     [instance |-> r, state |-> "replacing"])
<1> DEFINE v == Append([mach.versions EXCEPT ![Len(mach.versions)].state = "replaced"],
                       [instance |-> r, state |-> "replacing"])
<1>1. Churn(mach, r, c, t) =
         [mach EXCEPT !.config = c, !.instance = r, !.state = "replacing",
                      !.versions = v, !.updatedAt = t]
  BY DEF Churn, Machine
<1> HIDE DEF v
<1>2. Churn(mach, r, c, t).versions = v
  BY <1>1 DEF Machine
<1> QED
  BY <1>2 DEF v

\* Every mutation but an update's leaves the history, the instance and
\* UpdatedAt to others.
LEMMA MutatedRest ==
    ASSUME NEW r \in Req, NEW mach \in Machine, call[r].op \in GatedOp \cup {"metadata"},
           call[r].op # "update"
    PROVE  /\ Mutated(r, mach).versions = mach.versions
           /\ Mutated(r, mach).instance = mach.instance
           /\ Mutated(r, mach).config = mach.config
           /\ Mutated(r, mach).updatedAt = mach.updatedAt
<1>1. CASE call[r].op \in {"cordon", "metadata"}
  BY <1>1 DEF Mutated, Machine
<1>2. CASE call[r].op \in TransitionOp \cup {"delete"}
  BY <1>2 DEF Mutated, WithState, TransitionOp, Machine
<1> QED
  BY <1>1, <1>2 DEF GatedOp

---------------------------------------------------------------------------
(* All that a step can do to the record of machine i. *)

Created(i) ==
    /\ StoreMachine(i) /\ call[i].app \in apps
    /\ machines'[i] = NewMachine(call[i].app, i, call[i].config,
                                 IF call[i].flag THEN "created" ELSE "creating", stamp[i])

MutatedBy(r, i) ==
    /\ Stored(i) /\ Mutate(r) /\ call[r].id = i
    /\ machines'[i] = Mutated(r, machines[i])

TouchedBy(r, i) ==
    /\ Stored(i) /\ Touch(r) /\ call[r].id = i
    /\ machines'[i] = [machines[i] EXCEPT !.updatedAt = now]

\* The states a timer of a kind leads to, by itself or by the timer it arms.
LeadsTo(kind) ==
    CASE kind = "create" -> {"starting", "started", "failed"}
      [] kind = "settle" -> {"started", "failed"}
      [] kind = "stop" -> {"stopped"}
      [] kind = "suspend" -> {"suspended"}
      [] OTHER -> {}

\* A timer about machine i has fired.
Settled(i) ==
    /\ Stored(i)
    /\ \E t \in timers, s \in State :
          /\ t.id = i /\ s \in LeadsTo(t.kind)
          /\ machines'[i] = SetState(machines[i], s)

Kept(i) == Stored(i) /\ machines'[i] = machines[i]

LEMMA RecordSteps ==
    ASSUME TypeInv, [Next]_vars, NEW i \in Req, Stored(i)'
    PROVE  \/ Kept(i)
           \/ Created(i)
           \/ Settled(i)
           \/ \E r \in Req : MutatedBy(r, i) \/ TouchedBy(r, i)
<1>t. TypeOK /\ Control
  BY DEF TypeInv
<1>1. CASE UNCHANGED storeVars
  BY <1>1 DEF Kept, Stored, storeVars
<1>2. ASSUME NEW r \in Req, CreateAppStep(r) \/ DropApp(r) PROVE Kept(i)
  BY <1>2 DEF CreateAppStep, CreateApp, DropApp, DeleteApp, storeVars, Kept, Stored
<1>3. ASSUME NEW r \in Req, StoreMachine(r) PROVE Kept(i) \/ Created(i)
  <2>1. CASE i = r
    <3>1. CASE call[i].app \in apps
      BY <1>3, <1>t, <2>1, <3>1 DEF StoreMachine, CreateMachine, Created, TypeOK
    <3>2. CASE call[i].app \notin apps
      BY <1>3, <2>1, <3>2 DEF StoreMachine, storeVars, Kept, Stored
    <3> QED
      BY <3>1, <3>2
  <2>2. CASE i # r
    BY <1>3, <1>t, <2>2 DEF StoreMachine, CreateMachine, storeVars, Kept, Stored, TypeOK
  <2> QED
    BY <2>1, <2>2
<1>4. ASSUME NEW r \in Req, Mutate(r) PROVE Kept(i) \/ MutatedBy(r, i)
  <2>1. CASE Stored(call[r].id) /\ i = call[r].id
    BY <1>4, <1>t, <2>1 DEF Mutate, UpdateMachine, MutatedBy, TypeOK
  <2>2. CASE Stored(call[r].id) /\ i # call[r].id
    BY <1>4, <1>t, <2>2 DEF Mutate, UpdateMachine, Kept, Stored, TypeOK
  <2>3. CASE ~Stored(call[r].id)
    BY <1>4, <2>3 DEF Mutate, storeVars, Kept, Stored
  <2> QED
    BY <2>1, <2>2, <2>3
<1>5. ASSUME NEW r \in Req, Touch(r) PROVE Kept(i) \/ TouchedBy(r, i)
  <2>1. CASE Stored(call[r].id) /\ i = call[r].id
    BY <1>5, <1>t, <2>1 DEF Touch, Advance, UpdateMachine, TouchTime, TouchedBy, TypeOK
  <2>2. CASE Stored(call[r].id) /\ i # call[r].id
    BY <1>5, <1>t, <2>2 DEF Touch, Advance, UpdateMachine, Kept, Stored, TypeOK
  <2>3. CASE ~Stored(call[r].id)
    BY <1>5, <2>3 DEF Touch, Advance, storeVars, Kept, Stored
  <2> QED
    BY <2>1, <2>2, <2>3
<1>6. ASSUME NEW r \in Req, TimerFires(r) PROVE Kept(i) \/ Settled(i)
  <2>1. PICK t \in timers : Fire(t)
    BY <1>6 DEF TimerFires
  <2>2. t.id \in Req /\ Stored(i)
    BY <1>t, <2>1, FireKeeps DEF TypeOK, Timer
  <2>3. CASE i # t.id
    BY <1>t, <2>1, <2>2, <2>3
    DEF Fire, FireCreate, FireSettle, FireStop, FireSuspend, FireDestroy, Advance,
        UpdateMachine, DeleteMachine, storeVars, TypeOK, Kept
  <2>4. CASE i = t.id
    <3>1. ~FireDestroy(t)
      BY <1>t, <2>2, <2>4 DEF FireDestroy, DeleteMachine, TypeOK, Stored
    <3>2. \E s \in {"starting", "started", "failed", "stopped", "suspended"} :
             s \in LeadsTo(t.kind) /\ machines'[i] = SetState(machines[i], s)
      BY <1>t, <2>1, <2>2, <2>4, <3>1
      DEF Fire, FireCreate, FireSettle, Settle, FireStop, FireSuspend, Advance,
          UpdateMachine, LeadsTo, TypeOK
    <3> QED
      BY <2>1, <2>2, <2>4, <3>2 DEF Settled, State, Resting, Transient
  <2> QED
    BY <2>3, <2>4
<1> QED
  BY <1>1, <1>2, <1>3, <1>4, <1>5, <1>6, StoreSteps

---------------------------------------------------------------------------
(* Where instances come from. *)

\* n is the instance a create or an update drew for machine i.
DrawnFor(n, i) ==
    /\ n \in Req
    /\ pc[n] \in {"schedule", "ok"}
    /\ call[n].id = i
    /\ call[n].op \in {"create", "update"}

\* A machine in the store was put there by its own create, and every instance
\* of its history was drawn for it.
Origins ==
    \A i \in Req : Stored(i) =>
        /\ i \in Known
        /\ \A j \in DOMAIN machines[i].versions : DrawnFor(machines[i].versions[j].instance, i)

\* The same after a step.
DrawnAfter(n, i) ==
    /\ n \in Req
    /\ pc'[n] \in {"schedule", "ok"}
    /\ call'[n].id = i
    /\ call'[n].op \in {"create", "update"}

LEMMA DrawnStays ==
    ASSUME TypeInv, [Next]_vars, NEW i \in Req, NEW n, DrawnFor(n, i)
    PROVE  DrawnAfter(n, i)
<1>1. n \in Req /\ ~Idle(n)
  BY DEF DrawnFor, Idle
<1> QED
  BY <1>1, CallStays DEF DrawnFor, DrawnAfter

\* An id becomes known when the store takes its machine in.
LEMMA BecomesKnown ==
    ASSUME TypeInv, [Next]_vars, NEW i \in Req, i \notin Known, i \in Known'
    PROVE  Created(i)
<1>t. TypeOK /\ Control
  BY DEF TypeInv
<1>1. pc'[i] \in {"schedule", "ok"} /\ call'[i].op = "create"
  BY DEF Known
<1>2. ~Idle(i)
  <2>1. CASE Arrival(i)
    <3>1. PICK c \in Call : Arrive(i, c)
      BY <1>t, <2>1, ArrivalCall
    <3>2. pc'[i] = Entry(c.op) /\ c.op \in Op
      BY <1>t, <3>1 DEF Arrive, Goto, TypeOK, Call
    <3> QED
      BY <1>1, <3>2, EntryCases DEF Answer
  <2>2. CASE ~Arrival(i)
    BY <1>1, <2>2, LeavesIdleByArrival DEF Idle
  <2> QED
    BY <2>1, <2>2
<1>3. call[i].op = "create" /\ pc[i] \notin {"schedule", "ok"}
  BY <1>1, <1>2, CallStays DEF Known
<1>4. Handler(i)
  BY <1>1, <1>2, <1>3, OthersStay, ArrivalFrame
<1>5. CASE FindApp(i) \/ ReadClock(i) \/ CreateAppStep(i) \/ ListMachines(i)
           \/ ClearListed(i) \/ DropApp(i)
  BY <1>t, <1>1, <1>3, <1>5
  DEF FindApp, ReadClock, CreateAppStep, ListMachines, ClearListed, DropApp, Goto, Control, TypeOK
<1>6. CASE LeaseCheck(i) \/ TerminalCheck(i) \/ Mutate(i) \/ ClearLease(i) \/ Touch(i)
           \/ Schedule(i) \/ Lookup(i) \/ AcquireLease(i) \/ RefreshLease(i) \/ ReleaseLease(i)
  BY <1>t, <1>3, <1>6
  DEF LeaseCheck, TerminalCheck, Mutate, ClearLease, Touch, Schedule, Lookup, AcquireLease,
      RefreshLease, ReleaseLease, Control, GatedOp, TransitionOp
<1>7. CASE StoreMachine(i)
  <2>1. call[i].app \in apps
    BY <1>t, <1>1, <1>7 DEF StoreMachine, Goto, TypeOK
  <2> QED
    BY <1>t, <1>7, <2>1 DEF StoreMachine, CreateMachine, Created, TypeOK
<1> QED
  BY <1>4, <1>5, <1>6, <1>7 DEF Handler

\* An instance that a request is about to use is in no history yet.
LEMMA DrawnBefore ==
    ASSUME Origins, NEW n \in Req, pc[n] \notin {"schedule", "ok"}, NEW i \in Req, Stored(i),
           NEW j \in DOMAIN machines[i].versions
    PROVE  machines[i].versions[j].instance # n
  BY DEF Origins, DrawnFor

---------------------------------------------------------------------------
(* Histories as sequences. *)

\* v is the history of a machine whose instance is n.
Ordered(v, n) ==
    /\ v # <<>>
    /\ v[Len(v)].instance = n
    /\ v[Len(v)].state # "replaced"
    /\ \A j \in 1 .. Len(v) - 1 : v[j].state = "replaced"
    /\ \A j, k \in DOMAIN v : v[j].instance = v[k].instance => j = k

LEMMA NoStateIsReplaced == \A s \in State : s # "replaced"
  BY DEF State, Resting, Transient

\* Marking the current entry keeps the instances where they are.
LEMMA MarkInstances ==
    ASSUME NEW v \in Seq(Version), NEW s \in State \cup {"replaced"}
    PROVE  LET w == [v EXCEPT ![Len(v)].state = s] IN
           /\ w \in Seq(Version) /\ Len(w) = Len(v) /\ DOMAIN w = DOMAIN v
           /\ \A j \in DOMAIN v : /\ w[j].instance = v[j].instance
                                  /\ j # Len(v) => w[j].state = v[j].state
           /\ v # <<>> => w[Len(v)].state = s /\ w # <<>>
<1> DEFINE w == [v EXCEPT ![Len(v)].state = s]
<1>1. /\ w \in Seq(Version) /\ Len(w) = Len(v)
      /\ \A j \in 1 .. Len(v) : w[j] = IF j = Len(v) THEN [v[j] EXCEPT !.state = s] ELSE v[j]
  BY MarkType
<1>2. \A j \in 1 .. Len(v) : /\ [v[j] EXCEPT !.state = s].state = s
                             /\ [v[j] EXCEPT !.state = s].instance = v[j].instance
  <2>1. \A u \in Version : /\ [u EXCEPT !.state = s].state = s
                           /\ [u EXCEPT !.state = s].instance = u.instance
    BY DEF Version
  <2> QED
    BY <2>1
<1> HIDE DEF w
<1>3. DOMAIN w = 1 .. Len(v) /\ DOMAIN v = 1 .. Len(v)
  BY <1>1
<1>4. v # <<>> => Len(v) \in 1 .. Len(v) /\ w # <<>>
  BY <1>1
<1>5. \A j \in 1 .. Len(v) : /\ w[j].instance = v[j].instance
                             /\ j # Len(v) => w[j].state = v[j].state
                             /\ j = Len(v) => w[j].state = s
  BY <1>1, <1>2
<1>6. v # <<>> => w[Len(v)].state = s
  BY <1>4, <1>5
<1> QED
  BY <1>1, <1>3, <1>4, <1>5, <1>6 DEF w

LEMMA MarkOrdered ==
    ASSUME NEW v \in Seq(Version), NEW n, Ordered(v, n), NEW s \in State
    PROVE  Ordered([v EXCEPT ![Len(v)].state = s], n)
<1> DEFINE w == [v EXCEPT ![Len(v)].state = s]
<1>1. /\ w \in Seq(Version) /\ Len(w) = Len(v) /\ DOMAIN w = DOMAIN v
      /\ \A j \in DOMAIN v : /\ w[j].instance = v[j].instance
                             /\ j # Len(v) => w[j].state = v[j].state
      /\ w[Len(v)].state = s /\ w # <<>>
  BY MarkInstances DEF Ordered
<1>2. Len(v) \in DOMAIN v /\ \A j \in 1 .. Len(v) - 1 : j \in DOMAIN v /\ j # Len(v)
  BY DEF Ordered
<1> HIDE DEF w
<1>3. Ordered(w, n)
  BY <1>1, <1>2, NoStateIsReplaced DEF Ordered
<1> QED
  BY <1>3 DEF w

LEMMA ChurnOrdered ==
    ASSUME NEW v \in Seq(Version), NEW n, Ordered(v, n), NEW r \in Req,
           \A j \in DOMAIN v : v[j].instance # r
    PROVE  LET w == Append([v EXCEPT ![Len(v)].state = "replaced"],
                           [instance |-> r, state |-> "replacing"])
           IN  /\ Ordered(w, r)
               /\ DOMAIN w = 1 .. Len(v) + 1
               /\ \A j \in DOMAIN v : w[j].instance = v[j].instance
               /\ w[Len(v) + 1].instance = r
<1> DEFINE u == [v EXCEPT ![Len(v)].state = "replaced"]
           e == [instance |-> r, state |-> "replacing"]
           w == Append(u, e)
<1>1. /\ u \in Seq(Version) /\ Len(u) = Len(v) /\ DOMAIN u = DOMAIN v
      /\ \A j \in DOMAIN v : /\ u[j].instance = v[j].instance
                             /\ j # Len(v) => u[j].state = v[j].state
      /\ u[Len(v)].state = "replaced"
  BY MarkInstances DEF Ordered
<1>2. e \in Version /\ e.instance = r /\ e.state = "replacing"
  BY DEF Version, State, Transient
<1> HIDE DEF u, e
<1>3. /\ Len(w) = Len(v) + 1 /\ DOMAIN w = 1 .. Len(v) + 1 /\ w # <<>>
      /\ \A j \in 1 .. Len(v) : w[j] = u[j]
      /\ w[Len(v) + 1] = e
  BY <1>1, <1>2
<1> HIDE DEF w
<1>4. DOMAIN v = 1 .. Len(v) /\ Len(v) \in Nat
  OBVIOUS
<1>5. \A j \in 1 .. Len(v) : w[j].state = "replaced" /\ w[j].instance = v[j].instance
  BY <1>1, <1>3, <1>4 DEF Ordered
<1>6. w[Len(v) + 1].instance = r /\ w[Len(v) + 1].state # "replaced"
  BY <1>2, <1>3
<1>7. ASSUME NEW j \in DOMAIN w, NEW k \in DOMAIN w, w[j].instance = w[k].instance
      PROVE  j = k
  <2>1. CASE j \in 1 .. Len(v) /\ k \in 1 .. Len(v)
    BY <1>4, <1>5, <1>7, <2>1 DEF Ordered
  <2>2. CASE j = Len(v) + 1 \/ k = Len(v) + 1
    BY <1>3, <1>4, <1>5, <1>6, <1>7, <2>2
  <2> QED
    BY <1>3, <1>4, <2>1, <2>2
<1>8. Ordered(w, r)
  BY <1>3, <1>4, <1>5, <1>6, <1>7 DEF Ordered
<1> QED
  BY <1>3, <1>4, <1>5, <1>6, <1>8 DEF w, u, e

---------------------------------------------------------------------------
(* The history of a machine. *)

\* What the history of record m shows, by itself and beside the machine's state.
WellKept(m) ==
    /\ Ordered(m.versions, m.instance)
    /\ m.state \in Resting => m.versions[Len(m.versions)].state = m.state

HistoryInv ==
    /\ Origins
    /\ \A i \in Req : Stored(i) => WellKept(machines[i])

LEMMA NewIsWellKept ==
    ASSUME NEW a, NEW i \in Req, NEW c, NEW s \in State, NEW t
    PROVE  WellKept(NewMachine(a, i, c, s, t))
<1> DEFINE v == <<[instance |-> i, state |-> s]>>
<1>1. /\ v # <<>> /\ Len(v) = 1 /\ DOMAIN v = 1 .. 1
      /\ v[1].instance = i /\ v[1].state = s
  OBVIOUS
<1>2. /\ NewMachine(a, i, c, s, t).versions = v
      /\ NewMachine(a, i, c, s, t).instance = i
      /\ NewMachine(a, i, c, s, t).state = s
  BY DEF NewMachine
<1> HIDE DEF v
<1> QED
  BY <1>1, <1>2, NoStateIsReplaced DEF WellKept, Ordered

LEMMA SetStateWellKept ==
    ASSUME NEW m \in Machine, WellKept(m), NEW s \in State
    PROVE  WellKept(SetState(m, s))
<1> DEFINE v == m.versions
           w == [v EXCEPT ![Len(v)].state = s]
           n == SetState(m, s)
<1>1. v \in Seq(Version) /\ v # <<>> /\ Ordered(v, m.instance)
  BY DEF Machine, WellKept, Ordered
<1>2. Ordered(w, m.instance)
  BY <1>1, MarkOrdered
<1>3. Len(w) = Len(v) /\ w[Len(v)].state = s
  BY <1>1, MarkInstances
<1>4. n.versions = w /\ n.instance = m.instance /\ n.state = s
  BY SetStateRest, SetStateState
<1> HIDE DEF v, w, n
<1>5. WellKept(n)
  BY <1>2, <1>3, <1>4 DEF WellKept
<1> QED
  BY <1>5 DEF n

LEMMA MutatedWellKept ==
    ASSUME TypeInv, HistoryInv, NEW r \in Req, NEW i \in Req, MutatedBy(r, i)
    PROVE  WellKept(Mutated(r, machines[i]))
<1>1. /\ machines[i] \in Machine /\ WellKept(machines[i])
      /\ call[r].op \in GatedOp \cup {"metadata"} /\ pc[r] = "mutate"
  BY StoredIsMachine DEF MutatedBy, Mutate, HistoryInv, TypeInv, Control
<1>2. CASE call[r].op = "update"
  <2> DEFINE m == machines[i]
             w == Append([m.versions EXCEPT ![Len(m.versions)].state = "replaced"],
                         [instance |-> r, state |-> "replacing"])
             n == Mutated(r, m)
  <2>1. PICK c : n = Churn(m, r, c, now)
    BY <1>2 DEF Mutated
  <2>2. \A j \in DOMAIN m.versions : m.versions[j].instance # r
    BY <1>1, DrawnBefore DEF MutatedBy, HistoryInv
  <2>3. Ordered(w, r)
    <3>1. m.versions \in Seq(Version) /\ Ordered(m.versions, m.instance)
      BY <1>1 DEF Machine, WellKept
    <3> QED
      BY <2>2, <3>1, ChurnOrdered
  <2>4. n.versions = w /\ n.instance = r /\ n.state = "replacing"
    BY <1>1, <2>1, ChurnKeeps, ChurnFields, ChurnVersions
  <2> HIDE DEF m, w, n
  <2>5. WellKept(n)
    BY <2>3, <2>4 DEF WellKept, Resting
  <2> QED
    BY <2>5 DEF n, m
<1>3. CASE call[r].op # "update"
  <2>1. \/ Mutated(r, machines[i]).state = machines[i].state
        \/ Mutated(r, machines[i]).state \in Transient
    BY <1>1, MutatedKeeps
  <2>2. Transient \cap Resting = {}
    BY DEF Transient, Resting
  <2> QED
    BY <1>1, <1>3, <2>1, <2>2, MutatedRest DEF WellKept
<1> QED
  BY <1>2, <1>3

LEMMA TouchedRest ==
    ASSUME NEW m \in Machine
    PROVE  LET n == [m EXCEPT !.updatedAt = now] IN
           /\ n.versions = m.versions /\ n.instance = m.instance /\ n.state = m.state
           /\ n.config = m.config /\ n.updatedAt = now
  BY DEF Machine

LEMMA NextWellKept ==
    ASSUME TypeInv, HistoryInv, [Next]_vars, NEW i \in Req, Stored(i)'
    PROVE  WellKept(machines'[i])
<1>1. CASE Kept(i)
  BY <1>1 DEF Kept, HistoryInv
<1>2. CASE Created(i)
  <2>1. {"created", "creating"} \subseteq State
    BY DEF State, Resting, Transient
  <2> QED
    BY <1>2, <2>1, NewIsWellKept DEF Created
<1>3. CASE Settled(i)
  BY <1>3, StoredIsMachine, SetStateWellKept DEF Settled, HistoryInv, TypeInv
<1>4. ASSUME NEW r \in Req, MutatedBy(r, i) PROVE WellKept(machines'[i])
  BY <1>4, MutatedWellKept DEF MutatedBy
<1>5. ASSUME NEW r \in Req, TouchedBy(r, i) PROVE WellKept(machines'[i])
  BY <1>5, StoredIsMachine, TouchedRest DEF TouchedBy, HistoryInv, TypeInv, WellKept
<1> QED
  BY <1>1, <1>2, <1>3, <1>4, <1>5, RecordSteps

\* A step leaves the instances of a history where they are, or begins it with
\* i, or extends it by one that no living machine ever had.
LEMMA InstanceSteps ==
    ASSUME TypeInv, HistoryInv, [Next]_vars, NEW i \in Req, Stored(i)'
    PROVE  LET v == machines[i].versions  w == machines'[i].versions IN
           \/ /\ Stored(i) /\ DOMAIN w = DOMAIN v
              /\ \A j \in DOMAIN v : w[j].instance = v[j].instance
           \/ Created(i) /\ DOMAIN w = 1 .. 1 /\ w[1].instance = i
           \/ /\ Stored(i) /\ DOMAIN v = 1 .. Len(v) /\ DOMAIN w = 1 .. Len(v) + 1
              /\ \A j \in DOMAIN v : w[j].instance = v[j].instance
              /\ \E r \in Req : /\ w[Len(v) + 1].instance = r
                                /\ pc[r] = "mutate" /\ Mutate(r) /\ call[r].op = "update"
                                /\ call[r].id = i
<1> DEFINE v == machines[i].versions  w == machines'[i].versions
<1>t. TypeOK /\ Control
  BY DEF TypeInv
<1>1. CASE Kept(i)
  BY <1>1 DEF Kept
<1>2. CASE Created(i)
  <2>1. w = <<[instance |-> i, state |-> IF call[i].flag THEN "created" ELSE "creating"]>>
    BY <1>2 DEF Created, NewMachine
  <2> QED
    BY <1>2, <2>1
<1>3. CASE Settled(i)
  <2>1. PICK s \in State : machines'[i] = SetState(machines[i], s)
    BY <1>3 DEF Settled
  <2>2. machines[i] \in Machine /\ v \in Seq(Version)
    BY <1>t, <1>3, StoredIsMachine DEF Settled, Machine
  <2>3. w = [v EXCEPT ![Len(v)].state = s]
    BY <2>1, <2>2, SetStateRest
  <2>4. DOMAIN w = DOMAIN v /\ \A j \in DOMAIN v : w[j].instance = v[j].instance
    BY <2>2, <2>3, MarkInstances
  <2> QED
    BY <1>3, <2>4 DEF Settled
<1>4. ASSUME NEW r \in Req, TouchedBy(r, i) PROVE Stored(i) /\ w = v
  BY <1>t, <1>4, StoredIsMachine, TouchedRest DEF TouchedBy
<1>5. ASSUME NEW r \in Req, MutatedBy(r, i), call[r].op # "update" PROVE Stored(i) /\ w = v
  BY <1>t, <1>5, StoredIsMachine, MutatedRest DEF MutatedBy, Mutate, Control
<1>6. ASSUME NEW r \in Req, MutatedBy(r, i), call[r].op = "update"
      PROVE  /\ Stored(i) /\ DOMAIN v = 1 .. Len(v) /\ DOMAIN w = 1 .. Len(v) + 1
             /\ \A j \in DOMAIN v : w[j].instance = v[j].instance
             /\ w[Len(v) + 1].instance = r
             /\ pc[r] = "mutate" /\ Mutate(r) /\ call[r].id = i
  <2>1. PICK c : machines'[i] = Churn(machines[i], r, c, now)
    BY <1>6 DEF Mutated, MutatedBy
  <2>2. /\ machines[i] \in Machine /\ v \in Seq(Version)
        /\ Stored(i) /\ pc[r] = "mutate" /\ Mutate(r) /\ call[r].id = i
    BY <1>t, <1>6, StoredIsMachine DEF MutatedBy, Mutate, Machine
  <2>3. w = Append([v EXCEPT ![Len(v)].state = "replaced"],
                   [instance |-> r, state |-> "replacing"])
    BY <2>1, <2>2, ChurnVersions
  <2>4. Ordered(v, machines[i].instance) /\ \A j \in DOMAIN v : v[j].instance # r
    BY <2>2, DrawnBefore DEF HistoryInv, WellKept
  <2>5. /\ DOMAIN w = 1 .. Len(v) + 1
        /\ \A j \in DOMAIN v : w[j].instance = v[j].instance
        /\ w[Len(v) + 1].instance = r
    BY <2>2, <2>3, <2>4, ChurnOrdered
  <2> QED
    BY <2>2, <2>5
<1> QED
  BY <1>1, <1>2, <1>3, <1>4, <1>5, <1>6, RecordSteps

LEMMA NextOrigins == TypeInv /\ HistoryInv /\ [Next]_vars => Origins'
<1> SUFFICES ASSUME TypeInv, HistoryInv, [Next]_vars, NEW i \in Req, Stored(i)'
             PROVE  /\ i \in Known'
                    /\ \A j \in DOMAIN machines'[i].versions :
                          DrawnAfter(machines'[i].versions[j].instance, i)
  BY DEF Origins, DrawnFor, DrawnAfter
<1> DEFINE v == machines[i].versions  w == machines'[i].versions
<1>t. TypeOK /\ Control
  BY DEF TypeInv
<1>1. ASSUME Stored(i) PROVE i \in Known' /\ \A j \in DOMAIN v : DrawnAfter(v[j].instance, i)
  BY <1>1, KnownStays, DrawnStays DEF HistoryInv, Origins
<1>2. ASSUME Stored(i), DOMAIN w = DOMAIN v, \A j \in DOMAIN v : w[j].instance = v[j].instance
      PROVE  i \in Known' /\ \A j \in DOMAIN w : DrawnAfter(w[j].instance, i)
  BY <1>1, <1>2
<1>3. ASSUME Created(i), DOMAIN w = 1 .. 1, w[1].instance = i
      PROVE  i \in Known' /\ \A j \in DOMAIN w : DrawnAfter(w[j].instance, i)
  <2>1. pc'[i] \in {"schedule", "ok"} /\ call' = call /\ call[i].op = "create" /\ call[i].id = i
    BY <1>t, <1>3 DEF Created, StoreMachine, Goto, TypeOK, Control
  <2>2. i \in Known' /\ DrawnAfter(i, i)
    BY <2>1 DEF Known, DrawnAfter
  <2>3. \A j \in DOMAIN w : w[j].instance = i
    BY <1>3
  <2> QED
    BY <2>2, <2>3
<1>4. ASSUME NEW r \in Req, Stored(i), DOMAIN v = 1 .. Len(v), DOMAIN w = 1 .. Len(v) + 1,
             \A j \in DOMAIN v : w[j].instance = v[j].instance,
             w[Len(v) + 1].instance = r, Mutate(r), call[r].op = "update", call[r].id = i
      PROVE  i \in Known' /\ \A j \in DOMAIN w : DrawnAfter(w[j].instance, i)
  <2>1. pc'[r] = "schedule" /\ call' = call
    BY <1>t, <1>4 DEF Mutate, AfterMutation, Goto, TypeOK
  <2>2. DrawnAfter(r, i)
    BY <1>4, <2>1 DEF DrawnAfter
  <2>3. Len(v) \in Nat
    BY <1>t, <1>4, StoredIsMachine DEF Machine
  <2>4. \A j \in DOMAIN w : j \in DOMAIN v \/ j = Len(v) + 1
    BY <1>4, <2>3
  <2>5. \A j \in DOMAIN v : DrawnAfter(v[j].instance, i)
    BY <1>1, <1>4
  <2>6. \A j \in DOMAIN w : DrawnAfter(w[j].instance, i)
    BY <1>4, <2>2, <2>4, <2>5
  <2> QED
    BY <1>1, <1>4, <2>6
<1> QED
  BY <1>2, <1>3, <1>4, InstanceSteps

LEMMA HistoryInvHolds == Spec => [](TypeInv /\ HistoryInv)
<1>1. Init => HistoryInv
  BY DEF Init, StoreInit, HistoryInv, Origins, Stored
<1>2. TypeInv /\ HistoryInv /\ [Next]_vars => HistoryInv'
  BY NextOrigins, NextWellKept DEF HistoryInv
<1> QED
  BY TypeInvHolds, <1>1, <1>2, PTL DEF Spec

\* The history of a machine names each instance once and ends with the current
\* one, whatever updates and timers interleave.
THEOREM HistoriesAreOrdered == Spec => []VersionHistory
<1>1. HistoryInv => VersionHistory
  BY DEF HistoryInv, WellKept, Ordered, VersionHistory
<1> QED
  BY HistoryInvHolds, <1>1, PTL

\* A machine at rest and the current entry of its history agree.
THEOREM RestingMachinesInStep == Spec => []InStep
<1>1. HistoryInv => InStep
  BY DEF HistoryInv, WellKept, InStep
<1> QED
  BY HistoryInvHolds, <1>1, PTL

---------------------------------------------------------------------------
(* The config an instance was deployed with. *)

\* The current instance of a machine runs the config its request carried, or,
\* when that carried none, the config the machine had.
InstanceConfig ==
    \A i \in Req : Stored(i) =>
        call[machines[i].instance].config \in {KeepConfig, machines[i].config}

LEMMA CurrentIsDrawn ==
    ASSUME TypeInv, HistoryInv, NEW i \in Req, Stored(i)
    PROVE  DrawnFor(machines[i].instance, i)
<1> DEFINE v == machines[i].versions
<1>1. v \in Seq(Version) /\ Ordered(v, machines[i].instance)
  BY StoredIsMachine DEF TypeInv, HistoryInv, WellKept, Machine
<1>2. Len(v) \in DOMAIN v /\ v[Len(v)].instance = machines[i].instance
  BY <1>1 DEF Ordered
<1> QED
  BY <1>2 DEF HistoryInv, Origins

LEMMA NextInstanceConfig ==
    TypeInv /\ HistoryInv /\ InstanceConfig /\ [Next]_vars => InstanceConfig'
<1> SUFFICES ASSUME TypeInv, HistoryInv, InstanceConfig, [Next]_vars, NEW i \in Req, Stored(i)'
             PROVE  call'[machines'[i].instance].config \in {KeepConfig, machines'[i].config}
  BY DEF InstanceConfig
<1>t. TypeOK /\ Control
  BY DEF TypeInv
<1>1. ASSUME Stored(i), machines'[i].instance = machines[i].instance,
             machines'[i].config = machines[i].config
      PROVE  call'[machines'[i].instance].config \in {KeepConfig, machines'[i].config}
  <2>1. PICK n \in Req : n = machines[i].instance /\ ~Idle(n)
    BY <1>1, CurrentIsDrawn DEF DrawnFor, Idle
  <2>2. call'[n] = call[n]
    BY <2>1, CallStays
  <2> QED
    BY <1>1, <2>1, <2>2 DEF InstanceConfig
<1>2. CASE Kept(i)
  BY <1>1, <1>2 DEF Kept
<1>3. CASE Created(i)
  <2>1. machines'[i].instance = i /\ machines'[i].config = call[i].config
    BY <1>3 DEF Created, NewMachine
  <2>2. call' = call
    BY <1>3 DEF Created, StoreMachine
  <2> QED
    BY <2>1, <2>2
<1>4. CASE Settled(i)
  <2>1. PICK s \in State : machines'[i] = SetState(machines[i], s)
    BY <1>4 DEF Settled
  <2>2. Stored(i) /\ machines[i] \in Machine
    BY <1>t, <1>4, StoredIsMachine DEF Settled
  <2>3. /\ machines'[i].instance = machines[i].instance
        /\ machines'[i].config = machines[i].config
    BY <2>1, <2>2, SetStateRest, SetStateKeeps
  <2> QED
    BY <1>1, <2>2, <2>3
<1>5. ASSUME NEW r \in Req, TouchedBy(r, i)
      PROVE  call'[machines'[i].instance].config \in {KeepConfig, machines'[i].config}
  BY <1>t, <1>1, <1>5, StoredIsMachine, TouchedRest DEF TouchedBy
<1>6. ASSUME NEW r \in Req, MutatedBy(r, i), call[r].op # "update"
      PROVE  call'[machines'[i].instance].config \in {KeepConfig, machines'[i].config}
  BY <1>t, <1>1, <1>6, StoredIsMachine, MutatedRest DEF MutatedBy, Mutate, Control
<1>7. ASSUME NEW r \in Req, MutatedBy(r, i), call[r].op = "update"
      PROVE  call'[machines'[i].instance].config \in {KeepConfig, machines'[i].config}
  <2> DEFINE c == IF call[r].config = KeepConfig THEN machines[i].config ELSE call[r].config
  <2>1. machines'[i] = Churn(machines[i], r, c, now) /\ call' = call
    BY <1>7 DEF Mutated, MutatedBy, Mutate
  <2>2. call[r].config \in {KeepConfig, c}
    OBVIOUS
  <2> HIDE DEF c
  <2>3. machines'[i].instance = r /\ machines'[i].config = c
    BY <1>t, <1>7, <2>1, StoredIsMachine, ChurnFields DEF MutatedBy
  <2> QED
    BY <2>1, <2>2, <2>3
<1> QED
  BY <1>2, <1>3, <1>4, <1>5, <1>6, <1>7, RecordSteps

LEMMA InstanceConfigHolds == Spec => []InstanceConfig
<1>1. Init => InstanceConfig
  BY DEF Init, StoreInit, InstanceConfig, Stored
<1> QED
  BY HistoryInvHolds, <1>1, NextInstanceConfig, PTL DEF Spec

---------------------------------------------------------------------------
(* UpdatedAt. *)

\* No time lies ahead of the clock.
TimesPast ==
    /\ \A r \in Req : stamp[r] <= now
    /\ \A i \in Req : Stored(i) => machines[i].updatedAt <= now

\* A mutation shows as soon as its handler has no touch ahead of it.
FreshAhead ==
    \A r \in Req :
        (/\ pc[r] \in {"schedule", "ok"}
         /\ call[r].op \in GatedOp \cup {"metadata"}
         /\ Stored(call[r].id))
            => machines[call[r].id].updatedAt >= stamp[r]

TimeInv == TimesPast /\ FreshAhead

\* The clock moves only alone, and a stamp is the time it is taken.
LEMMA ClockSteps ==
    ASSUME TypeInv, [Next]_vars
    PROVE  /\ now' \in Nat /\ now <= now'
           /\ now' = now \/ UNCHANGED <<storeVars, pc, call, stamp>>
           /\ \A q \in Req : stamp'[q] = stamp[q] \/ (stamp'[q] = now /\ (ReadClock(q) \/ Mutate(q)))
<1>t. TypeOK /\ now \in Nat
  BY DEF TypeInv, TypeOK
<1>1. ASSUME NEW r \in Req, Arrival(r) PROVE now' = now /\ stamp' = stamp
  <2>1. PICK c \in Call : Arrive(r, c)
    BY <1>1, <1>t, ArrivalCall
  <2> QED
    BY <2>1 DEF Arrive
<1>2. ASSUME NEW r \in Req, \/ CreateAppStep(r) \/ ListMachines(r) \/ ClearListed(r) \/ DropApp(r)
                            \/ FindApp(r) \/ StoreMachine(r) \/ LeaseCheck(r) \/ TerminalCheck(r)
                            \/ ClearLease(r) \/ Touch(r) \/ Schedule(r) \/ Lookup(r)
                            \/ AcquireLease(r) \/ RefreshLease(r) \/ ReleaseLease(r)
                            \/ TimerFires(r)
      PROVE now' = now /\ stamp' = stamp
  BY <1>2
  DEF CreateAppStep, ListMachines, ClearListed, DropApp, FindApp, StoreMachine, LeaseCheck,
      TerminalCheck, ClearLease, Touch, Schedule, Lookup, AcquireLease, RefreshLease,
      ReleaseLease, TimerFires, handlerVars
<1>3. ASSUME NEW r \in Req, ReadClock(r) \/ Mutate(r)
      PROVE  /\ now' = now /\ stamp'[r] = now
             /\ \A q \in Req : q # r => stamp'[q] = stamp[q]
  BY <1>3, <1>t DEF ReadClock, Mutate, TypeOK
<1>4. CASE LeaseExpires \/ UNCHANGED vars
  BY <1>4, <1>t DEF LeaseExpires, vars, handlerVars
<1>5. CASE Tick
  BY <1>5, <1>t DEF Tick, handlerVars
<1> QED
  BY <1>t, <1>1, <1>2, <1>3, <1>4, <1>5 DEF Next, Handler

\* UpdatedAt stays, or becomes the time; a new machine's is its stamp.
LEMMA UpdatedAtSteps ==
    ASSUME TypeInv, [Next]_vars, NEW i \in Req, Stored(i)'
    PROVE  \/ Stored(i) /\ machines'[i].updatedAt \in {machines[i].updatedAt, now}
           \/ Created(i) /\ machines'[i].updatedAt = stamp[i]
<1>t. TypeOK /\ Control
  BY DEF TypeInv
<1>1. CASE Kept(i)
  BY <1>1 DEF Kept
<1>2. CASE Created(i)
  BY <1>2 DEF Created, NewMachine
<1>3. CASE Settled(i)
  BY <1>t, <1>3, StoredIsMachine, SetStateRest DEF Settled
<1>4. ASSUME NEW r \in Req, TouchedBy(r, i) PROVE Stored(i) /\ machines'[i].updatedAt = now
  BY <1>t, <1>4, StoredIsMachine, TouchedRest DEF TouchedBy
<1>5. ASSUME NEW r \in Req, MutatedBy(r, i), call[r].op # "update"
      PROVE Stored(i) /\ machines'[i].updatedAt = machines[i].updatedAt
  BY <1>t, <1>5, StoredIsMachine, MutatedRest DEF MutatedBy, Mutate, Control
<1>6. ASSUME NEW r \in Req, MutatedBy(r, i), call[r].op = "update"
      PROVE Stored(i) /\ machines'[i].updatedAt = now
  <2>1. PICK c : machines'[i] = Churn(machines[i], r, c, now)
    BY <1>6 DEF Mutated, MutatedBy
  <2>2. Stored(i) /\ machines[i] \in Machine
    BY <1>t, <1>6, StoredIsMachine DEF MutatedBy
  <2>3. Churn(machines[i], r, c, now).updatedAt = now
    BY <2>2, ChurnFields
  <2> QED
    BY <2>1, <2>2, <2>3
<1> QED
  BY <1>1, <1>2, <1>3, <1>4, <1>5, <1>6, RecordSteps

LEMMA TimesAreNat ==
    ASSUME TypeInv
    PROVE  /\ now \in Nat
           /\ \A r \in Req : stamp[r] \in Nat
           /\ \A i \in Req : Stored(i) => machines[i].updatedAt \in Nat
<1>1. TypeOK
  BY DEF TypeInv
<1> QED
  BY <1>1, StoredIsMachine DEF TypeOK, Machine

LEMMA NextTimesPast == TypeInv /\ TimesPast /\ [Next]_vars => TimesPast'
<1> SUFFICES ASSUME TypeInv, TimesPast, [Next]_vars PROVE TimesPast'
  OBVIOUS
<1>1. now \in Nat /\ now' \in Nat /\ now <= now'
  BY TimesAreNat, ClockSteps
<1>2. ASSUME NEW r \in Req PROVE stamp'[r] <= now'
  BY <1>1, ClockSteps, TimesAreNat DEF TimesPast
<1>3. ASSUME NEW i \in Req, Stored(i)' PROVE machines'[i].updatedAt <= now'
  BY <1>1, <1>3, UpdatedAtSteps, TimesAreNat DEF TimesPast
<1> QED
  BY <1>2, <1>3 DEF TimesPast

\* What is stored after a step and was known before was stored before.
LEMMA KnownWasStored ==
    ASSUME TypeInv, [Next]_vars, NEW i \in Known, Stored(i)'
    PROVE  Stored(i) /\ ~Created(i)
  BY StoredSteps DEF Known, Created, StoreMachine

LEMMA NextFreshAhead ==
    TypeInv /\ TargetsKnown /\ TimeInv /\ [Next]_vars => FreshAhead'
<1> SUFFICES ASSUME TypeInv, TargetsKnown, TimeInv, [Next]_vars, NEW q \in Req,
                    pc'[q] \in {"schedule", "ok"}, call'[q].op \in GatedOp \cup {"metadata"},
                    machines'[call'[q].id] # NoMachine
             PROVE  machines'[call'[q].id].updatedAt >= stamp'[q]
  BY DEF FreshAhead, Stored
<1>t. TypeOK /\ Control
  BY DEF TypeInv
<1>1. ~Idle(q)
  <2>1. CASE Arrival(q)
    <3>1. PICK c \in Call : Arrive(q, c)
      BY <1>t, <2>1, ArrivalCall
    <3>2. pc'[q] = Entry(c.op) /\ c.op \in Op
      BY <1>t, <3>1 DEF Arrive, Goto, TypeOK, Call
    <3> QED
      BY <3>2, EntryCases DEF Answer
  <2>2. CASE ~Arrival(q)
    BY <2>2, LeavesIdleByArrival DEF Idle
  <2> QED
    BY <2>1, <2>2
<1>2. call'[q] = call[q] /\ call[q].id \in Known
  BY <1>1, CallStays DEF TargetsKnown, MachineOp
<1>3. PICK i \in Req : i = call[q].id /\ i \in Known
  BY <1>2 DEF Known
<1>4. Stored(i) /\ Stored(i)' /\ machines'[i].updatedAt \in {machines[i].updatedAt, now}
  <2>1. Stored(i)'
    BY <1>2, <1>3 DEF Stored
  <2> QED
    BY <1>3, <2>1, KnownWasStored, UpdatedAtSteps
<1>5. machines[i].updatedAt \in Nat /\ now \in Nat /\ stamp[q] \in Nat
      /\ machines[i].updatedAt <= now /\ stamp[q] <= now
  BY <1>4, TimesAreNat DEF TimeInv, TimesPast
<1>6. CASE pc[q] \in {"schedule", "ok"}
  <2>1. stamp'[q] = stamp[q]
    BY <1>6, ClockSteps DEF ReadClock, Mutate
  <2>2. machines[i].updatedAt >= stamp[q]
    BY <1>2, <1>3, <1>4, <1>6 DEF TimeInv, FreshAhead
  <2> QED
    BY <1>2, <1>3, <1>4, <1>5, <2>1, <2>2
<1>7. CASE pc[q] \notin {"schedule", "ok"}
  <2>1. Handler(q)
    BY <1>1, <1>7, OthersStay, ArrivalFrame
  <2>2. CASE Touch(q)
    <3>1. stamp' = stamp /\ machines'[i].updatedAt = now
      <4>1. machines' = [machines EXCEPT ![i] = [machines[i] EXCEPT !.updatedAt = now]]
            /\ stamp' = stamp
        BY <1>3, <1>4, <2>2 DEF Touch, Advance, UpdateMachine, TouchTime
      <4> QED
        BY <1>t, <1>4, <4>1, StoredIsMachine, TouchedRest DEF TypeOK
    <3> QED
      BY <1>2, <1>3, <1>5, <3>1
  <2>3. CASE Mutate(q)
    <3>1. call[q].op = "update" /\ stamp'[q] = now
      BY <1>t, <1>2, <1>3, <1>4, <2>3 DEF Mutate, AfterMutation, Goto, TypeOK
    <3>2. PICK c : machines' = [machines EXCEPT ![i] = Churn(machines[i], q, c, now)]
      BY <1>3, <1>4, <2>3, <3>1 DEF Mutate, UpdateMachine, Mutated
    <3>3. machines[i] \in Machine /\ machines'[i] = Churn(machines[i], q, c, now)
      BY <1>t, <1>4, <3>2, StoredIsMachine DEF TypeOK
    <3>4. Churn(machines[i], q, c, now).updatedAt = now
      BY <3>3, ChurnFields
    <3> QED
      BY <1>2, <1>3, <1>5, <3>1, <3>3, <3>4
  <2>4. CASE \/ CreateAppStep(q) \/ ListMachines(q) \/ ClearListed(q) \/ DropApp(q)
             \/ FindApp(q) \/ ReadClock(q) \/ StoreMachine(q)
             \/ Lookup(q) \/ AcquireLease(q) \/ RefreshLease(q) \/ ReleaseLease(q)
    BY <1>t, <1>2, <2>4
    DEF CreateAppStep, ListMachines, ClearListed, DropApp, FindApp, ReadClock, StoreMachine,
        Lookup, AcquireLease, RefreshLease, ReleaseLease, Control, GatedOp, TransitionOp
  <2>5. CASE LeaseCheck(q) \/ TerminalCheck(q) \/ ClearLease(q) \/ Schedule(q)
    BY <1>t, <1>7, <2>5
    DEF LeaseCheck, TerminalCheck, ClearLease, Schedule, Goto, TypeOK
  <2> QED
    BY <2>1, <2>2, <2>3, <2>4, <2>5 DEF Handler
<1> QED
  BY <1>6, <1>7

LEMMA TimeInvHolds == Spec => [](TypeInv /\ TargetsKnown /\ TimeInv)
<1>1. Init => TargetsKnown /\ TimeInv
  BY DEF Init, StoreInit, TargetsKnown, TimeInv, TimesPast, FreshAhead, Stored, Idle
<1>2. TypeInv /\ TargetsKnown /\ TimeInv /\ [Next]_vars => TimeInv'
  BY NextTimesPast, NextFreshAhead DEF TimeInv
<1> QED
  BY TypeInvHolds, <1>1, <1>2, NextTargets, PTL DEF Spec

\* An answered mutation shows in UpdatedAt.
THEOREM MutationsShow == Spec => []UpdatedAtFresh
<1>1. TimeInv => UpdatedAtFresh
  BY DEF TimeInv, FreshAhead, UpdatedAtFresh
<1> QED
  BY TimeInvHolds, <1>1, PTL

\* UpdatedAt never goes back.
THEOREM UpdatedAtNeverGoesBack == Spec => UpdatedAtMonotone
<1>1. ASSUME TypeInv, HistoryInv, TimeInv, [Next]_vars, NEW i \in Req, Stored(i), Stored(i)'
      PROVE  machines[i].updatedAt <= machines'[i].updatedAt
  <2>1. i \in Known
    BY <1>1 DEF HistoryInv, Origins
  <2>2. machines'[i].updatedAt \in {machines[i].updatedAt, now}
    BY <1>1, <2>1, UpdatedAtSteps, KnownWasStored
  <2> QED
    BY <1>1, <2>2, TimesAreNat DEF TimeInv, TimesPast
<1>2. TypeInv /\ HistoryInv /\ TimeInv /\ [Next]_vars =>
         [\A i \in Req : (Stored(i) /\ Stored(i)') =>
             machines[i].updatedAt <= machines'[i].updatedAt]_vars
  BY <1>1
<1> QED
  BY HistoryInvHolds, TimeInvHolds, <1>2, PTL DEF Spec, UpdatedAtMonotone

---------------------------------------------------------------------------
(* Internal errors. *)

\* A deletion of its app that was not over when r looked the app up is by now.
Overtaken(r) == Deletions(call[r].app) \ seen[r] # {}

\* A create that has found its app can miss it only if it was deleted since.
ErrorInv ==
    \A r \in Req :
        /\ pc[r] \in {"readClock", "store"} =>
              /\ seen[r] \subseteq Deletions(call[r].app)
              /\ call[r].app \in apps \/ Overtaken(r)
        /\ pc[r] = "500" => Overtaken(r)

LEMMA DeletionsStay ==
    ASSUME TypeInv, [Next]_vars, NEW a
    PROVE  Deletions(a) \subseteq Deletions(a)'
<1> SUFFICES ASSUME NEW d \in Deletions(a) PROVE d \in Deletions(a)'
  OBVIOUS
<1>1. d \in Req /\ pc[d] = "ok" /\ call[d].op = "deleteApp" /\ call[d].app = a
  BY DEF Deletions
<1>2. pc'[d] = "ok" /\ call'[d] = call[d]
  BY <1>1, CallStays DEF Idle
<1> QED
  BY <1>1, <1>2 DEF Deletions

\* An app goes only by a deletion, which is answered in the same step.
LEMMA AppSteps ==
    ASSUME TypeInv, [Next]_vars, NEW a \in apps, a \notin apps'
    PROVE  Deletions(a)' \ Deletions(a) # {}
<1>t. TypeOK /\ Control
  BY DEF TypeInv
<1>1. PICK r \in Req : DropApp(r)
  <2>1. ASSUME NEW r \in Req, CreateAppStep(r) \/ StoreMachine(r) \/ Mutate(r) \/ Touch(r)
        PROVE  FALSE
    BY <2>1 DEF CreateAppStep, CreateApp, StoreMachine, CreateMachine, Mutate, Touch, Advance,
                UpdateMachine, storeVars
  <2>2. ASSUME NEW r \in Req, TimerFires(r) PROVE FALSE
    BY <2>2 DEF TimerFires, Fire, FireCreate, FireSettle, FireStop, FireSuspend, FireDestroy,
                Advance, UpdateMachine, DeleteMachine, storeVars
  <2> QED
    BY <2>1, <2>2, StoreSteps DEF storeVars
<1>2. /\ call[r].app = a /\ call' = call /\ call[r].op = "deleteApp"
      /\ pc[r] = "clearLeases" /\ pc'[r] = "ok"
  BY <1>t, <1>1 DEF DropApp, DeleteApp, storeVars, Goto, TypeOK, Control
<1>3. r \in Deletions(a)' /\ r \notin Deletions(a)
  BY <1>2 DEF Deletions
<1> QED
  BY <1>3

LEMMA NextErrorInv == TypeInv /\ ErrorInv /\ [Next]_vars => ErrorInv'
<1> SUFFICES ASSUME TypeInv, ErrorInv, [Next]_vars, NEW q \in Req, NEW a, a = call'[q].app
             PROVE  /\ pc'[q] \in {"readClock", "store"} =>
                          /\ seen'[q] \subseteq Deletions(a)'
                          /\ a \in apps' \/ Deletions(a)' \ seen'[q] # {}
                    /\ pc'[q] = "500" => Deletions(a)' \ seen'[q] # {}
  BY DEF ErrorInv, Overtaken, Deletions
<1>t. TypeOK /\ Control
  BY DEF TypeInv
<1>d. Deletions(a) \subseteq Deletions(a)'
  BY DeletionsStay
\* While the request and what it saw stay the same, the deletions only grow,
\* and the app goes only by one that was not seen.
<1>1. ASSUME seen'[q] = seen[q], seen[q] \subseteq Deletions(a)
      PROVE  /\ seen'[q] \subseteq Deletions(a)'
             /\ a \in apps => a \in apps' \/ Deletions(a)' \ seen'[q] # {}
  <2>1. ASSUME a \in apps, a \notin apps' PROVE Deletions(a)' \ seen'[q] # {}
    BY <1>1, <2>1, AppSteps
  <2> QED
    BY <1>d, <1>1, <2>1
<1>e. ASSUME call'[q] = call[q]
      PROVE  /\ pc[q] \in {"readClock", "store"} =>
                   /\ seen[q] \subseteq Deletions(a)
                   /\ a \in apps \/ Deletions(a) \ seen[q] # {}
             /\ pc[q] = "500" => Deletions(a) \ seen[q] # {}
  BY <1>e DEF ErrorInv, Overtaken
<1>2. CASE UNCHANGED <<pc[q], call[q], seen[q]>>
  <2>1. pc'[q] = pc[q] /\ call'[q] = call[q] /\ seen'[q] = seen[q]
    BY <1>2
  <2> QED
    BY <1>1, <1>d, <1>e, <2>1
<1>3. CASE Arrival(q)
  <2>1. PICK c \in Call : Arrive(q, c)
    BY <1>t, <1>3, ArrivalCall
  <2>2. pc'[q] = Entry(c.op) /\ c.op \in Op
    BY <1>t, <2>1 DEF Arrive, Goto, TypeOK, Call
  <2> QED
    BY <2>2, EntryCases DEF Answer
<1>4. CASE FindApp(q)
  <2>1. /\ call' = call /\ apps' = apps /\ pc'[q] \in {"readClock", "404"}
        /\ (pc'[q] = "readClock" => call[q].app \in apps)
        /\ seen'[q] = Deletions(call[q].app)
    BY <1>t, <1>4 DEF FindApp, Goto, TypeOK, storeVars
  <2> QED
    BY <1>d, <2>1
<1>5. CASE ReadClock(q)
  <2>1. call' = call /\ seen' = seen /\ pc[q] = "readClock" /\ pc'[q] = "store"
    BY <1>t, <1>5 DEF ReadClock, Goto, TypeOK
  <2> QED
    BY <1>1, <1>d, <1>e, <2>1
<1>6. CASE StoreMachine(q)
  <2>1. /\ call' = call /\ seen' = seen /\ pc[q] = "store"
        /\ pc'[q] \in {"ok", "schedule", "500"}
        /\ (pc'[q] = "500" => call[q].app \notin apps)
    BY <1>t, <1>6 DEF StoreMachine, Goto, TypeOK
  <2> QED
    BY <1>d, <1>e, <2>1
<1>7. CASE \/ CreateAppStep(q) \/ ListMachines(q) \/ ClearListed(q) \/ DropApp(q)
           \/ Lookup(q) \/ AcquireLease(q) \/ RefreshLease(q) \/ ReleaseLease(q)
  <2>1. pc'[q] \notin {"readClock", "store", "500"}
    BY <1>t, <1>7 DEF CreateAppStep, ListMachines, ClearListed, DropApp, Lookup, AcquireLease,
                      RefreshLease, ReleaseLease, Goto, TypeOK
  <2> QED
    BY <2>1
<1>8. CASE \/ LeaseCheck(q) \/ TerminalCheck(q) \/ Mutate(q) \/ ClearLease(q) \/ Touch(q)
           \/ Schedule(q)
  <2>1. pc'[q] \notin {"readClock", "store", "500"}
    BY <1>t, <1>8 DEF LeaseCheck, TerminalCheck, Mutate, AfterMutation, ClearLease, Touch,
                      Schedule, Goto, TypeOK
  <2> QED
    BY <2>1
<1> QED
  BY <1>2, <1>3, <1>4, <1>5, <1>6, <1>7, <1>8, OthersStay DEF Handler

\* An internal error is only ever the answer to a create that a deletion of its
\* app overtook, one that was not over when the create looked the app up.
THEOREM ErrorsMeanDeletions == Spec => []ErrorMeansAppDeleted
<1>1. Init => ErrorInv
  BY DEF Init, ErrorInv
<1>2. ErrorInv => ErrorMeansAppDeleted
  BY DEF ErrorInv, Overtaken, ErrorMeansAppDeleted
<1> QED
  BY TypeInvHolds, <1>1, <1>2, NextErrorInv, PTL DEF Spec

---------------------------------------------------------------------------
(* Nobody put a machine in a state that was not asked for. *)

Asked(i, s) == \E r \in Req : Accepted(r, i) /\ s \in OutcomesOf(call[r])

\* An armed timer is that of an operation that was answered, about the machine
\* it was for, and leads nowhere else than that operation.
TimersAsked ==
    \A t \in timers :
        /\ pc[t.by] = "ok" /\ call[t.by].id = t.id
        /\ LeadsTo(t.kind) \subseteq OutcomesOf(call[t.by])

\* A create that is about to arm its timer did not skip the launch.
LaunchWanted == \A r \in Req : (pc[r] = "schedule" /\ call[r].op = "create") => ~call[r].flag

AskedInv == StateWasAskedFor /\ TimersAsked /\ LaunchWanted

\* Once let through, a request stays let through, for the same machine.
LEMMA AcceptedStays ==
    ASSUME TypeInv, [Next]_vars, NEW q \in Req,
           pc[q] \in {"clearLease", "touch", "schedule", "ok"}
    PROVE  /\ pc'[q] \in {"clearLease", "touch", "schedule", "ok"}
           /\ call'[q] = call[q]
<1>t. TypeOK /\ Control
  BY DEF TypeInv
<1>1. CASE pc'[q] = pc[q]
  BY <1>1, CallStays DEF Idle
<1>2. CASE pc'[q] # pc[q]
  <2>1. call'[q] = call[q] /\ ~Arrival(q)
    BY CallStays, ArrivalFrame DEF Idle
  <2>2. Handler(q)
    BY <1>2, <2>1, OthersStay
  <2>3. ClearLease(q) \/ Touch(q) \/ Schedule(q)
    BY <2>2
    DEF Handler, CreateAppStep, ListMachines, ClearListed, DropApp, FindApp, ReadClock,
        StoreMachine, LeaseCheck, TerminalCheck, Mutate, Lookup, AcquireLease, RefreshLease,
        ReleaseLease
  <2>4. pc'[q] \in {"touch", "schedule", "ok"}
    BY <1>t, <2>3 DEF ClearLease, Touch, Schedule, Goto, TypeOK
  <2> QED
    BY <2>1, <2>4
<1> QED
  BY <1>1, <1>2

LEMMA AskedStays ==
    ASSUME TypeInv, [Next]_vars, NEW i \in Req, NEW s, Asked(i, s)
    PROVE  \E r \in Req : Accepted(r, i)' /\ s \in OutcomesOf(call'[r])
<1>1. PICK r \in Req : Accepted(r, i) /\ s \in OutcomesOf(call[r])
  BY DEF Asked
<1> QED
  BY <1>1, AcceptedStays DEF Accepted

\* What a handler's closure leaves behind is what its operation asks for, or
\* the state that was there.
LEMMA MutationAsks ==
    ASSUME NEW r \in Req, NEW mach \in Machine, call[r].op \in GatedOp \cup {"metadata"}
    PROVE  \/ Mutated(r, mach).state \in OutcomesOf(call[r])
           \/ Mutated(r, mach).state = mach.state
<1>1. CASE call[r].op = "update"
  BY <1>1, ChurnKeeps DEF Mutated, OutcomesOf
<1>2. CASE call[r].op \in {"cordon", "metadata"}
  BY <1>2 DEF Mutated, Machine
<1>3. CASE call[r].op \in TransitionOp \cup {"delete"}
  BY <1>3 DEF Mutated, WithState, TransientOf, TransitionOp, Machine, OutcomesOf
<1> QED
  BY <1>1, <1>2, <1>3 DEF GatedOp

LEMMA NextStateWasAskedFor ==
    TypeInv /\ AskedInv /\ [Next]_vars => StateWasAskedFor'
<1> SUFFICES ASSUME TypeInv, AskedInv, [Next]_vars, NEW i \in Req, Stored(i)'
             PROVE  \E r \in Req : Accepted(r, i)' /\ machines'[i].state \in OutcomesOf(call'[r])
  BY DEF StateWasAskedFor
<1>t. TypeOK /\ Control
  BY DEF TypeInv
<1>a. Stored(i) => Asked(i, machines[i].state)
  BY DEF AskedInv, StateWasAskedFor, Asked
<1>1. ASSUME Stored(i), machines'[i].state = machines[i].state
      PROVE  \E r \in Req : Accepted(r, i)' /\ machines'[i].state \in OutcomesOf(call'[r])
  BY <1>a, <1>1, AskedStays
<1>2. CASE Kept(i)
  BY <1>1, <1>2 DEF Kept
<1>3. CASE Created(i)
  <2>1. /\ call'[i] = call[i] /\ call[i].op = "create" /\ call[i].id = i
        /\ pc'[i] \in {"schedule", "ok"}
        /\ machines'[i].state = IF call[i].flag THEN "created" ELSE "creating"
    BY <1>t, <1>3 DEF Created, StoreMachine, NewMachine, Goto, TypeOK, Control
  <2> QED
    BY <2>1 DEF Accepted, OutcomesOf
<1>4. CASE Settled(i)
  <2>1. PICK t \in timers, s \in State :
           t.id = i /\ s \in LeadsTo(t.kind) /\ machines'[i] = SetState(machines[i], s)
    BY <1>4 DEF Settled
  <2>2. machines'[i].state = s
    BY <1>t, <1>4, <2>1, StoredIsMachine, SetStateState DEF Settled
  <2>3. t.by \in Req /\ Accepted(t.by, i) /\ s \in OutcomesOf(call[t.by])
    BY <1>t, <2>1 DEF AskedInv, TimersAsked, Accepted, TypeOK, Timer
  <2> QED
    BY <2>2, <2>3, AskedStays DEF Asked
<1>5. ASSUME NEW r \in Req, MutatedBy(r, i)
      PROVE  \E q \in Req : Accepted(q, i)' /\ machines'[i].state \in OutcomesOf(call'[q])
  <2>1. /\ Stored(i) /\ call[r].id = i /\ call' = call
        /\ call[r].op \in GatedOp \cup {"metadata"}
        /\ pc'[r] \in {"clearLease", "touch", "schedule"}
        /\ machines'[i] = Mutated(r, machines[i])
    BY <1>t, <1>5 DEF MutatedBy, Mutate, AfterMutation, Goto, TypeOK, Control
  <2>2. machines[i] \in Machine
    BY <1>t, <2>1, StoredIsMachine
  <2>3. CASE machines'[i].state \in OutcomesOf(call[r])
    BY <2>1, <2>3 DEF Accepted
  <2> QED
    BY <1>1, <2>1, <2>2, <2>3, MutationAsks
<1>6. ASSUME NEW r \in Req, TouchedBy(r, i)
      PROVE  \E q \in Req : Accepted(q, i)' /\ machines'[i].state \in OutcomesOf(call'[q])
  <2>1. machines[i] \in Machine /\ machines'[i] = [machines[i] EXCEPT !.updatedAt = now]
    BY <1>t, <1>6, StoredIsMachine DEF TouchedBy
  <2>2. machines'[i].state = machines[i].state
    BY <2>1 DEF Machine
  <2> QED
    BY <1>1, <1>6, <2>2 DEF TouchedBy
<1> QED
  BY <1>2, <1>3, <1>4, <1>5, <1>6, RecordSteps

\* A timer that was not armed before is that of a request just answered, or the
\* boot timer a create timer arms.
LEMMA NewTimers ==
    ASSUME TypeInv, [Next]_vars, NEW t \in timers', t \notin timers
    PROVE  \/ \E r \in Req : /\ Schedule(r)
                             /\ t = [id |-> call[r].id, by |-> r, kind |-> TimerOf[call[r].op]]
           \/ \E u \in timers : u.kind = "create" /\ t = [u EXCEPT !.kind = "settle"]
<1>1. ASSUME NEW r \in Req, Arrival(r) PROVE FALSE
  BY <1>1, ArrivalFrame
<1>2. ASSUME NEW r \in Req, \/ CreateAppStep(r) \/ ListMachines(r) \/ ClearListed(r) \/ DropApp(r)
                            \/ FindApp(r) \/ ReadClock(r) \/ StoreMachine(r)
                            \/ LeaseCheck(r) \/ TerminalCheck(r) \/ Mutate(r)
                            \/ ClearLease(r) \/ Touch(r)
                            \/ Lookup(r) \/ AcquireLease(r) \/ RefreshLease(r)
                            \/ ReleaseLease(r)
      PROVE FALSE
  BY <1>2 DEF CreateAppStep, ListMachines, ClearListed, DropApp, FindApp, ReadClock, StoreMachine,
              LeaseCheck, TerminalCheck, Mutate, ClearLease, Touch, Lookup, AcquireLease,
              RefreshLease, ReleaseLease
<1>3. ASSUME NEW r \in Req, Schedule(r)
      PROVE  t = [id |-> call[r].id, by |-> r, kind |-> TimerOf[call[r].op]]
  BY <1>3 DEF Schedule, Arm
<1>4. ASSUME NEW r \in Req, TimerFires(r)
      PROVE  \E u \in timers : u.kind = "create" /\ t = [u EXCEPT !.kind = "settle"]
  BY <1>4 DEF TimerFires, Fire, FireCreate, FireSettle, FireStop, FireSuspend, FireDestroy
<1>5. CASE LeaseExpires \/ Tick \/ UNCHANGED vars
  BY <1>5 DEF LeaseExpires, Tick, vars
<1> QED
  BY <1>1, <1>2, <1>3, <1>4, <1>5 DEF Next, Handler

LEMMA NextTimersAsked == TypeInv /\ AskedInv /\ [Next]_vars => TimersAsked'
<1> SUFFICES ASSUME TypeInv, AskedInv, [Next]_vars, NEW t \in timers'
             PROVE  /\ pc'[t.by] = "ok" /\ call'[t.by].id = t.id
                    /\ LeadsTo(t.kind) \subseteq OutcomesOf(call'[t.by])
  BY DEF TimersAsked
<1>t. TypeOK /\ Control
  BY DEF TypeInv
<1>1. ASSUME NEW u \in timers
      PROVE  /\ pc'[u.by] = "ok" /\ call'[u.by].id = u.id
             /\ LeadsTo(u.kind) \subseteq OutcomesOf(call'[u.by])
  <2>1. u.by \in Req /\ pc[u.by] = "ok"
    BY <1>t DEF AskedInv, TimersAsked, TypeOK, Timer
  <2>2. pc'[u.by] = "ok" /\ call'[u.by] = call[u.by]
    BY <2>1, CallStays DEF Idle
  <2> QED
    BY <2>2 DEF AskedInv, TimersAsked
<1>2. ASSUME NEW r \in Req, Schedule(r),
             t = [id |-> call[r].id, by |-> r, kind |-> TimerOf[call[r].op]]
      PROVE  /\ pc'[t.by] = "ok" /\ call'[t.by].id = t.id
             /\ LeadsTo(t.kind) \subseteq OutcomesOf(call'[t.by])
  <2>1. pc[r] = "schedule" /\ pc'[r] = "ok" /\ call' = call /\ call[r].op \in DOMAIN TimerOf
    BY <1>t, <1>2 DEF Schedule, Goto, TypeOK, Control
  <2>2. call[r].op = "create" => ~call[r].flag
    BY <2>1 DEF AskedInv, LaunchWanted
  <2>3. LeadsTo(TimerOf[call[r].op]) \subseteq OutcomesOf(call[r])
    BY <2>1, <2>2 DEF TimerOf, LeadsTo, OutcomesOf
  <2> QED
    BY <1>2, <2>1, <2>3
<1>3. ASSUME NEW u \in timers, u.kind = "create", t = [u EXCEPT !.kind = "settle"]
      PROVE  /\ pc'[t.by] = "ok" /\ call'[t.by].id = t.id
             /\ LeadsTo(t.kind) \subseteq OutcomesOf(call'[t.by])
  <2>1. t.by = u.by /\ t.id = u.id /\ t.kind = "settle"
    BY <1>t, <1>3 DEF TypeOK, Timer
  <2>2. LeadsTo("settle") \subseteq LeadsTo("create")
    BY DEF LeadsTo
  <2> QED
    BY <1>1, <1>3, <2>1, <2>2
<1> QED
  BY <1>1, <1>2, <1>3, NewTimers

LEMMA NextLaunchWanted == TypeInv /\ LaunchWanted /\ [Next]_vars => LaunchWanted'
<1> SUFFICES ASSUME TypeInv, LaunchWanted, [Next]_vars, NEW q \in Req,
                    pc'[q] = "schedule", call'[q].op = "create"
             PROVE  ~call'[q].flag
  BY DEF LaunchWanted
<1>t. TypeOK /\ Control
  BY DEF TypeInv
<1>1. CASE UNCHANGED <<pc[q], call[q], seen[q]>>
  BY <1>1 DEF LaunchWanted
<1>2. CASE Arrival(q)
  <2>1. PICK c \in Call : Arrive(q, c)
    BY <1>t, <1>2, ArrivalCall
  <2>2. pc'[q] = Entry(c.op) /\ c.op \in Op
    BY <1>t, <2>1 DEF Arrive, Goto, TypeOK, Call
  <2> QED
    BY <2>2, EntryCases
<1>3. CASE StoreMachine(q)
  BY <1>t, <1>3 DEF StoreMachine, Goto, TypeOK
<1>4. CASE Handler(q) /\ ~StoreMachine(q)
  <2>1. Mutate(q) \/ Touch(q)
    BY <1>t, <1>4
    DEF Handler, CreateAppStep, ListMachines, ClearListed, DropApp, FindApp, ReadClock,
        LeaseCheck, TerminalCheck, ClearLease, Schedule, Lookup, AcquireLease, RefreshLease,
        ReleaseLease, Goto, TypeOK
  <2>2. call' = call /\ call[q].op # "create"
    BY <1>t, <2>1 DEF Mutate, Touch, Control, GatedOp, TransitionOp
  <2> QED
    BY <2>2
<1> QED
  BY <1>1, <1>2, <1>3, <1>4, OthersStay

\* In whatever order timers and handlers overwrite one another, no machine is
\* brought to a state no accepted operation leads to.
THEOREM StatesWereAskedFor == Spec => []StateWasAskedFor
<1>1. Init => AskedInv
  BY DEF Init, StoreInit, TimersInit, AskedInv, StateWasAskedFor, TimersAsked, LaunchWanted, Stored
<1>2. TypeInv /\ AskedInv /\ [Next]_vars => AskedInv'
  BY NextStateWasAskedFor, NextTimersAsked, NextLaunchWanted DEF AskedInv
<1>3. AskedInv => StateWasAskedFor
  BY DEF AskedInv
<1> QED
  BY TypeInvHolds, <1>1, <1>2, <1>3, PTL DEF Spec

---------------------------------------------------------------------------
(* The life of a machine. *)

\* The instances of a history.
InstancesOf(v) == [j \in DOMAIN v |-> v[j].instance]

\* What Life shows of machine i.
LEMMA LifeOf ==
    ASSUME NEW i \in Req
    PROVE  /\ ~Stored(i) /\ i \notin Known => Life[i] = MachineLife!Unborn
           /\ ~Stored(i) /\ i \in Known => Life[i] = MachineLife!Gone
           /\ Stored(i) => Life[i] = MachineLife!Live(InstancesOf(machines[i].versions))
  BY DEF Life, MachineLife!Unborn, MachineLife!Gone, MachineLife!Live, InstancesOf

\* The same after a step.
LEMMA LifeAfter ==
    ASSUME NEW i \in Req
    PROVE  /\ ~Stored(i)' /\ i \notin Known' => Life'[i] = MachineLife!Unborn
           /\ ~Stored(i)' /\ i \in Known' => Life'[i] = MachineLife!Gone
           /\ Stored(i)' => Life'[i] = MachineLife!Live(InstancesOf(machines'[i].versions))
  BY DEF Life, Stored, MachineLife!Unborn, MachineLife!Gone, MachineLife!Live, InstancesOf

LEMMA Stages ==
    /\ MachineLife!Unborn.stage = "unborn" /\ MachineLife!Gone.stage = "gone"
    /\ \A h : MachineLife!Live(h).stage = "live" /\ MachineLife!Live(h).history = h
  BY DEF MachineLife!Unborn, MachineLife!Gone, MachineLife!Live

LEMMA LivingStored ==
    \A i \in Req : i \in MachineLife!Living <=> Stored(i)
<1> SUFFICES ASSUME NEW i \in Req PROVE Life[i].stage = "live" <=> Stored(i)
  BY DEF MachineLife!Living
<1>1. CASE Stored(i)
  BY <1>1, LifeOf, Stages
<1>2. CASE ~Stored(i)
  BY <1>2, LifeOf, Stages
<1> QED
  BY <1>1, <1>2

\* An instance that a request is about to use is new to the owner.
LEMMA LifeFresh ==
    ASSUME Origins, NEW n \in Req, pc[n] \notin {"schedule", "ok"}
    PROVE  MachineLife!Fresh(n)
<1> SUFFICES ASSUME NEW i \in MachineLife!Living, NEW j \in DOMAIN Life[i].history
             PROVE  Life[i].history[j] # n
  BY DEF MachineLife!Fresh
<1>1. i \in Req /\ Stored(i)
  BY LivingStored DEF MachineLife!Living
<1>2. Life[i].history = InstancesOf(machines[i].versions)
  BY <1>1, LifeOf, Stages
<1>3. j \in DOMAIN machines[i].versions
      /\ Life[i].history[j] = machines[i].versions[j].instance
  BY <1>2 DEF InstancesOf
<1> QED
  BY <1>1, <1>3, DrawnBefore

LEMMA InstancesType ==
    ASSUME NEW v \in Seq(Version)
    PROVE  /\ InstancesOf(v) \in Seq(Req)
           /\ Len(InstancesOf(v)) = Len(v)
           /\ \A j \in 1 .. Len(v) : InstancesOf(v)[j] = v[j].instance
<1> DEFINE h == InstancesOf(v)
<1>1. Len(v) \in Nat /\ DOMAIN v = 1 .. Len(v) /\ \A j \in 1 .. Len(v) : v[j] \in Version
  OBVIOUS
<1>2. \A u \in Version : u.instance \in Req
  BY DEF Version
<1>3. h = [j \in 1 .. Len(v) |-> v[j].instance]
  BY <1>1 DEF InstancesOf
<1>4. \A j \in 1 .. Len(v) : v[j].instance \in Req
  BY <1>1, <1>2
<1> HIDE DEF h
<1>5. h \in [1 .. Len(v) -> Req] /\ \A j \in 1 .. Len(v) : h[j] = v[j].instance
  BY <1>3, <1>4
<1>6. h \in Seq(Req) /\ Len(h) = Len(v)
  BY <1>1, <1>5
<1> QED
  BY <1>5, <1>6 DEF h

LEMMA ExtendedByOne ==
    ASSUME NEW S, NEW h \in Seq(S), NEW n \in S, NEW v,
           DOMAIN v = 1 .. Len(h) + 1,
           \A j \in 1 .. Len(h) : v[j].instance = h[j],
           v[Len(h) + 1].instance = n
    PROVE  InstancesOf(v) = Append(h, n)
<1> DEFINE g == InstancesOf(v)  a == Append(h, n)
<1>1. /\ g = [j \in DOMAIN g |-> g[j]] /\ DOMAIN g = 1 .. Len(h) + 1
      /\ \A j \in 1 .. Len(h) + 1 : g[j] = v[j].instance
  BY DEF InstancesOf
<1>2. /\ a \in Seq(S) /\ Len(a) = Len(h) + 1
      /\ \A j \in 1 .. Len(h) : a[j] = h[j]
      /\ a[Len(h) + 1] = n
  OBVIOUS
<1> HIDE DEF g, a
<1>3. a = [j \in DOMAIN a |-> a[j]] /\ DOMAIN a = 1 .. Len(h) + 1
  BY <1>2
<1>4. \A j \in 1 .. Len(h) + 1 : g[j] = a[j]
  BY <1>1, <1>2
<1>5. g = a
  BY <1>1, <1>3, <1>4
<1> QED
  BY <1>5 DEF g, a

LEMMA ImplementsInit == Init => MachineLife!LifeInit
<1> SUFFICES ASSUME Init PROVE MachineLife!LifeInit
  OBVIOUS
<1>1. \A i \in Req : ~Stored(i) /\ i \notin Known
  BY DEF Init, StoreInit, Stored, Known
<1>2. \A i \in Req : Life[i] = MachineLife!Unborn
  BY <1>1, LifeOf
<1>3. Life = [i \in Req |-> Life[i]]
  BY DEF Life
<1> QED
  BY <1>2, <1>3 DEF MachineLife!LifeInit

LEMMA CreatedIsStored ==
    ASSUME TypeInv, NEW i \in Req, Created(i)
    PROVE  Stored(i)'
<1> DEFINE s == IF call[i].flag THEN "created" ELSE "creating"
<1>1. /\ pc[i] = "store" /\ call[i].app \in App /\ s \in State /\ stamp[i] \in Nat
      /\ call[i].config \in {"pullable", "unpullable"}
  BY StoreAssumption DEF TypeInv, TypeOK, Control, Created, StoreMachine, State, Resting, Transient
<1>2. NewMachine(call[i].app, i, call[i].config, s, stamp[i]) \in Machine
  BY <1>1, NewMachineType
<1> QED
  BY <1>2, NoMachineAssumption DEF Created, Stored

\* One step of machine i's life, by what becomes of its record.
LEMMA LifeStep ==
    ASSUME TypeInv, HistoryInv, [Next]_vars, NEW i \in Req, Life'[i] # Life[i]
    PROVE  MachineLife!Born(i) \/ MachineLife!Replaced(i) \/ MachineLife!Dies(i)
<1> DEFINE v == machines[i].versions  w == machines'[i].versions
<1>1. CASE ~Stored(i) /\ ~Stored(i)'
  <2>1. i \in Known <=> i \in Known'
    <3>1. ASSUME Created(i) PROVE FALSE
      <4>1. Stored(i)'
        BY <3>1, CreatedIsStored
      <4> QED
        BY <1>1, <4>1
    <3> QED
      BY <3>1, KnownStays, BecomesKnown
  <2> QED
    BY <1>1, <2>1, LifeOf, LifeAfter
<1>2. CASE Stored(i) /\ ~Stored(i)'
  <2>1. i \in Known'
    BY <1>2, KnownStays DEF HistoryInv, Origins
  <2>2. Life'[i] = MachineLife!Gone /\ i \in MachineLife!Living
    BY <1>2, <2>1, LifeAfter, LivingStored
  <2> QED
    BY <2>2 DEF MachineLife!Dies
<1>3. CASE ~Stored(i) /\ Stored(i)'
  <2>1. pc[i] = "store"
    BY <1>3, StoredSteps
  <2>2. i \notin Known
    BY <2>1 DEF Known
  <2>3. MachineLife!Fresh(i)
    BY <2>1, LifeFresh DEF HistoryInv
  <2>4. DOMAIN w = 1 .. 1 /\ w[1].instance = i
    BY <1>3, InstanceSteps
  <2>5. InstancesOf(w) = <<i>>
    BY <2>4 DEF InstancesOf
  <2>6. Life[i] = MachineLife!Unborn /\ Life'[i] = MachineLife!Live(<<i>>)
    BY <1>3, <2>2, <2>5, LifeOf, LifeAfter
  <2> QED
    BY <2>3, <2>6 DEF MachineLife!Born
<1>4. CASE Stored(i) /\ Stored(i)'
  <2>1. Life[i] = MachineLife!Live(InstancesOf(v)) /\ Life'[i] = MachineLife!Live(InstancesOf(w))
    BY <1>4, LifeOf, LifeAfter
  <2>2. ~Created(i)
    BY <1>4, KnownWasStored DEF HistoryInv, Origins
  <2>3. CASE DOMAIN w = DOMAIN v /\ \A j \in DOMAIN v : w[j].instance = v[j].instance
    BY <2>1, <2>3 DEF InstancesOf
  <2>4. ASSUME NEW r \in Req,
               DOMAIN v = 1 .. Len(v), DOMAIN w = 1 .. Len(v) + 1,
               \A j \in DOMAIN v : w[j].instance = v[j].instance,
               w[Len(v) + 1].instance = r, pc[r] = "mutate"
        PROVE  MachineLife!Replaced(i)
    <3> DEFINE h == InstancesOf(v)
    <3>1. machines[i] \in Machine
      BY <1>4, StoredIsMachine DEF TypeInv
    <3>2. v \in Seq(Version) /\ \A u \in Version : u.instance \in Req
      BY <3>1 DEF Machine, Version
    <3>3. h \in Seq(Req) /\ Len(h) = Len(v) /\ \A j \in 1 .. Len(v) : h[j] = v[j].instance
      BY <3>2, InstancesType
    <3> HIDE DEF h
    <3>4. InstancesOf(w) = Append(h, r)
      <4>1. /\ DOMAIN w = 1 .. Len(h) + 1 /\ w[Len(h) + 1].instance = r
            /\ \A j \in 1 .. Len(h) : w[j].instance = h[j]
        BY <2>4, <3>3
      <4> HIDE DEF w
      <4> QED
        BY <3>3, <4>1, ExtendedByOne
    <3>5. MachineLife!Fresh(r)
      BY <2>4, LifeFresh DEF HistoryInv
    <3>6. Life[i].history = h
      BY <2>1, Stages DEF h
    <3>7. Life'[i] = MachineLife!Live(Append(Life[i].history, r))
      BY <2>1, <3>4, <3>6
    <3> QED
      BY <1>4, <3>5, <3>7, LivingStored DEF MachineLife!Replaced
  <2> QED
    BY <1>4, <2>2, <2>3, <2>4, InstanceSteps
<1> QED
  BY <1>1, <1>2, <1>3, <1>4

LEMMA ImplementsNext ==
    TypeInv /\ HistoryInv /\ [Next]_vars => [MachineLife!LifeNext]_Life
<1>1. DOMAIN Life' = Req
  BY DEF Life
<1> QED
  BY <1>1, LifeStep DEF MachineLife!LifeNext

\* The server gives every machine the life MachineLife describes: one birth,
\* a history that only grows by instances no machine had, one death and no
\* return.
THEOREM MachinesLiveOnce == Spec => ImplementsMachineLife
  BY HistoryInvHolds, ImplementsInit, ImplementsNext, PTL
  DEF Spec, ImplementsMachineLife, MachineLife!LifeSpec

=============================================================================
