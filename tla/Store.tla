-------------------------------- MODULE Store --------------------------------
(***************************************************************************)
(* internal/store/store.go and the machine of internal/flaps/types.go: the *)
(* apps, their machines, and the mutations of one machine record.  Each    *)
(* store method holds Store.mu for its whole body, so a method is one      *)
(* action, and a closure passed to UpdateMachine is an operator on the     *)
(* record.  Methods return copies (cloneMachine), which are values here.   *)
(*                                                                         *)
(* The code draws machine ids and instance ids at random.  Here an id is   *)
(* named after the request that drew it: a request draws at most one of    *)
(* each, so ids are as distinct as the code takes them to be.              *)
(***************************************************************************)
EXTENDS Integers, Sequences

CONSTANTS
    App,        \* app names
    InitApps,   \* the apps that exist when the run starts
    Req,        \* client requests; also the ids they draw
    Config,     \* what clients deploy: "pullable", "unpullable" images or both
    NoMachine   \* the store holds no machine under this id

ASSUME StoreAssumption ==
    /\ InitApps \subseteq App
    /\ Config \subseteq {"pullable", "unpullable"}

VARIABLES
    apps,       \* the names in Store.apps
    machines    \* machines[i]: the machine with id i, in whichever app it is

storeVars == <<apps, machines>>

---------------------------------------------------------------------------
(* The machine record. *)

\* States a machine rests in until acted upon, and states it passes through.
\* (types.go also names "updating" and "destroyed"; nothing ever assigns them.)
Resting == {"created", "started", "stopped", "suspended", "failed"}
Transient == {"creating", "starting", "stopping", "restarting", "suspending",
              "replacing", "destroying"}

State == Resting \cup Transient

Version == [instance : Req, state : State \cup {"replaced"}]

Machine == [app : App,
            versions : Seq(Version),
            instance : Req,
            state : State,
            config : {"pullable", "unpullable"},
            updatedAt : Nat,
            cordoned : BOOLEAN]

ASSUME NoMachineAssumption == NoMachine \notin Machine

NewMachine(a, i, config, state, time) ==
    [app |-> a, versions |-> <<[instance |-> i, state |-> state]>>, instance |-> i,
     state |-> state, config |-> config, updatedAt |-> time, cordoned |-> FALSE]

\* What a handler does when an operation begins: the machine's state only, its
\* version entry waits for the timer.
WithState(mach, state) == [mach EXCEPT !.state = state]

\* What a timer does: the machine and its current version entry in step.
\* (With no version there is nothing to keep in step.)
\* Faulty form first: the version entry is forgotten.
SetStateAlone(mach, state) == [mach EXCEPT !.state = state]
SetState(mach, state) ==
    [mach EXCEPT !.state = state, !.versions[Len(mach.versions)].state = state]

FailsToBoot(mach) == mach.config = "unpullable"

\* Faulty form first: every boot comes up.
SettleStarted(mach) == SetState(mach, "started")
Settle(mach) == SetState(mach, IF FailsToBoot(mach) THEN "failed" ELSE "started")

\* Version churn of an update; config is the config to be kept when the
\* request carries none.  Faulty forms first: the superseded version is not
\* marked, and the history starts over.
ChurnUnmarked(mach, inst, config, time) ==
    [mach EXCEPT !.config = config,
                 !.instance = inst,
                 !.state = "replacing",
                 !.versions = Append(@, [instance |-> inst, state |-> "replacing"]),
                 !.updatedAt = time]
ChurnRestarted(mach, inst, config, time) ==
    [mach EXCEPT !.config = config,
                 !.instance = inst,
                 !.state = "replacing",
                 !.versions = <<[instance |-> inst, state |-> "replacing"]>>,
                 !.updatedAt = time]
Churn(mach, inst, config, time) ==
    LET superseded ==
          [mach.versions EXCEPT ![Len(mach.versions)].state = "replaced"] IN
    [mach EXCEPT !.config = config,
                 !.instance = inst,
                 !.state = "replacing",
                 !.versions = Append(superseded, [instance |-> inst, state |-> "replacing"]),
                 !.updatedAt = time]

---------------------------------------------------------------------------
(* The store's methods. *)

StoreInit ==
    /\ apps = InitApps
    /\ machines = [i \in Req |-> NoMachine]

Stored(i) == machines[i] # NoMachine

MachinesOf(a) == {i \in Req : Stored(i) /\ machines[i].app = a}

CreateApp(a) ==
    /\ a \notin apps
    /\ apps' = apps \cup {a}
    /\ UNCHANGED machines

\* Faulty form first: the machines outlive their app.
DeleteAppOnly(a) ==
    /\ a \in apps
    /\ apps' = apps \ {a}
    /\ UNCHANGED machines
DeleteApp(a) ==
    /\ a \in apps
    /\ apps' = apps \ {a}
    /\ machines' = [i \in Req |-> IF i \in MachinesOf(a) THEN NoMachine ELSE machines[i]]

CreateMachine(a, i, mach) ==
    /\ a \in apps
    /\ machines' = [machines EXCEPT ![i] = mach]
    /\ UNCHANGED apps

\* mach is the record the closure leaves behind.
UpdateMachine(i, mach) ==
    /\ Stored(i)
    /\ machines' = [machines EXCEPT ![i] = mach]
    /\ UNCHANGED apps

DeleteMachine(i) ==
    /\ Stored(i)
    /\ machines' = [machines EXCEPT ![i] = NoMachine]
    /\ UNCHANGED apps

=============================================================================
