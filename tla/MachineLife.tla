----------------------------- MODULE MachineLife -----------------------------
(***************************************************************************)
(* What a machine's owner may rely on, however many clients and timers     *)
(* write the machine: it is born once, with one instance; updates extend   *)
(* its history by instances no machine had before and take none away; and  *)
(* once it is gone, by its own deletion or with its app, it never comes    *)
(* back.  ServerProperties shows that Server implements this module.       *)
(***************************************************************************)
EXTENDS Sequences

CONSTANTS
    Id,        \* the ids of machines
    Instance   \* the ids of instances

VARIABLE life  \* life[i]: the stage machine i is in, and its instances

Unborn == [stage |-> "unborn", history |-> <<>>]
Gone == [stage |-> "gone", history |-> <<>>]
Live(history) == [stage |-> "live", history |-> history]

Living == {i \in Id : life[i].stage = "live"}

\* No living machine ever had this instance.
Fresh(n) ==
    \A i \in Living : \A j \in DOMAIN life[i].history : life[i].history[j] # n

LifeInit == life = [i \in Id |-> Unborn]

---------------------------------------------------------------------------
(* One step of machine i's life. *)

Born(i) ==
    /\ life[i] = Unborn
    /\ \E n \in Instance : Fresh(n) /\ life'[i] = Live(<<n>>)

Replaced(i) ==
    /\ i \in Living
    /\ \E n \in Instance : Fresh(n) /\ life'[i] = Live(Append(life[i].history, n))

Dies(i) ==
    /\ i \in Living
    /\ life'[i] = Gone

\* Several machines can go at once, with their app.
LifeNext ==
    /\ DOMAIN life' = Id
    /\ \A i \in Id : life'[i] # life[i] => Born(i) \/ Replaced(i) \/ Dies(i)

LifeSpec == LifeInit /\ [][LifeNext]_life

===============================================================================
