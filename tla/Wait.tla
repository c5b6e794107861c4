--------------------------------- MODULE Wait ---------------------------------
(***************************************************************************)
(* The long poll of server.go (waitMachine) beside the handlers of Server: *)
(* look the machine up, compare, read the clock, sleep, look again, until  *)
(* an answer or until the request's context is done.  Store, clock and     *)
(* timers go on between any two of these steps.                            *)
(*                                                                         *)
(* The deadline is on the injected clock; the pause between two polls is   *)
(* on the machine's own, and ends at any time.  Nothing relates a wait's   *)
(* deadline to UpdatedAt, so the injected clock is here the time passed    *)
(* since a wait began (elapsed), apart from Server's `now`.                *)
(***************************************************************************)
EXTENDS Server, Durations

CONSTANTS
    Waiter,       \* the waits of a run
    WaitStates,   \* the sets of states they ask for
    RawTimeout,   \* the timeouts they ask for, as their parameter says
    AnyVersion,   \* a wait that names no version
    NoWant        \* a wait that has not begun

\* "destroyed" can be asked for though no machine in the store ever shows it.
ASSUME WaitAssumption ==
    /\ WaitStates \subseteq SUBSET (State \cup {"destroyed"})
    /\ RawTimeout \subseteq Int \cup {NoTimeout, NotANumber}
    /\ AnyVersion \notin Req

VARIABLES
    wpc,      \* the next step of each wait, or how it ended
    want,     \* what each wait is for
    elapsed,  \* how long each wait has been going on, by the injected clock
    done,     \* the waits whose request context is done
    reached   \* history: the machine was as wanted at some time up to the deadline

waitVars == <<wpc, want, elapsed, done, reached>>

Want == [id : Req, states : WaitStates, version : Req \cup {AnyVersion}, timeout : Nat]

ASSUME NoWantAssumption == NoWant \notin Want

WaitStep == {"poll", "deadline", "pause"}
WaitAnswer == {"ok", "404", "408", "dropped"}

Waiting(w) == wpc[w] \in WaitStep

\* The instances clients have been shown.
Instances == {r \in Req : /\ pc[r] \in {"schedule", "ok"}
                          /\ call[r].op \in {"create", "update"}}

\* Faulty form first: the version asked for is not compared.
MatchesAnyVersion(w) ==
    LET i == want[w].id IN
    Stored(i) /\ machines[i].state \in want[w].states
Matches(w) ==
    LET i == want[w].id IN
    /\ Stored(i)
    /\ machines[i].state \in want[w].states
    /\ want[w].version \in {AnyVersion, machines[i].instance}

WaitInit ==
    /\ Init
    /\ wpc = [w \in Waiter |-> "idle"]
    /\ want = [w \in Waiter |-> NoWant]
    /\ elapsed = [w \in Waiter |-> 0]
    /\ done = {}
    /\ reached = [w \in Waiter |-> FALSE]

WaitGoto(w, label) == wpc' = [wpc EXCEPT ![w] = label]

---------------------------------------------------------------------------
WaitArrives(w) ==
    /\ wpc[w] = "idle"
    /\ \E i \in Known, s \in WaitStates, v \in Instances \cup {AnyVersion}, raw \in RawTimeout :
          want' = [want EXCEPT ![w] =
                      [id |-> i, states |-> s, version |-> v, timeout |-> ClampTimeout(raw)]]
    /\ WaitGoto(w, "poll")
    /\ UNCHANGED <<elapsed, done>>

\* A machine that is gone counts as destroyed while its app exists.  Faulty
\* form first: being destroyed is enough.
PollDestroying(w) ==
    LET i == want[w].id IN
    /\ wpc[w] = "poll"
    /\ WaitGoto(w, CASE ~Stored(i) -> "404"
                     [] Stored(i) /\ \/ Matches(w)
                                     \/ /\ machines[i].state = "destroying"
                                        /\ "destroyed" \in want[w].states -> "ok"
                     [] OTHER -> "deadline")
    /\ UNCHANGED <<want, elapsed, done>>
Poll(w) ==
    LET i == want[w].id IN
    /\ wpc[w] = "poll"
    /\ WaitGoto(w, IF Stored(i)
                   THEN IF Matches(w) THEN "ok" ELSE "deadline"
                   ELSE IF call[i].app \in apps /\ "destroyed" \in want[w].states
                        THEN "ok" ELSE "404")
    /\ UNCHANGED <<want, elapsed, done>>

CheckDeadline(w) ==
    /\ wpc[w] = "deadline"
    /\ WaitGoto(w, IF elapsed[w] > want[w].timeout THEN "408" ELSE "pause")
    /\ UNCHANGED <<want, elapsed, done>>

\* The pause is over, or the context is done; when both are, either may be
\* taken.
Wake(w) ==
    /\ wpc[w] = "pause"
    /\ WaitGoto(w, "poll")
    /\ UNCHANGED <<want, elapsed, done>>

\* Faulty forms first: a context that is done is not looked at; the wait is
\* taken for one that has not begun.
DropNever(w) == FALSE /\ UNCHANGED <<wpc, want, elapsed, done>>
DropForgets(w) ==
    /\ wpc[w] = "pause" /\ w \in done
    /\ WaitGoto(w, "idle")
    /\ UNCHANGED <<want, elapsed, done>>
Drop(w) ==
    /\ wpc[w] = "pause" /\ w \in done
    /\ WaitGoto(w, "dropped")
    /\ UNCHANGED <<want, elapsed, done>>

\* The client goes away.
Disconnect(w) ==
    /\ Waiting(w)
    /\ done' = done \cup {w}
    /\ UNCHANGED <<wpc, want, elapsed>>

\* main.go: every request's context descends from the one cancelled here.
Shutdown ==
    /\ done' = Waiter
    /\ UNCHANGED <<wpc, want, elapsed>>

\* The injected clock moves, for all waits; no wait tells times apart that lie
\* past the longest timeout.
WaitTick ==
    /\ elapsed' = [w \in Waiter |->
                      IF Waiting(w) /\ elapsed[w] <= MaxTimeout THEN elapsed[w] + 1
                      ELSE elapsed[w]]
    /\ UNCHANGED <<wpc, want, done>>

---------------------------------------------------------------------------
WaitAction(w) == Poll(w) \/ CheckDeadline(w) \/ Wake(w) \/ Drop(w)

\* reached looks at every state, not only at those a wait polls.
Watch ==
    reached' = [w \in Waiter |->
                   \/ reached[w]
                   \/ (Waiting(w) /\ elapsed[w] <= want[w].timeout /\ Matches(w))']

WaitNext ==
    /\ \/ Next /\ UNCHANGED <<wpc, want, elapsed, done>>
       \/ /\ \/ \E w \in Waiter : WaitArrives(w) \/ WaitAction(w) \/ Disconnect(w)
             \/ Shutdown
             \/ WaitTick
          /\ UNCHANGED vars
    /\ Watch

allVars == <<vars, waitVars>>

WaitSpec == WaitInit /\ [][WaitNext]_allVars

\* A wait is scheduled and its pauses end; a select that finds the context done
\* time and again takes that branch some time, since it picks at random.  The
\* clock need not move.
FairWaitSpec ==
    /\ WaitSpec
    /\ \A w \in Waiter :
          /\ WF_allVars((Poll(w) \/ CheckDeadline(w) \/ Wake(w)) /\ UNCHANGED vars /\ Watch)
          /\ SF_allVars(Drop(w) /\ UNCHANGED vars /\ Watch)

---------------------------------------------------------------------------
(* Properties. *)

\* Every variable of the waits has its type; a wait wants something once it
\* has begun.
WaitTypeOK ==
    /\ wpc \in [Waiter -> {"idle"} \cup WaitStep \cup WaitAnswer]
    /\ want \in [Waiter -> Want \cup {NoWant}]
    /\ \A w \in Waiter : want[w] = NoWant <=> wpc[w] = "idle"
    /\ elapsed \in [Waiter -> 0 .. MaxTimeout + 1]
    /\ done \subseteq Waiter
    /\ reached \in [Waiter -> BOOLEAN]

\* "Never a false started": when a wait for a version to be started is answered
\* ok, that version was deployed with an image that boots, whatever was
\* deployed before and after it and whichever timer settled the machine
\* (server.go:600, machine.go:125-142; fidelity.md:64).
StartedVersionBoots ==
    \A w \in Waiter :
        (wpc[w] = "ok" /\ want[w].states = {"started"} /\ want[w].version # AnyVersion)
            => call[want[w].version].config # "unpullable"

\* A wait for destroyed is answered ok only when the machine is gone, and it
\* stays gone: no request or timer that is still on its way brings it back
\* (server.go:588-593).
DestroyedStaysGone ==
    \A w \in Waiter :
        (wpc[w] = "ok" /\ want[w].states = {"destroyed"}) => ~Stored(want[w].id)

\* A wait whose client has gone, or that a shutdown finds, ends without its
\* deadline having to pass (server.go:608-610, main.go:49-51, 83-85).
DoneWaitsEnd == \A w \in Waiter : (w \in done /\ Waiting(w)) ~> ~Waiting(w)

\* No wait goes on for longer than the longest timeout, whatever its client
\* asked for, also when the seconds asked for wrap around, and whatever the
\* machine goes through (server.go:604-607, 854-874; fidelity.md:91).
LateWaitsEnd ==
    \A w \in Waiter : (Waiting(w) /\ elapsed[w] > MaxTimeout) ~> ~Waiting(w)

\* No wait times out before the shortest timeout has passed: a timeout that is
\* no number, not positive or wraps around does not make it give up at once
\* (server.go:854-874; CHANGELOG.md:92).
NoHastyTimeout == \A w \in Waiter : wpc[w] = "408" => elapsed[w] > MinTimeout

\* "waitMachine blocks until the machine reaches the requested state or the
\* (clamped) timeout elapses, in which case it returns 408" (server.go:563):
\* a wait times out only if the machine did not reach the state in time.  The
\* code does not keep this: it looks at the machine only now and then, and
\* reads the clock after it looked.
TimesOutUnreached == \A w \in Waiter : wpc[w] = "408" => ~reached[w]

===============================================================================
