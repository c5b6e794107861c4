----------------------------- MODULE WaitProofs -----------------------------
(***************************************************************************)
(* Proofs about Durations and Wait: the timeout of a wait is in its range  *)
(* whatever its parameter says, so no wait gives up hastily; and what a    *)
(* wait answers is true of the machine, through the histories and the      *)
(* invariants proved of Server.                                            *)
(***************************************************************************)
EXTENDS Wait, HistoryProofs

---------------------------------------------------------------------------
(* Durations. *)

LEMMA MinTimeoutFits == MinTimeout \in Nat /\ MinTimeout <= MaxTimeout
  BY DurationAssumption DEF MinTimeout

\* A number that fits into a word comes out as it is: an off-by-one in the
\* wrap-around would show at either end.
THEOREM FittingIsKept ==
  ASSUME NEW n \in Duration
  PROVE  Wrapped(n) = n
<1>1. Half \in Nat /\ 2 * Half = Word
  BY DurationAssumption DEF Half
<1>2. n \in Int /\ n + Half \in 0 .. Word - 1
  BY <1>1 DEF Duration
<1>3. (n + Half) % Word = n + Half
  BY <1>1, <1>2, DurationAssumption
<1> QED
  BY <1>1, <1>2, <1>3 DEF Wrapped

\* Whatever the timeout parameter says (nothing, no number, a number of any
\* size), the timeout is between the shortest and the longest.
THEOREM TimeoutInRange ==
  ASSUME NEW raw \in Int \cup {NoTimeout, NotANumber}
  PROVE  ClampTimeout(raw) \in MinTimeout .. MaxTimeout
<1>1. CASE raw \in {NoTimeout, NotANumber}
  BY <1>1, MinTimeoutFits, DurationAssumption DEF ClampTimeout
<1>2. CASE raw \in Int /\ raw \notin {NoTimeout, NotANumber}
  <2>1. Half \in Int /\ Word \in Nat
    BY DurationAssumption DEF Half
  <2>2. raw * Second \in Int
    BY <1>2, DurationAssumption
  <2>3. (raw * Second + Half) % Word \in Int
    BY <2>1, <2>2, DurationAssumption
  <2>4. FromSeconds(raw) \in Int
    BY <2>1, <2>3 DEF FromSeconds, Wrapped
  <2> QED
    BY <1>2, <2>4, MinTimeoutFits, DurationAssumption DEF ClampTimeout
<1> QED
  BY <1>1, <1>2

\* A timeout in the range is taken as it is: the wrap-around does not reach it.
THEOREM TimeoutExact ==
  ASSUME NEW seconds \in Int,
         MinTimeout <= seconds * Second, seconds * Second <= MaxTimeout
  PROVE  ClampTimeout(seconds) = seconds * Second
<1>1. seconds \notin {NoTimeout, NotANumber}
  BY DurationAssumption
<1>2. seconds * Second \in Duration
  <2>1. Half \in Nat /\ 2 * Half = Word
    BY DurationAssumption DEF Half
  <2>2. seconds * Second \in Int
    BY DurationAssumption
  <2> QED
    BY <2>1, <2>2, MinTimeoutFits, DurationAssumption DEF Duration
<1>3. FromSeconds(seconds) = seconds * Second
  BY <1>2, FittingIsKept DEF FromSeconds
<1>4. seconds * Second \in Int /\ MaxTimeout \in Int /\ MinTimeout \in Int
  BY MinTimeoutFits, DurationAssumption
<1> QED
  BY <1>1, <1>3, <1>4 DEF ClampTimeout

---------------------------------------------------------------------------
(* Wait.  No timeout outside the range is ever waited for, and the 408s that *)
(* have been given are of waits that went on for longer than the shortest.   *)

TimeoutsInRange ==
    \A w \in Waiter : want[w] # NoWant => want[w].timeout \in MinTimeout .. MaxTimeout

WaitIInv == WaitTypeOK /\ TimeoutsInRange /\ NoHastyTimeout

\* What the waits do, apart from the server and from what is only watched.
WaitMoves ==
    \/ UNCHANGED <<wpc, want, elapsed, done>>
    \/ \E w \in Waiter : WaitArrives(w) \/ WaitAction(w) \/ Disconnect(w)
    \/ Shutdown
    \/ WaitTick

LEMMA ElapsedIsInt ==
  ASSUME WaitTypeOK, NEW w \in Waiter
  PROVE  elapsed[w] \in Int /\ MinTimeout \in Int /\ MaxTimeout \in Int
  BY MinTimeoutFits, DurationAssumption DEF WaitTypeOK

LEMMA NewWantIsWant ==
  ASSUME NEW i \in Known, NEW s \in WaitStates, NEW v \in Instances \cup {AnyVersion},
         NEW raw \in RawTimeout
  PROVE  LET n == [id |-> i, states |-> s, version |-> v, timeout |-> ClampTimeout(raw)]
         IN  n \in Want /\ n # NoWant /\ n.timeout \in MinTimeout .. MaxTimeout
<1> DEFINE n == [id |-> i, states |-> s, version |-> v, timeout |-> ClampTimeout(raw)]
<1>1. ClampTimeout(raw) \in MinTimeout .. MaxTimeout
  BY TimeoutInRange, WaitAssumption
<1>2. ClampTimeout(raw) \in Nat
  BY <1>1, MinTimeoutFits, DurationAssumption
<1>3. i \in Req /\ v \in Req \cup {AnyVersion}
  BY DEF Known, Instances
<1>4. n \in Want
  BY <1>2, <1>3 DEF Want
<1> QED
  BY <1>1, <1>4, NoWantAssumption

LEMMA ArrivesKeeps ==
  ASSUME WaitIInv, NEW w \in Waiter, WaitArrives(w)
  PROVE  /\ wpc' \in [Waiter -> {"idle"} \cup WaitStep \cup WaitAnswer]
         /\ want' \in [Waiter -> Want \cup {NoWant}]
         /\ \A v \in Waiter : want'[v] = NoWant <=> wpc'[v] = "idle"
         /\ TimeoutsInRange'
         /\ \A v \in Waiter : wpc'[v] = "408" => wpc[v] = "408"
<1>1. PICK n \in Want : /\ n # NoWant /\ n.timeout \in MinTimeout .. MaxTimeout
                        /\ want' = [want EXCEPT ![w] = n]
  BY NewWantIsWant DEF WaitArrives
<1>2. wpc' = [wpc EXCEPT ![w] = "poll"]
  BY DEF WaitArrives, WaitGoto
<1>3. want'[w] = n /\ wpc'[w] = "poll"
  BY <1>1, <1>2 DEF WaitIInv, WaitTypeOK
<1>4. \A v \in Waiter : v # w => want'[v] = want[v] /\ wpc'[v] = wpc[v]
  BY <1>1, <1>2 DEF WaitIInv, WaitTypeOK
<1>5. TimeoutsInRange'
  BY <1>1, <1>3, <1>4 DEF WaitIInv, TimeoutsInRange, MinTimeout
<1>6. want' \in [Waiter -> Want \cup {NoWant}]
  BY <1>1 DEF WaitIInv, WaitTypeOK
<1>7. wpc' \in [Waiter -> {"idle"} \cup WaitStep \cup WaitAnswer]
  BY <1>2 DEF WaitIInv, WaitTypeOK, WaitStep
<1> QED
  BY <1>1, <1>3, <1>4, <1>5, <1>6, <1>7 DEF WaitIInv, WaitTypeOK

\* A step of a wait that has begun: it wants what it wanted, and times out
\* only past its timeout.
LEMMA ActionKeeps ==
  ASSUME WaitIInv, NEW w \in Waiter, WaitAction(w)
  PROVE  /\ UNCHANGED <<want, elapsed, done>>
         /\ wpc[w] # "idle"
         /\ \E label \in (WaitStep \cup WaitAnswer) :
               /\ WaitGoto(w, label)
               /\ label = "408" => elapsed[w] > want[w].timeout
<1>1. CASE Poll(w)
  <2>1. \/ WaitGoto(w, "ok") \/ WaitGoto(w, "404") \/ WaitGoto(w, "deadline")
    BY <1>1, Zenon DEF Poll
  <2>2. wpc[w] # "idle" /\ UNCHANGED <<want, elapsed, done>>
    BY <1>1 DEF Poll
  <2> QED
    BY <2>1, <2>2 DEF WaitStep, WaitAnswer
<1>2. CASE CheckDeadline(w)
  <2>1. \/ WaitGoto(w, "408") /\ elapsed[w] > want[w].timeout
        \/ WaitGoto(w, "pause")
    BY <1>2, Zenon DEF CheckDeadline
  <2>2. wpc[w] # "idle" /\ UNCHANGED <<want, elapsed, done>>
    BY <1>2 DEF CheckDeadline
  <2> QED
    BY <2>1, <2>2 DEF WaitStep, WaitAnswer
<1>3. CASE Wake(w) \/ Drop(w)
  BY <1>3 DEF Wake, Drop, WaitStep, WaitAnswer, WaitGoto
<1> QED
  BY <1>1, <1>2, <1>3 DEF WaitAction

LEMMA MovesKeep ==
  ASSUME WaitIInv, WaitMoves
  PROVE  /\ wpc' \in [Waiter -> {"idle"} \cup WaitStep \cup WaitAnswer]
         /\ want' \in [Waiter -> Want \cup {NoWant}]
         /\ \A v \in Waiter : want'[v] = NoWant <=> wpc'[v] = "idle"
         /\ TimeoutsInRange' /\ NoHastyTimeout'
<1>1. ASSUME NEW w \in Waiter, WaitArrives(w)
      PROVE  elapsed' = elapsed /\ NoHastyTimeout'
  <2>1. elapsed' = elapsed
    BY <1>1 DEF WaitArrives
  <2> QED
    BY <1>1, <2>1, ArrivesKeeps DEF WaitIInv, NoHastyTimeout, MinTimeout
<1>2. ASSUME NEW w \in Waiter, WaitAction(w)
      PROVE  /\ wpc' \in [Waiter -> {"idle"} \cup WaitStep \cup WaitAnswer]
             /\ want' = want
             /\ \A v \in Waiter : want'[v] = NoWant <=> wpc'[v] = "idle"
             /\ NoHastyTimeout'
  <2>1. PICK label \in (WaitStep \cup WaitAnswer) :
           WaitGoto(w, label) /\ (label = "408" => elapsed[w] > want[w].timeout)
    BY <1>2, ActionKeeps
  <2>2. want' = want /\ elapsed' = elapsed /\ wpc[w] # "idle"
    BY <1>2, ActionKeeps
  <2>3. wpc'[w] = label /\ \A v \in Waiter : v # w => wpc'[v] = wpc[v]
    BY <2>1 DEF WaitGoto, WaitIInv, WaitTypeOK
  <2>4. label # "idle"
    BY DEF WaitStep, WaitAnswer
  <2>5. want[w].timeout \in MinTimeout .. MaxTimeout
    BY <2>2 DEF WaitIInv, WaitTypeOK, TimeoutsInRange
  <2>6. label = "408" => elapsed[w] > MinTimeout
    BY <2>1, <2>5, ElapsedIsInt DEF WaitIInv
  <2>7. NoHastyTimeout'
    BY <2>2, <2>3, <2>6 DEF WaitIInv, NoHastyTimeout, MinTimeout
  <2>8. wpc' \in [Waiter -> {"idle"} \cup WaitStep \cup WaitAnswer]
    BY <2>1 DEF WaitGoto, WaitIInv, WaitTypeOK
  <2> QED
    BY <2>2, <2>3, <2>4, <2>7, <2>8 DEF WaitIInv, WaitTypeOK
<1>3. CASE \/ UNCHANGED <<wpc, want, elapsed, done>>
           \/ \E w \in Waiter : Disconnect(w)
           \/ Shutdown
  <2>1. UNCHANGED <<wpc, want, elapsed>>
    BY <1>3 DEF Disconnect, Shutdown
  <2> QED
    BY <2>1 DEF WaitIInv, WaitTypeOK, TimeoutsInRange, NoHastyTimeout, MinTimeout
<1>4. CASE WaitTick
  <2>1. UNCHANGED <<wpc, want>> /\ \A w \in Waiter : elapsed'[w] \in {elapsed[w], elapsed[w] + 1}
    BY <1>4 DEF WaitTick
  <2>2. \A w \in Waiter : elapsed[w] > MinTimeout => elapsed'[w] > MinTimeout
    BY <2>1, ElapsedIsInt DEF WaitIInv
  <2> QED
    BY <2>1, <2>2 DEF WaitIInv, WaitTypeOK, TimeoutsInRange, NoHastyTimeout, MinTimeout
<1>5. ASSUME NEW w \in Waiter, WaitAction(w) PROVE TimeoutsInRange'
  BY <1>2, <1>5 DEF WaitIInv, TimeoutsInRange, MinTimeout
<1>6. ASSUME NEW w \in Waiter, WaitAction(w) PROVE want' \in [Waiter -> Want \cup {NoWant}]
  BY <1>2, <1>6 DEF WaitIInv, WaitTypeOK
<1> QED
  BY <1>1, <1>2, <1>3, <1>4, <1>5, <1>6, ArrivesKeeps DEF WaitMoves

LEMMA TimesKeep ==
  ASSUME WaitIInv, WaitMoves
  PROVE  elapsed' \in [Waiter -> 0 .. MaxTimeout + 1] /\ done' \subseteq Waiter
<1>1. CASE \E w \in Waiter : WaitArrives(w) \/ WaitAction(w)
  BY <1>1, ActionKeeps DEF WaitArrives, WaitIInv, WaitTypeOK
<1>2. CASE UNCHANGED <<wpc, want, elapsed, done>> \/ (\E w \in Waiter : Disconnect(w)) \/ Shutdown
  BY <1>2 DEF Disconnect, Shutdown, WaitIInv, WaitTypeOK
<1>3. CASE WaitTick
  <2>1. ASSUME NEW w \in Waiter
        PROVE  (IF Waiting(w) /\ elapsed[w] <= MaxTimeout THEN elapsed[w] + 1 ELSE elapsed[w])
                  \in 0 .. MaxTimeout + 1
    BY DurationAssumption DEF WaitIInv, WaitTypeOK
  <2> QED
    BY <1>3, <2>1 DEF WaitTick, WaitIInv, WaitTypeOK
<1> QED
  BY <1>1, <1>2, <1>3 DEF WaitMoves

LEMMA NextWaitIInv == WaitIInv /\ [WaitNext]_allVars => WaitIInv'
<1> SUFFICES ASSUME WaitIInv, [WaitNext]_allVars PROVE WaitIInv'
  OBVIOUS
<1>1. CASE WaitNext
  <2>1. WaitMoves
    BY <1>1 DEF WaitNext, WaitMoves
  <2>2. reached' \in [Waiter -> BOOLEAN]
    BY <1>1 DEF WaitNext, Watch, WaitIInv, WaitTypeOK
  <2> QED
    BY <2>1, <2>2, MovesKeep, TimesKeep DEF WaitIInv, WaitTypeOK
<1>2. CASE UNCHANGED allVars
  BY <1>2 DEF allVars, waitVars, WaitIInv, WaitTypeOK, TimeoutsInRange, NoHastyTimeout, MinTimeout
<1> QED
  BY <1>1, <1>2

LEMMA WaitIInvHolds == WaitSpec => []WaitIInv
<1>1. WaitInit => WaitIInv
  BY DurationAssumption, NoWantAssumption
     DEF WaitInit, WaitIInv, WaitTypeOK, TimeoutsInRange, NoHastyTimeout
<1> QED
  BY <1>1, NextWaitIInv, PTL DEF WaitSpec

\* Every variable of the waits keeps its type.
THEOREM WaitTypesHold == WaitSpec => []WaitTypeOK
<1>1. WaitIInv => WaitTypeOK
  BY DEF WaitIInv
<1> QED
  BY WaitIInvHolds, <1>1, PTL

\* No wait times out before the shortest timeout has passed, whatever its
\* client asked for and whatever the server does meanwhile.
THEOREM NoWaitIsHasty == WaitSpec => []NoHastyTimeout
<1>1. WaitIInv => NoHastyTimeout
  BY DEF WaitIInv
<1> QED
  BY WaitIInvHolds, <1>1, PTL

---------------------------------------------------------------------------
(* What a wait's answer says about its machine. *)

\* A wait asks for a machine, and perhaps an instance, that clients have seen.
WantsSeen ==
    \A w \in Waiter : wpc[w] # "idle" =>
        /\ want[w].id \in Known
        /\ want[w].version \in Instances \cup {AnyVersion}

AnswerInv == WantsSeen /\ StartedVersionBoots /\ DestroyedStaysGone

\* What the waits rely on in the server.
ServerInv == TypeInv /\ HistoryInv /\ BootVerdict /\ InstanceConfig

LEMMA ServerRuns == WaitSpec => Spec
<1>1. WaitInit => Init
  BY DEF WaitInit
<1>2. [WaitNext]_allVars => [Next]_vars
  BY DEF WaitNext, allVars
<1> QED
  BY <1>1, <1>2, PTL DEF WaitSpec, Spec

LEMMA ServerInvHolds == WaitSpec => []ServerInv
  BY ServerRuns, HistoryInvHolds, BootVerdictHolds, InstanceConfigHolds, PTL DEF ServerInv

LEMMA InstancesStay ==
    ASSUME TypeInv, [Next]_vars, NEW n \in Instances
    PROVE  n \in Instances' /\ call'[n] = call[n]
<1>1. n \in Req /\ ~Idle(n)
  BY DEF Instances, Idle
<1> QED
  BY <1>1, CallStays DEF Instances

\* A machine that is gone stays gone.
LEMMA GoneStays ==
    ASSUME TypeInv, [Next]_vars, NEW i \in Known, ~Stored(i)
    PROVE  ~Stored(i)'
  BY StoredSteps DEF Known

\* AnswerInv of one wait after a step.
AnswerAfter(w) ==
    /\ wpc'[w] # "idle" => /\ want'[w].id \in Known'
                           /\ want'[w].version \in Instances' \cup {AnyVersion}
    /\ (wpc'[w] = "ok" /\ want'[w].states = {"started"} /\ want'[w].version # AnyVersion)
          => call'[want'[w].version].config # "unpullable"
    /\ (wpc'[w] = "ok" /\ want'[w].states = {"destroyed"}) => machines'[want'[w].id] = NoMachine

\* A step that leaves a wait alone leaves its answer true.
LEMMA AnswerKept ==
    ASSUME TypeInv, AnswerInv, [Next]_vars, NEW w \in Waiter,
           wpc'[w] = wpc[w], want'[w] = want[w]
    PROVE  AnswerAfter(w)
<1> SUFFICES ASSUME wpc[w] # "idle"
             PROVE  /\ want[w].id \in Known'
                    /\ want[w].version \in Instances' \cup {AnyVersion}
                    /\ (wpc[w] = "ok" /\ want[w].states = {"started"} /\ want[w].version # AnyVersion)
                          => call'[want[w].version].config # "unpullable"
                    /\ (wpc[w] = "ok" /\ want[w].states = {"destroyed"})
                          => machines'[want[w].id] = NoMachine
  BY DEF AnswerAfter
<1> DEFINE i == want[w].id  n == want[w].version
<1>1. i \in Known /\ n \in Instances \cup {AnyVersion}
  BY DEF AnswerInv, WantsSeen
<1>2. i \in Known'
  BY <1>1, KnownStays
<1>3. n \in Instances => n \in Instances' /\ call'[n] = call[n]
  BY InstancesStay
<1>4. (wpc[w] = "ok" /\ want[w].states = {"destroyed"}) => machines'[i] = NoMachine
  <2>1. (wpc[w] = "ok" /\ want[w].states = {"destroyed"}) => ~Stored(i)
    BY DEF AnswerInv, DestroyedStaysGone
  <2> HIDE DEF i
  <2> QED
    BY <1>1, <2>1, GoneStays DEF Stored
<1>5. (wpc[w] = "ok" /\ want[w].states = {"started"} /\ n # AnyVersion)
         => call[n].config # "unpullable"
  BY DEF AnswerInv, StartedVersionBoots
<1> HIDE DEF i, n
<1>6. /\ i \in Known' /\ n \in Instances' \cup {AnyVersion}
      /\ (wpc[w] = "ok" /\ want[w].states = {"started"} /\ n # AnyVersion)
            => call'[n].config # "unpullable"
      /\ (wpc[w] = "ok" /\ want[w].states = {"destroyed"}) => machines'[i] = NoMachine
  BY <1>1, <1>2, <1>3, <1>4, <1>5
<1> QED
  BY <1>6 DEF i, n

\* A poll that answers ok answers truly.
LEMMA PollTrue ==
    ASSUME WaitIInv, ServerInv, WantsSeen, NEW w \in Waiter, Poll(w), wpc'[w] = "ok"
    PROVE  /\ (want[w].states = {"started"} /\ want[w].version # AnyVersion)
                => call[want[w].version].config # "unpullable"
           /\ want[w].states = {"destroyed"} => ~Stored(want[w].id)
<1> DEFINE i == want[w].id  n == want[w].version
<1>1. i \in Req
  BY DEF WantsSeen, Poll, Known
<1>2. \/ Stored(i) /\ Matches(w)
      \/ ~Stored(i) /\ "destroyed" \in want[w].states
  BY DEF Poll, WaitGoto, WaitIInv, WaitTypeOK
<1>3. CASE Stored(i) /\ Matches(w)
  <2>1. machines[i].state \in want[w].states /\ n \in {AnyVersion, machines[i].instance}
    BY <1>3 DEF Matches
  <2>2. machines[i].state \in State
    BY <1>1, <1>3, StoredIsMachine DEF ServerInv, TypeInv, Machine
  <2>3. "destroyed" \notin State
    BY DEF State, Resting, Transient
  <2>4. ASSUME want[w].states = {"started"}, n # AnyVersion
        PROVE  call[n].config # "unpullable"
    <3>1. machines[i].config = "pullable"
      BY <1>1, <1>3, <2>1, <2>4 DEF ServerInv, BootVerdict
    <3>2. call[n].config \in {KeepConfig, "pullable"}
      BY <1>1, <1>3, <2>1, <2>4, <3>1 DEF ServerInv, InstanceConfig
    <3> QED
      BY <3>2, ServerAssumption
  <2>5. want[w].states # {"destroyed"}
    BY <2>1, <2>2, <2>3
  <2> QED
    BY <2>4, <2>5
<1>4. CASE ~Stored(i) /\ "destroyed" \in want[w].states
  <2>1. want[w].states # {"started"}
    BY <1>4
  <2> QED
    BY <1>4, <2>1
<1> QED
  BY <1>2, <1>3, <1>4

\* Only a poll answers ok.
LEMMA OkByPoll ==
    ASSUME WaitIInv, NEW w \in Waiter, WaitAction(w), wpc'[w] = "ok"
    PROVE  Poll(w)
  BY DEF WaitAction, CheckDeadline, Wake, Drop, WaitGoto, WaitIInv, WaitTypeOK

LEMMA ActionAnswer ==
    ASSUME WaitIInv, ServerInv, AnswerInv, UNCHANGED vars,
           NEW v \in Waiter, WaitAction(v), NEW w \in Waiter
    PROVE  AnswerAfter(w)
<1>1. UNCHANGED want /\ wpc[v] # "idle" /\ \A u \in Waiter : u # v => wpc'[u] = wpc[u]
  BY ActionKeeps DEF WaitGoto, WaitIInv, WaitTypeOK
<1>2. CASE w # v
  BY <1>1, <1>2, AnswerKept DEF ServerInv
<1>3. CASE w = v
  <2>1. UNCHANGED <<pc, call, machines>>
    BY DEF vars, storeVars, handlerVars
  <2>2. Known' = Known /\ Instances' = Instances
    BY <2>1 DEF Known, Instances
  <2>3. want[w].id \in Known /\ want[w].version \in Instances \cup {AnyVersion}
    BY <1>1, <1>3 DEF AnswerInv, WantsSeen
  <2>4. wpc'[w] = "ok" =>
           /\ (want[w].states = {"started"} /\ want[w].version # AnyVersion)
                 => call[want[w].version].config # "unpullable"
           /\ want[w].states = {"destroyed"} => ~Stored(want[w].id)
    BY <1>3, OkByPoll, PollTrue DEF AnswerInv
  <2> QED
    BY <1>1, <2>1, <2>2, <2>3, <2>4 DEF AnswerAfter, Stored
<1> QED
  BY <1>2, <1>3

LEMMA ArrivalAnswer ==
    ASSUME WaitIInv, ServerInv, AnswerInv, UNCHANGED vars,
           NEW v \in Waiter, WaitArrives(v), NEW w \in Waiter
    PROVE  AnswerAfter(w)
<1>1. CASE w # v
  <2>1. wpc'[w] = wpc[w] /\ want'[w] = want[w]
    BY <1>1 DEF WaitArrives, WaitGoto, WaitIInv, WaitTypeOK
  <2> QED
    BY <2>1, AnswerKept DEF ServerInv
<1>2. CASE w = v
  <2>1. PICK i \in Known, s \in WaitStates, n \in Instances \cup {AnyVersion}, raw \in RawTimeout :
           want' = [want EXCEPT ![w] =
                      [id |-> i, states |-> s, version |-> n, timeout |-> ClampTimeout(raw)]]
    BY <1>2 DEF WaitArrives
  <2>2. want'[w].id = i /\ want'[w].version = n /\ wpc'[w] = "poll"
    BY <1>2, <2>1 DEF WaitArrives, WaitGoto, WaitIInv, WaitTypeOK
  <2>3. UNCHANGED <<pc, call>>
    BY DEF vars, handlerVars
  <2>4. Known' = Known /\ Instances' = Instances
    BY <2>3 DEF Known, Instances
  <2> QED
    BY <2>2, <2>4 DEF AnswerAfter
<1> QED
  BY <1>1, <1>2

LEMMA NextAnswerInv ==
    WaitIInv /\ ServerInv /\ AnswerInv /\ [WaitNext]_allVars => AnswerInv'
<1> SUFFICES ASSUME WaitIInv, ServerInv, AnswerInv, [WaitNext]_allVars, NEW w \in Waiter
             PROVE  AnswerAfter(w)
  BY DEF AnswerInv, WantsSeen, StartedVersionBoots, DestroyedStaysGone, AnswerAfter, Stored
<1>1. CASE UNCHANGED <<wpc, want>> /\ [Next]_vars
  BY <1>1, AnswerKept DEF ServerInv
<1>2. ASSUME NEW v \in Waiter, WaitArrives(v) \/ WaitAction(v), UNCHANGED vars
      PROVE  AnswerAfter(w)
  BY <1>2, ActionAnswer, ArrivalAnswer
<1>3. ASSUME (\E v \in Waiter : Disconnect(v)) \/ Shutdown \/ WaitTick, UNCHANGED vars
      PROVE  UNCHANGED <<wpc, want>> /\ [Next]_vars
  BY <1>3 DEF Disconnect, Shutdown, WaitTick
<1>4. CASE UNCHANGED allVars
  BY <1>1, <1>4 DEF allVars, waitVars
<1> QED
  BY <1>1, <1>2, <1>3, <1>4 DEF WaitNext

LEMMA AnswerInvHolds == WaitSpec => []AnswerInv
<1>1. WaitInit => AnswerInv
  BY DEF WaitInit, AnswerInv, WantsSeen, StartedVersionBoots, DestroyedStaysGone
<1> QED
  BY WaitIInvHolds, ServerInvHolds, <1>1, NextAnswerInv, PTL DEF WaitSpec

\* Never a false started: a wait for a version to be started is answered ok
\* only when that version was deployed with an image that boots.
THEOREM StartedMeansBoots == WaitSpec => []StartedVersionBoots
<1>1. AnswerInv => StartedVersionBoots
  BY DEF AnswerInv
<1> QED
  BY AnswerInvHolds, <1>1, PTL

\* A wait for destroyed is answered ok only when the machine is gone for good.
THEOREM DestroyedMeansGone == WaitSpec => []DestroyedStaysGone
<1>1. AnswerInv => DestroyedStaysGone
  BY DEF AnswerInv
<1> QED
  BY AnswerInvHolds, <1>1, PTL

=============================================================================
