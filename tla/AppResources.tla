---------------------------- MODULE AppResources ----------------------------
(***************************************************************************)
(* The resources of an app besides its machines: volumes, secrets, IP      *)
(* assignments and certificates (internal/store/store.go from line 255 on, *)
(* and server/volumes.go, secrets.go, ips.go, certs.go).  A handler that   *)
(* creates one looks the app up, reads the clock and writes, in three      *)
(* calls with nothing held in between; the other handlers are one call.    *)
(* pc[r] names the call request r makes next, or its answer.  Bodies are   *)
(* well formed: one that is not is answered 400 and touches nothing.       *)
(*                                                                         *)
(* The four kinds differ in what names them: a volume is named by an id    *)
(* drawn for it (here: the request that drew it), a secret and a           *)
(* certificate by its client, an IP assignment by an address the server    *)
(* picks, which may be one already assigned (allocateIP does not look).    *)
(***************************************************************************)
EXTENDS Integers, FiniteSets

CONSTANTS
    App,        \* app names
    InitApps,   \* the apps that exist when the run starts
    Req,        \* client requests; also the volume ids they draw
    Name,       \* names of secrets, hostnames
    Address,    \* what allocateIP can return
    NoApp,      \* no app of this name exists
    OldLife,    \* the life of an app of InitApps
    NoCall,     \* the request has not arrived yet
    MaxTime     \* the bound of the clock in a run

ASSUME ResourceAssumption ==
    /\ InitApps \subseteq App
    /\ NoApp \notin Req \cup {OldLife}
    /\ OldLife \notin Req
    /\ MaxTime \in Nat

VARIABLES
    life,        \* life[a]: the createApp that made app a, or NoApp
    items,       \* items[a]: what appEntry's four maps hold
    secretsVer,  \* appEntry.secretsVer
    now,         \* the injected clock
    pc,          \* the next call of each request's handler, or its answer
    call,        \* what each request asks for
    stamp,       \* the time a request read before its write
    version,     \* the secrets version a request was answered with
    asked,       \* history: when a request arrived
    found,       \* history: the life of the app a request found when it looked
    landed       \* history: the life of the app each write landed in, and its
                 \* place among all writes

storeVars == <<life, items, secretsVer>>
handlerVars == <<pc, call, stamp, version, asked, found, landed>>
vars == <<storeVars, now, handlerVars>>

---------------------------------------------------------------------------
(* What an app has, and what clients ask for. *)

Kind == {"volume", "secret", "ip", "cert"}
Key == Req \cup Name \cup Address

\* What an update of a volume may set, each on its own (UpdateVolumeRequest).
Part == {"retention", "backup"}

Op == {"createApp", "deleteApp", "put", "update", "delete"}

\* parts: what an update sets; a put writes the whole item.
Call == [op : Op, app : App, kind : Kind, key : Key, parts : SUBSET Part]

ASSUME NoCallAssumption == NoCall \notin Call

\* data: the request that last wrote each part.  Only a secret has an `updated`
\* of its own, and a certificate has no time at all: its times are 0.
Item == [kind : Kind, key : Key, data : [Part -> Req], created : Nat, updated : Nat]

Answer == {"ok", "404", "409", "500"}
Step == {"app", "findApp", "readClock", "write"}

Landing == [life : Req \cup {NoApp, OldLife}, place : Nat]

\* The request has not written (yet).
Nowhere == [life |-> NoApp, place |-> 0]

Idle(r) == pc[r] = "idle"

\* The items under a's entry with the kind and key that c is about.
Named(c) == {i \in items[c.app] : i.kind = c.kind /\ i.key = c.key}

\* Volume ids clients can know.
KnownVolumes == {r \in Req : /\ pc[r] = "ok"
                             /\ call[r].op = "put" /\ call[r].kind = "volume"}

\* What a deletion of each kind can name.
Keys(kind) ==
    CASE kind = "volume" -> KnownVolumes
      [] kind = "ip" -> Address
      [] OTHER -> Name

Init ==
    /\ life = [a \in App |-> IF a \in InitApps THEN OldLife ELSE NoApp]
    /\ items = [a \in App |-> {}]
    /\ secretsVer = [a \in App |-> 0]
    /\ now = 0
    /\ pc = [r \in Req |-> "idle"]
    /\ call = [r \in Req |-> NoCall]
    /\ stamp = [r \in Req |-> 0]
    /\ version = [r \in Req |-> 0]
    /\ asked = [r \in Req |-> 0]
    /\ found = [r \in Req |-> NoApp]
    /\ landed = [r \in Req |-> Nowhere]

Goto(r, label) == pc' = [pc EXCEPT ![r] = label]

---------------------------------------------------------------------------
(* Requests arrive. *)

Arrive(r, c, first) ==
    /\ Idle(r)
    /\ call' = [call EXCEPT ![r] = c]
    /\ asked' = [asked EXCEPT ![r] = now]
    /\ Goto(r, first)
    /\ UNCHANGED <<storeVars, now, stamp, version, found, landed>>

ArriveApp(r) ==
    \E a \in App, op \in {"createApp", "deleteApp"} :
        Arrive(r, [op |-> op, app |-> a, kind |-> "volume", key |-> r, parts |-> {}], "app")

ArrivePut(r, kind, key) ==
    \E a \in App :
        Arrive(r, [op |-> "put", app |-> a, kind |-> kind, key |-> key, parts |-> Part],
               "findApp")

ArriveVolume(r) == ArrivePut(r, "volume", r)
ArriveSecret(r) == \E name \in Name : ArrivePut(r, "secret", name)
ArriveIP(r) == \E addr \in Address : ArrivePut(r, "ip", addr)
ArriveCertificate(r) == \E hostname \in Name : ArrivePut(r, "cert", hostname)

ArriveUpdate(r) ==
    \E a \in App, k \in KnownVolumes, parts \in SUBSET Part :
        Arrive(r, [op |-> "update", app |-> a, kind |-> "volume", key |-> k,
                   parts |-> parts], "write")

ArriveDelete(r) ==
    \E a \in App, kind \in Kind : \E k \in Keys(kind) :
        Arrive(r, [op |-> "delete", app |-> a, kind |-> kind, key |-> k, parts |-> {}],
               "write")

---------------------------------------------------------------------------
(* The handlers' calls. *)

\* The place of r's write among all writes.
Lands(r) ==
    landed' = [landed EXCEPT ![r] =
                  [life |-> life[call[r].app],
                   place |-> 1 + Cardinality({q \in Req : landed[q] # Nowhere})]]

CreateApp(r) ==
    LET a == call[r].app IN
    /\ pc[r] = "app" /\ call[r].op = "createApp"
    /\ IF life[a] # NoApp
       THEN Goto(r, "409") /\ UNCHANGED storeVars
       ELSE /\ Goto(r, "ok")
            /\ life' = [life EXCEPT ![a] = r]
            /\ UNCHANGED <<items, secretsVer>>
    /\ UNCHANGED <<now, call, stamp, version, asked, found, landed>>

\* The whole entry goes.  Faulty form first: what the app had stays.
DeleteAppOnly(r) ==
    LET a == call[r].app IN
    /\ pc[r] = "app" /\ call[r].op = "deleteApp"
    /\ IF life[a] = NoApp
       THEN Goto(r, "404") /\ UNCHANGED storeVars
       ELSE /\ Goto(r, "ok")
            /\ life' = [life EXCEPT ![a] = NoApp]
            /\ UNCHANGED <<items, secretsVer>>
    /\ UNCHANGED <<now, call, stamp, version, asked, found, landed>>
DeleteApp(r) ==
    LET a == call[r].app IN
    /\ pc[r] = "app" /\ call[r].op = "deleteApp"
    /\ IF life[a] = NoApp
       THEN Goto(r, "404") /\ UNCHANGED storeVars
       ELSE /\ Goto(r, "ok")
            /\ life' = [life EXCEPT ![a] = NoApp]
            /\ items' = [items EXCEPT ![a] = {}]
            /\ secretsVer' = [secretsVer EXCEPT ![a] = 0]
    /\ UNCHANGED <<now, call, stamp, version, asked, found, landed>>

\* A certificate carries no time, so its handler does not read the clock.
\* Faulty form first: the app is left to the write to find.
FindAppUnchecked(r) ==
    /\ pc[r] = "findApp"
    /\ Goto(r, IF call[r].kind = "cert" THEN "write" ELSE "readClock")
    /\ found' = [found EXCEPT ![r] = life[call[r].app]]
    /\ UNCHANGED <<storeVars, now, call, stamp, version, asked, landed>>
FindApp(r) ==
    /\ pc[r] = "findApp"
    /\ Goto(r, CASE life[call[r].app] = NoApp -> "404"
                 [] life[call[r].app] # NoApp /\ call[r].kind = "cert" -> "write"
                 [] OTHER -> "readClock")
    /\ found' = [found EXCEPT ![r] = life[call[r].app]]
    /\ UNCHANGED <<storeVars, now, call, stamp, version, asked, landed>>

ReadClock(r) ==
    /\ pc[r] = "readClock"
    /\ stamp' = [stamp EXCEPT ![r] = now]
    /\ Goto(r, "write")
    /\ UNCHANGED <<storeVars, now, call, version, asked, found, landed>>

\* Writes to an app's secrets, deletions included, are numbered.  Faulty form
\* first: a deletion is not.
BumpsOnSet(r) == call[r].kind = "secret" /\ call[r].op = "put"
Bumps(r) == call[r].kind = "secret"

Number(r) ==
    LET a == call[r].app IN
    IF Bumps(r)
    THEN /\ secretsVer' = [secretsVer EXCEPT ![a] = @ + 1]
         /\ version' = [version EXCEPT ![r] = secretsVer[a] + 1]
    ELSE UNCHANGED <<secretsVer, version>>

\* The write takes effect: S replaces what c's kind and key named.
Replace(r, S) ==
    LET c == call[r] IN
    /\ items' = [items EXCEPT ![c.app] = (@ \ Named(c)) \cup S]
    /\ Number(r)
    /\ Lands(r)
    /\ Goto(r, "ok")
    /\ UNCHANGED life

Refuse(r, answer) == Goto(r, answer) /\ UNCHANGED <<storeVars, version, landed>>

\* A secret that exists keeps its creation time, anything else is written over
\* whole.  Faulty form first: a secret keeps both times.
NewItemKeepsTimes(r) ==
    LET c == call[r]
        old == IF c.kind = "secret" THEN Named(c) ELSE {} IN
    [kind |-> c.kind, key |-> c.key, data |-> [p \in Part |-> r],
     created |-> IF old = {} THEN stamp[r] ELSE (CHOOSE i \in old : TRUE).created,
     updated |-> IF old = {} THEN stamp[r] ELSE (CHOOSE i \in old : TRUE).updated]
NewItem(r) ==
    LET c == call[r]
        old == IF c.kind = "secret" THEN Named(c) ELSE {} IN
    [kind |-> c.kind, key |-> c.key, data |-> [p \in Part |-> r],
     created |-> IF old = {} THEN stamp[r] ELSE (CHOOSE i \in old : TRUE).created,
     updated |-> stamp[r]]

\* An app that has gone since it was looked up is an internal error.
Put(r, kind) ==
    /\ pc[r] = "write" /\ call[r].op = "put" /\ call[r].kind = kind
    /\ IF life[call[r].app] = NoApp THEN Refuse(r, "500") ELSE Replace(r, {NewItem(r)})
    /\ UNCHANGED <<now, call, stamp, asked, found>>

CreateVolume(r) == Put(r, "volume")
SetSecret(r) == Put(r, "secret")
AssignIP(r) == Put(r, "ip")
SetCertificate(r) == Put(r, "cert")

\* UpdateVolume: the closure sets the parts given, under the store's mutex.
\* Faulty form first: the parts left out are written as well.
SetAllParts(i, r) == [i EXCEPT !.data = [p \in Part |-> r]]
SetParts(i, r) == [i EXCEPT !.data = [p \in Part |-> IF p \in call[r].parts THEN r ELSE @[p]]]

UpdateVolume(r) ==
    /\ pc[r] = "write" /\ call[r].op = "update"
    /\ IF Named(call[r]) = {} THEN Refuse(r, "404")
       ELSE Replace(r, {SetParts(i, r) : i \in Named(call[r])})
    /\ UNCHANGED <<now, call, stamp, asked, found>>

\* Faulty form first: a deletion of nothing succeeds.
DeleteAnyway(r, kind) ==
    /\ pc[r] = "write" /\ call[r].op = "delete" /\ call[r].kind = kind
    /\ IF life[call[r].app] = NoApp THEN Refuse(r, "404") ELSE Replace(r, {})
    /\ UNCHANGED <<now, call, stamp, asked, found>>
Delete(r, kind) ==
    /\ pc[r] = "write" /\ call[r].op = "delete" /\ call[r].kind = kind
    /\ IF Named(call[r]) = {} THEN Refuse(r, "404") ELSE Replace(r, {})
    /\ UNCHANGED <<now, call, stamp, asked, found>>

DeleteVolume(r) == Delete(r, "volume")
DeleteSecret(r) == Delete(r, "secret")
DeleteIP(r) == Delete(r, "ip")
DeleteCertificate(r) == Delete(r, "cert")

Tick ==
    /\ now < MaxTime
    /\ now' = now + 1
    /\ UNCHANGED <<storeVars, handlerVars>>

Arrival(r) ==
    \/ ArriveApp(r)
    \/ ArriveVolume(r) \/ ArriveSecret(r) \/ ArriveIP(r) \/ ArriveCertificate(r)
    \/ ArriveUpdate(r) \/ ArriveDelete(r)

Write(r) ==
    \/ CreateVolume(r) \/ SetSecret(r) \/ AssignIP(r) \/ SetCertificate(r)
    \/ UpdateVolume(r)
    \/ DeleteVolume(r) \/ DeleteSecret(r) \/ DeleteIP(r) \/ DeleteCertificate(r)

Next ==
    \/ \E r \in Req :
          Arrival(r) \/ CreateApp(r) \/ DeleteApp(r) \/ FindApp(r) \/ ReadClock(r) \/ Write(r)
    \/ Tick

Spec == Init /\ [][Next]_vars

---------------------------------------------------------------------------
(* Properties. *)

\* Every variable has its type, and an app that does not exist has nothing.
ResourceTypeOK ==
    /\ life \in [App -> Req \cup {NoApp, OldLife}]
    /\ items \in [App -> SUBSET Item]
    /\ secretsVer \in [App -> Nat]
    /\ \A a \in App : life[a] = NoApp => items[a] = {} /\ secretsVer[a] = 0
    /\ now \in Nat
    /\ pc \in [Req -> {"idle"} \cup Step \cup Answer]
    /\ call \in [Req -> Call \cup {NoCall}]
    /\ \A r \in Req : call[r] = NoCall <=> Idle(r)
    /\ stamp \in [Req -> Nat]
    /\ version \in [Req -> Nat]
    /\ asked \in [Req -> Nat]
    /\ found \in [Req -> Req \cup {NoApp, OldLife}]
    /\ landed \in [Req -> Landing]

\* The writes that landed in a's present life and were about this kind and key.
Writes(a, kind, key) ==
    {r \in Req : /\ landed[r] # Nowhere /\ landed[r].life = life[a]
                 /\ call[r].app = a /\ call[r].kind = kind /\ call[r].key = key}

Before(q, r) == landed[q].place < landed[r].place

\* A client finds what the last write left, however the writes of others ran
\* between its lookup of the app and its own: every part shows the last
\* request that wrote it since the last deletion, no update is lost to one
\* of another part, and what was deleted last is not there (volumes.go:72-80;
\* store.go:256-319, 347-362, 395-437, 455-482, 515-527).
LastWriteShows ==
    \A a \in App : life[a] # NoApp =>
        \A kind \in Kind : \A key \in Keys(kind) :
            LET W == Writes(a, kind, key)
                last == {r \in W : \A q \in W : ~Before(r, q)}
                shown == {i \in items[a] : i.kind = kind /\ i.key = key} IN
            /\ shown = {} <=> \A r \in last : call[r].op = "delete"
            /\ \A i \in shown, p \in Part :
                  /\ i.data[p] \in W
                  /\ p \in call[i.data[p]].parts
                  /\ \A q \in W : Before(i.data[p], q) =>
                        call[q].op # "delete" /\ p \notin call[q].parts

\* Nothing comes into an app's life from an earlier app of the same name: what
\* is there was written after this app was created, though the request may
\* have looked up the app before it (store.go:89-97, volumes.go:24-50).
NothingOutlivesItsApp ==
    \A a \in App : \A i \in items[a], p \in Part : landed[i.data[p]].life = life[a]

\* The secrets version tells an app's writes apart and orders them: of any two
\* writes to its secrets, deletions among them, the one that took effect first
\* was answered with the lower number, and no answer is ahead of the app's own
\* count (store.go:347-362, 395-408; server_test.go:1015-1019 asserts it of
\* one write and one deletion made in turn).
VersionsInOrder ==
    \A q \in Req : (landed[q] # Nowhere /\ call[q].kind = "secret") =>
        LET a == call[q].app IN
        /\ landed[q].life = life[a] => version[q] <= secretsVer[a]
        /\ \A r \in Req \ {q} :
              (/\ landed[r].life = landed[q].life
               /\ call[r].app = a /\ call[r].kind = "secret")
                  => (Before(q, r) <=> version[q] < version[r])

\* Of several deletions of one thing one succeeds: between two that did, it
\* was written again (store.go:309-319, 395-408, 455-467, 515-527).
DeletedOnce ==
    \A q, r \in Req :
        (/\ pc[q] = "ok" /\ pc[r] = "ok"
         /\ call[q].op = "delete" /\ call[r].op = "delete"
         /\ call[q].app = call[r].app /\ call[q].kind = call[r].kind
         /\ call[q].key = call[r].key
         /\ landed[q].life = landed[r].life /\ Before(q, r))
            => \E w \in Req : /\ pc[w] = "ok" /\ call[w].op = "put"
                              /\ call[w].app = call[r].app
                              /\ call[w].kind = call[r].kind
                              /\ call[w].key = call[r].key
                              /\ Before(q, w) /\ Before(w, r)

\* An internal error means that the app the request had found, and not just
\* one of that name, was deleted while the request was under way: it is no
\* answer to a request that should have been told 404 (volumes.go:24-27, 50-54;
\* secrets.go:36-39, 48-52; ips.go:25-28, 41-45; certs.go:29-32, 47-51).
ErrorMeansLifeEnded ==
    \A r \in Req : pc[r] = "500" => found[r] \notin {NoApp, life[call[r].app]}

\* The clock is read before the mutex is taken, so a secret's times can be those
\* of a write that overlapped, and out of order.  But UpdatedAt is never older
\* than the arrival of the write that shows: of two writes that did not
\* overlap, the later one never takes UpdatedAt back (secrets.go:47-48).
UpdatedSinceAsked ==
    \A a \in App : \A i \in items[a] :
        i.kind = "secret" =>
            \A p \in Part : asked[i.data[p]] <= i.updated /\ i.updated <= now

===============================================================================
