--------------------------- MODULE ResourceProofs ---------------------------
(***************************************************************************)
(* Proofs about AppResources, for any number of apps, requests, names and  *)
(* addresses: the types, and that what clients find is what the writes     *)
(* that took effect left, in the order in which they did.                  *)
(***************************************************************************)
EXTENDS AppResources, FiniteSetTheorems, TLAPS

---------------------------------------------------------------------------
(* The invariant. *)

\* The requests whose writes took effect.
Landed == {q \in Req : landed[q] # Nowhere}

\* What requests ask for is what handlers are given.
CallInv ==
    \A r \in Req : ~Idle(r) =>
        /\ call[r].op = "put" => call[r].parts = Part
        /\ call[r].op = "update" => call[r].kind = "volume"
        /\ call[r].op = "delete" => call[r].parts = {}
        /\ pc[r] \in {"findApp", "readClock"} => call[r].op = "put"

\* The life x of an app has begun.
Begun(x) == x \in Req => pc[x] = "ok"

LivesBegun ==
    /\ \A a \in App : Begun(life[a])
    /\ \A r \in Req : Begun(found[r]) /\ Begun(landed[r].life)

\* A request goes on with an app it has found.
FoundInv ==
    \A r \in Req : (pc[r] \in {"readClock", "write"} /\ call[r].op = "put") => found[r] # NoApp

\* Writes took effect one after the other.
PlaceInv ==
    /\ IsFiniteSet(Landed)
    /\ \A q \in Landed : /\ pc[q] = "ok" /\ landed[q].life # NoApp
                         /\ landed[q].place <= Cardinality(Landed)
    /\ \A q, r \in Landed : q # r => landed[q].place # landed[r].place

\* Times are read while a request is under way.
StampInv ==
    \A r \in Req :
        /\ ~Idle(r) => asked[r] <= now
        /\ (pc[r] = "write" /\ call[r].op = "put" /\ call[r].kind # "cert") =>
              asked[r] <= stamp[r] /\ stamp[r] <= now

\* The items of a with this kind and key.
At(a, kind, key) == {i \in items[a] : i.kind = kind /\ i.key = key}

\* What is there shows what was last written of each part since the last
\* deletion, and was put since then; nothing is there if the last write was a
\* deletion, or if there was none.
ShowAt(a, kind, key) ==
    LET W == Writes(a, kind, key) IN
    /\ \A i \in At(a, kind, key) :
          /\ \A p \in Part :
                /\ i.data[p] \in W
                /\ p \in call[i.data[p]].parts
                /\ \A q \in W : Before(i.data[p], q) =>
                      call[q].op # "delete" /\ p \notin call[q].parts
          /\ \E w \in W : /\ call[w].op = "put"
                          /\ \A q \in W : Before(w, q) => call[q].op # "delete"
    /\ At(a, kind, key) = {} <=>
          \A r \in W : (\A q \in W : ~Before(r, q)) => call[r].op = "delete"

ShowInv ==
    \A a \in App : life[a] # NoApp => \A kind \in Kind, key \in Key : ShowAt(a, kind, key)

\* DeletedOnce, of the writes that took effect.
OnceInv ==
    \A q, r \in Landed :
        (/\ call[q].op = "delete" /\ call[r].op = "delete"
         /\ call[q].app = call[r].app /\ call[q].kind = call[r].kind
         /\ call[q].key = call[r].key
         /\ landed[q].life = landed[r].life /\ Before(q, r))
            => \E w \in Landed : /\ call[w].op = "put" /\ call[w].app = call[r].app
                                 /\ call[w].kind = call[r].kind
                                 /\ call[w].key = call[r].key
                                 /\ Before(q, w) /\ Before(w, r)

ResourceInv ==
    /\ CallInv /\ LivesBegun /\ FoundInv /\ PlaceInv /\ StampInv
    /\ ErrorMeansLifeEnded /\ UpdatedSinceAsked
    /\ ShowInv /\ VersionsInOrder /\ OnceInv

---------------------------------------------------------------------------
(* Requests and items. *)

TypeInv == ResourceTypeOK /\ IsFiniteSet(Landed)

\* The first call of a handler, given what the client asks for.
Asks(r, c, first) ==
    /\ first = "app" => c.op \in {"createApp", "deleteApp"}
    /\ first = "findApp" => c.op = "put" /\ c.parts = Part
    /\ first = "write" => \/ c.op = "update" /\ c.kind = "volume"
                          \/ c.op = "delete" /\ c.parts = {}

LEMMA CallFields ==
    ASSUME TypeInv, NEW r \in Req, ~Idle(r)
    PROVE  /\ call[r] \in Call
           /\ call[r].op \in Op /\ call[r].app \in App /\ call[r].kind \in Kind
           /\ call[r].key \in Key /\ call[r].parts \in SUBSET Part
<1>1. call[r] \in Call
  BY DEF TypeInv, ResourceTypeOK
<1> QED
  BY <1>1 DEF Call

LEMMA ItemFields ==
    \A i \in Item : /\ i.kind \in Kind /\ i.key \in Key /\ i.data \in [Part -> Req]
                    /\ i.created \in Nat /\ i.updated \in Nat
  BY DEF Item

LEMMA ArrivalSteps ==
    ASSUME NEW r \in Req, Arrival(r)
    PROVE  \E c \in Call, first \in {"app", "findApp", "write"} :
              Arrive(r, c, first) /\ Asks(r, c, first)
<1> USE DEF Kind, Part, Key, Op
<1>1. ASSUME ArriveApp(r)
      PROVE  \E c \in Call, first \in {"app", "findApp", "write"} :
                Arrive(r, c, first) /\ Asks(r, c, first)
  <2>1. PICK a \in App, op \in {"createApp", "deleteApp"} :
           Arrive(r, [op |-> op, app |-> a, kind |-> "volume", key |-> r, parts |-> {}], "app")
    BY <1>1 DEF ArriveApp
  <2> DEFINE c == [op |-> op, app |-> a, kind |-> "volume", key |-> r, parts |-> {}]
  <2>2. c \in Call /\ Asks(r, c, "app")
    BY DEF Call, Asks
  <2> QED
    BY <2>1, <2>2
<1>2. ASSUME NEW kind \in Kind, NEW key \in Key, ArrivePut(r, kind, key)
      PROVE  \E c \in Call, first \in {"app", "findApp", "write"} :
                Arrive(r, c, first) /\ Asks(r, c, first)
  <2>1. PICK a \in App :
           Arrive(r, [op |-> "put", app |-> a, kind |-> kind, key |-> key, parts |-> Part],
                  "findApp")
    BY <1>2 DEF ArrivePut
  <2> DEFINE c == [op |-> "put", app |-> a, kind |-> kind, key |-> key, parts |-> Part]
  <2>2. c \in Call /\ Asks(r, c, "findApp")
    BY DEF Call, Asks
  <2> QED
    BY <2>1, <2>2
<1>3. ASSUME ArriveUpdate(r)
      PROVE  \E c \in Call, first \in {"app", "findApp", "write"} :
                Arrive(r, c, first) /\ Asks(r, c, first)
  <2>1. PICK a \in App, k \in KnownVolumes, parts \in SUBSET Part :
           Arrive(r, [op |-> "update", app |-> a, kind |-> "volume", key |-> k,
                      parts |-> parts], "write")
    BY <1>3 DEF ArriveUpdate
  <2> DEFINE c == [op |-> "update", app |-> a, kind |-> "volume", key |-> k, parts |-> parts]
  <2>2. k \in Req
    BY DEF KnownVolumes
  <2>3. c \in Call /\ Asks(r, c, "write")
    BY <2>2 DEF Call, Asks
  <2> QED
    BY <2>1, <2>3
<1>4. ASSUME ArriveDelete(r)
      PROVE  \E c \in Call, first \in {"app", "findApp", "write"} :
                Arrive(r, c, first) /\ Asks(r, c, first)
  <2>0. PICK a \in App, kind \in Kind : \E k \in Keys(kind) :
           Arrive(r, [op |-> "delete", app |-> a, kind |-> kind, key |-> k, parts |-> {}],
                  "write")
    BY <1>4 DEF ArriveDelete
  <2>1. PICK k \in Keys(kind) :
           Arrive(r, [op |-> "delete", app |-> a, kind |-> kind, key |-> k, parts |-> {}],
                  "write")
    BY <2>0
  <2> DEFINE c == [op |-> "delete", app |-> a, kind |-> kind, key |-> k, parts |-> {}]
  <2>2. k \in Key
    BY DEF Keys, KnownVolumes
  <2>3. c \in Call /\ Asks(r, c, "write")
    BY <2>2 DEF Call, Asks
  <2> QED
    BY <2>1, <2>3
<1> QED
  BY <1>1, <1>2, <1>3, <1>4
  DEF Arrival, ArriveVolume, ArriveSecret, ArriveIP, ArriveCertificate

LEMMA NewItemFields ==
    ASSUME TypeInv, NEW r \in Req, ~Idle(r)
    PROVE  /\ NewItem(r) \in Item
           /\ NewItem(r).kind = call[r].kind /\ NewItem(r).key = call[r].key
           /\ NewItem(r).updated = stamp[r]
           /\ \A p \in Part : NewItem(r).data[p] = r
<1> DEFINE c == call[r]
           old == IF c.kind = "secret" THEN Named(c) ELSE {}
           created == IF old = {} THEN stamp[r] ELSE (CHOOSE i \in old : TRUE).created
           data == [p \in Part |-> r]
<1>1. c.kind \in Kind /\ c.key \in Key /\ c.app \in App
  BY CallFields
<1>2. stamp[r] \in Nat /\ old \subseteq Item
  BY <1>1 DEF TypeInv, ResourceTypeOK, Named
<1>3. created \in Nat
  <2>1. CASE old = {}
    BY <1>2, <2>1
  <2>2. CASE old # {}
    <3>1. (CHOOSE i \in old : TRUE) \in old
      BY <2>2
    <3>2. (CHOOSE i \in old : TRUE).created \in Nat
      BY <1>2, <3>1, ItemFields
    <3> QED
      BY <2>2, <3>2
  <2> QED
    BY <2>1, <2>2
<1>4. NewItem(r) = [kind |-> c.kind, key |-> c.key, data |-> data,
                    created |-> created, updated |-> stamp[r]]
  BY DEF NewItem
<1>5. data \in [Part -> Req] /\ \A p \in Part : data[p] = r
  OBVIOUS
<1> HIDE DEF c, old, created, data
<1>6. NewItem(r) \in Item
  BY <1>1, <1>2, <1>3, <1>4, <1>5 DEF Item
<1> QED
  BY <1>4, <1>5, <1>6 DEF c

LEMMA SetPartsFields ==
    ASSUME NEW i \in Item, NEW r \in Req
    PROVE  /\ SetParts(i, r) \in Item
           /\ SetParts(i, r).kind = i.kind /\ SetParts(i, r).key = i.key
           /\ SetParts(i, r).updated = i.updated
           /\ \A p \in Part :
                 SetParts(i, r).data[p] = IF p \in call[r].parts THEN r ELSE i.data[p]
<1> DEFINE data == [p \in Part |-> IF p \in call[r].parts THEN r ELSE i.data[p]]
<1>1. data \in [Part -> Req]
  BY ItemFields
<1>2. SetParts(i, r) = [i EXCEPT !.data = data]
  BY DEF SetParts
<1>3. \A p \in Part : data[p] = IF p \in call[r].parts THEN r ELSE i.data[p]
  OBVIOUS
<1> HIDE DEF data
<1>4. /\ SetParts(i, r) \in Item /\ SetParts(i, r).data = data
      /\ SetParts(i, r).kind = i.kind /\ SetParts(i, r).key = i.key
      /\ SetParts(i, r).updated = i.updated
  BY <1>1, <1>2 DEF Item
<1> QED
  BY <1>3, <1>4

---------------------------------------------------------------------------
(* The forms a step can take. *)

\* What r's write leaves in place of what it is about.
Leaves(r, S) ==
    \/ call[r].op = "put" /\ S = {NewItem(r)}
    \/ call[r].op = "update" /\ Named(call[r]) # {} /\ S = {SetParts(i, r) : i \in Named(call[r])}
    \/ call[r].op = "delete" /\ Named(call[r]) # {} /\ S = {}

\* r's write is refused.
Refused(r) ==
    \E answer \in {"404", "500"} :
        /\ Refuse(r, answer)
        /\ answer = "500" => call[r].op = "put" /\ life[call[r].app] = NoApp

LEMMA WriteForms ==
    ASSUME TypeInv, NEW r \in Req, Write(r)
    PROVE  /\ pc[r] = "write" /\ UNCHANGED <<now, call, stamp, asked, found>>
           /\ \/ Refused(r)
              \/ life[call[r].app] # NoApp /\ \E S : Replace(r, S) /\ Leaves(r, S)
<1>1. ASSUME NEW kind, Put(r, kind)
      PROVE  /\ pc[r] = "write" /\ UNCHANGED <<now, call, stamp, asked, found>>
             /\ \/ Refused(r)
                \/ life[call[r].app] # NoApp /\ \E S : Replace(r, S) /\ Leaves(r, S)
  <2>1. pc[r] = "write" /\ call[r].op = "put" /\ UNCHANGED <<now, call, stamp, asked, found>>
    BY <1>1 DEF Put
  <2>2. CASE life[call[r].app] = NoApp
    <3>1. Refuse(r, "500")
      BY <1>1, <2>2 DEF Put
    <3> QED
      BY <2>1, <2>2, <3>1 DEF Refused
  <2>3. CASE life[call[r].app] # NoApp
    <3>1. Replace(r, {NewItem(r)})
      BY <1>1, <2>3, Zenon DEF Put
    <3>2. Leaves(r, {NewItem(r)})
      BY <2>1 DEF Leaves
    <3> QED
      BY <2>1, <2>3, <3>1, <3>2
  <2> QED
    BY <2>2, <2>3
<1>2. ASSUME Named(call[r]) # {}, pc[r] = "write" PROVE life[call[r].app] # NoApp
  <2>1. call[r].app \in App
    BY <1>2, CallFields DEF Idle
  <2> QED
    BY <1>2, <2>1 DEF Named, TypeInv, ResourceTypeOK
<1>3. ASSUME UpdateVolume(r)
      PROVE  /\ pc[r] = "write" /\ UNCHANGED <<now, call, stamp, asked, found>>
             /\ \/ Refused(r)
                \/ life[call[r].app] # NoApp /\ \E S : Replace(r, S) /\ Leaves(r, S)
  <2>1. pc[r] = "write" /\ call[r].op = "update" /\ UNCHANGED <<now, call, stamp, asked, found>>
    BY <1>3 DEF UpdateVolume
  <2>2. CASE Named(call[r]) = {}
    <3>1. Refuse(r, "404")
      BY <1>3, <2>2 DEF UpdateVolume
    <3> QED
      BY <2>1, <3>1 DEF Refused
  <2>3. CASE Named(call[r]) # {}
    <3> DEFINE S == {SetParts(i, r) : i \in Named(call[r])}
    <3>1. Replace(r, S)
      BY <1>3, <2>3, Zenon DEF UpdateVolume
    <3>2. Leaves(r, S)
      BY <2>1, <2>3 DEF Leaves
    <3> QED
      BY <1>2, <2>1, <2>3, <3>1, <3>2
  <2> QED
    BY <2>2, <2>3
<1>4. ASSUME NEW kind, Delete(r, kind)
      PROVE  /\ pc[r] = "write" /\ UNCHANGED <<now, call, stamp, asked, found>>
             /\ \/ Refused(r)
                \/ life[call[r].app] # NoApp /\ \E S : Replace(r, S) /\ Leaves(r, S)
  <2>1. pc[r] = "write" /\ call[r].op = "delete" /\ UNCHANGED <<now, call, stamp, asked, found>>
    BY <1>4 DEF Delete
  <2>2. CASE Named(call[r]) = {}
    <3>1. Refuse(r, "404")
      BY <1>4, <2>2 DEF Delete
    <3> QED
      BY <2>1, <3>1 DEF Refused
  <2>3. CASE Named(call[r]) # {}
    <3>1. Replace(r, {})
      BY <1>4, <2>3, Zenon DEF Delete
    <3>2. Leaves(r, {})
      BY <2>1, <2>3 DEF Leaves
    <3> QED
      BY <1>2, <2>1, <2>3, <3>1, <3>2
  <2> QED
    BY <2>2, <2>3
<1> QED
  BY <1>1, <1>3, <1>4, Zenon DEF Write, CreateVolume, SetSecret, AssignIP, SetCertificate,
     DeleteVolume, DeleteSecret, DeleteIP, DeleteCertificate

\* A write that takes effect finds its app; what it leaves are items of the
\* kind and key it is about.
LEMMA LeavesItems ==
    ASSUME TypeInv, NEW r \in Req, ~Idle(r), NEW S, Leaves(r, S)
    PROVE  /\ S \in SUBSET Item
           /\ \A i \in S : i.kind = call[r].kind /\ i.key = call[r].key
           /\ S = {} <=> call[r].op = "delete"
<1>1. call[r].app \in App
  BY CallFields
<1>2. Named(call[r]) \subseteq Item
      /\ \A i \in Named(call[r]) : i.kind = call[r].kind /\ i.key = call[r].key
  BY <1>1 DEF Named, TypeInv, ResourceTypeOK
<1>3. CASE call[r].op = "put" /\ S = {NewItem(r)}
  BY <1>3, NewItemFields
<1>4. CASE /\ call[r].op = "update" /\ Named(call[r]) # {}
           /\ S = {SetParts(i, r) : i \in Named(call[r])}
  <2>1. \A i \in Named(call[r]) : /\ SetParts(i, r) \in Item
                                  /\ SetParts(i, r).kind = i.kind /\ SetParts(i, r).key = i.key
    BY <1>2, SetPartsFields
  <2> QED
    BY <1>2, <1>4, <2>1
<1>5. CASE call[r].op = "delete" /\ S = {}
  BY <1>5
<1> QED
  BY <1>3, <1>4, <1>5 DEF Leaves

---------------------------------------------------------------------------
(* Types. *)

LEMMA InitTypeInv == Init => TypeInv
<1> SUFFICES ASSUME Init PROVE TypeInv
  OBVIOUS
<1>1. Landed = {}
  BY DEF Init, Landed
<1>2. IsFiniteSet(Landed)
  BY <1>1, FS_EmptySet
<1>3. Nowhere \in Landing
  BY DEF Nowhere, Landing
<1>4. ResourceTypeOK
  BY <1>3, NoCallAssumption DEF Init, ResourceTypeOK, Idle
<1> QED
  BY <1>2, <1>4 DEF TypeInv

\* What a write that takes effect does to each variable.
LEMMA ReplaceEffects ==
    ASSUME TypeInv, NEW r \in Req, pc[r] = "write", NEW S \in SUBSET Item, Replace(r, S),
           life[call[r].app] # NoApp
    PROVE  LET a == call[r].app
               n == Cardinality(Landed) + 1 IN
           /\ a \in App /\ n \in Nat
           /\ life' = life /\ pc' = [pc EXCEPT ![r] = "ok"]
           /\ items' = [items EXCEPT ![a] = (items[a] \ Named(call[r])) \cup S]
           /\ landed' = [landed EXCEPT ![r] = [life |-> life[a], place |-> n]]
           /\ landed'[r].life = life[a] /\ landed'[r].place = n /\ landed'[r] \in Landing
           /\ Landed' = Landed \cup {r}
<1> DEFINE a == call[r].app
           n == Cardinality(Landed) + 1
           new == [life |-> life[a], place |-> n]
<1>1. a \in App
  BY CallFields DEF Idle
<1>2. n \in Nat /\ n > 0
  BY FS_CardinalityType DEF TypeInv
<1>3. life' = life /\ pc' = [pc EXCEPT ![r] = "ok"]
  BY DEF Replace, Goto
<1>4. items' = [items EXCEPT ![a] = (items[a] \ Named(call[r])) \cup S]
  BY Zenon DEF Replace
<1>5. landed' = [landed EXCEPT ![r] = new]
  <2>1. landed' = [landed EXCEPT ![r] =
                      [life |-> life[a],
                       place |-> 1 + Cardinality({q \in Req : landed[q] # Nowhere})]]
    BY Zenon DEF Replace, Lands
  <2>2. 1 + Cardinality(Landed) = n
    BY FS_CardinalityType DEF TypeInv
  <2> QED
    BY <2>1, <2>2 DEF Landed
<1>6. landed \in [Req -> Landing] /\ life[a] \in Req \cup {NoApp, OldLife}
  BY <1>1 DEF TypeInv, ResourceTypeOK
<1>7. landed'[r] = new /\ \A q \in Req : q # r => landed'[q] = landed[q]
  <2> HIDE DEF new
  <2> QED
    BY <1>5, <1>6
<1> HIDE DEF a, n
<1>8. new \in Landing /\ new.life = life[a] /\ new.place = n /\ new # Nowhere
  BY <1>2, <1>6 DEF Landing, Nowhere, a
<1>9. Landed' = Landed \cup {r}
  <2> HIDE DEF new
  <2> QED
    BY <1>7, <1>8 DEF Landed
<1> QED
  BY <1>1, <1>2, <1>3, <1>4, <1>5, <1>7, <1>8, <1>9 DEF a, n

LEMMA NumberEffects ==
    ASSUME TypeInv, NEW r \in Req, pc[r] = "write", Number(r)
    PROVE  LET a == call[r].app IN
           /\ call[r].kind = "secret" =>
                 /\ secretsVer' = [secretsVer EXCEPT ![a] = secretsVer[a] + 1]
                 /\ version' = [version EXCEPT ![r] = secretsVer[a] + 1]
           /\ call[r].kind # "secret" => secretsVer' = secretsVer /\ version' = version
           /\ secretsVer' \in [App -> Nat] /\ version' \in [Req -> Nat]
<1>1. call[r].app \in App
  BY CallFields DEF Idle
<1>2. secretsVer \in [App -> Nat] /\ version \in [Req -> Nat]
  BY DEF TypeInv, ResourceTypeOK
<1>3. CASE call[r].kind = "secret"
  BY <1>1, <1>2, <1>3 DEF Number, Bumps
<1>4. CASE call[r].kind # "secret"
  BY <1>1, <1>2, <1>4 DEF Number, Bumps
<1> QED
  BY <1>3, <1>4

LEMMA ReplaceTypes ==
    ASSUME TypeInv, NEW r \in Req, pc[r] = "write", NEW S \in SUBSET Item, Replace(r, S),
           life[call[r].app] # NoApp, UNCHANGED <<now, call, stamp, asked, found>>
    PROVE  TypeInv'
<1> DEFINE a == call[r].app
           new == [life |-> life[a], place |-> Cardinality(Landed) + 1]
<1>1. /\ a \in App /\ life' = life /\ pc' = [pc EXCEPT ![r] = "ok"]
      /\ items' = [items EXCEPT ![a] = (items[a] \ Named(call[r])) \cup S]
      /\ landed' = [landed EXCEPT ![r] = new]
      /\ landed'[r] \in Landing
      /\ Landed' = Landed \cup {r}
  BY ReplaceEffects
<1>2. /\ secretsVer' \in [App -> Nat] /\ version' \in [Req -> Nat]
      /\ \A b \in App : b # a => secretsVer'[b] = secretsVer[b]
  <2>1. Number(r)
    BY Zenon DEF Replace
  <2> QED
    BY <1>1, <2>1, NumberEffects DEF TypeInv, ResourceTypeOK
<1>3. IsFiniteSet(Landed')
  BY <1>1, FS_AddElement DEF TypeInv
<1> HIDE DEF a, new
<1>4. landed' \in [Req -> Landing]
  BY <1>1 DEF TypeInv, ResourceTypeOK
<1>5. items' \in [App -> SUBSET Item] /\ \A b \in App : b # a => items'[b] = items[b]
  BY <1>1 DEF TypeInv, ResourceTypeOK
<1>6. \A b \in App : life'[b] = NoApp => items'[b] = {} /\ secretsVer'[b] = 0
  BY <1>1, <1>2, <1>5 DEF TypeInv, ResourceTypeOK, a
<1>7. /\ pc' \in [Req -> {"idle"} \cup Step \cup Answer]
      /\ \A q \in Req : call'[q] = NoCall <=> Idle(q)'
  BY <1>1 DEF TypeInv, ResourceTypeOK, Idle, Answer
<1> QED
  BY <1>1, <1>2, <1>3, <1>4, <1>5, <1>6, <1>7 DEF TypeInv, ResourceTypeOK

LEMMA NextTypeInv == TypeInv /\ [Next]_vars => TypeInv'
<1> SUFFICES ASSUME TypeInv, [Next]_vars PROVE TypeInv'
  OBVIOUS
<1> USE DEF Idle, Goto, Step, Answer
<1>1. ASSUME UNCHANGED landed, ResourceTypeOK' PROVE TypeInv'
  BY <1>1 DEF TypeInv, Landed
<1>2. ASSUME NEW r \in Req, Arrival(r) PROVE TypeInv'
  <2>1. PICK c \in Call, first \in {"app", "findApp", "write"} : Arrive(r, c, first)
    BY <1>2, ArrivalSteps
  <2>2. ResourceTypeOK' /\ UNCHANGED landed
    BY <2>1, NoCallAssumption DEF Arrive, TypeInv, ResourceTypeOK, storeVars
  <2> QED
    BY <1>1, <2>2
<1>3. ASSUME NEW r \in Req, CreateApp(r) PROVE TypeInv'
  <2>1. call[r].app \in App
    BY <1>3, CallFields DEF CreateApp
  <2>2. ResourceTypeOK' /\ UNCHANGED landed
    BY <1>3, <2>1, ResourceAssumption DEF CreateApp, TypeInv, ResourceTypeOK, storeVars
  <2> QED
    BY <1>1, <2>2
<1>4. ASSUME NEW r \in Req, DeleteApp(r) PROVE TypeInv'
  <2>1. call[r].app \in App
    BY <1>4, CallFields DEF DeleteApp
  <2>2. ResourceTypeOK' /\ UNCHANGED landed
    BY <1>4, <2>1 DEF DeleteApp, TypeInv, ResourceTypeOK, storeVars
  <2> QED
    BY <1>1, <2>2
<1>5. ASSUME NEW r \in Req, FindApp(r) PROVE TypeInv'
  <2>1. call[r].app \in App
    BY <1>5, CallFields DEF FindApp
  <2>2. PICK l \in {"404", "write", "readClock"} : pc' = [pc EXCEPT ![r] = l]
    BY <1>5 DEF FindApp
  <2>3. ResourceTypeOK' /\ UNCHANGED landed
    BY <1>5, <2>1, <2>2 DEF FindApp, TypeInv, ResourceTypeOK, storeVars
  <2> QED
    BY <1>1, <2>3
<1>6. ASSUME NEW r \in Req, ReadClock(r) PROVE TypeInv'
  <2>1. ResourceTypeOK' /\ UNCHANGED landed
    BY <1>6 DEF ReadClock, TypeInv, ResourceTypeOK, storeVars
  <2> QED
    BY <1>1, <2>1
<1>7. ASSUME NEW r \in Req, Write(r) PROVE TypeInv'
  <2>1. pc[r] = "write" /\ UNCHANGED <<now, call, stamp, asked, found>>
    BY <1>7, WriteForms
  <2>2. CASE Refused(r)
    <3>1. ResourceTypeOK' /\ UNCHANGED landed
      BY <2>1, <2>2 DEF Refused, Refuse, TypeInv, ResourceTypeOK, storeVars
    <3> QED
      BY <1>1, <3>1
  <2>3. ASSUME NEW S, Replace(r, S), Leaves(r, S), life[call[r].app] # NoApp PROVE TypeInv'
    <3>1. S \in SUBSET Item
      BY <2>1, <2>3, LeavesItems
    <3> QED
      BY <2>1, <2>3, <3>1, ReplaceTypes
  <2> QED
    BY <1>7, <2>2, <2>3, WriteForms
<1>8. CASE Tick
  <2>1. ResourceTypeOK' /\ UNCHANGED landed
    BY <1>8 DEF Tick, TypeInv, ResourceTypeOK, storeVars, handlerVars
  <2> QED
    BY <1>1, <2>1
<1>9. CASE UNCHANGED vars
  <2>1. ResourceTypeOK' /\ UNCHANGED landed
    BY <1>9 DEF vars, TypeInv, ResourceTypeOK, storeVars, handlerVars
  <2> QED
    BY <1>1, <2>1
<1> QED
  BY <1>2, <1>3, <1>4, <1>5, <1>6, <1>7, <1>8, <1>9 DEF Next

LEMMA TypeInvHolds == Spec => []TypeInv
  BY InitTypeInv, NextTypeInv, PTL DEF Spec

\* Every variable keeps its type, and an app that does not exist has nothing,
\* for any number of apps and requests.
THEOREM ResourceTypesHold == Spec => []ResourceTypeOK
<1>1. TypeInv => ResourceTypeOK
  BY DEF TypeInv
<1> QED
  BY TypeInvHolds, <1>1, PTL

---------------------------------------------------------------------------
(* What a step leaves alone. *)

\* q's request is as it was.
SameRequest(q) ==
    /\ pc'[q] = pc[q] /\ call'[q] = call[q] /\ stamp'[q] = stamp[q]
    /\ version'[q] = version[q] /\ asked'[q] = asked[q] /\ found'[q] = found[q]
    /\ landed'[q] = landed[q]

\* A step of r, which has not been answered, is no step of another request.
LEMMA OthersStay ==
    ASSUME TypeInv, NEW r \in Req,
           Arrival(r) \/ CreateApp(r) \/ DeleteApp(r) \/ FindApp(r) \/ ReadClock(r) \/ Write(r)
    PROVE  /\ pc[r] \in {"idle"} \cup Step
           /\ now' = now
           /\ \A q \in Req : q # r => SameRequest(q)
<1> USE DEF Goto, SameRequest, Step, handlerVars, storeVars
<1>t. /\ pc \in [Req -> {"idle"} \cup Step \cup Answer] /\ stamp \in [Req -> Nat]
      /\ call \in [Req -> Call \cup {NoCall}] /\ version \in [Req -> Nat]
      /\ asked \in [Req -> Nat] /\ found \in [Req -> Req \cup {NoApp, OldLife}]
      /\ landed \in [Req -> Landing]
  BY DEF TypeInv, ResourceTypeOK
<1>1. CASE Arrival(r)
  <2>1. PICK c \in Call, first \in {"app", "findApp", "write"} : Arrive(r, c, first)
    BY <1>1, ArrivalSteps
  <2> QED
    BY <1>t, <2>1 DEF Arrive, Idle
<1>2. CASE CreateApp(r)
  BY <1>2, <1>t DEF CreateApp
<1>3. CASE DeleteApp(r)
  BY <1>3, <1>t DEF DeleteApp
<1>4. CASE FindApp(r)
  BY <1>4, <1>t DEF FindApp
<1>5. CASE ReadClock(r)
  BY <1>5, <1>t DEF ReadClock
<1>6. CASE Write(r)
  <2>1. pc[r] = "write" /\ UNCHANGED <<now, call, stamp, asked, found>>
    BY <1>6, WriteForms
  <2>2. CASE Refused(r)
    BY <1>t, <2>1, <2>2 DEF Refused, Refuse
  <2>3. ASSUME NEW S, Replace(r, S), Leaves(r, S), life[call[r].app] # NoApp
        PROVE  \A q \in Req : q # r => SameRequest(q)
    <3>1. S \in SUBSET Item
      BY <2>1, <2>3, LeavesItems DEF Idle
    <3>2. /\ pc' = [pc EXCEPT ![r] = "ok"]
          /\ landed' = [landed EXCEPT ![r] = [life |-> life[call[r].app],
                                              place |-> Cardinality(Landed) + 1]]
      BY <2>1, <2>3, <3>1, ReplaceEffects
    <3>3. \A q \in Req : q # r => version'[q] = version[q]
      <4>1. Number(r)
        BY <2>3, Zenon DEF Replace
      <4> QED
        BY <1>t, <2>1, <4>1, NumberEffects
    <3> QED
      BY <1>t, <2>1, <3>2, <3>3
  <2> QED
    BY <1>6, <2>1, <2>2, <2>3, WriteForms
<1> QED
  BY <1>1, <1>2, <1>3, <1>4, <1>5, <1>6

\* An answer is final, and with it all that is remembered of the request.
LEMMA AnswersStay ==
    ASSUME TypeInv, [Next]_vars, NEW q \in Req, pc[q] \in Answer
    PROVE  SameRequest(q)
<1>1. ASSUME NEW r \in Req,
             Arrival(r) \/ CreateApp(r) \/ DeleteApp(r) \/ FindApp(r) \/ ReadClock(r) \/ Write(r)
      PROVE  SameRequest(q)
  BY <1>1, OthersStay DEF Answer, Step
<1>2. CASE Tick \/ UNCHANGED vars
  BY <1>2 DEF Tick, SameRequest, vars, handlerVars
<1> QED
  BY <1>1, <1>2 DEF Next

BegunAfter(x) == x \in Req => pc'[x] = "ok"

LEMMA BegunStays ==
    ASSUME TypeInv, [Next]_vars, NEW x, Begun(x)
    PROVE  BegunAfter(x)
  BY AnswersStay DEF Begun, BegunAfter, SameRequest, Answer

---------------------------------------------------------------------------
(* What is known of a request on its way. *)

\* CallInv, FoundInv and StampInv of one request after a step.
CallAfter(q) ==
    pc'[q] # "idle" =>
        /\ call'[q].op = "put" => call'[q].parts = Part
        /\ call'[q].op = "update" => call'[q].kind = "volume"
        /\ call'[q].op = "delete" => call'[q].parts = {}
        /\ pc'[q] \in {"findApp", "readClock"} => call'[q].op = "put"

FoundAfter(q) ==
    (pc'[q] \in {"readClock", "write"} /\ call'[q].op = "put") => found'[q] # NoApp

StampAfter(q) ==
    /\ pc'[q] # "idle" => asked'[q] <= now'
    /\ (pc'[q] = "write" /\ call'[q].op = "put" /\ call'[q].kind # "cert") =>
          asked'[q] <= stamp'[q] /\ stamp'[q] <= now'

RequestAfter(q) == CallAfter(q) /\ FoundAfter(q) /\ StampAfter(q)

LEMMA RequestStays ==
    ASSUME CallInv, FoundInv, StampInv, now' = now, NEW q \in Req, SameRequest(q)
    PROVE  RequestAfter(q)
  BY DEF CallInv, FoundInv, StampInv, SameRequest, Idle, RequestAfter, CallAfter, FoundAfter,
         StampAfter

LEMMA RequestsGoOn ==
    ASSUME TypeInv, CallInv, FoundInv, StampInv, [Next]_vars
    PROVE  CallInv' /\ FoundInv' /\ StampInv'
<1> SUFFICES ASSUME NEW q \in Req PROVE RequestAfter(q)
  BY DEF CallInv, FoundInv, StampInv, Idle, RequestAfter, CallAfter, FoundAfter, StampAfter
<1> USE DEF Goto, Idle, RequestAfter, CallAfter, FoundAfter, StampAfter
<1>t. /\ pc \in [Req -> {"idle"} \cup Step \cup Answer] /\ stamp \in [Req -> Nat]
      /\ call \in [Req -> Call \cup {NoCall}] /\ now \in Nat
      /\ asked \in [Req -> Nat] /\ found \in [Req -> Req \cup {NoApp, OldLife}]
  BY DEF TypeInv, ResourceTypeOK
<1>i. /\ pc[q] # "idle" =>
            /\ call[q].op = "put" => call[q].parts = Part
            /\ call[q].op = "update" => call[q].kind = "volume"
            /\ call[q].op = "delete" => call[q].parts = {}
            /\ pc[q] \in {"findApp", "readClock"} => call[q].op = "put"
            /\ asked[q] <= now
      /\ (pc[q] \in {"readClock", "write"} /\ call[q].op = "put") => found[q] # NoApp
      /\ (pc[q] = "write" /\ call[q].op = "put" /\ call[q].kind # "cert") =>
            asked[q] <= stamp[q] /\ stamp[q] <= now
  BY DEF CallInv, FoundInv, StampInv
<1>1. ASSUME Arrival(q) PROVE RequestAfter(q)
  <2>1. PICK c \in Call, first \in {"app", "findApp", "write"} :
           Arrive(q, c, first) /\ Asks(q, c, first)
    BY <1>1, ArrivalSteps
  <2>2. call'[q] = c /\ pc'[q] = first /\ asked'[q] = now /\ now' = now
    BY <1>t, <2>1 DEF Arrive
  <2> QED
    BY <1>t, <2>1, <2>2 DEF Asks
<1>2. ASSUME CreateApp(q) \/ DeleteApp(q) PROVE RequestAfter(q)
  <2>1. /\ pc[q] = "app" /\ pc'[q] \in {"ok", "404", "409"} /\ now' = now
        /\ call' = call /\ asked' = asked
    BY <1>2, <1>t DEF CreateApp, DeleteApp
  <2> QED
    BY <1>i, <2>1
<1>3. ASSUME FindApp(q) PROVE RequestAfter(q)
  <2>1. /\ pc[q] = "findApp" /\ call' = call /\ asked' = asked /\ now' = now
        /\ found'[q] = life[call[q].app]
        /\ \/ life[call[q].app] = NoApp /\ pc'[q] = "404"
           \/ life[call[q].app] # NoApp /\ call[q].kind = "cert" /\ pc'[q] = "write"
           \/ life[call[q].app] # NoApp /\ pc'[q] = "readClock"
    BY <1>3, <1>t DEF FindApp
  <2> QED
    BY <1>i, <2>1
<1>4. ASSUME ReadClock(q) PROVE RequestAfter(q)
  <2>1. /\ pc[q] = "readClock" /\ pc'[q] = "write" /\ call' = call /\ asked' = asked
        /\ now' = now /\ found' = found /\ stamp'[q] = now
    BY <1>4, <1>t DEF ReadClock
  <2> QED
    BY <1>i, <1>t, <2>1
<1>5. ASSUME Write(q) PROVE RequestAfter(q)
  <2>1. pc[q] = "write" /\ UNCHANGED <<now, call, stamp, asked, found>>
    BY <1>5, WriteForms
  <2>2. pc'[q] \in Answer
    <3>1. CASE Refused(q)
      BY <1>t, <3>1 DEF Refused, Refuse, Answer
    <3>2. CASE \E S : Replace(q, S)
      BY <1>t, <3>2 DEF Replace, Answer
    <3> QED
      BY <1>5, <3>1, <3>2, WriteForms
  <2> QED
    BY <1>i, <2>1, <2>2 DEF Answer
<1>6. ASSUME NEW r \in Req, r # q,
             Arrival(r) \/ CreateApp(r) \/ DeleteApp(r) \/ FindApp(r) \/ ReadClock(r) \/ Write(r)
      PROVE  RequestAfter(q)
  <2>1. SameRequest(q) /\ now' = now
    BY <1>6, OthersStay
  <2> HIDE DEF RequestAfter
  <2> QED
    BY <2>1, RequestStays
<1>7. CASE Tick
  <2>1. now' = now + 1 /\ UNCHANGED <<pc, call, stamp, asked, found>>
    BY <1>7 DEF Tick, handlerVars
  <2> QED
    BY <1>t, <1>i, <2>1
<1>8. CASE UNCHANGED vars
  BY <1>i, <1>8 DEF vars, handlerVars
<1> QED
  BY <1>1, <1>2, <1>3, <1>4, <1>5, <1>6, <1>7, <1>8 DEF Next

---------------------------------------------------------------------------
(* What a step does to the store. *)

Quiet == UNCHANGED <<life, items, secretsVer, landed, version>>

Creates(r, a) ==
    /\ pc[r] = "app" /\ pc'[r] = "ok" /\ life[a] = NoApp
    /\ life' = [life EXCEPT ![a] = r]
    /\ UNCHANGED <<items, secretsVer, landed, version, found>>

Deletes(a) ==
    /\ life' = [life EXCEPT ![a] = NoApp]
    /\ items' = [items EXCEPT ![a] = {}]
    /\ secretsVer' = [secretsVer EXCEPT ![a] = 0]
    /\ UNCHANGED <<landed, version, found>>

TakesEffect(r, S) ==
    /\ pc[r] = "write" /\ life[call[r].app] # NoApp
    /\ Replace(r, S) /\ Leaves(r, S) /\ S \in SUBSET Item
    /\ UNCHANGED <<now, call, stamp, asked, found>>

LEMMA StoreSteps ==
    ASSUME TypeInv, [Next]_vars
    PROVE  \/ Quiet
           \/ \E r \in Req, a \in App : Creates(r, a)
           \/ \E a \in App : Deletes(a)
           \/ \E r \in Req, S \in SUBSET Item : TakesEffect(r, S)
<1>1. ASSUME NEW r \in Req, Arrival(r) PROVE Quiet
  <2>1. PICK c \in Call, first \in {"app", "findApp", "write"} : Arrive(r, c, first)
    BY <1>1, ArrivalSteps
  <2> QED
    BY <2>1 DEF Arrive, storeVars, Quiet
<1>2. ASSUME NEW r \in Req, CreateApp(r) PROVE Quiet \/ \E a \in App : Creates(r, a)
  <2>1. PICK a \in App : a = call[r].app
    BY <1>2, CallFields DEF CreateApp, Idle
  <2>2. pc[r] = "app" /\ UNCHANGED <<items, secretsVer, landed, version, found>>
    BY <1>2 DEF CreateApp, storeVars
  <2>3. CASE life[a] # NoApp
    BY <1>2, <2>1, <2>2, <2>3 DEF CreateApp, storeVars, Quiet
  <2>4. CASE life[a] = NoApp
    <3>1. pc'[r] = "ok"
      BY <1>2, <2>1, <2>4 DEF CreateApp, Goto, TypeInv, ResourceTypeOK
    <3>2. life' = [life EXCEPT ![a] = r]
      BY <1>2, <2>1, <2>4 DEF CreateApp
    <3> QED
      BY <2>2, <2>4, <3>1, <3>2 DEF Creates
  <2> QED
    BY <2>3, <2>4
<1>3. ASSUME NEW r \in Req, DeleteApp(r) PROVE Quiet \/ \E a \in App : Deletes(a)
  <2>1. PICK a \in App : a = call[r].app
    BY <1>3, CallFields DEF DeleteApp, Idle
  <2>2. CASE life[a] = NoApp
    BY <1>3, <2>1, <2>2 DEF DeleteApp, storeVars, Quiet
  <2>3. CASE life[a] # NoApp
    BY <1>3, <2>1, <2>3 DEF DeleteApp, Deletes
  <2> QED
    BY <2>2, <2>3
<1>4. ASSUME NEW r \in Req, FindApp(r) \/ ReadClock(r) PROVE Quiet
  BY <1>4 DEF FindApp, ReadClock, storeVars, Quiet
<1>5. ASSUME NEW r \in Req, Write(r) PROVE Quiet \/ \E S \in SUBSET Item : TakesEffect(r, S)
  <2>1. pc[r] = "write" /\ UNCHANGED <<now, call, stamp, asked, found>>
    BY <1>5, WriteForms
  <2>2. CASE Refused(r)
    BY <2>2 DEF Refused, Refuse, storeVars, Quiet
  <2>3. ASSUME NEW S, Replace(r, S), Leaves(r, S), life[call[r].app] # NoApp
        PROVE  \E T \in SUBSET Item : TakesEffect(r, T)
    <3>1. S \in SUBSET Item
      BY <2>1, <2>3, LeavesItems DEF Idle
    <3> QED
      BY <2>1, <2>3, <3>1 DEF TakesEffect
  <2> QED
    BY <1>5, <2>2, <2>3, WriteForms
<1>6. CASE Tick \/ UNCHANGED vars
  BY <1>6 DEF Tick, vars, handlerVars, storeVars, Quiet
<1> QED
  BY <1>1, <1>2, <1>3, <1>4, <1>5, <1>6 DEF Next

\* A request is told of an app, if at all, what is true when it looks.
LEMMA FoundStays ==
    ASSUME TypeInv, [Next]_vars, NEW q \in Req
    PROVE  found'[q] = found[q] \/ \E a \in App : found'[q] = life[a]
<1>1. ASSUME NEW r \in Req, r # q,
             Arrival(r) \/ CreateApp(r) \/ DeleteApp(r) \/ FindApp(r) \/ ReadClock(r) \/ Write(r)
      PROVE  found'[q] = found[q]
  BY <1>1, OthersStay DEF SameRequest
<1>2. ASSUME Arrival(q) PROVE found'[q] = found[q]
  <2>1. PICK c \in Call, first \in {"app", "findApp", "write"} : Arrive(q, c, first)
    BY <1>2, ArrivalSteps
  <2> QED
    BY <2>1 DEF Arrive
<1>3. ASSUME CreateApp(q) \/ DeleteApp(q) \/ ReadClock(q) PROVE found'[q] = found[q]
  BY <1>3 DEF CreateApp, DeleteApp, ReadClock
<1>4. ASSUME FindApp(q) PROVE \E a \in App : found'[q] = life[a]
  <2>1. call[q].app \in App
    BY <1>4, CallFields DEF FindApp, Idle
  <2>2. found'[q] = life[call[q].app]
    BY <1>4 DEF FindApp, TypeInv, ResourceTypeOK
  <2> QED
    BY <2>1, <2>2
<1>5. ASSUME Write(q) PROVE found'[q] = found[q]
  BY <1>5, WriteForms
<1>6. CASE Tick \/ UNCHANGED vars
  BY <1>6 DEF Tick, vars, handlerVars
<1> QED
  BY <1>1, <1>2, <1>3, <1>4, <1>5, <1>6 DEF Next

\* What a write that takes effect does, without its actions.
LEMMA EffectOf ==
    ASSUME TypeInv, NEW r \in Req, NEW S \in SUBSET Item, TakesEffect(r, S)
    PROVE  LET a == call[r].app IN
           /\ a \in App /\ call[r] \in Call /\ ~Idle(r) /\ pc[r] = "write" /\ life[a] # NoApp
           /\ life' = life /\ call' = call /\ now' = now /\ asked' = asked /\ found' = found
           /\ pc'[r] = "ok" /\ \A q \in Req : q # r => pc'[q] = pc[q]
           /\ items'[a] = (items[a] \ Named(call[r])) \cup S
           /\ \A b \in App : b # a => items'[b] = items[b]
           /\ landed'[r].life = life[a] /\ landed'[r].place = Cardinality(Landed) + 1
           /\ \A q \in Req : q # r => landed'[q] = landed[q]
           /\ Landed' = Landed \cup {r}
           /\ \A i \in S : i.kind = call[r].kind /\ i.key = call[r].key
           /\ S = {} <=> call[r].op = "delete"
<1>1. pc[r] = "write" /\ life[call[r].app] # NoApp /\ Replace(r, S) /\ Leaves(r, S)
      /\ call' = call /\ now' = now /\ asked' = asked /\ found' = found /\ ~Idle(r)
  BY DEF TakesEffect, Idle
<1> DEFINE a == call[r].app
           n == Cardinality(Landed) + 1
<1>2. call[r] \in Call
  BY <1>1, CallFields
<1>3. /\ \A i \in S : i.kind = call[r].kind /\ i.key = call[r].key
      /\ S = {} <=> call[r].op = "delete"
  BY <1>1, LeavesItems
<1>4. /\ a \in App
      /\ life' = life /\ pc' = [pc EXCEPT ![r] = "ok"]
      /\ items' = [items EXCEPT ![a] = (items[a] \ Named(call[r])) \cup S]
      /\ landed' = [landed EXCEPT ![r] = [life |-> life[a], place |-> n]]
      /\ landed'[r].life = life[a] /\ landed'[r].place = n
      /\ Landed' = Landed \cup {r}
  BY <1>1, ReplaceEffects
<1> DEFINE new == [life |-> life[a], place |-> n]
           rest == (items[a] \ Named(call[r])) \cup S
<1>5. /\ items \in [App -> SUBSET Item] /\ landed \in [Req -> Landing]
      /\ pc \in [Req -> {"idle"} \cup Step \cup Answer]
  BY DEF TypeInv, ResourceTypeOK
<1> HIDE DEF new, rest, a, n
<1>6. pc'[r] = "ok" /\ \A q \in Req : q # r => pc'[q] = pc[q]
  BY <1>4, <1>5
<1>7. items'[a] = rest /\ \A b \in App : b # a => items'[b] = items[b]
  BY <1>4, <1>5 DEF rest
<1>8. \A q \in Req : q # r => landed'[q] = landed[q]
  BY <1>4, <1>5 DEF new
<1> QED
  BY <1>1, <1>2, <1>3, <1>4, <1>6, <1>7, <1>8 DEF rest, a, n

\* Lives do not begin twice.
LEMMA LivesStayBegun ==
    ASSUME TypeInv, LivesBegun, [Next]_vars
    PROVE  LivesBegun'
<1>1. ASSUME NEW q \in Req PROVE Begun(found[q])'
  <2>1. Begun(found[q]) /\ \A a \in App : Begun(life[a])
    BY DEF LivesBegun
  <2>2. CASE found'[q] = found[q]
    BY <2>1, <2>2, BegunStays DEF BegunAfter, Begun
  <2>3. CASE \E a \in App : found'[q] = life[a]
    BY <2>1, <2>3, BegunStays DEF BegunAfter, Begun
  <2> QED
    BY <2>2, <2>3, FoundStays
<1>2. ASSUME NEW x, Begun(x) PROVE BegunAfter(x)
  BY <1>2, BegunStays
<1>3. /\ \A a \in App : BegunAfter(life[a])
      /\ \A q \in Req : BegunAfter(landed[q].life)
  BY <1>2 DEF LivesBegun
<1>4. (\A a \in App : BegunAfter(life'[a])) /\ (\A q \in Req : BegunAfter(landed'[q].life))
  <2>1. CASE Quiet
    BY <1>3, <2>1 DEF Quiet
  <2>2. ASSUME NEW r \in Req, NEW b \in App, Creates(r, b)
        PROVE  (\A a \in App : BegunAfter(life'[a])) /\ (\A q \in Req : BegunAfter(landed'[q].life))
    <3>1. BegunAfter(r) /\ landed' = landed
      BY <2>2 DEF Creates, BegunAfter
    <3>2. \A a \in App : life'[a] = life[a] \/ life'[a] = r
      BY <2>2 DEF Creates, TypeInv, ResourceTypeOK
    <3> QED
      BY <1>3, <3>1, <3>2, Zenon
  <2>3. ASSUME NEW b \in App, Deletes(b)
        PROVE  (\A a \in App : BegunAfter(life'[a])) /\ (\A q \in Req : BegunAfter(landed'[q].life))
    <3>1. BegunAfter(NoApp) /\ landed' = landed
      BY <2>3, ResourceAssumption DEF Deletes, BegunAfter
    <3>2. \A a \in App : life'[a] = life[a] \/ life'[a] = NoApp
      BY <2>3 DEF Deletes, TypeInv, ResourceTypeOK
    <3> QED
      BY <1>3, <3>1, <3>2, Zenon
  <2>4. ASSUME NEW r \in Req, NEW S \in SUBSET Item, TakesEffect(r, S)
        PROVE  (\A a \in App : BegunAfter(life'[a])) /\ (\A q \in Req : BegunAfter(landed'[q].life))
    <3>1. /\ call[r].app \in App /\ life' = life /\ landed'[r].life = life[call[r].app]
          /\ \A q \in Req : q # r => landed'[q] = landed[q]
      BY <2>4, EffectOf
    <3> QED
      BY <1>3, <3>1
  <2> QED
    BY <2>1, <2>2, <2>3, <2>4, StoreSteps
<1> QED
  BY <1>1, <1>4 DEF LivesBegun, Begun, BegunAfter

LEMMA PlacesGiven ==
    ASSUME TypeInv, PlaceInv, [Next]_vars
    PROVE  PlaceInv'
<1>1. ASSUME UNCHANGED landed PROVE PlaceInv'
  <2>1. Landed' = Landed
    BY <1>1 DEF Landed
  <2>2. \A q \in Landed : pc'[q] = "ok"
    BY AnswersStay DEF PlaceInv, Landed, SameRequest, Answer
  <2> QED
    BY <1>1, <2>1, <2>2 DEF PlaceInv
<1>2. ASSUME NEW r \in Req, NEW S \in SUBSET Item, TakesEffect(r, S) PROVE PlaceInv'
  <2> DEFINE n == Cardinality(Landed)
  <2>1. /\ pc[r] = "write" /\ life[call[r].app] # NoApp
        /\ pc'[r] = "ok" /\ \A q \in Req : q # r => pc'[q] = pc[q]
        /\ landed'[r].life = life[call[r].app] /\ landed'[r].place = n + 1
        /\ \A q \in Req : q # r => landed'[q] = landed[q]
        /\ Landed' = Landed \cup {r}
    BY <1>2, EffectOf
  <2>2. r \notin Landed
    BY <2>1 DEF PlaceInv
  <2>3. n \in Nat /\ IsFiniteSet(Landed') /\ Cardinality(Landed') = n + 1
    BY <2>1, <2>2, FS_CardinalityType, FS_AddElement DEF PlaceInv
  <2>4. \A q \in Landed : /\ q \in Req /\ q # r /\ landed'[q] = landed[q]
                          /\ pc[q] = "ok" /\ landed[q].life # NoApp
                          /\ landed[q].place <= n /\ landed[q].place \in Nat
    <3>1. \A q \in Req : landed[q].place \in Nat
      BY DEF TypeInv, ResourceTypeOK, Landing
    <3> QED
      BY <2>1, <2>2, <3>1 DEF PlaceInv, Landed
  <2> HIDE DEF n
  <2>5. \A q \in Landed' : /\ pc'[q] = "ok" /\ landed'[q].life # NoApp
                           /\ landed'[q].place <= n + 1
    BY <2>1, <2>3, <2>4
  <2>6. \A p, q \in Landed' : p # q => landed'[p].place # landed'[q].place
    <3>1. \A p, q \in Landed : p # q => landed'[p].place # landed'[q].place
      BY <2>4 DEF PlaceInv
    <3>2. \A q \in Landed : landed'[q].place # landed'[r].place
      BY <2>1, <2>3, <2>4
    <3> QED
      BY <2>1, <3>1, <3>2
  <2> QED
    BY <2>3, <2>5, <2>6 DEF PlaceInv
<1> QED
  BY <1>1, <1>2, StoreSteps DEF Quiet, Creates, Deletes

---------------------------------------------------------------------------
(* What clients find. *)

LEMMA ItemsTyped ==
    ASSUME TypeInv, NEW a \in App, NEW i \in items[a]
    PROVE  i \in Item /\ i.kind \in Kind /\ i.key \in Key /\ i.data \in [Part -> Req]
           /\ i.updated \in Nat /\ life[a] # NoApp
  BY ItemFields DEF TypeInv, ResourceTypeOK

\* What took effect stays, with the request that asked for it.
LEMMA LandedStay ==
    ASSUME TypeInv, PlaceInv, [Next]_vars
    PROVE  \A q \in Landed : /\ q \in Req /\ SameRequest(q) /\ q \in Landed'
                             /\ pc'[q] = "ok"
<1>1. \A q \in Landed : q \in Req /\ pc[q] = "ok"
  BY DEF PlaceInv, Landed
<1>2. \A q \in Landed : SameRequest(q)
  BY <1>1, AnswersStay DEF Answer
<1>3. \A q \in Landed : q \in Landed' /\ pc'[q] = "ok"
  BY <1>1, <1>2 DEF SameRequest, Landed
<1> QED
  BY <1>1, <1>2, <1>3

LEMMA WritesLanded ==
    ASSUME NEW a, NEW kind, NEW key
    PROVE  Writes(a, kind, key) = {r \in Landed : /\ landed[r].life = life[a] /\ call[r].app = a
                                                  /\ call[r].kind = kind /\ call[r].key = key}
  BY DEF Writes, Landed

\* The writes about this kind and key after a step.
WritesAfter(a, kind, key) ==
    {r \in Landed' : /\ landed'[r].life = life'[a] /\ call'[r].app = a
                     /\ call'[r].kind = kind /\ call'[r].key = key}

LEMMA WritesLandedAfter ==
    ASSUME NEW a, NEW kind, NEW key
    PROVE  Writes(a, kind, key)' = WritesAfter(a, kind, key)
  BY DEF Writes, Landed, WritesAfter

LEMMA SameWrites ==
    ASSUME TypeInv, PlaceInv, [Next]_vars, UNCHANGED landed,
           NEW a, NEW kind, NEW key, life'[a] = life[a]
    PROVE  Writes(a, kind, key)' = Writes(a, kind, key)
<1>1. Landed' = Landed
  BY DEF Landed
<1>2. \A q \in Landed : call'[q] = call[q]
  BY LandedStay DEF SameRequest
<1>3. WritesAfter(a, kind, key) = Writes(a, kind, key)
  BY <1>1, <1>2, WritesLanded DEF WritesAfter
<1> QED
  BY <1>3, WritesLandedAfter

\* Where nothing was written clients find what they found before.
LEMMA SameShow ==
    ASSUME TypeInv, PlaceInv, [Next]_vars, NEW a, NEW kind, NEW key,
           Writes(a, kind, key)' = Writes(a, kind, key),
           At(a, kind, key)' = At(a, kind, key),
           ShowAt(a, kind, key)
    PROVE  ShowAt(a, kind, key)'
<1> DEFINE W == Writes(a, kind, key)
<1>1. \A q \in W : call'[q] = call[q] /\ landed'[q] = landed[q]
  BY LandedStay, WritesLanded DEF SameRequest
<1>2. \A q, r \in W : Before(q, r)' <=> Before(q, r)
  BY <1>1 DEF Before
<1>3. W' = W
  OBVIOUS
<1> HIDE DEF W
<1>4. \A i \in At(a, kind, key) :
          /\ \A p \in Part :
                /\ i.data[p] \in W
                /\ p \in call'[i.data[p]].parts
                /\ \A q \in W : Before(i.data[p], q)' =>
                      call'[q].op # "delete" /\ p \notin call'[q].parts
          /\ \E w \in W : /\ call'[w].op = "put"
                          /\ \A q \in W : Before(w, q)' => call'[q].op # "delete"
  BY <1>1, <1>2 DEF ShowAt, W
<1>5. At(a, kind, key) = {} <=>
          \A r \in W : (\A q \in W : ~Before(r, q)') => call'[r].op = "delete"
  BY <1>1, <1>2 DEF ShowAt, W
<1> QED
  BY <1>3, <1>4, <1>5 DEF ShowAt, W

\* A write that takes effect is the last about its kind and key.
LEMMA NewWrite ==
    ASSUME TypeInv, PlaceInv, [Next]_vars, NEW r \in Req, NEW S \in SUBSET Item,
           TakesEffect(r, S), NEW a, NEW kind, NEW key,
           a = call[r].app, kind = call[r].kind, key = call[r].key
    PROVE  /\ Writes(a, kind, key)' = Writes(a, kind, key) \cup {r}
           /\ At(a, kind, key)' = S
           /\ r \notin Writes(a, kind, key)
           /\ \A q \in Writes(a, kind, key) :
                 call'[q] = call[q] /\ landed'[q] = landed[q]
           /\ \A q \in Writes(a, kind, key) : Before(q, r)'
           /\ \A q \in Writes(a, kind, key)' : ~Before(r, q)'
<1>1. /\ a \in App /\ pc[r] = "write" /\ life' = life /\ call' = call
      /\ items'[a] = (items[a] \ Named(call[r])) \cup S
      /\ landed'[r].life = life[a] /\ landed'[r].place = Cardinality(Landed) + 1
      /\ \A q \in Req : q # r => landed'[q] = landed[q]
      /\ Landed' = Landed \cup {r}
      /\ \A i \in S : i.kind = kind /\ i.key = key
  BY EffectOf
<1>2. r \notin Landed /\ \A q \in Landed : q \in Req
  BY <1>1 DEF PlaceInv, Landed
<1> DEFINE W == Writes(a, kind, key)
<1>3. W \subseteq Landed /\ r \notin W
  BY <1>2, WritesLanded
<1>4. \A q \in Landed : landed'[q] = landed[q]
  BY <1>1, <1>2
<1>5. WritesAfter(a, kind, key) = W \cup {r}
  BY <1>1, <1>2, <1>4, WritesLanded DEF WritesAfter
<1>6. At(a, kind, key)' = S
  <2>1. At(a, kind, key)' = {i \in (items[a] \ Named(call[r])) \cup S : i.kind = kind /\ i.key = key}
    BY <1>1 DEF At
  <2>2. \A i \in items[a] : i.kind = kind /\ i.key = key => i \in Named(call[r])
    BY DEF Named
  <2> QED
    BY <1>1, <2>1, <2>2
<1>7. /\ Cardinality(Landed) \in Nat
      /\ \A q \in Landed : /\ landed[q].place <= Cardinality(Landed)
                           /\ landed[q].place \in Nat
  <2>1. \A q \in Req : landed[q].place \in Nat
    BY DEF TypeInv, ResourceTypeOK, Landing
  <2> QED
    BY <1>2, <2>1, FS_CardinalityType DEF PlaceInv
<1>8. \A q \in Landed : landed'[q].place < landed'[r].place
  BY <1>1, <1>4, <1>7
<1>9. \A q \in Landed : Before(q, r)' /\ ~Before(r, q)'
  <2>1. \A q \in Landed : landed'[q].place \in Nat /\ landed'[r].place \in Nat
    BY <1>1, <1>4, <1>7
  <2> QED
    BY <1>8, <2>1 DEF Before
<1>10. ~Before(r, r)'
  BY <1>1, <1>7 DEF Before
<1> HIDE DEF W
<1>11. Writes(a, kind, key)' = W \cup {r}
  BY <1>5, WritesLandedAfter
<1>12. \A q \in Writes(a, kind, key)' : ~Before(r, q)'
  BY <1>3, <1>9, <1>10, <1>11
<1>13. \A q \in W : call'[q] = call[q] /\ landed'[q] = landed[q]
  BY <1>1, <1>3, <1>4
<1>14. \A q \in W : Before(q, r)'
  BY <1>3, <1>9
<1> QED
  BY <1>3, <1>6, <1>11, <1>12, <1>13, <1>14 DEF W

\* ShowAt after a step, of a set W of writes and a set S of items.
ShowAfter(W, S) ==
    /\ \A i \in S :
          /\ \A p \in Part :
                /\ i.data[p] \in W
                /\ p \in call'[i.data[p]].parts
                /\ \A q \in W : Before(i.data[p], q)' =>
                      call'[q].op # "delete" /\ p \notin call'[q].parts
          /\ \E w \in W : /\ call'[w].op = "put"
                          /\ \A q \in W : Before(w, q)' => call'[q].op # "delete"
    /\ S = {} <=>
          \A r \in W : (\A q \in W : ~Before(r, q)') => call'[r].op = "delete"

\* A write shows where it took effect.
LEMMA WriteShows ==
    ASSUME TypeInv, CallInv, PlaceInv, [Next]_vars, NEW r \in Req, NEW S \in SUBSET Item,
           TakesEffect(r, S), NEW a, NEW kind, NEW key,
           a = call[r].app, kind = call[r].kind, key = call[r].key,
           ShowAt(a, kind, key)
    PROVE  ShowAt(a, kind, key)'
<1> DEFINE W == Writes(a, kind, key)
           X == W \cup {r}
<1>1. /\ call' = call /\ ~Idle(r) /\ a \in App /\ Leaves(r, S)
      /\ S = {} <=> call[r].op = "delete"
  BY EffectOf DEF TakesEffect
<1>2. /\ Writes(a, kind, key)' = X /\ At(a, kind, key)' = S /\ r \notin W
      /\ \A q \in W : landed'[q] = landed[q]
      /\ \A q \in W : Before(q, r)'
      /\ \A q \in X : ~Before(r, q)'
  BY NewWrite
<1>3. /\ call[r].op = "put" => call[r].parts = Part
      /\ call[r].op = "delete" => call[r].parts = {}
  BY <1>1 DEF CallInv
<1>4. \A q, w \in W : Before(q, w)' <=> Before(q, w)
  BY <1>2 DEF Before
<1>5. Named(call[r]) = At(a, kind, key)
  BY DEF Named, At
<1>6. ASSUME NEW i \in At(a, kind, key)
      PROVE  /\ \A p \in Part :
                   /\ i.data[p] \in W
                   /\ p \in call[i.data[p]].parts
                   /\ \A q \in W : Before(i.data[p], q) =>
                         call[q].op # "delete" /\ p \notin call[q].parts
             /\ \E w \in W : /\ call[w].op = "put"
                             /\ \A q \in W : Before(w, q) => call[q].op # "delete"
             /\ i \in Item
  BY <1>1, <1>6, ItemsTyped DEF ShowAt, At
<1> HIDE DEF W
<1>7. ASSUME call[r].op # "delete"
      PROVE  \E x \in X : (\A q \in X : ~Before(x, q)') /\ call'[x].op # "delete"
  BY <1>1, <1>2, <1>7
<1>8. CASE call[r].op = "put" /\ S = {NewItem(r)}
  <2>1. \A p \in Part : NewItem(r).data[p] = r
    BY <1>1, NewItemFields
  <2>2. ASSUME NEW i \in S
        PROVE  /\ \A p \in Part :
                     /\ i.data[p] \in X
                     /\ p \in call'[i.data[p]].parts
                     /\ \A q \in X : Before(i.data[p], q)' =>
                           call'[q].op # "delete" /\ p \notin call'[q].parts
               /\ \E w \in X : /\ call'[w].op = "put"
                               /\ \A q \in X : Before(w, q)' => call'[q].op # "delete"
    <3>1. i = NewItem(r)
      BY <1>8
    <3>2. \A p \in Part : i.data[p] = r
      BY <2>1, <3>1
    <3> QED
      BY <1>1, <1>2, <1>3, <1>8, <3>2
  <2>3. S # {}
    BY <1>8
  <2> HIDE DEF X
  <2>4. ShowAfter(X, S)
    BY <1>7, <1>8, <2>2, <2>3 DEF ShowAfter
  <2> QED
    BY <1>2, <2>4 DEF ShowAt, ShowAfter
<1>9. CASE /\ call[r].op = "update" /\ Named(call[r]) # {}
           /\ S = {SetParts(i, r) : i \in Named(call[r])}
  <2>1. ASSUME NEW j \in S
        PROVE  /\ \A p \in Part :
                     /\ j.data[p] \in X
                     /\ p \in call'[j.data[p]].parts
                     /\ \A q \in X : Before(j.data[p], q)' =>
                           call'[q].op # "delete" /\ p \notin call'[q].parts
               /\ \E w \in X : /\ call'[w].op = "put"
                               /\ \A q \in X : Before(w, q)' => call'[q].op # "delete"
    <3>1. PICK i \in At(a, kind, key) : j = SetParts(i, r)
      BY <1>5, <1>9
    <3>2. \A p \in Part : j.data[p] = IF p \in call[r].parts THEN r ELSE i.data[p]
      BY <1>6, <3>1, SetPartsFields
    <3>3. ASSUME NEW p \in Part
          PROVE  /\ j.data[p] \in X
                 /\ p \in call'[j.data[p]].parts
                 /\ \A q \in X : Before(j.data[p], q)' =>
                       call'[q].op # "delete" /\ p \notin call'[q].parts
      <4>1. CASE p \in call[r].parts
        <5>1. j.data[p] = r
          BY <3>2, <4>1
        <5> QED
          BY <1>1, <1>2, <4>1, <5>1
      <4>2. CASE p \notin call[r].parts
        <5>1. j.data[p] = i.data[p]
          BY <3>2, <4>2
        <5>2. PICK d : d = i.data[p]
          OBVIOUS
        <5>3. /\ d \in W /\ p \in call[d].parts
              /\ \A q \in W : Before(d, q) => call[q].op # "delete" /\ p \notin call[q].parts
          BY <1>6, <5>2
        <5>4. \A q \in X : Before(d, q)' => call[q].op # "delete" /\ p \notin call[q].parts
          BY <1>4, <1>9, <4>2, <5>3
        <5> QED
          BY <1>1, <5>1, <5>2, <5>3, <5>4
      <4> QED
        BY <4>1, <4>2
    <3>4. PICK w \in W : /\ call[w].op = "put"
                         /\ \A q \in W : Before(w, q) => call[q].op # "delete"
      BY <1>6
    <3>5. \A q \in X : Before(w, q)' => call'[q].op # "delete"
      BY <1>1, <1>4, <1>9, <3>4
    <3> QED
      BY <1>1, <3>3, <3>4, <3>5
  <2>2. S # {}
    BY <1>9
  <2> HIDE DEF X
  <2>3. ShowAfter(X, S)
    BY <1>7, <1>9, <2>1, <2>2 DEF ShowAfter
  <2> QED
    BY <1>2, <2>3 DEF ShowAt, ShowAfter
<1>10. CASE call[r].op = "delete" /\ S = {}
  <2>1. \A x \in X : (\A q \in X : ~Before(x, q)') => call'[x].op = "delete"
    BY <1>1, <1>2, <1>10
  <2> HIDE DEF X
  <2>2. ShowAfter(X, S)
    BY <1>10, <2>1 DEF ShowAfter
  <2> QED
    BY <1>2, <2>2 DEF ShowAt, ShowAfter
<1> QED
  BY <1>1, <1>8, <1>9, <1>10 DEF Leaves

\* A write shows nowhere else.
LEMMA WriteShowsHereOnly ==
    ASSUME TypeInv, PlaceInv, [Next]_vars, NEW r \in Req, NEW S \in SUBSET Item,
           TakesEffect(r, S), NEW a \in App, NEW kind, NEW key,
           ~(a = call[r].app /\ kind = call[r].kind /\ key = call[r].key),
           ShowAt(a, kind, key)
    PROVE  ShowAt(a, kind, key)'
<1>1. /\ call[r].app \in App /\ pc[r] = "write" /\ life' = life /\ call' = call
      /\ items'[call[r].app] = (items[call[r].app] \ Named(call[r])) \cup S
      /\ \A b \in App : b # call[r].app => items'[b] = items[b]
      /\ \A q \in Req : q # r => landed'[q] = landed[q]
      /\ Landed' = Landed \cup {r}
      /\ \A i \in S : i.kind = call[r].kind /\ i.key = call[r].key
  BY EffectOf
<1>2. r \notin Landed /\ \A q \in Landed : landed'[q] = landed[q]
  BY <1>1 DEF PlaceInv, Landed
<1>3. WritesAfter(a, kind, key) = Writes(a, kind, key)
  BY <1>1, <1>2, WritesLanded DEF WritesAfter
<1>4. At(a, kind, key)' = At(a, kind, key)
  <2>1. CASE a # call[r].app
    BY <1>1, <2>1 DEF At
  <2>2. CASE a = call[r].app
    <3>1. \A i \in Named(call[r]) \cup S : ~(i.kind = kind /\ i.key = key)
      BY <1>1, <2>2 DEF Named
    <3> QED
      BY <1>1, <2>2, <3>1 DEF At
  <2> QED
    BY <2>1, <2>2
<1> QED
  BY <1>3, <1>4, WritesLandedAfter, SameShow

\* A life that has just begun has no writes, and no items.
LEMMA NothingShown ==
    ASSUME TypeInv, LivesBegun, PlaceInv, [Next]_vars, NEW r \in Req, NEW a \in App,
           Creates(r, a), NEW kind, NEW key
    PROVE  ShowAt(a, kind, key)'
<1>1. /\ pc[r] = "app" /\ life'[a] = r /\ items'[a] = {} /\ landed' = landed
  BY DEF Creates, TypeInv, ResourceTypeOK
<1>2. \A q \in Landed : landed[q].life # r
  BY <1>1 DEF LivesBegun, Begun, Landed
<1>3. WritesAfter(a, kind, key) = {}
  BY <1>1, <1>2 DEF WritesAfter, Landed
<1>4. Writes(a, kind, key)' = {} /\ At(a, kind, key)' = {}
  BY <1>1, <1>3, WritesLandedAfter DEF At
<1> QED
  BY <1>4 DEF ShowAt

LEMMA NextShowInv ==
    ASSUME TypeInv, CallInv, LivesBegun, PlaceInv, ShowInv, [Next]_vars
    PROVE  ShowInv'
<1> SUFFICES ASSUME NEW a \in App, life'[a] # NoApp, NEW kind \in Kind, NEW key \in Key
             PROVE  ShowAt(a, kind, key)'
  BY DEF ShowInv
<1>1. ASSUME UNCHANGED landed, life'[a] = life[a], items'[a] = items[a]
      PROVE  ShowAt(a, kind, key)'
  <2>1. ShowAt(a, kind, key)
    BY <1>1 DEF ShowInv
  <2>2. At(a, kind, key)' = At(a, kind, key)
    BY <1>1 DEF At
  <2> QED
    BY <1>1, <2>1, <2>2, SameWrites, SameShow
<1>2. CASE Quiet
  BY <1>1, <1>2 DEF Quiet
<1>3. ASSUME NEW r \in Req, NEW b \in App, Creates(r, b) PROVE ShowAt(a, kind, key)'
  <2>1. CASE a = b
    BY <1>3, <2>1, NothingShown
  <2>2. CASE a # b
    BY <1>1, <1>3, <2>2 DEF Creates, TypeInv, ResourceTypeOK
  <2> QED
    BY <2>1, <2>2
<1>4. ASSUME NEW b \in App, Deletes(b) PROVE ShowAt(a, kind, key)'
  <2>1. a # b
    BY <1>4 DEF Deletes, TypeInv, ResourceTypeOK
  <2> QED
    BY <1>1, <1>4, <2>1 DEF Deletes, TypeInv, ResourceTypeOK
<1>5. ASSUME NEW r \in Req, NEW S \in SUBSET Item, TakesEffect(r, S)
      PROVE  ShowAt(a, kind, key)'
  <2>1. life' = life
    BY <1>5, EffectOf
  <2>2. ShowAt(a, kind, key)
    BY <2>1 DEF ShowInv
  <2>3. CASE a = call[r].app /\ kind = call[r].kind /\ key = call[r].key
    BY <1>5, <2>2, <2>3, WriteShows
  <2>4. CASE ~(a = call[r].app /\ kind = call[r].kind /\ key = call[r].key)
    BY <1>5, <2>2, <2>4, WriteShowsHereOnly
  <2> QED
    BY <2>3, <2>4
<1> QED
  BY <1>2, <1>3, <1>4, <1>5, StoreSteps

---------------------------------------------------------------------------
(* Numbers, deletions, errors and times. *)

\* The place a request that has not written has is that of no other.
LEMMA LandedKnown ==
    ASSUME TypeInv, PlaceInv
    PROVE  \A q, r \in Req :
              /\ landed[q].place \in Nat
              /\ landed[q].life # NoApp => q \in Landed
              /\ q \in Landed => landed[q].life # NoApp /\ pc[q] = "ok"
              /\ Before(q, r) => r \in Landed
<1>1. \A q \in Req : landed[q].place \in Nat
  BY DEF TypeInv, ResourceTypeOK, Landing
<1>2. Nowhere.life = NoApp /\ Nowhere.place = 0
  BY DEF Nowhere
<1>3. \A q \in Req : q \notin Landed => landed[q].life = NoApp /\ landed[q].place = 0
  BY <1>2 DEF Landed
<1> QED
  BY <1>1, <1>3 DEF Before, PlaceInv

LEMMA VersionsStayInOrder ==
    ASSUME TypeInv, LivesBegun, PlaceInv, VersionsInOrder, [Next]_vars
    PROVE  VersionsInOrder'
<1>1. PlaceInv' /\ TypeInv'
  BY PlacesGiven, NextTypeInv
<1>2. \A q \in Landed : q \in Req /\ call'[q] = call[q] /\ landed'[q] = landed[q]
                        /\ version'[q] = version[q]
  BY LandedStay DEF SameRequest
<1>3. \A q, r \in Landed : Before(q, r)' <=> Before(q, r)
  BY <1>2 DEF Before
<1>4. \A q \in Landed : call[q].app \in App /\ pc[q] = "ok"
  BY CallFields DEF PlaceInv, Landed, Idle
<1>5. \A q \in Landed : call[q].kind = "secret" =>
         /\ landed[q].life = life[call[q].app] => version[q] <= secretsVer[call[q].app]
         /\ \A r \in Landed \ {q} :
               (/\ landed[r].life = landed[q].life /\ call[r].app = call[q].app
                /\ call[r].kind = "secret")
                   => (Before(q, r) <=> version[q] < version[r])
  BY DEF VersionsInOrder, Landed
<1> SUFFICES ASSUME NEW q \in Landed', call'[q].kind = "secret"
             PROVE  /\ landed'[q].life = life'[call'[q].app] =>
                          version'[q] <= secretsVer'[call'[q].app]
                    /\ \A r \in Landed' \ {q} :
                          (/\ landed'[r].life = landed'[q].life /\ call'[r].app = call'[q].app
                           /\ call'[r].kind = "secret")
                              => (Before(q, r)' <=> version'[q] < version'[r])
  <2>1. \A q, r \in Req : /\ q \in Landed' <=> landed'[q] # Nowhere
                          /\ q \in Landed' => landed'[q].life # NoApp
                          /\ landed'[r].life # NoApp => r \in Landed'
    <3>1. \A q, r \in Req : /\ landed[q].life # NoApp => q \in Landed
                            /\ q \in Landed => landed[q].life # NoApp
                            /\ q \in Landed <=> landed[q] # Nowhere
      BY LandedKnown DEF Landed
    <3>2. Nowhere.life = NoApp
      BY DEF Nowhere
    <3> QED
      BY <1>1, <3>2 DEF PlaceInv, Landed
  <2> QED
    BY <2>1 DEF VersionsInOrder
<1>6. CASE Landed' = Landed /\ UNCHANGED landed
  <2>1. /\ q \in Landed /\ call'[q] = call[q] /\ landed'[q] = landed[q]
        /\ version'[q] = version[q] /\ call[q].app \in App
    BY <1>2, <1>4, <1>6
  <2>2. ASSUME landed[q].life = life'[call[q].app]
        PROVE  version[q] <= secretsVer'[call[q].app]
    <3>1. landed[q].life # NoApp /\ \A r \in Req : pc[r] = "app" => landed[q].life # r
      BY <2>1 DEF PlaceInv, LivesBegun, Begun, Landed
    <3>2. CASE Quiet
      BY <1>5, <1>6, <2>1, <2>2, <3>2 DEF Quiet
    <3>3. ASSUME NEW r \in Req, NEW a \in App, Creates(r, a)
          PROVE  version[q] <= secretsVer'[call[q].app]
      BY <1>5, <2>1, <2>2, <3>1, <3>3 DEF Creates, TypeInv, ResourceTypeOK
    <3>4. ASSUME NEW a \in App, Deletes(a)
          PROVE  version[q] <= secretsVer'[call[q].app]
      BY <1>5, <2>1, <2>2, <3>1, <3>4 DEF Deletes, TypeInv, ResourceTypeOK
    <3>5. ASSUME NEW r \in Req, NEW S \in SUBSET Item, TakesEffect(r, S) PROVE FALSE
      <4>1. r \in Landed' /\ pc[r] = "write"
        BY <3>5, EffectOf
      <4> QED
        BY <1>4, <1>6, <4>1
    <3> QED
      BY <3>2, <3>3, <3>4, <3>5, StoreSteps
  <2> QED
    BY <1>2, <1>3, <1>5, <1>6, <2>1, <2>2
<1>7. ASSUME NEW r \in Req, NEW S \in SUBSET Item, TakesEffect(r, S)
      PROVE  /\ landed'[q].life = life'[call'[q].app] =>
                   version'[q] <= secretsVer'[call'[q].app]
             /\ \A w \in Landed' \ {q} :
                   (/\ landed'[w].life = landed'[q].life /\ call'[w].app = call'[q].app
                    /\ call'[w].kind = "secret")
                       => (Before(q, w)' <=> version'[q] < version'[w])
  <2> DEFINE n == Cardinality(Landed)
  <2>1. /\ pc[r] = "write" /\ life' = life /\ call' = call /\ Landed' = Landed \cup {r}
        /\ landed'[r].life = life[call[r].app] /\ landed'[r].place = n + 1
        /\ call[r].app \in App
    BY <1>7, EffectOf
  <2>2. r \notin Landed
    BY <1>4, <2>1
  <2>3. /\ call[r].kind = "secret" =>
              /\ secretsVer' = [secretsVer EXCEPT ![call[r].app] = secretsVer[call[r].app] + 1]
              /\ version' = [version EXCEPT ![r] = secretsVer[call[r].app] + 1]
        /\ call[r].kind # "secret" => secretsVer' = secretsVer /\ version' = version
    <3>1. Number(r)
      BY <1>7, Zenon DEF TakesEffect, Replace
    <3> QED
      BY <2>1, <3>1, NumberEffects
  <2>4. secretsVer \in [App -> Nat] /\ version \in [Req -> Nat]
    BY DEF TypeInv, ResourceTypeOK
  <2>5. PICK a \in App : a = call[r].app
    BY <2>1
  <2>6. call[r].kind = "secret" => version'[r] = secretsVer[a] + 1 /\ secretsVer'[a] = secretsVer[a] + 1
    BY <2>3, <2>4, <2>5
  <2>7. \A b \in App : secretsVer[b] <= secretsVer'[b] /\ secretsVer[b] \in Nat /\ secretsVer'[b] \in Nat
    BY <2>3, <2>4, <2>5
  <2>8. \A w \in Landed : Before(w, r)' /\ ~Before(r, w)'
    <3>1. \A w \in Landed : landed'[w].place \in Nat /\ landed'[w].place <= n /\ n \in Nat
      BY <1>2, LandedKnown, FS_CardinalityType DEF PlaceInv
    <3> HIDE DEF n
    <3> QED
      BY <2>1, <3>1 DEF Before
  <2>9. \A w \in Landed : /\ w \in Req /\ call[w].app \in App /\ version[w] \in Nat
                          /\ version'[w] = version[w]
    BY <1>2, <1>4, <2>4
  <2>10. ASSUME NEW w \in Landed, call[w].kind = "secret", call[r].kind = "secret",
                landed[w].life = landed'[r].life, call[w].app = call[r].app
         PROVE  version'[w] < version'[r] /\ ~(version'[r] < version'[w])
    <3>1. version[w] <= secretsVer[a]
      BY <1>5, <2>1, <2>5, <2>10
    <3> QED
      BY <2>5, <2>6, <2>7, <2>9, <2>10, <3>1
  <2>11. CASE q \in Landed
    <3>1. landed[q].life = life[call[q].app] => version[q] <= secretsVer[call[q].app]
      BY <1>5, <1>7, <2>1, <2>11
    <3>2. landed'[q].life = life'[call'[q].app] => version'[q] <= secretsVer'[call'[q].app]
      BY <1>2, <2>1, <2>7, <2>9, <2>11, <3>1
    <3>3. ASSUME NEW w \in Landed \ {q}, landed'[w].life = landed'[q].life,
                 call'[w].app = call'[q].app, call'[w].kind = "secret"
          PROVE  Before(q, w)' <=> version'[q] < version'[w]
      <4>1. Before(q, w) <=> version[q] < version[w]
        BY <1>2, <1>5, <2>1, <2>11, <3>3
      <4> QED
        BY <1>2, <1>3, <2>11, <3>3, <4>1
    <3>4. ASSUME landed'[r].life = landed'[q].life, call'[r].app = call'[q].app,
                 call'[r].kind = "secret"
          PROVE  Before(q, r)' <=> version'[q] < version'[r]
      BY <1>2, <2>1, <2>8, <2>10, <2>11, <3>4
    <3> QED
      BY <2>1, <3>2, <3>3, <3>4
  <2>12. CASE q = r
    <3>1. version'[q] <= secretsVer'[call'[q].app]
      BY <2>1, <2>5, <2>6, <2>7, <2>12
    <3>2. ASSUME NEW w \in Landed, landed'[w].life = landed'[r].life,
                 call'[w].app = call'[r].app, call'[w].kind = "secret"
          PROVE  Before(r, w)' <=> version'[r] < version'[w]
      BY <1>2, <2>1, <2>8, <2>10, <2>12, <3>2
    <3> QED
      BY <2>1, <2>12, <3>1, <3>2
  <2> QED
    BY <2>1, <2>11, <2>12
<1> QED
  BY <1>6, <1>7, StoreSteps DEF Quiet, Creates, Deletes, Landed

LEMMA OnceStays ==
    ASSUME TypeInv, CallInv, PlaceInv, ShowInv, OnceInv, [Next]_vars
    PROVE  OnceInv'
<1>1. \A q \in Landed : q \in Req /\ call'[q] = call[q] /\ landed'[q] = landed[q]
                        /\ q \in Landed'
  BY LandedStay DEF SameRequest
<1>2. \A q, r \in Landed : Before(q, r)' <=> Before(q, r)
  BY <1>1 DEF Before
<1> SUFFICES ASSUME NEW q \in Landed', NEW r \in Landed',
                    call'[q].op = "delete", call'[r].op = "delete",
                    call'[q].app = call'[r].app, call'[q].kind = call'[r].kind,
                    call'[q].key = call'[r].key,
                    landed'[q].life = landed'[r].life, Before(q, r)'
             PROVE  \E w \in Landed' : /\ call'[w].op = "put" /\ call'[w].app = call'[r].app
                                       /\ call'[w].kind = call'[r].kind
                                       /\ call'[w].key = call'[r].key
                                       /\ Before(q, w)' /\ Before(w, r)'
  BY DEF OnceInv
<1>3. CASE q \in Landed /\ r \in Landed
  <2>1. PICK w \in Landed : /\ call[w].op = "put" /\ call[w].app = call[r].app
                            /\ call[w].kind = call[r].kind
                            /\ call[w].key = call[r].key
                            /\ Before(q, w) /\ Before(w, r)
    BY <1>1, <1>2, <1>3 DEF OnceInv
  <2> QED
    BY <1>1, <1>2, <1>3, <2>1
<1>4. ASSUME NEW x \in Req, NEW S \in SUBSET Item, TakesEffect(x, S), x \in {q, r}
      PROVE  \E w \in Landed' : /\ call'[w].op = "put" /\ call'[w].app = call'[r].app
                                /\ call'[w].kind = call'[r].kind
                                /\ call'[w].key = call'[r].key
                                /\ Before(q, w)' /\ Before(w, r)'
  <2>1. PICK a, kind, key : a = call[x].app /\ kind = call[x].kind /\ key = call[x].key
    OBVIOUS
  <2>2. /\ a \in App /\ ~Idle(x) /\ life' = life /\ call' = call /\ life[a] # NoApp
        /\ landed'[x].life = life[a] /\ Landed' = Landed \cup {x} /\ Leaves(x, S)
    BY <1>4, <2>1, EffectOf DEF TakesEffect
  <2>3. kind \in Kind /\ key \in Key
    BY <2>1, <2>2, CallFields
  <2>4. /\ Writes(a, kind, key)' = Writes(a, kind, key) \cup {x}
        /\ \A w \in Writes(a, kind, key) : Before(w, x)'
        /\ \A w \in Writes(a, kind, key)' : ~Before(x, w)'
    BY <1>4, <2>1, NewWrite
  <2>5. q \in Writes(a, kind, key)' /\ r \in Writes(a, kind, key)'
    <3>1. q \in WritesAfter(a, kind, key) /\ r \in WritesAfter(a, kind, key)
      BY <1>4, <2>1, <2>2 DEF WritesAfter
    <3> QED
      BY <3>1, WritesLandedAfter
  <2>6. x # q /\ x = r
    BY <1>4, <2>4, <2>5
  <2>7. q \in Writes(a, kind, key)
    BY <2>4, <2>5, <2>6
  <2>8. PICK i \in At(a, kind, key) : TRUE
    <3>1. Named(call[x]) # {}
      BY <2>2, <2>6 DEF Leaves
    <3> QED
      BY <2>1, <3>1 DEF Named, At
  <2>9. PICK w \in Writes(a, kind, key) :
           /\ call[w].op = "put"
           /\ \A v \in Writes(a, kind, key) : Before(w, v) => call[v].op # "delete"
    BY <2>2, <2>3, <2>8 DEF ShowInv, ShowAt
  <2>10. q \in Landed /\ w \in Landed /\ q # w
    BY <2>2, <2>7, <2>9, WritesLanded
  <2>11. Before(q, w)
    <3>1. ~Before(w, q)
      BY <2>2, <2>7, <2>9
    <3>2. landed[q].place # landed[w].place
      BY <2>10 DEF PlaceInv
    <3>3. landed[q].place \in Nat /\ landed[w].place \in Nat
      BY <1>1, <2>10, LandedKnown
    <3> QED
      BY <3>1, <3>2, <3>3 DEF Before
  <2>12. Before(q, w)' /\ Before(w, r)'
    BY <1>2, <2>4, <2>6, <2>9, <2>10, <2>11
  <2>13. /\ call[w].app = a /\ call[w].kind = kind /\ call[w].key = key
    BY <2>9, WritesLanded
  <2> QED
    BY <1>1, <2>1, <2>2, <2>6, <2>9, <2>10, <2>12, <2>13
<1>5. (q \in Landed /\ r \in Landed)
         \/ \E x \in Req, S \in SUBSET Item : TakesEffect(x, S) /\ x \in {q, r}
  <2>1. ASSUME NEW x \in Req, NEW S \in SUBSET Item, TakesEffect(x, S)
        PROVE  Landed' = Landed \cup {x}
    BY <2>1, EffectOf
  <2>2. CASE Quiet \/ (\E x \in Req, a \in App : Creates(x, a)) \/ \E a \in App : Deletes(a)
    BY <2>2 DEF Quiet, Creates, Deletes, Landed
  <2> QED
    BY <2>1, <2>2, StoreSteps
<1> QED
  BY <1>3, <1>4, <1>5

LEMMA ErrorComes ==
    ASSUME TypeInv, [Next]_vars, NEW q \in Req, pc'[q] = "500", pc[q] # "500"
    PROVE  /\ pc[q] = "write" /\ call[q].op = "put" /\ life[call[q].app] = NoApp
           /\ call'[q] = call[q] /\ found'[q] = found[q] /\ life' = life
<1> USE DEF Goto
<1>t. pc \in [Req -> {"idle"} \cup Step \cup Answer]
  BY DEF TypeInv, ResourceTypeOK
<1>1. ASSUME NEW r \in Req, r # q,
             Arrival(r) \/ CreateApp(r) \/ DeleteApp(r) \/ FindApp(r) \/ ReadClock(r) \/ Write(r)
      PROVE  FALSE
  BY <1>1, OthersStay DEF SameRequest
<1>2. ASSUME Arrival(q) PROVE FALSE
  <2>1. PICK c \in Call, first \in {"app", "findApp", "write"} : Arrive(q, c, first)
    BY <1>2, ArrivalSteps
  <2> QED
    BY <1>t, <2>1 DEF Arrive
<1>3. ASSUME CreateApp(q) \/ DeleteApp(q) \/ FindApp(q) \/ ReadClock(q) PROVE FALSE
  BY <1>t, <1>3 DEF CreateApp, DeleteApp, FindApp, ReadClock
<1>4. CASE Write(q)
  <2>1. pc[q] = "write" /\ UNCHANGED <<now, call, stamp, asked, found>>
    BY <1>4, WriteForms
  <2>2. ASSUME NEW S, Replace(q, S) PROVE FALSE
    BY <1>t, <2>2 DEF Replace
  <2>3. Refused(q)
    BY <1>4, <2>2, WriteForms
  <2> QED
    BY <1>t, <2>1, <2>3 DEF Refused, Refuse, storeVars
<1>5. ASSUME Tick \/ UNCHANGED vars PROVE FALSE
  BY <1>5 DEF Tick, vars, handlerVars
<1> QED
  BY <1>1, <1>2, <1>3, <1>4, <1>5 DEF Next

LEMMA ErrorsStay ==
    ASSUME TypeInv, LivesBegun, FoundInv, ErrorMeansLifeEnded, [Next]_vars
    PROVE  ErrorMeansLifeEnded'
<1> SUFFICES ASSUME NEW q \in Req, pc'[q] = "500"
             PROVE  found'[q] # NoApp /\ found'[q] # life'[call'[q].app]
  BY DEF ErrorMeansLifeEnded
<1>1. CASE pc[q] # "500"
  <2>1. /\ pc[q] = "write" /\ call[q].op = "put" /\ life[call[q].app] = NoApp
        /\ call'[q] = call[q] /\ found'[q] = found[q] /\ life' = life
    BY <1>1, ErrorComes
  <2> QED
    BY <2>1 DEF FoundInv
<1>2. CASE pc[q] = "500"
  <2>1. call'[q] = call[q] /\ found'[q] = found[q]
    BY <1>2, AnswersStay DEF SameRequest, Answer
  <2>2. found[q] # NoApp /\ found[q] # life[call[q].app] /\ call[q].app \in App
    BY <1>2, CallFields DEF ErrorMeansLifeEnded, Idle
  <2>3. \A a \in App : life'[a] \in {life[a], NoApp} \/ life'[a] \in {r \in Req : pc[r] = "app"}
    <3>1. CASE Quiet
      BY <3>1 DEF Quiet
    <3>2. ASSUME NEW r \in Req, NEW b \in App, Creates(r, b)
          PROVE  \A a \in App : life'[a] = life[a] \/ (life'[a] = r /\ pc[r] = "app")
      BY <3>2 DEF Creates, TypeInv, ResourceTypeOK
    <3>3. ASSUME NEW b \in App, Deletes(b)
          PROVE  \A a \in App : life'[a] \in {life[a], NoApp}
      BY <3>3 DEF Deletes, TypeInv, ResourceTypeOK
    <3>4. ASSUME NEW r \in Req, NEW S \in SUBSET Item, TakesEffect(r, S) PROVE life' = life
      BY <3>4, EffectOf
    <3> QED
      BY <3>1, <3>2, <3>3, <3>4, StoreSteps
  <2>4. \A r \in Req : pc[r] = "app" => found[q] # r
    BY DEF LivesBegun, Begun
  <2> QED
    BY <2>1, <2>2, <2>3, <2>4
<1> QED
  BY <1>1, <1>2

LEMMA TimeGoesOn == TypeInv /\ [Next]_vars => now \in Nat /\ now' \in Nat /\ now <= now'
<1> SUFFICES ASSUME TypeInv, [Next]_vars PROVE now \in Nat /\ now' \in Nat /\ now <= now'
  OBVIOUS
<1>1. now \in Nat
  BY DEF TypeInv, ResourceTypeOK
<1>2. ASSUME NEW r \in Req,
             Arrival(r) \/ CreateApp(r) \/ DeleteApp(r) \/ FindApp(r) \/ ReadClock(r) \/ Write(r)
      PROVE  now' = now
  BY <1>2, OthersStay
<1>3. CASE Tick
  BY <1>1, <1>3 DEF Tick
<1>4. CASE UNCHANGED vars
  BY <1>1, <1>4 DEF vars
<1> QED
  BY <1>1, <1>2, <1>3, <1>4 DEF Next

\* What shows landed.
LEMMA ShownLanded ==
    ASSUME TypeInv, ShowInv, NEW a \in App, NEW i \in items[a], NEW p \in Part
    PROVE  i.data[p] \in Landed /\ landed[i.data[p]].life = life[a]
<1>1. life[a] # NoApp /\ i.kind \in Kind /\ i.key \in Key
  BY ItemsTyped
<1>2. ShowAt(a, i.kind, i.key)
  BY <1>1 DEF ShowInv
<1>3. i.data[p] \in Writes(a, i.kind, i.key)
  BY <1>2 DEF ShowAt, At
<1> QED
  BY <1>3, WritesLanded

LEMMA UpdatedStays ==
    ASSUME TypeInv, CallInv, PlaceInv, StampInv, ShowInv, UpdatedSinceAsked, [Next]_vars
    PROVE  UpdatedSinceAsked'
<1>1. now \in Nat /\ now' \in Nat /\ now <= now'
  BY TimeGoesOn
<1>2. ASSUME NEW a \in App, NEW i \in items[a], i.kind = "secret", NEW p \in Part
      PROVE  asked'[i.data[p]] <= i.updated /\ i.updated <= now'
  <2>1. PICK d : d = i.data[p]
    OBVIOUS
  <2>2. d \in Landed
    BY <2>1, ShownLanded
  <2>3. asked'[d] = asked[d]
    BY <2>2, LandedStay DEF SameRequest
  <2>4. asked[d] <= i.updated /\ i.updated <= now /\ i.updated \in Nat
    BY <1>2, <2>1, ItemsTyped DEF UpdatedSinceAsked
  <2> QED
    BY <1>1, <2>1, <2>3, <2>4
<1>3. ASSUME \A a \in App : items'[a] \subseteq items[a] PROVE UpdatedSinceAsked'
  BY <1>2, <1>3 DEF UpdatedSinceAsked
<1>4. CASE Quiet
  BY <1>3, <1>4 DEF Quiet
<1>5. ASSUME NEW r \in Req, NEW b \in App, Creates(r, b) PROVE UpdatedSinceAsked'
  BY <1>3, <1>5 DEF Creates
<1>6. ASSUME NEW b \in App, Deletes(b) PROVE UpdatedSinceAsked'
  <2>1. \A a \in App : items'[a] \subseteq items[a]
    BY <1>6 DEF Deletes, TypeInv, ResourceTypeOK
  <2> QED
    BY <1>3, <2>1
<1>7. ASSUME NEW r \in Req, NEW S \in SUBSET Item, TakesEffect(r, S) PROVE UpdatedSinceAsked'
  <2>1. /\ pc[r] = "write" /\ ~Idle(r) /\ call[r].app \in App /\ asked' = asked /\ now' = now
        /\ items'[call[r].app] = (items[call[r].app] \ Named(call[r])) \cup S
        /\ \A b \in App : b # call[r].app => items'[b] = items[b]
        /\ \A i \in S : i.kind = call[r].kind
        /\ Leaves(r, S)
    BY <1>7, EffectOf DEF TakesEffect
  <2>2. ASSUME NEW i \in S, i.kind = "secret", NEW p \in Part
        PROVE  asked'[i.data[p]] <= i.updated /\ i.updated <= now'
    <3>1. call[r].kind = "secret" /\ call[r].op = "put" /\ i = NewItem(r)
      BY <2>1, <2>2 DEF Leaves, CallInv
    <3>2. i.data[p] = r /\ i.updated = stamp[r]
      BY <2>1, <3>1, NewItemFields
    <3> QED
      BY <2>1, <3>1, <3>2 DEF StampInv
  <2>3. ASSUME NEW a \in App, NEW i \in items'[a]
        PROVE  i \in items[a] \/ i \in S
    BY <2>1, <2>3
  <2> QED
    BY <1>2, <2>2, <2>3 DEF UpdatedSinceAsked
<1> QED
  BY <1>4, <1>5, <1>6, <1>7, StoreSteps

---------------------------------------------------------------------------
(* The invariant holds, and what follows from it. *)

LEMMA InitResourceInv == Init => ResourceInv
<1> SUFFICES ASSUME Init PROVE ResourceInv
  OBVIOUS
<1>1. Landed = {}
  BY DEF Init, Landed
<1>2. PlaceInv
  BY <1>1, FS_EmptySet DEF PlaceInv
<1>3. CallInv /\ FoundInv /\ StampInv
  BY DEF Init, CallInv, FoundInv, StampInv, Idle
<1>4. LivesBegun
  BY ResourceAssumption DEF Init, LivesBegun, Begun, Nowhere
<1>5. ErrorMeansLifeEnded /\ UpdatedSinceAsked
  BY DEF Init, ErrorMeansLifeEnded, UpdatedSinceAsked
<1>6. VersionsInOrder /\ OnceInv
  BY <1>1 DEF Init, VersionsInOrder, OnceInv
<1>7. ShowInv
  <2> SUFFICES ASSUME NEW a \in App, NEW kind \in Kind, NEW key \in Key
               PROVE  ShowAt(a, kind, key)
    BY DEF ShowInv
  <2>1. Writes(a, kind, key) = {} /\ At(a, kind, key) = {}
    BY DEF Init, Writes, At
  <2> QED
    BY <2>1 DEF ShowAt
<1> QED
  BY <1>2, <1>3, <1>4, <1>5, <1>6, <1>7 DEF ResourceInv

LEMMA ResourceInvHolds == Spec => [](TypeInv /\ ResourceInv)
<1>1. TypeInv /\ ResourceInv /\ [Next]_vars => ResourceInv'
  BY RequestsGoOn, LivesStayBegun, PlacesGiven, NextShowInv, VersionsStayInOrder, OnceStays,
     ErrorsStay, UpdatedStays DEF ResourceInv
<1> QED
  BY InitTypeInv, NextTypeInv, InitResourceInv, <1>1, PTL DEF Spec

\* However the writes of clients interleave between their lookups and their
\* writes, each finds what the last write of each part left.
THEOREM ClientsFindTheLastWrite == Spec => []LastWriteShows
<1>1. ASSUME TypeInv, ResourceInv PROVE LastWriteShows
  <2>1. \A kind \in Kind : Keys(kind) \subseteq Key
    BY DEF Kind, Keys, KnownVolumes, Key
  <2>2. ASSUME NEW a \in App, life[a] # NoApp, NEW kind \in Kind, NEW key \in Keys(kind)
        PROVE  ShowAt(a, kind, key)
    BY <1>1, <2>1, <2>2 DEF ResourceInv, ShowInv
  <2> QED
    BY <2>2 DEF LastWriteShows, ShowAt, At
<1> QED
  BY ResourceInvHolds, <1>1, PTL

\* Nothing comes into an app's life from an earlier app of the same name.
THEOREM AppsStartEmpty == Spec => []NothingOutlivesItsApp
<1>1. TypeInv /\ ResourceInv => NothingOutlivesItsApp
  BY ShownLanded DEF ResourceInv, NothingOutlivesItsApp
<1> QED
  BY ResourceInvHolds, <1>1, PTL

\* The secrets version orders an app's writes as they took effect.
THEOREM SecretsVersionsOrder == Spec => []VersionsInOrder
<1>1. ResourceInv => VersionsInOrder
  BY DEF ResourceInv
<1> QED
  BY ResourceInvHolds, <1>1, PTL

\* Between two deletions of one thing that succeed it was written again.
THEOREM DeletionsSucceedOnce == Spec => []DeletedOnce
<1>1. ASSUME TypeInv, ResourceInv PROVE DeletedOnce
  <2> SUFFICES ASSUME NEW q \in Req, NEW r \in Req,
                      call[q].op = "delete", call[r].op = "delete",
                      call[q].app = call[r].app, call[q].kind = call[r].kind,
                      call[q].key = call[r].key,
                      landed[q].life = landed[r].life, Before(q, r)
               PROVE  \E w \in Req : /\ pc[w] = "ok" /\ call[w].op = "put"
                                     /\ call[w].app = call[r].app
                                     /\ call[w].kind = call[r].kind
                                     /\ call[w].key = call[r].key
                                     /\ Before(q, w) /\ Before(w, r)
    BY DEF DeletedOnce
  <2>1. q \in Landed /\ r \in Landed
    BY <1>1, LandedKnown DEF ResourceInv
  <2>2. PICK w \in Landed : /\ call[w].op = "put" /\ call[w].app = call[r].app
                            /\ call[w].kind = call[r].kind
                            /\ call[w].key = call[r].key
                            /\ Before(q, w) /\ Before(w, r)
    BY <1>1, <2>1 DEF ResourceInv, OnceInv
  <2>3. w \in Req /\ pc[w] = "ok"
    BY <1>1 DEF ResourceInv, PlaceInv, Landed
  <2> QED
    BY <2>2, <2>3
<1> QED
  BY ResourceInvHolds, <1>1, PTL

\* An internal error means that the very app the request had found was deleted
\* while the request was under way.
THEOREM InternalErrorsMeanDeletions == Spec => []ErrorMeansLifeEnded
<1>1. ResourceInv => ErrorMeansLifeEnded
  BY DEF ResourceInv
<1> QED
  BY ResourceInvHolds, <1>1, PTL

\* A secret's time is never older than the arrival of the write that shows.
THEOREM SecretsUpdatedSinceAsked == Spec => []UpdatedSinceAsked
<1>1. ResourceInv => UpdatedSinceAsked
  BY DEF ResourceInv
<1> QED
  BY ResourceInvHolds, <1>1, PTL

=============================================================================
