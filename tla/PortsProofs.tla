----------------------------- MODULE PortsProofs ------------------------------
(***************************************************************************)
(* Theorems about Ports for any number of ports and handlers, whatever    *)
(* their templates ask for: who is up is reached at its own ports, but for *)
(* those that it found taken, which a TCP listener does not survive.       *)
(***************************************************************************)
EXTENDS Ports, TLAPS

-----------------------------------------------------------------------------
(* The part of the type invariant that the proof needs.                    *)
PortsType ==
  /\ owner \in [Numbers -> Handlers \cup {Nobody, Other}]
  /\ got \in [Handlers -> Seq(Numbers)]
  /\ stage \in [Handlers -> {"allocate", "run", "up"}]
  /\ bound \in [Handlers -> Nat]
  /\ shown = [h \in Handlers |-> shown[h]]

(* A handler binds its ports from the first to the last, and only after it *)
(* has been handed all of them.                                            *)
InOrder ==
  \A h \in Handlers :
    /\ bound[h] <= Len(got[h])
    /\ stage[h] = "allocate" => bound[h] = 0
    /\ stage[h] = "up" => bound[h] = Len(got[h])
    /\ stage[h] # "allocate" => shown[h] = Listing(h, got[h])

(* Whoever goes on without the i-th port of h is not a TCP listener.       *)
Quiet(h, i) == <<h, i>> \in deaf /\ ~Listens(h, i, "tcp")

(* What a handler has tried to bind is its own, or it goes on without.     *)
Kept ==
  \A h \in Handlers : \A i \in 1..bound[h] : owner[got[h][i]] = h \/ Quiet(h, i)

(* A handler is handed as many ports as it asks for, before it goes on.    *)
Handed ==
  \A h \in Handlers :
    /\ Len(got[h]) <= Len(Asks[h])
    /\ stage[h] # "allocate" => Len(got[h]) = Len(Asks[h])

(* A port is bound only by a handler it was handed to.                     *)
Rightful ==
  \A p \in Numbers :
    owner[p] \in Handlers => \E i \in 1..Len(got[owner[p]]) : got[owner[p]][i] = p

(* What the control server lists are ports.                                *)
Listed == \A h \in Handlers : shown[h] \in Seq(Numbers)

(* A handler goes on only without ports it has tried to bind.              *)
Tried == \A d \in deaf : d[1] \in Handlers /\ d[2] \in 1..bound[d[1]]

(* A run has failed or not.                                                *)
Flag == failed \in BOOLEAN

PortsInv == PortsType /\ InOrder /\ Kept
PortsSound == PortsInv /\ Tried /\ Flag /\ Handed /\ Rightful /\ Listed

LEMMA InitPorts == Init => PortsInv
  BY DEF Init, PortsInv, PortsType, InOrder, Kept

LEMMA AllocateStep ==
  ASSUME PortsInv, NEW h \in Handlers, Allocate(h)
  PROVE  PortsInv'
<1>1. PICK p \in Numbers : got' = [got EXCEPT ![h] = Append(@, p)]
  BY DEF Allocate
<1>2. stage[h] = "allocate" /\ owner' = owner /\ stage' = stage /\ bound' = bound
      /\ deaf' = deaf /\ shown' = shown
  BY DEF Allocate, Asking
<1>3. got[h] \in Seq(Numbers) /\ bound[h] = 0
  BY <1>2 DEF PortsInv, PortsType, InOrder
<1>4. PortsType'
  BY <1>1, <1>2, <1>3 DEF PortsInv, PortsType
<1>5. \A k \in Handlers \ {h} : got'[k] = got[k]
  BY <1>1 DEF PortsInv, PortsType
<1>6. got'[h] \in Seq(Numbers)
  BY <1>4 DEF PortsType
<1>7. InOrder'
  BY <1>2, <1>3, <1>5, <1>6 DEF PortsInv, InOrder
<1>8. Kept'
  <2> SUFFICES ASSUME NEW k \in Handlers, NEW i \in 1..bound[k]
               PROVE  owner[got'[k][i]] = k \/ Quiet(k, i)
    BY <1>2 DEF Kept, Quiet
  <2>1. k # h
    BY <1>3
  <2> QED
    BY <1>5, <2>1 DEF PortsInv, Kept
<1> QED
  BY <1>4, <1>7, <1>8 DEF PortsInv

LEMMA ListStep ==
  ASSUME PortsInv, NEW h \in Handlers, List(h)
  PROVE  PortsInv'
<1>1. PortsType'
  BY DEF List, PortsInv, PortsType
<1>2. InOrder'
  BY DEF List, PortsInv, PortsType, InOrder
<1>3. Kept'
  BY DEF List, PortsInv, Kept, Quiet
<1> QED
  BY <1>1, <1>2, <1>3 DEF PortsInv

(* One more port of h is behind it, and nobody else notices.               *)
LEMMA BoundStep ==
  ASSUME PortsInv, NEW h \in Handlers, Binding(h), Bound(h)
  PROVE  /\ got' = got /\ shown' = shown
         /\ bound' = [bound EXCEPT ![h] = @ + 1] /\ stage' \in [Handlers -> {"allocate", "run", "up"}]
         /\ bound' \in [Handlers -> Nat] /\ InOrder'
<1>1. got' = got /\ shown' = shown /\ bound' = [bound EXCEPT ![h] = @ + 1]
  BY DEF Bound
<1>2. stage' = [stage EXCEPT ![h] = IF bound'[h] = Len(got[h]) THEN "up" ELSE @]
  BY DEF Bound
<1>3. bound' \in [Handlers -> Nat] /\ stage' \in [Handlers -> {"allocate", "run", "up"}]
  BY <1>1, <1>2 DEF PortsInv, PortsType
<1>4. stage[h] = "run" /\ bound[h] < Len(got[h]) /\ Len(got[h]) \in Nat
  BY DEF Binding, PortsInv, PortsType
<1>5. InOrder'
  BY <1>1, <1>2, <1>3, <1>4 DEF PortsInv, PortsType, InOrder
<1> QED
  BY <1>1, <1>3, <1>5

LEMMA BindStep ==
  ASSUME PortsInv, NEW h \in Handlers, Bind(h)
  PROVE  PortsInv'
<1>1. /\ Binding(h) /\ Bound(h) /\ deaf' = deaf
      /\ owner[NextPort(h)] = Nobody /\ owner' = [owner EXCEPT ![NextPort(h)] = h]
  BY DEF Bind
<1>2. NextPort(h) \in Numbers /\ bound[h] \in Nat
  BY <1>1 DEF Binding, NextPort, PortsInv, PortsType
<1>3. PortsType'
  BY <1>1, <1>2, BoundStep DEF PortsInv, PortsType
<1>4. Kept'
  <2> SUFFICES ASSUME NEW k \in Handlers, NEW i \in 1..bound'[k]
               PROVE  owner'[got'[k][i]] = k \/ Quiet(k, i)'
    BY DEF Kept
  <2>1. got' = got /\ bound' = [bound EXCEPT ![h] = @ + 1] /\ (Quiet(k, i)' <=> Quiet(k, i))
    BY <1>1, BoundStep DEF Quiet
  <2>2. CASE k = h /\ i = bound[h] + 1
    BY <1>1, <1>2, <2>1, <2>2 DEF NextPort, PortsInv, PortsType
  <2>3. CASE ~(k = h /\ i = bound[h] + 1)
    <3>1. i \in 1..bound[k] /\ got[k][i] \in Numbers
      BY <1>2, <2>1, <2>3 DEF PortsInv, PortsType, InOrder
    <3>2. owner[got[k][i]] = k \/ Quiet(k, i)
      BY <3>1 DEF PortsInv, Kept
    <3>3. owner[got[k][i]] = k => owner'[got[k][i]] = k
      BY <1>1, <1>2, <3>1, HandlersAssumption DEF PortsInv, PortsType
    <3> QED
      BY <1>1, <2>1, <3>2, <3>3
  <2> QED
    BY <2>2, <2>3
<1> QED
  BY <1>1, <1>3, <1>4, BoundStep DEF PortsInv

LEMMA CollideStep ==
  ASSUME PortsInv, NEW h \in Handlers, Collide(h)
  PROVE  PortsInv'
<1>1. CASE ~Listens(h, bound[h] + 1, "tcp") /\ GoOn(h)
  <2>1. /\ Binding(h) /\ Bound(h) /\ deaf' = deaf \cup {<<h, bound[h] + 1>>} /\ owner' = owner
        /\ ~Listens(h, bound[h] + 1, "tcp")
    BY <1>1 DEF Collide, GoOn
  <2>2. PortsType'
    BY <2>1, BoundStep DEF PortsInv, PortsType
  <2>3. Kept'
    <3> SUFFICES ASSUME NEW k \in Handlers, NEW i \in 1..bound'[k]
                 PROVE  owner'[got'[k][i]] = k \/ Quiet(k, i)'
      BY DEF Kept
    <3>1. got' = got /\ bound' = [bound EXCEPT ![h] = @ + 1] /\ bound[h] \in Nat
          /\ (Quiet(k, i) => Quiet(k, i)')
      BY <2>1, BoundStep DEF PortsInv, PortsType, Quiet, Listens
    <3>2. CASE k = h /\ i = bound[h] + 1
      BY <2>1, <3>2 DEF Quiet, Listens
    <3>3. CASE ~(k = h /\ i = bound[h] + 1)
      <4>1. i \in 1..bound[k]
        BY <3>1, <3>3 DEF PortsInv, PortsType
      <4> QED
        BY <2>1, <3>1, <4>1 DEF PortsInv, Kept
    <3> QED
      BY <3>2, <3>3
  <2> QED
    BY <2>1, <2>2, <2>3, BoundStep DEF PortsInv
<1>2. CASE Fail
  <2>1. owner' = owner /\ got' = got /\ stage' = stage /\ bound' = bound /\ deaf' = deaf
        /\ shown' = shown
    BY <1>2 DEF Fail
  <2> QED
    BY <2>1 DEF PortsInv, PortsType, InOrder, Kept, Quiet
<1> QED
  BY <1>1, <1>2 DEF Collide

LEMMA ForeignStep ==
  ASSUME PortsInv, Foreign
  PROVE  PortsInv'
<1>1. got' = got /\ stage' = stage /\ bound' = bound /\ deaf' = deaf /\ shown' = shown
  BY DEF Foreign
<1>2. PICK p \in Numbers : \/ owner[p] = Nobody /\ owner' = [owner EXCEPT ![p] = Other]
                           \/ owner[p] = Other /\ owner' = [owner EXCEPT ![p] = Nobody]
  BY DEF Foreign
<1>3. PortsType' /\ InOrder'
  BY <1>1, <1>2 DEF PortsInv, PortsType, InOrder
<1>4. ASSUME NEW h \in Handlers, NEW q \in Numbers, owner[q] = h
      PROVE  owner'[q] = h
  BY <1>2, <1>4, HandlersAssumption DEF PortsInv, PortsType
<1>5. Kept'
  <2> SUFFICES ASSUME NEW h \in Handlers, NEW i \in 1..bound[h]
               PROVE  owner'[got[h][i]] = h \/ Quiet(h, i)
    BY <1>1 DEF Kept, Quiet
  <2>1. got[h][i] \in Numbers
    BY DEF PortsInv, PortsType, InOrder
  <2> QED
    BY <1>4, <2>1 DEF PortsInv, Kept
<1> QED
  BY <1>3, <1>5 DEF PortsInv

(* Every step preserves the invariant.                                     *)
LEMMA PortsStep == PortsInv /\ [Next]_vars => PortsInv'
<1> SUFFICES ASSUME PortsInv, [Next]_vars PROVE PortsInv'
  OBVIOUS
<1>1. ASSUME NEW h \in Handlers, RunOut(h) PROVE PortsInv'
  <2>1. owner' = owner /\ got' = got /\ stage' = stage /\ bound' = bound /\ deaf' = deaf
        /\ shown' = shown
    BY <1>1 DEF RunOut, Fail
  <2> QED
    BY <2>1 DEF PortsInv, PortsType, InOrder, Kept, Quiet
<1>2. CASE UNCHANGED vars
  BY <1>2 DEF vars, PortsInv, PortsType, InOrder, Kept, Quiet
<1> QED
  BY <1>1, <1>2, AllocateStep, ListStep, BindStep, CollideStep, ForeignStep DEF Next

(* Although freePort (port.go:15) hands out ports that are not held for    *)
(* anybody, a run that has not failed has the TCP service of every handler *)
(* that is up at the service's own port (service.go:30), and whatever else *)
(* it should have bound at its own port or nowhere, the port found taken   *)
(* and nobody told (service.go:64, command.go:99); and the ports that the  *)
(* control server lists are those of the handler's files.                  *)
THEOREM PortsAreOwn == Spec => []PortsLeadHome
<1>1. Init => PortsInv
  BY InitPorts
<1>2. PortsInv => PortsLeadHome
  <2> SUFFICES ASSUME PortsInv, NEW h \in Handlers, stage[h] = "up"
               PROVE  /\ shown[h] = Listing(h, got[h])
                      /\ \A i \in DOMAIN got[h] :
                           owner[got[h][i]] = h \/ (<<h, i>> \in deaf /\ ~Listens(h, i, "tcp"))
    BY DEF PortsLeadHome
  <2>1. bound[h] = Len(got[h]) /\ shown[h] = Listing(h, got[h])
    BY DEF PortsInv, InOrder
  <2>2. DOMAIN got[h] = 1..bound[h]
    BY <2>1 DEF PortsInv, PortsType
  <2> QED
    BY <2>1, <2>2 DEF PortsInv, Kept, Quiet
<1> QED
  BY <1>1, <1>2, PortsStep, PTL DEF Spec

-----------------------------------------------------------------------------
(* What the handlers ask for.                                              *)

LEMMA OwnAsksAre ==
  ASSUME NEW h \in Handlers
  PROVE  /\ OwnAsks(h) \in Seq({"admin", "proxy", "service"})
         /\ Len(OwnAsks(h)) \in Nat
         /\ Kind[h] = "external" => OwnAsks(h) = <<"service">>
         /\ Kind[h] = "service" => OwnAsks(h) = <<"admin", "proxy", "service">>
         /\ Kind[h] = "mesh" => OwnAsks(h) = <<"admin", "proxy">>
<1>1. CASE Kind[h] = "agent"
  BY <1>1 DEF OwnAsks
<1>2. CASE Kind[h] = "external"
  BY <1>2 DEF OwnAsks
<1>3. CASE Kind[h] = "service"
  BY <1>3 DEF OwnAsks
<1>4. CASE Kind[h] = "mesh"
  BY <1>4 DEF OwnAsks
<1>5. CASE Kind[h] \notin {"agent", "external", "service", "mesh"}
  <2>1. OwnAsks(h) = <<"admin">>
    BY <1>5 DEF OwnAsks
  <2> QED
    BY <1>5, <2>1
<1> QED
  BY <1>1, <1>2, <1>3, <1>4, <1>5

LEMMA AsksAre ==
  ASSUME NEW h \in Handlers
  PROVE  /\ Asks[h] = OwnAsks(h) \o TrackerAsks(h)
         /\ Len(Asks[h]) = Len(OwnAsks(h)) + Len(TrackerAsks(h))
         /\ Len(TrackerAsks(h)) \in Nat /\ Len(Asks[h]) \in Nat
         /\ Len(Asks[h]) >= Len(OwnAsks(h))
<1>1. Asks[h] = OwnAsks(h) \o TrackerAsks(h)
  BY DEF Asks
<1> DEFINE T == Names \cup {Unnamed}
<1>2. Template[h] \in Seq(T) /\ <<Unnamed>> \in Seq(T) /\ <<>> \in Seq(T)
  BY HandlersAssumption
<1>3. <<Unnamed>> \o Template[h] \in Seq(T) /\ Len(<<Unnamed>> \o Template[h]) = 1 + Len(Template[h])
  BY <1>2
<1>4. TrackerAsks(h) \in Seq(T)
  BY <1>2, <1>3 DEF TrackerAsks
<1>5. Len(Asks[h]) = Len(OwnAsks(h)) + Len(TrackerAsks(h))
  BY <1>1, <1>4, OwnAsksAre
<1> QED
  BY <1>1, <1>4, <1>5, OwnAsksAre

(* What a handler that was handed all it asks for lists are such ports.    *)
LEMMA ListingIs ==
  ASSUME NEW h \in Handlers, NEW ports \in Seq(Numbers), Len(ports) = Len(Asks[h])
  PROVE  Listing(h, ports) \in Seq(Numbers)
<1> DEFINE n == Len(OwnAsks(h))
<1>1. n \in Nat /\ n <= Len(ports) /\ Len(ports) \in Nat
  BY OwnAsksAre, AsksAre
<1>2. TrackedPorts(h, ports) \in Seq(Numbers)
  BY <1>1 DEF TrackedPorts
<1>3. ASSUME NEW ask, \E i \in DOMAIN OwnAsks(h) : IsOwn(h, i, ask)
      PROVE  PortOf(h, ports, ask) \in Numbers
  <2> DEFINE i == CHOOSE j \in DOMAIN OwnAsks(h) : IsOwn(h, j, ask)
  <2>1. i \in DOMAIN OwnAsks(h)
    BY <1>3
  <2>2. i \in 1..Len(ports)
    BY <1>1, <2>1, OwnAsksAre
  <2> QED
    BY <2>2 DEF PortOf
<1>4. Kind[h] = "external" => PortOf(h, ports, "service") \in Numbers
  <2>1. Kind[h] = "external" => 1 \in DOMAIN OwnAsks(h) /\ IsOwn(h, 1, "service")
    BY OwnAsksAre DEF IsOwn
  <2> QED
    BY <1>3, <2>1
<1>5. Kind[h] \in {"service", "mesh"} => PortOf(h, ports, "proxy") \in Numbers
  <2>1. Kind[h] \in {"service", "mesh"} => 2 \in DOMAIN OwnAsks(h) /\ IsOwn(h, 2, "proxy")
    BY OwnAsksAre DEF IsOwn
  <2> QED
    BY <1>3, <2>1
<1> QED
  BY <1>2, <1>4, <1>5 DEF Listing

-----------------------------------------------------------------------------
(* The rest of the invariant.                                              *)

LEMMA InitSound == Init => PortsSound
<1> SUFFICES ASSUME Init PROVE PortsSound
  OBVIOUS
<1>1. Handed
  BY AsksAre DEF Init, Handed
<1>2. Rightful /\ Listed
  BY HandlersAssumption DEF Init, Rightful, Listed
<1>3. Tried /\ Flag
  BY DEF Init, Tried, Flag
<1> QED
  BY <1>1, <1>2, <1>3, InitPorts DEF PortsSound

LEMMA TriedStep == PortsInv /\ Tried /\ [Next]_vars => Tried'
<1> SUFFICES ASSUME PortsInv, Tried, [Next]_vars PROVE Tried'
  OBVIOUS
<1>0. bound \in [Handlers -> Nat]
  BY DEF PortsInv, PortsType
<1>1. ASSUME UNCHANGED <<bound, deaf>> PROVE Tried'
  BY <1>1 DEF Tried
<1>2. ASSUME NEW h \in Handlers, bound' = [bound EXCEPT ![h] = @ + 1],
             deaf' = deaf \/ deaf' = deaf \cup {<<h, bound[h] + 1>>}
      PROVE  Tried'
  <2> SUFFICES ASSUME NEW d \in deaf' PROVE d[1] \in Handlers /\ d[2] \in 1..bound'[d[1]]
    BY DEF Tried
  <2>1. CASE d \in deaf
    <3>1. d[1] \in Handlers /\ d[2] \in 1..bound[d[1]]
      BY <2>1 DEF Tried
    <3>2. bound[d[1]] \in Nat /\ bound'[d[1]] \in {bound[d[1]], bound[d[1]] + 1}
      BY <1>0, <1>2, <3>1
    <3> QED
      BY <3>1, <3>2
  <2>2. CASE d = <<h, bound[h] + 1>>
    BY <1>0, <1>2, <2>2
  <2> QED
    BY <1>2, <2>1, <2>2
<1>3. ASSUME NEW h \in Handlers, Bind(h) PROVE Tried'
  BY <1>2, <1>3 DEF Bind, Bound
<1>4. ASSUME NEW h \in Handlers, Collide(h) PROVE Tried'
  <2>1. CASE GoOn(h)
    BY <1>2, <2>1 DEF GoOn, Bound
  <2>2. CASE Fail
    BY <1>1, <2>2 DEF Fail
  <2> QED
    BY <1>4, <2>1, <2>2 DEF Collide
<1>5. ASSUME NEW h \in Handlers, Allocate(h) \/ RunOut(h) \/ List(h) PROVE Tried'
  BY <1>1, <1>5 DEF Allocate, RunOut, Fail, List
<1>6. CASE Foreign \/ UNCHANGED vars
  BY <1>1, <1>6 DEF Foreign, vars
<1> QED
  BY <1>3, <1>4, <1>5, <1>6 DEF Next

LEMMA FlagStep == Flag /\ [Next]_vars => Flag'
<1> SUFFICES ASSUME Flag, [Next]_vars PROVE Flag'
  OBVIOUS
<1>1. failed' = failed \/ failed' = TRUE
  BY DEF Next, Allocate, RunOut, Fail, List, Bind, Collide, GoOn, Bound, Foreign, vars
<1>2. ASSUME failed' = failed PROVE Flag'
  BY <1>2, Zenon DEF Flag
<1>3. ASSUME failed' = TRUE PROVE Flag'
  BY <1>3, Zenon DEF Flag
<1> QED
  BY <1>1, <1>2, <1>3, Zenon

LEMMA SoundStep == PortsSound /\ [Next]_vars => PortsSound'
<1> SUFFICES ASSUME PortsSound, [Next]_vars PROVE PortsSound'
  OBVIOUS
<1>0. /\ PortsInv /\ PortsInv' /\ Tried' /\ Flag' /\ Handed /\ Rightful /\ Listed
      /\ got \in [Handlers -> Seq(Numbers)] /\ got' \in [Handlers -> Seq(Numbers)]
      /\ owner \in [Numbers -> Handlers \cup {Nobody, Other}]
      /\ stage \in [Handlers -> {"allocate", "run", "up"}]
  BY PortsStep, TriedStep, FlagStep DEF PortsSound, PortsInv, PortsType
<1>1. ASSUME UNCHANGED <<got, shown>>,
             \A h \in Handlers : stage'[h] # "allocate" => stage[h] # "allocate"
      PROVE  Handed' /\ Listed'
  BY <1>0, <1>1 DEF Handed, Listed
<1>2. ASSUME UNCHANGED <<owner, got>> PROVE Rightful'
  BY <1>0, <1>2 DEF Rightful
<1>3. ASSUME NEW h \in Handlers, Allocate(h) PROVE PortsSound'
  <2>1. PICK p \in Numbers : got' = [got EXCEPT ![h] = Append(@, p)]
    BY <1>3 DEF Allocate
  <2>2. /\ stage[h] = "allocate" /\ Len(got[h]) < Len(Asks[h])
        /\ UNCHANGED <<owner, stage, shown>>
    BY <1>3 DEF Allocate, Asking
  <2>3. /\ Len(got'[h]) = Len(got[h]) + 1 /\ \A i \in 1..Len(got[h]) : got'[h][i] = got[h][i]
        /\ \A k \in Handlers : k # h => got'[k] = got[k]
        /\ Len(got[h]) \in Nat /\ Len(Asks[h]) \in Nat
    BY <1>0, <2>1, AsksAre
  <2>4. Handed'
    BY <1>0, <2>2, <2>3 DEF Handed
  <2>5. Rightful'
    <3> SUFFICES ASSUME NEW q \in Numbers, owner[q] \in Handlers
                 PROVE  \E i \in 1..Len(got'[owner[q]]) : got'[owner[q]][i] = q
      BY <2>2 DEF Rightful
    <3>1. PICK i \in 1..Len(got[owner[q]]) : got[owner[q]][i] = q
      BY <1>0 DEF Rightful
    <3>2. CASE owner[q] = h
      BY <2>3, <3>1, <3>2
    <3>3. CASE owner[q] # h
      BY <2>3, <3>1, <3>3
    <3> QED
      BY <3>2, <3>3
  <2>6. Listed'
    BY <1>0, <2>2 DEF Listed
  <2> QED
    BY <1>0, <2>4, <2>5, <2>6 DEF PortsSound
<1>4. ASSUME NEW h \in Handlers, RunOut(h) PROVE PortsSound'
  <2>1. UNCHANGED <<owner, got, stage, shown>>
    BY <1>4 DEF RunOut, Fail
  <2> QED
    BY <1>0, <1>1, <1>2, <2>1 DEF PortsSound
<1>5. ASSUME NEW h \in Handlers, List(h) PROVE PortsSound'
  <2>1. /\ stage[h] = "allocate" /\ ~(Len(got[h]) < Len(Asks[h])) /\ UNCHANGED <<owner, got>>
        /\ stage' = [stage EXCEPT ![h] = "run"]
        /\ shown' = [shown EXCEPT ![h] = Listing(h, got[h])]
    BY <1>5 DEF List, Asking
  <2>2. Len(got[h]) = Len(Asks[h]) /\ got[h] \in Seq(Numbers)
    BY <1>0, <2>1, AsksAre DEF Handed
  <2>3. Handed'
    BY <1>0, <2>1, <2>2 DEF Handed
  <2>4. Listed'
    BY <1>0, <2>1, <2>2, ListingIs DEF Listed, PortsInv, PortsType
  <2> QED
    BY <1>0, <1>2, <2>1, <2>3, <2>4 DEF PortsSound
<1>6. ASSUME NEW h \in Handlers, Bind(h) PROVE PortsSound'
  <2>1. /\ Binding(h) /\ UNCHANGED <<got, shown>>
        /\ owner' = [owner EXCEPT ![NextPort(h)] = h]
        /\ stage' = [stage EXCEPT ![h] = IF bound'[h] = Len(got[h]) THEN "up" ELSE @]
    BY <1>6 DEF Bind, Bound
  <2>2. stage[h] = "run" /\ bound[h] \in Nat /\ bound[h] < Len(got[h]) /\ Len(got[h]) \in Nat
    BY <1>0, <2>1 DEF Binding, PortsInv, PortsType
  <2>3. bound[h] + 1 \in 1..Len(got[h]) /\ got[h][bound[h] + 1] = NextPort(h)
    BY <2>2 DEF NextPort
  <2>4. Rightful'
    BY <1>0, <2>1, <2>3 DEF Rightful
  <2> QED
    BY <1>0, <1>1, <2>1, <2>2, <2>4 DEF PortsSound
<1>7. ASSUME NEW h \in Handlers, Collide(h) PROVE PortsSound'
  <2>1. CASE GoOn(h)
    <3>1. /\ stage[h] = "run" /\ UNCHANGED <<owner, got, shown>>
          /\ stage' = [stage EXCEPT ![h] = IF bound'[h] = Len(got[h]) THEN "up" ELSE @]
      BY <1>7, <2>1 DEF Collide, GoOn, Binding, Bound
    <3> QED
      BY <1>0, <1>1, <1>2, <3>1 DEF PortsSound
  <2>2. CASE Fail
    <3>1. UNCHANGED <<owner, got, stage, shown>>
      BY <2>2 DEF Fail
    <3> QED
      BY <1>0, <1>1, <1>2, <3>1 DEF PortsSound
  <2> QED
    BY <1>7, <2>1, <2>2 DEF Collide
<1>8. CASE Foreign
  <2>1. UNCHANGED <<got, stage, shown>>
    BY <1>8 DEF Foreign
  <2>2. PICK p \in Numbers : \/ owner' = [owner EXCEPT ![p] = Other]
                             \/ owner' = [owner EXCEPT ![p] = Nobody]
    BY <1>8 DEF Foreign
  <2>3. Rightful'
    BY <1>0, <2>1, <2>2, HandlersAssumption DEF Rightful
  <2> QED
    BY <1>0, <1>1, <2>1, <2>3 DEF PortsSound
<1>9. CASE UNCHANGED vars
  <2>1. UNCHANGED <<owner, got, stage, shown>>
    BY <1>9 DEF vars
  <2> QED
    BY <1>0, <1>1, <1>2, <2>1 DEF PortsSound
<1> QED
  BY <1>3, <1>4, <1>5, <1>6, <1>7, <1>8, <1>9 DEF Next

LEMMA Sound == Spec => []PortsSound
  BY InitSound, SoundStep, PTL DEF Spec

(* A handler is never handed more ports than it asks for, lists only       *)
(* ports, and a port is bound only by a handler it was handed to.          *)
THEOREM TypeCorrect == Spec => []TypeOK
<1>1. PortsSound => TypeOK
  <2> SUFFICES ASSUME PortsSound PROVE TypeOK
    OBVIOUS
  <2>1. PortsType /\ Tried /\ Flag /\ InOrder /\ Handed /\ Rightful /\ Listed
    BY DEF PortsSound, PortsInv
  <2>2. \A h \in Handlers : got[h] \in Seq(Numbers) /\ DOMAIN got[h] = 1..Len(got[h])
    BY <2>1 DEF PortsType
  <2>3. \A h \in Handlers : bound[h] \in 0..Len(got[h])
    BY <2>1, <2>2 DEF PortsType, InOrder
  <2> QED
    BY <2>1, <2>2, <2>3 DEF TypeOK, PortsType, Tried, Flag, Handed, Rightful, Listed
<1> QED
  BY Sound, <1>1, PTL

=============================================================================
