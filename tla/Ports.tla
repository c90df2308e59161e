-------------------------------- MODULE Ports ---------------------------------
(***************************************************************************)
(* The ports of the handlers of a run.  freePort finds a free port by      *)
(* binding it and lets it go again; the port is written into files, listed *)
(* at the control server and bound in earnest only later, by a listener of *)
(* the run or by a proxy it starts.  In between, another handler may be    *)
(* handed the same port, and another program may take it.                  *)
(*                                                                         *)
(* A handler asks for a sequence of ports: those of its own fields, and    *)
(* those its template asks the tracker for, with or without a name.        *)
(***************************************************************************)
EXTENDS Integers, Sequences

CONSTANTS Numbers,   \* the ports freePort chooses from
          Handlers,
          Kind,      \* "agent", "external", "service", "mesh", or the kind of a gateway
          Protocol,  \* "http" or "tcp", of services
          Names,     \* the names that templates give their ports
          Template,  \* for every handler, the names its template asks for;
                     \* Unnamed for a call of GetPort
          Unnamed, Nobody, Other

ASSUME HandlersAssumption ==
  /\ Nobody \notin Handlers /\ Other \notin Handlers /\ Nobody # Other
  /\ DOMAIN Kind = Handlers /\ Template \in [Handlers -> Seq(Names \cup {Unnamed})]

VARIABLES owner,   \* who has bound every port
          got,     \* the ports a handler was handed so far, in order
          stage,   \* where the handler is
          bound,   \* how many of its ports it has tried to bind
          deaf,    \* the places among a handler's ports that it found taken and
                   \* goes on without
          shown,   \* the ports the control server lists for it
          failed   \* whether a handler has failed, and the run with it

vars == <<owner, got, stage, bound, deaf, shown, failed>>

-----------------------------------------------------------------------------
(* The asks of a handler, in order: its own fields, then the tracker.      *)

OwnAsks(h) ==
  CASE Kind[h] = "agent" -> <<>>
    [] Kind[h] = "external" -> <<"service">>
    [] Kind[h] = "service" -> <<"admin", "proxy", "service">>
    [] Kind[h] = "mesh" -> <<"admin", "proxy">>
    [] OTHER -> <<"admin">>

(* A gateway other than an API gateway has a port of the tracker in        *)
(* advance of its template, to be registered at.                           *)
TrackerAsks(h) ==
  CASE Kind[h] \in {"external", "mesh"} -> <<>>
    [] Kind[h] \in {"agent", "service", "api"} -> Template[h]
    [] OTHER -> <<Unnamed>> \o Template[h]

Asks == [h \in Handlers |-> OwnAsks(h) \o TrackerAsks(h)]
IsOwn(h, i, ask) == i \in DOMAIN OwnAsks(h) /\ OwnAsks(h)[i] = ask

(* The ports of a handler's tracker, from all it was handed.               *)
TrackedPorts(h, ports) == SubSeq(ports, Len(OwnAsks(h)) + 1, Len(ports))

(* What a handler that was handed these ports tells the control server.    *)
PortOf(h, ports, ask) == ports[CHOOSE i \in DOMAIN OwnAsks(h) : IsOwn(h, i, ask)]
Listing(h, ports) ==
  CASE Kind[h] = "external" -> <<PortOf(h, ports, "service")>>
    [] Kind[h] \in {"service", "mesh"} ->
         <<PortOf(h, ports, "proxy")>> \o TrackedPorts(h, ports)
    [] OTHER -> TrackedPorts(h, ports)

-----------------------------------------------------------------------------
Init ==
  /\ owner = [p \in Numbers |-> Nobody]
  /\ got = [h \in Handlers |-> <<>>]
  /\ stage = [h \in Handlers |-> "allocate"]
  /\ bound = [h \in Handlers |-> 0]
  /\ deaf = {}
  /\ shown = [h \in Handlers |-> <<>>]
  /\ failed = FALSE

Fail == failed' = TRUE /\ UNCHANGED <<owner, got, stage, bound, deaf, shown>>

Asking(h) == stage[h] = "allocate" /\ Len(got[h]) < Len(Asks[h])
NextAsk(h) == Asks[h][Len(got[h]) + 1]
NameTaken(h) ==
  /\ Len(got[h]) >= Len(OwnAsks(h)) /\ NextAsk(h) # Unnamed
  /\ \E i \in DOMAIN got[h] : i > Len(OwnAsks(h)) /\ Asks[h][i] = NextAsk(h)

(* freePort, by way of GetPort or GetNamedPort or directly: any port that  *)
(* nobody has bound, and it is not bound afterwards either.                *)
Allocate(h) ==
  /\ Asking(h)
  /\ ~NameTaken(h)
  /\ \E p \in Numbers : owner[p] = Nobody /\ got' = [got EXCEPT ![h] = Append(@, p)]
  /\ UNCHANGED <<owner, stage, bound, deaf, shown, failed>>

(* A name asked for a second time, or no port left, is an error.           *)
RunOut(h) ==
  /\ Asking(h)
  /\ NameTaken(h) \/ \A p \in Numbers : owner[p] # Nobody
  /\ Fail

(* With all files written and registered the handler lists itself.         *)
List(h) ==
  /\ stage[h] = "allocate" /\ ~Asking(h)
  /\ stage' = [stage EXCEPT ![h] = "run"]
  /\ shown' = [shown EXCEPT ![h] = Listing(h, got[h])]
  /\ UNCHANGED <<owner, got, bound, deaf, failed>>

Binding(h) == stage[h] = "run" /\ bound[h] < Len(got[h])
NextPort(h) == got[h][bound[h] + 1]
(* The i-th port of h is for the listener of a service of this protocol.   *)
Listens(h, i, protocol) == IsOwn(h, i, "service") /\ Protocol[h] = protocol
Bound(h) ==
  /\ bound' = [bound EXCEPT ![h] = @ + 1]
  /\ stage' = [stage EXCEPT ![h] = IF bound'[h] = Len(got[h]) THEN "up" ELSE @]
  /\ UNCHANGED <<got, shown, failed>>

(* Mutated form: a listener whose port is taken binds another.             *)
BindAnywhere(h) ==
  /\ Binding(h)
  /\ \E p \in Numbers : owner[p] = Nobody /\ owner' = [owner EXCEPT ![p] = h]
  /\ Bound(h)
  /\ UNCHANGED deaf

(* A listener, or a proxy, binds the next of the handler's ports.          *)
Bind(h) ==
  /\ Binding(h) /\ owner[NextPort(h)] = Nobody
  /\ owner' = [owner EXCEPT ![NextPort(h)] = h]
  /\ Bound(h)
  /\ UNCHANGED deaf

(* Whoever should have bound the port goes on without it.                  *)
GoOn(h) ==
  Bound(h) /\ deaf' = deaf \cup {<<h, bound[h] + 1>>} /\ UNCHANGED owner

(* Mutated form: the error of a TCP listener is dropped, too.              *)
CollideQuietly(h) ==
  /\ Binding(h) /\ owner[NextPort(h)] # Nobody
  /\ GoOn(h)

(* The port is taken.  A TCP listener fails and the run with it; an HTTP   *)
(* service goes on, since nobody looks at what ListenAndServe returned.    *)
(* Of agents and proxies the run sees only whether they end: one may end   *)
(* with an error, and one may go on without the port.                      *)
Collide(h) ==
  /\ Binding(h) /\ owner[NextPort(h)] # Nobody
  /\ \/ ~Listens(h, bound[h] + 1, "tcp") /\ GoOn(h)
     \/ ~Listens(h, bound[h] + 1, "http") /\ Fail

(* Another program binds a free port, or lets go of one.                   *)
Foreign ==
  /\ \E p \in Numbers :
       \/ owner[p] = Nobody /\ owner' = [owner EXCEPT ![p] = Other]
       \/ owner[p] = Other /\ owner' = [owner EXCEPT ![p] = Nobody]
  /\ UNCHANGED <<got, stage, bound, deaf, shown, failed>>

Next ==
  /\ ~failed
  /\ \/ \E h \in Handlers : Allocate(h) \/ RunOut(h) \/ List(h) \/ Bind(h) \/ Collide(h)
     \/ Foreign

Spec == Init /\ [][Next]_vars

-----------------------------------------------------------------------------
(* Type invariant; in particular a handler is never handed more ports than *)
(* it asks for, and a port is bound only by one it was handed to.          *)
TypeOK ==
  /\ owner \in [Numbers -> Handlers \cup {Nobody, Other}]
  /\ \A p \in Numbers : owner[p] \in Handlers => \E i \in DOMAIN got[owner[p]] : got[owner[p]][i] = p
  /\ \A h \in Handlers : got[h] \in Seq(Numbers) /\ Len(got[h]) <= Len(Asks[h])
  /\ stage \in [Handlers -> {"allocate", "run", "up"}]
  /\ \A h \in Handlers : bound[h] \in 0..Len(got[h])
  /\ \A d \in deaf : d[1] \in Handlers /\ d[2] \in 1..bound[d[1]]
  /\ \A h \in Handlers : shown[h] \in Seq(Numbers)
  /\ failed \in BOOLEAN

(* While the run has not failed, the ports that the control server lists   *)
(* for a handler that is up are those its files have, and whoever connects *)
(* to one of them reaches this handler and no other, however often         *)
(* freePort (port.go:15) has handed out the same port.  The exceptions are *)
(* the ports that an HTTP service (service.go:64) or a process of another  *)
(* program (command.go:99) found taken without telling; the listener of a  *)
(* TCP service (service.go:30) is never one of them.                       *)
PortsLeadHome ==
  \A h \in Handlers : stage[h] = "up" /\ ~failed =>
    /\ shown[h] = Listing(h, got[h])
    /\ \A i \in DOMAIN got[h] :
         owner[got[h][i]] = h \/ (<<h, i>> \in deaf /\ ~Listens(h, i, "tcp"))

=============================================================================
