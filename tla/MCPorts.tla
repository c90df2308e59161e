------------------------------- MODULE MCPorts --------------------------------
(* Ports for TLC: a mesh service that speaks TCP, an external one that     *)
(* speaks HTTP and an ingress gateway with a named port, over so few ports *)
(* that they are handed out repeatedly.  The ports are interchangeable.    *)
EXTENDS Ports, TLC

CONSTANTS s, x, g

Mix == {s, x, g}
KindOf == s :> "service" @@ x :> "external" @@ g :> "ingress"
TemplateNames == {"n"}
ProtocolOf == s :> "tcp" @@ x :> "http"
TemplateOf == [h \in Mix |-> IF h = g THEN <<"n">> ELSE <<>>]
Interchangeable == Permutations(Numbers)

=============================================================================
