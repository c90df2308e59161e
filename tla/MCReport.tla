------------------------------ MODULE MCReport ------------------------------
(* Reports on small runs: services and resources in one or two             *)
(* datacenters.                                                            *)
EXTENDS Report

OneDatacenter == <<"dc1">>
TwoDatacenters == <<"dc1", "dc2">>

None == {}
FirstService == {[dc |-> "dc1", name |-> 20]}
SecondService == {[dc |-> "dc2", name |-> 22]}
FirstExternal == {[dc |-> "dc1", name |-> 10]}

Resource(dc, file, kind, name, percent) ==
  [dc |-> dc, file |-> file, kind |-> kind, name |-> name, percent |-> percent]
(* A gateway that a report knows, and one that it does not.                *)
KnownAndUnknown == {Resource("dc1", "a.hcl", "ingress-gateway", 31, FALSE),
                    Resource("dc1", "b.hcl", "mesh-gateway", 32, FALSE)}
(* A gateway of the same name and file in either datacenter, and in one of *)
(* them an entry with a % in a file of that name in another folder.        *)
SameNames == {Resource("dc1", "a.hcl", "api-gateway", 31, FALSE),
              Resource("dc2", "a.hcl", "api-gateway", 31, FALSE),
              Resource("dc2", "a.hcl", "service-resolver", 33, TRUE)}

=============================================================================
