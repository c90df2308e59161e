------------------------------ MODULE MCStartup -------------------------------
(* Startup for TLC: lines with one option besides --daemon, or two of      *)
(* those that meet in the validation or in the daemon, and files with at   *)
(* most one option.                                                        *)
EXTENDS Startup

Values(o) ==
  CASE o \in {"tcp", "externalHTTP"} -> {<<1>>}
    [] o \in {"http", "externalTCP"} -> {<<0>>, <<2>>}
    [] o = "duplicates" -> {<<0>>}
    [] o = "resources" -> {<<1>>, <<2>>, <<3>>}
    [] o = "run" -> {<<0>>, <<1>>}
    [] o = "datacenters" -> {<<2>>, <<1, 2>>, <<2, 2>>}
    [] OTHER -> {<<>>, <<1>>}

Given(O) == {f \in [O -> UNION {Values(o) : o \in O}] : \A o \in O : f[o] \in Values(o)}

Paired == {"tcp", "http", "externalHTTP", "run", "config"}
SmallLines ==
  UNION {{[o \in O \cup {"daemon"} |-> IF o = "daemon" THEN d ELSE f[o]] :
             f \in Given(O), d \in {<<0>>, <<1>>}} :
          O \in {S \in SUBSET Options : Cardinality(S) <= 1}
                  \cup {S \in SUBSET Paired : Cardinality(S) = 2}}

Filed == {"http", "externalHTTP", "resources", "socket", "run", "datacenters"}
SmallFiles ==
  {[name |-> n, options |-> f, readable |-> TRUE] :
      n \in {DefaultFile, <<1>>},
      f \in UNION {Given(O) : O \in {S \in SUBSET Filed : Cardinality(S) <= 1}}}
    \cup {[name |-> DefaultFile, options |-> <<>>, readable |-> FALSE]}

SomePrograms == {{"PATH"}, {"given", "folder"}}
(* A folder of files, and one with a subfolder per datacenter.             *)
SomeFolders == <<{}, {1, 2}>>

=============================================================================
