------------------------- MODULE MCConfigGenerator -------------------------
(***************************************************************************)
(* The values of the constants of ConfigGenerator for TLC: the source      *)
(* files, the installed types and the offset files.                        *)
(***************************************************************************)
EXTENDS ConfigGenerator

Name(p, w, j) == [path |-> p, words |-> w, joint |-> j]
Add     == Name("A", <<"add">>, "snake")
Add1    == Name("A", <<"add", "1">>, "snake")
AddTwo  == Name("A", <<"add", "two">>, "Camel")
AddTwoB == Name("B", <<"add", "two">>, "snake")
AddTwoC == Name("B", <<"add", "two">>, "Camel_Snake")

MCRosInstalled == {<<"ros", "Sum">>, <<"ros", "Both">>, <<"ros", "Bare">>}
\* Both has a PDU type in two packages, Bare has no offset file
MCPduInstalled == {<<"pdu", "Sum">>, <<"pdu", "Both">>, <<"hako", "Both">>, <<"pdu", "Bare">>}
Line(v, o, s)  == [varray |-> v, offset |-> o, size |-> s]
MCOffsetFiles  ==
    {[packet |-> <<"pdu", "Sum", "Request">>, direct |-> TRUE, last |-> Line(FALSE, 272, 16)],
     [packet |-> <<"pdu", "Sum", "Request">>, direct |-> FALSE, last |-> Line(TRUE, 272, 1)],
     [packet |-> <<"pdu", "Sum", "Response">>, direct |-> FALSE, last |-> Line(TRUE, 269, 128)],
     [packet |-> <<"pdu", "Both", "Request">>, direct |-> TRUE, last |-> Line(FALSE, 281, 2)],
     [packet |-> <<"pdu", "Both", "Response">>, direct |-> TRUE, last |-> Line(FALSE, 0, 1)]}

Binding(r, n, t, pt, c) ==
    [ok |-> TRUE, ros_name |-> r, name |-> n, ros_type |-> <<"ros", t>>, pdu_type |-> pt,
     client |-> "c", server |-> "s", capacity |-> c, timeout_msec |-> 1,
     heap |-> [k \in {"request"} |-> 0]]

File(bs) == [json |-> TRUE, ok |-> TRUE, version |-> 1, bindings |-> bs]

\* four services whose keys and client names come close to each other
All == File(<<Binding("/a", Add, "Sum", NoType, 2), Binding("/b", Add1, "Both", <<"pdu", "Both">>, 1),
              Binding("/c", AddTwo, "Sum", NoType, 1), Binding("/d", AddTwoC, "Sum", NoType, 1)>>)
Changed  == [All EXCEPT !.bindings[1].ros_type = <<"ros", "Both">>,
                        !.bindings[1].pdu_type = <<"pdu", "Both">>]
SameKey  == [All EXCEPT !.bindings[1].name = AddTwoB]
SameName == [All EXCEPT !.bindings[1].name = AddTwo]

Rejected ==
    {[All EXCEPT !.json = FALSE], [All EXCEPT !.ok = FALSE], [All EXCEPT !.version = 2], File(<<>>),
     [All EXCEPT !.bindings[1].capacity = 0],
     [All EXCEPT !.bindings[1].heap = [k \in {"request"} |-> -1]],
     [All EXCEPT !.bindings[1].pdu_type = <<"pdu", "Both">>],
     [All EXCEPT !.bindings[1].server = "c"], [All EXCEPT !.bindings[1].client = "x"],
     [All EXCEPT !.bindings[1].name.words = <<>>], SameName,
     \* accepted, and not resolved
     [All EXCEPT !.bindings[1].ros_type = <<"ros", "Both">>],
     [All EXCEPT !.bindings[1].ros_type = <<"ros", "Bare">>],
     [All EXCEPT !.bindings[1].ros_type = <<"ros", "None">>]}

Endpoint(r) == [ok |-> TRUE, role |-> r, port |-> 65535,
                addresses |-> {IF r = "server" THEN "local" ELSE "remote"}]
Plain == [json |-> TRUE, ok |-> TRUE,
          endpoints |-> [n \in {"c", "s"} |-> Endpoint(IF n = "c" THEN "client" ELSE "server")]]
Swapped == [Plain EXCEPT !.endpoints = [n \in {"c", "s"} |->
                                           Endpoint(IF n = "s" THEN "client" ELSE "server")]]
Extra == [Plain EXCEPT !.endpoints = [n \in {"c", "s", "x"} |->
                                         Endpoint(IF n = "s" THEN "server" ELSE "client")]]
NotJson == [Plain EXCEPT !.json = FALSE]

Transports ==
    {Plain, Swapped, Extra, NotJson,
     [Plain EXCEPT !.endpoints["c"].addresses = {"local"}],
     [Plain EXCEPT !.endpoints["c"].port = 65536], [Plain EXCEPT !.endpoints["s"].role = "peer"],
     [Plain EXCEPT !.endpoints = [n \in {"c"} |-> Endpoint("client")]]}

Pair(b, t) == [binding |-> b, transport |-> t]

\* each kind of file alone, and the accepted ones together
MCInitials ==
    {Pair(b, Plain) : b \in {All, SameKey} \cup Rejected} \cup {Pair(All, t) : t \in Transports}

\* what a file is edited to: another type for the same service, endpoints that
\* only an Action accepts, or something that is no JSON
MCSources == {Pair(Changed, Plain)} \cup {Pair(All, t) : t \in {Swapped, NotJson}}

\* the two nodes run the same code
MCSymmetry == Permutations(Nodes)
=============================================================================
