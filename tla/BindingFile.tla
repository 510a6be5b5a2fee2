---------------------------- MODULE BindingFile ----------------------------
(***************************************************************************)
(* The Service and Action binding files and what the config generators     *)
(* derive from them: service_binding.py and action_binding.py decide which *)
(* files are accepted, service_config_generator.py and                     *)
(* action_config_generator.py resolve the types and build the manifest.    *)
(*                                                                         *)
(* A raw JSON object is a record of the fields the checks compare; json    *)
(* says that the text parses at all, and ok that every field is known, is  *)
(* present when required and has its JSON type and documented form.  A     *)
(* type is a pair <<package, Type>>.  The last segment of a Hakoniwa name  *)
(* is [words, joint]: AddTwo is <<"add", "two">> joined as "Camel",        *)
(* add_two as "snake", Add_Two as "Camel_Snake".                           *)
(***************************************************************************)
EXTENDS Naturals, Integers, Sequences, FiniteSets, SequencesExt, TLC

CONSTANTS
    NoType,        \* no explicit pdu_service_type / pdu_action_type
    RosInstalled,  \* ROS types with an installed interface definition
    PduInstalled,  \* PDU types whose four (Action: six) modules all exist
    OffsetFiles    \* [packet, direct, last]: the offset files of a packet type

ASSUME BindingFileAssumption ==
    /\ IsFiniteSet(OffsetFiles)
    /\ \A f \in OffsetFiles : /\ f.last.varray \in BOOLEAN
                              /\ f.last.offset \in Nat /\ f.last.size \in Nat

-----------------------------------------------------------------------------
(***************************************************************************)
(* Which files are accepted.                                               *)
(***************************************************************************)
Ports == 1 .. 65535

\* a TCP server listens on its local address, a client connects to a remote one
ValidEndpoint(e) ==
    /\ e.ok /\ e.role \in {"server", "client"}
    /\ e.addresses = {IF e.role = "server" THEN "local" ELSE "remote"}
    /\ e.port \in Ports

ValidTransport(kind, t) ==
    /\ t.json /\ t.ok
    /\ \A n \in DOMAIN t.endpoints : ValidEndpoint(t.endpoints[n])
    /\ kind = "action" => Cardinality(DOMAIN t.endpoints) >= 2

\* capacity is max_clients or slot_count
ValidBinding(b) ==
    /\ b.ok
    /\ b.capacity > 0 /\ b.timeout_msec > 0
    /\ \A k \in DOMAIN b.heap : b.heap[k] >= 0
    /\ b.pdu_type # NoType => b.pdu_type[2] = b.ros_type[2]

\* the key, as the words its underscores separate: a capital letter puts one
\* more underscore before its word
service_key(name) ==
    LET w == name.words
    IN  IF name.joint = "Camel_Snake"
        THEN [i \in 1 .. 2 * Len(w) - 1 |-> IF i % 2 = 1 THEN w[(i + 1) \div 2] ELSE ""]
        ELSE w

\* (mutant) two names with the same key are told apart by the rest of the name
UniqueNames(kind, bs) ==
    /\ IsInjective([i \in DOMAIN bs |-> bs[i].ros_name])
    /\ IsInjective([i \in DOMAIN bs |-> bs[i].name])

UniqueBindings(kind, bs) ==
    /\ IsInjective([i \in DOMAIN bs |-> bs[i].ros_name])
    /\ IsInjective([i \in DOMAIN bs |-> bs[i].name])
    /\ kind = "service" => /\ \A i \in DOMAIN bs : bs[i].name.words # <<>>
                           /\ IsInjective([i \in DOMAIN bs |-> service_key(bs[i].name)])

\* (mutant) the roles of a Service are not compared
DeclaredRefs(kind, bs, t) ==
    \A i \in DOMAIN bs : /\ bs[i].client # bs[i].server
                         /\ {bs[i].client, bs[i].server} \subseteq DOMAIN t.endpoints

\* A Service refers to a client and a server, and to every endpoint of the
\* transport; an Action to two endpoints of different roles.
ValidEndpointRefs(kind, bs, t) ==
    /\ \A i \in DOMAIN bs :
        /\ bs[i].client # bs[i].server
        /\ {bs[i].client, bs[i].server} \subseteq DOMAIN t.endpoints
        /\ IF kind = "service"
           THEN /\ t.endpoints[bs[i].client].role = "client"
                /\ t.endpoints[bs[i].server].role = "server"
           ELSE t.endpoints[bs[i].client].role # t.endpoints[bs[i].server].role
    /\ kind = "service" =>
        DOMAIN t.endpoints = UNION {{bs[i].client, bs[i].server} : i \in DOMAIN bs}

\* load_service_binding, load_action_binding
Accepts(kind, f, t) ==
    /\ f.json /\ f.ok /\ f.version = 1 /\ f.bindings # <<>>
    /\ ValidTransport(kind, t)
    /\ \A i \in DOMAIN f.bindings : ValidBinding(f.bindings[i])
    /\ UniqueBindings(kind, f.bindings)
    /\ ValidEndpointRefs(kind, f.bindings, t)

-----------------------------------------------------------------------------
(***************************************************************************)
(* What the generators derive from an accepted file.                       *)
(***************************************************************************)
\* the PDU types a binding may mean: exactly one, or it is not resolved
Candidates(b) ==
    IF b.pdu_type # NoType THEN {b.pdu_type} \cap PduInstalled
                           ELSE {t \in PduInstalled : t[2] = b.ros_type[2]}

PduType(b) == CHOOSE t \in Candidates(b) : TRUE

\* the file at its direct path, or else every file of that name and package
Offsets(packet) ==
    LET found  == {f \in OffsetFiles : f.packet = packet}
        direct == {f \in found : f.direct}
    IN  IF direct # {} THEN direct ELSE found

\* (mutant) the size is rounded down
Truncate8(n) == (n \div 8) * 8

Align8(n) == ((n + 7) \div 8) * 8

\* The packet ends with the member of the last line; of a varray it holds 8
\* bytes, whatever its contents; and 8 bytes of header come with it.
PacketSize(line) ==
    Align8(line.offset + (IF line.varray THEN 8 ELSE line.size) + 8)

Packet(b, direction) == <<PduType(b)[1], PduType(b)[2], direction>>

Resolvable(kind, b) ==
    /\ b.ros_type \in RosInstalled
    /\ Cardinality(Candidates(b)) = 1
    /\ kind = "service" => \A d \in {"Request", "Response"} :
                               Cardinality(Offsets(Packet(b, d))) = 1

BaseSize(b, d) == PacketSize((CHOOSE f \in Offsets(Packet(b, d)) : TRUE).last)

\* one entry of the manifest: for a Service the heap defaults to 0, for an
\* Action only what the binding file gives is passed on
ManifestEntry(kind, b) ==
    [name |-> b.name, type |-> PduType(b), capacity |-> b.capacity,
     client |-> b.client, server |-> b.server,
     prefix |-> IF kind = "service" THEN service_key(b.name) ELSE <<>>,
     packetSize |-> IF kind = "service"
                    THEN [d \in {"Request", "Response"} |-> BaseSize(b, d)] ELSE <<>>,
     bufferHeap |-> IF kind = "service"
                    THEN [k \in {"request", "response"} |->
                             IF k \in DOMAIN b.heap THEN b.heap[k] ELSE 0]
                    ELSE b.heap]

Manifest(kind, f, t) ==
    [entries |-> [i \in DOMAIN f.bindings |-> ManifestEntry(kind, f.bindings[i])],
     transport |-> t]

\* a number in a name: its decimal digits
Decimal[n \in Nat] == IF n < 10 THEN <<n>> ELSE Append(Decimal[n \div 10], n % 10)

\* hakoniwa_pdu_ros_<prefix>_<index>: the names under which the bridge creates
\* its RPC clients and the native generator their channels
ClientName(entry, index) == entry.prefix \o <<Decimal[index]>>

ClientNames(entry) == {ClientName(entry, i) : i \in 0 .. entry.capacity - 1}
=============================================================================
