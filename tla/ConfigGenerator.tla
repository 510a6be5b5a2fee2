-------------------------- MODULE ConfigGenerator --------------------------
(***************************************************************************)
(* How a Service or Action bridge node starts (run() of the four nodes):   *)
(* it reads its binding and transport files, generates the native RPC      *)
(* configuration into its output directory, reads the binding again and    *)
(* opens what was generated (service_config_generator.py,                  *)
(* action_config_generator.py).                                            *)
(*                                                                         *)
(* Both directions of a binding have the same default output directory, so *)
(* two nodes may generate into it at once, while an operator edits the     *)
(* sources, and a node may be killed and started again at any step.  Every *)
(* action is the code between two accesses to a shared file.               *)
(*                                                                         *)
(* The editions of the two source files are numbered: history[n] is the    *)
(* n-th, and the last one is on disk.  A generated file is known by where  *)
(* it comes from: [gen, binding, checked, transport] is the manifest that  *)
(* generation gen built from the binding of one edition, checked against   *)
(* the transport of a second one, with the transport of a third.           *)
(*                                                                         *)
(* External: the native generator of hakoniwa-pdu-rpc, which reads the     *)
(* manifest and writes its files in place.                                 *)
(***************************************************************************)
EXTENDS BindingFile

CONSTANTS
    Nodes,          \* the bridge nodes with this output directory
    Initials,       \* [binding, transport]: what the sources may be first
    Sources,        \* ... and what the operator may make of them
    NoFile, Torn,   \* an absent file, a file that is not written completely
    MaxEdits,       \* bound: edits of a source file
    MaxGens,        \* bound: starts of a node
    MaxFaults       \* bound: kills, exceptions, and files not generated

\* what a file that is written completely comes from
Manifests == [gen : Nat, binding : Nat, checked : Nat, transport : Nat]

ASSUME ConfigAssumption ==
    /\ MaxEdits \in Nat /\ MaxGens \in Nat /\ MaxFaults \in Nat
    /\ NoFile # Torn
    /\ NoFile \notin Manifests /\ Torn \notin Manifests
    /\ \A s \in Initials \cup Sources : \A i \in DOMAIN s.binding.bindings :
           /\ s.binding.bindings[i].name.words \in Seq(STRING)
           /\ s.binding.bindings[i].capacity \in Int

VARIABLES
    kind,       \* "service" or "action"
    history,    \* the editions of the sources
    dir,        \* the output directory: the contents of each file
    temp,       \* the temporary file of each node
    orphan,     \* a temporary file was left behind
    pc, run,    \* each node, and what its run() holds
    opened,     \* the generated files it runs with
    gens, faults,
    omitted     \* the native generator has returned without writing a file

vars == <<kind, history, dir, temp, orphan, pc, run, opened, gens, faults, omitted>>

Generated == [service |-> <<"server", "client", "endpoints">>,
              action  |-> <<"resolved", "endpoints">>]
Files     == {"manifest", "server", "client", "resolved", "endpoints"}
Required  == {Generated[kind][i] : i \in DOMAIN Generated[kind]}

Now     == Len(history)
Source  == history[Now]
Idle    == {"off", "failed", "serving"}
Starting(p) == pc[p] \notin Idle

NoRun == [gen |-> 0, since |-> 0, edits |-> 0, faults |-> 0, binding |-> 0, checked |-> 0,
          again |-> 0, next |-> 0, manifest |-> NoFile]

\* what an earlier run of the bridge left (the part of it that a kill leaves
\* comes about by a kill)
Earlier == [gen |-> 0, binding |-> 1, checked |-> 1, transport |-> 1]

Init ==
    /\ kind \in {"service", "action"}
    /\ history \in {<<s>> : s \in Initials}
    /\ dir \in {[f \in Files |-> NoFile],
                [f \in Files |-> IF f \in {"manifest"} \cup Required THEN Earlier ELSE NoFile]}
    /\ temp = [p \in Nodes |-> NoFile] /\ orphan = FALSE
    /\ pc = [p \in Nodes |-> "off"]
    /\ run = [p \in Nodes |-> NoRun]
    /\ opened = [p \in Nodes |-> {}]
    /\ gens = 0 /\ faults = 0 /\ omitted = FALSE

Fault      == faults < MaxFaults /\ faults' = faults + 1
Goto(p, l) == pc' = [pc EXCEPT ![p] = l]

-----------------------------------------------------------------------------
\* The operator writes one of the two source files.
Edit ==
    /\ Now <= MaxEdits
    /\ \E s \in Sources :
        /\ (s.binding = Source.binding) # (s.transport = Source.transport)
        /\ history' = Append(history, s)
    /\ UNCHANGED <<kind, dir, temp, orphan, pc, run, opened, gens, faults, omitted>>

\* The process dies: what it has written stays.
Kill(p) ==
    /\ Starting(p) /\ Fault
    /\ Goto(p, "off")
    /\ temp' = [temp EXCEPT ![p] = NoFile]
    /\ orphan' = (orphan \/ temp[p] # NoFile)
    /\ UNCHANGED <<kind, history, dir, run, opened, gens, omitted>>

-----------------------------------------------------------------------------
(***************************************************************************)
(* generate_service_configs, generate_action_configs.                      *)
(***************************************************************************)
\* run() starts: load_service_binding reads the binding file ...
Load(p) ==
    /\ pc[p] \in {"off", "failed"} /\ gens < MaxGens
    /\ gens' = gens + 1
    /\ LET others == {run[q].since : q \in {r \in Nodes : Starting(r)}}
       IN  \E g \in others \cup {gens'} :
            /\ \A h \in others : g <= h
            /\ run' = [run EXCEPT ![p] =
                          [NoRun EXCEPT !.gen = gens', !.binding = Now, !.edits = Now,
                                        !.faults = faults, !.since = g]]
    /\ Goto(p, "loading")
    /\ UNCHANGED <<kind, history, dir, temp, orphan, opened, faults, omitted>>

\* ... then the transport file, and checks the two
CheckBinding(p) ==
    /\ pc[p] = "loading"
    /\ run' = [run EXCEPT ![p].checked = Now]
    /\ Goto(p, IF Accepts(kind, history[run[p].binding].binding, Source.transport)
               THEN "loaded" ELSE "failed")
    /\ UNCHANGED <<kind, history, dir, temp, orphan, opened, gens, faults, omitted>>

\* the types are resolved, and the manifest is built: the transport is read
\* once more, and not checked
BuildManifest(p) ==
    /\ pc[p] = "loaded"
    /\ LET f == history[run[p].binding].binding
       IN  IF /\ \A i \in DOMAIN f.bindings : Resolvable(kind, f.bindings[i])
              /\ Source.transport.json
           THEN /\ run' = [run EXCEPT ![p].manifest =
                             [gen |-> run[p].gen, binding |-> run[p].binding,
                              checked |-> run[p].checked, transport |-> Now]]
                /\ Goto(p, "built")
           ELSE Goto(p, "failed") /\ UNCHANGED run
    /\ UNCHANGED <<kind, history, dir, temp, orphan, opened, gens, faults, omitted>>

\* (mutant) the name of the temporary file may be taken
CreateNamed(p) ==
    /\ pc[p] = "built"
    /\ IF orphan THEN Goto(p, "failed") /\ UNCHANGED temp
                 ELSE temp' = [temp EXCEPT ![p] = Torn] /\ Goto(p, "writing")
    /\ UNCHANGED <<kind, history, dir, orphan, run, opened, gens, faults, omitted>>

\* (mutant) the manifest is written in place
CreateInPlace(p) ==
    /\ pc[p] = "built"
    /\ temp' = [temp EXCEPT ![p] = Torn] /\ dir' = [dir EXCEPT !["manifest"] = Torn]
    /\ Goto(p, "writing")
    /\ UNCHANGED <<kind, history, orphan, run, opened, gens, faults, omitted>>

\* _write_json_atomic: NamedTemporaryFile creates a file of a new name
CreateTemporary(p) ==
    /\ pc[p] = "built"
    /\ temp' = [temp EXCEPT ![p] = Torn]
    /\ Goto(p, "writing")
    /\ UNCHANGED <<kind, history, dir, orphan, run, opened, gens, faults, omitted>>

\* stream.write() and close; when write() raises, temporary_path is not yet set,
\* and the file stays; when close() raises it is unlinked
WriteTemporary(p) ==
    /\ pc[p] = "writing"
    /\ \/ /\ temp' = [temp EXCEPT ![p] = run[p].manifest]
          /\ Goto(p, "written")
          /\ UNCHANGED <<orphan, faults>>
       \/ /\ Fault /\ Goto(p, "failed")
          /\ temp' = [temp EXCEPT ![p] = NoFile]
          /\ orphan' \in {orphan, TRUE}
    /\ UNCHANGED <<kind, history, dir, run, opened, gens, omitted>>

\* os.replace(temporary_path, path); the temporary file is unlinked when it raises
Replace(p) ==
    /\ pc[p] = "written"
    /\ temp' = [temp EXCEPT ![p] = NoFile]
    /\ \/ /\ dir' = [dir EXCEPT !["manifest"] = temp[p]]
          /\ Goto(p, "replaced")
          /\ UNCHANGED faults
       \/ Fault /\ Goto(p, "failed") /\ UNCHANGED dir
    /\ UNCHANGED <<kind, history, orphan, run, opened, gens, omitted>>

\* (mutant) files that are there already are taken as generated
RpcReadUnlessThere(p) ==
    /\ pc[p] = "replaced"
    /\ run' = [run EXCEPT ![p].manifest = dir["manifest"],
                         ![p].next = IF \E f \in Required : dir[f] = NoFile THEN 1 ELSE 4]
    /\ Goto(p, "rpc")
    /\ UNCHANGED <<kind, history, dir, temp, orphan, opened, gens, faults, omitted>>

\* generate_rpc (external) reads the manifest that is there now ...
RpcRead(p) ==
    /\ pc[p] = "replaced"
    /\ run' = [run EXCEPT ![p].manifest = dir["manifest"], ![p].next = 1]
    /\ Goto(p, "rpc")
    /\ UNCHANGED <<kind, history, dir, temp, orphan, opened, gens, faults, omitted>>

NextFile(p) == Generated[kind][run[p].next]
MoreFiles(p) == run[p].next <= Len(Generated[kind])

\* ... opens one file after the other for writing, or raises, or leaves it out ...
RpcOpen(p) ==
    /\ pc[p] = "rpc" /\ MoreFiles(p)
    /\ \/ /\ dir' = [dir EXCEPT ![NextFile(p)] = Torn]
          /\ Goto(p, "rpcwriting")
          /\ UNCHANGED <<run, faults, omitted>>
       \/ /\ Fault /\ Goto(p, "failed") /\ UNCHANGED <<dir, run, omitted>>
       \/ /\ Fault /\ omitted' = TRUE
          /\ run' = [run EXCEPT ![p].next = @ + 1]
          /\ UNCHANGED <<dir, pc>>
    /\ UNCHANGED <<kind, history, temp, orphan, opened, gens>>

\* ... and writes it
RpcWrite(p) ==
    /\ pc[p] = "rpcwriting"
    /\ dir' = [dir EXCEPT ![NextFile(p)] = run[p].manifest]
    /\ run' = [run EXCEPT ![p].next = @ + 1]
    /\ Goto(p, "rpc")
    /\ UNCHANGED <<kind, history, temp, orphan, opened, gens, faults, omitted>>

\* expected.is_file(), for a Service; an Action generator does not look
CheckGenerated(p) ==
    /\ pc[p] = "rpc" /\ ~MoreFiles(p)
    /\ Goto(p, IF kind = "service" /\ \E f \in Required : dir[f] = NoFile
               THEN "failed" ELSE "generated")
    /\ UNCHANGED <<kind, history, dir, temp, orphan, run, opened, gens, faults, omitted>>

-----------------------------------------------------------------------------
(***************************************************************************)
(* The rest of run(), and the constructor of the node.                     *)
(***************************************************************************)
\* load_service_binding(config_path) again, in its two reads
Reload(p) ==
    /\ pc[p] = "generated"
    /\ run' = [run EXCEPT ![p].again = Now]
    /\ Goto(p, "reloading")
    /\ UNCHANGED <<kind, history, dir, temp, orphan, opened, gens, faults, omitted>>

Recheck(p) ==
    /\ pc[p] = "reloading"
    /\ Goto(p, IF Accepts(kind, history[run[p].again].binding, Source.transport)
               THEN "reloaded" ELSE "failed")
    /\ UNCHANGED <<kind, history, dir, temp, orphan, run, opened, gens, faults, omitted>>

NamesOf(f)  == {f.bindings[i].name : i \in DOMAIN f.bindings}
OpensOf     == IF kind = "action" THEN {{"resolved", "endpoints"}}
               ELSE {{"client", "endpoints"}, {"server", "endpoints"}}

\* The resolved services must be those of the binding; then the native runtime
\* opens the configuration of its side and the endpoints.
Construct(p) ==
    /\ pc[p] = "reloaded"
    /\ \E fs \in OpensOf :
        IF /\ NamesOf(history[run[p].binding].binding) = NamesOf(history[run[p].again].binding)
           /\ \A f \in fs : dir[f] \notin {NoFile, Torn}
        THEN opened' = [opened EXCEPT ![p] = {dir[f] : f \in fs}] /\ Goto(p, "serving")
        ELSE Goto(p, "failed") /\ UNCHANGED opened
    /\ UNCHANGED <<kind, history, dir, temp, orphan, run, gens, faults, omitted>>

-----------------------------------------------------------------------------
Generate(p) ==
    \/ Load(p) \/ CheckBinding(p) \/ BuildManifest(p) \/ CreateTemporary(p)
    \/ WriteTemporary(p) \/ Replace(p) \/ RpcRead(p) \/ RpcOpen(p) \/ RpcWrite(p)
    \/ CheckGenerated(p)

Next ==
    \/ \E p \in Nodes : Generate(p) \/ Reload(p) \/ Recheck(p) \/ Construct(p) \/ Kill(p)
    \/ Edit

Spec == Init /\ [][Next]_vars

-----------------------------------------------------------------------------
(***************************************************************************)
(* Properties.                                                             *)
(***************************************************************************)
\* Whoever reads the manifest, at any moment and after any kill or exception,
\* finds no part of one: it is absent or was written as a whole.
ManifestWhole ==
    /\ dir["manifest"] # Torn
    /\ \A p \in Nodes : run[p].manifest # Torn /\ (pc[p] = "rpc" => run[p].manifest # NoFile)

ManifestOf(m) == Manifest(kind, history[m.binding].binding, history[m.transport].transport)

\* The RPC clients of all services of the manifest have different names: no name is
\* shared by two services, and each service has as many as it has clients.
ServicesApart(es) ==
    \A i, j \in DOMAIN es : i # j => ClientNames(es[i]) \cap ClientNames(es[j]) = {}

DistinctClients(es) ==
    /\ ServicesApart(es)
    /\ \A i \in DOMAIN es : Cardinality(ClientNames(es[i])) = es[i].capacity

\* Every packet has room for the last member of its offset file and for the header.
RoomInPackets(es) ==
    \A i \in DOMAIN es : \A d \in {"Request", "Response"} :
        \A f \in Offsets(<<es[i].type[1], es[i].type[2], d>>) :
            LET last == IF f.last.varray THEN 8 ELSE f.last.size
            IN  es[i].packetSize[d] >= f.last.offset + last + 8

\* Every endpoint that the manifest refers to is declared by the transport in it,
\* in a role that fits.
Connected(m) ==
    \A i \in DOMAIN m.entries :
        LET e == m.entries[i]
            t == m.transport.endpoints
        IN  /\ {e.client, e.server} \subseteq DOMAIN t
            /\ {t[e.client].role, t[e.server].role} = {"client", "server"}
            /\ kind = "service" => t[e.client].role = "client"

Built == {p \in Nodes : pc[p] = "built"}

ManifestApart ==
    \A p \in Built : kind = "service" => ServicesApart(ManifestOf(run[p].manifest).entries)

ManifestRoom ==
    \A p \in Built : kind = "service" => RoomInPackets(ManifestOf(run[p].manifest).entries)

\* ... unless the operator has changed the transport between its two reads
ManifestConnected ==
    \A p \in Built :
        LET r == run[p].manifest
        IN  history[r.checked].transport = history[r.transport].transport
                => Connected(ManifestOf(r))

\* What a generator is about to write can be used, whatever the binding file says:
\* no clash of client names, no packet that is too small, and, although the
\* transport is read a second time for it, no dangling endpoint.
ManifestUsable ==
    /\ \A p \in Built : kind = "service" => DistinctClients(ManifestOf(run[p].manifest).entries)
    /\ ManifestRoom
    /\ ManifestConnected

\* A node runs with files of its own generation or of one it overlaps, through
\* others perhaps: since is the oldest start of an uninterrupted row of
\* generations.  What an earlier generation has left in the directory is never
\* used, unless the native generator skips a file.
NoStaleFiles ==
    ~omitted => \A p \in Nodes : pc[p] = "serving" =>
        \A c \in opened[p] : c.gen >= run[p].since

\* A start that is not disturbed, by a fault, an edit or another node, serves
\* what the sources say if they can be served, whatever killed or failed
\* generations before it have left in the directory.
UndisturbedStartServes ==
    \A p \in Nodes :
        /\ pc[p] = "failed"
        /\ run[p].edits = Now /\ run[p].faults = faults
        /\ run[p].since = run[p].gen /\ run[p].gen = gens
        => \/ ~Accepts(kind, Source.binding, Source.transport)
           \/ \E i \in DOMAIN Source.binding.bindings :
                 ~Resolvable(kind, Source.binding.bindings[i])
=============================================================================
