------------------------ MODULE ConfigGenerator_proofs ------------------------
EXTENDS ConfigGenerator, FiniteSetTheorems, SequenceTheorems, WellFoundedInduction, TLAPS

-----------------------------------------------------------------------------
(***************************************************************************)
(* The size of a packet.                                                   *)
(***************************************************************************)
\* _align8 rounds up to a multiple of 8, by less than 8.
LEMMA AlignsUp ==
    ASSUME NEW n \in Nat
    PROVE  Align8(n) \in Nat /\ Align8(n) % 8 = 0 /\ n <= Align8(n) /\ Align8(n) < n + 8
  BY DEF Align8

\* The base size of a packet is a multiple of 8 that holds its last member and the
\* header.
LEMMA PacketHolds ==
    ASSUME NEW f \in OffsetFiles
    PROVE  /\ PacketSize(f.last) \in Nat
           /\ PacketSize(f.last) >= f.last.offset
                  + (IF f.last.varray THEN 8 ELSE f.last.size) + 8
  <1> DEFINE n == f.last.offset + (IF f.last.varray THEN 8 ELSE f.last.size) + 8
  <1>1. n \in Nat
    BY BindingFileAssumption
  <1>2. PacketSize(f.last) = Align8(n)
    BY DEF PacketSize
  <1> QED
    BY <1>1, <1>2, AlignsUp

\* Of a resolved binding there is one offset file for each direction, and the
\* manifest has its size.
LEMMA SizeOfResolved ==
    ASSUME NEW b, Resolvable("service", b), NEW d \in {"Request", "Response"},
           NEW f \in Offsets(Packet(b, d))
    PROVE  f \in OffsetFiles /\ BaseSize(b, d) = PacketSize(f.last)
  <1> DEFINE S == Offsets(Packet(b, d))
  <1>1. S \subseteq OffsetFiles
    BY DEF Offsets
  <1>2. IsFiniteSet(S)
    BY <1>1, BindingFileAssumption, FS_Subset
  <1>3. Cardinality(S) = 1
    BY DEF Resolvable
  <1>4. PICK g : S = {g}
    BY <1>2, <1>3, FS_Singleton
  <1>5. (CHOOSE h \in S : TRUE) = f
    BY <1>4
  <1> QED
    BY <1>1, <1>5 DEF BaseSize

-----------------------------------------------------------------------------
(***************************************************************************)
(* Types, and what is in the files between two steps of a generator.       *)
(***************************************************************************)
Contents == Manifests \cup {NoFile, Torn}

Runs == [gen : Nat, since : Nat, edits : Nat, faults : Nat, binding : Nat, checked : Nat,
         again : Nat, next : Nat, manifest : Manifests \cup {NoFile}]

Places == {"off", "failed", "serving", "loading", "loaded", "built", "writing", "written",
           "replaced", "rpc", "rpcwriting", "generated", "reloading", "reloaded"}

TypeInv ==
    /\ kind \in {"service", "action"}
    /\ history \in Seq(Initials \cup Sources) /\ Len(history) >= 1
    /\ dir \in [Files -> Contents]
    /\ temp \in [Nodes -> Contents]
    /\ pc \in [Nodes -> Places]
    /\ run \in [Nodes -> Runs]
    /\ gens \in Nat /\ faults \in Nat

\* From BuildManifest to Replace a node has a manifest, after WriteTemporary its
\* temporary file holds it, after Replace the directory always holds one, and from
\* RpcRead on the native generator has read it and writes files of its own.
WholeInv ==
    /\ dir["manifest"] # Torn
    /\ \A p \in Nodes :
        /\ pc[p] \in {"built", "writing", "written", "rpc", "rpcwriting"} => run[p].manifest # NoFile
        /\ pc[p] = "written" => temp[p] \in Manifests
        /\ pc[p] \in {"replaced", "rpc", "rpcwriting"} => dir["manifest"] # NoFile
        /\ pc[p] = "rpc" => run[p].next > 0
        /\ pc[p] = "rpcwriting" => run[p].next \in DOMAIN Generated[kind]

\* The native generator's files do not include the manifest it reads.
LEMMA GeneratedFiles ==
    ASSUME kind \in {"service", "action"}, NEW i \in DOMAIN Generated[kind]
    PROVE  Generated[kind][i] \in Files \ {"manifest"}
  BY DEF Generated, Files

\* The initial states satisfy TypeInv and WholeInv.
LEMMA TypeInit == Init => TypeInv /\ WholeInv
  <1> SUFFICES ASSUME Init PROVE TypeInv /\ WholeInv
    OBVIOUS
  <1>1. PICK s \in Initials : history = <<s>>
    BY DEF Init
  <1>2. history \in Seq(Initials \cup Sources) /\ Len(history) >= 1
    BY <1>1
  <1>3. Earlier \in Manifests
    BY DEF Earlier, Manifests
  <1>4. dir \in [Files -> Contents] /\ dir["manifest"] # Torn
    BY <1>3, ConfigAssumption DEF Init, Contents, Files
  <1>5. temp \in [Nodes -> Contents]
    <2>1. temp = [p \in Nodes |-> NoFile]
      BY DEF Init
    <2> QED
      BY <2>1 DEF Contents
  <1>6. pc = [p \in Nodes |-> "off"]
    BY DEF Init
  <1>7. run \in [Nodes -> Runs]
    <2>1. NoRun \in Runs
      BY DEF NoRun, Runs
    <2>2. run = [p \in Nodes |-> NoRun]
      BY DEF Init
    <2> QED
      BY <2>1, <2>2
  <1>8. kind \in {"service", "action"} /\ gens \in Nat /\ faults \in Nat
    BY DEF Init
  <1>9. TypeInv
    <2>1. pc \in [Nodes -> Places]
      BY <1>6 DEF Places
    <2> QED
      BY <2>1, <1>2, <1>4, <1>5, <1>7, <1>8 DEF TypeInv
  <1> QED
    BY <1>4, <1>6, <1>9 DEF WholeInv

\* A step of one node keeps both, when what it writes is right for where it goes.
LEMMA NodeStep ==
    ASSUME TypeInv, WholeInv, NEW p \in Nodes, NEW l \in Places,
           pc' = [pc EXCEPT ![p] = l],
           UNCHANGED <<kind, history>>, gens' \in Nat, faults' \in Nat,
           dir' \in [Files -> Contents], dir'["manifest"] # Torn,
           dir["manifest"] # NoFile => dir'["manifest"] # NoFile,
           temp' \in [Nodes -> Contents], \A q \in Nodes \ {p} : temp'[q] = temp[q],
           run' \in [Nodes -> Runs], \A q \in Nodes \ {p} : run'[q] = run[q],
           l \in {"built", "writing", "written", "rpc", "rpcwriting"} => run'[p].manifest # NoFile,
           l = "written" => temp'[p] \in Manifests,
           l \in {"replaced", "rpc", "rpcwriting"} => dir'["manifest"] # NoFile,
           l = "rpc" => run'[p].next > 0,
           l = "rpcwriting" => run'[p].next \in DOMAIN Generated[kind]
    PROVE  TypeInv' /\ WholeInv'
  <1>1. pc' \in [Nodes -> Places]
    BY DEF TypeInv
  <1>2. TypeInv'
    BY <1>1 DEF TypeInv
  <1>3. ASSUME NEW q \in Nodes
        PROVE  /\ pc'[q] \in {"built", "writing", "written", "rpc", "rpcwriting"}
                      => run'[q].manifest # NoFile
               /\ pc'[q] = "written" => temp'[q] \in Manifests
               /\ pc'[q] \in {"replaced", "rpc", "rpcwriting"} => dir'["manifest"] # NoFile
               /\ pc'[q] = "rpc" => run'[q].next > 0
               /\ pc'[q] = "rpcwriting" => run'[q].next \in DOMAIN Generated[kind]
    <2>1. CASE q = p
      <3>1. pc'[q] = l
        BY <2>1 DEF TypeInv
      <3> QED
        BY <2>1, <3>1
    <2>2. CASE q # p
      <3>1. pc'[q] = pc[q] /\ run'[q] = run[q] /\ temp'[q] = temp[q]
        BY <2>2 DEF TypeInv
      <3> QED
        BY <3>1 DEF WholeInv
    <2> QED
      BY <2>1, <2>2
  <1> QED
    BY <1>2, <1>3 DEF WholeInv


\* Every step keeps both.
LEMMA TypeStep ==
    ASSUME TypeInv, WholeInv, [Next]_vars
    PROVE  TypeInv' /\ WholeInv'
  <1> DEFINE Goal == TypeInv' /\ WholeInv'
  <1>a. /\ dir \in [Files -> Contents] /\ dir["manifest"] # Torn
        /\ temp \in [Nodes -> Contents] /\ run \in [Nodes -> Runs]
        /\ gens \in Nat /\ faults \in Nat /\ Now \in Nat
    BY DEF TypeInv, WholeInv, Now
  <1>b. ASSUME NEW q \in Nodes
        PROVE  /\ pc[q] \in {"built", "writing", "written", "rpc", "rpcwriting"}
                      => run[q].manifest \in Manifests
               /\ pc[q] = "written" => temp[q] \in Manifests
               /\ pc[q] \in {"replaced", "rpc", "rpcwriting"} => dir["manifest"] \in Manifests
               /\ run[q].next \in Nat
               /\ pc[q] = "rpc" => run[q].next > 0
               /\ pc[q] = "rpcwriting" => run[q].next \in DOMAIN Generated[kind]
    <2>1. run[q].manifest \in Manifests \cup {NoFile} /\ run[q].next \in Nat
      BY <1>a DEF Runs
    <2>2. dir["manifest"] \in Contents
      BY <1>a DEF Files
    <2> QED
      BY <2>1, <2>2, <1>a DEF WholeInv, Contents
  <1>c. NoFile \notin Manifests /\ Torn \notin Manifests /\ NoFile # Torn
    BY ConfigAssumption
  <1>1. CASE Edit
    <2>1. PICK s \in Sources : history' = Append(history, s)
      BY <1>1 DEF Edit
    <2>2. history' \in Seq(Initials \cup Sources) /\ Len(history') >= 1
      BY <2>1 DEF TypeInv
    <2> QED
      BY <1>1, <2>2 DEF Edit, TypeInv, WholeInv
  <1>2. ASSUME NEW p \in Nodes, Kill(p) PROVE Goal
    <2>1. temp' \in [Nodes -> Contents] /\ \A q \in Nodes \ {p} : temp'[q] = temp[q]
      BY <1>2, <1>a DEF Kill, Contents
    <2>2. /\ pc' = [pc EXCEPT ![p] = "off"] /\ faults' \in Nat
          /\ UNCHANGED <<kind, history, dir, run, gens>>
      BY <1>2, <1>a DEF Kill, Fault, Goto
    <2> QED
      BY <2>1, <2>2, <1>a, NodeStep DEF Places
  <1>3. ASSUME NEW p \in Nodes, Load(p) PROVE Goal
    <2>1. PICK g \in {run[q].since : q \in {r \in Nodes : Starting(r)}} \cup {gens'} :
              run' = [run EXCEPT ![p] =
                          [NoRun EXCEPT !.gen = gens', !.binding = Now, !.edits = Now,
                                        !.faults = faults, !.since = g]]
      BY <1>3 DEF Load
    <2>2. gens' \in Nat
      BY <1>3, <1>a DEF Load
    <2>3. g \in Nat
      BY <2>2, <1>a DEF Runs
    <2>4. run' \in [Nodes -> Runs] /\ \A q \in Nodes \ {p} : run'[q] = run[q]
      BY <2>1, <2>2, <2>3, <1>a DEF Runs, NoRun
    <2>5. /\ pc' = [pc EXCEPT ![p] = "loading"]
          /\ UNCHANGED <<kind, history, dir, temp, faults>>
      BY <1>3 DEF Load, Goto
    <2> QED
      BY <2>2, <2>4, <2>5, <1>a, NodeStep DEF Places
  <1>4. ASSUME NEW p \in Nodes, CheckBinding(p) PROVE Goal
    <2>1. run' \in [Nodes -> Runs] /\ \A q \in Nodes \ {p} : run'[q] = run[q]
      BY <1>4, <1>a DEF CheckBinding, Runs
    <2>2. PICK l \in {"loaded", "failed"} :
              pc' = [pc EXCEPT ![p] = l] /\ UNCHANGED <<kind, history, dir, temp, gens, faults>>
      BY <1>4 DEF CheckBinding, Goto
    <2> QED
      BY <2>1, <2>2, <1>a, NodeStep DEF Places
  <1>5. ASSUME NEW p \in Nodes, BuildManifest(p) PROVE Goal
    <2> DEFINE m == [gen |-> run[p].gen, binding |-> run[p].binding,
                     checked |-> run[p].checked, transport |-> Now]
    <2>1. m \in Manifests
      BY <1>a DEF Manifests, Runs
    <2>2. UNCHANGED <<kind, history, dir, temp, gens, faults>>
      BY <1>5 DEF BuildManifest
    <2>3. CASE pc' = [pc EXCEPT ![p] = "failed"] /\ run' = run
      BY <2>2, <2>3, <1>a, NodeStep DEF Places
    <2>4. CASE run' = [run EXCEPT ![p].manifest = m] /\ pc' = [pc EXCEPT ![p] = "built"]
      <3>1. run' \in [Nodes -> Runs] /\ run'[p].manifest # NoFile
            /\ \A q \in Nodes \ {p} : run'[q] = run[q]
        BY <2>1, <2>4, <1>a, <1>c DEF Runs
      <3> QED
        BY <2>2, <2>4, <3>1, <1>a, NodeStep DEF Places
    <2> QED
      BY <1>5, <2>3, <2>4 DEF BuildManifest, Goto
  <1>6. ASSUME NEW p \in Nodes, CreateTemporary(p) PROVE Goal
    <2>1. temp' \in [Nodes -> Contents] /\ \A q \in Nodes \ {p} : temp'[q] = temp[q]
      BY <1>6, <1>a DEF CreateTemporary, Contents
    <2>2. /\ pc' = [pc EXCEPT ![p] = "writing"] /\ UNCHANGED <<kind, history, dir, run, gens, faults>>
          /\ run[p].manifest # NoFile
      BY <1>6, <1>b, <1>c DEF CreateTemporary, Goto
    <2> QED
      BY <2>1, <2>2, <1>a, NodeStep DEF Places
  <1>7. ASSUME NEW p \in Nodes, WriteTemporary(p) PROVE Goal
    <2>1. run[p].manifest \in Manifests
      BY <1>7, <1>b DEF WriteTemporary
    <2>2. UNCHANGED <<kind, history, dir, run, gens>>
      BY <1>7 DEF WriteTemporary
    <2>3. faults' \in Nat
      <3>1. faults' = faults \/ faults' = faults + 1
        BY <1>7 DEF WriteTemporary, Fault
      <3> QED
        BY <3>1, <1>a
    <2>4. CASE temp' = [temp EXCEPT ![p] = run[p].manifest] /\ pc' = [pc EXCEPT ![p] = "written"]
      <3>1. temp' \in [Nodes -> Contents] /\ temp'[p] \in Manifests
            /\ \A q \in Nodes \ {p} : temp'[q] = temp[q]
        BY <2>1, <2>4, <1>a DEF Contents
      <3> QED
        BY <2>1, <2>2, <2>3, <2>4, <3>1, <1>a, <1>c, NodeStep DEF Places
    <2>5. CASE temp' = [temp EXCEPT ![p] = NoFile] /\ pc' = [pc EXCEPT ![p] = "failed"]
      <3>1. temp' \in [Nodes -> Contents] /\ \A q \in Nodes \ {p} : temp'[q] = temp[q]
        BY <2>5, <1>a DEF Contents
      <3> QED
        BY <2>2, <2>3, <2>5, <3>1, <1>a, NodeStep DEF Places
    <2> QED
      BY <1>7, <2>4, <2>5 DEF WriteTemporary, Goto
  <1>8. ASSUME NEW p \in Nodes, Replace(p) PROVE Goal
    <2>1. temp[p] \in Manifests
      BY <1>8, <1>b DEF Replace
    <2>2. UNCHANGED <<kind, history, run, gens>> /\ faults' \in Nat
      BY <1>8, <1>a DEF Replace, Fault
    <2>3. temp' \in [Nodes -> Contents] /\ \A q \in Nodes \ {p} : temp'[q] = temp[q]
      BY <1>8, <1>a DEF Replace, Contents
    <2>4. CASE dir' = [dir EXCEPT !["manifest"] = temp[p]] /\ pc' = [pc EXCEPT ![p] = "replaced"]
      <3>1. dir' \in [Files -> Contents] /\ dir'["manifest"] \in Manifests
        BY <2>1, <2>4, <1>a DEF Contents, Files
      <3> QED
        BY <2>2, <2>3, <2>4, <3>1, <1>a, <1>c, NodeStep DEF Places
    <2>5. CASE dir' = dir /\ pc' = [pc EXCEPT ![p] = "failed"]
      BY <2>2, <2>3, <2>5, <1>a, NodeStep DEF Places
    <2> QED
      BY <1>8, <2>4, <2>5 DEF Replace, Goto
  <1>9. ASSUME NEW p \in Nodes, RpcRead(p) PROVE Goal
    <2>1. dir["manifest"] \in Manifests
      BY <1>9, <1>b DEF RpcRead
    <2>2. /\ pc' = [pc EXCEPT ![p] = "rpc"]
          /\ UNCHANGED <<kind, history, dir, temp, gens, faults>>
          /\ run' = [run EXCEPT ![p].manifest = dir["manifest"], ![p].next = 1]
      BY <1>9 DEF RpcRead, Goto
    <2>3. /\ run' \in [Nodes -> Runs] /\ \A q \in Nodes \ {p} : run'[q] = run[q]
          /\ run'[p].manifest = dir["manifest"] /\ run'[p].next > 0
      <3> DEFINE r == [run[p] EXCEPT !.manifest = dir["manifest"], !.next = 1]
      <3>1. r \in Runs /\ r.manifest = dir["manifest"] /\ r.next = 1
        BY <2>1, <1>a DEF Runs
      <3>2. run' = [run EXCEPT ![p] = r]
        BY <2>2, <1>a
      <3> QED
        BY <3>1, <3>2, <1>a
    <2> QED
      BY <2>1, <2>2, <2>3, <1>a, <1>c, NodeStep DEF Places
  <1>10. ASSUME NEW p \in Nodes, RpcOpen(p) PROVE Goal
    <2>1. /\ run[p].manifest # NoFile /\ run[p].next \in Nat /\ run[p].next > 0
          /\ dir["manifest"] # NoFile
      BY <1>10, <1>b, <1>c DEF RpcOpen
    <2>2. UNCHANGED <<kind, history, temp, gens>> /\ faults' \in Nat
      BY <1>10, <1>a DEF RpcOpen, Fault
    <2>3. CASE /\ dir' = [dir EXCEPT ![NextFile(p)] = Torn]
               /\ pc' = [pc EXCEPT ![p] = "rpcwriting"] /\ run' = run
      <3>1. run[p].next \in DOMAIN Generated[kind]
        BY <1>10, <2>1 DEF RpcOpen, MoreFiles, Generated, TypeInv
      <3>2. NextFile(p) \in Files \ {"manifest"}
        BY <3>1, GeneratedFiles DEF NextFile, TypeInv
      <3>3. dir' \in [Files -> Contents] /\ dir'["manifest"] = dir["manifest"]
        BY <2>3, <3>2, <1>a DEF Contents, Files
      <3> QED
        BY <2>1, <2>2, <2>3, <3>1, <3>3, <1>a, NodeStep DEF Places
    <2>4. CASE pc' = [pc EXCEPT ![p] = "failed"] /\ dir' = dir /\ run' = run
      BY <2>2, <2>4, <1>a, NodeStep DEF Places
    <2>5. CASE run' = [run EXCEPT ![p].next = @ + 1] /\ dir' = dir /\ pc' = pc
      <3>1. /\ run' \in [Nodes -> Runs] /\ \A q \in Nodes \ {p} : run'[q] = run[q]
            /\ run'[p].manifest = run[p].manifest /\ run'[p].next > 0
        BY <2>1, <2>5, <1>a DEF Runs
      <3>2. pc' = [pc EXCEPT ![p] = "rpc"]
        BY <1>10, <2>5 DEF RpcOpen, TypeInv
      <3> QED
        BY <2>1, <2>2, <2>5, <3>1, <3>2, <1>a, NodeStep DEF Places
    <2> QED
      BY <1>10, <2>3, <2>4, <2>5 DEF RpcOpen, Goto
  <1>11. ASSUME NEW p \in Nodes, RpcWrite(p) PROVE Goal
    <2>1. /\ run[p].manifest \in Manifests /\ run[p].next \in Nat
          /\ dir["manifest"] \in Manifests /\ run[p].next \in DOMAIN Generated[kind]
      BY <1>11, <1>b DEF RpcWrite
    <2>2. NextFile(p) \in Files \ {"manifest"} /\ run[p].next > 0
      BY <2>1, GeneratedFiles DEF NextFile, TypeInv, Generated
    <2>3. dir' \in [Files -> Contents] /\ dir'["manifest"] = dir["manifest"]
      BY <1>11, <2>1, <2>2, <1>a DEF RpcWrite, Contents, Files
    <2>4. /\ run' \in [Nodes -> Runs] /\ \A q \in Nodes \ {p} : run'[q] = run[q]
          /\ run'[p].manifest = run[p].manifest /\ run'[p].next > 0
      BY <1>11, <2>1, <2>2, <1>a DEF RpcWrite, Runs
    <2>5. pc' = [pc EXCEPT ![p] = "rpc"] /\ UNCHANGED <<kind, history, temp, gens, faults>>
      BY <1>11 DEF RpcWrite, Goto
    <2> QED
      BY <2>1, <2>3, <2>4, <2>5, <1>a, <1>c, NodeStep DEF Places
  <1>12. ASSUME NEW p \in Nodes, CheckGenerated(p) \/ Recheck(p) \/ Construct(p) PROVE Goal
    <2>1. PICK l \in {"failed", "generated", "reloaded", "serving"} :
              /\ pc' = [pc EXCEPT ![p] = l]
              /\ UNCHANGED <<kind, history, dir, temp, run, gens, faults>>
      BY <1>12 DEF CheckGenerated, Recheck, Construct, Goto
    <2> QED
      BY <2>1, <1>a, NodeStep DEF Places
  <1>13. ASSUME NEW p \in Nodes, Reload(p) PROVE Goal
    <2>1. run' \in [Nodes -> Runs] /\ \A q \in Nodes \ {p} : run'[q] = run[q]
      BY <1>13, <1>a DEF Reload, Runs
    <2>2. /\ pc' = [pc EXCEPT ![p] = "reloading"]
          /\ UNCHANGED <<kind, history, dir, temp, gens, faults>>
      BY <1>13 DEF Reload, Goto
    <2> QED
      BY <2>1, <2>2, <1>a, NodeStep DEF Places
  <1>14. CASE UNCHANGED vars
    BY <1>14 DEF vars, TypeInv, WholeInv
  <1> QED
    BY <1>1, <1>2, <1>3, <1>4, <1>5, <1>6, <1>7, <1>8, <1>9, <1>10, <1>11, <1>12, <1>13,
       <1>14 DEF Next, Generate

\* For any number of nodes that share the directory, any edits, and a kill or an
\* exception at every step: no one ever reads a part of a manifest, and the native
\* generator always finds one.
THEOREM NeverTorn == Spec => []ManifestWhole
  <1>1. TypeInv /\ WholeInv => ManifestWhole
    BY ConfigAssumption DEF TypeInv, WholeInv, ManifestWhole, Runs
  <1> QED
    BY TypeInit, TypeStep, <1>1, PTL DEF Spec

-----------------------------------------------------------------------------
(***************************************************************************)
(* What is in a manifest that a generator has built.                       *)
(***************************************************************************)
\* The binding a node has loaded was accepted with the transport it has checked
\* it against, and its types were resolved when the manifest was built from it;
\* all editions exist.
BuiltFrom(p) ==
    LET r == run[p]
        m == r.manifest
        f == history[r.binding].binding
    IN  /\ pc[p] \in {"loading", "loaded", "built"} => r.binding \in DOMAIN history
        /\ pc[p] \in {"loaded", "built"} =>
               /\ r.checked \in DOMAIN history
               /\ Accepts(kind, f, history[r.checked].transport)
        /\ pc[p] = "built" =>
               /\ m.binding = r.binding /\ m.checked = r.checked
               /\ m.transport \in DOMAIN history
               /\ \A i \in DOMAIN f.bindings : Resolvable(kind, f.bindings[i])

BuiltInv == \A p \in Nodes : BuiltFrom(p)

\* The operator adds an edition, the earlier ones are what they were.
LEMMA BuiltEdit ==
    ASSUME TypeInv, BuiltInv, Edit
    PROVE  BuiltInv'
  <1>1. PICK s \in Sources : history' = Append(history, s)
    BY DEF Edit
  <1>2. \A n \in DOMAIN history : n \in DOMAIN history' /\ history'[n] = history[n]
    BY <1>1 DEF TypeInv
  <1>3. UNCHANGED <<kind, pc, run>>
    BY DEF Edit
  <1> SUFFICES ASSUME NEW p \in Nodes PROVE BuiltFrom(p)'
    BY DEF BuiltInv
  <1>4. BuiltFrom(p)
    BY DEF BuiltInv
  <1> QED
    BY <1>2, <1>3, <1>4 DEF BuiltFrom

\* A step of one node leaves the others alone.
LEMMA BuiltNode ==
    ASSUME BuiltInv, NEW p \in Nodes, UNCHANGED <<kind, history>>,
           \A q \in Nodes \ {p} : pc'[q] = pc[q] /\ run'[q] = run[q],
           BuiltFrom(p)'
    PROVE  BuiltInv'
  <1> SUFFICES ASSUME NEW q \in Nodes \ {p} PROVE BuiltFrom(q)'
    BY DEF BuiltInv
  <1>1. BuiltFrom(q) /\ pc'[q] = pc[q] /\ run'[q] = run[q]
    BY DEF BuiltInv
  <1> QED
    BY <1>1 DEF BuiltFrom

\* Every step keeps BuiltInv,
LEMMA BuiltStep ==
    ASSUME TypeInv, BuiltInv, [Next]_vars
    PROVE  BuiltInv'
  <1>a. pc \in [Nodes -> Places] /\ run \in [Nodes -> Runs] /\ Now \in DOMAIN history
    BY DEF TypeInv, Now
  <1>1. ASSUME NEW p \in Nodes, Load(p) PROVE BuiltInv'
    <2>1. UNCHANGED <<kind, history>> /\ pc' = [pc EXCEPT ![p] = "loading"]
      BY <1>1 DEF Load, Goto
    <2>2. (\A q \in Nodes \ {p} : run'[q] = run[q]) /\ run'[p].binding = Now
      BY <1>1, <1>a DEF Load, NoRun
    <2>3. BuiltFrom(p)'
      BY <2>1, <2>2, <1>a DEF BuiltFrom
    <2> QED
      BY <2>1, <2>2, <2>3, <1>a, BuiltNode
  <1>2. ASSUME NEW p \in Nodes, CheckBinding(p) PROVE BuiltInv'
    <2>1. UNCHANGED <<kind, history>> /\ run' = [run EXCEPT ![p].checked = Now]
      BY <1>2 DEF CheckBinding
    <2>2. PICK l \in {"loaded", "failed"} :
              /\ pc' = [pc EXCEPT ![p] = l]
              /\ l = "loaded" =>
                    Accepts(kind, history[run[p].binding].binding, history[Now].transport)
      BY <1>2 DEF CheckBinding, Goto, Source
    <2>3. run[p].binding \in DOMAIN history
      BY <1>2 DEF CheckBinding, BuiltInv, BuiltFrom
    <2>4. run'[p].binding = run[p].binding /\ run'[p].checked = Now
      BY <2>1, <1>a DEF Runs
    <2>5. BuiltFrom(p)'
      BY <2>1, <2>2, <2>3, <2>4, <1>a DEF BuiltFrom
    <2> QED
      BY <2>1, <2>2, <2>5, <1>a, BuiltNode
  <1>3. ASSUME NEW p \in Nodes, BuildManifest(p) PROVE BuiltInv'
    <2> DEFINE f == history[run[p].binding].binding
               m == [gen |-> run[p].gen, binding |-> run[p].binding,
                     checked |-> run[p].checked, transport |-> Now]
    <2>1. UNCHANGED <<kind, history>> /\ BuiltFrom(p) /\ pc[p] = "loaded"
      BY <1>3 DEF BuildManifest, BuiltInv
    <2>2. CASE pc' = [pc EXCEPT ![p] = "failed"] /\ run' = run
      <3>1. BuiltFrom(p)'
        BY <2>2, <1>a DEF BuiltFrom
      <3> QED
        BY <2>1, <2>2, <3>1, <1>a, BuiltNode
    <2>3. CASE /\ pc' = [pc EXCEPT ![p] = "built"] /\ run' = [run EXCEPT ![p].manifest = m]
               /\ \A i \in DOMAIN f.bindings : Resolvable(kind, f.bindings[i])
      <3>1. /\ run'[p].manifest = m /\ run'[p].binding = run[p].binding
            /\ run'[p].checked = run[p].checked
        BY <2>3, <1>a DEF Runs
      <3>2. BuiltFrom(p)'
        BY <2>1, <2>3, <3>1, <1>a DEF BuiltFrom
      <3> QED
        BY <2>1, <2>3, <3>2, <1>a, BuiltNode
    <2> QED
      BY <1>3, <2>2, <2>3 DEF BuildManifest, Goto
  <1>4. ASSUME NEW p \in Nodes,
               \/ Kill(p) \/ CreateTemporary(p) \/ WriteTemporary(p) \/ Replace(p) \/ RpcRead(p)
               \/ RpcOpen(p) \/ RpcWrite(p) \/ CheckGenerated(p) \/ Reload(p) \/ Recheck(p)
               \/ Construct(p)
        PROVE BuiltInv'
    <2>1. UNCHANGED <<kind, history>>
      BY <1>4 DEF Kill, CreateTemporary, WriteTemporary, Replace, RpcRead, RpcOpen, RpcWrite,
                  CheckGenerated, Reload, Recheck, Construct
    <2>2. \A q \in Nodes \ {p} : run'[q] = run[q]
      BY <1>4, <1>a DEF Kill, CreateTemporary, WriteTemporary, Replace, RpcRead, RpcOpen, RpcWrite,
                        CheckGenerated, Reload, Recheck, Construct
    <2>3. \E l \in Places \ {"loading", "loaded", "built"} : pc' = [pc EXCEPT ![p] = l]
      <3>1. CASE RpcOpen(p)
        <4>1. pc = [pc EXCEPT ![p] = "rpc"]
          BY <3>1, <1>a DEF RpcOpen
        <4> QED
          BY <3>1, <4>1 DEF RpcOpen, Goto, Places
      <3>2. CASE ~RpcOpen(p)
        BY <1>4, <3>2 DEF Kill, CreateTemporary, WriteTemporary, Replace, RpcRead, RpcWrite,
                  CheckGenerated, Reload, Recheck, Construct, Goto, Places
      <3> QED
        BY <3>1, <3>2
    <2>4. BuiltFrom(p)'
      BY <2>3, <1>a DEF BuiltFrom
    <2> QED
      BY <2>1, <2>2, <2>3, <2>4, <1>a, BuiltNode
  <1>5. CASE UNCHANGED vars
    BY <1>5 DEF vars, BuiltInv, BuiltFrom
  <1> QED
    BY <1>1, <1>2, <1>3, <1>4, <1>5, BuiltEdit DEF Next, Generate

\* which holds initially.
LEMMA BuiltInit == Init => BuiltInv
  BY DEF Init, BuiltInv, BuiltFrom

\* What is accepted refers to endpoints of the transport that fit, and so does what
\* is built from it.
LEMMA AcceptedConnects ==
    ASSUME kind \in {"service", "action"}, NEW f, NEW t, Accepts(kind, f, t)
    PROVE  Connected(Manifest(kind, f, t))
  <1> DEFINE bs == f.bindings
             m == Manifest(kind, f, t)
  <1>1. m.transport = t /\ DOMAIN m.entries = DOMAIN bs
    BY DEF Manifest
  <1>2. ASSUME NEW i \in DOMAIN bs
        PROVE  m.entries[i].client = bs[i].client /\ m.entries[i].server = bs[i].server
    BY DEF Manifest, ManifestEntry
  <1>3. ValidEndpointRefs(kind, bs, t) /\ ValidTransport(kind, t)
    BY DEF Accepts
  <1>4. \A n \in DOMAIN t.endpoints : t.endpoints[n].role \in {"server", "client"}
    <2> SUFFICES ASSUME NEW n \in DOMAIN t.endpoints
                 PROVE  t.endpoints[n].role \in {"server", "client"}
      OBVIOUS
    <2>1. ValidEndpoint(t.endpoints[n])
      BY <1>3, Zenon DEF ValidTransport
    <2> QED
      BY <2>1, Zenon DEF ValidEndpoint
  <1>5. ASSUME NEW i \in DOMAIN bs
        PROVE  /\ {bs[i].client, bs[i].server} \subseteq DOMAIN t.endpoints
               /\ {t.endpoints[bs[i].client].role, t.endpoints[bs[i].server].role}
                      = {"client", "server"}
               /\ kind = "service" => t.endpoints[bs[i].client].role = "client"
    BY <1>3, <1>4 DEF ValidEndpointRefs
  <1> HIDE DEF m, bs
  <1>6. ASSUME NEW i \in DOMAIN m.entries
        PROVE  LET e == m.entries[i]
                   u == m.transport.endpoints
               IN  /\ {e.client, e.server} \subseteq DOMAIN u
                   /\ {u[e.client].role, u[e.server].role} = {"client", "server"}
                   /\ kind = "service" => u[e.client].role = "client"
    <2>1. i \in DOMAIN bs /\ m.transport = t
      BY <1>1
    <2> QED
      BY <2>1, <1>2, <1>5
  <1>7. Connected(m)
    BY <1>6 DEF Connected
  <1> QED
    BY <1>7 DEF m

\* For any binding and transport files, any nodes that share the directory, and any
\* edits: a manifest about to be written refers only to endpoints of the transport
\* in it, in fitting roles, if the transport has not changed between its two reads.
THEOREM BuiltConnected == Spec => []ManifestConnected
  <1>1. TypeInv /\ BuiltInv => ManifestConnected
    <2> SUFFICES ASSUME TypeInv, BuiltInv, NEW p \in Built,
                        LET r == run[p].manifest
                        IN  history[r.checked].transport = history[r.transport].transport
                 PROVE  Connected(ManifestOf(run[p].manifest))
      BY DEF ManifestConnected
    <2> DEFINE r == run[p].manifest
    <2>1. Accepts(kind, history[r.binding].binding, history[r.checked].transport)
      BY DEF Built, BuiltInv, BuiltFrom
    <2>2. kind \in {"service", "action"}
      BY DEF TypeInv
    <2> QED
      BY <2>1, <2>2, AcceptedConnects DEF ManifestOf
  <1> QED
    BY TypeInit, TypeStep, BuiltInit, BuiltStep, <1>1, PTL DEF Spec

\* For any offset files: in the manifest of a Service every packet has room for the
\* last member that its offset file names, and for the header.
THEOREM BuiltRoom == Spec => []ManifestRoom
  <1>1. BuiltInv => ManifestRoom
    <2> SUFFICES ASSUME BuiltInv, NEW p \in Built, kind = "service"
                 PROVE  RoomInPackets(ManifestOf(run[p].manifest).entries)
      BY DEF ManifestRoom
    <2> DEFINE r  == run[p].manifest
               bs == history[r.binding].binding.bindings
               es == ManifestOf(r).entries
    <2>1. \A i \in DOMAIN bs : Resolvable("service", bs[i])
      BY DEF Built, BuiltInv, BuiltFrom
    <2>2. es = [i \in DOMAIN bs |-> ManifestEntry("service", bs[i])]
      BY DEF ManifestOf, Manifest
    <2>3. ManifestOf(r).entries = es
      OBVIOUS
    <2> HIDE DEF es, bs
    <2>4. ASSUME NEW i \in DOMAIN es, NEW d \in {"Request", "Response"},
                 NEW f \in Offsets(<<es[i].type[1], es[i].type[2], d>>)
          PROVE  es[i].packetSize[d] >= f.last.offset
                                        + (IF f.last.varray THEN 8 ELSE f.last.size) + 8
      <3>1. es[i] = ManifestEntry("service", bs[i]) /\ i \in DOMAIN bs
        BY <2>2
      <3>2. es[i].type = PduType(bs[i]) /\ es[i].packetSize[d] = BaseSize(bs[i], d)
        <4>1. es[i].packetSize = [e \in {"Request", "Response"} |-> BaseSize(bs[i], e)]
          BY <3>1 DEF ManifestEntry
        <4>2. es[i].type = PduType(bs[i])
          BY <3>1 DEF ManifestEntry
        <4> QED
          BY <4>1, <4>2
      <3>3. f \in Offsets(Packet(bs[i], d))
        BY <3>2 DEF Packet
      <3>4. f \in OffsetFiles /\ BaseSize(bs[i], d) = PacketSize(f.last)
        BY <2>1, <3>1, <3>3, SizeOfResolved
      <3> QED
        BY <3>2, <3>4, PacketHolds
    <2>5. RoomInPackets(es)
      BY <2>4 DEF RoomInPackets
    <2> QED
      BY <2>3, <2>5
  <1> QED
    BY TypeInit, TypeStep, BuiltInit, BuiltStep, <1>1, PTL DEF Spec

\* Of a name with words, the key is a sequence of them and of empty ones.
LEMMA KeyIsSequence ==
    ASSUME NEW name, name.words \in Seq(STRING), name.words # <<>>
    PROVE  service_key(name) \in Seq(STRING \cup {""})
  <1> DEFINE w == name.words
             n == 2 * Len(w) - 1
             K(i) == IF i % 2 = 1 THEN w[(i + 1) \div 2] ELSE ""
  <1>1. Len(w) \in Nat \ {0}
    BY EmptySeq
  <1>2. n \in Nat
    BY <1>1
  <1>3. ASSUME NEW i \in 1 .. n PROVE K(i) \in STRING \cup {""}
    <2>1. CASE i % 2 = 1
      <3>1. (i + 1) \div 2 \in 1 .. Len(w)
        BY <1>1, <2>1
      <3>2. w[(i + 1) \div 2] \in STRING
        BY <3>1, ElementOfSeq
      <3> QED
        BY <2>1, <3>2
    <2>2. CASE i % 2 # 1
      BY <2>2
    <2> QED
      BY <2>1, <2>2
  <1>4. [i \in 1 .. n |-> K(i)] \in [1 .. n -> STRING \cup {""}]
    BY <1>3
  <1>5. [i \in 1 .. n |-> K(i)] \in Seq(STRING \cup {""})
    <2> DEFINE k == [i \in 1 .. n |-> K(i)]
               S == STRING \cup {""}
    <2>1. k \in [1 .. n -> S]
      BY <1>4
    <2> HIDE DEF k, S, n
    <2>2. k \in Seq(S)
      BY <1>2, <2>1, SeqDef
    <2> QED
      BY <2>2 DEF k, S
  <1>6. w \in Seq(STRING \cup {""})
    BY SeqMonotonic
  <1> QED
    BY <1>5, <1>6 DEF service_key

\* Induction over the natural numbers, for sets: no least number is missing.
LEMMA NatSetInduction ==
    ASSUME NEW T, 0 \in T, \A n \in Nat : n \in T => n + 1 \in T
    PROVE  Nat \subseteq T
  <1> SUFFICES ASSUME Nat \ T # {} PROVE FALSE
    OBVIOUS
  <1> DEFINE R == {ss \in Nat \X Nat : ss[1] < ss[2]}
  <1>1. IsWellFoundedOn(R, Nat)
    BY NatLessThanWellFounded DEF OpToRel
  <1> DEFINE U == Nat \ T
  <1>2. U \subseteq Nat /\ U # {}
    OBVIOUS
  <1> HIDE DEF R, U
  <1>3. PICK x \in U : \A y \in U : <<y, x>> \notin R
    BY <1>1, <1>2, WFMin
  <1>4. x \in Nat \ {0}
    BY DEF U
  <1>5. x - 1 \in Nat /\ <<x - 1, x>> \in R
    BY <1>4 DEF R
  <1>6. x - 1 \in T
    BY <1>3, <1>5 DEF U
  <1>7. x - 1 + 1 \in T
    BY <1>5, <1>6
  <1> QED
    BY <1>4, <1>7 DEF U

\* The digits of n, if f gives those of smaller numbers.
DigitsBy(f, n) == IF n < 10 THEN <<n>> ELSE Append(f[n \div 10], n % 10)

\* f gives the digits of the numbers up to m.
Digits(f, m) == \A n \in 0 .. m : f[n] = DigitsBy(f, n)

\* The rest of a number of several digits is smaller.
LEMMA Shorter ==
    ASSUME NEW n \in Nat, n >= 10
    PROVE  /\ n \div 10 \in Nat /\ n \div 10 < n /\ n \div 10 >= 1 /\ n % 10 \in 0 .. 9
           /\ n = 10 * (n \div 10) + (n % 10)
  OBVIOUS

\* All that matters of f is what it gives for the rest.
LEMMA DigitsByRest ==
    ASSUME NEW f, NEW g, NEW n \in Nat, n >= 10 => f[n \div 10] = g[n \div 10]
    PROVE  DigitsBy(f, n) = DigitsBy(g, n)
  <1>1. CASE n < 10
    BY <1>1 DEF DigitsBy
  <1>2. CASE ~(n < 10)
    <2>1. f[n \div 10] = g[n \div 10]
      BY <1>2
    <2> QED
      BY <1>2, <2>1, Zenon DEF DigitsBy
  <1> QED
    BY <1>1, <1>2

\* Digits are determined,
LEMMA DigitsAgree ==
    ASSUME NEW f, NEW g, NEW m \in Nat, NEW k \in Nat, Digits(f, m), Digits(g, k)
    PROVE  \A n \in Nat : n <= m /\ n <= k => f[n] = g[n]
  <1> DEFINE T == {i \in Nat : \A n \in 0 .. i : n <= m /\ n <= k => f[n] = g[n]}
  <1>1. ASSUME NEW n \in Nat, n <= m, n <= k, n >= 10 => f[n \div 10] = g[n \div 10]
        PROVE  f[n] = g[n]
    BY <1>1, DigitsByRest DEF Digits
  <1>2. 0 \in T
    BY <1>1
  <1>3. ASSUME NEW i \in Nat, i \in T PROVE i + 1 \in T
    <2> SUFFICES ASSUME NEW n \in 0 .. i + 1, n <= m, n <= k PROVE f[n] = g[n]
      OBVIOUS
    <2>1. n >= 10 => n \div 10 \in 0 .. i /\ n \div 10 <= m /\ n \div 10 <= k
      BY Shorter
    <2> QED
      BY <1>1, <1>3, <2>1
  <1> HIDE DEF T
  <1>4. Nat \subseteq T
    BY <1>2, <1>3, NatSetInduction
  <1> QED
    BY <1>4 DEF T

\* and exist for the numbers up to m.
LEMMA DigitsExist ==
    ASSUME NEW m \in Nat
    PROVE  \E f : Digits(f, m)
  <1> DEFINE T == {i \in Nat : \E f : Digits(f, i)}
  <1>1. 0 \in T
    <2> DEFINE f == [n \in 0 .. 0 |-> DigitsBy(<<>>, n)]
    <2>1. f[0] = DigitsBy(f, 0)
      BY DigitsByRest
    <2> HIDE DEF f
    <2>2. Digits(f, 0)
      BY <2>1 DEF Digits
    <2> QED
      BY <2>2
  <1>2. ASSUME NEW i \in Nat, i \in T PROVE i + 1 \in T
    <2>1. PICK f : Digits(f, i)
      BY <1>2
    <2> DEFINE g == [n \in 0 .. i + 1 |-> DigitsBy(f, n)]
    <2>2. ASSUME NEW n \in 0 .. i PROVE g[n] = f[n]
      BY <2>1 DEF Digits
    <2>3. ASSUME NEW n \in 0 .. i + 1 PROVE g[n] = DigitsBy(f, n)
      OBVIOUS
    <2> HIDE DEF g
    <2>4. ASSUME NEW n \in 0 .. i + 1 PROVE g[n] = DigitsBy(g, n)
      <3>1. n >= 10 => g[n \div 10] = f[n \div 10]
        BY <2>2, Shorter
      <3>2. DigitsBy(f, n) = DigitsBy(g, n)
        BY <3>1, DigitsByRest
      <3> QED
        BY <2>3, <3>2
    <2>5. Digits(g, i + 1)
      BY <2>4 DEF Digits
    <2> QED
      BY <2>5
  <1> HIDE DEF T
  <1>3. Nat \subseteq T
    BY <1>1, <1>2, NatSetInduction
  <1> QED
    BY <1>3 DEF T

\* So the recursive function is defined on all of them.
LEMMA DecimalDef ==
    ASSUME NEW n \in Nat
    PROVE  /\ n < 10 => Decimal[n] = <<n>>
           /\ n >= 10 => Decimal[n] = Append(Decimal[n \div 10], n % 10)
  <1> DEFINE c(m) == CHOOSE f : Digits(f, m)
             d == [m \in Nat |-> c(m)[m]]
             Is(f) == f = [m \in Nat |-> DigitsBy(f, m)]
  <1>1. ASSUME NEW m \in Nat PROVE Digits(c(m), m)
    BY DigitsExist
  <1> HIDE DEF c
  <1>2. ASSUME NEW m \in Nat PROVE d[m] = DigitsBy(d, m)
    <2>1. d[m] = DigitsBy(c(m), m)
      BY <1>1 DEF Digits
    <2>2. ASSUME m >= 10 PROVE c(m)[m \div 10] = d[m \div 10]
      <3>1. m \div 10 \in Nat /\ m \div 10 <= m
        BY <2>2, Shorter
      <3>2. c(m)[m \div 10] = c(m \div 10)[m \div 10]
        BY <1>1, <3>1, DigitsAgree
      <3> QED
        BY <3>1, <3>2
    <2> QED
      BY <2>1, <2>2, DigitsByRest
  <1>3. Is(d)
    <2> DEFINE e == [m \in Nat |-> DigitsBy(d, m)]
    <2>1. \A m \in Nat : d[m] = e[m]
      BY <1>2
    <2> QED
      BY <2>1
  <1> HIDE DEF d
  <1>4. Is(Decimal)
    <2>1. Decimal = CHOOSE f : Is(f)
      BY Zenon DEF Decimal, DigitsBy
    <2> HIDE DEF Is
    <2> QED
      BY <1>3, <2>1
  <1>5. Decimal[n] = DigitsBy(Decimal, n)
    BY <1>4
  <1>6. n < 10 => DigitsBy(Decimal, n) = <<n>>
    BY Zenon DEF DigitsBy
  <1>7. n >= 10 => DigitsBy(Decimal, n) = Append(Decimal[n \div 10], n % 10)
    <2>1. n >= 10 => ~(n < 10)
      OBVIOUS
    <2> QED
      BY <2>1, Zenon DEF DigitsBy
  <1> QED
    BY <1>5, <1>6, <1>7

\* Decimal of BindingFile: a number has one digit at least, and
LEMMA DecimalIsSequence ==
    ASSUME NEW n \in Nat
    PROVE  Decimal[n] \in Seq(Nat) \ {<<>>}
  <1> DEFINE T == {i \in Nat : \A m \in 0 .. i : Decimal[m] \in Seq(Nat) \ {<<>>}}
  <1>1. ASSUME NEW m \in Nat, m < 10 PROVE Decimal[m] \in Seq(Nat) \ {<<>>}
    <2>1. <<m>> \in Seq(Nat) \ {<<>>}
      OBVIOUS
    <2> QED
      BY <1>1, <2>1, DecimalDef, Zenon
  <1>2. 0 \in T
    BY <1>1
  <1>3. ASSUME NEW i \in Nat, i \in T PROVE i + 1 \in T
    <2> SUFFICES ASSUME NEW m \in 0 .. i + 1, m >= 10 PROVE Decimal[m] \in Seq(Nat) \ {<<>>}
      BY <1>1
    <2>1. m \div 10 \in 0 .. i /\ m % 10 \in Nat /\ m \in Nat
      BY Shorter
    <2>2. Decimal[m \div 10] \in Seq(Nat)
      BY <1>3, <2>1
    <2>3. Append(Decimal[m \div 10], m % 10) \in Seq(Nat) \ {<<>>}
      BY <2>1, <2>2, AppendProperties
    <2> QED
      BY <2>1, <2>3, DecimalDef, Zenon
  <1> HIDE DEF T
  <1>4. Nat \subseteq T
    BY <1>2, <1>3, NatSetInduction
  <1>5. n \in T /\ n \in 0 .. n
    BY <1>4
  <1> QED
    BY <1>5, Zenon DEF T

\* different numbers have different digits.
LEMMA DecimalInjective ==
    ASSUME NEW n \in Nat, NEW m \in Nat, Decimal[n] = Decimal[m]
    PROVE  n = m
  <1> DEFINE T == {i \in Nat : \A a, b \in 0 .. i : Decimal[a] = Decimal[b] => a = b}
  <1>1. ASSUME NEW a \in Nat, a < 10 PROVE Len(Decimal[a]) = 1 /\ Decimal[a][1] = a
    <2>1. Decimal[a] = <<a>>
      BY <1>1, DecimalDef, Zenon
    <2> QED
      BY <2>1
  <1>2. ASSUME NEW b \in Nat, b >= 10
        PROVE  /\ Decimal[b \div 10] \in Seq(Nat) /\ Len(Decimal[b]) > 1
               /\ Decimal[b] = Append(Decimal[b \div 10], b % 10)
    <2>1. b \div 10 \in Nat /\ b % 10 \in Nat
      BY <1>2, Shorter
    <2>2. Decimal[b] = Append(Decimal[b \div 10], b % 10)
      BY <1>2, DecimalDef, Zenon
    <2> DEFINE s == Decimal[b \div 10]
               x == b % 10
    <2>3. s \in Seq(Nat) \ {<<>>} /\ x \in Nat /\ Decimal[b] = Append(s, x)
      BY <2>1, <2>2, DecimalIsSequence
    <2> HIDE DEF s, x
    <2>4. Len(s) \in Nat \ {0} /\ Len(Append(s, x)) = Len(s) + 1
      BY <2>3, EmptySeq, LenProperties, AppendProperties
    <2>5. Len(Decimal[b]) > 1
      BY <2>3, <2>4
    <2> QED
      BY <2>2, <2>3, <2>5 DEF s
  <1>3. 0 \in T
    OBVIOUS
  <1>4. ASSUME NEW i \in Nat, i \in T PROVE i + 1 \in T
    <2> SUFFICES ASSUME NEW a \in 0 .. i + 1, NEW b \in 0 .. i + 1, Decimal[a] = Decimal[b]
                 PROVE  a = b
      OBVIOUS
    <2>a. a \in Nat /\ b \in Nat
      OBVIOUS
    <2>b. Len(Decimal[a]) = Len(Decimal[b]) /\ Decimal[a][1] = Decimal[b][1]
      OBVIOUS
    <2>1. CASE a < 10 \/ b < 10
      <3>1. CASE a < 10 /\ b < 10
        <4>1. Decimal[a][1] = a /\ Decimal[b][1] = b
          BY <1>1, <2>a, <3>1
        <4> QED
          BY <4>1, <2>b
      <3>2. CASE a < 10 /\ b >= 10
        <4>1. Len(Decimal[a]) = 1 /\ Len(Decimal[b]) > 1
          BY <1>1, <1>2, <2>a, <3>2
        <4> QED
          BY <4>1, <2>b
      <3>3. CASE a >= 10 /\ b < 10
        <4>1. Len(Decimal[b]) = 1 /\ Len(Decimal[a]) > 1
          BY <1>1, <1>2, <2>a, <3>3
        <4> QED
          BY <4>1, <2>b
      <3> QED
        BY <2>1, <2>a, <3>1, <3>2, <3>3
    <2>2. CASE a >= 10 /\ b >= 10
      <3>1. /\ a \div 10 \in 0 .. i /\ b \div 10 \in 0 .. i /\ a % 10 \in Nat /\ b % 10 \in Nat
            /\ a = 10 * (a \div 10) + (a % 10) /\ b = 10 * (b \div 10) + (b % 10)
        BY <2>2, Shorter
      <3> DEFINE s == Decimal[a \div 10]
                 t == Decimal[b \div 10]
                 x == a % 10
                 y == b % 10
      <3>2. s \in Seq(Nat) /\ t \in Seq(Nat) /\ x \in Nat /\ y \in Nat /\ Append(s, x) = Append(t, y)
        <4>1. s \in Seq(Nat) /\ Decimal[a] = Append(s, x)
          BY <1>2, <2>2, <2>a
        <4>2. t \in Seq(Nat) /\ Decimal[b] = Append(t, y)
          BY <1>2, <2>2, <2>a
        <4> QED
          BY <4>1, <4>2, <3>1, Zenon
      <3> HIDE DEF s, t, x, y
      <3>3. s = t /\ x = y
        BY <3>2, AppendInjective
      <3>4. a \div 10 = b \div 10
        BY <1>4, <3>1, <3>3 DEF s, t
      <3> QED
        BY <3>1, <3>3, <3>4 DEF x, y
    <2> QED
      BY <2>1, <2>2
  <1> HIDE DEF T
  <1>5. Nat \subseteq T
    BY <1>3, <1>4, NatSetInduction
  <1>6. (IF n < m THEN m ELSE n) \in T
    BY <1>5
  <1> QED
    BY <1>6 DEF T

\* A client name determines its prefix and its number.
LEMMA PrefixesApart ==
    ASSUME NEW S, NEW s \in Seq(S), NEW t \in Seq(S), NEW x, NEW y, s \o <<x>> = t \o <<y>>
    PROVE  s = t /\ x = y
  <1> DEFINE R == S \cup {x, y}
             a == <<x>>
             b == <<y>>
  <1>1. s \in Seq(R) /\ t \in Seq(R)
    BY SeqMonotonic
  <1>2. a \in Seq(R) /\ b \in Seq(R) /\ Len(a) = 1 /\ Len(b) = 1 /\ a[1] = x /\ b[1] = y
    OBVIOUS
  <1>3. s \o a = t \o b
    OBVIOUS
  <1> HIDE DEF R, a, b
  <1>4. Len(s) = Len(t)
    <2>1. Len(s) + 1 = Len(t) + 1
      BY <1>1, <1>2, <1>3, ConcatProperties
    <2>2. Len(s) \in Nat /\ Len(t) \in Nat
      BY <1>1, LenProperties
    <2> QED
      BY <2>1, <2>2
  <1>5. ASSUME NEW i \in 1 .. Len(s) PROVE s[i] = t[i]
    <2>1. Len(s) \in Nat
      BY <1>1, LenProperties
    <2>2. i \in 1 .. Len(s) + 1 /\ i <= Len(s)
      BY <2>1
    <2>3. (s \o a)[i] = s[i] /\ (t \o b)[i] = t[i]
      BY <1>1, <1>2, <1>4, <2>2, ConcatProperties
    <2> QED
      BY <2>3, <1>3
  <1>6. s = t
    BY <1>1, <1>4, <1>5, SeqEqual
  <1>7. a[1] = b[1]
    <2>1. Len(s) \in Nat
      BY <1>1, LenProperties
    <2> DEFINE k == Len(s) + 1
    <2>2. k \in 1 .. Len(s) + 1 /\ k - Len(s) = 1 /\ ~(k <= Len(s))
      BY <2>1
    <2>3. (s \o a)[k] = a[k - Len(s)]
      BY <1>1, <1>2, <2>2, ConcatProperties
    <2>4. (t \o b)[k] = b[k - Len(s)]
      BY <1>1, <1>2, <1>4, <2>2, ConcatProperties
    <2> HIDE DEF k
    <2> QED
      BY <2>2, <2>3, <2>4, <1>3
  <1> QED
    BY <1>2, <1>6, <1>7

\* For any names, of which some may differ in their capital letters and underscores
\* only: no RPC client name of one service of a manifest is one of another service.
THEOREM BuiltApart == Spec => []ManifestApart
  <1>1. TypeInv /\ BuiltInv => ManifestApart
    <2> SUFFICES ASSUME TypeInv, BuiltInv, NEW p \in Built, kind = "service"
                 PROVE  ServicesApart(ManifestOf(run[p].manifest).entries)
      BY DEF ManifestApart
    <2> DEFINE r  == run[p].manifest
               bs == history[r.binding].binding.bindings
               es == ManifestOf(r).entries
    <2>1. /\ UniqueBindings("service", bs)
          /\ \A i \in DOMAIN bs : bs[i].name.words \in Seq(STRING)
      <3>1. /\ r.binding \in DOMAIN history
            /\ Accepts(kind, history[r.binding].binding, history[r.checked].transport)
        BY DEF Built, BuiltInv, BuiltFrom
      <3>2. history[r.binding] \in Initials \cup Sources
        BY <3>1 DEF TypeInv
      <3> QED
        BY <3>1, <3>2, ConfigAssumption DEF Accepts
    <2>2. es = [i \in DOMAIN bs |-> ManifestEntry("service", bs[i])]
      BY DEF ManifestOf, Manifest
    <2>3. ManifestOf(r).entries = es
      OBVIOUS
    <2> HIDE DEF es, bs
    <2>4. ASSUME NEW i \in DOMAIN bs PROVE es[i].prefix = service_key(bs[i].name)
      BY <2>2 DEF ManifestEntry
    <2>5. ASSUME NEW i \in DOMAIN bs PROVE service_key(bs[i].name) \in Seq(STRING \cup {""})
      BY <2>1, KeyIsSequence DEF UniqueBindings
    <2>6. ASSUME NEW i \in DOMAIN bs, NEW j \in DOMAIN bs,
                 service_key(bs[i].name) = service_key(bs[j].name)
          PROVE  i = j
      BY <2>1, <2>6 DEF UniqueBindings, IsInjective
    <2>7. ASSUME NEW i \in DOMAIN es, NEW j \in DOMAIN es,
                 NEW x \in ClientNames(es[i]), x \in ClientNames(es[j])
          PROVE  i = j
      <3>1. PICK a, b : x = ClientName(es[i], a) /\ x = ClientName(es[j], b)
        BY <2>7 DEF ClientNames
      <3>2. i \in DOMAIN bs /\ j \in DOMAIN bs
        BY <2>2
      <3>3. service_key(bs[i].name) \o <<Decimal[a]>> = service_key(bs[j].name) \o <<Decimal[b]>>
        BY <3>1, <3>2, <2>4 DEF ClientName
      <3>4. service_key(bs[i].name) = service_key(bs[j].name)
        <4> DEFINE u == service_key(bs[i].name)
                   v == service_key(bs[j].name)
                   S == STRING \cup {""}
                   s == Decimal[a]
                   t == Decimal[b]
        <4>1. u \in Seq(S) /\ v \in Seq(S) /\ u \o <<s>> = v \o <<t>>
          BY <3>2, <3>3, <2>5
        <4> HIDE DEF u, v, S, s, t
        <4>2. u = v
          BY <4>1, PrefixesApart
        <4> QED
          BY <4>2 DEF u, v
      <3> QED
        BY <3>2, <3>4, <2>6
    <2>8. ServicesApart(es)
      BY <2>7 DEF ServicesApart
    <2> QED
      BY <2>3, <2>8
  <1> QED
    BY TypeInit, TypeStep, BuiltInit, BuiltStep, <1>1, PTL DEF Spec

\* The clients of one service have as many names as there are clients.
LEMMA ClientsApart ==
    ASSUME NEW S, NEW e, e.prefix \in Seq(S), e.capacity \in Int, e.capacity > 0
    PROVE  Cardinality(ClientNames(e)) = e.capacity
  <1> DEFINE n == e.capacity
             D == 0 .. n - 1
             C == ClientNames(e)
             g == [i \in D |-> ClientName(e, i)]
  <1>1. ASSUME NEW i \in D, NEW j \in D, g[i] = g[j] PROVE i = j
    <2>1. i \in Nat /\ j \in Nat
      OBVIOUS
    <2> DEFINE u == e.prefix
               x == Decimal[i]
               y == Decimal[j]
    <2>2. u \o <<x>> = u \o <<y>> /\ u \in Seq(S)
      BY <1>1 DEF ClientName
    <2> HIDE DEF u, x, y
    <2>3. x = y
      BY <2>2, PrefixesApart
    <2> QED
      BY <2>1, <2>3, DecimalInjective DEF x, y
  <1>2. g \in Bijection(D, C)
    <2>1. C = {g[i] : i \in D}
      BY DEF ClientNames
    <2>2. g \in [D -> C] /\ \A c \in C : \E i \in D : g[i] = c
      BY <2>1
    <2> HIDE DEF g, C, D
    <2> QED
      BY <1>1, <2>2 DEF Bijection, Injection, Surjection, IsInjective
  <1>3. IsFiniteSet(D) /\ Cardinality(D) = n
    <2>1. n - 1 \in Int /\ 0 \in Int /\ ~(0 > n - 1) /\ n - 1 - 0 + 1 = n
      OBVIOUS
    <2> HIDE DEF n
    <2> QED
      BY <2>1, FS_Interval
  <1>4. ExistsBijection(D, C)
    BY <1>2 DEF ExistsBijection
  <1> HIDE DEF D, C, g, n
  <1>5. Cardinality(C) = n
    BY <1>3, <1>4, FS_Bijection
  <1> QED
    BY <1>5 DEF C, n

\* What a generator is about to write can be used, for every binding file, every
\* edit of the sources and every interleaving: no two RPC clients have the same
\* name, every packet is large enough, and the endpoints are declared.
THEOREM BuiltUsable == Spec => []ManifestUsable
  <1>1. TypeInv /\ BuiltInv /\ ManifestApart /\ ManifestRoom /\ ManifestConnected => ManifestUsable
    <2> SUFFICES ASSUME TypeInv, BuiltInv, ManifestApart, NEW p \in Built, kind = "service"
                 PROVE  DistinctClients(ManifestOf(run[p].manifest).entries)
      BY DEF ManifestUsable
    <2> DEFINE r  == run[p].manifest
               bs == history[r.binding].binding.bindings
               es == ManifestOf(r).entries
    <2>1. ServicesApart(es)
      BY DEF ManifestApart
    <2>2. /\ UniqueBindings("service", bs)
          /\ \A i \in DOMAIN bs : /\ bs[i].name.words \in Seq(STRING)
                                  /\ bs[i].capacity \in Int /\ bs[i].capacity > 0
      <3>1. /\ r.binding \in DOMAIN history
            /\ Accepts(kind, history[r.binding].binding, history[r.checked].transport)
        BY DEF Built, BuiltInv, BuiltFrom
      <3>2. history[r.binding] \in Initials \cup Sources
        BY <3>1 DEF TypeInv
      <3> QED
        BY <3>1, <3>2, ConfigAssumption DEF Accepts, ValidBinding
    <2>3. es = [i \in DOMAIN bs |-> ManifestEntry("service", bs[i])]
      BY DEF ManifestOf, Manifest
    <2> HIDE DEF es, bs
    <2>4. ASSUME NEW i \in DOMAIN bs
          PROVE  /\ es[i].prefix = service_key(bs[i].name)
                 /\ es[i].capacity = bs[i].capacity
      BY <2>3 DEF ManifestEntry
    <2>5. ASSUME NEW i \in DOMAIN bs PROVE service_key(bs[i].name) \in Seq(STRING \cup {""})
      BY <2>2, KeyIsSequence DEF UniqueBindings
    <2>6. ASSUME NEW i \in DOMAIN es PROVE Cardinality(ClientNames(es[i])) = es[i].capacity
      <3>1. i \in DOMAIN bs
        BY <2>3
      <3> DEFINE e == es[i]
      <3>2. e.prefix \in Seq(STRING \cup {""}) /\ e.capacity \in Int /\ e.capacity > 0
        BY <3>1, <2>2, <2>4, <2>5
      <3> HIDE DEF e
      <3>3. Cardinality(ClientNames(e)) = e.capacity
        BY <3>2, ClientsApart
      <3> QED
        BY <3>3 DEF e
    <2>7. DistinctClients(es)
      BY <2>1, <2>6 DEF DistinctClients
    <2> QED
      BY <2>7 DEF es
  <1> QED
    BY TypeInit, TypeStep, BuiltInit, BuiltStep, BuiltApart, BuiltRoom, BuiltConnected, <1>1,
       PTL DEF Spec

-----------------------------------------------------------------------------
(***************************************************************************)
(* A node serves what its own row of generations has written: what an      *)
(* earlier one left in the directory does not reach it.                    *)
(***************************************************************************)
\* A generation that is as recent as the row of every node that is starting.
Recent(n) == \A r \in Nodes : Starting(r) => run[r].since <= n

\* The native generator runs; and it has run.
Reading == {"rpc", "rpcwriting"}
Filed   == {"generated", "reloading", "reloaded"}

\* What keeps the files of the past away from a node p ...
FreshOf(p) ==
    /\ Starting(p) => run[p].gen <= gens /\ Recent(run[p].gen)
    /\ pc[p] \in {"built", "writing"} => run[p].manifest.gen = run[p].gen
    /\ pc[p] = "written" => temp[p].gen = run[p].gen
    /\ pc[p] = "replaced" => Recent(dir["manifest"].gen)
    /\ pc[p] \in Reading => Recent(run[p].manifest.gen)
    /\ pc[p] \in Filed => run[p].next > Len(Generated[kind])
    /\ ~omitted /\ pc[p] \in Reading \cup Filed =>
           \A i \in DOMAIN Generated[kind] : i < run[p].next =>
               LET c == dir[Generated[kind][i]]
               IN  c \in Manifests => run[p].since <= c.gen
    /\ ~omitted /\ pc[p] = "serving" => \A c \in opened[p] : c.gen >= run[p].since

\* ... and from all of them.
FreshInv ==
    /\ opened \in [Nodes -> SUBSET Contents]
    /\ \A p \in Nodes : FreshOf(p)

\* What a step of node a, other than the start of its generation, leaves alone.
NodeActs(a) ==
    \/ CheckBinding(a) \/ BuildManifest(a) \/ CreateTemporary(a) \/ WriteTemporary(a)
    \/ Replace(a) \/ RpcRead(a) \/ RpcOpen(a) \/ RpcWrite(a) \/ CheckGenerated(a)
    \/ Reload(a) \/ Recheck(a) \/ Construct(a) \/ Kill(a)

\* It is the step of a node that is starting, and disturbs no source file.
LEMMA ActsStarting ==
    ASSUME NEW a \in Nodes, NodeActs(a)
    PROVE  /\ Starting(a)
           /\ UNCHANGED <<kind, history, gens>>
           /\ faults' = faults \/ faults' = faults + 1
           /\ omitted => omitted'
  <1>1. Starting(a)
    BY DEF NodeActs, CheckBinding, BuildManifest, CreateTemporary, WriteTemporary, Replace,
           RpcRead, RpcOpen, RpcWrite, CheckGenerated, Reload, Recheck, Construct, Kill,
           Starting, Idle
  <1>2. UNCHANGED <<kind, history, gens>>
    BY DEF NodeActs, CheckBinding, BuildManifest, CreateTemporary, WriteTemporary, Replace,
           RpcRead, RpcOpen, RpcWrite, CheckGenerated, Reload, Recheck, Construct, Kill
  <1>3. faults' = faults \/ faults' = faults + 1
    BY DEF NodeActs, CheckBinding, BuildManifest, CreateTemporary, WriteTemporary, Replace,
           RpcRead, RpcOpen, RpcWrite, CheckGenerated, Reload, Recheck, Construct, Kill, Fault
  <1>4. omitted => omitted'
    BY Zenon DEF NodeActs, CheckBinding, BuildManifest, CreateTemporary, WriteTemporary, Replace,
           RpcRead, RpcOpen, RpcWrite, CheckGenerated, Reload, Recheck, Construct, Kill
  <1> QED
    BY <1>1, <1>2, <1>3, <1>4

\* The other nodes are where they were.
LEMMA ActsAlone ==
    ASSUME TypeInv, opened \in [Nodes -> SUBSET Contents],
           NEW a \in Nodes, NodeActs(a), NEW q \in Nodes, q # a
    PROVE  pc'[q] = pc[q] /\ run'[q] = run[q] /\ temp'[q] = temp[q] /\ opened'[q] = opened[q]
  <1>a. pc \in [Nodes -> Places] /\ run \in [Nodes -> Runs] /\ temp \in [Nodes -> Contents]
    BY DEF TypeInv
  <1>1. pc'[q] = pc[q]
    BY <1>a DEF NodeActs, CheckBinding, BuildManifest, CreateTemporary, WriteTemporary, Replace,
           RpcRead, RpcOpen, RpcWrite, CheckGenerated, Reload, Recheck, Construct, Kill, Goto
  <1>2. run'[q] = run[q]
    BY <1>a DEF NodeActs, CheckBinding, BuildManifest, CreateTemporary, WriteTemporary, Replace,
           RpcRead, RpcOpen, RpcWrite, CheckGenerated, Reload, Recheck, Construct, Kill
  <1>3. temp'[q] = temp[q]
    BY <1>a DEF NodeActs, CheckBinding, BuildManifest, CreateTemporary, WriteTemporary, Replace,
           RpcRead, RpcOpen, RpcWrite, CheckGenerated, Reload, Recheck, Construct, Kill
  <1>4. opened'[q] = opened[q]
    <2>1. CASE Construct(a)
      BY <2>1, Zenon DEF Construct
    <2>2. CASE opened' = opened
      BY <2>2
    <2>3. Construct(a) \/ opened' = opened
      BY DEF NodeActs, CheckBinding, BuildManifest, CreateTemporary, WriteTemporary, Replace,
             RpcRead, RpcOpen, RpcWrite, CheckGenerated, Reload, Recheck, Kill
    <2> QED
      BY <2>1, <2>2, <2>3
  <1> QED
    BY <1>1, <1>2, <1>3, <1>4

\* The generation of the node is the one it was started for.
LEMMA ActsKeep ==
    ASSUME TypeInv, NEW a \in Nodes, NodeActs(a)
    PROVE  /\ run'[a].gen = run[a].gen /\ run'[a].since = run[a].since
           /\ run'[a].edits = run[a].edits /\ run'[a].faults = run[a].faults
           /\ run'[a].binding = run[a].binding
  <1>a. run \in [Nodes -> Runs] /\ run[a] \in Runs
    BY DEF TypeInv
  <1>1. CASE run' = run
    BY <1>1
  <1>2. CASE RpcRead(a)
    <2>1. run' = [run EXCEPT ![a] = [run[a] EXCEPT !.manifest = dir["manifest"], !.next = 1]]
      BY <1>2, <1>a DEF RpcRead
    <2> QED
      BY <2>1, <1>a DEF Runs
  <1>3. CASE \/ \E n \in Nat : run' = [run EXCEPT ![a].checked = n]
             \/ \E m \in Manifests : run' = [run EXCEPT ![a].manifest = m]
             \/ \E n \in Nat : run' = [run EXCEPT ![a].next = n]
             \/ \E n \in Nat : run' = [run EXCEPT ![a].again = n]
    BY <1>3, <1>a DEF Runs
  <1>4. Now \in Nat /\ run[a].next + 1 \in Nat
    BY <1>a DEF TypeInv, Now, Runs
  <1>5. CASE BuildManifest(a)
    <2> DEFINE m == [gen |-> run[a].gen, binding |-> run[a].binding,
                     checked |-> run[a].checked, transport |-> Now]
    <2>1. m \in Manifests
      BY <1>a, <1>4 DEF Manifests, Runs
    <2>2. run' = run \/ run' = [run EXCEPT ![a].manifest = m]
      BY <1>5 DEF BuildManifest
    <2> QED
      BY <2>1, <2>2, <1>1, <1>3
  <1>6. CASE CheckBinding(a)
    BY <1>6, <1>4, <1>3 DEF CheckBinding
  <1>7. CASE Reload(a)
    BY <1>7, <1>4, <1>3 DEF Reload
  <1>8. CASE RpcOpen(a) \/ RpcWrite(a)
    <2>1. run' = run \/ run' = [run EXCEPT ![a].next = run[a].next + 1]
      BY <1>8, <1>a DEF RpcOpen, RpcWrite
    <2> QED
      BY <2>1, <1>4, <1>1, <1>3
  <1>9. CASE \/ CreateTemporary(a) \/ WriteTemporary(a) \/ Replace(a) \/ CheckGenerated(a)
             \/ Recheck(a) \/ Construct(a) \/ Kill(a)
    BY <1>9, <1>1 DEF CreateTemporary, WriteTemporary, Replace, CheckGenerated, Recheck,
                      Construct, Kill
  <1> QED
    BY <1>2, <1>5, <1>6, <1>7, <1>8, <1>9 DEF NodeActs

\* A node that starts begins a row of its own, unless a node that is starting
\* already has begun an older one.
LEMMA LoadFacts ==
    ASSUME TypeInv, NEW a \in Nodes, Load(a)
    PROVE  /\ gens' = gens + 1 /\ pc' = [pc EXCEPT ![a] = "loading"]
           /\ pc[a] \in {"off", "failed"}
           /\ UNCHANGED <<kind, history, dir, temp, opened, faults, omitted>>
           /\ \A q \in Nodes \ {a} : run'[q] = run[q]
           /\ run'[a].gen = gens' /\ run'[a].binding = Now
           /\ run'[a].since \in Nat
           /\ \A r \in Nodes : Starting(r) => run'[a].since <= run[r].since
           /\ \/ run'[a].since = gens'
              \/ \E r \in Nodes : Starting(r) /\ run'[a].since = run[r].since
  <1>a. run \in [Nodes -> Runs] /\ gens \in Nat
    BY DEF TypeInv
  <1> DEFINE others == {run[q].since : q \in {r \in Nodes : Starting(r)}}
  <1>1. PICK g \in others \cup {gens'} :
            /\ \A h \in others : g <= h
            /\ run' = [run EXCEPT ![a] =
                          [NoRun EXCEPT !.gen = gens', !.binding = Now, !.edits = Now,
                                        !.faults = faults, !.since = g]]
    BY DEF Load
  <1>2. gens' = gens + 1
    BY DEF Load
  <1>3. others \subseteq Nat
    BY <1>a DEF Runs
  <1>4. run'[a].gen = gens' /\ run'[a].binding = Now /\ run'[a].since = g
    BY <1>1, <1>a DEF NoRun
  <1>5. \A q \in Nodes \ {a} : run'[q] = run[q]
    BY <1>1, <1>a
  <1>6. g \in Nat
    BY <1>2, <1>3, <1>a
  <1>7. UNCHANGED <<kind, history, dir, temp, opened, faults, omitted>>
    BY DEF Load
  <1>8. pc' = [pc EXCEPT ![a] = "loading"] /\ pc[a] \in {"off", "failed"}
    BY DEF Load, Goto
  <1>9. \A r \in Nodes : Starting(r) => g <= run[r].since
    BY <1>1
  <1>10. g = gens' \/ \E r \in Nodes : Starting(r) /\ g = run[r].since
    BY <1>1
  <1> QED
    BY <1>2, <1>4, <1>5, <1>6, <1>7, <1>8, <1>9, <1>10

\* What is recent remains so: nodes that start later join the row of a node that is
\* still starting, or come after it.
LEMMA RecentStays ==
    ASSUME TypeInv, opened \in [Nodes -> SUBSET Contents], [Next]_vars,
           NEW n \in Nat, Recent(n), NEW q \in Nodes, Starting(q)
    PROVE  Recent(n)'
  <1> SUFFICES ASSUME NEW r \in Nodes, Starting(r)' PROVE run'[r].since <= n
    BY DEF Recent
  <1>a. pc \in [Nodes -> Places] /\ run \in [Nodes -> Runs]
    BY DEF TypeInv
  <1>1. ASSUME NEW a \in Nodes, NodeActs(a) PROVE run'[r].since <= n
    <2>1. CASE r = a
      BY <2>1, <1>1, ActsStarting, ActsKeep DEF Recent
    <2>2. CASE r # a
      <3>1. pc'[r] = pc[r] /\ run'[r] = run[r]
        BY <2>2, <1>1, ActsAlone
      <3> QED
        BY <3>1 DEF Recent, Starting
    <2> QED
      BY <2>1, <2>2
  <1>2. ASSUME NEW a \in Nodes, Load(a) PROVE run'[r].since <= n
    <2>1. CASE r = a
      <3>1. run'[a].since <= run[q].since /\ run[q].since <= n /\ run'[a].since \in Nat
        BY <1>2, LoadFacts DEF Recent
      <3>2. run[q].since \in Nat
        BY <1>a DEF Runs
      <3> QED
        BY <2>1, <3>1, <3>2
    <2>2. CASE r # a
      <3>1. run'[r] = run[r] /\ pc' = [pc EXCEPT ![a] = "loading"]
        BY <2>2, <1>2, LoadFacts
      <3>2. pc'[r] = pc[r]
        BY <2>2, <3>1, <1>a
      <3> QED
        BY <3>1, <3>2 DEF Recent, Starting
    <2> QED
      BY <2>1, <2>2
  <1>3. CASE Edit \/ UNCHANGED vars
    <2>1. pc' = pc /\ run' = run
      BY <1>3 DEF Edit, vars
    <2> QED
      BY <2>1 DEF Recent, Starting
  <1> QED
    BY <1>1, <1>2, <1>3 DEF Next, Generate, NodeActs

\* A step of another node puts only whole, recent manifests and torn files in the
\* directory.
LEMMA FreshOther ==
    ASSUME TypeInv, WholeInv, TypeInv', FreshInv, [Next]_vars, NEW p \in Nodes,
           pc'[p] = pc[p], run'[p] = run[p], temp'[p] = temp[p], opened'[p] = opened[p],
           kind' = kind, gens <= gens', omitted => omitted',
           dir'["manifest"] # Torn,
           \A f \in Files : \/ dir'[f] \in {dir[f], Torn}
                            \/ dir'[f] \in Manifests /\ Recent(dir'[f].gen)
    PROVE  FreshOf(p)'
  <1>a. /\ run[p] \in Runs /\ gens \in Nat /\ gens' \in Nat /\ temp[p] \in Contents
        /\ dir \in [Files -> Contents] /\ "manifest" \in Files
        /\ kind \in {"service", "action"} /\ FreshOf(p)
    BY DEF TypeInv, Files, FreshInv
  <1>b. Torn \notin Manifests /\ NoFile \notin Manifests
    BY ConfigAssumption
  <1>c. ASSUME NEW n \in Nat, Recent(n), Starting(p) PROVE Recent(n)'
    BY <1>c, RecentStays DEF FreshInv
  <1>s. Starting(p)' <=> Starting(p)
    BY DEF Starting
  <1>1. (Starting(p) => run[p].gen <= gens /\ Recent(run[p].gen))'
    <2>1. run[p].gen \in Nat
      BY <1>a DEF Runs
    <2>2. Starting(p) => Recent(run[p].gen)'
      BY <2>1, <1>a, <1>c DEF FreshOf
    <2>3. Starting(p) => run[p].gen <= gens'
      BY <2>1, <1>a DEF FreshOf
    <2> QED
      BY <1>s, <2>2, <2>3 DEF Recent
  <1>2. /\ (pc[p] \in {"built", "writing"} => run[p].manifest.gen = run[p].gen)'
        /\ (pc[p] = "written" => temp[p].gen = run[p].gen)'
        /\ (pc[p] \in Filed => run[p].next > Len(Generated[kind]))'
    BY <1>a DEF FreshOf, Generated
  <1>3. (pc[p] = "replaced" => Recent(dir["manifest"].gen))'
    <2> SUFFICES ASSUME pc[p] = "replaced" PROVE Recent(dir["manifest"].gen)'
      OBVIOUS
    <2>1. Starting(p)
      BY DEF Starting, Idle
    <2>2. dir["manifest"] \in Manifests /\ Recent(dir["manifest"].gen)
      BY <1>a DEF FreshOf, WholeInv, Contents
    <2>3. dir'["manifest"] \in Manifests /\ Recent(dir'["manifest"].gen)
      BY <2>2, <1>a
    <2>4. dir'["manifest"].gen \in Nat
      BY <2>3 DEF Manifests
    <2> DEFINE n == dir'["manifest"].gen
    <2>5. n \in Nat /\ Recent(n)
      BY <2>3, <2>4
    <2> HIDE DEF n
    <2>6. \A r \in Nodes : Starting(r)' => run'[r].since <= n
      BY <2>5, <2>1, <1>c DEF Recent
    <2> QED
      BY <2>6 DEF Recent, n
  <1>4. (pc[p] \in Reading => Recent(run[p].manifest.gen))'
    <2> SUFFICES ASSUME pc[p] \in Reading PROVE Recent(run[p].manifest.gen)'
      OBVIOUS
    <2>1. Starting(p)
      BY DEF Starting, Idle, Reading
    <2>2. run[p].manifest \in Manifests /\ Recent(run[p].manifest.gen)
      BY <1>a DEF FreshOf, WholeInv, Runs, Reading
    <2>3. run[p].manifest.gen \in Nat
      BY <2>2 DEF Manifests
    <2> DEFINE n == run[p].manifest.gen
    <2>4. n \in Nat /\ Recent(n) /\ run'[p].manifest.gen = n
      BY <2>2, <2>3
    <2> HIDE DEF n
    <2>5. \A r \in Nodes : Starting(r)' => run'[r].since <= n
      BY <2>4, <2>1, <1>c DEF Recent
    <2> QED
      BY <2>5, <2>4 DEF Recent
  <1>5. (~omitted /\ pc[p] \in Reading \cup Filed =>
           \A i \in DOMAIN Generated[kind] : i < run[p].next =>
               LET c == dir[Generated[kind][i]]
               IN  c \in Manifests => run[p].since <= c.gen)'
    <2> SUFFICES ASSUME ~omitted, pc[p] \in Reading \cup Filed,
                        NEW i \in DOMAIN Generated[kind], i < run[p].next,
                        dir'[Generated[kind][i]] \in Manifests
                 PROVE  run[p].since <= dir'[Generated[kind][i]].gen
      BY <1>a
    <2> DEFINE f == Generated[kind][i]
    <2>1. Starting(p)
      BY DEF Starting, Idle, Reading, Filed
    <2>2. f \in Files
      BY <1>a, GeneratedFiles
    <2>3. dir[f] \in Manifests => run[p].since <= dir[f].gen
      BY <1>a DEF FreshOf
    <2>4. CASE dir'[f] = dir[f]
      BY <2>3, <2>4
    <2>5. CASE Recent(dir'[f].gen)
      BY <2>1, <2>5 DEF Recent
    <2> QED
      BY <2>2, <2>4, <2>5, <1>b
  <1>6. (~omitted /\ pc[p] = "serving" => \A c \in opened[p] : c.gen >= run[p].since)'
    BY <1>a DEF FreshOf
  <1> QED
    BY <1>1, <1>2, <1>3, <1>4, <1>5, <1>6 DEF FreshOf

\* After a step of a node its own generation is still recent.
LEMMA OwnRow ==
    ASSUME TypeInv, TypeInv', FreshInv, NEW a \in Nodes, NodeActs(a)
    PROVE  (run[a].gen <= gens /\ Recent(run[a].gen))'
  <1>1. Starting(a) /\ FreshOf(a) /\ gens' = gens /\ run'[a].gen = run[a].gen
    BY ActsStarting, ActsKeep DEF FreshInv
  <1> DEFINE n == run[a].gen
  <1>2. n \in Nat /\ Recent(n) /\ n <= gens /\ run'[a].gen = n
    BY <1>1 DEF FreshOf, TypeInv, Runs
  <1>3. [Next]_vars
    BY DEF Next, Generate, NodeActs
  <1> HIDE DEF n
  <1>4. \A r \in Nodes : Starting(r)' => run'[r].since <= n
    BY <1>1, <1>2, <1>3, RecentStays DEF FreshInv, Recent
  <1> QED
    BY <1>1, <1>2, <1>4 DEF Recent

\* A step of one node keeps FreshInv, when what the node holds is right.
LEMMA FreshNode ==
    ASSUME TypeInv, WholeInv, TypeInv', WholeInv', FreshInv, NEW a \in Nodes, NodeActs(a),
           opened' \in [Nodes -> SUBSET Contents],
           \A f \in Files : \/ dir'[f] \in {dir[f], Torn}
                            \/ dir'[f] \in Manifests /\ Recent(dir'[f].gen),
           FreshOf(a)'
    PROVE  FreshInv'
  <1>1. [Next]_vars
    BY DEF Next, Generate, NodeActs
  <1>2. gens <= gens' /\ kind' = kind /\ (omitted => omitted') /\ dir'["manifest"] # Torn
    BY ActsStarting DEF TypeInv, WholeInv
  <1>3. ASSUME NEW p \in Nodes, p # a PROVE FreshOf(p)'
    <2>1. pc'[p] = pc[p] /\ run'[p] = run[p] /\ temp'[p] = temp[p] /\ opened'[p] = opened[p]
      BY <1>3, ActsAlone DEF FreshInv
    <2> QED
      BY <2>1, <1>1, <1>2, FreshOther
  <1> QED
    BY <1>3 DEF FreshInv

\* The start of a node keeps it,
LEMMA FreshLoad ==
    ASSUME TypeInv, WholeInv, TypeInv', WholeInv', FreshInv, NEW a \in Nodes, Load(a)
    PROVE  FreshInv'
  <1>a. /\ pc \in [Nodes -> Places] /\ run \in [Nodes -> Runs] /\ gens \in Nat
        /\ run' \in [Nodes -> Runs]
    BY DEF TypeInv
  <1>1. [Next]_vars
    BY DEF Next, Generate
  <1>2. /\ gens' = gens + 1 /\ pc' = [pc EXCEPT ![a] = "loading"]
        /\ UNCHANGED <<kind, dir, temp, opened, omitted>>
        /\ \A q \in Nodes \ {a} : run'[q] = run[q]
        /\ run'[a].gen = gens'
        /\ \/ run'[a].since = gens'
           \/ \E r \in Nodes : Starting(r) /\ run'[a].since = run[r].since
    BY LoadFacts
  <1>3. ASSUME NEW p \in Nodes, p # a PROVE FreshOf(p)'
    <2>1. pc'[p] = pc[p] /\ run'[p] = run[p] /\ temp'[p] = temp[p] /\ opened'[p] = opened[p]
      BY <1>3, <1>2, <1>a
    <2> QED
      BY <2>1, <1>1, <1>2, <1>a, FreshOther DEF WholeInv
  <1>4. \A r \in Nodes : Starting(r) => run[r].since <= gens
    <2> SUFFICES ASSUME NEW r \in Nodes, Starting(r) PROVE run[r].since <= gens
      OBVIOUS
    <2>1. run[r].since <= run[r].gen /\ run[r].gen <= gens
      BY DEF FreshInv, FreshOf, Recent
    <2> QED
      BY <2>1, <1>a DEF Runs
  <1>5. \A r \in Nodes : Starting(r)' => run'[r].since <= gens'
    <2> SUFFICES ASSUME NEW r \in Nodes, Starting(r)' PROVE run'[r].since <= gens'
      OBVIOUS
    <2>1. CASE r = a
      <3>1. CASE run'[a].since = gens'
        BY <2>1, <3>1, <1>2, <1>a
      <3>2. CASE \E s \in Nodes : Starting(s) /\ run'[a].since = run[s].since
        <4>1. PICK s \in Nodes : Starting(s) /\ run'[a].since = run[s].since
          BY <3>2
        <4>2. run[s].since <= gens /\ run[s].since \in Nat
          BY <4>1, <1>4, <1>a DEF Runs
        <4> QED
          BY <2>1, <4>1, <4>2, <1>2, <1>a
      <3> QED
        BY <3>1, <3>2, <1>2
    <2>2. CASE r # a
      <3>1. run'[r] = run[r] /\ pc'[r] = pc[r]
        BY <2>2, <1>2, <1>a
      <3>2. run[r].since <= gens /\ run[r].since \in Nat
        BY <3>1, <1>4, <1>a DEF Starting, Runs
      <3> QED
        BY <3>1, <3>2, <1>2, <1>a
    <2> QED
      BY <2>1, <2>2
  <1>6. FreshOf(a)'
    <2>1. pc'[a] = "loading"
      BY <1>2, <1>a
    <2>2. (run[a].gen <= gens /\ Recent(run[a].gen))'
      BY <1>2, <1>5, <1>a DEF Recent
    <2> QED
      BY <2>1, <2>2 DEF FreshOf, Reading, Filed
  <1> QED
    BY <1>2, <1>3, <1>6 DEF FreshInv

\* every step keeps it,
LEMMA FreshStep ==
    ASSUME TypeInv, WholeInv, TypeInv', WholeInv', FreshInv, [Next]_vars
    PROVE  FreshInv'
  <1>a. /\ pc \in [Nodes -> Places] /\ run \in [Nodes -> Runs] /\ gens \in Nat
        /\ temp \in [Nodes -> Contents] /\ dir \in [Files -> Contents]
        /\ kind \in {"service", "action"} /\ opened \in [Nodes -> SUBSET Contents]
        /\ "manifest" \in Files
    BY DEF TypeInv, FreshInv, Files
  <1>b. Torn \notin Manifests /\ NoFile \notin Manifests
    BY ConfigAssumption
  <1>c. ASSUME NEW a \in Nodes, NodeActs(a)
        PROVE  /\ (run[a].gen <= gens /\ Recent(run[a].gen))'
               /\ Starting(a) /\ FreshOf(a) /\ run[a] \in Runs /\ run'[a].gen = run[a].gen
               /\ run'[a].since = run[a].since /\ kind' = kind /\ (omitted => omitted')
    BY <1>c, <1>a, OwnRow, ActsStarting, ActsKeep DEF FreshInv
  <1>1. ASSUME NEW a \in Nodes, CheckBinding(a) \/ BuildManifest(a) \/ CreateTemporary(a)
                               \/ WriteTemporary(a) \/ Kill(a)
        PROVE  FreshInv'
    <2>1. NodeActs(a) /\ UNCHANGED <<dir, opened>>
      BY <1>1 DEF NodeActs, CheckBinding, BuildManifest, CreateTemporary, WriteTemporary, Kill
    <2>2. \/ pc'[a] \in {"loaded", "failed", "off"}
          \/ pc'[a] \in {"built", "writing"} /\ run'[a].manifest.gen = run'[a].gen
          \/ pc'[a] = "written" /\ temp'[a].gen = run'[a].gen
      <3>1. CASE CheckBinding(a) \/ Kill(a)
        BY <3>1, <1>a DEF CheckBinding, Kill, Goto
      <3>2. CASE BuildManifest(a)
        BY <3>2, <1>a DEF BuildManifest, Goto, Runs
      <3>3. CASE CreateTemporary(a) \/ WriteTemporary(a)
        <4>1. pc[a] \in {"built", "writing"} /\ run' = run
          BY <3>3 DEF CreateTemporary, WriteTemporary
        <4>2. run[a].manifest.gen = run[a].gen
          BY <4>1, <2>1, <1>c DEF FreshOf
        <4>3. \/ pc'[a] \in {"writing", "failed"}
              \/ pc'[a] = "written" /\ temp'[a] = run[a].manifest
          BY <3>3, <1>a DEF CreateTemporary, WriteTemporary, Goto
        <4> QED
          BY <4>1, <4>2, <4>3
      <3> QED
        BY <1>1, <3>1, <3>2, <3>3
    <2>3. FreshOf(a)'
      BY <2>1, <2>2, <1>c DEF FreshOf, Reading, Filed
    <2> QED
      BY <2>1, <2>3, <1>a, FreshNode
  <1>2. ASSUME NEW a \in Nodes, Replace(a) PROVE FreshInv'
    <2>1. NodeActs(a) /\ UNCHANGED <<run, opened>>
      BY <1>2 DEF NodeActs, Replace
    <2>2. temp[a] \in Manifests /\ temp[a].gen = run[a].gen
      BY <1>2, <2>1, <1>c, <1>a DEF Replace, FreshOf, WholeInv
    <2>3. Recent(run[a].gen)
      BY <2>1, <1>c DEF FreshOf
    <2>4. CASE dir' = [dir EXCEPT !["manifest"] = temp[a]] /\ pc'[a] = "replaced"
      <3>1. dir'["manifest"] = temp[a] /\ \A f \in Files \ {"manifest"} : dir'[f] = dir[f]
        BY <2>4, <1>a
      <3>2. FreshOf(a)'
        <4>1. Recent(run[a].gen)' /\ (run[a].gen <= gens)' /\ run'[a].gen = run[a].gen
          BY <2>1, <1>c
        <4>2. dir'["manifest"].gen = run'[a].gen
          BY <3>1, <2>2, <4>1
        <4>3. Recent(dir["manifest"].gen)'
          BY <4>1, <4>2 DEF Recent
        <4> QED
          BY <2>4, <4>1, <4>3 DEF FreshOf, Reading, Filed
      <3>3. \A f \in Files : \/ dir'[f] \in {dir[f], Torn}
                             \/ dir'[f] \in Manifests /\ Recent(dir'[f].gen)
        BY <3>1, <2>2, <2>3
      <3> QED
        BY <2>1, <3>2, <3>3, <1>a, FreshNode
    <2>5. CASE dir' = dir /\ pc'[a] = "failed"
      <3>1. FreshOf(a)'
        BY <2>1, <2>5, <1>c DEF FreshOf, Reading, Filed, Starting, Idle
      <3> QED
        BY <2>1, <2>5, <3>1, <1>a, FreshNode
    <2> QED
      BY <1>2, <1>a, <2>4, <2>5 DEF Replace, Goto
  <1>3. ASSUME NEW a \in Nodes, RpcRead(a) PROVE FreshInv'
    <2>1. NodeActs(a) /\ UNCHANGED <<dir, opened>> /\ pc'[a] = "rpc"
      BY <1>3, <1>a DEF NodeActs, RpcRead, Goto
    <2>2. run'[a].manifest = dir["manifest"] /\ run'[a].next = 1
      <3>1. run' = [run EXCEPT ![a] = [run[a] EXCEPT !.manifest = dir["manifest"], !.next = 1]]
        BY <1>3, <1>a DEF RpcRead
      <3> QED
        BY <3>1, <1>a DEF Runs
    <2> DEFINE n == dir["manifest"].gen
    <2>3. n \in Nat /\ Recent(n) /\ run'[a].manifest.gen = n
      <3>1. dir["manifest"] \in Manifests
        BY <1>3, <1>a DEF RpcRead, WholeInv, Contents
      <3>2. Recent(n)
        BY <1>3, <2>1, <1>c DEF RpcRead, FreshOf
      <3> QED
        BY <3>1, <3>2, <2>2 DEF Manifests
    <2> HIDE DEF n
    <2>4. \A r \in Nodes : Starting(r)' => run'[r].since <= n
      BY <2>1, <2>3, <1>c, <1>a, RecentStays DEF Recent
    <2>5. Recent(run[a].manifest.gen)'
      BY <2>3, <2>4 DEF Recent
    <2>6. \A i \in DOMAIN Generated[kind'] : ~(i < run'[a].next)
      BY <2>2, <1>a, <2>1, <1>c DEF Generated
    <2>7. FreshOf(a)'
      BY <2>1, <2>5, <2>6, <1>c DEF FreshOf, Reading, Filed
    <2> QED
      BY <2>1, <2>7, <1>a, FreshNode
  <1>4. ASSUME NEW a \in Nodes, RpcOpen(a) PROVE FreshInv'
    <2>1. NodeActs(a) /\ UNCHANGED opened /\ pc[a] = "rpc"
      BY <1>4 DEF NodeActs, RpcOpen
    <2>2. Recent(run[a].manifest.gen) /\ run[a].manifest.gen \in Nat
      <3>1. run[a].manifest \in Manifests
        BY <2>1, <1>a, <1>c DEF WholeInv, Runs
      <3> QED
        BY <3>1, <2>1, <1>c DEF FreshOf, Reading, Manifests
    <2>3. run'[a].manifest = run[a].manifest
      BY <1>4, <1>a DEF RpcOpen, Runs
    <2>4. Recent(run[a].manifest.gen)'
      <3> DEFINE n == run[a].manifest.gen
      <3>1. n \in Nat /\ Recent(n) /\ run'[a].manifest.gen = n
        BY <2>2, <2>3
      <3> HIDE DEF n
      <3>2. \A r \in Nodes : Starting(r)' => run'[r].since <= n
        BY <2>1, <3>1, <1>c, <1>a, RecentStays DEF Recent
      <3> QED
        BY <3>1, <3>2 DEF Recent
    <2>5. CASE dir' = [dir EXCEPT ![NextFile(a)] = Torn] /\ pc'[a] = "rpcwriting" /\ run' = run
      <3>1. \A f \in Files : dir'[f] \in {dir[f], Torn}
        BY <2>5, <1>a
      <3>2. (~omitted => \A i \in DOMAIN Generated[kind] : i < run[a].next =>
                LET c == dir[Generated[kind][i]]
                IN  c \in Manifests => run[a].since <= c.gen)'
        <4> SUFFICES ASSUME ~omitted', NEW i \in DOMAIN Generated[kind], i < run[a].next,
                            dir'[Generated[kind][i]] \in Manifests
                     PROVE  run[a].since <= dir'[Generated[kind][i]].gen
          BY <2>1, <2>5, <1>c
        <4>1. Generated[kind][i] \in Files
          BY <1>a, GeneratedFiles
        <4>2. dir'[Generated[kind][i]] = dir[Generated[kind][i]]
          BY <3>1, <4>1, <1>b
        <4> QED
          BY <2>1, <4>2, <1>c DEF FreshOf, Reading
      <3>3. FreshOf(a)'
        BY <2>1, <2>4, <2>5, <3>2, <1>c DEF FreshOf, Reading, Filed
      <3> QED
        BY <2>1, <3>1, <3>3, <1>a, FreshNode
    <2>6. CASE dir' = dir /\ pc'[a] = "failed"
      <3>1. FreshOf(a)'
        BY <2>1, <2>6, <1>c DEF FreshOf, Reading, Filed, Starting, Idle
      <3> QED
        BY <2>1, <2>6, <3>1, <1>a, FreshNode
    <2>7. CASE dir' = dir /\ pc' = pc /\ omitted'
      <3>1. FreshOf(a)'
        BY <2>1, <2>4, <2>7, <1>c DEF FreshOf, Reading, Filed
      <3> QED
        BY <2>1, <2>7, <3>1, <1>a, FreshNode
    <2> QED
      BY <1>4, <1>a, <2>5, <2>6, <2>7, Zenon DEF RpcOpen, Goto
  <1>5. ASSUME NEW a \in Nodes, RpcWrite(a) PROVE FreshInv'
    <2>1. NodeActs(a) /\ UNCHANGED opened /\ pc[a] = "rpcwriting" /\ pc'[a] = "rpc"
      BY <1>5, <1>a DEF NodeActs, RpcWrite, Goto
    <2> DEFINE m == run[a].manifest
               g == run[a].next
    <2>2. Recent(m.gen) /\ m \in Manifests /\ m.gen \in Nat
      <3>1. m \in Manifests
        BY <2>1, <1>a, <1>c DEF WholeInv, Runs
      <3> QED
        BY <3>1, <2>1, <1>c DEF FreshOf, Reading, Manifests
    <2>3. /\ run'[a].manifest = m /\ run'[a].next = g + 1 /\ g \in DOMAIN Generated[kind]
          /\ dir' = [dir EXCEPT ![Generated[kind][g]] = m]
      BY <1>5, <2>1, <1>a DEF RpcWrite, Runs, WholeInv, NextFile
    <2>4. Recent(run[a].manifest.gen)'
      <3> DEFINE n == run[a].manifest.gen
      <3>1. n \in Nat /\ Recent(n) /\ run'[a].manifest.gen = n
        BY <2>2, <2>3
      <3> HIDE DEF n
      <3>2. \A r \in Nodes : Starting(r)' => run'[r].since <= n
        BY <2>1, <3>1, <1>c, <1>a, RecentStays DEF Recent
      <3> QED
        BY <3>1, <3>2 DEF Recent
    <2>5. (~omitted => \A i \in DOMAIN Generated[kind] : i < run[a].next =>
              LET c == dir[Generated[kind][i]]
              IN  c \in Manifests => run[a].since <= c.gen)'
      <3> SUFFICES ASSUME ~omitted', NEW i \in DOMAIN Generated[kind], i < g + 1,
                          dir'[Generated[kind][i]] \in Manifests
                   PROVE  run[a].since <= dir'[Generated[kind][i]].gen
        BY <2>1, <2>3, <1>c
      <3> DEFINE f == Generated[kind][i]
      <3>1. f \in Files
        BY <1>a, GeneratedFiles
      <3>2. CASE dir'[f] = m
        BY <2>1, <2>2, <3>2, <1>c DEF Recent
      <3>3. CASE dir'[f] # m
        <4>1. dir'[f] = dir[f] /\ i # g
          BY <2>3, <3>1, <3>3, <1>a
        <4>2. i < g
          BY <4>1, <2>3, <1>a DEF Generated
        <4> QED
          BY <2>1, <4>1, <4>2, <1>c DEF FreshOf, Reading
      <3> QED
        BY <3>2, <3>3
    <2>6. \A f \in Files : dir'[f] \in {dir[f], m}
      BY <2>3, <1>a
    <2>7. FreshOf(a)'
      BY <2>1, <2>4, <2>5, <1>c DEF FreshOf, Reading, Filed
    <2> QED
      BY <2>1, <2>2, <2>6, <2>7, <1>a, FreshNode
  <1>6. ASSUME NEW a \in Nodes, CheckGenerated(a) \/ Reload(a) \/ Recheck(a) PROVE FreshInv'
    <2>1. NodeActs(a) /\ UNCHANGED <<dir, opened>>
      BY <1>6 DEF NodeActs, CheckGenerated, Reload, Recheck
    <2>2. \/ pc'[a] = "failed"
          \/ pc'[a] \in Filed /\ pc[a] \in Reading \cup Filed
      BY <1>6, <1>a DEF CheckGenerated, Reload, Recheck, Goto, Reading, Filed
    <2>3. run'[a].next = run[a].next
      BY <1>6, <1>a DEF CheckGenerated, Reload, Recheck, Runs
    <2>4. pc'[a] \in Filed => run[a].next > Len(Generated[kind])
      <3>1. CASE CheckGenerated(a)
        BY <3>1, <1>a DEF CheckGenerated, MoreFiles, Generated, Runs
      <3>2. CASE Reload(a) \/ Recheck(a)
        BY <3>2, <2>1, <1>c DEF Reload, Recheck, FreshOf, Filed
      <3> QED
        BY <1>6, <3>1, <3>2
    <2>5. FreshOf(a)'
      BY <2>1, <2>2, <2>3, <2>4, <1>c DEF FreshOf, Reading, Filed
    <2> QED
      BY <2>1, <2>5, <1>a, FreshNode
  <1>7. ASSUME NEW a \in Nodes, Construct(a) PROVE FreshInv'
    <2>1. NodeActs(a) /\ UNCHANGED <<dir, run, omitted>> /\ pc[a] = "reloaded"
      BY <1>7 DEF NodeActs, Construct
    <2>2. CASE pc'[a] = "failed" /\ opened' = opened
      <3>1. FreshOf(a)'
        BY <2>1, <2>2, <1>c DEF FreshOf, Reading, Filed, Starting, Idle
      <3> QED
        BY <2>1, <2>2, <3>1, <1>a, FreshNode
    <2>3. CASE \E fs \in OpensOf : /\ \A f \in fs : dir[f] \notin {NoFile, Torn}
                                  /\ opened' = [opened EXCEPT ![a] = {dir[f] : f \in fs}]
                                  /\ pc'[a] = "serving"
      <3>1. PICK fs \in OpensOf : /\ \A f \in fs : dir[f] \notin {NoFile, Torn}
                                  /\ opened' = [opened EXCEPT ![a] = {dir[f] : f \in fs}]
                                  /\ pc'[a] = "serving"
        BY <2>3
      <3>2. \A f \in fs : f \in Files /\ \E i \in DOMAIN Generated[kind] : f = Generated[kind][i]
        BY <3>1, <1>a DEF OpensOf, Generated, Files
      <3>3. opened' \in [Nodes -> SUBSET Contents] /\ opened'[a] = {dir[f] : f \in fs}
        <4>1. {dir[f] : f \in fs} \in SUBSET Contents
          BY <3>2, <1>a
        <4> QED
          BY <4>1, <3>1, <1>a
      <3>4. ASSUME ~omitted, NEW c \in opened'[a] PROVE c.gen >= run[a].since
        <4>1. PICK f \in fs : c = dir[f]
          BY <3>3, <3>4
        <4>2. PICK i \in DOMAIN Generated[kind] : f = Generated[kind][i]
          BY <3>2
        <4>3. dir[f] \in Manifests
          BY <3>1, <3>2, <1>a DEF Contents
        <4>4. i < run[a].next
          BY <2>1, <1>c, <1>a DEF FreshOf, Filed, Generated, Runs
        <4>5. run[a].since <= dir[f].gen
          BY <2>1, <3>4, <4>2, <4>3, <4>4, <1>c DEF FreshOf, Filed
        <4> QED
          BY <4>1, <4>3, <4>5, <2>1, <1>c DEF Manifests, Runs
      <3>5. FreshOf(a)'
        BY <2>1, <3>1, <3>4, <1>c DEF FreshOf, Reading, Filed, Starting, Idle
      <3> QED
        BY <2>1, <3>3, <3>5, FreshNode
    <2> QED
      BY <1>7, <2>2, <2>3, <1>a DEF Construct, Goto
  <1>8. CASE Edit \/ UNCHANGED vars
    <2>1. UNCHANGED <<kind, dir, temp, pc, run, opened, gens, omitted>>
      BY <1>8 DEF Edit, vars
    <2> QED
      BY <2>1 DEF FreshInv, FreshOf, Recent, Starting
  <1> QED
    BY <1>1, <1>2, <1>3, <1>4, <1>5, <1>6, <1>7, <1>8, FreshLoad DEF Next, Generate

\* and it holds initially.
LEMMA FreshInit == Init => FreshInv
  <1> SUFFICES ASSUME Init PROVE FreshInv
    OBVIOUS
  <1>1. pc = [p \in Nodes |-> "off"] /\ opened = [p \in Nodes |-> {}]
    BY DEF Init
  <1> QED
    BY <1>1 DEF FreshInv, FreshOf, Starting, Idle, Reading, Filed

\* For any nodes that share the directory, any edits and kills: a node never serves
\* with a file that was written before its row of generations began, as long as the
\* native generator leaves no file out.
THEOREM NeverStale == Spec => []NoStaleFiles
  <1>1. FreshInv => NoStaleFiles
    BY DEF FreshInv, FreshOf, NoStaleFiles
  <1>2. TypeInv /\ WholeInv /\ FreshInv /\ [Next]_vars => (TypeInv /\ WholeInv /\ FreshInv)'
    BY TypeStep, FreshStep
  <1>3. Init => TypeInv /\ WholeInv /\ FreshInv
    BY TypeInit, FreshInit
  <1> QED
    BY <1>1, <1>2, <1>3, PTL DEF Spec

-----------------------------------------------------------------------------
(***************************************************************************)
(* A start that nothing disturbs ends in a node that serves.               *)
(***************************************************************************)
\* p has not been disturbed since it started: there was no edit, no fault, and no
\* other generation
Quiet(p) ==
    /\ run[p].edits = Now /\ run[p].faults = faults
    /\ run[p].since = run[p].gen /\ run[p].gen = gens

\* why it may fail nevertheless
Acceptable == Accepts(kind, Source.binding, Source.transport)
AllResolve == \A i \in DOMAIN Source.binding.bindings :
                  Resolvable(kind, Source.binding.bindings[i])

\* what it has found by now, and that no other node is starting
QuietOf(p) ==
    /\ Starting(p) => (\A q \in Nodes \ {p} : ~Starting(q)) /\ run[p].binding = Now
    /\ Starting(p) /\ pc[p] # "loading" => Acceptable
    /\ Starting(p) /\ pc[p] \notin {"loading", "loaded"} => AllResolve
    /\ pc[p] \in Reading \cup Filed =>
           \A i \in DOMAIN Generated[kind] :
               i < run[p].next => dir[Generated[kind][i]] \in Manifests
    /\ pc[p] \in {"reloading", "reloaded"} => run[p].again = Now
    /\ pc[p] = "failed" => ~Acceptable \/ ~AllResolve

\* Editions, faults and generations are only counted up, so what has been disturbed
\* remains so.
QuietInv ==
    \A p \in Nodes :
        /\ run[p].edits <= Now /\ run[p].faults <= faults /\ run[p].gen <= gens
        /\ Quiet(p) => QuietOf(p)

\* Nothing has started initially.
LEMMA QuietInit == Init => QuietInv
  <1> SUFFICES ASSUME Init, NEW p \in Nodes
               PROVE  /\ run[p].edits <= Now /\ run[p].faults <= faults /\ run[p].gen <= gens
                      /\ Quiet(p) => QuietOf(p)
    BY DEF QuietInv
  <1>1. Now = 1 /\ run[p] = NoRun /\ faults = 0 /\ gens = 0
    BY DEF Init, Now
  <1> QED
    BY <1>1 DEF NoRun, Quiet

\* A step of one node either disturbs the others or finds them stopped.
LEMMA QuietNode ==
    ASSUME TypeInv, TypeInv', FreshInv, QuietInv, NEW a \in Nodes, NodeActs(a),
           (faults' = faults /\ Quiet(a) => QuietOf(a)')
    PROVE  QuietInv'
  <1>a. /\ gens \in Nat /\ faults \in Nat /\ Now \in Nat /\ run \in [Nodes -> Runs]
    BY DEF TypeInv, Now
  <1>1. /\ Starting(a) /\ UNCHANGED <<kind, history, gens>>
        /\ faults' = faults \/ faults' = faults + 1
    BY ActsStarting
  <1>2. Now' = Now /\ Source' = Source
    BY <1>1 DEF Now, Source
  <1>3. /\ run'[a].gen = run[a].gen /\ run'[a].since = run[a].since
        /\ run'[a].edits = run[a].edits /\ run'[a].faults = run[a].faults
    BY ActsKeep
  <1>4. ASSUME NEW p \in Nodes
        PROVE  /\ run'[p].edits <= Now' /\ run'[p].faults <= faults' /\ run'[p].gen <= gens'
               /\ Quiet(p)' => faults' = faults /\ Quiet(p)
    <2>1. /\ run'[p].gen = run[p].gen /\ run'[p].since = run[p].since
          /\ run'[p].edits = run[p].edits /\ run'[p].faults = run[p].faults
      BY <1>3, ActsAlone DEF FreshInv
    <2>2. /\ run[p].edits <= Now /\ run[p].faults <= faults /\ run[p].gen <= gens
          /\ run[p].faults \in Nat
      BY <1>a DEF QuietInv, Runs
    <2>3. run[p].faults <= faults' /\ (run[p].faults = faults' => faults' = faults)
      BY <2>2, <1>1, <1>a
    <2> QED
      BY <2>1, <2>2, <2>3, <1>1, <1>2 DEF Quiet
  <1>5. ASSUME NEW p \in Nodes, Quiet(p)' PROVE QuietOf(p)'
    <2>1. faults' = faults /\ Quiet(p)
      BY <1>4, <1>5
    <2>2. CASE p = a
      BY <2>1, <2>2
    <2>3. CASE p # a
      <3>1. QuietOf(p) /\ pc'[p] = pc[p] /\ run'[p] = run[p]
        BY <2>1, <2>3, ActsAlone DEF QuietInv, FreshInv
      <3>2. ~Starting(p) /\ ~Starting(p)'
        BY <2>3, <3>1, <1>1 DEF QuietOf, Starting
      <3>3. pc'[p] \notin Reading \cup Filed /\ pc'[p] \notin {"reloading", "reloaded"}
        BY <3>2 DEF Starting, Idle, Reading, Filed
      <3>4. pc'[p] = "failed" => ~Acceptable' \/ ~AllResolve'
        BY <3>1, <1>1, <1>2 DEF QuietOf, Acceptable, AllResolve
      <3> QED
        BY <3>2, <3>3, <3>4 DEF QuietOf
    <2> QED
      BY <2>2, <2>3
  <1> QED
    BY <1>4, <1>5 DEF QuietInv

\* The start of a node disturbs all that are starting.
LEMMA QuietLoad ==
    ASSUME TypeInv, TypeInv', FreshInv, QuietInv, NEW a \in Nodes, Load(a)
    PROVE  QuietInv'
  <1>a. /\ gens \in Nat /\ faults \in Nat /\ Now \in Nat /\ run \in [Nodes -> Runs]
        /\ pc \in [Nodes -> Places]
    BY DEF TypeInv, Now
  <1>1. /\ gens' = gens + 1 /\ pc' = [pc EXCEPT ![a] = "loading"]
        /\ UNCHANGED <<history, faults>>
        /\ \A q \in Nodes \ {a} : run'[q] = run[q]
        /\ run'[a].gen = gens' /\ run'[a].binding = Now
        /\ \A r \in Nodes : Starting(r) => run'[a].since <= run[r].since
    BY LoadFacts
  <1>2. Now' = Now
    BY <1>1 DEF Now
  <1>3. run'[a].edits = Now /\ run'[a].faults = faults
    BY <1>a DEF Load, NoRun
  <1>4. ASSUME NEW p \in Nodes, p # a
        PROVE  /\ run'[p].edits <= Now' /\ run'[p].faults <= faults' /\ run'[p].gen <= gens'
               /\ ~Quiet(p)'
    <2>1. run'[p] = run[p] /\ run[p].gen \in Nat
      BY <1>4, <1>1, <1>a DEF Runs
    <2>2. run[p].edits <= Now /\ run[p].faults <= faults /\ run[p].gen <= gens
      BY DEF QuietInv
    <2>3. run[p].gen < gens'
      BY <2>1, <2>2, <1>1, <1>a
    <2> QED
      BY <2>1, <2>2, <2>3, <1>1, <1>2 DEF Quiet
  <1>5. ASSUME Quiet(a)' PROVE QuietOf(a)'
    <2>1. run'[a].since = gens'
      BY <1>5, <1>1 DEF Quiet
    <2>2. ASSUME NEW q \in Nodes \ {a}, Starting(q)' PROVE FALSE
      <3>1. Starting(q)
        BY <2>2, <1>1, <1>a DEF Starting
      <3>2. run[q].since <= run[q].gen /\ run[q].gen <= gens
        BY <3>1 DEF FreshInv, FreshOf, Recent
      <3>3. gens' <= run[q].since
        BY <3>1, <2>1, <1>1
      <3> QED
        BY <3>2, <3>3, <1>1, <1>a DEF Runs
    <2>3. pc'[a] = "loading"
      BY <1>1, <1>a
    <2> QED
      BY <2>2, <2>3, <1>1, <1>2 DEF QuietOf, Reading, Filed
  <1>6. run'[a].edits <= Now' /\ run'[a].faults <= faults' /\ run'[a].gen <= gens'
    BY <1>1, <1>2, <1>3, <1>a
  <1> QED
    BY <1>4, <1>5, <1>6 DEF QuietInv

\* Every step keeps QuietInv: a start fails only where the sources give a reason.
LEMMA QuietStep ==
    ASSUME TypeInv, WholeInv, TypeInv', FreshInv, QuietInv, [Next]_vars
    PROVE  QuietInv'
  <1>a. /\ pc \in [Nodes -> Places] /\ run \in [Nodes -> Runs] /\ faults \in Nat
        /\ dir \in [Files -> Contents] /\ kind \in {"service", "action"} /\ Now \in Nat
    BY DEF TypeInv, Now
  <1>b. Torn \notin Manifests /\ NoFile \notin Manifests
    BY ConfigAssumption
  <1>c. ASSUME NEW a \in Nodes, NodeActs(a), Quiet(a)
        PROVE  /\ Starting(a) /\ QuietOf(a) /\ run[a] \in Runs /\ run[a].binding = Now
               /\ (\A q \in Nodes \ {a} : ~Starting(q))' /\ (run[a].binding = Now)'
               /\ Acceptable' = Acceptable /\ AllResolve' = AllResolve
               /\ Now' = Now /\ kind' = kind
    <2>1. Starting(a) /\ QuietOf(a) /\ UNCHANGED <<kind, history>>
      BY <1>c, ActsStarting DEF QuietInv
    <2>2. Now' = Now /\ Acceptable' = Acceptable /\ AllResolve' = AllResolve
      BY <2>1 DEF Now, Source, Acceptable, AllResolve
    <2>3. run[a].binding = Now /\ \A q \in Nodes \ {a} : ~Starting(q)
      BY <2>1 DEF QuietOf
    <2>4. \A q \in Nodes \ {a} : pc'[q] = pc[q]
      BY <1>c, ActsAlone DEF FreshInv
    <2>5. (\A q \in Nodes \ {a} : ~Starting(q))'
      BY <2>3, <2>4 DEF Starting
    <2>6. run'[a].binding = run[a].binding
      BY <1>c, ActsKeep
    <2> QED
      BY <2>1, <2>2, <2>3, <2>5, <2>6, <1>a
  <1>1. ASSUME NEW a \in Nodes, CheckBinding(a) \/ BuildManifest(a) PROVE QuietInv'
    <2>1. NodeActs(a)
      BY <1>1 DEF NodeActs
    <2> SUFFICES ASSUME Quiet(a) PROVE QuietOf(a)'
      BY <2>1, QuietNode
    <2>2. CASE CheckBinding(a)
      <3>1. pc'[a] = IF Accepts(kind, history[run[a].binding].binding, Source.transport)
                     THEN "loaded" ELSE "failed"
        BY <2>2, <1>a DEF CheckBinding, Goto
      <3>2. history[run[a].binding] = Source
        BY <2>1, <1>c DEF Source
      <3>3. \/ pc'[a] = "loaded" /\ Acceptable'
            \/ pc'[a] = "failed" /\ ~Acceptable'
        BY <3>1, <3>2, <2>1, <1>c DEF Acceptable
      <3> QED
        BY <3>3, <2>1, <1>c DEF QuietOf, Reading, Filed, Starting, Idle
    <2>3. CASE BuildManifest(a)
      <3>1. Acceptable /\ Source.transport.json
        BY <2>3, <2>1, <1>c DEF BuildManifest, QuietOf, Acceptable, Accepts, ValidTransport
      <3>2. history[run[a].binding] = Source
        BY <2>1, <1>c DEF Source
      <3>3. \/ pc'[a] = "built" /\ AllResolve
            \/ pc'[a] = "failed" /\ ~AllResolve
        BY <2>3, <3>1, <3>2, <1>a DEF BuildManifest, Goto, AllResolve
      <3> QED
        BY <3>1, <3>3, <2>1, <1>c DEF QuietOf, Reading, Filed, Starting, Idle
    <2> QED
      BY <1>1, <2>2, <2>3
  <1>2. ASSUME NEW a \in Nodes, CreateTemporary(a) \/ WriteTemporary(a) \/ Replace(a)
                               \/ RpcRead(a) \/ Kill(a)
        PROVE  QuietInv'
    <2>1. NodeActs(a)
      BY <1>2 DEF NodeActs
    <2> SUFFICES ASSUME Quiet(a), faults' = faults PROVE QuietOf(a)'
      BY <2>1, QuietNode
    <2>2. ~Kill(a) /\ ~Fault
      BY <1>a DEF Kill, Fault
    <2>3. \/ pc'[a] \in {"writing", "written", "replaced"}
          \/ pc'[a] = "rpc" /\ run'[a].next = 1
      <3>1. CASE RpcRead(a)
        <4>1. run' = [run EXCEPT ![a] = [run[a] EXCEPT !.manifest = dir["manifest"], !.next = 1]]
          BY <3>1, <1>a DEF RpcRead
        <4> QED
          BY <3>1, <4>1, <1>a DEF RpcRead, Goto, Runs
      <3>2. CASE CreateTemporary(a) \/ WriteTemporary(a) \/ Replace(a)
        BY <3>2, <2>2, <1>a DEF CreateTemporary, WriteTemporary, Replace, Goto
      <3> QED
        BY <1>2, <2>2, <3>1, <3>2
    <2>4. pc[a] \in {"built", "writing", "written", "replaced"}
      BY <1>2, <2>2 DEF CreateTemporary, WriteTemporary, Replace, RpcRead
    <2>5. Acceptable' /\ AllResolve'
      BY <2>1, <2>4, <1>c DEF QuietOf
    <2>6. pc'[a] = "rpc" => \A i \in DOMAIN Generated[kind'] : ~(i < run'[a].next)
      BY <2>3, <2>1, <1>c, <1>a DEF Generated
    <2> QED
      BY <2>1, <2>3, <2>5, <2>6, <1>c DEF QuietOf, Reading, Filed
  <1>3. ASSUME NEW a \in Nodes, RpcOpen(a) \/ RpcWrite(a) PROVE QuietInv'
    <2>1. NodeActs(a) /\ pc[a] \in Reading
      BY <1>3 DEF NodeActs, RpcOpen, RpcWrite, Reading
    <2> SUFFICES ASSUME Quiet(a), faults' = faults PROVE QuietOf(a)'
      BY <2>1, QuietNode
    <2>2. ~Fault
      BY <1>a DEF Fault
    <2> DEFINE n == run[a].next
    <2>3. /\ n \in DOMAIN Generated[kind]
          /\ \/ /\ pc'[a] = "rpcwriting" /\ run'[a].next = n
                /\ dir' = [dir EXCEPT ![Generated[kind][n]] = Torn]
             \/ /\ pc'[a] = "rpc" /\ run'[a].next = n + 1
                /\ dir' = [dir EXCEPT ![Generated[kind][n]] = run[a].manifest]
                /\ run[a].manifest \in Manifests
      <3>1. CASE RpcOpen(a)
        <4>1. n \in DOMAIN Generated[kind]
          BY <3>1, <1>a DEF RpcOpen, MoreFiles, WholeInv, Runs, Generated
        <4> QED
          BY <3>1, <4>1, <2>2, <1>a DEF RpcOpen, Goto, NextFile
      <3>2. CASE RpcWrite(a)
        <4>1. run[a].manifest \in Manifests /\ n \in DOMAIN Generated[kind]
          BY <3>2, <1>a DEF RpcWrite, WholeInv, Runs
        <4>2. run'[a].next = n + 1
          BY <3>2, <1>a DEF RpcWrite, Runs
        <4> QED
          BY <3>2, <4>1, <4>2, <1>a DEF RpcWrite, Goto, NextFile
      <3> QED
        BY <1>3, <3>1, <3>2
    <2>4. Acceptable' /\ AllResolve'
      BY <2>1, <1>c DEF QuietOf, Reading
    <2>5. ASSUME NEW i \in DOMAIN Generated[kind], i < run'[a].next
          PROVE  dir'[Generated[kind][i]] \in Manifests
      <3>1. Generated[kind][i] \in Files /\ Generated[kind][n] \in Files
        BY <2>3, <1>a, GeneratedFiles
      <3>2. CASE i = n
        BY <2>3, <2>5, <3>1, <3>2, <1>a DEF Generated
      <3>3. CASE i # n
        <4>1. Generated[kind][i] # Generated[kind][n]
          BY <2>3, <3>3, <1>a DEF Generated
        <4>2. i < n
          BY <2>3, <2>5, <3>3, <1>a DEF Generated
        <4>3. dir[Generated[kind][i]] \in Manifests
          BY <4>2, <2>1, <1>c DEF QuietOf
        <4> QED
          BY <2>3, <3>1, <4>1, <4>3, <1>a
      <3> QED
        BY <3>2, <3>3
    <2> QED
      BY <2>1, <2>3, <2>4, <2>5, <1>c DEF QuietOf, Reading, Filed
  <1>4. ASSUME NEW a \in Nodes, CheckGenerated(a) \/ Reload(a) \/ Recheck(a) \/ Construct(a)
        PROVE  QuietInv'
    <2>1. NodeActs(a) /\ UNCHANGED dir /\ pc[a] \in {"rpc", "generated", "reloading", "reloaded"}
      BY <1>4 DEF NodeActs, CheckGenerated, Reload, Recheck, Construct
    <2> SUFFICES ASSUME Quiet(a) PROVE QuietOf(a)'
      BY <2>1, QuietNode
    <2>2. Acceptable /\ AllResolve
      BY <2>1, <1>c DEF QuietOf
    <2>3. run'[a].next = run[a].next
      BY <1>4, <1>a DEF CheckGenerated, Reload, Recheck, Construct, Runs
    <2>4. \A i \in DOMAIN Generated[kind] :
              i < run[a].next => dir[Generated[kind][i]] \in Manifests
      BY <2>1, <1>c DEF QuietOf, Reading, Filed
    <2>5. run[a].next > Len(Generated[kind])
      <3>1. CASE CheckGenerated(a)
        BY <3>1, <1>a DEF CheckGenerated, MoreFiles, Generated, Runs
      <3>2. CASE ~CheckGenerated(a)
        BY <3>2, <1>4 DEF Reload, Recheck, Construct, FreshInv, FreshOf, Filed
      <3> QED
        BY <3>1, <3>2
    <2>6. \A f \in Required : dir[f] \in Manifests
      BY <2>4, <2>5, <1>a DEF Required, Generated, Runs
    <2>7. \/ pc'[a] = "generated"
          \/ pc'[a] \in {"reloading", "reloaded"} /\ run'[a].again = Now
          \/ pc'[a] = "serving"
      <3>1. CASE CheckGenerated(a)
        BY <3>1, <2>6, <1>a, <1>b DEF CheckGenerated, Goto
      <3>2. CASE Reload(a)
        BY <3>2, <1>a DEF Reload, Goto, Runs
      <3>3. CASE Recheck(a)
        <4>1. run[a].again = Now
          BY <3>3, <2>1, <1>c DEF Recheck, QuietOf
        <4>2. history[run[a].again] = Source
          BY <4>1 DEF Source
        <4> QED
          BY <3>3, <4>1, <4>2, <2>2, <1>a DEF Recheck, Goto, Acceptable
      <3>4. CASE Construct(a)
        <4>1. run[a].again = run[a].binding
          BY <3>4, <2>1, <1>c DEF Construct, QuietOf
        <4>2. \A fs \in OpensOf : fs \subseteq Required
          BY <1>a DEF OpensOf, Required, Generated
        <4>3. \A fs \in OpensOf : \A f \in fs : dir[f] \notin {NoFile, Torn}
          BY <4>2, <2>6, <1>b
        <4> QED
          BY <3>4, <4>1, <4>3, <1>a DEF Construct, Goto
      <3> QED
        BY <1>4, <3>1, <3>2, <3>3, <3>4
    <2> QED
      BY <2>1, <2>2, <2>3, <2>4, <2>7, <1>c DEF QuietOf, Reading, Filed, Starting, Idle
  <1>5. CASE Edit
    <2>1. PICK s \in Sources : history' = Append(history, s)
      BY <1>5 DEF Edit
    <2>2. Now' = Now + 1 /\ UNCHANGED <<run, faults, gens>>
      BY <2>1, <1>5 DEF Edit, Now, TypeInv
    <2>3. ASSUME NEW p \in Nodes
          PROVE  /\ run'[p].edits <= Now' /\ run'[p].faults <= faults' /\ run'[p].gen <= gens'
                 /\ ~Quiet(p)'
      <3>1. /\ run[p].edits <= Now /\ run[p].faults <= faults /\ run[p].gen <= gens
            /\ run[p].edits \in Nat
        BY <1>a DEF QuietInv, Runs
      <3>2. run[p].edits <= Now + 1 /\ run[p].edits # Now + 1
        BY <3>1, <1>a
      <3> QED
        BY <2>2, <3>1, <3>2 DEF Quiet
    <2> QED
      BY <2>3 DEF QuietInv
  <1>6. CASE UNCHANGED vars
    <2>1. UNCHANGED <<kind, history, dir, pc, run, gens, faults>>
      BY <1>6 DEF vars
    <2> QED
      BY <2>1 DEF QuietInv, Quiet, QuietOf, Acceptable, AllResolve, Source, Now, Starting
  <1> QED
    BY <1>1, <1>2, <1>3, <1>4, <1>5, <1>6, QuietLoad DEF Next, Generate

\* For any contents of the directory that kills and failures before it have left: a
\* start that no edit, fault or other start disturbs does not fail, if the sources are
\* accepted and every type is resolved.
THEOREM UndisturbedServes == Spec => []UndisturbedStartServes
  <1>1. QuietInv => UndisturbedStartServes
    BY DEF QuietInv, Quiet, QuietOf, Acceptable, AllResolve, UndisturbedStartServes
  <1> DEFINE Inv == TypeInv /\ WholeInv /\ FreshInv /\ QuietInv
  <1>2. Inv /\ [Next]_vars => Inv'
    BY TypeStep, FreshStep, QuietStep
  <1>3. Init => Inv
    BY TypeInit, FreshInit, QuietInit
  <1> QED
    BY <1>1, <1>2, <1>3, PTL DEF Spec
=============================================================================
