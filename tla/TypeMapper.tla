---------------------------- MODULE TypeMapper ----------------------------
(***************************************************************************)
(* type_mapper.py: how a ROS message becomes a PDU and back, by copying    *)
(* the fields of the same name.                                            *)
(*                                                                         *)
(* A message with everything nested in it is a tree: a function from paths *)
(* to objects.  A path is the sequence of the places <<field, i>> that     *)
(* lead to an object: the attribute itself (i = 0) or its item i.  An      *)
(* object is [class, fields], and a field has a value                      *)
(*   int   [k, v]       bool  [k, truth]    bytes  [k, bytes]              *)
(*   list  [k, items]   obj, new, alias, none, raise, opaque  [k]          *)
(* obj stands for the object at the place of the value; new for a nested   *)
(* object that is still as its class has made it, and has no path yet;     *)
(* alias for the object that the source has at this place; raise for a     *)
(* copy that raises, opaque for a sequence of a type the mapper does not   *)
(* know.  A class is [side, msg]: the "ros" class of a message declares    *)
(* the type of each field and has no annotations, the "pdu" class has      *)
(* annotations and declares nothing, the "bare" class has neither.  A      *)
(* field type is [shape, elem, bounded]: "scalar", "seq" of elem, or "msg" *)
(* elem.                                                                   *)
(*                                                                         *)
(* External: the converters of hakoniwa-pdu, which hand over a primitive   *)
(* sequence as a list or as its raw bytes.                                 *)
(***************************************************************************)
EXTENDS Integers, Sequences, FiniteSets

CONSTANTS
    Messages,     \* message name -> [field name -> field type]
    Values,       \* ROS messages, as trees
    Foreign,      \* objects that some other code hands over for a message
    Targets       \* what they are copied to

Num(n)      == [k |-> "int", v |-> n]
Bool(b)     == [k |-> "bool", truth |-> b]
Bytes(s)    == [k |-> "bytes", bytes |-> s]
List(s)     == [k |-> "list", items |-> s]
Object      == [k |-> "obj"]
Untouched   == [k |-> "new"]
Alias       == [k |-> "alias"]
None        == [k |-> "none"]
Raise       == [k |-> "raise"]
Opaque      == [k |-> "opaque"]
Unread      == [k |-> "unread"]    \* a helper of the mapper returns None
NoType      == [shape |-> "none", elem |-> "none", bounded |-> FALSE]
NoClass     == [side |-> "none", msg |-> "none"]

UInt8       == 0 .. 255
UInt16      == 0 .. 65535

Primitive   == {"octet", "uint8", "uint16", "boolean", "string"}
Ints(s)     == List([i \in DOMAIN s |-> Num(s[i])])

\* where the objects in a value, and in the fields of an object, are
Items(x) ==
    CASE x = Object -> {0}
      [] x.k = "list" -> {i \in DOMAIN x.items : x.items[i] = Object}
      [] OTHER -> {}

Places(fields) == UNION {{f} \X Items(fields[f]) : f \in DOMAIN fields}

\* _is_scalar
IsScalar(x) == x.k \in {"int", "bool", "bytes"}

\* _field_type_name
FieldType(o, f) ==
    IF o.class.side = "ros" /\ f \in DOMAIN Messages[o.class.msg]
    THEN Messages[o.class.msg][f] ELSE NoType

\* _primitive_sequence_type: the bound of a bounded sequence stays in the name
Declares(o, f, elem) ==
    FieldType(o, f) = [shape |-> "seq", elem |-> elem, bounded |-> FALSE]

IsOctets(o, f) == Declares(o, f, "octet")

\* _octet_values: what can be read as a sequence of bytes
OctetValues(x) ==
    LET Octet(e) == \/ e.k = "bytes" /\ Len(e.bytes) = 1
                    \/ e.k = "int" /\ e.v \in UInt8
    IN  CASE x.k = "bytes" -> x
          [] x.k = "list" /\ (\A i \in DOMAIN x.items : Octet(x.items[i])) ->
               Bytes([i \in DOMAIN x.items |-> IF x.items[i].k = "int" THEN x.items[i].v
                                                ELSE x.items[i].bytes[1]])
          [] OTHER -> Unread

\* little-endian words of size bytes: none when the bytes are fewer than one
\* word, and struct.unpack raises when they are not a multiple
Unpack(raw, size, boolean) ==
    LET Word(i) == raw[size * (i - 1) + 1] + 256 * raw[size * (i - 1) + 2]
    IN  IF Len(raw) < size THEN List(<<>>)
        ELSE IF Len(raw) % size # 0 THEN Raise
        ELSE List([i \in 1 .. Len(raw) \div size |->
                      IF boolean THEN Bool(Word(i) # 0) ELSE Num(Word(i))])

\* (mutant) every primitive is one byte long
DecodeBytes(dst, f, raw) ==
    IF FieldType(dst, f).shape = "seq" THEN Ints(raw) ELSE Unread

\* _decode_binary_sequence
Decode(dst, f, raw) ==
    CASE Declares(dst, f, "uint8")   -> Ints(raw)
      [] Declares(dst, f, "boolean") -> Unpack(raw, 4, TRUE)
      [] Declares(dst, f, "uint16")  -> Unpack(raw, 2, FALSE)
      [] OTHER -> Unread

\* cls(): the fields have their defaults
New(class) ==
    [class |-> class, fields |-> [f \in DOMAIN Messages[class.msg] |->
        LET t == Messages[class.msg][f]
        IN  CASE t.shape = "msg" -> Untouched
              [] t.shape = "seq" -> IF t.elem = "octet" /\ class.side = "ros"
                                    THEN Bytes(<<>>) ELSE List(<<>>)
              [] OTHER -> Num(0)]]

\* (mutant) only annotations are looked at
AnnotatedItemType(dst, f) ==
    IF dst.class.side = "pdu" THEN [dst.class EXCEPT !.msg = Messages[dst.class.msg][f].elem]
                              ELSE NoClass

\* _list_item_type: a PDU class is annotated with it, a ROS class declares it, but
\* not where it is bounded
ItemType(dst, f) ==
    LET t == Messages[dst.class.msg][f]
        declared == dst.class.side = "ros" /\ ~t.bounded /\ t.elem \notin Primitive
    IN  IF t.shape = "seq" /\ (dst.class.side = "pdu" \/ declared)
        THEN [dst.class EXCEPT !.msg = t.elem] ELSE NoClass

\* a declared class that cannot be imported raises, used or not
Importable(class) == class = NoClass \/ class.msg \in DOMAIN Messages

\* _copy_list: an item is copied onto the one the destination has at its place
CopyList(items, dst, f) ==
    LET old == IF dst.fields[f].k = "list" THEN dst.fields[f].items ELSE <<>>
    IN  IF items = <<>> \/ IsScalar(items[1]) THEN List(items)
        ELSE IF ~Importable(ItemType(dst, f)) THEN Raise
        ELSE List([i \in DOMAIN items |-> IF IsScalar(items[i]) THEN items[i]
                                          ELSE IF i \in DOMAIN old THEN old[i] ELSE Object])

\* (mutant) an octet source decides, whatever the destination declares
OctetsOfSource(src, dst, f) ==
    IF (IsOctets(src, f) \/ IsOctets(dst, f)) /\ OctetValues(src.fields[f]) # Unread
    THEN Ints(OctetValues(src.fields[f]).bytes) ELSE Unread

\* a byte[] field takes bytes; it gives ints to a field of no declared type
Octets(src, dst, f) ==
    LET read == OctetValues(src.fields[f])
    IN  CASE read # Unread /\ IsOctets(dst, f) -> read
          [] read # Unread /\ IsOctets(src, f) /\ FieldType(dst, f) = NoType -> Ints(read.bytes)
          [] OTHER -> Unread

Decoded(dst, f, x) == IF x.k = "bytes" THEN Decode(dst, f, x.bytes) ELSE Unread

IsDeclaredSequence(src, dst, f) ==
    \/ FieldType(src, f).shape = "seq"
    \/ FieldType(src, f) = NoType /\ FieldType(dst, f).shape = "seq"

\* An object is copied onto the one that is there; what is none has no field in
\* common with it, and leaves it as it is.
CopyField(src, dst, f) ==
    LET x == src.fields[f]
        y == dst.fields[f]
    IN  IF Octets(src, dst, f) # Unread THEN Octets(src, dst, f)
        ELSE IF Decoded(dst, f, x) # Unread THEN Decoded(dst, f, x)
        ELSE IF IsScalar(x) THEN x
        ELSE IF x.k = "list" THEN CopyList(x.items, dst, f)
        ELSE IF IsDeclaredSequence(src, dst, f) THEN Raise
        ELSE IF y = None THEN (IF x = Object THEN Alias ELSE x)
        ELSE IF x = Object /\ y = Untouched THEN Object
        ELSE y

Shared(src, dst) == DOMAIN src.fields \cap DOMAIN dst.fields

Copied(src, dst) ==
    [f \in DOMAIN dst.fields |->
        IF f \in Shared(src, dst) THEN CopyField(src, dst, f) ELSE dst.fields[f]]

\* the class of a nested object that the destination does not have yet; an item
\* whose type is not known is made of the class of the item of the source
ClassAt(dst, place, item) ==
    IF place[2] = 0 THEN [dst.class EXCEPT !.msg = Messages[dst.class.msg][place[1]].elem]
    ELSE IF ItemType(dst, place[1]) # NoClass THEN ItemType(dst, place[1])
    ELSE item.class

-----------------------------------------------------------------------------
(***************************************************************************)
(* What the trees are like.                                                *)
(***************************************************************************)
\* Every object that is referred to is there.
IsTree(t) ==
    /\ DOMAIN t \subseteq Seq(STRING \X Nat) /\ <<>> \in DOMAIN t
    /\ \A p \in DOMAIN t : \A s \in Places(t[p].fields) : Append(p, s) \in DOMAIN t

\* a message is declared here; of a bounded sequence the mapper does not know it
IsMessagePlace(type, i) ==
    IF i = 0 THEN type.shape = "msg"
    ELSE type.shape = "seq" /\ ~type.bounded /\ type.elem \notin Primitive

\* The messages in an object are of its side, where its class declares them.
Pure(t) ==
    \A p \in {q \in DOMAIN t : t[q].class.side # "bare"} : \A f \in DOMAIN t[p].fields :
        /\ t[p].fields[f] # Alias
        /\ \A i \in Items(t[p].fields[f]) :
               IsMessagePlace(Messages[t[p].class.msg][f], i) =>
                   t[Append(p, <<f, i>>)].class.side = t[p].class.side

SomeInt(S)  == [k : {"int"}, v : S]
SomeBool    == [k : {"bool"}, truth : BOOLEAN]
SomeBytes   == [k : {"bytes"}, bytes : Seq(Int)]
SomeList(S) == [k : {"list"}, items : Seq(S)]
Scalars     == SomeInt(Int) \cup SomeBool \cup SomeBytes
FieldValues == Scalars \cup SomeList(Scalars \cup {Object})
                   \cup {Object, Untouched, Alias, None, Opaque}
SourceValues == Scalars \cup SomeList(Scalars) \cup SomeList({Object}) \cup {Object, None, Opaque}
Classes     == [side : {"ros", "pdu", "bare"}, msg : DOMAIN Messages]

\* The lists of a source hold scalars or objects, not both.
IsSource(t) ==
    /\ IsTree(t)
    /\ \A p \in DOMAIN t :
        /\ t[p].class \in Classes
        /\ \A f \in DOMAIN t[p].fields : t[p].fields[f] \in SourceValues

\* An object has the attributes of its class, and is None or shares an object at most
\* where nothing is declared.
IsInstance(o) ==
    /\ o.class \in Classes
    /\ DOMAIN o.fields = DOMAIN Messages[o.class.msg]
    /\ \A f \in DOMAIN o.fields :
        /\ o.fields[f] \in FieldValues
        /\ o.fields[f] = Untouched => Messages[o.class.msg][f].shape = "msg"
        /\ o.class.side # "bare" => o.fields[f] \notin {None, Alias}

HasBytes(o) == \A f \in DOMAIN o.fields : IsOctets(o, f) => o.fields[f].k = "bytes"

IsTarget(t) ==
    IsTree(t) /\ Pure(t) /\ \A p \in DOMAIN t : IsInstance(t[p]) /\ HasBytes(t[p])

\* the values that rosidl allows in a field, each in one form
PlainValues(type) ==
    CASE type.shape = "scalar" -> SomeInt(Int) \cup SomeBool
      [] type.shape = "msg"    -> {Object}
      [] type.shape = "seq"    ->
            CASE type.elem = "octet"   -> [k : {"bytes"}, bytes : Seq(UInt8)]
              [] type.elem = "uint8"   -> SomeList(SomeInt(UInt8))
              [] type.elem = "uint16"  -> SomeList(SomeInt(UInt16))
              [] type.elem = "boolean" -> SomeList(SomeBool)
              [] type.elem = "string"  -> SomeList(SomeInt(Int))
              [] OTHER                 -> SomeList({Object})

\* A byte[] may be a list of ints or of single bytes too; and a fixed array, which the
\* mapper does not tell from a sequence, is a numpy.ndarray where it holds numbers.
SingleBytes == [k : {"bytes"}, bytes : [{1} -> UInt8]]

OtherForms(type) ==
    IF type.shape # "seq" \/ type.bounded THEN {}
    ELSE CASE type.elem = "octet"               -> SomeList(SomeInt(UInt8) \cup SingleBytes)
           [] type.elem \in {"uint8", "uint16"} -> {Opaque}
           [] OTHER                             -> {}

ValuesOf(type) == PlainValues(type) \cup OtherForms(type)

\* A complete ROS message: its objects have the declared classes and values, and all
\* but the outermost are nested in another.
IsMessage(t) ==
    /\ IsTree(t)
    /\ t = [p \in DOMAIN t |-> [class |-> t[p].class,
                               fields |-> [f \in DOMAIN Messages[t[p].class.msg] |-> t[p].fields[f]]]]
    /\ \A p \in DOMAIN t : LET o == t[p] IN
        /\ o.class \in [side : {"ros"}, msg : DOMAIN Messages]
        /\ \A f \in DOMAIN o.fields : LET type == Messages[o.class.msg][f] IN
            /\ o.fields[f] \in ValuesOf(type)
            /\ \A i \in Items(o.fields[f]) :
                   t[Append(p, <<f, i>>)].class = [o.class EXCEPT !.msg = type.elem]
        /\ p # <<>> => \E q \in DOMAIN t : \E s \in Places(t[q].fields) : p = Append(q, s)

ASSUME MapperAssumption ==
    /\ \A m \in DOMAIN Messages : \A f \in DOMAIN Messages[m] :
        /\ Messages[m][f] \in [shape : {"scalar", "seq", "msg"}, elem : STRING, bounded : BOOLEAN]
        /\ Messages[m][f].shape = "msg" => Messages[m][f].elem \in DOMAIN Messages
    /\ \A v \in Values : IsMessage(v)
    /\ \A s \in Foreign : IsSource(s)
    /\ \A t \in Targets : IsTarget(t)

-----------------------------------------------------------------------------
(***************************************************************************)
(* A message on its way: ros_msg_to_pdu_bytes, then pdu_bytes_to_ros_msg;  *)
(* or an object that copy_matching_fields copies for a service or action.  *)
(***************************************************************************)
VARIABLES
    stage,
    source,     \* the object that is to be copied
    from, to,   \* the copy that is under way: its source and its destination
    agenda,     \* the paths of the objects that are still to be copied
    raised      \* the copy has raised, and its destination is dropped

vars == <<stage, source, from, to, agenda, raised>>

Root(o) == [p \in {<<>>} |-> o]

\* ros_msg_to_pdu_bytes: the copy to a new object of the PDU class begins
ToPdu ==
    /\ stage = "to_pdu" /\ source \in Values
    /\ to = Root(New([side |-> "pdu", msg |-> source[<<>>].class.msg]))

\* the nodes copy what they got to an object that is there, of the class that they expect
CopyForeign ==
    /\ stage = "foreign" /\ source \in Foreign
    /\ to \in {t \in Targets : DOMAIN source[<<>>].fields \subseteq DOMAIN t[<<>>].fields}

Init == (ToPdu \/ CopyForeign) /\ from = source /\ agenda = {<<>>} /\ raised = FALSE

\* _copy_matching_fields, for one pair of objects: the objects nested in them are
\* next, in any order
CopyObject(p) ==
    LET copied == Copied(from[p], to[p])
        made   == {Append(p, s) : s \in Places(copied) \ Places(to[p].fields)}
        nested == {Append(p, s) : s \in Places(copied)} \cap DOMAIN from
    IN  IF \E f \in Shared(from[p], to[p]) : copied[f] = Raise
        THEN raised' = TRUE /\ agenda' = {} /\ UNCHANGED <<stage, source, from, to>>
        ELSE /\ to' = [q \in DOMAIN to \cup made |->
                          CASE q \in made -> New(ClassAt(to[p], q[Len(q)], from[q]))
                            [] q = p -> [class |-> to[p].class, fields |-> copied]
                            [] OTHER -> to[q]]
             /\ agenda' = (agenda \ {p}) \cup nested
             /\ UNCHANGED <<stage, source, from, raised>>

\* external: the little-endian bytes of a primitive sequence
Raw(elem, items) ==
    LET size == CASE elem = "uint16" -> 2 [] elem = "boolean" -> 4 [] OTHER -> 1
        Byte(i, j) == LET n == IF items[i].k = "bool" THEN (IF items[i].truth THEN 1 ELSE 0)
                               ELSE items[i].v
                      IN  IF j = 0 THEN n % 256 ELSE IF j = 1 THEN n \div 256 ELSE 0
    IN  Bytes([n \in 1 .. size * Len(items) |-> Byte((n - 1) \div size + 1, (n - 1) % size)])

\* external: py_to_pdu and pdu_to_py, with the primitive sequences as raw bytes
AsRaw(o) ==
    [class |-> o.class, fields |-> [f \in DOMAIN o.fields |->
        LET t == Messages[o.class.msg][f]
        IN  IF t.shape = "seq" /\ t.elem \in Primitive \ {"string"} /\ o.fields[f].k = "list"
            THEN Raw(t.elem, o.fields[f].items) ELSE o.fields[f]]]

\* The copy to the PDU is complete and goes through the converters; then
\* pdu_bytes_to_ros_msg copies it to a new ROS message.
Transfer ==
    /\ stage = "to_pdu" /\ agenda = {} /\ ~raised
    /\ stage' = "to_ros"
    /\ from' \in {to, [p \in DOMAIN to |-> AsRaw(to[p])]}
    /\ to' = Root(New(source[<<>>].class)) /\ agenda' = {<<>>}
    /\ UNCHANGED <<source, raised>>

Next == (\E p \in agenda : CopyObject(p)) \/ Transfer

Spec == Init /\ [][Next]_vars

-----------------------------------------------------------------------------
(***************************************************************************)
(* Properties.                                                             *)
(***************************************************************************)
Unbounded(t) == \A p \in DOMAIN t : \A f \in DOMAIN Messages[t[p].class.msg] :
                    ~Messages[t[p].class.msg][f].bounded

\* no sequence is of a type the mapper does not know
Known(o)    == \A f \in DOMAIN o.fields : o.fields[f] # Opaque
Readable(t) == \A p \in DOMAIN t : Known(t[p])

\* the same message with each byte[] as bytes
AsBytes(x) ==
    IF x.k = "bytes" THEN x
    ELSE Bytes([i \in DOMAIN x.items |-> IF x.items[i].k = "int" THEN x.items[i].v
                                         ELSE x.items[i].bytes[1]])

WithBytes(t) ==
    [p \in DOMAIN t |-> [class |-> t[p].class, fields |-> [f \in DOMAIN t[p].fields |->
        IF IsOctets(t[p], f) THEN AsBytes(t[p].fields[f]) ELSE t[p].fields[f]]]]

\* A ROS message comes back from its PDU in its values, its representation and the
\* classes of everything nested in it, in whichever form the converter hands the
\* sequences over: a byte[] as bytes, also one that was a list of ints or of single
\* bytes, and anything else unchanged.  A message that holds a fixed array as a
\* numpy.ndarray raises on its way to the PDU, whatever object it is in, and nothing
\* of it is sent.  Messages with a bounded sequence, which the mapper does not
\* recognise, are left out.
RoundTrip ==
    stage # "foreign" /\ Unbounded(source) =>
        IF Readable(source)
        THEN ~raised /\ (stage = "to_ros" /\ agenda = {} => to = WithBytes(source))
        ELSE stage = "to_pdu" /\ (agenda = {} => raised)

\* No copy leaves an object of another side's class where its destination declares
\* a message or a sequence of them, except a bounded one: a PDU object nested in a
\* ROS message would be serialised by duck typing.
NoForeignObject == Pure(to)

\* Whatever shape the source has, a byte[] field of a ROS message holds bytes
\* after the copy, not the ints that would be serialised as 0xff, unless the
\* source cannot be read as bytes.
OctetsAreBytes ==
    \A p \in {q \in DOMAIN to : to[q].class.side = "ros"} : \A f \in DOMAIN to[p].fields :
        IsOctets(to[p], f) => to[p].fields[f].k = "bytes" \/ OctetValues(to[p].fields[f]) = Unread
=============================================================================
