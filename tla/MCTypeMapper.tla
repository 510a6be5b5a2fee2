---------------------------- MODULE MCTypeMapper ----------------------------
(***************************************************************************)
(* The values of the constants of TypeMapper for TLC.                      *)
(***************************************************************************)
EXTENDS TypeMapper

Type(s, e)   == [shape |-> s, elem |-> e, bounded |-> FALSE]
Bounded(e)   == [shape |-> "seq", elem |-> e, bounded |-> TRUE]
Scalar       == Type("scalar", "none")

\* Missing is no message of its package
MCMessages ==
    [Item       |-> [kind |-> Scalar, data |-> Type("seq", "octet")],
     Bag        |-> [items |-> Type("seq", "Item"), one |-> Type("msg", "Item"),
                     raw |-> Type("seq", "uint16"), flags |-> Type("seq", "boolean"),
                     level |-> Type("seq", "uint8")],
     Bags       |-> [bags |-> Type("seq", "Bag")],
     BoundedBag |-> [items |-> Bounded("Item")],
     Undeclared |-> [items |-> Type("seq", "Missing")],
     Widened    |-> [kind |-> Scalar, data |-> Type("seq", "uint16")]]

Class(s, m)  == [side |-> s, msg |-> m]

\* the values below are written with their objects nested in them
Obj(c, fs)   == [k |-> "obj", class |-> c, fields |-> fs]
Flat(x)      == IF x.k = "obj" THEN Object
                ELSE IF x.k = "list" THEN List([i \in DOMAIN x.items |->
                                             IF x.items[i].k = "obj" THEN Object ELSE x.items[i]])
                ELSE x

RECURSIVE Tree(_)
Tree(o) ==
    LET flat  == [f \in DOMAIN o.fields |-> Flat(o.fields[f])]
        sub   == [s \in Places(flat) |->
                     Tree(IF s[2] = 0 THEN o.fields[s[1]] ELSE o.fields[s[1]].items[s[2]])]
        paths == {<<>>} \cup UNION {{<<s>> \o p : p \in DOMAIN sub[s]} : s \in DOMAIN sub}
    IN  [p \in paths |-> IF p = <<>> THEN [class |-> o.class, fields |-> flat]
                                     ELSE sub[p[1]][Tail(p)]]

Trees(S)     == {Tree(o) : o \in S}

Item(s, d)   == Obj(Class(s, "Item"), [kind |-> Num(7), data |-> d])
SomeItems    == {Item("ros", d) : d \in {Bytes(<<>>), Bytes(<<0, 255>>),
                                        List(<<Bytes(<<1>>), Num(255)>>)}}
Lists(S)     == {<<>>} \cup {<<a>> : a \in S} \cup {<<a, b>> : a, b \in S}

Bag(is, o, r, fs, l) ==
    Obj(Class("ros", "Bag"), [items |-> List(is), one |-> o, raw |-> r, flags |-> List(fs), level |-> l])

\* Opaque for a fixed array of numbers, in the outermost object or in a nested one
MCValues == Trees(
    {Bag(is, o, r, fs, l) :
        is \in Lists(SomeItems), o \in SomeItems, r \in {Ints(<<>>), Ints(<<258, 65535>>), Opaque},
        fs \in {<<>>, <<Bool(TRUE), Bool(FALSE)>>}, l \in {Ints(<<>>), Ints(<<0, 255, 1>>), Opaque}}
    \cup {Obj(Class("ros", "Bags"), [bags |-> List(bs)]) :
            bs \in Lists({Bag(<<o>>, o, Ints(<<1>>), <<>>, l) : o \in SomeItems,
                          l \in {Ints(<<2>>), Opaque}})}
    \cup {Obj(Class("ros", "BoundedBag"), [items |-> List(is)]) : is \in Lists(SomeItems)})

\* the shapes a byte sequence comes in, the last five not readable as one
Shapes ==
    {Bytes(<<1, 0>>), Bytes(<<1>>), Bytes(<<1, 0, 2>>), List(<<>>), Ints(<<1, 0>>),
     List(<<Bytes(<<1>>), Bytes(<<0>>)>>),
     Ints(<<256>>), Ints(<<-1>>), List(<<Bool(TRUE)>>), List(<<Bytes(<<1, 2>>)>>), Opaque}

MCForeign == Trees(
    {Item(s, d) : s \in {"ros", "pdu", "bare"}, d \in Shapes}
    \cup {Obj(Class(s, m), [items |-> List(<<Item(s, d), Item(s, Bytes(<<>>))>>)]) :
            s \in {"pdu", "bare"}, m \in {"BoundedBag", "Undeclared"}, d \in Shapes}
    \cup {Obj(Class("bare", "Bag"), [items |-> List(<<Item("bare", d)>>), one |-> Item("bare", d)]) :
            d \in Shapes})

\* new objects (no PDU class is annotated with a type that is not there), one that
\* already has two items, and one with an attribute of None
NewBag(s)    == New(Class(s, "Bag")).fields

MCTargets ==
    {Root(New(c)) : c \in [side : {"ros", "pdu", "bare"}, msg : DOMAIN MCMessages]
                              \ {Class("pdu", "Undeclared")}}
    \cup Trees({Obj(Class("ros", "Bag"),
                   [NewBag("ros") EXCEPT !.items = List(<<Item("ros", Bytes(<<>>)), Item("ros", Bytes(<<9>>))>>)]),
               Obj(Class("bare", "Bag"), [NewBag("bare") EXCEPT !.one = None])})
=============================================================================
