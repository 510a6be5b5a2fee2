------------------------- MODULE TypeMapper_proofs -------------------------
EXTENDS TypeMapper, SequenceTheorems, WellFoundedInduction, TLAPS

-----------------------------------------------------------------------------
(***************************************************************************)
(* Paths and values.                                                       *)
(***************************************************************************)
\* A path is longer than the one it extends, and determines it.
LEMMA AppendPath ==
    ASSUME NEW S, NEW p \in Seq(S), NEW s
    PROVE  /\ Len(p) \in Nat /\ Len(Append(p, s)) = Len(p) + 1
           /\ Append(p, s)[Len(p) + 1] = s
           /\ \A i \in 1 .. Len(p) : Append(p, s)[i] = p[i]
           /\ Append(p, s) # p /\ Append(p, s) # <<>>
  <1> DEFINE R == S \cup {s}
  <1>1. p \in Seq(R) /\ s \in R
    BY SeqMonotonic
  <1> HIDE DEF R
  <1>2. Len(p) \in Nat
    BY LenProperties
  <1>3. Len(Append(p, s)) = Len(p) + 1
    BY <1>1, AppendProperties
  <1>4. \A i \in 1 .. Len(p) + 1 : Append(p, s)[i] = IF i <= Len(p) THEN p[i] ELSE s
    BY <1>1, AppendProperties
  <1>5. Append(p, s) # p
    BY <1>2, <1>3
  <1>6. Append(p, s) # <<>>
    BY <1>1, AppendProperties
  <1> QED
    BY <1>2, <1>3, <1>4, <1>5, <1>6

\* Two extended paths are the same only if they are so with what extends them.
LEMMA SamePath ==
    ASSUME NEW S, NEW p \in Seq(S), NEW q \in Seq(S), NEW s, NEW t, Append(p, s) = Append(q, t)
    PROVE  p = q /\ s = t
  <1>1. Len(p) = Len(q) /\ Len(p) \in Nat
    BY AppendPath
  <1>2. \A i \in 1 .. Len(p) : p[i] = q[i]
    BY AppendPath, <1>1
  <1>3. p = q
    BY <1>1, <1>2, SeqEqual
  <1>4. s = t
    BY AppendPath, <1>1
  <1> QED
    BY <1>3, <1>4

\* The kinds of values are different.
LEMMA Kinds ==
    ASSUME NEW x \in FieldValues
    PROVE  /\ x.k \in {"int", "bool", "bytes", "list", "obj", "new", "alias", "none", "opaque"}
           /\ x.k = "int" => x \in SomeInt(Int)
           /\ x.k = "bool" => x \in SomeBool
           /\ x.k = "bytes" => x \in SomeBytes
           /\ x.k = "list" => x \in SomeList(Scalars \cup {Object})
           /\ x.k = "obj" => x = Object
           /\ x.k = "new" => x = Untouched
           /\ x.k = "alias" => x = Alias
           /\ x.k = "none" => x = None
           /\ x.k = "opaque" => x = Opaque
  BY DEF FieldValues, Scalars, SomeInt, SomeBool, SomeBytes, SomeList, Object, Untouched, Alias,
         None, Opaque

\* A list item is a scalar, or the object at its place.
LEMMA ScalarKinds ==
    ASSUME NEW x \in Scalars \cup {Object}
    PROVE  /\ x \in FieldValues
           /\ IsScalar(x) <=> x \in Scalars
           /\ ~IsScalar(x) <=> x = Object
  BY DEF FieldValues, Scalars, SomeInt, SomeBool, SomeBytes, Object, IsScalar

\* Where the objects in a value are.
LEMMA ItemsOf ==
    ASSUME NEW x \in FieldValues
    PROVE  /\ x = Object => Items(x) = {0}
           /\ x.k = "list" => /\ Items(x) = {i \in DOMAIN x.items : x.items[i] = Object}
                              /\ 0 \notin Items(x)
           /\ x # Object /\ x.k # "list" => Items(x) = {}
  <1>1. CASE x = Object
    BY <1>1 DEF Items, Object
  <1>2. CASE x.k = "list"
    <2>1. x # Object
      BY <1>2 DEF Object
    <2>2. x.items \in Seq(Scalars \cup {Object})
      BY <1>2, Kinds DEF SomeList
    <2>3. Items(x) = {i \in DOMAIN x.items : x.items[i] = Object}
      BY <1>2, <2>1 DEF Items
    <2>4. 0 \notin DOMAIN x.items
      BY <2>2
    <2> QED
      BY <1>2, <2>1, <2>3, <2>4
  <1>3. CASE x # Object /\ x.k # "list"
    BY <1>3, Zenon DEF Items
  <1> QED
    BY <1>1, <1>2, <1>3

-----------------------------------------------------------------------------
(***************************************************************************)
(* What the copy of one field gives.                                       *)
(***************************************************************************)
\* A sequence of bytes is read from bytes and from lists of scalars only.
LEMMA OctetsRead ==
    ASSUME NEW x \in FieldValues
    PROVE  /\ OctetValues(x) = Unread \/ OctetValues(x) \in SomeBytes
           /\ x.k = "bytes" => OctetValues(x) = x
           /\ x.k \notin {"bytes", "list"} => OctetValues(x) = Unread
           /\ x.k = "list" => \A i \in DOMAIN x.items : x.items[i] = Object => OctetValues(x) = Unread
  <1>1. CASE x.k = "bytes"
    <2>1. OctetValues(x) = x
      BY <1>1, Zenon DEF OctetValues
    <2> QED
      BY <1>1, <2>1, Kinds
  <1>2. CASE x.k = "list"
    <2> DEFINE s == x.items
               Octet(e) == (e.k = "bytes" /\ Len(e.bytes) = 1) \/ (e.k = "int" /\ e.v \in UInt8)
               b == [i \in DOMAIN s |-> IF s[i].k = "int" THEN s[i].v ELSE s[i].bytes[1]]
    <2>1. OctetValues(x) = IF \A i \in DOMAIN s : Octet(s[i]) THEN Bytes(b) ELSE Unread
      BY <1>2, Zenon DEF OctetValues
    <2>2. s \in Seq(Scalars \cup {Object})
      BY <1>2, Kinds DEF SomeList
    <2>3. ASSUME \A i \in DOMAIN s : Octet(s[i]) PROVE Bytes(b) \in SomeBytes
      <3>1. ASSUME NEW i \in DOMAIN s
            PROVE  (IF s[i].k = "int" THEN s[i].v ELSE s[i].bytes[1]) \in Int
        <4>1. s[i] \in Scalars \cup {Object} /\ Octet(s[i])
          BY <2>2, <2>3, <3>1
        <4> HIDE DEF s, b
        <4>2. CASE s[i].k = "int"
          <5>1. s[i] \in SomeInt(Int)
            BY <4>1, <4>2, ScalarKinds, Kinds
          <5>2. s[i].v \in Int
            BY <5>1 DEF SomeInt
          <5> QED
            BY <4>2, <5>2
        <4>3. CASE s[i].k = "bytes"
          <5>1. s[i] \in SomeBytes
            BY <4>1, <4>3, ScalarKinds, Kinds
          <5>2. s[i].bytes \in Seq(Int) /\ Len(s[i].bytes) = 1
            BY <4>1, <4>3, <5>1 DEF SomeBytes
          <5>3. s[i].bytes[1] \in Int
            BY <5>2
          <5> QED
            BY <4>3, <5>3
        <4> QED
          BY <4>1, <4>2, <4>3
      <3>2. b \in [DOMAIN s -> Int]
        BY <3>1
      <3>3. b \in Seq(Int)
        BY <2>2, <3>2
      <3> QED
        BY <3>3 DEF SomeBytes, Bytes
    <2>4. ASSUME NEW i \in DOMAIN s, s[i] = Object PROVE OctetValues(x) = Unread
      BY <2>1, <2>4 DEF Object
    <2> HIDE DEF b
    <2> QED
      BY <1>2, <2>1, <2>3, <2>4
  <1>3. CASE x.k \notin {"bytes", "list"}
    <2>1. OctetValues(x) = Unread
      BY <1>3, Zenon DEF OctetValues
    <2> QED
      BY <1>3, <2>1
  <1> QED
    BY <1>1, <1>2, <1>3

\* The values of a list of numbers.
LEMMA IntsList ==
    ASSUME NEW s \in Seq(Int)
    PROVE  Ints(s) \in SomeList(Scalars)
  <1>1. \A i \in DOMAIN s : Num(s[i]) \in Scalars
    BY DEF Num, Scalars, SomeInt
  <1>2. [i \in DOMAIN s |-> Num(s[i])] \in Seq(Scalars)
    BY <1>1
  <1> QED
    BY <1>2 DEF Ints, List, SomeList

\* Words of two or four bytes are decoded to a list of scalars.
LEMMA UnpackList ==
    ASSUME NEW raw \in Seq(Int), NEW size \in {2, 4}, NEW boolean \in BOOLEAN,
           Unpack(raw, size, boolean) # Raise
    PROVE  Unpack(raw, size, boolean) \in SomeList(Scalars)
  <1> DEFINE Word(i) == raw[size * (i - 1) + 1] + 256 * raw[size * (i - 1) + 2]
             n == Len(raw) \div size
             s == [i \in 1 .. n |-> IF boolean THEN Bool(Word(i) # 0) ELSE Num(Word(i))]
  <1>1. CASE Len(raw) < size
    <2>1. Unpack(raw, size, boolean) = List(<<>>)
      BY <1>1 DEF Unpack
    <2> QED
      BY <2>1 DEF List, SomeList
  <1>2. CASE ~(Len(raw) < size)
    <2>1. Unpack(raw, size, boolean) = List(s)
      BY <1>2, Zenon DEF Unpack
    <2>2. Len(raw) \in Nat /\ n \in Nat
      OBVIOUS
    <2>3. ASSUME NEW i \in 1 .. n PROVE Word(i) \in Int
      <3>1. size * (i - 1) + 1 \in 1 .. Len(raw) /\ size * (i - 1) + 2 \in 1 .. Len(raw)
        <4>1. CASE size = 2
          BY <2>2, <4>1
        <4>2. CASE size = 4
          BY <2>2, <4>2
        <4> QED
          BY <4>1, <4>2
      <3>2. \A j \in 1 .. Len(raw) : raw[j] \in Int
        OBVIOUS
      <3> QED
        BY <3>1, <3>2
    <2> HIDE DEF Word
    <2>4. \A i \in 1 .. n : (IF boolean THEN Bool(Word(i) # 0) ELSE Num(Word(i))) \in Scalars
      BY <2>3 DEF Bool, Num, Scalars, SomeInt, SomeBool
    <2>5. s \in [1 .. n -> Scalars]
      BY <2>4
    <2> HIDE DEF s, n
    <2>6. s \in Seq(Scalars)
      BY <2>2, <2>5, SeqDef
    <2> QED
      BY <2>1, <2>6 DEF List, SomeList
  <1> QED
    BY <1>1, <1>2

\* So is what a declared sequence makes of raw bytes.
LEMMA DecodeList ==
    ASSUME NEW dst, NEW f, NEW raw \in Seq(Int)
    PROVE  \/ Decode(dst, f, raw) \in SomeList(Scalars)
           \/ Decode(dst, f, raw) \in {Raise, Unread}
  <1>1. Ints(raw) \in SomeList(Scalars)
    BY IntsList
  <1>2. Unpack(raw, 4, TRUE) = Raise \/ Unpack(raw, 4, TRUE) \in SomeList(Scalars)
    BY UnpackList
  <1>3. Unpack(raw, 2, FALSE) = Raise \/ Unpack(raw, 2, FALSE) \in SomeList(Scalars)
    BY UnpackList
  <1>4. Decode(dst, f, raw) \in {Ints(raw), Unpack(raw, 4, TRUE), Unpack(raw, 2, FALSE), Unread}
    BY Zenon DEF Decode
  <1> QED
    BY <1>1, <1>2, <1>3, <1>4

\* A value of a source is one of an instance, and its lists hold scalars or objects.
LEMMA SourceKinds ==
    ASSUME NEW x \in SourceValues
    PROVE  /\ x \in FieldValues \ {Untouched, Alias}
           /\ x.k = "list" => x.items \in Seq(Scalars) \/ x.items \in Seq({Object})
  <1>1. SomeList(Scalars) \cup SomeList({Object}) \subseteq SomeList(Scalars \cup {Object})
    <2>1. Seq(Scalars) \subseteq Seq(Scalars \cup {Object}) /\ Seq({Object}) \subseteq Seq(Scalars \cup {Object})
      OBVIOUS
    <2> QED
      BY <2>1 DEF SomeList
  <1>2. x \in FieldValues
    BY <1>1 DEF SourceValues, FieldValues
  <1>3. x \notin {Untouched, Alias}
    BY DEF SourceValues, Scalars, SomeInt, SomeBool, SomeBytes, SomeList, Object, None, Opaque,
           Untouched, Alias
  <1>4. x.k = "list" => x \in SomeList(Scalars) \/ x \in SomeList({Object})
    BY DEF SourceValues, Scalars, SomeInt, SomeBool, SomeBytes, Object, None, Opaque
  <1> QED
    BY <1>2, <1>3, <1>4 DEF SomeList

\* A copied list: an object in it is one that the destination has at its place, or
\* comes from the source and is of a class that can be made.
LEMMA CopyListKeeps ==
    ASSUME NEW dst, NEW f, NEW items, items \in Seq(Scalars) \/ items \in Seq({Object}),
           dst.fields[f] \in FieldValues, CopyList(items, dst, f) # Raise
    PROVE  /\ CopyList(items, dst, f) \in SomeList(Scalars \cup {Object})
           /\ \A i \in Items(CopyList(items, dst, f)) :
                  \/ i \in Items(dst.fields[f])
                  \/ /\ i \in DOMAIN items /\ items[i] = Object
                     /\ Importable(ItemType(dst, f))
           /\ items # <<>> /\ items \in Seq({Object}) /\ dst.fields[f].k # "list" =>
                  CopyList(items, dst, f) = List([i \in DOMAIN items |-> Object])
  <1> DEFINE y == dst.fields[f]
             z == CopyList(items, dst, f)
             old == IF y.k = "list" THEN y.items ELSE <<>>
             s == [i \in DOMAIN items |-> IF IsScalar(items[i]) THEN items[i]
                                          ELSE IF i \in DOMAIN old THEN old[i] ELSE Object]
             Plain == items = <<>> \/ IsScalar(items[1])
  <1>1. Object \notin Scalars /\ ~IsScalar(Object)
    BY DEF Object, Scalars, SomeInt, SomeBool, SomeBytes, IsScalar
  <1>2. \A e \in Scalars : IsScalar(e)
    BY DEF Scalars, SomeInt, SomeBool, SomeBytes, IsScalar
  <1>3. items \in Seq(Scalars) => Plain
    BY <1>2
  <1>4. CASE Plain
    <2>1. z = List(items)
      BY <1>4, Zenon DEF CopyList
    <2>2. items \in Seq(Scalars)
      BY <1>1, <1>4
    <2>3. z \in SomeList(Scalars \cup {Object}) /\ z.k = "list" /\ z.items = items
      BY <2>1, <2>2 DEF List, SomeList
    <2>4. z \in FieldValues
      BY <2>3 DEF FieldValues
    <2>5. Items(z) = {}
      BY <1>1, <2>2, <2>3, <2>4, ItemsOf
    <2>6. items # <<>> => items \notin Seq({Object})
      BY <1>1, <1>4
    <2> QED
      BY <2>3, <2>5, <2>6
  <1>5. CASE ~Plain
    <2>1. z = List(s) /\ Importable(ItemType(dst, f))
      BY <1>5, Zenon DEF CopyList
    <2>2. items \in Seq({Object}) /\ \A i \in DOMAIN items : items[i] = Object
      BY <1>3, <1>5
    <2>3. y.k = "list" => y.items \in Seq(Scalars \cup {Object})
      BY Kinds DEF SomeList
    <2>4. \A i \in DOMAIN old : old[i] \in Scalars \cup {Object}
      BY <2>3
    <2>5. \A i \in DOMAIN items : s[i] = IF i \in DOMAIN old THEN old[i] ELSE Object
      BY <1>1, <2>2
    <2>6. s \in [DOMAIN items -> Scalars \cup {Object}]
      BY <2>4, <2>5
    <2>7. s \in Seq(Scalars \cup {Object}) /\ DOMAIN s = DOMAIN items
      BY <2>2, <2>6
    <2> HIDE DEF s
    <2>8. z \in SomeList(Scalars \cup {Object}) /\ z.k = "list" /\ z.items = s
      BY <2>1, <2>7 DEF List, SomeList
    <2>9. z \in FieldValues
      BY <2>8 DEF FieldValues
    <2>10. Items(z) = {i \in DOMAIN items : s[i] = Object}
      BY <2>7, <2>8, <2>9, ItemsOf
    <2>11. y.k = "list" => Items(y) = {i \in DOMAIN old : old[i] = Object}
      BY ItemsOf
    <2>12. DOMAIN old = {} \/ y.k = "list"
      OBVIOUS
    <2>13. ASSUME NEW i \in Items(z)
           PROVE  i \in Items(y) \/ (i \in DOMAIN items /\ items[i] = Object)
      BY <2>2, <2>10
    <2>14. ASSUME y.k # "list" PROVE z = List([i \in DOMAIN items |-> Object])
      <3>1. \A i \in DOMAIN items : s[i] = Object
        BY <2>5, <2>12, <2>14
      <3>2. s = [i \in DOMAIN items |-> Object]
        BY <2>6, <3>1
      <3> QED
        BY <2>1, <3>2
    <2> QED
      BY <2>1, <2>8, <2>13, <2>14
  <1> QED
    BY <1>4, <1>5

\* What becomes of a field, whatever its source: it keeps being one of an instance of
\* its class, the objects in it were there or are those of the source, and a byte[]
\* field that has held bytes does so again or holds what cannot be read as bytes.
LEMMA CopyFieldKeeps ==
    ASSUME NEW src, NEW dst, NEW f, src.fields[f] \in SourceValues,
           dst.fields[f] \in FieldValues, CopyField(src, dst, f) # Raise
    PROVE  LET x == src.fields[f]
               y == dst.fields[f]
               z == CopyField(src, dst, f)
           IN  /\ z \in FieldValues
               /\ z = Untouched => y = Untouched
               /\ y \notin {None, Alias} => z \notin {None, Alias}
               /\ \A i \in Items(z) :
                      \/ i \in Items(y)
                      \/ /\ i \in Items(x)
                         /\ IF i = 0 THEN y = Untouched ELSE Importable(ItemType(dst, f))
               /\ IsOctets(dst, f) /\ y.k = "bytes" => z.k = "bytes" \/ OctetValues(z) = Unread
  <1> DEFINE x == src.fields[f]
             y == dst.fields[f]
             z == CopyField(src, dst, f)
             Keeps ==
               /\ z \in FieldValues
               /\ z = Untouched => y = Untouched
               /\ y \notin {None, Alias} => z \notin {None, Alias}
               /\ \A i \in Items(z) :
                      \/ i \in Items(y)
                      \/ /\ i \in Items(x)
                         /\ IF i = 0 THEN y = Untouched ELSE Importable(ItemType(dst, f))
               /\ IsOctets(dst, f) /\ y.k = "bytes" => z.k = "bytes" \/ OctetValues(z) = Unread
  <1> SUFFICES Keeps
    OBVIOUS
  <1>1. x \in FieldValues \ {Untouched, Alias} /\ y \in FieldValues
    BY SourceKinds
  <1>2. /\ Object.k = "obj" /\ Untouched.k = "new" /\ Alias.k = "alias" /\ None.k = "none"
        /\ Unread.k = "unread"
    BY DEF Object, Untouched, Alias, None, Unread
  <1>a. SomeBytes \subseteq FieldValues /\ SomeList(Scalars) \subseteq FieldValues
    <2>1. Seq(Scalars) \subseteq Seq(Scalars \cup {Object})
      OBVIOUS
    <2>2. SomeList(Scalars) \subseteq SomeList(Scalars \cup {Object})
      BY <2>1 DEF SomeList
    <2> QED
      BY <2>2 DEF FieldValues, Scalars
  <1>b. ASSUME NEW w \in SomeList(Scalars) PROVE w.k = "list" /\ Items(w) = {}
    <2>1. w.k = "list" /\ w.items \in Seq(Scalars) /\ w \in FieldValues
      BY <1>a DEF SomeList
    <2>2. \A i \in DOMAIN w.items : w.items[i] # Object
      BY <2>1 DEF Object, Scalars, SomeInt, SomeBool, SomeBytes
    <2> QED
      BY <2>1, <2>2, ItemsOf
  <1>c. ASSUME NEW w \in SomeBytes PROVE w.k = "bytes" /\ Items(w) = {}
    <2>1. w.k = "bytes" /\ w \in FieldValues
      BY <1>a DEF SomeBytes
    <2> QED
      BY <2>1, <1>2, ItemsOf
  <1>3. CASE Octets(src, dst, f) # Unread
    <2>1. z = Octets(src, dst, f)
      BY <1>3, Zenon DEF CopyField
    <2> DEFINE read == OctetValues(x)
    <2>a. IsOctets(dst, f) => FieldType(dst, f) # NoType
      BY DEF IsOctets, Declares, NoType
    <2>2. read # Unread /\ z \in {read, Ints(read.bytes)} /\ (IsOctets(dst, f) => z = read)
      BY <1>3, <2>1, <2>a, Zenon DEF Octets
    <2>3. read \in SomeBytes
      BY <1>1, <2>2, OctetsRead
    <2>4. read.bytes \in Seq(Int)
      BY <2>3 DEF SomeBytes
    <2>5. z \in SomeBytes \/ z \in SomeList(Scalars)
      BY <2>2, <2>3, <2>4, IntsList
    <2>6. z.k = "bytes" \/ z.k = "list"
      BY <2>5, <1>b, <1>c
    <2>7. IsOctets(dst, f) => z.k = "bytes"
      BY <2>2, <2>3, <1>c
    <2> HIDE DEF z
    <2> QED
      BY <2>5, <2>6, <2>7, <1>a, <1>b, <1>c, <1>2
  <1>4. CASE Octets(src, dst, f) = Unread /\ Decoded(dst, f, x) # Unread
    <2>1. z = Decoded(dst, f, x)
      BY <1>4, Zenon DEF CopyField
    <2>2. x.k = "bytes" /\ z = Decode(dst, f, x.bytes)
      BY <1>4, <2>1, Zenon DEF Decoded
    <2>3. x.bytes \in Seq(Int) /\ OctetValues(x) # Unread
      <3>1. x \in SomeBytes /\ OctetValues(x) = x
        BY <1>1, <2>2, Kinds, OctetsRead
      <3> QED
        BY <3>1, <1>2, <2>2 DEF SomeBytes
    <2>4. z \in SomeList(Scalars)
      BY <1>4, <2>1, <2>2, <2>3, DecodeList
    <2>5. ~IsOctets(dst, f)
      <3>1. IsOctets(dst, f) => Octets(src, dst, f) = OctetValues(x)
        <4>1. IsOctets(dst, f) => FieldType(dst, f) # NoType
          BY DEF IsOctets, Declares, NoType
        <4> QED
          BY <2>3, <4>1, Zenon DEF Octets
      <3> QED
        BY <1>4, <2>3, <3>1
    <2> HIDE DEF z
    <2> QED
      BY <2>4, <2>5, <1>a, <1>b, <1>2
  <1> DEFINE Other == Octets(src, dst, f) = Unread /\ Decoded(dst, f, x) = Unread
  <1>5. ASSUME Other, IsOctets(dst, f) PROVE OctetValues(x) = Unread
    <2>1. IsOctets(dst, f) => FieldType(dst, f) # NoType
      BY DEF IsOctets, Declares, NoType
    <2> QED
      BY <1>5, <2>1, Zenon DEF Octets
  <1>6. CASE Other /\ IsScalar(x)
    <2>1. z = x
      BY <1>6, Zenon DEF CopyField
    <2>2. x.k \in {"int", "bool", "bytes"}
      BY <1>6 DEF IsScalar
    <2>3. Items(x) = {}
      BY <1>1, <1>2, <2>2, ItemsOf
    <2>4. IsOctets(dst, f) => OctetValues(z) = Unread
      BY <1>5, <1>6, <2>1
    <2> HIDE DEF z
    <2> QED
      BY <1>1, <1>2, <2>1, <2>2, <2>3, <2>4
  <1>7. CASE Other /\ ~IsScalar(x) /\ x.k = "list"
    <2>1. z = CopyList(x.items, dst, f)
      BY <1>7, Zenon DEF CopyField
    <2>2. x.items \in Seq(Scalars) \/ x.items \in Seq({Object})
      BY <1>7, SourceKinds
    <2>3. /\ z \in SomeList(Scalars \cup {Object})
          /\ \A i \in Items(z) : \/ i \in Items(y)
                                 \/ /\ i \in DOMAIN x.items /\ x.items[i] = Object
                                    /\ Importable(ItemType(dst, f))
          /\ x.items # <<>> /\ x.items \in Seq({Object}) /\ y.k # "list" =>
                  z = List([i \in DOMAIN x.items |-> Object])
      <3> DEFINE items == x.items
      <3>1. items \in Seq(Scalars) \/ items \in Seq({Object})
        BY <2>2
      <3>2. CopyList(items, dst, f) # Raise /\ z = CopyList(items, dst, f)
        BY <2>1
      <3> HIDE DEF items, z
      <3> QED
        BY <3>1, <3>2, CopyListKeeps DEF items
    <2>4. z \in FieldValues /\ z.k = "list"
      BY <2>3 DEF FieldValues, SomeList
    <2>5. Items(x) = {i \in DOMAIN x.items : x.items[i] = Object} /\ 0 \notin Items(x)
      BY <1>1, <1>7, ItemsOf
    <2>6. ASSUME IsOctets(dst, f), y.k = "bytes" PROVE OctetValues(z) = Unread
      <3>1. OctetValues(x) = Unread
        BY <1>5, <1>7, <2>6
      <3>2. CASE x.items # <<>> /\ x.items \in Seq({Object})
        <4> DEFINE s == [i \in DOMAIN x.items |-> Object]
        <4>1. z = List(s) /\ 1 \in DOMAIN s /\ s[1] = Object
          BY <2>3, <2>6, <3>2
        <4>2. z.items = s
          BY <4>1 DEF List
        <4> QED
          BY <2>4, <4>1, <4>2, OctetsRead
      <3>3. CASE x.items = <<>> \/ x.items \in Seq(Scalars)
        <4>1. x.items = <<>> \/ IsScalar(x.items[1])
          <5>1. \A e \in Scalars : IsScalar(e)
            BY DEF Scalars, SomeInt, SomeBool, SomeBytes, IsScalar
          <5> QED
            BY <3>3, <5>1
        <4>2. z = List(x.items)
          BY <2>1, <4>1, Zenon DEF CopyList
        <4>3. x = List(x.items)
          <5>1. x \in SomeList(Scalars \cup {Object})
            BY <1>1, <1>7, Kinds
          <5> QED
            BY <5>1 DEF SomeList, List
        <4> QED
          BY <3>1, <4>2, <4>3
      <3> QED
        BY <2>2, <3>2, <3>3
    <2> HIDE DEF z
    <2> QED
      BY <2>3, <2>4, <2>5, <2>6, <1>2
  <1>8. CASE Other /\ ~IsScalar(x) /\ x.k # "list"
    <2>1. z \in {Alias, x, Object, y} /\ (z # y => (y = None /\ z = IF x = Object THEN Alias ELSE x)
                                              \/ (x = Object /\ y = Untouched /\ z = Object))
      BY <1>8, Zenon DEF CopyField
    <2>2. CASE z = y
      <3>1. IsOctets(dst, f) /\ y.k = "bytes" => z.k = "bytes"
        BY <2>2
      <3> HIDE DEF z
      <3> QED
        BY <2>2, <3>1, <1>1
    <2>3. CASE y = None /\ z = IF x = Object THEN Alias ELSE x
      <3>1. x # Object => Items(x) = {}
        BY <1>1, <1>8, ItemsOf
      <3>2. Alias \in FieldValues /\ Alias # Object /\ Alias.k # "list"
        BY <1>2 DEF FieldValues
      <3>3. Items(Alias) = {}
        BY <3>2, ItemsOf
      <3> HIDE DEF z
      <3> QED
        BY <2>3, <3>1, <3>2, <3>3, <1>1, <1>2
    <2>4. CASE x = Object /\ y = Untouched /\ z = Object
      <3>1. Items(x) = {0} /\ Object \in FieldValues
        BY <2>4, <1>1, ItemsOf
      <3> HIDE DEF z
      <3> QED
        BY <2>4, <3>1, <1>2
    <2> QED
      BY <2>1, <2>2, <2>3, <2>4
  <1> QED
    BY <1>3, <1>4, <1>6, <1>7, <1>8

-----------------------------------------------------------------------------
(***************************************************************************)
(* A copy of any source to any target: its invariant.                      *)
(***************************************************************************)
Paths == Seq(STRING \X Nat)

\* q is a or leads on from it.
Below(a, q) == Len(a) <= Len(q) /\ \A i \in 1 .. Len(a) : q[i] = a[i]

\* An object that is still to be copied is below no other one, and everything below it
\* is as it was at first.
ToInv ==
    /\ IsSource(from)
    /\ IsTree(to) /\ Pure(to) /\ \A p \in DOMAIN to : IsInstance(to[p])
    /\ OctetsAreBytes
    /\ agenda \subseteq DOMAIN from \cap DOMAIN to
    /\ \A a \in agenda : \A q \in DOMAIN to : Below(a, q) => HasBytes(to[q])
    /\ \A a, b \in agenda : Below(a, b) => a = b

\* A place in an object is a field and a place in its value.
LEMMA PlaceIn ==
    ASSUME NEW fields, NEW s
    PROVE  s \in Places(fields) <=> \E f \in DOMAIN fields : \E i \in Items(fields[f]) : s = <<f, i>>
  BY DEF Places

\* A new object has no object in it yet.
LEMMA NewInstance ==
    ASSUME NEW c \in Classes
    PROVE  /\ New(c).class = c /\ IsInstance(New(c)) /\ HasBytes(New(c))
           /\ DOMAIN New(c).fields = DOMAIN Messages[c.msg]
           /\ \A f \in DOMAIN New(c).fields : Items(New(c).fields[f]) = {} /\ New(c).fields[f] # Alias
           /\ Places(New(c).fields) = {}
  <1> DEFINE o == New(c)
  <1>1. o.class = c /\ DOMAIN o.fields = DOMAIN Messages[c.msg]
    BY DEF New
  <1>2. ASSUME NEW f \in DOMAIN o.fields
        PROVE  LET t == Messages[c.msg][f]
                   y == o.fields[f]
               IN  /\ t.shape = "msg" => y = Untouched
                   /\ t.shape = "seq" => y = IF t.elem = "octet" /\ c.side = "ros"
                                             THEN Bytes(<<>>) ELSE List(<<>>)
                   /\ t.shape = "scalar" => y = Num(0)
                   /\ t.shape \in {"msg", "seq", "scalar"}
    <2>1. Messages[c.msg][f].shape \in {"msg", "seq", "scalar"}
      BY <1>1, MapperAssumption DEF Classes
    <2> QED
      BY <2>1 DEF New
  <1>3. /\ Untouched \in FieldValues /\ Bytes(<<>>) \in FieldValues /\ List(<<>>) \in FieldValues
        /\ Num(0) \in FieldValues
    <2>1. <<>> \in Seq(Int) /\ <<>> \in Seq(Scalars \cup {Object})
      OBVIOUS
    <2> QED
      BY <2>1 DEF FieldValues, Scalars, SomeInt, SomeBytes, SomeList, Bytes, List, Num
  <1>4. /\ Untouched.k = "new" /\ Bytes(<<>>).k = "bytes" /\ List(<<>>).k = "list" /\ Num(0).k = "int"
        /\ Object.k = "obj" /\ None.k = "none" /\ Alias.k = "alias" /\ List(<<>>).items = <<>>
    BY DEF Untouched, Bytes, List, Num, Object, None, Alias
  <1>5. ASSUME NEW f \in DOMAIN o.fields
        PROVE  /\ o.fields[f] \in FieldValues \ {None, Alias} /\ Items(o.fields[f]) = {}
               /\ o.fields[f] = Untouched => Messages[c.msg][f].shape = "msg"
    <2> DEFINE y == o.fields[f]
    <2>1. y \in {Untouched, Bytes(<<>>), List(<<>>), Num(0)}
          /\ (Messages[c.msg][f].shape # "msg" => y # Untouched)
      BY <1>2, <1>4
    <2> HIDE DEF y
    <2>2. Items(y) = {}
      BY <2>1, <1>3, <1>4, ItemsOf
    <2> QED
      BY <2>1, <2>2, <1>3, <1>4 DEF y
  <1>6. HasBytes(o)
    <2> SUFFICES ASSUME NEW f \in DOMAIN o.fields, IsOctets(o, f) PROVE o.fields[f].k = "bytes"
      BY DEF HasBytes
    <2>1. c.side = "ros" /\ Messages[c.msg][f].shape = "seq" /\ Messages[c.msg][f].elem = "octet"
      BY <1>1 DEF IsOctets, Declares, FieldType, NoType
    <2> QED
      BY <2>1, <1>2, <1>4
  <1>7. IsInstance(o)
    BY <1>1, <1>5 DEF IsInstance
  <1>8. Places(o.fields) = {}
    BY <1>5, PlaceIn
  <1> HIDE DEF o
  <1> QED
    BY <1>1, <1>5, <1>6, <1>7, <1>8 DEF o

\* The class of an object that is made for the place i of a field f of an instance.
LEMMA MadeClass ==
    ASSUME NEW dst, IsInstance(dst), NEW item, item.class \in Classes,
           NEW f \in DOMAIN dst.fields, NEW i,
           IF i = 0 THEN dst.fields[f] = Untouched ELSE Importable(ItemType(dst, f))
    PROVE  /\ ClassAt(dst, <<f, i>>, item) \in Classes
           /\ IsMessagePlace(Messages[dst.class.msg][f], i) /\ dst.class.side # "bare" =>
                  ClassAt(dst, <<f, i>>, item).side = dst.class.side
  <1> DEFINE c == dst.class
             t == Messages[c.msg][f]
             d == [c EXCEPT !.msg = t.elem]
  <1>1. c \in Classes /\ f \in DOMAIN Messages[c.msg]
    BY DEF IsInstance
  <1>2. d.side = c.side /\ d.msg = t.elem /\ (t.elem \in DOMAIN Messages => d \in Classes)
    BY <1>1 DEF Classes
  <1>3. CASE i = 0
    <2>1. t.shape = "msg"
      BY <1>3 DEF IsInstance
    <2>2. t.elem \in DOMAIN Messages
      BY <2>1, <1>1, MapperAssumption DEF Classes
    <2>3. ClassAt(dst, <<f, i>>, item) = d
      BY <1>3 DEF ClassAt
    <2> QED
      BY <1>2, <2>2, <2>3
  <1>4. CASE i # 0
    <2>1. ClassAt(dst, <<f, i>>, item) = IF ItemType(dst, f) # NoClass THEN ItemType(dst, f) ELSE item.class
      BY <1>4 DEF ClassAt
    <2>2. ItemType(dst, f) = IF t.shape = "seq" /\ (c.side = "pdu" \/ (c.side = "ros" /\ ~t.bounded /\ t.elem \notin Primitive))
                             THEN d ELSE NoClass
      BY DEF ItemType
    <2>3. d # NoClass
      BY <1>1, <1>2 DEF NoClass, Classes
    <2>4. ItemType(dst, f) # NoClass => ItemType(dst, f) \in Classes
      BY <1>2, <1>4, <2>2 DEF Importable
    <2>5. ASSUME IsMessagePlace(t, i), c.side # "bare" PROVE ItemType(dst, f) = d
      BY <1>1, <1>4, <2>2, <2>5 DEF IsMessagePlace, Classes
    <2> HIDE DEF d, c, t
    <2> QED
      BY <2>1, <2>3, <2>4, <2>5, <1>2 DEF c, t
  <1> QED
    BY <1>3, <1>4

\* What is below what.
LEMMA BelowPaths ==
    /\ \A p \in Paths : Below(p, p)
    /\ \A a, b, c \in Paths : Below(a, b) /\ Below(b, c) => Below(a, c)
    /\ \A p \in Paths : \A s \in STRING \X Nat :
          /\ Append(p, s) \in Paths /\ Below(p, Append(p, s)) /\ ~Below(Append(p, s), p)
          /\ \A b \in Paths : Below(b, Append(p, s)) => Below(b, p) \/ b = Append(p, s)
          /\ \A t \in STRING \X Nat : Below(Append(p, s), Append(p, t)) => s = t
  <1>1. \A p \in Paths : Len(p) \in Nat
    BY DEF Paths
  <1>2. \A p \in Paths : Below(p, p)
    BY <1>1 DEF Below
  <1>3. ASSUME NEW a \in Paths, NEW b \in Paths, NEW c \in Paths, Below(a, b), Below(b, c)
        PROVE  Below(a, c)
    BY <1>1, <1>3 DEF Below
  <1>4. ASSUME NEW p \in Paths, NEW s \in STRING \X Nat
        PROVE  /\ Append(p, s) \in Paths /\ Below(p, Append(p, s)) /\ ~Below(Append(p, s), p)
               /\ \A b \in Paths : Below(b, Append(p, s)) => Below(b, p) \/ b = Append(p, s)
               /\ \A t \in STRING \X Nat : Below(Append(p, s), Append(p, t)) => s = t
    <2> DEFINE q == Append(p, s)
    <2>1. q \in Paths
      BY DEF Paths
    <2>2. /\ Len(p) \in Nat /\ Len(q) = Len(p) + 1 /\ q[Len(p) + 1] = s
          /\ \A i \in 1 .. Len(p) : q[i] = p[i]
      BY AppendPath DEF Paths
    <2>3. ASSUME NEW t \in STRING \X Nat
          PROVE  Len(Append(p, t)) = Len(p) + 1 /\ Append(p, t)[Len(p) + 1] = t
      BY AppendPath DEF Paths
    <2> HIDE DEF q
    <2>4. Below(p, q) /\ ~Below(q, p)
      BY <2>2 DEF Below
    <2>5. ASSUME NEW b \in Paths, Below(b, q), ~Below(b, p) PROVE b = q
      <3>1. Len(b) = Len(q)
        BY <1>1, <2>2, <2>5 DEF Below
      <3>2. \A i \in 1 .. Len(q) : b[i] = q[i]
        BY <2>5, <3>1 DEF Below
      <3> QED
        BY <2>1, <3>1, <3>2, SeqEqual DEF Paths
    <2>6. ASSUME NEW t \in STRING \X Nat, Below(q, Append(p, t)) PROVE s = t
      <3> DEFINE r == Append(p, t)
      <3>1. r[Len(p) + 1] = t /\ Len(p) + 1 \in 1 .. Len(q)
        BY <2>2, <2>3
      <3> HIDE DEF r
      <3> QED
        BY <2>2, <2>6, <3>1 DEF Below, r
    <2> QED
      BY <2>1, <2>4, <2>5, <2>6 DEF q
  <1> QED
    BY <1>2, <1>3, <1>4

\* The same for the paths of the trees.
LEMMA SamePlace ==
    \A p, q \in Paths : \A s, t : Append(p, s) = Append(q, t) => p = q /\ s = t
  <1> SUFFICES ASSUME NEW p \in Paths, NEW q \in Paths, NEW s, NEW t, Append(p, s) = Append(q, t)
               PROVE  p = q /\ s = t
    OBVIOUS
  <1> DEFINE S == STRING \X Nat
  <1>1. p \in Seq(S) /\ q \in Seq(S)
    BY DEF Paths
  <1> HIDE DEF S
  <1> QED
    BY <1>1, SamePath

\* What extends a path to another is a place.
LEMMA PlaceOfPath ==
    ASSUME NEW p \in Paths, NEW s, Append(p, s) \in Paths
    PROVE  s \in STRING \X Nat
  <1> DEFINE r == Append(p, s)
  <1>1. Len(p) \in Nat /\ Len(r) = Len(p) + 1 /\ r[Len(p) + 1] = s
    BY AppendPath DEF Paths
  <1>2. r \in Seq(STRING \X Nat) /\ Len(p) + 1 \in 1 .. Len(r)
    BY <1>1 DEF Paths
  <1> HIDE DEF r
  <1> QED
    BY <1>1, <1>2

\* One object is copied, in whatever state the others are.
LEMMA CopyStep ==
    ASSUME ToInv, NEW p \in agenda, CopyObject(p)
    PROVE  ToInv'
  <1> DEFINE src == from[p]
             dst == to[p]
             shared == Shared(src, dst)
             copied == Copied(src, dst)
             made == {Append(p, s) : s \in Places(copied) \ Places(dst.fields)}
             nested == {Append(p, s) : s \in Places(copied)} \cap DOMAIN from
             node == [class |-> dst.class, fields |-> copied]
  <1>1. CASE \E f \in shared : copied[f] = Raise
    <2>1. agenda' = {} /\ UNCHANGED <<from, to>>
      BY <1>1 DEF CopyObject
    <2> QED
      BY <2>1 DEF ToInv, OctetsAreBytes
  <1>2. CASE \A f \in shared : copied[f] # Raise
    <2>1. /\ to' = [q \in DOMAIN to \cup made |->
                       CASE q \in made -> New(ClassAt(dst, q[Len(q)], from[q]))
                         [] q = p -> node
                         [] OTHER -> to[q]]
          /\ agenda' = (agenda \ {p}) \cup nested
          /\ from' = from
      BY <1>2 DEF CopyObject
    <2>2. /\ p \in DOMAIN from /\ p \in DOMAIN to /\ p \in Paths
          /\ DOMAIN from \subseteq Paths /\ DOMAIN to \subseteq Paths
          /\ IsInstance(dst) /\ dst.class \in Classes
      BY DEF ToInv, IsSource, IsTree, IsInstance, Paths
    <2>3. shared \subseteq DOMAIN dst.fields /\ DOMAIN copied = DOMAIN dst.fields
      BY DEF Shared, Copied
    <2>4. ASSUME NEW f \in DOMAIN copied
          PROVE  LET y == dst.fields[f]
                     z == copied[f]
                 IN  /\ z \in FieldValues
                     /\ z = Untouched => y = Untouched
                     /\ y \notin {None, Alias} => z \notin {None, Alias}
                     /\ \A i \in Items(z) :
                          \/ i \in Items(y)
                          \/ /\ f \in DOMAIN src.fields /\ i \in Items(src.fields[f])
                             /\ IF i = 0 THEN y = Untouched ELSE Importable(ItemType(dst, f))
                     /\ IsOctets(dst, f) /\ y.k = "bytes" => z.k = "bytes" \/ OctetValues(z) = Unread
      <3>1. dst.fields[f] \in FieldValues
        BY <2>2, <2>3 DEF IsInstance
      <3>2. CASE f \in shared
        <4>1. f \in DOMAIN src.fields /\ copied[f] = CopyField(src, dst, f)
          BY <2>3, <3>2, Zenon DEF Shared, Copied
        <4>2. src.fields[f] \in SourceValues /\ CopyField(src, dst, f) # Raise
          BY <1>2, <2>2, <3>2, <4>1 DEF ToInv, IsSource
        <4> HIDE DEF src, dst, copied, shared
        <4> QED
          BY <3>1, <4>1, <4>2, CopyFieldKeeps
      <3>3. CASE f \notin shared
        <4>1. copied[f] = dst.fields[f]
          BY <2>3, <3>3 DEF Copied
        <4> HIDE DEF copied, dst
        <4> QED
          BY <3>1, <4>1
      <3> QED
        BY <3>2, <3>3
    <2>5. ASSUME NEW s \in Places(copied) \ Places(dst.fields)
          PROVE  /\ Append(p, s) \in DOMAIN from
                 /\ ClassAt(dst, s, from[Append(p, s)]) \in Classes
                 /\ \A f \in DOMAIN dst.fields : \A i :
                      s = <<f, i>> /\ IsMessagePlace(Messages[dst.class.msg][f], i) /\ dst.class.side # "bare" =>
                          ClassAt(dst, s, from[Append(p, s)]).side = dst.class.side
      <3>1. PICK f \in DOMAIN copied : \E i \in Items(copied[f]) : s = <<f, i>>
        BY PlaceIn
      <3>2. PICK i \in Items(copied[f]) : s = <<f, i>>
        BY <3>1
      <3>3. f \in DOMAIN dst.fields
        BY <2>3
      <3>4. i \notin Items(dst.fields[f])
        BY <3>2, <3>3, PlaceIn
      <3>5. /\ f \in DOMAIN src.fields /\ i \in Items(src.fields[f])
            /\ IF i = 0 THEN dst.fields[f] = Untouched ELSE Importable(ItemType(dst, f))
        BY <2>4, <3>4
      <3>6. s \in Places(src.fields)
        BY <3>2, <3>5, PlaceIn
      <3>7. Append(p, s) \in DOMAIN from
        BY <2>2, <3>6 DEF ToInv, IsSource, IsTree
      <3> DEFINE item == from[Append(p, s)]
      <3>8. item.class \in Classes
        BY <3>7 DEF ToInv, IsSource
      <3> HIDE DEF item, src, dst, copied
      <3>9. /\ ClassAt(dst, s, item) \in Classes
            /\ IsMessagePlace(Messages[dst.class.msg][f], i) /\ dst.class.side # "bare" =>
                  ClassAt(dst, s, item).side = dst.class.side
        BY <2>2, <3>2, <3>3, <3>5, <3>8, MadeClass
      <3> QED
        BY <3>2, <3>7, <3>9 DEF item
    <2>6. made \subseteq DOMAIN from /\ p \notin made
      <3>1. \A s : Append(p, s) # p
        BY <2>2, AppendPath DEF Paths
      <3> QED
        BY <2>5, <3>1
    <2>7. ASSUME NEW q \in made
          PROVE  \E s \in Places(copied) \ Places(dst.fields) :
                     q = Append(p, s) /\ to'[q] = New(ClassAt(dst, s, from[q]))
      <3>1. PICK s \in Places(copied) \ Places(dst.fields) : q = Append(p, s)
        OBVIOUS
      <3>2. q[Len(q)] = s
        BY <2>2, <3>1, AppendPath DEF Paths
      <3>3. to'[q] = New(ClassAt(dst, q[Len(q)], from[q]))
        <4> HIDE DEF made, node
        <4> QED
          BY <2>1, <2>6
      <3> QED
        BY <3>1, <3>2, <3>3
    <2>8. to'[p] = node
      <3> HIDE DEF made, node
      <3> QED
        BY <2>1, <2>2, <2>6
    <2>9. ASSUME NEW q \in DOMAIN to, q \notin made, q # p PROVE to'[q] = to[q]
      <3> HIDE DEF made, node
      <3> QED
        BY <2>1, <2>9
    <2>10. DOMAIN to' = DOMAIN to \cup made /\ DOMAIN to' \subseteq Paths
      BY <2>1, <2>2, <2>6
    <2>11. node.class = dst.class /\ node.fields = copied
      OBVIOUS
    <2>12. ASSUME NEW q \in made
           PROVE  /\ to'[q] = New(to'[q].class) /\ to'[q].class \in Classes
                  /\ Places(to'[q].fields) = {} /\ IsInstance(to'[q]) /\ HasBytes(to'[q])
                  /\ \A f \in DOMAIN to'[q].fields : Items(to'[q].fields[f]) = {} /\ to'[q].fields[f] # Alias
      <3>1. PICK s \in Places(copied) \ Places(dst.fields) :
                     q = Append(p, s) /\ to'[q] = New(ClassAt(dst, s, from[q]))
        BY <2>7
      <3>2. ClassAt(dst, s, from[q]) \in Classes
        BY <2>5, <3>1
      <3> DEFINE c == ClassAt(dst, s, from[q])
      <3>3. to'[q] = New(c) /\ c \in Classes
        BY <3>1, <3>2
      <3> HIDE DEF c, made, copied, dst
      <3>4. /\ New(c).class = c /\ IsInstance(New(c)) /\ HasBytes(New(c)) /\ Places(New(c).fields) = {}
            /\ \A f \in DOMAIN New(c).fields : Items(New(c).fields[f]) = {} /\ New(c).fields[f] # Alias
        BY <3>3, NewInstance
      <3> QED
        BY <3>3, <3>4
    <2> HIDE DEF copied, made, node, shared, nested
    <2>13. /\ \A f \in DOMAIN dst.fields : dst.fields[f] \in FieldValues
           /\ IsTree(to) /\ Pure(to)
           /\ \A q \in DOMAIN to : \A s \in Places(to[q].fields) : Append(q, s) \in DOMAIN to
      BY <2>2 DEF ToInv, IsTree, IsInstance
    <2>14. ASSUME NEW q \in DOMAIN to' PROVE q \in made \/ q = p \/ (q \in DOMAIN to /\ to'[q] = to[q])
      BY <2>9, <2>10
    <2>15. ASSUME NEW s \in Places(copied)
           PROVE  /\ Append(p, s) \in DOMAIN to' /\ s \in STRING \X Nat
                  /\ Append(p, s) \in made \/ s \in Places(dst.fields)
      <3>1. CASE s \in Places(dst.fields)
        <4>1. Append(p, s) \in DOMAIN to
          BY <2>2, <2>13, <3>1
        <4> QED
          BY <2>2, <2>10, <3>1, <4>1, PlaceOfPath
      <3>2. CASE s \notin Places(dst.fields)
        <4>1. Append(p, s) \in made
          BY <3>2 DEF made
        <4> QED
          BY <2>2, <2>6, <2>10, <4>1, PlaceOfPath
      <3> QED
        BY <3>1, <3>2
    <2>16. IsTree(to')
      <3>1. ASSUME NEW q \in DOMAIN to', NEW s \in Places(to'[q].fields)
            PROVE  Append(q, s) \in DOMAIN to'
        <4>1. CASE q \in made
          BY <2>12, <3>1, <4>1
        <4>2. CASE q = p
          BY <2>8, <2>11, <2>15, <3>1, <4>2
        <4>3. CASE q \in DOMAIN to /\ to'[q] = to[q]
          BY <2>10, <2>13, <3>1, <4>3
        <4> QED
          BY <2>14, <4>1, <4>2, <4>3
      <3>2. <<>> \in DOMAIN to'
        BY <2>10, <2>13 DEF IsTree
      <3> QED
        BY <2>10, <3>1, <3>2 DEF IsTree, Paths
    <2>17. Pure(to')
      <3> SUFFICES ASSUME NEW q \in DOMAIN to', to'[q].class.side # "bare", NEW f \in DOMAIN to'[q].fields
                   PROVE  /\ to'[q].fields[f] # Alias
                          /\ \A i \in Items(to'[q].fields[f]) :
                                 IsMessagePlace(Messages[to'[q].class.msg][f], i) =>
                                     to'[Append(q, <<f, i>>)].class.side = to'[q].class.side
        BY DEF Pure
      <3>1. CASE q \in made
        BY <2>12, <3>1
      <3>2. CASE q = p
        <4>1. dst.class.side # "bare" /\ to'[q].class = dst.class /\ to'[q].fields = copied
              /\ f \in DOMAIN dst.fields /\ f \in DOMAIN copied
          BY <2>3, <2>8, <2>11, <3>2
        <4>2. dst.fields[f] \notin {None, Alias}
          BY <2>2, <4>1 DEF IsInstance
        <4>3. copied[f] # Alias
          BY <2>4, <4>1, <4>2
        <4>4. ASSUME NEW i \in Items(copied[f]), IsMessagePlace(Messages[dst.class.msg][f], i)
              PROVE  to'[Append(p, <<f, i>>)].class.side = dst.class.side
          <5> DEFINE s == <<f, i>>
          <5>1. s \in Places(copied)
            BY <4>1, <4>4, PlaceIn
          <5>2. Append(p, s) \in made \/ s \in Places(dst.fields)
            BY <2>15, <5>1
          <5>3. CASE Append(p, s) \in made
            <6>1. PICK t \in Places(copied) \ Places(dst.fields) :
                        /\ Append(p, s) = Append(p, t)
                        /\ to'[Append(p, s)] = New(ClassAt(dst, t, from[Append(p, s)]))
              BY <2>7, <5>3
            <6>2. t = s
              <7> HIDE DEF s
              <7> QED
                BY <2>2, <6>1, SamePath DEF Paths
            <6>3. ClassAt(dst, s, from[Append(p, s)]).side = dst.class.side
              BY <2>5, <4>1, <4>4, <6>1, <6>2
            <6>4. ClassAt(dst, s, from[Append(p, s)]) \in Classes
              BY <2>5, <6>1, <6>2
            <6> HIDE DEF s
            <6>5. to'[Append(p, s)].class = ClassAt(dst, s, from[Append(p, s)])
              BY <6>1, <6>2, <6>4, NewInstance
            <6> QED
              BY <6>3, <6>5 DEF s
          <5>4. CASE Append(p, s) \notin made
            <6>1. s \in Places(dst.fields)
              BY <5>2, <5>4
            <6>2. i \in Items(dst.fields[f])
              BY <6>1, PlaceIn
            <6>3. Append(p, s) \in DOMAIN to /\ Append(p, s) # p
              BY <2>2, <2>13, <6>1, AppendPath DEF Paths
            <6>4. to'[Append(p, s)] = to[Append(p, s)]
              BY <2>9, <5>4, <6>3
            <6>5. to[Append(p, s)].class.side = dst.class.side
              BY <2>2, <2>13, <4>1, <4>4, <6>2 DEF Pure
            <6> QED
              BY <6>4, <6>5
          <5> QED
            BY <5>3, <5>4
        <4> QED
          BY <3>2, <4>1, <4>3, <4>4
      <3>3. CASE q \in DOMAIN to /\ to'[q] = to[q] /\ q # p
        <4>1. to[q].fields[f] # Alias
          BY <2>13, <3>3 DEF Pure
        <4>2. ASSUME NEW i \in Items(to[q].fields[f]), IsMessagePlace(Messages[to[q].class.msg][f], i)
              PROVE  to'[Append(q, <<f, i>>)].class.side = to[q].class.side
          <5> DEFINE s == <<f, i>>
                     c == Append(q, s)
          <5>1. c \in DOMAIN to
            <6>1. s \in Places(to[q].fields)
              BY <3>3, <4>2, PlaceIn
            <6> QED
              BY <2>13, <3>3, <6>1
          <5>2. to[c].class.side = to[q].class.side
            BY <2>13, <3>3, <4>2 DEF Pure
          <5>3. c \notin made
            <6> SUFFICES ASSUME c \in made PROVE FALSE
              OBVIOUS
            <6>1. PICK t \in Places(copied) \ Places(dst.fields) : c = Append(p, t)
              BY <2>7
            <6>2. q = p
              <7> HIDE DEF s
              <7> QED
                BY <2>2, <3>3, <6>1, SamePlace
            <6> QED
              BY <3>3, <6>2
          <5>4. to'[c].class = to[c].class
            BY <2>8, <2>9, <2>11, <5>1, <5>3
          <5> QED
            BY <5>2, <5>4
        <4> QED
          BY <3>3, <4>1, <4>2
      <3> QED
        BY <2>14, <3>1, <3>2, <3>3
    <2>18. ASSUME NEW q \in DOMAIN to' PROVE IsInstance(to'[q])
      <3>1. IsInstance(node)
        <4>1. ASSUME NEW f \in DOMAIN copied
              PROVE  /\ copied[f] \in FieldValues
                     /\ copied[f] = Untouched => Messages[dst.class.msg][f].shape = "msg"
                     /\ dst.class.side # "bare" => copied[f] \notin {None, Alias}
          BY <2>2, <2>3, <2>4 DEF IsInstance
        <4> QED
          BY <2>2, <2>3, <2>11, <4>1 DEF IsInstance
      <3> QED
        BY <2>8, <2>12, <2>14, <3>1 DEF ToInv
    <2>19. ASSUME NEW q \in DOMAIN to', to'[q].class.side = "ros", NEW f \in DOMAIN to'[q].fields,
                  IsOctets(to'[q], f)
           PROVE  to'[q].fields[f].k = "bytes" \/ OctetValues(to'[q].fields[f]) = Unread
      <3>1. CASE q \in made
        BY <2>12, <2>19, <3>1 DEF HasBytes
      <3>2. CASE q = p
        <4>1. HasBytes(dst)
          BY <2>2, BelowPaths DEF ToInv
        <4>2. IsOctets(dst, f) /\ f \in DOMAIN copied /\ f \in DOMAIN dst.fields
          BY <2>3, <2>8, <2>11, <2>19, <3>2 DEF IsOctets, Declares, FieldType
        <4>3. dst.fields[f].k = "bytes"
          BY <4>1, <4>2 DEF HasBytes
        <4> QED
          BY <2>4, <2>8, <2>11, <3>2, <4>2, <4>3
      <3>3. CASE q \in DOMAIN to /\ to'[q] = to[q]
        BY <2>19, <3>3 DEF ToInv, OctetsAreBytes
      <3> QED
        BY <2>14, <3>1, <3>2, <3>3
    <2>20. agenda' \subseteq DOMAIN from \cap DOMAIN to'
      <3>1. nested \subseteq DOMAIN from \cap DOMAIN to'
        BY <2>15 DEF nested
      <3> QED
        BY <2>1, <2>10, <3>1 DEF ToInv
    <2>21. ASSUME NEW a \in agenda' 
           PROVE  \/ a \in agenda /\ a # p
                  \/ \E s \in STRING \X Nat : a = Append(p, s)
      BY <2>1, <2>15 DEF nested
    <2>22. ASSUME NEW a \in agenda', NEW q \in DOMAIN to', Below(a, q) PROVE HasBytes(to'[q])
      <3>1. CASE q \in made
        BY <2>12, <3>1
      <3>2. CASE q = p
        <4>1. ~Below(a, p)
          <5>1. CASE a \in agenda /\ a # p
            BY <5>1 DEF ToInv
          <5>2. CASE \E s \in STRING \X Nat : a = Append(p, s)
            BY <2>2, <5>2, BelowPaths
          <5> QED
            BY <2>21, <5>1, <5>2
        <4> QED
          BY <2>22, <3>2, <4>1
      <3>3. CASE q \in DOMAIN to /\ to'[q] = to[q]
        <4>1. CASE a \in agenda
          BY <2>22, <3>3, <4>1 DEF ToInv
        <4>2. CASE \E s \in STRING \X Nat : a = Append(p, s)
          <5>1. PICK s \in STRING \X Nat : a = Append(p, s)
            BY <4>2
          <5>2. Below(p, a) /\ a \in Paths
            BY <2>2, <5>1, BelowPaths
          <5>3. Below(p, q)
            BY <2>2, <2>22, <3>3, <5>2, BelowPaths
          <5> QED
            BY <3>3, <5>3 DEF ToInv
        <4> QED
          BY <2>21, <4>1, <4>2
      <3> QED
        BY <2>14, <3>1, <3>2, <3>3
    <2>23. ASSUME NEW a \in agenda', NEW b \in agenda', Below(a, b) PROVE a = b
      <3>1. \A c \in agenda : c \in Paths
        BY <2>2 DEF ToInv
      <3>2. CASE a \in agenda /\ a # p /\ b \in agenda
        BY <2>23, <3>2 DEF ToInv
      <3>3. CASE (\E s \in STRING \X Nat : a = Append(p, s)) /\ b \in agenda /\ b # p
        <4>1. PICK s \in STRING \X Nat : a = Append(p, s)
          BY <3>3
        <4>2. Below(p, b)
          BY <2>2, <2>23, <3>1, <3>3, <4>1, BelowPaths
        <4> QED
          BY <3>3, <4>2 DEF ToInv
      <3>4. CASE a \in agenda /\ a # p /\ (\E s \in STRING \X Nat : b = Append(p, s))
        <4>1. PICK s \in STRING \X Nat : b = Append(p, s)
          BY <3>4
        <4>2. Below(a, p) \/ a = b
          BY <2>2, <2>23, <3>1, <3>4, <4>1, BelowPaths
        <4> QED
          BY <3>4, <4>2 DEF ToInv
      <3>5. CASE (\E s \in STRING \X Nat : a = Append(p, s)) /\ (\E s \in STRING \X Nat : b = Append(p, s))
        BY <2>2, <2>23, <3>5, BelowPaths
      <3> QED
        BY <2>21, <3>2, <3>3, <3>4, <3>5
    <2>24. OctetsAreBytes'
      BY <2>19 DEF OctetsAreBytes
    <2> QED
      BY <2>1, <2>16, <2>17, <2>18, <2>20, <2>22, <2>23, <2>24 DEF ToInv
  <1> QED
    BY <1>1, <1>2

-----------------------------------------------------------------------------
(***************************************************************************)
(* What a message is in its PDU, field by field.                           *)
(***************************************************************************)
ByteArray == [shape |-> "seq", elem |-> "octet", bounded |-> FALSE]

PduValue(type, x) == IF type = ByteArray THEN Ints(AsBytes(x).bytes) ELSE x

RawValue(type, x) ==
    IF type.shape = "seq" /\ type.elem \in Primitive \ {"string"} /\ x.k = "list"
    THEN Raw(type.elem, x.items) ELSE x

PduObject(o) ==
    [class |-> [o.class EXCEPT !.side = "pdu"],
     fields |-> [f \in DOMAIN o.fields |-> PduValue(Messages[o.class.msg][f], o.fields[f])]]

PduTree(v) == [p \in DOMAIN v |-> PduObject(v[p])]
RawTree(v) == [p \in DOMAIN v |-> AsRaw(PduTree(v)[p])]

\* what the converters hand over for it
PduForms(v) == {PduTree(v), RawTree(v)}

Types == [shape : {"scalar", "seq", "msg"}, elem : STRING, bounded : BOOLEAN]
Words == {"uint8", "uint16", "boolean", "string"}

\* Values of a smaller set are values of a larger one.
LEMMA Wider ==
    \A S, T : S \subseteq T =>
        /\ Seq(S) \subseteq Seq(T) /\ SomeList(S) \subseteq SomeList(T)
        /\ SomeInt(S) \subseteq SomeInt(T)
  <1> SUFFICES ASSUME NEW S, NEW T, S \subseteq T
               PROVE  /\ Seq(S) \subseteq Seq(T) /\ SomeList(S) \subseteq SomeList(T)
                      /\ SomeInt(S) \subseteq SomeInt(T)
    OBVIOUS
  <1>1. Seq(S) \subseteq Seq(T)
    BY SeqMonotonic
  <1> QED
    BY <1>1 DEF SomeList, SomeInt

\* The numbers uint8 and uint16 hold are integers.
LEMMA UnsignedInt == UInt8 \subseteq Int /\ UInt16 \subseteq Int
    BY DEF UInt8, UInt16

\* So it is with the values of the primitive types.
LEMMA Narrow ==
    /\ Seq(UInt8) \subseteq Seq(Int)
    /\ SomeInt(UInt8) \subseteq Scalars /\ SomeInt(UInt16) \subseteq Scalars
    /\ SomeInt(Int) \subseteq Scalars /\ SomeBool \subseteq Scalars
    /\ SomeList(SomeInt(UInt8)) \subseteq SomeList(Scalars)
    /\ SomeList(SomeInt(UInt16)) \subseteq SomeList(Scalars)
    /\ SomeList(SomeInt(Int)) \subseteq SomeList(Scalars)
    /\ SomeList(SomeBool) \subseteq SomeList(Scalars)
    /\ SomeList(SomeInt(UInt8)) \subseteq SomeList(SomeInt(Int) \cup SomeBool)
    /\ SomeList(SomeInt(UInt16)) \subseteq SomeList(SomeInt(Int) \cup SomeBool)
    /\ SomeList(SomeBool) \subseteq SomeList(SomeInt(Int) \cup SomeBool)
  <1>1. UInt8 \subseteq Int /\ UInt16 \subseteq Int
    BY UnsignedInt
  <1>2. SomeInt(Int) \subseteq Scalars /\ SomeBool \subseteq Scalars
    BY DEF Scalars
  <1>3. SomeInt(UInt8) \subseteq SomeInt(Int) /\ SomeInt(UInt16) \subseteq SomeInt(Int)
    BY <1>1, Wider, Zenon
  <1>4. SomeInt(UInt8) \subseteq Scalars /\ SomeInt(UInt16) \subseteq Scalars
    BY <1>2, <1>3, Zenon
  <1>5. Seq(UInt8) \subseteq Seq(Int)
    BY <1>1, Wider, Zenon
  <1>6. /\ SomeList(SomeInt(UInt8)) \subseteq SomeList(Scalars)
        /\ SomeList(SomeInt(UInt16)) \subseteq SomeList(Scalars)
        /\ SomeList(SomeInt(Int)) \subseteq SomeList(Scalars)
        /\ SomeList(SomeBool) \subseteq SomeList(Scalars)
    BY <1>2, <1>4, Wider, Zenon
  <1>7. /\ SomeInt(UInt8) \subseteq SomeInt(Int) \cup SomeBool
        /\ SomeInt(UInt16) \subseteq SomeInt(Int) \cup SomeBool
        /\ SomeBool \subseteq SomeInt(Int) \cup SomeBool
    BY <1>3, Zenon
  <1>8. /\ SomeList(SomeInt(UInt8)) \subseteq SomeList(SomeInt(Int) \cup SomeBool)
        /\ SomeList(SomeInt(UInt16)) \subseteq SomeList(SomeInt(Int) \cup SomeBool)
        /\ SomeList(SomeBool) \subseteq SomeList(SomeInt(Int) \cup SomeBool)
    BY <1>7, Wider, Zenon
  <1> QED
    BY <1>2, <1>4, <1>5, <1>6, <1>8, Zenon

\* A value in its one form, by the type of its field.
LEMMA TypedValue ==
    ASSUME NEW type \in Types, NEW x \in PlainValues(type)
    PROVE  /\ x \in SourceValues
           /\ type.shape = "scalar" => x \in SomeInt(Int) \cup SomeBool
           /\ type.shape = "msg" => x = Object
           /\ type.shape = "seq" =>
                /\ type.elem = "octet" => x \in SomeBytes /\ x.bytes \in Seq(UInt8)
                /\ type.elem = "uint8" => x \in SomeList(SomeInt(UInt8))
                /\ type.elem = "uint16" => x \in SomeList(SomeInt(UInt16))
                /\ type.elem = "boolean" => x \in SomeList(SomeBool)
                /\ type.elem = "string" => x \in SomeList(SomeInt(Int))
                /\ type.elem \in Words => x \in SomeList(Scalars)
                /\ type.elem \notin Primitive => x \in SomeList({Object})
  <1>1. CASE type.shape = "scalar"
    <2>1. x \in SomeInt(Int) \cup SomeBool
      BY <1>1 DEF PlainValues
    <2> QED
      BY <1>1, <2>1 DEF SourceValues, Scalars
  <1>2. CASE type.shape = "msg"
    <2>1. x \in {Object}
      BY <1>2 DEF PlainValues
    <2> QED
      BY <1>2, <2>1 DEF SourceValues
  <1>3. CASE type.shape = "seq"
    <2> DEFINE e == type.elem
    <2>1. x \in CASE e = "octet"   -> [k : {"bytes"}, bytes : Seq(UInt8)]
                  [] e = "uint8"   -> SomeList(SomeInt(UInt8))
                  [] e = "uint16"  -> SomeList(SomeInt(UInt16))
                  [] e = "boolean" -> SomeList(SomeBool)
                  [] e = "string"  -> SomeList(SomeInt(Int))
                  [] OTHER         -> SomeList({Object})
      BY <1>3 DEF PlainValues
    <2> HIDE DEF e
    <2>2. e = "octet" => x \in SomeBytes /\ x.bytes \in Seq(UInt8)
      <3> SUFFICES ASSUME e = "octet" PROVE x \in SomeBytes /\ x.bytes \in Seq(UInt8)
        OBVIOUS
      <3>1. x \in [k : {"bytes"}, bytes : Seq(UInt8)]
        BY <2>1
      <3> QED
        BY <3>1, Narrow DEF SomeBytes
    <2>3. /\ e = "uint8" => x \in SomeList(SomeInt(UInt8))
          /\ e = "uint16" => x \in SomeList(SomeInt(UInt16))
          /\ e = "boolean" => x \in SomeList(SomeBool)
          /\ e = "string" => x \in SomeList(SomeInt(Int))
          /\ e \notin Primitive => x \in SomeList({Object})
      <3>1. CASE e = "uint8"
        BY <2>1, <3>1 DEF Primitive
      <3>2. CASE e = "uint16"
        BY <2>1, <3>2 DEF Primitive
      <3>3. CASE e = "boolean"
        BY <2>1, <3>3 DEF Primitive
      <3>4. CASE e = "string"
        BY <2>1, <3>4 DEF Primitive
      <3>5. CASE e \notin Primitive
        BY <2>1, <3>5 DEF Primitive
      <3> QED
        BY <3>1, <3>2, <3>3, <3>4, <3>5
    <2>6. e \in Words => x \in SomeList(Scalars)
      BY <2>3, Narrow, Zenon DEF Words
    <2>7. e \in Words \cup {"octet"} \/ e \notin Primitive
      BY DEF Words, Primitive
    <2>8. x \in SourceValues
      BY <2>2, <2>3, <2>6, <2>7 DEF SourceValues, Scalars
    <2> QED
      BY <1>3, <2>2, <2>3, <2>6, <2>8 DEF e
  <1> QED
    BY <1>1, <1>2, <1>3 DEF Types

\* A byte[] is read as bytes in each of its forms, a plain value is no sequence the
\* mapper does not know, and a fixed array of numbers is one.
LEMMA ValueForms ==
    ASSUME NEW type \in Types, NEW x \in ValuesOf(type)
    PROVE  /\ x \in SourceValues
           /\ type = ByteArray =>
                /\ x \in Scalars \cup SomeList(Scalars) /\ x # Opaque
                /\ AsBytes(x) \in SomeBytes /\ AsBytes(x).bytes \in Seq(UInt8)
                /\ AsBytes(x) \in PlainValues(type)
                /\ OctetValues(x) = AsBytes(x)
           /\ type # ByteArray /\ x # Opaque => x \in PlainValues(type)
           /\ x = Opaque => type.shape = "seq" /\ type.elem \in {"uint8", "uint16"}
           /\ x \in PlainValues(type) => x # Opaque
  <1>1. ASSUME x \in PlainValues(type) PROVE x # Opaque /\ x \in SourceValues
    <2>1. \/ x \in SomeInt(Int) \cup SomeBool \cup SomeBytes \cup SomeList(Scalars) \cup SomeList({Object})
          \/ x = Object
      <3>1. type.elem \in Primitive => type.elem \in Words \cup {"octet"}
        BY DEF Primitive, Words
      <3> QED
        BY <1>1, <3>1, TypedValue DEF Types
    <2>2. x # Opaque
      BY <2>1 DEF SomeInt, SomeBool, SomeBytes, SomeList, Object, Opaque
    <2> QED
      BY <1>1, <2>2, TypedValue
  <1>2. ASSUME x \in PlainValues(type), type = ByteArray
        PROVE  x \in SomeBytes /\ x.bytes \in Seq(UInt8) /\ AsBytes(x) = x /\ OctetValues(x) = x
    <2>1. x \in SomeBytes /\ x.bytes \in Seq(UInt8)
      BY <1>2, TypedValue DEF ByteArray
    <2>2. x.k = "bytes"
      BY <2>1 DEF SomeBytes
    <2> QED
      BY <2>1, <2>2, Zenon DEF AsBytes, OctetValues
  <1>3. ASSUME x \in OtherForms(type), x # Opaque
        PROVE  /\ type = ByteArray /\ x \in SomeList(Scalars)
               /\ AsBytes(x) \in SomeBytes /\ AsBytes(x).bytes \in Seq(UInt8)
               /\ AsBytes(x) \in PlainValues(type)
               /\ OctetValues(x) = AsBytes(x)
    <2>1. type = ByteArray /\ x \in SomeList(SomeInt(UInt8) \cup SingleBytes)
      <3>1. type.shape = "seq" /\ ~type.bounded
        BY <1>3 DEF OtherForms
      <3>2. x \in CASE type.elem = "octet"               -> SomeList(SomeInt(UInt8) \cup SingleBytes)
                   [] type.elem \in {"uint8", "uint16"} -> {Opaque}
                   [] OTHER                             -> {}
        BY <1>3, <3>1 DEF OtherForms
      <3>3. type.elem = "octet"
        BY <1>3, <3>2
      <3> QED
        BY <3>1, <3>2, <3>3 DEF ByteArray, Types
    <2> DEFINE items == x.items
               b == [i \in DOMAIN items |-> IF items[i].k = "int" THEN items[i].v ELSE items[i].bytes[1]]
               Octet(e) == (e.k = "bytes" /\ Len(e.bytes) = 1) \/ (e.k = "int" /\ e.v \in UInt8)
    <2>2. x.k = "list" /\ items \in Seq(SomeInt(UInt8) \cup SingleBytes) /\ x = List(items)
      BY <2>1 DEF SomeList, List
    <2>3. ASSUME NEW e \in SomeInt(UInt8) \cup SingleBytes
          PROVE  /\ e \in Scalars /\ Octet(e)
                 /\ (IF e.k = "int" THEN e.v ELSE e.bytes[1]) \in UInt8
      <3>1. CASE e \in SomeInt(UInt8)
        BY <3>1, Narrow DEF SomeInt
      <3>2. CASE e \in SingleBytes
        <4> DEFINE t == e.bytes
        <4>1. e.k = "bytes" /\ t \in [{1} -> UInt8] /\ e = Bytes(t)
          BY <3>2 DEF SingleBytes, Bytes
        <4> HIDE DEF t
        <4>2. 1 \in Nat /\ {1} = 1 .. 1
          OBVIOUS
        <4>3. t \in [1 .. 1 -> UInt8]
          BY <4>1, <4>2
        <4>4. t \in Seq(UInt8) /\ Len(t) = 1
          <5>1. t \in Seq(UInt8)
            <6>1. PICK n \in Nat : n = 1
              OBVIOUS
            <6>2. t \in [1 .. n -> UInt8]
              BY <4>3, <6>1
            <6> QED
              BY <6>2, SeqDef
          <5>2. DOMAIN t = 1 .. Len(t) /\ Len(t) \in Nat
            BY <5>1, LenProperties
          <5> QED
            BY <4>1, <5>1, <5>2
        <4>5. t[1] \in UInt8
          BY <4>1
        <4>6. e \in SomeBytes
          BY <4>1, <4>4, Narrow DEF SomeBytes, Bytes
        <4> QED
          BY <4>1, <4>4, <4>5, <4>6 DEF t, Scalars
      <3> QED
        BY <3>1, <3>2
    <2>4. \A i \in DOMAIN items : items[i] \in SomeInt(UInt8) \cup SingleBytes
      BY <2>2
    <2>5. b \in Seq(UInt8)
      <3> HIDE DEF items
      <3>1. \A i \in DOMAIN items : b[i] \in UInt8
        BY <2>3, <2>4
      <3> HIDE DEF b
      <3>2. DOMAIN items = 1 .. Len(items) /\ Len(items) \in Nat
        BY <2>2
      <3>3. b \in [1 .. Len(items) -> UInt8]
        BY <3>1, <3>2 DEF b
      <3> QED
        BY <3>2, <3>3, SeqDef
    <2>6. x \in SomeList(Scalars)
      <3>1. SomeInt(UInt8) \cup SingleBytes \subseteq Scalars
        BY <2>3
      <3> QED
        BY <2>1, <3>1, Wider
    <2>7. AsBytes(x) = Bytes(b)
      BY <2>2 DEF AsBytes
    <2>8. OctetValues(x) = Bytes(b)
      <3>1. OctetValues(x) = IF \A i \in DOMAIN x.items : Octet(x.items[i])
                             THEN Bytes([i \in DOMAIN x.items |->
                                     IF x.items[i].k = "int" THEN x.items[i].v ELSE x.items[i].bytes[1]])
                             ELSE Unread
        BY <2>2, Zenon DEF OctetValues
      <3> HIDE DEF Octet
      <3> QED
        BY <2>3, <2>4, <3>1
    <2> HIDE DEF b
    <2>9. Bytes(b).bytes = b /\ Bytes(b) \in [k : {"bytes"}, bytes : Seq(UInt8)] /\ Bytes(b) \in SomeBytes
      BY <2>5, Narrow DEF Bytes, SomeBytes
    <2>10. Bytes(b) \in PlainValues(type)
      BY <2>1, <2>9 DEF PlainValues, ByteArray
    <2> QED
      BY <2>1, <2>5, <2>6, <2>7, <2>8, <2>9, <2>10
  <1>4. ASSUME x = Opaque, x \in OtherForms(type)
        PROVE  /\ type.shape = "seq" /\ type.elem \in {"uint8", "uint16"} /\ type # ByteArray
               /\ x \in SourceValues
    <2>1. type.shape = "seq" /\ ~type.bounded
      BY <1>4 DEF OtherForms
    <2>2. x \in CASE type.elem = "octet"               -> SomeList(SomeInt(UInt8) \cup SingleBytes)
                 [] type.elem \in {"uint8", "uint16"} -> {Opaque}
                 [] OTHER                             -> {}
      BY <1>4, <2>1 DEF OtherForms
    <2>3. x \notin SomeList(SomeInt(UInt8) \cup SingleBytes)
      BY <1>4 DEF SomeList, Opaque
    <2>4. type.elem \in {"uint8", "uint16"}
      BY <2>2, <2>3
    <2> QED
      BY <1>4, <2>1, <2>4 DEF SourceValues, ByteArray
  <1>5. CASE x \in PlainValues(type)
    <2>1. type = ByteArray => x \in Scalars
      BY <1>2, <1>5 DEF Scalars
    <2> QED
      BY <1>1, <1>2, <1>5, <2>1
  <1>6. CASE x \in OtherForms(type) /\ x \notin PlainValues(type)
    <2>1. SomeList(Scalars) \subseteq SourceValues
      BY DEF SourceValues
    <2> QED
      BY <1>3, <1>4, <1>6, <2>1
  <1> QED
    BY <1>5, <1>6 DEF ValuesOf

\* The bytes of a sequence: each item takes the same number of them.
WordSize(elem)  == CASE elem = "uint16" -> 2 [] elem = "boolean" -> 4 [] OTHER -> 1
Number(x)       == IF x.k = "bool" THEN (IF x.truth THEN 1 ELSE 0) ELSE x.v
WordByte(x, j)  == IF j = 0 THEN Number(x) % 256 ELSE IF j = 1 THEN Number(x) \div 256 ELSE 0

\* The bytes of each item are at its place.
LEMMA RawBytes ==
    ASSUME NEW elem, NEW items \in Seq(SomeInt(Int) \cup SomeBool)
    PROVE  LET size == WordSize(elem)
               b == Raw(elem, items).bytes
           IN  /\ Raw(elem, items) \in SomeBytes
               /\ DOMAIN b = 1 .. size * Len(items) /\ Len(b) = size * Len(items)
               /\ \A i \in 1 .. Len(items) : \A j \in 0 .. size - 1 :
                      b[size * (i - 1) + j + 1] = WordByte(items[i], j)
  <1> DEFINE size == WordSize(elem)
             Byte(i, j) == WordByte(items[i], j)
             total == size * Len(items)
             b == [n \in 1 .. total |-> Byte((n - 1) \div size + 1, (n - 1) % size)]
  <1>1. Raw(elem, items) = Bytes(b)
    BY DEF Raw, WordSize, WordByte, Number
  <1>2. size \in {1, 2, 4}
    BY DEF WordSize
  <1>3. Len(items) \in Nat /\ total \in Nat
    BY <1>2
  <1>4. ASSUME NEW i \in 1 .. Len(items) PROVE Number(items[i]) \in Int
    <2>1. items[i] \in SomeInt(Int) \cup SomeBool
      OBVIOUS
    <2> DEFINE x == items[i]
    <2> HIDE DEF x
    <2>2. x \in SomeInt(Int) \cup SomeBool
      BY <2>1 DEF x
    <2>3. Number(x) \in Int
      BY <2>2 DEF SomeInt, SomeBool, Number
    <2> QED
      BY <2>3 DEF x
  <1> HIDE DEF size
  <1>5. ASSUME NEW i \in 1 .. Len(items), NEW j PROVE Byte(i, j) \in Int
    BY <1>4 DEF WordByte
  <1> HIDE DEF Byte
  <1>6. ASSUME NEW n \in 1 .. total
        PROVE  (n - 1) \div size + 1 \in 1 .. Len(items)
    <2>1. CASE size = 1
      BY <1>3, <2>1
    <2>2. CASE size = 2
      BY <1>3, <2>2
    <2>3. CASE size = 4
      BY <1>3, <2>3
    <2> QED
      BY <1>2, <2>1, <2>2, <2>3
  <1>7. b \in [1 .. total -> Int]
    BY <1>5, <1>6
  <1>8. b \in Seq(Int) /\ Len(b) = total
    <2> HIDE DEF b, total
    <2>1. b \in Seq(Int)
      BY <1>3, <1>7, SeqDef
    <2> QED
      BY <2>1, <1>3, <1>7, LenProperties
  <1>9. ASSUME NEW i \in 1 .. Len(items), NEW j \in 0 .. size - 1
        PROVE  b[size * (i - 1) + j + 1] = Byte(i, j)
    <2> DEFINE n == size * (i - 1) + j + 1
    <2>1. n \in 1 .. total /\ (n - 1) \div size + 1 = i /\ (n - 1) % size = j
      <3>1. CASE size = 1
        BY <1>3, <3>1
      <3>2. CASE size = 2
        BY <1>3, <3>2
      <3>3. CASE size = 4
        BY <1>3, <3>3
      <3> QED
        BY <1>2, <3>1, <3>2, <3>3
    <2> HIDE DEF n, total
    <2>2. b[n] = Byte((n - 1) \div size + 1, (n - 1) % size)
      BY <2>1
    <2> QED
      BY <2>1, <2>2 DEF n
  <1>10. Bytes(b) \in SomeBytes /\ Bytes(b).bytes = b
    BY <1>8 DEF Bytes, SomeBytes
  <1> HIDE DEF b
  <1> QED
    BY <1>1, <1>7, <1>8, <1>9, <1>10 DEF Byte, size

\* Scalars and lists of them have no objects in them.
LEMMA NoItems ==
    ASSUME NEW x \in Scalars \cup SomeList(Scalars)
    PROVE  /\ x \in SourceValues /\ x \in FieldValues /\ Items(x) = {}
           /\ x \in Scalars => IsScalar(x) /\ x.k # "list"
           /\ x \in SomeList(Scalars) => x.k = "list" /\ x.items \in Seq(Scalars) /\ ~IsScalar(x)
                                         /\ x = List(x.items)
  <1>1. x \in SourceValues
    BY DEF SourceValues
  <1>2. x \in FieldValues
    BY <1>1, SourceKinds
  <1>3. CASE x \in Scalars
    <2>1. x.k \in {"int", "bool", "bytes"}
      BY <1>3 DEF Scalars, SomeInt, SomeBool, SomeBytes
    <2>2. x # Object
      BY <2>1 DEF Object
    <2>3. x \notin SomeList(Scalars)
      BY <2>1 DEF SomeList
    <2> QED
      BY <1>1, <1>2, <1>3, <2>1, <2>2, <2>3, ItemsOf DEF IsScalar
  <1>4. CASE x \in SomeList(Scalars)
    <2>1. x.k = "list" /\ x.items \in Seq(Scalars) /\ x = List(x.items)
      BY <1>4 DEF SomeList, List
    <2>2. \A i \in DOMAIN x.items : x.items[i] # Object
      BY <2>1 DEF Object, Scalars, SomeInt, SomeBool, SomeBytes
    <2>3. x \notin Scalars /\ ~IsScalar(x)
      BY <2>1 DEF Scalars, SomeInt, SomeBool, SomeBytes, IsScalar
    <2> QED
      BY <1>1, <1>2, <2>1, <2>2, <2>3, ItemsOf
  <1> QED
    BY <1>3, <1>4

\* In the PDU, and in raw bytes, a value has the same objects in it.
LEMMA PduSource ==
    ASSUME NEW type \in Types, NEW x \in ValuesOf(type)
    PROVE  LET y == PduValue(type, x)
               z == RawValue(type, y)
           IN  /\ y \in SourceValues /\ Items(y) = Items(x)
               /\ z \in SourceValues /\ Items(z) = Items(x)
               /\ z # y => /\ y.k = "list" /\ y.items \in Seq(SomeInt(Int) \cup SomeBool)
                          /\ z = Raw(type.elem, y.items)
               /\ x # Opaque => y # Opaque /\ z # Opaque
  <1> DEFINE y == PduValue(type, x)
             z == RawValue(type, y)
  <1>1. y \in SourceValues /\ Items(y) = Items(x)
    <2>1. CASE type = ByteArray
      <3>2. AsBytes(x).bytes \in Seq(Int) /\ y = Ints(AsBytes(x).bytes)
        BY <2>1, ValueForms, Narrow DEF PduValue
      <3>3. x \in Scalars \cup SomeList(Scalars)
        BY <2>1, ValueForms
      <3>4. y \in SomeList(Scalars)
        BY <3>2, IntsList
      <3> HIDE DEF y
      <3> QED
        BY <3>3, <3>4, NoItems
    <2>2. CASE type # ByteArray
      <3>1. y = x
        BY <2>2 DEF PduValue
      <3> QED
        BY <3>1, ValueForms
    <2> QED
      BY <2>1, <2>2
  <1>2. ASSUME type.shape = "seq" /\ type.elem \in Primitive \ {"string"} /\ y.k = "list"
        PROVE  y.items \in Seq(SomeInt(Int) \cup SomeBool) /\ Items(y) = {}
    <2>1. CASE type = ByteArray
      <3> DEFINE b == AsBytes(x).bytes
      <3>2. b \in Seq(Int) /\ y = Ints(b)
        BY <2>1, ValueForms, Narrow DEF PduValue
      <3> HIDE DEF b
      <3>3. y.items = [i \in DOMAIN b |-> Num(b[i])]
        BY <3>2 DEF Ints, List
      <3>4. \A i \in DOMAIN b : Num(b[i]) \in SomeInt(Int)
        BY <3>2 DEF Num, SomeInt
      <3>5. y.items \in Seq(SomeInt(Int) \cup SomeBool)
        BY <3>2, <3>3, <3>4
      <3>6. y \in SomeList(Scalars)
        BY <3>2, IntsList
      <3> HIDE DEF y
      <3> QED
        BY <3>5, <3>6, NoItems
    <2>2. CASE type # ByteArray
      <3>1. y = x /\ x.k = "list"
        BY <1>2, <2>2 DEF PduValue
      <3>a. x \in PlainValues(type)
        BY <2>2, <3>1, ValueForms DEF Opaque
      <3>2. type.elem # "octet"
        <4> SUFFICES ASSUME type.elem = "octet" PROVE FALSE
          OBVIOUS
        <4>1. x \in SomeBytes
          BY <1>2, <3>a, TypedValue
        <4> QED
          BY <3>1, <4>1 DEF SomeBytes
      <3>3. type.elem \in {"uint8", "uint16", "boolean"}
        BY <1>2, <3>2 DEF Primitive
      <3>4. x \in SomeList(Scalars)
        BY <1>2, <3>3, <3>a, TypedValue DEF Words
      <3>5. \/ x \in SomeList(SomeInt(UInt8)) \/ x \in SomeList(SomeInt(UInt16)) \/ x \in SomeList(SomeBool)
        BY <1>2, <3>3, <3>a, TypedValue
      <3>6. x \in SomeList(SomeInt(Int) \cup SomeBool)
        BY <3>5, Narrow, Zenon
      <3>7. x.items \in Seq(SomeInt(Int) \cup SomeBool)
        BY <3>6 DEF SomeList
      <3> QED
        BY <3>1, <3>4, <3>7, NoItems
    <2> QED
      BY <2>1, <2>2
  <1>3. z = IF type.shape = "seq" /\ type.elem \in Primitive \ {"string"} /\ y.k = "list"
            THEN Raw(type.elem, y.items) ELSE y
    BY DEF RawValue
  <1>a. x # Opaque => y # Opaque
    BY DEF PduValue, Ints, List, Opaque
  <1> HIDE DEF y, z
  <1>4. CASE type.shape = "seq" /\ type.elem \in Primitive \ {"string"} /\ y.k = "list"
    <2>1. z = Raw(type.elem, y.items) /\ y.items \in Seq(SomeInt(Int) \cup SomeBool) /\ Items(y) = {}
      BY <1>2, <1>3, <1>4
    <2>2. z \in SomeBytes
      BY <2>1, RawBytes
    <2>3. z \in Scalars
      BY <2>2 DEF Scalars
    <2>4. z # Opaque
      BY <2>2 DEF SomeBytes, Opaque
    <2> QED
      BY <1>1, <1>4, <1>a, <2>1, <2>3, <2>4, NoItems DEF y, z
  <1>5. CASE ~(type.shape = "seq" /\ type.elem \in Primitive \ {"string"} /\ y.k = "list")
    BY <1>1, <1>3, <1>5, <1>a DEF y, z
  <1> QED
    BY <1>4, <1>5

-----------------------------------------------------------------------------
(***************************************************************************)
(* Raw bytes are read back as the values they were made of.                *)
(***************************************************************************)
\* Single bytes.
LEMMA BytesBack ==
    ASSUME NEW elem \in {"octet", "uint8"}, NEW s \in Seq(UInt8)
    PROVE  LET raw == Raw(elem, Ints(s).items)
           IN  /\ raw = Bytes(s)
               /\ OctetValues(Ints(s)) = Bytes(s)
  <1> DEFINE items == Ints(s).items
             raw == Raw(elem, items)
  <1>1. items = [i \in DOMAIN s |-> Num(s[i])] /\ Ints(s).k = "list"
    BY DEF Ints, List
  <1>2. s \in Seq(Int) /\ \A i \in DOMAIN s : s[i] \in UInt8
    BY Narrow
  <1>3. /\ DOMAIN s = 1 .. Len(s) /\ Len(s) \in Nat
        /\ \A i \in DOMAIN s : /\ items[i].k = "int" /\ items[i].v = s[i] /\ items[i] \in SomeInt(Int)
                               /\ s[i] \in UInt8 /\ s[i] \in 0 .. 255
    BY <1>1, <1>2 DEF Num, SomeInt, UInt8
  <1>4. items \in Seq(SomeInt(Int) \cup SomeBool) /\ Len(items) = Len(s) /\ DOMAIN items = DOMAIN s
    <2>1. DOMAIN s = 1 .. Len(s) /\ Len(s) \in Nat
      OBVIOUS
    <2> DEFINE T == SomeInt(Int) \cup SomeBool
    <2>2. items \in [1 .. Len(s) -> T]
      BY <1>1, <1>3, <2>1
    <2> HIDE DEF items, T
    <2>3. items \in Seq(T)
      BY <2>1, <2>2, SeqDef
    <2> QED
      BY <2>1, <2>2, <2>3, LenProperties DEF T
  <1> HIDE DEF items
  <1>5. /\ raw \in SomeBytes /\ DOMAIN raw.bytes = 1 .. Len(s)
        /\ \A i \in 1 .. Len(s) : raw.bytes[i] = items[i].v % 256
    <2>1. WordSize(elem) = 1
      BY DEF WordSize
    <2>2. /\ raw \in SomeBytes /\ DOMAIN raw.bytes = 1 .. 1 * Len(items)
          /\ \A i \in 1 .. Len(items) : \A j \in 0 .. 1 - 1 :
                 raw.bytes[1 * (i - 1) + j + 1] = WordByte(items[i], j)
      BY <1>4, <2>1, RawBytes
    <2> HIDE DEF raw
    <2>3. ASSUME NEW i \in 1 .. Len(s) PROVE raw.bytes[i] = items[i].v % 256
      <3>1. WordByte(items[i], 0) = items[i].v % 256
        BY <1>3, <2>3 DEF WordByte, Number
      <3>2. raw.bytes[1 * (i - 1) + 0 + 1] = WordByte(items[i], 0)
        BY <2>2, <1>4
      <3>3. 1 * (i - 1) + 0 + 1 = i
        OBVIOUS
      <3> QED
        BY <3>1, <3>2, <3>3
    <2>4. 1 * Len(items) = Len(s)
      <3>1. \A n \in Nat : 1 * n = n
        OBVIOUS
      <3> QED
        BY <1>3, <1>4, <3>1
    <2>5. DOMAIN raw.bytes = 1 .. Len(s)
      BY <2>2, <2>4
    <2> QED
      BY <2>2, <2>3, <2>5
  <1> HIDE DEF raw
  <1>6. \A i \in 1 .. Len(s) : raw.bytes[i] = s[i]
    <2> SUFFICES ASSUME NEW i \in 1 .. Len(s) PROVE raw.bytes[i] = s[i]
      OBVIOUS
    <2>1. s[i] \in 0 .. 255 /\ items[i].v = s[i]
      BY <1>3
    <2>2. \A n \in 0 .. 255 : n % 256 = n
      OBVIOUS
    <2>3. raw.bytes[i] = items[i].v % 256
      BY <1>5
    <2> QED
      BY <2>1, <2>2, <2>3
  <1>7. raw.bytes = s
    <2>1. raw.bytes \in Seq(Int)
      BY <1>5 DEF SomeBytes
    <2> DEFINE b == raw.bytes
    <2> HIDE DEF b
    <2>2. b \in Seq(Int) /\ DOMAIN b = 1 .. Len(s) /\ \A i \in 1 .. Len(s) : b[i] = s[i]
      BY <2>1, <1>5, <1>6 DEF b
    <2>3. Len(b) = Len(s)
      BY <2>2, <1>2
    <2>4. b = s
      BY <2>2, <2>3, <1>2, SeqEqual
    <2> QED
      BY <2>4 DEF b
  <1>8. raw = Bytes(s)
    BY <1>5, <1>7 DEF SomeBytes, Bytes
  <1>9. OctetValues(Ints(s)) = Bytes(s)
    <2> DEFINE x == Ints(s)
               b == [i \in DOMAIN items |-> IF items[i].k = "int" THEN items[i].v ELSE items[i].bytes[1]]
               Octet(e) == (e.k = "bytes" /\ Len(e.bytes) = 1) \/ (e.k = "int" /\ e.v \in UInt8)
    <2>1. \A i \in DOMAIN items : Octet(items[i])
      BY <1>3, <1>4
    <2>2. OctetValues(x) = IF \A i \in DOMAIN x.items : Octet(x.items[i])
                           THEN Bytes([i \in DOMAIN x.items |->
                                   IF x.items[i].k = "int" THEN x.items[i].v ELSE x.items[i].bytes[1]])
                           ELSE Unread
      BY <1>1, Zenon DEF OctetValues
    <2>3. OctetValues(x) = Bytes(b)
      BY <2>1, <2>2 DEF items
    <2>4. b = s
      <3>1. \A i \in DOMAIN items : b[i] = s[i]
        BY <1>3, <1>4
      <3>2. s = [i \in DOMAIN s |-> s[i]]
        OBVIOUS
      <3> QED
        BY <1>4, <3>1, <3>2
    <2> QED
      BY <2>3, <2>4
  <1> QED
    BY <1>8, <1>9 DEF raw, items

\* Words of two and of four bytes.
LEMMA WordsBack ==
    ASSUME NEW elem, NEW items,
           \/ elem = "uint16" /\ items \in Seq(SomeInt(UInt16))
           \/ elem = "boolean" /\ items \in Seq(SomeBool),
           items \in Seq(SomeInt(Int) \cup SomeBool)
    PROVE  Unpack(Raw(elem, items).bytes, IF elem = "uint16" THEN 2 ELSE 4, elem = "boolean") = List(items)
  <1> DEFINE size == IF elem = "uint16" THEN 2 ELSE 4
             boolean == elem = "boolean"
             b == Raw(elem, items).bytes
             Word(i) == b[size * (i - 1) + 1] + 256 * b[size * (i - 1) + 2]
             s == [i \in 1 .. Len(b) \div size |-> IF boolean THEN Bool(Word(i) # 0) ELSE Num(Word(i))]
  <1>1. size \in {2, 4} /\ (boolean <=> size = 4) /\ (~boolean <=> elem = "uint16") /\ Len(items) \in Nat
    OBVIOUS
  <1>2. /\ Len(b) = size * Len(items)
        /\ \A i \in 1 .. Len(items) : \A j \in 0 .. size - 1 :
              b[size * (i - 1) + j + 1] = WordByte(items[i], j)
    <2>1. WordSize(elem) = size
      BY DEF WordSize
    <2> HIDE DEF size
    <2> QED
      BY <2>1, RawBytes
  <1> HIDE DEF b
  <1>3. ASSUME NEW i \in 1 .. Len(items)
        PROVE  (IF boolean THEN Bool(Word(i) # 0) ELSE Num(Word(i))) = items[i]
    <2> DEFINE n == Number(items[i])
    <2>1. Word(i) = (n % 256) + 256 * (n \div 256)
      <3> HIDE DEF n, size
      <3>1. b[size * (i - 1) + 0 + 1] = n % 256 /\ b[size * (i - 1) + 1 + 1] = n \div 256
        <4>1. 0 \in 0 .. size - 1 /\ 1 \in 0 .. size - 1 /\ 0 # 1
          BY <1>1
        <4> QED
          BY <1>2, <4>1 DEF n, WordByte
      <3>2. size * (i - 1) + 0 + 1 = size * (i - 1) + 1 /\ size * (i - 1) + 1 + 1 = size * (i - 1) + 2
        BY <1>1
      <3> QED
        BY <3>1, <3>2
    <2>2. CASE elem = "uint16"
      <3>1. items[i] \in SomeInt(UInt16)
        BY <2>2
      <3>2. items[i].k = "int" /\ items[i].v \in Int /\ items[i] = Num(items[i].v)
        <4> DEFINE x == items[i]
        <4>1. x \in SomeInt(UInt16)
          BY <3>1
        <4> HIDE DEF x
        <4>2. x.k = "int" /\ x.v \in UInt16 /\ x = Num(x.v)
          BY <4>1 DEF SomeInt, Num
        <4>3. UInt16 \subseteq Int
          BY UnsignedInt
        <4>4. x.v \in Int
          BY <4>2, <4>3
        <4> QED
          BY <4>2, <4>4 DEF x
      <3>3. n = items[i].v
        BY <3>2 DEF Number
      <3> HIDE DEF n, Word
      <3>4. Word(i) = items[i].v
        BY <2>1, <3>2, <3>3
      <3> QED
        BY <1>1, <2>2, <3>2, <3>4
    <2>3. CASE elem = "boolean"
      <3>1. items[i] \in SomeBool
        BY <2>3
      <3>2. items[i].k = "bool" /\ items[i].truth \in BOOLEAN /\ items[i] = Bool(items[i].truth)
        BY <3>1 DEF SomeBool, Bool
      <3>3. n = IF items[i].truth THEN 1 ELSE 0
        BY <3>2 DEF Number
      <3> HIDE DEF n, Word
      <3>4. Word(i) # 0 <=> items[i].truth
        BY <2>1, <3>2, <3>3
      <3>5. (Word(i) # 0) = items[i].truth
        BY <3>2, <3>4
      <3> QED
        BY <2>3, <3>2, <3>5
    <2> QED
      BY <2>2, <2>3
  <1>4. Unpack(b, size, boolean) = IF Len(b) < size THEN List(<<>>) ELSE IF Len(b) % size # 0 THEN Raise ELSE List(s)
    BY DEF Unpack
  <1> HIDE DEF Word
  <1>5. /\ Len(b) < size <=> Len(items) = 0
        /\ Len(b) % size = 0 /\ Len(b) \div size = Len(items)
    <2> HIDE DEF size
    <2>1. CASE size = 2
      BY <1>1, <1>2, <2>1
    <2>2. CASE size = 4
      BY <1>1, <1>2, <2>2
    <2> QED
      BY <1>1, <2>1, <2>2
  <1>6. CASE Len(items) = 0
    <2>1. items = <<>>
      BY <1>6
    <2> HIDE DEF size, boolean, s
    <2> QED
      BY <1>4, <1>5, <1>6, <2>1 DEF b, size, boolean
  <1>7. CASE Len(items) # 0
    <2>1. s = items
      <3> DEFINE Item(i) == IF boolean THEN Bool(Word(i) # 0) ELSE Num(Word(i))
      <3>1. \A i \in 1 .. Len(items) : Item(i) = items[i]
        BY <1>3
      <3> HIDE DEF Item
      <3>2. s = [i \in 1 .. Len(items) |-> Item(i)]
        BY <1>5 DEF Item
      <3>3. items = [i \in 1 .. Len(items) |-> items[i]]
        OBVIOUS
      <3> HIDE DEF s
      <3> QED
        BY <3>1, <3>2, <3>3
    <2> HIDE DEF size, boolean, s
    <2> QED
      BY <1>4, <1>5, <1>7, <2>1 DEF b, size, boolean
  <1> QED
    BY <1>6, <1>7

-----------------------------------------------------------------------------
(***************************************************************************)
(* What a field of a message is copied to.                                 *)
(***************************************************************************)
\* A new object.
LEMMA NewField ==
    ASSUME NEW side \in {"ros", "pdu"}, NEW m \in DOMAIN Messages, NEW f \in DOMAIN Messages[m]
    PROVE  LET dst  == New([side |-> side, msg |-> m])
               type == Messages[m][f]
               y    == dst.fields[f]
           IN  /\ type \in Types
               /\ dst.class = [side |-> side, msg |-> m] /\ dst.class \in Classes
               /\ DOMAIN dst.fields = DOMAIN Messages[m]
               /\ FieldType(dst, f) = IF side = "ros" THEN type ELSE NoType
               /\ type.shape = "msg" => y = Untouched /\ y # None /\ type.elem \in DOMAIN Messages
               /\ y.k = "list" => y.items = <<>>
  <1> DEFINE dst  == New([side |-> side, msg |-> m])
             type == Messages[m][f]
             y    == dst.fields[f]
  <1>1. type \in Types /\ (type.shape = "msg" => type.elem \in DOMAIN Messages)
    BY MapperAssumption DEF Types
  <1>2. /\ dst.class = [side |-> side, msg |-> m] /\ dst.class \in Classes
        /\ DOMAIN dst.fields = DOMAIN Messages[m]
    BY DEF New, Classes
  <1>3. dst.class.side = side /\ dst.class.msg = m
    BY <1>2
  <1>4. y = CASE type.shape = "msg" -> Untouched
              [] type.shape = "seq" -> IF type.elem = "octet" /\ side = "ros"
                                       THEN Bytes(<<>>) ELSE List(<<>>)
              [] OTHER -> Num(0)
    BY DEF New
  <1> HIDE DEF dst
  <1>5. FieldType(dst, f) = IF side = "ros" THEN type ELSE NoType
    BY <1>3 DEF FieldType
  <1>6. /\ type.shape = "msg" => y = Untouched
        /\ y \in {Untouched, Bytes(<<>>), List(<<>>), Num(0)}
    BY <1>4
  <1> HIDE DEF y
  <1>7. (y = Untouched => y # None) /\ (y.k = "list" => y.items = <<>>)
    BY <1>6 DEF Untouched, None, Bytes, List, Num
  <1> QED
    BY <1>1, <1>2, <1>5, <1>6, <1>7 DEF y, dst

\* A list that is copied to an empty one is copied as it is.
LEMMA CopyListExact ==
    ASSUME NEW items, NEW dst, NEW f, dst.fields[f].k = "list" => dst.fields[f].items = <<>>,
           \/ items \in Seq(Scalars)
           \/ items \in Seq({Object}) /\ (items # <<>> => Importable(ItemType(dst, f)))
    PROVE  CopyList(items, dst, f) = List(items)
  <1> DEFINE old == IF dst.fields[f].k = "list" THEN dst.fields[f].items ELSE <<>>
             s == [i \in DOMAIN items |-> IF IsScalar(items[i]) THEN items[i]
                                          ELSE IF i \in DOMAIN old THEN old[i] ELSE Object]
  <1>1. ~IsScalar(Object) /\ \A e \in Scalars : IsScalar(e)
    BY DEF Object, Scalars, SomeInt, SomeBool, SomeBytes, IsScalar
  <1>2. CASE items = <<>> \/ IsScalar(items[1])
    BY <1>2, Zenon DEF CopyList
  <1>3. CASE ~(items = <<>> \/ IsScalar(items[1]))
    <2>1. items \in Seq({Object}) /\ Importable(ItemType(dst, f))
      BY <1>1, <1>3
    <2>2. CopyList(items, dst, f) = List(s)
      BY <1>3, <2>1, Zenon DEF CopyList
    <2>3. DOMAIN old = {}
      OBVIOUS
    <2> HIDE DEF old
    <2>4. \A i \in DOMAIN items : s[i] = items[i]
      BY <1>1, <2>1, <2>3
    <2>5. items = [i \in DOMAIN items |-> items[i]]
      BY <2>1
    <2>6. s = items
      BY <2>4, <2>5
    <2> QED
      BY <2>2, <2>6
  <1> QED
    BY <1>2, <1>3

\* To the PDU.
LEMMA ToPduField ==
    ASSUME NEW m \in DOMAIN Messages, NEW f \in DOMAIN Messages[m], NEW src,
           src.class = [side |-> "ros", msg |-> m], src.fields[f] \in ValuesOf(Messages[m][f]),
           src.fields[f] # Opaque,
           Items(src.fields[f]) # {} => Messages[m][f].elem \in DOMAIN Messages
    PROVE  CopyField(src, New([side |-> "pdu", msg |-> m]), f) = PduValue(Messages[m][f], src.fields[f])
  <1> DEFINE dst  == New([side |-> "pdu", msg |-> m])
             type == Messages[m][f]
             x    == src.fields[f]
             y    == dst.fields[f]
             z    == CopyField(src, dst, f)
  <1>1. /\ type \in Types /\ dst.class = [side |-> "pdu", msg |-> m]
        /\ FieldType(dst, f) = NoType
        /\ type.shape = "msg" => y = Untouched /\ y # None
        /\ y.k = "list" => y.items = <<>>
    BY NewField
  <1>2. FieldType(src, f) = type
    BY DEF FieldType
  <1> HIDE DEF dst
  <1>3. \A e : ~Declares(dst, f, e)
    BY <1>1 DEF Declares, NoType
  <1>4. ~IsOctets(dst, f) /\ (IsOctets(src, f) <=> type = ByteArray)
    BY <1>2, <1>3 DEF IsOctets, Declares, ByteArray
  <1>5. Decoded(dst, f, x) = Unread
    BY <1>3, Zenon DEF Decoded, Decode
  <1>6. CASE type = ByteArray
    <2> DEFINE o == AsBytes(x)
    <2>1. o \in SomeBytes /\ OctetValues(x) = o
      BY <1>1, <1>6, ValueForms
    <2>2. o # Unread
      BY <2>1 DEF SomeBytes, Unread
    <2> HIDE DEF o
    <2>3. Octets(src, dst, f) = Ints(o.bytes)
      BY <1>1, <1>4, <1>6, <2>1, <2>2, Zenon DEF Octets
    <2>4. Ints(o.bytes) # Unread
      BY DEF Ints, List, Unread
    <2>5. z = Ints(o.bytes)
      BY <2>3, <2>4, Zenon DEF CopyField
    <2> QED
      BY <1>6, <2>5 DEF PduValue, dst, o
  <1>7. CASE type # ByteArray
    <2>a. x \in PlainValues(type)
      BY <1>1, <1>7, ValueForms
    <2>1. Octets(src, dst, f) = Unread
      BY <1>4, <1>7, Zenon DEF Octets
    <2>2. PduValue(type, x) = x
      BY <1>7 DEF PduValue
    <2>3. CASE x \in Scalars
      <3>1. IsScalar(x)
        BY <2>3, NoItems
      <3> QED
        BY <1>5, <2>1, <2>2, <3>1, Zenon DEF CopyField, dst
    <2>4. CASE type.shape = "seq" /\ type.elem \in Words
      <3>1. x \in SomeList(Scalars)
        BY <1>1, <2>a, <2>4, TypedValue
      <3>2. ~IsScalar(x) /\ x.k = "list" /\ x.items \in Seq(Scalars) /\ x = List(x.items)
        BY <3>1, NoItems
      <3>3. z = CopyList(x.items, dst, f)
        BY <1>5, <2>1, <3>2, Zenon DEF CopyField
      <3>4. CopyList(x.items, dst, f) = List(x.items)
        <4> DEFINE s == x.items
        <4>1. s \in Seq(Scalars)
          BY <3>2
        <4> HIDE DEF s
        <4>2. CopyList(s, dst, f) = List(s)
          BY <1>1, <4>1, CopyListExact
        <4> QED
          BY <4>2 DEF s
      <3> QED
        BY <2>2, <3>2, <3>3, <3>4 DEF dst
    <2>5. CASE type.shape = "seq" /\ type.elem \notin Primitive
      <3>1. x \in SomeList({Object})
        BY <1>1, <2>a, <2>5, TypedValue
      <3>2. ~IsScalar(x) /\ x.k = "list" /\ x.items \in Seq({Object}) /\ x = List(x.items)
        BY <3>1 DEF SomeList, IsScalar, List
      <3>3. z = CopyList(x.items, dst, f)
        BY <1>5, <2>1, <3>2, Zenon DEF CopyField
      <3>4. x.items # <<>> => Importable(ItemType(dst, f))
        <4> SUFFICES ASSUME x.items # <<>> PROVE Importable(ItemType(dst, f))
          OBVIOUS
        <4>1. x \in FieldValues
          <5>1. x \in SourceValues
            BY <1>1, <2>a, TypedValue
          <5> QED
            BY <5>1, SourceKinds
        <4>2. Items(x) = {i \in DOMAIN x.items : x.items[i] = Object}
          BY <3>2, <4>1, ItemsOf
        <4>3. 1 \in Items(x)
          BY <3>2, <4>2
        <4>4. ItemType(dst, f) = [[side |-> "pdu", msg |-> m] EXCEPT !.msg = type.elem]
          BY <1>1, <2>5 DEF ItemType
        <4> QED
          BY <4>3, <4>4 DEF Importable
      <3>5. CopyList(x.items, dst, f) = List(x.items)
        <4> DEFINE s == x.items
        <4>1. s \in Seq({Object}) /\ (s # <<>> => Importable(ItemType(dst, f)))
          BY <3>2, <3>4
        <4> HIDE DEF s
        <4>2. CopyList(s, dst, f) = List(s)
          BY <1>1, <4>1, CopyListExact
        <4> QED
          BY <4>2 DEF s
      <3> QED
        BY <2>2, <3>2, <3>3, <3>5 DEF dst
    <2>6. CASE type.shape = "msg"
      <3>1. x = Object
        BY <1>1, <2>a, <2>6, TypedValue
      <3>2. ~IsScalar(x) /\ x.k # "list"
        BY <3>1 DEF Object, IsScalar
      <3>3. ~IsDeclaredSequence(src, dst, f)
        BY <1>2, <2>6 DEF IsDeclaredSequence, NoType
      <3>4. z = IF y = None THEN Alias ELSE IF y = Untouched THEN Object ELSE y
        BY <1>5, <2>1, <3>1, <3>2, <3>3, Zenon DEF CopyField
      <3> QED
        BY <1>1, <2>2, <2>6, <3>1, <3>4 DEF dst
    <2>7. x \in Scalars \/ type.shape = "msg" \/ (type.shape = "seq" /\ type.elem \in Words)
              \/ (type.shape = "seq" /\ type.elem \notin Primitive)
      <3>1. type.shape = "scalar" => x \in Scalars
        BY <1>1, <2>a, TypedValue DEF Scalars
      <3>2. type.shape = "seq" /\ type.elem = "octet" => x \in Scalars
        BY <1>1, <2>a, TypedValue DEF Scalars
      <3>3. type.elem \in Primitive => type.elem \in Words \cup {"octet"}
        BY DEF Primitive, Words
      <3> QED
        BY <1>1, <3>1, <3>2, <3>3 DEF Types
    <2> QED
      BY <2>3, <2>4, <2>5, <2>6, <2>7
  <1> QED
    BY <1>6, <1>7

\* A fixed array of numbers is not copied.
LEMMA ToPduRaises ==
    ASSUME NEW m \in DOMAIN Messages, NEW f \in DOMAIN Messages[m], NEW src,
           src.class = [side |-> "ros", msg |-> m], src.fields[f] \in ValuesOf(Messages[m][f]),
           src.fields[f] = Opaque
    PROVE  CopyField(src, New([side |-> "pdu", msg |-> m]), f) = Raise
  <1> DEFINE dst  == New([side |-> "pdu", msg |-> m])
             type == Messages[m][f]
             x    == src.fields[f]
  <1>1. type \in Types /\ FieldType(dst, f) = NoType
    BY NewField
  <1>2. FieldType(src, f) = type
    BY DEF FieldType
  <1> HIDE DEF dst
  <1>3. type.shape = "seq" /\ type.elem \in {"uint8", "uint16"}
    BY <1>1, ValueForms
  <1>4. ~IsOctets(dst, f) /\ ~IsOctets(src, f)
    BY <1>1, <1>2, <1>3 DEF IsOctets, Declares, NoType
  <1>5. Octets(src, dst, f) = Unread
    BY <1>4, Zenon DEF Octets
  <1>6. x.k \notin {"bytes", "list"} /\ ~IsScalar(x)
    BY DEF Opaque, IsScalar
  <1>7. Decoded(dst, f, x) = Unread
    BY <1>6, Zenon DEF Decoded
  <1>8. IsDeclaredSequence(src, dst, f)
    BY <1>2, <1>3 DEF IsDeclaredSequence
  <1> QED
    BY <1>5, <1>6, <1>7, <1>8, Zenon DEF CopyField, dst

\* And back, where the type is not bounded, from a value or from its raw bytes.
LEMMA ToRosField ==
    ASSUME NEW m \in DOMAIN Messages, NEW f \in DOMAIN Messages[m], ~Messages[m][f].bounded,
           NEW v \in PlainValues(Messages[m][f]),
           Items(v) # {} => Messages[m][f].elem \in DOMAIN Messages,
           NEW src, src.class = [side |-> "pdu", msg |-> m],
           \/ src.fields[f] = PduValue(Messages[m][f], v)
           \/ src.fields[f] = RawValue(Messages[m][f], PduValue(Messages[m][f], v))
    PROVE  CopyField(src, New([side |-> "ros", msg |-> m]), f) = v
  <1> DEFINE dst  == New([side |-> "ros", msg |-> m])
             type == Messages[m][f]
             x    == src.fields[f]
             y    == dst.fields[f]
             z    == CopyField(src, dst, f)
  <1>1. /\ type \in Types /\ dst.class = [side |-> "ros", msg |-> m]
        /\ FieldType(dst, f) = type
        /\ type.shape = "msg" => y = Untouched /\ y # None
        /\ y.k = "list" => y.items = <<>>
    BY NewField
  <1>2. FieldType(src, f) = NoType
    BY DEF FieldType
  <1> HIDE DEF dst
  <1>3. \A e : Declares(dst, f, e) <=> type.shape = "seq" /\ type.elem = e
    BY <1>1 DEF Declares, Types
  <1>4. ~IsOctets(src, f) /\ (IsOctets(dst, f) <=> type.shape = "seq" /\ type.elem = "octet")
    BY <1>2, <1>3 DEF IsOctets, Declares, NoType
  <1>5. CASE type.shape = "seq" /\ type.elem = "octet"
    <2>1. v \in SomeBytes /\ v.bytes \in Seq(UInt8)
      BY <1>1, <1>5, TypedValue
    <2>2. type = ByteArray
      BY <1>1, <1>5 DEF Types, ByteArray
    <2>3. PduValue(type, v) = Ints(v.bytes)
      BY <2>1, <2>2 DEF PduValue, AsBytes, SomeBytes
    <2>4. Ints(v.bytes).k = "list"
      BY DEF Ints, List
    <2>5. RawValue(type, Ints(v.bytes)) = Raw("octet", Ints(v.bytes).items)
      BY <1>5, <2>4 DEF RawValue, Primitive
    <2>6. v = Bytes(v.bytes) /\ v.k = "bytes" /\ v \in FieldValues
      BY <2>1 DEF SomeBytes, Bytes, FieldValues, Scalars
    <2>7. Raw("octet", Ints(v.bytes).items) = v /\ OctetValues(Ints(v.bytes)) = v
      BY <2>1, <2>6, BytesBack
    <2>8. x = v \/ x = Ints(v.bytes)
      BY <2>3, <2>5, <2>7
    <2>9. OctetValues(x) = v /\ v # Unread
      BY <2>6, <2>7, <2>8, OctetsRead DEF Unread
    <2>10. Octets(src, dst, f) = v
      BY <1>4, <1>5, <2>9, Zenon DEF Octets
    <2>11. z = v
      BY <2>9, <2>10, Zenon DEF CopyField
    <2> QED
      BY <2>11 DEF dst
  <1>6. CASE ~(type.shape = "seq" /\ type.elem = "octet")
    <2>1. Octets(src, dst, f) = Unread
      BY <1>4, <1>6, Zenon DEF Octets
    <2>2. PduValue(type, v) = v
      BY <1>6 DEF PduValue, ByteArray
    <2>3. ASSUME x = v, x.k # "bytes" PROVE Decoded(dst, f, x) = Unread
      BY <2>3, Zenon DEF Decoded
    <2>4. CASE type.shape = "scalar"
      <3>1. v \in SomeInt(Int) \cup SomeBool
        BY <1>1, <2>4, TypedValue
      <3>2. v \in Scalars /\ v.k # "bytes"
        BY <3>1 DEF Scalars, SomeInt, SomeBool
      <3>3. x = v
        BY <2>2, <2>4 DEF RawValue
      <3>4. IsScalar(v)
        BY <3>2, NoItems
      <3> QED
        BY <2>1, <2>3, <3>2, <3>3, <3>4, Zenon DEF CopyField, dst
    <2>5. CASE type.shape = "msg"
      <3>1. v = Object
        BY <1>1, <2>5, TypedValue
      <3>2. x = v
        BY <2>2, <2>5 DEF RawValue
      <3>3. ~IsScalar(x) /\ x.k # "list" /\ x.k # "bytes"
        BY <3>1, <3>2 DEF Object, IsScalar
      <3>4. ~IsDeclaredSequence(src, dst, f)
        BY <1>1, <1>2, <2>5 DEF IsDeclaredSequence, NoType
      <3>5. z = IF y = None THEN Alias ELSE IF y = Untouched THEN Object ELSE y
        BY <2>1, <2>3, <3>1, <3>2, <3>3, <3>4, Zenon DEF CopyField
      <3> QED
        BY <1>1, <2>5, <3>1, <3>5 DEF dst
    <2>6. ASSUME v.k = "list", v = List(v.items), x = v,
                 \/ v.items \in Seq(Scalars)
                 \/ v.items \in Seq({Object}) /\ (v.items # <<>> => Importable(ItemType(dst, f)))
          PROVE  z = v
      <3>1. ~IsScalar(x) /\ x.k = "list"
        BY <2>6 DEF IsScalar
      <3>2. z = CopyList(v.items, dst, f)
        BY <2>1, <2>3, <2>6, <3>1, Zenon DEF CopyField
      <3> DEFINE s == v.items
      <3>3. s \in Seq(Scalars) \/ (s \in Seq({Object}) /\ (s # <<>> => Importable(ItemType(dst, f))))
        BY <2>6
      <3> HIDE DEF s
      <3>4. CopyList(s, dst, f) = List(s)
        BY <1>1, <3>3, CopyListExact
      <3> QED
        BY <2>6, <3>2, <3>4 DEF s
    <2>7. CASE type.shape = "seq" /\ type.elem \in Words
      <3>1. v \in SomeList(Scalars)
        BY <1>1, <2>7, TypedValue
      <3>2. v.k = "list" /\ v.items \in Seq(Scalars) /\ v = List(v.items)
        BY <3>1, NoItems
      <3>3. CASE x = v
        BY <2>6, <3>2, <3>3 DEF dst
      <3>4. CASE x # v
        <4> DEFINE items == v.items
                   raw == Raw(type.elem, items)
        <4>1. type.elem \in {"uint8", "uint16", "boolean"} /\ x = raw
          BY <2>2, <2>7, <3>4 DEF RawValue, Words, Primitive
        <4>2. \/ type.elem = "uint8" /\ v \in SomeList(SomeInt(UInt8))
              \/ type.elem = "uint16" /\ v \in SomeList(SomeInt(UInt16))
              \/ type.elem = "boolean" /\ v \in SomeList(SomeBool)
          BY <1>1, <2>7, <4>1, TypedValue
        <4>3. v \in SomeList(SomeInt(Int) \cup SomeBool)
          BY <4>2, Narrow, Zenon
        <4>4. items \in Seq(SomeInt(Int) \cup SomeBool)
          BY <4>3 DEF SomeList
        <4>5. raw \in SomeBytes /\ raw.k = "bytes"
          <5> HIDE DEF items
          <5>1. raw \in SomeBytes
            BY <4>4, RawBytes
          <5> QED
            BY <5>1 DEF SomeBytes
        <4>6. Decode(dst, f, raw.bytes) = v
          <5>1. CASE type.elem = "uint8"
            <6> DEFINE b == [i \in DOMAIN items |-> items[i].v]
            <6>1. items \in Seq(SomeInt(UInt8))
              BY <4>2, <5>1 DEF SomeList
            <6>2. \A i \in DOMAIN items : items[i] \in SomeInt(UInt8)
              BY <6>1
            <6>3. \A i \in DOMAIN items : items[i].v \in UInt8 /\ items[i] = Num(items[i].v)
              <7> HIDE DEF items
              <7> QED
                BY <6>2 DEF SomeInt, Num
            <6>4. b \in Seq(UInt8)
              BY <6>1, <6>3
            <6>5. Ints(b).items = items
              <7>1. Ints(b).items = [i \in DOMAIN b |-> Num(b[i])]
                BY DEF Ints, List
              <7>2. items = [i \in DOMAIN items |-> items[i]]
                BY <6>1
              <7> HIDE DEF items
              <7> QED
                BY <6>3, <7>1, <7>2
            <6>6. Ints(b) = v
              <7>1. Ints(b) = List(Ints(b).items)
                BY DEF Ints, List
              <7> QED
                BY <3>2, <6>5, <7>1
            <6>7. raw = Bytes(b)
              <7>1. Raw("uint8", Ints(b).items) = Bytes(b)
                <8> HIDE DEF b
                <8> QED
                  BY <6>4, BytesBack
              <7> QED
                BY <5>1, <6>5, <7>1
            <6>8. raw.bytes = b
              <7> HIDE DEF raw, b
              <7> QED
                BY <6>7 DEF Bytes
            <6>9. Decode(dst, f, raw.bytes) = Ints(raw.bytes)
              <7>1. Declares(dst, f, "uint8") /\ ~Declares(dst, f, "boolean") /\ ~Declares(dst, f, "uint16")
                BY <1>3, <2>7, <5>1
              <7> QED
                BY <7>1, Zenon DEF Decode
            <6> HIDE DEF b, raw
            <6> QED
              BY <6>6, <6>8, <6>9
          <5>2. CASE type.elem = "uint16"
            <6>1. items \in Seq(SomeInt(UInt16))
              BY <4>2, <5>2 DEF SomeList
            <6>2. Unpack(raw.bytes, 2, FALSE) = List(items)
              <7> HIDE DEF items
              <7>1. Unpack(Raw("uint16", items).bytes, IF "uint16" = "uint16" THEN 2 ELSE 4,
                           "uint16" = "boolean") = List(items)
                BY <4>4, <6>1, WordsBack
              <7> QED
                BY <5>2, <7>1
            <6>3. Declares(dst, f, "uint16") /\ ~Declares(dst, f, "uint8") /\ ~Declares(dst, f, "boolean")
              BY <1>3, <2>7, <5>2
            <6>4. Decode(dst, f, raw.bytes) = Unpack(raw.bytes, 2, FALSE)
              BY <6>3, Zenon DEF Decode
            <6> QED
              BY <3>2, <6>2, <6>4
          <5>3. CASE type.elem = "boolean"
            <6>1. items \in Seq(SomeBool)
              BY <4>2, <5>3 DEF SomeList
            <6>2. Unpack(raw.bytes, 4, TRUE) = List(items)
              <7> HIDE DEF items
              <7>1. Unpack(Raw("boolean", items).bytes, IF "boolean" = "uint16" THEN 2 ELSE 4,
                           "boolean" = "boolean") = List(items)
                BY <4>4, <6>1, WordsBack
              <7> QED
                BY <5>3, <7>1
            <6>3. Declares(dst, f, "boolean") /\ ~Declares(dst, f, "uint8") /\ ~Declares(dst, f, "uint16")
              BY <1>3, <2>7, <5>3
            <6>4. Decode(dst, f, raw.bytes) = Unpack(raw.bytes, 4, TRUE)
              BY <6>3, Zenon DEF Decode
            <6> QED
              BY <3>2, <6>2, <6>4
          <5> QED
            BY <4>1, <5>1, <5>2, <5>3
        <4>7. v # Unread
          BY <3>2 DEF Unread
        <4>8. Decoded(dst, f, x) = v
          BY <4>1, <4>5, <4>6, Zenon DEF Decoded
        <4> QED
          BY <2>1, <4>7, <4>8, Zenon DEF CopyField, dst
      <3> QED
        BY <3>3, <3>4
    <2>8. CASE type.shape = "seq" /\ type.elem \notin Primitive
      <3>1. v \in SomeList({Object})
        BY <1>1, <2>8, TypedValue
      <3>2. v.k = "list" /\ v.items \in Seq({Object}) /\ v = List(v.items)
        BY <3>1 DEF SomeList, List
      <3>3. x = v
        BY <2>2, <2>8 DEF RawValue
      <3>4. v.items # <<>> => Importable(ItemType(dst, f))
        <4> SUFFICES ASSUME v.items # <<>> PROVE Importable(ItemType(dst, f))
          OBVIOUS
        <4>1. v \in FieldValues
          <5>1. v \in SourceValues
            BY <1>1, TypedValue
          <5> QED
            BY <5>1, SourceKinds
        <4>2. Items(v) = {i \in DOMAIN v.items : v.items[i] = Object}
          BY <3>2, <4>1, ItemsOf
        <4>3. 1 \in Items(v)
          BY <3>2, <4>2
        <4>4. ItemType(dst, f) = [[side |-> "ros", msg |-> m] EXCEPT !.msg = type.elem]
          BY <1>1, <2>8 DEF ItemType
        <4> QED
          BY <4>3, <4>4 DEF Importable
      <3> QED
        BY <2>6, <3>2, <3>3, <3>4 DEF dst
    <2> QED
      <3>1. type.elem \in Primitive => type.elem \in Words \cup {"octet"}
        BY DEF Primitive, Words
      <3> QED
        BY <1>1, <1>6, <2>4, <2>5, <2>7, <2>8, <3>1 DEF Types
  <1> QED
    BY <1>5, <1>6

\* A set that contains 0 and with each number the next contains all numbers.
LEMMA NatSetInduction ==
    ASSUME NEW T, 0 \in T, \A n \in Nat : n \in T => n + 1 \in T
    PROVE  Nat \subseteq T
  <1> SUFFICES ASSUME Nat \ T # {} PROVE FALSE
    OBVIOUS
  <1> DEFINE R == {ss \in Nat \X Nat : ss[1] < ss[2]}
  <1>1. IsWellFoundedOn(R, Nat)
    BY NatLessThanWellFounded DEF OpToRel
  <1> DEFINE U == Nat \ T
  <1>2. U \subseteq Nat /\ U # {}
    OBVIOUS
  <1> HIDE DEF R, U
  <1>3. PICK x \in U : \A y \in U : <<y, x>> \notin R
    BY <1>1, <1>2, WFMin
  <1>4. x \in Nat \ {0}
    BY DEF U
  <1>5. x - 1 \in Nat /\ <<x - 1, x>> \in R
    BY <1>4 DEF R
  <1>6. x - 1 \in T
    BY <1>3, <1>5 DEF U
  <1>7. x - 1 + 1 \in T
    BY <1>5, <1>6
  <1> QED
    BY <1>4, <1>7 DEF U

-----------------------------------------------------------------------------
(***************************************************************************)
(* A copy whose result is known for each object, as soon as the object is  *)
(* copied onto a new one: src is its source and image its result.          *)
(***************************************************************************)
\* Copied onto a new object, each one gives its image, and makes new ones for the
\* images of the objects nested in it; or raises, where a sequence is not known.
Faithful(src, image) ==
    /\ IsTree(src) /\ DOMAIN image = DOMAIN src /\ image = [p \in DOMAIN image |-> image[p]]
    /\ \A p \in DOMAIN src : LET dst == New(image[p].class) IN
        /\ image[p].class \in Classes
        /\ Known(src[p]) =>
            /\ \A f \in Shared(src[p], dst) : Copied(src[p], dst)[f] # Raise
            /\ [class |-> dst.class, fields |-> Copied(src[p], dst)] = image[p]
            /\ Places(image[p].fields) = Places(src[p].fields)
            /\ \A s \in Places(src[p].fields) :
                   ClassAt(dst, s, src[Append(p, s)]) = image[Append(p, s)].class
        /\ ~Known(src[p]) => \E f \in Shared(src[p], dst) : Copied(src[p], dst)[f] = Raise

\* An object that is still to be copied is a new one, any other is its image, and has
\* no unknown sequence, and what is nested in it is there.
Phase(src, image) ==
    /\ from = src
    /\ to = [p \in DOMAIN to |-> to[p]] /\ <<>> \in DOMAIN to /\ DOMAIN to \subseteq DOMAIN src
    /\ agenda \subseteq DOMAIN to
    /\ \A a \in agenda : to[a] = New(image[a].class)
    /\ \A p \in DOMAIN to \ agenda :
        /\ to[p] = image[p] /\ Known(src[p])
        /\ \A s \in Places(src[p].fields) : Append(p, s) \in DOMAIN to

\* So it is when the copy begins,
LEMMA PhaseStart ==
    ASSUME NEW src, NEW image, Faithful(src, image), from = src,
           to = Root(New(image[<<>>].class)), agenda = {<<>>}
    PROVE  Phase(src, image)
  <1>1. DOMAIN to = {<<>>} /\ to[<<>>] = New(image[<<>>].class) /\ to = [p \in DOMAIN to |-> to[p]]
    BY DEF Root
  <1>2. <<>> \in DOMAIN src
    BY DEF Faithful, IsTree
  <1> QED
    BY <1>1, <1>2 DEF Phase

\* and after each object that is copied, unless one with an unknown sequence raises.
LEMMA PhaseStep ==
    ASSUME NEW CONSTANT src, NEW CONSTANT image, Faithful(src, image), Phase(src, image),
           NEW CONSTANT p \in agenda, CopyObject(p)
    PROVE  IF Known(src[p]) THEN Phase(src, image)' /\ raised' = raised
           ELSE raised' /\ agenda' = {} /\ ~Readable(src)
  <1> DEFINE dst == to[p]
             copied == Copied(from[p], dst)
             made == {Append(p, s) : s \in Places(copied) \ Places(dst.fields)}
             nested == {Append(p, s) : s \in Places(copied)} \cap DOMAIN from
             node == [class |-> dst.class, fields |-> copied]
  <1>1. /\ from = src /\ p \in DOMAIN to /\ p \in DOMAIN src /\ DOMAIN to \subseteq DOMAIN src
        /\ dst = New(image[p].class)
    BY DEF Phase
  <1>a. CASE ~Known(src[p])
    <2>1. \E f \in Shared(from[p], dst) : copied[f] = Raise
      BY <1>1, <1>a DEF Faithful
    <2> HIDE DEF dst, copied
    <2>2. raised' /\ agenda' = {}
      BY <2>1 DEF CopyObject, dst, copied
    <2>3. ~Readable(src)
      BY <1>1, <1>a DEF Readable
    <2> QED
      BY <1>a, <2>2, <2>3
  <1>b. SUFFICES ASSUME Known(src[p]) PROVE Phase(src, image)' /\ raised' = raised
    BY <1>a
  <1>2. /\ image[p].class \in Classes
        /\ \A f \in Shared(from[p], dst) : copied[f] # Raise
        /\ node = image[p] /\ Places(image[p].fields) = Places(src[p].fields)
        /\ \A s \in Places(src[p].fields) :
               ClassAt(dst, s, src[Append(p, s)]) = image[Append(p, s)].class
    BY <1>1, <1>b DEF Faithful
  <1>3. Places(dst.fields) = {}
    BY <1>1, <1>2, NewInstance
  <1>4. copied = image[p].fields
    <2>1. node.fields = copied
      OBVIOUS
    <2> QED
      BY <1>2, <2>1
  <1>5. /\ to' = [q \in DOMAIN to \cup made |->
                     CASE q \in made -> New(ClassAt(dst, q[Len(q)], from[q]))
                       [] q = p -> node
                       [] OTHER -> to[q]]
        /\ agenda' = (agenda \ {p}) \cup nested
        /\ from' = from /\ raised' = raised
    BY <1>2 DEF CopyObject
  <1>6. made = {Append(p, s) : s \in Places(src[p].fields)}
    BY <1>2, <1>3, <1>4
  <1>7. /\ p \in Paths /\ DOMAIN src \subseteq Paths
        /\ \A s \in Places(src[p].fields) : Append(p, s) \in DOMAIN src
    BY <1>1 DEF Faithful, IsTree, Paths
  <1>8. made \subseteq DOMAIN src
    BY <1>6, <1>7
  <1>9. nested = made
    <2>1. nested = {Append(p, s) : s \in Places(src[p].fields)} \cap DOMAIN src
      BY <1>1, <1>2, <1>4
    <2> HIDE DEF nested, made
    <2> QED
      BY <1>6, <1>8, <2>1
  <1>10. ASSUME NEW q \in made PROVE to'[q] = New(image[q].class) /\ q # p
    <2>1. PICK s \in Places(src[p].fields) : q = Append(p, s)
      BY <1>6
    <2>2. q[Len(q)] = s /\ q # p
      BY <1>7, <2>1, AppendPath DEF Paths
    <2>3. to'[q] = New(ClassAt(dst, q[Len(q)], from[q]))
      <3> HIDE DEF made, node, dst
      <3> QED
        BY <1>5, <2>2
    <2>4. ClassAt(dst, s, src[q]) = image[q].class
      BY <1>2, <2>1
    <2> HIDE DEF made, node, dst
    <2> QED
      BY <1>1, <2>2, <2>3, <2>4
  <1> HIDE DEF made, nested, node, dst, copied
  <1>11. /\ DOMAIN to' = DOMAIN to \cup made
         /\ to' = [q \in DOMAIN to' |-> to'[q]]
         /\ to'[p] = node
         /\ \A q \in DOMAIN to \ made : q # p => to'[q] = to[q]
    <2>1. p \notin made
      BY <1>10
    <2> QED
      BY <1>1, <1>5, <2>1
  <1>12. ASSUME NEW q \in DOMAIN to' \ agenda'
         PROVE  /\ to'[q] = image[q] /\ Known(src[q])
                /\ \A s \in Places(src[q].fields) : Append(q, s) \in DOMAIN to'
    <2>1. q \notin made /\ (q \in agenda => q = p) /\ q \in DOMAIN to
      BY <1>5, <1>9, <1>11
    <2>2. CASE q = p
      <3>1. to'[q] = image[q]
        BY <1>2, <1>11, <2>2
      <3>2. \A s \in Places(src[p].fields) : Append(p, s) \in made
        BY <1>6
      <3> QED
        BY <1>b, <1>11, <2>2, <3>1, <3>2
    <2>3. CASE q # p
      <3>1. q \in DOMAIN to \ agenda
        BY <2>1, <2>3
      <3>2. to[q] = image[q] /\ Known(src[q]) /\ \A s \in Places(src[q].fields) : Append(q, s) \in DOMAIN to
        BY <3>1 DEF Phase
      <3> QED
        BY <1>11, <2>1, <2>3, <3>2
    <2> QED
      BY <2>2, <2>3
  <1>13. ASSUME NEW a \in agenda' PROVE a \in DOMAIN to' /\ to'[a] = New(image[a].class)
    <2>1. CASE a \in made
      BY <1>10, <1>11, <2>1
    <2>2. CASE a \notin made
      <3>1. a \in agenda /\ a # p
        BY <1>5, <1>9, <2>2
      <3>2. a \in DOMAIN to /\ to[a] = New(image[a].class)
        BY <3>1 DEF Phase
      <3> QED
        BY <1>11, <2>2, <3>1, <3>2
    <2> QED
      BY <2>1, <2>2
  <1>14. <<>> \in DOMAIN to' /\ DOMAIN to' \subseteq DOMAIN src
    BY <1>1, <1>8, <1>11 DEF Phase
  <1> QED
    BY <1>1, <1>5, <1>11, <1>12, <1>13, <1>14 DEF Phase

\* When nothing is left to be copied, the image is complete, and nothing is unknown.
LEMMA PhaseEnd ==
    ASSUME NEW src, NEW image, Faithful(src, image), Phase(src, image), agenda = {},
           \A p \in DOMAIN src : p # <<>> =>
               \E q \in DOMAIN src : \E s \in Places(src[q].fields) : p = Append(q, s)
    PROVE  to = image /\ Readable(src)
  <1> DEFINE T == {n \in Nat : \A p \in DOMAIN src : Len(p) = n => p \in DOMAIN to}
  <1>1. DOMAIN src \subseteq Seq(STRING \X Nat)
    BY DEF Faithful, IsTree
  <1>2. 0 \in T
    <2>1. ASSUME NEW p \in DOMAIN src, Len(p) = 0 PROVE p = <<>>
      BY <1>1, <2>1
    <2> QED
      BY <2>1 DEF Phase
  <1>3. ASSUME NEW n \in Nat, n \in T PROVE n + 1 \in T
    <2> SUFFICES ASSUME NEW p \in DOMAIN src, Len(p) = n + 1 PROVE p \in DOMAIN to
      OBVIOUS
    <2>1. p # <<>>
      OBVIOUS
    <2>a. PICK q \in DOMAIN src : \E s \in Places(src[q].fields) : p = Append(q, s)
      BY <2>1
    <2>2. PICK s \in Places(src[q].fields) : p = Append(q, s)
      BY <2>a
    <2>3. Len(q) = n
      <3>1. Len(p) = Len(q) + 1 /\ Len(q) \in Nat
        BY <1>1, <2>2, AppendPath
      <3> QED
        BY <3>1
    <2>4. q \in DOMAIN to
      BY <1>3, <2>3
    <2> QED
      BY <2>2, <2>4 DEF Phase
  <1> HIDE DEF T
  <1>4. Nat \subseteq T
    BY <1>2, <1>3, NatSetInduction
  <1>5. DOMAIN to = DOMAIN src
    <2>1. ASSUME NEW p \in DOMAIN src PROVE p \in DOMAIN to
      <3>1. Len(p) \in Nat
        BY <1>1
      <3> QED
        BY <1>4, <3>1 DEF T
    <2> QED
      BY <2>1 DEF Phase
  <1> QED
    BY <1>5 DEF Phase, Faithful, Readable

-----------------------------------------------------------------------------
(***************************************************************************)
(* A message and its PDU are each other's images.                          *)
(***************************************************************************)
\* Where the objects in a value are, by the type of its field.
LEMMA TypedItems ==
    ASSUME NEW type \in Types, NEW x \in ValuesOf(type), NEW i \in Items(x)
    PROVE  /\ i = 0 => type.shape = "msg"
           /\ i # 0 => type.shape = "seq" /\ type.elem \notin Primitive
  <1>1. x \in FieldValues
    BY ValueForms, SourceKinds
  <1>a. x \in PlainValues(type) \/ x \in Scalars \cup SomeList(Scalars)
    <2>1. x # Opaque
      BY <1>1, ItemsOf DEF Opaque, Object
    <2> QED
      BY <2>1, ValueForms
  <1>4. ~(x \in Scalars \cup SomeList(Scalars))
    BY NoItems
  <1>2. type.shape = "scalar" \/ (type.shape = "seq" /\ type.elem = "octet") => x \in Scalars
    BY <1>4, <1>a, TypedValue DEF Scalars
  <1>3. type.shape = "seq" /\ type.elem \in Words => x \in SomeList(Scalars)
    BY <1>4, <1>a, TypedValue
  <1>5. type.elem \in Primitive => type.elem \in Words \cup {"octet"}
    BY DEF Primitive, Words
  <1>6. type.shape = "msg" \/ (type.shape = "seq" /\ type.elem \notin Primitive)
    BY <1>2, <1>3, <1>4, <1>5 DEF Types
  <1>7. CASE type.shape = "msg"
    <2>1. x = Object
      BY <1>4, <1>7, <1>a, TypedValue
    <2>2. Items(x) = {0}
      BY <1>1, <2>1, ItemsOf
    <2> QED
      BY <1>7, <2>2
  <1>8. CASE type.shape = "seq" /\ type.elem \notin Primitive
    <2>1. x \in SomeList({Object})
      BY <1>4, <1>8, <1>a, TypedValue
    <2>2. x.k = "list"
      BY <2>1 DEF SomeList
    <2> QED
      BY <1>1, <1>8, <2>2, ItemsOf
  <1> QED
    BY <1>6, <1>7, <1>8

\* So it is with its one form.
LEMMA PlainItems ==
    ASSUME NEW type \in Types, NEW x \in PlainValues(type), NEW i \in Items(x)
    PROVE  /\ i = 0 => type.shape = "msg"
           /\ i # 0 => type.shape = "seq" /\ type.elem \notin Primitive
  <1>1. x \in ValuesOf(type)
    BY DEF ValuesOf
  <1> QED
    BY <1>1, TypedItems

\* An object of a message.
LEMMA MessageObject ==
    ASSUME NEW v, IsMessage(v), NEW p \in DOMAIN v
    PROVE  LET o == v[p]
               m == o.class.msg
           IN  /\ m \in DOMAIN Messages /\ o.class = [side |-> "ros", msg |-> m] /\ o.class \in Classes
               /\ o = [class |-> o.class, fields |-> [f \in DOMAIN Messages[m] |-> o.fields[f]]]
               /\ DOMAIN o.fields = DOMAIN Messages[m]
               /\ \A f \in DOMAIN Messages[m] :
                    /\ Messages[m][f] \in Types
                    /\ o.fields[f] \in ValuesOf(Messages[m][f])
                    /\ \A i \in Items(o.fields[f]) :
                        /\ Append(p, <<f, i>>) \in DOMAIN v
                        /\ v[Append(p, <<f, i>>)].class = [side |-> "ros", msg |-> Messages[m][f].elem]
                        /\ Messages[m][f].elem \in DOMAIN Messages
  <1> DEFINE o == v[p]
             m == o.class.msg
  <1>1. IsMessage(v)
    OBVIOUS
  <1>2. o.class \in [side : {"ros"}, msg : DOMAIN Messages]
    BY <1>1 DEF IsMessage
  <1>3. m \in DOMAIN Messages /\ o.class = [side |-> "ros", msg |-> m] /\ o.class \in Classes
    BY <1>2 DEF Classes
  <1>4. o = [class |-> o.class, fields |-> [f \in DOMAIN Messages[m] |-> o.fields[f]]]
    <2> DEFINE w == [q \in DOMAIN v |-> [class |-> v[q].class,
                        fields |-> [f \in DOMAIN Messages[v[q].class.msg] |-> v[q].fields[f]]]]
    <2>1. v = w
      BY <1>1, Zenon DEF IsMessage
    <2>2. w[p] = [class |-> o.class, fields |-> [f \in DOMAIN Messages[m] |-> o.fields[f]]]
      OBVIOUS
    <2> HIDE DEF w
    <2> QED
      BY <2>1, <2>2
  <1>5. DOMAIN o.fields = DOMAIN Messages[m]
    <2> DEFINE g == [f \in DOMAIN Messages[m] |-> o.fields[f]]
               r == [class |-> o.class, fields |-> g]
    <2>1. r.fields = g /\ DOMAIN g = DOMAIN Messages[m]
      OBVIOUS
    <2>2. o = r
      BY <1>4, Zenon
    <2> HIDE DEF r, g
    <2>3. o.fields = g
      BY <2>1, <2>2
    <2> QED
      BY <2>1, <2>3
  <1>6. ASSUME NEW f \in DOMAIN Messages[m]
        PROVE  /\ Messages[m][f] \in Types
               /\ o.fields[f] \in ValuesOf(Messages[m][f])
               /\ \A i \in Items(o.fields[f]) :
                    /\ Append(p, <<f, i>>) \in DOMAIN v
                    /\ v[Append(p, <<f, i>>)].class = [side |-> "ros", msg |-> Messages[m][f].elem]
                    /\ Messages[m][f].elem \in DOMAIN Messages
    <2>1. Messages[m][f] \in Types
      BY <1>3, MapperAssumption DEF Types
    <2>2. /\ o.fields[f] \in ValuesOf(Messages[m][f])
          /\ \A i \in Items(o.fields[f]) :
                 v[Append(p, <<f, i>>)].class = [o.class EXCEPT !.msg = Messages[m][f].elem]
      BY <1>1, <1>5 DEF IsMessage
    <2>3. ASSUME NEW i \in Items(o.fields[f])
          PROVE  /\ Append(p, <<f, i>>) \in DOMAIN v
                 /\ v[Append(p, <<f, i>>)].class = [side |-> "ros", msg |-> Messages[m][f].elem]
                 /\ Messages[m][f].elem \in DOMAIN Messages
      <3> DEFINE q == Append(p, <<f, i>>)
      <3>1. <<f, i>> \in Places(o.fields)
        BY <1>5, PlaceIn
      <3>2. q \in DOMAIN v
        BY <1>1, <3>1 DEF IsMessage, IsTree
      <3>3. v[q].class \in [side : {"ros"}, msg : DOMAIN Messages]
        BY <1>1, <3>2 DEF IsMessage
      <3>4. v[q].class = [side |-> "ros", msg |-> Messages[m][f].elem]
        BY <1>3, <2>2
      <3> HIDE DEF q
      <3>5. Messages[m][f].elem \in DOMAIN Messages
        BY <3>3, <3>4
      <3> QED
        BY <3>2, <3>4, <3>5 DEF q
    <2> QED
      BY <2>1, <2>2, <2>3
  <1> QED
    BY <1>3, <1>4, <1>5, <1>6

\* An object of its PDU.
LEMMA PduDomain ==
    ASSUME NEW v, IsMessage(v), NEW src \in PduForms(v)
    PROVE  DOMAIN src = DOMAIN v /\ src = [p \in DOMAIN src |-> src[p]]
  BY DEF PduForms, PduTree, RawTree

\* It has the values of the message, or their raw bytes,
LEMMA PduShape ==
    ASSUME NEW v, IsMessage(v), NEW src \in PduForms(v), NEW p \in DOMAIN v
    PROVE  LET m == v[p].class.msg
               pdu(f) == PduValue(Messages[m][f], v[p].fields[f])
           IN  \E g \in {[f \in DOMAIN Messages[m] |-> pdu(f)],
                         [f \in DOMAIN Messages[m] |-> RawValue(Messages[m][f], pdu(f))]} :
                   src[p] = [class |-> [side |-> "pdu", msg |-> m], fields |-> g]
  <1> DEFINE o == v[p]
             m == o.class.msg
             pdu(f) == PduValue(Messages[m][f], o.fields[f])
             raw(f) == RawValue(Messages[m][f], pdu(f))
             pduFields == [f \in DOMAIN Messages[m] |-> pdu(f)]
             rawFields == [f \in DOMAIN Messages[m] |-> raw(f)]
             c == [side |-> "pdu", msg |-> m]
  <1>1. /\ m \in DOMAIN Messages /\ o.class = [side |-> "ros", msg |-> m]
        /\ DOMAIN o.fields = DOMAIN Messages[m]
        /\ \A f \in DOMAIN Messages[m] : Messages[m][f] \in Types /\ o.fields[f] \in ValuesOf(Messages[m][f])
    BY MessageObject
  <1>2. PduObject(o) = [class |-> c, fields |-> pduFields]
    <2>1. [o.class EXCEPT !.side = "pdu"] = c
      BY <1>1
    <2> HIDE DEF c
    <2> QED
      BY <1>1, <2>1 DEF PduObject
  <1>3. PduTree(v)[p] = [class |-> c, fields |-> pduFields]
    BY <1>2 DEF PduTree
  <1>4. RawTree(v)[p] = [class |-> c, fields |-> rawFields]
    <2> DEFINE w == PduTree(v)[p]
    <2>1. w.class = c /\ w.class.msg = m /\ w.fields = pduFields
      BY <1>3
    <2>2. RawTree(v)[p] = AsRaw(w)
      BY DEF RawTree
    <2> HIDE DEF w
    <2>3. AsRaw(w) = [class |-> c, fields |-> [f \in DOMAIN Messages[m] |-> RawValue(Messages[m][f], pduFields[f])]]
      BY <2>1 DEF AsRaw, RawValue
    <2>4. [f \in DOMAIN Messages[m] |-> RawValue(Messages[m][f], pduFields[f])] = rawFields
      OBVIOUS
    <2> HIDE DEF rawFields, pduFields
    <2> QED
      BY <2>2, <2>3, <2>4
  <1>5. \E g \in {pduFields, rawFields} : src[p] = [class |-> c, fields |-> g]
    BY <1>3, <1>4 DEF PduForms
  <1> QED
    BY <1>5

\* field by field,
LEMMA PduFields ==
    ASSUME NEW v, IsMessage(v), NEW src \in PduForms(v), NEW p \in DOMAIN v
    PROVE  LET m == v[p].class.msg
               pdu(f) == PduValue(Messages[m][f], v[p].fields[f])
           IN  \A f \in DOMAIN Messages[m] :
                   \/ src[p].fields[f] = pdu(f)
                   \/ src[p].fields[f] = RawValue(Messages[m][f], pdu(f))
  <1> DEFINE m == v[p].class.msg
             pdu(f) == PduValue(Messages[m][f], v[p].fields[f])
             raw(f) == RawValue(Messages[m][f], pdu(f))
  <1>1. PICK g \in {[f \in DOMAIN Messages[m] |-> pdu(f)], [f \in DOMAIN Messages[m] |-> raw(f)]} :
               src[p] = [class |-> [side |-> "pdu", msg |-> m], fields |-> g]
    BY PduShape
  <1>2. src[p].fields = g
    BY <1>1
  <1> HIDE DEF pdu, raw, m
  <1>3. \A f \in DOMAIN Messages[m] : g[f] = pdu(f) \/ g[f] = raw(f)
    BY <1>1
  <1>4. \A f \in DOMAIN Messages[m] : src[p].fields[f] = pdu(f) \/ src[p].fields[f] = raw(f)
    BY <1>2, <1>3
  <1> QED
    BY <1>4 DEF pdu, raw, m

\* and the objects of the message.
LEMMA PduOfMessage ==
    ASSUME NEW v, IsMessage(v), NEW src \in PduForms(v), NEW p \in DOMAIN v
    PROVE  LET m == v[p].class.msg
           IN  /\ src[p].class = [side |-> "pdu", msg |-> m] /\ src[p].class \in Classes
               /\ src[p] = [class |-> src[p].class, fields |-> src[p].fields]
               /\ DOMAIN src[p].fields = DOMAIN Messages[m]
               /\ Places(src[p].fields) = Places(v[p].fields)
               /\ \A f \in DOMAIN Messages[m] :
                    /\ Items(src[p].fields[f]) = Items(v[p].fields[f])
                    /\ src[p].fields[f] \in SourceValues
  <1> DEFINE o == v[p]
             m == o.class.msg
             pdu(f) == PduValue(Messages[m][f], o.fields[f])
             raw(f) == RawValue(Messages[m][f], pdu(f))
             pduFields == [f \in DOMAIN Messages[m] |-> pdu(f)]
             rawFields == [f \in DOMAIN Messages[m] |-> raw(f)]
             c == [side |-> "pdu", msg |-> m]
  <1>1. /\ m \in DOMAIN Messages /\ o.class = [side |-> "ros", msg |-> m]
        /\ DOMAIN o.fields = DOMAIN Messages[m]
        /\ \A f \in DOMAIN Messages[m] : Messages[m][f] \in Types /\ o.fields[f] \in ValuesOf(Messages[m][f])
    BY MessageObject
  <1>5. ASSUME NEW f \in DOMAIN Messages[m]
        PROVE  /\ pdu(f) \in SourceValues /\ Items(pdu(f)) = Items(o.fields[f])
               /\ raw(f) \in SourceValues /\ Items(raw(f)) = Items(o.fields[f])
    BY <1>1, PduSource
  <1>6. PICK g \in {pduFields, rawFields} : src[p] = [class |-> c, fields |-> g]
    BY PduShape
  <1>7. DOMAIN g = DOMAIN Messages[m] /\ \A f \in DOMAIN Messages[m] : g[f] = pdu(f) \/ g[f] = raw(f)
    BY <1>6
  <1>8. src[p].class = c /\ src[p].fields = g
    BY <1>6
  <1>9. c \in Classes
    BY <1>1 DEF Classes
  <1>10. \A f \in DOMAIN Messages[m] : Items(g[f]) = Items(o.fields[f]) /\ g[f] \in SourceValues
    BY <1>5, <1>7
  <1>11. Places(g) = Places(o.fields)
    <2>1. \A s : s \in Places(g) <=> s \in Places(o.fields)
      BY <1>1, <1>7, <1>10, PlaceIn
    <2> QED
      BY <2>1
  <1>12. src[p] = [class |-> src[p].class, fields |-> src[p].fields]
    BY <1>6, <1>8
  <1> HIDE DEF c, pduFields, rawFields
  <1> QED
    BY <1>7, <1>8, <1>9, <1>10, <1>11, <1>12 DEF c

\* It has no unknown sequence that the message has not.
LEMMA PduKnown ==
    ASSUME NEW v, IsMessage(v), NEW src \in PduForms(v), NEW p \in DOMAIN v, Known(v[p])
    PROVE  Known(src[p])
  <1> DEFINE m == v[p].class.msg
             x(f) == v[p].fields[f]
             y(f) == PduValue(Messages[m][f], x(f))
             z(f) == RawValue(Messages[m][f], y(f))
  <1>1. /\ DOMAIN v[p].fields = DOMAIN Messages[m]
        /\ \A f \in DOMAIN Messages[m] : Messages[m][f] \in Types /\ x(f) \in ValuesOf(Messages[m][f])
    BY MessageObject
  <1>2. /\ DOMAIN src[p].fields = DOMAIN Messages[m]
        /\ \A f \in DOMAIN Messages[m] : src[p].fields[f] = y(f) \/ src[p].fields[f] = z(f)
    <2>1. DOMAIN src[p].fields = DOMAIN Messages[m]
      BY PduOfMessage
    <2>2. \A f \in DOMAIN Messages[m] : src[p].fields[f] = y(f) \/ src[p].fields[f] = z(f)
      BY PduFields
    <2> QED
      BY <2>1, <2>2
  <1>3. ASSUME NEW f \in DOMAIN Messages[m] PROVE y(f) # Opaque /\ z(f) # Opaque
    <2>1. x(f) # Opaque
      BY <1>1 DEF Known
    <2> QED
      BY <1>1, <2>1, PduSource
  <1> HIDE DEF x, y, z
  <1> QED
    BY <1>2, <1>3 DEF Known

\* It can be copied further.
LEMMA PduIsSource ==
    ASSUME NEW v, IsMessage(v), NEW src \in PduForms(v)
    PROVE  IsSource(src)
  <1>1. IsTree(v)
    BY DEF IsMessage
  <1>2. IsTree(src)
    <2>1. DOMAIN src = DOMAIN v /\ \A p \in DOMAIN v : Places(src[p].fields) = Places(v[p].fields)
      BY PduDomain, PduOfMessage
    <2> QED
      BY <1>1, <2>1 DEF IsTree
  <1> QED
    <2> SUFFICES ASSUME NEW p \in DOMAIN v
                 PROVE  /\ src[p].class \in Classes
                        /\ \A f \in DOMAIN src[p].fields : src[p].fields[f] \in SourceValues
      BY <1>2, PduDomain DEF IsSource
    <2> QED
      BY PduOfMessage

\* What is copied onto a new object when each of its fields is.
LEMMA CopiedWhole ==
    ASSUME NEW src, NEW side \in {"ros", "pdu"}, NEW m \in DOMAIN Messages, NEW g,
           DOMAIN src.fields = DOMAIN Messages[m], DOMAIN g = DOMAIN Messages[m],
           g = [f \in DOMAIN g |-> g[f]],
           \A f \in DOMAIN Messages[m] : CopyField(src, New([side |-> side, msg |-> m]), f) = g[f]
    PROVE  LET dst == New([side |-> side, msg |-> m])
           IN  Copied(src, dst) = g /\ Shared(src, dst) = DOMAIN Messages[m]
  <1> DEFINE dst == New([side |-> side, msg |-> m])
  <1>1. DOMAIN dst.fields = DOMAIN Messages[m]
    BY DEF New
  <1>2. \A f \in DOMAIN Messages[m] : CopyField(src, dst, f) = g[f]
    OBVIOUS
  <1> HIDE DEF dst
  <1>3. Shared(src, dst) = DOMAIN Messages[m]
    BY <1>1 DEF Shared
  <1>4. Copied(src, dst) = [f \in DOMAIN Messages[m] |-> CopyField(src, dst, f)]
    BY <1>1, <1>3 DEF Copied
  <1>5. Copied(src, dst) = g
    BY <1>2, <1>4
  <1> QED
    BY <1>3, <1>5 DEF dst

\* The class of what is nested in it: a message is declared there, and not bounded
\* where the destination is a ROS message.
LEMMA NestedClass ==
    ASSUME NEW side \in {"ros", "pdu"}, NEW m \in DOMAIN Messages, NEW f \in DOMAIN Messages[m],
           NEW i, i = 0 \/ (Messages[m][f].shape = "seq" /\ Messages[m][f].elem \notin Primitive),
           side = "ros" => ~Messages[m][f].bounded, NEW item
    PROVE  ClassAt(New([side |-> side, msg |-> m]), <<f, i>>, item) =
               [side |-> side, msg |-> Messages[m][f].elem]
  <1> DEFINE dst  == New([side |-> side, msg |-> m])
             d == [side |-> side, msg |-> Messages[m][f].elem]
  <1>1. dst.class = [side |-> side, msg |-> m]
    BY DEF New
  <1> HIDE DEF dst
  <1>2. [dst.class EXCEPT !.msg = Messages[m][f].elem] = d /\ dst.class.side = side /\ dst.class.msg = m
    BY <1>1
  <1>3. CASE i = 0
    BY <1>2, <1>3 DEF ClassAt, dst
  <1>4. CASE i # 0
    <2>1. ItemType(dst, f) = d
      BY <1>2, <1>4 DEF ItemType
    <2>2. d # NoClass
      BY DEF NoClass
    <2> HIDE DEF d
    <2> QED
      BY <1>4, <2>1, <2>2 DEF ClassAt, d, dst
  <1> QED
    BY <1>3, <1>4

\* a message each of whose values is in its one form
Plain(v) ==
    \A p \in DOMAIN v : \A f \in DOMAIN v[p].fields :
        v[p].fields[f] \in PlainValues(Messages[v[p].class.msg][f])

\* The values of messages are no copies that raised.
LEMMA NotRaise == \A x \in SourceValues : x # Raise
  BY DEF SourceValues, Scalars, SomeInt, SomeBool, SomeBytes, SomeList, Object, None, Opaque, Raise

\* A message is faithfully copied to its PDU,
LEMMA ToPduFaithful ==
    ASSUME NEW v, IsMessage(v)
    PROVE  Faithful(v, PduTree(v))
  <1> DEFINE image == PduTree(v)
  <1>a. image \in PduForms(v)
    BY DEF PduForms
  <1>0. IsTree(v)
    BY DEF IsMessage
  <1>1. IsTree(v) /\ DOMAIN image = DOMAIN v /\ image = [p \in DOMAIN image |-> image[p]]
    <2> HIDE DEF image
    <2> QED
      BY <1>0, <1>a, PduDomain
  <1>2. ASSUME NEW p \in DOMAIN v
        PROVE  LET dst == New(image[p].class)
               IN  /\ image[p].class \in Classes
                   /\ Known(v[p]) =>
                       /\ \A f \in Shared(v[p], dst) : Copied(v[p], dst)[f] # Raise
                       /\ [class |-> dst.class, fields |-> Copied(v[p], dst)] = image[p]
                       /\ Places(image[p].fields) = Places(v[p].fields)
                       /\ \A s \in Places(v[p].fields) :
                              ClassAt(dst, s, v[Append(p, s)]) = image[Append(p, s)].class
                   /\ ~Known(v[p]) => \E f \in Shared(v[p], dst) : Copied(v[p], dst)[f] = Raise
    <2> DEFINE o == v[p]
               m == o.class.msg
               dst == New([side |-> "pdu", msg |-> m])
               g == image[p].fields
    <2>1. /\ m \in DOMAIN Messages /\ o.class = [side |-> "ros", msg |-> m]
          /\ DOMAIN o.fields = DOMAIN Messages[m]
          /\ \A f \in DOMAIN Messages[m] :
               /\ Messages[m][f] \in Types
               /\ o.fields[f] \in ValuesOf(Messages[m][f])
               /\ \A i \in Items(o.fields[f]) :
                    /\ Append(p, <<f, i>>) \in DOMAIN v
                    /\ v[Append(p, <<f, i>>)].class = [side |-> "ros", msg |-> Messages[m][f].elem]
                    /\ Messages[m][f].elem \in DOMAIN Messages
      BY MessageObject
    <2>2. /\ image[p].class = [side |-> "pdu", msg |-> m] /\ image[p].class \in Classes
          /\ image[p] = [class |-> image[p].class, fields |-> g]
          /\ DOMAIN g = DOMAIN Messages[m] /\ Places(g) = Places(o.fields)
          /\ \A f \in DOMAIN Messages[m] : g[f] \in SourceValues
      BY <1>a, PduOfMessage
    <2>3. g = [f \in DOMAIN o.fields |-> PduValue(Messages[m][f], o.fields[f])]
      BY DEF PduTree, PduObject
    <2>7. dst.class = [side |-> "pdu", msg |-> m] /\ DOMAIN dst.fields = DOMAIN Messages[m]
      BY DEF New
    <2>a. ASSUME ~Known(o) PROVE \E f \in Shared(o, dst) : Copied(o, dst)[f] = Raise
      <3>1. PICK f \in DOMAIN Messages[m] : o.fields[f] = Opaque
        BY <2>1, <2>a DEF Known
      <3>2. o.fields[f] \in ValuesOf(Messages[m][f])
        BY <2>1
      <3> HIDE DEF g, o, m
      <3>3. CopyField(o, dst, f) = Raise
        BY <2>1, <3>1, <3>2, ToPduRaises
      <3> HIDE DEF dst
      <3>4. f \in Shared(o, dst)
        BY <2>1, <2>7 DEF Shared
      <3>5. Copied(o, dst)[f] = Raise
        BY <2>7, <3>3, <3>4 DEF Copied
      <3> QED
        BY <3>4, <3>5
    <2>4. ASSUME Known(o) PROVE \A f \in DOMAIN Messages[m] : CopyField(o, dst, f) = g[f]
      <3> SUFFICES ASSUME NEW f \in DOMAIN Messages[m] PROVE CopyField(o, dst, f) = g[f]
        OBVIOUS
      <3>1. g[f] = PduValue(Messages[m][f], o.fields[f])
        BY <2>1, <2>3
      <3>2. o.fields[f] \in ValuesOf(Messages[m][f])
            /\ o.fields[f] # Opaque /\ (Items(o.fields[f]) # {} => Messages[m][f].elem \in DOMAIN Messages)
        BY <2>1, <2>4 DEF Known
      <3> HIDE DEF g, o, m
      <3>3. CopyField(o, dst, f) = PduValue(Messages[m][f], o.fields[f])
        BY <2>1, <3>2, ToPduField
      <3> QED
        BY <3>1, <3>3
    <2>5. g = [f \in DOMAIN g |-> g[f]]
      BY <2>3
    <2>6. ASSUME Known(o) PROVE Copied(o, dst) = g /\ Shared(o, dst) = DOMAIN Messages[m]
      <3> HIDE DEF g, o, m
      <3> QED
        BY <2>1, <2>2, <2>4, <2>5, <2>6, CopiedWhole
    <2>8. ASSUME NEW s \in Places(o.fields) PROVE ClassAt(dst, s, v[Append(p, s)]) = image[Append(p, s)].class
      <3>1. PICK f \in DOMAIN Messages[m] : \E i \in Items(o.fields[f]) : s = <<f, i>>
        BY <2>1, PlaceIn
      <3>2. PICK i \in Items(o.fields[f]) : s = <<f, i>>
        BY <3>1
      <3> DEFINE q == Append(p, s)
      <3>3. q \in DOMAIN v /\ v[q].class = [side |-> "ros", msg |-> Messages[m][f].elem]
        BY <2>1, <3>2
      <3>4. image[q].class = [side |-> "pdu", msg |-> Messages[m][f].elem]
        <4>1. image[q].class = [side |-> "pdu", msg |-> v[q].class.msg]
          BY <1>a, <3>3, PduOfMessage
        <4> QED
          BY <3>3, <4>1
      <3>5. i = 0 \/ (Messages[m][f].shape = "seq" /\ Messages[m][f].elem \notin Primitive)
        BY <2>1, TypedItems
      <3> HIDE DEF m, image, q, o
      <3>6. ClassAt(dst, <<f, i>>, v[q]) = [side |-> "pdu", msg |-> Messages[m][f].elem]
        BY <2>1, <3>5, NestedClass
      <3> QED
        BY <3>2, <3>4, <3>6 DEF q
    <2> HIDE DEF g, o, m, image, dst
    <2>9. image[p].class = dst.class /\ New(image[p].class) = dst
      BY <2>2, <2>7 DEF dst
    <2> QED
      BY <2>2, <2>6, <2>8, <2>9, <2>a, NotRaise DEF o, g
  <1> QED
    BY <1>1, <1>2 DEF Faithful

\* and a plain one back, from the PDU and from its raw bytes, unless a type in it is
\* bounded.
LEMMA ToRosFaithful ==
    ASSUME NEW v, IsMessage(v), Unbounded(v), Plain(v), NEW src \in PduForms(v)
    PROVE  Faithful(src, v)
  <1>1. IsTree(src) /\ DOMAIN src = DOMAIN v
    BY PduIsSource, PduDomain DEF IsSource
  <1>2. v = [p \in DOMAIN v |-> v[p]]
    <2>1. IsMessage(v)
      OBVIOUS
    <2> DEFINE w == [q \in DOMAIN v |-> [class |-> v[q].class,
                        fields |-> [f \in DOMAIN Messages[v[q].class.msg] |-> v[q].fields[f]]]]
    <2>2. v = w
      BY <2>1, Zenon DEF IsMessage
    <2>3. w = [p \in DOMAIN w |-> w[p]]
      OBVIOUS
    <2> HIDE DEF w
    <2> QED
      BY <2>2, <2>3
  <1>3. ASSUME NEW p \in DOMAIN src
        PROVE  LET dst == New(v[p].class)
               IN  /\ v[p].class \in Classes
                   /\ Known(src[p])
                   /\ \A f \in Shared(src[p], dst) : Copied(src[p], dst)[f] # Raise
                   /\ [class |-> dst.class, fields |-> Copied(src[p], dst)] = v[p]
                   /\ Places(v[p].fields) = Places(src[p].fields)
                   /\ \A s \in Places(src[p].fields) :
                          ClassAt(dst, s, src[Append(p, s)]) = v[Append(p, s)].class
    <2> DEFINE o == v[p]
               m == o.class.msg
               dst == New([side |-> "ros", msg |-> m])
               g == o.fields
    <2>a. p \in DOMAIN v
      BY <1>1
    <2>1. /\ m \in DOMAIN Messages /\ o.class = [side |-> "ros", msg |-> m] /\ o.class \in Classes
          /\ o = [class |-> o.class, fields |-> [f \in DOMAIN Messages[m] |-> o.fields[f]]]
          /\ DOMAIN o.fields = DOMAIN Messages[m]
          /\ \A f \in DOMAIN Messages[m] :
               /\ Messages[m][f] \in Types
               /\ o.fields[f] \in PlainValues(Messages[m][f])
               /\ \A i \in Items(o.fields[f]) :
                    /\ Append(p, <<f, i>>) \in DOMAIN v
                    /\ v[Append(p, <<f, i>>)].class = [side |-> "ros", msg |-> Messages[m][f].elem]
                    /\ Messages[m][f].elem \in DOMAIN Messages
      BY <2>a, MessageObject DEF Plain
    <2>2. /\ src[p].class = [side |-> "pdu", msg |-> m]
          /\ DOMAIN src[p].fields = DOMAIN Messages[m] /\ Places(src[p].fields) = Places(o.fields)
          /\ \A f \in DOMAIN Messages[m] :
               \/ src[p].fields[f] = PduValue(Messages[m][f], o.fields[f])
               \/ src[p].fields[f] = RawValue(Messages[m][f], PduValue(Messages[m][f], o.fields[f]))
      <3>1. /\ src[p].class = [side |-> "pdu", msg |-> m]
            /\ DOMAIN src[p].fields = DOMAIN Messages[m] /\ Places(src[p].fields) = Places(v[p].fields)
        <4>1. /\ src[p].class = [side |-> "pdu", msg |-> v[p].class.msg]
              /\ DOMAIN src[p].fields = DOMAIN Messages[v[p].class.msg]
              /\ Places(src[p].fields) = Places(v[p].fields)
          BY <2>a, PduOfMessage
        <4> QED
          BY <4>1
      <3>2. ASSUME NEW f \in DOMAIN Messages[m]
            PROVE  \/ src[p].fields[f] = PduValue(Messages[m][f], o.fields[f])
                   \/ src[p].fields[f] = RawValue(Messages[m][f], PduValue(Messages[m][f], o.fields[f]))
        BY <2>a, PduFields
      <3> QED
        BY <3>1, <3>2
    <2>3. \A f \in DOMAIN Messages[m] : ~Messages[m][f].bounded
      BY <2>a DEF Unbounded
    <2>4. ASSUME NEW f \in DOMAIN Messages[m] PROVE CopyField(src[p], dst, f) = g[f]
      <3> DEFINE x == src[p]
      <3>1. /\ g[f] \in PlainValues(Messages[m][f]) /\ ~Messages[m][f].bounded
            /\ Items(g[f]) # {} => Messages[m][f].elem \in DOMAIN Messages
        BY <2>1, <2>3
      <3>2. /\ x.class = [side |-> "pdu", msg |-> m]
            /\ \/ x.fields[f] = PduValue(Messages[m][f], g[f])
               \/ x.fields[f] = RawValue(Messages[m][f], PduValue(Messages[m][f], g[f]))
        BY <2>2
      <3>3. m \in DOMAIN Messages
        BY <2>1
      <3> HIDE DEF g, o, m, x
      <3>4. CopyField(x, dst, f) = g[f]
        BY <3>1, <3>2, <3>3, ToRosField
      <3> QED
        BY <3>4 DEF x
    <2>5. g = [f \in DOMAIN g |-> g[f]]
      <3> DEFINE h == [f \in DOMAIN Messages[m] |-> o.fields[f]]
                 r == [class |-> o.class, fields |-> h]
      <3>1. r.fields = h /\ DOMAIN h = DOMAIN Messages[m] /\ h = [f \in DOMAIN h |-> h[f]]
        OBVIOUS
      <3>2. o = r
        BY <2>1, Zenon
      <3> HIDE DEF r, h
      <3>3. g = h
        BY <3>1, <3>2
      <3> QED
        BY <3>1, <3>3
    <2>6. Copied(src[p], dst) = g /\ Shared(src[p], dst) = DOMAIN Messages[m]
      <3> DEFINE x == src[p]
      <3>1. DOMAIN x.fields = DOMAIN Messages[m] /\ \A f \in DOMAIN Messages[m] : CopyField(x, dst, f) = g[f]
        BY <2>2, <2>4
      <3>2. m \in DOMAIN Messages /\ DOMAIN g = DOMAIN Messages[m]
        BY <2>1
      <3> HIDE DEF g, o, m, x
      <3>3. Copied(x, dst) = g /\ Shared(x, dst) = DOMAIN Messages[m]
        BY <2>5, <3>1, <3>2, CopiedWhole
      <3> QED
        BY <3>3 DEF x
    <2>7. dst.class = [side |-> "ros", msg |-> m]
      BY DEF New
    <2>8. ASSUME NEW s \in Places(src[p].fields) PROVE ClassAt(dst, s, src[Append(p, s)]) = v[Append(p, s)].class
      <3>1. PICK f \in DOMAIN Messages[m] : \E i \in Items(o.fields[f]) : s = <<f, i>>
        BY <2>1, <2>2, PlaceIn
      <3>2. PICK i \in Items(o.fields[f]) : s = <<f, i>>
        BY <3>1
      <3> DEFINE q == Append(p, s)
      <3>3. v[q].class = [side |-> "ros", msg |-> Messages[m][f].elem]
        BY <2>1, <3>2
      <3>4. i = 0 \/ (Messages[m][f].shape = "seq" /\ Messages[m][f].elem \notin Primitive)
        BY <2>1, PlainItems
      <3>5. m \in DOMAIN Messages /\ ~Messages[m][f].bounded
        BY <2>1, <2>3
      <3> HIDE DEF m, q, o
      <3>6. ClassAt(dst, <<f, i>>, src[q]) = [side |-> "ros", msg |-> Messages[m][f].elem]
        BY <3>4, <3>5, NestedClass
      <3> QED
        BY <3>2, <3>3, <3>6 DEF q
    <2>b. Known(src[p])
      <3>1. ASSUME NEW f \in DOMAIN v[p].fields PROVE v[p].fields[f] # Opaque
        BY <2>1, ValueForms DEF ValuesOf
      <3> QED
        BY <2>a, <3>1, PduKnown DEF Known
    <2>9. \A f \in DOMAIN Messages[m] : g[f] # Raise
      BY <2>1, TypedValue, NotRaise
    <2>10. o = [class |-> o.class, fields |-> g]
      BY <2>1, <2>5
    <2> HIDE DEF g, m, dst
    <2>11. o.class = dst.class /\ New(o.class) = dst
      BY <2>1, <2>7 DEF dst
    <2> HIDE DEF o
    <2> QED
      BY <2>1, <2>2, <2>6, <2>8, <2>9, <2>10, <2>11, <2>b DEF o
  <1> QED
    BY <1>1, <1>2, <1>3 DEF Faithful

\* With its byte[] as bytes a readable message is plain, and has the same PDU.
LEMMA BytesMessage ==
    ASSUME NEW v, IsMessage(v), Readable(v), Unbounded(v)
    PROVE  LET w == WithBytes(v)
           IN  /\ IsMessage(w) /\ Plain(w) /\ Unbounded(w) /\ PduForms(w) = PduForms(v)
               /\ DOMAIN w = DOMAIN v /\ \A p \in DOMAIN v : w[p].class = v[p].class
  <1> DEFINE w == WithBytes(v)
             val(p, f) == IF IsOctets(v[p], f) THEN AsBytes(v[p].fields[f]) ELSE v[p].fields[f]
  <1>1. ASSUME NEW p \in DOMAIN v
        PROVE  LET m == v[p].class.msg
               IN  /\ m \in DOMAIN Messages /\ v[p].class = [side |-> "ros", msg |-> m]
                   /\ DOMAIN v[p].fields = DOMAIN Messages[m]
                   /\ w[p] = [class |-> v[p].class, fields |-> [f \in DOMAIN Messages[m] |-> val(p, f)]]
                   /\ w[p].class = v[p].class
                   /\ w[p].fields = [f \in DOMAIN Messages[m] |-> val(p, f)]
    <2>1. /\ v[p].class.msg \in DOMAIN Messages /\ v[p].class = [side |-> "ros", msg |-> v[p].class.msg]
          /\ DOMAIN v[p].fields = DOMAIN Messages[v[p].class.msg]
      BY MessageObject
    <2>2. w[p] = [class |-> v[p].class, fields |-> [f \in DOMAIN Messages[v[p].class.msg] |-> val(p, f)]]
      BY <2>1 DEF WithBytes
    <2> HIDE DEF w, val
    <2>3. w[p].class = v[p].class /\ w[p].fields = [f \in DOMAIN Messages[v[p].class.msg] |-> val(p, f)]
      BY <2>2
    <2> QED
      BY <2>1, <2>2, <2>3
  <1>2. DOMAIN w = DOMAIN v /\ w = [p \in DOMAIN v |-> w[p]]
    BY DEF WithBytes
  <1>3. ASSUME NEW p \in DOMAIN v, NEW f \in DOMAIN Messages[v[p].class.msg]
        PROVE  LET type == Messages[v[p].class.msg][f]
               IN  /\ type \in Types /\ ~type.bounded
                   /\ val(p, f) \in PlainValues(type) /\ Items(val(p, f)) = Items(v[p].fields[f])
                   /\ PduValue(type, val(p, f)) = PduValue(type, v[p].fields[f])
    <2> DEFINE type == Messages[v[p].class.msg][f]
               x == v[p].fields[f]
    <2>1. /\ type \in Types /\ x \in ValuesOf(type) /\ v[p].class.side = "ros"
          /\ f \in DOMAIN v[p].fields
      <3>1. v[p].class = [side |-> "ros", msg |-> v[p].class.msg]
        BY MessageObject
      <3>2. v[p].class.side = "ros"
        BY <3>1
      <3> QED
        BY <3>2, MessageObject
    <2>2. ~type.bounded /\ x # Opaque
      BY <2>1 DEF Unbounded, Readable, Known
    <2>3. IsOctets(v[p], f) <=> type = ByteArray
      BY <2>1 DEF IsOctets, Declares, FieldType, ByteArray
    <2> HIDE DEF type, x
    <2>4. CASE type = ByteArray
      <3>1. val(p, f) = AsBytes(x)
        BY <2>3, <2>4 DEF x
      <3>2. /\ AsBytes(x) \in SomeBytes /\ AsBytes(x) \in PlainValues(type)
            /\ x \in Scalars \cup SomeList(Scalars)
        BY <2>1, <2>4, ValueForms
      <3>3. AsBytes(AsBytes(x)) = AsBytes(x)
        <4> DEFINE y == AsBytes(x)
        <4>1. y.k = "bytes"
          BY <3>2 DEF SomeBytes
        <4> HIDE DEF y
        <4>2. AsBytes(y) = y
          BY <4>1 DEF AsBytes
        <4> QED
          BY <4>2 DEF y
      <3>4. Items(x) = {} /\ Items(AsBytes(x)) = {}
        <4>1. AsBytes(x) \in Scalars
          BY <3>2 DEF Scalars
        <4> QED
          BY <3>2, <4>1, NoItems
      <3> HIDE DEF val
      <3> QED
        BY <2>1, <2>2, <2>4, <3>1, <3>2, <3>3, <3>4 DEF PduValue, type, x
    <2>5. CASE type # ByteArray
      <3>1. val(p, f) = x
        BY <2>3, <2>5 DEF x
      <3>2. x \in PlainValues(type)
        BY <2>1, <2>2, <2>5, ValueForms
      <3> HIDE DEF val
      <3> QED
        BY <2>1, <2>2, <3>1, <3>2 DEF type, x
    <2> QED
      BY <2>4, <2>5
  <1> HIDE DEF w, val
  <1>4. ASSUME NEW p \in DOMAIN v PROVE Places(w[p].fields) = Places(v[p].fields)
    <2> DEFINE g == w[p].fields
               h == v[p].fields
    <2>1. DOMAIN g = DOMAIN h /\ \A f \in DOMAIN h : Items(g[f]) = Items(h[f])
      <3>1. DOMAIN h = DOMAIN Messages[v[p].class.msg] /\ DOMAIN g = DOMAIN Messages[v[p].class.msg]
        BY <1>1
      <3>2. ASSUME NEW f \in DOMAIN h PROVE Items(g[f]) = Items(h[f])
        <4>1. f \in DOMAIN Messages[v[p].class.msg]
          BY <3>1
        <4>2. g[f] = val(p, f)
          BY <1>1, <4>1
        <4> QED
          BY <1>3, <4>1, <4>2
      <3> QED
        BY <3>1, <3>2
    <2> HIDE DEF g, h
    <2>2. \A s : s \in Places(g) <=> s \in Places(h)
      BY <2>1, PlaceIn
    <2>3. Places(g) = Places(h)
      BY <2>2
    <2> QED
      BY <2>3 DEF g, h
  <1>5. IsTree(w)
    <2>1. IsTree(v)
      BY DEF IsMessage
    <2> QED
      BY <1>2, <1>4, <2>1 DEF IsTree
  <1>6. Plain(w) /\ Unbounded(w)
    <2>1. ASSUME NEW p \in DOMAIN w
          PROVE  /\ \A f \in DOMAIN w[p].fields : w[p].fields[f] \in PlainValues(Messages[w[p].class.msg][f])
                 /\ \A f \in DOMAIN Messages[w[p].class.msg] : ~Messages[w[p].class.msg][f].bounded
      <3>1. p \in DOMAIN v /\ w[p].class = v[p].class
        BY <1>1, <1>2
      <3>2. w[p].fields = [f \in DOMAIN Messages[v[p].class.msg] |-> val(p, f)]
        BY <1>1, <3>1
      <3> QED
        BY <1>3, <3>1, <3>2
    <2> QED
      BY <2>1 DEF Plain, Unbounded
  <1>7. IsMessage(w)
    <2>1. w = [p \in DOMAIN w |-> [class |-> w[p].class,
                  fields |-> [f \in DOMAIN Messages[w[p].class.msg] |-> w[p].fields[f]]]]
      <3>1. ASSUME NEW p \in DOMAIN w
            PROVE  w[p] = [class |-> w[p].class,
                           fields |-> [f \in DOMAIN Messages[w[p].class.msg] |-> w[p].fields[f]]]
        <4>1. w[p] = [class |-> w[p].class, fields |-> w[p].fields]
          BY <1>1, <1>2
        <4>2. w[p].fields = [f \in DOMAIN Messages[w[p].class.msg] |-> w[p].fields[f]]
          BY <1>1, <1>2
        <4> QED
          BY <4>1, <4>2
      <3> QED
        BY <1>2, <3>1
    <2>2. ASSUME NEW p \in DOMAIN w, NEW f \in DOMAIN w[p].fields
          PROVE  LET type == Messages[w[p].class.msg][f]
                 IN  /\ w[p].fields[f] \in ValuesOf(type)
                     /\ \A i \in Items(w[p].fields[f]) :
                            w[Append(p, <<f, i>>)].class = [w[p].class EXCEPT !.msg = type.elem]
      <3>1. p \in DOMAIN v /\ f \in DOMAIN Messages[v[p].class.msg] /\ w[p].class = v[p].class
            /\ w[p].fields[f] = val(p, f)
        <4>1. p \in DOMAIN v /\ w[p].class = v[p].class
          BY <1>1, <1>2
        <4>2. w[p].fields = [g \in DOMAIN Messages[v[p].class.msg] |-> val(p, g)]
          BY <1>1, <4>1
        <4> QED
          BY <4>1, <4>2
      <3>2. w[p].fields[f] \in ValuesOf(Messages[w[p].class.msg][f])
        BY <1>3, <3>1 DEF ValuesOf
      <3>3. ASSUME NEW i \in Items(w[p].fields[f])
            PROVE  w[Append(p, <<f, i>>)].class =
                       [w[p].class EXCEPT !.msg = Messages[w[p].class.msg][f].elem]
        <4>1. i \in Items(v[p].fields[f])
          BY <1>3, <3>1
        <4>2. /\ Append(p, <<f, i>>) \in DOMAIN v
              /\ v[Append(p, <<f, i>>)].class =
                     [side |-> "ros", msg |-> Messages[v[p].class.msg][f].elem]
          BY <3>1, <4>1, MessageObject
        <4>3. v[p].class = [side |-> "ros", msg |-> v[p].class.msg]
          BY <1>1, <3>1
        <4>4. [v[p].class EXCEPT !.msg = Messages[v[p].class.msg][f].elem] =
                  [side |-> "ros", msg |-> Messages[v[p].class.msg][f].elem]
          BY <4>3
        <4> QED
          BY <1>1, <3>1, <4>2, <4>4
      <3> QED
        BY <3>2, <3>3
    <2>3. ASSUME NEW p \in DOMAIN w PROVE w[p].class \in [side : {"ros"}, msg : DOMAIN Messages]
      <3>1. p \in DOMAIN v /\ w[p].class = v[p].class
        BY <1>1, <1>2
      <3>2. v[p].class.msg \in DOMAIN Messages /\ v[p].class = [side |-> "ros", msg |-> v[p].class.msg]
        BY <1>1, <3>1
      <3> QED
        BY <3>1, <3>2
    <2>4. ASSUME NEW p \in DOMAIN w, p # <<>>
          PROVE  \E q \in DOMAIN w : \E s \in Places(w[q].fields) : p = Append(q, s)
      <3>1. PICK q \in DOMAIN v : \E s \in Places(v[q].fields) : p = Append(q, s)
        BY <1>2, <2>4 DEF IsMessage
      <3> QED
        BY <1>2, <1>4, <3>1
    <2> QED
      BY <1>5, <2>1, <2>2, <2>3, <2>4 DEF IsMessage
  <1>8. PduTree(w) = PduTree(v)
    <2>1. ASSUME NEW p \in DOMAIN v PROVE PduObject(w[p]) = PduObject(v[p])
      <3>1. w[p].class = v[p].class /\ DOMAIN w[p].fields = DOMAIN v[p].fields
        BY <1>1
      <3>2. \A f \in DOMAIN v[p].fields : PduValue(Messages[v[p].class.msg][f], w[p].fields[f]) =
                                           PduValue(Messages[v[p].class.msg][f], v[p].fields[f])
        BY <1>1, <1>3
      <3> QED
        BY <3>1, <3>2 DEF PduObject
    <2> QED
      BY <1>2, <2>1 DEF PduTree
  <1>9. PduForms(w) = PduForms(v)
    BY <1>2, <1>8 DEF PduForms, RawTree
  <1> QED
    BY <1>1, <1>2, <1>6, <1>7, <1>9 DEF w

\* So a readable message is faithfully copied back, with its byte[] as bytes.
LEMMA BackFaithful ==
    ASSUME NEW v, IsMessage(v), Readable(v), Unbounded(v), NEW src \in PduForms(v)
    PROVE  /\ Faithful(src, WithBytes(v))
           /\ \A p \in DOMAIN v : WithBytes(v)[p].class = v[p].class
           /\ \A p \in DOMAIN src : Known(src[p])
           /\ \A p \in DOMAIN src : p # <<>> =>
                  \E q \in DOMAIN src : \E s \in Places(src[q].fields) : p = Append(q, s)
  <1> DEFINE w == WithBytes(v)
  <1>1. /\ IsMessage(w) /\ Plain(w) /\ Unbounded(w) /\ src \in PduForms(w)
        /\ \A p \in DOMAIN v : w[p].class = v[p].class
    BY BytesMessage
  <1> HIDE DEF w
  <1>2. Faithful(src, w)
    BY <1>1, ToRosFaithful
  <1>3. DOMAIN src = DOMAIN v /\ \A q \in DOMAIN v : Places(src[q].fields) = Places(v[q].fields)
    BY PduDomain, PduOfMessage
  <1>4. ASSUME NEW p \in DOMAIN src PROVE Known(src[p])
    <2>1. p \in DOMAIN v /\ Known(v[p])
      BY <1>3 DEF Readable
    <2> QED
      BY <2>1, PduKnown
  <1>5. ASSUME NEW p \in DOMAIN src, p # <<>>
        PROVE  \E q \in DOMAIN src : \E s \in Places(src[q].fields) : p = Append(q, s)
    <2>1. PICK q \in DOMAIN v : \E s \in Places(v[q].fields) : p = Append(q, s)
      BY <1>3, <1>5 DEF IsMessage
    <2> QED
      BY <1>3, <2>1
  <1> QED
    BY <1>1, <1>2, <1>4, <1>5 DEF w

-----------------------------------------------------------------------------
(***************************************************************************)
(* The invariant, and the theorems.                                        *)
(***************************************************************************)
\* A message is faithfully copied to the PDU, as far as no sequence in it is unknown,
\* and what goes through the converters is copied back so, unless a sequence in it is
\* bounded.
MessageInv ==
    /\ stage \in {"to_pdu", "to_ros", "foreign"}
    /\ stage = "to_pdu" =>
        /\ source \in Values
        /\ IF raised THEN agenda = {} /\ ~Readable(source) ELSE Phase(source, PduTree(source))
    /\ stage = "to_ros" =>
        /\ source \in Values /\ Readable(source)
        /\ \E src \in PduForms(source) :
               Unbounded(source) => ~raised /\ Phase(src, WithBytes(source))

\* the invariant that is proved
MapperInv == ToInv /\ MessageInv

\* A new destination satisfies it.
LEMMA NewTarget ==
    ASSUME NEW c \in Classes
    PROVE  IsTarget(Root(New(c)))
  <1> DEFINE t == Root(New(c))
  <1>1. DOMAIN t = {<<>>} /\ t[<<>>] = New(c)
    BY DEF Root
  <1>2. <<>> \in Seq(STRING \X Nat)
    OBVIOUS
  <1>3. /\ IsInstance(New(c)) /\ HasBytes(New(c)) /\ Places(New(c).fields) = {}
        /\ \A f \in DOMAIN New(c).fields : Items(New(c).fields[f]) = {} /\ New(c).fields[f] # Alias
    BY NewInstance
  <1> HIDE DEF t
  <1>4. IsTree(t)
    BY <1>1, <1>2, <1>3 DEF IsTree
  <1>5. Pure(t)
    BY <1>1, <1>3 DEF Pure
  <1> QED
    BY <1>1, <1>3, <1>4, <1>5 DEF IsTarget, t

\* So the copy of any source to any target begins with the invariant.
LEMMA StartInv ==
    ASSUME IsSource(from), IsTarget(to), agenda = {<<>>}
    PROVE  ToInv
  <1>1. OctetsAreBytes
    BY DEF IsTarget, HasBytes, OctetsAreBytes
  <1>2. agenda \subseteq DOMAIN from \cap DOMAIN to
    BY DEF IsSource, IsTarget, IsTree
  <1> QED
    BY <1>1, <1>2 DEF ToInv, IsTarget

\* A message is a source.
LEMMA MessageSource ==
    ASSUME NEW v, IsMessage(v)
    PROVE  IsSource(v)
  <1>1. IsTree(v)
    BY DEF IsMessage
  <1>2. ASSUME NEW p \in DOMAIN v
        PROVE  v[p].class \in Classes /\ \A f \in DOMAIN v[p].fields : v[p].fields[f] \in SourceValues
    <2>1. /\ v[p].class \in Classes /\ DOMAIN v[p].fields = DOMAIN Messages[v[p].class.msg]
          /\ \A f \in DOMAIN v[p].fields :
                Messages[v[p].class.msg][f] \in Types /\ v[p].fields[f] \in ValuesOf(Messages[v[p].class.msg][f])
      BY MessageObject
    <2> QED
      BY <2>1, ValueForms
  <1> QED
    BY <1>1, <1>2 DEF IsSource

\* The invariant holds at first,
LEMMA MapperInit == Init => MapperInv
  <1> SUFFICES ASSUME Init PROVE MapperInv
    OBVIOUS
  <1>1. from = source /\ agenda = {<<>>} /\ raised = FALSE
    BY DEF Init
  <1>2. CASE /\ stage = "to_pdu" /\ source \in Values
             /\ to = Root(New([side |-> "pdu", msg |-> source[<<>>].class.msg]))
    <2> DEFINE c == [side |-> "pdu", msg |-> source[<<>>].class.msg]
    <2>a. IsMessage(source)
      BY <1>2, MapperAssumption
    <2>1. <<>> \in DOMAIN source
      BY <2>a DEF IsMessage, IsTree
    <2>2. PduTree(source)[<<>>].class = c /\ c \in Classes
      <3>1. ASSUME NEW v, IsMessage(v), NEW p \in DOMAIN v
            PROVE  /\ PduTree(v)[p].class = [side |-> "pdu", msg |-> v[p].class.msg]
                   /\ PduTree(v)[p].class \in Classes
        <4>1. PduTree(v) \in PduForms(v)
          BY DEF PduForms
        <4> QED
          BY <3>1, <4>1, PduOfMessage
      <3> QED
        BY <2>a, <2>1, <3>1
    <2>3. ToInv
      BY <1>1, <1>2, <2>a, <2>2, MessageSource, NewTarget, StartInv
    <2>4. Phase(source, PduTree(source))
      BY <1>1, <1>2, <2>a, <2>2, ToPduFaithful, PhaseStart
    <2> QED
      BY <1>1, <1>2, <2>3, <2>4 DEF MapperInv, MessageInv
  <1>3. CASE stage = "foreign" /\ source \in Foreign /\ to \in Targets
    <2>1. IsSource(from) /\ IsTarget(to)
      BY <1>1, <1>3, MapperAssumption
    <2>2. ToInv
      BY <1>1, <2>1, StartInv
    <2> QED
      BY <1>3, <2>2 DEF MapperInv, MessageInv
  <1> QED
    BY <1>2, <1>3 DEF Init, ToPdu, CopyForeign

\* and every step preserves it.
LEMMA MapperNext == MapperInv /\ [Next]_vars => MapperInv'
  <1> SUFFICES ASSUME MapperInv, [Next]_vars PROVE MapperInv'
    OBVIOUS
  <1>1. ASSUME NEW p \in agenda, CopyObject(p) PROVE MapperInv'
    <2>1. ToInv'
      BY <1>1, CopyStep DEF MapperInv
    <2>2. stage' = stage /\ source' = source
      BY <1>1 DEF CopyObject
    <2>3. CASE stage = "to_pdu"
      <3>1. source \in Values /\ ~raised /\ Phase(source, PduTree(source))
        BY <1>1, <2>3 DEF MapperInv, MessageInv
      <3>2. IsMessage(source)
        BY <3>1, MapperAssumption
      <3>3. PICK v : v = source
        OBVIOUS
      <3>4. Faithful(v, PduTree(v)) /\ Phase(v, PduTree(v))
        BY <3>1, <3>2, <3>3, ToPduFaithful
      <3>5. IF Known(v[p]) THEN Phase(v, PduTree(v))' /\ raised' = raised
            ELSE raised' /\ agenda' = {} /\ ~Readable(v)
        BY <1>1, <3>4, PhaseStep
      <3>6. v = source'
        BY <2>2, <3>3
      <3>7. CASE Known(v[p])
        BY <2>1, <2>2, <2>3, <3>1, <3>5, <3>6, <3>7 DEF MapperInv, MessageInv
      <3>8. CASE ~Known(v[p])
        BY <2>1, <2>2, <2>3, <3>1, <3>3, <3>5, <3>6, <3>8 DEF MapperInv, MessageInv
      <3> QED
        BY <3>7, <3>8
    <2>4. CASE stage = "to_ros"
      <3>1. source \in Values /\ Readable(source) /\ IsMessage(source)
        BY <2>4, MapperAssumption DEF MapperInv, MessageInv
      <3>2. PICK src \in PduForms(source) :
                     Unbounded(source) => ~raised /\ Phase(src, WithBytes(source))
        BY <2>4 DEF MapperInv, MessageInv
      <3>3. PICK v : v = source
        OBVIOUS
      <3>4. ASSUME Unbounded(v) PROVE ~raised' /\ Phase(src, WithBytes(v))'
        <4>1. Faithful(src, WithBytes(v)) /\ \A q \in DOMAIN src : Known(src[q])
          BY <3>1, <3>2, <3>3, <3>4, BackFaithful
        <4>2. Phase(src, WithBytes(v)) /\ ~raised
          BY <3>2, <3>3, <3>4
        <4>3. p \in DOMAIN src
          BY <4>2 DEF Phase
        <4>4. Phase(src, WithBytes(v))' /\ raised' = raised
          BY <1>1, <4>1, <4>2, <4>3, PhaseStep
        <4> QED
          BY <4>2, <4>4
      <3>5. v = source' /\ src \in PduForms(source')
        BY <2>2, <3>2, <3>3
      <3> QED
        BY <2>1, <2>2, <2>4, <3>1, <3>3, <3>4, <3>5 DEF MapperInv, MessageInv
    <2>5. CASE stage = "foreign"
      BY <2>1, <2>2, <2>5 DEF MapperInv, MessageInv
    <2> QED
      BY <2>3, <2>4, <2>5 DEF MapperInv, MessageInv
  <1>2. ASSUME Transfer PROVE MapperInv'
    <2>1. /\ stage = "to_pdu" /\ agenda = {} /\ ~raised
          /\ source \in Values /\ Phase(source, PduTree(source))
      BY <1>2 DEF Transfer, MapperInv, MessageInv
    <2>a. IsMessage(source)
      BY <2>1, MapperAssumption
    <2>2. to = PduTree(source) /\ Readable(source)
      <3>1. Faithful(source, PduTree(source))
        BY <2>a, ToPduFaithful
      <3> QED
        BY <2>a, <2>1, <3>1, PhaseEnd DEF IsMessage
    <2>3. from' \in PduForms(source)
      <3>1. [p \in DOMAIN to |-> AsRaw(to[p])] = RawTree(source)
        BY <2>2 DEF RawTree, PduTree
      <3> QED
        BY <1>2, <2>2, <3>1 DEF Transfer, PduForms
    <2>4. /\ stage' = "to_ros" /\ source' = source /\ raised' = raised /\ agenda' = {<<>>}
          /\ to' = Root(New(source[<<>>].class))
      BY <1>2 DEF Transfer
    <2>5. <<>> \in DOMAIN source
      BY <2>a DEF IsMessage, IsTree
    <2>6. source[<<>>].class \in Classes
      BY <2>a, <2>5, MessageObject
    <2>7. IsSource(from') /\ IsTarget(to')
      BY <2>a, <2>3, <2>4, <2>6, PduIsSource, NewTarget
    <2>8. ToInv'
      <3>1. OctetsAreBytes'
        BY <2>7 DEF IsTarget, HasBytes, OctetsAreBytes
      <3>2. agenda' \subseteq DOMAIN from' \cap DOMAIN to'
        BY <2>4, <2>7 DEF IsSource, IsTarget, IsTree
      <3> QED
        BY <2>4, <2>7, <3>1, <3>2 DEF ToInv, IsTarget
    <2>9. PICK v : v = source
      OBVIOUS
    <2>10. PICK src \in PduForms(v) : src = from'
      BY <2>3, <2>9
    <2>11. ASSUME Unbounded(v) PROVE Phase(src, WithBytes(v))'
      <3>1. Faithful(src, WithBytes(v)) /\ WithBytes(v)[<<>>].class = v[<<>>].class
        BY <2>a, <2>2, <2>5, <2>9, <2>11, BackFaithful
      <3>2. <<>> \in DOMAIN src
        BY <3>1 DEF Faithful, IsTree
      <3>3. /\ DOMAIN to' = {<<>>} /\ to' = [p \in DOMAIN to' |-> to'[p]]
            /\ to'[<<>>] = New(WithBytes(v)[<<>>].class)
        BY <2>4, <2>9, <3>1 DEF Root
      <3> QED
        BY <2>4, <2>10, <3>2, <3>3 DEF Phase
    <2>12. v = source' /\ src \in PduForms(source')
      BY <2>4, <2>9, <2>10
    <2> QED
      BY <2>1, <2>2, <2>4, <2>8, <2>9, <2>11, <2>12 DEF MapperInv, MessageInv
  <1>3. CASE UNCHANGED vars
    BY <1>3 DEF MapperInv, MessageInv, ToInv, OctetsAreBytes, Phase, vars
  <1> QED
    BY <1>1, <1>2, <1>3 DEF Next

\* RoundTrip: a ROS message with no bounded sequence comes back from its PDU
\* (ros_msg_to_pdu_bytes, then pdu_bytes_to_ros_msg), whatever is nested in it and in
\* whichever form the converter hands its sequences over: unchanged, but for a byte[]
\* that was a list and is bytes then (_as_octet_bytes).  It raises on its way to the PDU
\* where it holds a fixed array as a numpy.ndarray (_is_declared_sequence_field).
THEOREM MessageReturns == Spec => []RoundTrip
  <1>1. MapperInv => RoundTrip
    <2> SUFFICES ASSUME MapperInv, stage # "foreign", Unbounded(source)
                 PROVE  IF Readable(source)
                        THEN ~raised /\ (stage = "to_ros" /\ agenda = {} => to = WithBytes(source))
                        ELSE stage = "to_pdu" /\ (agenda = {} => raised)
      BY DEF RoundTrip
    <2>1. source \in Values /\ IsMessage(source)
      BY MapperAssumption DEF MapperInv, MessageInv
    <2>2. CASE stage = "to_pdu"
      <3>1. IF raised THEN agenda = {} /\ ~Readable(source) ELSE Phase(source, PduTree(source))
        BY <2>2 DEF MapperInv, MessageInv
      <3>2. ASSUME agenda = {}, ~raised PROVE Readable(source)
        <4>1. Faithful(source, PduTree(source))
          BY <2>1, ToPduFaithful
        <4> QED
          BY <2>1, <3>1, <3>2, <4>1, PhaseEnd DEF IsMessage
      <3> QED
        BY <2>2, <3>1, <3>2
    <2>3. CASE stage = "to_ros"
      <3>1. Readable(source)
        BY <2>3 DEF MapperInv, MessageInv
      <3>2. PICK src \in PduForms(source) : ~raised /\ Phase(src, WithBytes(source))
        BY <2>3 DEF MapperInv, MessageInv
      <3>3. /\ Faithful(src, WithBytes(source))
            /\ \A p \in DOMAIN src : p # <<>> =>
                   \E q \in DOMAIN src : \E s \in Places(src[q].fields) : p = Append(q, s)
        BY <2>1, <3>1, BackFaithful
      <3>4. ASSUME agenda = {} PROVE to = WithBytes(source)
        BY <3>2, <3>3, <3>4, PhaseEnd
      <3> QED
        BY <2>3, <3>1, <3>2, <3>4
    <2> QED
      BY <2>2, <2>3 DEF MapperInv, MessageInv
  <1> QED
    BY <1>1, MapperInit, MapperNext, PTL DEF Spec

\* NoForeignObject: no copy, complete or not, leaves an object of another side's class
\* where the destination declares a message (_list_item_type).
THEOREM CopiesPure == Spec => []NoForeignObject
  <1>1. MapperInv => NoForeignObject
    BY DEF MapperInv, ToInv, NoForeignObject
  <1> QED
    BY <1>1, MapperInit, MapperNext, PTL DEF Spec

\* OctetsAreBytes: a byte[] field of a ROS message holds bytes after any copy, unless its
\* source cannot be read as bytes (_as_octet_bytes).
THEOREM CopiesBytes == Spec => []OctetsAreBytes
  <1>1. MapperInv => OctetsAreBytes
    BY DEF MapperInv, ToInv
  <1> QED
    BY <1>1, MapperInit, MapperNext, PTL DEF Spec
=============================================================================
