------------------------- MODULE ElementAccessProofs -------------------------
(* Proofs about ElementAccess: every inline element, length, push, pop and   *)
(* literal arm does what the engine would have done, and every edge from a   *)
(* tenured object into the nursery is in the store buffer.                   *)
EXTENDS ElementAccess, TLAPS

Flags == {"frozen", "sealed", "notExtensible", "lengthReadonly", "nonPacked", "overridden",
          "lengthOverridden", "linear", "latin1"}
Item == [k : {"int32", "double", "nan", "young", "old", "magic"}, h : Int]
ThingType == [cls : Classes, els : Seq(Item), cap : Nat, len : Nat, flags : SUBSET Flags, own : SUBSET Int,
              ext : BOOLEAN, tenured : BOOLEAN, lit : BOOLEAN]

-----------------------------------------------------------------------------
(* Conversions of a stored value.                                           *)

\* What may be stored in an element: a number in its box, an object, a hole.
Storable(v) == v \in {Young, Old, Hole} \/ IsStored(v)

\* Such a value is an element.
LEMMA StorableItem ==
    ASSUME NEW v, Storable(v)
    PROVE  v \in Item
BY DEF Storable, IsStored, IsNum, Item, Young, Old, Hole, Value

\* Powers of two that the word and element sizes give.
LEMMA Powers ==
    /\ W \in Nat /\ B \in Nat /\ 2^(W - 1) \in Nat /\ 2^W \in Nat /\ 2^B \in Nat
    /\ 2^(W - 1) > 0 /\ 2^W > 0 /\ 2^B > 0 /\ 2^(B - 1) \in Int
    /\ IntMin \in Int /\ IntMax \in Int /\ IntMin <= 0 /\ IntMax >= 1 /\ IntMax + 1 \in Nat
BY WidthsAssumption DEF IntMin, IntMax

\* A wrapped integer is an integer.
LEMMA WrapInt ==
    ASSUME NEW n \in Int, NEW b \in {B, W}, NEW signed \in BOOLEAN
    PROVE  Wrap(n, b, signed) \in Int
<1>1. 2^b \in Nat /\ 2^b > 0 /\ 2^(b - 1) \in Int
  BY Powers
<1>. DEFINE m == n % 2^b
<1>2. m \in Int
  BY <1>1
<1>. HIDE DEF m
<1>3. Wrap(n, b, signed) = IF signed /\ m >= 2^(b - 1) THEN m - 2^b ELSE m
  BY DEF Wrap, m
<1>. QED BY <1>1, <1>2, <1>3

\* Both roundings of a count of halves give integers.
LEMMA TowardsInt ==
    ASSUME NEW h \in Int
    PROVE  Towards0(h) \in Int /\ HalfEven(h) \in Int
BY DEF Towards0, HalfEven

\* A whole number is not rounded.
LEMMA Halves ==
    ASSUME NEW n \in Int
    PROVE  /\ (2 * n) % 2 = 0 /\ (2 * n) \div 2 = n
           /\ Towards0(2 * n) = n /\ HalfEven(2 * n) = n
BY DEF Towards0, HalfEven

\* Rounding and clamping commute.
LEMMA ClampHalf ==
    ASSUME NEW h \in Int, NEW M \in Nat
    PROVE  HalfEven(Clamp(h, 0, 2 * M)) = Clamp(HalfEven(h), 0, M)
BY DEF HalfEven, Clamp

\* A boxed number is an element, and no nursery pointer.
LEMMA NumberItem ==
    ASSUME NEW h \in Int
    PROVE  NumberV(h) \in Item /\ NumberV(h).k # "young" /\ I32(h) \in Item /\ I32(h).k = "int32"
BY DEF NumberV, Value, Dbl, I32, Item

\* A typed-array element is a number.
LEMMA ConvertItem ==
    ASSUME NEW kind \in TaKinds, NEW v \in Item
    PROVE  EngineConvert(kind, v) \in Item /\ EngineConvert(kind, v).k # "young"
<1>. DEFINE h == IF v.k \in {"int32", "double"} THEN v.h ELSE 0
<1>1. h \in Int
  BY DEF Item
<1>. HIDE DEF h
<1>2. Towards0(h) \in Int /\ HalfEven(h) \in Int
  BY <1>1, TowardsInt
<1>3. CASE kind = "Float64"
  <2>1. EngineConvert(kind, v) = IF v.k \in {"int32", "double"} THEN NumberV(h) ELSE NotANumber
    BY <1>3 DEF EngineConvert, h
  <2>2. NotANumber \in Item /\ NotANumber.k # "young"
    BY DEF NotANumber, Value, Item
  <2>. QED BY <1>1, <2>1, <2>2, NumberItem
<1>4. CASE kind = "Int8"
  <2>1. EngineConvert(kind, v) = I32(Wrap(Towards0(h), B, TRUE))
    BY <1>4 DEF EngineConvert, h
  <2>. QED BY <1>2, <2>1, WrapInt, NumberItem
<1>5. CASE kind = "Uint8"
  <2>1. EngineConvert(kind, v) = I32(Wrap(Towards0(h), B, FALSE))
    BY <1>5 DEF EngineConvert, h
  <2>. QED BY <1>2, <2>1, WrapInt, NumberItem
<1>6. CASE kind = "Uint32"
  <2>1. EngineConvert(kind, v) = NumberV(2 * Wrap(Towards0(h), W, FALSE))
    BY <1>6 DEF EngineConvert, h
  <2>. DEFINE w == Wrap(Towards0(h), W, FALSE)
  <2>2. w \in Int
    BY <1>2, WrapInt
  <2>. HIDE DEF w
  <2>3. 2 * w \in Int
    BY <2>2
  <2>. QED BY <2>1, <2>3, NumberItem DEF w
<1>7. CASE kind = "Uint8Clamped"
  <2>1. EngineConvert(kind, v) = I32(Clamp(HalfEven(h), 0, 2^B - 1))
    BY <1>7 DEF EngineConvert, h
  <2>2. Clamp(HalfEven(h), 0, 2^B - 1) \in Int
    BY <1>2, Powers DEF Clamp
  <2>. QED BY <2>1, <2>2, NumberItem
<1>. QED BY <1>3, <1>4, <1>5, <1>6, <1>7 DEF TaKinds, ByteKinds

\* The store of an int32 is the language's conversion.
LEMMA IntStore ==
    ASSUME NEW kind \in TaKinds, NEW v, IsStored(v), v.k = "int32"
    PROVE  emit_ta_store_int(kind, v.h \div 2) = EngineConvert(kind, v)
<1>. DEFINE n == v.h \div 2
<1>1. v.h \in Int /\ n \in Int /\ v.h = 2 * n /\ Fits(v.h)
  BY DEF IsStored, Fits
<1>. HIDE DEF n
<1>2. Towards0(v.h) = n /\ HalfEven(v.h) = n
  BY <1>1, Halves
<1>3. NumberV(v.h) = I32(n)
  BY <1>1 DEF NumberV, I32
<1>. QED BY <1>2, <1>3 DEF emit_ta_store_int, EngineConvert, n, TaKinds, ByteKinds

\* The store of a double is the language's conversion, or is not done.
LEMMA DoubleStore ==
    ASSUME NEW kind \in TaKinds, NEW v, IsStored(v), v.k \in {"double", "nan"}
    PROVE  emit_ta_store_f64(kind, v) \in {Miss, EngineConvert(kind, v)}
<1>1. v.h \in Int /\ (v.k = "nan" => v = NotANumber /\ v.h = 0)
  BY DEF IsStored, NotANumber
<1>2. CASE kind = "Float64"
  BY <1>1, <1>2 DEF emit_ta_store_f64, EngineConvert
<1>3. CASE kind = "Uint8Clamped"
  <2>1. 2^B - 1 \in Nat
    BY Powers
  <2>2. HalfEven(Clamp(v.h, 0, 2 * (2^B - 1))) = Clamp(HalfEven(v.h), 0, 2^B - 1)
    BY <1>1, <2>1, ClampHalf
  <2>3. v.k = "nan" => Clamp(HalfEven(0), 0, 2^B - 1) = 0
    BY <2>1 DEF Clamp, HalfEven
  <2>4. CASE v.k = "nan"
    BY <1>3, <2>3, <2>4 DEF emit_ta_store_f64, EngineConvert
  <2>5. CASE v.k = "double"
    BY <1>3, <2>2, <2>5 DEF emit_ta_store_f64, EngineConvert
  <2>. QED BY <2>4, <2>5
<1>4. CASE kind \notin {"Float64", "Uint8Clamped"}
  <2>. DEFINE t == TruncSat(v)
  <2>1. emit_ta_store_f64(kind, v) = IF v.k # "nan" /\ 2 * t = v.h THEN emit_ta_store_int(kind, t) ELSE Miss
    BY <1>4 DEF emit_ta_store_f64
  <2>2. SUFFICES ASSUME v.k = "double", 2 * t = v.h
                 PROVE  emit_ta_store_int(kind, t) = EngineConvert(kind, v)
    BY <2>1
  <2>3. t \in Int
    BY <1>1, <2>2, TowardsInt, Powers DEF TruncSat, Clamp
  <2>. HIDE DEF t
  <2>4. Towards0(v.h) = t
    BY <2>2, <2>3, Halves
  <2>. QED BY <1>4, <2>2, <2>4 DEF emit_ta_store_int, EngineConvert, TaKinds, ByteKinds
<1>. QED BY <1>2, <1>3, <1>4

-----------------------------------------------------------------------------
(* Objects.                                                                 *)

\* Two objects with the same parts are the same.
LEMMA SameThing ==
    ASSUME NEW x \in ThingType, NEW y \in ThingType,
           x.cls = y.cls, x.els = y.els, x.cap = y.cap, x.len = y.len, x.flags = y.flags, x.own = y.own,
           x.ext = y.ext, x.tenured = y.tenured, x.lit = y.lit
    PROVE  x = y
BY DEF ThingType

\* What an element store leaves.
PutShape(o, i, v, p) ==
    /\ p \in ThingType /\ p.cls = o.cls /\ p.own = o.own /\ p.ext = o.ext /\ p.tenured = o.tenured /\ p.lit = o.lit
    /\ Len(p.els) = IF i < Len(o.els) THEN Len(o.els) ELSE i + 1
    /\ \A j \in 1..Len(p.els) : p.els[j] = IF j = i + 1 THEN v ELSE IF j <= Len(o.els) THEN o.els[j] ELSE Hole
    /\ p.len = Longer(o, i)
    /\ p.cap = IF Len(p.els) > o.cap THEN Len(p.els) ELSE o.cap
    /\ p.flags = IF i > Len(o.els) THEN o.flags \cup {"nonPacked"} ELSE o.flags

\* A hole and a nursery pointer are two elements.
LEMMA HoleItem == Hole \in Item /\ Young \in Item /\ Hole # Young
BY DEF Hole, Young, Value, Item

\* Sequences put together.
LEMMA Joined ==
    ASSUME NEW S, NEW s \in Seq(S), NEW t \in Seq(S)
    PROVE  /\ s \o t \in Seq(S) /\ Len(s \o t) = Len(s) + Len(t) /\ Len(s) \in Nat /\ Len(t) \in Nat
           /\ \A j \in 1..(Len(s) + Len(t)) : (s \o t)[j] = IF j <= Len(s) THEN s[j] ELSE t[j - Len(s)]
OBVIOUS

\* PutAt has that shape.
LEMMA PutFacts ==
    ASSUME NEW o \in ThingType, NEW i \in Nat, NEW v \in Item
    PROVE  PutShape(o, i, v, PutAt(o, i, v))
<1>. DEFINE n == Len(o.els)
            els == IF i < n THEN [o.els EXCEPT ![i + 1] = v] ELSE o.els \o Filled(i - n) \o <<v>>
            p == PutAt(o, i, v)
<1>1. o.els \in Seq(Item) /\ n \in Nat /\ o.len \in Nat /\ o.cap \in Nat /\ o.flags \in SUBSET Flags
  BY DEF ThingType
<1>2. /\ els \in Seq(Item) /\ Len(els) = IF i < n THEN n ELSE i + 1
      /\ \A j \in 1..Len(els) : els[j] = IF j = i + 1 THEN v ELSE IF j <= n THEN o.els[j] ELSE Hole
  <2>1. CASE i < n
    BY <1>1, <2>1
  <2>2. CASE i >= n
    <3>1. Filled(i - n) \in Seq(Item) /\ Len(Filled(i - n)) = i - n /\ \A j \in 1..(i - n) : Filled(i - n)[j] = Hole
      BY <1>1, <2>2, HoleItem DEF Filled
    <3>. DEFINE f == Filled(i - n)
                g == o.els \o f
                r == g \o <<v>>
    <3>. HIDE DEF f, n
    <3>0. ~(i < n)
      BY <1>1, <2>2
    <3>2. els = r
      BY <3>0, Zenon DEF f
    <3>. HIDE DEF els
    <3>3. /\ g \in Seq(Item) /\ Len(g) = n + Len(f) /\ \A j \in 1..(n + Len(f)) : g[j] = IF j <= n THEN o.els[j] ELSE f[j - n]
      BY <1>1, <3>1, Joined DEF f, n
    <3>. HIDE DEF g
    <3>8. Len(f) = i - n /\ \A j \in 1..(i - n) : f[j] = Hole
      BY <3>1, Zenon DEF f
    <3>4. Len(g) = i /\ n + Len(f) = i
      BY <1>1, <2>2, <3>3, <3>8
    <3>5. ASSUME NEW j \in 1..i PROVE g[j] = IF j <= n THEN o.els[j] ELSE Hole
      <4>1. g[j] = IF j <= n THEN o.els[j] ELSE f[j - n]
        BY <3>3, <3>4, Zenon
      <4>2. ASSUME ~(j <= n) PROVE f[j - n] = Hole
        <5>1. j - n \in 1..(i - n)
          BY <1>1, <2>2, <4>2
        <5>. QED BY <3>8, <5>1, Zenon
      <4>. QED BY <4>1, <4>2, Zenon
    <3>6. <<v>> \in Seq(Item) /\ Len(<<v>>) = 1 /\ <<v>>[1] = v
      OBVIOUS
    <3>7. r \in Seq(Item) /\ Len(r) = i + 1 /\ \A j \in 1..(i + 1) : r[j] = IF j <= i THEN g[j] ELSE v
      BY <3>3, <3>4, <3>6, Joined
    <3>. HIDE DEF r
    <3>9. \A j \in 1..i : j # i + 1
      OBVIOUS
    <3>10. \A j \in 1..(i + 1) : ~(j <= i) <=> j = i + 1
      OBVIOUS
    <3>11. \A j \in 1..(i + 1) : j <= i => j \in 1..i
      OBVIOUS
    <3>12. ASSUME NEW j \in 1..(i + 1) PROVE r[j] = IF j = i + 1 THEN v ELSE IF j <= n THEN o.els[j] ELSE Hole
      <4>1. CASE j <= i
        <5>1. j \in 1..i /\ j # i + 1 /\ r[j] = g[j]
          BY <3>7, <3>9, <3>11, <4>1, Zenon
        <5>. QED BY <3>5, <5>1, Zenon
      <4>2. CASE ~(j <= i)
        <5>1. j = i + 1 /\ r[j] = v
          BY <3>7, <3>10, <4>2, Zenon
        <5>. QED BY <5>1, Zenon
      <4>. QED BY <4>1, <4>2
    <3>. QED BY <3>0, <3>2, <3>7, <3>12, Zenon
  <2>. HIDE DEF els
  <2>. QED BY <1>1, <2>1, <2>2
<1>3. p = [o EXCEPT !.els = els, !.len = Longer(o, i), !.cap = IF Len(els) > @ THEN Len(els) ELSE @,
                    !.flags = IF i > n THEN @ \cup {"nonPacked"} ELSE @]
  BY DEF PutAt
<1>. HIDE DEF els
<1>4. Longer(o, i) \in Nat
  BY <1>1 DEF Longer
<1>5. Len(els) \in Nat /\ "nonPacked" \in Flags
  BY <1>2 DEF Flags
<1>6. p.els = els /\ p.len = Longer(o, i) /\ p.cap = (IF Len(els) > o.cap THEN Len(els) ELSE o.cap)
      /\ p.flags = (IF i > n THEN o.flags \cup {"nonPacked"} ELSE o.flags)
      /\ p.cls = o.cls /\ p.own = o.own /\ p.ext = o.ext /\ p.tenured = o.tenured /\ p.lit = o.lit
  BY <1>3 DEF ThingType
<1>7. p \in ThingType
  <2>. DEFINE room == IF Len(els) > o.cap THEN Len(els) ELSE o.cap
              fl == IF i > n THEN o.flags \cup {"nonPacked"} ELSE o.flags
              ln == Longer(o, i)
  <2>1. room \in Nat /\ fl \in SUBSET Flags /\ ln \in Nat /\ els \in Seq(Item)
    BY <1>1, <1>2, <1>4, <1>5
  <2>2. p = [o EXCEPT !.els = els, !.len = ln, !.cap = room, !.flags = fl]
    BY <1>3, Zenon
  <2>. HIDE DEF room, fl, ln, p
  <2>. QED BY <2>1, <2>2 DEF ThingType
<1>. HIDE DEF p
<1>. QED BY <1>2, <1>6, <1>7 DEF PutShape, p

\* What is true of every object.
Packing(o) == \A j \in 1..Len(o.els) : o.els[j] = Hole => "nonPacked" \in o.flags
Sparse(o) == \A i \in o.own : i + 1 \in 1..Len(o.els) => o.els[i + 1] = Hole
ThingOK(o) ==
    /\ o \in ThingType
    /\ o.cls \in Dense => Len(o.els) <= o.cap /\ Packing(o) /\ Sparse(o)
    /\ o.cls = "Array" => Len(o.els) <= o.len
    /\ o.cls = "Arguments" => o.len = Len(o.els)
    /\ ~o.ext => o.flags \cap {"frozen", "sealed", "notExtensible"} # {}
    /\ o.lit => o.cls = "Array" /\ Len(o.els) < o.len /\ o.own = {}
    /\ o.cls \in TaKinds => \A j \in 1..Len(o.els) : o.els[j].k # "young"

\* The fields of an object.
LEMMA ThingFields ==
    ASSUME NEW o \in ThingType
    PROVE  /\ o.cls \in Classes /\ o.els \in Seq(Item) /\ Len(o.els) \in Nat /\ o.cap \in Nat /\ o.len \in Nat
           /\ o.flags \subseteq Flags /\ o.own \subseteq Int /\ o.ext \in BOOLEAN /\ o.tenured \in BOOLEAN /\ o.lit \in BOOLEAN
           /\ DOMAIN o.els = 1..Len(o.els)
BY DEF ThingType

\* An element replaced in place.
Replaced(o, i, x, r) ==
    /\ r \in ThingType /\ r.cls = o.cls /\ r.cap = o.cap /\ r.len = o.len /\ r.flags = o.flags /\ r.own = o.own
    /\ r.ext = o.ext /\ r.tenured = o.tenured /\ r.lit = o.lit
    /\ Len(r.els) = Len(o.els) /\ \A j \in 1..Len(o.els) : r.els[j] = IF j = i + 1 THEN x ELSE o.els[j]

\* The in-bounds store has that shape.
LEMMA Replace ==
    ASSUME NEW o \in ThingType, NEW i \in Int, InBounds(i, Len(o.els)), NEW x \in Item
    PROVE  Replaced(o, i, x, [o EXCEPT !.els[i + 1] = x])
<1>. DEFINE els == [o.els EXCEPT ![i + 1] = x]
            r == [o EXCEPT !.els = els]
<1>1. o.els \in Seq(Item) /\ Len(o.els) \in Nat
  BY ThingFields
<1>2. els \in Seq(Item) /\ Len(els) = Len(o.els) /\ \A j \in 1..Len(o.els) : els[j] = IF j = i + 1 THEN x ELSE o.els[j]
  BY <1>1 DEF InBounds
<1>3. [o EXCEPT !.els[i + 1] = x] = r
  BY DEF ThingType
<1>. HIDE DEF els
<1>4. r \in ThingType
  BY <1>2 DEF ThingType
<1>5. /\ r.els = els /\ r.cls = o.cls /\ r.cap = o.cap /\ r.len = o.len /\ r.flags = o.flags /\ r.own = o.own
      /\ r.ext = o.ext /\ r.tenured = o.tenured /\ r.lit = o.lit
  BY DEF ThingType
<1>. HIDE DEF r
<1>. QED BY <1>2, <1>3, <1>4, <1>5 DEF Replaced

\* An element appended.
Extended(o, x, len, r) ==
    /\ r \in ThingType /\ r.cls = o.cls /\ r.cap = o.cap /\ r.len = len /\ r.flags = o.flags /\ r.own = o.own
    /\ r.ext = o.ext /\ r.tenured = o.tenured /\ r.lit = o.lit
    /\ Len(r.els) = Len(o.els) + 1
    /\ \A j \in 1..(Len(o.els) + 1) : r.els[j] = IF j = Len(o.els) + 1 THEN x ELSE o.els[j]

\* The append has that shape.
LEMMA Extend ==
    ASSUME NEW o \in ThingType, NEW x \in Item, NEW len \in Nat
    PROVE  Extended(o, x, len, [o EXCEPT !.els = Append(@, x), !.len = len])
<1>. DEFINE els == Append(o.els, x)
            r == [o EXCEPT !.els = els, !.len = len]
<1>1. o.els \in Seq(Item) /\ Len(o.els) \in Nat
  BY ThingFields
<1>2. els \in Seq(Item) /\ Len(els) = Len(o.els) + 1
      /\ \A j \in 1..(Len(o.els) + 1) : els[j] = IF j = Len(o.els) + 1 THEN x ELSE o.els[j]
  BY <1>1
<1>3. [o EXCEPT !.els = Append(@, x), !.len = len] = r
  BY DEF ThingType
<1>. HIDE DEF els
<1>4. r \in ThingType
  BY <1>2 DEF ThingType
<1>5. /\ r.els = els /\ r.len = len /\ r.cls = o.cls /\ r.cap = o.cap /\ r.flags = o.flags /\ r.own = o.own
      /\ r.ext = o.ext /\ r.tenured = o.tenured /\ r.lit = o.lit
  BY DEF ThingType
<1>. HIDE DEF r
<1>. QED BY <1>2, <1>3, <1>4, <1>5 DEF Extended

\* Sequences with the same elements.
LEMMA SameSeq ==
    ASSUME NEW s \in Seq(Item), NEW t \in Seq(Item), Len(s) = Len(t), \A j \in 1..Len(s) : s[j] = t[j]
    PROVE  s = t
OBVIOUS

\* The in-place store and the append are the engine's store where it adds or
\* overwrites with no growth.
LEMMA ReplacedIsPut ==
    ASSUME NEW o \in ThingType, NEW i \in Nat, NEW x \in Item, i < Len(o.els), NEW r, Replaced(o, i, x, r),
           Longer(o, i) = o.len, Len(o.els) <= o.cap
    PROVE  r = PutAt(o, i, x)
<1>. DEFINE p == PutAt(o, i, x)
<1>1. PutShape(o, i, x, p)
  BY PutFacts
<1>2. Len(o.els) \in Nat /\ o.cap \in Nat
  BY ThingFields
<1>. HIDE DEF p
<1>3. /\ p \in ThingType /\ r \in ThingType /\ r.cls = p.cls /\ r.len = p.len /\ r.own = p.own
      /\ r.ext = p.ext /\ r.tenured = p.tenured /\ r.lit = p.lit
  BY <1>1 DEF PutShape, Replaced
<1>4. Len(p.els) = Len(o.els) /\ Len(r.els) = Len(o.els)
  BY <1>1, <1>2 DEF PutShape, Replaced
<1>5. p.cap = r.cap /\ p.flags = r.flags
  BY <1>1, <1>2, <1>4 DEF PutShape, Replaced
<1>6. \A j \in 1..Len(o.els) : r.els[j] = p.els[j]
  BY <1>1, <1>2, <1>4 DEF PutShape, Replaced
<1>7. r.els = p.els
  <2>1. r.els \in Seq(Item) /\ p.els \in Seq(Item)
    BY <1>3, ThingFields
  <2>2. Len(r.els) = Len(p.els) /\ \A j \in 1..Len(r.els) : r.els[j] = p.els[j]
    BY <1>4, <1>6, Zenon
  <2>. QED BY <2>1, <2>2, SameSeq
<1>. QED BY <1>3, <1>5, <1>7, SameThing DEF p

\* With room, the appended object is the one the engine makes.
LEMMA ExtendedIsPut ==
    ASSUME NEW o \in ThingType, NEW i \in Nat, NEW x \in Item, i = Len(o.els), i < o.cap, NEW r,
           Extended(o, x, Longer(o, i), r)
    PROVE  r = PutAt(o, i, x)
<1>. DEFINE p == PutAt(o, i, x)
<1>1. PutShape(o, i, x, p)
  BY PutFacts
<1>2. Len(o.els) \in Nat /\ o.cap \in Nat
  BY ThingFields
<1>. HIDE DEF p
<1>3. /\ p \in ThingType /\ r \in ThingType /\ r.cls = p.cls /\ r.len = p.len /\ r.own = p.own
      /\ r.ext = p.ext /\ r.tenured = p.tenured /\ r.lit = p.lit
  BY <1>1 DEF PutShape, Extended
<1>4. Len(p.els) = Len(o.els) + 1 /\ Len(r.els) = Len(o.els) + 1
  BY <1>1, <1>2 DEF PutShape, Extended
<1>5. p.cap = r.cap /\ p.flags = r.flags
  BY <1>1, <1>2, <1>4 DEF PutShape, Extended
<1>6. \A j \in 1..(Len(o.els) + 1) : r.els[j] = p.els[j]
  BY <1>1, <1>2, <1>4 DEF PutShape, Extended
<1>7. r.els = p.els
  BY <1>3, <1>4, <1>6, ThingFields, SameSeq
<1>. QED BY <1>3, <1>5, <1>7, SameThing DEF p

-----------------------------------------------------------------------------
(* The prototypes, the append row and the record of a clean chain.          *)

ProtoType == [sparse : SUBSET Int, dense : BOOLEAN, frozen : BOOLEAN]
ChainInv == /\ chain \in [{1, 2} -> ProtoType] /\ moved \in BOOLEAN
            /\ \A p \in {1, 2} : chain[p].frozen => chain[p].dense

\* The two words are those of prototypes with no sparse index, not frozen,
\* at the addresses shapes have now.
CleanWords(w0, w1) == (w0.sparse <=> moved) /\ w0.ext /\ ~w1.sparse /\ w1.ext
Clean == \A p \in {1, 2} : chain[p].sparse = {} /\ ~chain[p].frozen

RowInv ==
    /\ appendRow # NoRow =>
         /\ CleanWords(appendRow.s0, appendRow.s1)
         /\ appendRow.shape.what \in Dense /\ ~appendRow.shape.sparse
         /\ (appendRow.isArray <=> appendRow.shape.what = "Array")
    /\ noExtra # NoRow => CleanWords(noExtra.s0, noExtra.s1)

\* The two live shape words tell whether the prototypes are clean.
LEMMA WordsTell ==
    ASSUME ChainInv
    PROVE  Clean <=> CleanWords(ProtoWord(1), ProtoWord(2))
<1>4. (ProtoWord(2).sparse <=> chain[2].sparse # {}) /\ (ProtoWord(2).ext <=> ~chain[2].frozen)
  <2>1. ProtoWord(2) = ProtoShape(2)
    BY DEF ProtoWord
  <2>2. (ProtoShape(2).sparse <=> chain[2].sparse # {}) /\ (ProtoShape(2).ext <=> ~chain[2].frozen)
    BY DEF ProtoShape
  <2>. QED BY <2>1, <2>2
<1>5. (ProtoShape(1).sparse <=> chain[1].sparse # {}) /\ (ProtoShape(1).ext <=> ~chain[1].frozen)
  BY DEF ProtoShape
<1>6. CASE moved
  <2>1. ProtoWord(1) = [ProtoShape(1) EXCEPT !.sparse = ~@]
    BY <1>6 DEF ProtoWord
  <2>2. (ProtoWord(1).sparse <=> ~ProtoShape(1).sparse) /\ (ProtoWord(1).ext <=> ProtoShape(1).ext)
    BY <2>1 DEF ProtoShape
  <2>. QED BY <1>4, <1>5, <1>6, <2>2 DEF Clean, CleanWords
<1>7. CASE ~moved
  <2>1. ProtoWord(1) = ProtoShape(1)
    BY <1>7 DEF ProtoWord
  <2>. QED BY <1>4, <1>5, <1>7, <2>1 DEF Clean, CleanWords
<1>. QED BY <1>6, <1>7

\* A clean prototype blocks nothing.
LEMMA CleanOpen ==
    ASSUME ChainInv, Clean, NEW i \in Int
    PROVE  ~Blocks(i)
<1>. DEFINE p == HolderProto(i)
<1>1. p \in {0, 1, 2}
  BY DEF HolderProto
<1>. HIDE DEF p
<1>. QED BY <1>1 DEF Blocks, Clean, p

\* A matching row: a plain dense object and a clean chain.
LEMMA RowTells ==
    ASSUME ChainInv, RowInv, NEW o \in ThingType, RowProves(o)
    PROVE  o.cls \in Dense /\ o.own = {} /\ (appendRow.isArray <=> o.cls = "Array") /\ Clean
<1>1. /\ appendRow # NoRow /\ appendRow.shape = ShapeOf(o)
      /\ appendRow.s0 = ProtoWord(1) /\ appendRow.s1 = ProtoWord(2)
  BY DEF RowProves, ShapeWord
<1>2. Clean
  BY <1>1, WordsTell DEF RowInv
<1>3. ShapeOf(o).what = o.cls /\ (ShapeOf(o).sparse <=> o.own # {})
  BY DEF ShapeOf
<1>. QED BY <1>1, <1>2, <1>3 DEF RowInv

\* The helper's own test: a clean chain too.
LEMMA FastTells ==
    ASSUME ChainInv, RowInv, NEW o \in ThingType, NoExtraIndexedFast(o)
    PROVE  o.own = {} /\ Clean
<1>1. o.own = {} /\ (NoExtraHit \/ ~PrototypeMayHaveIndexedProperties)
  BY DEF NoExtraIndexedFast
<1>2. CASE NoExtraHit
  <2>1. noExtra = [s0 |-> ProtoWord(1), s1 |-> ProtoWord(2)]
    BY <1>2 DEF NoExtraHit
  <2>2. noExtra # NoRow /\ noExtra.s0 = ProtoWord(1) /\ noExtra.s1 = ProtoWord(2)
    BY <2>1 DEF NoRow
  <2>. QED BY <1>1, <2>2, WordsTell DEF RowInv
<1>3. CASE ~PrototypeMayHaveIndexedProperties
  <2>1. \A p \in {1, 2} : chain[p].sparse = {} /\ ~chain[p].dense
    BY <1>3 DEF PrototypeMayHaveIndexedProperties
  <2>. QED BY <1>1, <2>1 DEF ChainInv, Clean
<1>. QED BY <1>1, <1>2, <1>3

\* What the helper notes and primes is again clean.
LEMMA NoteClean ==
    ASSUME ChainInv, Clean, NEW o \in ThingType, o.cls \in Dense, o.own = {}
    PROVE  /\ CleanWords(NoteChain.s0, NoteChain.s1)
           /\ CleanWords(PrimeAppendRow(o).s0, PrimeAppendRow(o).s1)
           /\ PrimeAppendRow(o).shape.what \in Dense /\ ~PrimeAppendRow(o).shape.sparse
           /\ (PrimeAppendRow(o).isArray <=> PrimeAppendRow(o).shape.what = "Array")
<1>1. CleanWords(ProtoWord(1), ProtoWord(2))
  BY WordsTell
<1>2. NoteChain.s0 = ProtoWord(1) /\ NoteChain.s1 = ProtoWord(2)
  BY DEF NoteChain
<1>3. /\ PrimeAppendRow(o).s0 = ProtoWord(1) /\ PrimeAppendRow(o).s1 = ProtoWord(2)
      /\ PrimeAppendRow(o).shape = ShapeOf(o) /\ (PrimeAppendRow(o).isArray <=> o.cls = "Array")
  BY DEF PrimeAppendRow, ShapeWord
<1>4. ShapeOf(o).what = o.cls /\ ~ShapeOf(o).sparse
  BY DEF ShapeOf
<1>. QED BY <1>1, <1>2, <1>3, <1>4

-----------------------------------------------------------------------------
(* The engine's store.                                                      *)

\* It leaves the object, replaces an element of a typed array or an arguments
\* object, or adds or overwrites a dense element.
LEMMA EngineCases ==
    ASSUME NEW o \in ThingType, NEW i \in Int, NEW v
    PROVE  LET e == EngineSetElement(o, i, v)
           IN \/ e = o
              \/ o.cls \in TaKinds /\ InBounds(i, Len(o.els)) /\ e = [o EXCEPT !.els[i + 1] = EngineConvert(o.cls, v)]
              \/ o.cls = "Arguments" /\ InBounds(i, Len(o.els)) /\ e = [o EXCEPT !.els[i + 1] = v]
              \/ o.cls \in Dense /\ i >= 0 /\ i \notin o.own /\ e = PutAt(o, i, v)
<1>. DEFINE e == EngineSetElement(o, i, v)
<1>1. CASE o.cls \in TaKinds
  <2>1. e = IF InBounds(i, Len(o.els)) THEN [o EXCEPT !.els[i + 1] = EngineConvert(o.cls, v)] ELSE o
    <3>1. o.cls # "Arguments" /\ o.cls \notin {"Proxy", "String"} /\ o.cls \notin Dense
      BY <1>1 DEF TaKinds, ByteKinds, Dense
    <3>2. HasOwn(o, i) <=> InBounds(i, Len(o.els))
      BY <1>1, <3>1 DEF HasOwn
    <3>. QED BY <1>1, <3>1, <3>2, Zenon DEF EngineSetElement
  <2>. QED BY <1>1, <2>1
<1>2. CASE o.cls = "Arguments"
  <2>1. e = o \/ (InBounds(i, Len(o.els)) /\ e = [o EXCEPT !.els[i + 1] = v])
    <3>1. o.cls \notin TaKinds /\ o.cls \notin {"Proxy", "String"} /\ o.cls \notin Dense
      BY <1>2 DEF TaKinds, ByteKinds, Dense
    <3>2. HasOwn(o, i) <=> InBounds(i, Len(o.els))
      BY <1>2, <3>1 DEF HasOwn
    <3>. QED BY <1>2, <3>1, <3>2, Zenon DEF EngineSetElement
  <2>. QED BY <1>2, <2>1
<1>3. CASE o.cls \in {"Proxy", "String"} \/ (o.cls \in Dense /\ i < 0)
  BY <1>3 DEF EngineSetElement, TaKinds, ByteKinds, Dense
<1>4. CASE o.cls \in Dense /\ i >= 0
  <2>1. ~(i < 0) /\ o.cls \notin TaKinds /\ o.cls # "Arguments" /\ o.cls \notin {"Proxy", "String"}
    BY <1>4 DEF TaKinds, ByteKinds, Dense
  <2>2. e = IF HasOwn(o, i) THEN IF i \in o.own \/ Frozen(o) THEN o ELSE PutAt(o, i, v)
            ELSE IF Blocks(i) \/ ~o.ext \/ ("lengthReadonly" \in o.flags /\ i >= o.len)
                 THEN o ELSE PutAt(o, i, v)
    BY <1>4, <2>1, Zenon DEF EngineSetElement
  <2>3. ~HasOwn(o, i) => i \notin o.own
    BY <1>4 DEF HasOwn
  <2>. QED BY <1>4, <2>2, <2>3
<1>. QED BY <1>1, <1>2, <1>3, <1>4, ThingFields DEF Classes

\* The dense case in the engine's terms.
LEMMA EngineDense ==
    ASSUME NEW o \in ThingType, NEW i \in Int, NEW v, o.cls \in Dense, i >= 0
    PROVE  EngineSetElement(o, i, v) =
             IF i \in o.own \/ (InBounds(i, Len(o.els)) /\ At(o, i) # Hole)
             THEN IF i \in o.own \/ Frozen(o) THEN o ELSE PutAt(o, i, v)
             ELSE IF Blocks(i) \/ ~o.ext \/ ("lengthReadonly" \in o.flags /\ i >= o.len) THEN o ELSE PutAt(o, i, v)
<1>1. ~(i < 0) /\ o.cls \notin TaKinds /\ o.cls # "Arguments" /\ o.cls \notin {"Proxy", "String"}
  BY DEF TaKinds, ByteKinds, Dense
<1>2. HasOwn(o, i) <=> (i \in o.own \/ (InBounds(i, Len(o.els)) /\ At(o, i) # Hole))
  BY <1>1 DEF HasOwn
<1>. QED BY <1>1, <1>2, Zenon DEF EngineSetElement

\* What the engine's store may change of an object, and which element may
\* become an edge into the nursery.
Stepped(o, i, v, e) ==
    /\ ThingOK(e) /\ e.cls = o.cls /\ e.tenured = o.tenured
    /\ \A j \in 1..Len(e.els) : e.els[j] = Young =>
         \/ j \in 1..Len(o.els) /\ o.els[j] = Young
         \/ j = i + 1 /\ v = Young /\ e # o /\ o.cls \notin TaKinds

\* The store the engine makes is such a step.
LEMMA EngineSteps ==
    ASSUME NEW o, ThingOK(o), ~o.lit, NEW i \in Int, NEW v, Storable(v), v # Hole
    PROVE  Stepped(o, i, v, EngineSetElement(o, i, v))
<1>. DEFINE e == EngineSetElement(o, i, v)
<1>1. o \in ThingType /\ v \in Item
  BY StorableItem DEF ThingOK
<1>2. CASE e = o
  BY <1>2 DEF Stepped, ThingOK
<1>3. CASE e # o /\ o.cls \in TaKinds /\ InBounds(i, Len(o.els)) /\ e = [o EXCEPT !.els[i + 1] = EngineConvert(o.cls, v)]
  <2>. DEFINE x == EngineConvert(o.cls, v)
  <2>1. x \in Item /\ x.k # "young"
    BY <1>1, <1>3, ConvertItem
  <2>. HIDE DEF x
  <2>2. Replaced(o, i, x, e)
    BY <1>1, <1>3, <2>1, Replace DEF x
  <2>. HIDE DEF e
  <2>3. o.cls \notin Dense /\ o.cls # "Array" /\ o.cls # "Arguments" /\ Young.k = "young"
    BY <1>3 DEF TaKinds, ByteKinds, Dense, Young, Value
  <2>4. ThingOK(e)
    BY <1>3, <2>1, <2>2, <2>3 DEF ThingOK, Replaced
  <2>. QED BY <2>1, <2>2, <2>3, <2>4 DEF Stepped, Replaced, e
<1>4. CASE e # o /\ o.cls = "Arguments" /\ InBounds(i, Len(o.els)) /\ e = [o EXCEPT !.els[i + 1] = v]
  <2>1. Replaced(o, i, v, e)
    BY <1>1, <1>4, Replace
  <2>. HIDE DEF e
  <2>2. o.cls \notin Dense /\ o.cls # "Array" /\ o.cls \notin TaKinds
    BY <1>4 DEF TaKinds, ByteKinds, Dense
  <2>3. ThingOK(e)
    BY <1>4, <2>1, <2>2 DEF ThingOK, Replaced
  <2>. QED BY <1>4, <2>1, <2>2, <2>3 DEF Stepped, Replaced, e
<1>5. CASE e # o /\ o.cls \in Dense /\ i >= 0 /\ i \notin o.own /\ e = PutAt(o, i, v)
  <2>1. i \in Nat
    BY <1>5
  <2>2. PutShape(o, i, v, e)
    BY <1>1, <1>5, <2>1, PutFacts
  <2>. HIDE DEF e
  <2>3. o.cls # "Arguments" /\ o.cls \notin TaKinds
    BY <1>5 DEF TaKinds, ByteKinds, Dense
  <2>4. Len(o.els) \in Nat /\ o.len \in Nat /\ o.cap \in Nat /\ Len(e.els) \in Nat /\ e.own \subseteq Int
    BY <1>1, <2>2, ThingFields DEF PutShape
  <2>5. Len(e.els) <= e.cap
    BY <2>2, <2>4 DEF PutShape
  <2>6. e.cls = "Array" => Len(e.els) <= e.len
    BY <1>5, <2>1, <2>2, <2>4 DEF PutShape, Longer, ThingOK
  <2>7. \A j \in 1..Len(e.els) : e.els[j] = IF j = i + 1 THEN v ELSE IF j <= Len(o.els) THEN o.els[j] ELSE Hole
    BY <2>2 DEF PutShape
  <2>8. Packing(e)
    <3>1. SUFFICES ASSUME NEW j \in 1..Len(e.els), e.els[j] = Hole PROVE "nonPacked" \in e.flags
      BY DEF Packing
    <3>2. j # i + 1
      BY <2>7, <3>1
    <3>3. CASE j <= Len(o.els)
      <4>1. j \in 1..Len(o.els) /\ o.els[j] = Hole
        BY <2>4, <2>7, <3>1, <3>2, <3>3
      <4>. QED BY <1>5, <2>2, <4>1 DEF ThingOK, Packing, PutShape
    <3>4. CASE j > Len(o.els)
      <4>1. i > Len(o.els)
        BY <2>1, <2>2, <2>4, <3>2, <3>4 DEF PutShape
      <4>. QED BY <2>2, <4>1 DEF PutShape
    <3>. QED BY <2>4, <3>3, <3>4
  <2>9. Sparse(e)
    <3>1. SUFFICES ASSUME NEW k \in e.own, k + 1 \in 1..Len(e.els) PROVE e.els[k + 1] = Hole
      BY DEF Sparse
    <3>2. k \in o.own /\ k \in Int /\ k # i /\ k + 1 # i + 1
      BY <1>5, <2>2, <2>4 DEF PutShape
    <3>3. k + 1 <= Len(o.els) => o.els[k + 1] = Hole
      BY <1>5, <2>4, <3>1, <3>2 DEF ThingOK, Sparse
    <3>. QED BY <2>7, <3>1, <3>2, <3>3
  <2>10. ThingOK(e)
    BY <1>5, <2>2, <2>3, <2>5, <2>6, <2>8, <2>9 DEF ThingOK, PutShape
  <2>11. \A j \in 1..Len(e.els) : e.els[j] = Young => (j \in 1..Len(o.els) /\ o.els[j] = Young) \/ (j = i + 1 /\ v = Young)
    BY <2>4, <2>7, HoleItem
  <2>. QED BY <1>5, <2>2, <2>3, <2>10, <2>11 DEF Stepped, PutShape, e
<1>. QED BY <1>1, <1>2, <1>3, <1>4, <1>5, EngineCases

-----------------------------------------------------------------------------
(* The write arms: each stores what the engine stores, or does not store.    *)

\* A typed-array arm on an object of its kind.
LEMMA TaAgrees ==
    ASSUME NEW o \in ThingType, NEW i \in Int, NEW v, Storable(v), o.cls \in TaKinds
    PROVE  TaStore(o, o.cls, i, v) \in {NotStored, EngineSetElement(o, i, v)}
<1>. DEFINE stored == CASE v.k = "int32" -> emit_ta_store_int(o.cls, v.h \div 2)
                        [] v.k \in {"double", "nan"} -> emit_ta_store_f64(o.cls, v)
                        [] OTHER -> Miss
<1>1. TaStore(o, o.cls, i, v) = IF InBounds(i, Len(o.els)) /\ stored # Miss
                                THEN [o EXCEPT !.els[i + 1] = stored] ELSE NotStored
  BY Zenon DEF TaStore
<1>2. stored \in {Miss, EngineConvert(o.cls, v)}
  <2>1. CASE IsStored(v) /\ v.k = "int32"
    <3>1. stored = emit_ta_store_int(o.cls, v.h \div 2)
      BY <2>1
    <3>. QED BY <2>1, <3>1, IntStore
  <2>2. CASE IsStored(v) /\ v.k \in {"double", "nan"}
    <3>1. stored = emit_ta_store_f64(o.cls, v)
      BY <2>2
    <3>. QED BY <2>2, <3>1, DoubleStore
  <2>3. CASE v \in {Young, Old, Hole}
    BY <2>3 DEF Young, Old, Hole, Value
  <2>. QED BY <2>1, <2>2, <2>3 DEF Storable, IsStored, IsNum
<1>. HIDE DEF stored
<1>3. InBounds(i, Len(o.els)) => EngineSetElement(o, i, v) = [o EXCEPT !.els[i + 1] = EngineConvert(o.cls, v)]
  <2>1. o.cls # "Arguments" /\ o.cls \notin {"Proxy", "String"} /\ o.cls \notin Dense
    BY DEF TaKinds, ByteKinds, Dense
  <2>2. HasOwn(o, i) <=> InBounds(i, Len(o.els))
    BY <2>1 DEF HasOwn
  <2>. QED BY <2>1, <2>2, Zenon DEF EngineSetElement
<1>. QED BY <1>1, <1>2, <1>3, Zenon

\* An object that is open to adds is extensible.
LEMMA OpenExt ==
    ASSUME NEW o, ThingOK(o), ~PushBail(o)
    PROVE  o.ext /\ ~Frozen(o) /\ "lengthReadonly" \notin o.flags
BY DEF ThingOK, PushBail, Frozen

\* Where nothing blocks, the engine adds or overwrites.
LEMMA OpenPut ==
    ASSUME NEW o, ThingOK(o), ChainInv, Clean, ~PushBail(o), o.own = {}, o.cls \in Dense, NEW i \in Nat, NEW v
    PROVE  EngineSetElement(o, i, v) = PutAt(o, i, v)
<1>1. o \in ThingType /\ i >= 0 /\ i \in Int
  BY DEF ThingOK
<1>2. ~Blocks(i) /\ o.ext /\ ~Frozen(o) /\ "lengthReadonly" \notin o.flags /\ i \notin o.own
  BY <1>1, CleanOpen, OpenExt
<1>. QED BY <1>1, <1>2, EngineDense

\* The call-free append stores as the engine does, or not at all
\* (emit_elem_append_arm behind night_elem_append_check).
LEMMA AppendAgrees ==
    ASSUME NEW o, ThingOK(o), ChainInv, RowInv, NEW i \in Int, NEW v \in Item
    PROVE  emit_elem_append_arm(o, i, v) \in {NotStored, EngineSetElement(o, i, v)}
<1>1. SUFFICES ASSUME elem_append_check(o, i)
               PROVE  emit_elem_append_arm(o, i, v) = EngineSetElement(o, i, v)
  BY DEF emit_elem_append_arm
<1>2. o \in ThingType /\ RowProves(o) /\ ~PushBail(o)
  BY <1>1 DEF ThingOK, elem_append_check
<1>3. o.cls \in Dense /\ o.own = {} /\ (appendRow.isArray <=> o.cls = "Array") /\ Clean
  BY <1>2, RowTells
<1>4. InitLen(o) = Len(o.els) /\ Len(o.els) \in Nat /\ o.len \in Nat /\ o.cap \in Nat /\ Len(o.els) <= o.cap
  BY <1>2, <1>3, ThingFields DEF InitLen, ThingOK
<1>5. i \in Nat
  BY <1>1, <1>4 DEF elem_append_check, InBounds
<1>6. EngineSetElement(o, i, v) = PutAt(o, i, v)
  BY <1>2, <1>3, <1>5, OpenPut
<1>7. CASE i = InitLen(o)
  <2>1. i < o.cap
    BY <1>1, <1>4, <1>7 DEF elem_append_check, InBounds
  <2>. DEFINE len == IF i >= o.len /\ appendRow.isArray THEN i + 1 ELSE o.len
  <2>2. len = Longer(o, i) /\ len \in Nat
    BY <1>3, <1>4, <1>5 DEF Longer
  <2>3. emit_elem_append_arm(o, i, v) = [o EXCEPT !.els = Append(@, v), !.len = len]
    BY <1>1, <1>7 DEF emit_elem_append_arm
  <2>. HIDE DEF len
  <2>4. Extended(o, v, Longer(o, i), emit_elem_append_arm(o, i, v))
    BY <1>2, <2>2, <2>3, Extend
  <2>. QED BY <1>2, <1>4, <1>5, <1>6, <1>7, <2>1, <2>4, ExtendedIsPut
<1>8. CASE i # InitLen(o)
  <2>1. InBounds(i, Len(o.els)) /\ i < Len(o.els)
    BY <1>1, <1>4, <1>8 DEF elem_append_check, InBounds
  <2>2. emit_elem_append_arm(o, i, v) = [o EXCEPT !.els[i + 1] = v]
    BY <1>1, <1>8 DEF emit_elem_append_arm
  <2>3. Longer(o, i) = o.len
    BY <1>4, <1>5, <2>1 DEF Longer, ThingOK
  <2>4. Replaced(o, i, v, emit_elem_append_arm(o, i, v))
    BY <1>2, <2>1, <2>2, Replace
  <2>. QED BY <1>2, <1>4, <1>5, <1>6, <2>1, <2>3, <2>4, ReplacedIsPut
<1>. QED BY <1>7, <1>8

\* So does the store within the dense bounds.
LEMMA DenseAgrees ==
    ASSUME NEW o, ThingOK(o), ChainInv, RowInv, NEW i \in Int, NEW v \in Item, InBounds(i, InitLen(o)), o.cls # "String"
    PROVE  DenseStore(o, i, v) \in {NotStored, EngineSetElement(o, i, v)}
<1>1. o \in ThingType
  BY DEF ThingOK
<1>2. o.cls \in Dense /\ InitLen(o) = Len(o.els) /\ Len(o.els) \in Nat /\ Len(o.els) <= o.cap /\ o.len \in Nat
  BY <1>1, ThingFields DEF InitLen, InBounds, ThingOK
<1>3. i \in Nat /\ i < Len(o.els) /\ i + 1 \in 1..Len(o.els)
  BY <1>2 DEF InBounds
<1>4. CASE Frozen(o)
  BY <1>4 DEF DenseStore
<1>5. CASE ~Frozen(o) /\ "nonPacked" \in o.flags /\ At(o, i) = Hole
  BY <1>5, AppendAgrees DEF DenseStore
<1>6. CASE ~Frozen(o) /\ ~("nonPacked" \in o.flags /\ At(o, i) = Hole)
  <2>1. DenseStore(o, i, v) = [o EXCEPT !.els[i + 1] = v]
    BY <1>6, Zenon DEF DenseStore
  <2>2. At(o, i) # Hole
    BY <1>2, <1>3, <1>6 DEF ThingOK, Packing, At
  <2>3. i \notin o.own
    BY <1>2, <1>3, <2>2 DEF ThingOK, Sparse, At
  <2>4. EngineSetElement(o, i, v) = PutAt(o, i, v)
    BY <1>1, <1>2, <1>3, <1>6, <2>2, <2>3, EngineDense
  <2>5. Longer(o, i) = o.len
    BY <1>2, <1>3 DEF Longer, ThingOK
  <2>6. Replaced(o, i, v, DenseStore(o, i, v))
    BY <1>1, <1>2, <2>1, Replace
  <2>. QED BY <1>1, <1>2, <1>3, <2>4, <2>5, <2>6, ReplacedIsPut
<1>. QED BY <1>4, <1>5, <1>6

\* The typed-array arm is only entered on its kind.
LEMMA GuardTells ==
    ASSUME NEW site \in Sites, NEW o, fact # NONE => o.cls = fact, ta_arm_guard(site, o)
    PROVE  o.cls = site.pred /\ site.pred \in TaKinds
BY SitesAssumption DEF ta_arm_guard, ta_clasp_eq

\* So does the whole of emit_set_element.
LEMMA SetAgrees ==
    ASSUME NEW site \in Sites, NEW o, ThingOK(o), ChainInv, RowInv, fact # NONE => o.cls = fact,
           NEW i \in Int, NEW v, Storable(v)
    PROVE  emit_set_element(site, o, i, v) \in {NotStored, EngineSetElement(o, i, v)}
<1>1. o \in ThingType /\ v \in Item
  BY StorableItem DEF ThingOK
<1>2. CASE o.cls = "String"
  BY <1>2 DEF emit_set_element
<1>3. CASE o.cls # "String" /\ ta_arm_guard(site, o)
  <2>1. emit_set_element(site, o, i, v) = TaStore(o, site.pred, i, v)
    BY <1>3 DEF emit_set_element, emit_ta_set_arm
  <2>. QED BY <1>1, <1>3, <2>1, GuardTells, TaAgrees
<1>4. CASE o.cls # "String" /\ ~ta_arm_guard(site, o)
  <2>1. emit_set_element(site, o, i, v) =
          IF ~Native(o) THEN NotStored
          ELSE IF InBounds(i, InitLen(o)) THEN DenseStore(o, i, v)
          ELSE OrElse(emit_elem_append_arm(o, i, v), IF site.poly THEN ta_set_poly(o, i, v) ELSE NotStored)
    BY <1>4, Zenon DEF emit_set_element
  <2>2. ta_set_poly(o, i, v) \in {NotStored, EngineSetElement(o, i, v)}
    BY <1>1, TaAgrees DEF ta_set_poly
  <2>3. emit_elem_append_arm(o, i, v) \in {NotStored, EngineSetElement(o, i, v)}
    BY <1>1, AppendAgrees
  <2>4. InBounds(i, InitLen(o)) => DenseStore(o, i, v) \in {NotStored, EngineSetElement(o, i, v)}
    BY <1>1, <1>4, DenseAgrees
  <2>. QED BY <2>1, <2>2, <2>3, <2>4, Zenon DEF OrElse
<1>. QED BY <1>2, <1>3, <1>4

\* The helper's dense path is the engine's store, or is not taken.
LEMMA HelperAgrees ==
    ASSUME NEW o, ThingOK(o), ChainInv, RowInv, NEW i \in Int, NEW v, HelperDense(o, i)
    PROVE  /\ SetOrExtend(o, i, v) \in {NotStored, EngineSetElement(o, i, v)}
           /\ Clean /\ o.own = {} /\ o.cls \in Dense
<1>1. o \in ThingType /\ o.cls \in Dense /\ i \in Nat
  BY DEF ThingOK, HelperDense
<1>2. o.own = {} /\ Clean
  BY <1>1, FastTells DEF HelperDense
<1>3. CASE PushBail(o)
  BY <1>1, <1>2, <1>3 DEF SetOrExtend
<1>4. CASE ~PushBail(o)
  <2>1. EngineSetElement(o, i, v) = PutAt(o, i, v)
    BY <1>1, <1>2, <1>4, OpenPut
  <2>. QED BY <1>1, <1>2, <2>1 DEF SetOrExtend
<1>. QED BY <1>3, <1>4

\* The inline push is the engine's store at the length.
LEMMA PushAgrees ==
    ASSUME NEW o, ThingOK(o), ChainInv, RowInv, NEW v \in Item, o.cls = "Array"
    PROVE  push_arm(o, v) \in {NotStored, EngineSetElement(o, o.len, v)}
<1>1. o \in ThingType /\ o.len \in Nat /\ Len(o.els) \in Nat /\ InitLen(o) = Len(o.els) /\ o.cap \in Nat
  BY ThingFields DEF ThingOK, InitLen, Dense
<1>2. SUFFICES ASSUME ~PushBail(o), o.len = InitLen(o), InitLen(o) < o.cap, RowProves(o),
                      push_arm(o, v) = [o EXCEPT !.els = Append(@, v), !.len = @ + 1]
               PROVE  push_arm(o, v) = EngineSetElement(o, o.len, v)
  BY DEF push_arm
<1>3. o.own = {} /\ Clean /\ o.cls \in Dense
  BY <1>1, <1>2, RowTells
<1>4. EngineSetElement(o, o.len, v) = PutAt(o, o.len, v)
  BY <1>1, <1>2, <1>3, OpenPut
<1>. DEFINE len == o.len + 1
<1>5. Longer(o, o.len) = len /\ len \in Nat
  BY <1>1 DEF Longer
<1>6. push_arm(o, v) = [o EXCEPT !.els = Append(@, v), !.len = len]
  BY <1>1, <1>2
<1>. HIDE DEF len
<1>7. Extended(o, v, Longer(o, o.len), push_arm(o, v))
  <2>1. Extended(o, v, len, [o EXCEPT !.els = Append(@, v), !.len = len])
    BY <1>1, <1>5, Extend
  <2>. QED BY <1>5, <1>6, <2>1, Zenon
<1>. QED BY <1>1, <1>2, <1>4, <1>7, ExtendedIsPut

\* The engine's pop, and the inline one.
LEMMA PopAgrees ==
    ASSUME NEW o
    PROVE  pop_arm(o) \in {NotStored, EnginePop(o)}
BY DEF pop_arm, EnginePop, PushBail

\* A prefix of the elements.
LEMMA SubSeqFacts ==
    ASSUME NEW s \in Seq(Item), NEW n \in Nat, n <= Len(s)
    PROVE  SubSeq(s, 1, n) \in Seq(Item) /\ Len(SubSeq(s, 1, n)) = n /\ \A j \in 1..n : SubSeq(s, 1, n)[j] = s[j]
OBVIOUS

\* The pop the engine makes is a step that stores nothing.
LEMMA PopSteps ==
    ASSUME NEW o, ThingOK(o), ~o.lit, o.cls = "Array", o.len = InitLen(o), o.len > 0
    PROVE  Stepped(o, -1, Hole, EnginePop(o))
<1>. DEFINE e == EnginePop(o)
            n == Len(o.els) - 1
            els == SubSeq(o.els, 1, n)
<1>1. o \in ThingType /\ o.len \in Nat /\ Len(o.els) \in Nat /\ o.len = Len(o.els) /\ o.els \in Seq(Item) /\ o.cap \in Nat
      /\ o.own \subseteq Int /\ n \in Nat
  BY ThingFields DEF ThingOK, InitLen, Dense
<1>2. CASE e = o
  BY <1>2 DEF Stepped, ThingOK
<1>3. CASE e # o
  <2>1. e = [o EXCEPT !.els = els, !.len = n]
    BY <1>1, <1>3 DEF EnginePop
  <2>2. els \in Seq(Item) /\ Len(els) = n /\ \A j \in 1..n : els[j] = o.els[j]
    BY <1>1, SubSeqFacts
  <2>. HIDE DEF els, n, e
  <2>3. e \in ThingType
    BY <1>1, <2>1, <2>2 DEF ThingType
  <2>4. /\ e.els = els /\ e.len = n /\ e.cls = o.cls /\ e.cap = o.cap /\ e.flags = o.flags /\ e.own = o.own
        /\ e.ext = o.ext /\ e.tenured = o.tenured /\ e.lit = o.lit
    BY <1>1, <2>1 DEF ThingType
  <2>5. n < Len(o.els) /\ \A j \in 1..n : j \in 1..Len(o.els)
    BY <1>1 DEF n
  <2>6. Packing(e) /\ Sparse(e)
    BY <1>1, <2>2, <2>4, <2>5 DEF ThingOK, Packing, Sparse, Dense
  <2>7. o.cls \notin TaKinds /\ o.cls # "Arguments" /\ o.cls \in Dense
    BY DEF TaKinds, ByteKinds, Dense
  <2>8. n <= o.cap
    BY <1>1, <2>5, <2>7 DEF ThingOK
  <2>9. ThingOK(e)
    BY <1>1, <2>2, <2>3, <2>4, <2>6, <2>7, <2>8 DEF ThingOK
  <2>. QED BY <2>2, <2>4, <2>5, <2>9 DEF Stepped, e
<1>. QED BY <1>2, <1>3

-----------------------------------------------------------------------------
(* The read arms.                                                           *)

\* What the engine reads, by class.
LEMMA EngineReads ==
    ASSUME NEW o \in ThingType, NEW i \in Int
    PROVE  /\ o.cls \in TaKinds /\ InBounds(i, Len(o.els)) => EngineGetElement(o, i) = At(o, i)
           /\ o.cls = "String" /\ InBounds(i, Len(o.els)) => EngineGetElement(o, i) = At(o, i)
           /\ o.cls = "Arguments" /\ InBounds(i, Len(o.els)) /\ "overridden" \notin o.flags /\ At(o, i) # Hole
                => EngineGetElement(o, i) = At(o, i)
           /\ o.cls \in Dense /\ InBounds(i, Len(o.els)) /\ At(o, i) # Hole /\ i \notin o.own
                => EngineGetElement(o, i) = At(o, i)
<1>1. ASSUME o.cls \in TaKinds, InBounds(i, Len(o.els)) PROVE EngineGetElement(o, i) = At(o, i)
  <2>1. o.cls # "Proxy" /\ o.cls # "Arguments" /\ o.cls # "String" /\ o.cls \notin Dense
    BY <1>1 DEF TaKinds, ByteKinds, Dense
  <2>2. HasOwn(o, i)
    BY <1>1 DEF HasOwn
  <2>. QED BY <1>1, <2>1, <2>2, Zenon DEF EngineGetElement
<1>2. ASSUME o.cls = "String", InBounds(i, Len(o.els)) PROVE EngineGetElement(o, i) = At(o, i)
  <2>1. o.cls # "Proxy" /\ o.cls # "Arguments" /\ o.cls \notin TaKinds /\ o.cls \notin Dense
    BY <1>2 DEF TaKinds, ByteKinds, Dense
  <2>2. HasOwn(o, i)
    BY <1>2 DEF HasOwn
  <2>. QED BY <1>2, <2>1, <2>2, Zenon DEF EngineGetElement
<1>3. ASSUME o.cls = "Arguments", InBounds(i, Len(o.els)), "overridden" \notin o.flags, At(o, i) # Hole
      PROVE  EngineGetElement(o, i) = At(o, i)
  <2>1. o.cls # "Proxy" /\ o.cls # "String" /\ o.cls \notin TaKinds /\ o.cls \notin Dense
    BY <1>3 DEF TaKinds, ByteKinds, Dense
  <2>2. HasOwn(o, i)
    BY <1>3 DEF HasOwn
  <2>. QED BY <1>3, <2>1, <2>2, Zenon DEF EngineGetElement
<1>4. ASSUME o.cls \in Dense, InBounds(i, Len(o.els)), At(o, i) # Hole, i \notin o.own
      PROVE  EngineGetElement(o, i) = At(o, i)
  <2>1. o.cls # "Proxy" /\ o.cls # "String" /\ o.cls # "Arguments" /\ o.cls \notin TaKinds
    BY <1>4 DEF TaKinds, ByteKinds, Dense
  <2>2. HasOwn(o, i)
    BY <1>4 DEF HasOwn
  <2>. QED BY <1>4, <2>1, <2>2, Zenon DEF EngineGetElement
<1>. QED BY <1>1, <1>2, <1>3, <1>4

\* A typed-array load answers as the engine, or not at all.
LEMMA TaLoads ==
    ASSUME NEW o \in ThingType, NEW i \in Int, o.cls \in TaKinds
    PROVE  TaLoad(o, o.cls, i) \in {Miss, EngineGetElement(o, i)}
BY EngineReads DEF TaLoad

\* So does the whole of emit_get_element.
LEMMA ReadAgrees ==
    ASSUME NEW site \in Sites, NEW o, ThingOK(o), fact # NONE => o.cls = fact, NEW i \in Int
    PROVE  emit_get_element(site, o, i) \in {Miss, EngineGetElement(o, i)}
<1>1. o \in ThingType /\ Len(o.els) \in Nat
  BY ThingFields DEF ThingOK
<1>2. CASE o.cls = "String"
  <2>1. emit_get_element(site, o, i) = emit_string_elem_arm(o, i)
    BY <1>2, Zenon DEF emit_get_element
  <2>. QED BY <1>1, <1>2, <2>1, EngineReads DEF emit_string_elem_arm
<1>3. CASE o.cls # "String" /\ ta_arm_guard(site, o)
  <2>1. emit_get_element(site, o, i) = TaLoad(o, site.pred, i)
    BY <1>3, Zenon DEF emit_get_element, emit_ta_get_arm
  <2>. QED BY <1>1, <1>3, <2>1, GuardTells, TaLoads
<1>4. CASE o.cls # "String" /\ ~ta_arm_guard(site, o)
  <2>1. emit_get_element(site, o, i) =
          IF ~Native(o) THEN Miss
          ELSE IF InBounds(i, InitLen(o)) THEN DenseLoad(o, i) ELSE OutOfDense(site, o, i)
    BY <1>4, Zenon DEF emit_get_element
  <2>2. InBounds(i, InitLen(o)) => DenseLoad(o, i) \in {Miss, EngineGetElement(o, i)}
    <3>1. SUFFICES ASSUME InBounds(i, InitLen(o)), At(o, i) # Hole
                   PROVE  At(o, i) = EngineGetElement(o, i)
      BY DEF DenseLoad
    <3>2. o.cls \in Dense /\ InBounds(i, Len(o.els))
      BY <3>1 DEF InitLen, InBounds
    <3>3. i + 1 \in 1..Len(o.els)
      BY <1>1, <3>2 DEF InBounds
    <3>4. i \notin o.own
      BY <3>1, <3>2, <3>3 DEF ThingOK, Sparse, At
    <3>. QED BY <1>1, <3>1, <3>2, <3>4, EngineReads
  <2>3. OutOfDense(site, o, i) \in {Miss, EngineGetElement(o, i)}
    <3>1. ta_get_poly(o, i) \in {Miss, EngineGetElement(o, i)}
      BY <1>1, TaLoads DEF ta_get_poly
    <3>2. ArgumentsArm(o, i) \in {Miss, EngineGetElement(o, i)}
      <4>1. SUFFICES ASSUME o.cls = "Arguments", "overridden" \notin o.flags, InBounds(i, o.len), At(o, i) # Hole
                     PROVE  At(o, i) = EngineGetElement(o, i)
        BY DEF ArgumentsArm
      <4>2. InBounds(i, Len(o.els))
        BY <4>1 DEF ThingOK
      <4>. QED BY <1>1, <4>1, <4>2, EngineReads
    <3>. QED BY <3>1, <3>2, Zenon DEF OutOfDense
  <2>. QED BY <2>1, <2>2, <2>3
<1>. QED BY <1>2, <1>3, <1>4

\* So does the inline `length`.
LEMMA LengthAgrees ==
    ASSUME NEW o, ThingOK(o), o.cls \in {"Array", "String", "Arguments"}
    PROVE  emit_length(o) \in {Miss, EngineLength(o)}
<1>1. o.len \in Nat
  BY ThingFields DEF ThingOK
<1>2. CASE o.cls = "Array"
  <2>1. emit_length(o) = (IF o.len <= IntMax THEN I32(o.len) ELSE Miss) /\ EngineLength(o) = NumberV(2 * o.len)
    BY <1>2 DEF emit_length, EngineLength
  <2>2. ASSUME o.len <= IntMax PROVE NumberV(2 * o.len) = I32(o.len)
    <3>1. (2 * o.len) % 2 = 0 /\ (2 * o.len) \div 2 = o.len
      BY <1>1, Halves
    <3>2. o.len \in IntMin..IntMax
      BY <1>1, <2>2, Powers
    <3>. QED BY <3>1, <3>2 DEF NumberV, Fits, I32
  <2>. QED BY <2>1, <2>2
<1>3. CASE o.cls # "Array"
  BY <1>3 DEF emit_length, EngineLength
<1>. QED BY <1>2, <1>3

-----------------------------------------------------------------------------
(* The inductive invariant.                                                 *)

ThingsOK == things \in [Names -> ThingType] /\ \A n \in Names : ThingOK(things[n])
ElemInv ==
    /\ ThingsOK /\ NurseryEdgesRemembered /\ slot \in Names
    /\ TaFactHolds /\ ChainInv /\ RowInv /\ wrong = {}

\* A step of the object in the slot, with its barrier.
LEMMA ThingStep ==
    ASSUME ElemInv, NEW i \in Int, NEW v, NEW e, Stepped(things[slot], i, v, e),
           things' = [things EXCEPT ![slot] = e], buffered \subseteq buffered',
           things[slot].tenured /\ v = Young /\ e # things[slot] /\ things[slot].cls \notin TaKinds => <<slot, i>> \in buffered'
    PROVE  /\ ThingsOK' /\ NurseryEdgesRemembered' /\ things'[slot].cls = things[slot].cls
<1>. DEFINE o == things[slot]
<1>1. slot \in Names /\ things \in [Names -> ThingType] /\ o \in ThingType
  BY DEF ElemInv, ThingsOK
<1>2. e \in ThingType /\ ThingOK(e) /\ e.cls = o.cls /\ e.tenured = o.tenured
  BY DEF Stepped, ThingOK
<1>3. things'[slot] = e /\ \A n \in Names : n # slot => things'[n] = things[n]
  BY <1>1
<1>4. ThingsOK'
  BY <1>1, <1>2, <1>3 DEF ThingsOK, ElemInv
<1>5. NurseryEdgesRemembered'
  <2>1. SUFFICES ASSUME NEW n \in Names, NEW j \in DOMAIN things'[n].els, things'[n].tenured, things'[n].els[j] = Young
                 PROVE  <<n, j - 1>> \in buffered'
    BY DEF NurseryEdgesRemembered
  <2>2. CASE n # slot
    BY <1>3, <2>1, <2>2 DEF ElemInv, NurseryEdgesRemembered
  <2>3. CASE n = slot
    <3>1. j \in 1..Len(e.els) /\ e.els[j] = Young /\ o.tenured /\ j \in Int
      BY <1>2, <1>3, <2>1, <2>3, ThingFields
    <3>2. CASE j \in 1..Len(o.els) /\ o.els[j] = Young
      <4>1. j \in DOMAIN o.els
        BY <1>1, <3>2, ThingFields
      <4>. QED BY <1>1, <2>3, <3>1, <3>2, <4>1 DEF ElemInv, NurseryEdgesRemembered
    <3>3. CASE j = i + 1 /\ v = Young /\ e # o /\ o.cls \notin TaKinds
      <4>1. j - 1 = i
        BY <3>3
      <4>. QED BY <2>3, <3>1, <3>3, <4>1
    <3>. QED BY <3>1, <3>2, <3>3 DEF Stepped
  <2>. QED BY <2>2, <2>3
<1>. QED BY <1>2, <1>3, <1>4, <1>5

\* A step that stores nothing.
LEMMA QuietStep ==
    ASSUME ElemInv, NEW e, Stepped(things[slot], -1, Hole, e), things' = [things EXCEPT ![slot] = e], buffered' = buffered
    PROVE  /\ ThingsOK' /\ NurseryEdgesRemembered' /\ things'[slot].cls = things[slot].cls
<1>1. -1 \in Int /\ buffered \subseteq buffered' /\ ~(Hole = Young)
  BY HoleItem
<1>. DEFINE k == -1
<1>2. k \in Int /\ Stepped(things[slot], k, Hole, e)
  BY <1>1
<1>. HIDE DEF k
<1>. QED BY <1>1, <1>2, ThingStep

\* A step that touches flags and extensibility only.
LEMMA Reflag ==
    ASSUME NEW o, ThingOK(o), NEW e \in ThingType, e.cls = o.cls, e.els = o.els, e.cap = o.cap, e.len = o.len,
           e.own = o.own, e.tenured = o.tenured, e.lit = o.lit, o.flags \subseteq e.flags,
           ~e.ext => ~o.ext \/ e.flags \cap {"frozen", "sealed", "notExtensible"} # {}
    PROVE  Stepped(o, -1, Hole, e)
<1>1. ThingOK(e)
  BY DEF ThingOK, Packing, Sparse
<1>. QED BY <1>1 DEF Stepped

\* An element read, with the fact its arm leaves behind.
LEMMA GetStep ==
    ASSUME ElemInv, NEW site \in Sites, NEW i \in Indices, get_element(site, i)
    PROVE  ElemInv'
<1>. DEFINE o == things[slot]
<1>1. ThingOK(o) /\ o \in ThingType /\ i \in Int /\ slot \in Names /\ things \in [Names -> ThingType] /\ (fact # NONE => o.cls = fact)
  BY WidthsAssumption DEF ElemInv, ThingsOK, TaFactHolds, Indices
<1>2. PICK got : /\ got = emit_get_element(site, o, i)
                 /\ Judge("get", IF got = Miss THEN EngineGetElement(o, i) ELSE got, EngineGetElement(o, i))
                 /\ fact' = IF o.cls # "String" /\ ta_arm_guard(site, o) /\ got # Miss THEN site.pred ELSE fact
                 /\ things' = IF got = Miss /\ o.cls = "String" /\ InBounds(i, Len(o.els))
                              THEN [things EXCEPT ![slot].flags = @ \cup {"linear"}] ELSE things
                 /\ UNCHANGED <<chain, appendRow, noExtra, moved, buffered, slot, elemOps>>
  BY DEF get_element
<1>3. wrong' = {}
  BY <1>1, <1>2, ReadAgrees DEF Judge, ElemInv
<1>4. ThingsOK' /\ NurseryEdgesRemembered' /\ things'[slot].cls = o.cls
  <2>1. CASE things' = things
    BY <1>2, <2>1 DEF ElemInv, ThingsOK, NurseryEdgesRemembered
  <2>2. CASE things' = [things EXCEPT ![slot].flags = @ \cup {"linear"}]
    <3>. DEFINE e == [o EXCEPT !.flags = @ \cup {"linear"}]
    <3>1. things' = [things EXCEPT ![slot] = e]
      BY <1>1, <2>2
    <3>2. e \in ThingType
      BY <1>1 DEF ThingType, Flags
    <3>3. /\ e.cls = o.cls /\ e.els = o.els /\ e.cap = o.cap /\ e.len = o.len /\ e.own = o.own /\ e.tenured = o.tenured
          /\ e.lit = o.lit /\ e.ext = o.ext /\ o.flags \subseteq e.flags
      BY <1>1 DEF ThingType
    <3>. HIDE DEF e
    <3>4. Stepped(o, -1, Hole, e)
      BY <1>1, <3>2, <3>3, Reflag
    <3>. QED BY <1>2, <3>1, <3>4, QuietStep
  <2>. QED BY <1>2, <2>1, <2>2
<1>5. TaFactHolds'
  BY <1>1, <1>2, <1>4, GuardTells DEF TaFactHolds
<1>6. ChainInv' /\ RowInv' /\ slot' \in Names
  BY <1>2 DEF ElemInv, ChainInv, RowInv, CleanWords
<1>. QED BY <1>3, <1>4, <1>5, <1>6 DEF ElemInv

\* What the program pushes may be stored.
LEMMA OneStored == Storable(I32(1)) /\ I32(1) # Hole /\ Storable(Young) /\ Young # Hole /\ I32(1) # Young
<1>1. I32(1) = Value("int32", 2)
  BY DEF I32
<1>2. 2 % 2 = 0 /\ 2 \div 2 = 1 /\ 1 \in IntMin..IntMax
  BY Powers
<1>3. IsStored(I32(1))
  BY <1>1, <1>2 DEF IsStored, IsNum, Value, Fits
<1>. QED BY <1>1, <1>3 DEF Storable, Hole, Young, Value

\* What it stores by index may be stored, and is no hole.
LEMMA StoredStorable ==
    ASSUME NEW o, NEW v \in StoredAt(o)
    PROVE  Storable(v) /\ v # Hole
<1>1. v \in StoreNumbers \/ v \in {I32(1), Young}
  BY DEF StoredAt
<1>2. v \in StoreNumbers => IsStored(v) /\ v # Hole
  BY NumbersAssumption DEF IsStored, IsNum, Hole, Value
<1>. QED BY <1>1, <1>2, OneStored DEF Storable

\* What an action that stores reads of the state.
LEMMA SlotFacts ==
    ASSUME ElemInv
    PROVE  /\ ThingOK(things[slot]) /\ things[slot] \in ThingType /\ slot \in Names /\ things \in [Names -> ThingType]
           /\ (fact # NONE => things[slot].cls = fact) /\ ChainInv /\ RowInv /\ wrong = {}
BY DEF ElemInv, ThingsOK, TaFactHolds

\* An element store, by an arm or by the helper that primes the rows.
LEMMA SetStep ==
    ASSUME ElemInv, ~StaticStores, ~things[slot].lit, NEW site \in Sites, NEW i \in Indices, NEW v \in StoredAt(things[slot]),
           NEW static \in BOOLEAN, set_element(site, i, v, static)
    PROVE  ElemInv'
<1>. DEFINE o == things[slot]
            eng == EngineSetElement(o, i, v)
<1>1. /\ ThingOK(o) /\ o \in ThingType /\ i \in Int /\ Storable(v) /\ v # Hole /\ v \in Item
      /\ (fact # NONE => o.cls = fact) /\ ChainInv /\ RowInv /\ wrong = {}
  BY SlotFacts, StoredStorable, StorableItem, WidthsAssumption DEF Indices
<1>2. fact' = fact /\ UNCHANGED <<chain, moved, slot>>
  BY DEF set_element, FactAfterStore
<1>3. Stepped(o, i, v, eng)
  BY <1>1, EngineSteps
<1>4. emit_set_element(site, o, i, v) \in {NotStored, eng}
  BY <1>1, SetAgrees
<1>5. v = Young => v.k = "young"
  BY DEF Young, Value
<1>. HIDE DEF eng
<1>6. /\ things' = [things EXCEPT ![slot] = eng] /\ wrong' = {} /\ RowInv' /\ buffered \subseteq buffered'
      /\ (o.tenured /\ v = Young /\ eng # o /\ o.cls \notin TaKinds => <<slot, i>> \in buffered')
  <2>. DEFINE got == emit_set_element(site, o, i, v)
              dense == IF HelperDense(o, i) THEN SetOrExtend(o, i, v) ELSE NotStored
  <2>1. CASE got # NotStored
    <3>1. /\ Judge("set", got, eng) /\ Put(got) /\ emit_post_write_barrier_elem(o, i, v)
          /\ UNCHANGED <<appendRow, noExtra>>
      BY <2>1 DEF set_element, eng
    <3>2. got = eng
      BY <1>4, <2>1
    <3>3. RowInv'
      BY <1>1, <1>2, <3>1 DEF RowInv, CleanWords
    <3>. HIDE DEF got
    <3>4. things' = [things EXCEPT ![slot] = eng] /\ wrong' = {}
      BY <1>1, <3>1, <3>2 DEF Judge, Put
    <3>. QED BY <1>5, <3>1, <3>3, <3>4 DEF emit_post_write_barrier_elem
  <2>2. CASE got = NotStored
    <3>1. /\ Judge("helper", OrElse(dense, eng), eng) /\ Put(OrElse(dense, eng))
          /\ noExtra' = (IF HelperDense(o, i) THEN NoteChain ELSE noExtra)
          /\ appendRow' = (IF dense # NotStored THEN PrimeAppendRow(dense) ELSE appendRow)
          /\ buffered' = IF o.tenured /\ v.k = "young" /\ o.cls \notin TaKinds /\ OrElse(dense, eng) # o
                         THEN buffered \cup {<<slot, i>>} ELSE buffered
      BY <2>2 DEF set_element, eng
    <3>2. HelperDense(o, i) => Clean /\ o.own = {} /\ o.cls \in Dense /\ SetOrExtend(o, i, v) \in {NotStored, eng}
      BY <1>1, HelperAgrees DEF eng
    <3>3. OrElse(dense, eng) = eng
      BY <3>2 DEF OrElse
    <3>4. things' = [things EXCEPT ![slot] = eng] /\ wrong' = {}
      BY <1>1, <3>1, <3>3 DEF Judge, Put
    <3>5. dense # NotStored => dense \in ThingType /\ dense.own = {} /\ dense.cls \in Dense /\ Clean
      <4>1. SUFFICES ASSUME HelperDense(o, i), SetOrExtend(o, i, v) # NotStored
                     PROVE  /\ SetOrExtend(o, i, v) \in ThingType /\ SetOrExtend(o, i, v).own = {}
                            /\ SetOrExtend(o, i, v).cls \in Dense /\ Clean
        BY Zenon
      <4>2. SetOrExtend(o, i, v) = PutAt(o, i, v) /\ i \in Nat
        BY <1>1, <4>1 DEF SetOrExtend, HelperDense
      <4>3. PutShape(o, i, v, PutAt(o, i, v))
        BY <1>1, <4>2, PutFacts
      <4>4. PutAt(o, i, v) \in ThingType /\ PutAt(o, i, v).own = o.own /\ PutAt(o, i, v).cls = o.cls
        BY <4>3 DEF PutShape
      <4>. QED BY <3>2, <4>1, <4>2, <4>4
    <3>. HIDE DEF dense
    <3>6. dense # NotStored => /\ CleanWords(PrimeAppendRow(dense).s0, PrimeAppendRow(dense).s1)
                               /\ PrimeAppendRow(dense).shape.what \in Dense /\ ~PrimeAppendRow(dense).shape.sparse
                               /\ (PrimeAppendRow(dense).isArray <=> PrimeAppendRow(dense).shape.what = "Array")
      BY <1>1, <3>5, NoteClean
    <3>7. HelperDense(o, i) => CleanWords(NoteChain.s0, NoteChain.s1)
      BY <1>1, <3>2, NoteClean
    <3>8. RowInv'
      BY <1>1, <1>2, <3>1, <3>6, <3>7 DEF RowInv, CleanWords
    <3>. QED BY <1>5, <3>1, <3>3, <3>4, <3>8
  <2>. QED BY <2>1, <2>2
<1>7. ThingsOK' /\ NurseryEdgesRemembered' /\ things'[slot].cls = o.cls
  BY <1>1, <1>3, <1>6, ThingStep
<1>8. ChainInv' /\ TaFactHolds' /\ slot' \in Names
  BY <1>1, <1>2, <1>7, SlotFacts DEF ChainInv, TaFactHolds
<1>. QED BY <1>6, <1>7, <1>8 DEF ElemInv

\* A length read.
LEMMA LengthStep ==
    ASSUME ElemInv, get_length
    PROVE  ElemInv'
<1>1. UNCHANGED <<things, buffered, chain, moved, appendRow, noExtra, slot, fact>>
  BY DEF get_length, Elems
<1>2. wrong' = {}
  BY SlotFacts, LengthAgrees DEF get_length, Judge
<1>. QED BY <1>1, <1>2 DEF ElemInv, ThingsOK, NurseryEdgesRemembered, TaFactHolds, ChainInv, RowInv, CleanWords

\* A push, by the arm or by the helper that primes the rows.
LEMMA PushStep ==
    ASSUME ElemInv, ~things[slot].lit, NEW v \in {I32(1), Young}, push(v)
    PROVE  ElemInv'
<1>. DEFINE o == things[slot]
            eng == EngineSetElement(o, o.len, v)
            quick == o.len = InitLen(o) /\ ~PushBail(o) /\ NoExtraIndexedFast(o) /\ o.len < IntMax
            got == push_arm(o, v)
<1>1. /\ ThingOK(o) /\ o \in ThingType /\ o.len \in Int /\ Storable(v) /\ v # Hole /\ v \in Item
      /\ ChainInv /\ RowInv /\ wrong = {}
  BY SlotFacts, OneStored, StorableItem, ThingFields
<1>2. fact' = fact /\ UNCHANGED <<chain, moved, slot>> /\ o.cls = "Array" /\ o.len = InitLen(o)
  BY DEF push
<1>3. Stepped(o, o.len, v, eng)
  BY <1>1, EngineSteps
<1>4. got \in {NotStored, eng}
  BY <1>1, <1>2, PushAgrees
<1>5. v = Young => v.k = "young"
  BY DEF Young, Value
<1>6. (IF o.len <= InitLen(o) THEN EngineSetElement(o, o.len, v) ELSE o) = eng
  BY <1>1, <1>2
<1>7. IF got # NotStored
      THEN Judge("push", got, eng) /\ Put(got) /\ emit_post_write_barrier_elem(o, o.len, v) /\ UNCHANGED <<appendRow, noExtra>>
      ELSE /\ Put(eng) /\ UNCHANGED wrong
           /\ noExtra' = (IF quick THEN NoteChain ELSE noExtra)
           /\ appendRow' = (IF quick THEN PrimeAppendRow(o) ELSE appendRow)
           /\ buffered' = IF o.tenured /\ v.k = "young" /\ eng # o THEN buffered \cup {<<slot, o.len>>} ELSE buffered
  BY <1>6, Zenon DEF push
<1>. HIDE DEF eng, got, quick
<1>8. things' = [things EXCEPT ![slot] = eng] /\ wrong' = {}
  BY <1>1, <1>4, <1>7 DEF Judge, Put
<1>9. buffered \subseteq buffered' /\ (o.tenured /\ v = Young /\ eng # o => <<slot, o.len>> \in buffered')
  BY <1>5, <1>7 DEF emit_post_write_barrier_elem
<1>10. RowInv'
  <2>1. quick => /\ CleanWords(NoteChain.s0, NoteChain.s1) /\ CleanWords(PrimeAppendRow(o).s0, PrimeAppendRow(o).s1)
                 /\ PrimeAppendRow(o).shape.what \in Dense /\ ~PrimeAppendRow(o).shape.sparse
                 /\ (PrimeAppendRow(o).isArray <=> PrimeAppendRow(o).shape.what = "Array")
    BY <1>1, <1>2, FastTells, NoteClean DEF quick, Dense
  <2>2. \/ appendRow' = appendRow /\ noExtra' = noExtra
        \/ quick /\ appendRow' = PrimeAppendRow(o) /\ noExtra' = NoteChain
    BY <1>7
  <2>. QED BY <1>1, <1>2, <2>1, <2>2 DEF RowInv, CleanWords
<1>11. ThingsOK' /\ NurseryEdgesRemembered' /\ things'[slot].cls = o.cls
  BY <1>1, <1>3, <1>8, <1>9, ThingStep
<1>12. ChainInv' /\ TaFactHolds' /\ slot' \in Names
  BY <1>1, <1>2, <1>11, SlotFacts DEF ChainInv, TaFactHolds
<1>. QED BY <1>8, <1>10, <1>11, <1>12 DEF ElemInv

\* A step of the object with nothing stored and the caches as they were.
LEMMA QuietInv ==
    ASSUME ElemInv, NEW e, Stepped(things[slot], -1, Hole, e), things' = [things EXCEPT ![slot] = e],
           UNCHANGED <<chain, appendRow, noExtra, moved, buffered, slot, fact>>, wrong' = {}
    PROVE  ElemInv'
<1>1. ThingsOK' /\ NurseryEdgesRemembered' /\ things'[slot].cls = things[slot].cls
  BY QuietStep
<1>2. RowInv' /\ ChainInv' /\ TaFactHolds' /\ slot' \in Names
  BY <1>1, SlotFacts DEF RowInv, CleanWords, ChainInv, TaFactHolds
<1>. QED BY <1>1, <1>2 DEF ElemInv

\* A pop.
LEMMA PopStep ==
    ASSUME ElemInv, ~things[slot].lit, pop
    PROVE  ElemInv'
<1>. DEFINE o == things[slot]
            e == EnginePop(o)
<1>1. Stepped(o, -1, Hole, e)
  BY SlotFacts, PopSteps DEF pop
<1>2. OrElse(pop_arm(o), e) = e
  BY PopAgrees DEF OrElse
<1>3. /\ Judge("pop", OrElse(pop_arm(o), e), e) /\ Put(OrElse(pop_arm(o), e))
      /\ UNCHANGED <<chain, appendRow, noExtra, moved, buffered, slot, fact>>
  BY DEF pop
<1>. HIDE DEF e
<1>4. things' = [things EXCEPT ![slot] = e] /\ wrong' = {}
  BY <1>2, <1>3, SlotFacts DEF Judge, Put
<1>. QED BY <1>1, <1>3, <1>4, QuietInv

\* One element of a literal: the new array has room for all of them, and a
\* hole makes it non-packed.
LEMMA InitStep ==
    ASSUME ElemInv, NEW v \in {I32(1), Young, Hole}, init_elem_array(v)
    PROVE  ElemInv'
<1>. DEFINE o == things[slot]
            i == InitLen(o)
            p == PutAt(o, i, v)
            eng == [p EXCEPT !.lit = i + 1 < o.len, !.flags = IF v = Hole THEN @ \cup {"nonPacked"} ELSE @]
            got == emit_init_elem_array(o, i, v)
<1>1. /\ o.lit /\ Judge("init", IF got = NotStored THEN eng ELSE [got EXCEPT !.lit = eng.lit], eng) /\ Put(eng)
      /\ buffered' = (IF got = NotStored /\ o.tenured /\ v.k = "young" THEN buffered \cup {<<slot, i>>} ELSE buffered)
      /\ UNCHANGED <<chain, appendRow, noExtra, moved, slot, fact>>
  BY DEF init_elem_array
<1>2. /\ ThingOK(o) /\ o \in ThingType /\ o.len \in Nat /\ Len(o.els) \in Nat /\ wrong = {} /\ o.cls = "Array" /\ o.own = {}
      /\ i = Len(o.els) /\ i \in Nat /\ i < o.len /\ o.flags \subseteq Flags /\ o.cap \in Nat
  BY <1>1, SlotFacts, ThingFields DEF ThingOK, InitLen, Dense
<1>3. v \in Item
  BY OneStored, StorableItem, HoleItem
<1>4. PutShape(o, i, v, p)
  BY <1>2, <1>3, PutFacts
<1>5. Longer(o, i) = o.len
  BY <1>2 DEF Longer
<1>. HIDE DEF p, i
<1>6. /\ p \in ThingType /\ p.cls = "Array" /\ p.own = {} /\ p.ext = o.ext /\ p.tenured = o.tenured
      /\ Len(p.els) = i + 1 /\ p.len = o.len /\ p.flags = o.flags /\ p.cap \in Nat /\ Len(p.els) <= p.cap
      /\ \A j \in 1..(i + 1) : p.els[j] = IF j = i + 1 THEN v ELSE o.els[j]
  <2>1. p \in ThingType /\ p.cls = "Array" /\ p.own = {} /\ p.ext = o.ext /\ p.tenured = o.tenured /\ p.len = o.len
    BY <1>2, <1>4, <1>5 DEF PutShape
  <2>2. Len(p.els) = i + 1 /\ p.flags = o.flags
    BY <1>2, <1>4 DEF PutShape
  <2>3. p.cap \in Nat /\ Len(p.els) <= p.cap
    BY <1>2, <1>4, <2>2 DEF PutShape
  <2>4. \A j \in 1..(i + 1) : p.els[j] = IF j = i + 1 THEN v ELSE o.els[j]
    BY <1>2, <1>4, <2>2 DEF PutShape
  <2>. QED BY <2>1, <2>2, <2>3, <2>4
<1>7. eng \in ThingType
  <2>. DEFINE more == i + 1 < o.len
              flags == IF v = Hole THEN p.flags \cup {"nonPacked"} ELSE p.flags
  <2>1. more \in BOOLEAN /\ flags \in SUBSET Flags
    BY <1>2, <1>6 DEF Flags
  <2>2. eng = [p EXCEPT !.lit = more, !.flags = flags]
    OBVIOUS
  <2>. HIDE DEF more, flags, eng
  <2>. QED BY <1>6, <2>1, <2>2 DEF ThingType
<1>8. /\ eng.cls = "Array" /\ eng.own = {} /\ eng.ext = o.ext /\ eng.tenured = o.tenured /\ eng.els = p.els
      /\ eng.len = o.len /\ eng.cap = p.cap
      /\ eng.flags = IF v = Hole THEN o.flags \cup {"nonPacked"} ELSE o.flags
  BY <1>6 DEF ThingType
<1>9. eng.lit <=> i + 1 < o.len
  BY <1>6 DEF ThingType
<1>10. wrong' = {}
  <2>1. got # NotStored => [got EXCEPT !.lit = eng.lit] = eng
    <3>. SUFFICES ASSUME got # NotStored
                  PROVE  [got EXCEPT !.lit = eng.lit] = eng
      OBVIOUS
    <3>1. v # Hole /\ o.cap > i /\ got = [o EXCEPT !.els = Append(@, v)]
      <4>1. v.k \notin {"magic", "young", "old"} /\ o.cap > i /\ got = [o EXCEPT !.els = Append(@, v)]
        BY DEF emit_init_elem_array
      <4>2. v = Hole => v.k = "magic"
        BY DEF Hole, Value
      <4>. QED BY <4>1, <4>2
    <3>. DEFINE len == o.len
    <3>2. got = [o EXCEPT !.els = Append(@, v), !.len = len] /\ len \in Nat
      <4>. DEFINE es == Append(o.els, v)
      <4>1. got = [o EXCEPT !.els = es] /\ len \in Nat
        BY <1>2, <3>1 DEF ThingType
      <4>. HIDE DEF es, got
      <4>2. [o EXCEPT !.els = es] = [o EXCEPT !.els = es, !.len = o.len]
        BY <1>2 DEF ThingType
      <4>. QED BY <4>1, <4>2, Zenon DEF es
    <3>. HIDE DEF len, got
    <3>3. Extended(o, v, len, got)
      <4>1. Extended(o, v, len, [o EXCEPT !.els = Append(@, v), !.len = len])
        BY <1>2, <1>3, <3>2, Extend
      <4>. QED BY <3>2, <4>1, Zenon
    <3>4. got = p
      <4>1. Extended(o, v, Longer(o, i), got)
        BY <1>5, <3>3 DEF len
      <4>. QED BY <1>2, <1>3, <3>1, <4>1, ExtendedIsPut DEF p
    <3>5. eng = [p EXCEPT !.lit = i + 1 < o.len, !.flags = p.flags]
      BY <3>1
    <3>6. eng = [p EXCEPT !.lit = eng.lit]
      BY <1>6, <3>5 DEF ThingType
    <3>. QED BY <3>4, <3>6
  <2>. QED BY <1>1, <1>2, <2>1 DEF Judge
<1>11. things' = [things EXCEPT ![slot] = eng]
  BY <1>1 DEF Put
<1>. HIDE DEF eng
<1>12. ThingOK(eng)
  <2>1. Packing(eng)
    BY <1>2, <1>6, <1>8 DEF Packing, ThingOK, Dense
  <2>2. Sparse(eng)
    BY <1>8 DEF Sparse
  <2>3. eng.cls \in Dense /\ eng.cls # "Arguments" /\ eng.cls \notin TaKinds
    BY <1>8 DEF Dense, TaKinds, ByteKinds
  <2>4. Len(eng.els) <= eng.cap /\ Len(eng.els) <= eng.len
    BY <1>2, <1>6, <1>8
  <2>5. ~eng.ext => eng.flags \cap {"frozen", "sealed", "notExtensible"} # {}
    BY <1>2, <1>8 DEF ThingOK
  <2>6. eng.lit => Len(eng.els) < eng.len
    BY <1>6, <1>8, <1>9
  <2>. QED BY <1>7, <1>8, <2>1, <2>2, <2>3, <2>4, <2>5, <2>6 DEF ThingOK
<1>13. eng # o
  <2>1. Len(eng.els) # Len(o.els)
    BY <1>2, <1>6, <1>8
  <2>. QED BY <2>1
<1>14. Stepped(o, i, v, eng)
  <2>1. o.cls \notin TaKinds
    BY <1>2 DEF TaKinds, ByteKinds
  <2>2. \A j \in 1..Len(eng.els) : eng.els[j] = Young => (j \in 1..Len(o.els) /\ o.els[j] = Young) \/ (j = i + 1 /\ v = Young)
    BY <1>2, <1>6, <1>8
  <2>. QED BY <1>2, <1>8, <1>12, <1>13, <2>1, <2>2 DEF Stepped
<1>15. buffered \subseteq buffered' /\ (o.tenured /\ v = Young /\ eng # o /\ o.cls \notin TaKinds => <<slot, i>> \in buffered')
  <2>1. v = Young => v.k = "young"
    BY DEF Young, Value
  <2>2. v = Young => got = NotStored
    BY <2>1 DEF emit_init_elem_array
  <2>. HIDE DEF got
  <2>. QED BY <1>1, <2>1, <2>2
<1>16. ThingsOK' /\ NurseryEdgesRemembered' /\ things'[slot].cls = o.cls
  <2>1. i \in Int
    BY <1>2
  <2>. QED BY <1>11, <1>14, <1>15, <2>1, ThingStep
<1>17. RowInv' /\ ChainInv' /\ TaFactHolds' /\ slot' \in Names
  BY <1>1, <1>16, SlotFacts DEF RowInv, CleanWords, ChainInv, TaFactHolds
<1>. QED BY <1>10, <1>16, <1>17 DEF ElemInv

\* A new object.
\* A fresh object: its fields, no flag, no sparse index, in the nursery.
Made(t, cls, els, cap, len) ==
    /\ t \in ThingType /\ t.cls = cls /\ t.els = els /\ t.cap = cap /\ t.len = len /\ t.flags = {} /\ t.own = {}
    /\ t.ext = TRUE /\ t.tenured = FALSE /\ t.lit = FALSE

\* Thing makes one.
LEMMA ThingMade ==
    ASSUME NEW cls \in Classes, NEW els \in Seq(Item), NEW cap \in Nat, NEW len \in Nat
    PROVE  Made(Thing(cls, els, cap, len), cls, els, cap, len)
<1>1. {} \in SUBSET Flags /\ {} \in SUBSET Int
  OBVIOUS
<1>. QED BY <1>1 DEF Thing, ThingType, Made

\* A literal: the edges of the object it replaces leave the buffer.
LEMMA NewArrayStep ==
    ASSUME ElemInv, NewArray
    PROVE  ElemInv'
<1>. DEFINE t == Thing("Array", <<>>, 1, 2)
            e == [t EXCEPT !.lit = TRUE]
<1>1. /\ things' = [things EXCEPT ![slot] = e] /\ buffered' = {x \in buffered : x[1] # slot}
      /\ fact' = NONE /\ UNCHANGED <<chain, appendRow, noExtra, moved, slot, wrong>>
  BY DEF NewArray, Put
<1>2. /\ e.cls = "Array" /\ e.els = <<>> /\ e.cap = 1 /\ e.len = 2 /\ e.own = {} /\ e.ext = TRUE /\ e.lit = TRUE
      /\ e.flags = {}
  BY DEF Thing
<1>3. e \in ThingType
  <2>1. "Array" \in Classes /\ <<>> \in Seq(Item) /\ 1 \in Nat /\ 2 \in Nat
    BY DEF Classes, Dense
  <2>2. t \in ThingType
    <3>1. Made(t, "Array", <<>>, 1, 2)
      BY <2>1, ThingMade
    <3>. QED BY <3>1, Zenon DEF Made
  <2>. HIDE DEF t
  <2>. QED BY <2>2 DEF ThingType
<1>. HIDE DEF e
<1>4. Len(e.els) = 0 /\ 1..Len(e.els) = {} /\ DOMAIN e.els = {}
  BY <1>2
<1>5. ThingOK(e)
  BY <1>2, <1>3, <1>4 DEF ThingOK, Packing, Sparse, TaKinds, ByteKinds
<1>6. slot \in Names /\ things'[slot] = e /\ (\A n \in Names : n # slot => things'[n] = things[n]) /\ things' \in [Names -> ThingType]
  BY <1>1, <1>3, SlotFacts
<1>7. ThingsOK'
  BY <1>5, <1>6 DEF ThingsOK, ElemInv
<1>8. NurseryEdgesRemembered'
  <2>1. SUFFICES ASSUME NEW n \in Names, NEW j \in DOMAIN things'[n].els, things'[n].tenured, things'[n].els[j] = Young
                 PROVE  <<n, j - 1>> \in buffered'
    BY DEF NurseryEdgesRemembered
  <2>2. n # slot
    BY <1>4, <1>6, <2>1
  <2>3. <<n, j - 1>> \in buffered
    BY <1>6, <2>1, <2>2 DEF ElemInv, NurseryEdgesRemembered
  <2>4. <<n, j - 1>>[1] = n
    OBVIOUS
  <2>. QED BY <1>1, <2>2, <2>3, <2>4
<1>9. RowInv' /\ ChainInv' /\ TaFactHolds' /\ slot' \in Names /\ wrong' = {}
  BY <1>1, SlotFacts DEF RowInv, CleanWords, ChainInv, TaFactHolds
<1>. QED BY <1>7, <1>8, <1>9 DEF ElemInv

\* An assignment to the variable forgets the kind proven of its object.
LEMMA AssignStep ==
    ASSUME ElemInv, NEW n \in Names, Assign(n)
    PROVE  ElemInv'
<1>1. UNCHANGED <<things, buffered, chain, moved, appendRow, noExtra, wrong>> /\ slot' = n /\ fact' = NONE
  BY DEF Assign, Elems
<1>. QED BY <1>1 DEF ElemInv, ThingsOK, NurseryEdgesRemembered, TaFactHolds, ChainInv, RowInv, CleanWords

\* Freezing, sealing, preventing extensions, fixing the length.
LEMMA FastenStep ==
    ASSUME ElemInv, NEW how \in {"frozen", "sealed", "notExtensible", "lengthReadonly"}, Fasten(how)
    PROVE  ElemInv'
<1>. DEFINE o == things[slot]
            x == o.ext /\ how = "lengthReadonly"
            e == [o EXCEPT !.flags = @ \cup {how}, !.ext = x]
<1>1. /\ ThingOK(o) /\ o \in ThingType /\ wrong = {} /\ o.flags \subseteq Flags /\ o.ext \in BOOLEAN
  BY SlotFacts, ThingFields
<1>2. things' = [things EXCEPT ![slot] = e] /\ UNCHANGED <<chain, appendRow, noExtra, moved, buffered, slot, fact, wrong>>
  BY DEF Fasten, Put, Changes
<1>3. x \in BOOLEAN /\ (~x => ~o.ext \/ how \in {"frozen", "sealed", "notExtensible"})
  BY <1>1
<1>. HIDE DEF x
<1>4. e \in ThingType
  BY <1>1, <1>3 DEF ThingType, Flags
<1>5. /\ e.cls = o.cls /\ e.els = o.els /\ e.cap = o.cap /\ e.len = o.len /\ e.own = o.own /\ e.tenured = o.tenured
      /\ e.lit = o.lit /\ e.flags = o.flags \cup {how}
  BY <1>1 DEF ThingType
<1>6. e.ext = x
  BY <1>1 DEF ThingType
<1>. HIDE DEF e
<1>7. Stepped(o, -1, Hole, e)
  <2>1. ~e.ext => ~o.ext \/ e.flags \cap {"frozen", "sealed", "notExtensible"} # {}
    BY <1>3, <1>5, <1>6
  <2>2. o.flags \subseteq e.flags
    BY <1>5
  <2>. QED BY <1>1, <1>4, <1>5, <2>1, <2>2, Reflag
<1>. QED BY <1>1, <1>2, <1>7, QuietInv

\* An arguments object overridden.
LEMMA OverrideStep ==
    ASSUME ElemInv, NEW how \in {"overridden", "lengthOverridden"}, Override(how)
    PROVE  ElemInv'
<1>. DEFINE o == things[slot]
            e == [o EXCEPT !.flags = @ \cup {how}]
<1>1. ThingOK(o) /\ o \in ThingType /\ wrong = {}
  BY SlotFacts
<1>2. things' = [things EXCEPT ![slot] = e] /\ UNCHANGED <<chain, appendRow, noExtra, moved, buffered, slot, fact, wrong>>
  BY DEF Override, Put, Changes
<1>3. e \in ThingType
  BY <1>1 DEF ThingType, Flags
<1>4. /\ e.cls = o.cls /\ e.els = o.els /\ e.cap = o.cap /\ e.len = o.len /\ e.own = o.own /\ e.tenured = o.tenured
      /\ e.lit = o.lit /\ e.ext = o.ext /\ o.flags \subseteq e.flags
  BY <1>1 DEF ThingType
<1>. HIDE DEF e
<1>5. Stepped(o, -1, Hole, e)
  BY <1>1, <1>3, <1>4, Reflag
<1>. QED BY <1>1, <1>2, <1>5, QuietInv

\* A step that shortens the elements, makes holes, names sparse indices
\* past the elements, or sets the length.
LEMMA Reshape ==
    ASSUME NEW o, ThingOK(o), ~o.lit, NEW e \in ThingType, e.cls = o.cls, e.cap = o.cap, e.ext = o.ext, e.tenured = o.tenured,
           e.lit = o.lit, o.flags \subseteq e.flags, Len(e.els) <= Len(o.els), o.cls # "Arguments",
           \A j \in 1..Len(e.els) : e.els[j] = o.els[j] \/ (o.cls \in Dense /\ e.els[j] = Hole /\ "nonPacked" \in e.flags),
           o.cls \in Dense => \A k \in e.own : k \in o.own \/ k >= Len(e.els),
           o.cls = "Array" => Len(e.els) <= e.len
    PROVE  Stepped(o, -1, Hole, e)
<1>1. Len(e.els) \in Nat /\ Len(o.els) \in Nat /\ o \in ThingType /\ e.own \subseteq Int /\ o.cap \in Nat
  BY ThingFields DEF ThingOK
<1>2. \A j \in 1..Len(e.els) : j \in 1..Len(o.els)
  BY <1>1
<1>3. o.cls \in Dense => Packing(e)
  BY <1>2 DEF Packing, ThingOK
<1>4. o.cls \in Dense => Sparse(e)
  <2>1. SUFFICES ASSUME o.cls \in Dense, NEW k \in e.own, k + 1 \in 1..Len(e.els) PROVE e.els[k + 1] = Hole
    BY DEF Sparse
  <2>2. k \in Int /\ ~(k >= Len(e.els))
    BY <1>1, <2>1
  <2>3. k \in o.own /\ k + 1 \in 1..Len(o.els)
    BY <1>2, <2>1, <2>2
  <2>4. o.els[k + 1] = Hole
    BY <2>1, <2>3 DEF ThingOK, Sparse
  <2>. QED BY <2>1, <2>4
<1>5. o.cls \in TaKinds => \A j \in 1..Len(e.els) : e.els[j].k # "young"
  <2>1. o.cls \in TaKinds => o.cls \notin Dense
    BY DEF TaKinds, ByteKinds, Dense
  <2>. QED BY <1>2, <2>1 DEF ThingOK
<1>6. o.cls \in Dense => Len(e.els) <= e.cap
  BY <1>1 DEF ThingOK
<1>7. ThingOK(e)
  BY <1>3, <1>4, <1>5, <1>6 DEF ThingOK
<1>8. \A j \in 1..Len(e.els) : e.els[j] = Young => j \in 1..Len(o.els) /\ o.els[j] = Young
  BY <1>2, HoleItem
<1>. QED BY <1>7, <1>8 DEF Stepped

\* A deleted element is a hole of an object flagged non-packed.
LEMMA DeleteStep ==
    ASSUME ElemInv, NEW i \in Indices, Delete(i)
    PROVE  ElemInv'
<1>. DEFINE o == things[slot]
            r == [o EXCEPT !.els[i + 1] = Hole]
            e == [r EXCEPT !.flags = @ \cup {"nonPacked"}]
<1>1. ThingOK(o) /\ o \in ThingType /\ wrong = {} /\ i \in Int
  BY SlotFacts, WidthsAssumption DEF Indices
<1>2. /\ things' = [things EXCEPT ![slot] = [o EXCEPT !.els[i + 1] = Hole, !.flags = @ \cup {"nonPacked"}]]
      /\ UNCHANGED <<chain, appendRow, noExtra, moved, buffered, slot, fact, wrong>>
      /\ ~o.lit /\ o.cls \in Dense /\ InBounds(i, Len(o.els))
  BY DEF Delete, Put, Changes
<1>3. things' = [things EXCEPT ![slot] = e]
  <2>1. [o EXCEPT !.els[i + 1] = Hole, !.flags = @ \cup {"nonPacked"}] = e
    BY <1>1 DEF ThingType
  <2>. QED BY <1>2, <2>1
<1>4. Replaced(o, i, Hole, r)
  BY <1>1, <1>2, Replace, HoleItem
<1>. HIDE DEF r
<1>5. r \in ThingType
  BY <1>4 DEF Replaced
<1>6. e \in ThingType /\ e.flags = r.flags \cup {"nonPacked"}
  BY <1>5 DEF ThingType, Flags
<1>7. /\ e.cls = r.cls /\ e.els = r.els /\ e.cap = r.cap /\ e.len = r.len /\ e.own = r.own /\ e.tenured = r.tenured
      /\ e.lit = r.lit /\ e.ext = r.ext
  BY <1>5 DEF ThingType
<1>. HIDE DEF e
<1>8. Stepped(o, -1, Hole, e)
  <2>1. /\ e.cls = o.cls /\ e.cap = o.cap /\ e.ext = o.ext /\ e.tenured = o.tenured /\ e.lit = o.lit
        /\ o.flags \subseteq e.flags /\ "nonPacked" \in e.flags /\ e.own = o.own /\ e.len = o.len
    BY <1>4, <1>6, <1>7 DEF Replaced
  <2>2. Len(e.els) = Len(o.els) /\ \A j \in 1..Len(e.els) : e.els[j] = o.els[j] \/ e.els[j] = Hole
    BY <1>4, <1>7 DEF Replaced
  <2>3. o.cls # "Arguments"
    BY <1>2 DEF Dense
  <2>4. Len(o.els) <= Len(o.els) /\ (o.cls = "Array" => Len(o.els) <= o.len)
    BY <1>1, ThingFields DEF ThingOK
  <2>. QED BY <1>1, <1>2, <1>6, <2>1, <2>2, <2>3, <2>4, Reshape
<1>. QED BY <1>1, <1>2, <1>3, <1>8, QuietInv

\* An assignment to an array's length cuts the elements.
LEMMA SetLengthStep ==
    ASSUME ElemInv, NEW n \in {0, 1, IntMax + 1}, SetLength(n)
    PROVE  ElemInv'
<1>. DEFINE o == things[slot]
            els == IF n < Len(o.els) THEN SubSeq(o.els, 1, n) ELSE o.els
            e == [o EXCEPT !.len = n, !.els = els]
<1>1. ThingOK(o) /\ o \in ThingType /\ wrong = {} /\ n \in Nat /\ o.els \in Seq(Item) /\ Len(o.els) \in Nat
  BY SlotFacts, Powers, ThingFields
<1>2. /\ things' = [things EXCEPT ![slot] = e] /\ UNCHANGED <<chain, appendRow, noExtra, moved, buffered, slot, fact, wrong>>
      /\ ~o.lit /\ o.cls = "Array"
  BY DEF SetLength, Put, Changes
<1>3. els \in Seq(Item) /\ Len(els) <= n /\ Len(els) <= Len(o.els) /\ \A j \in 1..Len(els) : els[j] = o.els[j]
  BY <1>1, SubSeqFacts
<1>. HIDE DEF els
<1>4. e \in ThingType
  BY <1>1, <1>3 DEF ThingType
<1>5. /\ e.cls = o.cls /\ e.els = els /\ e.cap = o.cap /\ e.len = n /\ e.own = o.own /\ e.tenured = o.tenured
      /\ e.lit = o.lit /\ e.ext = o.ext /\ e.flags = o.flags
  BY <1>1 DEF ThingType
<1>. HIDE DEF e
<1>6. Stepped(o, -1, Hole, e)
  BY <1>1, <1>2, <1>3, <1>4, <1>5, Reshape
<1>. QED BY <1>1, <1>2, <1>6, QuietInv

\* A sparse index lies beyond the elements.
LEMMA DefineStep ==
    ASSUME ElemInv, NEW i \in Indices, DefineSparse(i)
    PROVE  ElemInv'
<1>. DEFINE o == things[slot]
            len == Longer(o, i)
            own == o.own \cup {i}
            e == [o EXCEPT !.own = own, !.len = len]
<1>1. /\ ThingOK(o) /\ o \in ThingType /\ wrong = {} /\ i \in Int /\ o.els \in Seq(Item) /\ Len(o.els) \in Nat
      /\ o.len \in Nat /\ o.own \subseteq Int
  BY SlotFacts, ThingFields, WidthsAssumption DEF Indices
<1>2. /\ things' = [things EXCEPT ![slot] = e] /\ UNCHANGED <<chain, appendRow, noExtra, moved, buffered, slot, fact, wrong>>
      /\ ~o.lit /\ o.cls \in Dense /\ i \in Len(o.els)..(MaxEls - 1)
  BY DEF DefineSparse, Put, Changes
<1>3. len \in Nat /\ len >= o.len /\ i >= Len(o.els) /\ own \in SUBSET Int
  BY <1>1, <1>2, WidthsAssumption DEF Longer
<1>. HIDE DEF len
<1>4. e \in ThingType
  BY <1>1, <1>3 DEF ThingType
<1>5. /\ e.cls = o.cls /\ e.els = o.els /\ e.cap = o.cap /\ e.len = len /\ e.own = own /\ e.tenured = o.tenured
      /\ e.lit = o.lit /\ e.ext = o.ext /\ e.flags = o.flags
  BY <1>1 DEF ThingType
<1>. HIDE DEF e
<1>6. Stepped(o, -1, Hole, e)
  <2>1. Len(e.els) <= Len(o.els) /\ (\A k \in e.own : k \in o.own \/ k >= Len(e.els)) /\ o.cls # "Arguments"
    BY <1>1, <1>2, <1>3, <1>5 DEF Dense
  <2>2. o.cls = "Array" => Len(e.els) <= e.len
    BY <1>1, <1>3, <1>5 DEF ThingOK
  <2>. QED BY <1>1, <1>2, <1>4, <1>5, <2>1, <2>2, Reshape
<1>. QED BY <1>1, <1>2, <1>6, QuietInv

\* A detached typed array has no element.
LEMMA DetachStep ==
    ASSUME ElemInv, Detach
    PROVE  ElemInv'
<1>. DEFINE o == things[slot]
            e == [o EXCEPT !.els = <<>>]
<1>1. ThingOK(o) /\ o \in ThingType /\ wrong = {} /\ Len(o.els) \in Nat /\ <<>> \in Seq(Item) /\ Len(<<>>) = 0
  BY SlotFacts, ThingFields
<1>2. /\ things' = [things EXCEPT ![slot] = e] /\ UNCHANGED <<chain, appendRow, noExtra, moved, buffered, slot, fact, wrong>>
      /\ ~o.lit /\ o.cls \in TaKinds
  BY DEF Detach, Put, Changes
<1>3. e \in ThingType
  BY <1>1 DEF ThingType
<1>4. /\ e.cls = o.cls /\ e.els = <<>> /\ e.cap = o.cap /\ e.len = o.len /\ e.own = o.own /\ e.tenured = o.tenured
      /\ e.lit = o.lit /\ e.ext = o.ext /\ e.flags = o.flags
  BY <1>1 DEF ThingType
<1>. HIDE DEF e
<1>5. Stepped(o, -1, Hole, e)
  <2>1. o.cls \notin Dense /\ o.cls # "Arguments" /\ o.cls # "Array"
    BY <1>2 DEF TaKinds, ByteKinds, Dense
  <2>2. Len(e.els) = 0 /\ Len(e.els) <= Len(o.els) /\ 1..Len(e.els) = {}
    BY <1>1, <1>4
  <2>. QED BY <1>1, <1>2, <1>3, <1>4, <2>1, <2>2, Reshape
<1>. QED BY <1>1, <1>2, <1>5, QuietInv

\* A prototype that gains an index or is frozen changes its word: the rows
\* keep the old words and no longer match.
LEMMA ProtoStep ==
    ASSUME ElemInv, NEW p \in {1, 2}, NEW q \in ProtoStates, ChangeProto(p, q)
    PROVE  ElemInv'
<1>1. /\ chain' = [chain EXCEPT ![p] = q]
      /\ UNCHANGED <<things, appendRow, noExtra, moved, buffered, slot, fact, wrong>>
  BY DEF ChangeProto, Changes
<1>2. q \in ProtoType /\ (q.frozen => q.dense)
  <2>1. {1} \in SUBSET Int /\ {} \in SUBSET Int
    OBVIOUS
  <2>2. CASE q = [sparse |-> {1}, dense |-> FALSE, frozen |-> FALSE]
    BY <2>1, <2>2 DEF ProtoType
  <2>3. CASE q = [sparse |-> {}, dense |-> TRUE, frozen |-> FALSE]
    BY <2>1, <2>3 DEF ProtoType
  <2>4. CASE q = [sparse |-> {}, dense |-> TRUE, frozen |-> TRUE]
    BY <2>1, <2>4 DEF ProtoType
  <2>. QED BY <2>2, <2>3, <2>4 DEF ProtoStates
<1>3. ChainInv'
  BY <1>1, <1>2 DEF ElemInv, ChainInv
<1>. QED BY <1>1, <1>3 DEF ElemInv, ThingsOK, NurseryEdgesRemembered, TaFactHolds, RowInv, CleanWords

\* A compacting collection gives shapes other addresses and clears the rows.
LEMMA MajorStep ==
    ASSUME ElemInv, MajorGC
    PROVE  ElemInv'
<1>1. /\ moved' = ~moved /\ appendRow' = NoRow /\ noExtra' = NoRow
      /\ UNCHANGED <<things, chain, buffered, slot, fact, wrong>>
  BY DEF MajorGC
<1>2. ChainInv'
  BY <1>1 DEF ElemInv, ChainInv
<1>3. RowInv'
  BY <1>1 DEF RowInv
<1>. QED BY <1>1, <1>2, <1>3 DEF ElemInv, ThingsOK, NurseryEdgesRemembered, TaFactHolds

\* A minor collection: every edge into the nursery is known, so none is left.
LEMMA MinorStep ==
    ASSUME ElemInv, MinorGC
    PROVE  ElemInv'
<1>. DEFINE Kept(n, v, i) == IF v = Young /\ (~things[n].tenured \/ <<n, i - 1>> \in buffered) THEN Old ELSE v
            Els(n) == [i \in DOMAIN things[n].els |-> Kept(n, things[n].els[i], i)]
            New(n) == [things[n] EXCEPT !.tenured = TRUE, !.els = Els(n)]
<1>1. /\ things' = [n \in Names |-> New(n)] /\ buffered' = {}
      /\ UNCHANGED <<chain, appendRow, noExtra, moved, slot, fact, wrong>>
  BY DEF MinorGC
<1>2. ASSUME NEW n \in Names
      PROVE  /\ ThingOK(New(n)) /\ New(n) \in ThingType /\ New(n).cls = things[n].cls
             /\ DOMAIN New(n).els = DOMAIN things[n].els /\ \A j \in DOMAIN things[n].els : New(n).els[j] # Young
  <2>. DEFINE o == things[n]
              els == Els(n)
              e == New(n)
  <2>1. ThingOK(o) /\ o \in ThingType /\ o.els \in Seq(Item) /\ Len(o.els) \in Nat /\ DOMAIN o.els = 1..Len(o.els)
    BY <1>2, ThingFields DEF ElemInv, ThingsOK
  <2>2. \A j \in 1..Len(o.els) : els[j] = IF o.els[j] = Young THEN Old ELSE o.els[j]
    <3>1. \A j \in 1..Len(o.els) : o.els[j] = Young => ~o.tenured \/ <<n, j - 1>> \in buffered
      BY <1>2, <2>1 DEF ElemInv, NurseryEdgesRemembered
    <3>2. \A j \in 1..Len(o.els) : els[j] = Kept(n, o.els[j], j)
      BY <2>1
    <3>. HIDE DEF els
    <3>. QED BY <3>1, <3>2
  <2>3. Old \in Item /\ Old # Young /\ Old # Hole /\ Young # Hole /\ Old.k # "young" /\ Young.k = "young"
    BY DEF Old, Young, Hole, Value, Item
  <2>4. els \in Seq(Item) /\ Len(els) = Len(o.els) /\ DOMAIN els = 1..Len(o.els)
    <3>1. DOMAIN els = 1..Len(o.els)
      BY <2>1
    <3>2. \A j \in 1..Len(o.els) : els[j] \in Item
      BY <2>1, <2>2, <2>3
    <3>3. els = [j \in 1..Len(o.els) |-> els[j]]
      BY <2>1
    <3>. HIDE DEF els
    <3>4. els \in [1..Len(o.els) -> Item]
      BY <3>1, <3>2, <3>3
    <3>. QED BY <2>1, <3>1, <3>4
  <2>5. e = [o EXCEPT !.tenured = TRUE, !.els = els]
    OBVIOUS
  <2>. HIDE DEF els, e
  <2>6. e \in ThingType
    BY <2>1, <2>4, <2>5 DEF ThingType
  <2>7. /\ e.cls = o.cls /\ e.els = els /\ e.cap = o.cap /\ e.len = o.len /\ e.own = o.own /\ e.tenured = TRUE
        /\ e.lit = o.lit /\ e.ext = o.ext /\ e.flags = o.flags
    BY <2>1, <2>5 DEF ThingType
  <2>8. \A j \in 1..Len(o.els) : /\ els[j] # Young /\ (els[j] = Hole <=> o.els[j] = Hole)
                                 /\ (o.els[j].k # "young" => els[j].k # "young")
    BY <2>2, <2>3
  <2>9. o.cls \in Dense => Packing(e) /\ Sparse(e)
    BY <2>1, <2>4, <2>7, <2>8 DEF ThingOK, Packing, Sparse
  <2>10. ThingOK(e)
    BY <2>1, <2>4, <2>6, <2>7, <2>8, <2>9 DEF ThingOK
  <2>. QED BY <2>1, <2>4, <2>6, <2>7, <2>8, <2>10 DEF e
<1>. HIDE DEF New
<1>3. ThingsOK'
  BY <1>1, <1>2 DEF ThingsOK
<1>4. NurseryEdgesRemembered'
  BY <1>1, <1>2 DEF NurseryEdgesRemembered
<1>5. TaFactHolds'
  BY <1>1, <1>2, SlotFacts DEF TaFactHolds
<1>. QED BY <1>1, <1>3, <1>4, <1>5 DEF ElemInv, ChainInv, RowInv, CleanWords

\* The elements and the length an object of the class starts with.
StartsDense(c, es) == c \in Dense => Len(es) = 1 /\ es[1] # Hole
StartsTyped(c, es) == c \in TaKinds => Len(es) = 1 /\ es[1].k # "young"
StartsCounted(c, es, n) ==
    (c = "Array" => n = 1 /\ Len(es) = 1) /\ (c = "Arguments" => n = 2 /\ Len(es) = 2)

\* An object made with packed elements that point nowhere is well formed.
LEMMA StartShape ==
    ASSUME NEW c \in Classes, NEW es \in Seq(Item), NEW n \in Nat, NEW fl \in SUBSET Flags,
           StartsDense(c, es), StartsTyped(c, es), StartsCounted(c, es, n)
    PROVE  /\ ThingOK([Thing(c, es, 2, n) EXCEPT !.flags = fl])
           /\ ~[Thing(c, es, 2, n) EXCEPT !.flags = fl].tenured
<1>. DEFINE t == Thing(c, es, 2, n)
            o == [t EXCEPT !.flags = fl]
<1>1. /\ t \in ThingType /\ t.cls = c /\ t.els = es /\ t.cap = 2 /\ t.len = n /\ t.own = {}
      /\ t.ext = TRUE /\ t.tenured = FALSE /\ t.lit = FALSE
  <2>1. 2 \in Nat
    OBVIOUS
  <2>2. Made(t, c, es, 2, n)
    BY <2>1, ThingMade, Zenon
  <2>. QED BY <2>2, Zenon DEF Made
<1>2. o = [t EXCEPT !.flags = fl]
  OBVIOUS
<1>. HIDE DEF t, o
<1>3. o \in ThingType
  BY <1>1, <1>2 DEF ThingType
<1>4. /\ o.cls = c /\ o.els = es /\ o.cap = 2 /\ o.len = n /\ o.own = {} /\ o.ext = TRUE /\ o.tenured = FALSE /\ o.lit = FALSE
  BY <1>1, <1>2 DEF ThingType
<1>5. c \in Dense => Len(o.els) <= 2 /\ Packing(o) /\ Sparse(o)
  <2>1. StartsDense(c, o.els) /\ o.own = {}
    BY <1>4, Zenon
  <2>2. ASSUME c \in Dense PROVE Len(o.els) <= 2 /\ 1..Len(o.els) = {1} /\ o.els[1] # Hole
    <3>1. Len(o.els) = 1 /\ o.els[1] # Hole
      BY <2>1, <2>2, Zenon DEF StartsDense
    <3>. QED BY <3>1
  <2>. QED BY <2>1, <2>2 DEF Packing, Sparse
<1>6. (c = "Array" => Len(o.els) <= o.len) /\ (c = "Arguments" => o.len = Len(o.els))
  <2>1. StartsCounted(c, o.els, o.len)
    BY <1>4, Zenon
  <2>2. ASSUME c = "Array" PROVE Len(o.els) <= o.len
    <3>1. Len(o.els) = 1 /\ o.len = 1
      BY <2>1, <2>2, Zenon DEF StartsCounted
    <3>. QED BY <3>1
  <2>3. ASSUME c = "Arguments" PROVE o.len = Len(o.els)
    <3>1. Len(o.els) = 2 /\ o.len = 2
      BY <2>1, <2>3, Zenon DEF StartsCounted
    <3>. QED BY <3>1
  <2>. QED BY <2>2, <2>3
<1>7. c \in TaKinds => \A j \in 1..Len(o.els) : o.els[j].k # "young"
  BY <1>4 DEF StartsTyped
<1>8. ThingOK(o) /\ ~o.tenured
  BY <1>3, <1>4, <1>5, <1>6, <1>7 DEF ThingOK
<1>. QED BY <1>8 DEF o, t

\* The two objects a run starts with are well formed.
LEMMA StartOK ==
    ASSUME NEW c \in Classes, NEW fl \in StartFlags(c)
    PROVE  ThingOK(Start(c, fl)) /\ ~Start(c, fl).tenured
<1>1. I32(1) \in Item /\ I32(0) \in Item /\ Hole \in Item /\ I32(1) # Hole
      /\ I32(1).k # "young" /\ I32(0).k # "young"
  BY DEF I32, Value, Item, Hole
<1>2. fl \in SUBSET Flags
  BY DEF StartFlags, Flags
<1>3. /\ <<I32(1)>> \in Seq(Item) /\ Len(<<I32(1)>>) = 1 /\ <<I32(1)>>[1] = I32(1)
      /\ <<I32(0)>> \in Seq(Item) /\ Len(<<I32(0)>>) = 1 /\ <<I32(0)>>[1] = I32(0)
      /\ <<I32(1), Hole>> \in Seq(Item) /\ Len(<<I32(1), Hole>>) = 2
      /\ <<>> \in Seq(Item)
  BY <1>1
<1>. DEFINE es == CASE c \in Dense -> <<I32(1)>>
                     [] c \in TaKinds -> <<I32(0)>>
                     [] c = "Arguments" -> <<I32(1), Hole>>
                     [] c = "String" -> <<I32(1)>>
                     [] OTHER -> <<>>
            n == CASE c = "Array" -> 1 [] c = "Arguments" -> 2 [] OTHER -> 0
            Fit == es \in Seq(Item) /\ n \in Nat /\ StartsDense(c, es) /\ StartsTyped(c, es) /\ StartsCounted(c, es, n)
<1>4. Start(c, fl) = [Thing(c, es, 2, n) EXCEPT !.flags = fl]
  BY Zenon DEF Start
<1>5. ASSUME c \in Dense PROVE Fit
  <2>1. c \notin TaKinds /\ c # "Arguments" /\ es = <<I32(1)>>
    BY <1>5 DEF Dense, TaKinds, ByteKinds
  <2>2. n \in Nat /\ (c = "Array" => n = 1)
    OBVIOUS
  <2>. HIDE DEF es, n
  <2>3. Len(es) = 1 /\ es[1] # Hole /\ es \in Seq(Item)
    BY <1>1, <1>3, <2>1, Zenon
  <2>4. Fit
    BY <2>1, <2>2, <2>3, Zenon DEF StartsDense, StartsTyped, StartsCounted
  <2>. QED BY <2>4
<1>6. ASSUME c \in TaKinds PROVE Fit
  <2>1. c \notin Dense /\ c # "Arguments" /\ c # "Array" /\ es = <<I32(0)>>
    BY <1>6 DEF Dense, TaKinds, ByteKinds
  <2>2. n \in Nat
    OBVIOUS
  <2>. HIDE DEF es, n
  <2>3. Len(es) = 1 /\ es[1].k # "young" /\ es \in Seq(Item)
    BY <1>1, <1>3, <2>1, Zenon
  <2>4. Fit
    BY <2>1, <2>2, <2>3, Zenon DEF StartsDense, StartsTyped, StartsCounted
  <2>. QED BY <2>4
<1>7. ASSUME c = "Arguments" PROVE Fit
  <2>1. c \notin Dense /\ c \notin TaKinds /\ c # "Array" /\ es = <<I32(1), Hole>>
    BY <1>7 DEF Dense, TaKinds, ByteKinds
  <2>2. n \in Nat /\ n = 2
    BY <1>7
  <2>. HIDE DEF es, n
  <2>3. Len(es) = 2 /\ es \in Seq(Item)
    BY <1>3, <2>1, Zenon
  <2>4. Fit
    BY <2>1, <2>2, <2>3, Zenon DEF StartsDense, StartsTyped, StartsCounted
  <2>. QED BY <2>4
<1>8. ASSUME c \in {"String", "Proxy"} PROVE Fit
  <2>1. c \notin Dense /\ c \notin TaKinds /\ c # "Array" /\ c # "Arguments" /\ (es = <<I32(1)>> \/ es = <<>>)
    BY <1>8 DEF Dense, TaKinds, ByteKinds
  <2>2. n \in Nat
    OBVIOUS
  <2>. HIDE DEF es, n
  <2>3. es \in Seq(Item)
    BY <1>3, <2>1, Zenon
  <2>4. Fit
    BY <2>1, <2>2, <2>3, Zenon DEF StartsDense, StartsTyped, StartsCounted
  <2>. QED BY <2>4
<1>9. Fit
  BY <1>5, <1>6, <1>7, <1>8, Zenon DEF Classes
<1>. HIDE DEF es, n
<1>10. /\ ThingOK([Thing(c, es, 2, n) EXCEPT !.flags = fl])
       /\ ~[Thing(c, es, 2, n) EXCEPT !.flags = fl].tenured
  BY <1>2, <1>9, StartShape
<1>. QED BY <1>4, <1>10, Zenon

\* The invariant holds at the start.
LEMMA InitInv == ElemInit => ElemInv
<1>. SUFFICES ASSUME ElemInit PROVE ElemInv
  OBVIOUS
<1>1. PICK pair \in Pairs : \E fa \in StartFlags(pair[1]), fb \in StartFlags(pair[2]) :
         things = [A |-> Start(pair[1], fa), B |-> Start(pair[2], fb)]
  BY DEF ElemInit
<1>2. PICK fa \in StartFlags(pair[1]), fb \in StartFlags(pair[2]) :
         things = [A |-> Start(pair[1], fa), B |-> Start(pair[2], fb)]
  BY <1>1
<1>3. pair[1] \in Classes /\ pair[2] \in Classes
  BY PairsAssumption
<1>. DEFINE a == Start(pair[1], fa)
            b == Start(pair[2], fb)
<1>4. ThingOK(a) /\ ~a.tenured /\ ThingOK(b) /\ ~b.tenured
  BY <1>3, StartOK
<1>5. things = [A |-> a, B |-> b]
  BY <1>2
<1>. HIDE DEF a, b
<1>6. a \in ThingType /\ b \in ThingType
  BY <1>4 DEF ThingOK
<1>7. things["A"] = a /\ things["B"] = b /\ things \in [Names -> ThingType]
  BY <1>5, <1>6 DEF Names
<1>8. ThingsOK /\ NurseryEdgesRemembered
  BY <1>4, <1>7 DEF ThingsOK, NurseryEdgesRemembered, Names
<1>9. /\ chain = <<[sparse |-> {}, dense |-> FALSE, frozen |-> FALSE], [sparse |-> {}, dense |-> FALSE, frozen |-> FALSE]>>
      /\ appendRow = NoRow /\ noExtra = NoRow /\ moved = FALSE /\ slot = "A" /\ fact = NONE /\ wrong = {}
  BY DEF ElemInit
<1>10. ChainInv
  <2>. DEFINE q == [sparse |-> {}, dense |-> FALSE, frozen |-> FALSE]
  <2>1. q \in ProtoType /\ ~q.frozen
    <3>1. {} \in SUBSET Int
      OBVIOUS
    <3>. QED BY <3>1 DEF ProtoType
  <2>2. chain = <<q, q>>
    BY <1>9
  <2>. HIDE DEF q
  <2>3. chain[1] = q /\ chain[2] = q /\ DOMAIN chain = {1, 2} /\ chain = [p \in {1, 2} |-> chain[p]]
    BY <2>2
  <2>4. chain \in [{1, 2} -> ProtoType]
    BY <2>1, <2>3
  <2>. QED BY <1>9, <2>1, <2>3, <2>4 DEF ChainInv
<1>. QED BY <1>8, <1>9, <1>10 DEF ElemInv, RowInv, TaFactHolds, Names

-----------------------------------------------------------------------------
(* The invariant and what it gives.                                         *)

\* Every step of the program, of the compiled code and of the collector keeps
\* the invariant, one case per action.
LEMMA ElemStep ==
    ASSUME ElemInv, ~StaticStores, [ElemNext]_elemVars
    PROVE  ElemInv'
<1>1. CASE ElemAccess
  <2>0. ~things[slot].lit
    BY <1>1 DEF ElemAccess
  <2>1. ASSUME NEW site \in Sites, NEW i \in Indices, get_element(site, i) PROVE ElemInv'
    BY <2>1, GetStep
  <2>2. ASSUME NEW site \in Sites, NEW i \in Indices, NEW v \in StoredAt(things[slot]), NEW static \in BOOLEAN,
               set_element(site, i, v, static)
        PROVE  ElemInv'
    BY <2>0, <2>2, SetStep
  <2>3. CASE get_length
    BY <2>3, LengthStep
  <2>4. ASSUME NEW v \in {I32(1), Young}, push(v) PROVE ElemInv'
    BY <2>0, <2>4, PushStep
  <2>5. CASE pop
    BY <2>0, <2>5, PopStep
  <2>. QED BY <1>1, <2>1, <2>2, <2>3, <2>4, <2>5 DEF ElemAccess
<1>2. CASE ElemProgram
  <2>1. ASSUME NEW v \in {I32(1), Young, Hole}, init_elem_array(v) PROVE ElemInv'
    BY <2>1, InitStep
  <2>2. CASE NewArray
    BY <2>2, NewArrayStep
  <2>3. ASSUME NEW n \in Names, Assign(n) PROVE ElemInv'
    BY <2>3, AssignStep
  <2>4. ASSUME NEW how \in {"frozen", "sealed", "notExtensible", "lengthReadonly"}, Fasten(how) PROVE ElemInv'
    BY <2>4, FastenStep
  <2>5. ASSUME NEW i \in Indices, Delete(i) PROVE ElemInv'
    BY <2>5, DeleteStep
  <2>6. ASSUME NEW i \in Indices, DefineSparse(i) PROVE ElemInv'
    BY <2>6, DefineStep
  <2>7. ASSUME NEW n \in {0, 1, IntMax + 1}, SetLength(n) PROVE ElemInv'
    BY <2>7, SetLengthStep
  <2>8. ASSUME NEW how \in {"overridden", "lengthOverridden"}, Override(how) PROVE ElemInv'
    BY <2>8, OverrideStep
  <2>9. CASE Detach
    BY <2>9, DetachStep
  <2>10. ASSUME NEW p \in {1, 2}, NEW q \in ProtoStates, ChangeProto(p, q) PROVE ElemInv'
    BY <2>10, ProtoStep
  <2>. QED BY <1>2, <2>1, <2>2, <2>3, <2>4, <2>5, <2>6, <2>7, <2>8, <2>9, <2>10, Zenon DEF ElemProgram
<1>3. CASE MinorGC
  BY <1>3, MinorStep
<1>4. CASE MajorGC
  BY <1>4, MajorStep
<1>5. CASE UNCHANGED elemVars
  BY <1>5 DEF elemVars, ElemInv, ThingsOK, NurseryEdgesRemembered, TaFactHolds, ChainInv, RowInv, CleanWords
<1>. QED BY <1>1, <1>2, <1>3, <1>4, <1>5 DEF ElemNext

\* When no store's representation is known while compiling, every reachable
\* state has well-formed objects (a hole only in an object flagged so, a
\* length no shorter than the elements), cached prototype words that describe
\* prototypes with nothing to shadow, and no arm that went wrong.
THEOREM ElemInvariant ==
    ASSUME ~StaticStores
    PROVE  ElemSpec => []ElemInv
<1>1. ElemInit => ElemInv
  BY InitInv
<1>2. ElemInv /\ [ElemNext]_elemVars => ElemInv'
  BY ElemStep
<1>. QED BY <1>1, <1>2, PTL DEF ElemSpec

\* Every inline element arm (emit_get_element, emit_set_element, the typed
\* array, arguments and string arms, push, pop, length and the literal fill)
\* does what the engine would, whatever the program, other accesses through
\* the same rows and the collector did before.
THEOREM ElemCorrect ==
    ASSUME ~StaticStores
    PROVE  ElemSpec => []ElemAgrees
<1>1. ElemInv => ElemAgrees
  BY DEF ElemInv, ElemAgrees, ElemReadsAgree, ElemWritesAgree
<1>. QED BY <1>1, ElemInvariant, PTL

\* No inline store forgets the generational barrier
\* (emit_post_write_barrier_elem): an element of a tenured object that points
\* into the nursery is in the store buffer.
THEOREM BarrierCorrect ==
    ASSUME ~StaticStores
    PROVE  ElemSpec => []NurseryEdgesRemembered
<1>1. ElemInv => NurseryEdgesRemembered
  BY DEF ElemInv
<1>. QED BY <1>1, ElemInvariant, PTL
=============================================================================
