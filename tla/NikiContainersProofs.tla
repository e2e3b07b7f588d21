------------------------- MODULE NikiContainersProofs --------------------------
(***************************************************************************)
(* The containers of the heap keep inside their blocks and are what they   *)
(* promise, for every set of keys and values, every initial capacity and   *)
(* every number of elements below the wrap of the capacity.                *)
(*                                                                         *)
(* A container grows only when it is full, and then every slot of it is    *)
(* occupied: growing moves no element to another place.  So the elements   *)
(* are always the first count slots, and the search of a map, from its     *)
(* first slot, finds the one entry of a key.                               *)
(***************************************************************************)
EXTENDS NikiContainers, NikiObjectProofs

\* An array or a map between two operations.
ArrayKept(a) ==
  /\ a \in ArrayObj /\ a.count =< a.capacity /\ DOMAIN a.elements = 1..a.capacity
  /\ \A i \in (a.count + 1)..a.capacity : a.elements[i] = makeNil

MapKept(m) ==
  /\ m \in MapObj /\ m.count =< m.capacity /\ DOMAIN m.entries = 1..m.capacity
  /\ \A i \in 1..m.count : m.entries[i].occupied /\ m.entries[i].key \in Key
  /\ \A i \in (m.count + 1)..m.capacity : m.entries[i] = Blank
  /\ \A i, j \in 1..m.count : valueKeyEquals(chars, m.entries[i].key, m.entries[j].key) => i = j

CInv == ArrayKept(obj) \/ MapKept(obj)

\* Doubling does not wrap before the bound.
LEMMA BelowTheWrap ==
  ASSUME NEW n \in Nat, n < MaxCount
  PROVE  2 * n < Uint32
  BY ContainerAssumption, CapacityAssumption

-----------------------------------------------------------------------------
(***************************************************************************)
(* Keys.                                                                   *)
(***************************************************************************)
\* Two values are one key exactly when their canonical forms agree, but for a
\* NaN, which is no key's equal.
LEMMA KeyEquality ==
  ASSUME NEW a \in Value, NEW b \in Value
  PROVE  valueKeyEquals(chars, a, b) <=> Canonical(a) = Canonical(b) /\ b # makeFloat(NaN)
<1>1. /\ a.type \in {"Nil", "Bool", "Integer", "Float", "Object"} /\ a = [type |-> a.type, as |-> a.as]
      /\ b.type \in {"Nil", "Bool", "Integer", "Float", "Object"} /\ b = [type |-> b.type, as |-> b.as]
      /\ a.type = "Nil" => a.as = 0
      /\ b.type = "Nil" => b.as = 0
  BY DEF Value, makeNil, makeBool, makeInt, makeFloat, makeObject
<1>2. Canonical(a).type = IF isString(chars, a) THEN "String" ELSE a.type
  BY DEF Canonical
<1>3. Canonical(b).type = IF isString(chars, b) THEN "String" ELSE b.type
  BY DEF Canonical
<1>4. CASE isString(chars, a) /\ isString(chars, b)
  <2>1. Canonical(a) = Canonical(b) <=> chars[a.as] = chars[b.as]
    BY <1>4 DEF Canonical
  <2>2. b # makeFloat(NaN)
    BY <1>4 DEF isString, makeFloat
  <2> QED
    BY <1>4, <2>1, <2>2 DEF valueKeyEquals, isString
<1>5. CASE isString(chars, a) /\ ~isString(chars, b)
  <2>1. Canonical(a) # Canonical(b)
    BY <1>1, <1>2, <1>3, <1>5
  <2> QED
    BY <1>5, <2>1 DEF valueKeyEquals, isString
<1>6. CASE ~isString(chars, a) /\ isString(chars, b)
  <2>1. Canonical(a) # Canonical(b)
    BY <1>1, <1>2, <1>3, <1>6
  <2> QED
    BY <1>6, <2>1 DEF valueKeyEquals, isString
<1>7. CASE ~isString(chars, a) /\ ~isString(chars, b)
  <2>1. Canonical(a) = a /\ Canonical(b) = b
    BY <1>7 DEF Canonical
  <2>2. a = b <=> a.type = b.type /\ a.as = b.as
    BY <1>1
  <2>3. b = makeFloat(NaN) <=> b.type = "Float" /\ b.as = NaN
    BY <1>1 DEF makeFloat
  <2> QED
    BY <1>1, <1>7, <2>1, <2>2, <2>3 DEF valueKeyEquals, isString
<1> QED
  BY <1>4, <1>5, <1>6, <1>7

\* An entry whose key equals one that is looked up is the only one.
LEMMA OneHit ==
  ASSUME NEW m, MapKept(m), NEW k \in Key,
         NEW i \in 1..m.count, Canonical(m.entries[i].key) = Canonical(k), k # makeFloat(NaN)
  PROVE  /\ Hits(chars, m, k) = {i}
         /\ mapHas(chars, m, k)
         /\ mapGet(chars, m, k) = m.entries[i].value
<1>1. /\ m.count \in Nat /\ m.capacity \in Nat /\ m.count =< m.capacity
      /\ Occupied(m) = 1..m.count
  BY DEF MapKept, MapObj, Occupied, Blank
<1>2. k \in Value /\ \A j \in 1..m.count : m.entries[j].key \in Value
  BY ContainerAssumption DEF MapKept
<1>3. m.entries[i].key # makeFloat(NaN)
  <2>1. Canonical(makeFloat(NaN)) = makeFloat(NaN)
    BY DEF Canonical, isString, makeFloat
  <2>2. Canonical(k) = k \/ Canonical(k).type = "String"
    BY DEF Canonical
  <2>3. makeFloat(NaN).type = "Float"
    BY DEF makeFloat
  <2> QED
    BY <2>1, <2>2, <2>3
<1>4. ASSUME NEW j \in 1..m.count
      PROVE  valueKeyEquals(chars, m.entries[j].key, k) <=> j = i
  <2>1. valueKeyEquals(chars, m.entries[j].key, k) <=> Canonical(m.entries[j].key) = Canonical(k)
    BY <1>2, KeyEquality
  <2>2. Canonical(m.entries[j].key) = Canonical(k) =>
          valueKeyEquals(chars, m.entries[j].key, m.entries[i].key)
    BY <1>2, <1>3, KeyEquality
  <2>3. valueKeyEquals(chars, m.entries[j].key, m.entries[i].key) => j = i
    BY DEF MapKept
  <2> QED
    BY <2>1, <2>2, <2>3
<1>5. Hits(chars, m, k) = {i}
  BY <1>1, <1>4 DEF Hits
<1>6. Least({i}) = i
  BY <1>1 DEF Least
<1> QED
  BY <1>5, <1>6 DEF mapHas, mapGet

\* What is not found is in no entry.
LEMMA NoHit ==
  ASSUME NEW m, MapKept(m), NEW k \in Key
  PROVE  mapHas(chars, m, k) <=>
           k # makeFloat(NaN) /\ \E i \in 1..m.count : Canonical(m.entries[i].key) = Canonical(k)
<1>1. Occupied(m) = 1..m.count
  BY DEF MapKept, MapObj, Occupied, Blank
<1>2. k \in Value /\ \A j \in 1..m.count : m.entries[j].key \in Value
  BY ContainerAssumption DEF MapKept
<1>3. \A j \in 1..m.count : valueKeyEquals(chars, m.entries[j].key, k) <=>
          Canonical(m.entries[j].key) = Canonical(k) /\ k # makeFloat(NaN)
  BY <1>2, KeyEquality
<1> QED
  BY <1>1, <1>3 DEF mapHas, Hits

-----------------------------------------------------------------------------
(***************************************************************************)
(* The operations.                                                         *)
(***************************************************************************)
\* An array is as long as the elements pushed.
LEMMA ElementsOf ==
  ASSUME NEW a, ArrayKept(a)
  PROVE  SubSeq(a.elements, 1, a.count) = [i \in 1..a.count |-> a.elements[i]]
<1>1. a.elements \in Seq(Value) /\ a.count \in Nat /\ Len(a.elements) = a.capacity /\ a.capacity \in Nat
  BY LenProperties DEF ArrayKept, ArrayObj
<1>2. a.count =< Len(a.elements)
  BY <1>1 DEF ArrayKept
<1> QED
  BY <1>1, <1>2, SubSeqProperties

\* A push writes the slot behind the elements.
LEMMA PushIs ==
  ASSUME NEW a, ArrayKept(a), a.count < MaxCount, NEW v \in Value,
         NEW b, b = pushArray(a, v)
  PROVE  /\ ArrayKept(b)
         /\ SubSeq(b.elements, 1, b.count) = Append(SubSeq(a.elements, 1, a.count), v)
<1> DEFINE r == MakeRoom(a)
           e == [r.elements EXCEPT ![r.count + 1] = v]
<1>1. a \in ArrayObj /\ a.count \in Nat /\ a.capacity \in Nat /\ a.count =< a.capacity
  BY DEF ArrayKept, ArrayObj
<1>2. /\ r \in ArrayObj
      /\ r.count = a.count /\ r.count < r.capacity /\ r.capacity >= a.capacity
      /\ DOMAIN r.elements = 1..r.capacity
      /\ \A i \in 1..a.capacity : r.elements[i] = a.elements[i]
      /\ \A i \in (a.capacity + 1)..r.capacity : r.elements[i] = makeNil
  BY <1>1, BelowTheWrap, MakeRoomIs DEF ArrayKept
<1>3. b = [r EXCEPT !.count = r.count + 1, !.elements = e]
  BY DEF pushArray
<1> HIDE DEF r
<1>4. r.elements \in Seq(Value) /\ r.count + 1 \in 1..r.capacity /\ r.capacity \in Nat
  BY <1>1, <1>2 DEF ArrayObj
<1>5. /\ e \in Seq(Value) /\ DOMAIN e = 1..r.capacity
      /\ \A i \in 1..r.capacity : e[i] = IF i = r.count + 1 THEN v ELSE r.elements[i]
  BY <1>2, <1>4, ExceptSeq
<1> HIDE DEF e
<1>6. b \in ArrayObj /\ b.count = a.count + 1 /\ b.capacity = r.capacity /\ b.elements = e
  <2> DEFINE n == r.count + 1
  <2>1. n \in Nat /\ n = a.count + 1
    BY <1>1, <1>2
  <2> HIDE DEF n
  <2>2. b = [r EXCEPT !.count = n, !.elements = e]
    BY <1>3 DEF n
  <2>3. b \in ArrayObj /\ b.count = n /\ b.capacity = r.capacity /\ b.elements = e
    BY <1>2, <1>5, <2>1, <2>2 DEF ArrayObj
  <2> QED
    BY <2>1, <2>3
<1>7. \A i \in (a.count + 1)..r.capacity : r.elements[i] = makeNil
  <2>1. SUFFICES ASSUME NEW i \in (a.count + 1)..r.capacity PROVE r.elements[i] = makeNil
    OBVIOUS
  <2>2. i \in (a.count + 1)..a.capacity \/ i \in (a.capacity + 1)..r.capacity
    BY <1>1, <1>4
  <2>3. CASE i \in (a.count + 1)..a.capacity
    BY <1>1, <1>2, <2>3 DEF ArrayKept
  <2> QED
    BY <1>2, <2>2, <2>3
<1>8. ArrayKept(b)
  <2>1. \A i \in (b.count + 1)..b.capacity : b.elements[i] = makeNil
    BY <1>1, <1>2, <1>4, <1>5, <1>6, <1>7, SMTT(30)
  <2> QED
    BY <1>1, <1>2, <1>4, <1>5, <1>6, <2>1 DEF ArrayKept
<1>9. SubSeq(b.elements, 1, b.count) = Append(SubSeq(a.elements, 1, a.count), v)
  <2> DEFINE s == SubSeq(a.elements, 1, a.count)
             t == SubSeq(b.elements, 1, b.count)
  <2>1. s = [i \in 1..a.count |-> a.elements[i]] /\ t = [i \in 1..b.count |-> b.elements[i]]
    BY <1>8, ElementsOf
  <2>2. \A i \in 1..a.count : a.elements[i] \in Value
    BY <1>1 DEF ArrayKept, ArrayObj
  <2> HIDE DEF s, t
  <2>3. s \in Seq(Value) /\ Len(s) = a.count
    BY <1>1, <2>1, <2>2, SeqDef, LenProperties
  <2>4. \A i \in 1..b.count : t[i] = IF i = a.count + 1 THEN v ELSE s[i]
    BY <1>1, <1>2, <1>4, <1>5, <1>6, <2>1
  <2>5. Append(s, v) = [i \in 1..(a.count + 1) |-> IF i = a.count + 1 THEN v ELSE s[i]]
    <3>1. Append(s, v) \in Seq(Value) /\ Len(Append(s, v)) = a.count + 1
      BY <2>3, AppendProperties
    <3>2. \A i \in 1..(a.count + 1) : Append(s, v)[i] = IF i = a.count + 1 THEN v ELSE s[i]
      BY <1>1, <2>3, AppendProperties
    <3>3. Append(s, v) = [i \in 1..(a.count + 1) |-> Append(s, v)[i]]
      BY <3>1, LenProperties
    <3> QED
      BY <3>2, <3>3
  <2>6. t = [i \in 1..(a.count + 1) |-> IF i = a.count + 1 THEN v ELSE s[i]]
    BY <1>6, <2>1, <2>4
  <2> QED
    BY <2>5, <2>6 DEF s, t
<1> QED
  BY <1>8, <1>9

\* A write replaces the one element.
LEMMA SetArrayIs ==
  ASSUME NEW a, ArrayKept(a), NEW i \in Int, InBounds(a, i), NEW v \in Value,
         NEW b, b = setArray(a, i, v)
  PROVE  /\ ArrayKept(b)
         /\ i + 1 \in DOMAIN SubSeq(a.elements, 1, a.count)
         /\ SubSeq(b.elements, 1, b.count) = [SubSeq(a.elements, 1, a.count) EXCEPT ![i + 1] = v]
<1> DEFINE e == [a.elements EXCEPT ![i + 1] = v]
<1>1. /\ a \in ArrayObj /\ a.count \in Nat /\ a.capacity \in Nat /\ a.count =< a.capacity
      /\ a.elements \in Seq(Value) /\ i + 1 \in 1..a.count /\ DOMAIN a.elements = 1..a.capacity
  BY DEF ArrayKept, ArrayObj, InBounds
<1>2. /\ e \in Seq(Value) /\ DOMAIN e = 1..a.capacity
      /\ \A j \in 1..a.capacity : e[j] = IF j = i + 1 THEN v ELSE a.elements[j]
  BY <1>1, ExceptSeq
<1>3. b = [a EXCEPT !.elements = e]
  BY DEF setArray
<1> HIDE DEF e
<1>4. b \in ArrayObj /\ b.count = a.count /\ b.capacity = a.capacity /\ b.elements = e
  BY <1>1, <1>2, <1>3 DEF ArrayObj
<1>5. ArrayKept(b)
  BY <1>1, <1>2, <1>4 DEF ArrayKept
<1>6. /\ SubSeq(a.elements, 1, a.count) = [j \in 1..a.count |-> a.elements[j]]
      /\ SubSeq(b.elements, 1, b.count) = [j \in 1..b.count |-> b.elements[j]]
  BY <1>5, ElementsOf
<1>7. \A j \in 1..a.count : b.elements[j] = IF j = i + 1 THEN v ELSE a.elements[j]
  BY <1>1, <1>2, <1>4
<1> DEFINE s == SubSeq(a.elements, 1, a.count)
           t == SubSeq(b.elements, 1, b.count)
<1>8. /\ DOMAIN s = 1..a.count /\ i + 1 \in DOMAIN s
      /\ s = [j \in 1..a.count |-> a.elements[j]]
      /\ t = [j \in 1..a.count |-> b.elements[j]]
  BY <1>1, <1>4, <1>6
<1> HIDE DEF s, t
<1>9. t = [s EXCEPT ![i + 1] = v]
  <2> DEFINE n == i + 1
  <2>1. t = [j \in DOMAIN s |-> IF j = n THEN v ELSE s[j]]
    BY <1>7, <1>8
  <2>2. s = [j \in DOMAIN s |-> s[j]]
    BY <1>8
  <2> HIDE DEF n
  <2>3. [s EXCEPT ![n] = v] = [j \in DOMAIN s |-> IF j = n THEN v ELSE s[j]]
    BY <2>2
  <2> QED
    BY <2>1, <2>3 DEF n
<1> QED
  BY <1>5, <1>8, <1>9 DEF s, t

\* Making room keeps the map.
LEMMA RoomyKept ==
  ASSUME NEW m, MapKept(m), m.count < MaxCount, NEW r, r = Roomy(m)
  PROVE  /\ MapKept(r)
         /\ r.count = m.count /\ r.count < r.capacity
         /\ \A i \in 1..m.count : r.entries[i] = m.entries[i]
<1>1. /\ r \in MapObj
      /\ r.count = m.count /\ r.count < r.capacity
      /\ DOMAIN r.entries = 1..r.capacity
      /\ \A i \in 1..m.count : r.entries[i] = m.entries[i] /\ r.entries[i].occupied
      /\ \A i \in (m.count + 1)..r.capacity : r.entries[i] = Blank
  <2>1. m.count \in Nat
    BY DEF MapKept, MapObj
  <2> QED
    BY <2>1, BelowTheWrap, RoomyIs DEF MapKept
<1>2. r.count \in Nat /\ r.capacity \in Nat /\ r.count =< r.capacity
  BY <1>1 DEF MapObj
<1>3. \A i \in 1..r.count : r.entries[i].occupied /\ r.entries[i].key \in Key
  BY <1>1 DEF MapKept
<1>4. \A i, j \in 1..r.count : valueKeyEquals(chars, r.entries[i].key, r.entries[j].key) => i = j
  BY <1>1 DEF MapKept
<1> QED
  BY <1>1, <1>2, <1>3, <1>4 DEF MapKept

\* A key that is found is a key of the map, and its entry is the one replaced.
LEMMA ReplacedIs ==
  ASSUME NEW m, MapKept(m), NEW i \in 1..m.count, NEW v \in Value,
         NEW b, b = ValuePut(m, i, v)
  PROVE  /\ MapKept(b) /\ b.count = m.count
         /\ \A j \in 1..m.count : /\ b.entries[j].key = m.entries[j].key
                                 /\ b.entries[j].value = IF j = i THEN v ELSE m.entries[j].value
<1>1. /\ m \in MapObj /\ m.count \in Nat /\ m.capacity \in Nat /\ m.count =< m.capacity
      /\ m.entries \in Seq(Slot) /\ DOMAIN m.entries = 1..m.capacity /\ i \in 1..m.capacity
  BY DEF MapKept, MapObj
<1> DEFINE x == [m.entries[i] EXCEPT !.value = v]
           e == [m.entries EXCEPT ![i] = x]
<1>2. m.entries[i] \in Slot
  BY <1>1
<1>3. x \in Slot /\ x.occupied = m.entries[i].occupied /\ x.key = m.entries[i].key /\ x.value = v
  <2> DEFINE y == m.entries[i]
  <2>1. y \in Slot /\ x = [y EXCEPT !.value = v]
    BY <1>2
  <2> HIDE DEF y, x
  <2> QED
    BY <2>1 DEF y, Slot
<1>4. b = [m EXCEPT !.entries = e]
  BY DEF ValuePut
<1> HIDE DEF x
<1>5. /\ e \in Seq(Slot) /\ DOMAIN e = 1..m.capacity
      /\ \A j \in 1..m.capacity : e[j] = IF j = i THEN x ELSE m.entries[j]
  BY <1>1, <1>3, ExceptSeq, LenProperties
<1> HIDE DEF e
<1>6. b \in MapObj /\ b.count = m.count /\ b.capacity = m.capacity /\ b.entries = e
  BY <1>1, <1>4, <1>5 DEF MapObj
<1>7. \A j \in 1..m.count : /\ e[j].key = m.entries[j].key
                            /\ e[j].occupied = m.entries[j].occupied
                            /\ e[j].value = IF j = i THEN v ELSE m.entries[j].value
  BY <1>1, <1>3, <1>5
<1>8. \A j \in (m.count + 1)..m.capacity : e[j] = Blank
  BY <1>1, <1>5 DEF MapKept
<1>9. MapKept(b)
  <2>1. \A j \in 1..b.count : b.entries[j].occupied /\ b.entries[j].key \in Key
    BY <1>6, <1>7 DEF MapKept
  <2>2. \A j, l \in 1..b.count : valueKeyEquals(chars, b.entries[j].key, b.entries[l].key) => j = l
    BY <1>6, <1>7 DEF MapKept
  <2> QED
    BY <1>1, <1>5, <1>6, <1>8, <2>1, <2>2 DEF MapKept
<1> QED
  BY <1>6, <1>7, <1>9

\* A key that is not found takes the slot behind the entries.
LEMMA EnteredIs ==
  ASSUME NEW m, MapKept(m), m.count < m.capacity, NEW k \in Key, NEW v \in Value,
         ~mapHas(chars, m, k),
         NEW b, b = EntryPut(m, m.count + 1, k, v)
  PROVE  /\ MapKept(b) /\ b.count = m.count + 1
         /\ b.entries[m.count + 1] = Entry(k, v)
         /\ \A j \in 1..m.count : b.entries[j] = m.entries[j]
<1>1. /\ m \in MapObj /\ m.count \in Nat /\ m.capacity \in Nat
      /\ m.entries \in Seq(Slot) /\ DOMAIN m.entries = 1..m.capacity
      /\ m.count + 1 \in 1..m.capacity
  BY DEF MapKept, MapObj
<1>2. k \in Value /\ \A j \in 1..m.count : m.entries[j].key \in Value
  BY ContainerAssumption DEF MapKept
<1> DEFINE n == m.count + 1
           x == Entry(k, v)
           e == [m.entries EXCEPT ![n] = x]
<1>3. x \in Slot /\ x.occupied /\ x.key = k
  BY <1>2 DEF Entry, Slot
<1>4. n \in Nat /\ n \in 1..m.capacity
  BY <1>1
<1>5. b = [m EXCEPT !.entries = e, !.count = n]
  BY DEF EntryPut
<1> HIDE DEF x
<1>6. /\ e \in Seq(Slot) /\ DOMAIN e = 1..m.capacity
      /\ \A j \in 1..m.capacity : e[j] = IF j = n THEN x ELSE m.entries[j]
  <2> HIDE DEF n
  <2> QED
    BY <1>1, <1>3, <1>4, ExceptSeq, LenProperties
<1> HIDE DEF e
<1>7. b \in MapObj /\ b.count = n /\ b.capacity = m.capacity /\ b.entries = e
  <2> HIDE DEF n
  <2> QED
    BY <1>1, <1>4, <1>5, <1>6 DEF MapObj
<1>8. e[n] = x /\ \A j \in 1..m.count : e[j] = m.entries[j]
  BY <1>1, <1>6
<1>9. \A j \in (n + 1)..m.capacity : e[j] = Blank
  BY <1>1, <1>6 DEF MapKept
<1>10. \A j \in 1..n : e[j].occupied /\ e[j].key \in Key
  <2>1. \A j \in 1..n : j \in 1..m.count \/ j = n
    BY <1>1
  <2> HIDE DEF n
  <2> QED
    BY <1>3, <1>8, <2>1 DEF MapKept
<1>11. \A j \in 1..m.count : ~(Canonical(m.entries[j].key) = Canonical(k) /\ k # makeFloat(NaN))
  BY NoHit
<1>12. ASSUME NEW j \in 1..n, NEW l \in 1..n, valueKeyEquals(chars, e[j].key, e[l].key)
       PROVE  j = l
  <2>1. (j \in 1..m.count \/ j = n) /\ (l \in 1..m.count \/ l = n)
    BY <1>1
  <2> HIDE DEF n
  <2>2. CASE j \in 1..m.count /\ l \in 1..m.count
    BY <1>8, <1>12, <2>2 DEF MapKept
  <2>3. CASE j \in 1..m.count /\ l = n
    <3>1. valueKeyEquals(chars, m.entries[j].key, k)
      BY <1>3, <1>8, <1>12, <2>3
    <3> QED
      BY <1>2, <1>11, <2>3, <3>1, KeyEquality
  <2>4. CASE j = n /\ l \in 1..m.count
    <3>1. valueKeyEquals(chars, k, m.entries[l].key)
      BY <1>3, <1>8, <1>12, <2>4
    <3>2. Canonical(m.entries[l].key) = Canonical(k) /\ m.entries[l].key # makeFloat(NaN)
      BY <1>2, <2>4, <3>1, KeyEquality
    <3>3. k # makeFloat(NaN)
      BY <3>1 DEF valueKeyEquals, makeFloat, isString
    <3> QED
      BY <1>11, <2>4, <3>2, <3>3
  <2> QED
    BY <2>1, <2>2, <2>3, <2>4
<1>13. MapKept(b)
  <2>1. n =< m.capacity
    BY <1>1
  <2> HIDE DEF n
  <2>2. \A j \in 1..b.count : b.entries[j].occupied /\ b.entries[j].key \in Key
    BY <1>7, <1>10
  <2>3. \A j \in (b.count + 1)..b.capacity : b.entries[j] = Blank
    BY <1>7, <1>9
  <2>4. \A j, l \in 1..b.count : valueKeyEquals(chars, b.entries[j].key, b.entries[l].key) => j = l
    BY <1>7, <1>12
  <2> QED
    BY <1>6, <1>7, <2>1, <2>2, <2>3, <2>4 DEF MapKept
<1> QED
  BY <1>7, <1>8, <1>13 DEF x

\* Canonical forms tell a NaN from every other key.
LEMMA CanonicalNaN ==
  ASSUME NEW k \in Value, NEW l \in Value, Canonical(k) = Canonical(l)
  PROVE  k = makeFloat(NaN) <=> l = makeFloat(NaN)
<1>1. /\ Canonical(makeFloat(NaN)) = makeFloat(NaN)
      /\ makeFloat(NaN).type = "Float"
  BY DEF Canonical, isString, makeFloat
<1>2. \A x : Canonical(x) = x \/ Canonical(x).type = "String"
  BY DEF Canonical
<1> QED
  BY <1>1, <1>2

\* A write answers every later search: of its own key with the value stored, of
\* another key with what it answered before.
LEMMA MapSetIs ==
  ASSUME NEW m, MapKept(m), m.count < MaxCount, NEW k \in Key, NEW v \in Value,
         NEW b, b = mapSet(chars, m, k, v)
  PROVE  /\ MapKept(b)
         /\ \A l \in Key : mapHas(chars, b, l) <=>
              mapHas(chars, m, l) \/ (l # makeFloat(NaN) /\ Canonical(l) = Canonical(k))
         /\ \A l \in Key : mapHas(chars, b, l) =>
              mapGet(chars, b, l) = IF Canonical(l) = Canonical(k) THEN v ELSE mapGet(chars, m, l)
<1> DEFINE r == Roomy(m)
<1>1. /\ MapKept(r) /\ r.count = m.count /\ r.count < r.capacity
      /\ \A i \in 1..m.count : r.entries[i] = m.entries[i]
  BY RoomyKept
<1>2. /\ r.count \in Nat /\ r.capacity \in Nat
      /\ Occupied(r) = 1..r.count /\ Vacant(r) = (r.count + 1)..r.capacity
  <2> HIDE DEF r
  <2>1. r.count \in Nat /\ r.capacity \in Nat /\ r.count =< r.capacity
    BY <1>1 DEF MapKept, MapObj
  <2>2. Occupied(r) = 1..r.count
    BY <1>1, <2>1 DEF MapKept, Occupied, Blank
  <2> QED
    BY <2>1, <2>2 DEF Vacant
<1>3. b = IF Hits(chars, r, k) # {} THEN ValuePut(r, Least(Hits(chars, r, k)), v)
          ELSE IF Vacant(r) = {} THEN r
          ELSE EntryPut(r, Least(Vacant(r)), k, v)
  BY DEF mapSet, Roomy, ValuePut, EntryPut
<1>4. k \in Value /\ \A l \in Key : l \in Value
  BY ContainerAssumption
<1>5. ASSUME NEW l \in Key
      PROVE  /\ mapHas(chars, m, l) <=> mapHas(chars, r, l)
             /\ mapHas(chars, m, l) => mapGet(chars, m, l) = mapGet(chars, r, l)
  <2>1. mapHas(chars, m, l) <=> mapHas(chars, r, l)
    BY <1>1, NoHit
  <2>2. CASE mapHas(chars, m, l)
    <3>1. PICK i \in 1..m.count : Canonical(m.entries[i].key) = Canonical(l) /\ l # makeFloat(NaN)
      BY <2>2, NoHit
    <3>2. mapGet(chars, m, l) = m.entries[i].value
      BY <3>1, OneHit
    <3>3. mapGet(chars, r, l) = r.entries[i].value
      BY <1>1, <3>1, OneHit
    <3> QED
      BY <1>1, <2>1, <3>2, <3>3
  <2> QED
    BY <2>1, <2>2
<1> HIDE DEF r
<1>6. CASE Hits(chars, r, k) # {}
  <2>1. PICK i \in 1..r.count : Canonical(r.entries[i].key) = Canonical(k) /\ k # makeFloat(NaN)
    BY <1>1, <1>6, NoHit DEF mapHas
  <2>2. Least(Hits(chars, r, k)) = i
    <3>1. Hits(chars, r, k) = {i}
      BY <1>1, <2>1, OneHit
    <3>2. Least({i}) = i
      BY <1>2 DEF Least
    <3> QED
      BY <3>1, <3>2
  <2>3. b = ValuePut(r, i, v)
    BY <1>3, <1>6, <2>2
  <2>4. /\ MapKept(b) /\ b.count = r.count
        /\ \A j \in 1..r.count : /\ b.entries[j].key = r.entries[j].key
                                /\ b.entries[j].value = IF j = i THEN v ELSE r.entries[j].value
    BY <1>1, <2>3, ReplacedIs
  <2>5. ASSUME NEW l \in Key
        PROVE  mapHas(chars, b, l) <=>
                 mapHas(chars, r, l) \/ (l # makeFloat(NaN) /\ Canonical(l) = Canonical(k))
    BY <1>1, <2>1, <2>4, NoHit
  <2>6. ASSUME NEW l \in Key, mapHas(chars, b, l)
        PROVE  /\ Canonical(l) = Canonical(k) => mapGet(chars, b, l) = v
               /\ Canonical(l) # Canonical(k) => mapGet(chars, b, l) = mapGet(chars, r, l)
    <3>1. PICK j \in 1..r.count : Canonical(r.entries[j].key) = Canonical(l) /\ l # makeFloat(NaN)
      BY <2>4, <2>6, NoHit
    <3>2. mapGet(chars, b, l) = b.entries[j].value /\ mapGet(chars, r, l) = r.entries[j].value
      BY <1>1, <2>4, <3>1, OneHit
    <3>3. CASE Canonical(l) = Canonical(k)
      <4>1. mapGet(chars, b, l) = b.entries[i].value
        BY <2>1, <2>4, <3>1, <3>3, OneHit
      <4> QED
        BY <2>4, <3>3, <4>1
    <3>4. CASE Canonical(l) # Canonical(k)
      <4>1. j # i
        BY <2>1, <3>1, <3>4
      <4> QED
        BY <2>4, <3>2, <3>4, <4>1
    <3> QED
      BY <3>3, <3>4
  <2> QED
    BY <1>5, <2>4, <2>5, <2>6
<1>7. CASE Hits(chars, r, k) = {}
  <2>1. Vacant(r) # {} /\ Least(Vacant(r)) = r.count + 1
    <3> DEFINE n == r.count + 1
    <3>1. n \in Nat /\ n =< r.capacity /\ Vacant(r) = n..r.capacity
      BY <1>1, <1>2
    <3> HIDE DEF n
    <3>2. Least(n..r.capacity) = n
      BY <1>2, <3>1 DEF Least
    <3> QED
      BY <1>2, <3>1, <3>2 DEF n
  <2>2. b = EntryPut(r, r.count + 1, k, v)
    BY <1>3, <1>7, <2>1
  <2>3. ~mapHas(chars, r, k)
    BY <1>7 DEF mapHas
  <2>4. /\ MapKept(b) /\ b.count = r.count + 1
        /\ b.entries[r.count + 1] = Entry(k, v)
        /\ \A j \in 1..r.count : b.entries[j] = r.entries[j]
    BY <1>1, <2>2, <2>3, EnteredIs
  <2> DEFINE n == r.count + 1
  <2>5. /\ n \in 1..b.count /\ b.entries[n].key = k /\ b.entries[n].value = v
        /\ \A j \in 1..r.count : j \in 1..b.count
        /\ \A j \in 1..b.count : j \in 1..r.count \/ j = n
    BY <1>2, <2>4 DEF Entry
  <2> HIDE DEF n
  <2>6. ASSUME NEW l \in Key
        PROVE  mapHas(chars, b, l) <=>
                 mapHas(chars, r, l) \/ (l # makeFloat(NaN) /\ Canonical(l) = Canonical(k))
    <3>1. mapHas(chars, r, l) <=>
             l # makeFloat(NaN) /\ \E i \in 1..r.count : Canonical(r.entries[i].key) = Canonical(l)
      BY <1>1, NoHit
    <3>2. mapHas(chars, b, l) <=>
             l # makeFloat(NaN) /\ \E i \in 1..b.count : Canonical(b.entries[i].key) = Canonical(l)
      BY <2>4, NoHit
    <3> QED
      BY <2>4, <2>5, <3>1, <3>2
  <2>7. ASSUME NEW l \in Key, mapHas(chars, b, l)
        PROVE  /\ Canonical(l) = Canonical(k) => mapGet(chars, b, l) = v
               /\ Canonical(l) # Canonical(k) => mapGet(chars, b, l) = mapGet(chars, r, l)
    <3>1. PICK j \in 1..b.count : Canonical(b.entries[j].key) = Canonical(l) /\ l # makeFloat(NaN)
      BY <2>4, <2>7, NoHit
    <3>2. mapGet(chars, b, l) = b.entries[j].value
      BY <2>4, <3>1, OneHit
    <3>3. CASE Canonical(l) = Canonical(k)
      BY <2>4, <2>5, <3>1, <3>3, OneHit
    <3>4. CASE Canonical(l) # Canonical(k)
      <4>1. j \in 1..r.count
        BY <2>5, <3>1, <3>4
      <4>2. mapGet(chars, r, l) = r.entries[j].value
        BY <1>1, <2>4, <3>1, <4>1, OneHit
      <4> QED
        BY <2>4, <3>2, <3>4, <4>1, <4>2
    <3> QED
      BY <3>3, <3>4
  <2> QED
    BY <1>5, <2>4, <2>6, <2>7
<1> QED
  BY <1>6, <1>7

-----------------------------------------------------------------------------
(***************************************************************************)
(* The invariant and what follows from it.                                 *)
(***************************************************************************)
LEMMA CInvInit == Init => CInv
<1> SUFFICES ASSUME Init PROVE CInv
  OBVIOUS
<1>1. makeNil \in Value /\ Blank \in Slot
  BY MadeValues DEF Blank, Slot
<1>2. \A c \in Capacity : c \in Nat
  BY ContainerAssumption
<1>3. MinCapacity \in Nat
  BY CapacityAssumption
<1>4. ASSUME NEW c \in Nat PROVE ArrayKept(allocateArray(c))
  <2> DEFINE e == Resized(<<>>, c, makeNil)
  <2>1. e = [i \in 1..c |-> makeNil]
    BY DEF Resized
  <2>2. e \in Seq(Value) /\ DOMAIN e = 1..c /\ \A i \in 1..c : e[i] = makeNil
    BY <1>1, <2>1, SeqDef
  <2> HIDE DEF e
  <2>3. allocateArray(c) = [type |-> "Array", capacity |-> c, count |-> 0, elements |-> e]
    BY DEF allocateArray, e
  <2> QED
    BY <2>2, <2>3 DEF ArrayKept, ArrayObj
<1>5. ASSUME NEW c \in Nat PROVE MapKept(allocateMap(c))
  <2> DEFINE d == IF c < MinCapacity THEN MinCapacity ELSE c
             e == Resized(<<>>, d, Blank)
  <2>1. d \in Nat
    BY <1>3
  <2>2. allocateMap(c) = [type |-> "Map", capacity |-> d, count |-> 0, entries |-> e]
    BY DEF allocateMap
  <2> HIDE DEF d
  <2>3. e = [i \in 1..d |-> Blank]
    BY DEF Resized
  <2>4. e \in Seq(Slot) /\ DOMAIN e = 1..d /\ \A i \in 1..d : e[i] = Blank
    BY <1>1, <2>1, <2>3, SeqDef
  <2> HIDE DEF e
  <2> QED
    BY <2>1, <2>2, <2>4 DEF MapKept, MapObj
<1>6. \/ \E c \in Capacity : obj = allocateArray(c)
      \/ \E c \in Capacity : obj = allocateMap(c)
  BY DEF Init
<1> QED
  BY <1>2, <1>4, <1>5, <1>6 DEF CInv

LEMMA Kinds ==
  ASSUME CInv
  PROVE  (obj.type = "Array" => ArrayKept(obj)) /\ (obj.type = "Map" => MapKept(obj))
BY DEF CInv, ArrayKept, MapKept, ArrayObj, MapObj

LEMMA CInvStep == CInv /\ [Next]_vars => CInv'
<1> SUFFICES ASSUME CInv, [Next]_vars PROVE CInv'
  OBVIOUS
<1>1. Val \subseteq Value /\ MaxCount \in Nat
  BY ContainerAssumption
<1>2. ASSUME NEW v \in Val, Push(v) PROVE CInv'
  BY <1>1, <1>2, Kinds, PushIs DEF Push, CInv
<1>3. ASSUME NEW v \in Val, NEW i \in -1..MaxCount, SetArray(i, v) PROVE CInv'
  BY <1>1, <1>3, Kinds, SetArrayIs DEF SetArray, CInv
<1>4. ASSUME NEW k \in Key, NEW v \in Val, SetMap(k, v) PROVE CInv'
  BY <1>1, <1>4, Kinds, MapSetIs DEF SetMap, CInv
<1>5. CASE UNCHANGED vars
  BY <1>5 DEF vars, CInv, ArrayKept, MapKept
<1> QED
  BY <1>2, <1>3, <1>4, <1>5 DEF Next

LEMMA Invariant == Spec => []CInv
BY CInvInit, CInvStep, PTL DEF Spec

\* No push and no write of an entry goes past the block, and the slots behind
\* the elements stay blank (OP_PUSH_ARRAY, OP_SET_MAP).
THEOREM BlockSafe == Spec => []BlockOK
<1>1. CInv => BlockOK
  <2> SUFFICES ASSUME CInv PROVE BlockOK
    OBVIOUS
  <2>1. CASE ArrayKept(obj)
    BY <2>1 DEF BlockOK, InBlock, ArrayKept, ArrayObj
  <2>2. CASE MapKept(obj)
    <3>1. obj.capacity \in Nat /\ obj.count \in Nat /\ obj.type = "Map"
      BY <2>2 DEF MapKept, MapObj
    <3>2. \A i \in 1..obj.capacity : i =< obj.count => i \in 1..obj.count
      BY <3>1
    <3>3. \A i \in 1..obj.capacity : ~(i =< obj.count) => i \in (obj.count + 1)..obj.capacity
      BY <3>1
    <3> QED
      BY <2>2, <3>1, <3>2, <3>3 DEF BlockOK, InBlock, MapKept
  <2> QED
    BY <2>1, <2>2 DEF CInv
<1> QED
  BY <1>1, Invariant, PTL

\* A map holds one entry for a key, whichever string objects it was written
\* with (OP_SET_MAP).
THEOREM OneEntryPerKey == Spec => []KeysDistinct
<1>1. CInv => KeysDistinct
  <2> SUFFICES ASSUME CInv, obj.type = "Map" PROVE
        \A i, j \in Occupied(obj) :
          valueKeyEquals(chars, obj.entries[i].key, obj.entries[j].key) => i = j
    BY DEF KeysDistinct, KeysApart
  <2>1. MapKept(obj)
    BY Kinds
  <2>2. Occupied(obj) = 1..obj.count
    BY <2>1 DEF MapKept, MapObj, Occupied, Blank
  <2> QED
    BY <2>1, <2>2 DEF MapKept
<1> QED
  BY <1>1, Invariant, PTL

-----------------------------------------------------------------------------
(***************************************************************************)
(* The refinement.                                                         *)
(***************************************************************************)
\* Lookup of an entry table that is given.
Table(m) ==
  [c \in {Canonical(k) : k \in {k \in Key : mapHas(chars, m, k)}} |->
     mapGet(chars, m, CHOOSE k \in Key : Canonical(k) = c /\ mapHas(chars, m, k))]

\* Whichever key of one canonical form is looked up, the answer is one.
LEMMA TableIs ==
  ASSUME NEW m, MapKept(m)
  PROVE  \A k \in Key : mapHas(chars, m, k) =>
           Canonical(k) \in DOMAIN Table(m) /\ Table(m)[Canonical(k)] = mapGet(chars, m, k)
<1> SUFFICES ASSUME NEW k \in Key, mapHas(chars, m, k)
             PROVE  Canonical(k) \in DOMAIN Table(m) /\ Table(m)[Canonical(k)] = mapGet(chars, m, k)
  OBVIOUS
<1> DEFINE l == CHOOSE x \in Key : Canonical(x) = Canonical(k) /\ mapHas(chars, m, x)
<1>1. Canonical(k) \in DOMAIN Table(m) /\ Table(m)[Canonical(k)] = mapGet(chars, m, l)
  BY DEF Table
<1>2. l \in Key /\ Canonical(l) = Canonical(k) /\ mapHas(chars, m, l)
  OBVIOUS
<1> HIDE DEF l
<1>3. PICK i \in 1..m.count : Canonical(m.entries[i].key) = Canonical(k) /\ k # makeFloat(NaN)
  BY NoHit
<1>4. l # makeFloat(NaN)
  BY <1>2, NoHit
<1>5. mapGet(chars, m, k) = m.entries[i].value /\ mapGet(chars, m, l) = m.entries[i].value
  BY <1>2, <1>3, <1>4, OneHit
<1> QED
  BY <1>1, <1>5

\* OP_SET_MAP is the update of a function, but for a NaN, which is lost.
LEMMA TableAfter ==
  ASSUME NEW m, MapKept(m), m.count < MaxCount, NEW k \in Key, NEW v \in Value,
         NEW b, b = mapSet(chars, m, k, v)
  PROVE  Table(b) = IF k \notin Acceptable THEN Table(m)
                    ELSE [c \in DOMAIN Table(m) \cup {Canonical(k)} |->
                            IF c = Canonical(k) THEN v ELSE Table(m)[c]]
<1>1. /\ MapKept(b)
      /\ \A l \in Key : mapHas(chars, b, l) <=>
           mapHas(chars, m, l) \/ (l # makeFloat(NaN) /\ Canonical(l) = Canonical(k))
      /\ \A l \in Key : mapHas(chars, b, l) =>
           mapGet(chars, b, l) = IF Canonical(l) = Canonical(k) THEN v ELSE mapGet(chars, m, l)
  BY MapSetIs
<1>2. k \in Value /\ \A l \in Key : l \in Value
  BY ContainerAssumption
<1>3. \A l \in Key : mapHas(chars, m, l) => l # makeFloat(NaN)
  BY NoHit
<1>4. \A l \in Key : mapHas(chars, b, l) =>
        Canonical(l) \in DOMAIN Table(b) /\ Table(b)[Canonical(l)] = mapGet(chars, b, l)
  BY <1>1, TableIs
<1>5. \A l \in Key : mapHas(chars, m, l) =>
        Canonical(l) \in DOMAIN Table(m) /\ Table(m)[Canonical(l)] = mapGet(chars, m, l)
  BY TableIs
<1>6. /\ \A c \in DOMAIN Table(b) : \E l \in Key : mapHas(chars, b, l) /\ c = Canonical(l)
      /\ \A c \in DOMAIN Table(m) : \E l \in Key : mapHas(chars, m, l) /\ c = Canonical(l)
  BY DEF Table
<1>7. /\ Table(b) = [c \in DOMAIN Table(b) |-> Table(b)[c]]
      /\ Table(m) = [c \in DOMAIN Table(m) |-> Table(m)[c]]
  BY DEF Table
<1>8. CASE k \notin Acceptable
  <2>1. k = makeFloat(NaN)
    BY <1>8 DEF Acceptable
  <2>2. \A l \in Key : Canonical(l) = Canonical(k) => l = makeFloat(NaN)
    BY <1>2, <2>1, CanonicalNaN
  <2>3. /\ \A l \in Key : mapHas(chars, b, l) =>
             mapHas(chars, m, l) /\ mapGet(chars, b, l) = mapGet(chars, m, l)
        /\ \A l \in Key : mapHas(chars, m, l) => mapHas(chars, b, l)
    BY <1>1, <1>3, <2>2
  <2>4. DOMAIN Table(b) = DOMAIN Table(m)
    <3>1. \A c \in DOMAIN Table(b) : c \in DOMAIN Table(m)
      BY <1>5, <1>6, <2>3
    <3>2. \A c \in DOMAIN Table(m) : c \in DOMAIN Table(b)
      BY <1>4, <1>6, <2>3
    <3> QED
      BY <3>1, <3>2
  <2>5. \A c \in DOMAIN Table(b) : Table(b)[c] = Table(m)[c]
    <3>1. SUFFICES ASSUME NEW c \in DOMAIN Table(b) PROVE Table(b)[c] = Table(m)[c]
      OBVIOUS
    <3>2. PICK l \in Key : mapHas(chars, b, l) /\ c = Canonical(l)
      BY <1>6
    <3>3. Table(b)[c] = mapGet(chars, b, l)
      BY <1>4, <3>2
    <3>4. mapHas(chars, m, l) /\ mapGet(chars, b, l) = mapGet(chars, m, l)
      BY <2>3, <3>2
    <3>5. Table(m)[c] = mapGet(chars, m, l)
      BY <1>5, <3>2, <3>4
    <3> QED
      BY <3>3, <3>4, <3>5
  <2> QED
    BY <1>7, <1>8, <2>4, <2>5
<1>9. CASE k \in Acceptable
  <2>1. k # makeFloat(NaN)
    BY <1>9 DEF Acceptable
  <2>2. \A l \in Key : Canonical(l) = Canonical(k) => l # makeFloat(NaN)
    BY <1>2, <2>1, CanonicalNaN
  <2>3. mapHas(chars, b, k)
    BY <1>1, <2>1
  <2>4. DOMAIN Table(b) = DOMAIN Table(m) \cup {Canonical(k)}
    <3>1. \A c \in DOMAIN Table(b) : c \in DOMAIN Table(m) \cup {Canonical(k)}
      BY <1>1, <1>5, <1>6
    <3>2. \A c \in DOMAIN Table(m) \cup {Canonical(k)} : c \in DOMAIN Table(b)
      BY <1>1, <1>4, <1>6, <2>3
    <3> QED
      BY <3>1, <3>2
  <2>5. \A c \in DOMAIN Table(b) : Table(b)[c] = IF c = Canonical(k) THEN v ELSE Table(m)[c]
    <3>1. SUFFICES ASSUME NEW c \in DOMAIN Table(b)
                   PROVE  Table(b)[c] = IF c = Canonical(k) THEN v ELSE Table(m)[c]
      OBVIOUS
    <3>2. PICK l \in Key : mapHas(chars, b, l) /\ c = Canonical(l)
      BY <1>6
    <3>3. Table(b)[c] = mapGet(chars, b, l)
      BY <1>4, <3>2
    <3>4. CASE c = Canonical(k)
      BY <1>1, <3>2, <3>3, <3>4
    <3>5. CASE c # Canonical(k)
      <4>1. mapHas(chars, m, l)
        BY <1>1, <3>2, <3>5
      <4> QED
        BY <1>1, <1>5, <3>2, <3>3, <3>5, <4>1
    <3> QED
      BY <3>4, <3>5
  <2> QED
    BY <1>7, <1>9, <2>4, <2>5
<1> QED
  BY <1>8, <1>9

LEMMA LookupIs == Lookup = IF obj.type # "Map" THEN [k \in {} |-> k] ELSE Table(obj)
BY DEF Lookup, Table

\* The initial containers hold nothing.
LEMMA RefInit == Init => Abstract!Init
<1> SUFFICES ASSUME Init PROVE Abstract!Init
  OBVIOUS
<1>1. CInv /\ op = <<>>
  BY CInvInit DEF Init
<1>2. obj.count = 0 /\ (obj.type = "Array" \/ obj.type = "Map")
  BY DEF Init, allocateArray, allocateMap
<1>3. Elements = <<>>
  <2>1. CASE obj.type = "Array"
    <3>1. ArrayKept(obj)
      BY <1>1, <2>1, Kinds
    <3>2. obj.elements \in Seq(Value)
      BY <3>1 DEF ArrayKept, ArrayObj
    <3> QED
      BY <1>2, <2>1, <3>2, SubSeqProperties DEF Elements
  <2> QED
    BY <1>2, <2>1 DEF Elements
<1>4. Lookup = [k \in {} |-> k]
  <2>1. CASE obj.type = "Map"
    <3>1. MapKept(obj)
      BY <1>1, <2>1, Kinds
    <3>2. \A k \in Key : ~mapHas(chars, obj, k)
      BY <1>2, <3>1, NoHit
    <3>3. DOMAIN Table(obj) = {} /\ Table(obj) = [c \in DOMAIN Table(obj) |-> Table(obj)[c]]
      BY <3>2 DEF Table
    <3> QED
      BY <2>1, <3>3, LookupIs
  <2> QED
    BY <2>1, LookupIs
<1> QED
  BY <1>1, <1>3, <1>4 DEF Abstract!Init

\* Every operation is the abstract one of the same operands.
LEMMA RefStep == CInv /\ [Next]_vars => [Abstract!Next]_(Abstract!vars)
<1> SUFFICES ASSUME CInv, [Next]_vars PROVE [Abstract!Next]_(Abstract!vars)
  OBVIOUS
<1>1. Val \subseteq Value /\ MaxCount \in Nat
  BY ContainerAssumption
<1>2. ASSUME NEW v \in Val, Push(v) PROVE Abstract!Next
  <2>1. obj.type = "Array" /\ ArrayKept(obj) /\ obj.count < MaxCount
    BY <1>2, Kinds DEF Push
  <2>2. /\ ArrayKept(obj')
        /\ SubSeq(obj'.elements, 1, obj'.count) = Append(SubSeq(obj.elements, 1, obj.count), v)
    BY <1>1, <1>2, <2>1, PushIs DEF Push
  <2>3. obj'.type = "Array"
    BY <2>2 DEF ArrayKept, ArrayObj
  <2>4. Elements' = Append(Elements, v)
    BY <2>1, <2>2, <2>3 DEF Elements
  <2>5. Lookup' = Lookup
    BY <2>1, <2>3 DEF Lookup
  <2>6. Abstract!Push(v)
    BY <1>2, <2>4, <2>5 DEF Push, Abstract!Push
  <2> QED
    BY <2>6 DEF Abstract!Next
<1>3. ASSUME NEW v \in Val, NEW i \in -1..MaxCount, SetArray(i, v) PROVE Abstract!Next
  <2>1. obj.type = "Array" /\ ArrayKept(obj) /\ i \in Int
    BY <1>1, <1>3, Kinds DEF SetArray
  <2>2. /\ ArrayKept(obj') /\ i + 1 \in DOMAIN SubSeq(obj.elements, 1, obj.count)
        /\ SubSeq(obj'.elements, 1, obj'.count) =
             [SubSeq(obj.elements, 1, obj.count) EXCEPT ![i + 1] = v]
    BY <1>1, <1>3, <2>1, SetArrayIs DEF SetArray
  <2>3. obj'.type = "Array"
    BY <2>2 DEF ArrayKept, ArrayObj
  <2>4. i + 1 \in DOMAIN Elements /\ Elements' = [Elements EXCEPT ![i + 1] = v]
    BY <2>1, <2>2, <2>3 DEF Elements
  <2>5. Lookup' = Lookup
    BY <2>1, <2>3 DEF Lookup
  <2>6. Abstract!Put(i + 1, v)
    BY <1>3, <2>4, <2>5 DEF SetArray, Abstract!Put
  <2> QED
    BY <2>4, <2>6 DEF Abstract!Next
<1>4. ASSUME NEW k \in Key, NEW v \in Val, SetMap(k, v) PROVE Abstract!Next
  <2>1. obj.type = "Map" /\ MapKept(obj) /\ obj.count < MaxCount /\ obj' = mapSet(chars, obj, k, v)
    BY <1>4, Kinds DEF SetMap
  <2>2. MapKept(obj')
    BY <1>1, <2>1, MapSetIs
  <2>3. obj'.type = "Map"
    BY <2>2 DEF MapKept, MapObj
  <2>4. Elements' = Elements
    BY <2>1, <2>3 DEF Elements
  <2>5. Lookup = Table(obj) /\ Lookup' = Table(obj')
    BY <2>1, <2>3 DEF Lookup, Table
  <2>6. Table(obj') = IF k \notin Acceptable THEN Table(obj)
                      ELSE [c \in DOMAIN Table(obj) \cup {Canonical(k)} |->
                              IF c = Canonical(k) THEN v ELSE Table(obj)[c]]
    BY <1>1, <2>1, TableAfter
  <2>7. Abstract!Set(k, v)
    BY <1>4, <2>4, <2>5, <2>6 DEF SetMap, Abstract!Set
  <2> QED
    BY <2>7 DEF Abstract!Next
<1>5. CASE UNCHANGED vars
  BY <1>5 DEF vars, Abstract!vars, Elements, Lookup
<1> QED
  BY <1>2, <1>3, <1>4, <1>5 DEF Next

\* However its block grows, an array is the sequence of what was pushed, and a
\* map answers what was stored last under an equal key; no operation is lost.
THEOREM ContainersRefine == Spec => IsContainer
BY Invariant, RefInit, RefStep, PTL DEF Spec, IsContainer, Abstract!Spec
=============================================================================
