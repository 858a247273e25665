------------------------------ MODULE ObjectsProofs ------------------------------
(***************************************************************************)
(* References are counted, objects with references exist, and each object  *)
(* is deleted once, at once or in a worker thread, for any number of       *)
(* objects and threads.                                                    *)
(***************************************************************************)
EXTENDS Objects, FiniteSetTheorems, FunctionTheorems, SequenceTheorems, TLAPS

\* The counts of references, with what keeps them finite, and the pool a thread
\* drains.
CountInv ==
  /\ \A o \in Object : IsFiniteSet(Uses(held, pools, o))
  /\ ReferencesAreCounted
  /\ \A t \in closing : pools[t] # << >>

\* An actor that has a block in its hands.
Working(a) ==
  pc[a] \in {"decrement", "create", "delete", "store", "keep", "peek", "push"}

Distinct(s) == \A j, k \in 1 .. Len(s) : s[j] = s[k] => j = k

\* A block is an object with references, or in one of the lists, or in the hands of
\* one actor, or on the heap; a routine that has ended has freed all it flushed.
PlaceInv ==
  /\ Distinct(freeList) /\ Distinct(deferList)
  /\ \A d \in Deleter : Distinct(batch[d])
  /\ \A d \in Deleter : pc[d] = "idle" => batch[d] = << >>
  /\ \A a \in Actor : Working(a) => object[a] \in Object
  /\ \A o \in Object :
       /\ refCount[o] > 0 =>
            /\ o \notin Elements(freeList) /\ o \notin Elements(deferList)
            /\ \A d \in Deleter : o \notin Elements(batch[d])
            /\ \A a \in Actor : Working(a) => object[a] # o
       /\ o \in Elements(freeList) =>
            /\ o \notin Elements(deferList)
            /\ \A d \in Deleter : o \notin Elements(batch[d])
            /\ \A a \in Actor : Working(a) => object[a] # o
       /\ o \in Elements(deferList) =>
            /\ \A d \in Deleter : o \notin Elements(batch[d])
            /\ \A a \in Actor : Working(a) => object[a] # o
       /\ \A d, e \in Deleter : o \in Elements(batch[d]) /\ o \in Elements(batch[e])
          => d = e
       /\ \A d \in Deleter : o \in Elements(batch[d]) =>
            \A a \in Actor : Working(a) => object[a] # o
  /\ \A a, b \in Actor : Working(a) /\ Working(b) /\ object[a] = object[b] => a = b

\* NumberOfObjects counts what exists, and the client's table has no others.
ExistInv ==
  /\ IsFiniteSet(Existing) /\ ObjectIsDeletedOnce /\ ListedObjectIsStored

Doing(place) == {a \in Actor : pc[a] = place}

ListInv ==
  /\ IsFiniteSet(Doing("increment")) /\ IsFiniteSet(Doing("decrement"))
  /\ CountFollowsList

ObjectsIInv == TypeOK /\ CountInv /\ PlaceInv /\ ExistInv /\ ListInv

-----------------------------------------------------------------------------
(***************************************************************************)
(* Lists.                                                                  *)
(***************************************************************************)

\* A block is pushed on a list,
LEMMA PushElements ==
  ASSUME NEW S, NEW q \in Seq(S), NEW x \in S
  PROVE  /\ <<x>> \o q \in Seq(S) /\ Len(<<x>> \o q) = Len(q) + 1 /\ Len(q) \in Nat
         /\ Elements(<<x>> \o q) = Elements(q) \cup {x}
         /\ Distinct(q) /\ x \notin Elements(q) => Distinct(<<x>> \o q)
<1> DEFINE r == <<x>> \o q
<1>1. <<x>> \in Seq(S) /\ Len(<<x>>) = 1 /\ <<x>>[1] = x /\ Len(q) \in Nat
  OBVIOUS
<1>2. /\ r \in Seq(S) /\ Len(r) = Len(q) + 1
      /\ \A i \in 1 .. Len(<<x>>) + Len(q) :
           r[i] = IF i <= Len(<<x>>) THEN <<x>>[i] ELSE q[i - Len(<<x>>)]
  BY <1>1, ConcatProperties
<1>3. r[1] = x /\ 1 \in 1 .. Len(r)
  BY <1>1, <1>2
<1>4. \A i \in 1 .. Len(r) : i = 1 \/ (i - 1 \in 1 .. Len(q) /\ r[i] = q[i - 1])
  BY <1>1, <1>2
<1>5. \A i \in 1 .. Len(q) : i + 1 \in 1 .. Len(r) /\ r[i + 1] = q[i]
  BY <1>1, <1>2
<1> HIDE DEF r
<1>6. Elements(r) = Elements(q) \cup {x}
  <2>1. Elements(r) \subseteq Elements(q) \cup {x}
    BY <1>3, <1>4 DEF Elements
  <2>2. Elements(q) \subseteq Elements(r)
    BY <1>5 DEF Elements
  <2>3. x \in Elements(r)
    BY <1>3 DEF Elements
  <2> QED
    BY <2>1, <2>2, <2>3
<1>7. ASSUME Distinct(q), x \notin Elements(q) PROVE Distinct(r)
  <2> SUFFICES ASSUME NEW i \in 1 .. Len(r), NEW j \in 1 .. Len(r), r[i] = r[j]
               PROVE  i = j
    BY DEF Distinct
  <2>1. \A k \in 1 .. Len(q) : q[k] # x
    BY <1>7 DEF Elements
  <2>2. CASE i = 1 \/ j = 1
    BY <1>3, <1>4, <2>1, <2>2
  <2>3. CASE i # 1 /\ j # 1
    <3>1. i - 1 = j - 1
      BY <1>4, <1>7, <2>3 DEF Distinct
    <3> QED
      BY <1>1, <1>2, <3>1
  <2> QED
    BY <2>2, <2>3
<1> QED
  BY <1>1, <1>2, <1>6, <1>7 DEF r

\* or popped from it.
LEMMA PopElements ==
  ASSUME NEW S, NEW q \in Seq(S), q # << >>
  PROVE  /\ Tail(q) \in Seq(S) /\ Len(Tail(q)) = Len(q) - 1 /\ Len(q) \in Nat \ {0}
         /\ Head(q) \in S /\ Head(q) \in Elements(q)
         /\ Distinct(q) =>
              Distinct(Tail(q)) /\ Elements(Tail(q)) = Elements(q) \ {Head(q)}
<1> DEFINE r == Tail(q)
<1>1. /\ r \in Seq(S) /\ Len(r) = Len(q) - 1 /\ Len(q) \in Nat \ {0}
      /\ Head(q) = q[1] /\ Head(q) \in S /\ 1 \in 1 .. Len(q)
      /\ \A i \in 1 .. Len(r) : r[i] = q[i + 1] /\ i + 1 \in 1 .. Len(q)
  OBVIOUS
<1>2. \A i \in 1 .. Len(q) : i = 1 \/ (i - 1 \in 1 .. Len(r) /\ q[i] = r[i - 1])
  BY <1>1
<1> HIDE DEF r
<1>3. Head(q) \in Elements(q)
  BY <1>1 DEF Elements
<1>4. ASSUME Distinct(q) PROVE Distinct(r)
  <2> SUFFICES ASSUME NEW i \in 1 .. Len(r), NEW j \in 1 .. Len(r), r[i] = r[j]
               PROVE  i = j
    BY DEF Distinct
  <2>1. i + 1 = j + 1
    BY <1>1, <1>4 DEF Distinct
  <2> QED
    BY <1>1, <2>1
<1>5. ASSUME Distinct(q) PROVE Elements(r) = Elements(q) \ {Head(q)}
  <2>1. \A i \in 1 .. Len(r) : r[i] # Head(q)
    <3> SUFFICES ASSUME NEW i \in 1 .. Len(r), r[i] = Head(q) PROVE FALSE
      OBVIOUS
    <3>1. i + 1 = 1
      BY <1>1, <1>5 DEF Distinct
    <3> QED
      BY <1>1, <3>1
  <2>2. Elements(r) \subseteq Elements(q) \ {Head(q)}
    BY <1>1, <2>1 DEF Elements
  <2>3. Elements(q) \ {Head(q)} \subseteq Elements(r)
    BY <1>1, <1>2 DEF Elements
  <2> QED
    BY <2>2, <2>3
<1> QED
  BY <1>1, <1>3, <1>4, <1>5 DEF r

\* An empty list has no elements.
LEMMA NoElements == Elements(<< >>) = {} /\ Distinct(<< >>)
<1>1. Len(<< >>) = 0
  OBVIOUS
<1> QED
  BY <1>1 DEF Elements, Distinct

-----------------------------------------------------------------------------
(***************************************************************************)
(* References.                                                             *)
(***************************************************************************)

Holds == [Thread -> [Object -> Nat]]
Pools == [Thread -> Seq(Seq(Object))]

OwnUse(h, o, x) == \E t \in Thread : \E k \in 1 .. h[t][o] : x = <<t, 0, k>>

PoolUse(ps, o, x) ==
  \E t \in Thread : \E p \in 1 .. Len(ps[t]) : \E k \in 1 .. Len(ps[t][p]) :
    ps[t][p][k] = o /\ x = <<t, p, k>>

\* The steps of the references a thread has,
Taken(h, t, o) == [h EXCEPT ![t][o] = @ + 1]

Given(h, t, o) == [h EXCEPT ![t][o] = @ - 1]

\* and of those in its pools.
Pooled(ps, t, o) == [ps EXCEPT ![t][Len(ps[t])] = Append(@, o)]

Drained(ps, t) == [ps EXCEPT ![t][Len(ps[t])] = Tail(ps[t][Len(ps[t])])]

Made(ps, t) == [ps EXCEPT ![t] = Append(@, << >>)]

Deleted(ps, t) == [ps EXCEPT ![t] = SubSeq(@, 1, Len(ps[t]) - 1)]

\* What is a reference to an object.
LEMMA UsesMembers ==
  ASSUME NEW h, NEW ps, NEW o, NEW x
  PROVE  x \in Uses(h, ps, o) <=> OwnUse(h, o, x) \/ PoolUse(ps, o, x)
<1> DEFINE Own(t) == {<<t, 0, k>> : k \in 1 .. h[t][o]}
           InPool(t, p) ==
             {<<t, p, k>> : k \in {j \in 1 .. Len(ps[t][p]) : ps[t][p][j] = o}}
           AllPooled(t) == UNION {InPool(t, p) : p \in 1 .. Len(ps[t])}
           own == UNION {Own(t) : t \in Thread}
           pooled == UNION {AllPooled(t) : t \in Thread}
<1>1. Uses(h, ps, o) = own \cup pooled
  BY Zenon DEF Uses
<1>2. x \in own <=> \E t \in Thread : x \in Own(t)
  <2> HIDE DEF Own
  <2> QED
    OBVIOUS
<1>3. x \in pooled <=> \E t \in Thread : x \in AllPooled(t)
  <2> HIDE DEF AllPooled
  <2> QED
    OBVIOUS
<1>4. \A t : x \in AllPooled(t) <=> \E p \in 1 .. Len(ps[t]) : x \in InPool(t, p)
  <2> HIDE DEF InPool
  <2> QED
    OBVIOUS
<1>5. \A t : x \in Own(t) <=> \E k \in 1 .. h[t][o] : x = <<t, 0, k>>
  OBVIOUS
<1>6. \A t : \A p : x \in InPool(t, p) <=>
        \E k \in 1 .. Len(ps[t][p]) : ps[t][p][k] = o /\ x = <<t, p, k>>
  OBVIOUS
<1> HIDE DEF Own, InPool, AllPooled
<1>7. x \in own <=> OwnUse(h, o, x)
  <2> HIDE DEF own
  <2> QED
    BY <1>2, <1>5, Zenon DEF OwnUse
<1>8. x \in pooled <=> PoolUse(ps, o, x)
  <2> HIDE DEF pooled
  <2>1. x \in pooled <=>
          \E t \in Thread : \E p \in 1 .. Len(ps[t]) : x \in InPool(t, p)
    BY <1>3, <1>4, Zenon
  <2>2. ASSUME x \in pooled PROVE PoolUse(ps, o, x)
    <3>1. PICK t \in Thread : \E p \in 1 .. Len(ps[t]) : x \in InPool(t, p)
      BY <2>1, <2>2
    <3>2. PICK p \in 1 .. Len(ps[t]) : x \in InPool(t, p)
      BY <3>1
    <3> QED
      BY <1>6, <3>2 DEF PoolUse
  <2>3. ASSUME PoolUse(ps, o, x) PROVE x \in pooled
    BY <1>6, <2>1, <2>3 DEF PoolUse
  <2> QED
    BY <2>2, <2>3
<1> HIDE DEF own, pooled
<1> QED
  BY <1>1, <1>7, <1>8

\* A thread takes one more,
LEMMA UseTaken ==
  ASSUME NEW h \in Holds, NEW ps \in Pools, NEW t \in Thread, NEW o \in Object
  PROVE  /\ Taken(h, t, o) \in Holds
         /\ Uses(Taken(h, t, o), ps, o) = Uses(h, ps, o) \cup {<<t, 0, h[t][o] + 1>>}
         /\ <<t, 0, h[t][o] + 1>> \notin Uses(h, ps, o)
         /\ \A b \in Object : b # o => Uses(Taken(h, t, o), ps, b) = Uses(h, ps, b)
<1> DEFINE n == Taken(h, t, o)
           x == <<t, 0, h[t][o] + 1>>
<1>1. /\ n \in Holds /\ h[t][o] \in Nat /\ n[t][o] = h[t][o] + 1
      /\ \A s \in Thread : s # t => n[s] = h[s]
      /\ \A b \in Object : b # o => n[t][b] = h[t][b]
  BY DEF Holds, Taken
<1> HIDE DEF n
<1>2. \A b \in Object : b # o => \A s \in Thread : n[s][b] = h[s][b]
  BY <1>1
<1>3. ASSUME NEW b \in Object, b # o PROVE Uses(n, ps, b) = Uses(h, ps, b)
  <2>1. \A y : OwnUse(n, b, y) <=> OwnUse(h, b, y)
    BY <1>2, <1>3 DEF OwnUse
  <2> QED
    BY <2>1, UsesMembers
<1>4. x \notin Uses(h, ps, o)
  <2>1. ~(h[t][o] + 1 \in 1 .. h[t][o])
    BY <1>1
  <2>2. ~OwnUse(h, o, x)
    BY <2>1 DEF OwnUse
  <2>3. ~PoolUse(ps, o, x)
    BY DEF Pools, PoolUse
  <2> QED
    BY <2>2, <2>3, UsesMembers
<1>5. \A s \in Thread : \A k : k \in 1 .. n[s][o] <=>
        k \in 1 .. h[s][o] \/ (s = t /\ k = h[t][o] + 1)
  <2>1. \A k : k \in 1 .. h[t][o] + 1 <=> k \in 1 .. h[t][o] \/ k = h[t][o] + 1
    BY <1>1
  <2> QED
    BY <1>1, <2>1
<1>6. \A y : OwnUse(n, o, y) <=> OwnUse(h, o, y) \/ y = x
  <2> TAKE y
  <2>1. ASSUME OwnUse(n, o, y) PROVE OwnUse(h, o, y) \/ y = x
    BY <1>5, <2>1 DEF OwnUse
  <2>2. ASSUME OwnUse(h, o, y) PROVE OwnUse(n, o, y)
    BY <1>5, <2>2 DEF OwnUse
  <2>3. OwnUse(n, o, x)
    BY <1>5 DEF OwnUse
  <2> QED
    BY <2>1, <2>2, <2>3
<1>7. Uses(n, ps, o) = Uses(h, ps, o) \cup {x}
  <2> HIDE DEF x
  <2> QED
    BY <1>6, UsesMembers
<1> QED
  BY <1>1, <1>3, <1>4, <1>7 DEF n

\* or gives one up.
LEMMA UseGiven ==
  ASSUME NEW h \in Holds, NEW ps \in Pools, NEW t \in Thread, NEW o \in Object,
         h[t][o] > 0
  PROVE  /\ Given(h, t, o) \in Holds
         /\ Uses(Given(h, t, o), ps, o) = Uses(h, ps, o) \ {<<t, 0, h[t][o]>>}
         /\ <<t, 0, h[t][o]>> \in Uses(h, ps, o)
         /\ \A b \in Object : b # o => Uses(Given(h, t, o), ps, b) = Uses(h, ps, b)
<1> DEFINE n == Given(h, t, o)
           x == <<t, 0, h[t][o]>>
<1>1. /\ n \in Holds /\ h[t][o] \in Nat /\ n[t][o] + 1 = h[t][o] /\ n[t][o] \in Nat
      /\ \A s \in Thread : s # t => n[s] = h[s]
      /\ \A b \in Object : b # o => n[t][b] = h[t][b]
  <2>1. h[t][o] \in Nat /\ h[t][o] - 1 \in Nat
    BY DEF Holds
  <2> QED
    BY <2>1 DEF Holds, Given
<1> HIDE DEF n
<1>2. Taken(n, t, o) = h
  BY <1>1 DEF Holds, Taken
<1>3. /\ Uses(h, ps, o) = Uses(n, ps, o) \cup {<<t, 0, n[t][o] + 1>>}
      /\ <<t, 0, n[t][o] + 1>> \notin Uses(n, ps, o)
      /\ \A b \in Object : b # o => Uses(h, ps, b) = Uses(n, ps, b)
  BY <1>1, <1>2, UseTaken
<1>4. <<t, 0, n[t][o] + 1>> = x
  BY <1>1
<1> QED
  BY <1>1, <1>3, <1>4 DEF n

\* A reference is put into the current pool.
LEMMA CountPooled ==
  ASSUME NEW h, NEW ps \in Pools, NEW t \in Thread, NEW o \in Object, ps[t] # << >>,
         NEW a \in Object, IsFiniteSet(Uses(h, ps, a))
  PROVE  /\ IsFiniteSet(Uses(h, Pooled(ps, t, o), a))
         /\ a = o => Cardinality(Uses(h, Pooled(ps, t, o), a)) = Cardinality(Uses(h, ps, a)) + 1
         /\ a # o => Cardinality(Uses(h, Pooled(ps, t, o), a)) = Cardinality(Uses(h, ps, a))
<1> DEFINE c  == Len(ps[t])
           qs == Pooled(ps, t, o)
           l  == Len(ps[t][c])
           x  == <<t, c, l + 1>>
<1>1. ps[t] \in Seq(Seq(Object)) /\ c \in Nat /\ c \in 1 .. c /\ c # 0
  BY DEF Pools
<1>2. ps[t][c] \in Seq(Object) /\ l \in Nat
  BY <1>1
<1>3. Append(ps[t][c], o) \in Seq(Object)
  BY <1>2
<1>4. qs[t] = [ps[t] EXCEPT ![c] = Append(ps[t][c], o)] /\ \A s \in Thread : s # t
      => qs[s] = ps[s]
  BY DEF Pools, Pooled
<1>5. qs[t] \in Seq(Seq(Object)) /\ Len(qs[t]) = c
  BY <1>1, <1>3, <1>4
<1>7. /\ qs[t][c] = Append(ps[t][c], o)
      /\ \A p \in 1 .. c : p # c => qs[t][p] = ps[t][p]
  BY <1>1, <1>4
<1>8. /\ Len(qs[t][c]) = l + 1 /\ qs[t][c][l + 1] = o
      /\ \A k \in 1 .. l : qs[t][c][k] = ps[t][c][k]
  BY <1>2, <1>7
<1>9. \A k : k \in 1 .. l + 1 <=> k \in 1 .. l \/ k = l + 1
  BY <1>2
<1>10. ~(l + 1 \in 1 .. l)
  BY <1>2
<1>11. qs[t] # << >> /\ c \in 1 .. Len(qs[t])
  BY <1>1, <1>5
<1> HIDE DEF qs, l, c
<1>12. /\ \A s \in Thread : Len(qs[s]) = Len(ps[s])
       /\ \A s \in Thread : \A p \in 1 .. Len(ps[s]) : (s # t \/ p # c)
          => qs[s][p] = ps[s][p]
  BY <1>4, <1>5, <1>7 DEF c
<1>13. ASSUME NEW b, NEW y, PoolUse(qs, b, y) PROVE PoolUse(ps, b, y) \/ (b = o /\ y = x)
  <2>1. PICK s \in Thread : \E p \in 1 .. Len(qs[s]) : \E k \in 1 .. Len(qs[s][p]) :
               qs[s][p][k] = b /\ y = <<s, p, k>>
    BY <1>13 DEF PoolUse
  <2>2. PICK p \in 1 .. Len(qs[s]) : \E k \in 1 .. Len(qs[s][p]) :
               qs[s][p][k] = b /\ y = <<s, p, k>>
    BY <2>1
  <2>3. PICK k \in 1 .. Len(qs[s][p]) : qs[s][p][k] = b /\ y = <<s, p, k>>
    BY <2>2
  <2>4. p \in 1 .. Len(ps[s])
    BY <1>12
  <2>5. CASE s = t /\ p = c
    <3>1. k \in 1 .. l \/ k = l + 1
      BY <1>8, <1>9, <2>5
    <3>2. CASE k = l + 1
      BY <1>8, <2>3, <2>5, <3>2
    <3>3. CASE k \in 1 .. l
      BY <1>8, <2>3, <2>4, <2>5, <3>3 DEF PoolUse, l
    <3> QED
      BY <3>1, <3>2, <3>3
  <2>6. CASE s # t \/ p # c
    <3>1. qs[s][p] = ps[s][p]
      BY <1>12, <2>4, <2>6
    <3> QED
      BY <2>3, <2>4, <3>1 DEF PoolUse
  <2> QED
    BY <2>5, <2>6
<1>14. ASSUME NEW b, NEW y, PoolUse(ps, b, y) PROVE PoolUse(qs, b, y)
  <2>1. PICK s \in Thread : \E p \in 1 .. Len(ps[s]) : \E k \in 1 .. Len(ps[s][p]) :
               ps[s][p][k] = b /\ y = <<s, p, k>>
    BY <1>14 DEF PoolUse
  <2>2. PICK p \in 1 .. Len(ps[s]) : \E k \in 1 .. Len(ps[s][p]) :
               ps[s][p][k] = b /\ y = <<s, p, k>>
    BY <2>1
  <2>3. PICK k \in 1 .. Len(ps[s][p]) : ps[s][p][k] = b /\ y = <<s, p, k>>
    BY <2>2
  <2>4. p \in 1 .. Len(qs[s])
    BY <1>12
  <2>5. k \in 1 .. Len(qs[s][p]) /\ qs[s][p][k] = b
    <3>1. CASE s = t /\ p = c
      BY <1>8, <1>9, <2>3, <3>1 DEF l
    <3>2. CASE s # t \/ p # c
      BY <1>12, <2>3, <3>2
    <3> QED
      BY <3>1, <3>2
  <2> QED
    BY <2>3, <2>4, <2>5 DEF PoolUse
<1>15. PoolUse(qs, o, x)
  <2>1. l + 1 \in 1 .. Len(qs[t][c])
    BY <1>8, <1>9
  <2> QED
    BY <1>8, <1>11, <2>1 DEF PoolUse
<1>16. ~PoolUse(ps, o, x)
  BY <1>10 DEF PoolUse, l
<1>17. ~OwnUse(h, o, x)
  BY <1>1 DEF OwnUse
<1> HIDE DEF x
<1>18. Uses(h, qs, o) = Uses(h, ps, o) \cup {x} /\ x \notin Uses(h, ps, o)
  <2>1. \A y : PoolUse(qs, o, y) <=> PoolUse(ps, o, y) \/ y = x
    BY <1>13, <1>14, <1>15
  <2> QED
    BY <1>16, <1>17, <2>1, UsesMembers
<1>19. ASSUME NEW b \in Object, b # o PROVE Uses(h, qs, b) = Uses(h, ps, b)
  <2>1. \A y : PoolUse(qs, b, y) <=> PoolUse(ps, b, y)
    BY <1>13, <1>14, <1>19
  <2>2. \A y : y \in Uses(h, qs, b) <=> y \in Uses(h, ps, b)
    BY <2>1, UsesMembers
  <2> QED
    BY <2>2
<1>20. CASE a = o
  BY <1>18, <1>20, FS_AddElement DEF qs
<1>21. CASE a # o
  BY <1>19, <1>21 DEF qs
<1> QED
  BY <1>20, <1>21

\* A pool that is made or taken away is empty: pools that differ only in empty
\* ones have the same references.
LEMMA EmptyPools ==
  ASSUME NEW h, NEW ps, NEW qs,
         \A s \in Thread : \A p \in 1 .. Len(ps[s]) :
           (p \in 1 .. Len(qs[s]) /\ qs[s][p] = ps[s][p]) \/ Len(ps[s][p]) = 0,
         \A s \in Thread : \A p \in 1 .. Len(qs[s]) :
           (p \in 1 .. Len(ps[s]) /\ qs[s][p] = ps[s][p]) \/ Len(qs[s][p]) = 0
  PROVE  \A b : Uses(h, qs, b) = Uses(h, ps, b)
<1>1. \A i : i = 0 => \A k \in 1 .. i : FALSE
  OBVIOUS
<1>2. ASSUME NEW b, NEW y PROVE PoolUse(ps, b, y) => PoolUse(qs, b, y)
  BY <1>1 DEF PoolUse
<1>3. ASSUME NEW b, NEW y PROVE PoolUse(qs, b, y) => PoolUse(ps, b, y)
  BY <1>1 DEF PoolUse
<1>4. ASSUME NEW b PROVE Uses(h, qs, b) = Uses(h, ps, b)
  <2>1. ASSUME NEW y PROVE y \in Uses(h, qs, b) <=> y \in Uses(h, ps, b)
    <3>1. /\ y \in Uses(h, qs, b) <=> OwnUse(h, b, y) \/ PoolUse(qs, b, y)
          /\ y \in Uses(h, ps, b) <=> OwnUse(h, b, y) \/ PoolUse(ps, b, y)
      BY UsesMembers
    <3> QED
      BY <1>2, <1>3, <3>1
  <2> QED
    BY <2>1
<1> QED
  BY <1>4

LEMMA UsePoolMade ==
  ASSUME NEW h, NEW ps \in Pools, NEW t \in Thread
  PROVE  LET qs == Made(ps, t) IN
         /\ qs \in Pools /\ qs[t] # << >> /\ \A s \in Thread : s # t => qs[s] = ps[s]
         /\ \A b : Uses(h, qs, b) = Uses(h, ps, b)
<1> DEFINE c  == Len(ps[t])
           qs == Made(ps, t)
<1>1. ps[t] \in Seq(Seq(Object)) /\ c \in Nat /\ << >> \in Seq(Object) /\ Len(<< >>) = 0
  BY DEF Pools
<1>2. qs[t] = Append(ps[t], << >>) /\ \A s \in Thread : s # t => qs[s] = ps[s]
  BY DEF Pools, Made
<1> HIDE DEF qs
<1>3. /\ Append(ps[t], << >>) \in Seq(Seq(Object))
      /\ Len(Append(ps[t], << >>)) = c + 1
      /\ Append(ps[t], << >>)[c + 1] = << >>
      /\ \A p \in 1 .. c : Append(ps[t], << >>)[p] = ps[t][p]
  BY <1>1, AppendProperties
<1>4. /\ qs[t] \in Seq(Seq(Object)) /\ Len(qs[t]) = c + 1
      /\ Len(qs[t][c + 1]) = 0 /\ \A p \in 1 .. c : qs[t][p] = ps[t][p]
  BY <1>1, <1>2, <1>3
<1>5. qs[t] # << >>
  BY <1>1, <1>4
<1>6. qs \in Pools
  <2>1. qs = [ps EXCEPT ![t] = qs[t]]
    BY DEF qs, Made, Pools
  <2> QED
    BY <1>4, <2>1 DEF Pools
<1>7. \A p : p \in 1 .. c + 1 <=> p \in 1 .. c \/ p = c + 1
  BY <1>1
<1>8. /\ \A s \in Thread : \A p \in 1 .. Len(ps[s]) :
           (p \in 1 .. Len(qs[s]) /\ qs[s][p] = ps[s][p]) \/ Len(ps[s][p]) = 0
      /\ \A s \in Thread : \A p \in 1 .. Len(qs[s]) :
           (p \in 1 .. Len(ps[s]) /\ qs[s][p] = ps[s][p]) \/ Len(qs[s][p]) = 0
  BY <1>2, <1>4, <1>7 DEF qs
<1>9. \A b : Uses(h, qs, b) = Uses(h, ps, b)
  BY <1>8, EmptyPools
<1> QED
  BY <1>2, <1>5, <1>6, <1>9 DEF qs

LEMMA UsePoolDeleted ==
  ASSUME NEW h, NEW ps \in Pools, NEW t \in Thread, ps[t] # << >>,
         ps[t][Len(ps[t])] = << >>
  PROVE  LET qs == Deleted(ps, t) IN
         /\ qs \in Pools /\ \A s \in Thread : s # t => qs[s] = ps[s]
         /\ \A b : Uses(h, qs, b) = Uses(h, ps, b)
<1> DEFINE c  == Len(ps[t])
           qs == Deleted(ps, t)
<1>1. ps[t] \in Seq(Seq(Object)) /\ c \in Nat /\ c # 0 /\ Len(<< >>) = 0
  BY DEF Pools
<1>2. qs[t] = SubSeq(ps[t], 1, c - 1) /\ \A s \in Thread : s # t => qs[s] = ps[s]
  BY DEF Pools, Deleted
<1>3. /\ qs[t] \in Seq(Seq(Object)) /\ Len(qs[t]) = c - 1
      /\ \A p \in 1 .. c - 1 : qs[t][p] = ps[t][p]
  BY <1>1, <1>2
<1> HIDE DEF qs
<1>4. qs \in Pools
  <2>1. qs = [ps EXCEPT ![t] = qs[t]]
    BY DEF qs, Deleted, Pools
  <2> QED
    BY <1>3, <2>1 DEF Pools
<1>5. /\ Len(ps[t][c]) = 0
      /\ \A p : p \in 1 .. c <=> p \in 1 .. c - 1 \/ p = c
  BY <1>1
<1>6. /\ \A s \in Thread : \A p \in 1 .. Len(ps[s]) :
           (p \in 1 .. Len(qs[s]) /\ qs[s][p] = ps[s][p]) \/ Len(ps[s][p]) = 0
      /\ \A s \in Thread : \A p \in 1 .. Len(qs[s]) :
           (p \in 1 .. Len(ps[s]) /\ qs[s][p] = ps[s][p]) \/ Len(qs[s][p]) = 0
  BY <1>2, <1>3, <1>5
<1>7. \A b : Uses(h, qs, b) = Uses(h, ps, b)
  BY <1>6, EmptyPools
<1> QED
  BY <1>2, <1>4, <1>7 DEF qs

-----------------------------------------------------------------------------
(***************************************************************************)
(* Draining a pool, and the counts.                                        *)
(***************************************************************************)

\* The first reference of the current pool is given up; the others move up by one.
LEMMA CountDrained ==
  ASSUME NEW h, NEW ps \in Pools, NEW t \in Thread, ps[t] # << >>,
         ps[t][Len(ps[t])] # << >>, NEW b, IsFiniteSet(Uses(h, ps, b))
  PROVE  /\ IsFiniteSet(Uses(h, Drained(ps, t), b))
         /\ b = Head(ps[t][Len(ps[t])]) =>
              /\ Uses(h, ps, b) # {}
              /\ Cardinality(Uses(h, Drained(ps, t), b)) = Cardinality(Uses(h, ps, b)) - 1
         /\ b # Head(ps[t][Len(ps[t])]) =>
              Cardinality(Uses(h, Drained(ps, t), b)) = Cardinality(Uses(h, ps, b))
<1> DEFINE c  == Len(ps[t])
           l  == Len(ps[t][c])
           qs == Drained(ps, t)
           o  == Head(ps[t][c])
           x  == <<t, c, 1>>
           V  == Uses(h, qs, b)
           D  == Uses(h, ps, b) \ {x}
           Here(y) == y[1] = t /\ y[2] = c
           Shift == [y \in V |-> IF Here(y) THEN <<t, c, y[3] + 1>> ELSE y]
<1>1. ps[t] \in Seq(Seq(Object)) /\ c \in Nat /\ c \in 1 .. c /\ c # 0
  BY DEF Pools
<1>2. ps[t][c] \in Seq(Object) /\ l \in Nat \ {0} /\ ps[t][c] # << >>
  BY <1>1
<1>3. /\ Tail(ps[t][c]) \in Seq(Object) /\ Len(Tail(ps[t][c])) = l - 1
      /\ o = ps[t][c][1]
      /\ \A k \in 1 .. l - 1 : Tail(ps[t][c])[k] = ps[t][c][k + 1]
  BY <1>2
<1>4. /\ qs[t] = [ps[t] EXCEPT ![c] = Tail(ps[t][c])]
      /\ \A s \in Thread : s # t => qs[s] = ps[s]
  BY DEF Pools, Drained
<1>5. qs[t] \in Seq(Seq(Object)) /\ Len(qs[t]) = c /\ qs[t] # << >>
  BY <1>1, <1>3, <1>4
<1>6. /\ qs[t][c] = Tail(ps[t][c])
      /\ \A p \in 1 .. c : p # c => qs[t][p] = ps[t][p]
  BY <1>1, <1>4
<1>7. /\ Len(qs[t][c]) = l - 1
      /\ \A k \in 1 .. l - 1 : qs[t][c][k] = ps[t][c][k + 1]
  BY <1>3, <1>6
<1> HIDE DEF qs, l, c, o
<1>8. /\ \A s \in Thread : Len(qs[s]) = Len(ps[s])
      /\ \A s \in Thread : \A p \in 1 .. Len(ps[s]) : s # t \/ p # c => qs[s][p] = ps[s][p]
  BY <1>4, <1>5, <1>6 DEF c
<1>9. \A s : \A p : \A k : <<s, p, k>>[1] = s /\ <<s, p, k>>[2] = p /\ <<s, p, k>>[3] = k
  OBVIOUS
<1>10. ASSUME NEW y \in V
       PROVE  \/ ~Here(y) /\ y \in D
              \/ \E k \in 1 .. l - 1 : y = <<t, c, k>> /\ <<t, c, k + 1>> \in D
  <2>1. CASE OwnUse(h, b, y)
    <3>1. PICK s \in Thread : \E k \in 1 .. h[s][b] : y = <<s, 0, k>>
      BY <2>1 DEF OwnUse
    <3>2. PICK k \in 1 .. h[s][b] : y = <<s, 0, k>>
      BY <3>1
    <3>3. y[2] = 0 /\ ~Here(y) /\ y # x
      BY <1>1, <1>9, <3>2
    <3> QED
      BY <2>1, <3>3, UsesMembers
  <2>2. CASE PoolUse(qs, b, y)
    <3>1. PICK s \in Thread : \E p \in 1 .. Len(qs[s]) : \E k \in 1 .. Len(qs[s][p]) :
                 qs[s][p][k] = b /\ y = <<s, p, k>>
      BY <2>2 DEF PoolUse
    <3>2. PICK p \in 1 .. Len(qs[s]) : \E k \in 1 .. Len(qs[s][p]) :
                 qs[s][p][k] = b /\ y = <<s, p, k>>
      BY <3>1
    <3>3. PICK k \in 1 .. Len(qs[s][p]) : qs[s][p][k] = b /\ y = <<s, p, k>>
      BY <3>2
    <3>4. p \in 1 .. Len(ps[s])
      BY <1>8
    <3>5. CASE s = t /\ p = c
      <4>1. k \in 1 .. l - 1 /\ ps[t][c][k + 1] = b
        BY <1>7, <3>3, <3>5
      <4>2. k + 1 \in 1 .. Len(ps[t][c]) /\ k + 1 # 1
        BY <1>2, <4>1 DEF l
      <4>3. PoolUse(ps, b, <<t, c, k + 1>>)
        BY <3>4, <3>5, <4>1, <4>2 DEF PoolUse
      <4>4. <<t, c, k + 1>> # x
        BY <4>2
      <4> QED
        BY <3>3, <3>5, <4>1, <4>3, <4>4, UsesMembers
    <3>6. CASE s # t \/ p # c
      <4>1. qs[s][p] = ps[s][p]
        BY <1>8, <3>4, <3>6
      <4>2. PoolUse(ps, b, y)
        BY <3>3, <3>4, <4>1 DEF PoolUse
      <4>3. ~Here(y) /\ y # x
        BY <1>9, <3>3, <3>6
      <4> QED
        BY <4>2, <4>3, UsesMembers
    <3> QED
      BY <3>5, <3>6
  <2> QED
    BY <2>1, <2>2, UsesMembers
<1>11. ASSUME NEW y \in D
       PROVE  \/ ~Here(y) /\ y \in V
              \/ \E k \in 1 .. l - 1 : y = <<t, c, k + 1>> /\ <<t, c, k>> \in V
  <2>1. CASE OwnUse(h, b, y)
    <3>1. PICK s \in Thread : \E k \in 1 .. h[s][b] : y = <<s, 0, k>>
      BY <2>1 DEF OwnUse
    <3>2. PICK k \in 1 .. h[s][b] : y = <<s, 0, k>>
      BY <3>1
    <3>3. y[2] = 0 /\ ~Here(y)
      BY <1>1, <1>9, <3>2
    <3> QED
      BY <2>1, <3>3, UsesMembers
  <2>2. CASE PoolUse(ps, b, y)
    <3>1. PICK s \in Thread : \E p \in 1 .. Len(ps[s]) : \E k \in 1 .. Len(ps[s][p]) :
                 ps[s][p][k] = b /\ y = <<s, p, k>>
      BY <2>2 DEF PoolUse
    <3>2. PICK p \in 1 .. Len(ps[s]) : \E k \in 1 .. Len(ps[s][p]) :
                 ps[s][p][k] = b /\ y = <<s, p, k>>
      BY <3>1
    <3>3. PICK k \in 1 .. Len(ps[s][p]) : ps[s][p][k] = b /\ y = <<s, p, k>>
      BY <3>2
    <3>4. p \in 1 .. Len(qs[s])
      BY <1>8
    <3>5. CASE s = t /\ p = c
      <4>1. k \in 1 .. l /\ k # 1
        BY <3>3, <3>5 DEF l
      <4>2. PICK j \in 1 .. l - 1 : k = j + 1
        <5>1. k - 1 \in 1 .. l - 1 /\ k = (k - 1) + 1
          BY <1>2, <4>1
        <5> QED
          BY <5>1
      <4>3. j \in 1 .. Len(qs[t][c]) /\ qs[t][c][j] = b
        BY <1>7, <3>3, <3>5, <4>2
      <4>4. PoolUse(qs, b, <<t, c, j>>)
        BY <3>4, <3>5, <4>3 DEF PoolUse
      <4> QED
        BY <3>3, <3>5, <4>2, <4>4, UsesMembers
    <3>6. CASE s # t \/ p # c
      <4>1. qs[s][p] = ps[s][p]
        BY <1>8, <3>6
      <4>2. PoolUse(qs, b, y)
        BY <3>3, <3>4, <4>1 DEF PoolUse
      <4>3. ~Here(y)
        BY <1>9, <3>3, <3>6
      <4> QED
        BY <4>2, <4>3, UsesMembers
    <3> QED
      BY <3>5, <3>6
  <2> QED
    BY <2>1, <2>2, UsesMembers
<1>12. \A k : Here(<<t, c, k>>) /\ <<t, c, k>>[3] = k
  BY <1>9
<1>13. x \in Uses(h, ps, b) <=> b = o
  <2>1. 1 \in 1 .. l
    BY <1>2
  <2>2. ~OwnUse(h, b, x)
    BY <1>1 DEF OwnUse
  <2>3. PoolUse(ps, b, x) <=> ps[t][c][1] = b
    BY <1>1, <2>1 DEF PoolUse, l, c
  <2> QED
    BY <1>3, <2>2, <2>3, UsesMembers
<1> HIDE DEF V, D, Here, x
<1>14. \A y \in V : /\ ~Here(y) => Shift[y] = y /\ y \in D
                    /\ Here(y) => \E k \in 1 .. l - 1 :
                         y = <<t, c, k>> /\ Shift[y] = <<t, c, k + 1>> /\ Shift[y] \in D
  BY <1>10, <1>12
<1>15. Shift \in [V -> D]
  BY <1>14
<1>16. ASSUME NEW y \in V, NEW z \in V, Shift[y] = Shift[z] PROVE y = z
  <2>1. CASE Here(y) /\ Here(z)
    <3>1. PICK j \in 1 .. l - 1 : y = <<t, c, j>> /\ Shift[y] = <<t, c, j + 1>>
      BY <1>14, <2>1
    <3>2. PICK k \in 1 .. l - 1 : z = <<t, c, k>> /\ Shift[z] = <<t, c, k + 1>>
      BY <1>14, <2>1
    <3>3. j + 1 = k + 1
      BY <1>16, <3>1, <3>2
    <3> QED
      BY <3>1, <3>2, <3>3
  <2>2. CASE Here(y) /\ ~Here(z)
    BY <1>12, <1>14, <1>16, <2>2
  <2>3. CASE ~Here(y) /\ Here(z)
    BY <1>12, <1>14, <1>16, <2>3
  <2>4. CASE ~Here(y) /\ ~Here(z)
    BY <1>14, <1>16, <2>4
  <2> QED
    BY <2>1, <2>2, <2>3, <2>4
<1>17. ASSUME NEW y \in D PROVE \E z \in V : Shift[z] = y
  <2>1. CASE ~Here(y) /\ y \in V
    BY <1>14, <2>1
  <2>2. CASE \E k \in 1 .. l - 1 : y = <<t, c, k + 1>> /\ <<t, c, k>> \in V
    <3>1. PICK k \in 1 .. l - 1 : y = <<t, c, k + 1>> /\ <<t, c, k>> \in V
      BY <2>2
    <3>2. Shift[<<t, c, k>>] = <<t, c, k + 1>>
      BY <1>12, <3>1
    <3> QED
      BY <3>1, <3>2
  <2> QED
    BY <1>11, <2>1, <2>2
<1> HIDE DEF Shift
<1>18. Shift \in Bijection(V, D)
  BY <1>15, <1>16, <1>17, Fun_IsBij
<1>19. ExistsBijection(D, V)
  BY <1>18, Fun_ExistsBij, Fun_ExistsBijSymmetric
<1>20. /\ IsFiniteSet(D)
       /\ Cardinality(D) =
            IF b = o THEN Cardinality(Uses(h, ps, b)) - 1 ELSE Cardinality(Uses(h, ps, b))
  BY <1>13, FS_RemoveElement DEF D
<1>21. IsFiniteSet(V) /\ Cardinality(V) = Cardinality(D)
  BY <1>19, <1>20, FS_Bijection
<1> QED
  BY <1>13, <1>20, <1>21 DEF V, qs, c, o

\* The pools of the others, and the current one.
LEMMA PoolsKept ==
  ASSUME NEW ps \in Pools, NEW t \in Thread, ps[t] # << >>, NEW s \in Thread
  PROVE  /\ Drained(ps, t)[t] # << >> /\ (s # t => Drained(ps, t)[s] = ps[s])
         /\ \A o : Pooled(ps, t, o)[t] # << >> /\ (s # t => Pooled(ps, t, o)[s] = ps[s])
<1>1. ps[t] \in Seq(Seq(Object)) /\ Len(ps[t]) \in 1 .. Len(ps[t])
  BY DEF Pools
<1>2. ASSUME NEW f
      PROVE  /\ [ps EXCEPT ![t][Len(ps[t])] = f][t] = [ps[t] EXCEPT ![Len(ps[t])] = f]
             /\ s # t => [ps EXCEPT ![t][Len(ps[t])] = f][s] = ps[s]
  BY DEF Pools
<1>3. ASSUME NEW f PROVE [ps[t] EXCEPT ![Len(ps[t])] = f] # << >>
  <2>1. DOMAIN [ps[t] EXCEPT ![Len(ps[t])] = f] = 1 .. Len(ps[t]) /\ DOMAIN << >> = {}
    BY <1>1
  <2> QED
    BY <1>1, <2>1
<1> QED
  BY <1>2, <1>3 DEF Drained, Pooled

\* What these steps do to the number of references to an object.
LEMMA CountTaken ==
  ASSUME NEW h \in Holds, NEW ps \in Pools, NEW t \in Thread, NEW o \in Object,
         NEW b \in Object, IsFiniteSet(Uses(h, ps, b))
  PROVE  /\ IsFiniteSet(Uses(Taken(h, t, o), ps, b))
         /\ b = o => Cardinality(Uses(Taken(h, t, o), ps, b)) = Cardinality(Uses(h, ps, b)) + 1
         /\ b # o => Cardinality(Uses(Taken(h, t, o), ps, b)) = Cardinality(Uses(h, ps, b))
<1>1. /\ Taken(h, t, o) \in Holds
      /\ Uses(Taken(h, t, o), ps, o) = Uses(h, ps, o) \cup {<<t, 0, h[t][o] + 1>>}
      /\ <<t, 0, h[t][o] + 1>> \notin Uses(h, ps, o)
      /\ \A c \in Object : c # o => Uses(Taken(h, t, o), ps, c) = Uses(h, ps, c)
  BY UseTaken
<1>2. CASE b = o
  BY <1>1, <1>2, FS_AddElement
<1>3. CASE b # o
  BY <1>1, <1>3
<1> QED
  BY <1>2, <1>3

LEMMA CountGiven ==
  ASSUME NEW h \in Holds, NEW ps \in Pools, NEW t \in Thread, NEW o \in Object,
         h[t][o] > 0, NEW b \in Object, IsFiniteSet(Uses(h, ps, b))
  PROVE  /\ IsFiniteSet(Uses(Given(h, t, o), ps, b))
         /\ b = o => Cardinality(Uses(Given(h, t, o), ps, b)) = Cardinality(Uses(h, ps, b)) - 1
         /\ b # o => Cardinality(Uses(Given(h, t, o), ps, b)) = Cardinality(Uses(h, ps, b))
<1>1. /\ Given(h, t, o) \in Holds
      /\ Uses(Given(h, t, o), ps, o) = Uses(h, ps, o) \ {<<t, 0, h[t][o]>>}
      /\ <<t, 0, h[t][o]>> \in Uses(h, ps, o)
      /\ \A c \in Object : c # o => Uses(Given(h, t, o), ps, c) = Uses(h, ps, c)
  BY UseGiven
<1>2. CASE b = o
  BY <1>1, <1>2, FS_RemoveElement
<1>3. CASE b # o
  BY <1>1, <1>3
<1> QED
  BY <1>2, <1>3

\* The count follows the references.
LEMMA UsesAreCounted ==
  ASSUME CountInv,
         \A b \in Object :
           /\ IsFiniteSet(Uses(held', pools', b))
           /\ Cardinality(Uses(held', pools', b)) =
                Cardinality(Uses(held, pools, b)) + (refCount'[b] - refCount[b]),
         \A b \in Object : refCount[b] \in Int /\ refCount'[b] \in Int,
         \A s \in closing' : pools'[s] # << >>
  PROVE  CountInv'
<1>1. \A b \in Object : refCount[b] = Cardinality(Uses(held, pools, b))
  BY DEF CountInv, ReferencesAreCounted
<1>2. \A b \in Object : refCount'[b] = Cardinality(Uses(held', pools', b))
  BY <1>1
<1> QED
  BY <1>2 DEF CountInv, ReferencesAreCounted

\* A reference of a thread, or the next one of its current pool, is counted; an
\* object whose count is 0 has none.
LEMMA HeldIsCounted ==
  ASSUME TypeOK, CountInv, NEW t \in Thread, NEW o \in Object, held[t][o] > 0
  PROVE  refCount[o] > 0
<1>1. held[t][o] \in Nat /\ 1 \in 1 .. held[t][o]
  BY DEF TypeOK
<1>2. <<t, 0, 1>> \in Uses(held, pools, o)
  BY <1>1, UsesMembers DEF OwnUse
<1>3. Cardinality(Uses(held, pools, o)) # 0
  BY <1>2, FS_EmptySet DEF CountInv
<1> QED
  BY <1>3 DEF TypeOK, CountInv, ReferencesAreCounted

LEMMA PooledIsCounted ==
  ASSUME TypeOK, CountInv, NEW t \in Thread, pools[t] # << >>,
         pools[t][Len(pools[t])] # << >>
  PROVE  /\ Head(pools[t][Len(pools[t])]) \in Object
         /\ refCount[Head(pools[t][Len(pools[t])])] > 0
<1> DEFINE o == Head(pools[t][Len(pools[t])])
<1>1. pools \in Pools
  BY DEF TypeOK, Pools
<1>2. pools[t] \in Seq(Seq(Object)) /\ Len(pools[t]) \in 1 .. Len(pools[t])
  BY <1>1 DEF Pools
<1>3. o \in Object
  BY <1>2
<1> HIDE DEF o
<1>4. IsFiniteSet(Uses(held, pools, o))
  BY <1>3 DEF CountInv
<1>5. Uses(held, pools, o) # {}
  BY <1>1, <1>4, CountDrained DEF o
<1>6. Cardinality(Uses(held, pools, o)) # 0
  BY <1>4, <1>5, FS_EmptySet
<1>7. refCount[o] > 0
  BY <1>3, <1>6 DEF TypeOK, CountInv, ReferencesAreCounted
<1> QED
  BY <1>3, <1>7 DEF o

LEMMA UnusedObject ==
  ASSUME TypeOK, CountInv, NEW o \in Object, refCount[o] = 0
  PROVE  \A t \in Thread : held[t][o] = 0
<1> SUFFICES ASSUME NEW t \in Thread, held[t][o] # 0 PROVE FALSE
  OBVIOUS
<1>1. held[t][o] > 0
  BY DEF TypeOK
<1> QED
  BY <1>1, HeldIsCounted

\* The types that the lemmas on references need.
LEMMA ReferenceTypes ==
  ASSUME TypeOK, CountInv
  PROVE  /\ held \in Holds /\ pools \in Pools /\ closing \subseteq Thread
         /\ \A b \in Object : IsFiniteSet(Uses(held, pools, b)) /\ refCount[b] \in Int
         /\ \A b \in Object : Cardinality(Uses(held, pools, b)) \in Int
         /\ \A s \in closing : pools[s] # << >>
BY FS_CardinalityType DEF TypeOK, CountInv, Holds, Pools

-----------------------------------------------------------------------------
(***************************************************************************)
(* The steps that preserve the inductive invariant.                        *)
(***************************************************************************)

\* The references and their counts.
LEMMA CountStep ==
  TypeOK /\ CountInv /\ PlaceInv /\ [Next]_vars => CountInv'
<1> SUFFICES ASSUME TypeOK, CountInv, PlaceInv, [Next]_vars PROVE CountInv'
  OBVIOUS
<1>0. /\ held \in Holds /\ pools \in Pools /\ closing \subseteq Thread
      /\ \A b \in Object : IsFiniteSet(Uses(held, pools, b)) /\ refCount[b] \in Int
      /\ \A b \in Object : Cardinality(Uses(held, pools, b)) \in Int
      /\ \A s \in closing : pools[s] # << >>
      /\ TypeOK /\ CountInv
  BY ReferenceTypes
<1>1. ASSUME NEW t \in Thread, PhInitializeAutoPool(t) PROVE CountInv'
  <2>1. /\ pools' = Made(pools, t)
        /\ refCount' = refCount /\ held' = held /\ closing' = closing
    BY <1>1 DEF PhInitializeAutoPool, Made
  <2>2. /\ \A b : Uses(held, Made(pools, t), b) = Uses(held, pools, b)
        /\ Made(pools, t)[t] # << >>
        /\ \A s \in Thread : s # t => Made(pools, t)[s] = pools[s]
    BY <1>0, UsePoolMade, Zenon
  <2>3. /\ \A b : Uses(held, pools', b) = Uses(held, pools, b)
        /\ pools'[t] # << >> /\ \A s \in Thread : s # t => pools'[s] = pools[s]
    BY <2>1, <2>2
  <2>4. \A s \in closing' : pools'[s] # << >>
    BY <2>1, <2>3, <1>0 DEF TypeOK
  <2> QED
    BY <2>1, <2>3, <2>4 DEF CountInv, ReferencesAreCounted
<1>2. ASSUME NEW t \in Thread, PhDeleteAutoPool(t) PROVE CountInv'
  BY <1>2 DEF PhDeleteAutoPool, CountInv, ReferencesAreCounted
<1>3. ASSUME NEW t \in Thread, NEW o \in Object, PhAllocateFromFreeList(t, o)
      PROVE  CountInv'
  BY <1>3 DEF PhAllocateFromFreeList, Work, references, deferral, CountInv,
     ReferencesAreCounted
<1>4. ASSUME NEW t \in Thread, NEW o \in Object, PhReferenceObject(t, o)
      PROVE  CountInv'
  <2>1. PICK u \in Thread : held' = Taken(held, u, o)
    BY <1>4 DEF PhReferenceObject, Taken
  <2>2. /\ pools' = pools /\ closing' = closing
        /\ \A b \in Object : /\ b = o => refCount'[b] = refCount[b] + 1
                             /\ b # o => refCount'[b] = refCount[b]
    BY <1>4 DEF PhReferenceObject, TypeOK
  <2>3. ASSUME NEW b \in Object
        PROVE  /\ IsFiniteSet(Uses(held', pools, b))
               /\ b = o
                  => Cardinality(Uses(held', pools, b)) = Cardinality(Uses(held, pools, b)) + 1
               /\ b # o
                  => Cardinality(Uses(held', pools, b)) = Cardinality(Uses(held, pools, b))
    BY <2>1, <1>0, CountTaken
  <2> QED
    BY <2>2, <2>3, <1>0, UsesAreCounted
<1>5. ASSUME NEW t \in Thread, NEW o \in Object, PhReferenceObjectSafe(t, o)
      PROVE  CountInv'
  <2>1. PICK u \in Thread : held' = Taken(held, u, o)
    BY <1>5 DEF PhReferenceObjectSafe, Taken
  <2>2. /\ pools' = pools /\ closing' = closing
        /\ \A b \in Object : /\ b = o => refCount'[b] = refCount[b] + 1
                             /\ b # o => refCount'[b] = refCount[b]
    BY <1>5 DEF PhReferenceObjectSafe, TypeOK
  <2>3. ASSUME NEW b \in Object
        PROVE  /\ IsFiniteSet(Uses(held', pools, b))
               /\ b = o
                  => Cardinality(Uses(held', pools, b)) = Cardinality(Uses(held, pools, b)) + 1
               /\ b # o
                  => Cardinality(Uses(held', pools, b)) = Cardinality(Uses(held, pools, b))
    BY <2>1, <1>0, CountTaken
  <2> QED
    BY <2>2, <2>3, <1>0, UsesAreCounted
<1>6. ASSUME NEW t \in Thread, NEW o \in Object, PhDereferenceObject(t, o)
      PROVE  CountInv'
  <2>1. held' = Given(held, t, o) /\ held[t][o] > 0
    BY <1>6 DEF PhDereferenceObject, Given
  <2>2. /\ pools' = pools /\ closing' = closing
        /\ \A b \in Object : /\ b = o => refCount'[b] = refCount[b] - 1
                             /\ b # o => refCount'[b] = refCount[b]
    BY <1>6 DEF PhDereferenceObject, Dereferenced, TypeOK
  <2>3. ASSUME NEW b \in Object
        PROVE  /\ IsFiniteSet(Uses(held', pools, b))
               /\ b = o
                  => Cardinality(Uses(held', pools, b)) = Cardinality(Uses(held, pools, b)) - 1
               /\ b # o
                  => Cardinality(Uses(held', pools, b)) = Cardinality(Uses(held, pools, b))
    BY <2>1, <1>0, CountGiven
  <2> QED
    BY <2>2, <2>3, <1>0, UsesAreCounted
<1>7. ASSUME NEW t \in Thread, NEW o \in Object, PhDereferenceObjectDeferDelete(t, o)
      PROVE  CountInv'
  <2>1. held' = Given(held, t, o) /\ held[t][o] > 0
    BY <1>7 DEF PhDereferenceObjectDeferDelete, Given
  <2>2. /\ pools' = pools /\ closing' = closing
        /\ \A b \in Object : /\ b = o => refCount'[b] = refCount[b] - 1
                             /\ b # o => refCount'[b] = refCount[b]
    BY <1>7 DEF PhDereferenceObjectDeferDelete, Dereferenced, TypeOK
  <2>3. ASSUME NEW b \in Object
        PROVE  /\ IsFiniteSet(Uses(held', pools, b))
               /\ b = o
                  => Cardinality(Uses(held', pools, b)) = Cardinality(Uses(held, pools, b)) - 1
               /\ b # o
                  => Cardinality(Uses(held', pools, b)) = Cardinality(Uses(held, pools, b))
    BY <2>1, <1>0, CountGiven
  <2> QED
    BY <2>2, <2>3, <1>0, UsesAreCounted
<1>8. ASSUME NEW t \in Thread, NEW o \in Object, PhAutoDereferenceObject(t, o)
      PROVE  CountInv'
  <2>1. /\ held' = Given(held, t, o) /\ held[t][o] > 0
        /\ pools' = Pooled(pools, t, o) /\ pools[t] # << >>
        /\ refCount' = refCount /\ closing' = closing
    BY <1>8 DEF PhAutoDereferenceObject, Given, Pooled
  <2>2. held' \in Holds
    BY <2>1, <1>0, UseGiven
  <2>3. ASSUME NEW b \in Object
        PROVE  /\ IsFiniteSet(Uses(held', pools, b))
               /\ b = o
                  => Cardinality(Uses(held', pools, b)) = Cardinality(Uses(held, pools, b)) - 1
               /\ b # o
                  => Cardinality(Uses(held', pools, b)) = Cardinality(Uses(held, pools, b))
    BY <2>1, <1>0, CountGiven
  <2>4. ASSUME NEW b \in Object
        PROVE  /\ IsFiniteSet(Uses(held', pools', b))
               /\ b = o
                  => Cardinality(Uses(held', pools', b)) =
                       Cardinality(Uses(held', pools, b)) + 1
               /\ b # o
                  => Cardinality(Uses(held', pools', b)) = Cardinality(Uses(held', pools, b))
    BY <2>1, <2>3, <1>0, CountPooled
  <2>5. ASSUME NEW b \in Object
        PROVE  /\ IsFiniteSet(Uses(held', pools', b))
               /\ Cardinality(Uses(held', pools', b)) = Cardinality(Uses(held, pools, b))
    BY <2>3, <2>4, <1>0, FS_CardinalityType
  <2>6. ASSUME NEW s \in Thread
        PROVE  Pooled(pools, t, o)[t] # << >> /\ (s # t
           => Pooled(pools, t, o)[s] = pools[s])
    BY <2>1, <1>0, PoolsKept
  <2>7. \A s \in closing' : pools'[s] # << >>
    BY <2>1, <2>6, <1>0
  <2> QED
    BY <2>1, <2>5, <2>7, <1>0, UsesAreCounted, FS_CardinalityType
<1>9. ASSUME NEW t \in Thread, DecrementCount(t) PROVE CountInv'
  BY <1>9 DEF DecrementCount, Work, references, deferral, CountInv, ReferencesAreCounted
<1>10. ASSUME NEW t \in Thread, PhCreateObject(t) PROVE CountInv'
  <2> DEFINE o == object[t]
  <2>1. t \in Actor /\ Working(t)
    BY <1>10 DEF PhCreateObject, Actor, Working
  <2>2. o \in Object /\ ~(refCount[o] > 0)
    BY <2>1 DEF PlaceInv
  <2>3. refCount[o] = 0
    BY <2>2 DEF TypeOK
  <2>4. held[t][o] = 0
    BY <2>2, <2>3, UnusedObject
  <2> HIDE DEF o
  <2>5. held' = Taken(held, t, o)
    <3>1. held' = [held EXCEPT ![t][o] = 1]
      BY <1>10 DEF PhCreateObject, o
    <3> QED
      BY <2>2, <2>4, <3>1 DEF Taken
  <2>6. /\ pools' = pools /\ closing' = closing
        /\ \A b \in Object : /\ b = o => refCount'[b] = refCount[b] + 1
                             /\ b # o => refCount'[b] = refCount[b]
    BY <1>10, <2>2, <2>3 DEF PhCreateObject, o, TypeOK
  <2>7. ASSUME NEW b \in Object
        PROVE  /\ IsFiniteSet(Uses(held', pools, b))
               /\ b = o
                  => Cardinality(Uses(held', pools, b)) = Cardinality(Uses(held, pools, b)) + 1
               /\ b # o
                  => Cardinality(Uses(held', pools, b)) = Cardinality(Uses(held, pools, b))
    BY <2>2, <2>5, <1>0, CountTaken
  <2> QED
    BY <2>2, <2>6, <2>7, <1>0, UsesAreCounted
<1>11. ASSUME NEW t \in Thread, PhDrainAutoPool(t) PROVE CountInv'
  <2> DEFINE c == Len(pools[t])
             o == Head(pools[t][c])
  <2>1. pools[t] # << >>
    BY <1>11, <1>0 DEF PhDrainAutoPool
  <2>2. CASE pools[t][c] # << >>
    <3>1. /\ pools' = Drained(pools, t)
          /\ \A b \in Object : /\ b = o => refCount'[b] = refCount[b] - 1
                               /\ b # o => refCount'[b] = refCount[b]
          /\ held' = held /\ closing' = closing
      BY <1>11, <2>2 DEF PhDrainAutoPool, Dereferenced, Drained, TypeOK
    <3>2. o \in Object
      BY <2>1, <2>2, PooledIsCounted
    <3>3. ASSUME NEW b \in Object
          PROVE  /\ IsFiniteSet(Uses(held, pools', b))
                 /\ b = o =>
                      Cardinality(Uses(held, pools', b)) = Cardinality(Uses(held, pools, b)) - 1
                 /\ b # o =>
                      Cardinality(Uses(held, pools', b)) = Cardinality(Uses(held, pools, b))
      BY <2>1, <2>2, <3>1, <1>0, CountDrained
    <3>4. \A s \in closing' : pools'[s] # << >>
      <4>1. ASSUME NEW s \in Thread
            PROVE  Drained(pools, t)[t] # << >> /\ (s # t
               => Drained(pools, t)[s] = pools[s])
        BY <2>1, <1>0, PoolsKept
      <4> QED
        BY <3>1, <4>1, <1>0
    <3> HIDE DEF o, c
    <3> QED
      BY <3>1, <3>2, <3>3, <3>4, <1>0, UsesAreCounted
  <2>3. CASE pools[t][c] = << >>
    <3>1. /\ pools' = Deleted(pools, t)
          /\ refCount' = refCount /\ held' = held /\ closing' = closing \ {t}
      BY <1>11, <2>3 DEF PhDrainAutoPool, Deleted
    <3>2. /\ \A b : Uses(held, Deleted(pools, t), b) = Uses(held, pools, b)
          /\ \A s \in Thread : s # t => Deleted(pools, t)[s] = pools[s]
      BY <2>1, <2>3, <1>0, UsePoolDeleted, Zenon
    <3>3. /\ \A b : Uses(held, pools', b) = Uses(held, pools, b)
          /\ \A s \in Thread : s # t => pools'[s] = pools[s]
      BY <3>1, <3>2
    <3>4. \A s \in closing' : pools'[s] # << >>
      BY <3>1, <3>3, <1>0
    <3> QED
      BY <3>1, <3>3, <3>4 DEF CountInv, ReferencesAreCounted
  <2> QED
    BY <2>2, <2>3
<1>12. ASSUME NEW t \in Thread, PhpDeferDeleteObject(t) PROVE CountInv'
  BY <1>12 DEF PhpDeferDeleteObject, Work, references, storage, CountInv,
     ReferencesAreCounted
<1>13. ASSUME NEW t \in Thread, PushDeferred(t) PROVE CountInv'
  BY <1>13 DEF PushDeferred, Work, references, storage, CountInv, ReferencesAreCounted
<1>14. ASSUME NEW t \in Thread, QueueRoutine(t) PROVE CountInv'
  BY <1>14 DEF QueueRoutine, Work, references, storage, CountInv, ReferencesAreCounted
<1>15. ASSUME NEW a \in Actor, DeleteProcedure(a) PROVE CountInv'
  BY <1>15 DEF DeleteProcedure, Work, references, storage, deferral, CountInv,
     ReferencesAreCounted
<1>16. ASSUME NEW a \in Actor, PhFreeToFreeList(a) PROVE CountInv'
  BY <1>16 DEF PhFreeToFreeList, Work, references, deferral, CountInv, ReferencesAreCounted
<1>17. ASSUME NEW a \in Actor, IncrementCount(a) PROVE CountInv'
  BY <1>17 DEF IncrementCount, Work, references, deferral, CountInv, ReferencesAreCounted
<1>18. ASSUME NEW d \in Deleter, PhpDeferDeleteObjectRoutine(d) PROVE CountInv'
  BY <1>18 DEF PhpDeferDeleteObjectRoutine, Work, references, storage, CountInv,
     ReferencesAreCounted
<1>19. ASSUME NEW d \in Deleter, NextDeferred(d) PROVE CountInv'
  BY <1>19 DEF NextDeferred, Work, references, storage, CountInv, ReferencesAreCounted
<1>20. CASE UNCHANGED vars
  BY <1>20 DEF vars, references, storage, deferral, CountInv, ReferencesAreCounted
<1>21. ASSUME NEW a \in Actor, PushFree(a) PROVE CountInv'
  BY <1>21 DEF PushFree, Work, references, deferral, CountInv, ReferencesAreCounted
<1>22. ASSUME NEW t \in Thread, NEW o \in Object, PhReferenceObjectSafeOfLink(t, o)
       PROVE  CountInv'
  BY <1>22 DEF PhReferenceObjectSafeOfLink, references, CountInv, ReferencesAreCounted
<1> QED
  BY <1>1, <1>2, <1>3, <1>4, <1>5, <1>6, <1>7, <1>8, <1>9, <1>10, <1>11, <1>12, <1>13,
     <1>14, <1>15, <1>16, <1>17, <1>18, <1>19, <1>20, <1>21, <1>22
     DEF Next, ClientCall, ThreadStep, FreeStep, DeleterStep

\* What exists.
ExistsIn(rc, dl, ba, p, ob, x) ==
  \/ x \in Object /\ rc[x] > 0
  \/ x \in Elements(dl)
  \/ \E d \in Deleter : x \in Elements(ba[d])
  \/ \E a \in Actor : p[a] \in {"delete", "peek", "push"} /\ ob[a] = x

LEMMA ExistingMembers ==
  /\ \A x : x \in Existing <=> ExistsIn(refCount, deferList, batch, pc, object, x)
  /\ \A x : x \in Existing' <=> ExistsIn(refCount', deferList', batch', pc', object', x)
<1>1. ASSUME NEW rc, NEW dl, NEW ba, NEW p, NEW ob, NEW x
      PROVE  x \in {o \in Object : rc[o] > 0} \cup Elements(dl)
               \cup (UNION {Elements(ba[d]) : d \in Deleter})
               \cup {ob[a] : a \in {b \in Actor : p[b] \in {"delete", "peek", "push"}}}
             <=> ExistsIn(rc, dl, ba, p, ob, x)
  BY DEF ExistsIn
<1> QED
  BY <1>1 DEF Existing

LEMMA SameExisting ==
  ASSUME \A x : ExistsIn(refCount', deferList', batch', pc', object', x) <=>
                ExistsIn(refCount, deferList, batch, pc, object, x)
  PROVE  Existing' = Existing
<1>1. \A x : x \in Existing' <=> x \in Existing
  BY ExistingMembers
<1> QED
  BY <1>1

\* The types of the pools after such a step.
LEMMA PoolTypes ==
  ASSUME NEW ps \in Pools, NEW t \in Thread, NEW o \in Object, ps[t] # << >>
  PROVE  /\ Pooled(ps, t, o) \in Pools
         /\ ps[t][Len(ps[t])] # << >> => Drained(ps, t) \in Pools
<1> DEFINE c == Len(ps[t])
<1>1. ps[t] \in Seq(Seq(Object)) /\ c \in 1 .. c
  BY DEF Pools
<1>2. ps[t][c] \in Seq(Object)
  BY <1>1
<1>3. Append(ps[t][c], o) \in Seq(Object)
  BY <1>2
<1>4. ps[t][c] # << >> => Tail(ps[t][c]) \in Seq(Object)
  BY <1>2
<1>5. ASSUME NEW f \in Seq(Object) PROVE [ps[t] EXCEPT ![c] = f] \in Seq(Seq(Object))
  BY <1>1
<1>6. ASSUME NEW f \in Seq(Object) PROVE [ps EXCEPT ![t][c] = f] \in Pools
  BY <1>5 DEF Pools
<1> QED
  BY <1>3, <1>4, <1>6 DEF Pooled, Drained

\* The types.
LEMMA TypeStep ==
  TypeOK /\ CountInv /\ PlaceInv /\ ExistInv /\ [Next]_vars => TypeOK'
<1> SUFFICES ASSUME TypeOK, CountInv, PlaceInv, ExistInv, [Next]_vars PROVE TypeOK'
  OBVIOUS
<1>0. held \in Holds /\ pools \in Pools /\ TypeOK /\ CountInv
      /\ \A s \in closing : pools[s] # << >>
  BY ReferenceTypes
<1>c. corrupt' \in BOOLEAN
  BY DEF Next, ClientCall, ThreadStep, FreeStep, DeleterStep, Intact,
     PhReferenceObjectSafeOfLink, vars, TypeOK
<1> USE <1>c
<1>1. ASSUME NEW t \in Thread, PhInitializeAutoPool(t) PROVE TypeOK'
  <2>1. pools' \in [Thread -> Seq(Seq(Object))]
    <3>1. Made(pools, t) \in Pools
      BY <1>0, UsePoolMade
    <3> QED
      BY <1>1, <3>1 DEF PhInitializeAutoPool, Made, Pools
  <2> QED
    BY <1>1, <2>1 DEF PhInitializeAutoPool, storage, deferral, TypeOK
<1>2. ASSUME NEW t \in Thread, PhDeleteAutoPool(t) PROVE TypeOK'
  <2>2. /\ pc' \in [Actor -> {"idle", "decrement", "create", "delete", "store", "keep",
                           "increment", "next", "peek", "push", "queue"}]
        /\ object' \in [Actor -> Object \cup {None}]
    BY <1>2 DEF PhDeleteAutoPool, Work, storage, deferral, TypeOK, Actor
  <2> QED
    BY <1>2, <2>2 DEF PhDeleteAutoPool, Work, storage, deferral, TypeOK
<1>3. ASSUME NEW t \in Thread, NEW o \in Object, PhAllocateFromFreeList(t, o)
      PROVE  TypeOK'
  <2>1. t \in Actor
    BY DEF Actor
  <2>2. CASE freeList # << >> /\ o = Head(freeList)
             /\ freeList' = Tail(freeList) /\ Work(t, "decrement", o)
    <3>1. Tail(freeList) \in Seq(Object)
      BY <2>2, PopElements DEF TypeOK
    <3> QED
      BY <1>3, <2>1, <2>2, <3>1
         DEF PhAllocateFromFreeList, Work, references, deferral, TypeOK
  <2>3. CASE Work(t, "create", o) /\ UNCHANGED freeList
    BY <1>3, <2>1, <2>3 DEF PhAllocateFromFreeList, Work, references, deferral, TypeOK
  <2> QED
    BY <1>3, <2>2, <2>3 DEF PhAllocateFromFreeList, Work, references, deferral, TypeOK
<1>4. ASSUME NEW t \in Thread, NEW o \in Object, PhReferenceObject(t, o)
      PROVE  TypeOK'
  <2>1. held' \in [Thread -> [Object -> Nat]]
    BY <1>4 DEF PhReferenceObject, storage, deferral, TypeOK
  <2>2. refCount' \in [Object -> 0 .. MaxReferences]
    BY <1>4, ObjectsAssumption DEF PhReferenceObject, storage, deferral, TypeOK
  <2> QED
    BY <1>4, <2>1, <2>2 DEF PhReferenceObject, storage, deferral, TypeOK
<1>5. ASSUME NEW t \in Thread, NEW o \in Object, PhReferenceObjectSafe(t, o)
      PROVE  TypeOK'
  <2>1. held' \in [Thread -> [Object -> Nat]]
    BY <1>5 DEF PhReferenceObjectSafe, storage, deferral, TypeOK
  <2>2. refCount' \in [Object -> 0 .. MaxReferences]
    BY <1>5, ObjectsAssumption DEF PhReferenceObjectSafe, storage, deferral, TypeOK
  <2> QED
    BY <1>5, <2>1, <2>2 DEF PhReferenceObjectSafe, storage, deferral, TypeOK
<1>6. ASSUME NEW t \in Thread, NEW o \in Object, PhDereferenceObject(t, o)
      PROVE  TypeOK'
  <2>1. refCount[o] > 0
    BY <1>6, <1>0, HeldIsCounted
       DEF PhDereferenceObject, Dereferenced, Work, storage, deferral
  <2>2. /\ pc' \in [Actor -> {"idle", "decrement", "create", "delete", "store", "keep",
                           "increment", "next", "peek", "push", "queue"}]
        /\ object' \in [Actor -> Object \cup {None}]
    BY <1>6 DEF PhDereferenceObject, Dereferenced, Work, storage, deferral, TypeOK, Actor
  <2>3. refCount' \in [Object -> 0 .. MaxReferences]
    <3>1. refCount[o] - 1 \in 0 .. MaxReferences
      BY <2>1, ObjectsAssumption DEF TypeOK
    <3>2. refCount' = [refCount EXCEPT ![o] = refCount[o] - 1]
      BY <1>6 DEF PhDereferenceObject, Dereferenced, Work, storage, deferral
    <3> QED
      BY <3>1, <3>2 DEF TypeOK
  <2>4. held' \in Holds
    <3>1. held' = Given(held, t, o) /\ held[t][o] > 0
      BY <1>6 DEF PhDereferenceObject, Dereferenced, Work, storage, deferral, Given
    <3> QED
      BY <3>1, <1>0, UseGiven
  <2> QED
    BY <1>6, <2>2, <2>3, <2>4 DEF PhDereferenceObject, Dereferenced, Work, storage,
       deferral, TypeOK, Holds
<1>7. ASSUME NEW t \in Thread, NEW o \in Object, PhDereferenceObjectDeferDelete(t, o)
      PROVE  TypeOK'
  <2>1. refCount[o] > 0
    BY <1>7, <1>0, HeldIsCounted
       DEF PhDereferenceObjectDeferDelete, Dereferenced, Work, storage, deferral
  <2>2. /\ pc' \in [Actor -> {"idle", "decrement", "create", "delete", "store", "keep",
                           "increment", "next", "peek", "push", "queue"}]
        /\ object' \in [Actor -> Object \cup {None}]
    BY <1>7 DEF PhDereferenceObjectDeferDelete, Dereferenced, Work, storage, deferral,
       TypeOK, Actor
  <2>3. refCount' \in [Object -> 0 .. MaxReferences]
    <3>1. refCount[o] - 1 \in 0 .. MaxReferences
      BY <2>1, ObjectsAssumption DEF TypeOK
    <3>2. refCount' = [refCount EXCEPT ![o] = refCount[o] - 1]
      BY <1>7 DEF PhDereferenceObjectDeferDelete, Dereferenced, Work, storage, deferral
    <3> QED
      BY <3>1, <3>2 DEF TypeOK
  <2>4. held' \in Holds
    <3>1. held' = Given(held, t, o) /\ held[t][o] > 0
      BY <1>7 DEF PhDereferenceObjectDeferDelete, Dereferenced, Work, storage, deferral,
         Given
    <3> QED
      BY <3>1, <1>0, UseGiven
  <2> QED
    BY <1>7, <2>2, <2>3, <2>4 DEF PhDereferenceObjectDeferDelete, Dereferenced, Work,
       storage, deferral, TypeOK, Holds
<1>8. ASSUME NEW t \in Thread, NEW o \in Object, PhAutoDereferenceObject(t, o)
      PROVE  TypeOK'
  <2>1. /\ held' = Given(held, t, o) /\ held[t][o] > 0
        /\ pools' = Pooled(pools, t, o) /\ pools[t] # << >>
    BY <1>8 DEF PhAutoDereferenceObject, Given, Pooled
  <2>2. held' \in Holds
    BY <2>1, <1>0, UseGiven
  <2>3. pools' \in Pools
    BY <2>1, <1>0, PoolTypes
  <2> QED
    BY <1>8, <2>2, <2>3 DEF PhAutoDereferenceObject, storage, deferral, TypeOK, Holds, Pools
<1>9. ASSUME NEW t \in Thread, DecrementCount(t) PROVE TypeOK'
  <2>2. /\ pc' \in [Actor -> {"idle", "decrement", "create", "delete", "store", "keep",
                           "increment", "next", "peek", "push", "queue"}]
        /\ object' \in [Actor -> Object \cup {None}]
    BY <1>9 DEF DecrementCount, Work, references, deferral, TypeOK, Actor
  <2> QED
    BY <1>9, <2>2 DEF DecrementCount, Work, references, deferral, TypeOK
<1>10. ASSUME NEW t \in Thread, PhCreateObject(t) PROVE TypeOK'
  <2>2. /\ pc' \in [Actor -> {"idle", "decrement", "create", "delete", "store", "keep",
                           "increment", "next", "peek", "push", "queue"}]
        /\ object' \in [Actor -> Object \cup {None}]
    BY <1>10 DEF PhCreateObject, Work, storage, deferral, TypeOK, Actor
  <2>3. refCount' \in [Object -> 0 .. MaxReferences]
    <3>1. 1 \in 0 .. MaxReferences
      BY ObjectsAssumption
    <3> QED
      BY <1>10, <3>1 DEF PhCreateObject, TypeOK
  <2>4. held' \in [Thread -> [Object -> Nat]]
    BY <1>10 DEF PhCreateObject, TypeOK
  <2> QED
    BY <1>10, <2>2, <2>3, <2>4 DEF PhCreateObject, Work, storage, deferral, TypeOK
<1>11. ASSUME NEW t \in Thread, PhDrainAutoPool(t) PROVE TypeOK'
  <2> DEFINE c == Len(pools[t])
             o == Head(pools[t][c])
  <2>1. pools[t] # << >>
    BY <1>11, <1>0 DEF PhDrainAutoPool
  <2>2. CASE pools[t][c] # << >>
    <3>1. /\ pools' = Drained(pools, t) /\ closing' = closing
          /\ refCount' = [refCount EXCEPT ![o] = @ - 1]
          /\ Work(t, "delete", o) \/ UNCHANGED <<pc, object>>
      BY <1>11, <2>2 DEF PhDrainAutoPool, Dereferenced, Drained
    <3>2. o \in Object /\ refCount[o] > 0
      BY <2>1, <2>2, <1>0, PooledIsCounted
    <3>3. pools' \in Pools
      BY <2>1, <2>2, <3>1, <3>2, <1>0, PoolTypes
    <3> HIDE DEF o, c
    <3>4. refCount' \in [Object -> 0 .. MaxReferences]
      <4>1. refCount[o] - 1 \in 0 .. MaxReferences
        BY <3>2, ObjectsAssumption DEF TypeOK
      <4> QED
        BY <3>1, <4>1 DEF TypeOK
    <3>5. /\ pc' \in [Actor -> {"idle", "decrement", "create", "delete", "store", "keep",
                             "increment", "next", "peek", "push", "queue"}]
          /\ object' \in [Actor -> Object \cup {None}]
      <4>1. CASE UNCHANGED <<pc, object>>
        BY <4>1 DEF TypeOK
      <4>2. CASE Work(t, "delete", o)
        BY <3>2, <4>2 DEF Work, TypeOK
      <4> QED
        BY <3>1, <4>1, <4>2
    <3> QED
      BY <1>11, <3>1, <3>3, <3>4, <3>5 DEF PhDrainAutoPool, storage, deferral, TypeOK, Pools
  <2>3. CASE pools[t][c] = << >>
    <3>1. /\ pools' = Deleted(pools, t) /\ refCount' = refCount /\ closing' = closing \ {t}
          /\ Work(t, "idle", None)
      BY <1>11, <2>3 DEF PhDrainAutoPool, Deleted
    <3>2. Deleted(pools, t) \in Pools
      BY <2>1, <2>3, <1>0, UsePoolDeleted
    <3>3. /\ pc' \in [Actor -> {"idle", "decrement", "create", "delete", "store", "keep",
                             "increment", "next", "peek", "push", "queue"}]
          /\ object' \in [Actor -> Object \cup {None}]
      BY <3>1 DEF Work, TypeOK, Actor
    <3> QED
      BY <1>11, <3>1, <3>2, <3>3 DEF PhDrainAutoPool, storage, deferral, TypeOK, Pools
  <2> QED
    BY <2>2, <2>3
<1>12. ASSUME NEW t \in Thread, PhpDeferDeleteObject(t) PROVE TypeOK'
  <2>2. /\ pc' \in [Actor -> {"idle", "decrement", "create", "delete", "store", "keep",
                           "increment", "next", "peek", "push", "queue"}]
        /\ object' \in [Actor -> Object \cup {None}]
    BY <1>12 DEF PhpDeferDeleteObject, Work, references, storage, TypeOK, Actor
  <2> QED
    BY <1>12, <2>2 DEF PhpDeferDeleteObject, Work, references, storage, TypeOK
<1>13. ASSUME NEW t \in Thread, PushDeferred(t) PROVE TypeOK'
  <2>1. t \in Actor /\ Working(t)
    BY <1>13 DEF PushDeferred, Actor, Working
  <2>3. object[t] \in Object
    BY <2>1 DEF PlaceInv
  <2>4. deferList' \in Seq(Object)
    <3>1. <<object[t]>> \o deferList \in Seq(Object)
      BY <2>3, PushElements DEF TypeOK
    <3> QED
      BY <1>13, <3>1 DEF PushDeferred
  <2>5. missed' \in BOOLEAN
    <3>1. CASE missed \/ (deferList = << >> /\ t \notin sawEmpty)
      BY <1>13, <3>1 DEF PushDeferred
    <3>2. CASE ~(missed \/ (deferList = << >> /\ t \notin sawEmpty))
      BY <1>13, <3>2 DEF PushDeferred
    <3> QED
      BY <3>1, <3>2
  <2>2. /\ pc' \in [Actor -> {"idle", "decrement", "create", "delete", "store", "keep",
                           "increment", "next", "peek", "push", "queue"}]
        /\ object' \in [Actor -> Object \cup {None}]
    BY <1>13 DEF PushDeferred, Work, references, storage, TypeOK, Actor
  <2> QED
    BY <1>13, <2>2, <2>4, <2>5 DEF PushDeferred, Work, references, storage, TypeOK
<1>14. ASSUME NEW t \in Thread, QueueRoutine(t) PROVE TypeOK'
  <2>2. /\ pc' \in [Actor -> {"idle", "decrement", "create", "delete", "store", "keep",
                           "increment", "next", "peek", "push", "queue"}]
        /\ object' \in [Actor -> Object \cup {None}]
    BY <1>14 DEF QueueRoutine, Work, references, storage, TypeOK, Actor
  <2> QED
    BY <1>14, <2>2 DEF QueueRoutine, Work, references, storage, TypeOK
<1>15. ASSUME NEW a \in Actor, DeleteProcedure(a) PROVE TypeOK'
  <2>1. object[a] \in Existing
    <3>1. a \in {b \in Actor : pc[b] \in {"delete", "peek", "push"}}
      BY <1>15 DEF DeleteProcedure
    <3> QED
      BY <3>1, ExistingMembers DEF ExistsIn
  <2>3. number # 0
    <3>1. IsFiniteSet(Existing) /\ number = Cardinality(Existing) /\ Existing # {}
      BY <2>1 DEF ExistInv, ObjectIsDeletedOnce
    <3> QED
      BY <3>1, FS_EmptySet
  <2>4. number - 1 \in Nat
    BY <2>3 DEF TypeOK
  <2>2. /\ pc' \in [Actor -> {"idle", "decrement", "create", "delete", "store", "keep",
                           "increment", "next", "peek", "push", "queue"}]
        /\ object' \in [Actor -> Object \cup {None}]
    BY <1>15 DEF DeleteProcedure, Work, references, storage, deferral, TypeOK, Actor
  <2> QED
    BY <1>15, <2>2, <2>4 DEF DeleteProcedure, Work, references, storage, deferral, TypeOK
<1>16. ASSUME NEW a \in Actor, PhFreeToFreeList(a) PROVE TypeOK'
  <2>1. Working(a)
    BY <1>16 DEF PhFreeToFreeList, Working
  <2>2. object[a] \in Object
    BY <2>1 DEF PlaceInv
  <2>3. /\ pc' \in [Actor -> {"idle", "decrement", "create", "delete", "store", "keep",
                           "increment", "next", "peek", "push", "queue"}]
        /\ object' \in [Actor -> Object \cup {None}]
    BY <1>16, <2>2 DEF Resume, PhFreeToFreeList, Work, TypeOK
  <2> QED
    BY <1>16, <2>3 DEF PhFreeToFreeList, storage, references, deferral, TypeOK
<1>17. ASSUME NEW a \in Actor, IncrementCount(a) PROVE TypeOK'
  <2>2. /\ pc' \in [Actor -> {"idle", "decrement", "create", "delete", "store", "keep",
                           "increment", "next", "peek", "push", "queue"}]
        /\ object' \in [Actor -> Object \cup {None}]
    BY <1>17 DEF Resume, IncrementCount, Work, references, deferral, TypeOK, Actor
  <2> QED
    BY <1>17, <2>2 DEF IncrementCount, Work, references, deferral, TypeOK
<1>18. ASSUME NEW d \in Deleter, PhpDeferDeleteObjectRoutine(d) PROVE TypeOK'
  <2>2. /\ pc' \in [Actor -> {"idle", "decrement", "create", "delete", "store", "keep",
                           "increment", "next", "peek", "push", "queue"}]
        /\ object' \in [Actor -> Object \cup {None}]
    BY <1>18 DEF PhpDeferDeleteObjectRoutine, Work, references, storage, TypeOK, Actor
  <2> QED
    BY <1>18, <2>2 DEF PhpDeferDeleteObjectRoutine, Work, references, storage, TypeOK
<1>19. ASSUME NEW d \in Deleter, NextDeferred(d) PROVE TypeOK'
  <2>1. CASE batch[d] # << >>
    <3>1. Tail(batch[d]) \in Seq(Object) /\ Head(batch[d]) \in Object
      BY <2>1, PopElements DEF TypeOK
    <3>2. /\ pc' = [pc EXCEPT ![d] = "delete"]
             /\ object' = [object EXCEPT ![d] = Head(batch[d])]
          /\ batch' = [batch EXCEPT ![d] = Tail(batch[d])]
      BY <1>19, <2>1 DEF NextDeferred, Work
    <3>3. pc' \in [Actor -> {"idle", "decrement", "create", "delete", "store", "keep",
                           "increment", "next", "peek", "push", "queue"}]
      BY <3>2 DEF TypeOK
    <3>4. object' \in [Actor -> Object \cup {None}] /\ batch' \in [Deleter -> Seq(Object)]
      BY <3>1, <3>2 DEF TypeOK
    <3> QED
      BY <1>19, <3>3, <3>4 DEF NextDeferred, references, storage, TypeOK
  <2>2. CASE batch[d] = << >>
    BY <1>19, <2>2 DEF NextDeferred, Work, references, storage, TypeOK
  <2> QED
    BY <1>19, <2>1, <2>2 DEF NextDeferred, Work, references, storage, TypeOK
<1>20. CASE UNCHANGED vars
  BY <1>20 DEF vars, references, storage, deferral, TypeOK
<1>21. ASSUME NEW a \in Actor, PushFree(a) PROVE TypeOK'
  <2>1. Working(a)
    BY <1>21 DEF PushFree, Working
  <2>2. object[a] \in Object
    BY <2>1 DEF PlaceInv
  <2>3. freeList' \in Seq(Object)
    <3>1. <<object[a]>> \o freeList \in Seq(Object)
      BY <2>2, PushElements DEF TypeOK
    <3> QED
      BY <1>21, <3>1 DEF PushFree
  <2>4. /\ pc' \in [Actor -> {"idle", "decrement", "create", "delete", "store", "keep",
                           "increment", "next", "peek", "push", "queue"}]
        /\ object' \in [Actor -> Object \cup {None}]
    BY <1>21, <2>2 DEF PushFree, Work, TypeOK
  <2> QED
    BY <1>21, <2>3, <2>4 DEF PushFree, references, deferral, TypeOK
<1>22. ASSUME NEW t \in Thread, NEW o \in Object, PhReferenceObjectSafeOfLink(t, o)
       PROVE  TypeOK'
  BY <1>22 DEF PhReferenceObjectSafeOfLink, references, storage, deferral, TypeOK
<1> QED
  BY <1>1, <1>2, <1>3, <1>4, <1>5, <1>6, <1>7, <1>8, <1>9, <1>10, <1>11, <1>12, <1>13,
     <1>14, <1>15, <1>16, <1>17, <1>18, <1>19, <1>20, <1>21, <1>22
     DEF Next, ClientCall, ThreadStep, FreeStep, DeleterStep

\* An object that loses its last reference goes into the hands of the actor that
\* gave it up.
LEMMA LastReference ==
  ASSUME TypeOK, PlaceInv, NEW t \in Thread, NEW o \in Object, NEW place,
         pc[t] \in {"idle", "next"}, refCount[o] > 0, Dereferenced(t, o, place),
         freeList' = freeList, deferList' = deferList, batch' = batch
  PROVE  PlaceInv'
<1>1. /\ refCount'[o] = refCount[o] - 1 /\ refCount[o] \in Nat
      /\ \A b \in Object : b # o => refCount'[b] = refCount[b]
  BY DEF Dereferenced, TypeOK
<1>2. CASE refCount[o] # 1
  <2>1. pc' = pc /\ object' = object
    BY <1>2 DEF Dereferenced
  <2>2. \A b \in Object : refCount'[b] > 0 => refCount[b] > 0
    BY <1>1
  <2> QED
    BY <2>1, <2>2 DEF PlaceInv, Working
<1>3. CASE refCount[o] = 1
  <2>1. /\ pc'[t] = place /\ object'[t] = o
        /\ \A a \in Actor : a # t => pc'[a] = pc[a] /\ object'[a] = object[a]
    BY <1>3 DEF Dereferenced, Work, TypeOK, Actor
  <2>2. \A b \in Object : refCount'[b] > 0 => refCount[b] > 0 /\ b # o
    BY <1>1, <1>3
  <2>3. t \in Actor /\ t \notin Deleter
    BY ObjectsAssumption DEF Actor
  <2>4. /\ o \notin Elements(freeList) /\ o \notin Elements(deferList)
        /\ \A d \in Deleter : o \notin Elements(batch[d])
        /\ \A a \in Actor : Working(a) => object[a] # o
    BY DEF PlaceInv
  <2>5. \A d \in Deleter : d \in Actor /\ pc'[d] = pc[d]
    BY <2>1, <2>3 DEF Actor
  <2>6. \A a \in Actor : a # t => (Working(a)' <=> Working(a))
    BY <2>1 DEF Working
  <2> QED
    BY <2>1, <2>2, <2>3, <2>4, <2>5, <2>6 DEF PlaceInv
<1> QED
  BY <1>2, <1>3

\* The places of the blocks.
LEMMA PlaceStep ==
  TypeOK /\ CountInv /\ PlaceInv /\ [Next]_vars => PlaceInv'
<1> SUFFICES ASSUME TypeOK, CountInv, PlaceInv, [Next]_vars PROVE PlaceInv'
  OBVIOUS
<1>0. /\ pc \in [Actor -> {"idle", "decrement", "create", "delete", "store", "keep",
                       "increment", "next", "peek", "push", "queue"}]
      /\ object \in [Actor -> Object \cup {None}]
         /\ refCount \in [Object -> 0 .. MaxReferences]
      /\ closing \subseteq Thread /\ Thread \cap Deleter = {} /\ Actor = Thread \cup Deleter
      /\ None \notin Object
  BY ObjectsAssumption DEF TypeOK, Actor
<1>1. ASSUME NEW t \in Thread, PhInitializeAutoPool(t) PROVE PlaceInv'
  BY <1>1, <1>0 DEF PhInitializeAutoPool, storage, deferral, PlaceInv, Working
<1>2. ASSUME NEW t \in Thread, PhDeleteAutoPool(t) PROVE PlaceInv'
  BY <1>2, <1>0 DEF PhDeleteAutoPool, Work, storage, deferral, PlaceInv, Working
<1>3. ASSUME NEW t \in Thread, NEW o \in Object, PhAllocateFromFreeList(t, o)
      PROVE  PlaceInv'
  <2>1. CASE freeList # << >> /\ o = Head(freeList)
             /\ freeList' = Tail(freeList) /\ Work(t, "decrement", o)
    <3>1. o \in Elements(freeList) /\ Distinct(freeList')
          /\ Elements(freeList') = Elements(freeList) \ {o}
      BY <2>1, PopElements DEF TypeOK, PlaceInv
    <3> QED
      BY <1>3, <1>0, <2>1, <3>1
         DEF PhAllocateFromFreeList, Work, references, deferral, PlaceInv, Working
  <2>2. CASE Work(t, "create", o) /\ UNCHANGED freeList /\ o \notin InUse
    <3>1. /\ ~(refCount[o] > 0) /\ o \notin Elements(freeList)
          /\ o \notin Elements(deferList)
          /\ \A d \in Deleter : o \notin Elements(batch[d])
          /\ \A a \in Actor : Working(a) => object[a] # o
      BY <1>3, <2>2, NoElements
         DEF InUse, Working, PhAllocateFromFreeList, Work, references, deferral
    <3> QED
      BY <1>3, <1>0, <2>2, <3>1
         DEF PhAllocateFromFreeList, Work, references, deferral, PlaceInv, Working
  <2> QED
    BY <1>3, <2>1, <2>2 DEF PhAllocateFromFreeList, Work, references, deferral, PlaceInv,
       Working
<1>4. ASSUME NEW t \in Thread, NEW o \in Object, PhReferenceObject(t, o)
      PROVE  PlaceInv'
  <2>1. refCount[o] > 0
    BY <1>4, HeldIsCounted DEF PhReferenceObject, storage, deferral
  <2> QED
    BY <1>4, <1>0, <2>1 DEF PhReferenceObject, storage, deferral, PlaceInv, Working
<1>5. ASSUME NEW t \in Thread, NEW o \in Object, PhReferenceObjectSafe(t, o)
      PROVE  PlaceInv'
  BY <1>5, <1>0 DEF PhReferenceObjectSafe, storage, deferral, PlaceInv, Working
<1>6. ASSUME NEW t \in Thread, NEW o \in Object, PhDereferenceObject(t, o)
      PROVE  PlaceInv'
  <2>1. refCount[o] > 0
    BY <1>6, HeldIsCounted DEF PhDereferenceObject, Dereferenced, Work, storage, deferral
  <2>2. /\ pc[t] = "idle" /\ Dereferenced(t, o, "delete")
        /\ freeList' = freeList /\ deferList' = deferList /\ batch' = batch
    BY <1>6 DEF PhDereferenceObject, storage, deferral
  <2> QED
    BY <2>1, <2>2, LastReference
<1>7. ASSUME NEW t \in Thread, NEW o \in Object, PhDereferenceObjectDeferDelete(t, o)
      PROVE  PlaceInv'
  <2>1. refCount[o] > 0
    BY <1>7, HeldIsCounted DEF PhDereferenceObjectDeferDelete, Dereferenced, Work,
       storage, deferral
  <2>2. /\ pc[t] = "idle" /\ Dereferenced(t, o, "peek")
        /\ freeList' = freeList /\ deferList' = deferList /\ batch' = batch
    BY <1>7 DEF PhDereferenceObjectDeferDelete, storage, deferral
  <2> QED
    BY <2>1, <2>2, LastReference
<1>8. ASSUME NEW t \in Thread, NEW o \in Object, PhAutoDereferenceObject(t, o)
      PROVE  PlaceInv'
  BY <1>8, <1>0 DEF PhAutoDereferenceObject, storage, deferral, PlaceInv, Working
<1>9. ASSUME NEW t \in Thread, DecrementCount(t) PROVE PlaceInv'
  BY <1>9, <1>0 DEF DecrementCount, Work, references, deferral, PlaceInv, Working
<1>10. ASSUME NEW t \in Thread, PhCreateObject(t) PROVE PlaceInv'
  BY <1>10, <1>0 DEF PhCreateObject, Work, storage, deferral, PlaceInv, Working
<1>11. ASSUME NEW t \in Thread, PhDrainAutoPool(t) PROVE PlaceInv'
  <2> DEFINE c == Len(pools[t])
             o == Head(pools[t][c])
  <2>1. pools[t] # << >>
    BY <1>11 DEF PhDrainAutoPool, CountInv
  <2>2. CASE pools[t][c] # << >>
    <3>1. o \in Object /\ refCount[o] > 0
      BY <2>1, <2>2, PooledIsCounted
    <3>2. /\ Dereferenced(t, o, "delete") /\ pc[t] = "next"
          /\ deferList' = deferList /\ batch' = batch /\ freeList' = freeList
      BY <1>11, <2>2 DEF PhDrainAutoPool, storage, deferral
    <3> HIDE DEF o, c
    <3> QED
      BY <3>1, <3>2, LastReference
  <2>3. CASE pools[t][c] = << >>
    <3>1. refCount' = refCount /\ Work(t, "idle", None)
      BY <1>11, <2>3 DEF PhDrainAutoPool
    <3> HIDE DEF c
    <3> QED
      BY <1>11, <1>0, <3>1 DEF PhDrainAutoPool, storage, deferral, Work, PlaceInv, Working
  <2> QED
    BY <2>2, <2>3
<1>12. ASSUME NEW t \in Thread, PhpDeferDeleteObject(t) PROVE PlaceInv'
  BY <1>12, <1>0 DEF PhpDeferDeleteObject, Work, references, storage, PlaceInv, Working
<1>13. ASSUME NEW t \in Thread, PushDeferred(t) PROVE PlaceInv'
  <2>1. Working(t) /\ object[t] \in Object /\ object[t] \notin Elements(deferList)
    BY <1>13, <1>0 DEF PushDeferred, PlaceInv, Working
  <2>2. /\ Elements(deferList') = Elements(deferList) \cup {object[t]}
        /\ Distinct(deferList')
    BY <1>13, <2>1, PushElements DEF PushDeferred, TypeOK, PlaceInv
  <2> QED
    BY <1>13, <1>0, <2>1, <2>2
       DEF PushDeferred, Work, references, storage, PlaceInv, Working
<1>14. ASSUME NEW t \in Thread, QueueRoutine(t) PROVE PlaceInv'
  BY <1>14, <1>0 DEF QueueRoutine, Work, references, storage, PlaceInv, Working
<1>15. ASSUME NEW a \in Actor, DeleteProcedure(a) PROVE PlaceInv'
  BY <1>15, <1>0 DEF DeleteProcedure, Work, references, storage, deferral, PlaceInv, Working
<1>16. ASSUME NEW a \in Actor, PhFreeToFreeList(a) PROVE PlaceInv'
  <2>1. Working(a)
    BY <1>16 DEF PhFreeToFreeList, Working
  <2>2. CASE Work(a, "keep", object[a])
    BY <1>16, <1>0, <2>1, <2>2
       DEF PhFreeToFreeList, Work, storage, references, deferral, PlaceInv, Working
  <2>3. CASE Work(a, Resume(a), None)
    BY <1>16, <1>0, <2>1, <2>3
       DEF PhFreeToFreeList, Work, storage, references, deferral, Resume, PlaceInv, Working
  <2> QED
    BY <1>16, <2>2, <2>3 DEF PhFreeToFreeList
<1>17. ASSUME NEW a \in Actor, IncrementCount(a) PROVE PlaceInv'
  BY <1>17, <1>0 DEF IncrementCount, Work, references, deferral, Resume, PlaceInv, Working
<1>18. ASSUME NEW d \in Deleter, PhpDeferDeleteObjectRoutine(d) PROVE PlaceInv'
  <2>1. batch[d] = << >> /\ deferList' = << >> /\ batch' = [batch EXCEPT ![d] = deferList]
    BY <1>18 DEF PhpDeferDeleteObjectRoutine, PlaceInv
  <2>2. /\ refCount' = refCount /\ freeList' = freeList
        /\ pc'[d] = "next" /\ d \in Actor
        /\ \A a \in Actor : a # d => pc'[a] = pc[a] /\ object'[a] = object[a]
    BY <1>18, <1>0 DEF PhpDeferDeleteObjectRoutine, Work, references, storage
  <2>3. ~Working(d)' /\ \A a \in Actor : a # d => (Working(a)' <=> Working(a))
    BY <2>2 DEF Working
  <2>4. /\ batch'[d] = deferList
        /\ \A e \in Deleter : e # d => batch'[e] = batch[e] /\ pc'[e] = pc[e]
    BY <1>0, <2>1, <2>2 DEF TypeOK
  <2>5. Elements(batch[d]) = {} /\ Elements(deferList') = {} /\ Distinct(deferList')
    BY <2>1, NoElements
  <2> QED
    BY <2>1, <2>2, <2>3, <2>4, <2>5 DEF PlaceInv
<1>19. ASSUME NEW d \in Deleter, NextDeferred(d) PROVE PlaceInv'
  <2>1. CASE batch[d] # << >>
    <3> DEFINE o == Head(batch[d])
               r == Tail(batch[d])
    <3>1. /\ o \in Elements(batch[d]) /\ Distinct(r) /\ o \in Object
          /\ Elements(r) = Elements(batch[d]) \ {o}
      BY <2>1, PopElements DEF TypeOK, PlaceInv
    <3>2. /\ Work(d, "delete", o) /\ pc[d] = "next" /\ d \in Actor
          /\ batch'[d] = r /\ \A e \in Deleter : e # d => batch'[e] = batch[e]
      BY <1>19, <1>0, <2>1 DEF NextDeferred, TypeOK
    <3>3. refCount' = refCount /\ freeList' = freeList /\ deferList' = deferList
      BY <1>19 DEF NextDeferred, references, storage
    <3> HIDE DEF o, r
    <3> QED
      BY <1>0, <3>1, <3>2, <3>3 DEF PlaceInv, Working, Work
  <2>2. CASE batch[d] = << >>
    BY <1>19, <1>0, <2>2 DEF NextDeferred, Work, references, storage, PlaceInv, Working
  <2> QED
    BY <2>1, <2>2
<1>20. CASE UNCHANGED vars
  BY <1>20 DEF vars, references, storage, deferral, PlaceInv, Working
<1>21. ASSUME NEW a \in Actor, PushFree(a) PROVE PlaceInv'
  <2>1. Working(a) /\ object[a] \in Object /\ object[a] \notin Elements(freeList)
    BY <1>21, <1>0 DEF PushFree, PlaceInv, Working
  <2>2. /\ Elements(<<object[a]>> \o freeList) = Elements(freeList) \cup {object[a]}
        /\ Distinct(<<object[a]>> \o freeList)
    BY <2>1, PushElements DEF TypeOK, PlaceInv
  <2> QED
    BY <1>21, <1>0, <2>1, <2>2
       DEF PushFree, Work, references, deferral, PlaceInv, Working
<1>22. ASSUME NEW t \in Thread, NEW o \in Object, PhReferenceObjectSafeOfLink(t, o)
       PROVE  PlaceInv'
  BY <1>22 DEF PhReferenceObjectSafeOfLink, references, storage, deferral, PlaceInv, Working
<1> QED
  BY <1>1, <1>2, <1>3, <1>4, <1>5, <1>6, <1>7, <1>8, <1>9, <1>10, <1>11, <1>12, <1>13,
     <1>14, <1>15, <1>16, <1>17, <1>18, <1>19, <1>20, <1>21, <1>22
     DEF Next, ClientCall, ThreadStep, FreeStep, DeleterStep

\* The objects that exist, their number, and the table.
LEMMA ExistStep ==
  TypeOK /\ CountInv /\ PlaceInv /\ ExistInv /\ [Next]_vars => ExistInv'
<1> SUFFICES ASSUME TypeOK, CountInv, PlaceInv, ExistInv, [Next]_vars PROVE ExistInv'
  OBVIOUS
<1>0. /\ pc \in [Actor -> {"idle", "decrement", "create", "delete", "store", "keep",
                       "increment", "next", "peek", "push", "queue"}]
      /\ object \in [Actor -> Object \cup {None}]
         /\ refCount \in [Object -> 0 .. MaxReferences]
      /\ closing \subseteq Thread /\ Thread \cap Deleter = {} /\ Actor = Thread \cup Deleter
      /\ None \notin Object /\ table \subseteq Object
  BY ObjectsAssumption DEF TypeOK, Actor
<1>1. ASSUME NEW t \in Thread, PhInitializeAutoPool(t) PROVE ExistInv'
  <2>1. \A x : ExistsIn(refCount', deferList', batch', pc', object', x) <=>
              ExistsIn(refCount, deferList, batch, pc, object, x)
    BY <1>1, <1>0 DEF ExistsIn, PhInitializeAutoPool, storage, deferral, PlaceInv, Working
  <2>2. table' = table
    BY <1>1 DEF PhInitializeAutoPool
  <2> QED
    BY <1>1, <2>1, <2>2, SameExisting
       DEF PhInitializeAutoPool, storage, deferral, ExistInv, ObjectIsDeletedOnce,
           ListedObjectIsStored
<1>2. ASSUME NEW t \in Thread, PhDeleteAutoPool(t) PROVE ExistInv'
  <2>1. \A x : ExistsIn(refCount', deferList', batch', pc', object', x) <=>
              ExistsIn(refCount, deferList, batch, pc, object, x)
    BY <1>2, <1>0 DEF ExistsIn, PhDeleteAutoPool, Work, storage, deferral, PlaceInv, Working
  <2>2. table' = table
    BY <1>2 DEF PhDeleteAutoPool
  <2> QED
    BY <1>2, <2>1, <2>2, SameExisting
       DEF PhDeleteAutoPool, Work, storage, deferral, ExistInv, ObjectIsDeletedOnce,
           ListedObjectIsStored
<1>3. ASSUME NEW t \in Thread, NEW o \in Object, PhAllocateFromFreeList(t, o)
      PROVE  ExistInv'
  <2>1. \A x : ExistsIn(refCount', deferList', batch', pc', object', x) <=>
              ExistsIn(refCount, deferList, batch, pc, object, x)
    BY <1>3, <1>0 DEF ExistsIn, PhAllocateFromFreeList, Work, references, deferral,
       PlaceInv, Working
  <2>2. table' = table
    BY <1>3 DEF PhAllocateFromFreeList
  <2> QED
    BY <1>3, <2>1, <2>2, SameExisting
       DEF PhAllocateFromFreeList, Work, references, deferral, ExistInv, ObjectIsDeletedOnce,
           ListedObjectIsStored
<1>4. ASSUME NEW t \in Thread, NEW o \in Object, PhReferenceObject(t, o)
      PROVE  ExistInv'
  <2>3. refCount[o] > 0
    BY <1>4, HeldIsCounted DEF PhReferenceObject, storage, deferral
  <2>1. \A x : ExistsIn(refCount', deferList', batch', pc', object', x) <=>
              ExistsIn(refCount, deferList, batch, pc, object, x)
    BY <1>4, <1>0, <2>3 DEF ExistsIn, PhReferenceObject, storage, deferral, PlaceInv,
       Working
  <2>2. table' = table
    BY <1>4 DEF PhReferenceObject
  <2> QED
    BY <1>4, <2>1, <2>2, SameExisting
       DEF PhReferenceObject, storage, deferral, ExistInv, ObjectIsDeletedOnce,
           ListedObjectIsStored
<1>5. ASSUME NEW t \in Thread, NEW o \in Object, PhReferenceObjectSafe(t, o)
      PROVE  ExistInv'
  <2>1. \A x : ExistsIn(refCount', deferList', batch', pc', object', x) <=>
              ExistsIn(refCount, deferList, batch, pc, object, x)
    BY <1>5, <1>0 DEF ExistsIn, PhReferenceObjectSafe, storage, deferral, PlaceInv, Working
  <2>2. table' = table
    BY <1>5 DEF PhReferenceObjectSafe
  <2> QED
    BY <1>5, <2>1, <2>2, SameExisting
       DEF PhReferenceObjectSafe, storage, deferral, ExistInv, ObjectIsDeletedOnce,
           ListedObjectIsStored
<1>6. ASSUME NEW t \in Thread, NEW o \in Object, PhDereferenceObject(t, o)
      PROVE  ExistInv'
  <2>3. refCount[o] > 0 /\ refCount' = [refCount EXCEPT ![o] = @ - 1]
    BY <1>6, HeldIsCounted DEF PhDereferenceObject, Dereferenced, Work, storage, deferral
  <2>1. \A x : ExistsIn(refCount', deferList', batch', pc', object', x) <=>
              ExistsIn(refCount, deferList, batch, pc, object, x)
    BY <1>6, <1>0, <2>3 DEF ExistsIn, PhDereferenceObject, Dereferenced, Work, storage,
       deferral, PlaceInv, Working
  <2>2. table' = table
    BY <1>6 DEF PhDereferenceObject
  <2> QED
    BY <1>6, <2>1, <2>2, SameExisting
       DEF PhDereferenceObject, Dereferenced, Work, storage,
           deferral, ExistInv, ObjectIsDeletedOnce,
           ListedObjectIsStored
<1>7. ASSUME NEW t \in Thread, NEW o \in Object, PhDereferenceObjectDeferDelete(t, o)
      PROVE  ExistInv'
  <2>3. refCount[o] > 0 /\ refCount' = [refCount EXCEPT ![o] = @ - 1]
    BY <1>7, HeldIsCounted DEF PhDereferenceObjectDeferDelete, Dereferenced, Work,
       storage, deferral
  <2>1. \A x : ExistsIn(refCount', deferList', batch', pc', object', x) <=>
              ExistsIn(refCount, deferList, batch, pc, object, x)
    BY <1>7, <1>0, <2>3 DEF ExistsIn, PhDereferenceObjectDeferDelete, Dereferenced, Work,
       storage, deferral, PlaceInv, Working
  <2>2. table' = table
    BY <1>7 DEF PhDereferenceObjectDeferDelete
  <2> QED
    BY <1>7, <2>1, <2>2, SameExisting
       DEF PhDereferenceObjectDeferDelete, Dereferenced, Work, storage,
           deferral, ExistInv, ObjectIsDeletedOnce,
           ListedObjectIsStored
<1>8. ASSUME NEW t \in Thread, NEW o \in Object, PhAutoDereferenceObject(t, o)
      PROVE  ExistInv'
  <2>1. \A x : ExistsIn(refCount', deferList', batch', pc', object', x) <=>
              ExistsIn(refCount, deferList, batch, pc, object, x)
    BY <1>8, <1>0 DEF ExistsIn, PhAutoDereferenceObject, storage, deferral, PlaceInv,
       Working
  <2>2. table' = table
    BY <1>8 DEF PhAutoDereferenceObject
  <2> QED
    BY <1>8, <2>1, <2>2, SameExisting
       DEF PhAutoDereferenceObject, storage, deferral, ExistInv, ObjectIsDeletedOnce,
           ListedObjectIsStored
<1>9. ASSUME NEW t \in Thread, DecrementCount(t) PROVE ExistInv'
  <2>1. \A x : ExistsIn(refCount', deferList', batch', pc', object', x) <=>
              ExistsIn(refCount, deferList, batch, pc, object, x)
    BY <1>9, <1>0 DEF ExistsIn, DecrementCount, Work, references, deferral, PlaceInv,
       Working
  <2>2. table' = table
    BY <1>9 DEF DecrementCount
  <2> QED
    BY <1>9, <2>1, <2>2, SameExisting
       DEF DecrementCount, Work, references, deferral, ExistInv, ObjectIsDeletedOnce,
           ListedObjectIsStored
<1>10. ASSUME NEW t \in Thread, PhCreateObject(t) PROVE ExistInv'
  <2> DEFINE o == object[t]
  <2>1. pc[t] = "create" /\ t \in Actor /\ o \in Object /\ Working(t)
    BY <1>10, <1>0 DEF PhCreateObject, PlaceInv, Working
  <2>2. /\ refCount' = [refCount EXCEPT ![o] = 1] /\ Work(t, "idle", None)
        /\ deferList' = deferList /\ batch' = batch
        /\ number' = number + 1 /\ table' \subseteq table \cup {o}
    BY <1>10 DEF PhCreateObject, deferral
  <2> HIDE DEF o
  <2>3. o \notin Existing
    BY <2>1, <1>0, ExistingMembers DEF ExistsIn, PlaceInv, Working, o
  <2>4. Existing' = Existing \cup {o}
    BY <2>1, <2>2, <1>0, ExistingMembers DEF ExistsIn, Work
  <2>5. IsFiniteSet(Existing') /\ Cardinality(Existing') = Cardinality(Existing) + 1
    BY <2>3, <2>4, FS_AddElement DEF ExistInv
  <2>6. table' \subseteq Existing'
    BY <2>2, <2>4 DEF ExistInv, ListedObjectIsStored
  <2> QED
    BY <2>2, <2>5, <2>6 DEF ExistInv, ObjectIsDeletedOnce, ListedObjectIsStored
<1>11. ASSUME NEW t \in Thread, PhDrainAutoPool(t) PROVE ExistInv'
  <2> DEFINE c == Len(pools[t])
             o == Head(pools[t][c])
  <2>1. /\ pools[t] # << >> /\ t \in Actor /\ pc[t] = "next"
        /\ deferList' = deferList /\ batch' = batch /\ number' = number /\ table' = table
    BY <1>11, <1>0 DEF PhDrainAutoPool, CountInv, storage, deferral
  <2>2. CASE pools[t][c] # << >>
    <3>1. o \in Object /\ refCount[o] > 0
      BY <2>1, <2>2, PooledIsCounted
    <3>2. /\ refCount' = [refCount EXCEPT ![o] = @ - 1]
          /\ IF refCount[o] = 1 THEN Work(t, "delete", o) ELSE pc' = pc /\ object' = object
      BY <1>11, <2>2 DEF PhDrainAutoPool, Dereferenced
    <3> HIDE DEF o, c
    <3>3. \A x : ExistsIn(refCount', deferList', batch', pc', object', x) <=>
                ExistsIn(refCount, deferList, batch, pc, object, x)
      BY <2>1, <3>1, <3>2, <1>0 DEF ExistsIn, Work
    <3>4. table' = table
      BY <2>1
    <3> QED
      BY <2>1, <3>3, <3>4, SameExisting DEF ExistInv, ObjectIsDeletedOnce,
           ListedObjectIsStored
  <2>3. CASE pools[t][c] = << >>
    <3>1. refCount' = refCount /\ Work(t, "idle", None)
      BY <1>11, <2>3 DEF PhDrainAutoPool
    <3> HIDE DEF c
    <3>2. \A x : ExistsIn(refCount', deferList', batch', pc', object', x) <=>
                ExistsIn(refCount, deferList, batch, pc, object, x)
      BY <2>1, <3>1, <1>0 DEF ExistsIn, Work
    <3>3. table' = table
      BY <2>1
    <3> QED
      BY <2>1, <3>2, <3>3, SameExisting DEF ExistInv, ObjectIsDeletedOnce,
           ListedObjectIsStored
  <2> QED
    BY <2>2, <2>3
<1>12. ASSUME NEW t \in Thread, PhpDeferDeleteObject(t) PROVE ExistInv'
  <2>1. \A x : ExistsIn(refCount', deferList', batch', pc', object', x) <=>
              ExistsIn(refCount, deferList, batch, pc, object, x)
    BY <1>12, <1>0 DEF ExistsIn, PhpDeferDeleteObject, Work, references, storage,
       PlaceInv, Working
  <2>2. table' = table
    BY <1>12 DEF PhpDeferDeleteObject
  <2> QED
    BY <1>12, <2>1, <2>2, SameExisting
       DEF PhpDeferDeleteObject, Work, references, storage, ExistInv, ObjectIsDeletedOnce,
           ListedObjectIsStored
<1>13. ASSUME NEW t \in Thread, PushDeferred(t) PROVE ExistInv'
  <2>3. Working(t) /\ object[t] \in Object /\ pc[t] = "push"
    BY <1>13, <1>0 DEF PushDeferred, PlaceInv, Working
  <2>4. Elements(deferList') = Elements(deferList) \cup {object[t]}
    BY <1>13, <2>3, PushElements DEF PushDeferred, TypeOK
  <2>1. \A x : ExistsIn(refCount', deferList', batch', pc', object', x) <=>
              ExistsIn(refCount, deferList, batch, pc, object, x)
    BY <1>13, <1>0, <2>3, <2>4
       DEF ExistsIn, PushDeferred, Work, references, storage, PlaceInv, Working
  <2>2. table' = table
    BY <1>13 DEF PushDeferred
  <2> QED
    BY <1>13, <2>1, <2>2, SameExisting
       DEF PushDeferred, Work, references, storage, ExistInv, ObjectIsDeletedOnce,
           ListedObjectIsStored
<1>14. ASSUME NEW t \in Thread, QueueRoutine(t) PROVE ExistInv'
  <2>1. \A x : ExistsIn(refCount', deferList', batch', pc', object', x) <=>
              ExistsIn(refCount, deferList, batch, pc, object, x)
    BY <1>14, <1>0 DEF ExistsIn, QueueRoutine, Work, references, storage, PlaceInv, Working
  <2>2. table' = table
    BY <1>14 DEF QueueRoutine
  <2> QED
    BY <1>14, <2>1, <2>2, SameExisting
       DEF QueueRoutine, Work, references, storage, ExistInv, ObjectIsDeletedOnce,
           ListedObjectIsStored
<1>15. ASSUME NEW a \in Actor, DeleteProcedure(a) PROVE ExistInv'
  <2> DEFINE o == object[a]
  <2>1. pc[a] = "delete" /\ o \in Object /\ Working(a) /\ o \in Existing
    BY <1>15, <1>0, ExistingMembers DEF DeleteProcedure, PlaceInv, Working, ExistsIn
  <2>2. /\ refCount' = refCount /\ Work(a, "store", o)
        /\ deferList' = deferList /\ batch' = batch
        /\ number' = number - 1 /\ table' = table \ {o}
    BY <1>15 DEF DeleteProcedure, references, deferral
  <2> HIDE DEF o
  <2>3. Existing' = Existing \ {o}
    BY <2>1, <2>2, <1>0, ExistingMembers DEF ExistsIn, Work, PlaceInv, Working, o
  <2>4. IsFiniteSet(Existing') /\ Cardinality(Existing') = Cardinality(Existing) - 1
    BY <2>1, <2>3, FS_RemoveElement DEF ExistInv
  <2>5. table' \subseteq Existing'
    BY <2>2, <2>3 DEF ExistInv, ListedObjectIsStored
  <2> QED
    BY <2>2, <2>4, <2>5 DEF ExistInv, ObjectIsDeletedOnce, ListedObjectIsStored
<1>16. ASSUME NEW a \in Actor, PhFreeToFreeList(a) PROVE ExistInv'
  <2>0. PICK place \in {"keep", "idle", "next"} : \E b : Work(a, place, b)
    BY <1>16 DEF PhFreeToFreeList, Resume
  <2>1. PICK b : Work(a, place, b)
    BY <2>0
  <2>2. /\ pc[a] = "store" /\ refCount' = refCount /\ deferList' = deferList
        /\ batch' = batch
        /\ number' = number /\ table' = table
    BY <1>16 DEF PhFreeToFreeList, references, deferral
  <2>3. \A x : ExistsIn(refCount', deferList', batch', pc', object', x) <=>
              ExistsIn(refCount, deferList, batch, pc, object, x)
    BY <2>1, <2>2, <1>0 DEF ExistsIn, Work
  <2>4. table' = table
    BY <2>2
  <2> QED
    BY <2>2, <2>3, <2>4, SameExisting DEF ExistInv, ObjectIsDeletedOnce,
           ListedObjectIsStored
<1>17. ASSUME NEW a \in Actor, IncrementCount(a) PROVE ExistInv'
  <2>1. \A x : ExistsIn(refCount', deferList', batch', pc', object', x) <=>
              ExistsIn(refCount, deferList, batch, pc, object, x)
    BY <1>17, <1>0 DEF ExistsIn, IncrementCount, Work, references, deferral, PlaceInv,
       Working, Resume
  <2>2. table' = table
    BY <1>17 DEF IncrementCount
  <2> QED
    BY <1>17, <2>1, <2>2, SameExisting
       DEF IncrementCount, Work, references, deferral, ExistInv, ObjectIsDeletedOnce,
           ListedObjectIsStored
<1>18. ASSUME NEW d \in Deleter, PhpDeferDeleteObjectRoutine(d) PROVE ExistInv'
  <2>3. batch[d] = << >> /\ deferList' = << >> /\ batch' = [batch EXCEPT ![d] = deferList]
    BY <1>18 DEF PhpDeferDeleteObjectRoutine, PlaceInv
  <2>1. \A x : ExistsIn(refCount', deferList', batch', pc', object', x) <=>
              ExistsIn(refCount, deferList, batch, pc, object, x)
    BY <1>18, <1>0, <2>3, NoElements
       DEF ExistsIn, PhpDeferDeleteObjectRoutine, Work, references, storage,
           PlaceInv, Working, TypeOK
  <2>2. table' = table
    BY <1>18 DEF PhpDeferDeleteObjectRoutine
  <2> QED
    BY <1>18, <2>1, <2>2, SameExisting
       DEF PhpDeferDeleteObjectRoutine, Work, references, storage, ExistInv, ObjectIsDeletedOnce,
           ListedObjectIsStored
<1>19. ASSUME NEW d \in Deleter, NextDeferred(d) PROVE ExistInv'
  <2>1. /\ pc[d] = "next" /\ d \in Actor /\ refCount' = refCount /\ deferList' = deferList
        /\ number' = number /\ table' = table
    BY <1>19, <1>0 DEF NextDeferred, references
  <2>2. CASE batch[d] # << >>
    <3> DEFINE o == Head(batch[d])
               r == Tail(batch[d])
    <3>1. o \in Elements(batch[d]) /\ o \in Object /\ Elements(r) = Elements(batch[d]) \ {o}
      BY <2>2, PopElements DEF TypeOK, PlaceInv
    <3>2. /\ Work(d, "delete", o)
          /\ batch'[d] = r /\ \A e \in Deleter : e # d => batch'[e] = batch[e]
      BY <1>19, <2>2 DEF NextDeferred, TypeOK
    <3> HIDE DEF o, r
    <3>3. \A x : ExistsIn(refCount', deferList', batch', pc', object', x) <=>
                ExistsIn(refCount, deferList, batch, pc, object, x)
      BY <2>1, <3>1, <3>2, <1>0 DEF ExistsIn, Work
    <3>4. table' = table
      BY <2>1
    <3> QED
      BY <2>1, <3>3, <3>4, SameExisting DEF ExistInv, ObjectIsDeletedOnce,
           ListedObjectIsStored
  <2>3. CASE batch[d] = << >>
    <3>1. Work(d, "idle", None) /\ batch' = batch
      BY <1>19, <2>3 DEF NextDeferred
    <3>2. \A x : ExistsIn(refCount', deferList', batch', pc', object', x) <=>
                ExistsIn(refCount, deferList, batch, pc, object, x)
      BY <2>1, <3>1, <1>0 DEF ExistsIn, Work
    <3>3. table' = table
      BY <2>1
    <3> QED
      BY <2>1, <3>2, <3>3, SameExisting DEF ExistInv, ObjectIsDeletedOnce,
           ListedObjectIsStored
  <2> QED
    BY <2>2, <2>3
<1>20. CASE UNCHANGED vars
  BY <1>20 DEF vars, references, storage, deferral, ExistInv, ObjectIsDeletedOnce,
     ListedObjectIsStored, Existing
<1>21. ASSUME NEW a \in Actor, PushFree(a) PROVE ExistInv'
  <2>1. \A x : ExistsIn(refCount', deferList', batch', pc', object', x) <=>
              ExistsIn(refCount, deferList, batch, pc, object, x)
    BY <1>21, <1>0 DEF ExistsIn, PushFree, Work, references, deferral
  <2>2. table' = table
    BY <1>21 DEF PushFree
  <2> QED
    BY <1>21, <2>1, <2>2, SameExisting
       DEF PushFree, ExistInv, ObjectIsDeletedOnce, ListedObjectIsStored
<1>22. ASSUME NEW t \in Thread, NEW o \in Object, PhReferenceObjectSafeOfLink(t, o)
       PROVE  ExistInv'
  BY <1>22 DEF PhReferenceObjectSafeOfLink, references, deferral, ExistInv,
     ObjectIsDeletedOnce, ListedObjectIsStored, Existing
<1> QED
  BY <1>1, <1>2, <1>3, <1>4, <1>5, <1>6, <1>7, <1>8, <1>9, <1>10, <1>11, <1>12, <1>13,
     <1>14, <1>15, <1>16, <1>17, <1>18, <1>19, <1>20, <1>21, <1>22
     DEF Next, ClientCall, ThreadStep, FreeStep, DeleterStep

\* One actor goes from a place to another.
LEMMA OneMoves ==
  ASSUME NEW A, NEW B, NEW w, IsFiniteSet(A), A \ {w} = B \ {w}
  PROVE  /\ IsFiniteSet(B)
         /\ Cardinality(B) = Cardinality(A) + (IF w \in B THEN 1 ELSE 0)
                                            - (IF w \in A THEN 1 ELSE 0)
<1> DEFINE C == A \ {w}
<1>1. Cardinality(A) \in Nat
  BY FS_CardinalityType
<1>2. IsFiniteSet(C) /\ Cardinality(C) = Cardinality(A) - (IF w \in A THEN 1 ELSE 0)
  BY <1>1, FS_RemoveElement
<1>3. CASE w \in B
  <2>1. B = C \cup {w} /\ w \notin C
    BY <1>3
  <2>2. IsFiniteSet(B) /\ Cardinality(B) = Cardinality(C) + 1
    BY <1>2, <2>1, FS_AddElement
  <2> QED
    BY <1>1, <1>2, <1>3, <2>2
<1>4. CASE w \notin B
  <2>1. B = C
    BY <1>4
  <2> QED
    BY <1>1, <1>2, <1>4, <2>1
<1> QED
  BY <1>3, <1>4

LEMMA ActorMoves ==
  ASSUME TypeOK, ListInv, NEW a \in Actor, NEW place, NEW o, Work(a, place, o)
  PROVE  /\ IsFiniteSet(Doing("increment")') /\ IsFiniteSet(Doing("decrement")')
         /\ Cardinality(Doing("increment")') =
              Cardinality(Doing("increment")) + (IF place = "increment" THEN 1 ELSE 0)
                                              - (IF pc[a] = "increment" THEN 1 ELSE 0)
         /\ Cardinality(Doing("decrement")') =
              Cardinality(Doing("decrement")) + (IF place = "decrement" THEN 1 ELSE 0)
                                              - (IF pc[a] = "decrement" THEN 1 ELSE 0)
<1>1. pc'[a] = place /\ \A b \in Actor : b # a => pc'[b] = pc[b]
  BY DEF Work, TypeOK
<1>2. ASSUME NEW p
      PROVE  /\ Doing(p) \ {a} = Doing(p)' \ {a}
             /\ a \in Doing(p)' <=> place = p
             /\ a \in Doing(p) <=> pc[a] = p
  BY <1>1 DEF Doing
<1>3. IsFiniteSet(Doing("increment")) /\ IsFiniteSet(Doing("decrement"))
  BY DEF ListInv
<1>4. /\ IsFiniteSet(Doing("increment")')
      /\ Cardinality(Doing("increment")') =
           Cardinality(Doing("increment")) + (IF a \in Doing("increment")' THEN 1 ELSE 0)
                                           - (IF a \in Doing("increment") THEN 1 ELSE 0)
  BY <1>2, <1>3, OneMoves
<1>5. /\ IsFiniteSet(Doing("decrement")')
      /\ Cardinality(Doing("decrement")') =
           Cardinality(Doing("decrement")) + (IF a \in Doing("decrement")' THEN 1 ELSE 0)
                                           - (IF a \in Doing("decrement") THEN 1 ELSE 0)
  BY <1>2, <1>3, OneMoves
<1> QED
  BY <1>2, <1>4, <1>5

\* What has to be shown of a step that moves an actor.
LEMMA ListKept ==
  ASSUME TypeOK, ListInv, NEW a \in Actor, NEW place, NEW o, Work(a, place, o),
         Len(freeList') - Len(freeList) =
           (count' - count) + ((IF place = "increment" THEN 1 ELSE 0)
                                - (IF pc[a] = "increment" THEN 1 ELSE 0))
                            - ((IF place = "decrement" THEN 1 ELSE 0)
                                - (IF pc[a] = "decrement" THEN 1 ELSE 0)),
         Len(freeList') \in Int, count' \in Int
  PROVE  ListInv'
<1> DEFINE inc == Cardinality(Doing("increment"))
           dec == Cardinality(Doing("decrement"))
           up  == (IF place = "increment" THEN 1 ELSE 0)
                    - (IF pc[a] = "increment" THEN 1 ELSE 0)
           dn  == (IF place = "decrement" THEN 1 ELSE 0)
                    - (IF pc[a] = "decrement" THEN 1 ELSE 0)
<1>1. /\ Len(freeList) = count + inc - dec
      /\ inc \in Int /\ dec \in Int /\ count \in Int /\ Len(freeList) \in Int
  BY FS_CardinalityType DEF ListInv, CountFollowsList, Doing, TypeOK
<1>2. /\ IsFiniteSet(Doing("increment")') /\ IsFiniteSet(Doing("decrement")')
      /\ Cardinality(Doing("increment")') = inc + up
      /\ Cardinality(Doing("decrement")') = dec + dn
  BY <1>1, ActorMoves
<1>3. /\ Len(freeList') - Len(freeList) = (count' - count) + up - dn
      /\ Len(freeList') \in Int /\ count' \in Int
  OBVIOUS
<1>4. up \in Int /\ dn \in Int
  OBVIOUS
<1> HIDE DEF up, dn, inc, dec
<1>5. Len(freeList') = count' + (inc + up) - (dec + dn)
  <2>1. PICK l \in Int, m \in Int, c \in Int, e \in Int :
          l = Len(freeList) /\ m = Len(freeList') /\ c = count /\ e = count'
    BY <1>1, <1>3
  <2>2. PICK i \in Int, j \in Int, u \in Int, v \in Int :
          i = inc /\ j = dec /\ u = up /\ v = dn
    BY <1>1, <1>4
  <2>3. l = c + i - j /\ m - l = (e - c) + u - v
    BY <1>1, <1>3, <2>1, <2>2
  <2>4. m = e + (i + u) - (j + v)
    BY <2>3
  <2> QED
    BY <2>1, <2>2, <2>4
<1>6. CountFollowsList'
  BY <1>2, <1>5 DEF CountFollowsList, Doing
<1> QED
  BY <1>2, <1>6 DEF ListInv

LEMMA ListStands ==
  ASSUME ListInv, freeList' = freeList, count' = count, pc' = pc
  PROVE  ListInv'
BY DEF ListInv, CountFollowsList, Doing

\* The free list and its counter.
LEMMA ListStep ==
  TypeOK /\ PlaceInv /\ ListInv /\ [Next]_vars => ListInv'
<1> SUFFICES ASSUME TypeOK, PlaceInv, ListInv, [Next]_vars PROVE ListInv'
  OBVIOUS
<1>0. /\ TypeOK /\ ListInv /\ Thread \subseteq Actor /\ Deleter \subseteq Actor
      /\ Len(freeList) \in Int /\ count \in Int
  BY DEF TypeOK, Actor
<1>1. ASSUME NEW t \in Thread, PhInitializeAutoPool(t) PROVE ListInv'
  <2>1. freeList' = freeList /\ count' = count /\ pc' = pc
    BY <1>1 DEF PhInitializeAutoPool, storage, deferral
  <2> QED
    BY <2>1, ListStands
<1>2. ASSUME NEW t \in Thread, PhDeleteAutoPool(t) PROVE ListInv'
  <2>1. /\ Work(t, "next", None) /\ freeList' = freeList /\ count' = count
        /\ pc[t] # "increment" /\ pc[t] # "decrement"
    BY <1>2 DEF PhDeleteAutoPool, storage, deferral
  <2> QED
    BY <2>1, <1>0, ListKept
<1>3. ASSUME NEW t \in Thread, NEW o \in Object, PhAllocateFromFreeList(t, o)
      PROVE  ListInv'
  <2>1. pc[t] = "idle" /\ count' = count
    BY <1>3 DEF PhAllocateFromFreeList
  <2>2. CASE freeList # << >> /\ freeList' = Tail(freeList) /\ Work(t, "decrement", o)
    <3>1. Len(freeList') = Len(freeList) - 1
      BY <2>2, PopElements DEF TypeOK
    <3>2. /\ Len(freeList') - Len(freeList) = -1 /\ count' - count = 0
          /\ Len(freeList') \in Int /\ count' \in Int
      BY <2>1, <3>1, <1>0
    <3>3. Len(freeList') - Len(freeList) =
            (count' - count) + ((IF "decrement" = "increment" THEN 1 ELSE 0)
                                 - (IF pc[t] = "increment" THEN 1 ELSE 0))
                             - ((IF "decrement" = "decrement" THEN 1 ELSE 0)
                                 - (IF pc[t] = "decrement" THEN 1 ELSE 0))
      BY <2>1, <3>2
    <3> QED
      BY <2>2, <3>2, <3>3, <1>0, ListKept
  <2>3. CASE Work(t, "create", o) /\ UNCHANGED freeList
    BY <2>1, <2>3, <1>0, ListKept
  <2> QED
    BY <1>3, <2>2, <2>3 DEF PhAllocateFromFreeList
<1>4. ASSUME NEW t \in Thread, NEW o \in Object, PhReferenceObject(t, o)
      PROVE  ListInv'
  <2>1. freeList' = freeList /\ count' = count /\ pc' = pc
    BY <1>4 DEF PhReferenceObject, storage, deferral
  <2> QED
    BY <2>1, ListStands
<1>5. ASSUME NEW t \in Thread, NEW o \in Object, PhReferenceObjectSafe(t, o)
      PROVE  ListInv'
  <2>1. freeList' = freeList /\ count' = count /\ pc' = pc
    BY <1>5 DEF PhReferenceObjectSafe, storage, deferral
  <2> QED
    BY <2>1, ListStands
<1>6. ASSUME NEW t \in Thread, NEW o \in Object, PhDereferenceObject(t, o)
      PROVE  ListInv'
  <2>1. Work(t, "delete", o) \/ pc' = pc
    BY <1>6 DEF PhDereferenceObject, Dereferenced
  <2>2. freeList' = freeList /\ count' = count /\ pc[t] = "idle"
    BY <1>6 DEF PhDereferenceObject, storage
  <2> QED
    BY <2>1, <2>2, <1>0, ListKept, ListStands
<1>7. ASSUME NEW t \in Thread, NEW o \in Object, PhDereferenceObjectDeferDelete(t, o)
      PROVE  ListInv'
  <2>1. Work(t, "peek", o) \/ pc' = pc
    BY <1>7 DEF PhDereferenceObjectDeferDelete, Dereferenced
  <2>2. freeList' = freeList /\ count' = count /\ pc[t] = "idle"
    BY <1>7 DEF PhDereferenceObjectDeferDelete, storage
  <2> QED
    BY <2>1, <2>2, <1>0, ListKept, ListStands
<1>8. ASSUME NEW t \in Thread, NEW o \in Object, PhAutoDereferenceObject(t, o)
      PROVE  ListInv'
  <2>1. freeList' = freeList /\ count' = count /\ pc' = pc
    BY <1>8 DEF PhAutoDereferenceObject, storage, deferral
  <2> QED
    BY <2>1, ListStands
<1>9. ASSUME NEW t \in Thread, DecrementCount(t) PROVE ListInv'
  <2>1. /\ Work(t, "create", object[t]) /\ freeList' = freeList /\ count' = count - 1
        /\ pc[t] = "decrement"
    BY <1>9 DEF DecrementCount
  <2> QED
    BY <2>1, <1>0, ListKept
<1>10. ASSUME NEW t \in Thread, PhCreateObject(t) PROVE ListInv'
  <2>1. /\ Work(t, "idle", None) /\ freeList' = freeList /\ count' = count
        /\ pc[t] # "increment" /\ pc[t] # "decrement"
    BY <1>10 DEF PhCreateObject, storage, deferral
  <2> QED
    BY <2>1, <1>0, ListKept
<1>11. ASSUME NEW t \in Thread, PhDrainAutoPool(t) PROVE ListInv'
  <2>0. PICK place \in {"delete", "idle"} : \E o : Work(t, place, o) \/ pc' = pc
    BY <1>11 DEF PhDrainAutoPool, Dereferenced
  <2>1. PICK o : Work(t, place, o) \/ pc' = pc
    BY <2>0
  <2>2. freeList' = freeList /\ count' = count /\ pc[t] = "next"
    BY <1>11 DEF PhDrainAutoPool, storage
  <2> QED
    BY <2>1, <2>2, <1>0, ListKept, ListStands
<1>12. ASSUME NEW t \in Thread, PhpDeferDeleteObject(t) PROVE ListInv'
  <2>1. /\ Work(t, "push", object[t]) /\ freeList' = freeList /\ count' = count
        /\ pc[t] # "increment" /\ pc[t] # "decrement"
    BY <1>12 DEF PhpDeferDeleteObject, references, storage
  <2> QED
    BY <2>1, <1>0, ListKept
<1>13. ASSUME NEW t \in Thread, PushDeferred(t) PROVE ListInv'
  <2>1. PICK place \in {"idle", "queue"} : Work(t, place, None)
    BY <1>13 DEF PushDeferred
  <2>2. freeList' = freeList /\ count' = count /\ pc[t] = "push"
    BY <1>13 DEF PushDeferred, storage
  <2> QED
    BY <2>1, <2>2, <1>0, ListKept
<1>14. ASSUME NEW t \in Thread, QueueRoutine(t) PROVE ListInv'
  <2>1. /\ Work(t, "idle", None) /\ freeList' = freeList /\ count' = count
        /\ pc[t] # "increment" /\ pc[t] # "decrement"
    BY <1>14 DEF QueueRoutine, references, storage
  <2> QED
    BY <2>1, <1>0, ListKept
<1>15. ASSUME NEW a \in Actor, DeleteProcedure(a) PROVE ListInv'
  <2>1. /\ Work(a, "store", object[a]) /\ freeList' = freeList /\ count' = count
        /\ pc[a] # "increment" /\ pc[a] # "decrement"
    BY <1>15 DEF DeleteProcedure, references, storage, deferral
  <2> QED
    BY <2>1, <1>0, ListKept
<1>16. ASSUME NEW a \in Actor, PhFreeToFreeList(a) PROVE ListInv'
  <2>0. PICK place \in {"keep", "idle", "next"} : \E o : Work(a, place, o)
    BY <1>16 DEF PhFreeToFreeList, Resume
  <2>1. PICK o : Work(a, place, o)
    BY <2>0
  <2>2. freeList' = freeList /\ count' = count /\ pc[a] = "store"
    BY <1>16 DEF PhFreeToFreeList, storage
  <2> QED
    BY <2>1, <2>2, <1>0, ListKept
<1>17. ASSUME NEW a \in Actor, IncrementCount(a) PROVE ListInv'
  <2>1. PICK place \in {"idle", "next"} : Work(a, place, None)
    BY <1>17 DEF IncrementCount, Resume
  <2>2. freeList' = freeList /\ count' = count + 1 /\ pc[a] = "increment"
    BY <1>17 DEF IncrementCount
  <2> QED
    BY <2>1, <2>2, <1>0, ListKept
<1>18. ASSUME NEW d \in Deleter, PhpDeferDeleteObjectRoutine(d) PROVE ListInv'
  <2>1. /\ Work(d, "next", None) /\ freeList' = freeList /\ count' = count
        /\ pc[d] # "increment" /\ pc[d] # "decrement"
    BY <1>18 DEF PhpDeferDeleteObjectRoutine, references, storage
  <2> QED
    BY <2>1, <1>0, ListKept
<1>19. ASSUME NEW d \in Deleter, NextDeferred(d) PROVE ListInv'
  <2>0. PICK place \in {"delete", "idle"} : \E o : Work(d, place, o)
    BY <1>19 DEF NextDeferred
  <2>1. PICK o : Work(d, place, o)
    BY <2>0
  <2>2. freeList' = freeList /\ count' = count /\ pc[d] = "next"
    BY <1>19 DEF NextDeferred, storage
  <2> QED
    BY <2>1, <2>2, <1>0, ListKept
<1>20. CASE UNCHANGED vars
  <2>1. freeList' = freeList /\ count' = count /\ pc' = pc
    BY <1>20 DEF vars
  <2> QED
    BY <2>1, ListStands
<1>21. ASSUME NEW a \in Actor, PushFree(a) PROVE ListInv'
  <2>1. pc[a] = "keep" /\ count' = count
        /\ freeList' = <<object[a]>> \o freeList /\ Work(a, "increment", object[a])
    BY <1>21 DEF PushFree
  <2>2. object[a] \in Object
    BY <2>1 DEF PlaceInv, Working
  <2>3. Len(freeList') = Len(freeList) + 1
    BY <2>1, <2>2, PushElements DEF TypeOK
  <2>4. /\ Len(freeList') - Len(freeList) = 1 /\ count' - count = 0
        /\ Len(freeList') \in Int /\ count' \in Int
    BY <2>1, <2>3, <1>0
  <2>5. Len(freeList') - Len(freeList) =
          (count' - count) + ((IF "increment" = "increment" THEN 1 ELSE 0)
                               - (IF pc[a] = "increment" THEN 1 ELSE 0))
                           - ((IF "increment" = "decrement" THEN 1 ELSE 0)
                               - (IF pc[a] = "decrement" THEN 1 ELSE 0))
    BY <2>1, <2>4
  <2> QED
    BY <2>1, <2>4, <2>5, <1>0, ListKept
<1>22. ASSUME NEW t \in Thread, NEW o \in Object, PhReferenceObjectSafeOfLink(t, o)
       PROVE  ListInv'
  <2>1. freeList' = freeList /\ count' = count /\ pc' = pc
    BY <1>22 DEF PhReferenceObjectSafeOfLink, storage
  <2> QED
    BY <2>1, ListStands
<1> QED
  BY <1>1, <1>2, <1>3, <1>4, <1>5, <1>6, <1>7, <1>8, <1>9, <1>10, <1>11, <1>12, <1>13,
     <1>14, <1>15, <1>16, <1>17, <1>18, <1>19, <1>20, <1>21, <1>22
     DEF Next, ClientCall, ThreadStep, FreeStep, DeleterStep

-----------------------------------------------------------------------------
(***************************************************************************)
(* The theorems.                                                           *)
(***************************************************************************)

LEMMA ZeroTypes == 0 \in Nat /\ 0 \in Int /\ FALSE \in BOOLEAN
OBVIOUS

\* No object exists at first.
LEMMA InitInv == Init => ObjectsIInv
<1> SUFFICES ASSUME Init PROVE ObjectsIInv
  OBVIOUS
<1>1. TypeOK
  <2>1. refCount \in [Object -> 0 .. MaxReferences]
    BY ObjectsAssumption DEF Init
  <2>2. /\ freeList \in Seq(Object) /\ deferList \in Seq(Object)
        /\ batch \in [Deleter -> Seq(Object)] /\ pools \in [Thread -> Seq(Seq(Object))]
    BY DEF Init
  <2>3. /\ held \in [Thread -> [Object -> Nat]]
        /\ pc \in [Actor -> {"idle", "decrement", "create", "delete", "store", "keep",
                            "increment", "next", "peek", "push", "queue"}]
        /\ object \in [Actor -> Object \cup {None}]
    BY DEF Init
  <2>4. /\ number \in Nat /\ table \subseteq Listed /\ closing \subseteq Thread
        /\ count \in Int /\ pending \in Nat /\ sawEmpty \subseteq Thread
        /\ missed \in BOOLEAN /\ corrupt \in BOOLEAN
    BY Zenon, ZeroTypes DEF Init
  <2> QED
    BY <2>1, <2>2, <2>3, <2>4 DEF TypeOK
<1>2. CountInv
  <2>1. ASSUME NEW o \in Object PROVE Uses(held, pools, o) = {}
    <3>1. \A t \in Thread : held[t][o] = 0 /\ Len(pools[t]) = 0
      BY DEF Init
    <3>2. \A i : i = 0 => \A k \in 1 .. i : FALSE
      OBVIOUS
    <3>3. ASSUME NEW x PROVE ~OwnUse(held, o, x) /\ ~PoolUse(pools, o, x)
      BY <3>1, <3>2 DEF OwnUse, PoolUse
    <3> QED
      BY <3>3, UsesMembers
  <2>2. \A o \in Object : refCount[o] = 0
    BY DEF Init
  <2>3. closing = {}
    BY DEF Init
  <2> QED
    BY <2>1, <2>2, <2>3, FS_EmptySet DEF CountInv, ReferencesAreCounted
<1>3. PlaceInv
  BY NoElements DEF Init, PlaceInv, Working
<1>4. ExistInv
  <2>1. \A x : ~ExistsIn(refCount, deferList, batch, pc, object, x)
    BY NoElements DEF Init, ExistsIn
  <2>2. Existing = {}
    BY <2>1, ExistingMembers
  <2> QED
    BY <2>2, FS_EmptySet DEF Init, ExistInv, ObjectIsDeletedOnce, ListedObjectIsStored
<1>5. ListInv
  <2>1. Doing("increment") = {} /\ Doing("decrement") = {}
    BY DEF Init, Doing
  <2>2. Len(freeList) = 0 /\ count = 0
    BY DEF Init
  <2>3. Len(freeList) =
          count + Cardinality(Doing("increment")) - Cardinality(Doing("decrement"))
    <3>1. Cardinality(Doing("increment")) = 0 /\ Cardinality(Doing("decrement")) = 0
      BY <2>1, FS_EmptySet
    <3> QED
      BY <2>2, <3>1
  <2>4. CountFollowsList
    BY <2>3 DEF CountFollowsList, Doing
  <2> QED
    BY <2>1, <2>4, FS_EmptySet DEF ListInv
<1> QED
  BY <1>1, <1>2, <1>3, <1>4, <1>5 DEF ObjectsIInv

\* Counts, places, existence and the free list keep the inductive invariant.
THEOREM Invariance == Spec => []ObjectsIInv
<1>1. Init => ObjectsIInv
  BY InitInv
<1>2. ObjectsIInv /\ [Next]_vars => ObjectsIInv'
  BY TypeStep, CountStep, PlaceStep, ExistStep, ListStep DEF ObjectsIInv
<1> QED
  BY <1>1, <1>2, PTL DEF Spec

\* Nobody can reach an object that is gone: what a thread or a pool has a reference
\* to is neither deleted nor waiting for it nor free, every reference is counted,
\* and what the client's table has can be looked up, until a look-up takes a link of
\* the to-free list for a count.
THEOREM ReferencesAreSafe == Spec => []ReferenceInv
<1>1. ObjectsIInv => ReferenceInv
  <2> SUFFICES ASSUME ObjectsIInv PROVE ReferenceInv
    OBVIOUS
  <2>1. TypeOK /\ CountInv /\ PlaceInv /\ ExistInv
    BY DEF ObjectsIInv
  <2>2. ReferencedObjectIsAlive
    <3> SUFFICES ASSUME NEW o \in Object, Uses(held, pools, o) # {}
                 PROVE  /\ o \notin Elements(freeList) \cup Elements(deferList)
                        /\ \A d \in Deleter : o \notin Elements(batch[d])
                        /\ \A a \in Actor : object[a] = o =>
                             pc[a] \notin {"decrement", "create", "delete", "store",
                                           "keep", "peek", "push"}
      BY DEF ReferencedObjectIsAlive
    <3>1. refCount[o] # 0
      BY <2>1, FS_EmptySet DEF CountInv, ReferencesAreCounted
    <3>2. refCount[o] > 0
      BY <2>1, <3>1 DEF TypeOK
    <3> QED
      BY <2>1, <3>2 DEF PlaceInv, Working
  <2>3. ListedObjectIsStored
    BY <2>1 DEF ExistInv
  <2> QED
    BY <2>1, <2>2, <2>3 DEF CountInv, ReferenceInv
<1> QED
  BY <1>1, Invariance, PTL

\* NumberOfObjects counts the objects that exist, so that none is deleted twice.
THEOREM DeletionIsOnce == Spec => []ObjectIsDeletedOnce
<1>1. ObjectsIInv => ObjectIsDeletedOnce
  BY DEF ObjectsIInv, ExistInv
<1> QED
  BY <1>1, Invariance, PTL

\* The free list is as long as its counter says, up to the operations under way.
THEOREM ListIsCounted == Spec => []FreeListInv
<1>1. ObjectsIInv => FreeListInv
  BY DEF ObjectsIInv, ListInv, FreeListInv
<1> QED
  BY <1>1, Invariance, PTL

=============================================================================
