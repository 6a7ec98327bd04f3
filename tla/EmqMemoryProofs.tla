-------------------------- MODULE EmqMemoryProofs --------------------------
(***************************************************************************)
(* The linked lists stay well formed through every sequence of commands,   *)
(* callbacks and failures, for every number of nodes and names.            *)
(***************************************************************************)
EXTENDS EmqMemory, Integers, WellFoundedInduction, TLAPS

Pointer == Node \cup {NULL}

\* The members of a list and of its nodes that the links are made of.
ListType(l) ==
  /\ l.length \in Nat /\ l.alive \subseteq Node
  /\ l.next \in [Node -> Pointer] /\ l.prev \in [Node -> Pointer]

\* Both facts about one list.
Sound(l) == ListType(l) /\ WellFormed(l)

\* An empty list is well formed.
LEMMA InitSound == Sound(emq_list_init)
<1> DEFINE l == emq_list_init
           s == [i \in 1..0 |-> NULL]
<1>1. ListType(l)  BY DEF ListType, emq_list_init, Pointer
<1>2. s \in [1..l.length -> l.alive]  BY DEF emq_list_init
<1>3. Represents(l, s)  BY DEF Represents, emq_list_init
<1> QED BY <1>1, <1>2, <1>3 DEF Sound, WellFormed

\* emq_list_add_value puts a node in front of the chain.
LEMMA AddSound ==
  ASSUME NEW l, Sound(l), NEW n \in Node \ l.alive, NEW v
  PROVE  Sound(emq_list_add_value(l, n, v))
<1> DEFINE m == emq_list_add_value(l, n, v)
<1>1. PICK s \in [1..l.length -> l.alive] : Represents(l, s)
  BY DEF Sound, WellFormed
<1>2. l.length \in Nat /\ l.alive \subseteq Node /\ l.next \in [Node -> Pointer]
      /\ l.prev \in [Node -> Pointer] /\ NULL \notin Node
  BY NodeAssumption DEF Sound, ListType
<1>3. /\ m.length = l.length + 1 /\ m.alive = l.alive \cup {n} /\ m.head = n
      /\ m.tail = (IF l.length = 0 THEN n ELSE l.tail)
      /\ m.next = [l.next EXCEPT ![n] = IF l.length = 0 THEN NULL ELSE l.head]
      /\ m.prev = [x \in Node |-> IF x = n THEN NULL
                                  ELSE IF l.length # 0 /\ x = l.head THEN n
                                  ELSE l.prev[x]]
  BY DEF emq_list_add_value
<1> HIDE DEF m
<1> DEFINE t == [i \in 1..(l.length + 1) |-> IF i = 1 THEN n ELSE s[i - 1]]
<1>4. l.length = 0 \/ l.head \in Node
  BY <1>1, <1>2 DEF Represents
<1>5. ListType(m)
  <2>1. m.length \in Nat /\ m.alive \subseteq Node  BY <1>2, <1>3
  <2>2. m.next \in [Node -> Pointer]  BY <1>2, <1>3, <1>4 DEF Pointer
  <2>3. m.prev \in [Node -> Pointer]  BY <1>2, <1>3 DEF Pointer
  <2> QED BY <2>1, <2>2, <2>3 DEF ListType
<1>6. t \in [1..m.length -> m.alive]  BY <1>1, <1>2, <1>3
<1>7. m.alive = {t[i] : i \in 1..m.length}
  <2>1. ASSUME NEW x \in m.alive
        PROVE  \E i \in 1..m.length : t[i] = x
    <3>1. CASE x = n
      <4>1. 1 \in 1..m.length /\ t[1] = n  BY <1>2, <1>3
      <4> QED BY <3>1, <4>1
    <3>2. CASE x \in l.alive
      <4>1. PICK i \in 1..l.length : s[i] = x  BY <1>1, <3>2 DEF Represents
      <4>2. i + 1 \in 1..m.length /\ t[i + 1] = x  BY <1>2, <1>3, <4>1
      <4> QED BY <4>2
    <3> QED BY <1>3, <2>1, <3>1, <3>2
  <2>2. \A i \in 1..m.length : t[i] \in m.alive  BY <1>6
  <2> HIDE DEF t
  <2> QED BY <2>1, <2>2
<1>8. \A i, j \in 1..m.length : t[i] = t[j] => i = j
  <2> TAKE i, j \in 1..m.length
  <2> HAVE t[i] = t[j]
  <2>1. CASE i = 1 \/ j = 1
    <3>1. \A x \in 1..m.length : x # 1 => t[x] \in l.alive  BY <1>1, <1>2, <1>3
    <3>2. t[1] = n /\ n \notin l.alive  BY <1>2
    <3> HIDE DEF t
    <3> QED BY <2>1, <3>1, <3>2
  <2>2. CASE i # 1 /\ j # 1
    <3>1. i - 1 \in 1..l.length /\ j - 1 \in 1..l.length /\ s[i - 1] = s[j - 1]
      BY <1>2, <1>3, <2>2
    <3>2. i - 1 = j - 1  BY <1>1, <3>1 DEF Represents
    <3> QED BY <1>2, <1>3, <3>2
  <2> QED BY <2>1, <2>2
<1>9. /\ m.head = IF m.length = 0 THEN NULL ELSE t[1]
      /\ m.tail = IF m.length = 0 THEN NULL ELSE t[m.length]
  <2>1. CASE l.length = 0  BY <1>2, <1>3, <2>1
  <2>2. CASE l.length # 0
    <3>1. l.tail = s[l.length]  BY <1>1, <2>2 DEF Represents
    <3> QED BY <1>2, <1>3, <2>2, <3>1
  <2> QED BY <2>1, <2>2
<1>10. ASSUME NEW i \in 1..m.length
       PROVE  /\ m.next[t[i]] = IF i = m.length THEN NULL ELSE t[i + 1]
              /\ m.prev[t[i]] = IF i = 1 THEN NULL ELSE t[i - 1]
  <2>1. CASE i = 1
    <3>1. t[i] = n /\ m.prev[n] = NULL  BY <1>2, <1>3, <2>1
    <3>2. m.next[n] = IF l.length = 0 THEN NULL ELSE l.head  BY <1>2, <1>3
    <3>3. l.length # 0 => l.head = s[1] /\ t[2] = s[1]  BY <1>1, <1>2 DEF Represents
    <3> QED BY <1>2, <1>3, <2>1, <3>1, <3>2, <3>3
  <2>2. CASE i # 1
    <3>1. i - 1 \in 1..l.length /\ t[i] = s[i - 1] /\ l.length # 0
      BY <1>2, <1>3, <2>2
    <3>2. s[i - 1] \in l.alive /\ s[i - 1] # n  BY <1>1, <3>1
    <3>3. m.next[t[i]] = l.next[s[i - 1]]  BY <1>2, <1>3, <3>1, <3>2
    <3>4. l.next[s[i - 1]] = IF i - 1 = l.length THEN NULL ELSE s[i]
      BY <1>1, <1>2, <1>3, <3>1 DEF Represents
    <3>5. i # m.length => t[i + 1] = s[i]  BY <1>2, <1>3, <2>2
    <3>6. m.next[t[i]] = IF i = m.length THEN NULL ELSE t[i + 1]
      BY <1>2, <1>3, <3>3, <3>4, <3>5
    <3>7. l.head = s[1]  BY <1>1, <3>1 DEF Represents
    <3>8. CASE i = 2
      BY <1>2, <1>3, <3>1, <3>2, <3>6, <3>7, <3>8
    <3>9. CASE i # 2
      <4>1. s[i - 1] # s[1]  BY <1>1, <1>2, <3>1, <3>9, <2>2 DEF Represents
      <4>2. m.prev[t[i]] = l.prev[s[i - 1]]  BY <1>2, <1>3, <3>1, <3>2, <3>7, <4>1
      <4>3. l.prev[s[i - 1]] = s[i - 2]
        BY <1>1, <1>2, <3>1, <3>9 DEF Represents
      <4>4. t[i - 1] = s[i - 2]  BY <1>2, <1>3, <2>2, <3>9
      <4> QED BY <2>2, <3>6, <4>2, <4>3, <4>4
    <3> QED BY <3>8, <3>9
  <2> QED BY <2>1, <2>2
<1>11. Represents(m, t)  BY <1>7, <1>8, <1>9, <1>10 DEF Represents
<1> QED BY <1>5, <1>6, <1>11 DEF Sound, WellFormed, m

\* emq_list_delete_node takes a node out of the chain, wherever it is.
LEMMA DeleteSound ==
  ASSUME NEW l, Sound(l), NEW n \in l.alive
  PROVE  Sound(emq_list_delete_node(l, n))
<1> DEFINE m == emq_list_delete_node(l, n)
<1>1. PICK s \in [1..l.length -> l.alive] : Represents(l, s)
  BY DEF Sound, WellFormed
<1>2. l.length \in Nat /\ l.alive \subseteq Node /\ l.next \in [Node -> Pointer]
      /\ l.prev \in [Node -> Pointer] /\ NULL \notin Node
  BY NodeAssumption DEF Sound, ListType
<1>3. /\ m.length = l.length - 1 /\ m.alive = l.alive \ {n}
      /\ m.head = (IF l.prev[n] # NULL THEN l.head ELSE l.next[n])
      /\ m.tail = (IF l.next[n] # NULL THEN l.tail ELSE l.prev[n])
      /\ m.next = [x \in Node |-> IF x = n THEN NULL
                                  ELSE IF x = l.prev[n] THEN l.next[n] ELSE l.next[x]]
      /\ m.prev = [x \in Node |-> IF x = n THEN NULL
                                  ELSE IF x = l.next[n] THEN l.prev[n] ELSE l.prev[x]]
  BY DEF emq_list_delete_node
<1> HIDE DEF m
<1>4. PICK k \in 1..l.length : s[k] = n  BY <1>1 DEF Represents
<1> DEFINE t == [i \in 1..(l.length - 1) |-> IF i < k THEN s[i] ELSE s[i + 1]]
<1>5. l.length \in Nat /\ k \in Nat /\ k >= 1 /\ k <= l.length  BY <1>2, <1>4
<1>6. ListType(m)
  <2>1. m.length \in Nat /\ m.alive \subseteq Node  BY <1>2, <1>3, <1>5
  <2>2. m.next \in [Node -> Pointer]  BY <1>2, <1>3 DEF Pointer
  <2>3. m.prev \in [Node -> Pointer]  BY <1>2, <1>3 DEF Pointer
  <2> QED BY <2>1, <2>2, <2>3 DEF ListType
\* The links of l, place by place.
<1>7. ASSUME NEW i \in 1..l.length
      PROVE  /\ s[i] \in Node /\ s[i] # NULL
             /\ l.next[s[i]] = IF i = l.length THEN NULL ELSE s[i + 1]
             /\ l.prev[s[i]] = IF i = 1 THEN NULL ELSE s[i - 1]
  BY <1>1, <1>2 DEF Represents
<1>8. \A i, j \in 1..l.length : s[i] = s[j] => i = j  BY <1>1 DEF Represents
<1>9. l.next[n] = (IF k = l.length THEN NULL ELSE s[k + 1])
      /\ l.prev[n] = (IF k = 1 THEN NULL ELSE s[k - 1])
  BY <1>4, <1>7
\* Where the places of t come from.
<1> DEFINE from(i) == IF i < k THEN i ELSE i + 1
<1>10. ASSUME NEW i \in 1..m.length
       PROVE  from(i) \in 1..l.length /\ from(i) # k /\ t[i] = s[from(i)] /\ t[i] # n
  <2>1. i \in Nat /\ i >= 1 /\ i <= l.length - 1  BY <1>3, <1>5
  <2>2. from(i) \in 1..l.length /\ from(i) # k  BY <1>5, <2>1
  <2>3. t[i] = s[from(i)]  BY <1>5, <2>1
  <2>4. s[from(i)] # s[k]
    <3> HIDE DEF t, from
    <3> QED BY <1>4, <1>8, <2>2
  <2> QED BY <1>4, <2>2, <2>3, <2>4
<1>11. t \in [1..m.length -> m.alive]
  <2>1. \A i \in 1..m.length : t[i] \in m.alive  BY <1>1, <1>3, <1>10
  <2> QED BY <1>3, <2>1
<1>12. m.alive = {t[i] : i \in 1..m.length}
  <2>1. ASSUME NEW x \in m.alive
        PROVE  \E i \in 1..m.length : t[i] = x
    <3>1. PICK j \in 1..l.length : s[j] = x  BY <1>1, <1>3 DEF Represents
    <3>2. j # k  BY <1>3, <1>4, <3>1
    <3>3. CASE j < k
      <4>1. j \in 1..m.length /\ t[j] = x  BY <1>3, <1>5, <3>1, <3>3
      <4> QED BY <4>1
    <3>4. CASE j > k
      <4>1. j - 1 \in 1..m.length /\ t[j - 1] = x  BY <1>3, <1>5, <3>1, <3>4
      <4> QED BY <4>1
    <3>5. j < k \/ j > k  BY <1>5, <3>2
    <3> QED BY <3>3, <3>4, <3>5
  <2>2. \A i \in 1..m.length : t[i] \in m.alive  BY <1>11
  <2> HIDE DEF t
  <2> QED BY <2>1, <2>2
<1>13. \A i, j \in 1..m.length : t[i] = t[j] => i = j
  <2> TAKE i, j \in 1..m.length
  <2> HAVE t[i] = t[j]
  <2>1. from(i) \in 1..l.length /\ t[i] = s[from(i)]  BY <1>10
  <2>2. from(j) \in 1..l.length /\ t[j] = s[from(j)]  BY <1>10
  <2>3. from(i) = from(j)
    <3> HIDE DEF t, from
    <3>1. s[from(i)] = s[from(j)]  BY <2>1, <2>2
    <3> QED BY <1>8, <2>1, <2>2, <3>1
  <2>4. i \in Nat /\ j \in Nat /\ k \in Nat  BY <1>3, <1>5
  <2> HIDE DEF t
  <2> QED BY <2>3, <2>4
<1>14. l.head = s[1] /\ l.tail = s[l.length]
  BY <1>1, <1>5 DEF Represents
<1>15. m.head = IF m.length = 0 THEN NULL ELSE t[1]
  <2>1. CASE k = 1  BY <1>3, <1>5, <1>9, <2>1
  <2>2. CASE k # 1
    <3>1. s[k - 1] # NULL /\ l.prev[n] = s[k - 1]  BY <1>5, <1>7, <1>9, <2>2
    <3> QED BY <1>3, <1>5, <1>14, <2>2, <3>1
  <2> QED BY <2>1, <2>2
<1>16. m.tail = IF m.length = 0 THEN NULL ELSE t[m.length]
  <2>1. CASE k = l.length  BY <1>3, <1>5, <1>9, <2>1
  <2>2. CASE k # l.length
    <3>1. s[k + 1] # NULL /\ l.next[n] = s[k + 1]  BY <1>5, <1>7, <1>9, <2>2
    <3> QED BY <1>3, <1>5, <1>14, <2>2, <3>1
  <2> QED BY <2>1, <2>2
<1>17. ASSUME NEW i \in 1..m.length
       PROVE  m.next[t[i]] = IF i = m.length THEN NULL ELSE t[i + 1]
  <2>1. i \in Nat /\ i >= 1 /\ i <= l.length - 1  BY <1>3, <1>5
  <2>2. from(i) \in 1..l.length /\ t[i] = s[from(i)] /\ t[i] # n  BY <1>10
  <2>3. t[i] \in Node  BY <1>7, <2>2
  <2>4. CASE i = k - 1
    <3>1. t[i] = s[k - 1] /\ l.prev[n] = s[k - 1]  BY <1>5, <1>9, <2>1, <2>4
    <3>2. m.next[t[i]] = l.next[n]  BY <1>3, <2>2, <2>3, <3>1
    <3> QED BY <1>3, <1>5, <1>9, <2>1, <2>4, <3>2
  <2>5. CASE i # k - 1
    <3>1. t[i] # l.prev[n]
      <4>1. CASE k = 1  BY <1>7, <1>9, <2>2, <4>1
      <4>2. CASE k # 1
        <5>1. k - 1 \in 1..l.length /\ from(i) # k - 1  BY <1>5, <2>1, <2>5, <4>2
        <5> QED BY <1>8, <1>9, <2>2, <4>2, <5>1
      <4> QED BY <4>1, <4>2
    <3>2. m.next[t[i]] = l.next[s[from(i)]]  BY <1>3, <2>2, <2>3, <3>1
    <3>3. l.next[s[from(i)]] = IF from(i) = l.length THEN NULL ELSE s[from(i) + 1]
      BY <1>7, <2>2
    <3>4. CASE i < k  BY <1>3, <1>5, <2>1, <2>5, <3>2, <3>3, <3>4
    <3>5. CASE i >= k  BY <1>3, <1>5, <2>1, <2>5, <3>2, <3>3, <3>5
    <3> QED BY <1>5, <2>1, <3>4, <3>5
  <2> QED BY <2>4, <2>5
<1>18. ASSUME NEW i \in 1..m.length
       PROVE  m.prev[t[i]] = IF i = 1 THEN NULL ELSE t[i - 1]
  <2>1. i \in Nat /\ i >= 1 /\ i <= l.length - 1  BY <1>3, <1>5
  <2>2. from(i) \in 1..l.length /\ t[i] = s[from(i)] /\ t[i] # n  BY <1>10
  <2>3. t[i] \in Node  BY <1>7, <2>2
  <2>4. CASE i = k
    <3>1. t[i] = s[k + 1] /\ l.next[n] = s[k + 1]  BY <1>5, <1>9, <2>1, <2>4
    <3>2. m.prev[t[i]] = l.prev[n]  BY <1>3, <2>2, <2>3, <3>1
    <3> QED BY <1>3, <1>5, <1>9, <2>1, <2>4, <3>2
  <2>5. CASE i # k
    <3>1. t[i] # l.next[n]
      <4>1. CASE k = l.length  BY <1>7, <1>9, <2>2, <4>1
      <4>2. CASE k # l.length
        <5>1. k + 1 \in 1..l.length /\ from(i) # k + 1  BY <1>5, <2>1, <2>5, <4>2
        <5> QED BY <1>8, <1>9, <2>2, <4>2, <5>1
      <4> QED BY <4>1, <4>2
    <3>2. m.prev[t[i]] = l.prev[s[from(i)]]  BY <1>3, <2>2, <2>3, <3>1
    <3>3. l.prev[s[from(i)]] = IF from(i) = 1 THEN NULL ELSE s[from(i) - 1]
      BY <1>7, <2>2
    <3>4. CASE i < k  BY <1>3, <1>5, <2>1, <2>5, <3>2, <3>3, <3>4
    <3>5. CASE i > k  BY <1>3, <1>5, <2>1, <2>5, <3>2, <3>3, <3>5
    <3> QED BY <1>5, <2>1, <2>5, <3>4, <3>5
  <2> QED BY <2>4, <2>5
<1>19. Represents(m, t)  BY <1>12, <1>13, <1>15, <1>16, <1>17, <1>18 DEF Represents
<1> QED BY <1>6, <1>11, <1>19 DEF Sound, WellFormed, m

(***************************************************************************)
(* The nodes a walk meets.                                                 *)
(***************************************************************************)
\* A set of numbers has a least one: what stands in for induction below.
LEMMA LeastNat ==
  ASSUME NEW T \in SUBSET Nat, T # {}
  PROVE  \E m \in T : \A k \in T : m <= k
<1> DEFINE R == {p \in Nat \X Nat : p[1] < p[2]}
<1>1. IsWellFoundedOn(R, Nat)
  BY NatLessThanWellFounded DEF OpToRel
<1> HIDE DEF R
<1>2. PICK m \in T : \A k \in T : <<k, m>> \notin R
  BY <1>1, WFMin
<1>3. \A k \in T : ~(k < m)
  BY <1>2 DEF R
<1>4. \A k \in T : k \in Nat /\ m \in Nat
  BY <1>2
<1> QED
  BY <1>2, <1>3, <1>4

\* g satisfies the recursion of the walk.
Unfolds(l, g) ==
  g = [k \in Nat |-> IF k = 0 THEN l.head
                     ELSE IF g[k - 1] = NULL THEN NULL ELSE l.next[g[k - 1]]]

\* The walk does, once some function does.
LEMMA WalkDef ==
  ASSUME NEW l, NEW g, Unfolds(l, g)
  PROVE  Unfolds(l, Walk(l))
BY Zenon DEF Walk, Unfolds

\* The first `length' steps of a walk meet the nodes of the chain in turn.
LEMMA WalkChain ==
  ASSUME NEW l, Sound(l), NEW s \in [1..l.length -> l.alive], Represents(l, s),
         NEW j \in Nat, j < l.length
  PROVE  Walk(l)[j] = s[j + 1]
<1> DEFINE g == [k \in Nat |-> IF k < l.length THEN s[k + 1] ELSE NULL]
<1>1. l.length \in Nat /\ l.alive \subseteq Node /\ NULL \notin Node
  BY NodeAssumption DEF Sound, ListType
<1>2. \A i \in 1..l.length : s[i] # NULL /\ l.next[s[i]] = IF i = l.length THEN NULL ELSE s[i + 1]
  BY <1>1 DEF Represents
<1>3. l.head = IF l.length = 0 THEN NULL ELSE s[1]
  BY DEF Represents
<1>4. ASSUME NEW k \in Nat
      PROVE  g[k] = IF k = 0 THEN l.head
                    ELSE IF g[k - 1] = NULL THEN NULL ELSE l.next[g[k - 1]]
  <2>1. CASE k = 0
    BY <1>1, <1>3, <2>1
  <2>2. CASE k # 0 /\ k - 1 < l.length
    <3>1. g[k - 1] = s[k] /\ k \in 1..l.length
      BY <1>1, <2>2
    <3>2. l.next[s[k]] = (IF k = l.length THEN NULL ELSE s[k + 1]) /\ s[k] # NULL
      BY <1>2, <3>1
    <3>3. g[k] = IF k = l.length THEN NULL ELSE s[k + 1]
      BY <1>1, <2>2
    <3> HIDE DEF g
    <3> QED
      BY <2>2, <3>1, <3>2, <3>3
  <2>3. CASE k # 0 /\ ~(k - 1 < l.length)
    BY <1>1, <2>3
  <2> QED
    BY <2>1, <2>2, <2>3
<1>5. g = [k \in Nat |-> IF k = 0 THEN l.head
                         ELSE IF g[k - 1] = NULL THEN NULL ELSE l.next[g[k - 1]]]
  <2> DEFINE h == [k \in Nat |-> IF k = 0 THEN l.head
                         ELSE IF g[k - 1] = NULL THEN NULL ELSE l.next[g[k - 1]]]
  <2>1. \A k \in Nat : g[k] = h[k]
    <3> HIDE DEF g
    <3> QED
      BY <1>4
  <2>2. DOMAIN g = Nat /\ DOMAIN h = Nat
    OBVIOUS
  <2>3. g = [k \in Nat |-> g[k]] /\ h = [k \in Nat |-> h[k]]
    OBVIOUS
  <2> HIDE DEF g, h
  <2>4. g = h
    BY <2>1, <2>3
  <2> QED
    BY <2>4 DEF h
<1> HIDE DEF g
<1> DEFINE w == Walk(l)
<1>6. Unfolds(l, g)
  BY <1>5 DEF Unfolds
<1>7. Unfolds(l, w)
  BY <1>6, WalkDef
<1> HIDE DEF w
<1>8. \A k \in Nat : w[k] = IF k = 0 THEN l.head
                            ELSE IF w[k - 1] = NULL THEN NULL ELSE l.next[w[k - 1]]
  BY <1>7 DEF Unfolds
<1>9. ASSUME NEW k \in Nat, w[k] # g[k] PROVE FALSE
  <2> DEFINE T == {i \in Nat : w[i] # g[i]}
  <2>1. T \in SUBSET Nat /\ T # {}
    BY <1>9
  <2>2. PICK m \in T : \A i \in T : m <= i
    BY <2>1, LeastNat
  <2>3. m \in Nat /\ w[m] # g[m]
    BY <2>2
  <2>4. m # 0
    BY <1>4, <1>8, <2>3
  <2>5. m - 1 \in Nat /\ ~(m <= m - 1)
    BY <2>3, <2>4
  <2>6. w[m - 1] = g[m - 1]
    BY <2>2, <2>5
  <2> QED
    BY <1>4, <1>8, <2>3, <2>4, <2>6
<1>10. w[j] = g[j]
  BY <1>9
<1> QED
  BY <1>10 DEF w, g

\* emq_list_release frees every node of a list and nothing else.
LEMMA WalkedAlive ==
  ASSUME NEW l, Sound(l)
  PROVE  Walked(l) = l.alive
<1>1. PICK s \in [1..l.length -> l.alive] : Represents(l, s)
  BY DEF Sound, WellFormed
<1>2. l.length \in Nat
  BY DEF Sound, ListType
<1> DEFINE w == Walk(l)
<1>3. \A k \in 0..(l.length - 1) : w[k] = s[k + 1]
  BY <1>1, <1>2, WalkChain
<1>4. Walked(l) = {w[k] : k \in 0..(l.length - 1)}
  BY DEF Walked
<1>5. l.alive = {s[i] : i \in 1..l.length}
  BY <1>1 DEF Represents
<1> HIDE DEF w
<1>6. ASSUME NEW x \in Walked(l) PROVE x \in l.alive
  <2>1. PICK k \in 0..(l.length - 1) : x = w[k]
    BY <1>4
  <2>2. k + 1 \in 1..l.length
    BY <1>2
  <2> QED
    BY <1>3, <1>5, <2>1, <2>2
<1>7. ASSUME NEW x \in l.alive PROVE x \in Walked(l)
  <2>1. PICK k \in 1..l.length : x = s[k]
    BY <1>5
  <2>2. k - 1 \in 0..(l.length - 1) /\ (k - 1) + 1 = k
    BY <1>2
  <2>3. w[k - 1] = s[k]
    BY <1>3, <2>2
  <2> QED
    BY <1>4, <2>1, <2>2, <2>3
<1> QED
  BY <1>6, <1>7

\* What the iterator of a loop meets: a node of the list, another one after
\* each step.
LEMMA NextNode ==
  ASSUME NEW l, Sound(l)
  PROVE  /\ l.head \in l.alive \cup {NULL}
         /\ \A n \in l.alive : l.next[n] \in (l.alive \ {n}) \cup {NULL}
<1>1. PICK s \in [1..l.length -> l.alive] : Represents(l, s)
  BY DEF Sound, WellFormed
<1>2. l.length \in Nat
  BY DEF Sound, ListType
<1>3. l.head \in l.alive \cup {NULL}
  BY <1>1, <1>2 DEF Represents
<1>4. ASSUME NEW n \in l.alive PROVE l.next[n] \in (l.alive \ {n}) \cup {NULL}
  <2>1. PICK i \in 1..l.length : n = s[i]
    BY <1>1 DEF Represents
  <2>2. l.next[n] = IF i = l.length THEN NULL ELSE s[i + 1]
    BY <1>1, <2>1 DEF Represents
  <2>3. ASSUME i # l.length PROVE s[i + 1] \in l.alive /\ s[i + 1] # n
    <3>1. i + 1 \in 1..l.length /\ i + 1 # i
      BY <1>2, <2>3
    <3> QED
      BY <1>1, <2>1, <3>1 DEF Represents
  <2> QED
    BY <2>2, <2>3
<1> QED
  BY <1>3, <1>4

(***************************************************************************)
(* The invariant of the lists of a client.                                 *)
(***************************************************************************)
LoopOk == "list" \in DOMAIN loop /\ loop.list \in Subscriptions

ListsInv ==
  /\ lists = [l \in Lists |-> lists[l]]
  /\ \A l \in Lists : Sound(lists[l])
  /\ LoopOk

LEMMA ListsInvInit == Init => ListsInv
<1> SUFFICES ASSUME Init PROVE ListsInv  OBVIOUS
<1>1. lists = [l \in Lists |-> emq_list_init] /\ loop = NoLoop  BY DEF Init
<1>2. LoopOk  BY <1>1 DEF LoopOk, NoLoop, Subscriptions
<1> QED BY <1>1, <1>2, InitSound DEF ListsInv

\* A step that leaves lists and loop alone, or replaces one list by a sound one.
LEMMA ListsUnchanged ==
  ASSUME ListsInv, lists' = lists, loop' = loop
  PROVE  ListsInv'
BY DEF ListsInv, LoopOk

LEMMA ListReplaced ==
  ASSUME ListsInv, NEW l \in Lists, NEW x, Sound(x), lists' = [lists EXCEPT ![l] = x],
         LoopOk'
  PROVE  ListsInv'
<1>1. lists' = [m \in Lists |-> lists'[m]]  BY DEF ListsInv
<1>2. \A m \in Lists : lists'[m] = IF m = l THEN x ELSE lists[m]  BY DEF ListsInv
<1>3. \A m \in Lists : Sound(lists'[m])  BY <1>2 DEF ListsInv
<1> QED BY <1>1, <1>3 DEF ListsInv

\* The steps that release the lists of a client.
LEMMA ListsReset ==
  ASSUME ListsInv, LoopOk',
         lists' = [lists EXCEPT !["queue"] = emq_list_init, !["channel"] = emq_list_init]
  PROVE  ListsInv'
<1>1. lists' = [m \in Lists |-> lists'[m]]  BY DEF ListsInv
<1>2. \A m \in Lists : lists'[m] = IF m \in Subscriptions THEN emq_list_init ELSE lists[m]
  BY DEF ListsInv, Lists, Subscriptions
<1>3. \A m \in Lists : Sound(lists'[m])  BY <1>2, InitSound DEF ListsInv
<1> QED BY <1>1, <1>3 DEF ListsInv

LEMMA LoopKept ==
  ASSUME LoopOk, loop' = loop
  PROVE  LoopOk'
BY DEF LoopOk

\* A step of the program between loops.
LEMMA NoLoopOk ==
  ASSUME loop' = NoLoop
  PROVE  LoopOk'
BY DEF LoopOk, NoLoop, Subscriptions

\* Subscribing: the entry goes into a new node, or no list changes.
LEMMA SubscribeInv ==
  ASSUME ListsInv, NEW l \in Subscriptions, NEW name \in Names, Subscribe(l, name)
  PROVE  ListsInv'
<1>1. loop' = loop /\ l \in Lists  BY DEF Subscribe, Lists
<1>2. CASE lists' = lists  BY <1>1, <1>2, ListsUnchanged
<1>3. ASSUME NEW n \in Node \ lists[l].alive,
             lists' = [lists EXCEPT ![l] =
                         emq_list_add_value(@, n, [id |-> made + 1, name |-> name])]
      PROVE  ListsInv'
  <2>1. Sound(emq_list_add_value(lists[l], n, [id |-> made + 1, name |-> name]))
    BY <1>1, <1>3, AddSound DEF ListsInv
  <2>2. LoopOk'  BY <1>1, LoopKept DEF ListsInv
  <2> QED BY <1>1, <1>3, <2>1, <2>2, ListReplaced
<1> QED BY <1>2, <1>3 DEF Subscribe

LEMMA QueryObjectInv ==
  ASSUME ListsInv, QueryObject
  PROVE  ListsInv'
<1>1. loop' = loop /\ "result" \in Lists  BY DEF QueryObject, Lists
<1>2. CASE lists' = lists  BY <1>1, <1>2, ListsUnchanged
<1>3. ASSUME NEW n \in Node \ lists["result"].alive,
             lists' = [lists EXCEPT !["result"] =
                         emq_list_add_value(@, n, [id |-> made + 1, name |-> NULL])]
      PROVE  ListsInv'
  <2>1. Sound(emq_list_add_value(lists["result"], n, [id |-> made + 1, name |-> NULL]))
    BY <1>1, <1>3, AddSound DEF ListsInv
  <2>2. LoopOk'  BY <1>1, LoopKept DEF ListsInv
  <2> QED BY <1>1, <1>3, <2>1, <2>2, ListReplaced
<1> QED BY <1>2, <1>3 DEF QueryObject

\* The loop of an unsubscribe deletes nodes it is at.
LEMMA UnsubscribeNodeInv ==
  ASSUME ListsInv, UnsubscribeNode
  PROVE  ListsInv'
<1>1. loop.next \in Looped.alive /\ loop.list \in Lists
  BY DEF UnsubscribeNode, LoopIsSafe, ListsInv, LoopOk, Lists
<1>2. LoopOk'  BY DEF UnsubscribeNode, ListsInv, LoopOk
<1>3. CASE lists' = lists  BY <1>2, <1>3 DEF ListsInv
<1>4. CASE lists' = [lists EXCEPT ![loop.list] = emq_list_delete_node(@, loop.next)]
  <2>1. Sound(emq_list_delete_node(lists[loop.list], loop.next))
    BY <1>1, DeleteSound DEF ListsInv, Looped
  <2> QED BY <1>1, <1>2, <1>4, <2>1, ListReplaced
<1> QED BY <1>3, <1>4 DEF UnsubscribeNode

\* Steps that only start, advance or end a loop.
LEMMA LoopStepsInv ==
  ASSUME ListsInv, lists' = lists, LoopOk'
  PROVE  ListsInv'
BY DEF ListsInv

LEMMA GoesUndefinedInv ==
  ASSUME ListsInv, GoesUndefined
  PROVE  ListsInv'
<1>1. lists' = [l \in Lists |-> emq_list_init] /\ loop' = NoLoop  BY DEF GoesUndefined
<1>2. LoopOk'  BY <1>1, NoLoopOk
<1> QED BY <1>1, <1>2, InitSound DEF ListsInv

LEMMA ListsInvStep ==
  ASSUME ListsInv, [Next]_vars
  PROVE  ListsInv'
<1>1. CASE UNCHANGED vars  BY <1>1, ListsUnchanged DEF vars
<1>2. ASSUME NEW f \in SUBSET {"client", "request", "queue", "channel"},
             ConnectNoMemory(f) \/ ConnectNoList(f)
      PROVE  ListsInv'
  BY <1>2, ListsUnchanged DEF ConnectNoMemory, ConnectNoList
<1>3. ASSUME NEW s \in NetworkSteps, ConnectRefused(s)
      PROVE  ListsInv'
  BY <1>3, ListsUnchanged DEF ConnectRefused
<1>4. CASE Connect \/ emq_disconnect
  <2>1. loop' = loop  BY <1>4 DEF Connect, emq_disconnect
  <2>2. LoopOk'  BY <2>1, LoopKept DEF ListsInv
  <2> QED BY <1>4, <2>2, ListsReset DEF Connect, emq_disconnect
<1>5. ASSUME NEW l \in Subscriptions, NEW name \in Names, NEW own \in 0..MaxMade,
             Unsubscribe(l, name, own)
      PROVE  ListsInv'
  <2>1. lists' = lists /\ LoopOk'  BY <1>5 DEF Unsubscribe, LoopOk
  <2> QED BY <2>1, LoopStepsInv
<1>6. ASSUME NEW l \in Subscriptions, NEW name \in Names, Event(l, name)
      PROVE  ListsInv'
  <2>1. lists' = lists /\ LoopOk'  BY <1>6 DEF Event, LoopOk, NoLoop
  <2> QED BY <2>1, LoopStepsInv
<1>7. CASE UnsubscribeEnd \/ FindEnd \/ CallbackReturns
  <2>1. lists' = lists /\ loop' = NoLoop
    BY <1>7 DEF UnsubscribeEnd, FindEnd, CallbackReturns
  <2> QED BY <2>1, NoLoopOk, LoopStepsInv
<1>8. CASE FindNode
  <2>1. lists' = lists /\ LoopOk'  BY <1>8 DEF FindNode, ListsInv, LoopOk
  <2> QED BY <2>1, LoopStepsInv
<1>9. CASE EventPayload
  <2>1. lists' = lists /\ (loop' = loop \/ loop' = NoLoop)  BY <1>9 DEF EventPayload
  <2>2. LoopOk'  BY <2>1, NoLoopOk, LoopKept DEF ListsInv
  <2> QED BY <2>1, <2>2, LoopStepsInv
<1>10. CASE LoopUndefined \/ CallbackReturnsUndefined
  BY <1>10, GoesUndefinedInv DEF LoopUndefined, CallbackReturnsUndefined
<1>11. CASE Query \/ QueryEnd
  BY <1>11, ListsUnchanged DEF Query, QueryEnd
<1>12. CASE QueryNoObject \/ emq_list_release
  <2>1. lists' = [lists EXCEPT !["result"] = emq_list_init] /\ loop' = loop
    BY <1>12 DEF QueryNoObject, emq_list_release
  <2>2. LoopOk' /\ "result" \in Lists  BY <2>1, LoopKept DEF ListsInv, Lists
  <2> QED BY <2>1, <2>2, InitSound, ListReplaced
<1>13. ASSUME NEW z \in BOOLEAN, emq_msg_create(z)
       PROVE  ListsInv'
  BY <1>13, ListsUnchanged DEF emq_msg_create, MsgStep
<1>14. ASSUME NEW j \in 1..MaxMade, emq_msg_copy(j) \/ emq_msg_release(j)
       PROVE  ListsInv'
  BY <1>14, ListsUnchanged DEF emq_msg_copy, emq_msg_release, MsgStep
<1> QED
  BY <1>1, <1>2, <1>3, <1>4, <1>5, <1>6, <1>7, <1>8, <1>9, <1>10, <1>11, <1>12, <1>13,
     <1>14, SubscribeInv, QueryObjectInv, UnsubscribeNodeInv DEF Next

\* Whatever is subscribed, unsubscribed during an event, returned, released or
\* fails to be allocated, every list is a chain of its nodes, the same in both
\* directions, of the length it says.
THEOREM ListsWellFormedCorrect == Spec => []ListsWellFormed
<1>1. ListsInv => ListsWellFormed  BY DEF ListsInv, ListsWellFormed, Sound
<1>2. Spec => []ListsInv  BY ListsInvInit, ListsInvStep, PTL DEF Spec
<1> QED BY <1>1, <1>2, PTL

(***************************************************************************)
(* The invariant of the heap.                                              *)
(***************************************************************************)
Entry == [id : Nat, name : Names \cup {NULL}] \cup {NULL}
Loops == [list : Subscriptions, next : Pointer, name : Names \cup {NULL}, own : Nat,
          from : {"idle", "callback"}]
Msgs == [state : {"none", "held", "released"}, zero_copy : BOOLEAN,
         data : {"none", "appdata", "data"} \X Nat, copy : BOOLEAN]

MemType ==
  /\ client \in Nat /\ connects \in Nat /\ made \in 0..MaxMade /\ result \in BOOLEAN
  /\ \A l \in Lists : lists[l].value \in [Node -> Entry]
  /\ loop \in Loops
  /\ msgs \in [1..MaxMade -> Msgs]

\* Where the program may be, and with which client, iterator and name.
LoopState ==
  /\ pc \in {"unsub", "find", "payload"} => client # 0
  /\ pc = "callback" => client # 0 \/ risky # {}
  /\ pc \in {"unsub", "find"} =>
       /\ loop.next \in lists[loop.list].alive \cup {NULL}
       /\ loop.own = 0 \/ risky # {}

\* A list nobody owns is empty.
HasResult == result \/ pc = "objects"
Owned ==
  /\ client = 0 => \A l \in Subscriptions : lists[l].alive = {}
  /\ ~HasResult => lists["result"].alive = {}
  /\ result => pc # "objects"

\* Entries and objects have numbers of their own.
Numbered ==
  /\ \A l \in Lists : \A n \in lists[l].alive : lists[l].value[n].id \in 1..made
  /\ \A l, m \in Lists : \A n \in lists[l].alive, o \in lists[m].alive :
       lists[l].value[n].id = lists[m].value[o].id => l = m /\ n = o

\* What a message owns.
Zero(m) == m.zero_copy /\ ~m.copy
MsgsOk ==
  \A j \in 1..MaxMade :
    /\ j > made => msgs[j] = NoMsg
    /\ msgs[j].state = "held" => msgs[j].data = IF Zero(msgs[j]) THEN AppData ELSE <<"data", j>>

\* What is in use is allocated.
Live ==
  /\ AppData \in heap
  /\ client # 0 => ClientParts(client) \subseteq heap
  /\ \A l \in Lists : \A n \in lists[l].alive : <<"value", lists[l].value[n].id>> \in heap
  /\ \A j \in 1..MaxMade : msgs[j].state = "held" => <<"msg", j>> \in heap /\ msgs[j].data \in heap
  /\ HasResult => <<"result", 0>> \in heap
  /\ pc = "objects" => <<"buffer", 0>> \in heap

\* What is allocated is in use, or was left behind.
Used(b) ==
  \/ b = AppData
  \/ client # 0 /\ b \in ClientParts(client)
  \/ \E l \in Lists : \E n \in lists[l].alive : b = <<"value", lists[l].value[n].id>>
  \/ \E j \in 1..MaxMade : msgs[j].state = "held" /\ (b = <<"msg", j>> \/ b = msgs[j].data)
  \/ HasResult /\ b = <<"result", 0>>
  \/ pc = "objects" /\ b = <<"buffer", 0>>
LeftBehind(b) ==
  \/ b[1] \in Subscriptions /\ "request" \in failed
  \/ b[1] = "socket" /\ "setsockopt" \in failed
  \/ b[1] = "value" /\ "node" \in failed
  \/ b[1] = "data" /\ b[2] \in 1..made /\ msgs[b[2]].copy
Accounted == \A b \in heap : Used(b) \/ LeftBehind(b)

Heaped == Owned /\ Numbered /\ MsgsOk /\ Live /\ Accounted

MemInv ==
  /\ ListsInv /\ FreedNeverTouched
  /\ pc # "undefined" => MemType /\ LoopState /\ Heaped

LEMMA MemInit == Init => MemInv
<1> SUFFICES ASSUME Init PROVE MemInv
  OBVIOUS
<1>1. /\ pc = "idle" /\ heap = {AppData} /\ client = 0 /\ connects = 0
      /\ lists = [l \in Lists |-> emq_list_init] /\ result = FALSE /\ made = 0
      /\ loop = NoLoop /\ msgs = [i \in 1..MaxMade |-> NoMsg] /\ fault = FALSE
  BY DEF Init
<1>2. \A l \in Lists : lists[l].alive = {} /\ lists[l].value = [n \in Node |-> NULL]
  BY <1>1 DEF emq_list_init
<1>3. MemType
  <2>1. NoMsg \in Msgs
    BY DEF NoMsg, Msgs
  <2>2. NoLoop \in Loops
    BY DEF NoLoop, Loops, Subscriptions, Pointer
  <2>3. \A l \in Lists : lists[l].value \in [Node -> Entry]
    BY <1>2 DEF Entry
  <2> QED
    <3>1. made \in 0..MaxMade /\ client \in Nat /\ connects \in Nat
      BY <1>1, MemoryAssumption
    <3>3. result \in BOOLEAN
      BY <1>1
    <3>2. msgs \in [1..MaxMade -> Msgs]
      BY <1>1, <2>1
    <3> QED
      BY <1>1, <2>2, <2>3, <3>1, <3>2, <3>3 DEF MemType
<1>4. LoopState
  BY <1>1 DEF LoopState
<1>5. Owned /\ Numbered
  BY <1>1, <1>2 DEF Owned, Numbered, HasResult, Lists, Subscriptions
<1>6. MsgsOk
  BY <1>1 DEF MsgsOk, NoMsg
<1>7. Live
  BY <1>1, <1>2 DEF Live, HasResult, NoMsg
<1>8. Accounted
  BY <1>1 DEF Accounted, Used
<1>9. FreedNeverTouched
  BY <1>1 DEF FreedNeverTouched
<1> QED
  BY <1>3, <1>4, <1>5, <1>6, <1>7, <1>8, <1>9, ListsInvInit DEF MemInv, Heaped

\* A step that leaves the heap and what refers to it alone.
LEMMA HeapedSame ==
  ASSUME Heaped, UNCHANGED <<heap, client, lists, result, made, msgs>>, failed \subseteq failed',
         pc = "objects" <=> pc' = "objects"
  PROVE  Heaped'
<1>1. Owned' /\ Numbered'
  BY DEF Heaped, Owned, Numbered, HasResult
<1>2. MsgsOk' /\ Live'
  BY DEF Heaped, MsgsOk, Live, HasResult, ClientParts
<1>3. \A b : Used(b) => Used(b)'
  BY DEF Used, HasResult, ClientParts
<1>4. \A b : LeftBehind(b) => LeftBehind(b)'
  BY DEF LeftBehind
<1>5. Accounted'
  BY <1>3, <1>4 DEF Heaped, Accounted
<1> QED
  BY <1>1, <1>2, <1>5 DEF Heaped

\* What is known while freed memory has not been touched.
LEMMA Defined ==
  ASSUME MemInv, pc # "undefined"
  PROVE  ListsInv /\ MemType /\ LoopState /\ Heaped /\ FreedNeverTouched
BY DEF MemInv

\* The loop a step leaves behind when it is at no list.
LEMMA NoLoopType == NoLoop \in Loops
BY DEF NoLoop, Loops, Subscriptions, Pointer

(***************************************************************************)
(* Steps of loops and events.                                              *)
(***************************************************************************)
\* Nothing but pc, loop, held, risky changes.
LoopStep ==
  /\ UNCHANGED <<heap, client, connects, lists, result, made, msgs, failed, fault>>
  /\ risky \subseteq risky'

LEMMA LoopStepMem ==
  ASSUME MemInv, [Next]_vars, LoopStep, pc \notin {"undefined", "objects"},
         pc' # "objects", loop' \in Loops, LoopState'
  PROVE  MemInv'
<1>1. ListsInv /\ MemType /\ Heaped /\ FreedNeverTouched
  BY Defined
<1>2. Heaped'
  BY <1>1, HeapedSame DEF LoopStep
<1>3. MemType'
  BY <1>1 DEF MemType, LoopStep
<1>4. FreedNeverTouched'
  BY <1>1 DEF FreedNeverTouched, LoopStep
<1>5. ListsInv'
  BY <1>1, ListsInvStep
<1> QED
  BY <1>2, <1>3, <1>4, <1>5 DEF MemInv

LEMMA UnsubscribeMem ==
  ASSUME MemInv, [Next]_vars, NEW l \in Subscriptions, NEW name \in Names, NEW own \in 0..MaxMade,
         Unsubscribe(l, name, own)
  PROVE  MemInv'
<1>1. /\ pc \in {"idle", "callback"} /\ client # 0 /\ pc' = "unsub" /\ LoopStep
      /\ loop' = [list |-> l, next |-> lists[l].head, name |-> name, own |-> own, from |-> pc]
      /\ own = 0 \/ risky' # {}
  BY DEF Unsubscribe, InApplication, LoopStep, emq_list_rewind
<1>2. ListsInv /\ MemType /\ l \in Lists
  BY <1>1, Defined DEF Lists
<1>3. lists[l].head \in lists[l].alive \cup {NULL} /\ lists[l].alive \subseteq Node
  BY <1>2, NextNode DEF ListsInv, Sound, ListType
<1>4. loop' \in Loops
  BY <1>1, <1>3 DEF Loops, Pointer
<1>5. LoopState'
  BY <1>1, <1>3 DEF LoopState, LoopStep
<1> QED
  BY <1>1, <1>4, <1>5, LoopStepMem

LEMMA EventMem ==
  ASSUME MemInv, [Next]_vars, NEW l \in Subscriptions, NEW name \in Names, Event(l, name)
  PROVE  MemInv'
<1>1. /\ pc = "idle" /\ client # 0 /\ pc' = "find" /\ LoopStep
      /\ loop' = [list |-> l, next |-> lists[l].head, name |-> name, own |-> 0, from |-> "idle"]
  BY DEF Event, LoopStep, emq_list_rewind, NoLoop
<1>2. ListsInv /\ MemType /\ l \in Lists
  BY <1>1, Defined DEF Lists
<1>3. lists[l].head \in lists[l].alive \cup {NULL} /\ lists[l].alive \subseteq Node
  BY <1>2, NextNode DEF ListsInv, Sound, ListType
<1>4. loop' \in Loops
  BY <1>1, <1>3 DEF Loops, Pointer
<1>5. LoopState'
  BY <1>1, <1>3 DEF LoopState, LoopStep
<1> QED
  BY <1>1, <1>4, <1>5, LoopStepMem

LEMMA LoopEndMem ==
  ASSUME MemInv, [Next]_vars, UnsubscribeEnd \/ FindEnd \/ CallbackReturns
  PROVE  MemInv'
<1>1. /\ pc \in {"unsub", "find", "callback"} /\ loop' = NoLoop /\ LoopStep
      /\ (pc = "unsub" => pc' = loop.from) /\ (pc # "unsub" => pc' = "idle")
  BY DEF UnsubscribeEnd, FindEnd, CallbackReturns, LoopStep
<1>2. MemType /\ LoopState
  BY <1>1, Defined
<1>3. pc' \in {"idle", "callback"}
  BY <1>1, <1>2 DEF MemType, Loops
<1>4. LoopState'
  BY <1>1, <1>2, <1>3 DEF LoopState, LoopStep
<1> QED
  BY <1>1, <1>3, <1>4, NoLoopType, LoopStepMem

\* The node behind the one the loop is at.
LEMMA Advance ==
  ASSUME ListsInv, MemType, loop.next \in Looped.alive
  PROVE  /\ loop.list \in Subscriptions /\ loop.list \in Lists /\ Sound(Looped)
         /\ emq_list_next(Looped, loop.next) \in (Looped.alive \ {loop.next}) \cup {NULL}
         /\ [loop EXCEPT !.next = emq_list_next(Looped, @)] \in Loops
         /\ [loop EXCEPT !.next = emq_list_next(Looped, @)].list = loop.list
         /\ [loop EXCEPT !.next = emq_list_next(Looped, @)].own = loop.own
         /\ [loop EXCEPT !.next = emq_list_next(Looped, @)].next = emq_list_next(Looped, loop.next)
<1>1. loop.list \in Subscriptions /\ loop.list \in Lists
  BY DEF MemType, Loops, Lists
<1>2. Sound(Looped) /\ Looped.alive \subseteq Node
  BY <1>1 DEF ListsInv, Looped, Sound, ListType
<1>3. emq_list_next(Looped, loop.next) \in (Looped.alive \ {loop.next}) \cup {NULL}
  BY <1>2, NextNode, NodeAssumption DEF emq_list_next
<1>4. emq_list_next(Looped, loop.next) \in Pointer
  BY <1>2, <1>3 DEF Pointer
<1> QED
  BY <1>1, <1>2, <1>3, <1>4 DEF MemType, Loops

LEMMA FindNodeMem ==
  ASSUME MemInv, [Next]_vars, FindNode
  PROVE  MemInv'
<1>1. /\ pc = "find" /\ LoopStep /\ loop.next \in Looped.alive
      /\ \/ pc' = "payload" /\ loop' = [loop EXCEPT !.next = NULL]
         \/ pc' = "find" /\ loop' = [loop EXCEPT !.next = emq_list_next(Looped, @)]
  BY DEF FindNode, LoopIsSafe, LoopStep
<1>2. ListsInv /\ MemType /\ LoopState
  BY <1>1, Defined
<1>3. CASE pc' = "payload"
  <2>1. loop' \in Loops
    BY <1>1, <1>2, <1>3 DEF MemType, Loops, Pointer
  <2>2. LoopState'
    BY <1>1, <1>2, <1>3 DEF LoopState, LoopStep
  <2> QED
    BY <1>1, <1>3, <2>1, <2>2, LoopStepMem
<1>4. CASE pc' = "find"
  <2>1. loop' = [loop EXCEPT !.next = emq_list_next(Looped, @)]
    BY <1>1, <1>4
  <2>2. /\ loop' \in Loops /\ loop'.list = loop.list /\ loop'.own = loop.own
        /\ loop'.next \in Looped.alive \cup {NULL}
    BY <1>1, <1>2, <2>1, Advance
  <2>3. LoopState'
    BY <1>1, <1>2, <1>4, <2>2 DEF LoopState, LoopStep, Looped
  <2> QED
    BY <1>1, <1>4, <2>2, <2>3, LoopStepMem
<1> QED
  BY <1>1, <1>3, <1>4

\* An unsubscribe frees the entry it is at, and no other has its number.
LEMMA UnsubscribeNodeMem ==
  ASSUME MemInv, [Next]_vars, UnsubscribeNode
  PROVE  MemInv'
<1>1. /\ pc = "unsub" /\ pc' = pc /\ loop.next \in Looped.alive
      /\ loop' = [loop EXCEPT !.next = emq_list_next(Looped, @)]
      /\ \/ /\ lists' = [lists EXCEPT ![loop.list] = emq_list_delete_node(@, loop.next)]
            /\ heap' = heap \ {<<"value", Looped.value[loop.next].id>>}
         \/ UNCHANGED <<lists, heap>>
      /\ UNCHANGED <<client, connects, result, made, held, msgs, failed, risky, fault>>
  BY DEF UnsubscribeNode, LoopIsSafe, ValueBlock
<1>2. ListsInv /\ MemType /\ LoopState /\ Heaped /\ FreedNeverTouched
  BY <1>1, Defined
<1>3. /\ loop' \in Loops /\ loop'.list = loop.list /\ loop'.own = loop.own
      /\ loop'.next \in (Looped.alive \ {loop.next}) \cup {NULL}
      /\ loop.list \in Subscriptions /\ loop.list \in Lists
  BY <1>1, <1>2, Advance
<1>4. CASE UNCHANGED <<lists, heap>>
  <2>1. LoopStep
    BY <1>1, <1>4 DEF LoopStep
  <2>2. LoopState'
    BY <1>1, <1>2, <1>3, <1>4 DEF LoopState, Looped
  <2> QED
    BY <1>1, <1>3, <2>1, <2>2, LoopStepMem
<1>5. CASE /\ lists' = [lists EXCEPT ![loop.list] = emq_list_delete_node(@, loop.next)]
           /\ heap' = heap \ {<<"value", Looped.value[loop.next].id>>}
  <2> DEFINE k == loop.list
             n == loop.next
             e == lists[k].value[n].id
  <2>1. /\ lists' = [lists EXCEPT ![k] = emq_list_delete_node(lists[k], n)]
        /\ heap' = heap \ {<<"value", e>>} /\ n \in lists[k].alive
        /\ k \in Subscriptions /\ k \in Lists /\ lists = [l \in Lists |-> lists[l]]
    BY <1>1, <1>2, <1>3, <1>5 DEF Looped, ListsInv
  <2>2. lists[k].value \in [Node -> Entry] /\ client # 0
    BY <1>1, <1>2, <2>1 DEF MemType, LoopState
  <2> HIDE DEF k, n, e
  <2>3. /\ emq_list_delete_node(lists[k], n).alive = lists[k].alive \ {n}
        /\ emq_list_delete_node(lists[k], n).value = [lists[k].value EXCEPT ![n] = NULL]
    BY DEF emq_list_delete_node
  <2>4. \A l \in Lists : lists'[l] = IF l = k THEN emq_list_delete_node(lists[k], n) ELSE lists[l]
    BY <2>1
  <2>5. \A l \in Lists : lists'[l].alive = IF l = k THEN lists[l].alive \ {n} ELSE lists[l].alive
    BY <2>3, <2>4
  <2>6. \A l \in Lists : lists'[l].value \in [Node -> Entry]
    BY <1>2, <2>2, <2>3, <2>4 DEF MemType, Entry
  <2>7. \A l \in Lists : \A o \in lists'[l].alive :
          /\ o \in lists[l].alive /\ (l # k \/ o # n)
          /\ lists'[l].value[o] = lists[l].value[o]
    <3> SUFFICES ASSUME NEW l \in Lists, NEW o \in lists'[l].alive
                 PROVE  /\ o \in lists[l].alive /\ (l # k \/ o # n)
                        /\ lists'[l].value[o] = lists[l].value[o]
      OBVIOUS
    <3>1. o \in lists[l].alive /\ (l # k \/ o # n)
      BY <2>5
    <3>2. CASE l # k
      BY <2>4, <3>1, <3>2
    <3>3. CASE l = k
      <4>1. lists'[l].value = [lists[k].value EXCEPT ![n] = NULL] /\ o # n
        BY <2>3, <2>4, <3>1, <3>3
      <4> QED
        BY <2>2, <3>1, <3>3, <4>1
    <3> QED
      BY <3>2, <3>3
  <2>8. \A l \in Lists : \A o \in lists[l].alive : o \in lists'[l].alive \/ (l = k /\ o = n)
    BY <2>5
  <2> HIDE <2>4, <2>5
  <2>9. \A l \in Lists : \A o \in lists'[l].alive : lists[l].value[o].id # e
    BY <1>2, <2>1, <2>7 DEF Heaped, Numbered, e
  <2>10. Numbered'
    <3>1. \A l \in Lists : \A o \in lists'[l].alive :
            o \in lists[l].alive /\ lists'[l].value[o].id = lists[l].value[o].id
      BY <2>7
    <3>2. Numbered /\ made' = made
      BY <1>1, <1>2 DEF Heaped
    <3> HIDE <2>7
    <3>3. \A l \in Lists : \A o \in lists'[l].alive : lists'[l].value[o].id \in 1..made'
      BY <3>1, <3>2 DEF Numbered
    <3>4. \A l, m \in Lists : \A o \in lists'[l].alive, p \in lists'[m].alive :
            lists'[l].value[o].id = lists'[m].value[p].id => l = m /\ o = p
      BY <3>1, <3>2 DEF Numbered
    <3> QED
      BY <3>3, <3>4 DEF Numbered
  <2>11. Owned'
    <3>1. lists'["result"].alive \subseteq lists["result"].alive
      BY <2>7 DEF Lists
    <3> QED
      BY <1>1, <1>2, <2>2, <3>1 DEF Heaped, Owned, HasResult
  <2>12. MsgsOk'
    BY <1>1, <1>2 DEF Heaped, MsgsOk
  <2>13. Live'
    <3>1. \A b : b[1] # "value" /\ b \in heap => b \in heap'
      BY <2>1
    <3>2. \A l \in Lists : \A o \in lists'[l].alive : <<"value", lists'[l].value[o].id>> \in heap'
      BY <1>2, <2>1, <2>7, <2>9 DEF Heaped, Live
    <3>3. \A j \in 1..MaxMade : msgs[j].state = "held" => msgs[j].data[1] # "value"
      BY <1>2 DEF MemType, Msgs
    <3>4. AppData \in heap' /\ ClientParts(client) \subseteq heap'
      BY <1>2, <2>1, <2>2 DEF Heaped, Live, AppData, ClientParts
    <3>5. ClientParts(client)' = ClientParts(client)
      BY <1>1 DEF ClientParts
    <3>6. \A j \in 1..MaxMade : msgs[j].state = "held" => <<"msg", j>> \in heap' /\ msgs[j].data \in heap'
      BY <1>2, <2>1, <3>1, <3>3 DEF Heaped, Live
    <3>7. HasResult => <<"result", 0>> \in heap'
      BY <1>2, <2>1 DEF Heaped, Live
    <3> QED
      BY <1>1, <3>2, <3>4, <3>5, <3>6, <3>7 DEF Live, HasResult
  <2>14. Accounted'
    <3> SUFFICES ASSUME NEW b \in heap' PROVE Used(b)' \/ LeftBehind(b)'
      BY DEF Accounted
    <3>1. b \in heap /\ b # <<"value", e>>
      BY <2>1
    <3>2. CASE LeftBehind(b)
      BY <1>1, <3>2 DEF LeftBehind
    <3>3. ASSUME NEW l \in Lists, NEW o \in lists[l].alive, b = <<"value", lists[l].value[o].id>>
          PROVE  Used(b)'
      <4>1. o \in lists'[l].alive
        BY <2>8, <3>1, <3>3 DEF e
      <4>2. lists'[l].value[o] = lists[l].value[o]
        BY <2>7, <4>1
      <4> QED
        BY <3>3, <4>1, <4>2 DEF Used
    <3>4. CASE Used(b)
      BY <1>1, <3>3, <3>4 DEF Used, HasResult, ClientParts
    <3> QED
      BY <1>2, <3>1, <3>2, <3>4 DEF Heaped, Accounted
  <2>15. MemType'
    BY <1>1, <1>2, <1>3, <2>6 DEF MemType
  <2>16. LoopState'
    <3>1. loop'.next \in lists'[k].alive \cup {NULL} /\ loop'.list = k
      BY <1>3, <2>8 DEF Looped, k, n
    <3> QED
      BY <1>1, <1>2, <1>3, <3>1 DEF LoopState
  <2>17. ListsInv' /\ FreedNeverTouched'
    BY <1>1, <1>2, ListsInvStep DEF FreedNeverTouched
  <2> QED
    BY <2>10, <2>11, <2>12, <2>13, <2>14, <2>15, <2>16, <2>17 DEF MemInv, Heaped
<1> QED
  BY <1>1, <1>4, <1>5

(***************************************************************************)
(* New entries, objects and messages.                                      *)
(***************************************************************************)
\* A list without the memory for a node: the entry is left behind; without the
\* memory for the entry: nothing happened.
LEMMA EntryLost ==
  ASSUME MemType, Heaped, UNCHANGED <<pc, client, lists, result, msgs>>, made < MaxMade, made' = made + 1,
         \/ heap' = heap \cup {<<"value", made + 1>>} /\ "node" \in failed'
         \/ heap' = heap,
         failed \subseteq failed'
  PROVE  Heaped' /\ made' \in 0..MaxMade
<1>1. made \in Nat /\ made \in 0..MaxMade /\ MaxMade \in Nat
  BY MemoryAssumption DEF MemType
<1>2. Owned'
  BY DEF Heaped, Owned, HasResult
<1>3. Numbered'
  BY <1>1 DEF Heaped, Numbered
<1>4. MsgsOk'
  <2>1. \A j \in 1..MaxMade : j > made' => j > made
    BY <1>1
  <2> QED
    BY <2>1 DEF Heaped, MsgsOk
<1>5. Live'
  BY DEF Heaped, Live, HasResult, ClientParts
<1>6. \A b : Used(b) => Used(b)'
  BY DEF Used, HasResult, ClientParts
<1>7. \A b : LeftBehind(b) => LeftBehind(b)'
  BY <1>1 DEF LeftBehind
<1>8. Accounted'
  <2> SUFFICES ASSUME NEW b \in heap' PROVE Used(b)' \/ LeftBehind(b)'
    BY DEF Accounted
  <2>1. CASE b \in heap
    BY <1>6, <1>7, <2>1 DEF Heaped, Accounted
  <2>2. CASE b \notin heap
    BY <2>2 DEF LeftBehind
  <2> QED
    BY <2>1, <2>2
<1>9. made' \in 0..MaxMade
  BY <1>1
<1> QED
  BY <1>2, <1>3, <1>4, <1>5, <1>8, <1>9 DEF Heaped

\* The entry is in a list somebody owns; its number is new.
LEMMA EntryAdded ==
  ASSUME ListsInv, MemType, Heaped, UNCHANGED <<pc, client, result, msgs, failed>>, made < MaxMade,
         made' = made + 1, heap' = heap \cup {<<"value", made + 1>>},
         NEW k \in Lists, NEW n \in Node \ lists[k].alive, NEW name \in Names \cup {NULL},
         IF k = "result" THEN HasResult ELSE client # 0,
         lists' = [lists EXCEPT ![k] = emq_list_add_value(@, n, [id |-> made + 1, name |-> name])]
  PROVE  /\ Heaped' /\ made' \in 0..MaxMade
         /\ \A l \in Lists : lists'[l].value \in [Node -> Entry]
         /\ \A l \in Lists : lists[l].alive \subseteq lists'[l].alive
<1> DEFINE v == [id |-> made + 1, name |-> name]
           x == emq_list_add_value(lists[k], n, v)
<1>1. made \in Nat /\ made \in 0..MaxMade /\ MaxMade \in Nat
  BY MemoryAssumption DEF MemType
<1>2. /\ lists' = [lists EXCEPT ![k] = x] /\ lists = [l \in Lists |-> lists[l]]
      /\ v.id = made + 1 /\ v \in Entry
  BY <1>1 DEF ListsInv, Entry
<1>3. x.alive = lists[k].alive \cup {n} /\ x.value = [lists[k].value EXCEPT ![n] = v]
  BY DEF emq_list_add_value
<1> HIDE DEF x, v
<1>4. \A l \in Lists : lists'[l] = IF l = k THEN x ELSE lists[l]
  BY <1>2
<1>5. lists[k].value \in [Node -> Entry] /\ x.value \in [Node -> Entry]
  BY <1>2, <1>3 DEF MemType
<1>6. \A l \in Lists : lists'[l].value \in [Node -> Entry]
  BY <1>4, <1>5 DEF MemType
<1>7. \A l \in Lists : \A o \in lists[l].alive :
        o \in lists'[l].alive /\ lists'[l].value[o] = lists[l].value[o]
  <2> SUFFICES ASSUME NEW l \in Lists, NEW o \in lists[l].alive
               PROVE  o \in lists'[l].alive /\ lists'[l].value[o] = lists[l].value[o]
    OBVIOUS
  <2>1. o \in Node
    BY DEF ListsInv, Sound, ListType
  <2>2. CASE l = k
    BY <1>3, <1>4, <1>5, <2>1, <2>2
  <2>3. CASE l # k
    BY <1>4, <2>3
  <2> QED
    BY <2>2, <2>3
<1>8. n \in lists'[k].alive /\ lists'[k].value[n].id = made + 1
  BY <1>2, <1>3, <1>4, <1>5
<1>9. \A l \in Lists : \A o \in lists'[l].alive : o \in lists[l].alive \/ (l = k /\ o = n)
  BY <1>3, <1>4
<1> HIDE <1>3, <1>4
<1>10. Owned'
  <2>1. client = 0 => \A l \in Subscriptions : l \in Lists /\ l # k
    BY DEF Subscriptions, Lists
  <2>2. ~HasResult => k # "result"
    OBVIOUS
  <2>3. HasResult' = HasResult
    BY DEF HasResult
  <2>4. client = 0 => \A l \in Subscriptions : lists'[l].alive = {}
    BY <1>9, <2>1 DEF Heaped, Owned
  <2>5. ~HasResult => lists'["result"].alive = {}
    BY <1>9, <2>2 DEF Heaped, Owned, Lists
  <2> QED
    BY <2>3, <2>4, <2>5 DEF Heaped, Owned
<1>11. \A l \in Lists : \A o \in lists[l].alive :
         lists[l].value[o].id \in 1..made /\ lists'[l].value[o].id = lists[l].value[o].id
  BY <1>7 DEF Heaped, Numbered
<1>12. Numbered'
  <2>1. ASSUME NEW l \in Lists, NEW o \in lists'[l].alive
        PROVE  lists'[l].value[o].id \in 1..made'
    <3>1. CASE o \in lists[l].alive
      BY <1>1, <1>11, <3>1
    <3>2. CASE l = k /\ o = n
      BY <1>1, <1>8, <3>2
    <3> QED
      BY <1>9, <3>1, <3>2
  <2>2. ASSUME NEW l \in Lists, NEW m \in Lists, NEW o \in lists'[l].alive, NEW p \in lists'[m].alive,
               lists'[l].value[o].id = lists'[m].value[p].id
        PROVE  l = m /\ o = p
    <3>1. CASE o \in lists[l].alive /\ p \in lists[m].alive
      BY <1>11, <2>2, <3>1 DEF Heaped, Numbered
    <3>2. CASE o \in lists[l].alive /\ m = k /\ p = n
      BY <1>1, <1>8, <1>11, <2>2, <3>2
    <3>3. CASE l = k /\ o = n /\ p \in lists[m].alive
      BY <1>1, <1>8, <1>11, <2>2, <3>3
    <3> QED
      BY <1>9, <3>1, <3>2, <3>3
  <2> QED
    BY <2>1, <2>2 DEF Numbered
<1>13. MsgsOk'
  <2>1. \A j \in 1..MaxMade : j > made' => j > made
    BY <1>1
  <2> QED
    BY <2>1 DEF Heaped, MsgsOk
<1>14. Live'
  <2>1. ASSUME NEW l \in Lists, NEW o \in lists'[l].alive
        PROVE  <<"value", lists'[l].value[o].id>> \in heap'
    <3>1. CASE o \in lists[l].alive
      BY <1>11, <3>1 DEF Heaped, Live
    <3>2. CASE l = k /\ o = n
      BY <1>8, <3>2
    <3> QED
      BY <1>9, <3>1, <3>2
  <2> QED
    BY <2>1 DEF Heaped, Live, HasResult, ClientParts
<1>15. Accounted'
  <2> SUFFICES ASSUME NEW b \in heap' PROVE Used(b)' \/ LeftBehind(b)'
    BY DEF Accounted
  <2>1. CASE b = <<"value", made + 1>>
    BY <1>8, <2>1 DEF Used
  <2>2. CASE LeftBehind(b)
    BY <1>1, <2>2 DEF LeftBehind
  <2>3. CASE Used(b)
    <3>1. ASSUME NEW l \in Lists, NEW o \in lists[l].alive, b = <<"value", lists[l].value[o].id>>
          PROVE  Used(b)'
      BY <1>7, <3>1 DEF Used
    <3> QED
      BY <2>3, <3>1 DEF Used, HasResult, ClientParts
  <2> QED
    BY <2>1, <2>2, <2>3 DEF Heaped, Accounted
<1>16. made' \in 0..MaxMade
  BY <1>1
<1> QED
  BY <1>6, <1>7, <1>10, <1>12, <1>13, <1>14, <1>15, <1>16 DEF Heaped

LEMMA SubscribeMem ==
  ASSUME MemInv, [Next]_vars, NEW l \in Subscriptions, NEW name \in Names, Subscribe(l, name)
  PROVE  MemInv'
<1>1. /\ pc \in {"idle", "callback"} /\ client # 0 /\ made < MaxMade /\ made' = made + 1
      /\ UNCHANGED <<pc, client, connects, result, loop, held, msgs, risky, fault>>
      /\ failed \subseteq failed'
  BY DEF Subscribe, InApplication, Fails
<1>2. ListsInv /\ MemType /\ LoopState /\ Heaped /\ FreedNeverTouched
  BY <1>1, Defined
<1>3. ListsInv' /\ FreedNeverTouched'
  BY <1>1, <1>2, ListsInvStep DEF FreedNeverTouched
<1>4. LoopState'
  BY <1>1, <1>2 DEF LoopState
<1>5. ASSUME Heaped', made' \in 0..MaxMade, \A m \in Lists : lists'[m].value \in [Node -> Entry]
      PROVE  MemInv'
  <2>1. MemType'
    BY <1>1, <1>2, <1>5 DEF MemType
  <2> QED
    BY <1>3, <1>4, <1>5, <2>1 DEF MemInv
<1>6. CASE /\ \/ heap' = heap \cup {<<"value", made + 1>>} /\ "node" \in failed'
              \/ heap' = heap
           /\ UNCHANGED lists
  <2>1. Heaped' /\ made' \in 0..MaxMade
    BY <1>1, <1>2, <1>6, EntryLost
  <2> QED
    BY <1>2, <1>5, <1>6, <2>1 DEF MemType
<1>7. ASSUME NEW n \in Node \ lists[l].alive, UNCHANGED failed,
             lists' = [lists EXCEPT ![l] =
                         emq_list_add_value(@, n, [id |-> made + 1, name |-> name])],
             heap' = heap \cup {<<"value", made + 1>>}
      PROVE  MemInv'
  <2>1. l \in Lists /\ l # "result" /\ name \in Names \cup {NULL}
    BY DEF Lists, Subscriptions
  <2>2. /\ Heaped' /\ made' \in 0..MaxMade
        /\ \A m \in Lists : lists'[m].value \in [Node -> Entry]
    BY <1>1, <1>2, <1>7, <2>1, EntryAdded
  <2> QED
    BY <1>5, <2>2
<1> QED
  BY <1>6, <1>7 DEF Subscribe, Fails, Lasting

LEMMA QueryObjectMem ==
  ASSUME MemInv, [Next]_vars, QueryObject
  PROVE  MemInv'
<1>1. /\ pc = "objects" /\ made < MaxMade /\ made' = made + 1
      /\ heap' = heap \cup {<<"value", made + 1>>}
      /\ UNCHANGED <<pc, client, connects, result, loop, held, msgs, risky, fault>>
      /\ failed \subseteq failed'
  BY DEF QueryObject, Fails
<1>2. ListsInv /\ MemType /\ LoopState /\ Heaped /\ FreedNeverTouched
  BY <1>1, Defined
<1>3. ListsInv' /\ FreedNeverTouched'
  BY <1>1, <1>2, ListsInvStep DEF FreedNeverTouched
<1>4. LoopState'
  BY <1>1, <1>2 DEF LoopState
<1>5. ASSUME Heaped', made' \in 0..MaxMade, \A m \in Lists : lists'[m].value \in [Node -> Entry]
      PROVE  MemInv'
  <2>1. MemType'
    BY <1>1, <1>2, <1>5 DEF MemType
  <2> QED
    BY <1>3, <1>4, <1>5, <2>1 DEF MemInv
<1>6. CASE "node" \in failed' /\ UNCHANGED lists
  <2>1. Heaped' /\ made' \in 0..MaxMade
    BY <1>1, <1>2, <1>6, EntryLost
  <2> QED
    BY <1>2, <1>5, <1>6, <2>1 DEF MemType
<1>7. ASSUME NEW n \in Node \ lists["result"].alive, UNCHANGED failed,
             lists' = [lists EXCEPT !["result"] =
                         emq_list_add_value(@, n, [id |-> made + 1, name |-> NULL])]
      PROVE  MemInv'
  <2>1. "result" \in Lists /\ NULL \in Names \cup {NULL} /\ HasResult
    BY <1>1 DEF Lists, HasResult
  <2>2. /\ Heaped' /\ made' \in 0..MaxMade
        /\ \A m \in Lists : lists'[m].value \in [Node -> Entry]
    BY <1>1, <1>2, <1>7, <2>1, EntryAdded
  <2> QED
    BY <1>5, <2>2
<1> QED
  BY <1>6, <1>7 DEF QueryObject, Fails, Lasting

\* A new message owns its data, or refers to the application's.
LEMMA MsgAdded ==
  ASSUME MemType, Heaped, UNCHANGED <<client, lists, result, failed>>,
         pc # "objects", pc' # "objects", made < MaxMade, made' = made + 1,
         NEW z \in BOOLEAN, NEW c \in BOOLEAN, NEW d,
         d = IF z /\ ~c THEN AppData ELSE <<"data", made + 1>>,
         heap' = heap \cup {<<"msg", made + 1>>, d},
         msgs' = [msgs EXCEPT ![made + 1] = Message(z, d, c)]
  PROVE  Heaped' /\ made' \in 0..MaxMade /\ msgs' \in [1..MaxMade -> Msgs]
<1> DEFINE m == Message(z, d, c)
<1>1. made \in Nat /\ made \in 0..MaxMade /\ MaxMade \in Nat /\ made + 1 \in 1..MaxMade
  BY MemoryAssumption DEF MemType
<1>2. m.state = "held" /\ m.data = d /\ m.zero_copy = z /\ m.copy = c
  BY DEF Message
<1>3. m \in Msgs
  BY <1>1 DEF Message, Msgs, AppData
<1>4. msgs \in [1..MaxMade -> Msgs] /\ msgs' = [msgs EXCEPT ![made + 1] = m]
  BY DEF MemType
<1> HIDE DEF m
<1>5. /\ msgs' \in [1..MaxMade -> Msgs] /\ msgs'[made + 1] = m
      /\ \A j \in 1..MaxMade : j # made + 1 => msgs'[j] = msgs[j]
  BY <1>1, <1>3, <1>4
<1>6. msgs[made + 1] = NoMsg
  BY <1>1 DEF Heaped, MsgsOk
<1>7. Owned'
  BY DEF Heaped, Owned, HasResult
<1>8. Numbered'
  BY <1>1 DEF Heaped, Numbered
<1>9. MsgsOk'
  <2>1. \A j \in 1..MaxMade : j > made' => j > made /\ j # made + 1
    BY <1>1
  <2>2. m.data = IF Zero(m) THEN AppData ELSE <<"data", made + 1>>
    BY <1>2 DEF Zero
  <2>3. \A j \in 1..MaxMade : msgs'[j].state = "held" =>
          msgs'[j].data = IF Zero(msgs'[j]) THEN AppData ELSE <<"data", j>>
    BY <1>5, <2>2 DEF Heaped, MsgsOk
  <2>4. \A j \in 1..MaxMade : j > made' => msgs'[j] = NoMsg
    BY <1>5, <2>1 DEF Heaped, MsgsOk
  <2> QED
    BY <2>3, <2>4 DEF MsgsOk
<1>10. Live'
  <2>1. \A j \in 1..MaxMade : msgs'[j].state = "held" => <<"msg", j>> \in heap' /\ msgs'[j].data \in heap'
    BY <1>2, <1>5 DEF Heaped, Live
  <2> QED
    BY <2>1 DEF Heaped, Live, HasResult, ClientParts
<1>11. Accounted'
  <2> SUFFICES ASSUME NEW b \in heap' PROVE Used(b)' \/ LeftBehind(b)'
    BY DEF Accounted
  <2>1. CASE b = <<"msg", made + 1>> \/ b = d
    BY <1>1, <1>2, <1>5, <2>1 DEF Used
  <2>2. CASE LeftBehind(b)
    <3>1. CASE b[1] = "data" /\ b[2] \in 1..made /\ msgs[b[2]].copy
      <4>1. b[2] \in 1..MaxMade /\ b[2] # made + 1 /\ b[2] \in 1..made'
        BY <1>1, <3>1
      <4> QED
        BY <1>5, <3>1, <4>1 DEF LeftBehind
    <3> QED
      BY <2>2, <3>1 DEF LeftBehind
  <2>3. CASE Used(b)
    <3>1. ASSUME NEW j \in 1..MaxMade, msgs[j].state = "held", b = <<"msg", j>> \/ b = msgs[j].data
          PROVE  Used(b)'
      <4>1. j # made + 1
        BY <1>6, <3>1 DEF NoMsg
      <4> QED
        BY <1>5, <3>1, <4>1 DEF Used
    <3> QED
      BY <2>3, <3>1 DEF Used, HasResult, ClientParts
  <2> QED
    BY <2>1, <2>2, <2>3 DEF Heaped, Accounted
<1>12. made' \in 0..MaxMade
  BY <1>1
<1> QED
  BY <1>5, <1>7, <1>8, <1>9, <1>10, <1>11, <1>12 DEF Heaped

LEMMA MsgCreateMem ==
  ASSUME MemInv, [Next]_vars, NEW z \in BOOLEAN, emq_msg_create(z)
  PROVE  MemInv'
<1> DEFINE d == IF z THEN AppData ELSE <<"data", made + 1>>
<1>1. /\ pc \in {"idle", "callback"} /\ made < MaxMade /\ made' = made + 1
      /\ UNCHANGED <<pc, client, connects, lists, result, loop, held, failed, risky, fault>>
      /\ heap' = heap \cup {<<"msg", made + 1>>, d}
      /\ msgs' = [msgs EXCEPT ![made + 1] = Message(z, d, FALSE)]
  BY DEF emq_msg_create, MsgStep, Room, NewMsg
<1>2. ListsInv /\ MemType /\ LoopState /\ Heaped /\ FreedNeverTouched
  BY <1>1, Defined
<1>3. d = IF z /\ ~FALSE THEN AppData ELSE <<"data", made + 1>>
  OBVIOUS
<1> HIDE DEF d
<1>4. Heaped' /\ made' \in 0..MaxMade /\ msgs' \in [1..MaxMade -> Msgs]
  BY <1>1, <1>2, <1>3, MsgAdded
<1>5. MemType' /\ LoopState'
  BY <1>1, <1>2, <1>4 DEF MemType, LoopState
<1>6. ListsInv' /\ FreedNeverTouched'
  BY <1>1, <1>2, ListsInvStep DEF FreedNeverTouched
<1> QED
  BY <1>4, <1>5, <1>6 DEF MemInv

LEMMA MsgCopyMem ==
  ASSUME MemInv, [Next]_vars, NEW j \in 1..MaxMade, emq_msg_copy(j)
  PROVE  MemInv'
<1> DEFINE d == <<"data", made + 1>>
<1>1. /\ pc \in {"idle", "callback"} /\ made < MaxMade /\ made' = made + 1
      /\ UNCHANGED <<pc, client, connects, lists, result, loop, held, failed, risky>>
      /\ msgs[j].state = "held"
      /\ fault' = (fault \/ ~({<<"msg", j>>, msgs[j].data} \subseteq heap))
      /\ heap' = heap \cup {<<"msg", made + 1>>, d}
  BY DEF emq_msg_copy, MsgStep, Room, NewMsg, Touches
<1>2. PICK z \in BOOLEAN : msgs' = [msgs EXCEPT ![made + 1] = Message(z, d, TRUE)]
  BY DEF emq_msg_copy, NewMsg
<1>3. ListsInv /\ MemType /\ LoopState /\ Heaped /\ FreedNeverTouched
  BY <1>1, Defined
<1>4. d = IF z /\ ~TRUE THEN AppData ELSE <<"data", made + 1>>
  OBVIOUS
<1> HIDE DEF d
<1>5. Heaped' /\ made' \in 0..MaxMade /\ msgs' \in [1..MaxMade -> Msgs]
  BY <1>1, <1>2, <1>3, <1>4, MsgAdded
<1>6. MemType' /\ LoopState'
  BY <1>1, <1>3, <1>5 DEF MemType, LoopState
<1>7. fault' => fault
  BY <1>1, <1>3 DEF Heaped, Live
<1>8. ListsInv' /\ FreedNeverTouched'
  BY <1>1, <1>3, <1>7, ListsInvStep DEF FreedNeverTouched
<1> QED
  BY <1>5, <1>6, <1>8 DEF MemInv

\* Releasing a message frees what it owns; the data of a copy whose flag held
\* garbage is left behind.
LEMMA MsgReleaseMem ==
  ASSUME MemInv, [Next]_vars, NEW i \in 1..MaxMade, emq_msg_release(i)
  PROVE  MemInv'
<1> DEFINE F == {<<"msg", i>>} \cup (IF msgs[i].zero_copy THEN {} ELSE {msgs[i].data})
<1>1. /\ pc \in {"idle", "callback"} /\ made' = made
      /\ UNCHANGED <<pc, client, connects, lists, result, loop, held, failed, risky>>
      /\ msgs[i].state = "held"
      /\ fault' = (fault \/ ~(F \subseteq heap))
      /\ heap' = heap \ F
      /\ msgs' = [msgs EXCEPT ![i].state = "released"]
  BY DEF emq_msg_release, MsgStep, Touches
<1>2. ListsInv /\ MemType /\ LoopState /\ Heaped /\ FreedNeverTouched
  BY <1>1, Defined
<1>3. msgs[i] \in Msgs /\ msgs[i].data = IF Zero(msgs[i]) THEN AppData ELSE <<"data", i>>
  BY <1>1, <1>2 DEF Heaped, MsgsOk, MemType
<1>4. ~msgs[i].zero_copy => msgs[i].data = <<"data", i>>
  BY <1>3 DEF Zero
<1>5. \A b \in F : b = <<"msg", i>> \/ b = <<"data", i>>
  BY <1>4
<1>6. \A b : b = <<"msg", i>> \/ (b = msgs[i].data /\ ~msgs[i].zero_copy) => b \in F
  OBVIOUS
<1>7. F \subseteq heap
  BY <1>1, <1>2 DEF Heaped, Live
<1> HIDE DEF F
<1>8. /\ msgs' \in [1..MaxMade -> Msgs]
      /\ msgs'[i].state = "released" /\ msgs'[i].copy = msgs[i].copy
      /\ \A j \in 1..MaxMade : j # i => msgs'[j] = msgs[j]
  BY <1>1, <1>2, <1>3 DEF MemType, Msgs
<1>9. Owned' /\ Numbered'
  BY <1>1, <1>2 DEF Heaped, Owned, HasResult, Numbered
<1>10. ~(i > made)
  <2>1. NoMsg.state = "none"
    BY DEF NoMsg
  <2>2. i > made => msgs[i] = NoMsg
    BY <1>2 DEF Heaped, MsgsOk
  <2> QED
    BY <1>1, <2>1, <2>2
<1>11. MsgsOk'
  BY <1>1, <1>2, <1>8, <1>10 DEF Heaped, MsgsOk
<1>12. \A b \in heap : b[1] \notin {"msg", "data"} => b \in heap'
  BY <1>1, <1>5
<1>13. Live'
  <2>1. AppData \in heap'
    BY <1>2, <1>12 DEF Heaped, Live, AppData
  <2>2. client # 0 => ClientParts(client) \subseteq heap'
    BY <1>2, <1>12 DEF Heaped, Live, ClientParts
  <2>3. \A l \in Lists : \A n \in lists[l].alive : <<"value", lists[l].value[n].id>> \in heap'
    BY <1>2, <1>12 DEF Heaped, Live
  <2>4. ASSUME NEW j \in 1..MaxMade, j # i, msgs[j].state = "held"
        PROVE  <<"msg", j>> \in heap' /\ msgs[j].data \in heap'
    <3>1. <<"msg", j>> \in heap /\ msgs[j].data \in heap
      BY <1>2, <2>4 DEF Heaped, Live
    <3>2. msgs[j].data = AppData \/ msgs[j].data = <<"data", j>>
      BY <1>2, <2>4 DEF Heaped, MsgsOk
    <3>3. <<"msg", j>> \notin F
      BY <1>5, <2>4
    <3>4. msgs[j].data \notin F
      BY <1>5, <2>4, <3>2 DEF AppData
    <3> QED
      BY <1>1, <3>1, <3>3, <3>4
  <2>5. \A j \in 1..MaxMade : msgs'[j].state = "held" => <<"msg", j>> \in heap' /\ msgs'[j].data \in heap'
    BY <1>8, <2>4
  <2>6. HasResult => <<"result", 0>> \in heap'
    BY <1>2, <1>12 DEF Heaped, Live
  <2>7. ClientParts(client)' = ClientParts(client) /\ HasResult' = HasResult
    BY <1>1 DEF ClientParts, HasResult
  <2> QED
    BY <1>1, <2>1, <2>2, <2>3, <2>5, <2>6, <2>7 DEF Live
<1>14. Accounted'
  <2> SUFFICES ASSUME NEW b \in heap' PROVE Used(b)' \/ LeftBehind(b)'
    BY DEF Accounted
  <2>1. b \in heap /\ b \notin F
    BY <1>1
  <2>2. CASE LeftBehind(b)
    <3>1. CASE b[1] = "data" /\ b[2] \in 1..made /\ msgs[b[2]].copy
      <4>1. b[2] \in 1..MaxMade
        BY <1>2, <3>1, MemoryAssumption DEF MemType
      <4>2. msgs'[b[2]].copy
        BY <1>8, <3>1, <4>1
      <4> QED
        BY <1>1, <3>1, <4>2 DEF LeftBehind
    <3> QED
      BY <1>1, <2>2, <3>1 DEF LeftBehind
  <2>3. CASE Used(b)
    <3>1. ASSUME NEW j \in 1..MaxMade, msgs[j].state = "held", b = <<"msg", j>> \/ b = msgs[j].data
          PROVE  Used(b)' \/ LeftBehind(b)'
      <4>1. CASE j # i
        BY <1>8, <3>1, <4>1 DEF Used
      <4>2. CASE j = i
        <5>1. b = msgs[i].data /\ msgs[i].zero_copy
          BY <1>6, <2>1, <3>1, <4>2
        <5>2. CASE msgs[i].copy
          <6>1. b = <<"data", i>>
            BY <1>3, <5>1, <5>2 DEF Zero
          <6>2. b[1] = "data" /\ b[2] = i
            BY <6>1
          <6>3. made \in Nat
            BY <1>2 DEF MemType
          <6>4. i \in 1..made'
            BY <1>1, <1>10, <6>3
          <6> QED
            BY <1>8, <5>2, <6>2, <6>4 DEF LeftBehind
        <5>3. CASE ~msgs[i].copy
          BY <1>3, <5>1, <5>3 DEF Zero, Used
        <5> QED
          BY <5>2, <5>3
      <4> QED
        BY <4>1, <4>2
    <3> QED
      BY <1>1, <2>3, <3>1 DEF Used, HasResult, ClientParts
  <2> QED
    BY <1>2, <2>1, <2>2, <2>3 DEF Heaped, Accounted
<1>15. MemType' /\ LoopState'
  BY <1>1, <1>2, <1>8 DEF MemType, LoopState
<1>16. fault' => fault
  BY <1>1, <1>7
<1>17. ListsInv' /\ FreedNeverTouched'
  BY <1>1, <1>2, <1>16, ListsInvStep DEF FreedNeverTouched
<1> QED
  BY <1>9, <1>11, <1>13, <1>14, <1>15, <1>17 DEF MemInv, Heaped

LEMMA EventPayloadMem ==
  ASSUME MemInv, [Next]_vars, EventPayload
  PROVE  MemInv'
<1>1. /\ pc = "payload" /\ pc' \in {"callback", "idle"}
      /\ UNCHANGED <<client, connects, lists, result, failed, risky, fault>>
      /\ (loop' = loop \/ loop' = NoLoop)
  BY DEF EventPayload
<1>2. ListsInv /\ MemType /\ LoopState /\ Heaped /\ FreedNeverTouched
  BY <1>1, Defined
<1>3. loop' \in Loops /\ LoopState'
  BY <1>1, <1>2, NoLoopType DEF MemType, LoopState
<1>4. CASE UNCHANGED <<heap, msgs, made>>
  BY <1>1, <1>3, <1>4, LoopStepMem DEF LoopStep
<1>5. CASE ReadMessage
  <2> DEFINE d == <<"data", made + 1>>
  <2>1. /\ made < MaxMade /\ made' = made + 1 /\ heap' = heap \cup {<<"msg", made + 1>>, d}
        /\ msgs' = [msgs EXCEPT ![made + 1] = Message(FALSE, d, FALSE)]
    BY <1>5 DEF ReadMessage, Room, NewMsg
  <2>2. d = IF FALSE /\ ~FALSE THEN AppData ELSE <<"data", made + 1>>
    OBVIOUS
  <2> HIDE DEF d
  <2>3. Heaped' /\ made' \in 0..MaxMade /\ msgs' \in [1..MaxMade -> Msgs]
    BY <1>1, <1>2, <2>1, <2>2, MsgAdded
  <2>4. MemType'
    BY <1>1, <1>2, <1>3, <2>3 DEF MemType
  <2>5. ListsInv' /\ FreedNeverTouched'
    BY <1>1, <1>2, ListsInvStep DEF FreedNeverTouched
  <2> QED
    BY <1>3, <2>3, <2>4, <2>5 DEF MemInv
<1> QED
  BY <1>4, <1>5 DEF EventPayload

(***************************************************************************)
(* Lists that commands return.                                             *)
(***************************************************************************)
\* Releasing the returned list frees its objects, the list and the buffer.
LEMMA ResultGone ==
  ASSUME ListsInv, MemType, Heaped, UNCHANGED <<client, made, msgs>>, failed \subseteq failed',
         ~result', pc' # "objects", result \/ pc = "objects",
         heap' = heap \ (ResultReleased \cup {<<"buffer", 0>>}),
         lists' = [lists EXCEPT !["result"] = emq_list_init]
  PROVE  Heaped' /\ \A l \in Lists : lists'[l].value \in [Node -> Entry]
<1> DEFINE V == {<<"value", lists["result"].value[n].id>> : n \in lists["result"].alive}
<1>1. "result" \in Lists /\ lists = [l \in Lists |-> lists[l]]
  BY DEF Lists, ListsInv
<1>2. ResultReleased = V \cup {<<"result", 0>>}
  <2>1. Walked(lists["result"]) = lists["result"].alive
    BY <1>1, WalkedAlive DEF ListsInv
  <2> QED
    BY <2>1 DEF ResultReleased, ValuesOf, ValueBlock
<1>3. heap' = heap \ (V \cup {<<"result", 0>>, <<"buffer", 0>>})
  BY <1>2
<1>4. \A l \in Lists : lists'[l] = IF l = "result" THEN emq_list_init ELSE lists[l]
  BY <1>1
<1>5. emq_list_init.alive = {} /\ emq_list_init.value = [n \in Node |-> NULL]
  BY DEF emq_list_init
<1>6. \A l \in Lists : \A n \in lists'[l].alive : l # "result" /\ n \in lists[l].alive
  BY <1>4, <1>5
<1>7. \A l \in Lists : l # "result" => lists'[l] = lists[l]
  BY <1>4
<1>8. \A l \in Lists : lists'[l].value \in [Node -> Entry]
  BY <1>4, <1>5 DEF MemType, Entry
<1>9. lists'["result"].alive = {}
  BY <1>1, <1>4, <1>5
<1>10. \A b \in V : \E n \in lists["result"].alive : b = <<"value", lists["result"].value[n].id>>
  OBVIOUS
<1>11. \A n \in lists["result"].alive : <<"value", lists["result"].value[n].id>> \in V
  OBVIOUS
<1> HIDE <1>4
<1> HIDE DEF V
<1>12. \A b \in V : b[1] = "value"
  BY <1>10
<1>13. \A b \in heap : b[1] \notin {"value", "result", "buffer"} => b \in heap'
  BY <1>3, <1>12
<1>14. Owned'
  <2>1. \A l \in Subscriptions : l \in Lists /\ l # "result"
    BY DEF Lists, Subscriptions
  <2> QED
    BY <1>7, <1>9, <2>1 DEF Heaped, Owned, HasResult
<1>15. Numbered'
  BY <1>6, <1>7 DEF Heaped, Numbered
<1>16. MsgsOk'
  BY DEF Heaped, MsgsOk
<1>17. Live'
  <2>1. AppData \in heap'
    BY <1>13 DEF Heaped, Live, AppData
  <2>2. client # 0 => ClientParts(client) \subseteq heap'
    BY <1>13 DEF Heaped, Live, ClientParts
  <2>3. ASSUME NEW l \in Lists, NEW n \in lists'[l].alive
        PROVE  <<"value", lists'[l].value[n].id>> \in heap'
    <3>1. l # "result" /\ n \in lists[l].alive /\ lists'[l] = lists[l]
      BY <1>6, <1>7
    <3>2. <<"value", lists[l].value[n].id>> \in heap
      BY <3>1 DEF Heaped, Live
    <3>3. \A o \in lists["result"].alive : lists[l].value[n].id # lists["result"].value[o].id
      BY <1>1, <3>1 DEF Heaped, Numbered
    <3>4. <<"value", lists[l].value[n].id>> \notin V
      BY <1>10, <3>3
    <3> QED
      BY <1>3, <3>1, <3>2, <3>4
  <2>4. ASSUME NEW j \in 1..MaxMade, msgs[j].state = "held"
        PROVE  <<"msg", j>> \in heap' /\ msgs[j].data \in heap'
    <3>1. <<"msg", j>> \in heap /\ msgs[j].data \in heap
      BY <2>4 DEF Heaped, Live
    <3>2. msgs[j].data[1] \in {"none", "appdata", "data"}
      BY DEF MemType, Msgs
    <3> QED
      BY <1>13, <3>1, <3>2
  <2>5. ClientParts(client)' = ClientParts(client) /\ ~HasResult'
    BY DEF ClientParts, HasResult
  <2> QED
    BY <2>1, <2>2, <2>3, <2>4, <2>5 DEF Live
<1>18. Accounted'
  <2> SUFFICES ASSUME NEW b \in heap' PROVE Used(b)' \/ LeftBehind(b)'
    BY DEF Accounted
  <2>1. b \in heap /\ b \notin V /\ b # <<"result", 0>> /\ b # <<"buffer", 0>>
    BY <1>3
  <2>2. CASE LeftBehind(b)
    BY <2>2 DEF LeftBehind
  <2>3. CASE Used(b)
    <3>1. ASSUME NEW l \in Lists, NEW n \in lists[l].alive, b = <<"value", lists[l].value[n].id>>
          PROVE  Used(b)'
      <4>1. l # "result"
        BY <1>11, <2>1, <3>1
      <4> QED
        BY <1>7, <3>1, <4>1 DEF Used
    <3> QED
      BY <2>1, <2>3, <3>1 DEF Used, HasResult, ClientParts
  <2> QED
    BY <2>1, <2>2, <2>3 DEF Heaped, Accounted
<1> QED
  BY <1>8, <1>14, <1>15, <1>16, <1>17, <1>18 DEF Heaped

\* There is a buffer only while a command reads its objects.
LEMMA NoBuffer ==
  ASSUME Heaped, MemType, pc # "objects"
  PROVE  <<"buffer", 0>> \notin heap
<1> SUFFICES ASSUME <<"buffer", 0>> \in heap PROVE FALSE
  OBVIOUS
<1> DEFINE b == <<"buffer", 0>>
<1>1. Used(b) \/ LeftBehind(b)
  BY DEF Heaped, Accounted
<1>2. ~LeftBehind(b)
  BY DEF LeftBehind, Subscriptions
<1>3. ASSUME NEW j \in 1..MaxMade PROVE b # msgs[j].data
  <2>1. msgs[j].data[1] \in {"none", "appdata", "data"}
    BY DEF MemType, Msgs
  <2> QED
    BY <2>1
<1>4. ~Used(b)
  BY <1>3 DEF Used, AppData, ClientParts
<1> QED
  BY <1>1, <1>2, <1>4

LEMMA ListReleaseMem ==
  ASSUME MemInv, [Next]_vars, QueryNoObject \/ emq_list_release
  PROVE  MemInv'
<1>1. /\ pc \in {"objects", "idle", "callback"} /\ pc' \in {"idle", "callback"}
      /\ (pc = "callback" \/ pc' = "callback" => pc' = pc)
      /\ (pc = "objects" \/ result)
      /\ lists' = [lists EXCEPT !["result"] = emq_list_init]
      /\ UNCHANGED <<client, connects, made, loop, held, msgs, risky, fault>>
      /\ failed \subseteq failed'
  BY DEF QueryNoObject, emq_list_release, Fails
<1>2. ListsInv /\ MemType /\ LoopState /\ Heaped /\ FreedNeverTouched
  BY <1>1, Defined
<1>3. ~result' /\ result' \in BOOLEAN
  <2>1. CASE QueryNoObject
    <3>1. ~result /\ result' = result
      BY <1>2, <2>1 DEF QueryNoObject, Heaped, Owned
    <3>2. result \in BOOLEAN
      BY <1>2 DEF MemType
    <3> QED
      BY <3>1, <3>2
  <2>2. CASE emq_list_release
    <3>1. result' = FALSE
      BY <2>2 DEF emq_list_release
    <3> QED
      BY <3>1
  <2> QED
    BY <2>1, <2>2
<1>4. heap' = heap \ (ResultReleased \cup {<<"buffer", 0>>})
  <2>1. CASE QueryNoObject
    BY <2>1 DEF QueryNoObject
  <2>2. CASE emq_list_release
    <3>1. heap' = heap \ ResultReleased /\ pc # "objects"
      BY <2>2 DEF emq_list_release
    <3>2. <<"buffer", 0>> \notin heap
      BY <1>2, <3>1, NoBuffer
    <3> QED
      BY <3>1, <3>2
  <2> QED
    BY <2>1, <2>2
<1>5. Heaped' /\ \A l \in Lists : lists'[l].value \in [Node -> Entry]
  BY <1>1, <1>2, <1>3, <1>4, ResultGone
<1>6. MemType'
  BY <1>1, <1>2, <1>3, <1>5 DEF MemType
<1>7. LoopState'
  BY <1>1, <1>2 DEF LoopState
<1>8. ListsInv' /\ FreedNeverTouched'
  BY <1>1, <1>2, ListsInvStep DEF FreedNeverTouched
<1> QED
  BY <1>5, <1>6, <1>7, <1>8 DEF MemInv

LEMMA QueryMem ==
  ASSUME MemInv, [Next]_vars, Query
  PROVE  MemInv'
<1>1. /\ pc = "idle" /\ ~result /\ pc' = "objects"
      /\ heap' = heap \cup {<<"buffer", 0>>, <<"result", 0>>}
      /\ UNCHANGED <<client, connects, lists, result, made, loop, held, msgs, failed, risky, fault>>
  BY DEF Query
<1>2. ListsInv /\ MemType /\ Heaped /\ FreedNeverTouched
  BY <1>1, Defined
<1>3. Owned' /\ Numbered' /\ MsgsOk'
  BY <1>1, <1>2 DEF Heaped, Owned, Numbered, MsgsOk, HasResult
<1>4. Live'
  BY <1>1, <1>2 DEF Heaped, Live, ClientParts
<1>5. \A b : Used(b) => Used(b)'
  BY <1>1 DEF Used, HasResult, ClientParts
<1>6. \A b : LeftBehind(b) => LeftBehind(b)'
  BY <1>1 DEF LeftBehind
<1>7. HasResult' /\ pc' = "objects"
  BY <1>1 DEF HasResult
<1>8. \A b \in {<<"buffer", 0>>, <<"result", 0>>} : Used(b)'
  BY <1>7 DEF Used
<1>9. Accounted'
  BY <1>1, <1>2, <1>5, <1>6, <1>8 DEF Heaped, Accounted
<1>10. MemType' /\ LoopState'
  BY <1>1, <1>2 DEF MemType, LoopState
<1>11. ListsInv' /\ FreedNeverTouched'
  BY <1>1, <1>2, ListsInvStep DEF FreedNeverTouched
<1> QED
  BY <1>3, <1>4, <1>9, <1>10, <1>11 DEF MemInv, Heaped

LEMMA QueryEndMem ==
  ASSUME MemInv, [Next]_vars, QueryEnd
  PROVE  MemInv'
<1>1. /\ pc = "objects" /\ result' = TRUE /\ pc' = "idle"
      /\ heap' = heap \ {<<"buffer", 0>>}
      /\ UNCHANGED <<client, connects, lists, made, loop, held, msgs, failed, risky, fault>>
  BY DEF QueryEnd
<1>2. ListsInv /\ MemType /\ Heaped /\ FreedNeverTouched
  BY <1>1, Defined
<1>3. Owned' /\ Numbered' /\ MsgsOk'
  BY <1>1, <1>2 DEF Heaped, Owned, Numbered, MsgsOk, HasResult
<1>4. \A b \in heap : b[1] # "buffer" => b \in heap'
  BY <1>1
<1>5. Live'
  <2>1. AppData \in heap' /\ (client # 0 => ClientParts(client) \subseteq heap')
    BY <1>2, <1>4 DEF Heaped, Live, AppData, ClientParts
  <2>2. \A l \in Lists : \A n \in lists[l].alive : <<"value", lists[l].value[n].id>> \in heap'
    BY <1>2, <1>4 DEF Heaped, Live
  <2>3. \A j \in 1..MaxMade : msgs[j].data[1] \in {"none", "appdata", "data"}
    BY <1>2 DEF MemType, Msgs
  <2>4. \A j \in 1..MaxMade : msgs[j].state = "held" => <<"msg", j>> \in heap' /\ msgs[j].data \in heap'
    BY <1>2, <1>4, <2>3 DEF Heaped, Live
  <2>5. <<"result", 0>> \in heap'
    BY <1>1, <1>2, <1>4 DEF Heaped, Live, HasResult
  <2>6. ClientParts(client)' = ClientParts(client)
    BY <1>1 DEF ClientParts
  <2> QED
    BY <1>1, <2>1, <2>2, <2>4, <2>5, <2>6 DEF Live
<1>6. \A b : Used(b) /\ b # <<"buffer", 0>> => Used(b)'
  BY <1>1 DEF Used, HasResult, ClientParts
<1>7. \A b : LeftBehind(b) => LeftBehind(b)'
  BY <1>1 DEF LeftBehind
<1>8. Accounted'
  BY <1>1, <1>2, <1>6, <1>7 DEF Heaped, Accounted
<1>9. MemType' /\ LoopState'
  BY <1>1, <1>2 DEF MemType, LoopState
<1>10. ListsInv' /\ FreedNeverTouched'
  BY <1>1, <1>2, ListsInvStep DEF FreedNeverTouched
<1> QED
  BY <1>3, <1>5, <1>8, <1>9, <1>10 DEF MemInv, Heaped

(***************************************************************************)
(* Connecting and disconnecting.                                           *)
(***************************************************************************)
\* A connection that fails: a list or a socket may be left behind.
LEMMA ConnectFailsMem ==
  ASSUME MemInv, [Next]_vars, MayConnect, connects' = connects + 1,
         UNCHANGED <<pc, client, lists, result, made, loop, held, msgs, risky, fault>>,
         failed \subseteq failed', heap \subseteq heap',
         \A b \in heap' \ heap : \/ b[1] \in Subscriptions /\ "request" \in failed'
                                 \/ b[1] = "socket" /\ "setsockopt" \in failed'
  PROVE  MemInv'
<1>1. pc = "idle"
  BY DEF MayConnect
<1>2. ListsInv /\ MemType /\ LoopState /\ Heaped /\ FreedNeverTouched
  BY <1>1, Defined
<1>3. Owned' /\ Numbered' /\ MsgsOk'
  BY <1>2 DEF Heaped, Owned, Numbered, MsgsOk, HasResult
<1>4. Live'
  BY <1>2 DEF Heaped, Live, HasResult, ClientParts
<1>5. \A b : Used(b) => Used(b)'
  BY DEF Used, HasResult, ClientParts
<1>6. \A b : LeftBehind(b) => LeftBehind(b)'
  BY DEF LeftBehind
<1>7. \A b \in heap' \ heap : LeftBehind(b)'
  BY DEF LeftBehind
<1>8. Accounted'
  BY <1>2, <1>5, <1>6, <1>7 DEF Heaped, Accounted
<1>9. MemType' /\ LoopState'
  BY <1>2 DEF MemType, LoopState
<1>10. ListsInv' /\ FreedNeverTouched'
  BY <1>2, ListsInvStep DEF FreedNeverTouched
<1> QED
  BY <1>3, <1>4, <1>8, <1>9, <1>10 DEF MemInv, Heaped

LEMMA ConnectNoMemoryMem ==
  ASSUME MemInv, [Next]_vars, NEW f \in SUBSET {"client", "request", "queue", "channel"},
         ConnectNoMemory(f)
  PROVE  MemInv'
<1> DEFINE L == {<<l, connects + 1>> : l \in {m \in Subscriptions : f \cap {m, "client"} = {}}}
<1>1. /\ MayConnect /\ connects' = connects + 1 /\ heap' = heap \cup L
      /\ (f = {"client"} \/ "request" \in f)
      /\ UNCHANGED <<pc, client, lists, result, made, loop, held, msgs, risky, fault>>
      /\ failed' = failed \cup (f \cap Lasting)
  BY DEF ConnectNoMemory, Fails
<1>2. ASSUME NEW b \in L PROVE b[1] \in Subscriptions /\ "request" \in failed'
  <2>1. PICK l \in Subscriptions : b = <<l, connects + 1>> /\ f \cap {l, "client"} = {}
    OBVIOUS
  <2>2. "request" \in f
    BY <1>1, <2>1
  <2> QED
    BY <1>1, <2>1, <2>2 DEF Lasting
<1> HIDE DEF L
<1> QED
  BY <1>1, <1>2, ConnectFailsMem

LEMMA ConnectRefusedMem ==
  ASSUME MemInv, [Next]_vars, NEW s \in NetworkSteps, ConnectRefused(s)
  PROVE  MemInv'
<1>1. /\ MayConnect /\ connects' = connects + 1
      /\ heap' = (IF s = "setsockopt" THEN heap \cup {<<"socket", connects + 1>>} ELSE heap)
      /\ UNCHANGED <<pc, client, lists, result, made, loop, held, msgs, risky, fault>>
      /\ failed' = failed \cup ({s} \cap Lasting)
  BY DEF ConnectRefused, Fails
<1>2. ASSUME NEW b \in heap' \ heap PROVE b[1] = "socket" /\ "setsockopt" \in failed'
  <2>1. s = "setsockopt" /\ b = <<"socket", connects + 1>>
    BY <1>1
  <2> QED
    BY <1>1, <2>1 DEF Lasting
<1>3. heap \subseteq heap' /\ failed \subseteq failed'
  BY <1>1
<1> QED
  BY <1>1, <1>2, <1>3, ConnectFailsMem

\* The lists of a new client, or of none, are empty.
LEMMA EmptyLists ==
  ASSUME ListsInv, MemType,
         lists' = [lists EXCEPT !["queue"] = emq_list_init, !["channel"] = emq_list_init]
  PROVE  /\ \A l \in Subscriptions : lists'[l].alive = {}
         /\ lists'["result"] = lists["result"]
         /\ \A l \in Lists : lists'[l].value \in [Node -> Entry]
         /\ \A l \in Lists : \A n \in lists'[l].alive :
              /\ l = "result" /\ n \in lists[l].alive
              /\ lists'[l].value[n] = lists[l].value[n]
<1>1. lists = [l \in Lists |-> lists[l]]
  BY DEF ListsInv
<1>2. \A l \in Lists : lists'[l] = IF l \in Subscriptions THEN emq_list_init ELSE lists[l]
  BY <1>1 DEF Lists, Subscriptions
<1>3. emq_list_init.alive = {} /\ emq_list_init.value = [n \in Node |-> NULL]
  BY DEF emq_list_init
<1>4. "result" \in Lists /\ "result" \notin Subscriptions /\ Subscriptions \subseteq Lists
  BY DEF Lists, Subscriptions
<1>5. \A l \in Lists : l # "result" => l \in Subscriptions
  BY DEF Lists
<1>6. \A l \in Lists : lists'[l].value \in [Node -> Entry]
  <2> TAKE l \in Lists
  <2>1. lists[l].value \in [Node -> Entry] /\ emq_list_init.value \in [Node -> Entry]
    BY <1>3 DEF MemType, Entry
  <2>2. lists'[l] = emq_list_init \/ lists'[l] = lists[l]
    BY <1>2
  <2> QED
    BY <2>1, <2>2
<1>7. \A l \in Lists : \A n \in lists'[l].alive :
              /\ l = "result" /\ n \in lists[l].alive
              /\ lists'[l].value[n] = lists[l].value[n]
  BY <1>2, <1>3, <1>5
<1> QED
  BY <1>2, <1>3, <1>4, <1>6, <1>7

LEMMA ConnectMem ==
  ASSUME MemInv, [Next]_vars, Connect
  PROVE  MemInv'
<1>1. /\ pc = "idle" /\ client = 0 /\ heap' = heap \cup ClientParts(connects + 1)
      /\ client' = connects + 1 /\ connects' = connects + 1
      /\ lists' = [lists EXCEPT !["queue"] = emq_list_init, !["channel"] = emq_list_init]
      /\ UNCHANGED <<pc, result, made, loop, held, msgs, failed, risky, fault>>
  BY DEF Connect, MayConnect
<1>2. ListsInv /\ MemType /\ LoopState /\ Heaped /\ FreedNeverTouched
  BY <1>1, Defined
<1>3. /\ \A l \in Subscriptions : lists'[l].alive = {}
      /\ lists'["result"] = lists["result"]
      /\ \A l \in Lists : lists'[l].value \in [Node -> Entry]
      /\ \A l \in Lists : \A n \in lists'[l].alive :
              /\ l = "result" /\ n \in lists[l].alive
              /\ lists'[l].value[n] = lists[l].value[n]
  BY <1>1, <1>2, EmptyLists
<1>4. client' # 0 /\ client' \in Nat /\ ClientParts(connects + 1) = ClientParts(client)'
  BY <1>1, <1>2 DEF MemType, ClientParts
<1>5. Owned' /\ MsgsOk'
  BY <1>1, <1>2, <1>3 DEF Heaped, Owned, MsgsOk, HasResult
<1>6. Numbered'
  <2>1. made' = made
    BY <1>1
  <2> QED
    BY <1>2, <1>3, <2>1 DEF Heaped, Numbered
<1>7. Live'
  <2>1. \A l \in Lists : \A n \in lists'[l].alive : <<"value", lists'[l].value[n].id>> \in heap'
    <3>1. heap \subseteq heap'
      BY <1>1
    <3> QED
      BY <1>2, <1>3, <3>1 DEF Heaped, Live
  <2> QED
    BY <1>1, <1>2, <1>4, <2>1 DEF Heaped, Live, HasResult
<1>8. Accounted'
  <2> SUFFICES ASSUME NEW b \in heap' PROVE Used(b)' \/ LeftBehind(b)'
    BY DEF Accounted
  <2>1. CASE b \in ClientParts(connects + 1)
    BY <1>4, <2>1 DEF Used
  <2>2. CASE LeftBehind(b)
    BY <1>1, <2>2 DEF LeftBehind
  <2>3. CASE Used(b)
    <3>1. ASSUME NEW l \in Lists, NEW n \in lists[l].alive, b = <<"value", lists[l].value[n].id>>
          PROVE  Used(b)'
      <4>1. l = "result"
        BY <1>1, <1>2, <3>1 DEF Heaped, Owned, Lists
      <4> QED
        BY <1>3, <3>1, <4>1 DEF Used
    <3> QED
      BY <1>1, <2>3, <3>1 DEF Used, HasResult
  <2> QED
    BY <1>1, <1>2, <2>1, <2>2, <2>3 DEF Heaped, Accounted
<1>9. MemType' /\ LoopState'
  BY <1>1, <1>2, <1>3, <1>4 DEF MemType, LoopState
<1>10. ListsInv' /\ FreedNeverTouched'
  BY <1>1, <1>2, ListsInvStep DEF FreedNeverTouched
<1> QED
  BY <1>5, <1>6, <1>7, <1>8, <1>9, <1>10 DEF MemInv, Heaped

\* emq_client_release frees the client, and both lists with every entry.
LEMMA DisconnectMem ==
  ASSUME MemInv, [Next]_vars, emq_disconnect
  PROVE  MemInv'
<1> DEFINE V == {b \in heap : \E l \in Subscriptions : \E n \in lists[l].alive :
                                b = <<"value", lists[l].value[n].id>>}
<1>1. /\ client # 0 /\ pc \in {"idle", "callback"} /\ client' = 0
      /\ heap' = heap \ (ClientParts(client) \cup Released("queue") \cup Released("channel"))
      /\ lists' = [lists EXCEPT !["queue"] = emq_list_init, !["channel"] = emq_list_init]
      /\ UNCHANGED <<pc, connects, result, made, loop, held, msgs, failed, fault>>
      /\ risky \subseteq risky' /\ (pc = "callback" => risky' # {})
  BY DEF emq_disconnect
<1>2. ListsInv /\ MemType /\ LoopState /\ Heaped /\ FreedNeverTouched
  BY <1>1, Defined
<1>3. /\ \A l \in Subscriptions : lists'[l].alive = {}
      /\ lists'["result"] = lists["result"]
      /\ \A l \in Lists : lists'[l].value \in [Node -> Entry]
      /\ \A l \in Lists : \A n \in lists'[l].alive :
              /\ l = "result" /\ n \in lists[l].alive
              /\ lists'[l].value[n] = lists[l].value[n]
  BY <1>1, <1>2, EmptyLists
<1>4. \A l \in Subscriptions :
        Released(l) = {<<"value", lists[l].value[n].id>> : n \in lists[l].alive} \cup {<<l, client>>}
  <2> SUFFICES ASSUME NEW l \in Subscriptions
               PROVE  Released(l) = {<<"value", lists[l].value[n].id>> : n \in lists[l].alive}
                                      \cup {<<l, client>>}
    OBVIOUS
  <2>1. Walked(lists[l]) = lists[l].alive
    BY <1>2, WalkedAlive DEF ListsInv, Lists
  <2> QED
    BY <2>1 DEF Released, ValuesOf, ValueBlock, ListBlock
<1>5. \A l \in Subscriptions : <<l, client>> \in ClientParts(client)
  BY DEF Subscriptions, ClientParts
<1>6. heap' = heap \ (ClientParts(client) \cup V)
  <2>1. \A b : b \in Released("queue") \cup Released("channel") <=>
               \E l \in Subscriptions : b \in Released(l)
    BY DEF Subscriptions
  <2> HIDE DEF Subscriptions
  <2>2. \A b \in heap : b \in Released("queue") \cup Released("channel") =>
               b \in ClientParts(client) \cup V
    BY <1>4, <1>5, <2>1
  <2>3. \A b \in V : b \in Released("queue") \cup Released("channel")
    BY <1>4, <2>1
  <2> QED
    BY <1>1, <2>2, <2>3
<1>7. \A b \in V : \E l \in Subscriptions : \E n \in lists[l].alive :
        b = <<"value", lists[l].value[n].id>>
  OBVIOUS
<1>8. \A b \in heap : (\E l \in Subscriptions : \E n \in lists[l].alive :
        b = <<"value", lists[l].value[n].id>>) => b \in V
  OBVIOUS
<1> HIDE DEF V
<1>9. \A b \in V : b[1] = "value"
  BY <1>7
<1>10. \A b \in heap : b[1] \in {"appdata", "msg", "data", "result", "none"} => b \in heap'
  BY <1>6, <1>9 DEF ClientParts
<1>11. Owned' /\ MsgsOk'
  BY <1>1, <1>2, <1>3 DEF Heaped, Owned, MsgsOk, HasResult
<1>12. Numbered'
  <2>1. made' = made
    BY <1>1
  <2> QED
    BY <1>2, <1>3, <2>1 DEF Heaped, Numbered
<1>13. Live'
  <2>1. AppData \in heap'
    BY <1>2, <1>10 DEF Heaped, Live, AppData
  <2>2. ASSUME NEW l \in Lists, NEW n \in lists'[l].alive
        PROVE  <<"value", lists'[l].value[n].id>> \in heap'
    <3> DEFINE b == <<"value", lists[l].value[n].id>>
    <3>1. l = "result" /\ n \in lists[l].alive /\ lists'[l] = lists[l]
      BY <1>3
    <3>2. b \in heap
      BY <1>2, <3>1 DEF Heaped, Live
    <3>3. \A m \in Subscriptions : m \in Lists /\ m # l
      BY <3>1 DEF Subscriptions, Lists
    <3>4. \A m \in Subscriptions : \A o \in lists[m].alive :
            lists[l].value[n].id # lists[m].value[o].id
      BY <1>2, <3>1, <3>3 DEF Heaped, Numbered
    <3>5. b \notin V
      BY <1>7, <3>4
    <3>6. b \notin ClientParts(client)
      BY DEF ClientParts
    <3> QED
      BY <1>6, <3>1, <3>2, <3>5, <3>6
  <2>3. \A j \in 1..MaxMade : msgs[j].data[1] \in {"none", "appdata", "data"}
    BY <1>2 DEF MemType, Msgs
  <2>4. \A j \in 1..MaxMade : msgs[j].state = "held" => <<"msg", j>> \in heap' /\ msgs[j].data \in heap'
    BY <1>2, <1>10, <2>3 DEF Heaped, Live
  <2>5. HasResult => <<"result", 0>> \in heap'
    BY <1>2, <1>10 DEF Heaped, Live
  <2>6. HasResult' = HasResult
    BY <1>1 DEF HasResult
  <2> QED
    BY <1>1, <2>1, <2>2, <2>4, <2>5, <2>6 DEF Live
<1>14. Accounted'
  <2> SUFFICES ASSUME NEW b \in heap' PROVE Used(b)' \/ LeftBehind(b)'
    BY DEF Accounted
  <2>1. b \in heap /\ b \notin ClientParts(client) /\ b \notin V
    BY <1>6
  <2>2. CASE LeftBehind(b)
    BY <1>1, <2>2 DEF LeftBehind
  <2>3. CASE Used(b)
    <3>1. ASSUME NEW l \in Lists, NEW n \in lists[l].alive, b = <<"value", lists[l].value[n].id>>
          PROVE  Used(b)'
      <4>1. l = "result"
        BY <1>8, <2>1, <3>1 DEF Lists
      <4> QED
        BY <1>3, <3>1, <4>1 DEF Used
    <3> QED
      BY <1>1, <2>1, <2>3, <3>1 DEF Used, HasResult
  <2> QED
    BY <1>2, <2>1, <2>2, <2>3 DEF Heaped, Accounted
<1>15. MemType' /\ LoopState'
  BY <1>1, <1>2, <1>3 DEF MemType, LoopState
<1>16. ListsInv' /\ FreedNeverTouched'
  BY <1>1, <1>2, ListsInvStep DEF FreedNeverTouched
<1> QED
  BY <1>11, <1>12, <1>13, <1>14, <1>15, <1>16 DEF MemInv, Heaped

(***************************************************************************)
(* Steps on freed memory, and the theorems.                                *)
(***************************************************************************)
LEMMA UndefinedMem ==
  ASSUME MemInv, [Next]_vars, pc' = "undefined", failed \subseteq failed', risky \subseteq risky',
         failed' \cap Subscriptions # {} \/ risky' # {}
  PROVE  MemInv'
<1>1. ListsInv'
  BY ListsInvStep DEF MemInv
<1> QED
  BY <1>1 DEF MemInv, FreedNeverTouched

LEMMA ConnectNoListMem ==
  ASSUME MemInv, [Next]_vars, NEW f \in SUBSET {"client", "request", "queue", "channel"},
         ConnectNoList(f)
  PROVE  MemInv'
<1>1. /\ f \subseteq Subscriptions /\ f # {} /\ failed' = failed \cup (f \cap Lasting)
      /\ pc' = "undefined" /\ risky' = risky
  BY DEF ConnectNoList, Fails
<1>2. Subscriptions \subseteq Lasting
  BY DEF Subscriptions, Lasting
<1>3. failed' \cap Subscriptions # {} /\ failed \subseteq failed'
  BY <1>1, <1>2
<1> QED
  BY <1>1, <1>3, UndefinedMem

\* A loop is safe unless a callback passed the name it was given.
LEMMA LoopUndefinedMem ==
  ASSUME MemInv, [Next]_vars, LoopUndefined
  PROVE  MemInv'
<1>1. /\ pc \in {"unsub", "find"} /\ loop.next # NULL /\ ~LoopIsSafe
      /\ pc' = "undefined" /\ UNCHANGED <<failed, risky>>
  BY DEF LoopUndefined, GoesUndefined
<1>2. MemType /\ LoopState /\ Heaped
  BY <1>1, Defined
<1>3. ASSUME risky = {} PROVE FALSE
  <2>1. /\ client # 0 /\ loop.own = 0 /\ loop.next \in lists[loop.list].alive
        /\ loop.list \in Subscriptions /\ loop.list \in Lists
    BY <1>1, <1>2, <1>3 DEF LoopState, MemType, Loops, Lists
  <2>2. <<"client", client>> \in heap /\ <<loop.list, client>> \in heap
    <3>1. ClientParts(client) \subseteq heap
      BY <1>2, <2>1 DEF Heaped, Live
    <3> QED
      BY <2>1, <3>1 DEF ClientParts, Subscriptions
  <2>3. <<"value", lists[loop.list].value[loop.next].id>> \in heap
    BY <1>2, <2>1 DEF Heaped, Live
  <2> QED
    BY <1>1, <2>1, <2>2, <2>3 DEF LoopIsSafe, Looped, ClientBlock, ListBlock, ValueBlock
<1> QED
  BY <1>1, <1>3, UndefinedMem

\* The client a callback returns to is there unless the callback disconnected.
LEMMA CallbackUndefinedMem ==
  ASSUME MemInv, [Next]_vars, CallbackReturnsUndefined
  PROVE  MemInv'
<1>1. /\ pc = "callback" /\ ~ClientIsSafe /\ pc' = "undefined" /\ UNCHANGED <<failed, risky>>
  BY DEF CallbackReturnsUndefined, GoesUndefined
<1>2. LoopState /\ Heaped
  BY <1>1, Defined
<1>3. ASSUME risky = {} PROVE FALSE
  <2>1. ClientParts(client) \subseteq heap
    BY <1>1, <1>2, <1>3 DEF LoopState, Heaped, Live
  <2> QED
    BY <1>1, <2>1 DEF ClientIsSafe, ClientParts, ClientBlock, ListBlock
<1> QED
  BY <1>1, <1>3, UndefinedMem

LEMMA MemStep == MemInv /\ [Next]_vars => MemInv'
<1> SUFFICES ASSUME MemInv, [Next]_vars PROVE MemInv'
  OBVIOUS
<1>1. CASE UNCHANGED vars
  <2>1. UNCHANGED <<pc, heap, client, connects, lists, result, made, loop, held, msgs, failed,
                    risky, fault>>
    BY <1>1 DEF vars
  <2>2. ListsInv' /\ FreedNeverTouched'
    BY <2>1, ListsInvStep DEF MemInv, FreedNeverTouched
  <2>3. ASSUME pc # "undefined" PROVE MemType' /\ LoopState' /\ Heaped'
    <3>1. MemType /\ LoopState /\ Heaped
      BY <2>3, Defined
    <3>2. MemType' /\ LoopState'
      BY <2>1, <3>1 DEF MemType, LoopState
    <3> QED
      BY <2>1, <3>1, <3>2, HeapedSame
  <2> QED
    BY <2>1, <2>2, <2>3 DEF MemInv
<1>2. ASSUME NEW f \in SUBSET {"client", "request", "queue", "channel"},
             ConnectNoMemory(f) \/ ConnectNoList(f)
      PROVE  MemInv'
  BY <1>2, ConnectNoMemoryMem, ConnectNoListMem
<1>3. ASSUME NEW s \in NetworkSteps, ConnectRefused(s) PROVE MemInv'
  BY <1>3, ConnectRefusedMem
<1>4. ASSUME NEW l \in Subscriptions, NEW name \in Names,
             \/ Subscribe(l, name)
             \/ \E own \in 0..MaxMade : Unsubscribe(l, name, own)
             \/ Event(l, name)
      PROVE  MemInv'
  BY <1>4, SubscribeMem, UnsubscribeMem, EventMem
<1>5. CASE Connect \/ emq_disconnect
  BY <1>5, ConnectMem, DisconnectMem
<1>6. CASE UnsubscribeEnd \/ FindEnd \/ CallbackReturns
  BY <1>6, LoopEndMem
<1>7. CASE UnsubscribeNode \/ FindNode \/ EventPayload
  BY <1>7, UnsubscribeNodeMem, FindNodeMem, EventPayloadMem
<1>8. CASE LoopUndefined \/ CallbackReturnsUndefined
  BY <1>8, LoopUndefinedMem, CallbackUndefinedMem
<1>9. CASE Query \/ QueryObject \/ QueryEnd
  BY <1>9, QueryMem, QueryObjectMem, QueryEndMem
<1>10. CASE QueryNoObject \/ emq_list_release
  BY <1>10, ListReleaseMem
<1>11. ASSUME NEW z \in BOOLEAN, emq_msg_create(z) PROVE MemInv'
  BY <1>11, MsgCreateMem
<1>12. ASSUME NEW j \in 1..MaxMade, emq_msg_copy(j) \/ emq_msg_release(j) PROVE MemInv'
  BY <1>12, MsgCopyMem, MsgReleaseMem
<1> QED
  BY <1>1, <1>2, <1>3, <1>4, <1>5, <1>6, <1>7, <1>8, <1>9, <1>10, <1>11, <1>12 DEF Next

LEMMA MemAlways == Spec => []MemInv
BY MemInit, MemStep, PTL DEF Spec

\* What the application can reach, in the terms of the invariant.
LEMMA ReachedUsed ==
  ASSUME Owned, NEW b
  PROVE  b \in Reached <=> Used(b)
<1>1. Lists = Subscriptions \cup {"result"} /\ "result" \in Lists
  BY DEF Lists
<1>2. b \in UNION {{<<"msg", i>>, msgs[i].data} : i \in {j \in 1..MaxMade : msgs[j].state = "held"}}
      <=> \E j \in 1..MaxMade : msgs[j].state = "held" /\ (b = <<"msg", j>> \/ b = msgs[j].data)
  OBVIOUS
<1>3. ASSUME NEW l \in Lists
      PROVE  b \in ValuesOf(l, lists[l].alive) <=>
               \E n \in lists[l].alive : b = <<"value", lists[l].value[n].id>>
  BY DEF ValuesOf, ValueBlock
<1>4. b \in UNION {ValuesOf(l, lists[l].alive) : l \in Subscriptions} <=>
        \E l \in Subscriptions : b \in ValuesOf(l, lists[l].alive)
  OBVIOUS
<1>5. client = 0 => \A l \in Subscriptions : lists[l].alive = {}
  BY DEF Owned
<1>6. ~HasResult => lists["result"].alive = {}
  BY DEF Owned
<1> DEFINE M == UNION {{<<"msg", i>>, msgs[i].data} : i \in {j \in 1..MaxMade : msgs[j].state = "held"}}
           V == UNION {ValuesOf(l, lists[l].alive) : l \in Subscriptions}
           R == ValuesOf("result", lists["result"].alive)
<1>7. b \in Reached <=> \/ b = AppData
                        \/ client # 0 /\ (b \in ClientParts(client) \/ b \in V)
                        \/ b \in M
                        \/ HasResult /\ (b = <<"result", 0>> \/ b \in R)
                        \/ pc = "objects" /\ b = <<"buffer", 0>>
  <2> HIDE DEF M, V, R
  <2>1. Reached = {AppData}
                    \cup (IF client = 0 THEN {} ELSE ClientParts(client) \cup V)
                    \cup M
                    \cup (IF ~result /\ pc # "objects" THEN {} ELSE {<<"result", 0>>} \cup R)
                    \cup (IF pc = "objects" THEN {<<"buffer", 0>>} ELSE {})
    BY Zenon DEF Reached, M, V, R
  <2> QED
    BY <2>1 DEF HasResult
<1>8. b \in V <=> \E l \in Subscriptions : \E n \in lists[l].alive : b = <<"value", lists[l].value[n].id>>
  BY <1>1, <1>3, <1>4
<1>9. b \in R <=> \E n \in lists["result"].alive : b = <<"value", lists["result"].value[n].id>>
  BY <1>1, <1>3
<1>10. (\E l \in Lists : \E n \in lists[l].alive : b = <<"value", lists[l].value[n].id>>) <=>
         (client # 0 /\ b \in V) \/ (HasResult /\ b \in R)
  <2> HIDE DEF V, R
  <2> QED
    BY <1>1, <1>5, <1>6, <1>8, <1>9
<1> HIDE DEF V, R
<1> QED
  BY <1>2, <1>7, <1>10 DEF Used

\* Nothing the application or the client refers to is freed, whatever the order
\* of commands, events, callbacks, releases and failed allocations.
THEOREM NoDanglingCorrect == Spec => []NoDangling
<1>1. MemInv => NoDangling
  <2> SUFFICES ASSUME MemInv, pc # "undefined", NEW b \in Reached PROVE b \in heap
    BY DEF NoDangling
  <2>1. Heaped
    BY Defined
  <2>2. Used(b)
    BY <2>1, ReachedUsed DEF Heaped
  <2> QED
    BY <2>1, <2>2 DEF Heaped, Live, Used
<1> QED
  BY <1>1, MemAlways, PTL

\* Freed memory is touched only after emq_client_init could not allocate a list,
\* or by a callback that disconnects or unsubscribes with the name it was given.
THEOREM FreedNeverTouchedCorrect == Spec => []FreedNeverTouched
<1>1. MemInv => FreedNeverTouched
  BY DEF MemInv
<1> QED
  BY <1>1, MemAlways, PTL

\* Memory that nothing refers to any more has one of four causes.
THEOREM LeaksExplainedCorrect == Spec => []LeaksExplained
<1>1. MemInv => LeaksExplained
  <2> SUFFICES ASSUME MemInv, pc # "undefined", NEW b \in heap \ Reached
               PROVE  \/ b[1] \in Subscriptions /\ "request" \in failed
                      \/ b[1] = "socket" /\ "setsockopt" \in failed
                      \/ b[1] = "value" /\ "node" \in failed
                      \/ b[1] = "data" /\ msgs[b[2]].copy
    BY DEF LeaksExplained
  <2>1. Heaped
    BY Defined
  <2>2. ~Used(b)
    BY <2>1, ReachedUsed DEF Heaped
  <2> QED
    BY <2>1, <2>2 DEF Heaped, Accounted, LeftBehind
<1> QED
  BY <1>1, MemAlways, PTL
=============================================================================
