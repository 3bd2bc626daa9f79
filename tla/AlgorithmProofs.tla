-------------------------- MODULE AlgorithmProofs --------------------------
(***************************************************************************)
(* Algorithms of the services for inputs of any size: interleaved lists,   *)
(* streams and pages, the metric catalog, what a layer has to give, and    *)
(* the ingestion of events and heartbeats.                                 *)
(***************************************************************************)
EXTENDS Interleaving, Readers, MetricCatalog, Portfolio, Sessionizer, ServingProofs

-----------------------------------------------------------------------------
(* Interleaved lists.  Everything the property says of the merged list is  *)
(* kept by each pick; the counters of the code are the credited items.     *)

AllItems == UNION {Elements(l) : l \in Rankings}

InterleaveStates ==
    [algo : {"interleave"}, request : Requests,
     answer : {"pending", "ok"} \cup {Precheck(r) : r \in Requests}, k : Nat,
     merged : Seq(AllItems), provenance : Seq(1 .. MaxLists),
     count : UNION {[1 .. n -> Nat] : n \in 1 .. MaxLists}]

Counted ==
    /\ Len(st.provenance) = Len(st.merged) /\ Len(st.merged) <= st.k
    /\ st.count \in [Teams -> Nat]
    /\ \A i \in 1 .. Len(st.merged) : st.provenance[i] \in Teams
    /\ \A a \in Teams : st.count[a] = Cardinality(Credited(a))

\* The merged list has no item twice and no item of its own.
Distinct ==
    /\ IsFiniteSet(Elements(st.merged)) /\ Cardinality(Elements(st.merged)) = Len(st.merged)
    /\ Elements(st.merged) \subseteq Items(Lists)

Balanced ==
    IF st.request.method = "OPTIMIZED"
    THEN \A a \in Teams : st.count[a] <= (st.k + 1) \div 2
    ELSE \A a, b \in Teams : b \in Eligible => st.count[a] <= st.count[b] + 1

InterleaveInv ==
    st \in InterleaveStates /\ Counted /\ Distinct /\ CreditIsEarned /\ Balanced /\ DraftIsFull

\* The lists of a request are rankings.
LEMMA RequestLists ==
    ASSUME NEW r \in Requests
    PROVE  /\ r.lists \in Seq(Rankings) /\ Len(r.lists) \in 1 .. MaxLists /\ r.k \in Nat
           /\ r.lists \in [1 .. Len(r.lists) -> Rankings]
           /\ \A a \in 1 .. Len(r.lists) : r.lists[a] \in Seq(Elements(r.lists[a]))
                                           /\ Len(r.lists[a]) \in Nat
<1>1. r.lists \in UNION {[1 .. n -> Rankings] : n \in 1 .. MaxLists} /\ r.k \in ListSizes
  BY DEF Requests
<1>2. PICK n \in 1 .. MaxLists : r.lists \in [1 .. n -> Rankings]
  BY <1>1
<1>3. MaxLists \in Nat /\ ListSizes \subseteq Nat
  BY InterleavingAssumption
<1>4. n \in Nat
  BY <1>3
<1>5. r.lists \in Seq(Rankings) /\ Len(r.lists) = n
  BY <1>2, <1>4
<1>6. \A a \in 1 .. n : r.lists[a] \in Rankings
  BY <1>2
<1>7. \A a \in 1 .. n : r.lists[a] \in Seq(Elements(r.lists[a]))
  BY <1>6, InterleavingAssumption
<1>8. \A l, S : l \in Seq(S) => Len(l) \in Nat
  OBVIOUS
<1> QED
  BY <1>1, <1>2, <1>3, <1>5, <1>7, <1>8

\* The elements of a list with one item more.
LEMMA ElementsOfAppend ==
    ASSUME NEW S, NEW s \in Seq(S), NEW x \in S
    PROVE  /\ Elements(Append(s, x)) = Elements(s) \cup {x}
           /\ Append(s, x) \in Seq(S) /\ Len(Append(s, x)) = Len(s) + 1
           /\ \A i \in 1 .. Len(s) : Append(s, x)[i] = s[i]
           /\ Append(s, x)[Len(s) + 1] = x
<1>1. /\ Append(s, x) \in Seq(S) /\ Len(Append(s, x)) = Len(s) + 1 /\ Len(s) \in Nat
      /\ \A i \in 1 .. Len(s) : Append(s, x)[i] = s[i]
      /\ Append(s, x)[Len(s) + 1] = x
  OBVIOUS
<1>2. ASSUME NEW y \in Elements(Append(s, x)) PROVE y \in Elements(s) \cup {x}
  <2>1. PICK i \in 1 .. Len(s) + 1 : y = Append(s, x)[i]
    BY <1>1 DEF Elements
  <2>2. CASE i = Len(s) + 1
    BY <1>1, <2>1, <2>2
  <2>3. CASE i # Len(s) + 1
    <3>1. i \in 1 .. Len(s)
      BY <1>1, <2>3
    <3> QED
      BY <1>1, <2>1, <3>1 DEF Elements
  <2> QED
    BY <2>2, <2>3
<1>3. ASSUME NEW y \in Elements(s) \cup {x} PROVE y \in Elements(Append(s, x))
  <2>1. CASE y = x
    <3>1. Len(s) + 1 \in 1 .. Len(Append(s, x))
      BY <1>1
    <3> QED
      BY <1>1, <2>1, <3>1 DEF Elements
  <2>2. CASE y \in Elements(s)
    <3>1. PICK i \in 1 .. Len(s) : y = s[i]
      BY <2>2 DEF Elements
    <3>2. i \in 1 .. Len(Append(s, x)) /\ y = Append(s, x)[i]
      BY <1>1, <3>1
    <3> QED
      BY <3>2 DEF Elements
  <2> QED
    BY <2>1, <2>2
<1> QED
  BY <1>1, <1>2, <1>3

\* The elements of a sequence are finitely many.
LEMMA ElementsFinite ==
    ASSUME NEW s, Len(s) \in Nat
    PROVE  IsFiniteSet(Elements(s))
<1>1. IsFiniteSet(1 .. Len(s))
  BY FS_Interval
<1>2. PICK f : f = [i \in 1 .. Len(s) |-> s[i]]
  OBVIOUS
<1>3. f \in Surjection(1 .. Len(s), Elements(s))
  BY <1>2 DEF Surjection, Elements
<1> QED
  BY <1>1, <1>3, FS_Surjection

LEMMA ItemsFinite ==
    ASSUME NEW r \in Requests
    PROVE  IsFiniteSet(Items(r.lists))
<1> DEFINE N == Len(r.lists)
           Sets == {Elements(r.lists[a]) : a \in 1 .. N}
<1>1. N \in Nat /\ \A a \in 1 .. N : Len(r.lists[a]) \in Nat
  BY RequestLists, InterleavingAssumption
<1>2. \A T \in Sets : IsFiniteSet(T)
  BY <1>1, ElementsFinite
<1>3. IsFiniteSet(Sets)
  <2>1. IsFiniteSet(1 .. N)
    BY <1>1, FS_Interval
  <2>2. PICK f : f = [a \in 1 .. N |-> Elements(r.lists[a])]
    OBVIOUS
  <2>3. f \in Surjection(1 .. N, Sets)
    BY <2>2 DEF Surjection
  <2> HIDE DEF Sets, N
  <2> QED
    BY <2>1, <2>3, FS_Surjection
<1>4. IsFiniteSet(UNION Sets)
  <2> HIDE DEF Sets
  <2> QED BY <1>2, <1>3, FS_UNION
<1> QED
  BY <1>4 DEF Items

\* Where the fields go when a team picks an item it ranked and nobody picked.
LEMMA PickFields ==
    ASSUME InterleaveInv, Building, NEW a \in Teams, NEW item \in Unseen(a), Pick(a, item)
    PROVE  /\ st' \in InterleaveStates
           /\ st'.algo = "interleave" /\ st'.request = st.request /\ st'.answer = "pending"
           /\ st'.k = st.k
           /\ st'.merged = Append(st.merged, item) /\ st'.provenance = Append(st.provenance, a)
           /\ st'.count \in [Teams -> Nat]
           /\ st'.count[a] = st.count[a] + 1
           /\ \A b \in Teams : b # a => st'.count[b] = st.count[b]
<1>1. /\ st \in InterleaveStates /\ st.count \in [Teams -> Nat] /\ st.answer = "pending"
      /\ st.algo = "interleave"
  BY DEF InterleaveInv, Counted, Building, InterleaveStates
<1>2. /\ st.request \in Requests /\ Len(Lists) \in 1 .. MaxLists /\ Lists \in [Teams -> Rankings]
      /\ MaxLists \in Nat
  <2>1. st.request \in Requests
    BY <1>1 DEF InterleaveStates
  <2> QED
    BY <2>1, RequestLists, InterleavingAssumption DEF Lists, Teams
<1>3. a \in 1 .. MaxLists
  BY <1>2 DEF Teams
<1>4. item \in AllItems
  BY <1>2 DEF AllItems, Unseen
<1>5. PICK m : m = Append(st.merged, item)
  OBVIOUS
<1>6. PICK p : p = Append(st.provenance, a)
  OBVIOUS
<1>7. PICK c : c = [st.count EXCEPT ![a] = st.count[a] + 1]
  OBVIOUS
<1>8. /\ c \in [Teams -> Nat] /\ c[a] = st.count[a] + 1
      /\ \A b \in Teams : b # a => c[b] = st.count[b]
  BY <1>1, <1>7
<1>9. m \in Seq(AllItems) /\ p \in Seq(1 .. MaxLists)
  BY <1>1, <1>3, <1>4, <1>5, <1>6 DEF InterleaveStates
<1>10. c \in UNION {[1 .. n -> Nat] : n \in 1 .. MaxLists}
  BY <1>2, <1>8 DEF Teams
<1>11. st' = [st EXCEPT !.merged = m, !.provenance = p, !.count = c]
  BY <1>1, <1>5, <1>6, <1>7 DEF Pick, InterleaveStates
<1>12. /\ st' \in InterleaveStates /\ st'.algo = st.algo /\ st'.request = st.request
       /\ st'.answer = st.answer /\ st'.k = st.k
       /\ st'.merged = m /\ st'.provenance = p /\ st'.count = c
  BY <1>1, <1>9, <1>10, <1>11 DEF InterleaveStates
<1> QED
  BY <1>1, <1>5, <1>6, <1>8, <1>12

\* Each pick keeps the count, the list free of repetition and the credit real.
LEMMA PickKeeps ==
    ASSUME InterleaveInv, Building, NEW a \in Teams, NEW rank \in 1 .. Len(Lists[a]),
           Lists[a][rank] \notin Elements(st.merged),
           st.request.method # "OPTIMIZED" =>
               \A q \in 1 .. rank - 1 : Lists[a][q] \in Elements(st.merged),
           Pick(a, Lists[a][rank])
    PROVE  /\ st' \in InterleaveStates /\ Counted' /\ Distinct' /\ CreditIsEarned' /\ DraftIsFull'
           /\ st'.request = st.request /\ st'.k = st.k
           /\ st'.count[a] = st.count[a] + 1 /\ st.count \in [Teams -> Nat] /\ st'.count \in [Teams -> Nat]
           /\ \A b \in Teams : b # a => st'.count[b] = st.count[b]
           /\ Elements(st.merged) \subseteq Elements(st'.merged)
<1>1. PICK item : item = Lists[a][rank]
  OBVIOUS
<1>2. item \in Elements(Lists[a])
  BY <1>1 DEF Elements
<1>3. item \in Unseen(a)
  BY <1>1, <1>2 DEF Unseen
<1>4. /\ st' \in InterleaveStates
      /\ st'.algo = "interleave" /\ st'.request = st.request /\ st'.answer = "pending"
      /\ st'.k = st.k
      /\ st'.merged = Append(st.merged, item) /\ st'.provenance = Append(st.provenance, a)
      /\ st'.count \in [Teams -> Nat]
      /\ st'.count[a] = st.count[a] + 1
      /\ \A b \in Teams : b # a => st'.count[b] = st.count[b]
  BY <1>1, <1>3, PickFields
<1>5. PICK n : n = Len(st.merged)
  OBVIOUS
<1>6. /\ st.merged \in Seq(AllItems) /\ st.provenance \in Seq(1 .. MaxLists)
      /\ n \in Nat /\ Len(st.provenance) = n /\ st.k \in Nat /\ n < st.k
      /\ st.request \in Requests
  <2>1. st.merged \in Seq(AllItems) /\ st.provenance \in Seq(1 .. MaxLists) /\ st.k \in Nat
        /\ st.request \in Requests
    BY DEF InterleaveInv, InterleaveStates
  <2> QED
    BY <1>5, <2>1 DEF InterleaveInv, Counted, Building
<1>7. /\ Len(Lists) \in 1 .. MaxLists /\ Lists \in [Teams -> Rankings] /\ MaxLists \in Nat
      /\ a \in 1 .. MaxLists /\ Len(Lists) \in Nat
  BY <1>6, RequestLists, InterleavingAssumption DEF Lists, Teams
<1>8. item \in AllItems
  BY <1>2, <1>7 DEF AllItems
<1>9. /\ Elements(st'.merged) = Elements(st.merged) \cup {item}
      /\ Len(st'.merged) = n + 1
      /\ \A i \in 1 .. n : st'.merged[i] = st.merged[i]
      /\ st'.merged[n + 1] = item
  BY <1>4, <1>5, <1>6, <1>8, ElementsOfAppend
<1>10. /\ Len(st'.provenance) = n + 1
       /\ \A i \in 1 .. n : st'.provenance[i] = st.provenance[i]
       /\ st'.provenance[n + 1] = a
  <2>1. PICK R : R = 1 .. MaxLists
    OBVIOUS
  <2>2. a \in R /\ st.provenance \in Seq(R)
    BY <1>6, <1>7, <2>1
  <2>3. /\ Len(Append(st.provenance, a)) = Len(st.provenance) + 1
        /\ \A i \in 1 .. Len(st.provenance) : Append(st.provenance, a)[i] = st.provenance[i]
        /\ Append(st.provenance, a)[Len(st.provenance) + 1] = a
    BY <2>2, ElementsOfAppend
  <2> QED
    BY <1>4, <1>6, <2>3
<1>11. Lists' = Lists /\ Teams' = Teams
  BY <1>4 DEF Lists, Teams
<1>12. Counted'
  <2>1. Len(st'.provenance) = Len(st'.merged) /\ Len(st'.merged) <= st'.k
    BY <1>4, <1>6, <1>9, <1>10
  <2>2. ASSUME NEW i \in 1 .. n + 1 PROVE st'.provenance[i] \in Teams
    <3>1. CASE i = n + 1
      BY <1>10, <3>1
    <3>2. CASE i # n + 1
      <4>1. i \in 1 .. n
        BY <1>6, <3>2
      <4> QED
        BY <1>5, <1>10, <4>1 DEF InterleaveInv, Counted
    <3> QED
      BY <3>1, <3>2
  <2>3. ASSUME NEW b \in Teams PROVE st'.count[b] = Cardinality(Credited(b)')
    <3>1. st.count[b] = Cardinality(Credited(b)) /\ st.count[b] \in Nat
      BY DEF InterleaveInv, Counted
    <3>2. Credited(b) = {i \in 1 .. n : st.provenance[i] = b}
      BY <1>5 DEF Credited
    <3>3. Credited(b)' = {i \in 1 .. n + 1 : st'.provenance[i] = b}
      BY <1>9 DEF Credited
    <3>4. IsFiniteSet(Credited(b)) /\ n + 1 \notin Credited(b)
      <4>1. IsFiniteSet(1 .. n)
        <5>1. n \in Nat
          BY <1>6
        <5> QED
          BY <5>1, IntervalIsFinite, Zenon
      <4>2. Credited(b) \in SUBSET (1 .. n)
        BY <3>2
      <4> QED
        BY <1>6, <4>1, <4>2, FS_Subset
    <3>5. CASE b = a
      <4>1. Credited(b)' = Credited(b) \cup {n + 1}
        BY <1>6, <1>10, <3>2, <3>3, <3>5
      <4>2. Cardinality(Credited(b) \cup {n + 1}) = Cardinality(Credited(b)) + 1
        BY <3>4, FS_AddElement
      <4> QED
        BY <1>4, <3>1, <3>5, <4>1, <4>2
    <3>6. CASE b # a
      <4>1. Credited(b)' = Credited(b)
        BY <1>6, <1>10, <3>2, <3>3, <3>6
      <4> QED
        BY <1>4, <3>1, <3>6, <4>1
    <3> QED
      BY <3>5, <3>6
  <2> QED
    BY <1>4, <1>9, <1>11, <2>1, <2>2, <2>3 DEF Counted
<1>13. Distinct'
  <2>1. IsFiniteSet(Elements(st.merged)) /\ Cardinality(Elements(st.merged)) = n
    BY <1>5 DEF InterleaveInv, Distinct
  <2>2. item \notin Elements(st.merged)
    BY <1>1
  <2>3. IsFiniteSet(Elements(st'.merged)) /\ Cardinality(Elements(st'.merged)) = n + 1
    <3>1. PICK E : E = Elements(st.merged)
      OBVIOUS
    <3>2. IsFiniteSet(E \cup {item}) /\ Cardinality(E \cup {item}) = Cardinality(E) + 1
      BY <2>1, <2>2, <3>1, FS_AddElement
    <3> QED
      BY <1>9, <2>1, <3>1, <3>2
  <2>4. item \in Items(Lists)
    BY <1>2 DEF Items, Teams
  <2>5. Elements(st.merged) \subseteq Items(Lists)
    BY DEF InterleaveInv, Distinct
  <2> QED
    BY <1>9, <1>11, <2>3, <2>4, <2>5 DEF Distinct
<1>14. CreditIsEarned'
  <2> SUFFICES ASSUME NEW i \in 1 .. n + 1
               PROVE  /\ st'.merged[i] \notin {st'.merged[j] : j \in 1 .. i - 1}
                      /\ \E r \in 1 .. Len(Lists[st'.provenance[i]]) :
                            /\ Lists[st'.provenance[i]][r] = st'.merged[i]
                            /\ st'.request.method # "OPTIMIZED" =>
                                \A q \in 1 .. r - 1 :
                                    Lists[st'.provenance[i]][q] \in {st'.merged[j] : j \in 1 .. i - 1}
    BY <1>9, <1>11 DEF CreditIsEarned
  <2>1. {st'.merged[j] : j \in 1 .. i - 1} = {st.merged[j] : j \in 1 .. i - 1}
    <3>1. \A j \in 1 .. i - 1 : j \in 1 .. n
      BY <1>6
    <3> QED
      BY <1>9, <3>1
  <2>2. CASE i = n + 1
    <3>1. {st.merged[j] : j \in 1 .. i - 1} = Elements(st.merged)
      BY <1>5, <1>6, <2>2 DEF Elements
    <3>2. st'.merged[i] = Lists[a][rank] /\ st'.provenance[i] = a
      BY <1>1, <1>9, <1>10, <2>2
    <3> QED
      BY <1>4, <2>1, <3>1, <3>2
  <2>3. CASE i # n + 1
    <3>1. i \in 1 .. Len(st.merged) /\ st'.merged[i] = st.merged[i]
          /\ st'.provenance[i] = st.provenance[i]
      BY <1>5, <1>6, <1>9, <1>10, <2>3
    <3>2. CreditIsEarned /\ Running("interleave")
      BY DEF InterleaveInv, InterleaveStates, Running
    <3>3. /\ st.merged[i] \notin {st.merged[j] : j \in 1 .. i - 1}
          /\ \E r \in 1 .. Len(Lists[st.provenance[i]]) :
                /\ Lists[st.provenance[i]][r] = st.merged[i]
                /\ st.request.method # "OPTIMIZED" =>
                    \A q \in 1 .. r - 1 :
                        Lists[st.provenance[i]][q] \in {st.merged[j] : j \in 1 .. i - 1}
      BY <3>1, <3>2 DEF CreditIsEarned
    <3> QED
      BY <1>4, <2>1, <3>1, <3>3
  <2> QED
    BY <2>2, <2>3
<1>15. DraftIsFull'
  BY <1>4 DEF DraftIsFull
<1> QED
  BY <1>4, <1>9, <1>12, <1>13, <1>14, <1>15 DEF InterleaveInv, Counted

LEMMA DraftKeeps ==
    ASSUME InterleaveInv, DraftStep
    PROVE  InterleaveInv'
<1>1. PICK a \in FewestPicks : Pick(a, NextOf(a))
  BY DEF DraftStep
<1>2. Building /\ st.request.method # "OPTIMIZED"
  BY DEF DraftStep
<1>3. a \in Teams /\ Unseen(a) # {} /\ \A b \in Eligible : st.count[a] <= st.count[b]
  BY <1>1 DEF FewestPicks, Eligible
<1>4. PICK ranks : ranks = {i \in 1 .. Len(Lists[a]) : Lists[a][i] \notin Elements(st.merged)}
  OBVIOUS
<1>5. ranks # {}
  BY <1>3, <1>4 DEF Unseen, Elements
<1>6. Len(Lists[a]) \in Nat
  <2>1. st.request \in Requests
    BY DEF InterleaveInv, InterleaveStates
  <2> QED
    BY <1>3, <2>1, RequestLists DEF Lists, Teams
<1>7. ranks \subseteq Nat
  BY <1>4, <1>6
<1>8. PICK rank : rank = Least(ranks)
  OBVIOUS
<1>9. rank \in ranks /\ \A x \in ranks : rank <= x
  BY <1>5, <1>7, <1>8, LeastIsLeast
<1>10. NextOf(a) = Lists[a][rank]
  BY <1>4, <1>8 DEF NextOf
<1>11. rank \in 1 .. Len(Lists[a]) /\ Lists[a][rank] \notin Elements(st.merged)
  BY <1>4, <1>9
<1>12. ASSUME NEW q \in 1 .. rank - 1 PROVE Lists[a][q] \in Elements(st.merged)
  <2>1. q \in 1 .. Len(Lists[a]) /\ ~(rank <= q)
    BY <1>6, <1>11
  <2> QED
    BY <1>4, <1>9, <2>1
<1>13. /\ st' \in InterleaveStates /\ Counted' /\ Distinct' /\ CreditIsEarned' /\ DraftIsFull'
       /\ st'.request = st.request /\ st'.k = st.k
       /\ st'.count[a] = st.count[a] + 1 /\ st.count \in [Teams -> Nat] /\ st'.count \in [Teams -> Nat]
       /\ \A b \in Teams : b # a => st'.count[b] = st.count[b]
       /\ Elements(st.merged) \subseteq Elements(st'.merged)
  BY <1>1, <1>2, <1>3, <1>10, <1>11, <1>12, PickKeeps
<1>14. Teams' = Teams /\ Lists' = Lists
  BY <1>13 DEF Teams, Lists
<1>15. Eligible' \subseteq Eligible
  BY <1>13, <1>14 DEF Eligible, Unseen
<1>16. ASSUME NEW c \in Teams, NEW b \in Teams, b \in Eligible'
       PROVE  st'.count[c] <= st'.count[b] + 1
  <2>1. b \in Eligible
    BY <1>15, <1>16
  <2>2. st.count[c] <= st.count[b] + 1 /\ st.count[a] <= st.count[b]
    BY <1>2, <1>3, <2>1 DEF InterleaveInv, Balanced
  <2>3. st.count[a] \in Nat /\ st.count[b] \in Nat /\ st.count[c] \in Nat
    BY <1>3, <1>13
  <2> QED
    BY <1>13, <2>2, <2>3
<1>17. Balanced'
  BY <1>2, <1>13, <1>14, <1>16 DEF Balanced
<1> QED
  BY <1>13, <1>17 DEF InterleaveInv

LEMMA OptimizedKeeps ==
    ASSUME InterleaveInv, OptimizedStep
    PROVE  InterleaveInv'
<1>1. PICK a \in Teams : \E item \in Candidates(a) : Pick(a, item)
  BY DEF OptimizedStep
<1>2. PICK item \in Candidates(a) : Pick(a, item)
  BY <1>1
<1>3. Building /\ st.request.method = "OPTIMIZED"
  BY DEF OptimizedStep
<1>4. UnderCap(a) /\ item \in Unseen(a)
  BY <1>2 DEF Candidates
<1>5. PICK rank \in 1 .. Len(Lists[a]) : item = Lists[a][rank]
  BY <1>4 DEF Unseen, Elements
<1>6. item \notin Elements(st.merged)
  BY <1>4 DEF Unseen
<1>7. /\ st' \in InterleaveStates /\ Counted' /\ Distinct' /\ CreditIsEarned' /\ DraftIsFull'
      /\ st'.request = st.request /\ st'.k = st.k
      /\ st'.count[a] = st.count[a] + 1 /\ st.count \in [Teams -> Nat] /\ st'.count \in [Teams -> Nat]
      /\ \A b \in Teams : b # a => st'.count[b] = st.count[b]
      /\ Elements(st.merged) \subseteq Elements(st'.merged)
  BY <1>2, <1>3, <1>5, <1>6, PickKeeps
<1>8. Teams' = Teams
  BY <1>7 DEF Teams, Lists
<1>9. PICK cap : cap = (st.k + 1) \div 2
  OBVIOUS
<1>10. st.count[a] < cap /\ cap \in Int
  <2>1. st.k \in Nat
    BY DEF InterleaveInv, InterleaveStates
  <2> QED
    BY <1>4, <1>9, <2>1 DEF UnderCap, BalanceCap
<1>11. ASSUME NEW b \in Teams PROVE st'.count[b] <= cap
  <2>1. st.count[b] <= cap
    BY <1>3, <1>9 DEF InterleaveInv, Balanced
  <2>2. st.count[a] \in Nat
    BY <1>7
  <2> QED
    BY <1>7, <1>10, <2>1, <2>2
<1>12. Balanced'
  BY <1>3, <1>7, <1>8, <1>9, <1>11 DEF Balanced
<1> QED
  BY <1>7, <1>12 DEF InterleaveInv

\* An answer touches nothing else.
LEMMA AnswerKeeps ==
    ASSUME InterleaveInv, NEW out, st' = [st EXCEPT !.answer = out],
           out \in {"pending", "ok"} \cup {Precheck(r) : r \in Requests}, DraftIsFull'
    PROVE  InterleaveInv'
<1>1. st \in InterleaveStates
  BY DEF InterleaveInv
<1>2. /\ st' \in InterleaveStates /\ st'.algo = st.algo /\ st'.request = st.request
      /\ st'.k = st.k /\ st'.merged = st.merged /\ st'.provenance = st.provenance
      /\ st'.count = st.count
  BY <1>1 DEF InterleaveStates
<1>3. Lists' = Lists /\ Teams' = Teams /\ \A a : Credited(a)' = Credited(a)
  BY <1>2 DEF Lists, Teams, Credited
<1>4. Eligible' = Eligible
  BY <1>2, <1>3 DEF Eligible, Unseen
<1>5. Counted'
  BY <1>2, <1>3 DEF InterleaveInv, Counted
<1>6. Distinct'
  BY <1>2, <1>3 DEF InterleaveInv, Distinct
<1>7. CreditIsEarned'
  BY <1>2, <1>3 DEF InterleaveInv, CreditIsEarned, Running
<1>8. Balanced'
  BY <1>2, <1>3, <1>4 DEF InterleaveInv, Balanced
<1> QED
  BY <1>2, <1>5, <1>6, <1>7, <1>8 DEF InterleaveInv

\* A draft stops when the list is full or every item is in it.
LEMMA AnswerIsFull ==
    ASSUME InterleaveInv, Answer
    PROVE  InterleaveInv'
<1>1. st' = [st EXCEPT !.answer = "ok"] /\ st.answer = "pending"
  BY DEF Answer
<1>2. /\ st \in InterleaveStates /\ st.request \in Requests /\ st.k \in Nat
      /\ st.merged \in Seq(AllItems)
  <2>1. st \in InterleaveStates
    BY DEF InterleaveInv
  <2> QED
    BY <2>1 DEF InterleaveStates
<1>3. st'.request = st.request /\ st'.k = st.k /\ st'.merged = st.merged
  BY <1>1, <1>2 DEF InterleaveStates
<1>4. ASSUME st.request.method # "OPTIMIZED"
      PROVE  Len(st.merged) = AtMost(st.k, Cardinality(Items(Lists)))
  <2>1. PICK I : I = Items(Lists)
    OBVIOUS
  <2>2. IsFiniteSet(I)
    BY <1>2, <2>1, ItemsFinite DEF Lists
  <2>3. PICK E : E = Elements(st.merged)
    OBVIOUS
  <2>4. E \in SUBSET I /\ Cardinality(E) = Len(st.merged) /\ Len(st.merged) <= st.k
        /\ Len(st.merged) \in Nat
    BY <1>2, <2>1, <2>3 DEF InterleaveInv, Distinct, Counted
  <2>5. Cardinality(E) <= Cardinality(I) /\ Cardinality(I) \in Nat
    BY <2>2, <2>4, FS_Subset, FS_CardinalityType
  <2>6. CASE ~Building
    <3>1. Len(st.merged) = st.k
      BY <1>1, <1>2, <2>4, <2>6 DEF Building, Answer
    <3> QED
      BY <1>2, <2>1, <2>4, <2>5, <3>1 DEF AtMost
  <2>7. CASE Building
    <3>1. Eligible = {}
      BY <1>4, <2>7 DEF Answer
    <3>2. I \subseteq E
      BY <2>1, <2>3, <3>1 DEF Eligible, Unseen, Teams, Items
    <3>3. I = E
      BY <2>4, <3>2
    <3> QED
      BY <1>2, <2>1, <2>4, <2>5, <3>3 DEF AtMost
  <2> QED
    BY <2>6, <2>7
<1>5. DraftIsFull'
  BY <1>3, <1>4 DEF DraftIsFull, Lists
<1> QED
  BY <1>1, <1>5, AnswerKeeps

LEMMA RefuseKeeps ==
    ASSUME InterleaveInv, Refuse
    PROVE  InterleaveInv'
<1>1. PICK out : out = Precheck(st.request)
  OBVIOUS
<1>2. st' = [st EXCEPT !.answer = out] /\ out # "ok"
  BY <1>1 DEF Refuse
<1>3. st \in InterleaveStates /\ st.request \in Requests
  <2>1. st \in InterleaveStates
    BY DEF InterleaveInv
  <2> QED
    BY <2>1 DEF InterleaveStates
<1>4. st'.answer = out
  BY <1>2, <1>3 DEF InterleaveStates
<1>5. DraftIsFull'
  BY <1>2, <1>4 DEF DraftIsFull
<1> QED
  BY <1>1, <1>2, <1>3, <1>5, AnswerKeeps

LEMMA InterleaveStarts ==
    ASSUME InterleaveInit
    PROVE  InterleaveInv
<1>1. PICK r \in Requests :
        st = [algo |-> "interleave", request |-> r, answer |-> "pending",
              k |-> AtMost(r.k, SumOf([a \in 1 .. Len(r.lists) |-> Len(r.lists[a])])),
              merged |-> <<>>, provenance |-> <<>>,
              count |-> [a \in 1 .. Len(r.lists) |-> 0]]
  BY DEF InterleaveInit
<1>2. PICK sizes : sizes = [a \in 1 .. Len(r.lists) |-> Len(r.lists[a])]
  OBVIOUS
<1>3. /\ Len(r.lists) \in 1 .. MaxLists /\ r.k \in Nat /\ MaxLists \in Nat /\ Len(r.lists) \in Nat
      /\ \A a \in 1 .. Len(r.lists) : Len(r.lists[a]) \in Nat
  BY RequestLists, InterleavingAssumption
<1>4. sizes \in Seq(Nat)
  BY <1>2, <1>3
<1>5. SumOf(sizes) \in Nat
  BY <1>4, SumOfNats
<1>6. PICK k : k = AtMost(r.k, SumOf(sizes))
  OBVIOUS
<1>7. k \in Nat
  BY <1>3, <1>5, <1>6 DEF AtMost
<1>8. PICK c : c = [a \in 1 .. Len(r.lists) |-> 0]
  OBVIOUS
<1>9. c \in [1 .. Len(r.lists) -> Nat] /\ \A a \in 1 .. Len(r.lists) : c[a] = 0
  BY <1>8
<1>10. c \in UNION {[1 .. n -> Nat] : n \in 1 .. MaxLists}
  BY <1>3, <1>9
<1>11. <<>> \in Seq(AllItems) /\ <<>> \in Seq(1 .. MaxLists)
  OBVIOUS
<1>12. st = [algo |-> "interleave", request |-> r, answer |-> "pending", k |-> k,
             merged |-> <<>>, provenance |-> <<>>, count |-> c]
  BY <1>1, <1>2, <1>6, <1>8
<1>13. /\ st \in InterleaveStates /\ st.request = r /\ st.answer = "pending" /\ st.k = k
       /\ st.merged = <<>> /\ st.provenance = <<>> /\ st.count = c
  BY <1>7, <1>10, <1>11, <1>12 DEF InterleaveStates
<1>14. Len(st.merged) = 0 /\ Len(st.provenance) = 0 /\ 1 .. Len(st.merged) = {}
  BY <1>13
<1>15. Teams = 1 .. Len(r.lists)
  BY <1>13 DEF Teams, Lists
<1>16. Counted
  <2>1. \A a : Credited(a) = {}
    BY <1>14 DEF Credited
  <2>2. Cardinality({}) = 0
    BY FS_EmptySet
  <2>3. \A a \in Teams : st.count[a] = Cardinality(Credited(a))
    BY <1>9, <1>13, <1>15, <2>1, <2>2
  <2>4. st.count \in [Teams -> Nat] /\ Len(st.merged) <= st.k
    BY <1>7, <1>9, <1>13, <1>14, <1>15
  <2> QED
    BY <1>14, <2>3, <2>4 DEF Counted
<1>17. Distinct
  <2>1. Elements(st.merged) = {}
    BY <1>14 DEF Elements
  <2> QED
    BY <1>14, <2>1, FS_EmptySet DEF Distinct
<1>18. CreditIsEarned
  BY <1>14 DEF CreditIsEarned
<1>19. Balanced
  <2>1. (st.k + 1) \div 2 >= 0
    BY <1>7, <1>13
  <2>2. \A a \in Teams : st.count[a] = 0
    BY <1>9, <1>13, <1>15
  <2> QED
    BY <2>1, <2>2 DEF Balanced
<1>20. DraftIsFull
  BY <1>13 DEF DraftIsFull
<1> QED
  BY <1>13, <1>16, <1>17, <1>18, <1>19, <1>20 DEF InterleaveInv

\* An interleaved list compares its algorithms fairly, whatever is drawn and
\* for any lists: no item twice, every credit earned, no team ahead by more
\* than one pick of a team that has items left (or by more than half of the
\* list), and no item left out of a draft that has room.
THEOREM InterleavingFair == InterleaveSpec => []InterleavingIsFair
<1>1. InterleaveInit => InterleaveInv
  BY InterleaveStarts
<1>2. InterleaveInv /\ [InterleaveNext]_st => InterleaveInv'
  <2> SUFFICES ASSUME InterleaveInv, [InterleaveNext]_st PROVE InterleaveInv'
    OBVIOUS
  <2>1. CASE Refuse
    BY <2>1, RefuseKeeps
  <2>2. CASE DraftStep
    BY <2>2, DraftKeeps
  <2>3. CASE OptimizedStep
    BY <2>3, OptimizedKeeps
  <2>4. CASE Answer
    BY <2>4, AnswerIsFull
  <2>5. CASE UNCHANGED st
    BY <2>5 DEF InterleaveInv, Counted, Distinct, CreditIsEarned, Balanced, DraftIsFull,
        Running, Lists, Teams, Credited, Eligible, Unseen
  <2> QED
    BY <2>1, <2>2, <2>3, <2>4, <2>5 DEF InterleaveNext
<1>3. InterleaveInv => InterleavingIsFair
  <2>1. ASSUME InterleaveInv PROVE DraftIsBalanced
    <3>1. \A a \in Teams : st.count[a] = Cardinality(Credited(a))
      BY <2>1 DEF InterleaveInv, Counted
    <3> QED
      BY <2>1, <3>1 DEF InterleaveInv, Balanced, DraftIsBalanced
  <2> QED
    BY <2>1 DEF InterleaveInv, InterleavingIsFair
<1> QED
  BY <1>1, <1>2, <1>3, PTL DEF InterleaveSpec

-----------------------------------------------------------------------------
(* Streams of configuration updates.  A receiver stands behind what it has *)
(* received; not lagged, the next update is still in the channel.          *)

StreamStates ==
    [status : {"closed", "open", "data_loss"}, from : Nat, next : Nat, got : Seq(Nat)]

BroadcastStates == [algo : {"broadcast"}, pushed : Nat, stream : [Streams -> StreamStates]]

InStep(x) ==
    /\ x.next = x.from + Len(x.got)
    /\ \A i \in 1 .. Len(x.got) : x.got[i] = x.from + i - 1

BroadcastInv == st \in BroadcastStates /\ \A s \in Streams : InStep(st.stream[s])

\* A step that gives one stream a state in step leaves every stream in step.
LEMMA OneStream ==
    ASSUME BroadcastInv, NEW s \in Streams, NEW x \in StreamStates, InStep(x),
           st' = [st EXCEPT !.stream[s] = x]
    PROVE  BroadcastInv'
<1>1. st \in BroadcastStates /\ st.stream \in [Streams -> StreamStates]
  BY DEF BroadcastInv, BroadcastStates
<1>2. PICK f : f = [st.stream EXCEPT ![s] = x]
  OBVIOUS
<1>3. f \in [Streams -> StreamStates] /\ f[s] = x /\ \A t \in Streams : t # s => f[t] = st.stream[t]
  BY <1>1, <1>2
<1>4. st' = [st EXCEPT !.stream = f]
  BY <1>1, <1>2 DEF BroadcastStates
<1>5. st' \in BroadcastStates /\ st'.stream = f
  BY <1>1, <1>3, <1>4 DEF BroadcastStates
<1>6. ASSUME NEW t \in Streams PROVE InStep(f[t])
  BY <1>3 DEF BroadcastInv
<1> QED
  BY <1>5, <1>6 DEF BroadcastInv

LEMMA ClosedInStep == Closed \in StreamStates /\ InStep(Closed)
<1>1. <<>> \in Seq(Nat) /\ Len(<<>>) = 0
  OBVIOUS
<1> QED
  BY <1>1 DEF Closed, StreamStates, InStep

LEMMA BroadcastStarts ==
    ASSUME BroadcastInit
    PROVE  BroadcastInv
<1>1. PICK f : f = [s \in Streams |-> Closed]
  OBVIOUS
<1>2. f \in [Streams -> StreamStates] /\ \A s \in Streams : f[s] = Closed
  BY <1>1, ClosedInStep
<1>3. st = [algo |-> "broadcast", pushed |-> 0, stream |-> f]
  BY <1>1 DEF BroadcastInit
<1>4. st \in BroadcastStates /\ st.stream = f
  BY <1>2, <1>3 DEF BroadcastStates
<1> QED
  BY <1>2, <1>4, ClosedInStep DEF BroadcastInv

LEMMA SubscribeKeeps ==
    ASSUME BroadcastInv, NEW s \in Streams, Subscribe(s)
    PROVE  BroadcastInv'
<1>1. PICK x : x = [status |-> "open", from |-> st.pushed + 1, next |-> st.pushed + 1, got |-> <<>>]
  OBVIOUS
<1>2. st.pushed + 1 \in Nat /\ <<>> \in Seq(Nat) /\ Len(<<>>) = 0
  BY DEF BroadcastInv, BroadcastStates
<1>3. x \in StreamStates /\ InStep(x)
  BY <1>1, <1>2 DEF StreamStates, InStep
<1>4. st' = [st EXCEPT !.stream[s] = x]
  BY <1>1 DEF Subscribe
<1> QED
  BY <1>3, <1>4, OneStream

LEMMA CapacityIsNat == Capacity \in Nat
BY ReadersAssumption

LEMMA DeliverKeeps ==
    ASSUME BroadcastInv, NEW s \in Streams, Deliver(s)
    PROVE  BroadcastInv'
<1>1. PICK x : x = st.stream[s]
  OBVIOUS
<1>2. x \in StreamStates /\ InStep(x) /\ st.pushed \in Nat /\ st \in BroadcastStates
  <2>1. st \in BroadcastStates /\ InStep(st.stream[s])
    BY DEF BroadcastInv
  <2>2. st.stream \in [Streams -> StreamStates] /\ st.pushed \in Nat
    BY <2>1 DEF BroadcastStates
  <2> QED
    BY <1>1, <2>1, <2>2
<1>3. CASE Lagged(s)
  <2>1. PICK y : y = [x EXCEPT !.status = "data_loss"]
    OBVIOUS
  <2>2. y \in StreamStates /\ y.from = x.from /\ y.next = x.next /\ y.got = x.got
    BY <1>2, <2>1 DEF StreamStates
  <2>3. InStep(y)
    BY <1>2, <2>2 DEF InStep
  <2>4. st' = [st EXCEPT !.stream[s].status = "data_loss"]
    BY <1>3 DEF Deliver
  <2>5. st' = [st EXCEPT !.stream[s] = y]
    BY <1>1, <1>2, <2>1, <2>4 DEF BroadcastStates
  <2> QED
    BY <2>2, <2>3, <2>5, OneStream
<1>4. CASE ~Lagged(s)
  <2>1. x.next \in Nat /\ x.from \in Nat /\ x.got \in Seq(Nat) /\ Len(x.got) \in Nat
    BY <1>2 DEF StreamStates
  <2>2. PICK n : n = x.next
    OBVIOUS
  <2>3. Oldest(s) = n
    <3>1. PICK edge : edge = st.pushed - Capacity
      OBVIOUS
    <3>2. n \in Nat /\ edge \in Int
      BY <1>2, <2>1, <2>2, <3>1, CapacityIsNat
    <3>3. ~(n <= edge)
      BY <1>1, <1>4, <2>2, <3>1 DEF Lagged
    <3>4. Oldest(s) = IF n > edge + 1 THEN n ELSE edge + 1
      BY <1>1, <2>2, <3>1 DEF Oldest, AtLeast
    <3> QED
      BY <3>2, <3>3, <3>4
  <2>4. PICK g : g = Append(x.got, n)
    OBVIOUS
  <2>5. PICK m \in Nat : m = n + 1
    BY <2>1, <2>2
  <2>6. PICK y : y = [x EXCEPT !.next = m, !.got = g]
    OBVIOUS
  <2>7. /\ g \in Seq(Nat) /\ Len(g) = Len(x.got) + 1
        /\ \A i \in 1 .. Len(x.got) : g[i] = x.got[i]
        /\ g[Len(x.got) + 1] = n
    BY <2>1, <2>2, <2>4
  <2>8. y \in StreamStates /\ y.from = x.from /\ y.next = m /\ y.got = g
    BY <1>2, <2>7, <2>5, <2>6 DEF StreamStates
  <2>9. n = x.from + Len(x.got) /\ \A i \in 1 .. Len(x.got) : x.got[i] = x.from + i - 1
    BY <1>2, <2>2 DEF InStep
  <2>10. ASSUME NEW i \in 1 .. Len(y.got) PROVE y.got[i] = y.from + i - 1
    <3>1. CASE i = Len(x.got) + 1
      BY <2>1, <2>7, <2>8, <2>9, <3>1
    <3>2. CASE i # Len(x.got) + 1
      <4>1. i \in 1 .. Len(x.got)
        BY <2>1, <2>7, <2>8, <3>2
      <4> QED
        BY <2>7, <2>8, <2>9, <4>1
    <3> QED
      BY <3>1, <3>2
  <2>11. InStep(y)
    BY <2>1, <2>7, <2>8, <2>9, <2>10, <2>5 DEF InStep
  <2>12. st' = [st EXCEPT !.stream[s].next = m, !.stream[s].got = g]
    BY <1>1, <1>4, <2>3, <2>4, <2>5 DEF Deliver
  <2>13. st' = [st EXCEPT !.stream[s] = y]
    BY <1>1, <1>2, <2>12, <2>6 DEF BroadcastStates
  <2> QED
    BY <2>8, <2>11, <2>13, OneStream
<1> QED
  BY <1>3, <1>4

LEMMA BroadcastKeeps ==
    ASSUME BroadcastInv, BroadcastNext
    PROVE  BroadcastInv'
<1>1. CASE push_config_update
  <2>1. st \in BroadcastStates /\ st.pushed + 1 \in Nat
    BY DEF BroadcastInv, BroadcastStates
  <2>2. PICK n \in Nat : n = st.pushed + 1
    BY <2>1
  <2>3. st' = [st EXCEPT !.pushed = n]
    BY <1>1, <2>2 DEF push_config_update
  <2>4. st' \in BroadcastStates /\ st'.stream = st.stream
    BY <2>1, <2>3 DEF BroadcastStates
  <2> QED
    BY <2>4 DEF BroadcastInv
<1>2. ASSUME NEW s \in Streams, Subscribe(s) \/ Deliver(s) PROVE BroadcastInv'
  BY <1>2, SubscribeKeeps, DeliverKeeps
<1>3. ASSUME NEW s \in Streams, Disconnect(s) PROVE BroadcastInv'
  BY <1>3, ClosedInStep, OneStream DEF Disconnect
<1> QED
  BY <1>1, <1>2, <1>3 DEF BroadcastNext

LEMMA BroadcastSeesEverything ==
    ASSUME BroadcastInv
    PROVE  NoSilentGap
<1> SUFFICES ASSUME NEW s \in Streams
             PROVE  st.stream[s].got = [i \in 1 .. Len(st.stream[s].got) |-> st.stream[s].from + i - 1]
  BY DEF NoSilentGap
<1>1. st.stream[s] \in StreamStates /\ InStep(st.stream[s])
  BY DEF BroadcastInv, BroadcastStates
<1>2. PICK g : g = st.stream[s].got
  OBVIOUS
<1>3. g \in Seq(Nat)
  BY <1>1, <1>2 DEF StreamStates
<1>4. g = [i \in 1 .. Len(g) |-> g[i]]
  BY <1>3
<1>5. \A i \in 1 .. Len(g) : g[i] = st.stream[s].from + i - 1
  BY <1>1, <1>2 DEF InStep
<1> QED
  BY <1>2, <1>4, <1>5

-----------------------------------------------------------------------------
(* The smallest members of a set, by the number of members below them.     *)

Below(S, x) == {y \in S : y < x}
Rank(S, x) == Cardinality(Below(S, x))

LEMMA RankIsNat ==
    ASSUME NEW S, S \subseteq Nat, IsFiniteSet(S), NEW x \in S
    PROVE  /\ IsFiniteSet(Below(S, x)) /\ Rank(S, x) \in Nat /\ Rank(S, x) < Cardinality(S)
           /\ Cardinality(S) \in Nat
           /\ IsFiniteSet(Below(S, x) \cup {x})
           /\ Cardinality(Below(S, x) \cup {x}) = Rank(S, x) + 1
<1>1. PICK B : B = Below(S, x)
  OBVIOUS
<1>2. B \in SUBSET S /\ x \notin B
  BY <1>1 DEF Below
<1>3. IsFiniteSet(B)
  BY <1>2, FS_Subset
<1>4. Cardinality(B) \in Nat /\ Cardinality(S) \in Nat
  BY <1>3, FS_CardinalityType
<1>5. IsFiniteSet(B \cup {x}) /\ Cardinality(B \cup {x}) = Cardinality(B) + 1
  BY <1>2, <1>3, FS_AddElement
<1>6. PICK C : C = B \cup {x}
  OBVIOUS
<1>7. C \in SUBSET S
  BY <1>2, <1>6
<1>8. Cardinality(C) <= Cardinality(S)
  BY <1>7, FS_Subset
<1>9. Cardinality(B) + 1 <= Cardinality(S)
  BY <1>5, <1>6, <1>8
<1>10. Cardinality(B) < Cardinality(S)
  BY <1>4, <1>9
<1> QED
  BY <1>1, <1>3, <1>4, <1>5, <1>10 DEF Rank

LEMMA RankIncreases ==
    ASSUME NEW S, S \subseteq Nat, IsFiniteSet(S), NEW x \in S, NEW y \in S, x < y
    PROVE  Rank(S, x) < Rank(S, y)
<1>1. PICK C : C = Below(S, x) \cup {x}
  OBVIOUS
<1>2. PICK D : D = Below(S, y)
  OBVIOUS
<1>3. C \in SUBSET D
  <2>1. ASSUME NEW z \in C PROVE z \in S /\ z < y
    <3>1. z \in S /\ (z < x \/ z = x)
      BY <1>1 DEF Below
    <3>2. z \in Nat /\ x \in Nat /\ y \in Nat
      BY <3>1
    <3> QED
      BY <3>1, <3>2
  <2> QED
    BY <1>2, <2>1 DEF Below
<1>4. IsFiniteSet(D) /\ Rank(S, y) = Cardinality(D) /\ Rank(S, y) \in Nat
  BY <1>2, RankIsNat DEF Rank
<1>5. Cardinality(C) <= Cardinality(D)
  BY <1>3, <1>4, FS_Subset
<1>6. Cardinality(C) = Rank(S, x) + 1 /\ Rank(S, x) \in Nat
  BY <1>1, RankIsNat
<1> QED
  BY <1>4, <1>5, <1>6

\* Rank orders the set.
LEMMA RankOrders ==
    ASSUME NEW S, S \subseteq Nat, IsFiniteSet(S), NEW x \in S, NEW y \in S
    PROVE  /\ Rank(S, x) < Rank(S, y) => x < y
           /\ Rank(S, x) = Rank(S, y) => x = y
           /\ x <= y => Rank(S, x) <= Rank(S, y)
<1>1. x \in Nat /\ y \in Nat /\ Rank(S, x) \in Nat /\ Rank(S, y) \in Nat
  BY RankIsNat
<1>2. x < y => Rank(S, x) < Rank(S, y)
  BY RankIncreases
<1>3. y < x => Rank(S, y) < Rank(S, x)
  BY RankIncreases
<1>4. x < y \/ x = y \/ y < x
  BY <1>1
<1>5. x = y => Rank(S, x) = Rank(S, y)
  OBVIOUS
<1>6. PICK a \in Nat : a = Rank(S, x)
  BY <1>1
<1>7. PICK b \in Nat : b = Rank(S, y)
  BY <1>1
<1>8. (x < y => a < b) /\ (y < x => b < a) /\ (x = y => a = b)
  BY <1>2, <1>3, <1>5, <1>6, <1>7
<1>9. (a < b => x < y) /\ (a = b => x = y) /\ (x <= y => a <= b)
  BY <1>1, <1>4, <1>8
<1> QED
  BY <1>6, <1>7, <1>9

LEMMA RankExists ==
    ASSUME NEW S, S \subseteq Nat, IsFiniteSet(S)
    PROVE  \A k \in Nat : k < Cardinality(S) => \E x \in S : Rank(S, x) = k
<1> DEFINE T == {k \in Nat : k < Cardinality(S) => \E x \in S : Rank(S, x) = k}
<1>0. Cardinality(S) \in Nat
  BY FS_CardinalityType
<1>1. 0 \in T
  <2> SUFFICES ASSUME 0 < Cardinality(S) PROVE \E x \in S : Rank(S, x) = 0
    OBVIOUS
  <2>1. S # {}
    BY FS_EmptySet
  <2>2. PICK m \in S : \A x \in S : m <= x
    BY <2>1, LeastElement
  <2>3. \A x \in S : ~(x < m)
    BY <2>2
  <2>4. Below(S, m) = {}
    BY <2>3 DEF Below
  <2>5. Rank(S, m) = 0
    BY <2>4, FS_EmptySet DEF Rank
  <2> QED
    BY <2>5
<1>2. ASSUME NEW k \in Nat, k \in T PROVE k + 1 \in T
  <2> SUFFICES ASSUME k + 1 < Cardinality(S) PROVE \E m \in S : Rank(S, m) = k + 1
    OBVIOUS
  <2>1. k < Cardinality(S)
    BY <1>0
  <2>2. PICK x \in S : Rank(S, x) = k
    BY <1>2, <2>1
  <2>3. PICK B : B = Below(S, x) \cup {x}
    OBVIOUS
  <2>4. Cardinality(B) = k + 1
    BY <2>2, <2>3, RankIsNat
  <2>5. B \subseteq S /\ B # S
    <3>1. B \subseteq S
      BY <2>3 DEF Below
    <3>2. B # S
      BY <1>0, <2>4
    <3> QED
      BY <3>1, <3>2
  <2>6. S \ B \subseteq Nat /\ S \ B # {}
    BY <2>5
  <2>7. PICK m \in S \ B : \A y \in S \ B : m <= y
    BY <2>6, LeastElement
  <2>8. Below(S, m) = B
    <3>1. ASSUME NEW y \in Below(S, m) PROVE y \in B
      BY <2>7, <3>1 DEF Below
    <3>2. ASSUME NEW y \in B PROVE y \in Below(S, m)
      <4>1. y \in S /\ y <= x
        BY <2>3 DEF Below
      <4>2. x < m
        <5>1. ~(m < x) /\ m # x
          BY <2>3, <2>7 DEF Below
        <5> QED
          BY <2>7, <5>1
      <4>3. x \in Nat /\ m \in Nat /\ y \in Nat
        BY <2>7, <4>1
      <4>4. y < m
        BY <4>1, <4>2, <4>3
      <4> QED
        BY <4>1, <4>4 DEF Below
    <3> QED
      BY <3>1, <3>2
  <2>9. m \in S /\ Rank(S, m) = k + 1
    BY <2>4, <2>7, <2>8 DEF Rank
  <2> QED
    BY <2>9
<1>3. \A k \in Nat : k \in T
  <2> HIDE DEF T
  <2> QED BY <1>1, <1>2, Induction
<1> QED
  BY <1>3

\* Smallest(S, n) is increasing, skips nothing, and is all of S when it fits.
IsSmallest(S, n, w) ==
    /\ w \in Seq(S) /\ Len(w) = AtMost(n, Cardinality(S)) /\ Len(w) \in Nat
    /\ \A i \in 1 .. Len(w) : w[i] \in S
    /\ \A i, j \in 1 .. Len(w) : i < j => w[i] < w[j]
    /\ \A k \in 1 .. Len(w) : \A y \in S : y <= w[k] => \E i \in 1 .. k : w[i] = y
    /\ Cardinality(S) <= n => \A y \in S : \E i \in 1 .. Len(w) : w[i] = y

LEMMA SmallestIsExact ==
    ASSUME NEW S, S \subseteq Nat, IsFiniteSet(S), NEW n \in Nat
    PROVE  IsSmallest(S, n, Smallest(S, n))
<1>0. PICK w : w = Smallest(S, n)
  OBVIOUS
<1>1. Cardinality(S) \in Nat
  BY FS_CardinalityType
<1>2. PICK N : N = AtMost(n, Cardinality(S))
  OBVIOUS
<1>3. N \in Nat /\ N <= Cardinality(S) /\ (Cardinality(S) <= n => N = Cardinality(S))
  BY <1>1, <1>2 DEF AtMost
<1>4. w = [k \in 1 .. N |-> CHOOSE x \in S : Rank(S, x) = k - 1]
  BY <1>0, <1>2 DEF Smallest, Rank, Below
<1>5. ASSUME NEW k \in 1 .. N PROVE w[k] \in S /\ Rank(S, w[k]) = k - 1
  <2>1. k - 1 \in Nat /\ k - 1 < Cardinality(S)
    BY <1>1, <1>3
  <2>2. \E x \in S : Rank(S, x) = k - 1
    BY <2>1, RankExists
  <2>3. w[k] = CHOOSE x \in S : Rank(S, x) = k - 1
    BY <1>4
  <2> QED
    BY <2>2, <2>3
<1>6. w \in [1 .. N -> S]
  <2>1. w = [k \in 1 .. N |-> w[k]]
    BY <1>4
  <2> QED
    BY <1>5, <2>1
<1>7. w \in Seq(S) /\ Len(w) = N
  BY <1>3, <1>6
<1>8. ASSUME NEW i \in 1 .. N, NEW j \in 1 .. N, i < j PROVE w[i] < w[j]
  <2>1. Rank(S, w[i]) < Rank(S, w[j])
    BY <1>3, <1>5, <1>8
  <2> QED
    BY <1>5, <2>1, RankOrders
<1>9. ASSUME NEW y \in S, NEW k \in 1 .. N, Rank(S, y) < k PROVE \E i \in 1 .. k : w[i] = y
  <2>1. PICK r \in Nat : r = Rank(S, y)
    BY RankIsNat
  <2>2. PICK i : i = r + 1
    OBVIOUS
  <2>3. i \in 1 .. k /\ i \in 1 .. N /\ i - 1 = r
    BY <1>3, <1>9, <2>1, <2>2
  <2>4. w[i] \in S /\ Rank(S, w[i]) = Rank(S, y)
    BY <1>5, <2>1, <2>3
  <2>5. w[i] = y
    BY <2>4, RankOrders
  <2> QED
    BY <2>3, <2>5
<1>10. ASSUME NEW k \in 1 .. N, NEW y \in S, y <= w[k] PROVE \E i \in 1 .. k : w[i] = y
  <2>1. w[k] \in S /\ Rank(S, w[k]) = k - 1
    BY <1>5
  <2>2. Rank(S, y) <= k - 1 /\ Rank(S, y) \in Nat
    <3>1. Rank(S, y) <= Rank(S, w[k])
      BY <1>10, <2>1, RankOrders
    <3> QED
      BY <2>1, <3>1, RankIsNat
  <2>3. Rank(S, y) < k
    BY <1>3, <2>2
  <2> QED
    BY <1>9, <2>3
<1>11. ASSUME Cardinality(S) <= n, NEW y \in S PROVE \E i \in 1 .. N : w[i] = y
  <2>1. N = Cardinality(S)
    BY <1>3, <1>11
  <2>2. Rank(S, y) < N /\ Rank(S, y) \in Nat
    BY <2>1, RankIsNat
  <2>3. N \in 1 .. N
    BY <1>3, <2>2
  <2> QED
    BY <1>9, <2>2, <2>3
<1> QED
  BY <1>0, <1>2, <1>3, <1>5, <1>7, <1>8, <1>10, <1>11 DEF IsSmallest

-----------------------------------------------------------------------------
(* Pages.  What was shown lies at or before the token, and so does nothing *)
(* that matched all along and was not shown.                               *)

RowStates == ListedStates \cup {""}

ListingStates ==
    [algo : {"listing"}, of : {"experiments", "metrics", "flags"},
     table : [ListedIds -> RowStates], filter : RowStates, size : Int,
     token : Nat, pages : Seq(Nat), done : BOOLEAN, steady : SUBSET ListedIds]

Shown(i) == \E k \in 1 .. Len(st.pages) : st.pages[k] = i

ListingInv ==
    /\ st \in ListingStates
    /\ \A i, j \in 1 .. Len(st.pages) : i < j => st.pages[i] < st.pages[j]
    /\ \A i \in st.steady : Selected(st.filter, i)
    /\ ~st.done => \A k \in 1 .. Len(st.pages) : st.pages[k] <= st.token
    /\ \A i \in st.steady : st.done \/ i <= st.token => Shown(i)

\* Increasing lists, the second beyond the first, are increasing together.
LEMMA JoinIncreases ==
    ASSUME NEW s \in Seq(Nat), NEW t \in Seq(Nat), NEW top \in Nat,
           \A i, j \in 1 .. Len(s) : i < j => s[i] < s[j],
           \A i, j \in 1 .. Len(t) : i < j => t[i] < t[j],
           \A i \in 1 .. Len(s) : s[i] <= top,
           \A i \in 1 .. Len(t) : t[i] > top
    PROVE  /\ s \o t \in Seq(Nat) /\ Len(s \o t) = Len(s) + Len(t)
           /\ \A i, j \in 1 .. Len(s \o t) : i < j => (s \o t)[i] < (s \o t)[j]
           /\ \A i \in 1 .. Len(s) : i \in 1 .. Len(s \o t) /\ (s \o t)[i] = s[i]
           /\ \A i \in 1 .. Len(t) : Len(s) + i \in 1 .. Len(s \o t) /\ (s \o t)[Len(s) + i] = t[i]
           /\ \A i \in 1 .. Len(s \o t) : (\E k \in 1 .. Len(s) : (s \o t)[i] = s[k])
                                          \/ \E k \in 1 .. Len(t) : (s \o t)[i] = t[k]
<1>1. PICK u : u = s \o t
  OBVIOUS
<1>2. PICK m \in Nat : m = Len(s)
  OBVIOUS
<1>3. PICK n \in Nat : n = Len(t)
  OBVIOUS
<1>4. u \in Seq(Nat) /\ Len(u) = m + n
  BY <1>1, <1>2, <1>3
<1>5. \A i \in 1 .. m : u[i] = s[i]
  BY <1>1, <1>2
<1>6. \A i \in 1 .. n : u[m + i] = t[i]
  BY <1>1, <1>2, <1>3
<1>7. ASSUME NEW i \in 1 .. m + n PROVE i \in 1 .. m \/ (i - m \in 1 .. n /\ u[i] = t[i - m])
  <2>1. CASE i > m
    <3>1. i - m \in 1 .. n /\ m + (i - m) = i
      BY <2>1
    <3> QED
      BY <1>6, <3>1
  <2> QED
    BY <2>1
<1>8. \A i \in 1 .. m : s[i] \in Nat
  BY <1>2
<1>9. \A i \in 1 .. n : t[i] \in Nat
  BY <1>3
<1>10. ASSUME NEW i \in 1 .. m + n, NEW j \in 1 .. m + n, i < j PROVE u[i] < u[j]
  <2>1. CASE i \in 1 .. m /\ j \in 1 .. m
    BY <1>2, <1>5, <1>10, <2>1
  <2>2. CASE i \in 1 .. m /\ j - m \in 1 .. n /\ u[j] = t[j - m]
    <3>1. s[i] <= top /\ t[j - m] > top /\ s[i] \in Nat /\ t[j - m] \in Nat
      BY <1>2, <1>3, <1>8, <1>9, <2>2
    <3>2. s[i] < t[j - m]
      BY <3>1
    <3> QED
      BY <1>5, <2>2, <3>2
  <2>3. CASE i - m \in 1 .. n /\ u[i] = t[i - m] /\ j - m \in 1 .. n /\ u[j] = t[j - m]
    <3>1. i - m < j - m
      BY <1>10
    <3> QED
      BY <1>3, <2>3, <3>1
  <2>4. CASE i - m \in 1 .. n /\ j \in 1 .. m
    BY <1>10, <2>4
  <2> QED
    BY <1>7, <2>1, <2>2, <2>3, <2>4
<1>11. \A i \in 1 .. m : i \in 1 .. m + n
  OBVIOUS
<1>12. \A i \in 1 .. n : m + i \in 1 .. m + n
  OBVIOUS
<1> QED
  BY <1>1, <1>2, <1>3, <1>4, <1>5, <1>6, <1>7, <1>10, <1>11, <1>12

\* A page shows what lies between two tokens, and all of it.
LEMMA PageKeeps ==
    ASSUME ListingInv, ~st.done, NEW n \in Nat,
           n # 0 \/ Cardinality(ListedIds) <= n, Page(After(n), n)
    PROVE  ListingInv'
<1>1. /\ st \in ListingStates /\ st.pages \in Seq(Nat) /\ st.token \in Nat
      /\ st.steady \subseteq ListedIds
  <2>1. st \in ListingStates
    BY DEF ListingInv
  <2> QED
    BY <2>1 DEF ListingStates
<1>2. PICK S : S = {i \in ListedIds : Selected(st.filter, i) /\ i > st.token}
  OBVIOUS
<1>3. ListedIds \subseteq Nat /\ IsFiniteSet(ListedIds)
  BY ReadersAssumption
<1>4. S \subseteq Nat /\ IsFiniteSet(S) /\ Cardinality(S) \in Nat
      /\ Cardinality(S) <= Cardinality(ListedIds) /\ Cardinality(ListedIds) \in Nat
  <2>1. S \in SUBSET ListedIds
    BY <1>2
  <2>2. IsFiniteSet(S) /\ Cardinality(S) <= Cardinality(ListedIds)
    BY <1>3, <2>1, FS_Subset
  <2> QED
    BY <1>3, <2>1, <2>2, FS_CardinalityType
<1>5. PICK w : w = Smallest(S, n + 1)
  OBVIOUS
<1>6. /\ w \in Seq(S) /\ Len(w) = AtMost(n + 1, Cardinality(S)) /\ Len(w) \in Nat
      /\ \A i \in 1 .. Len(w) : w[i] \in S
      /\ \A i, j \in 1 .. Len(w) : i < j => w[i] < w[j]
      /\ \A k \in 1 .. Len(w) : \A y \in S : y <= w[k] => \E i \in 1 .. k : w[i] = y
      /\ Cardinality(S) <= n + 1 => \A y \in S : \E i \in 1 .. Len(w) : w[i] = y
  <2>1. PICK m \in Nat : m = n + 1
    OBVIOUS
  <2>2. IsSmallest(S, m, Smallest(S, m))
    BY <1>4, <2>1, SmallestIsExact
  <2>3. IsSmallest(S, n + 1, w)
    BY <1>5, <2>1, <2>2
  <2> QED
    BY <2>3 DEF IsSmallest
<1>7. PICK c : c = AtMost(n, Len(w))
  OBVIOUS
<1>8. c \in Nat /\ c <= Len(w) /\ (Len(w) > n => c = n) /\ (~(Len(w) > n) => c = Len(w))
  BY <1>6, <1>7 DEF AtMost
<1>9. PICK t : t = SubSeq(w, 1, c)
  OBVIOUS
<1>10. t \in Seq(Nat) /\ Len(t) = c /\ \A i \in 1 .. c : t[i] = w[i]
  <2>1. w \in Seq(Nat)
    <3>1. w = [i \in 1 .. Len(w) |-> w[i]]
      BY <1>6
    <3>2. \A i \in 1 .. Len(w) : w[i] \in Nat
      BY <1>4, <1>6
    <3>3. w \in [1 .. Len(w) -> Nat]
      BY <3>1, <3>2
    <3> QED
      BY <1>6, <3>3
  <2>2. 1 .. c \subseteq 1 .. Len(w)
    BY <1>6, <1>8
  <2> QED
    BY <1>6, <1>8, <1>9, <2>1, <2>2
<1>11. PICK u : u = st.pages \o t
  OBVIOUS
<1>12. \A i \in 1 .. c : t[i] \in S /\ t[i] > st.token
  <2>1. 1 .. c \subseteq 1 .. Len(w)
    BY <1>6, <1>8
  <2> QED
    BY <1>2, <1>6, <1>10, <2>1
<1>13. \A i, j \in 1 .. c : i < j => t[i] < t[j]
  <2>1. 1 .. c \subseteq 1 .. Len(w)
    BY <1>6, <1>8
  <2> QED
    BY <1>6, <1>10, <2>1
<1>14. /\ u \in Seq(Nat) /\ Len(u) = Len(st.pages) + c
       /\ \A i, j \in 1 .. Len(u) : i < j => u[i] < u[j]
       /\ \A i \in 1 .. Len(st.pages) : i \in 1 .. Len(u) /\ u[i] = st.pages[i]
       /\ \A i \in 1 .. c : Len(st.pages) + i \in 1 .. Len(u) /\ u[Len(st.pages) + i] = t[i]
       /\ \A i \in 1 .. Len(u) : (\E k \in 1 .. Len(st.pages) : u[i] = st.pages[k])
                                 \/ \E k \in 1 .. c : u[i] = t[k]
  <2>1. \A i, j \in 1 .. Len(st.pages) : i < j => st.pages[i] < st.pages[j]
    BY DEF ListingInv
  <2>2. \A i \in 1 .. Len(st.pages) : st.pages[i] <= st.token
    BY DEF ListingInv
  <2>3. PICK p : p = st.pages
    OBVIOUS
  <2>4. PICK top \in Nat : top = st.token
    BY <1>1
  <2>5. /\ p \in Seq(Nat) /\ \A i, j \in 1 .. Len(p) : i < j => p[i] < p[j]
        /\ \A i \in 1 .. Len(p) : p[i] <= top
    BY <1>1, <2>1, <2>2, <2>3, <2>4
  <2>6. /\ \A i, j \in 1 .. Len(t) : i < j => t[i] < t[j]
        /\ \A i \in 1 .. Len(t) : t[i] > top
    BY <1>10, <1>12, <1>13, <2>4
  <2>7. /\ p \o t \in Seq(Nat) /\ Len(p \o t) = Len(p) + Len(t)
        /\ \A i, j \in 1 .. Len(p \o t) : i < j => (p \o t)[i] < (p \o t)[j]
        /\ \A i \in 1 .. Len(p) : i \in 1 .. Len(p \o t) /\ (p \o t)[i] = p[i]
        /\ \A i \in 1 .. Len(t) : Len(p) + i \in 1 .. Len(p \o t) /\ (p \o t)[Len(p) + i] = t[i]
        /\ \A i \in 1 .. Len(p \o t) : (\E k \in 1 .. Len(p) : (p \o t)[i] = p[k])
                                       \/ \E k \in 1 .. Len(t) : (p \o t)[i] = t[k]
    BY <1>10, <2>5, <2>6, JoinIncreases
  <2>8. u = p \o t /\ Len(t) = c
    BY <1>10, <1>11, <2>3
  <2> QED
    BY <2>3, <2>7, <2>8, Zenon
<1>15. PICK more \in BOOLEAN : more <=> Len(w) > n
  OBVIOUS
<1>16. more \in BOOLEAN /\ (more <=> Len(w) > n)
  BY <1>15
<1>17. more => n # 0 /\ n \in 1 .. Len(w)
  BY <1>4, <1>6, <1>16 DEF AtMost
<1>18. PICK token : token = IF more THEN w[n] ELSE st.token
  OBVIOUS
<1>19. token \in Nat /\ (more => token = w[n] /\ token = t[n] /\ w[n] \in S /\ w[n] > st.token)
       /\ st.token <= token
  <2>1. CASE more
    <3>1. w[n] \in S /\ n \in 1 .. Len(w) /\ n \in 1 .. c
      BY <1>6, <1>8, <1>16, <1>17, <2>1
    <3>2. t[n] = w[n] /\ t[n] > st.token
      BY <1>10, <1>12, <3>1
    <3>3. w[n] \in Nat
      BY <1>4, <3>1
    <3> QED
      BY <1>1, <1>18, <2>1, <3>1, <3>2, <3>3
  <2>2. CASE ~more
    BY <1>1, <1>18, <2>2
  <2> QED
    BY <1>16, <2>1, <2>2
<1>20. PICK done \in BOOLEAN : done = ~more
  BY <1>16
<1>21. st' = [st EXCEPT !.pages = u, !.done = done, !.token = token]
  <2>1. After(n) = w
    BY <1>2, <1>5 DEF After
  <2> QED
    BY <1>1, <1>7, <1>9, <1>11, <1>15, <1>18, <1>20, <2>1 DEF Page, Cursor, ListingStates
<1>22. /\ st' \in ListingStates /\ st'.pages = u /\ st'.done = done /\ st'.token = token
       /\ st'.table = st.table /\ st'.filter = st.filter /\ st'.steady = st.steady
  BY <1>1, <1>14, <1>19, <1>21 DEF ListingStates
<1>23. \A i, j \in 1 .. Len(st'.pages) : i < j => st'.pages[i] < st'.pages[j]
  BY <1>14, <1>22
<1>24. \A i \in st'.steady : Selected(st.filter, i) /\ Selected(st.filter, i)'
  BY <1>22 DEF ListingInv, Selected
<1>25. ASSUME ~done, NEW k \in 1 .. Len(u) PROVE u[k] <= token
  <2>1. more
    BY <1>16, <1>20, <1>25
  <2>2. ASSUME NEW j \in 1 .. Len(st.pages), u[k] = st.pages[j] PROVE u[k] <= token
    <3>1. st.pages[j] <= st.token /\ st.pages[j] \in Nat
      BY <1>1 DEF ListingInv
    <3> QED
      BY <1>1, <1>19, <2>2, <3>1
  <2>3. ASSUME NEW j \in 1 .. c, u[k] = t[j] PROVE u[k] <= token
    <3>1. c = n /\ n \in Nat /\ n \in 1 .. c
      BY <1>8, <1>16, <1>17, <2>1
    <3>2. t[j] \in Nat /\ t[n] \in Nat /\ (j < n => t[j] < t[n])
      BY <1>4, <1>12, <1>13, <3>1
    <3>3. j < n \/ j = n
      BY <3>1
    <3> QED
      BY <1>19, <2>1, <2>3, <3>2, <3>3
  <2> QED
    BY <1>14, <2>2, <2>3
<1>26. ASSUME NEW i \in st.steady, done \/ i <= token
       PROVE  \E k \in 1 .. Len(u) : u[k] = i
  <2>1. i \in ListedIds /\ i \in Nat /\ Selected(st.filter, i)
    BY <1>1, <1>3 DEF ListingInv
  <2>2. CASE i <= st.token
    <3>1. PICK k \in 1 .. Len(st.pages) : st.pages[k] = i
      BY <2>2 DEF ListingInv, Shown
    <3> QED
      BY <1>14, <3>1
  <2>3. CASE ~(i <= st.token)
    <3>1. i \in S
      BY <1>1, <1>2, <2>1, <2>3
    <3>2. \E k \in 1 .. c : w[k] = i
      <4>1. CASE more
        <5>1. i <= w[n] /\ n \in 1 .. Len(w) /\ c = n
          BY <1>8, <1>16, <1>17, <1>19, <1>20, <1>26, <4>1
        <5> QED
          BY <1>6, <3>1, <5>1
      <4>2. CASE ~more
        <5>1. Cardinality(S) <= n + 1 /\ c = Len(w)
          BY <1>4, <1>6, <1>8, <1>16, <4>2 DEF AtMost
        <5> QED
          BY <1>6, <3>1, <5>1
      <4> QED
        BY <1>16, <4>1, <4>2
    <3>3. PICK k \in 1 .. c : w[k] = i
      BY <3>2
    <3>4. t[k] = i
      BY <1>10, <3>3
    <3> QED
      BY <1>14, <3>4
  <2> QED
    BY <2>2, <2>3
<1>27. \A i \in st'.steady : st'.done \/ i <= st'.token => Shown(i)'
  BY <1>22, <1>26 DEF Shown
<1> QED
  BY <1>22, <1>23, <1>24, <1>25, <1>27 DEF ListingInv

LEMMA ListingStarts ==
    ASSUME ListingInit
    PROVE  ListingInv
<1>1. PICK of, f, n, t :
        /\ of \in {"experiments", "metrics", "flags"} /\ f \in RowStates /\ n \in PageSizes
        /\ t \in [ListedIds -> RowStates]
        /\ st = [algo |-> "listing", of |-> of, table |-> t, filter |-> f, size |-> n, token |-> 0,
                 pages |-> <<>>, done |-> FALSE,
                 steady |-> Matching(t, f)]
  BY DEF ListingInit, RowStates
<1>2. PICK kept : kept = Matching(t, f)
  OBVIOUS
<1>3. kept \subseteq ListedIds /\ n \in Int /\ <<>> \in Seq(Nat) /\ ListedIds \subseteq Nat \ {0}
  <2>1. kept \subseteq ListedIds
    BY <1>2, Zenon DEF Matching
  <2>2. <<>> \in Seq(Nat)
    OBVIOUS
  <2>3. PageSizes \subseteq Int /\ ListedIds \subseteq Nat \ {0}
    BY ReadersAssumption
  <2> QED
    BY <1>1, <2>1, <2>2, <2>3
<1>4. st = [algo |-> "listing", of |-> of, table |-> t, filter |-> f, size |-> n, token |-> 0,
            pages |-> <<>>, done |-> FALSE, steady |-> kept]
  BY <1>1, <1>2
<1>5. of \in {"experiments", "metrics", "flags"} /\ f \in RowStates /\ t \in [ListedIds -> RowStates]
  BY <1>1
<1>6. /\ st \in ListingStates /\ st.table = t /\ st.filter = f /\ st.token = 0 /\ st.pages = <<>>
      /\ st.done = FALSE /\ st.steady = kept
  BY <1>3, <1>4, <1>5 DEF ListingStates
<1>7. 1 .. Len(st.pages) = {}
  <2>1. Len(<<>>) = 0 /\ 1 .. 0 = {}
    OBVIOUS
  <2> QED
    BY <1>6, <2>1, Zenon
<1>8. \A i \in st.steady : Selected(st.filter, i)
  BY <1>2, <1>6 DEF Selected, Matching
<1>9. \A i \in st.steady : ~(st.done \/ i <= st.token)
  <2>1. ASSUME NEW i \in kept PROVE ~(i <= 0)
    <3>1. i \in Nat \ {0}
      BY <1>3
    <3> QED
      BY <3>1
  <2> QED
    BY <1>6, <2>1, Zenon
<1> QED
  BY <1>6, <1>7, <1>8, <1>9 DEF ListingInv

\* Whoever writes a row takes it out of the rows that matched all along, or
\* leaves it matching.
LEMMA OthersKeep ==
    ASSUME ListingInv, NEW i \in ListedIds, NEW s \in ListedStates, OthersWrite(i, s)
    PROVE  ListingInv'
<1>1. /\ st \in ListingStates /\ st.table \in [ListedIds -> RowStates]
      /\ st.steady \subseteq ListedIds
  <2>1. st \in ListingStates
    BY DEF ListingInv
  <2> QED
    BY <2>1 DEF ListingStates
<1>2. PICK t : t = [st.table EXCEPT ![i] = s]
  OBVIOUS
<1>3. /\ t \in [ListedIds -> RowStates] /\ t[i] = s
      /\ \A j \in ListedIds : j # i => t[j] = st.table[j]
  BY <1>1, <1>2 DEF RowStates
<1>4. PICK kept : kept = IF st.filter \in {"", s} THEN st.steady ELSE st.steady \ {i}
  OBVIOUS
<1>5. kept \subseteq st.steady /\ (i \in kept => st.filter \in {"", s})
  BY <1>4
<1>6. st' = [st EXCEPT !.table = t, !.steady = kept]
  BY <1>1, <1>2, <1>4 DEF OthersWrite, ListingStates
<1>7. /\ st' \in ListingStates /\ st'.table = t /\ st'.filter = st.filter /\ st'.token = st.token
      /\ st'.pages = st.pages /\ st'.done = st.done /\ st'.steady = kept
  BY <1>1, <1>3, <1>5, <1>6 DEF ListingStates
<1>8. s # ""
  BY ReadersAssumption
<1>9. ASSUME NEW j \in kept PROVE t[j] # "" /\ (st.filter = "" \/ t[j] = st.filter)
  <2>1. CASE j = i
    BY <1>3, <1>5, <1>8, <2>1
  <2>2. CASE j # i
    <3>1. j \in ListedIds /\ Selected(st.filter, j)
      BY <1>1, <1>5 DEF ListingInv
    <3> QED
      BY <1>3, <2>2, <3>1 DEF Selected
  <2> QED
    BY <2>1, <2>2
<1>10. \A j \in st'.steady : Selected(st.filter, j)'
  BY <1>7, <1>9 DEF Selected
<1>11. \A j \in st'.steady : st'.done \/ j <= st'.token => Shown(j)'
  BY <1>5, <1>7 DEF ListingInv, Shown
<1>12. \A k, j \in 1 .. Len(st'.pages) : k < j => st'.pages[k] < st'.pages[j]
  BY <1>7 DEF ListingInv
<1>13. ~st'.done => \A k \in 1 .. Len(st'.pages) : st'.pages[k] <= st'.token
  BY <1>7 DEF ListingInv
<1> QED
  BY <1>7, <1>10, <1>11, <1>12, <1>13 DEF ListingInv

LEMMA ListingKeeps ==
    ASSUME ListingInv, ListingNext
    PROVE  ListingInv'
<1>1. ASSUME ~st.done, Page(After(PageSize(st.size)), PageSize(st.size)) PROVE ListingInv'
  <2>1. PICK n : n = PageSize(st.size)
    OBVIOUS
  <2>2. st.size \in Int /\ LargestPage \in Int /\ DefaultPage \in Nat \ {0}
    BY ReadersAssumption DEF ListingInv, ListingStates
  <2>3. n \in Nat /\ n # 0
    BY <2>1, <2>2 DEF PageSize
  <2> QED
    BY <1>1, <2>1, <2>3, PageKeeps
<1>2. ASSUME ~st.done, Page(After(Cardinality(ListedIds)), Cardinality(ListedIds)) PROVE ListingInv'
  <2>1. PICK n : n = Cardinality(ListedIds)
    OBVIOUS
  <2>2. n \in Nat
    BY <2>1, ReadersAssumption, FS_CardinalityType
  <2>3. Cardinality(ListedIds) <= n
    BY <2>1, <2>2
  <2> QED
    BY <1>2, <2>1, <2>2, <2>3, PageKeeps
<1>3. CASE list_experiments
  BY <1>1, <1>3 DEF list_experiments
<1>4. CASE list_flags
  BY <1>1, <1>4 DEF list_flags
<1>5. CASE list_metrics
  BY <1>2, <1>5 DEF list_metrics
<1>6. ASSUME NEW i \in ListedIds, NEW s \in ListedStates, OthersWrite(i, s) PROVE ListingInv'
  BY <1>6, OthersKeep
<1> QED
  BY <1>3, <1>4, <1>5, <1>6 DEF ListingNext

LEMMA ListingIsExact ==
    ASSUME ListingInv
    PROVE  PagesAreExact
<1>1. \A i, j \in 1 .. Len(st.pages) : i < j => st.pages[i] < st.pages[j]
  BY DEF ListingInv
<1>2. st.done => st.steady \subseteq Elements(st.pages)
  BY DEF ListingInv, Shown, Elements
<1> QED
  BY <1>1, <1>2 DEF PagesAreExact

\* Who reads while others write misses nothing unnoticed: a stream has every
\* update since it subscribed, in order, or is told of the loss; a client
\* that follows the page tokens to the end sees every row that matched all
\* along, once - for any number of streams, rows, pages and writers.
THEOREM ReadersComplete == ReadersSpec => []ReadersSeeEverything
<1> DEFINE Inv == BroadcastInv \/ ListingInv
<1>1. BroadcastInit \/ ListingInit => Inv
  BY BroadcastStarts, ListingStarts
<1>2. Inv /\ [BroadcastNext \/ ListingNext]_st => Inv'
  <2>1. ASSUME BroadcastInv, [BroadcastNext \/ ListingNext]_st PROVE BroadcastInv'
    <3>1. ~ListingNext
      BY <2>1 DEF BroadcastInv, BroadcastStates, ListingNext, Running
    <3>2. CASE UNCHANGED st
      BY <2>1, <3>2 DEF BroadcastInv
    <3> QED
      BY <2>1, <3>1, <3>2, BroadcastKeeps
  <2>2. ASSUME ListingInv, [BroadcastNext \/ ListingNext]_st PROVE ListingInv'
    <3>1. ~BroadcastNext
      BY <2>2 DEF ListingInv, ListingStates, BroadcastNext, Running
    <3>2. CASE UNCHANGED st
      BY <2>2, <3>2 DEF ListingInv, Selected, Shown
    <3> QED
      BY <2>2, <3>1, <3>2, ListingKeeps
  <2> QED
    BY <2>1, <2>2
<1>3. Inv => ReadersSeeEverything
  <2>1. ASSUME BroadcastInv PROVE NoSilentGap /\ PagesAreExact
    <3>1. ~Running("listing")
      BY <2>1 DEF BroadcastInv, BroadcastStates, Running
    <3> QED
      BY <2>1, <3>1, BroadcastSeesEverything DEF PagesAreExact
  <2>2. ASSUME ListingInv PROVE NoSilentGap /\ PagesAreExact
    <3>1. ~Running("broadcast")
      BY <2>2 DEF ListingInv, ListingStates, Running
    <3> QED
      BY <2>2, <3>1, ListingIsExact DEF NoSilentGap
  <2> QED
    BY <2>1, <2>2 DEF ReadersSeeEverything
<1> HIDE DEF Inv
<1> QED
  BY <1>1, <1>2, <1>3, PTL DEF ReadersSpec

-----------------------------------------------------------------------------
(* The metric catalog.  Rows never change, so what a walk saw stays true:  *)
(* a metric's graph is the set the walk coloured, closed under references, *)
(* with a depth for every member.                                          *)

AcceptedDefinitions == {d \in Definitions : StaticCheck(d) = "ok"}
Rows == {NoMetric} \cup {build_metric_type_config(d) : d \in AcceptedDefinitions}
Colors == [MetricIds -> {"white", "gray", "black"}]
Frames == [node : MetricIds, remaining : Seq(MetricIds)]
Phases == {"old", "exists", "walk", "shadow", "insert"}

ActiveRequests ==
    [kind : {r.kind : r \in MetricRequests}, def : Definitions, old : {r.old : r \in MetricRequests},
     shadow : {r.shadow : r \in MetricRequests}, phase : Phases, color : {<<>>} \cup Colors,
     stack : Seq(Frames)]

CatalogStates ==
    [algo : {"catalog"}, metric : [MetricIds -> Rows],
     migrations : SUBSET [old : MetricIds, new : MetricIds, shadow : {r.shadow : r \in MetricRequests}],
     approved : SUBSET ShadowRuns, calls : Nat, req : [Handlers -> {NoRequest} \cup ActiveRequests]]

\* The ids a definition reads, and those of metric x of a catalog f in which
\* metric i is, or is to be, defined by m.
Edges(m) == Elements(Neighbors(m))
EdgesOf(f, i, m, x) == IF x = i THEN Edges(m) ELSE Edges(f[x])

Present(f) == {i \in MetricIds : f[i] # NoMetric}

\* V is everything metric i is computed from, at the depths d.
Depths == [MetricIds -> Nat]
Covers(f, i, m, V, d) ==
    /\ i \in V /\ V \subseteq Present(f) \cup {i} /\ V \subseteq MetricIds /\ d[i] = 0
    /\ \A x \in V : d[x] <= DepthCap /\ EdgesOf(f, i, m, x) \subseteq V
    /\ \A x \in V : x # i => \E y \in V : d[x] = d[y] + 1 /\ x \in EdgesOf(f, i, m, y)
Covered(f, i, m) == \E V \in SUBSET MetricIds : \E d \in Depths : Covers(f, i, m, V, d)

\* V holds what metric i reads and all that this needs, and not i.
Beneath(f, i, V) ==
    /\ V \subseteq Present(f) /\ i \notin V /\ Edges(f[i]) \subseteq V
    /\ \A x \in V : Edges(f[x]) \subseteq V
Grounded(f, i) == \E V \in SUBSET MetricIds : Beneath(f, i, V)

\* A walk: the frames are a path from the root, every coloured metric has a
\* depth, and what a metric reads is coloured or waits in its frame.
Coloured(r) == {x \in MetricIds : r.color[x] # "white"}
OnStack(r, x) == \E p \in 1 .. Len(r.stack) : r.stack[p].node = x
WalkOk(f, r, d) ==
    /\ r.color \in Colors /\ Len(r.stack) >= 1 /\ r.stack[1].node = r.def.id
    /\ \A p \in 1 .. Len(r.stack) :
          /\ r.stack[p].node \in Coloured(r) /\ d[r.stack[p].node] = p - 1
          /\ Elements(r.stack[p].remaining) \subseteq EdgesOf(f, r.def.id, r.def, r.stack[p].node)
          /\ EdgesOf(f, r.def.id, r.def, r.stack[p].node)
               \subseteq Coloured(r) \cup Elements(r.stack[p].remaining)
    /\ \A x \in Coloured(r) :
          /\ d[x] <= DepthCap
          /\ OnStack(r, x) \/ EdgesOf(f, r.def.id, r.def, x) \subseteq Coloured(r)
          /\ x # r.def.id =>
                x \in Present(f) /\ \E y \in Coloured(r) : d[x] = d[y] + 1 /\ x \in EdgesOf(f, r.def.id, r.def, y)
Walking(f, r) == \E d \in Depths : WalkOk(f, r, d)

RequestOk(f, r) ==
    /\ r.phase \in {"exists", "walk", "shadow", "insert"} => StaticCheck(r.def) = "ok"
    /\ r.phase # "idle" /\ r.kind = "migrate" =>
          /\ r.def.type # "CUSTOM" /\ r.old \in MetricIds
          /\ r.phase # "old" => r.old \in Present(f) /\ f[r.old].type = "CUSTOM"
    /\ r.phase \in {"walk", "shadow", "insert"} => Edges(r.def) \subseteq Present(f)
    /\ r.phase = "walk" => Walking(f, r)
    /\ r.phase \in {"shadow", "insert"} => Covered(f, r.def.id, r.def)

MigrationsOk(f, M) ==
    \A x, y \in M :
        /\ x.old = y.old => x = y
        /\ x.old \in Present(f) /\ x.new \in Present(f)
        /\ f[x.old].type = "CUSTOM" /\ f[x.new].type # "CUSTOM"

CatalogInv ==
    /\ st \in CatalogStates
    /\ \A i \in Present(st.metric) : Covered(st.metric, i, st.metric[i]) /\ Grounded(st.metric, i)
    /\ \A h \in Handlers : RequestOk(st.metric, st.req[h])
    /\ MigrationsOk(st.metric, st.migrations)

\* Both of two checks passed.
LEMMA BothPass ==
    ASSUME NEW a, NEW b, FirstFailure(<<a, b>>) = "ok"
    PROVE  a = "ok" /\ b = "ok"
<1>1. PICK c : c = <<a, b>>
  OBVIOUS
<1>2. Len(c) = 2 /\ c[1] = a /\ c[2] = b
  BY <1>1
<1>3. PICK bad : bad = {i \in 1 .. 2 : c[i] # "ok"}
  OBVIOUS
<1>4. FirstFailure(c) = IF bad = {} THEN "ok" ELSE c[Least(bad)]
  BY <1>2, <1>3 DEF FirstFailure
<1>5. bad = {}
  <2> SUFFICES ASSUME bad # {} PROVE FALSE
    OBVIOUS
  <2>1. bad \subseteq Nat
    BY <1>3
  <2>2. Least(bad) \in bad
    BY <2>1, LeastIsLeast
  <2>3. c[Least(bad)] # "ok"
    BY <1>3, <2>2
  <2> QED
    BY <1>1, <1>4, <2>3
<1> QED
  BY <1>2, <1>3, <1>5

\* What passed the checks reads metric ids.
LEMMA NeighborsTyped ==
    ASSUME NEW d \in AcceptedDefinitions
    PROVE  Neighbors(d) \in Seq(MetricIds)
<1>1. d \in Definitions /\ StaticCheck(d) = "ok"
  BY DEF AcceptedDefinitions
<1>2. CASE d.type = "COMPOSITE"
  <2>1. PICK a, b : a = validate_metric_common_fields(d) /\ b = validate_composite(ConfigOf(d, d.type))
    OBVIOUS
  <2>2. StaticCheck(d) = FirstFailure(<<a, b>>)
    BY <1>2, <2>1 DEF StaticCheck
  <2>3. validate_composite(ConfigOf(d, "COMPOSITE")) = "ok"
    BY <1>1, <1>2, <2>1, <2>2, BothPass
  <2>4. ConfigOf(d, "COMPOSITE") # NoConfig
    BY <2>3 DEF validate_composite, Require
  <2>5. d.config # NoConfig /\ d.config.of = "COMPOSITE"
    BY <2>4 DEF ConfigOf
  <2>6. d.config \in Composites
    BY <1>1, <2>5, CatalogAssumption
  <2>7. PICK ops : ops = d.config.operands
    OBVIOUS
  <2>8. ops \in Seq([id : MetricIds, weight : Int \cup {Infinite}])
    BY <2>6, <2>7 DEF Composites
  <2>9. Len(ops) \in Nat /\ \A i \in 1 .. Len(ops) : ops[i].id \in MetricIds
    <3>1. PICK T : T = [id : MetricIds, weight : Int \cup {Infinite}]
      OBVIOUS
    <3>2. ops \in Seq(T)
      BY <2>8, <3>1
    <3>3. Len(ops) \in Nat /\ \A i \in 1 .. Len(ops) : ops[i] \in T
      BY <3>2
    <3> QED
      BY <3>1, <3>3
  <2>10. Neighbors(d) = [i \in 1 .. Len(ops) |-> ops[i].id]
    BY <1>2, <2>7 DEF Neighbors
  <2>11. [i \in 1 .. Len(ops) |-> ops[i].id] \in [1 .. Len(ops) -> MetricIds]
    BY <2>9
  <2> QED
    BY <2>9, <2>10, <2>11
<1>3. CASE d.type = "METRICQL"
  <2>1. d.expression.refs \in Seq(MetricIds)
    <3>1. d.expression \in [reads : {"blank", "diagnostics", "ok"}, refs : Seq(MetricIds)]
      BY <1>1, CatalogAssumption
    <3> QED
      BY <3>1
  <2> QED
    BY <1>3, <2>1 DEF Neighbors
<1>4. CASE d.type # "COMPOSITE" /\ d.type # "METRICQL"
  <2>1. Neighbors(d) = <<>>
    BY <1>4 DEF Neighbors
  <2> QED
    BY <2>1
<1> QED
  BY <1>2, <1>3, <1>4

\* INSERT keeps the type and the references.
LEMMA BuildKeeps ==
    ASSUME NEW d \in Definitions
    PROVE  /\ build_metric_type_config(d).type = d.type
           /\ Neighbors(build_metric_type_config(d)) = Neighbors(d)
           /\ build_metric_type_config(d) # NoMetric
<1>1. build_metric_type_config(d) # NoMetric
  BY CatalogAssumption
<1>2. CASE d.config = NoConfig \/ d.config.of # "COMPOSITE"
  <2>1. build_metric_type_config(d) = d
    BY <1>2 DEF build_metric_type_config
  <2> QED
    BY <1>1, <2>1
<1>3. CASE ~(d.config = NoConfig \/ d.config.of # "COMPOSITE")
  <2>1. d.config \in Composites
    BY <1>3, CatalogAssumption
  <2>2. PICK ops : ops = d.config.operands
    OBVIOUS
  <2>3. PICK O : O = [i \in 1 .. Len(ops) |->
                        [ops[i] EXCEPT !.weight = IF @ = Infinite THEN 0 ELSE @]]
    OBVIOUS
  <2>4. PICK b : b = [d EXCEPT !.config.operands = O]
    OBVIOUS
  <2>5. build_metric_type_config(d) = b
    BY <1>3, <2>2, <2>3, <2>4 DEF build_metric_type_config
  <2>6. ops \in Seq([id : MetricIds, weight : Int \cup {Infinite}])
    BY <2>1, <2>2 DEF Composites
  <2>7. Len(ops) \in Nat /\ \A i \in 1 .. Len(ops) : ops[i] \in [id : MetricIds, weight : Int \cup {Infinite}]
    <3>1. PICK T : T = [id : MetricIds, weight : Int \cup {Infinite}]
      OBVIOUS
    <3>2. ops \in Seq(T)
      BY <2>6, <3>1
    <3>3. Len(ops) \in Nat /\ \A i \in 1 .. Len(ops) : ops[i] \in T
      BY <3>2
    <3> QED
      BY <3>1, <3>3
  <2>8. \A i \in 1 .. Len(ops) : O[i].id = ops[i].id
    BY <2>3, <2>7
  <2>9. Len(O) = Len(ops)
    BY <2>3, <2>7
  <2>10. PICK c : c = [d.config EXCEPT !.operands = O]
    OBVIOUS
  <2>11. c.operands = O
    BY <2>1, <2>10 DEF Composites
  <2>12. b = [d EXCEPT !.config = c]
    BY <2>4, <2>10
  <2>13. d \in [id : MetricIds, name : {e.name : e \in Definitions},
                type : {e.type : e \in Definitions}, config : {e.config : e \in Definitions},
                expression : [reads : {"blank", "diagnostics", "ok"}, refs : Seq(MetricIds)]]
    BY CatalogAssumption
  <2>14. b.type = d.type /\ b.config = c /\ b.expression = d.expression
    BY <2>12, <2>13
  <2>15. Neighbors(b) = Neighbors(d)
    <3>1. CASE d.type = "COMPOSITE"
      <4>1. Neighbors(b) = [i \in 1 .. Len(O) |-> O[i].id]
        BY <2>11, <2>14, <3>1 DEF Neighbors
      <4>2. Neighbors(d) = [i \in 1 .. Len(ops) |-> ops[i].id]
        BY <2>2, <3>1 DEF Neighbors
      <4> QED
        BY <2>8, <2>9, <4>1, <4>2
    <3>2. CASE d.type = "METRICQL"
      BY <2>14, <3>2 DEF Neighbors
    <3>3. CASE d.type # "COMPOSITE" /\ d.type # "METRICQL"
      BY <2>14, <3>3 DEF Neighbors
    <3> QED
      BY <3>1, <3>2, <3>3
  <2> QED
    BY <1>1, <2>5, <2>14, <2>15
<1> QED
  BY <1>2, <1>3

LEMMA RowsTyped ==
    ASSUME NEW f \in [MetricIds -> Rows], NEW x \in Present(f)
    PROVE  Neighbors(f[x]) \in Seq(MetricIds) /\ Edges(f[x]) \subseteq MetricIds
<1>1. PICK d \in AcceptedDefinitions : f[x] = build_metric_type_config(d)
  BY DEF Present, Rows
<1>2. d \in Definitions
  BY DEF AcceptedDefinitions
<1>3. Neighbors(f[x]) \in Seq(MetricIds)
  BY <1>1, <1>2, BuildKeeps, NeighborsTyped
<1> QED
  BY <1>3 DEF Edges, Elements

\* Rows are added, never changed.
Grows(f, g) == \A x \in MetricIds : f[x] # NoMetric => g[x] = f[x]

LEMMA GrowsPresent ==
    ASSUME NEW f, NEW g, Grows(f, g)
    PROVE  /\ Present(f) \subseteq Present(g)
           /\ \A x \in Present(f) : g[x] = f[x]
           /\ \A i, m, x : x = i \/ x \in Present(f) => EdgesOf(g, i, m, x) = EdgesOf(f, i, m, x)
<1>1. Present(f) \subseteq Present(g) /\ \A x \in Present(f) : g[x] = f[x]
  BY DEF Grows, Present
<1>2. \A i, m, x : x = i \/ x \in Present(f) => EdgesOf(g, i, m, x) = EdgesOf(f, i, m, x)
  BY <1>1 DEF EdgesOf
<1> QED
  BY <1>1, <1>2

LEMMA GrowsCovered ==
    ASSUME NEW f, NEW g, Grows(f, g), NEW i, NEW m, Covered(f, i, m)
    PROVE  Covered(g, i, m)
<1>1. PICK V \in SUBSET MetricIds, d \in Depths : Covers(f, i, m, V, d)
  BY DEF Covered
<1>2. \A x \in V : x = i \/ x \in Present(f)
  BY <1>1 DEF Covers
<1>3. \A x \in V : EdgesOf(g, i, m, x) = EdgesOf(f, i, m, x)
  BY <1>2, GrowsPresent
<1>4. Covers(g, i, m, V, d)
  BY <1>1, <1>3, GrowsPresent DEF Covers
<1> QED
  BY <1>4 DEF Covered

LEMMA GrowsGrounded ==
    ASSUME NEW f, NEW g, Grows(f, g), NEW i \in Present(f), Grounded(f, i)
    PROVE  Grounded(g, i)
<1>1. PICK V \in SUBSET MetricIds : Beneath(f, i, V)
  BY DEF Grounded
<1>2. g[i] = f[i] /\ \A x \in V : g[x] = f[x]
  BY <1>1, GrowsPresent DEF Beneath
<1>3. Beneath(g, i, V)
  BY <1>1, <1>2, GrowsPresent DEF Beneath
<1> QED
  BY <1>3 DEF Grounded

LEMMA GrowsWalking ==
    ASSUME NEW f, NEW g, Grows(f, g), NEW r, Walking(f, r)
    PROVE  Walking(g, r)
<1>1. PICK d \in Depths : WalkOk(f, r, d)
  BY DEF Walking
<1>2. \A x \in Coloured(r) : x = r.def.id \/ x \in Present(f)
  BY <1>1 DEF WalkOk
<1>3. \A x \in Coloured(r) : EdgesOf(g, r.def.id, r.def, x) = EdgesOf(f, r.def.id, r.def, x)
  BY <1>2, GrowsPresent
<1>4. \A p \in 1 .. Len(r.stack) : r.stack[p].node \in Coloured(r)
  BY <1>1 DEF WalkOk
<1>5. \A p \in 1 .. Len(r.stack) :
        EdgesOf(g, r.def.id, r.def, r.stack[p].node) = EdgesOf(f, r.def.id, r.def, r.stack[p].node)
  BY <1>3, <1>4
<1>6. WalkOk(g, r, d)
  <2>1. r.color \in Colors /\ Len(r.stack) >= 1 /\ r.stack[1].node = r.def.id
    BY <1>1 DEF WalkOk
  <2>2. \A p \in 1 .. Len(r.stack) :
          /\ r.stack[p].node \in Coloured(r) /\ d[r.stack[p].node] = p - 1
          /\ Elements(r.stack[p].remaining) \subseteq EdgesOf(g, r.def.id, r.def, r.stack[p].node)
          /\ EdgesOf(g, r.def.id, r.def, r.stack[p].node)
               \subseteq Coloured(r) \cup Elements(r.stack[p].remaining)
    BY <1>1, <1>5 DEF WalkOk
  <2>3. ASSUME NEW x \in Coloured(r)
        PROVE  /\ d[x] <= DepthCap
               /\ OnStack(r, x) \/ EdgesOf(g, r.def.id, r.def, x) \subseteq Coloured(r)
               /\ x # r.def.id => x \in Present(g)
                    /\ \E y \in Coloured(r) : d[x] = d[y] + 1 /\ x \in EdgesOf(g, r.def.id, r.def, y)
    <3>1. /\ d[x] <= DepthCap
          /\ OnStack(r, x) \/ EdgesOf(f, r.def.id, r.def, x) \subseteq Coloured(r)
          /\ x # r.def.id => x \in Present(f)
               /\ \E y \in Coloured(r) : d[x] = d[y] + 1 /\ x \in EdgesOf(f, r.def.id, r.def, y)
      BY <1>1 DEF WalkOk
    <3> QED
      BY <1>3, <3>1, GrowsPresent
  <2> QED
    BY <2>1, <2>2, <2>3 DEF WalkOk
<1> QED
  BY <1>6 DEF Walking

LEMMA GrowsRequest ==
    ASSUME NEW f, NEW g, Grows(f, g), NEW r, RequestOk(f, r)
    PROVE  RequestOk(g, r)
<1>1. r.phase = "walk" => Walking(g, r)
  BY GrowsWalking DEF RequestOk
<1>2. r.phase \in {"shadow", "insert"} => Covered(g, r.def.id, r.def)
  BY GrowsCovered DEF RequestOk
<1>3. r.phase \in {"walk", "shadow", "insert"} => Edges(r.def) \subseteq Present(g)
  BY GrowsPresent DEF RequestOk
<1>4. r.phase # "idle" /\ r.kind = "migrate" =>
        /\ r.def.type # "CUSTOM" /\ r.old \in MetricIds
        /\ r.phase # "old" => r.old \in Present(g) /\ g[r.old].type = "CUSTOM"
  BY GrowsPresent DEF RequestOk
<1> QED
  BY <1>1, <1>2, <1>3, <1>4 DEF RequestOk

LEMMA GrowsMigrations ==
    ASSUME NEW f, NEW g, Grows(f, g), NEW M, MigrationsOk(f, M)
    PROVE  MigrationsOk(g, M)
BY GrowsPresent DEF MigrationsOk

\* A step of one handler that leaves the catalog as it is.
LEMMA OneRequest ==
    ASSUME CatalogInv, NEW h \in Handlers, NEW r \in {NoRequest} \cup ActiveRequests,
           RequestOk(st.metric, r), NEW n \in Nat,
           st' = [st EXCEPT !.calls = n, !.req = [st.req EXCEPT ![h] = r]]
    PROVE  CatalogInv'
<1>1. st \in CatalogStates /\ st.req \in [Handlers -> {NoRequest} \cup ActiveRequests]
  <2>1. st \in CatalogStates
    BY DEF CatalogInv
  <2> QED
    BY <2>1 DEF CatalogStates
<1>2. PICK q : q = [st.req EXCEPT ![h] = r]
  OBVIOUS
<1>3. /\ q \in [Handlers -> {NoRequest} \cup ActiveRequests] /\ q[h] = r
      /\ \A k \in Handlers : k # h => q[k] = st.req[k]
  <2>1. PICK R : R = {NoRequest} \cup ActiveRequests
    OBVIOUS
  <2>2. r \in R /\ st.req \in [Handlers -> R]
    BY <1>1, <2>1
  <2>3. /\ q \in [Handlers -> R] /\ q[h] = r
        /\ \A k \in Handlers : k # h => q[k] = st.req[k]
    BY <1>2, <2>2
  <2> QED
    BY <2>1, <2>3
<1>4. /\ st' \in CatalogStates /\ st'.metric = st.metric /\ st'.migrations = st.migrations /\ st'.req = q
  <2>1. st' = [st EXCEPT !.calls = n, !.req = q]
    BY <1>2
  <2> QED
    BY <1>1, <1>3, <2>1 DEF CatalogStates
<1>5. ASSUME NEW k \in Handlers PROVE RequestOk(st.metric, q[k])
  BY <1>3 DEF CatalogInv
<1> QED
  BY <1>4, <1>5 DEF CatalogInv

\* The same, when the calls are not counted.
LEMMA RequestGoesOn ==
    ASSUME CatalogInv, NEW h \in Handlers, NEW r \in {NoRequest} \cup ActiveRequests,
           RequestOk(st.metric, r), st' = [st EXCEPT !.req = [st.req EXCEPT ![h] = r]]
    PROVE  CatalogInv'
<1>1. st \in CatalogStates
  BY DEF CatalogInv
<1>2. PICK n \in Nat : n = st.calls
  BY <1>1 DEF CatalogStates
<1>3. st' = [st EXCEPT !.calls = n, !.req = [st.req EXCEPT ![h] = r]]
  BY <1>1, <1>2 DEF CatalogStates
<1> QED
  BY <1>2, <1>3, OneRequest

LEMMA RequestEnds ==
    ASSUME CatalogInv, NEW h \in Handlers, st' = [st EXCEPT !.req = Done(h)]
    PROVE  CatalogInv'
<1>1. RequestOk(st.metric, NoRequest)
  BY DEF RequestOk, NoRequest
<1> QED
  BY <1>1, RequestGoesOn DEF Done

LEMMA RequestIsActive ==
    ASSUME CatalogInv, NEW h \in Handlers, st.req[h].phase # "idle"
    PROVE  st.req[h] \in ActiveRequests /\ RequestOk(st.metric, st.req[h])
<1>1. st \in CatalogStates
  BY DEF CatalogInv
<1>2. st.req \in [Handlers -> {NoRequest} \cup ActiveRequests]
  BY <1>1 DEF CatalogStates
<1>3. st.req[h] \in {NoRequest} \cup ActiveRequests
  BY <1>2
<1>4. st.req[h] # NoRequest
  BY DEF NoRequest
<1> QED
  BY <1>3, <1>4 DEF CatalogInv

LEMMA EmptyStack == <<>> \in Seq(Frames)
OBVIOUS

LEMMA CallCounted ==
    ASSUME CatalogInv
    PROVE  st \in CatalogStates /\ st.calls + 1 \in Nat
<1>1. st \in CatalogStates
  BY DEF CatalogInv
<1>2. st.calls \in Nat
  BY <1>1 DEF CatalogStates
<1> QED
  BY <1>1, <1>2

LEMMA AcceptKeeps ==
    ASSUME CatalogInv, NEW h \in Handlers, NEW r \in MetricRequests, Accept(h, r),
           \/ r.kind = "create" /\ StaticCheck(r.def) = "ok"
           \/ r.kind = "migrate" /\ r.old # "" /\ r.def.type # "CUSTOM"
    PROVE  CatalogInv'
<1>1. PICK q : q = [kind |-> r.kind, def |-> r.def, old |-> r.old, shadow |-> r.shadow,
                    phase |-> IF r.kind = "migrate" THEN "old" ELSE "exists",
                    color |-> <<>>, stack |-> <<>>]
  OBVIOUS
<1>2. <<>> \in Seq(Frames)
  BY EmptyStack
<1>3. PICK phase : phase = IF r.kind = "migrate" THEN "old" ELSE "exists"
  OBVIOUS
<1>4. /\ q \in ActiveRequests /\ q.phase = phase /\ q.kind = r.kind /\ q.def = r.def /\ q.old = r.old
  <2>1. phase \in Phases
    BY <1>3 DEF Phases
  <2>2. q = [kind |-> r.kind, def |-> r.def, old |-> r.old, shadow |-> r.shadow,
             phase |-> phase, color |-> <<>>, stack |-> <<>>]
    BY <1>1, <1>3
  <2>3. /\ r.kind \in {x.kind : x \in MetricRequests} /\ r.def \in Definitions
        /\ r.old \in {x.old : x \in MetricRequests} /\ r.shadow \in {x.shadow : x \in MetricRequests}
    BY DEF Definitions
  <2> QED
    BY <1>2, <2>1, <2>2, <2>3 DEF ActiveRequests
<1>5. RequestOk(st.metric, q)
  <2>1. CASE r.kind = "create"
    <3>1. q.phase = "exists" /\ q.kind # "migrate" /\ StaticCheck(q.def) = "ok"
      BY <1>3, <1>4, <2>1
    <3> QED
      BY <3>1 DEF RequestOk
  <2>2. CASE r.kind = "migrate"
    <3>1. q.phase = "old" /\ q.def.type # "CUSTOM"
      BY <1>3, <1>4, <2>2
    <3>2. q.old \in MetricIds
      BY <1>4, <2>2, CatalogAssumption
    <3> QED
      BY <3>1, <3>2 DEF RequestOk
  <2> QED
    BY <2>1, <2>2
<1>6. st \in CatalogStates /\ st.calls + 1 \in Nat
  BY CallCounted
<1>7. PICK n \in Nat : n = st.calls + 1
  BY <1>6
<1>8. st' = [st EXCEPT !.calls = n, !.req = [st.req EXCEPT ![h] = q]]
  BY <1>1, <1>6, <1>7 DEF Accept, CatalogStates
<1>9. q \in {NoRequest} \cup ActiveRequests
  BY <1>4
<1> QED
  BY <1>5, <1>7, <1>8, <1>9, OneRequest

LEMMA CheckOldKeeps ==
    ASSUME CatalogInv, NEW h \in Handlers, CheckOld(h)
    PROVE  CatalogInv'
<1>1. PICK r : r = st.req[h]
  OBVIOUS
<1>2. r.phase = "old"
  BY <1>1 DEF CheckOld
<1>3. r \in ActiveRequests /\ RequestOk(st.metric, r)
  BY <1>1, <1>2, RequestIsActive
<1>4. CASE exists_metric(r.old) /\ st.metric[r.old].type = "CUSTOM" /\ StaticCheck(r.def) = "ok"
  <2>1. PICK q : q = [r EXCEPT !.phase = "exists"]
    OBVIOUS
  <2>2. q \in ActiveRequests /\ q.phase = "exists" /\ q.kind = r.kind /\ q.def = r.def /\ q.old = r.old
    BY <1>3, <2>1 DEF ActiveRequests, Phases
  <2>3. st' = [st EXCEPT !.req = [st.req EXCEPT ![h] = q]]
    BY <1>1, <1>4, <2>1 DEF CheckOld, Continue
  <2>4. q.kind = "migrate" => q.def.type # "CUSTOM" /\ q.old \in MetricIds
    BY <1>2, <1>3, <2>2 DEF RequestOk
  <2>5. q.kind = "migrate" => q.old \in Present(st.metric) /\ st.metric[q.old].type = "CUSTOM"
    BY <1>4, <2>2, <2>4 DEF Present, exists_metric
  <2>6. RequestOk(st.metric, q)
    BY <1>4, <2>2, <2>4, <2>5 DEF RequestOk
  <2> QED
    BY <2>2, <2>3, <2>6, RequestGoesOn
<1>5. CASE ~(exists_metric(r.old) /\ st.metric[r.old].type = "CUSTOM" /\ StaticCheck(r.def) = "ok")
  <2>1. st' = [st EXCEPT !.req = Done(h)]
    BY <1>1, <1>5 DEF CheckOld
  <2> QED
    BY <2>1, RequestEnds
<1> QED
  BY <1>4, <1>5

\* A walk that is over leaves a set that covers the metric.
LEMMA AfterWalkKeeps ==
    ASSUME CatalogInv, NEW h \in Handlers, NEW r, r = st.req[h], r.phase \in {"exists", "walk"},
           Edges(r.def) \subseteq Present(st.metric), Covered(st.metric, r.def.id, r.def),
           st' = Continue(h, AfterWalk(r))
    PROVE  CatalogInv'
<1>1. r \in ActiveRequests /\ RequestOk(st.metric, r)
  BY RequestIsActive
<1>2. PICK phase : phase = IF r.kind = "migrate" THEN "shadow" ELSE "insert"
  OBVIOUS
<1>3. PICK q : q = [r EXCEPT !.phase = phase, !.color = <<>>, !.stack = <<>>]
  OBVIOUS
<1>4. q = AfterWalk(r)
  BY <1>2, <1>3 DEF AfterWalk
<1>5. phase \in {"shadow", "insert"} /\ <<>> \in Seq(Frames)
  BY <1>2, EmptyStack
<1>6. q \in ActiveRequests /\ q.phase = phase /\ q.kind = r.kind /\ q.def = r.def /\ q.old = r.old
  BY <1>1, <1>3, <1>5 DEF ActiveRequests, Phases
<1>7. RequestOk(st.metric, q)
  <2>1. StaticCheck(q.def) = "ok"
    BY <1>1, <1>6 DEF RequestOk
  <2>2. q.kind = "migrate" =>
          /\ q.def.type # "CUSTOM" /\ q.old \in MetricIds
          /\ q.old \in Present(st.metric) /\ st.metric[q.old].type = "CUSTOM"
    BY <1>1, <1>6 DEF RequestOk
  <2> QED
    BY <1>5, <1>6, <2>1, <2>2 DEF RequestOk
<1>8. st' = [st EXCEPT !.req = [st.req EXCEPT ![h] = q]]
  BY <1>4 DEF Continue
<1> QED
  BY <1>6, <1>7, <1>8, RequestGoesOn

\* A definition with no references is covered by itself.
LEMMA LeafCovered ==
    ASSUME NEW f, NEW m \in Definitions, Edges(m) = {}
    PROVE  Covered(f, m.id, m)
<1>1. m.id \in MetricIds
  BY CatalogAssumption
<1>2. PICK d : d = [x \in MetricIds |-> 0]
  OBVIOUS
<1>3. d \in Depths /\ d[m.id] = 0
  BY <1>1, <1>2 DEF Depths
<1>4. DepthCap \in Nat
  BY CatalogAssumption
<1>5. Covers(f, m.id, m, {m.id}, d)
  BY <1>1, <1>3, <1>4 DEF Covers, EdgesOf
<1>6. {m.id} \in SUBSET MetricIds
  BY <1>1
<1> QED
  BY <1>3, <1>5, <1>6 DEF Covered

\* The walk starts with the root alone coloured.
LEMMA RootWalks ==
    ASSUME NEW f, NEW r \in ActiveRequests, StaticCheck(r.def) = "ok"
    PROVE  /\ Root(r) \in ActiveRequests /\ Root(r).phase = "walk" /\ Root(r).kind = r.kind
           /\ Root(r).def = r.def /\ Root(r).old = r.old
           /\ Walking(f, Root(r))
<1>1. PICK i : i = r.def.id
  OBVIOUS
<1>2. r.def \in Definitions /\ r.def \in AcceptedDefinitions
  BY DEF ActiveRequests, AcceptedDefinitions
<1>3. i \in MetricIds
  BY <1>1, <1>2, CatalogAssumption
<1>4. PICK n : n = Neighbors(r.def)
  OBVIOUS
<1>5. n \in Seq(MetricIds)
  BY <1>2, <1>4, NeighborsTyped
<1>6. PICK c : c = [x \in MetricIds |-> IF x = i THEN "gray" ELSE "white"]
  OBVIOUS
<1>7. c \in Colors /\ c[i] = "gray" /\ \A x \in MetricIds : x # i => c[x] = "white"
  BY <1>3, <1>6 DEF Colors
<1>8. PICK frame : frame = [node |-> i, remaining |-> n]
  OBVIOUS
<1>9. frame \in Frames /\ frame.node = i /\ frame.remaining = n
  BY <1>3, <1>5, <1>8 DEF Frames
<1>10. PICK s : s = <<frame>>
  OBVIOUS
<1>11. s \in Seq(Frames) /\ Len(s) = 1 /\ s[1] = frame
  BY <1>9, <1>10
<1>12. PICK q : q = [r EXCEPT !.phase = "walk", !.color = c, !.stack = s]
  OBVIOUS
<1>13. q = Root(r)
  BY <1>1, <1>4, <1>6, <1>8, <1>10, <1>12 DEF Root
<1>14. /\ q \in ActiveRequests /\ q.phase = "walk" /\ q.kind = r.kind /\ q.def = r.def
       /\ q.old = r.old /\ q.color = c /\ q.stack = s
  BY <1>7, <1>11, <1>12 DEF ActiveRequests, Phases
<1>15. PICK d : d = [x \in MetricIds |-> 0]
  OBVIOUS
<1>16. d \in Depths /\ d[i] = 0
  BY <1>3, <1>15 DEF Depths
<1>17. Coloured(q) = {i}
  BY <1>3, <1>7, <1>14 DEF Coloured
<1>18. EdgesOf(f, q.def.id, q.def, i) = Elements(n)
  BY <1>1, <1>4, <1>14 DEF EdgesOf, Edges
<1>19. DepthCap \in Nat
  BY CatalogAssumption
<1>20. WalkOk(f, q, d)
  <2>0. /\ Len(q.stack) = 1 /\ q.stack[1].node = i /\ q.stack[1].remaining = n
        /\ q.color = c /\ q.def.id = i
    <3>1. Len(s) = 1 /\ s[1].node = i /\ s[1].remaining = n
      BY <1>9, <1>11, Zenon
    <3> QED
      BY <1>1, <1>14, <3>1, Zenon
  <2>1. q.color \in Colors /\ Len(q.stack) >= 1 /\ q.stack[1].node = q.def.id
    BY <1>7, <2>0
  <2>2. ASSUME NEW p \in 1 .. Len(q.stack)
        PROVE  /\ q.stack[p].node \in Coloured(q) /\ d[q.stack[p].node] = p - 1
               /\ Elements(q.stack[p].remaining) \subseteq EdgesOf(f, q.def.id, q.def, q.stack[p].node)
               /\ EdgesOf(f, q.def.id, q.def, q.stack[p].node)
                    \subseteq Coloured(q) \cup Elements(q.stack[p].remaining)
    <3>1. p = 1 /\ q.stack[p].node = i /\ q.stack[p].remaining = n
      BY <2>0
    <3> QED
      BY <1>16, <1>17, <1>18, <3>1
  <2>3. ASSUME NEW x \in Coloured(q)
        PROVE  /\ d[x] <= DepthCap
               /\ OnStack(q, x) \/ EdgesOf(f, q.def.id, q.def, x) \subseteq Coloured(q)
               /\ x # q.def.id => x \in Present(f)
                    /\ \E y \in Coloured(q) : d[x] = d[y] + 1 /\ x \in EdgesOf(f, q.def.id, q.def, y)
    <3>1. x = i /\ i = q.def.id
      BY <1>1, <1>14, <1>17
    <3>2. d[x] <= DepthCap
      BY <1>16, <1>19, <3>1
    <3>3. OnStack(q, x)
      <4>1. 1 \in 1 .. Len(q.stack)
        BY <2>0
      <4> QED
        BY <2>0, <3>1, <4>1 DEF OnStack
    <3> QED
      BY <3>1, <3>2, <3>3
  <2> QED
    BY <2>1, <2>2, <2>3 DEF WalkOk
<1> QED
  BY <1>13, <1>14, <1>16, <1>20 DEF Walking

LEMMA CheckExistsKeeps ==
    ASSUME CatalogInv, NEW h \in Handlers, CheckExists(h)
    PROVE  CatalogInv'
<1>1. PICK r : r = st.req[h]
  OBVIOUS
<1>2. r.phase = "exists"
  BY <1>1 DEF CheckExists
<1>3. r \in ActiveRequests /\ RequestOk(st.metric, r)
  BY <1>1, <1>2, RequestIsActive
<1>4. r.def \in Definitions /\ StaticCheck(r.def) = "ok"
  BY <1>2, <1>3 DEF ActiveRequests, RequestOk
<1>5. PICK ids : ids = Edges(r.def)
  OBVIOUS
<1>6. \/ ids = {} /\ st' = Continue(h, AfterWalk(r))
      \/ exists_all_metrics(ids) /\ st' = Continue(h, Root(r))
      \/ st' = [st EXCEPT !.req = Done(h)]
  BY <1>1, <1>5 DEF CheckExists, Edges
<1>7. CASE ids = {} /\ st' = Continue(h, AfterWalk(r))
  <2>1. Covered(st.metric, r.def.id, r.def)
    BY <1>4, <1>5, <1>7, LeafCovered
  <2>2. Edges(r.def) \subseteq Present(st.metric)
    BY <1>5, <1>7
  <2> QED
    BY <1>1, <1>2, <1>7, <2>1, <2>2, AfterWalkKeeps
<1>8. CASE exists_all_metrics(ids) /\ st' = Continue(h, Root(r))
  <2>1. PICK q : q = Root(r)
    OBVIOUS
  <2>2. /\ q \in ActiveRequests /\ q.phase = "walk" /\ q.kind = r.kind
        /\ q.def = r.def /\ q.old = r.old /\ Walking(st.metric, q)
    BY <1>3, <1>4, <2>1, RootWalks
  <2>3. Edges(q.def) \subseteq Present(st.metric)
    <3>1. r.def \in AcceptedDefinitions
      BY <1>4 DEF AcceptedDefinitions
    <3>2. Neighbors(r.def) \in Seq(MetricIds)
      BY <3>1, NeighborsTyped
    <3>3. ids \subseteq MetricIds
      BY <1>5, <3>2 DEF Edges, Elements
    <3> QED
      BY <1>5, <1>8, <2>2, <3>3 DEF exists_all_metrics, exists_metric, Present
  <2>4. q.kind = "migrate" =>
          /\ q.def.type # "CUSTOM" /\ q.old \in MetricIds
          /\ q.old \in Present(st.metric) /\ st.metric[q.old].type = "CUSTOM"
    BY <1>2, <1>3, <2>2 DEF RequestOk
  <2>5. RequestOk(st.metric, q)
    BY <1>4, <2>2, <2>3, <2>4 DEF RequestOk
  <2>6. st' = [st EXCEPT !.req = [st.req EXCEPT ![h] = q]]
    BY <1>8, <2>1 DEF Continue
  <2> QED
    BY <2>2, <2>5, <2>6, RequestGoesOn
<1>9. CASE st' = [st EXCEPT !.req = Done(h)]
  BY <1>9, RequestEnds
<1> QED
  BY <1>6, <1>7, <1>8, <1>9

LEMMA HeadAndTail ==
    ASSUME NEW S, NEW s \in Seq(S), s # <<>>
    PROVE  /\ Head(s) \in S /\ Head(s) \in Elements(s) /\ Tail(s) \in Seq(S)
           /\ Elements(Tail(s)) \subseteq Elements(s)
           /\ Elements(s) \subseteq Elements(Tail(s)) \cup {Head(s)}
<1>1. Len(s) \in Nat /\ Len(s) >= 1 /\ Head(s) = s[1] /\ s[1] \in S
  OBVIOUS
<1>2. PICK t : t = Tail(s)
  OBVIOUS
<1>3. t \in Seq(S) /\ Len(t) = Len(s) - 1 /\ \A i \in 1 .. Len(s) - 1 : t[i] = s[i + 1]
  BY <1>1, <1>2
<1>4. Head(s) \in Elements(s)
  <2>1. 1 \in 1 .. Len(s)
    BY <1>1
  <2> QED
    BY <1>1, <2>1 DEF Elements
<1>5. ASSUME NEW y \in Elements(t) PROVE y \in Elements(s)
  <2>1. PICK i \in 1 .. Len(s) - 1 : y = t[i]
    BY <1>3 DEF Elements
  <2>2. i + 1 \in 1 .. Len(s) /\ y = s[i + 1]
    BY <1>1, <1>3, <2>1
  <2> QED
    BY <2>2 DEF Elements
<1>6. ASSUME NEW y \in Elements(s) PROVE y \in Elements(t) \cup {Head(s)}
  <2>1. PICK i \in 1 .. Len(s) : y = s[i]
    BY DEF Elements
  <2>2. CASE i = 1
    BY <1>1, <2>1, <2>2
  <2>3. CASE i # 1
    <3>1. PICK j : j = i - 1
      OBVIOUS
    <3>2. j \in 1 .. Len(s) - 1 /\ j + 1 = i
      BY <1>1, <2>3, <3>1
    <3>3. j \in 1 .. Len(t) /\ t[j] = y
      BY <1>3, <2>1, <3>2
    <3> QED
      BY <3>3 DEF Elements
  <2> QED
    BY <2>2, <2>3
<1> QED
  BY <1>1, <1>2, <1>3, <1>4, <1>5, <1>6

\* The top frame takes its next child.
Advance(s) == [s EXCEPT ![Len(s)].remaining = Tail(@)]
IsAdvance(s, t, top) ==
    /\ t \in Seq(Frames) /\ Len(t) = top /\ top \in Nat
    /\ \A p \in 1 .. top : t[p].node = s[p].node
    /\ \A p \in 1 .. top : p # top => t[p] = s[p]
    /\ t[top].remaining = Tail(s[top].remaining)
    /\ Head(s[top].remaining) \in MetricIds

LEMMA TopAdvances ==
    ASSUME NEW s \in Seq(Frames), Len(s) >= 1, s[Len(s)].remaining # <<>>
    PROVE  IsAdvance(s, Advance(s), Len(s))
<1>0. PICK top, t : top = Len(s) /\ t = [s EXCEPT ![top].remaining = Tail(@)]
  OBVIOUS
<1>1. top \in Nat /\ top \in 1 .. top /\ \A p \in 1 .. top : s[p] \in Frames
  BY <1>0
<1>2. s[top].remaining \in Seq(MetricIds)
  BY <1>1 DEF Frames
<1>3. PICK rest : rest = Tail(s[top].remaining)
  OBVIOUS
<1>4. rest \in Seq(MetricIds) /\ Head(s[top].remaining) \in MetricIds
  <2>1. s[top].remaining # <<>>
    BY <1>0
  <2> QED
    BY <1>2, <1>3, <2>1, HeadAndTail
<1>5. PICK frame : frame = [s[top] EXCEPT !.remaining = rest]
  OBVIOUS
<1>6. frame \in Frames /\ frame.node = s[top].node /\ frame.remaining = rest
  BY <1>1, <1>4, <1>5 DEF Frames
<1>7. t = [s EXCEPT ![top] = frame]
  BY <1>0, <1>3, <1>5
<1>8. t \in Seq(Frames) /\ Len(t) = top /\ t[top] = frame /\ \A p \in 1 .. top : p # top => t[p] = s[p]
  <2>1. s \in [1 .. top -> Frames]
    BY <1>0, <1>1
  <2>2. t \in [1 .. top -> Frames] /\ t[top] = frame /\ \A p \in 1 .. top : p # top => t[p] = s[p]
    BY <1>1, <1>6, <1>7, <2>1
  <2> QED
    BY <1>1, <2>2
<1>9. ASSUME NEW p \in 1 .. top PROVE t[p].node = s[p].node
  BY <1>6, <1>8
<1> QED
  BY <1>0, <1>1, <1>3, <1>4, <1>6, <1>8, <1>9 DEF IsAdvance, Advance

\* A child that is coloured already: the frame goes on.
LEMMA WalkSkips ==
    ASSUME NEW f, NEW r \in ActiveRequests, NEW d \in Depths, WalkOk(f, r, d),
           NEW top, top = Len(r.stack), r.stack[top].remaining # <<>>,
           Head(r.stack[top].remaining) \in Coloured(r),
           NEW q, q.def = r.def, q.color = r.color,
           q.stack = Advance(r.stack)
    PROVE  WalkOk(f, q, d)
<1>1. r.stack \in Seq(Frames) /\ top >= 1
  BY DEF ActiveRequests, WalkOk
<1>2. PICK s : s = r.stack
  OBVIOUS
<1>3. PICK t : t = q.stack
  OBVIOUS
<1>4. /\ t \in Seq(Frames) /\ Len(t) = top /\ top \in Nat
      /\ \A p \in 1 .. top : t[p].node = s[p].node
      /\ \A p \in 1 .. top : p # top => t[p] = s[p]
      /\ t[top].remaining = Tail(s[top].remaining)
  <2>1. IsAdvance(s, t, top)
    BY <1>1, <1>2, <1>3, TopAdvances
  <2> QED
    BY <2>1 DEF IsAdvance
<1>5. PICK rest : rest = s[top].remaining
  OBVIOUS
<1>6. rest \in Seq(MetricIds) /\ rest # <<>>
  <2>1. s[top] \in Frames
    BY <1>1, <1>2, <1>4
  <2> QED
    BY <1>2, <1>5, <2>1 DEF Frames
<1>7. /\ Elements(Tail(rest)) \subseteq Elements(rest)
      /\ Elements(rest) \subseteq Elements(Tail(rest)) \cup {Head(rest)}
  BY <1>6, HeadAndTail
<1>8. Coloured(q) = Coloured(r)
  BY DEF Coloured
<1>9. \A x : EdgesOf(f, q.def.id, q.def, x) = EdgesOf(f, r.def.id, r.def, x)
  BY Zenon
<1>10. q.color \in Colors /\ Len(q.stack) >= 1 /\ q.stack[1].node = q.def.id
  <2>1. r.color \in Colors /\ r.stack[1].node = r.def.id
    BY DEF WalkOk
  <2>2. 1 \in 1 .. top
    BY <1>1, <1>4
  <2> QED
    BY <1>1, <1>2, <1>3, <1>4, <2>1, <2>2
<1>11. ASSUME NEW p \in 1 .. top
       PROVE  /\ t[p].node \in Coloured(r) /\ d[t[p].node] = p - 1
              /\ Elements(t[p].remaining) \subseteq EdgesOf(f, r.def.id, r.def, t[p].node)
              /\ EdgesOf(f, r.def.id, r.def, t[p].node)
                   \subseteq Coloured(r) \cup Elements(t[p].remaining)
  <2>1. /\ s[p].node \in Coloured(r) /\ d[s[p].node] = p - 1
        /\ Elements(s[p].remaining) \subseteq EdgesOf(f, r.def.id, r.def, s[p].node)
        /\ EdgesOf(f, r.def.id, r.def, s[p].node)
             \subseteq Coloured(r) \cup Elements(s[p].remaining)
    BY <1>2 DEF WalkOk
  <2>2. CASE p = top
    BY <1>2, <1>4, <1>5, <1>7, <2>1, <2>2
  <2>3. CASE p # top
    BY <1>4, <2>1, <2>3
  <2> QED
    BY <2>2, <2>3
<1>12. ASSUME NEW x \in Coloured(r)
       PROVE  /\ d[x] <= DepthCap
              /\ OnStack(q, x) \/ EdgesOf(f, r.def.id, r.def, x) \subseteq Coloured(r)
              /\ x # r.def.id => x \in Present(f)
                   /\ \E y \in Coloured(r) : d[x] = d[y] + 1 /\ x \in EdgesOf(f, r.def.id, r.def, y)
  <2>1. /\ d[x] <= DepthCap
        /\ OnStack(r, x) \/ EdgesOf(f, r.def.id, r.def, x) \subseteq Coloured(r)
        /\ x # r.def.id => x \in Present(f)
             /\ \E y \in Coloured(r) : d[x] = d[y] + 1 /\ x \in EdgesOf(f, r.def.id, r.def, y)
    BY DEF WalkOk
  <2>2. OnStack(r, x) => OnStack(q, x)
    BY <1>2, <1>3, <1>4 DEF OnStack
  <2> QED
    BY <2>1, <2>2
<1> QED
  BY <1>3, <1>4, <1>8, <1>9, <1>10, <1>11, <1>12 DEF WalkOk

\* The request q that pushes the next child of r's top frame.
Pushes(f, r, q) ==
    LET child == Head(r.stack[Len(r.stack)].remaining) IN
    /\ r.stack[Len(r.stack)].remaining # <<>> /\ Len(r.stack) <= DepthCap
    /\ r.color[child] = "white" /\ f[child] # NoMetric
    /\ q.def = r.def /\ q.color = [r.color EXCEPT ![child] = "gray"]
    /\ q.stack = Append(Advance(r.stack), [node |-> child, remaining |-> Neighbors(f[child])])

\* A child that is not: it becomes the top frame, one level deeper.
LEMMA WalkPushes ==
    ASSUME NEW f \in [MetricIds -> Rows], NEW r \in ActiveRequests, NEW d \in Depths, WalkOk(f, r, d),
           NEW q, Pushes(f, r, q)
    PROVE  q.color \in Colors /\ q.stack \in Seq(Frames) /\ Walking(f, q)
<1>a. PICK top, child, t : top = Len(r.stack) /\ child = Head(r.stack[top].remaining) /\ t = Advance(r.stack)
  OBVIOUS
<1>b. /\ r.stack[top].remaining # <<>> /\ top <= DepthCap
      /\ r.color[child] = "white" /\ f[child] # NoMetric
      /\ q.def = r.def /\ q.color = [r.color EXCEPT ![child] = "gray"]
      /\ q.stack = Append(t, [node |-> child, remaining |-> Neighbors(f[child])])
  BY <1>a DEF Pushes
<1> USE <1>a, <1>b
<1>1. r.stack \in Seq(Frames) /\ top >= 1 /\ r.color \in Colors /\ DepthCap \in Nat
  BY CatalogAssumption DEF ActiveRequests, WalkOk
<1>2. PICK s : s = r.stack
  OBVIOUS
<1>3. /\ t \in Seq(Frames) /\ Len(t) = top /\ top \in Nat
      /\ \A p \in 1 .. top : t[p].node = s[p].node
      /\ \A p \in 1 .. top : p # top => t[p] = s[p]
      /\ t[top].remaining = Tail(s[top].remaining) /\ child \in MetricIds
  <2>1. IsAdvance(s, t, top)
    BY <1>1, <1>2, TopAdvances
  <2>2. Head(s[top].remaining) = child
    BY <1>2
  <2> QED
    BY <2>1, <2>2 DEF IsAdvance
<1>4. child \in Present(f)
  BY <1>3 DEF Present
<1>5. PICK n : n = Neighbors(f[child])
  OBVIOUS
<1>6. n \in Seq(MetricIds) /\ Edges(f[child]) = Elements(n)
  BY <1>4, <1>5, RowsTyped DEF Edges
<1>7. PICK frame : frame = [node |-> child, remaining |-> n]
  OBVIOUS
<1>8. frame \in Frames /\ frame.node = child /\ frame.remaining = n
  BY <1>3, <1>6, <1>7 DEF Frames
<1>9. PICK u : u = Append(t, frame)
  OBVIOUS
<1>10. /\ u \in Seq(Frames) /\ Len(u) = top + 1 /\ u[top + 1] = frame
       /\ \A p \in 1 .. top : u[p] = t[p]
  BY <1>3, <1>8, <1>9
<1>11. q.stack = u
  BY <1>5, <1>7, <1>9
<1>12. /\ q.color \in Colors /\ q.color[child] = "gray"
       /\ \A x \in MetricIds : x # child => q.color[x] = r.color[x]
  BY <1>1, <1>3 DEF Colors
<1>13. Coloured(q) = Coloured(r) \cup {child} /\ child \notin Coloured(r)
  <2>1. child \notin Coloured(r)
    BY DEF Coloured
  <2>2. ASSUME NEW x \in MetricIds PROVE q.color[x] # "white" <=> r.color[x] # "white" \/ x = child
    BY <1>12
  <2> QED
    BY <1>3, <2>1, <2>2 DEF Coloured
<1>14. PICK e : e = [d EXCEPT ![child] = top]
  OBVIOUS
<1>15. e \in Depths /\ e[child] = top /\ \A x \in MetricIds : x # child => e[x] = d[x]
  BY <1>3, <1>14 DEF Depths
<1>16. \A x \in Coloured(r) : x \in MetricIds /\ e[x] = d[x]
  BY <1>13, <1>15 DEF Coloured
<1>17. PICK rest : rest = s[top].remaining
  OBVIOUS
<1>18. rest \in Seq(MetricIds) /\ rest # <<>> /\ child = Head(rest)
  <2>1. s[top] \in Frames
    BY <1>1, <1>2, <1>3
  <2> QED
    BY <1>2, <1>17, <2>1 DEF Frames
<1>19. /\ Elements(Tail(rest)) \subseteq Elements(rest) /\ child \in Elements(rest)
       /\ Elements(rest) \subseteq Elements(Tail(rest)) \cup {child}
  BY <1>18, HeadAndTail
<1>20. PICK i : i = r.def.id
  OBVIOUS
<1>21. \A x : EdgesOf(f, q.def.id, q.def, x) = EdgesOf(f, i, r.def, x)
  BY <1>20, Zenon
<1>22. \A p \in 1 .. top :
        /\ s[p].node \in Coloured(r) /\ d[s[p].node] = p - 1
        /\ Elements(s[p].remaining) \subseteq EdgesOf(f, i, r.def, s[p].node)
        /\ EdgesOf(f, i, r.def, s[p].node) \subseteq Coloured(r) \cup Elements(s[p].remaining)
  BY <1>2, <1>20 DEF WalkOk
<1>23. i \in Coloured(r) /\ child # i
  <2>1. 1 \in 1 .. top /\ s[1].node = i
    BY <1>1, <1>2, <1>3, <1>20 DEF WalkOk
  <2> QED
    BY <1>13, <1>22, <2>1
<1>24. EdgesOf(f, i, r.def, child) = Elements(n)
  BY <1>6, <1>23 DEF EdgesOf
<1>25. top \in 1 .. top /\ child \in EdgesOf(f, i, r.def, s[top].node)
  <2>1. top \in 1 .. top
    BY <1>1, <1>3
  <2> QED
    BY <1>17, <1>19, <1>22, <2>1
<1>26. ASSUME NEW p \in 1 .. top + 1
       PROVE  /\ u[p].node \in Coloured(q) /\ e[u[p].node] = p - 1
              /\ Elements(u[p].remaining) \subseteq EdgesOf(f, i, r.def, u[p].node)
              /\ EdgesOf(f, i, r.def, u[p].node) \subseteq Coloured(q) \cup Elements(u[p].remaining)
  <2>1. CASE p = top + 1
    <3>1. u[p].node = child /\ u[p].remaining = n
      BY <1>8, <1>10, <2>1
    <3>2. e[child] = p - 1
      BY <1>3, <1>15, <2>1
    <3> QED
      BY <1>13, <1>24, <3>1, <3>2
  <2>2. CASE p \in 1 .. top
    <3>1. u[p].node = s[p].node
      BY <1>3, <1>10, <2>2
    <3>2. u[p].node \in Coloured(q) /\ e[u[p].node] = p - 1
      BY <1>13, <1>16, <1>22, <2>2, <3>1
    <3>3. CASE p = top
      <4>1. u[p].remaining = Tail(rest) /\ s[p].remaining = rest
        BY <1>3, <1>10, <1>17, <2>2, <3>3
      <4> QED
        BY <1>13, <1>19, <1>22, <2>2, <3>1, <3>2, <4>1
    <3>4. CASE p # top
      <4>1. u[p] = s[p]
        BY <1>3, <1>10, <2>2, <3>4
      <4> QED
        BY <1>13, <1>22, <2>2, <3>2, <4>1
    <3> QED
      BY <3>3, <3>4
  <2> QED
    BY <1>3, <2>1, <2>2
<1>27. ASSUME NEW x \in Coloured(q)
       PROVE  /\ e[x] <= DepthCap
              /\ OnStack(q, x) \/ EdgesOf(f, i, r.def, x) \subseteq Coloured(q)
              /\ x # i => x \in Present(f)
                   /\ \E y \in Coloured(q) : e[x] = e[y] + 1 /\ x \in EdgesOf(f, i, r.def, y)
  <2>1. CASE x = child
    <3>1. e[x] <= DepthCap
      BY <1>15, <2>1
    <3>2. OnStack(q, x)
      <4>1. top + 1 \in 1 .. Len(q.stack) /\ q.stack[top + 1].node = x
        BY <1>3, <1>8, <1>10, <1>11, <2>1
      <4> QED
        BY <4>1 DEF OnStack
    <3>3. PICK y : y = s[top].node
      OBVIOUS
    <3>4. y \in Coloured(r) /\ d[y] = top - 1
      BY <1>22, <1>25, <3>3
    <3>5. y \in Coloured(q) /\ e[y] = top - 1 /\ x \in EdgesOf(f, i, r.def, y)
      BY <1>13, <1>16, <1>25, <2>1, <3>3, <3>4
    <3>6. e[x] = e[y] + 1
      BY <1>3, <1>15, <2>1, <3>5
    <3> QED
      BY <1>4, <2>1, <3>1, <3>2, <3>5, <3>6
  <2>2. CASE x # child
    <3>1. x \in Coloured(r)
      BY <1>13, <2>2
    <3>2. /\ d[x] <= DepthCap
          /\ OnStack(r, x) \/ EdgesOf(f, i, r.def, x) \subseteq Coloured(r)
          /\ x # i => x \in Present(f)
               /\ \E y \in Coloured(r) : d[x] = d[y] + 1 /\ x \in EdgesOf(f, i, r.def, y)
      BY <1>20, <3>1 DEF WalkOk
    <3>3. OnStack(r, x) => OnStack(q, x)
      <4>1. \A p \in 1 .. top : p \in 1 .. Len(q.stack) /\ q.stack[p].node = s[p].node
        BY <1>3, <1>10, <1>11
      <4> QED
        BY <1>2, <4>1 DEF OnStack
    <3>4. x # i => \E y \in Coloured(q) : e[x] = e[y] + 1 /\ x \in EdgesOf(f, i, r.def, y)
      BY <1>13, <1>16, <3>1, <3>2
    <3> QED
      BY <1>13, <1>16, <3>1, <3>2, <3>3, <3>4
  <2> QED
    BY <2>1, <2>2
<1>28. Len(q.stack) >= 1 /\ q.stack[1].node = q.def.id
  <2>1. 1 \in 1 .. top /\ s[1].node = r.def.id
    BY <1>1, <1>2, <1>3 DEF WalkOk
  <2>2. u[1].node = s[1].node
    BY <1>3, <1>10, <2>1
  <2> QED
    BY <1>3, <1>10, <1>11, <2>1, <2>2
<1>29. WalkOk(f, q, e)
  <2>1. q.def.id = i /\ q.def = r.def
    BY <1>20
  <2> QED
    BY <1>10, <1>11, <1>12, <1>26, <1>27, <1>28, <2>1 DEF WalkOk
<1> QED
  BY <1>10, <1>11, <1>12, <1>15, <1>29 DEF Walking

LEMMA StackHasLength ==
    ASSUME NEW s \in Seq(Frames)
    PROVE  Len(s) \in Nat
OBVIOUS

LEMMA OneLess ==
    ASSUME NEW n \in Nat, n >= 1, n # 1
    PROVE  n - 1 \in Nat /\ 1 \in 1 .. n - 1 /\ n \in 1 .. n
OBVIOUS

\* A frame with no children left is dropped, its metric done.
LEMMA WalkPops ==
    ASSUME NEW f, NEW r \in ActiveRequests, NEW d \in Depths, WalkOk(f, r, d),
           NEW top, top = Len(r.stack), r.stack[top].remaining = <<>>, top # 1,
           NEW q, q.def = r.def, q.color = [r.color EXCEPT ![r.stack[top].node] = "black"],
           q.stack = SubSeq(r.stack, 1, top - 1)
    PROVE  q.color \in Colors /\ q.stack \in Seq(Frames) /\ WalkOk(f, q, d)
<1>1. r.stack \in Seq(Frames) /\ top >= 1 /\ r.color \in Colors
  BY DEF ActiveRequests, WalkOk
<1>2. PICK s : s = r.stack
  OBVIOUS
<1>3. top \in Nat /\ top - 1 \in Nat /\ 1 \in 1 .. top - 1 /\ top \in 1 .. top /\ s \in Seq(Frames)
      /\ Len(s) = top
  <2>1. s \in Seq(Frames) /\ Len(s) = top
    BY <1>1, <1>2
  <2>2. top \in Nat
    BY <2>1, StackHasLength
  <2>3. top - 1 \in Nat /\ 1 \in 1 .. top - 1 /\ top \in 1 .. top
    BY <1>1, <2>2, OneLess
  <2> QED
    BY <2>1, <2>2, <2>3, Zenon
<1>4. PICK t : t = q.stack
  OBVIOUS
<1>5. t \in Seq(Frames) /\ Len(t) = top - 1 /\ \A p \in 1 .. top - 1 : t[p] = s[p]
  <2>1. t = SubSeq(s, 1, top - 1)
    BY <1>2, <1>4
  <2> QED
    BY <1>3, <2>1
<1>6. PICK i : i = r.def.id
  OBVIOUS
<1>7. \A x : EdgesOf(f, q.def.id, q.def, x) = EdgesOf(f, i, r.def, x)
  BY <1>6, Zenon
<1>8. \A p \in 1 .. top :
        /\ s[p].node \in Coloured(r) /\ d[s[p].node] = p - 1
        /\ Elements(s[p].remaining) \subseteq EdgesOf(f, i, r.def, s[p].node)
        /\ EdgesOf(f, i, r.def, s[p].node) \subseteq Coloured(r) \cup Elements(s[p].remaining)
  BY <1>2, <1>6 DEF WalkOk
<1>9. PICK n : n = s[top].node
  OBVIOUS
<1>10. n \in Coloured(r) /\ n \in MetricIds
  BY <1>3, <1>8, <1>9 DEF Coloured
<1>11. EdgesOf(f, i, r.def, n) \subseteq Coloured(r)
  <2>1. Elements(s[top].remaining) = {}
    <3>1. Elements(<<>>) = {}
      BY DEF Elements
    <3> QED
      BY <1>2, <3>1
  <2> QED
    BY <1>3, <1>8, <1>9, <2>1
<1>12. q.color = [r.color EXCEPT ![n] = "black"]
  BY <1>2, <1>9
<1>13. /\ q.color \in Colors /\ q.color[n] = "black"
       /\ \A x \in MetricIds : x # n => q.color[x] = r.color[x]
  BY <1>1, <1>10, <1>12 DEF Colors
<1>14. Coloured(q) = Coloured(r)
  <2>1. ASSUME NEW x \in MetricIds PROVE q.color[x] # "white" <=> r.color[x] # "white"
    BY <1>10, <1>13 DEF Coloured
  <2> QED
    BY <2>1 DEF Coloured
<1>15. Len(q.stack) >= 1 /\ q.stack[1].node = q.def.id
  <2>1. s[1].node = r.def.id
    BY <1>2 DEF WalkOk
  <2> QED
    BY <1>3, <1>4, <1>5, <2>1
<1>16. ASSUME NEW p \in 1 .. top - 1
       PROVE  /\ t[p].node \in Coloured(r) /\ d[t[p].node] = p - 1
              /\ Elements(t[p].remaining) \subseteq EdgesOf(f, i, r.def, t[p].node)
              /\ EdgesOf(f, i, r.def, t[p].node) \subseteq Coloured(r) \cup Elements(t[p].remaining)
  <2>1. p \in 1 .. top /\ t[p] = s[p]
    BY <1>3, <1>5
  <2> QED
    BY <1>8, <2>1
<1>17. ASSUME NEW x \in Coloured(r)
       PROVE  /\ d[x] <= DepthCap
              /\ OnStack(q, x) \/ EdgesOf(f, i, r.def, x) \subseteq Coloured(r)
              /\ x # i => x \in Present(f)
                   /\ \E y \in Coloured(r) : d[x] = d[y] + 1 /\ x \in EdgesOf(f, i, r.def, y)
  <2>1. /\ d[x] <= DepthCap
        /\ OnStack(r, x) \/ EdgesOf(f, i, r.def, x) \subseteq Coloured(r)
        /\ x # i => x \in Present(f)
             /\ \E y \in Coloured(r) : d[x] = d[y] + 1 /\ x \in EdgesOf(f, i, r.def, y)
    BY <1>6 DEF WalkOk
  <2>2. OnStack(r, x) => x = n \/ OnStack(q, x)
    <3> SUFFICES ASSUME OnStack(r, x), x # n PROVE OnStack(q, x)
      OBVIOUS
    <3>1. PICK p \in 1 .. top : s[p].node = x
      BY <1>2 DEF OnStack
    <3>2. p # top
      BY <1>9, <3>1
    <3>3. p \in 1 .. top - 1
      BY <1>3, <3>2
    <3> QED
      BY <1>4, <1>5, <3>1, <3>3 DEF OnStack
  <2> QED
    BY <1>11, <2>1, <2>2
<1>18. WalkOk(f, q, d)
  <2>1. q.def.id = i /\ q.def = r.def
    BY <1>6
  <2> QED
    BY <1>4, <1>5, <1>13, <1>14, <1>15, <1>16, <1>17, <2>1 DEF WalkOk
<1> QED
  BY <1>4, <1>5, <1>13, <1>18

\* Back at the root with nothing left, the coloured metrics cover it.
LEMMA WalkFinishes ==
    ASSUME NEW f, NEW r \in ActiveRequests, NEW d \in Depths, WalkOk(f, r, d),
           Len(r.stack) = 1, r.stack[1].remaining = <<>>
    PROVE  Covered(f, r.def.id, r.def)
<1>1. PICK i : i = r.def.id
  OBVIOUS
<1>2. PICK V : V = Coloured(r)
  OBVIOUS
<1>3. 1 \in 1 .. Len(r.stack) /\ \A p \in 1 .. Len(r.stack) : p = 1
  OBVIOUS
<1>4. /\ r.stack[1].node = i /\ i \in V /\ d[i] = 0
      /\ EdgesOf(f, i, r.def, i) \subseteq V \cup Elements(r.stack[1].remaining)
  <2>1. /\ r.stack[1].node = i /\ r.stack[1].node \in Coloured(r) /\ d[r.stack[1].node] = 1 - 1
        /\ EdgesOf(f, i, r.def, r.stack[1].node) \subseteq Coloured(r) \cup Elements(r.stack[1].remaining)
    BY <1>1, <1>3 DEF WalkOk
  <2> QED
    BY <1>2, <2>1
<1>5. EdgesOf(f, i, r.def, i) \subseteq V
  <2>1. Elements(<<>>) = {}
    BY DEF Elements
  <2> QED
    BY <1>4, <2>1
<1>6. ASSUME NEW x \in V
      PROVE  /\ d[x] <= DepthCap /\ EdgesOf(f, i, r.def, x) \subseteq V
             /\ x # i => x \in Present(f)
                  /\ \E y \in V : d[x] = d[y] + 1 /\ x \in EdgesOf(f, i, r.def, y)
  <2>1. /\ d[x] <= DepthCap
        /\ OnStack(r, x) \/ EdgesOf(f, i, r.def, x) \subseteq V
        /\ x # i => x \in Present(f)
             /\ \E y \in V : d[x] = d[y] + 1 /\ x \in EdgesOf(f, i, r.def, y)
    BY <1>1, <1>2 DEF WalkOk
  <2>2. OnStack(r, x) => x = i
    BY <1>3, <1>4 DEF OnStack
  <2> QED
    BY <1>5, <2>1, <2>2
<1>7. V \in SUBSET MetricIds
  BY <1>2 DEF Coloured
<1>8. Covers(f, i, r.def, V, d)
  BY <1>4, <1>6, <1>7 DEF Covers
<1> QED
  BY <1>1, <1>7, <1>8 DEF Covered

\* A walk that goes on.
LEMMA WalkGoesOn ==
    ASSUME CatalogInv, NEW h \in Handlers, NEW r, r = st.req[h], r.phase = "walk",
           NEW color \in Colors, NEW stack \in Seq(Frames),
           NEW q, q = [r EXCEPT !.color = color, !.stack = stack], Walking(st.metric, q),
           st' = Continue(h, q)
    PROVE  CatalogInv'
<1>1. r \in ActiveRequests /\ RequestOk(st.metric, r)
  BY RequestIsActive
<1>2. q \in ActiveRequests /\ q.phase = "walk" /\ q.kind = r.kind /\ q.def = r.def /\ q.old = r.old
  BY <1>1 DEF ActiveRequests
<1>3. StaticCheck(q.def) = "ok" /\ Edges(q.def) \subseteq Present(st.metric)
  BY <1>1, <1>2 DEF RequestOk
<1>4. q.kind = "migrate" =>
        /\ q.def.type # "CUSTOM" /\ q.old \in MetricIds
        /\ q.old \in Present(st.metric) /\ st.metric[q.old].type = "CUSTOM"
  BY <1>1, <1>2 DEF RequestOk
<1>5. RequestOk(st.metric, q)
  BY <1>2, <1>3, <1>4 DEF RequestOk
<1>6. st' = [st EXCEPT !.req = [st.req EXCEPT ![h] = q]]
  BY DEF Continue
<1> QED
  BY <1>2, <1>5, <1>6, RequestGoesOn

LEMMA WalkChildKeeps ==
    ASSUME CatalogInv, NEW h \in Handlers, WalkChild(h)
    PROVE  CatalogInv'
<1>1. PICK r, top, child : r = st.req[h] /\ top = Len(r.stack) /\ child = Head(r.stack[top].remaining)
  OBVIOUS
<1>2. r.phase = "walk" /\ r.stack[top].remaining # <<>>
  BY <1>1 DEF WalkChild
<1>3. r \in ActiveRequests /\ RequestOk(st.metric, r)
  BY <1>1, <1>2, RequestIsActive
<1>4. PICK d \in Depths : WalkOk(st.metric, r, d)
  BY <1>2, <1>3 DEF RequestOk, Walking
<1>5. r.color \in Colors /\ r.stack \in Seq(Frames) /\ top >= 1
  BY <1>1, <1>3, <1>4 DEF WalkOk, ActiveRequests
<1>6. PICK t : t = Advance(r.stack)
  OBVIOUS
<1>7. t \in Seq(Frames) /\ child \in MetricIds
  <2>1. IsAdvance(r.stack, t, top)
    BY <1>1, <1>2, <1>5, <1>6, TopAdvances
  <2> QED
    BY <1>1, <2>1 DEF IsAdvance
<1>8. [r EXCEPT !.stack[top].remaining = Tail(@)] = [r EXCEPT !.stack = t]
  BY <1>1, <1>6 DEF Advance
<1>9. st.metric \in [MetricIds -> Rows]
  <2>1. st \in CatalogStates
    BY DEF CatalogInv
  <2> QED
    BY <2>1 DEF CatalogStates
<1>10. CASE st' = [st EXCEPT !.req = Done(h)]
  BY <1>10, RequestEnds
<1>11. CASE r.color[child] = "black" /\ st' = Continue(h, [r EXCEPT !.stack = t])
  <2>1. PICK q : q = [r EXCEPT !.color = r.color, !.stack = t]
    OBVIOUS
  <2>2. q = [r EXCEPT !.stack = t] /\ q.def = r.def /\ q.color = r.color /\ q.stack = t
    BY <1>3, <2>1 DEF ActiveRequests
  <2>3. child \in Coloured(r)
    BY <1>7, <1>11 DEF Coloured
  <2>4. WalkOk(st.metric, q, d)
    BY <1>1, <1>2, <1>3, <1>4, <1>6, <2>2, <2>3, WalkSkips
  <2>5. Walking(st.metric, q)
    BY <2>4 DEF Walking
  <2>6. st' = Continue(h, q)
    BY <1>11, <2>2
  <2> QED
    BY <1>1, <1>2, <1>5, <1>7, <2>1, <2>5, <2>6, WalkGoesOn
<1>12. CASE /\ ~TooDeep(r) /\ r.color[child] = "white" /\ st.metric[child] # NoMetric
            /\ st' = Continue(h, [[r EXCEPT !.stack = t] EXCEPT
                    !.color[child] = "gray",
                    !.stack = Append(@, [node |-> child, remaining |-> Neighbors(st.metric[child])])])
  <2>1. PICK color, stack :
          /\ color = [r.color EXCEPT ![child] = "gray"]
          /\ stack = Append(t, [node |-> child, remaining |-> Neighbors(st.metric[child])])
    OBVIOUS
  <2>2. PICK q : q = [r EXCEPT !.color = color, !.stack = stack]
    OBVIOUS
  <2>3. q.def = r.def /\ q.color = color /\ q.stack = stack
    BY <1>3, <2>2 DEF ActiveRequests
  <2>4. [[r EXCEPT !.stack = t] EXCEPT
            !.color[child] = "gray",
            !.stack = Append(@, [node |-> child, remaining |-> Neighbors(st.metric[child])])] = q
    BY <1>3, <2>1, <2>2 DEF ActiveRequests
  <2>5. top <= DepthCap
    <3>1. top \in Nat
      BY <1>1, <1>5, StackHasLength, Zenon
    <3>2. DepthCap \in Nat
      BY CatalogAssumption
    <3>3. ~(top > DepthCap)
      <4>1. ~TooDeep(r)
        BY <1>12
      <4> QED
        BY <1>1, <4>1 DEF TooDeep
    <3> QED
      BY <3>1, <3>2, <3>3
  <2>6. color \in Colors /\ stack \in Seq(Frames) /\ Walking(st.metric, q)
    <3>1. q.color = [r.color EXCEPT ![child] = "gray"]
          /\ q.stack = Append(t, [node |-> child, remaining |-> Neighbors(st.metric[child])])
      BY <2>1, <2>3
    <3>2. r.color[child] = "white" /\ st.metric[child] # NoMetric
      BY <1>12
    <3>3. PICK f \in [MetricIds -> Rows] : f = st.metric
      BY <1>9
    <3>4. WalkOk(f, r, d) /\ f[child] # NoMetric
          /\ q.stack = Append(t, [node |-> child, remaining |-> Neighbors(f[child])])
      BY <1>4, <3>1, <3>2, <3>3, Zenon
    <3>5. q.color \in Colors /\ q.stack \in Seq(Frames) /\ Walking(f, q)
      <4>1. Pushes(f, r, q)
        BY <1>1, <1>2, <1>6, <2>3, <2>5, <3>1, <3>2, <3>4 DEF Pushes
      <4> QED
        BY <1>3, <1>4, <3>3, <3>4, <4>1, WalkPushes
    <3>6. q.color \in Colors /\ q.stack \in Seq(Frames) /\ Walking(st.metric, q)
      BY <3>3, <3>5
    <3> QED
      BY <2>3, <3>6
  <2>7. st' = Continue(h, q)
    BY <1>12, <2>4
  <2> QED
    BY <1>1, <1>2, <2>2, <2>6, <2>7, WalkGoesOn
<1> QED
  BY <1>1, <1>8, <1>10, <1>11, <1>12 DEF WalkChild

LEMMA WalkReturnKeeps ==
    ASSUME CatalogInv, NEW h \in Handlers, WalkReturn(h)
    PROVE  CatalogInv'
<1>1. PICK r, top : r = st.req[h] /\ top = Len(r.stack)
  OBVIOUS
<1>2. r.phase = "walk" /\ r.stack[top].remaining = <<>>
  BY <1>1 DEF WalkReturn
<1>3. r \in ActiveRequests /\ RequestOk(st.metric, r)
  BY <1>1, <1>2, RequestIsActive
<1>4. PICK d \in Depths : WalkOk(st.metric, r, d)
  BY <1>2, <1>3 DEF RequestOk, Walking
<1>5. CASE top = 1
  <2>1. st' = Continue(h, AfterWalk(r))
    BY <1>1, <1>5 DEF WalkReturn
  <2>2. Covered(st.metric, r.def.id, r.def)
    BY <1>1, <1>2, <1>3, <1>4, <1>5, WalkFinishes
  <2>3. Edges(r.def) \subseteq Present(st.metric)
    BY <1>2, <1>3 DEF RequestOk
  <2> QED
    BY <1>1, <1>2, <2>1, <2>2, <2>3, AfterWalkKeeps
<1>6. CASE top # 1
  <2>1. PICK color, stack :
          color = [r.color EXCEPT ![r.stack[top].node] = "black"] /\ stack = SubSeq(r.stack, 1, top - 1)
    OBVIOUS
  <2>2. PICK q : q = [r EXCEPT !.color = color, !.stack = stack]
    OBVIOUS
  <2>3. q.def = r.def /\ q.color = color /\ q.stack = stack
    BY <1>3, <2>2 DEF ActiveRequests
  <2>4. st' = Continue(h, q)
    BY <1>1, <1>6, <2>1, <2>2 DEF WalkReturn
  <2>5. color \in Colors /\ stack \in Seq(Frames) /\ WalkOk(st.metric, q, d)
    <3>1. q.color = [r.color EXCEPT ![r.stack[top].node] = "black"] /\ q.stack = SubSeq(r.stack, 1, top - 1)
      BY <2>1, <2>3
    <3>2. q.color \in Colors /\ q.stack \in Seq(Frames) /\ WalkOk(st.metric, q, d)
      BY <1>1, <1>2, <1>3, <1>4, <1>6, <2>3, <3>1, WalkPops
    <3> QED
      BY <2>3, <3>2
  <2>6. Walking(st.metric, q)
    BY <2>5 DEF Walking
  <2> QED
    BY <1>1, <1>2, <2>2, <2>4, <2>5, <2>6, WalkGoesOn
<1> QED
  BY <1>5, <1>6

LEMMA CheckShadowKeeps ==
    ASSUME CatalogInv, NEW h \in Handlers, CheckShadow(h)
    PROVE  CatalogInv'
<1>1. PICK r : r = st.req[h]
  OBVIOUS
<1>2. r.phase = "shadow"
  BY <1>1 DEF CheckShadow
<1>3. r \in ActiveRequests /\ RequestOk(st.metric, r)
  BY <1>1, <1>2, RequestIsActive
<1>4. CASE r.shadow \in st.approved
  <2>1. PICK q : q = [r EXCEPT !.phase = "insert"]
    OBVIOUS
  <2>2. q \in ActiveRequests /\ q.phase = "insert" /\ q.kind = r.kind /\ q.def = r.def /\ q.old = r.old
    BY <1>3, <2>1 DEF ActiveRequests, Phases
  <2>3. RequestOk(st.metric, q)
    BY <1>2, <1>3, <2>2 DEF RequestOk
  <2>4. st' = [st EXCEPT !.req = [st.req EXCEPT ![h] = q]]
    BY <1>1, <1>4, <2>1 DEF CheckShadow, Continue
  <2> QED
    BY <2>2, <2>3, <2>4, RequestGoesOn
<1>5. CASE r.shadow \notin st.approved
  BY <1>1, <1>5, RequestEnds DEF CheckShadow
<1> QED
  BY <1>4, <1>5

-----------------------------------------------------------------------------
(* The insert.  What the new metric reads was stored before it, so nothing *)
(* stored before it can read it.                                           *)

Settled(f) == \A i \in Present(f) : Covered(f, i, f[i]) /\ Grounded(f, i)

LEMMA StoredReadStored ==
    ASSUME NEW f, Settled(f), NEW x \in Present(f)
    PROVE  Edges(f[x]) \subseteq Present(f)
<1>1. PICK V \in SUBSET MetricIds, d \in Depths : Covers(f, x, f[x], V, d)
  BY DEF Settled, Covered
<1>2. EdgesOf(f, x, f[x], x) \subseteq V /\ V \subseteq Present(f) \cup {x}
  BY <1>1 DEF Covers
<1> QED
  BY <1>2 DEF EdgesOf

LEMMA CoveredByEdges ==
    ASSUME NEW g, NEW i, NEW m, NEW n, Covered(g, i, m), Edges(n) = Edges(m)
    PROVE  Covered(g, i, n)
<1>1. PICK V \in SUBSET MetricIds, d \in Depths : Covers(g, i, m, V, d)
  BY DEF Covered
<1>2. \A x : EdgesOf(g, i, n, x) = EdgesOf(g, i, m, x)
  BY DEF EdgesOf
<1>3. Covers(g, i, n, V, d)
  BY <1>1, <1>2 DEF Covers
<1> QED
  BY <1>3 DEF Covered

LEMMA InsertKeeps ==
    ASSUME NEW f \in [MetricIds -> Rows], Settled(f), NEW m \in AcceptedDefinitions, m.id \notin Present(f),
           Edges(m) \subseteq Present(f), Covered(f, m.id, m),
           NEW g, g = [f EXCEPT ![m.id] = build_metric_type_config(m)]
    PROVE  /\ g \in [MetricIds -> Rows] /\ Grows(f, g) /\ Settled(g)
           /\ m.id \in Present(g) /\ g[m.id].type = m.type
<1>1. PICK i : i = m.id
  OBVIOUS
<1>2. m \in Definitions /\ i \in MetricIds
  BY <1>1, CatalogAssumption DEF AcceptedDefinitions
<1>3. PICK n : n = build_metric_type_config(m)
  OBVIOUS
<1>4. n \in Rows /\ n # NoMetric /\ n.type = m.type /\ Edges(n) = Edges(m)
  BY <1>2, <1>3, BuildKeeps DEF Rows, Edges
<1>5. g = [f EXCEPT ![i] = n]
  BY <1>1, <1>3
<1>6. g \in [MetricIds -> Rows] /\ g[i] = n /\ \A x \in MetricIds : x # i => g[x] = f[x]
  BY <1>2, <1>4, <1>5
<1>7. f[i] = NoMetric
  BY <1>1, <1>2 DEF Present
<1>8. Grows(f, g)
  BY <1>6, <1>7 DEF Grows
<1>9. i \in Present(g) /\ Present(g) \subseteq Present(f) \cup {i} /\ i \notin Present(f)
  BY <1>1, <1>2, <1>4, <1>6 DEF Present
<1>10. Covered(g, i, g[i])
  <2>1. Covered(g, i, m)
    BY <1>1, <1>8, GrowsCovered
  <2> QED
    BY <1>4, <1>6, <2>1, CoveredByEdges
<1>11. Grounded(g, i)
  <2>1. PICK V : V = Present(f)
    OBVIOUS
  <2>2. V \subseteq Present(g) /\ \A x \in V : g[x] = f[x]
    BY <1>8, <2>1, GrowsPresent
  <2>3. \A x \in V : Edges(g[x]) \subseteq V
    BY <2>1, <2>2, StoredReadStored
  <2>4. Edges(g[i]) \subseteq V /\ i \notin V
    BY <1>4, <1>6, <1>9, <2>1
  <2>5. Beneath(g, i, V)
    BY <2>2, <2>3, <2>4 DEF Beneath
  <2>6. V \in SUBSET MetricIds
    BY <2>1 DEF Present
  <2> QED
    BY <2>5, <2>6 DEF Grounded
<1>12. ASSUME NEW x \in Present(g) PROVE Covered(g, x, g[x]) /\ Grounded(g, x)
  <2>1. CASE x = i
    BY <1>10, <1>11, <2>1
  <2>2. CASE x # i
    <3>1. x \in Present(f)
      BY <1>9, <2>2
    <3>2. g[x] = f[x] /\ Covered(f, x, f[x]) /\ Grounded(f, x)
      BY <1>8, <3>1, GrowsPresent DEF Settled
    <3> QED
      BY <1>8, <3>1, <3>2, GrowsCovered, GrowsGrounded
  <2> QED
    BY <2>1, <2>2
<1> QED
  BY <1>1, <1>4, <1>6, <1>8, <1>9, <1>12 DEF Settled

Audits == [old : MetricIds, new : MetricIds, shadow : {r.shadow : r \in MetricRequests}]

LEMMA CatalogTyped ==
    ASSUME CatalogInv
    PROVE  /\ st \in CatalogStates /\ st.metric \in [MetricIds -> Rows] /\ Settled(st.metric)
           /\ st.migrations \in SUBSET Audits /\ MigrationsOk(st.metric, st.migrations)
           /\ st.req \in [Handlers -> {NoRequest} \cup ActiveRequests]
<1>1. st \in CatalogStates
  BY DEF CatalogInv
<1>2. st.metric \in [MetricIds -> Rows] /\ st.migrations \in SUBSET Audits
      /\ st.req \in [Handlers -> {NoRequest} \cup ActiveRequests]
  BY <1>1 DEF CatalogStates, Audits
<1> QED
  BY <1>1, <1>2 DEF CatalogInv, Settled

\* A request whose insert goes through, with its audit row or without.
LEMMA StoreKeeps ==
    ASSUME CatalogInv, NEW h \in Handlers, NEW r, r = st.req[h], r.phase = "insert",
           ~exists_metric(r.def.id), NEW M \in SUBSET Audits, NEW g, g = Inserted(r.def),
           Grows(st.metric, g) /\ r.def.id \in Present(g) /\ g[r.def.id].type = r.def.type
             => MigrationsOk(g, M),
           st' = [st EXCEPT !.req = Done(h), !.metric = g, !.migrations = M]
    PROVE  CatalogInv'
<1>1. /\ st \in CatalogStates /\ st.metric \in [MetricIds -> Rows] /\ Settled(st.metric)
      /\ st.req \in [Handlers -> {NoRequest} \cup ActiveRequests]
  BY CatalogTyped
<1>2. PICK f \in [MetricIds -> Rows] : f = st.metric
  BY <1>1
<1>3. r \in ActiveRequests /\ RequestOk(st.metric, r)
  BY RequestIsActive
<1>4. PICK m : m = r.def
  OBVIOUS
<1>5. m \in AcceptedDefinitions /\ Edges(m) \subseteq Present(f) /\ Covered(f, m.id, m)
  <2>1. m \in Definitions
    BY <1>3, <1>4 DEF ActiveRequests
  <2>2. StaticCheck(m) = "ok" /\ Edges(m) \subseteq Present(f) /\ Covered(f, m.id, m)
    BY <1>2, <1>3, <1>4 DEF RequestOk
  <2> QED
    BY <2>1, <2>2 DEF AcceptedDefinitions
<1>6. m.id \notin Present(f)
  BY <1>2, <1>4 DEF exists_metric, Present
<1>7. g = [f EXCEPT ![m.id] = build_metric_type_config(m)] /\ Settled(f)
  BY <1>1, <1>2, <1>4 DEF Inserted
<1>8. /\ g \in [MetricIds -> Rows] /\ Grows(f, g) /\ Settled(g)
      /\ m.id \in Present(g) /\ g[m.id].type = m.type
  BY <1>5, <1>6, <1>7, InsertKeeps
<1>9. MigrationsOk(g, M)
  BY <1>2, <1>4, <1>8
<1>10. PICK q : q = Done(h)
  OBVIOUS
<1>11. /\ q \in [Handlers -> {NoRequest} \cup ActiveRequests] /\ q[h] = NoRequest
       /\ \A k \in Handlers : k # h => q[k] = st.req[k]
  <2>1. PICK R : R = {NoRequest} \cup ActiveRequests
    OBVIOUS
  <2>2. NoRequest \in R /\ st.req \in [Handlers -> R]
    BY <1>1, <2>1
  <2>3. q \in [Handlers -> R] /\ q[h] = NoRequest /\ \A k \in Handlers : k # h => q[k] = st.req[k]
    BY <1>10, <2>2 DEF Done
  <2> QED
    BY <2>1, <2>3
<1>12. st' \in CatalogStates /\ st'.metric = g /\ st'.migrations = M /\ st'.req = q
  <2>1. st' = [st EXCEPT !.req = q, !.metric = g, !.migrations = M]
    BY <1>10
  <2> QED
    BY <1>1, <1>8, <1>11, <2>1 DEF CatalogStates, Audits
<1>13. ASSUME NEW k \in Handlers PROVE RequestOk(g, q[k])
  <2>1. CASE k = h
    BY <1>11, <2>1 DEF RequestOk, NoRequest
  <2>2. CASE k # h
    <3>1. RequestOk(f, q[k])
      BY <1>2, <1>11, <2>2 DEF CatalogInv
    <3> QED
      BY <1>8, <3>1, GrowsRequest
  <2> QED
    BY <2>1, <2>2
<1> QED
  BY <1>8, <1>9, <1>12, <1>13 DEF CatalogInv, Settled

LEMMA CreateKeeps ==
    ASSUME CatalogInv, NEW h \in Handlers, create_metric(h)
    PROVE  CatalogInv'
<1>1. PICK r : r = st.req[h]
  OBVIOUS
<1>2. r.phase = "insert"
  BY <1>1 DEF create_metric
<1>3. /\ st \in CatalogStates /\ st.migrations \in SUBSET Audits
      /\ MigrationsOk(st.metric, st.migrations)
  BY CatalogTyped
<1>4. CASE exists_metric(r.def.id)
  <2>1. st' = [st EXCEPT !.req = Done(h)]
    BY <1>1, <1>3, <1>4 DEF create_metric, CatalogStates
  <2> QED
    BY <2>1, RequestEnds
<1>5. CASE ~exists_metric(r.def.id)
  <2>1. PICK g : g = Inserted(r.def)
    OBVIOUS
  <2>2. PICK M \in SUBSET Audits : M = st.migrations
    BY <1>3
  <2>3. st' = [st EXCEPT !.req = Done(h), !.metric = g, !.migrations = M]
    BY <1>1, <1>3, <1>5, <2>1, <2>2 DEF create_metric, CatalogStates
  <2>4. Grows(st.metric, g) => MigrationsOk(g, M)
    BY <1>3, <2>2, GrowsMigrations
  <2> QED
    BY <1>1, <1>2, <1>5, <2>1, <2>2, <2>3, <2>4, StoreKeeps
<1> QED
  BY <1>4, <1>5

LEMMA MigrateKeeps ==
    ASSUME CatalogInv, NEW h \in Handlers, migrate_metric(h)
    PROVE  CatalogInv'
<1>1. PICK r : r = st.req[h]
  OBVIOUS
<1>2. r.phase = "insert" /\ r.kind = "migrate"
  BY <1>1 DEF migrate_metric
<1>3. /\ st \in CatalogStates /\ st.migrations \in SUBSET Audits
      /\ MigrationsOk(st.metric, st.migrations)
  BY CatalogTyped
<1>4. r \in ActiveRequests /\ RequestOk(st.metric, r)
  BY <1>1, <1>2, RequestIsActive
<1>5. CASE ~(~exists_metric(r.def.id) /\ ~Migrated(r))
  <2>1. st' = [st EXCEPT !.req = Done(h)]
    BY <1>1, <1>3, <1>5 DEF migrate_metric, CatalogStates
  <2> QED
    BY <2>1, RequestEnds
<1>6. CASE ~exists_metric(r.def.id) /\ ~Migrated(r)
  <2>1. PICK g : g = Inserted(r.def)
    OBVIOUS
  <2>2. PICK a : a = [old |-> r.old, new |-> r.def.id, shadow |-> r.shadow]
    OBVIOUS
  <2>3. r.def.type # "CUSTOM" /\ r.old \in Present(st.metric) /\ st.metric[r.old].type = "CUSTOM"
    BY <1>2, <1>4 DEF RequestOk
  <2>4. r.old \in MetricIds /\ r.def.id \in MetricIds /\ r.shadow \in {x.shadow : x \in MetricRequests}
    <3>1. r.def \in Definitions
      BY <1>4 DEF ActiveRequests
    <3>2. r.def.id \in MetricIds
      BY <3>1, CatalogAssumption
    <3> QED
      BY <1>4, <2>3, <3>2 DEF ActiveRequests, Present
  <2>5. a \in Audits /\ a.old = r.old /\ a.new = r.def.id
    BY <2>2, <2>4 DEF Audits
  <2>6. PICK M \in SUBSET Audits : M = st.migrations \cup {a}
    BY <1>3, <2>5
  <2>7. st' = [st EXCEPT !.req = Done(h), !.metric = g, !.migrations = M]
    BY <1>1, <1>3, <1>6, <2>1, <2>2, <2>6 DEF migrate_metric, CatalogStates
  <2>8. ASSUME Grows(st.metric, g), r.def.id \in Present(g), g[r.def.id].type = r.def.type
        PROVE  MigrationsOk(g, M)
    <3>1. MigrationsOk(g, st.migrations)
      BY <1>3, <2>8, GrowsMigrations
    <3>2. \A x \in st.migrations : x.old # a.old
      BY <1>6, <2>5 DEF Migrated
    <3>3. a.old \in Present(g) /\ a.new \in Present(g) /\ g[a.old].type = "CUSTOM" /\ g[a.new].type # "CUSTOM"
      BY <2>3, <2>5, <2>8, GrowsPresent
    <3> QED
      BY <2>6, <3>1, <3>2, <3>3 DEF MigrationsOk
  <2> QED
    BY <1>1, <1>2, <1>6, <2>1, <2>6, <2>7, <2>8, StoreKeeps
<1> QED
  BY <1>5, <1>6

LEMMA ApproveKeeps ==
    ASSUME CatalogInv, NEW s \in ShadowRuns, ApproveShadow(s)
    PROVE  CatalogInv'
<1>1. st \in CatalogStates
  BY DEF CatalogInv
<1>2. /\ st' \in CatalogStates /\ st'.metric = st.metric /\ st'.migrations = st.migrations /\ st'.req = st.req
  <2>1. PICK a : a = st.approved \cup {s}
    OBVIOUS
  <2>2. a \in SUBSET ShadowRuns
    BY <1>1, <2>1 DEF CatalogStates
  <2>3. st' = [st EXCEPT !.approved = a]
    BY <2>1 DEF ApproveShadow
  <2> QED
    BY <1>1, <2>2, <2>3 DEF CatalogStates
<1> QED
  BY <1>2 DEF CatalogInv

LEMMA CatalogStarts ==
    ASSUME CatalogInit
    PROVE  CatalogInv
<1>1. PICK f, q : f = [i \in MetricIds |-> NoMetric] /\ q = [h \in Handlers |-> NoRequest]
  OBVIOUS
<1>2. f \in [MetricIds -> Rows] /\ Present(f) = {}
  BY <1>1 DEF Rows, Present
<1>3. q \in [Handlers -> {NoRequest} \cup ActiveRequests] /\ \A h \in Handlers : q[h] = NoRequest
  <2>1. PICK R : R = {NoRequest} \cup ActiveRequests
    OBVIOUS
  <2>2. NoRequest \in R
    BY <2>1
  <2>3. q \in [Handlers -> R] /\ \A h \in Handlers : q[h] = NoRequest
    BY <1>1, <2>2
  <2> QED
    BY <2>1, <2>3
<1>4. st \in CatalogStates /\ st.metric = f /\ st.migrations = {} /\ st.req = q
  <2>1. st = [algo |-> "catalog", metric |-> f, migrations |-> {}, approved |-> {}, calls |-> 0, req |-> q]
    BY <1>1 DEF CatalogInit
  <2> QED
    BY <1>2, <1>3, <2>1 DEF CatalogStates
<1>5. RequestOk(f, NoRequest)
  BY DEF RequestOk, NoRequest
<1>6. MigrationsOk(f, {})
  BY DEF MigrationsOk
<1> QED
  BY <1>2, <1>3, <1>4, <1>5, <1>6 DEF CatalogInv

LEMMA CatalogKeeps ==
    ASSUME CatalogInv, [CatalogNext]_st
    PROVE  CatalogInv'
<1>1. CASE UNCHANGED st
  BY <1>1 DEF CatalogInv
<1>2. CASE \E s \in ShadowRuns : ApproveShadow(s)
  BY <1>2, ApproveKeeps
<1>3. ASSUME NEW h \in Handlers, NEW r \in MetricRequests, create_metric_definition(h, r) PROVE CatalogInv'
  BY <1>3, AcceptKeeps DEF create_metric_definition
<1>4. ASSUME NEW h \in Handlers, NEW r \in MetricRequests, migrate_metric_definition(h, r) PROVE CatalogInv'
  BY <1>4, AcceptKeeps DEF migrate_metric_definition
<1>5. ASSUME NEW h \in Handlers,
             \/ CheckOld(h) \/ CheckExists(h) \/ WalkChild(h) \/ WalkReturn(h)
             \/ CheckShadow(h) \/ create_metric(h) \/ migrate_metric(h)
      PROVE  CatalogInv'
  BY <1>5, CheckOldKeeps, CheckExistsKeeps, WalkChildKeeps, WalkReturnKeeps, CheckShadowKeeps,
     CreateKeeps, MigrateKeeps
<1> QED
  BY <1>1, <1>2, <1>3, <1>4, <1>5 DEF CatalogNext

-----------------------------------------------------------------------------
(* What the property computes from the catalog: the metrics reachable in n *)
(* steps stay inside a closed set, and attain every depth up to n.         *)

Widen(f, X) == X \cup UNION {Elements(Neighbors(f[x])) : x \in {y \in X : f[y] # NoMetric}}
Reaches(f, m, n, g) == g = [k \in 0 .. n |-> IF k = 0 THEN {m} ELSE Widen(f, g[k - 1])]

LEMMA WidenIs ==
    ASSUME NEW f, NEW X
    PROVE  /\ X \subseteq Widen(f, X)
           /\ \A x \in X : f[x] # NoMetric => Edges(f[x]) \subseteq Widen(f, X)
           /\ \A y \in Widen(f, X) : y \in X \/ \E x \in X : f[x] # NoMetric /\ y \in Edges(f[x])
BY DEF Widen, Edges

LEMMA ReachExists ==
    ASSUME NEW f, NEW m, NEW n \in Nat
    PROVE  \E g : Reaches(f, m, n, g)
<1> DEFINE P(k) == \E g : g = [j \in 0 .. k |-> g[j]] /\ g[0] = {m} /\ \A j \in 1 .. k : g[j] = Widen(f, g[j - 1])
           T == {k \in Nat : P(k)}
<1>1. 0 \in T
  <2>1. PICK g : g = [j \in 0 .. 0 |-> {m}]
    OBVIOUS
  <2>2. g[0] = {m} /\ g = [j \in 0 .. 0 |-> g[j]]
    BY <2>1
  <2>3. \A j \in 1 .. 0 : FALSE
    OBVIOUS
  <2> QED
    BY <2>2, <2>3
<1>2. ASSUME NEW k \in Nat, k \in T PROVE k + 1 \in T
  <2>0. P(k)
    BY <1>2
  <2> HIDE DEF P
  <2> SUFFICES P(k + 1)
    OBVIOUS
  <2> USE DEF P
  <2>1. PICK g : g = [j \in 0 .. k |-> g[j]] /\ g[0] = {m} /\ \A j \in 1 .. k : g[j] = Widen(f, g[j - 1])
    BY <2>0
  <2>2. PICK e : e = [j \in 0 .. k + 1 |-> IF j = k + 1 THEN Widen(f, g[k]) ELSE g[j]]
    OBVIOUS
  <2>3. e[0] = {m} /\ e = [j \in 0 .. k + 1 |-> e[j]]
    BY <2>1, <2>2
  <2>4. ASSUME NEW j \in 1 .. k + 1 PROVE e[j] = Widen(f, e[j - 1])
    <3>1. CASE j = k + 1
      <4>1. e[j] = Widen(f, g[k]) /\ e[j - 1] = g[k]
        BY <2>2, <3>1
      <4> QED
        BY <4>1
    <3>2. CASE j # k + 1
      <4>1. j \in 1 .. k /\ e[j] = g[j] /\ e[j - 1] = g[j - 1]
        BY <2>2, <3>2
      <4> QED
        BY <2>1, <4>1
    <3> QED
      BY <3>1, <3>2
  <2> QED
    BY <2>3, <2>4
<1>3. n \in T
  <2> HIDE DEF T
  <2> QED BY <1>1, <1>2, Induction
<1>4. PICK g : g = [j \in 0 .. n |-> g[j]] /\ g[0] = {m} /\ \A j \in 1 .. n : g[j] = Widen(f, g[j - 1])
  BY <1>3
<1>5. ASSUME NEW j \in 0 .. n PROVE g[j] = IF j = 0 THEN {m} ELSE Widen(f, g[j - 1])
  <2>1. CASE j = 0
    BY <1>4, <2>1
  <2>2. CASE j # 0
    <3>1. j \in 1 .. n
      BY <2>2
    <3>2. g[j] = Widen(f, g[j - 1])
      BY <1>4, <3>1
    <3> QED
      BY <2>2, <3>2
  <2> QED
    BY <2>1, <2>2
<1>6. Reaches(f, m, n, g)
  BY <1>4, <1>5 DEF Reaches
<1> QED
  BY <1>6

ReachedBy(m, n, g) == Reach(m, n) = g[n] /\ g[0] = {m} /\ \A k \in 1 .. n : g[k] = Widen(st.metric, g[k - 1])

LEMMA ReachSteps ==
    ASSUME NEW m, NEW n \in Nat
    PROVE  \E g : ReachedBy(m, n, g)
<1> DEFINE reach == CHOOSE g : Reaches(st.metric, m, n, g)
<1>1. Reaches(st.metric, m, n, reach)
  BY ReachExists
<1>2. Reach(m, n) = reach[n]
  BY DEF Reach, Reaches, Widen
<1> HIDE DEF reach
<1>3. \A k \in 0 .. n : reach[k] = IF k = 0 THEN {m} ELSE Widen(st.metric, reach[k - 1])
  BY <1>1 DEF Reaches
<1>4. reach[0] = {m} /\ \A k \in 1 .. n : reach[k] = Widen(st.metric, reach[k - 1])
  BY <1>3
<1>5. ReachedBy(m, n, reach)
  BY <1>2, <1>4 DEF ReachedBy
<1> QED
  BY <1>5

LEMMA ReachWithin ==
    ASSUME NEW V, NEW m \in V, NEW n \in Nat,
           \A x \in V : st.metric[x] # NoMetric => Edges(st.metric[x]) \subseteq V
    PROVE  Reach(m, n) \subseteq V
<1>0. PICK g : ReachedBy(m, n, g)
  BY ReachSteps
<1>1. Reach(m, n) = g[n] /\ g[0] = {m} /\ \A k \in 1 .. n : g[k] = Widen(st.metric, g[k - 1])
  BY <1>0 DEF ReachedBy
<1> DEFINE T == {k \in Nat : k <= n => g[k] \subseteq V}
<1>2. 0 \in T
  BY <1>1
<1>3. ASSUME NEW k \in Nat, k \in T PROVE k + 1 \in T
  <2> SUFFICES ASSUME k + 1 <= n PROVE g[k + 1] \subseteq V
    OBVIOUS
  <2>1. g[k] \subseteq V
    BY <1>3
  <2>2. k + 1 \in 1 .. n /\ (k + 1) - 1 = k
    OBVIOUS
  <2>3. g[k + 1] = Widen(st.metric, g[k])
    BY <1>1, <2>2
  <2> QED
    BY <2>1, <2>3, WidenIs
<1>4. n \in T
  <2> HIDE DEF T
  <2> QED BY <1>2, <1>3, Induction
<1> QED
  BY <1>1, <1>4

Levels(f, i, V, d) ==
    /\ i \in V /\ V \subseteq Present(f) /\ d[i] = 0
    /\ \A x \in V : d[x] \in Nat /\ d[x] <= DepthCap /\ Edges(f[x]) \subseteq V
    /\ \A x \in V : x # i => \E y \in V : d[x] = d[y] + 1 /\ x \in Edges(f[y])

LEMMA CoversClosed ==
    ASSUME NEW f, NEW i \in Present(f), NEW V, NEW d \in Depths, Covers(f, i, f[i], V, d)
    PROVE  Levels(f, i, V, d)
<1>1. \A x : EdgesOf(f, i, f[i], x) = Edges(f[x])
  BY DEF EdgesOf
<1>2. /\ i \in V /\ V \subseteq Present(f) \cup {i} /\ V \subseteq MetricIds /\ d[i] = 0
      /\ \A x \in V : d[x] <= DepthCap /\ Edges(f[x]) \subseteq V
      /\ \A x \in V : x # i => \E y \in V : d[x] = d[y] + 1 /\ x \in Edges(f[y])
  BY <1>1 DEF Covers
<1> QED
  BY <1>2 DEF Depths, Levels

LEMMA ReachAttains ==
    ASSUME NEW i \in Present(st.metric), NEW V, NEW d \in Depths,
           Covers(st.metric, i, st.metric[i], V, d), NEW n \in Nat
    PROVE  \A x \in V : d[x] <= n => x \in Reach(i, n)
<1>0. PICK g : ReachedBy(i, n, g)
  BY ReachSteps
<1>1. Reach(i, n) = g[n] /\ g[0] = {i} /\ \A k \in 1 .. n : g[k] = Widen(st.metric, g[k - 1])
  BY <1>0 DEF ReachedBy
<1>2. PICK f : f = st.metric
  OBVIOUS
<1>3. /\ i \in V /\ V \subseteq Present(f) /\ d[i] = 0
      /\ \A x \in V : d[x] \in Nat
      /\ \A x \in V : x # i => \E y \in V : d[x] = d[y] + 1 /\ x \in Edges(f[y])
  <2>1. i \in Present(f) /\ Covers(f, i, f[i], V, d)
    BY <1>2
  <2>2. Levels(f, i, V, d)
    BY <2>1, CoversClosed
  <2> QED
    BY <2>2 DEF Levels
<1> DEFINE P(k) == \A x \in V : d[x] <= k => x \in g[k]
           T == {k \in Nat : k <= n => P(k)}
<1>4. 0 \in T
  <2>1. ASSUME NEW x \in V, d[x] <= 0 PROVE x = i
    BY <1>3, <2>1
  <2> QED
    BY <1>1, <2>1
<1>5. ASSUME NEW k \in Nat, k \in T PROVE k + 1 \in T
  <2> SUFFICES ASSUME k + 1 <= n, NEW x \in V, d[x] <= k + 1 PROVE x \in g[k + 1]
    OBVIOUS
  <2>1. P(k)
    BY <1>5
  <2>2. k + 1 \in 1 .. n /\ (k + 1) - 1 = k
    OBVIOUS
  <2>3. g[k + 1] = Widen(f, g[k])
    BY <1>1, <1>2, <2>2
  <2>4. CASE x = i
    <3>1. i \in g[k]
      BY <1>3, <2>1
    <3> QED
      BY <2>3, <2>4, <3>1, WidenIs
  <2>5. CASE x # i
    <3>1. PICK y \in V : d[x] = d[y] + 1 /\ x \in Edges(f[y])
      BY <1>3, <2>5
    <3>2. y \in g[k]
      BY <1>3, <2>1, <3>1
    <3>3. f[y] # NoMetric
      BY <1>3, <3>1 DEF Present
    <3> QED
      BY <2>3, <3>1, <3>2, <3>3, WidenIs
  <2> QED
    BY <2>4, <2>5
<1>6. n \in T
  <2> HIDE DEF T
  <2> QED BY <1>4, <1>5, Induction
<1> QED
  BY <1>1, <1>6

LEMMA CatalogSound ==
    ASSUME CatalogInv
    PROVE  CatalogIsSound
<1>1. st \in CatalogStates /\ Settled(st.metric)
  BY CatalogTyped
<1>2. Stored = Present(st.metric)
  BY DEF Stored, Present
<1>3. PICK n \in Nat : n = Cardinality(MetricIds)
  BY CatalogAssumption, FS_CardinalityType
<1>4. ASSUME NEW i \in Stored
      PROVE  LET below == UNION {Reach(x, n) : x \in Elements(Neighbors(st.metric[i]))}
             IN  i \notin below /\ below \subseteq Stored
  <2>1. PICK V \in SUBSET MetricIds : Beneath(st.metric, i, V)
    BY <1>1, <1>2 DEF Settled, Grounded
  <2>2. /\ V \subseteq Stored /\ i \notin V /\ Elements(Neighbors(st.metric[i])) \subseteq V
        /\ \A x \in V : Edges(st.metric[x]) \subseteq V
    BY <1>2, <2>1 DEF Beneath, Edges
  <2>3. \A x \in Elements(Neighbors(st.metric[i])) : Reach(x, n) \subseteq V
    BY <1>3, <2>2, ReachWithin
  <2> QED
    BY <2>2, <2>3
<1> QED
  BY <1>3, <1>4 DEF CatalogIsSound

LEMMA CatalogShallow ==
    ASSUME CatalogInv
    PROVE  CatalogIsShallow
<1>1. st \in CatalogStates /\ Settled(st.metric)
  BY CatalogTyped
<1>2. Stored = Present(st.metric)
  BY DEF Stored, Present
<1>3. PICK n \in Nat : n = Cardinality(MetricIds)
  BY CatalogAssumption, FS_CardinalityType
<1>4. DepthCap \in Nat /\ DepthCap <= n
  BY <1>3, CatalogAssumption
<1>5. ASSUME NEW i \in Stored PROVE Reach(i, n) = Reach(i, DepthCap)
  <2>1. i \in Present(st.metric)
    BY <1>2
  <2>2. PICK V \in SUBSET MetricIds, d \in Depths : Covers(st.metric, i, st.metric[i], V, d)
    BY <1>1, <2>1 DEF Settled, Covered
  <2>3. i \in V /\ \A x \in V : d[x] \in Nat /\ d[x] <= DepthCap /\ Edges(st.metric[x]) \subseteq V
    BY <2>1, <2>2, CoversClosed DEF Levels
  <2>4. Reach(i, n) \subseteq V /\ Reach(i, DepthCap) \subseteq V
    BY <1>3, <1>4, <2>3, ReachWithin
  <2>5. \A x \in V : x \in Reach(i, DepthCap)
    BY <1>4, <2>1, <2>2, <2>3, ReachAttains
  <2>6. \A x \in V : x \in Reach(i, n)
    <3>1. \A x \in V : d[x] <= n
      BY <1>3, <1>4, <2>3
    <3> QED
      BY <1>3, <2>1, <2>2, <3>1, ReachAttains
  <2> QED
    BY <2>4, <2>5, <2>6
<1> QED
  BY <1>3, <1>5 DEF CatalogIsShallow

\* Whatever creations and migrations run at the same time, the catalog's graph
\* of metrics is acyclic and closed, everything a metric is computed from is
\* within DepthCap levels, and a CUSTOM metric is replaced once: for any
\* catalog, definitions, number of concurrent handlers and depth cap.
THEOREM DefinitionsSound == CatalogSpec => []DefinitionsAreSound
<1>1. CatalogInit => CatalogInv
  BY CatalogStarts
<1>2. CatalogInv /\ [CatalogNext]_st => CatalogInv'
  BY CatalogKeeps
<1>3. CatalogInv => DefinitionsAreSound
  <2> SUFFICES ASSUME CatalogInv PROVE DefinitionsAreSound
    OBVIOUS
  <2>1. MigratedOnce
    <3>1. MigrationsOk(st.metric, st.migrations)
      BY CatalogTyped
    <3>2. Stored = Present(st.metric)
      BY DEF Stored, Present
    <3> QED
      BY <3>1, <3>2 DEF MigratedOnce, MigrationsOk
  <2> QED
    BY <2>1, CatalogSound, CatalogShallow DEF DefinitionsAreSound
<1> QED
  BY <1>1, <1>2, <1>3, PTL DEF CatalogSpec

-----------------------------------------------------------------------------
(* Bucket reuse.  A call that has passed a query knows something about the *)
(* rows that were there when it began, and that stays true: a row once     *)
(* released stays released, and the clock only advances.                   *)

Allocations ==
    [experiment : Allocatees, start : Int, end : Int, at : Nat, since : Nat,
     released : Nat \cup {-1}, reusable : Int]
ReuseCalls == {NoCall} \cup [phase : {"first", "second", "insert"}, range : Ranges, seen : Nat]
ReuseStates ==
    [algo : {"reuse"}, now : Nat, rows : Seq(Allocations), call : [Allocatees -> ReuseCalls]]

\* Row x of another experiment than e stands in the way of a range.
Blocks(x, e, range) == x.experiment # e /\ Overlap(x, range)
ReleasedBy(x, n) == x.released # -1 /\ n >= x.released + Cooldown

CallOk(rows, now, e, c) ==
    c.phase # "idle" =>
        /\ c.seen <= Len(rows)
        /\ c.phase # "first" => \A i \in 1 .. c.seen : Blocks(rows[i], e, c.range) => rows[i].released # -1
        /\ c.phase = "insert" => \A i \in 1 .. c.seen : Blocks(rows[i], e, c.range) => ReleasedBy(rows[i], now)
RowOk(rows, now, j) ==
    /\ rows[j].since < j /\ rows[j].at <= now
    /\ rows[j].released # -1 => rows[j].reusable = rows[j].released + Cooldown
    /\ \A i \in 1 .. rows[j].since : Blocks(rows[i], rows[j].experiment, rows[j]) => ReleasedBy(rows[i], rows[j].at)

ReuseInv ==
    /\ st \in ReuseStates
    /\ \A j \in 1 .. Len(st.rows) : RowOk(st.rows, st.now, j)
    /\ \A e \in Allocatees : CallOk(st.rows, st.now, e, st.call[e])

LEMMA ReuseTyped ==
    ASSUME ReuseInv
    PROVE  /\ st \in ReuseStates /\ st.now \in Nat /\ st.rows \in Seq(Allocations)
           /\ st.call \in [Allocatees -> ReuseCalls] /\ Len(st.rows) \in Nat
<1>1. st \in ReuseStates
  BY DEF ReuseInv
<1>2. st.now \in Nat /\ st.rows \in Seq(Allocations) /\ st.call \in [Allocatees -> ReuseCalls]
  BY <1>1 DEF ReuseStates
<1> QED
  BY <1>1, <1>2

\* A step of one call.
LEMMA OneCall ==
    ASSUME ReuseInv, NEW e \in Allocatees, NEW c \in ReuseCalls, CallOk(st.rows, st.now, e, c),
           st' = [st EXCEPT !.call = [st.call EXCEPT ![e] = c]]
    PROVE  ReuseInv'
<1>1. st \in ReuseStates /\ st.call \in [Allocatees -> ReuseCalls]
  BY ReuseTyped
<1>2. PICK q : q = [st.call EXCEPT ![e] = c]
  OBVIOUS
<1>3. q \in [Allocatees -> ReuseCalls] /\ q[e] = c /\ \A k \in Allocatees : k # e => q[k] = st.call[k]
  BY <1>1, <1>2
<1>4. st' \in ReuseStates /\ st'.rows = st.rows /\ st'.now = st.now /\ st'.call = q
  <2>1. st' = [st EXCEPT !.call = q]
    BY <1>2
  <2> QED
    BY <1>1, <1>3, <2>1 DEF ReuseStates
<1>5. ASSUME NEW k \in Allocatees PROVE CallOk(st.rows, st.now, k, q[k])
  BY <1>3 DEF ReuseInv
<1> QED
  BY <1>4, <1>5 DEF ReuseInv

LEMMA CallIsOpen ==
    ASSUME ReuseInv, NEW e \in Allocatees, st.call[e].phase # "idle"
    PROVE  /\ st.call[e] \in [phase : {"first", "second", "insert"}, range : Ranges, seen : Nat]
           /\ CallOk(st.rows, st.now, e, st.call[e])
<1>1. st.call[e] \in ReuseCalls
  BY ReuseTyped
<1> QED
  BY <1>1 DEF ReuseCalls, NoCall, ReuseInv

LEMMA AllocateKeeps ==
    ASSUME ReuseInv, NEW e \in Allocatees, NEW r \in Ranges, allocate(e, r)
    PROVE  ReuseInv'
<1>1. PICK n \in Nat : n = Len(st.rows)
  BY ReuseTyped
<1>2. PICK c : c = [phase |-> "first", range |-> r, seen |-> 0]
  OBVIOUS
<1>3. c \in ReuseCalls /\ c.phase = "first" /\ c.seen = 0
  BY <1>2 DEF ReuseCalls
<1>4. CallOk(st.rows, st.now, e, c)
  BY <1>1, <1>3 DEF CallOk
<1>5. st' = [st EXCEPT !.call = [st.call EXCEPT ![e] = c]]
  BY <1>1, <1>2 DEF allocate
<1> QED
  BY <1>3, <1>4, <1>5, OneCall

LEMMA CallEnds ==
    ASSUME ReuseInv, NEW e \in Allocatees, st' = [st EXCEPT !.call = [st.call EXCEPT ![e] = NoCall]]
    PROVE  ReuseInv'
<1>1. NoCall \in ReuseCalls /\ CallOk(st.rows, st.now, e, NoCall)
  BY DEF ReuseCalls, CallOk, NoCall
<1> QED
  BY <1>1, OneCall

\* What a query that found nothing says of a row.
LEMMA NoOverlapFound ==
    ASSUME ReuseInv, NEW e \in Allocatees, NEW range, NEW cooling \in BOOLEAN,
           ~check_overlap(e, range, cooling), NEW i \in 1 .. Len(st.rows), Blocks(st.rows[i], e, range)
    PROVE  IF cooling THEN ~Cooling(i) ELSE ~Active(i)
BY DEF check_overlap, Blocks

LEMMA CheckKeeps ==
    ASSUME ReuseInv, NEW e \in Allocatees, NEW phase, NEW next, Check(e, phase, next),
           <<phase, next>> \in {<<"first", "second">>, <<"second", "insert">>}
    PROVE  ReuseInv'
<1>1. PICK c : c = st.call[e]
  OBVIOUS
<1>2. c.phase = phase /\ phase \in {"first", "second"} /\ next \in {"second", "insert"}
      /\ (phase = "first" <=> next = "second")
  BY <1>1 DEF Check
<1>3. c \in [phase : {"first", "second", "insert"}, range : Ranges, seen : Nat] /\ CallOk(st.rows, st.now, e, c)
  BY <1>1, <1>2, CallIsOpen
<1>4. CASE check_overlap(e, c.range, InCooldown(phase))
  <2>1. st' = [st EXCEPT !.call = [st.call EXCEPT ![e] = NoCall]]
    BY <1>1, <1>4 DEF Check
  <2> QED
    BY <2>1, CallEnds
<1>5. CASE ~check_overlap(e, c.range, InCooldown(phase))
  <2>1. PICK q : q = [phase |-> next, range |-> c.range,
                     seen |-> IF phase = "first" THEN Len(st.rows) ELSE c.seen]
    OBVIOUS
  <2>2. /\ q \in [phase : {"first", "second", "insert"}, range : Ranges, seen : Nat]
        /\ q.phase = next /\ q.range = c.range /\ q.seen = IF phase = "first" THEN Len(st.rows) ELSE c.seen
    <3>1. c \in [phase : {"first", "second", "insert"}, range : Ranges, seen : Nat] /\ next \in {"second", "insert"}
      BY <1>2, <1>3
    <3>2. Len(st.rows) \in Nat
      BY ReuseTyped
    <3> QED
      BY <2>1, <3>1, <3>2
  <2>3. st' = [st EXCEPT !.call = [st.call EXCEPT ![e] = q]]
    BY <1>1, <1>5, <2>1 DEF Check
  <2>4. q.seen \in Nat /\ q.seen <= Len(st.rows) /\ Len(st.rows) \in Nat
    BY <1>2, <1>3, <2>2, ReuseTyped DEF CallOk
  <2>5. ASSUME NEW i \in 1 .. q.seen, Blocks(st.rows[i], e, c.range)
        PROVE  st.rows[i].released # -1 /\ (next = "insert" => ReleasedBy(st.rows[i], st.now))
    <3>1. i \in 1 .. Len(st.rows)
      BY <2>4
    <3>2. CASE phase = "first"
      <4>1. ~Active(i)
        BY <1>5, <2>5, <3>1, <3>2, NoOverlapFound DEF InCooldown
      <4> QED
        BY <1>2, <3>2, <4>1 DEF Active
    <3>3. CASE phase = "second"
      <4>1. st.rows[i].released # -1
        BY <1>2, <1>3, <2>2, <2>5, <3>3 DEF CallOk
      <4>2. ~Cooling(i)
        BY <1>5, <2>5, <3>1, <3>3, NoOverlapFound DEF InCooldown
      <4>3. ~(st.rows[i].reusable > st.now)
        BY <4>1, <4>2 DEF Cooling, Active
      <4>4. st.rows[i].reusable = st.rows[i].released + Cooldown
        BY <3>1, <4>1 DEF ReuseInv, RowOk
      <4>5. st.rows[i].reusable \in Int /\ st.now \in Nat
        <5>1. st.rows[i] \in Allocations
          BY <3>1, ReuseTyped
        <5> QED
          BY <5>1, ReuseTyped DEF Allocations
      <4> QED
        BY <4>1, <4>3, <4>4, <4>5 DEF ReleasedBy
    <3> QED
      BY <1>2, <3>2, <3>3
  <2>6. CallOk(st.rows, st.now, e, q)
    BY <1>2, <2>2, <2>4, <2>5 DEF CallOk
  <2>7. q \in ReuseCalls
    BY <2>2 DEF ReuseCalls
  <2> QED
    BY <2>3, <2>6, <2>7, OneCall
<1> QED
  BY <1>4, <1>5

\* Rows that keep what was known of them: a released row stays as it is, and
\* no row changes its experiment, its buckets or its history.
Settles(rows, new) ==
    /\ Len(rows) <= Len(new)
    /\ \A i \in 1 .. Len(rows) :
          /\ new[i].experiment = rows[i].experiment /\ new[i].start = rows[i].start /\ new[i].end = rows[i].end
          /\ new[i].at = rows[i].at /\ new[i].since = rows[i].since
          /\ rows[i].released # -1 => new[i] = rows[i]

LEMMA BlocksStays ==
    ASSUME NEW rows, NEW new, Settles(rows, new), NEW i \in 1 .. Len(rows), NEW e, NEW range, NEW span,
           span.start = range.start, span.end = range.end
    PROVE  Blocks(new[i], e, span) <=> Blocks(rows[i], e, range)
BY DEF Settles, Blocks, Overlap

LEMMA CallStays ==
    ASSUME NEW rows \in Seq(Allocations), NEW new \in Seq(Allocations), Settles(rows, new),
           NEW now \in Nat, NEW later \in Nat, now <= later,
           NEW e, NEW c \in ReuseCalls, CallOk(rows, now, e, c)
    PROVE  CallOk(new, later, e, c)
<1> SUFFICES ASSUME c.phase # "idle" PROVE CallOk(new, later, e, c)
  BY DEF CallOk
<1>1. c.seen \in Nat /\ Len(rows) \in Nat /\ Len(new) \in Nat
  BY DEF ReuseCalls, NoCall
<1>2. c.seen <= Len(rows) /\ Len(rows) <= Len(new)
  BY DEF CallOk, Settles
<1>3. ASSUME NEW i \in 1 .. c.seen, c.phase # "first", Blocks(new[i], e, c.range)
      PROVE  /\ new[i].released # -1
             /\ c.phase = "insert" => ReleasedBy(new[i], later)
  <2>1. i \in 1 .. Len(rows)
    BY <1>1, <1>2
  <2>2. Blocks(rows[i], e, c.range)
    BY <1>3, <2>1, BlocksStays
  <2>3. rows[i].released # -1 /\ (c.phase = "insert" => ReleasedBy(rows[i], now))
    BY <1>3, <2>2 DEF CallOk
  <2>4. new[i] = rows[i]
    BY <2>1, <2>3 DEF Settles
  <2>5. rows[i].released \in Nat /\ Cooldown \in Nat
    <3>1. rows[i] \in Allocations
      BY <2>1
    <3> QED
      BY <2>3, <3>1, ReuseAssumption DEF Allocations
  <2> QED
    BY <2>3, <2>4, <2>5 DEF ReleasedBy
<1>4. c.seen <= Len(new)
  BY <1>1, <1>2
<1> QED
  BY <1>3, <1>4 DEF CallOk

LEMMA RowStays ==
    ASSUME NEW rows \in Seq(Allocations), NEW new \in Seq(Allocations), Settles(rows, new),
           NEW now \in Nat, NEW later \in Nat, now <= later,
           NEW j \in 1 .. Len(rows), RowOk(rows, now, j),
           new[j].released # -1 => new[j].reusable = new[j].released + Cooldown
    PROVE  RowOk(new, later, j)
<1>1. rows[j] \in Allocations /\ Len(rows) \in Nat
  OBVIOUS
<1>2. rows[j].since \in Nat /\ rows[j].at \in Nat
  BY <1>1 DEF Allocations
<1>3. new[j].since = rows[j].since /\ new[j].at = rows[j].at /\ new[j].experiment = rows[j].experiment
      /\ new[j].start = rows[j].start /\ new[j].end = rows[j].end
  BY DEF Settles
<1>4. new[j].since < j /\ new[j].at <= later
  BY <1>2, <1>3 DEF RowOk
<1>5. ASSUME NEW i \in 1 .. new[j].since, Blocks(new[i], new[j].experiment, new[j])
      PROVE  ReleasedBy(new[i], new[j].at)
  <2>1. i \in 1 .. Len(rows) /\ i \in 1 .. rows[j].since
    BY <1>1, <1>2, <1>3, <1>4
  <2>2. Blocks(rows[i], rows[j].experiment, rows[j])
    BY <1>3, <1>5, <2>1, BlocksStays
  <2>3. ReleasedBy(rows[i], rows[j].at)
    BY <2>1, <2>2 DEF RowOk
  <2>4. new[i] = rows[i]
    BY <2>1, <2>3 DEF Settles, ReleasedBy
  <2> QED
    BY <1>3, <2>3, <2>4
<1> QED
  BY <1>4, <1>5 DEF RowOk

LEMMA TickKeeps ==
    ASSUME ReuseInv, DatabaseTick
    PROVE  ReuseInv'
<1>1. /\ st \in ReuseStates /\ st.now \in Nat /\ st.rows \in Seq(Allocations)
      /\ st.call \in [Allocatees -> ReuseCalls]
  BY ReuseTyped
<1>2. PICK n \in Nat : n = st.now + 1
  BY <1>1
<1>3. st' \in ReuseStates /\ st'.rows = st.rows /\ st'.now = n /\ st'.call = st.call
  <2>1. st' = [st EXCEPT !.now = n]
    BY <1>2 DEF DatabaseTick
  <2> QED
    BY <1>1, <2>1 DEF ReuseStates
<1>4. st.now <= n /\ Settles(st.rows, st.rows)
  <2>1. Len(st.rows) \in Nat
    BY <1>1
  <2> QED
    BY <1>1, <1>2, <2>1 DEF Settles
<1>5. ASSUME NEW j \in 1 .. Len(st.rows) PROVE RowOk(st.rows, n, j)
  <2>1. RowOk(st.rows, st.now, j)
    BY DEF ReuseInv
  <2>2. st.rows[j].released # -1 => st.rows[j].reusable = st.rows[j].released + Cooldown
    BY <2>1 DEF RowOk
  <2> QED
    BY <1>1, <1>4, <2>1, <2>2, RowStays
<1>6. ASSUME NEW e \in Allocatees PROVE CallOk(st.rows, n, e, st.call[e])
  <2>1. CallOk(st.rows, st.now, e, st.call[e]) /\ st.call[e] \in ReuseCalls
    BY <1>1 DEF ReuseInv
  <2> QED
    BY <1>1, <1>4, <2>1, CallStays
<1> QED
  BY <1>3, <1>5, <1>6 DEF ReuseInv

LEMMA ReleaseKeeps ==
    ASSUME ReuseInv, NEW e \in Allocatees, release(e)
    PROVE  ReuseInv'
<1>1. /\ st \in ReuseStates /\ st.now \in Nat /\ st.rows \in Seq(Allocations)
      /\ st.call \in [Allocatees -> ReuseCalls] /\ Len(st.rows) \in Nat
  BY ReuseTyped
<1>2. PICK s, n, now : s = st.rows /\ n = Len(st.rows) /\ now = st.now
  OBVIOUS
<1>3. PICK free : free = [i \in 1 .. n |-> [s[i] EXCEPT !.released = now, !.reusable = now + Cooldown]]
  OBVIOUS
<1>4. PICK t : t = [i \in 1 .. n |-> IF s[i].released = -1 /\ s[i].experiment = e THEN free[i] ELSE s[i]]
  OBVIOUS
<1>5. ASSUME NEW i \in 1 .. n
      PROVE  /\ free[i] \in Allocations /\ free[i].released # -1
             /\ free[i].reusable = free[i].released + Cooldown
             /\ free[i].experiment = s[i].experiment /\ free[i].start = s[i].start /\ free[i].end = s[i].end
             /\ free[i].at = s[i].at /\ free[i].since = s[i].since
  <2>1. PICK x \in Allocations : x = s[i]
    BY <1>1, <1>2
  <2>2. PICK until \in Int : until = now + Cooldown
    BY <1>1, <1>2, ReuseAssumption
  <2>3. now \in Nat \cup {-1} /\ now # -1
    BY <1>1, <1>2
  <2>4. free[i] = [x EXCEPT !.released = now, !.reusable = until]
    BY <1>3, <2>1, <2>2
  <2>5. /\ free[i] \in Allocations /\ free[i].released = now /\ free[i].reusable = until
        /\ free[i].experiment = x.experiment /\ free[i].start = x.start /\ free[i].end = x.end
        /\ free[i].at = x.at /\ free[i].since = x.since
    BY <2>3, <2>4 DEF Allocations
  <2> QED
    BY <2>1, <2>2, <2>3, <2>5
<1>6. ASSUME NEW i \in 1 .. n
      PROVE  t[i] \in Allocations /\ t[i] \in {s[i], free[i]} /\ (s[i].released # -1 => t[i] = s[i])
  <2>1. s[i] \in Allocations
    BY <1>1, <1>2
  <2> QED
    BY <1>4, <1>5, <2>1
<1>7. t \in Seq(Allocations) /\ Len(t) = n
  <2>1. t \in [1 .. n -> Allocations] /\ n \in Nat
    BY <1>1, <1>2, <1>4, <1>6
  <2> QED
    BY <2>1
<1>8. Settles(s, t)
  BY <1>1, <1>2, <1>5, <1>6, <1>7 DEF Settles
<1>9. st' \in ReuseStates /\ st'.rows = t /\ st'.now = now /\ st'.call = st.call
  <2>1. st' = [st EXCEPT !.rows = t]
    <3>1. t = [i \in 1 .. Len(st.rows) |->
                IF Active(i) /\ st.rows[i].experiment = e
                THEN [st.rows[i] EXCEPT !.released = st.now, !.reusable = st.now + Cooldown] ELSE st.rows[i]]
      BY <1>2, <1>3, <1>4 DEF Active
    <3> QED
      BY <3>1 DEF release
  <2> QED
    BY <1>1, <1>2, <1>7, <2>1 DEF ReuseStates
<1>10. ASSUME NEW j \in 1 .. n PROVE RowOk(t, now, j)
  <2>1. RowOk(s, now, j)
    BY <1>2 DEF ReuseInv
  <2>2. t[j].released # -1 => t[j].reusable = t[j].released + Cooldown
    BY <1>5, <1>6, <2>1 DEF RowOk
  <2> QED
    BY <1>1, <1>2, <1>7, <1>8, <2>1, <2>2, RowStays
<1>11. ASSUME NEW k \in Allocatees PROVE CallOk(t, now, k, st.call[k])
  <2>1. CallOk(s, now, k, st.call[k]) /\ st.call[k] \in ReuseCalls
    BY <1>1, <1>2 DEF ReuseInv
  <2> QED
    BY <1>1, <1>2, <1>7, <1>8, <2>1, CallStays
<1> QED
  BY <1>7, <1>9, <1>10, <1>11 DEF ReuseInv

LEMMA InsertAllocationKeeps ==
    ASSUME ReuseInv, NEW e \in Allocatees, InsertAllocation(e)
    PROVE  ReuseInv'
<1>1. /\ st \in ReuseStates /\ st.now \in Nat /\ st.rows \in Seq(Allocations)
      /\ st.call \in [Allocatees -> ReuseCalls] /\ Len(st.rows) \in Nat
  BY ReuseTyped
<1>2. PICK s, n, now, c : s = st.rows /\ n = Len(st.rows) /\ now = st.now /\ c = st.call[e]
  OBVIOUS
<1>3. c.phase = "insert"
  BY <1>2 DEF InsertAllocation
<1>4. c \in [phase : {"first", "second", "insert"}, range : Ranges, seen : Nat] /\ CallOk(s, now, e, c)
  BY <1>2, <1>3, CallIsOpen
<1>5. PICK x : x = [experiment |-> e, start |-> c.range.start, end |-> c.range.end, at |-> now,
                    since |-> c.seen, released |-> -1, reusable |-> -1]
  OBVIOUS
<1>6. /\ x \in Allocations /\ x.experiment = e /\ x.start = c.range.start /\ x.end = c.range.end
      /\ x.at = now /\ x.since = c.seen /\ x.released = -1
  <2>1. c.range \in Ranges
    BY <1>4
  <2>2. c.range.start \in Int /\ c.range.end \in Int /\ c.seen \in Nat /\ now \in Nat
    BY <1>1, <1>2, <1>4, <2>1, ReuseAssumption
  <2> QED
    BY <1>5, <2>2 DEF Allocations
<1>7. PICK t : t = Append(s, x)
  OBVIOUS
<1>8. /\ t \in Seq(Allocations) /\ Len(t) = n + 1 /\ t[n + 1] = x /\ \A i \in 1 .. n : t[i] = s[i]
  BY <1>1, <1>2, <1>6, <1>7
<1>9. Settles(s, t)
  BY <1>1, <1>2, <1>8 DEF Settles
<1>10. PICK q : q = [st.call EXCEPT ![e] = NoCall]
  OBVIOUS
<1>11. q \in [Allocatees -> ReuseCalls] /\ q[e] = NoCall /\ \A k \in Allocatees : k # e => q[k] = st.call[k]
  <2>1. NoCall \in ReuseCalls
    BY DEF ReuseCalls
  <2> QED
    BY <1>1, <1>10, <2>1
<1>12. st' \in ReuseStates /\ st'.rows = t /\ st'.now = now /\ st'.call = q
  <2>1. st' = [st EXCEPT !.call = q, !.rows = t]
    BY <1>2, <1>5, <1>7, <1>10 DEF InsertAllocation
  <2> QED
    BY <1>1, <1>2, <1>8, <1>11, <2>1 DEF ReuseStates
<1>13. ASSUME NEW j \in 1 .. n PROVE RowOk(t, now, j)
  <2>1. RowOk(s, now, j)
    BY <1>2 DEF ReuseInv
  <2>2. t[j].released # -1 => t[j].reusable = t[j].released + Cooldown
    BY <1>8, <2>1 DEF RowOk
  <2> QED
    BY <1>1, <1>2, <1>8, <1>9, <2>1, <2>2, RowStays
<1>14. RowOk(t, now, n + 1)
  <2>1. c.seen \in Nat /\ c.seen <= n
    BY <1>2, <1>3, <1>4 DEF CallOk
  <2>2. ASSUME NEW i \in 1 .. c.seen, Blocks(t[i], e, x) PROVE ReleasedBy(t[i], now)
    <3>1. i \in 1 .. n /\ t[i] = s[i]
      BY <1>1, <1>2, <1>8, <2>1
    <3>2. Blocks(s[i], e, c.range)
      BY <1>6, <2>2, <3>1 DEF Blocks, Overlap
    <3> QED
      BY <1>3, <1>4, <3>1, <3>2 DEF CallOk
  <2> QED
    BY <1>1, <1>2, <1>6, <1>8, <2>1, <2>2 DEF RowOk
<1>15. ASSUME NEW k \in Allocatees PROVE CallOk(t, now, k, q[k])
  <2>1. CASE k = e
    BY <1>11, <2>1 DEF CallOk, NoCall
  <2>2. CASE k # e
    <3>1. q[k] \in ReuseCalls /\ CallOk(s, now, k, q[k])
      BY <1>1, <1>2, <1>11, <2>2 DEF ReuseInv
    <3> QED
      BY <1>1, <1>2, <1>8, <1>9, <3>1, CallStays
  <2> QED
    BY <2>1, <2>2
<1>16. ASSUME NEW j \in 1 .. n + 1 PROVE RowOk(t, now, j)
  <2>1. j \in 1 .. n \/ j = n + 1
    BY <1>1, <1>2
  <2> QED
    BY <1>13, <1>14, <2>1
<1> QED
  BY <1>8, <1>12, <1>15, <1>16 DEF ReuseInv

LEMMA ReuseStarts == ReuseInit => ReuseInv
<1> SUFFICES ASSUME ReuseInit PROVE ReuseInv
  OBVIOUS
<1>1. PICK q : q = [e \in Allocatees |-> NoCall]
  OBVIOUS
<1>2. q \in [Allocatees -> ReuseCalls] /\ \A e \in Allocatees : q[e] = NoCall
  BY <1>1 DEF ReuseCalls
<1>3. <<>> \in Seq(Allocations) /\ \A j \in 1 .. Len(<<>>) : FALSE
  OBVIOUS
<1>4. st \in ReuseStates /\ st.rows = <<>> /\ st.call = q
  <2>1. st = [algo |-> "reuse", now |-> 0, rows |-> <<>>, call |-> q]
    BY <1>1 DEF ReuseInit
  <2> QED
    BY <1>2, <1>3, <2>1 DEF ReuseStates
<1>5. \A e \in Allocatees : CallOk(st.rows, st.now, e, NoCall)
  BY DEF CallOk, NoCall
<1> QED
  BY <1>2, <1>3, <1>4, <1>5 DEF ReuseInv

LEMMA ReuseStep == ReuseInv /\ [ReuseNext]_st => ReuseInv'
<1> SUFFICES ASSUME ReuseInv, [ReuseNext]_st PROVE ReuseInv'
  OBVIOUS
<1>1. CASE UNCHANGED st
  BY <1>1 DEF ReuseInv
<1>2. ASSUME NEW e \in Allocatees, NEW r \in Ranges, allocate(e, r) PROVE ReuseInv'
  BY <1>2, AllocateKeeps
<1>3. ASSUME NEW e \in Allocatees, Check(e, "first", "second") \/ Check(e, "second", "insert") PROVE ReuseInv'
  BY <1>3, CheckKeeps
<1>4. ASSUME NEW e \in Allocatees, InsertAllocation(e) \/ release(e) PROVE ReuseInv'
  BY <1>4, InsertAllocationKeeps, ReleaseKeeps
<1>5. CASE DatabaseTick
  BY <1>5, TickKeeps
<1> QED
  BY <1>1, <1>2, <1>3, <1>4, <1>5 DEF ReuseNext

LEMMA ReuseIsSound == ReuseInv => CooldownIsKept
<1> SUFFICES ASSUME ReuseInv, NEW i \in 1 .. Len(st.rows), NEW j \in 1 .. Len(st.rows),
                    i <= st.rows[j].since, st.rows[i].experiment # st.rows[j].experiment,
                    Overlap(st.rows[i], st.rows[j])
             PROVE  st.rows[i].released # -1 /\ st.rows[j].at >= st.rows[i].released + Cooldown
  BY DEF CooldownIsKept
<1>1. st.rows[j] \in Allocations
  BY ReuseTyped
<1>2. i \in 1 .. st.rows[j].since
  BY <1>1 DEF Allocations
<1>3. Blocks(st.rows[i], st.rows[j].experiment, st.rows[j])
  BY DEF Blocks
<1>4. ReleasedBy(st.rows[i], st.rows[j].at)
  BY <1>2, <1>3 DEF ReuseInv, RowOk
<1> QED
  BY <1>4 DEF ReleasedBy

\* A bucket held by one experiment goes to another only after the first one's
\* release and the whole cooldown, unless the first was inserted after the
\* other call's query for active rows: for any ranges, cooldown and number of
\* experiments, whatever releases and allocations fall between the statements.
THEOREM ReuseWaits == ReuseSpec => []CooldownIsKept
BY ReuseStarts, ReuseStep, ReuseIsSound, PTL DEF ReuseSpec

-----------------------------------------------------------------------------
(* The scan of a layer.  Free positions and gaps, first for any rows; then *)
(* what the loops know of the sorted ranges.                               *)

LayerRange(a) == a.start \in Int /\ a.end \in Int /\ 0 <= a.start /\ a.start <= a.end /\ a.end <= Total - 1

\* Position s is free of the rows o for n buckets.
FreeOf(o, n, s) == \A a \in o : s + n - 1 < a.start \/ a.end < s

\* Below every free position there is a gap that fits.
LEMMA GapBelow ==
    ASSUME NEW o, \A a \in o : LayerRange(a), NEW n \in Int, NEW s \in Nat, s + n <= Total, FreeOf(o, n, s)
    PROVE  \E g \in GapStarts(o) : g <= s /\ Fits(Total, o, n, g)
<1> DEFINE T == {k \in Nat : s - k \in GapStarts(o)}
<1>0. Total \in Int
  BY ScanAssumption
<1>1. s \in T
  BY DEF GapStarts
<1>2. PICK k \in T : \A x \in T : k <= x
  <2>1. T \subseteq Nat /\ T # {}
    BY <1>1
  <2> HIDE DEF T
  <2> QED
    BY <2>1, LeastElement
<1> DEFINE g == s - k
<1>3. g \in GapStarts(o) /\ g \in Int /\ g <= s
  BY <1>2
<1>4. ASSUME NEW a \in o, a.start >= g PROVE a.start >= g + n
  <2>1. LayerRange(a)
    OBVIOUS
  <2>2. s + n - 1 < a.start \/ a.end < s
    BY DEF FreeOf
  <2>3. CASE a.end < s
    <3>1. a.end + 1 \in GapStarts(o)
      BY DEF GapStarts
    <3>2. s - (s - (a.end + 1)) = a.end + 1 /\ s - (a.end + 1) \in Nat
      BY <2>1, <2>3 DEF LayerRange
    <3>3. s - (a.end + 1) \in T
      BY <3>1, <3>2
    <3>4. k <= s - (a.end + 1)
      BY <1>2, <3>3
    <3> QED
      BY <1>2, <1>4, <2>1, <3>4 DEF LayerRange
  <2>4. CASE s + n - 1 < a.start
    BY <1>3, <2>1, <2>4 DEF LayerRange
  <2> QED
    BY <2>2, <2>3, <2>4
<1>5. g + n <= Total
  BY <1>0, <1>3
<1> HIDE DEF g
<1> QED
  BY <1>3, <1>4, <1>5 DEF Fits

\* A gap that fits is free, when the rows do not overlap.
LEMMA FitIsFree ==
    ASSUME NEW o, \A a \in o : LayerRange(a), NEW n \in Nat \ {0}, NEW s,
           Fits(Total, o, n, s), ~OverlappingRanges(o)
    PROVE  s \in Nat /\ s + n <= Total /\ FreeOf(o, n, s)
<1>1. s \in Nat
  <2>1. s = 0 \/ \E a \in o : s = a.end + 1
    BY DEF Fits, GapStarts
  <2> QED
    BY <2>1 DEF LayerRange
<1>2. ASSUME NEW a \in o PROVE s + n - 1 < a.start \/ a.end < s
  <2>1. LayerRange(a)
    OBVIOUS
  <2>2. CASE a.start >= s
    <3>1. a.start >= s + n
      BY <2>2 DEF Fits
    <3> QED
      BY <1>1, <2>1, <3>1 DEF LayerRange
  <2>3. CASE a.start < s
    <3>1. s # 0
      BY <2>1, <2>3 DEF LayerRange
    <3>2. PICK b \in o : s = b.end + 1
      BY <3>1 DEF Fits, GapStarts
    <3>3. LayerRange(b)
      OBVIOUS
    <3>4. a = b \/ a.end < b.start \/ b.end < a.start
      BY DEF OverlappingRanges, Disjoint
    <3> QED
      BY <2>1, <2>3, <3>2, <3>3, <3>4 DEF LayerRange
  <2> QED
    BY <1>1, <2>1, <2>2, <2>3 DEF LayerRange
<1>3. s + n <= Total
  BY DEF Fits
<1> QED
  BY <1>1, <1>2, <1>3 DEF FreeOf

\* The rows of occupied ranges.
RowsOf(o) == {[row |-> k, start |-> o[k].start, end |-> o[k].end] : k \in DOMAIN o}

Answers(o, n, r) ==
    IF r = NoGap THEN NoContiguousGap(Total, RowsOf(o), n)
    ELSE FindContiguousGap(Total, RowsOf(o), n, r)

LEMMA OccupiedRanges ==
    ASSUME NEW o \in Seq(OccupiedRange)
    PROVE  /\ \A k \in 1 .. Len(o) : LayerRange(o[k])
           /\ \A a \in RowsOf(o) : LayerRange(a)
<1>1. ASSUME NEW k \in 1 .. Len(o) PROVE LayerRange(o[k])
  <2>1. o[k] \in OccupiedRange
    OBVIOUS
  <2> QED
    BY <2>1, ScanAssumption DEF OccupiedRange, LayerRange
<1>2. ASSUME NEW a \in RowsOf(o) PROVE LayerRange(a)
  <2>1. PICK k \in DOMAIN o : a = [row |-> k, start |-> o[k].start, end |-> o[k].end]
    BY DEF RowsOf
  <2>2. a.start = o[k].start /\ a.end = o[k].end /\ k \in 1 .. Len(o)
    BY <2>1
  <2> QED
    BY <1>1, <2>2 DEF LayerRange
<1> QED
  BY <1>1, <1>2

\* An answer is the first free position.
LEMMA AnswerIsFirstFit ==
    ASSUME NEW o \in Seq(OccupiedRange), NEW n \in Nat \ {0}, NEW r, Answers(o, n, r),
           ~OverlappingRanges(RowsOf(o))
    PROVE  LET free == {s \in 0 .. Total - n : FreeOf(RowsOf(o), n, s)}
           IN  IF free = {} THEN r = NoGap
               ELSE r.start \in free /\ r.end = r.start + n - 1 /\ \A s \in free : r.start <= s
<1> DEFINE free == {s \in 0 .. Total - n : FreeOf(RowsOf(o), n, s)}
<1>0. Total \in Nat /\ \A a \in RowsOf(o) : LayerRange(a)
  BY ScanAssumption, OccupiedRanges
<1>1. ASSUME NEW s \in free
      PROVE  \E g \in GapStarts(RowsOf(o)) : g <= s /\ Fits(Total, RowsOf(o), n, g)
  <2>1. s \in Nat /\ s + n <= Total /\ FreeOf(RowsOf(o), n, s)
    BY <1>0
  <2> QED
    BY <1>0, <2>1, GapBelow
<1>2. CASE r = NoGap
  <2>1. \A s \in GapStarts(RowsOf(o)) : ~Fits(Total, RowsOf(o), n, s) \/ n > Total
    BY <1>2 DEF Answers, NoContiguousGap
  <2>2. free = {}
    <3> SUFFICES ASSUME NEW s \in free PROVE FALSE
      OBVIOUS
    <3>1. n <= Total
      BY <1>0
    <3> QED
      BY <1>0, <1>1, <2>1, <3>1
  <2> QED
    BY <1>2, <2>2
<1>3. CASE r # NoGap
  <2>1. /\ Fits(Total, RowsOf(o), n, r.start) /\ r.end = r.start + n - 1
        /\ \A s \in GapStarts(RowsOf(o)) : Fits(Total, RowsOf(o), n, s) => r.start <= s
    BY <1>3 DEF Answers, FindContiguousGap
  <2>2. r.start \in Nat /\ r.start + n <= Total /\ FreeOf(RowsOf(o), n, r.start)
    BY <1>0, <2>1, FitIsFree
  <2>3. r.start \in free
    BY <1>0, <2>2
  <2>4. ASSUME NEW s \in free PROVE r.start <= s
    <3>1. PICK g \in GapStarts(RowsOf(o)) : g <= s /\ Fits(Total, RowsOf(o), n, g)
      BY <1>1
    <3>2. g \in Nat
      BY <1>0, <3>1, FitIsFree
    <3>3. r.start <= g
      BY <2>1, <3>1
    <3> QED
      BY <2>2, <3>1, <3>2, <3>3
  <2> QED
    BY <2>1, <2>3, <2>4
<1> QED
  BY <1>2, <1>3

-----------------------------------------------------------------------------
(* The sorted ranges are the rows, in an order of their starts.            *)

SameRange(a, b) == a.start = b.start /\ a.end = b.end

Arranged(o, s) ==
    /\ o \in Seq(OccupiedRange) /\ s \in Seq(OccupiedRange) /\ Len(s) = Len(o)
    /\ \A i, j \in 1 .. Len(s) : i < j => s[i].start <= s[j].start
    /\ \A i \in 1 .. Len(s) : \E a \in RowsOf(o) : SameRange(a, s[i])
    /\ \A a \in RowsOf(o) : \E i \in 1 .. Len(s) : SameRange(a, s[i])
    /\ \A i, j \in 1 .. Len(s) : i # j => \E a, b \in RowsOf(o) : a # b /\ SameRange(a, s[i]) /\ SameRange(b, s[j])
    /\ \A a, b \in RowsOf(o) : a # b => \E i, j \in 1 .. Len(s) : i # j /\ SameRange(a, s[i]) /\ SameRange(b, s[j])

LEMMA SortedIsArranged ==
    ASSUME NEW o \in Seq(OccupiedRange), NEW s \in Sorted(o)
    PROVE  Arranged(o, s)
<1> DEFINE n == Len(o)
           Row(k) == [row |-> k, start |-> o[k].start, end |-> o[k].end]
<1>0. n \in Nat
  OBVIOUS
<1>1. PICK p \in Orders(n) : s = [i \in 1 .. n |-> o[p[i]]]
  BY DEF Sorted
<1>2. p \in [1 .. n -> 1 .. n] /\ \A i, j \in 1 .. n : i # j => p[i] # p[j]
  BY <1>1 DEF Orders
<1>3. \A k \in 1 .. n : \E i \in 1 .. n : p[i] = k
  <2>1. p \in Injection(1 .. n, 1 .. n)
    BY <1>2 DEF Injection, IsInjective
  <2>2. IsFiniteSet(1 .. n)
    BY <1>0, FS_Interval
  <2>3. p \in Surjection(1 .. n, 1 .. n)
    BY <2>1, <2>2, FS_Injection
  <2> QED
    BY <2>3 DEF Surjection
<1>4. Len(s) = n /\ s \in Seq(OccupiedRange)
  <2>1. \A i \in 1 .. n : o[p[i]] \in OccupiedRange
    BY <1>2
  <2>2. s \in [1 .. n -> OccupiedRange]
    BY <1>1, <2>1
  <2> QED
    BY <1>0, <2>2
<1>5. \A i \in 1 .. n : Row(p[i]) \in RowsOf(o) /\ SameRange(Row(p[i]), s[i])
  <2> SUFFICES ASSUME NEW i \in 1 .. n PROVE Row(p[i]) \in RowsOf(o) /\ SameRange(Row(p[i]), s[i])
    OBVIOUS
  <2>1. p[i] \in DOMAIN o
    BY <1>2
  <2>2. Row(p[i]) \in RowsOf(o)
    BY <2>1 DEF RowsOf
  <2>3. s[i] = o[p[i]]
    BY <1>1
  <2> QED
    BY <2>2, <2>3 DEF SameRange
<1>6. \A a \in RowsOf(o) : \E i \in 1 .. n : a = Row(p[i])
  <2> SUFFICES ASSUME NEW a \in RowsOf(o) PROVE \E i \in 1 .. n : a = Row(p[i])
    OBVIOUS
  <2>1. PICK k \in 1 .. n : a = Row(k)
    BY DEF RowsOf
  <2>2. PICK i \in 1 .. n : p[i] = k
    BY <1>3
  <2> QED
    BY <2>1, <2>2
<1>7. \A i, j \in 1 .. n : i # j => Row(p[i]) # Row(p[j])
  <2> SUFFICES ASSUME NEW i \in 1 .. n, NEW j \in 1 .. n, i # j PROVE Row(p[i]).row # Row(p[j]).row
    OBVIOUS
  <2> QED
    BY <1>2
<1>8. \A i, j \in 1 .. n : i < j => s[i].start <= s[j].start
  <2>1. \A i, j \in 1 .. Len(o) : i < j => s[i].start <= s[j].start
    BY DEF Sorted
  <2> QED
    BY <2>1
<1> HIDE DEF Row
<1>9. \A a, b \in RowsOf(o) : a # b => \E i, j \in 1 .. n : i # j /\ SameRange(a, s[i]) /\ SameRange(b, s[j])
  <2> SUFFICES ASSUME NEW a \in RowsOf(o), NEW b \in RowsOf(o), a # b
               PROVE  \E i, j \in 1 .. n : i # j /\ SameRange(a, s[i]) /\ SameRange(b, s[j])
    OBVIOUS
  <2>1. PICK i \in 1 .. n : a = Row(p[i])
    BY <1>6
  <2>2. PICK j \in 1 .. n : b = Row(p[j])
    BY <1>6
  <2>3. SameRange(a, s[i]) /\ SameRange(b, s[j]) /\ i # j
    BY <1>5, <2>1, <2>2
  <2> QED
    BY <2>3
<1> HIDE DEF n
<1>10. \A a \in RowsOf(o) : \E i \in 1 .. n : SameRange(a, s[i])
  <2> SUFFICES ASSUME NEW a \in RowsOf(o) PROVE \E i \in 1 .. n : SameRange(a, s[i])
    OBVIOUS
  <2>1. PICK i \in 1 .. n : a = Row(p[i])
    BY <1>6
  <2> QED
    BY <1>5, <2>1
<1>11. \A i \in 1 .. n : \E a \in RowsOf(o) : SameRange(a, s[i])
  BY <1>5
<1>12. \A i, j \in 1 .. n : i # j => \E a, b \in RowsOf(o) : a # b /\ SameRange(a, s[i]) /\ SameRange(b, s[j])
  BY <1>5, <1>7
<1>13. n = Len(o)
  BY DEF n
<1> QED
  BY <1>4, <1>8, <1>9, <1>10, <1>11, <1>12, <1>13 DEF Arranged

Apart(s, i) == \A k \in 2 .. Len(s) : k < i => s[k - 1].end < s[k].start

LEMMA ArrangedRanges ==
    ASSUME NEW o, NEW s, Arranged(o, s)
    PROVE  /\ Len(s) \in Nat /\ Total \in Nat
           /\ \A i \in 1 .. Len(s) : LayerRange(s[i])
           /\ \A a \in RowsOf(o) : LayerRange(a)
BY OccupiedRanges, ScanAssumption DEF Arranged

LEMMA OverlapIsFound ==
    ASSUME NEW o, NEW s, Arranged(o, s), NEW k \in 2 .. Len(s), s[k].start <= s[k - 1].end
    PROVE  OverlappingRanges(RowsOf(o))
<1>1. k - 1 \in 1 .. Len(s) /\ k \in 1 .. Len(s) /\ k - 1 # k
  BY ArrangedRanges
<1>2. LayerRange(s[k - 1]) /\ LayerRange(s[k]) /\ s[k - 1].start <= s[k].start
  <2>1. k - 1 < k
    BY <1>1
  <2> QED
    BY <1>1, <2>1, ArrangedRanges DEF Arranged
<1>3. PICK a \in RowsOf(o), b \in RowsOf(o) : a # b /\ SameRange(a, s[k - 1]) /\ SameRange(b, s[k])
  BY <1>1 DEF Arranged
<1>4. ~Disjoint(a, b)
  BY <1>2, <1>3 DEF SameRange, Disjoint, LayerRange
<1> QED
  BY <1>3, <1>4 DEF OverlappingRanges

\* Neighbours apart, everything apart.
LEMMA AllApart ==
    ASSUME NEW o, NEW s, Arranged(o, s), Apart(s, Len(s) + 1)
    PROVE  /\ \A i, j \in 1 .. Len(s) : i < j => s[i].end < s[j].start
           /\ ~OverlappingRanges(RowsOf(o))
<1>1. ASSUME NEW i \in 1 .. Len(s), NEW j \in 1 .. Len(s), i < j PROVE s[i].end < s[j].start
  <2>1. i + 1 \in 2 .. Len(s) /\ i + 1 \in 1 .. Len(s) /\ i + 1 < Len(s) + 1 /\ (i + 1) - 1 = i
    BY <1>1, ArrangedRanges
  <2>2. s[i].end < s[i + 1].start
    BY <2>1 DEF Apart
  <2>3. i + 1 = j \/ s[i + 1].start <= s[j].start
    <3>1. i + 1 = j \/ i + 1 < j
      BY <1>1
    <3>2. \A a, b \in 1 .. Len(s) : a < b => s[a].start <= s[b].start
      BY DEF Arranged
    <3> QED
      BY <2>1, <3>1, <3>2
  <2>4. LayerRange(s[i]) /\ LayerRange(s[i + 1]) /\ LayerRange(s[j])
    BY <2>1, ArrangedRanges
  <2>5. CASE i + 1 = j
    BY <2>2, <2>5
  <2>6. CASE s[i + 1].start <= s[j].start
    BY <2>2, <2>4, <2>6 DEF LayerRange
  <2> QED
    BY <2>3, <2>5, <2>6
<1>2. ASSUME NEW a \in RowsOf(o), NEW b \in RowsOf(o), a # b PROVE Disjoint(a, b)
  <2>1. PICK i \in 1 .. Len(s), j \in 1 .. Len(s) : i # j /\ SameRange(a, s[i]) /\ SameRange(b, s[j])
    BY <1>2 DEF Arranged
  <2>2. i < j \/ j < i
    BY <2>1, ArrangedRanges
  <2>3. s[i].end < s[j].start \/ s[j].end < s[i].start
    BY <1>1, <2>2
  <2> QED
    BY <2>1, <2>3 DEF Disjoint, SameRange
<1> QED
  BY <1>1, <1>2 DEF OverlappingRanges

\* The gap behind the range at k, and whether it is wide enough.
Behind(s, k) == s[k].end + 1
WideEnough(s, n, k) ==
    IF k < Len(s) THEN (s[k + 1].start - 1) - (s[k].end + 1) + 1 >= n ELSE (Total - 1) - s[k].end >= n

LEMMA GapStartsAre ==
    ASSUME NEW o, NEW s, Arranged(o, s)
    PROVE  GapStarts(RowsOf(o)) = {0} \cup {Behind(s, k) : k \in 1 .. Len(s)}
<1>1. ASSUME NEW a \in RowsOf(o) PROVE \E k \in 1 .. Len(s) : a.end + 1 = Behind(s, k)
  <2>1. PICK k \in 1 .. Len(s) : SameRange(a, s[k])
    BY DEF Arranged
  <2> QED
    BY <2>1 DEF SameRange, Behind
<1>2. ASSUME NEW k \in 1 .. Len(s) PROVE \E a \in RowsOf(o) : a.end + 1 = Behind(s, k)
  <2>1. PICK a \in RowsOf(o) : SameRange(a, s[k])
    BY DEF Arranged
  <2> QED
    BY <2>1 DEF SameRange, Behind
<1> QED
  BY <1>1, <1>2 DEF GapStarts

LEMMA GapFits ==
    ASSUME NEW o, NEW s, Arranged(o, s), Apart(s, Len(s) + 1), NEW n \in Nat \ {0}, n <= Total, Len(s) > 0
    PROVE  /\ Fits(Total, RowsOf(o), n, 0) <=> s[1].start >= n
           /\ \A k \in 1 .. Len(s) : Fits(Total, RowsOf(o), n, Behind(s, k)) <=> WideEnough(s, n, k)
<1> DEFINE Clear(g) == \A i \in 1 .. Len(s) : s[i].start >= g => s[i].start >= g + n
<1>0. Len(s) \in Nat /\ Total \in Nat /\ \A i \in 1 .. Len(s) : LayerRange(s[i])
  BY ArrangedRanges
<1>1. \A g : Clear(g) <=> \A a \in RowsOf(o) : a.start >= g => a.start >= g + n
  <2> SUFFICES ASSUME NEW g PROVE Clear(g) <=> \A a \in RowsOf(o) : a.start >= g => a.start >= g + n
    OBVIOUS
  <2>1. ASSUME Clear(g), NEW a \in RowsOf(o), a.start >= g PROVE a.start >= g + n
    <3>1. PICK k \in 1 .. Len(s) : SameRange(a, s[k])
      BY DEF Arranged
    <3> QED
      BY <2>1, <3>1 DEF SameRange
  <2>2. ASSUME \A a \in RowsOf(o) : a.start >= g => a.start >= g + n, NEW k \in 1 .. Len(s), s[k].start >= g
        PROVE  s[k].start >= g + n
    <3>1. PICK a \in RowsOf(o) : SameRange(a, s[k])
      BY DEF Arranged
    <3> QED
      BY <2>2, <3>1 DEF SameRange
  <2> QED
    BY <2>1, <2>2
<1>2. Clear(0) <=> s[1].start >= n
  <2>1. 1 \in 1 .. Len(s) /\ \A i \in 1 .. Len(s) : i = 1 \/ 1 < i
    BY <1>0
  <2>2. \A i \in 1 .. Len(s) : s[1].start <= s[i].start /\ s[i].start \in Int /\ s[i].start >= 0
    BY <1>0, <2>1 DEF Arranged, LayerRange
  <2> QED
    BY <2>1, <2>2
<1>3. ASSUME NEW k \in 1 .. Len(s)
      PROVE  Clear(Behind(s, k)) /\ Behind(s, k) + n <= Total <=> WideEnough(s, n, k)
  <2>1. LayerRange(s[k]) /\ k \in Nat
    BY <1>0
  <2>2. \A i \in 1 .. Len(s) : i > k => s[i].start > s[k].end
    BY AllApart
  <2>3. \A i \in 1 .. Len(s) : i <= k => s[i].start <= s[k].end
    <3>1. \A i \in 1 .. Len(s) : i < k => s[i].start <= s[k].start
      BY DEF Arranged
    <3>2. ASSUME NEW i \in 1 .. Len(s), i <= k PROVE s[i].start <= s[k].end
      <4>1. i = k \/ s[i].start <= s[k].start
        BY <3>1, <3>2
      <4> QED
        BY <1>0, <4>1 DEF LayerRange
    <3> QED
      BY <3>2
  <2>4. CASE k < Len(s)
    <3>1. k + 1 \in 1 .. Len(s) /\ LayerRange(s[k + 1])
      BY <1>0, <2>1, <2>4
    <3>2. \A i \in 1 .. Len(s) : i > k => s[i].start >= s[k + 1].start
      <4> SUFFICES ASSUME NEW i \in 1 .. Len(s), i > k PROVE s[i].start >= s[k + 1].start
        OBVIOUS
      <4>1. i = k + 1 \/ k + 1 < i
        BY <2>1
      <4>2. CASE i = k + 1
        BY <3>1, <4>2 DEF LayerRange
      <4>3. CASE k + 1 < i
        <5>1. s[k + 1].start <= s[i].start
          BY <3>1, <4>3 DEF Arranged
        <5> QED
          BY <1>0, <3>1, <5>1 DEF LayerRange
      <4> QED
        BY <4>1, <4>2, <4>3
    <3>3. s[k + 1].start > s[k].end
      BY <2>1, <2>2, <3>1
    <3>4. WideEnough(s, n, k) <=> s[k + 1].start >= Behind(s, k) + n
      BY <2>1, <2>4, <3>1 DEF WideEnough, Behind, LayerRange
    <3>5. ASSUME Clear(Behind(s, k)) PROVE s[k + 1].start >= Behind(s, k) + n
      <4>1. s[k + 1].start >= Behind(s, k)
        BY <2>1, <3>1, <3>3 DEF Behind, LayerRange
      <4> QED
        BY <3>1, <3>5, <4>1
    <3>6. ASSUME s[k + 1].start >= Behind(s, k) + n PROVE Clear(Behind(s, k)) /\ Behind(s, k) + n <= Total
      <4>1. Behind(s, k) + n <= Total
        BY <1>0, <2>1, <3>1, <3>6 DEF Behind, LayerRange
      <4>2. ASSUME NEW i \in 1 .. Len(s), s[i].start >= Behind(s, k) PROVE s[i].start >= Behind(s, k) + n
        <5>0. LayerRange(s[i])
          BY <1>0
        <5>1. i > k
          <6>1. ~(i <= k)
            BY <2>1, <2>3, <4>2, <5>0 DEF Behind, LayerRange
          <6> QED
            BY <2>1, <6>1
        <5>2. s[i].start >= s[k + 1].start
          BY <3>2, <5>1
        <5> QED
          BY <2>1, <3>1, <3>6, <5>0, <5>2 DEF Behind, LayerRange
      <4> QED
        BY <4>1, <4>2
    <3> QED
      BY <3>4, <3>5, <3>6
  <2>5. CASE k = Len(s)
    <3>1. ASSUME NEW i \in 1 .. Len(s), s[i].start >= Behind(s, k) PROVE FALSE
      <4>1. s[i].start <= s[k].end
        BY <1>0, <2>3, <2>5
      <4> QED
        BY <1>0, <2>1, <3>1, <4>1 DEF Behind, LayerRange
    <3>2. Clear(Behind(s, k))
      BY <3>1
    <3>3. WideEnough(s, n, k) <=> Behind(s, k) + n <= Total
      BY <1>0, <2>1, <2>5 DEF WideEnough, Behind, LayerRange
    <3> QED
      BY <3>2, <3>3
  <2> QED
    BY <1>0, <2>4, <2>5
<1> HIDE DEF Clear
<1>4. Fits(Total, RowsOf(o), n, 0) <=> Clear(0)
  <2>1. 0 \in GapStarts(RowsOf(o)) /\ 0 + n <= Total
    BY DEF GapStarts
  <2> QED
    BY <1>1, <2>1 DEF Fits
<1>5. \A k \in 1 .. Len(s) :
         Fits(Total, RowsOf(o), n, Behind(s, k)) <=> Clear(Behind(s, k)) /\ Behind(s, k) + n <= Total
  <2>1. \A k \in 1 .. Len(s) : Behind(s, k) \in GapStarts(RowsOf(o))
    BY GapStartsAre
  <2> QED
    BY <1>1, <2>1 DEF Fits
<1> QED
  BY <1>2, <1>3, <1>4, <1>5

-----------------------------------------------------------------------------
(* The loops.                                                              *)

Places == {"check", "overlap", "first", "between", "last", "done"}
ScanStates ==
    [algo : {"scan"}, occupied : Seq(OccupiedRange), needed : Int, sorted : Seq(OccupiedRange),
     i : Int, at : Places, result : [start : Int, end : Int]]

Sorting == st.at \in {"overlap", "first", "between", "last"}
ScanInv ==
    /\ st \in ScanStates
    /\ Sorting => InLayer /\ Arranged(st.occupied, st.sorted) /\ Len(st.sorted) > 0
    /\ st.at = "overlap" => st.i >= 2 /\ Apart(st.sorted, st.i)
    /\ st.at \in {"first", "between", "last"} => Apart(st.sorted, Len(st.sorted) + 1)
    /\ st.at \in {"between", "last"} => st.sorted[1].start < st.needed
    /\ st.at = "between" => /\ st.i \in 1 .. Len(st.sorted)
                            /\ \A k \in 1 .. Len(st.sorted) : k < st.i => ~WideEnough(st.sorted, st.needed, k)
    /\ st.at = "last" => \A k \in 1 .. Len(st.sorted) : k < Len(st.sorted) => ~WideEnough(st.sorted, st.needed, k)
    /\ st.at = "done" => Answers(st.occupied, st.needed, st.result)

LEMMA ScanTyped ==
    ASSUME ScanInv
    PROVE  /\ st \in ScanStates /\ st.algo = "scan" /\ st.needed \in Int /\ st.i \in Int
           /\ st.occupied \in Seq(OccupiedRange) /\ Len(st.occupied) \in Nat
           /\ st.sorted \in Seq(OccupiedRange) /\ Len(st.sorted) \in Nat
<1>1. st \in ScanStates
  BY DEF ScanInv
<1>2. st.algo = "scan" /\ st.needed \in Int /\ st.i \in Int
      /\ st.occupied \in Seq(OccupiedRange) /\ st.sorted \in Seq(OccupiedRange)
  BY <1>1 DEF ScanStates
<1> QED
  BY <1>1, <1>2

LEMMA GiveKeeps ==
    ASSUME ScanInv, NEW r \in [start : Int, end : Int], Answers(st.occupied, st.needed, r), Give(r)
    PROVE  ScanInv'
<1>1. st \in ScanStates
  BY DEF ScanInv
<1>2. st' \in ScanStates /\ st'.at = "done" /\ st'.result = r /\ st'.occupied = st.occupied
      /\ st'.needed = st.needed
  BY <1>1 DEF Give, ScanStates, Places
<1>3. Answers(st.occupied, st.needed, st'.result)
  BY <1>2
<1>4. Answers(st'.occupied, st'.needed, st'.result)
  BY <1>2, <1>3
<1> QED
  BY <1>2, <1>4 DEF ScanInv, Sorting

\* The gap at s.
LEMMA GapIsAnswer ==
    ASSUME ScanInv, InLayer, NEW s \in Int, Fits(Total, RowsOf(st.occupied), st.needed, s),
           ~OverlappingRanges(RowsOf(st.occupied)), s >= 0,
           \A g \in GapStarts(RowsOf(st.occupied)) : Fits(Total, RowsOf(st.occupied), st.needed, g) => s <= g
    PROVE  GapFrom(s) \in [start : Int, end : Int] /\ Answers(st.occupied, st.needed, GapFrom(s))
<1>1. st.needed \in Int
  BY ScanTyped
<1>2. GapFrom(s) \in [start : Int, end : Int] /\ GapFrom(s).start = s /\ GapFrom(s).end = s + st.needed - 1
  BY <1>1 DEF GapFrom
<1>3. GapFrom(s) # NoGap
  <2>1. GapFrom(s).start # NoGap.start
    BY <1>2 DEF NoGap
  <2> QED
    BY <2>1
<1>4. FindContiguousGap(Total, RowsOf(st.occupied), st.needed, GapFrom(s))
  BY <1>2 DEF FindContiguousGap, InLayer
<1> QED
  BY <1>2, <1>3, <1>4 DEF Answers

LEMMA NoGapIsAnswer ==
    ASSUME NEW o, NEW n, NoContiguousGap(Total, RowsOf(o), n)
    PROVE  NoGap \in [start : Int, end : Int] /\ Answers(o, n, NoGap)
BY DEF Answers, NoGap

LEMMA CheckArgumentsKeeps ==
    ASSUME ScanInv, CheckArguments
    PROVE  ScanInv'
<1>0. st.needed \in Int /\ Total \in Nat /\ st.occupied \in Seq(OccupiedRange)
  BY ScanTyped, ScanAssumption
<1>1. CASE ~InLayer /\ Give(NoGap)
  <2>1. NoContiguousGap(Total, RowsOf(st.occupied), st.needed)
    BY <1>0, <1>1 DEF InLayer, NoContiguousGap
  <2> QED
    BY <1>1, <2>1, NoGapIsAnswer, GiveKeeps
<1>2. CASE InLayer /\ Len(st.occupied) = 0 /\ Give(GapFrom(0))
  <2>1. RowsOf(st.occupied) = {}
    BY <1>0, <1>2 DEF RowsOf
  <2>2. GapStarts(RowsOf(st.occupied)) = {0} /\ ~OverlappingRanges(RowsOf(st.occupied))
    BY <2>1 DEF GapStarts, OverlappingRanges
  <2>3. Fits(Total, RowsOf(st.occupied), st.needed, 0)
    BY <1>0, <1>2, <2>1, <2>2 DEF Fits, InLayer
  <2>4. Answers(st.occupied, st.needed, GapFrom(0)) /\ GapFrom(0) \in [start : Int, end : Int]
    BY <1>2, <2>2, <2>3, GapIsAnswer
  <2> QED
    BY <1>2, <2>4, GiveKeeps
<1> QED
  BY <1>1, <1>2 DEF CheckArguments

LEMMA SortRangesKeeps ==
    ASSUME ScanInv, SortRanges
    PROVE  ScanInv'
<1>0. st \in ScanStates /\ st.occupied \in Seq(OccupiedRange) /\ Len(st.occupied) \in Nat
  BY ScanTyped
<1>1. PICK s \in Sorted(st.occupied) : st' = [st EXCEPT !.sorted = s, !.at = "overlap", !.i = 2]
  BY DEF SortRanges
<1>2. Arranged(st.occupied, s)
  BY <1>0, SortedIsArranged
<1>3. s \in Seq(OccupiedRange) /\ Len(s) = Len(st.occupied)
  BY <1>2 DEF Arranged
<1>4. /\ st' \in ScanStates /\ st'.at = "overlap" /\ st'.i = 2 /\ st'.sorted = s
      /\ st'.occupied = st.occupied /\ st'.needed = st.needed
  <2>1. PICK a : a = [st EXCEPT !.sorted = s]
    OBVIOUS
  <2>2. PICK b : b = [a EXCEPT !.at = "overlap"]
    OBVIOUS
  <2>3. st' = [b EXCEPT !.i = 2]
    BY <1>1, <2>1, <2>2
  <2>4. a \in ScanStates /\ a.sorted = s /\ a.occupied = st.occupied /\ a.needed = st.needed
    BY <1>0, <1>3, <2>1 DEF ScanStates
  <2>5. b \in ScanStates /\ b.at = "overlap" /\ b.sorted = s /\ b.occupied = st.occupied /\ b.needed = st.needed
    BY <2>2, <2>4 DEF ScanStates, Places
  <2> QED
    BY <2>3, <2>5 DEF ScanStates
<1>5. Apart(s, 2)
  BY DEF Apart
<1>6. 0 < st'.needed /\ st'.needed <= Total /\ Len(s) > 0
  BY <1>3, <1>4 DEF SortRanges, InLayer
<1>7. InLayer' /\ Arranged(st'.occupied, st'.sorted) /\ Len(st'.sorted) > 0
  BY <1>2, <1>4, <1>6 DEF InLayer
<1>8. st'.i >= 2 /\ Apart(st'.sorted, st'.i)
  BY <1>4, <1>5
<1> QED
  BY <1>4, <1>7, <1>8 DEF ScanInv

\* A step that moves on: the loop counter and the place.
LEMMA MovesOn ==
    ASSUME ScanInv, Sorting, NEW q \in Places, NEW j \in Int, st' = [[st EXCEPT !.i = j] EXCEPT !.at = q]
    PROVE  /\ st' \in ScanStates /\ st'.at = q /\ st'.i = j /\ st'.occupied = st.occupied
           /\ st'.needed = st.needed /\ st'.sorted = st.sorted
           /\ InLayer' /\ Arranged(st'.occupied, st'.sorted) /\ Len(st'.sorted) > 0
<1>0. st \in ScanStates
  BY DEF ScanInv
<1>1. /\ st' \in ScanStates /\ st'.at = q /\ st'.i = j /\ st'.occupied = st.occupied
      /\ st'.needed = st.needed /\ st'.sorted = st.sorted
  BY <1>0 DEF ScanStates
<1>2. InLayer /\ Arranged(st.occupied, st.sorted) /\ Len(st.sorted) > 0
  BY DEF ScanInv
<1> QED
  BY <1>1, <1>2 DEF InLayer

LEMMA DetectOverlapKeeps ==
    ASSUME ScanInv, DetectOverlap
    PROVE  ScanInv'
<1>0. st.at = "overlap" /\ Sorting
  BY DEF DetectOverlap, ScanAt, Sorting
<1>1. st \in ScanStates /\ st.i \in Int /\ st.i >= 2 /\ Apart(st.sorted, st.i) /\ Arranged(st.occupied, st.sorted)
  BY <1>0, ScanTyped DEF ScanInv
<1>2. Len(st.sorted) \in Nat
  BY ScanTyped
<1>3. CASE st.i <= Len(st.sorted) /\ st.sorted[st.i].start <= st.sorted[st.i - 1].end /\ Give(NoGap)
  <2>1. OverlappingRanges(RowsOf(st.occupied))
    BY <1>1, <1>2, <1>3, OverlapIsFound
  <2> QED
    BY <1>3, <2>1, NoGapIsAnswer, GiveKeeps DEF NoContiguousGap
<1>4. CASE /\ st.i <= Len(st.sorted) /\ st.sorted[st.i].start > st.sorted[st.i - 1].end
           /\ st' = [st EXCEPT !.i = @ + 1]
  <2>0. st.i + 1 \in Int
    BY <1>1
  <2>1. st' = [[st EXCEPT !.i = st.i + 1] EXCEPT !.at = "overlap"] /\ "overlap" \in Places
    BY <1>0, <1>1, <1>4 DEF ScanStates, Places
  <2>2. /\ st' \in ScanStates /\ st'.at = "overlap" /\ st'.i = st.i + 1 /\ st'.sorted = st.sorted
        /\ InLayer' /\ Arranged(st'.occupied, st'.sorted) /\ Len(st'.sorted) > 0
    BY <1>0, <2>0, <2>1, MovesOn
  <2>3. st.i \in 1 .. Len(st.sorted) /\ st.i - 1 \in 1 .. Len(st.sorted)
    BY <1>1, <1>2, <1>4
  <2>4. LayerRange(st.sorted[st.i]) /\ LayerRange(st.sorted[st.i - 1])
    BY <1>1, <2>3, ArrangedRanges
  <2>5. st.sorted[st.i - 1].end < st.sorted[st.i].start
    BY <1>4, <2>4 DEF LayerRange
  <2>6. Apart(st.sorted, st.i + 1)
    <3> SUFFICES ASSUME NEW k \in 2 .. Len(st.sorted), k < st.i + 1 PROVE st.sorted[k - 1].end < st.sorted[k].start
      BY DEF Apart
    <3>1. k = st.i \/ k < st.i
      BY <1>1
    <3> QED
      BY <1>1, <2>5, <3>1 DEF Apart
  <2>7. st'.i >= 2 /\ Apart(st'.sorted, st'.i)
    BY <1>1, <2>2, <2>6
  <2> QED
    BY <2>2, <2>7 DEF ScanInv
<1>5. CASE st.i > Len(st.sorted) /\ st' = [st EXCEPT !.at = "first"]
  <2>1. st' = [[st EXCEPT !.i = st.i] EXCEPT !.at = "first"] /\ "first" \in Places
    BY <1>1, <1>5 DEF ScanStates, Places
  <2>2. /\ st' \in ScanStates /\ st'.at = "first" /\ st'.sorted = st.sorted
        /\ InLayer' /\ Arranged(st'.occupied, st'.sorted) /\ Len(st'.sorted) > 0
    BY <1>0, <1>1, <2>1, MovesOn
  <2>3. Apart(st.sorted, Len(st.sorted) + 1)
    BY <1>1, <1>2, <1>5 DEF Apart
  <2>4. Apart(st'.sorted, Len(st'.sorted) + 1)
    BY <2>2, <2>3
  <2> QED
    BY <2>2, <2>4 DEF ScanInv
<1> QED
  BY <1>3, <1>4, <1>5 DEF DetectOverlap

\* What holds when the ranges are known to be apart.
LEMMA SortedGaps ==
    ASSUME ScanInv, st.at \in {"first", "between", "last"}
    PROVE  /\ InLayer /\ ~OverlappingRanges(RowsOf(st.occupied)) /\ Len(st.sorted) \in Nat \ {0} /\ Sorting
           /\ st.needed \in Nat \ {0} /\ st.needed <= Total /\ Total \in Nat
           /\ \A k \in 1 .. Len(st.sorted) : LayerRange(st.sorted[k])
           /\ GapStarts(RowsOf(st.occupied)) = {0} \cup {Behind(st.sorted, k) : k \in 1 .. Len(st.sorted)}
           /\ Fits(Total, RowsOf(st.occupied), st.needed, 0) <=> st.sorted[1].start >= st.needed
           /\ \A k \in 1 .. Len(st.sorted) :
                 Fits(Total, RowsOf(st.occupied), st.needed, Behind(st.sorted, k)) <=> WideEnough(st.sorted, st.needed, k)
           /\ \A k, m \in 1 .. Len(st.sorted) : k < m => Behind(st.sorted, k) <= Behind(st.sorted, m)
<1>1. InLayer /\ Arranged(st.occupied, st.sorted) /\ Len(st.sorted) > 0 /\ Apart(st.sorted, Len(st.sorted) + 1)
      /\ Sorting
  BY DEF ScanInv, Sorting
<1>2. st.needed \in Nat \ {0} /\ st.needed <= Total /\ Total \in Nat /\ Len(st.sorted) \in Nat \ {0}
  BY <1>1, ScanTyped, ScanAssumption DEF InLayer
<1>3. \A k, m \in 1 .. Len(st.sorted) : k < m => Behind(st.sorted, k) <= Behind(st.sorted, m)
  <2> SUFFICES ASSUME NEW k \in 1 .. Len(st.sorted), NEW m \in 1 .. Len(st.sorted), k < m
               PROVE  Behind(st.sorted, k) <= Behind(st.sorted, m)
    OBVIOUS
  <2>1. st.sorted[k].end < st.sorted[m].start
    BY <1>1, AllApart
  <2>2. LayerRange(st.sorted[k]) /\ LayerRange(st.sorted[m])
    BY <1>1, ArrangedRanges
  <2> QED
    BY <2>1, <2>2 DEF Behind, LayerRange
<1>4. ~OverlappingRanges(RowsOf(st.occupied))
  BY <1>1, AllApart
<1>5. \A k \in 1 .. Len(st.sorted) : LayerRange(st.sorted[k])
  BY <1>1, ArrangedRanges
<1>6. GapStarts(RowsOf(st.occupied)) = {0} \cup {Behind(st.sorted, k) : k \in 1 .. Len(st.sorted)}
  BY <1>1, GapStartsAre
<1> QED
  BY <1>1, <1>2, <1>3, <1>4, <1>5, <1>6, GapFits

LEMMA GapBeforeFirstKeeps ==
    ASSUME ScanInv, GapBeforeFirst
    PROVE  ScanInv'
<1>0. st.at = "first" /\ st \in ScanStates
  BY ScanTyped DEF GapBeforeFirst, ScanAt
<1>1. CASE st.sorted[1].start >= st.needed /\ Give(GapFrom(0))
  <2>1. Fits(Total, RowsOf(st.occupied), st.needed, 0)
    BY <1>0, <1>1, SortedGaps
  <2>2. \A g \in GapStarts(RowsOf(st.occupied)) : 0 <= g
    <3>1. \A k \in 1 .. Len(st.sorted) : 0 <= Behind(st.sorted, k)
      <4> SUFFICES ASSUME NEW k \in 1 .. Len(st.sorted) PROVE 0 <= Behind(st.sorted, k)
        OBVIOUS
      <4>1. LayerRange(st.sorted[k])
        BY <1>0, SortedGaps
      <4> QED
        BY <4>1 DEF LayerRange, Behind
    <3>2. GapStarts(RowsOf(st.occupied)) = {0} \cup {Behind(st.sorted, k) : k \in 1 .. Len(st.sorted)}
      BY <1>0, SortedGaps
    <3> QED
      BY <3>1, <3>2
  <2>3. InLayer /\ ~OverlappingRanges(RowsOf(st.occupied))
    BY <1>0, SortedGaps
  <2>4. Answers(st.occupied, st.needed, GapFrom(0)) /\ GapFrom(0) \in [start : Int, end : Int]
    BY <2>1, <2>2, <2>3, GapIsAnswer
  <2> QED
    BY <1>1, <2>4, GiveKeeps
<1>2. CASE st.sorted[1].start < st.needed /\ st' = [st EXCEPT !.at = "between", !.i = 1]
  <2>0. Sorting /\ Len(st.sorted) \in Nat \ {0}
    BY <1>0, SortedGaps
  <2>1. st' = [[st EXCEPT !.i = 1] EXCEPT !.at = "between"] /\ "between" \in Places
    BY <1>0, <1>2 DEF ScanStates, Places
  <2>2. /\ st' \in ScanStates /\ st'.at = "between" /\ st'.i = 1 /\ st'.sorted = st.sorted
        /\ st'.needed = st.needed
        /\ InLayer' /\ Arranged(st'.occupied, st'.sorted) /\ Len(st'.sorted) > 0
    <3>1. 1 \in Int
      OBVIOUS
    <3> QED
      BY <2>0, <2>1, <3>1, MovesOn
  <2>3. Apart(st.sorted, Len(st.sorted) + 1)
    BY <1>0 DEF ScanInv
  <2>4. Apart(st'.sorted, Len(st'.sorted) + 1) /\ st'.sorted[1].start < st'.needed
    BY <1>2, <2>2, <2>3
  <2>5. st'.i \in 1 .. Len(st'.sorted) /\ \A k \in 1 .. Len(st'.sorted) : ~(k < st'.i)
    BY <2>0, <2>2
  <2> QED
    BY <2>2, <2>4, <2>5 DEF ScanInv
<1> QED
  BY <1>1, <1>2 DEF GapBeforeFirst

\* The first gap that is wide enough.
LEMMA FirstWideGap ==
    ASSUME ScanInv, st.at \in {"between", "last"}, NEW i \in 1 .. Len(st.sorted),
           WideEnough(st.sorted, st.needed, i),
           \A k \in 1 .. Len(st.sorted) : k < i => ~WideEnough(st.sorted, st.needed, k)
    PROVE  /\ GapFrom(st.sorted[i].end + 1) \in [start : Int, end : Int]
           /\ Answers(st.occupied, st.needed, GapFrom(st.sorted[i].end + 1))
<1>0. st.sorted[1].start < st.needed /\ st.at \in {"first", "between", "last"}
  BY DEF ScanInv
<1> DEFINE s == Behind(st.sorted, i)
<1>1. LayerRange(st.sorted[i]) /\ LayerRange(st.sorted[1]) /\ st.needed \in Int
  <2>1. 1 \in 1 .. Len(st.sorted)
    BY <1>0, SortedGaps
  <2> QED
    BY <1>0, <2>1, SortedGaps
<1>2. s \in Int /\ s >= 0 /\ s = st.sorted[i].end + 1
  BY <1>1 DEF LayerRange, Behind
<1>3. Fits(Total, RowsOf(st.occupied), st.needed, s)
  BY <1>0, SortedGaps
<1>4. ASSUME NEW g \in GapStarts(RowsOf(st.occupied)), Fits(Total, RowsOf(st.occupied), st.needed, g) PROVE s <= g
  <2>1. g # 0
    <3>1. ~(st.sorted[1].start >= st.needed)
      BY <1>0, <1>1 DEF LayerRange
    <3>2. ~Fits(Total, RowsOf(st.occupied), st.needed, 0)
      BY <1>0, <3>1, SortedGaps
    <3> QED
      BY <1>4, <3>2
  <2>2. PICK k \in 1 .. Len(st.sorted) : g = Behind(st.sorted, k)
    <3>1. GapStarts(RowsOf(st.occupied)) = {0} \cup {Behind(st.sorted, k) : k \in 1 .. Len(st.sorted)}
      BY <1>0, SortedGaps
    <3> QED
      BY <2>1, <3>1
  <2>3. WideEnough(st.sorted, st.needed, k)
    BY <1>0, <1>4, <2>2, SortedGaps
  <2>4. ~(k < i)
    BY <2>3
  <2>5. k = i \/ i < k
    BY <2>4
  <2>6. \A a, b \in 1 .. Len(st.sorted) : a < b => Behind(st.sorted, a) <= Behind(st.sorted, b)
    BY <1>0, SortedGaps
  <2> QED
    BY <1>2, <2>2, <2>5, <2>6
<1> HIDE DEF s
<1>5. InLayer /\ ~OverlappingRanges(RowsOf(st.occupied))
  BY <1>0, SortedGaps
<1>6. Answers(st.occupied, st.needed, GapFrom(s)) /\ GapFrom(s) \in [start : Int, end : Int]
  BY <1>2, <1>3, <1>4, <1>5, GapIsAnswer
<1> QED
  BY <1>2, <1>6

LEMMA GapBetweenKeeps ==
    ASSUME ScanInv, GapBetween
    PROVE  ScanInv'
<1>0. st.at = "between" /\ st \in ScanStates
  BY ScanTyped DEF GapBetween, ScanAt
<1>1. /\ st.i \in 1 .. Len(st.sorted) /\ Sorting /\ Len(st.sorted) \in Nat \ {0} /\ st.needed \in Int
      /\ \A k \in 1 .. Len(st.sorted) : k < st.i => ~WideEnough(st.sorted, st.needed, k)
  BY <1>0, SortedGaps DEF ScanInv
<1>2. st.i < Len(st.sorted) => (WideEnough(st.sorted, st.needed, st.i) <=> GapSize(st.i) >= st.needed)
  BY DEF WideEnough, GapSize
<1>3. st.sorted[1].start < st.needed /\ Apart(st.sorted, Len(st.sorted) + 1)
  BY <1>0 DEF ScanInv
<1>4. CASE st.i < Len(st.sorted) /\ GapSize(st.i) >= st.needed /\ Give(GapFrom(st.sorted[st.i].end + 1))
  <2>1. /\ GapFrom(st.sorted[st.i].end + 1) \in [start : Int, end : Int]
        /\ Answers(st.occupied, st.needed, GapFrom(st.sorted[st.i].end + 1))
    BY <1>0, <1>1, <1>2, <1>4, FirstWideGap
  <2> QED
    BY <1>4, <2>1, GiveKeeps
<1>5. CASE st.i < Len(st.sorted) /\ GapSize(st.i) < st.needed /\ st' = [st EXCEPT !.i = @ + 1]
  <2>0. st.i \in Int /\ st.i + 1 \in Int
    BY <1>1
  <2>1. st' = [[st EXCEPT !.i = st.i + 1] EXCEPT !.at = "between"] /\ "between" \in Places
    BY <1>0, <1>5, <2>0 DEF ScanStates, Places
  <2>2. /\ st' \in ScanStates /\ st'.at = "between" /\ st'.i = st.i + 1 /\ st'.sorted = st.sorted
        /\ st'.needed = st.needed
        /\ InLayer' /\ Arranged(st'.occupied, st'.sorted) /\ Len(st'.sorted) > 0
    BY <1>1, <2>0, <2>1, MovesOn
  <2>3. ~WideEnough(st.sorted, st.needed, st.i)
    <3>1. LayerRange(st.sorted[st.i]) /\ LayerRange(st.sorted[st.i + 1])
      <4>1. st.i + 1 \in 1 .. Len(st.sorted)
        BY <1>1, <1>5
      <4> QED
        BY <1>0, <1>1, <4>1, SortedGaps
    <3>2. GapSize(st.i) \in Int
      BY <3>1 DEF GapSize, LayerRange
    <3> QED
      BY <1>1, <1>2, <1>5, <3>2
  <2>4. \A k \in 1 .. Len(st.sorted) : k < st.i + 1 => ~WideEnough(st.sorted, st.needed, k)
    <3> SUFFICES ASSUME NEW k \in 1 .. Len(st.sorted), k < st.i + 1 PROVE ~WideEnough(st.sorted, st.needed, k)
      OBVIOUS
    <3>1. k < st.i \/ k = st.i
      BY <1>1
    <3> QED
      BY <1>1, <2>3, <3>1
  <2>5. /\ st'.i \in 1 .. Len(st'.sorted) /\ Apart(st'.sorted, Len(st'.sorted) + 1)
        /\ st'.sorted[1].start < st'.needed
    BY <1>1, <1>3, <1>5, <2>2
  <2>6. \A k \in 1 .. Len(st'.sorted) : k < st'.i => ~WideEnough(st'.sorted, st'.needed, k)
    BY <2>2, <2>4
  <2> QED
    BY <2>2, <2>5, <2>6 DEF ScanInv
<1>6. CASE st.i >= Len(st.sorted) /\ st' = [st EXCEPT !.at = "last"]
  <2>1. st' = [[st EXCEPT !.i = st.i] EXCEPT !.at = "last"] /\ "last" \in Places /\ st.i \in Int
    BY <1>0, <1>1, <1>6 DEF ScanStates, Places
  <2>2. /\ st' \in ScanStates /\ st'.at = "last" /\ st'.sorted = st.sorted /\ st'.needed = st.needed
        /\ InLayer' /\ Arranged(st'.occupied, st'.sorted) /\ Len(st'.sorted) > 0
    BY <1>1, <2>1, MovesOn
  <2>3. \A k \in 1 .. Len(st.sorted) : k < Len(st.sorted) => ~WideEnough(st.sorted, st.needed, k)
    BY <1>1, <1>6
  <2>4. \A k \in 1 .. Len(st'.sorted) : k < Len(st'.sorted) => ~WideEnough(st'.sorted, st'.needed, k)
    BY <2>2, <2>3
  <2>5. st'.sorted[1].start < st'.needed /\ Apart(st'.sorted, Len(st'.sorted) + 1)
    BY <1>3, <2>2
  <2> QED
    BY <2>2, <2>4, <2>5 DEF ScanInv
<1> QED
  BY <1>4, <1>5, <1>6 DEF GapBetween

LEMMA GapAfterLastKeeps ==
    ASSUME ScanInv, GapAfterLast
    PROVE  ScanInv'
<1> DEFINE n == Len(st.sorted)
<1>0. st.at = "last" /\ Give(IF Total - 1 - st.sorted[n].end >= st.needed THEN GapFrom(st.sorted[n].end + 1) ELSE NoGap)
  BY DEF GapAfterLast, ScanAt
<1>1. n \in 1 .. Len(st.sorted) /\ \A k \in 1 .. Len(st.sorted) : k < n => ~WideEnough(st.sorted, st.needed, k)
  BY <1>0, SortedGaps DEF ScanInv
<1>2. WideEnough(st.sorted, st.needed, n) <=> Total - 1 - st.sorted[n].end >= st.needed
  BY <1>1 DEF WideEnough
<1>3. CASE WideEnough(st.sorted, st.needed, n)
  <2>1. /\ GapFrom(st.sorted[n].end + 1) \in [start : Int, end : Int]
        /\ Answers(st.occupied, st.needed, GapFrom(st.sorted[n].end + 1))
    BY <1>0, <1>1, <1>3, FirstWideGap
  <2> QED
    BY <1>0, <1>2, <1>3, <2>1, GiveKeeps
<1>4. CASE ~WideEnough(st.sorted, st.needed, n)
  <2>1. \A k \in 1 .. Len(st.sorted) : ~WideEnough(st.sorted, st.needed, k)
    <3>1. \A k \in 1 .. Len(st.sorted) : k < n \/ k = n
      BY <1>1
    <3> QED
      BY <1>1, <1>4, <3>1
  <2>2. \A k \in 1 .. Len(st.sorted) : ~Fits(Total, RowsOf(st.occupied), st.needed, Behind(st.sorted, k))
    BY <1>0, <2>1, SortedGaps
  <2>3. ~Fits(Total, RowsOf(st.occupied), st.needed, 0)
    <3>1. st.sorted[1].start < st.needed
      BY <1>0 DEF ScanInv
    <3>2. LayerRange(st.sorted[1]) /\ st.needed \in Int
      <4>1. 1 \in 1 .. Len(st.sorted)
        BY <1>0, SortedGaps
      <4> QED
        BY <1>0, <4>1, SortedGaps
    <3>3. ~(st.sorted[1].start >= st.needed)
      BY <3>1, <3>2 DEF LayerRange
    <3> QED
      BY <1>0, <3>3, SortedGaps
  <2>4. GapStarts(RowsOf(st.occupied)) = {0} \cup {Behind(st.sorted, k) : k \in 1 .. Len(st.sorted)}
    BY <1>0, SortedGaps
  <2>5. NoContiguousGap(Total, RowsOf(st.occupied), st.needed)
    BY <2>2, <2>3, <2>4 DEF NoContiguousGap
  <2>6. Give(NoGap)
    BY <1>0, <1>2, <1>4
  <2> QED
    BY <2>5, <2>6, NoGapIsAnswer, GiveKeeps
<1> QED
  BY <1>3, <1>4

LEMMA ScanStarts == ScanInit => ScanInv
<1> SUFFICES ASSUME ScanInit PROVE ScanInv
  OBVIOUS
<1>1. PICK n \in 0 .. MaxRanges : \E occupied \in [1 .. n -> OccupiedRange], needed \in 0 .. Total + 1 :
         st = [algo |-> "scan", occupied |-> occupied, needed |-> needed, sorted |-> <<>>,
               i |-> 0, at |-> "check", result |-> NoGap]
  BY DEF ScanInit
<1>2. PICK occupied \in [1 .. n -> OccupiedRange], needed \in 0 .. Total + 1 :
         st = [algo |-> "scan", occupied |-> occupied, needed |-> needed, sorted |-> <<>>,
               i |-> 0, at |-> "check", result |-> NoGap]
  BY <1>1
<1>3. occupied \in Seq(OccupiedRange) /\ needed \in Int /\ <<>> \in Seq(OccupiedRange)
      /\ NoGap \in [start : Int, end : Int]
  BY ScanAssumption DEF NoGap
<1>4. st \in ScanStates /\ st.at = "check"
  BY <1>2, <1>3 DEF ScanStates, Places
<1> QED
  BY <1>4 DEF ScanInv, Sorting

LEMMA ScanStep ==
    ASSUME ScanInv, ScanNext
    PROVE  ScanInv'
BY CheckArgumentsKeeps, SortRangesKeeps, DetectOverlapKeeps, GapBeforeFirstKeeps, GapBetweenKeeps,
   GapAfterLastKeeps DEF ScanNext

LEMMA ScanIsExact ==
    ASSUME ScanInv
    PROVE  ScanMatchesRelation /\ ScanIsFirstFit
<1>0. st.occupied \in Seq(OccupiedRange) /\ st.needed \in Int /\ Total \in Nat
  BY ScanTyped, ScanAssumption
<1>1. InputRows = RowsOf(st.occupied)
  BY DEF InputRows, RowsOf
<1>2. ASSUME st.at = "done" PROVE Answers(st.occupied, st.needed, st.result)
  BY <1>2 DEF ScanInv
<1>3. ScanMatchesRelation
  BY <1>1, <1>2 DEF ScanMatchesRelation, ScanAt, Answers
<1>4. ASSUME st.at = "done", st.needed > 0, ~OverlappingRanges(InputRows)
      PROVE  LET positions == {s \in 0 .. Total - st.needed : FreeAt(s)}
             IN  IF positions = {} THEN st.result = NoGap
                 ELSE /\ st.result.start \in positions
                      /\ st.result.end = st.result.start + st.needed - 1
                      /\ \A s \in positions : st.result.start <= s
  <2>1. \A s : FreeAt(s) <=> FreeOf(RowsOf(st.occupied), st.needed, s)
    <3> SUFFICES ASSUME NEW s PROVE FreeAt(s) <=> FreeOf(RowsOf(st.occupied), st.needed, s)
      OBVIOUS
    <3>1. ASSUME NEW k \in DOMAIN st.occupied
          PROVE  \E a \in RowsOf(st.occupied) : a.start = st.occupied[k].start /\ a.end = st.occupied[k].end
      <4>1. [row |-> k, start |-> st.occupied[k].start, end |-> st.occupied[k].end] \in RowsOf(st.occupied)
        BY DEF RowsOf
      <4> QED
        BY <4>1
    <3>2. ASSUME NEW a \in RowsOf(st.occupied)
          PROVE  \E k \in DOMAIN st.occupied : a.start = st.occupied[k].start /\ a.end = st.occupied[k].end
      BY DEF RowsOf
    <3>3. ASSUME FreeAt(s), NEW a \in RowsOf(st.occupied) PROVE s + st.needed - 1 < a.start \/ a.end < s
      BY <3>2, <3>3 DEF FreeAt
    <3>4. ASSUME FreeOf(RowsOf(st.occupied), st.needed, s), NEW k \in DOMAIN st.occupied
          PROVE  s + st.needed - 1 < st.occupied[k].start \/ st.occupied[k].end < s
      BY <3>1, <3>4 DEF FreeOf
    <3> QED
      BY <3>3, <3>4 DEF FreeAt, FreeOf
  <2>2. {s \in 0 .. Total - st.needed : FreeAt(s)}
        = {s \in 0 .. Total - st.needed : FreeOf(RowsOf(st.occupied), st.needed, s)}
    BY <2>1
  <2>3. LET free == {s \in 0 .. Total - st.needed : FreeOf(RowsOf(st.occupied), st.needed, s)}
        IN  IF free = {} THEN st.result = NoGap
            ELSE /\ st.result.start \in free /\ st.result.end = st.result.start + st.needed - 1
                 /\ \A s \in free : st.result.start <= s
    <3>1. st.needed \in Nat \ {0}
      BY <1>0, <1>4
    <3> QED
      BY <1>0, <1>1, <1>2, <1>4, <3>1, AnswerIsFirstFit
  <2> QED
    BY <2>2, <2>3
<1>5. ScanIsFirstFit
  BY <1>4 DEF ScanIsFirstFit, ScanAt
<1> QED
  BY <1>3, <1>5

-----------------------------------------------------------------------------
(* Sums over finite sets.                                                  *)

Any(T) == CHOOSE x \in T : TRUE
SumsOfSubsets(f, g) ==
    g = [T \in SUBSET DOMAIN f |-> IF T = {} THEN 0 ELSE LET x == CHOOSE x \in T : TRUE IN f[x] + g[T \ {x}]]

LEMMA AnyIsIn ==
    ASSUME NEW T, T # {}
    PROVE  Any(T) \in T
BY DEF Any

LEMMA WithoutAny ==
    ASSUME NEW T, IsFiniteSet(T), T # {}
    PROVE  /\ IsFiniteSet(T \ {Any(T)}) /\ Cardinality(T) \in Nat \ {0}
           /\ Cardinality(T \ {Any(T)}) = Cardinality(T) - 1
<1>1. Any(T) \in T
  BY AnyIsIn
<1>2. Cardinality(T) \in Nat /\ Cardinality(T) # 0
  BY FS_CardinalityType, FS_EmptySet
<1> QED
  BY <1>1, <1>2, FS_RemoveElement

LEMMA SetSumExists ==
    ASSUME NEW f, IsFiniteSet(DOMAIN f)
    PROVE  \E g : SumsOfSubsets(f, g)
<1> DEFINE Small(n) == {T \in SUBSET DOMAIN f : Cardinality(T) <= n}
           Step(T, g) == IF T = {} THEN 0 ELSE f[Any(T)] + g[T \ {Any(T)}]
           P(n) == \E g : g = [T \in Small(n) |-> g[T]] /\ \A T \in Small(n) : g[T] = Step(T, g)
           U == {n \in Nat : P(n)}
<1>0. \A T \in SUBSET DOMAIN f : IsFiniteSet(T) /\ Cardinality(T) \in Nat
                                 /\ Cardinality(T) <= Cardinality(DOMAIN f)
  BY FS_Subset, FS_CardinalityType
<1>1. 0 \in U
  <2>1. PICK g : g = [T \in Small(0) |-> 0]
    OBVIOUS
  <2>2. ASSUME NEW T \in Small(0) PROVE g[T] = Step(T, g)
    <3>1. T = {}
      BY <1>0, FS_EmptySet
    <3> QED
      BY <2>1, <3>1
  <2> QED
    BY <2>1, <2>2
<1>2. ASSUME NEW n \in Nat, n \in U PROVE n + 1 \in U
  <2>1. PICK g : g = [T \in Small(n) |-> g[T]] /\ \A T \in Small(n) : g[T] = Step(T, g)
    BY <1>2
  <2>2. PICK h : h = [T \in Small(n + 1) |-> Step(T, g)]
    OBVIOUS
  <2>3. ASSUME NEW T \in Small(n) PROVE T \in Small(n + 1) /\ h[T] = g[T]
    <3>1. T \in Small(n + 1)
      BY <1>0
    <3>2. g[T] = Step(T, g)
      BY <2>1
    <3> HIDE DEF Step, Small
    <3> QED
      BY <2>2, <3>1, <3>2
  <2>4. ASSUME NEW T \in Small(n + 1) PROVE h[T] = Step(T, h)
    <3>1. CASE T = {}
      BY <2>2, <3>1
    <3>2. CASE T # {}
      <4>1. T \ {Any(T)} \in Small(n)
        BY <1>0, <3>2, WithoutAny
      <4>2. h[T \ {Any(T)}] = g[T \ {Any(T)}]
        BY <2>3, <4>1
      <4> QED
        BY <2>2, <3>2, <4>2
    <3> QED
      BY <3>1, <3>2
  <2> HIDE DEF Small, Step
  <2>5. h = [T \in Small(n + 1) |-> h[T]]
    BY <2>2
  <2> QED
    BY <2>4, <2>5
<1>3. Cardinality(DOMAIN f) \in U
  <2>1. Cardinality(DOMAIN f) \in Nat
    BY <1>0
  <2> HIDE DEF U
  <2> QED
    BY <1>1, <1>2, <2>1, Induction
<1>4. Small(Cardinality(DOMAIN f)) = SUBSET DOMAIN f
  BY <1>0
<1>5. PICK g : /\ g = [T \in SUBSET DOMAIN f |-> g[T]]
               /\ \A T \in SUBSET DOMAIN f : g[T] = Step(T, g)
  <2> HIDE DEF Small, Step
  <2> QED
    BY <1>3, <1>4
<1>6. g = [T \in SUBSET DOMAIN f |-> Step(T, g)]
  <2> HIDE DEF Step
  <2> QED
    BY <1>5
<1>7. SumsOfSubsets(f, g)
  BY <1>6 DEF SumsOfSubsets, Any
<1> QED
  BY <1>7

Subtotals(f, g) ==
    /\ SumOver(f) = g[DOMAIN f] /\ g[{}] = 0
    /\ \A T \in SUBSET DOMAIN f : g[T] \in Int
    /\ \A T \in SUBSET DOMAIN f : T # {} => g[T] = f[Any(T)] + g[T \ {Any(T)}]

LEMMA SumOverSubsets ==
    ASSUME NEW f, IsFiniteSet(DOMAIN f), \A x \in DOMAIN f : f[x] \in Int
    PROVE  \E g : Subtotals(f, g)
<1> DEFINE sum == CHOOSE g : SumsOfSubsets(f, g)
<1>1. SumsOfSubsets(f, sum)
  BY SetSumExists
<1>2. SumOver(f) = sum[DOMAIN f]
  BY DEF SumOver, SumsOfSubsets
<1> HIDE DEF sum
<1>3. \A T \in SUBSET DOMAIN f : sum[T] = IF T = {} THEN 0 ELSE f[Any(T)] + sum[T \ {Any(T)}]
  <2>1. sum = [T \in SUBSET DOMAIN f |-> IF T = {} THEN 0 ELSE f[Any(T)] + sum[T \ {Any(T)}]]
    BY <1>1 DEF SumsOfSubsets, Any
  <2> QED
    BY <2>1
<1> DEFINE V == {n \in Nat : \A T \in SUBSET DOMAIN f : Cardinality(T) = n => sum[T] \in Int}
<1>4. \A T \in SUBSET DOMAIN f : IsFiniteSet(T) /\ Cardinality(T) \in Nat
  BY FS_Subset, FS_CardinalityType
<1>5. 0 \in V
  <2> SUFFICES ASSUME NEW T \in SUBSET DOMAIN f, Cardinality(T) = 0 PROVE sum[T] \in Int
    OBVIOUS
  <2>1. T = {}
    BY <1>4, FS_EmptySet
  <2>2. sum[T] = 0
    BY <1>3, <2>1
  <2> QED
    BY <2>2
<1>6. ASSUME NEW n \in Nat, n \in V PROVE n + 1 \in V
  <2> SUFFICES ASSUME NEW T \in SUBSET DOMAIN f, Cardinality(T) = n + 1 PROVE sum[T] \in Int
    OBVIOUS
  <2>1. T # {}
    BY FS_EmptySet
  <2>2. Any(T) \in DOMAIN f /\ Cardinality(T \ {Any(T)}) = n
    BY <1>4, <2>1, AnyIsIn, WithoutAny
  <2>3. sum[T \ {Any(T)}] \in Int /\ f[Any(T)] \in Int
    BY <1>6, <2>2
  <2> QED
    BY <1>3, <2>1, <2>3
<1>7. \A T \in SUBSET DOMAIN f : sum[T] \in Int
  <2>1. \A n \in Nat : n \in V
    <3> HIDE DEF V
    <3> QED BY <1>5, <1>6, Induction
  <2> QED
    BY <1>4, <2>1
<1>8. Subtotals(f, sum)
  BY <1>2, <1>3, <1>7 DEF Subtotals
<1> QED
  BY <1>8

LEMMA SumOverIsInt ==
    ASSUME NEW f, IsFiniteSet(DOMAIN f), \A x \in DOMAIN f : f[x] \in Int
    PROVE  SumOver(f) \in Int
<1>1. PICK g : Subtotals(f, g)
  BY SumOverSubsets
<1> QED
  BY <1>1 DEF Subtotals

LEMMA Distributes ==
    ASSUME NEW a \in Int, NEW b \in Int, NEW c \in Int
    PROVE  a * (b + c) = a * b + a * c
OBVIOUS

\* A linear bound on the terms is one on the sums.
LEMMA SumBound ==
    ASSUME NEW D, IsFiniteSet(D), NEW f \in [D -> Int], NEW h \in [D -> Int],
           NEW a \in Int, NEW b \in Int, NEW d \in Int, \A x \in D : f[x] + d <= a + b * h[x]
    PROVE  SumOver(f) + d * Cardinality(D) <= a * Cardinality(D) + b * SumOver(h)
<1>0. DOMAIN f = D /\ DOMAIN h = D
  OBVIOUS
<1>1. PICK F : Subtotals(f, F)
  BY <1>0, SumOverSubsets
<1>2. PICK H : Subtotals(h, H)
  BY <1>0, SumOverSubsets
<1> DEFINE V == {n \in Nat : \A T \in SUBSET D : Cardinality(T) = n => F[T] + d * n <= a * n + b * H[T]}
<1>3. \A T \in SUBSET D : IsFiniteSet(T) /\ Cardinality(T) \in Nat
  BY FS_Subset, FS_CardinalityType
<1>4. 0 \in V
  <2> SUFFICES ASSUME NEW T \in SUBSET D, Cardinality(T) = 0 PROVE F[T] + d * 0 <= a * 0 + b * H[T]
    OBVIOUS
  <2>1. T = {}
    BY <1>3, FS_EmptySet
  <2>2. F[T] = 0 /\ H[T] = 0
    BY <1>1, <1>2, <2>1 DEF Subtotals
  <2> QED
    BY <2>2
<1>5. ASSUME NEW n \in Nat, n \in V PROVE n + 1 \in V
  <2> SUFFICES ASSUME NEW T \in SUBSET D, Cardinality(T) = n + 1
               PROVE  F[T] + d * (n + 1) <= a * (n + 1) + b * H[T]
    OBVIOUS
  <2>1. T # {}
    <3> SUFFICES ASSUME T = {} PROVE FALSE
      OBVIOUS
    <3>1. Cardinality(T) = 0
      BY FS_EmptySet
    <3> QED
      BY <3>1
  <2> DEFINE x == Any(T)
             R == T \ {Any(T)}
  <2>2. x \in D /\ Cardinality(R) = n /\ R \in SUBSET D
    BY <1>3, <2>1, AnyIsIn, WithoutAny
  <2>3. F[T] = f[x] + F[R] /\ H[T] = h[x] + H[R] /\ F[R] \in Int /\ H[R] \in Int
    BY <1>0, <1>1, <1>2, <2>1, <2>2 DEF Subtotals
  <2>4. F[R] + d * n <= a * n + b * H[R]
    BY <1>5, <2>2
  <2> HIDE DEF x, R
  <2>5. f[x] \in Int /\ h[x] \in Int /\ f[x] + d <= a + b * h[x]
    BY <2>2
  <2>6. d * (n + 1) = d * n + d /\ a * (n + 1) = a * n + a /\ b * H[T] = b * h[x] + b * H[R]
    BY <2>3, <2>5, Distributes
  <2>7. d * n \in Int /\ a * n \in Int /\ b * h[x] \in Int /\ b * H[R] \in Int
    BY <2>3, <2>5
  <2> QED
    BY <2>3, <2>4, <2>5, <2>6, <2>7
<1>6. Cardinality(D) \in V
  <2>1. Cardinality(D) \in Nat
    BY <1>3
  <2> HIDE DEF V
  <2> QED
    BY <1>4, <1>5, <2>1, Induction
<1> QED
  BY <1>0, <1>1, <1>2, <1>6 DEF Subtotals

LEMMA SumsMeet ==
    ASSUME NEW i \in Int, NEW j \in Int, NEW k \in Int, NEW l \in Int, i >= k, j >= l, i + j = k + l
    PROVE  i = k /\ j = l
OBVIOUS

\* A lower bound on the terms is one on the sums, which meet it only if every
\* term does.
LEMMA SumSqueeze ==
    ASSUME NEW D, IsFiniteSet(D), NEW f \in [D -> Int], NEW h \in [D -> Int], NEW b \in Int,
           \A x \in D : f[x] >= b * h[x]
    PROVE  /\ SumOver(f) >= b * SumOver(h)
           /\ SumOver(f) = b * SumOver(h) => \A x \in D : f[x] = b * h[x]
<1>0. DOMAIN f = D /\ DOMAIN h = D
  OBVIOUS
<1>1. PICK F : Subtotals(f, F)
  BY <1>0, SumOverSubsets
<1>2. PICK H : Subtotals(h, H)
  BY <1>0, SumOverSubsets
<1> DEFINE Squeezed(T) == F[T] >= b * H[T] /\ (F[T] = b * H[T] => \A x \in T : f[x] = b * h[x])
           V == {n \in Nat : \A T \in SUBSET D : Cardinality(T) = n => Squeezed(T)}
<1>3. \A T \in SUBSET D : IsFiniteSet(T) /\ Cardinality(T) \in Nat
  BY FS_Subset, FS_CardinalityType
<1>4. 0 \in V
  <2> SUFFICES ASSUME NEW T \in SUBSET D, Cardinality(T) = 0 PROVE Squeezed(T)
    OBVIOUS
  <2>1. T = {}
    BY <1>3, FS_EmptySet
  <2>2. F[T] = 0 /\ H[T] = 0
    BY <1>1, <1>2, <2>1 DEF Subtotals
  <2> QED
    BY <2>1, <2>2
<1>5. ASSUME NEW n \in Nat, n \in V PROVE n + 1 \in V
  <2> SUFFICES ASSUME NEW T \in SUBSET D, Cardinality(T) = n + 1 PROVE Squeezed(T)
    OBVIOUS
  <2>1. T # {}
    <3> SUFFICES ASSUME T = {} PROVE FALSE
      OBVIOUS
    <3>1. Cardinality(T) = 0
      BY FS_EmptySet
    <3> QED
      BY <3>1
  <2> DEFINE x == Any(T)
             R == T \ {Any(T)}
  <2>2. x \in D /\ Cardinality(R) = n /\ R \in SUBSET D
    BY <1>3, <2>1, AnyIsIn, WithoutAny
  <2>9. \A y \in T : y \in R \/ y = x
    OBVIOUS
  <2>3. F[T] = f[x] + F[R] /\ H[T] = h[x] + H[R] /\ F[R] \in Int /\ H[R] \in Int
    BY <1>0, <1>1, <1>2, <2>1, <2>2 DEF Subtotals
  <2>4. Squeezed(R)
    BY <1>5, <2>2
  <2> HIDE DEF x, R
  <2>5. f[x] \in Int /\ h[x] \in Int /\ f[x] >= b * h[x]
    BY <2>2
  <2>6. b * H[T] = b * h[x] + b * H[R] /\ b * h[x] \in Int /\ b * H[R] \in Int
    BY <2>3, <2>5, Distributes
  <2>7. F[T] >= b * H[T]
    BY <2>3, <2>4, <2>5, <2>6
  <2>8. ASSUME F[T] = b * H[T], NEW y \in T PROVE f[y] = b * h[y]
    <3>0. f[x] + F[R] = b * h[x] + b * H[R]
      BY <2>3, <2>6, <2>8
    <3>1. f[x] = b * h[x] /\ F[R] = b * H[R]
      BY <2>3, <2>4, <2>5, <2>6, <3>0, SumsMeet, Zenon
    <3>2. CASE y \in R
      BY <2>4, <3>1, <3>2
    <3>3. CASE y = x
      BY <3>1, <3>3
    <3> QED
      BY <2>8, <2>9, <3>2, <3>3
  <2> QED
    BY <2>7, <2>8
<1>6. Cardinality(D) \in V
  <2>1. Cardinality(D) \in Nat
    BY <1>3
  <2> HIDE DEF V
  <2> QED
    BY <1>4, <1>5, <2>1, Induction
<1>7. Squeezed(D)
  BY <1>3, <1>6
<1> QED
  BY <1>0, <1>1, <1>2, <1>7 DEF Subtotals

LEMMA SumOfOnes ==
    ASSUME NEW D, IsFiniteSet(D)
    PROVE  SumOver([x \in D |-> 1]) = Cardinality(D)
<1> DEFINE ones == [x \in D |-> 1]
<1>1. ones \in [D -> Int] /\ DOMAIN ones = D /\ \A x \in D : ones[x] = 1
  OBVIOUS
<1>2. Cardinality(D) \in Nat
  BY FS_CardinalityType
<1> HIDE DEF ones
<1>3. SumOver(ones) \in Int
  BY <1>1, SumOverIsInt
<1>4. SumOver(ones) + 0 * Cardinality(D) <= 1 * Cardinality(D) + 0 * SumOver(ones)
  <2>1. 0 \in Int /\ 1 \in Int /\ \A x \in D : ones[x] + 0 <= 1 + 0 * ones[x]
    BY <1>1
  <2> QED
    BY <1>1, <2>1, SumBound, Zenon
<1>5. SumOver(ones) + 1 * Cardinality(D) <= 0 * Cardinality(D) + 2 * SumOver(ones)
  <2>1. 0 \in Int /\ 1 \in Int /\ 2 \in Int /\ \A x \in D : ones[x] + 1 <= 0 + 2 * ones[x]
    BY <1>1
  <2> QED
    BY <1>1, <2>1, SumBound, Zenon
<1>6. SumOver(ones) = Cardinality(D)
  BY <1>2, <1>3, <1>4, <1>5
<1> QED
  BY <1>6 DEF ones

LEMMA Cancels ==
    ASSUME NEW n \in Nat \ {0}, NEW p \in Int, NEW q \in Int, n * p = n * q
    PROVE  p = q
OBVIOUS

\* The levels, each the larger of an equal share and its priority's, against
\* what both kinds of shares add up to.
LEMMA LargerShares ==
    ASSUME NEW D, IsFiniteSet(D), NEW p \in [D -> Int], NEW s \in [D -> Int],
           NEW n \in Nat \ {0}, n = Cardinality(D),
           NEW total \in Nat \ {0}, total = SumOver(p),
           \A x \in D : /\ s[x] >= total /\ s[x] >= n * p[x]
                        /\ s[x] = total \/ s[x] = n * p[x]
                        /\ s[x] + 1 <= total + n * p[x]
    PROVE  /\ SumOver(s) >= n * total /\ SumOver(s) < 2 * (n * total)
           /\ SumOver(s) = n * total <=> \A x, y \in D : p[x] = p[y]
<1> DEFINE ones == [x \in D |-> 1]
<1>1. ones \in [D -> Int] /\ \A x \in D : ones[x] = 1
  OBVIOUS
<1>2. SumOver(ones) = n
  BY SumOfOnes
<1> HIDE DEF ones
<1>3. SumOver(s) \in Int
  BY SumOverIsInt
<1>4. n * total \in Int /\ total * n = n * total /\ 2 * (n * total) = total * n + n * total
  OBVIOUS
<1>5. SumOver(s) >= n * total /\ (SumOver(s) = n * total => \A x \in D : s[x] = n * p[x])
  <2>1. n \in Int /\ \A x \in D : s[x] >= n * p[x]
    OBVIOUS
  <2>2. SumOver(s) >= n * SumOver(p) /\ (SumOver(s) = n * SumOver(p) => \A x \in D : s[x] = n * p[x])
    BY <2>1, SumSqueeze, Zenon
  <2> QED
    BY <2>2
<1>6. SumOver(s) < 2 * (n * total)
  <2>1. total \in Int /\ n \in Int /\ 1 \in Int /\ \A x \in D : s[x] + 1 <= total + n * p[x]
    OBVIOUS
  <2>2. SumOver(s) + 1 * Cardinality(D) <= total * Cardinality(D) + n * SumOver(p)
    BY <2>1, SumBound, Zenon
  <2>3. SumOver(s) + n <= total * n + n * total
    BY <2>2
  <2> QED
    BY <1>3, <1>4, <2>3
<1>7. ASSUME SumOver(s) = n * total, NEW x \in D, NEW y \in D PROVE p[x] = p[y]
  <2>1. total \in Int /\ \A z \in D : s[z] >= total * ones[z]
    BY <1>1
  <2>2. SumOver(s) >= total * SumOver(ones)
        /\ (SumOver(s) = total * SumOver(ones) => \A z \in D : s[z] = total * ones[z])
    BY <1>1, <2>1, SumSqueeze, Zenon
  <2>3. \A z \in D : s[z] = total * ones[z]
    BY <1>2, <1>4, <1>7, <2>2
  <2>4. s[x] = total /\ s[y] = total
    BY <1>1, <2>3
  <2>5. n * p[x] = n * p[y] /\ p[x] \in Int /\ p[y] \in Int
    BY <1>5, <1>7, <2>4
  <2> QED
    BY <2>5, Cancels
<1>8. ASSUME \A x, y \in D : p[x] = p[y] PROVE SumOver(s) = n * total
  <2>1. PICK x \in D : TRUE
    <3>1. D # {}
      BY FS_EmptySet
    <3> QED
      BY <3>1
  <2> DEFINE q == p[x]
  <2>2. q \in Int /\ \A y \in D : p[y] = q
    BY <1>8, <2>1
  <2> HIDE DEF q
  <2>3. SumOver(p) >= q * SumOver(ones)
    <3>1. \A y \in D : p[y] >= q * ones[y]
      BY <1>1, <2>2
    <3> QED
      BY <1>1, <2>2, <3>1, SumSqueeze, Zenon
  <2>4. q * n <= total
    BY <1>2, <2>3
  <2>5. \A y \in D : s[y] <= total
    BY <2>2, <2>4
  <2>6. SumOver(s) + 0 * Cardinality(D) <= total * Cardinality(D) + 0 * SumOver(ones)
    <3>1. 0 \in Int /\ total \in Int /\ \A y \in D : s[y] + 0 <= total + 0 * ones[y]
      BY <1>1, <2>5
    <3> QED
      BY <1>1, <3>1, SumBound, Zenon
  <2> QED
    BY <1>2, <1>3, <1>4, <1>5, <2>6
<1> QED
  BY <1>5, <1>6, <1>7, <1>8

-----------------------------------------------------------------------------
(* Shares of a layer, levels of a family, and decisions.                   *)

PortfolioInv ==
    /\ st = [algo |-> "portfolio", all |-> st.all, overrides |-> st.overrides, layer |-> st.layer,
             considered |-> st.considered, answer |-> st.answer]
    /\ IsFiniteSet(st.considered)
    /\ \A e \in DOMAIN st.overrides : st.overrides[e] \in Int
    /\ st.answer # NoAllocation => st.answer.share = [e \in st.considered |-> recommend_layer(e)]

LEMMA PrioritiesAreSmall ==
    ASSUME PortfolioInv, NEW e
    PROVE  PriorityOf(st.overrides, e) \in 1 .. 5
<1>1. CASE e \in DOMAIN st.overrides
  <2>1. st.overrides[e] \in Int
    BY <1>1 DEF PortfolioInv
  <2> QED
    BY <1>1, <2>1 DEF PriorityOf, clamp_priority, Clamp, AtLeast, AtMost, MinPriority, MaxPriority
<1>2. CASE e \notin DOMAIN st.overrides
  BY <1>2 DEF PriorityOf, DefaultPriority
<1> QED
  BY <1>1, <1>2

\* Every experiment counts at least one.
LEMMA TotalsArePositive ==
    ASSUME PortfolioInv, NEW S, IsFiniteSet(S), S # {}
    PROVE  /\ PriorityTotal(S) \in Nat \ {0} /\ Cardinality(S) \in Nat \ {0}
           /\ Cardinality(S) <= PriorityTotal(S)
<1> DEFINE p == [f \in S |-> PriorityOf(st.overrides, f)]
<1>1. p \in [S -> Int] /\ \A x \in S : p[x] >= 1 /\ p[x] \in Int
  BY PrioritiesAreSmall
<1>2. Cardinality(S) \in Nat \ {0}
  BY FS_CardinalityType, FS_EmptySet
<1>3. SumOver(p) = PriorityTotal(S)
  BY DEF PriorityTotal
<1> HIDE DEF p
<1>4. DOMAIN p = S
  BY <1>1
<1>5. SumOver(p) \in Int
  BY <1>1, <1>4, SumOverIsInt
<1>6. \A x \in S : p[x] + 1 <= 0 + 2 * p[x]
  BY <1>1
<1>7. SumOver(p) + 1 * Cardinality(S) <= 0 * Cardinality(S) + 2 * SumOver(p)
  BY <1>1, <1>6, SumBound
<1> QED
  BY <1>2, <1>3, <1>5, <1>7

LEMMA LayerIsFair ==
    ASSUME PortfolioInv
    PROVE  LayerIsNotOversubscribed
<1> SUFFICES ASSUME st.answer # NoAllocation, NEW e \in st.considered
             PROVE  LET layer == LayerOf(e)
                        share == st.answer.share
                        total == PriorityTotal(layer)
                        parts == [f \in layer |-> IF share[f] = <<1, 2>> THEN total ELSE 2 * share[f][1]]
                    IN  /\ SumOver(parts) <= 2 * total
                        /\ \A f \in layer :
                              PriorityOf(st.overrides, e) < PriorityOf(st.overrides, f) =>
                                  ~RatioLess(share[f], share[e])
  BY DEF LayerIsNotOversubscribed
<1> DEFINE layer == LayerOf(e)
           share == st.answer.share
           total == PriorityTotal(layer)
           Prio(f) == PriorityOf(st.overrides, f)
           parts == [f \in layer |-> IF share[f] = <<1, 2>> THEN total ELSE 2 * share[f][1]]
           prios == [f \in layer |-> Prio(f)]
<1>1. layer \in SUBSET st.considered /\ e \in layer /\ IsFiniteSet(layer)
  <2>1. layer \in SUBSET st.considered /\ e \in layer
    BY DEF LayerOf
  <2> QED
    BY <2>1, FS_Subset DEF PortfolioInv
<1>2. total \in Nat \ {0}
  BY <1>1, TotalsArePositive
<1>3. \A f : Prio(f) \in 1 .. 5
  BY PrioritiesAreSmall
<1>4. SumOver(prios) = total
  BY DEF PriorityTotal
<1>5. ASSUME NEW f \in layer PROVE share[f] = IF 2 * Prio(f) > total THEN <<1, 2>> ELSE <<Prio(f), total>>
  <2>1. LayerOf(f) = layer
    BY DEF LayerOf
  <2>2. share[f] = recommend_layer(f)
    BY <1>1 DEF PortfolioInv
  <2>3. recommend_layer(f) = Capped(<<Prio(f), total>>)
    BY <2>1 DEF recommend_layer, UncappedShare
  <2> QED
    BY <2>2, <2>3 DEF Capped
<1> HIDE DEF layer, share, total, Prio
<1>6. ASSUME NEW f \in layer PROVE parts[f] \in Int /\ parts[f] + 0 <= 0 + 2 * prios[f] /\ prios[f] \in Int
  <2>0. prios[f] = Prio(f) /\ Prio(f) \in 1 .. 5
    BY <1>3
  <2>1. CASE 2 * Prio(f) > total
    <3>1. parts[f] = total
      BY <1>5, <2>1
    <3> QED
      BY <1>2, <2>0, <2>1, <3>1
  <2>2. CASE ~(2 * Prio(f) > total)
    <3>1. share[f] = <<Prio(f), total>>
      BY <1>5, <2>2
    <3>2. CASE share[f] = <<1, 2>>
      <4>1. Prio(f) = 1 /\ total = 2 /\ parts[f] = total
        BY <3>1, <3>2
      <4> QED
        BY <2>0, <4>1
    <3>3. CASE share[f] # <<1, 2>>
      <4>1. parts[f] = 2 * Prio(f)
        BY <3>1, <3>3
      <4> QED
        BY <2>0, <4>1
    <3> QED
      BY <3>2, <3>3
  <2> QED
    BY <2>1, <2>2
<1>7. SumOver(parts) <= 2 * total
  <2>1. parts \in [layer -> Int] /\ prios \in [layer -> Int]
    BY <1>6
  <2>2. \A f \in layer : parts[f] + 0 <= 0 + 2 * prios[f]
    BY <1>6
  <2>3. DOMAIN parts = layer /\ \A f \in layer : parts[f] \in Int
    BY <1>6
  <2> HIDE DEF parts, prios
  <2>4. SumOver(parts) + 0 * Cardinality(layer) <= 0 * Cardinality(layer) + 2 * SumOver(prios)
    <3>1. 0 \in Int /\ 2 \in Int
      OBVIOUS
    <3> QED
      BY <1>1, <2>1, <2>2, <3>1, SumBound, Zenon
  <2>5. Cardinality(layer) \in Nat /\ SumOver(parts) \in Int
    BY <1>1, <2>3, SumOverIsInt, FS_CardinalityType
  <2> QED
    BY <1>2, <1>4, <2>4, <2>5
<1>8. ASSUME NEW f \in layer, Prio(e) < Prio(f) PROVE ~RatioLess(share[f], share[e])
  <2>1. Prio(e) \in 1 .. 5 /\ Prio(f) \in 1 .. 5
    BY <1>3
  <2>2. CASE 2 * Prio(f) > total
    <3>1. share[f] = <<1, 2>>
      BY <1>5, <2>2
    <3>2. CASE 2 * Prio(e) > total
      <4>1. share[e] = <<1, 2>>
        BY <1>1, <1>5, <3>2
      <4> QED
        BY <3>1, <4>1 DEF RatioLess
    <3>3. CASE ~(2 * Prio(e) > total)
      <4>1. share[e] = <<Prio(e), total>>
        BY <1>1, <1>5, <3>3
      <4>2. ~(1 * total < Prio(e) * 2)
        BY <1>2, <2>1, <3>3
      <4> QED
        BY <3>1, <4>1, <4>2 DEF RatioLess
    <3> QED
      BY <3>2, <3>3
  <2>3. CASE ~(2 * Prio(f) > total)
    <3>1. ~(2 * Prio(e) > total)
      BY <1>2, <1>8, <2>1, <2>3
    <3>2. share[f] = <<Prio(f), total>> /\ share[e] = <<Prio(e), total>>
      BY <1>1, <1>5, <2>3, <3>1
    <3>3. ~(Prio(f) * total < Prio(e) * total)
      BY <1>2, <1>8, <2>1
    <3> QED
      BY <3>2, <3>3 DEF RatioLess
  <2> QED
    BY <2>2, <2>3
<1> QED
  BY <1>7, <1>8 DEF layer, share, total, Prio

LEMMA ExactQuotient ==
    ASSUME NEW k \in Nat, NEW n \in Nat \ {0}
    PROVE  (k * n) \div n = k
OBVIOUS

LEMMA FamilyIsShared ==
    ASSUME PortfolioInv
    PROVE  AlphaIsOverspent
<1> SUFFICES ASSUME st.considered # {}
             PROVE  /\ \A e \in st.considered : Cardinality(st.considered) * AlphaLevels[e] >= FamilyAlpha
                    /\ SumOver(AlphaLevels) >= FamilyAlpha /\ SumOver(AlphaLevels) < 2 * FamilyAlpha
                    /\ SumOver(AlphaLevels) = FamilyAlpha <=>
                         \A e, f \in st.considered : PriorityOf(st.overrides, e) = PriorityOf(st.overrides, f)
  BY DEF AlphaIsOverspent
<1> DEFINE all == st.considered
           n == Cardinality(all)
           total == PriorityTotal(all)
           Prio(f) == PriorityOf(st.overrides, f)
           prios == [f \in all |-> Prio(f)]
<1>1. IsFiniteSet(all)
  BY DEF PortfolioInv
<1>2. total \in Nat \ {0} /\ n \in Nat \ {0}
  BY <1>1, TotalsArePositive
<1>3. \A f : Prio(f) \in 1 .. 5
  BY PrioritiesAreSmall
<1>4. SumOver(prios) = total
  BY DEF PriorityTotal
<1>5. \A e : recommend_alpha(e) = IF Prio(e) * n < 1 * total THEN <<1, n>> ELSE <<Prio(e), total>>
  BY DEF recommend_alpha, PortfolioShare, RatioLess
<1>6. ASSUME NEW e \in all PROVE AlphaLevels[e] = IF Prio(e) * n < total THEN total ELSE Prio(e) * n
  <2>1. AlphaLevels[e] = (recommend_alpha(e)[1] * (n * total)) \div recommend_alpha(e)[2]
    BY DEF AlphaLevels, FamilyAlpha
  <2>2. CASE Prio(e) * n < 1 * total
    <3>1. recommend_alpha(e)[1] = 1 /\ recommend_alpha(e)[2] = n
      BY <1>5, <2>2
    <3> HIDE DEF n, total, Prio
    <3>2. AlphaLevels[e] = (1 * (n * total)) \div n
      BY <2>1, <3>1
    <3>3. 1 * (n * total) = total * n
      BY <1>2
    <3>4. (total * n) \div n = total
      BY <1>2, ExactQuotient
    <3> QED
      BY <1>2, <2>2, <3>2, <3>3, <3>4
  <2>3. CASE ~(Prio(e) * n < 1 * total)
    <3>1. recommend_alpha(e)[1] = Prio(e) /\ recommend_alpha(e)[2] = total
      BY <1>5, <2>3
    <3> HIDE DEF n, total, Prio
    <3>2. AlphaLevels[e] = (Prio(e) * (n * total)) \div total
      BY <2>1, <3>1
    <3>3. Prio(e) * n \in Nat
      BY <1>2, <1>3
    <3>4. ((Prio(e) * n) * total) \div total = Prio(e) * n
      BY <1>2, <3>3, ExactQuotient
    <3>5. Prio(e) * (n * total) = (Prio(e) * n) * total
      BY <1>2, <1>3
    <3> QED
      BY <1>2, <2>3, <3>2, <3>4, <3>5
  <2> QED
    BY <2>2, <2>3
<1>7. AlphaLevels = [e \in all |-> AlphaLevels[e]] /\ FamilyAlpha = n * total
  BY DEF AlphaLevels, FamilyAlpha
<1> HIDE DEF n, total, Prio, all
<1>8. ASSUME NEW e \in all
      PROVE  /\ AlphaLevels[e] \in Int /\ prios[e] \in Int /\ prios[e] = Prio(e)
             /\ AlphaLevels[e] >= total /\ AlphaLevels[e] >= n * prios[e]
             /\ AlphaLevels[e] = total \/ AlphaLevels[e] = n * prios[e]
             /\ AlphaLevels[e] + 1 <= total + n * prios[e]
  <2>1. prios[e] = Prio(e) /\ Prio(e) \in 1 .. 5
    BY <1>3
  <2> HIDE DEF prios
  <2>2. n * Prio(e) \in Nat /\ n * Prio(e) >= 1 /\ n * Prio(e) = Prio(e) * n
    BY <1>2, <2>1
  <2>3. AlphaLevels[e] = IF Prio(e) * n < total THEN total ELSE Prio(e) * n
    BY <1>6
  <2> QED
    BY <1>2, <2>1, <2>2, <2>3
<1>9. AlphaLevels \in [all -> Int] /\ prios \in [all -> Int]
  <2>1. \A e \in all : AlphaLevels[e] \in Int /\ prios[e] \in Int
    BY <1>8
  <2>2. [e \in all |-> AlphaLevels[e]] \in [all -> Int] /\ [e \in all |-> prios[e]] \in [all -> Int]
    BY <2>1
  <2> QED
    BY <1>7, <2>2
<1>10. /\ SumOver(AlphaLevels) >= n * total /\ SumOver(AlphaLevels) < 2 * (n * total)
       /\ SumOver(AlphaLevels) = n * total <=> \A x, y \in all : prios[x] = prios[y]
  <2> HIDE DEF prios
  <2>1. \A e \in all : /\ AlphaLevels[e] >= total /\ AlphaLevels[e] >= n * prios[e]
                       /\ AlphaLevels[e] = total \/ AlphaLevels[e] = n * prios[e]
                       /\ AlphaLevels[e] + 1 <= total + n * prios[e]
    BY <1>8
  <2>2. n = Cardinality(all) /\ total = SumOver(prios)
    BY <1>4 DEF n
  <2> QED
    BY <1>1, <1>2, <1>9, <2>1, <2>2, LargerShares
<1>11. ASSUME NEW e \in all PROVE n * AlphaLevels[e] >= FamilyAlpha
  BY <1>2, <1>7, <1>8
<1>12. SumOver(AlphaLevels) = FamilyAlpha <=> \A e, f \in all : Prio(e) = Prio(f)
  BY <1>7, <1>8, <1>10
<1> QED
  BY <1>7, <1>10, <1>11, <1>12 DEF n, all, Prio

LEMMA DecisionsAgree ==
    ASSUME NEW o \in Outcomes, NEW i \in Intervals, st = [algo |-> "decision", outcome |-> o, interval |-> i]
    PROVE  DecisionAgrees
<1>1. o \in [p : Int, alpha : Int, effect : Int, elapsed : Int, power : Int, breached : BOOLEAN]
      /\ i \in [lower : Int, upper : Int, delta : Int] /\ i.lower <= i.upper
  BY PortfolioAssumption
<1>2. st.outcome = o /\ st.interval = i
  OBVIOUS
<1>3. o.p \in Int /\ o.alpha \in Int /\ o.effect \in Int
  BY <1>1
<1>4. WithoutVerdict(o) \in {"Stop", "Extend", "Continue"}
  BY DEF WithoutVerdict
<1>5. ASSUME evaluate_decision(o) = "Ship" PROVE classify_learning(o) = "Winner" /\ ~o.breached
  <2>1. ~o.breached /\ o.p < o.alpha /\ o.effect > 0
    BY <1>4, <1>5 DEF evaluate_decision
  <2>2. classify_learning(o) = "Winner"
    BY <1>3, <2>1 DEF classify_learning
  <2> QED
    BY <2>1, <2>2, Zenon
<1>6. ASSUME classify_learning(o) = "Loser" PROVE evaluate_decision(o) = "Stop"
  <2>1. o.p < o.alpha /\ ~(o.effect > 0)
    BY <1>3, <1>6 DEF classify_learning
  <2> QED
    BY <2>1 DEF evaluate_decision
<1>7. ASSUME evaluate_equivalence_decision(o, i) = "SafeToMigrate"
      PROVE  ~o.breached /\ i.lower <= i.delta /\ i.upper >= -i.delta
  <2>1. ~o.breached /\ Equivalent(i)
    BY <1>4, <1>7 DEF evaluate_equivalence_decision
  <2>2. i.lower \in Int /\ i.upper \in Int /\ i.delta \in Int
    BY <1>1
  <2> QED
    BY <1>1, <2>1, <2>2 DEF Equivalent
<1> QED
  BY <1>2, <1>5, <1>6, <1>7 DEF DecisionAgrees

LEMMA PortfolioStep ==
    ASSUME PortfolioInv, PortfolioNext
    PROVE  PortfolioInv'
<1>0. PICK a : /\ st' = [st EXCEPT !.answer = a]
               /\ a = [share |-> [e \in st.considered |-> recommend_layer(e)],
                       underpowered |-> {e \in st.considered : Underpowered(e)}, conflicts |-> detect_conflicts]
  BY Zenon DEF PortfolioNext, get_portfolio_allocation
<1>1. st' = [st EXCEPT !.answer = a] /\ a.share = [e \in st.considered |-> recommend_layer(e)]
  BY <1>0
<1>2. st = [algo |-> "portfolio", all |-> st.all, overrides |-> st.overrides, layer |-> st.layer,
            considered |-> st.considered, answer |-> st.answer]
  BY DEF PortfolioInv
<1>3. /\ st'.all = st.all /\ st'.overrides = st.overrides /\ st'.layer = st.layer
      /\ st'.considered = st.considered /\ st'.answer = a
      /\ st' = [algo |-> "portfolio", all |-> st.all, overrides |-> st.overrides, layer |-> st.layer,
                considered |-> st.considered, answer |-> a]
  BY <1>1, <1>2
<1>4. \A e : recommend_layer(e)' = recommend_layer(e)
  BY <1>3 DEF recommend_layer, UncappedShare, PriorityTotal, LayerOf
<1>5. st'.answer.share = [e \in st'.considered |-> recommend_layer(e)']
  BY <1>1, <1>3, <1>4
<1> QED
  BY <1>3, <1>5 DEF PortfolioInv

LEMMA PortfolioStarts ==
    ASSUME NEW p \in Portfolios, NEW o \in Overrides, NEW l,
           st = [algo |-> "portfolio", all |-> p, overrides |-> o, layer |-> l,
                 considered |-> Considered(p, l), answer |-> NoAllocation]
    PROVE  PortfolioInv
<1>1. IsFiniteSet(DOMAIN p) /\ \A e \in DOMAIN o : o[e] \in Int
  BY PortfolioAssumption
<1>2. Considered(p, l) \in SUBSET DOMAIN p
  BY DEF Considered
<1>3. IsFiniteSet(Considered(p, l))
  BY <1>1, <1>2, FS_Subset
<1> QED
  BY <1>1, <1>3 DEF PortfolioInv

-----------------------------------------------------------------------------
(* The three together.                                                     *)

Decided == \E o \in Outcomes, i \in Intervals : st = [algo |-> "decision", outcome |-> o, interval |-> i]
LayersInv == ScanInv \/ ReuseInv \/ PortfolioInv \/ Decided

LEMMA LayersAlgo ==
    /\ ScanInv => st.algo = "scan"
    /\ ReuseInv => st.algo = "reuse"
    /\ PortfolioInv => st.algo = "portfolio"
    /\ Decided => st.algo = "decision"
<1>1. ScanInv => st.algo = "scan"
  BY ScanTyped
<1>2. ReuseInv => st.algo = "reuse"
  BY ReuseTyped DEF ReuseStates
<1>3. PortfolioInv => st.algo = "portfolio"
  <2> SUFFICES ASSUME PortfolioInv PROVE st.algo = "portfolio"
    OBVIOUS
  <2>1. st = [algo |-> "portfolio", all |-> st.all, overrides |-> st.overrides, layer |-> st.layer,
              considered |-> st.considered, answer |-> st.answer]
    BY DEF PortfolioInv
  <2> QED
    BY <2>1
<1>4. Decided => st.algo = "decision"
  <2> SUFFICES ASSUME Decided PROVE st.algo = "decision"
    OBVIOUS
  <2>1. PICK o \in Outcomes, i \in Intervals : st = [algo |-> "decision", outcome |-> o, interval |-> i]
    BY DEF Decided
  <2> QED
    BY <2>1
<1> QED
  BY <1>1, <1>2, <1>3, <1>4

LEMMA LayersStart == ScanInit \/ ReuseInit \/ PortfolioInit => LayersInv
<1> SUFFICES ASSUME PortfolioInit PROVE LayersInv
  BY ScanStarts, ReuseStarts DEF LayersInv
<1>1. CASE \E p \in Portfolios, o \in Overrides : \E l \in {""} \cup {p[e].layer : e \in DOMAIN p} :
              st = [algo |-> "portfolio", all |-> p, overrides |-> o, layer |-> l,
                    considered |-> Considered(p, l), answer |-> NoAllocation]
  BY <1>1, PortfolioStarts DEF LayersInv
<1>2. CASE \E o \in Outcomes, i \in Intervals : st = [algo |-> "decision", outcome |-> o, interval |-> i]
  BY <1>2 DEF LayersInv, Decided
<1> QED
  BY <1>1, <1>2 DEF PortfolioInit

LEMMA LayersStep ==
    ASSUME LayersInv, ScanNext \/ ReuseNext \/ PortfolioNext
    PROVE  LayersInv'
<1>1. ASSUME ScanNext PROVE LayersInv'
  <2>1. st.algo = "scan"
    BY <1>1 DEF ScanNext, CheckArguments, SortRanges, DetectOverlap, GapBeforeFirst, GapBetween,
                GapAfterLast, ScanAt, Running
  <2>2. ScanInv
    BY <2>1, LayersAlgo DEF LayersInv
  <2> QED
    BY <1>1, <2>2, ScanStep DEF LayersInv
<1>2. ASSUME ReuseNext PROVE LayersInv'
  <2>1. st.algo = "reuse"
    BY <1>2 DEF ReuseNext, Running
  <2>2. ReuseInv
    BY <2>1, LayersAlgo DEF LayersInv
  <2> QED
    BY <1>2, <2>2, ReuseStep DEF LayersInv
<1>3. ASSUME PortfolioNext PROVE LayersInv'
  <2>1. st.algo = "portfolio"
    BY <1>3 DEF PortfolioNext, Running
  <2>2. PortfolioInv
    BY <2>1, LayersAlgo DEF LayersInv
  <2> QED
    BY <1>3, <2>2, PortfolioStep DEF LayersInv
<1> QED
  BY <1>1, <1>2, <1>3

LEMMA LayersSound ==
    ASSUME LayersInv
    PROVE  LayersAreAccounted
<1>1. ScanMatchesRelation /\ ScanIsFirstFit
  <2>1. CASE ScanInv
    BY <2>1, ScanIsExact
  <2>2. CASE st.algo # "scan"
    BY <2>2 DEF ScanMatchesRelation, ScanIsFirstFit, ScanAt, Running
  <2> QED
    BY <2>1, <2>2, LayersAlgo DEF LayersInv
<1>2. CooldownIsKept
  <2>1. CASE st.algo # "reuse"
    BY <2>1 DEF CooldownIsKept, Running
  <2> QED
    BY <2>1, ReuseIsSound, LayersAlgo DEF LayersInv
<1>3. LayerIsNotOversubscribed /\ AlphaIsOverspent
  <2>1. CASE st.algo # "portfolio"
    BY <2>1 DEF LayerIsNotOversubscribed, AlphaIsOverspent, Running
  <2> QED
    BY <2>1, LayerIsFair, FamilyIsShared, LayersAlgo DEF LayersInv
<1>4. DecisionAgrees
  <2>1. CASE st.algo # "decision"
    BY <2>1 DEF DecisionAgrees, Running
  <2>2. CASE Decided
    BY <2>2, DecisionsAgree DEF Decided
  <2> QED
    BY <2>1, <2>2, LayersAlgo DEF LayersInv
<1> QED
  BY <1>1, <1>2, <1>3, <1>4 DEF LayersAreAccounted

\* A layer is accounted for, whatever its size, its occupied ranges and the
\* order its sort leaves equal starts in, and for any portfolio, overrides and
\* analysis: the scan returns the first gap or rightly none, a bucket is
\* reused after its cooldown only, the recommended shares fit their layer, the
\* recommended levels together exceed the family's alpha unless all priorities
\* are equal, by less than as much again, and a decision agrees with what it
\* was learned from.
THEOREM LayersAccounted == LayersSpec => []LayersAreAccounted
<1>1. LayersInv /\ [ScanNext \/ ReuseNext \/ PortfolioNext]_st => LayersInv'
  <2> SUFFICES ASSUME LayersInv, UNCHANGED st PROVE LayersInv'
    BY LayersStep
  <2>1. ScanInv => ScanInv'
    BY DEF ScanInv, Sorting, InLayer
  <2>2. ReuseInv => ReuseInv'
    BY ReuseStep
  <2>3. PortfolioInv => PortfolioInv'
    BY DEF PortfolioInv, recommend_layer, UncappedShare, PriorityTotal, LayerOf
  <2>4. Decided => Decided'
    BY DEF Decided
  <2> QED
    BY <2>1, <2>2, <2>3, <2>4 DEF LayersInv
<1> QED
  BY <1>1, LayersStart, LayersSound, PTL DEF LayersSpec

-----------------------------------------------------------------------------
(* Validation.                                                             *)

LEMMA TimestampPasses ==
    ASSUME NEW t \in Timestamps \cup Int, NEW now \in Nat
    PROVE  /\ require_timestamp(t, now) \in {"ok", "invalid"}
           /\ require_timestamp(t, now) = "ok" =>
                 t \in Int /\ ~Malformed(t) /\ now - Day <= t /\ t <= now + Day
           /\ t \in Int /\ now - Day <= t /\ t <= now + Day => require_timestamp(t, now) = "ok"
<1>1. Day \in Nat
  BY SessionAssumption
<1>2. Malformed(t) <=> t \notin Int
  BY <1>1, SessionAssumption DEF Malformed, Timestamps
<1>3. CASE t \in Int
  BY <1>1, <1>2, <1>3 DEF require_timestamp, validate_timestamp
<1>4. CASE t \notin Int
  BY <1>2, <1>4 DEF require_timestamp
<1> QED
  BY <1>3, <1>4

LEMMA WellFormedIsNumber ==
    ASSUME NEW t \in Timestamps, ~Malformed(t)
    PROVE  t \in Int
<1>1. Day \in Nat
  BY SessionAssumption
<1>2. t \in -1 .. Day + 1
  BY DEF Timestamps, Malformed
<1> QED
  BY <1>1, <1>2

LEMMA ThreeChecks ==
    ASSUME NEW c, Len(c) = 3
    PROVE  Len(c) \in Nat /\ Len(c) >= 3
OBVIOUS

LEMMA FourChecks ==
    ASSUME NEW c, Len(c) = 4
    PROVE  /\ Len(c) \in Nat /\ Len(c) >= 3
           /\ 2 \in 1 .. Len(c) /\ 3 \in 1 .. Len(c) /\ 4 \in 1 .. Len(c)
OBVIOUS

\* An event of three checks: its names, its timestamp, its number.
LEMMA NamedAndPlaced ==
    ASSUME NEW e, NEW fields, e.timestamp \in Timestamps, NEW c, Len(c) \in Nat, Len(c) >= 3,
           c[1] = validate_required(e, fields), c[2] = require_timestamp(e.timestamp, 0),
           c[3] = assert_finite(e.value)
    PROVE  /\ FirstFailure(c) # "invalid" =>
                 /\ fields \subseteq e.given /\ ~Malformed(e.timestamp)
                 /\ -Day <= e.timestamp /\ e.timestamp <= Day
           /\ FirstFailure(c) = "ok" => e.value # NaN
<1>1. Day \in Nat
  BY SessionAssumption
<1>2. CASE ~(fields \subseteq e.given)
  <2>1. c[1] = "invalid" /\ 1 \in 1 .. Len(c) /\ \A j \in 1 .. 1 - 1 : c[j] = "ok"
    BY <1>2 DEF validate_required
  <2>2. FirstFailure(c) = "invalid"
    BY <2>1, FailsAt
  <2> QED
    BY <2>2
<1>3. CASE fields \subseteq e.given
  <2>1. c[1] = "ok"
    BY <1>3 DEF validate_required
  <2>2. FirstFailure(c) # "invalid" => c[2] = "ok"
    <3> SUFFICES ASSUME c[2] # "ok" PROVE FirstFailure(c) = "invalid"
      OBVIOUS
    <3>1. c[2] = "invalid"
      BY TimestampPasses
    <3>2. 2 \in 1 .. Len(c) /\ \A j \in 1 .. 2 - 1 : c[j] = "ok"
      BY <2>1
    <3> QED
      BY <3>1, <3>2, FailsAt
  <2>3. c[2] = "ok" => ~Malformed(e.timestamp) /\ -Day <= e.timestamp /\ e.timestamp <= Day
    BY <1>1, TimestampPasses
  <2>4. FirstFailure(c) = "ok" => e.value # NaN
    <3> SUFFICES ASSUME FirstFailure(c) = "ok" PROVE e.value # NaN
      OBVIOUS
    <3>1. 3 \in 1 .. Len(c)
      OBVIOUS
    <3>2. c[3] = "ok"
      BY <3>1, AllPassed
    <3> QED
      BY <3>2 DEF assert_finite
  <2> QED
    BY <1>3, <2>2, <2>3, <2>4
<1> QED
  BY <1>2, <1>3

LEMMA ValidationIsUsable ==
    ASSUME ValidationInit
    PROVE  ValidatedIsUsable
<1>1. PICK missing \in Names \cup {"nothing"}, t \in Timestamps, start \in Timestamps, end \in Timestamps,
           v \in {0, NaN}, p \in SUBSET {<<"item", "algo">>, <<"", "algo">>, <<"item", "">>} :
        st = [algo |-> "validation",
              event |-> [given |-> Names \ {missing}, timestamp |-> t, start |-> start, end |-> end,
                         value |-> v, provenance |-> p, id |-> "x", model |-> "m"]]
  BY DEF ValidationInit
<1>2. PICK e : e = st.event
  OBVIOUS
<1>3. e.timestamp = t /\ e.start = start /\ e.end = end /\ e.value = v /\ e.provenance = p
  BY <1>1, <1>2
<1>4. PICK exposure, metric, reward, retraining :
        /\ exposure = <<validate_required(e, {"event_id", "experiment_id", "user_id", "variant_id"}),
                        require_timestamp(e.timestamp, 0), assert_finite(e.value),
                        validate_interleaving_provenance(e.provenance)>>
        /\ metric = <<validate_required(e, {"event_id", "user_id", "event_type"}),
                      require_timestamp(e.timestamp, 0), assert_finite(e.value)>>
        /\ reward = <<validate_required(e, {"event_id", "experiment_id", "user_id", "arm_id"}),
                      require_timestamp(e.timestamp, 0), assert_finite(e.value)>>
        /\ retraining = <<validate_required(e, {"event_id", "model_id"}),
                          require_retraining_timestamp(e.start), require_retraining_timestamp(e.end),
                          IF Malformed(e.start) \/ Malformed(e.end) \/ e.end > e.start THEN "ok" ELSE "invalid">>
  OBVIOUS
<1>5. /\ Verdicts["exposure"] = FirstFailure(exposure) /\ Verdicts["metric"] = FirstFailure(metric)
      /\ Verdicts["reward"] = FirstFailure(reward) /\ Verdicts["retraining"] = FirstFailure(retraining)
      /\ Verdicts.exposure = FirstFailure(exposure) /\ Verdicts.retraining = FirstFailure(retraining)
  BY <1>2, <1>4 DEF Verdicts, validate_exposure, validate_metric_event, validate_reward_event,
                    validate_model_retraining_event
<1>6. ASSUME NEW k \in {"exposure", "metric", "reward"}
      PROVE  /\ Verdicts[k] # "invalid" =>
                   /\ ~Malformed(e.timestamp) /\ -Day <= e.timestamp /\ e.timestamp <= Day
                   /\ {"event_id", "user_id"} \subseteq e.given
             /\ Verdicts[k] = "ok" => e.value # NaN
  <2>1. e.timestamp \in Timestamps
    BY <1>3
  <2>2. CASE k = "exposure"
    <3>1. PICK fields : fields = {"event_id", "experiment_id", "user_id", "variant_id"}
      OBVIOUS
    <3>0. Len(exposure) = 4
      BY <1>4
    <3>4. Len(exposure) \in Nat /\ Len(exposure) >= 3
      BY <3>0, FourChecks, Zenon
    <3>2. /\ exposure[1] = validate_required(e, fields)
          /\ exposure[2] = require_timestamp(e.timestamp, 0) /\ exposure[3] = assert_finite(e.value)
      BY <1>4, <3>1
    <3>3. /\ FirstFailure(exposure) # "invalid" =>
                /\ fields \subseteq e.given /\ ~Malformed(e.timestamp)
                /\ -Day <= e.timestamp /\ e.timestamp <= Day
          /\ FirstFailure(exposure) = "ok" => e.value # NaN
      BY <2>1, <3>2, <3>4, NamedAndPlaced
    <3> QED
      BY <1>5, <2>2, <3>1, <3>3
  <2>3. CASE k = "metric"
    <3>1. PICK fields : fields = {"event_id", "user_id", "event_type"}
      OBVIOUS
    <3>0. Len(metric) = 3
      BY <1>4
    <3>4. Len(metric) \in Nat /\ Len(metric) >= 3
      BY <3>0, ThreeChecks, Zenon
    <3>2. /\ metric[1] = validate_required(e, fields)
          /\ metric[2] = require_timestamp(e.timestamp, 0) /\ metric[3] = assert_finite(e.value)
      BY <1>4, <3>1
    <3>3. /\ FirstFailure(metric) # "invalid" =>
                /\ fields \subseteq e.given /\ ~Malformed(e.timestamp)
                /\ -Day <= e.timestamp /\ e.timestamp <= Day
          /\ FirstFailure(metric) = "ok" => e.value # NaN
      BY <2>1, <3>2, <3>4, NamedAndPlaced
    <3> QED
      BY <1>5, <2>3, <3>1, <3>3
  <2>4. CASE k = "reward"
    <3>1. PICK fields : fields = {"event_id", "experiment_id", "user_id", "arm_id"}
      OBVIOUS
    <3>0. Len(reward) = 3
      BY <1>4
    <3>4. Len(reward) \in Nat /\ Len(reward) >= 3
      BY <3>0, ThreeChecks, Zenon
    <3>2. /\ reward[1] = validate_required(e, fields)
          /\ reward[2] = require_timestamp(e.timestamp, 0) /\ reward[3] = assert_finite(e.value)
      BY <1>4, <3>1
    <3>3. /\ FirstFailure(reward) # "invalid" =>
                /\ fields \subseteq e.given /\ ~Malformed(e.timestamp)
                /\ -Day <= e.timestamp /\ e.timestamp <= Day
          /\ FirstFailure(reward) = "ok" => e.value # NaN
      BY <2>1, <3>2, <3>4, NamedAndPlaced
    <3> QED
      BY <1>5, <2>4, <3>1, <3>3
  <2> QED
    BY <2>2, <2>3, <2>4
<1>7. Verdicts.exposure = "ok" => \A x \in e.provenance : "" \notin {x[1], x[2]}
  <2> SUFFICES ASSUME Verdicts.exposure = "ok" PROVE \A x \in e.provenance : "" \notin {x[1], x[2]}
    OBVIOUS
  <2>0. Len(exposure) = 4
    BY <1>4
  <2>1. exposure[4] = validate_interleaving_provenance(e.provenance)
    BY <1>4
  <2>2. exposure[4] = "ok"
    <3>1. Len(exposure) \in Nat /\ 4 \in 1 .. Len(exposure)
      BY <2>0, FourChecks, Zenon
    <3>2. FirstFailure(exposure) = "ok"
      BY <1>5, Zenon
    <3> QED
      BY <3>1, <3>2, AllPassed
  <2> QED
    BY <2>1, <2>2 DEF validate_interleaving_provenance
<1>8. Verdicts.retraining = "ok" =>
        /\ ~Malformed(e.start) /\ ~Malformed(e.end) /\ e.start < e.end
        /\ model_retraining_dedup_key(e) = <<e.model, e.start>>
  <2> SUFFICES ASSUME Verdicts.retraining = "ok"
               PROVE  /\ ~Malformed(e.start) /\ ~Malformed(e.end) /\ e.start < e.end
                      /\ model_retraining_dedup_key(e) = <<e.model, e.start>>
    OBVIOUS
  <2>0. Len(retraining) = 4
    BY <1>4
  <2>1. /\ retraining[2] = require_retraining_timestamp(e.start)
        /\ retraining[3] = require_retraining_timestamp(e.end)
        /\ retraining[4] = IF Malformed(e.start) \/ Malformed(e.end) \/ e.end > e.start THEN "ok" ELSE "invalid"
    BY <1>4
  <2>2. retraining[2] = "ok" /\ retraining[3] = "ok" /\ retraining[4] = "ok"
    <3>1. /\ Len(retraining) \in Nat
          /\ 2 \in 1 .. Len(retraining) /\ 3 \in 1 .. Len(retraining) /\ 4 \in 1 .. Len(retraining)
      BY <2>0, FourChecks, Zenon
    <3>2. FirstFailure(retraining) = "ok"
      BY <1>5, Zenon
    <3> QED
      BY <3>1, <3>2, AllPassed
  <2>3. ~Malformed(e.start) /\ ~Malformed(e.end)
    BY <2>1, <2>2 DEF require_retraining_timestamp
  <2>4. e.end > e.start
    BY <2>1, <2>2, <2>3
  <2>5. e.start \in Int /\ e.end \in Int
    <3>1. e.start \in Timestamps /\ e.end \in Timestamps
      BY <1>3
    <3> QED
      BY <2>3, <3>1, WellFormedIsNumber
  <2>6. e.start # Absent
    BY <2>3 DEF Malformed
  <2> QED
    BY <2>3, <2>4, <2>5, <2>6 DEF model_retraining_dedup_key
<1> QED
  BY <1>2, <1>6, <1>7, <1>8 DEF ValidatedIsUsable

-----------------------------------------------------------------------------
(* What a session counts: sums, rises and peaks of a growing log.          *)

LEMMA SumOfOne ==
    ASSUME NEW s \in Seq(Nat), Len(s) = 1
    PROVE  SumOf(s) = s[1]
<1>1. PICK f : SummedBy(s, f)
  BY SumSteps
<1>2. /\ SumOf(s) = f[1] /\ f[0] = 0
      /\ \A i \in 1 .. 1 : f[i] = f[i - 1] + s[i]
  BY <1>1 DEF SummedBy
<1>3. f[1] = f[1 - 1] + s[1] /\ 1 - 1 = 0 /\ s[1] \in Nat
  BY <1>2
<1> QED
  BY <1>2, <1>3

HeartbeatsTaken ==
    [given : {h.given : h \in Heartbeats}, timestamp : Int, session_id : {h.session_id : h \in Heartbeats},
     is_startup : BOOLEAN, is_rebuffering : BOOLEAN, buffer : {h.buffer : h \in Heartbeats},
     bitrate : 0 .. Limit["bitrate"], height : 0 .. Limit["height"]]

Bitrates(l) == [i \in 1 .. Len(l) |-> l[i].bitrate]

LEMMA LimitsAreNumbers ==
    /\ Day \in Nat /\ Gap \in Nat /\ Scale \in Nat /\ MaxClock \in Nat
    /\ Limit["bitrate"] \in Nat /\ Limit["height"] \in Nat /\ Limit["ratio"] \in Nat
    /\ Limit["ttff"] \in Nat /\ Limit["count"] \in Nat /\ Limit["duration"] \in Nat
    /\ Limit["ratio"] = Scale /\ \A n \in Int : n # NaN
BY SessionAssumption

LEMMA HeartbeatFields ==
    ASSUME NEW h \in HeartbeatsTaken
    PROVE  /\ h.timestamp \in Int /\ h.is_startup \in BOOLEAN /\ h.is_rebuffering \in BOOLEAN
           /\ h.bitrate \in Nat /\ h.bitrate <= Limit["bitrate"]
           /\ h.height \in Nat /\ h.height <= Limit["height"]
BY LimitsAreNumbers DEF HeartbeatsTaken

LEMMA BitratesAreNumbers ==
    ASSUME NEW l \in Seq(HeartbeatsTaken)
    PROVE  Bitrates(l) \in Seq(Nat) /\ Len(Bitrates(l)) = Len(l)
<1>1. Len(l) \in Nat
  OBVIOUS
<1>2. ASSUME NEW i \in 1 .. Len(l) PROVE l[i].bitrate \in Nat
  <2>1. l[i] \in HeartbeatsTaken
    OBVIOUS
  <2> QED
    BY <2>1, HeartbeatFields
<1> QED
  BY <1>1, <1>2 DEF Bitrates

\* The log as it grows.
Grown(l, h, m) ==
    /\ m \in Seq(HeartbeatsTaken) /\ Len(m) = Len(l) + 1
    /\ m[Len(l) + 1] = h /\ \A i \in 1 .. Len(l) : m[i] = l[i]

LEMMA AppendGrows ==
    ASSUME NEW l \in Seq(HeartbeatsTaken), NEW h \in HeartbeatsTaken
    PROVE  Grown(l, h, Append(l, h))
BY DEF Grown

LEMMA BitratesGrow ==
    ASSUME NEW l \in Seq(HeartbeatsTaken), NEW h \in HeartbeatsTaken, NEW m, Grown(l, h, m)
    PROVE  SumOf(Bitrates(m)) = SumOf(Bitrates(l)) + h.bitrate
<1>0. m \in Seq(HeartbeatsTaken) /\ Len(m) = Len(l) + 1 /\ m[Len(l) + 1] = h /\ \A i \in 1 .. Len(l) : m[i] = l[i]
  BY DEF Grown
<1>1. PICK s : s = Bitrates(l)
  OBVIOUS
<1>2. PICK t : t = Bitrates(m)
  OBVIOUS
<1>3. s \in Seq(Nat) /\ Len(s) = Len(l)
  BY <1>1, BitratesAreNumbers
<1>4. t \in Seq(Nat) /\ Len(t) = Len(m)
  BY <1>0, <1>2, BitratesAreNumbers
<1>5. Len(t) = Len(s) + 1
  BY <1>0, <1>3, <1>4
<1>6. ASSUME NEW i \in 1 .. Len(s) PROVE t[i] = s[i]
  <2>1. i \in 1 .. Len(l) /\ i \in 1 .. Len(m)
    BY <1>0, <1>3
  <2>2. s[i] = l[i].bitrate
    BY <1>1, <2>1 DEF Bitrates
  <2>3. t[i] = m[i].bitrate
    BY <1>2, <2>1 DEF Bitrates
  <2> QED
    BY <1>0, <2>1, <2>2, <2>3
<1>7. t[Len(t)] = h.bitrate
  <2>1. Len(m) \in 1 .. Len(m)
    BY <1>0
  <2>2. t[Len(m)] = m[Len(m)].bitrate
    BY <1>2, <2>1 DEF Bitrates
  <2> QED
    BY <1>0, <1>4, <2>2
<1>8. SumOf(t) = SumOf(s) + t[Len(t)]
  BY <1>3, <1>4, <1>5, <1>6, SumGrows
<1> QED
  BY <1>1, <1>2, <1>7, <1>8

\* A rise of the rebuffering flag is counted where it happens.
LEMMA RisingGrows ==
    ASSUME NEW l \in Seq(HeartbeatsTaken), NEW h \in HeartbeatsTaken, NEW m, Grown(l, h, m), Len(l) >= 1
    PROVE  Cardinality(Rising(m)) =
              IF h.is_rebuffering /\ ~l[Len(l)].is_rebuffering
              THEN Cardinality(Rising(l)) + 1 ELSE Cardinality(Rising(l))
<1>0. m \in Seq(HeartbeatsTaken) /\ Len(m) = Len(l) + 1 /\ m[Len(l) + 1] = h /\ \A i \in 1 .. Len(l) : m[i] = l[i]
  BY DEF Grown
<1>1. PICK n \in Nat : n = Len(l) /\ n >= 1 /\ Len(m) = n + 1
  BY <1>0
<1>2. Rising(l) \subseteq 1 .. n
  BY <1>1 DEF Rising
<1>3. IsFiniteSet(Rising(l))
  BY <1>2, FS_Subset, IntervalIsFinite
<1>4. n + 1 \notin Rising(l)
  BY <1>2
<1>5. ASSUME NEW i \in 1 .. n PROVE i \in Rising(m) <=> i \in Rising(l)
  <2>1. i \in 1 .. Len(l) /\ i \in 1 .. Len(m)
    BY <1>1
  <2>2. m[i] = l[i]
    BY <1>0, <2>1
  <2>3. i # 1 => m[i - 1] = l[i - 1]
    <3> SUFFICES ASSUME i # 1 PROVE m[i - 1] = l[i - 1]
      OBVIOUS
    <3>1. i - 1 \in 1 .. Len(l)
      BY <1>1
    <3> QED
      BY <1>0, <3>1
  <2> QED
    BY <2>1, <2>2, <2>3 DEF Rising
<1>6. n + 1 \in Rising(m) <=> h.is_rebuffering /\ ~l[n].is_rebuffering
  <2>1. n + 1 \in 1 .. Len(m) /\ n + 1 # 1 /\ (n + 1) - 1 = n /\ n \in 1 .. Len(l)
    BY <1>1
  <2>2. m[n + 1] = h /\ m[n] = l[n]
    BY <1>0, <1>1, <2>1
  <2> QED
    BY <2>1, <2>2 DEF Rising
<1>7. Rising(m) \subseteq 1 .. n + 1
  BY <1>1 DEF Rising
<1>8. CASE n + 1 \in Rising(m)
  <2>1. Rising(m) = Rising(l) \cup {n + 1}
    BY <1>2, <1>5, <1>7, <1>8
  <2>2. Cardinality(Rising(m)) = Cardinality(Rising(l)) + 1
    BY <1>3, <1>4, <2>1, FS_AddElement
  <2> QED
    BY <1>1, <1>6, <1>8, <2>2
<1>9. CASE n + 1 \notin Rising(m)
  <2>1. Rising(m) \subseteq 1 .. n
    BY <1>7, <1>9
  <2>2. Rising(m) = Rising(l)
    BY <1>2, <1>5, <2>1
  <2> QED
    BY <1>1, <1>6, <1>9, <2>2
<1> QED
  BY <1>8, <1>9

-----------------------------------------------------------------------------
(* A session is its heartbeats.                                            *)

FrameTimes == Int \cup {Absent}

SessionRecs ==
    [client_id : {h.session_id : h \in Heartbeats}, first : Int, last : Int, first_frame : FrameTimes,
     transitions : Nat, rebuffering : BOOLEAN, rebuffer_time : Nat, bitrate_sum : Nat, count : Nat,
     height : Nat, switches : Nat, peak : Nat, started : BOOLEAN]

\* Timestamps in order, none further than the gap behind the one before.
InOrder(l) == \A i \in 1 .. Len(l) - 1 : l[i + 1].timestamp - l[i].timestamp \in 0 .. Gap

PeakOf(p, l) ==
    /\ \A i \in 1 .. Len(l) : l[i].height <= p
    /\ \E i \in 1 .. Len(l) : l[i].height = p

\* The counters of a session s agree with its heartbeats l.
Folded(s, l) ==
    /\ l \in Seq(HeartbeatsTaken) /\ Len(l) >= 1 /\ InOrder(l)
    /\ s.last = l[Len(l)].timestamp /\ s.rebuffering = l[Len(l)].is_rebuffering
    /\ s.transitions = Cardinality(Rising(l))
    /\ s.count = Len(l) /\ s.bitrate_sum = SumOf(Bitrates(l)) /\ s.bitrate_sum <= Len(l) * Limit["bitrate"]
    /\ PeakOf(s.peak, l)
    /\ s.started <=> ~\A i \in 1 .. Len(l) : l[i].is_startup

LEMMA HeartbeatIsTaken ==
    ASSUME NEW h \in Heartbeats, NEW t \in Int, NEW now \in Nat, NEW hb, hb = [h EXCEPT !.timestamp = t],
           validate_heartbeat_event(hb, now) = "ok"
    PROVE  hb \in HeartbeatsTaken /\ hb.timestamp = t /\ t <= now + Day
<1>1. PICK c : c = <<validate_required(hb, {"user_id", "device_id", "content_id"}),
                     require_timestamp(hb.timestamp, now), assert_finite(hb.buffer),
                     IF hb.buffer # NaN /\ hb.buffer < 0 THEN "invalid" ELSE "ok",
                     InRange(hb.bitrate, 0, Limit["bitrate"]), InRange(hb.height, 0, Limit["height"])>>
  OBVIOUS
<1>2. Len(c) = 6 /\ c[2] = require_timestamp(hb.timestamp, now)
      /\ c[5] = InRange(hb.bitrate, 0, Limit["bitrate"]) /\ c[6] = InRange(hb.height, 0, Limit["height"])
  BY <1>1
<1>3. Len(c) \in Nat /\ 2 \in 1 .. Len(c) /\ 5 \in 1 .. Len(c) /\ 6 \in 1 .. Len(c)
  BY <1>2
<1>4. FirstFailure(c) = "ok"
  BY <1>1 DEF validate_heartbeat_event
<1>5. c[2] = "ok" /\ c[5] = "ok" /\ c[6] = "ok"
  BY <1>3, <1>4, AllPassed
<1>6. h \in [given : {x.given : x \in Heartbeats}, timestamp : Int,
             session_id : {x.session_id : x \in Heartbeats}, is_startup : BOOLEAN, is_rebuffering : BOOLEAN,
             buffer : {x.buffer : x \in Heartbeats}, bitrate : Int, height : Int]
  BY SessionAssumption
<1>7. /\ hb \in [given : {x.given : x \in Heartbeats}, timestamp : Int,
                 session_id : {x.session_id : x \in Heartbeats}, is_startup : BOOLEAN, is_rebuffering : BOOLEAN,
                 buffer : {x.buffer : x \in Heartbeats}, bitrate : Int, height : Int]
      /\ hb.timestamp = t
  BY <1>6
<1>8. t <= now + Day
  BY <1>2, <1>5, <1>7, TimestampPasses
<1>9. hb.bitrate \in 0 .. Limit["bitrate"]
  BY <1>2, <1>5, <1>7, LimitsAreNumbers DEF InRange
<1>10. hb.height \in 0 .. Limit["height"]
  BY <1>2, <1>5, <1>7, LimitsAreNumbers DEF InRange
<1>11. hb \in HeartbeatsTaken
  BY <1>7, <1>9, <1>10 DEF HeartbeatsTaken
<1> QED
  BY <1>7, <1>8, <1>11

\* A session opens with its first heartbeat.
LEMMA OpenIsFolded ==
    ASSUME NEW h \in HeartbeatsTaken, NEW t, t = h.timestamp
    PROVE  Open(h, t) \in SessionRecs /\ Folded(Open(h, t), <<h>>)
<1>0. /\ t \in Int /\ h.is_startup \in BOOLEAN /\ h.is_rebuffering \in BOOLEAN
      /\ h.bitrate \in Nat /\ h.bitrate <= Limit["bitrate"] /\ h.height \in Nat
  BY HeartbeatFields
<1>1. PICK s : s = Open(h, t)
  OBVIOUS
<1>2. PICK l : l = <<h>>
  OBVIOUS
<1>3. l \in Seq(HeartbeatsTaken) /\ Len(l) = 1 /\ l[1] = h
  BY <1>2
<1>4. /\ s.client_id = h.session_id /\ s.first = t /\ s.last = t
      /\ s.first_frame = IF h.is_startup THEN Absent ELSE t
      /\ s.transitions = IF h.is_rebuffering THEN 1 ELSE 0
      /\ s.rebuffering = h.is_rebuffering /\ s.rebuffer_time = 0 /\ s.bitrate_sum = h.bitrate /\ s.count = 1
      /\ s.height = h.height /\ s.switches = 0 /\ s.peak = h.height /\ s.started = ~h.is_startup
  BY <1>0, <1>1 DEF Open, AtLeast
<1>5. s \in SessionRecs
  <2>1. h.session_id \in {x.session_id : x \in Heartbeats}
    BY DEF HeartbeatsTaken
  <2>2. s.first_frame \in FrameTimes
    BY <1>0, <1>4 DEF FrameTimes
  <2>3. s.transitions \in Nat /\ s.rebuffer_time \in Nat /\ s.count \in Nat /\ s.switches \in Nat
        /\ s.started \in BOOLEAN
    BY <1>4
  <2> QED
    BY <1>0, <1>1, <1>4, <2>1, <2>2, <2>3 DEF Open, SessionRecs
<1>6. Cardinality(Rising(l)) = IF h.is_rebuffering THEN 1 ELSE 0
  <2>1. Rising(l) = IF h.is_rebuffering THEN {1} ELSE {}
    BY <1>3 DEF Rising
  <2> QED
    BY <2>1, FS_EmptySet, FS_Singleton
<1>7. SumOf(Bitrates(l)) = h.bitrate
  <2>1. PICK b : b = Bitrates(l)
    OBVIOUS
  <2>2. b \in Seq(Nat) /\ Len(b) = 1
    BY <1>3, <2>1, BitratesAreNumbers
  <2>3. b[1] = h.bitrate
    BY <1>3, <2>1 DEF Bitrates
  <2> QED
    BY <2>1, <2>2, <2>3, SumOfOne
<1>8. InOrder(l)
  BY <1>3 DEF InOrder
<1>9. PeakOf(s.peak, l)
  BY <1>0, <1>3, <1>4 DEF PeakOf
<1>10. s.started <=> ~\A i \in 1 .. Len(l) : l[i].is_startup
  <2>1. (\A i \in 1 .. Len(l) : l[i].is_startup) <=> h.is_startup
    BY <1>3
  <2> QED
    BY <1>4, <2>1
<1>11. s.bitrate_sum <= Len(l) * Limit["bitrate"]
  BY <1>0, <1>3, <1>4, LimitsAreNumbers
<1>12. Folded(s, l)
  BY <1>3, <1>4, <1>6, <1>7, <1>8, <1>9, <1>10, <1>11 DEF Folded
<1> QED
  BY <1>1, <1>2, <1>5, <1>12

\* ... and each further heartbeat within the gap is folded in.
LEMMA ApplyIsFolded ==
    ASSUME NEW s \in SessionRecs, NEW l, Folded(s, l), NEW h \in HeartbeatsTaken, NEW t, t = h.timestamp,
           t >= s.last, WithinGap(s, t)
    PROVE  Apply(s, h, t) \in SessionRecs /\ Folded(Apply(s, h, t), Append(l, h))
<1>0. /\ t \in Int /\ h.is_startup \in BOOLEAN /\ h.is_rebuffering \in BOOLEAN
      /\ h.bitrate \in Nat /\ h.bitrate <= Limit["bitrate"] /\ h.height \in Nat
  BY HeartbeatFields
<1>1. PICK r : r = Apply(s, h, t)
  OBVIOUS
<1>2. PICK m : m = Append(l, h)
  OBVIOUS
<1>3. /\ l \in Seq(HeartbeatsTaken) /\ Len(l) >= 1 /\ InOrder(l)
      /\ s.last = l[Len(l)].timestamp /\ s.rebuffering = l[Len(l)].is_rebuffering
      /\ s.transitions = Cardinality(Rising(l))
      /\ s.count = Len(l) /\ s.bitrate_sum = SumOf(Bitrates(l)) /\ s.bitrate_sum <= Len(l) * Limit["bitrate"]
      /\ PeakOf(s.peak, l)
      /\ s.started <=> ~\A i \in 1 .. Len(l) : l[i].is_startup
  BY DEF Folded
<1>4. Grown(l, h, m)
  BY <1>2, <1>3, AppendGrows
<1>5. m \in Seq(HeartbeatsTaken) /\ Len(m) = Len(l) + 1 /\ m[Len(l) + 1] = h /\ \A i \in 1 .. Len(l) : m[i] = l[i]
  BY <1>4 DEF Grown
<1>6. PICK n \in Nat : n = Len(l) /\ n >= 1 /\ Len(m) = n + 1
  BY <1>3, <1>5
<1>7. /\ s.client_id \in {x.session_id : x \in Heartbeats} /\ s.first \in Int /\ s.last \in Int
      /\ s.first_frame \in FrameTimes
      /\ s.transitions \in Nat /\ s.rebuffering \in BOOLEAN /\ s.rebuffer_time \in Nat /\ s.bitrate_sum \in Nat
      /\ s.count \in Nat /\ s.height \in Nat /\ s.switches \in Nat /\ s.peak \in Nat /\ s.started \in BOOLEAN
  BY DEF SessionRecs
<1>8. /\ r.client_id = s.client_id /\ r.first = s.first /\ r.last = t
      /\ r.first_frame = (IF ~h.is_startup /\ ~s.started THEN t ELSE s.first_frame)
      /\ r.transitions = (IF ~s.rebuffering /\ h.is_rebuffering THEN s.transitions + 1 ELSE s.transitions)
      /\ r.rebuffering = h.is_rebuffering
      /\ r.rebuffer_time = (IF s.rebuffering THEN s.rebuffer_time + (t - s.last) ELSE s.rebuffer_time)
      /\ r.bitrate_sum = s.bitrate_sum + h.bitrate /\ r.count = s.count + 1 /\ r.height = h.height
      /\ r.switches = (IF s.height # h.height THEN s.switches + 1 ELSE s.switches)
      /\ r.peak = AtLeast(s.peak, h.height) /\ r.started = (s.started \/ ~h.is_startup)
  BY <1>1 DEF SessionRecs, Apply
<1>9. r \in SessionRecs
  <2>1. r.first_frame \in FrameTimes
    BY <1>0, <1>7, <1>8 DEF FrameTimes
  <2>2. r.transitions \in Nat /\ r.switches \in Nat /\ r.bitrate_sum \in Nat /\ r.count \in Nat /\ r.peak \in Nat
    BY <1>0, <1>7, <1>8 DEF AtLeast
  <2>3. r.rebuffer_time \in Nat
    <3>1. t - s.last \in Nat
      BY <1>0, <1>7
    <3> QED
      BY <1>7, <1>8, <3>1
  <2>4. r.started \in BOOLEAN /\ r.rebuffering \in BOOLEAN
    BY <1>0, <1>8
  <2> QED
    BY <1>0, <1>1, <1>7, <1>8, <2>1, <2>2, <2>3, <2>4 DEF Apply, SessionRecs
<1>10. InOrder(m)
  <2> SUFFICES ASSUME NEW i \in 1 .. Len(m) - 1 PROVE m[i + 1].timestamp - m[i].timestamp \in 0 .. Gap
    BY DEF InOrder
  <2>1. CASE i = n
    <3>1. m[i + 1] = h /\ m[i] = l[n] /\ i \in 1 .. Len(l)
      BY <1>5, <1>6, <2>1
    <3>3. Gap \in Nat
      BY LimitsAreNumbers
    <3>4. PICK d \in Int : d = t - s.last
      BY <1>0, <1>7
    <3>5. d >= 0 /\ d <= Gap
      BY <1>0, <1>7, <3>4 DEF WithinGap
    <3>2. t - s.last \in 0 .. Gap
      BY <3>3, <3>4, <3>5
    <3> QED
      BY <1>3, <1>6, <3>1, <3>2
  <2>2. CASE i # n
    <3>1. i \in 1 .. Len(l) - 1 /\ i \in 1 .. Len(l) /\ i + 1 \in 1 .. Len(l)
      BY <1>6, <2>2
    <3>2. m[i] = l[i] /\ m[i + 1] = l[i + 1]
      BY <1>5, <3>1
    <3>3. l[i + 1].timestamp - l[i].timestamp \in 0 .. Gap
      BY <1>3, <3>1 DEF InOrder
    <3> QED
      BY <3>2, <3>3
  <2> QED
    BY <2>1, <2>2
<1>11. m[Len(m)] = h
  BY <1>5, <1>6
<1>12. r.transitions = Cardinality(Rising(m))
  <2>1. Cardinality(Rising(m)) = IF h.is_rebuffering /\ ~l[Len(l)].is_rebuffering
                                 THEN Cardinality(Rising(l)) + 1 ELSE Cardinality(Rising(l))
    BY <1>3, <1>4, RisingGrows
  <2> QED
    BY <1>3, <1>8, <2>1
<1>13. r.bitrate_sum = SumOf(Bitrates(m)) /\ r.count = Len(m)
  <2>1. SumOf(Bitrates(m)) = SumOf(Bitrates(l)) + h.bitrate
    BY <1>3, <1>4, BitratesGrow
  <2> QED
    BY <1>3, <1>6, <1>8, <2>1
<1>14. r.bitrate_sum <= Len(m) * Limit["bitrate"]
  <2>1. PICK b \in Nat : b = Limit["bitrate"]
    BY LimitsAreNumbers
  <2>2. s.bitrate_sum <= n * b /\ h.bitrate <= b
    BY <1>0, <1>3, <1>6, <2>1
  <2>3. s.bitrate_sum + h.bitrate <= (n + 1) * b
    BY <1>0, <1>7, <2>2
  <2> QED
    BY <1>6, <1>8, <2>1, <2>3
<1>15. PeakOf(r.peak, m)
  <2>1. /\ \A i \in 1 .. n : l[i].height <= s.peak /\ m[i] = l[i] /\ l[i].height \in Nat
        /\ \E i \in 1 .. n : l[i].height = s.peak
    <3>1. ASSUME NEW i \in 1 .. n PROVE l[i].height \in Nat
      BY <1>3, <1>6, HeartbeatFields
    <3> QED
      BY <1>3, <1>5, <1>6, <3>1 DEF PeakOf
  <2>2. m[n + 1] = h /\ r.peak \in Nat /\ s.peak <= r.peak /\ h.height <= r.peak
    BY <1>0, <1>5, <1>6, <1>7, <1>8 DEF AtLeast
  <2>3. ASSUME NEW i \in 1 .. Len(m) PROVE m[i].height <= r.peak
    <3>1. CASE i = n + 1
      BY <2>2, <3>1
    <3>2. CASE i # n + 1
      <4>1. i \in 1 .. n
        BY <1>6, <3>2
      <4>2. m[i] = l[i] /\ l[i].height \in Nat /\ l[i].height <= s.peak
        BY <2>1, <4>1
      <4> QED
        BY <1>7, <2>2, <4>2
    <3> QED
      BY <3>1, <3>2
  <2>4. \E i \in 1 .. Len(m) : m[i].height = r.peak
    <3>1. CASE r.peak = h.height
      <4>1. n + 1 \in 1 .. Len(m)
        BY <1>6
      <4> QED
        BY <2>2, <3>1, <4>1
    <3>2. CASE r.peak # h.height
      <4>1. r.peak = s.peak
        BY <1>8, <3>2 DEF AtLeast
      <4>2. PICK i \in 1 .. n : l[i].height = s.peak
        BY <2>1
      <4>3. m[i] = l[i] /\ i \in 1 .. Len(m)
        BY <1>6, <2>1
      <4> QED
        BY <4>1, <4>2, <4>3
    <3> QED
      BY <3>1, <3>2
  <2> QED
    BY <2>3, <2>4 DEF PeakOf
<1>16. r.started <=> ~\A i \in 1 .. Len(m) : m[i].is_startup
  <2>1. (\A i \in 1 .. Len(m) : m[i].is_startup) <=> h.is_startup /\ \A i \in 1 .. n : l[i].is_startup
    <3>1. \A i \in 1 .. Len(m) : i = n + 1 \/ i \in 1 .. n
      BY <1>6
    <3>2. n + 1 \in 1 .. Len(m) /\ \A i \in 1 .. n : i \in 1 .. Len(m)
      BY <1>6
    <3>3. m[n + 1] = h /\ \A i \in 1 .. n : m[i] = l[i]
      BY <1>5, <1>6
    <3> QED
      BY <3>1, <3>2, <3>3
  <2> QED
    BY <1>3, <1>6, <1>8, <2>1
<1>17. Folded(r, m)
  <2>1. Len(m) >= 1 /\ r.last = m[Len(m)].timestamp /\ r.rebuffering = m[Len(m)].is_rebuffering
    BY <1>6, <1>8, <1>11
  <2> QED
    BY <1>5, <1>10, <1>12, <1>13, <1>14, <1>15, <1>16, <2>1 DEF Folded
<1> QED
  BY <1>1, <1>2, <1>9, <1>17

-----------------------------------------------------------------------------
(* What a session reports.                                                 *)

LEMMA ClampIs ==
    ASSUME NEW x \in Nat, NEW hi \in Nat
    PROVE  /\ Clamp(x, 0, hi) = AtMost(x, hi)
           /\ Clamp(x, 0, hi) \in 0 .. hi
           /\ x <= hi => Clamp(x, 0, hi) = x
BY DEF Clamp, AtMost, AtLeast

LEMMA WithinRange ==
    ASSUME NEW hi \in Nat, NEW x \in 0 .. hi
    PROVE  InRange(x, 0, hi) = "ok"
BY DEF InRange

LEMMA FiniteNumber ==
    ASSUME NEW x \in Int
    PROVE  assert_finite(x) = "ok"
BY LimitsAreNumbers DEF assert_finite

LEMMA PartOfWhole ==
    ASSUME NEW a \in Nat, NEW d \in Nat, d > 0, a <= d, NEW c \in Nat
    PROVE  (c * a) \div d \in 0 .. c
<1>1. PICK p \in Nat : p = c * a
  OBVIOUS
<1>2. p <= c * d
  BY <1>1
<1>3. p \div d \in 0 .. c
  BY <1>2
<1> QED
  BY <1>1, <1>3

LEMMA DurationIsNumber ==
    ASSUME NEW s \in SessionRecs
    PROVE  Duration(s) \in Nat
<1>1. s.first \in Int /\ s.last \in Int
  BY DEF SessionRecs
<1> QED
  BY <1>1 DEF Duration, AtLeast

LEMMA TtffIsInRange ==
    ASSUME NEW s \in SessionRecs
    PROVE  Ttff(s) \in 0 .. Limit["ttff"]
<1>1. PICK b \in Nat : b = Limit["ttff"]
  BY LimitsAreNumbers
<1>2. CASE s.first_frame = Absent
  BY <1>1, <1>2 DEF Ttff
<1>3. CASE s.first_frame # Absent
  <2>1. s.first_frame \in Int /\ s.first \in Int
    BY <1>3 DEF SessionRecs, FrameTimes
  <2>2. PICK d \in Nat : d = AtLeast(s.first_frame - s.first, 0)
    BY <2>1 DEF AtLeast
  <2>3. Ttff(s) = AtMost(d, b)
    BY <1>1, <1>3, <2>2 DEF Ttff
  <2>4. AtMost(d, b) \in 0 .. b
    BY DEF AtMost
  <2> QED
    BY <1>1, <2>3, <2>4
<1> QED
  BY <1>2, <1>3

\* The average of the bitrates is the quotient, and needs no clamp.
LEMMA AverageIs ==
    ASSUME NEW s \in SessionRecs, NEW l, Folded(s, l)
    PROVE  /\ s.bitrate_sum \div s.count \in 0 .. Limit["bitrate"]
           /\ s.bitrate_sum \div s.count = SumOf(Bitrates(l)) \div Len(l)
<1>1. PICK b \in Nat : b = Limit["bitrate"]
  BY LimitsAreNumbers
<1>2. /\ l \in Seq(HeartbeatsTaken) /\ Len(l) >= 1
      /\ s.count = Len(l) /\ s.bitrate_sum = SumOf(Bitrates(l)) /\ s.bitrate_sum <= Len(l) * Limit["bitrate"]
  BY DEF Folded
<1>3. PICK n \in Nat : n = Len(l) /\ n > 0
  BY <1>2
<1>4. PICK a \in Nat : a = s.bitrate_sum
  BY DEF SessionRecs
<1>5. a <= n * b
  BY <1>1, <1>2, <1>3, <1>4
<1>6. a \div n \in 0 .. b
  BY <1>3, <1>5
<1> QED
  BY <1>1, <1>2, <1>3, <1>4, <1>6

\* The peak of a session is the greatest height, and needs no clamp.
LEMMA PeakIs ==
    ASSUME NEW s \in SessionRecs, NEW l, Folded(s, l)
    PROVE  s.peak \in 0 .. Limit["height"] /\ s.peak = Greatest({l[i].height : i \in 1 .. Len(l)})
<1>1. PICK H : H = {l[i].height : i \in 1 .. Len(l)}
  OBVIOUS
<1>2. l \in Seq(HeartbeatsTaken) /\ PeakOf(s.peak, l)
  BY DEF Folded
<1>3. ASSUME NEW i \in 1 .. Len(l) PROVE l[i].height \in 0 .. Limit["height"]
  <2>1. l[i] \in HeartbeatsTaken
    BY <1>2
  <2> QED
    BY <2>1 DEF HeartbeatsTaken
<1>4. s.peak \in H /\ \A x \in H : x <= s.peak
  BY <1>1, <1>2 DEF PeakOf
<1>5. H \subseteq 0 .. Limit["height"]
  BY <1>1, <1>3
<1>6. H \subseteq Int
  BY <1>5, LimitsAreNumbers
<1>7. Greatest(H) \in H /\ \A x \in H : x <= Greatest(H)
  BY <1>4 DEF Greatest
<1>8. Greatest(H) = s.peak
  <2>1. Greatest(H) <= s.peak /\ s.peak <= Greatest(H) /\ Greatest(H) \in Int /\ s.peak \in Int
    BY <1>4, <1>6, <1>7
  <2> QED
    BY <2>1
<1> QED
  BY <1>1, <1>4, <1>5, <1>8

\* A session's numbers.
LEMMA SessionsReported ==
    ASSUME NEW s \in SessionRecs, NEW l, Folded(s, l), NEW m, m = Finalize(s).metrics
    PROVE  /\ m.time_to_first_frame \in 0 .. Limit["ttff"] /\ m.rebuffer_count \in 0 .. Limit["count"]
           /\ m.rebuffer_ratio \in 0 .. Scale /\ m.avg_bitrate \in 0 .. Limit["bitrate"]
           /\ m.resolution_switches \in 0 .. Limit["count"] /\ m.peak_height \in 0 .. Limit["height"]
           /\ m.startup_failure_rate \in {0, Scale} /\ m.playback_duration \in 0 .. Limit["duration"]
           /\ m.rebuffer_count = AtMost(Cardinality(Rising(l)), Limit["count"])
           /\ m.avg_bitrate = SumOf(Bitrates(l)) \div Len(l)
           /\ m.peak_height = Greatest({l[i].height : i \in 1 .. Len(l)})
           /\ m.ebvs_detected <=> \A i \in 1 .. Len(l) : l[i].is_startup
<1>1. /\ m.time_to_first_frame = Ttff(s) /\ m.rebuffer_count = RebufferCount(s)
      /\ m.rebuffer_ratio = (IF Duration(s) > 0
                             THEN (Scale * AtMost(s.rebuffer_time, Duration(s))) \div Duration(s) ELSE 0)
      /\ m.avg_bitrate = Clamp(s.bitrate_sum \div s.count, 0, Limit["bitrate"])
      /\ m.resolution_switches = Clamp(s.switches, 0, Limit["count"])
      /\ m.peak_height = Clamp(s.peak, 0, Limit["height"])
      /\ m.startup_failure_rate = (IF s.started THEN 0 ELSE Scale)
      /\ m.playback_duration = AtMost(Duration(s), Limit["duration"]) /\ m.ebvs_detected = Ebvs(s)
  BY DEF Finalize
<1>2. PICK cap \in Nat, top \in Nat, rate \in Nat, long \in Nat :
        cap = Limit["count"] /\ top = Limit["height"] /\ rate = Limit["bitrate"] /\ long = Limit["duration"]
  BY LimitsAreNumbers
<1>3. s.transitions \in Nat /\ s.switches \in Nat /\ s.rebuffer_time \in Nat /\ s.started \in BOOLEAN
  BY DEF SessionRecs
<1>4. m.time_to_first_frame \in 0 .. Limit["ttff"]
  BY <1>1, TtffIsInRange
<1>5. /\ m.rebuffer_count = AtMost(Cardinality(Rising(l)), Limit["count"])
      /\ m.rebuffer_count \in 0 .. Limit["count"]
  <2>1. Clamp(s.transitions, 0, cap) = AtMost(s.transitions, cap) /\ Clamp(s.transitions, 0, cap) \in 0 .. cap
    BY <1>3, ClampIs
  <2>2. s.transitions = Cardinality(Rising(l))
    BY DEF Folded
  <2>3. m.rebuffer_count = Clamp(s.transitions, 0, cap)
    BY <1>1, <1>2 DEF RebufferCount
  <2> QED
    BY <1>2, <2>1, <2>2, <2>3
<1>6. m.resolution_switches \in 0 .. Limit["count"]
  BY <1>1, <1>2, <1>3, ClampIs
<1>7. m.avg_bitrate \in 0 .. Limit["bitrate"] /\ m.avg_bitrate = SumOf(Bitrates(l)) \div Len(l)
  <2>1. PICK q : q = s.bitrate_sum \div s.count
    OBVIOUS
  <2>2. q \in 0 .. rate /\ q = SumOf(Bitrates(l)) \div Len(l)
    BY <1>2, <2>1, AverageIs
  <2>3. q \in Nat /\ q <= rate
    BY <2>2
  <2>4. Clamp(q, 0, rate) = q
    BY <2>3, ClampIs
  <2>5. m.avg_bitrate = Clamp(q, 0, rate)
    BY <1>1, <1>2, <2>1
  <2> QED
    BY <1>2, <2>2, <2>4, <2>5
<1>8. m.peak_height \in 0 .. Limit["height"] /\ m.peak_height = Greatest({l[i].height : i \in 1 .. Len(l)})
  <2>1. s.peak \in 0 .. top /\ s.peak = Greatest({l[i].height : i \in 1 .. Len(l)})
    BY <1>2, PeakIs
  <2>2. s.peak \in Nat /\ s.peak <= top
    BY <2>1
  <2>3. Clamp(s.peak, 0, top) = s.peak
    BY <2>2, ClampIs
  <2>4. m.peak_height = s.peak
    BY <1>1, <1>2, <2>3
  <2> QED
    BY <1>2, <2>1, <2>4
<1>9. m.playback_duration \in 0 .. Limit["duration"]
  <2>1. Duration(s) \in Nat
    BY DurationIsNumber
  <2>2. AtMost(Duration(s), long) \in 0 .. long
    BY <2>1 DEF AtMost
  <2> QED
    BY <1>1, <1>2, <2>2
<1>10. m.rebuffer_ratio \in 0 .. Scale
  <2>1. PICK d \in Nat : d = Duration(s)
    BY DurationIsNumber
  <2>2. PICK c \in Nat : c = Scale
    BY LimitsAreNumbers
  <2>3. PICK a \in Nat : a = AtMost(s.rebuffer_time, d) /\ a <= d
    BY <1>3 DEF AtMost
  <2>4. CASE d > 0
    <3>1. (c * a) \div d \in 0 .. c
      BY <2>3, <2>4, PartOfWhole
    <3> QED
      BY <1>1, <2>1, <2>2, <2>3, <2>4, <3>1
  <2>5. CASE ~(d > 0)
    BY <1>1, <2>1, <2>2, <2>5
  <2> QED
    BY <2>4, <2>5
<1>11. m.startup_failure_rate \in {0, Scale}
  BY <1>1
<1>12. m.ebvs_detected <=> \A i \in 1 .. Len(l) : l[i].is_startup
  <2>1. s.started <=> ~\A i \in 1 .. Len(l) : l[i].is_startup
    BY DEF Folded
  <2> QED
    BY <1>1, <1>3, <2>1 DEF Ebvs
<1> QED
  BY <1>4, <1>5, <1>6, <1>7, <1>8, <1>9, <1>10, <1>11, <1>12

\* The numbers m agree with the heartbeats l.
Agrees(m, l) ==
    /\ m.rebuffer_count = AtMost(Cardinality(Rising(l)), Limit["count"])
    /\ m.avg_bitrate = SumOf(Bitrates(l)) \div Len(l)
    /\ m.peak_height = Greatest({l[i].height : i \in 1 .. Len(l)})
    /\ m.ebvs_detected <=> \A i \in 1 .. Len(l) : l[i].is_startup

LEMMA ReportAgrees ==
    ASSUME NEW s \in SessionRecs, NEW l, Folded(s, l), NEW m, m = Finalize(s).metrics
    PROVE  Agrees(m, l)
<1>1. /\ m.rebuffer_count = AtMost(Cardinality(Rising(l)), Limit["count"])
      /\ m.avg_bitrate = SumOf(Bitrates(l)) \div Len(l)
      /\ m.peak_height = Greatest({l[i].height : i \in 1 .. Len(l)})
      /\ m.ebvs_detected <=> \A i \in 1 .. Len(l) : l[i].is_startup
  BY SessionsReported
<1> QED
  BY <1>1, Zenon DEF Agrees

\* The numbers a session reports pass the validation of the ingestion service.
LEMMA ReportPasses ==
    ASSUME NEW s \in SessionRecs, NEW l, Folded(s, l), NEW m, m = Finalize(s).metrics
    PROVE  validate_playback_metrics(m) = "ok"
<1>1. PICK ttff \in Nat, cap \in Nat, top \in Nat, rate \in Nat, long \in Nat, whole \in Nat :
        /\ ttff = Limit["ttff"] /\ cap = Limit["count"] /\ top = Limit["height"] /\ rate = Limit["bitrate"]
        /\ long = Limit["duration"] /\ whole = Limit["ratio"] /\ whole = Scale
  BY LimitsAreNumbers
<1>2. /\ m.time_to_first_frame \in 0 .. ttff /\ m.rebuffer_count \in 0 .. cap
      /\ m.rebuffer_ratio \in 0 .. whole /\ m.avg_bitrate \in 0 .. rate
      /\ m.resolution_switches \in 0 .. cap /\ m.peak_height \in 0 .. top
      /\ m.startup_failure_rate \in {0, whole} /\ m.playback_duration \in 0 .. long
  <2>1. /\ m.time_to_first_frame \in 0 .. Limit["ttff"] /\ m.rebuffer_count \in 0 .. Limit["count"]
        /\ m.rebuffer_ratio \in 0 .. Scale /\ m.avg_bitrate \in 0 .. Limit["bitrate"]
        /\ m.resolution_switches \in 0 .. Limit["count"] /\ m.peak_height \in 0 .. Limit["height"]
        /\ m.startup_failure_rate \in {0, Scale} /\ m.playback_duration \in 0 .. Limit["duration"]
    BY SessionsReported
  <2> QED
    BY <1>1, <2>1
<1>3. PICK c : c = <<assert_finite(m.rebuffer_ratio), InRange(m.rebuffer_ratio, 0, Limit["ratio"]),
                     assert_finite(m.startup_failure_rate),
                     IF m.startup_failure_rate \in {0, Limit["ratio"], NaN} THEN "ok" ELSE "invalid",
                     InRange(m.time_to_first_frame, 0, Limit["ttff"]),
                     InRange(m.rebuffer_count, 0, Limit["count"]),
                     InRange(m.avg_bitrate, 0, Limit["bitrate"]),
                     InRange(m.resolution_switches, 0, Limit["count"]),
                     InRange(m.playback_duration, 0, Limit["duration"]),
                     InRange(m.peak_height, 0, Limit["height"])>>
  OBVIOUS
<1>4. validate_playback_metrics(m) = FirstFailure(c)
  BY <1>3 DEF validate_playback_metrics
<1>5. assert_finite(m.rebuffer_ratio) = "ok" /\ assert_finite(m.startup_failure_rate) = "ok"
  <2>1. m.rebuffer_ratio \in Int /\ m.startup_failure_rate \in Int
    BY <1>2
  <2> QED
    BY <2>1, FiniteNumber
<1>6. /\ InRange(m.rebuffer_ratio, 0, Limit["ratio"]) = "ok"
      /\ InRange(m.time_to_first_frame, 0, Limit["ttff"]) = "ok"
      /\ InRange(m.rebuffer_count, 0, Limit["count"]) = "ok"
      /\ InRange(m.avg_bitrate, 0, Limit["bitrate"]) = "ok"
      /\ InRange(m.resolution_switches, 0, Limit["count"]) = "ok"
      /\ InRange(m.playback_duration, 0, Limit["duration"]) = "ok"
      /\ InRange(m.peak_height, 0, Limit["height"]) = "ok"
  <2>1. /\ InRange(m.rebuffer_ratio, 0, whole) = "ok" /\ InRange(m.time_to_first_frame, 0, ttff) = "ok"
        /\ InRange(m.rebuffer_count, 0, cap) = "ok" /\ InRange(m.avg_bitrate, 0, rate) = "ok"
        /\ InRange(m.resolution_switches, 0, cap) = "ok" /\ InRange(m.playback_duration, 0, long) = "ok"
        /\ InRange(m.peak_height, 0, top) = "ok"
    BY <1>2, WithinRange
  <2> QED
    BY <1>1, <2>1
<1>7. m.startup_failure_rate \in {0, Limit["ratio"], NaN}
  BY <1>1, <1>2
<1>8. Len(c) = 10 /\ \A i \in 1 .. 10 : c[i] = "ok"
  <2>1. Len(c) = 10
    BY <1>3
  <2>2. /\ c[1] = "ok" /\ c[2] = "ok" /\ c[3] = "ok" /\ c[4] = "ok" /\ c[5] = "ok"
        /\ c[6] = "ok" /\ c[7] = "ok" /\ c[8] = "ok" /\ c[9] = "ok" /\ c[10] = "ok"
    BY <1>3, <1>5, <1>6, <1>7
  <2> QED
    BY <2>1, <2>2
<1> QED
  BY <1>4, <1>8, PassesAll

-----------------------------------------------------------------------------
(* The sessionizer.                                                        *)

Emissions == [event : {Finalize(s) : s \in SessionRecs}, log : Seq(HeartbeatsTaken), at : Nat]

SessionStates ==
    [algo : {"sessionizer"}, clock : Nat, taken : Nat, dropped : Nat,
     sessions : [SessionKeys -> SessionRecs \cup {NoSession}],
     log : [SessionKeys -> Seq(HeartbeatsTaken)], emitted : SUBSET Emissions]

\* A session s kept at time now for the heartbeats l.
Kept(s, l, now) == s \in SessionRecs /\ Folded(s, l) /\ s.last <= now + Day

\* What was emitted is the report of a session that was kept.
Truthful(x) == \E s : Kept(s, x.log, x.at) /\ x.event = Finalize(s)

\* Every open session is the fold of its heartbeats, none of them from more
\* than a day ahead, and every event is the report of such a session.
SessionInv ==
    /\ st \in SessionStates
    /\ \A k \in SessionKeys : st.sessions[k] # NoSession => Kept(st.sessions[k], st.log[k], st.clock)
    /\ \A x \in st.emitted : Truthful(x)

LEMMA KeptLater ==
    ASSUME NEW s, NEW l, NEW now \in Nat, Kept(s, l, now)
    PROVE  Kept(s, l, now + 1)
<1>1. s.last \in Int /\ s.last <= now + Day /\ Day \in Nat
  BY LimitsAreNumbers DEF Kept, SessionRecs
<1>2. s.last <= (now + 1) + Day
  BY <1>1
<1> QED
  BY <1>2 DEF Kept

\* The report of an open session.
LEMMA EmissionIsTruthful ==
    ASSUME SessionInv, NEW k \in SessionKeys, st.sessions[k] # NoSession
    PROVE  Emission(k) \in Emissions /\ Truthful(Emission(k))
<1>1. PICK s : s = st.sessions[k]
  OBVIOUS
<1>2. PICK l : l = st.log[k]
  OBVIOUS
<1>3. PICK now \in Nat : now = st.clock
  BY DEF SessionInv, SessionStates
<1>4. Kept(s, l, now)
  BY <1>1, <1>2, <1>3 DEF SessionInv
<1>5. l \in Seq(HeartbeatsTaken) /\ s \in SessionRecs
  BY <1>4 DEF Kept, Folded
<1>6. PICK x : x = Emission(k)
  OBVIOUS
<1>7. PICK e : e = Finalize(s)
  OBVIOUS
<1>8. x = [event |-> e, log |-> l, at |-> now]
  BY <1>1, <1>2, <1>3, <1>6, <1>7 DEF Emission
<1>9. x.event = e /\ x.log = l /\ x.at = now
  BY <1>8
<1>10. x \in Emissions
  <2>1. e \in {Finalize(r) : r \in SessionRecs}
    BY <1>5, <1>7
  <2> QED
    BY <1>3, <1>5, <1>8, <2>1 DEF Emissions
<1>11. Truthful(x)
  BY <1>4, <1>7, <1>9 DEF Truthful
<1> QED
  BY <1>6, <1>10, <1>11

\* A key's session becomes s with the log l, and the events out are emitted.
Replaced(k, s, l, dropped, out) ==
    st' = [algo |-> "sessionizer", clock |-> st.clock, taken |-> st.taken + 1, dropped |-> dropped,
           sessions |-> [st.sessions EXCEPT ![k] = s], log |-> [st.log EXCEPT ![k] = l], emitted |-> out]

LEMMA ReplacedIsSound ==
    ASSUME SessionInv, NEW k \in SessionKeys, NEW s, NEW l, NEW d \in Nat, NEW out, Replaced(k, s, l, d, out),
           Kept(s, l, st.clock), out \subseteq Emissions, \A x \in out : Truthful(x)
    PROVE  SessionInv'
<1>1. PICK f, g, now : f = st.sessions /\ g = st.log /\ now = st.clock
  OBVIOUS
<1>2. /\ f \in [SessionKeys -> SessionRecs \cup {NoSession}] /\ g \in [SessionKeys -> Seq(HeartbeatsTaken)]
      /\ now \in Nat /\ st.taken \in Nat
  BY <1>1 DEF SessionInv, SessionStates
<1>3. \A j \in SessionKeys : f[j] # NoSession => Kept(f[j], g[j], now)
  BY <1>1 DEF SessionInv
<1>4. PICK f2, g2 : f2 = [f EXCEPT ![k] = s] /\ g2 = [g EXCEPT ![k] = l]
  OBVIOUS
<1>5. st' = [algo |-> "sessionizer", clock |-> now, taken |-> st.taken + 1, dropped |-> d,
             sessions |-> f2, log |-> g2, emitted |-> out]
  BY <1>1, <1>4 DEF Replaced
<1>6. st'.clock = now /\ st'.sessions = f2 /\ st'.log = g2 /\ st'.emitted = out
  BY <1>5
<1>7. s \in SessionRecs /\ l \in Seq(HeartbeatsTaken)
  BY DEF Kept, Folded
<1>8. f2 \in [SessionKeys -> SessionRecs \cup {NoSession}] /\ g2 \in [SessionKeys -> Seq(HeartbeatsTaken)]
  BY <1>2, <1>4, <1>7
<1>9. st' \in SessionStates
  <2>1. st.taken + 1 \in Nat /\ out \in SUBSET Emissions
    BY <1>2
  <2> QED
    BY <1>2, <1>5, <1>8, <2>1 DEF SessionStates
<1>10. ASSUME NEW j \in SessionKeys, f2[j] # NoSession PROVE Kept(f2[j], g2[j], now)
  <2>1. CASE j = k
    <3>1. f2[j] = s /\ g2[j] = l
      BY <1>2, <1>4, <2>1
    <3> QED
      BY <1>1, <3>1
  <2>2. CASE j # k
    <3>1. f2[j] = f[j] /\ g2[j] = g[j]
      BY <1>2, <1>4, <2>2
    <3> QED
      BY <1>3, <1>10, <3>1
  <2> QED
    BY <2>1, <2>2
<1>11. \A j \in SessionKeys : st'.sessions[j] # NoSession => Kept(st'.sessions[j], st'.log[j], st'.clock)
  BY <1>6, <1>10
<1>12. \A x \in st'.emitted : Truthful(x)
  BY <1>6
<1> QED
  BY <1>9, <1>11, <1>12 DEF SessionInv

LEMMA IngestIsSound ==
    ASSUME SessionInv, NEW k \in SessionKeys, NEW h \in Heartbeats, NEW t \in -Day .. MaxClock + Day,
           Ingest(k, h, t)
    PROVE  SessionInv'
<1>1. PICK f, g, now : f = st.sessions /\ g = st.log /\ now = st.clock
  OBVIOUS
<1>2. /\ f \in [SessionKeys -> SessionRecs \cup {NoSession}] /\ g \in [SessionKeys -> Seq(HeartbeatsTaken)]
      /\ now \in Nat /\ st.taken \in Nat /\ st.dropped \in Nat
      /\ st = [algo |-> "sessionizer", clock |-> now, taken |-> st.taken, dropped |-> st.dropped,
               sessions |-> f, log |-> g, emitted |-> st.emitted]
  BY <1>1 DEF SessionInv, SessionStates
<1>3. PICK s, hb : s = f[k] /\ hb = [h EXCEPT !.timestamp = t]
  OBVIOUS
<1>4. PICK in : in = [st EXCEPT !.taken = @ + 1, !.emitted = {}]
  OBVIOUS
<1>5. in = [algo |-> "sessionizer", clock |-> now, taken |-> st.taken + 1, dropped |-> st.dropped,
            sessions |-> f, log |-> g, emitted |-> {}]
  <2>1. PICK n, d, out : n = st.taken /\ d = st.dropped /\ out = st.emitted
    OBVIOUS
  <2>2. st = [algo |-> "sessionizer", clock |-> now, taken |-> n, dropped |-> d,
              sessions |-> f, log |-> g, emitted |-> out]
    BY <1>2, <2>1
  <2>3. in = [algo |-> "sessionizer", clock |-> now, taken |-> n + 1, dropped |-> d,
              sessions |-> f, log |-> g, emitted |-> {}]
    BY <1>4, <2>2
  <2> QED
    BY <2>1, <2>3
<1>6. /\ validate_heartbeat_event(hb, now) = "ok"
      /\ \/ /\ s # NoSession /\ t < s.last
            /\ st' = [in EXCEPT !.dropped = @ + 1]
         \/ /\ s # NoSession /\ t >= s.last /\ WithinGap(s, t)
            /\ st' = [in EXCEPT !.sessions[k] = Apply(s, hb, t), !.log[k] = Append(@, hb)]
         \/ /\ s # NoSession /\ t >= s.last /\ ~WithinGap(s, t)
            /\ st' = [in EXCEPT !.emitted = {Emission(k)}, !.sessions[k] = Open(hb, t), !.log[k] = <<hb>>]
         \/ /\ ~(s # NoSession)
            /\ st' = [in EXCEPT !.sessions[k] = Open(hb, t), !.log[k] = <<hb>>]
  BY <1>1, <1>3, <1>4 DEF Ingest
<1>7. t \in Int
  BY LimitsAreNumbers
<1>8. hb \in HeartbeatsTaken /\ hb.timestamp = t /\ t <= now + Day
  BY <1>2, <1>3, <1>6, <1>7, HeartbeatIsTaken
<1>9. s # NoSession => Kept(s, g[k], now)
  BY <1>1, <1>3 DEF SessionInv
<1>10. Kept(Open(hb, t), <<hb>>, now)
  <2>1. Open(hb, t) \in SessionRecs /\ Folded(Open(hb, t), <<hb>>)
    BY <1>8, OpenIsFolded
  <2>2. Open(hb, t).last = t
    BY DEF Open
  <2> QED
    BY <1>8, <2>1, <2>2 DEF Kept
<1>11. \A x \in {} : Truthful(x)
  OBVIOUS
<1>12. CASE s # NoSession /\ t < s.last /\ st' = [in EXCEPT !.dropped = @ + 1]
  <2>1. PICK l : l = g[k]
    OBVIOUS
  <2>2. [f EXCEPT ![k] = s] = f /\ [g EXCEPT ![k] = l] = g
    BY <1>2, <1>3, <2>1
  <2>3. st' = [algo |-> "sessionizer", clock |-> now, taken |-> st.taken + 1, dropped |-> st.dropped + 1,
               sessions |-> f, log |-> g, emitted |-> {}]
    BY <1>5, <1>12
  <2>4. PICK d \in Nat : d = st.dropped + 1
    BY <1>2
  <2>5. Replaced(k, s, l, d, {})
    BY <1>1, <2>2, <2>3, <2>4 DEF Replaced
  <2>6. Kept(s, l, st.clock)
    BY <1>1, <1>9, <1>12, <2>1
  <2> QED
    BY <2>5, <2>6, ReplacedIsSound
<1>13. CASE /\ s # NoSession /\ t >= s.last /\ WithinGap(s, t)
            /\ st' = [in EXCEPT !.sessions[k] = Apply(s, hb, t), !.log[k] = Append(@, hb)]
  <2>1. PICK r, l, m : r = Apply(s, hb, t) /\ l = g[k] /\ m = Append(l, hb)
    OBVIOUS
  <2>2. st' = [algo |-> "sessionizer", clock |-> now, taken |-> st.taken + 1, dropped |-> st.dropped,
               sessions |-> [f EXCEPT ![k] = r], log |-> [g EXCEPT ![k] = m], emitted |-> {}]
    BY <1>2, <1>5, <1>13, <2>1
  <2>3. PICK d \in Nat : d = st.dropped
    BY <1>2
  <2>4. Replaced(k, r, m, d, {})
    BY <1>1, <2>2, <2>3 DEF Replaced
  <2>5. s \in SessionRecs /\ Folded(s, l)
    BY <1>9, <1>13, <2>1 DEF Kept
  <2>6. r \in SessionRecs /\ Folded(r, m)
    BY <1>8, <1>13, <2>1, <2>5, ApplyIsFolded
  <2>7. r.last = t
    BY <2>1, <2>5 DEF Apply, SessionRecs
  <2>8. Kept(r, m, st.clock)
    BY <1>1, <1>8, <2>6, <2>7 DEF Kept
  <2> QED
    BY <2>4, <2>8, ReplacedIsSound
<1>14. CASE /\ s # NoSession /\ t >= s.last /\ ~WithinGap(s, t)
            /\ st' = [in EXCEPT !.emitted = {Emission(k)}, !.sessions[k] = Open(hb, t), !.log[k] = <<hb>>]
  <2>1. PICK r, m, out : r = Open(hb, t) /\ m = <<hb>> /\ out = {Emission(k)}
    OBVIOUS
  <2>2. st' = [algo |-> "sessionizer", clock |-> now, taken |-> st.taken + 1, dropped |-> st.dropped,
               sessions |-> [f EXCEPT ![k] = r], log |-> [g EXCEPT ![k] = m], emitted |-> out]
    BY <1>2, <1>5, <1>14, <2>1
  <2>3. PICK d \in Nat : d = st.dropped
    BY <1>2
  <2>4. Replaced(k, r, m, d, out)
    BY <1>1, <2>2, <2>3 DEF Replaced
  <2>5. Emission(k) \in Emissions /\ Truthful(Emission(k))
    <3>1. st.sessions[k] # NoSession
      BY <1>1, <1>3, <1>14
    <3> QED
      BY <3>1, EmissionIsTruthful
  <2>6. out \subseteq Emissions /\ \A x \in out : Truthful(x)
    BY <2>1, <2>5
  <2>7. Kept(r, m, st.clock)
    BY <1>1, <1>10, <2>1
  <2> QED
    BY <2>4, <2>6, <2>7, ReplacedIsSound
<1>15. CASE /\ ~(s # NoSession)
            /\ st' = [in EXCEPT !.sessions[k] = Open(hb, t), !.log[k] = <<hb>>]
  <2>1. PICK r, m : r = Open(hb, t) /\ m = <<hb>>
    OBVIOUS
  <2>2. st' = [algo |-> "sessionizer", clock |-> now, taken |-> st.taken + 1, dropped |-> st.dropped,
               sessions |-> [f EXCEPT ![k] = r], log |-> [g EXCEPT ![k] = m], emitted |-> {}]
    BY <1>2, <1>5, <1>15, <2>1
  <2>3. PICK d \in Nat : d = st.dropped
    BY <1>2
  <2>4. Replaced(k, r, m, d, {})
    BY <1>1, <2>2, <2>3 DEF Replaced
  <2>5. Kept(r, m, st.clock)
    BY <1>1, <1>10, <2>1
  <2> QED
    BY <2>4, <2>5, ReplacedIsSound
<1> QED
  BY <1>6, <1>12, <1>13, <1>14, <1>15

LEMMA CloseIsSound ==
    ASSUME SessionInv, NEW K, K \subseteq OpenKeys, Close(K)
    PROVE  SessionInv'
<1>1. PICK f, g, now, n, d : f = st.sessions /\ g = st.log /\ now = st.clock /\ n = st.taken /\ d = st.dropped
  OBVIOUS
<1>2. /\ f \in [SessionKeys -> SessionRecs \cup {NoSession}] /\ g \in [SessionKeys -> Seq(HeartbeatsTaken)]
      /\ now \in Nat /\ n \in Nat /\ d \in Nat
      /\ st = [algo |-> "sessionizer", clock |-> now, taken |-> n, dropped |-> d,
               sessions |-> f, log |-> g, emitted |-> st.emitted]
  BY <1>1 DEF SessionInv, SessionStates
<1>3. PICK f2, g2, out : /\ f2 = [k \in SessionKeys |-> IF k \in K THEN NoSession ELSE f[k]]
                         /\ g2 = [k \in SessionKeys |-> IF k \in K THEN <<>> ELSE g[k]]
                         /\ out = {Emission(k) : k \in K}
  OBVIOUS
<1>4. st' = [algo |-> "sessionizer", clock |-> now, taken |-> n, dropped |-> d,
             sessions |-> f2, log |-> g2, emitted |-> out]
  <2>1. st' = [st EXCEPT !.emitted = out, !.sessions = f2, !.log = g2]
    BY <1>1, <1>3 DEF Close
  <2>2. PICK past : past = st.emitted
    OBVIOUS
  <2>3. st = [algo |-> "sessionizer", clock |-> now, taken |-> n, dropped |-> d,
              sessions |-> f, log |-> g, emitted |-> past]
    BY <1>2, <2>2
  <2> QED
    BY <2>1, <2>3
<1>5. f2 \in [SessionKeys -> SessionRecs \cup {NoSession}]
  BY <1>2, <1>3
<1>6. g2 \in [SessionKeys -> Seq(HeartbeatsTaken)]
  BY <1>2, <1>3
<1>7. ASSUME NEW k \in K PROVE Emission(k) \in Emissions /\ Truthful(Emission(k))
  <2>1. k \in SessionKeys /\ st.sessions[k] # NoSession
    BY DEF OpenKeys
  <2> QED
    BY <2>1, EmissionIsTruthful
<1>8. out \subseteq Emissions /\ \A x \in out : Truthful(x)
  BY <1>3, <1>7
<1>9. st' \in SessionStates
  <2>1. out \in SUBSET Emissions
    BY <1>8
  <2> QED
    BY <1>2, <1>4, <1>5, <1>6, <2>1 DEF SessionStates
<1>10. st'.clock = now /\ st'.sessions = f2 /\ st'.log = g2 /\ st'.emitted = out
  BY <1>4
<1>11. ASSUME NEW k \in SessionKeys, f2[k] # NoSession PROVE Kept(f2[k], g2[k], now)
  <2>1. f2[k] = f[k] /\ g2[k] = g[k]
    BY <1>3, <1>11
  <2>2. f[k] # NoSession => Kept(f[k], g[k], now)
    BY <1>1 DEF SessionInv
  <2> QED
    BY <1>11, <2>1, <2>2
<1> QED
  BY <1>8, <1>9, <1>10, <1>11 DEF SessionInv

LEMMA TickIsSound ==
    ASSUME SessionInv, Tick
    PROVE  SessionInv'
<1>1. PICK f, g, now, n, d : f = st.sessions /\ g = st.log /\ now = st.clock /\ n = st.taken /\ d = st.dropped
  OBVIOUS
<1>2. /\ f \in [SessionKeys -> SessionRecs \cup {NoSession}] /\ g \in [SessionKeys -> Seq(HeartbeatsTaken)]
      /\ now \in Nat /\ n \in Nat /\ d \in Nat
      /\ st = [algo |-> "sessionizer", clock |-> now, taken |-> n, dropped |-> d,
               sessions |-> f, log |-> g, emitted |-> st.emitted]
  BY <1>1 DEF SessionInv, SessionStates
<1>3. st' = [algo |-> "sessionizer", clock |-> now + 1, taken |-> n, dropped |-> d,
             sessions |-> f, log |-> g, emitted |-> {}]
  <2>1. st' = [st EXCEPT !.clock = now + 1, !.emitted = {}]
    BY <1>1 DEF Tick
  <2>2. PICK past : past = st.emitted
    OBVIOUS
  <2>3. st = [algo |-> "sessionizer", clock |-> now, taken |-> n, dropped |-> d,
              sessions |-> f, log |-> g, emitted |-> past]
    BY <1>2, <2>2
  <2> QED
    BY <2>1, <2>3
<1>4. st' \in SessionStates
  <2>1. now + 1 \in Nat /\ {} \in SUBSET Emissions
    BY <1>2
  <2> QED
    BY <1>2, <1>3, <2>1 DEF SessionStates
<1>5. st'.clock = now + 1 /\ st'.sessions = f /\ st'.log = g /\ st'.emitted = {}
  BY <1>3
<1>6. ASSUME NEW k \in SessionKeys, f[k] # NoSession PROVE Kept(f[k], g[k], now + 1)
  <2>1. Kept(f[k], g[k], now)
    BY <1>1, <1>6 DEF SessionInv
  <2> QED
    BY <1>2, <2>1, KeptLater
<1> QED
  BY <1>4, <1>5, <1>6 DEF SessionInv

LEMMA SessionStarts ==
    ASSUME SessionInit
    PROVE  SessionInv
<1>1. PICK f, g : f = [k \in SessionKeys |-> NoSession] /\ g = [k \in SessionKeys |-> <<>>]
  OBVIOUS
<1>2. st = [algo |-> "sessionizer", clock |-> 0, taken |-> 0, dropped |-> 0,
            sessions |-> f, log |-> g, emitted |-> {}]
  BY <1>1 DEF SessionInit
<1>3. f \in [SessionKeys -> SessionRecs \cup {NoSession}] /\ g \in [SessionKeys -> Seq(HeartbeatsTaken)]
  BY <1>1
<1>4. st \in SessionStates
  BY <1>2, <1>3 DEF SessionStates
<1>5. st.emitted = {} /\ \A k \in SessionKeys : st.sessions[k] = NoSession
  BY <1>1, <1>2
<1> QED
  BY <1>4, <1>5 DEF SessionInv

LEMMA SessionStep ==
    ASSUME SessionInv, SessionNext
    PROVE  SessionInv'
<1>1. CASE \E k \in SessionKeys, h \in Heartbeats, t \in -Day .. MaxClock + Day : Ingest(k, h, t)
  BY <1>1, IngestIsSound
<1>2. CASE flush_expired
  <2>1. PICK K : K = {k \in OpenKeys : st.sessions[k].last < st.clock - Gap}
    OBVIOUS
  <2>2. K \subseteq OpenKeys /\ Close(K)
    BY <1>2, <2>1 DEF flush_expired
  <2> QED
    BY <2>2, CloseIsSound
<1>3. CASE drain
  <2>1. PICK K : K = OpenKeys
    OBVIOUS
  <2>2. K \subseteq OpenKeys /\ Close(K)
    BY <1>3, <2>1 DEF drain
  <2> QED
    BY <2>2, CloseIsSound
<1>4. CASE Tick
  BY <1>4, TickIsSound
<1> QED
  BY <1>1, <1>2, <1>3, <1>4 DEF SessionNext

LEMMA FinalizeFields ==
    ASSUME NEW s
    PROVE  /\ Finalize(s).timestamp = s.last
           /\ Finalize(s).given = {"event_id", "session_id", "content_id", "user_id"}
BY DEF Finalize

\* What the invariant says of an emitted event.
LEMMA TruthfulPasses ==
    ASSUME NEW x \in Emissions, Truthful(x)
    PROVE  \/ validate_qoe_event(x.event, x.at) = "ok"
           \/ /\ x.event.timestamp < x.at - Day
              /\ validate_playback_metrics(x.event.metrics) = "ok"
<1>1. PICK s : Kept(s, x.log, x.at) /\ x.event = Finalize(s)
  BY DEF Truthful
<1>2. PICK e, m, now, l : e = x.event /\ m = e.metrics /\ now = x.at /\ l = x.log
  OBVIOUS
<1>3. now \in Nat /\ s \in SessionRecs /\ Folded(s, l) /\ s.last <= now + Day
  BY <1>1, <1>2 DEF Emissions, Kept
<1>4. validate_playback_metrics(m) = "ok"
  BY <1>1, <1>2, <1>3, ReportPasses
<1>5. e.timestamp = s.last /\ e.given = {"event_id", "session_id", "content_id", "user_id"}
  BY <1>1, <1>2, FinalizeFields, Zenon
<1>6. s.last \in Int
  BY <1>3 DEF SessionRecs
<1>7. CASE s.last < now - Day
  BY <1>2, <1>4, <1>5, <1>7
<1>8. CASE ~(s.last < now - Day)
  <2>1. PICK c : c = <<validate_required(e, {"event_id", "session_id", "content_id", "user_id"}),
                       require_timestamp(e.timestamp, now), validate_playback_metrics(e.metrics)>>
    OBVIOUS
  <2>2. validate_qoe_event(e, now) = FirstFailure(c)
    BY <2>1 DEF validate_qoe_event
  <2>3. validate_required(e, {"event_id", "session_id", "content_id", "user_id"}) = "ok"
    BY <1>5 DEF validate_required
  <2>4. require_timestamp(e.timestamp, now) = "ok"
    <3>1. Day \in Nat
      BY LimitsAreNumbers
    <3>2. s.last >= now - Day
      BY <1>3, <1>6, <1>8, <3>1
    <3>3. require_timestamp(s.last, now) = "ok"
      BY <1>3, <1>6, <3>2, TimestampPasses
    <3> QED
      BY <1>5, <3>3
  <2>5. Len(c) = 3
    BY <2>1
  <2>6. c[1] = "ok" /\ c[2] = "ok" /\ c[3] = "ok"
    BY <1>2, <1>4, <2>1, <2>3, <2>4
  <2>7. \A i \in 1 .. Len(c) : c[i] = "ok"
    BY <2>5, <2>6
  <2>8. FirstFailure(c) = "ok"
    BY <2>7, PassesAll
  <2> QED
    BY <1>2, <2>2, <2>8
<1> QED
  BY <1>7, <1>8

LEMMA TruthfulAgrees ==
    ASSUME NEW x, Truthful(x), NEW l, NEW m, l = x.log, m = x.event.metrics
    PROVE  InOrder(l) /\ Agrees(m, l)
<1>1. PICK s : Kept(s, x.log, x.at) /\ x.event = Finalize(s)
  BY DEF Truthful
<1>2. s \in SessionRecs /\ Folded(s, l) /\ m = Finalize(s).metrics
  BY <1>1 DEF Kept
<1>3. InOrder(l)
  BY <1>2 DEF Folded
<1>4. Agrees(m, l)
  BY <1>2, ReportAgrees
<1> QED
  BY <1>3, <1>4

LEMMA SessionIsSound ==
    ASSUME SessionInv
    PROVE  IngestionIsSound
<1>1. st.algo = "sessionizer" /\ st.emitted \subseteq Emissions /\ \A x \in st.emitted : Truthful(x)
  BY DEF SessionInv, SessionStates
<1>2. EmittedPassesValidation
  <2> SUFFICES ASSUME NEW x \in st.emitted
               PROVE  \/ validate_qoe_event(x.event, x.at) = "ok"
                      \/ /\ x.event.timestamp < x.at - Day
                         /\ validate_playback_metrics(x.event.metrics) = "ok"
    BY DEF EmittedPassesValidation
  <2>1. x \in Emissions /\ Truthful(x)
    BY <1>1
  <2> QED
    BY <2>1, TruthfulPasses
<1>3. EmittedIsItsHeartbeats
  <2> SUFFICES ASSUME NEW x \in st.emitted, NEW l, NEW m, l = x.log, m = x.event.metrics
               PROVE  /\ \A i \in 1 .. Len(l) - 1 : l[i + 1].timestamp - l[i].timestamp \in 0 .. Gap
                      /\ m.rebuffer_count = AtMost(Cardinality(Rising(l)), Limit["count"])
                      /\ m.avg_bitrate = SumOf([i \in 1 .. Len(l) |-> l[i].bitrate]) \div Len(l)
                      /\ m.peak_height = Greatest({l[i].height : i \in 1 .. Len(l)})
                      /\ m.ebvs_detected <=> \A i \in 1 .. Len(l) : l[i].is_startup
    BY Zenon DEF EmittedIsItsHeartbeats
  <2>1. Truthful(x)
    BY <1>1
  <2>2. InOrder(l) /\ Agrees(m, l)
    BY <2>1, TruthfulAgrees
  <2> QED
    BY <2>2, Zenon DEF InOrder, Agrees, Bitrates
<1>4. ValidatedIsUsable
  BY <1>1 DEF ValidatedIsUsable, Running
<1> QED
  BY <1>2, <1>3, <1>4 DEF IngestionIsSound

\* The single events of the validation cases never change.
IngestionInv == SessionInv \/ (Running("validation") /\ ValidatedIsUsable)

\* What the ingestion side sends to Kafka can be used (validation.rs,
\* sessionization.rs): nothing unusable passes the checks, and every QoE event a
\* gap, a sweep or the shutdown closes a session with is what the session's
\* heartbeats say and itself passes them, however many heartbeats of however
\* many viewers arrive, in whatever order, and whatever the gap and the limits.
THEOREM IngestionSound == IngestionSpec => []IngestionIsSound
<1>1. (SessionInit \/ ValidationInit) => IngestionInv
  <2>1. ASSUME SessionInit PROVE IngestionInv
    BY <2>1, SessionStarts DEF IngestionInv
  <2>2. ASSUME ValidationInit PROVE IngestionInv
    <3>0. PICK e : st = [algo |-> "validation", event |-> e]
      BY <2>2, Zenon DEF ValidationInit
    <3>1. Running("validation")
      BY <3>0 DEF Running
    <3> QED
      BY <2>2, <3>1, ValidationIsUsable DEF IngestionInv
  <2> QED
    BY <2>1, <2>2
<1>2. IngestionInv /\ [SessionNext]_st => IngestionInv'
  <2> SUFFICES ASSUME IngestionInv, [SessionNext]_st PROVE IngestionInv'
    OBVIOUS
  <2>1. CASE SessionNext
    <3>1. st.algo = "sessionizer"
      BY <2>1 DEF SessionNext, Running
    <3>2. SessionInv
      BY <3>1 DEF IngestionInv, Running
    <3> QED
      BY <2>1, <3>2, SessionStep DEF IngestionInv
  <2>2. CASE UNCHANGED st
    <3>1. SessionInv => SessionInv'
      BY <2>2 DEF SessionInv
    <3>2. ValidatedIsUsable => ValidatedIsUsable'
      BY <2>2 DEF ValidatedIsUsable, Running, Verdicts
    <3>3. Running("validation") => Running("validation")'
      BY <2>2 DEF Running
    <3> QED
      BY <3>1, <3>2, <3>3 DEF IngestionInv
  <2> QED
    BY <2>1, <2>2
<1>3. IngestionInv => IngestionIsSound
  <2>1. ASSUME Running("validation"), ValidatedIsUsable PROVE IngestionIsSound
    <3>1. ~Running("sessionizer")
      BY <2>1 DEF Running
    <3> QED
      BY <2>1, <3>1 DEF IngestionIsSound, EmittedPassesValidation, EmittedIsItsHeartbeats
  <2> QED
    BY <2>1, SessionIsSound DEF IngestionInv
<1> QED
  BY <1>1, <1>2, <1>3, PTL DEF IngestionSpec
=============================================================================
