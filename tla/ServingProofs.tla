--------------------------- MODULE ServingProofs ---------------------------
(***************************************************************************)
(* What users are served.  M1's assignments, for any configurations, hash  *)
(* and answers of M4b, and what M5 asks of an experiment before it starts. *)
(* M7 for any flags, requests, tables and experiments, and any number of   *)
(* failures and restarts: whatever the handlers, the operator, the pass    *)
(* and the consumer do to a flag between each other's steps, its answers   *)
(* stay consistent.  The tool that migrates CUSTOM metrics, for any        *)
(* metrics, tables of the translators, faults and answers of M3 and M5.    *)
(* The first sections are about least elements, sums and checks in a row,  *)
(* which the proofs of other algorithms use too.                           *)
(***************************************************************************)
EXTENDS FeatureFlags, ExperimentTypes, CustomMigrator, TLAPS, FiniteSetTheorems, SequenceTheorems, WellFoundedInduction

-----------------------------------------------------------------------------
(* Least elements and sums.                                                *)

\* A nonempty set of naturals has a least element.
LEMMA LeastElement ==
    ASSUME NEW T, T \subseteq Nat, T # {}
    PROVE  \E m \in T : \A x \in T : m <= x
<1>1. PICK m \in T : \A x \in T : ~(<<x, m>> \in OpToRel(<, Nat))
  BY NatLessThanWellFounded, WFMin
<1>2. \A x \in T : ~(x < m)
  BY <1>1 DEF OpToRel
<1> QED
  BY <1>2

LEMMA LeastIsLeast ==
    ASSUME NEW T, T \subseteq Nat, T # {}
    PROVE  Least(T) \in T /\ \A x \in T : Least(T) <= x
<1>1. \E m \in T : \A x \in T : m <= x
  BY LeastElement
<1> QED
  BY <1>1 DEF Least

\* Whatever a set of naturals contains zero and the successors of is Nat:
\* induction, as the absence of a least counterexample.
LEMMA Induction ==
    ASSUME NEW T, 0 \in T, \A n \in Nat : n \in T => n + 1 \in T
    PROVE  \A n \in Nat : n \in T
<1> SUFFICES ASSUME NEW n \in Nat, n \notin T PROVE FALSE
  OBVIOUS
<1>1. PICK m \in Nat \ T : \A x \in Nat \ T : m <= x
  <2>1. Nat \ T \subseteq Nat /\ Nat \ T # {}
    OBVIOUS
  <2> QED
    BY <2>1, LeastElement
<1>2. m # 0 /\ m - 1 \in Nat
  BY <1>1
<1>3. m - 1 \in T
  BY <1>1, <1>2
<1>4. (m - 1) + 1 \in T /\ (m - 1) + 1 = m
  BY <1>1, <1>2, <1>3
<1> QED
  BY <1>1, <1>4

\* The partial sums of a sequence exist.
Sums(s, f) == f = [i \in 0 .. Len(s) |-> IF i = 0 THEN 0 ELSE f[i - 1] + s[i]]

LEMMA SumExists ==
    ASSUME NEW s \in Seq(Nat)
    PROVE  \E f \in [0 .. Len(s) -> Nat] : Sums(s, f)
<1> DEFINE P(n) == n <= Len(s) => \E f \in [0 .. n -> Nat] : f[0] = 0 /\ \A i \in 1 .. n : f[i] = f[i - 1] + s[i]
           T == {n \in Nat : P(n)}
<1>0. Len(s) \in Nat
  OBVIOUS
<1>1. 0 \in T
  <2>1. [i \in 0 .. 0 |-> 0] \in [0 .. 0 -> Nat] /\ [i \in 0 .. 0 |-> 0][0] = 0
    OBVIOUS
  <2>2. \A i \in 1 .. 0 : FALSE
    OBVIOUS
  <2> QED
    BY <2>1, <2>2
<1>2. ASSUME NEW n \in Nat, n \in T PROVE n + 1 \in T
  <2>0. P(n)
    BY <1>2
  <2> HIDE DEF P
  <2> SUFFICES P(n + 1)
    OBVIOUS
  <2> USE DEF P
  <2> SUFFICES ASSUME n + 1 <= Len(s)
               PROVE  \E g \in [0 .. n + 1 -> Nat] : g[0] = 0 /\ \A i \in 1 .. n + 1 : g[i] = g[i - 1] + s[i]
    OBVIOUS
  <2>1. PICK f \in [0 .. n -> Nat] : f[0] = 0 /\ \A i \in 1 .. n : f[i] = f[i - 1] + s[i]
    <3>1. n <= Len(s)
      BY <1>0
    <3> QED
      BY <2>0, <3>1, Zenon
  <2>2. PICK g : g = [i \in 0 .. n + 1 |-> IF i = n + 1 THEN f[n] + s[n + 1] ELSE f[i]]
    OBVIOUS
  <2>3. s[n + 1] \in Nat /\ f[n] \in Nat
    BY <1>0
  <2>4. g \in [0 .. n + 1 -> Nat] /\ g[0] = 0
    BY <2>1, <2>2, <2>3
  <2>5. ASSUME NEW i \in 1 .. n + 1 PROVE g[i] = g[i - 1] + s[i]
    <3>1. CASE i = n + 1
      BY <2>2, <3>1
    <3>2. CASE i # n + 1
      <4>1. i \in 1 .. n /\ g[i] = f[i] /\ g[i - 1] = f[i - 1]
        BY <2>2, <3>2
      <4> QED
        BY <2>1, <4>1
    <3> QED
      BY <3>1, <3>2
  <2> QED
    BY <2>4, <2>5
<1>3. Len(s) \in T
  <2> HIDE DEF T
  <2> QED BY <1>0, <1>1, <1>2, Induction
<1>4. PICK f \in [0 .. Len(s) -> Nat] : f[0] = 0 /\ \A i \in 1 .. Len(s) : f[i] = f[i - 1] + s[i]
  BY <1>0, <1>3
<1>5. \A i \in 0 .. Len(s) : f[i] = IF i = 0 THEN 0 ELSE f[i - 1] + s[i]
  BY <1>0, <1>4
<1>6. Sums(s, f)
  BY <1>5 DEF Sums
<1> QED
  BY <1>6

SummedBy(s, f) ==
    /\ SumOf(s) = f[Len(s)] /\ f[0] = 0
    /\ \A i \in 0 .. Len(s) : f[i] \in Nat
    /\ \A i \in 1 .. Len(s) : f[i] = f[i - 1] + s[i]

LEMMA SumSteps ==
    ASSUME NEW s \in Seq(Nat)
    PROVE  \E f : SummedBy(s, f)
<1> DEFINE sum == CHOOSE f : Sums(s, f)
<1>0. Len(s) \in Nat
  OBVIOUS
<1>1. Sums(s, sum)
  BY SumExists
<1>2. SumOf(s) = sum[Len(s)]
  BY DEF SumOf, Sums
<1> HIDE DEF sum
<1>3. \A i \in 0 .. Len(s) : sum[i] = IF i = 0 THEN 0 ELSE sum[i - 1] + s[i]
  BY <1>1 DEF Sums
<1>4. sum[0] = 0 /\ \A i \in 1 .. Len(s) : sum[i] = sum[i - 1] + s[i]
  BY <1>0, <1>3
<1> DEFINE T == {n \in Nat : n <= Len(s) => sum[n] \in Nat}
<1>5. 0 \in T
  BY <1>4
<1>6. ASSUME NEW n \in Nat, n \in T PROVE n + 1 \in T
  <2> SUFFICES ASSUME n + 1 <= Len(s) PROVE sum[n + 1] \in Nat
    OBVIOUS
  <2>1. sum[n] \in Nat /\ s[n + 1] \in Nat
    BY <1>0, <1>6
  <2>2. n + 1 \in 1 .. Len(s) /\ (n + 1) - 1 = n
    BY <1>0
  <2>3. sum[n + 1] = sum[n] + s[n + 1]
    BY <1>4, <2>2
  <2> QED
    BY <2>1, <2>3
<1>7. \A n \in Nat : n \in T
  <2> HIDE DEF T
  <2> QED BY <1>5, <1>6, Induction
<1>8. \A i \in 0 .. Len(s) : sum[i] \in Nat
  BY <1>0, <1>7
<1>9. SummedBy(s, sum)
  BY <1>2, <1>4, <1>8 DEF SummedBy
<1> QED
  BY <1>9

\* The sum of naturals is a natural.
LEMMA SumOfNats ==
    ASSUME NEW s \in Seq(Nat)
    PROVE  SumOf(s) \in Nat
<1>1. PICK f : SummedBy(s, f)
  BY SumSteps
<1> QED
  BY <1>1 DEF SummedBy

LEMMA IntervalIsFinite ==
    ASSUME NEW n \in Nat
    PROVE  IsFiniteSet(1 .. n)
BY FS_Interval

-----------------------------------------------------------------------------
(* Checks in a row: the first that fails is the answer.                    *)

LEMMA PassesAll ==
    ASSUME NEW c, \A i \in 1 .. Len(c) : c[i] = "ok"
    PROVE  FirstFailure(c) = "ok"
<1>1. {i \in 1 .. Len(c) : c[i] # "ok"} = {}
  OBVIOUS
<1> QED
  BY <1>1 DEF FirstFailure

LEMMA FailsAt ==
    ASSUME NEW c, Len(c) \in Nat, NEW k \in 1 .. Len(c), c[k] # "ok", \A j \in 1 .. k - 1 : c[j] = "ok"
    PROVE  FirstFailure(c) = c[k]
<1>1. PICK bad : bad = {i \in 1 .. Len(c) : c[i] # "ok"}
  OBVIOUS
<1>2. bad \subseteq Nat /\ k \in bad
  BY <1>1
<1>3. Least(bad) \in bad /\ \A x \in bad : Least(bad) <= x
  BY <1>2, LeastIsLeast
<1>4. Least(bad) = k
  BY <1>1, <1>2, <1>3
<1>5. FirstFailure(c) = IF bad = {} THEN "ok" ELSE c[Least(bad)]
  BY <1>1 DEF FirstFailure
<1> QED
  BY <1>2, <1>4, <1>5

LEMMA AllPassed ==
    ASSUME NEW c, Len(c) \in Nat, FirstFailure(c) = "ok"
    PROVE  \A i \in 1 .. Len(c) : c[i] = "ok"
<1>1. PICK bad : bad = {i \in 1 .. Len(c) : c[i] # "ok"}
  OBVIOUS
<1>2. FirstFailure(c) = IF bad = {} THEN "ok" ELSE c[Least(bad)]
  BY <1>1 DEF FirstFailure
<1>3. bad = {}
  <2> SUFFICES ASSUME bad # {} PROVE FALSE
    OBVIOUS
  <2>1. bad \subseteq Nat
    BY <1>1
  <2>2. Least(bad) \in bad
    BY <2>1, LeastIsLeast
  <2> QED
    BY <1>1, <1>2, <2>2
<1> QED
  BY <1>1, <1>3

\* One more number at the end of a sequence adds that number to its sum.
LEMMA SumGrows ==
    ASSUME NEW s \in Seq(Nat), NEW t \in Seq(Nat), Len(t) = Len(s) + 1,
           \A i \in 1 .. Len(s) : t[i] = s[i]
    PROVE  SumOf(t) = SumOf(s) + t[Len(t)]
<1>0. PICK n \in Nat : n = Len(s) /\ Len(t) = n + 1
  OBVIOUS
<1>1. PICK f : SummedBy(s, f)
  BY SumSteps
<1>2. PICK g : SummedBy(t, g)
  BY SumSteps
<1>3. /\ SumOf(s) = f[n] /\ f[0] = 0
      /\ \A i \in 1 .. n : f[i] = f[i - 1] + s[i]
  BY <1>0, <1>1 DEF SummedBy
<1>4. /\ SumOf(t) = g[n + 1] /\ g[0] = 0
      /\ \A i \in 1 .. n + 1 : g[i] = g[i - 1] + t[i]
  BY <1>0, <1>2 DEF SummedBy
<1> DEFINE T == {k \in Nat : k <= n => f[k] = g[k]}
<1>5. 0 \in T
  BY <1>3, <1>4
<1>6. ASSUME NEW k \in Nat, k \in T PROVE k + 1 \in T
  <2> SUFFICES ASSUME k + 1 <= n PROVE f[k + 1] = g[k + 1]
    OBVIOUS
  <2>1. k + 1 \in 1 .. n /\ k + 1 \in 1 .. n + 1 /\ (k + 1) - 1 = k
    OBVIOUS
  <2>2. f[k] = g[k]
    BY <1>6
  <2>3. f[k + 1] = f[k] + s[k + 1] /\ g[k + 1] = g[k] + t[k + 1] /\ t[k + 1] = s[k + 1]
    <3>1. f[k + 1] = f[k] + s[k + 1]
      BY <1>3, <2>1
    <3>2. g[k + 1] = g[k] + t[k + 1]
      BY <1>4, <2>1
    <3>3. t[k + 1] = s[k + 1]
      BY <1>0, <2>1
    <3> QED
      BY <3>1, <3>2, <3>3
  <2> QED
    BY <2>2, <2>3
<1>7. n \in T
  <2> HIDE DEF T
  <2> QED BY <1>5, <1>6, Induction
<1>8. f[n] = g[n]
  BY <1>7
<1>9. n + 1 \in 1 .. n + 1 /\ (n + 1) - 1 = n
  OBVIOUS
<1>10. g[n + 1] = g[n] + t[n + 1]
  BY <1>4, <1>9
<1> QED
  BY <1>0, <1>3, <1>4, <1>8, <1>10

-----------------------------------------------------------------------------
(* Assignment: the batch.                                                  *)

LEMMA ResponseFields ==
    ASSUME NEW e, NEW v, NEW a
    PROVE  /\ Response(e, v, a).experiment = e /\ Response(e, v, a).variant = v
           /\ Response(e, v, a).status = "ok"
BY DEF Response

About(r, e) == r.experiment = e

LEMMA ResponseIsAbout ==
    ASSUME NEW e, NEW v, NEW a, NEW r, r = Response(e, v, a)
    PROVE  About(r, e)
BY DEF Response, About

LEMMA ErrorIsAbout ==
    ASSUME NEW e, NEW code, NEW r, r = Error(e, code)
    PROVE  About(r, e)
BY DEF Error, About

\* Every answer is about the experiment that was asked for.
LEMMA AnswersAreAbout ==
    ASSUME NEW c, NEW e, NEW q, NEW hash, NEW client, NEW r \in assign(c, e, q, hash, client)
    PROVE  About(r, e)
<1>0. ASSUME NEW arms, r \in select_arm_uniform(e, arms) PROVE About(r, e)
  <2>1. r = Error(e, "failed_precondition") \/ \E a \in arms : r = Response(e, a, TRUE)
    BY <1>0, Zenon DEF select_arm_uniform
  <2> QED
    BY <2>1, ResponseIsAbout, ErrorIsAbout, Zenon
<1>1. ASSUME NEW x, r \in assign_bandit(e, x, client) PROVE About(r, e)
  <2>1. \/ r = Error(e, "failed_precondition") \/ \E a \in select_arm(client) : r = Response(e, a, TRUE)
        \/ r \in select_arm_uniform(e, x.arms)
    BY <1>1, Zenon DEF assign_bandit
  <2> QED
    BY <1>0, <2>1, ResponseIsAbout, ErrorIsAbout, Zenon
<1>2. ASSUME NEW x, NEW v, r \in assign_meta(e, x, v, client) PROVE About(r, e)
  <2>1. \/ r = Error(e, "failed_precondition") \/ \E a \in select_arm(client) : r = Response(e, a, TRUE)
        \/ r \in select_arm_uniform(e, x.arms)
    BY <1>2, Zenon DEF assign_meta
  <2> QED
    BY <1>0, <2>1, ResponseIsAbout, ErrorIsAbout, Zenon
<1>3. ASSUME NEW x, r = assign_switchback(e, x, q) PROVE About(r, e)
  BY <1>3 DEF assign_switchback, Response, Error, About
<1>4. ASSUME NEW x, r \in Bucketed(e, x, q, hash, client) PROVE About(r, e)
  <2>1. PICK b, v : b = Bucket(hash, HashInput(x, q), x.salt) /\ v = select_variant(x, b)
    OBVIOUS
  <2>2. \/ r = Error(e, "invalid_argument") \/ r = Response(e, "", TRUE)
        \/ r \in assign_meta(e, x, v, client) \/ r = Response(e, v.id, TRUE)
    BY <1>4, <2>1, Zenon DEF Bucketed
  <2> QED
    BY <1>2, <2>2, ResponseIsAbout, ErrorIsAbout, Zenon
<1>5. CASE e \notin DOMAIN c
  <2>1. r = Error(e, "not_found")
    BY <1>5, Zenon DEF assign
  <2> QED
    BY <2>1, ErrorIsAbout, Zenon
<1>6. CASE e \in DOMAIN c
  <2>1. PICK x : x = c[e]
    OBVIOUS
  <2>2. \/ r = Response(e, "", FALSE) \/ r = Response(e, "", TRUE) \/ r = Error(e, "internal")
        \/ r \in assign_bandit(e, x, client) \/ r = assign_switchback(e, x, q)
        \/ r \in Bucketed(e, x, q, hash, client)
    BY <1>6, <2>1, Zenon DEF assign
  <2> QED
    BY <1>1, <1>3, <1>4, <2>2, ResponseIsAbout, ErrorIsAbout, Zenon
<1> QED
  BY <1>5, <1>6, Zenon

\* What the configuration still has is the snapshot's, up to the state.
SameButState(c, d) ==
    \A e \in DOMAIN c : e \in DOMAIN d /\ DOMAIN c[e] = ExperimentFields
                        /\ \A f \in ExperimentFields : f # "state" => c[e][f] = d[e][f]

Batches ==
    [algo : {"assignment"}, config : {st.config}, hash : {st.hash}, client : {st.client},
     query : {st.query}, snapshot : Configs, holdouts : {st.holdouts}, regular : {st.regular},
     claimed : {st.claimed}, answers : {st.answers}, updates : {st.updates}]

\* Whether holdout h took the user out, judging by the answers A.
TookOut(A, h) ==
    \/ \E r \in A : r.experiment = h /\ r.variant # ""
    \/ \A r \in A : r.experiment # h

\* Of the snapshot d, the holdouts H and the regular experiments R are still
\* to be evaluated; the layers L are claimed and the answers A are given.
Excluded(d, H, R, L, A) ==
    /\ H \subseteq Queue(d, TRUE) /\ R \subseteq Queue(d, FALSE)
    /\ \A h \in H : \A r \in A : r.experiment # h
    /\ \A h \in Queue(d, TRUE) \ H : TookOut(A, h) => d[h].layer \in L
    /\ \A r \in A : r.experiment \in Queue(d, FALSE) => H = {} /\ d[r.experiment].layer \notin L

BatchInv ==
    /\ st \in Batches /\ SameButState(st.config, st.snapshot)
    /\ \E u, s : st.query = [user |-> u, session |-> s, attributes |-> <<>>, now |-> 3, cluster |-> ""]
    /\ Excluded(st.snapshot, st.holdouts, st.regular, st.claimed, st.answers)

LEMMA BatchStarts ==
    ASSUME AssignmentInit
    PROVE  BatchInv
<1>1. PICK c \in Configs, u \in Users, s \in Sessions, client \in BOOLEAN,
           hash \in [(Users \cup (Sessions \ {""})) \X Salts -> 0 .. Buckets - 1] :
        st = [algo |-> "assignment", config |-> c, hash |-> hash, client |-> client,
              query |-> [user |-> u, session |-> s, attributes |-> <<>>, now |-> 3, cluster |-> ""],
              snapshot |-> c, holdouts |-> Queue(c, TRUE), regular |-> Queue(c, FALSE),
              claimed |-> {}, answers |-> {}, updates |-> 0]
  BY Zenon DEF AssignmentInit
<1>2. PICK q, H, R : /\ q = [user |-> u, session |-> s, attributes |-> <<>>, now |-> 3, cluster |-> ""]
                     /\ H = Queue(c, TRUE) /\ R = Queue(c, FALSE)
  OBVIOUS
<1>3. st = [algo |-> "assignment", config |-> c, hash |-> hash, client |-> client, query |-> q,
            snapshot |-> c, holdouts |-> H, regular |-> R, claimed |-> {}, answers |-> {}, updates |-> 0]
  BY <1>1, <1>2, Zenon
<1>4. /\ st.config = c /\ st.snapshot = c /\ st.query = q /\ st.holdouts = H /\ st.regular = R
      /\ st.claimed = {} /\ st.answers = {}
  BY <1>3
<1>5. st \in Batches
  BY <1>3 DEF Batches
<1>6. SameButState(c, c)
  BY AssignmentAssumption DEF SameButState
<1>7. Excluded(c, H, R, {}, {})
  BY <1>2 DEF Excluded
<1> QED
  BY <1>2, <1>4, <1>5, <1>6, <1>7 DEF BatchInv

\* One state as a record.
LEMMA BatchRecord ==
    ASSUME BatchInv
    PROVE  st = [algo |-> "assignment", config |-> st.config, hash |-> st.hash, client |-> st.client,
                 query |-> st.query, snapshot |-> st.snapshot, holdouts |-> st.holdouts,
                 regular |-> st.regular, claimed |-> st.claimed, answers |-> st.answers,
                 updates |-> st.updates]
BY DEF BatchInv, Batches

\* What a step leaves of the batch.
Stepped(config, holdouts, regular, claimed, answers, updates) ==
    st' = [algo |-> "assignment", config |-> config, hash |-> st.hash, client |-> st.client,
           query |-> st.query, snapshot |-> st.snapshot, holdouts |-> holdouts, regular |-> regular,
           claimed |-> claimed, answers |-> answers, updates |-> updates]

LEMMA SteppedFields ==
    ASSUME BatchInv, NEW c, NEW H, NEW R, NEW L, NEW A, NEW n, Stepped(c, H, R, L, A, n)
    PROVE  /\ st'.config = c /\ st'.snapshot = st.snapshot /\ st'.query = st.query /\ st'.holdouts = H
           /\ st'.regular = R /\ st'.claimed = L /\ st'.answers = A
           /\ (st \in Batches)'
<1>1. /\ st'.config = c /\ st'.snapshot = st.snapshot /\ st'.query = st.query /\ st'.holdouts = H
      /\ st'.regular = R /\ st'.claimed = L /\ st'.answers = A /\ st'.hash = st.hash
      /\ st'.client = st.client /\ st'.updates = n /\ st'.algo = "assignment"
  BY DEF Stepped
<1>2. st.snapshot \in Configs
  BY DEF BatchInv, Batches
<1>3. PICK d : d = st.snapshot
  OBVIOUS
<1>4. st' = [algo |-> "assignment", config |-> st'.config, hash |-> st'.hash, client |-> st'.client,
             query |-> st'.query, snapshot |-> d, holdouts |-> st'.holdouts, regular |-> st'.regular,
             claimed |-> st'.claimed, answers |-> st'.answers, updates |-> st'.updates]
  BY <1>1, <1>3, Zenon DEF Stepped
<1>5. (st \in Batches)'
  BY <1>2, <1>3, <1>4 DEF Batches
<1> QED
  BY <1>1, <1>5

LEMMA HoldoutExcludes ==
    ASSUME NEW d, NEW H, NEW R, NEW L, NEW A, Excluded(d, H, R, L, A), NEW h \in H, NEW r, About(r, h),
           NEW M, NEW B, M = (IF Claims(r) THEN L \cup {d[h].layer} ELSE L),
           B = (IF r.status = "ok" THEN A \cup {r} ELSE A)
    PROVE  Excluded(d, H \ {h}, R, M, B)
<1>1. /\ H \subseteq Queue(d, TRUE) /\ R \subseteq Queue(d, FALSE)
      /\ \A g \in H : \A x \in A : x.experiment # g
      /\ \A g \in Queue(d, TRUE) \ H : TookOut(A, g) => d[g].layer \in L
      /\ \A x \in A : x.experiment \in Queue(d, FALSE) => H = {} /\ d[x.experiment].layer \notin L
  BY DEF Excluded
<1>2. r.experiment = h
  BY DEF About
<1>3. h \notin Queue(d, FALSE)
  BY <1>1 DEF Queue
<1>4. \A x \in B : x \in A \/ x = r
  OBVIOUS
<1>5. \A x \in B : x.experiment \notin Queue(d, FALSE)
  <2>1. \A x \in A : x.experiment \notin Queue(d, FALSE)
    BY <1>1
  <2> QED
    BY <1>2, <1>3, <1>4, <2>1
<1>6. ASSUME NEW g \in H \ {h}, NEW x \in B PROVE x.experiment # g
  BY <1>1, <1>2, <1>4
<1>7. ASSUME NEW g \in Queue(d, TRUE) \ (H \ {h}), TookOut(B, g) PROVE d[g].layer \in M
  <2>1. CASE g = h
    <3>1. Claims(r)
      <4>1. CASE r.status # "ok"
        BY <4>1 DEF Claims
      <4>2. CASE r.status = "ok"
        <5>1. r \in B
          BY <4>2
        <5>2. ~(\A x \in B : x.experiment # h)
          BY <1>2, <5>1
        <5>3. PICK x \in B : x.experiment = h /\ x.variant # ""
          BY <1>7, <2>1, <5>2 DEF TookOut
        <5>4. x = r
          BY <1>1, <1>4, <5>3
        <5> QED
          BY <5>3, <5>4 DEF Claims
      <4> QED
        BY <4>1, <4>2
    <3> QED
      BY <2>1, <3>1
  <2>2. CASE g # h
    <3>1. TookOut(A, g)
      <4>1. CASE \E x \in B : x.experiment = g /\ x.variant # ""
        BY <1>2, <1>4, <2>2, <4>1 DEF TookOut
      <4>2. CASE \A x \in B : x.experiment # g
        BY <4>2 DEF TookOut
      <4> QED
        BY <1>7, <4>1, <4>2 DEF TookOut
    <3>2. d[g].layer \in L
      BY <1>1, <2>2, <3>1
    <3> QED
      BY <3>2
  <2> QED
    BY <2>1, <2>2
<1> QED
  BY <1>1, <1>5, <1>6, <1>7 DEF Excluded

LEMMA RegularIsExcluded ==
    ASSUME NEW d, NEW R, NEW L, NEW A, Excluded(d, {}, R, L, A), NEW e \in R, NEW B,
           \/ B = A
           \/ d[e].layer \notin L /\ \E r : About(r, e) /\ B = A \cup {r}
    PROVE  Excluded(d, {}, R \ {e}, L, B)
<1>1. /\ R \subseteq Queue(d, FALSE)
      /\ \A g \in Queue(d, TRUE) : TookOut(A, g) => d[g].layer \in L
      /\ \A x \in A : x.experiment \in Queue(d, FALSE) => d[x.experiment].layer \notin L
  BY DEF Excluded
<1>2. CASE B = A
  BY <1>1, <1>2 DEF Excluded
<1>3. CASE d[e].layer \notin L /\ \E r : About(r, e) /\ B = A \cup {r}
  <2>1. PICK r : About(r, e) /\ B = A \cup {r}
    BY <1>3
  <2>2. r.experiment = e
    BY <2>1 DEF About
  <2>3. \A g \in Queue(d, TRUE) : e # g
    BY <1>1 DEF Queue
  <2>4. ASSUME NEW g \in Queue(d, TRUE), TookOut(B, g) PROVE TookOut(A, g)
    <3>1. CASE \E x \in B : x.experiment = g /\ x.variant # ""
      BY <2>1, <2>2, <2>3, <3>1 DEF TookOut
    <3>2. CASE \A x \in B : x.experiment # g
      BY <2>1, <3>2 DEF TookOut
    <3> QED
      BY <2>4, <3>1, <3>2 DEF TookOut
  <2>5. \A x \in B : x.experiment \in Queue(d, FALSE) => d[x.experiment].layer \notin L
    BY <1>1, <1>3, <2>1, <2>2
  <2> QED
    BY <1>1, <2>4, <2>5 DEF Excluded
<1> QED
  BY <1>2, <1>3

LEMMA BatchKept ==
    ASSUME BatchInv, NEW c, NEW H, NEW R, NEW L, NEW A, NEW n, Stepped(c, H, R, L, A, n),
           SameButState(c, st.snapshot), Excluded(st.snapshot, H, R, L, A)
    PROVE  BatchInv'
<1>1. /\ st'.config = c /\ st'.snapshot = st.snapshot /\ st'.query = st.query /\ st'.holdouts = H
      /\ st'.regular = R /\ st'.claimed = L /\ st'.answers = A /\ (st \in Batches)'
  BY SteppedFields
<1>2. \E u, s : st.query = [user |-> u, session |-> s, attributes |-> <<>>, now |-> 3, cluster |-> ""]
  BY DEF BatchInv
<1> QED
  BY <1>1, <1>2 DEF BatchInv

LEMMA UpdateKeeps ==
    ASSUME BatchInv, UpdateConfig
    PROVE  BatchInv'
<1>1. PICK c, h, cl, q, d, H, R, L, A, n :
        /\ c = st.config /\ h = st.hash /\ cl = st.client /\ q = st.query /\ d = st.snapshot
        /\ H = st.holdouts /\ R = st.regular /\ L = st.claimed /\ A = st.answers /\ n = st.updates
  OBVIOUS
<1>2. st = [algo |-> "assignment", config |-> c, hash |-> h, client |-> cl, query |-> q, snapshot |-> d,
            holdouts |-> H, regular |-> R, claimed |-> L, answers |-> A, updates |-> n]
  BY <1>1, BatchRecord, Zenon
<1>3. PICK e \in DOMAIN c :
        \/ st' = [st EXCEPT !.updates = @ + 1, !.config = [x \in DOMAIN @ \ {e} |-> @[x]]]
        \/ \E s \in {"RUNNING", "PAUSED"} \ {c[e].state} :
             st' = [st EXCEPT !.updates = @ + 1, !.config[e].state = s]
  BY <1>1, Zenon DEF UpdateConfig
<1>4. SameButState(c, d) /\ Excluded(d, H, R, L, A)
  BY <1>1 DEF BatchInv
<1>5. CASE st' = [st EXCEPT !.updates = @ + 1, !.config = [x \in DOMAIN @ \ {e} |-> @[x]]]
  <2>1. PICK b : b = [x \in DOMAIN c \ {e} |-> c[x]]
    OBVIOUS
  <2>2. st' = [algo |-> "assignment", config |-> b, hash |-> h, client |-> cl, query |-> q, snapshot |-> d,
               holdouts |-> H, regular |-> R, claimed |-> L, answers |-> A, updates |-> n + 1]
    BY <1>2, <1>5, <2>1
  <2>3. Stepped(b, H, R, L, A, n + 1)
    BY <1>1, <2>2, Zenon DEF Stepped
  <2>4. SameButState(b, d)
    BY <1>4, <2>1 DEF SameButState
  <2> QED
    BY <1>1, <1>4, <2>3, <2>4, BatchKept
<1>6. ASSUME NEW s, st' = [st EXCEPT !.updates = @ + 1, !.config[e].state = s] PROVE BatchInv'
  <2>1. PICK x, b : x = [c[e] EXCEPT !.state = s] /\ b = [c EXCEPT ![e] = x]
    OBVIOUS
  <2>2. st' = [algo |-> "assignment", config |-> b, hash |-> h, client |-> cl, query |-> q, snapshot |-> d,
               holdouts |-> H, regular |-> R, claimed |-> L, answers |-> A, updates |-> n + 1]
    BY <1>2, <1>6, <2>1
  <2>3. Stepped(b, H, R, L, A, n + 1)
    BY <1>1, <2>2, Zenon DEF Stepped
  <2>4. SameButState(b, d)
    <3>1. DOMAIN c[e] = ExperimentFields /\ \A f \in ExperimentFields : f # "state" => c[e][f] = d[e][f]
      BY <1>4 DEF SameButState
    <3>2. DOMAIN x = ExperimentFields /\ \A f \in ExperimentFields : f # "state" => x[f] = d[e][f]
      BY <2>1, <3>1
    <3>3. DOMAIN b = DOMAIN c /\ \A z \in DOMAIN c : b[z] = IF z = e THEN x ELSE c[z]
      BY <2>1
    <3> QED
      BY <1>4, <3>2, <3>3 DEF SameButState
  <2> QED
    BY <1>1, <1>4, <2>3, <2>4, BatchKept
<1> QED
  BY <1>3, <1>5, <1>6

LEMMA HoldoutKeeps ==
    ASSUME BatchInv, EvaluateHoldout
    PROVE  BatchInv'
<1>1. PICK c, h, cl, q, d, H, R, L, A, n :
        /\ c = st.config /\ h = st.hash /\ cl = st.client /\ q = st.query /\ d = st.snapshot
        /\ H = st.holdouts /\ R = st.regular /\ L = st.claimed /\ A = st.answers /\ n = st.updates
  OBVIOUS
<1>2. st = [algo |-> "assignment", config |-> c, hash |-> h, client |-> cl, query |-> q, snapshot |-> d,
            holdouts |-> H, regular |-> R, claimed |-> L, answers |-> A, updates |-> n]
  BY <1>1, BatchRecord, Zenon
<1>e. PICK e \in H : \E r \in assign(c, e, q, h, cl) :
        st' = [st EXCEPT !.holdouts = @ \ {e},
                         !.claimed = IF Claims(r) THEN @ \cup {d[e].layer} ELSE @,
                         !.answers = IF r.status = "ok" THEN @ \cup {r} ELSE @]
  BY <1>1, Zenon DEF EvaluateHoldout
<1>3. PICK r \in assign(c, e, q, h, cl) :
        st' = [st EXCEPT !.holdouts = @ \ {e},
                         !.claimed = IF Claims(r) THEN @ \cup {d[e].layer} ELSE @,
                         !.answers = IF r.status = "ok" THEN @ \cup {r} ELSE @]
  BY <1>e, Zenon
<1>4. SameButState(c, d) /\ Excluded(d, H, R, L, A)
  BY <1>1 DEF BatchInv
<1>5. PICK G, M, B : /\ G = H \ {e} /\ M = (IF Claims(r) THEN L \cup {d[e].layer} ELSE L)
                     /\ B = (IF r.status = "ok" THEN A \cup {r} ELSE A)
  OBVIOUS
<1>6. st' = [algo |-> "assignment", config |-> c, hash |-> h, client |-> cl, query |-> q, snapshot |-> d,
             holdouts |-> G, regular |-> R, claimed |-> M, answers |-> B, updates |-> n]
  BY <1>2, <1>3, <1>5
<1>7. Stepped(c, G, R, M, B, n)
  BY <1>1, <1>6, Zenon DEF Stepped
<1>8. About(r, e)
  BY AnswersAreAbout
<1>9. Excluded(d, G, R, M, B)
  BY <1>4, <1>5, <1>8, HoldoutExcludes
<1> QED
  BY <1>1, <1>4, <1>7, <1>9, BatchKept

LEMMA RegularKeeps ==
    ASSUME BatchInv, EvaluateRegular
    PROVE  BatchInv'
<1>1. PICK c, h, cl, q, d, H, R, L, A, n :
        /\ c = st.config /\ h = st.hash /\ cl = st.client /\ q = st.query /\ d = st.snapshot
        /\ H = st.holdouts /\ R = st.regular /\ L = st.claimed /\ A = st.answers /\ n = st.updates
  OBVIOUS
<1>2. st = [algo |-> "assignment", config |-> c, hash |-> h, client |-> cl, query |-> q, snapshot |-> d,
            holdouts |-> H, regular |-> R, claimed |-> L, answers |-> A, updates |-> n]
  BY <1>1, BatchRecord, Zenon
<1>3. H = {} /\ \E e \in R :
        \/ st' = [st EXCEPT !.regular = @ \ {e}]
        \/ /\ d[e].layer \notin L
           /\ \E r \in assign(c, e, q, h, cl) :
                st' = [st EXCEPT !.regular = @ \ {e}, !.answers = IF r.status = "ok" THEN @ \cup {r} ELSE @]
  BY <1>1, Zenon DEF EvaluateRegular
<1>4. SameButState(c, d) /\ Excluded(d, {}, R, L, A)
  BY <1>1, <1>3 DEF BatchInv
<1>5. PICK e \in R :
        \/ st' = [st EXCEPT !.regular = @ \ {e}]
        \/ /\ d[e].layer \notin L
           /\ \E r \in assign(c, e, q, h, cl) :
                st' = [st EXCEPT !.regular = @ \ {e}, !.answers = IF r.status = "ok" THEN @ \cup {r} ELSE @]
  BY <1>3, Zenon
<1>6. PICK Q : Q = R \ {e}
  OBVIOUS
<1>7. ASSUME NEW B, \/ B = A
                    \/ d[e].layer \notin L /\ \E r : About(r, e) /\ B = A \cup {r},
             st' = [algo |-> "assignment", config |-> c, hash |-> h, client |-> cl, query |-> q, snapshot |-> d,
                    holdouts |-> H, regular |-> Q, claimed |-> L, answers |-> B, updates |-> n]
      PROVE  BatchInv'
  <2>1. Stepped(c, H, Q, L, B, n)
    BY <1>1, <1>7, Zenon DEF Stepped
  <2>2. Excluded(d, {}, Q, L, B)
    BY <1>4, <1>6, <1>7, RegularIsExcluded
  <2>3. SameButState(c, st.snapshot) /\ Excluded(st.snapshot, H, Q, L, B)
    BY <1>1, <1>3, <1>4, <2>2, Zenon
  <2> QED
    BY <2>1, <2>3, BatchKept
<1>8. CASE st' = [st EXCEPT !.regular = @ \ {e}]
  <2>1. st' = [algo |-> "assignment", config |-> c, hash |-> h, client |-> cl, query |-> q, snapshot |-> d,
               holdouts |-> H, regular |-> Q, claimed |-> L, answers |-> A, updates |-> n]
    BY <1>2, <1>6, <1>8
  <2> QED
    BY <1>7, <2>1
<1>9. ASSUME d[e].layer \notin L, NEW r \in assign(c, e, q, h, cl),
             st' = [st EXCEPT !.regular = @ \ {e}, !.answers = IF r.status = "ok" THEN @ \cup {r} ELSE @]
      PROVE  BatchInv'
  <2>1. PICK B : B = (IF r.status = "ok" THEN A \cup {r} ELSE A)
    OBVIOUS
  <2>2. st' = [algo |-> "assignment", config |-> c, hash |-> h, client |-> cl, query |-> q, snapshot |-> d,
               holdouts |-> H, regular |-> Q, claimed |-> L, answers |-> B, updates |-> n]
    BY <1>2, <1>6, <1>9, <2>1
  <2>3. About(r, e)
    BY AnswersAreAbout
  <2>4. B = A \/ (d[e].layer \notin L /\ \E x : About(x, e) /\ B = A \cup {x})
    BY <1>9, <2>1, <2>3
  <2> QED
    BY <1>7, <2>2, <2>4
<1> QED
  BY <1>5, <1>8, <1>9

\* A holdout leaks to nobody.
LEMMA BatchExcludes ==
    ASSUME BatchInv
    PROVE  HoldoutIsExclusive
<1>1. PICK d, H, R, L, A : /\ d = st.snapshot /\ H = st.holdouts /\ R = st.regular /\ L = st.claimed
                           /\ A = st.answers
  OBVIOUS
<1>2. /\ \A h \in Queue(d, TRUE) \ H : TookOut(A, h) => d[h].layer \in L
      /\ \A r \in A : r.experiment \in Queue(d, FALSE) => H = {} /\ d[r.experiment].layer \notin L
  BY <1>1 DEF BatchInv, Excluded
<1> QED
  BY <1>1, <1>2 DEF HoldoutIsExclusive, TookOut

-----------------------------------------------------------------------------
(* Assignment: targeting.                                                  *)

\* A predicate about a missing attribute does not match.
LEMMA MissingNeverMatches ==
    ASSUME NEW rule, NEW attributes, NEW g \in Elements(rule), g # <<>>,
           \A p \in Elements(g) : p.key \notin DOMAIN attributes
    PROVE  ~evaluate(rule, attributes)
<1>1. \A p \in Elements(g) : ~evaluate_predicate(p, attributes)
  BY DEF evaluate_predicate, AttributePresent
<1>2. ~evaluate_group(g, attributes)
  BY <1>1 DEF evaluate_group
<1> QED
  BY <1>2 DEF evaluate

Predicates ==
    [key : {"k", "m"}, operator : Operators, values : {s \in Seq(Operands) : Len(s) <= 2}]

\* Of an operator and its negation at most one matches.
LEMMA NegationsExclude ==
    ASSUME NEW p \in Predicates, NEW a, \A k \in DOMAIN a : a[k] \in Operands,
           NEW pair \in {<<"EQUALS", "NOT_EQUALS">>, <<"IN", "NOT_IN">>, <<"GT", "LTE">>, <<"LT", "GTE">>},
           evaluate_predicate([p EXCEPT !.operator = pair[1]], a),
           evaluate_predicate([p EXCEPT !.operator = pair[2]], a)
    PROVE  FALSE
<1>1. PICK key, values : key = p.key /\ values = p.values /\ values \in Seq(Operands)
  BY DEF Predicates
<1>2. PICK x, y : x = pair[1] /\ y = pair[2]
  OBVIOUS
<1>3. PICK r, s : r = [p EXCEPT !.operator = pair[1]] /\ s = [p EXCEPT !.operator = pair[2]]
  OBVIOUS
<1>4. r.key = key /\ r.values = values /\ r.operator = x /\ s.key = key /\ s.values = values /\ s.operator = y
  BY <1>1, <1>2, <1>3 DEF Predicates
<1>5. evaluate_predicate(r, a) /\ evaluate_predicate(s, a)
  BY <1>3, Zenon
<1>6. key \in DOMAIN a
  BY <1>4, <1>5 DEF evaluate_predicate, AttributePresent
<1>7. PICK v : v = a[key] /\ v \in Operands
  BY <1>6
<1>8. \/ x = "EQUALS" /\ y = "NOT_EQUALS"
      \/ x = "IN" /\ y = "NOT_IN"
      \/ x = "GT" /\ y = "LTE"
      \/ x = "LT" /\ y = "GTE"
  BY <1>2
<1>9. CASE x = "EQUALS" /\ y = "NOT_EQUALS"
  BY <1>4, <1>5, <1>6, <1>7, <1>9 DEF evaluate_predicate
<1>10. CASE x = "IN" /\ y = "NOT_IN"
  BY <1>4, <1>5, <1>6, <1>7, <1>10 DEF evaluate_predicate
<1>11. ASSUME CompareNumeric(v, values, Greater), CompareNumeric(v, values, LessOrEqual) PROVE FALSE
  <2>1. Head(values) \in Operands
    BY <1>1, <1>11 DEF CompareNumeric
  <2>2. PICK i, j : i = NumberOf[v] /\ j = NumberOf[Head(values)]
    OBVIOUS
  <2>3. i # NotANumber /\ j # NotANumber
    BY <1>11, <2>2 DEF CompareNumeric
  <2>4. i \in Int /\ j \in Int
    BY <1>7, <2>1, <2>2, <2>3, AssignmentAssumption DEF Operands
  <2> QED
    BY <1>11, <2>2, <2>4 DEF CompareNumeric, Greater, LessOrEqual
<1>12. ASSUME CompareNumeric(v, values, Less), CompareNumeric(v, values, GreaterOrEqual) PROVE FALSE
  <2>1. Head(values) \in Operands
    BY <1>1, <1>12 DEF CompareNumeric
  <2>2. PICK i, j : i = NumberOf[v] /\ j = NumberOf[Head(values)]
    OBVIOUS
  <2>3. i # NotANumber /\ j # NotANumber
    BY <1>12, <2>2 DEF CompareNumeric
  <2>4. i \in Int /\ j \in Int
    BY <1>7, <2>1, <2>2, <2>3, AssignmentAssumption DEF Operands
  <2> QED
    BY <1>12, <2>2, <2>4 DEF CompareNumeric, Less, GreaterOrEqual
<1>13. CASE x = "GT" /\ y = "LTE"
  <2>1. CompareNumeric(v, values, Greater)
    BY <1>4, <1>5, <1>6, <1>7, <1>13 DEF evaluate_predicate
  <2>2. CompareNumeric(v, values, LessOrEqual)
    BY <1>4, <1>5, <1>6, <1>7, <1>13 DEF evaluate_predicate
  <2> QED
    BY <1>11, <2>1, <2>2
<1>14. CASE x = "LT" /\ y = "GTE"
  <2>1. CompareNumeric(v, values, Less)
    BY <1>4, <1>5, <1>6, <1>7, <1>14 DEF evaluate_predicate
  <2>2. CompareNumeric(v, values, GreaterOrEqual)
    BY <1>4, <1>5, <1>6, <1>7, <1>14 DEF evaluate_predicate
  <2> QED
    BY <1>12, <2>1, <2>2
<1> QED
  BY <1>8, <1>9, <1>10, <1>13, <1>14

LEMMA TargetingIsClosed ==
    ASSUME TargetingInit
    PROVE  TargetingFailsClosed
<1>1. PICK k \in [1 .. 2 -> {"k", "m"}], o \in [1 .. 2 -> Operators], n \in 0 .. 2,
           v \in Operands, u \in Operands, split \in BOOLEAN, keys \in SUBSET {"k", "m"} :
        LET p(i) == [key |-> k[i], operator |-> o[i], values |-> SubSeq(<<v, u>>, 1, n)]
        IN  st = [algo |-> "targeting", attributes |-> [x \in keys |-> u],
                  rule |-> IF split THEN << <<p(1)>>, <<p(2)>> >> ELSE << <<p(1), p(2)>>, <<>> >>]
  BY Zenon DEF TargetingInit
<1>2. PICK s : s = SubSeq(<<v, u>>, 1, n)
  OBVIOUS
<1>3. s \in Seq(Operands) /\ Len(s) <= 2
  BY <1>2
<1>4. PICK p, q : /\ p = [key |-> k[1], operator |-> o[1], values |-> s]
                  /\ q = [key |-> k[2], operator |-> o[2], values |-> s]
  OBVIOUS
<1>5. p \in Predicates /\ q \in Predicates
  BY <1>3, <1>4 DEF Predicates
<1>6. PICK a, rule : /\ a = [x \in keys |-> u]
                     /\ rule = IF split THEN << <<p>>, <<q>> >> ELSE << <<p, q>>, <<>> >>
  OBVIOUS
<1>7. st = [algo |-> "targeting", attributes |-> a, rule |-> rule]
  BY <1>1, <1>2, <1>4, <1>6, Zenon
<1>8. st.attributes = a /\ st.rule = rule
  BY <1>7
<1>9. \A x \in DOMAIN a : a[x] \in Operands
  BY <1>6
<1>10. ASSUME NEW g \in Elements(rule), NEW x \in Elements(g) PROVE x \in Predicates
  <2>1. g = <<p>> \/ g = <<q>> \/ g = <<p, q>> \/ g = <<>>
    BY <1>6 DEF Elements
  <2>2. x = p \/ x = q
    BY <2>1 DEF Elements
  <2> QED
    BY <1>5, <2>2
<1>11. ASSUME NEW g \in Elements(rule), g # <<>>, \A x \in Elements(g) : x.key \notin DOMAIN a
       PROVE  ~evaluate(rule, a)
  BY <1>11, MissingNeverMatches
<1>12. ASSUME NEW g \in Elements(rule), NEW x \in Elements(g),
              NEW pair \in {<<"EQUALS", "NOT_EQUALS">>, <<"IN", "NOT_IN">>, <<"GT", "LTE">>, <<"LT", "GTE">>}
       PROVE  ~(/\ evaluate_predicate([x EXCEPT !.operator = pair[1]], a)
                /\ evaluate_predicate([x EXCEPT !.operator = pair[2]], a))
  <2>1. x \in Predicates
    BY <1>10
  <2> QED
    BY <1>9, <2>1, NegationsExclude
<1> QED
  BY <1>8, <1>11, <1>12, Zenon DEF TargetingFailsClosed

-----------------------------------------------------------------------------
(* Assignment: sessions.                                                   *)

LEMMA BatchSticks ==
    ASSUME BatchInv
    PROVE  SessionsAreSticky
<1>1. PICK c, hash, client, q : c = st.config /\ hash = st.hash /\ client = st.client /\ q = st.query
  OBVIOUS
<1>2. PICK u, z : q = [user |-> u, session |-> z, attributes |-> <<>>, now |-> 3, cluster |-> ""]
  BY <1>1 DEF BatchInv
<1>3. ASSUME NEW e \in DOMAIN c, c[e].type = "SESSION_LEVEL", ~c[e].cross_session,
             NEW s \in Sessions \ {""}, NEW t \in Sessions \ {""}
      PROVE  assign(c, e, [q EXCEPT !.session = s], hash, client)
               = assign(c, e, [q EXCEPT !.session = t], hash, client)
  <2>1. PICK x, q1, q2 : x = c[e] /\ q1 = [q EXCEPT !.session = s] /\ q2 = [q EXCEPT !.session = t]
    OBVIOUS
  <2>2. /\ q1.user = q2.user /\ q1.attributes = q2.attributes
        /\ q1.session # "" /\ q2.session # ""
    BY <1>2, <1>3, <2>1
  <2>3. x.type = "SESSION_LEVEL" /\ ~x.cross_session
    BY <1>3, <2>1
  <2>4. HashInput(x, q1) = HashInput(x, q2)
    BY <2>2, <2>3, Zenon DEF HashInput
  <2>5. Bucketed(e, x, q1, hash, client) = Bucketed(e, x, q2, hash, client)
    <3>1. PICK b, v : b = Bucket(hash, HashInput(x, q1), x.salt) /\ v = select_variant(x, b)
      OBVIOUS
    <3>2. b = Bucket(hash, HashInput(x, q2), x.salt)
      BY <2>4, <3>1, Zenon
    <3>3. PICK S : S = IF ~is_in_allocation(b, x) THEN {Response(e, "", TRUE)}
                       ELSE IF x.type = "META" THEN assign_meta(e, x, v, client) ELSE {Response(e, v.id, TRUE)}
      OBVIOUS
    <3>4. Bucketed(e, x, q1, hash, client) = S
      BY <2>2, <3>1, <3>3 DEF Bucketed
    <3>5. Bucketed(e, x, q2, hash, client) = S
      BY <2>2, <3>1, <3>2, <3>3 DEF Bucketed
    <3> QED
      BY <3>4, <3>5
  <2>6. ASSUME NEW r, r = q1 \/ r = q2
        PROVE  assign(c, e, r, hash, client)
                 = IF x.state # "RUNNING" THEN {Response(e, "", FALSE)}
                   ELSE IF x.targeting # None /\ ~evaluate(x.targeting, r.attributes)
                        THEN {Response(e, "", TRUE)}
                   ELSE IF x.layer = None THEN {Error(e, "internal")} ELSE Bucketed(e, x, r, hash, client)
    BY <2>1, <2>3 DEF assign
  <2> QED
    BY <2>1, <2>2, <2>5, <2>6, Zenon
<1> QED
  BY <1>1, <1>3, Zenon DEF SessionsAreSticky

-----------------------------------------------------------------------------
(* Division.                                                               *)

\* A multiple of m nearer to zero than m is zero.
LEMMA SmallMultiple ==
    ASSUME NEW a \in Int, NEW m \in Nat \ {0}, NEW p \in Int, p = a * m, -m < p, p < m
    PROVE  a = 0
<1>1. CASE a >= 1
  <2>1. a * m >= m
    <3>1. a - 1 \in Nat /\ (a - 1) * m >= 0
      BY <1>1
    <3>2. (a - 1) * m = a * m - m
      OBVIOUS
    <3> QED
      BY <3>1, <3>2
  <2> QED
    BY <2>1
<1>2. CASE a <= -1
  <2>1. a * m <= -m
    <3>1. (-1 - a) \in Nat /\ (-1 - a) * m >= 0
      BY <1>2
    <3>2. (-1 - a) * m = -m - a * m
      OBVIOUS
    <3> QED
      BY <3>1, <3>2
  <2> QED
    BY <2>1
<1> QED
  BY <1>1, <1>2

LEMMA DivisionOf ==
    ASSUME NEW x \in Int, NEW m \in Nat \ {0}
    PROVE  \E q \in Int, r \in 0 .. m - 1 : q = x \div m /\ r = x % m /\ x = q * m + r
<1>1. x \div m \in Int /\ x % m \in 0 .. m - 1
  OBVIOUS
<1>2. x % m = x - m * (x \div m)
  OBVIOUS
<1>3. PICK q \in Int, r \in 0 .. m - 1 : q = x \div m /\ r = x % m
  BY <1>1
<1>4. r = x - m * q /\ m * q = q * m /\ q * m \in Int
  BY <1>2, <1>3
<1>5. x = q * m + r
  BY <1>4
<1> QED
  BY <1>3, <1>5, Zenon

\* Quotient and remainder are the only numbers of their kind.
LEMMA DivisionIsUnique ==
    ASSUME NEW x \in Int, NEW m \in Nat \ {0}, NEW k \in Int, NEW r \in 0 .. m - 1, x = k * m + r
    PROVE  x \div m = k /\ x % m = r
<1>1. PICK j \in Int, s \in 0 .. m - 1 : j = x \div m /\ s = x % m /\ x = j * m + s
  BY DivisionOf
<1>2. (j - k) * m = j * m - k * m
  BY <1>1
<1>3. PICK p \in Int : p = (j - k) * m
  BY <1>1
<1>4. p = r - s
  BY <1>1, <1>2, <1>3
<1>5. -m < p /\ p < m
  BY <1>1, <1>4
<1>6. j - k = 0
  BY <1>3, <1>5, SmallMultiple
<1>7. j = k
  BY <1>1, <1>6
<1>8. j * m = k * m
  BY <1>7
<1> QED
  BY <1>1, <1>7, <1>8

LEMMA NextBlock ==
    ASSUME NEW t \in Nat, NEW d \in Nat \ {0}
    PROVE  (t + d) \div d = t \div d + 1 /\ (t + d) % d = t % d /\ t \div d \in Nat
<1>1. PICK k \in Int, r \in 0 .. d - 1 : k = t \div d /\ r = t % d /\ t = k * d + r
  <2>1. t \in Int
    OBVIOUS
  <2> QED
    BY <2>1, DivisionOf
<1>2. t + d = (k + 1) * d + r
  <2>1. (k + 1) * d = k * d + d
    OBVIOUS
  <2> QED
    BY <1>1, <2>1
<1>3. (t + d) \div d = k + 1 /\ (t + d) % d = r
  BY <1>2, DivisionIsUnique
<1>4. k >= 0
  <2> SUFFICES ASSUME k <= -1 PROVE FALSE
    BY <1>1
  <2>1. (-1 - k) * d >= 0 /\ (-1 - k) * d = -d - k * d
    OBVIOUS
  <2> QED
    BY <1>1, <2>1
<1> QED
  BY <1>1, <1>3, <1>4

-----------------------------------------------------------------------------
(* Assignment: switchbacks.                                                *)

LEMMA VariantsOfSwitchback ==
    ASSUME NEW x, NEW n \in Nat, n = Len(x.variants), n > 1
    PROVE  /\ ControlIndex(x) \in 1 .. n /\ TreatmentIndex(x) \in 1 .. n
           /\ ControlIndex(x) # TreatmentIndex(x)
<1>1. PICK c : c = {i \in 1 .. Len(x.variants) : x.variants[i].control}
  OBVIOUS
<1>2. ControlIndex(x) = IF c = {} THEN 1 ELSE Least(c)
  BY <1>1 DEF ControlIndex
<1>3. c # {} => Least(c) \in c
  <2>1. c \subseteq Nat
    BY <1>1
  <2> QED
    BY <2>1, LeastIsLeast
<1>4. ControlIndex(x) \in 1 .. n
  BY <1>1, <1>2, <1>3
<1>5. TreatmentIndex(x) = IF ControlIndex(x) = 1 THEN 2 ELSE 1
  BY DEF TreatmentIndex, AtMost
<1> QED
  BY <1>4, <1>5

\* A block and the next: the same washout, the other parity.
LEMMA BlockAndNext ==
    ASSUME NEW t \in Nat, NEW d \in Int, NEW w \in Int, d >= MinBlock, w >= 0
    PROVE  \E k \in Nat, washed \in BOOLEAN :
              /\ compute_block_index(t, d) = k /\ compute_block_index(t + d, d) = k + 1
              /\ simple_alternating(k) <=> ~simple_alternating(k + 1)
              /\ washed <=> t % d < w
              /\ is_in_washout(t, d, w) <=> washed
              /\ is_in_washout(t + d, d, w) <=> washed
<1>1. d \in Nat \ {0}
  BY DEF MinBlock
<1>2. PICK k \in Nat, r \in 0 .. d - 1 : k = t \div d /\ r = t % d /\ (t + d) \div d = k + 1 /\ (t + d) % d = r
  <2>1. t % d \in 0 .. d - 1
    BY <1>1
  <2> QED
    BY <1>1, <2>1, NextBlock
<1>3. compute_block_index(t, d) = k /\ compute_block_index(t + d, d) = k + 1
  BY <1>1, <1>2 DEF compute_block_index
<1>4. simple_alternating(k) <=> ~simple_alternating(k + 1)
  BY DEF simple_alternating
<1>5. PICK washed \in BOOLEAN : washed <=> r < w
  OBVIOUS
<1>6. (is_in_washout(t, d, w) <=> washed) /\ (is_in_washout(t + d, d, w) <=> washed)
  BY <1>1, <1>2, <1>5 DEF is_in_washout
<1> QED
  BY <1>2, <1>3, <1>4, <1>5, <1>6

\* What SwitchbackAlternates asks of the answers a at time t and b in the
\* block after, with blocks of d and a washout of w.
Alternates(a, b, t, d, w) ==
    /\ a.status = "ok"
    /\ a.variant = "" <=> t % d < w
    /\ a.variant # "" => a.variant # b.variant

DistinctIds(vs) ==
    \A i, j \in 1 .. Len(vs) : vs[i].id # "" /\ (i # j => vs[i].id # vs[j].id)

Alternating(x) ==
    /\ x.switchback # None /\ Len(x.variants) > 1
    /\ ValidSwitchback(x.switchback) /\ x.switchback.design # "RANDOMIZED"

Configured(x) ==
    /\ Len(x.variants) \in Nat /\ DistinctIds(x.variants)
    /\ x.switchback # None =>
         /\ x.switchback.duration \in Int /\ x.switchback.washout \in Int
         /\ x.switchback.group[""] \in BOOLEAN

\* The answer of a valid switchback, and of the block after.
LEMMA SwitchbackAnswers ==
    ASSUME NEW e, NEW x, Alternating(x), Configured(x), NEW t \in Nat,
           NEW q, q.cluster = "", q.now = t, NEW p, p.cluster = "", p.now = t + x.switchback.duration
    PROVE  Alternates(assign_switchback(e, x, q), assign_switchback(e, x, p), t,
                      x.switchback.duration, x.switchback.washout)
<1>0. PICK s, n, d, w : s = x.switchback /\ n = Len(x.variants) /\ d = s.duration /\ w = s.washout
  OBVIOUS
<1>a. /\ s # None /\ ValidSwitchback(s) /\ s.design # "RANDOMIZED"
      /\ d \in Int /\ w \in Int /\ s.group[""] \in BOOLEAN /\ n \in Nat /\ n > 1
      /\ \A i, j \in 1 .. n : x.variants[i].id # "" /\ (i # j => x.variants[i].id # x.variants[j].id)
  BY <1>0 DEF Alternating, Configured, DistinctIds
<1>b. p.now = t + d
  BY <1>0, Zenon
<1>1. d >= MinBlock /\ w >= 0
  BY <1>0, <1>a DEF ValidSwitchback
<1>3. PICK k \in Nat, washed \in BOOLEAN :
        /\ compute_block_index(t, d) = k /\ compute_block_index(t + d, d) = k + 1
        /\ simple_alternating(k) <=> ~simple_alternating(k + 1)
        /\ washed <=> t % d < w
        /\ is_in_washout(t, d, w) <=> washed
        /\ is_in_washout(t + d, d, w) <=> washed
  BY <1>1, <1>a, BlockAndNext
<1>6. PICK C \in 1 .. n, T \in 1 .. n : C = ControlIndex(x) /\ T = TreatmentIndex(x) /\ C # T
  BY <1>0, <1>a, VariantsOfSwitchback
<1>7. PICK y, z : y = x.variants[C].id /\ z = x.variants[T].id /\ y # "" /\ z # "" /\ y # z
  <2>1. /\ x.variants[C].id # "" /\ x.variants[T].id # "" /\ x.variants[C].id # x.variants[T].id
    BY <1>6, <1>a, Zenon
  <2> QED
    BY <2>1
<1>8. UseTreatment(s, k, "") <=> ~UseTreatment(s, k + 1, "")
  <2>1. CASE s.design = "REGULAR_BALANCED"
    <3>1. UseTreatment(s, k, "") <=> (simple_alternating(k) # s.group[""])
      BY <2>1 DEF UseTreatment
    <3>2. UseTreatment(s, k + 1, "") <=> (simple_alternating(k + 1) # s.group[""])
      BY <2>1 DEF UseTreatment
    <3>3. simple_alternating(k) \in BOOLEAN /\ simple_alternating(k + 1) \in BOOLEAN
      BY DEF simple_alternating
    <3>4. PICK f \in BOOLEAN, g \in BOOLEAN, h \in BOOLEAN :
            f = simple_alternating(k) /\ g = simple_alternating(k + 1) /\ h = s.group[""]
      BY <1>a, <3>3
    <3>5. (f # h) <=> ~(g # h)
      BY <1>3, <3>4
    <3> QED
      BY <3>1, <3>2, <3>4, <3>5, Zenon
  <2>2. CASE s.design # "REGULAR_BALANCED"
    <3>1. UseTreatment(s, k, "") = simple_alternating(k)
      BY <1>a, <2>2 DEF UseTreatment
    <3>2. UseTreatment(s, k + 1, "") = simple_alternating(k + 1)
      BY <1>a, <2>2 DEF UseTreatment
    <3> QED
      BY <1>3, <3>1, <3>2, Zenon
  <2> QED
    BY <2>1, <2>2
<1>9. PICK a, b : a = assign_switchback(e, x, q) /\ b = assign_switchback(e, x, p)
  OBVIOUS
<1>10. a = IF washed THEN Response(e, "", TRUE)
           ELSE Response(e, IF UseTreatment(s, k, "") THEN z ELSE y, TRUE)
  BY <1>0, <1>3, <1>6, <1>7, <1>9, <1>a, <1>b DEF assign_switchback
<1>11. b = IF washed THEN Response(e, "", TRUE)
           ELSE Response(e, IF UseTreatment(s, k + 1, "") THEN z ELSE y, TRUE)
  BY <1>0, <1>3, <1>6, <1>7, <1>9, <1>a, <1>b DEF assign_switchback
<1>12. CASE washed
  <2>1. a = Response(e, "", TRUE)
    BY <1>10, <1>12, Zenon
  <2>2. a.variant = "" /\ a.status = "ok"
    BY <2>1 DEF Response
  <2> QED
    BY <1>0, <1>3, <1>9, <1>12, <2>2, Zenon DEF Alternates
<1>13. CASE ~washed
  <2>1. PICK f, g : /\ f = (IF UseTreatment(s, k, "") THEN z ELSE y)
                    /\ g = (IF UseTreatment(s, k + 1, "") THEN z ELSE y)
    OBVIOUS
  <2>2. f # "" /\ f # g
    BY <1>7, <1>8, <2>1, Zenon
  <2>3. a = Response(e, f, TRUE) /\ b = Response(e, g, TRUE)
    BY <1>10, <1>11, <1>13, <2>1, Zenon
  <2>4. a.variant = f /\ a.status = "ok" /\ b.variant = g
    BY <2>3 DEF Response
  <2> QED
    BY <1>0, <1>3, <1>9, <1>13, <2>2, <2>4, Zenon DEF Alternates
<1> QED
  BY <1>12, <1>13

LEMMA BatchAlternates ==
    ASSUME BatchInv
    PROVE  SwitchbackAlternates
<1> SUFFICES ASSUME NEW e \in DOMAIN st.config, Alternating(st.config[e]),
                    NEW t \in 0 .. 2 * st.config[e].switchback.duration - 1
             PROVE  Alternates(assign_switchback(e, st.config[e], [st.query EXCEPT !.now = t]),
                               assign_switchback(e, st.config[e],
                                   [st.query EXCEPT !.now = t + st.config[e].switchback.duration]),
                               t, st.config[e].switchback.duration, st.config[e].switchback.washout)
  BY Zenon DEF SwitchbackAlternates, Alternating, Alternates
<1>1. PICK c, d, q, x : c = st.config /\ d = st.snapshot /\ q = st.query /\ x = c[e]
  OBVIOUS
<1>2. PICK u, z : q = [user |-> u, session |-> z, attributes |-> <<>>, now |-> 3, cluster |-> ""]
  BY <1>1 DEF BatchInv
<1>3. SameButState(c, d) /\ d \in Configs /\ e \in DOMAIN c
  BY <1>1 DEF BatchInv, Batches
<1>4. Configured(x)
  <2>1. e \in DOMAIN d /\ \A f \in ExperimentFields : f # "state" => c[e][f] = d[e][f]
    BY <1>3 DEF SameButState
  <2>2. PICK s, vs : s = d[e].switchback /\ vs = d[e].variants
    OBVIOUS
  <2>3. x.switchback = s /\ x.variants = vs
    BY <1>1, <2>1, <2>2 DEF ExperimentFields
  <2>4. /\ Len(vs) \in Nat
        /\ \A i, j \in 1 .. Len(vs) : vs[i].id # "" /\ (i # j => vs[i].id # vs[j].id)
        /\ s # None => s.duration \in Int /\ s.washout \in Int /\ s.group[""] \in BOOLEAN
    BY <1>3, <2>1, <2>2, AssignmentAssumption
  <2> QED
    BY <2>3, <2>4, Zenon DEF Configured, DistinctIds
<1>5. PICK dur \in Int : dur = x.switchback.duration
  BY <1>1, <1>4 DEF Alternating, Configured
<1>6. t \in Nat
  <2>1. t \in 0 .. 2 * dur - 1
    BY <1>1, <1>5
  <2> QED
    BY <2>1
<1>7. PICK p, r : p = [q EXCEPT !.now = t] /\ r = [q EXCEPT !.now = t + dur]
  OBVIOUS
<1>8. p.now = t /\ p.cluster = "" /\ r.now = t + dur /\ r.cluster = ""
  BY <1>2, <1>7
<1>9. Alternating(x)
  BY <1>1
<1>10. Alternates(assign_switchback(e, x, p), assign_switchback(e, x, r), t,
                  x.switchback.duration, x.switchback.washout)
  BY <1>4, <1>5, <1>6, <1>8, <1>9, SwitchbackAnswers
<1> QED
  BY <1>1, <1>5, <1>7, <1>10, Zenon

-----------------------------------------------------------------------------
(* What an experiment that starts has passed.                              *)

LEMMA PreconditionHolds ==
    ASSUME NEW c \in BOOLEAN, Precondition(c) = "ok"
    PROVE  c
BY DEF Precondition

LEMMA StartPassed ==
    ASSUME NEW x, validate_starting(x) = "ok"
    PROVE  /\ x.type = "SWITCHBACK" => x.config # None /\ validate_switchback_config(x.config) = "ok"
           /\ x.type = "QUASI" => x.config # None /\ validate_quasi_config(x.config) = "ok"
<1>1. PICK a, b :
        /\ a = IF x.type \notin {"META", "SWITCHBACK", "QUASI"} THEN "ok"
               ELSE IF x.config = None THEN Precondition(FALSE)
               ELSE CASE x.type = "META"       -> validate_meta_config(x.config, x.variants)
                      [] x.type = "SWITCHBACK" -> validate_switchback_config(x.config)
                      [] x.type = "QUASI"      -> validate_quasi_config(x.config)
        /\ b = IF x.equivalence = None THEN "ok" ELSE validate_equivalence_test_config(x.equivalence)
  OBVIOUS
<1>2. validate_starting(x) = FirstFailure(<<a, b>>)
  BY <1>1, Zenon DEF validate_starting
<1>3. PICK c : c = <<a, b>>
  OBVIOUS
<1>4. Len(c) = 2 /\ c[1] = a
  BY <1>3
<1>5. \A i \in 1 .. Len(c) : c[i] = "ok"
  BY <1>2, <1>3, <1>4, AllPassed
<1>6. a = "ok"
  BY <1>4, <1>5
<1>7. Precondition(FALSE) # "ok"
  BY DEF Precondition
<1> QED
  BY <1>1, <1>6, <1>7

LEMMA StartedIsServed ==
    ASSUME TypesInit
    PROVE  StartedSwitchbackIsServed
<1>1. PICK x \in TypedExperiments : st = [algo |-> "types", exp |-> x]
  BY DEF TypesInit
<1>2. st.exp = x
  BY <1>1
<1>3. ASSUME x.type = "SWITCHBACK", validate_starting(x) = "ok", x.config.washout \in 0 .. x.config.duration - 1
      PROVE  ValidSwitchback(x.config)
  <2>1. PICK s : s = x.config
    OBVIOUS
  <2>2. s # None /\ validate_switchback_config(s) = "ok"
    BY <1>3, <2>1, StartPassed
  <2>3. PICK c : c = <<Precondition(s.cycles >= MinCycles), Precondition(s.duration >= MinBlock)>>
    OBVIOUS
  <2>4. Len(c) = 2 /\ FirstFailure(c) = "ok"
    BY <2>2, <2>3 DEF validate_switchback_config
  <2>5. c[1] = "ok" /\ c[2] = "ok"
    BY <2>4, AllPassed
  <2>6. Precondition(s.cycles >= MinCycles) = "ok" /\ Precondition(s.duration >= MinBlock) = "ok"
    BY <2>3, <2>5
  <2>7. s.cycles >= MinCycles /\ s.duration >= MinBlock
    BY <2>6 DEF Precondition
  <2>8. s.duration \in Int
    BY <1>3, <2>1, <2>2, TypesAssumption
  <2> QED
    BY <1>3, <2>1, <2>7, <2>8 DEF ValidSwitchback
<1> QED
  BY <1>2, <1>3 DEF StartedSwitchbackIsServed

\* Adding in two's complement: what fits comes out, however it was added up.
LEMMA WrapsBack ==
    ASSUME NEW x \in Int, NEW y \in Int, x + y \in -(MaxInstant + 1) .. MaxInstant
    PROVE  Wrap(Wrap(x) + y) = x + y
<1>1. PICK h \in Nat \ {0}, m \in Nat \ {0} : h = MaxInstant + 1 /\ m = Modulus /\ m = 2 * h
  BY TypesAssumption DEF Modulus
<1>2. PICK k \in Int, r \in 0 .. m - 1 : r = (x + h) % m /\ x + h = k * m + r
  <2>1. x + h \in Int
    OBVIOUS
  <2> QED
    BY <2>1, DivisionOf
<1>h. \A b \in Int : Wrap(b) = ((b + h) % m) - h
  <2> SUFFICES ASSUME NEW b \in Int PROVE Wrap(b) = ((b + h) % m) - h
    OBVIOUS
  <2>1. b + MaxInstant + 1 = b + h
    BY <1>1, TypesAssumption
  <2> QED
    BY <1>1, <2>1, Zenon DEF Wrap
<1>3. PICK v \in Int : v = Wrap(x) /\ v = r - h
  BY <1>2, <1>h
<1>4. PICK z \in 0 .. m - 1 : z = x + y + h
  BY <1>1, TypesAssumption
<1>5. v + y + h = (-k) * m + z
  <2>1. PICK p \in Int : p = k * m
    OBVIOUS
  <2>2. (-k) * m = -p
    BY <2>1
  <2> QED
    BY <1>2, <1>3, <1>4, <2>1, <2>2
<1>6. (v + y + h) % m = z
  <2>1. v + y + h \in Int /\ -k \in Int
    OBVIOUS
  <2> QED
    BY <1>5, <2>1, DivisionIsUnique
<1>7. Wrap(v + y) = z - h
  BY <1>6, <1>h
<1>8. z - h = x + y
  BY <1>4
<1> QED
  BY <1>3, <1>7, <1>8, Zenon

LEMMA QuasiStarts ==
    ASSUME TypesInit
    PROVE  QuasiHasAPrePeriod
<1>1. PICK x \in TypedExperiments : st = [algo |-> "types", exp |-> x]
  BY DEF TypesInit
<1>2. st.exp = x
  BY <1>1
<1>3. ASSUME x.type = "QUASI", validate_starting(x) = "ok", NEW p, NEW t,
             p = x.config.pre, t = x.config.treatment, Representable(p), Representable(t)
      PROVE  p.seconds * NanosPerSecond + p.nanos < t.seconds * NanosPerSecond + t.nanos
  <2>1. PICK s : s = x.config
    OBVIOUS
  <2>2. s # None /\ validate_quasi_config(s) = "ok"
    BY <1>3, <2>1, StartPassed
  <2>3. PICK c : c = <<Precondition(s.treated # ""), Precondition(Len(s.donors) >= 2), Precondition(s.outcome # ""),
                       Precondition(s.pre # None /\ s.treatment # None),
                       Precondition(s.pre # None /\ s.treatment # None => ~NotBefore(s.pre, s.treatment))>>
    OBVIOUS
  <2>4. Len(c) = 5 /\ FirstFailure(c) = "ok"
    BY <2>2, <2>3 DEF validate_quasi_config
  <2>5. c[4] = "ok" /\ c[5] = "ok"
    BY <2>4, AllPassed
  <2>6. /\ Precondition(s.pre # None /\ s.treatment # None) = "ok"
        /\ Precondition(s.pre # None /\ s.treatment # None => ~NotBefore(s.pre, s.treatment)) = "ok"
    BY <2>3, <2>5
  <2>7. p # None /\ t # None /\ ~NotBefore(p, t)
    BY <1>3, <2>1, <2>6 DEF Precondition
  <2>8. p.seconds \in Int /\ p.nanos \in Int /\ t.seconds \in Int /\ t.nanos \in Int
    BY <1>3, <2>1, <2>2, <2>7, TypesAssumption
  <2>9. PICK a \in Int, b \in Int : a = p.seconds * NanosPerSecond /\ b = t.seconds * NanosPerSecond
    BY <2>8, TypesAssumption
  <2>10. Instant(p) = a + p.nanos /\ Instant(t) = b + t.nanos
    BY <1>3, <2>8, <2>9, WrapsBack DEF Instant, Representable
  <2> QED
    BY <2>7, <2>8, <2>9, <2>10 DEF NotBefore
<1> QED
  BY <1>2, <1>3 DEF QuasiHasAPrePeriod

-----------------------------------------------------------------------------
(* Assignment: how a range is divided.                                     *)

LEMMA ProductGrows ==
    ASSUME NEW a \in Int, NEW b \in Int, a <= b, NEW w \in Nat
    PROVE  a * w <= b * w
<1>1. (b - a) * w >= 0
  <2>1. b - a \in Nat
    OBVIOUS
  <2> QED
    BY <2>1
<1>2. (b - a) * w = b * w - a * w
  OBVIOUS
<1>3. PICK p \in Int, q \in Int : p = a * w /\ q = b * w
  OBVIOUS
<1> QED
  BY <1>1, <1>2, <1>3

\* Some multiple of w is the first that is not below a.
LEMMA Ceiling ==
    ASSUME NEW a \in Nat, NEW w \in Nat \ {0}
    PROVE  \E k \in Nat : /\ a <= k * w /\ k * w < a + w
                          /\ \A r \in Nat : r * w < a <=> r < k
<1> DEFINE T == {k \in Nat : a <= k * w}
<1>1. a \in T
  <2>1. 1 * a <= w * a
    BY ProductGrows
  <2>2. 1 * a = a /\ w * a = a * w
    OBVIOUS
  <2> QED
    BY <2>1, <2>2
<1>2. PICK k \in T : \A x \in T : k <= x
  <2>1. T \subseteq Nat /\ T # {}
    BY <1>1
  <2> HIDE DEF T
  <2> QED
    BY <2>1, LeastElement
<1>3. k \in Nat /\ a <= k * w
  BY <1>2
<1>4. \A r \in Nat : r < k => r * w < a
  <2> SUFFICES ASSUME NEW r \in Nat, r < k, ~(r * w < a) PROVE FALSE
    OBVIOUS
  <2>1. r * w \in Nat
    OBVIOUS
  <2>2. r \in T
    BY <2>1
  <2> HIDE DEF T
  <2> QED
    BY <1>2, <1>3, <2>2
<1>5. \A r \in Nat : r * w < a => r < k
  <2> SUFFICES ASSUME NEW r \in Nat, r * w < a, k <= r PROVE FALSE
    BY <1>3
  <2>1. k * w <= r * w
    BY <1>3, ProductGrows
  <2>2. k * w \in Nat /\ r * w \in Nat
    BY <1>3
  <2> QED
    BY <1>3, <2>1, <2>2
<1>6. k * w < a + w
  <2>1. CASE k = 0
    BY <2>1
  <2>2. CASE k # 0
    <3>1. k - 1 \in Nat /\ k - 1 < k
      BY <1>3, <2>2
    <3>2. (k - 1) * w < a
      BY <1>4, <3>1
    <3>3. (k - 1) * w = k * w - w /\ k * w \in Nat
      BY <1>3
    <3> QED
      BY <3>2, <3>3
  <2> QED
    BY <2>1, <2>2
<1> QED
  BY <1>3, <1>4, <1>5, <1>6

\* The share of the first i variants, for fractions f.
Share(f, i) == SumOf([j \in 1 .. i |-> f[j]])

LEMMA SharesGrow ==
    ASSUME NEW n \in Nat, NEW f \in [1 .. n -> Nat], NEW i \in 1 .. n
    PROVE  /\ Share(f, i - 1) \in Nat /\ Share(f, i) \in Nat
           /\ Share(f, i) = Share(f, i - 1) + f[i]
<1>1. PICK s, t : s = [j \in 1 .. i - 1 |-> f[j]] /\ t = [j \in 1 .. i |-> f[j]]
  OBVIOUS
<1>2. i - 1 \in Nat /\ i \in Nat
  OBVIOUS
<1>3. s \in Seq(Nat) /\ Len(s) = i - 1
  BY <1>1, <1>2
<1>4. t \in Seq(Nat) /\ Len(t) = i
  BY <1>1, <1>2
<1>5. \A j \in 1 .. Len(s) : t[j] = s[j]
  BY <1>1, <1>2, <1>3
<1>6. t[Len(t)] = f[i]
  BY <1>1, <1>2, <1>4
<1>7. Len(t) = Len(s) + 1
  BY <1>2, <1>3, <1>4
<1>8. SumOf(t) = SumOf(s) + t[Len(t)]
  BY <1>3, <1>4, <1>5, <1>7, SumGrows
<1>9. SumOf(s) \in Nat /\ SumOf(t) \in Nat
  BY <1>3, <1>4, SumOfNats
<1> QED
  BY <1>1, <1>6, <1>8, <1>9 DEF Share

LEMMA SharesAreMonotone ==
    ASSUME NEW n \in Nat, NEW f \in [1 .. n -> Nat], NEW i \in 0 .. n, NEW j \in i .. n
    PROVE  Share(f, i) <= Share(f, j) /\ Share(f, i) \in Nat /\ Share(f, j) \in Nat
<1>0. Share(f, 0) \in Nat
  <2>1. PICK s : s = [k \in 1 .. 0 |-> f[k]]
    OBVIOUS
  <2>2. s \in Seq(Nat)
    BY <2>1
  <2> QED
    BY <2>1, <2>2, SumOfNats DEF Share
<1>1. \A k \in 0 .. n : Share(f, k) \in Nat
  <2> SUFFICES ASSUME NEW k \in 0 .. n PROVE Share(f, k) \in Nat
    OBVIOUS
  <2>1. CASE k = 0
    BY <1>0, <2>1
  <2>2. CASE k # 0
    <3>1. k \in 1 .. n
      BY <2>2
    <3> QED
      BY <3>1, SharesGrow
  <2> QED
    BY <2>1, <2>2
<1> DEFINE T == {k \in Nat : i + k <= n => Share(f, i) <= Share(f, i + k)}
<1>2. 0 \in T
  <2>1. i + 0 = i /\ Share(f, i) \in Nat
    BY <1>1
  <2> QED
    BY <2>1
<1>3. ASSUME NEW k \in Nat, k \in T PROVE k + 1 \in T
  <2> SUFFICES ASSUME i + (k + 1) <= n PROVE Share(f, i) <= Share(f, i + (k + 1))
    OBVIOUS
  <2>1. PICK m \in 1 .. n : m = i + (k + 1) /\ m - 1 = i + k
    OBVIOUS
  <2>2. Share(f, i) <= Share(f, m - 1)
    BY <1>3, <2>1
  <2>3. Share(f, m) = Share(f, m - 1) + f[m] /\ f[m] \in Nat /\ Share(f, m - 1) \in Nat
    BY SharesGrow
  <2>4. Share(f, i) \in Nat
    BY <1>1
  <2> QED
    BY <2>1, <2>2, <2>3, <2>4
<1>4. j - i \in T
  <2>1. j - i \in Nat
    OBVIOUS
  <2> HIDE DEF T
  <2> QED
    BY <1>2, <1>3, <2>1, Induction
<1>5. Share(f, i) <= Share(f, j)
  <2>1. i + (j - i) = j
    OBVIOUS
  <2> QED
    BY <1>4, <2>1
<1> QED
  BY <1>1, <1>5

\* A range of size buckets from 2 on, divided by the fractions f.
Divided(x, n, f, size) ==
    /\ x.start = 2 /\ x.end = size + 1
    /\ x.variants = [i \in 1 .. n |-> [id |-> i, fraction |-> f[i]]]

\* The variant of a bucket is the one between whose cumulative shares it lies.
LEMMA SelectedBetween ==
    ASSUME NEW n \in Nat \ {0}, NEW f \in [1 .. n -> Nat], NEW size \in Nat, NEW x, Divided(x, n, f, size),
           Share(f, n) = Whole, NEW b \in 2 .. size + 1, NEW i \in 1 .. n
    PROVE  select_variant(x, b).id = i
             <=> Share(f, i - 1) * size <= (b - 2) * Whole /\ (b - 2) * Whole < Share(f, i) * size
<1>0. Whole \in Nat \ {0}
  BY AssignmentAssumption
<1>1. PICK vs : vs = x.variants /\ vs = [j \in 1 .. n |-> [id |-> j, fraction |-> f[j]]]
  BY DEF Divided
<1>2. Len(vs) = n /\ \A j \in 1 .. n : vs[j].id = j /\ vs[j].fraction = f[j]
  BY <1>1
<1>3. PICK rel \in 0 .. size - 1 : rel = b - 2
  OBVIOUS
<1>4. PICK p \in Nat : p = rel * Whole
  BY <1>0
<1>5. PICK hit : hit = {j \in 1 .. n : p < Share(f, j) * size}
  OBVIOUS
<1>6. select_variant(x, b) = vs[IF hit = {} THEN n ELSE Least(hit)]
  <2>1. \A j \in 1 .. n : [k \in 1 .. j |-> vs[k].fraction] = [k \in 1 .. j |-> f[k]]
    BY <1>2
  <2>2. \A j \in 1 .. n : SumOf([k \in 1 .. j |-> vs[k].fraction]) = Share(f, j)
    BY <2>1 DEF Share
  <2>3. x.end - x.start + 1 = size /\ b - x.start = rel
    BY <1>3 DEF Divided
  <2>4. {j \in 1 .. n : Beyond(rel, SumOf([k \in 1 .. j |-> vs[k].fraction]), size)} = hit
    BY <1>4, <1>5, <2>2 DEF Beyond
  <2> QED
    BY <1>1, <1>2, <2>3, <2>4, Zenon DEF select_variant
<1>7. \A j \in 0 .. n : Share(f, j) \in Nat /\ Share(f, j) <= Whole
  <2> SUFFICES ASSUME NEW j \in 0 .. n PROVE Share(f, j) \in Nat /\ Share(f, j) <= Whole
    OBVIOUS
  <2>1. n \in j .. n
    OBVIOUS
  <2> QED
    BY <2>1, SharesAreMonotone
<1>8. n \in hit
  <2>1. (rel + 1) * Whole <= size * Whole
    BY <1>0, <1>3, ProductGrows
  <2>2. (rel + 1) * Whole = rel * Whole + Whole /\ size * Whole = Whole * size
    BY <1>0
  <2>3. PICK q \in Int : q = Whole * size
    BY <1>0
  <2>4. p < q
    BY <1>0, <1>4, <2>1, <2>2, <2>3
  <2> QED
    BY <1>5, <2>3, <2>4
<1>9. Least(hit) \in hit /\ \A y \in hit : Least(hit) <= y
  <2>1. hit \subseteq Nat /\ hit # {}
    BY <1>5, <1>8
  <2> QED
    BY <2>1, LeastIsLeast
<1>10. PICK l \in 1 .. n : l = Least(hit)
  BY <1>5, <1>9
<1>11. select_variant(x, b).id = l
  BY <1>2, <1>6, <1>8, <1>10
<1>12. \A j, k \in 0 .. n : j <= k => Share(f, j) * size <= Share(f, k) * size
  <2> SUFFICES ASSUME NEW j \in 0 .. n, NEW k \in 0 .. n, j <= k PROVE Share(f, j) * size <= Share(f, k) * size
    OBVIOUS
  <2>1. k \in j .. n
    OBVIOUS
  <2>2. Share(f, j) <= Share(f, k) /\ Share(f, j) \in Nat /\ Share(f, k) \in Nat
    BY <2>1, SharesAreMonotone
  <2>3. PICK u \in Int, v \in Int : u = Share(f, j) /\ v = Share(f, k) /\ u <= v
    BY <2>2
  <2>4. u * size <= v * size
    BY <2>3, ProductGrows
  <2> QED
    BY <2>3, <2>4, Zenon
<1>13. \A j \in 0 .. n : Share(f, j) * size \in Nat
  BY <1>7
<1>14. l = i => Share(f, i - 1) * size <= p /\ p < Share(f, i) * size
  <2> SUFFICES ASSUME l = i PROVE Share(f, i - 1) * size <= p /\ p < Share(f, i) * size
    OBVIOUS
  <2>1. p < Share(f, i) * size
    BY <1>5, <1>9, <1>10
  <2>2. CASE i = 1
    <3>1. Share(f, 0) = 0
      <4>1. PICK s : s = [k \in 1 .. 0 |-> f[k]]
        OBVIOUS
      <4>2. s \in Seq(Nat) /\ Len(s) = 0
        BY <4>1
      <4>3. PICK g : SummedBy(s, g)
        BY <4>2, SumSteps
      <4>4. SumOf(s) = 0
        BY <4>2, <4>3 DEF SummedBy
      <4> QED
        BY <4>1, <4>4 DEF Share
    <3>2. i - 1 = 0 /\ 0 * size = 0
      BY <2>2
    <3> QED
      BY <2>1, <3>1, <3>2
  <2>3. CASE i # 1
    <3>1. i - 1 \in 1 .. n /\ ~(l <= i - 1)
      BY <2>3
    <3>2. i - 1 \notin hit
      BY <1>9, <1>10, <3>1
    <3>3. ~(p < Share(f, i - 1) * size)
      BY <1>5, <3>1, <3>2
    <3>4. Share(f, i - 1) * size \in Nat
      BY <1>13
    <3> QED
      BY <2>1, <3>3, <3>4
  <2> QED
    BY <2>2, <2>3
<1>15. ASSUME Share(f, i - 1) * size <= p, p < Share(f, i) * size PROVE l = i
  <2>1. i \in hit
    BY <1>5, <1>15
  <2>2. l <= i
    BY <1>9, <1>10, <2>1
  <2>3. ~(l <= i - 1)
    <3> SUFFICES ASSUME l <= i - 1 PROVE FALSE
      OBVIOUS
    <3>1. Share(f, l) * size <= Share(f, i - 1) * size
      BY <1>12
    <3>2. p < Share(f, l) * size
      BY <1>5, <1>9, <1>10
    <3>3. PICK u \in Nat, v \in Nat : u = Share(f, l) * size /\ v = Share(f, i - 1) * size
      BY <1>13
    <3> QED
      BY <1>15, <3>1, <3>2, <3>3
  <2> QED
    BY <2>2, <2>3
<1>16. (b - 2) * Whole = p
  BY <1>3, <1>4
<1> QED
  BY <1>11, <1>14, <1>15, <1>16

\* Every variant is within one bucket of its share.
LEMMA ShareOfVariant ==
    ASSUME NEW n \in Nat \ {0}, NEW f \in [1 .. n -> Nat], NEW size \in Nat, NEW x, Divided(x, n, f, size),
           Share(f, n) = Whole, NEW i \in 1 .. n
    PROVE  LET off == Whole * Cardinality({b \in 2 .. size + 1 : select_variant(x, b).id = i}) - f[i] * size
           IN  -Whole < off /\ off < Whole
<1>0. PICK w \in Nat \ {0} : w = Whole
  BY AssignmentAssumption
<1>1. PICK c, d : c = Share(f, i - 1) /\ d = Share(f, i)
  OBVIOUS
<1>2. c \in Nat /\ d \in Nat /\ d = c + f[i] /\ f[i] \in Nat
  BY <1>1, SharesGrow
<1>3. d <= w
  <2>1. n \in i .. n /\ i \in 0 .. n
    OBVIOUS
  <2> QED
    BY <1>0, <1>1, <2>1, SharesAreMonotone
<1>4. PICK p \in Nat, q \in Nat, r \in Nat : p = c * size /\ q = d * size /\ r = f[i] * size /\ q = p + r
  <2>1. PICK a \in Nat : a = f[i]
    BY <1>2
  <2>2. d = c + a
    BY <1>2, <2>1
  <2>3. c * size \in Nat /\ a * size \in Nat
    BY <1>2
  <2>4. PICK p \in Nat, r \in Nat : p = c * size /\ r = a * size
    BY <2>3
  <2>5. (c + a) * size = c * size + a * size
    BY <1>2
  <2>6. d * size = p + r
    BY <2>2, <2>4, <2>5
  <2>7. r = f[i] * size
    BY <2>1, <2>4
  <2> QED
    BY <2>4, <2>6, <2>7
<1>5. PICK j \in Nat : p <= j * w /\ j * w < p + w /\ \A z \in Nat : z * w < p <=> z < j
  BY Ceiling
<1>6. PICK k \in Nat : q <= k * w /\ k * w < q + w /\ \A z \in Nat : z * w < q <=> z < k
  BY Ceiling
<1>7. k <= size
  <2>1. d * size <= w * size /\ w * size = size * w
    BY <1>2, <1>3, ProductGrows
  <2>2. size * w \in Nat
    OBVIOUS
  <2>3. ~(size * w < q)
    BY <1>4, <2>1, <2>2
  <2> QED
    BY <1>6, <2>3
<1>8. j <= k
  <2>1. ~(k * w < p)
    <3>1. k * w \in Nat
      OBVIOUS
    <3> QED
      BY <1>4, <1>6, <3>1
  <2> QED
    BY <1>5, <2>1
<1>9. PICK B : B = {b \in 2 .. size + 1 : select_variant(x, b).id = i}
  OBVIOUS
<1>10. \A b \in 2 .. size + 1 : b \in B <=> j <= b - 2 /\ b - 2 < k
  <2> SUFFICES ASSUME NEW b \in 2 .. size + 1 PROVE b \in B <=> j <= b - 2 /\ b - 2 < k
    OBVIOUS
  <2>1. PICK z \in Nat : z = b - 2
    OBVIOUS
  <2>2. select_variant(x, b).id = i <=> p <= z * w /\ z * w < q
    <3>1. select_variant(x, b).id = i
            <=> Share(f, i - 1) * size <= (b - 2) * Whole /\ (b - 2) * Whole < Share(f, i) * size
      BY SelectedBetween
    <3> QED
      BY <1>0, <1>1, <1>4, <2>1, <3>1, Zenon
  <2>3. p <= z * w <=> ~(z * w < p)
    <3>1. z * w \in Nat
      OBVIOUS
    <3> QED
      BY <3>1
  <2>4. (z * w < p <=> z < j) /\ (z * w < q <=> z < k)
    BY <1>5, <1>6
  <2> QED
    BY <1>9, <2>1, <2>2, <2>3, <2>4
<1>11. B = j + 2 .. k + 1
  <2>1. B \subseteq 2 .. size + 1
    BY <1>9
  <2>2. \A b \in B : b \in j + 2 .. k + 1
    BY <1>10, <2>1
  <2>3. \A b \in j + 2 .. k + 1 : b \in B
    BY <1>7, <1>10
  <2> QED
    BY <2>2, <2>3
<1>12. Cardinality(B) = k - j
  <2>1. Cardinality(j + 2 .. k + 1) = IF j + 2 > k + 1 THEN 0 ELSE (k + 1) - (j + 2) + 1
    BY FS_Interval
  <2> QED
    BY <1>8, <1>11, <2>1
<1>13. PICK g \in Nat, h \in Nat : g = j * w /\ h = k * w /\ w * (k - j) = h - g
  OBVIOUS
<1>14. -w < (h - g) - r /\ (h - g) - r < w
  <2>1. p <= g /\ g < p + w
    BY <1>5, <1>13
  <2>2. q <= h /\ h < q + w
    BY <1>6, <1>13
  <2>3. q = p + r
    BY <1>4
  <2>4. p \in Int /\ q \in Int /\ r \in Int /\ g \in Int /\ h \in Int /\ w \in Int
    BY <1>0, <1>4, <1>13
  <2> QED
    BY <2>1, <2>2, <2>3, <2>4
<1> QED
  BY <1>0, <1>4, <1>9, <1>12, <1>13, <1>14

LEMMA VariantsAreFair ==
    ASSUME VariantsInit
    PROVE  SharesAreFair
<1>1. PICK n \in 1 .. MaxVariants, size \in 1 .. MaxRange, fractions \in [1 .. MaxVariants -> 0 .. Whole] :
        st = [algo |-> "variants",
              experiment |-> [start |-> 2, end |-> size + 1,
                              variants |-> [i \in 1 .. n |-> [id |-> i, fraction |-> fractions[i]]]]]
  BY Zenon DEF VariantsInit
<1>2. n \in Nat \ {0} /\ size \in Nat \ {0} /\ n <= MaxVariants /\ Whole \in Nat /\ MaxVariants \in Nat
  <2>1. Whole \in Nat /\ MaxVariants \in Nat /\ MaxRange \in Nat
    BY AssignmentAssumption
  <2>2. n \in 1 .. MaxVariants /\ size \in 1 .. MaxRange
    BY <1>1
  <2> QED
    BY <2>1, <2>2
<1>3. PICK f : f = [i \in 1 .. n |-> fractions[i]]
  OBVIOUS
<1>4. f \in [1 .. n -> Nat]
  BY <1>2, <1>3
<1>5. PICK vs : vs = [i \in 1 .. n |-> [id |-> i, fraction |-> f[i]]]
  OBVIOUS
<1>6. vs = [i \in 1 .. n |-> [id |-> i, fraction |-> fractions[i]]]
  BY <1>3, <1>5
<1>7. PICK x : x = [start |-> 2, end |-> size + 1, variants |-> vs]
  OBVIOUS
<1>8. x.start = 2 /\ x.end = size + 1 /\ x.variants = vs
  BY <1>7
<1>9. st.experiment = x
  BY <1>1, <1>6, <1>7
<1>10. Divided(x, n, f, size)
  BY <1>5, <1>8 DEF Divided
<1>11. Len(vs) = n /\ \A i \in 1 .. n : vs[i].fraction = f[i]
  BY <1>2, <1>5
<1>12. SumOf([i \in 1 .. Len(x.variants) |-> x.variants[i].fraction]) = Share(f, n)
  <2>1. [i \in 1 .. n |-> vs[i].fraction] = [i \in 1 .. n |-> f[i]]
    BY <1>11
  <2> QED
    BY <1>8, <1>11, <2>1, Zenon DEF Share
<1>13. x.end - x.start + 1 = size
  BY <1>2, <1>8
<1>14. ASSUME Share(f, n) = Whole, NEW i \in 1 .. n
       PROVE  LET off == Whole * Cardinality({b \in x.start .. x.end : select_variant(x, b).id = i})
                           - x.variants[i].fraction * (x.end - x.start + 1)
              IN  -Whole < off /\ off < Whole
  <2>1. LET off == Whole * Cardinality({b \in 2 .. size + 1 : select_variant(x, b).id = i}) - f[i] * size
        IN  -Whole < off /\ off < Whole
    BY <1>2, <1>4, <1>10, <1>14, ShareOfVariant
  <2> QED
    BY <1>8, <1>11, <1>13, <2>1, Zenon
<1> QED
  BY <1>8, <1>9, <1>11, <1>12, <1>14, Zenon DEF SharesAreFair

-----------------------------------------------------------------------------
(* Assignment: the shuffle of a slate.                                     *)

Deck(n) == [i \in 1 .. n |-> i]

Permutation(p, n) ==
    /\ p \in [1 .. n -> 1 .. n]
    /\ \A i, j \in 1 .. n : p[i] = p[j] => i = j
    /\ \A v \in 1 .. n : \E i \in 1 .. n : p[i] = v

\* f[i] is the deck after the draws for the positions above i.
Stages(n, d, f) ==
    /\ f = [i \in 1 .. n |-> f[i]] /\ f[n] = Deck(n)
    /\ \A i \in 1 .. n - 1 : f[i] = Swap(f[i + 1], i + 1, d[i + 1])

\* Induction from hi down to lo.
LEMMA Downward ==
    ASSUME NEW lo \in Int, NEW hi \in Int, NEW T, hi \in T, \A i \in lo .. hi - 1 : i + 1 \in T => i \in T
    PROVE  \A i \in lo .. hi : i \in T
<1> DEFINE U == {m \in Nat : hi - m >= lo => hi - m \in T}
<1>1. 0 \in U
  BY hi - 0 = hi
<1>2. ASSUME NEW m \in Nat, m \in U PROVE m + 1 \in U
  <2> SUFFICES ASSUME hi - (m + 1) >= lo PROVE hi - (m + 1) \in T
    OBVIOUS
  <2>1. PICK i \in lo .. hi - 1 : i = hi - (m + 1) /\ i + 1 = hi - m
    OBVIOUS
  <2>2. hi - m \in T
    BY <1>2
  <2> QED
    BY <2>1, <2>2
<1> HIDE DEF U
<1>3. \A m \in Nat : m \in U
  BY <1>1, <1>2, Induction
<1> SUFFICES ASSUME NEW i \in lo .. hi PROVE i \in T
  OBVIOUS
<1>4. hi - i \in Nat /\ hi - (hi - i) = i /\ i >= lo
  OBVIOUS
<1>5. hi - i \in U
  BY <1>3, <1>4
<1> QED
  BY <1>4, <1>5 DEF U

LEMMA StagesExist ==
    ASSUME NEW n \in Nat \ {0}, NEW d
    PROVE  \E f : Stages(n, d, f)
<1> DEFINE P(m, g) == /\ DOMAIN g = m .. n /\ g[n] = Deck(n)
                      /\ \A i \in m .. n - 1 : g[i] = Swap(g[i + 1], i + 1, d[i + 1])
           T == {m \in Nat : \E g : P(m, g)}
<1>1. n \in T
  <2>1. PICK c : c = Deck(n)
    OBVIOUS
  <2>2. PICK g : g = [i \in n .. n |-> c]
    OBVIOUS
  <2>3. DOMAIN g = n .. n /\ g[n] = c /\ \A i \in n .. n - 1 : FALSE
    BY <2>2
  <2>4. P(n, g)
    BY <2>1, <2>3
  <2> QED
    BY <2>4
<1>2. ASSUME NEW i \in 1 .. n - 1, i + 1 \in T PROVE i \in T
  <2>1. PICK g : P(i + 1, g)
    BY <1>2
  <2>2. PICK c : c = Swap(g[i + 1], i + 1, d[i + 1])
    OBVIOUS
  <2>3. PICK h : h = [j \in i .. n |-> IF j = i THEN c ELSE g[j]]
    OBVIOUS
  <2>4. DOMAIN h = i .. n /\ h[i] = c /\ \A j \in i + 1 .. n : h[j] = g[j]
    BY <2>3
  <2>5. h[n] = Deck(n)
    BY <2>1, <2>4
  <2>6. ASSUME NEW j \in i .. n - 1 PROVE h[j] = Swap(h[j + 1], j + 1, d[j + 1])
    <3>1. h[j + 1] = g[j + 1]
      <4>1. j + 1 \in i + 1 .. n
        OBVIOUS
      <4> QED
        BY <2>4, <4>1
    <3>2. CASE j = i
      BY <2>2, <2>4, <3>1, <3>2, Zenon
    <3>3. CASE j # i
      <4>1. j \in i + 1 .. n - 1 /\ j \in i + 1 .. n
        BY <3>3
      <4>2. g[j] = Swap(g[j + 1], j + 1, d[j + 1])
        BY <2>1, <4>1
      <4> QED
        BY <2>4, <3>1, <4>1, <4>2, Zenon
    <3> QED
      BY <3>2, <3>3
  <2>7. P(i, h)
    BY <2>4, <2>5, <2>6
  <2> HIDE DEF P
  <2> QED
    BY <2>7
<1>3. 1 \in T
  <2> HIDE DEF T
  <2> QED
    BY <1>1, <1>2, Downward
<1>4. PICK g : P(1, g)
  BY <1>3
<1>5. PICK f : f = [i \in 1 .. n |-> g[i]]
  OBVIOUS
<1>6. \A i \in 1 .. n : f[i] = g[i]
  BY <1>5
<1>7. f = [i \in 1 .. n |-> f[i]]
  BY <1>5, <1>6
<1>8. f[n] = Deck(n)
  BY <1>4, <1>6
<1>9. ASSUME NEW i \in 1 .. n - 1 PROVE f[i] = Swap(f[i + 1], i + 1, d[i + 1])
  <2>1. i \in 1 .. n /\ i + 1 \in 1 .. n
    OBVIOUS
  <2>2. g[i] = Swap(g[i + 1], i + 1, d[i + 1])
    BY <1>4
  <2> QED
    BY <1>6, <2>1, <2>2, Zenon
<1> QED
  BY <1>7, <1>8, <1>9 DEF Stages

LEMMA DeckIsPermutation ==
    ASSUME NEW n \in Nat
    PROVE  Permutation(Deck(n), n) /\ Len(Deck(n)) = n
BY DEF Permutation, Deck

\* The shuffle goes through the stages.
LEMMA ShuffleStages ==
    ASSUME NEW n \in Nat \ {0}, NEW d
    PROVE  \E f : Stages(n, d, f) /\ Shuffle(Deck(n), d) = f[1]
<1>1. PICK c : c = Deck(n)
  OBVIOUS
<1>2. Len(c) = n /\ c # <<>>
  <2>1. Len(c) = n
    BY <1>1, DeckIsPermutation
  <2> QED
    BY <2>1
<1> DEFINE R(f) == f = [i \in 1 .. Len(c) |-> IF i = Len(c) THEN c ELSE Swap(f[i + 1], i + 1, d[i + 1])]
           after == CHOOSE f : R(f)
<1>3. PICK g : Stages(n, d, g)
  BY StagesExist
<1>4. R(g)
  <2>1. g = [i \in 1 .. n |-> g[i]]
    BY <1>3 DEF Stages
  <2>2. ASSUME NEW i \in 1 .. n PROVE g[i] = IF i = n THEN c ELSE Swap(g[i + 1], i + 1, d[i + 1])
    <3>1. CASE i = n
      BY <1>1, <1>3, <3>1, Zenon DEF Stages
    <3>2. CASE i # n
      <4>1. i \in 1 .. n - 1
        BY <3>2
      <4> QED
        BY <1>3, <3>2, <4>1, Zenon DEF Stages
    <3> QED
      BY <3>1, <3>2
  <2> QED
    BY <1>2, <2>1, <2>2
<1>5. R(after)
  BY <1>4
<1>6. Shuffle(c, d) = after[1]
  BY <1>2 DEF Shuffle
<1> HIDE DEF after
<1>7. DOMAIN after = 1 .. n /\ \A i \in 1 .. n : after[i] = IF i = n THEN c ELSE Swap(after[i + 1], i + 1, d[i + 1])
  BY <1>2, <1>5
<1>8. after = [i \in 1 .. n |-> after[i]]
  BY <1>2, <1>5
<1>9. Stages(n, d, after)
  <2>1. n \in 1 .. n /\ \A i \in 1 .. n - 1 : i \in 1 .. n /\ i # n
    OBVIOUS
  <2>2. after[n] = c
    BY <1>7, <2>1
  <2>3. ASSUME NEW i \in 1 .. n - 1 PROVE after[i] = Swap(after[i + 1], i + 1, d[i + 1])
    BY <1>7, <2>1, Zenon
  <2> QED
    BY <1>1, <1>8, <2>2, <2>3, Zenon DEF Stages
<1> QED
  BY <1>1, <1>6, <1>9

\* q is p with the positions i and k swapped.
Swapped(q, p, i, k, n) ==
    /\ q[i] = p[k]
    /\ \A j \in 1 .. n : j # i /\ j # k => q[j] = p[j]

LEMMA SwapPermutes ==
    ASSUME NEW n \in Nat, NEW p, Permutation(p, n), NEW i \in 1 .. n, NEW k \in 1 .. n,
           NEW q, q = Swap(p, i, k)
    PROVE  Permutation(q, n) /\ Swapped(q, p, i, k, n)
<1>1. q = Swap(p, i, k)
  OBVIOUS
<1>2. p \in [1 .. n -> 1 .. n]
  BY DEF Permutation
<1>3. q \in [1 .. n -> 1 .. n]
  BY <1>1, <1>2 DEF Swap
<1>4. q[i] = p[k] /\ q[k] = p[i] /\ \A j \in 1 .. n : j # i /\ j # k => q[j] = p[j]
  BY <1>1, <1>2 DEF Swap
<1>5. \A a, b \in 1 .. n : p[a] = p[b] => a = b
  BY DEF Permutation
<1>6. \A v \in 1 .. n : \E j \in 1 .. n : p[j] = v
  BY DEF Permutation
<1>7. ASSUME NEW a \in 1 .. n, NEW b \in 1 .. n, q[a] = q[b] PROVE a = b
  BY <1>4, <1>5, <1>7
<1>8. ASSUME NEW v \in 1 .. n PROVE \E j \in 1 .. n : q[j] = v
  <2>1. PICK j \in 1 .. n : p[j] = v
    BY <1>6
  <2>2. CASE j = i
    BY <1>4, <2>1, <2>2
  <2>3. CASE j = k
    BY <1>4, <2>1, <2>3
  <2>4. CASE j # i /\ j # k
    BY <1>4, <2>1, <2>4
  <2> QED
    BY <2>2, <2>3, <2>4
<1>9. Permutation(q, n)
  BY <1>3, <1>7, <1>8 DEF Permutation
<1> QED
  BY <1>4, <1>9 DEF Swapped

LEMMA StagesPermute ==
    ASSUME NEW n \in Nat \ {0}, NEW d \in Draws(n), NEW f, Stages(n, d, f)
    PROVE  \A i \in 1 .. n : Permutation(f[i], n)
<1> DEFINE T == {i \in Nat : Permutation(f[i], n)}
<1>1. n \in T
  BY DeckIsPermutation DEF Stages
<1>2. ASSUME NEW i \in 1 .. n - 1, i + 1 \in T PROVE i \in T
  <2>1. f[i] = Swap(f[i + 1], i + 1, d[i + 1])
    BY DEF Stages
  <2>0. PICK a : a = f[i + 1]
    OBVIOUS
  <2>2. PICK m \in 1 .. n, k \in 1 .. n : m = i + 1 /\ k = d[i + 1] /\ a = f[i + 1]
    BY <2>0 DEF Draws
  <2>3. Permutation(a, n)
    BY <1>2, <2>2
  <2>4. Permutation(f[i], n)
    BY <2>1, <2>2, <2>3, SwapPermutes
  <2> QED
    BY <2>4
<1>3. \A i \in 1 .. n : i \in T
  <2> HIDE DEF T
  <2> QED
    BY <1>1, <1>2, Downward
<1> QED
  BY <1>3

\* A position that was drawn for stays as it is.
LEMMA StagesSettle ==
    ASSUME NEW n \in Nat \ {0}, NEW d \in Draws(n), NEW f, Stages(n, d, f), NEW m \in 1 .. n - 1
    PROVE  f[1][m + 1] = f[m][m + 1]
<1> DEFINE T == {i \in Nat : f[i][m + 1] = f[m][m + 1]}
<1>1. m \in T
  OBVIOUS
<1>2. ASSUME NEW i \in 1 .. m - 1, i + 1 \in T PROVE i \in T
  <2>0. i \in 1 .. n - 1 /\ i + 1 \in 2 .. n /\ i + 1 \in 1 .. n
    OBVIOUS
  <2>1. f[i] = Swap(f[i + 1], i + 1, d[i + 1])
    BY <2>0 DEF Stages
  <2>2. d[i + 1] \in 1 .. n /\ d[i + 1] <= i + 1
    BY <2>0 DEF Draws
  <2>3. Permutation(f[i + 1], n)
    BY <2>0, StagesPermute
  <2>4. m + 1 \in 1 .. n /\ m + 1 # i + 1 /\ m + 1 # d[i + 1]
    BY <2>2
  <2>5. f[i][m + 1] = f[i + 1][m + 1]
    <3>0. PICK a : a = f[i + 1]
      OBVIOUS
    <3>1. PICK k \in 1 .. n, j \in 1 .. n : a = f[i + 1] /\ k = d[i + 1] /\ j = i + 1
      BY <2>0, <2>2, <3>0
    <3>2. Permutation(a, n)
      BY <2>3, <3>1
    <3>3. f[i] = Swap(a, j, k)
      BY <2>1, <3>1, Zenon
    <3>4. Swapped(f[i], a, j, k, n)
      BY <3>2, <3>3, SwapPermutes
    <3> QED
      BY <2>4, <3>1, <3>4 DEF Swapped
  <2> QED
    BY <1>2, <2>5
<1>3. 1 \in T
  <2> HIDE DEF T
  <2> QED
    BY <1>1, <1>2, Downward
<1> QED
  BY <1>3

\* The same draws above m lead to the same stage m.
LEMMA StagesAgree ==
    ASSUME NEW n \in Nat \ {0}, NEW d, NEW f, Stages(n, d, f), NEW e, NEW g, Stages(n, e, g),
           NEW m \in 1 .. n, \A j \in m + 1 .. n : d[j] = e[j]
    PROVE  f[m] = g[m]
<1> DEFINE T == {i \in Nat : f[i] = g[i]}
<1>1. n \in T
  BY DEF Stages
<1>2. ASSUME NEW i \in m .. n - 1, i + 1 \in T PROVE i \in T
  <2>0. i \in 1 .. n - 1
    OBVIOUS
  <2>1. f[i] = Swap(f[i + 1], i + 1, d[i + 1]) /\ g[i] = Swap(g[i + 1], i + 1, e[i + 1])
    BY <2>0, Zenon DEF Stages
  <2>2. f[i + 1] = g[i + 1] /\ d[i + 1] = e[i + 1]
    BY <1>2
  <2>3. f[i] = g[i]
    BY <2>1, <2>2, Zenon
  <2> QED
    BY <2>3
<1>3. m \in T
  <2> HIDE DEF T
  <2> QED
    BY <1>1, <1>2, Downward
<1> QED
  BY <1>3

\* Different draws, different orders.
LEMMA ShuffleIsInjective ==
    ASSUME NEW n \in Nat \ {0}, NEW d \in Draws(n), NEW e \in Draws(n), Shuffle(Deck(n), d) = Shuffle(Deck(n), e)
    PROVE  d = e
<1>1. PICK f : Stages(n, d, f) /\ Shuffle(Deck(n), d) = f[1]
  BY ShuffleStages
<1>2. PICK g : Stages(n, e, g) /\ Shuffle(Deck(n), e) = g[1]
  BY ShuffleStages
<1>3. f[1] = g[1]
  BY <1>1, <1>2
<1> DEFINE T == {i \in Nat : \A j \in i + 1 .. n : d[j] = e[j]}
<1>4. n \in T
  OBVIOUS
<1>5. ASSUME NEW i \in 1 .. n - 1, i + 1 \in T PROVE i \in T
  <2>0. i + 1 \in 1 .. n /\ d[i + 1] \in 1 .. n /\ e[i + 1] \in 1 .. n
    BY DEF Draws
  <2>1. \A j \in (i + 1) + 1 .. n : d[j] = e[j]
    BY <1>5
  <2>2. f[i + 1] = g[i + 1]
    BY <1>1, <1>2, <2>0, <2>1, StagesAgree
  <2>3. PICK a : a = f[i + 1] /\ a = g[i + 1] /\ Permutation(a, n)
    BY <1>1, <2>0, <2>2, StagesPermute
  <2>4. f[i][i + 1] = a[d[i + 1]]
    <3>1. f[i] = Swap(a, i + 1, d[i + 1])
      BY <1>1, <2>3 DEF Stages
    <3>2. PICK k \in 1 .. n, j \in 1 .. n : k = d[i + 1] /\ j = i + 1
      BY <2>0
    <3>3. f[i] = Swap(a, j, k)
      BY <3>1, <3>2, Zenon
    <3>4. Swapped(f[i], a, j, k, n)
      BY <2>3, <3>3, SwapPermutes
    <3> QED
      BY <3>2, <3>4 DEF Swapped
  <2>5. g[i][i + 1] = a[e[i + 1]]
    <3>1. g[i] = Swap(a, i + 1, e[i + 1])
      BY <1>2, <2>3 DEF Stages
    <3>2. PICK k \in 1 .. n, j \in 1 .. n : k = e[i + 1] /\ j = i + 1
      BY <2>0
    <3>3. g[i] = Swap(a, j, k)
      BY <3>1, <3>2, Zenon
    <3>4. Swapped(g[i], a, j, k, n)
      BY <2>3, <3>3, SwapPermutes
    <3> QED
      BY <3>2, <3>4 DEF Swapped
  <2>6. f[1][i + 1] = f[i][i + 1] /\ g[1][i + 1] = g[i][i + 1]
    BY <1>1, <1>2, StagesSettle
  <2>7. a[d[i + 1]] = a[e[i + 1]]
    BY <1>3, <2>4, <2>5, <2>6
  <2>8. d[i + 1] = e[i + 1]
    <3>1. PICK k \in 1 .. n, l \in 1 .. n : k = d[i + 1] /\ l = e[i + 1]
      BY <2>0
    <3>2. a[k] = a[l]
      BY <2>7, <3>1, Zenon
    <3>3. k = l
      BY <2>3, <3>2 DEF Permutation
    <3> QED
      BY <3>1, <3>3
  <2>9. ASSUME NEW j \in i + 1 .. n PROVE d[j] = e[j]
    <3>1. CASE j = i + 1
      BY <2>8, <3>1
    <3>2. CASE j # i + 1
      <4>1. j \in (i + 1) + 1 .. n
        BY <3>2
      <4> QED
        BY <2>1, <4>1
    <3> QED
      BY <3>1, <3>2
  <2> QED
    BY <2>9
<1>6. 1 \in T
  <2> HIDE DEF T
  <2> QED
    BY <1>4, <1>5, Downward
<1>7. \A j \in 2 .. n : d[j] = e[j]
  BY <1>6
<1> QED
  BY <1>7 DEF Draws

\* Every order is drawn.
LEMMA ShuffleIsSurjective ==
    ASSUME NEW n \in Nat \ {0}, NEW p, Permutation(p, n)
    PROVE  \E d \in Draws(n) : Shuffle(Deck(n), d) = p
<1>0. /\ p \in [1 .. n -> 1 .. n] /\ \A i, j \in 1 .. n : p[i] = p[j] => i = j
      /\ \A v \in 1 .. n : \E i \in 1 .. n : p[i] = v
  BY DEF Permutation
<1> DEFINE P(i, d, f) == Stages(n, d, f) /\ \A j \in i + 1 .. n : f[i][j] = p[j]
           T == {i \in Nat : \E d \in Draws(n) : \E f : P(i, d, f)}
<1>1. n \in T
  <2>1. PICK d : d = [j \in 2 .. n |-> 1]
    OBVIOUS
  <2>2. d \in Draws(n)
    BY <2>1 DEF Draws
  <2>3. PICK f : Stages(n, d, f)
    BY StagesExist
  <2>4. P(n, d, f)
    BY <2>3
  <2> HIDE DEF P
  <2> QED
    BY <2>2, <2>4
<1>2. ASSUME NEW i \in 1 .. n - 1, i + 1 \in T PROVE i \in T
  <2>1. PICK d \in Draws(n) : \E f : P(i + 1, d, f)
    BY <1>2
  <2>2. PICK f : P(i + 1, d, f)
    BY <2>1
  <2>3. i + 1 \in 1 .. n /\ i + 1 \in 2 .. n
    OBVIOUS
  <2>4. PICK a : a = f[i + 1] /\ Permutation(a, n)
    BY <2>2, <2>3, StagesPermute
  <2>5. \A j \in (i + 1) + 1 .. n : a[j] = p[j]
    BY <2>2, <2>4
  <2>6. PICK k \in 1 .. n : a[k] = p[i + 1]
    <3>1. p[i + 1] \in 1 .. n
      BY <1>0, <2>3
    <3> QED
      BY <2>4, <3>1 DEF Permutation
  <2>7. k <= i + 1
    <3> SUFFICES ASSUME k > i + 1 PROVE FALSE
      OBVIOUS
    <3>1. k \in (i + 1) + 1 .. n
      OBVIOUS
    <3>2. p[k] = p[i + 1]
      BY <2>5, <2>6, <3>1
    <3> QED
      BY <1>0, <2>3, <3>2
  <2>8. PICK e : e = [d EXCEPT ![i + 1] = k]
    OBVIOUS
  <2>9. e \in Draws(n) /\ e[i + 1] = k /\ \A j \in (i + 1) + 1 .. n : e[j] = d[j]
    BY <2>3, <2>7, <2>8 DEF Draws
  <2>10. PICK g : Stages(n, e, g)
    BY StagesExist
  <2>11. g[i + 1] = a
    <3>1. g[i + 1] = f[i + 1]
      BY <2>2, <2>3, <2>9, <2>10, StagesAgree
    <3> QED
      BY <2>4, <3>1
  <2>12. g[i] = Swap(a, i + 1, k)
    BY <2>9, <2>10, <2>11 DEF Stages
  <2>13. /\ g[i][i + 1] = p[i + 1]
         /\ \A j \in 1 .. n : j # i + 1 /\ j # k => g[i][j] = a[j]
    <3>1. PICK l \in 1 .. n : l = i + 1
      BY <2>3
    <3>2. g[i] = Swap(a, l, k)
      BY <2>12, <3>1, Zenon
    <3>3. Swapped(g[i], a, l, k, n)
      BY <2>4, <3>2, SwapPermutes
    <3> QED
      BY <2>6, <3>1, <3>3 DEF Swapped
  <2>14. ASSUME NEW j \in i + 1 .. n PROVE g[i][j] = p[j]
    <3>1. CASE j = i + 1
      BY <2>13, <3>1
    <3>2. CASE j # i + 1
      <4>1. j \in (i + 1) + 1 .. n /\ j \in 1 .. n /\ j # k
        BY <2>7, <3>2
      <4> QED
        BY <2>5, <2>13, <3>2, <4>1
    <3> QED
      BY <3>1, <3>2
  <2>15. P(i, e, g)
    BY <2>10, <2>14
  <2> HIDE DEF P
  <2> QED
    BY <2>9, <2>15
<1>3. 1 \in T
  <2> HIDE DEF T
  <2> QED
    BY <1>1, <1>2, Downward
<1>4. PICK d \in Draws(n) : \E f : P(1, d, f)
  BY <1>3
<1>5. PICK f : P(1, d, f)
  BY <1>4
<1>6. PICK g : Stages(n, d, g) /\ Shuffle(Deck(n), d) = g[1]
  BY ShuffleStages
<1>7. f[1] = g[1]
  <2>1. 1 \in 1 .. n /\ \A j \in 1 + 1 .. n : d[j] = d[j]
    OBVIOUS
  <2> QED
    BY <1>5, <1>6, <2>1, StagesAgree
<1>8. PICK a : a = g[1] /\ Permutation(a, n)
  BY <1>4, <1>6, StagesPermute
<1>9. \A j \in 2 .. n : a[j] = p[j]
  BY <1>5, <1>7, <1>8
<1>10. a[1] = p[1]
  <2>1. PICK k \in 1 .. n : a[k] = p[1]
    <3>1. PICK v \in 1 .. n : v = p[1]
      BY <1>0
    <3>2. \E k \in 1 .. n : a[k] = v
      BY <1>8 DEF Permutation
    <3> QED
      BY <3>1, <3>2
  <2>2. CASE k = 1
    BY <2>1, <2>2
  <2>3. CASE k # 1
    <3>1. p[k] = p[1]
      BY <1>9, <2>1, <2>3
    <3> QED
      BY <1>0, <2>3, <3>1
  <2> QED
    BY <2>2, <2>3
<1>11. a = p
  <2>1. a \in [1 .. n -> 1 .. n]
    BY <1>8 DEF Permutation
  <2>2. \A j \in 1 .. n : a[j] = p[j]
    BY <1>9, <1>10
  <2> QED
    BY <1>0, <2>1, <2>2
<1> QED
  BY <1>4, <1>6, <1>8, <1>11

LEMMA ShuffleIsPermutation ==
    ASSUME NEW n \in Nat \ {0}, NEW d \in Draws(n)
    PROVE  Permutation(Shuffle(Deck(n), d), n)
<1>1. PICK f : Stages(n, d, f) /\ Shuffle(Deck(n), d) = f[1]
  BY ShuffleStages
<1>2. 1 \in 1 .. n
  OBVIOUS
<1> QED
  BY <1>1, <1>2, StagesPermute

LEMMA ElementsOfDeck ==
    ASSUME NEW n \in Nat
    PROVE  Elements(Deck(n)) = 1 .. n
<1>1. PICK c : c = Deck(n) /\ Len(c) = n
  BY DeckIsPermutation
<1>2. \A i \in 1 .. n : c[i] = i
  BY <1>1 DEF Deck
<1>3. Elements(c) = {c[i] : i \in 1 .. n}
  BY <1>1 DEF Elements
<1> QED
  BY <1>1, <1>2, <1>3

\* The orders of a deck are the functions that reach all of it.
LEMMA OrdersArePermutations ==
    ASSUME NEW n \in Nat, NEW p \in [1 .. n -> 1 .. n]
    PROVE  Elements(p) = 1 .. n <=> Permutation(p, n)
<1>1. Len(p) = n
  OBVIOUS
<1>2. Elements(p) = {p[i] : i \in 1 .. n}
  BY <1>1 DEF Elements
<1>3. ASSUME Permutation(p, n) PROVE Elements(p) = 1 .. n
  <2>1. \A v \in 1 .. n : \E i \in 1 .. n : p[i] = v
    BY <1>3 DEF Permutation
  <2> QED
    BY <1>2, <2>1
<1>4. ASSUME Elements(p) = 1 .. n PROVE Permutation(p, n)
  <2>1. \A v \in 1 .. n : \E i \in 1 .. n : p[i] = v
    BY <1>2, <1>4
  <2>2. p \in Surjection(1 .. n, 1 .. n)
    BY <2>1 DEF Surjection
  <2>3. p \in Injection(1 .. n, 1 .. n)
    <3>1. IsFiniteSet(1 .. n)
      BY IntervalIsFinite
    <3> QED
      BY <2>2, <3>1, FS_SurjSameCardinalityImpliesInj
  <2>4. \A i, j \in 1 .. n : p[i] = p[j] => i = j
    BY <2>3 DEF Injection, IsInjective
  <2> QED
    BY <2>1, <2>4 DEF Permutation
<1> QED
  BY <1>3, <1>4

\* The first k of an order are k different items.
LEMMA ItemsDiffer ==
    ASSUME NEW n \in Nat, NEW p, Permutation(p, n), NEW k \in 0 .. n
    PROVE  Cardinality(Elements(SubSeq(p, 1, k))) = k
<1>0. p \in Seq(1 .. n) /\ Len(p) = n /\ \A i, j \in 1 .. n : p[i] = p[j] => i = j
  BY DEF Permutation
<1>1. PICK s : s = SubSeq(p, 1, k)
  OBVIOUS
<1>2. Len(s) = k /\ s \in Seq(1 .. n) /\ \A i \in 1 .. k : s[i] = p[i]
  BY <1>0, <1>1
<1>3. PICK E : E = Elements(s) /\ E = {s[i] : i \in 1 .. k}
  BY <1>2 DEF Elements
<1>4. s \in [1 .. k -> E]
  BY <1>2, <1>3
<1>5. \A i, j \in 1 .. k : s[i] = s[j] => i = j
  BY <1>0, <1>2
<1>6. \A v \in E : \E i \in 1 .. k : s[i] = v
  BY <1>3
<1>7. s \in Bijection(1 .. k, E)
  BY <1>4, <1>5, <1>6 DEF Bijection, Injection, IsInjective, Surjection
<1>8. ExistsBijection(1 .. k, E)
  BY <1>7 DEF ExistsBijection
<1>9. Cardinality(E) = k
  BY <1>8, FS_CountingElements
<1> QED
  BY <1>1, <1>3, <1>9

\* Every sequence of draws gives an order of its own, and all of them.
LEMMA DrawsAreOrders ==
    ASSUME NEW n \in Nat
    PROVE  /\ \A d, f \in Draws(n) : d # f => Shuffle(Deck(n), d) # Shuffle(Deck(n), f)
           /\ {Shuffle(Deck(n), d) : d \in Draws(n)} = {p \in [1 .. n -> 1 .. n] : Elements(p) = 1 .. n}
<1>1. CASE n = 0
  <2>1. Deck(0) = <<>>
    BY DEF Deck
  <2>2. \A d : Shuffle(Deck(0), d) = <<>>
    BY <2>1 DEF Shuffle
  <2>3. \A d, f \in Draws(0) : d = f
    BY DEF Draws
  <2>4. Draws(0) # {}
    <3>1. [j \in 2 .. 0 |-> 1] \in Draws(0)
      BY DEF Draws
    <3> QED
      BY <3>1
  <2>5. \A p : p \in [1 .. 0 -> 1 .. 0] <=> p = <<>>
    <3>1. PICK e : e = Deck(0) /\ e = <<>> /\ e \in [1 .. 0 -> 1 .. 0]
      BY <2>1 DEF Deck
    <3>2. ASSUME NEW p \in [1 .. 0 -> 1 .. 0] PROVE p = e
      <4>1. \A i \in 1 .. 0 : p[i] = e[i]
        OBVIOUS
      <4> QED
        BY <3>1, <4>1
    <3> QED
      BY <3>1, <3>2
  <2>6. Elements(<<>>) = 1 .. 0
    BY DEF Elements
  <2>7. {p \in [1 .. 0 -> 1 .. 0] : Elements(p) = 1 .. 0} = {<<>>}
    BY <2>5, <2>6
  <2>8. {Shuffle(Deck(0), d) : d \in Draws(0)} = {<<>>}
    BY <2>2, <2>4
  <2> QED
    BY <1>1, <2>3, <2>7, <2>8
<1>2. CASE n # 0
  <2>0. n \in Nat \ {0}
    BY <1>2
  <2>1. \A d, f \in Draws(n) : d # f => Shuffle(Deck(n), d) # Shuffle(Deck(n), f)
    BY <2>0, ShuffleIsInjective
  <2>2. ASSUME NEW d \in Draws(n) PROVE Shuffle(Deck(n), d) \in {p \in [1 .. n -> 1 .. n] : Elements(p) = 1 .. n}
    <3>1. PICK p : p = Shuffle(Deck(n), d) /\ Permutation(p, n)
      BY <2>0, ShuffleIsPermutation
    <3>2. p \in [1 .. n -> 1 .. n]
      BY <3>1 DEF Permutation
    <3>3. Elements(p) = 1 .. n
      BY <3>1, <3>2, OrdersArePermutations
    <3> QED
      BY <3>1, <3>2, <3>3
  <2>3. ASSUME NEW p \in [1 .. n -> 1 .. n], Elements(p) = 1 .. n
        PROVE  \E d \in Draws(n) : Shuffle(Deck(n), d) = p
    <3>1. Permutation(p, n)
      BY <2>3, OrdersArePermutations
    <3> QED
      BY <2>0, <3>1, ShuffleIsSurjective
  <2> QED
    BY <2>1, <2>2, <2>3
<1> QED
  BY <1>1, <1>2

\* What is served while M4b is away has as many different items as slots.
LEMMA LocalSlate ==
    ASSUME NEW n \in Nat, NEW r, r.candidates = Deck(n), r.slots # None => r.slots \in Nat, r.client = FALSE,
           NEW a \in assign_slate(r), a.status = "ok", a.items # <<>>
    PROVE  Cardinality(Elements(a.items)) = r.slots
<1>0. Len(r.candidates) = n
  BY DeckIsPermutation
<1>1. \A code, items : Slate(code, items).status = code /\ Slate(code, items).items = items
  BY DEF Slate
<1>2. select_slate(r.client) = {}
  BY DEF select_slate
<1>3. /\ r.slots # None /\ r.slots # 0 /\ ~(n < r.slots)
      /\ \E d \in Draws(n) : a = Slate("ok", SubSeq(Shuffle(Deck(n), d), 1, r.slots))
  <2>1. ASSUME a = Slate("ok", <<>>) PROVE FALSE
    BY <1>1, <2>1
  <2>2. ASSUME NEW code, code # "ok", a = Slate(code, <<>>) PROVE FALSE
    BY <1>1, <2>2
  <2> QED
    BY <1>0, <1>2, <2>1, <2>2 DEF assign_slate
<1>4. PICK d \in Draws(n) : a = Slate("ok", SubSeq(Shuffle(Deck(n), d), 1, r.slots))
  BY <1>3
<1>5. PICK k \in 1 .. n : k = r.slots
  BY <1>3
<1>6. n \in Nat \ {0}
  BY <1>5
<1>7. PICK p : p = Shuffle(Deck(n), d) /\ Permutation(p, n)
  BY <1>6, ShuffleIsPermutation
<1>8. a.items = SubSeq(p, 1, k)
  BY <1>1, <1>4, <1>5, <1>7
<1>9. k \in 0 .. n
  BY <1>5
<1> QED
  BY <1>5, <1>7, <1>8, <1>9, ItemsDiffer

LEMMA SlatesAreFair ==
    ASSUME SlateInit
    PROVE  SlateIsFair
<1>1. PICK known \in BOOLEAN, client \in BOOLEAN, state \in {"RUNNING", "PAUSED"},
           slots \in {None} \cup 0 .. MaxCandidates, n \in 0 .. MaxCandidates :
        st = [algo |-> "slate",
              request |-> [known |-> known, client |-> client, state |-> state, slots |-> slots,
                           candidates |-> [i \in 1 .. n |-> i]]]
  BY Zenon DEF SlateInit
<1>2. n \in Nat /\ (slots # None => slots \in Nat)
  <2>1. MaxCandidates \in Nat
    BY AssignmentAssumption
  <2> QED
    BY <1>1, <2>1
<1>3. PICK r : r = [known |-> known, client |-> client, state |-> state, slots |-> slots,
                    candidates |-> Deck(n)]
  OBVIOUS
<1>4. st.request = r
  BY <1>1, <1>3 DEF Deck
<1>5. r.candidates = Deck(n) /\ r.slots = slots /\ r.client = client
  BY <1>3
<1>6. Len(Deck(n)) = n /\ Elements(Deck(n)) = 1 .. n
  BY <1>2, DeckIsPermutation, ElementsOfDeck
<1>7. ASSUME NEW a \in assign_slate(r), a.status = "ok", a.items # <<>>, ~r.client
      PROVE  Cardinality(Elements(a.items)) = r.slots
  <2>1. r.client = FALSE
    BY <1>1, <1>5, <1>7
  <2>2. r.slots # None => r.slots \in Nat
    BY <1>2, <1>5
  <2> QED
    BY <1>2, <1>5, <1>7, <2>1, <2>2, LocalSlate
<1>8. /\ \A d, f \in Draws(n) : d # f => Shuffle(Deck(n), d) # Shuffle(Deck(n), f)
      /\ {Shuffle(Deck(n), d) : d \in Draws(n)} = {p \in [1 .. n -> 1 .. n] : Elements(p) = 1 .. n}
  BY <1>2, DrawsAreOrders
<1> QED
  BY <1>4, <1>5, <1>6, <1>7, <1>8 DEF SlateIsFair

-----------------------------------------------------------------------------
(* Assignment: every state of the spec.                                    *)

ServingInv == BatchInv \/ TargetingInit \/ SlateInit \/ VariantsInit \/ TypesInit

LEMMA Named ==
    /\ TargetingInit => st.algo = "targeting"
    /\ SlateInit => st.algo = "slate"
    /\ VariantsInit => st.algo = "variants"
    /\ TypesInit => st.algo = "types"
<1>1. ASSUME TargetingInit PROVE st.algo = "targeting"
  <2>1. PICK k \in [1 .. 2 -> {"k", "m"}], o \in [1 .. 2 -> Operators], n \in 0 .. 2,
             v \in Operands, u \in Operands, split \in BOOLEAN, keys \in SUBSET {"k", "m"} :
        LET p(i) == [key |-> k[i], operator |-> o[i], values |-> SubSeq(<<v, u>>, 1, n)]
        IN  st = [algo |-> "targeting", attributes |-> [x \in keys |-> u],
                  rule |-> IF split THEN << <<p(1)>>, <<p(2)>> >> ELSE << <<p(1), p(2)>>, <<>> >>]
    BY <1>1, Zenon DEF TargetingInit
  <2> QED
    BY <2>1
<1>2. ASSUME SlateInit PROVE st.algo = "slate"
  <2>1. \E r : st = [algo |-> "slate", request |-> r]
    BY <1>2, Zenon DEF SlateInit
  <2> QED
    BY <2>1
<1>3. ASSUME VariantsInit PROVE st.algo = "variants"
  <2>1. \E x : st = [algo |-> "variants", experiment |-> x]
    BY <1>3, Zenon DEF VariantsInit
  <2> QED
    BY <2>1
<1>4. ASSUME TypesInit PROVE st.algo = "types"
  BY <1>4 DEF TypesInit
<1> QED
  BY <1>1, <1>2, <1>3, <1>4

LEMMA ServingStarts ==
    ASSUME TargetingInit \/ SlateInit \/ VariantsInit \/ AssignmentInit \/ TypesInit
    PROVE  ServingInv
BY BatchStarts DEF ServingInv

\* TargetingInit of a state s.
Targeted(s) ==
    \E k \in [1 .. 2 -> {"k", "m"}], o \in [1 .. 2 -> Operators], n \in 0 .. 2,
       v \in Operands, u \in Operands, split \in BOOLEAN, keys \in SUBSET {"k", "m"} :
        LET p(i) == [key |-> k[i], operator |-> o[i], values |-> SubSeq(<<v, u>>, 1, n)]
        IN  s = [algo |-> "targeting", attributes |-> [x \in keys |-> u],
                 rule |-> IF split THEN << <<p(1)>>, <<p(2)>> >> ELSE << <<p(1), p(2)>>, <<>> >>]

LEMMA ServingKeeps ==
    ASSUME ServingInv, [AssignmentNext]_st
    PROVE  ServingInv'
<1>1. CASE UNCHANGED st
  <2>1. BatchInv => BatchInv'
    BY <1>1, Zenon DEF BatchInv, Batches
  <2>2. TargetingInit => TargetingInit'
    <3>1. TargetingInit <=> Targeted(st)
      BY Zenon DEF TargetingInit, Targeted
    <3>2. TargetingInit' <=> Targeted(st')
      BY Zenon DEF TargetingInit, Targeted
    <3> QED
      BY <1>1, <3>1, <3>2, Zenon
  <2>3. SlateInit => SlateInit'
    BY <1>1, Zenon DEF SlateInit
  <2>4. VariantsInit => VariantsInit'
    BY <1>1, Zenon DEF VariantsInit
  <2>5. TypesInit => TypesInit'
    BY <1>1 DEF TypesInit
  <2> QED
    BY <2>1, <2>2, <2>3, <2>4, <2>5 DEF ServingInv
<1>2. CASE AssignmentNext
  <2>1. st.algo = "assignment"
    BY <1>2 DEF AssignmentNext, Running
  <2>2. BatchInv
    BY <2>1, Named DEF ServingInv
  <2>3. BatchInv'
    BY <1>2, <2>2, UpdateKeeps, HoldoutKeeps, RegularKeeps DEF AssignmentNext
  <2> QED
    BY <2>3 DEF ServingInv
<1> QED
  BY <1>1, <1>2

LEMMA ServingImplies ==
    ASSUME ServingInv
    PROVE  ExperimentsAreServed
<1>1. CASE BatchInv
  <2>1. st.algo = "assignment"
    BY <1>1 DEF BatchInv, Batches
  <2>2. /\ TargetingFailsClosed /\ SharesAreFair /\ SlateIsFair
        /\ StartedSwitchbackIsServed /\ QuasiHasAPrePeriod
    BY <2>1, Zenon DEF Running, TargetingFailsClosed, SharesAreFair, SlateIsFair,
                       StartedSwitchbackIsServed, QuasiHasAPrePeriod
  <2> QED
    BY <1>1, <2>2, BatchExcludes, BatchSticks, BatchAlternates DEF ExperimentsAreServed, AssignmentIsSound
<1>2. CASE ~BatchInv
  <2>1. TargetingInit \/ SlateInit \/ VariantsInit \/ TypesInit
    BY <1>2 DEF ServingInv
  <2>2. st.algo # "assignment"
    BY <2>1, Named
  <2>3. HoldoutIsExclusive /\ SessionsAreSticky /\ SwitchbackAlternates
    BY <2>2, Zenon DEF Running, HoldoutIsExclusive, SessionsAreSticky, SwitchbackAlternates
  <2>4. TargetingFailsClosed
    <3>1. CASE TargetingInit
      BY <3>1, TargetingIsClosed
    <3>2. CASE ~TargetingInit
      <4>1. st.algo # "targeting"
        BY <2>1, <3>2, Named
      <4> QED
        BY <4>1, Zenon DEF Running, TargetingFailsClosed
    <3> QED
      BY <3>1, <3>2
  <2>5. SlateIsFair
    <3>1. CASE SlateInit
      BY <3>1, SlatesAreFair
    <3>2. CASE ~SlateInit
      <4>1. st.algo # "slate"
        BY <2>1, <3>2, Named
      <4> QED
        BY <4>1, Zenon DEF Running, SlateIsFair
    <3> QED
      BY <3>1, <3>2
  <2>6. SharesAreFair
    <3>1. CASE VariantsInit
      BY <3>1, VariantsAreFair
    <3>2. CASE ~VariantsInit
      <4>1. st.algo # "variants"
        BY <2>1, <3>2, Named
      <4> QED
        BY <4>1, Zenon DEF Running, SharesAreFair
    <3> QED
      BY <3>1, <3>2
  <2>7. StartedSwitchbackIsServed /\ QuasiHasAPrePeriod
    <3>1. CASE TypesInit
      BY <3>1, StartedIsServed, QuasiStarts
    <3>2. CASE ~TypesInit
      <4>1. st.algo # "types"
        BY <2>1, <3>2, Named
      <4> QED
        BY <4>1, Zenon DEF Running, StartedSwitchbackIsServed, QuasiHasAPrePeriod
    <3> QED
      BY <3>1, <3>2
  <2> QED
    BY <2>3, <2>4, <2>5, <2>6, <2>7 DEF ExperimentsAreServed, AssignmentIsSound
<1> QED
  BY <1>1, <1>2

\* Who takes part in an experiment is served as it was set up, whatever the
\* configurations, the hash and the answers of M4b: M1's assignments and M5's
\* conditions for a start.
THEOREM ExperimentsServed == ServingSpec => []ExperimentsAreServed
<1>1. TargetingInit \/ SlateInit \/ VariantsInit \/ AssignmentInit \/ TypesInit => ServingInv
  BY ServingStarts
<1>2. ServingInv /\ [AssignmentNext]_st => ServingInv'
  BY ServingKeeps
<1>3. ServingInv => ExperimentsAreServed
  BY ServingImplies
<1> QED
  BY <1>1, <1>2, <1>3, PTL DEF ServingSpec

-----------------------------------------------------------------------------
(* Flags: the inductive invariant.                                         *)

\* An audit row of a handler, of the reconciler.
Labels == {"create", "update", "enable", "disable", "rollout_change", "promote_to_experiment"}
Entries == [flag : FlagIds, action : Labels]
AutoEntries == [flag : FlagIds, action : {"auto_resolve"}, id : ExperimentIds]

Tasks == [flag : FlagIds, id : ExperimentIds]
Calls == [phase : {"audit"}, entry : Entries]
         \cup [phase : {"update"}, flag : FlagIds, pb : FlagPbs, previous : FlagRows \cup {NoFlag}]
         \cup [phase : {"variants"}, flag : FlagIds, type : PromotionTypes, row : FlagRows]
         \cup [phase : {"create"}, flag : FlagIds, type : PromotionTypes, variants : Seq(Arms)]
         \cup [phase : {"link"}, flag : FlagIds, id : ExperimentIds]
Steps == [phase : {"get", "resolve", "audit"}, flag : FlagIds, id : ExperimentIds]

FlagStates ==
    [algo : {"flags"}, audit : SUBSET (Entries \cup AutoEntries),
     row : [FlagIds -> FlagRows \cup {NoFlag}],
     connected : BOOLEAN, reconciling : BOOLEAN, action : Actions,
     rpc : Calls \cup {Resting}, rec : [Reconcilers -> Steps \cup {Resting}],
     todo : SUBSET Tasks, due : SUBSET Tasks, failed : SUBSET Tasks, auto : [FlagIds -> Nat],
     m5 : Seq(M5Experiments), topic : Seq([id : Nat, state : M5States]), offset : Nat,
     calls : Nat, losses : Nat]

Ended(m5, id) == id \in 1 .. Len(m5) /\ is_terminal(m5[id].state)

\* Every row was validated, and is linked to its own experiment.
RowsInv(row, m5) ==
    \A f \in FlagIds : row[f] # NoFlag =>
        SharesTraffic(row[f].variants) /\ LinkedTo(m5, f, row[f].promoted)

ExperimentsInv(m5) == \A i \in 1 .. Len(m5) : WellFormed(m5[i])

\* The promotion in flight is of a known flag, and carries arms that are
\* well formed and an experiment that was created for the flag.
CallInv(rpc, row, m5) ==
    /\ rpc.phase = "update" => SharesTraffic(rpc.pb.variants) /\ rpc.pb.rollout \in 0 .. FlagBuckets
    /\ rpc.phase \in {"variants", "create", "link"} => row[rpc.flag] # NoFlag
    /\ rpc.phase = "create" => WellFormed([flag |-> rpc.flag, state |-> "DRAFT", type |-> rpc.type,
                                           variants |-> rpc.variants])
    /\ rpc.phase = "link" => LinkedTo(m5, rpc.flag, rpc.id)

\* What a reconciler works on: a known flag and its own experiment.
TaskInv(t, row, m5) == row[t.flag] # NoFlag /\ t.id # 0 /\ LinkedTo(m5, t.flag, t.id)

StepInv(step, row, m5) ==
    step # Resting => TaskInv(step, row, m5) /\ (step.phase # "get" => Ended(m5, step.id))

AuditInv(audit, m5) ==
    \A a \in audit : a.action = "auto_resolve" =>
        a.id # MockId /\ Ended(m5, a.id) /\ m5[a.id].flag = a.flag

TopicInv(topic, m5) == \A i \in 1 .. Len(topic) : topic[i].id \in 1 .. Len(m5)

\* A pass has one task for a flag; the step of the pass is of one of them;
\* what was due and did not fail is still to do or is resolved.
TaskOf(step) == [flag |-> step.flag, id |-> step.id]
PassInv(todo, due, failed, step, row, m5) ==
    /\ \A t \in todo : TaskInv(t, row, m5)
    /\ \A t \in due : TaskInv(t, row, m5) /\ Ended(m5, t.id)
    /\ \A t, u \in todo : t.flag = u.flag => t = u
    /\ step # Resting => TaskOf(step) \in todo
    /\ step.phase = "audit" => row[step.flag].resolved
    /\ \A t \in due \ failed : t \in todo \/ row[t.flag].resolved

\* A flag that the pass resolved stays resolved, and what is to do was not
\* resolved by a pass yet, but for the flag whose audit is being written.
AutoInv(auto, todo, step, row) ==
    /\ \A f \in FlagIds : auto[f] # 0 => auto[f] = 1 /\ row[f] # NoFlag /\ row[f].resolved
    /\ \A t \in todo : auto[t.flag] # 0 => step.phase = "audit" /\ step.flag = t.flag

FlagsInv ==
    /\ st \in FlagStates
    /\ RowsInv(st.row, st.m5) /\ ExperimentsInv(st.m5)
    /\ CallInv(st.rpc, st.row, st.m5)
    /\ \A r \in Reconcilers : StepInv(st.rec[r], st.row, st.m5)
    /\ AuditInv(st.audit, st.m5) /\ TopicInv(st.topic, st.m5)
    /\ PassInv(st.todo, st.due, st.failed, st.rec["periodic"], st.row, st.m5)
    /\ AutoInv(st.auto, st.todo, st.rec["periodic"], st.row)

CallsInv == Running("flags") => FlagsInv

-----------------------------------------------------------------------------
(* Flags: what they evaluate to.                                           *)

\* The sum of two numbers.
LEMMA SumOfTwo ==
    ASSUME NEW s, DOMAIN s = 1 .. 2, Len(s) = 2, s[1] \in Int, s[2] \in Int
    PROVE  SumOf(s) = s[1] + s[2]
<1> DEFINE Adds(f) == f = [i \in 0 .. Len(s) |-> IF i = 0 THEN 0 ELSE f[i - 1] + s[i]]
           g == [i \in 0 .. Len(s) |-> IF i = 0 THEN 0 ELSE IF i = 1 THEN s[1] ELSE s[1] + s[2]]
           sum == CHOOSE f : Adds(f)
<1>1. Adds(g)
  <2>1. \A i \in 0 .. Len(s) : g[i] = IF i = 0 THEN 0 ELSE g[i - 1] + s[i]
    OBVIOUS
  <2>2. \A i \in 0 .. Len(s) : g[i] = [k \in 0 .. Len(s) |-> IF k = 0 THEN 0 ELSE g[k - 1] + s[k]][i]
    BY <2>1
  <2> QED
    BY <2>2
<1>2. Adds(sum)
  BY <1>1
<1>3. sum[0] = 0 /\ sum[1] = sum[0] + s[1] /\ sum[2] = sum[1] + s[2]
  <2> HIDE DEF sum
  <2>1. \A i \in 0 .. Len(s) : sum[i] = IF i = 0 THEN 0 ELSE sum[i - 1] + s[i]
    BY <1>2
  <2>2. 0 \in 0 .. Len(s) /\ 1 \in 0 .. Len(s) /\ 2 \in 0 .. Len(s) /\ 1 - 1 = 0 /\ 2 - 1 = 1
    OBVIOUS
  <2> QED
    BY <2>1, <2>2
<1>4. SumOf(s) = sum[2]
  BY DEF SumOf
<1> QED
  BY <1>3, <1>4

\* The variant a user is given is one of the flag's.
LEMMA VariantIsNotDefault ==
    ASSUME NEW fractions \in Seq(Int), fractions # <<>>, NEW bucket
    PROVE  FlagVariantAt(fractions, bucket) # Default
<1> DEFINE over == {i \in 1 .. Len(fractions) : bucket < SumOf(SubSeq(fractions, 1, i))}
<1>1. Len(fractions) # 0
  OBVIOUS
<1>2. ASSUME over # {} PROVE Least(over) \in over
  <2>1. over \subseteq Nat
    OBVIOUS
  <2>2. \E m \in over : \A x \in over : m <= x
    BY <1>2, <2>1, LeastElement
  <2> QED
    BY <2>2 DEF Least
<1>3. ASSUME over # {} PROVE Least(over) # 0
  <2>1. Least(over) \in 1 .. Len(fractions)
    BY <1>2, <1>3
  <2> QED
    BY <2>1
<1>4. FlagVariantAt(fractions, bucket) = IF over = {} THEN Len(fractions) ELSE Least(over)
  BY DEF FlagVariantAt
<1> QED
  BY <1>1, <1>3, <1>4 DEF Default

\* The arms of a promoted flag are well formed, whichever row they and the
\* variants were read from.
LEMMA ArmsAreWellFormed ==
    ASSUME NEW row \in FlagRows, NEW variants \in Seq(Int), SharesTraffic(variants),
           NEW type, apply_type_config(type, variants),
           NEW e, e.type = type, e.variants = build_variants(row, variants)
    PROVE  WellFormed(e) /\ build_variants(row, variants) \in Seq(Arms)
<1> DEFINE arms == build_variants(row, variants)
<1>1. CASE variants # <<>>
  <2>1. arms = [i \in 1 .. Len(variants) |-> [fraction |-> variants[i], control |-> i = 1]]
    BY <1>1 DEF build_variants
  <2>2. arms \in Seq(Arms) /\ Len(arms) = Len(variants)
    BY <2>1 DEF Arms
  <2>3. [k \in 1 .. Len(arms) |-> arms[k].fraction] = variants
    BY <2>1, <2>2
  <2>4. {k \in 1 .. Len(arms) : arms[k].control} = {1}
    <3>1. \A k \in 1 .. Len(arms) : arms[k].control = (k = 1)
      BY <2>1, <2>2
    <3>2. 1 \in 1 .. Len(arms)
      BY <1>1, <2>2
    <3> HIDE DEF arms
    <3> QED
      BY <3>1, <3>2
  <2>5. Cardinality({1}) = 1
    BY FS_Singleton
  <2>6. type = "MAB" => Len(arms) >= 2
    BY <2>2 DEF apply_type_config
  <2>7. SumOf(variants) = FlagBuckets
    BY <1>1 DEF SharesTraffic
  <2> HIDE DEF arms
  <2>8. WellFormed(e)
    BY <2>3, <2>4, <2>5, <2>6, <2>7 DEF WellFormed, arms
  <2> QED
    BY <2>2, <2>8 DEF arms
<1>2. CASE variants = <<>>
  <2>0. FlagBuckets \in Nat /\ row.rollout \in 0 .. FlagBuckets
    BY FlagsAssumption DEF FlagRows
  <2>1. arms = <<[fraction |-> FlagBuckets - row.rollout, control |-> TRUE],
                 [fraction |-> row.rollout, control |-> FALSE]>>
    BY <1>2 DEF build_variants
  <2>2. arms \in Seq(Arms) /\ Len(arms) = 2
    BY <2>0, <2>1 DEF Arms
  <2>3. /\ arms[1].fraction = FlagBuckets - row.rollout /\ arms[1].control = TRUE
        /\ arms[2].fraction = row.rollout /\ arms[2].control = FALSE
    BY <2>1
  <2> HIDE DEF arms
  <2> DEFINE s == [k \in 1 .. Len(arms) |-> arms[k].fraction]
  <2>4. DOMAIN s = 1 .. 2 /\ Len(s) = 2 /\ s[1] = FlagBuckets - row.rollout /\ s[2] = row.rollout
    BY <2>2, <2>3
  <2>5. SumOf(s) = s[1] + s[2]
    <3> HIDE DEF s
    <3> QED BY <2>0, <2>4, SumOfTwo
  <2>6. SumOf(s) = FlagBuckets
    <3> HIDE DEF s
    <3> QED BY <2>0, <2>4, <2>5
  <2>7. {k \in 1 .. Len(arms) : arms[k].control} = {1}
    BY <2>2, <2>3
  <2>8. Cardinality({1}) = 1
    BY FS_Singleton
  <2>9. type # "MAB" \/ Len(arms) >= 2
    BY <2>2
  <2>10. WellFormed(e)
    BY <2>6, <2>7, <2>8, <2>9 DEF WellFormed, arms
  <2> QED
    BY <2>2, <2>10 DEF arms
<1> QED
  BY <1>1, <1>2

-----------------------------------------------------------------------------
(* What every step keeps: known flags stay known, resolved ones resolved,  *)
(* experiments stay those of their flags, and over once they are over.     *)

Later(row, m5, row2, m52) ==
    /\ \A f \in FlagIds : row[f] # NoFlag =>
         row2[f] # NoFlag /\ (row[f].resolved => row2[f].resolved)
    /\ Len(m5) <= Len(m52)
    /\ \A i \in 1 .. Len(m5) :
         m52[i].flag = m5[i].flag /\ (is_terminal(m5[i].state) => is_terminal(m52[i].state))

\* Links, ended experiments and tasks survive.
LEMMA LaterLinks ==
    ASSUME NEW row, NEW m5 \in Seq(M5Experiments), NEW row2, NEW m52 \in Seq(M5Experiments),
           Later(row, m5, row2, m52)
    PROVE  /\ \A f, id : LinkedTo(m5, f, id) => LinkedTo(m52, f, id)
           /\ \A id : Ended(m5, id) => Ended(m52, id) /\ m52[id].flag = m5[id].flag
           /\ \A t : t.flag \in FlagIds /\ TaskInv(t, row, m5) => TaskInv(t, row2, m52)
<1>0. Len(m5) \in Nat /\ Len(m52) \in Nat
  OBVIOUS
<1>1. \A i \in 1 .. Len(m5) : i \in 1 .. Len(m52)
  BY <1>0 DEF Later
<1>2. \A f, id : LinkedTo(m5, f, id) => LinkedTo(m52, f, id)
  BY <1>1 DEF LinkedTo, Later
<1>3. \A id : Ended(m5, id) => Ended(m52, id) /\ m52[id].flag = m5[id].flag
  BY <1>1 DEF Ended, Later
<1>4. \A t : t.flag \in FlagIds /\ TaskInv(t, row, m5) => TaskInv(t, row2, m52)
  BY <1>2 DEF TaskInv, Later
<1> QED
  BY <1>2, <1>3, <1>4

\* So do the parts of the invariant whose own fields a step leaves alone.
LEMMA LaterKeeps ==
    ASSUME FlagsInv, st' \in FlagStates, Later(st.row, st.m5, st'.row, st'.m5)
    PROVE  /\ CallInv(st.rpc, st'.row, st'.m5)
           /\ \A r \in Reconcilers : StepInv(st.rec[r], st'.row, st'.m5)
           /\ AuditInv(st.audit, st'.m5)
           /\ TopicInv(st.topic, st'.m5)
           /\ PassInv(st.todo, st.due, st.failed, st.rec["periodic"], st'.row, st'.m5)
           /\ AutoInv(st.auto, st.todo, st.rec["periodic"], st'.row)
<1>0. st \in FlagStates
  BY DEF FlagsInv
<1>1. /\ \A f, id : LinkedTo(st.m5, f, id) => LinkedTo(st'.m5, f, id)
      /\ \A id : Ended(st.m5, id) => Ended(st'.m5, id) /\ st'.m5[id].flag = st.m5[id].flag
      /\ \A t : t.flag \in FlagIds /\ TaskInv(t, st.row, st.m5) => TaskInv(t, st'.row, st'.m5)
  <2>1. st.m5 \in Seq(M5Experiments) /\ st'.m5 \in Seq(M5Experiments)
    BY <1>0 DEF FlagStates
  <2> QED
    BY <2>1, LaterLinks
<1>2. CallInv(st.rpc, st'.row, st'.m5)
  <2>1. st.rpc.phase \in {"variants", "create", "link"} => st.rpc.flag \in FlagIds
    BY <1>0 DEF FlagStates, Calls, Resting
  <2> QED
    BY <1>1, <2>1 DEF FlagsInv, CallInv, Later
<1>3. ASSUME NEW r \in Reconcilers
      PROVE  StepInv(st.rec[r], st'.row, st'.m5)
  <2>1. st.rec[r] # Resting => st.rec[r].flag \in FlagIds
    BY <1>0 DEF FlagStates, Steps
  <2>2. StepInv(st.rec[r], st.row, st.m5)
    BY DEF FlagsInv
  <2> QED
    BY <1>1, <2>1, <2>2 DEF StepInv
<1>4. AuditInv(st.audit, st'.m5)
  BY <1>1 DEF FlagsInv, AuditInv
<1>5. TopicInv(st.topic, st'.m5)
  <2>1. \A i \in 1 .. Len(st.m5) : i \in 1 .. Len(st'.m5)
    BY <1>0 DEF Later, FlagStates
  <2> QED
    BY <2>1 DEF FlagsInv, TopicInv
<1>6. PassInv(st.todo, st.due, st.failed, st.rec["periodic"], st'.row, st'.m5)
  <2> DEFINE step == st.rec["periodic"]
  <2>1. /\ st.todo \subseteq Tasks /\ st.due \subseteq Tasks
        /\ step \in Steps \cup {Resting}
    BY <1>0 DEF FlagStates, Reconcilers
  <2>2. PassInv(st.todo, st.due, st.failed, step, st.row, st.m5)
    BY DEF FlagsInv
  <2> HIDE DEF step
  <2>3. \A t \in Tasks : t.flag \in FlagIds
    BY DEF Tasks
  <2>4. \A t \in st.todo : TaskInv(t, st'.row, st'.m5)
    BY <1>1, <2>1, <2>2, <2>3 DEF PassInv
  <2>5. \A t \in st.due : TaskInv(t, st'.row, st'.m5) /\ Ended(st'.m5, t.id)
    BY <1>1, <2>1, <2>2, <2>3 DEF PassInv
  <2>6. step.phase = "audit" => st'.row[step.flag].resolved
    <3>1. step.phase = "audit" => step # Resting
      BY DEF Resting
    <3>2. step # Resting => TaskOf(step).flag \in FlagIds /\ st.row[TaskOf(step).flag] # NoFlag
      BY <2>1, <2>2, <2>3 DEF PassInv, TaskInv
    <3>3. TaskOf(step).flag = step.flag
      BY DEF TaskOf
    <3> QED
      BY <2>2, <3>1, <3>2, <3>3 DEF PassInv, Later
  <2>7. \A t \in st.due \ st.failed : t \in st.todo \/ st'.row[t.flag].resolved
    BY <2>1, <2>2, <2>3 DEF PassInv, TaskInv, Later
  <2> QED
    BY <2>2, <2>4, <2>5, <2>6, <2>7 DEF PassInv, step
<1>7. AutoInv(st.auto, st.todo, st.rec["periodic"], st'.row)
  BY DEF FlagsInv, AutoInv, Later
<1> QED
  BY <1>2, <1>3, <1>4, <1>5, <1>6, <1>7

\* A step that leaves rows and experiments alone is such a step.
LEMMA SameIsLater ==
    ASSUME FlagsInv, st'.row = st.row, st'.m5 = st.m5
    PROVE  Later(st.row, st.m5, st'.row, st'.m5)
<1>1. Len(st.m5) \in Nat
  BY DEF FlagsInv, FlagStates
<1> QED
  BY <1>1 DEF Later

\* So is one that replaces a row by one that is known, and resolved if the
\* row was.
LEMMA RowIsLater ==
    ASSUME FlagsInv, NEW f \in FlagIds, NEW new \in FlagRows,
           st'.row = [st.row EXCEPT ![f] = new], st'.m5 = st.m5,
           st.row[f] # NoFlag /\ st.row[f].resolved => new.resolved
    PROVE  Later(st.row, st.m5, st'.row, st'.m5)
<1>1. Len(st.m5) \in Nat /\ st.row \in [FlagIds -> FlagRows \cup {NoFlag}]
  BY DEF FlagsInv, FlagStates
<1>2. new # NoFlag
  BY FlagsAssumption
<1> QED
  BY <1>1, <1>2 DEF Later

\* Rows stay valid when the new one is.
LEMMA RowKeepsRows ==
    ASSUME FlagsInv, NEW f \in FlagIds, NEW new \in FlagRows,
           st'.row = [st.row EXCEPT ![f] = new], st'.m5 = st.m5,
           SharesTraffic(new.variants), LinkedTo(st.m5, f, new.promoted)
    PROVE  RowsInv(st'.row, st'.m5)
<1>1. st.row \in [FlagIds -> FlagRows \cup {NoFlag}]
  BY DEF FlagsInv, FlagStates
<1> QED
  BY <1>1 DEF FlagsInv, RowsInv

-----------------------------------------------------------------------------
(* The handlers.                                                           *)

\* What is left to show of a step that only touches the rows, the
\* experiments and the handler's own state.
LEMMA HandlerStep ==
    ASSUME FlagsInv, st' \in FlagStates, Later(st.row, st.m5, st'.row, st'.m5),
           RowsInv(st'.row, st'.m5), ExperimentsInv(st'.m5), CallInv(st'.rpc, st'.row, st'.m5),
           st'.rec = st.rec, st'.todo = st.todo, st'.due = st.due, st'.failed = st.failed,
           st'.auto = st.auto, st'.topic = st.topic, AuditInv(st'.audit, st'.m5)
    PROVE  FlagsInv'
BY LaterKeeps DEF FlagsInv

\* A handler that rests or writes an audit row claims nothing.
LEMMA IdleCall ==
    ASSUME NEW rpc, rpc.phase \in {"idle", "audit"}, NEW row, NEW m5
    PROVE  CallInv(rpc, row, m5)
BY DEF CallInv

\* create_flag.
LEMMA CreateStep ==
    ASSUME FlagsInv, NEW f \in FlagIds, NEW pb \in FlagRequests, create_flag(f, pb)
    PROVE  FlagsInv'
<1>0. st \in FlagStates
  BY DEF FlagsInv
<1>1. pb \in FlagPbs /\ FlagBuckets \in Nat
  BY FlagsAssumption
<1>2. Fresh(pb) \in FlagRows /\ Fresh(pb).promoted = 0 /\ Fresh(pb).variants = pb.variants
  BY <1>1 DEF Fresh, FlagRows, FlagPbs, create_flag, validate_flag, ExperimentIds
<1>3. PICK call : call = [phase |-> "audit", entry |-> [flag |-> f, action |-> "create"]]
  OBVIOUS
<1>4. call \in Calls /\ call.phase = "audit"
  BY <1>3 DEF Calls, Entries, Labels
<1>5. st.calls - 1 \in Nat
  BY <1>0 DEF create_flag, FlagStates
<1>6. /\ st' \in FlagStates
      /\ st'.row = [st.row EXCEPT ![f] = Fresh(pb)] /\ st'.m5 = st.m5 /\ st'.rpc = call
      /\ st'.audit = st.audit /\ st'.rec = st.rec /\ st'.todo = st.todo /\ st'.due = st.due
      /\ st'.failed = st.failed /\ st'.auto = st.auto /\ st'.topic = st.topic
  BY <1>0, <1>2, <1>3, <1>4, <1>5 DEF create_flag, FlagStates
<1>7. Later(st.row, st.m5, st'.row, st'.m5)
  <2>1. ~(st.row[f] # NoFlag /\ st.row[f].resolved)
    BY DEF create_flag, Known
  <2> QED
    BY <1>2, <1>6, <2>1, RowIsLater
<1>8. RowsInv(st'.row, st'.m5)
  <2>1. SharesTraffic(Fresh(pb).variants) /\ LinkedTo(st.m5, f, Fresh(pb).promoted)
    BY <1>2 DEF create_flag, validate_flag, SharesTraffic, LinkedTo
  <2> QED
    BY <1>2, <1>6, <2>1, RowKeepsRows
<1>9. CallInv(st'.rpc, st'.row, st'.m5)
  BY <1>4, <1>6, IdleCall
<1>10. ExperimentsInv(st'.m5) /\ AuditInv(st'.audit, st'.m5)
  BY <1>6 DEF FlagsInv
<1> QED
  BY <1>6, <1>7, <1>8, <1>9, <1>10, HandlerStep

\* Every action of the handlers that only moves the handler on.
LEMMA CallStep ==
    ASSUME FlagsInv, NEW call \in Calls \cup {Resting}, NEW calls \in Nat, NEW losses \in Nat,
           st' = [st EXCEPT !.calls = calls, !.losses = losses, !.rpc = call],
           CallInv(call, st.row, st.m5)
    PROVE  FlagsInv'
<1>0. st \in FlagStates
  BY DEF FlagsInv
<1>1. /\ st' \in FlagStates
      /\ st'.row = st.row /\ st'.m5 = st.m5 /\ st'.rpc = call
      /\ st'.audit = st.audit /\ st'.rec = st.rec /\ st'.todo = st.todo /\ st'.due = st.due
      /\ st'.failed = st.failed /\ st'.auto = st.auto /\ st'.topic = st.topic
  BY <1>0 DEF FlagStates
<1>2. Later(st.row, st.m5, st'.row, st'.m5)
  BY <1>1, SameIsLater
<1>3. /\ RowsInv(st'.row, st'.m5) /\ ExperimentsInv(st'.m5) /\ AuditInv(st'.audit, st'.m5)
      /\ CallInv(st'.rpc, st'.row, st'.m5)
  BY <1>1 DEF FlagsInv
<1> QED
  BY <1>1, <1>2, <1>3, HandlerStep

\* ReadPrevious.
LEMMA ReadPreviousStep ==
    ASSUME FlagsInv, NEW f \in FlagIds, NEW pb \in FlagRequests, ReadPrevious(f, pb)
    PROVE  FlagsInv'
<1>0. st \in FlagStates
  BY DEF FlagsInv
<1>1. pb \in FlagPbs /\ FlagBuckets \in Nat
  BY FlagsAssumption
<1>2. PICK call : call = [phase |-> "update", flag |-> f, pb |-> pb, previous |-> st.row[f]]
  OBVIOUS
<1>3. st.row[f] \in FlagRows \cup {NoFlag}
  BY <1>0 DEF FlagStates
<1>4. call \in Calls
  BY <1>1, <1>2, <1>3 DEF Calls
<1>5. CallInv(call, st.row, st.m5)
  BY <1>1, <1>2 DEF CallInv, ReadPrevious, validate_flag, SharesTraffic
<1>6. st.calls - 1 \in Nat /\ st.losses \in Nat
  BY <1>0 DEF ReadPrevious, FlagStates
<1>7. st' = [st EXCEPT !.calls = st.calls - 1, !.losses = st.losses, !.rpc = call]
  BY <1>0, <1>2 DEF ReadPrevious, FlagStates
<1> QED
  BY <1>4, <1>5, <1>6, <1>7, CallStep

\* PromoteReadRow.
LEMMA PromoteReadRowStep ==
    ASSUME FlagsInv, NEW f \in FlagIds, NEW type \in PromotionTypes, PromoteReadRow(f, type)
    PROVE  FlagsInv'
<1>0. st \in FlagStates
  BY DEF FlagsInv
<1>2. PICK call : call = [phase |-> "variants", flag |-> f, type |-> type, row |-> st.row[f]]
  OBVIOUS
<1>3. st.row[f] \in FlagRows
  BY <1>0 DEF FlagStates, PromoteReadRow, Known
<1>4. call \in Calls
  BY <1>2, <1>3 DEF Calls
<1>5. CallInv(call, st.row, st.m5)
  BY <1>2 DEF CallInv, PromoteReadRow, Known
<1>6. st.calls - 1 \in Nat /\ st.losses \in Nat
  BY <1>0 DEF PromoteReadRow, FlagStates
<1>7. st' = [st EXCEPT !.calls = st.calls - 1, !.losses = st.losses, !.rpc = call]
  BY <1>0, <1>2 DEF PromoteReadRow, FlagStates
<1> QED
  BY <1>4, <1>5, <1>6, <1>7, CallStep

\* Resting after a call, with a failure or without.
LEMMA RestStep ==
    ASSUME FlagsInv, NEW losses \in Nat, st' = [st EXCEPT !.losses = losses, !.rpc = Resting]
    PROVE  FlagsInv'
<1>0. st \in FlagStates
  BY DEF FlagsInv
<1>1. Resting.phase = "idle"
  BY DEF Resting
<1>2. CallInv(Resting, st.row, st.m5)
  BY <1>1, IdleCall
<1>3. st.calls \in Nat /\ st' = [st EXCEPT !.calls = st.calls, !.losses = losses, !.rpc = Resting]
  BY <1>0 DEF FlagStates
<1> QED
  BY <1>2, <1>3, CallStep

\* update_flag.
LEMMA UpdateStep ==
    ASSUME FlagsInv, update_flag
    PROVE  FlagsInv'
<1>0. st \in FlagStates
  BY DEF FlagsInv
<1> DEFINE f == st.rpc.flag
           pb == st.rpc.pb
<1>1. st.rpc \in [phase : {"update"}, flag : FlagIds, pb : FlagPbs, previous : FlagRows \cup {NoFlag}]
  BY <1>0 DEF update_flag, FlagStates, Calls, Resting
<1>2. f \in FlagIds /\ pb \in FlagPbs /\ st.rpc.previous \in FlagRows \cup {NoFlag}
  BY <1>1
<1>3. CASE ~Known(f)
  <2>1. st.losses \in Nat /\ st' = [st EXCEPT !.losses = st.losses, !.rpc = Resting]
    BY <1>0, <1>3 DEF update_flag, FlagStates
  <2> QED
    BY <2>1, RestStep
<1>4. CASE Known(f)
  <2>0. st.row[f] \in FlagRows
    BY <1>0, <1>2, <1>4 DEF Known, FlagStates
  <2>1. PICK new : new = [st.row[f] EXCEPT !.type = pb.type, !.enabled = pb.enabled,
                                           !.rollout = pb.rollout, !.variants = pb.variants]
    OBVIOUS
  <2>2. SharesTraffic(pb.variants) /\ pb.rollout \in 0 .. FlagBuckets
    BY DEF FlagsInv, CallInv, update_flag
  <2>3. /\ new \in FlagRows /\ new.variants = pb.variants
        /\ new.promoted = st.row[f].promoted /\ new.resolved = st.row[f].resolved
    BY <1>2, <2>0, <2>1, <2>2 DEF FlagRows, FlagPbs
  <2>4. PICK call : call = [phase |-> "audit",
                            entry |-> [flag |-> f, action |-> UpdateLabel(st.rpc.previous, new)]]
    OBVIOUS
  <2>5. UpdateLabel(st.rpc.previous, new) \in Labels
    BY DEF UpdateLabel, Labels
  <2>6. call \in Calls /\ call.phase = "audit"
    BY <1>2, <2>4, <2>5 DEF Calls, Entries
  <2>7. st' = [st EXCEPT !.row[f] = new, !.rpc = call]
    BY <1>4, <2>1, <2>4 DEF update_flag
  <2> HIDE DEF f, pb
  <2>8. /\ st' \in FlagStates
        /\ st'.row = [st.row EXCEPT ![f] = new] /\ st'.m5 = st.m5 /\ st'.rpc = call
        /\ st'.audit = st.audit /\ st'.rec = st.rec /\ st'.todo = st.todo /\ st'.due = st.due
        /\ st'.failed = st.failed /\ st'.auto = st.auto /\ st'.topic = st.topic
    BY <1>0, <1>2, <2>3, <2>6, <2>7 DEF FlagStates
  <2>9. Later(st.row, st.m5, st'.row, st'.m5)
    BY <1>2, <2>3, <2>8, RowIsLater
  <2>10. RowsInv(st'.row, st'.m5)
    <3>1. LinkedTo(st.m5, f, st.row[f].promoted)
      BY <1>2, <1>4 DEF FlagsInv, RowsInv, Known
    <3> QED
      BY <1>2, <2>2, <2>3, <2>8, <3>1, RowKeepsRows
  <2>11. CallInv(st'.rpc, st'.row, st'.m5)
    BY <2>6, <2>8, IdleCall
  <2>12. ExperimentsInv(st'.m5) /\ AuditInv(st'.audit, st'.m5)
    BY <2>8 DEF FlagsInv
  <2> QED
    BY <2>8, <2>9, <2>10, <2>11, <2>12, HandlerStep
<1> QED
  BY <1>3, <1>4

\* record_audit_nonfatal.
LEMMA AuditRowStep ==
    ASSUME FlagsInv, record_audit_nonfatal
    PROVE  FlagsInv'
<1>0. st \in FlagStates
  BY DEF FlagsInv
<1>1. CASE st' = [st EXCEPT !.rpc = Resting, !.audit = Record(st.rpc.entry)]
  <2>1. st.rpc \in [phase : {"audit"}, entry : Entries]
    BY <1>0 DEF record_audit_nonfatal, FlagStates, Calls, Resting
  <2>2. PICK entry \in Entries : entry = st.rpc.entry
    BY <2>1
  <2>3. entry.action # "auto_resolve"
    BY <2>2 DEF Entries, Labels
  <2>4. /\ st' \in FlagStates
        /\ st'.row = st.row /\ st'.m5 = st.m5 /\ st'.rpc = Resting
        /\ st'.audit = st.audit \cup {entry} /\ st'.rec = st.rec /\ st'.todo = st.todo
        /\ st'.due = st.due /\ st'.failed = st.failed /\ st'.auto = st.auto /\ st'.topic = st.topic
    BY <1>0, <1>1, <2>2 DEF FlagStates, Record
  <2>5. Later(st.row, st.m5, st'.row, st'.m5)
    BY <2>4, SameIsLater
  <2>6. CallInv(st'.rpc, st'.row, st'.m5)
    <3>1. st'.rpc.phase = "idle"
      BY <2>4 DEF Resting
    <3> QED
      BY <3>1, IdleCall
  <2>7. AuditInv(st'.audit, st'.m5)
    BY <2>3, <2>4 DEF FlagsInv, AuditInv
  <2>8. RowsInv(st'.row, st'.m5) /\ ExperimentsInv(st'.m5)
    BY <2>4 DEF FlagsInv
  <2> QED
    BY <2>4, <2>5, <2>6, <2>7, <2>8, HandlerStep
<1>2. CASE st' = [st EXCEPT !.rpc = Resting, !.losses = @ + 1]
  <2>1. st.losses + 1 \in Nat
    BY <1>0 DEF FlagStates
  <2>2. PICK losses : losses = st.losses + 1
    OBVIOUS
  <2>3. st' = [st EXCEPT !.losses = losses, !.rpc = Resting]
    BY <1>0, <1>2, <2>2 DEF FlagStates
  <2> QED
    BY <2>1, <2>2, <2>3, RestStep
<1> QED
  BY <1>1, <1>2 DEF record_audit_nonfatal

\* PromoteReadVariants.
LEMMA PromoteReadVariantsStep ==
    ASSUME FlagsInv, PromoteReadVariants
    PROVE  FlagsInv'
<1>0. st \in FlagStates
  BY DEF FlagsInv
<1>1. st.rpc \in [phase : {"variants"}, flag : FlagIds, type : PromotionTypes, row : FlagRows]
  BY <1>0 DEF PromoteReadVariants, FlagStates, Calls, Resting
<1>2. st.rpc.flag \in FlagIds /\ st.rpc.type \in PromotionTypes /\ st.rpc.row \in FlagRows
  BY <1>1
<1>3. st.row[st.rpc.flag] # NoFlag
  BY DEF FlagsInv, CallInv, PromoteReadVariants
<1>4. st.row[st.rpc.flag] \in FlagRows
  BY <1>0, <1>2, <1>3 DEF FlagStates
<1>5. PICK variants : variants = st.row[st.rpc.flag].variants
  OBVIOUS
<1>6. variants \in Seq(Int) /\ SharesTraffic(variants)
  BY <1>2, <1>3, <1>4, <1>5 DEF FlagRows, FlagsInv, RowsInv
<1>7. CASE st.rpc.row.enabled /\ apply_type_config(st.rpc.type, variants)
  <2>1. PICK arms : arms = build_variants(st.rpc.row, variants)
    OBVIOUS
  <2>2. PICK call : call = [phase |-> "create", flag |-> st.rpc.flag, type |-> st.rpc.type, variants |-> arms]
    OBVIOUS
  <2>3. PICK e : e = [flag |-> st.rpc.flag, state |-> "DRAFT", type |-> st.rpc.type, variants |-> arms]
    OBVIOUS
  <2>4. WellFormed(e) /\ arms \in Seq(Arms)
    <3>1. e.type = st.rpc.type /\ e.variants = build_variants(st.rpc.row, variants)
      BY <2>1, <2>3
    <3> QED
      BY <1>2, <1>6, <1>7, <2>1, <3>1, ArmsAreWellFormed
  <2>5. call \in Calls
    BY <1>2, <2>2, <2>4 DEF Calls
  <2>6. /\ call.phase = "create" /\ call.flag = st.rpc.flag /\ call.type = st.rpc.type
        /\ call.variants = arms
    BY <2>2
  <2>7. CallInv(call, st.row, st.m5)
    BY <1>3, <2>3, <2>4, <2>6 DEF CallInv
  <2>8. st.calls \in Nat /\ st.losses \in Nat
    BY <1>0 DEF FlagStates
  <2>9. st' = [st EXCEPT !.calls = st.calls, !.losses = st.losses, !.rpc = call]
    BY <1>0, <1>5, <1>7, <2>1, <2>2 DEF PromoteReadVariants, FlagStates
  <2> QED
    BY <2>5, <2>7, <2>8, <2>9, CallStep
<1>8. CASE ~(st.rpc.row.enabled /\ apply_type_config(st.rpc.type, variants))
  <2>1. st.losses \in Nat /\ st' = [st EXCEPT !.losses = st.losses, !.rpc = Resting]
    BY <1>0, <1>5, <1>8 DEF PromoteReadVariants, FlagStates
  <2> QED
    BY <2>1, RestStep
<1> QED
  BY <1>7, <1>8

\* M5 creates the experiment, whether or not the answer arrives.
LEMMA CreatedStep ==
    ASSUME FlagsInv, NEW e \in M5Experiments, WellFormed(e), NEW created, created = Append(st.m5, e),
           NEW call \in Calls \cup {Resting}, CallInv(call, st.row, created), NEW losses \in Nat,
           st' = [st EXCEPT !.m5 = created, !.rpc = call, !.losses = losses]
    PROVE  FlagsInv'
<1>0. st \in FlagStates
  BY DEF FlagsInv
<1>1. st.m5 \in Seq(M5Experiments)
  BY <1>0 DEF FlagStates
<1>2. /\ created \in Seq(M5Experiments) /\ Len(created) = Len(st.m5) + 1 /\ Len(st.m5) \in Nat
      /\ created[Len(st.m5) + 1] = e
      /\ \A i \in 1 .. Len(st.m5) : created[i] = st.m5[i]
  BY <1>1
<1>3. /\ st' \in FlagStates
      /\ st'.row = st.row /\ st'.m5 = created /\ st'.rpc = call
      /\ st'.audit = st.audit /\ st'.rec = st.rec /\ st'.todo = st.todo /\ st'.due = st.due
      /\ st'.failed = st.failed /\ st'.auto = st.auto /\ st'.topic = st.topic
  BY <1>0, <1>2 DEF FlagStates
<1>4. Later(st.row, st.m5, st'.row, st'.m5)
  BY <1>2, <1>3 DEF Later
<1>5. RowsInv(st'.row, st'.m5)
  <2>0. st'.m5 \in Seq(M5Experiments)
    BY <1>2, <1>3
  <2>1. \A f, id : LinkedTo(st.m5, f, id) => LinkedTo(st'.m5, f, id)
    BY <1>1, <1>4, <2>0, LaterLinks
  <2> QED
    BY <1>3, <2>1 DEF FlagsInv, RowsInv
<1>6. ExperimentsInv(st'.m5)
  <2>1. ExperimentsInv(st.m5)
    BY DEF FlagsInv
  <2>2. ASSUME NEW i \in 1 .. Len(created) PROVE WellFormed(created[i])
    <3>1. CASE i = Len(st.m5) + 1
      BY <1>2, <3>1
    <3>2. CASE i # Len(st.m5) + 1
      <4>1. i \in 1 .. Len(st.m5)
        BY <1>2, <3>2
      <4> QED
        BY <1>2, <2>1, <4>1 DEF ExperimentsInv
    <3> QED
      BY <3>1, <3>2
  <2> QED
    BY <1>3, <2>2 DEF ExperimentsInv
<1>7. AuditInv(st'.audit, st'.m5)
  BY <1>3, <1>4, LaterKeeps
<1> QED
  BY <1>3, <1>4, <1>5, <1>6, <1>7, HandlerStep

\* CreateInM5.
LEMMA CreateInM5Step ==
    ASSUME FlagsInv, CreateInM5
    PROVE  FlagsInv'
<1>0. st \in FlagStates
  BY DEF FlagsInv
<1>1. st.rpc \in [phase : {"create"}, flag : FlagIds, type : PromotionTypes, variants : Seq(Arms)]
  <2>1. st.rpc.phase = "create"
    BY DEF CreateInM5
  <2> QED
    BY <1>0, <2>1 DEF FlagStates, Calls, Resting
<1>2. /\ st.rpc.flag \in FlagIds /\ st.rpc.type \in PromotionTypes /\ st.rpc.variants \in Seq(Arms)
      /\ st.rpc.phase = "create"
  BY <1>1
<1>3. PICK e : e = [flag |-> st.rpc.flag, state |-> "DRAFT", type |-> st.rpc.type,
                    variants |-> st.rpc.variants]
  OBVIOUS
<1>4. WellFormed(e) /\ st.row[st.rpc.flag] # NoFlag
  BY <1>2, <1>3 DEF FlagsInv, CallInv
<1>5. e \in M5Experiments /\ e.flag = st.rpc.flag
  <2>1. PICK f, type, arms : f = st.rpc.flag /\ type = st.rpc.type /\ arms = st.rpc.variants
    OBVIOUS
  <2>2. f \in FlagIds /\ type \in PromotionTypes /\ arms \in Seq(Arms)
    BY <1>2, <2>1
  <2>3. e = [flag |-> f, state |-> "DRAFT", type |-> type, variants |-> arms]
    BY <1>3, <2>1
  <2> QED
    BY <2>1, <2>2, <2>3 DEF M5Experiments, M5States
<1>6. PICK created : created = Append(st.m5, e)
  OBVIOUS
<1>7. /\ Len(created) = Len(st.m5) + 1 /\ Len(st.m5) \in Nat
      /\ created[Len(created)] = e /\ st.losses \in Nat /\ st.calls \in Nat
  BY <1>0, <1>5, <1>6 DEF FlagStates
<1>8. ASSUME NEW id \in ExperimentIds, NEW m5, LinkedTo(m5, st.rpc.flag, id)
      PROVE  Linking(id) \in Calls /\ CallInv(Linking(id), st.row, m5)
  <2>1. PICK call : call = Linking(id)
    OBVIOUS
  <2>2. call.phase = "link" /\ call.flag = st.rpc.flag /\ call.id = id
    BY <2>1 DEF Linking
  <2>3. call \in Calls
    BY <1>2, <2>1 DEF Calls, Linking
  <2>4. CallInv(call, st.row, m5)
    BY <1>4, <1>8, <2>2 DEF CallInv
  <2> QED
    BY <2>1, <2>3, <2>4
<1>9. CASE st' = [st EXCEPT !.rpc = Linking(MockId)]
  <2>1. MockId \in ExperimentIds /\ LinkedTo(st.m5, st.rpc.flag, MockId)
    BY DEF ExperimentIds, LinkedTo
  <2>2. PICK call : call = Linking(MockId)
    OBVIOUS
  <2>3. call \in Calls /\ CallInv(call, st.row, st.m5)
    BY <1>8, <2>1, <2>2
  <2>4. st' = [st EXCEPT !.calls = st.calls, !.losses = st.losses, !.rpc = call]
    BY <1>0, <1>9, <2>2 DEF FlagStates
  <2> QED
    BY <1>7, <2>3, <2>4, CallStep
<1>10. CASE st' = [st EXCEPT !.m5 = created, !.rpc = Linking(Len(created))]
  <2>1. Len(created) \in ExperimentIds /\ LinkedTo(created, st.rpc.flag, Len(created))
    BY <1>5, <1>7 DEF ExperimentIds, LinkedTo
  <2>2. PICK call : call = Linking(Len(created))
    OBVIOUS
  <2>3. call \in Calls /\ CallInv(call, st.row, created)
    BY <1>8, <2>1, <2>2
  <2>4. st' = [st EXCEPT !.m5 = created, !.rpc = call, !.losses = st.losses]
    BY <1>0, <1>10, <2>2 DEF FlagStates
  <2> QED
    BY <1>4, <1>5, <1>6, <1>7, <2>3, <2>4, CreatedStep
<1>11. ASSUME NEW lost \in {st.m5, created},
              st' = [st EXCEPT !.m5 = lost, !.rpc = Resting, !.losses = @ + 1]
       PROVE  FlagsInv'
  <2>1. PICK losses \in Nat : losses = st.losses + 1
    BY <1>7
  <2>2. CASE lost = st.m5
    <3>1. st' = [st EXCEPT !.losses = losses, !.rpc = Resting]
      BY <1>0, <1>11, <2>1, <2>2 DEF FlagStates
    <3> QED
      BY <3>1, RestStep
  <2>3. CASE lost = created
    <3>1. st' = [st EXCEPT !.m5 = created, !.rpc = Resting, !.losses = losses]
      BY <1>0, <1>11, <2>1, <2>3 DEF FlagStates
    <3>2. Resting.phase = "idle"
      BY DEF Resting
    <3>3. CallInv(Resting, st.row, created)
      BY <3>2, IdleCall
    <3> QED
      BY <1>4, <1>5, <1>6, <3>1, <3>3, CreatedStep
  <2> QED
    BY <2>2, <2>3
<1> QED
  BY <1>3, <1>6, <1>9, <1>10, <1>11 DEF CreateInM5

\* link_flag_to_experiment.
LEMMA LinkStep ==
    ASSUME FlagsInv, link_flag_to_experiment
    PROVE  FlagsInv'
<1>0. st \in FlagStates
  BY DEF FlagsInv
<1>1. st.rpc \in [phase : {"link"}, flag : FlagIds, id : ExperimentIds]
  BY <1>0 DEF link_flag_to_experiment, FlagStates, Calls, Resting
<1>2. st.rpc.flag \in FlagIds /\ st.rpc.id \in ExperimentIds /\ st.rpc.phase = "link"
  BY <1>1
<1>3. PICK call : call = [phase |-> "audit",
                          entry |-> [flag |-> st.rpc.flag, action |-> "promote_to_experiment"]]
  OBVIOUS
<1>4. call \in Calls /\ call.phase = "audit"
  BY <1>2, <1>3 DEF Calls, Entries, Labels
<1>5. st.row[st.rpc.flag] # NoFlag /\ LinkedTo(st.m5, st.rpc.flag, st.rpc.id)
  BY <1>2 DEF FlagsInv, CallInv
<1>6. PICK f \in FlagIds : f = st.rpc.flag
  BY <1>2
<1>7. CASE st' = [st EXCEPT !.row[st.rpc.flag].promoted = st.rpc.id, !.rpc = call]
  <2>0. st.row \in [FlagIds -> FlagRows \cup {NoFlag}] /\ st.row[f] \in FlagRows
    BY <1>0, <1>5, <1>6 DEF FlagStates
  <2>1. PICK new : new = [st.row[f] EXCEPT !.promoted = st.rpc.id]
    OBVIOUS
  <2>2. /\ new \in FlagRows /\ new.promoted = st.rpc.id /\ new.variants = st.row[f].variants
        /\ new.resolved = st.row[f].resolved
    BY <1>2, <2>0, <2>1 DEF FlagRows
  <2>3. st' = [st EXCEPT !.row[f] = new, !.rpc = call]
    BY <1>0, <1>6, <1>7, <2>1 DEF FlagStates
  <2>4. /\ st' \in FlagStates
        /\ st'.row = [st.row EXCEPT ![f] = new] /\ st'.m5 = st.m5 /\ st'.rpc = call
        /\ st'.audit = st.audit /\ st'.rec = st.rec /\ st'.todo = st.todo /\ st'.due = st.due
        /\ st'.failed = st.failed /\ st'.auto = st.auto /\ st'.topic = st.topic
    BY <1>0, <1>4, <2>2, <2>3 DEF FlagStates
  <2>5. Later(st.row, st.m5, st'.row, st'.m5)
    BY <2>2, <2>4, RowIsLater
  <2>6. RowsInv(st'.row, st'.m5)
    <3>1. SharesTraffic(st.row[f].variants)
      BY <1>5, <1>6 DEF FlagsInv, RowsInv
    <3> QED
      BY <1>5, <1>6, <2>2, <2>4, <3>1, RowKeepsRows
  <2>7. CallInv(st'.rpc, st'.row, st'.m5)
    BY <1>4, <2>4, IdleCall
  <2>8. ExperimentsInv(st'.m5) /\ AuditInv(st'.audit, st'.m5)
    BY <2>4 DEF FlagsInv
  <2> QED
    BY <2>4, <2>5, <2>6, <2>7, <2>8, HandlerStep
<1>8. CASE st' = [st EXCEPT !.rpc = call, !.losses = @ + 1]
  <2>1. st.losses + 1 \in Nat /\ st.calls \in Nat
    BY <1>0 DEF FlagStates
  <2>2. PICK losses \in Nat : losses = st.losses + 1
    BY <2>1
  <2>3. st' = [st EXCEPT !.calls = st.calls, !.losses = losses, !.rpc = call]
    BY <1>0, <1>8, <2>2 DEF FlagStates
  <2>4. CallInv(call, st.row, st.m5)
    BY <1>4, IdleCall
  <2> QED
    BY <1>4, <2>1, <2>3, <2>4, CallStep
<1> QED
  BY <1>3, <1>7, <1>8 DEF link_flag_to_experiment

\* Resolving a row keeps everything but its rollout.
LEMMA ResolvedRow ==
    ASSUME NEW row \in FlagRows, NEW action \in Actions
    PROVE  LET new == resolve_flag(row, action)
           IN  /\ new \in FlagRows /\ new.resolved
               /\ new.promoted = row.promoted /\ new.variants = row.variants
<1>1. PICK R : R = 0 .. FlagBuckets
  OBVIOUS
<1>5. 0 \in R /\ FlagBuckets \in R
  BY <1>1, FlagsAssumption
<1>6. FlagRows = [type : STRING, enabled : BOOLEAN, rollout : R, variants : Seq(Int),
                  promoted : ExperimentIds, resolved : BOOLEAN]
  BY <1>1 DEF FlagRows
<1>2. CASE action = "rollout_full"
  <2>1. resolve_flag(row, action) = [row EXCEPT !.rollout = FlagBuckets, !.enabled = TRUE, !.resolved = TRUE]
    BY <1>2 DEF resolve_flag
  <2> QED
    BY <1>5, <1>6, <2>1
<1>3. CASE action = "rollback"
  <2>1. resolve_flag(row, action) = [row EXCEPT !.rollout = 0, !.enabled = FALSE, !.resolved = TRUE]
    BY <1>3 DEF resolve_flag
  <2> QED
    BY <1>5, <1>6, <2>1
<1>4. CASE action = "keep"
  BY <1>4, <1>6 DEF resolve_flag
<1> QED
  BY <1>2, <1>3, <1>4 DEF Actions

\* handle_resolve.
LEMMA HandleResolveStep ==
    ASSUME FlagsInv, NEW f \in FlagIds, NEW action \in Actions, handle_resolve(f, action)
    PROVE  FlagsInv'
<1>0. st \in FlagStates
  BY DEF FlagsInv
<1>1. st.row[f] \in FlagRows /\ st.row[f] # NoFlag
  BY <1>0 DEF handle_resolve, Known, FlagStates
<1>2. PICK new : new = resolve_flag(st.row[f], action)
  OBVIOUS
<1>3. /\ new \in FlagRows /\ new.resolved
      /\ new.promoted = st.row[f].promoted /\ new.variants = st.row[f].variants
  BY <1>1, <1>2, ResolvedRow
<1>4. st.calls - 1 \in Nat
  BY <1>0 DEF handle_resolve, FlagStates
<1>5. PICK calls \in Nat : calls = st.calls - 1
  BY <1>4
<1>6. st' = [st EXCEPT !.row[f] = new, !.calls = calls]
  BY <1>0, <1>2, <1>5 DEF handle_resolve, FlagStates
<1>7. /\ st' \in FlagStates
      /\ st'.row = [st.row EXCEPT ![f] = new] /\ st'.m5 = st.m5 /\ st'.rpc = st.rpc
      /\ st'.audit = st.audit /\ st'.rec = st.rec /\ st'.todo = st.todo /\ st'.due = st.due
      /\ st'.failed = st.failed /\ st'.auto = st.auto /\ st'.topic = st.topic
  BY <1>0, <1>3, <1>6 DEF FlagStates
<1>8. Later(st.row, st.m5, st'.row, st'.m5)
  BY <1>3, <1>7, RowIsLater
<1>9. RowsInv(st'.row, st'.m5)
  <2>1. SharesTraffic(st.row[f].variants) /\ LinkedTo(st.m5, f, st.row[f].promoted)
    BY <1>1 DEF FlagsInv, RowsInv
  <2> QED
    BY <1>3, <1>7, <2>1, RowKeepsRows
<1>10. CallInv(st'.rpc, st'.row, st'.m5)
  BY <1>7, <1>8, LaterKeeps
<1>11. ExperimentsInv(st'.m5) /\ AuditInv(st'.audit, st'.m5)
  BY <1>7 DEF FlagsInv
<1> QED
  BY <1>7, <1>8, <1>9, <1>10, <1>11, HandlerStep

-----------------------------------------------------------------------------
(* The reconciler and the consumer.                                        *)

\* What is left to show of a step of theirs.
LEMMA ReconcilerStep ==
    ASSUME FlagsInv, st' \in FlagStates, Later(st.row, st.m5, st'.row, st'.m5),
           RowsInv(st'.row, st'.m5), st'.m5 = st.m5, st'.rpc = st.rpc, st'.topic = st.topic,
           AuditInv(st'.audit, st'.m5),
           \A r \in Reconcilers : StepInv(st'.rec[r], st'.row, st'.m5),
           PassInv(st'.todo, st'.due, st'.failed, st'.rec["periodic"], st'.row, st'.m5),
           AutoInv(st'.auto, st'.todo, st'.rec["periodic"], st'.row)
    PROVE  FlagsInv'
BY LaterKeeps DEF FlagsInv

\* The step of a reconciler, by its phase.
LEMMA StepFacts ==
    ASSUME FlagsInv, NEW r \in Reconcilers, st.rec[r].phase \in {"get", "resolve", "audit"}
    PROVE  /\ st.rec[r] \in Steps /\ st.rec[r] # Resting
           /\ st.rec[r].flag \in FlagIds /\ st.rec[r].id \in ExperimentIds
           /\ TaskOf(st.rec[r]) \in Tasks
           /\ TaskOf(st.rec[r]).flag = st.rec[r].flag /\ TaskOf(st.rec[r]).id = st.rec[r].id
           /\ TaskInv(st.rec[r], st.row, st.m5)
           /\ st.rec[r].phase # "get" => Ended(st.m5, st.rec[r].id)
           /\ r = "periodic" => TaskOf(st.rec[r]) \in st.todo
<1>1. st.rec[r] \in Steps \cup {Resting}
  BY DEF FlagsInv, FlagStates
<1>2. st.rec[r] # Resting
  BY DEF Resting
<1>3. st.rec[r] \in Steps
  BY <1>1, <1>2
<1>4. st.rec[r].flag \in FlagIds /\ st.rec[r].id \in ExperimentIds
  BY <1>3 DEF Steps
<1>5. /\ TaskOf(st.rec[r]) \in Tasks
      /\ TaskOf(st.rec[r]).flag = st.rec[r].flag /\ TaskOf(st.rec[r]).id = st.rec[r].id
  BY <1>4 DEF TaskOf, Tasks
<1>6. StepInv(st.rec[r], st.row, st.m5)
  BY DEF FlagsInv
<1>7. r = "periodic" => TaskOf(st.rec[r]) \in st.todo
  BY <1>2 DEF FlagsInv, PassInv
<1> QED
  BY <1>2, <1>3, <1>4, <1>5, <1>6, <1>7 DEF StepInv

\* The pass is done with a flag that failed, was not due, or is resolved.
LEMMA FinishPeriodic ==
    ASSUME FlagsInv, st.rec["periodic"].phase \in {"get", "resolve", "audit"},
           st' \in FlagStates, AuditInv(st'.audit, st'.m5),
           st'.row = st.row, st'.m5 = st.m5, st'.rpc = st.rpc, st'.due = st.due,
           st'.auto = st.auto, st'.topic = st.topic, st.failed \subseteq st'.failed,
           st'.rec = [st.rec EXCEPT !["periodic"] = Resting],
           st'.todo = st.todo \ {TaskOf(st.rec["periodic"])},
           \/ TaskOf(st.rec["periodic"]) \in st'.failed
           \/ TaskOf(st.rec["periodic"]) \notin st.due
           \/ st.row[st.rec["periodic"].flag].resolved
    PROVE  FlagsInv'
<1>0. st \in FlagStates /\ "periodic" \in Reconcilers
  BY DEF FlagsInv, Reconcilers
<1>1. PICK t : t = TaskOf(st.rec["periodic"])
  OBVIOUS
<1>2. t \in Tasks /\ t \in st.todo /\ t.flag = st.rec["periodic"].flag
  BY <1>0, <1>1, StepFacts
<1>3. Later(st.row, st.m5, st'.row, st'.m5)
  BY SameIsLater
<1>4. st'.rec["periodic"] = Resting /\ \A r \in Reconcilers : st'.rec[r] \in {st.rec[r], Resting}
  BY <1>0 DEF FlagStates
<1>5. \A r \in Reconcilers : StepInv(st'.rec[r], st'.row, st'.m5)
  BY <1>4 DEF FlagsInv, StepInv
<1>6. Resting.phase = "idle"
  BY DEF Resting
<1>7. PassInv(st.todo, st.due, st.failed, st.rec["periodic"], st.row, st.m5)
  BY DEF FlagsInv
<1>8. PassInv(st'.todo, st'.due, st'.failed, st'.rec["periodic"], st'.row, st'.m5)
  BY <1>1, <1>2, <1>4, <1>6, <1>7 DEF PassInv
<1>9. AutoInv(st'.auto, st'.todo, st'.rec["periodic"], st'.row)
  <2>1. AutoInv(st.auto, st.todo, st.rec["periodic"], st.row)
    BY DEF FlagsInv
  <2>2. ASSUME NEW u \in st.todo, u # t PROVE st.auto[u.flag] = 0
    BY <1>2, <1>7, <2>1, <2>2 DEF AutoInv, PassInv
  <2> QED
    BY <1>1, <2>1, <2>2 DEF AutoInv
<1>10. RowsInv(st'.row, st'.m5) /\ AuditInv(st'.audit, st'.m5)
  BY DEF FlagsInv
<1> QED
  BY <1>3, <1>5, <1>8, <1>9, <1>10, ReconcilerStep

\* The consumer is done with an event.
LEMMA FinishConsumer ==
    ASSUME FlagsInv, st' \in FlagStates, AuditInv(st'.audit, st'.m5),
           st'.row = st.row, st'.m5 = st.m5, st'.rpc = st.rpc, st'.todo = st.todo,
           st'.due = st.due, st'.failed = st.failed, st'.auto = st.auto, st'.topic = st.topic,
           st'.rec = [st.rec EXCEPT !["consumer"] = Resting]
    PROVE  FlagsInv'
<1>0. st \in FlagStates /\ "periodic" \in Reconcilers
  BY DEF FlagsInv, Reconcilers
<1>3. Later(st.row, st.m5, st'.row, st'.m5)
  BY SameIsLater
<1>4. /\ st'.rec["periodic"] = st.rec["periodic"]
      /\ \A r \in Reconcilers : st'.rec[r] \in {st.rec[r], Resting}
  BY <1>0 DEF FlagStates
<1>5. \A r \in Reconcilers : StepInv(st'.rec[r], st'.row, st'.m5)
  BY <1>4 DEF FlagsInv, StepInv
<1>6. /\ PassInv(st'.todo, st'.due, st'.failed, st'.rec["periodic"], st'.row, st'.m5)
      /\ AutoInv(st'.auto, st'.todo, st'.rec["periodic"], st'.row)
      /\ RowsInv(st'.row, st'.m5) /\ AuditInv(st'.audit, st'.m5)
  BY <1>4 DEF FlagsInv
<1> QED
  BY <1>3, <1>5, <1>6, ReconcilerStep

\* reconcile_once.
LEMMA ReconcileOnceStep ==
    ASSUME FlagsInv, reconcile_once
    PROVE  FlagsInv'
<1>0. st \in FlagStates /\ st.rec["periodic"] = Resting
  BY DEF FlagsInv, reconcile_once
<1>1. PICK todo : todo = {[flag |-> f, id |-> st.row[f].promoted] : f \in {g \in FlagIds : Pending(g)}}
  OBVIOUS
<1>2. PICK due : due = {t \in todo : Over(t.id)}
  OBVIOUS
<1>3. \A f \in FlagIds : Pending(f) =>
        /\ st.row[f] # NoFlag /\ st.row[f] \in FlagRows /\ st.row[f].promoted # 0
        /\ st.row[f].promoted \in ExperimentIds /\ ~st.row[f].resolved
        /\ LinkedTo(st.m5, f, st.row[f].promoted)
  <2>1. \A f \in FlagIds : Pending(f) => st.row[f] # NoFlag /\ st.row[f].promoted # 0 /\ ~st.row[f].resolved
    BY DEF Pending, Promoted, Known
  <2>2. \A f \in FlagIds : st.row[f] # NoFlag => st.row[f] \in FlagRows
    BY <1>0 DEF FlagStates
  <2>3. \A f \in FlagIds : st.row[f] # NoFlag => LinkedTo(st.m5, f, st.row[f].promoted)
    BY DEF FlagsInv, RowsInv
  <2>4. \A row \in FlagRows : row.promoted \in ExperimentIds
    BY DEF FlagRows
  <2> QED
    BY <2>1, <2>2, <2>3, <2>4
<1>4. ASSUME NEW t \in todo
      PROVE  /\ t \in Tasks /\ TaskInv(t, st.row, st.m5) /\ ~st.row[t.flag].resolved
             /\ t.id = st.row[t.flag].promoted /\ t = [flag |-> t.flag, id |-> t.id]
  <2>1. PICK f \in FlagIds : Pending(f) /\ t = [flag |-> f, id |-> st.row[f].promoted]
    BY <1>1
  <2>2. t.flag = f /\ t.id = st.row[f].promoted
    BY <2>1
  <2> QED
    BY <1>3, <2>1, <2>2 DEF Tasks, TaskInv
<1>5. \A t, u \in todo : t.flag = u.flag => t = u
  BY <1>4
<1>6. \A t \in due : t \in todo /\ Ended(st.m5, t.id)
  <2>1. ASSUME NEW t \in due PROVE Ended(st.m5, t.id)
    <3>1. t \in todo /\ Over(t.id)
      BY <1>2
    <3>2. t.id \in 1 .. Len(st.m5)
      BY <1>4, <3>1 DEF TaskInv, LinkedTo, Over
    <3> QED
      BY <3>1, <3>2 DEF Over, Ended
  <2> QED
    BY <1>2, <2>1
<1>7. todo \subseteq Tasks /\ due \subseteq Tasks
  BY <1>4, <1>6
<1>8. st' = [st EXCEPT !.todo = todo, !.failed = {}, !.due = due]
  BY <1>1, <1>2 DEF reconcile_once
<1>9. /\ st' \in FlagStates
      /\ st'.row = st.row /\ st'.m5 = st.m5 /\ st'.rpc = st.rpc /\ st'.audit = st.audit
      /\ st'.rec = st.rec /\ st'.todo = todo
      /\ st'.due = due /\ st'.failed = {} /\ st'.auto = st.auto /\ st'.topic = st.topic
  BY <1>0, <1>7, <1>8 DEF FlagStates
<1>10. Later(st.row, st.m5, st'.row, st'.m5)
  BY <1>9, SameIsLater
<1>11. Resting.phase = "idle"
  BY DEF Resting
<1>12. PassInv(todo, due, {}, Resting, st.row, st.m5)
  BY <1>4, <1>5, <1>6, <1>11 DEF PassInv
<1>13. AutoInv(st.auto, todo, Resting, st.row)
  <2>1. AutoInv(st.auto, st.todo, Resting, st.row)
    BY <1>0 DEF FlagsInv
  <2>2. \A t \in todo : t.flag \in FlagIds /\ ~st.row[t.flag].resolved
    BY <1>4 DEF Tasks
  <2> QED
    BY <2>1, <2>2 DEF AutoInv
<1>14. /\ PassInv(st'.todo, st'.due, st'.failed, st'.rec["periodic"], st'.row, st'.m5)
       /\ AutoInv(st'.auto, st'.todo, st'.rec["periodic"], st'.row)
  BY <1>0, <1>9, <1>12, <1>13
<1>15. /\ RowsInv(st'.row, st'.m5) /\ AuditInv(st'.audit, st'.m5)
       /\ \A r \in Reconcilers : StepInv(st'.rec[r], st'.row, st'.m5)
  BY <1>9 DEF FlagsInv
<1> QED
  BY <1>9, <1>10, <1>14, <1>15, ReconcilerStep

\* A reconciler takes up a step of a task that is good for it.
LEMMA TakeStep ==
    ASSUME FlagsInv, NEW r \in Reconcilers, NEW step \in Steps,
           TaskInv(step, st.row, st.m5), step.phase # "get" => Ended(st.m5, step.id),
           step.phase # "audit",
           r = "periodic" => TaskOf(step) \in st.todo /\ st.rec[r].phase # "audit",
           st' = [st EXCEPT !.rec = [st.rec EXCEPT ![r] = step]]
    PROVE  FlagsInv'
<1>0. st \in FlagStates /\ "periodic" \in Reconcilers
  BY DEF FlagsInv, Reconcilers
<1>2. /\ st' \in FlagStates
      /\ st'.row = st.row /\ st'.m5 = st.m5 /\ st'.rpc = st.rpc /\ st'.audit = st.audit
      /\ st'.rec = [st.rec EXCEPT ![r] = step] /\ st'.todo = st.todo
      /\ st'.due = st.due /\ st'.failed = st.failed /\ st'.auto = st.auto /\ st'.topic = st.topic
  BY <1>0 DEF FlagStates
<1>3. Later(st.row, st.m5, st'.row, st'.m5)
  BY <1>2, SameIsLater
<1>4. \A q \in Reconcilers : st'.rec[q] = IF q = r THEN step ELSE st.rec[q]
  BY <1>0, <1>2 DEF FlagStates
<1>5. \A q \in Reconcilers : StepInv(st'.rec[q], st'.row, st'.m5)
  BY <1>2, <1>4 DEF FlagsInv, StepInv
<1>6. /\ PassInv(st.todo, st.due, st.failed, st.rec["periodic"], st.row, st.m5)
      /\ AutoInv(st.auto, st.todo, st.rec["periodic"], st.row)
  BY DEF FlagsInv
<1>7. PassInv(st'.todo, st'.due, st'.failed, st'.rec["periodic"], st'.row, st'.m5)
  <2>1. CASE r = "periodic"
    BY <1>0, <1>2, <1>4, <1>6, <2>1 DEF PassInv
  <2>2. CASE r # "periodic"
    BY <1>0, <1>2, <1>4, <1>6, <2>2
  <2> QED
    BY <2>1, <2>2
<1>8. AutoInv(st'.auto, st'.todo, st'.rec["periodic"], st'.row)
  <2>1. CASE r = "periodic"
    BY <1>0, <1>2, <1>4, <1>6, <2>1 DEF AutoInv
  <2>2. CASE r # "periodic"
    BY <1>0, <1>2, <1>4, <1>6, <2>2
  <2> QED
    BY <2>1, <2>2
<1>9. RowsInv(st'.row, st'.m5) /\ AuditInv(st'.audit, st'.m5)
  BY <1>2 DEF FlagsInv
<1> QED
  BY <1>2, <1>3, <1>5, <1>7, <1>8, <1>9, ReconcilerStep

\* NextOfPass.
LEMMA NextOfPassStep ==
    ASSUME FlagsInv, NextOfPass
    PROVE  FlagsInv'
<1>0. st \in FlagStates /\ "periodic" \in Reconcilers /\ st.rec["periodic"] = Resting
  BY DEF FlagsInv, Reconcilers, NextOfPass
<1>1. PICK t \in st.todo : st' = [st EXCEPT !.rec["periodic"] = reconcile_flag("periodic", t)]
  BY DEF NextOfPass
<1>2. t \in Tasks /\ TaskInv(t, st.row, st.m5)
  BY <1>0 DEF FlagsInv, PassInv, FlagStates
<1>3. PICK step : step = reconcile_flag("periodic", t)
  OBVIOUS
<1>4. step \in Steps /\ step.phase = "get" /\ step.flag = t.flag /\ step.id = t.id /\ TaskOf(step) = t
  BY <1>2, <1>3 DEF reconcile_flag, Steps, Tasks, TaskOf
<1>5. TaskInv(step, st.row, st.m5)
  BY <1>2, <1>4 DEF TaskInv
<1>6. st' = [st EXCEPT !.rec = [st.rec EXCEPT !["periodic"] = step]]
  BY <1>0, <1>1, <1>3 DEF FlagStates
<1>7. st.rec["periodic"].phase = "idle"
  BY <1>0 DEF Resting
<1> QED
  BY <1>0, <1>4, <1>5, <1>6, <1>7, TakeStep

\* NextOfTopic.
LEMMA NextOfTopicStep ==
    ASSUME FlagsInv, NextOfTopic
    PROVE  FlagsInv'
<1>0. st \in FlagStates /\ "consumer" \in Reconcilers /\ st.rec["consumer"] = Resting
  BY DEF FlagsInv, Reconcilers, NextOfTopic
<1>1. PICK event : event = st.topic[st.offset + 1]
  OBVIOUS
<1>2. event.id \in 1 .. Len(st.m5)
  <2>1. st.offset + 1 \in 1 .. Len(st.topic)
    BY <1>0 DEF FlagStates, NextOfTopic
  <2> QED
    BY <1>1, <2>1 DEF FlagsInv, TopicInv
<1>3. CASE st' = [st EXCEPT !.offset = @ + 1]
  <2>1. PICK offset \in Nat : offset = st.offset + 1
    BY <1>0 DEF FlagStates
  <2>2. st' = [st EXCEPT !.offset = offset]
    BY <1>3, <2>1
  <2>3. st.rec = [st.rec EXCEPT !["consumer"] = Resting]
    BY <1>0 DEF FlagStates
  <2>4. /\ st' \in FlagStates
        /\ st'.row = st.row /\ st'.m5 = st.m5 /\ st'.rpc = st.rpc /\ st'.audit = st.audit
        /\ st'.rec = st.rec /\ st'.todo = st.todo
        /\ st'.due = st.due /\ st'.failed = st.failed /\ st'.auto = st.auto /\ st'.topic = st.topic
    BY <1>0, <2>2 DEF FlagStates
  <2>5. AuditInv(st'.audit, st'.m5)
    BY <2>4 DEF FlagsInv
  <2> QED
    BY <2>3, <2>4, <2>5, FinishConsumer
<1>4. ASSUME NEW f \in FlagIds, Known(f), st.row[f].promoted = event.id,
             st' = [st EXCEPT !.rec["consumer"] = reconcile_flag("consumer", [flag |-> f, id |-> event.id])]
      PROVE  FlagsInv'
  <2>1. PICK step : step = reconcile_flag("consumer", [flag |-> f, id |-> event.id])
    OBVIOUS
  <2>2. event.id \in Nat /\ event.id # 0
    BY <1>0, <1>2 DEF FlagStates
  <2>3. step \in Steps /\ step.phase = "get" /\ step.flag = f /\ step.id = event.id
    BY <2>1, <2>2 DEF reconcile_flag, Steps, ExperimentIds
  <2>4. TaskInv(step, st.row, st.m5)
    <3>1. LinkedTo(st.m5, f, event.id)
      BY <1>4 DEF FlagsInv, RowsInv, Known
    <3> QED
      BY <1>4, <2>2, <2>3, <3>1 DEF TaskInv, Known
  <2>5. st' = [st EXCEPT !.rec = [st.rec EXCEPT !["consumer"] = step]]
    BY <1>0, <1>4, <2>1 DEF FlagStates
  <2> QED
    BY <1>0, <2>3, <2>4, <2>5, TakeStep
<1> QED
  BY <1>1, <1>3, <1>4 DEF NextOfTopic

\* What Finished leaves alone.
LEMMA FinishedFields ==
    ASSUME NEW s \in FlagStates, NEW r \in Reconcilers, st \in FlagStates
    PROVE  LET done == Finished(r, s)
           IN  /\ done \in FlagStates
               /\ done.row = s.row /\ done.m5 = s.m5 /\ done.rpc = s.rpc /\ done.audit = s.audit
               /\ done.due = s.due /\ done.failed = s.failed /\ done.auto = s.auto
               /\ done.topic = s.topic /\ done.rec = [s.rec EXCEPT ![r] = Resting]
               /\ done.todo = IF r = "periodic" THEN st.todo \ {TaskOf(st.rec[r])} ELSE s.todo
<1>1. PICK rec, todo, offset : /\ rec = [s.rec EXCEPT ![r] = Resting]
                               /\ todo = st.todo \ {TaskOf(st.rec[r])}
                               /\ offset = s.offset + 1
  OBVIOUS
<1>2. rec \in [Reconcilers -> Steps \cup {Resting}] /\ todo \in SUBSET Tasks /\ offset \in Nat
  BY <1>1 DEF FlagStates
<1>3. CASE r = "periodic"
  <2>1. Finished(r, s) = [s EXCEPT !.rec = rec, !.todo = todo]
    BY <1>1, <1>3 DEF Finished, Rest, TaskOf, FlagStates
  <2> QED
    BY <1>1, <1>2, <1>3, <2>1 DEF FlagStates
<1>4. CASE r # "periodic"
  <2>1. Finished(r, s) = [s EXCEPT !.rec = rec, !.offset = offset]
    BY <1>1, <1>4 DEF Finished, FlagStates
  <2> QED
    BY <1>1, <1>2, <1>4, <2>1 DEF FlagStates
<1> QED
  BY <1>3, <1>4

\* Finished, by either of them.
LEMMA FinishedStep ==
    ASSUME FlagsInv, NEW r \in Reconcilers, st.rec[r].phase \in {"get", "resolve", "audit"},
           NEW audit \in SUBSET (Entries \cup AutoEntries), AuditInv(audit, st.m5),
           NEW losses \in Nat, NEW failed \in SUBSET Tasks, st.failed \subseteq failed,
           r = "periodic" => \/ TaskOf(st.rec[r]) \in failed \/ TaskOf(st.rec[r]) \notin st.due
                            \/ st.row[st.rec[r].flag].resolved,
           r # "periodic" => failed = st.failed,
           st' = Finished(r, [st EXCEPT !.audit = audit, !.losses = losses, !.failed = failed])
    PROVE  FlagsInv'
<1>0. st \in FlagStates
  BY DEF FlagsInv
<1>1. PICK s : s = [st EXCEPT !.audit = audit, !.losses = losses, !.failed = failed]
  OBVIOUS
<1>2. /\ s \in FlagStates /\ s.row = st.row /\ s.m5 = st.m5 /\ s.rpc = st.rpc /\ s.audit = audit
      /\ s.due = st.due /\ s.failed = failed /\ s.auto = st.auto
      /\ s.topic = st.topic /\ s.rec = st.rec /\ s.todo = st.todo
  BY <1>0, <1>1 DEF FlagStates
<1>3. /\ st' \in FlagStates
      /\ st'.row = st.row /\ st'.m5 = st.m5 /\ st'.rpc = st.rpc /\ st'.audit = audit
      /\ st'.due = st.due /\ st'.failed = failed /\ st'.auto = st.auto
      /\ st'.topic = st.topic /\ st'.rec = [st.rec EXCEPT ![r] = Resting]
      /\ st'.todo = IF r = "periodic" THEN st.todo \ {TaskOf(st.rec[r])} ELSE st.todo
  <2>1. st' = Finished(r, s)
    BY <1>1
  <2> QED
    BY <1>0, <1>2, <2>1, FinishedFields
<1>4. CASE r = "periodic"
  BY <1>3, <1>4, FinishPeriodic
<1>5. CASE r = "consumer"
  BY <1>3, <1>5, FinishConsumer
<1> QED
  BY <1>4, <1>5 DEF Reconcilers

\* A call of theirs fails.
LEMMA FailedStep ==
    ASSUME FlagsInv, NEW r \in Reconcilers, st.rec[r].phase \in {"get", "resolve"},
           st' = Finished(r, Failed(r))
    PROVE  FlagsInv'
<1>0. st \in FlagStates
  BY DEF FlagsInv
<1>1. TaskOf(st.rec[r]) \in Tasks
  BY StepFacts
<1>2. PICK failed : failed = IF r = "periodic" THEN st.failed \cup {TaskOf(st.rec[r])} ELSE st.failed
  OBVIOUS
<1>3. PICK losses \in Nat : losses = st.losses + 1
  BY <1>0 DEF FlagStates
<1>4. Failed(r) = [st EXCEPT !.audit = st.audit, !.losses = losses, !.failed = failed]
  BY <1>0, <1>2, <1>3 DEF Failed, TaskOf, FlagStates
<1>5. failed \in SUBSET Tasks /\ st.failed \subseteq failed
  BY <1>0, <1>1, <1>2 DEF FlagStates
<1>6. st.audit \in SUBSET (Entries \cup AutoEntries) /\ AuditInv(st.audit, st.m5)
  BY <1>0 DEF FlagStates, FlagsInv
<1>7. /\ r = "periodic" => TaskOf(st.rec[r]) \in failed
      /\ r # "periodic" => failed = st.failed
  BY <1>2
<1>8. st' = Finished(r, [st EXCEPT !.audit = st.audit, !.losses = losses, !.failed = failed])
  BY <1>4
<1> QED
  BY <1>5, <1>6, <1>7, <1>8, FinishedStep

\* GetExperiment.
LEMMA GetExperimentStep ==
    ASSUME FlagsInv, NEW r \in Reconcilers, GetExperiment(r)
    PROVE  FlagsInv'
<1>0. st \in FlagStates /\ st.rec[r].phase = "get"
  BY DEF FlagsInv, GetExperiment
<1>1. /\ st.rec[r] \in Steps /\ TaskInv(st.rec[r], st.row, st.m5)
      /\ TaskOf(st.rec[r]).id = st.rec[r].id
      /\ r = "periodic" => TaskOf(st.rec[r]) \in st.todo
  BY <1>0, StepFacts
<1> DEFINE over == st.rec[r].id # MockId /\ is_terminal(st.m5[st.rec[r].id].state)
<1>2. CASE over /\ st' = [st EXCEPT !.rec[r].phase = "resolve"]
  <2>1. PICK step : step = [st.rec[r] EXCEPT !.phase = "resolve"]
    OBVIOUS
  <2>2. /\ step \in Steps /\ step.phase = "resolve" /\ step.flag = st.rec[r].flag
        /\ step.id = st.rec[r].id
    BY <1>1, <2>1 DEF Steps
  <2>3. TaskOf(step) = TaskOf(st.rec[r])
    BY <2>2 DEF TaskOf
  <2>4. TaskInv(step, st.row, st.m5)
    BY <1>1, <2>2 DEF TaskInv
  <2>5. Ended(st.m5, step.id)
    BY <1>2, <2>2, <2>4 DEF TaskInv, LinkedTo, Ended
  <2>6. st' = [st EXCEPT !.rec = [st.rec EXCEPT ![r] = step]]
    BY <1>0, <1>2, <2>1 DEF FlagStates
  <2> QED
    BY <1>0, <1>1, <2>2, <2>3, <2>4, <2>5, <2>6, TakeStep
<1>3. CASE ~over /\ st' = Finished(r, st)
  <2>1. TaskOf(st.rec[r]) \notin st.due
    <3>1. SUFFICES ASSUME TaskOf(st.rec[r]) \in st.due PROVE FALSE
      OBVIOUS
    <3>2. Ended(st.m5, st.rec[r].id)
      BY <1>1, <3>1 DEF FlagsInv, PassInv
    <3>3. st.rec[r].id # MockId
      BY <1>0, <3>2, FlagsAssumption DEF Ended, FlagStates
    <3> QED
      BY <1>3, <3>2, <3>3 DEF Ended
  <2>2. /\ st.audit \in SUBSET (Entries \cup AutoEntries) /\ AuditInv(st.audit, st.m5)
        /\ st.losses \in Nat /\ st.failed \in SUBSET Tasks
    BY <1>0 DEF FlagStates, FlagsInv
  <2>3. st = [st EXCEPT !.audit = st.audit, !.losses = st.losses, !.failed = st.failed]
    BY <1>0 DEF FlagStates
  <2>4. st' = Finished(r, [st EXCEPT !.audit = st.audit, !.losses = st.losses, !.failed = st.failed])
    BY <1>3, <2>3
  <2> QED
    BY <1>0, <2>1, <2>2, <2>4, FinishedStep
<1>4. CASE st' = Finished(r, Failed(r))
  BY <1>0, <1>4, FailedStep
<1> QED
  BY <1>2, <1>3, <1>4 DEF GetExperiment

\* ResolveStep: a task of the pass was not resolved by a pass before.
LEMMA ResolveStepStep ==
    ASSUME FlagsInv, NEW r \in Reconcilers, ResolveStep(r)
    PROVE  FlagsInv'
<1>0. st \in FlagStates /\ st.rec[r].phase = "resolve" /\ "periodic" \in Reconcilers
  BY DEF FlagsInv, ResolveStep, Reconcilers
<1>1. /\ st.rec[r] \in Steps /\ TaskInv(st.rec[r], st.row, st.m5)
      /\ Ended(st.m5, st.rec[r].id)
      /\ st.rec[r].flag \in FlagIds
      /\ TaskOf(st.rec[r]).flag = st.rec[r].flag
      /\ r = "periodic" => TaskOf(st.rec[r]) \in st.todo
  BY <1>0, StepFacts
<1>2. PICK f \in FlagIds : f = st.rec[r].flag
  BY <1>1
<1>3. st.row[f] # NoFlag /\ st.row[f] \in FlagRows
  BY <1>0, <1>1, <1>2 DEF TaskInv, FlagStates
<1>4. CASE st' = Finished(r, Failed(r))
  BY <1>0, <1>4, FailedStep
<1>5. CASE st' = [st EXCEPT !.row[f] = resolve_flag(@, st.action), !.rec[r].phase = "audit",
                            !.auto[f] = IF r = "periodic" THEN @ + 1 ELSE @]
  <2>1. PICK new : new = resolve_flag(st.row[f], st.action)
    OBVIOUS
  <2>2. st.action \in Actions
    BY <1>0 DEF FlagStates
  <2>3. /\ new \in FlagRows /\ new.resolved
        /\ new.promoted = st.row[f].promoted /\ new.variants = st.row[f].variants
    BY <1>3, <2>1, <2>2, ResolvedRow
  <2>4. PICK step : step = [st.rec[r] EXCEPT !.phase = "audit"]
    OBVIOUS
  <2>5. /\ step \in Steps /\ step.phase = "audit" /\ step.flag = f
        /\ step.id = st.rec[r].id
    BY <1>1, <1>2, <2>4 DEF Steps
  <2>6. TaskOf(step) = TaskOf(st.rec[r])
    BY <1>2, <2>5 DEF TaskOf
  <2>7. PICK count : count = IF r = "periodic" THEN st.auto[f] + 1 ELSE st.auto[f]
    OBVIOUS
  <2>8. count \in Nat
    BY <1>0, <2>7 DEF FlagStates
  <2>9. st' = [st EXCEPT !.row = [st.row EXCEPT ![f] = new], !.rec = [st.rec EXCEPT ![r] = step],
                         !.auto = [st.auto EXCEPT ![f] = count]]
    BY <1>0, <1>5, <2>1, <2>4, <2>7 DEF FlagStates
  <2>10. /\ st' \in FlagStates
         /\ st'.row = [st.row EXCEPT ![f] = new] /\ st'.m5 = st.m5 /\ st'.rpc = st.rpc
         /\ st'.audit = st.audit /\ st'.rec = [st.rec EXCEPT ![r] = step] /\ st'.todo = st.todo
         /\ st'.due = st.due /\ st'.failed = st.failed /\ st'.auto = [st.auto EXCEPT ![f] = count]
         /\ st'.topic = st.topic
    BY <1>0, <2>3, <2>5, <2>8, <2>9 DEF FlagStates
  <2>11. Later(st.row, st.m5, st'.row, st'.m5)
    BY <2>3, <2>10, RowIsLater
  <2>12. RowsInv(st'.row, st'.m5)
    <3>1. SharesTraffic(st.row[f].variants) /\ LinkedTo(st.m5, f, st.row[f].promoted)
      BY <1>3 DEF FlagsInv, RowsInv
    <3> QED
      BY <2>3, <2>10, <3>1, RowKeepsRows
  <2>13. \A q \in Reconcilers : st'.rec[q] = IF q = r THEN step ELSE st.rec[q]
    BY <1>0, <2>10 DEF FlagStates
  <2>14. /\ st'.row[f] = new /\ st'.auto[f] = count
         /\ \A g \in FlagIds : g # f => st'.row[g] = st.row[g] /\ st'.auto[g] = st.auto[g]
    BY <1>0, <2>10 DEF FlagStates
  <2>15. st'.row[f] # NoFlag
    BY <2>3, <2>14, FlagsAssumption
  <2>16. /\ \A q \in Reconcilers : StepInv(st.rec[q], st'.row, st'.m5)
         /\ PassInv(st.todo, st.due, st.failed, st.rec["periodic"], st'.row, st'.m5)
         /\ AutoInv(st.auto, st.todo, st.rec["periodic"], st'.row)
         /\ AuditInv(st'.audit, st'.m5)
    BY <2>10, <2>11, LaterKeeps
  <2>17. StepInv(step, st'.row, st'.m5)
    BY <1>1, <1>2, <2>5, <2>10, <2>15 DEF StepInv, TaskInv
  <2>18. \A q \in Reconcilers : StepInv(st'.rec[q], st'.row, st'.m5)
    BY <2>13, <2>16, <2>17
  <2>19. PassInv(st'.todo, st'.due, st'.failed, st'.rec["periodic"], st'.row, st'.m5)
    <3>1. CASE r = "periodic"
      <4>1. st'.rec["periodic"] = step
        BY <1>0, <2>13, <3>1
      <4>2. TaskOf(step) \in st.todo /\ st'.row[step.flag].resolved
        BY <1>1, <2>3, <2>5, <2>6, <2>14, <3>1
      <4> QED
        BY <2>10, <2>16, <4>1, <4>2 DEF PassInv
    <3>2. CASE r # "periodic"
      BY <1>0, <2>10, <2>13, <2>16, <3>2
    <3> QED
      BY <3>1, <3>2
  <2>20. AutoInv(st'.auto, st'.todo, st'.rec["periodic"], st'.row)
    <3>1. CASE r = "periodic"
      <4>1. st'.rec["periodic"] = step
        BY <1>0, <2>13, <3>1
      <4>2. st.auto[f] = 0
        <5>1. AutoInv(st.auto, st.todo, st.rec[r], st.row)
          BY <3>1 DEF FlagsInv
        <5> QED
          BY <1>0, <1>1, <1>2, <3>1, <5>1 DEF AutoInv
      <4>3. count = 1
        BY <2>7, <3>1, <4>2
      <4>4. \A g \in FlagIds : st'.auto[g] # 0 =>
               st'.auto[g] = 1 /\ st'.row[g] # NoFlag /\ st'.row[g].resolved
        BY <2>3, <2>14, <2>15, <2>16, <4>3 DEF AutoInv
      <4>5. \A t \in st.todo : t.flag \in FlagIds
        BY <1>0 DEF FlagStates, Tasks
      <4>6. \A t \in st.todo : st.auto[t.flag] = 0
        BY <1>0, <2>16, <3>1 DEF AutoInv
      <4>7. \A t \in st.todo : st'.auto[t.flag] # 0 => t.flag = f
        BY <2>14, <4>5, <4>6
      <4> QED
        BY <2>5, <2>10, <4>1, <4>4, <4>7 DEF AutoInv
    <3>2. CASE r # "periodic"
      <4>1. st'.auto = st.auto
        BY <1>0, <2>7, <2>10, <3>2 DEF FlagStates
      <4> QED
        BY <1>0, <2>10, <2>13, <2>16, <3>2, <4>1
    <3> QED
      BY <3>1, <3>2
  <2> QED
    BY <2>10, <2>11, <2>12, <2>16, <2>18, <2>19, <2>20, ReconcilerStep
<1> QED
  BY <1>2, <1>4, <1>5 DEF ResolveStep

\* AuditStep: the experiment was seen to be over.
LEMMA AuditStepStep ==
    ASSUME FlagsInv, NEW r \in Reconcilers, AuditStep(r)
    PROVE  FlagsInv'
<1>0. st \in FlagStates /\ st.rec[r].phase = "audit"
  BY DEF FlagsInv, AuditStep
<1>1. /\ st.rec[r].flag \in FlagIds /\ st.rec[r].id \in ExperimentIds
      /\ TaskInv(st.rec[r], st.row, st.m5) /\ Ended(st.m5, st.rec[r].id)
  BY <1>0, StepFacts
<1>2. r = "periodic" => st.row[st.rec[r].flag].resolved
  BY <1>0 DEF FlagsInv, PassInv
<1>3. st.failed \in SUBSET Tasks /\ st.losses \in Nat /\ st.audit \in SUBSET (Entries \cup AutoEntries)
  BY <1>0 DEF FlagStates
<1>4. CASE st' = Finished(r, [st EXCEPT !.audit =
                Record([flag |-> st.rec[r].flag, action |-> "auto_resolve", id |-> st.rec[r].id])])
  <2>1. PICK entry : entry = [flag |-> st.rec[r].flag, action |-> "auto_resolve", id |-> st.rec[r].id]
    OBVIOUS
  <2>2. entry \in AutoEntries /\ entry.flag = st.rec[r].flag /\ entry.id = st.rec[r].id
    BY <1>1, <2>1 DEF AutoEntries
  <2>3. PICK audit : audit = st.audit \cup {entry}
    OBVIOUS
  <2>4. audit \in SUBSET (Entries \cup AutoEntries)
    BY <1>3, <2>2, <2>3
  <2>5. entry.id # MockId /\ Ended(st.m5, entry.id) /\ st.m5[entry.id].flag = entry.flag
    <3>1. entry.id # MockId /\ entry.id # 0
      BY <1>0, <1>1, <2>2, FlagsAssumption DEF Ended, FlagStates
    <3> QED
      BY <1>1, <2>2, <3>1 DEF TaskInv, LinkedTo
  <2>6. AuditInv(audit, st.m5)
    BY <2>3, <2>5 DEF FlagsInv, AuditInv
  <2>7. [st EXCEPT !.audit = Record(entry)]
        = [st EXCEPT !.audit = audit, !.losses = st.losses, !.failed = st.failed]
    BY <1>0, <2>3 DEF FlagStates, Record
  <2>8. st' = Finished(r, [st EXCEPT !.audit = audit, !.losses = st.losses, !.failed = st.failed])
    BY <1>4, <2>1, <2>7
  <2> QED
    BY <1>0, <1>2, <1>3, <2>4, <2>6, <2>8, FinishedStep
<1>5. CASE st' = Finished(r, [st EXCEPT !.losses = @ + 1])
  <2>1. PICK losses \in Nat : losses = st.losses + 1
    BY <1>3
  <2>2. [st EXCEPT !.losses = @ + 1]
        = [st EXCEPT !.audit = st.audit, !.losses = losses, !.failed = st.failed]
    BY <1>0, <2>1 DEF FlagStates
  <2>3. st' = Finished(r, [st EXCEPT !.audit = st.audit, !.losses = losses, !.failed = st.failed])
    BY <1>5, <2>2
  <2>4. AuditInv(st.audit, st.m5)
    BY DEF FlagsInv
  <2> QED
    BY <1>0, <1>2, <1>3, <2>3, <2>4, FinishedStep
<1> QED
  BY <1>4, <1>5 DEF AuditStep

\* FlagsRestart.
LEMMA RestartStep ==
    ASSUME FlagsInv, NEW committed \in 0 .. st.offset, FlagsRestart(committed)
    PROVE  FlagsInv'
<1>0. st \in FlagStates /\ "periodic" \in Reconcilers
  BY DEF FlagsInv, Reconcilers
<1>1. committed \in Nat
  BY <1>0 DEF FlagStates
<1>2. PICK losses \in Nat : losses = st.losses + 1
  BY <1>0 DEF FlagStates
<1>3. PICK rec : rec = [r \in Reconcilers |-> Resting]
  OBVIOUS
<1>4. st' = [st EXCEPT !.losses = losses, !.rpc = Resting, !.rec = rec,
                       !.todo = {}, !.due = {}, !.failed = {}, !.offset = committed]
  BY <1>0, <1>2, <1>3 DEF FlagsRestart, FlagStates
<1>5. /\ st' \in FlagStates
      /\ st'.row = st.row /\ st'.m5 = st.m5 /\ st'.rpc = Resting /\ st'.audit = st.audit
      /\ st'.rec = rec /\ st'.todo = {} /\ st'.due = {} /\ st'.failed = {}
      /\ st'.auto = st.auto /\ st'.topic = st.topic
  BY <1>0, <1>1, <1>3, <1>4 DEF FlagStates
<1>6. \A r \in Reconcilers : st'.rec[r] = Resting
  BY <1>3, <1>5
<1>7. Resting.phase = "idle"
  BY DEF Resting
<1>8. CallInv(st'.rpc, st'.row, st'.m5)
  BY <1>5, <1>7, IdleCall
<1>9. \A r \in Reconcilers : StepInv(st'.rec[r], st'.row, st'.m5)
  BY <1>6 DEF StepInv
<1>10. PassInv(st'.todo, st'.due, st'.failed, st'.rec["periodic"], st'.row, st'.m5)
  BY <1>0, <1>5, <1>6, <1>7 DEF PassInv
<1>11. AutoInv(st'.auto, st'.todo, st'.rec["periodic"], st'.row)
  BY <1>0, <1>5, <1>6 DEF FlagsInv, AutoInv
<1>12. /\ RowsInv(st'.row, st'.m5) /\ ExperimentsInv(st'.m5) /\ AuditInv(st'.audit, st'.m5)
       /\ TopicInv(st'.topic, st'.m5)
  BY <1>5 DEF FlagsInv
<1> QED
  BY <1>5, <1>8, <1>9, <1>10, <1>11, <1>12 DEF FlagsInv

\* M5Advances: what is over stays over.
LEMMA AdvanceStep ==
    ASSUME FlagsInv, NEW id \in 1 .. Len(st.m5), M5Advances(id)
    PROVE  FlagsInv'
<1>0. st \in FlagStates
  BY DEF FlagsInv
<1>1. st.m5 \in Seq(M5Experiments) /\ st.m5[id] \in M5Experiments /\ id \in Nat
      /\ Len(st.m5) \in Nat
  BY <1>0 DEF FlagStates
<1>2. PICK next : next = CASE st.m5[id].state = "DRAFT" -> "RUNNING"
                           [] st.m5[id].state = "RUNNING" -> "CONCLUDED"
                           [] OTHER -> "ARCHIVED"
  OBVIOUS
<1>3. next \in M5States /\ (is_terminal(st.m5[id].state) => is_terminal(next))
  BY <1>2 DEF M5States, is_terminal
<1>4. PICK new : new = [st.m5[id] EXCEPT !.state = next]
  OBVIOUS
<1>5. /\ new \in M5Experiments /\ new.flag = st.m5[id].flag /\ new.state = next
      /\ new.type = st.m5[id].type /\ new.variants = st.m5[id].variants
  BY <1>1, <1>3, <1>4 DEF M5Experiments
<1>6. PICK m5 : m5 = [st.m5 EXCEPT ![id] = new]
  OBVIOUS
<1>7. /\ m5 \in Seq(M5Experiments) /\ Len(m5) = Len(st.m5) /\ m5[id] = new
      /\ \A i \in 1 .. Len(st.m5) : i # id => m5[i] = st.m5[i]
  BY <1>1, <1>5, <1>6
<1>8. PICK event : event = [id |-> id, state |-> next]
  OBVIOUS
<1>9. event \in [id : Nat, state : M5States] /\ event.id = id
  BY <1>1, <1>3, <1>8
<1>10. PICK topic : topic = Append(st.topic, event)
  OBVIOUS
<1>11. /\ st.topic \in Seq([id : Nat, state : M5States]) /\ Len(st.topic) \in Nat
       /\ topic \in Seq([id : Nat, state : M5States])
       /\ Len(topic) = Len(st.topic) + 1 /\ topic[Len(st.topic) + 1] = event
       /\ \A i \in 1 .. Len(st.topic) : topic[i] = st.topic[i]
  <2>1. st.topic \in Seq([id : Nat, state : M5States])
    BY <1>0 DEF FlagStates
  <2> QED
    BY <1>9, <1>10, <2>1
<1>12. st' = [st EXCEPT !.m5 = m5, !.topic = topic]
  BY <1>0, <1>2, <1>4, <1>6, <1>8, <1>10 DEF M5Advances, FlagStates
<1>13. /\ st' \in FlagStates
       /\ st'.row = st.row /\ st'.m5 = m5 /\ st'.rpc = st.rpc /\ st'.audit = st.audit
       /\ st'.rec = st.rec /\ st'.todo = st.todo /\ st'.due = st.due /\ st'.failed = st.failed
       /\ st'.auto = st.auto /\ st'.topic = topic
  BY <1>0, <1>7, <1>11, <1>12 DEF FlagStates
<1>14. Later(st.row, st.m5, st'.row, st'.m5)
  BY <1>1, <1>3, <1>5, <1>7, <1>13 DEF Later
<1>15. RowsInv(st'.row, st'.m5)
  <2>0. st'.m5 \in Seq(M5Experiments)
    BY <1>7, <1>13
  <2>1. \A f, x : LinkedTo(st.m5, f, x) => LinkedTo(st'.m5, f, x)
    BY <1>1, <1>14, <2>0, LaterLinks
  <2> QED
    BY <1>13, <2>1 DEF FlagsInv, RowsInv
<1>16. ExperimentsInv(st'.m5)
  <2>1. WellFormed(st.m5[id])
    BY DEF FlagsInv, ExperimentsInv
  <2>2. WellFormed(new)
    BY <1>5, <2>1 DEF WellFormed
  <2> QED
    BY <1>7, <1>13, <2>2 DEF FlagsInv, ExperimentsInv
<1>17. TopicInv(st'.topic, st'.m5)
  <2>1. TopicInv(st.topic, st.m5)
    BY DEF FlagsInv
  <2>2. ASSUME NEW i \in 1 .. Len(topic) PROVE topic[i].id \in 1 .. Len(m5)
    <3>1. CASE i = Len(st.topic) + 1
      BY <1>7, <1>9, <1>11, <3>1
    <3>2. CASE i # Len(st.topic) + 1
      <4>1. i \in 1 .. Len(st.topic)
        BY <1>11, <3>2
      <4> QED
        BY <1>7, <1>11, <2>1, <4>1 DEF TopicInv
    <3> QED
      BY <3>1, <3>2
  <2> QED
    BY <1>13, <2>2 DEF TopicInv
<1> QED
  BY <1>13, <1>14, <1>15, <1>16, <1>17, LaterKeeps DEF FlagsInv

-----------------------------------------------------------------------------
(* The invariant, and what it implies.                                     *)

\* Tables the service wrote are a good start.
LEMMA FlagsInitInv ==
    ASSUME FlagsInit
    PROVE  FlagsInv
<1>1. PICK table \in FlagTables :
        st = [algo |-> "flags", audit |-> {},
              row |-> [f \in FlagIds |-> IF f \in DOMAIN table.row THEN table.row[f] ELSE NoFlag],
              connected |-> table.connected, reconciling |-> table.reconciling, action |-> table.action,
              rpc |-> Resting, rec |-> [r \in Reconcilers |-> Resting],
              todo |-> {}, due |-> {}, failed |-> {}, auto |-> [f \in FlagIds |-> 0],
              m5 |-> table.m5, topic |-> <<>>, offset |-> 0, calls |-> table.calls, losses |-> 0]
  BY DEF FlagsInit
<1>2. PICK row : row = [f \in FlagIds |-> IF f \in DOMAIN table.row THEN table.row[f] ELSE NoFlag]
  OBVIOUS
<1>3. PICK rec : rec = [r \in Reconcilers |-> Resting]
  OBVIOUS
<1>4. PICK auto : auto = [f \in FlagIds |-> 0]
  OBVIOUS
<1>5. /\ table.connected \in BOOLEAN /\ table.reconciling \in BOOLEAN
      /\ table.action \in Actions /\ table.calls \in Nat /\ table.m5 \in Seq(M5Experiments)
      /\ \A i \in 1 .. Len(table.m5) : WellFormed(table.m5[i])
      /\ \A f \in DOMAIN table.row :
           /\ table.row[f] \in FlagRows /\ SharesTraffic(table.row[f].variants)
           /\ LinkedTo(table.m5, f, table.row[f].promoted)
  BY FlagsAssumption
<1>6. /\ row \in [FlagIds -> FlagRows \cup {NoFlag}] /\ auto \in [FlagIds -> Nat]
      /\ rec \in [Reconcilers -> Steps \cup {Resting}] /\ <<>> \in Seq([id : Nat, state : M5States])
      /\ Len(<<>>) = 0
  BY <1>2, <1>3, <1>4, <1>5
<1>7. /\ st.algo = "flags" /\ st.audit = {} /\ st.row = row /\ st.connected = table.connected
      /\ st.reconciling = table.reconciling /\ st.action = table.action /\ st.rpc = Resting
      /\ st.rec = rec /\ st.todo = {} /\ st.due = {} /\ st.failed = {} /\ st.auto = auto
      /\ st.m5 = table.m5 /\ st.topic = <<>> /\ st.offset = 0
      /\ st.calls = table.calls /\ st.losses = 0
  BY <1>1, <1>2, <1>3, <1>4
<1>8. st \in FlagStates
  BY <1>1, <1>2, <1>3, <1>4, <1>5, <1>6 DEF FlagStates
<1>9. RowsInv(st.row, st.m5)
  <2>1. ASSUME NEW f \in FlagIds, row[f] # NoFlag
        PROVE  SharesTraffic(row[f].variants) /\ LinkedTo(table.m5, f, row[f].promoted)
    BY <1>2, <1>5, <2>1
  <2> QED
    BY <1>7, <2>1 DEF RowsInv
<1>10. Resting.phase = "idle"
  BY DEF Resting
<1>11. CallInv(st.rpc, st.row, st.m5)
  BY <1>7, <1>10, IdleCall
<1>12. \A r \in Reconcilers : st.rec[r] = Resting
  BY <1>3, <1>7
<1>13. "periodic" \in Reconcilers
  BY DEF Reconcilers
<1>14. \A r \in Reconcilers : StepInv(st.rec[r], st.row, st.m5)
  BY <1>12 DEF StepInv
<1>15. PassInv(st.todo, st.due, st.failed, st.rec["periodic"], st.row, st.m5)
  BY <1>7, <1>10, <1>12, <1>13 DEF PassInv
<1>16. AutoInv(st.auto, st.todo, st.rec["periodic"], st.row)
  BY <1>4, <1>7 DEF AutoInv
<1>17. ExperimentsInv(st.m5) /\ AuditInv(st.audit, st.m5) /\ TopicInv(st.topic, st.m5)
  BY <1>5, <1>6, <1>7 DEF ExperimentsInv, AuditInv, TopicInv
<1> QED
  BY <1>8, <1>9, <1>11, <1>14, <1>15, <1>16, <1>17 DEF FlagsInv

\* Every step of every process keeps the invariant.
LEMMA FlagsStep == FlagsInv /\ FlagsNext => FlagsInv'
<1> SUFFICES ASSUME FlagsInv, FlagsNext PROVE FlagsInv'
  OBVIOUS
<1>1. ASSUME NEW f \in FlagIds, NEW pb \in FlagRequests, create_flag(f, pb) \/ ReadPrevious(f, pb)
      PROVE  FlagsInv'
  BY <1>1, CreateStep, ReadPreviousStep
<1>2. ASSUME NEW f \in FlagIds, NEW type \in PromotionTypes, PromoteReadRow(f, type)
      PROVE  FlagsInv'
  BY <1>2, PromoteReadRowStep
<1>3. CASE update_flag
  BY <1>3, UpdateStep
<1>4. CASE record_audit_nonfatal
  BY <1>4, AuditRowStep
<1>5. CASE PromoteReadVariants
  BY <1>5, PromoteReadVariantsStep
<1>6. CASE CreateInM5
  BY <1>6, CreateInM5Step
<1>7. CASE link_flag_to_experiment
  BY <1>7, LinkStep
<1>8. ASSUME NEW f \in FlagIds, NEW a \in Actions, handle_resolve(f, a)
      PROVE  FlagsInv'
  BY <1>8, HandleResolveStep
<1>9. CASE reconcile_once
  BY <1>9, ReconcileOnceStep
<1>10. CASE NextOfPass
  BY <1>10, NextOfPassStep
<1>11. CASE NextOfTopic
  BY <1>11, NextOfTopicStep
<1>12. ASSUME NEW r \in Reconcilers, GetExperiment(r) \/ ResolveStep(r) \/ AuditStep(r)
       PROVE  FlagsInv'
  BY <1>12, GetExperimentStep, ResolveStepStep, AuditStepStep
<1>13. ASSUME NEW committed \in 0 .. st.offset, FlagsRestart(committed)
       PROVE  FlagsInv'
  BY <1>13, RestartStep
<1>14. ASSUME NEW id \in 1 .. Len(st.m5), M5Advances(id)
       PROVE  FlagsInv'
  BY <1>14, AdvanceStep
<1> QED
  BY <1>1, <1>2, <1>3, <1>4, <1>5, <1>6, <1>7, <1>8, <1>9, <1>10, <1>11, <1>12, <1>13, <1>14
  DEF FlagsNext

\* A flag that is evaluated alone.
EvaluatedFlags ==
    [type : {"BOOLEAN", "STRING"}, enabled : BOOLEAN, rollout : 0 .. FlagBuckets, variants : FlagSplits]
EvaluationInv == Running("evaluate") => st \in [algo : {"evaluate"}, flag : EvaluatedFlags]

LEMMA EvaluationMonotone == EvaluationInv => RolloutIsMonotone
<1> SUFFICES ASSUME EvaluationInv, Running("evaluate"), NEW b \in 0 .. FlagBuckets - 1,
                    NEW higher \in st.flag.rollout .. FlagBuckets, b < st.flag.rollout
             PROVE  evaluate_flag([st.flag EXCEPT !.rollout = higher], b) = evaluate_flag(st.flag, b)
  BY DEF RolloutIsMonotone
<1>1. st.flag \in EvaluatedFlags /\ st.flag.rollout \in 0 .. FlagBuckets /\ FlagBuckets \in Nat
  BY FlagsAssumption DEF EvaluationInv, EvaluatedFlags
<1>2. PICK raised : raised = [st.flag EXCEPT !.rollout = higher]
  OBVIOUS
<1>3. /\ raised.rollout = higher /\ raised.enabled = st.flag.enabled
      /\ raised.variants = st.flag.variants /\ raised.type = st.flag.type
  BY <1>1, <1>2 DEF EvaluatedFlags
<1>4. ~(b >= higher) /\ ~(b >= st.flag.rollout)
  BY <1>1
<1>5. evaluate_flag(raised, b) = evaluate_flag(st.flag, b)
  BY <1>3, <1>4 DEF evaluate_flag
<1> QED
  BY <1>2, <1>5

\* What the invariant says of a running service.
LEMMA FlagsInvImplies ==
    FlagsInv => /\ ResolutionReachesEveryone /\ AutoResolutionIsEarned /\ PassIsComplete
                /\ PeriodicResolvesOnce /\ PromotedIsWellFormed
<1> SUFFICES ASSUME FlagsInv
             PROVE  /\ ResolutionReachesEveryone /\ AutoResolutionIsEarned /\ PassIsComplete
                    /\ PeriodicResolvesOnce /\ PromotedIsWellFormed
  OBVIOUS
<1>0. st \in FlagStates
  BY DEF FlagsInv
<1>1. ResolutionReachesEveryone
  <2> SUFFICES ASSUME NEW f \in FlagIds, Known(f), NEW b \in 0 .. FlagBuckets - 1
               PROVE  /\ evaluate_flag(resolve_flag(st.row[f], "rollback"), b) = Default
                      /\ (st.row[f].type = "BOOLEAN" \/ st.row[f].variants # <<>>) =>
                           evaluate_flag(resolve_flag(st.row[f], "rollout_full"), b) # Default
    BY DEF ResolutionReachesEveryone
  <2>1. PICK row \in FlagRows : row = st.row[f]
    BY <1>0 DEF Known, FlagStates
  <2>2. PICK off : off = resolve_flag(row, "rollback")
    OBVIOUS
  <2>3. off.enabled = FALSE
    <3>1. off = [row EXCEPT !.rollout = 0, !.enabled = FALSE, !.resolved = TRUE]
      BY <2>2 DEF resolve_flag
    <3> QED
      BY <3>1 DEF FlagRows
  <2>4. evaluate_flag(off, b) = Default
    BY <2>3 DEF evaluate_flag
  <2>5. PICK full : full = resolve_flag(row, "rollout_full")
    OBVIOUS
  <2>6. /\ full.enabled = TRUE /\ full.rollout = FlagBuckets
        /\ full.type = row.type /\ full.variants = row.variants
    <3>1. full = [row EXCEPT !.rollout = FlagBuckets, !.enabled = TRUE, !.resolved = TRUE]
      BY <2>5 DEF resolve_flag
    <3> QED
      BY <3>1 DEF FlagRows
  <2>7. ~(b >= full.rollout)
    BY <2>6, FlagsAssumption
  <2>8. row.variants \in Seq(Int)
    BY DEF FlagRows
  <2>9. row.variants # <<>> => FlagVariantAt(row.variants, b) # Default
    BY <2>8, VariantIsNotDefault
  <2>10. On # Default
    BY DEF On, Default
  <2>11. (row.type = "BOOLEAN" \/ row.variants # <<>>) => evaluate_flag(full, b) # Default
    BY <2>6, <2>7, <2>9, <2>10 DEF evaluate_flag
  <2> QED
    BY <2>1, <2>2, <2>4, <2>5, <2>11
<1>2. AutoResolutionIsEarned
  BY DEF FlagsInv, AuditInv, Ended, AutoResolutionIsEarned
<1>3. PassIsComplete
  BY DEF FlagsInv, PassInv, PassIsComplete
<1>4. PeriodicResolvesOnce
  <2>1. AutoInv(st.auto, st.todo, st.rec["periodic"], st.row)
    BY DEF FlagsInv
  <2>2. \A f \in FlagIds : st.auto[f] = 0 \/ st.auto[f] = 1
    BY <2>1 DEF AutoInv
  <2> QED
    BY <2>2 DEF PeriodicResolvesOnce
<1>5. PromotedIsWellFormed
  BY DEF FlagsInv, ExperimentsInv, PromotedIsWellFormed
<1> QED
  BY <1>1, <1>2, <1>3, <1>4, <1>5

\* M7 keeps its promises for any flags, tables, requests and failures: a
\* user keeps an answer when the rollout grows, a resolution reaches every
\* user, a flag is resolved automatically only because the experiment it was
\* itself promoted to is over, by the pass at most once and never left
\* behind by another flag's failure, and what is promoted is well formed
\* even when the flag changes between the two reads of it.
THEOREM FlagsSound == FlagsSpec => []FlagsAreSound
<1> DEFINE I == CallsInv /\ EvaluationInv
<1>1. FlagsInit \/ EvaluationInit => I
  <2>1. ASSUME FlagsInit PROVE I
    <3>1. FlagsInv
      BY <2>1, FlagsInitInv
    <3>2. st.algo = "flags"
      BY <3>1 DEF FlagsInv, FlagStates
    <3> QED
      BY <3>1, <3>2 DEF CallsInv, EvaluationInv, Running
  <2>2. ASSUME EvaluationInit PROVE I
    <3>1. PICK type \in {"BOOLEAN", "STRING"}, variants \in FlagSplits, rollout \in 0 .. FlagBuckets :
            st = Evaluated([type |-> type, enabled |-> TRUE, rollout |-> rollout, variants |-> variants])
      BY <2>2 DEF EvaluationInit
    <3>2. st \in [algo : {"evaluate"}, flag : EvaluatedFlags]
      BY <3>1 DEF Evaluated, EvaluatedFlags
    <3>3. st.algo = "evaluate"
      BY <3>2
    <3> QED
      BY <3>2, <3>3 DEF CallsInv, EvaluationInv, Running
  <2> QED
    BY <2>1, <2>2
<1>2. I /\ [FlagsNext]_st => I'
  <2>1. ASSUME I, FlagsNext PROVE I'
    <3>1. FlagsInv
      BY <2>1 DEF FlagsNext, CallsInv
    <3>2. FlagsInv'
      BY <2>1, <3>1, FlagsStep
    <3>3. st'.algo = "flags"
      BY <3>2 DEF FlagsInv, FlagStates
    <3> QED
      BY <3>2, <3>3 DEF CallsInv, EvaluationInv, Running
  <2>2. ASSUME I, UNCHANGED st PROVE I'
    BY <2>2 DEF CallsInv, EvaluationInv, FlagsInv, Running
  <2> QED
    BY <2>1, <2>2
<1>3. I => FlagsAreSound
  <2> SUFFICES ASSUME I PROVE FlagsAreSound
    OBVIOUS
  <2>1. RolloutIsMonotone
    BY EvaluationMonotone
  <2>2. /\ ResolutionReachesEveryone /\ AutoResolutionIsEarned /\ PassIsComplete
        /\ PeriodicResolvesOnce /\ PromotedIsWellFormed
    <3>1. CASE Running("flags")
      BY <3>1, FlagsInvImplies DEF CallsInv
    <3>2. CASE ~Running("flags")
      BY <3>2 DEF ResolutionReachesEveryone, AutoResolutionIsEarned, PassIsComplete,
                  PeriodicResolvesOnce, PromotedIsWellFormed
    <3> QED
      BY <3>1, <3>2
  <2> QED
    BY <2>1, <2>2 DEF FlagsAreSound
<1> QED
  BY <1>1, <1>2, <1>3, PTL DEF FlagsSpec

-----------------------------------------------------------------------------
(* The members of a sequence that are in a set.                            *)

Filtering(s, S, f) ==
    f = [i \in 0 .. Len(s) |-> IF i = 0 THEN <<>> ELSE IF s[i] \in S THEN Append(f[i - 1], s[i]) ELSE f[i - 1]]

LEMMA FilterExists ==
    ASSUME NEW T, NEW s \in Seq(T), NEW S
    PROVE  \E f \in [0 .. Len(s) -> Seq(T \cap S)] : Filtering(s, S, f)
<1> DEFINE Q == Seq(T \cap S)
           Next(q, i) == IF s[i] \in S THEN Append(q, s[i]) ELSE q
           P(n) == n <= Len(s) => \E f \in [0 .. n -> Q] : f[0] = <<>> /\ \A i \in 1 .. n : f[i] = Next(f[i - 1], i)
           U == {n \in Nat : P(n)}
<1>0. Len(s) \in Nat /\ <<>> \in Q /\ \A i \in 1 .. Len(s), q \in Q : Next(q, i) \in Q
  OBVIOUS
<1> HIDE DEF Q, Next
<1>1. 0 \in U
  <2>1. [i \in 0 .. 0 |-> <<>>] \in [0 .. 0 -> Q] /\ [i \in 0 .. 0 |-> <<>>][0] = <<>>
    BY <1>0
  <2>2. \A i \in 1 .. 0 : FALSE
    OBVIOUS
  <2> QED
    BY <2>1, <2>2
<1>2. ASSUME NEW n \in Nat, n \in U PROVE n + 1 \in U
  <2>0. P(n)
    BY <1>2
  <2> HIDE DEF P
  <2> SUFFICES P(n + 1)
    OBVIOUS
  <2> USE DEF P
  <2> SUFFICES ASSUME n + 1 <= Len(s)
               PROVE  \E g \in [0 .. n + 1 -> Q] : g[0] = <<>> /\ \A i \in 1 .. n + 1 : g[i] = Next(g[i - 1], i)
    OBVIOUS
  <2>1. PICK f \in [0 .. n -> Q] : f[0] = <<>> /\ \A i \in 1 .. n : f[i] = Next(f[i - 1], i)
    <3>1. n <= Len(s)
      BY <1>0
    <3> QED
      BY <2>0, <3>1, Zenon
  <2>2. PICK g : g = [i \in 0 .. n + 1 |-> IF i = n + 1 THEN Next(f[n], n + 1) ELSE f[i]]
    OBVIOUS
  <2>3. n + 1 \in 1 .. Len(s) /\ f[n] \in Q
    BY <1>0
  <2>4. Next(f[n], n + 1) \in Q
    BY <1>0, <2>3
  <2>5. g \in [0 .. n + 1 -> Q] /\ g[0] = <<>>
    BY <2>1, <2>2, <2>4
  <2>6. ASSUME NEW i \in 1 .. n + 1 PROVE g[i] = Next(g[i - 1], i)
    <3>1. CASE i = n + 1
      <4>1. g[i] = Next(f[n], n + 1) /\ g[i - 1] = f[n]
        BY <2>2, <3>1
      <4> QED
        BY <3>1, <4>1
    <3>2. CASE i # n + 1
      <4>1. i \in 1 .. n /\ g[i] = f[i] /\ g[i - 1] = f[i - 1]
        BY <2>2, <3>2
      <4> QED
        BY <2>1, <4>1
    <3> QED
      BY <3>1, <3>2
  <2> QED
    BY <2>5, <2>6
<1>3. Len(s) \in U
  <2> HIDE DEF U
  <2> QED BY <1>0, <1>1, <1>2, Induction
<1>4. PICK f \in [0 .. Len(s) -> Q] : f[0] = <<>> /\ \A i \in 1 .. Len(s) : f[i] = Next(f[i - 1], i)
  BY <1>0, <1>3
<1>5. \A i \in 0 .. Len(s) : f[i] = IF i = 0 THEN <<>> ELSE Next(f[i - 1], i)
  BY <1>0, <1>4
<1>6. f = [i \in 0 .. Len(s) |-> IF i = 0 THEN <<>> ELSE Next(f[i - 1], i)]
  BY <1>5
<1>7. Filtering(s, S, f)
  BY <1>6 DEF Filtering, Next
<1> QED
  BY <1>7 DEF Q

\* Filtered(s, S) is a sequence of members of s that are in S.
LEMMA FilteredIn ==
    ASSUME NEW T, NEW s \in Seq(T), NEW S
    PROVE  Filtered(s, S) \in Seq(T \cap S)
<1> DEFINE Q == Seq(T \cap S)
<1>0. Len(s) \in Nat /\ <<>> \in Q /\ \A i \in 1 .. Len(s), q \in Q : s[i] \in S => Append(q, s[i]) \in Q
  OBVIOUS
<1>1. \E f : Filtering(s, S, f)
  BY FilterExists
<1>2. PICK f : f = CHOOSE g : Filtering(s, S, g)
  OBVIOUS
<1>3. Filtering(s, S, f)
  BY <1>1, <1>2
<1>4. Filtered(s, S) = f[Len(s)]
  BY <1>2 DEF Filtered, Filtering
<1> DEFINE U == {n \in Nat : n <= Len(s) => f[n] \in Q}
<1> HIDE DEF Q
<1>5. 0 \in U
  <2>1. f[0] = <<>>
    BY <1>0, <1>3 DEF Filtering
  <2> QED
    BY <1>0, <2>1
<1>6. ASSUME NEW n \in Nat, n \in U PROVE n + 1 \in U
  <2> SUFFICES ASSUME n + 1 <= Len(s) PROVE f[n + 1] \in Q
    OBVIOUS
  <2>1. f[n] \in Q /\ n + 1 \in 1 .. Len(s)
    BY <1>0, <1>6
  <2>2. f[n + 1] = IF s[n + 1] \in S THEN Append(f[n], s[n + 1]) ELSE f[n]
    <3>1. n + 1 \in 0 .. Len(s) /\ n + 1 # 0 /\ (n + 1) - 1 = n
      BY <1>0, <2>1
    <3>2. \A i \in 0 .. Len(s) : i # 0 => f[i] = IF s[i] \in S THEN Append(f[i - 1], s[i]) ELSE f[i - 1]
      BY <1>3 DEF Filtering
    <3>3. f[n + 1] = IF s[n + 1] \in S THEN Append(f[(n + 1) - 1], s[n + 1]) ELSE f[(n + 1) - 1]
      BY <3>1, <3>2, Zenon
    <3> QED
      BY <3>1, <3>3
  <2> QED
    BY <1>0, <2>1, <2>2
<1>7. Len(s) \in U
  <2> HIDE DEF U
  <2> QED BY <1>0, <1>5, <1>6, Induction
<1> QED
  BY <1>0, <1>4, <1>7 DEF Q

\* Sequences, whatever they are of.
Listed(s) == s \in Seq(Elements(s))

LEMMA ListedElements ==
    ASSUME NEW T, NEW s \in Seq(T)
    PROVE  Listed(s) /\ Elements(s) \subseteq T
BY DEF Listed, Elements

LEMMA FilteredElements ==
    ASSUME NEW s, Listed(s), NEW S
    PROVE  Listed(Filtered(s, S)) /\ Elements(Filtered(s, S)) \subseteq Elements(s) \cap S
<1>1. Filtered(s, S) \in Seq(Elements(s) \cap S)
  BY FilteredIn DEF Listed
<1> QED
  BY <1>1, ListedElements

LEMMA ListedTail ==
    ASSUME NEW s, Listed(s), s # <<>>
    PROVE  Head(s) \in Elements(s) /\ Listed(Tail(s)) /\ Elements(Tail(s)) \subseteq Elements(s)
<1>1. s \in Seq(Elements(s))
  BY DEF Listed
<1>2. Head(s) \in Elements(s) /\ Tail(s) \in Seq(Elements(s))
  <2> DEFINE T == Elements(s)
  <2>1. s \in Seq(T)
    BY <1>1
  <2> HIDE DEF T
  <2>2. Head(s) \in T /\ Tail(s) \in Seq(T)
    BY <2>1
  <2> QED
    BY <2>2 DEF T
<1> QED
  BY <1>2, ListedElements

LEMMA ListedAppend ==
    ASSUME NEW s, Listed(s), NEW x
    PROVE  Listed(Append(s, x)) /\ Elements(Append(s, x)) = Elements(s) \cup {x}
<1> DEFINE T == Elements(s) \cup {x}
<1>1. s \in Seq(T)
  BY DEF Listed
<1>2. Append(s, x) \in Seq(T)
  BY <1>1
<1>3. Elements(Append(s, x)) = T
  <2>1. Len(Append(s, x)) = Len(s) + 1 /\ Len(s) \in Nat
    BY <1>1
  <2>2. \A i \in 1 .. Len(s) : Append(s, x)[i] = s[i]
    BY <1>1
  <2>3. Append(s, x)[Len(s) + 1] = x
    BY <1>1
  <2> QED
    BY <2>1, <2>2, <2>3 DEF Elements
<1> QED
  BY <1>2, <1>3 DEF Listed

LEMMA ListedEmpty == Listed(<<>>) /\ Elements(<<>>) = {}
BY DEF Listed, Elements

-----------------------------------------------------------------------------
(* The migration tool.  A metric goes from file to file together with what *)
(* was built from it; what M5 knows and what M3 approved only grows.       *)

\* What the files hold of a metric and of its replacement, and what M3 and M5
\* are given.
Original(m)    == metric_to_json(Definition(m))
Replacement(m) == metric_to_json(build_metric(json_to_metric_definition(Original(m)), ShapeOf[m]))
Compared(m)    == json_to_metric_definition(Replacement(m))

\* Metric m has a replacement, of metrics in C.
Vouched(m, C) == is_shadow_eligible_tier(ShapeOf[m]) /\ OperandsOf[m] \subseteq C
RunFor(runs, i, m) == i \in 1 .. Len(runs) /\ runs[i].metric = m /\ runs[i].candidate = Compared(m)
ApprovedFor(runs, i, m) ==
    i \in 1 .. Len(runs) /\ runs[i] = [metric |-> m, candidate |-> Compared(m), status |-> "APPROVED"]

ReportOk(report, C) ==
    report # NoFile => Listed(report) /\ \A j \in Elements(report) : \E m \in C : j = Original(m)
CandidateOk(e, C) == Vouched(e.metric, C) /\ e.proposal = Replacement(e.metric)
ProposalsOk(proposals, C) ==
    proposals # NoFile =>
        /\ Listed(proposals)
        /\ \A e \in Elements(proposals) : is_shadow_eligible_tier(e.tier) => CandidateOk(e, C)

OutcomeOk(o, runs, C, budget) ==
    /\ Vouched(o.metric, C) /\ o.candidate = Replacement(o.metric)
    /\ o.status = "APPROVED" /\ o.result # 0 => ApprovedFor(runs, o.result, o.metric)
    /\ o.status = "PENDING" => o.elapsed >= budget
    /\ o.asked < budget + PollInterval
OutcomesOk(s, runs, C, budget) == Listed(s) /\ \A o \in Elements(s) : OutcomeOk(o, runs, C, budget)
ToApplyOk(o, runs, C) ==
    Vouched(o.metric, C) /\ o.candidate = Replacement(o.metric) /\ ApprovedFor(runs, o.result, o.metric)
ResultsOk(s, migrated) ==
    Listed(s) /\ \A a \in Elements(s) : a.status = "OK" => Migration(a.of) \in migrated

ShadowCommandOk(cmd, runs, C, budget) ==
    /\ cmd = [name |-> "shadow", todo |-> cmd.todo, outcomes |-> cmd.outcomes, run |-> cmd.run, elapsed |-> cmd.elapsed]
    /\ Listed(cmd.todo) /\ \A e \in Elements(cmd.todo) : CandidateOk(e, C)
    /\ OutcomesOk(cmd.outcomes, runs, C, budget)
    /\ cmd.elapsed \in 0 .. budget + PollInterval - 1
    /\ cmd.run # 0 => cmd.todo # <<>> /\ RunFor(runs, cmd.run, Head(cmd.todo).metric)
ApplyCommandOk(cmd, runs, C, migrated) ==
    /\ cmd = [name |-> "apply", todo |-> cmd.todo, outcomes |-> cmd.outcomes]
    /\ Listed(cmd.todo) /\ \A o \in Elements(cmd.todo) : ToApplyOk(o, runs, C)
    /\ ResultsOk(cmd.outcomes, migrated)
CommandOk(cmd, runs, C, budget, migrated) ==
    cmd = NoCommand \/ ShadowCommandOk(cmd, runs, C, budget) \/ ApplyCommandOk(cmd, runs, C, migrated)

RunStatuses == {"PENDING", "APPROVED", "REJECTED", "FAILED"}
RunsOk(runs) ==
    /\ Listed(runs)
    /\ \A i \in 1 .. Len(runs) :
          /\ runs[i] = [metric |-> runs[i].metric, candidate |-> runs[i].candidate, status |-> runs[i].status]
          /\ runs[i].status \in RunStatuses
MigrationOk(x, runs, C) ==
    Vouched(x.old, C) /\ x.new = Compared(x.old) /\ ApprovedFor(runs, x.run, x.old)
ExitOk(exit, migrated) ==
    exit.name = "apply" /\ exit.code = 0 => \A a \in Elements(exit.about) : Migration(a.of) \in migrated

MigratorFields == {"algo", "budget", "custom", "migrated", "runs", "report", "proposals", "shadow", "audit",
                   "cmd", "exit", "commands", "faults"}
MigratorInv ==
    /\ DOMAIN st = MigratorFields /\ st.algo = "migrator" /\ st.budget \in Nat
    /\ RunsOk(st.runs)
    /\ \A x \in st.migrated : MigrationOk(x, st.runs, st.custom)
    /\ ReportOk(st.report, st.custom) /\ ProposalsOk(st.proposals, st.custom)
    /\ st.shadow # NoFile => OutcomesOk(st.shadow, st.runs, st.custom, st.budget)
    /\ st.audit # NoFile => ResultsOk(st.audit, st.migrated)
    /\ CommandOk(st.cmd, st.runs, st.custom, st.budget, st.migrated)
    /\ ExitOk(st.exit, st.migrated)

LEMMA MigratorStarts ==
    ASSUME MigratorInit
    PROVE  MigratorInv
<1>1. PICK b \in PollBudgets :
        st = [algo |-> "migrator", budget |-> b,
              custom |-> Elements(CustomMetrics) \ LateMetrics,
              migrated |-> {},
              runs |-> <<>>,
              report |-> NoFile, proposals |-> NoFile, shadow |-> NoFile, audit |-> NoFile,
              cmd |-> NoCommand, exit |-> [name |-> "none"],
              commands |-> 0, faults |-> 0]
  BY DEF MigratorInit
<1>2. /\ DOMAIN st = MigratorFields /\ st.algo = "migrator" /\ st.budget = b /\ st.migrated = {} /\ st.runs = <<>>
      /\ st.report = NoFile /\ st.proposals = NoFile /\ st.shadow = NoFile /\ st.audit = NoFile
      /\ st.cmd = NoCommand /\ st.exit = [name |-> "none"]
  BY <1>1 DEF MigratorFields
<1>3. b \in Nat
  BY MigratorAssumption
<1>4. RunsOk(<<>>)
  BY ListedEmpty DEF RunsOk
<1>5. ExitOk([name |-> "none"], {})
  BY DEF ExitOk
<1> QED
  BY <1>2, <1>3, <1>4, <1>5 DEF MigratorInv, ReportOk, ProposalsOk, CommandOk

-----------------------------------------------------------------------------
\* What M5, M3 and the tool know only grows.
RunsGrow(runs, later) ==
    /\ Len(runs) \in Nat /\ Len(later) \in Nat /\ Len(runs) <= Len(later)
    /\ \A i \in 1 .. Len(runs) :
          /\ later[i].metric = runs[i].metric /\ later[i].candidate = runs[i].candidate
          /\ runs[i].status = "APPROVED" => later[i] = runs[i]

LEMMA ApprovedStays ==
    ASSUME NEW R, NEW Q, RunsGrow(R, Q), NEW i, NEW m, ApprovedFor(R, i, m)
    PROVE  ApprovedFor(Q, i, m)
<1>1. i \in 1 .. Len(Q) /\ i \in 1 .. Len(R)
  BY DEF ApprovedFor, RunsGrow
<1>2. R[i].status = "APPROVED"
  BY DEF ApprovedFor
<1>3. Q[i] = R[i]
  BY <1>1, <1>2 DEF RunsGrow
<1> QED
  BY <1>1, <1>3 DEF ApprovedFor

LEMMA VouchedStays ==
    ASSUME NEW C, NEW D, C \subseteq D, NEW m, Vouched(m, C)
    PROVE  Vouched(m, D)
BY DEF Vouched

LEMMA OutcomesStay ==
    ASSUME NEW R, NEW Q, RunsGrow(R, Q), NEW C, NEW D, C \subseteq D, NEW budget, NEW s,
           OutcomesOk(s, R, C, budget)
    PROVE  OutcomesOk(s, Q, D, budget)
BY ApprovedStays, VouchedStays, Zenon DEF OutcomesOk, OutcomeOk

LEMMA CommandStays ==
    ASSUME NEW R, NEW Q, RunsGrow(R, Q), NEW C, NEW D, C \subseteq D, NEW M, NEW N, M \subseteq N, NEW budget, NEW cmd,
           CommandOk(cmd, R, C, budget, M)
    PROVE  CommandOk(cmd, Q, D, budget, N)
<1>1. CASE cmd = NoCommand
  BY <1>1 DEF CommandOk
<1>2. CASE ShadowCommandOk(cmd, R, C, budget)
  <2>1. \A e \in Elements(cmd.todo) : CandidateOk(e, D)
    BY <1>2, VouchedStays, Zenon DEF ShadowCommandOk, CandidateOk
  <2>2. OutcomesOk(cmd.outcomes, Q, D, budget)
    BY <1>2, OutcomesStay, Zenon DEF ShadowCommandOk
  <2>3. ASSUME cmd.run # 0 PROVE RunFor(Q, cmd.run, Head(cmd.todo).metric)
    <3> DEFINE m == Head(cmd.todo).metric
               i == cmd.run
    <3>1. RunFor(R, i, m)
      BY <1>2, <2>3 DEF ShadowCommandOk
    <3> HIDE DEF m, i
    <3>2. RunFor(Q, i, m)
      BY <3>1 DEF RunFor, RunsGrow
    <3> QED
      BY <3>2 DEF m, i
  <2>4. ShadowCommandOk(cmd, Q, D, budget)
    BY <1>2, <2>1, <2>2, <2>3, Zenon DEF ShadowCommandOk
  <2> QED
    BY <2>4 DEF CommandOk
<1>3. CASE ApplyCommandOk(cmd, R, C, M)
  <2>1. \A o \in Elements(cmd.todo) : ToApplyOk(o, Q, D)
    BY <1>3, VouchedStays, ApprovedStays, Zenon DEF ApplyCommandOk, ToApplyOk
  <2>2. ResultsOk(cmd.outcomes, N)
    BY <1>3 DEF ApplyCommandOk, ResultsOk
  <2>3. ApplyCommandOk(cmd, Q, D, N)
    BY <1>3, <2>1, <2>2, Zenon DEF ApplyCommandOk
  <2> QED
    BY <2>3 DEF CommandOk
<1> QED
  BY <1>1, <1>2, <1>3 DEF CommandOk

\* A step that adds metrics, migrations and runs and leaves the files alone.
LEMMA StepGrows ==
    ASSUME MigratorInv, NEW cmd, CommandOk(cmd, st'.runs, st'.custom, st.budget, st'.migrated),
           DOMAIN st' = MigratorFields, st'.algo = st.algo, st'.budget = st.budget,
           st.custom \subseteq st'.custom, st.migrated \subseteq st'.migrated, RunsGrow(st.runs, st'.runs), RunsOk(st'.runs),
           \A x \in st'.migrated \ st.migrated : MigrationOk(x, st'.runs, st'.custom),
           st'.report = st.report, st'.proposals = st.proposals, st'.shadow = st.shadow, st'.audit = st.audit,
           st'.exit = st.exit, st'.cmd = cmd
    PROVE  MigratorInv'
<1>1. \A x \in st.migrated : MigrationOk(x, st'.runs, st'.custom)
  BY VouchedStays, ApprovedStays, Zenon DEF MigratorInv, MigrationOk
<1>2. ReportOk(st.report, st'.custom)
  BY DEF MigratorInv, ReportOk
<1>3. ProposalsOk(st.proposals, st'.custom)
  BY VouchedStays, Zenon DEF MigratorInv, ProposalsOk, CandidateOk
<1>4. st.shadow # NoFile => OutcomesOk(st.shadow, st'.runs, st'.custom, st.budget)
  BY OutcomesStay, Zenon DEF MigratorInv
<1>5. st.audit # NoFile => ResultsOk(st.audit, st'.migrated)
  BY DEF MigratorInv, ResultsOk
<1>6. ExitOk(st.exit, st'.migrated)
  BY DEF MigratorInv, ExitOk
<1>7. \A x \in st'.migrated : MigrationOk(x, st'.runs, st'.custom)
  BY <1>1, Zenon
<1>8. st'.algo = "migrator" /\ st'.budget \in Nat
  BY DEF MigratorInv
<1> QED
  BY <1>2, <1>3, <1>4, <1>5, <1>6, <1>7, <1>8, Zenon DEF MigratorInv

LEMMA SameRuns ==
    ASSUME NEW R, RunsOk(R)
    PROVE  RunsGrow(R, R)
BY DEF RunsOk, RunsGrow, Listed

\* A step that touches only files, the command and the exit.
Steady ==
    /\ DOMAIN st' = MigratorFields /\ st'.algo = st.algo /\ st'.budget = st.budget
    /\ st'.custom = st.custom /\ st'.migrated = st.migrated /\ st'.runs = st.runs

LEMMA StepKeeps ==
    ASSUME MigratorInv, Steady, ReportOk(st'.report, st.custom), ProposalsOk(st'.proposals, st.custom),
           st'.shadow # NoFile => OutcomesOk(st'.shadow, st.runs, st.custom, st.budget),
           st'.audit # NoFile => ResultsOk(st'.audit, st.migrated),
           CommandOk(st'.cmd, st.runs, st.custom, st.budget, st.migrated),
           ExitOk(st'.exit, st.migrated)
    PROVE  MigratorInv'
<1>1. st'.algo = "migrator" /\ st'.budget \in Nat
  BY DEF MigratorInv, Steady
<1> QED
  BY <1>1, Zenon DEF MigratorInv, Steady

LEMMA NoCommandOk ==
    ASSUME NEW R, NEW C, NEW b, NEW M
    PROVE  CommandOk(NoCommand, R, C, b, M)
BY DEF CommandOk

\* Commands that end at once.
LEMMA ScanKeeps ==
    ASSUME MigratorInv, scan
    PROVE  MigratorInv'
<1>1. CASE st' = Exit([Start(NoCommand) EXCEPT !.report = Scanned(st.custom)], "scan", 0, <<>>)
  <2>1. /\ Steady /\ st'.report = Scanned(st.custom) /\ st'.proposals = st.proposals /\ st'.shadow = st.shadow
        /\ st'.audit = st.audit /\ st'.cmd = NoCommand /\ st'.exit.name = "scan"
    BY <1>1 DEF MigratorInv, MigratorFields, Exit, Start, Steady
  <2> DEFINE listed == Filtered(CustomMetrics, st.custom)
  <2>2. listed \in Seq(Elements(CustomMetrics) \cap st.custom)
    BY MigratorAssumption, FilteredIn
  <2>3. Scanned(st.custom) = [i \in 1 .. Len(listed) |-> Original(listed[i])]
    BY DEF Scanned, Original
  <2> HIDE DEF listed
  <2>4. \A i \in 1 .. Len(listed) : listed[i] \in st.custom
    BY <2>2
  <2>5. ReportOk(Scanned(st.custom), st.custom)
    <3> DEFINE r == Scanned(st.custom)
               T == {Original(m) : m \in st.custom}
    <3>1. r \in Seq(T)
      BY <2>2, <2>3, <2>4
    <3> QED
      BY <3>1, ListedElements DEF ReportOk
  <2>6. ExitOk(st'.exit, st.migrated)
    BY <2>1 DEF ExitOk
  <2> QED
    BY <2>1, <2>5, <2>6, StepKeeps, NoCommandOk DEF MigratorInv
<1>2. CASE st' = Fault(Exit(Start(NoCommand), "scan", 1, <<>>))
  <2>1. /\ Steady /\ st'.report = st.report /\ st'.proposals = st.proposals /\ st'.shadow = st.shadow
        /\ st'.audit = st.audit /\ st'.cmd = NoCommand /\ st'.exit.name = "scan"
    BY <1>2 DEF MigratorInv, MigratorFields, Exit, Start, Fault, Steady
  <2>2. ExitOk(st'.exit, st.migrated)
    BY <2>1 DEF ExitOk
  <2> QED
    BY <2>1, <2>2, StepKeeps, NoCommandOk DEF MigratorInv
<1> QED
  BY <1>1, <1>2 DEF scan

LEMMA TranslateKeeps ==
    ASSUME MigratorInv, translate_subcommand
    PROVE  MigratorInv'
<1> DEFINE proposals == [i \in 1 .. Len(st.report) |-> Proposed(st.report[i], st.report)]
<1>1. /\ st.report # NoFile
      /\ st' = Exit([Start(NoCommand) EXCEPT !.proposals = proposals], "translate", 0, <<>>)
  BY DEF translate_subcommand
<1> HIDE DEF proposals
<1>2. /\ Steady /\ st'.report = st.report /\ st'.proposals = proposals /\ st'.shadow = st.shadow
      /\ st'.audit = st.audit /\ st'.cmd = NoCommand /\ st'.exit.name = "translate"
  BY <1>1 DEF MigratorInv, MigratorFields, Exit, Start, Steady
<1>3. Listed(st.report) /\ \A j \in Elements(st.report) : \E m \in st.custom : j = Original(m)
  BY <1>1 DEF MigratorInv, ReportOk
<1>4. \A m : Original(m).sql = m
  BY DEF Original, Definition, metric_to_json
<1>5. Reported(st.report) \subseteq st.custom
  <2> SUFFICES ASSUME NEW i \in 1 .. Len(st.report) PROVE st.report[i].sql \in st.custom
    BY DEF Reported
  <2>1. st.report[i] \in Elements(st.report)
    BY DEF Elements
  <2>2. PICK m \in st.custom : st.report[i] = Original(m)
    BY <1>3, <2>1
  <2>3. st.report[i].sql = m
    BY <1>4, <2>2, Zenon
  <2> QED
    BY <2>3
<1>6. Listed(proposals)
  <2>1. Len(st.report) \in Nat
    BY <1>3 DEF Listed
  <2>2. proposals \in Seq({Proposed(j, st.report) : j \in Elements(st.report)})
    BY <2>1 DEF proposals, Elements
  <2> QED
    BY <2>2, ListedElements
<1>7. ASSUME NEW e \in Elements(proposals), is_shadow_eligible_tier(e.tier) PROVE CandidateOk(e, st.custom)
  <2>1. PICK j \in Elements(st.report) : e = Proposed(j, st.report)
    <3> DEFINE n == Len(st.report)
    <3>1. n \in Nat
      BY <1>3 DEF Listed
    <3>2. \A i \in 1 .. n : st.report[i] \in Elements(st.report)
      BY DEF Elements
    <3>3. proposals = [i \in 1 .. n |-> Proposed(st.report[i], st.report)]
      BY DEF proposals
    <3> HIDE DEF n
    <3>4. Len(proposals) = n
      BY <3>1, <3>3
    <3>5. PICK i \in 1 .. n : e = proposals[i]
      BY <1>7, <3>4 DEF Elements
    <3>6. e = Proposed(st.report[i], st.report)
      BY <3>3, <3>5
    <3> QED
      BY <3>2, <3>5, <3>6
  <2>2. PICK m \in st.custom : j = Original(m)
    BY <1>3
  <2>3. j.sql = m
    BY <1>4, <2>2
  <2>4. CASE ~(OperandsOf[m] \subseteq Reported(st.report))
    <3>1. e.tier = "tier3_untranslatable"
      BY <2>1, <2>3, <2>4 DEF Proposed
    <3> QED
      BY <1>7, <3>1 DEF is_shadow_eligible_tier, ShadowTiers
  <2>5. CASE OperandsOf[m] \subseteq Reported(st.report)
    <3> DEFINE tier == ShapeOf[m]
    <3>1. e = [metric |-> m, tier |-> tier,
               proposal |-> IF is_shadow_eligible_tier(tier)
                            THEN metric_to_json(build_metric(json_to_metric_definition(j), tier)) ELSE NoFile]
      BY <2>1, <2>3, <2>5, Zenon DEF Proposed
    <3> HIDE DEF tier
    <3>2. e.metric = m /\ e.tier = tier
      BY <3>1
    <3>3. is_shadow_eligible_tier(tier)
      BY <1>7, <3>2
    <3>4. e.proposal = metric_to_json(build_metric(json_to_metric_definition(j), tier))
      BY <3>1, <3>3
    <3>5. e.proposal = Replacement(e.metric)
      BY <2>2, <3>2, <3>4, Zenon DEF Replacement, tier
    <3>6. Vouched(e.metric, st.custom)
      BY <1>5, <2>5, <3>2, <3>3 DEF Vouched, tier
    <3> QED
      BY <3>5, <3>6 DEF CandidateOk
  <2> QED
    BY <2>4, <2>5
<1>8. ProposalsOk(proposals, st.custom)
  BY <1>6, <1>7 DEF ProposalsOk
<1>9. ExitOk(st'.exit, st.migrated)
  BY <1>2 DEF ExitOk
<1> QED
  BY <1>2, <1>8, <1>9, StepKeeps, NoCommandOk DEF MigratorInv

\* shadow: the candidates are vouched for.
LEMMA ShadowStarts ==
    ASSUME MigratorInv, shadow_subcommand
    PROVE  MigratorInv'
<1> DEFINE todo == extract_shadow_candidates(st.proposals)
           cmd == [name |-> "shadow", todo |-> todo, outcomes |-> <<>>, run |-> 0, elapsed |-> 0]
<1>1. st.proposals # NoFile /\ st' = Start(cmd)
  BY DEF shadow_subcommand
<1> HIDE DEF cmd
<1>2. /\ Steady /\ st'.report = st.report /\ st'.proposals = st.proposals /\ st'.shadow = st.shadow
      /\ st'.audit = st.audit /\ st'.cmd = cmd /\ st'.exit = st.exit
  BY <1>1 DEF MigratorInv, MigratorFields, Start, Steady
<1>3. Listed(st.proposals)
      /\ \A e \in Elements(st.proposals) : is_shadow_eligible_tier(e.tier) => CandidateOk(e, st.custom)
  BY <1>1 DEF MigratorInv, ProposalsOk
<1>4. Listed(todo) /\ \A e \in Elements(todo) : CandidateOk(e, st.custom)
  BY <1>3, FilteredElements DEF extract_shadow_candidates
<1> HIDE DEF todo
<1>5. ShadowCommandOk(cmd, st.runs, st.custom, st.budget)
  <2>1. cmd.name = "shadow" /\ cmd.todo = todo /\ cmd.outcomes = <<>> /\ cmd.run = 0 /\ cmd.elapsed = 0
        /\ cmd = [name |-> "shadow", todo |-> cmd.todo, outcomes |-> cmd.outcomes, run |-> cmd.run, elapsed |-> cmd.elapsed]
    BY DEF cmd
  <2>2. 0 \in 0 .. st.budget + PollInterval - 1
    BY MigratorAssumption DEF MigratorInv
  <2>3. OutcomesOk(<<>>, st.runs, st.custom, st.budget)
    BY ListedEmpty DEF OutcomesOk
  <2> QED
    BY <1>4, <2>1, <2>2, <2>3 DEF ShadowCommandOk
<1>6. CommandOk(cmd, st.runs, st.custom, st.budget, st.migrated)
  BY <1>5 DEF CommandOk
<1> QED
  BY <1>2, <1>6, StepKeeps DEF MigratorInv

\* The command goes on with the next candidate.
LEMMA ConcludedKeeps ==
    ASSUME MigratorInv, ShadowCommandOk(st.cmd, st.runs, st.custom, st.budget), st.cmd.todo # <<>>,
           NEW R, RunsOk(R), RunsGrow(st.runs, R),
           NEW status, NEW result, NEW took,
           OutcomeOk(Outcome(status, result, took), R, st.custom, st.budget),
           NEW s, DOMAIN s = MigratorFields,
           DOMAIN st' = MigratorFields, \A f \in MigratorFields \ {"cmd", "faults"} : st'[f] = Concluded(s, Outcome(status, result, took))[f],
           st'.cmd = Concluded(s, Outcome(status, result, took)).cmd,
           s.runs = R, \A f \in MigratorFields \ {"runs"} : s[f] = st[f]
    PROVE  MigratorInv'
<1> DEFINE o == Outcome(status, result, took)
           cmd == [name |-> "shadow", todo |-> Tail(st.cmd.todo),
                   outcomes |-> Append(st.cmd.outcomes, o), run |-> 0, elapsed |-> 0]
<1>1. Concluded(s, o) = [s EXCEPT !.cmd = cmd]
  BY DEF Concluded
<1> HIDE DEF cmd
<1>2. st'.cmd = cmd /\ st'.runs = R /\ \A f \in MigratorFields \ {"cmd", "faults", "runs"} : st'[f] = st[f]
  BY <1>1 DEF MigratorFields
<1> HIDE DEF o
<1>3. OutcomesOk(Append(st.cmd.outcomes, o), R, st.custom, st.budget)
  <2>1. OutcomesOk(st.cmd.outcomes, R, st.custom, st.budget)
    BY OutcomesStay DEF ShadowCommandOk
  <2>2. OutcomeOk(o, R, st.custom, st.budget)
    BY DEF o
  <2> QED
    BY <2>1, <2>2, ListedAppend DEF OutcomesOk
<1>4. Listed(Tail(st.cmd.todo)) /\ \A e \in Elements(Tail(st.cmd.todo)) : CandidateOk(e, st.custom)
  BY ListedTail DEF ShadowCommandOk
<1>5. ShadowCommandOk(cmd, R, st.custom, st.budget)
  <2>1. cmd.name = "shadow" /\ cmd.todo = Tail(st.cmd.todo) /\ cmd.outcomes = Append(st.cmd.outcomes, o)
        /\ cmd.run = 0 /\ cmd.elapsed = 0
        /\ cmd = [name |-> "shadow", todo |-> cmd.todo, outcomes |-> cmd.outcomes, run |-> cmd.run, elapsed |-> cmd.elapsed]
    BY DEF cmd
  <2>2. 0 \in 0 .. st.budget + PollInterval - 1
    BY MigratorAssumption DEF MigratorInv
  <2> QED
    BY <1>3, <1>4, <2>1, <2>2 DEF ShadowCommandOk
<1>6. CommandOk(cmd, R, st.custom, st.budget, st.migrated)
  BY <1>5 DEF CommandOk
<1>7. /\ st'.algo = st.algo /\ st'.budget = st.budget /\ st'.custom = st.custom /\ st'.migrated = st.migrated
      /\ st'.report = st.report /\ st'.proposals = st.proposals /\ st'.shadow = st.shadow /\ st'.audit = st.audit
      /\ st'.exit = st.exit
  BY <1>2 DEF MigratorFields
<1> QED
  BY <1>2, <1>6, <1>7, StepGrows

\* The run of the next candidate.
LEMMA RunsAdded ==
    ASSUME NEW R, RunsOk(R), NEW m, NEW c, NEW status \in RunStatuses
    PROVE  LET run == [metric |-> m, candidate |-> c, status |-> status] IN
           /\ RunsOk(Append(R, run)) /\ RunsGrow(R, Append(R, run))
           /\ Len(Append(R, run)) = Len(R) + 1 /\ Len(R) \in Nat /\ Append(R, run)[Len(R) + 1] = run
<1> DEFINE run == [metric |-> m, candidate |-> c, status |-> status]
<1>0. run = [metric |-> run.metric, candidate |-> run.candidate, status |-> run.status] /\ run.status \in RunStatuses
  OBVIOUS
<1> HIDE DEF run
<1>1. Listed(R) /\ Listed(Append(R, run))
  BY ListedAppend DEF RunsOk
<1>2. Len(Append(R, run)) = Len(R) + 1 /\ Len(R) \in Nat /\ Append(R, run)[Len(R) + 1] = run
      /\ \A i \in 1 .. Len(R) : Append(R, run)[i] = R[i]
  BY <1>1 DEF Listed
<1> DEFINE Q == Append(R, run)
<1> HIDE DEF Q
<1>3. RunsGrow(R, Q)
  BY <1>2 DEF RunsGrow, Q
<1>4. ASSUME NEW i \in 1 .. Len(Q)
      PROVE  Q[i] = [metric |-> Q[i].metric, candidate |-> Q[i].candidate, status |-> Q[i].status]
             /\ Q[i].status \in RunStatuses
  <2>1. CASE i = Len(R) + 1
    BY <1>0, <1>2, <2>1 DEF Q
  <2>2. CASE i # Len(R) + 1
    <3>1. i \in 1 .. Len(R) /\ Q[i] = R[i]
      BY <1>2, <2>2 DEF Q
    <3> QED
      BY <3>1 DEF RunsOk
  <2> QED
    BY <2>1, <2>2
<1>5. RunsOk(Q)
  BY <1>1, <1>4 DEF RunsOk, Q
<1> QED
  BY <1>2, <1>3, <1>5 DEF run, Q

\* What a candidate ended with, when nothing was approved.
LEMMA UnapprovedOutcome ==
    ASSUME MigratorInv, ShadowCommandOk(st.cmd, st.runs, st.custom, st.budget), st.cmd.todo # <<>>, NEW R,
           NEW status, status # "APPROVED", NEW result, NEW took \in Nat,
           status = "PENDING" => st.cmd.elapsed + took >= st.budget
    PROVE  OutcomeOk(Outcome(status, result, took), R, st.custom, st.budget)
<1> DEFINE c == Head(st.cmd.todo)
           o == Outcome(status, result, took)
<1>1. CandidateOk(c, st.custom)
  BY ListedTail DEF ShadowCommandOk
<1>2. o.metric = c.metric /\ o.candidate = c.proposal /\ o.status = status /\ o.elapsed = st.cmd.elapsed + took
      /\ o.asked = st.cmd.elapsed
  BY DEF Outcome
<1> HIDE DEF c, o
<1>4. st.cmd.elapsed < st.budget + PollInterval
  BY MigratorAssumption DEF ShadowCommandOk, MigratorInv
<1>3. OutcomeOk(o, R, st.custom, st.budget)
  BY <1>1, <1>2, <1>4 DEF OutcomeOk, CandidateOk
<1> QED
  BY <1>3 DEF o

LEMMA ShadowFields ==
    ASSUME CommandOk(st.cmd, st.runs, st.custom, st.budget, st.migrated), Shadowing
    PROVE  ShadowCommandOk(st.cmd, st.runs, st.custom, st.budget)
<1>1. st.cmd # NoCommand
  BY DEF Shadowing, NoCommand
<1>2. ~ApplyCommandOk(st.cmd, st.runs, st.custom, st.migrated)
  BY DEF Shadowing, ApplyCommandOk
<1> QED
  BY <1>1, <1>2 DEF CommandOk

LEMMA ScheduleKeeps ==
    ASSUME MigratorInv, Schedule
    PROVE  MigratorInv'
<1> DEFINE c    == Head(st.cmd.todo)
           run  == [metric |-> c.metric, candidate |-> json_to_metric_definition(c.proposal), status |-> "PENDING"]
           runs == Append(st.runs, run)
<1>1. Shadowing /\ st.cmd.todo # <<>> /\ st.cmd.run = 0
  BY DEF Schedule
<1>2. ShadowCommandOk(st.cmd, st.runs, st.custom, st.budget)
  BY <1>1, ShadowFields DEF MigratorInv
<1>3. /\ RunsOk(runs) /\ RunsGrow(st.runs, runs)
      /\ Len(runs) = Len(st.runs) + 1 /\ Len(st.runs) \in Nat /\ runs[Len(st.runs) + 1] = run
  <2>1. "PENDING" \in RunStatuses /\ RunsOk(st.runs)
    BY DEF MigratorInv, RunStatuses
  <2> QED
    BY <2>1, RunsAdded
<1>4. CandidateOk(c, st.custom)
  BY <1>1, <1>2, ListedTail DEF ShadowCommandOk
<1>5. RunsOk(st.runs) /\ RunsGrow(st.runs, st.runs) /\ DOMAIN st = MigratorFields
  BY SameRuns DEF MigratorInv
<1>6. run.metric = c.metric /\ run.candidate = Compared(c.metric)
  BY <1>4 DEF CandidateOk, Compared
<1> HIDE DEF run
<1>7. CASE st' = [st EXCEPT !.runs = runs, !.cmd.run = Len(runs)]
  <2> DEFINE cmd == [st.cmd EXCEPT !.run = Len(runs)]
  <2> HIDE DEF runs, c
  <2>1. /\ DOMAIN st' = MigratorFields /\ st'.algo = st.algo /\ st'.budget = st.budget
        /\ st'.custom = st.custom /\ st'.migrated = st.migrated /\ st'.runs = runs
        /\ st'.report = st.report /\ st'.proposals = st.proposals /\ st'.shadow = st.shadow /\ st'.audit = st.audit
        /\ st'.exit = st.exit /\ st'.cmd = cmd
    BY <1>5, <1>7 DEF MigratorFields
  <2>2. cmd = [name |-> "shadow", todo |-> st.cmd.todo, outcomes |-> st.cmd.outcomes,
               run |-> Len(runs), elapsed |-> st.cmd.elapsed]
    BY <1>2 DEF ShadowCommandOk
  <2>3. /\ cmd.todo = st.cmd.todo /\ cmd.outcomes = st.cmd.outcomes /\ cmd.run = Len(runs) /\ cmd.elapsed = st.cmd.elapsed
    BY <2>2
  <2> HIDE DEF cmd
  <2>4. RunFor(runs, Len(runs), c.metric)
    BY <1>3, <1>6 DEF RunFor
  <2>5. OutcomesOk(st.cmd.outcomes, runs, st.custom, st.budget)
    BY <1>2, <1>3, OutcomesStay DEF ShadowCommandOk
  <2>6. ShadowCommandOk(cmd, runs, st.custom, st.budget)
    BY <1>1, <1>2, <2>2, <2>3, <2>4, <2>5 DEF ShadowCommandOk, c
  <2>7. CommandOk(cmd, runs, st.custom, st.budget, st.migrated)
    BY <2>6 DEF CommandOk
  <2> QED
    BY <1>3, <2>1, <2>7, StepGrows
<1>8. CASE st' = Fault(Concluded(st, Outcome("SCHEDULING_FAILED", 0, 0)))
  <2> DEFINE o == Outcome("SCHEDULING_FAILED", 0, 0)
  <2>1. OutcomeOk(o, st.runs, st.custom, st.budget)
    BY <1>1, <1>2, UnapprovedOutcome
  <2> DEFINE next == Concluded(st, o)
  <2>2. DOMAIN next = MigratorFields
    BY <1>5 DEF Concluded
  <2> HIDE DEF next
  <2>3. DOMAIN st' = MigratorFields /\ st'.cmd = next.cmd /\ \A f \in MigratorFields \ {"cmd", "faults"} : st'[f] = next[f]
    BY <1>8, <2>2 DEF Fault, next, MigratorFields
  <2> QED
    BY <1>1, <1>2, <1>5, <2>1, <2>3, ConcludedKeeps DEF next
<1>9. CASE st' = Fault(Concluded([st EXCEPT !.runs = runs], Outcome("SCHEDULING_FAILED", 0, 0)))
  <2> HIDE DEF runs
  <2> DEFINE o == Outcome("SCHEDULING_FAILED", 0, 0)
             s == [st EXCEPT !.runs = runs]
  <2>1. OutcomeOk(o, runs, st.custom, st.budget)
    BY <1>1, <1>2, UnapprovedOutcome
  <2>2. DOMAIN s = MigratorFields /\ s.runs = runs /\ \A f \in MigratorFields \ {"runs"} : s[f] = st[f]
    BY <1>5 DEF MigratorFields
  <2> HIDE DEF s
  <2> DEFINE next == Concluded(s, o)
  <2>3. DOMAIN next = MigratorFields
    BY <2>2 DEF Concluded
  <2> HIDE DEF next
  <2>4. st' = Fault(next)
    BY <1>9 DEF next, s
  <2>5. DOMAIN st' = MigratorFields /\ st'.cmd = next.cmd /\ \A f \in MigratorFields \ {"cmd", "faults"} : st'[f] = next[f]
    BY <2>3, <2>4 DEF Fault, MigratorFields
  <2> QED
    BY <1>1, <1>2, <1>3, <2>1, <2>2, <2>5, ConcludedKeeps DEF next
<1> QED
  BY <1>7, <1>8, <1>9 DEF Schedule, run

\* M3 decides a run: nothing that was approved changes.
LEMMA RunDecided ==
    ASSUME NEW R, RunsOk(R), NEW k \in 1 .. Len(R), NEW status \in ShadowOutcomes(R[k].status)
    PROVE  LET Q == [R EXCEPT ![k].status = status] IN
           /\ status \in RunStatuses
           /\ RunsOk(Q) /\ RunsGrow(R, Q)
           /\ \A m : status = "APPROVED" /\ RunFor(R, k, m) => ApprovedFor(Q, k, m)
<1> DEFINE Q == [R EXCEPT ![k].status = status]
           T == Elements(R)
           x == [R[k] EXCEPT !.status = status]
<1>0. status \in RunStatuses
  <2>1. R[k].status \in RunStatuses
    BY DEF RunsOk
  <2>2. CASE R[k].status = "PENDING"
    BY <2>2 DEF ShadowOutcomes, RunStatuses
  <2>3. CASE R[k].status # "PENDING"
    <3>1. status \in {R[k].status}
      BY <2>3, Zenon DEF ShadowOutcomes
    <3> QED
      BY <2>1, <3>1
  <2> QED
    BY <2>2, <2>3
<1>1. R \in Seq(T) /\ \A i \in 1 .. Len(R) :
        /\ R[i] = [metric |-> R[i].metric, candidate |-> R[i].candidate, status |-> R[i].status]
        /\ R[i].status \in RunStatuses
  BY DEF RunsOk, Listed
<1>2. x = [metric |-> R[k].metric, candidate |-> R[k].candidate, status |-> status]
  <2>1. PICK a, b, c : a = R[k].metric /\ b = R[k].candidate /\ c = R[k].status
    OBVIOUS
  <2>2. R[k] = [metric |-> a, candidate |-> b, status |-> c]
    BY <1>1, <2>1, Zenon
  <2>3. [R[k] EXCEPT !.status = status] = [metric |-> a, candidate |-> b, status |-> status]
    BY <2>2
  <2> QED
    BY <2>1, <2>3, Zenon
<1>3. x.metric = R[k].metric /\ x.candidate = R[k].candidate /\ x.status = status
  BY <1>2
<1>4. R[k].status = "APPROVED" => x = R[k]
  <2> SUFFICES ASSUME R[k].status = "APPROVED" PROVE x = R[k]
    OBVIOUS
  <2>1. status = R[k].status
    BY DEF ShadowOutcomes
  <2> QED
    BY <1>1, <1>2, <2>1
<1>5. Q = [R EXCEPT ![k] = x]
  OBVIOUS
<1> HIDE DEF x, Q, T
<1>6. Len(Q) = Len(R) /\ Len(R) \in Nat /\ Q[k] = x /\ \A i \in 1 .. Len(R) : i # k => Q[i] = R[i]
  BY <1>1, <1>5
<1>7. Listed(Q)
  <2>1. Q \in Seq(T \cup {x})
    BY <1>1, <1>5
  <2> QED
    BY <2>1, ListedElements
<1>8. RunsOk(Q)
  <2>1. ASSUME NEW i \in 1 .. Len(Q)
        PROVE  Q[i] = [metric |-> Q[i].metric, candidate |-> Q[i].candidate, status |-> Q[i].status]
               /\ Q[i].status \in RunStatuses
    <3>1. CASE i = k
      BY <1>0, <1>2, <1>3, <1>6, <3>1
    <3>2. CASE i # k
      BY <1>1, <1>6, <3>2
    <3> QED
      BY <3>1, <3>2
  <2> QED
    BY <1>7, <2>1 DEF RunsOk
<1>9. RunsGrow(R, Q)
  BY <1>3, <1>4, <1>6 DEF RunsGrow
<1>10. ASSUME NEW m, status = "APPROVED", RunFor(R, k, m) PROVE ApprovedFor(Q, k, m)
  BY <1>2, <1>6, <1>10 DEF RunFor, ApprovedFor
<1> QED
  BY <1>0, <1>8, <1>9, <1>10 DEF Q

LEMMA ApprovedOutcome ==
    ASSUME MigratorInv, ShadowCommandOk(st.cmd, st.runs, st.custom, st.budget), st.cmd.todo # <<>>, NEW R, NEW k, NEW took \in Nat,
           ApprovedFor(R, k, Head(st.cmd.todo).metric)
    PROVE  OutcomeOk(Outcome("APPROVED", k, took), R, st.custom, st.budget)
<1> DEFINE c == Head(st.cmd.todo)
           o == Outcome("APPROVED", k, took)
<1>1. CandidateOk(c, st.custom)
  BY ListedTail DEF ShadowCommandOk
<1>2. o.metric = c.metric /\ o.candidate = c.proposal /\ o.status = "APPROVED" /\ o.result = k
      /\ o.asked = st.cmd.elapsed
  BY DEF Outcome
<1>3. ApprovedFor(R, k, c.metric)
  OBVIOUS
<1>5. st.cmd.elapsed < st.budget + PollInterval
  BY MigratorAssumption DEF ShadowCommandOk, MigratorInv
<1> HIDE DEF c, o
<1>4. OutcomeOk(o, R, st.custom, st.budget)
  BY <1>1, <1>2, <1>3, <1>5 DEF OutcomeOk, CandidateOk
<1> QED
  BY <1>4 DEF o

\* After a poll of the run, which is decided in s, the candidate is done or
\* is polled again.
LEMMA PolledKeeps ==
    ASSUME MigratorInv, Shadowing, st.cmd.run # 0,
           NEW R, RunsOk(R), RunsGrow(st.runs, R), NEW status \in RunStatuses,
           status = "APPROVED" => ApprovedFor(R, st.cmd.run, Head(st.cmd.todo).metric),
           NEW took \in Nat, NEW s, DOMAIN s = MigratorFields, s.runs = R, \A f \in MigratorFields \ {"runs"} : s[f] = st[f],
           DOMAIN st' = MigratorFields, \A f \in MigratorFields \ {"faults"} : st'[f] = AfterPoll(s, status, took)[f]
    PROVE  MigratorInv'
<1> DEFINE cmd == st.cmd
<1>1. ShadowCommandOk(cmd, st.runs, st.custom, st.budget)
  BY ShadowFields DEF MigratorInv
<1>2. cmd.todo # <<>> /\ cmd.elapsed \in 0 .. st.budget + PollInterval - 1
  BY <1>1 DEF ShadowCommandOk
<1>3. st.budget \in Nat /\ PollInterval \in Nat \ {0}
  BY MigratorAssumption DEF MigratorInv
<1>4. ASSUME NEW result, status = "APPROVED" => result = cmd.run, status = "PENDING" => Spent(cmd.elapsed + took),
             AfterPoll(s, status, took) = Concluded(s, Outcome(status, result, took))
      PROVE  MigratorInv'
  <2>1. OutcomeOk(Outcome(status, result, took), R, st.custom, st.budget)
    <3>1. CASE status = "APPROVED"
      BY <1>1, <1>2, <1>4, <3>1, ApprovedOutcome
    <3>2. CASE status # "APPROVED"
      <4>1. status = "PENDING" => cmd.elapsed + took >= st.budget
        BY <1>2, <1>3, <1>4 DEF Spent
      <4> QED
        BY <1>1, <1>2, <3>2, <4>1, UnapprovedOutcome
    <3> QED
      BY <3>1, <3>2
  <2> DEFINE next == Concluded(s, Outcome(status, result, took))
  <2> HIDE DEF next
  <2>2. \A f \in MigratorFields \ {"cmd", "faults"} : st'[f] = next[f]
    BY <1>4 DEF next
  <2>3. st'.cmd = next.cmd
    BY <1>4 DEF next, MigratorFields
  <2> QED
    BY <1>1, <1>2, <2>1, <2>2, <2>3, ConcludedKeeps DEF next
<1>5. CASE status = "APPROVED"
  BY <1>4, <1>5 DEF AfterPoll
<1>6. CASE status \in {"REJECTED", "FAILED"}
  BY <1>4, <1>6 DEF AfterPoll
<1>7. CASE status = "PENDING" /\ Spent(cmd.elapsed + took)
  BY <1>4, <1>7 DEF AfterPoll
<1>8. CASE status = "PENDING" /\ ~Spent(cmd.elapsed + took)
  <2>1. AfterPoll(s, status, took) = [s EXCEPT !.cmd.elapsed = @ + took + PollInterval]
    BY <1>8 DEF AfterPoll
  <2> DEFINE next == [cmd EXCEPT !.elapsed = @ + took + PollInterval]
  <2>2. [s EXCEPT !.cmd.elapsed = @ + took + PollInterval] = [s EXCEPT !.cmd = [s.cmd EXCEPT !.elapsed = @ + took + PollInterval]]
    BY DEF MigratorFields
  <2>3. s.cmd = cmd
    BY DEF MigratorFields
  <2>4. AfterPoll(s, status, took) = [s EXCEPT !.cmd = next]
    BY <2>1, <2>2, <2>3
  <2> HIDE DEF next
  <2>5. /\ st'.algo = st.algo /\ st'.budget = st.budget /\ st'.custom = st.custom /\ st'.migrated = st.migrated
        /\ st'.runs = R /\ st'.report = st.report /\ st'.proposals = st.proposals /\ st'.shadow = st.shadow
        /\ st'.audit = st.audit /\ st'.exit = st.exit /\ st'.cmd = next
    BY <2>4 DEF MigratorFields
  <2>6. next = [name |-> "shadow", todo |-> cmd.todo, outcomes |-> cmd.outcomes, run |-> cmd.run,
                elapsed |-> cmd.elapsed + took + PollInterval]
    BY <1>1 DEF next, ShadowCommandOk
  <2>7. /\ next.todo = cmd.todo /\ next.outcomes = cmd.outcomes /\ next.run = cmd.run
        /\ next.elapsed = cmd.elapsed + took + PollInterval
        /\ next = [name |-> "shadow", todo |-> next.todo, outcomes |-> next.outcomes, run |-> next.run, elapsed |-> next.elapsed]
    BY <2>6
  <2>8. next.elapsed \in 0 .. st.budget + PollInterval - 1
    BY <1>2, <1>3, <1>8, <2>7 DEF Spent
  <2>9. ShadowCommandOk(cmd, R, st.custom, st.budget)
    <3>1. CommandOk(cmd, R, st.custom, st.budget, st.migrated)
      BY CommandStays DEF MigratorInv
    <3>2. cmd.name # "none" /\ cmd.name # "apply"
      BY DEF Shadowing
    <3> QED
      BY <3>1, <3>2 DEF CommandOk, NoCommand, ApplyCommandOk
  <2>10. ShadowCommandOk(next, R, st.custom, st.budget)
    BY <2>7, <2>8, <2>9 DEF ShadowCommandOk
  <2>11. CommandOk(next, R, st.custom, st.budget, st.migrated)
    BY <2>10 DEF CommandOk
  <2> QED
    BY <2>5, <2>11, StepGrows
<1> QED
  BY <1>5, <1>6, <1>7, <1>8 DEF RunStatuses

LEMMA PollKeeps ==
    ASSUME MigratorInv, poll_until_terminal
    PROVE  MigratorInv'
<1>1. Shadowing /\ st.cmd.run # 0
  BY DEF poll_until_terminal
<1>2. ShadowCommandOk(st.cmd, st.runs, st.custom, st.budget)
  BY <1>1, ShadowFields DEF MigratorInv
<1> DEFINE k == st.cmd.run
           m == Head(st.cmd.todo).metric
<1>3. RunFor(st.runs, k, m)
  BY <1>1, <1>2 DEF ShadowCommandOk
<1>4. k \in 1 .. Len(st.runs) /\ RunsOk(st.runs)
  BY <1>3 DEF RunFor, MigratorInv
<1>5. PICK status \in ShadowOutcomes(st.runs[k].status), took \in CallTimes :
        LET decided == [st EXCEPT !.runs[k].status = status] IN
        \/ st' = AfterPoll(decided, status, took)
        \/ st' = Fault(AfterPoll(decided, "PENDING", took))
  BY DEF poll_until_terminal
<1>11. took \in Nat
  BY <1>5, MigratorAssumption
<1> DEFINE decided == [st EXCEPT !.runs[k].status = status]
           R == [st.runs EXCEPT ![k].status = status]
<1>6. status \in RunStatuses /\ RunsOk(R) /\ RunsGrow(st.runs, R) /\ (status = "APPROVED" => ApprovedFor(R, k, m))
  BY <1>3, <1>4, RunDecided
<1>7. DOMAIN decided = MigratorFields /\ decided.runs = R /\ \A f \in MigratorFields \ {"runs"} : decided[f] = st[f]
  BY DEF MigratorInv, MigratorFields
<1> HIDE DEF R, decided
<1>8. \A other : DOMAIN AfterPoll(decided, other, took) = MigratorFields
  BY <1>7 DEF AfterPoll, Concluded
<1>9. CASE st' = AfterPoll(decided, status, took)
  BY <1>1, <1>6, <1>7, <1>8, <1>9, <1>11, PolledKeeps
<1>10. CASE st' = Fault(AfterPoll(decided, "PENDING", took))
  <2> DEFINE next == AfterPoll(decided, "PENDING", took)
  <2>1. DOMAIN next = MigratorFields
    BY <1>8
  <2> HIDE DEF next
  <2>2. DOMAIN st' = MigratorFields /\ \A f \in MigratorFields \ {"faults"} : st'[f] = next[f]
    BY <1>10, <2>1 DEF Fault, next
  <2>3. "PENDING" \in RunStatuses /\ "PENDING" # "APPROVED"
    BY DEF RunStatuses
  <2> QED
    BY <1>1, <1>6, <1>7, <1>11, <2>2, <2>3, PolledKeeps DEF next
<1> QED
  BY <1>5, <1>9, <1>10 DEF decided

LEMMA WriteShadowKeeps ==
    ASSUME MigratorInv, WriteShadow
    PROVE  MigratorInv'
<1> DEFINE code == IF Approvals(st.cmd.outcomes) = {} THEN 1 ELSE 0
<1>1. Shadowing /\ st' = Exit([st EXCEPT !.shadow = st.cmd.outcomes], "shadow", code, <<>>)
  BY DEF WriteShadow
<1> HIDE DEF code
<1>2. /\ Steady /\ st'.report = st.report /\ st'.proposals = st.proposals /\ st'.shadow = st.cmd.outcomes
      /\ st'.audit = st.audit /\ st'.cmd = NoCommand /\ st'.exit.name = "shadow"
  BY <1>1 DEF MigratorInv, MigratorFields, Exit, Steady
<1>3. OutcomesOk(st.cmd.outcomes, st.runs, st.custom, st.budget)
  BY <1>1, ShadowFields DEF MigratorInv, ShadowCommandOk
<1>4. ExitOk(st'.exit, st.migrated)
  BY <1>2 DEF ExitOk
<1> QED
  BY <1>2, <1>3, <1>4, StepKeeps, NoCommandOk DEF MigratorInv

\* apply: what is applied was approved.
LEMMA ApplyStarts ==
    ASSUME MigratorInv, NEW mode, NEW operator, apply_subcommand(mode, operator)
    PROVE  MigratorInv'
<1> DEFINE approved == partition_outcomes(st.shadow)
           cmd == [name |-> "apply", todo |-> approved, outcomes |-> <<>>]
<1>1. ASSUME NEW code, st' = Exit(Start(NoCommand), "apply", code, <<>>) PROVE MigratorInv'
  <2>1. /\ Steady /\ st'.report = st.report /\ st'.proposals = st.proposals /\ st'.shadow = st.shadow
        /\ st'.audit = st.audit /\ st'.cmd = NoCommand /\ st'.exit.about = <<>>
    BY <1>1 DEF MigratorInv, MigratorFields, Exit, Start, Steady
  <2>2. ExitOk(st'.exit, st.migrated)
    BY <2>1, ListedEmpty DEF ExitOk
  <2> QED
    BY <2>1, <2>2, StepKeeps, NoCommandOk DEF MigratorInv
<1>2. CASE st' = Start(cmd)
  <2> HIDE DEF cmd
  <2>1. /\ Steady /\ st'.report = st.report /\ st'.proposals = st.proposals /\ st'.shadow = st.shadow
        /\ st'.audit = st.audit /\ st'.cmd = cmd /\ st'.exit = st.exit
    BY <1>2 DEF MigratorInv, MigratorFields, Start, Steady
  <2>2. OutcomesOk(st.shadow, st.runs, st.custom, st.budget)
    BY DEF apply_subcommand, MigratorInv
  <2>3. Listed(approved)
        /\ Elements(approved) \subseteq {o \in Elements(st.shadow) : o.status = "APPROVED" /\ o.result # 0}
    BY <2>2, FilteredElements DEF partition_outcomes, OutcomesOk
  <2> HIDE DEF approved
  <2>4. \A o \in Elements(approved) : ToApplyOk(o, st.runs, st.custom)
    BY <2>2, <2>3 DEF OutcomesOk, OutcomeOk, ToApplyOk
  <2>5. cmd.todo = approved /\ cmd.outcomes = <<>> /\ cmd = [name |-> "apply", todo |-> cmd.todo, outcomes |-> cmd.outcomes]
    BY DEF cmd
  <2>6. ResultsOk(<<>>, st.migrated)
    BY ListedEmpty DEF ResultsOk
  <2>7. ApplyCommandOk(cmd, st.runs, st.custom, st.migrated)
    BY <2>3, <2>4, <2>5, <2>6 DEF ApplyCommandOk
  <2>8. CommandOk(cmd, st.runs, st.custom, st.budget, st.migrated)
    BY <2>7 DEF CommandOk
  <2> QED
    BY <2>1, <2>8, StepKeeps DEF MigratorInv
<1> QED
  BY <1>1, <1>2 DEF apply_subcommand

LEMMA ApplyFields ==
    ASSUME CommandOk(st.cmd, st.runs, st.custom, st.budget, st.migrated), st.cmd.name = "apply"
    PROVE  ApplyCommandOk(st.cmd, st.runs, st.custom, st.migrated)
<1>1. st.cmd # NoCommand
  BY DEF NoCommand
<1>2. ~ShadowCommandOk(st.cmd, st.runs, st.custom, st.budget)
  BY DEF ShadowCommandOk
<1> QED
  BY <1>1, <1>2 DEF CommandOk

\* M5 has migrated what it accepted, whatever answer the tool gets.
AnsweredFor(M, o, status) ==
    /\ st.migrated \subseteq M /\ M \subseteq st.migrated \cup {Migration(o)}
    /\ status = "OK" => Migration(o) \in M

LEMMA AppliedKeeps ==
    ASSUME MigratorInv, st.cmd.name = "apply", st.cmd.todo # <<>>,
           NEW M, NEW status, AnsweredFor(M, Head(st.cmd.todo), status),
           NEW s, DOMAIN s = MigratorFields, s.migrated = M, \A f \in MigratorFields \ {"migrated"} : s[f] = st[f],
           DOMAIN st' = MigratorFields,
           \A f \in MigratorFields \ {"faults"} : st'[f] = Applied(s, Head(st.cmd.todo), status)[f]
    PROVE  MigratorInv'
<1> DEFINE o == Head(st.cmd.todo)
           a == [of |-> o, status |-> status]
           cmd == [st.cmd EXCEPT !.todo = Tail(@), !.outcomes = Append(@, a)]
<1>0. /\ st.migrated \subseteq M /\ M \subseteq st.migrated \cup {Migration(o)}
      /\ status = "OK" => Migration(o) \in M
  BY DEF AnsweredFor
<1>1. ApplyCommandOk(st.cmd, st.runs, st.custom, st.migrated)
  BY ApplyFields DEF MigratorInv
<1>2. ToApplyOk(o, st.runs, st.custom)
      /\ Listed(Tail(st.cmd.todo)) /\ \A x \in Elements(Tail(st.cmd.todo)) : ToApplyOk(x, st.runs, st.custom)
  BY <1>1, ListedTail DEF ApplyCommandOk
<1>3. Migration(o).old = o.metric /\ Migration(o).new = json_to_metric_definition(o.candidate) /\ Migration(o).run = o.result
  BY DEF Migration
<1>4. a.of = o /\ a.status = status
  OBVIOUS
<1>5. cmd = [name |-> "apply", todo |-> Tail(st.cmd.todo), outcomes |-> Append(st.cmd.outcomes, a)]
  <2>1. PICK t, q, u, v : t = st.cmd.todo /\ q = st.cmd.outcomes /\ u = Tail(t) /\ v = Append(q, a)
    OBVIOUS
  <2>2. st.cmd = [name |-> "apply", todo |-> t, outcomes |-> q]
    BY <1>1, <2>1, Zenon DEF ApplyCommandOk
  <2>3. cmd = [st.cmd EXCEPT !.todo = u, !.outcomes = v]
    BY <2>1, <2>2
  <2>4. [st.cmd EXCEPT !.todo = u, !.outcomes = v] = [name |-> "apply", todo |-> u, outcomes |-> v]
    <3>1. [st.cmd EXCEPT !.todo = u, !.outcomes = v] = [[st.cmd EXCEPT !.todo = u] EXCEPT !.outcomes = v]
      OBVIOUS
    <3>2. PICK r : r = [st.cmd EXCEPT !.todo = u]
      OBVIOUS
    <3>3. r = [name |-> "apply", todo |-> u, outcomes |-> q]
      BY <2>2, <3>2
    <3>4. [r EXCEPT !.outcomes = v] = [name |-> "apply", todo |-> u, outcomes |-> v]
      BY <3>3
    <3> QED
      BY <3>1, <3>2, <3>4
  <2> QED
    BY <2>1, <2>3, <2>4, Zenon
<1>6. Applied(s, o, status) = [s EXCEPT !.cmd = cmd]
  BY DEF Applied, MigratorFields
<1> HIDE DEF cmd, a
<1>7. /\ st'.algo = st.algo /\ st'.budget = st.budget /\ st'.custom = st.custom /\ st'.migrated = M
      /\ st'.runs = st.runs /\ st'.report = st.report /\ st'.proposals = st.proposals /\ st'.shadow = st.shadow
      /\ st'.audit = st.audit /\ st'.exit = st.exit /\ st'.cmd = cmd
  BY <1>6 DEF MigratorFields
<1>8. MigrationOk(Migration(o), st.runs, st.custom)
  BY <1>2, <1>3, Zenon DEF ToApplyOk, MigrationOk, Compared
<1>9. ResultsOk(Append(st.cmd.outcomes, a), M)
  <2>1. ResultsOk(st.cmd.outcomes, M)
    BY <1>0, <1>1 DEF ApplyCommandOk, ResultsOk
  <2> QED
    BY <1>0, <1>4, <2>1, ListedAppend DEF ResultsOk
<1>10. cmd.todo = Tail(st.cmd.todo) /\ cmd.outcomes = Append(st.cmd.outcomes, a)
       /\ cmd = [name |-> "apply", todo |-> cmd.todo, outcomes |-> cmd.outcomes]
  BY <1>5
<1>11. ApplyCommandOk(cmd, st.runs, st.custom, M)
  BY <1>2, <1>9, <1>10 DEF ApplyCommandOk
<1>12. CommandOk(cmd, st.runs, st.custom, st.budget, M)
  BY <1>11 DEF CommandOk
<1>13. RunsOk(st.runs) /\ RunsGrow(st.runs, st.runs)
  BY SameRuns DEF MigratorInv
<1> HIDE DEF o
<1>14. \A x \in M \ st.migrated : MigrationOk(x, st.runs, st.custom)
  BY <1>0, <1>8
<1> QED
  BY <1>0, <1>7, <1>12, <1>13, <1>14, StepGrows

LEMMA ApplyOneKeeps ==
    ASSUME MigratorInv, apply_one
    PROVE  MigratorInv'
<1> DEFINE o == Head(st.cmd.todo)
           M == IF Accepted(o) THEN st.migrated \cup {Migration(o)} ELSE st.migrated
           done == [st EXCEPT !.migrated = M]
<1>1. st.cmd.name = "apply" /\ st.cmd.todo # <<>> /\ DOMAIN st = MigratorFields
  BY DEF apply_one, MigratorInv
<1>2. st.migrated \subseteq M /\ M \subseteq st.migrated \cup {Migration(o)} /\ (Accepted(o) => Migration(o) \in M)
  OBVIOUS
<1>3. \/ st' = Applied(done, o, IF Accepted(o) THEN "OK" ELSE "REFUSED")
      \/ \E s \in {st, done} : st' = Fault(Applied(s, o, "UNAVAILABLE"))
  BY DEF apply_one
<1> HIDE DEF M, o
<1>4. DOMAIN done = MigratorFields /\ done.migrated = M /\ \A f \in MigratorFields \ {"migrated"} : done[f] = st[f]
  BY <1>1 DEF MigratorFields
<1> HIDE DEF done
<1>5. \A s, status : DOMAIN s = MigratorFields => DOMAIN Applied(s, o, status) = MigratorFields
  BY DEF Applied
<1>6. CASE st' = Applied(done, o, IF Accepted(o) THEN "OK" ELSE "REFUSED")
  <2> DEFINE status == IF Accepted(o) THEN "OK" ELSE "REFUSED"
  <2>1. AnsweredFor(M, o, status)
    BY <1>2 DEF AnsweredFor
  <2> HIDE DEF status
  <2>2. st' = Applied(done, o, status)
    BY <1>6 DEF status
  <2>3. DOMAIN st' = MigratorFields
    BY <1>4, <1>5, <2>2
  <2> QED
    BY <1>1, <1>2, <1>4, <2>1, <2>2, <2>3, AppliedKeeps DEF o
<1>7. ASSUME NEW s \in {st, done}, NEW status, status # "OK", st' = Fault(Applied(s, o, status)) PROVE MigratorInv'
  <2> DEFINE next == Applied(s, o, status)
  <2>1. DOMAIN s = MigratorFields
    BY <1>1, <1>4
  <2>2. DOMAIN next = MigratorFields
    BY <1>5, <2>1
  <2> HIDE DEF next
  <2>3. DOMAIN st' = MigratorFields /\ \A f \in MigratorFields \ {"faults"} : st'[f] = next[f]
    BY <1>7, <2>2 DEF Fault, next
  <2>4. DOMAIN st' = MigratorFields
        /\ \A f \in MigratorFields \ {"faults"} : st'[f] = Applied(s, Head(st.cmd.todo), status)[f]
    BY <2>3 DEF next, o
  <2>5. PICK N : N = s.migrated
    OBVIOUS
  <2>6. /\ st.migrated \subseteq N /\ N \subseteq st.migrated \cup {Migration(Head(st.cmd.todo))}
        /\ \A f \in MigratorFields \ {"migrated"} : s[f] = st[f]
    <3>1. CASE s = st
      BY <2>5, <3>1
    <3>2. CASE s = done
      BY <1>2, <1>4, <2>5, <3>2 DEF o
    <3> QED
      BY <3>1, <3>2
  <2>7. AnsweredFor(N, Head(st.cmd.todo), status)
    BY <1>7, <2>6 DEF AnsweredFor
  <2>8. MigratorInv /\ N = s.migrated /\ s.migrated = N
    BY <2>5
  <2> QED
    BY <1>1, <2>1, <2>4, <2>6, <2>7, <2>8, AppliedKeeps
<1>8. "UNAVAILABLE" # "OK"
  OBVIOUS
<1> QED
  BY <1>3, <1>6, <1>7, <1>8, Zenon

LEMMA WriteAuditKeeps ==
    ASSUME MigratorInv, WriteAudit
    PROVE  MigratorInv'
<1> DEFINE outcomes == st.cmd.outcomes
<1>1. st.cmd.name = "apply" /\ st' = Exit([st EXCEPT !.audit = outcomes], "apply", ExitOf(outcomes), outcomes)
  BY DEF WriteAudit
<1>2. ResultsOk(outcomes, st.migrated)
  BY <1>1, ApplyFields DEF MigratorInv, ApplyCommandOk
<1> HIDE DEF outcomes
<1>3. /\ Steady /\ st'.report = st.report /\ st'.proposals = st.proposals /\ st'.shadow = st.shadow
      /\ st'.audit = outcomes /\ st'.cmd = NoCommand /\ st'.exit.about = outcomes /\ st'.exit.code = ExitOf(outcomes)
  BY <1>1 DEF MigratorInv, MigratorFields, Exit, Steady
<1>4. ExitOk(st'.exit, st.migrated)
  <2>1. ExitOf(outcomes) = 0 => \A a \in Elements(outcomes) : a.status = "OK"
    BY DEF ExitOf, Succeeded
  <2> QED
    BY <1>2, <1>3, <2>1 DEF ExitOk, ResultsOk
<1> QED
  BY <1>2, <1>3, <1>4, StepKeeps, NoCommandOk DEF MigratorInv

LEMMA KillKeeps ==
    ASSUME MigratorInv, Kill
    PROVE  MigratorInv'
<1>1. /\ Steady /\ st'.report = st.report /\ st'.proposals = st.proposals /\ st'.shadow = st.shadow
      /\ st'.audit = st.audit /\ st'.cmd = NoCommand /\ st'.exit = st.exit
  BY DEF Kill, Fault, MigratorInv, MigratorFields, Steady
<1> QED
  BY <1>1, StepKeeps, NoCommandOk DEF MigratorInv

LEMMA CreationKeeps ==
    ASSUME MigratorInv, NEW m, CreateCustom(m)
    PROVE  MigratorInv'
<1>1. /\ DOMAIN st' = MigratorFields /\ st'.algo = st.algo /\ st'.budget = st.budget
      /\ st'.custom = st.custom \cup {m} /\ st'.migrated = st.migrated
      /\ st'.runs = st.runs /\ st'.report = st.report /\ st'.proposals = st.proposals /\ st'.shadow = st.shadow
      /\ st'.audit = st.audit /\ st'.exit = st.exit /\ st'.cmd = st.cmd
  BY DEF CreateCustom, MigratorInv, MigratorFields
<1>2. RunsOk(st.runs) /\ RunsGrow(st.runs, st.runs)
  BY SameRuns DEF MigratorInv
<1>3. CommandOk(st.cmd, st.runs, st.custom \cup {m}, st.budget, st.migrated)
  BY <1>2, CommandStays DEF MigratorInv
<1> QED
  BY <1>1, <1>2, <1>3, StepGrows

-----------------------------------------------------------------------------
\* What the invariant says of the replacements, the reports and the files.
\* A definition by its fields, and what build_metric makes of it.
Blank == ""
EventOf(tier, event) == IF tier = "tier1_filtered_mean" THEN event ELSE Blank
Metric(id, type, event, config, sql, lower) ==
    [id |-> id, type |-> type, event |-> event, config |-> config, sql |-> sql, lower |-> lower]

LEMMA JsonKeeps ==
    ASSUME NEW id, NEW type, NEW event, NEW config, NEW sql, NEW lower
    PROVE  json_to_metric_definition(metric_to_json(Metric(id, type, event, config, sql, lower)))
             = Metric(id, type, event, config, sql, FALSE)
<1>1. metric_to_json(Metric(id, type, event, config, sql, lower))
        = [id |-> id, type |-> type, event |-> event, config |-> config, sql |-> sql]
  BY DEF metric_to_json, Metric
<1>2. json_to_metric_definition([id |-> id, type |-> type, event |-> event, config |-> config, sql |-> sql])
        = Metric(id, type, event, config, sql, FALSE)
  BY DEF json_to_metric_definition, Metric
<1> QED
  BY <1>1, <1>2, Zenon

LEMMA BuildMetric ==
    ASSUME NEW id, NEW type, NEW event, NEW config, NEW sql, NEW lower, NEW tier
    PROVE  build_metric(Metric(id, type, event, config, sql, lower), tier)
             = Metric(Append(id, "migrated"), tier, EventOf(tier, event), tier, Blank, lower)
<1> DEFINE d == Metric(id, type, event, config, sql, lower)
<1>1. PICK new, of : new = Append(id, "migrated") /\ of = EventOf(tier, event)
  OBVIOUS
<1>2. build_metric(d, tier) = [d EXCEPT !.id = new, !.type = tier, !.config = tier, !.sql = Blank, !.event = of]
  <2>1. d.id = id /\ d.event = event
    BY DEF Metric
  <2> QED
    BY <1>1, <2>1 DEF build_metric, EventOf, Blank
<1>3. PICK none : none = Blank
  OBVIOUS
<1>4. PICK a, b, c, e : /\ a = [d EXCEPT !.id = new] /\ b = [a EXCEPT !.type = tier]
                        /\ c = [b EXCEPT !.config = tier] /\ e = [c EXCEPT !.sql = none]
  OBVIOUS
<1>5. [d EXCEPT !.id = new, !.type = tier, !.config = tier, !.sql = none, !.event = of] = [e EXCEPT !.event = of]
  BY <1>4
<1>6. a = Metric(new, type, event, config, sql, lower)
  BY <1>4 DEF Metric
<1>7. b = Metric(new, tier, event, config, sql, lower)
  BY <1>4, <1>6 DEF Metric
<1>8. c = Metric(new, tier, event, tier, sql, lower)
  BY <1>4, <1>7 DEF Metric
<1>9. e = Metric(new, tier, event, tier, none, lower)
  BY <1>4, <1>8 DEF Metric
<1>10. [e EXCEPT !.event = of] = Metric(new, tier, of, tier, none, lower)
  BY <1>9 DEF Metric
<1> QED
  BY <1>1, <1>2, <1>3, <1>5, <1>10, Zenon

LEMMA ReplacementKeepsAll ==
    ASSUME NEW m
    PROVE  Compared(m) = [build_metric(Definition(m), ShapeOf[m]) EXCEPT !.lower = FALSE]
<1>0. PICK tier, lower, no, ids, custom, e :
        /\ tier = ShapeOf[m] /\ lower = (m \in LowerIsBetter) /\ no = FALSE /\ ids = <<m>>
        /\ custom = "CUSTOM" /\ e = "e"
  OBVIOUS
<1> DEFINE id == Append(ids, "migrated")
           event == EventOf(tier, e)
<1>1. Definition(m) = Metric(ids, custom, e, Blank, m, lower)
  BY <1>0 DEF Definition, Metric, Blank
<1>2. json_to_metric_definition(Original(m)) = Metric(ids, custom, e, Blank, m, no)
  BY <1>0, <1>1, JsonKeeps, Zenon DEF Original
<1>3. \A x : build_metric(Metric(ids, custom, e, Blank, m, x), tier) = Metric(id, tier, event, tier, Blank, x)
  BY BuildMetric
<1>4. Compared(m) = json_to_metric_definition(metric_to_json(build_metric(json_to_metric_definition(Original(m)), tier)))
  BY <1>0, Zenon DEF Compared, Replacement
<1> HIDE DEF id, event
<1>5. Compared(m) = Metric(id, tier, event, tier, Blank, no)
  BY <1>0, <1>2, <1>3, <1>4, JsonKeeps, Zenon
<1>6. [Metric(id, tier, event, tier, Blank, lower) EXCEPT !.lower = no] = Metric(id, tier, event, tier, Blank, no)
  BY DEF Metric
<1> QED
  BY <1>0, <1>1, <1>3, <1>5, <1>6, Zenon

LEMMA InvIsSound ==
    ASSUME MigratorInv
    PROVE  MigrationIsSound
<1>1. Running("migrator") /\ ~Running("duration")
  BY DEF MigratorInv, Running
<1>2. MigrationWasShadowed
  <2>1. ASSUME NEW x \in st.migrated
        PROVE  /\ st.runs[x.run] = [metric |-> x.old, candidate |-> x.new, status |-> "APPROVED"]
               /\ is_shadow_eligible_tier(ShapeOf[x.old])
    <3>1. Vouched(x.old, st.custom) /\ x.new = Compared(x.old) /\ ApprovedFor(st.runs, x.run, x.old)
      BY DEF MigratorInv, MigrationOk
    <3> QED
      BY <3>1, Zenon DEF Vouched, ApprovedFor
  <2> QED
    BY <2>1, Zenon DEF MigrationWasShadowed
<1>3. ReplacementIsWhole
  <2>1. ASSUME NEW x \in st.migrated
        PROVE  x.new = [build_metric(Definition(x.old), ShapeOf[x.old]) EXCEPT !.lower = FALSE]
    BY ReplacementKeepsAll, Zenon DEF MigratorInv, MigrationOk
  <2> QED
    BY <2>1, Zenon DEF ReplacementIsWhole
<1>4. AuditIsTrue
  <2>1. st.audit # NoFile => \A a \in Succeeded(st.audit) : Migration(a.of) \in st.migrated
    BY DEF MigratorInv, ResultsOk, Succeeded
  <2>2. ExitOk(st.exit, st.migrated)
    BY DEF MigratorInv
  <2> QED
    BY <2>1, <2>2, Zenon DEF AuditIsTrue, ExitOk
<1>5. PendingHadItsBudget /\ ReplacementsResolve
  <2>1. st.shadow # NoFile => \A o \in Elements(st.shadow) : OutcomeOk(o, st.runs, st.custom, st.budget)
    BY DEF MigratorInv, OutcomesOk
  <2>2. \A x \in st.migrated : Vouched(x.old, st.custom)
    BY DEF MigratorInv, MigrationOk
  <2>3. PendingHadItsBudget
    BY <2>1, Zenon DEF PendingHadItsBudget, OutcomeOk
  <2>4. ReplacementsResolve
    BY <2>1, <2>2, Zenon DEF ReplacementsResolve, OutcomeOk, Vouched
  <2> QED
    BY <2>3, <2>4
<1>6. DurationIsExact
  BY <1>1 DEF DurationIsExact
<1> QED
  BY <1>2, <1>3, <1>4, <1>5, <1>6 DEF MigrationIsSound

LEMMA DurationsAreSound ==
    ASSUME DurationInit
    PROVE  Running("duration") /\ MigrationIsSound
<1>1. PICK n \in 0 .. 40, unit \in DOMAIN UnitSeconds :
        st = [algo |-> "duration", n |-> n, unit |-> unit, seconds |-> parse_duration(n, unit)]
  BY DEF DurationInit
<1>2. st.algo = "duration" /\ st.n = n /\ st.unit = unit /\ st.seconds = parse_duration(n, unit)
  BY <1>1
<1>3. UnitSeconds[unit] \in Nat
  BY DEF UnitSeconds
<1> DEFINE total == n * UnitSeconds[unit]
<1>4. total \in Nat
  BY <1>3
<1>5. parse_duration(n, unit) = IF n = 0 \/ total > MaxDuration THEN 0 ELSE total
  BY DEF parse_duration
<1> HIDE DEF total
<1>6. st.seconds = 0 \/ (st.seconds = total /\ total <= MaxDuration)
  BY <1>2, <1>4, <1>5, MigratorAssumption
<1>7. DurationIsExact
  BY <1>2, <1>6 DEF DurationIsExact, total
<1>8. ~Running("migrator")
  BY <1>2 DEF Running
<1> QED
  BY <1>2, <1>7, <1>8 DEF MigrationIsSound, MigrationWasShadowed, ReplacementIsWhole, AuditIsTrue,
     PendingHadItsBudget, ReplacementsResolve, Running

\* Through any number of commands, kills, lost answers and metrics, the tool
\* has M5 replace a CUSTOM metric only by what was built from it, compared
\* with it and approved by M3; its files say truly what became of it; and a
\* duration never wraps around (custom_migrator.rs, migration/).
THEOREM MigrationSound == MigratorSpec => []MigrationIsSound
<1> DEFINE Inv == MigratorInv \/ (Running("duration") /\ MigrationIsSound)
<1>1. (MigratorInit \/ DurationInit) => Inv
  BY MigratorStarts, DurationsAreSound
<1>2. Inv /\ [MigratorNext]_st => Inv'
  <2> SUFFICES ASSUME Inv, [MigratorNext]_st PROVE Inv'
    OBVIOUS
  <2>1. CASE UNCHANGED st
    BY <2>1 DEF MigratorInv, Running, MigrationIsSound, MigrationWasShadowed, ReplacementIsWhole,
       AuditIsTrue, PendingHadItsBudget, ReplacementsResolve, DurationIsExact
  <2>2. CASE MigratorNext
    <3>1. MigratorInv
      BY <2>2 DEF MigratorNext, Running
    <3> QED
      BY <2>2, <3>1, ScanKeeps, TranslateKeeps, ShadowStarts, ScheduleKeeps, PollKeeps, WriteShadowKeeps, ApplyStarts,
         ApplyOneKeeps, WriteAuditKeeps, KillKeeps, CreationKeeps, Zenon DEF MigratorNext
  <2> QED
    BY <2>1, <2>2
<1>3. Inv => MigrationIsSound
  BY InvIsSound
<1> QED
  BY <1>1, <1>2, <1>3, PTL DEF MigratorSpec
=============================================================================
