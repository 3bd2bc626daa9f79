---------------------------- MODULE Interleaving ----------------------------
(***************************************************************************)
(* M1's interleaved lists: GetInterleavedList checks the experiment and    *)
(* the request, then merges the ranked lists of the algorithms by team     *)
(* draft, multileaving or optimized interleaving.  The seeded random       *)
(* generator is a nondeterministic choice.  An algorithm is its position   *)
(* in interleaving_config.algorithm_ids.                                   *)
(***************************************************************************)
EXTENDS Machine

CONSTANTS
    Rankings,      \* the lists requests carry, each a sequence of items
    ListSizes,     \* max_list_size
    MaxLists       \* bound: algorithms of an experiment, lists of a request

\* A ranking is a sequence of items, a size an unsigned number.
ASSUME InterleavingAssumption ==
    /\ \A l \in Rankings : l \in Seq(Elements(l))
    /\ ListSizes \subseteq Nat /\ MaxLists \in Nat

Methods == {"TEAM_DRAFT", "OPTIMIZED", "MULTILEAVE", "other"}

\* A request: the experiment's state and configuration, the ranked list for
\* each configured algorithm, how many lists were sent, and whether one of
\* them is for an algorithm that is not configured.
Requests ==
    {r \in [state : {"RUNNING", "PAUSED"}, configured : BOOLEAN, method : Methods,
            k : ListSizes, lists : UNION {[1 .. n -> Rankings] : n \in 1 .. MaxLists},
            sent : 2 .. MaxLists, missing : BOOLEAN] :
        ~r.missing => r.sent >= Len(r.lists)}

\* extract_pairwise
PairwiseError(r) ==
    FirstFailure(<<IF r.sent = 2 THEN "ok" ELSE "invalid_argument",
                   IF Len(r.lists) = 2 THEN "ok" ELSE "failed_precondition",
                   IF r.missing THEN "invalid_argument" ELSE "ok">>)

MultileaveError(r) ==
    FirstFailure(<<IF Len(r.lists) >= 3 THEN "ok" ELSE "failed_precondition",
                   IF r.missing THEN "invalid_argument" ELSE "ok">>)

\* interleave: what is checked before a list is built.
Precheck(r) ==
    FirstFailure(<<IF r.state = "RUNNING" THEN "ok" ELSE "failed_precondition",
                   IF r.configured THEN "ok" ELSE "failed_precondition",
                   CASE r.method \in {"TEAM_DRAFT", "OPTIMIZED"} -> PairwiseError(r)
                     [] r.method = "MULTILEAVE" -> MultileaveError(r)
                     [] OTHER -> "invalid_argument">>)

Items(lists) == UNION {Elements(lists[a]) : a \in 1 .. Len(lists)}

InterleaveInit ==
    \E r \in Requests :
        st = [algo |-> "interleave", request |-> r, answer |-> "pending",
              k |-> AtMost(r.k, SumOf([a \in 1 .. Len(r.lists) |-> Len(r.lists[a])])),
              merged |-> <<>>, provenance |-> <<>>,
              count |-> [a \in 1 .. Len(r.lists) |-> 0]]

Refuse ==
    /\ st.answer = "pending" /\ Precheck(st.request) # "ok"
    /\ st' = [st EXCEPT !.answer = Precheck(st.request)]

Building == st.answer = "pending" /\ Precheck(st.request) = "ok" /\ Len(st.merged) < st.k

Lists == st.request.lists
Teams == 1 .. Len(Lists)
Unseen(a) == Elements(Lists[a]) \ Elements(st.merged)

Pick(a, item) ==
    st' = [st EXCEPT !.merged = Append(@, item), !.provenance = Append(@, a), !.count[a] = @ + 1]

\* The item the team's pointer stops at: the first that is not in the list yet.
NextOf(a) ==
    LET rank == {i \in 1 .. Len(Lists[a]) : Lists[a][i] \notin Elements(st.merged)}
    IN  Lists[a][Least(rank)]

Eligible == {a \in Teams : Unseen(a) # {}}

\* Mutant: any team with items left may pick.
AnyEligible == Eligible

\* The teams that may pick: those with the fewest items so far.
FewestPicks == {a \in Eligible : \A b \in Eligible : st.count[a] <= st.count[b]}

\* team_draft and multileave.
DraftStep ==
    /\ Building /\ st.request.method \in {"TEAM_DRAFT", "MULTILEAVE"}
    /\ \E a \in FewestPicks : Pick(a, NextOf(a))

\* optimized: no list has more than half of the positions.
BalanceCap == (st.k + 1) \div 2
UnderCap(a) == st.count[a] < BalanceCap

\* build_candidates: an item of both lists counts for the first.
Candidates(a) ==
    IF UnderCap(a)
    THEN Unseen(a) \ UNION {Unseen(b) : b \in {c \in 1 .. a - 1 : UnderCap(c)}}
    ELSE {}

\* softmax_sample gives every candidate a chance.
OptimizedStep ==
    /\ Building /\ st.request.method = "OPTIMIZED"
    /\ \E a \in Teams : \E item \in Candidates(a) : Pick(a, item)

Answer ==
    /\ st.answer = "pending" /\ Precheck(st.request) = "ok"
    /\ ~Building \/ (IF st.request.method = "OPTIMIZED"
                     THEN \A a \in Teams : Candidates(a) = {} ELSE Eligible = {})
    /\ st' = [st EXCEPT !.answer = "ok"]

InterleaveNext == Running("interleave") /\ (Refuse \/ DraftStep \/ OptimizedStep \/ Answer)

InterleaveSpec == InterleaveInit /\ [][InterleaveNext]_st

-----------------------------------------------------------------------------
(* Properties.                                                             *)

Credited(a) == {i \in 1 .. Len(st.merged) : st.provenance[i] = a}

\* The credit an outcome gives is real, whatever the draws: an item appears
\* once, its algorithm ranked it, and under the drafts it was the best item
\* that algorithm had left.
CreditIsEarned ==
    Running("interleave") =>
        \A i \in 1 .. Len(st.merged) :
            LET a == st.provenance[i]
                before == {st.merged[j] : j \in 1 .. i - 1}
            IN  /\ st.merged[i] \notin before
                /\ \E r \in 1 .. Len(Lists[a]) :
                      /\ Lists[a][r] = st.merged[i]
                      /\ st.request.method # "OPTIMIZED" =>
                            \A q \in 1 .. r - 1 : Lists[a][q] \in before

\* No algorithm is favoured: a team is at most one item ahead of another
\* unless that one ran out, and under optimized interleaving no team has more
\* than half of the list.
DraftIsBalanced ==
    Running("interleave") =>
        IF st.request.method = "OPTIMIZED"
        THEN \A a \in Teams : Cardinality(Credited(a)) <= (st.k + 1) \div 2
        ELSE \A a, b \in Teams : b \in Eligible =>
                Cardinality(Credited(a)) <= Cardinality(Credited(b)) + 1

\* A draft that is answered has as many items as fit and exist.
DraftIsFull ==
    Running("interleave") /\ st.answer = "ok" /\ st.request.method # "OPTIMIZED" =>
        Len(st.merged) = AtMost(st.k, Cardinality(Items(Lists)))

\* An interleaved list compares its algorithms fairly, whatever is drawn:
\* the credit is real, no team is favoured, and no item is left out.
InterleavingIsFair ==
    /\ CreditIsEarned /\ DraftIsBalanced /\ DraftIsFull
=============================================================================
