------------------------------ MODULE Readers ------------------------------
(***************************************************************************)
(* Who reads while others write.  M1's fan-out of configuration updates:   *)
(* one bounded broadcast channel, one receiver per server stream; an       *)
(* update is its number, the channel keeps the last Capacity of them, and  *)
(* a receiver that falls behind is told so.  And ListExperiments and       *)
(* ListMetricDefinitions of M5's Rust port and ListFlags of M7: a client   *)
(* follows page tokens while rows are created, under any ids, and change.  *)
(***************************************************************************)
EXTENDS Machine

CONSTANTS
    Streams,       \* server streams
    Capacity,      \* CONFIG_UPDATE_CHANNEL_CAPACITY
    MaxPushes,     \* bound: updates pushed
    ListedIds,     \* experiment ids, as numbers: the order of the UUIDs
    ListedStates,  \* lifecycle states
    PageSizes,     \* requested page sizes
    DefaultPage,   \* the page size used for one that is out of range
    LargestPage    \* the largest page size honoured

\* Ids are ordered, a table has finitely many, no state is the empty string
\* that stands for no row, and a page has room for a row.
ASSUME ReadersAssumption ==
    /\ Capacity \in Nat \ {0} /\ MaxPushes \in Nat
    /\ ListedIds \subseteq Nat \ {0} /\ IsFiniteSet(ListedIds) /\ "" \notin ListedStates
    /\ PageSizes \subseteq Int /\ DefaultPage \in Nat \ {0} /\ LargestPage \in Int

-----------------------------------------------------------------------------
(* Streams.                                                                *)

Closed == [status |-> "closed", from |-> 0, next |-> 0, got |-> <<>>]

BroadcastInit ==
    st = [algo |-> "broadcast", pushed |-> 0, stream |-> [s \in Streams |-> Closed]]

\* subscribe_config_updates: a stream starts empty, at the next update.
Subscribe(s) ==
    /\ st.stream[s].status = "closed"
    /\ st' = [st EXCEPT !.stream[s] = [status |-> "open", from |-> st.pushed + 1,
                                       next |-> st.pushed + 1, got |-> <<>>]]

push_config_update ==
    /\ st.pushed < MaxPushes
    /\ st' = [st EXCEPT !.pushed = @ + 1]

\* Mutant: the receiver skips what the ring lost.
NeverLagged(s) == FALSE

\* The receiver's next update is gone: the ring holds the last Capacity.
Lagged(s) == st.stream[s].next <= st.pushed - Capacity

\* stream_config_updates: an update, or the data loss that ends the stream.
Oldest(s) == AtLeast(st.stream[s].next, st.pushed - Capacity + 1)
Deliver(s) ==
    /\ st.stream[s].status = "open" /\ st.stream[s].next <= st.pushed
    /\ \/ /\ Lagged(s)
          /\ st' = [st EXCEPT !.stream[s].status = "data_loss"]
       \/ /\ ~Lagged(s)
          /\ st' = [st EXCEPT !.stream[s].next = Oldest(s) + 1,
                              !.stream[s].got = Append(@, Oldest(s))]

Disconnect(s) ==
    /\ st.stream[s].status # "closed"
    /\ st' = [st EXCEPT !.stream[s] = Closed]

BroadcastNext ==
    /\ Running("broadcast")
    /\ \/ push_config_update
       \/ \E s \in Streams : Subscribe(s) \/ Deliver(s) \/ Disconnect(s)

\* No silent gap: what a stream has received is every update since it
\* subscribed, in order; one that fell behind is told with a data loss.
NoSilentGap ==
    Running("broadcast") =>
        \A s \in Streams :
            st.stream[s].got = [i \in 1 .. Len(st.stream[s].got) |-> st.stream[s].from + i - 1]

-----------------------------------------------------------------------------
(* Pages.                                                                  *)

\* "" is no row, no filter, no page token.
Matching(t, f) == {i \in ListedIds : t[i] # "" /\ (f = "" \/ t[i] = f)}

ListingInit ==
    \E of \in {"experiments", "metrics", "flags"}, f \in ListedStates \cup {""}, n \in PageSizes,
       t \in [ListedIds -> ListedStates \cup {""}] :
        /\ of = "flags" => f = ""
        /\ st = [algo |-> "listing", of |-> of, table |-> t, filter |-> f, size |-> n, token |-> 0,
                 pages |-> <<>>, done |-> FALSE,
                 steady |-> Matching(t, f)]

Selected(f, i) == st.table[i] # "" /\ (f = "" \/ st.table[i] = f)

PageSize(n) == IF n <= 0 \/ n > LargestPage THEN DefaultPage ELSE n

\* The cursor of the next page: the last row of this one, when the query
\* found one row more than the page holds.
Cursor(rows, n) == rows[n]

Page(rows, n) ==
    LET more == Len(rows) > n IN
    st' = [st EXCEPT !.pages = @ \o SubSeq(rows, 1, AtMost(n, Len(rows))),
                     !.done = ~more, !.token = IF more THEN Cursor(rows, n) ELSE @]
After(n) == Smallest({i \in ListedIds : Selected(st.filter, i) /\ i > st.token}, n + 1)

list_experiments ==
    /\ st.of = "experiments" /\ ~st.done
    /\ Page(After(PageSize(st.size)), PageSize(st.size))
list_flags ==
    /\ st.of = "flags" /\ ~st.done
    /\ Page(After(PageSize(st.size)), PageSize(st.size))
\* Metrics are not paged: whatever the page size, all of them.
list_metrics ==
    /\ st.of = "metrics" /\ ~st.done
    /\ Page(After(Cardinality(ListedIds)), Cardinality(ListedIds))

\* Others: a new row under any id, or a change of state.
OthersWrite(i, s) ==
    /\ ~st.done /\ st.table[i] # s
    /\ st' = [st EXCEPT !.table[i] = s,
                        !.steady = IF st.filter \in {"", s} THEN @ ELSE @ \ {i}]

ListingNext ==
    /\ Running("listing")
    /\ \/ list_experiments \/ list_flags \/ list_metrics
       \/ \E i \in ListedIds, s \in ListedStates : OthersWrite(i, s)

\* Following the tokens to the end shows every row that matched the
\* filter all along, and none twice, whatever is created or changes state
\* between two pages.
PagesAreExact ==
    Running("listing") =>
        /\ \A i, j \in 1 .. Len(st.pages) : i < j => st.pages[i] < st.pages[j]
        /\ st.done => st.steady \subseteq Elements(st.pages)

-----------------------------------------------------------------------------

ReadersSpec == (BroadcastInit \/ ListingInit) /\ [][BroadcastNext \/ ListingNext]_st

\* Who reads from M5 while others write misses nothing unnoticed: neither a
\* stream that falls behind nor a client that follows the pages of a list.
ReadersSeeEverything ==
    /\ NoSilentGap /\ PagesAreExact
=============================================================================
