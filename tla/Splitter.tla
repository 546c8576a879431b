------------------------------ MODULE Splitter ------------------------------
(***************************************************************************)
(* Task::Splitter (src/Tasks/Splitter.cpp): cuts the stream of hits into   *)
(* clusters wherever two neighbours are more than gap apart in time.  A    *)
(* hit is a record with a time t, timestamp and CFD correction together.   *)
(***************************************************************************)
EXTENDS TaskInput, TaskOutput, SequencesExt

CONSTANT Gap   \* time_gap

VARIABLE entries     \* the cluster being collected

Init == TaskInit /\ OutputInit /\ input = << >> /\ entries = << >>
-----------------------------------------------------------------------------
\* Seeded fault: the distance is taken to the first hit of the cluster.
JoinsFirst(entry) == entry.t - Head(entries).t <= Gap

\* The difference is signed: a hit earlier than the last one always joins.
Joins(entry) == entry.t - Last(entries).t <= Gap

\* Seeded fault: the hit that closes a cluster is not put into the next one.
PopAndDrop ==
    /\ PopNext
    /\ IF entries = << >> \/ Joins(NextItem)
         THEN entries' = Append(entries, NextItem) /\ pending' = << >>
         ELSE entries' = << >> /\ pending' = <<entries>>
    /\ pc' = "push"
    /\ UNCHANGED <<output, taken>>

\* The hit extends the cluster, or closes it and starts the next one.
Pop ==
    /\ PopNext
    /\ IF entries = << >> \/ Joins(NextItem)
         THEN entries' = Append(entries, NextItem) /\ pending' = << >>
         ELSE entries' = <<NextItem>> /\ pending' = <<entries>>
    /\ pc' = "push"
    /\ UNCHANGED <<output, taken>>

Run == \/ Test /\ UNCHANGED <<pending, output, taken, entries>>
       \/ Pop
       \/ TimedOut /\ UNCHANGED <<pending, output, taken, entries>>
       \/ Push /\ UNCHANGED <<input, entries>>
       \/ Handled /\ UNCHANGED <<input, entries>>
       \/ Exit /\ UNCHANGED <<input, entries>>
-----------------------------------------------------------------------------
(***************************************************************************)
(* Properties                                                              *)
(***************************************************************************)
Clusters == output \o pending

\* The clusters of a sequence of hits: one begins wherever the distance to the hit
\* before is larger than the gap.
AllClusters(hits) ==
    FoldLeft(LAMBDA cs, h : IF cs = << >> \/ h.t - Last(Last(cs)).t > Gap
                              THEN Append(cs, <<h>>)
                              ELSE Append(Front(cs), Append(Last(cs), h)),
             << >>, hits)

\* All but the last, which nothing has closed.
ClosedClusters(hits) == Front(AllClusters(hits))

\* The clusters one after the other, and then the one being collected, are the
\* hits popped so far: none is lost, doubled or moved, and no cluster is empty.
ClustersPartitionTheHits ==
    /\ FlattenSeq(Clusters) \o entries = Popped
    /\ << >> \notin ToSet(Clusters)

\* A cluster begins exactly where the distance to the hit before it exceeds the
\* gap, whatever came earlier and in whichever order the hits arrived.
CutAtEveryGap ==
    LET starts == {1 + Len(FlattenSeq(SubSeq(Clusters, 1, n))) : n \in 0 .. Len(Clusters)} IN
    \A i \in 2 .. entries_processed :
        i \in starts <=> input[i].t - input[i - 1].t > Gap

\* architecture.md:134 says of the clusters that "Each cluster is emitted as its
\* own `std::vector<Entry_t>` into the next queue."
EachClusterEmitted == pc = "exited" => FlattenSeq(output) = Popped
=============================================================================
