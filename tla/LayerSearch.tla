----------------------------- MODULE LayerSearch -----------------------------
(***************************************************************************)
(* What a search of one layer promises its caller, without the algorithm:   *)
(* one step from the question to an answer that is a local optimum of the   *)
(* graph, or to the error of a failed vector read.  BeamSearch is shown to  *)
(* implement this; HnswBuild inserts nodes on the strength of it.           *)
(***************************************************************************)
EXTENDS LayerGraph

CONSTANTS Graphs,       \* adjacency lists, as sets of out-neighbors
          Distances,    \* distance of each node to the query
          Efs,          \* beam widths
          EntrySets     \* the nodes a search may start from

VARIABLES adj, dist, ef, entries,   \* the question
          status,                   \* "searching", "answered" or "failed"
          answer                    \* the nodes returned

question == <<adj, dist, ef, entries>>

Init == /\ adj \in Graphs
        /\ dist \in Distances
        /\ ef \in Efs
        /\ entries \in EntrySets
        /\ status = "searching"
        /\ answer = {}

Answer == /\ status = "searching"
          /\ status' = "answered"
          /\ answer' \in SUBSET Node
          /\ LocalOptimum(adj, dist, ef, entries, answer')
          /\ UNCHANGED question

Fail == /\ status = "searching"
        /\ status' = "failed"
        /\ UNCHANGED <<question, answer>>

Next == Answer \/ Fail

view == <<adj, dist, ef, entries, status, answer>>

Spec == Init /\ [][Next]_view
=============================================================================
