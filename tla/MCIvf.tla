------------------------------- MODULE MCIvf -------------------------------
(***************************************************************************)
(* Stores of up to four vectors in the plane: none, two (fewer than cells), *)
(* three with a copy, four at the corners and along a line; up to three     *)
(* cells; codebooks of two centroids, and with one for each vector.         *)
(***************************************************************************)
EXTENDS Ivf

MCStores == {<< >>,
              << <<0, 0>>, <<12, 24>> >>,
              << <<12, 0>>, <<12, 0>>, <<12, 0>> >>,
              << <<0, 0>>, <<24, 12>>, <<0, 0>>, <<48, 0>> >>,
              << <<0, 0>>, <<12, 12>>, <<24, 0>>, <<60, 24>> >>}
MCParams == {[lists |-> 2, probes |-> 1, soft |-> 1, sub |-> 4],
             [lists |-> 3, probes |-> 1, soft |-> 2, sub |-> 2],
             [lists |-> 3, probes |-> 3, soft |-> 1, sub |-> 2],
             [lists |-> 3, probes |-> 3, soft |-> 1, sub |-> 4]}
MCQueries == {<<0, 0>>, <<12, 24>>, <<30, 0>>}
MCConfigs == {[k |-> 2, num |-> 1, den |-> 4, batch |-> 4],
              [k |-> 1, num |-> 1, den |-> 1, batch |-> 4],
              [k |-> 3, num |-> 0, den |-> 1, batch |-> 0]}
=============================================================================
