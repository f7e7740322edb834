--------------------------- MODULE MCPodmanRunner ---------------------------
(***************************************************************************)
(* PodmanRunner for TLC: identifiers at the edges of what is accepted, an  *)
(* output limit of one chunk and pipes of one, so that a stream may exceed *)
(* the limit by more than the pipe holds.                                  *)
(***************************************************************************)
EXTENDS PodmanRunner

MCMaxIdentifier == 256

Id(length, clean) == [length |-> length, clean |-> clean]

MCIds == {Id(0, TRUE), Id(1, FALSE), Id(256, TRUE), Id(257, TRUE)}

MCRequests ==
    [tool : {"container"}, id : MCIds \union {None}] \union
    [tool : {"pod"}, id : {Id(1, TRUE), Id(0, TRUE), None}]

=============================================================================
