----------------------------- MODULE MCGpuCheck -----------------------------
(***************************************************************************)
(* One card, on the controller's own machine or on a remote node.          *)
(***************************************************************************)
EXTENDS GpuCheck

CONSTANTS node1, gpu1

OneNode == {node1}
OneGpu == {gpu1}
OnNode1 == [g \in Gpu |-> node1]
=============================================================================
