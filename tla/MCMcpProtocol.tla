---------------------------- MODULE MCMcpProtocol ----------------------------
(* Instances of McpProtocol for TLC: requests and ids are interchangeable. *)
EXTENDS McpProtocol, TLC

RequestSymmetry == Permutations(Requests) \cup Permutations(Ids)
=============================================================================
