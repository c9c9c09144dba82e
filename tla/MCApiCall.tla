------------------------------ MODULE MCApiCall ------------------------------
(* Endpoints for ApiCall, and what the schemas accept. *)
EXTENDS ApiCall

CONSTANTS good, noted, bad, lossy

MCAccepted ==
  [name \in SchemaNames |->
     CASE name = "params" -> {good, noted}
       [] name = "query" -> {good, Empty}
       [] name = "body" -> {good, noted, lossy, Nothing}
       [] name = "200" -> {good, noted}
       [] name = "500" -> {bad}
       [] OTHER -> {good, Empty}]

MCNoted == [name \in SchemaNames |-> IF name \in {"params", "body", "200"} THEN {noted, bad} ELSE {}]

MCEndpoints ==
  {[declared |-> {"params", "body"}, live |-> live, responses |-> ("200" :> "json") @@ ("204" :> "no body")] :
      live \in BOOLEAN}
  \cup {[declared |-> {"query"}, live |-> FALSE, responses |-> ("200" :> "json") @@ ("500" :> "json")]}
=============================================================================
