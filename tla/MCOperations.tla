--------------------------- MODULE MCOperations ---------------------------
(***************************************************************************)
(* Operations with a request, a conflicting one of the same operation and a *)
(* read-only one; each run takes some of them.                             *)
(***************************************************************************)
EXTENDS Operations

MCOperationOf ==
    [r \in Request |-> IF r = "list" THEN {} ELSE {"op"}]

MCPayloadOf ==
    [r \in Request |-> CASE r = "list"     -> "list_agents"
                         [] r = "conflict" -> "abort"
                         [] OTHER          -> "prompt"]
===========================================================================
