----------------------------- MODULE MCRequests -----------------------------
(* The request path alone: one change of the runtime mode and its retries. *)
EXTENDS Requests

OneDrain == {{[id |-> "i1", op |-> "drain", args |-> 1]}}
=============================================================================
