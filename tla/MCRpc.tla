------------------------------- MODULE MCRpc -------------------------------
(* A unit of work, and a plain transaction, each beside a writer in the
   server's process; and a query beside a watch. *)
EXTENDS Rpc, TLC

CONSTANTS u, w, q, v, loc, data

MCKind == (u :> "unit") @@ (w :> "plain") @@ (q :> "query") @@ (v :> "watch") @@ (loc :> "local")
MCTries == (u :> 2) @@ (w :> 2) @@ (q :> 1) @@ (v :> 1) @@ (loc :> 1)
MCFaults == ({u, loc} :> 2) @@ ({w, loc} :> 1) @@ ({q, v} :> 0) @@ ({q} :> 1) @@ ({v} :> 1)
MCCrews == DOMAIN MCFaults
MCOneShard == (data :> 1) @@ (u :> 1)
=============================================================================
