------------------------------ MODULE Deployment ------------------------------
(***************************************************************************)
(* What the parts of a deployment have in common: the server's processes,  *)
(* each with one request at a time, and the bound of the clocks.           *)
(***************************************************************************)
CONSTANTS Procs,     \* requests that can be in flight at once
          MaxTime,   \* bound: the clocks stop here
          None
=============================================================================
