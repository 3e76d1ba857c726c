------------------------------- MODULE Documents -------------------------------
(***************************************************************************)
(* What the handlers of the backend have in common: a request reads a      *)
(* document, changes its copy, and saves the copy later.  Mongoose sends   *)
(* the fields in which the copy differs from what was read.                *)
(***************************************************************************)

CONSTANT Requests    \* requests that may be in flight

\* Mutant: the whole copy is sent.
Everything(read, copy) == copy
Changes(read, copy) == [f \in {g \in DOMAIN read : copy[g] # read[g]} |-> copy[f]]

Merged(stored, changes) ==
    [f \in DOMAIN stored |-> IF f \in DOMAIN changes THEN changes[f] ELSE stored[f]]
=============================================================================
