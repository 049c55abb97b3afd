---------------------------- MODULE MCApiServer ----------------------------
(***************************************************************************)
(* Two provisions of the same stack and a listing, as the first requests.  *)
(***************************************************************************)
EXTENDS ApiServer

CONSTANT n1

OneName == [c \in Callers |-> n1]
=============================================================================
