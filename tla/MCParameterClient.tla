------------------------- MODULE MCParameterClient --------------------------
(***************************************************************************)
(* Two plugins: one asks for all parameters, the other gets and sets one,  *)
(* maybe the latter from the callback of the former; each may be destroyed *)
(* at any moment.                                                          *)
(***************************************************************************)
EXTENDS ParameterClient, TLC

CONSTANTS all, set, get, failure, param

MCRequests == {all, set, get}
MCKind == (all :> "all" @@ set :> "set" @@ get :> "get")
MCName == (all :> 0 @@ set :> 1 @@ get :> 1)
MCOwner == (all :> param @@ set :> failure @@ get :> failure)

\* Without is what the standard module calls SelectSeq.
ASSUME WithoutIsAFilter ==
    \A q \in SeqOf(MCRequests, 4), o \in {failure, param} :
        LET Other(r) == MCOwner[r] # o
        IN  Without(q, o) = SelectSeq(q, Other)
=============================================================================
