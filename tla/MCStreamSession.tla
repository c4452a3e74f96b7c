-------------------------- MODULE MCStreamSession --------------------------
(* An instance of StreamSession: one conversation, asked for again. The    *)
(* requests are interchangeable numbers, so they may come in their order.  *)
EXTENDS StreamSession

MCConvOf == [r \in Requests |-> CHOOSE c \in Convs : TRUE]

InOrder == \A r, q \in Requests : r < q /\ req'[q] # "new" => req'[r] # "new"

MCSpec == Init /\ [][Next /\ InOrder]_vars /\ Fairness
=============================================================================
