--------------------------- MODULE MCTCPListeners ---------------------------
(* Small instances of TCPListeners for TLC. *)
EXTENDS TCPListeners

\* To keep the state space small, a behaviour has connections or a reload, not both.
ConnsOrReload ==
    \/ \A c \in Conns : cst[c] = "free"
    \/ \A a \in Apps : a > 1 => phase[a] = "absent"

ConnsOrReloadSpec == Init /\ [][Next /\ ConnsOrReload']_vars /\ Fairness
=============================================================================
