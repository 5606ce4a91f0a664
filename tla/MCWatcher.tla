------------------------------ MODULE MCWatcher ------------------------------
(* Small instances of Watcher for TLC. *)
EXTENDS Watcher

CONSTANTS r1, r2, u1   \* registrations: two with a routing tag, one without

PassingNode == {"passing"}

Inst(checks, node, reg) == [checks |-> checks, node |-> node, reg |-> reg]

Up == Inst({"passing"}, PassingNode, r1)
NewMeta == Inst({"passing"}, PassingNode, r2)
Untagged == Inst({"passing"}, PassingNode, u1)
NodeDown == Inst({"passing"}, {"critical"}, r1)

OnlyUp == {Up}
EveryState == {Up, NewMeta, NodeDown, Untagged}
=============================================================================
