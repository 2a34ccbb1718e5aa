------------------------------ MODULE MCPlan ------------------------------
(* Small projects for the model checker: one room that can be absent, edited  *)
(* or approved, and an enclosing context that can change.                    *)
EXTENDS PlanRefinement, TLC

CONSTANTS room, v0, v1

Plan(value, context) == [rooms |-> [r \in Rooms |-> value], context |-> context]

MCRooms      == {room}
MCValues     == {v0, v1}
MCDrafts     == {Plan(v0, v0), Plan(v1, v0), Plan(v1, v1), Plan(Absent, v0)}
FewDrafts    == {Plan(v0, v0), Plan(v1, v0)}
MCApprovable == {Plan(v0, v0)}

Symmetric == Permutations(RevIds) \cup Permutations(Clients)
===========================================================================
