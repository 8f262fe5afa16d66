---------------------------- MODULE MCGroupKey ----------------------------
(***************************************************************************)
(* GroupKey on small instances.                                            *)
(***************************************************************************)
EXTENDS GroupKey

\* A scenario of founders, leavers, rekeys, reconnects and link failures.
Scene(F, L, k, r, f) ==
    [founders |-> F, leavers |-> L, rekeys |-> k, reconnects |-> r, fails |-> f]

\* An empty room fills up while a link fails.
Forming == {Scene({}, {}, 0, 0, 1)}

\* A settled room: the smallest id arrives late and someone asks for a rekey;
\* members other than the authority leave, with a rekey; a signaling
\* connection is lost; a newcomer arrives, may leave, and a link fails.
InUse == {Scene({2, 3}, {}, 1, 0, 0), Scene({1, 2, 3}, {2, 3}, 1, 0, 0),
          Scene({1, 2, 3}, {}, 0, 1, 0), Scene({1, 2}, {3}, 0, 0, 1)}

\* The authority leaves.
Handover == {Scene({1, 2, 3}, {1}, 0, 0, 0)}

\* The smallest id arrives late.
LateAuthority == {Scene({2, 3}, {}, 0, 0, 0), Scene({2, 3}, {}, 1, 0, 0)}

\* The authority loses its signaling connection while a newcomer arrives.
Rejoining == {Scene({1, 2}, {}, 0, 1, 0)}

\* Members of a room that is still forming leave.
Departing == {Scene({}, {2, 3}, 0, 0, 0)}
===========================================================================
