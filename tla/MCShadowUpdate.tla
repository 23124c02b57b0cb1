--------------------------- MODULE MCShadowUpdate ---------------------------
(* A small instance of ShadowUpdate: two processes, root and a user, who has *)
(* two shadow lines, or one behind that of root; one password.              *)
EXTENDS ShadowUpdate

CONSTANTS root, alice, w1, aged

NameDef == {root, alice}
UidDef == {0, 1000}
InitAccountsDef == {<<[name |-> root, uid |-> 0], [name |-> alice, uid |-> 1000]>>}

\* alice twice, the first time without an aging tail, and root missing; and root
\* with the locked hash of the base image, alice with the empty one of the lab.
Line(u, h, a) == [name |-> u, hash |-> h, aging |-> a]
InitShadowDef ==
    {<<Line(alice, Empty, NoAging), Line(alice, Locked, aged)>>,
     <<Line(root, Locked, aged), Line(alice, Empty, aged)>>}
=============================================================================
