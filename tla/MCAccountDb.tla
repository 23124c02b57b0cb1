----------------------------- MODULE MCAccountDb -----------------------------
(* A small instance of AccountDb: root has a locked account, as in the base *)
(* image; al has what an adduser killed half way leaves, with the first uid *)
(* or the last one; bob can be added.                                       *)
EXTENDS AccountDb, TLC

CONSTANTS root, al, bob, w1, w2

NameDef == {root, al, bob}
NewNameDef == {al, bob}
PasswordDef == {w1, w2}
UidDef == {0}
PasswordSymmetry == Permutations(PasswordDef)

Accounts(uid) == <<[name |-> root, uid |-> 0], [name |-> al, uid |-> uid]>>
InitAccountsDef == {Accounts(FirstUid), Accounts(UidLimit - 1)}
InitShadowDef == {<<[name |-> root, hash |-> Locked, aging |-> DefaultAging]>>}
=============================================================================
