------------------------------ MODULE MCAddRace ------------------------------
(* A small instance of AddRace: two processes, a name that is part of the   *)
(* other, an /etc/group without wheel where users is on two lines and a list *)
(* grows longer than is read, uids 3 to 7.                                  *)
EXTENDS AddRace, TLC

NewNameDef == {"bob", "bo"}
PartOfDef == {<<"bob", "bob">>, <<"bob", "bo">>, <<"bo", "bo">>}
NameSizeDef ==
    ("bo" :> 2) @@ [n \in {"ann", "bob", "joe", "root", "top"} |-> 3] @@ (Torn :> 1)
Account(n, u) == [name |-> n, uid |-> u, by |-> Nobody]
BasePasswdDef ==
    {<<Account("root", 0)>>,
     <<Account("root", 0), Account("top", UidLimit - 2)>>}
Line(g, members) == [name |-> g, members |-> members]
BaseGroupDef == {<<Line("users", <<"ann">>), Line("users", <<"ann", "joe">>)>>}
HeaderSizeDef == ("wheel" :> 11) @@ ("users" :> 12) @@ (Torn :> 1)
ProcSymmetry == Permutations(Proc)
=============================================================================
