--------------------------- MODULE MCConsoleSession ---------------------------
(* Root and one user, one password; every combination of autologin, denied   *)
(* root and profile; root locked, open or with a password.                   *)
EXTENDS ConsoleSession

CONSTANTS root, ann, pw

NameDef == {root, ann}
PasswdDef == {<<[name |-> root, uid |-> 0, passwd |-> InShadow],
                [name |-> ann, uid |-> 1000, passwd |-> InShadow]>>,
              <<[name |-> root, uid |-> 0, passwd |-> InShadow]>>}
ShadowDef == {<<[name |-> root, hash |-> h, aging |-> DefaultAging],
                [name |-> ann, hash |-> pw, aging |-> DefaultAging]>> :
                  h \in {Locked, Empty, pw}}
==============================================================================
