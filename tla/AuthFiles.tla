------------------------------ MODULE AuthFiles ------------------------------
(* The account files as lib/ir0_auth.c reads and rewrites them.             *)
(*                                                                          *)
(* A file is a sequence of lines; a line is a record of the fields the code *)
(* looks at.  A stored hash is represented by the password it verifies, so  *)
(* that crypt(3) is injective on passwords: the salt only makes two hashes  *)
(* of one password differ, which no property here tells apart.              *)
EXTENDS Integers, Sequences

CONSTANTS
    Name,       \* account names
    Password,   \* non-empty passwords; also the hashes crypt makes of them
    Aging,      \* aging tails "lastchg:min:max:..." of a shadow(5) line
    DefaultAging, \* "0:0:99999:7:::"
    NoAging,    \* a line that ends with the hash
    Locked,     \* a field starting with "!", or a lone "*"
    Empty,      \* an empty field, and the empty password
    Absent      \* no such line

Stored == Password \cup {Locked, Empty}

ShadowLine == [name : Name, hash : Stored, aging : Aging \cup {NoAging}]
AccountLine == [name : Name, uid : Nat]

ASSUME AgingAssumption == DefaultAging \in Aging /\ NoAging \notin Aging
ASSUME StoredAssumption ==
    /\ Locked \notin Password /\ Empty \notin Password /\ Locked # Empty
    /\ Absent \notin Stored /\ Absent \notin Name /\ Absent \notin AccountLine

LinesOf(file, u) == {i \in DOMAIN file : file[i].name = u}
LinesOfUid(file, uid) == {i \in DOMAIN file : file[i].uid = uid}
FirstLine(S) == CHOOSE i \in S : \A j \in S : i <= j

\* ir0_account_by_name and ir0_account_by_uid: the first line that matches.
AccountByName(file, u) ==
    IF LinesOf(file, u) = {} THEN Absent ELSE file[FirstLine(LinesOf(file, u))]
AccountByUid(file, uid) ==
    IF LinesOfUid(file, uid) = {} THEN Absent
    ELSE file[FirstLine(LinesOfUid(file, uid))]

\* ir0_shadow_hash: the hash field of the first line of u.
ShadowHash(file, u) ==
    IF LinesOf(file, u) = {} THEN Absent
    ELSE file[FirstLine(LinesOf(file, u))].hash

\* ir0_password_verify: a locked or unrecognised field never verifies, an empty
\* one verifies the empty password alone, a hash verifies its own password.
Verifies(stored, typed) ==
    \/ stored = Empty /\ typed = Empty
    \/ stored \in Password /\ typed = stored

\* The line ir0_shadow_set_hash writes for a line of u: the new hash and the
\* aging tail of the old line, or the default tail when the old line has none.
NewLine(u, h, a) == [name |-> u, hash |-> h, aging |-> a]
RewriteLine(line, u, h) ==
    IF line.name # u THEN line
    ELSE NewLine(u, h, IF line.aging = NoAging THEN DefaultAging ELSE line.aging)

\* What a finished rewrite of a whole file must be: every line of u replaced in
\* place, every other line kept, and u appended when the file had no line of u.
RewriteLines(file, u, h) == [i \in DOMAIN file |-> RewriteLine(file[i], u, h)]
Rewritten(file, u, h) ==
    IF LinesOf(file, u) # {} THEN RewriteLines(file, u, h)
    ELSE Append(RewriteLines(file, u, h), NewLine(u, h, DefaultAging))
=============================================================================
