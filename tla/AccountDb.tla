------------------------------ MODULE AccountDb ------------------------------
(* adduser (services/ir0_adduser.c) together with any number of passwd(1)   *)
(* processes on the same account files.  adduser takes no lock: it appends  *)
(* to /etc/passwd and /etc/shadow in place.  One adduser runs at a time.    *)
EXTENDS ShadowUpdate

CONSTANTS
    NewName,    \* valid, unreserved names adduser may be given
    FirstUid,   \* 1000 in next_uid
    UidLimit,   \* 2^32: uid_t has 32 bits
    MaxAccounts \* bound: adduser is not started on more accounts

ASSUME DbAssumption ==
    /\ NewName \subseteq Name /\ MaxAccounts \in Nat
    /\ FirstUid \in Nat /\ UidLimit \in Nat /\ FirstUid < UidLimit
    /\ \A file \in InitAccounts : \A i \in DOMAIN file : file[i].uid < UidLimit

VARIABLES
    add,        \* the adduser process: where it is and its locals
    last,       \* history: the hash the last successful passwd(1) gave each user
    blind       \* history: an adduser could not read /etc/passwd to its end

dbvars == <<vars, add, last, blind>>

AddStep == {"idle", "password", "passwd", "openshadow", "shadow", "groups", "done"}
AddType == [pc : AddStep, user : NewName \cup {Absent}, hash : Password \cup {Absent},
            stale : BOOLEAN]
NoAdd == [pc |-> "idle", user |-> Absent, hash |-> Absent, stale |-> FALSE]

DbInit ==
    /\ Init
    /\ add = NoAdd
    /\ last = [u \in Name |-> Absent]
    /\ blind = FALSE

----------------------------------------------------------------------------
(* passwd(1), whose rename leaves the old /etc/shadow without a name: a      *)
(* descriptor adduser has open for appending then writes to nowhere.        *)

Renames(p) == rc[p] # "ok" /\ rc'[p] = "ok"
\* The history after p has renamed.  Users hidden from it by a failed read have
\* no password left that anybody gave them.
Copied(p) == {shadow[i].name : i \in 1..(pos[p] - 1)}
LastAfter(p) ==
    [u \in Name |-> IF u = job[p].target THEN job[p].hash
                    ELSE IF cut[p] /\ u \notin Copied(p) THEN Absent ELSE last[u]]

Passwd ==
    /\ Next
    /\ IF \E p \in Proc : Renames(p)
       THEN LET p == CHOOSE q \in Proc : Renames(q)
            IN  /\ last' = LastAfter(p)
                /\ add' = [add EXCEPT !.stale = @ \/ add.pc = "shadow"]
       ELSE UNCHANGED <<last, add>>
    /\ UNCHANGED blind

----------------------------------------------------------------------------
(* main of adduser *)

AddGoto(label) == add' = [add EXCEPT !.pc = label]
LeaveOthers == UNCHANGED <<tmp, lock, pc, procvars, last>>

\* root names a valid user that has no account yet.  A file that cannot be
\* opened has no accounts, and one a read of which fails ends there.
AddUser ==
    /\ add.pc \in {"idle", "done"}
    /\ Len(accounts) < MaxAccounts
    /\ \E u \in NewName, n \in 0..Len(accounts) :
           /\ AccountByName(SubSeq(accounts, 1, n), u) = Absent
           /\ add' = [NoAdd EXCEPT !.pc = "password", !.user = u]
           /\ blind' = (blind \/ n < Len(accounts))
    /\ UNCHANGED <<accounts, shadow>> /\ LeaveOthers

\* A mistake: /etc/shadow before /etc/passwd, which a failure may leave out.
AddPasswordShadowFirst ==
    /\ add.pc = "password"
    /\ \E h \in Password : add' = [add EXCEPT !.pc = "openshadow", !.hash = h]
    /\ UNCHANGED <<accounts, shadow, blind>> /\ LeaveOthers

\* The same non-empty password twice; then the hash.
AddPassword ==
    /\ add.pc = "password"
    /\ \E h \in Password : add' = [add EXCEPT !.pc = "passwd", !.hash = h]
    /\ UNCHANGED <<accounts, shadow, blind>> /\ LeaveOthers

\* A mistake: the largest uid in use instead of the next one.
NextUidInUse(file) ==
    LET next[n \in 0..Len(file)] ==
            IF n = 0 THEN FirstUid
            ELSE IF file[n].uid >= next[n - 1] THEN file[n].uid ELSE next[n - 1]
    IN  next[Len(file)]

\* next_uid, line by line in uid_t: the successor of the largest uid is 0.
NextUid(file) ==
    LET next[n \in 0..Len(file)] ==
            IF n = 0 THEN FirstUid
            ELSE IF file[n].uid >= next[n - 1] THEN (file[n].uid + 1) % UidLimit
            ELSE next[n - 1]
    IN  next[Len(file)]

\* Home directory, then the line of /etc/passwd, with the uid after those of the
\* lines that could be read.
AppendPasswd ==
    /\ add.pc = "passwd"
    /\ \E n \in 0..Len(accounts) :
           /\ accounts' = Append(accounts,
                 [name |-> add.user, uid |-> NextUid(SubSeq(accounts, 1, n))])
           /\ blind' = (blind \/ n < Len(accounts))
    /\ AddGoto("openshadow")
    /\ UNCHANGED <<shadow>> /\ LeaveOthers

\* append_line opens /etc/shadow and then writes: passwd(1) may rename a new
\* file over it in between.
OpenShadowToAppend ==
    /\ add.pc = "openshadow"
    /\ AddGoto("shadow")
    /\ UNCHANGED <<accounts, shadow, blind>> /\ LeaveOthers

\* A mistake: fopen(path, "w").
AppendShadowTruncating ==
    /\ add.pc = "shadow"
    /\ shadow' = IF add.stale THEN shadow
                 ELSE <<NewLine(add.user, add.hash, DefaultAging)>>
    /\ add' = [add EXCEPT !.pc = "groups", !.hash = Absent, !.stale = FALSE]
    /\ UNCHANGED <<accounts, blind>> /\ LeaveOthers

AppendShadow ==
    /\ add.pc = "shadow"
    /\ shadow' = IF add.stale THEN shadow
                 ELSE Append(shadow, NewLine(add.user, add.hash, DefaultAging))
    /\ add' = [add EXCEPT !.pc = "groups", !.hash = Absent, !.stale = FALSE]
    /\ UNCHANGED <<accounts, blind>> /\ LeaveOthers

\* ensure_group_member for users and for wheel (module AddRace): these files
\* are not touched.
AddToGroups ==
    /\ add.pc = "groups"
    /\ AddGoto("done")
    /\ UNCHANGED <<accounts, shadow, blind>> /\ LeaveOthers

\* Any call may fail, or the process be killed: what was done stays done.
AddFails ==
    /\ add.pc \notin {"idle", "done"}
    /\ add' = NoAdd
    /\ UNCHANGED <<accounts, shadow, blind>> /\ LeaveOthers

Adduser ==
    \/ AddUser \/ AddPassword \/ AppendPasswd \/ OpenShadowToAppend \/ AppendShadow
    \/ AddToGroups \/ AddFails

DbNext == Passwd \/ Adduser

DbSpec == DbInit /\ [][DbNext]_dbvars

----------------------------------------------------------------------------
\* No two lines of /etc/passwd share a name or a uid, however often adduser is
\* killed half way and run again, as long as it could read the file to its end:
\* of a file it cannot open it sees no line, and of one a read of which fails the
\* lines before.  The largest uid_t has no successor: next_uid wraps to 0.
UniqueAccounts ==
    ~ blind => \A i, j \in DOMAIN accounts : i # j =>
        /\ accounts[i].name # accounts[j].name
        /\ \/ accounts[i].uid # accounts[j].uid
           \/ \E k \in DOMAIN accounts : accounts[k].uid = UidLimit - 1

\* Every name in /etc/shadow has an account: adduser writes /etc/passwd first,
\* and passwd(1) only adds a line for an account it has found.
ShadowNamesHaveAccounts ==
    \A i \in DOMAIN shadow : AccountByName(accounts, shadow[i].name) # Absent

\* The password that logs a user in is the one of the last passwd(1) that
\* reported success for that user: no append of a concurrent adduser undoes it,
\* and no other passwd(1) but one whose read of /etc/shadow failed before it had
\* come to that user.
PasswordChangeStays ==
    \A u \in Name : last[u] # Absent => ShadowHash(shadow, u) = last[u]

\* A line of /etc/shadow disappears, or is moved, only when a passwd(1) that has
\* not read it renames its copy over the file: adduser appended it after passwd
\* had come to the end, or a read failed before it.
LinesLostOnlyUnread ==
    [][\A i \in DOMAIN shadow :
           ~ (i \in DOMAIN shadow' /\ shadow'[i].name = shadow[i].name) =>
               \E p \in Proc : pc[p] = "rename" /\ pos[p] <= i]_shadow

\* When adduser reports "account created" the account has a hash in
\* /etc/shadow, so that its user can log in.
AddedHasShadow == add.pc = "done" => ShadowHash(shadow, add.user) # Absent
=============================================================================
