------------------------------- MODULE AddRace -------------------------------
(* Several adduser processes (services/ir0_adduser.c) at once.  Each looks  *)
(* up its name, picks a uid, appends to /etc/passwd and /etc/shadow and     *)
(* rewrites /etc/group twice through the one /etc/group.new, under no lock. *)
(* /etc/passwd can be read here: AccountDb has an adduser that cannot.      *)
EXTENDS Naturals, SequencesExt

CONSTANTS
    Proc,       \* the adduser processes
    Nobody,     \* who wrote the lines of the staged image
    NewName,    \* the names they may be given
    PartOf,     \* pairs <<m, u>> such that the name u is a substring of m
    FirstUid,   \* 1000 in next_uid
    UidLimit,   \* 2^32: uid_t has 32 bits
    BasePasswd, \* the contents of /etc/passwd the system may start with
    BaseGroup,  \* the contents of /etc/group the system may start with
    HeaderSize, \* the bytes of a line of /etc/group up to its members
    NameSize,   \* the bytes of each name
    MembersMax, \* 255: the bytes of a list of members that are read
    Torn,       \* what is left of a line or a name that was cut in the middle
    NoFile      \* /etc/group.new does not exist

Names == DOMAIN NameSize
GroupLine == [name : DOMAIN HeaderSize, members : Seq(Names)]

ASSUME RaceAssumption ==
    /\ FirstUid \in Nat /\ UidLimit \in Nat /\ FirstUid < UidLimit
    /\ IsFiniteSet(Proc) /\ Nobody \notin Proc /\ NoFile \notin Nat
    /\ NewName \subseteq Names /\ Torn \in Names
    /\ {Torn, "users", "wheel"} \subseteq DOMAIN HeaderSize
    /\ \A u \in NewName : <<u, u>> \in PartOf
ASSUME BaseAssumption ==
    /\ \A file \in BasePasswd :
           /\ file \in Seq([name : Names, uid : 0..(UidLimit - 1), by : {Nobody}])
           /\ \A i, j \in DOMAIN file :
                  i # j => file[i].name # file[j].name /\ file[i].uid # file[j].uid
    /\ BaseGroup \subseteq Seq(GroupLine)

VARIABLES
    passwd,     \* /etc/passwd: lines [name, uid, by]
    shadow,     \* /etc/shadow: lines [name, by], by whose password it holds
    content,    \* the contents of the files behind the two names below
    group,      \* the file /etc/group names
    tmp,        \* the file /etc/group.new names, or NoFile
    pc, user, uid, \* of each process: its step, name and uid
    target,     \* the group it adds its user to: users, then wheel
    src, dst,   \* the files it has open
    buf,        \* what it will write to dst
    met,        \* history: who was between lookup and append with whom
    crossed,    \* history: who was in ensure_group_member with whom
    blind,      \* history: who could not open /etc/group, or read it to its end
    short       \* history: who did not read a list of members to its end

dbvars == <<passwd, shadow>>
filevars == <<content, group, tmp>>
procvars == <<user, uid, target, src, dst, buf>>
vars == <<dbvars, filevars, pc, procvars, met, crossed, blind, short>>

File == 1..(2 + 2 * Cardinality(Proc))
Adding == {"uid", "passwd"}
Regrouping == {"dst", "read", "flush", "rename"}

Init ==
    /\ passwd \in BasePasswd
    /\ shadow = <<>>
    /\ content \in {[f \in File |-> IF f = 1 THEN g ELSE <<>>] : g \in BaseGroup}
    /\ group = 1
    /\ tmp = NoFile
    /\ pc = [p \in Proc |-> "lookup"]
    /\ user \in [Proc -> NewName]
    /\ uid = [p \in Proc |-> 0]
    /\ target = [p \in Proc |-> "users"]
    /\ src = [p \in Proc |-> NoFile]
    /\ dst = [p \in Proc |-> NoFile]
    /\ buf = [p \in Proc |-> <<>>]
    /\ met = {}
    /\ crossed = {}
    /\ blind = {}
    /\ short = {}

\* p goes on to label; the histories note who else is where p is now.
Goto(p, label) ==
    /\ pc' = [pc EXCEPT ![p] = label]
    /\ met' = met \cup {{p, q} : q \in {r \in Proc \ {p} :
                  label \in Adding /\ pc[r] \in Adding}}
    /\ crossed' = crossed \cup {{p, q} : q \in {r \in Proc \ {p} :
                  label \in Regrouping /\ pc[r] \in Regrouping}}

----------------------------------------------------------------------------
(* main: the lookup, the two prompts for the password, then the appends      *)

Lookup(p) ==
    /\ pc[p] = "lookup"
    /\ Goto(p, IF \E i \in DOMAIN passwd : passwd[i].name = user[p] THEN "refused" ELSE "uid")
    /\ UNCHANGED <<dbvars, filevars, procvars, blind, short>>

\* A mistake: the largest uid in use instead of the next one.
NextUidInUse ==
    FoldLeft(LAMBDA next, line : IF line.uid >= next THEN line.uid ELSE next,
             FirstUid, passwd)

\* next_uid, line by line in uid_t: the successor of the largest uid is 0.
NextUid ==
    LET next[n \in 0..Len(passwd)] ==
            IF n = 0 THEN FirstUid
            ELSE IF passwd[n].uid >= next[n - 1] THEN (passwd[n].uid + 1) % UidLimit
            ELSE next[n - 1]
    IN  next[Len(passwd)]

PickUid(p) ==
    /\ pc[p] = "uid"
    /\ uid' = [uid EXCEPT ![p] = NextUid]
    /\ Goto(p, "passwd")
    /\ UNCHANGED <<dbvars, filevars, user, target, src, dst, buf, blind, short>>

\* A mistake: O_TRUNC where append_line has O_APPEND.
AppendPasswdTruncating(p) ==
    /\ pc[p] = "passwd"
    /\ passwd' = <<[name |-> user[p], uid |-> uid[p], by |-> p]>>
    /\ Goto(p, "shadow")
    /\ UNCHANGED <<shadow, filevars, procvars, blind, short>>

\* append_line: the one write of an O_APPEND descriptor goes to the end.
AppendPasswd(p) ==
    /\ pc[p] = "passwd"
    /\ passwd' = Append(passwd, [name |-> user[p], uid |-> uid[p], by |-> p])
    /\ Goto(p, "shadow")
    /\ UNCHANGED <<shadow, filevars, procvars, blind, short>>

AppendShadow(p) ==
    /\ pc[p] = "shadow"
    /\ shadow' = Append(shadow, [name |-> user[p], by |-> p])
    /\ Goto(p, "src")
    /\ UNCHANGED <<passwd, filevars, procvars, blind, short>>

----------------------------------------------------------------------------
(* ensure_group_member *)

\* A file that cannot be opened is taken for one with no lines.
OpenSrc(p) ==
    /\ pc[p] = "src"
    /\ \/ src' = [src EXCEPT ![p] = group] /\ UNCHANGED blind
       \/ blind' = blind \cup {p} /\ UNCHANGED src
    /\ Goto(p, "dst")
    /\ UNCHANGED <<dbvars, filevars, user, uid, target, dst, buf, short>>

Used == {group, tmp} \cup {src[p] : p \in Proc} \cup {dst[p] : p \in Proc}

\* fopen("/etc/group.new", "w"): the file another adduser has open under that
\* name is truncated and shared.
OpenDst(p) ==
    /\ pc[p] = "dst"
    /\ LET f == IF tmp = NoFile THEN CHOOSE n \in File : n \notin Used ELSE tmp
       IN  /\ content' = [content EXCEPT ![f] = <<>>]
           /\ tmp' = f
           /\ dst' = [dst EXCEPT ![p] = f]
    /\ Goto(p, "read")
    /\ UNCHANGED <<dbvars, group, user, uid, target, src, buf, blind, short>>

ListSize(names) == FoldLeft(LAMBDA n, name : n + NameSize[name] + 1, 0, names) - 1

\* ir0_auth_field into members[256]: a longer list is cut, mostly inside a name.
Seen(names) ==
    LET fit == {n \in 0..Len(names) : n = 0 \/ ListSize(SubSeq(names, 1, n)) <= MembersMax}
        whole == CHOOSE n \in fit : \A k \in fit : k <= n
    IN  IF whole = Len(names) THEN names
        ELSE Append(SubSeq(names, 1, whole), Torn)

\* A mistake: the members of the group are replaced by the user.
CopyForgetting(file, g, u) ==
    LET mine == {i \in DOMAIN file : file[i].name = g}
    IN  [i \in DOMAIN file |->
            IF i \in mine THEN [file[i] EXCEPT !.members = <<u>>] ELSE file[i]]
        \o IF mine = {} THEN <<[name |-> g, members |-> <<u>>]>> ELSE <<>>

\* A mistake: a group without a line is left out.
CopyAsIs(file, g, u) ==
    [i \in DOMAIN file |->
        IF file[i].name = g THEN [file[i] EXCEPT !.members = Append(@, u)] ELSE file[i]]

\* The copy of a file with u added to group g: to its lines up to the first one
\* in whose members strstr finds u, or on a line of its own.
Copy(file, g, u) ==
    LET mine == {i \in DOMAIN file : file[i].name = g}
        has(i) == \E n \in mine : n <= i /\
                      \E m \in ToSet(Seen(file[n].members)) : <<m, u>> \in PartOf
    IN  [i \in DOMAIN file |->
            IF i \in mine /\ ~ has(i)
            THEN [file[i] EXCEPT !.members = Append(Seen(@), u)] ELSE file[i]]
        \o IF mine = {} THEN <<[name |-> g, members |-> <<u>>]>> ELSE <<>>

\* Some list of members of the group is longer than is read.
LongList(file, g) ==
    \E i \in DOMAIN file : file[i].name = g /\ ~ (ListSize(file[i].members) <= MembersMax)

\* The file p reads, without the lines hidden by a read error, which is taken for
\* the end of the file.
Opened(p) == IF src[p] = NoFile THEN <<>> ELSE content[src[p]]
LinesRead(p, n) == SubSeq(Opened(p), 1, n)

\* stdio reads a file of this size at once, or a part of it and then fails, and
\* keeps what is to be written.
ReadGroup(p) ==
    /\ pc[p] = "read"
    /\ \E n \in 0..Len(Opened(p)) :
           /\ buf' = [buf EXCEPT ![p] = Copy(LinesRead(p, n), target[p], user[p])]
           /\ short' = short \cup {q \in {p} : LongList(LinesRead(p, n), target[p])}
           /\ blind' = blind \cup {q \in {p} : n < Len(Opened(p))}
    /\ src' = [src EXCEPT ![p] = NoFile]
    /\ Goto(p, "flush")
    /\ UNCHANGED <<dbvars, filevars, user, uid, target, dst>>

LineSize(line) ==
    HeaderSize[line.name] +
        (IF line.members = <<>> THEN 1 ELSE ListSize(line.members) + 1)
Size(file) == FoldLeft(LAMBDA n, line : n + LineSize(line), 0, file)

\* What shows beyond the first n bytes of a file: the rest of the line they end
\* in, and the lines after it.
Beyond(file, n) ==
    LET start(i) == Size(SubSeq(file, 1, i - 1))
        whole == {i \in DOMAIN file : start(i) >= n}
        cut == {i \in DOMAIN file : start(i) < n /\ start(i) + LineSize(file[i]) > n}
    IN  (IF cut = {} THEN <<>> ELSE <<[name |-> Torn, members |-> <<>>]>>)
        \o SubSeq(file, Len(file) - Cardinality(whole) + 1, Len(file))

\* fflush: one write at the start of the file, over what is there by now.
Flush(p) ==
    /\ pc[p] = "flush"
    /\ content' = [content EXCEPT ![dst[p]] = buf[p] \o Beyond(@, Size(buf[p]))]
    /\ dst' = [dst EXCEPT ![p] = NoFile]
    /\ buf' = [buf EXCEPT ![p] = <<>>]
    /\ Goto(p, "rename")
    /\ UNCHANGED <<dbvars, group, tmp, user, uid, target, src, blind, short>>

\* rename of whatever /etc/group.new names: maybe another adduser's copy.
Rename(p) ==
    /\ pc[p] = "rename"
    /\ tmp # NoFile
    /\ group' = tmp
    /\ tmp' = NoFile
    /\ \/ target[p] = "users" /\ target' = [target EXCEPT ![p] = "wheel"] /\ Goto(p, "src")
       \/ target[p] = "wheel" /\ UNCHANGED target /\ Goto(p, "done")
    /\ UNCHANGED <<dbvars, content, user, uid, src, dst, buf, blind, short>>

\* rename finds no /etc/group.new, or any call of ensure_group_member fails:
\* whatever has that name is removed and adduser reports the failure.
Fail(p) ==
    /\ pc[p] \in Regrouping
    /\ tmp' = IF pc[p] = "dst" THEN tmp ELSE NoFile
    /\ Goto(p, "failed")
    /\ src' = [src EXCEPT ![p] = NoFile]
    /\ dst' = [dst EXCEPT ![p] = NoFile]
    /\ buf' = [buf EXCEPT ![p] = <<>>]
    /\ UNCHANGED <<dbvars, content, group, user, uid, target, blind, short>>

\* A kill, or a failure of main itself, at any step.
Die(p) ==
    /\ pc[p] \notin {"refused", "done", "failed"}
    /\ Goto(p, "failed")
    /\ src' = [src EXCEPT ![p] = NoFile]
    /\ dst' = [dst EXCEPT ![p] = NoFile]
    /\ buf' = [buf EXCEPT ![p] = <<>>]
    /\ UNCHANGED <<dbvars, filevars, user, uid, target, blind, short>>

Next ==
    \E p \in Proc :
        \/ Lookup(p) \/ PickUid(p) \/ AppendPasswd(p) \/ AppendShadow(p)
        \/ OpenSrc(p) \/ OpenDst(p) \/ ReadGroup(p) \/ Flush(p) \/ Rename(p)
        \/ Fail(p) \/ Die(p)

Spec == Init /\ [][Next]_vars

----------------------------------------------------------------------------
\* However the appends of several adduser processes fall, one that reports its
\* account created has its line in /etc/passwd, with the uid it reports, and its
\* password in /etc/shadow.
CreatedIsThere ==
    \A p \in Proc : pc[p] = "done" =>
        /\ \E i \in DOMAIN passwd : passwd[i] = [name |-> user[p], uid |-> uid[p], by |-> p]
        /\ \E i \in DOMAIN shadow : shadow[i] = [name |-> user[p], by |-> p]

\* A name or a uid comes to be on two lines of /etc/passwd only if two processes
\* were between their lookup and their append at the same time, or if uid_t has
\* wrapped: adduser processes that take turns never do that.
TwinsMet ==
    \A i, j \in DOMAIN passwd :
        i # j /\ (passwd[i].name = passwd[j].name \/ passwd[i].uid = passwd[j].uid)
        => \/ {passwd[i].by, passwd[j].by} \in met
           \/ \E k \in DOMAIN passwd : passwd[k].uid = UidLimit - 1

MembersOf(file, g) ==
    UNION {ToSet(file[i].members) : i \in {k \in DOMAIN file : file[k].name = g}}
GroupsOf(file) == {file[i].name : i \in DOMAIN file}
EtcGroup == content[group]

\* A member of a group is lost, or a group, only by a step of a process that was
\* inside ensure_group_member at the same time as another one, or that could not
\* open /etc/group or read it to its end, or from a list of members longer than is
\* read: what a killed or failed adduser leaves in /etc/group.new does no harm to
\* one that is alone.
LostOnlyInACrossing ==
    [][\A g \in GroupsOf(EtcGroup) : \A m \in MembersOf(EtcGroup, g) \cup {Nobody} :
           \/ /\ g \in GroupsOf(EtcGroup')
              /\ m # Nobody => m \in MembersOf(EtcGroup', g)
           \/ \E p \in Proc : /\ pc'[p] # pc[p]
                              /\ p \in blind \cup UNION crossed'
           \/ m # Nobody /\ LongList(EtcGroup, g)]_vars

\* When adduser reports success its user is in users and in wheel, or its name is
\* part of a member's name there, which strstr cannot tell apart; as long as every
\* adduser was alone and could read /etc/group and its lists of members whole.
AddedIsInGroups ==
    \A p \in Proc : pc[p] = "done" /\ crossed \cup blind \cup short = {} =>
        \A g \in {"users", "wheel"} :
            \E m \in MembersOf(EtcGroup, g) : <<m, user[p]>> \in PartOf

=============================================================================
