---------------------------- MODULE AddRace_proofs ----------------------------
(* What several adduser processes at once still keep, for any number of     *)
(* them and any account files.                                              *)
EXTENDS AddRace, FiniteSetTheorems, NaturalsInduction, TLAPS

PasswdLine == [name : Names, uid : 0..(UidLimit - 1), by : Proc \cup {Nobody}]

(* Lemmas about numbers *)

\* A set of natural numbers that is not empty has a least element.
LEMMA LeastExists ==
    ASSUME NEW S \in SUBSET Nat, S # {}
    PROVE  \E n \in S : \A k \in S : n <= k
<1>1. OpToRel(<, Nat) = {ss \in Nat \X Nat : ss[1] < ss[2]}
  BY Zenon DEF OpToRel
<1>2. PICK n \in S : \A k \in S : <<k, n>> \notin {ss \in Nat \X Nat : ss[1] < ss[2]}
  <2>1. S \subseteq Nat
    OBVIOUS
  <2>2. \E n \in S : \A k \in S : ~ (<<k, n>> \in OpToRel(<, Nat))
    BY <2>1, NatLessThanWellFounded, WFMin, Zenon
  <2> QED
    BY <1>1, <2>2, Zenon
<1>3. ASSUME NEW k \in S
      PROVE  n <= k
  <2>1. <<k, n>> \in Nat \X Nat
    OBVIOUS
  <2>2. ~ (<<k, n>>[1] < <<k, n>>[2])
    BY <1>2, <2>1, Zenon
  <2> QED
    BY <2>2
<1> QED
  BY <1>3

\* A bounded set of natural numbers that is not empty has a greatest one.
LEMMA GreatestExists ==
    ASSUME NEW N \in Nat, NEW S \in SUBSET (0..N), S # {}
    PROVE  \E n \in S : \A k \in S : k <= n
<1> DEFINE T == {b \in 0..N : \A k \in S : k <= b}
<1>1. N \in T /\ T \in SUBSET Nat
  OBVIOUS
<1>2. PICK b \in T : \A c \in T : b <= c
  BY <1>1, LeastExists
<1>3. b \in S
  <2>1. CASE b = 0
    <3>1. PICK k \in S : TRUE
      OBVIOUS
    <3>2. k <= b /\ k \in 0..N
      BY <1>2
    <3> QED
      BY <2>1, <3>1, <3>2
  <2>2. CASE b # 0
    <3>1. b - 1 \notin T /\ b - 1 \in 0..N
      BY <1>2, <2>2
    <3>2. PICK k \in S : ~ (k <= b - 1)
      BY <3>1
    <3>3. k = b
      BY <1>2, <3>2
    <3> QED
      BY <3>3
  <2> QED
    BY <2>1, <2>2
<1> QED
  BY <1>2, <1>3

\* The remainder of a number below the divisor is the number.
LEMMA SmallRemainder ==
    ASSUME NEW b \in Nat, NEW a \in 0..(b - 1)
    PROVE  a % b = a
OBVIOUS

----------------------------------------------------------------------------
(* next_uid *)

\* The value of next_uid after n lines is what the loop makes of the one before.
Uids(next) ==
    [n \in 0..Len(passwd) |->
        IF n = 0 THEN FirstUid
        ELSE IF passwd[n].uid >= next[n - 1] THEN (passwd[n].uid + 1) % UidLimit
        ELSE next[n - 1]]

\* The recursion of next_uid has a solution, whatever the length of the file.
LEMMA UidsExist ==
    ASSUME passwd \in Seq(PasswdLine)
    PROVE  \E next : next = Uids(next)
<1> DEFINE N == Len(passwd)
           Upto(k, f) == f = [n \in 0..k |->
                IF n = 0 THEN FirstUid
                ELSE IF passwd[n].uid >= f[n - 1] THEN (passwd[n].uid + 1) % UidLimit
                ELSE f[n - 1]]
           Bad == {k \in 0..N : ~ \E f : Upto(k, f)}
<1>1. N \in Nat
  OBVIOUS
<1>2. ASSUME Bad # {}
      PROVE  FALSE
  <2>0. Bad \in SUBSET Nat
    BY <1>1
  <2>1. PICK k \in Bad : \A j \in Bad : k <= j
    <3> HIDE DEF Bad
    <3> QED
      BY <1>2, <2>0, LeastExists
  <2>2. k # 0
    <3>1. Upto(0, [n \in 0..0 |-> FirstUid])
      OBVIOUS
    <3> QED
      BY <3>1
  <2>3. PICK f : Upto(k - 1, f)
    <3>1. k - 1 \in 0..N /\ ~ (k <= k - 1)
      BY <2>1, <2>2
    <3> QED
      BY <2>1, <3>1
  <2> DEFINE g == [n \in 0..k |->
                IF n = 0 THEN FirstUid
                ELSE IF passwd[n].uid >= f[n - 1] THEN (passwd[n].uid + 1) % UidLimit
                ELSE f[n - 1]]
  <2>4. k \in Nat /\ k > 0
    BY <2>1, <2>2
  <2>5. \A n \in 0..(k - 1) : g[n] = f[n]
    BY <2>3, <2>4
  <2>6. \A n \in 0..k : n # 0 => n - 1 \in 0..(k - 1)
    BY <2>4
  <2>7. Upto(k, g)
    BY <2>5, <2>6
  <2> QED
    BY <2>1, <2>7
<1>3. \E f : Upto(N, f)
  BY <1>1, <1>2
<1> QED
  BY <1>3 DEF Uids

\* Unless a line has the last uid there is, next_uid is above every uid.
LEMMA NextUidIsNew ==
    ASSUME passwd \in Seq(PasswdLine)
    PROVE  /\ NextUid \in 0..(UidLimit - 1)
           /\ (\A i \in DOMAIN passwd : passwd[i].uid # UidLimit - 1)
              => \A i \in DOMAIN passwd : passwd[i].uid # NextUid
<1> DEFINE next == CHOOSE f : f = Uids(f)
           N == Len(passwd)
<1>1. next = Uids(next) /\ NextUid = next[N] /\ N \in Nat
  <2>1. next = Uids(next)
    BY UidsExist, Zenon
  <2>2. NextUid = next[N]
    BY DEF Uids, NextUid
  <2>3. N \in Nat
    OBVIOUS
  <2> QED
    BY <2>1, <2>2, <2>3
<1> HIDE DEF next
<1>2. /\ DOMAIN passwd = 1..N
      /\ \A i \in 1..N : passwd[i].uid \in 0..(UidLimit - 1)
  <2>1. DOMAIN passwd = 1..N /\ \A i \in 1..N : passwd[i] \in PasswdLine
    OBVIOUS
  <2> QED
    BY <2>1 DEF PasswdLine
<1>3. /\ next[0] = FirstUid
      /\ \A n \in 1..N :
            next[n] = IF passwd[n].uid >= next[n - 1] THEN (passwd[n].uid + 1) % UidLimit
                      ELSE next[n - 1]
  BY <1>1 DEF Uids
<1> DEFINE Wrong == {n \in 0..N : ~ next[n] \in 0..(UidLimit - 1)}
           Low == {n \in 0..N : \E i \in 1..n : ~ (passwd[i].uid < next[n])}
<1>4. ASSUME Wrong # {}
      PROVE  FALSE
  <2>1. Wrong \in SUBSET Nat
    OBVIOUS
  <2>2. PICK n \in Wrong : \A k \in Wrong : n <= k
    <3> HIDE DEF Wrong
    <3> QED
      BY <1>4, <2>1, LeastExists
  <2>3. n \in 1..N
    BY <1>1, <1>3, <2>2, RaceAssumption
  <2>4. next[n - 1] \in 0..(UidLimit - 1)
    <3>1. n - 1 \in 0..N /\ ~ (n <= n - 1)
      BY <2>3
    <3> QED
      BY <2>2, <3>1
  <2>5. (passwd[n].uid + 1) % UidLimit \in 0..(UidLimit - 1)
    BY <1>2, <2>3, RaceAssumption
  <2> QED
    BY <1>3, <2>2, <2>3, <2>4, <2>5
<1>5. ASSUME \A i \in DOMAIN passwd : passwd[i].uid # UidLimit - 1, Low # {}
      PROVE  FALSE
  <2>1. Low \in SUBSET Nat
    OBVIOUS
  <2>2. PICK n \in Low : \A k \in Low : n <= k
    <3> HIDE DEF Low
    <3> QED
      BY <1>5, <2>1, LeastExists
  <2>3. n \in 1..N
    BY <1>1, <2>2
  <2>4. \A i \in 1..(n - 1) : passwd[i].uid < next[n - 1]
    <3>1. n - 1 \in 0..N /\ ~ (n <= n - 1)
      BY <2>3
    <3> QED
      BY <2>2, <3>1
  <2>5. next[n - 1] \in 0..(UidLimit - 1) /\ passwd[n].uid \in 0..(UidLimit - 2)
    <3>1. n - 1 \in 0..N /\ n \in DOMAIN passwd
      BY <1>2, <2>3
    <3>2. passwd[n].uid \in 0..(UidLimit - 1) /\ passwd[n].uid # UidLimit - 1
      BY <1>2, <1>5, <2>3, <3>1
    <3> QED
      BY <1>4, <3>1, <3>2, RaceAssumption, SMTT(30)
  <2>6. (passwd[n].uid + 1) % UidLimit = passwd[n].uid + 1
    <3>1. passwd[n].uid + 1 \in 0..(UidLimit - 1) /\ UidLimit \in Nat
      BY <2>5, RaceAssumption
    <3> QED
      BY <3>1, SmallRemainder
  <2>8. ASSUME NEW i \in 1..n
        PROVE  passwd[i].uid < next[n]
    <3>1. passwd[n].uid < next[n] /\ next[n - 1] <= next[n]
      BY <1>3, <2>3, <2>5, <2>6, RaceAssumption, SMTT(30)
    <3>2. CASE i = n
      BY <3>1, <3>2
    <3>3. CASE i # n
      <4>1. i \in 1..N /\ i \in 1..(n - 1)
        BY <1>1, <2>3, <3>3
      <4>2. passwd[i].uid < next[n - 1] /\ passwd[i].uid \in Nat
        BY <1>2, <2>4, <4>1, RaceAssumption
      <4>3. n \in 0..N
        BY <2>3
      <4>4. next[n] \in 0..(UidLimit - 1)
        BY <1>4, <4>3
      <4>5. next[n] \in Int /\ next[n - 1] \in Int
        BY <2>5, <4>4, RaceAssumption
      <4> HIDE DEF N
      <4> QED
        BY <3>1, <4>2, <4>5
    <3> QED
      BY <3>2, <3>3
  <2> QED
    BY <2>2, <2>8
<1>6. NextUid \in 0..(UidLimit - 1)
  BY <1>1, <1>4
<1>7. ASSUME \A i \in DOMAIN passwd : passwd[i].uid # UidLimit - 1, NEW i \in DOMAIN passwd
      PROVE  passwd[i].uid # NextUid
  <2>1. ~ (N \in Low)
    BY <1>5, <1>7
  <2>2. passwd[i].uid < NextUid
    BY <1>1, <1>2, <2>1
  <2> QED
    BY <1>2, <1>6, <2>2
<1> QED
  BY <1>6, <1>7

----------------------------------------------------------------------------
(* The lists of members and the copy of /etc/group *)

\* What is read of a list of members is a list of names, the whole one if it fits.
LEMMA SeenNames ==
    ASSUME NEW names \in Seq(Names)
    PROVE  /\ Seen(names) \in Seq(Names)
           /\ ListSize(names) <= MembersMax => Seen(names) = names
<1> DEFINE fit == {n \in 0..Len(names) :
                      n = 0 \/ ListSize(SubSeq(names, 1, n)) <= MembersMax}
           whole == CHOOSE n \in fit : \A k \in fit : k <= n
<1>1. Len(names) \in Nat /\ 0 \in fit /\ fit \in SUBSET (0..Len(names))
  OBVIOUS
<1>2. whole \in fit /\ \A k \in fit : k <= whole
  <2> HIDE DEF fit
  <2>1. \E n \in fit : \A k \in fit : k <= n
    BY <1>1, GreatestExists
  <2> QED
    BY <2>1
<1>3. Seen(names) = IF whole = Len(names) THEN names
                    ELSE Append(SubSeq(names, 1, whole), Torn)
  BY DEF Seen
<1> HIDE DEF whole
<1>4. Seen(names) \in Seq(Names)
  <2>1. whole \in 0..Len(names)
    BY <1>2
  <2>2. SubSeq(names, 1, whole) \in Seq(Names)
    BY <2>1
  <2> QED
    BY <1>3, <2>2, RaceAssumption
<1>5. ASSUME ListSize(names) <= MembersMax
      PROVE  Seen(names) = names
  <2>1. SubSeq(names, 1, Len(names)) = names
    OBVIOUS
  <2>2. Len(names) \in fit
    <3>1. ListSize(SubSeq(names, 1, Len(names))) <= MembersMax
      BY <1>5, <2>1, Zenon
    <3>2. Len(names) \in 0..Len(names)
      BY <1>1
    <3> QED
      BY <3>1, <3>2, Zenon
  <2>3. whole = Len(names)
    BY <1>1, <1>2, <2>2
  <2> QED
    BY <1>3, <2>3
<1> QED
  BY <1>4, <1>5

\* The lines of the copy: those of the file in their places, a member longer or
\* not, and one more for a group that has none.
LEMMA CopyLines ==
    ASSUME NEW file \in Seq(GroupLine), NEW g \in {"users", "wheel"}, NEW u \in NewName
    PROVE  /\ Copy(file, g, u) \in Seq(GroupLine)
           /\ \A i \in DOMAIN file :
                 /\ i \in DOMAIN Copy(file, g, u)
                 /\ \/ Copy(file, g, u)[i] = file[i]
                    \/ /\ file[i].name = g
                       /\ Copy(file, g, u)[i] =
                             [name |-> g, members |-> Append(Seen(file[i].members), u)]
<1> DEFINE mine == {i \in DOMAIN file : file[i].name = g}
           has(i) == \E n \in mine : n <= i /\
                         \E m \in ToSet(Seen(file[n].members)) : <<m, u>> \in PartOf
           old == [i \in DOMAIN file |->
                      IF i \in mine /\ ~ has(i)
                      THEN [file[i] EXCEPT !.members = Append(Seen(@), u)] ELSE file[i]]
           new == IF mine = {} THEN <<[name |-> g, members |-> <<u>>]>> ELSE <<>>
<1>1. Copy(file, g, u) = old \o new
  BY DEF Copy
<1>2. \A i \in DOMAIN file : file[i] \in GroupLine
  OBVIOUS
<1>3. ASSUME NEW i \in DOMAIN file
      PROVE  /\ old[i] \in GroupLine
             /\ \/ old[i] = file[i]
                \/ /\ file[i].name = g
                   /\ old[i] = [name |-> g, members |-> Append(Seen(file[i].members), u)]
  <2>1. file[i] \in GroupLine /\ file[i].members \in Seq(Names)
    BY <1>2 DEF GroupLine
  <2>2. Append(Seen(file[i].members), u) \in Seq(Names)
    BY <2>1, SeenNames, RaceAssumption
  <2>3. [file[i] EXCEPT !.members = Append(Seen(@), u)] \in GroupLine
    BY <2>1, <2>2 DEF GroupLine
  <2>4. file[i].name = g =>
            [file[i] EXCEPT !.members = Append(Seen(@), u)] =
                [name |-> g, members |-> Append(Seen(file[i].members), u)]
    <3>1. \A line \in GroupLine : \A s : line.name = g =>
              [line EXCEPT !.members = s] = [name |-> g, members |-> s]
      BY DEF GroupLine
    <3> QED
      BY <2>1, <3>1
  <2> HIDE DEF has
  <2> QED
    BY <2>1, <2>3, <2>4
<1>4. old \in Seq(GroupLine) /\ Len(old) = Len(file)
  <2>1. DOMAIN file = 1..Len(file) /\ Len(file) \in Nat
    OBVIOUS
  <2>2. DOMAIN old = 1..Len(file) /\ \A i \in 1..Len(file) : old[i] \in GroupLine
    BY <1>3, <2>1
  <2>3. old = [i \in 1..Len(file) |-> old[i]]
    BY <2>1
  <2> HIDE DEF old
  <2> QED
    BY <2>1, <2>2, <2>3
<1>5. new \in Seq(GroupLine)
  <2>1. <<u>> \in Seq(Names)
    BY RaceAssumption
  <2>2. [name |-> g, members |-> <<u>>] \in GroupLine
    BY <2>1, RaceAssumption DEF GroupLine
  <2> QED
    BY <2>2
<1> HIDE DEF old, new
<1>6. old \o new \in Seq(GroupLine) /\ \A i \in DOMAIN file :
          i \in DOMAIN (old \o new) /\ (old \o new)[i] = old[i]
  BY <1>4, <1>5
<1> QED
  BY <1>1, <1>3, <1>6

\* A part of a file is a file, and what is read to the end is all of it.
LEMMA PartOfFile ==
    ASSUME NEW file \in Seq(GroupLine)
    PROVE  /\ \A n \in 0..Len(file) : SubSeq(file, 1, n) \in Seq(GroupLine)
           /\ SubSeq(file, 1, Len(file)) = file
OBVIOUS

\* The copy has every group, and every member but those of a list of g that is
\* longer than is read.
LEMMA CopyKeeps ==
    ASSUME NEW file \in Seq(GroupLine), NEW g \in {"users", "wheel"}, NEW u \in NewName,
           NEW h \in GroupsOf(file)
    PROVE  /\ h \in GroupsOf(Copy(file, g, u))
           /\ ~ (h = g /\ LongList(file, g)) =>
                 MembersOf(file, h) \subseteq MembersOf(Copy(file, g, u), h)
<1> DEFINE copy == Copy(file, g, u)
<1>0. \A i \in DOMAIN file :
         /\ i \in DOMAIN copy
         /\ \/ copy[i] = file[i]
            \/ /\ file[i].name = g
               /\ copy[i] = [name |-> g, members |-> Append(Seen(file[i].members), u)]
  BY CopyLines, ZenonT(30)
<1>1. \A i \in DOMAIN file : file[i] \in GroupLine
  OBVIOUS
<1>2. \A i \in DOMAIN file : i \in DOMAIN copy /\ copy[i].name = file[i].name
  <2>1. SUFFICES ASSUME NEW i \in DOMAIN file
                 PROVE  i \in DOMAIN copy /\ copy[i].name = file[i].name
    OBVIOUS
  <2> HIDE DEF copy
  <2>2. CASE copy[i] = file[i]
    BY <1>0, <2>2
  <2>3. CASE copy[i] # file[i]
    <3>1. /\ file[i].name = g /\ i \in DOMAIN copy
          /\ copy[i] = [name |-> g, members |-> Append(Seen(file[i].members), u)]
      BY <1>0, <2>3, Zenon
    <3> QED
      BY <3>1
  <2> QED
    BY <2>2, <2>3
<1>3. h \in GroupsOf(copy)
  <2> HIDE DEF copy
  <2> QED
    BY <1>2 DEF GroupsOf
<1>4. ASSUME ~ (h = g /\ LongList(file, g)), NEW m \in MembersOf(file, h)
      PROVE  m \in MembersOf(copy, h)
  <2>1. PICK i \in DOMAIN file : file[i].name = h /\ m \in ToSet(file[i].members)
    BY <1>4 DEF MembersOf
  <2>2. file[i] \in GroupLine /\ file[i].members \in Seq(Names)
    BY <1>1 DEF GroupLine
  <2>3. m \in ToSet(copy[i].members)
    <3>1. CASE copy[i] = file[i]
      BY <2>1, <3>1
    <3>2. CASE /\ file[i].name = g
               /\ copy[i] = [name |-> g, members |-> Append(Seen(file[i].members), u)]
      <4>1. Seen(file[i].members) = file[i].members
        BY <1>4, <2>1, <2>2, <3>2, SeenNames DEF LongList
      <4>2. copy[i].members = Append(file[i].members, u)
        BY <2>2, <3>2, <4>1 DEF GroupLine
      <4> HIDE DEF copy
      <4>3. PICK k \in DOMAIN file[i].members : m = file[i].members[k]
        BY <2>1 DEF ToSet
      <4>4. /\ k \in DOMAIN Append(file[i].members, u)
            /\ Append(file[i].members, u)[k] = m
        BY <2>2, <4>3
      <4> QED
        BY <4>2, <4>4 DEF ToSet
    <3> QED
      BY <1>0, <3>1, <3>2, Zenon
  <2> HIDE DEF copy
  <2> QED
    BY <1>2, <2>1, <2>3 DEF MembersOf
<1> QED
  BY <1>3, <1>4

\* In the copy g has a member of whose name u is a part, unless a list of g is
\* longer than is read.
LEMMA CopyAdds ==
    ASSUME NEW file \in Seq(GroupLine), NEW g \in {"users", "wheel"}, NEW u \in NewName,
           ~ LongList(file, g)
    PROVE  \E m \in MembersOf(Copy(file, g, u), g) : <<m, u>> \in PartOf
<1> DEFINE copy == Copy(file, g, u)
           mine == {i \in DOMAIN file : file[i].name = g}
           part(n) == \E m \in ToSet(Seen(file[n].members)) : <<m, u>> \in PartOf
           has(i) == \E n \in mine : n <= i /\ part(n)
           old == [i \in DOMAIN file |->
                      IF i \in mine /\ ~ has(i)
                      THEN [file[i] EXCEPT !.members = Append(Seen(@), u)] ELSE file[i]]
           new == IF mine = {} THEN <<[name |-> g, members |-> <<u>>]>> ELSE <<>>
<1>1. copy = old \o new
  BY DEF Copy
<1>2. /\ DOMAIN file = 1..Len(file) /\ Len(file) \in Nat
      /\ \A i \in DOMAIN file : /\ file[i] \in GroupLine
                                /\ i \in DOMAIN copy
  <2>1. \A i \in DOMAIN file : i \in DOMAIN copy
    BY CopyLines, Zenon
  <2> HIDE DEF copy
  <2> QED
    BY <2>1
<1>3. \A n \in mine : Seen(file[n].members) = file[n].members
  BY <1>2, SeenNames DEF GroupLine, LongList
<1>4. \A i \in DOMAIN file : copy[i] = old[i]
  <2>1. old \in Seq(GroupLine \cup {old[i] : i \in DOMAIN file}) /\ Len(old) = Len(file)
    <3>1. DOMAIN old = 1..Len(file)
      BY <1>2
    <3>2. old = [i \in 1..Len(file) |-> old[i]]
      BY <1>2
    <3> HIDE DEF old
    <3> QED
      BY <1>2, <3>1, <3>2
  <2>2. new \in Seq({[name |-> g, members |-> <<u>>]})
    <3>1. new = <<>> \/ new = <<[name |-> g, members |-> <<u>>]>>
      OBVIOUS
    <3> DEFINE line == [name |-> g, members |-> <<u>>]
    <3>2. <<>> \in Seq({line}) /\ <<line>> \in Seq({line})
      <4> HIDE DEF line
      <4> QED
        OBVIOUS
    <3> HIDE DEF new
    <3> QED
      BY <3>1, <3>2
  <2> HIDE DEF old, new
  <2> QED
    BY <1>1, <1>2, <2>1, <2>2
<1>5. CASE mine = {}
  <2>1. file = <<>> \/ Len(file) > 0
    BY <1>2
  <2>2. new = <<[name |-> g, members |-> <<u>>]>>
    BY <1>5
  <2>3. old = file
    BY <1>5
  <2>4. copy = Append(file, [name |-> g, members |-> <<u>>])
    BY <1>1, <2>2, <2>3
  <2>5. /\ Len(file) + 1 \in DOMAIN copy
        /\ copy[Len(file) + 1] = [name |-> g, members |-> <<u>>]
    BY <1>2, <2>4
  <2>6. u \in ToSet(<<u>>)
    BY DEF ToSet
  <2> HIDE DEF copy
  <2>7. u \in MembersOf(copy, g)
    BY <2>5, <2>6 DEF MembersOf
  <2> QED
    BY <2>7, RaceAssumption DEF copy
<1>6. CASE \E n \in mine : part(n)
  <2>1. PICK n \in mine : part(n) /\ \A k \in mine : part(k) => n <= k
    <3> DEFINE S == {n \in mine : part(n)}
    <3>1. S \in SUBSET Nat /\ S # {}
      <4> HIDE DEF part
      <4> QED
        BY <1>2, <1>6
    <3>2. \E n \in S : \A k \in S : n <= k
      <4> HIDE DEF S
      <4> QED
        BY <3>1, LeastExists
    <3> QED
      BY <3>2
  <2>2. has(n) /\ n \in DOMAIN file
    BY <1>2, <2>1
  <2>3. copy[n] = file[n]
    BY <1>4, <2>2
  <2>4. PICK m \in ToSet(file[n].members) : <<m, u>> \in PartOf
    BY <1>3, <2>1
  <2> HIDE DEF copy
  <2>5. m \in MembersOf(copy, g)
    BY <1>2, <2>1, <2>2, <2>3, <2>4 DEF MembersOf
  <2> QED
    BY <2>4, <2>5 DEF copy
<1>7. CASE mine # {} /\ ~ \E n \in mine : part(n)
  <2>1. PICK n \in mine : TRUE
    BY <1>7
  <2>2. n \in DOMAIN file /\ ~ has(n)
    BY <1>7, <2>1
  <2>3. copy[n] = [file[n] EXCEPT !.members = Append(Seen(@), u)]
    BY <1>4, <2>1, <2>2
  <2>4. file[n] \in GroupLine /\ file[n].members \in Seq(Names) /\ file[n].name = g
    BY <1>2, <2>1 DEF GroupLine
  <2>5. copy[n].name = g /\ copy[n].members = Append(file[n].members, u)
    BY <1>3, <2>1, <2>3, <2>4 DEF GroupLine
  <2>6. u \in ToSet(Append(file[n].members, u))
    <3>1. /\ Len(file[n].members) + 1 \in DOMAIN Append(file[n].members, u)
          /\ Append(file[n].members, u)[Len(file[n].members) + 1] = u
      BY <2>4
    <3> QED
      BY <3>1 DEF ToSet
  <2> HIDE DEF copy
  <2>7. u \in MembersOf(copy, g)
    BY <1>2, <2>2, <2>5, <2>6 DEF MembersOf
  <2> QED
    BY <2>7, RaceAssumption DEF copy
<1> QED
  BY <1>5, <1>6, <1>7

----------------------------------------------------------------------------
(* Files *)

\* There is always a file that has no name and that nobody has open.
LEMMA FreeFile ==
    ASSUME DOMAIN src = Proc, DOMAIN dst = Proc, tmp = NoFile
    PROVE  \E f \in File : f \notin Used
<1> DEFINE S == {src[p] : p \in Proc}
           D == {dst[p] : p \in Proc}
           n == Cardinality(Proc)
<1>1. IsFiniteSet(Proc) /\ n \in Nat
  BY RaceAssumption, FS_CardinalityType
<1>2. IsFiniteSet(S) /\ Cardinality(S) <= n /\ Cardinality(S) \in Nat
  <2>1. [p \in Proc |-> src[p]] \in Surjection(Proc, S)
    BY DEF Surjection
  <2> HIDE DEF S
  <2> QED
    BY <1>1, <2>1, FS_Surjection, FS_CardinalityType
<1>3. IsFiniteSet(D) /\ Cardinality(D) <= n /\ Cardinality(D) \in Nat
  <2>1. [p \in Proc |-> dst[p]] \in Surjection(Proc, D)
    BY DEF Surjection
  <2> HIDE DEF D
  <2> QED
    BY <1>1, <2>1, FS_Surjection, FS_CardinalityType
<1>4. Used = {group, tmp} \cup S \cup D
  BY DEF Used
<1> HIDE DEF S, D, n
<1>5. /\ IsFiniteSet(S \cup D)
      /\ Cardinality(S \cup D) \in Nat /\ Cardinality(S \cup D) <= n + n
  <2>1. IsFiniteSet(S \cap D) /\ Cardinality(S \cap D) \in Nat
    BY <1>2, FS_Intersection, FS_CardinalityType
  <2>2. /\ IsFiniteSet(S \cup D)
        /\ Cardinality(S \cup D) = Cardinality(S) + Cardinality(D) - Cardinality(S \cap D)
    BY <1>2, <1>3, FS_Union
  <2>3. Cardinality(S \cup D) \in Nat
    BY <2>2, FS_CardinalityType
  <2> QED
    BY <1>1, <1>2, <1>3, <2>1, <2>2, <2>3
<1> DEFINE U == (S \cup D) \cup {group}
<1>6. IsFiniteSet(U) /\ Cardinality(U) \in Nat /\ Cardinality(U) <= n + n + 1
  <2>1. /\ IsFiniteSet(U)
        /\ Cardinality(U) = IF group \in S \cup D THEN Cardinality(S \cup D)
                            ELSE Cardinality(S \cup D) + 1
    BY <1>5, FS_AddElement
  <2> QED
    BY <1>1, <1>5, <2>1
<1>7. IsFiniteSet(File) /\ Cardinality(File) = n + n + 2 /\ NoFile \notin File
  <2>1. File = 1..(n + n + 2)
    BY <1>1 DEF File, n
  <2> QED
    BY <1>1, <2>1, FS_Interval, RaceAssumption
<1>8. ~ (File \subseteq U)
  <2> HIDE DEF U
  <2> QED
    BY <1>1, <1>6, <1>7, FS_Subset
<1> QED
  BY <1>4, <1>7, <1>8

\* What shows of a file beyond its first n bytes are lines, and none of an empty
\* file.
LEMMA BeyondLines ==
    ASSUME NEW file \in Seq(GroupLine), NEW n
    PROVE  /\ Beyond(file, n) \in Seq(GroupLine)
           /\ file = <<>> => Beyond(file, n) = <<>>
<1> DEFINE start(i) == Size(SubSeq(file, 1, i - 1))
           whole == {i \in DOMAIN file : start(i) >= n}
           cut == {i \in DOMAIN file : start(i) < n /\ start(i) + LineSize(file[i]) > n}
           first == IF cut = {} THEN <<>> ELSE <<[name |-> Torn, members |-> <<>>]>>
           rest == SubSeq(file, Len(file) - Cardinality(whole) + 1, Len(file))
<1>1. Beyond(file, n) = first \o rest
  BY DEF Beyond
<1>2. Len(file) \in Nat /\ DOMAIN file = 1..Len(file)
  OBVIOUS
<1>3. Cardinality(whole) \in 0..Len(file)
  <2>1. whole \in SUBSET (1..Len(file))
    BY <1>2
  <2> HIDE DEF whole
  <2>2. IsFiniteSet(1..Len(file)) /\ Cardinality(1..Len(file)) = Len(file)
    BY <1>2, FS_Interval
  <2>3. IsFiniteSet(whole) /\ Cardinality(whole) <= Len(file)
    BY <2>1, <2>2, FS_Subset
  <2>4. Cardinality(whole) \in Nat
    BY <2>3, FS_CardinalityType
  <2> QED
    BY <1>2, <2>3, <2>4
<1>4. rest \in Seq(GroupLine)
  <2> HIDE DEF whole
  <2> QED
    BY <1>2, <1>3
<1>5. first \in Seq(GroupLine)
  <2> DEFINE line == [name |-> Torn, members |-> <<>>]
  <2>1. line \in GroupLine
    BY RaceAssumption DEF GroupLine
  <2>2. first = <<>> \/ first = <<line>>
    OBVIOUS
  <2> HIDE DEF first, line
  <2>3. <<>> \in Seq(GroupLine) /\ <<line>> \in Seq(GroupLine)
    BY <2>1
  <2> QED
    BY <2>2, <2>3, Zenon
<1>6. ASSUME file = <<>>
      PROVE  first = <<>> /\ rest = <<>>
  <2>1. DOMAIN file = {} /\ Len(file) = 0
    BY <1>6
  <2>2. whole = {} /\ cut = {}
    BY <2>1, Zenon
  <2>3. Cardinality(whole) = 0
    BY <2>2, FS_EmptySet
  <2>4. first = <<>>
    BY <2>2
  <2> HIDE DEF whole
  <2> QED
    BY <2>1, <2>3, <2>4
<1> HIDE DEF first, rest
<1>7. first \o rest \in Seq(GroupLine) /\ <<>> \o <<>> = <<>>
  BY <1>4, <1>5
<1> QED
  BY <1>1, <1>6, <1>7

----------------------------------------------------------------------------
(* Type correctness *)

Label == {"lookup", "refused", "uid", "passwd", "shadow", "src", "dst", "read", "flush",
          "rename", "done", "failed"}

TypeOK ==
    /\ passwd \in Seq(PasswdLine)
    /\ shadow \in Seq([name : NewName, by : Proc])
    /\ content \in [File -> Seq(GroupLine)]
    /\ group \in File /\ tmp \in File \cup {NoFile} /\ tmp # group
    /\ pc \in [Proc -> Label]
    /\ user \in [Proc -> NewName]
    /\ uid \in [Proc -> 0..(UidLimit - 1)]
    /\ target \in [Proc -> {"users", "wheel"}]
    /\ src \in [Proc -> File \cup {NoFile}]
    /\ dst \in [Proc -> File \cup {NoFile}]
    /\ buf \in [Proc -> Seq(GroupLine)]
    /\ \A p \in Proc : pc[p] \in {"read", "flush"} => dst[p] \in File

\* The account files the system starts with are of that type.
LEMMA InitType == Init => TypeOK
<1> SUFFICES ASSUME Init PROVE TypeOK
  OBVIOUS
<1>1. 1 \in File /\ NoFile # 1
  <2>1. Cardinality(Proc) \in Nat
    BY RaceAssumption, FS_CardinalityType
  <2> QED
    BY <2>1, RaceAssumption DEF File
<1>2. passwd \in Seq(PasswdLine)
  <2> DEFINE Base == [name : Names, uid : 0..(UidLimit - 1), by : {Nobody}]
  <2>1. passwd \in Seq(Base)
    BY BaseAssumption DEF Init
  <2>2. Base \subseteq PasswdLine
    BY DEF PasswdLine
  <2> HIDE DEF Base
  <2>3. /\ Len(passwd) \in Nat /\ passwd = [i \in 1..Len(passwd) |-> passwd[i]]
        /\ \A i \in 1..Len(passwd) : passwd[i] \in PasswdLine
    BY <2>1, <2>2
  <2> QED
    BY <2>3
<1>3. content \in [File -> Seq(GroupLine)]
  <2>1. PICK g \in BaseGroup : content = [f \in File |-> IF f = 1 THEN g ELSE <<>>]
    BY DEF Init
  <2>2. g \in Seq(GroupLine) /\ <<>> \in Seq(GroupLine)
    BY BaseAssumption
  <2> QED
    BY <2>1, <2>2
<1> QED
  BY <1>1, <1>2, <1>3, RaceAssumption DEF Init, TypeOK, Label

\* Every step keeps the types; a rename leaves /etc/group.new without a file.
LEMMA NextType == TypeOK /\ [Next]_vars => TypeOK'
<1> SUFFICES ASSUME TypeOK, [Next]_vars PROVE TypeOK'
  OBVIOUS
<1>0. CASE UNCHANGED vars
  BY <1>0 DEF vars, dbvars, filevars, procvars, TypeOK
<1> SUFFICES ASSUME NEW p \in Proc,
                    \/ Lookup(p) \/ PickUid(p) \/ AppendPasswd(p) \/ AppendShadow(p)
                    \/ OpenSrc(p) \/ OpenDst(p) \/ ReadGroup(p) \/ Flush(p) \/ Rename(p)
                    \/ Fail(p) \/ Die(p)
             PROVE  TypeOK'
  BY <1>0 DEF Next
<1> USE DEF TypeOK, Label, Goto, dbvars, filevars, procvars
<1>1. CASE Lookup(p)
  BY <1>1 DEF Lookup
<1>2. CASE PickUid(p)
  <2>1. NextUid \in 0..(UidLimit - 1)
    BY NextUidIsNew
  <2> QED
    BY <1>2, <2>1 DEF PickUid
<1>3. CASE AppendPasswd(p)
  <2>1. [name |-> user[p], uid |-> uid[p], by |-> p] \in PasswdLine
    BY RaceAssumption DEF PasswdLine
  <2> QED
    BY <1>3, <2>1 DEF AppendPasswd
<1>4. CASE AppendShadow(p)
  BY <1>4 DEF AppendShadow
<1>5. CASE OpenSrc(p)
  BY <1>5 DEF OpenSrc
<1>6. CASE OpenDst(p)
  <2>1. PICK f \in File : /\ content' = [content EXCEPT ![f] = <<>>]
                          /\ tmp' = f /\ dst' = [dst EXCEPT ![p] = f] /\ f # group
    <3>1. CASE tmp = NoFile
      <4>1. (CHOOSE n \in File : n \notin Used) \in File \ Used
        BY <3>1, FreeFile
      <4>2. group \in Used
        BY DEF Used
      <4> QED
        BY <1>6, <3>1, <4>1, <4>2 DEF OpenDst
    <3>2. CASE tmp # NoFile
      BY <1>6, <3>2 DEF OpenDst
    <3> QED
      BY <3>1, <3>2
  <2>2. pc' = [pc EXCEPT ![p] = "read"]
    BY <1>6 DEF OpenDst
  <2>3. UNCHANGED <<passwd, shadow, group, user, uid, target, src, buf>>
    BY <1>6 DEF OpenDst
  <2>4. content' \in [File -> Seq(GroupLine)]
    <3>1. <<>> \in Seq(GroupLine)
      OBVIOUS
    <3> QED
      BY <2>1, <3>1
  <2>5. \A q \in Proc : pc'[q] \in {"read", "flush"} => dst'[q] \in File
    BY <2>1, <2>2
  <2> QED
    BY <2>1, <2>2, <2>3, <2>4, <2>5
<1>7. CASE ReadGroup(p)
  <2>1. PICK n \in 0..Len(Opened(p)) :
            buf' = [buf EXCEPT ![p] = Copy(LinesRead(p, n), target[p], user[p])]
    BY <1>7 DEF ReadGroup
  <2>2. buf' \in [Proc -> Seq(GroupLine)]
    <3>1. Opened(p) \in Seq(GroupLine)
      BY DEF Opened
    <3>2. LinesRead(p, n) \in Seq(GroupLine)
      BY <2>1, <3>1, PartOfFile DEF LinesRead
    <3>3. target[p] \in {"users", "wheel"} /\ user[p] \in NewName
      OBVIOUS
    <3>4. Copy(LinesRead(p, n), target[p], user[p]) \in Seq(GroupLine)
      BY <3>2, <3>3, CopyLines
    <3> QED
      BY <2>1, <3>4
  <2> QED
    BY <1>7, <2>2 DEF ReadGroup
<1>8. CASE Flush(p)
  <2>1. dst[p] \in File
    BY <1>8 DEF Flush
  <2>2. buf[p] \o Beyond(content[dst[p]], Size(buf[p])) \in Seq(GroupLine)
    BY <2>1, BeyondLines
  <2>3. content' \in [File -> Seq(GroupLine)]
    BY <1>8, <2>1, <2>2 DEF Flush
  <2> QED
    BY <1>8, <2>3 DEF Flush
<1>9. CASE Rename(p)
  BY <1>9, RaceAssumption DEF Rename
<1>10. CASE Fail(p)
  <2>1. NoFile # group
    BY RaceAssumption DEF File
  <2> QED
    BY <1>10, <2>1 DEF Fail
<1>11. CASE Die(p)
  BY <1>11 DEF Die
<1> QED
  BY <1>1, <1>2, <1>3, <1>4, <1>5, <1>6, <1>7, <1>8, <1>9, <1>10, <1>11

\* The files and the processes' locals are always what the code takes them for,
\* and /etc/group.new is never a second name of /etc/group.
THEOREM TypeCorrect == Spec => []TypeOK
  BY InitType, NextType, PTL DEF Spec

----------------------------------------------------------------------------
(* /etc/passwd and /etc/shadow *)

\* Who is past its appends has its lines, and who is past only the first, that one.
Appended(p) ==
    /\ pc[p] \in Label \ {"lookup", "refused", "uid", "passwd", "failed"} =>
          \E i \in DOMAIN passwd : passwd[i] = [name |-> user[p], uid |-> uid[p], by |-> p]
    /\ pc[p] \in Label \ {"lookup", "refused", "uid", "passwd", "shadow", "failed"} =>
          \E i \in DOMAIN shadow : shadow[i] = [name |-> user[p], by |-> p]

\* The only step that changes what Appended says of another process is an append,
\* which keeps every line.
LEMMA NextAppended ==
    ASSUME TypeOK, [Next]_vars, NEW p \in Proc, Appended(p)
    PROVE  Appended(p)'
<1>0. CASE UNCHANGED vars
  BY <1>0 DEF vars, dbvars, filevars, procvars, Appended
<1> SUFFICES ASSUME NEW q \in Proc,
                    \/ Lookup(q) \/ PickUid(q) \/ AppendPasswd(q) \/ AppendShadow(q)
                    \/ OpenSrc(q) \/ OpenDst(q) \/ ReadGroup(q) \/ Flush(q) \/ Rename(q)
                    \/ Fail(q) \/ Die(q)
             PROVE  Appended(p)'
  BY <1>0 DEF Next
<1> USE DEF Goto, dbvars, filevars, procvars
<1>1. CASE AppendPasswd(q)
  <2> DEFINE line == [name |-> user[q], uid |-> uid[q], by |-> q]
  <2>1. /\ passwd' = Append(passwd, line) /\ shadow' = shadow
        /\ pc' = [pc EXCEPT ![q] = "shadow"] /\ pc[q] = "passwd"
        /\ user' = user /\ uid' = uid
    BY <1>1 DEF AppendPasswd
  <2>2. line \in PasswdLine
    BY RaceAssumption DEF TypeOK, PasswdLine
  <2>3. /\ \A i \in DOMAIN passwd : i \in DOMAIN passwd' /\ passwd'[i] = passwd[i]
        /\ Len(passwd) + 1 \in DOMAIN passwd' /\ passwd'[Len(passwd) + 1] = line
    <3> HIDE DEF line
    <3> QED
      BY <2>1, <2>2 DEF TypeOK
  <2> QED
    BY <2>1, <2>3 DEF Appended, TypeOK
<1>2. CASE AppendShadow(q)
  <2> DEFINE line == [name |-> user[q], by |-> q]
  <2>1. /\ shadow' = Append(shadow, line) /\ passwd' = passwd
        /\ pc' = [pc EXCEPT ![q] = "src"] /\ pc[q] = "shadow"
        /\ user' = user /\ uid' = uid
    BY <1>2 DEF AppendShadow
  <2>2. line \in [name : NewName, by : Proc]
    BY DEF TypeOK
  <2>3. /\ \A i \in DOMAIN shadow : i \in DOMAIN shadow' /\ shadow'[i] = shadow[i]
        /\ Len(shadow) + 1 \in DOMAIN shadow' /\ shadow'[Len(shadow) + 1] = line
    <3> HIDE DEF line
    <3> QED
      BY <2>1, <2>2, SMTT(30) DEF TypeOK
  <2> QED
    BY <2>1, <2>3 DEF Appended, TypeOK, Label
<1>3. CASE \/ Lookup(q) \/ PickUid(q) \/ OpenSrc(q) \/ OpenDst(q) \/ ReadGroup(q)
           \/ Flush(q) \/ Rename(q) \/ Fail(q) \/ Die(q)
  <2>1. UNCHANGED <<passwd, shadow, user>>
    BY <1>3 DEF Lookup, PickUid, OpenSrc, OpenDst, ReadGroup, Flush, Rename, Fail, Die
  <2>2. \/ UNCHANGED uid
        \/ pc[q] = "uid" /\ pc' = [pc EXCEPT ![q] = "passwd"]
           /\ \A r \in Proc : r # q => uid'[r] = uid[r]
    BY <1>3 DEF TypeOK, Lookup, PickUid, OpenSrc, OpenDst, ReadGroup, Flush, Rename, Fail, Die
  <2>3. /\ \A r \in Proc : r # q => pc'[r] = pc[r]
        /\ \/ pc[q] \in {"lookup", "uid"} /\ pc'[q] \in {"refused", "uid", "passwd"}
           \/ pc'[q] = "failed"
           \/ /\ pc[q] \in Regrouping \cup {"src"}
              /\ pc'[q] \in Regrouping \cup {"src", "done"}
    BY <1>3 DEF TypeOK, Lookup, PickUid, OpenSrc, OpenDst, ReadGroup, Flush, Rename, Fail,
         Die, Regrouping
  <2>4. CASE p # q
    <3>1. pc'[p] = pc[p] /\ uid'[p] = uid[p]
      BY <2>2, <2>3, <2>4
    <3> QED
      BY <2>1, <3>1 DEF Appended
  <2>5. CASE p = q
    BY <2>1, <2>2, <2>3, <2>5 DEF Appended, Label, Regrouping, TypeOK
  <2> QED
    BY <2>4, <2>5
<1> QED
  BY <1>1, <1>2, <1>3

\* However the appends of several adduser processes fall, one that reports its
\* account created has its line in /etc/passwd and its password in /etc/shadow.
THEOREM Created == Spec => []CreatedIsThere
<1> DEFINE Inv == \A p \in Proc : Appended(p)
<1>1. Init => Inv
  BY DEF Init, Appended
<1>2. TypeOK /\ Inv /\ [Next]_vars => Inv'
  BY NextAppended
<1>3. Inv => CreatedIsThere
  BY DEF Appended, CreatedIsThere, Label
<1> QED
  BY <1>1, <1>2, <1>3, TypeCorrect, PTL DEF Spec

\* Two processes that are between lookup and append at the same time are noted.
MeetingsNoted ==
    \A p, q \in Proc : p # q /\ pc[p] \in Adding /\ pc[q] \in Adding => {p, q} \in met

\* The last uid there is has been given: the next one is 0.
Wrapped == \E k \in DOMAIN passwd : passwd[k].uid = UidLimit - 1

\* While p is about to append, a line with its name, or with its uid once it has
\* picked one, is of somebody it has met.
TwinsKnown(p) ==
    /\ pc[p] \in Adding =>
          \A i \in DOMAIN passwd : passwd[i].name = user[p] => {passwd[i].by, p} \in met
    /\ pc[p] = "passwd" =>
          \A i \in DOMAIN passwd :
             passwd[i].uid = uid[p] => {passwd[i].by, p} \in met \/ Wrapped

\* The histories only grow, and a step of p moves nobody else.
LEMMA StepsOfOne ==
    ASSUME TypeOK, NEW p \in Proc,
           \/ Lookup(p) \/ PickUid(p) \/ AppendPasswd(p) \/ AppendShadow(p)
           \/ OpenSrc(p) \/ OpenDst(p) \/ ReadGroup(p) \/ Flush(p) \/ Rename(p)
           \/ Fail(p) \/ Die(p)
    PROVE  /\ pc' = [pc EXCEPT ![p] = pc'[p]] /\ Goto(p, pc'[p])
           /\ pc'[p] # pc[p]
           /\ met \subseteq met' /\ crossed \subseteq crossed'
           /\ blind \subseteq blind' /\ short \subseteq short' /\ user' = user
<1>1. /\ pc' = [pc EXCEPT ![p] = pc'[p]] /\ Goto(p, pc'[p])
      /\ pc'[p] # pc[p] /\ user' = user
      /\ blind \subseteq blind' /\ short \subseteq short'
  <2> USE DEF TypeOK, Goto, procvars
  <2>1. CASE Lookup(p)
    BY <2>1 DEF Lookup
  <2>2. CASE PickUid(p)
    BY <2>2 DEF PickUid
  <2>3. CASE AppendPasswd(p)
    BY <2>3 DEF AppendPasswd
  <2>4. CASE AppendShadow(p)
    BY <2>4 DEF AppendShadow
  <2>5. CASE OpenSrc(p)
    BY <2>5 DEF OpenSrc
  <2>6. CASE OpenDst(p)
    BY <2>6 DEF OpenDst
  <2>7. CASE ReadGroup(p)
    BY <2>7 DEF ReadGroup
  <2>8. CASE Flush(p)
    BY <2>8 DEF Flush
  <2>9. CASE Rename(p)
    BY <2>9 DEF Rename
  <2>10. CASE Fail(p)
    BY <2>10 DEF Fail, Regrouping
  <2>11. CASE Die(p)
    BY <2>11 DEF Die
  <2> QED
    BY <2>1, <2>2, <2>3, <2>4, <2>5, <2>6, <2>7, <2>8, <2>9, <2>10, <2>11
<1> QED
  BY <1>1 DEF Goto

\* A step into Adding notes who is there already.
LEMMA NextMeetings == TypeOK /\ MeetingsNoted /\ [Next]_vars => MeetingsNoted'
<1> SUFFICES ASSUME TypeOK, MeetingsNoted, [Next]_vars PROVE MeetingsNoted'
  OBVIOUS
<1>0. CASE UNCHANGED vars
  BY <1>0 DEF vars, MeetingsNoted
<1>1. ASSUME NEW r \in Proc, Goto(r, pc'[r]), met \subseteq met'
      PROVE  MeetingsNoted'
  <2> SUFFICES ASSUME NEW p \in Proc, NEW q \in Proc, p # q,
                      pc'[p] \in Adding, pc'[q] \in Adding
               PROVE  {p, q} \in met'
    BY DEF MeetingsNoted
  <2>1. /\ \A s \in Proc : s # r => pc'[s] = pc[s]
        /\ \A s \in Proc \ {r} : pc'[r] \in Adding /\ pc[s] \in Adding => {r, s} \in met'
    BY <1>1 DEF Goto, TypeOK
  <2>2. CASE p # r /\ q # r
    BY <1>1, <2>1, <2>2 DEF MeetingsNoted
  <2>3. CASE p = r
    BY <2>1, <2>3
  <2>4. CASE q = r
    <3>1. {q, p} \in met'
      BY <2>1, <2>4
    <3>2. {q, p} = {p, q}
      OBVIOUS
    <3> QED
      BY <3>1, <3>2
  <2> QED
    BY <2>2, <2>3, <2>4
<1> QED
  BY <1>0, <1>1, StepsOfOne DEF Next

\* A new line is of a process that has met whoever is about to append; a uid is new
\* when it is picked.
LEMMA NextTwins ==
    ASSUME TypeOK, MeetingsNoted, \A p \in Proc : TwinsKnown(p), TwinsMet, [Next]_vars
    PROVE  (\A p \in Proc : TwinsKnown(p))' /\ TwinsMet'
<1>0. CASE UNCHANGED vars
  BY <1>0 DEF vars, dbvars, procvars, TwinsKnown, TwinsMet, Wrapped
<1> SUFFICES ASSUME NEW q \in Proc,
                    \/ Lookup(q) \/ PickUid(q) \/ AppendPasswd(q) \/ AppendShadow(q)
                    \/ OpenSrc(q) \/ OpenDst(q) \/ ReadGroup(q) \/ Flush(q) \/ Rename(q)
                    \/ Fail(q) \/ Die(q)
             PROVE  (\A p \in Proc : TwinsKnown(p))' /\ TwinsMet'
  BY <1>0 DEF Next
<1>1. /\ \A p \in Proc : p # q => pc'[p] = pc[p]
      /\ met \subseteq met' /\ user' = user
  BY StepsOfOne DEF TypeOK
<1>2. CASE AppendPasswd(q)
  <2> DEFINE line == [name |-> user[q], uid |-> uid[q], by |-> q]
             n == Len(passwd)
  <2>1. passwd' = Append(passwd, line) /\ pc[q] = "passwd" /\ pc'[q] = "shadow" /\ uid' = uid
    BY <1>2 DEF AppendPasswd, Goto, TypeOK, procvars
  <2>2. line \in PasswdLine
    BY RaceAssumption DEF TypeOK, PasswdLine
  <2>3. /\ n \in Nat /\ DOMAIN passwd = 1..n /\ DOMAIN passwd' = 1..(n + 1)
        /\ \A i \in 1..n : passwd'[i] = passwd[i]
        /\ passwd'[n + 1] = line
    <3> HIDE DEF line
    <3> QED
      BY <2>1, <2>2 DEF TypeOK
  <2>4. Wrapped => Wrapped'
    BY <2>3 DEF Wrapped
  <2>5. line.name = user[q] /\ line.uid = uid[q] /\ line.by = q
    OBVIOUS
  <2> HIDE DEF line, n
  <2>6. ASSUME NEW p \in Proc
        PROVE  TwinsKnown(p)'
    <3>1. CASE p = q
      BY <2>1, <3>1 DEF TwinsKnown, Adding
    <3>2. CASE p # q
      <4>1. pc'[p] = pc[p] /\ uid'[p] = uid[p] /\ user'[p] = user[p]
        BY <1>1, <2>1, <3>2
      <4>2. pc[p] \in Adding => {q, p} \in met'
        BY <1>1, <2>1, <3>2 DEF MeetingsNoted, Adding
      <4>3. ASSUME NEW i \in DOMAIN passwd', pc[p] \in Adding, passwd'[i].name = user[p]
            PROVE  {passwd'[i].by, p} \in met'
        <5>1. CASE i = n + 1
          BY <2>3, <2>5, <4>2, <4>3, <5>1
        <5>2. CASE i # n + 1
          <6>1. i \in DOMAIN passwd /\ passwd'[i] = passwd[i]
            BY <2>3, <5>2
          <6> QED
            BY <1>1, <4>3, <6>1 DEF TwinsKnown
        <5> QED
          BY <5>1, <5>2
      <4>4. ASSUME NEW i \in DOMAIN passwd', pc[p] = "passwd", passwd'[i].uid = uid[p]
            PROVE  {passwd'[i].by, p} \in met' \/ Wrapped'
        <5>1. CASE i = n + 1
          BY <2>3, <2>5, <4>2, <4>4, <5>1 DEF Adding
        <5>2. CASE i # n + 1
          <6>1. i \in DOMAIN passwd /\ passwd'[i] = passwd[i]
            BY <2>3, <5>2
          <6> QED
            BY <1>1, <2>4, <4>4, <6>1 DEF TwinsKnown
        <5> QED
          BY <5>1, <5>2
      <4> QED
        BY <4>1, <4>3, <4>4 DEF TwinsKnown
    <3> QED
      BY <3>1, <3>2
  <2>7. ASSUME NEW i \in 1..n,
               passwd[i].name = user[q] \/ passwd[i].uid = uid[q]
        PROVE  {passwd[i].by, q} \in met' \/ Wrapped'
    BY <1>1, <2>1, <2>3, <2>4, <2>7 DEF TwinsKnown, Adding
  <2>8. ASSUME NEW i \in DOMAIN passwd', NEW j \in DOMAIN passwd', i # j,
               passwd'[i].name = passwd'[j].name \/ passwd'[i].uid = passwd'[j].uid
        PROVE  {passwd'[i].by, passwd'[j].by} \in met' \/ Wrapped'
    <3>1. CASE i \in 1..n /\ j \in 1..n
      <4>1. {passwd[i].by, passwd[j].by} \in met \/ Wrapped
        BY <2>3, <2>8, <3>1 DEF TwinsMet, Wrapped
      <4> QED
        BY <1>1, <2>3, <2>4, <3>1, <4>1
    <3>2. CASE i = n + 1 /\ j \in 1..n
      <4>1. {passwd[j].by, q} \in met' \/ Wrapped'
        BY <2>3, <2>5, <2>7, <2>8, <3>2
      <4>2. {passwd'[i].by, passwd'[j].by} = {passwd[j].by, q}
        BY <2>3, <2>5, <3>2
      <4> QED
        BY <4>1, <4>2
    <3>3. CASE j = n + 1 /\ i \in 1..n
      BY <2>3, <2>5, <2>7, <2>8, <3>3
    <3> QED
      BY <2>3, <2>8, <3>1, <3>2, <3>3
  <2> QED
    BY <2>6, <2>8 DEF TwinsMet, Wrapped
<1>3. CASE ~ AppendPasswd(q)
  <2>1. passwd' = passwd
    BY <1>3 DEF Lookup, PickUid, AppendShadow, OpenSrc, OpenDst, ReadGroup, Flush, Rename,
       Fail, Die, dbvars
  <2>2. TwinsMet'
    BY <1>1, <2>1 DEF TwinsMet
  <2>3. Wrapped' = Wrapped
    BY <2>1 DEF Wrapped
  <2>4. ASSUME NEW p \in Proc
        PROVE  TwinsKnown(p)'
    <3>1. CASE PickUid(q) /\ p = q
      <4>1. pc[q] = "uid" /\ uid'[q] = NextUid /\ pc'[q] = "passwd"
        BY <3>1 DEF PickUid, Goto, TypeOK
      <4>2. Wrapped \/ \A i \in DOMAIN passwd : passwd[i].uid # NextUid
        BY NextUidIsNew DEF TypeOK, Wrapped
      <4> QED
        BY <1>1, <2>1, <2>3, <3>1, <4>1, <4>2 DEF TwinsKnown, Adding
    <3>2. CASE Lookup(q) /\ p = q
      <4>1. pc'[q] = "uid" => \A i \in DOMAIN passwd : passwd[i].name # user[q]
        BY <3>2 DEF Lookup, Goto, TypeOK
      <4>2. pc'[q] \in {"uid", "refused"}
        BY <3>2 DEF Lookup, Goto, TypeOK
      <4> QED
        BY <1>1, <2>1, <3>2, <4>1, <4>2 DEF TwinsKnown, Adding
    <3>3. CASE ~ (PickUid(q) \/ Lookup(q)) /\ p = q
      <4>1. pc'[q] \notin Adding
        BY <1>3, <3>3 DEF AppendShadow, OpenSrc, OpenDst, ReadGroup, Flush, Rename, Fail,
           Die, Goto, TypeOK, Adding
      <4> QED
        BY <3>3, <4>1 DEF TwinsKnown, Adding
    <3>4. CASE p # q
      <4>1. pc'[p] = pc[p] /\ uid'[p] = uid[p] /\ user'[p] = user[p]
        BY <1>1, <1>3, <3>4 DEF Lookup, PickUid, AppendShadow, OpenSrc, OpenDst, ReadGroup,
           Flush, Rename, Fail, Die, procvars, TypeOK
      <4> QED
        BY <1>1, <2>1, <2>3, <4>1 DEF TwinsKnown
    <3> QED
      BY <3>1, <3>2, <3>3, <3>4
  <2> QED
    BY <2>2, <2>4
<1> QED
  BY <1>2, <1>3

\* A name or a uid comes to be on two lines of /etc/passwd only if two processes
\* were between lookup and append at the same time, or if uid_t has wrapped.
THEOREM Twins == Spec => []TwinsMet
<1> DEFINE Known == \A p \in Proc : TwinsKnown(p)
<1>1. Init => MeetingsNoted /\ Known /\ TwinsMet
  BY BaseAssumption DEF Init, MeetingsNoted, TwinsKnown, TwinsMet, Adding
<1>2. TypeOK /\ MeetingsNoted /\ [Next]_vars => MeetingsNoted'
  BY NextMeetings
<1>3. TypeOK /\ MeetingsNoted /\ Known /\ TwinsMet /\ [Next]_vars => Known' /\ TwinsMet'
  BY NextTwins
<1> QED
  BY <1>1, <1>2, <1>3, TypeCorrect, PTL DEF Spec

----------------------------------------------------------------------------
(* /etc/group *)

\* Two processes that are in ensure_group_member at the same time are noted.
CrossingsNoted ==
    \A p, q \in Proc : p # q /\ pc[p] \in Regrouping /\ pc[q] \in Regrouping
                      => {p, q} \in crossed

\* p could open /etc/group and read it whole, and nobody was ever in ensure_group_member with it.
Alone(p) == p \notin blind \cup UNION crossed

\* What one that is alone has in its hands is the copy of /etc/group as it is.
Copying(p) ==
    Alone(p) =>
        /\ pc[p] = "dst" => src[p] = group
        /\ pc[p] \in {"read", "flush", "rename"} => tmp # NoFile
        /\ pc[p] = "read" => src[p] = group
        /\ pc[p] \in {"read", "flush"} => dst[p] = tmp /\ content[tmp] = <<>>
        /\ pc[p] = "flush" => buf[p] = Copy(EtcGroup, target[p], user[p])
        /\ pc[p] = "rename" => content[tmp] = Copy(EtcGroup, target[p], user[p])
        /\ pc[p] \in {"flush", "rename"} /\ p \notin short
              => ~ LongList(EtcGroup, target[p])

\* A step into Regrouping notes who is there already.
LEMMA NextCrossings == TypeOK /\ CrossingsNoted /\ [Next]_vars => CrossingsNoted'
<1> SUFFICES ASSUME TypeOK, CrossingsNoted, [Next]_vars PROVE CrossingsNoted'
  OBVIOUS
<1>0. CASE UNCHANGED vars
  BY <1>0 DEF vars, CrossingsNoted
<1>1. ASSUME NEW r \in Proc, Goto(r, pc'[r]), crossed \subseteq crossed'
      PROVE  CrossingsNoted'
  <2> SUFFICES ASSUME NEW p \in Proc, NEW q \in Proc, p # q,
                      pc'[p] \in Regrouping, pc'[q] \in Regrouping
               PROVE  {p, q} \in crossed'
    BY DEF CrossingsNoted
  <2>1. /\ \A s \in Proc : s # r => pc'[s] = pc[s]
        /\ \A s \in Proc \ {r} :
              pc'[r] \in Regrouping /\ pc[s] \in Regrouping => {r, s} \in crossed'
    BY <1>1 DEF Goto, TypeOK
  <2>2. CASE p # r /\ q # r
    BY <1>1, <2>1, <2>2 DEF CrossingsNoted
  <2>3. CASE p = r
    BY <2>1, <2>3
  <2>4. CASE q = r
    <3>1. {q, p} \in crossed'
      BY <2>1, <2>4
    <3>2. {q, p} = {p, q}
      OBVIOUS
    <3> QED
      BY <3>1, <3>2
  <2> QED
    BY <2>2, <2>3, <2>4
<1> QED
  BY <1>0, <1>1, StepsOfOne DEF Next

\* While one that is alone is in ensure_group_member, no step of another touches
\* the files of /etc/group.
LEMMA OthersKeepAway ==
    ASSUME TypeOK, CrossingsNoted, NEW p \in Proc, NEW q \in Proc, p # q,
           Alone(p)', pc[p] \in Regrouping,
           \/ Lookup(q) \/ PickUid(q) \/ AppendPasswd(q) \/ AppendShadow(q)
           \/ OpenSrc(q) \/ OpenDst(q) \/ ReadGroup(q) \/ Flush(q) \/ Rename(q)
           \/ Fail(q) \/ Die(q)
    PROVE  UNCHANGED <<content, group, tmp, src[p], dst[p], buf[p], target[p], pc[p], user>>
<1>1. /\ CrossingsNoted' /\ pc'[p] = pc[p] /\ crossed \subseteq crossed' /\ user' = user
  <2>1. Next
    BY DEF Next
  <2> QED
    BY <2>1, NextCrossings, StepsOfOne DEF TypeOK
<1>2. pc[q] \notin Regrouping /\ pc'[q] \notin Regrouping
  <2>1. {p, q} \notin crossed'
    BY DEF Alone
  <2>2. pc[q] \notin Regrouping
    BY <1>1, <2>1 DEF CrossingsNoted
  <2>3. pc'[q] \notin Regrouping
    BY <1>1, <2>1 DEF CrossingsNoted
  <2> QED
    BY <2>2, <2>3
<1>3. ~ (OpenSrc(q) \/ OpenDst(q) \/ ReadGroup(q) \/ Flush(q) \/ Rename(q) \/ Fail(q))
  BY <1>2 DEF OpenSrc, OpenDst, ReadGroup, Flush, Rename, Fail, Regrouping, Goto, TypeOK
<1> QED
  BY <1>1, <1>3 DEF Lookup, PickUid, AppendPasswd, AppendShadow, Die, TypeOK, dbvars,
     filevars, procvars

\* What one that is alone copies is /etc/group from the open to the rename.
LEMMA NextCopying ==
    ASSUME TypeOK, CrossingsNoted, [Next]_vars, NEW p \in Proc, Copying(p)
    PROVE  Copying(p)'
<1>0. CASE UNCHANGED vars
  BY <1>0 DEF vars, dbvars, filevars, procvars, Copying, Alone, EtcGroup
<1> SUFFICES ASSUME NEW q \in Proc, Alone(p)',
                    \/ Lookup(q) \/ PickUid(q) \/ AppendPasswd(q) \/ AppendShadow(q)
                    \/ OpenSrc(q) \/ OpenDst(q) \/ ReadGroup(q) \/ Flush(q) \/ Rename(q)
                    \/ Fail(q) \/ Die(q)
             PROVE  Copying(p)'
  BY <1>0 DEF Next, Copying
<1>1. Alone(p) /\ (p \notin short' => p \notin short)
  BY StepsOfOne DEF Alone
<1>2. CASE p # q
  <2>1. CASE pc[p] \in Regrouping
    <3>1. UNCHANGED <<content, group, tmp, src[p], dst[p], buf[p], target[p], pc[p], user>>
      BY <1>2, <2>1, OthersKeepAway
    <3> QED
      BY <1>1, <3>1 DEF Copying, EtcGroup
  <2>2. CASE pc[p] \notin Regrouping
    <3>1. pc'[p] \notin Regrouping
      BY <1>2, <2>2, StepsOfOne DEF TypeOK
    <3> QED
      BY <3>1 DEF Copying, Regrouping
  <2> QED
    BY <2>1, <2>2
<1>3. CASE p = q
  <2> USE DEF Goto, TypeOK, dbvars, filevars, procvars
  <2>1. CASE pc'[p] \notin Regrouping
    BY <2>1 DEF Copying, Regrouping
  <2>2. CASE OpenSrc(p)
    <3>1. pc'[p] = "dst" /\ src'[p] = group /\ group' = group
      BY <2>2 DEF OpenSrc, Alone
    <3> QED
      BY <3>1 DEF Copying
  <2>3. CASE OpenDst(p)
    <3> DEFINE f == IF tmp = NoFile THEN CHOOSE n \in File : n \notin Used ELSE tmp
    <3>1. f \in File
      <4>1. CASE tmp = NoFile
        BY <4>1, FreeFile
      <4>2. CASE tmp # NoFile
        BY <4>2
      <4> QED
        BY <4>1, <4>2
    <3>2. /\ content' = [content EXCEPT ![f] = <<>>] /\ tmp' = f
          /\ dst' = [dst EXCEPT ![p] = f] /\ UNCHANGED <<group, src>>
          /\ pc[p] = "dst" /\ pc'[p] = "read"
      BY <2>3 DEF OpenDst
    <3> HIDE DEF f
    <3>3. f # NoFile
      BY <3>1, RaceAssumption DEF File
    <3> QED
      BY <1>1, <3>1, <3>2, <3>3 DEF Copying
  <2>4. CASE ReadGroup(p)
    <3>1. src[p] = group /\ group # NoFile
      BY <1>1, <2>4, RaceAssumption DEF ReadGroup, Copying, File
    <3>2. /\ buf'[p] = Copy(EtcGroup, target[p], user[p])
          /\ p \notin short' => ~ LongList(EtcGroup, target[p])
      <4>1. PICK n \in 0..Len(Opened(p)) :
                /\ buf' = [buf EXCEPT ![p] = Copy(LinesRead(p, n), target[p], user[p])]
                /\ short' = short \cup {r \in {p} : LongList(LinesRead(p, n), target[p])}
                /\ blind' = blind \cup {r \in {p} : n < Len(Opened(p))}
        BY <2>4 DEF ReadGroup
      <4>2. Opened(p) = EtcGroup /\ EtcGroup \in Seq(GroupLine)
        BY <3>1 DEF Opened, EtcGroup
      <4>3. n = Len(EtcGroup)
        <5>1. ~ (n < Len(Opened(p)))
          BY <4>1 DEF Alone
        <5>2. Len(EtcGroup) \in Nat
          BY <4>2
        <5> QED
          BY <4>1, <4>2, <5>1, <5>2
      <4>4. LinesRead(p, n) = EtcGroup
        BY <4>2, <4>3, PartOfFile DEF LinesRead
      <4> QED
        BY <4>1, <4>4
    <3>3. /\ pc[p] = "read" /\ pc'[p] = "flush"
          /\ UNCHANGED <<content, group, tmp, target, user, dst>>
      BY <2>4 DEF ReadGroup
    <3> QED
      BY <1>1, <3>2, <3>3 DEF Copying, EtcGroup
  <2>5. CASE Flush(p)
    <3>1. /\ dst[p] = tmp /\ tmp \in File /\ content[tmp] = <<>>
          /\ buf[p] = Copy(EtcGroup, target[p], user[p])
          /\ p \notin short => ~ LongList(EtcGroup, target[p])
      BY <1>1, <2>5 DEF Flush, Copying
    <3>2. Beyond(content[tmp], Size(buf[p])) = <<>>
      BY <3>1, BeyondLines
    <3>3. buf[p] \o <<>> = buf[p] /\ buf[p] \in Seq(GroupLine)
      OBVIOUS
    <3>4. content'[tmp] = buf[p] /\ content'[group] = content[group]
      BY <2>5, <3>1, <3>2, <3>3 DEF Flush
    <3>5. pc'[p] = "rename" /\ UNCHANGED <<group, tmp, target, user, short>>
      BY <2>5 DEF Flush
    <3> QED
      BY <3>1, <3>4, <3>5, RaceAssumption DEF Copying, EtcGroup, File
  <2>6. CASE \/ Lookup(p) \/ PickUid(p) \/ AppendPasswd(p) \/ AppendShadow(p)
             \/ Rename(p) \/ Fail(p) \/ Die(p)
    BY <2>1, <2>6 DEF Lookup, PickUid, AppendPasswd, AppendShadow, Rename, Fail, Die,
       Regrouping
  <2> QED
    BY <1>3, <2>2, <2>3, <2>4, <2>5, <2>6
<1> QED
  BY <1>2, <1>3

\* A step of one that is alone takes no group away, and a member only if its list
\* was not read to its end.
LEMMA AloneKeeps ==
    ASSUME TypeOK, NEW q \in Proc, Copying(q), Alone(q),
           \/ Lookup(q) \/ PickUid(q) \/ AppendPasswd(q) \/ AppendShadow(q)
           \/ OpenSrc(q) \/ OpenDst(q) \/ ReadGroup(q) \/ Flush(q) \/ Rename(q)
           \/ Fail(q) \/ Die(q),
           NEW g \in GroupsOf(EtcGroup)
    PROVE  /\ g \in GroupsOf(EtcGroup')
           /\ ~ (LongList(EtcGroup, g) /\ q \in short) =>
                 MembersOf(EtcGroup, g) \subseteq MembersOf(EtcGroup', g)
<1> USE DEF Goto, TypeOK, dbvars, filevars, procvars
<1>1. CASE OpenDst(q)
  <2> DEFINE f == IF tmp = NoFile THEN CHOOSE n \in File : n \notin Used ELSE tmp
  <2>1. f # group
    <3>1. CASE tmp = NoFile
      BY <3>1, FreeFile DEF Used
    <3>2. CASE tmp # NoFile
      BY <3>2
    <3> QED
      BY <3>1, <3>2
  <2>2. content' = [content EXCEPT ![f] = <<>>] /\ group' = group
    BY <1>1 DEF OpenDst
  <2> HIDE DEF f
  <2> QED
    BY <2>1, <2>2 DEF EtcGroup
<1>2. CASE Flush(q)
  <2>1. dst[q] # group
    BY <1>2 DEF Flush, Copying
  <2>2. EtcGroup' = EtcGroup
    BY <1>2, <2>1 DEF Flush, EtcGroup
  <2> QED
    BY <2>2
<1>3. CASE Rename(q)
  <2>1. /\ EtcGroup' = Copy(EtcGroup, target[q], user[q])
        /\ q \notin short => ~ LongList(EtcGroup, target[q])
    BY <1>3 DEF Rename, Copying, EtcGroup
  <2>2. EtcGroup \in Seq(GroupLine)
    BY DEF EtcGroup
  <2> QED
    BY <2>1, <2>2, CopyKeeps
<1>4. CASE \/ Lookup(q) \/ PickUid(q) \/ AppendPasswd(q) \/ AppendShadow(q) \/ OpenSrc(q)
           \/ ReadGroup(q) \/ Fail(q) \/ Die(q)
  <2>1. EtcGroup' = EtcGroup
    BY <1>4 DEF Lookup, PickUid, AppendPasswd, AppendShadow, OpenSrc, ReadGroup, Fail, Die,
       EtcGroup
  <2> QED
    BY <2>1
<1> QED
  BY <1>1, <1>2, <1>3, <1>4

GroupInv == TypeOK /\ CrossingsNoted /\ \A p \in Proc : Copying(p)

\* What is said of /etc/group and of those at work on it holds always.
LEMMA GroupInvariance == Spec => []GroupInv
<1>1. Init => CrossingsNoted /\ \A p \in Proc : Copying(p)
  BY DEF Init, CrossingsNoted, Copying, Regrouping
<1>2. TypeOK /\ CrossingsNoted /\ [Next]_vars => CrossingsNoted'
  BY NextCrossings
<1>3. TypeOK /\ CrossingsNoted /\ (\A p \in Proc : Copying(p)) /\ [Next]_vars
      => (\A p \in Proc : Copying(p))'
  BY NextCopying
<1> QED
  BY <1>1, <1>2, <1>3, TypeCorrect, PTL DEF Spec, GroupInv

\* A group, or a member of one, is lost only by a step of a process that met another
\* inside ensure_group_member, could not open /etc/group, or did not read the list
\* of members to its end: what a killed adduser leaves does no harm to one alone.
THEOREM LostInACrossing == Spec => LostOnlyInACrossing
<1> DEFINE Kept == \A g \in GroupsOf(EtcGroup) : \A m \in MembersOf(EtcGroup, g) \cup {Nobody} :
           \/ /\ g \in GroupsOf(EtcGroup')
              /\ m # Nobody => m \in MembersOf(EtcGroup', g)
           \/ \E p \in Proc : /\ pc'[p] # pc[p]
                              /\ p \in blind \cup UNION crossed'
           \/ m # Nobody /\ LongList(EtcGroup, g)
<1>1. GroupInv /\ [Next]_vars => [Kept]_vars
  <2> SUFFICES ASSUME GroupInv, NEW q \in Proc,
                    \/ Lookup(q) \/ PickUid(q) \/ AppendPasswd(q) \/ AppendShadow(q)
                    \/ OpenSrc(q) \/ OpenDst(q) \/ ReadGroup(q) \/ Flush(q) \/ Rename(q)
                    \/ Fail(q) \/ Die(q)
               PROVE  Kept
    BY DEF Next
  <2>1. pc'[q] # pc[q] /\ crossed \subseteq crossed'
    BY StepsOfOne DEF GroupInv
  <2>2. CASE q \in blind \cup UNION crossed'
    BY <2>1, <2>2
  <2>3. CASE q \notin blind \cup UNION crossed'
    <3>1. Alone(q)
      BY <2>1, <2>3 DEF Alone
    <3>2. \A g \in GroupsOf(EtcGroup) :
             /\ g \in GroupsOf(EtcGroup')
             /\ ~ LongList(EtcGroup, g) =>
                   MembersOf(EtcGroup, g) \subseteq MembersOf(EtcGroup', g)
      BY <3>1, AloneKeeps DEF GroupInv
    <3> QED
      BY <3>2
  <2> QED
    BY <2>2, <2>3
<1> QED
  BY <1>1, GroupInvariance, PTL DEF Spec, LostOnlyInACrossing

\* u is taken for a member of g.
InGroup(file, u, g) == \E m \in MembersOf(file, g) : <<m, u>> \in PartOf

\* As long as nothing went wrong, whoever has been through a group is in it.
Members ==
    crossed \cup blind \cup short = {} =>
        \A p \in Proc :
            /\ target[p] = "wheel" => InGroup(EtcGroup, user[p], "users")
            /\ pc[p] = "done" => target[p] = "wheel" /\ InGroup(EtcGroup, user[p], "wheel")

\* A step adds its user to its group and takes nobody out of any.
LEMMA NextMembers ==
    ASSUME GroupInv, Members, [Next]_vars
    PROVE  Members'
<1>0. CASE UNCHANGED vars
  BY <1>0 DEF vars, dbvars, filevars, procvars, Members, InGroup, EtcGroup
<1> SUFFICES ASSUME NEW q \in Proc, (crossed \cup blind \cup short = {})',
                    \/ Lookup(q) \/ PickUid(q) \/ AppendPasswd(q) \/ AppendShadow(q)
                    \/ OpenSrc(q) \/ OpenDst(q) \/ ReadGroup(q) \/ Flush(q) \/ Rename(q)
                    \/ Fail(q) \/ Die(q)
             PROVE  Members'
  BY <1>0 DEF Next, Members
<1>1. /\ \A p \in Proc : p # q => pc'[p] = pc[p]
      /\ crossed \cup blind \cup short = {} /\ user' = user
  BY StepsOfOne DEF GroupInv, TypeOK
<1>2. Alone(q) /\ Copying(q) /\ TypeOK /\ q \notin short
  BY <1>1 DEF Alone, GroupInv
<1>3. ASSUME NEW u, NEW g, InGroup(EtcGroup, u, g)
      PROVE  InGroup(EtcGroup', u, g)
  <2>1. PICK m \in MembersOf(EtcGroup, g) : <<m, u>> \in PartOf
    BY <1>3 DEF InGroup
  <2>2. g \in GroupsOf(EtcGroup)
    BY <2>1 DEF MembersOf, GroupsOf
  <2>3. m \in MembersOf(EtcGroup', g)
    BY <1>2, <2>1, <2>2, AloneKeeps
  <2> QED
    BY <2>1, <2>3 DEF InGroup
<1>4. CASE Rename(q)
  <2>1. /\ EtcGroup' = Copy(EtcGroup, target[q], user[q])
        /\ ~ LongList(EtcGroup, target[q])
    BY <1>2, <1>4 DEF Rename, Copying, EtcGroup
  <2>2. EtcGroup \in Seq(GroupLine) /\ target[q] \in {"users", "wheel"} /\ user[q] \in NewName
    BY <1>2 DEF TypeOK, EtcGroup
  <2>3. InGroup(EtcGroup', user[q], target[q])
    <3>1. \E m \in MembersOf(EtcGroup', target[q]) : <<m, user[q]>> \in PartOf
      BY <2>1, <2>2, CopyAdds
    <3> QED
      BY <3>1 DEF InGroup
  <2>4. \/ /\ target[q] = "users" /\ target' = [target EXCEPT ![q] = "wheel"]
           /\ pc'[q] = "src"
        \/ target[q] = "wheel" /\ target' = target /\ pc'[q] = "done"
    BY <1>2, <1>4 DEF Rename, Goto, TypeOK
  <2>5. ASSUME NEW p \in Proc
        PROVE  /\ target'[p] = "wheel" => InGroup(EtcGroup', user[p], "users")
               /\ pc'[p] = "done" => target'[p] = "wheel" /\ InGroup(EtcGroup', user[p], "wheel")
    <3>1. CASE p # q
      BY <1>1, <1>2, <1>3, <2>4, <3>1 DEF Members, TypeOK
    <3>2. CASE p = q
      BY <1>1, <1>2, <1>3, <2>3, <2>4, <3>2 DEF Members, TypeOK
    <3> QED
      BY <3>1, <3>2
  <2> QED
    BY <1>1, <2>5 DEF Members
<1>5. CASE ~ Rename(q)
  <2>1. target' = target /\ pc'[q] # "done"
    BY <1>2, <1>5 DEF TypeOK, Lookup, PickUid, AppendPasswd, AppendShadow, OpenSrc, OpenDst,
       ReadGroup, Flush, Fail, Die, Goto, procvars
  <2> QED
    BY <1>1, <1>3, <2>1 DEF Members
<1> QED
  BY <1>4, <1>5

\* When adduser reports success its user is in users and in wheel, as long as every
\* adduser was alone, could open /etc/group and read the lists whole.
THEOREM AddedMembers == Spec => []AddedIsInGroups
<1>1. Init => Members
  BY DEF Init, Members
<1>2. GroupInv /\ Members /\ [Next]_vars => Members'
  BY NextMembers
<1>3. Members => AddedIsInGroups
  <2> SUFFICES ASSUME Members, NEW p \in Proc, pc[p] = "done",
                      crossed \cup blind \cup short = {}
               PROVE  \A g \in {"users", "wheel"} : InGroup(EtcGroup, user[p], g)
    BY DEF AddedIsInGroups, InGroup
  <2>1. target[p] = "wheel" /\ InGroup(EtcGroup, user[p], "wheel")
    BY DEF Members
  <2>2. InGroup(EtcGroup, user[p], "users")
    BY <2>1 DEF Members
  <2> QED
    BY <2>1, <2>2
<1> QED
  BY <1>1, <1>2, <1>3, GroupInvariance, PTL DEF Spec

==============================================================================
