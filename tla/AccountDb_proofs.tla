--------------------------- MODULE AccountDb_proofs ---------------------------
(* Proofs about the account files, in three parts: the lookups and the      *)
(* rewrite (AuthFiles), passwd(1) and ir0_shadow_set_hash (ShadowUpdate),   *)
(* and adduser beside any number of passwd(1) processes (AccountDb); for    *)
(* files of any length, any names and passwords, any number of tries and    *)
(* any bound on the accounts.                                               *)
EXTENDS AccountDb, WellFoundedInduction, SequenceTheorems, TLAPS

(****************************************************************************)
(* AuthFiles                                                                *)
(****************************************************************************)

\* The first of a non-empty set of line numbers exists and is the least.
LEMMA FirstLineIsLeast ==
    ASSUME NEW S, S \subseteq Nat, S # {}
    PROVE  FirstLine(S) \in S /\ \A j \in S : FirstLine(S) <= j
<1>1. OpToRel(<, Nat) = {ss \in Nat \X Nat : ss[1] < ss[2]}
  BY Zenon DEF OpToRel
<1>2. PICK i \in S : \A j \in S : <<j, i>> \notin {ss \in Nat \X Nat : ss[1] < ss[2]}
  <2>1. S \subseteq Nat
    OBVIOUS
  <2>2. \E i \in S : \A j \in S : ~ (<<j, i>> \in OpToRel(<, Nat))
    BY <2>1, NatLessThanWellFounded, WFMin, Zenon
  <2> QED
    BY <1>1, <2>2, Zenon
<1>3. ASSUME NEW j \in S
      PROVE  i <= j
  <2>1. <<j, i>> \in Nat \X Nat
    OBVIOUS
  <2>2. ~ (<<j, i>>[1] < <<j, i>>[2])
    BY <1>2, <2>1, Zenon
  <2> QED
    BY <2>2
<1> QED
  BY <1>3 DEF FirstLine

\* ir0_account_by_name and ir0_account_by_uid return a line of the file or
\* report that there is none, and what they return matches what was asked.
LEMMA AccountLookup ==
    ASSUME NEW file \in Seq(AccountLine)
    PROVE  /\ \A u : AccountByName(file, u) # Absent =>
                  /\ AccountByName(file, u) \in AccountLine
                  /\ AccountByName(file, u).name = u
           /\ \A n : AccountByUid(file, n) # Absent =>
                  /\ AccountByUid(file, n) \in AccountLine
                  /\ AccountByUid(file, n).uid = n
<1>1. \A i \in DOMAIN file : i \in Nat /\ file[i] \in AccountLine
  OBVIOUS
<1>2. ASSUME NEW u, AccountByName(file, u) # Absent
      PROVE  /\ AccountByName(file, u) \in AccountLine
             /\ AccountByName(file, u).name = u
  <2>1. LinesOf(file, u) # {} /\ LinesOf(file, u) \subseteq Nat
    BY <1>1, <1>2 DEF AccountByName, LinesOf
  <2>2. FirstLine(LinesOf(file, u)) \in LinesOf(file, u)
    BY <2>1, FirstLineIsLeast
  <2> QED
    BY <1>1, <2>1, <2>2 DEF AccountByName, LinesOf
<1>3. ASSUME NEW n, AccountByUid(file, n) # Absent
      PROVE  /\ AccountByUid(file, n) \in AccountLine
             /\ AccountByUid(file, n).uid = n
  <2>1. LinesOfUid(file, n) # {} /\ LinesOfUid(file, n) \subseteq Nat
    BY <1>1, <1>3 DEF AccountByUid, LinesOfUid
  <2>2. FirstLine(LinesOfUid(file, n)) \in LinesOfUid(file, n)
    BY <2>1, FirstLineIsLeast
  <2> QED
    BY <1>1, <2>1, <2>2 DEF AccountByUid, LinesOfUid
<1> QED
  BY <1>2, <1>3

\* ir0_shadow_hash returns a stored field or reports that there is none.
LEMMA ShadowHashType ==
    ASSUME NEW file \in Seq(ShadowLine), NEW u
    PROVE  ShadowHash(file, u) \in Stored \cup {Absent}
<1>1. \A i \in DOMAIN file : i \in Nat /\ file[i].hash \in Stored
  <2>1. \A i \in DOMAIN file : i \in Nat /\ file[i] \in ShadowLine
    OBVIOUS
  <2> QED
    BY <2>1 DEF ShadowLine
<1>2. CASE LinesOf(file, u) = {}
  BY <1>2 DEF ShadowHash
<1>3. CASE LinesOf(file, u) # {}
  <2>1. FirstLine(LinesOf(file, u)) \in LinesOf(file, u)
    BY <1>1, <1>3, FirstLineIsLeast DEF LinesOf
  <2> QED
    BY <1>1, <1>3, <2>1 DEF ShadowHash, LinesOf
<1> QED
  BY <1>2, <1>3

\* A rewritten line of /etc/shadow is again a line of /etc/shadow.
LEMMA RewriteLineType ==
    ASSUME NEW line \in ShadowLine, NEW u \in Name, NEW h \in Password
    PROVE  RewriteLine(line, u, h) \in ShadowLine
BY AgingAssumption DEF RewriteLine, NewLine, ShadowLine, Stored

\* A finished rewrite of /etc/shadow is again a shadow file, with a line more at most.
LEMMA RewrittenType ==
    ASSUME NEW file \in Seq(ShadowLine), NEW u \in Name, NEW h \in Password
    PROVE  /\ RewriteLines(file, u, h) \in Seq(ShadowLine)
           /\ Rewritten(file, u, h) \in Seq(ShadowLine)
<1>1. \A i \in 1..Len(file) : RewriteLine(file[i], u, h) \in ShadowLine
  BY RewriteLineType
<1>2. RewriteLines(file, u, h) \in Seq(ShadowLine)
  BY <1>1, IsASeq DEF RewriteLines
<1>3. NewLine(u, h, DefaultAging) \in ShadowLine
  BY AgingAssumption DEF NewLine, ShadowLine, Stored
<1> QED
  BY <1>2, <1>3 DEF Rewritten
\* A rewrite keeps the lines of the file in their places, changes those of the
\* user only, and appends at most a line of the user.
LEMMA RewrittenLines ==
    ASSUME NEW file \in Seq(ShadowLine), NEW u \in Name, NEW h \in Password
    PROVE  /\ \A i \in 1..Len(file) :
                  /\ i \in DOMAIN Rewritten(file, u, h)
                  /\ Rewritten(file, u, h)[i].name = file[i].name
                  /\ file[i].name = u => Rewritten(file, u, h)[i].hash = h
                  /\ file[i].name # u => Rewritten(file, u, h)[i] = file[i]
           /\ \A i \in DOMAIN Rewritten(file, u, h) :
                  /\ i \in Nat
                  /\ i \notin 1..Len(file) =>
                         /\ Rewritten(file, u, h)[i].name = u
                         /\ Rewritten(file, u, h)[i].hash = h
           /\ LinesOf(Rewritten(file, u, h), u) # {}
<1> DEFINE new == Rewritten(file, u, h)
           n == Len(file)
<1>1. n \in Nat /\ DOMAIN file = 1..n /\ new \in Seq(ShadowLine)
  BY RewrittenType
<1>2. \A i \in 1..n : RewriteLines(file, u, h)[i] = RewriteLine(file[i], u, h)
  BY <1>1 DEF RewriteLines
<1>3. \A i \in 1..n : /\ i \in DOMAIN new
                      /\ new[i] = RewriteLine(file[i], u, h)
  BY <1>1, <1>2, RewrittenType DEF Rewritten, RewriteLines
<1>4. /\ LinesOf(file, u) # {} => DOMAIN new = 1..n
      /\ LinesOf(file, u) = {} =>
             /\ DOMAIN new = 1..(n + 1)
             /\ new[n + 1] = NewLine(u, h, DefaultAging)
  BY <1>1, RewrittenType DEF Rewritten, RewriteLines
<1>5. NewLine(u, h, DefaultAging).name = u /\ NewLine(u, h, DefaultAging).hash = h
  BY DEF NewLine
<1> HIDE DEF new, n
<1>6. ASSUME NEW i \in 1..n
      PROVE  /\ new[i].name = file[i].name
             /\ file[i].name = u => new[i].hash = h
             /\ file[i].name # u => new[i] = file[i]
  <2>1. new[i] = RewriteLine(file[i], u, h)
    BY <1>3
  <2>2. CASE file[i].name = u
    BY <2>1, <2>2 DEF RewriteLine, NewLine
  <2>3. CASE file[i].name # u
    BY <2>1, <2>3 DEF RewriteLine
  <2> QED
    BY <2>2, <2>3
<1>7. ASSUME NEW i \in DOMAIN new
      PROVE  /\ i \in Nat
             /\ i \notin 1..n => new[i].name = u /\ new[i].hash = h
  BY <1>1, <1>4, <1>5
<1>8. LinesOf(new, u) # {}
  <2>1. CASE LinesOf(file, u) # {}
    BY <1>1, <1>3, <1>6, <2>1 DEF LinesOf
  <2>2. CASE LinesOf(file, u) = {}
    BY <1>1, <1>4, <1>5, <2>2 DEF LinesOf
  <2> QED
    BY <2>1, <2>2
<1> QED
  BY <1>3, <1>6, <1>7, <1>8 DEF new, n

\* After a rewrite every line of the user holds the new hash, ir0_shadow_hash
\* finds it, and no other user's hashes have changed.
LEMMA RewrittenHashes ==
    ASSUME NEW file \in Seq(ShadowLine), NEW u \in Name, NEW h \in Password
    PROVE  /\ LinesOf(Rewritten(file, u, h), u) # {}
           /\ \A i \in LinesOf(Rewritten(file, u, h), u) : Rewritten(file, u, h)[i].hash = h
           /\ ShadowHash(Rewritten(file, u, h), u) = h
           /\ \A v \in Name \ {u} :
                  /\ LinesOf(Rewritten(file, u, h), v) = LinesOf(file, v)
                  /\ \A i \in LinesOf(file, v) : Rewritten(file, u, h)[i].hash = file[i].hash
<1> DEFINE new == Rewritten(file, u, h)
           n == Len(file)
<1>1. n \in Nat /\ DOMAIN file = 1..n
  OBVIOUS
<1>2. /\ \A i \in 1..n : /\ i \in DOMAIN new
                         /\ new[i].name = file[i].name
                         /\ file[i].name = u => new[i].hash = h
                         /\ file[i].name # u => new[i] = file[i]
      /\ \A i \in DOMAIN new :
             i \in Nat /\ (i \notin 1..n => new[i].name = u /\ new[i].hash = h)
      /\ LinesOf(new, u) # {}
  BY RewrittenLines
<1> HIDE DEF new, n
<1>3. \A i \in LinesOf(new, u) : new[i].hash = h
  BY <1>2 DEF LinesOf
<1>4. ShadowHash(new, u) = h
  <2>1. FirstLine(LinesOf(new, u)) \in LinesOf(new, u)
    BY <1>2, FirstLineIsLeast DEF LinesOf
  <2> QED
    BY <1>2, <1>3, <2>1 DEF ShadowHash
<1>5. ASSUME NEW v \in Name \ {u}
      PROVE  /\ LinesOf(new, v) = LinesOf(file, v)
             /\ \A i \in LinesOf(file, v) : new[i].hash = file[i].hash
  BY <1>1, <1>2 DEF LinesOf
<1> QED
  BY <1>2, <1>3, <1>4, <1>5 DEF new

\* The first n lines of a file are a file of n lines.
LEMMA FirstLines ==
    ASSUME NEW S, NEW file \in Seq(S), NEW n \in Nat, n <= Len(file)
    PROVE  /\ SubSeq(file, 1, n) = [i \in 1..n |-> file[i]]
           /\ SubSeq(file, 1, n) \in Seq(S) /\ Len(SubSeq(file, 1, n)) = n
<1>1. /\ SubSeq(file, 1, n) \in Seq(S)
      /\ Len(SubSeq(file, 1, n)) = n
      /\ \A i \in 1..n : SubSeq(file, 1, n)[i] = file[i]
  BY SubSeqProperties
<1> QED
  BY <1>1

\* Two files agree about a user on their first k lines, which have one of its lines.
SameStart(f, g, u, k) ==
    /\ k <= Len(f) /\ k <= Len(g)
    /\ \E i \in 1..k : f[i].name = u
    /\ \A i \in 1..k : /\ g[i].name = f[i].name
                       /\ f[i].name = u => g[i].hash = f[i].hash

\* ir0_shadow_hash answers the same for two files that agree on such a beginning.
LEMMA SameFirst ==
    ASSUME NEW f \in Seq(ShadowLine), NEW g \in Seq(ShadowLine), NEW u, NEW k \in Nat,
           SameStart(f, g, u, k)
    PROVE  ShadowHash(g, u) = ShadowHash(f, u)
<1> DEFINE F == LinesOf(f, u)
           G == LinesOf(g, u)
<1>0. /\ k <= Len(f) /\ k <= Len(g)
      /\ \E i \in 1..k : f[i].name = u
      /\ \A i \in 1..k : /\ g[i].name = f[i].name
                         /\ f[i].name = u => g[i].hash = f[i].hash
  BY DEF SameStart
<1>1. DOMAIN f = 1..Len(f) /\ DOMAIN g = 1..Len(g) /\ Len(f) \in Nat /\ Len(g) \in Nat
  OBVIOUS
<1>2. PICK i \in 1..k : f[i].name = u
  BY <1>0
<1>3. i \in F /\ i \in G /\ F \subseteq Nat /\ G \subseteq Nat
  <2>1. i \in 1..Len(f) /\ i \in 1..Len(g) /\ g[i].name = u
    BY <1>0, <1>1, <1>2
  <2> QED
    BY <1>1, <1>2, <2>1 DEF LinesOf
<1>4. /\ FirstLine(F) \in F /\ \A j \in F : FirstLine(F) <= j
      /\ FirstLine(G) \in G /\ \A j \in G : FirstLine(G) <= j
  BY <1>3, FirstLineIsLeast
<1>5. FirstLine(F) \in 1..k /\ FirstLine(G) \in 1..k
  <2>1. FirstLine(F) <= i /\ FirstLine(G) <= i
    BY <1>3, <1>4
  <2>2. FirstLine(F) \in 1..Len(f) /\ FirstLine(G) \in 1..Len(g)
    BY <1>1, <1>4 DEF LinesOf
  <2> QED
    BY <1>0, <1>1, <1>2, <2>1, <2>2
<1>6. FirstLine(F) \in G /\ FirstLine(G) \in F
  BY <1>0, <1>1, <1>4, <1>5 DEF LinesOf
<1>7. FirstLine(F) = FirstLine(G)
  BY <1>3, <1>4, <1>6
<1>8. g[FirstLine(F)].hash = f[FirstLine(F)].hash
  BY <1>0, <1>1, <1>4, <1>5 DEF LinesOf
<1> QED
  BY <1>3, <1>7, <1>8 DEF ShadowHash

(****************************************************************************)
(* ShadowUpdate: passwd(1) and ir0_shadow_set_hash                          *)
(****************************************************************************)

USE ProcAssumption, StoredAssumption

\* Only a passwd(1) that has renamed reports success.
NotYetOk == \A p \in Proc : pc[p] \notin {"idle", "unlock"} => rc[p] # "ok"

IInv == TypeOK /\ LockProtects /\ NotYetOk /\ TmpIsRewrite

----------------------------------------------------------------------------
(* Type correctness *)

\* The account files and processes start well typed.
LEMMA InitType == Init => TypeOK
BY FileAssumption, TriesAssumption DEF Init, TypeOK, PC, Job, NoJob, InCall

\* A process that exits leaves its locals well typed.
LEMMA ExitsType ==
    ASSUME TypeOK, NEW p \in Proc, Exits(p)
    PROVE  /\ pc' \in [Proc -> PC] /\ job' \in [Proc -> Job]
           /\ tries' \in [Proc -> 0..MaxTries] /\ pos' \in [Proc -> Nat \ {0}]
           /\ found' \in [Proc -> BOOLEAN] /\ cut' \in [Proc -> BOOLEAN]
           /\ \A q \in Proc :
                  /\ pc'[q] # "idle" => job'[q].target \in Name
                  /\ pc'[q] \in InCall => job'[q].hash \in Password
BY TriesAssumption DEF TypeOK, Exits, Goto, PC, Job, NoJob, InCall

\* Setting one local leaves the others as they were.
LEMMA SetLocal ==
    ASSUME NEW j \in Job
    PROVE  /\ \A c \in Stored \cup {Absent} :
                  /\ [j EXCEPT !.cur = c] \in Job
                  /\ [j EXCEPT !.cur = c].target = j.target
                  /\ [j EXCEPT !.cur = c].hash = j.hash
           /\ \A h \in Password :
                  /\ [j EXCEPT !.hash = h] \in Job
                  /\ [j EXCEPT !.hash = h].target = j.target
                  /\ [j EXCEPT !.hash = h].hash = h
BY DEF Job

\* The dialogue of passwd(1), up to its new password, keeps the types.
LEMMA DialogueType ==
    ASSUME TypeOK, NEW p \in Proc, Dialogue(p)
    PROVE  TypeOK'
<1> USE DEF TypeOK, PC, InCall, Goto, filevars
<1>1. CASE Start(p)
  <2>1. PICK uid \in Uid, arg \in Name \cup {Absent} :
            /\ Permitted(uid, arg)
            /\ job' = [job EXCEPT ![p] = [NoJob EXCEPT
                           !.ruid = uid, !.target = Target(uid, arg).name]]
            /\ Goto(p, IF uid = 0 THEN "newpw" ELSE "readcur")
    BY <1>1 DEF Start
  <2>2. Target(uid, arg) \in AccountLine
    BY <2>1, AccountLookup DEF Permitted, Target
  <2>3. DEFINE new == [NoJob EXCEPT !.ruid = uid, !.target = Target(uid, arg).name]
  <2>4. new \in Job /\ new.target \in Name
    BY <2>2 DEF NoJob, Job, AccountLine
  <2>5. job' = [job EXCEPT ![p] = new]
    BY <2>1
  <2> HIDE DEF new
  <2>6. /\ pc' \in [Proc -> PC] /\ job' \in [Proc -> Job]
        /\ job'[p] = new /\ pc'[p] \in {"newpw", "readcur"}
        /\ \A q \in Proc \ {p} : job'[q] = job[q] /\ pc'[q] = pc[q]
    BY <2>1, <2>4, <2>5
  <2>7. \A q \in Proc :
            /\ pc'[q] # "idle" => job'[q].target \in Name
            /\ pc'[q] \in InCall => job'[q].hash \in Password
    BY <2>4, <2>6
  <2>8. /\ rc' = [rc EXCEPT ![p] = "none"]
        /\ UNCHANGED <<accounts, shadow, tmp, lock, tries, pos, found, cut>>
    BY <1>1 DEF Start
  <2>9. pc' \in [Proc -> PC] /\ job' \in [Proc -> Job]
    BY <2>6
  <2> QED
    BY <2>7, <2>8, <2>9
<1>2. CASE DenyStart(p)
  <2>1. Exits(p) /\ rc' = [rc EXCEPT ![p] = "failed"]
    BY <1>2 DEF DenyStart, Ends
  <2> QED
    BY <1>2, <2>1, ExitsType DEF DenyStart
<1>3. CASE ReadCurrent(p)
  <2>1. ShadowHash(shadow, job[p].target) \in Stored \cup {Absent}
    BY ShadowHashType
  <2>2. /\ job' \in [Proc -> Job]
        /\ \A q \in Proc : job'[q].target = job[q].target /\ job'[q].hash = job[q].hash
    <3> DEFINE new == [job[p] EXCEPT !.cur = ShadowHash(shadow, job[p].target)]
    <3>1. new \in Job /\ new.target = job[p].target /\ new.hash = job[p].hash
      BY <2>1, SetLocal
    <3>2. job' = [job EXCEPT ![p] = new]
      BY <1>3 DEF ReadCurrent
    <3> HIDE DEF new
    <3> QED
      BY <3>1, <3>2
  <2>3. pc' = [pc EXCEPT ![p] = "verify"] /\ pc[p] = "readcur"
    BY <1>3 DEF ReadCurrent
  <2>4. UNCHANGED <<accounts, shadow, tmp, lock, tries, pos, found, cut, rc>>
    BY <1>3 DEF ReadCurrent
  <2> QED
    BY <2>2, <2>3, <2>4
<1>4. CASE Verify(p)
  <2>1. /\ job' \in [Proc -> Job]
        /\ \A q \in Proc : job'[q].target = job[q].target /\ job'[q].hash = job[q].hash
    <3> DEFINE new == [job[p] EXCEPT !.cur = Absent]
    <3>1. new \in Job /\ new.target = job[p].target /\ new.hash = job[p].hash
      BY SetLocal
    <3>2. job' = [job EXCEPT ![p] = new]
      BY <1>4 DEF Verify
    <3> HIDE DEF new
    <3> QED
      BY <3>1, <3>2
  <2>2. pc' = [pc EXCEPT ![p] = "newpw"] /\ pc[p] = "verify"
    BY <1>4 DEF Verify
  <2>3. UNCHANGED <<accounts, shadow, tmp, lock, tries, pos, found, cut, rc>>
    BY <1>4 DEF Verify
  <2> QED
    BY <2>1, <2>2, <2>3
<1>5. CASE Deny(p)
  <2>1. Exits(p) /\ rc' = [rc EXCEPT ![p] = "failed"]
    BY <1>5 DEF Deny, Ends
  <2>2. UNCHANGED <<accounts, filevars, lock>>
    BY <1>5 DEF Deny
  <2> QED
    BY <2>1, <2>2, ExitsType
<1>6. CASE ChooseNew(p)
  <2>1. /\ job' \in [Proc -> Job] /\ job'[p].hash \in Password
        /\ \A q \in Proc : job'[q].target = job[q].target
        /\ \A q \in Proc \ {p} : job'[q] = job[q]
    <3>1. PICK h \in Password : job' = [job EXCEPT ![p].hash = h]
      BY <1>6 DEF ChooseNew
    <3> DEFINE new == [job[p] EXCEPT !.hash = h]
    <3>2. new \in Job /\ new.target = job[p].target /\ new.hash = h
      BY SetLocal
    <3>3. job' = [job EXCEPT ![p] = new]
      BY <3>1
    <3> HIDE DEF new
    <3> QED
      BY <3>2, <3>3
  <2>2. pc' = [pc EXCEPT ![p] = "lock"] /\ pc[p] = "newpw"
    BY <1>6 DEF ChooseNew
  <2>3. /\ tries' \in [Proc -> 0..MaxTries]
        /\ UNCHANGED <<accounts, shadow, tmp, lock, pos, found, cut, rc>>
    BY <1>6, TriesAssumption DEF ChooseNew
  <2> QED
    BY <2>1, <2>2, <2>3
<1> QED
  BY <1>1, <1>2, <1>3, <1>4, <1>5, <1>6 DEF Dialogue

\* Every outcome of a try at the lock keeps the types.
LEMMA LockingType ==
    ASSUME TypeOK, NEW p \in Proc, Locking(p)
    PROVE  TypeOK'
<1> USE DEF TypeOK, PC, InCall, Goto, filevars
<1>1. CASE TryLock(p)
  BY <1>1, TriesAssumption DEF TryLock
<1>2. CASE LockBusy(p)
  BY <1>2, TriesAssumption DEF LockBusy
<1>3. CASE GiveUp(p)
  BY <1>3, ExitsType DEF GiveUp, Ends
<1> QED
  BY <1>1, <1>2, <1>3 DEF Locking

\* The lines a process has read are a shadow file.
LEMMA ReadType ==
    ASSUME TypeOK, NEW p \in Proc, pos[p] <= Len(shadow) + 1
    PROVE  /\ LinesRead(p) = [i \in 1..(pos[p] - 1) |-> shadow[i]]
           /\ LinesRead(p) \in Seq(ShadowLine) /\ Len(LinesRead(p)) = pos[p] - 1
<1>1. pos[p] - 1 \in Nat /\ pos[p] - 1 <= Len(shadow) /\ shadow \in Seq(ShadowLine)
  BY DEF TypeOK
<1> QED
  BY <1>1, FirstLines DEF LinesRead

\* The temporary file exists while a process writes it.
LEMMA TmpExists ==
    ASSUME TypeOK, TmpIsRewrite, NEW p \in Proc, pc[p] \in Writing
    PROVE  tmp \in Seq(ShadowLine)
<1>1. job[p].target \in Name /\ job[p].hash \in Password
  BY DEF TypeOK, InCall, Writing
<1>2. CASE pc[p] = "copy"
  <2>1. pos[p] - 1 \in Nat /\ pos[p] - 1 <= Len(shadow)
    BY <1>2 DEF TypeOK, TmpIsRewrite, WritesRewrite, CopiedPrefix
  <2>2. \A i \in 1..(pos[p] - 1) :
            RewriteLine(shadow[i], job[p].target, job[p].hash) \in ShadowLine
    BY <1>1, <2>1, RewriteLineType DEF TypeOK
  <2> QED
    BY <1>2, <2>1, <2>2, IsASeq DEF TmpIsRewrite, WritesRewrite, CopiedPrefix
<1>3. CASE pc[p] = "rename"
  BY <1>1, <1>3, ReadType, RewrittenType DEF TmpIsRewrite, WritesRewrite
<1> QED
  BY <1>2, <1>3 DEF Writing

\* Every call of ir0_shadow_set_hash under the lock keeps the types.
LEMMA ReplacingType ==
    ASSUME TypeOK, NEW p \in Proc, Replacing(p),
           pc[p] \in Writing => tmp \in Seq(ShadowLine)
    PROVE  TypeOK'
<1> USE DEF TypeOK, PC, InCall, Goto, filevars
<1>1. CASE OpenShadow(p)
  BY <1>1 DEF OpenShadow, procvars
<1>2. CASE OpenTmp(p)
  BY <1>2 DEF OpenTmp
<1>3. CASE OpenFails(p)
  BY <1>3 DEF OpenFails
<1>4. CASE CopyLine(p)
  <2>1. pos[p] \in 1..Len(shadow) /\ shadow[pos[p]] \in ShadowLine
    BY <1>4 DEF CopyLine
  <2>2. job[p].target \in Name /\ job[p].hash \in Password /\ tmp \in Seq(ShadowLine)
    BY <1>4 DEF CopyLine, Writing
  <2>3. RewriteLine(shadow[pos[p]], job[p].target, job[p].hash) \in ShadowLine
    BY <2>1, <2>2, RewriteLineType
  <2> QED
    BY <1>4, <2>2, <2>3 DEF CopyLine
<1>5. CASE FinishCopy(p)
  <2>1. job[p].target \in Name /\ job[p].hash \in Password /\ tmp \in Seq(ShadowLine)
    BY <1>5 DEF FinishCopy, Writing
  <2>2. NewLine(job[p].target, job[p].hash, DefaultAging) \in ShadowLine
    BY <2>1, AgingAssumption DEF NewLine, ShadowLine, Stored
  <2> QED
    BY <1>5, <2>1, <2>2 DEF FinishCopy, procvars
<1>6. CASE Rename(p)
  BY <1>6 DEF Rename, Writing
<1>7. CASE WriteFails(p)
  BY <1>7 DEF WriteFails, Writing
<1>8. CASE Unlock(p)
  BY <1>8, ExitsType DEF Unlock
<1> QED
  BY <1>1, <1>2, <1>3, <1>4, <1>5, <1>6, <1>7, <1>8 DEF Replacing

\* A kill keeps the types.
LEMMA DieType ==
    ASSUME TypeOK, NEW p \in Proc, Die(p)
    PROVE  TypeOK'
BY ExitsType DEF TypeOK, filevars, Die

\* No step of any process breaks the type invariant.
LEMMA TypeStep ==
    ASSUME IInv, [Next]_vars
    PROVE  TypeOK'
<1>1. ASSUME NEW p \in Proc, Dialogue(p) \/ SetHash(p) \/ Die(p)
      PROVE  TypeOK'
  BY <1>1, TmpExists, DialogueType, LockingType, ReplacingType, DieType DEF IInv, SetHash
<1>2. CASE UNCHANGED vars
  BY <1>2 DEF IInv, TypeOK, vars, procvars
<1> QED
  BY <1>1, <1>2 DEF Next

----------------------------------------------------------------------------
(* The lock protects the temporary file *)

\* No step breaks mutual exclusion: only TryLock takes the lock, when it is free,
\* and every way out of the code under the lock gives it back.
LEMMA LockStep ==
    ASSUME TypeOK, LockProtects, [Next]_vars
    PROVE  LockProtects'
<1> USE DEF TypeOK, LockProtects, Holding, InCall, Goto, Exits, Ends
<1>1. ASSUME NEW p \in Proc, Dialogue(p)
      PROVE  LockProtects'
  <2>1. /\ pc[p] \notin Holding /\ lock' = lock
        /\ \E label \in PC \ Holding : pc' = [pc EXCEPT ![p] = label]
    <3>1. CASE Start(p) \/ DenyStart(p)
      BY <3>1 DEF Start, DenyStart, PC
    <3>2. CASE ReadCurrent(p) \/ Verify(p)
      BY <3>2 DEF ReadCurrent, Verify, PC
    <3>3. CASE Deny(p) \/ ChooseNew(p)
      BY <3>3 DEF Deny, ChooseNew, PC
    <3> QED
      BY <1>1, <3>1, <3>2, <3>3 DEF Dialogue
  <2> QED
    BY <2>1
<1>2. ASSUME NEW p \in Proc, Locking(p)
      PROVE  LockProtects'
  BY <1>2 DEF Locking, TryLock, LockBusy, GiveUp
<1>3. ASSUME NEW p \in Proc, Replacing(p)
      PROVE  LockProtects'
  <2>1. CASE Unlock(p)
    BY <2>1 DEF Unlock
  <2>2. CASE ~ Unlock(p)
    BY <1>3, <2>2 DEF Replacing, OpenShadow, OpenTmp, OpenFails, CopyLine,
                      FinishCopy, Rename, WriteFails, Writing
  <2> QED
    BY <2>1, <2>2
<1>4. ASSUME NEW p \in Proc, Die(p)
      PROVE  LockProtects'
  BY <1>4 DEF Die
<1>5. CASE UNCHANGED vars
  BY <1>5 DEF vars
<1> QED
  BY <1>1, <1>2, <1>3, <1>4, <1>5 DEF Next, SetHash

----------------------------------------------------------------------------
(* Reports *)

\* Nothing but a rename makes a report "ok", and a new run takes it back.
LEMMA OkStep ==
    ASSUME TypeOK, NotYetOk, [Next]_vars
    PROVE  NotYetOk'
<1>0. CASE UNCHANGED vars
  BY <1>0 DEF vars, procvars, NotYetOk
<1> SUFFICES ASSUME NEW p \in Proc, Dialogue(p) \/ SetHash(p) \/ Die(p)
             PROVE  NotYetOk'
  BY <1>0 DEF Next
<1> USE DEF TypeOK, NotYetOk, Goto, Ends, Exits, procvars
<1>1. CASE Dialogue(p)
  <2>1. /\ rc' = rc \/ rc' = [rc EXCEPT ![p] = "none"] \/ rc' = [rc EXCEPT ![p] = "failed"]
        /\ \/ pc[p] # "idle" /\ UNCHANGED rc
           \/ rc'[p] # "ok"
        /\ pc[p] \notin {"unlock"}
        /\ \E label : pc' = [pc EXCEPT ![p] = label]
    BY <1>1 DEF Dialogue, Start, DenyStart, ReadCurrent, Verify, Deny, ChooseNew
  <2> QED
    BY <2>1
<1>2. CASE Locking(p)
  BY <1>2 DEF Locking, TryLock, LockBusy, GiveUp
<1>3. CASE Replacing(p)
  <2>1. CASE OpenShadow(p) \/ OpenTmp(p) \/ OpenFails(p) \/ CopyLine(p) \/ FinishCopy(p)
    BY <2>1 DEF OpenShadow, OpenTmp, OpenFails, CopyLine, FinishCopy
  <2>2. CASE Rename(p) \/ WriteFails(p) \/ Unlock(p)
    BY <2>2 DEF Rename, WriteFails, Unlock
  <2> QED
    BY <1>3, <2>1, <2>2 DEF Replacing
<1>4. CASE Die(p)
  BY <1>4 DEF Die
<1> QED
  BY <1>1, <1>2, <1>3, <1>4 DEF SetHash

----------------------------------------------------------------------------
(* The temporary file is the rewrite of the present file *)

\* A process none of whose state changes keeps what it has written.
LEMMA Undisturbed ==
    ASSUME NEW q \in Proc, WritesRewrite(q), shadow' = shadow, tmp' = tmp,
           pc'[q] = pc[q], pos'[q] = pos[q], job'[q] = job[q], found'[q] = found[q],
           cut'[q] = cut[q]
    PROVE  WritesRewrite(q)'
BY DEF WritesRewrite, CopiedPrefix, LinesRead

\* A process that is not writing has nothing to keep.
LEMMA NotWriting ==
    ASSUME NEW q \in Proc, pc'[q] \notin Writing
    PROVE  WritesRewrite(q)'
BY DEF WritesRewrite, Writing

\* Copying one more line extends the rewritten prefix by one line.
LEMMA CopyLineStep ==
    ASSUME TypeOK, NEW p \in Proc, CopiedPrefix(p), CopyLine(p)
    PROVE  CopiedPrefix(p)'
<1> DEFINE n == pos[p]
           u == job[p].target
           h == job[p].hash
           line(i) == RewriteLine(shadow[i], u, h)
<1>1. /\ n \in 1..Len(shadow) /\ pos'[p] = n + 1
      /\ tmp' = Append(tmp, line(n))
      /\ found'[p] = (found[p] \/ shadow[n].name = u)
      /\ shadow' = shadow /\ job' = job
  BY DEF TypeOK, CopyLine
<1>2. tmp = [i \in 1..(n - 1) |-> line(i)]
  BY DEF CopiedPrefix
<1>3. tmp' = [i \in 1..n |-> line(i)]
  <2> HIDE DEF line
  <2>1. n - 1 \in Nat /\ Len(tmp) = n - 1
    BY <1>1, <1>2
  <2>2. tmp' = [i \in 1..(Len(tmp) + 1) |-> IF i <= Len(tmp) THEN tmp[i] ELSE line(n)]
    BY <1>1, <1>2, <2>1
  <2> QED
    BY <1>1, <1>2, <2>1, <2>2
<1>4. found'[p] <=> \E i \in 1..n : shadow[i].name = u
  <2> DEFINE named(i) == shadow[i].name = u
  <2>1. 1..n = (1..(n - 1)) \cup {n}
    BY <1>1
  <2>2. found[p] <=> \E i \in 1..(n - 1) : named(i)
    BY DEF CopiedPrefix
  <2>3. found'[p] <=> found[p] \/ named(n)
    BY <1>1
  <2> HIDE DEF named
  <2>4. found'[p] <=> \E i \in 1..n : named(i)
    BY <2>1, <2>2, <2>3, Zenon
  <2> QED
    BY <2>4 DEF named
<1> QED
  BY <1>1, <1>3, <1>4, SMTT(30) DEF CopiedPrefix, TypeOK

\* When the copy ends it is the rewrite of the lines that were read, which are the
\* whole file unless a read has failed.
LEMMA FinishCopyStep ==
    ASSUME TypeOK, NEW p \in Proc, CopiedPrefix(p), FinishCopy(p)
    PROVE  /\ pos[p] <= Len(shadow) + 1
           /\ cut'[p] <=> pos[p] <= Len(shadow)
           /\ tmp' = Rewritten(LinesRead(p), job[p].target, job[p].hash)
<1> DEFINE u == job[p].target
           h == job[p].hash
           read == [i \in 1..(pos[p] - 1) |-> shadow[i]]
<1>1. pos[p] <= Len(shadow) + 1
  BY DEF CopiedPrefix
<1>2. LinesRead(p) = read
  BY <1>1, ReadType
<1>3. tmp = RewriteLines(read, u, h)
  BY DEF CopiedPrefix, RewriteLines
<1>4. found[p] <=> LinesOf(read, u) # {}
  <2>1. DOMAIN read = 1..(pos[p] - 1)
    OBVIOUS
  <2>2. \A i \in 1..(pos[p] - 1) : read[i] = shadow[i]
    OBVIOUS
  <2>3. found[p] <=> \E i \in 1..(pos[p] - 1) : shadow[i].name = u
    BY DEF CopiedPrefix
  <2> HIDE DEF read
  <2> QED
    BY <2>1, <2>2, <2>3 DEF LinesOf
<1>5. cut'[p] <=> pos[p] <= Len(shadow)
  BY DEF FinishCopy, TypeOK
<1>6. tmp' = Rewritten(read, u, h)
  BY <1>3, <1>4 DEF FinishCopy, Rewritten
<1> QED
  BY <1>1, <1>2, <1>5, <1>6

\* No step makes /etc/shadow.new anything but the rewrite being written: the
\* writer extends it, and nobody else is writing.
LEMMA RewriteStep ==
    ASSUME IInv, [Next]_vars
    PROVE  TmpIsRewrite'
<1> SUFFICES ASSUME NEW q \in Proc
             PROVE  WritesRewrite(q)'
  BY DEF TmpIsRewrite
<1>0. WritesRewrite(q)
  BY DEF IInv, TmpIsRewrite
<1>1. ASSUME NEW p \in Proc, Dialogue(p) \/ Locking(p) \/ Die(p)
      PROVE  WritesRewrite(q)'
  <2>1. shadow' = shadow /\ tmp' = tmp
    BY <1>1 DEF Dialogue, Start, DenyStart, ReadCurrent, Verify, Deny, ChooseNew,
                Locking, TryLock, LockBusy, GiveUp, Die, filevars
  <2>2. CASE q = p
    <3>1. pc'[p] \notin Writing
      BY <1>1 DEF IInv, TypeOK, Dialogue, Start, DenyStart, ReadCurrent, Verify, Deny,
                  ChooseNew, Locking, TryLock, LockBusy, GiveUp, Die, Goto, Ends,
                  Exits, Writing
    <3> QED
      BY <2>2, <3>1, NotWriting
  <2>3. CASE q # p
    <3>1. pc'[q] = pc[q] /\ pos'[q] = pos[q] /\ job'[q] = job[q] /\ found'[q] = found[q]
          /\ cut'[q] = cut[q]
      BY <1>1, <2>3 DEF IInv, TypeOK, Dialogue, Start, DenyStart, ReadCurrent, Verify,
                  Deny, ChooseNew, Locking, TryLock, LockBusy, GiveUp, Die, Goto,
                  Ends, Exits, procvars
    <3> QED
      BY <1>0, <2>1, <3>1, Undisturbed
  <2> QED
    BY <2>2, <2>3
<1>2. ASSUME NEW p \in Proc, Replacing(p)
      PROVE  WritesRewrite(q)'
  <2>1. pc[p] \in Holding
    BY <1>2 DEF Replacing, OpenShadow, OpenTmp, OpenFails, CopyLine, FinishCopy, Rename,
                WriteFails, Unlock, Holding, InCall, Writing
  <2>2. CASE q # p
    <3>1. pc'[q] = pc[q]
      BY <1>2, <2>2 DEF IInv, TypeOK, Replacing, OpenShadow, OpenTmp, OpenFails, CopyLine,
                FinishCopy, Rename, WriteFails, Unlock, Goto, Exits
    <3>2. pc[q] \notin Holding
      BY <2>1, <2>2 DEF IInv, LockProtects
    <3> QED
      BY <3>1, <3>2, NotWriting DEF Holding, InCall, Writing
  <2>3. CASE q = p /\ CopyLine(p)
    <3>1. pc[p] = "copy" /\ pc' = pc
      BY <2>3 DEF CopyLine
    <3>2. CopiedPrefix(p)'
      BY <1>0, <2>3, <3>1, CopyLineStep DEF IInv, WritesRewrite
    <3> QED
      BY <2>3, <3>1, <3>2 DEF WritesRewrite
  <2>4. CASE q = p /\ FinishCopy(p)
    <3>1. /\ pc[p] = "copy" /\ pc'[p] = "rename"
          /\ shadow' = shadow /\ job' = job /\ pos' = pos
      BY <2>4 DEF FinishCopy, Goto, IInv, TypeOK
    <3>2. /\ pos[p] <= Len(shadow) + 1
          /\ cut'[p] <=> pos[p] <= Len(shadow)
          /\ tmp' = Rewritten(LinesRead(p), job[p].target, job[p].hash)
      BY <1>0, <2>4, <3>1, FinishCopyStep DEF IInv, WritesRewrite
    <3>3. LinesRead(p)' = LinesRead(p)
      BY <3>1 DEF LinesRead
    <3> QED
      BY <2>4, <3>1, <3>2, <3>3 DEF WritesRewrite
  <2>5. CASE q = p /\ OpenTmp(p)
    <3>1. /\ pc'[p] = "copy" /\ pos'[p] = 1 /\ found'[p] = FALSE
          /\ tmp' = <<>> /\ shadow' = shadow /\ Len(shadow) \in Nat
      BY <2>5 DEF OpenTmp, Goto, IInv, TypeOK
    <3>2. CopiedPrefix(p)'
      BY <3>1 DEF CopiedPrefix
    <3> QED
      BY <2>5, <3>1, <3>2 DEF WritesRewrite
  <2>6. CASE q = p /\ ~ CopyLine(p) /\ ~ FinishCopy(p) /\ ~ OpenTmp(p)
    <3>1. pc'[p] \notin Writing
      BY <1>2, <2>6 DEF IInv, TypeOK, Replacing, OpenShadow, OpenFails, Rename, WriteFails,
                Unlock, Goto, Exits, Writing
    <3> QED
      BY <2>6, <3>1, NotWriting
  <2> QED
    BY <2>2, <2>3, <2>4, <2>5, <2>6
<1>3. CASE UNCHANGED vars
  BY <1>0, <1>3, Undisturbed DEF vars, procvars
<1> QED
  BY <1>1, <1>2, <1>3 DEF Next, SetHash

----------------------------------------------------------------------------
(* The theorems *)

\* The strengthened invariant holds before anybody runs passwd(1).
LEMMA InitInv == Init => IInv
BY InitType DEF Init, IInv, LockProtects, NotYetOk, Holding, InCall, TmpIsRewrite, WritesRewrite

\* The three invariants hold of every run of any number of passwd(1) processes.
THEOREM Invariance == Spec => []IInv
<1>1. IInv /\ [Next]_vars => IInv'
  BY TypeStep, LockStep, OkStep, RewriteStep DEF IInv
<1> QED
  BY InitInv, <1>1, PTL DEF Spec

\* The state of every run of passwd(1) is well typed, the contents of
\* /etc/shadow and /etc/shadow.new included.
THEOREM TypeCorrect == Spec => []TypeOK
<1>1. IInv => TypeOK
  BY DEF IInv
<1> QED
  BY Invariance, <1>1, PTL

\* lock_accounts excludes: a process is past it exactly when it holds the lock.
THEOREM MutualExclusion == Spec => []LockProtects
<1>1. IInv => LockProtects
  BY DEF IInv
<1> QED
  BY Invariance, <1>1, PTL

\* /etc/shadow.new is always the rewrite of the /etc/shadow it will replace, or
\* of the lines before the one that could not be read.
THEOREM TmpIsAlwaysRewrite == Spec => []TmpIsRewrite
<1>1. IInv => TmpIsRewrite
  BY DEF IInv
<1> QED
  BY Invariance, <1>1, PTL

\* Only a rename changes /etc/shadow, to the rewrite of the lines read, which are all
\* of it unless a read has failed.
LEMMA ReplaceStep ==
    ASSUME IInv, [Next]_vars, shadow' # shadow
    PROVE  \E p \in Proc :
               /\ pc[p] = "rename" /\ Rename(p)
               /\ job[p].target \in Name /\ job[p].hash \in Password
               /\ pos[p] - 1 \in 0..Len(shadow)
               /\ ~ cut[p] => pos[p] - 1 = Len(shadow)
               /\ shadow' = Rewritten(LinesRead(p), job[p].target, job[p].hash)
<1>1. PICK p \in Proc : Dialogue(p) \/ SetHash(p) \/ Die(p)
  BY DEF Next, vars
<1>2. Rename(p)
  BY <1>1 DEF Dialogue, Start, DenyStart, ReadCurrent, Verify, Deny, ChooseNew, SetHash,
              Locking, TryLock, LockBusy, GiveUp, Replacing, OpenShadow, OpenTmp,
              OpenFails, CopyLine, FinishCopy, WriteFails, Unlock, Die, filevars
<1>3. /\ pc[p] = "rename" /\ shadow' = tmp
      /\ job[p].target \in Name /\ job[p].hash \in Password
      /\ pos[p] \in Nat \ {0} /\ Len(shadow) \in Nat
  BY <1>2 DEF Rename, IInv, TypeOK, InCall
<1>4. /\ pos[p] <= Len(shadow) + 1
      /\ cut[p] <=> pos[p] <= Len(shadow)
      /\ tmp = Rewritten(LinesRead(p), job[p].target, job[p].hash)
  BY <1>3 DEF IInv, TmpIsRewrite, WritesRewrite
<1> QED
  BY <1>2, <1>3, <1>4

\* ir0_auth.h: "Replace the hash of @user in /etc/shadow atomically", up to a failed
\* read.
THEOREM Atomicity == Spec => AtomicReplace
<1> DEFINE Replaces(p, n) ==
        /\ ~ cut[p] => n = Len(shadow)
        /\ shadow' = Rewritten(SubSeq(shadow, 1, n), job[p].target, job[p].hash)
<1>1. ASSUME IInv, [Next]_vars, shadow' # shadow
      PROVE  \E p \in Proc : pc[p] = "rename" /\ \E n \in 0..Len(shadow) : Replaces(p, n)
  <2>1. PICK p \in Proc :
            /\ pc[p] = "rename"
            /\ pos[p] - 1 \in 0..Len(shadow)
            /\ ~ cut[p] => pos[p] - 1 = Len(shadow)
            /\ shadow' = Rewritten(LinesRead(p), job[p].target, job[p].hash)
    BY <1>1, ReplaceStep
  <2>2. Replaces(p, pos[p] - 1)
    BY <2>1 DEF LinesRead
  <2> HIDE DEF Replaces
  <2> QED
    BY <2>1, <2>2
<1>2. IInv /\ [Next]_vars =>
          [\E p \in Proc :
               /\ pc[p] = "rename"
               /\ \E n \in 0..Len(shadow) :
                      /\ ~ cut[p] => n = Len(shadow)
                      /\ shadow' = Rewritten(SubSeq(shadow, 1, n), job[p].target,
                                             job[p].hash)]_shadow
  BY <1>1
<1> QED
  BY Invariance, <1>2, PTL DEF Spec, AtomicReplace
----------------------------------------------------------------------------
(* What a report says, and who may change a hash *)

\* After the rename the target's hash is the new one, in every line of the target.
LEMMA RenamedHash ==
    ASSUME IInv, NEW p \in Proc, Rename(p)
    PROVE  /\ ShadowHash(shadow', job[p].target) = job[p].hash
           /\ Hashes(shadow', job[p].target) = {job[p].hash}
<1>1. /\ shadow' = Rewritten(LinesRead(p), job[p].target, job[p].hash)
      /\ job[p].target \in Name /\ job[p].hash \in Password
      /\ LinesRead(p) \in Seq(ShadowLine)
  BY ReadType DEF Rename, IInv, TypeOK, TmpIsRewrite, WritesRewrite, InCall
<1>2. /\ ShadowHash(shadow', job[p].target) = job[p].hash
      /\ LinesOf(shadow', job[p].target) # {}
      /\ \A i \in LinesOf(shadow', job[p].target) : shadow'[i].hash = job[p].hash
  BY <1>1, RewrittenHashes
<1>3. Hashes(shadow', job[p].target) = {job[p].hash}
  BY <1>2 DEF Hashes
<1> QED
  BY <1>2, <1>3

\* Only a rename makes a report "ok", and only a new run takes that back.
LEMMA ReportStep ==
    ASSUME IInv, [Next]_vars, NEW q \in Proc, rc'[q] # rc[q]
    PROVE  /\ rc'[q] = "ok" => /\ ShadowHash(shadow', job[q].target) = job[q].hash
                               /\ Hashes(shadow', job[q].target) = {job[q].hash}
           /\ rc[q] = "ok" => pc[q] = "idle"
<1>1. PICK p \in Proc : Dialogue(p) \/ SetHash(p) \/ Die(p)
  BY DEF Next, vars, procvars
<1>2. CASE Rename(p)
  <2>1. q = p /\ pc[p] = "rename"
    BY <1>2 DEF Rename, IInv, TypeOK
  <2> QED
    BY <1>2, <2>1, RenamedHash DEF IInv, NotYetOk
<1>3. CASE ~ Rename(p)
  <2>1. rc'[q] # "ok"
    BY <1>1, <1>3 DEF IInv, TypeOK, Dialogue, Start, DenyStart, ReadCurrent, Verify, Deny,
              ChooseNew, SetHash, Locking, TryLock, LockBusy, GiveUp, Replacing,
              OpenShadow, OpenTmp, OpenFails, CopyLine, FinishCopy, WriteFails, Unlock,
              Die, Ends, filevars, procvars
  <2>2. pc[q] = "unlock" => rc[q] # "ok"
    BY <1>1, <1>3 DEF IInv, TypeOK, Dialogue, Start, DenyStart, ReadCurrent, Verify, Deny,
              ChooseNew, SetHash, Locking, TryLock, LockBusy, GiveUp, Replacing,
              OpenShadow, OpenTmp, OpenFails, CopyLine, FinishCopy, WriteFails, Unlock,
              Die, Ends, Writing, filevars, procvars
  <2> QED
    BY <2>1, <2>2 DEF IInv, NotYetOk
<1> QED
  BY <1>2, <1>3

\* passwd(1) reports success exactly for what /etc/shadow then says, and anything else
\* only for a file it has left alone.
THEOREM Report == Spec => ReportIsTrue
<1> DEFINE Agrees(p) ==
        /\ rc'[p] = "ok" /\ rc[p] # "ok" =>
               /\ ShadowHash(shadow', job[p].target) = job[p].hash
               /\ Hashes(shadow', job[p].target) = {job[p].hash}
        /\ rc[p] = "ok" /\ rc'[p] # "ok" => pc[p] = "idle"
           True ==
        /\ shadow' # shadow => \E p \in Proc : rc[p] # "ok" /\ rc'[p] = "ok"
        /\ \A p \in Proc : Agrees(p)
<1>1. ASSUME IInv, [Next]_vars
      PROVE  True
  <2>1. ASSUME shadow' # shadow
        PROVE  \E p \in Proc : rc[p] # "ok" /\ rc'[p] = "ok"
    <3>1. PICK p \in Proc : pc[p] = "rename" /\ Rename(p)
      BY <1>1, <2>1, ReplaceStep
    <3> QED
      BY <1>1, <3>1 DEF Rename, IInv, TypeOK, NotYetOk
  <2>2. \A p \in Proc : Agrees(p)
    BY <1>1, ReportStep
  <2> QED
    BY <2>1, <2>2
<1>2. IInv /\ [Next]_vars => [True]_vars
  BY <1>1
<1> QED
  BY Invariance, <1>2, PTL DEF Spec, ReportIsTrue

\* No name has two lines in a file the system may start with.
UniqueNames ==
    \A file \in InitAccounts : \A i, j \in DOMAIN file :
        file[i].name = file[j].name => i = j

\* Whoever runs passwd(1) is root or has the uid of the account it changes.
Rightful ==
    /\ accounts \in InitAccounts
    /\ \A p \in Proc :
           pc[p] # "idle" =>
               \/ job[p].ruid = 0
               \/ AccountByName(accounts, job[p].target).uid = job[p].ruid

\* With unique names the account found by a uid is the one found by its name.
LEMMA SameAccount ==
    ASSUME UniqueNames, accounts \in InitAccounts, NEW uid \in Nat,
           AccountByUid(accounts, uid) # Absent
    PROVE  AccountByName(accounts, AccountByUid(accounts, uid).name)
               = AccountByUid(accounts, uid)
<1> DEFINE i == FirstLine(LinesOfUid(accounts, uid))
           u == accounts[i].name
           j == FirstLine(LinesOf(accounts, u))
<1>1. accounts \in Seq(AccountLine)
  BY FileAssumption
<1>2. DOMAIN accounts \subseteq Nat
  BY <1>1
<1>3. LinesOfUid(accounts, uid) # {} /\ AccountByUid(accounts, uid) = accounts[i]
  BY DEF AccountByUid
<1>4. i \in LinesOfUid(accounts, uid)
  BY <1>2, <1>3, FirstLineIsLeast DEF LinesOfUid
<1>5. i \in LinesOf(accounts, u)
  BY <1>4 DEF LinesOfUid, LinesOf
<1>6. j \in LinesOf(accounts, u)
  BY <1>2, <1>5, FirstLineIsLeast DEF LinesOf
<1>7. j = i
  BY <1>5, <1>6 DEF LinesOf, UniqueNames
<1> QED
  BY <1>3, <1>5, <1>7 DEF AccountByName

\* passwd(1) starts only for a rightful caller.
LEMMA StartsRightful ==
    ASSUME IInv, Rightful, UniqueNames, NEW p \in Proc, Start(p)
    PROVE  \/ job'[p].ruid = 0
           \/ AccountByName(accounts, job'[p].target).uid = job'[p].ruid
<1>1. PICK uid \in Uid, arg \in Name \cup {Absent} :
          /\ Permitted(uid, arg)
          /\ job' = [job EXCEPT ![p] = [NoJob EXCEPT
                         !.ruid = uid, !.target = Target(uid, arg).name]]
  BY DEF Start
<1>2. job'[p].ruid = uid /\ job'[p].target = Target(uid, arg).name
  BY <1>1 DEF IInv, TypeOK, NoJob
<1>3. uid \in Nat /\ accounts \in Seq(AccountLine) /\ accounts \in InitAccounts
  BY UidAssumption DEF IInv, TypeOK, Rightful
<1>4. Target(uid, arg) # Absent /\ (uid = 0 \/ Target(uid, arg).uid = uid)
  BY <1>1 DEF Permitted
<1>5. AccountByName(accounts, Target(uid, arg).name) = Target(uid, arg)
  <2>1. CASE arg = Absent
    BY <1>3, <1>4, <2>1, SameAccount DEF Target
  <2>2. CASE arg # Absent
    <3>1. Target(uid, arg) = AccountByName(accounts, arg)
      BY <2>2 DEF Target
    <3>2. AccountByName(accounts, arg).name = arg
      BY <1>3, <1>4, <3>1, AccountLookup
    <3> QED
      BY <3>1, <3>2
  <2> QED
    BY <2>1, <2>2
<1> QED
  BY <1>2, <1>4, <1>5

\* Nothing but Start sets the caller and the target of a process.
LEMMA RightfulStep ==
    ASSUME IInv, Rightful, UniqueNames, [Next]_vars
    PROVE  Rightful'
<1>1. accounts' = accounts
  BY DEF Next, vars, Dialogue, Start, DenyStart, ReadCurrent, Verify, Deny, ChooseNew,
         SetHash, Locking, TryLock, LockBusy, GiveUp, Replacing, OpenShadow, OpenTmp,
         OpenFails, CopyLine, FinishCopy, Rename, WriteFails, Unlock, Die
<1> SUFFICES ASSUME NEW q \in Proc, pc'[q] # "idle"
             PROVE  \/ job'[q].ruid = 0
                    \/ AccountByName(accounts, job'[q].target).uid = job'[q].ruid
  BY <1>1 DEF Rightful
<1>2. CASE UNCHANGED vars
  BY <1>2 DEF vars, procvars, Rightful
<1>3. ASSUME NEW p \in Proc, Dialogue(p) \/ SetHash(p) \/ Die(p)
      PROVE  \/ job'[q].ruid = 0
             \/ AccountByName(accounts, job'[q].target).uid = job'[q].ruid
  <2>1. CASE q = p /\ Start(p)
    BY <2>1, StartsRightful
  <2>2. CASE q # p \/ ~ Start(p)
    <3>1. /\ pc[q] # "idle"
          /\ job'[q].ruid = job[q].ruid /\ job'[q].target = job[q].target
      <4>1. CASE job'[q] = job[q] /\ pc[q] # "idle"
        BY <4>1
      <4>2. CASE q = p /\ (ReadCurrent(p) \/ Verify(p) \/ ChooseNew(p))
        <5>1. pc[q] # "idle"
          BY <4>2 DEF ReadCurrent, Verify, ChooseNew
        <5>2. /\ \E c : \/ job' = [job EXCEPT ![p].cur = c]
                        \/ job' = [job EXCEPT ![p].hash = c]
              /\ job \in [Proc -> Job]
          BY <4>2 DEF ReadCurrent, Verify, ChooseNew, IInv, TypeOK
        <5> QED
          BY <4>2, <5>1, <5>2 DEF Job
      <4>3. CASE q # p
        <5>1. pc'[q] = pc[q] /\ job'[q] = job[q]
          BY <1>3, <4>3 DEF IInv, TypeOK, Dialogue, Start, DenyStart, ReadCurrent,
                Verify, Deny, ChooseNew, SetHash, Locking, TryLock, LockBusy, GiveUp,
                Replacing, OpenShadow, OpenTmp, OpenFails, CopyLine, FinishCopy,
                Rename, WriteFails, Unlock, Die, Goto, Ends, Exits, procvars
        <5> QED
          BY <4>1, <5>1
      <4>4. CASE q = p /\ (DenyStart(p) \/ Deny(p) \/ GiveUp(p) \/ Unlock(p) \/ Die(p))
        BY <4>4 DEF IInv, TypeOK, DenyStart, Deny, GiveUp, Unlock, Die, Goto, Ends, Exits
      <4>5. CASE q = p /\ (\/ TryLock(p) \/ LockBusy(p)
                           \/ OpenShadow(p) \/ OpenTmp(p) \/ OpenFails(p) \/ CopyLine(p)
                           \/ FinishCopy(p) \/ Rename(p) \/ WriteFails(p))
        <5>1. job' = job /\ pc[q] # "idle"
          BY <4>5 DEF TryLock, LockBusy, OpenShadow, OpenTmp, OpenFails, CopyLine,
                FinishCopy, Rename, WriteFails, Writing, procvars
        <5> QED
          BY <4>1, <5>1
      <4> QED
        BY <1>3, <2>2, <4>2, <4>3, <4>4, <4>5
           DEF Dialogue, SetHash, Locking, Replacing
    <3> QED
      BY <3>1 DEF Rightful
  <2> QED
    BY <2>1, <2>2
<1> QED
  BY <1>2, <1>3 DEF Next

\* A step that changes a user's hashes is the rename of a process whose target that
\* user is, or it loses some of them to a process whose read failed.
OwnOrCut(u, p) ==
    \/ /\ job[p].target = u
       /\ \/ job[p].ruid = 0
          \/ AccountByName(accounts, u).uid = job[p].ruid
    \/ /\ pc[p] = "rename" /\ cut[p]
       /\ Hashes(shadow', u) \subseteq Hashes(shadow, u)

LEMMA OwnStep ==
    ASSUME IInv, Rightful, [Next]_vars, shadow' # shadow,
           NEW u \in Name, Hashes(shadow', u) # Hashes(shadow, u)
    PROVE  \E p \in Proc : OwnOrCut(u, p)
<1>1. PICK p \in Proc :
          /\ pc[p] = "rename"
          /\ job[p].target \in Name /\ job[p].hash \in Password
          /\ pos[p] - 1 \in 0..Len(shadow)
          /\ ~ cut[p] => pos[p] - 1 = Len(shadow)
          /\ shadow' = Rewritten(LinesRead(p), job[p].target, job[p].hash)
  BY ReplaceStep
<1>2. /\ shadow \in Seq(ShadowLine) /\ Len(shadow) \in Nat /\ pos[p] \in Nat
      /\ DOMAIN shadow = 1..Len(shadow)
  BY DEF IInv, TypeOK
<1>3. /\ LinesRead(p) \in Seq(ShadowLine) /\ DOMAIN LinesRead(p) = 1..(pos[p] - 1)
      /\ \A i \in 1..(pos[p] - 1) : LinesRead(p)[i] = shadow[i]
  BY <1>1, <1>2, ReadType DEF IInv
<1>4. CASE job[p].target = u
  BY <1>1, <1>4 DEF Rightful, OwnOrCut
<1>5. CASE job[p].target # u
  <2>1. u \in Name \ {job[p].target}
    BY <1>5
  <2>2. Hashes(shadow', u) = {LinesRead(p)[i].hash : i \in LinesOf(LinesRead(p), u)}
    <3>1. /\ LinesOf(shadow', u) = LinesOf(LinesRead(p), u)
          /\ \A i \in LinesOf(LinesRead(p), u) : shadow'[i].hash = LinesRead(p)[i].hash
      BY <1>1, <1>3, <2>1, RewrittenHashes
    <3> QED
      BY <3>1 DEF Hashes
  <2>3. \A i \in LinesOf(LinesRead(p), u) :
            i \in LinesOf(shadow, u) /\ LinesRead(p)[i].hash = shadow[i].hash
    BY <1>1, <1>2, <1>3 DEF LinesOf
  <2>4. Hashes(shadow', u) \subseteq Hashes(shadow, u)
    BY <2>2, <2>3 DEF Hashes
  <2>5. cut[p]
    <3>1. ASSUME ~ cut[p]
          PROVE  Hashes(shadow, u) \subseteq Hashes(shadow', u)
      <4>1. DOMAIN LinesRead(p) = DOMAIN shadow
        BY <1>1, <1>2, <1>3, <3>1
      <4>2. \A i \in LinesOf(shadow, u) :
                i \in LinesOf(LinesRead(p), u) /\ LinesRead(p)[i].hash = shadow[i].hash
        BY <1>2, <1>3, <4>1 DEF LinesOf
      <4> QED
        BY <2>2, <4>2 DEF Hashes
    <3> QED
      BY <2>4, <3>1
  <2> QED
    BY <1>1, <2>4, <2>5 DEF OwnOrCut
<1> QED
  BY <1>4, <1>5

\* When no name has two lines in /etc/passwd, only root and the owner of an account
\* change its hash, in any interleaving, with failures and kills; a failed read loses
\* hashes and changes none.
THEOREM Ownership == UniqueNames /\ Spec => OwnEntryOrRoot
<1> DEFINE Own ==
        \A u \in Name : Hashes(shadow', u) # Hashes(shadow, u) =>
            \E p \in Proc : OwnOrCut(u, p)
<1>1. Init => Rightful
  BY DEF Init, Rightful
<1>2. UniqueNames /\ IInv /\ Rightful /\ [Next]_vars => Rightful'
  BY RightfulStep
<1>3. IInv /\ Rightful /\ [Next]_vars => [Own]_shadow
  BY OwnStep
<1>4. UniqueNames => []UniqueNames
  OBVIOUS
<1> QED
  BY Invariance, <1>1, <1>2, <1>3, <1>4, PTL DEF Spec, OwnEntryOrRoot, OwnOrCut

----------------------------------------------------------------------------
(* ir0_shadow_set_hash implements the atomic specification *)

Calls == [q \in Proc |-> Call(q)]

\* A step of p changes at most p's call.
LEMMA OthersCalls ==
    ASSUME TypeOK, NEW p \in Proc, Dialogue(p) \/ SetHash(p) \/ Die(p)
    PROVE  /\ \A q \in Proc \ {p} : Call(q)' = Call(q)
           /\ Calls' = [Calls EXCEPT ![p] = Call(p)']
<1>1. ASSUME NEW q \in Proc \ {p}
      PROVE  Call(q)' = Call(q)
  <2>1. pc'[q] = pc[q] /\ job'[q] = job[q] /\ rc'[q] = rc[q]
    BY DEF TypeOK, Dialogue, Start, DenyStart, ReadCurrent, Verify, Deny, ChooseNew,
           SetHash, Locking, TryLock, LockBusy, GiveUp, Replacing, OpenShadow, OpenTmp,
           OpenFails, CopyLine, FinishCopy, Rename, WriteFails, Unlock, Die, Goto, Ends,
           Exits, procvars
  <2> QED
    BY <2>1 DEF Call, CallState
<1> QED
  BY <1>1 DEF Calls

\* Renaming is the commit of the abstract call: its state becomes "done".
LEMMA CallCommitted ==
    ASSUME NEW u, NEW h
    PROVE  [[state |-> "running", user |-> u, hash |-> h] EXCEPT !.state = "done"]
               = [state |-> "done", user |-> u, hash |-> h]
OBVIOUS

\* A call that gives up goes from "running" to "failed".
LEMMA CallFailed ==
    ASSUME NEW u, NEW h
    PROVE  /\ [state |-> "running", user |-> u, hash |-> h].state = "running"
           /\ [[state |-> "running", user |-> u, hash |-> h] EXCEPT !.state = "failed"]
                  = [state |-> "failed", user |-> u, hash |-> h]
OBVIOUS

\* The initial states are initial states of the atomic specification.
LEMMA RefinesInit == Init => Atomic!Init
BY DEF Init, Atomic!Init, Atomic!NoCall, Call, InCall

\* Every step of the implementation is a step of the atomic one or a stutter.
LEMMA RefinesStep ==
    ASSUME IInv, [Next]_vars
    PROVE  [Atomic!Next]_(Atomic!vars)
<1> USE DEF IInv, TypeOK, Goto
<1>1. CASE UNCHANGED vars
  BY <1>1 DEF vars, procvars, Atomic!vars, Call, CallState
<1>2. ASSUME NEW p \in Proc, Dialogue(p) \/ SetHash(p) \/ Die(p)
      PROVE  [Atomic!Next]_(Atomic!vars)
  <2>0. Calls' = [Calls EXCEPT ![p] = Call(p)'] /\ Calls[p] = Call(p)
    BY <1>2, OthersCalls DEF Calls
  <2>1. ASSUME shadow' = shadow, Call(p)' = Call(p)
        PROVE  [Atomic!Next]_(Atomic!vars)
    BY <2>0, <2>1 DEF Calls, Atomic!vars
  <2>2. ASSUME shadow' = shadow, pc[p] \in InCall, pc'[p] = "idle"
        PROVE  [Atomic!Next]_(Atomic!vars)
    <3>1. Call(p) # Atomic!NoCall /\ Call(p)' = Atomic!NoCall
      BY <2>2 DEF Call, CallState, Atomic!NoCall, InCall
    <3> QED
      BY <2>0, <2>2, <3>1 DEF Calls, Atomic!End, Atomic!Next
  <2>3. CASE ChooseNew(p)
    <3>1. /\ shadow' = shadow /\ pc[p] = "newpw" /\ pc'[p] = "lock"
          /\ job'[p].target = job[p].target /\ job[p].target \in Name
          /\ job'[p].hash \in Password
      <4>1. PICK h \in Password : job' = [job EXCEPT ![p].hash = h]
        BY <2>3 DEF ChooseNew
      <4>2. [job[p] EXCEPT !.hash = h].target = job[p].target
            /\ [job[p] EXCEPT !.hash = h].hash = h
        BY SetLocal
      <4> QED
        BY <2>3, <4>1, <4>2 DEF ChooseNew, filevars
    <3>2. /\ Call(p) = Atomic!NoCall
          /\ Call(p)' = [state |-> "running", user |-> job[p].target, hash |-> job'[p].hash]
      BY <3>1 DEF Call, CallState, Atomic!NoCall, InCall
    <3>3. \E u \in Name, h \in Password :
              Calls' = [Calls EXCEPT ![p] = [state |-> "running", user |-> u, hash |-> h]]
      BY <2>0, <3>1, <3>2
    <3>4. Calls[p] = Atomic!NoCall
      BY <2>0, <3>2
    <3>5. Atomic!Begin(p)
      BY <3>1, <3>3, <3>4 DEF Calls, Atomic!Begin
    <3> QED
      BY <3>5 DEF Atomic!Next
  <2>4. CASE Rename(p)
    <3>1. /\ shadow' = Rewritten(LinesRead(p), job[p].target, job[p].hash)
          /\ pos[p] - 1 \in 0..Len(shadow)
          /\ pc[p] = "rename" /\ pc'[p] = "unlock" /\ rc'[p] = "ok" /\ job' = job
      BY <2>4 DEF Rename, TmpIsRewrite, WritesRewrite
    <3>2. /\ Call(p) = [state |-> "running", user |-> job[p].target, hash |-> job[p].hash]
          /\ Call(p)' = [state |-> "done", user |-> job[p].target, hash |-> job[p].hash]
      BY <3>1 DEF Call, CallState, InCall
    <3>3. /\ Calls[p].state = "running"
          /\ shadow' = Atomic!Rewritten(LinesRead(p), Calls[p].user, Calls[p].hash)
      <4>1. Atomic!Rewritten(LinesRead(p), job[p].target, job[p].hash)
                = Rewritten(LinesRead(p), job[p].target, job[p].hash)
        BY DEF Rewritten, RewriteLines, RewriteLine, NewLine, LinesOf,
               Atomic!Rewritten, Atomic!RewriteLines, Atomic!RewriteLine,
               Atomic!NewLine, Atomic!LinesOf
      <4> QED
        BY <2>0, <3>1, <3>2, <4>1
    <3>4. Calls' = [Calls EXCEPT ![p].state = "done"]
      <4>1. Call(p)' = [Call(p) EXCEPT !.state = "done"]
        BY <3>2, CallCommitted
      <4> QED
        BY <2>0, <4>1
    <3>5. CASE pos[p] - 1 = Len(shadow)
      <4>1. LinesRead(p) = shadow
        <5>1. /\ LinesRead(p) = [i \in 1..(pos[p] - 1) |-> shadow[i]]
              /\ shadow \in Seq(ShadowLine)
          BY <3>1, <3>5, ReadType
        <5> QED
          BY <3>5, <5>1
      <4>2. Atomic!Commit(p)
        BY <3>3, <3>4, <4>1 DEF Calls, Atomic!Commit
      <4> QED
        BY <4>2 DEF Atomic!Next
    <3>6. CASE pos[p] - 1 \in 0..(Len(shadow) - 1)
      <4>1. \E n \in 0..(Len(shadow) - 1) :
                shadow' = Atomic!Rewritten(SubSeq(shadow, 1, n), Calls[p].user, Calls[p].hash)
        BY <3>3, <3>6 DEF LinesRead
      <4>2. Atomic!CommitPart(p)
        BY <3>3, <3>4, <4>1 DEF Calls, Atomic!CommitPart
      <4> QED
        BY <4>2 DEF Atomic!Next
    <3>7. Len(shadow) \in Nat
      OBVIOUS
    <3> QED
      BY <3>1, <3>5, <3>6, <3>7
  <2>5. CASE OpenFails(p) \/ WriteFails(p)
    <3>1. /\ shadow' = shadow /\ job' = job
          /\ pc[p] \in InCall /\ pc[p] # "unlock" /\ pc'[p] = "unlock" /\ rc'[p] = "failed"
      BY <2>5 DEF OpenFails, WriteFails, Writing, InCall, filevars
    <3>2. /\ Call(p).state = "running"
          /\ Call(p)' = [Call(p) EXCEPT !.state = "failed"]
      <4>1. /\ Call(p) = [state |-> "running", user |-> job[p].target, hash |-> job[p].hash]
            /\ Call(p)' = [state |-> "failed", user |-> job[p].target, hash |-> job[p].hash]
        BY <3>1 DEF Call, CallState, InCall
      <4> QED
        BY <4>1, CallFailed
    <3> QED
      BY <2>0, <3>1, <3>2 DEF Calls, Atomic!Fail, Atomic!Next
  <2>6. CASE GiveUp(p) \/ Unlock(p)
    BY <2>2, <2>6 DEF GiveUp, Unlock, Ends, Exits, InCall, filevars
  <2>7. CASE Die(p)
    <3>1. CASE pc[p] \in InCall
      BY <2>2, <2>7, <3>1 DEF Die, Exits, filevars
    <3>2. CASE pc[p] \notin InCall
      BY <2>1, <2>7, <3>2 DEF Die, Exits, filevars, Call, InCall
    <3> QED
      BY <3>1, <3>2
  <2>8. CASE Start(p) \/ DenyStart(p) \/ ReadCurrent(p) \/ Verify(p) \/ Deny(p)
    <3>1. shadow' = shadow /\ pc[p] \notin InCall /\ pc'[p] \notin InCall
      BY <2>8 DEF Start, DenyStart, ReadCurrent, Verify, Deny, Ends, Exits, InCall, filevars
    <3> QED
      BY <2>1, <3>1 DEF Call
  <2>9. CASE TryLock(p) \/ LockBusy(p) \/ OpenShadow(p) \/ OpenTmp(p) \/ CopyLine(p)
             \/ FinishCopy(p)
    <3>1. /\ shadow' = shadow /\ job' = job
          /\ pc[p] \in InCall \ {"unlock"} /\ pc'[p] \in InCall \ {"unlock"}
      BY <2>9 DEF TryLock, LockBusy, OpenShadow, OpenTmp, CopyLine, FinishCopy, InCall,
                  filevars, procvars
    <3> QED
      BY <2>1, <3>1 DEF Call, CallState
  <2> QED
    BY <1>2, <2>3, <2>4, <2>5, <2>6, <2>7, <2>8, <2>9
       DEF Dialogue, SetHash, Locking, Replacing
<1> QED
  BY <1>1, <1>2 DEF Next

\* Every behaviour of passwd(1) and of the function it calls, with any number of
\* processes, failures and kills, is one of the atomic specification, in which only
\* a failed read loses lines.
THEOREM Implementation == Spec => ImplementsAtomic
<1>1. IInv /\ [Next]_vars => [Atomic!Next]_(Atomic!vars)
  BY RefinesStep
<1> QED
  BY Invariance, RefinesInit, <1>1, PTL DEF Spec, ImplementsAtomic, Atomic!Spec

----------------------------------------------------------------------------
(* What SetHashReturns and LockReleased rest on beside fairness *)

\* How far a call of ir0_shadow_set_hash is from its return: the stages to come,
\* and the tries or the lines to come in this one.
StagesLeft(p) ==
    CASE pc[p] = "lock" -> 6 [] pc[p] = "opensrc" -> 5 [] pc[p] = "opentmp" -> 4
      [] pc[p] = "copy" -> 3 [] pc[p] = "rename" -> 2 [] pc[p] = "unlock" -> 1
      [] OTHER -> 0
RoundsLeft(p) ==
    CASE pc[p] = "lock" -> MaxTries - tries[p]
      [] pc[p] = "copy" -> Len(shadow) + 1 - pos[p]
      [] OTHER -> 0
Nearer(p) ==
    \/ StagesLeft(p)' < StagesLeft(p)
    \/ StagesLeft(p)' = StagesLeft(p) /\ RoundsLeft(p)' < RoundsLeft(p)

\* Each step of a call brings it nearer to its return, and nothing another
\* process does takes it back: nobody lengthens the file it copies, and no lost
\* race for the lock is one more try than it has.
CallsGoOn ==
    [][\A p \in Proc : pc[p] \in InCall =>
           /\ RoundsLeft(p) \in Nat
           /\ SetHash(p) => Nearer(p)
           /\ Nearer(p) \/ UNCHANGED <<StagesLeft(p), RoundsLeft(p)>>]_vars

\* A call goes on by its own steps.
LEMMA OwnStepNearer ==
    ASSUME IInv, NEW p \in Proc, pc[p] \in InCall, SetHash(p) \/ Die(p)
    PROVE  Nearer(p)
<1>1. /\ pc \in [Proc -> PC] /\ tries \in [Proc -> 0..MaxTries] /\ MaxTries \in Nat
      /\ pos \in [Proc -> Nat \ {0}] /\ Len(shadow) \in Nat
  BY TriesAssumption DEF IInv, TypeOK
<1> USE <1>1 DEF Nearer, StagesLeft, RoundsLeft
<1>2. CASE TryLock(p)
  BY <1>2 DEF TryLock, Goto
<1>3. CASE LockBusy(p)
  BY <1>3 DEF LockBusy
<1>4. CASE CopyLine(p)
  BY <1>4 DEF CopyLine
<1>5. CASE OpenShadow(p) \/ OpenTmp(p) \/ OpenFails(p)
  BY <1>5 DEF OpenShadow, OpenTmp, OpenFails, Goto
<1>6. CASE FinishCopy(p) \/ Rename(p) \/ WriteFails(p)
  BY <1>6 DEF FinishCopy, Rename, WriteFails, Writing, Goto
<1>7. CASE GiveUp(p) \/ Unlock(p) \/ Die(p)
  <2>1. pc' = [pc EXCEPT ![p] = "idle"]
    BY <1>7 DEF GiveUp, Unlock, Die, Ends, Exits, Goto
  <2> QED
    BY <2>1 DEF InCall
<1> QED
  BY <1>2, <1>3, <1>4, <1>5, <1>6, <1>7 DEF SetHash, Locking, Replacing

\* A step of one process leaves a call of another where it is.
LEMMA OthersStepKeeps ==
    ASSUME IInv, NEW p \in Proc, NEW q \in Proc \ {p}, pc[p] \in InCall,
           Dialogue(q) \/ SetHash(q) \/ Die(q)
    PROVE  UNCHANGED <<StagesLeft(p), RoundsLeft(p)>>
<1>1. pc'[p] = pc[p] /\ tries'[p] = tries[p] /\ pos'[p] = pos[p]
  BY DEF IInv, TypeOK, Dialogue, Start, DenyStart, ReadCurrent, Verify, Deny, ChooseNew,
         SetHash, Locking, TryLock, LockBusy, GiveUp, Replacing, OpenShadow, OpenTmp,
         OpenFails, CopyLine, FinishCopy, Rename, WriteFails, Unlock, Die, Ends, Exits,
         Goto, procvars
<1>2. ASSUME pc[p] = "copy" PROVE shadow' = shadow
  <2>1. CASE Rename(q)
    BY <1>2, <2>1 DEF Rename, IInv, LockProtects, Holding, InCall
  <2>2. CASE ~ Rename(q)
    BY <2>2 DEF Dialogue, Start, DenyStart, ReadCurrent, Verify, Deny, ChooseNew,
       SetHash, Locking, TryLock, LockBusy, GiveUp, Replacing, OpenShadow, OpenTmp,
       OpenFails, CopyLine, FinishCopy, WriteFails, Unlock, Die, filevars
  <2> QED
    BY <2>1, <2>2
<1> QED
  BY <1>1, <1>2 DEF StagesLeft, RoundsLeft

\* A call of ir0_shadow_set_hash returns after boundedly many steps of its own,
\* for any number of tries and of lines, whatever the other processes do.
THEOREM CallsReturn == Spec => CallsGoOn
<1> DEFINE GoesOn(p) ==
        /\ RoundsLeft(p) \in Nat
        /\ SetHash(p) => Nearer(p)
        /\ Nearer(p) \/ UNCHANGED <<StagesLeft(p), RoundsLeft(p)>>
<1>1. ASSUME IInv, Next, NEW p \in Proc, pc[p] \in InCall PROVE GoesOn(p)
  <2>1. RoundsLeft(p) \in Nat
    <3>1. /\ tries[p] \in 0..MaxTries /\ MaxTries \in Nat
          /\ pos[p] \in Nat /\ Len(shadow) \in Nat
      BY <1>1, TriesAssumption DEF IInv, TypeOK
    <3>2. pc[p] = "copy" => pos[p] <= Len(shadow) + 1
      BY <1>1 DEF IInv, TmpIsRewrite, WritesRewrite, CopiedPrefix
    <3> QED
      BY <3>1, <3>2 DEF RoundsLeft
  <2>2. SetHash(p) => Nearer(p)
    BY <1>1, OwnStepNearer
  <2>3. PICK q \in Proc : Dialogue(q) \/ SetHash(q) \/ Die(q)
    BY <1>1 DEF Next
  <2>4. CASE q = p
    <3>1. ~ Dialogue(p)
      BY <1>1 DEF InCall, Dialogue, Start, DenyStart, ReadCurrent, Verify, Deny, ChooseNew
    <3> QED
      BY <1>1, <2>1, <2>2, <2>3, <2>4, <3>1, OwnStepNearer
  <2>5. CASE q # p
    BY <1>1, <2>1, <2>2, <2>3, <2>5, OthersStepKeeps
  <2> QED
    BY <2>4, <2>5
<1>2. IInv /\ [Next]_vars => [\A p \in Proc : pc[p] \in InCall => GoesOn(p)]_vars
  BY <1>1
<1> QED
  BY <1>2, Invariance, PTL DEF Spec, CallsGoOn

(****************************************************************************)
(* AccountDb: adduser beside passwd(1)                                      *)
(****************************************************************************)

USE ProcAssumption, StoredAssumption, DbAssumption

\* The locals of adduser and the history are well typed.
AddTypeOK ==
    /\ add \in AddType
    /\ last \in [Name -> Password \cup {Absent}]
    /\ add.pc \notin {"idle", "done"} => add.user \in NewName
    /\ add.pc \in {"passwd", "openshadow", "shadow"} => add.hash \in Password

\* A process about to rename has rewritten what it read, which adduser may since
\* have appended to, and it has read a line of everybody whose password was set, if
\* no read has failed.
WroteRead(p) ==
    /\ pos[p] <= Len(shadow) + 1
    /\ tmp = Rewritten(LinesRead(p), job[p].target, job[p].hash)
    /\ ~ cut[p] => \A v \in Name : last[v] # Absent => v \in Copied(p)

Copying(p) ==
    /\ pc[p] = "copy" => CopiedPrefix(p)
    /\ pc[p] = "rename" => WroteRead(p)

HasAccount(u) == LinesOf(accounts, u) # {}

\* Whatever name adduser or passwd(1) writes to /etc/shadow is in /etc/passwd.
NamesOwned ==
    /\ \A i \in DOMAIN shadow : HasAccount(shadow[i].name)
    /\ \A p \in Proc : pc[p] # "idle" => HasAccount(job[p].target)
    /\ add.pc \in {"openshadow", "shadow"} => HasAccount(add.user)

\* The name adduser is about to add is a new one.
AddsNew == ~ blind /\ add.pc \in {"password", "passwd"} => ~ HasAccount(add.user)

DbInv ==
    /\ TypeOK
    /\ AddTypeOK
    /\ LockProtects
    /\ NotYetOk
    /\ \A p \in Proc : Copying(p)
    /\ PasswordChangeStays

----------------------------------------------------------------------------
(* next_uid *)

\* The remainder of a number below the divisor is the number.
LEMMA SmallRemainder ==
    ASSUME NEW b \in Nat, NEW a \in 0..(b - 1)
    PROVE  a % b = a
OBVIOUS

\* The value of next_uid after n lines is what the loop makes of the one before.
Uids(file, next) ==
    [n \in 0..Len(file) |->
        IF n = 0 THEN FirstUid
        ELSE IF file[n].uid >= next[n - 1] THEN (file[n].uid + 1) % UidLimit
        ELSE next[n - 1]]

\* The recursion of next_uid has a solution, whatever the length of the file.
LEMMA UidsExist ==
    ASSUME NEW file \in Seq(AccountLine)
    PROVE  \E next : next = Uids(file, next)
<1> DEFINE N == Len(file)
           Upto(k, f) == f = [n \in 0..k |->
                IF n = 0 THEN FirstUid
                ELSE IF file[n].uid >= f[n - 1] THEN (file[n].uid + 1) % UidLimit
                ELSE f[n - 1]]
           Bad == {k \in 0..N : ~ \E f : Upto(k, f)}
<1>1. N \in Nat
  OBVIOUS
<1>2. ASSUME Bad # {}
      PROVE  FALSE
  <2>0. Bad \subseteq Nat
    BY <1>1
  <2>1. PICK k \in Bad : \A j \in Bad : k <= j
    <3> HIDE DEF Bad
    <3> QED
      BY <1>2, <2>0, FirstLineIsLeast
  <2>2. k # 0
    <3>1. Upto(0, [n \in 0..0 |-> FirstUid])
      OBVIOUS
    <3> QED
      BY <3>1
  <2>3. PICK f : Upto(k - 1, f)
    <3>1. k - 1 \in 0..N /\ ~ (k <= k - 1)
      BY <2>1, <2>2
    <3> QED
      BY <2>1, <3>1
  <2> DEFINE g == [n \in 0..k |->
                IF n = 0 THEN FirstUid
                ELSE IF file[n].uid >= f[n - 1] THEN (file[n].uid + 1) % UidLimit
                ELSE f[n - 1]]
  <2>4. k \in Nat /\ k > 0
    BY <2>1, <2>2
  <2>5. \A n \in 0..(k - 1) : g[n] = f[n]
    BY <2>3, <2>4
  <2>6. \A n \in 0..k : n # 0 => n - 1 \in 0..(k - 1)
    BY <2>4
  <2>7. Upto(k, g)
    BY <2>5, <2>6
  <2> QED
    BY <2>1, <2>7
<1>3. \E f : Upto(N, f)
  <2>1. N \in 0..N /\ N \notin Bad
    <3> HIDE DEF Bad
    <3> QED
      BY <1>1, <1>2
  <2> HIDE DEF Upto, N
  <2> QED
    BY <2>1
<1> QED
  BY <1>3 DEF Uids

\* Unless a line has the last uid there is, next_uid is above every uid.
LEMMA NextUidIsNew ==
    ASSUME NEW file \in Seq(AccountLine)
    PROVE  /\ NextUid(file) \in 0..(UidLimit - 1)
           /\ (\A i \in DOMAIN file : file[i].uid < UidLimit - 1)
              => \A i \in DOMAIN file : file[i].uid # NextUid(file)
<1> DEFINE next == CHOOSE f : f = Uids(file, f)
           N == Len(file)
<1>1. next = Uids(file, next) /\ NextUid(file) = next[N] /\ N \in Nat
  <2>1. next = Uids(file, next)
    BY UidsExist, Zenon
  <2>2. NextUid(file) = next[N]
    BY DEF Uids, NextUid
  <2>3. N \in Nat
    OBVIOUS
  <2> QED
    BY <2>1, <2>2, <2>3
<1> HIDE DEF next
<1>2. /\ DOMAIN file = 1..N
      /\ \A i \in 1..N : file[i].uid \in Nat
  <2>1. DOMAIN file = 1..N /\ \A i \in 1..N : file[i] \in AccountLine
    OBVIOUS
  <2> QED
    BY <2>1 DEF AccountLine
<1>3. /\ next[0] = FirstUid
      /\ \A n \in 1..N :
            next[n] = IF file[n].uid >= next[n - 1] THEN (file[n].uid + 1) % UidLimit
                      ELSE next[n - 1]
  <2>1. 0 \in 0..N /\ \A n \in 1..N : n \in 0..N /\ n # 0
    BY <1>1
  <2>2. next = [n \in 0..N |->
                   IF n = 0 THEN FirstUid
                   ELSE IF file[n].uid >= next[n - 1] THEN (file[n].uid + 1) % UidLimit
                   ELSE next[n - 1]]
    BY <1>1 DEF Uids
  <2> HIDE DEF N
  <2> QED
    BY <2>1, <2>2
<1> DEFINE Wrong == {n \in 0..N : ~ next[n] \in 0..(UidLimit - 1)}
           Low == {n \in 0..N : \E i \in 1..n : ~ (file[i].uid < next[n])}
<1>4. ASSUME Wrong # {}
      PROVE  FALSE
  <2>1. Wrong \subseteq Nat
    OBVIOUS
  <2>2. PICK n \in Wrong : \A k \in Wrong : n <= k
    <3> HIDE DEF Wrong
    <3> QED
      BY <1>4, <2>1, FirstLineIsLeast
  <2>3. n \in 1..N
    BY <1>1, <1>3, <2>2, DbAssumption
  <2>4. next[n - 1] \in 0..(UidLimit - 1)
    <3>1. n - 1 \in 0..N /\ ~ (n <= n - 1)
      BY <2>3
    <3> QED
      BY <2>2, <3>1
  <2>5. (file[n].uid + 1) % UidLimit \in 0..(UidLimit - 1)
    BY <1>2, <2>3, DbAssumption
  <2> QED
    BY <1>3, <2>2, <2>3, <2>4, <2>5
<1>5. ASSUME \A i \in DOMAIN file : file[i].uid < UidLimit - 1, Low # {}
      PROVE  FALSE
  <2>1. Low \subseteq Nat
    OBVIOUS
  <2>2. PICK n \in Low : \A k \in Low : n <= k
    <3> HIDE DEF Low
    <3> QED
      BY <1>5, <2>1, FirstLineIsLeast
  <2>3. n \in 1..N
    BY <1>1, <2>2
  <2>4. \A i \in 1..(n - 1) : file[i].uid < next[n - 1]
    <3>1. n - 1 \in 0..N /\ ~ (n <= n - 1)
      BY <2>3
    <3> QED
      BY <2>2, <3>1
  <2>5. next[n - 1] \in 0..(UidLimit - 1) /\ file[n].uid \in 0..(UidLimit - 2)
    <3>1. n - 1 \in 0..N /\ n \in DOMAIN file
      BY <1>2, <2>3
    <3>2. file[n].uid \in Nat /\ file[n].uid < UidLimit - 1
      BY <1>2, <1>5, <2>3, <3>1
    <3> QED
      BY <1>4, <3>1, <3>2, DbAssumption, SMTT(30)
  <2>6. (file[n].uid + 1) % UidLimit = file[n].uid + 1
    <3>1. file[n].uid + 1 \in 0..(UidLimit - 1) /\ UidLimit \in Nat
      BY <2>5, DbAssumption
    <3> QED
      BY <3>1, SmallRemainder
  <2>8. ASSUME NEW i \in 1..n
        PROVE  file[i].uid < next[n]
    <3>1. file[n].uid < next[n] /\ next[n - 1] <= next[n]
      BY <1>3, <2>3, <2>5, <2>6, DbAssumption, SMTT(30)
    <3>2. CASE i = n
      BY <3>1, <3>2
    <3>3. CASE i # n
      <4>1. i \in 1..N /\ i \in 1..(n - 1)
        BY <1>1, <2>3, <3>3
      <4>2. file[i].uid < next[n - 1] /\ file[i].uid \in Nat
        BY <1>2, <2>4, <4>1, DbAssumption
      <4>3. n \in 0..N
        BY <2>3
      <4>4. next[n] \in 0..(UidLimit - 1)
        BY <1>4, <4>3
      <4>5. next[n] \in Int /\ next[n - 1] \in Int
        BY <2>5, <4>4, DbAssumption
      <4> HIDE DEF N
      <4> QED
        BY <3>1, <4>2, <4>5
    <3> QED
      BY <3>2, <3>3
  <2> QED
    BY <2>2, <2>8
<1>6. NextUid(file) \in 0..(UidLimit - 1)
  BY <1>1, <1>4
<1>7. ASSUME \A i \in DOMAIN file : file[i].uid < UidLimit - 1, NEW i \in DOMAIN file
      PROVE  file[i].uid # NextUid(file)
  <2>1. ~ (N \in Low)
    BY <1>5, <1>7
  <2>2. file[i].uid < NextUid(file)
    BY <1>1, <1>2, <2>1
  <2> QED
    BY <1>2, <1>6, <2>2
<1> QED
  BY <1>6, <1>7

----------------------------------------------------------------------------
(* What a step changes *)

\* adduser changes the account files at two steps, each time by one line at the end.
LEMMA AdduserChanges ==
    ASSUME TypeOK, AddTypeOK, Adduser
    PROVE  /\ UNCHANGED <<tmp, lock, pc, job, tries, pos, found, cut, rc, last>>
           /\ AddTypeOK'
           /\ \/ accounts' = accounts
              \/ /\ AppendPasswd
                 /\ \E n \in Nat : accounts' = Append(accounts, [name |-> add.user, uid |-> n])
           /\ \/ shadow' = shadow
              \/ /\ AppendShadow
                 /\ shadow' = Append(shadow, NewLine(add.user, add.hash, DefaultAging))
<1> USE DEF AddType, NoAdd, AddStep, AddGoto, LeaveOthers, procvars, AddTypeOK
<1>1. CASE AddUser
  <2>1. PICK u \in NewName : add' = [NoAdd EXCEPT !.pc = "password", !.user = u]
    BY <1>1 DEF AddUser
  <2> QED
    BY <1>1, <2>1 DEF AddUser
<1>2. CASE AddPassword
  BY <1>2 DEF AddPassword
<1>3. CASE AppendPasswd
  <2>1. PICK n \in 0..Len(accounts) :
            accounts' = Append(accounts,
                [name |-> add.user, uid |-> NextUid(SubSeq(accounts, 1, n))])
    BY <1>3 DEF AppendPasswd
  <2>2. accounts \in Seq(AccountLine) /\ n \in Nat /\ n <= Len(accounts)
    BY <2>1 DEF TypeOK
  <2>3. NextUid(SubSeq(accounts, 1, n)) \in Nat
    <3>1. SubSeq(accounts, 1, n) \in Seq(AccountLine)
      BY <2>2, FirstLines
    <3>2. NextUid(SubSeq(accounts, 1, n)) \in 0..(UidLimit - 1)
      BY <3>1, NextUidIsNew
    <3> QED
      BY <3>2, DbAssumption
  <2> QED
    BY <1>3, <2>1, <2>3 DEF AppendPasswd
<1>4. CASE OpenShadowToAppend
  BY <1>4 DEF OpenShadowToAppend
<1>5. CASE AppendShadow
  BY <1>5 DEF AppendShadow
<1>6. CASE AddToGroups
  BY <1>6 DEF AddToGroups
<1>7. CASE AddFails
  BY <1>7 DEF AddFails
<1> QED
  BY <1>1, <1>2, <1>3, <1>4, <1>5, <1>6, <1>7 DEF Adduser

\* A passwd(1) changes /etc/shadow, and the history with it, when it renames.
LEMMA PasswdChanges ==
    ASSUME TypeOK, AddTypeOK, NotYetOk, Passwd
    PROVE  /\ [Next]_vars /\ UNCHANGED <<accounts, blind>>
           /\ add'.pc = add.pc /\ add'.user = add.user /\ AddTypeOK'
           /\ NotYetOk'
           /\ \/ \E p \in Proc : Rename(p) /\ last' = LastAfter(p)
              \/ shadow' = shadow /\ last' = last /\ \A p \in Proc : ~ Rename(p)
<1>0. Next
  BY DEF Passwd
<1>1. PICK p \in Proc : Dialogue(p) \/ SetHash(p) \/ Die(p)
  BY <1>0 DEF Next
<1>2. accounts' = accounts
  BY <1>1 DEF Dialogue, Start, DenyStart, ReadCurrent, Verify, Deny, ChooseNew, SetHash,
         Locking, TryLock, LockBusy, GiveUp, Replacing, OpenShadow, OpenTmp, OpenFails,
         CopyLine, FinishCopy, Rename, WriteFails, Unlock, Die
<1>3. NotYetOk'
  BY <1>0, OkStep
<1>4. CASE Rename(p)
  <2>1. Renames(p) /\ \A q \in Proc : Renames(q) => q = p
    BY <1>4 DEF TypeOK, NotYetOk, Rename, Renames
  <2>2. p = CHOOSE q \in Proc : Renames(q)
    BY <2>1
  <2>3. /\ last' = LastAfter(p)
        /\ add' = [add EXCEPT !.stale = @ \/ add.pc = "shadow"]
    BY <2>1, <2>2 DEF Passwd
  <2>4. job[p].target \in Name /\ job[p].hash \in Password
    BY <1>4 DEF TypeOK, Rename, InCall
  <2>5. AddTypeOK' /\ add'.pc = add.pc /\ add'.user = add.user
    BY <2>3, <2>4 DEF AddTypeOK, AddType, LastAfter
  <2> QED
    BY <1>0, <1>2, <1>3, <1>4, <2>3, <2>5 DEF Passwd
<1>5. CASE ~ Rename(p)
  <2>1. shadow' = shadow /\ \A q \in Proc : ~ Renames(q) /\ ~ Rename(q)
    <3>1. /\ shadow' = shadow
          /\ \/ rc' = rc
             \/ rc' = [rc EXCEPT ![p] = "none"] \/ rc' = [rc EXCEPT ![p] = "failed"]
             \/ rc' = [rc EXCEPT ![p] = IF @ = "ok" THEN "ok" ELSE "none"]
      <4> USE DEF Goto, Ends, Exits, filevars, procvars
      <4>1. CASE Dialogue(p)
        BY <4>1 DEF Dialogue, Start, DenyStart, ReadCurrent, Verify, Deny, ChooseNew
      <4>2. CASE Locking(p)
        BY <4>2 DEF Locking, TryLock, LockBusy, GiveUp
      <4>3. CASE Replacing(p)
        BY <1>5, <4>3 DEF Replacing, OpenShadow, OpenTmp, OpenFails, CopyLine, FinishCopy,
             WriteFails, Unlock
      <4>4. CASE Die(p)
        BY <4>4 DEF Die
      <4> QED
        BY <1>1, <4>1, <4>2, <4>3, <4>4 DEF SetHash
    <3>2. \A q \in Proc : ~ Renames(q)
      BY <3>1 DEF TypeOK, Renames
    <3>3. ASSUME NEW q \in Proc, Rename(q) PROVE FALSE
      <4>1. rc[q] # "ok" /\ rc'[q] = "ok"
        BY <3>3 DEF TypeOK, NotYetOk, Rename
      <4> QED
        BY <3>2, <4>1 DEF Renames
    <3> QED
      BY <3>1, <3>2, <3>3
  <2>2. last' = last /\ add' = add
    BY <2>1 DEF Passwd
  <2> QED
    BY <1>0, <1>2, <1>3, <2>1, <2>2 DEF Passwd, AddTypeOK
<1> QED
  BY <1>4, <1>5

----------------------------------------------------------------------------
(* Type correctness and the lock *)

\* What a process is writing is a shadow file.
LEMMA TmpIsFile ==
    ASSUME TypeOK, NEW p \in Proc, Copying(p), pc[p] \in Writing
    PROVE  tmp \in Seq(ShadowLine)
<1>1. job[p].target \in Name /\ job[p].hash \in Password
  BY DEF TypeOK, InCall, Writing
<1>2. CASE pc[p] = "copy"
  <2>1. pos[p] - 1 \in Nat /\ pos[p] - 1 <= Len(shadow)
    BY <1>2 DEF TypeOK, Copying, CopiedPrefix
  <2>2. \A i \in 1..(pos[p] - 1) :
            RewriteLine(shadow[i], job[p].target, job[p].hash) \in ShadowLine
    BY <1>1, <2>1, RewriteLineType DEF TypeOK
  <2> QED
    BY <1>2, <2>1, <2>2, IsASeq DEF Copying, CopiedPrefix
<1>3. CASE pc[p] = "rename"
  BY <1>1, <1>3, ReadType, RewrittenType DEF Copying, WroteRead
<1> QED
  BY <1>2, <1>3 DEF Writing

\* No step of adduser or passwd(1) breaks the types of the files.
LEMMA DbTypeStep ==
    ASSUME DbInv, [DbNext]_dbvars
    PROVE  TypeOK' /\ AddTypeOK'
<1> USE DEF DbInv
<1>1. CASE Passwd
  <2>1. AddTypeOK' /\ Next
    BY <1>1, PasswdChanges DEF Passwd
  <2>2. ASSUME NEW p \in Proc, Dialogue(p) \/ SetHash(p) \/ Die(p)
        PROVE  TypeOK'
    BY <2>2, TmpIsFile, DialogueType, LockingType, ReplacingType, DieType DEF SetHash
  <2> QED
    BY <2>1, <2>2 DEF Next
<1>2. CASE Adduser
  <2>1. /\ UNCHANGED <<tmp, lock, pc, job, tries, pos, found, cut, rc>> /\ AddTypeOK'
        /\ \/ accounts' = accounts
           \/ /\ AppendPasswd
              /\ \E n \in Nat : accounts' = Append(accounts, [name |-> add.user, uid |-> n])
        /\ \/ shadow' = shadow
           \/ /\ AppendShadow
              /\ shadow' = Append(shadow, NewLine(add.user, add.hash, DefaultAging))
    BY <1>2, AdduserChanges
  <2>2. accounts' \in Seq(AccountLine)
    <3>1. ASSUME AppendPasswd, NEW n \in Nat
          PROVE  [name |-> add.user, uid |-> n] \in AccountLine
      BY <3>1 DEF AppendPasswd, AddTypeOK, AccountLine
    <3>2. accounts \in Seq(AccountLine)
      BY DEF TypeOK
    <3>3. ASSUME AppendPasswd, NEW n \in Nat,
                 accounts' = Append(accounts, [name |-> add.user, uid |-> n])
          PROVE  accounts' \in Seq(AccountLine)
      BY <3>1, <3>2, <3>3
    <3> QED
      BY <2>1, <3>2, <3>3
  <2>3. shadow' \in Seq(ShadowLine)
    <3>1. ASSUME AppendShadow
          PROVE  NewLine(add.user, add.hash, DefaultAging) \in ShadowLine
      BY <3>1, AgingAssumption DEF AppendShadow, AddTypeOK, ShadowLine, Stored, NewLine
    <3>2. shadow \in Seq(ShadowLine)
      BY DEF TypeOK
    <3> QED
      BY <2>1, <3>1, <3>2
  <2> QED
    BY <2>1, <2>2, <2>3 DEF TypeOK
<1>3. CASE UNCHANGED dbvars
  BY <1>3 DEF dbvars, vars, filevars, procvars, TypeOK, AddTypeOK
<1> QED
  BY <1>1, <1>2, <1>3 DEF DbNext

\* adduser does not come near the lock.
LEMMA DbLockStep ==
    ASSUME DbInv, [DbNext]_dbvars
    PROVE  LockProtects' /\ NotYetOk'
<1> USE DEF DbInv
<1>1. CASE Passwd
  BY <1>1, PasswdChanges, LockStep
<1>2. CASE UNCHANGED <<lock, pc, rc>>
  BY <1>2 DEF LockProtects, NotYetOk
<1> QED
  BY <1>1, <1>2, AdduserChanges DEF DbNext, dbvars, vars, procvars

----------------------------------------------------------------------------
(* What a passwd(1) has copied *)

\* A process that does nothing keeps what it has copied when /etc/shadow only grows
\* at its end.
LEMMA CopyKept ==
    ASSUME TypeOK, NEW q \in Proc, Copying(q), tmp' = tmp, last' = last,
           pc'[q] = pc[q], pos'[q] = pos[q], job'[q] = job[q], found'[q] = found[q],
           cut'[q] = cut[q], shadow' = shadow \/ \E l : shadow' = Append(shadow, l)
    PROVE  Copying(q)'
<1>1. /\ Len(shadow') \in Nat /\ Len(shadow) <= Len(shadow')
      /\ \A i \in 1..Len(shadow) : shadow'[i] = shadow[i]
      /\ Len(shadow) \in Nat /\ pos[q] - 1 \in Nat
      /\ \E S : shadow \in Seq(S) /\ shadow' \in Seq(S)
  <2>1. shadow \in Seq(ShadowLine) /\ Len(shadow) \in Nat /\ pos[q] - 1 \in Nat
    BY DEF TypeOK
  <2>2. CASE shadow' = shadow
    BY <2>1, <2>2
  <2>3. CASE \E l : shadow' = Append(shadow, l)
    <3>1. PICK l : shadow' = Append(shadow, l)
      BY <2>3
    <3> DEFINE S == ShadowLine \cup {l}
    <3>2. shadow \in Seq(S) /\ l \in S
      BY <2>1
    <3> HIDE DEF S
    <3>3. /\ shadow' \in Seq(S) /\ Len(shadow') = Len(shadow) + 1
          /\ \A i \in 1..Len(shadow) : shadow'[i] = shadow[i]
      BY <3>1, <3>2
    <3> QED
      BY <2>1, <3>2, <3>3
  <2> QED
    BY <2>2, <2>3
<1>2. ASSUME pos[q] <= Len(shadow) + 1
      PROVE  /\ pos[q] <= Len(shadow') + 1
             /\ \A i \in 1..(pos[q] - 1) : shadow'[i] = shadow[i]
             /\ LinesRead(q)' = LinesRead(q)
             /\ Copied(q)' = Copied(q)
  <2>1. pos[q] \in Nat \ {0}
    BY DEF TypeOK
  <2>2. \A i \in 1..(pos[q] - 1) : i \in 1..Len(shadow)
    BY <1>1, <1>2, <2>1
  <2>3. Copied(q)' = Copied(q)
    BY <1>1, <2>2 DEF Copied
  <2>4. PICK S : shadow \in Seq(S) /\ shadow' \in Seq(S)
    BY <1>1
  <2>5. /\ SubSeq(shadow, 1, pos[q] - 1) = [i \in 1..(pos[q] - 1) |-> shadow[i]]
        /\ SubSeq(shadow', 1, pos[q] - 1) = [i \in 1..(pos[q] - 1) |-> shadow'[i]]
    <3>1. pos[q] - 1 <= Len(shadow) /\ pos[q] - 1 <= Len(shadow')
      BY <1>1, <1>2, <2>1
    <3> QED
      BY <1>1, <2>4, <3>1, FirstLines
  <2>6. LinesRead(q)' = LinesRead(q)
    BY <1>1, <2>2, <2>5 DEF LinesRead
  <2> QED
    BY <1>1, <1>2, <2>1, <2>2, <2>3, <2>6
<1>3. CASE pc[q] = "copy"
  BY <1>2, <1>3 DEF Copying, CopiedPrefix
<1>4. CASE pc[q] = "rename"
  BY <1>2, <1>4 DEF Copying, WroteRead
<1>5. CASE pc[q] \notin Writing
  BY <1>5 DEF Copying, Writing
<1> QED
  BY <1>3, <1>4, <1>5 DEF Writing

\* When a copy is finished it is the rewrite of the lines read, and everybody whose
\* password was set is among them if these are all the lines then in the file.
LEMMA CopyFinished ==
    ASSUME TypeOK, AddTypeOK, PasswordChangeStays, NEW p \in Proc, Copying(p),
           FinishCopy(p), last' = last
    PROVE  WroteRead(p)'
<1>1. CopiedPrefix(p)
  BY DEF Copying, FinishCopy
<1>2. shadow' = shadow /\ pos' = pos /\ job' = job
  BY DEF FinishCopy
<1>3. /\ pos[p] <= Len(shadow) + 1
      /\ cut'[p] <=> pos[p] <= Len(shadow)
      /\ tmp' = Rewritten(LinesRead(p), job[p].target, job[p].hash)
  BY <1>1, FinishCopyStep
<1>4. ASSUME ~ cut'[p], NEW v \in Name, last[v] # Absent
      PROVE  v \in Copied(p)
  <2>1. LinesOf(shadow, v) # {}
    BY <1>4 DEF PasswordChangeStays, ShadowHash
  <2>2. pos[p] - 1 = Len(shadow) /\ DOMAIN shadow = 1..Len(shadow)
    BY <1>3, <1>4 DEF TypeOK
  <2> QED
    BY <2>1, <2>2 DEF LinesOf, Copied
<1>5. LinesRead(p)' = LinesRead(p) /\ Copied(p)' = Copied(p)
  BY <1>2 DEF LinesRead, Copied
<1> QED
  BY <1>2, <1>3, <1>4, <1>5 DEF WroteRead

\* No step of adduser or of another passwd(1) spoils a copy.
LEMMA CopyingStep ==
    ASSUME DbInv, [DbNext]_dbvars, NEW q \in Proc
    PROVE  Copying(q)'
<1> USE DEF DbInv
<1>0. Copying(q)
  OBVIOUS
<1>1. CASE Adduser
  BY <1>0, <1>1, AdduserChanges, CopyKept
<1>2. CASE UNCHANGED dbvars
  BY <1>0, <1>2, CopyKept DEF dbvars, vars, filevars, procvars
<1>3. ASSUME Passwd, NEW p \in Proc, Dialogue(p) \/ Locking(p) \/ Die(p)
      PROVE  Copying(q)'
  <2>1. shadow' = shadow /\ tmp' = tmp /\ ~ Rename(p)
    BY <1>3 DEF TypeOK, Dialogue, Start, DenyStart, ReadCurrent, Verify, Deny, ChooseNew,
                Locking, TryLock, LockBusy, GiveUp, Die, filevars, Rename, Goto, Exits, Ends
  <2>2. CASE q = p
    <3>1. pc'[p] \notin Writing
      BY <1>3 DEF TypeOK, Dialogue, Start, DenyStart, ReadCurrent, Verify, Deny,
                  ChooseNew, Locking, TryLock, LockBusy, GiveUp, Die, Goto, Ends,
                  Exits, Writing
    <3> QED
      BY <2>2, <3>1 DEF Copying, Writing
  <2>3. CASE q # p
    <3>1. pc'[q] = pc[q] /\ pos'[q] = pos[q] /\ job'[q] = job[q] /\ found'[q] = found[q]
          /\ cut'[q] = cut[q]
      BY <1>3, <2>3 DEF TypeOK, Dialogue, Start, DenyStart, ReadCurrent, Verify,
                  Deny, ChooseNew, Locking, TryLock, LockBusy, GiveUp, Die, Goto,
                  Ends, Exits, procvars
    <3>2. \A r \in Proc : ~ Rename(r)
      BY <1>3, <2>1 DEF TypeOK, Dialogue, Start, DenyStart, ReadCurrent, Verify,
                  Deny, ChooseNew, Locking, TryLock, LockBusy, GiveUp, Die, Goto,
                  Ends, Exits, Rename
    <3>3. last' = last
      BY <1>3, <3>2, PasswdChanges
    <3> QED
      BY <1>0, <2>1, <3>1, <3>3, CopyKept
  <2> QED
    BY <2>2, <2>3
<1>4. ASSUME Passwd, NEW p \in Proc, Replacing(p)
      PROVE  Copying(q)'
  <2>1. pc[p] \in Holding
    BY <1>4 DEF Replacing, OpenShadow, OpenTmp, OpenFails, CopyLine, FinishCopy, Rename,
                WriteFails, Unlock, Holding, InCall, Writing
  <2>2. CASE q # p
    <3>1. pc'[q] = pc[q]
      BY <1>4, <2>2 DEF TypeOK, Replacing, OpenShadow, OpenTmp, OpenFails, CopyLine,
                FinishCopy, Rename, WriteFails, Unlock, Goto, Exits
    <3>2. pc[q] \notin Holding
      BY <2>1, <2>2 DEF LockProtects
    <3> QED
      BY <3>1, <3>2 DEF Copying, Holding, InCall, Writing
  <2>3. CASE q = p /\ CopyLine(p)
    <3>1. pc[p] = "copy" /\ pc' = pc
      BY <2>3 DEF CopyLine
    <3>2. CopiedPrefix(p)'
      BY <1>0, <2>3, <3>1, CopyLineStep DEF Copying
    <3> QED
      BY <2>3, <3>1, <3>2 DEF Copying
  <2>4. CASE q = p /\ FinishCopy(p)
    <3>1. pc'[p] = "rename" /\ \A r \in Proc : ~ Rename(r)
      BY <2>4 DEF FinishCopy, Goto, TypeOK, Rename
    <3>2. last' = last
      BY <1>4, <3>1, PasswdChanges
    <3> QED
      BY <1>0, <2>4, <3>1, <3>2, CopyFinished DEF Copying
  <2>5. CASE q = p /\ OpenTmp(p)
    <3>1. /\ pc'[p] = "copy" /\ pos'[p] = 1 /\ found'[p] = FALSE
          /\ tmp' = <<>> /\ shadow' = shadow /\ Len(shadow) \in Nat
      BY <2>5 DEF OpenTmp, Goto, TypeOK
    <3>2. CopiedPrefix(p)'
      BY <3>1 DEF CopiedPrefix
    <3> QED
      BY <2>5, <3>1, <3>2 DEF Copying
  <2>6. CASE q = p /\ ~ CopyLine(p) /\ ~ FinishCopy(p) /\ ~ OpenTmp(p)
    <3>1. pc'[p] \notin Writing
      BY <1>4, <2>6 DEF TypeOK, Replacing, OpenShadow, OpenFails, Rename, WriteFails,
                Unlock, Goto, Exits, Writing
    <3> QED
      BY <2>6, <3>1 DEF Copying, Writing
  <2> QED
    BY <2>2, <2>3, <2>4, <2>5, <2>6
<1> QED
  BY <1>1, <1>2, <1>3, <1>4 DEF DbNext, Passwd, Next, SetHash

----------------------------------------------------------------------------
(* Passwords *)

\* A rename makes the target's password the new one and keeps that of everybody
\* else whose password was ever set and whom no failed read hid.
LEMMA RenameKeepsPasswords ==
    ASSUME DbInv, NEW p \in Proc, Rename(p),
           last' = LastAfter(p)
    PROVE  PasswordChangeStays'
<1> USE DEF DbInv
<1> DEFINE t == job[p].target
           h == job[p].hash
           k == pos[p] - 1
<1>1. WroteRead(p) /\ t \in Name /\ h \in Password /\ shadow' = tmp
  BY DEF TypeOK, Copying, Rename, InCall
<1>2. /\ LinesRead(p) \in Seq(ShadowLine) /\ Len(LinesRead(p)) = k
      /\ LinesRead(p) = [i \in 1..k |-> shadow[i]]
      /\ k \in Nat /\ k <= Len(shadow)
  BY <1>1, ReadType DEF WroteRead, TypeOK
<1>3. shadow' = Rewritten(LinesRead(p), t, h) /\ shadow' \in Seq(ShadowLine)
  BY <1>1, <1>2, RewrittenType DEF WroteRead
<1>4. SUFFICES ASSUME NEW u \in Name, last'[u] # Absent
               PROVE  ShadowHash(shadow', u) = last'[u]
  BY DEF PasswordChangeStays
<1>5. CASE u = t
  <2>1. ShadowHash(shadow', t) = h
    BY <1>1, <1>2, <1>3, RewrittenHashes
  <2> QED
    BY <1>1, <1>5, <2>1 DEF LastAfter
<1>6. CASE u # t
  <2>1. last'[u] = last[u] /\ ShadowHash(shadow, u) = last[u]
    BY <1>4, <1>6 DEF LastAfter, PasswordChangeStays
  <2>2. \E i \in 1..k : shadow[i].name = u
    <3>1. ~ cut[p] \/ u \in Copied(p)
      BY <1>4, <1>6 DEF LastAfter
    <3>2. u \in Copied(p)
      BY <1>1, <1>4, <2>1, <3>1 DEF WroteRead
    <3> QED
      BY <3>2 DEF Copied
  <2>3. \A i \in 1..k : /\ i \in DOMAIN shadow'
                        /\ shadow'[i].name = LinesRead(p)[i].name
                        /\ LinesRead(p)[i].name # t => shadow'[i] = LinesRead(p)[i]
    BY <1>1, <1>2, <1>3, RewrittenLines
  <2>4. \A i \in 1..k : LinesRead(p)[i] = shadow[i]
    BY <1>2
  <2>5. k <= Len(shadow')
    <3>1. CASE k = 0
      BY <1>3, <3>1
    <3>2. CASE k # 0
      <4>1. k \in Nat /\ \A i \in 1..k : i \in DOMAIN shadow'
        BY <1>2, <2>3
      <4>2. DOMAIN shadow' = 1..Len(shadow') /\ Len(shadow') \in Nat
        BY <1>3
      <4> HIDE DEF k
      <4> QED
        BY <3>2, <4>1, <4>2
    <3> QED
      BY <3>1, <3>2
  <2>6. \A i \in 1..k : /\ shadow'[i].name = shadow[i].name
                        /\ shadow[i].name = u => shadow'[i].hash = shadow[i].hash
    BY <1>6, <2>3, <2>4
  <2>7. shadow \in Seq(ShadowLine)
    BY DEF TypeOK
  <2> HIDE DEF k, t, h
  <2>8. ShadowHash(shadow', u) = ShadowHash(shadow, u)
    <3>1. SameStart(shadow, shadow', u, k)
      BY <1>2, <2>2, <2>5, <2>6 DEF SameStart
    <3> QED
      BY <1>2, <1>3, <2>7, <3>1, SameFirst
  <2> QED
    BY <2>1, <2>8
<1> QED
  BY <1>5, <1>6

\* A line adduser appends hides no line that is already there.
LEMMA AppendKeepsPasswords ==
    ASSUME TypeOK, PasswordChangeStays, last' = last, NEW l \in ShadowLine,
           shadow' = Append(shadow, l)
    PROVE  PasswordChangeStays'
<1> SUFFICES ASSUME NEW u \in Name, last[u] # Absent
             PROVE  ShadowHash(shadow', u) = last[u]
  BY DEF PasswordChangeStays
<1>1. ShadowHash(shadow, u) = last[u] /\ LinesOf(shadow, u) # {}
  BY DEF PasswordChangeStays, ShadowHash
<1>2. /\ shadow \in Seq(ShadowLine) /\ shadow' \in Seq(ShadowLine)
      /\ Len(shadow) \in Nat /\ Len(shadow) <= Len(shadow')
      /\ \A i \in 1..Len(shadow) : shadow'[i] = shadow[i]
  BY DEF TypeOK
<1>3. \E i \in 1..Len(shadow) : shadow[i].name = u
  BY <1>1, <1>2 DEF LinesOf
<1>4. \A i \in 1..Len(shadow) : /\ shadow'[i].name = shadow[i].name
                                /\ shadow[i].name = u => shadow'[i].hash = shadow[i].hash
  BY <1>2
<1>5. Len(shadow) <= Len(shadow)
  BY <1>2
<1>6. ShadowHash(shadow', u) = ShadowHash(shadow, u)
  <2>1. SameStart(shadow, shadow', u, Len(shadow))
    BY <1>2, <1>3, <1>4, <1>5 DEF SameStart
  <2> QED
    BY <1>2, <2>1, SameFirst
<1> QED
  BY <1>1, <1>6

\* No step undoes a password change that was reported.
LEMMA PasswordStep ==
    ASSUME DbInv, [DbNext]_dbvars
    PROVE  PasswordChangeStays'
<1> USE DEF DbInv
<1>1. CASE shadow' = shadow /\ last' = last
  BY <1>1 DEF PasswordChangeStays
<1>2. CASE Passwd
  BY <1>1, <1>2, PasswdChanges, RenameKeepsPasswords
<1>3. CASE Adduser
  <2>1. CASE AppendShadow
    <3>1. NewLine(add.user, add.hash, DefaultAging) \in ShadowLine
      BY <2>1, AgingAssumption DEF AppendShadow, AddTypeOK, ShadowLine, Stored, NewLine
    <3> QED
      BY <1>1, <1>3, <3>1, AdduserChanges, AppendKeepsPasswords
  <2>2. CASE ~ AppendShadow
    BY <1>1, <1>3, <2>2, AdduserChanges
  <2> QED
    BY <2>1, <2>2
<1> QED
  BY <1>1, <1>2, <1>3 DEF DbNext, dbvars, vars, filevars

----------------------------------------------------------------------------
(* The theorems *)

\* The invariant of the two programs holds of every run, for any number of passwd(1)
\* processes.
THEOREM DbInvariance == DbSpec => []DbInv
<1>1. DbInit => DbInv
  <2> SUFFICES ASSUME DbInit
               PROVE  DbInv
    OBVIOUS
  <2>1. TypeOK
    BY InitType DEF DbInit
  <2>2. AddTypeOK
    BY DEF DbInit, AddTypeOK, NoAdd, AddType, AddStep
  <2>3. PasswordChangeStays
    BY DEF DbInit, PasswordChangeStays
  <2> QED
    BY <2>1, <2>2, <2>3 DEF DbInit, Init, DbInv, LockProtects, Holding, InCall,
                             NotYetOk, Copying
<1>2. DbInv /\ [DbNext]_dbvars => DbInv'
  BY DbTypeStep, DbLockStep, CopyingStep, PasswordStep DEF DbInv
<1> QED
  BY <1>1, <1>2, PTL DEF DbSpec

\* lock_accounts still excludes passwd(1) from passwd(1) beside an adduser.
THEOREM DbMutualExclusion == DbSpec => []LockProtects
<1>1. DbInv => LockProtects
  BY DEF DbInv
<1> QED
  BY DbInvariance, <1>1, PTL

\* What passwd(1) reported stays what logs its user in, whatever adduser, which takes
\* no lock, does, and other passwd(1) processes that can read /etc/shadow.
THEOREM PasswordStays == DbSpec => []PasswordChangeStays
<1>1. DbInv => PasswordChangeStays
  BY DEF DbInv
<1> QED
  BY DbInvariance, <1>1, PTL

\* A step that takes a line out of /etc/shadow is the rename of a process that has not
\* read that line.
LEMMA LossStep ==
    ASSUME DbInv, [DbNext]_dbvars, NEW i \in DOMAIN shadow,
           ~ (i \in DOMAIN shadow' /\ shadow'[i].name = shadow[i].name)
    PROVE  \E p \in Proc : pc[p] = "rename" /\ pos[p] <= i
<1> USE DEF DbInv
<1>0. shadow \in Seq(ShadowLine) /\ DOMAIN shadow = 1..Len(shadow) /\ Len(shadow) \in Nat
  BY DEF TypeOK
<1>1. ~ Adduser
  <2>1. ASSUME NEW l, shadow' = Append(shadow, l)
        PROVE  FALSE
    BY <1>0, <2>1
  <2>2. shadow' # shadow
    OBVIOUS
  <2> QED
    BY <2>1, <2>2, AdduserChanges
<1>2. PICK p \in Proc : Rename(p)
  BY <1>1, PasswdChanges DEF DbNext, dbvars, vars, filevars
<1>3. /\ WroteRead(p) /\ job[p].target \in Name /\ job[p].hash \in Password
      /\ shadow' = Rewritten(LinesRead(p), job[p].target, job[p].hash)
      /\ pc[p] = "rename" /\ pos[p] \in Nat
  BY <1>2 DEF TypeOK, Copying, Rename, InCall, WroteRead
<1>4. /\ LinesRead(p) \in Seq(ShadowLine) /\ Len(LinesRead(p)) = pos[p] - 1
      /\ LinesRead(p) = [k \in 1..(pos[p] - 1) |-> shadow[k]]
  BY <1>3, ReadType DEF WroteRead
<1>5. ASSUME i < pos[p]
      PROVE  FALSE
  <2>1. i \in 1..(pos[p] - 1) /\ LinesRead(p)[i] = shadow[i]
    BY <1>0, <1>3, <1>4, <1>5
  <2>2. i \in DOMAIN shadow' /\ shadow'[i].name = LinesRead(p)[i].name
    BY <1>3, <1>4, <2>1, RewrittenLines
  <2> QED
    BY <2>1, <2>2
<1> QED
  BY <1>0, <1>3, <1>5

\* A line of /etc/shadow is lost to a passwd(1) that has not read it, and to nobody else.
THEOREM LossIsUnread == DbSpec => LinesLostOnlyUnread
<1> DEFINE Unread ==
        \A i \in DOMAIN shadow :
           ~ (i \in DOMAIN shadow' /\ shadow'[i].name = shadow[i].name) =>
               \E p \in Proc : pc[p] = "rename" /\ pos[p] <= i
<1>1. DbInv /\ [DbNext]_dbvars => [Unread]_shadow
  BY LossStep
<1> QED
  BY DbInvariance, <1>1, PTL DEF DbSpec, LinesLostOnlyUnread

----------------------------------------------------------------------------
(* Names and uids *)

\* A name or a uid has at most one line in every /etc/passwd the system may start with.
UniqueFiles ==
    \A file \in InitAccounts : \A i, j \in DOMAIN file :
        i # j => file[i].name # file[j].name /\ file[i].uid # file[j].uid

\* Every name in an /etc/shadow the system may start with has an account.
MatchingFiles ==
    \A file \in InitAccounts, secret \in InitShadow :
        \A i \in DOMAIN secret : LinesOf(file, secret[i].name) # {}

\* ir0_account_by_name finds an account exactly when there is a line of that name.
LEMMA FindsAccount ==
    ASSUME NEW file \in Seq(AccountLine), NEW u
    PROVE  AccountByName(file, u) = Absent <=> LinesOf(file, u) = {}
<1>1. CASE LinesOf(file, u) = {}
  BY <1>1 DEF AccountByName
<1>2. CASE LinesOf(file, u) # {}
  <2>1. FirstLine(LinesOf(file, u)) \in LinesOf(file, u)
    BY <1>2, FirstLineIsLeast DEF LinesOf
  <2>2. file[FirstLine(LinesOf(file, u))] \in AccountLine
    BY <2>1 DEF LinesOf
  <2> QED
    BY <1>2, <2>2 DEF AccountByName
<1> QED
  BY <1>1, <1>2

\* An account, once there, stays: nothing removes a line of /etc/passwd.
LEMMA AccountsStay ==
    ASSUME TypeOK, NEW l, accounts' = accounts \/ accounts' = Append(accounts, l), NEW u, HasAccount(u)
    PROVE  HasAccount(u)'
<1>1. accounts \in Seq(AccountLine)
  BY DEF TypeOK
<1>2. PICK i \in DOMAIN accounts : accounts[i].name = u
  BY DEF HasAccount, LinesOf
<1>3. i \in DOMAIN accounts' /\ accounts'[i] = accounts[i]
  BY <1>1, <1>2
<1> QED
  BY <1>2, <1>3 DEF HasAccount, LinesOf

\* No line of /etc/passwd has a uid beyond uid_t, or one has the last.
UidsFit == \A i \in DOMAIN accounts : accounts[i].uid < UidLimit
LastUid == \E k \in DOMAIN accounts : accounts[k].uid = UidLimit - 1

\* The uid next_uid answers fits.
LEMMA UidsFitStep ==
    ASSUME TypeOK, UidsFit, AppendPasswd
    PROVE  UidsFit'
<1>1. PICK n \in 0..Len(accounts) :
          accounts' = Append(accounts,
              [name |-> add.user, uid |-> NextUid(SubSeq(accounts, 1, n))])
  BY DEF AppendPasswd
<1>2. accounts \in Seq(AccountLine) /\ n \in Nat /\ n <= Len(accounts)
  BY <1>1 DEF TypeOK
<1>3. NextUid(SubSeq(accounts, 1, n)) \in 0..(UidLimit - 1)
  <2>1. SubSeq(accounts, 1, n) \in Seq(AccountLine)
    BY <1>2, FirstLines
  <2> QED
    BY <2>1, NextUidIsNew
<1> DEFINE new == [name |-> add.user, uid |-> NextUid(SubSeq(accounts, 1, n))]
<1>4. new.uid < UidLimit
  BY <1>3, DbAssumption
<1> HIDE DEF new
<1>5. \A i \in DOMAIN accounts' :
          accounts'[i] = new \/ (i \in DOMAIN accounts /\ accounts'[i] = accounts[i])
  BY <1>1, <1>2 DEF new
<1> QED
  BY <1>4, <1>5 DEF UidsFit

\* The account adduser makes is a new name, and a new uid unless there is no next one.
LEMMA AppendUnique ==
    ASSUME TypeOK, AddTypeOK, UniqueAccounts, AddsNew, UidsFit, AppendPasswd, ~ blind'
    PROVE  UniqueAccounts'
<1> DEFINE n == Len(accounts)
           new == [name |-> add.user, uid |-> NextUid(accounts)]
<1>1. /\ ~ blind /\ add.pc = "passwd"
      /\ accounts \in Seq(AccountLine) /\ n \in Nat /\ DOMAIN accounts = 1..n
      /\ \A i \in 1..n : accounts[i] \in AccountLine
  <2>1. ~ blind
    BY Zenon DEF AppendPasswd
  <2>2. add.pc = "passwd"
    BY DEF AppendPasswd
  <2>3. accounts \in Seq(AccountLine)
    BY DEF TypeOK
  <2> QED
    BY <2>1, <2>2, <2>3
<1>2. accounts' = Append(accounts, new)
  <2>1. PICK k \in 0..n :
            /\ accounts' = Append(accounts,
                   [name |-> add.user, uid |-> NextUid(SubSeq(accounts, 1, k))])
            /\ blind' = (blind \/ k < n)
    BY DEF AppendPasswd
  <2>2. k = n
    <3> HIDE DEF n
    <3>1. ~ (k < n)
      BY <1>1, <2>1, Zenon
    <3> QED
      BY <1>1, <2>1, <3>1
  <2>3. SubSeq(accounts, 1, n) = accounts
    <3>1. SubSeq(accounts, 1, n) = [i \in 1..n |-> accounts[i]]
      BY <1>1, FirstLines
    <3> QED
      BY <1>1, <3>1
  <2> QED
    BY <2>1, <2>2, <2>3
<1>3. LastUid \/ \A i \in 1..n : accounts[i].uid # NextUid(accounts)
  <2>1. ASSUME ~ LastUid
        PROVE  \A i \in DOMAIN accounts : accounts[i].uid < UidLimit - 1
    <3>1. \A i \in 1..n : accounts[i].uid \in Nat
      BY <1>1 DEF AccountLine
    <3>2. ASSUME NEW i \in DOMAIN accounts
          PROVE  accounts[i].uid < UidLimit - 1
      <4>1. /\ accounts[i].uid \in Nat /\ accounts[i].uid < UidLimit
            /\ accounts[i].uid # UidLimit - 1
        BY <1>1, <2>1, <3>1, <3>2 DEF LastUid, UidsFit
      <4> QED
        BY <4>1, DbAssumption
    <3> QED
      BY <3>2
  <2> QED
    BY <1>1, <2>1, NextUidIsNew
<1>4. \A i \in 1..n : accounts[i].name # add.user
  BY <1>1 DEF AddsNew, HasAccount, LinesOf
<1>5. /\ DOMAIN accounts' = 1..(n + 1) /\ accounts'[n + 1] = new
      /\ \A i \in 1..n : accounts'[i] = accounts[i]
  BY <1>1, <1>2
<1>6. \A i, j \in 1..n : i # j =>
          accounts[i].name # accounts[j].name /\ (accounts[i].uid # accounts[j].uid \/ LastUid)
  BY <1>1 DEF UniqueAccounts, LastUid
<1>7. new.name = add.user /\ new.uid = NextUid(accounts)
  OBVIOUS
<1>8. LastUid => LastUid'
  <2>1. ASSUME LastUid
        PROVE  \E k \in DOMAIN accounts' : accounts'[k].uid = UidLimit - 1
    <3>1. PICK k \in 1..n : accounts[k].uid = UidLimit - 1
      BY <1>1, <2>1 DEF LastUid
    <3>2. k \in DOMAIN accounts' /\ accounts'[k].uid = UidLimit - 1
      BY <1>1, <1>5, <3>1
    <3> QED
      BY <3>2
  <2> QED
    BY <2>1 DEF LastUid
<1> HIDE DEF new, n
<1> SUFFICES ASSUME NEW i \in 1..(n + 1), NEW j \in 1..(n + 1), i # j
             PROVE  /\ accounts'[i].name # accounts'[j].name
                    /\ accounts'[i].uid # accounts'[j].uid \/ LastUid'
  BY <1>5 DEF UniqueAccounts, LastUid
<1>9. CASE i \in 1..n /\ j \in 1..n
  BY <1>5, <1>6, <1>8, <1>9
<1>10. CASE i \in 1..n /\ j = n + 1
  BY <1>3, <1>4, <1>5, <1>7, <1>8, <1>10
<1>11. CASE i = n + 1 /\ j \in 1..n
  BY <1>3, <1>4, <1>5, <1>7, <1>8, <1>11
<1> QED
  BY <1>1, <1>9, <1>10, <1>11 DEF n

\* No step makes two accounts share a name or a uid.
LEMMA UniqueStep ==
    ASSUME DbInv, UniqueAccounts, AddsNew, UidsFit, [DbNext]_dbvars
    PROVE  UniqueAccounts' /\ AddsNew' /\ UidsFit'
<1> USE DEF DbInv
<1>0. accounts' = accounts => UidsFit'
  BY DEF UidsFit
<1>1. CASE accounts' = accounts /\ blind' = blind /\ add'.pc = add.pc /\ add'.user = add.user
  BY <1>0, <1>1 DEF UniqueAccounts, AddsNew, HasAccount
<1>2. CASE AddUser
  <2>1. accounts' = accounts /\ (blind => blind')
    BY <1>2 DEF AddUser
  <2>2. UniqueAccounts'
    BY <2>1 DEF UniqueAccounts
  <2>3. PICK u \in NewName, n \in 0..Len(accounts) :
            /\ AccountByName(SubSeq(accounts, 1, n), u) = Absent
            /\ add' = [NoAdd EXCEPT !.pc = "password", !.user = u]
            /\ blind' = (blind \/ n < Len(accounts))
    BY <1>2 DEF AddUser
  <2>4. ASSUME ~ blind'
        PROVE  ~ HasAccount(add.user)'
    <3>1. accounts \in Seq(AccountLine) /\ Len(accounts) \in Nat
      BY DEF TypeOK
    <3>2. n = Len(accounts)
      <4>1. ~ (n < Len(accounts))
        BY <2>3, <2>4, Zenon
      <4> QED
        BY <2>3, <3>1, <4>1
    <3>3. SubSeq(accounts, 1, n) = accounts
      <4>1. SubSeq(accounts, 1, n) = [i \in 1..n |-> accounts[i]]
        BY <3>1, <3>2, FirstLines
      <4> QED
        BY <3>1, <3>2, <4>1
    <3> QED
      BY <2>1, <2>3, <3>1, <3>3, FindsAccount DEF HasAccount, NoAdd
  <2> QED
    BY <1>0, <2>1, <2>2, <2>4 DEF AddsNew
<1>3. CASE AddPassword
  BY <1>0, <1>3 DEF AddPassword, UniqueAccounts, AddsNew, HasAccount, AddTypeOK, AddType
<1>4. CASE AppendPasswd
  <2>1. UniqueAccounts'
    BY <1>4, AppendUnique DEF UniqueAccounts
  <2>2. add'.pc = "openshadow"
    BY <1>4 DEF AppendPasswd, AddGoto, AddTypeOK, AddType
  <2> QED
    BY <1>4, <2>1, <2>2, UidsFitStep DEF AddsNew
<1>5. CASE OpenShadowToAppend \/ AppendShadow \/ AddToGroups \/ AddFails
  <2>1. accounts' = accounts /\ blind' = blind /\ add'.pc \notin {"password", "passwd"}
    <3> USE DEF AddTypeOK, AddType, AddGoto, NoAdd
    <3>1. CASE OpenShadowToAppend
      BY <3>1 DEF OpenShadowToAppend
    <3>2. CASE AppendShadow
      BY <3>2 DEF AppendShadow
    <3>3. CASE AddToGroups
      BY <3>3 DEF AddToGroups
    <3>4. CASE AddFails
      BY <3>4 DEF AddFails
    <3> QED
      BY <1>5, <3>1, <3>2, <3>3, <3>4
  <2> QED
    BY <1>0, <2>1 DEF UniqueAccounts, AddsNew
<1> QED
  BY <1>1, <1>2, <1>3, <1>4, <1>5, PasswdChanges DEF DbNext, Adduser, dbvars, vars

\* However often adduser is killed and run again, and whatever passwd(1) does, no two
\* accounts share a name, or a uid before the last one is taken, as long as
\* /etc/passwd could be read to its end.
THEOREM Unique == UniqueFiles /\ DbSpec => []UniqueAccounts
<1> DEFINE U == UniqueAccounts /\ AddsNew /\ UidsFit
<1>1. UniqueFiles /\ DbInit => U
  BY DbAssumption DEF UniqueFiles, DbInit, Init, UniqueAccounts, AddsNew, UidsFit, NoAdd
<1>2. DbInv /\ U /\ [DbNext]_dbvars => U'
  BY UniqueStep
<1>3. U => UniqueAccounts
  OBVIOUS
<1> HIDE DEF U
<1> QED
  BY DbInvariance, <1>1, <1>2, <1>3, PTL DEF DbSpec

\* A passwd(1) is started for an account of /etc/passwd only.
LEMMA TargetHasAccount ==
    ASSUME TypeOK, NEW p \in Proc, Start(p)
    PROVE  HasAccount(job'[p].target)
<1>1. PICK uid \in Uid, arg \in Name \cup {Absent} :
          /\ Permitted(uid, arg)
          /\ job' = [job EXCEPT ![p] = [NoJob EXCEPT
                         !.ruid = uid, !.target = Target(uid, arg).name]]
  BY DEF Start
<1>2. job'[p].target = Target(uid, arg).name
  BY <1>1 DEF TypeOK, NoJob
<1>3. Target(uid, arg) # Absent /\ accounts \in Seq(AccountLine)
  BY <1>1 DEF Permitted, TypeOK
<1>4. CASE arg # Absent
  <2>1. AccountByName(accounts, arg) # Absent /\ AccountByName(accounts, arg).name = arg
    BY <1>3, <1>4, AccountLookup DEF Target
  <2> QED
    BY <1>2, <1>3, <1>4, <2>1, FindsAccount DEF HasAccount, Target
<1>5. CASE arg = Absent
  <2> DEFINE i == FirstLine(LinesOfUid(accounts, uid))
  <2>1. LinesOfUid(accounts, uid) # {} /\ Target(uid, arg) = accounts[i]
    BY <1>3, <1>5 DEF Target, AccountByUid
  <2>2. i \in LinesOfUid(accounts, uid)
    <3>1. LinesOfUid(accounts, uid) \subseteq Nat
      BY <1>3 DEF LinesOfUid
    <3> QED
      BY <2>1, <3>1, FirstLineIsLeast
  <2> QED
    BY <1>2, <2>1, <2>2 DEF HasAccount, LinesOf, LinesOfUid
<1> QED
  BY <1>4, <1>5

\* Nothing but Start gives a process a target.
LEMMA TargetsOwned ==
    ASSUME TypeOK, NamesOwned, Next, accounts' = accounts, NEW q \in Proc, pc'[q] # "idle"
    PROVE  HasAccount(job'[q].target)
<1>1. PICK p \in Proc : Dialogue(p) \/ SetHash(p) \/ Die(p)
  BY DEF Next
<1>2. CASE q # p
  <2>1. pc'[q] = pc[q] /\ job'[q] = job[q]
    BY <1>1, <1>2 DEF TypeOK, Dialogue, Start, DenyStart, ReadCurrent,
          Verify, Deny, ChooseNew, SetHash, Locking, TryLock, LockBusy, GiveUp,
          Replacing, OpenShadow, OpenTmp, OpenFails, CopyLine, FinishCopy,
          Rename, WriteFails, Unlock, Die, Goto, Ends, Exits, procvars
  <2> QED
    BY <2>1 DEF NamesOwned
<1>3. CASE q = p /\ Start(p)
  BY <1>3, TargetHasAccount
<1>4. CASE q = p /\ (ReadCurrent(p) \/ Verify(p) \/ ChooseNew(p))
  <2>1. pc[q] # "idle"
    BY <1>4 DEF ReadCurrent, Verify, ChooseNew
  <2>2. /\ \E c : \/ job' = [job EXCEPT ![p].cur = c]
                  \/ job' = [job EXCEPT ![p].hash = c]
        /\ job \in [Proc -> Job]
    BY <1>4 DEF ReadCurrent, Verify, ChooseNew, TypeOK
  <2>3. job'[q].target = job[q].target
    BY <1>4, <2>2 DEF Job
  <2> QED
    BY <2>1, <2>3 DEF NamesOwned
<1>5. CASE q = p /\ (DenyStart(p) \/ Deny(p) \/ GiveUp(p) \/ Unlock(p) \/ Die(p))
  BY <1>5 DEF TypeOK, DenyStart, Deny, GiveUp, Unlock, Die, Goto, Ends, Exits
<1>6. CASE q = p /\ (\/ TryLock(p) \/ LockBusy(p)
                     \/ OpenShadow(p) \/ OpenTmp(p) \/ OpenFails(p) \/ CopyLine(p)
                     \/ FinishCopy(p) \/ Rename(p) \/ WriteFails(p))
  <2>1. job' = job /\ pc[q] # "idle"
    BY <1>6 DEF TryLock, LockBusy, OpenShadow, OpenTmp, OpenFails, CopyLine,
          FinishCopy, Rename, WriteFails, Writing, procvars
  <2> QED
    BY <2>1 DEF NamesOwned
<1> QED
  BY <1>1, <1>2, <1>3, <1>4, <1>5, <1>6 DEF Dialogue, SetHash, Locking, Replacing

\* No step writes a name to /etc/shadow that /etc/passwd has not.
LEMMA OwnedStep ==
    ASSUME DbInv, NamesOwned, [DbNext]_dbvars
    PROVE  NamesOwned'
<1> USE DEF DbInv
<1>1. CASE UNCHANGED dbvars
  BY <1>1 DEF dbvars, vars, filevars, procvars, NamesOwned, HasAccount
<1>2. CASE Passwd
  <2>1. /\ accounts' = accounts /\ add'.pc = add.pc /\ add'.user = add.user
        /\ Next
        /\ (\E p \in Proc : Rename(p)) \/ shadow' = shadow
    BY <1>2, PasswdChanges DEF Passwd
  <2>2. \A u : HasAccount(u)' <=> HasAccount(u)
    BY <2>1 DEF HasAccount
  <2>3. \A q \in Proc : pc'[q] # "idle" => HasAccount(job'[q].target)
    BY <2>1, TargetsOwned
  <2>4. ASSUME NEW i \in DOMAIN shadow'
        PROVE  HasAccount(shadow'[i].name)
    <3>1. CASE shadow' = shadow
      BY <3>1 DEF NamesOwned
    <3>2. ASSUME NEW p \in Proc, Rename(p)
          PROVE  HasAccount(shadow'[i].name)
      <4>1. /\ WroteRead(p) /\ job[p].target \in Name /\ job[p].hash \in Password
            /\ shadow' = Rewritten(LinesRead(p), job[p].target, job[p].hash)
            /\ pc[p] = "rename"
        BY <3>2 DEF TypeOK, Copying, Rename, InCall, WroteRead
      <4>2. /\ LinesRead(p) \in Seq(ShadowLine) /\ Len(LinesRead(p)) = pos[p] - 1
            /\ LinesRead(p) = [k \in 1..(pos[p] - 1) |-> shadow[k]]
        BY <4>1, ReadType DEF WroteRead
      <4>3. \/ i \in 1..(pos[p] - 1) /\ shadow'[i].name = LinesRead(p)[i].name
            \/ shadow'[i].name = job[p].target
        <5>1. /\ \A k \in 1..Len(LinesRead(p)) : shadow'[k].name = LinesRead(p)[k].name
              /\ \A k \in DOMAIN shadow' : k \notin 1..Len(LinesRead(p)) =>
                     shadow'[k].name = job[p].target
          <6>1. /\ LinesRead(p) \in Seq(ShadowLine)
                /\ job[p].target \in Name /\ job[p].hash \in Password
            BY <4>1, <4>2
          <6> QED
            BY <4>1, <6>1, RewrittenLines
        <5> QED
          BY <4>2, <5>1
      <4>4. CASE i \in 1..(pos[p] - 1) /\ shadow'[i].name = LinesRead(p)[i].name
        <5>1. i \in DOMAIN shadow /\ LinesRead(p)[i] = shadow[i]
          BY <4>1, <4>2, <4>4 DEF WroteRead, TypeOK
        <5> QED
          BY <4>4, <5>1 DEF NamesOwned
      <4> QED
        BY <4>1, <4>3, <4>4 DEF NamesOwned
    <3> QED
      BY <2>1, <3>1, <3>2
  <2> QED
    BY <2>1, <2>2, <2>3, <2>4 DEF NamesOwned
<1>3. CASE Adduser
  <2>1. /\ UNCHANGED <<pc, job>>
        /\ \E l : accounts' = accounts \/ accounts' = Append(accounts, l)
    BY <1>3, AdduserChanges
  <2>2. \A u : HasAccount(u) => HasAccount(u)'
    BY <2>1, AccountsStay
  <2>3. \A p \in Proc : pc'[p] # "idle" => HasAccount(job[p].target)'
    BY <2>1, <2>2 DEF NamesOwned
  <2>4. ASSUME NEW i \in DOMAIN shadow'
        PROVE  HasAccount(shadow[i].name)'
    <3>1. CASE shadow' = shadow
      BY <2>2, <3>1 DEF NamesOwned
    <3>2. CASE AppendShadow /\ shadow' = Append(shadow, NewLine(add.user, add.hash, DefaultAging))
      <4>1. add.pc = "shadow" /\ HasAccount(add.user)'
        BY <2>2, <3>2 DEF AppendShadow, NamesOwned
      <4>2. NewLine(add.user, add.hash, DefaultAging).name = add.user
        BY DEF NewLine
      <4>3. shadow \in Seq(ShadowLine)
        BY DEF TypeOK
      <4>4. shadow'[i].name = add.user \/ (i \in DOMAIN shadow /\ shadow'[i] = shadow[i])
        BY <3>2, <4>2, <4>3
      <4> QED
        BY <2>2, <4>1, <4>4 DEF NamesOwned
    <3> QED
      BY <1>3, <3>1, <3>2, AdduserChanges
  <2>5. add'.pc \in {"openshadow", "shadow"} => HasAccount(add.user)'
    <3>1. CASE AppendPasswd
      <4>1. add'.user = add.user
        BY <3>1 DEF AppendPasswd, AddGoto, AddTypeOK, AddType
      <4>2. PICK n : accounts' = Append(accounts, [name |-> add.user, uid |-> n])
        BY <3>1 DEF AppendPasswd
      <4>3. /\ Len(accounts) + 1 \in DOMAIN accounts'
            /\ accounts'[Len(accounts) + 1].name = add.user
        BY <4>2 DEF TypeOK
      <4> QED
        BY <4>1, <4>3 DEF HasAccount, LinesOf
    <3>2. CASE OpenShadowToAppend
      BY <2>2, <3>2 DEF OpenShadowToAppend, AddGoto, AddTypeOK, AddType, NamesOwned
    <3>3. CASE AddUser \/ AddPassword \/ AppendShadow \/ AddToGroups \/ AddFails
      <4> USE DEF AddTypeOK, AddType, AddGoto, NoAdd
      <4>1. CASE AddUser
        BY <4>1 DEF AddUser
      <4>2. CASE AddPassword
        BY <4>2 DEF AddPassword
      <4>3. CASE AppendShadow
        BY <4>3 DEF AppendShadow
      <4>4. CASE AddToGroups
        BY <4>4 DEF AddToGroups
      <4>5. CASE AddFails
        BY <4>5 DEF AddFails
      <4> QED
        BY <3>3, <4>1, <4>2, <4>3, <4>4, <4>5
    <3> QED
      BY <1>3, <3>1, <3>2, <3>3 DEF Adduser
  <2> QED
    BY <2>3, <2>4, <2>5 DEF NamesOwned
<1> QED
  BY <1>1, <1>2, <1>3 DEF DbNext

\* If /etc/shadow and /etc/passwd match at the start, no kill of adduser and no passwd(1)
\* leaves a hash without an account.
THEOREM NamesHaveAccounts == MatchingFiles /\ DbSpec => []ShadowNamesHaveAccounts
<1>1. MatchingFiles /\ DbInit => NamesOwned
  BY DEF MatchingFiles, DbInit, Init, NamesOwned, HasAccount, NoAdd
<1>2. DbInv /\ NamesOwned /\ [DbNext]_dbvars => NamesOwned'
  BY OwnedStep
<1>3. DbInv /\ NamesOwned => ShadowNamesHaveAccounts
  BY FindsAccount DEF DbInv, TypeOK, NamesOwned, HasAccount, ShadowNamesHaveAccounts
<1> QED
  BY DbInvariance, <1>1, <1>2, <1>3, PTL DEF DbSpec

==============================================================================
