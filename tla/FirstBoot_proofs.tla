-------------------------- MODULE FirstBoot_proofs --------------------------
(* The first boot, for every set of profiles, usernames, seeds and layouts  *)
(* and any number of power cuts and failures.                               *)
EXTENDS FirstBoot, SequenceTheorems, TLAPS

\* The identities somebody has asked for.
Legit ==
    {RootOnly} \cup {WizardId(u) : u \in answered}
        \cup {id \in {given} : profile # "appliance" /\ given \in SeedIds}
        \cup {id \in {LabId} : profile = "development"}

\* The account files DoneMeansComplete leaves out.
WrittenAgain == {f \in {"shadow"} : profile = "development"}
Excepted == WrittenAgain \cup {f \in {"hostname"} : profile = "appliance"}

\* Account files are written whole and their failures matter; the seed is only
\* ever removed.
SoundOp ==
    {op \in Op :
        /\ op.file \in AccountFile \cup Marker => op.how = "write"
        /\ op.file \in AccountFile =>
               op = Write(op.file, op.value) \/ op.file \in Excepted
        /\ op.file = "seed" => op = Unlink("seed")}

\* What is on the disk, and what is still to be written, was asked for.
Legitimate ==
    /\ disk["seed"] \in {given, Gone}
    /\ \A f \in AccountFile : disk[f] = Torn \/ disk[f] \in Legit
    /\ \A i \in DOMAIN plan :
           /\ plan[i] \in SoundOp
           /\ plan[i].file \in AccountFile \cup Marker => plan[i].value \in Legit

\* Where ir0-firstboot is, and what it can still do from there.
Place ==
    /\ pc # "idle" => phase \in {"early", "console"}
    /\ pc \in {"idle", "username", "layout"} => plan = <<>>
    /\ pc \in {"layout", "password"} => answer \in UserName
    /\ pc = "password" => \A i \in DOMAIN plan : plan[i].file = "keymap"
    /\ pc \in {"username", "layout", "password"} => ~ Done

\* A plan writes the files of one identity; before a marker every account file
\* is written or still to be written, and after it none is touched.
OneIdentity(p) ==
    \A i, k \in DOMAIN p :
        p[i].file \in AccountFile /\ p[k].file \in Marker => p[i].value = p[k].value
UntouchedAfter(p) ==
    \A k, j \in DOMAIN p :
        k < j /\ p[k].file \in Marker /\ p[j].file \in AccountFile => p[j].file \in WrittenAgain
WrittenBefore ==
    \A k \in DOMAIN plan : plan[k].file \in Marker =>
        \A f \in AccountFile :
            \/ f \in Excepted
            \/ disk[f] = plan[k].value
            \/ \E i \in 1..(k - 1) : plan[i] = Write(f, plan[k].value)
NothingLeft ==
    \A j \in DOMAIN plan : plan[j].file \in AccountFile => plan[j].file \in WrittenAgain

Marks ==
    /\ OneIdentity(plan) /\ UntouchedAfter(plan) /\ WrittenBefore
    /\ Done => NothingLeft
    /\ DoneMeansComplete

\* A run that has not failed marks the machine done before it returns.
Finishing ==
    /\ pc = "run" /\ ~ failed => Done \/ \E k \in DOMAIN plan : plan[k].file \in Marker
    /\ phase = "console" /\ pc = "idle" /\ ~ failed /\ profile = "appliance" => Done
    /\ UpMeansDone

Inv == TypeOK /\ Legitimate /\ Place /\ Marks /\ Finishing

----------------------------------------------------------------------------
\* The rest of a plan.
LEMMA TailOf ==
    ASSUME NEW p \in Seq(Op), p # <<>>
    PROVE  /\ Tail(p) \in Seq(Op) /\ Len(p) \in Nat \ {0} /\ Len(Tail(p)) = Len(p) - 1
           /\ Head(p) = p[1] /\ p[1] \in Op /\ 1 \in DOMAIN p
           /\ DOMAIN p = 1..Len(p) /\ DOMAIN Tail(p) = 1..(Len(p) - 1)
           /\ \A i \in DOMAIN Tail(p) : i + 1 \in DOMAIN p /\ Tail(p)[i] = p[i + 1]
OBVIOUS

\* A plan made afresh for identity v.
NewPlan(p, v) ==
    /\ p \in Seq(Op)
    /\ \A i \in DOMAIN p :
           /\ p[i] \in SoundOp
           /\ p[i].file \in AccountFile \cup Marker => p[i].value = v
    /\ UntouchedAfter(p)
    /\ \A k \in DOMAIN p : p[k].file \in Marker =>
           \A f \in AccountFile : f \in Excepted \/ \E i \in 1..(k - 1) : p[i] = Write(f, v)
    /\ \E k \in DOMAIN p : p[k].file \in Marker

\* Every call of a plan is one of the four kinds.
LEMMA OpTypes ==
    ASSUME NEW f \in File, NEW v \in Id \cup Layout \cup {Gone}
    PROVE  Write(f, v) \in Op /\ Try(f, v) \in Op /\ Unlink(f) \in Op /\ Replace(f, v) \in Op
BY DEF Write, Try, Unlink, Replace, Op

\* What each kind of call is about.
LEMMA OpFields ==
    ASSUME NEW f, NEW v
    PROVE  /\ Write(f, v).file = f /\ Write(f, v).value = v /\ Write(f, v).how = "write"
           /\ Write(f, v).must = TRUE
           /\ Try(f, v).file = f /\ Try(f, v).value = v /\ Try(f, v).how = "write"
           /\ Try(f, v).must = FALSE
           /\ Replace(f, v).file = f /\ Replace(f, v).how = "rename"
           /\ Replace(f, v).must = FALSE
           /\ Unlink(f).file = f /\ Unlink(f).value = Gone /\ Unlink(f).how = "unlink"
           /\ Unlink(f).must = FALSE
BY DEF Write, Try, Replace, Unlink

\* The calls of write_accounts one by one.
LEMMA AccountsCalls ==
    ASSUME NEW id
    PROVE  LET p == WriteAccounts(id) IN
           /\ DOMAIN p = 1..9 /\ Len(p) = 9
           /\ p[1] = Write("passwd", id) /\ p[2] = Write("shadow", id)
           /\ p[3] = Write("group", id) /\ p[4] = Write("hostname", id)
           /\ p[5] \in {Try("deny", id), Unlink("deny")}
           /\ p[6] \in {Try("recovery", id), Unlink("recovery")}
           /\ p[7] = Unlink("autologin")
           /\ p[8] = Try("doneEtc", id) /\ p[9] = Write("doneVar", id)
<1> DEFINE p == WriteAccounts(id)
<1>1. DOMAIN p = 1..9 /\ Len(p) = 9
  BY DEF WriteAccounts, MarkDone
<1>2. /\ p[1] = Write("passwd", id) /\ p[2] = Write("shadow", id)
      /\ p[3] = Write("group", id) /\ p[4] = Write("hostname", id)
  BY DEF WriteAccounts, MarkDone
<1>3. p[5] \in {Try("deny", id), Unlink("deny")}
  BY DEF WriteAccounts, MarkDone
<1>4. p[6] \in {Try("recovery", id), Unlink("recovery")}
  BY DEF WriteAccounts, MarkDone
<1>5. p[7] = Unlink("autologin") /\ p[8] = Try("doneEtc", id) /\ p[9] = Write("doneVar", id)
  BY DEF WriteAccounts, MarkDone
<1> QED
  BY <1>1, <1>2, <1>3, <1>4, <1>5

\* They are a plan for the identity, whatever else comes after or before them.
LEMMA AccountsPlan ==
    ASSUME NEW id \in Id
    PROVE  NewPlan(WriteAccounts(id), id)
<1> DEFINE p == WriteAccounts(id)
<1>1. p \in Seq(Op)
  <2>1. \A f \in File : Write(f, id) \in Op /\ Try(f, id) \in Op /\ Unlink(f) \in Op
    BY OpTypes
  <2>2. \A f \in {"passwd", "shadow", "group", "hostname", "deny", "recovery",
                  "autologin", "doneEtc", "doneVar"} : f \in File
    BY DEF File, AccountFile, Marker
  <2>3. MarkDone(id) \in Seq(Op)
    BY <2>1, <2>2 DEF MarkDone
  <2> QED
    BY <2>1, <2>2, <2>3 DEF WriteAccounts
<1>2. /\ DOMAIN p = 1..9 /\ Len(p) = 9
      /\ p[1] = Write("passwd", id) /\ p[2] = Write("shadow", id)
      /\ p[3] = Write("group", id) /\ p[4] = Write("hostname", id)
      /\ p[5] \in {Try("deny", id), Unlink("deny")}
      /\ p[6] \in {Try("recovery", id), Unlink("recovery")}
      /\ p[7] = Unlink("autologin")
      /\ p[8] = Try("doneEtc", id) /\ p[9] = Write("doneVar", id)
  BY AccountsCalls, Zenon
<1> HIDE DEF p
<1>3. /\ p[1].file = "passwd" /\ p[2].file = "shadow" /\ p[3].file = "group"
      /\ p[4].file = "hostname" /\ p[5].file = "deny" /\ p[6].file = "recovery"
      /\ p[7].file = "autologin" /\ p[8].file = "doneEtc" /\ p[9].file = "doneVar"
  BY <1>2 DEF Write, Try, Unlink
<1>4. /\ \A i \in 1..4 : p[i].file \in AccountFile /\ p[i] = Write(p[i].file, id)
      /\ \A i \in 5..7 : p[i].file \notin AccountFile \cup Marker \cup {"seed"}
      /\ \A i \in 8..9 : p[i].file \in Marker
  BY <1>2, <1>3 DEF AccountFile, Marker
<1>5. /\ \A i \in 1..4 : p[i].value = id /\ p[i].how = "write"
      /\ \A i \in 8..9 : p[i].value = id /\ p[i].how = "write"
  BY <1>2 DEF Write, Try
<1>6. \A i \in DOMAIN p :
          /\ p[i] \in SoundOp
          /\ p[i].file \in AccountFile \cup Marker => p[i].value = id
  <2> SUFFICES ASSUME NEW i \in DOMAIN p
               PROVE  /\ p[i] \in SoundOp
                      /\ p[i].file \in AccountFile \cup Marker => p[i].value = id
    OBVIOUS
  <2>0. p[i] \in Op
    BY <1>1
  <2>1. CASE i \in 1..4
    BY <2>0, <2>1, <1>4, <1>5 DEF SoundOp, AccountFile
  <2>2. CASE i \in 5..7
    BY <2>0, <2>2, <1>4 DEF SoundOp
  <2>3. CASE i \in 8..9
    BY <2>0, <2>3, <1>4, <1>5 DEF SoundOp, AccountFile, Marker
  <2> QED
    BY <1>2, <2>1, <2>2, <2>3
<1>7. \A k \in DOMAIN p : p[k].file \in Marker => k \in 8..9
  BY <1>2, <1>4 DEF AccountFile, Marker
<1>8. UntouchedAfter(p)
  BY <1>2, <1>4, <1>7 DEF UntouchedAfter, AccountFile, Marker
<1>9. \A f \in AccountFile : \E i \in 1..4 : p[i] = Write(f, id)
  BY <1>2 DEF AccountFile
<1>10. \A k \in 8..9 : \A i \in 1..4 : i \in 1..(k - 1)
  OBVIOUS
<1>11. 8 \in DOMAIN p /\ p[8].file \in Marker
  BY <1>2, <1>4
<1> QED
  BY <1>1, <1>6, <1>7, <1>8, <1>9, <1>10, <1>11 DEF NewPlan, p

\* With the removal of the seed after them.
LEMMA SeedPlan ==
    ASSUME NEW id \in Id
    PROVE  NewPlan(WriteAccounts(id) \o <<Unlink("seed")>>, id)
<1> DEFINE w == WriteAccounts(id)
           p == w \o <<Unlink("seed")>>
<1>1. NewPlan(w, id) /\ DOMAIN w = 1..9 /\ Len(w) = 9
  BY AccountsPlan, AccountsCalls
<1>2. Unlink("seed") \in Op
  BY OpTypes DEF File
<1>3. w \in Seq(Op)
  BY <1>1 DEF NewPlan
<1> HIDE DEF w
<1>4. /\ p \in Seq(Op) /\ DOMAIN p = 1..10 /\ p[10] = Unlink("seed")
      /\ \A i \in 1..9 : p[i] = w[i]
  <2> HIDE DEF p
  <2>1. <<Unlink("seed")>> \in Seq(Op) /\ Len(<<Unlink("seed")>>) = 1
    BY <1>2
  <2> DEFINE u == <<Unlink("seed")>>
  <2>2. u \in Seq(Op) /\ Len(u) = 1 /\ u[1] = Unlink("seed") /\ p = w \o u
    BY <2>1 DEF p
  <2> HIDE DEF u
  <2>3. /\ p \in Seq(Op) /\ Len(p) = Len(w) + Len(u)
        /\ \A i \in 1 .. Len(w) + Len(u) :
               p[i] = IF i <= Len(w) THEN w[i] ELSE u[i - Len(w)]
    BY <1>3, <2>2, ConcatProperties, Zenon
  <2>4. Len(w) = 9 /\ Len(u) = 1
    BY <1>1, <2>2
  <2>5. DOMAIN p = 1..10
    BY <2>3, <2>4
  <2>6. \A i \in 1..9 : p[i] = w[i]
    BY <2>3, <2>4
  <2>7. p[10] = u[1]
    BY <2>3, <2>4
  <2> QED
    BY <2>2, <2>3, <2>5, <2>6, <2>7
<1> HIDE DEF p
<1>5. p[10].file = "seed" /\ p[10] \in SoundOp
  BY <1>2, <1>4 DEF SoundOp, AccountFile, Marker, Unlink
<1>6. p[10].file \notin AccountFile \cup Marker
  BY <1>5 DEF AccountFile, Marker
<1>7. \A i \in DOMAIN p : i \in DOMAIN w \/ i = 10
  BY <1>1, <1>4
<1>8. \A i \in DOMAIN p :
          /\ p[i] \in SoundOp
          /\ p[i].file \in AccountFile \cup Marker => p[i].value = id
  BY <1>1, <1>4, <1>5, <1>6, <1>7 DEF NewPlan
<1>9. UntouchedAfter(p)
  BY <1>1, <1>4, <1>6, <1>7 DEF NewPlan, UntouchedAfter
<1>10. ASSUME NEW k \in DOMAIN p, p[k].file \in Marker, NEW f \in AccountFile
       PROVE  f \in Excepted \/ \E i \in 1..(k - 1) : p[i] = Write(f, id)
  <2>1. k \in DOMAIN w /\ k \in 1..9 /\ w[k].file \in Marker
    BY <1>1, <1>4, <1>6, <1>7, <1>10
  <2>2. f \in Excepted \/ \E i \in 1..(k - 1) : w[i] = Write(f, id)
    BY <1>1, <2>1 DEF NewPlan
  <2>3. \A i \in 1..(k - 1) : i \in 1..9
    BY <2>1
  <2> QED
    BY <1>4, <2>2, <2>3
<1>11. \E k \in DOMAIN p : p[k].file \in Marker
  BY <1>1, <1>4 DEF NewPlan
<1> QED
  BY <1>4, <1>8, <1>9, <1>10, <1>11 DEF NewPlan, p, w

\* The fixture account of the development profile, whose shadow file is written
\* once more after the marker.
LEMMA DevelopmentPlan ==
    ASSUME profile = "development"
    PROVE  NewPlan(SeedDevelopment, LabId)
<1> DEFINE p == SeedDevelopment
           id == LabId
<1>1. /\ DOMAIN p = 1..12 /\ p[1] = Write("autologin", id)
      /\ p[2] = Write("passwd", id) /\ p[3] = Write("shadow", id)
      /\ p[4] = Write("group", id) /\ p[5] = Write("hostname", id)
      /\ p[6] \in {Try("deny", id), Unlink("deny")}
      /\ p[7] \in {Try("recovery", id), Unlink("recovery")}
      /\ p[8] = Unlink("autologin")
      /\ p[9] = Try("doneEtc", id) /\ p[10] = Write("doneVar", id)
      /\ p[11] = Write("autologin", id) /\ p[12] = Write("shadow", id)
  <2> HIDE DEF id
  <2>1. DOMAIN p = 1..12
    BY DEF SeedDevelopment, WriteAccounts, MarkDone
  <2>2. /\ p[1] = Write("autologin", id) /\ p[2] = Write("passwd", id)
        /\ p[3] = Write("shadow", id) /\ p[4] = Write("group", id)
        /\ p[5] = Write("hostname", id)
    BY DEF SeedDevelopment, WriteAccounts, MarkDone, id
  <2>3. /\ p[6] \in {Try("deny", id), Unlink("deny")}
        /\ p[7] \in {Try("recovery", id), Unlink("recovery")}
    BY DEF SeedDevelopment, WriteAccounts, MarkDone, id
  <2>4. /\ p[8] = Unlink("autologin") /\ p[9] = Try("doneEtc", id)
        /\ p[10] = Write("doneVar", id) /\ p[11] = Write("autologin", id)
        /\ p[12] = Write("shadow", id)
    BY DEF SeedDevelopment, WriteAccounts, MarkDone, id
  <2> QED
    BY <2>1, <2>2, <2>3, <2>4
<1>2. id \in Id
  BY DEF LabId, Id
<1>3. p \in Seq(Op)
  <2>1. Write("autologin", id) \in Op /\ Write("shadow", id) \in Op
    BY <1>2, OpTypes DEF File, AccountFile, Marker
  <2>2. WriteAccounts(id) \in Seq(Op)
    BY <1>2, AccountsPlan DEF NewPlan
  <2> QED
    BY <2>1, <2>2 DEF SeedDevelopment
<1> HIDE DEF p, id
<1>4. /\ p[1].file = "autologin" /\ p[2].file = "passwd" /\ p[3].file = "shadow"
      /\ p[4].file = "group" /\ p[5].file = "hostname" /\ p[6].file = "deny"
      /\ p[7].file = "recovery" /\ p[8].file = "autologin" /\ p[9].file = "doneEtc"
      /\ p[10].file = "doneVar" /\ p[11].file = "autologin" /\ p[12].file = "shadow"
  BY <1>1 DEF Write, Try, Unlink
<1>5. /\ \A i \in 2..5 : p[i].file \in AccountFile /\ p[i] = Write(p[i].file, id)
      /\ \A i \in {1, 6, 7, 8, 11} : p[i].file \notin AccountFile \cup Marker \cup {"seed"}
      /\ \A i \in 9..10 : p[i].file \in Marker
      /\ p[12] = Write(p[12].file, id)
  BY <1>1, <1>4 DEF AccountFile, Marker
<1>6. \A i \in (2..5) \cup (9..10) \cup {12} : p[i].value = id /\ p[i].how = "write"
  BY <1>1 DEF Write, Try
<1>7. \A i \in DOMAIN p :
          /\ p[i] \in SoundOp
          /\ p[i].file \in AccountFile \cup Marker => p[i].value = id
  <2> SUFFICES ASSUME NEW i \in DOMAIN p
               PROVE  /\ p[i] \in SoundOp
                      /\ p[i].file \in AccountFile \cup Marker => p[i].value = id
    OBVIOUS
  <2>0. p[i] \in Op
    BY <1>3
  <2>1. CASE i \in 2..5
    BY <2>0, <2>1, <1>5, <1>6 DEF SoundOp, AccountFile
  <2>2. CASE i \in {1, 6, 7, 8, 11}
    BY <2>0, <2>2, <1>5 DEF SoundOp
  <2>3. CASE i \in 9..10
    BY <2>0, <2>3, <1>5, <1>6 DEF SoundOp, AccountFile, Marker
  <2>4. CASE i = 12
    BY <2>0, <2>4, <1>4, <1>5, <1>6 DEF SoundOp, AccountFile, Marker
  <2> QED
    BY <1>1, <2>1, <2>2, <2>3, <2>4
<1>8. \A k \in DOMAIN p : p[k].file \in Marker => k \in 9..10
  BY <1>1, <1>4, <1>5 DEF AccountFile, Marker
<1>9. \A k \in DOMAIN p : k > 9 /\ p[k].file \in AccountFile => k = 12
  BY <1>1, <1>5 DEF AccountFile, Marker
<1>10. UntouchedAfter(p)
  BY <1>1, <1>4, <1>8, <1>9 DEF UntouchedAfter, WrittenAgain
<1>11. \A f \in AccountFile : \E i \in 2..5 : p[i] = Write(f, id)
  BY <1>1 DEF AccountFile
<1>12. \A k \in 9..10 : \A i \in 2..5 : i \in 1..(k - 1)
  OBVIOUS
<1>13. 9 \in DOMAIN p /\ p[9].file \in Marker
  BY <1>1, <1>5
<1> QED
  BY <1>3, <1>7, <1>8, <1>10, <1>11, <1>12, <1>13 DEF NewPlan, p, id

\* An appliance gets root alone, and may go without a hostname.
LEMMA AppliancePlan ==
    ASSUME profile = "appliance"
    PROVE  NewPlan(SeedAppliance, RootOnly)
<1> DEFINE p == SeedAppliance
           id == RootOnly
<1>1. /\ DOMAIN p = 1..8
      /\ p[1] = Write("passwd", id) /\ p[2] = Write("shadow", id)
      /\ p[3] = Write("group", id) /\ p[4] = Try("hostname", id)
      /\ p[5] = Try("deny", id) /\ p[6] = Unlink("autologin")
      /\ p[7] = Try("doneEtc", id) /\ p[8] = Write("doneVar", id)
  BY DEF SeedAppliance, MarkDone
<1>2. id \in Id
  BY DEF RootOnly, Id
<1>3. p \in Seq(Op)
  <2>1. \A f \in File : Write(f, id) \in Op /\ Try(f, id) \in Op /\ Unlink(f) \in Op
    BY <1>2, OpTypes
  <2>2. \A f \in {"passwd", "shadow", "group", "hostname", "deny",
                  "autologin", "doneEtc", "doneVar"} : f \in File
    BY DEF File, AccountFile, Marker
  <2>3. MarkDone(id) \in Seq(Op)
    BY <2>1, <2>2 DEF MarkDone
  <2> QED
    BY <2>1, <2>2, <2>3 DEF SeedAppliance
<1> HIDE DEF p, id
<1>4. /\ p[1].file = "passwd" /\ p[2].file = "shadow" /\ p[3].file = "group"
      /\ p[4].file = "hostname" /\ p[5].file = "deny" /\ p[6].file = "autologin"
      /\ p[7].file = "doneEtc" /\ p[8].file = "doneVar"
  BY <1>1 DEF Write, Try, Unlink
<1>5. /\ \A i \in 1..3 : p[i].file \in AccountFile /\ p[i] = Write(p[i].file, id)
      /\ \A i \in 5..6 : p[i].file \notin AccountFile \cup Marker \cup {"seed"}
      /\ \A i \in 7..8 : p[i].file \in Marker
      /\ "hostname" \in Excepted
  BY <1>1, <1>4 DEF AccountFile, Marker, Excepted, WrittenAgain
<1>6. \A i \in (1..4) \cup (7..8) : p[i].value = id /\ p[i].how = "write"
  BY <1>1 DEF Write, Try
<1>7. \A i \in DOMAIN p :
          /\ p[i] \in SoundOp
          /\ p[i].file \in AccountFile \cup Marker => p[i].value = id
  <2> SUFFICES ASSUME NEW i \in DOMAIN p
               PROVE  /\ p[i] \in SoundOp
                      /\ p[i].file \in AccountFile \cup Marker => p[i].value = id
    OBVIOUS
  <2>0. p[i] \in Op
    BY <1>3
  <2>1. CASE i \in 1..3
    BY <2>0, <2>1, <1>5, <1>6 DEF SoundOp, AccountFile
  <2>2. CASE i \in 5..6
    BY <2>0, <2>2, <1>5 DEF SoundOp
  <2>3. CASE i \in 7..8
    BY <2>0, <2>3, <1>5, <1>6 DEF SoundOp, AccountFile, Marker
  <2>4. CASE i = 4
    BY <2>0, <2>4, <1>4, <1>5, <1>6 DEF SoundOp, AccountFile, Marker
  <2> QED
    BY <1>1, <2>1, <2>2, <2>3, <2>4
<1>8. \A k \in DOMAIN p : p[k].file \in Marker => k \in 7..8
  BY <1>1, <1>4, <1>5 DEF AccountFile, Marker
<1>9. \A k \in DOMAIN p : k > 7 => p[k].file \notin AccountFile
  BY <1>1, <1>5 DEF AccountFile, Marker
<1>10. UntouchedAfter(p)
  BY <1>1, <1>8, <1>9 DEF UntouchedAfter
<1>11. \A f \in AccountFile : f = "hostname" \/ \E i \in 1..3 : p[i] = Write(f, id)
  BY <1>1 DEF AccountFile
<1>12. \A k \in 7..8 : \A i \in 1..3 : i \in 1..(k - 1)
  OBVIOUS
<1>13. 7 \in DOMAIN p /\ p[7].file \in Marker
  BY <1>1, <1>5
<1> QED
  BY <1>3, <1>5, <1>7, <1>8, <1>10, <1>11, <1>12, <1>13 DEF NewPlan, p, id

\* The plan main makes when nobody is asked is that of one legitimate identity.
LEMMA UnattendedPlan ==
    ASSUME TypeOK, Legitimate, StartUnattended
    PROVE  \E v \in Id : v \in Legit /\ NewPlan(Unattended, v)
<1>1. CASE profile = "appliance"
  <2>1. RootOnly \in Id /\ RootOnly \in Legit
    BY DEF RootOnly, Id, Legit
  <2> QED
    BY <1>1, <2>1, AppliancePlan DEF Unattended
<1>2. ASSUME profile # "appliance", Seeded
      PROVE  disk["seed"] \in Id /\ disk["seed"] \in Legit
  <2>1. disk["seed"] = given /\ given \in SeedIds
    BY <1>2 DEF TypeOK, Legitimate, StartUnattended, SeedIsBad, Seeded
  <2> QED
    BY <1>2, <2>1, SeedAssumption DEF Id, Legit
<1>3. CASE profile = "development" /\ ~ Seeded
  <2>1. LabId \in Id /\ LabId \in Legit
    BY <1>3 DEF LabId, Id, Legit
  <2> QED
    BY <1>3, <2>1, DevelopmentPlan DEF Unattended
<1>4. CASE profile = "development" /\ Seeded
  <2>1. Unattended = WriteAccounts(disk["seed"])
    BY <1>4 DEF Unattended
  <2> QED
    BY <1>2, <1>4, <2>1, AccountsPlan
<1>5. CASE profile \notin {"development", "appliance"}
  <2>1. Seeded
    BY <1>5, ProfilesAssumption DEF TypeOK, StartUnattended, AsksTheUser
  <2>2. Unattended = WriteAccounts(disk["seed"]) \o <<Unlink("seed")>>
    BY <1>5 DEF Unattended
  <2> QED
    BY <1>2, <1>5, <2>1, <2>2, SeedPlan
<1> QED
  BY <1>1, <1>3, <1>4, <1>5

\* What was asked for stays so; the profile and the seed are those of the image.
LEMMA LegitStays ==
    ASSUME [Next]_vars
    PROVE  Legit \subseteq Legit' /\ Excepted' = Excepted /\ WrittenAgain' = WrittenAgain
           /\ SoundOp' = SoundOp
<1>1. UNCHANGED image /\ answered \subseteq answered'
  BY DEF Next, Step, Fault, PowerOn, Skip, CannotStart, RejectSeed, StartUnattended,
         StartWizard, EnterUsername, EnterLayout, EnterPassword, HashFails, Truncate,
         Finish, Abort, Ignore, Return, PowerOff, vars
<1> QED
  BY <1>1 DEF Legit, Excepted, WrittenAgain, SoundOp, image

\* An identity that was asked for is an identity.
LEMMA LegitType == TypeOK => Legit \subseteq Id
<1> SUFFICES ASSUME TypeOK, NEW id \in Legit PROVE id \in Id
  OBVIOUS
<1>1. RootOnly \in Id /\ LabId \in Id
  BY DEF RootOnly, LabId, Id
<1>2. \A u \in answered : WizardId(u) \in Id
  BY DEF TypeOK, WizardId, Id
<1>3. SeedIds \subseteq Id
  BY SeedAssumption DEF Id
<1> QED
  BY <1>1, <1>2, <1>3 DEF Legit

\* The plan of EnterPassword.
LEMMA WizardPlan ==
    ASSUME Place, EnterPassword
    PROVE  /\ WizardId(answer) \in Id /\ WizardId(answer) \in Legit'
           /\ NewPlan(plan', WizardId(answer))
<1>1. answer \in UserName /\ answer \in answered' /\ plan' = WriteAccounts(WizardId(answer))
  BY DEF Place, EnterPassword
<1>2. WizardId(answer) \in Id
  BY <1>1 DEF WizardId, Id
<1>3. WizardId(answer) \in Legit'
  BY <1>1 DEF Legit, EnterPassword
<1> QED
  BY <1>1, <1>2, <1>3, AccountsPlan

\* The invariant holds of every image as it is shipped.
LEMMA InitInv == Init => Inv
<1> SUFFICES ASSUME Init PROVE Inv
  OBVIOUS
<1>1. \A f \in File : disk[f] \in {LabId, RootOnly, given, Gone}
  BY DEF Init, Image
<1>2. LabId \in Id /\ RootOnly \in Id
  BY DEF LabId, RootOnly, Id
<1>3. given \in Id \cup {BadSeed, Gone}
  BY SeedAssumption DEF Init, Id
<1>4. TypeOK
  <2>1. <<>> \in Seq(Op)
    OBVIOUS
  <2>2. disk \in [File -> Id \cup Layout \cup {BadSeed, Gone, Torn}]
    <3>1. disk = [f \in File |-> disk[f]]
      BY DEF Init, Image
    <3> QED
      BY <1>1, <1>2, <1>3, <3>1
  <2> QED
    BY <2>1, <2>2 DEF Init, TypeOK
<1>5. plan = <<>> /\ DOMAIN plan = {}
  BY DEF Init
<1>6. Legitimate
  <2>1. disk["seed"] = given
    BY DEF Init, Image, File, AccountFile, Marker
  <2>2. \A f \in AccountFile : disk[f] \in Legit
    <3> SUFFICES ASSUME NEW f \in AccountFile PROVE disk[f] \in Legit
      OBVIOUS
    <3>1. disk[f] = IF profile = "development" THEN LabId ELSE RootOnly
      BY DEF Init, Image, File, AccountFile
    <3> QED
      BY <3>1 DEF Legit
  <2> QED
    BY <1>5, <2>1, <2>2 DEF Legitimate
<1>7. ~ Done
  BY DEF Init, Image, Done, File, AccountFile, Marker
<1>8. Place /\ Finishing
  BY <1>5, <1>7 DEF Init, Place, Finishing, UpMeansDone
<1>9. Marks
  BY <1>5, <1>7 DEF Marks, OneIdentity, UntouchedAfter, WrittenBefore, NothingLeft,
                    DoneMeansComplete
<1> QED
  BY <1>4, <1>6, <1>8, <1>9 DEF Inv

\* Every variable keeps its type.
LEMMA TypeStep ==
    TypeOK /\ Legitimate /\ Place /\ [Next]_vars => TypeOK'
<1> SUFFICES ASSUME TypeOK, Legitimate, Place, [Next]_vars PROVE TypeOK'
  OBVIOUS
<1> USE DEF TypeOK, image, vars
<1>1. CASE PowerOn
  BY <1>1 DEF PowerOn
<1>2. CASE Skip
  <2>1. <<>> \in Seq(Op)
    OBVIOUS
  <2> QED
    BY <1>2, <2>1 DEF Skip, Ends, NextPhase
<1>3. CASE CannotStart
  <2>1. <<>> \in Seq(Op)
    OBVIOUS
  <2> QED
    BY <1>3, <2>1 DEF CannotStart, Ends, NextPhase
<1>4. CASE RejectSeed
  <2>1. <<>> \in Seq(Op)
    OBVIOUS
  <2> QED
    BY <1>4, <2>1 DEF RejectSeed, Ends, NextPhase
<1>5. CASE StartUnattended
  <2>1. plan' \in Seq(Op)
    BY <1>5, UnattendedPlan DEF StartUnattended, NewPlan
  <2> QED
    BY <1>5, <2>1 DEF StartUnattended
<1>6. CASE StartWizard
  BY <1>6 DEF StartWizard
<1>7. CASE EnterUsername
  BY <1>7 DEF EnterUsername
<1>8. CASE EnterLayout
  <2>1. PICK l \in Layout : plan' = <<Replace("keymap", l)>>
    BY <1>8 DEF EnterLayout
  <2>2. Replace("keymap", l) \in Op
    BY OpTypes DEF File
  <2>3. plan' \in Seq(Op)
    BY <2>1, <2>2
  <2> QED
    BY <1>8, <2>3 DEF EnterLayout
<1>9. CASE EnterPassword
  <2>1. plan' \in Seq(Op)
    BY <1>9, WizardPlan DEF NewPlan
  <2>2. answered' \subseteq UserName
    BY <1>9 DEF EnterPassword, Place
  <2> QED
    BY <1>9, <2>1, <2>2 DEF EnterPassword
<1>10. CASE HashFails
  <2>1. <<>> \in Seq(Op)
    OBVIOUS
  <2> QED
    BY <1>10, <2>1 DEF HashFails, Ends, NextPhase
<1>11. CASE Truncate
  <2>1. disk' \in [File -> Id \cup Layout \cup {BadSeed, Gone, Torn}]
    BY <1>11 DEF Truncate
  <2> QED
    BY <1>11, <2>1 DEF Truncate
<1>12. CASE Finish
  <2>1. Head(plan) \in Op /\ Tail(plan) \in Seq(Op)
    BY <1>12, TailOf DEF Finish
  <2>2. disk' \in [File -> Id \cup Layout \cup {BadSeed, Gone, Torn}]
    BY <1>12, <2>1 DEF Finish, Op
  <2>3. marked' \in BOOLEAN
    BY <1>12 DEF Finish
  <2> QED
    BY <1>12, <2>1, <2>2, <2>3 DEF Finish
<1>13. CASE Abort
  <2>1. <<>> \in Seq(Op)
    OBVIOUS
  <2> QED
    BY <1>13, <2>1 DEF Abort, Ends, NextPhase
<1>14. CASE Ignore
  <2>1. Tail(plan) \in Seq(Op)
    BY <1>14, TailOf DEF Ignore
  <2> QED
    BY <1>14, <2>1 DEF Ignore
<1>15. CASE Return
  <2>1. <<>> \in Seq(Op)
    OBVIOUS
  <2> QED
    BY <1>15, <2>1 DEF Return, Ends, NextPhase
<1>16. CASE PowerOff
  <2>1. <<>> \in Seq(Op)
    OBVIOUS
  <2> QED
    BY <1>16, <2>1 DEF PowerOff
<1>17. CASE UNCHANGED vars
  BY <1>17
<1> QED
  BY <1>1, <1>2, <1>3, <1>4, <1>5, <1>6, <1>7, <1>8, <1>9, <1>10, <1>11, <1>12,
     <1>13, <1>14, <1>15, <1>16, <1>17
     DEF Next, Step, Fault

\* ir0-firstboot does one thing after another.
LEMMA PlaceStep ==
    TypeOK /\ Place /\ [Next]_vars => Place'
<1> SUFFICES ASSUME TypeOK, Place, [Next]_vars PROVE Place'
  OBVIOUS
<1> USE DEF Place, image, vars
<1>1. CASE PowerOn
  BY <1>1 DEF PowerOn, Done
<1>2. CASE Skip
  BY <1>2 DEF Skip, Ends, NextPhase
<1>3. CASE CannotStart
  BY <1>3 DEF CannotStart, Ends, NextPhase
<1>4. CASE RejectSeed
  BY <1>4 DEF RejectSeed, Ends, NextPhase
<1>5. CASE StartUnattended
  BY <1>5 DEF StartUnattended
<1>6. CASE StartWizard
  BY <1>6 DEF StartWizard, Done
<1>7. CASE EnterUsername
  BY <1>7 DEF EnterUsername, Done
<1>8. CASE EnterLayout
  <2>1. PICK l \in Layout : plan' = <<Replace("keymap", l)>>
    BY <1>8 DEF EnterLayout
  <2>2. \A i \in DOMAIN plan' : plan'[i].file = "keymap"
    BY <2>1 DEF Replace
  <2> QED
    BY <1>8, <2>2 DEF EnterLayout, Done
<1>9. CASE EnterPassword
  BY <1>9 DEF EnterPassword, Done
<1>10. CASE HashFails
  BY <1>10 DEF HashFails, Ends, NextPhase
<1>11. CASE Truncate
  <2>1. pc \in {"password", "run"} /\ UNCHANGED <<pc, phase, plan, answer>>
    BY <1>11 DEF Truncate, TypeOK
  <2>2. CASE pc = "password"
    <3>1. Head(plan).file = "keymap"
      BY <1>11, <2>2, TailOf DEF Truncate, TypeOK
    <3>2. Done' = Done
      BY <1>11, <3>1 DEF Truncate, TypeOK, Done, Marker
    <3> QED
      BY <2>1, <2>2, <3>2
  <2>3. CASE pc = "run"
    BY <2>1, <2>3
  <2> QED
    BY <2>1, <2>2, <2>3
<1>12. CASE Finish
  <2>1. plan \in Seq(Op) /\ plan # <<>> /\ plan' = Tail(plan)
    BY <1>12 DEF Finish, TypeOK
  <2>2. \A i \in DOMAIN plan' : i + 1 \in DOMAIN plan /\ plan'[i] = plan[i + 1]
    BY <2>1, TailOf
  <2>3. Head(plan) = plan[1] /\ 1 \in DOMAIN plan
    BY <2>1, TailOf
  <2>4. pc \in {"password", "run"} /\ UNCHANGED <<pc, phase, answer>>
    BY <1>12 DEF Finish, TypeOK
  <2>5. CASE pc = "password"
    <3>1. Head(plan).file = "keymap"
      BY <2>3, <2>5
    <3>2. Done' = Done
      BY <1>12, <3>1 DEF Finish, TypeOK, Done, Marker
    <3> QED
      BY <2>2, <2>4, <2>5, <3>2
  <2>6. CASE pc = "run"
    BY <2>4, <2>6
  <2> QED
    BY <2>4, <2>5, <2>6
<1>13. CASE Abort
  BY <1>13 DEF Abort, Ends, NextPhase
<1>14. CASE Ignore
  <2>1. plan \in Seq(Op) /\ plan # <<>> /\ plan' = Tail(plan)
    BY <1>14 DEF Ignore, TypeOK
  <2>2. \A i \in DOMAIN plan' : i + 1 \in DOMAIN plan /\ plan'[i] = plan[i + 1]
    BY <2>1, TailOf
  <2>3. Head(plan) = plan[1] /\ 1 \in DOMAIN plan
    BY <2>1, TailOf
  <2>4. pc \in {"password", "run"} /\ UNCHANGED <<pc, phase, answer, disk>>
    BY <1>14 DEF Ignore, TypeOK
  <2> QED
    BY <2>2, <2>4 DEF Done
<1>15. CASE Return
  BY <1>15 DEF Return, Ends, NextPhase
<1>16. CASE PowerOff
  BY <1>16 DEF PowerOff
<1>17. CASE UNCHANGED vars
  BY <1>17 DEF Done
<1> QED
  BY <1>1, <1>2, <1>3, <1>4, <1>5, <1>6, <1>7, <1>8, <1>9, <1>10, <1>11, <1>12,
     <1>13, <1>14, <1>15, <1>16, <1>17
     DEF Next, Step, Fault

\* A plan made afresh for a legitimate identity is legitimate.
LEMMA NewPlanIsLegit ==
    ASSUME Legitimate, [Next]_vars, UNCHANGED <<profile, given, disk>>, NEW v,
           v \in Legit', NewPlan(plan', v)
    PROVE  Legitimate'
<1>1. \A f \in AccountFile : disk'[f] = Torn \/ disk'[f] \in Legit'
  BY LegitStays DEF Legitimate
<1>2. \A i \in DOMAIN plan' :
          /\ plan'[i] \in SoundOp'
          /\ plan'[i].file \in AccountFile \cup Marker => plan'[i].value \in Legit'
  BY LegitStays DEF NewPlan
<1> QED
  BY <1>1, <1>2 DEF Legitimate

\* Without a plan, and with the disk as it was, legitimacy stays.
LEMMA LegitKept ==
    ASSUME Legitimate, [Next]_vars, UNCHANGED <<profile, given, disk>>,
           plan' = plan \/ plan' = <<>>
           \/ (\A i \in DOMAIN plan' : \E j \in DOMAIN plan : plan'[i] = plan[j])
    PROVE  Legitimate'
<1>1. \A f \in AccountFile : disk'[f] = Torn \/ disk'[f] \in Legit'
  BY LegitStays DEF Legitimate
<1>2. \A i \in DOMAIN plan' : \E j \in DOMAIN plan : plan'[i] = plan[j]
  OBVIOUS
<1>3. \A i \in DOMAIN plan' :
          /\ plan'[i] \in SoundOp'
          /\ plan'[i].file \in AccountFile \cup Marker => plan'[i].value \in Legit'
  BY <1>2, LegitStays DEF Legitimate
<1> QED
  BY <1>1, <1>3 DEF Legitimate

\* Nothing but what was asked for comes to the account files.
LEMMA LegitStep ==
    TypeOK /\ Place /\ Legitimate /\ [Next]_vars => Legitimate'
<1> SUFFICES ASSUME TypeOK, Place, Legitimate, [Next]_vars PROVE Legitimate'
  OBVIOUS
<1> USE DEF Legitimate, image, vars
<1>1. CASE PowerOn
  BY <1>1, LegitKept DEF PowerOn
<1>2. CASE Skip
  BY <1>2, LegitKept DEF Skip, Ends, NextPhase
<1>3. CASE CannotStart
  BY <1>3, LegitKept DEF CannotStart, Ends, NextPhase
<1>4. CASE RejectSeed
  BY <1>4, LegitKept DEF RejectSeed, Ends, NextPhase
<1>5. CASE StartUnattended
  <2>1. PICK v \in Id : v \in Legit /\ NewPlan(plan', v)
    BY <1>5, UnattendedPlan DEF StartUnattended
  <2>2. v \in Legit'
    BY <2>1, LegitStays
  <2> QED
    BY <1>5, <2>1, <2>2, NewPlanIsLegit DEF StartUnattended
<1>6. CASE StartWizard
  BY <1>6, LegitKept DEF StartWizard
<1>7. CASE EnterUsername
  BY <1>7, LegitKept DEF EnterUsername
<1>8. CASE EnterLayout
  <2>1. PICK l \in Layout : plan' = <<Replace("keymap", l)>>
    BY <1>8 DEF EnterLayout
  <2>2. \A i \in DOMAIN plan' : plan'[i].file = "keymap"
    BY <2>1 DEF Replace
  <2>3. \A f \in AccountFile : disk'[f] = Torn \/ disk'[f] \in Legit'
    BY <1>8, LegitStays DEF EnterLayout
  <2>4. \A i \in DOMAIN plan' : plan'[i] \in SoundOp
    BY <2>1, OpTypes DEF Replace, SoundOp, AccountFile, Marker, File
  <2> QED
    BY <1>8, <2>2, <2>3, <2>4, LegitStays DEF EnterLayout, AccountFile, Marker
<1>9. CASE EnterPassword
  <2>1. WizardId(answer) \in Legit' /\ NewPlan(plan', WizardId(answer))
    BY <1>9, WizardPlan
  <2> QED
    BY <1>9, <2>1, NewPlanIsLegit DEF EnterPassword
<1>10. CASE HashFails
  BY <1>10, LegitKept DEF HashFails, Ends, NextPhase
<1>11. CASE Truncate
  <2>1. Head(plan) = plan[1] /\ 1 \in DOMAIN plan
    BY <1>11, TailOf DEF Truncate, TypeOK
  <2>2. Head(plan).file # "seed"
    BY <1>11, <2>1 DEF Truncate, SoundOp, Unlink
  <2>3. disk'["seed"] = disk["seed"]
    BY <1>11, <2>2 DEF Truncate, TypeOK, File
  <2>4. \A f \in AccountFile : disk'[f] = Torn \/ disk'[f] \in Legit'
    BY <1>11, LegitStays DEF Truncate, TypeOK, File
  <2>5. \A i \in DOMAIN plan :
            /\ plan[i] \in SoundOp'
            /\ plan[i].file \in AccountFile \cup Marker => plan[i].value \in Legit'
    BY <1>11, LegitStays DEF Truncate
  <2> QED
    BY <1>11, <2>3, <2>4, <2>5 DEF Truncate
<1>12. CASE Finish
  <2>1. plan \in Seq(Op) /\ plan # <<>> /\ plan' = Tail(plan)
    BY <1>12 DEF Finish, TypeOK
  <2>2. \A i \in DOMAIN plan' : i + 1 \in DOMAIN plan /\ plan'[i] = plan[i + 1]
    BY <2>1, TailOf
  <2>3. Head(plan) = plan[1] /\ 1 \in DOMAIN plan
    BY <2>1, TailOf
  <2>4. disk'["seed"] \in {given', Gone}
    BY <1>12, <2>3 DEF Finish, TypeOK, File, SoundOp, Unlink
  <2>5. \A f \in AccountFile : disk'[f] = Torn \/ disk'[f] \in Legit'
    <3> SUFFICES ASSUME NEW f \in AccountFile PROVE disk'[f] = Torn \/ disk'[f] \in Legit'
      OBVIOUS
    <3>1. CASE Head(plan).file = f
      <4>1. disk'[f] = Head(plan).value
        BY <1>12, <3>1 DEF Finish, TypeOK, File
      <4>2. Head(plan).value \in Legit
        BY <2>3, <3>1
      <4> QED
        BY <4>1, <4>2, LegitStays
    <3>2. CASE Head(plan).file # f
      BY <1>12, <3>2, LegitStays DEF Finish, TypeOK, File
    <3> QED
      BY <3>1, <3>2
  <2>6. \A i \in DOMAIN plan' :
            /\ plan'[i] \in SoundOp'
            /\ plan'[i].file \in AccountFile \cup Marker => plan'[i].value \in Legit'
    BY <1>12, <2>2, LegitStays DEF Finish
  <2> QED
    BY <2>4, <2>5, <2>6
<1>13. CASE Abort
  BY <1>13, LegitKept DEF Abort, Ends, NextPhase
<1>14. CASE Ignore
  <2>1. plan \in Seq(Op) /\ plan # <<>> /\ plan' = Tail(plan)
    BY <1>14 DEF Ignore, TypeOK
  <2>2. \A i \in DOMAIN plan' : i + 1 \in DOMAIN plan /\ plan'[i] = plan[i + 1]
    BY <2>1, TailOf
  <2>3. Head(plan) = plan[1] /\ 1 \in DOMAIN plan
    BY <2>1, TailOf
  <2> QED
    BY <1>14, <2>2, LegitKept DEF Ignore
<1>15. CASE Return
  BY <1>15, LegitKept DEF Return, Ends, NextPhase
<1>16. CASE PowerOff
  BY <1>16, LegitKept DEF PowerOff
<1>17. CASE UNCHANGED vars
  BY <1>17, LegitKept
<1> QED
  BY <1>1, <1>2, <1>3, <1>4, <1>5, <1>6, <1>7, <1>8, <1>9, <1>10, <1>11, <1>12,
     <1>13, <1>14, <1>15, <1>16, <1>17
     DEF Next, Step, Fault

\* A fresh plan keeps the promises about the markers of a machine not done.
LEMMA NewPlanMarks ==
    ASSUME TypeOK, ~ Done, UNCHANGED <<profile, disk>>, NEW v, NewPlan(plan', v)
    PROVE  Marks'
<1>1. ~ Done'
  BY DEF Done
<1>2. OneIdentity(plan')
  BY DEF NewPlan, OneIdentity
<1>3. UntouchedAfter(plan)'
  BY DEF NewPlan, UntouchedAfter, Excepted, WrittenAgain
<1>4. WrittenBefore'
  BY DEF NewPlan, WrittenBefore, Excepted, WrittenAgain
<1> QED
  BY <1>1, <1>2, <1>3, <1>4 DEF Marks, DoneMeansComplete, OneIdentity

\* A plan without a marker and without an account file promises nothing.
LEMMA NoPlanMarks ==
    ASSUME Marks, UNCHANGED <<profile, disk>>,
           \A i \in DOMAIN plan' : plan'[i].file \notin AccountFile \cup Marker
    PROVE  Marks'
BY DEF Marks, OneIdentity, UntouchedAfter, WrittenBefore, NothingLeft,
       DoneMeansComplete, Done, Excepted, WrittenAgain

\* Where the first call of the plan concerns a marker every account file is whole.
LEMMA MarkerComes ==
    ASSUME TypeOK, Legitimate, Marks, plan # <<>>, Head(plan).file \in Marker
    PROVE  /\ \E id \in Id : \A f \in AccountFile : disk[f] = id \/ f \in Excepted
           /\ NothingLeft
<1>1. /\ Head(plan) = plan[1] /\ 1 \in DOMAIN plan
      /\ DOMAIN plan = 1..Len(plan) /\ Len(plan) \in Nat /\ Head(plan) \in Op
  BY TailOf DEF TypeOK
<1>2. plan[1].value \in Legit
  BY <1>1 DEF Legitimate
<1>3. plan[1].value \in Id
  BY <1>2, LegitType
<1>4. \A f \in AccountFile : f \in Excepted \/ disk[f] = plan[1].value
  BY <1>1 DEF Marks, WrittenBefore
<1>5. NothingLeft
  BY <1>1 DEF Marks, UntouchedAfter, NothingLeft, AccountFile, Marker
<1> QED
  BY <1>3, <1>4, <1>5

\* A marker is written last, and nothing of an account after it.
LEMMA MarksStep ==
    TypeOK /\ Place /\ Legitimate /\ Marks /\ [Next]_vars => Marks'
<1> SUFFICES ASSUME TypeOK, Place, Legitimate, Marks, [Next]_vars PROVE Marks'
  OBVIOUS
<1> USE DEF TypeOK, image, vars
<1>1. CASE PowerOn
  BY <1>1, NoPlanMarks DEF PowerOn, Place
<1>2. CASE Skip
  BY <1>2, NoPlanMarks DEF Skip, Ends, NextPhase, Place
<1>3. CASE CannotStart
  BY <1>3, NoPlanMarks DEF CannotStart, Ends, NextPhase, Place
<1>4. CASE RejectSeed
  BY <1>4, NoPlanMarks DEF RejectSeed, Ends, NextPhase, Place
<1>5. CASE StartUnattended
  <2>1. PICK v \in Id : NewPlan(plan', v)
    BY <1>5, UnattendedPlan DEF StartUnattended
  <2> QED
    BY <1>5, <2>1, NewPlanMarks DEF StartUnattended
<1>6. CASE StartWizard
  BY <1>6, NoPlanMarks DEF StartWizard, Place
<1>7. CASE EnterUsername
  BY <1>7, NoPlanMarks DEF EnterUsername, Place
<1>8. CASE EnterLayout
  <2>1. PICK l \in Layout : plan' = <<Replace("keymap", l)>>
    BY <1>8 DEF EnterLayout
  <2>2. \A i \in DOMAIN plan' : plan'[i].file = "keymap"
    BY <2>1 DEF Replace
  <2> QED
    BY <1>8, <2>2, NoPlanMarks DEF EnterLayout, AccountFile, Marker
<1>9. CASE EnterPassword
  <2>1. NewPlan(plan', WizardId(answer))
    BY <1>9, WizardPlan
  <2> QED
    BY <1>9, <2>1, NewPlanMarks DEF EnterPassword, Place
<1>10. CASE HashFails
  BY <1>10, NoPlanMarks DEF HashFails, Ends, NextPhase, Place
<1>11. CASE Truncate
  <2>1. /\ Head(plan) = plan[1] /\ 1 \in DOMAIN plan /\ plan # <<>>
        /\ DOMAIN plan = 1..Len(plan) /\ Len(plan) \in Nat
    BY <1>11, TailOf DEF Truncate
  <2>5. UNCHANGED <<plan, profile>>
    BY <1>11 DEF Truncate
  <2>6. UNCHANGED profile
    BY <2>5
  <2>7. OneIdentity(plan') /\ UntouchedAfter(plan)'
    BY <2>5 DEF Marks, OneIdentity, UntouchedAfter, Excepted, WrittenAgain
  <2>8. WrittenBefore'
    <3> SUFFICES ASSUME NEW k \in DOMAIN plan, plan[k].file \in Marker,
                        NEW f \in AccountFile, f \notin Excepted, disk'[f] # plan[k].value
                 PROVE  \E i \in 1..(k - 1) : plan[i] = Write(f, plan[k].value)
      BY <2>5 DEF WrittenBefore, Excepted, WrittenAgain
    <3>1. CASE Head(plan).file = f
      <4>1. plan[1] = Write(f, plan[1].value)
        BY <2>1, <3>1 DEF Legitimate, SoundOp
      <4>2. plan[1].value = plan[k].value
        BY <2>1, <3>1 DEF Marks, OneIdentity
      <4>3. k # 1
        BY <2>1, <3>1 DEF AccountFile, Marker
      <4>4. 1 \in 1..(k - 1)
        BY <2>1, <4>3
      <4> QED
        BY <4>1, <4>2, <4>4
    <3>2. CASE Head(plan).file # f
      <4>1. disk'[f] = disk[f]
        BY <1>11, <3>2 DEF Truncate, File
      <4> QED
        BY <4>1 DEF Marks, WrittenBefore
    <3> QED
      BY <3>1, <3>2
  <2>9. Done' => NothingLeft'
    <3>1. CASE Head(plan).file \in Marker
      BY <2>1, <3>1, MarkerComes, <2>5 DEF NothingLeft, Excepted, WrittenAgain
    <3>2. CASE Head(plan).file \notin Marker
      <4>1. Done' = Done
        BY <1>11, <3>2 DEF Truncate, TypeOK, Done, File
      <4> QED
        BY <4>1, <2>5 DEF NothingLeft, Marks, WrittenAgain
    <3> QED
      BY <3>1, <3>2
  <2>10. DoneMeansComplete'
    <3>1. CASE Head(plan).file \in Marker
      <4>1. \A f \in AccountFile : disk'[f] = disk[f]
        BY <1>11, <3>1 DEF Truncate, TypeOK, File, AccountFile, Marker
      <4>2. PICK id \in Id : \A f \in AccountFile : disk[f] = id \/ f \in Excepted
        BY <2>1, <3>1, MarkerComes
      <4> QED
        BY <2>6, <4>1, <4>2 DEF DoneMeansComplete, Excepted, WrittenAgain
    <3>2. CASE Head(plan).file \notin Marker
      <4>1. Done' = Done
        BY <1>11, <3>2 DEF Truncate, TypeOK, Done, File
      <4>2. Done => \A f \in AccountFile : disk'[f] = disk[f] \/ f \in Excepted
        <5> SUFFICES ASSUME Done, NEW f \in AccountFile, f \notin Excepted PROVE disk'[f] = disk[f]
          OBVIOUS
        <5>1. Head(plan).file # f
          BY <2>1 DEF Marks, NothingLeft, Excepted
        <5> QED
          BY <1>11, <5>1 DEF Truncate, TypeOK, File
      <4> QED
        BY <4>1, <4>2, <2>6 DEF Marks, DoneMeansComplete, Excepted, WrittenAgain
    <3> QED
      BY <3>1, <3>2
  <2> QED
    BY <2>7, <2>8, <2>9, <2>10 DEF Marks, OneIdentity
<1>12. CASE Finish
  <2>1. plan \in Seq(Op) /\ plan # <<>> /\ plan' = Tail(plan)
    BY <1>12 DEF Finish, TypeOK
  <2>2. \A i \in DOMAIN plan' : i + 1 \in DOMAIN plan /\ plan'[i] = plan[i + 1]
    BY <2>1, TailOf
  <2>3. Head(plan) = plan[1] /\ 1 \in DOMAIN plan
    BY <2>1, TailOf
  <2>4. DOMAIN plan = 1..Len(plan) /\ DOMAIN plan' = 1..(Len(plan) - 1) /\ Len(plan) \in Nat
    BY <2>1, TailOf
  <2>5. \A i \in DOMAIN plan' : i + 1 \in DOMAIN plan /\ plan'[i] = plan[i + 1]
    BY <2>2
  <2>6. UNCHANGED profile
    BY <1>12 DEF Finish
  <2>7. OneIdentity(plan')
    BY <2>5 DEF Marks, OneIdentity
  <2>8. UntouchedAfter(plan)'
    BY <2>4, <2>5, <2>6 DEF Marks, UntouchedAfter, Excepted, WrittenAgain
  <2>9. WrittenBefore'
    <3> SUFFICES ASSUME NEW k \in DOMAIN plan', plan'[k].file \in Marker,
                        NEW f \in AccountFile, f \notin Excepted, disk'[f] # plan'[k].value
                 PROVE  \E i \in 1..(k - 1) : plan'[i] = Write(f, plan'[k].value)
      BY <2>6 DEF WrittenBefore, Excepted, WrittenAgain
    <3> DEFINE v == plan'[k].value
    <3>1. k + 1 \in DOMAIN plan /\ plan'[k] = plan[k + 1] /\ k \in Nat \ {0}
      BY <2>4, <2>5
    <3>2. disk[f] = v \/ \E i \in 1..k : plan[i] = Write(f, v)
      <4>1. \/ disk[f] = plan[k + 1].value
            \/ \E i \in 1..(k + 1 - 1) : plan[i] = Write(f, plan[k + 1].value)
        BY <3>1 DEF Marks, WrittenBefore
      <4>2. k + 1 - 1 = k
        BY <3>1
      <4> QED
        BY <3>1, <4>1, <4>2
    <3>3. Head(plan).file = f => Head(plan).value = v
      BY <2>3, <3>1 DEF Marks, OneIdentity
    <3>4. Head(plan).file # f
      BY <1>12, <3>3 DEF Finish, File
    <3>5. disk'[f] = disk[f]
      BY <1>12, <3>4 DEF Finish, File
    <3>6. PICK i \in 1..k : plan[i] = Write(f, v)
      BY <3>2, <3>5
    <3>7. i # 1
      BY <2>3, <3>4, <3>6 DEF Write
    <3>8. i - 1 \in 1..(k - 1) /\ i - 1 \in DOMAIN plan' /\ i - 1 + 1 = i
      BY <2>4, <3>1, <3>7
    <3>9. plan'[i - 1] = plan[i]
      BY <2>5, <3>8
    <3> QED
      BY <3>6, <3>8, <3>9
  <2>10. Done' => NothingLeft'
    <3>1. CASE Head(plan).file \in Marker
      BY <2>1, <2>3, <3>1, MarkerComes, <2>5, <2>6 DEF NothingLeft, Excepted, WrittenAgain
    <3>2. CASE Head(plan).file \notin Marker
      <4>1. Done' = Done
        BY <1>12, <3>2 DEF Finish, TypeOK, Done, File
      <4> QED
        BY <4>1, <2>5, <2>6 DEF NothingLeft, Excepted, WrittenAgain, Marks
    <3> QED
      BY <3>1, <3>2
  <2>11. DoneMeansComplete'
    <3>1. CASE Head(plan).file \in Marker
      <4>1. \A f \in AccountFile : disk'[f] = disk[f]
        BY <1>12, <3>1 DEF Finish, TypeOK, File, AccountFile, Marker
      <4>2. PICK id \in Id : \A f \in AccountFile : disk[f] = id \/ f \in Excepted
        BY <2>1, <2>3, <3>1, MarkerComes
      <4> QED
        BY <2>6, <4>1, <4>2 DEF DoneMeansComplete, Excepted, WrittenAgain
    <3>2. CASE Head(plan).file \notin Marker
      <4>1. Done' = Done
        BY <1>12, <3>2 DEF Finish, TypeOK, Done, File
      <4>2. Done => \A f \in AccountFile : disk'[f] = disk[f] \/ f \in Excepted
        <5> SUFFICES ASSUME Done, NEW f \in AccountFile, f \notin Excepted PROVE disk'[f] = disk[f]
          OBVIOUS
        <5>1. Head(plan).file # f
          BY <2>1, <2>3 DEF Marks, NothingLeft, Excepted
        <5> QED
          BY <1>12, <5>1 DEF Finish, TypeOK, File
      <4> QED
        BY <4>1, <4>2, <2>6 DEF Marks, DoneMeansComplete, Excepted, WrittenAgain
    <3> QED
      BY <3>1, <3>2
  <2> QED
    BY <2>7, <2>8, <2>9, <2>10, <2>11 DEF Marks, OneIdentity
<1>13. CASE Abort
  BY <1>13, NoPlanMarks DEF Abort, Ends, NextPhase, Place
<1>14. CASE Ignore
  <2>1. plan \in Seq(Op) /\ plan # <<>> /\ plan' = Tail(plan)
    BY <1>14 DEF Ignore, TypeOK
  <2>2. \A i \in DOMAIN plan' : i + 1 \in DOMAIN plan /\ plan'[i] = plan[i + 1]
    BY <2>1, TailOf
  <2>3. Head(plan) = plan[1] /\ 1 \in DOMAIN plan
    BY <2>1, TailOf
  <2>4. DOMAIN plan = 1..Len(plan) /\ DOMAIN plan' = 1..(Len(plan) - 1) /\ Len(plan) \in Nat
    BY <2>1, TailOf
  <2>5. OneIdentity(plan')
    BY <2>2 DEF Marks, OneIdentity
  <2>6. UNCHANGED <<profile, disk>>
    BY <1>14 DEF Ignore
  <2>7. UntouchedAfter(plan)'
    BY <2>2, <2>4, <2>6 DEF Marks, UntouchedAfter, Excepted, WrittenAgain
  <2>8. WrittenBefore'
    <3> SUFFICES ASSUME NEW k \in DOMAIN plan', plan'[k].file \in Marker,
                        NEW f \in AccountFile, f \notin Excepted, disk[f] # plan'[k].value
                 PROVE  \E i \in 1..(k - 1) : plan'[i] = Write(f, plan'[k].value)
      BY <2>6 DEF WrittenBefore, Excepted, WrittenAgain
    <3> DEFINE v == plan'[k].value
    <3>1. k + 1 \in DOMAIN plan /\ plan'[k] = plan[k + 1] /\ k \in Nat \ {0}
      BY <2>2, <2>4
    <3>2. \E i \in 1..k : plan[i] = Write(f, v)
      <4>1. \/ disk[f] = plan[k + 1].value
            \/ \E i \in 1..(k + 1 - 1) : plan[i] = Write(f, plan[k + 1].value)
        BY <3>1 DEF Marks, WrittenBefore
      <4>2. k + 1 - 1 = k
        BY <3>1
      <4> QED
        BY <3>1, <4>1, <4>2
    <3>3. PICK i \in 1..k : plan[i] = Write(f, v)
      BY <3>2
    <3>4. i # 1
      BY <1>14, <2>3, <3>3 DEF Ignore, Aborts, Write, AccountFile
    <3>5. i - 1 \in 1..(k - 1) /\ i - 1 \in DOMAIN plan' /\ i - 1 + 1 = i
      BY <2>4, <3>1, <3>4
    <3>6. plan'[i - 1] = plan[i]
      BY <2>2, <3>5
    <3> QED
      BY <3>3, <3>5, <3>6
  <2>9. (Done' => NothingLeft') /\ DoneMeansComplete'
    BY <2>2, <2>6 DEF Marks, NothingLeft, DoneMeansComplete, Done, Excepted, WrittenAgain
  <2> QED
    BY <2>5, <2>7, <2>8, <2>9 DEF Marks, OneIdentity
<1>15. CASE Return
  BY <1>15, NoPlanMarks DEF Return, Ends, NextPhase, Place
<1>16. CASE PowerOff
  BY <1>16, NoPlanMarks DEF PowerOff, Place
<1>17. CASE UNCHANGED vars
  BY <1>17 DEF Marks, OneIdentity, UntouchedAfter, WrittenBefore, NothingLeft, DoneMeansComplete, Done, Excepted, WrittenAgain
<1> QED
  BY <1>1, <1>2, <1>3, <1>4, <1>5, <1>6, <1>7, <1>8, <1>9, <1>10, <1>11, <1>12,
     <1>13, <1>14, <1>15, <1>16, <1>17
     DEF Next, Step, Fault

\* Whoever does not fail gets the machine done.
LEMMA FinishStep ==
    TypeOK /\ Place /\ Legitimate /\ Finishing /\ [Next]_vars => Finishing'
<1> SUFFICES ASSUME TypeOK, Place, Legitimate, Finishing, [Next]_vars PROVE Finishing'
  OBVIOUS
<1> USE DEF Finishing, UpMeansDone, TypeOK, image, vars
<1>1. CASE PowerOn
  BY <1>1 DEF PowerOn, Done, Place
<1>2. CASE Skip
  BY <1>2 DEF Skip, Ends, NextPhase, Done, Place, AsksTheUser
<1>3. CASE CannotStart
  BY <1>3 DEF CannotStart, Ends, NextPhase, Done, Place, AsksTheUser
<1>4. CASE RejectSeed
  BY <1>4 DEF RejectSeed, Ends, NextPhase, Done, Place, AsksTheUser
<1>5. CASE StartUnattended
  <2>1. \E k \in DOMAIN plan' : plan'[k].file \in Marker
    BY <1>5, UnattendedPlan DEF StartUnattended, NewPlan
  <2> QED
    BY <1>5, <2>1 DEF StartUnattended
<1>6. CASE StartWizard
  BY <1>6 DEF StartWizard, Done, Place
<1>7. CASE EnterUsername
  BY <1>7 DEF EnterUsername, Done, Place
<1>8. CASE EnterLayout
  BY <1>8 DEF EnterLayout, Place
<1>9. CASE EnterPassword
  <2>1. \E k \in DOMAIN plan' : plan'[k].file \in Marker
    BY <1>9, WizardPlan DEF NewPlan
  <2> QED
    BY <1>9, <2>1 DEF EnterPassword, Place
<1>10. CASE HashFails
  BY <1>10 DEF HashFails, Ends, NextPhase, Done, Place, AsksTheUser
<1>11. CASE Truncate
  <2>1. Done => Done'
    BY <1>11, SeedAssumption DEF Truncate, Done, File, Marker
  <2> QED
    BY <1>11, <2>1 DEF Truncate, Place
<1>12. CASE Finish
  <2>1. plan \in Seq(Op) /\ plan # <<>> /\ plan' = Tail(plan)
    BY <1>12 DEF Finish, TypeOK
  <2>2. \A i \in DOMAIN plan' : i + 1 \in DOMAIN plan /\ plan'[i] = plan[i + 1]
    BY <2>1, TailOf
  <2>3. Head(plan) = plan[1] /\ 1 \in DOMAIN plan
    BY <2>1, TailOf
  <2>4. ASSUME Head(plan).file \in Marker PROVE Done'
    <3>1. Head(plan).value \in Legit
      BY <2>3, <2>4 DEF Legitimate
    <3>2. Head(plan).value \in Id
      BY <3>1, LegitType DEF TypeOK
    <3> QED
      BY <1>12, <2>4, <3>2, SeedAssumption DEF Finish, Done, File
  <2>5. Done => Done'
    BY <1>12, <2>4 DEF Finish, Done, File
  <2>6. ASSUME NEW k \in DOMAIN plan, plan[k].file \in Marker, Head(plan).file \notin Marker
        PROVE  \E j \in DOMAIN plan' : plan'[j].file \in Marker
    <3>1. DOMAIN plan = 1..Len(plan) /\ DOMAIN plan' = 1..(Len(plan) - 1) /\ Len(plan) \in Nat
      BY <2>1, TailOf
    <3>2. k # 1
      BY <2>3, <2>6
    <3>3. k - 1 \in DOMAIN plan' /\ k - 1 + 1 = k
      BY <3>1, <3>2
    <3>4. plan'[k - 1] = plan[k]
      BY <2>2, <3>3
    <3> QED
      BY <2>6, <3>3, <3>4
  <2>7. UNCHANGED <<pc, phase, failed, profile>> /\ pc \in {"password", "run"}
    BY <1>12 DEF Finish, Place
  <2> QED
    BY <2>4, <2>5, <2>6, <2>7 DEF Place
<1>13. CASE Abort
  BY <1>13 DEF Abort, Ends, NextPhase, Done, Place, AsksTheUser
<1>14. CASE Ignore
  <2>1. failed' = TRUE /\ UNCHANGED <<pc, phase>> /\ pc \in {"password", "run"}
    BY <1>14 DEF Ignore, Place
  <2> QED
    BY <2>1 DEF Place
<1>15. CASE Return
  BY <1>15 DEF Return, Ends, NextPhase, Done, Place, AsksTheUser
<1>16. CASE PowerOff
  BY <1>16 DEF PowerOff, Done, Place, AsksTheUser
<1>17. CASE UNCHANGED vars
  BY <1>17 DEF Done
<1> QED
  BY <1>1, <1>2, <1>3, <1>4, <1>5, <1>6, <1>7, <1>8, <1>9, <1>10, <1>11, <1>12,
     <1>13, <1>14, <1>15, <1>16, <1>17
     DEF Next, Step, Fault

\* Every step of every boot, cuts and failures included, keeps it.
LEMMA InvStep == Inv /\ [Next]_vars => Inv'
BY TypeStep, LegitStep, PlaceStep, MarksStep, FinishStep DEF Inv

\* Every reachable state satisfies the inductive invariant.
THEOREM Invariance == Spec => []Inv
BY InitInv, InvStep, PTL DEF Spec

\* Every variable keeps its type; the seed is there or not.
THEOREM TypeCorrect == Spec => []TypeOK
<1>1. Inv => TypeOK
  BY DEF Inv
<1> QED
  BY Invariance, <1>1, PTL

\* A machine marked done has the account files of one identity, whole.
THEOREM DoneIsComplete == Spec => []DoneMeansComplete
<1>1. Inv => DoneMeansComplete
  BY DEF Inv, Marks
<1> QED
  BY Invariance, <1>1, PTL

\* The invariant leaves no way to a root that is open.
LEMMA LockedLemma == Inv => RootStaysLocked
<1> SUFFICES ASSUME Inv, disk["shadow"] \in Id, ~ disk["shadow"].lockRoot
             PROVE  \/ profile = "development"
                    \/ profile # "appliance" /\ given \in SeedIds /\ ~ given.lockRoot
  BY DEF RootStaysLocked, RootOpen
<1>1. disk["shadow"] # Torn
  BY SeedAssumption
<1>2. disk["shadow"] \in Legit
  BY <1>1 DEF Inv, Legitimate, AccountFile
<1> QED
  BY <1>2 DEF Legit, RootOnly, WizardId

\* No interruption and no failure leaves root open where nobody asked for it.
THEOREM RootLocked == Spec => []RootStaysLocked
BY Invariance, LockedLemma, PTL

\* The invariant leaves no account nobody asked for.
LEMMA ImplicitLemma == Inv => NoImplicitAccount
<1> SUFFICES ASSUME Inv, NEW f \in AccountFile, disk[f] \in Id
             PROVE  \/ disk[f].user \in answered \cup {NoUser}
                    \/ profile # "appliance" /\ given \in SeedIds /\ disk[f] = given
                    \/ profile = "development" /\ disk[f] = LabId
  BY DEF NoImplicitAccount
<1>1. disk[f] \in Legit
  BY SeedAssumption DEF Inv, Legitimate
<1> QED
  BY <1>1 DEF Legit, RootOnly, WizardId

\* No account comes to be that nobody asked for.
THEOREM NobodyImplicit == Spec => []NoImplicitAccount
BY Invariance, ImplicitLemma, PTL

\* A boot in which nothing failed comes up done.
THEOREM UpIsDone == Spec => []UpMeansDone
<1>1. Inv => UpMeansDone
  BY DEF Inv, Finishing
<1> QED
  BY Invariance, <1>1, PTL

\* Once the machine is done its account files are left alone.
LEMMA FinalStep ==
    ASSUME Inv, [Next]_vars, Done, profile # "development", NEW f \in AccountFile
    PROVE  disk'[f] = disk[f]
<1>1. CASE UNCHANGED disk
  BY <1>1
<1>2. CASE Truncate \/ Finish
  <2>1. plan # <<>>
    BY <1>2 DEF Truncate, Finish
  <2>2. Head(plan) = plan[1] /\ 1 \in DOMAIN plan
    BY <2>1, TailOf DEF Inv, TypeOK
  <2>3. Head(plan).file \in AccountFile => Head(plan).file \in WrittenAgain
    BY <2>2 DEF Inv, Marks, NothingLeft
  <2>4. Head(plan).file # f
    BY <2>3 DEF WrittenAgain
  <2> QED
    BY <1>2, <2>4 DEF Truncate, Finish, Inv, TypeOK, File
<1> QED
  BY <1>1, <1>2 DEF Next, Step, Fault, PowerOn, Skip, CannotStart, RejectSeed,
         StartUnattended, StartWizard, EnterUsername, EnterLayout, EnterPassword, HashFails,
         Abort, Ignore, Return, PowerOff, vars

\* No step touches an account file of a machine that is done.
THEOREM Final == Spec => DoneIsFinal
<1>1. Inv /\ [Next]_vars =>
          [Done /\ profile # "development" => \A f \in AccountFile : disk'[f] = disk[f]]_vars
  BY FinalStep
<1> QED
  BY Invariance, <1>1, PTL DEF Spec, DoneIsFinal

----------------------------------------------------------------------------
(* What EventuallyUp rests on beside fairness: a boot is finitely many steps *)

\* How far the boot is from its end: the phases to come, the stages of
\* ir0-firstboot to come in this one, and twice the calls to come, as a file is
\* truncated and then written.
PhasesLeft ==
    CASE phase = "off" -> 3 [] phase = "early" -> 2 [] phase = "console" -> 1 [] OTHER -> 0
StagesLeft ==
    CASE pc = "idle" -> 4 [] pc = "username" -> 3 [] pc = "layout" -> 2
      [] pc = "password" -> 1 [] OTHER -> 0
CallsLeft == 2 * Len(plan) - (IF torn THEN 1 ELSE 0)

Nearer ==
    \/ PhasesLeft' < PhasesLeft
    \/ PhasesLeft' = PhasesLeft /\ StagesLeft' < StagesLeft
    \/ PhasesLeft' = PhasesLeft /\ StagesLeft' = StagesLeft /\ CallsLeft' < CallsLeft

\* Until the power goes every step brings the machine nearer to its prompt: no
\* call, question or phase comes twice in a boot, whatever fails.
BootGoesOn == [][~ PowerOff => Nearer /\ CallsLeft \in Nat]_vars

\* The number of calls to come is one.
LEMMA CallsLeftType ==
    ASSUME TypeOK, torn => plan # <<>>
    PROVE  CallsLeft \in Nat
<1>1. plan \in Seq(Op)
  BY DEF TypeOK
<1>2. Len(plan) \in Nat /\ (plan # <<>> => Len(plan) > 0)
  BY <1>1
<1> QED
  BY <1>2 DEF CallsLeft

\* A file is half written only while the call that writes it is in the plan.
LEMMA TornStep ==
    TypeOK /\ (torn => plan # <<>> /\ pc # "idle") /\ Place /\ [Next]_vars
        => (torn => plan # <<>> /\ pc # "idle")'
<1> SUFFICES ASSUME TypeOK, torn => plan # <<>> /\ pc # "idle", Place, [Next]_vars, torn'
             PROVE  plan' # <<>> /\ pc' # "idle"
  OBVIOUS
<1>1. CASE Truncate
  BY <1>1 DEF Truncate, Place
<1>2. CASE StartUnattended \/ EnterLayout \/ EnterPassword
  BY <1>2 DEF StartUnattended, EnterLayout, EnterPassword, Place
<1> QED
  BY <1>1, <1>2 DEF Next, Step, Fault, PowerOn, Skip, CannotStart, RejectSeed, StartWizard,
     EnterUsername, HashFails, Finish, Abort, Ignore, Return, PowerOff, vars, Ends

\* Every step but a power cut brings the boot nearer to its end.
LEMMA NearerStep ==
    ASSUME TypeOK, Place, torn => plan # <<>>, Next, ~ PowerOff
    PROVE  Nearer /\ CallsLeft \in Nat
<1>1. CallsLeft \in Nat
  BY CallsLeftType
<1>2. plan # <<>> => pc # "idle"
  BY DEF Place
<1> USE DEF Nearer, PhasesLeft, StagesLeft, image
<1>3. CASE PowerOn
  BY <1>1, <1>3 DEF PowerOn
<1>4. CASE Skip \/ CannotStart \/ RejectSeed
  BY <1>1, <1>4 DEF Skip, CannotStart, RejectSeed, Ends, NextPhase
<1>5. CASE HashFails \/ Abort \/ Return
  <2>1. phase \in {"early", "console"}
    BY <1>2, <1>5 DEF HashFails, Abort, Return, Place
  <2> QED
    BY <1>1, <1>5, <2>1 DEF HashFails, Abort, Return, Ends, NextPhase
<1>6. CASE StartUnattended \/ StartWizard \/ EnterUsername \/ EnterLayout \/ EnterPassword
  BY <1>1, <1>6 DEF StartUnattended, StartWizard, EnterUsername, EnterLayout, EnterPassword
<1>7. CASE Truncate \/ Finish \/ Ignore
  <2>1. plan \in Seq(Op) /\ plan # <<>>
    BY <1>7 DEF Truncate, Finish, Ignore, TypeOK
  <2>2. Len(plan) \in Nat /\ Len(Tail(plan)) = Len(plan) - 1
    BY <2>1
  <2>3. ASSUME Truncate PROVE CallsLeft' < CallsLeft
    BY <1>1, <2>2, <2>3 DEF Truncate, CallsLeft
  <2>4. ASSUME Finish \/ Ignore PROVE CallsLeft' < CallsLeft
    BY <1>1, <2>2, <2>4 DEF Finish, Ignore, CallsLeft
  <2>5. CallsLeft' < CallsLeft
    BY <1>7, <2>3, <2>4
  <2> QED
    BY <1>1, <1>7, <2>5 DEF Truncate, Finish, Ignore
<1> QED
  BY <1>1, <1>3, <1>4, <1>5, <1>6, <1>7 DEF Next, Step, Fault

\* Between two power cuts a machine takes finitely many steps, for every plan.
THEOREM BootIsBounded == Spec => BootGoesOn
<1> DEFINE Whole == torn => plan # <<>> /\ pc # "idle"
<1>1. Init => Whole
  BY DEF Init
<1>2. Inv /\ Whole /\ [Next]_vars => Whole'
  BY TornStep DEF Inv
<1>3. Inv /\ Whole /\ [Next]_vars => [~ PowerOff => Nearer /\ CallsLeft \in Nat]_vars
  BY NearerStep DEF Inv
<1> QED
  BY <1>1, <1>2, <1>3, Invariance, PTL DEF Spec, BootGoesOn
=============================================================================
