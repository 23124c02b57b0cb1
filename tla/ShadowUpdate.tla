---------------------------- MODULE ShadowUpdate ----------------------------
(* passwd(1) (services/ir0_passwd.c) on top of ir0_shadow_set_hash          *)
(* (lib/ir0_auth.c): several processes run it at once, any of them may fail *)
(* at any call or be killed at any step.                                    *)
EXTENDS AuthFiles

CONSTANTS
    Proc,         \* processes that run passwd(1)
    NoProc,       \* nobody holds the lock
    NoFile,       \* /etc/shadow.new does not exist
    MaxTries,     \* attempts at the lock: 20 in lock_accounts
    Uid,          \* real uids passwd is run under
    InitAccounts, \* the files /etc/passwd ...
    InitShadow    \* ... and /etc/shadow the system may start with

ASSUME ProcAssumption == NoProc \notin Proc
ASSUME TriesAssumption == MaxTries \in Nat \ {0}
ASSUME UidAssumption == Uid \subseteq Nat
ASSUME FileAssumption ==
    /\ InitAccounts \subseteq Seq(AccountLine)
    /\ InitShadow \subseteq Seq(ShadowLine)
    /\ NoFile \notin Seq(ShadowLine)

VARIABLES
    accounts,   \* /etc/passwd; passwd(1) only reads it
    shadow,     \* the file named /etc/shadow
    tmp,        \* the file named /etc/shadow.new, or NoFile
    lock,       \* holder of the flock on /etc/.pwd.lock, or NoProc
    pc,         \* where each process is
    job,        \* its locals: real uid, target, stored hash read, new hash
    tries,      \* attempts at the lock so far
    pos,        \* the next line of /etc/shadow it will read
    found,      \* whether it has met a line of its target
    cut,        \* history: a failed read has ended its copy before the file
    rc          \* how its run ended or will end: ok for exit 0, failed for 1

filevars == <<shadow, tmp>>
procvars == <<job, tries, pos, found, cut, rc>>
vars == <<accounts, shadow, tmp, lock, pc, procvars>>

PC == {"idle", "readcur", "verify", "newpw", "lock", "opensrc", "opentmp",
       "copy", "rename", "unlock"}
\* Inside ir0_shadow_set_hash, where it holds the lock, and where it owns the
\* temporary file.
InCall == {"lock", "opensrc", "opentmp", "copy", "rename", "unlock"}
Holding == InCall \ {"lock"}
Writing == {"copy", "rename"}

Job == [ruid : Uid \cup {Absent}, target : Name \cup {Absent},
        cur : Stored \cup {Absent}, hash : Password \cup {Absent}]
NoJob == [ruid |-> Absent, target |-> Absent, cur |-> Absent, hash |-> Absent]

Init ==
    /\ accounts \in InitAccounts
    /\ shadow \in InitShadow
    /\ tmp = NoFile
    /\ lock = NoProc
    /\ pc = [p \in Proc |-> "idle"]
    /\ job = [p \in Proc |-> NoJob]
    /\ tries = [p \in Proc |-> 0]
    /\ pos = [p \in Proc |-> 1]
    /\ found = [p \in Proc |-> FALSE]
    /\ cut = [p \in Proc |-> FALSE]
    /\ rc = [p \in Proc |-> "none"]

Goto(p, label) == pc' = [pc EXCEPT ![p] = label]
\* The process exits: its locals are gone, its report rc remains.
Exits(p) ==
    /\ Goto(p, "idle")
    /\ job' = [job EXCEPT ![p] = NoJob]
    /\ tries' = [tries EXCEPT ![p] = 0]
    /\ pos' = [pos EXCEPT ![p] = 1]
    /\ found' = [found EXCEPT ![p] = FALSE]
    /\ cut' = [cut EXCEPT ![p] = FALSE]
Ends(p, how) == Exits(p) /\ rc' = [rc EXCEPT ![p] = how]

----------------------------------------------------------------------------
(* main of passwd(1) *)

\* The account passwd is to change: the one named, or the caller's own.
Target(uid, arg) ==
    IF arg = Absent THEN AccountByUid(accounts, uid) ELSE AccountByName(accounts, arg)

\* A mistake: the uid of the target is not compared with the caller's.
PermittedToAll(uid, arg) ==
    /\ AccountByUid(accounts, uid) # Absent
    /\ Target(uid, arg) # Absent

\* The caller has an account, the target exists, and only uid 0 may name an
\* account of another uid.
Permitted(uid, arg) ==
    /\ AccountByUid(accounts, uid) # Absent
    /\ Target(uid, arg) # Absent
    /\ uid = 0 \/ Target(uid, arg).uid = uid

Start(p) ==
    /\ pc[p] = "idle"
    /\ \E uid \in Uid, arg \in Name \cup {Absent} :
           /\ Permitted(uid, arg)
           /\ job' = [job EXCEPT ![p] = [NoJob EXCEPT
                          !.ruid = uid, !.target = Target(uid, arg).name]]
           /\ Goto(p, IF uid = 0 THEN "newpw" ELSE "readcur")
    /\ rc' = [rc EXCEPT ![p] = "none"]
    /\ UNCHANGED <<accounts, filevars, lock, tries, pos, found, cut>>

\* Unknown caller, unknown user, not-permitted, or /etc/passwd not readable.
DenyStart(p) ==
    /\ pc[p] = "idle"
    /\ \E uid \in Uid, arg \in Name \cup {Absent}, readable \in BOOLEAN :
           ~ (readable /\ Permitted(uid, arg))
    /\ Ends(p, "failed")
    /\ UNCHANGED <<accounts, filevars, lock>>

\* The stored hash is read before the prompt, and before any lock is taken.
ReadCurrent(p) ==
    /\ pc[p] = "readcur"
    /\ ShadowHash(shadow, job[p].target) # Absent
    /\ job' = [job EXCEPT ![p].cur = ShadowHash(shadow, job[p].target)]
    /\ Goto(p, "verify")
    /\ UNCHANGED <<accounts, filevars, lock, tries, pos, found, cut, rc>>

\* The hash read then, not the one in the file now; it is not used again.
Verify(p) ==
    /\ pc[p] = "verify"
    /\ \E typed \in Password \cup {Empty} : Verifies(job[p].cur, typed)
    /\ job' = [job EXCEPT ![p].cur = Absent]
    /\ Goto(p, "newpw")
    /\ UNCHANGED <<accounts, filevars, lock, tries, pos, found, cut, rc>>

\* No shadow line or no readable file, wrong current password, new passwords
\* that differ or are empty, a read error or a hash error.
Deny(p) ==
    /\ pc[p] \in {"readcur", "verify", "newpw"}
    /\ Ends(p, "failed")
    /\ UNCHANGED <<accounts, filevars, lock>>

\* Two equal, non-empty new passwords; ir0_shadow_set_hash is called.
ChooseNew(p) ==
    /\ pc[p] = "newpw"
    /\ \E h \in Password : job' = [job EXCEPT ![p].hash = h]
    /\ tries' = [tries EXCEPT ![p] = 0]
    /\ Goto(p, "lock")
    /\ UNCHANGED <<accounts, filevars, lock, pos, found, cut, rc>>

----------------------------------------------------------------------------
(* ir0_shadow_set_hash *)

\* A mistake: flock(LOCK_SH), which others may hold too.
TryLockShared(p) ==
    /\ pc[p] = "lock"
    /\ lock' = p
    /\ tries' = [tries EXCEPT ![p] = 0]
    /\ Goto(p, "opensrc")
    /\ UNCHANGED <<accounts, filevars, job, pos, found, cut, rc>>

\* One flock(LOCK_EX | LOCK_NB) of the loop in lock_accounts.
TryLock(p) ==
    /\ pc[p] = "lock"
    /\ lock = NoProc
    /\ lock' = p
    /\ tries' = [tries EXCEPT ![p] = 0]
    /\ Goto(p, "opensrc")
    /\ UNCHANGED <<accounts, filevars, job, pos, found, cut, rc>>

\* A mistake in lock_accounts: the count of the tries wraps.
LockBusyForever(p) ==
    /\ pc[p] = "lock"
    /\ lock # NoProc
    /\ tries' = [tries EXCEPT ![p] = (@ + 1) % MaxTries]
    /\ UNCHANGED <<accounts, filevars, lock, pc, job, pos, found, cut, rc>>

LockBusy(p) ==
    /\ pc[p] = "lock"
    /\ lock # NoProc
    /\ tries[p] + 1 < MaxTries
    /\ tries' = [tries EXCEPT ![p] = @ + 1]
    /\ UNCHANGED <<accounts, filevars, lock, pc, job, pos, found, cut, rc>>

\* The last try met a held lock, or the lock file would not open.
GiveUp(p) ==
    /\ pc[p] = "lock"
    /\ \/ lock # NoProc /\ tries[p] + 1 >= MaxTries
       \/ tries[p] = 0
    /\ Ends(p, "failed")
    /\ UNCHANGED <<accounts, filevars, lock>>

OpenShadow(p) ==
    /\ pc[p] = "opensrc"
    /\ Goto(p, "opentmp")
    /\ UNCHANGED <<accounts, filevars, lock, procvars>>

\* A mistake: fopen(tmp_path, "a").
OpenTmpToAppend(p) ==
    /\ pc[p] = "opentmp"
    /\ tmp' = IF tmp = NoFile THEN <<>> ELSE tmp
    /\ pos' = [pos EXCEPT ![p] = 1]
    /\ found' = [found EXCEPT ![p] = FALSE]
    /\ Goto(p, "copy")
    /\ UNCHANGED <<accounts, shadow, lock, job, tries, cut, rc>>

\* fopen(tmp_path, "w") truncates what an earlier, killed passwd left there.
OpenTmp(p) ==
    /\ pc[p] = "opentmp"
    /\ tmp' = <<>>
    /\ pos' = [pos EXCEPT ![p] = 1]
    /\ found' = [found EXCEPT ![p] = FALSE]
    /\ Goto(p, "copy")
    /\ UNCHANGED <<accounts, shadow, lock, job, tries, cut, rc>>

\* A mistake: return -1 without goto out_unlock.
OpenFailsLocked(p) ==
    /\ pc[p] \in {"opensrc", "opentmp"}
    /\ Ends(p, "failed")
    /\ UNCHANGED <<accounts, filevars, lock>>

\* Either fopen fails: goto out_unlock.
OpenFails(p) ==
    /\ pc[p] \in {"opensrc", "opentmp"}
    /\ Goto(p, "unlock")
    /\ rc' = [rc EXCEPT ![p] = "failed"]
    /\ UNCHANGED <<accounts, filevars, lock, job, tries, pos, found, cut>>

\* A mistake: the lines of other users are not copied.
CopyLineOfTarget(p) ==
    /\ pc[p] = "copy"
    /\ pos[p] <= Len(shadow)
    /\ tmp' = IF shadow[pos[p]].name # job[p].target THEN tmp
              ELSE Append(tmp, RewriteLine(shadow[pos[p]], job[p].target, job[p].hash))
    /\ found' = [found EXCEPT ![p] = @ \/ shadow[pos[p]].name = job[p].target]
    /\ pos' = [pos EXCEPT ![p] = @ + 1]
    /\ UNCHANGED <<accounts, shadow, lock, pc, job, tries, cut, rc>>

CopyLine(p) ==
    /\ pc[p] = "copy"
    /\ pos[p] <= Len(shadow)
    /\ tmp' = Append(tmp, RewriteLine(shadow[pos[p]], job[p].target, job[p].hash))
    /\ found' = [found EXCEPT ![p] = @ \/ shadow[pos[p]].name = job[p].target]
    /\ pos' = [pos EXCEPT ![p] = @ + 1]
    /\ UNCHANGED <<accounts, shadow, lock, pc, job, tries, cut, rc>>

\* fgets answers NULL: at the end of the file, and just so at any line whose
\* read(2) fails, as nobody asks ferror.  Append a line if none was found, then
\* fflush and fclose.
FinishCopy(p) ==
    /\ pc[p] = "copy"
    /\ cut' = [cut EXCEPT ![p] = pos[p] <= Len(shadow)]
    /\ tmp' = IF found[p] THEN tmp
              ELSE Append(tmp, NewLine(job[p].target, job[p].hash, DefaultAging))
    /\ Goto(p, "rename")
    /\ UNCHANGED <<accounts, shadow, lock, job, tries, pos, found, rc>>

Rename(p) ==
    /\ pc[p] = "rename"
    /\ shadow' = tmp
    /\ tmp' = NoFile
    /\ rc' = [rc EXCEPT ![p] = "ok"]
    /\ Goto(p, "unlock")
    /\ UNCHANGED <<accounts, lock, job, tries, pos, found, cut>>

\* A mistake: the result of fclose or rename is ignored.
WriteFailsUnnoticed(p) ==
    /\ pc[p] \in Writing
    /\ tmp' = NoFile
    /\ rc' = [rc EXCEPT ![p] = "ok"]
    /\ Goto(p, "unlock")
    /\ UNCHANGED <<accounts, shadow, lock, job, tries, pos, found, cut>>

\* A failed write, fflush or rename removes the temporary file.
WriteFails(p) ==
    /\ pc[p] \in Writing
    /\ tmp' = NoFile
    /\ rc' = [rc EXCEPT ![p] = "failed"]
    /\ Goto(p, "unlock")
    /\ UNCHANGED <<accounts, shadow, lock, job, tries, pos, found, cut>>

Unlock(p) ==
    /\ pc[p] = "unlock"
    /\ lock' = NoProc
    /\ Exits(p)
    /\ UNCHANGED <<accounts, filevars, rc>>

\* A signal kills the process: the kernel closes its descriptors, which drops
\* the flock, and the temporary file stays.
Die(p) ==
    /\ pc[p] # "idle"
    /\ lock' = IF lock = p THEN NoProc ELSE lock
    /\ Exits(p)
    /\ rc' = [rc EXCEPT ![p] = IF @ = "ok" THEN "ok" ELSE "none"]
    /\ UNCHANGED <<accounts, filevars>>

----------------------------------------------------------------------------
Dialogue(p) ==
    Start(p) \/ DenyStart(p) \/ ReadCurrent(p) \/ Verify(p) \/ Deny(p) \/ ChooseNew(p)

Locking(p) == TryLock(p) \/ LockBusy(p) \/ GiveUp(p)

Replacing(p) ==
    OpenShadow(p) \/ OpenTmp(p) \/ OpenFails(p) \/ CopyLine(p) \/ FinishCopy(p)
    \/ Rename(p) \/ WriteFails(p) \/ Unlock(p)

SetHash(p) == Locking(p) \/ Replacing(p)

Next == \E p \in Proc : Dialogue(p) \/ SetHash(p) \/ Die(p)

Spec == Init /\ [][Next]_vars

\* A process inside ir0_shadow_set_hash waits for nobody: every call it makes
\* returns, so the scheduler alone decides that it goes on.  The dialogue waits
\* for a person and Die is a failure: neither is assumed to happen.
FairSpec == Spec /\ \A p \in Proc : WF_vars(SetHash(p))

----------------------------------------------------------------------------
TypeOK ==
    /\ accounts \in Seq(AccountLine)
    /\ shadow \in Seq(ShadowLine)
    /\ tmp \in Seq(ShadowLine) \cup {NoFile}
    /\ lock \in Proc \cup {NoProc}
    /\ pc \in [Proc -> PC]
    /\ job \in [Proc -> Job]
    /\ tries \in [Proc -> 0..MaxTries]
    /\ pos \in [Proc -> Nat \ {0}]
    /\ found \in [Proc -> BOOLEAN]
    /\ cut \in [Proc -> BOOLEAN]
    /\ rc \in [Proc -> {"none", "failed", "ok"}]
    /\ \A p \in Proc :
           /\ pc[p] # "idle" => job[p].target \in Name
           /\ pc[p] \in InCall => job[p].hash \in Password

\* A process past lock_accounts is the lock's holder, so at most one process
\* opens, writes or renames /etc/shadow.new at a time.
LockProtects == \A p \in Proc : pc[p] \in Holding <=> lock = p

\* While a process copies, /etc/shadow.new is the rewrite of the lines read so
\* far, and nothing of what an earlier, killed process left there.
CopiedPrefix(p) ==
    /\ pos[p] <= Len(shadow) + 1
    /\ tmp = [i \in 1..(pos[p] - 1) |->
                  RewriteLine(shadow[i], job[p].target, job[p].hash)]
    /\ found[p] <=> \E i \in 1..(pos[p] - 1) : shadow[i].name = job[p].target

\* The lines a process that is about to rename has taken for the whole file.
LinesRead(p) == SubSeq(shadow, 1, pos[p] - 1)

\* When a process is about to rename, /etc/shadow.new is the complete rewrite
\* of the file it replaces as that file is now, not as it was some time ago: or,
\* if a read failed, the complete rewrite of the lines before the failure.
WritesRewrite(p) ==
    /\ pc[p] = "copy" => CopiedPrefix(p)
    /\ pc[p] = "rename" =>
           /\ pos[p] <= Len(shadow) + 1
           /\ cut[p] <=> pos[p] <= Len(shadow)
           /\ tmp = Rewritten(LinesRead(p), job[p].target, job[p].hash)
TmpIsRewrite == \A p \in Proc : WritesRewrite(p)

\* Whatever step changes /etc/shadow replaces the hash of one user by the hash
\* one process asked for, keeps every other line and every aging field, and
\* loses no change made since that process began (ir0_auth.h: "Replace the hash
\* of @user in /etc/shadow atomically"); but a process whose read of the file
\* failed keeps the lines before the failure only.
AtomicReplace ==
    [][\E p \in Proc :
           /\ pc[p] = "rename"
           /\ \E n \in 0..Len(shadow) :
                  /\ ~ cut[p] => n = Len(shadow)
                  /\ shadow' = Rewritten(SubSeq(shadow, 1, n), job[p].target,
                                         job[p].hash)]_shadow

\* A user's stored hash is changed only by a process run by root or by a caller
\* whose own uid the changed account has.  Other users' hashes are not changed
\* by anybody, but lost to a process whose read of the file failed.
Hashes(file, u) == {file[i].hash : i \in LinesOf(file, u)}
OwnEntryOrRoot ==
    [][\A u \in Name : Hashes(shadow', u) # Hashes(shadow, u) =>
           \E p \in Proc :
               \/ /\ job[p].target = u
                  /\ \/ job[p].ruid = 0
                     \/ AccountByName(accounts, u).uid = job[p].ruid
               \/ /\ pc[p] = "rename" /\ cut[p]
                  /\ Hashes(shadow', u) \subseteq Hashes(shadow, u)]_shadow

\* A run that reports anything but success has not touched /etc/shadow: the one
\* step of a run that does reports success, and no later step of the run takes
\* that back.  One that reports success made its target's hash the one it chose,
\* in every line of that user: the report and the file agree.
ReportIsTrue ==
    [][/\ shadow' # shadow => \E p \in Proc : rc[p] # "ok" /\ rc'[p] = "ok"
       /\ \A p \in Proc :
              /\ rc'[p] = "ok" /\ rc[p] # "ok" =>
                     /\ ShadowHash(shadow', job[p].target) = job[p].hash
                     /\ Hashes(shadow', job[p].target) = {job[p].hash}
              /\ rc[p] = "ok" /\ rc'[p] # "ok" => pc[p] = "idle"]_vars

\* Every call of ir0_shadow_set_hash returns, whoever holds the lock and
\* whatever happens to them: the tries are bounded and no step waits.
SetHashReturns == \A p \in Proc : pc[p] = "lock" ~> pc[p] = "idle"

\* The lock is always given back: every path out of the function unlocks, and
\* the kernel unlocks for a process that dies.
LockReleased == lock # NoProc ~> lock = NoProc

----------------------------------------------------------------------------
(* The call of the abstract specification each process is in *)
CallState(p) ==
    IF pc[p] # "unlock" THEN "running" ELSE IF rc[p] = "ok" THEN "done" ELSE "failed"

Call(p) ==
    IF pc[p] \notin InCall
    THEN [state |-> "none", user |-> Absent, hash |-> Absent]
    ELSE [state |-> CallState(p), user |-> job[p].target, hash |-> job[p].hash]

Atomic == INSTANCE ShadowAtomic WITH call <- [p \in Proc |-> Call(p)]

\* ir0_shadow_set_hash as it is coded implements the atomic one.
ImplementsAtomic == Atomic!Spec
=============================================================================
