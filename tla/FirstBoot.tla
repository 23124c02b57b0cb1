------------------------------ MODULE FirstBoot ------------------------------
(* ir0-firstboot (services/ir0_firstboot.c) over many boots of one machine. *)
(* Stage 1 runs it with --early, then the console with --wizard; it writes  *)
(* the account files in place, one after the other, and the done marker.    *)
(* Any step may fail, and the power may go at any point.                    *)
(*                                                                          *)
(* A file's content is the identity it was written for, [user, lockRoot,    *)
(* recovery]: which account it names, whether root is locked, whether the   *)
(* recovery flag is wanted. Files reach the disk in the order written.      *)
EXTENDS Naturals, Sequences

CONSTANTS
    Profiles,   \* the profiles an image is built for
    UserName,   \* the usernames valid_username accepts
    LabUser,    \* "labuser", the fixture account of the development profile
    NoUser,     \* an account file with only root
    SeedIds,    \* the identities a valid /etc/firstboot.seed may describe
    BadSeed,    \* a seed without a valid username and a password hash
    Layout,     \* the keyboard layouts
    Gone,       \* no such file
    Torn        \* a file truncated and not yet, or not wholly, written

ASSUME ProfilesAssumption ==
    Profiles \subseteq {"minimal", "desktop", "development", "appliance"}
ASSUME NamesAssumption == LabUser # NoUser /\ NoUser \notin UserName

Id == [user : UserName \cup {LabUser, NoUser},
       lockRoot : BOOLEAN, recovery : BOOLEAN]
LabId == [user |-> LabUser, lockRoot |-> FALSE, recovery |-> TRUE]
RootOnly == [user |-> NoUser, lockRoot |-> TRUE, recovery |-> FALSE]
\* A mistake: lock_root not passed by the wizard.
WizardIdOpen(u) == [user |-> u, lockRoot |-> FALSE, recovery |-> TRUE]

WizardId(u) == [user |-> u, lockRoot |-> TRUE, recovery |-> TRUE]

ASSUME SeedAssumption ==
    /\ SeedIds \subseteq [user : UserName, lockRoot : BOOLEAN, recovery : BOOLEAN]
    /\ BadSeed \notin SeedIds
    /\ Gone \notin Id /\ Torn \notin Id /\ Gone # Torn

AccountFile == {"passwd", "shadow", "group", "hostname"}
Marker == {"doneEtc", "doneVar"}
File == AccountFile \cup Marker \cup
        {"deny", "recovery", "autologin", "seed", "keymap"}

VARIABLES
    profile,    \* /etc/ir0-profile
    given,      \* the seed the image came with, or Gone
    disk,       \* what each file holds
    phase,      \* off, early (stage 1), console, up (login prompt or services)
    pc,         \* where ir0-firstboot is: idle, username, layout, password, run
    answer,     \* the username typed in the wizard
    plan,       \* the file operations it still has to perform
    torn,       \* the first of them has truncated its file
    marked,     \* one of the done markers has been written
    failed,     \* a step of this boot has failed
    answered    \* the usernames ever confirmed in the wizard

image == <<profile, given>>
vars == <<image, disk, phase, pc, answer, plan, torn, marked, failed, answered>>

------------------------------------------------------------------------------

\* One call of write_file, ir0_keymap_write_file or unlink. "must" says that
\* the caller gives up when it fails.
Write(f, v) == [file |-> f, how |-> "write", value |-> v, must |-> TRUE]
Try(f, v) == [file |-> f, how |-> "write", value |-> v, must |-> FALSE]
Replace(f, v) == [file |-> f, how |-> "rename", value |-> v, must |-> FALSE]
Unlink(f) == [file |-> f, how |-> "unlink", value |-> Gone, must |-> FALSE]

\* mark_done fails only when neither marker could be written: see Aborts.
MarkDone(id) == <<Try("doneEtc", id), Write("doneVar", id)>>

\* A mistake: mark_done first.
WriteAccountsMarkedFirst(id) ==
    MarkDone(id) \o
    <<Write("passwd", id), Write("shadow", id), Write("group", id),
      Write("hostname", id),
      IF id.lockRoot THEN Try("deny", id) ELSE Unlink("deny"),
      IF id.recovery THEN Try("recovery", id) ELSE Unlink("recovery"),
      Unlink("autologin")>>

WriteAccounts(id) ==
    <<Write("passwd", id), Write("shadow", id), Write("group", id),
      Write("hostname", id),
      IF id.lockRoot THEN Try("deny", id) ELSE Unlink("deny"),
      IF id.recovery THEN Try("recovery", id) ELSE Unlink("recovery"),
      Unlink("autologin")>> \o MarkDone(id)

SeedDevelopment ==
    <<Write("autologin", LabId)>> \o WriteAccounts(LabId) \o
    <<Write("autologin", LabId), Write("shadow", LabId)>>

SeedAppliance ==
    <<Write("passwd", RootOnly), Write("shadow", RootOnly),
      Write("group", RootOnly), Try("hostname", RootOnly),
      Try("deny", RootOnly), Unlink("autologin")>> \o MarkDone(RootOnly)

Done == \E m \in Marker : disk[m] # Gone
Seeded == disk["seed"] # Gone

\* What main does when it need not ask: the appliance ignores the seed, the
\* development profile keeps it, the others remove it once it is applied.
Unattended ==
    CASE profile = "appliance" -> SeedAppliance
      [] profile = "development" -> IF Seeded THEN WriteAccounts(disk["seed"])
                                    ELSE SeedDevelopment
      [] OTHER -> WriteAccounts(disk["seed"]) \o <<Unlink("seed")>>

AsksTheUser == profile \in {"minimal", "desktop"} /\ ~ Seeded
SeedIsBad == profile # "appliance" /\ disk["seed"] = BadSeed

------------------------------------------------------------------------------

\* The image stage-rootfs.sh builds, with or without a seed.
Image(p, s) ==
    LET id == IF p = "development" THEN LabId ELSE RootOnly
    IN  [f \in File |->
            CASE f \in AccountFile -> id
              [] f = "deny" /\ p \in {"desktop", "appliance"} -> id
              [] f = "autologin" /\ p = "development" -> id
              [] f = "seed" -> s
              [] OTHER -> Gone]

Init ==
    /\ profile \in Profiles
    /\ given \in SeedIds \cup {BadSeed, Gone}
    /\ disk = Image(profile, given)
    /\ phase = "off"
    /\ pc = "idle"
    /\ answer = NoUser
    /\ plan = <<>>
    /\ torn = FALSE
    /\ marked = FALSE
    /\ failed = FALSE
    /\ answered = {}

\* A mistake: the console runs ir0-firstboot until it has succeeded.
NextPhaseOnceDone ==
    IF phase = "console" /\ Done THEN "up" ELSE "console"

NextPhase == IF phase = "early" THEN "console" ELSE "up"

\* ir0-firstboot ends and its parent goes on: stage 1 to the console, the
\* console to its login prompt.
Ends(f) ==
    /\ phase' = NextPhase
    /\ pc' = "idle"
    /\ answer' = NoUser
    /\ plan' = <<>>
    /\ torn' = FALSE
    /\ failed' = (failed \/ f)

PowerOn ==
    /\ phase = "off"
    /\ phase' = "early"
    /\ UNCHANGED <<image, disk, pc, answer, plan, torn, marked, failed, answered>>

\* A mistake: the wizard is left pending on the console too.
SkipPending ==
    /\ phase \in {"early", "console"}
    /\ pc = "idle"
    /\ \/ Done
       \/ AsksTheUser
       \/ phase = "console" /\ profile = "appliance"
    /\ Ends(FALSE)
    /\ UNCHANGED <<image, disk, marked, answered>>

\* main with the marker present; with --early and nobody to ask for an
\* account; or the console of an appliance, which never runs it.
Skip ==
    /\ phase \in {"early", "console"}
    /\ pc = "idle"
    /\ \/ Done
       \/ phase = "early" /\ AsksTheUser
       \/ phase = "console" /\ profile = "appliance"
    /\ Ends(FALSE)
    /\ UNCHANGED <<image, disk, marked, answered>>

CannotStart ==
    /\ phase \in {"early", "console"}
    /\ pc = "idle"
    /\ ~ (phase = "console" /\ (Done \/ profile = "appliance"))
    /\ Ends(TRUE)
    /\ UNCHANGED <<image, disk, marked, answered>>

RejectSeed ==
    /\ phase \in {"early", "console"}
    /\ pc = "idle"
    /\ ~ Done
    /\ SeedIsBad
    /\ Ends(TRUE)
    /\ UNCHANGED <<image, disk, marked, answered>>

StartUnattended ==
    /\ phase \in {"early", "console"}
    /\ pc = "idle"
    /\ ~ Done
    /\ ~ AsksTheUser
    /\ ~ SeedIsBad
    /\ phase = "console" => profile # "appliance"
    /\ pc' = "run"
    /\ plan' = Unattended
    /\ marked' = FALSE
    /\ UNCHANGED <<image, disk, phase, answer, torn, failed, answered>>

\* A mistake: already_done is not asked.
StartWizardAgain ==
    /\ phase = "console"
    /\ pc = "idle"
    /\ AsksTheUser
    /\ pc' = "username"
    /\ UNCHANGED <<image, disk, phase, answer, plan, torn, marked, failed, answered>>

StartWizard ==
    /\ phase = "console"
    /\ pc = "idle"
    /\ ~ Done
    /\ AsksTheUser
    /\ pc' = "username"
    /\ UNCHANGED <<image, disk, phase, answer, plan, torn, marked, failed, answered>>

\* An empty, reserved or malformed username is asked for again.
EnterUsername ==
    /\ pc = "username"
    /\ answer' \in UserName
    /\ pc' = "layout"
    /\ UNCHANGED <<image, disk, phase, plan, torn, marked, failed, answered>>

\* A mistake: the account is written before the password is confirmed.
EnterLayoutWriting ==
    /\ pc = "layout"
    /\ \E l \in Layout :
           plan' = <<Replace("keymap", l)>> \o WriteAccounts(WizardId(answer))
    /\ pc' = "password"
    /\ UNCHANGED <<image, disk, phase, answer, torn, marked, failed, answered>>

\* The layout is saved before a password is asked for.
EnterLayout ==
    /\ pc = "layout"
    /\ \E l \in Layout : plan' = <<Replace("keymap", l)>>
    /\ pc' = "password"
    /\ UNCHANGED <<image, disk, phase, answer, torn, marked, failed, answered>>

\* An empty password, or two that differ, are asked for again.
EnterPassword ==
    /\ pc = "password"
    /\ plan = <<>>
    /\ answered' = answered \cup {answer}
    /\ plan' = WriteAccounts(WizardId(answer))
    /\ marked' = FALSE
    /\ pc' = "run"
    /\ UNCHANGED <<image, disk, phase, answer, torn, failed>>

HashFails ==
    /\ pc = "password"
    /\ plan = <<>>
    /\ Ends(TRUE)
    /\ UNCHANGED <<image, disk, marked, answered>>

------------------------------------------------------------------------------

\* O_CREAT | O_TRUNC.
Truncate ==
    /\ plan # <<>>
    /\ ~ torn
    /\ Head(plan).how = "write"
    /\ disk' = [disk EXCEPT ![Head(plan).file] = Torn]
    /\ torn' = TRUE
    /\ UNCHANGED <<image, phase, pc, answer, plan, marked, failed, answered>>

\* write, fsync and close; or rename(2) of a written copy; or unlink(2).
Finish ==
    /\ plan # <<>>
    /\ torn \/ Head(plan).how # "write"
    /\ disk' = [disk EXCEPT ![Head(plan).file] = Head(plan).value]
    /\ plan' = Tail(plan)
    /\ torn' = FALSE
    /\ marked' = (marked \/ Head(plan).file \in Marker)
    /\ UNCHANGED <<image, phase, pc, answer, failed, answered>>

Aborts(op) == op.must /\ ~ (op.file = "doneVar" /\ marked)

\* The first operation cannot be done, or not completely, and it matters.
Abort ==
    /\ plan # <<>>
    /\ Aborts(Head(plan))
    /\ Ends(TRUE)
    /\ UNCHANGED <<image, disk, marked, answered>>

\* It fails and its result is ignored.
Ignore ==
    /\ plan # <<>>
    /\ ~ Aborts(Head(plan))
    /\ plan' = Tail(plan)
    /\ torn' = FALSE
    /\ failed' = TRUE
    /\ UNCHANGED <<image, disk, phase, pc, answer, marked, answered>>

Return ==
    /\ pc = "run"
    /\ plan = <<>>
    /\ Ends(FALSE)
    /\ UNCHANGED <<image, disk, marked, answered>>

\* A power cut, a reset or a shutdown.
PowerOff ==
    /\ phase # "off"
    /\ phase' = "off"
    /\ pc' = "idle"
    /\ answer' = NoUser
    /\ plan' = <<>>
    /\ torn' = FALSE
    /\ marked' = FALSE
    /\ failed' = FALSE
    /\ UNCHANGED <<image, disk, answered>>

Step ==
    \/ PowerOn \/ Skip \/ RejectSeed \/ StartUnattended \/ StartWizard
    \/ EnterUsername \/ EnterLayout \/ EnterPassword
    \/ Truncate \/ Finish \/ Return

Fault == CannotStart \/ HashFails \/ Abort \/ Ignore

Next == Step \/ Fault \/ PowerOff

Spec == Init /\ [][Next]_vars

\* The processes run and the user of the wizard answers; nothing is assumed
\* about failures, nor about the power.
FairSpec == Spec /\ WF_vars(Step)

------------------------------------------------------------------------------

Op == [file : File, how : {"write", "rename", "unlink"},
       value : Id \cup Layout \cup {Gone}, must : BOOLEAN]

\* The type invariant of the machine and of ir0-firstboot.
TypeOK ==
    /\ profile \in Profiles
    /\ given \in SeedIds \cup {BadSeed, Gone}
    /\ disk \in [File -> Id \cup Layout \cup {BadSeed, Gone, Torn}]
    /\ phase \in {"off", "early", "console", "up"}
    /\ pc \in {"idle", "username", "layout", "password", "run"}
    /\ answer \in UserName \cup {NoUser}
    /\ plan \in Seq(Op)
    /\ torn \in BOOLEAN
    /\ marked \in BOOLEAN
    /\ failed \in BOOLEAN
    /\ answered \subseteq UserName

\* A machine that has a done marker has the account files of one identity, all
\* of them and whole: whatever was interrupted or failed before, the marker is
\* never there for half an account (write_accounts marks last). Left out are
\* the shadow file the development seed writes once more after the marker and
\* the hostname an appliance may fail to write.
DoneMeansComplete ==
    Done => \E id \in Id : \A f \in AccountFile :
                \/ disk[f] = id
                \/ f = "shadow" /\ profile = "development"
                \/ f = "hostname" /\ profile = "appliance"

\* A file of which only a part was written is not looked at.
RootOpen == disk["shadow"] \in Id /\ ~ disk["shadow"].lockRoot

\* Outside the development profile no interruption and no failure ever leaves a
\* whole /etc/shadow in which root is open, unless a seed said so
\* (Documentation/SECURITY.md: root locked on canonical profiles until
\* firstboot/seed).  Of a torn one it says nothing: cut right behind "root:" it
\* would leave an empty hash, which ir0_password_verify accepts.
RootStaysLocked ==
    RootOpen => \/ profile = "development"
                \/ profile # "appliance" /\ given \in SeedIds /\ ~ given.lockRoot

\* No implicit account (Documentation/FIRSTBOOT.md): a name found in an account
\* file was confirmed in the wizard, or is that of the seed the image came
\* with, or is the fixture of the development profile.
NoImplicitAccount ==
    \A f \in AccountFile : disk[f] \in Id =>
        \/ disk[f].user \in answered \cup {NoUser}
        \/ profile # "appliance" /\ given \in SeedIds /\ disk[f] = given
        \/ profile = "development" /\ disk[f] = LabId

\* A boot in which nothing failed reaches the login prompt with the account
\* there: stage 1 and the console between them leave no machine pending.
UpMeansDone == phase = "up" /\ ~ failed => Done

\* Once the machine is done no later boot, and no step of this one, writes an
\* account file again: the accounts passwd and adduser keep are never reset.
DoneIsFinal ==
    [][Done /\ profile # "development" =>
           \A f \in AccountFile : disk'[f] = disk[f]]_vars

\* If the power stays on and the questions of the wizard, if it asks any, are in the
\* end answered, the machine reaches its login prompt, or its services, and stays
\* there, whatever else fails: ir0-firstboot ends and its parent never tries it
\* again in the same boot.  Without a user name and two equal passwords the wizard
\* asks on for ever, so a terminal every read of which fails is not covered.
EventuallyUp == <>[][~ PowerOff]_vars => <>[](phase = "up")

\* The development profile logs root in by itself (Documentation/PROFILES.md:
\* "root autologin") on every boot in which nothing failed.
DevelopmentLogsIn ==
    phase = "up" /\ ~ failed /\ profile = "development" /\ given = Gone =>
        disk["autologin"] = LabId /\ disk["shadow"] = LabId
==============================================================================
