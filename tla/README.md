# A TLA+ model of IR0 userspace

IR0 userspace is what the IR0 kernel runs after boot: a runit/BusyBox image, and the C programs
of `src/lib`, `src/services` and `src/smoke` that manage accounts, first boot, the console, the
keyboard and the self tests. This directory holds TLA+ modules translated from that code, the TLC
configurations that check them, and the proofs TLAPS checks.

To run one check: `tlc -config MCShadowUpdate.cfg MCShadowUpdate`; to check one component's proofs:
`tlapm AccountDb_proofs.tla`. PROJECT.json lists the source lines every definition models, a
plausible bug every property catches, and every hazard found in the code.

## The system

| component | state | operations | talks to | hard because |
|---|---|---|---|---|
| account library `lib/ir0_auth.c` | `/etc/passwd`, `/etc/shadow`, `/etc/shadow.new`, `/etc/.pwd.lock` | lookup, `ir0_password_verify`, `ir0_shadow_set_hash`, terminal functions | passwd, console, adduser, first boot, through files | several processes, kills, a temporary file with one name, bounded tries at a lock |
| `passwd(1)` `services/ir0_passwd.c` | its locals | check the caller, check the old password, replace the hash | account library | what it read before a prompt may be stale when it writes |
| `adduser` `services/ir0_adduser.c` | appends to passwd and shadow, rewrites `/etc/group` | add an account, add it to `users` and `wheel` | the same files, *without* the lock | meets passwd(1) and other addusers, is killed half way, one temporary file, buffers that cut, a wrapping uid |
| first boot `services/ir0_firstboot.c` | account files, two done markers, deny-root, recovery, autologin, seed, keymap | seed, appliance, development, wizard | stage 1 and the console run it | power cuts, partial writes, two callers, four profiles |
| console `services/runit_console_run.c` | echo and queue of the terminal, the account of the session | prompt, login, session, resume after a crash, autologin | account library, shell | typing at any time, failing terminal calls, shells that crash |
| keyboard layout `lib/ir0_keymap.c`, `services/ir0_keymap.c` | `/etc/keymap`, `/etc/keymap.tmp`, the kernel's layout | set and persist, apply at start | console, first boot | two writers of one temporary file, the kernel and the file are two states |
| boot stages `services/runit_stage*.c`, `ir0_recovery.c`, `mount_root_rw.c`, `fsck.ir0.c`, `ir0_force_power.c` | which program is in charge, how root is mounted, what is on the disk | check, first boot, start, recover, stop | runit, kernel | helpers that fail or never start, power cuts, programs that write during a shutdown |
| matrix harness `smoke/busybox_matrix_smoke.c`, `matrix_capture.c` | a pipe, a worker, a deadline, a capture | run a case, scan its output, reap or kill, judge | BusyBox applets | exit, end of file, deadline and kill in any order, output cut anywhere, its own crash |
| product profile `lib/ir0_profile.h` | `/etc/ir0-profile` | read | first boot, console | a parameter of the modules |
| package selection, host build | `.config`, source trees, stamps | one batch program after the other | make | interrupted fetches |
| the rest: run scripts, network tools, status, guest smokes, toolchain wrappers | nothing that lasts | one system call, or input and output | | |

What makes each correct:

* **account library, passwd(1)**: replacing a hash is atomic for other processes and for a kill at
  any point; only root or the owner of an entry changes it; the report is true; nobody blocks. A read of the
  old file that fails is the exception: the code takes it for the end of the file.
* **adduser**: names and uids are unique, no password change of somebody else is undone, a reported
  account is there, no group and no member is lost, unless two of them really cross, a file cannot be read whole or a
  list outgrows its buffer.
* **first boot**: the done marker means a complete account, root is never left open, there is no
  account nobody asked for, the account is made once, and the machine always reaches its prompt.
* **console**: keys typed for something else are never a username, the terminal is never left
  silent, a shell belongs to whoever typed that user's password, a crash resumes and a logout asks.
* **keyboard layout**: a reader never meets half a name; kernel and file agree after a success.
* **boot**: nothing runs beside the unattended first boot; no helper keeps the machine from coming
  up or from recovery; what was written before a shutdown is saved.
* **matrix harness**: a case called supported is one whose worker ended as wanted with the needle in its
  output, a needle called missing is not there, a timeout is a timeout, and the suite ends.

## Modules

| module | models | state and actions in the code |
|---|---|---|
| `AuthFiles` | `lib/ir0_auth.c`: what is looked up, verified, rewritten | a file is a sequence of lines; operators only |
| `ShadowAtomic` | the promise in `lib/ir0_auth.h`: "Replace the hash of @user in /etc/shadow atomically" | abstract specification: one `Commit` step or a failure; and `CommitPart`, where the code departs from the promise |
| `ShadowUpdate` | `services/ir0_passwd.c` over `ir0_shadow_set_hash` and `lock_accounts` | one action per call that others can see: each `flock` try, each `fopen`, each line copied, `rename`, unlock; `WriteFails`, `OpenFails`, `Die`; `FinishCopy` is the end of the file or a failed read, which the code cannot tell apart (`cut` remembers) |
| `AccountDb` | one adduser beside any number of passwd(1) | extends `ShadowUpdate`; an append to `/etc/shadow` is two steps, since passwd(1) may rename between `open` and `write`; uids are computed as in `uid_t`; a lookup or `next_uid` may see a beginning of the file only (`blind`) |
| `AddRace` | several addusers at once, with `ensure_group_member` | files behind two names: a process keeps writing the file it opened, whatever its name has become; `/etc/group` may be read in part (`blind`) |
| `FirstBoot` | `services/ir0_firstboot.c` with its two callers | `plan` is the list of file operations still to do; a write is a truncation and then the content, and the power may go, or a call fail, between any two |
| `ConsoleSession` | `services/runit_console_run.c` and the terminal functions | `pc` is the next call; `Type` is somebody at the keyboard, at any time |
| `Keymap` | keymap(1), `lib/ir0_keymap.c`, the console's `ir0_keymap_apply_file` | files byte by byte; `fd` is the name the file a process writes has by now |
| `Boot` | the three stages and their helpers, recovery, shutdown | `stage` is the program in charge; `cache` and `disk` count the changes of root made and saved |
| `MatrixCapture` | the needle matcher and the store of `matrix_capture.c` | one action per byte matched, one per chunk stored; every stream, cut in every way |
| `MatrixCase` | `run_case`, `classify_full` and `main` of `busybox_matrix_smoke.c`, the reading loops of `matrix_capture.c` | `pc` is the harness's next call; the worker, the clock and a crash of the harness are actions of their own |
| `*_proofs` | | invariants, lemmas and theorems |
| `MC*` | | the small instances |

What composes what. `ShadowUpdate`, `AccountDb` and `ConsoleSession` extend `AuthFiles`, so that the login
accepts by the very operator with which passwd(1) checks the old password. `AccountDb` is the composition of adduser
and passwd(1): its `Passwd` is the whole `Next` of `ShadowUpdate` and the effect of a rename on what adduser has open.
`ShadowUpdate` implements `ShadowAtomic` by a refinement mapping (`Call`) that hides the temporary file,
the lock and the position. `FirstBoot` holds both callers of ir0-firstboot; `Boot` sees it as a helper that writes for
some time. `MatrixCase` takes the matcher as exact: a needle is seen when the chunk that ends it was read. `MatrixCapture` shows that it
may for a needle none of whose proper prefixes has a border, which are all of the table but `/bin/ls`; a case with that one can
be called wrong output although its needle is there, after `/bin/bin`.

Definitions whose comment begins "A mistake" are bugs one could make in the definition that follows;
no specification uses them. They show that the properties are not vacuous.

### How data is abstracted

A stored hash is the password it verifies: crypt is taken to be injective, and its salts tell no two states
apart. A field that starts with `!` or is `*` is `Locked`; the aging tail of a line is one value. In `FirstBoot` a file
holds the identity (user, whether root is locked, whether there is recovery) it was written for, or `Torn`, or `Gone`. A torn `/etc/shadow` counts as no open root, which is not so of every torn content: one cut
just behind `root:` is an empty hash, which `ir0_password_verify` (line 280) accepts. So `RootStaysLocked` is of whole
files. (`write_file` makes one `write` of a few dozen bytes; the kernel would have to cut that one.) In
`AddRace` the relation `PartOf` gives the pairs of names for which `strstr` answers yes, and a list of members has a size, so that
it can be cut. In `MatrixCase` output is a set of kinds of chunk: the needle, other text, and the two messages the verdict
knows. In `Keymap`, where two writers overwrite each other's bytes, and in `MatrixCapture` the bytes are kept.

## Runs

| run | question | bounds |
|---|---|---|
| `shadow_update` | Two passwd(1) at once, killed or failing anywhere, reads of the old file among the failures: the lock excludes (`LockProtects`), the copy is the rewrite of the file as it is now, or of its lines before a failed read (`TmpIsRewrite`), a hash is replaced only for whoever may (`OwnEntryOrRoot`), the exit status is true (`ReportIsTrue`), every call returns (`SetHashReturns`), the lock is given back (`LockReleased`), and the whole implements `ShadowAtomic` | 2 processes, 2 users, 1 new password, 2 tries, two initial shadow files (a doubled user, a missing one, no aging tail; root before a user) |
| `account_db` | adduser beside passwd(1), both with reads that fail: unique accounts, no hash without account, no password change undone, and lines lost only to a passwd(1) that had not read them | 1 passwd(1), root and 2 users, 2 passwords (symmetric), 3 accounts, uids from 3 with the wrap at 8; at the start one user has what a killed adduser left, with the first uid or the last |
| `account_db_lost` | finding: the line of a new account is lost | as before |
| `add_race` | Two addusers: what each still gets (`CreatedIsThere`), twins only if they met or the uid wrapped (`TwinsMet`), groups and members lost only in a crossing or by a read that failed (`LostOnlyInACrossing`), membership true as long as files and lists are read whole (`AddedIsInGroups`) | 2 processes (symmetric), 2 names one of which is part of the other, uids 3 to 7 with the wrap at 8, lists cut at 9 bytes, two files for passwd; one for group, with users on two lines, one of which the first adduser fills and the second cuts, and no wheel |
| `first_boot` | Any number of boots, power cuts and failures: safety, and the prompt is reached once the power stays on (`EventuallyUp`) | 4 profiles, 2 users, 2 valid seeds and a bad one, 2 layouts |
| `first_boot_dev` | finding: a development image that never logs in again | as before |
| `console` | Login, sessions, typing at any moment, failing terminal calls | 2 lines queued, 2 failures, 2 users, root locked, open or with a password |
| `matrix_capture` | The naive matcher and the store on every stream cut in every way | 3 letters, 6 needles of every shape, 7 bytes, reads of up to 3, a window of 4, a store of 5 |
| `matrix_case` | Every order of output, end, exit, deadline, kill, failing call and crash: verdicts are true and the suite ends | 1 case, pipe and store of one chunk, each limit one tick, 2 last waits |
| `matrix_stuck` | finding: the last wait has no limit | as before, no crash of the harness |
| `boot` | Boots, recoveries, shutdowns with power cuts and failing helpers | 3 writes |
| `keymap` | Two keymap(1) and the console's start on one temporary file | 2 processes, names of different length |

Why the bounds are enough. Two processes suffice for a lock or a race of pairs (and the proofs are
for any number). The tries (20 in the code) are 2, so that "again" and "last time" both happen; `account_db` has 1, since there
nobody competes for the lock. `MaxAccounts = 3` lets adduser
create one account beside root and the one a killed adduser left, and lookups that fail give it either name and any uid. In `add_race` a process runs once; the two run one after the other
in some behaviours and cross in others, and the numbers are so small that a uid wraps and a list is cut. `MaxQueue = 2` gives a
terminal a line to be consumed and one left behind; two failing terminal calls are as many as the code stands
(the proofs show where three would do). In `matrix_capture` a needle longer than the window, one with a
repeating prefix and the full store all occur in 7 bytes. In `matrix_case` a pipe of one chunk is full and empty in turn.
Three writes let one be before, one during and one after a shutdown. Nothing bounds the number of boots, power cuts,
kills, logins, sessions or keymap runs.

Deadlock is checked in every run but two: in `matrix_capture` the stream ends, in `add_race` the processes end.

### Fairness

* `ShadowUpdate`: `WF(SetHash(p))`. Inside `ir0_shadow_set_hash` no call waits for another process
  (`LOCK_NB`, files), so the scheduler alone makes it go on. The dialogue waits for a person and gets no
  fairness, nor does `Die`. Weak fairness of the disjunction is enough: some try at the lock is always
  possible, and each counts.
* `FirstBoot`: `WF(Step)`: programs run and the wizard is answered. Nothing is assumed of failures of files and of
  programs. A terminal whose reads keep failing is not covered: the wizard then asks again for ever (lines 337 and 382).
  `EventuallyUp` has the premise that from some time on there is no power cut.
* `Boot`: `WF(Stages)`, `WF(Stopping)`: a program of the boot or the shutdown that can go on does. That a helper
  succeeds is not assumed: it may fail, or not start.
* `MatrixCase`: `WF(Harness)`, `WF(Tick)` and `WF(DieOfKill)`: the harness is scheduled, time passes, and a killed worker
  becomes waitable. Nothing is assumed of the worker, but `SuiteEnds` has the premise
  `OutputEnds` (from some time on nothing is written), because the code needs it: see below. `StuckSpec` drops `DieOfKill`.
* `AccountDb`, `AddRace`, `ConsoleSession`, `Keymap`, `MatrixCapture`: safety only. The console waits for a person
  and the others hold no lock, so there is nothing to wait for.

## Proofs

All theorems are for every value of the constants that satisfies the named ASSUMEs (special values distinct, files
sequences of lines, at least one try). Each component has its own inductive invariant.

**`AccountDb_proofs`** has three parts, for the three modules the account files are modelled in.

*The files* (`AuthFiles`): lemmas of lookup and rewriting. The first matching line exists and is least
(well-foundedness of `<`); a lookup answers a line of the file; a rewrite is a shadow file, keeps every line in its place,
changes one user's hashes only, and is answered by `ir0_shadow_hash` (`RewrittenLines`, `RewrittenHashes`); two files
with a common beginning answer alike (`SameFirst`).

*passwd(1)* (`ShadowUpdate`), for any number of processes: `TypeCorrect`, `MutualExclusion` (`LockProtects`),
`TmpIsAlwaysRewrite`, `Atomicity` (`AtomicReplace`), `Report` (`ReportIsTrue`), `Ownership` (`OwnEntryOrRoot`),
`Implementation` (`ImplementsAtomic`). `LockProtects` is inductive with `TypeOK`. That a process renames
a complete and *current* rewrite needs to know what the temporary file holds while it is written:
`CopiedPrefix` says that it is the rewrite of the lines read so far. It is inductive only with
`LockProtects`, for another process could otherwise change `shadow` or `tmp` under the copier. `NotYetOk` says that success is
reported by the rename and not before. So
`IInv == TypeOK /\ LockProtects /\ TmpIsRewrite /\ NotYetOk`. When a read fails the copy is the rewrite of a shorter file, the lines
read: the same lemmas hold of it, and everything said of the whole file is said under `~ cut[p]`. `Ownership` adds `Rightful` (a running process is root's or its
target's owner's) and has the hypothesis `UniqueNames`: with two lines of one name in `/etc/passwd`, a caller found by
uid on the second would change the hash of the first. For `Implementation`, `Rename` maps to `Commit`, or to `CommitPart` after a failed read, `ChooseNew` to
`Begin`, a failure to `Fail`, `Unlock`, `GiveUp` and a death in the call to `End`, everything else to a stutter.

*adduser beside them* (`AccountDb`), which takes no lock: `DbMutualExclusion`, `PasswordStays`
(`PasswordChangeStays`), `LossIsUnread` (`LinesLostOnlyUnread`), `Unique` (`UniqueAccounts`), `NamesHaveAccounts`
(`ShadowNamesHaveAccounts`). Here `TmpIsRewrite` is *false*: adduser may append after the copy. What is true
is `WroteRead`: the copy is the rewrite of the first lines of the file, and, if no read failed, everybody whose password was ever set by passwd(1) has
a line among them. That is enough for `PasswordStays`, since a lookup takes the first line of a user; the history `last` forgets
the users a failed read has hidden. It
rests on `PasswordChangeStays` itself at the moment the copy ends, so the two are proved together, in
`DbInv`. `Unique` needs that `next_uid` is above every uid of a file of any length that does not hold the last uid (`NextUidIsNew`), that uids
fit their 32 bits (`UidsFit`), that the name being added is still
new (`AddsNew`), and, as hypothesis, a start without doubles (`UniqueFiles`); `NamesHaveAccounts` the hypothesis
`MatchingFiles`.

**`FirstBoot_proofs`**, for any profiles, users, seeds and layouts: `TypeCorrect`, `DoneIsComplete`, `RootLocked`,
`NobodyImplicit`, `UpIsDone`, `Final` (`DoneIsFinal`). None of these is inductive, for what a cut leaves depends on what was still
to be written. `Legitimate`: whatever is on the disk or in the plan was asked for. `Marks`: a plan is of one
identity, before a marker every account file is written or to be written, and after it none is. `Place` and
`Finishing`: where the program is, and that an unfailed run is done or has a marker in its plan.

**`ConsoleSession_proofs`**, for any account files and any typing: `TypeCorrect`, `Granted`, `Policy`, `Hidden`, and
`EchoBack` if at most 3 terminal calls fail, `Fresh` if at most 2 do. The last two rest on a count: `EchoNeedsErrors` and
`StaleNeedsErrors` say how many calls must have failed for the echo to be still off, or an old line still queued, at each place.
They are the exact budget of the code: each restore tries twice, and three calls drop typed-ahead lines.

**`MatrixCapture_proofs`**, for any needle, stream and cuts: `TypeCorrect`, `NeedleIsThere`, `NaiveRestartIsEnough`,
`StoreIsTrue`. What is matched is the end of what was passed, and, for a needle none of whose proper prefixes
ends as it begins (`Simple`), the longest such end. The one needle of the table that is not simple is `/bin/ls`, which
the matcher misses in `/bin/bin/ls`; the comment in the code ("naive; good enough") claims no more.

**`MatrixCase_proofs`**, for any table, limits and sizes: `TypeCorrect`, `Earned`, `Missing`, `TimedOut`. The invariant says that output is
in the pipe or was read (`OutputIsKept`), and that what the harness knows of its worker's end is true (`ExitIsKnown`).

**`Boot_proofs`**, for any number of writes: `TypeCorrect`, `FirstBootAloneAlways`, `OrderlyShutdown` (with `DueIsKept`:
what a shutdown has to save is in the cache, and after the sync on the disk).

**`AddRace_proofs`**, for any number of addusers and any account files: `TypeCorrect`, `Created` (`CreatedIsThere`), `Twins`
(`TwinsMet`), `LostInACrossing` (`LostOnlyInACrossing`), `AddedMembers` (`AddedIsInGroups`). `Created` rests on `Appended`: whoever is
past its appends has its lines, since others only append. `Twins` needs that the history is complete
(`MeetingsNoted`) and what is known before the append (`TwinsKnown`): a line with the name, or the picked uid, of
one about to append is of somebody it has met. It rests on `next_uid` being above every uid
of a file of any length until the last uid is given (`NextUidIsNew`). For `/etc/group` the
invariant is `GroupInv`: of one that was never inside `ensure_group_member` with another, what it has open, will write and will
rename is the copy of `/etc/group` as it is (`Copying`); a step of another leaves those files alone (`OthersKeepAway`); so that
its rename takes away only what the copy drops (`CopyKeeps`: the end of a list longer than is read). Whoever is not `blind` read the
whole file (`PartOfFile`). `AddedMembers`
adds `Members`: whoever has been through a group is in it. The lemmas of the copy hold for files of any length and
any sizes of names (`SeenNames`, `CopyLines`, `CopyAdds`). The account files of the image are assumed to have no name and no uid twice
(`BaseAssumption`), as `Twins` counts from there.

The proof of `AddedMembers` did not go through at first, and for a reason: a list of members that is full when one adduser leaves
is cut by the next, which drops the user the first one added, although the two never met. In the small instance
the lists were too short for it. The history `short` now names it, and the instance has such lists.

**`Keymap_proofs`**, for any number of keymap(1) processes, in bytes: `TypeCorrect`, `AlwaysNamed` (`AlwaysALayout`), `Healed` (`MixHeals`),
`Agreed` (`AloneAgrees`). As long as writers do not meet, the next file is, at each place of the one who writes it,
what it has written so far (`Written`), and the kernel was set before (`SetBefore`). Where they do meet the invariant is `Healing`: a
file somebody has begun either waits for a name still to be written, or begins with one of the two names and its end of
line is there or still to come (`UsLine`, `LatamLine`), whoever wrote the bytes behind it and whatever name the file has by now. The end of the line of
"us" falls on the third letter of "latam", which leaves "la": it is by the other name `ir0_keymap_parse` knows for latam that it heals.
The lemmas are of the parser (`UsParsed`, `LatamParsed`: the word before the first end of line) and of `write`
(`OverBytes`, `OverEnd`). `KeymapAssumption` says that a staged `/etc/keymap` names a layout.

Model-checked only: liveness (`SetHashReturns`, `LockReleased`, `EventuallyUp`, `SuiteEnds`, `BootSettles`), for fairness and ENABLED
are beyond the prover. Every invariant and every action property of a passing run has its theorem.

What can be proved of liveness is its safe half, that there is no way to go on for ever: `CallsReturn` (`CallsGoOn`, with
`IInv`), `BootIsBounded` of `FirstBoot_proofs` (with `Place`, and that a half-written file has its call in the plan) and of
`Boot_proofs` (with `FirstBootIsAlone`). Each measures what is left to do, the first two lexicographically, and says that
every step of the process or boot in question makes it smaller and that no step of anybody else makes it larger; for the call,
`LockProtects` is what keeps the file it copies from growing (beside adduser, which takes no lock, it can grow by a line a run). That the steps are taken is the fairness TLC assumes. For
`SuiteEnds` there is no such measure of the harness alone: how long it reads is up to the worker.

## Findings

* `account_db_lost`: `lib/ir0_auth.c:357` announces an "Advisory lock around passwd/shadow updates", but adduser does
  not take it. A passwd(1) that has copied `/etc/shadow` renames its copy over the line adduser has just
  appended; adduser says "account created" and its user cannot log in. `LossIsUnread` and `PasswordStays`
  show that this is the whole damage adduser does beside it: no password change is undone.
* `first_boot_dev`: on a development image the seed writes the done marker before it writes autologin again. A
  power cut in between leaves an image that is "done" and has no autologin, where `Documentation/PROFILES.md:19`
  promises "root autologin".
* `matrix_stuck`: `busybox_matrix_smoke.c:490` caps the wait after a kill "so a stuck zombie cannot hang us", and the wait at
  line 529 that follows it has no limit.

Met on the way, without a run of their own:

* `lib/ir0_auth.h:72` says that `ir0_shadow_set_hash` replaces a hash "atomically". The loop that copies the old file
  (`ir0_auth.c:417`) ends at the first `fgets` that answers NULL and does not ask `ferror`: a read of `/etc/shadow` that fails is taken
  for its end, and a file without the lines behind it is renamed into place and reported as success. Any user's passwd(1) can
  so lose the lines of all others, and a change another passwd(1) reported. The model has it (`FinishCopy`, `cut`; `CommitPart`
  in `ShadowAtomic`), every property it touches names it, and the proofs show that it is the only departure:
  nobody's hash is *replaced* by it, the lines before the failure are kept, and the target gets its hash.
* The same loop in adduser: a failed read of `/etc/group` (`ir0_adduser.c:138`) loses the groups behind it, and one of `/etc/passwd`
  (line 74, or the lookup) gives out a uid or a name that is taken (`blind` in both modules).
* The password the caller of passwd(1) must know is the one read before the prompts (`ir0_passwd.c:98`), which need not be
  the one in the file when the new one is written: `Verify` and `TryLock` are two steps, and no property says otherwise.
* Two addusers at once may make one name or uid twice, and lose groups, and both report "created": no document says that
  they may run at once.
* `busybox_matrix_smoke.c:35` speaks of a "wall budget per applet", but the read loop looks at no clock while there is
  something to read: an applet that floods keeps its case from its deadline (premise `OutputEnds`).
* keymap(1) beside the start of the console may report "set" while the kernel has the layout the console read before
  (`AloneAgrees` is about one that ran alone).
* `Documentation/FIRSTBOOT.md:13` gives `/etc/ir0-firstboot-done` as the `/etc` marker; the code writes
  `/etc/firstboot.done` and honours the other as a legacy name. The two are one in `FirstBoot`.
* A line with uid 4294967295 makes `next_uid` answer 0 (`TwinsMet` and `UniqueAccounts` name it); a `/etc/group` that cannot be opened is replaced
  by one with the new group alone (`blind`); a list of 256 bytes or more loses its end, so that a user added
  by one adduser is dropped by the next (`short`).

## Assumptions, and what is not modelled

* Files reach the disk in the order written in `FirstBoot`, as the `fsync` of `write_file` gives it.
  `ir0_shadow_set_hash` and `ir0_keymap_write_file` do not sync before their rename: the models have kills of processes there and no
  power cuts.
* `/etc/shadow` and `/etc/group` consist of whole lines that fit the code's line buffers and end with a newline; an append of
  one line is one write. A line typed on the terminal is whole and fits the buffer: the rest of a username longer
  than one read of 63 bytes, which the next read takes for the password, is not modelled.
* The password field of `/etc/passwd` is always "x" for passwd(1) and adduser; the console looks at the field itself.
* In `ConsoleSession` the account files do not change: a resumed session uses the account as read at login, whatever passwd(1) has done
  since. The service itself does not die, and `waitpid` does not fail. In `FirstBoot` the profile can be read, and no environment variable names a seed
  (nothing in the boot sets one).
* `fsck.ir0` reads a device and prints what it finds; nobody looks at its answer. In `Boot` it is a helper that ends, or does not
  start. `Boot` leaves out what runit does after a stage 1 that fails (its sources are not in the repository) and the optional 9p
  mount of a developer's tree.
* Group lists, salts and the host name of the account library are plain input and output. So are network tools, the status report, the run scripts of
  one `exec` each, the passwd, doas and power smokes (drivers of the programs modelled here) and the toolchain wrappers.
* Package selection is a recursive closure computed by one batch program of the host. The host build runs curl, tar, patch and make one
  after the other; its one hazard is that `fetch-package.sh:58` moves a tree into place before it patches it, so that an
  interrupt leaves an unpatched tree that the next run takes for a finished one.
* OpenDoas, BusyBox and runit are fetched at build time; only what the code expects of them is there.
