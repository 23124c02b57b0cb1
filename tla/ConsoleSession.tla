---------------------------- MODULE ConsoleSession ----------------------------
(* The console service (services/runit_console_run.c): getty, login and the *)
(* shell it forks and waits for, on a terminal that echoes and queues what  *)
(* somebody types at any time. Its terminal calls (lib/ir0_auth.c) may fail *)
(* MaxTtyErrors times. It starts here after the first-boot wizard.          *)
EXTENDS AuthFiles

CONSTANTS
    Root,           \* the name "root"
    InShadow,       \* a passwd field "x" or "*"
    PasswdFiles,    \* the contents of /etc/passwd: lines [name, uid, passwd]
    ShadowFiles,    \* the contents of /etc/shadow
    Nobody,         \* no user
    MaxQueue,       \* bound: lines typed and not yet read
    MaxTtyErrors    \* bound: ioctls that fail

Text == Name \cup Password \cup {Empty}
Config == [passwd : PasswdFiles, shadow : ShadowFiles, deny : BOOLEAN,
           autologin : Name \cup {Nobody}, appliance : BOOLEAN]

ASSUME ConsoleAssumption ==
    /\ Root \in Name
    /\ Nobody \notin Text /\ Absent \notin Text
    /\ MaxQueue \in Nat /\ MaxTtyErrors \in Nat

VARIABLES
    config,     \* [passwd, shadow, deny, autologin, appliance]: the files read
    pc,         \* the call the service is about to make
    user,       \* the username read
    pass,       \* the password read
    acct,       \* the account filled in by ir0_account_by_name
    silenced,   \* the restore flag of ir0_read_line
    logout,     \* the last shell exited with status 0
    echo,       \* the terminal echoes
    queue,      \* complete lines typed and not yet read: [text, at, seen]
    errors,     \* ioctls that have failed
    granted     \* whose password was accepted, until that user logs out

tty == <<echo, queue, errors>>
login == <<user, pass, acct, silenced>>
vars == <<config, pc, login, logout, tty, granted>>

------------------------------------------------------------------------------

IoctlFails(n) == errors' = errors + n /\ errors' <= MaxTtyErrors

\* ir0_tty_set_echo and ir0_tty_flush_input, which may fail and change nothing.
SetEcho(on) ==
    /\ \/ echo' = on /\ UNCHANGED errors
       \/ UNCHANGED echo /\ IoctlFails(1)
    /\ UNCHANGED queue
FlushInput ==
    /\ \/ queue' = <<>> /\ UNCHANGED errors
       \/ UNCHANGED queue /\ IoctlFails(1)
    /\ UNCHANGED echo

\* A mistake: no second attempt when TCSETSF fails.
RestoreCookedOnce ==
    \/ echo' = TRUE /\ queue' = <<>> /\ UNCHANGED errors
    \/ IoctlFails(1) /\ UNCHANGED <<echo, queue>>

\* ir0_tty_restore_cooked: TCSETSF, which flushes, or set_echo when it fails.
RestoreCooked ==
    \/ echo' = TRUE /\ queue' = <<>> /\ UNCHANGED errors
    \/ echo' = TRUE /\ IoctlFails(1) /\ UNCHANGED queue
    \/ IoctlFails(2) /\ UNCHANGED <<echo, queue>>

StoredOf(u) ==
    LET a == AccountByName(config.passwd, u)
    IN  IF a = Absent THEN Absent
        ELSE IF a.passwd = InShadow THEN ShadowHash(config.shadow, u)
        ELSE a.passwd

\* A mistake: /etc/ir0-noroot is not looked at.
AcceptsRoot(u, p) ==
    /\ StoredOf(u) # Absent
    /\ Verifies(StoredOf(u), p)

\* auth_user: the account must exist, root must not be refused, and the
\* password must verify against the passwd or the shadow field.
Accepts(u, p) ==
    /\ StoredOf(u) # Absent
    /\ ~ (u = Root /\ config.deny)
    /\ Verifies(StoredOf(u), p)

\* ir0_account_by_name clears acct before it looks, and fills it even when the
\* user is refused afterwards.
Looked(u) == IF AccountByName(config.passwd, u) = Absent THEN Nobody ELSE u

------------------------------------------------------------------------------

Init ==
    /\ config \in Config
    /\ pc = "start"
    /\ user = Nobody
    /\ pass = Empty
    /\ acct = Nobody
    /\ silenced = FALSE
    /\ logout = FALSE
    /\ echo = TRUE
    /\ queue = <<>>
    /\ errors = 0
    /\ granted = Nobody

\* An appliance pauses for ever; the others restore the terminal and log the
\* user of /etc/ir0-autologin in if an empty password does.
Start ==
    /\ pc = "start"
    /\ IF config.appliance THEN UNCHANGED tty ELSE RestoreCooked
    /\ pc' = IF config.appliance THEN "paused" ELSE "autologin"
    /\ UNCHANGED <<config, login, logout, granted>>

Pause == pc = "paused" /\ UNCHANGED vars

\* No such file, or one without a name, or one that cannot be read, leads to
\* the prompt, and so does a login that is refused.
Autologin ==
    /\ pc = "autologin"
    /\ \/ /\ config.autologin # Nobody
          /\ Accepts(config.autologin, Empty)
          /\ acct' = config.autologin
          /\ granted' = config.autologin
          /\ pc' = "session"
       \/ /\ acct' \in {acct} \cup {Looked(u) : u \in {config.autologin} \ {Nobody}}
          /\ pc' = "restore"
          /\ UNCHANGED granted
    /\ UNCHANGED <<config, user, pass, silenced, logout, tty>>

\* The loop of main: restore, flush, prompt, flush again and read.
RestoreBeforePrompt ==
    /\ pc = "restore"
    /\ RestoreCooked
    /\ pc' = "flush"
    /\ UNCHANGED <<config, login, logout, granted>>

FlushBeforePrompt ==
    /\ pc = "flush"
    /\ FlushInput
    /\ pc' = "prompt"
    /\ UNCHANGED <<config, login, logout, granted>>

Prompt ==
    /\ pc = "prompt"
    /\ pc' = "reflush"
    /\ UNCHANGED <<config, login, logout, tty, granted>>

\* A mistake: nothing is dropped once the prompt is out.
NoFlushAfterPrompt ==
    /\ pc = "reflush"
    /\ pc' = "username"
    /\ UNCHANGED <<config, login, logout, tty, granted>>

FlushAfterPrompt ==
    /\ pc = "reflush"
    /\ FlushInput
    /\ pc' = "username"
    /\ UNCHANGED <<config, login, logout, granted>>

\* What was typed ahead of the password prompt counts as typed before.
ReadUsername ==
    /\ pc = "username"
    /\ queue # <<>>
    /\ user' = Head(queue).text
    /\ queue' = [i \in DOMAIN Tail(queue) |-> [Tail(queue)[i] EXCEPT !.at = "before"]]
    /\ pc' = IF user' = Empty THEN "restore" ELSE "silence"
    /\ UNCHANGED <<config, pass, acct, silenced, logout, echo, errors, granted>>

\* A mistake: the flags are cleared the other way round.
SilenceInverted ==
    /\ pc = "silence"
    /\ SetEcho(TRUE)
    /\ silenced' = (errors' = errors)
    /\ pc' = "password"
    /\ UNCHANGED <<config, user, pass, acct, logout, granted>>

\* ir0_read_line(..., 0), after the prompt "Password: ".
Silence ==
    /\ pc = "silence"
    /\ SetEcho(FALSE)
    /\ silenced' = (errors' = errors)
    /\ pc' = "password"
    /\ UNCHANGED <<config, user, pass, acct, logout, granted>>

ReadPassword ==
    /\ pc = "password"
    /\ queue # <<>>
    /\ pass' = Head(queue).text
    /\ queue' = Tail(queue)
    /\ pc' = "unsilence"
    /\ UNCHANGED <<config, user, acct, silenced, logout, echo, errors, granted>>

Unsilence ==
    /\ pc = "unsilence"
    /\ IF silenced THEN SetEcho(TRUE) ELSE UNCHANGED tty
    /\ silenced' = FALSE
    /\ pc' = "cooked"
    /\ UNCHANGED <<config, user, pass, acct, logout, granted>>

RestoreAfterPassword ==
    /\ pc = "cooked"
    /\ RestoreCooked
    /\ pc' = "auth"
    /\ UNCHANGED <<config, login, logout, granted>>

\* A mistake: no "continue" after a refused login.
AuthenticateAnyway ==
    /\ pc = "auth"
    /\ acct' = Looked(user)
    /\ pass' = Empty
    /\ pc' = "session"
    /\ granted' = IF Accepts(user, pass) THEN user ELSE granted
    /\ UNCHANGED <<config, user, silenced, logout, tty>>

\* auth_user also refuses when a file cannot be read; the password is wiped
\* whatever the outcome.
Authenticate ==
    /\ pc = "auth"
    /\ pass' = Empty
    /\ \/ /\ Accepts(user, pass)
          /\ acct' = user
          /\ granted' = user
          /\ pc' = "session"
       \/ /\ acct' \in {Looked(user), Nobody}
          /\ pc' = "denied"
          /\ UNCHANGED granted
    /\ UNCHANGED <<config, user, silenced, logout, tty>>

\* sleep(1), then what was typed meanwhile is dropped.
Deny ==
    /\ pc = "denied"
    /\ FlushInput
    /\ pc' = "restore"
    /\ UNCHANGED <<config, login, logout, granted>>

------------------------------------------------------------------------------

\* start_session.
StartSession ==
    /\ pc = "session"
    /\ RestoreCooked
    /\ pc' = "fork"
    /\ UNCHANGED <<config, login, logout, granted>>

Fork ==
    /\ pc = "fork"
    /\ pc' = "child"
    /\ UNCHANGED <<config, login, logout, tty, granted>>

ForkFails ==
    /\ pc = "fork"
    /\ pc' = "restore"
    /\ granted' = Nobody
    /\ UNCHANGED <<config, login, logout, tty>>

\* session_child: the terminal is restored once more before the shell runs.
ExecShell ==
    /\ pc = "child"
    /\ RestoreCooked
    /\ pc' = "shell"
    /\ UNCHANGED <<config, login, logout, granted>>

\* It cannot change session, group or user, or there is no shell to run.
ChildFails ==
    /\ pc = "child"
    /\ pc' = "ended"
    /\ logout' = FALSE
    /\ UNCHANGED <<config, login, tty, granted>>

\* The shell exits with status 0, or otherwise, or is killed; it may have left
\* the terminal with or without echo.
ShellEnds ==
    /\ pc = "shell"
    /\ logout' \in BOOLEAN
    /\ granted' = IF logout' THEN Nobody ELSE granted
    /\ echo' \in BOOLEAN
    /\ pc' = "ended"
    /\ UNCHANGED <<config, login, queue, errors>>

RestoreAfterShell ==
    /\ pc = "ended"
    /\ RestoreCooked
    /\ pc' = "flushed"
    /\ UNCHANGED <<config, login, logout, granted>>

\* A logout leads back to the prompt, anything else to a new shell.
FlushAfterShell ==
    /\ pc = "flushed"
    /\ FlushInput
    /\ pc' = IF logout THEN "restore" ELSE "session"
    /\ UNCHANGED <<config, login, logout, granted>>

PromptPc == {"flush", "prompt", "reflush", "username"}

\* Somebody types a line, which the terminal shows if it echoes.
Type ==
    /\ pc \notin {"start", "paused"}
    /\ Len(queue) < MaxQueue
    /\ \E t \in Text :
           queue' = Append(queue,
                      [text |-> t, seen |-> echo,
                       at |-> IF pc \in PromptPc THEN "prompt"
                              ELSE IF pc = "password" THEN "password"
                              ELSE "before"])
    /\ UNCHANGED <<config, pc, login, logout, echo, errors, granted>>

Next ==
    \/ Start \/ Autologin \/ RestoreBeforePrompt \/ FlushBeforePrompt \/ Prompt
    \/ FlushAfterPrompt \/ ReadUsername \/ Silence \/ ReadPassword \/ Unsilence
    \/ RestoreAfterPassword \/ Authenticate \/ Deny
    \/ StartSession \/ Fork \/ ForkFails \/ ExecShell \/ ChildFails \/ ShellEnds
    \/ RestoreAfterShell \/ FlushAfterShell \/ Type \/ Pause

Spec == Init /\ [][Next]_vars

------------------------------------------------------------------------------

Line == [text : Text, at : {"before", "prompt", "password"}, seen : BOOLEAN]
SessionPc == {"session", "fork", "child", "shell", "ended", "flushed"}
LoginPc == {"start", "autologin", "restore", "flush", "prompt", "reflush",
            "username", "silence", "password", "unsilence", "cooked", "auth",
            "denied"}

\* The type invariant of the console; a password is held only from the read to
\* the answer of auth_user, which ir0_wipe follows.
TypeOK ==
    /\ config \in Config
    /\ pc \in SessionPc \cup LoginPc \cup {"paused"}
    /\ user \in Text \cup {Nobody}
    /\ pass \in Text
    /\ acct \in Text \cup {Nobody}
    /\ silenced \in BOOLEAN
    /\ logout \in BOOLEAN
    /\ echo \in BOOLEAN
    /\ queue \in Seq(Line) /\ Len(queue) <= MaxQueue
    /\ errors \in 0 .. MaxTtyErrors
    /\ granted \in Text \cup {Nobody}
    /\ pass # Empty => pc \in {"unsilence", "cooked", "auth"}

\* Keys typed during the delay after a failed login, while a password was read
\* or in a shell never become the next username (the comments at lines 551 and
\* 574 of runit_console_run.c), even when two of the terminal calls that drop
\* them fail: every line waiting when a username is read was typed for its prompt.
UsernameIsFresh ==
    pc = "username" => \A i \in DOMAIN queue : queue[i].at = "prompt"

\* Nobody types blind at the prompt or in a shell, whatever the previous shell
\* or an interrupted password entry left behind and although terminal calls fail.
EchoIsRestored == pc \in {"username", "shell"} => echo

\* A line typed while a password is being read is not shown, unless a terminal
\* call failed (ir0_auth.h: "@echo 0 also silences the tty").
PasswordHidden ==
    \A i \in DOMAIN queue :
        queue[i].at = "password" /\ queue[i].seen => errors > 0

\* A shell, first or resumed after a crash, is that of the user whose password
\* was accepted and who has not logged out since, never of one merely looked up
\* by a login that failed; and nobody is asked to log in while a user is.
SessionIsGranted ==
    IF pc \in SessionPc /\ ~ (logout /\ pc \in {"ended", "flushed"})
    THEN granted # Nobody /\ acct = granted
    ELSE granted = Nobody

\* Whoever logs in, at the prompt or automatically, may: nobody on an appliance,
\* not root where /etc/ir0-noroot exists, not a locked or unknown account.
LoginPolicy ==
    granted # Nobody =>
        /\ ~ config.appliance
        /\ ~ (granted = Root /\ config.deny)
        /\ StoredOf(granted) \in Password \cup {Empty}

==============================================================================
