------------------------ MODULE ConsoleSession_proofs -----------------------
(* The console, for every content of the account files, every configuration *)
(* and any amount of typing ahead.  What the terminal shows and drops is    *)
(* proved for a bounded number of failing terminal calls.                   *)
EXTENDS ConsoleSession, TLAPS

\* Who is logged in, and why, is settled before the service goes on.
PlaceIsKnown ==
    /\ config.appliance => pc \in {"start", "paused"}
    /\ pc \in {"silence", "password", "unsilence", "cooked", "auth"} => user \in Text

\* How many calls have failed where the terminal is still without its echo:
\* each restore of the terminal is two calls, and there are two of them between
\* a shell or a password and the next one.
EchoNeedsErrors ==
    /\ pc = "start" => echo
    /\ pc \in {"autologin", "restore", "auth", "denied", "session", "flushed"} =>
           echo \/ errors >= 2
    /\ pc \in {"flush", "prompt", "reflush", "username", "silence", "fork", "child",
               "shell"} =>
           echo \/ errors >= 4

\* The same for lines typed before the prompt: three calls drop them.
Stale == \E i \in DOMAIN queue : queue[i].at # "prompt"
StaleNeedsErrors ==
    /\ pc = "flush" => ~ Stale \/ errors >= 1
    /\ pc \in {"prompt", "reflush"} => ~ Stale \/ errors >= 2
    /\ pc = "username" => ~ Stale \/ errors >= 3

\* An echo while a password is awaited is that of a call that failed.
SilenceNeedsErrors == pc = "password" /\ echo => errors > 0

Inv == /\ TypeOK /\ SessionIsGranted /\ LoginPolicy /\ PlaceIsKnown
       /\ EchoNeedsErrors /\ StaleNeedsErrors /\ SilenceNeedsErrors /\ PasswordHidden

\* The invariant holds when the service starts.
LEMMA InitInv == Init => Inv
<1> SUFFICES ASSUME Init PROVE Inv
  OBVIOUS
<1>1. TypeOK
  <2>1. <<>> \in Seq(Line) /\ Len(<<>>) <= MaxQueue
    BY ConsoleAssumption
  <2>2. Empty \in Text /\ 0 \in 0..MaxTtyErrors
    BY ConsoleAssumption DEF Text
  <2>3. queue \in Seq(Line) /\ Len(queue) <= MaxQueue
    BY <2>1 DEF Init
  <2> QED
    BY <2>2, <2>3 DEF Init, TypeOK, LoginPc
<1>2. SessionIsGranted /\ LoginPolicy /\ PlaceIsKnown
  BY DEF Init, SessionIsGranted, LoginPolicy, PlaceIsKnown, SessionPc
<1>3. EchoNeedsErrors /\ StaleNeedsErrors /\ SilenceNeedsErrors /\ PasswordHidden
  BY DEF Init, EchoNeedsErrors, StaleNeedsErrors, SilenceNeedsErrors, PasswordHidden
<1> QED
  BY <1>1, <1>2, <1>3 DEF Inv

\* The terminal calls keep the types of what they change.
LEMMA TtyType ==
    ASSUME TypeOK,
           RestoreCooked \/ FlushInput \/ SetEcho(TRUE) \/ SetEcho(FALSE) \/ UNCHANGED tty
    PROVE  /\ echo' \in BOOLEAN
           /\ queue' \in Seq(Line) /\ Len(queue') <= MaxQueue
           /\ errors' \in 0 .. MaxTtyErrors
<1>1. <<>> \in Seq(Line) /\ Len(<<>>) <= MaxQueue
  BY ConsoleAssumption
<1>2. queue' \in {queue, <<>>}
  BY DEF RestoreCooked, FlushInput, SetEcho, IoctlFails, tty
<1>3. queue' \in Seq(Line) /\ Len(queue') <= MaxQueue
  BY <1>1, <1>2 DEF TypeOK
<1>4. errors' \in 0 .. MaxTtyErrors
  BY ConsoleAssumption DEF RestoreCooked, FlushInput, SetEcho, IoctlFails, tty, TypeOK
<1>5. echo' \in BOOLEAN
  BY DEF RestoreCooked, FlushInput, SetEcho, tty, TypeOK
<1> QED
  BY <1>3, <1>4, <1>5

\* Every variable keeps its type.
LEMMA TypeStep ==
    TypeOK /\ PlaceIsKnown /\ [Next]_vars => TypeOK'
<1> SUFFICES ASSUME TypeOK, PlaceIsKnown, [Next]_vars PROVE TypeOK'
  OBVIOUS
<1> USE ConsoleAssumption DEF TypeOK, SessionPc, LoginPc, login, tty, vars
<1>1. CASE Start
  BY <1>1, TtyType DEF Start
<1>2. CASE Autologin
  BY <1>2 DEF Autologin, Text, Looked, Config
<1>3. CASE RestoreBeforePrompt
  BY <1>3, TtyType DEF RestoreBeforePrompt
<1>4. CASE FlushBeforePrompt
  BY <1>4, TtyType DEF FlushBeforePrompt
<1>5. CASE Prompt
  BY <1>5 DEF Prompt
<1>6. CASE FlushAfterPrompt
  BY <1>6, TtyType DEF FlushAfterPrompt
<1>7. CASE ReadUsername
  <2>1. Head(queue) \in Line /\ Tail(queue) \in Seq(Line) /\ Len(Tail(queue)) <= MaxQueue
    BY <1>7 DEF ReadUsername
  <2>2. user' \in Text
    BY <1>7, <2>1 DEF ReadUsername, Line
  <2>3. queue' = [i \in 1..Len(Tail(queue)) |-> [Tail(queue)[i] EXCEPT !.at = "before"]]
    BY <1>7, <2>1 DEF ReadUsername
  <2>4. \A i \in 1..Len(Tail(queue)) : [Tail(queue)[i] EXCEPT !.at = "before"] \in Line
    <3> SUFFICES ASSUME NEW i \in 1..Len(Tail(queue))
                 PROVE  [Tail(queue)[i] EXCEPT !.at = "before"] \in Line
      OBVIOUS
    <3>1. Tail(queue)[i] \in Line
      BY <2>1
    <3> QED
      BY <3>1 DEF Line
  <2>5. Len(Tail(queue)) \in Nat
    BY <2>1
  <2>6. queue' \in Seq(Line) /\ Len(queue') = Len(Tail(queue))
    <3> DEFINE n == Len(Tail(queue))
               q == [i \in 1..n |-> [Tail(queue)[i] EXCEPT !.at = "before"]]
    <3>1. n \in Nat /\ \A i \in 1..n : q[i] \in Line
      BY <2>4, <2>5
    <3>2. q \in [1..n -> Line]
      BY <3>1
    <3> HIDE DEF n, q
    <3>3. q \in Seq(Line) /\ Len(q) = n
      BY <3>1, <3>2
    <3> QED
      BY <2>3, <3>3 DEF n, q
  <2> QED
    BY <1>7, <2>1, <2>2, <2>6 DEF ReadUsername
<1>8. CASE Silence
  <2>1. silenced' \in BOOLEAN
    BY <1>8 DEF Silence
  <2> QED
    BY <1>8, <2>1, TtyType DEF Silence
<1>9. CASE ReadPassword
  <2>1. Head(queue) \in Line /\ Tail(queue) \in Seq(Line) /\ Len(Tail(queue)) <= MaxQueue
    BY <1>9 DEF ReadPassword
  <2> QED
    BY <1>9, <2>1 DEF ReadPassword, Line
<1>10. CASE Unsilence
  BY <1>10, TtyType DEF Unsilence
<1>11. CASE RestoreAfterPassword
  BY <1>11, TtyType DEF RestoreAfterPassword
<1>12. CASE Authenticate
  BY <1>12 DEF Authenticate, Text, Looked
<1>13. CASE Deny
  BY <1>13, TtyType DEF Deny
<1>14. CASE StartSession
  BY <1>14, TtyType DEF StartSession
<1>15. CASE Fork
  BY <1>15 DEF Fork
<1>16. CASE ForkFails
  BY <1>16 DEF ForkFails
<1>17. CASE ExecShell
  BY <1>17, TtyType DEF ExecShell
<1>18. CASE ChildFails
  BY <1>18 DEF ChildFails
<1>19. CASE ShellEnds
  BY <1>19 DEF ShellEnds
<1>20. CASE RestoreAfterShell
  BY <1>20, TtyType DEF RestoreAfterShell
<1>21. CASE FlushAfterShell
  BY <1>21, TtyType DEF FlushAfterShell
<1>22. CASE Type
  <2>1. PICK t \in Text :
           queue' = Append(queue,
                      [text |-> t, seen |-> echo,
                       at |-> IF pc \in PromptPc THEN "prompt"
                              ELSE IF pc = "password" THEN "password"
                              ELSE "before"])
    BY <1>22 DEF Type
  <2>2. queue' \in Seq(Line) /\ Len(queue') <= MaxQueue
    BY <1>22, <2>1 DEF Type, Line
  <2> QED
    BY <1>22, <2>2 DEF Type
<1>23. CASE Pause
  BY <1>23 DEF Pause
<1>24. CASE UNCHANGED vars
  BY <1>24
<1> QED
  BY <1>1, <1>2, <1>3, <1>4, <1>5, <1>6, <1>7, <1>8, <1>9, <1>10, <1>11, <1>12,
     <1>13, <1>14, <1>15, <1>16, <1>17, <1>18, <1>19, <1>20, <1>21, <1>22, <1>23, <1>24
     DEF Next

\* A session is that of the user whose password was accepted.
LEMMA GrantStep ==
    TypeOK /\ PlaceIsKnown /\ SessionIsGranted /\ [Next]_vars => SessionIsGranted'
<1> SUFFICES ASSUME TypeOK, PlaceIsKnown, SessionIsGranted, [Next]_vars PROVE SessionIsGranted'
  OBVIOUS
<1> USE  DEF SessionIsGranted, SessionPc, login, tty, vars
<1>1. CASE Start
  BY <1>1 DEF Start, RestoreCooked, IoctlFails
<1>2. CASE Autologin
  BY <1>2 DEF Autologin, TypeOK
<1>3. CASE RestoreBeforePrompt
  BY <1>3 DEF RestoreBeforePrompt, RestoreCooked, IoctlFails
<1>4. CASE FlushBeforePrompt
  BY <1>4 DEF FlushBeforePrompt, FlushInput, IoctlFails
<1>5. CASE Prompt
  BY <1>5 DEF Prompt
<1>6. CASE FlushAfterPrompt
  BY <1>6 DEF FlushAfterPrompt, FlushInput, IoctlFails
<1>7. CASE ReadUsername
  BY <1>7 DEF ReadUsername
<1>8. CASE Silence
  BY <1>8 DEF Silence, SetEcho, IoctlFails
<1>9. CASE ReadPassword
  BY <1>9 DEF ReadPassword
<1>10. CASE Unsilence
  BY <1>10 DEF Unsilence, SetEcho, IoctlFails
<1>11. CASE RestoreAfterPassword
  BY <1>11 DEF RestoreAfterPassword, RestoreCooked, IoctlFails
<1>12. CASE Authenticate
  BY <1>12, ConsoleAssumption DEF Authenticate, PlaceIsKnown
<1>13. CASE Deny
  BY <1>13 DEF Deny, FlushInput, IoctlFails
<1>14. CASE StartSession
  BY <1>14 DEF StartSession, RestoreCooked, IoctlFails
<1>15. CASE Fork
  BY <1>15 DEF Fork
<1>16. CASE ForkFails
  BY <1>16 DEF ForkFails
<1>17. CASE ExecShell
  BY <1>17 DEF ExecShell, RestoreCooked, IoctlFails
<1>18. CASE ChildFails
  BY <1>18 DEF ChildFails
<1>19. CASE ShellEnds
  BY <1>19 DEF ShellEnds
<1>20. CASE RestoreAfterShell
  BY <1>20 DEF RestoreAfterShell, RestoreCooked, IoctlFails
<1>21. CASE FlushAfterShell
  BY <1>21 DEF FlushAfterShell, FlushInput, IoctlFails
<1>22. CASE Type
  BY <1>22 DEF Type
<1>23. CASE Pause
  BY <1>23 DEF Pause
<1>24. CASE UNCHANGED vars
  BY <1>24
<1> QED
  BY <1>1, <1>2, <1>3, <1>4, <1>5, <1>6, <1>7, <1>8, <1>9, <1>10, <1>11, <1>12,
     <1>13, <1>14, <1>15, <1>16, <1>17, <1>18, <1>19, <1>20, <1>21, <1>22, <1>23, <1>24
     DEF Next

\* The service goes past its start on no appliance.
LEMMA PlaceStep ==
    TypeOK /\ PlaceIsKnown /\ [Next]_vars => PlaceIsKnown'
<1> SUFFICES ASSUME TypeOK, PlaceIsKnown, [Next]_vars PROVE PlaceIsKnown'
  OBVIOUS
<1> USE  DEF PlaceIsKnown, login, tty, vars
<1>1. CASE Start
  BY <1>1 DEF Start, RestoreCooked, IoctlFails
<1>2. CASE Autologin
  BY <1>2 DEF Autologin
<1>3. CASE RestoreBeforePrompt
  BY <1>3 DEF RestoreBeforePrompt, RestoreCooked, IoctlFails
<1>4. CASE FlushBeforePrompt
  BY <1>4 DEF FlushBeforePrompt, FlushInput, IoctlFails
<1>5. CASE Prompt
  BY <1>5 DEF Prompt
<1>6. CASE FlushAfterPrompt
  BY <1>6 DEF FlushAfterPrompt, FlushInput, IoctlFails
<1>7. CASE ReadUsername
  <2>1. Head(queue) \in Line
    BY <1>7 DEF ReadUsername, TypeOK
  <2>2. user' \in Text
    BY <1>7, <2>1 DEF ReadUsername, Line
  <2> QED
    BY <1>7, <2>2 DEF ReadUsername
<1>8. CASE Silence
  BY <1>8 DEF Silence, SetEcho, IoctlFails
<1>9. CASE ReadPassword
  BY <1>9 DEF ReadPassword
<1>10. CASE Unsilence
  BY <1>10 DEF Unsilence, SetEcho, IoctlFails
<1>11. CASE RestoreAfterPassword
  BY <1>11 DEF RestoreAfterPassword, RestoreCooked, IoctlFails
<1>12. CASE Authenticate
  BY <1>12 DEF Authenticate
<1>13. CASE Deny
  BY <1>13 DEF Deny, FlushInput, IoctlFails
<1>14. CASE StartSession
  BY <1>14 DEF StartSession, RestoreCooked, IoctlFails
<1>15. CASE Fork
  BY <1>15 DEF Fork
<1>16. CASE ForkFails
  BY <1>16 DEF ForkFails
<1>17. CASE ExecShell
  BY <1>17 DEF ExecShell, RestoreCooked, IoctlFails
<1>18. CASE ChildFails
  BY <1>18 DEF ChildFails
<1>19. CASE ShellEnds
  BY <1>19 DEF ShellEnds
<1>20. CASE RestoreAfterShell
  BY <1>20 DEF RestoreAfterShell, RestoreCooked, IoctlFails
<1>21. CASE FlushAfterShell
  BY <1>21 DEF FlushAfterShell, FlushInput, IoctlFails
<1>22. CASE Type
  BY <1>22 DEF Type
<1>23. CASE Pause
  BY <1>23 DEF Pause
<1>24. CASE UNCHANGED vars
  BY <1>24
<1> QED
  BY <1>1, <1>2, <1>3, <1>4, <1>5, <1>6, <1>7, <1>8, <1>9, <1>10, <1>11, <1>12,
     <1>13, <1>14, <1>15, <1>16, <1>17, <1>18, <1>19, <1>20, <1>21, <1>22, <1>23, <1>24
     DEF Next

\* A password is verified against a field that is neither locked nor missing.
LEMMA AcceptedField ==
    ASSUME NEW u, NEW p, Accepts(u, p)
    PROVE  /\ ~ (u = Root /\ config.deny)
           /\ StoredOf(u) \in Password \cup {Empty}
BY DEF Accepts, Verifies

\* Only those who may log in do.
LEMMA PolicyStep ==
    TypeOK /\ PlaceIsKnown /\ LoginPolicy /\ [Next]_vars => LoginPolicy'
<1> SUFFICES ASSUME TypeOK, PlaceIsKnown, LoginPolicy, [Next]_vars PROVE LoginPolicy'
  OBVIOUS
<1> USE  DEF LoginPolicy, StoredOf, login, tty, vars
<1>1. CASE Start
  BY <1>1 DEF Start, RestoreCooked, IoctlFails
<1>2. CASE Autologin
  BY <1>2, AcceptedField DEF Autologin, PlaceIsKnown
<1>3. CASE RestoreBeforePrompt
  BY <1>3 DEF RestoreBeforePrompt, RestoreCooked, IoctlFails
<1>4. CASE FlushBeforePrompt
  BY <1>4 DEF FlushBeforePrompt, FlushInput, IoctlFails
<1>5. CASE Prompt
  BY <1>5 DEF Prompt
<1>6. CASE FlushAfterPrompt
  BY <1>6 DEF FlushAfterPrompt, FlushInput, IoctlFails
<1>7. CASE ReadUsername
  BY <1>7 DEF ReadUsername
<1>8. CASE Silence
  BY <1>8 DEF Silence, SetEcho, IoctlFails
<1>9. CASE ReadPassword
  BY <1>9 DEF ReadPassword
<1>10. CASE Unsilence
  BY <1>10 DEF Unsilence, SetEcho, IoctlFails
<1>11. CASE RestoreAfterPassword
  BY <1>11 DEF RestoreAfterPassword, RestoreCooked, IoctlFails
<1>12. CASE Authenticate
  BY <1>12, AcceptedField DEF Authenticate, PlaceIsKnown
<1>13. CASE Deny
  BY <1>13 DEF Deny, FlushInput, IoctlFails
<1>14. CASE StartSession
  BY <1>14 DEF StartSession, RestoreCooked, IoctlFails
<1>15. CASE Fork
  BY <1>15 DEF Fork
<1>16. CASE ForkFails
  BY <1>16 DEF ForkFails
<1>17. CASE ExecShell
  BY <1>17 DEF ExecShell, RestoreCooked, IoctlFails
<1>18. CASE ChildFails
  BY <1>18 DEF ChildFails
<1>19. CASE ShellEnds
  BY <1>19 DEF ShellEnds
<1>20. CASE RestoreAfterShell
  BY <1>20 DEF RestoreAfterShell, RestoreCooked, IoctlFails
<1>21. CASE FlushAfterShell
  BY <1>21 DEF FlushAfterShell, FlushInput, IoctlFails
<1>22. CASE Type
  BY <1>22 DEF Type
<1>23. CASE Pause
  BY <1>23 DEF Pause
<1>24. CASE UNCHANGED vars
  BY <1>24
<1> QED
  BY <1>1, <1>2, <1>3, <1>4, <1>5, <1>6, <1>7, <1>8, <1>9, <1>10, <1>11, <1>12,
     <1>13, <1>14, <1>15, <1>16, <1>17, <1>18, <1>19, <1>20, <1>21, <1>22, <1>23, <1>24
     DEF Next

\* Only failing calls leave the terminal without its echo.
LEMMA EchoStep ==
    TypeOK /\ EchoNeedsErrors /\ [Next]_vars => EchoNeedsErrors'
<1> SUFFICES ASSUME TypeOK, EchoNeedsErrors, [Next]_vars PROVE EchoNeedsErrors'
  OBVIOUS
<1> USE ConsoleAssumption DEF EchoNeedsErrors, TypeOK, login, tty, vars
<1>1. CASE Start
  BY <1>1 DEF Start, RestoreCooked, IoctlFails
<1>2. CASE Autologin
  BY <1>2 DEF Autologin
<1>3. CASE RestoreBeforePrompt
  BY <1>3 DEF RestoreBeforePrompt, RestoreCooked, IoctlFails
<1>4. CASE FlushBeforePrompt
  BY <1>4 DEF FlushBeforePrompt, FlushInput, IoctlFails
<1>5. CASE Prompt
  BY <1>5 DEF Prompt
<1>6. CASE FlushAfterPrompt
  BY <1>6 DEF FlushAfterPrompt, FlushInput, IoctlFails
<1>7. CASE ReadUsername
  BY <1>7 DEF ReadUsername
<1>8. CASE Silence
  BY <1>8 DEF Silence, SetEcho, IoctlFails
<1>9. CASE ReadPassword
  BY <1>9 DEF ReadPassword
<1>10. CASE Unsilence
  BY <1>10 DEF Unsilence, SetEcho, IoctlFails
<1>11. CASE RestoreAfterPassword
  BY <1>11 DEF RestoreAfterPassword, RestoreCooked, IoctlFails
<1>12. CASE Authenticate
  BY <1>12 DEF Authenticate
<1>13. CASE Deny
  BY <1>13 DEF Deny, FlushInput, IoctlFails
<1>14. CASE StartSession
  BY <1>14 DEF StartSession, RestoreCooked, IoctlFails
<1>15. CASE Fork
  BY <1>15 DEF Fork
<1>16. CASE ForkFails
  BY <1>16 DEF ForkFails
<1>17. CASE ExecShell
  BY <1>17 DEF ExecShell, RestoreCooked, IoctlFails
<1>18. CASE ChildFails
  BY <1>18 DEF ChildFails
<1>19. CASE ShellEnds
  BY <1>19 DEF ShellEnds
<1>20. CASE RestoreAfterShell
  BY <1>20 DEF RestoreAfterShell, RestoreCooked, IoctlFails
<1>21. CASE FlushAfterShell
  BY <1>21 DEF FlushAfterShell, FlushInput, IoctlFails
<1>22. CASE Type
  BY <1>22 DEF Type
<1>23. CASE Pause
  BY <1>23 DEF Pause
<1>24. CASE UNCHANGED vars
  BY <1>24
<1> QED
  BY <1>1, <1>2, <1>3, <1>4, <1>5, <1>6, <1>7, <1>8, <1>9, <1>10, <1>11, <1>12,
     <1>13, <1>14, <1>15, <1>16, <1>17, <1>18, <1>19, <1>20, <1>21, <1>22, <1>23, <1>24
     DEF Next

\* Only failing calls leave a line in the queue that was not typed at the prompt.
LEMMA StaleStep ==
    TypeOK /\ StaleNeedsErrors /\ [Next]_vars => StaleNeedsErrors'
<1> SUFFICES ASSUME TypeOK, StaleNeedsErrors, [Next]_vars PROVE StaleNeedsErrors'
  OBVIOUS
<1> USE ConsoleAssumption DEF StaleNeedsErrors, Stale, login, tty, vars
<1>1. CASE Start
  BY <1>1 DEF Start, RestoreCooked, IoctlFails, TypeOK
<1>2. CASE Autologin
  BY <1>2 DEF Autologin, TypeOK
<1>3. CASE RestoreBeforePrompt
  BY <1>3 DEF RestoreBeforePrompt, RestoreCooked, IoctlFails, TypeOK
<1>4. CASE FlushBeforePrompt
  BY <1>4 DEF FlushBeforePrompt, FlushInput, IoctlFails, TypeOK
<1>5. CASE Prompt
  BY <1>5 DEF Prompt, TypeOK
<1>6. CASE FlushAfterPrompt
  BY <1>6 DEF FlushAfterPrompt, FlushInput, IoctlFails, TypeOK
<1>7. CASE ReadUsername
  BY <1>7 DEF ReadUsername, TypeOK
<1>8. CASE Silence
  BY <1>8 DEF Silence, SetEcho, IoctlFails, TypeOK
<1>9. CASE ReadPassword
  BY <1>9 DEF ReadPassword, TypeOK
<1>10. CASE Unsilence
  BY <1>10 DEF Unsilence, SetEcho, IoctlFails, TypeOK
<1>11. CASE RestoreAfterPassword
  BY <1>11 DEF RestoreAfterPassword, RestoreCooked, IoctlFails, TypeOK
<1>12. CASE Authenticate
  BY <1>12 DEF Authenticate, TypeOK
<1>13. CASE Deny
  BY <1>13 DEF Deny, FlushInput, IoctlFails, TypeOK
<1>14. CASE StartSession
  BY <1>14 DEF StartSession, RestoreCooked, IoctlFails, TypeOK
<1>15. CASE Fork
  BY <1>15 DEF Fork, TypeOK
<1>16. CASE ForkFails
  BY <1>16 DEF ForkFails, TypeOK
<1>17. CASE ExecShell
  BY <1>17 DEF ExecShell, RestoreCooked, IoctlFails, TypeOK
<1>18. CASE ChildFails
  BY <1>18 DEF ChildFails, TypeOK
<1>19. CASE ShellEnds
  BY <1>19 DEF ShellEnds, TypeOK
<1>20. CASE RestoreAfterShell
  BY <1>20 DEF RestoreAfterShell, RestoreCooked, IoctlFails, TypeOK
<1>21. CASE FlushAfterShell
  BY <1>21 DEF FlushAfterShell, FlushInput, IoctlFails, TypeOK
<1>22. CASE Type
  <2>1. PICK t \in Text :
           queue' = Append(queue,
                      [text |-> t, seen |-> echo,
                       at |-> IF pc \in PromptPc THEN "prompt"
                              ELSE IF pc = "password" THEN "password"
                              ELSE "before"])
    BY <1>22 DEF Type
  <2>2. CASE pc \in PromptPc
    <3>1. Stale' => Stale
      BY <2>1, <2>2 DEF TypeOK, PromptPc
    <3> QED
      BY <1>22, <3>1 DEF Type
  <2>3. CASE pc \notin PromptPc
    BY <1>22, <2>3 DEF Type, PromptPc
  <2> QED
    BY <2>2, <2>3
<1>23. CASE Pause
  BY <1>23 DEF Pause, TypeOK
<1>24. CASE UNCHANGED vars
  BY <1>24
<1> QED
  BY <1>1, <1>2, <1>3, <1>4, <1>5, <1>6, <1>7, <1>8, <1>9, <1>10, <1>11, <1>12,
     <1>13, <1>14, <1>15, <1>16, <1>17, <1>18, <1>19, <1>20, <1>21, <1>22, <1>23, <1>24
     DEF Next

\* Silencing the terminal fails visibly, and every line that is shown knows it.
LEMMA HiddenStep ==
    TypeOK /\ SilenceNeedsErrors /\ PasswordHidden /\ [Next]_vars => (SilenceNeedsErrors /\ PasswordHidden)'
<1> SUFFICES ASSUME TypeOK, SilenceNeedsErrors, PasswordHidden, [Next]_vars PROVE (SilenceNeedsErrors /\ PasswordHidden)'
  OBVIOUS
<1> USE ConsoleAssumption DEF SilenceNeedsErrors, PasswordHidden, login, tty, vars
<1>1. CASE Start
  BY <1>1 DEF Start, RestoreCooked, IoctlFails, TypeOK
<1>2. CASE Autologin
  BY <1>2 DEF Autologin, TypeOK
<1>3. CASE RestoreBeforePrompt
  BY <1>3 DEF RestoreBeforePrompt, RestoreCooked, IoctlFails, TypeOK
<1>4. CASE FlushBeforePrompt
  BY <1>4 DEF FlushBeforePrompt, FlushInput, IoctlFails, TypeOK
<1>5. CASE Prompt
  BY <1>5 DEF Prompt, TypeOK
<1>6. CASE FlushAfterPrompt
  BY <1>6 DEF FlushAfterPrompt, FlushInput, IoctlFails, TypeOK
<1>7. CASE ReadUsername
  <2>1. Tail(queue) \in Seq(Line)
    BY <1>7 DEF ReadUsername, TypeOK
  <2>2. \A i \in DOMAIN Tail(queue) : "at" \in DOMAIN Tail(queue)[i]
    <3> SUFFICES ASSUME NEW i \in DOMAIN Tail(queue) PROVE "at" \in DOMAIN Tail(queue)[i]
      OBVIOUS
    <3>1. Tail(queue)[i] \in Line
      BY <2>1
    <3> QED
      BY <3>1 DEF Line
  <2>3. \A i \in DOMAIN queue' : queue'[i].at = "before"
    BY <1>7, <2>2 DEF ReadUsername
  <2> QED
    BY <1>7, <2>3 DEF ReadUsername
<1>8. CASE Silence
  BY <1>8 DEF Silence, SetEcho, IoctlFails, TypeOK
<1>9. CASE ReadPassword
  BY <1>9 DEF ReadPassword, TypeOK
<1>10. CASE Unsilence
  BY <1>10 DEF Unsilence, SetEcho, IoctlFails, TypeOK
<1>11. CASE RestoreAfterPassword
  BY <1>11 DEF RestoreAfterPassword, RestoreCooked, IoctlFails, TypeOK
<1>12. CASE Authenticate
  BY <1>12 DEF Authenticate, TypeOK
<1>13. CASE Deny
  BY <1>13 DEF Deny, FlushInput, IoctlFails, TypeOK
<1>14. CASE StartSession
  BY <1>14 DEF StartSession, RestoreCooked, IoctlFails, TypeOK
<1>15. CASE Fork
  BY <1>15 DEF Fork, TypeOK
<1>16. CASE ForkFails
  BY <1>16 DEF ForkFails, TypeOK
<1>17. CASE ExecShell
  BY <1>17 DEF ExecShell, RestoreCooked, IoctlFails, TypeOK
<1>18. CASE ChildFails
  BY <1>18 DEF ChildFails, TypeOK
<1>19. CASE ShellEnds
  BY <1>19 DEF ShellEnds, TypeOK
<1>20. CASE RestoreAfterShell
  BY <1>20 DEF RestoreAfterShell, RestoreCooked, IoctlFails, TypeOK
<1>21. CASE FlushAfterShell
  BY <1>21 DEF FlushAfterShell, FlushInput, IoctlFails, TypeOK
<1>22. CASE Type
  <2>1. PICK t \in Text :
           queue' = Append(queue,
                      [text |-> t, seen |-> echo,
                       at |-> IF pc \in PromptPc THEN "prompt"
                              ELSE IF pc = "password" THEN "password"
                              ELSE "before"])
    BY <1>22 DEF Type
  <2>2. \A i \in DOMAIN queue' : \/ i \in DOMAIN queue /\ queue'[i] = queue[i]
                                 \/ queue'[i].seen = echo /\ (queue'[i].at = "password" => pc = "password")
    BY <2>1 DEF TypeOK, PromptPc
  <2> QED
    BY <1>22, <2>2 DEF Type
<1>23. CASE Pause
  BY <1>23 DEF Pause, TypeOK
<1>24. CASE UNCHANGED vars
  BY <1>24
<1> QED
  BY <1>1, <1>2, <1>3, <1>4, <1>5, <1>6, <1>7, <1>8, <1>9, <1>10, <1>11, <1>12,
     <1>13, <1>14, <1>15, <1>16, <1>17, <1>18, <1>19, <1>20, <1>21, <1>22, <1>23, <1>24
     DEF Next

\* Every call of the service, key typed and end of a shell keeps it.
LEMMA InvStep == Inv /\ [Next]_vars => Inv'
BY TypeStep, GrantStep, PlaceStep, PolicyStep, EchoStep, StaleStep, HiddenStep DEF Inv

\* Every reachable state satisfies the inductive invariant.
THEOREM Invariance == Spec => []Inv
BY InitInv, InvStep, PTL DEF Spec

\* Every variable keeps its type, the queue and the failures their bounds, and
\* a password is not held longer than it is needed.
THEOREM TypeCorrect == Spec => []TypeOK
<1>1. Inv => TypeOK
  BY DEF Inv
<1> QED
  BY Invariance, <1>1, PTL

\* A shell is that of the user whose password was accepted and who has not
\* logged out since.
THEOREM Granted == Spec => []SessionIsGranted
<1>1. Inv => SessionIsGranted
  BY DEF Inv
<1> QED
  BY Invariance, <1>1, PTL

\* Nobody is logged in whom the account files or the policy files refuse.
THEOREM Policy == Spec => []LoginPolicy
<1>1. Inv => LoginPolicy
  BY DEF Inv
<1> QED
  BY Invariance, <1>1, PTL

\* A password is shown only after a terminal call has failed.
THEOREM Hidden == Spec => []PasswordHidden
<1>1. Inv => PasswordHidden
  BY DEF Inv
<1> QED
  BY Invariance, <1>1, PTL

\* With at most three failing terminal calls nobody types blind.
THEOREM EchoBack == MaxTtyErrors <= 3 /\ Spec => []EchoIsRestored
<1>1. ASSUME MaxTtyErrors <= 3, Inv PROVE EchoIsRestored
  BY <1>1, ConsoleAssumption DEF Inv, TypeOK, EchoNeedsErrors, EchoIsRestored
<1>2. CASE MaxTtyErrors <= 3
  <2>1. Inv => EchoIsRestored
    BY <1>1, <1>2
  <2> QED
    BY Invariance, <2>1, PTL
<1> QED
  BY <1>2

\* With at most two failing terminal calls no line typed before a prompt is
\* taken for the username.
THEOREM Fresh == MaxTtyErrors <= 2 /\ Spec => []UsernameIsFresh
<1>1. ASSUME MaxTtyErrors <= 2, Inv PROVE UsernameIsFresh
  BY <1>1, ConsoleAssumption DEF Inv, TypeOK, StaleNeedsErrors, Stale, UsernameIsFresh
<1>2. CASE MaxTtyErrors <= 2
  <2>1. Inv => UsernameIsFresh
    BY <1>1, <1>2
  <2> QED
    BY Invariance, <2>1, PTL
<1> QED
  BY <1>2
=============================================================================
