----------------------------- MODULE MatrixCase ----------------------------
(* The self test of the BusyBox applets (smoke/busybox_matrix_smoke.c over  *)
(* matrix_capture.c).  Every case starts a worker, reads its output from a  *)
(* pipe, waits for it, kills it when its time is over, and judges it.  The  *)
(* worker writes, closes its output and exits when it likes; time passes    *)
(* between any two steps; calls fail; the harness itself may crash.         *)
EXTENDS Integers, Sequences

CONSTANTS
    Cases,      \* the table of cases: whether a needle is wanted, and the exit code
    ExitCode,   \* codes a worker exits with
    PipeCap,    \* chunks a pipe holds
    StoreCap,   \* chunks the store keeps
    CaseTime,   \* CASE_TIMEOUT_MS
    Grace,      \* EOF_EXIT_GRACE_MS
    DrainTime,  \* MATRIX_DRAIN_TIMEOUT_MS
    MaxTries    \* last waits before the kill: 40

\* A chunk that completes the needle, other text, and the two messages of
\* BusyBox that the judgement knows: "applet not found", and "not implemented"
\* or "ENOSYS".
Kind == {"needle", "text", "notfound", "enosys"}
Signal == {"segv", "kill"}
Status == ExitCode \cup Signal

\* 124 and 125 are the harness's own codes; no applet of the table uses them.
ASSUME CaseAssumption ==
    /\ Cases \in Seq([needle : BOOLEAN, want : {"0", "1"}])
    /\ {"0", "1"} \subseteq ExitCode
    /\ ExitCode \cap (Signal \cup {"124", "125", "none", "invalid"}) = {}
    /\ PipeCap \in Nat /\ StoreCap \in Nat
    /\ CaseTime \in Nat /\ Grace \in Nat /\ DrainTime \in Nat
    /\ MaxTries \in Nat \ {0}

VARIABLES
    pc,        \* the harness's next call
    idx,       \* the case it is at
    worker,    \* its worker: none, running, zombie, reaped, or gone
    exit,      \* how the worker ended
    killed,    \* whether it has been sent SIGKILL
    writing,   \* whether the write end of the pipe is open
    pipe,      \* what is in the pipe
    wrote,     \* everything the worker has written
    cap,       \* the capture
    left,      \* time until the limit or deadline in force
    run,       \* the locals of run_case
    verdicts,  \* the judgements so far
    said       \* the final tag: none, ok or fail

workervars == <<worker, exit, killed, writing, pipe, wrote>>
suitevars == <<idx, verdicts, said>>
vars == <<pc, workervars, cap, left, run, suitevars>>

\* What has been read (the matcher sees all of it), what is stored of it.
NoCapture == [seen |-> {}, stored |-> {}, room |-> StoreCap,
              eof |-> FALSE, timeout |-> FALSE]
NoRun == [armed |-> FALSE, eofAt |-> FALSE, tries |-> 0, back |-> "wait",
          timedOut |-> FALSE, reaped |-> FALSE, status |-> "none"]

Init ==
    /\ pc = "seed" /\ idx = 1
    /\ worker = "none" /\ exit = "none" /\ killed = FALSE
    /\ writing = FALSE /\ pipe = <<>> /\ wrote = {}
    /\ cap = NoCapture /\ left = 0 /\ run = NoRun
    /\ verdicts = <<>> /\ said = "none"

Case == Cases[idx]
Larger(a, b) == IF a > b THEN a ELSE b

----------------------------------------------------------------------------
(* The worker, the kernel and the clock *)

\* Output reaches the pipe while its write end is open, and for a while also
\* after the exit ("writer may still be flushing into the pipe").
Write ==
    /\ writing /\ Len(pipe) < PipeCap
    /\ \E k \in Kind :
           /\ worker = "running" \/ k \notin wrote
           /\ pipe' = Append(pipe, k)
           /\ wrote' = wrote \cup {k}
    /\ UNCHANGED <<pc, worker, exit, killed, writing, cap, left, run, suitevars>>

\* "BusyBox may close stdout before _exit", or the kernel closes it after.
Close ==
    /\ writing
    /\ writing' = FALSE
    /\ UNCHANGED <<pc, worker, exit, killed, pipe, wrote, cap, left, run, suitevars>>

Ends(how) ==
    /\ worker = "running"
    /\ worker' = "zombie"
    /\ exit' = how
    /\ UNCHANGED <<pc, killed, writing, pipe, wrote, cap, left, run, suitevars>>

Exit == \E c \in ExitCode \cup {"segv"} : Ends(c)
DieOfKill == killed /\ Ends("kill")

\* The kernel drops the zombie: waitpid will say ECHILD.
Vanish ==
    /\ worker = "zombie"
    /\ worker' = "gone"
    /\ UNCHANGED <<pc, exit, killed, writing, pipe, wrote, cap, left, run, suitevars>>

Tick ==
    /\ left > 0
    /\ left' = left - 1
    /\ UNCHANGED <<pc, workervars, cap, run, suitevars>>

----------------------------------------------------------------------------
(* run_case *)

Goto(label) == pc' = label

\* waitpid finds the worker dead, or that there is no such child.
Reap(then) ==
    /\ worker = "zombie"
    /\ worker' = "reaped"
    /\ run' = [run EXCEPT !.reaped = TRUE, !.status = exit]
    /\ Goto(then)
    /\ UNCHANGED <<exit, killed, writing, pipe, wrote, cap>>
\* A mistake: without a child to wait for, the status is taken as it is: 0.
NoChildSucceeds(then) ==
    /\ worker = "gone"
    /\ run' = [run EXCEPT !.reaped = TRUE, !.status = "0"]
    /\ Goto(then)
    /\ UNCHANGED <<workervars, cap>>
NoChild(then) ==
    /\ worker = "gone"
    /\ run' = [run EXCEPT !.reaped = TRUE, !.status = "invalid"]
    /\ Goto(then)
    /\ UNCHANGED <<workervars, cap>>

\* pipe and fork; the worker has the only write end once the parent has
\* closed its own.
Fork ==
    /\ pc = "fork"
    /\ worker' = "running" /\ writing' = TRUE
    /\ Goto("arm")
    /\ UNCHANGED <<exit, killed, pipe, wrote, cap, left, run, suitevars>>

\* A crash from here on finds the worker's pid.
Arm ==
    /\ pc = "arm"
    /\ run' = [run EXCEPT !.armed = TRUE]
    /\ left' = CaseTime
    /\ Goto("top")
    /\ UNCHANGED <<workervars, cap, suitevars>>

\* The head of the loop: the first time it sees the end of the output it
\* grants the worker time to exit.
CheckLimit ==
    /\ pc = "top"
    /\ LET first == cap.eof /\ ~ run.eofAt
           limit == IF first THEN Larger(left, Grace) ELSE left
       IN  /\ left' = limit
           /\ run' = [run EXCEPT !.eofAt = @ \/ cap.eof]
           /\ Goto(IF limit = 0 THEN "lastchance" ELSE "poll")
    /\ UNCHANGED <<workervars, cap, suitevars>>

\* Time is over: wait a little more, then kill.
LastChance ==
    /\ pc = "lastchance" /\ run.tries < MaxTries
    /\ \/ Reap("startdrain")
       \/ /\ worker # "zombie"
          /\ run' = [run EXCEPT !.tries = @ + 1]
          /\ UNCHANGED <<pc, workervars, cap>>
    /\ UNCHANGED <<left, suitevars>>
Kill ==
    /\ pc = "lastchance" /\ run.tries = MaxTries
    /\ killed' = TRUE
    /\ run' = [run EXCEPT !.timedOut = TRUE]
    /\ left' = DrainTime
    /\ Goto("killwait")
    /\ UNCHANGED <<worker, exit, writing, pipe, wrote, cap, suitevars>>

Poll ==
    /\ pc = "poll"
    /\ run' = [run EXCEPT !.back = "wait"]
    /\ Goto("read")
    /\ UNCHANGED <<workervars, cap, left, suitevars>>

\* matrix_capture_read_nb takes a chunk and tries again.
ReadChunk ==
    /\ pc = "read" /\ pipe # <<>>
    /\ pipe' = Tail(pipe)
    /\ cap' = [cap EXCEPT !.seen = @ \cup {Head(pipe)},
                          !.stored = IF cap.room > 0 THEN @ \cup {Head(pipe)} ELSE @,
                          !.room = IF @ > 0 THEN @ - 1 ELSE 0]
    /\ UNCHANGED <<pc, worker, exit, killed, writing, wrote, left, run, suitevars>>

\* A mistake: the end of the output is reported while it can still go on, as
\* "older drain code" did once the worker had exited.
ReadEndOnAgain ==
    /\ pc = "read" /\ pipe = <<>>
    /\ ~ writing \/ run.reaped
    /\ cap' = [cap EXCEPT !.eof = TRUE]
    /\ Goto(run.back)
    /\ UNCHANGED <<workervars, left, run, suitevars>>

\* Nothing left, and nobody who could write more.
ReadEnd ==
    /\ pc = "read" /\ pipe = <<>> /\ ~ writing
    /\ cap' = [cap EXCEPT !.eof = TRUE]
    /\ Goto(run.back)
    /\ UNCHANGED <<workervars, left, run, suitevars>>
ReadAgain ==
    /\ pc = "read" /\ pipe = <<>> /\ writing
    /\ Goto(run.back)
    /\ UNCHANGED <<workervars, cap, left, run, suitevars>>
\* Only the drain looks at an error of read.
ReadFails ==
    /\ pc = "read"
    /\ IF run.back = "drain"
       THEN cap' = [cap EXCEPT !.timeout = TRUE] /\ Goto("reap")
       ELSE UNCHANGED cap /\ Goto(run.back)
    /\ UNCHANGED <<workervars, left, run, suitevars>>

Wait ==
    /\ pc = "wait"
    /\ \/ Reap("startdrain")
       \/ NoChild("startdrain")
       \/ /\ worker = "running"
          /\ Goto("top")
          /\ UNCHANGED <<workervars, cap, run>>
    /\ UNCHANGED <<left, suitevars>>

\* After the kill: wait for the worker, and go on reading, for a bounded time.
KillWait ==
    /\ pc = "killwait"
    /\ IF left = 0
       THEN Goto("startdrain") /\ UNCHANGED <<workervars, cap, run>>
       ELSE \/ Reap("startdrain")
            \/ NoChild("startdrain")
            \/ /\ worker = "running"
               /\ run' = [run EXCEPT !.back = "killwait"]
               /\ Goto("read")
               /\ UNCHANGED <<workervars, cap>>
    /\ UNCHANGED <<left, suitevars>>

\* matrix_capture_drain_to_eof
StartDrain ==
    /\ pc = "startdrain"
    /\ left' = DrainTime
    /\ run' = [run EXCEPT !.back = "drain"]
    /\ Goto("drain")
    /\ UNCHANGED <<workervars, cap, suitevars>>
\* A mistake: the drain has no deadline.
DrainForever ==
    /\ pc = "drain"
    /\ IF cap.eof THEN Goto("reap") ELSE Goto("read")
    /\ UNCHANGED <<workervars, cap, left, run, suitevars>>
Drain ==
    /\ pc = "drain"
    /\ \/ /\ cap.eof
          /\ Goto("reap") /\ UNCHANGED cap
       \/ /\ ~ cap.eof /\ left > 0
          /\ Goto("read") /\ UNCHANGED cap
       \/ /\ ~ cap.eof            \* the deadline, or a failing poll
          /\ cap' = [cap EXCEPT !.timeout = TRUE]
          /\ Goto("reap")
    /\ UNCHANGED <<workervars, left, run, suitevars>>

\* The worker is waited for with no limit when it has not been reaped yet.
ReapLast ==
    /\ pc = "reap"
    /\ \/ run.reaped /\ Goto("judge") /\ UNCHANGED <<workervars, cap, run>>
       \/ ~ run.reaped /\ (Reap("judge") \/ NoChild("judge"))
    /\ UNCHANGED <<left, suitevars>>

----------------------------------------------------------------------------
(* Judging a case, and the suite *)

Satisfied == Case.needle => "needle" \in cap.seen

\* A mistake: the exit code of a worker that was killed is not looked at.
ExitCodeSeenTimedOut ==
    IF run.timedOut THEN "124"
    ELSE IF run.status = "invalid" THEN "125"
    ELSE run.status

\* The end of run_case.  A normal exit counts even when it raced the kill;
\* and a worker that closed a satisfying output but did not exit in time
\* passes for one that exited with 0.
ExitCodeSeen ==
    IF run.timedOut /\ run.status \in ExitCode THEN run.status
    ELSE IF run.timedOut /\ cap.eof /\ Case.want = "0" /\ Satisfied THEN "0"
    ELSE IF run.timedOut THEN "124"
    ELSE IF run.status = "invalid" THEN "125"
    ELSE run.status

\* classify_full; "-" is the reason of a supported applet.
Reason ==
    IF cap.timeout THEN "capture-timeout"
    ELSE IF ~ cap.eof THEN "no-eof"
    ELSE IF ~ run.reaped THEN "no-reap"
    ELSE IF ExitCodeSeen = "127" \/ "notfound" \in cap.stored THEN "missing"
    ELSE IF ExitCodeSeen = "124" THEN "timeout"
    ELSE IF ExitCodeSeen = "125" THEN "nofork"
    ELSE IF ExitCodeSeen = "segv" THEN "segv"
    ELSE IF "enosys" \in cap.stored THEN "enosys"
    ELSE IF ExitCodeSeen # Case.want THEN "exit"
    ELSE IF ~ Satisfied THEN "output"
    ELSE "-"

\* A case ends: what it says of the applet is kept, and what it held is not.
Judge(reason) ==
    /\ verdicts' = Append(verdicts, reason)
    /\ idx' = idx + 1
    /\ worker' = "none" /\ exit' = "none" /\ killed' = FALSE
    /\ writing' = FALSE /\ pipe' = <<>> /\ wrote' = {}
    /\ cap' = NoCapture /\ run' = NoRun /\ left' = 0
    /\ Goto("next")
    /\ UNCHANGED said

JudgeCase == pc = "judge" /\ Judge(Reason)

\* pipe, fork, poll or waitpid fails: the case is given up, its worker is not.
GiveUp ==
    /\ pc \in {"fork", "poll", "wait"} \/ (pc = "reap" /\ ~ run.reaped)
    /\ Judge("harness")

\* The harness crashes between sigsetjmp and the end of run_case: the handler
\* jumps back, and the worker it knows of is killed and waited for.
Segv ==
    /\ pc \in {"fork", "arm", "top", "lastchance", "killwait", "poll", "read",
               "wait", "startdrain", "drain", "reap", "judge"}
    /\ killed' = (killed \/ run.armed)
    /\ Goto("recover")
    /\ UNCHANGED <<worker, exit, writing, pipe, wrote, cap, left, run, suitevars>>
\* A worker it does not know of is reaped only if it has already exited.
Recover ==
    /\ pc = "recover"
    /\ \/ /\ worker = "zombie"
          /\ worker' = "reaped"
          /\ UNCHANGED <<pc, suitevars, exit, killed, writing, pipe, wrote, cap, left, run>>
       \/ /\ worker # "zombie"
          /\ run.armed => worker # "running"
          /\ Judge("parent-segv")

\* The tag is BBMATRIX_OK only if every applet is supported; each reason that
\* clears protocol_ok is one of an applet that is not.
NextCase ==
    /\ pc = "next"
    /\ IF idx <= Len(Cases)
       THEN Goto("fork") /\ UNCHANGED said
       ELSE /\ said' = IF \A i \in DOMAIN verdicts : verdicts[i] = "-"
                       THEN "ok" ELSE "fail"
            /\ Goto("asleep")
    /\ UNCHANGED <<workervars, cap, left, run, idx, verdicts>>

Seed ==
    /\ pc = "seed"
    /\ \/ Goto("next") /\ UNCHANGED said
       \/ Goto("asleep") /\ said' = "fail"      \* the work directory
    /\ UNCHANGED <<workervars, cap, left, run, idx, verdicts>>

\* Init must not exit: it sleeps for ever.
Sleep == pc = "asleep" /\ UNCHANGED vars

Harness ==
    \/ Seed \/ NextCase \/ Fork \/ Arm \/ CheckLimit \/ LastChance \/ Kill
    \/ Poll \/ ReadChunk \/ ReadEnd \/ ReadAgain \/ Wait \/ KillWait
    \/ StartDrain \/ Drain \/ ReapLast \/ JudgeCase \/ Recover
Fault == ReadFails \/ GiveUp \/ Segv
Worker == Write \/ Close \/ Exit \/ DieOfKill \/ Vanish
Next == Harness \/ Fault \/ Worker \/ Tick \/ Sleep

Spec == Init /\ [][Next]_vars

\* The harness and the clock go on, and a killed worker becomes waitable.
DiesOfKill == WF_vars(DieOfKill)
Runs == WF_vars(Harness) /\ WF_vars(Tick)
LiveSpec == Spec /\ Runs /\ DiesOfKill
\* A killed worker may never become waitable, the "stuck zombie" of the
\* comments; the harness itself does not crash.
StuckSpec == Init /\ [][Next /\ ~ Segv]_vars /\ Runs

----------------------------------------------------------------------------
(* Properties *)

PC == {"seed", "next", "fork", "arm", "top", "lastchance", "killwait", "poll",
       "read", "wait", "startdrain", "drain", "reap", "judge", "recover", "asleep"}
Reasons == {"capture-timeout", "no-eof", "no-reap", "missing", "timeout", "nofork",
            "segv", "enosys", "exit", "output", "-", "harness", "parent-segv"}

Capture == [seen : SUBSET Kind, stored : SUBSET Kind, room : 0..StoreCap,
            eof : BOOLEAN, timeout : BOOLEAN]
Run == [armed : BOOLEAN, eofAt : BOOLEAN, tries : 0..MaxTries,
        back : {"wait", "killwait", "drain"}, timedOut : BOOLEAN,
        reaped : BOOLEAN, status : Status \cup {"none", "invalid"}]

TypeOK ==
    /\ pc \in PC
    /\ idx \in 1..(Len(Cases) + 1)
    /\ worker \in {"none", "running", "zombie", "reaped", "gone"}
    /\ exit \in Status \cup {"none"}
    /\ killed \in BOOLEAN
    /\ writing \in BOOLEAN
    /\ pipe \in Seq(Kind)
    /\ wrote \subseteq Kind
    /\ cap \in Capture
    /\ left \in Nat
    /\ run \in Run
    /\ verdicts \in Seq(Reasons)
    /\ said \in {"none", "ok", "fail"}

\* An applet is called supported only if its worker's output ended and was
\* read to its end with the needle in it, and the worker is gone and either
\* exited with the code wanted or was killed after its output had ended (the
\* "exit-stall"), whatever raced what (run_case, classify_full).
SupportedIsEarned ==
    pc = "judge" /\ Reason = "-" =>
        /\ ~ writing /\ worker \in {"reaped", "gone"}
        /\ Case.needle => "needle" \in wrote
        /\ exit = Case.want \/ (killed /\ Case.want = "0")

\* Output is called missing only if the worker really never wrote it: no read
\* came too early for it and none was given up ("Never treat EAGAIN after exit
\* as end-of-capture").  The matcher is taken to find what it reads, which it does
\* for every simple needle (SimpleIsFound of MatrixCapture): for "/bin/ls" it may not.
OutputIsMissing ==
    pc = "judge" /\ Reason = "output" => ~ writing /\ "needle" \notin wrote

\* A worker that exits by itself in a race with the deadline is not reported
\* as timed out ("If wait status is a normal exit, do not report timeout").
TimeoutIsTrue ==
    pc = "judge" /\ Reason = "timeout" =>
        killed /\ (exit \in ExitCode => worker = "gone")

\* From some time on no worker writes.
OutputEnds == <>[][~ Write]_vars

\* If output ends, the suite comes to its end: exit, end of file, deadline,
\* kill, crash and failing calls in whatever order.
SuiteEnds == OutputEnds => <>(pc = "asleep")

\* "Cap the wait so a stuck zombie cannot hang us": once the kill is waited
\* for, the case ends.
KillWaitIsCapped == OutputEnds => (pc = "killwait" ~> pc = "next")

=============================================================================
