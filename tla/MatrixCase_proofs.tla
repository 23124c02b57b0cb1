-------------------------- MODULE MatrixCase_proofs -------------------------
(* The verdicts of the matrix harness, for every table of cases, every set  *)
(* of exit codes, every time limit and every size of the pipe and the store. *)
EXTENDS MatrixCase, TLAPS

InPipe == {pipe[i] : i \in DOMAIN pipe}

\* Before a case has forked its worker nothing of the last one is left.
BetweenCases ==
    pc \in {"seed", "next", "fork", "asleep"} =>
        worker = "none" /\ cap = NoCapture /\ run = NoRun
InACase == pc \notin {"seed", "next", "asleep"} => idx <= Len(Cases)

\* Output is nowhere but in the pipe or in what was read, and the end of the
\* output is seen only when there is no more of it and nobody to write it.
OutputIsKept ==
    /\ wrote = cap.seen \cup InPipe
    /\ cap.eof => ~ writing /\ pipe = <<>>

\* What the harness knows of the end of its worker is true.
ExitIsKnown ==
    /\ worker \in {"none", "running"} => exit = "none"
    /\ exit = "kill" => killed
    /\ run.reaped => \/ worker = "reaped" /\ run.status = exit
                     \/ worker = "gone" /\ run.status = "invalid"
    /\ run.timedOut => killed
    /\ pc = "judge" => run.reaped

Inv == TypeOK /\ BetweenCases /\ InACase /\ OutputIsKept /\ ExitIsKnown

\* Every case of the table says whether a needle is wanted, and which code.
LEMMA CaseType ==
    ASSUME idx \in 1..(Len(Cases) + 1), idx <= Len(Cases)
    PROVE  Case \in [needle : BOOLEAN, want : {"0", "1"}]
<1> DEFINE T == [needle : BOOLEAN, want : {"0", "1"}]
<1>1. Cases \in Seq(T)
  BY CaseAssumption
<1> HIDE DEF T
<1>2. Len(Cases) \in Nat
  BY <1>1
<1>3. idx \in 1..Len(Cases)
  BY <1>2
<1>4. Cases[idx] \in T
  BY <1>1, <1>3
<1> QED
  BY <1>4 DEF Case, T

\* The reason a case fails for is one of those the harness prints.
LEMMA ReasonType == Reason \in Reasons
BY DEF Reason, Reasons

\* The table and the limits are of a size.
LEMMA Bounds == Len(Cases) \in Nat /\ StoreCap \in Nat /\ MaxTries \in Nat
               /\ CaseTime \in Nat /\ Grace \in Nat /\ DrainTime \in Nat
BY CaseAssumption

\* A case starts with an empty capture and no worker.
LEMMA FreshType == NoCapture \in Capture /\ NoRun \in Run
<1>1. NoCapture \in Capture
  BY Bounds DEF NoCapture, Capture
<1>2. NoRun \in Run
  BY Bounds DEF NoRun, Run, Status
<1> QED
  BY <1>1, <1>2

\* The invariant holds before the first case.
LEMMA InitInv == Init => Inv
<1> SUFFICES ASSUME Init PROVE Inv
  OBVIOUS
<1>1. TypeOK
  <2>1. <<>> \in Seq(Kind) /\ <<>> \in Seq(Reasons)
    OBVIOUS
  <2>2. idx \in 1..(Len(Cases) + 1) /\ left \in Nat
    BY Bounds DEF Init
  <2>3. cap \in Capture /\ run \in Run
    BY FreshType DEF Init
  <2> QED
    BY <2>1, <2>2, <2>3 DEF Init, TypeOK, PC
<1>2. BetweenCases /\ InACase
  BY DEF Init, BetweenCases, InACase
<1>3. OutputIsKept /\ ExitIsKnown
  BY DEF Init, OutputIsKept, ExitIsKnown, InPipe, NoCapture, NoRun
<1> QED
  BY <1>1, <1>2, <1>3 DEF Inv


\* Judging a case starts the next one afresh.
LEMMA JudgeType ==
    ASSUME TypeOK, InACase, pc \notin {"seed", "next", "asleep"},
           NEW r \in Reasons, Judge(r)
    PROVE  TypeOK'
<1>1. Append(verdicts, r) \in Seq(Reasons)
  BY DEF TypeOK
<1>2. idx + 1 \in 1..(Len(Cases) + 1)
  BY Bounds DEF TypeOK, InACase
<1>3. <<>> \in Seq(Kind)
  OBVIOUS
<1> QED
  BY <1>1, <1>2, <1>3, FreshType DEF TypeOK, Judge, PC, Goto

\* Every variable keeps its type.
LEMMA TypeStep ==
    TypeOK /\ InACase /\ [Next]_vars => TypeOK'
<1> SUFFICES ASSUME TypeOK, InACase, [Next]_vars PROVE TypeOK'
  OBVIOUS
<1> USE Bounds DEF TypeOK, PC, Goto, workervars, suitevars
<1>1. CASE Write
  BY <1>1 DEF Write
<1>2. CASE Close \/ Vanish \/ Tick
  <2>1. left' \in Nat
    BY <1>2 DEF Close, Vanish, Tick
  <2> QED
    BY <1>2, <2>1 DEF Close, Vanish, Tick
<1>3. CASE Exit \/ DieOfKill
  BY <1>3 DEF Exit, DieOfKill, Ends, Status, Signal
<1>4. CASE Fork
  BY <1>4 DEF Fork
<1>5. CASE Arm
  <2>1. run' \in Run
    BY <1>5, Bounds DEF Arm, Run, Status, Signal
  <2> QED
    BY <1>5, <2>1, Bounds DEF Arm
<1>6. CASE CheckLimit
  <2>1. run.eofAt \in BOOLEAN /\ cap.eof \in BOOLEAN
    BY DEF Run, Capture
  <2>2. (run.eofAt \/ cap.eof) \in BOOLEAN
    BY <2>1
  <2>3. run' \in Run
    BY <1>6, <2>2 DEF CheckLimit, Run
  <2>4. left' \in Nat
    BY <1>6, Bounds DEF CheckLimit, Larger
  <2> QED
    BY <1>6, <2>3, <2>4 DEF CheckLimit
<1>7. CASE LastChance
  <2>1. CASE Reap("startdrain")
    <3>1. run' \in Run
      BY <2>1 DEF Reap, Run
    <3> QED
      BY <1>7, <2>1, <3>1 DEF LastChance, Reap
  <2>2. CASE ~ Reap("startdrain")
    <3>1. run' = [run EXCEPT !.tries = run.tries + 1] /\ run.tries < MaxTries
      BY <1>7, <2>2 DEF LastChance
    <3>2. run.tries + 1 \in 0..MaxTries
      BY <3>1, Bounds DEF Run
    <3>3. run' \in Run
      BY <3>1, <3>2 DEF Run
    <3> QED
      BY <1>7, <2>2, <3>3 DEF LastChance
  <2> QED
    BY <2>1, <2>2
<1>8. CASE Kill
  <2>1. run' \in Run
    BY <1>8, Bounds DEF Kill, Run, Status, Signal
  <2> QED
    BY <1>8, <2>1, Bounds DEF Kill
<1>9. CASE Poll
  <2>1. run' \in Run
    BY <1>9, Bounds DEF Poll, Run, Status, Signal
  <2> QED
    BY <1>9, <2>1, Bounds DEF Poll
<1>10. CASE ReadChunk
  <2>1. Head(pipe) \in Kind /\ Tail(pipe) \in Seq(Kind)
    BY <1>10 DEF ReadChunk
  <2>2. cap.room \in 0..StoreCap /\ StoreCap \in Nat
    BY Bounds DEF Capture
  <2>3. (IF cap.room > 0 THEN cap.room - 1 ELSE 0) \in 0..StoreCap
    BY <2>2
  <2>4. cap' \in Capture
    BY <1>10, <2>1, <2>3 DEF ReadChunk, Capture
  <2> QED
    BY <1>10, <2>1, <2>4 DEF ReadChunk
<1>11. CASE ReadEnd \/ ReadAgain
  <2>1. cap' \in Capture
    BY <1>11 DEF ReadEnd, ReadAgain, Capture
  <2>2. run.back \in PC
    BY DEF Run
  <2> QED
    BY <1>11, <2>1, <2>2 DEF ReadEnd, ReadAgain
<1>12. CASE ReadFails
  <2>1. cap' \in Capture
    BY <1>12 DEF ReadFails, Capture
  <2>2. run.back \in PC
    BY DEF Run
  <2> QED
    BY <1>12, <2>1, <2>2 DEF ReadFails
<1>13. CASE Wait
  <2>1. run' \in Run
    <3>1. ASSUME NEW then, Reap(then) \/ NoChild(then) PROVE run' \in Run
      BY <3>1 DEF Reap, NoChild, Run, Status, Signal
    <3>2. CASE ~ (\E then : Reap(then) \/ NoChild(then))
      BY <1>13, <3>2, Bounds DEF Wait, Run
    <3> QED
      BY <3>1, <3>2
  <2> QED
    BY <1>13, <2>1, Bounds DEF Wait, Reap, NoChild
<1>14. CASE KillWait
  <2>1. run' \in Run
    <3>1. ASSUME NEW then, Reap(then) \/ NoChild(then) PROVE run' \in Run
      BY <3>1 DEF Reap, NoChild, Run, Status, Signal
    <3>2. CASE ~ (\E then : Reap(then) \/ NoChild(then))
      BY <1>14, <3>2, Bounds DEF KillWait, Run
    <3> QED
      BY <3>1, <3>2
  <2> QED
    BY <1>14, <2>1, Bounds DEF KillWait, Reap, NoChild
<1>15. CASE StartDrain
  <2>1. run' \in Run
    BY <1>15, Bounds DEF StartDrain, Run, Status, Signal
  <2> QED
    BY <1>15, <2>1, Bounds DEF StartDrain
<1>16. CASE Drain
  <2>1. cap' \in Capture
    BY <1>16 DEF Drain, Capture
  <2> QED
    BY <1>16, <2>1 DEF Drain
<1>17. CASE ReapLast
  <2>1. run' \in Run
    BY <1>17, Bounds DEF ReapLast, Reap, NoChild, Run, Status, Signal
  <2> QED
    BY <1>17, <2>1, Bounds DEF ReapLast, Reap, NoChild
<1>18. CASE JudgeCase
  <2>1. Judge(Reason) /\ pc = "judge"
    BY <1>18 DEF JudgeCase
  <2> QED
    BY <2>1, ReasonType, JudgeType
<1>19. CASE GiveUp
  <2>1. Judge("harness") /\ pc \notin {"seed", "next", "asleep"}
    BY <1>19 DEF GiveUp
  <2> QED
    BY <2>1, JudgeType DEF Reasons
<1>20. CASE Segv
  BY <1>20 DEF Segv
<1>21. CASE Recover
  <2>1. CASE Judge("parent-segv") /\ pc = "recover"
    BY <2>1, JudgeType DEF Reasons
  <2>2. CASE ~ Judge("parent-segv")
    BY <1>21, <2>2 DEF Recover
  <2> QED
    BY <1>21, <2>1, <2>2 DEF Recover
<1>22. CASE Seed \/ NextCase
  BY <1>22 DEF Seed, NextCase
<1>23. CASE Sleep \/ UNCHANGED vars
  BY <1>23 DEF Sleep, vars
<1> QED
  BY <1>1, <1>2, <1>3, <1>4, <1>5, <1>6, <1>7, <1>8, <1>9, <1>10, <1>11, <1>12,
     <1>13, <1>14, <1>15, <1>16, <1>17, <1>18, <1>19, <1>20, <1>21, <1>22, <1>23
     DEF Next, Harness, Fault, Worker
\* A case leaves nothing behind.
LEMMA BetweenStep ==
    TypeOK /\ BetweenCases /\ [Next]_vars => BetweenCases'
<1> SUFFICES ASSUME TypeOK, BetweenCases, [Next]_vars PROVE BetweenCases'
  OBVIOUS
<1> USE DEF BetweenCases, Goto, workervars, suitevars
<1>1. CASE Write
  BY <1>1 DEF Write
<1>2. CASE Close \/ Vanish \/ Tick
  BY <1>2 DEF Close, Vanish, Tick
<1>3. CASE Exit \/ DieOfKill
  BY <1>3 DEF Exit, DieOfKill, Ends
<1>4. CASE Fork
  BY <1>4 DEF Fork
<1>5. CASE Arm
  BY <1>5 DEF Arm
<1>6. CASE CheckLimit
  BY <1>6 DEF CheckLimit, Larger
<1>7. CASE LastChance
  BY <1>7 DEF LastChance, Reap
<1>8. CASE Kill
  BY <1>8 DEF Kill
<1>9. CASE Poll
  BY <1>9 DEF Poll
<1>10. CASE ReadChunk
  BY <1>10 DEF ReadChunk
<1>11. CASE ReadEnd \/ ReadAgain
  BY <1>11 DEF ReadEnd, ReadAgain, TypeOK, Run
<1>12. CASE ReadFails
  BY <1>12 DEF ReadFails, TypeOK, Run
<1>13. CASE Wait
  BY <1>13 DEF Wait, Reap, NoChild
<1>14. CASE KillWait
  <2>1. CASE Reap("startdrain")
    BY <1>14, <2>1 DEF KillWait, Reap
  <2>2. CASE NoChild("startdrain")
    BY <1>14, <2>2 DEF KillWait, NoChild
  <2>3. CASE ~ Reap("startdrain") /\ ~ NoChild("startdrain")
    BY <1>14, <2>3 DEF KillWait
  <2> QED
    BY <2>1, <2>2, <2>3
<1>15. CASE StartDrain
  BY <1>15 DEF StartDrain
<1>16. CASE Drain
  BY <1>16 DEF Drain
<1>17. CASE ReapLast
  BY <1>17 DEF ReapLast, Reap, NoChild
<1>18. CASE JudgeCase
  BY <1>18 DEF JudgeCase, Judge
<1>19. CASE GiveUp
  BY <1>19 DEF GiveUp, Judge
<1>20. CASE Segv
  BY <1>20 DEF Segv
<1>21. CASE Recover
  BY <1>21 DEF Recover, Judge
<1>22. CASE Seed \/ NextCase
  BY <1>22 DEF Seed, NextCase
<1>23. CASE Sleep \/ UNCHANGED vars
  BY <1>23 DEF Sleep, vars
<1> QED
  BY <1>1, <1>2, <1>3, <1>4, <1>5, <1>6, <1>7, <1>8, <1>9, <1>10, <1>11, <1>12,
     <1>13, <1>14, <1>15, <1>16, <1>17, <1>18, <1>19, <1>20, <1>21, <1>22, <1>23
     DEF Next, Harness, Fault, Worker
\* The harness enters a case only while there is one.
LEMMA InACaseStep ==
    TypeOK /\ InACase /\ [Next]_vars => InACase'
<1> SUFFICES ASSUME TypeOK, InACase, [Next]_vars PROVE InACase'
  OBVIOUS
<1> USE DEF InACase, Goto, workervars, suitevars
<1>1. CASE Write
  BY <1>1 DEF Write
<1>2. CASE Close \/ Vanish \/ Tick
  BY <1>2 DEF Close, Vanish, Tick
<1>3. CASE Exit \/ DieOfKill
  BY <1>3 DEF Exit, DieOfKill, Ends
<1>4. CASE Fork
  BY <1>4 DEF Fork
<1>5. CASE Arm
  BY <1>5 DEF Arm
<1>6. CASE CheckLimit
  BY <1>6 DEF CheckLimit, Larger
<1>7. CASE LastChance
  BY <1>7 DEF LastChance, Reap
<1>8. CASE Kill
  BY <1>8 DEF Kill
<1>9. CASE Poll
  BY <1>9 DEF Poll
<1>10. CASE ReadChunk
  BY <1>10 DEF ReadChunk
<1>11. CASE ReadEnd \/ ReadAgain
  BY <1>11 DEF ReadEnd, ReadAgain
<1>12. CASE ReadFails
  BY <1>12 DEF ReadFails
<1>13. CASE Wait
  BY <1>13 DEF Wait, Reap, NoChild
<1>14. CASE KillWait
  <2>1. CASE Reap("startdrain")
    BY <1>14, <2>1 DEF KillWait, Reap
  <2>2. CASE NoChild("startdrain")
    BY <1>14, <2>2 DEF KillWait, NoChild
  <2>3. CASE ~ Reap("startdrain") /\ ~ NoChild("startdrain")
    BY <1>14, <2>3 DEF KillWait
  <2> QED
    BY <2>1, <2>2, <2>3
<1>15. CASE StartDrain
  BY <1>15 DEF StartDrain
<1>16. CASE Drain
  BY <1>16 DEF Drain
<1>17. CASE ReapLast
  BY <1>17 DEF ReapLast, Reap, NoChild
<1>18. CASE JudgeCase
  BY <1>18 DEF JudgeCase, Judge
<1>19. CASE GiveUp
  BY <1>19 DEF GiveUp, Judge
<1>20. CASE Segv
  BY <1>20 DEF Segv
<1>21. CASE Recover
  BY <1>21 DEF Recover, Judge
<1>22. CASE Seed \/ NextCase
  BY <1>22 DEF Seed, NextCase
<1>23. CASE Sleep \/ UNCHANGED vars
  BY <1>23 DEF Sleep, vars
<1> QED
  BY <1>1, <1>2, <1>3, <1>4, <1>5, <1>6, <1>7, <1>8, <1>9, <1>10, <1>11, <1>12,
     <1>13, <1>14, <1>15, <1>16, <1>17, <1>18, <1>19, <1>20, <1>21, <1>22, <1>23
     DEF Next, Harness, Fault, Worker
\* Output goes from the worker to the pipe and from the pipe to the capture,
\* and the end of the output is seen only when all of it has gone that way.
LEMMA OutputStep ==
    TypeOK /\ BetweenCases /\ OutputIsKept /\ [Next]_vars => OutputIsKept'
<1> SUFFICES ASSUME TypeOK, BetweenCases, OutputIsKept, [Next]_vars PROVE OutputIsKept'
  OBVIOUS
<1> USE DEF OutputIsKept, InPipe, TypeOK, Goto, workervars, suitevars
<1>1. CASE Write
  <2>1. PICK k \in Kind : pipe' = Append(pipe, k) /\ wrote' = wrote \cup {k}
    BY <1>1 DEF Write
  <2>2. {pipe'[i] : i \in DOMAIN pipe'} = {pipe[i] : i \in DOMAIN pipe} \cup {k}
    BY <2>1
  <2> QED
    BY <1>1, <2>1, <2>2 DEF Write
<1>2. CASE Close \/ Vanish \/ Tick
  BY <1>2 DEF Close, Vanish, Tick
<1>3. CASE Exit \/ DieOfKill
  BY <1>3 DEF Exit, DieOfKill, Ends
<1>4. CASE Fork
  BY <1>4 DEF Fork, BetweenCases, NoCapture
<1>5. CASE Arm
  BY <1>5 DEF Arm
<1>6. CASE CheckLimit
  BY <1>6 DEF CheckLimit, Larger
<1>7. CASE LastChance
  BY <1>7 DEF LastChance, Reap
<1>8. CASE Kill
  BY <1>8 DEF Kill
<1>9. CASE Poll
  BY <1>9 DEF Poll
<1>10. CASE ReadChunk
  <2>1. pipe # <<>> /\ pipe' = Tail(pipe)
    BY <1>10 DEF ReadChunk
  <2>2. {pipe[i] : i \in DOMAIN pipe} = {pipe'[i] : i \in DOMAIN pipe'} \cup {Head(pipe)}
    <3>1. /\ pipe \in Seq(Kind) /\ Len(pipe) \in Nat \ {0} /\ Len(pipe') = Len(pipe) - 1
          /\ pipe' \in Seq(Kind) /\ \A i \in 1..Len(pipe') : pipe'[i] = pipe[i + 1]
      BY <2>1
    <3>2. ASSUME NEW i \in 1..Len(pipe), i # 1 PROVE i - 1 \in 1..Len(pipe') /\ pipe'[i - 1] = pipe[i]
      BY <3>1, <3>2
    <3>3. Head(pipe) = pipe[1] /\ 1 \in 1..Len(pipe)
      BY <3>1
    <3>4. \A i \in 1..Len(pipe') : i + 1 \in 1..Len(pipe)
      BY <3>1
    <3>5. DOMAIN pipe = 1..Len(pipe) /\ DOMAIN pipe' = 1..Len(pipe')
      BY <3>1
    <3> DEFINE Before == {pipe[i] : i \in DOMAIN pipe}
               After == {pipe'[i] : i \in DOMAIN pipe'}
    <3>6. ASSUME NEW i \in 1..Len(pipe) PROVE pipe[i] \in After \cup {Head(pipe)}
      <4>1. CASE i = 1
        BY <4>1, <3>3
      <4>2. CASE i # 1
        BY <4>2, <3>2, <3>5
      <4> QED
        BY <4>1, <4>2
    <3>7. ASSUME NEW i \in 1..Len(pipe') PROVE pipe'[i] \in Before
      BY <3>1, <3>4, <3>5
    <3>8. Head(pipe) \in Before
      BY <3>3, <3>5
    <3>9. Before \subseteq After \cup {Head(pipe)}
      BY <3>5, <3>6
    <3>10. After \cup {Head(pipe)} \subseteq Before
      BY <3>5, <3>7, <3>8
    <3> QED
      BY <3>9, <3>10
  <2>3. cap'.seen = cap.seen \cup {Head(pipe)} /\ cap'.eof = cap.eof
    BY <1>10 DEF ReadChunk, Capture
  <2> QED
    BY <1>10, <2>1, <2>2, <2>3 DEF ReadChunk
<1>11. CASE ReadEnd \/ ReadAgain
  BY <1>11 DEF ReadEnd, ReadAgain, Capture
<1>12. CASE ReadFails
  BY <1>12 DEF ReadFails, Capture
<1>13. CASE Wait
  BY <1>13 DEF Wait, Reap, NoChild
<1>14. CASE KillWait
  <2>1. CASE Reap("startdrain")
    BY <1>14, <2>1 DEF KillWait, Reap
  <2>2. CASE NoChild("startdrain")
    BY <1>14, <2>2 DEF KillWait, NoChild
  <2>3. CASE ~ Reap("startdrain") /\ ~ NoChild("startdrain")
    BY <1>14, <2>3 DEF KillWait
  <2> QED
    BY <2>1, <2>2, <2>3
<1>15. CASE StartDrain
  BY <1>15 DEF StartDrain
<1>16. CASE Drain
  BY <1>16 DEF Drain, Capture
<1>17. CASE ReapLast
  BY <1>17 DEF ReapLast, Reap, NoChild
<1>18. CASE JudgeCase
  BY <1>18 DEF JudgeCase, Judge, NoCapture
<1>19. CASE GiveUp
  BY <1>19 DEF GiveUp, Judge, NoCapture
<1>20. CASE Segv
  BY <1>20 DEF Segv
<1>21. CASE Recover
  BY <1>21 DEF Recover, Judge, NoCapture
<1>22. CASE Seed \/ NextCase
  BY <1>22 DEF Seed, NextCase
<1>23. CASE Sleep \/ UNCHANGED vars
  BY <1>23 DEF Sleep, vars
<1> QED
  BY <1>1, <1>2, <1>3, <1>4, <1>5, <1>6, <1>7, <1>8, <1>9, <1>10, <1>11, <1>12,
     <1>13, <1>14, <1>15, <1>16, <1>17, <1>18, <1>19, <1>20, <1>21, <1>22, <1>23
     DEF Next, Harness, Fault, Worker
\* What the harness believes of its worker's end stays true.
LEMMA ExitStep ==
    TypeOK /\ BetweenCases /\ ExitIsKnown /\ [Next]_vars => ExitIsKnown'
<1> SUFFICES ASSUME TypeOK, BetweenCases, ExitIsKnown, [Next]_vars PROVE ExitIsKnown'
  OBVIOUS
<1> USE CaseAssumption DEF ExitIsKnown, TypeOK, Run, BetweenCases, NoRun, Signal, Status, Goto, workervars, suitevars
<1>1. CASE Write
  BY <1>1 DEF Write
<1>2. CASE Close \/ Vanish \/ Tick
  BY <1>2 DEF Close, Vanish, Tick
<1>3. CASE Exit \/ DieOfKill
  BY <1>3 DEF Exit, DieOfKill, Ends
<1>4. CASE Fork
  BY <1>4 DEF Fork
<1>5. CASE Arm
  BY <1>5 DEF Arm
<1>6. CASE CheckLimit
  BY <1>6 DEF CheckLimit, Larger
<1>7. CASE LastChance
  <2>1. CASE Reap("startdrain")
    BY <1>7, <2>1 DEF LastChance, Reap
  <2>2. CASE ~ Reap("startdrain")
    <3>1. run'.reaped = run.reaped /\ run'.status = run.status /\ run'.timedOut = run.timedOut
      BY <1>7, <2>2 DEF LastChance
    <3>2. UNCHANGED <<pc, workervars>>
      BY <1>7, <2>2 DEF LastChance
    <3> QED
      BY <3>1, <3>2
  <2> QED
    BY <2>1, <2>2
<1>8. CASE Kill
  BY <1>8 DEF Kill
<1>9. CASE Poll
  BY <1>9 DEF Poll
<1>10. CASE ReadChunk
  BY <1>10 DEF ReadChunk
<1>11. CASE ReadEnd \/ ReadAgain
  BY <1>11 DEF ReadEnd, ReadAgain
<1>12. CASE ReadFails
  BY <1>12 DEF ReadFails
<1>13. CASE Wait
  BY <1>13 DEF Wait, Reap, NoChild
<1>14. CASE KillWait
  <2>1. CASE Reap("startdrain")
    BY <1>14, <2>1 DEF KillWait, Reap
  <2>2. CASE NoChild("startdrain")
    BY <1>14, <2>2 DEF KillWait, NoChild
  <2>3. CASE ~ Reap("startdrain") /\ ~ NoChild("startdrain")
    BY <1>14, <2>3 DEF KillWait
  <2> QED
    BY <2>1, <2>2, <2>3
<1>15. CASE StartDrain
  BY <1>15 DEF StartDrain
<1>16. CASE Drain
  BY <1>16 DEF Drain
<1>17. CASE ReapLast
  BY <1>17 DEF ReapLast, Reap, NoChild
<1>18. CASE JudgeCase
  BY <1>18 DEF JudgeCase, Judge
<1>19. CASE GiveUp
  BY <1>19 DEF GiveUp, Judge
<1>20. CASE Segv
  BY <1>20 DEF Segv
<1>21. CASE Recover
  BY <1>21 DEF Recover, Judge
<1>22. CASE Seed \/ NextCase
  BY <1>22 DEF Seed, NextCase
<1>23. CASE Sleep \/ UNCHANGED vars
  BY <1>23 DEF Sleep, vars
<1> QED
  BY <1>1, <1>2, <1>3, <1>4, <1>5, <1>6, <1>7, <1>8, <1>9, <1>10, <1>11, <1>12,
     <1>13, <1>14, <1>15, <1>16, <1>17, <1>18, <1>19, <1>20, <1>21, <1>22, <1>23
     DEF Next, Harness, Fault, Worker

\* Every step of the harness, of the worker and of the clock keeps it.
LEMMA InvStep == Inv /\ [Next]_vars => Inv'
BY TypeStep, BetweenStep, InACaseStep, OutputStep, ExitStep DEF Inv

\* Every reachable state satisfies the inductive invariant.
THEOREM Invariance == Spec => []Inv
BY InitInv, InvStep, PTL DEF Spec

\* Every variable keeps its type, and the times and counts their bounds.
THEOREM TypeCorrect == Spec => []TypeOK
<1>1. Inv => TypeOK
  BY DEF Inv
<1> QED
  BY Invariance, <1>1, PTL

\* An exit code the judgement compares with the one wanted is the worker's own,
\* or stands for a kill.
LEMMA EarnedLemma == Inv => SupportedIsEarned
<1> SUFFICES ASSUME Inv, pc = "judge", Reason = "-"
             PROVE  /\ ~ writing /\ worker \in {"reaped", "gone"}
                    /\ Case.needle => "needle" \in wrote
                    /\ exit = Case.want \/ (killed /\ Case.want = "0")
  BY DEF SupportedIsEarned
<1>1. Case \in [needle : BOOLEAN, want : {"0", "1"}]
  BY CaseType DEF Inv, InACase, TypeOK
<1>2. cap.eof /\ run.reaped /\ ExitCodeSeen = Case.want /\ Satisfied
  BY DEF Reason
<1>3. ~ writing /\ wrote = cap.seen
  BY <1>2 DEF Inv, OutputIsKept, InPipe
<1>4. \/ worker = "reaped" /\ run.status = exit
      \/ worker = "gone" /\ run.status = "invalid"
  BY <1>2 DEF Inv, ExitIsKnown
<1>5. exit = Case.want \/ (killed /\ Case.want = "0")
  BY <1>1, <1>2, <1>4, CaseAssumption DEF ExitCodeSeen, Inv, ExitIsKnown
<1> QED
  BY <1>2, <1>3, <1>4, <1>5 DEF Satisfied

\* An applet is called supported only on the whole output and the true end of
\* its worker.
THEOREM Earned == Spec => []SupportedIsEarned
BY Invariance, EarnedLemma, PTL

\* The invariant tells why a needle was not found.
LEMMA MissingLemma == Inv => OutputIsMissing
<1> SUFFICES ASSUME Inv, pc = "judge", Reason = "output"
             PROVE  ~ writing /\ "needle" \notin wrote
  BY DEF OutputIsMissing
<1>1. cap.eof /\ ~ Satisfied
  BY DEF Reason
<1>2. ~ writing /\ wrote = cap.seen
  BY <1>1 DEF Inv, OutputIsKept, InPipe
<1> QED
  BY <1>1, <1>2 DEF Satisfied

\* Output is called missing only when the worker never wrote it.
THEOREM Missing == Spec => []OutputIsMissing
BY Invariance, MissingLemma, PTL

\* The invariant tells why a case timed out.
LEMMA TimeoutLemma == Inv => TimeoutIsTrue
<1> SUFFICES ASSUME Inv, pc = "judge", Reason = "timeout"
             PROVE  killed /\ (exit \in ExitCode => worker = "gone")
  BY DEF TimeoutIsTrue
<1>1. run.reaped /\ ExitCodeSeen = "124"
  BY DEF Reason
<1>2. \/ worker = "reaped" /\ run.status = exit
      \/ worker = "gone" /\ run.status = "invalid"
  BY <1>1 DEF Inv, ExitIsKnown
<1>3. exit # "124" /\ exit \in ExitCode \cup Signal \cup {"none"}
  BY CaseAssumption DEF Inv, TypeOK, Status, Signal
<1>4. run.timedOut /\ run.status \notin ExitCode
  BY <1>1, <1>2, <1>3, CaseAssumption DEF ExitCodeSeen
<1> QED
  BY <1>2, <1>4 DEF Inv, ExitIsKnown

\* A timeout is reported only of a worker that was killed and did not exit by
\* itself, unless the kernel has lost its status.
THEOREM TimedOut == Spec => []TimeoutIsTrue
BY Invariance, TimeoutLemma, PTL

=============================================================================
