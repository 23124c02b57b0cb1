---------------------------- MODULE ShadowAtomic ----------------------------
(* What lib/ir0_auth.h promises of ir0_shadow_set_hash: "Replace the hash   *)
(* of @user in /etc/shadow atomically".  A call either replaces the hash in *)
(* one step, all other lines untouched, or fails and changes nothing.  The  *)
(* code keeps the promise but for CommitPart, which is part of this module  *)
(* for that reason alone.                                                   *)
EXTENDS AuthFiles

CONSTANTS Proc, InitShadow

VARIABLES
    shadow,     \* the contents of /etc/shadow
    call        \* the call each process is in

vars == <<shadow, call>>

NoCall == [state |-> "none", user |-> Absent, hash |-> Absent]

Init ==
    /\ shadow \in InitShadow
    /\ call = [p \in Proc |-> NoCall]

Begin(p) ==
    /\ call[p] = NoCall
    /\ \E u \in Name, h \in Password :
           call' = [call EXCEPT ![p] = [state |-> "running", user |-> u, hash |-> h]]
    /\ UNCHANGED shadow

\* The step that changes the file.
Commit(p) ==
    /\ call[p].state = "running"
    /\ shadow' = Rewritten(shadow, call[p].user, call[p].hash)
    /\ call' = [call EXCEPT ![p].state = "done"]

\* The one departure: a read of the old file that failed has been taken for its
\* end, and the lines behind it are lost in the same step.
CommitPart(p) ==
    /\ call[p].state = "running"
    /\ \E n \in 0..(Len(shadow) - 1) :
           shadow' = Rewritten(SubSeq(shadow, 1, n), call[p].user, call[p].hash)
    /\ call' = [call EXCEPT ![p].state = "done"]

Fail(p) ==
    /\ call[p].state = "running"
    /\ call' = [call EXCEPT ![p].state = "failed"]
    /\ UNCHANGED shadow

\* The call is over: it has returned, or the caller has died in it.
End(p) ==
    /\ call[p] # NoCall
    /\ call' = [call EXCEPT ![p] = NoCall]
    /\ UNCHANGED shadow

Next == \E p \in Proc : Begin(p) \/ Commit(p) \/ CommitPart(p) \/ Fail(p) \/ End(p)

Spec == Init /\ [][Next]_vars
=============================================================================
