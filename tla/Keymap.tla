------------------------------- MODULE Keymap -------------------------------
(* The keyboard layout: keymap(1) processes (services/ir0_keymap.c) set the *)
(* kernel's layout and then replace /etc/keymap through the one             *)
(* /etc/keymap.tmp (lib/ir0_keymap.c), under no lock; the console service   *)
(* applies the file whenever it starts.  Files are kept byte by byte: two   *)
(* writers of one file overwrite each other's bytes.                        *)
EXTENDS Naturals, Sequences

CONSTANTS
    Proc,       \* the keymap(1) processes
    Console,    \* the console service
    InitFile,   \* what /etc/keymap may hold to begin with
    NoFile      \* there is no file of that name

VARIABLES
    kernel,     \* the layout in force
    file,       \* the bytes of /etc/keymap, or NoFile
    tmp,        \* the bytes of /etc/keymap.tmp, or NoFile
    pc,         \* what each process does next
    want,       \* the layout it was asked for
    fd,         \* the name that the file it writes has by now
    line,       \* what the console has read
    ok,         \* history: the last process to end reported success
    together,   \* history: since some process ran alone, others ran beside it
    mixed,      \* history: two were writing at the same time
    hurt        \* history: one of them failed or was killed while it wrote

filevars == <<file, tmp>>
vars == <<kernel, filevars, pc, want, fd, line, ok, together, mixed, hurt>>

Layout == {"us", "latam"}
\* ir0_keymap_name
Text(layout) == IF layout = "us" THEN <<"u", "s">> ELSE <<"l", "a", "t", "a", "m">>
EndLine == "newline"
Hole == "nul"       \* a byte nobody has written, below the end of a file

Byte == {"u", "s", "l", "a", "t", "m", EndLine, Hole}

\* A mistake: only the two names that are printed are known.
ParsedLong(bytes) ==
    LET ends == {i \in DOMAIN bytes : bytes[i] \in {EndLine, Hole}}
        word == IF ends = {} THEN bytes
                ELSE SubSeq(bytes, 1, (CHOOSE i \in ends : \A j \in ends : i <= j) - 1)
    IN  IF word = Text("us") THEN "us"
        ELSE IF word = Text("latam") THEN "latam"
        ELSE "none"

\* fgets and ir0_keymap_parse: the first word, which ends at white space or a
\* zero byte; "la" is another name of latam, "none" stands for an error.
Parsed(bytes) ==
    LET ends == {i \in DOMAIN bytes : bytes[i] \in {EndLine, Hole}}
        word == IF ends = {} THEN bytes
                ELSE SubSeq(bytes, 1, (CHOOSE i \in ends : \A j \in ends : i <= j) - 1)
    IN  IF word = Text("us") THEN "us"
        ELSE IF word \in {Text("latam"), <<"l", "a">>} THEN "latam"
        ELSE "none"

\* The image is staged with a layout, or with none.
ASSUME KeymapAssumption ==
    /\ Console \notin Proc /\ NoFile \notin Seq(Byte)
    /\ \A bytes \in InitFile : bytes \in Seq(Byte) /\ Parsed(bytes) \in Layout

Running(p) == pc[p] # "idle"
Writing(p) == pc[p] \in {"name", "newline", "rename"}

Init ==
    /\ kernel \in Layout
    /\ file \in InitFile \cup {NoFile} /\ tmp = NoFile
    /\ pc = [p \in Proc \cup {Console} |-> "idle"]
    /\ want = [p \in Proc |-> "us"]
    /\ fd = [p \in Proc |-> "none"]
    /\ line = "none"
    /\ ok = FALSE /\ together = FALSE /\ mixed = FALSE /\ hurt = FALSE

\* p goes on to label; the histories note who else is running.
Goto(p, label) ==
    /\ pc' = [pc EXCEPT ![p] = label]
    /\ mixed' = (mixed \/ (label = "name" /\ \E q \in Proc \ {p} : Writing(q)))
Starts(p) ==
    /\ pc[p] = "idle"
    /\ together' = (\E q \in DOMAIN pc : Running(q))
    /\ ok' = FALSE

----------------------------------------------------------------------------
(* main of keymap(1) *)

Start(p) ==
    /\ Starts(p)
    /\ want' \in {[want EXCEPT ![p] = layout] : layout \in Layout}
    /\ Goto(p, "set")
    /\ UNCHANGED <<kernel, filevars, fd, line, hurt>>

\* A mistake: the answer of keymap_set is not looked at.
SetKernelUnchecked(p) ==
    /\ pc[p] = "set"
    /\ kernel' = want[p] \/ UNCHANGED kernel
    /\ Goto(p, "open")
    /\ UNCHANGED <<filevars, want, fd, line, ok, together, hurt>>

SetKernel(p) ==
    /\ pc[p] = "set"
    /\ \/ kernel' = want[p] /\ Goto(p, "open")
       \/ UNCHANGED kernel /\ Goto(p, "idle")       \* keymap_set fails
    /\ UNCHANGED <<filevars, want, fd, line, ok, together, hurt>>

----------------------------------------------------------------------------
(* ir0_keymap_write_file *)

\* A mistake: the file itself is opened and truncated.
OpenInPlace(p) ==
    /\ pc[p] = "open"
    /\ file' = <<>>
    /\ fd' = [fd EXCEPT ![p] = "file"]
    /\ Goto(p, "name")
    /\ UNCHANGED <<kernel, tmp, want, line, ok, together, hurt>>

\* O_CREAT | O_TRUNC on the shared name.
Open(p) ==
    /\ pc[p] = "open"
    /\ tmp' = <<>>
    /\ fd' = [fd EXCEPT ![p] = "tmp"]
    /\ Goto(p, "name")
    /\ UNCHANGED <<kernel, file, want, line, ok, together, hurt>>

\* write(2) of bytes at offset n: over what is there, past a hole if need be.
Over(old, n, bytes) ==
    [i \in 1..(IF Len(old) > n + Len(bytes) THEN Len(old) ELSE n + Len(bytes)) |->
        IF i \in (n + 1)..(n + Len(bytes)) THEN bytes[i - n]
        ELSE IF i <= Len(old) THEN old[i] ELSE Hole]

\* The file p has open may be the next or already the present /etc/keymap, or
\* one without a name.
Writes(p, n, bytes) ==
    /\ tmp' = IF fd[p] = "tmp" THEN Over(tmp, n, bytes) ELSE tmp
    /\ file' = IF fd[p] = "file" THEN Over(file, n, bytes) ELSE file

WriteName(p) ==
    /\ pc[p] = "name"
    /\ Writes(p, 0, Text(want[p]))
    /\ Goto(p, "newline")
    /\ UNCHANGED <<kernel, want, fd, line, ok, together, hurt>>

WriteNewline(p) ==
    /\ pc[p] = "newline"
    /\ Writes(p, Len(Text(want[p])), <<EndLine>>)
    /\ fd' = [fd EXCEPT ![p] = "none"]
    /\ Goto(p, "rename")
    /\ UNCHANGED <<kernel, want, line, ok, together, hurt>>

\* The names of the open files change with the names.
Renamed == [tmp |-> "file", file |-> "gone", gone |-> "gone", none |-> "none"]
Unlinked == [Renamed EXCEPT !.tmp = "gone", !.file = "file"]

Rename(p) ==
    /\ pc[p] = "rename" /\ tmp # NoFile
    /\ file' = tmp /\ tmp' = NoFile
    /\ fd' = [q \in Proc |-> Renamed[fd[q]]]
    /\ ok' = TRUE
    /\ Goto(p, "idle")
    /\ UNCHANGED <<kernel, want, line, together, hurt>>

\* A call fails, or rename finds nothing of that name any more: unlink, and
\* keymap(1) reports the error.
Fail(p) ==
    /\ pc[p] = "open" \/ Writing(p)
    /\ IF pc[p] = "open" THEN UNCHANGED <<tmp, fd>>
       ELSE /\ tmp' = NoFile
            /\ fd' = [q \in Proc |-> IF q = p THEN "none" ELSE Unlinked[fd[q]]]
    /\ hurt' = (hurt \/ pc[p] \in {"name", "newline"})
    /\ ok' = FALSE
    /\ Goto(p, "idle")
    /\ UNCHANGED <<kernel, file, want, line, together>>

Die(p) ==
    /\ Running(p)
    /\ hurt' = (hurt \/ pc[p] \in {"name", "newline"})
    /\ fd' = [fd EXCEPT ![p] = "none"]
    /\ ok' = FALSE
    /\ Goto(p, "idle")
    /\ UNCHANGED <<kernel, filevars, want, line, together>>

----------------------------------------------------------------------------
(* ir0_keymap_apply_file, called by the console when it starts *)

\* A file that is missing or cannot be read tells it nothing.
ConsoleReads ==
    /\ Starts(Console)
    /\ \/ file # NoFile /\ line' = Parsed(file)
       \/ line' = "none"
    /\ Goto(Console, "apply")
    /\ UNCHANGED <<kernel, filevars, want, fd, hurt>>

\* No layout read, or a failing keymap_set, leaves the layout as it is.
ConsoleSets ==
    /\ pc[Console] = "apply"
    /\ \/ line # "none" /\ kernel' = line
       \/ UNCHANGED kernel
    /\ line' = "none"
    /\ Goto(Console, "idle")
    /\ UNCHANGED <<filevars, want, fd, ok, together, hurt>>

Next ==
    \/ \E p \in Proc :
           \/ Start(p) \/ SetKernel(p) \/ Open(p) \/ WriteName(p) \/ WriteNewline(p)
           \/ Rename(p) \/ Fail(p) \/ Die(p)
    \/ ConsoleReads \/ ConsoleSets

Spec == Init /\ [][Next]_vars

----------------------------------------------------------------------------
Quiet == \A p \in DOMAIN pc : ~ Running(p)

\* As long as no two processes write at the same time, /etc/keymap names a
\* layout at every moment, whoever fails or is killed: a reader of it never
\* meets a part of a name.
AlwaysALayout ==
    ~ mixed /\ file # NoFile => Parsed(file) \in Layout

\* Even when they do write at the same time, into the same file and over each
\* other's bytes, what is left once all have ended names a layout, unless one of
\* them failed or was killed half way.
MixHeals ==
    Quiet /\ ~ hurt /\ file # NoFile => Parsed(file) \in Layout

\* "set + persist": when a keymap(1) that ran with nobody beside it reports
\* success, the layout in force and the one of the next start agree, whatever
\* state earlier ones left the files in.
AloneAgrees ==
    Quiet /\ ok /\ ~ together => file # NoFile /\ Parsed(file) = kernel

=============================================================================
