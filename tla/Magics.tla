------------------------------- MODULE Magics --------------------------------
(***************************************************************************)
(* xmagics_manager::apply and the magic %%file (xmagics/os.cpp).  Kernels  *)
(* that run in one directory may write the same file: writefile looks      *)
(* whether the file can be read, opens it in the mode that follows, writes *)
(* and closes it, and another kernel may run between any two of these.     *)
(*                                                                         *)
(* The text of a cell is a sequence of blocks <<n, i>>: the i-th piece     *)
(* that the stream writes for the n-th command.  The last piece holds the  *)
(* newline.                                                                *)
(***************************************************************************)
EXTENDS Naturals, Sequences, FiniteSets

CONSTANTS
    Kernels,
    Names,            \* the names that cells use
    NoFile,           \* there is no such file
    Hole,             \* a block that nobody has written
    MaxBlocks,        \* bound: the blocks of one cell
    MaxCommands,      \* bound: commands of all kernels together
    MaxCrashes        \* bound: deaths of a kernel

\* The i-th piece of the text of command n.
Block(n, i) == <<n, i>>
Blocks == Nat \X Nat
Text(n, blocks) == [i \in 1..blocks |-> Block(n, i)]

ASSUME HoleAssumption == Hole \notin Blocks
ASSUME NoFileAssumption == NoFile \notin Seq(Blocks \cup {Hole})
ASSUME BoundsAssumption == {MaxBlocks, MaxCommands, MaxCrashes} \subseteq Nat

VARIABLES
    file,             \* the blocks in the file, or NoFile
    readable,         \* may the kernels read it, which they may if they create it
    writable,         \* may they write it
    pc,               \* where each kernel is in writefile
    command,          \* the command it executes: [n, append, blocks]
    found,            \* is_file_exist, as it was when the kernel looked
    mode,             \* how the stream was opened: "trunc", "app", "failed"
    written,          \* blocks the stream has written
    status,           \* of the last reply
    commands,         \* commands begun so far, up to MaxCommands
    crashes,          \* deaths so far, up to MaxCrashes
    \* Histories.
    finished,         \* commands that wrote all and returned: command -> blocks
    before,           \* the commands that had finished when a kernel looked
    excused,          \* commands whose text had to give way
    expected,         \* what the file holds if one command runs at a time
    alone             \* so far no two commands overlapped and none was cut off

fileVars == <<file, readable, writable>>
streamVars == <<found, mode, written>>
histories == <<finished, before, excused, expected, alone>>
vars == <<fileVars, pc, command, streamVars, status, commands, crashes, histories>>

\* What the file holds: nothing if there is none.
Content == IF file = NoFile THEN << >> ELSE file

NoCommand == [n |-> 0, append |-> FALSE, blocks |-> 0]

\* The file may exist before, with a cell that was written earlier.
Init ==
    /\ file \in {NoFile, Text(0, 1)}
    /\ readable \in BOOLEAN /\ writable \in BOOLEAN
    /\ file = NoFile => readable /\ writable
    /\ pc = [k \in Kernels |-> "idle"]
    /\ command = [k \in Kernels |-> NoCommand]
    /\ found = [k \in Kernels |-> FALSE]
    /\ mode = [k \in Kernels |-> "failed"]
    /\ written = [k \in Kernels |-> 0]
    /\ status = [k \in Kernels |-> "none"]
    /\ commands = 0
    /\ crashes = 0
    /\ finished = [n \in (IF file = NoFile THEN {} ELSE {0}) |-> 1]
    /\ before = [k \in Kernels |-> {}]
    /\ excused = {}
    /\ expected = Content
    /\ alone = TRUE

-----------------------------------------------------------------------------
(* The dispatch.                                                           *)

\* The maps that register_magic puts a magic into: both are cell magics.
init_magic == [m_magic_cell |-> {"file", "xassist"}, m_magic_line |-> {}]

contains(name, type) == name \in init_magic[type]

Take(k) ==
    /\ pc[k] = "idle"
    /\ commands < MaxCommands
    /\ commands' = commands + 1

Reply(k, s) == status' = [status EXCEPT ![k] = s]

Unmoved == UNCHANGED <<fileVars, pc, command, streamVars, crashes, histories>>

\* Unknown magic cell function, unknown magic line function.
UnknownMagic(k) ==
    /\ Take(k)
    /\ \E name \in Names, type \in DOMAIN init_magic : ~contains(name, type)
    /\ Reply(k, "error")
    /\ Unmoved

\* UsageError: the cell body is empty.  Or the line cannot be parsed: parse
\* prints why, get throws, and the exception is printed.  Both are an ok.
NothingDone(k) ==
    /\ Take(k)
    /\ \E name \in Names : contains(name, "m_magic_cell")
    /\ Reply(k, "ok")
    /\ Unmoved

\* %%file [-a] filename, with a body.
File(k) ==
    /\ Take(k)
    /\ contains("file", "m_magic_cell")
    /\ \E append \in BOOLEAN, blocks \in 1..MaxBlocks :
          command' = [command EXCEPT ![k] =
              [n |-> commands', append |-> append, blocks |-> blocks]]
    /\ pc' = [pc EXCEPT ![k] = "look"]
    /\ alone' = (alone /\ \A j \in Kernels : pc[j] = "idle")
    /\ UNCHANGED <<fileVars, streamVars, status, crashes>>
    /\ UNCHANGED <<finished, before, excused, expected>>

-----------------------------------------------------------------------------
(* writefile.                                                              *)

\* is_file_exist: an ifstream can be opened.
is_file_exist == file # NoFile /\ readable

Look(k) ==
    /\ pc[k] = "look"
    /\ found' = [found EXCEPT ![k] = is_file_exist]
    /\ before' = [before EXCEPT ![k] = DOMAIN finished]
    /\ pc' = [pc EXCEPT ![k] = "open"]
    /\ UNCHANGED <<fileVars, command, mode, written, status, commands, crashes>>
    /\ UNCHANGED <<finished, excused, expected, alone>>

OpenMode_AlwaysTrunc(k) == "trunc"
OpenMode_AlwaysApp(k) == "app"

\* The mode asked for: ios::app only for -a and a file that was found.
OpenMode(k) == IF found[k] /\ command[k].append THEN "app" ELSE "trunc"

\* The commands with a block in the file.
Present == {Content[p][1] : p \in {p \in DOMAIN Content : Content[p] # Hole}}

\* Whose text a truncation may remove: everybody's if the user asked to
\* overwrite; with -a, only that of commands which ended after the look, or
\* that of a file which exists but cannot be read.
MayTruncate(k) ==
    IF command[k].append /\ readable THEN Present \ before[k] ELSE Present

Open(k) ==
    /\ pc[k] = "open"
    /\ file = NoFile \/ writable
    /\ mode' = [mode EXCEPT ![k] = OpenMode(k)]
    /\ file' = IF OpenMode(k) = "trunc" \/ file = NoFile THEN << >> ELSE file
    /\ excused' = IF OpenMode(k) = "trunc" THEN excused \cup MayTruncate(k)
                                           ELSE excused
    /\ pc' = [pc EXCEPT ![k] = "write"]
    /\ written' = [written EXCEPT ![k] = 0]
    /\ UNCHANGED <<readable, writable, command, found, status, commands, crashes>>
    /\ UNCHANGED <<finished, before, expected, alone>>

\* The file cannot be opened, also when it would have to be created: failbit
\* is set and nobody looks at it.
OpenFails(k) ==
    /\ pc[k] = "open"
    /\ file = NoFile \/ ~writable
    /\ mode' = [mode EXCEPT ![k] = "failed"]
    /\ pc' = [pc EXCEPT ![k] = "write"]
    /\ written' = [written EXCEPT ![k] = 0]
    /\ UNCHANGED <<fileVars, command, found, status, commands, crashes, histories>>

\* s with a block at position p, and holes up to there.
PutAt(s, p, b) ==
    [i \in 1..(IF p > Len(s) THEN p ELSE Len(s)) |->
        IF i = p THEN b ELSE IF i <= Len(s) THEN s[i] ELSE Hole]

\* file << cell << "\n": the next block, at the end of the file with ios::app
\* and at the stream's own position without.
Write(k) ==
    LET i == written[k] + 1
        p == IF mode[k] = "app" THEN Len(file) + 1 ELSE i
    IN  /\ pc[k] = "write" /\ mode[k] # "failed"
        /\ i <= command[k].blocks
        /\ file' = PutAt(file, p, Block(command[k].n, i))
        /\ excused' = IF mode[k] = "trunc" /\ p \in DOMAIN file /\ file[p] # Hole
                      THEN excused \cup {file[p][1]} ELSE excused
        /\ written' = [written EXCEPT ![k] = i]
        /\ UNCHANGED <<readable, writable, pc, command, found, mode, status>>
        /\ UNCHANGED <<commands, crashes, finished, before, expected, alone>>

\* What the documentation says of a command that is alone: "append the content to
\* the file" (docs/source/magics.rst), or copy it to the file.
Promised(k) ==
    LET text == Text(command[k].n, command[k].blocks)
    IN  IF command[k].append THEN expected \o text ELSE text

\* file.close, and the reply: ok in any case.
Close(k) ==
    /\ pc[k] = "write"
    /\ mode[k] = "failed" \/ written[k] = command[k].blocks
    /\ pc' = [pc EXCEPT ![k] = "idle"]
    /\ Reply(k, "ok")
    /\ IF mode[k] = "failed"
       THEN UNCHANGED <<finished, expected>>
       ELSE /\ finished' = [n \in DOMAIN finished \cup {command[k].n} |->
                  IF n = command[k].n THEN command[k].blocks ELSE finished[n]]
            /\ expected' = Promised(k)
    /\ UNCHANGED <<fileVars, command, streamVars, commands, crashes>>
    /\ UNCHANGED <<before, excused, alone>>

\* A kernel dies in the middle of a command, and is started again.
Crash(k) ==
    /\ crashes < MaxCrashes
    /\ pc[k] # "idle"
    /\ crashes' = crashes + 1
    /\ pc' = [pc EXCEPT ![k] = "idle"]
    /\ status' = [status EXCEPT ![k] = "none"]
    /\ alone' = FALSE
    /\ UNCHANGED <<fileVars, command, streamVars, commands>>
    /\ UNCHANGED <<finished, before, excused, expected>>

Command(k) == Look(k) \/ Open(k) \/ OpenFails(k) \/ Write(k) \/ Close(k)

Next ==
    \E k \in Kernels :
        \/ UnknownMagic(k) \/ NothingDone(k) \/ File(k)
        \/ Command(k) \/ Crash(k)

Spec == Init /\ [][Next]_vars

-----------------------------------------------------------------------------
(* Properties.                                                             *)

\* Of command n the text s has c blocks: each, no other, once and in order.
IsFrom(block, n) == block # Hole /\ block[1] = n
Whole(s, n, c) ==
    /\ \A i \in 1..c : \E p \in 1..Len(s) : s[p] = Block(n, i)
    /\ \A p \in 1..Len(s) : IsFrom(s[p], n) => s[p][2] \in 1..c
    /\ \A p, q \in 1..Len(s) :
          p < q /\ IsFrom(s[p], n) /\ IsFrom(s[q], n) => s[p][2] < s[q][2]

\* A cell that has been written stays in the file, whole and in order, however
\* kernels interleave and wherever one of them dies (writefile), until
\* a command without -a opens the file.  A command with -a takes it away only
\* if it looked before that cell was complete, or could not read the file,
\* and a stream that truncated the file may write over what was added since.
AppendKept == \A n \in DOMAIN finished \ excused : Whole(Content, n, finished[n])

\* The commands have run one after the other, and have returned.
InTurn == alone /\ \A k \in Kernels : pc[k] = "idle"

\* Commands that run one after the other leave what the documentation says in a file
\* that the kernels may read, if they can open it: -a adds the cell to what the file
\* held, and otherwise the file is the cell (writefile).
FileAsDocumented == InTurn /\ readable => Content = expected

\* "append the content to the file" (docs/source/magics.rst, -a), of which the
\* documentation excepts no file.  The code truncates one that it cannot read.
AppendAsDocumented == InTurn => Content = expected
=============================================================================
