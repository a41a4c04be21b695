---------------------------- MODULE Magics_proofs -----------------------------
(***************************************************************************)
(* The file magic: a cell that has been written stays in the file, whole   *)
(* and in order (AppendKept), and commands that run one by one do what the *)
(* documentation says with a file they may read (FileAsDocumented).  For   *)
(* any number of kernels, commands, blocks of a cell and deaths.           *)
(***************************************************************************)
EXTENDS Magics, SequenceTheorems, TLAPS

-----------------------------------------------------------------------------
(* The invariants.                                                         *)

Active(k) == pc[k] # "idle"

\* The stream of a kernel is open.
Writing(k) == pc[k] = "write" /\ mode[k] # "failed"

\* The types of the variables that the other invariants speak of.
TypeOK ==
    /\ file \in Seq(Blocks \cup {Hole}) \cup {NoFile}
    /\ readable \in BOOLEAN /\ writable \in BOOLEAN
    /\ pc \in [Kernels -> {"idle", "look", "open", "write"}]
    /\ command \in [Kernels -> [n : Nat, append : BOOLEAN, blocks : Nat]]
    /\ found \in [Kernels -> BOOLEAN]
    /\ mode \in [Kernels -> {"trunc", "app", "failed"}]
    /\ written \in [Kernels -> Nat]
    /\ status \in [Kernels -> {"none", "ok", "error"}]
    /\ commands \in Nat /\ crashes \in Nat
    /\ before \in [Kernels -> SUBSET Nat]
    /\ expected \in Seq(Blocks \cup {Hole})
    /\ alone \in BOOLEAN

\* A command that is executed has a number of its own, which no finished one has; the
\* blocks in the file are of commands that have been given.
Numbered ==
    /\ \A k \in Kernels : Active(k) => /\ command[k].n \in (1..commands) \ DOMAIN finished
                                       /\ command[k].blocks > 0
    /\ \A j, k \in Kernels : Active(j) /\ Active(k) /\ j # k => command[j].n # command[k].n
    /\ \A p \in 1..Len(Content) : Content[p] # Hole => Content[p][1] \in 0..commands
    /\ DOMAIN finished \subseteq 0..commands
    /\ \A n \in DOMAIN finished : finished[n] \in Nat /\ finished[n] > 0
    /\ \A k \in Kernels : before[k] \subseteq DOMAIN finished
    /\ \A k \in Kernels : Writing(k) => file # NoFile

\* A stream that truncated the file has its blocks at their own places.
AtPlace(s, n) == \A p \in 1..Len(s) : IsFrom(s[p], n) => s[p][2] = p

\* What is complete stays (AppendKept), and so does what is being written; a command
\* that has not opened the file has no text in it; and one that found no file to add to
\* truncates nothing that it could have kept.
NotYet ==
    \A k \in Kernels : pc[k] \in {"look", "open"} =>
        \A p \in 1..Len(Content) : ~ IsFrom(Content[p], command[k].n)
WrittenKept ==
    \A k \in Kernels : Writing(k) /\ command[k].n \notin excused =>
        /\ Whole(Content, command[k].n, written[k])
        /\ mode[k] = "trunc" => AtPlace(Content, command[k].n)
LooksKept ==
    \A k \in Kernels : pc[k] = "open" /\ ~ found[k] /\ readable => before[k] \subseteq excused
Kept == AppendKept /\ NotYet /\ WrittenKept /\ LooksKept

\* Where the commands have run one by one, how far the one that runs has got.
Documented ==
    alone =>
        /\ \A j, k \in Kernels : Active(j) /\ Active(k) => j = k
        /\ readable /\ (\A k \in Kernels : ~ Writing(k)) => Content = expected
        /\ \A k \in Kernels :
              /\ pc[k] = "open" => found[k] = is_file_exist
              /\ Writing(k) /\ mode[k] = "trunc" =>
                    /\ Content = Text(command[k].n, written[k])
                    /\ command[k].append /\ readable => expected = << >>
              /\ Writing(k) /\ mode[k] = "app" =>
                    /\ Content = expected \o Text(command[k].n, written[k])
                    /\ command[k].append /\ readable

\* What the steps of the proofs may assume.
Known == TypeOK /\ Numbered

-----------------------------------------------------------------------------
(* What the file holds after a write.                                      *)

\* t is s with a block at position p, and holes up to there.
Put(s, t, p, b) ==
    /\ Len(s) \in Nat /\ Len(t) \in Nat /\ Len(s) <= Len(t)
    /\ p \in 1..Len(t) /\ t[p] = b
    /\ \A q \in 1..Len(s) : q # p => t[q] = s[q]
    /\ \A q \in 1..Len(t) : q \in 1..Len(s) \/ q = p \/ t[q] = Hole

LEMMA PutAtPuts ==
    ASSUME NEW s \in Seq(Blocks \cup {Hole}), NEW p \in Nat \ {0}, NEW b \in Blocks
    PROVE  /\ PutAt(s, p, b) \in Seq(Blocks \cup {Hole})
           /\ Put(s, PutAt(s, p, b), p, b)
<1> DEFINE n == IF p > Len(s) THEN p ELSE Len(s)
           t == PutAt(s, p, b)
<1>1. Len(s) \in Nat /\ n \in Nat /\ Len(s) <= n /\ p \in 1..n
  OBVIOUS
<1>2. t = [i \in 1..n |-> IF i = p THEN b ELSE IF i <= Len(s) THEN s[i] ELSE Hole]
  BY DEF PutAt
<1> HIDE DEF n, t
<1>3. \A i \in 1..n :
         t[i] = IF i = p THEN b ELSE IF i <= Len(s) THEN s[i] ELSE Hole
  BY <1>2
<1>4. \A i \in 1..n : t[i] \in Blocks \cup {Hole}
  BY <1>1, <1>3
<1>5. t \in Seq(Blocks \cup {Hole}) /\ Len(t) = n
  <2>1. t \in [1..n -> Blocks \cup {Hole}]
    BY <1>2, <1>4
  <2> QED BY <1>1, <2>1, SeqDef, LenProperties
<1>6. Put(s, t, p, b)
  BY <1>1, <1>3, <1>5 DEF Put
<1> QED BY <1>5, <1>6 DEF t

\* A block is of its command.
LEMMA BlockFrom == \A n, i \in Nat : IsFrom(Block(n, i), n) /\ Block(n, i) \in Blocks
BY HoleAssumption DEF IsFrom, Block, Blocks

\* Another command's text stays, unless it is written over.
LEMMA PutOthers ==
    ASSUME NEW s, NEW t, NEW p, NEW m, NEW i, Put(s, t, p, Block(m, i)),
           NEW n \in Nat, n # m, NEW c \in Nat, Whole(s, n, c),
           p \in 1..Len(s) => ~ IsFrom(s[p], n)
    PROVE  Whole(t, n, c)
<1>1. \A q \in 1..Len(t) : IsFrom(t[q], n) => q \in 1..Len(s) /\ t[q] = s[q]
  BY DEF Put, IsFrom, Block
<1>2. ASSUME NEW j \in 1..c PROVE \E q \in 1..Len(t) : t[q] = Block(n, j)
  <2>1. PICK q \in 1..Len(s) : s[q] = Block(n, j)
    BY DEF Whole
  <2>2. IsFrom(s[q], n)
    BY <2>1, BlockFrom
  <2>3. q \in 1..Len(t) /\ t[q] = s[q]
    BY <2>2 DEF Put
  <2> QED BY <2>1, <2>3
<1> QED BY <1>1, <1>2 DEF Whole

\* The command's own text has the block after all that it had.
LEMMA PutOwn ==
    ASSUME NEW s, NEW t, NEW p, NEW n \in Nat, NEW c \in Nat, Put(s, t, p, Block(n, c + 1)),
           Whole(s, n, c), \A q \in 1..Len(s) : IsFrom(s[q], n) => q < p
    PROVE  Whole(t, n, c + 1)
<1>1. ASSUME NEW q \in 1..Len(t), IsFrom(t[q], n)
      PROVE  \/ q = p /\ t[q][2] = c + 1
             \/ q \in 1..Len(s) /\ t[q] = s[q] /\ q < p /\ t[q][2] \in 1..c
  <2>1. CASE q = p
    BY <2>1 DEF Put, Block
  <2>2. CASE q # p
    <3>1. q \in 1..Len(s) /\ t[q] = s[q]
      BY <1>1, <2>2 DEF Put, IsFrom
    <3> QED BY <1>1, <3>1 DEF Whole
  <2> QED BY <2>1, <2>2
<1>2. ASSUME NEW j \in 1..(c + 1) PROVE \E q \in 1..Len(t) : t[q] = Block(n, j)
  <2>1. CASE j \in 1..c
    <3>1. PICK q \in 1..Len(s) : s[q] = Block(n, j)
      BY <2>1 DEF Whole
    <3>2. IsFrom(s[q], n)
      BY <3>1, BlockFrom
    <3>3. q < p /\ q \in 1..Len(t) /\ t[q] = s[q]
      BY <3>2 DEF Put
    <3> QED BY <3>1, <3>3
  <2>2. CASE j = c + 1
    BY <2>2 DEF Put
  <2> QED BY <2>1, <2>2
<1>3. ASSUME NEW q \in 1..Len(t), NEW r \in 1..Len(t), q < r,
             IsFrom(t[q], n), IsFrom(t[r], n)
      PROVE  t[q][2] < t[r][2]
  <2>0. p \in Int /\ Len(t) \in Nat
    BY DEF Put
  <2>1. q # p
    BY <1>1, <1>3, <2>0
  <2>2. q \in 1..Len(s) /\ t[q] = s[q] /\ t[q][2] \in 1..c
    BY <1>1, <1>3, <2>1
  <2>3. CASE r = p
    BY <1>1, <1>3, <2>2, <2>3
  <2>4. CASE r # p
    <3>1. r \in 1..Len(s) /\ t[r] = s[r]
      BY <1>1, <1>3, <2>4
    <3> QED BY <1>3, <2>2, <3>1 DEF Whole
  <2> QED BY <2>3, <2>4
<1>4. \A q \in 1..Len(t) : IsFrom(t[q], n) => t[q][2] \in 1..(c + 1)
  BY <1>1
<1> QED BY <1>2, <1>3, <1>4 DEF Whole

\* Without blocks of a command there are none.
LEMMA WholeNone ==
    ASSUME NEW s, NEW n, \A p \in 1..Len(s) : ~ IsFrom(s[p], n)
    PROVE  Whole(s, n, 0) /\ AtPlace(s, n)
BY DEF Whole, AtPlace

\* A command of whose blocks there are none has written none.
LEMMA WholeGone ==
    ASSUME NEW s, NEW n \in Nat, NEW c \in Nat, Whole(s, n, c),
           \A p \in 1..Len(s) : ~ IsFrom(s[p], n)
    PROVE  c = 0
<1> SUFFICES ASSUME c # 0 PROVE FALSE
  OBVIOUS
<1>1. 1 \in 1..c
  OBVIOUS
<1>2. PICK p \in 1..Len(s) : s[p] = Block(n, 1)
  BY <1>1 DEF Whole
<1> QED BY <1>2, BlockFrom

-----------------------------------------------------------------------------
(* The types and the numbers.                                              *)

\* The content of a file is a sequence.
LEMMA ContentType ==
    ASSUME TypeOK
    PROVE  /\ Content \in Seq(Blocks \cup {Hole}) /\ Len(Content) \in Nat
           /\ file # NoFile => Content = file
           /\ file = NoFile => Content = << >>
BY DEF TypeOK, Content

\* Text of a command is a sequence.
LEMMA TextType ==
    ASSUME NEW n \in Nat, NEW c \in Nat
    PROVE  /\ Text(n, c) \in Seq(Blocks \cup {Hole}) /\ Len(Text(n, c)) = c
           /\ \A i \in 1..c : Text(n, c)[i] = Block(n, i)
<1>1. \A i \in 1..c : Block(n, i) \in Blocks \cup {Hole}
  BY BlockFrom
<1>2. Text(n, c) \in [1..c -> Blocks \cup {Hole}]
  BY <1>1 DEF Text
<1> QED BY <1>2, SeqDef, LenProperties DEF Text

\* What a kernel is about to write.
LEMMA WriteType ==
    ASSUME TypeOK, NEW k \in Kernels, Write(k), file # NoFile
    PROVE  LET i == written[k] + 1
               p == IF mode[k] = "app" THEN Len(file) + 1 ELSE i
               b == Block(command[k].n, i)
           IN  /\ p \in Nat \ {0} /\ b \in Blocks /\ i \in Nat /\ command[k].n \in Nat
               /\ file' = PutAt(file, p, b) /\ file' \in Seq(Blocks \cup {Hole})
               /\ file' # NoFile /\ Content' = file' /\ Content = file
               /\ Put(Content, Content', p, b)
<1> DEFINE i == written[k] + 1
           p == IF mode[k] = "app" THEN Len(file) + 1 ELSE i
           b == Block(command[k].n, i)
<1>1. /\ i \in Nat \ {0} /\ command[k].n \in Nat /\ file \in Seq(Blocks \cup {Hole})
      /\ file' = PutAt(file, p, b)
  BY DEF TypeOK, Write
<1>2. p \in Nat \ {0} /\ b \in Blocks
  BY <1>1, BlockFrom
<1> HIDE DEF p, b
<1>3. file' \in Seq(Blocks \cup {Hole}) /\ Put(file, file', p, b)
  BY <1>1, <1>2, PutAtPuts
<1>4. file' # NoFile /\ Content' = file' /\ Content = file
  BY <1>3, NoFileAssumption DEF Content
<1> QED BY <1>1, <1>2, <1>3, <1>4 DEF p, b

\* The types hold when the kernels start, and the numbers.
LEMMA InitKnown == Init => Known
<1> SUFFICES ASSUME Init PROVE Known
  OBVIOUS
<1>1. /\ Text(0, 1) \in Seq(Blocks \cup {Hole}) /\ Len(Text(0, 1)) = 1
      /\ Text(0, 1)[1] = Block(0, 1)
  <2>1. 0 \in Nat /\ 1 \in Nat /\ 1 \in 1..1
    OBVIOUS
  <2>2. /\ Text(0, 1) \in Seq(Blocks \cup {Hole}) /\ Len(Text(0, 1)) = 1
        /\ \A i \in 1..1 : Text(0, 1)[i] = Block(0, i)
    BY <2>1, TextType
  <2> QED BY <2>1, <2>2
<1>e. << >> \in Seq(Blocks \cup {Hole})
  OBVIOUS
<1>2. TypeOK
  BY <1>1, <1>e DEF Init, TypeOK, NoCommand, Content
<1>3. Numbered
  <2>1. \A p \in 1..Len(Content) : Content[p] # Hole => Content[p][1] \in 0..commands
    BY <1>1 DEF Init, Content, Block
  <2>2. DOMAIN finished \subseteq {0} /\ \A n \in DOMAIN finished : finished[n] = 1
    BY DEF Init
  <2> QED BY <2>1, <2>2 DEF Init, Numbered, Active, Writing
<1> QED BY <1>2, <1>3 DEF Known

\* Every step keeps the types.
LEMMA NextTypeOK == Known /\ [Next]_vars => TypeOK'
<1> SUFFICES ASSUME Known, [Next]_vars PROVE TypeOK'
  OBVIOUS
<1> USE DEF fileVars, streamVars, histories
<1>t. TypeOK
  BY DEF Known
<1>1. ASSUME NEW k \in Kernels, UnknownMagic(k) \/ NothingDone(k) PROVE TypeOK'
  <2>1. commands' \in Nat
    BY <1>1, <1>t DEF UnknownMagic, NothingDone, Take, TypeOK
  <2>2. status' \in [Kernels -> {"none", "ok", "error"}]
    BY <1>1, <1>t DEF UnknownMagic, NothingDone, Reply, TypeOK
  <2>3. Unmoved
    BY <1>1 DEF UnknownMagic, NothingDone
  <2> QED BY <1>t, <2>1, <2>2, <2>3 DEF Unmoved, TypeOK
<1>2. ASSUME NEW k \in Kernels, File(k) PROVE TypeOK'
  <2>1. PICK append \in BOOLEAN, blocks \in 1..MaxBlocks :
          command' = [command EXCEPT ![k] =
              [n |-> commands', append |-> append, blocks |-> blocks]]
    BY <1>2 DEF File
  <2>2. commands' \in Nat /\ blocks \in Nat
    BY <1>2, <1>t, BoundsAssumption DEF File, Take, TypeOK
  <2>3. command' \in [Kernels -> [n : Nat, append : BOOLEAN, blocks : Nat]]
    BY <1>t, <2>1, <2>2 DEF TypeOK
  <2>4. pc' = [pc EXCEPT ![k] = "look"] /\ alone' \in BOOLEAN
    BY <1>2, <1>t DEF File, TypeOK
  <2>5. UNCHANGED <<fileVars, streamVars, status, crashes, before, expected>>
    BY <1>2 DEF File
  <2> QED BY <1>t, <2>2, <2>3, <2>4, <2>5 DEF TypeOK
<1>3. ASSUME NEW k \in Kernels, Look(k) PROVE TypeOK'
  <2>1. is_file_exist \in BOOLEAN /\ DOMAIN finished \subseteq Nat
    BY <1>t DEF is_file_exist, TypeOK, Known, Numbered
  <2> QED BY <1>3, <1>t, <2>1 DEF Look, TypeOK
<1>4. ASSUME NEW k \in Kernels, Open(k) PROVE TypeOK'
  <2>1. OpenMode(k) \in {"trunc", "app"} /\ << >> \in Seq(Blocks \cup {Hole})
    BY DEF OpenMode
  <2>2. readable' \in BOOLEAN /\ file' \in Seq(Blocks \cup {Hole}) \cup {NoFile}
    BY <1>4, <1>t, <2>1 DEF Open, TypeOK
  <2> QED BY <1>4, <1>t, <2>1, <2>2 DEF Open, TypeOK
<1>5. ASSUME NEW k \in Kernels, OpenFails(k) PROVE TypeOK'
  BY <1>5, <1>t DEF OpenFails, TypeOK
<1>6. ASSUME NEW k \in Kernels, Write(k) PROVE TypeOK'
  <2>1. file # NoFile
    BY <1>6 DEF Known, Numbered, Writing, Write
  <2>2. file' \in Seq(Blocks \cup {Hole})
    BY <1>6, <1>t, <2>1, WriteType
  <2>3. written' \in [Kernels -> Nat]
    BY <1>6, <1>t DEF Write, TypeOK
  <2>4. UNCHANGED <<readable, writable, pc, command, found, mode, status, commands, crashes,
                    before, expected, alone>>
    BY <1>6 DEF Write
  <2> QED BY <1>t, <2>2, <2>3, <2>4 DEF TypeOK
<1>7. ASSUME NEW k \in Kernels, Close(k) PROVE TypeOK'
  <2> DEFINE text == Text(command[k].n, command[k].blocks)
  <2>1. text \in Seq(Blocks \cup {Hole}) /\ expected \in Seq(Blocks \cup {Hole})
    BY <1>t, TextType DEF TypeOK
  <2>2. Promised(k) \in {expected \o text, text}
    BY DEF Promised
  <2> HIDE DEF text
  <2>3. expected \o text \in Seq(Blocks \cup {Hole})
    BY <2>1
  <2>4. expected' \in Seq(Blocks \cup {Hole})
    BY <1>7, <2>1, <2>2, <2>3 DEF Close
  <2> QED BY <1>7, <1>t, <2>4 DEF Close, Reply, TypeOK
<1>8. ASSUME NEW k \in Kernels, Crash(k) PROVE TypeOK'
  <2>1. crashes' \in Nat /\ alone' \in BOOLEAN
    <3>1. crashes' \in Nat
      BY <1>8, <1>t DEF Crash, TypeOK
    <3>2. alone' \in BOOLEAN
      BY <1>8 DEF Crash
    <3> QED BY <3>1, <3>2
  <2>2. pc' = [pc EXCEPT ![k] = "idle"] /\ status' = [status EXCEPT ![k] = "none"]
    BY <1>8 DEF Crash
  <2>3. UNCHANGED <<fileVars, command, streamVars, commands, before, expected>>
    BY <1>8 DEF Crash
  <2> QED BY <1>t, <2>1, <2>2, <2>3 DEF TypeOK
<1>9. ASSUME UNCHANGED vars PROVE TypeOK'
  BY <1>9, <1>t DEF vars, TypeOK
<1> QED BY <1>1, <1>2, <1>3, <1>4, <1>5, <1>6, <1>7, <1>8, <1>9 DEF Next, Command

\* What the file holds when a stream has opened it.
LEMMA OpenContent ==
    ASSUME TypeOK, NEW k \in Kernels, Open(k)
    PROVE  /\ file' # NoFile
           /\ \/ OpenMode(k) = "app" /\ Content' = Content
              \/ OpenMode(k) = "trunc" /\ Content' = << >>
<1>e. << >> \in Seq(Blocks \cup {Hole})
  OBVIOUS
<1>1. << >> # NoFile /\ OpenMode(k) \in {"app", "trunc"}
  <2>1. << >> # NoFile
    BY <1>e, NoFileAssumption
  <2>2. OpenMode(k) \in {"app", "trunc"}
    BY DEF OpenMode
  <2> QED BY <2>1, <2>2
<1>2. file' # NoFile
  BY <1>1 DEF Open
<1>3. OpenMode(k) = "trunc" => file' = << >>
  BY DEF Open
<1>4. OpenMode(k) = "app" => file' = (IF file = NoFile THEN << >> ELSE file)
  BY DEF Open
<1> QED BY <1>1, <1>2, <1>3, <1>4 DEF Content

\* Steps that leave commands and text alone.
LEMMA NumberedKept ==
    ASSUME Numbered, UNCHANGED <<fileVars, command, finished>>, commands' >= commands,
           commands \in Nat, commands' \in Nat,
           \A k \in Kernels : before'[k] = before[k] \/ before'[k] = DOMAIN finished,
           \A k \in Kernels : Active(k)' => Active(k),
           \A k \in Kernels : Writing(k)' => Writing(k)
    PROVE  Numbered'
<1> USE DEF fileVars
<1>1. Content' = Content
  BY DEF Content
<1>2. \A k \in Kernels : Active(k)' => /\ command'[k].n \in (1..commands') \ DOMAIN finished'
                                       /\ command'[k].blocks > 0
  BY DEF Numbered
<1>3. \A p \in 1..Len(Content') : Content'[p] # Hole => Content'[p][1] \in 0..commands'
  BY <1>1 DEF Numbered
<1>4. DOMAIN finished' \subseteq 0..commands'
  BY DEF Numbered
<1> QED BY <1>2, <1>3, <1>4 DEF Numbered

\* Every step keeps the numbers.
LEMMA NextNumbered == Known /\ [Next]_vars => Numbered'
<1> SUFFICES ASSUME Known, [Next]_vars PROVE Numbered'
  OBVIOUS
<1> USE DEF fileVars, streamVars, histories
<1>t. TypeOK /\ Numbered /\ commands \in Nat /\ DOMAIN pc = Kernels /\ DOMAIN mode = Kernels
      /\ DOMAIN command = Kernels /\ DOMAIN before = Kernels
  BY DEF Known, TypeOK
<1>1. ASSUME NEW k \in Kernels, UnknownMagic(k) \/ NothingDone(k) PROVE Numbered'
  <2>1. commands' = commands + 1 /\ Unmoved
    BY <1>1 DEF UnknownMagic, NothingDone, Take
  <2> QED BY <1>t, <2>1, NumberedKept DEF Unmoved, Active, Writing
<1>2. ASSUME NEW k \in Kernels, File(k) PROVE Numbered'
  <2>1. PICK append \in BOOLEAN, blocks \in 1..MaxBlocks :
          command' = [command EXCEPT ![k] =
              [n |-> commands', append |-> append, blocks |-> blocks]]
    BY <1>2 DEF File
  <2>2. /\ commands' = commands + 1 /\ pc[k] = "idle" /\ pc' = [pc EXCEPT ![k] = "look"]
        /\ UNCHANGED <<file, mode, finished, before>>
    BY <1>2 DEF File, Take
  <2>3. blocks > 0 /\ Content' = Content
    BY <2>2, BoundsAssumption DEF Content
  <2>4. ASSUME NEW j \in Kernels, Active(j)'
        PROVE  /\ j = k /\ command'[j].n = commands + 1 /\ command'[j].blocks > 0
               \/ /\ j # k /\ Active(j) /\ command'[j] = command[j]
                  /\ command'[j].n \in (1..commands) \ DOMAIN finished
                  /\ command'[j].blocks > 0
    BY <1>t, <2>1, <2>2, <2>3, <2>4 DEF Active, Numbered
  <2>5. \A j \in Kernels : Active(j)' =>
           /\ command'[j].n \in (1..commands') \ DOMAIN finished' /\ command'[j].blocks > 0
    BY <1>t, <2>2, <2>4 DEF Numbered
  <2>6. \A i, j \in Kernels : Active(i)' /\ Active(j)' /\ i # j =>
           command'[i].n # command'[j].n
    BY <1>t, <2>4 DEF Numbered
  <2>7. \A p \in 1..Len(Content') : Content'[p] # Hole => Content'[p][1] \in 0..commands'
    BY <1>t, <2>2, <2>3 DEF Numbered
  <2>8. DOMAIN finished' \subseteq 0..commands'
    BY <1>t, <2>2 DEF Numbered
  <2>9. \A j \in Kernels : Writing(j)' => Writing(j)
    BY <1>t, <2>2 DEF Writing
  <2> QED BY <1>t, <2>2, <2>5, <2>6, <2>7, <2>8, <2>9 DEF Numbered
<1>3. ASSUME NEW k \in Kernels, Look(k) PROVE Numbered'
  <2>1. \A j \in Kernels : before'[j] = before[j] \/ before'[j] = DOMAIN finished
    BY <1>3, <1>t DEF Look
  <2>2. pc[k] = "look" /\ pc' = [pc EXCEPT ![k] = "open"] /\ UNCHANGED mode
    BY <1>3 DEF Look
  <2>3. \A j \in Kernels : (Active(j)' => Active(j)) /\ (Writing(j)' => Writing(j))
    BY <1>t, <2>2 DEF Active, Writing
  <2> QED BY <1>3, <1>t, <2>1, <2>3, NumberedKept DEF Look
<1>4. ASSUME NEW k \in Kernels, Open(k) PROVE Numbered'
  <2>1. file' # NoFile /\ Content' \in {Content, << >>}
    BY <1>4, <1>t, OpenContent
  <2>2. \A j \in Kernels : Active(j)' => Active(j)
    BY <1>4, <1>t DEF Open, Active
  <2>3. UNCHANGED <<command, commands, finished, before>>
    BY <1>4 DEF Open
  <2>4. \A p \in 1..Len(Content') : Content'[p] # Hole => Content'[p][1] \in 0..commands'
    BY <1>t, <2>1, <2>3 DEF Numbered
  <2> QED BY <1>t, <2>1, <2>2, <2>3, <2>4 DEF Numbered
<1>5. ASSUME NEW k \in Kernels, OpenFails(k) PROVE Numbered'
  <2>1. \A j \in Kernels : (Active(j)' => Active(j)) /\ (Writing(j)' => Writing(j))
    BY <1>5, <1>t DEF OpenFails, Active, Writing
  <2> QED BY <1>5, <1>t, <2>1, NumberedKept DEF OpenFails
<1>6. ASSUME NEW k \in Kernels, Write(k) PROVE Numbered'
  <2> DEFINE i == written[k] + 1
             p == IF mode[k] = "app" THEN Len(file) + 1 ELSE i
             b == Block(command[k].n, i)
  <2>1. pc[k] = "write" /\ mode[k] # "failed" /\ UNCHANGED <<pc, mode, command, commands,
                                                             finished, before>>
    BY <1>6 DEF Write
  <2>2. file # NoFile /\ command[k].n \in 0..commands
    BY <1>t, <2>1 DEF Numbered, Writing, Active
  <2>3. file' # NoFile /\ Put(Content, Content', p, b)
    BY <1>6, <1>t, <2>2, WriteType
  <2>4. b[1] = command[k].n
    BY DEF Block
  <2> HIDE DEF p, b
  <2>5. \A q \in 1..Len(Content') : Content'[q] # Hole => Content'[q][1] \in 0..commands'
    BY <1>t, <2>1, <2>2, <2>3, <2>4 DEF Numbered, Put
  <2> QED BY <1>t, <2>1, <2>3, <2>5 DEF Numbered, Active, Writing
<1>7. ASSUME NEW k \in Kernels, Close(k) PROVE Numbered'
  <2>1. /\ pc[k] = "write" /\ pc' = [pc EXCEPT ![k] = "idle"]
        /\ UNCHANGED <<file, mode, command, commands, before>> /\ Content' = Content
    BY <1>7 DEF Close, Content
  <2>2. \/ finished' = finished
        \/ /\ DOMAIN finished' = DOMAIN finished \cup {command[k].n}
           /\ \A n \in DOMAIN finished' :
                 finished'[n] = IF n = command[k].n THEN command[k].blocks ELSE finished[n]
    BY <1>7 DEF Close
  <2>3. command[k].n \in 1..commands /\ command[k].blocks > 0 /\ command[k].blocks \in Nat
    BY <1>t, <2>1 DEF Numbered, Active, TypeOK
  <2>4. ASSUME NEW j \in Kernels, Active(j)'
        PROVE  j # k /\ Active(j) /\ (Writing(j)' => Writing(j))
    BY <1>t, <2>1, <2>4 DEF Active, Writing
  <2>5. \A j \in Kernels : Active(j)' =>
           command'[j].n \in (1..commands') \ DOMAIN finished' /\ command'[j].blocks > 0
    <3> SUFFICES ASSUME NEW j \in Kernels, Active(j)'
                 PROVE  command[j].n \in (1..commands) \ DOMAIN finished'
                        /\ command[j].blocks > 0
      BY <2>1
    <3>1. command[j].n # command[k].n
      BY <1>t, <2>1, <2>4 DEF Numbered, Active
    <3> QED BY <1>t, <2>2, <2>4, <3>1 DEF Numbered
  <2>6. DOMAIN finished' \subseteq 0..commands' /\ DOMAIN finished \subseteq DOMAIN finished'
        /\ \A n \in DOMAIN finished' : finished'[n] \in Nat /\ finished'[n] > 0
    BY <1>t, <2>1, <2>2, <2>3 DEF Numbered
  <2>7. \A j \in Kernels : Writing(j)' => Writing(j)
    BY <1>t, <2>1 DEF Writing
  <2>8. \A i, j \in Kernels : Active(i)' /\ Active(j)' /\ i # j =>
           command'[i].n # command'[j].n
    BY <1>t, <2>1, <2>4 DEF Numbered
  <2>9. \A j \in Kernels : before'[j] \subseteq DOMAIN finished'
    BY <1>t, <2>1, <2>6 DEF Numbered
  <2>10. \A p \in 1..Len(Content') : Content'[p] # Hole => Content'[p][1] \in 0..commands'
    BY <1>t, <2>1 DEF Numbered
  <2> QED BY <1>t, <2>1, <2>5, <2>6, <2>7, <2>8, <2>9, <2>10 DEF Numbered
<1>8. ASSUME NEW k \in Kernels, Crash(k) PROVE Numbered'
  <2>1. \A j \in Kernels : (Active(j)' => Active(j)) /\ (Writing(j)' => Writing(j))
    BY <1>8, <1>t DEF Crash, Active, Writing
  <2> QED BY <1>8, <1>t, <2>1, NumberedKept DEF Crash
<1>9. ASSUME UNCHANGED vars PROVE Numbered'
  BY <1>9, <1>t, NumberedKept DEF vars, Active, Writing
<1> QED BY <1>1, <1>2, <1>3, <1>4, <1>5, <1>6, <1>7, <1>8, <1>9 DEF Next, Command

-----------------------------------------------------------------------------
(* What is written stays.                                                  *)

\* When the kernels start there is at most the cell that was written before.
LEMMA InitKept == Init => Kept
<1> SUFFICES ASSUME Init PROVE Kept
  OBVIOUS
<1>1. ASSUME NEW n \in DOMAIN finished PROVE Whole(Content, n, finished[n])
  <2>1. n = 0 /\ finished[n] = 1 /\ Content = Text(0, 1)
    BY <1>1 DEF Init, Content
  <2>2. /\ Len(Text(0, 1)) = 1 /\ 1 \in 1..1
        /\ \A i \in 1..1 : Text(0, 1)[i] = Block(0, i)
    <3>1. 0 \in Nat /\ 1 \in Nat /\ 1 \in 1..1
      OBVIOUS
    <3> QED BY <3>1, TextType
  <2> HIDE DEF Text
  <2>3. ASSUME NEW p \in 1..Len(Content) PROVE p = 1 /\ Content[p] = Block(0, 1)
    <3>1. Content[1] = Block(0, 1) /\ Len(Content) = 1
      BY <2>1, <2>2
    <3>2. p = 1
      BY <3>1
    <3> QED BY <3>1, <3>2
  <2>4. \A i \in 1..1 : \E p \in 1..Len(Content) : Content[p] = Block(0, i)
    BY <2>1, <2>2
  <2>5. \A p \in 1..Len(Content) : Content[p][2] \in 1..1
    BY <2>3 DEF Block
  <2> QED BY <2>1, <2>3, <2>4, <2>5 DEF Whole
<1>2. \A k \in Kernels : pc[k] = "idle"
  BY DEF Init
<1> QED BY <1>1, <1>2 DEF Kept, AppendKept, NotYet, WrittenKept, LooksKept, Writing

\* Steps that leave the text alone.
LEMMA KeptStill ==
    ASSUME Kept, UNCHANGED <<fileVars, finished, excused, command>>,
           \A k \in Kernels : Writing(k)' =>
               Writing(k) /\ written'[k] = written[k] /\ mode'[k] = mode[k],
           \A k \in Kernels : pc'[k] \in {"look", "open"} => pc[k] \in {"look", "open"},
           \A k \in Kernels : pc'[k] = "open" =>
               pc[k] = "open" /\ found'[k] = found[k] /\ before'[k] = before[k]
    PROVE  Kept'
<1> USE DEF fileVars
<1>1. Content' = Content
  BY DEF Content
<1>2. AppendKept'
  BY <1>1 DEF Kept, AppendKept
<1>3. NotYet'
  BY <1>1 DEF Kept, NotYet
<1>4. WrittenKept'
  BY <1>1 DEF Kept, WrittenKept
<1>5. LooksKept'
  BY DEF Kept, LooksKept
<1> QED BY <1>2, <1>3, <1>4, <1>5 DEF Kept

\* When the file holds nothing, what has been written had to give way.
LEMMA NothingHeld ==
    ASSUME Known, Kept, Content = << >>
    PROVE  DOMAIN finished \subseteq excused
<1> SUFFICES ASSUME NEW n \in DOMAIN finished, n \notin excused PROVE FALSE
  OBVIOUS
<1>1. Whole(Content, n, finished[n]) /\ finished[n] \in Nat /\ finished[n] > 0 /\ n \in Nat
  BY DEF Known, Numbered, Kept, AppendKept, TypeOK
<1>2. \A p \in 1..Len(Content) : ~ IsFrom(Content[p], n)
  OBVIOUS
<1>3. finished[n] = 0
  BY <1>1, <1>2, WholeGone
<1> QED BY <1>1, <1>3

\* A stream that opens the file leaves whole what is not excused.
LEMMA WholeOpened ==
    ASSUME Known, Kept, NEW k \in Kernels, Open(k), NEW n \in Nat, n \notin excused',
           NEW c \in Nat, Whole(Content, n, c)
    PROVE  Whole(Content', n, c)
<1>1. CASE Content' = Content
  BY <1>1
<1>2. CASE OpenMode(k) = "trunc" /\ Content' = << >>
  <2>1. n \notin excused /\ n \notin MayTruncate(k)
    BY <1>2 DEF Open
  <2>2. ~ (command[k].append /\ readable /\ n \in before[k])
    <3> SUFFICES ASSUME command[k].append, readable, n \in before[k] PROVE FALSE
      OBVIOUS
    <3>1. ~ found[k]
      BY <1>2 DEF OpenMode
    <3>2. before[k] \subseteq excused
      BY <3>1 DEF Kept, LooksKept, Open
    <3> QED BY <2>1, <3>2
  <2>3. n \notin Present
    BY <2>1, <2>2 DEF MayTruncate
  <2>4. \A p \in 1..Len(Content) : ~ IsFrom(Content[p], n)
    <3>1. DOMAIN Content = 1..Len(Content)
      BY ContentType DEF Known
    <3> QED BY <2>3, <3>1 DEF Present, IsFrom
  <2>5. c = 0
    BY <2>4, WholeGone
  <2>6. \A p \in 1..Len(Content') : ~ IsFrom(Content'[p], n)
    BY <1>2
  <2> QED BY <2>5, <2>6, WholeNone
<1> QED BY <1>1, <1>2, OpenContent DEF Known

LEMMA OpenKept == ASSUME Known, Kept, NEW k \in Kernels, Open(k) PROVE Kept'
<1>t. TypeOK /\ DOMAIN pc = Kernels /\ DOMAIN mode = Kernels /\ DOMAIN written = Kernels
  BY DEF Known, TypeOK
<1>1. /\ pc[k] = "open" /\ pc' = [pc EXCEPT ![k] = "write"]
      /\ mode' = [mode EXCEPT ![k] = OpenMode(k)] /\ written' = [written EXCEPT ![k] = 0]
      /\ UNCHANGED <<command, found, finished, before, readable>>
      /\ excused \subseteq excused'
  BY DEF Open
<1>2. \/ OpenMode(k) = "app" /\ Content' = Content
      \/ OpenMode(k) = "trunc" /\ Content' = << >>
  BY <1>t, OpenContent
<1>3. AppendKept'
  <2> SUFFICES ASSUME NEW n \in DOMAIN finished, n \notin excused'
               PROVE  Whole(Content', n, finished[n])
    BY <1>1 DEF AppendKept
  <2>1. n \in Nat /\ finished[n] \in Nat
    BY DEF Known, Numbered, TypeOK
  <2>2. Whole(Content, n, finished[n])
    BY <1>1 DEF Kept, AppendKept
  <2> QED BY <2>1, <2>2, WholeOpened
<1>4. NotYet'
  <2> SUFFICES ASSUME NEW j \in Kernels, pc'[j] \in {"look", "open"},
                      NEW p \in 1..Len(Content')
               PROVE  ~ IsFrom(Content'[p], command[j].n)
    BY <1>1 DEF NotYet
  <2>1. pc[j] \in {"look", "open"}
    BY <1>1, <1>t
  <2>2. Content' = Content
    BY <1>2
  <2> QED BY <2>1, <2>2 DEF Kept, NotYet
<1>5. WrittenKept'
  <2> SUFFICES ASSUME NEW j \in Kernels, Writing(j)', command[j].n \notin excused'
               PROVE  /\ Whole(Content', command[j].n, written'[j])
                      /\ mode'[j] = "trunc" => AtPlace(Content', command[j].n)
    BY <1>1 DEF WrittenKept
  <2>1. command[j].n \in Nat /\ written[j] \in Nat /\ 0 \in Nat
    BY <1>t DEF TypeOK
  <2>2. CASE j = k
    <3>1. \A p \in 1..Len(Content) : ~ IsFrom(Content[p], command[k].n)
      BY <1>1 DEF Kept, NotYet
    <3>2. \A p \in 1..Len(Content') : ~ IsFrom(Content'[p], command[k].n)
      BY <1>2, <3>1
    <3>3. written'[k] = 0
      BY <1>1, <1>t
    <3> QED BY <2>2, <3>2, <3>3, WholeNone
  <2>3. CASE j # k
    <3>1. Writing(j) /\ written'[j] = written[j] /\ mode'[j] = mode[j]
      BY <1>1, <1>t, <2>3 DEF Writing
    <3>2. /\ Whole(Content, command[j].n, written[j])
          /\ mode[j] = "trunc" => AtPlace(Content, command[j].n)
      BY <1>1, <3>1 DEF Kept, WrittenKept
    <3>3. Whole(Content', command[j].n, written[j])
      BY <2>1, <3>2, WholeOpened
    <3>4. mode[j] = "trunc" => AtPlace(Content', command[j].n)
      BY <1>2, <3>2 DEF AtPlace
    <3> QED BY <3>1, <3>3, <3>4
  <2> QED BY <2>2, <2>3
<1>6. LooksKept'
  <2> SUFFICES ASSUME NEW j \in Kernels, pc'[j] = "open", ~ found[j], readable
               PROVE  before[j] \subseteq excused'
    BY <1>1 DEF LooksKept
  <2>1. pc[j] = "open"
    BY <1>1, <1>t
  <2> QED BY <1>1, <2>1 DEF Kept, LooksKept
<1> QED BY <1>3, <1>4, <1>5, <1>6 DEF Kept

LEMMA WriteKept == ASSUME Known, Kept, NEW k \in Kernels, Write(k) PROVE Kept'
<1> DEFINE i == written[k] + 1
           p == IF mode[k] = "app" THEN Len(file) + 1 ELSE i
           m == command[k].n
           b == Block(m, i)
<1>t. TypeOK /\ DOMAIN written = Kernels
  BY DEF Known, TypeOK
<1>1. /\ pc[k] = "write" /\ mode[k] # "failed" /\ written' = [written EXCEPT ![k] = i]
      /\ UNCHANGED <<readable, pc, mode, command, found, finished, before>>
      /\ excused \subseteq excused'
      /\ mode[k] = "trunc" /\ p \in DOMAIN file /\ file[p] # Hole => file[p][1] \in excused'
  BY DEF Write
<1>2. Writing(k) /\ file # NoFile
  BY <1>1 DEF Known, Numbered, Writing
<1>3. /\ p \in Nat \ {0} /\ i \in Nat /\ m \in Nat /\ written[k] \in Nat
      /\ Content = file /\ Put(Content, Content', p, b)
  BY <1>2, <1>t, WriteType DEF TypeOK
<1>4. Len(Content) \in Nat /\ DOMAIN Content = 1..Len(Content)
  BY <1>t, ContentType
<1>5. mode[k] = "trunc" \/ mode[k] = "app"
  BY <1>t, <1>1 DEF TypeOK
<1>6. mode[k] = "app" => p = Len(Content) + 1
  BY <1>3
<1>7. mode[k] = "trunc" => p = i
  OBVIOUS
<1>8. IsFrom(b, m) /\ b[1] = m /\ b[2] = i
  BY <1>3, BlockFrom DEF Block
<1> HIDE DEF p, b
<1>9. ASSUME NEW n \in Nat, n # m, NEW c \in Nat, n \notin excused', Whole(Content, n, c)
      PROVE  Whole(Content', n, c)
  <2>1. p \in 1..Len(Content) => ~ IsFrom(Content[p], n)
    <3> SUFFICES ASSUME p \in 1..Len(Content) PROVE ~ IsFrom(Content[p], n)
      OBVIOUS
    <3>1. mode[k] = "trunc"
      BY <1>3, <1>4, <1>5, <1>6
    <3> QED BY <1>1, <1>3, <1>4, <1>9, <3>1 DEF IsFrom
  <2>2. Put(Content, Content', p, Block(m, i))
    BY <1>3 DEF b
  <2> HIDE DEF m, i
  <2> QED BY <1>9, <2>1, <2>2, PutOthers
<1>10. ASSUME NEW n \in Nat, n # m, NEW q \in 1..Len(Content'), IsFrom(Content'[q], n)
       PROVE  q \in 1..Len(Content) /\ Content'[q] = Content[q]
  BY <1>3, <1>8, <1>10 DEF Put, IsFrom
<1>11. \A j \in Kernels : j # k /\ Active(j) => command[j].n # m /\ command[j].n \in Nat
  BY <1>t, <1>1 DEF Known, Numbered, Active, TypeOK
<1>12. AppendKept'
  <2> SUFFICES ASSUME NEW n \in DOMAIN finished, n \notin excused'
               PROVE  Whole(Content', n, finished[n])
    BY <1>1 DEF AppendKept
  <2>1. n \in Nat /\ finished[n] \in Nat /\ n # m
    BY <1>1 DEF Known, Numbered, TypeOK, Active
  <2>2. Whole(Content, n, finished[n])
    BY <1>1 DEF Kept, AppendKept
  <2> QED BY <1>9, <2>1, <2>2
<1>13. NotYet'
  <2> SUFFICES ASSUME NEW j \in Kernels, pc[j] \in {"look", "open"},
                      NEW q \in 1..Len(Content'), IsFrom(Content'[q], command[j].n)
               PROVE  FALSE
    BY <1>1 DEF NotYet
  <2>1. command[j].n # m /\ command[j].n \in Nat
    BY <1>1, <1>11 DEF Active
  <2>2. q \in 1..Len(Content) /\ Content'[q] = Content[q]
    BY <1>10, <2>1
  <2> QED BY <2>2 DEF Kept, NotYet
<1>14. WrittenKept'
  <2> SUFFICES ASSUME NEW j \in Kernels, Writing(j), command[j].n \notin excused'
               PROVE  /\ Whole(Content', command[j].n, written'[j])
                      /\ mode[j] = "trunc" => AtPlace(Content', command[j].n)
    BY <1>1 DEF WrittenKept, Writing
  <2>1. /\ Whole(Content, command[j].n, written[j])
        /\ mode[j] = "trunc" => AtPlace(Content, command[j].n)
    BY <1>1 DEF Kept, WrittenKept
  <2>2. CASE j = k
    <3>1. written'[k] = i
      BY <1>1, <1>t
    <3>2. ASSUME NEW q \in 1..Len(Content), IsFrom(Content[q], m) PROVE q < p
      <4>1. CASE mode[k] = "app"
        BY <1>4, <1>6, <4>1
      <4>2. CASE mode[k] = "trunc"
        <5>1. Content[q][2] = q
          BY <2>1, <2>2, <3>2, <4>2 DEF AtPlace
        <5>2. Content[q][2] \in 1..written[k]
          BY <2>1, <2>2, <3>2 DEF Whole
        <5> QED BY <1>3, <1>7, <4>2, <5>1, <5>2
      <4> QED BY <1>5, <4>1, <4>2
    <3>3. Whole(Content', m, written[k] + 1)
      <4>1. Put(Content, Content', p, Block(m, written[k] + 1))
        BY <1>3 DEF b
      <4>2. Whole(Content, m, written[k])
        BY <2>1, <2>2
      <4> HIDE DEF m
      <4> QED BY <1>3, <3>2, <4>1, <4>2, PutOwn
    <3>4. ASSUME mode[k] = "trunc", NEW q \in 1..Len(Content'), IsFrom(Content'[q], m)
          PROVE  Content'[q][2] = q
      <4>1. CASE q = p
        BY <1>3, <1>7, <1>8, <3>4, <4>1 DEF Put
      <4>2. CASE q # p
        <5>1. q \in 1..Len(Content) /\ Content'[q] = Content[q]
          BY <1>3, <3>4, <4>2 DEF Put, IsFrom
        <5> QED BY <2>1, <2>2, <3>4, <5>1 DEF AtPlace
      <4> QED BY <4>1, <4>2
    <3> QED BY <2>2, <3>1, <3>3, <3>4 DEF AtPlace
  <2>3. CASE j # k
    <3>1. command[j].n # m /\ command[j].n \in Nat /\ written'[j] = written[j]
          /\ written[j] \in Nat
      BY <1>t, <1>1, <1>11, <2>3 DEF Active, Writing, TypeOK
    <3>2. Whole(Content', command[j].n, written[j])
      BY <1>9, <2>1, <3>1
    <3>3. mode[j] = "trunc" => AtPlace(Content', command[j].n)
      BY <1>10, <2>1, <3>1 DEF AtPlace
    <3> QED BY <3>1, <3>2, <3>3
  <2> QED BY <2>2, <2>3
<1>15. LooksKept'
  BY <1>1 DEF Kept, LooksKept
<1> QED BY <1>12, <1>13, <1>14, <1>15 DEF Kept

LEMMA CloseKept == ASSUME Known, Kept, NEW k \in Kernels, Close(k) PROVE Kept'
<1>t. TypeOK /\ DOMAIN pc = Kernels
  BY DEF Known, TypeOK
<1>1. /\ pc[k] = "write" /\ pc' = [pc EXCEPT ![k] = "idle"]
      /\ UNCHANGED <<file, readable, mode, command, found, written, before, excused>>
      /\ Content' = Content
  BY DEF Close, Content, fileVars, streamVars
<1>2. ASSUME NEW n \in DOMAIN finished', n \notin excused
      PROVE  Whole(Content, n, finished'[n])
  <2>1. CASE n \in DOMAIN finished /\ finished'[n] = finished[n]
    BY <1>2, <2>1 DEF Kept, AppendKept
  <2>2. CASE n = command[k].n /\ finished'[n] = written[k] /\ Writing(k)
    BY <1>2, <2>2 DEF Kept, WrittenKept
  <2>3. CASE finished' = finished
    BY <1>2, <2>1, <2>3
  <2>4. CASE mode[k] # "failed"
    <3>1. /\ written[k] = command[k].blocks /\ Writing(k)
          /\ finished' = [l \in DOMAIN finished \cup {command[k].n} |->
                 IF l = command[k].n THEN command[k].blocks ELSE finished[l]]
      BY <1>1, <2>4 DEF Close, Writing
    <3> QED BY <1>2, <2>1, <2>2, <3>1
  <2> QED BY <2>3, <2>4 DEF Close
<1>3. AppendKept'
  BY <1>1, <1>2 DEF AppendKept
<1>4. \A j \in Kernels : pc'[j] # "idle" => pc'[j] = pc[j]
  BY <1>t, <1>1
<1>5. NotYet'
  BY <1>1, <1>4 DEF Kept, NotYet
<1>6. WrittenKept'
  BY <1>1, <1>4 DEF Kept, WrittenKept, Writing
<1>7. LooksKept'
  BY <1>1, <1>4 DEF Kept, LooksKept
<1> QED BY <1>3, <1>5, <1>6, <1>7 DEF Kept

LEMMA FileKept == ASSUME Known, Kept, NEW k \in Kernels, File(k) PROVE Kept'
<1>t. TypeOK /\ DOMAIN pc = Kernels /\ DOMAIN command = Kernels /\ commands \in Nat
  BY DEF Known, TypeOK
<1>1. /\ pc[k] = "idle" /\ pc' = [pc EXCEPT ![k] = "look"] /\ commands' = commands + 1
      /\ UNCHANGED <<file, readable, mode, found, written, finished, before, excused>>
      /\ Content' = Content
  BY DEF File, Take, Content, fileVars, streamVars
<1>2. command'[k].n = commands + 1 /\ \A j \in Kernels : j # k => command'[j] = command[j]
  BY <1>t, <1>1 DEF File
<1>3. \A j \in Kernels : j # k => pc'[j] = pc[j]
  BY <1>t, <1>1
<1>4. AppendKept'
  BY <1>1 DEF Kept, AppendKept
<1>5. NotYet'
  <2> SUFFICES ASSUME NEW j \in Kernels, pc'[j] \in {"look", "open"},
                      NEW p \in 1..Len(Content)
               PROVE  ~ IsFrom(Content[p], command'[j].n)
    BY <1>1 DEF NotYet
  <2>1. CASE j = k
    <3>1. Content[p] # Hole => Content[p][1] \in 0..commands
      BY DEF Known, Numbered
    <3> QED BY <1>t, <1>2, <2>1, <3>1 DEF IsFrom
  <2>2. CASE j # k
    BY <1>2, <1>3, <2>2 DEF Kept, NotYet
  <2> QED BY <2>1, <2>2
<1>6. pc'[k] = "look"
  BY <1>t, <1>1
<1>7. WrittenKept'
  <2> SUFFICES ASSUME NEW j \in Kernels, Writing(j)', command'[j].n \notin excused
               PROVE  /\ Whole(Content, command'[j].n, written[j])
                      /\ mode[j] = "trunc" => AtPlace(Content, command'[j].n)
    BY <1>1 DEF WrittenKept
  <2>1. j # k
    BY <1>6 DEF Writing
  <2>2. Writing(j) /\ command'[j] = command[j]
    BY <1>1, <1>2, <1>3, <2>1 DEF Writing
  <2> QED BY <2>2 DEF Kept, WrittenKept
<1>8. LooksKept'
  BY <1>1, <1>3, <1>6 DEF Kept, LooksKept
<1> QED BY <1>4, <1>5, <1>7, <1>8 DEF Kept

LEMMA LookKept == ASSUME Known, Kept, NEW k \in Kernels, Look(k) PROVE Kept'
<1>t. TypeOK /\ DOMAIN pc = Kernels /\ DOMAIN found = Kernels /\ DOMAIN before = Kernels
  BY DEF Known, TypeOK
<1>1. /\ pc[k] = "look" /\ pc' = [pc EXCEPT ![k] = "open"]
      /\ found' = [found EXCEPT ![k] = is_file_exist]
      /\ before' = [before EXCEPT ![k] = DOMAIN finished]
      /\ UNCHANGED <<file, readable, mode, written, finished, excused, command>>
      /\ Content' = Content
  BY DEF Look, Content, fileVars
<1>2. AppendKept'
  BY <1>1 DEF Kept, AppendKept
<1>3. \A j \in Kernels : pc'[j] \in {"look", "open"} => pc[j] \in {"look", "open"}
  BY <1>t, <1>1
<1>4. NotYet'
  BY <1>1, <1>3 DEF Kept, NotYet
<1>5. \A j \in Kernels : Writing(j)' => Writing(j)
  BY <1>t, <1>1 DEF Writing
<1>6. WrittenKept'
  BY <1>1, <1>5 DEF Kept, WrittenKept
<1>7. LooksKept'
  <2> SUFFICES ASSUME NEW j \in Kernels, pc'[j] = "open", ~ found'[j], readable
               PROVE  before'[j] \subseteq excused
    BY <1>1 DEF LooksKept
  <2>1. CASE j = k
    <3>1. file = NoFile
      BY <1>t, <1>1, <2>1 DEF is_file_exist
    <3>2. DOMAIN finished \subseteq excused
      BY <3>1, NothingHeld DEF Content
    <3> QED BY <1>t, <1>1, <2>1, <3>2
  <2>2. CASE j # k
    BY <1>t, <1>1, <2>2 DEF Kept, LooksKept
  <2> QED BY <2>1, <2>2
<1> QED BY <1>2, <1>4, <1>6, <1>7 DEF Kept

\* Every step keeps what is written.
LEMMA NextKept == Known /\ Kept /\ [Next]_vars => Kept'
<1> SUFFICES ASSUME Known, Kept, [Next]_vars PROVE Kept'
  OBVIOUS
<1> USE DEF fileVars, streamVars, histories
<1>t. DOMAIN pc = Kernels /\ DOMAIN mode = Kernels /\ DOMAIN written = Kernels
  BY DEF Known, TypeOK
<1>1. ASSUME NEW k \in Kernels, UnknownMagic(k) \/ NothingDone(k) PROVE Kept'
  <2>1. Unmoved
    BY <1>1 DEF UnknownMagic, NothingDone
  <2> QED BY <2>1, KeptStill DEF Unmoved, Writing
<1>2. ASSUME NEW k \in Kernels, OpenFails(k) PROVE Kept'
  <2>1. /\ pc[k] = "open" /\ pc' = [pc EXCEPT ![k] = "write"]
        /\ mode' = [mode EXCEPT ![k] = "failed"] /\ written' = [written EXCEPT ![k] = 0]
        /\ UNCHANGED <<fileVars, command, found, histories>>
    BY <1>2 DEF OpenFails
  <2>2. \A j \in Kernels : Writing(j)' =>
           Writing(j) /\ written'[j] = written[j] /\ mode'[j] = mode[j]
    BY <1>t, <2>1 DEF Writing
  <2>3. \A j \in Kernels : pc'[j] \in {"look", "open"} => pc'[j] = pc[j]
    BY <1>t, <2>1
  <2> QED BY <2>1, <2>2, <2>3, KeptStill
<1>3. ASSUME NEW k \in Kernels, Crash(k) PROVE Kept'
  <2>1. /\ pc' = [pc EXCEPT ![k] = "idle"]
        /\ UNCHANGED <<fileVars, command, streamVars, finished, before, excused>>
    BY <1>3 DEF Crash
  <2>2. \A j \in Kernels : pc'[j] # "idle" => pc'[j] = pc[j]
    BY <1>t, <2>1
  <2>3. \A j \in Kernels : Writing(j)' => Writing(j)
    BY <2>1, <2>2 DEF Writing
  <2> QED BY <2>1, <2>2, <2>3, KeptStill
<1>4. ASSUME UNCHANGED vars PROVE Kept'
  BY <1>4, KeptStill DEF vars, Writing
<1> QED BY <1>1, <1>2, <1>3, <1>4, FileKept, LookKept, OpenKept, WriteKept, CloseKept
        DEF Next, Command

\* A cell that has been written stays in the file, whole and in order, until a command
\* opens the file without -a, or looked too early, or cannot read it (writefile).
THEOREM CellsKept == Spec => []AppendKept
<1>1. Init => Known /\ Kept
  BY InitKnown, InitKept
<1>2. Known /\ Kept /\ [Next]_vars => Known' /\ Kept'
  BY NextTypeOK, NextNumbered, NextKept DEF Known
<1>3. Kept => AppendKept
  BY DEF Kept
<1> QED BY <1>1, <1>2, <1>3, PTL DEF Spec

-----------------------------------------------------------------------------
(* What the documentation says.                                            *)

\* A block after the text of a command is the next of that text.
LEMMA TextGrows ==
    ASSUME NEW e \in Seq(Blocks \cup {Hole}), NEW n \in Nat, NEW c \in Nat
    PROVE  PutAt(e \o Text(n, c), Len(e) + c + 1, Block(n, c + 1)) = e \o Text(n, c + 1)
<1> DEFINE p == Len(e) + c + 1
           b == Block(n, c + 1)
           s == e \o Text(n, c)
           t == e \o Text(n, c + 1)
           u == PutAt(s, p, b)
<1>1. /\ Text(n, c) \in Seq(Blocks \cup {Hole}) /\ Len(Text(n, c)) = c
      /\ \A i \in 1..c : Text(n, c)[i] = Block(n, i)
  BY TextType
<1>2. /\ Text(n, c + 1) \in Seq(Blocks \cup {Hole}) /\ Len(Text(n, c + 1)) = c + 1
      /\ \A i \in 1..(c + 1) : Text(n, c + 1)[i] = Block(n, i)
  <2>1. c + 1 \in Nat
    OBVIOUS
  <2> HIDE DEF p, b, s, t, u
  <2> QED BY <2>1, TextType
<1>3. /\ Len(e) \in Nat /\ p \in Nat \ {0} /\ b \in Blocks
  BY BlockFrom
<1>4. /\ s \in Seq(Blocks \cup {Hole}) /\ Len(s) = Len(e) + c
      /\ \A q \in 1..Len(s) : s[q] = IF q <= Len(e) THEN e[q] ELSE Block(n, q - Len(e))
  <2> HIDE DEF Text
  <2>1. s \in Seq(Blocks \cup {Hole}) /\ Len(s) = Len(e) + c
    BY <1>1
  <2>2. ASSUME NEW q \in 1..Len(s)
        PROVE  s[q] = IF q <= Len(e) THEN e[q] ELSE Block(n, q - Len(e))
    <3>1. s[q] = IF q <= Len(e) THEN e[q] ELSE Text(n, c)[q - Len(e)]
      BY <1>1, <2>1, <2>2
    <3>2. q > Len(e) => q - Len(e) \in 1..c
      BY <1>3, <2>1, <2>2
    <3>3. q > Len(e) => Text(n, c)[q - Len(e)] = Block(n, q - Len(e))
      BY <1>1, <3>2
    <3> QED BY <1>3, <3>1, <3>3
  <2> QED BY <2>1, <2>2
<1>5. /\ t \in Seq(Blocks \cup {Hole}) /\ Len(t) = p
      /\ \A q \in 1..p : t[q] = IF q <= Len(e) THEN e[q] ELSE Block(n, q - Len(e))
  <2> HIDE DEF Text
  <2>1. t \in Seq(Blocks \cup {Hole}) /\ Len(t) = p
    BY <1>2
  <2>2. ASSUME NEW q \in 1..p
        PROVE  t[q] = IF q <= Len(e) THEN e[q] ELSE Block(n, q - Len(e))
    <3>1. t[q] = IF q <= Len(e) THEN e[q] ELSE Text(n, c + 1)[q - Len(e)]
      BY <1>2, <2>1, <2>2
    <3>2. q > Len(e) => q - Len(e) \in 1..(c + 1)
      BY <1>3, <2>2
    <3>3. q > Len(e) => Text(n, c + 1)[q - Len(e)] = Block(n, q - Len(e))
      BY <1>2, <3>2
    <3>4. Len(e) \in Int /\ q \in Int
      BY <1>3
    <3> HIDE DEF t, p
    <3>5. CASE q <= Len(e)
      BY <3>1, <3>5
    <3>6. CASE q > Len(e)
      BY <3>1, <3>3, <3>4, <3>6
    <3> QED BY <3>4, <3>5, <3>6
  <2> QED BY <2>1, <2>2
<1>6. u \in Seq(Blocks \cup {Hole}) /\ Put(s, u, p, b)
  <2> HIDE DEF s, p, b
  <2> QED BY <1>3, <1>4, PutAtPuts
<1>7. p = Len(s) + 1
  BY <1>4
<1>8. Len(u) = p
  <2>1. DOMAIN u = 1..p
    <3> HIDE DEF s
    <3>1. p > Len(s)
      BY <1>3, <1>4, <1>7
    <3> QED BY <3>1 DEF PutAt
  <2> QED BY <1>3, <1>6, <2>1, LenProperties
<1>9. ASSUME NEW q \in 1..p PROVE u[q] = t[q]
  <2>1. CASE q = p
    <3>1. u[q] = b
      BY <1>6, <2>1 DEF Put
    <3>2. q - Len(e) = c + 1 /\ ~ (q <= Len(e))
      BY <1>3, <2>1
    <3> QED BY <1>5, <1>9, <3>1, <3>2
  <2>2. CASE q # p
    <3>1. q \in 1..Len(s)
      BY <1>3, <1>4, <1>7, <1>9, <2>2
    <3>2. u[q] = s[q]
      BY <1>6, <2>2, <3>1 DEF Put
    <3> QED BY <1>4, <1>5, <1>9, <3>1, <3>2
  <2> QED BY <2>1, <2>2
<1>10. u = t
  <2> HIDE DEF u, t, p, s, b
  <2> QED BY <1>5, <1>6, <1>8, <1>9, SeqEqual
<1> QED BY <1>10 DEF u, t, p, s, b

LEMMA InitDocumented == Init => Documented
BY DEF Init, Documented, Active, Writing

\* The kernel that steps is the only one that executes a command.
LEMMA OnlyOne ==
    ASSUME Documented, alone, NEW k \in Kernels, Active(k)
    PROVE  \A j \in Kernels : j # k => pc[j] = "idle"
BY DEF Documented, Active

\* Steps that leave the file alone, of kernels that have not opened it.
LEMMA DocumentedStill ==
    ASSUME Documented, alone' => alone, UNCHANGED <<fileVars, expected>>,
           alone' => \A j, k \in Kernels : Active(j)' /\ Active(k)' => j = k,
           alone' => \A k \in Kernels : ~ Writing(k) /\ ~ Writing(k)',
           alone' => \A k \in Kernels : pc'[k] = "open" => found'[k] = is_file_exist
    PROVE  Documented'
<1> USE DEF fileVars
<1>1. Content' = Content /\ is_file_exist' = is_file_exist
  BY DEF Content, is_file_exist
<1> QED BY <1>1 DEF Documented

LEMMA OpenDocumented == ASSUME Known, Documented, NEW k \in Kernels, Open(k) PROVE Documented'
<1> SUFFICES ASSUME alone PROVE Documented'
  BY DEF Open, Documented
<1>t. /\ TypeOK /\ DOMAIN pc = Kernels /\ DOMAIN mode = Kernels /\ DOMAIN written = Kernels
      /\ command[k].n \in Nat /\ expected \in Seq(Blocks \cup {Hole})
  BY DEF Known, TypeOK
<1>1. /\ pc[k] = "open" /\ pc' = [pc EXCEPT ![k] = "write"]
      /\ mode' = [mode EXCEPT ![k] = OpenMode(k)] /\ written' = [written EXCEPT ![k] = 0]
      /\ UNCHANGED <<command, expected, readable>>
  BY DEF Open
<1>2. \/ OpenMode(k) = "app" /\ Content' = Content
      \/ OpenMode(k) = "trunc" /\ Content' = << >>
  BY <1>t, OpenContent
<1>3. \A j \in Kernels : j # k => pc[j] = "idle"
  BY <1>1, OnlyOne DEF Active
<1>4. (readable => Content = expected) /\ found[k] = is_file_exist
  BY <1>1, <1>3 DEF Documented, Writing
<1>5. \A j \in Kernels : j # k => pc'[j] = "idle"
  BY <1>t, <1>1, <1>3
<1>6. pc'[k] = "write" /\ mode'[k] = OpenMode(k) /\ written'[k] = 0
  BY <1>t, <1>1
<1>7. Writing(k)'
  BY <1>6 DEF Writing, OpenMode
<1>8. Text(command[k].n, 0) = << >>
  BY DEF Text
<1>9. OpenMode(k) = "trunc" /\ command[k].append /\ readable' => expected = << >>
  <2> SUFFICES ASSUME OpenMode(k) = "trunc", command[k].append, readable'
               PROVE  expected = << >>
    OBVIOUS
  <2>1. file = NoFile /\ readable
    BY <1>1, <1>4 DEF OpenMode, is_file_exist
  <2> QED BY <1>4, <2>1 DEF Content
<1>10. OpenMode(k) = "app" => command[k].append /\ readable'
  BY <1>1, <1>4 DEF OpenMode, is_file_exist
<1>11. expected \o << >> = expected
  BY <1>t
<1>12. mode'[k] = "trunc" =>
          /\ Content' = Text(command[k].n, 0)
          /\ command[k].append /\ readable' => expected = << >>
  <2> HIDE DEF Text
  <2> QED BY <1>2, <1>6, <1>8, <1>9
<1>13. mode'[k] = "app" =>
          /\ Content' = expected \o Text(command[k].n, 0)
          /\ command[k].append /\ readable'
  <2> HIDE DEF Text
  <2>1. OpenMode(k) = "app" => readable
    BY <1>1, <1>10
  <2> QED BY <1>2, <1>4, <1>6, <1>8, <1>10, <1>11, <2>1
<1> QED BY <1>1, <1>5, <1>6, <1>7, <1>12, <1>13 DEF Documented, Active, Writing

LEMMA WriteDocumented == ASSUME Known, Documented, NEW k \in Kernels, Write(k) PROVE Documented'
<1> SUFFICES ASSUME alone PROVE Documented'
  BY DEF Write, Documented
<1> DEFINE w == written[k]
           n == command[k].n
           p == IF mode[k] = "app" THEN Len(file) + 1 ELSE w + 1
<1>t. /\ TypeOK /\ DOMAIN written = Kernels /\ n \in Nat /\ w \in Nat
      /\ expected \in Seq(Blocks \cup {Hole})
  BY DEF Known, TypeOK
<1>1. /\ pc[k] = "write" /\ mode[k] # "failed" /\ written' = [written EXCEPT ![k] = w + 1]
      /\ UNCHANGED <<readable, pc, mode, command, found, expected>>
  BY DEF Write
<1>2. Writing(k) /\ file # NoFile
  BY <1>1 DEF Known, Numbered, Writing
<1>3. Content = file /\ Content' = PutAt(Content, p, Block(n, w + 1))
  BY <1>2, <1>t, WriteType
<1>4. \A j \in Kernels : j # k => pc[j] = "idle"
  BY <1>1, OnlyOne DEF Active
<1>5. written'[k] = w + 1
  BY <1>t, <1>1
<1>6. Len(Text(n, w)) = w /\ Text(n, w) \in Seq(Blocks \cup {Hole})
  BY <1>t, TextType
<1>7. mode[k] = "trunc" =>
          /\ Content' = Text(n, w + 1)
          /\ command[k].append /\ readable => expected = << >>
  <2> SUFFICES ASSUME mode[k] = "trunc"
               PROVE  /\ Content' = Text(n, w + 1)
                      /\ command[k].append /\ readable => expected = << >>
    OBVIOUS
  <2>1. Content = Text(n, w) /\ (command[k].append /\ readable => expected = << >>)
    BY <1>2 DEF Documented
  <2>2. << >> \in Seq(Blocks \cup {Hole}) /\ p = w + 1
    OBVIOUS
  <2>3. Text(n, w + 1) \in Seq(Blocks \cup {Hole})
    <3>1. w + 1 \in Nat
      BY <1>t
    <3> HIDE DEF w, n
    <3> QED BY <1>t, <3>1, TextType
  <2>4. << >> \o Text(n, w) = Text(n, w) /\ << >> \o Text(n, w + 1) = Text(n, w + 1)
    <3> HIDE DEF Text, w, n
    <3> QED BY <1>6, <2>3
  <2>5. PutAt(<< >> \o Text(n, w), Len(<< >>) + w + 1, Block(n, w + 1))
            = << >> \o Text(n, w + 1)
    <3> HIDE DEF w, n
    <3> QED BY <1>t, <2>2, TextGrows
  <2>6. Len(<< >>) + w + 1 = w + 1
    BY <1>t
  <2> HIDE DEF w, n, p
  <2> QED BY <1>3, <2>1, <2>2, <2>4, <2>5, <2>6
<1>8. mode[k] = "app" =>
          /\ Content' = expected \o Text(n, w + 1)
          /\ command[k].append /\ readable
  <2> SUFFICES ASSUME mode[k] = "app"
               PROVE  /\ Content' = expected \o Text(n, w + 1)
                      /\ command[k].append /\ readable
    OBVIOUS
  <2>1. Content = expected \o Text(n, w) /\ command[k].append /\ readable
    BY <1>2 DEF Documented
  <2>2. p = Len(Content) + 1
    BY <1>3
  <2>3. Len(expected \o Text(n, w)) = Len(expected) + w
    <3> HIDE DEF Text, w, n
    <3> QED BY <1>t, <1>6
  <2> HIDE DEF w, n, p
  <2> QED BY <1>3, <1>t, <2>1, <2>2, <2>3, TextGrows
<1> QED BY <1>1, <1>2, <1>4, <1>5, <1>7, <1>8 DEF Documented, Active, Writing

LEMMA CloseDocumented == ASSUME Known, Documented, NEW k \in Kernels, Close(k) PROVE Documented'
<1> SUFFICES ASSUME alone PROVE Documented'
  BY DEF Close, Documented, histories
<1> DEFINE text == Text(command[k].n, command[k].blocks)
<1>t. /\ TypeOK /\ DOMAIN pc = Kernels
      /\ text \in Seq(Blocks \cup {Hole}) /\ expected \in Seq(Blocks \cup {Hole})
  BY TextType DEF Known, TypeOK
<1>1. /\ pc[k] = "write" /\ pc' = [pc EXCEPT ![k] = "idle"]
      /\ mode[k] = "failed" \/ written[k] = command[k].blocks
      /\ expected' = IF mode[k] = "failed" THEN expected ELSE Promised(k)
      /\ Content' = Content /\ readable' = readable
  BY DEF Close, Content, fileVars
<1>2. \A j \in Kernels : j # k => pc[j] = "idle"
  BY <1>1, OnlyOne DEF Active
<1>3. \A j \in Kernels : pc'[j] = "idle"
  BY <1>t, <1>1, <1>2
<1>4. readable => Content = expected'
  <2> SUFFICES ASSUME readable PROVE Content = expected'
    OBVIOUS
  <2>1. CASE mode[k] = "failed"
    BY <1>1, <1>2, <2>1 DEF Documented, Writing
  <2>2. CASE mode[k] = "trunc"
    <3>1. Content = text /\ (command[k].append /\ readable => expected = << >>)
      BY <1>1, <2>2 DEF Documented, Writing
    <3>2. expected' = IF command[k].append THEN expected \o text ELSE text
      BY <1>1, <2>2 DEF Promised
    <3> HIDE DEF text
    <3>3. << >> \o text = text
      BY <1>t
    <3> QED BY <3>1, <3>2, <3>3
  <2>3. CASE mode[k] = "app"
    <3>1. Content = expected \o text /\ command[k].append /\ readable
      BY <1>1, <2>3 DEF Documented, Writing
    <3>2. expected' = IF command[k].append THEN expected \o text ELSE text
      BY <1>1, <2>3 DEF Promised
    <3> QED BY <3>1, <3>2
  <2> QED BY <1>t, <2>1, <2>2, <2>3 DEF TypeOK
<1> QED BY <1>1, <1>3, <1>4 DEF Documented, Active, Writing

\* Every step does what the documentation says, if the commands run one by one.
LEMMA NextDocumented == Known /\ Documented /\ [Next]_vars => Documented'
<1> SUFFICES ASSUME Known, Documented, [Next]_vars PROVE Documented'
  OBVIOUS
<1> USE DEF fileVars, streamVars, histories
<1>t. DOMAIN pc = Kernels /\ DOMAIN mode = Kernels /\ DOMAIN found = Kernels
  BY DEF Known, TypeOK
<1>1. ASSUME UNCHANGED <<fileVars, pc, command, streamVars, histories>> PROVE Documented'
  BY <1>1 DEF Documented, Active, Writing, Content, is_file_exist
<1>2. ASSUME NEW k \in Kernels, File(k) PROVE Documented'
  <2>1. /\ pc[k] = "idle" /\ pc' = [pc EXCEPT ![k] = "look"]
        /\ alone' = (alone /\ \A j \in Kernels : pc[j] = "idle")
        /\ UNCHANGED <<fileVars, expected>>
    BY <1>2 DEF File, Take
  <2>2. alone' => alone /\ \A j \in Kernels : pc[j] = "idle"
    BY <2>1
  <2>3. alone' => pc'[k] = "look" /\ \A j \in Kernels : j # k => pc'[j] = "idle"
    BY <1>t, <2>1, <2>2
  <2> QED BY <2>1, <2>2, <2>3, DocumentedStill DEF Active, Writing
<1>3. ASSUME NEW k \in Kernels, Look(k) PROVE Documented'
  <2>1. /\ pc[k] = "look" /\ pc' = [pc EXCEPT ![k] = "open"]
        /\ found' = [found EXCEPT ![k] = is_file_exist]
        /\ UNCHANGED <<fileVars, expected, alone>>
    BY <1>3 DEF Look
  <2>2. alone => \A j \in Kernels : j # k => pc[j] = "idle"
    BY <2>1, OnlyOne DEF Active
  <2>3. alone => pc'[k] = "open" /\ \A j \in Kernels : j # k => pc'[j] = "idle"
    BY <1>t, <2>1, <2>2
  <2>4. found'[k] = is_file_exist
    BY <1>t, <2>1
  <2> QED BY <2>1, <2>2, <2>3, <2>4, DocumentedStill DEF Active, Writing
<1>4. ASSUME NEW k \in Kernels, OpenFails(k) PROVE Documented'
  <2>1. /\ pc[k] = "open" /\ pc' = [pc EXCEPT ![k] = "write"]
        /\ mode' = [mode EXCEPT ![k] = "failed"]
        /\ UNCHANGED <<fileVars, expected, alone>>
    BY <1>4 DEF OpenFails
  <2>2. alone => \A j \in Kernels : j # k => pc[j] = "idle"
    BY <2>1, OnlyOne DEF Active
  <2>3. /\ pc'[k] = "write" /\ mode'[k] = "failed"
        /\ alone => \A j \in Kernels : j # k => pc'[j] = "idle"
    BY <1>t, <2>1, <2>2
  <2> QED BY <2>1, <2>2, <2>3, DocumentedStill DEF Active, Writing
<1>5. ASSUME NEW k \in Kernels, Crash(k) PROVE Documented'
  BY <1>5 DEF Crash, Documented
<1>6. ASSUME NEW k \in Kernels, UnknownMagic(k) \/ NothingDone(k) PROVE Documented'
  BY <1>1, <1>6 DEF UnknownMagic, NothingDone, Unmoved
<1>7. ASSUME UNCHANGED vars PROVE Documented'
  BY <1>1, <1>7 DEF vars
<1> QED BY <1>2, <1>3, <1>4, <1>5, <1>6, <1>7, OpenDocumented, WriteDocumented,
           CloseDocumented DEF Next, Command

\* In a file that the kernels may read, commands that run one after the other leave what
\* the documentation says, if they can open it: -a adds the cell to what the file held,
\* and otherwise the file is the cell (writefile).
THEOREM DocumentedWhenAlone == Spec => []FileAsDocumented
<1>1. Init => Known /\ Documented
  BY InitKnown, InitDocumented
<1>2. Known /\ Documented /\ [Next]_vars => Known' /\ Documented'
  BY NextTypeOK, NextNumbered, NextDocumented DEF Known
<1>3. Documented => FileAsDocumented
  BY DEF Documented, FileAsDocumented, InTurn, Writing
<1> QED BY <1>1, <1>2, <1>3, PTL DEF Spec
=============================================================================
