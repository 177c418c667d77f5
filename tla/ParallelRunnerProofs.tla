------------------------- MODULE ParallelRunnerProofs -------------------------
(***************************************************************************)
(* parallel-runner prints every child once, for every number of commands,  *)
(* every length of its arrays and every size of pipe and buffer.           *)
(***************************************************************************)
EXTENDS ParallelRunner, FiniteSetTheorems, TLAPS

Started(j) == child[j] # "none"
Reaped == {j \in Cmds : child[j] = "reaped"}
AllGone == \A j \in Cmds : child[j] \notin {"running", "zombie"}

(* Output j was printed once, whole or as much as one read() takes.        *)
Once(j) ==
  \E a \in DOMAIN printed :
    /\ \A b \in DOMAIN printed : printed[b].idx = j <=> a = b
    /\ pipe[j] = 0 \/ printed[a].n = BUFFER
Never(j) == \A b \in DOMAIN printed : printed[b].idx # j

(* main has waited for j and not read its pipe yet, or not even waited.    *)
Unread(j) == child[j] # "reaped" \/ (pc = "read" /\ found = j)

(* The loops stay inside their bounds.                                     *)
LoopsBounded ==
  /\ pc = "close" => i < N /\ i < MAX
  /\ pc = "read" => i < N /\ found \in Table /\ found \in Cmds

(* The first loop has not come to the commands from i on.                  *)
NotYetForked ==
  /\ pc \in {"fork", "close"} =>
       /\ Reaped = {} /\ printed = <<>>
       /\ \A j \in Cmds : j > i \/ (j = i /\ pc = "fork") => ~Started(j)

(* pids tells the children apart: the scan finds a child at its own index. *)
PidsDistinct ==
  /\ \A j \in Table : pids[j] \in {0, -1, j + 1}
  /\ \A j \in Cmds : Started(j) => j \in Table /\ pids[j] = j + 1
  /\ \A j \in Cmds \cap Table : ~Started(j) => pids[j] # j + 1

(* The output of a started child is printed when its pipe is read.         *)
PrintedOnce ==
  \A j \in Cmds : Started(j) => IF Unread(j) THEN Never(j) /\ j \in readEnd ELSE Once(j)

(* main waits as often as it has reaped a child until all are gone.        *)
WaitsCounted ==
  pc \in {"wait", "read", "exited"} =>
    AllGone \/ Cardinality(Reaped) = i + (IF pc = "read" THEN 1 ELSE 0)

(* The child main reads for has ended, or was never started.              *)
FoundEnded == pc = "read" => child[found] \in {"none", "reaped"}

ExitedAtN == pc = "exited" => i = N

IInv ==
  /\ TypeOK /\ LoopsBounded /\ NotYetForked /\ PidsDistinct /\ PrintedOnce /\ WaitsCounted
  /\ FoundEnded /\ ExitedAtN

(* The set of reaped commands is finite.                                   *)
LEMMA ReapedFinite ==
  /\ IsFiniteSet(Cmds) /\ Cardinality(Cmds) = N
  /\ IsFiniteSet(Reaped) /\ Cardinality(Reaped) \in Nat
<1>1. IsFiniteSet(Cmds) /\ Cardinality(Cmds) = N
  <2>1. 0 \in Int /\ N - 1 \in Int /\ ~(0 > N - 1) /\ (N - 1) - 0 + 1 = N
    BY ConstantsAssumption
  <2> QED  BY <2>1, FS_Interval DEF Cmds
<1>2. Reaped \in SUBSET Cmds
  BY DEF Reaped
<1> QED  BY <1>1, <1>2, FS_Subset, FS_CardinalityType

(* The invariant holds when main starts.                                   *)
LEMMA InitIInv == Init => IInv
<1> SUFFICES ASSUME Init PROVE IInv  OBVIOUS
<1> USE ConstantsAssumption
<1>1. TypeOK
  BY DEF Init, TypeOK, Cmds, Table
<1>2. LoopsBounded /\ NotYetForked /\ PidsDistinct /\ PrintedOnce /\ WaitsCounted /\ FoundEnded /\ ExitedAtN
  BY DEF Init, FoundEnded, LoopsBounded, NotYetForked, PidsDistinct, PrintedOnce, WaitsCounted, ExitedAtN,
     Started, Reaped, Cmds, Table
<1> QED  BY <1>1, <1>2 DEF IInv

(* What the scan over pids finds: a child at its own index, and for -1 a   *)
(* command that was not started.                                           *)
LEMMA ScanFinds ==
  ASSUME IInv
  PROVE  /\ \A j \in Cmds : Started(j) => Scan(j + 1) = {j}
         /\ \A m \in Scan(-1) : m \in Table => m \in Cmds /\ ~Started(m)
         /\ \A p \in -1..N : Scan(p) \subseteq -1..(N - 1) /\ Scan(p) \cap Table \subseteq Cmds
<1> USE ConstantsAssumption
<1>1. PidsDistinct /\ pids \in [Table -> -1..N] /\ N \in Nat /\ MAX \in Nat
  BY DEF IInv, TypeOK
<1>2. ASSUME NEW j \in Cmds, Started(j) PROVE Scan(j + 1) = {j}
  <2> DEFINE match == {m \in Table : m < N /\ pids[m] = j + 1}
  <2>1. j \in Table /\ j < N /\ pids[j] = j + 1 /\ j \in Int
    BY <1>1, <1>2 DEF PidsDistinct, Cmds
  <2>2. ASSUME NEW m \in Table, pids[m] = j + 1 PROVE m = j
    <3>1. m \in Int /\ pids[m] \in {0, -1, m + 1} /\ j >= 0
      BY <1>1, <2>2 DEF PidsDistinct, Table, Cmds
    <3> QED  BY <2>1, <2>2, <3>1
  <2>3. match = {j}
    BY <2>1, <2>2
  <2>4. {m \in {j} : \A k \in {j} : m <= k} = {j}
    BY <2>1
  <2> QED  BY <2>3, <2>4 DEF Scan
<1>3. ASSUME NEW m \in Scan(-1), m \in Table PROVE m \in Cmds /\ ~Started(m)
  <2>1. CASE {j \in Table : j < N /\ pids[j] = -1} # {}
    <3>1. m < N /\ pids[m] = -1
      BY <1>3, <2>1 DEF Scan
    <3> QED  BY <1>1, <1>3, <3>1 DEF PidsDistinct, Cmds, Table
  <2>2. CASE {j \in Table : j < N /\ pids[j] = -1} = {}
    <3>1. m = -1 \/ m >= MAX
      BY <1>3, <2>2 DEF Scan
    <3> QED  BY <1>1, <1>3, <3>1 DEF Table
  <2> QED  BY <2>1, <2>2
<1>4. ASSUME NEW p \in -1..N, NEW m \in Scan(p)
      PROVE  m \in -1..(N - 1) /\ (m \in Table => m \in Cmds)
  BY <1>1, <1>4 DEF Scan, Cmds, Table
<1> QED  BY <1>2, <1>3, <1>4

(* Types and loop bounds.                                                  *)
LEMMA TypeStep ==
  ASSUME IInv, Next PROVE TypeOK' /\ LoopsBounded' /\ ExitedAtN'
<1> USE ConstantsAssumption
<1>1. TypeOK /\ LoopsBounded /\ ExitedAtN /\ N \in Nat /\ MAX \in Nat /\ BUFFER \in Nat /\ Capacity \in Nat
  BY DEF IInv
<1>2. CASE fork
  <2>1. i \in Cmds /\ i \in Table /\ i + 1 \in -1..N /\ -1 \in -1..N /\ i < N /\ i < MAX
    BY <1>1, <1>2 DEF fork, TypeOK, Cmds, Table
  <2>2. pids' \in [Table -> -1..N]
    BY <1>1, <1>2, <2>1 DEF fork, TypeOK
  <2>3. child' \in [Cmds -> {"none", "running", "zombie", "reaped"}]
    BY <1>1, <1>2, <2>1 DEF fork, TypeOK
  <2>4. writers' \in [Cmds -> SUBSET {"main", "child"}]
    BY <1>1, <1>2, <2>1 DEF fork, TypeOK
  <2>5. /\ UNCHANGED <<i, left, pipe, found, printed>> /\ readEnd' \subseteq Cmds
        /\ pc' = "close"
    BY <1>1, <1>2, <2>1 DEF fork, TypeOK
  <2> QED
    BY <1>1, <2>1, <2>2, <2>3, <2>4, <2>5 DEF TypeOK, LoopsBounded, ExitedAtN
<1>3. CASE close
  <2>1. i' \in 0..N /\ i \in Cmds /\ pc' = "fork"
    BY <1>1, <1>3 DEF close, TypeOK, LoopsBounded, Cmds
  <2>2. writers' \in [Cmds -> SUBSET {"main", "child"}]
    BY <1>1, <1>3, <2>1 DEF close, TypeOK
  <2> QED
    BY <1>1, <1>3, <2>1, <2>2 DEF close, TypeOK, LoopsBounded, ExitedAtN
<1>4. CASE forked_all
  BY <1>1, <1>4 DEF forked_all, TypeOK, LoopsBounded, ExitedAtN, kernel
<1>5. CASE waitpid
  <2>1. found' \in -1..(N - 1) /\ (found' \in Table => found' \in Cmds)
    <3>1. PICK p \in -1..N : found' \in Scan(p)
      BY <1>1, <1>5 DEF waitpid, Cmds
    <3> QED  BY <3>1, ScanFinds
  <2>2. child' \in [Cmds -> {"none", "running", "zombie", "reaped"}]
    BY <1>1, <1>5 DEF waitpid, TypeOK
  <2> QED
    BY <1>1, <1>5, <2>1, <2>2 DEF waitpid, TypeOK, LoopsBounded, ExitedAtN
<1>6. CASE read
  <2> DEFINE n == IF found \notin readEnd THEN 0
                  ELSE IF pipe[found] < BUFFER THEN pipe[found] ELSE BUFFER
  <2>1. found \in Cmds /\ i < N /\ pipe[found] \in 0..Capacity
    BY <1>1, <1>6 DEF read, LoopsBounded, TypeOK
  <2>2. n \in 0..BUFFER /\ pipe[found] - n \in 0..Capacity
    BY <1>1, <2>1
  <2> HIDE DEF n
  <2>3. /\ printed' = Append(printed, [idx |-> found, n |-> n])
        /\ pipe' = [pipe EXCEPT ![found] = @ - n]
    BY <1>6 DEF read, n
  <2>4. printed' \in Seq(Output)
    BY <1>1, <2>1, <2>2, <2>3 DEF TypeOK, Output
  <2>5. pipe' \in [Cmds -> 0..Capacity]
    BY <1>1, <2>1, <2>2, <2>3 DEF TypeOK
  <2> QED
    BY <1>1, <1>6, <2>1, <2>4, <2>5, SMTT(30) DEF read, TypeOK, LoopsBounded, ExitedAtN
<1>7. CASE exit
  BY <1>1, <1>7 DEF exit, TypeOK, LoopsBounded, ExitedAtN, kernel
<1>8. ASSUME NEW j \in Cmds, Command(j) PROVE TypeOK' /\ LoopsBounded' /\ ExitedAtN'
  <2>1. left' \in [Cmds -> 0..MaxOut] /\ pipe' \in [Cmds -> 0..Capacity]
    <3>1. left \in [Cmds -> 0..MaxOut] /\ pipe \in [Cmds -> 0..Capacity] /\ MaxOut \in Nat
      BY <1>1 DEF TypeOK
    <3>2. CASE UNCHANGED <<left, pipe>>
      BY <3>1, <3>2
    <3>3. CASE /\ left[j] > 0 /\ pipe[j] < Capacity
               /\ left' = [left EXCEPT ![j] = @ - 1] /\ pipe' = [pipe EXCEPT ![j] = @ + 1]
      <4>1. left[j] - 1 \in 0..MaxOut /\ pipe[j] + 1 \in 0..Capacity
        BY <1>1, <3>1, <3>3
      <4> QED  BY <3>1, <3>3, <4>1
    <3> QED  BY <1>8, <3>2, <3>3 DEF Command
  <2>2. child' \in [Cmds -> {"none", "running", "zombie", "reaped"}]
    BY <1>1, <1>8 DEF Command, TypeOK
  <2>3. writers' \in [Cmds -> SUBSET {"main", "child"}]
    BY <1>1, <1>8 DEF Command, TypeOK
  <2> QED
    BY <1>1, <1>8, <2>1, <2>2, <2>3 DEF Command, TypeOK, LoopsBounded, ExitedAtN
<1>9. CASE Finished
  BY <1>1, <1>9 DEF Finished, vars, TypeOK, LoopsBounded, ExitedAtN
<1> QED
  BY <1>2, <1>3, <1>4, <1>5, <1>6, <1>7, <1>8, <1>9 DEF Next, Main

(* Forking: one child per index, none ahead of the loop.                   *)
LEMMA ForkStep ==
  ASSUME IInv, Next PROVE NotYetForked' /\ PidsDistinct'
<1> USE ConstantsAssumption
<1>1. TypeOK /\ LoopsBounded /\ NotYetForked /\ PidsDistinct /\ N \in Nat /\ MAX \in Nat
  BY DEF IInv
<1>2. CASE fork
  <2>1. /\ i \in Cmds /\ i \in Table /\ i \in Nat /\ i' = i /\ pc = "fork" /\ pc' = "close"
        /\ child \in [Cmds -> {"none", "running", "zombie", "reaped"}]
        /\ pids \in [Table -> -1..N] /\ Cmds \subseteq Int /\ Table \subseteq Int
    BY <1>1, <1>2, SMTT(30) DEF fork, TypeOK, Cmds, Table
  <2>2. /\ \A j \in Cmds : j # i => child'[j] = child[j]
        /\ \A j \in Table : j # i => pids'[j] = pids[j]
        /\ \/ pids'[i] = i + 1 /\ child'[i] = "running"
           \/ pids'[i] = -1 /\ child'[i] = child[i]
    BY <1>2, <2>1 DEF fork
  <2>3. child[i] = "none" /\ Reaped = {}
    BY <1>1, <2>1 DEF NotYetForked, Started
  <2>4. NotYetForked'
    <3>1. Reaped' = {}
      BY <2>2, <2>3 DEF Reaped
    <3>2. \A j \in Cmds : j > i => ~Started(j)'
      BY <1>1, <2>1, <2>2 DEF NotYetForked, Started
    <3>3. printed' = <<>>
      BY <1>1, <1>2, <2>1 DEF fork, NotYetForked
    <3> QED  BY <2>1, <3>1, <3>2, <3>3 DEF NotYetForked
  <2>5. PidsDistinct'
    <3>1. \A j \in Table : pids'[j] \in {0, -1, j + 1}
      BY <1>1, <2>1, <2>2 DEF PidsDistinct
    <3>2. \A j \in Cmds : Started(j)' => j \in Table /\ pids'[j] = j + 1
      BY <1>1, <2>1, <2>2, <2>3 DEF PidsDistinct, Started
    <3>3. \A j \in Cmds \cap Table : ~Started(j)' => pids'[j] # j + 1
      BY <1>1, <2>1, <2>2, <2>3 DEF PidsDistinct, Started
    <3> QED  BY <3>1, <3>2, <3>3 DEF PidsDistinct
  <2> QED  BY <2>4, <2>5
<1>3. CASE close
  BY <1>1, <1>3, SMTT(30) DEF close, TypeOK, NotYetForked, PidsDistinct, Started, Reaped, Cmds, Table
<1>4. CASE forked_all \/ read \/ exit \/ Finished
  BY <1>1, <1>4 DEF forked_all, read, exit, Finished, vars, kernel, NotYetForked, PidsDistinct,
     Started, Reaped
<1>5. CASE waitpid
  <2>1. pc' \notin {"fork", "close"} /\ pids' = pids /\ \A j \in Cmds : Started(j)' = Started(j)
    BY <1>1, <1>5 DEF waitpid, TypeOK, Started
  <2> QED  BY <1>1, <2>1 DEF NotYetForked, PidsDistinct
<1>6. ASSUME NEW j \in Cmds, Command(j) PROVE NotYetForked' /\ PidsDistinct'
  <2>1. /\ UNCHANGED <<pc, i, pids, printed>> /\ \A k \in Cmds : Started(k)' = Started(k)
        /\ \A k \in Cmds : child'[k] = "reaped" <=> child[k] = "reaped"
    BY <1>1, <1>6 DEF Command, TypeOK, Started
  <2>2. Reaped' = Reaped
    BY <2>1 DEF Reaped
  <2> QED  BY <1>1, <2>1, <2>2 DEF NotYetForked, PidsDistinct
<1> QED
  BY <1>2, <1>3, <1>4, <1>5, <1>6 DEF Next, Main

(* Waiting: each wait reaps one more child until none is left.             *)
LEMMA WaitStep ==
  ASSUME IInv, Next PROVE WaitsCounted'
<1> USE ConstantsAssumption
<1>1. TypeOK /\ NotYetForked /\ WaitsCounted /\ N \in Nat
  BY DEF IInv
<1>2. CASE fork \/ close
  BY <1>2 DEF fork, close, WaitsCounted
<1>3. CASE forked_all
  <2>1. Reaped' = {} /\ i' = 0 /\ pc' = "wait"
    BY <1>1, <1>3 DEF forked_all, kernel, NotYetForked, Reaped
  <2> QED  BY <2>1, FS_EmptySet DEF WaitsCounted
<1>4. CASE waitpid
  <2>1. pc = "wait" /\ i' = i /\ pc' \in {"read", "undefined"} /\ i \in Nat
    BY <1>1, <1>4 DEF waitpid, TypeOK
  <2>2. ASSUME NEW j \in Cmds, child[j] = "zombie", child' = [child EXCEPT ![j] = "reaped"]
        PROVE  WaitsCounted'
    <3>1. ~AllGone
      BY <2>2 DEF AllGone
    <3>2. Reaped' = Reaped \cup {j} /\ j \notin Reaped
      BY <1>1, <2>2 DEF Reaped, TypeOK
    <3>3. Cardinality(Reaped') = Cardinality(Reaped) + 1
      BY <3>2, ReapedFinite, FS_AddElement
    <3>4. Cardinality(Reaped) = i
      BY <1>1, <2>1, <3>1 DEF WaitsCounted
    <3> QED  BY <2>1, <3>3, <3>4 DEF WaitsCounted
  <2>3. CASE AllGone /\ UNCHANGED child
    BY <2>3 DEF WaitsCounted, AllGone
  <2> QED  BY <1>4, <2>2, <2>3 DEF waitpid, AllGone
<1>5. CASE read
  <2>1. /\ pc = "read" /\ pc' = "wait" /\ i' = i + 1 /\ child' = child /\ i \in Nat
    BY <1>1, <1>5 DEF read, TypeOK
  <2>2. Reaped' = Reaped /\ (AllGone <=> AllGone')
    BY <2>1 DEF Reaped, AllGone
  <2> QED  BY <1>1, <2>1, <2>2 DEF WaitsCounted
<1>6. CASE exit \/ Finished
  BY <1>1, <1>6 DEF exit, Finished, vars, kernel, WaitsCounted, Reaped, AllGone
<1>7. ASSUME NEW j \in Cmds, Command(j) PROVE WaitsCounted'
  <2>1. Reaped' = Reaped /\ UNCHANGED <<pc, i>> /\ ~AllGone
    BY <1>1, <1>7 DEF Command, TypeOK, Reaped, AllGone
  <2> QED  BY <1>1, <2>1 DEF WaitsCounted
<1> QED
  BY <1>2, <1>3, <1>4, <1>5, <1>6, <1>7 DEF Next, Main

(* One more line: the commands it is not about keep what they had, the one *)
(* it is about has been printed once if it never was before.               *)
LEMMA OneMoreLine ==
  ASSUME NEW S, NEW p \in Seq(S), NEW e, NEW q, q = Append(p, e)
  PROVE  /\ DOMAIN q = DOMAIN p \cup {Len(p) + 1} /\ Len(p) + 1 \notin DOMAIN p
         /\ q[Len(p) + 1] = e /\ \A b \in DOMAIN p : q[b] = p[b]
<1>1. Len(p) \in Nat /\ DOMAIN p = 1..Len(p)
  OBVIOUS
<1>2. DOMAIN q = 1..(Len(p) + 1)
  OBVIOUS
<1> QED  BY <1>1, <1>2

(* What a command's output depends on: its state, its pipe and what was    *)
(* printed.                                                                *)
LEMMA SameOutput ==
  ASSUME NEW j \in Cmds, UNCHANGED <<printed, child[j]>>, Unread(j)' <=> Unread(j),
         ~Unread(j) => pipe'[j] = pipe[j], readEnd \subseteq readEnd',
         Started(j) => IF Unread(j) THEN Never(j) /\ j \in readEnd ELSE Once(j)
  PROVE  Started(j)' => IF Unread(j)' THEN Never(j)' /\ j \in readEnd' ELSE Once(j)'
<1>1. Started(j)' = Started(j)
  BY DEF Started
<1>2. CASE Started(j) /\ Unread(j)
  BY <1>1, <1>2 DEF Never
<1>3. CASE Started(j) /\ ~Unread(j)
  BY <1>1, <1>3 DEF Once
<1> QED  BY <1>1, <1>2, <1>3

(* Reading: the pipe of the child that was waited for is printed once.     *)
LEMMA PrintStep ==
  ASSUME IInv, Next PROVE PrintedOnce'
<1>1. /\ TypeOK /\ LoopsBounded /\ NotYetForked /\ PrintedOnce /\ FoundEnded
      /\ N \in Nat /\ MAX \in Nat /\ BUFFER \in Nat \ {0} /\ Capacity \in Nat
      /\ child \in [Cmds -> {"none", "running", "zombie", "reaped"}]
      /\ pipe \in [Cmds -> 0..Capacity] /\ printed \in Seq(Output)
  BY ConstantsAssumption DEF IInv, TypeOK
<1> SUFFICES ASSUME NEW j \in Cmds
             PROVE  Started(j)' => IF Unread(j)' THEN Never(j)' /\ j \in readEnd' ELSE Once(j)'
  BY DEF PrintedOnce
<1> DEFINE Good == Started(j) => IF Unread(j) THEN Never(j) /\ j \in readEnd ELSE Once(j)
<1>good. Good
  BY <1>1 DEF PrintedOnce
<1>2. CASE fork
  <2>1. /\ pc = "fork" /\ pc' = "close" /\ i \in Cmds /\ i \in Nat
        /\ UNCHANGED <<pipe, printed, found>> /\ readEnd' = readEnd \cup {i}
    BY <1>1, <1>2 DEF fork, TypeOK, Cmds
  <2>2. CASE j # i
    <3>1. child'[j] = child[j]
      BY <1>1, <1>2, <2>2 DEF fork
    <3>2. Unread(j)' <=> Unread(j)
      BY <2>1, <3>1 DEF Unread
    <3> QED  BY <1>good, <2>1, <3>1, <3>2, SameOutput
  <2>3. CASE j = i
    <3>1. child[j] = "none" /\ printed = <<>>
      BY <1>1, <2>1, <2>3 DEF NotYetForked, Started
    <3>2. child'[j] \in {"none", "running"}
      BY <1>1, <1>2, <2>3, <3>1 DEF fork
    <3>3. Unread(j)' /\ Never(j)'
      BY <2>1, <3>1, <3>2 DEF Unread, Never
    <3> QED  BY <2>1, <2>3, <3>3
  <2> QED  BY <2>2, <2>3
<1>3. CASE close \/ forked_all \/ exit \/ Finished
  <2>1. UNCHANGED <<printed, child, pipe, readEnd, found>> /\ (pc = "read" <=> pc' = "read")
    BY <1>3 DEF close, forked_all, exit, Finished, vars, kernel
  <2>2. Unread(j)' <=> Unread(j)
    BY <2>1 DEF Unread
  <2> QED  BY <1>good, <2>1, <2>2, SameOutput
<1>4. CASE waitpid
  <2>1. pc = "wait" /\ UNCHANGED <<printed, pipe, readEnd>>
    BY <1>4 DEF waitpid
  <2>2. CASE child'[j] = child[j]
    <3>1. (child[j] = "reaped" /\ pc' = "read") => found' # j
      <4>1. ASSUME NEW k \in Cmds, child[k] = "zombie", found' \in Scan(k + 1)
            PROVE  found' = k
        BY <4>1, ScanFinds DEF Started
      <4>2. ASSUME pc' = "read", found' \in Scan(-1) PROVE child[found'] = "none"
        BY <1>4, <4>2, ScanFinds DEF Started, waitpid
      <4> QED  BY <1>4, <2>2, <4>1, <4>2 DEF waitpid
    <3>2. Unread(j)' <=> Unread(j)
      BY <2>1, <2>2, <3>1 DEF Unread
    <3> QED  BY <1>good, <2>1, <2>2, <3>2, SameOutput
  <2>3. CASE child'[j] # child[j]
    <3>1. child[j] = "zombie" /\ found' \in Scan(j + 1)
      BY <1>1, <1>4, <2>3 DEF waitpid
    <3>2. found' = j /\ pc' = "read"
      <4>1. Started(j)
        BY <3>1 DEF Started
      <4>2. j \in Table
        BY <4>1 DEF IInv, PidsDistinct
      <4> QED  BY <1>4, <3>1, <4>1, <4>2, ScanFinds DEF waitpid
    <3>3. Unread(j) /\ Unread(j)' /\ Started(j)
      BY <3>1, <3>2 DEF Unread, Started
    <3>4. Never(j)' /\ j \in readEnd'
      BY <1>good, <2>1, <3>3 DEF Never
    <3> QED  BY <3>3, <3>4
  <2> QED  BY <2>2, <2>3
<1>5. CASE read
  <2> DEFINE n == IF found \notin readEnd THEN 0
                  ELSE IF pipe[found] < BUFFER THEN pipe[found] ELSE BUFFER
             e == [idx |-> found, n |-> n]
             a == Len(printed) + 1
  <2>1. /\ pc = "read" /\ pc' = "wait" /\ child' = child /\ found' = found
        /\ printed' = Append(printed, e) /\ pipe' = [pipe EXCEPT ![found] = @ - n]
        /\ readEnd' = readEnd \ {found} /\ found \in Cmds /\ pipe[found] \in Nat
    BY <1>1, <1>5 DEF read, LoopsBounded
  <2>2. e.idx = found /\ e.n = n
    OBVIOUS
  <2>3. found \in readEnd => pipe[found] - n = 0 \/ n = BUFFER
    BY <1>1, <2>1
  <2> HIDE DEF n, e
  <2>4. /\ DOMAIN printed' = DOMAIN printed \cup {a} /\ a \notin DOMAIN printed
        /\ printed'[a] = e /\ \A b \in DOMAIN printed : printed'[b] = printed[b]
    BY <1>1, <2>1, OneMoreLine
  <2> HIDE DEF a
  <2>5. CASE j # found
    <3>1. (Started(j)' <=> Started(j)) /\ (Unread(j)' <=> Unread(j)) /\ pipe'[j] = pipe[j]
      BY <1>1, <2>1, <2>5 DEF Started, Unread
    <3>2. Never(j) => Never(j)'
      BY <2>2, <2>4, <2>5 DEF Never
    <3>3. Once(j) => Once(j)'
      BY <2>2, <2>4, <2>5, <3>1 DEF Once
    <3> QED  BY <1>good, <2>1, <2>5, <3>1, <3>2, <3>3
  <2>6. CASE j = found
    <3>1. ASSUME Started(j) PROVE Once(j)'
      <4>1. Never(j) /\ j \in readEnd
        BY <1>good, <2>1, <2>6, <3>1 DEF Unread
      <4>2. pipe'[j] = 0 \/ printed'[a].n = BUFFER
        BY <1>1, <2>1, <2>2, <2>3, <2>4, <2>6, <4>1
      <4>3. \A b \in DOMAIN printed' : printed'[b].idx = j <=> a = b
        BY <2>2, <2>4, <2>6, <4>1 DEF Never
      <4> QED  BY <2>4, <4>2, <4>3 DEF Once
    <3>2. Started(j)' => Started(j) /\ ~Unread(j)'
      BY <1>1, <2>1, <2>6 DEF FoundEnded, Started, Unread
    <3> QED  BY <3>1, <3>2
  <2> QED  BY <2>5, <2>6
<1>6. ASSUME NEW k \in Cmds, Command(k)
      PROVE  Started(j)' => IF Unread(j)' THEN Never(j)' /\ j \in readEnd' ELSE Once(j)'
  <2>1. UNCHANGED <<pc, found, printed, readEnd>> /\ child[k] = "running"
    BY <1>6 DEF Command
  <2>2. CASE j # k
    <3>1. UNCHANGED <<child[j], pipe[j]>>
      BY <1>1, <1>6, <2>2 DEF Command
    <3>2. Unread(j)' <=> Unread(j)
      BY <2>1, <3>1 DEF Unread
    <3> QED  BY <1>good, <2>1, <3>1, <3>2, SameOutput
  <2>3. CASE j = k
    <3>1. child'[j] \in {"running", "zombie"}
      BY <1>1, <1>6, <2>1, <2>3 DEF Command
    <3>2. Unread(j) /\ Unread(j)' /\ Started(j)
      BY <2>1, <2>3, <3>1 DEF Unread, Started
    <3> QED  BY <1>good, <2>1, <3>2 DEF Never
  <2> QED  BY <2>2, <2>3
<1> QED
  BY <1>2, <1>3, <1>4, <1>5, <1>6 DEF Next, Main

(* main reads for a child that has ended.                                  *)
LEMMA FoundStep ==
  ASSUME IInv, Next PROVE FoundEnded'
<1>1. FoundEnded /\ LoopsBounded /\ child \in [Cmds -> {"none", "running", "zombie", "reaped"}]
  BY DEF IInv, TypeOK
<1>2. CASE fork \/ close \/ forked_all \/ read \/ exit
  BY <1>2 DEF fork, close, forked_all, read, exit, FoundEnded
<1>3. CASE waitpid
  <2> SUFFICES ASSUME pc' = "read" PROVE child'[found'] \in {"none", "reaped"}
    BY DEF FoundEnded
  <2>1. ASSUME NEW k \in Cmds, child[k] = "zombie", child' = [child EXCEPT ![k] = "reaped"],
               found' \in Scan(k + 1)
        PROVE  child'[found'] \in {"none", "reaped"}
    BY <1>1, <2>1, ScanFinds DEF Started
  <2>2. ASSUME found' \in Scan(-1), UNCHANGED child PROVE child'[found'] \in {"none", "reaped"}
    BY <1>3, <2>2, ScanFinds DEF Started, waitpid
  <2> QED  BY <1>3, <2>1, <2>2 DEF waitpid
<1>4. ASSUME NEW j \in Cmds, Command(j) PROVE FoundEnded'
  <2>1. UNCHANGED <<pc, found>> /\ child[j] = "running"
        /\ \A k \in Cmds : k # j => child'[k] = child[k]
    BY <1>1, <1>4 DEF Command
  <2> QED  BY <1>1, <2>1 DEF FoundEnded, LoopsBounded
<1>5. CASE Finished
  BY <1>1, <1>5 DEF Finished, vars, FoundEnded
<1> QED  BY <1>2, <1>3, <1>4, <1>5 DEF Next, Main

(* The inductive invariant, for every number of commands.                  *)
THEOREM Invariance == Spec => []IInv
<1>1. IInv /\ [Next]_vars => IInv'
  <2> SUFFICES ASSUME IInv, [Next]_vars PROVE IInv'  OBVIOUS
  <2>1. CASE Next
    BY <2>1, TypeStep, ForkStep, WaitStep, PrintStep, FoundStep DEF IInv
  <2>2. CASE UNCHANGED vars
    BY <2>2 DEF vars, IInv, TypeOK, LoopsBounded, NotYetForked, PidsDistinct, PrintedOnce,
       WaitsCounted, ExitedAtN, FoundEnded, Started, Reaped, AllGone, Unread, Once, Never
  <2> QED  BY <2>1, <2>2
<1> QED  BY InitIInv, <1>1, PTL DEF Spec

(* When main returns, every child it started has been reaped and its       *)
(* output printed once, whole or as much as one read() takes.              *)
THEOREM ChildrenPrinted == Spec => []EveryChildPrinted
<1>1. IInv => EveryChildPrinted
  <2> SUFFICES ASSUME IInv, pc = "exited", NEW j \in Cmds, child[j] # "none"
               PROVE  child[j] = "reaped" /\ Once(j)
    BY DEF EveryChildPrinted, Once
  <2>1. child[j] = "reaped"
    <3>1. CASE AllGone
      BY <3>1 DEF AllGone, IInv, TypeOK
    <3>2. CASE Cardinality(Reaped) = N
      <4>1. Reaped = Cmds
        BY <3>2, ReapedFinite, FS_Subset DEF Reaped
      <4> QED  BY <4>1 DEF Reaped
    <3>3. AllGone \/ Cardinality(Reaped) = N
      BY ConstantsAssumption DEF IInv, WaitsCounted, ExitedAtN
    <3> QED  BY <3>1, <3>2, <3>3
  <2>2. Started(j) /\ ~Unread(j)
    BY <2>1 DEF Started, Unread
  <2> QED  BY <2>1, <2>2 DEF IInv, PrintedOnce
<1> QED  BY Invariance, <1>1, PTL

-----------------------------------------------------------------------------
(* main waits: for a child to end, or for a pipe somebody may write to.    *)
MainWaits ==
  \/ pc = "wait" /\ i < N /\ ~AllGone /\ \A j \in Cmds : child[j] # "zombie"
  \/ pc = "read" /\ found \in readEnd /\ pipe[found] = 0 /\ writers[found] # {}

(* A command waits for room in its pipe.                                   *)
CommandWaits(j) == left[j] > 0 /\ pipe[j] >= Capacity

(* main and all the commands that still run wait for each other, or main   *)
(* has looked up a pid it does not know.                                   *)
Stuck ==
  \/ pc = "undefined"
  \/ MainWaits /\ \A j \in Cmds : child[j] = "running" => CommandWaits(j)

(* Only a running command and main, right after fork(), hold write ends.   *)
WritersKnown ==
  \A j \in Cmds : /\ "child" \in writers[j] => child[j] = "running"
                  /\ "main" \in writers[j] => pc = "close" /\ j = i
OutputFits == \A j \in Cmds : left[j] + pipe[j] <= Capacity

(* The first loop has written pids[j].                                     *)
PidsWritten ==
  \A j \in Cmds \cap Table :
    pc \notin {"fork", "close"} \/ j < i \/ (j = i /\ pc = "close") => pids[j] # 0

(* main has waited at least as often as it has reaped a child.             *)
WaitsEnough ==
  pc \in {"wait", "read"} => Cardinality(Reaped) <= i + (IF pc = "read" THEN 1 ELSE 0)

PInv == WritersKnown /\ OutputFits /\ PidsWritten /\ WaitsEnough /\ pc # "undefined"

(* With a slot for every command, the scan finds whatever waitpid returns: *)
(* surplus waits, there is one for each fork() that failed, find its -1.   *)
LEMMA PidsKnown ==
  ASSUME N <= MAX, IInv, PInv, waitpid PROVE pc' = "read"
<1> USE ConstantsAssumption
<1>1. /\ TypeOK /\ PidsDistinct /\ PidsWritten /\ WaitsEnough /\ pc = "wait" /\ i < N /\ i \in Nat
      /\ N \in Nat /\ MAX \in Nat
  BY SMTT(30) DEF IInv, PInv, TypeOK, waitpid
<1>2. ASSUME NEW j \in Cmds, child[j] = "zombie", found' \in Scan(j + 1) PROVE found' \in Table
  <2>1. Started(j) /\ j \in Table
    BY <1>1, <1>2 DEF Started, PidsDistinct
  <2> QED  BY <1>2, <2>1, ScanFinds
<1>3. ASSUME AllGone, found' \in Scan(-1) PROVE found' \in Table
  <2> DEFINE match == {j \in Table : j < N /\ pids[j] = -1}
  <2>1. match # {}
    <3>1. SUFFICES ASSUME match = {} PROVE FALSE
      OBVIOUS
    <3>2. ASSUME NEW j \in Cmds PROVE child[j] = "reaped"
      <4>1. j \in Table /\ j < N
        BY <1>1 DEF Cmds, Table
      <4>2. pids[j] = j + 1
        BY <1>1, <3>1, <4>1 DEF PidsDistinct, PidsWritten
      <4>3. Started(j)
        BY <1>1, <4>1, <4>2 DEF PidsDistinct
      <4> QED  BY <1>1, <1>3, <4>3 DEF AllGone, Started, TypeOK
    <3>3. Reaped = Cmds
      BY <3>2 DEF Reaped
    <3> QED  BY <1>1, <3>3, ReapedFinite DEF WaitsEnough
  <2>2. Scan(-1) = {j \in match : \A k \in match : j <= k}
    BY <2>1 DEF Scan
  <2> QED  BY <1>3, <2>2
<1>4. found' \in Table
  BY <1>2, <1>3 DEF waitpid, AllGone
<1> QED  BY <1>4 DEF waitpid

(* A step keeps what progress rests on.                                    *)
LEMMA ProgressStep ==
  ASSUME N <= MAX, IInv, PInv, Next PROVE PInv'
<1> USE ConstantsAssumption
<1>1. /\ TypeOK /\ LoopsBounded /\ NotYetForked /\ N \in Nat /\ MAX \in Nat /\ BUFFER \in Nat
      /\ Capacity \in Nat /\ i \in Nat
      /\ WritersKnown /\ OutputFits /\ PidsWritten /\ WaitsEnough /\ pc # "undefined"
  BY DEF IInv, PInv, TypeOK
<1>2. /\ child \in [Cmds -> {"none", "running", "zombie", "reaped"}]
      /\ writers \in [Cmds -> SUBSET {"main", "child"}]
      /\ left \in [Cmds -> 0..MaxOut] /\ pipe \in [Cmds -> 0..Capacity] /\ pids \in [Table -> -1..N]
  BY <1>1 DEF TypeOK
<1>3. CASE fork
  <2>1. /\ pc = "fork" /\ pc' = "close" /\ UNCHANGED <<i, left, pipe>> /\ i \in Cmds /\ i \in Table
    BY <1>1, <1>3 DEF fork, Cmds, Table
  <2>2. WritersKnown'
    BY <1>1, <1>2, <1>3, <2>1 DEF fork, WritersKnown
  <2>3. PidsWritten'
    <3>1. PICK v : pids' = [pids EXCEPT ![i] = v] /\ v # 0
      BY <1>1, <1>3 DEF fork
    <3>2. ASSUME NEW j \in Cmds \cap Table, j <= i PROVE pids'[j] # 0
      <4>1. pids'[j] = IF j = i THEN v ELSE pids[j]
        BY <1>2, <2>1, <3>1
      <4>2. j \in Int /\ (j = i \/ j < i)
        BY <1>1, <3>2 DEF Cmds
      <4> QED  BY <1>1, <3>1, <4>1, <4>2 DEF PidsWritten
    <3>3. \A j \in Cmds \cap Table : j < i \/ j = i => j <= i
      BY <1>1 DEF Cmds
    <3> QED  BY <2>1, <3>2, <3>3 DEF PidsWritten
  <2> QED  BY <1>1, <2>1, <2>2, <2>3 DEF PInv, OutputFits, WaitsEnough
<1>4. CASE close
  <2>1. /\ pc = "close" /\ pc' = "fork" /\ i' = i + 1 /\ UNCHANGED <<pids, child, left, pipe>>
        /\ writers' = [writers EXCEPT ![i] = @ \ {"main"}]
    BY <1>4 DEF close
  <2>2. WritersKnown'
    BY <1>1, <1>2, <2>1 DEF WritersKnown
  <2>3. PidsWritten'
    BY <1>1, <2>1 DEF PidsWritten, Cmds, Table
  <2> QED  BY <1>1, <2>1, <2>2, <2>3 DEF PInv, OutputFits, WaitsEnough
<1>5. CASE forked_all
  <2>1. /\ pc = "fork" /\ pc' = "wait" /\ i' = 0 /\ (i >= N \/ i >= MAX)
        /\ UNCHANGED <<pids, child, left, pipe, writers>>
    BY <1>5 DEF forked_all, kernel
  <2>2. WritersKnown'
    BY <1>1, <2>1 DEF WritersKnown
  <2>3. PidsWritten'
    BY <1>1, <2>1 DEF PidsWritten, Cmds, Table
  <2>4. Cardinality(Reaped') = 0
    BY <1>1, <2>1, FS_EmptySet DEF NotYetForked, Reaped
  <2> QED  BY <1>1, <2>1, <2>2, <2>3, <2>4 DEF PInv, OutputFits, WaitsEnough
<1>6. CASE waitpid
  <2>1. pc = "wait" /\ pc' = "read" /\ UNCHANGED <<i, pids, left, pipe, writers>>
    BY <1>6, PidsKnown DEF waitpid
  <2>2. ASSUME NEW j \in Cmds, child[j] = "zombie", child' = [child EXCEPT ![j] = "reaped"]
        PROVE  WritersKnown' /\ Cardinality(Reaped') <= i + 1
    <3>1. WritersKnown'
      BY <1>1, <1>2, <2>1, <2>2 DEF WritersKnown
    <3>2. Reaped' = Reaped \cup {j} /\ j \notin Reaped
      BY <1>2, <2>2 DEF Reaped
    <3>3. Cardinality(Reaped') = Cardinality(Reaped) + 1 /\ Cardinality(Reaped) \in Nat
      BY <3>2, ReapedFinite, FS_AddElement
    <3> QED  BY <1>1, <2>1, <3>1, <3>3 DEF WaitsEnough
  <2>3. ASSUME UNCHANGED child PROVE WritersKnown' /\ Cardinality(Reaped') <= i + 1
    <3>1. Reaped' = Reaped
      BY <2>3 DEF Reaped
    <3> QED  BY <1>1, <2>1, <2>3, <3>1, ReapedFinite DEF WaitsEnough, WritersKnown
  <2>4. WritersKnown' /\ Cardinality(Reaped') <= i + 1
    BY <1>6, <2>2, <2>3 DEF waitpid
  <2> QED  BY <1>1, <2>1, <2>4 DEF PInv, OutputFits, PidsWritten, WaitsEnough
<1>7. CASE read
  <2>1. /\ pc = "read" /\ pc' = "wait" /\ i' = i + 1 /\ UNCHANGED <<pids, child, left, writers>>
        /\ found \in Cmds /\ Reaped' = Reaped
    BY <1>1, <1>7 DEF read, LoopsBounded, Reaped
  <2>2. PICK n \in Nat : pipe' = [pipe EXCEPT ![found] = @ - n]
    <3> DEFINE m == IF found \notin readEnd THEN 0
                    ELSE IF pipe[found] < BUFFER THEN pipe[found] ELSE BUFFER
    <3>1. m \in Nat
      BY <1>1, <1>2, <2>1
    <3>2. pipe' = [pipe EXCEPT ![found] = @ - m]
      BY <1>7 DEF read
    <3> HIDE DEF m
    <3> QED  BY <3>1, <3>2
  <2>3. ASSUME NEW j \in Cmds PROVE left'[j] + pipe'[j] <= Capacity
    <3>1. left[j] \in Nat /\ pipe[j] \in Nat /\ left[j] + pipe[j] <= Capacity
      BY <1>1, <1>2 DEF OutputFits
    <3>2. pipe'[j] = IF j = found THEN pipe[j] - n ELSE pipe[j]
      BY <1>2, <2>1, <2>2
    <3> QED  BY <1>1, <2>1, <2>2, <3>1, <3>2
  <2> QED
    BY <1>1, <2>1, <2>3, ReapedFinite DEF PInv, WritersKnown, OutputFits, PidsWritten, WaitsEnough
<1>8. CASE exit
  BY <1>1, <1>8 DEF exit, kernel, PInv, WritersKnown, OutputFits, PidsWritten, WaitsEnough
<1>9. ASSUME NEW k \in Cmds, Command(k) PROVE PInv'
  <2>1. child[k] = "running" /\ UNCHANGED <<pc, i, pids>>
    BY <1>9 DEF Command
  <2>2. ASSUME NEW j \in Cmds PROVE left'[j] + pipe'[j] = left[j] + pipe[j]
    BY <1>2, <1>9 DEF Command
  <2>3. WritersKnown'
    BY <1>1, <1>2, <1>9, <2>1 DEF Command, WritersKnown
  <2>4. Reaped' = Reaped
    BY <1>2, <1>9 DEF Command, Reaped
  <2> QED  BY <1>1, <2>1, <2>2, <2>3, <2>4 DEF PInv, OutputFits, PidsWritten, WaitsEnough
<1>10. CASE Finished
  BY <1>1, <1>10 DEF Finished, vars, PInv, WritersKnown, OutputFits, PidsWritten, WaitsEnough, Reaped
<1> QED
  BY <1>3, <1>4, <1>5, <1>6, <1>7, <1>8, <1>9, <1>10 DEF Next, Main

(* With a slot for every command and outputs that fit in their pipes, main *)
(* and the commands never all wait for each other, whichever forks fail    *)
(* and in whatever order the children end: the safety half of Terminates.  *)
THEOREM NeverStuck ==
  ASSUME N <= MAX PROVE Spec /\ (\A j \in Cmds : left[j] <= Capacity) => []~Stuck
<1> DEFINE Fit == \A j \in Cmds : left[j] <= Capacity
<1>1. Init /\ Fit => PInv
  <2> SUFFICES ASSUME Init, Fit PROVE PInv
    OBVIOUS
  <2>1. OutputFits
    <3>1. ASSUME NEW j \in Cmds PROVE left[j] + pipe[j] <= Capacity
      <4>1. pipe[j] = 0 /\ left[j] \in 0..MaxOut /\ left[j] <= Capacity
        BY DEF Init
      <4> QED  BY <4>1, ConstantsAssumption
    <3> QED  BY <3>1 DEF OutputFits
  <2>2. PidsWritten
    BY ConstantsAssumption DEF Init, PidsWritten, Cmds
  <2> QED  BY <2>1, <2>2 DEF Init, PInv, WritersKnown, WaitsEnough
<1>2. IInv /\ PInv /\ [Next]_vars => PInv'
  <2>1. ASSUME PInv, UNCHANGED vars PROVE PInv'
    BY <2>1 DEF vars, PInv, WritersKnown, OutputFits, PidsWritten, WaitsEnough, Reaped
  <2> QED  BY <2>1, ProgressStep
<1>3. ASSUME IInv, PInv PROVE ~Stuck
  <2>1. ASSUME pc = "read" PROVE writers[found] = {}
    <3>1. found \in Cmds /\ child[found] # "running" /\ writers[found] \subseteq {"main", "child"}
      BY <1>3, <2>1 DEF IInv, LoopsBounded, FoundEnded, TypeOK
    <3> QED  BY <1>3, <2>1, <3>1 DEF PInv, WritersKnown
  <2>2. ASSUME NEW j \in Cmds PROVE ~CommandWaits(j)
    <3>1. left[j] \in Nat /\ pipe[j] \in Nat /\ left[j] + pipe[j] <= Capacity /\ Capacity \in Nat
      BY <1>3, ConstantsAssumption DEF PInv, OutputFits, IInv, TypeOK
    <3> QED  BY <3>1 DEF CommandWaits
  <2>3. ASSUME ~AllGone, \A j \in Cmds : child[j] # "zombie" PROVE \E j \in Cmds : child[j] = "running"
    BY <2>3 DEF AllGone
  <2> QED  BY <1>3, <2>1, <2>2, <2>3 DEF Stuck, MainWaits, PInv
<1> HIDE DEF Fit
<1>4. Spec /\ Fit => []~Stuck
  BY <1>1, <1>2, <1>3, Invariance, PTL DEF Spec
<1> QED  BY <1>4 DEF Fit
=============================================================================
