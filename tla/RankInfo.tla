------------------------------ MODULE RankInfo ------------------------------
(***************************************************************************)
(* How the ranks of a directory get to know their lower half.              *)
(*                                                                         *)
(* A process, launched for one rank or restoring the images of several,    *)
(* writes the addresses of its lower half to addr.bin (kernel-loader.c).   *)
(* Each of its ranks, a thread of its own after a restart, opens, reads    *)
(* and unlinks addr.bin when its first wrapper is called                   *)
(* (upper-half-wrappers.c), and calls exit when it does not find it: that  *)
(* ends every thread of the process.  All processes use the same name, in  *)
(* the directory they run in, and nothing orders them.                     *)
(***************************************************************************)
EXTENDS Integers, FiniteSets

CONSTANTS
  Ranks,     \* the ranks run in one directory
  Builds,    \* the binaries: their lower halves are at different addresses
  MaxStarts  \* bound on processes started

\* What a file holds before it is written, and lhInfo before it is read.
Empty == "empty"

ASSUME RankInfoAssumption ==
  /\ Builds # {} /\ Empty \notin Builds
  /\ MaxStarts \in Nat

VARIABLES
  stage,   \* where each rank is, see Starting
  proc,    \* the process it is in, or was: numbered as they start
  build,   \* the binary of that process
  fd,      \* the file it has open, or 0
  info,    \* lhInfo: the lower half it knows
  images,  \* the ranks that have an image
  name,    \* the file called addr.bin, or 0; files bear their maker's number
  content, \* what each file holds, also when its name is gone
  starts,  \* number of processes started
  rivals   \* (for the properties) the ranks it was starting together with

file == <<name, content>>
process == <<proc, build>>
vars == <<stage, process, fd, info, images, file, starts, rivals>>

\* The process has begun, has opened addr.bin, has written it; the rank has
\* opened addr.bin, has read it.
Starting == {"begun", "creating", "fresh", "opened", "read"}
Stages == {"absent", "ready", "dead", "exited"} \cup Starting
Alive(r) == stage[r] \in Starting \cup {"ready"}
Mates(r) == {q \in Ranks : proc[q] = proc[r]}
Numbers == 1 .. MaxStarts

Init ==
  /\ stage = [r \in Ranks |-> "absent"] /\ proc = [r \in Ranks |-> 0]
  /\ build \in [Ranks -> Builds]
  /\ fd = [r \in Ranks |-> 0] /\ info = [r \in Ranks |-> Empty]
  /\ images = {}
  /\ name = 0 /\ content = [i \in Numbers |-> Empty]
  /\ starts = 0 /\ rivals = [r \in Ranks |-> {}]

\* The value of f for the ranks of a process changes alike.
Become(f, rs, v) == [r \in Ranks |-> IF r \in rs THEN v ELSE f[r]]
Goes(r, from, to) == stage[r] = from /\ stage' = Become(stage, {r}, to)
-----------------------------------------------------------------------------
(* A process: launched for one rank, or restoring the images of some.      *)

Rivals(rs) ==
  [r \in Ranks |->
     IF r \in rs THEN (rs \cup {q \in Ranks : stage[q] \in Starting}) \ {r}
     ELSE IF stage[r] \in Starting THEN rivals[r] \cup rs ELSE rivals[r]]

Start(rs, b) ==
  /\ \A r \in rs : ~Alive(r)
  /\ starts < MaxStarts /\ starts' = starts + 1
  /\ stage' = Become(stage, rs, "begun")
  /\ proc' = Become(proc, rs, starts + 1) /\ build' = Become(build, rs, b)
  /\ fd' = Become(fd, rs, 0)
  /\ rivals' = Rivals(rs)
  /\ UNCHANGED <<images, file>>

\* lhInfo is zero in a new program, and what it was in a restored one.
Launch(r, b) == Start({r}, b) /\ info' = Become(info, {r}, Empty)
Restart(rs, b) == rs # {} /\ rs \subseteq images /\ Start(rs, b) /\ UNCHANGED info

\* Mutant: a file that is there is taken for one that is written.
MutantCreates == name = 0

Creates == TRUE

\* writeLhInfoToFile opens with O_CREAT and without O_TRUNC: a file that is
\* there stays, whoever else has it open.
OpenToWrite(rs) ==
  /\ \A r \in rs : stage[r] = "begun" /\ Mates(r) = rs
  /\ IF Creates
     THEN \E i \in Numbers :
       /\ IF name = 0 THEN \A r \in rs : proc[r] = i ELSE i = name
       /\ name' = i /\ fd' = Become(fd, rs, i)
       /\ stage' = Become(stage, rs, "creating")
     ELSE stage' = Become(stage, rs, "fresh") /\ UNCHANGED <<name, fd>>
  /\ UNCHANGED <<process, info, images, content, starts, rivals>>

\* Mutant: the file is closed before it is written.
MutantWritten(i, b) == content

Written(i, b) == [content EXCEPT ![i] = b]

\* write and close, and off to ld.so, or to the threads of the ranks.
Write(rs) ==
  /\ \A r \in rs : stage[r] = "creating" /\ Mates(r) = rs
  /\ \E r \in rs : content' = Written(fd[r], build[r])
  /\ stage' = Become(stage, rs, "fresh") /\ fd' = Become(fd, rs, 0)
  /\ UNCHANGED <<process, info, images, name, starts, rivals>>
-----------------------------------------------------------------------------
(* A rank: readLhInfoAddr.                                                 *)

\* exit(-1) in one thread ends all threads.
Exit(r) ==
  /\ stage' = Become(stage, Mates(r), "exited")
  /\ UNCHANGED <<process, fd, info, images, file, starts, rivals>>

OpenToRead(r) ==
  /\ name # 0 /\ Goes(r, "fresh", "opened")
  /\ fd' = Become(fd, {r}, name)
  /\ UNCHANGED <<process, info, images, file, starts, rivals>>

NoFile(r) == stage[r] = "fresh" /\ name = 0 /\ Exit(r)

\* Mutant: the number of bytes read is not looked at.
MutantEnough(i) == TRUE

Enough(i) == content[i] # Empty

Read(r) ==
  /\ Goes(r, "opened", "read") /\ Enough(fd[r])
  /\ info' = Become(info, {r}, content[fd[r]])
  /\ UNCHANGED <<process, fd, images, file, starts, rivals>>

\* Fewer bytes than expected.
TooShort(r) == stage[r] = "opened" /\ ~Enough(fd[r]) /\ Exit(r)

\* unlink takes away whatever has the name now, or finds nothing.
Unlink(r) ==
  /\ Goes(r, "read", "ready")
  /\ name' = 0 /\ fd' = Become(fd, {r}, 0)
  /\ UNCHANGED <<process, info, images, content, starts, rivals>>

\* doCheckpoint; reset_wrappers, after a restart, is the stage "fresh".
Checkpoint(r) ==
  /\ stage[r] = "ready" /\ images' = images \cup {r}
  /\ UNCHANGED <<stage, process, fd, info, file, starts, rivals>>

\* A process is killed, or one of its ranks returns from main.
Die(r) ==
  /\ Alive(r)
  /\ stage' = [q \in Ranks |->
       IF q \in Mates(r) /\ Alive(q) THEN "dead" ELSE stage[q]]
  /\ UNCHANGED <<process, fd, info, images, file, starts, rivals>>
-----------------------------------------------------------------------------
Next ==
  \/ \E r \in Ranks, b \in Builds : Launch(r, b)
  \/ \E rs \in SUBSET Ranks, b \in Builds : Restart(rs, b)
  \/ \E rs \in SUBSET Ranks : rs # {} /\ (OpenToWrite(rs) \/ Write(rs))
  \/ \E r \in Ranks :
       \/ OpenToRead(r) \/ NoFile(r) \/ Read(r) \/ TooShort(r) \/ Unlink(r)
       \/ Checkpoint(r) \/ Die(r)

Spec == Init /\ [][Next]_vars
-----------------------------------------------------------------------------
(* Properties.                                                             *)

TypeOK ==
  /\ stage \in [Ranks -> Stages] /\ build \in [Ranks -> Builds]
  /\ proc \in [Ranks -> {0} \cup Numbers] /\ fd \in [Ranks -> {0} \cup Numbers]
  /\ info \in [Ranks -> Builds \cup {Empty}]
  /\ \A r \in Ranks :
       /\ stage[r] \in {"creating", "opened", "read"} => fd[r] # 0
       /\ stage[r] \in {"read", "ready"} => info[r] # Empty
  /\ images \subseteq Ranks
  /\ name \in {0} \cup Numbers /\ content \in [Numbers -> Builds \cup {Empty}]
  /\ starts \in 0 .. MaxStarts
  /\ rivals \in [Ranks -> SUBSET Ranks]

\* No other process of the directory was starting while this one was.
Undisturbed(r) == rivals[r] \subseteq Mates(r)

\* A rank alone is never sent away for want of addr.bin: not when processes
\* before it have died half-way, nor when it is restored again and again.
LoneRankLives == \A r \in Ranks : rivals[r] = {} => stage[r] # "exited"

\* A rank whose wrappers are initialised knows the lower half that is in its
\* process, though a former process may have left another's addr.bin.
InfoFits ==
  \A r \in Ranks :
    stage[r] \in {"read", "ready"} /\ Undisturbed(r) => info[r] = build[r]

\* When the ranks of a process are sent away, one of them had just got what
\* the other misses: the first wrapper call always finds its lower half.
Leaves(r) == stage[r] # "exited" /\ stage'[r] = "exited"
FirstGetsIn ==
  [][\A r \in Ranks : Leaves(r) /\ Undisturbed(r) =>
       \E q \in Mates(r) : stage[q] = "ready"]_vars

\* Ranks that are restored together are not sent away for want of addr.bin
\* (README.md:50, "Add code to restart from checkpoint images of multiple
\* ranks", marked done; the example calls MPI_Init after the restart).
RestoredRanksLive ==
  \A r \in Ranks : Undisturbed(r) => stage[r] # "exited"
=============================================================================
