----------------------------- MODULE StackCopy -----------------------------
(***************************************************************************)
(* The stack ld.so starts with: a copy of the one the kernel gave to the   *)
(* loader, with its pointers moved and three changes (kernel-loader.c,     *)
(* createNewStackForRtld and deepCopyStack).                               *)
(*                                                                         *)
(* A stack is a record: lo, the start of its area; start, the address of   *)
(* argc; argv and env, the pointers, without the NULLs at their ends;      *)
(* auxv, the auxiliary vector; text, the strings by address.  A pointer    *)
(* takes one address.  A variable of the environment is known by its name  *)
(* at the address of its string, and by its value at the next one.         *)
(***************************************************************************)
EXTENDS Integers, Sequences

\* The entries of the auxiliary vector that are pointers into the stack.
StackPointers == {"AT_RANDOM", "AT_EXECFN", "AT_PLATFORM"}

\* What execve leaves: every pointer is to a string, no string is pointed to
\* twice or begins where the value of a variable does.
IsStack(s) ==
  /\ {"lo", "start", "argv", "env", "auxv", "text"} \subseteq DOMAIN s
  /\ s.lo \in Nat /\ s.start \in Nat /\ DOMAIN s.text \subseteq Nat
  /\ \A i \in DOMAIN s.auxv :
       s.auxv[i].type \in StackPointers => s.auxv[i].val \in DOMAIN s.text
  /\ s.argv \in Seq(DOMAIN s.text) /\ s.env \in Seq(DOMAIN s.text)
  /\ \A i \in DOMAIN s.env :
       /\ s.env[i] + 1 \in DOMAIN s.text
       /\ \A j \in DOMAIN s.env :
            s.env[j] # s.env[i] + 1 /\ (s.env[j] = s.env[i] => i = j)
       /\ \A j \in DOMAIN s.argv : s.argv[j] # s.env[i]

\* argc, the pointers of argv, NULL
ArgvAddr(s) == s.start + 1
EnvAddr(s) == ArgvAddr(s) + Len(s.argv) + 1

EnvNames(s) == [i \in DOMAIN s.env |-> s.text[s.env[i]]]
HasEnv(s, name) == \E i \in DOMAIN s.env : EnvNames(s)[i] = name

\* The first variable of that name: the address of its value.
getenv(s, name) ==
  LET i == CHOOSE i \in DOMAIN s.env :
             /\ EnvNames(s)[i] = name
             /\ \A j \in 1 .. i - 1 : EnvNames(s)[j] # name
  IN  s.env[i] + 1

\* Variables in which "UH_PRELOAD" occurs: itself, and others, in whose name
\* or value it is.
Mentioning == {"UH_PRELOAD", "OTHER_MENTIONING"}
Renamed(name) == IF name = "UH_PRELOAD" THEN "LD_PRELOAD" ELSE "LDHER_MENTIONING"

\* A pointer p into the old stack, as far from to as it was from from.
Moved(p, from, to) == to + (p - from)

patchAuxv(auxv, info) ==
  [i \in DOMAIN auxv |->
     IF auxv[i].type \in {"AT_PHNUM", "AT_PHDR", "AT_ENTRY"}
     THEN [auxv[i] EXCEPT !.val = info[auxv[i].type]] ELSE auxv[i]]

\* The bits of old at lo.
ShallowCopy(old, lo) ==
  LET d == lo - old.lo
  IN  [old EXCEPT !.lo = lo, !.start = old.start + d,
                  !.text = [a \in {b + d : b \in DOMAIN old.text} |-> old.text[a - d]]]

\* Mutant: the loop goes on after the first.
MutantPreload(s) ==
  [s EXCEPT !.text = [a \in DOMAIN s.text |->
     IF s.text[a] \in Mentioning THEN Renamed(s.text[a]) ELSE s.text[a]]]

\* The first variable that mentions UH_PRELOAD gets "LD" for its first letters.
Preload(s) ==
  LET found == {i \in DOMAIN s.env : EnvNames(s)[i] \in Mentioning}
  IN  IF found = {} THEN s
      ELSE LET i == CHOOSE i \in found : \A j \in found : i <= j
           IN  [s EXCEPT !.text[s.env[i]] = Renamed(@)]

deepCopyStack(old, lo, info) ==
  LET s == ShallowCopy(old, lo)
      Arg(p) == Moved(p, ArgvAddr(old), ArgvAddr(s))
      Env(p) == Moved(p, EnvAddr(old), EnvAddr(s))
      argv == [i \in DOMAIN old.argv |-> Arg(old.argv[i])]
  IN  Preload([s EXCEPT
        !.argv = [argv EXCEPT ![1] = Arg(getenv(old, "TARGET_LD"))],
        !.env = [i \in DOMAIN old.env |-> Env(old.env[i])],
        !.auxv = patchAuxv(old.auxv, info)])
=============================================================================
