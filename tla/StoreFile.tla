------------------------------ MODULE StoreFile ------------------------------
(***************************************************************************)
(* control_plane/store.py as several processes use it: every command of    *)
(* cli.py, a running `reconcile' among them, is a process that loads the   *)
(* whole file once and writes the whole file at each put.                  *)
(*                                                                         *)
(* What a snapshot contains is abstracted to the set of puts it includes.  *)
(* The lock of Store is one process's, and each process has one thread, so *)
(* it orders nothing here and is left out.                                 *)
(***************************************************************************)
EXTENDS Naturals, FiniteSets

CONSTANTS
  Pid,
  MaxPuts,            \* bound: puts in all processes together
  MaxAttempts,        \* attempts at os.replace (10 in the code)
  Locks,              \* whether another program may lock the file
  Crashes,            \* whether a process may be killed
  Missing,            \* a file there is not
  Torn                \* a file that is not whole, which json.load refuses

ASSUME MaxAttemptsType == MaxAttempts \in Nat \ {0}
ASSUME MaxPutsType == MaxPuts \in Nat
ASSUME FlagsType == Locks \in BOOLEAN /\ Crashes \in BOOLEAN

Update == 1..MaxPuts

\* What save() writes and load() reads back.
Snapshot == [updates : SUBSET Update, revision : Nat]
Empty == [updates |-> {}, revision |-> 0]

ASSUME FileStates == Missing # Torn /\ {Missing, Torn} \intersect Snapshot = {}
FileState == Snapshot \union {Missing, Torn}

VARIABLES
  file,               \* the store file
  tmp,                \* tmp[p]: the file <path>.<pid>.tmp
  proc,               \* proc[p]: the process with pid p
  issued,             \* how many puts have been made
  acked,              \* the puts that have returned
  overlapped          \* history: have two processes ever run at once?

vars == <<file, tmp, proc, issued, acked, overlapped>>

PC == {"exit", "ready", "open", "dump", "replace", "fallback", "rewrite"}

\* `put' is the put that save() is to make durable.
Process == [pc : PC, mem : Snapshot, attempt : 0..MaxAttempts, put : {0} \union Update]
NoProcess == [pc |-> "exit", mem |-> Empty, attempt |-> 0, put |-> 0]

Running(p) == proc[p].pc # "exit"

Init ==
  /\ file = Missing
  /\ tmp = [p \in Pid |-> Missing]
  /\ proc = [p \in Pid |-> NoProcess]
  /\ issued = 0 /\ acked = {} /\ overlapped = FALSE

-----------------------------------------------------------------------------
\* Store.__init__: a command whose load() meets a torn file ends there.
Start(p) ==
  /\ ~Running(p) /\ file # Torn
  /\ proc' = [proc EXCEPT ![p] =
                [NoProcess EXCEPT !.pc = "ready", !.mem = IF file = Missing THEN Empty ELSE file]]
  /\ overlapped' = (overlapped \/ \E q \in Pid : Running(q))
  /\ UNCHANGED <<file, tmp, issued, acked>>

\* put_cluster, put_node, remove_node, and _bump
Put(p) ==
  /\ proc[p].pc = "ready" /\ issued < MaxPuts
  /\ issued' = issued + 1
  /\ proc' = [proc EXCEPT ![p] =
                [pc |-> "open", attempt |-> 0, put |-> issued',
                 mem |-> [updates |-> @.mem.updates \union {issued'},
                          revision |-> @.mem.revision + 1]]]
  /\ UNCHANGED <<file, tmp, acked, overlapped>>

\* (Variant: all processes share one temporary file.)
SharedTmp(p) == CHOOSE q \in Pid : TRUE

TmpOf(p) == p

\* save(): open(tmp, "w") empties the temporary file, json.dump fills it.
OpenTmp(p) ==
  /\ proc[p].pc = "open"
  /\ tmp' = [tmp EXCEPT ![TmpOf(p)] = Torn]
  /\ proc' = [proc EXCEPT ![p].pc = "dump"]
  /\ UNCHANGED <<file, issued, acked, overlapped>>

DumpTmp(p) ==
  /\ proc[p].pc = "dump"
  /\ tmp' = [tmp EXCEPT ![TmpOf(p)] = proc[p].mem]
  /\ proc' = [proc EXCEPT ![p].pc = "replace"]
  /\ UNCHANGED <<file, issued, acked, overlapped>>

\* Another process has the target open for writing.
BeingRewritten == \E q \in Pid : proc[q].pc = "rewrite"

\* os.replace
Replace(p) ==
  /\ proc[p].pc = "replace" /\ tmp[TmpOf(p)] # Missing /\ ~BeingRewritten
  /\ file' = tmp[TmpOf(p)]
  /\ tmp' = [tmp EXCEPT ![TmpOf(p)] = Missing]
  /\ proc' = [proc EXCEPT ![p].pc = "ready", ![p].put = 0, ![p].attempt = 0]
  /\ acked' = acked \union {proc[p].put}
  /\ UNCHANGED <<issued, overlapped>>

\* (Variants: attempts are not bounded; the last one is off by one; after it
\* save() just returns.)
RetryForEver(p) ==
  /\ proc[p].pc = "replace" /\ Locks
  /\ proc' = [proc EXCEPT ![p].attempt = (@ + 1) % MaxAttempts]
  /\ UNCHANGED <<file, tmp, issued, acked, overlapped>>
RetryOnceMore(p) ==
  /\ proc[p].pc = "replace" /\ Locks
  /\ proc' = [proc EXCEPT ![p].attempt = @ + 1,
                          ![p].pc = IF proc[p].attempt <= MaxAttempts
                                    THEN "replace" ELSE "fallback"]
  /\ UNCHANGED <<file, tmp, issued, acked, overlapped>>
GiveUp(p) ==
  /\ proc[p].pc = "replace" /\ Locks
  /\ proc' = [proc EXCEPT ![p].attempt = @ + 1,
                          ![p].pc = IF proc[p].attempt + 1 < MaxAttempts
                                    THEN "replace" ELSE "ready"]
  /\ acked' = IF proc[p].attempt + 1 < MaxAttempts THEN acked ELSE acked \union {proc[p].put}
  /\ UNCHANGED <<file, tmp, issued, overlapped>>

\* PermissionError
ReplaceFails(p) ==
  /\ proc[p].pc = "replace" /\ Locks
  /\ proc' = [proc EXCEPT ![p].attempt = @ + 1,
                          ![p].pc = IF proc[p].attempt + 1 < MaxAttempts
                                    THEN "replace" ELSE "fallback"]
  /\ UNCHANGED <<file, tmp, issued, acked, overlapped>>

\* open(self._path, "w") empties the store file ...
OpenTarget(p) ==
  /\ proc[p].pc = "fallback"
  /\ file' = Torn
  /\ proc' = [proc EXCEPT ![p].pc = "rewrite"]
  /\ UNCHANGED <<tmp, issued, acked, overlapped>>

\* An OSError in the clean-up is ignored, and the temporary file stays.
CleanUp(p) == tmp' = [tmp EXCEPT ![TmpOf(p)] = Missing] \/ UNCHANGED tmp

\* ... or raises in its turn, which ends the process after the clean-up.
OpenTargetFails(p) ==
  /\ proc[p].pc = "fallback"
  /\ CleanUp(p)
  /\ proc' = [proc EXCEPT ![p] = NoProcess]
  /\ UNCHANGED <<file, issued, acked, overlapped>>

\* json.dump into the store file.  Processes that have it open at once write over
\* each other, and what is left need not be whole.
Rewrite(p) ==
  /\ proc[p].pc = "rewrite"
  /\ \/ file' = proc[p].mem
     \/ file' = Torn /\ (file # Torn \/ \E q \in Pid \ {p} : proc[q].pc = "rewrite")
  /\ CleanUp(p)
  /\ proc' = [proc EXCEPT ![p].pc = "ready", ![p].put = 0, ![p].attempt = 0]
  /\ acked' = acked \union {proc[p].put}
  /\ UNCHANGED <<issued, overlapped>>

Exit(p) ==
  /\ proc[p].pc = "ready"
  /\ proc' = [proc EXCEPT ![p] = NoProcess]
  /\ UNCHANGED <<file, tmp, issued, acked, overlapped>>

\* The process is killed; what it has written so far stays.
Crash(p) ==
  /\ Crashes /\ Running(p)
  /\ proc' = [proc EXCEPT ![p] = NoProcess]
  /\ UNCHANGED <<file, tmp, issued, acked, overlapped>>

SaveStep(p) ==
  \/ OpenTmp(p) \/ DumpTmp(p) \/ Replace(p) \/ ReplaceFails(p)
  \/ OpenTarget(p) \/ OpenTargetFails(p) \/ Rewrite(p)

Next == \E p \in Pid : Start(p) \/ Put(p) \/ SaveStep(p) \/ Exit(p) \/ Crash(p)

Spec == Init /\ [][Next]_vars

\* A process that is saving goes on; nothing makes it start or put anything.
FairSpec == Spec /\ \A p \in Pid : WF_vars(SaveStep(p))

-----------------------------------------------------------------------------
(* Properties *)

TypeOK ==
  /\ file \in FileState
  /\ tmp \in [Pid -> FileState]
  /\ proc \in [Pid -> Process]
  /\ issued \in 0..MaxPuts
  /\ acked \subseteq 1..issued
  /\ overlapped \in BOOLEAN

\* Commands compose across invocations (cli.py): as long as no two processes ever
\* ran at once, a put that has returned is in the file, whatever attempts failed
\* and whatever was killed, unless the file was torn by the direct write.
AckedIsStored ==
  ~overlapped /\ acked # {} /\ file # Torn => file # Missing /\ acked \subseteq file.updates

\* Only the direct write of the fallback ever tears the store file: not a crash in
\* the middle of an ordinary save, not two processes that save at once
\* (ARCHITECTURE.md, "crash-safe atomic writes").
TornByFallbackOnly ==
  [][ file # Torn /\ file' = Torn =>
        \E p \in Pid : proc[p].pc \in {"fallback", "rewrite"} ]_vars

Saving(p) == proc[p].pc \notin {"exit", "ready"}

\* Every save ends, however long the file stays locked (save, "retry with backoff
\* before giving up").
SaveReturns == \A p \in Pid : Saving(p) ~> ~Saving(p)

-----------------------------------------------------------------------------
(* The inductive invariant behind the proofs of StoreFileProofs *)

\* Attempts are counted up to the fallback; what is being saved has been issued.
SaveShape ==
  \A p \in Pid :
    /\ proc[p].pc \in {"open", "dump", "replace"} => proc[p].attempt < MaxAttempts
    /\ Saving(p) => proc[p].put \in 1..issued /\ proc[p].put \in proc[p].mem.updates
    /\ proc[p].pc = "replace" => tmp[p] = proc[p].mem

\* As long as processes do not overlap, the one that runs knows every put there is.
AloneKnowsAll ==
  ~overlapped =>
    \A p \in Pid : Running(p) =>
      /\ \A q \in Pid \ {p} : ~Running(q)
      /\ acked \subseteq proc[p].mem.updates

FileInv == TypeOK /\ SaveShape /\ AloneKnowsAll /\ AckedIsStored
=============================================================================
