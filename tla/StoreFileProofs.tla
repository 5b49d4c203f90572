--------------------------- MODULE StoreFileProofs ---------------------------
(***************************************************************************)
(* Theorems about module StoreFile, for every set of processes, every      *)
(* bound on puts and attempts, with and without locks and crashes.         *)
(***************************************************************************)
EXTENDS StoreFile, TLAPS

\* A process record is a record of four fields.
LEMMA ProcessRecord ==
  /\ NoProcess \in Process
  /\ \A pc \in PC, m \in Snapshot, k \in 0..MaxAttempts, u \in {0} \union Update :
       [pc |-> pc, mem |-> m, attempt |-> k, put |-> u] \in Process
  /\ \A r \in Process :
       /\ r.pc \in PC /\ r.mem \in Snapshot /\ r.attempt \in 0..MaxAttempts
       /\ r.put \in {0} \union Update
       /\ r = [pc |-> r.pc, mem |-> r.mem, attempt |-> r.attempt, put |-> r.put]
<1>1. Empty \in Snapshot
  BY DEF Empty, Snapshot
<1> QED
  BY <1>1, MaxAttemptsType DEF Process, NoProcess, PC

LEMMA FileInit == Init => FileInv
<1> SUFFICES ASSUME Init PROVE FileInv
  OBVIOUS
<1>1. TypeOK
  <2>1. file \in FileState /\ tmp \in [Pid -> FileState]
    BY DEF Init, FileState
  <2>2. proc \in [Pid -> Process]
    BY ProcessRecord DEF Init
  <2>3. issued \in 0..MaxPuts /\ acked \subseteq 1..issued
    BY MaxPutsType DEF Init
  <2>4. overlapped \in BOOLEAN
    BY DEF Init
  <2> QED
    BY <2>1, <2>2, <2>3, <2>4 DEF TypeOK
<1>2. SaveShape /\ AloneKnowsAll /\ AckedIsStored
  BY DEF Init, SaveShape, AloneKnowsAll, AckedIsStored, Saving, Running, NoProcess
<1> QED
  BY <1>1, <1>2 DEF FileInv

\* A step of one process leaves the records of the others alone.
LEMMA FileStep == FileInv /\ [Next]_vars => FileInv'
<1> SUFFICES ASSUME FileInv, [Next]_vars PROVE FileInv'
  OBVIOUS
<1> USE DEF FileInv
<1>a. /\ file \in FileState /\ tmp \in [Pid -> FileState] /\ proc \in [Pid -> Process]
      /\ issued \in 0..MaxPuts /\ acked \subseteq 1..issued /\ overlapped \in BOOLEAN
  BY DEF TypeOK
<1>b. Empty \in Snapshot /\ NoProcess \in Process
  BY ProcessRecord DEF Empty, Snapshot
<1>c. Snapshot \subseteq FileState /\ Missing \in FileState /\ Torn \in FileState
      /\ Missing \notin Snapshot /\ Torn \notin Snapshot /\ Missing # Torn
  BY FileStates DEF FileState
<1>1. ASSUME NEW p \in Pid, Start(p) PROVE FileInv'
  <2>1. \E s \in Snapshot :
          /\ proc' = [proc EXCEPT ![p] = [NoProcess EXCEPT !.pc = "ready", !.mem = s]]
          /\ ~overlapped => acked \subseteq s.updates
    BY <1>1, <1>a, <1>b, <1>c DEF Start, FileState, AckedIsStored, Empty
  <2>2. PICK s \in Snapshot :
          /\ proc' = [proc EXCEPT ![p] = [NoProcess EXCEPT !.pc = "ready", !.mem = s]]
          /\ ~overlapped => acked \subseteq s.updates
    BY <2>1
  <2>3. proc'[p] = [pc |-> "ready", mem |-> s, attempt |-> 0, put |-> 0]
        /\ \A q \in Pid \ {p} : proc'[q] = proc[q]
    BY <2>2, <1>a DEF NoProcess
  <2>4. TypeOK'
    <3>1. proc'[p] \in Process
      BY <2>3, ProcessRecord, MaxAttemptsType DEF PC
    <3>2. proc' \in [Pid -> Process]
      BY <3>1, <2>2, <1>a
    <3>3. overlapped' \in BOOLEAN
      BY <1>1, <1>a DEF Start
    <3> QED
      BY <3>2, <3>3, <1>1, <1>a DEF TypeOK, Start
  <2>5. SaveShape'
    BY <2>3, <1>1 DEF SaveShape, Saving, Start
  <2>6. AloneKnowsAll'
    <3> SUFFICES ASSUME ~overlapped', NEW q \in Pid, Running(q)'
                 PROVE  /\ \A r \in Pid \ {q} : ~Running(r)'
                        /\ acked' \subseteq proc'[q].mem.updates
      BY DEF AloneKnowsAll
    <3>1. ~overlapped /\ \A r \in Pid : ~Running(r)
      BY <1>1, <1>a DEF Start
    <3>2. q = p
      BY <3>1, <2>3 DEF Running
    <3> QED
      BY <3>1, <3>2, <2>2, <2>3, <1>1 DEF Running, Start
  <2>7. AckedIsStored'
    BY <1>1 DEF AckedIsStored, Start
  <2> QED
    BY <2>4, <2>5, <2>6, <2>7
<1>2. ASSUME NEW p \in Pid, Put(p) PROVE FileInv'
  <2> DEFINE m == [updates |-> proc[p].mem.updates \union {issued'},
                   revision |-> proc[p].mem.revision + 1]
  <2>1. proc' = [proc EXCEPT ![p] = [pc |-> "open", attempt |-> 0, put |-> issued', mem |-> m]]
    BY <1>2 DEF Put
  <2>2. issued' = issued + 1 /\ issued' \in 0..MaxPuts /\ issued' \in Update
    BY <1>2, <1>a, MaxPutsType DEF Put, Update
  <2>3. m \in Snapshot
    BY <2>2, <1>a DEF Snapshot, Process
  <2>4. proc'[p] = [pc |-> "open", attempt |-> 0, put |-> issued', mem |-> m]
        /\ \A q \in Pid \ {p} : proc'[q] = proc[q]
    BY <2>1, <1>a
  <2>m. m.updates = proc[p].mem.updates \union {issued'}
    OBVIOUS
  <2> HIDE DEF m
  <2>5. TypeOK'
    <3>1. proc' \in [Pid -> Process]
      BY <2>1, <2>2, <2>3, <1>a, MaxAttemptsType DEF Process, PC
    <3>2. acked' \subseteq 1..issued'
      BY <2>2, <1>2, <1>a, MaxPutsType DEF Put
    <3> QED
      BY <3>1, <3>2, <2>2, <1>2, <1>a DEF TypeOK, Put
  <2>6. SaveShape'
    BY <2>2, <2>4, <2>m, <1>2, <1>a, MaxAttemptsType, MaxPutsType DEF SaveShape, Saving, Put
  <2>7. AloneKnowsAll'
    BY <2>4, <2>m, <1>2 DEF AloneKnowsAll, Running, Put
  <2>8. AckedIsStored'
    BY <1>2 DEF AckedIsStored, Put
  <2> QED
    BY <2>5, <2>6, <2>7, <2>8
<1>3. ASSUME NEW p \in Pid, OpenTmp(p) \/ DumpTmp(p) PROVE FileInv'
  <2>1. PICK pc \in {"dump", "replace"}, s \in FileState :
          /\ proc' = [proc EXCEPT ![p] = [proc[p] EXCEPT !.pc = pc]]
          /\ tmp' = [tmp EXCEPT ![p] = s]
          /\ pc = "replace" => s = proc[p].mem
    BY <1>3, <1>a, <1>c DEF OpenTmp, DumpTmp, TmpOf, Process
  <2>2. proc'[p] = [proc[p] EXCEPT !.pc = pc] /\ \A q \in Pid \ {p} : proc'[q] = proc[q]
    BY <2>1, <1>a
  <2>3. /\ proc'[p].pc = pc /\ proc'[p].mem = proc[p].mem /\ proc'[p].put = proc[p].put
        /\ proc'[p].attempt = proc[p].attempt /\ proc'[p] \in Process
    BY <2>2, <1>a DEF Process, PC
  <2>4. Saving(p) /\ proc[p].pc \in {"open", "dump"}
        /\ UNCHANGED <<file, issued, acked, overlapped>>
    BY <1>3 DEF OpenTmp, DumpTmp, Saving
  <2>5. TypeOK'
    BY <2>1, <2>3, <2>4, <1>a DEF TypeOK
  <2>6. SaveShape'
    BY <2>1, <2>2, <2>3, <2>4, <1>a DEF SaveShape, Saving
  <2>7. AloneKnowsAll'
    BY <2>2, <2>3, <2>4 DEF AloneKnowsAll, Running, Saving
  <2>8. AckedIsStored'
    BY <2>4 DEF AckedIsStored
  <2> QED
    BY <2>5, <2>6, <2>7, <2>8
<1>4. ASSUME NEW p \in Pid, Replace(p) \/ Rewrite(p) PROVE FileInv'
  <2>a. /\ proc' = [proc EXCEPT ![p].pc = "ready", ![p].put = 0, ![p].attempt = 0]
        /\ acked' = acked \union {proc[p].put} /\ UNCHANGED <<issued, overlapped>>
        /\ Saving(p)
    BY <1>4 DEF Replace, Rewrite, Saving
  <2>b. tmp' \in [Pid -> FileState] /\ \A q \in Pid \ {p} : tmp'[q] = tmp[q]
    BY <1>4, <1>a, <1>c DEF Replace, Rewrite, CleanUp, TmpOf
  <2>1. /\ proc' = [proc EXCEPT ![p] = [proc[p] EXCEPT !.pc = "ready", !.put = 0, !.attempt = 0]]
        /\ acked' = acked \union {proc[p].put} /\ UNCHANGED <<issued, overlapped>>
        /\ tmp' \in [Pid -> FileState] /\ \A q \in Pid \ {p} : tmp'[q] = tmp[q]
        /\ Saving(p)
    BY <2>a, <2>b, <1>a
  <2>2. file' = proc[p].mem \/ file' = Torn
    BY <1>4 DEF Replace, Rewrite, SaveShape, TmpOf
  <2>3. /\ proc'[p] = [proc[p] EXCEPT !.pc = "ready", !.put = 0, !.attempt = 0]
        /\ \A q \in Pid \ {p} : proc'[q] = proc[q]
    BY <2>1, <1>a
  <2>4. /\ proc'[p].pc = "ready" /\ proc'[p].mem = proc[p].mem /\ proc'[p] \in Process
        /\ proc[p].mem \in Snapshot
    <3>1. proc[p] \in Process
      BY <1>a
    <3>2. proc'[p] = [pc |-> "ready", mem |-> proc[p].mem, attempt |-> 0, put |-> 0]
      BY <3>1, <2>3, ProcessRecord
    <3> QED
      BY <3>1, <3>2, ProcessRecord, MaxAttemptsType DEF PC
  <2>5. proc[p].put \in 1..issued /\ proc[p].put \in proc[p].mem.updates
    BY <2>1 DEF SaveShape
  <2>6. TypeOK'
    BY <2>1, <2>2, <2>3, <2>4, <2>5, <1>a, <1>c DEF TypeOK
  <2>7. SaveShape'
    BY <2>1, <2>3, <2>4 DEF SaveShape, Saving
  <2>8. ~overlapped => acked' \subseteq proc[p].mem.updates
    BY <2>1, <2>5 DEF AloneKnowsAll, Running, Saving
  <2>9. AloneKnowsAll'
    BY <2>1, <2>3, <2>4, <2>8 DEF AloneKnowsAll, Running, Saving
  <2>10. AckedIsStored'
    BY <2>1, <2>2, <2>4, <2>8, <1>c DEF AckedIsStored
  <2> QED
    BY <2>6, <2>7, <2>9, <2>10
<1>5. ASSUME NEW p \in Pid, ReplaceFails(p) PROVE FileInv'
  <2>1. PICK pc \in {"replace", "fallback"} :
          /\ proc' = [proc EXCEPT ![p] = [proc[p] EXCEPT !.attempt = @ + 1, !.pc = pc]]
          /\ pc = "replace" => proc[p].attempt + 1 < MaxAttempts
    BY <1>5 DEF ReplaceFails
  <2>2. /\ proc'[p] = [proc[p] EXCEPT !.attempt = @ + 1, !.pc = pc]
        /\ \A q \in Pid \ {p} : proc'[q] = proc[q]
    BY <2>1, <1>a
  <2>3. proc[p].attempt < MaxAttempts /\ proc[p].attempt \in Nat /\ Saving(p)
        /\ UNCHANGED <<file, tmp, issued, acked, overlapped>>
    BY <1>5, <1>a DEF ReplaceFails, SaveShape, Saving, Process
  <2>4. /\ proc'[p].pc = pc /\ proc'[p].mem = proc[p].mem /\ proc'[p].put = proc[p].put
        /\ proc'[p].attempt = proc[p].attempt + 1 /\ proc'[p] \in Process
    <3>1. proc[p] \in Process
      BY <1>a
    <3>2. proc'[p] = [pc |-> pc, mem |-> proc[p].mem, attempt |-> proc[p].attempt + 1,
                      put |-> proc[p].put]
      BY <3>1, <2>2, ProcessRecord
    <3>3. proc[p].attempt + 1 \in 0..MaxAttempts
      BY <2>3, MaxAttemptsType
    <3> QED
      BY <3>1, <3>2, <3>3, ProcessRecord DEF PC
  <2>5. TypeOK'
    BY <2>1, <2>3, <2>4, <1>a DEF TypeOK
  <2>6. SaveShape'
    BY <2>1, <2>2, <2>3, <2>4, <1>5 DEF SaveShape, Saving, ReplaceFails
  <2>7. AloneKnowsAll'
    BY <2>2, <2>3, <2>4 DEF AloneKnowsAll, Running, Saving
  <2>8. AckedIsStored'
    BY <2>3 DEF AckedIsStored
  <2> QED
    BY <2>5, <2>6, <2>7, <2>8
<1>6. ASSUME NEW p \in Pid, OpenTarget(p) PROVE FileInv'
  <2>1. /\ proc'[p] = [proc[p] EXCEPT !.pc = "rewrite"]
        /\ \A q \in Pid \ {p} : proc'[q] = proc[q]
        /\ file' = Torn /\ Saving(p) /\ UNCHANGED <<tmp, issued, acked, overlapped>>
    BY <1>6, <1>a DEF OpenTarget, Saving
  <2>2. /\ proc'[p].pc = "rewrite" /\ proc'[p].mem = proc[p].mem /\ proc'[p].put = proc[p].put
        /\ proc'[p] \in Process
    BY <2>1, <1>a DEF Process, PC
  <2>3. TypeOK'
    BY <2>1, <2>2, <1>6, <1>a, <1>c DEF TypeOK, OpenTarget
  <2>4. SaveShape'
    BY <2>1, <2>2 DEF SaveShape, Saving
  <2>5. AloneKnowsAll'
    BY <2>1, <2>2 DEF AloneKnowsAll, Running, Saving
  <2>6. AckedIsStored'
    BY <2>1 DEF AckedIsStored
  <2> QED
    BY <2>3, <2>4, <2>5, <2>6
<1>7. ASSUME NEW p \in Pid, OpenTargetFails(p) \/ Exit(p) \/ Crash(p) PROVE FileInv'
  <2>1. /\ proc' = [proc EXCEPT ![p] = NoProcess]
        /\ tmp' \in [Pid -> FileState] /\ \A q \in Pid \ {p} : tmp'[q] = tmp[q]
        /\ UNCHANGED <<file, issued, acked, overlapped>>
    BY <1>7, <1>a, <1>c DEF OpenTargetFails, Exit, Crash, CleanUp, TmpOf
  <2>2. proc'[p].pc = "exit" /\ \A q \in Pid \ {p} : proc'[q] = proc[q]
    BY <2>1, <1>a DEF NoProcess
  <2>3. TypeOK'
    BY <2>1, <1>a, <1>b DEF TypeOK
  <2>4. SaveShape'
    BY <2>1, <2>2 DEF SaveShape, Saving
  <2>5. AloneKnowsAll'
    BY <2>1, <2>2 DEF AloneKnowsAll, Running
  <2>6. AckedIsStored'
    BY <2>1 DEF AckedIsStored
  <2> QED
    BY <2>3, <2>4, <2>5, <2>6
<1>8. CASE UNCHANGED vars
  BY <1>8 DEF vars, TypeOK, SaveShape, AloneKnowsAll, AckedIsStored, Saving, Running
<1> QED
  BY <1>1, <1>2, <1>3, <1>4, <1>5, <1>6, <1>7, <1>8 DEF Next, SaveStep

LEMMA FileAlways == Spec => []FileInv
  BY FileInit, FileStep, PTL DEF Spec

\* Types hold for any number of processes, puts and attempts: what a command finds
\* in the file is a snapshot or torn, and nothing else (Store.load, save).
THEOREM FileTypeCorrect == Spec => []TypeOK
<1>1. FileInv => TypeOK
  BY DEF FileInv
<1> QED
  BY <1>1, FileAlways, PTL

\* No put that has returned is lost while processes do not overlap: for any number
\* of processes, puts and failed attempts and a kill at any point of a save.
THEOREM NoPutLost == Spec => []AckedIsStored
<1>1. FileInv => AckedIsStored
  BY DEF FileInv
<1> QED
  BY <1>1, FileAlways, PTL

\* A save that replaces the file leaves it whole, also when several processes save
\* at once: only the direct write of the fallback can tear it.
THEOREM SavesAreAtomic == Spec => TornByFallbackOnly
<1>1. FileInv /\ [Next]_vars =>
        (file # Torn /\ file' = Torn => \E p \in Pid : proc[p].pc \in {"fallback", "rewrite"})
  <2> SUFFICES ASSUME FileInv, [Next]_vars, file # Torn, file' = Torn
               PROVE  \E p \in Pid : proc[p].pc \in {"fallback", "rewrite"}
    OBVIOUS
  <2>1. PICK p \in Pid : Replace(p) \/ OpenTarget(p) \/ Rewrite(p)
    BY DEF Next, SaveStep, vars, Start, Put, OpenTmp, DumpTmp, ReplaceFails, OpenTargetFails,
           Exit, Crash
  <2>2. ~Replace(p)
    <3> SUFFICES ASSUME Replace(p) PROVE FALSE
      OBVIOUS
    <3>1. file' = proc[p].mem
      BY DEF Replace, TmpOf, FileInv, SaveShape
    <3>2. proc[p].mem \in Snapshot
      BY DEF FileInv, TypeOK, Process
    <3> QED
      BY <3>1, <3>2, FileStates
  <2> QED
    BY <2>1, <2>2 DEF OpenTarget, Rewrite
<1> QED
  BY <1>1, FileAlways, PTL DEF Spec, TornByFallbackOnly
=============================================================================
