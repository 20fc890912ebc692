-------------------------- MODULE InPlaceJobsProofs --------------------------
(***************************************************************************)
(* Proofs about InPlaceJobs for any datasets, jobs, values and effects.    *)
(* TypeCorrect, OrphanKept need nothing else.  The others are for an       *)
(* rmtree of the backup that does not fail half way (RmtreeTears; the run  *)
(* InPlaceJobsTears shows that this is needed), and say of a dataset that  *)
(* has been overtaken only that it has.                                    *)
(***************************************************************************)
EXTENDS InPlaceJobs, TLAPS

(* What the step a worker has reached says of its dataset.                 *)
StepInv(j) ==
    LET d == target[j] IN
    /\ pc[j] \in {"fn", "write", "discard", "undo", "unbuild", "restore"}
         => bak[d] \in Values
    /\ pc[j] = "fn" => dir[d] = Absent
    /\ pc[j] = "write" => dir[d] = Partial /\ read[j] = bak[d]
    /\ pc[j] = "discard" => dir[d] \in Values /\ dir[d] = Effect[j][bak[d]]
    /\ pc[j] = "purge" => bak[d] = Partial /\ dir[d] \in Values
    /\ pc[j] = "rmdir" => bak[d] = Emptied /\ dir[d] \in Values
    /\ pc[j] = "unbuild" => dir[d] = Partial
    /\ pc[j] = "restore" => dir[d] = Absent
    /\ pc[j] # "idle" <=> status[j] \in {"queued", "running"}

(* A dataset without a whole backup is whole at its own path.              *)
DiskInv(d) ==
    bak[d] \notin Values => dir[d] \in Values

(* No worker owns the backup of d.                                         *)
Free(d) == \A j \in Jobs : target[j] = d => pc[j] \notin Owning

(* The rename of no worker has overtaken another on j's dataset.           *)
Alone(j) == target[j] \notin overtaken

IInv ==
    /\ TypeOK
    /\ OneOwner
    /\ \A j \in Jobs : Alone(j) => StepInv(j)
    /\ \A d \in Datasets \ overtaken : DiskInv(d)

----------------------------------------------------------------------------
(* The variables of InPlaceJobs keep their types, whatever rmtree does.    *)
THEOREM TypeCorrect == Spec => []TypeOK
<1>1. Init => TypeOK
  BY DEF Init, TypeOK, NotWhole, Statuses, Steps
<1>2. TypeOK /\ [Next]_vars => TypeOK'
  <2> SUFFICES ASSUME TypeOK, [Next]_vars PROVE TypeOK'
    OBVIOUS
  <2> USE InPlaceAssumption DEF TypeOK, NotWhole, Statuses, Steps
  <2>1. ASSUME NEW j \in Jobs, Submit(j) PROVE TypeOK'
    BY <2>1 DEF Submit
  <2>2. ASSUME NEW j \in Jobs, Start(j) PROVE TypeOK'
    BY <2>2 DEF Start
  <2>3. ASSUME NEW j \in Jobs, RenameToBackup(j) PROVE TypeOK'
    BY <2>3 DEF RenameToBackup, Overtaken
  <2>4. ASSUME NEW j \in Jobs, RenameRaises(j) PROVE TypeOK'
    BY <2>4 DEF RenameRaises
  <2>5. ASSUME NEW j \in Jobs, FnBegin(j) PROVE TypeOK'
    BY <2>5 DEF FnBegin
  <2>6. ASSUME NEW j \in Jobs, FnEnd(j) PROVE TypeOK'
    <3>1. Built(j) \in Values \cup NotWhole
      BY <2>6 DEF FnEnd, Built
    <3> QED
      BY <2>6, <3>1 DEF FnEnd
  <2>7. ASSUME NEW j \in Jobs, FnRaises(j) PROVE TypeOK'
    BY <2>7 DEF FnRaises
  <2>8. ASSUME NEW j \in Jobs, Discard(j) PROVE TypeOK'
    BY <2>8 DEF Discard, DiscardBegin, DiscardEmpty, DiscardEnd
  <2>9. ASSUME NEW j \in Jobs, DiscardRaises(j) PROVE TypeOK'
    BY <2>9 DEF DiscardRaises
  <2>10. ASSUME NEW j \in Jobs, Undo(j) PROVE TypeOK'
    BY <2>10 DEF Undo
  <2>11. ASSUME NEW j \in Jobs, UnbuildEnd(j) PROVE TypeOK'
    BY <2>11 DEF UnbuildEnd
  <2>12. ASSUME NEW j \in Jobs, Restore(j) PROVE TypeOK'
    BY <2>12 DEF Restore
  <2>13. ASSUME NEW j \in Jobs, UndoRaises(j) PROVE TypeOK'
    BY <2>13 DEF UndoRaises
  <2>14. ASSUME NEW j \in Jobs, ReportComplete(j) \/ ReportFailed(j) PROVE TypeOK'
    BY <2>14 DEF ReportComplete, ReportFailed, Finish
  <2>15. CASE Crash
    BY <2>15 DEF Crash
  <2>16. CASE UNCHANGED vars
    BY <2>16 DEF vars
  <2> QED
    BY <2>1, <2>2, <2>3, <2>4, <2>5, <2>6, <2>7, <2>8, <2>9, <2>10, <2>11,
       <2>12, <2>13, <2>14, <2>15, <2>16 DEF Next, Worker
<1> QED
  BY <1>1, <1>2, PTL DEF Spec

----------------------------------------------------------------------------
(* A step of one job leaves the step invariant of another as it was, when  *)
(* the other does not own the dataset the step works on.                   *)
LEMMA OthersKeepStepInv ==
  ASSUME TypeOK, NEW i \in Jobs, NEW d \in Datasets, StepInv(i),
         target' = target, pc'[i] = pc[i], status'[i] = status[i], read'[i] = read[i],
         \A e \in Datasets \ {d} : dir'[e] = dir[e] /\ bak'[e] = bak[e],
         target[i] = d => pc[i] \notin Owning
  PROVE  StepInv(i)'
<1>1. CASE target[i] = d
  BY <1>1 DEF StepInv, Owning
<1>2. CASE target[i] # d
  BY <1>2 DEF StepInv, TypeOK
<1> QED
  BY <1>1, <1>2

(* What a step of job j on its dataset must show for the invariant to hold *)
(* after it, unless the dataset is overtaken: the facts about j and its    *)
(* dataset, and that j owned it before if it touched a directory or owns   *)
(* it now.                                                                 *)
LEMMA OneJobStep ==
  ASSUME IInv, TypeOK', NEW j \in Jobs,
         target' = target,
         overtaken \subseteq overtaken', overtaken' \subseteq overtaken \cup {target[j]},
         \A i \in Jobs \ {j} : pc'[i] = pc[i] /\ status'[i] = status[i] /\ read'[i] = read[i],
         \A e \in Datasets \ {target[j]} : dir'[e] = dir[e] /\ bak'[e] = bak[e],
         Alone(j)' =>
           /\ \/ pc[j] \in Owning
              \/ Free(target[j])
              \/ pc'[j] \notin Owning /\ dir' = dir /\ bak' = bak
           /\ StepInv(j)' /\ DiskInv(target[j])'
  PROVE  IInv'
<1>1. target[j] \in Datasets
  BY DEF IInv, TypeOK
<1>2. ASSUME NEW i \in Jobs \ {j}, target[i] = target[j], Alone(j),
             pc[j] \in Owning \/ Free(target[j])
      PROVE  pc[i] \notin Owning
  BY <1>2 DEF IInv, OneOwner, Free, Alone
<1>3. OneOwner'
  <2> SUFFICES ASSUME NEW i \in Jobs, NEW k \in Jobs, i # k,
                      pc'[i] \in Owning, pc'[k] \in Owning, target[i] = target[k],
                      target[i] \notin overtaken'
               PROVE  FALSE
    BY DEF OneOwner
  <2>1. CASE i # j /\ k # j
    BY <2>1 DEF IInv, OneOwner
  <2>2. CASE i = j \/ k = j
    <3>1. PICK o \in Jobs \ {j} : target[o] = target[j] /\ pc[o] \in Owning
      BY <2>2
    <3>2. Alone(j) /\ Alone(j)' /\ pc'[j] \in Owning
      BY <2>2 DEF Alone
    <3> QED
      BY <1>2, <3>1, <3>2
  <2> QED
    BY <2>1, <2>2
<1>4. ASSUME NEW i \in Jobs, Alone(i)' PROVE StepInv(i)'
  <2>1. CASE i = j
    BY <1>4, <2>1
  <2>2. CASE i # j /\ target[i] # target[j]
    BY <1>1, <1>4, <2>2, OthersKeepStepInv DEF IInv, Alone
  <2>3. CASE i # j /\ target[i] = target[j]
    <3>1. Alone(j) /\ Alone(j)' /\ StepInv(i)
      BY <1>4, <2>3 DEF IInv, Alone
    <3>2. CASE pc[j] \in Owning \/ Free(target[j])
      BY <1>1, <1>2, <2>3, <3>1, <3>2, OthersKeepStepInv DEF IInv
    <3>3. CASE dir' = dir /\ bak' = bak
      BY <2>3, <3>1, <3>3 DEF StepInv
    <3> QED
      BY <3>1, <3>2, <3>3
  <2> QED
    BY <2>1, <2>2, <2>3
<1>5. ASSUME NEW d \in Datasets \ overtaken' PROVE DiskInv(d)'
  <2>1. CASE d = target[j]
    BY <1>5, <2>1 DEF Alone
  <2>2. CASE d # target[j]
    BY <1>5, <2>2 DEF IInv, DiskInv
  <2> QED
    BY <2>1, <2>2
<1> QED
  BY <1>3, <1>4, <1>5 DEF IInv

LEMMA InvInit == Init => IInv
BY InPlaceAssumption
DEF Init, IInv, TypeOK, OneOwner, StepInv, DiskInv, Owning, NotWhole, Statuses, Steps

LEMMA InvNext ==
  ASSUME ~RmtreeTears, IInv, TypeOK', [Next]_vars
  PROVE  IInv'
<1> USE InPlaceAssumption DEF NotWhole
<1>t. \A j \in Jobs : Alone(j) => StepInv(j) /\ DiskInv(target[j])
  BY DEF IInv, TypeOK, Alone
<1>p. \A j \in Jobs : /\ target[j] \in Datasets /\ pc[j] \in Steps /\ status[j] \in Statuses
                      /\ dir[target[j]] \in Values \cup NotWhole
                      /\ bak[target[j]] \in Values \cup NotWhole
  BY DEF IInv, TypeOK
<1>f. /\ dir = [d \in Datasets |-> dir[d]] /\ bak = [d \in Datasets |-> bak[d]]
      /\ pc = [j \in Jobs |-> pc[j]] /\ status = [j \in Jobs |-> status[j]]
      /\ read = [j \in Jobs |-> read[j]]
  BY DEF IInv, TypeOK
<1>1. ASSUME NEW j \in Jobs, Submit(j) PROVE IInv'
  <2>1. Alone(j) => StepInv(j)'
    BY <1>1, <1>t, <1>p, <1>f DEF Submit, StepInv
  <2>2. Alone(j) => DiskInv(target[j])' /\ pc'[j] \notin Owning
    BY <1>1, <1>t, <1>f DEF Submit, DiskInv, Owning
  <2> QED
    BY <1>1, <2>1, <2>2, <1>t, <1>f, <1>p, OneJobStep DEF Alone, Submit
<1>2. ASSUME NEW j \in Jobs, Start(j) PROVE IInv'
  <2>1. Alone(j) => StepInv(j)'
    BY <1>2, <1>t, <1>p, <1>f DEF Start, StepInv
  <2>2. Alone(j) => DiskInv(target[j])' /\ pc'[j] \notin Owning
    BY <1>2, <1>t, <1>f DEF Start, DiskInv, Owning
  <2> QED
    BY <1>2, <2>1, <2>2, <1>t, <1>f, <1>p, OneJobStep DEF Alone, Start
<1>3. ASSUME NEW j \in Jobs, RenameToBackup(j) PROVE IInv'
  <2>0. /\ overtaken \subseteq overtaken' /\ overtaken' \subseteq overtaken \cup {target[j]}
        /\ UNCHANGED <<status, target, read>>
    BY <1>3 DEF RenameToBackup, Overtaken
  <2>1. ASSUME Alone(j)' PROVE Alone(j) /\ Free(target[j])
    <3>1. Alone(j) /\ \A i \in Jobs : pc[i] = "rmdir" => target[i] # target[j]
      BY <1>3, <2>1 DEF RenameToBackup, Overtaken, Alone
    <3>2. ASSUME NEW i \in Jobs, target[i] = target[j] PROVE pc[i] \notin Owning
      <4>1. StepInv(i)
        BY <1>t, <3>1, <3>2 DEF Alone
      <4> QED
        BY <1>3, <3>1, <3>2, <4>1 DEF RenameToBackup, CanRename, StepInv, Owning
    <3> QED
      BY <3>1, <3>2 DEF Free
  <2>2. Alone(j) => bak[target[j]] \notin Values /\ dir[target[j]] \in Values
    BY <1>3, <1>t DEF RenameToBackup, CanRename, DiskInv
  <2>3. Alone(j) => StepInv(j)'
    BY <1>3, <2>2, <1>t, <1>p, <1>f DEF RenameToBackup, StepInv
  <2>4. Alone(j) => DiskInv(target[j])'
    BY <1>3, <2>2, <1>p, <1>t, <1>f DEF RenameToBackup, DiskInv
  <2>5. /\ \A i \in Jobs \ {j} : pc'[i] = pc[i]
        /\ \A e \in Datasets \ {target[j]} : dir'[e] = dir[e] /\ bak'[e] = bak[e]
    BY <1>3, <1>f DEF RenameToBackup
  <2> QED
    BY <2>0, <2>1, <2>3, <2>4, <2>5, OneJobStep
<1>4. ASSUME NEW j \in Jobs, RenameRaises(j) PROVE IInv'
  <2>1. Alone(j) => StepInv(j)'
    BY <1>4, <1>t, <1>p, <1>f DEF RenameRaises, StepInv
  <2>2. Alone(j) => DiskInv(target[j])' /\ pc'[j] \notin Owning
    BY <1>4, <1>t, <1>f DEF RenameRaises, DiskInv, Owning
  <2> QED
    BY <1>4, <2>1, <2>2, <1>t, <1>f, <1>p, OneJobStep DEF Alone, RenameRaises
<1>5. ASSUME NEW j \in Jobs, FnBegin(j) PROVE IInv'
  <2>1. Alone(j) => StepInv(j)'
    BY <1>5, <1>t, <1>p, <1>f DEF FnBegin, StepInv
  <2>2. Alone(j) => DiskInv(target[j])' /\ pc[j] \in Owning
    BY <1>5, <1>t, <1>f DEF FnBegin, StepInv, DiskInv, Owning
  <2> QED
    BY <1>5, <2>1, <2>2, <1>t, <1>f, <1>p, OneJobStep DEF Alone, FnBegin
<1>6. ASSUME NEW j \in Jobs, FnEnd(j) PROVE IInv'
  <2>1. Alone(j) => Built(j) = Effect[j][bak[target[j]]] /\ Built(j) \in Values
    BY <1>6, <1>t DEF FnEnd, Built, StepInv
  <2>2. Alone(j) => StepInv(j)'
    BY <1>6, <2>1, <1>t, <1>p, <1>f DEF FnEnd, StepInv
  <2>3. Alone(j) => DiskInv(target[j])' /\ pc[j] \in Owning
    BY <1>6, <2>1, <1>t, <1>f DEF FnEnd, DiskInv, Owning
  <2> QED
    BY <1>6, <2>2, <2>3, <1>t, <1>f, <1>p, OneJobStep DEF Alone, FnEnd
<1>7. ASSUME NEW j \in Jobs, FnRaises(j) PROVE IInv'
  <2>1. Alone(j) => StepInv(j)'
    BY <1>7, <1>t, <1>p, <1>f DEF FnRaises, StepInv
  <2>2. Alone(j) => DiskInv(target[j])' /\ pc[j] \in Owning
    BY <1>7, <1>t, <1>f DEF FnRaises, StepInv, DiskInv, Owning
  <2> QED
    BY <1>7, <2>1, <2>2, <1>t, <1>f, <1>p, OneJobStep DEF Alone, FnRaises
<1>8. ASSUME NEW j \in Jobs, Discard(j) PROVE IInv'
  <2>1. CASE DiscardBegin(j)
    <3>1. Alone(j) => StepInv(j)'
      BY <2>1, <1>t, <1>p, <1>f DEF DiscardBegin, StepInv
    <3>2. Alone(j) => DiskInv(target[j])' /\ pc[j] \in Owning
      BY <2>1, <1>t, <1>f DEF DiscardBegin, StepInv, DiskInv, Owning
    <3> QED
      BY <2>1, <3>1, <3>2, <1>t, <1>f, <1>p, OneJobStep DEF Alone, DiscardBegin
  <2>2. CASE DiscardEmpty(j)
    <3>1. Alone(j) => StepInv(j)'
      BY <2>2, <1>t, <1>p, <1>f DEF DiscardEmpty, StepInv
    <3>2. Alone(j) => DiskInv(target[j])' /\ pc[j] \in Owning
      BY <2>2, <1>t, <1>f DEF DiscardEmpty, StepInv, DiskInv, Owning
    <3> QED
      BY <2>2, <3>1, <3>2, <1>t, <1>f, <1>p, OneJobStep DEF Alone, DiscardEmpty
  <2>3. CASE DiscardEnd(j)
    <3>1. Alone(j) => StepInv(j)'
      BY <2>3, <1>t, <1>p, <1>f DEF DiscardEnd, StepInv
    <3>2. Alone(j) => DiskInv(target[j])' /\ pc[j] \in Owning
      BY <2>3, <1>t, <1>f DEF DiscardEnd, StepInv, DiskInv, Owning
    <3> QED
      BY <2>3, <3>1, <3>2, <1>t, <1>f, <1>p, OneJobStep DEF Alone, DiscardEnd
  <2> QED
    BY <1>8, <2>1, <2>2, <2>3 DEF Discard
<1>9. ASSUME NEW j \in Jobs, DiscardRaises(j) PROVE IInv'
  <2>1. Alone(j) => pc[j] = "discard"
    BY <1>9, <1>t DEF DiscardRaises, StepInv
  <2>2. Alone(j) => StepInv(j)'
    BY <1>9, <2>1, <1>t, <1>p, <1>f DEF DiscardRaises, StepInv
  <2>3. Alone(j) => DiskInv(target[j])' /\ pc[j] \in Owning
    BY <1>9, <2>1, <1>t, <1>f DEF DiscardRaises, DiskInv, Owning
  <2> QED
    BY <1>9, <2>2, <2>3, <1>t, <1>f, <1>p, OneJobStep DEF Alone, DiscardRaises
<1>10. ASSUME NEW j \in Jobs, Undo(j) PROVE IInv'
  <2>1. Alone(j) => StepInv(j)'
    BY <1>10, <1>t, <1>p, <1>f DEF Undo, StepInv
  <2>2. Alone(j) => DiskInv(target[j])' /\ pc[j] \in Owning
    BY <1>10, <1>t, <1>f DEF Undo, StepInv, DiskInv, Owning
  <2> QED
    BY <1>10, <2>1, <2>2, <1>t, <1>f, <1>p, OneJobStep DEF Alone, Undo
<1>11. ASSUME NEW j \in Jobs, UnbuildEnd(j) PROVE IInv'
  <2>1. Alone(j) => StepInv(j)'
    BY <1>11, <1>t, <1>p, <1>f DEF UnbuildEnd, StepInv
  <2>2. Alone(j) => DiskInv(target[j])' /\ pc[j] \in Owning
    BY <1>11, <1>t, <1>f DEF UnbuildEnd, StepInv, DiskInv, Owning
  <2> QED
    BY <1>11, <2>1, <2>2, <1>t, <1>f, <1>p, OneJobStep DEF Alone, UnbuildEnd
<1>12. ASSUME NEW j \in Jobs, Restore(j) PROVE IInv'
  <2>1. Alone(j) => StepInv(j)'
    BY <1>12, <1>t, <1>p, <1>f DEF Restore, StepInv
  <2>2. Alone(j) => DiskInv(target[j])' /\ pc[j] \in Owning
    BY <1>12, <1>t, <1>f DEF Restore, StepInv, DiskInv, Owning
  <2> QED
    BY <1>12, <2>1, <2>2, <1>t, <1>f, <1>p, OneJobStep DEF Alone, Restore
<1>13. ASSUME NEW j \in Jobs, UndoRaises(j) PROVE IInv'
  <2>1. Alone(j) => StepInv(j)'
    BY <1>13, <1>t, <1>p, <1>f DEF UndoRaises, StepInv
  <2>2. Alone(j) => DiskInv(target[j])' /\ pc[j] \in Owning
    BY <1>13, <1>t, <1>f DEF UndoRaises, StepInv, DiskInv, Owning
  <2> QED
    BY <1>13, <2>1, <2>2, <1>t, <1>f, <1>p, OneJobStep DEF Alone, UndoRaises
<1>14. ASSUME NEW j \in Jobs, ReportComplete(j) \/ ReportFailed(j) PROVE IInv'
  <2>1. Alone(j) => StepInv(j)'
    BY <1>14, <1>t, <1>p, <1>f DEF ReportComplete, ReportFailed, Finish, StepInv
  <2>2. Alone(j) => DiskInv(target[j])' /\ pc'[j] \notin Owning
    BY <1>14, <1>t, <1>f DEF ReportComplete, ReportFailed, Finish, DiskInv, Owning
  <2> QED
    BY <1>14, <2>1, <2>2, <1>t, <1>f, <1>p, OneJobStep DEF Alone, ReportComplete, ReportFailed, Finish
<1>15. CASE Crash
  <2>1. OneOwner' /\ \A j \in Jobs : Alone(j)' => Alone(j)
    BY <1>15 DEF Crash, OneOwner, Owning, Alone
  <2>2. ASSUME NEW j \in Jobs, Alone(j) PROVE StepInv(j)'
    BY <1>15, <2>2, <1>t, <1>p, <1>f DEF Crash, StepInv
  <2>3. \A d \in Datasets \ overtaken' : DiskInv(d)'
    BY <1>15 DEF Crash, IInv, DiskInv
  <2> QED
    BY <2>1, <2>2, <2>3 DEF IInv
<1>16. CASE UNCHANGED vars
  BY <1>16 DEF vars, IInv, OneOwner, StepInv, DiskInv, Alone
<1> QED
  BY <1>1, <1>2, <1>3, <1>4, <1>5, <1>6, <1>7, <1>8, <1>9, <1>10, <1>11,
     <1>12, <1>13, <1>14, <1>15, <1>16 DEF Next, Worker

(* While rmtrees go through, each worker whose dataset is not overtaken     *)
(* finds on disk what the line it is at supposes (_run_with_backup).        *)
THEOREM Invariance ==
  ASSUME ~RmtreeTears
  PROVE  Spec => []IInv
<1>1. IInv /\ TypeOK' /\ [Next]_vars => IInv'
  BY InvNext
<1> QED
  BY <1>1, InvInit, TypeCorrect, PTL DEF Spec

(* Two workers own the backup of one dataset only when the second renamed  *)
(* between the last unlink and the rmdir of the first one's rmtree: the    *)
(* rename of _run_with_backup excludes it at every other moment.           *)
THEOREM BackupHasOneOwner ==
  ASSUME ~RmtreeTears
  PROVE  Spec => []OneOwner
<1>1. IInv => OneOwner
  BY DEF IInv
<1> QED
  BY <1>1, Invariance, PTL

(* A complete copy of every dataset that was not overtaken is on disk at   *)
(* every moment.                                                           *)
THEOREM CopySurvives ==
  ASSUME ~RmtreeTears
  PROVE  Spec => []ACopySurvives
<1>1. IInv => ACopySurvives
  BY DEF IInv, DiskInv, ACopySurvives
<1> QED
  BY <1>1, Invariance, PTL

----------------------------------------------------------------------------
(* A backup left without an owner is never touched, nor the directory      *)
(* beside it: the only step open to a job on that dataset is the rename,   *)
(* and the rename refuses an existing backup.                              *)
THEOREM OrphanKept == Spec => OrphanIsKept
<1> DEFINE Kept == \A d \in Datasets : Orphaned(d) => dir'[d] = dir[d] /\ bak'[d] = bak[d]
<1>1. TypeOK /\ [Next]_vars => [Kept]_vars
  <2> SUFFICES ASSUME TypeOK, Next, NEW d \in Datasets, Orphaned(d)
               PROVE  dir'[d] = dir[d] /\ bak'[d] = bak[d]
    OBVIOUS
  <2>t. \A j \in Jobs : /\ target[j] \in Datasets
                        /\ pc[j] \in Owning => target[j] # d
    BY DEF TypeOK, Orphaned
  <2>f. dir \in [Datasets -> Values \cup NotWhole] /\ bak \in [Datasets -> Values \cup NotWhole]
    BY DEF TypeOK
  <2>b. bak[d] \notin {Absent, Emptied}
    BY DEF Orphaned
  <2>1. ASSUME NEW j \in Jobs, RenameToBackup(j) PROVE dir'[d] = dir[d] /\ bak'[d] = bak[d]
    BY <2>1, <2>t, <2>f, <2>b DEF RenameToBackup, CanRename
  <2>2. ASSUME NEW j \in Jobs, FnBegin(j) \/ FnEnd(j) PROVE dir'[d] = dir[d] /\ bak'[d] = bak[d]
    BY <2>2, <2>t, <2>f DEF FnBegin, FnEnd, Owning
  <2>3. ASSUME NEW j \in Jobs, Discard(j) PROVE dir'[d] = dir[d] /\ bak'[d] = bak[d]
    BY <2>3, <2>t, <2>f DEF Discard, DiscardBegin, DiscardEmpty, DiscardEnd, Owning
  <2>4. ASSUME NEW j \in Jobs, Undo(j) \/ UnbuildEnd(j) \/ Restore(j)
        PROVE  dir'[d] = dir[d] /\ bak'[d] = bak[d]
    BY <2>4, <2>t, <2>f DEF Undo, UnbuildEnd, Restore, Owning
  <2>5. ASSUME UNCHANGED <<dir, bak>> PROVE dir'[d] = dir[d] /\ bak'[d] = bak[d]
    BY <2>5
  <2> QED
    BY <2>1, <2>2, <2>3, <2>4, <2>5
    DEF Next, Worker, Submit, Start, RenameRaises, FnRaises, DiscardRaises, UndoRaises,
        ReportComplete, ReportFailed, Finish, Crash
<1> QED
  BY <1>1, TypeCorrect, PTL DEF Spec, OrphanIsKept

----------------------------------------------------------------------------
(* The initial states and the steps of InPlaceJobs map to those of         *)
(* AtomicReplace: DiscardBegin, the first removal from the backup, is the  *)
(* step that applies the job.                                              *)
LEMMA AtomicInit == Init => Atomic!Init
BY InPlaceAssumption DEF Init, Atomic!Init, Content, Phase, NotWhole

LEMMA AtomicStep ==
  ASSUME ~RmtreeTears, IInv, IInv', [Next]_vars, overtaken' = {}
  PROVE  [Atomic!Next]_(Atomic!vars)
<1> USE InPlaceAssumption DEF NotWhole
<1>o. overtaken = {}
  BY DEF Next, Worker, Discard, Submit, Start, RenameToBackup, Overtaken, RenameRaises, FnBegin,
     FnEnd, FnRaises, DiscardBegin, DiscardEmpty, DiscardEnd, DiscardRaises, Undo, UnbuildEnd,
     Restore, UndoRaises, ReportComplete, ReportFailed, Finish, Crash, vars
<1>t. \A j \in Jobs : StepInv(j) /\ target[j] \in Datasets
  BY <1>o DEF IInv, TypeOK, Alone
<1>d. \A d \in Datasets : DiskInv(d)
  BY <1>o DEF IInv
<1>f. /\ dir \in [Datasets -> Values \cup NotWhole] /\ bak \in [Datasets -> Values \cup NotWhole]
      /\ pc \in [Jobs -> Steps] /\ status \in [Jobs -> Statuses]
  BY DEF IInv, TypeOK
<1> DEFINE Still == Content' = Content /\ target' = target
           Moved(j, step) == Phase' = [Phase EXCEPT ![j] = step]
<1>c. dir' = dir /\ bak' = bak => Content' = Content
  BY DEF Content
<1>1. ASSUME NEW j \in Jobs, Submit(j) PROVE Atomic!Submit(j)
  <2>1. Still BY <1>1, <1>c DEF Submit
  <2>2. Phase[j] = "none" /\ Moved(j, "pending")
    BY <1>1, <1>f DEF Submit, Phase, Steps, Statuses
  <2> QED
    BY <2>1, <2>2 DEF Atomic!Submit
<1>2. ASSUME NEW j \in Jobs, DiscardBegin(j) PROVE Atomic!Apply(j)
  <2> DEFINE d == target[j]
  <2>0. d \in Datasets /\ bak[d] \in Values /\ dir[d] = Effect[j][bak[d]] /\ dir[d] \in Values
    BY <1>2, <1>t DEF DiscardBegin, StepInv
  <2>1. Content[d] = bak[d]
    BY <2>0 DEF Content
  <2>2. Content' = [Content EXCEPT ![d] = dir[d]]
    BY <1>2, <1>f, <2>0 DEF DiscardBegin, Content
  <2>3. Phase[j] = "pending" /\ Moved(j, "applied")
    BY <1>2, <1>f, <1>t DEF DiscardBegin, Phase, StepInv
  <2> QED
    BY <1>2, <2>0, <2>1, <2>2, <2>3 DEF DiscardBegin, Atomic!Apply
<1>3. ASSUME NEW j \in Jobs, ReportComplete(j) PROVE Atomic!Complete(j)
  <2>1. Still BY <1>3, <1>c DEF ReportComplete, Finish
  <2>2. Phase[j] = "applied" /\ Moved(j, "complete")
    BY <1>3, <1>f, <1>t DEF ReportComplete, Finish, Phase, StepInv
  <2> QED
    BY <2>1, <2>2 DEF Atomic!Complete
<1>4. ASSUME NEW j \in Jobs, ReportFailed(j) PROVE Atomic!Fail(j)
  <2>1. Still BY <1>4, <1>c DEF ReportFailed, Finish
  <2>2. Phase[j] = "pending" /\ Moved(j, "failed")
    BY <1>4, <1>f, <1>t DEF ReportFailed, Finish, Phase, StepInv
  <2> QED
    BY <2>1, <2>2 DEF Atomic!Fail
<1>5. ASSUME Crash PROVE Atomic!Restart
  <2>1. Still BY <1>5, <1>c DEF Crash
  <2>2. Phase' = [j \in Jobs |-> IF Phase[j] = "none" THEN "none" ELSE "lost"]
    BY <1>5, <1>f DEF Crash, Phase, Statuses
  <2> QED
    BY <2>1, <2>2 DEF Atomic!Restart
<1>6. ASSUME NEW j \in Jobs,
             \/ Start(j) \/ RenameToBackup(j) \/ RenameRaises(j)
             \/ FnBegin(j) \/ FnEnd(j) \/ FnRaises(j)
             \/ DiscardEmpty(j) \/ DiscardEnd(j) \/ DiscardRaises(j)
             \/ Undo(j) \/ UnbuildEnd(j) \/ Restore(j) \/ UndoRaises(j)
      PROVE  UNCHANGED Atomic!vars
  <2>1. Content' = Content
    <3> USE <1>t, <1>d, <1>f DEF Content, StepInv, DiskInv
    <3>1. CASE dir' = dir /\ bak' = bak
      BY <3>1
    <3>2. CASE RenameToBackup(j)
      BY <3>2 DEF RenameToBackup, CanRename
    <3>3. CASE FnBegin(j) \/ FnEnd(j)
      BY <3>3 DEF FnBegin, FnEnd
    <3>4. CASE DiscardEmpty(j) \/ DiscardEnd(j)
      BY <3>4 DEF DiscardEmpty, DiscardEnd
    <3>5. CASE Undo(j) \/ UnbuildEnd(j)
      BY <3>5 DEF Undo, UnbuildEnd
    <3>6. CASE Restore(j)
      BY <3>6 DEF Restore, CanRename
    <3> QED
      BY <1>6, <3>1, <3>2, <3>3, <3>4, <3>5, <3>6
      DEF Start, RenameRaises, FnRaises, DiscardRaises, UndoRaises
  <2>2. Phase' = Phase
    <3>1. \A i \in Jobs \ {j} : pc'[i] = pc[i] /\ status'[i] = status[i]
      BY <1>6, <1>f DEF Start, RenameToBackup, RenameRaises, FnBegin, FnEnd, FnRaises,
         DiscardEmpty, DiscardEnd, DiscardRaises, Undo, UnbuildEnd, Restore, UndoRaises
    <3>2. /\ status[j] \in {"queued", "running"} /\ status'[j] \in {"queued", "running"}
          /\ pc[j] \in {"purge", "rmdir", "ok"} <=> pc'[j] \in {"purge", "rmdir", "ok"}
      BY <1>6, <1>f, <1>t
      DEF Start, RenameToBackup, RenameRaises, FnBegin, FnEnd, FnRaises,
          DiscardEmpty, DiscardEnd, DiscardRaises, Undo, UnbuildEnd, Restore, UndoRaises, StepInv
    <3> QED
      BY <3>1, <3>2 DEF Phase
  <2>3. target' = target
    BY <1>6 DEF Start, RenameToBackup, RenameRaises, FnBegin, FnEnd, FnRaises,
       DiscardEmpty, DiscardEnd, DiscardRaises, Undo, UnbuildEnd, Restore, UndoRaises
  <2> QED
    BY <2>1, <2>2, <2>3 DEF Atomic!vars
<1>7. ASSUME UNCHANGED vars PROVE UNCHANGED Atomic!vars
  BY <1>7 DEF vars, Atomic!vars, Content, Phase
<1> QED
  BY <1>1, <1>2, <1>3, <1>4, <1>5, <1>6, <1>7
  DEF Next, Worker, Discard, Atomic!Next

(* In-place jobs implement AtomicReplace: each one rewrites its dataset in *)
(* a single step or not at all, "complete" means that it did and "failed"  *)
(* that it did not, as long as no dataset has been overtaken.              *)
THEOREM ImplementsAtomicReplace ==
  ASSUME ~RmtreeTears
  PROVE  Spec => JobsAreAtomic
<1>1. IInv /\ IInv' /\ [Next]_vars => [overtaken' # {} \/ Atomic!Next]_(Atomic!vars)
  BY AtomicStep
<1> QED
  BY <1>1, AtomicInit, Invariance, PTL DEF Spec, JobsAreAtomic
==============================================================================
