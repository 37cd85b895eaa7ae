-------------------------- MODULE NodeServiceProofs --------------------------
(***************************************************************************)
(* Proofs about NodeService, for any sets of jobs, names and               *)
(* configurations, any max_concurrency, with and without a reload command. *)
(* IInv ties the lock to the step a job is at, a step to the kind of       *)
(* request, and a step to what the files already hold when it is reached.  *)
(***************************************************************************)
EXTENDS NodeService, FiniteSetTheorems, TLAPS

\* deployMu is held by the job that is past Lock and has not answered.
LockInv == \A j \in Job : holder = j <=> pc[j] \in ChangeSteps

\* A job is at the steps of its own request.
JobInv == \A j \in Job :
  /\ pc[j] \in {"lock"} \union ChangeSteps => job[j] \in Changes
  /\ pc[j] \in {"idle", "done"} => job[j] = None
  /\ pc[j] \in QuerySteps => job[j] \in Queries
  /\ pc[j] \in DeploySteps => job[j].op = "deploy"
  /\ pc[j] \in RemoveSteps => job[j].op = "remove"

\* What has been done when a step is reached.
Done(j) ==
  LET n == job[j].name c == job[j].config IN
  /\ pc[j] \in {"writeBird", "up", "reload"} \union RemoveSteps => n \in unsure
  /\ pc[j] = "down" /\ job[j].op = "deploy" => n \in unsure
  /\ pc[j] \in {"writeBird", "up", "reload"} => wireguard[n] = c
  /\ pc[j] = "down" /\ job[j].op = "deploy" => wireguard[n] = c
  /\ pc[j] \in {"up", "reload"} => bird[n] = c
  /\ pc[j] = "down" /\ job[j].op = "deploy" => bird[n] = c
  /\ pc[j] = "removeBird" => wireguard[n] = None
  /\ pc[j] = "reload" /\ job[j].op = "deploy" => interface[n] = c

DoneInv == \A j \in Job : Done(j)

SlotInv == IsFiniteSet(slots) /\ SlotsInUse

IInv == TypeOK /\ LockInv /\ JobInv /\ DoneInv /\ SettledAgree /\ SlotInv

USE DistinctAssumption, ConcurrencyAssumption, ReloadAssumption, NoneIsNoRequest
    DEF router, Changes, Queries, DeploySteps, RemoveSteps, ChangeSteps, QuerySteps, Answers,
        Content

-----------------------------------------------------------------------------
(* Every step preserves the type invariant. *)
LEMMA TypeStep == TypeOK /\ JobInv /\ [Next]_vars => TypeOK'
<1> SUFFICES ASSUME TypeOK, JobInv, [Next]_vars PROVE TypeOK'
  OBVIOUS
<1>1. ASSUME NEW j \in Job, NEW w \in Changes, SubmitChange(j, w)
      PROVE  TypeOK'
  BY <1>1 DEF SubmitChange, At, TypeOK, JobInv
<1>2. ASSUME NEW j \in Job, NEW w \in Queries, SubmitQuery(j, w)
      PROVE  TypeOK'
  BY <1>2 DEF SubmitQuery, At, TryAcquire, TypeOK, JobInv
<1>3. ASSUME NEW j \in Job, Birdc(j)
      PROVE  TypeOK'
  BY <1>3 DEF Birdc, At, Goto, TypeOK, JobInv
<1>4. ASSUME NEW j \in Job, EndQuery(j)
      PROVE  TypeOK'
  BY <1>4 DEF EndQuery, At, TypeOK, JobInv
<1>5. ASSUME NEW j \in Job, Lock(j)
      PROVE  TypeOK'
  BY <1>5 DEF Lock, At, Goto, TypeOK, JobInv
<1>6. ASSUME NEW j \in Job, Check(j)
      PROVE  TypeOK'
  BY <1>6 DEF Check, At, Goto, Finish, TypeOK, JobInv
<1>7. ASSUME NEW j \in Job, WriteWireGuard(j)
      PROVE  TypeOK'
  BY <1>7 DEF WriteWireGuard, At, Goto, Finish, TypeOK, JobInv
<1>8. ASSUME NEW j \in Job, WriteBird(j)
      PROVE  TypeOK'
  BY <1>8 DEF WriteBird, At, Goto, Finish, TypeOK, JobInv
<1>9. ASSUME NEW j \in Job, Down(j)
      PROVE  TypeOK'
  BY <1>9 DEF Down, At, Goto, Effects, TypeOK, JobInv
<1>10. ASSUME NEW j \in Job, Up(j)
      PROVE  TypeOK'
  BY <1>10 DEF Up, At, Goto, Finish, Effects, Proceed, TypeOK, JobInv
<1>11. ASSUME NEW j \in Job, RemoveWireGuard(j)
      PROVE  TypeOK'
  BY <1>11 DEF RemoveWireGuard, At, Goto, Finish, TypeOK, JobInv
<1>12. ASSUME NEW j \in Job, RemoveBird(j)
      PROVE  TypeOK'
  BY <1>12 DEF RemoveBird, At, Goto, Finish, Proceed, TypeOK, JobInv
<1>13. ASSUME NEW j \in Job, ReloadBird(j)
      PROVE  TypeOK'
  BY <1>13 DEF ReloadBird, At, Finish, Effects, TypeOK, JobInv
<1>14. ASSUME NEW j \in Job, Forget(j)
      PROVE  TypeOK'
  BY <1>14 DEF Forget, At, TypeOK, JobInv
<1>15. ASSUME Stop PROVE TypeOK'
  BY <1>15 DEF Stop, TypeOK, JobInv
<1>16. ASSUME UNCHANGED vars PROVE TypeOK'
  BY <1>16 DEF vars, At, TypeOK, JobInv
<1> QED
  BY <1>1, <1>2, <1>3, <1>4, <1>5, <1>6, <1>7, <1>8, <1>9, <1>10, <1>11, <1>12, <1>13, <1>14, <1>15, <1>16 DEF Next, ChangeStep

(* Only one job at a time is between Lock and its answer. *)
LEMMA LockStep == TypeOK /\ LockInv /\ [Next]_vars => LockInv'
<1> SUFFICES ASSUME TypeOK, LockInv, [Next]_vars PROVE LockInv'
  OBVIOUS
<1>1. ASSUME NEW j \in Job, NEW w \in Changes, SubmitChange(j, w)
      PROVE  LockInv'
  BY <1>1 DEF SubmitChange, At, TypeOK, LockInv
<1>2. ASSUME NEW j \in Job, NEW w \in Queries, SubmitQuery(j, w)
      PROVE  LockInv'
  BY <1>2 DEF SubmitQuery, At, TryAcquire, TypeOK, LockInv
<1>3. ASSUME NEW j \in Job, Birdc(j)
      PROVE  LockInv'
  BY <1>3 DEF Birdc, At, Goto, TypeOK, LockInv
<1>4. ASSUME NEW j \in Job, EndQuery(j)
      PROVE  LockInv'
  BY <1>4 DEF EndQuery, At, TypeOK, LockInv
<1>5. ASSUME NEW j \in Job, Lock(j)
      PROVE  LockInv'
  BY <1>5 DEF Lock, At, Goto, TypeOK, LockInv
<1>6. ASSUME NEW j \in Job, Check(j)
      PROVE  LockInv'
  BY <1>6 DEF Check, At, Goto, Finish, TypeOK, LockInv
<1>7. ASSUME NEW j \in Job, WriteWireGuard(j)
      PROVE  LockInv'
  BY <1>7 DEF WriteWireGuard, At, Goto, Finish, TypeOK, LockInv
<1>8. ASSUME NEW j \in Job, WriteBird(j)
      PROVE  LockInv'
  BY <1>8 DEF WriteBird, At, Goto, Finish, TypeOK, LockInv
<1>9. ASSUME NEW j \in Job, Down(j)
      PROVE  LockInv'
  BY <1>9 DEF Down, At, Goto, Effects, TypeOK, LockInv
<1>10. ASSUME NEW j \in Job, Up(j)
      PROVE  LockInv'
  BY <1>10 DEF Up, At, Goto, Finish, Effects, Proceed, TypeOK, LockInv
<1>11. ASSUME NEW j \in Job, RemoveWireGuard(j)
      PROVE  LockInv'
  BY <1>11 DEF RemoveWireGuard, At, Goto, Finish, TypeOK, LockInv
<1>12. ASSUME NEW j \in Job, RemoveBird(j)
      PROVE  LockInv'
  BY <1>12 DEF RemoveBird, At, Goto, Finish, Proceed, TypeOK, LockInv
<1>13. ASSUME NEW j \in Job, ReloadBird(j)
      PROVE  LockInv'
  BY <1>13 DEF ReloadBird, At, Finish, Effects, TypeOK, LockInv
<1>14. ASSUME NEW j \in Job, Forget(j)
      PROVE  LockInv'
  BY <1>14 DEF Forget, At, TypeOK, LockInv
<1>15. ASSUME Stop PROVE LockInv'
  BY <1>15 DEF Stop, TypeOK, LockInv
<1>16. ASSUME UNCHANGED vars PROVE LockInv'
  BY <1>16 DEF vars, At, TypeOK, LockInv
<1> QED
  BY <1>1, <1>2, <1>3, <1>4, <1>5, <1>6, <1>7, <1>8, <1>9, <1>10, <1>11, <1>12, <1>13, <1>14, <1>15, <1>16 DEF Next, ChangeStep

(* A job keeps to the steps of its request. *)
LEMMA JobStep == TypeOK /\ JobInv /\ [Next]_vars => JobInv'
<1> SUFFICES ASSUME TypeOK, JobInv, [Next]_vars PROVE JobInv'
  OBVIOUS
<1>1. ASSUME NEW j \in Job, NEW w \in Changes, SubmitChange(j, w)
      PROVE  JobInv'
  BY <1>1 DEF SubmitChange, At, TypeOK, JobInv
<1>2. ASSUME NEW j \in Job, NEW w \in Queries, SubmitQuery(j, w)
      PROVE  JobInv'
  BY <1>2 DEF SubmitQuery, At, TryAcquire, TypeOK, JobInv
<1>3. ASSUME NEW j \in Job, Birdc(j)
      PROVE  JobInv'
  BY <1>3 DEF Birdc, At, Goto, TypeOK, JobInv
<1>4. ASSUME NEW j \in Job, EndQuery(j)
      PROVE  JobInv'
  BY <1>4 DEF EndQuery, At, TypeOK, JobInv
<1>5. ASSUME NEW j \in Job, Lock(j)
      PROVE  JobInv'
  BY <1>5 DEF Lock, At, Goto, TypeOK, JobInv
<1>6. ASSUME NEW j \in Job, Check(j)
      PROVE  JobInv'
  BY <1>6 DEF Check, At, Goto, Finish, TypeOK, JobInv
<1>7. ASSUME NEW j \in Job, WriteWireGuard(j)
      PROVE  JobInv'
  BY <1>7 DEF WriteWireGuard, At, Goto, Finish, TypeOK, JobInv
<1>8. ASSUME NEW j \in Job, WriteBird(j)
      PROVE  JobInv'
  BY <1>8 DEF WriteBird, At, Goto, Finish, TypeOK, JobInv
<1>9. ASSUME NEW j \in Job, Down(j)
      PROVE  JobInv'
  BY <1>9 DEF Down, At, Goto, Effects, TypeOK, JobInv
<1>10. ASSUME NEW j \in Job, Up(j)
      PROVE  JobInv'
  BY <1>10 DEF Up, At, Goto, Finish, Effects, Proceed, TypeOK, JobInv
<1>11. ASSUME NEW j \in Job, RemoveWireGuard(j)
      PROVE  JobInv'
  BY <1>11 DEF RemoveWireGuard, At, Goto, Finish, TypeOK, JobInv
<1>12. ASSUME NEW j \in Job, RemoveBird(j)
      PROVE  JobInv'
  BY <1>12 DEF RemoveBird, At, Goto, Finish, Proceed, TypeOK, JobInv
<1>13. ASSUME NEW j \in Job, ReloadBird(j)
      PROVE  JobInv'
  BY <1>13 DEF ReloadBird, At, Finish, Effects, TypeOK, JobInv
<1>14. ASSUME NEW j \in Job, Forget(j)
      PROVE  JobInv'
  BY <1>14 DEF Forget, At, TypeOK, JobInv
<1>15. ASSUME Stop PROVE JobInv'
  BY <1>15 DEF Stop, TypeOK, JobInv
<1>16. ASSUME UNCHANGED vars PROVE JobInv'
  BY <1>16 DEF vars, At, TypeOK, JobInv
<1> QED
  BY <1>1, <1>2, <1>3, <1>4, <1>5, <1>6, <1>7, <1>8, <1>9, <1>10, <1>11, <1>12, <1>13, <1>14, <1>15, <1>16 DEF Next, ChangeStep

(* A step finds what the steps before it did: no other job came in between. *)
LEMMA DoneStep == TypeOK /\ LockInv /\ JobInv /\ DoneInv /\ [Next]_vars => DoneInv'
<1> SUFFICES ASSUME TypeOK, LockInv, JobInv, DoneInv, [Next]_vars PROVE DoneInv'
  OBVIOUS
<1>1. ASSUME NEW j \in Job, NEW w \in Changes, SubmitChange(j, w)
      PROVE  DoneInv'
  BY <1>1 DEF SubmitChange, At, TypeOK, LockInv, JobInv, DoneInv, Done
<1>2. ASSUME NEW j \in Job, NEW w \in Queries, SubmitQuery(j, w)
      PROVE  DoneInv'
  BY <1>2 DEF SubmitQuery, At, TryAcquire, TypeOK, LockInv, JobInv, DoneInv, Done
<1>3. ASSUME NEW j \in Job, Birdc(j)
      PROVE  DoneInv'
  BY <1>3 DEF Birdc, At, Goto, TypeOK, LockInv, JobInv, DoneInv, Done
<1>4. ASSUME NEW j \in Job, EndQuery(j)
      PROVE  DoneInv'
  BY <1>4 DEF EndQuery, At, TypeOK, LockInv, JobInv, DoneInv, Done
<1>5. ASSUME NEW j \in Job, Lock(j)
      PROVE  DoneInv'
  BY <1>5 DEF Lock, At, Goto, TypeOK, LockInv, JobInv, DoneInv, Done
<1>6. ASSUME NEW j \in Job, Check(j)
      PROVE  DoneInv'
  BY <1>6 DEF Check, At, Goto, Finish, TypeOK, LockInv, JobInv, DoneInv, Done
<1>7. ASSUME NEW j \in Job, WriteWireGuard(j)
      PROVE  DoneInv'
  BY <1>7 DEF WriteWireGuard, At, Goto, Finish, TypeOK, LockInv, JobInv, DoneInv, Done
<1>8. ASSUME NEW j \in Job, WriteBird(j)
      PROVE  DoneInv'
  BY <1>8 DEF WriteBird, At, Goto, Finish, TypeOK, LockInv, JobInv, DoneInv, Done
<1>9. ASSUME NEW j \in Job, Down(j)
      PROVE  DoneInv'
  BY <1>9 DEF Down, At, Goto, Effects, TypeOK, LockInv, JobInv, DoneInv, Done
<1>10. ASSUME NEW j \in Job, Up(j)
      PROVE  DoneInv'
  BY <1>10 DEF Up, At, Goto, Finish, Effects, Proceed, TypeOK, LockInv, JobInv, DoneInv, Done
<1>11. ASSUME NEW j \in Job, RemoveWireGuard(j)
      PROVE  DoneInv'
  BY <1>11 DEF RemoveWireGuard, At, Goto, Finish, TypeOK, LockInv, JobInv, DoneInv, Done
<1>12. ASSUME NEW j \in Job, RemoveBird(j)
      PROVE  DoneInv'
  BY <1>12 DEF RemoveBird, At, Goto, Finish, Proceed, TypeOK, LockInv, JobInv, DoneInv, Done
<1>13. ASSUME NEW j \in Job, ReloadBird(j)
      PROVE  DoneInv'
  BY <1>13 DEF ReloadBird, At, Finish, Effects, TypeOK, LockInv, JobInv, DoneInv, Done
<1>14. ASSUME NEW j \in Job, Forget(j)
      PROVE  DoneInv'
  BY <1>14 DEF Forget, At, TypeOK, LockInv, JobInv, DoneInv, Done
<1>15. ASSUME Stop PROVE DoneInv'
  BY <1>15 DEF Stop, TypeOK, LockInv, JobInv, DoneInv, Done
<1>16. ASSUME UNCHANGED vars PROVE DoneInv'
  BY <1>16 DEF vars, At, TypeOK, LockInv, JobInv, DoneInv, Done
<1> QED
  BY <1>1, <1>2, <1>3, <1>4, <1>5, <1>6, <1>7, <1>8, <1>9, <1>10, <1>11, <1>12, <1>13, <1>14, <1>15, <1>16 DEF Next, ChangeStep

(* A peer that is not unsure stays settled. *)
LEMMA SettledStep == TypeOK /\ JobInv /\ DoneInv /\ SettledAgree /\ [Next]_vars => SettledAgree'
<1> SUFFICES ASSUME TypeOK, JobInv, DoneInv, SettledAgree, [Next]_vars PROVE SettledAgree'
  OBVIOUS
<1>1. ASSUME NEW j \in Job, NEW w \in Changes, SubmitChange(j, w)
      PROVE  SettledAgree'
  BY <1>1 DEF SubmitChange, At, TypeOK, JobInv, DoneInv, Done, SettledAgree
<1>2. ASSUME NEW j \in Job, NEW w \in Queries, SubmitQuery(j, w)
      PROVE  SettledAgree'
  BY <1>2 DEF SubmitQuery, At, TryAcquire, TypeOK, JobInv, DoneInv, Done, SettledAgree
<1>3. ASSUME NEW j \in Job, Birdc(j)
      PROVE  SettledAgree'
  BY <1>3 DEF Birdc, At, Goto, TypeOK, JobInv, DoneInv, Done, SettledAgree
<1>4. ASSUME NEW j \in Job, EndQuery(j)
      PROVE  SettledAgree'
  BY <1>4 DEF EndQuery, At, TypeOK, JobInv, DoneInv, Done, SettledAgree
<1>5. ASSUME NEW j \in Job, Lock(j)
      PROVE  SettledAgree'
  BY <1>5 DEF Lock, At, Goto, TypeOK, JobInv, DoneInv, Done, SettledAgree
<1>6. ASSUME NEW j \in Job, Check(j)
      PROVE  SettledAgree'
  BY <1>6 DEF Check, At, Goto, Finish, TypeOK, JobInv, DoneInv, Done, SettledAgree
<1>7. ASSUME NEW j \in Job, WriteWireGuard(j)
      PROVE  SettledAgree'
  BY <1>7 DEF WriteWireGuard, At, Goto, Finish, TypeOK, JobInv, DoneInv, Done, SettledAgree
<1>8. ASSUME NEW j \in Job, WriteBird(j)
      PROVE  SettledAgree'
  BY <1>8 DEF WriteBird, At, Goto, Finish, TypeOK, JobInv, DoneInv, Done, SettledAgree
<1>9. ASSUME NEW j \in Job, Down(j)
      PROVE  SettledAgree'
  BY <1>9 DEF Down, At, Goto, Effects, TypeOK, JobInv, DoneInv, Done, SettledAgree
<1>10. ASSUME NEW j \in Job, Up(j)
      PROVE  SettledAgree'
  BY <1>10 DEF Up, At, Goto, Finish, Effects, Proceed, TypeOK, JobInv, DoneInv, Done, SettledAgree
<1>11. ASSUME NEW j \in Job, RemoveWireGuard(j)
      PROVE  SettledAgree'
  BY <1>11 DEF RemoveWireGuard, At, Goto, Finish, TypeOK, JobInv, DoneInv, Done, SettledAgree
<1>12. ASSUME NEW j \in Job, RemoveBird(j)
      PROVE  SettledAgree'
  BY <1>12 DEF RemoveBird, At, Goto, Finish, Proceed, TypeOK, JobInv, DoneInv, Done, SettledAgree
<1>13. ASSUME NEW j \in Job, ReloadBird(j)
      PROVE  SettledAgree'
  BY <1>13 DEF ReloadBird, At, Finish, Effects, TypeOK, JobInv, DoneInv, Done, SettledAgree
<1>14. ASSUME NEW j \in Job, Forget(j)
      PROVE  SettledAgree'
  BY <1>14 DEF Forget, At, TypeOK, JobInv, DoneInv, Done, SettledAgree
<1>15. ASSUME Stop PROVE SettledAgree'
  BY <1>15 DEF Stop, TypeOK, JobInv, DoneInv, Done, SettledAgree
<1>16. ASSUME UNCHANGED vars PROVE SettledAgree'
  BY <1>16 DEF vars, At, TypeOK, JobInv, DoneInv, Done, SettledAgree
<1> QED
  BY <1>1, <1>2, <1>3, <1>4, <1>5, <1>6, <1>7, <1>8, <1>9, <1>10, <1>11, <1>12, <1>13, <1>14, <1>15, <1>16 DEF Next, ChangeStep

(* Slots are taken and given back with the steps of the queries. *)
LEMMA SlotStep == TypeOK /\ JobInv /\ SlotInv /\ [Next]_vars => SlotInv'
<1> SUFFICES ASSUME TypeOK, JobInv, SlotInv, [Next]_vars PROVE SlotInv'
  OBVIOUS
<1>1. ASSUME NEW j \in Job, NEW w \in Changes, SubmitChange(j, w)
      PROVE  SlotInv'
  BY <1>1 DEF SubmitChange, At, TypeOK, SlotInv, SlotsInUse
<1>2. ASSUME NEW j \in Job, NEW w \in Queries, SubmitQuery(j, w)
      PROVE  SlotInv'
  <2>1. CASE TryAcquire(j)
              /\ pc' = [pc EXCEPT ![j] = IF w.op = "status" THEN "birdc" ELSE "probe"]
    <3>1. slots' = slots \union {j} /\ j \notin slots
      BY <1>2, <2>1 DEF SubmitQuery, At, TryAcquire, TypeOK, SlotInv, SlotsInUse
    <3>2. IsFiniteSet(slots') /\ Cardinality(slots') = Cardinality(slots) + 1
      BY <3>1, FS_AddElement DEF SlotInv
    <3>3. MaxConcurrency # 0 => Cardinality(slots') <= MaxConcurrency
      BY <2>1, <3>2, FS_CardinalityType DEF TryAcquire, SlotInv
    <3>4. slots' = {k \in Job : pc'[k] \in QuerySteps}
      BY <2>1, <3>1 DEF TypeOK, SlotInv, SlotsInUse
    <3> QED
      BY <3>2, <3>3, <3>4 DEF SlotInv, SlotsInUse
  <2>2. CASE pc' = [pc EXCEPT ![j] = "done"] /\ UNCHANGED slots
    BY <1>2, <2>2 DEF SubmitQuery, At, TypeOK, SlotInv, SlotsInUse
  <2> QED
    BY <1>2, <2>1, <2>2 DEF SubmitQuery
<1>3. ASSUME NEW j \in Job, Birdc(j)
      PROVE  SlotInv'
  BY <1>3 DEF Birdc, At, Goto, TypeOK, SlotInv, SlotsInUse
<1>4. ASSUME NEW j \in Job, EndQuery(j)
      PROVE  SlotInv'
  <2>1. slots' = slots \ {j} /\ j \in slots
    BY <1>4 DEF EndQuery, At, SlotInv, SlotsInUse
  <2>2. IsFiniteSet(slots') /\ Cardinality(slots') = Cardinality(slots) - 1
    BY <2>1, FS_RemoveElement DEF SlotInv
  <2>3. MaxConcurrency # 0 => Cardinality(slots') <= MaxConcurrency
    BY <2>2, FS_CardinalityType DEF SlotInv, SlotsInUse
  <2>4. slots' = {k \in Job : pc'[k] \in QuerySteps}
    BY <1>4, <2>1 DEF EndQuery, TypeOK, SlotInv, SlotsInUse
  <2> QED
    BY <2>2, <2>3, <2>4 DEF SlotInv, SlotsInUse
<1>5. ASSUME NEW j \in Job, Lock(j)
      PROVE  SlotInv'
  BY <1>5 DEF Lock, At, Goto, TypeOK, SlotInv, SlotsInUse
<1>6. ASSUME NEW j \in Job, Check(j)
      PROVE  SlotInv'
  BY <1>6 DEF Check, At, Goto, Finish, TypeOK, SlotInv, SlotsInUse
<1>7. ASSUME NEW j \in Job, WriteWireGuard(j)
      PROVE  SlotInv'
  BY <1>7 DEF WriteWireGuard, At, Goto, Finish, TypeOK, SlotInv, SlotsInUse
<1>8. ASSUME NEW j \in Job, WriteBird(j)
      PROVE  SlotInv'
  BY <1>8 DEF WriteBird, At, Goto, Finish, TypeOK, SlotInv, SlotsInUse
<1>9. ASSUME NEW j \in Job, Down(j)
      PROVE  SlotInv'
  BY <1>9 DEF Down, At, Goto, Effects, TypeOK, SlotInv, SlotsInUse
<1>10. ASSUME NEW j \in Job, Up(j)
      PROVE  SlotInv'
  <2>1. slots' = slots /\ pc[j] = "up" /\ \E s \in {"reload", "done"} : pc' = [pc EXCEPT ![j] = s]
    BY <1>10 DEF Up, At, Goto, Finish, Proceed
  <2> QED
    BY <2>1 DEF TypeOK, SlotInv, SlotsInUse
<1>11. ASSUME NEW j \in Job, RemoveWireGuard(j)
      PROVE  SlotInv'
  BY <1>11 DEF RemoveWireGuard, At, Goto, Finish, TypeOK, SlotInv, SlotsInUse
<1>12. ASSUME NEW j \in Job, RemoveBird(j)
      PROVE  SlotInv'
  <2>1. slots' = slots /\ pc[j] = "removeBird"
        /\ \E s \in {"reload", "done"} : pc' = [pc EXCEPT ![j] = s]
    BY <1>12 DEF RemoveBird, At, Goto, Finish, Proceed
  <2> QED
    BY <2>1 DEF TypeOK, SlotInv, SlotsInUse
<1>13. ASSUME NEW j \in Job, ReloadBird(j)
      PROVE  SlotInv'
  BY <1>13 DEF ReloadBird, At, Finish, Effects, TypeOK, SlotInv, SlotsInUse
<1>14. ASSUME NEW j \in Job, Forget(j)
      PROVE  SlotInv'
  BY <1>14 DEF Forget, At, TypeOK, SlotInv, SlotsInUse
<1>15. ASSUME Stop PROVE SlotInv'
  <2>1. slots' = {} /\ \A k \in Job : pc'[k] = "idle"
    BY <1>15 DEF Stop
  <2> QED
    BY <2>1, FS_EmptySet DEF SlotInv, SlotsInUse
<1>16. ASSUME UNCHANGED vars PROVE SlotInv'
  BY <1>16 DEF vars, At, TypeOK, SlotInv, SlotsInUse
<1> QED
  BY <1>1, <1>2, <1>3, <1>4, <1>5, <1>6, <1>7, <1>8, <1>9, <1>10, <1>11, <1>12, <1>13, <1>14, <1>15, <1>16 DEF Next, ChangeStep

-----------------------------------------------------------------------------
(* IInv is an inductive invariant. *)
THEOREM Invariance == SafeSpec => []IInv
<1>1. Init => IInv
  <2> SUFFICES ASSUME Init PROVE IInv
    OBVIOUS
  <2>1. IsFiniteSet({}) /\ Cardinality({}) = 0
    BY FS_EmptySet
  <2>2. TypeOK /\ LockInv /\ JobInv /\ DoneInv /\ SettledAgree
    BY DEF Init, TypeOK, LockInv, JobInv, DoneInv, Done, SettledAgree
  <2>3. SlotInv
    BY <2>1 DEF Init, SlotInv, SlotsInUse
  <2> QED
    BY <2>2, <2>3 DEF IInv
<1>2. IInv /\ [Next]_vars => IInv'
  BY TypeStep, LockStep, JobStep, DoneStep, SettledStep, SlotStep DEF IInv
<1> QED
  BY <1>1, <1>2, PTL DEF SafeSpec

\* Every variable keeps its type.
THEOREM TypeCorrect == SafeSpec => []TypeOK
BY Invariance, PTL DEF IInv

\* Files and BIRD's view of a peer agree outside its own changes, however changes of
\* several peers, failures and stops of the service follow each other.
THEOREM Settled == SafeSpec => []SettledAgree
BY Invariance, PTL DEF IInv

\* The looking glass never runs more commands at once than max_concurrency, nor loses a slot.
THEOREM Capped == SafeSpec => []SlotsInUse
BY Invariance, PTL DEF IInv, SlotInv

-----------------------------------------------------------------------------
(* The step in which a deploy answers ok. *)
LEMMA OkDeploy ==
  ASSUME IInv, Next, NEW j \in Job, Replies(j, "deploy"), reply'[j] = "ok"
  PROVE  LET n == job[j].name c == job[j].config IN
         /\ wireguard'[n] = c /\ bird'[n] = c /\ interface'[n] = c
         /\ Reload => loaded'[n] = c
<1> DEFINE n == job[j].name
           c == job[j].config
<1>1. job[j] \in Changes /\ n \in Name /\ c \in Config /\ pc[j] # "done"
  BY DEF IInv, JobInv, TypeOK, Replies
<1>2. (Up(j) /\ ~Reload) \/ ReloadBird(j)
  <2>1. /\ TypeOK /\ JobInv
        /\ pc'[j] = "done" /\ pc'[j] # pc[j] /\ job[j].op = "deploy"
        /\ pc[j] \in {"lock", "check", "down", "reload"} \union DeploySteps
    BY <1>1 DEF IInv, JobInv, TypeOK, Replies
  <2>2. ASSUME NEW k \in Job, NEW w \in Changes, SubmitChange(k, w) PROVE FALSE
    BY <2>1, <2>2 DEF SubmitChange, TypeOK
  <2>3. ASSUME NEW k \in Job, NEW w \in Queries, SubmitQuery(k, w) PROVE FALSE
    <3>1. pc[k] = "idle" /\ \A i \in Job \ {k} : pc'[i] = pc[i]
      BY <2>1, <2>3 DEF SubmitQuery, At, TypeOK
    <3> QED
      BY <2>1, <3>1
  <2>4. ASSUME NEW k \in Job, Birdc(k) \/ EndQuery(k) \/ Forget(k) PROVE FALSE
    <3>1. pc[k] \in QuerySteps \union {"done"} /\ \A i \in Job \ {k} : pc'[i] = pc[i]
      BY <2>1, <2>4 DEF Birdc, EndQuery, Forget, At, Goto, TypeOK
    <3> QED
      BY <2>1, <3>1
  <2>5. ASSUME NEW k \in Job, Lock(k) PROVE FALSE
    BY <2>1, <2>5 DEF Lock, Goto, TypeOK
  <2>6. ASSUME NEW k \in Job, Check(k) \/ WriteWireGuard(k) \/ WriteBird(k) \/ Down(k)
        PROVE  FALSE
    <3>1. \/ pc'[k] = "done" /\ reply'[k] = "failed"
          \/ pc'[k] # "done"
      BY <2>1, <2>6 DEF Check, WriteWireGuard, WriteBird, Down, Goto, Finish, TypeOK
    <3>2. \A i \in Job \ {k} : pc'[i] = pc[i]
      BY <2>1, <2>6 DEF Check, WriteWireGuard, WriteBird, Down, Goto, Finish, TypeOK
    <3> QED
      BY <2>1, <3>1, <3>2
  <2>7. ASSUME NEW k \in Job, RemoveWireGuard(k) \/ RemoveBird(k) PROVE FALSE
    <3>1. pc[k] \in RemoveSteps /\ \A i \in Job \ {k} : pc'[i] = pc[i]
      BY <2>1, <2>7 DEF RemoveWireGuard, RemoveBird, At, Goto, Finish, Proceed, TypeOK
    <3> QED
      BY <2>1, <3>1
  <2>8. ASSUME NEW k \in Job, Up(k) PROVE Up(j) /\ ~Reload
    <3>1. \A i \in Job \ {k} : pc'[i] = pc[i]
      BY <2>1, <2>8 DEF Up, Goto, Finish, Proceed, TypeOK
    <3>2. k = j
      BY <2>1, <3>1
    <3>3. ~Reload
      BY <2>1, <2>8, <3>2 DEF Up, Goto, Finish, Proceed, TypeOK
    <3> QED
      BY <2>8, <3>2, <3>3
  <2>9. ASSUME NEW k \in Job, ReloadBird(k) PROVE ReloadBird(j)
    <3>1. \A i \in Job \ {k} : pc'[i] = pc[i]
      BY <2>1, <2>9 DEF ReloadBird, Finish, TypeOK
    <3> QED
      BY <2>1, <2>9, <3>1
  <2>10. ASSUME Stop PROVE FALSE
    BY <2>1, <2>10 DEF Stop
  <2> QED
    BY <2>2, <2>3, <2>4, <2>5, <2>6, <2>7, <2>8, <2>9, <2>10 DEF Next, ChangeStep
<1>3. CASE Up(j) /\ ~Reload
  BY <1>1, <1>3 DEF Up, At, Goto, Finish, Proceed, Effects, IInv, TypeOK, DoneInv, Done
<1>4. CASE ReloadBird(j)
  BY <1>1, <1>4 DEF ReloadBird, At, Finish, Effects, IInv, TypeOK, DoneInv, Done
<1> QED
  BY <1>2, <1>3, <1>4

\* What an ok deploy tells is true, on every node and for all its jobs.
THEOREM DeployTrue == SafeSpec => DeployIsTrue
<1>1. IInv /\ [Next]_vars => [\A j \in Job : Replies(j, "deploy") /\ reply'[j] = "ok" =>
       LET n == job[j].name c == job[j].config IN
       /\ wireguard'[n] = c /\ bird'[n] = c /\ interface'[n] = c
       /\ Reload => loaded'[n] = c]_vars
  BY OkDeploy
<1> QED
  BY <1>1, Invariance, PTL DEF SafeSpec, DeployIsTrue

-----------------------------------------------------------------------------
(* The refinement of PeerStore. *)
goals == [j \in Job |-> Goal(j)]
stored == [n \in Name |-> Installed(n)]
storeState == <<holder, goals, stored, unsure>>

(* The mapped variables have the types of PeerStore. *)
LEMMA StoredType == TypeOK' => stored' \in [Name -> Config \union {None, Mixed}]
BY DEF TypeOK, stored, Installed

(* The goals change with the requests only. *)
LEMMA GoalsKept == UNCHANGED job => UNCHANGED goals
BY DEF goals, Goal

LEMMA GoalEnds ==
  ASSUME TypeOK, NEW j \in Job, NEW answer, Finish(j, answer)
  PROVE  goals' = [goals EXCEPT ![j] = None] /\ holder' = None
<1>1. job'[j] = None /\ \A k \in Job \ {j} : job'[k] = job[k]
  BY DEF Finish, TypeOK
<1>2. \A k \in Job : Goal(k)' = IF k = j THEN None ELSE Goal(k)
  BY <1>1 DEF Goal
<1> QED
  BY <1>2 DEF goals, Finish

LEMMA StoredKept == UNCHANGED <<wireguard, bird, loaded>> => UNCHANGED stored
BY DEF stored, Installed

(* What a job at a step of a change asks for. *)
LEMMA AtChange ==
  ASSUME IInv, NEW j \in Job, pc[j] \in {"lock"} \union ChangeSteps
  PROVE  /\ goals[j] = job[j] /\ goals[j] # None
         /\ job[j] \in Changes /\ job[j].name \in Name
         /\ job[j].config \in Config \union {None}
         /\ pc[j] # "lock" => holder = j
<1>1. job[j] \in Changes /\ (pc[j] # "lock" => holder = j)
  BY DEF IInv, JobInv, LockInv
<1> QED
  BY <1>1 DEF goals, Goal

\* What a step for peer m leaves alone of the others.
Stay(m) ==
  \A n \in Name \ {m} : n \notin unsure \/ stored[n] # Mixed => stored'[n] = stored[n]

(* A step that changes what is stored of its own peer only, and one that goes on. *)
LEMMA WorkMaps ==
  ASSUME IInv, TypeOK', NEW j \in Job, pc[j] \in ChangeSteps,
         UNCHANGED <<holder, job>>, unsure' = unsure \union {job[j].name},
         \A n \in Name \ {job[j].name} : stored'[n] = stored[n]
  PROVE  Store!Work(j)
<1>1. goals' = goals /\ goals[j] = job[j] /\ holder = j
  BY AtChange, GoalsKept
<1>2. stored' \in [Name -> Config \union {None, Mixed}]
  BY StoredType
<1> QED
  BY <1>1, <1>2 DEF Store!Work, Store!OthersStay, goals, stored

LEMMA FailMaps ==
  ASSUME IInv, TypeOK', NEW j \in Job, pc[j] \in ChangeSteps, NEW answer, Finish(j, answer),
         UNCHANGED unsure, Stay(job[j].name),
         job[j].name \notin unsure => stored'[job[j].name] = stored[job[j].name]
  PROVE  Store!Fail(j)
<1>1. goals' = [goals EXCEPT ![j] = None] /\ holder' = None /\ holder = j /\ goals[j] = job[j]
  BY AtChange, GoalEnds DEF IInv
<1>2. stored' \in [Name -> Config \union {None, Mixed}]
  BY StoredType
<1> QED
  BY <1>1, <1>2 DEF Store!Fail, Store!OthersStay, Stay, goals, stored

LEMMA SucceedMaps ==
  ASSUME IInv, TypeOK', NEW j \in Job, pc[j] \in ChangeSteps, Finish(j, "ok"),
         unsure' = unsure \ {job[j].name}, stored'[job[j].name] = job[j].config,
         Stay(job[j].name)
  PROVE  Store!Succeed(j)
<1>1. goals' = [goals EXCEPT ![j] = None] /\ holder' = None /\ holder = j /\ goals[j] = job[j]
  BY AtChange, GoalEnds DEF IInv
<1>2. stored' \in [Name -> Config \union {None, Mixed}]
  BY StoredType
<1> QED
  BY <1>1, <1>2 DEF Store!Succeed, Store!OthersStay, Stay, goals, stored

(* What stays of what is stored, when one peer's files change. *)
LEMMA Elsewhere ==
  ASSUME TypeOK, NEW m \in Name, NEW x, UNCHANGED loaded,
         \/ wireguard' = [wireguard EXCEPT ![m] = x] /\ UNCHANGED bird
         \/ bird' = [bird EXCEPT ![m] = x] /\ UNCHANGED wireguard
  PROVE  \A n \in Name \ {m} : stored'[n] = stored[n]
<1>1. \A n \in Name \ {m} : wireguard'[n] = wireguard[n] /\ bird'[n] = bird[n]
  BY DEF TypeOK
<1> QED
  BY <1>1 DEF stored, Installed

(* Arrival, and all that is no change. *)
LEMMA QuietMaps ==
  ASSUME IInv, NEW j \in Job,
         \/ \E w \in Changes : SubmitChange(j, w)
         \/ \E w \in Queries : SubmitQuery(j, w)
         \/ Birdc(j) \/ EndQuery(j) \/ Lock(j) \/ Forget(j)
  PROVE  Store!Next \/ UNCHANGED storeState
<1>1. ASSUME NEW w \in Changes, SubmitChange(j, w)
      PROVE  Store!Ask(j, w)
  <2>1. job[j] = None /\ job' = [job EXCEPT ![j] = w] /\ UNCHANGED <<holder, unsure, router>>
    BY <1>1 DEF SubmitChange, At, IInv, JobInv
  <2>2. \A k \in Job : Goal(k)' = IF k = j THEN w ELSE Goal(k)
    BY <2>1 DEF Goal, IInv, TypeOK
  <2>3. Goal(j) = None
    BY <2>1 DEF Goal
  <2>4. goals' = [goals EXCEPT ![j] = w] /\ goals[j] = None /\ UNCHANGED stored
    BY <2>1, <2>2, <2>3, StoredKept DEF goals
  <2> QED
    BY <2>1, <2>4 DEF Store!Ask, goals, stored
<1>2. ASSUME \/ \E w \in Queries : SubmitQuery(j, w)
             \/ Birdc(j) \/ EndQuery(j) \/ Forget(j)
      PROVE  UNCHANGED storeState
  <2>1. /\ UNCHANGED <<holder, unsure, router>>
        /\ \A k \in Job \ {j} : job'[k] = job[k]
        /\ job[j] \notin Changes /\ job'[j] \notin Changes
    BY <1>2 DEF SubmitQuery, Birdc, EndQuery, Forget, At, Goto, TryAcquire, IInv, TypeOK, JobInv
  <2>2. \A k \in Job : Goal(k)' = Goal(k)
    BY <2>1 DEF Goal
  <2> QED
    BY <2>1, <2>2, StoredKept DEF storeState, goals
<1>3. ASSUME Lock(j) PROVE Store!Begin(j)
  <2>1. holder = None /\ holder' = j /\ UNCHANGED <<job, unsure, router>> /\ pc[j] = "lock"
    BY <1>3 DEF Lock, At, Goto
  <2>2. goals[j] # None
    BY <2>1, AtChange
  <2> QED
    BY <2>1, <2>2, GoalsKept, StoredKept DEF Store!Begin, goals, stored
<1> QED
  BY <1>1, <1>2, <1>3 DEF Store!Next

(* The steps before the files and the interface have changed, and the interface's. *)
LEMMA CheckMaps ==
  ASSUME IInv, TypeOK', NEW j \in Job, Check(j) \/ Down(j)
  PROVE  Store!Next \/ UNCHANGED storeState
<1>1. UNCHANGED <<wireguard, bird, loaded, stored>> /\ pc[j] \in ChangeSteps
  BY StoredKept DEF Check, Down, At
<1>2. CASE Check(j) /\ UNCHANGED <<job, holder>>
  BY <1>1, <1>2, GoalsKept DEF Check, storeState
<1>3. CASE Check(j) /\ Finish(j, "failed")
  <2>1. UNCHANGED <<stored, unsure>> /\ job[j].name \in Name
    BY <1>1, <1>3, AtChange DEF Check
  <2>2. Stay(job[j].name) /\ stored'[job[j].name] = stored[job[j].name]
    BY <2>1 DEF Stay
  <2>3. Store!Fail(j)
    BY <1>1, <1>3, <2>1, <2>2, FailMaps
  <2> QED
    BY <2>3 DEF Store!Next
<1>4. CASE Down(j)
  <2>1. Store!Work(j)
    BY <1>1, <1>4, WorkMaps DEF Down, Goto
  <2> QED
    BY <2>1 DEF Store!Next
<1> QED
  BY <1>2, <1>3, <1>4 DEF Check, Goto

(* Writing and removing the files. *)
LEMMA FileMaps ==
  ASSUME IInv, TypeOK', NEW j \in Job,
         WriteWireGuard(j) \/ WriteBird(j) \/ RemoveWireGuard(j)
  PROVE  Store!Next
<1> DEFINE m == job[j].name
<1>1. m \in Name /\ pc[j] \in ChangeSteps
  BY AtChange DEF WriteWireGuard, WriteBird, RemoveWireGuard, At
<1>2. \A n \in Name \ {m} : stored'[n] = stored[n]
  <2>1. CASE WriteWireGuard(j) \/ RemoveWireGuard(j)
    <3>1. UNCHANGED <<bird, loaded>>
          /\ (UNCHANGED wireguard \/ \E x : wireguard' = [wireguard EXCEPT ![m] = x])
      BY <2>1 DEF WriteWireGuard, RemoveWireGuard
    <3> QED
      BY <1>1, <3>1, Elsewhere, StoredKept DEF IInv
  <2>2. CASE WriteBird(j)
    <3>1. UNCHANGED <<wireguard, loaded>>
          /\ (UNCHANGED bird \/ \E x : bird' = [bird EXCEPT ![m] = x])
      BY <2>2 DEF WriteBird
    <3> QED
      BY <1>1, <3>1, Elsewhere, StoredKept DEF IInv
  <2> QED
    BY <2>1, <2>2
<1>3. WriteBird(j) \/ RemoveWireGuard(j) => m \in unsure
  BY DEF WriteBird, RemoveWireGuard, At, IInv, DoneInv, Done
<1>4. CASE UNCHANGED <<holder, job>>
  <2>1. unsure' = unsure \union {m}
    BY <1>3, <1>4, <1>1 DEF WriteWireGuard, WriteBird, RemoveWireGuard, Finish, IInv, TypeOK,
         JobInv
  <2>2. Store!Work(j)
    BY <1>1, <1>2, <1>4, <2>1, WorkMaps
  <2> QED
    BY <2>2 DEF Store!Next
<1>5. ASSUME NEW answer, Finish(j, answer) PROVE Store!Next
  <2>1. UNCHANGED unsure /\ (m \notin unsure => UNCHANGED stored)
    BY <1>3, <1>5, StoredKept DEF WriteWireGuard, WriteBird, RemoveWireGuard, Finish, Goto, At, IInv, TypeOK
  <2>2. Store!Fail(j)
    BY <1>1, <1>2, <1>5, <2>1, FailMaps DEF Stay
  <2> QED
    BY <2>2 DEF Store!Next
<1> QED
  BY <1>4, <1>5 DEF WriteWireGuard, WriteBird, RemoveWireGuard, Goto

(* The interface comes up, the last file goes, BIRD reloads: what may end a change ok. *)
LEMMA LastMaps ==
  ASSUME IInv, TypeOK', NEW j \in Job, Up(j) \/ RemoveBird(j) \/ ReloadBird(j)
  PROVE  Store!Next \/ UNCHANGED storeState
<1> DEFINE m == job[j].name
           c == job[j].config
<1>1. m \in Name /\ pc[j] \in ChangeSteps /\ m \in unsure /\ job[j] \in Changes
  BY AtChange DEF Up, RemoveBird, ReloadBird, At, IInv, DoneInv, Done
<1>2. Stay(m)
  <2>1. CASE Up(j)
    BY <2>1, StoredKept DEF Up, Stay
  <2>2. CASE RemoveBird(j)
    <3>1. UNCHANGED <<wireguard, loaded>>
          /\ (UNCHANGED bird \/ \E x : bird' = [bird EXCEPT ![m] = x])
      BY <2>2 DEF RemoveBird
    <3> QED
      BY <1>1, <3>1, Elsewhere, StoredKept DEF IInv, Stay
  <2>3. CASE ReloadBird(j)
    <3>1. UNCHANGED <<wireguard, bird>> /\ loaded' \in {loaded, bird}
      BY <2>3 DEF ReloadBird, Effects
    <3>2. ASSUME NEW n \in Name, n \notin unsure \/ stored[n] # Mixed
          PROVE  stored'[n] = stored[n]
      <4>1. Reload => wireguard[n] = bird[n] /\ loaded[n] = bird[n]
        BY <3>1, <3>2 DEF stored, Installed, IInv, SettledAgree
      <4> QED
        BY <3>1, <4>1 DEF stored, Installed
    <3> QED
      BY <3>2 DEF Stay
  <2> QED
    BY <2>1, <2>2, <2>3
<1>3. CASE UNCHANGED <<holder, job>> /\ UNCHANGED unsure
  <2>1. unsure' = unsure \union {m}
    BY <1>1, <1>3
  <2>2. \A n \in Name \ {m} : stored'[n] = stored[n]
    <3>1. CASE Up(j)
      BY <3>1, StoredKept DEF Up
    <3>2. CASE RemoveBird(j)
      <4>1. UNCHANGED <<wireguard, loaded>>
            /\ (UNCHANGED bird \/ \E x : bird' = [bird EXCEPT ![m] = x])
        BY <3>2 DEF RemoveBird
      <4> QED
        BY <1>1, <4>1, Elsewhere, StoredKept DEF IInv
    <3>3. ~ReloadBird(j)
      <4>1. ReloadBird(j) => job'[j] = None
        BY DEF ReloadBird, Finish, IInv, TypeOK
      <4> QED
        BY <1>1, <1>3, <4>1
    <3> QED
      BY <3>1, <3>2, <3>3
  <2> QED
    BY <1>1, <2>1, <2>2, <1>3, WorkMaps DEF Store!Next
<1>4. ASSUME NEW answer, Finish(j, answer), UNCHANGED unsure
      PROVE  Store!Fail(j)
  BY <1>1, <1>2, <1>4, FailMaps
<1>5. ASSUME Finish(j, "ok"), unsure' = unsure \ {m}
      PROVE  Store!Succeed(j)
  <2>1. stored'[m] = c
    <3>1. \/ Up(j) /\ ~Reload
          \/ RemoveBird(j) /\ bird' = [bird EXCEPT ![m] = None] /\ ~Reload
          \/ ReloadBird(j) /\ loaded' = bird
      BY <1>1, <1>5 DEF Up, RemoveBird, ReloadBird, Proceed, Goto, Effects, Finish, IInv, TypeOK
    <3>2. wireguard'[m] = c /\ bird'[m] = c /\ (Reload => loaded'[m] = c)
      BY <1>1, <3>1 DEF Up, RemoveBird, ReloadBird, At, IInv, TypeOK, JobInv, DoneInv, Done
    <3> QED
      BY <1>1, <3>2 DEF stored, Installed
  <2> QED
    BY <1>1, <1>2, <1>5, <2>1, SucceedMaps
<1> QED
  BY <1>3, <1>4, <1>5 DEF Up, RemoveBird, ReloadBird, Proceed, Goto, Store!Next

\* A node keeps the promise of PeerStore: with all their steps, failures and stops, the
\* changes of several jobs are changes of one peer at a time that are done when told ok.
THEOREM StoreRefinement == SafeSpec => ImplementsStore
<1>1. Init => Store!Init
  BY DEF Init, Store!Init, Installed, Goal
<1>2. IInv /\ TypeOK' /\ [Next]_vars => [Store!Next]_(Store!vars)
  <2> SUFFICES ASSUME IInv, TypeOK', [Next]_vars PROVE Store!Next \/ UNCHANGED storeState
    BY DEF Store!vars, storeState, goals, stored
  <2>1. CASE UNCHANGED vars
    BY <2>1, GoalsKept, StoredKept DEF vars, storeState
  <2>2. CASE Stop
    <3>1. goals' = [k \in Job |-> None] /\ holder' = None /\ UNCHANGED unsure
      BY <2>2 DEF Stop, goals, Goal
    <3>2. UNCHANGED stored
      BY <2>2, StoredKept DEF Stop
    <3> QED
      BY <3>1, <3>2 DEF Store!Next, Store!Stop, goals, stored
  <2>3. ASSUME NEW j \in Job,
               \/ \E w \in Changes : SubmitChange(j, w)
               \/ \E w \in Queries : SubmitQuery(j, w)
               \/ Birdc(j) \/ EndQuery(j) \/ Lock(j) \/ ChangeStep(j) \/ Forget(j)
        PROVE  Store!Next \/ UNCHANGED storeState
    BY <2>3, QuietMaps, CheckMaps, FileMaps, LastMaps DEF ChangeStep
  <2> QED
    BY <2>1, <2>2, <2>3 DEF Next
<1>3. IInv => TypeOK
  BY DEF IInv
<1> QED
  BY <1>1, <1>2, <1>3, Invariance, PTL DEF SafeSpec, ImplementsStore, Store!Spec
=============================================================================
