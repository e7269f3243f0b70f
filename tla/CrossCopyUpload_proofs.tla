----------------------- MODULE CrossCopyUpload_proofs -----------------------
(***************************************************************************)
(* Proofs about CrossCopyUpload, for every set of requests, uploads and    *)
(* addresses.                                                              *)
(*                                                                         *)
(* The argument follows each owner: every handler that has something to do *)
(* with it knows its fate, and the fates it passes through are the ones    *)
(* those handlers leave to each other.                                     *)
(***************************************************************************)
EXTENDS CrossCopyUpload, TLAPS

(* What a prepare handler knows about the owner it asks for. *)
PrepareKnowsOwner ==
  \A r \in Request : prep[r] \in {"new", "asking"} => owner[r] = "gate"

(* What an upload handler knows about the owner it moved into receive. *)
UploadKnowsOwner ==
  \A u \in Upload :
    /\ at[u] = "idle" => of[u] = None
    /\ of[u] # None =>
         owner[of[u]] \in {"receiving", "received", "failed", "dropped"}
    /\ at[u] = "receiving" => of[u] # None /\ owner[of[u]] = "receiving"
    /\ at[u] = "failed" => of[u] # None /\ owner[of[u]] = "failed"
    /\ at[u] \in {"received", "reporting", "closing"} =>
         of[u] # None /\ owner[of[u]] = "received"
    /\ at[u] = "closing" => of[u] \in filed

(* Whoever awaits a cancel does so of an owner being cancelled, and the    *)
(* sweep of one at a time.                                                 *)
CancelsAreAwaited ==
  /\ \A r \in Request : by[r] # "nobody" => owner[r] = "cancelling"
  /\ \A r \in Request : by[r] = "sweep" => sweep = "cancelling"
  /\ \A r, q \in Request : by[r] = "sweep" /\ by[q] = "sweep" => r = q

IInv ==
  /\ TypeOK
  /\ OwnerInOnePlace
  /\ StopIsABarrier
  /\ ReceiveIsUnderControl
  /\ ReportsAreTrue
  /\ PrepareKnowsOwner
  /\ UploadKnowsOwner
  /\ CancelsAreAwaited

-----------------------------------------------------------------------------

USE NoneAssumption, OriginAssumption

LEMMA InitEstablishesIInv == Init => IInv
<1> SUFFICES ASSUME Init PROVE IInv
  OBVIOUS
<1>1. TypeOK
  BY DEF Init, TypeOK, Fate
<1>2. OwnerInOnePlace /\ PrepareKnowsOwner /\ UploadKnowsOwner
  BY DEF Init, OwnerInOnePlace, PrepareKnowsOwner, UploadKnowsOwner
<1>3. /\ StopIsABarrier
      /\ ReceiveIsUnderControl
      /\ ReportsAreTrue
      /\ CancelsAreAwaited
  BY DEF Init, StopIsABarrier, ReceiveIsUnderControl, ReportsAreTrue,
         CancelsAreAwaited
<1> QED
  BY <1>1, <1>2, <1>3 DEF IInv

LEMMA StepPreservesIInv == IInv /\ [Next]_vars => IInv'
<1> SUFFICES ASSUME IInv, [Next]_vars PROVE IInv'
  OBVIOUS
<1> USE DEF IInv, TypeOK, Fate, OwnerInOnePlace, StopIsABarrier,
            ReceiveIsUnderControl, ReportsAreTrue, PrepareKnowsOwner,
            UploadKnowsOwner, CancelsAreAwaited, stateVars, standardVars,
            ownerVars, uploadVars, taskVars, historyVars, Becomes,
            StartCancel, Advances, Moves
<1>1. ASSUME NEW r \in Request, TurnAway(r) PROVE IInv'
  BY <1>1 DEF TurnAway
<1>2. ASSUME NEW r \in Request, Preflight(r) PROVE IInv'
  BY <1>2 DEF Preflight
<1>3. ASSUME NEW r \in Request, TakeAuthorizedUpload(r) PROVE IInv'
  BY <1>3 DEF TakeAuthorizedUpload
<1>4. ASSUME NEW r \in Request, Install(r) PROVE IInv'
  <2> USE <1>4 DEF Install
  <2>1. TypeOK'
    OBVIOUS
  <2>2. owner[r] = "held" /\ owner'[r] = "installed"
    OBVIOUS
  <2>3. \A q \in Request \ {r} : owner'[q] = owner[q] /\ prep'[q] = prep[q]
    OBVIOUS
  <2>4. OwnerInOnePlace'
    BY <2>2, <2>3
  <2>5. ReceiveIsUnderControl' /\ ReportsAreTrue' /\ StopIsABarrier'
    BY <2>2, <2>3
  <2>6. PrepareKnowsOwner' /\ CancelsAreAwaited'
    BY <2>2, <2>3
  <2>7. UploadKnowsOwner'
    BY <2>2, <2>3
  <2> QED
    BY <2>1, <2>4, <2>5, <2>6, <2>7
<1>5. ASSUME NEW r \in Request, Reject(r) PROVE IInv'
  BY <1>5 DEF Reject
<1>6. ASSUME NEW r \in Request, DropPrepare(r) PROVE IInv'
  BY <1>6 DEF DropPrepare
<1>7. ASSUME NEW u \in Upload, NEW r \in Request, BeginReceive(u, r)
      PROVE  IInv'
  BY <1>7 DEF BeginReceive
<1>8. ASSUME NEW u \in Upload, NEW r \in Request, BeginWrongly(u, r)
      PROVE  IInv'
  BY <1>8 DEF BeginWrongly
<1>9. ASSUME NEW u \in Upload, ReceiveReturns(u) PROVE IInv'
  BY <1>9 DEF ReceiveReturns
<1>10. ASSUME NEW u \in Upload, ClearActive(u) PROVE IInv'
  BY <1>10 DEF ClearActive
<1>11. ASSUME NEW u \in Upload, ReportFile(u) PROVE IInv'
  BY <1>11 DEF ReportFile
<1>12. ASSUME NEW u \in Upload, ReportDone(u) PROVE IInv'
  BY <1>12 DEF ReportDone
<1>13. ASSUME NEW u \in Upload, DropUpload(u) PROVE IInv'
  BY <1>13 DEF DropUpload
<1>14. ASSUME NEW r \in Request, CancelSession(r) PROVE IInv'
  BY <1>14 DEF CancelSession
<1>15. ASSUME NEW r \in Request, CancelActive(r) PROVE IInv'
  BY <1>15 DEF CancelActive
<1>16. ASSUME NEW r \in Request, CancelReturns(r) PROVE IInv'
  BY <1>16 DEF CancelReturns
<1>17. ASSUME NEW r \in Request, DropCanceller(r) PROVE IInv'
  BY <1>17 DEF DropCanceller
<1>18. ASSUME Age PROVE IInv'
  BY <1>18 DEF Age
<1>19. ASSUME SweepProtected PROVE IInv'
  BY <1>19 DEF SweepProtected
<1>20. ASSUME StandardPath PROVE IInv'
  BY <1>20 DEF StandardPath
<1>21. ASSUME BeginStop PROVE IInv'
  BY <1>21 DEF BeginStop
<1>22. ASSUME AbortTasks PROVE IInv'
  BY <1>22 DEF AbortTasks
<1>23. CASE UNCHANGED vars
  BY <1>23 DEF vars
<1> QED
  BY <1>1, <1>2, <1>3, <1>4, <1>5, <1>6, <1>7, <1>8, <1>9, <1>10, <1>11,
     <1>12, <1>13, <1>14, <1>15, <1>16, <1>17, <1>18, <1>19, <1>20, <1>21,
     <1>22, <1>23 DEF Next, Prepare, UploadFile, Cancel

LEMMA IInvHolds == Spec => []IInv
BY InitEstablishesIInv, StepPreservesIInv, PTL DEF Spec

-----------------------------------------------------------------------------

(* The variables of the protected upload stay in their types. *)
THEOREM TypeCorrect == Spec => []TypeOK
<1>1. IInv => TypeOK
  BY DEF IInv
<1> QED
  BY <1>1, IInvHolds, PTL

(* An owner is with one handler, or installed, or in one transfer, through *)
(* lost races, wrong tokens, disconnects, sweep and stop.                  *)
THEOREM OwnerHasOnePlace == Spec => []OwnerInOnePlace
<1>1. IInv => OwnerInOnePlace
  BY DEF IInv
<1> QED
  BY <1>1, IInvHolds, PTL

(* Once stop has raised the barrier no owner is installed or recorded as   *)
(* active, however many prepares were between gate and lock.               *)
THEOREM BarrierHolds == Spec => []StopIsABarrier
<1>1. IInv => StopIsABarrier
  BY DEF IInv
<1> QED
  BY <1>1, IInvHolds, PTL

(* An upload whose record was not overwritten can be cancelled by its id   *)
(* or has been signalled.                                                  *)
THEOREM ReceiveStaysUnderControl == Spec => []ReceiveIsUnderControl
<1>1. IInv => ReceiveIsUnderControl
  BY DEF IInv
<1> QED
  BY <1>1, IInvHolds, PTL

(* The host is told of files its owner received, and of nothing else. *)
THEOREM ReportsStayTrue == Spec => []ReportsAreTrue
<1>1. IInv => ReportsAreTrue
  BY DEF IInv
<1> QED
  BY <1>1, IInvHolds, PTL

-----------------------------------------------------------------------------
(* The refinement. *)

(* The abstract custody of every owner. *)
Custodies == [r \in Request |-> Custody(owner[r])]

LEMMA InitRefines == Init => OC!Init
BY DEF Init, OC!Init, Custody, Over

(* A change of one owner's fate is a change of one custody. *)
LEMMA OneOwnerMoves ==
  ASSUME owner \in [Request -> Fate], NEW r \in Request, NEW f, Becomes(r, f)
  PROVE  Custodies' = [Custodies EXCEPT ![r] = Custody(f)]
BY DEF Becomes, Custodies

(* Where the step of an owner leaves the barrier alone, it is a step of    *)
(* the abstract custody or leaves it alone too.                            *)
LEMMA FateRefines ==
  ASSUME owner \in [Request -> Fate], NEW r \in Request, NEW f, Becomes(r, f),
         stopping' = stopping,
         \/ Custody(f) = Custody(owner[r])
         \/ Custody(owner[r]) = "gate" /\ Custody(f) = "server"
         \/ Custody(owner[r]) \in {"server", "transfer"}
              /\ Custody(f) = "over"
         \/ /\ Custody(owner[r]) = "server"
            /\ Custody(f) = "transfer"
            /\ ~stopping
  PROVE  [OC!Next]_(OC!vars)
<1>1. Custodies' = [Custodies EXCEPT ![r] = Custody(f)]
  BY OneOwnerMoves
<1>2. Custodies[r] = Custody(owner[r])
  BY DEF Custodies
<1>3. CASE Custody(f) = Custody(owner[r])
  <2>1. Custodies' = Custodies
    BY <1>1, <1>2, <1>3 DEF Custodies
  <2> QED
    BY <2>1 DEF OC!vars, Custodies
<1>4. CASE Custody(owner[r]) = "gate" /\ Custody(f) = "server"
  <2>1. OC!Take(r)
    BY <1>1, <1>2, <1>4 DEF OC!Take, OC!Passes, Custodies
  <2> QED
    BY <2>1 DEF OC!Next
<1>5. CASE Custody(owner[r]) \in {"server", "transfer"} /\ Custody(f) = "over"
  <2>1. OC!End(r)
    BY <1>1, <1>2, <1>5 DEF OC!End, OC!Passes, Custodies
  <2> QED
    BY <2>1 DEF OC!Next
<1>6. CASE /\ Custody(owner[r]) = "server"
           /\ Custody(f) = "transfer"
           /\ ~stopping
  <2>1. OC!Transfer(r)
    BY <1>1, <1>2, <1>6 DEF OC!Transfer, OC!Passes, Custodies
  <2> QED
    BY <2>1 DEF OC!Next
<1> QED
  BY <1>3, <1>4, <1>5, <1>6

LEMMA StepRefines == IInv /\ [Next]_vars => [OC!Next]_(OC!vars)
<1> SUFFICES ASSUME IInv, [Next]_vars PROVE [OC!Next]_(OC!vars)
  OBVIOUS
<1> USE DEF stateVars, standardVars, ownerVars, uploadVars, taskVars,
            historyVars
<1>0. owner \in [Request -> Fate]
  BY DEF IInv, TypeOK
<1>a. ASSUME owner' = owner, stopping' = stopping
      PROVE  UNCHANGED OC!vars
  BY <1>a DEF OC!vars
<1>1. ASSUME NEW r \in Request, TakeAuthorizedUpload(r)
      PROVE  [OC!Next]_(OC!vars)
  <2>1. CASE Advances(r, "asking", "holding") /\ Becomes(r, "held")
    <3>1. owner[r] = "gate" /\ stopping' = stopping
      BY <2>1, <1>1 DEF IInv, PrepareKnowsOwner, Advances,
                        TakeAuthorizedUpload
    <3> QED
      BY <2>1, <3>1, <1>0, FateRefines DEF Custody, Over
  <2>2. CASE owner' = owner
    BY <2>2, <1>1, <1>a DEF TakeAuthorizedUpload
  <2> QED
    BY <2>1, <2>2, <1>1 DEF TakeAuthorizedUpload
<1>2. ASSUME NEW r \in Request, Install(r) PROVE [OC!Next]_(OC!vars)
  <2>1. owner[r] = "held" /\ stopping' = stopping /\ Becomes(r, "installed")
    BY <1>2 DEF IInv, OwnerInOnePlace, Advances, Install
  <2> QED
    BY <2>1, <1>0, FateRefines DEF Custody, Over
<1>3. ASSUME NEW r \in Request, Reject(r) PROVE [OC!Next]_(OC!vars)
  <2>1. owner[r] = "held" /\ stopping' = stopping /\ Becomes(r, "cancelling")
    BY <1>3 DEF IInv, OwnerInOnePlace, Advances, Reject, StartCancel
  <2> QED
    BY <2>1, <1>0, FateRefines DEF Custody, Over
<1>4. ASSUME NEW r \in Request, DropPrepare(r) PROVE [OC!Next]_(OC!vars)
  <2>1. CASE prep[r] = "holding" /\ Becomes(r, "dropped")
    <3>1. owner[r] = "held" /\ stopping' = stopping
      BY <2>1, <1>4 DEF IInv, OwnerInOnePlace, DropPrepare
    <3> QED
      BY <2>1, <3>1, <1>0, FateRefines DEF Custody, Over
  <2>2. CASE owner' = owner
    BY <2>2, <1>4, <1>a DEF DropPrepare
  <2> QED
    BY <2>1, <2>2, <1>4 DEF DropPrepare, Advances
<1>5. ASSUME NEW u \in Upload, NEW r \in Request, BeginReceive(u, r)
      PROVE  [OC!Next]_(OC!vars)
  <2>1. /\ owner[r] = "installed"
        /\ ~stopping
        /\ stopping' = stopping
        /\ Becomes(r, "receiving")
    BY <1>5, NoneAssumption
       DEF IInv, OwnerInOnePlace, StopIsABarrier, BeginReceive
  <2> QED
    BY <2>1, <1>0, FateRefines DEF Custody, Over
<1>6. ASSUME NEW u \in Upload, NEW r \in Request, BeginWrongly(u, r)
      PROVE  [OC!Next]_(OC!vars)
  <2>1. /\ owner[r] = "installed"
        /\ stopping' = stopping
        /\ Becomes(r, "cancelling")
    BY <1>6 DEF IInv, OwnerInOnePlace, BeginWrongly, StartCancel
  <2> QED
    BY <2>1, <1>0, FateRefines DEF Custody, Over
<1>7. ASSUME NEW u \in Upload, ReceiveReturns(u) PROVE [OC!Next]_(OC!vars)
  <2>1. of[u] \in Request /\ owner[of[u]] = "receiving"
    BY <1>7 DEF IInv, TypeOK, UploadKnowsOwner, ReceiveReturns, Moves
  <2>2. /\ stopping' = stopping
        /\ Becomes(of[u], "received") \/ Becomes(of[u], "failed")
    BY <1>7 DEF ReceiveReturns
  <2>3. CASE Becomes(of[u], "received")
    BY <2>1, <2>2, <2>3, <1>0, FateRefines DEF Custody, Over
  <2>4. CASE Becomes(of[u], "failed")
    BY <2>1, <2>2, <2>4, <1>0, FateRefines DEF Custody, Over
  <2> QED
    BY <2>2, <2>3, <2>4
<1>8. ASSUME NEW u \in Upload, DropUpload(u) PROVE [OC!Next]_(OC!vars)
  <2>1. CASE at[u] = "receiving"
    <3>1. of[u] \in Request /\ owner[of[u]] = "receiving"
      BY <2>1 DEF IInv, TypeOK, UploadKnowsOwner
    <3>2. Becomes(of[u], "dropped") /\ stopping' = stopping
      BY <1>8, <2>1 DEF DropUpload
    <3> QED
      BY <3>1, <3>2, <1>0, FateRefines DEF Custody, Over
  <2>2. CASE at[u] # "receiving"
    BY <2>2, <1>8, <1>a DEF DropUpload
  <2> QED
    BY <2>1, <2>2
<1>9. ASSUME NEW r \in Request, CancelSession(r) PROVE [OC!Next]_(OC!vars)
  <2>1. /\ owner[r] = "installed"
        /\ stopping' = stopping
        /\ Becomes(r, "cancelling")
    BY <1>9 DEF IInv, OwnerInOnePlace, CancelSession, StartCancel
  <2> QED
    BY <2>1, <1>0, FateRefines DEF Custody, Over
<1>10. ASSUME NEW r \in Request, CancelReturns(r) PROVE [OC!Next]_(OC!vars)
  <2>1. /\ owner[r] = "cancelling"
        /\ stopping' = stopping
        /\ Becomes(r, "cancelled")
    BY <1>10 DEF CancelReturns
  <2> QED
    BY <2>1, <1>0, FateRefines DEF Custody, Over
<1>11. ASSUME NEW r \in Request, DropCanceller(r) PROVE [OC!Next]_(OC!vars)
  <2>1. /\ owner[r] = "cancelling"
        /\ stopping' = stopping
        /\ Becomes(r, "dropped")
    BY <1>11 DEF DropCanceller
  <2> QED
    BY <2>1, <1>0, FateRefines DEF Custody, Over
<1>12. ASSUME SweepProtected PROVE [OC!Next]_(OC!vars)
  <2>1. /\ session \in Request
        /\ owner[session] = "installed"
        /\ stopping' = stopping
        /\ Becomes(session, "cancelling")
    BY <1>12 DEF IInv, TypeOK, OwnerInOnePlace, SweepProtected, StartCancel
  <2> QED
    BY <2>1, <1>0, FateRefines DEF Custody, Over
<1>13. ASSUME BeginStop PROVE [OC!Next]_(OC!vars)
  <2>1. \A r \in Request : Custody(owner'[r]) = Custody(owner[r])
    <3>1. CASE session = None
      BY <1>13, <3>1 DEF BeginStop
    <3>2. CASE session # None
      <4>1. session \in Request /\ owner[session] = "installed"
        BY <3>2 DEF IInv, TypeOK, OwnerInOnePlace
      <4>2. Becomes(session, "cancelling")
        BY <1>13, <3>2 DEF BeginStop, StartCancel
      <4> QED
        BY <4>1, <4>2, <1>0 DEF Becomes, Custody, Over
    <3> QED
      BY <3>1, <3>2
  <2>2. Custodies' = Custodies
    BY <2>1 DEF Custodies
  <2>3. CASE stopping
    <3>1. stopping' = stopping
      BY <1>13, <2>3 DEF BeginStop
    <3> QED
      BY <2>2, <3>1 DEF OC!vars, Custodies
  <2>4. CASE ~stopping
    <3>1. OC!Close
      BY <1>13, <2>2, <2>4 DEF BeginStop, OC!Close, Custodies
    <3> QED
      BY <3>1 DEF OC!Next
  <2> QED
    BY <2>3, <2>4 DEF IInv, TypeOK
<1>14. ASSUME AbortTasks PROVE [OC!Next]_(OC!vars)
  <2>0. stopping' = stopping
    BY <1>14 DEF AbortTasks
  <2>1. CASE \E r \in Request : by[r] = "sweep"
    <3>1. PICK r \in Request : by[r] = "sweep"
      BY <2>1
    <3>2. owner[r] = "cancelling"
      BY <3>1 DEF IInv, CancelsAreAwaited
    <3>3. Becomes(r, "dropped")
      BY <1>14, <3>1, <1>0
         DEF AbortTasks, Becomes, IInv, TypeOK, CancelsAreAwaited
    <3> QED
      BY <2>0, <3>2, <3>3, <1>0, FateRefines DEF Custody, Over
  <2>2. CASE \A r \in Request : by[r] # "sweep"
    <3>1. owner' = owner
      BY <1>14, <2>2, <1>0 DEF AbortTasks
    <3> QED
      BY <2>0, <3>1, <1>a
  <2> QED
    BY <2>1, <2>2
<1>15. CASE \/ UNCHANGED vars \/ Age \/ StandardPath
            \/ \E r \in Request :
                 TurnAway(r) \/ Preflight(r) \/ CancelActive(r)
            \/ \E u \in Upload :
                 ClearActive(u) \/ ReportFile(u) \/ ReportDone(u)
  <2>1. owner' = owner /\ stopping' = stopping
    BY <1>15 DEF vars, Age, StandardPath, TurnAway, Preflight, CancelActive,
                 ClearActive, ReportFile, ReportDone
  <2> QED
    BY <2>1, <1>a
<1> QED
  BY <1>1, <1>2, <1>3, <1>4, <1>5, <1>6, <1>7, <1>8, <1>9, <1>10, <1>11,
     <1>12, <1>13, <1>14, <1>15 DEF Next, Prepare, UploadFile, Cancel

(* Owners are handed over once, transferred at most once, end once, and    *)
(* are not transferred once the server stops.                              *)
THEOREM ServerKeepsCustody == Spec => ImplementsCustody
<1>1. Spec => OC!Init /\ [][OC!Next]_(OC!vars)
  BY InitRefines, StepRefines, IInvHolds, PTL DEF Spec
<1> QED
  BY <1>1 DEF ImplementsCustody, OC!Spec
=============================================================================
