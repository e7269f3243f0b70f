----------------------- MODULE ReceiveLifecycle_proofs -----------------------
(***************************************************************************)
(* Proofs about ReceiveLifecycle, for every set of files and handlers.     *)
(*                                                                         *)
(* The argument ties each slot to the handler that holds it: a lease sits  *)
(* on a Receiving slot (or one cancelled under it), a permit on a          *)
(* Publishing slot, and no slot is held twice.                             *)
(***************************************************************************)
EXTENDS ReceiveLifecycle, TLAPS

(* What a handler holds agrees with the phase of its slot. *)
SlotsMatchHandlers ==
  \A h \in Handler :
    /\ Holds(h) => file[h] \in File
    /\ at[h] = "body" => phase[file[h]] \in {Receiving, Cancelled}
    /\ at[h] \in {"commit", "landed"} => phase[file[h]] = Publishing

(* What has landed, or will land on its own, was claimed and let go of.    *)
LandingsAreSpent ==
  \A h \in Handler :
    /\ at[h] \in {"idle", "body", "commit"} => h \notin landed
    /\ at[h] # "lost" => h \notin detached
    /\ at[h] = "landed" => h \in landed

(* Recorded files are published, and on disk by the upload that did it. *)
RecordedIsPublished ==
  \A f \in recorded :
    /\ phase[f] = Published
    /\ \E h \in landed : file[h] = f /\ at[h] = "done"

(* A closed session has no slot that can still be published. *)
ClosedHasNoOpenSlot ==
  closed => \A f \in File : phase[f] \in {Published, Cancelled}

(* What is on disk has been recorded, or its handler is on the way to do   *)
(* so, or was lost.                                                        *)
LandedIsAccounted ==
  \A h \in landed :
    \/ at[h] \in {"landed", "lost"}
    \/ at[h] = "done" /\ file[h] \in recorded

IInv ==
  /\ TypeOK
  /\ SlotsMatchHandlers
  /\ OneOwnerPerFile
  /\ LandingsAreSpent
  /\ LandedIsAccounted
  /\ RecordedIsPublished
  /\ ClosedHasNoOpenSlot

-----------------------------------------------------------------------------

USE DEF Ready, Receiving, Publishing, Published, Cancelled

LEMMA InitEstablishesIInv == Init => IInv
BY NoneIsNoFile DEF Init, IInv, TypeOK, Phase, Place, SlotsMatchHandlers,
   OneOwnerPerFile, LandingsAreSpent, LandedIsAccounted,
   RecordedIsPublished, ClosedHasNoOpenSlot, Holds

LEMMA StepPreservesIInv == IInv /\ [Next]_vars => IInv'
<1> SUFFICES ASSUME IInv, [Next]_vars PROVE IInv'
  OBVIOUS
<1> USE DEF IInv, TypeOK, Phase, Place, SlotsMatchHandlers, OneOwnerPerFile,
            LandingsAreSpent, LandedIsAccounted, RecordedIsPublished,
            ClosedHasNoOpenSlot, Holds
<1>1. ASSUME NEW h \in Handler, NEW f \in File, BeginReceive(h, f)
      PROVE  IInv'
  BY <1>1 DEF BeginReceive, Claimable, Claim, Moves
<1>2. ASSUME NEW h \in Handler, FailReceive(h)
      PROVE  IInv'
  BY <1>2 DEF FailReceive, DropLease, Moves
<1>3. ASSUME NEW h \in Handler, BeginPublication(h)
      PROVE  IInv'
  BY <1>3 DEF BeginPublication, Publishable, Publish, Moves
<1>4. ASSUME NEW h \in Handler, Land(h)
      PROVE  IInv'
  BY <1>4 DEF Land, Moves
<1>5. ASSUME NEW h \in Handler, FailCommit(h)
      PROVE  IInv'
  BY <1>5 DEF FailCommit, DropPermit, Moves
<1>6. ASSUME NEW h \in Handler, Record(h)
      PROVE  IInv'
  BY <1>6 DEF Record, FinishPublication, Moves
<1>7. ASSUME NEW h \in Handler, AbandonLanded(h)
      PROVE  IInv'
  BY <1>7 DEF AbandonLanded, DropPermit, Moves
<1>8. ASSUME NEW h \in Handler, DropInCommit(h)
      PROVE  IInv'
  BY <1>8 DEF DropInCommit, DropPermit, Moves
<1>9. ASSUME NEW h \in Handler, LandDetached(h)
      PROVE  IInv'
  BY <1>9 DEF LandDetached
<1>10. CASE TryCancelReceives
  BY <1>10 DEF TryCancelReceives, Cancellable, CancelAll
<1>11. CASE UNCHANGED vars
  BY <1>11 DEF vars
<1>12. QED
  BY <1>1, <1>2, <1>3, <1>4, <1>5, <1>6, <1>7, <1>8, <1>9, <1>10, <1>11
     DEF Next, Step

LEMMA Inductive == Spec => []IInv
BY InitEstablishesIInv, StepPreservesIInv, PTL DEF Spec

(* Type correctness of the lifecycle. *)
THEOREM TypeCorrect == Spec => []TypeOK
BY Inductive, PTL DEF IInv

(* At most one upload handler holds a file, by lease or by permit, through *)
(* failures, drops, retries and cancellations (begin_receive).             *)
THEOREM OneOwner == Spec => []OneOwnerPerFile
BY Inductive, PTL DEF IInv

(* What the session recorded is on disk and is never received again, even  *)
(* when handlers lose their permits.                                       *)
THEOREM RecordedStays == Spec => []RecordedIsFinal
<1>1. IInv => RecordedIsFinal
  BY DEF IInv, RecordedIsPublished, SlotsMatchHandlers, RecordedIsFinal, Holds
<1>2. QED
  BY <1>1, Inductive, PTL

-----------------------------------------------------------------------------
(* What lands, and when. *)

(* A handler that is about to land a file, or has just done so, is the     *)
(* only one that answers for it, and the session is open.                  *)
LEMMA PermitIsAlone ==
  ASSUME IInv, NEW h \in Handler, at[h] \in {"commit", "landed"}
  PROVE  /\ ~closed
         /\ file[h] \in File
         /\ file[h] \notin recorded
         /\ \A g \in landed : (at[g] # "lost" /\ file[g] = file[h]) => g = h
<1>1. Holds(h) /\ file[h] \in File /\ phase[file[h]] = Publishing
  BY DEF IInv, SlotsMatchHandlers, Holds
<1>2. ~closed /\ file[h] \notin recorded
  BY <1>1 DEF IInv, ClosedHasNoOpenSlot, RecordedIsPublished
<1>3. ASSUME NEW g \in landed, at[g] # "lost", file[g] = file[h]
      PROVE  g = h
  <2>1. g \in Handler
    BY DEF IInv, TypeOK
  <2>2. at[g] = "landed"
    BY <1>2, <1>3 DEF IInv, LandedIsAccounted
  <2>3. QED
    BY <1>1, <1>3, <2>1, <2>2 DEF IInv, OneOwnerPerFile, Holds
<1>4. QED
  BY <1>1, <1>2, <1>3

LEMMA StepPreservesLandsOnce ==
  ASSUME IInv, LandsOnce, [Next]_vars
  PROVE  LandsOnce'
<1> USE DEF IInv, TypeOK, LandsOnce, LandingsAreSpent
<1>1. ASSUME NEW h \in Handler, Land(h)
      PROVE  LandsOnce'
  <2>1. /\ file' = file
        /\ landed' = landed \cup {h}
        /\ at[h] = "commit"
        /\ \A g \in Handler : g # h => at'[g] = at[g]
    BY <1>1 DEF Land, Moves
  <2>2. \A g \in landed : (at[g] # "lost" /\ file[g] = file[h]) => g = h
    BY <2>1, PermitIsAlone
  <2>3. QED
    BY <2>1, <2>2
<1>2. ASSUME NEW h \in Handler, NEW f \in File, BeginReceive(h, f)
      PROVE  LandsOnce'
  BY <1>2 DEF BeginReceive, Moves
<1>3. ASSUME NEW h \in Handler, LandDetached(h)
      PROVE  LandsOnce'
  BY <1>3 DEF LandDetached
<1>4. ASSUME NEW h \in Handler,
             \/ FailReceive(h) \/ BeginPublication(h) \/ FailCommit(h)
             \/ Record(h) \/ AbandonLanded(h) \/ DropInCommit(h)
      PROVE  LandsOnce'
  <2>1. /\ landed' = landed /\ file' = file
        /\ at[h] # "lost"
        /\ \A g \in Handler : g # h => at'[g] = at[g]
    BY <1>4 DEF FailReceive, BeginPublication, FailCommit, Record,
       AbandonLanded, DropInCommit, Moves
  <2>2. QED
    BY <2>1
<1>5. CASE UNCHANGED <<at, file, landed>>
  BY <1>5
<1>6. QED
  BY <1>1, <1>2, <1>3, <1>4, <1>5 DEF Next, Step, TryCancelReceives, vars

LEMMA LandsOnceInductive == Spec => [](IInv /\ LandsOnce)
<1>1. Init => LandsOnce
  BY DEF Init, LandsOnce
<1>2. IInv /\ LandsOnce /\ [Next]_vars => LandsOnce'
  BY StepPreservesLandsOnce
<1>3. QED
  BY <1>1, <1>2, Inductive, PTL DEF Spec

(* Of the uploads that were not lost with a permit in hand, at most one    *)
(* lands a file (begin_receive, begin_publication and finish).             *)
THEOREM LandsAtMostOnce == Spec => []LandsOnce
BY LandsOnceInductive, PTL

(* After a cancellation answered true nothing of the session lands but the *)
(* renames that outlived their uploads (try_cancel_receives).              *)
THEOREM CancellationFinal == Spec => CancellationIsFinal
<1> DEFINE Quiet == closed => \A h \in landed' \ landed : at[h] = "lost"
<1>1. ASSUME IInv, [Next]_vars
      PROVE  [Quiet]_vars
  <2>1. ASSUME NEW h \in Handler, Land(h)
        PROVE  ~closed
    BY <1>1, <2>1, PermitIsAlone DEF Land, Moves
  <2>2. ASSUME NEW h \in Handler, LandDetached(h)
        PROVE  landed' = landed \cup {h} /\ at[h] = "lost"
    BY <1>1, <2>2 DEF LandDetached, IInv, TypeOK, LandingsAreSpent
  <2>3. QED
    BY <1>1, <2>1, <2>2
       DEF Next, Step, BeginReceive, FailReceive, BeginPublication,
           FailCommit, Record, AbandonLanded, DropInCommit,
           TryCancelReceives
<1>2. QED
  BY <1>1, Inductive, PTL DEF Spec, CancellationIsFinal

-----------------------------------------------------------------------------
(* The lifecycle keeps the promise of SessionDelivery. *)

Kept == {g \in landed : at[g] # "lost"}

(* Steps that neither land a file nor lose one that has landed. *)
LEMMA DeliveryUnmoved ==
  ASSUME IInv, NEW h \in Handler,
         \/ \E f \in File : BeginReceive(h, f)
         \/ FailReceive(h) \/ BeginPublication(h) \/ FailCommit(h)
         \/ DropInCommit(h)
  PROVE  UNCHANGED Delivery!vars
<1>1. /\ h \notin landed
      /\ landed' = landed
      /\ \A g \in Handler : g # h => at'[g] = at[g] /\ file'[g] = file[g]
      /\ UNCHANGED <<recorded, closed>>
  BY DEF IInv, TypeOK, LandingsAreSpent, BeginReceive, FailReceive,
         BeginPublication, FailCommit, DropInCommit, Moves
<1>2. {g \in landed' : at'[g] # "lost"} = Kept
  BY <1>1 DEF Kept, IInv, TypeOK
<1>3. \A g \in Kept : file'[g] = file[g]
  BY <1>1 DEF Kept, IInv, TypeOK
<1>4. QED
  BY <1>1, <1>2, <1>3 DEF Delivery!vars, Kept

LEMMA StepImplementsDelivery ==
  ASSUME IInv, LandsOnce, [Next]_vars
  PROVE  [Delivery!Next]_(Delivery!vars)
<1> USE DEF Delivery!vars
<1>1. ASSUME NEW h \in Handler, Land(h)
      PROVE  Delivery!Deliver(file[h]) /\ file[h] \in File
  <2>1. at[h] = "commit" /\ h \notin landed
    BY <1>1 DEF Land, Moves, IInv, LandingsAreSpent
  <2>2. {g \in landed' : at'[g] # "lost"} = Kept \cup {h}
    BY <1>1, <2>1 DEF Land, Moves, Kept, IInv, TypeOK
  <2>3. file[h] \notin {file[g] : g \in Kept}
    BY <2>1, PermitIsAlone DEF Kept
  <2>4. {file'[g] : g \in {k \in landed' : at'[k] # "lost"}}
          = {file[g] : g \in Kept} \cup {file[h]}
    BY <1>1, <2>2 DEF Land
  <2>5. QED
    BY <1>1, <2>1, <2>3, <2>4, PermitIsAlone
       DEF Land, Delivery!Deliver, Kept
<1>2. ASSUME NEW h \in Handler, Record(h)
      PROVE  Delivery!Acknowledge(file[h]) /\ file[h] \in File
  <2>1. at[h] = "landed" /\ h \in Kept
    BY <1>2 DEF Record, Moves, IInv, LandingsAreSpent, Kept
  <2>2. {g \in landed' : at'[g] # "lost"} = Kept
    BY <1>2 DEF Record, Moves, Kept, IInv, TypeOK
  <2>3. {file'[g] : g \in {k \in landed' : at'[k] # "lost"}}
          = {file[g] : g \in Kept}
    BY <1>2, <2>2 DEF Record
  <2>4. QED
    BY <1>2, <2>1, <2>3, PermitIsAlone
       DEF Record, Delivery!Acknowledge, Kept
<1>3. ASSUME NEW h \in Handler, AbandonLanded(h)
      PROVE  Delivery!GiveUp(file[h]) /\ file[h] \in File
  <2>1. at[h] = "landed" /\ h \in Kept
    BY <1>3 DEF AbandonLanded, Moves, IInv, LandingsAreSpent, Kept
  <2>2. {g \in landed' : at'[g] # "lost"} = Kept \ {h}
    BY <1>3 DEF AbandonLanded, Moves, Kept, IInv, TypeOK
  <2>3. \A g \in Kept : file[g] = file[h] => g = h
    BY <2>1, PermitIsAlone DEF Kept
  <2>4. {file'[g] : g \in {k \in landed' : at'[k] # "lost"}}
          = {file[g] : g \in Kept} \ {file[h]}
    BY <1>3, <2>2, <2>3 DEF AbandonLanded
  <2>5. QED
    BY <1>3, <2>1, <2>4, PermitIsAlone
       DEF AbandonLanded, Delivery!GiveUp, Kept
<1>4. ASSUME TryCancelReceives
      PROVE  Delivery!Close \/ UNCHANGED Delivery!vars
  <2>1. ASSUME NEW h \in Kept
        PROVE  file[h] \in recorded
    <3>1. h \in Handler
      BY DEF IInv, TypeOK, Kept
    <3>2. at[h] # "landed"
      BY <1>4, <3>1 DEF TryCancelReceives, Cancellable, IInv, TypeOK,
                        SlotsMatchHandlers, Holds
    <3>3. QED
      BY <3>2 DEF IInv, LandedIsAccounted, Kept
  <2>2. ASSUME NEW f \in recorded, ~closed
        PROVE  f \in {file[h] : h \in Kept}
    BY <2>2 DEF IInv, RecordedIsPublished, Kept
  <2>3. CASE closed
    BY <1>4, <2>3 DEF TryCancelReceives
  <2>4. CASE ~closed
    <3>1. {file[h] : h \in Kept} = recorded
      BY <2>1, <2>2, <2>4
    <3>2. QED
      BY <1>4, <2>4, <3>1 DEF TryCancelReceives, Delivery!Close, Kept
  <2>5. QED
    BY <2>3, <2>4
<1>5. ASSUME NEW h \in Handler, LandDetached(h)
      PROVE  UNCHANGED Delivery!vars
  <2>1. at[h] = "lost"
    BY <1>5 DEF LandDetached, IInv, TypeOK, LandingsAreSpent
  <2>2. {g \in landed' : at'[g] # "lost"} = Kept
    BY <1>5, <2>1 DEF LandDetached, Kept
  <2>3. QED
    BY <1>5, <2>2 DEF LandDetached, Kept
<1>6. CASE UNCHANGED vars
  BY <1>6 DEF vars
<1>7. QED
  <2>1. ASSUME NEW h \in Handler, Step(h)
        PROVE  Delivery!Next \/ UNCHANGED Delivery!vars
    <3>1. CASE Land(h) \/ Record(h) \/ AbandonLanded(h)
      BY <1>1, <1>2, <1>3, <3>1
         DEF Delivery!Next, Delivery!Deliver, Delivery!Acknowledge,
             Delivery!GiveUp
    <3>2. CASE LandDetached(h)
      BY <1>5, <3>2
    <3>3. CASE \/ \E f \in File : BeginReceive(h, f)
               \/ FailReceive(h) \/ BeginPublication(h) \/ FailCommit(h)
               \/ DropInCommit(h)
      <4>1. UNCHANGED Delivery!vars
        BY <3>3, DeliveryUnmoved
      <4>2. QED
        BY <4>1
    <3>4. QED
      BY <2>1, <3>1, <3>2, <3>3 DEF Step
  <2>2. QED
    BY <1>4, <1>6, <2>1 DEF Next, Delivery!Next

(* The slots, leases and permits of a session implement SessionDelivery.   *)
THEOREM LifecycleImplementsDelivery == Spec => ImplementsDelivery
<1>1. Init => Delivery!Init
  BY DEF Init, Delivery!Init
<1>2. IInv /\ LandsOnce /\ [Next]_vars => [Delivery!Next]_(Delivery!vars)
  BY StepImplementsDelivery
<1>3. QED
  BY <1>1, <1>2, LandsOnceInductive, PTL
     DEF Spec, ImplementsDelivery, Delivery!Spec
=============================================================================
