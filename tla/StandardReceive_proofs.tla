----------------------- MODULE StandardReceive_proofs -----------------------
(***************************************************************************)
(* Proofs about StandardReceive, for every set of offers, uploads, files   *)
(* and peers.                                                              *)
(*                                                                         *)
(* First what holds whatever the senders do: types, who can be recorded as *)
(* awaiting consent, what an upload handler knows about its session and    *)
(* its slot, and what SessionDone says.  Then, as long as no offer has     *)
(* been withdrawn without a session id and no handler was overtaken by     *)
(* session_timeout, that every handler works on the installed session and  *)
(* that a session with a file in flight stays installed.  Last, that each  *)
(* session runs the lifecycle of ReceiveLifecycle, and with it all that is *)
(* proved of the lifecycle there.                                          *)
(***************************************************************************)
EXTENDS StandardReceiveSessions, TLAPS

(* A session whose id was told belongs to a handler that has settled. *)
IssuedIsSettled == \A o \in issued : step[o] \in {"leaving", "gone"}

(* An upload handler is in a session whose tokens were issued, on a file   *)
(* that session accepted.                                                  *)
UploadsBelong ==
  \A u \in Upload :
    at[u] # "idle" => of[u] \in issued /\ file[u] \in accepted[of[u]]

BaseInv ==
  /\ TypeOK
  /\ IssuedIsSettled
  /\ UploadsBelong
  /\ ReservationHasHandler

-----------------------------------------------------------------------------

USE DEF Ready, Receiving, Publishing, Published, Cancelled, Phase

(* Session ids of different offers, and of an offer's two sessions, differ. *)
LEMMA SessionIds ==
  /\ \A o \in Offer : Placeholder(o) \in SessionId /\ Real(o) \in SessionId
  /\ \A o \in Offer : Placeholder(o) # None /\ Real(o) # None
  /\ \A o, q \in Offer : Placeholder(o) # Real(q)
  /\ \A o, q \in Offer : Placeholder(o) = Placeholder(q) => o = q
  /\ \A o, q \in Offer : Real(o) = Real(q) => o = q
<1>1. \A o \in Offer : Placeholder(o) \in SessionId /\ Real(o) \in SessionId
  BY DEF Placeholder, Real, SessionId
<1>2. \A o, q \in Offer : Placeholder(o) # Real(q)
  BY DEF Placeholder, Real
<1>3. \A o, q \in Offer : Placeholder(o) = Placeholder(q) => o = q
  BY DEF Placeholder
<1>4. \A o, q \in Offer : Real(o) = Real(q) => o = q
  BY DEF Real
<1>5. QED
  BY <1>1, <1>2, <1>3, <1>4, NoneAssumption

LEMMA InitBase == Init => BaseInv
<1> SUFFICES ASSUME Init PROVE BaseInv
  OBVIOUS
<1>1. TypeOK
  BY DEF Init, TypeOK, HandlerStep, Place
<1>2. IssuedIsSettled /\ UploadsBelong
  BY DEF Init, IssuedIsSettled, UploadsBelong
<1>3. ReservationHasHandler
  BY NoneAssumption DEF Init, ReservationHasHandler
<1>4. QED
  BY <1>1, <1>2, <1>3 DEF BaseInv

(* Cancelling the installed session keeps the slots well typed. *)
LEMMA CancelCurrentType ==
  ASSUME TypeOK, CancelCurrent
  PROVE  slots' \in [Offer -> [File -> Phase]] /\ closed' \subseteq Offer
BY DEF TypeOK, CancelCurrent, TryCancel, CancelAll

LEMMA StepPreservesBase == BaseInv /\ [Next]_vars => BaseInv'
<1> SUFFICES ASSUME BaseInv, [Next]_vars PROVE BaseInv'
  OBVIOUS
<1> USE NoneAssumption, OfferAssumption
    DEF BaseInv, TypeOK, IssuedIsSettled, UploadsBelong,
        ReservationHasHandler, HandlerStep, Place,
        slotVars, offerVars, sessionVars, uploadVars
<1>1. ASSUME NEW o \in Offer, TurnAway(o) PROVE BaseInv'
  BY <1>1 DEF TurnAway, Advances
<1>2. ASSUME NEW o \in Offer, Reserve(o) PROVE BaseInv'
  <2>1. TypeOK'
    <3>1. /\ slots' \in [Offer -> [File -> Phase]]
          /\ closed' \subseteq Offer
      BY <1>2, CancelCurrentType DEF Reserve
    <3>2. /\ current' \in SessionId
          /\ from' \in Peer
          /\ awaiting' \in Offer
          /\ stale' \in BOOLEAN
      BY <1>2, SessionIds DEF Reserve
    <3>3. step' \in [Offer -> HandlerStep]
      BY SMTT(30), <1>2 DEF Reserve, Advances
    <3>4. accepted' \in [Offer -> SUBSET File]
      <4>1. Offered[o] \in SUBSET File
        BY OfferAssumption
      <4>2. \/ accepted' = accepted
            \/ accepted' = [accepted EXCEPT ![o] = Offered[o]]
        BY <1>2 DEF Reserve
      <4>3. QED
        BY <4>1, <4>2
    <3>5. QED
      BY <1>2, <3>1, <3>2, <3>3, <3>4 DEF Reserve
  <2>2. /\ step[o] = "new"
        /\ \E target \in {"reserved", "decided"} :
             step' = [step EXCEPT ![o] = target]
        /\ awaiting' = o
        /\ UNCHANGED <<issued, uploadVars>>
        /\ \A q \in Offer : q # o => accepted'[q] = accepted[q]
    BY <1>2 DEF Reserve, Advances
  <2>3. IssuedIsSettled' /\ ReservationHasHandler'
    BY <2>2
  <2>4. o \notin issued
    BY <2>2
  <2>5. UploadsBelong'
    BY <2>2, <2>4
  <2>6. QED
    BY <2>1, <2>3, <2>5
<1>3. ASSUME NEW o \in Offer, Ask(o) PROVE BaseInv'
  BY <1>3 DEF Ask, Advances
<1>4. ASSUME NEW o \in Offer, AskNobody(o) PROVE BaseInv'
  BY <1>4 DEF AskNobody, Decides, Advances
<1>5. ASSUME NEW o \in Offer, Answer(o) PROVE BaseInv'
  BY <1>5 DEF Answer, Decides, Advances
<1>7. ASSUME NEW o \in Offer, GoUnanswered(o) PROVE BaseInv'
  BY <1>7 DEF GoUnanswered, Decides, Advances
<1>8. ASSUME NEW o \in Offer, ClearReservation(o) PROVE BaseInv'
  BY <1>8 DEF ClearReservation, Advances
<1>9. ASSUME NEW o \in Offer, SettleDeclined(o) PROVE BaseInv'
  BY <1>9, CancelCurrentType DEF SettleDeclined, Advances
<1>10. ASSUME NEW o \in Offer, SettleAccepted(o) PROVE BaseInv'
  <2>1. /\ step[o] = "cleared"
        /\ \/ step' = [step EXCEPT ![o] = "installed"] /\ issued' = issued
           \/ /\ step' = [step EXCEPT ![o] = "leaving"]
              /\ issued' = issued \cup {o}
    <3>1. CASE o \in Message
      BY <1>10, <3>1 DEF SettleAccepted, Advances
    <3>2. CASE o \notin Message
      BY <1>10, <3>2 DEF SettleAccepted, Advances
    <3>3. QED
      BY <3>1, <3>2
  <2>2. TypeOK'
    <3>1. /\ slots' \in [Offer -> [File -> Phase]]
          /\ closed' \subseteq Offer
      BY <1>10, CancelCurrentType DEF SettleAccepted
    <3>2. current' \in SessionId
      BY <1>10, SessionIds DEF SettleAccepted
    <3>3. step' \in [Offer -> HandlerStep] /\ issued' \subseteq Offer
      BY SMTT(30), <2>1
    <3>4. QED
      BY <1>10, <3>1, <3>2, <3>3 DEF SettleAccepted
  <2>3. UNCHANGED <<awaiting, accepted, uploadVars>>
    BY <1>10 DEF SettleAccepted
  <2>4. (IssuedIsSettled /\ UploadsBelong /\ ReservationHasHandler)'
    BY SMTT(30), <2>1, <2>3
  <2>5. QED
    BY <2>2, <2>4
<1>11. ASSUME NEW o \in Offer, DeliverMessage(o) PROVE BaseInv'
  <2>1. finished' \in [Offer -> Nat]
    BY <1>11 DEF DeliverMessage
  <2>2. TypeOK'
    BY <1>11, <2>1 DEF DeliverMessage, Advances
  <2>3. (IssuedIsSettled /\ UploadsBelong /\ ReservationHasHandler)'
    BY <1>11 DEF DeliverMessage, Advances
  <2>4. QED
    BY <2>2, <2>3
<1>12. ASSUME NEW o \in Offer, DropOffer(o) PROVE BaseInv'
  BY <1>12 DEF DropOffer
<1>13. ASSUME NEW o \in Offer, ReleaseReservation(o) PROVE BaseInv'
  BY ZenonT(40), <1>13 DEF ReleaseReservation, Advances
<1>14. ASSUME NEW o \in Offer, CancelWithoutId(o) PROVE BaseInv'
  <2>1. TypeOK'
    <3>1. /\ current' \in {current, None}
          /\ from' \in {from, None}
          /\ stale' \in {stale, FALSE}
          /\ awaiting' = None
      BY <1>14 DEF CancelWithoutId
    <3>2. withdrawn' \subseteq Offer
      BY <1>14 DEF CancelWithoutId
    <3>3. UNCHANGED <<step, accepted, overran, issued, sessionVars,
                      uploadVars>>
      BY <1>14 DEF CancelWithoutId
    <3>4. QED
      BY <3>1, <3>2, <3>3
  <2>2. (IssuedIsSettled /\ UploadsBelong /\ ReservationHasHandler)'
    BY <1>14 DEF CancelWithoutId
  <2>3. QED
    BY <2>1, <2>2
<1>15. ASSUME NEW o \in Offer, NEW p \in Peer, CancelById(p, o) PROVE BaseInv'
  <2>1. slots' \in [Offer -> [File -> Phase]] /\ closed' \subseteq Offer
    BY <1>15, CancelCurrentType DEF CancelById
  <2>2. finished' \in [Offer -> Nat]
    BY <1>15 DEF CancelById
  <2>3. QED
    BY <1>15, <2>1, <2>2 DEF CancelById
<1>16. ASSUME NEW u \in Upload, NEW o \in Offer, NEW f \in File,
              BeginReceive(u, o, f)
       PROVE  BaseInv'
  BY <1>16 DEF BeginReceive, Moves, Claim
<1>17. ASSUME NEW u \in Upload, FailReceive(u) PROVE BaseInv'
  BY <1>17 DEF FailReceive, Moves, DropLease
<1>18. ASSUME NEW u \in Upload, BeginPublication(u) PROVE BaseInv'
  BY <1>18 DEF BeginPublication, Moves, Publish
<1>19. ASSUME NEW u \in Upload, Land(u) PROVE BaseInv'
  BY <1>19 DEF Land, Moves
<1>20. ASSUME NEW u \in Upload, FailCommit(u) PROVE BaseInv'
  BY <1>20 DEF FailCommit, Moves, DropPermit
<1>21. ASSUME NEW u \in Upload, Record(u) PROVE BaseInv'
  <2>1. of[u] \in Offer /\ file[u] \in File
    BY <1>21 DEF Record, Moves
  <2>2. /\ slots' \in [Offer -> [File -> Phase]]
        /\ received' \in [Offer -> SUBSET File]
    BY <1>21, <2>1 DEF Record, FinishPublication
  <2>3. finished' \in [Offer -> Nat] /\ current' \in {current, None}
    BY <1>21, <2>1 DEF Record
  <2>4. at' \in [Upload -> Place] /\ at' = [at EXCEPT ![u] = "done"]
    BY <1>21 DEF Record, Moves
  <2>5. QED
    <3>1. TypeOK'
      BY <1>21, <2>1, <2>2, <2>3, <2>4 DEF Record
    <3>2. (IssuedIsSettled /\ ReservationHasHandler)'
      BY <1>21 DEF Record
    <3>3. UploadsBelong'
      <4>1. UNCHANGED <<issued, accepted, of, file>> /\ at[u] = "landed"
        BY <1>21 DEF Record, Moves
      <4>2. QED
        BY <2>4, <4>1
    <3>4. QED
      BY <3>1, <3>2, <3>3
<1>22. ASSUME NEW u \in Upload, LoseSession(u) PROVE BaseInv'
  BY <1>22 DEF LoseSession, Moves, DropPermit
<1>23. ASSUME NEW u \in Upload, DropLanded(u) PROVE BaseInv'
  BY <1>23 DEF DropLanded, Moves, DropPermit
<1>24. ASSUME NEW u \in Upload, DropInCommit(u) PROVE BaseInv'
  BY <1>24 DEF DropInCommit, Moves, DropPermit
<1>25. ASSUME NEW u \in Upload, LandDetached(u) PROVE BaseInv'
  BY <1>25 DEF LandDetached
<1>26. CASE GrowStale
  BY <1>26 DEF GrowStale
<1>27. CASE Sweep
  BY <1>27, CancelCurrentType DEF Sweep
<1>28. CASE UNCHANGED vars
  BY <1>28 DEF vars
<1>29. QED
  BY <1>1, <1>2, <1>3, <1>4, <1>5, <1>7, <1>8, <1>9, <1>10, <1>11,
     <1>12, <1>13, <1>14, <1>15, <1>16, <1>17, <1>18, <1>19, <1>20, <1>21,
     <1>22, <1>23, <1>24, <1>25, <1>26, <1>27, <1>28
     DEF Next, PrepareUpload, Cancel, UploadFile

LEMMA Base == Spec => []BaseInv
BY InitBase, StepPreservesBase, PTL DEF Spec

(* Type correctness of the standard receive path. *)
THEOREM TypeCorrect == Spec => []TypeOK
BY Base, PTL DEF BaseInv

(* Whoever is recorded as awaiting consent has a handler, or the guard     *)
(* task of a dropped one, that will clear the record.                      *)
THEOREM ReservationsAreHandled == Spec => []ReservationHasHandler
BY Base, PTL DEF BaseInv

-----------------------------------------------------------------------------
(* What an upload handler knows of its slot, whatever the senders do.      *)

Holding == {"body", "commit", "landed"}

(* An upload that has not begun is in no session; a rename that outlived   *)
(* its handler belongs to a lost one; what has landed is past its commit.  *)
UploadsArePlaced ==
  /\ \A u \in Upload : at[u] = "idle" => of[u] = None
  /\ \A u \in detached : at[u] = "lost"
  /\ \A u \in landed : at[u] \in {"landed", "done", "orphaned", "lost"}
  /\ \A u \in Upload : at[u] = "landed" => u \in landed

(* A lease is on a slot that nothing but a cancellation has touched, a     *)
(* permit on one that nothing has.                                         *)
SlotIsHeld ==
  \A u \in Upload :
    /\ at[u] = "body" => slots[of[u]][file[u]] \in {Receiving, Cancelled}
    /\ at[u] \in {"commit", "landed"} => slots[of[u]][file[u]] = Publishing

OneHolder ==
  \A u, v \in Upload :
    /\ at[u] \in Holding
    /\ at[v] \in Holding
    /\ of[u] = of[v]
    /\ file[u] = file[v]
    => u = v

HoldInv == UploadsArePlaced /\ SlotIsHeld /\ OneHolder

LEMMA InitHold == Init => HoldInv
BY DEF Init, HoldInv, UploadsArePlaced, SlotIsHeld, OneHolder, Holding

(* What is no step of an upload touches the slots by try_cancel_receives   *)
(* on the installed session, if at all.                                    *)
LEMMA OthersOnlyCancel ==
  ASSUME \/ \E o \in Offer : PrepareUpload(o) \/ Cancel(o)
         \/ GrowStale \/ Sweep \/ UNCHANGED vars
  PROVE  /\ UNCHANGED <<uploadVars, received>>
         /\ CancelCurrent \/ UNCHANGED <<slots, closed>>
BY DEF PrepareUpload, Cancel, TurnAway, Reserve, Ask, AskNobody, Answer,
   GoUnanswered, Decides, ClearReservation, SettleDeclined, SettleAccepted,
   DeliverMessage, DropOffer, ReleaseReservation, CancelWithoutId,
   CancelById, GrowStale, Sweep, vars, sessionVars

(* That closes leases and leaves permits alone. *)
LEMMA CancelKeepsPermits ==
  ASSUME TypeOK, CancelCurrent, NEW o \in Offer, NEW f \in File
  PROVE  \/ slots'[o][f] = slots[o][f]
         \/ slots[o][f] \in {Ready, Receiving} /\ slots'[o][f] = Cancelled
<1>1. slots[o] \in [File -> Phase]
  BY DEF TypeOK
<1>2. slots'[o] \in {slots[o], CancelAll(slots[o])}
  BY DEF CancelCurrent, TryCancel
<1>3. QED
  BY <1>1, <1>2 DEF CancelAll

(* Each step of an upload moves one handler, and its slot at most. *)
LEMMA UploadMovesOne ==
  ASSUME BaseInv, HoldInv, NEW u \in Upload, UploadFile(u)
  PROVE  /\ \A v \in Upload \ {u} :
              at'[v] = at[v] /\ of'[v] = of[v] /\ file'[v] = file[v]
         /\ IF at[u] = "idle" THEN at'[u] = "body"
            ELSE of'[u] = of[u] /\ file'[u] = file[u]
         /\ of'[u] \in Offer /\ file'[u] \in File
         /\ \A o \in Offer, f \in File :
              <<o, f>> # <<of'[u], file'[u]>> => slots'[o][f] = slots[o][f]
         /\ UNCHANGED <<step, accepted, issued, closed>>
<1> USE DEF BaseInv, TypeOK, UploadsBelong
<1>1. CASE \E o \in Offer, f \in File : BeginReceive(u, o, f)
  BY <1>1 DEF BeginReceive, Moves, Claim, offerVars
<1>2. CASE ~\E o \in Offer, f \in File : BeginReceive(u, o, f)
  <2>1. UNCHANGED <<of, file, step, accepted, issued, closed>>
    BY <1>2 DEF UploadFile, FailReceive, BeginPublication, Land, FailCommit,
       Record, LoseSession, DropLanded, DropInCommit, LandDetached, offerVars,
       sessionVars
  <2>2. at[u] # "idle"
    BY <1>2 DEF UploadFile, FailReceive, BeginPublication, Land, FailCommit,
       Record, LoseSession, DropLanded, DropInCommit, LandDetached, Moves,
       HoldInv, UploadsArePlaced
  <2>3. of[u] \in Offer /\ file[u] \in File
    BY <2>2
  <2>4. \A v \in Upload \ {u} : at'[v] = at[v]
    BY <1>2 DEF UploadFile, FailReceive, BeginPublication, Land, FailCommit,
       Record, LoseSession, DropLanded, DropInCommit, LandDetached, Moves
  <2>5. \/ slots' = slots
        \/ \E p \in [File -> Phase] :
             /\ slots' = [slots EXCEPT ![of[u]] = p]
             /\ \A f \in File \ {file[u]} : p[f] = slots[of[u]][f]
    <3>1. slots[of[u]] \in [File -> Phase]
      BY <2>3
    <3>2. \A x \in Phase :
            /\ [slots[of[u]] EXCEPT ![file[u]] = x] \in [File -> Phase]
            /\ \A f \in File \ {file[u]} :
                 [slots[of[u]] EXCEPT ![file[u]] = x][f] = slots[of[u]][f]
      BY <3>1
    <3>3. \/ slots' = slots
          \/ \E x \in Phase :
               slots' = [slots EXCEPT ![of[u]] =
                           [slots[of[u]] EXCEPT ![file[u]] = x]]
      BY <1>2, <2>3, <3>1
         DEF UploadFile, FailReceive, BeginPublication, Land, FailCommit,
             Record, LoseSession, DropLanded, DropInCommit, LandDetached,
             DropLease, DropPermit, Publish, FinishPublication, sessionVars
    <3>4. ASSUME NEW x \in Phase,
                 slots' = [slots EXCEPT ![of[u]] =
                             [slots[of[u]] EXCEPT ![file[u]] = x]]
          PROVE  \E p \in [File -> Phase] :
                   /\ slots' = [slots EXCEPT ![of[u]] = p]
                   /\ \A f \in File \ {file[u]} : p[f] = slots[of[u]][f]
      <4>1. [slots[of[u]] EXCEPT ![file[u]] = x] \in [File -> Phase]
        BY <3>2
      <4>2. QED
        BY <3>2, <3>4, <4>1
    <3>5. QED
      BY <3>3, <3>4
  <2>6. \A o \in Offer, f \in File :
          <<o, f>> # <<of[u], file[u]>> => slots'[o][f] = slots[o][f]
    BY <2>3, <2>5
  <2>7. QED
    BY <2>1, <2>2, <2>3, <2>4, <2>6
<1>3. QED
  BY <1>1, <1>2

(* What an upload's own step does to its slot. *)
LEMMA UploadStepsHold ==
  ASSUME BaseInv, HoldInv, NEW u \in Upload, UploadFile(u)
  PROVE  LET s == slots[of'[u]][file'[u]]
             t == slots'[of'[u]][file'[u]]
         IN  \/ at[u] = "idle" /\ at'[u] = "body" /\ s = Ready /\ t = Receiving
             \/ /\ at[u] = "body" /\ at'[u] = "commit"
                /\ t = Publishing
             \/ at[u] = "commit" /\ at'[u] = "landed" /\ t = s
             \/ at[u] \in Holding /\ at'[u] \in {"done", "orphaned", "lost"}
             \/ at'[u] = at[u] /\ at[u] = "lost" /\ t = s
<1> USE DEF BaseInv, TypeOK, UploadsBelong, Moves, Holding
<1>1. CASE \E o \in Offer, f \in File : BeginReceive(u, o, f)
  BY <1>1 DEF BeginReceive, Claim, Claimable
<1>2. CASE BeginPublication(u)
  BY <1>2 DEF BeginPublication, Publish
<1>3. CASE Land(u)
  BY <1>3 DEF Land, sessionVars
<1>4. CASE LandDetached(u)
  BY <1>4 DEF LandDetached, sessionVars, HoldInv, UploadsArePlaced
<1>5. CASE FailReceive(u) \/ FailCommit(u) \/ Record(u) \/ LoseSession(u)
            \/ DropLanded(u) \/ DropInCommit(u)
  BY <1>5 DEF FailReceive, FailCommit, Record, LoseSession, DropLanded,
     DropInCommit
<1>6. QED
  BY <1>1, <1>2, <1>3, <1>4, <1>5 DEF UploadFile

LEMMA StepPreservesHold ==
  ASSUME BaseInv, HoldInv, [Next]_vars
  PROVE  HoldInv'
<1>1. CASE \E u \in Upload : UploadFile(u)
  <2>1. PICK u \in Upload : UploadFile(u)
    BY <1>1
  <2> DEFINE o == of'[u]
             f == file'[u]
  <2>2. /\ \A v \in Upload \ {u} :
             at'[v] = at[v] /\ of'[v] = of[v] /\ file'[v] = file[v]
        /\ IF at[u] = "idle" THEN at'[u] = "body"
           ELSE o = of[u] /\ f = file[u]
        /\ o \in Offer /\ f \in File
        /\ \A q \in Offer, g \in File :
             <<q, g>> # <<o, f>> => slots'[q][g] = slots[q][g]
    BY <2>1, UploadMovesOne
  <2>3. \/ /\ at[u] = "idle" /\ at'[u] = "body"
           /\ slots[o][f] = Ready /\ slots'[o][f] = Receiving
        \/ at[u] = "body" /\ at'[u] = "commit" /\ slots'[o][f] = Publishing
        \/ /\ at[u] = "commit" /\ at'[u] = "landed"
           /\ slots'[o][f] = slots[o][f]
        \/ at[u] \in Holding /\ at'[u] \in {"done", "orphaned", "lost"}
        \/ at'[u] = at[u] /\ at[u] = "lost" /\ slots'[o][f] = slots[o][f]
    BY <2>1, UploadStepsHold
  <2> HIDE DEF o, f
  <2>4. \A v \in Upload \ {u} :
          at[v] \in Holding =>
            \/ <<of[v], file[v]>> # <<o, f>>
            \/ at'[u] = "lost" /\ slots'[o][f] = slots[o][f]
    BY <2>2, <2>3 DEF HoldInv, SlotIsHeld, OneHolder, Holding
  <2>5. \A v \in Upload : at[v] # "idle" =>
          of[v] \in Offer /\ file[v] \in File
    BY DEF BaseInv, TypeOK, UploadsBelong
  <2>6. SlotIsHeld'
    <3> SUFFICES ASSUME NEW v \in Upload
                 PROVE  /\ at'[v] = "body" =>
                             slots'[of'[v]][file'[v]]
                               \in {Receiving, Cancelled}
                        /\ at'[v] \in {"commit", "landed"} =>
                             slots'[of'[v]][file'[v]] = Publishing
      BY DEF SlotIsHeld
    <3>1. CASE v = u
      BY <2>2, <2>3, <3>1 DEF HoldInv, SlotIsHeld, o, f
    <3>2. CASE v # u /\ at[v] \in Holding
      <4>1. slots'[of'[v]][file'[v]] = slots[of[v]][file[v]]
        BY <2>2, <2>4, <2>5, <3>2 DEF Holding
      <4>2. QED
        BY <2>2, <3>2, <4>1 DEF HoldInv, SlotIsHeld
    <3>3. CASE v # u /\ at[v] \notin Holding
      BY <2>2, <3>3 DEF Holding
    <3>4. QED
      BY <3>1, <3>2, <3>3
  <2>7. OneHolder'
    <3>1. \A v, w \in Upload \ {u} :
            /\ at'[v] \in Holding /\ at'[w] \in Holding
            /\ of'[v] = of'[w] /\ file'[v] = file'[w]
            => v = w
      BY <2>2 DEF HoldInv, OneHolder
    <3>2. \A v \in Upload \ {u} :
            at'[u] \in Holding /\ at'[v] \in Holding =>
              ~(of'[v] = of'[u] /\ file'[v] = file'[u])
      BY <2>2, <2>4 DEF Holding, o, f
    <3>3. QED
      BY <3>1, <3>2 DEF OneHolder
  <2>8. UploadsArePlaced'
    <3>1. /\ detached' \subseteq detached \cup {u}
          /\ landed' \subseteq landed \cup {u}
          /\ landed \subseteq landed'
          /\ u \in detached' => at'[u] = "lost"
          /\ u \in landed' => at'[u] \in {"landed", "done", "orphaned",
                                          "lost"}
          /\ at'[u] = "landed" => u \in landed'
      <4> USE DEF BaseInv, TypeOK, HoldInv, UploadsArePlaced, Moves
      <4>1. CASE \E q \in Offer, g \in File : BeginReceive(u, q, g)
        BY <4>1 DEF BeginReceive
      <4>2. CASE FailReceive(u) \/ BeginPublication(u) \/ Land(u)
                   \/ FailCommit(u)
        BY <4>2 DEF FailReceive, BeginPublication, Land, FailCommit
      <4>3. CASE Record(u) \/ LoseSession(u) \/ DropLanded(u)
                   \/ DropInCommit(u) \/ LandDetached(u)
        BY <4>3 DEF Record, LoseSession, DropLanded, DropInCommit,
           LandDetached
      <4>4. QED
        BY <2>1, <4>1, <4>2, <4>3 DEF UploadFile
    <3>2. at'[u] # "idle"
      BY <2>3 DEF Holding
    <3>3. landed \subseteq Upload /\ detached \subseteq Upload
      BY DEF BaseInv, TypeOK
    <3>4. (\A v \in Upload : at[v] = "idle" => of[v] = None)'
      BY <2>2, <3>2 DEF HoldInv, UploadsArePlaced
    <3>5. (\A v \in detached : at[v] = "lost")'
      BY <2>2, <3>1, <3>3 DEF HoldInv, UploadsArePlaced
    <3>6. (\A v \in landed :
             at[v] \in {"landed", "done", "orphaned", "lost"})'
      BY <2>2, <3>1, <3>3 DEF HoldInv, UploadsArePlaced
    <3>7. (\A v \in Upload : at[v] = "landed" => v \in landed)'
      BY <2>2, <3>1 DEF HoldInv, UploadsArePlaced
    <3>8. QED
      BY <3>4, <3>5, <3>6, <3>7 DEF UploadsArePlaced
  <2>9. QED
    BY <2>6, <2>7, <2>8 DEF HoldInv
<1>2. CASE ~\E u \in Upload : UploadFile(u)
  <2>1. /\ UNCHANGED uploadVars
        /\ CancelCurrent \/ UNCHANGED slots
    BY <1>2, OthersOnlyCancel DEF Next
  <2>2. UploadsArePlaced' /\ OneHolder'
    BY <2>1 DEF HoldInv, UploadsArePlaced, OneHolder, uploadVars
  <2>3. ASSUME NEW o \in Offer, NEW f \in File
        PROVE  \/ slots'[o][f] = slots[o][f]
               \/ /\ slots[o][f] \in {Ready, Receiving}
                  /\ slots'[o][f] = Cancelled
    BY <2>1, CancelKeepsPermits DEF BaseInv
  <2>4. \A u \in Upload : at[u] # "idle" =>
          of[u] \in Offer /\ file[u] \in File
    BY DEF BaseInv, TypeOK, UploadsBelong
  <2>5. SlotIsHeld'
    BY <2>1, <2>3, <2>4 DEF HoldInv, SlotIsHeld, uploadVars
  <2>6. QED
    BY <2>2, <2>5 DEF HoldInv
<1>3. QED
  BY <1>1, <1>2

LEMMA Hold == Spec => []HoldInv
<1>1. BaseInv /\ HoldInv /\ [Next]_vars => HoldInv'
  BY StepPreservesHold
<1>2. QED
  BY <1>1, InitHold, Base, PTL DEF Spec

-----------------------------------------------------------------------------
(* What SessionDone says of a session, whatever the senders do.            *)

(* A session that is done is not installed, and nobody can install it.     *)
DoneIsOver ==
  \A o \in Offer :
    finished[o] > 0 =>
      step[o] \in {"leaving", "gone"} /\ current # Real(o)

OnlyMessagesWait == \A o \in Offer : step[o] = "installed" => o \in Message

ReceivedHasLanded ==
  \A o \in Offer : \A f \in received[o] :
    \E u \in landed : of[u] = o /\ file[u] = f

DoneInv ==
  /\ DoneOnce
  /\ DoneIsOver
  /\ OnlyMessagesWait
  /\ ReceivedHasLanded
  /\ DoneMeansComplete

LEMMA InitDone == Init => DoneInv
BY DEF Init, DoneInv, DoneOnce, DoneIsOver, OnlyMessagesWait,
   ReceivedHasLanded, DoneMeansComplete

(* What has landed stays, with the session and the file it landed for.     *)
LEMMA LandedStays ==
  ASSUME BaseInv, HoldInv, [Next]_vars, NEW u \in landed
  PROVE  u \in landed' /\ of'[u] = of[u] /\ file'[u] = file[u]
<1>1. u \in Upload /\ at[u] # "idle"
  BY DEF BaseInv, TypeOK, HoldInv, UploadsArePlaced
<1>2. CASE \E v \in Upload : UploadFile(v)
  <2>1. PICK v \in Upload : UploadFile(v)
    BY <1>2
  <2>2. landed \subseteq landed'
    BY <2>1 DEF UploadFile, BeginReceive, FailReceive, BeginPublication,
       Land, FailCommit, Record, LoseSession, DropLanded, DropInCommit,
       LandDetached
  <2>3. of'[u] = of[u] /\ file'[u] = file[u]
    BY <1>1, <2>1, UploadMovesOne
  <2>4. QED
    BY <2>2, <2>3
<1>3. CASE ~\E v \in Upload : UploadFile(v)
  BY <1>3, OthersOnlyCancel DEF Next, uploadVars
<1>4. QED
  BY <1>2, <1>3

(* The handler of an offer moves on, and what it has accepted is settled   *)
(* before the session is installed.                                        *)
LEMMA HandlerMovesOn ==
  ASSUME BaseInv, [Next]_vars, NEW o \in Offer
  PROVE  /\ step[o] \in {"leaving", "gone"} =>
              /\ step'[o] \in {"leaving", "gone"}
              /\ accepted'[o] = accepted[o]
              /\ current' = Real(o) => current = Real(o)
         /\ step'[o] = "installed" => step[o] = "installed" \/ o \in Message
         /\ closed \subseteq closed'
<1> USE DEF BaseInv, TypeOK, HandlerStep, Advances
<1>1. CASE \E q \in Offer : PrepareUpload(q)
  <2>1. PICK q \in Offer : PrepareUpload(q)
    BY <1>1
  <2>2. closed \subseteq closed'
    BY <2>1, OthersOnlyCancel DEF CancelCurrent
  <2>3. CASE TurnAway(q) \/ Ask(q) \/ AskNobody(q) \/ Answer(q)
               \/ GoUnanswered(q) \/ ClearReservation(q) \/ DropOffer(q)
    BY <2>2, <2>3 DEF TurnAway, Ask, AskNobody, Answer, GoUnanswered,
       Decides, ClearReservation, DropOffer, slotVars
  <2>4. CASE Reserve(q)
    BY <2>2, <2>4, SessionIds DEF Reserve
  <2>5. CASE SettleDeclined(q) \/ DeliverMessage(q) \/ ReleaseReservation(q)
    BY <2>2, <2>5, SessionIds
       DEF SettleDeclined, DeliverMessage, ReleaseReservation
  <2>6. CASE SettleAccepted(q)
    BY <2>2, <2>6, SessionIds DEF SettleAccepted
  <2>7. QED
    BY <2>1, <2>3, <2>4, <2>5, <2>6 DEF PrepareUpload
<1>2. CASE \E u \in Upload : UploadFile(u)
  <2>1. UNCHANGED <<step, accepted, closed>>
    BY <1>2 DEF UploadFile, BeginReceive, FailReceive, BeginPublication,
       Land, FailCommit, Record, LoseSession, DropLanded, DropInCommit,
       LandDetached, offerVars, sessionVars
  <2>2. current' \in {current, None}
    BY <1>2 DEF UploadFile, BeginReceive, FailReceive, BeginPublication,
       Land, FailCommit, Record, LoseSession, DropLanded, DropInCommit,
       LandDetached, slotVars
  <2>3. QED
    BY <2>1, <2>2, SessionIds
<1>3. CASE (\E q \in Offer : Cancel(q)) \/ GrowStale \/ Sweep
             \/ UNCHANGED vars
  <2>1. UNCHANGED <<step, accepted>> /\ current' \in {current, None}
    BY <1>3 DEF Cancel, CancelWithoutId, CancelById, GrowStale, Sweep, vars,
       slotVars, offerVars
  <2>2. closed \subseteq closed'
    BY <1>3, OthersOnlyCancel DEF CancelCurrent
  <2>3. QED
    BY <2>1, <2>2, SessionIds
<1>4. QED
  BY <1>1, <1>2, <1>3 DEF Next

(* SessionDone of an offer goes out as its session leaves the slot, and    *)
(* with every accepted file unless it is a message or was cancelled.       *)
LEMMA DoneLeavesSlot ==
  ASSUME BaseInv, HoldInv, DoneInv, [Next]_vars, NEW o \in Offer,
         finished'[o] # finished[o]
  PROVE  /\ finished[o] = 0 /\ finished'[o] = 1
         /\ step'[o] \in {"leaving", "gone"}
         /\ current' = None
         /\ o \in Message \cup closed' \/ received'[o] = accepted'[o]
<1> USE SessionIds DEF BaseInv, TypeOK, DoneInv
<1>1. CASE \E q \in Offer : DeliverMessage(q)
  <2>1. PICK q \in Offer : DeliverMessage(q)
    BY <1>1
  <2>2. q = o
    BY <2>1 DEF DeliverMessage
  <2>3. finished[o] = 0
    <3>1. step[o] = "installed"
      BY <2>1, <2>2 DEF DeliverMessage, Advances
    <3>2. ~(finished[o] > 0)
      BY <3>1 DEF DoneIsOver
    <3>3. finished[o] \in Nat
      OBVIOUS
    <3>4. QED
      BY <3>2, <3>3
  <2>4. QED
    BY <2>1, <2>2, <2>3 DEF DeliverMessage, Advances, OnlyMessagesWait
<1>2. CASE \E q \in Offer, p \in Peer : CancelById(p, q)
  <2>1. PICK q \in Offer, p \in Peer : CancelById(p, q)
    BY <1>2
  <2>2. q = o
    BY <2>1 DEF CancelById
  <2>3. finished[o] = 0
    BY <2>1, <2>2 DEF CancelById, DoneIsOver
  <2>4. o \in closed'
    BY <2>1, <2>2 DEF CancelById, CancelCurrent, CurrentCancellable
  <2>5. QED
    BY <2>1, <2>2, <2>3, <2>4
       DEF CancelById, offerVars, IssuedIsSettled
<1>3. CASE \E u \in Upload : Record(u)
  <2>1. PICK u \in Upload : Record(u)
    BY <1>3
  <2>2. at[u] # "idle" /\ of[u] \in issued /\ of[u] \in Offer
    BY <2>1 DEF Record, Moves, UploadsBelong
  <2>3. of[u] = o
    BY <2>1, <2>2 DEF Record
  <2>4. finished[o] = 0
    BY <2>1, <2>3 DEF Record, DoneIsOver
  <2>5. received[o] \cup {file[u]} = accepted[o]
    BY <2>1, <2>3 DEF Record
  <2>6. QED
    BY <2>1, <2>2, <2>3, <2>4, <2>5 DEF Record, offerVars, IssuedIsSettled
<1>4. QED
  BY <1>1, <1>2, <1>3 DEF Next, PrepareUpload, Cancel, UploadFile, TurnAway,
     Reserve, Ask, AskNobody, Answer, GoUnanswered, Decides,
     ClearReservation, SettleDeclined, SettleAccepted, DropOffer,
     ReleaseReservation, CancelWithoutId, BeginReceive, FailReceive,
     BeginPublication, Land, FailCommit, LoseSession, DropLanded,
     DropInCommit, LandDetached, GrowStale, Sweep, vars, sessionVars

(* Only a file that has landed is recorded.                                *)
LEMMA RecordedHasLanded ==
  ASSUME BaseInv, HoldInv, [Next]_vars, NEW o \in Offer
  PROVE  /\ received[o] \subseteq received'[o]
         /\ \A f \in received'[o] \ received[o] :
              \E u \in landed : of[u] = o /\ file[u] = f
<1> USE DEF BaseInv, TypeOK
<1>1. CASE \E u \in Upload : Record(u)
  <2>1. PICK u \in Upload : Record(u)
    BY <1>1
  <2>2. u \in landed
    BY <2>1 DEF Record, Moves, HoldInv, UploadsArePlaced
  <2>3. QED
    BY <2>1, <2>2 DEF Record
<1>2. CASE received' = received
  BY <1>2
<1>3. QED
  BY <1>1, <1>2, OthersOnlyCancel DEF Next, UploadFile, BeginReceive,
     FailReceive, BeginPublication, Land, FailCommit, LoseSession,
     DropLanded, DropInCommit, LandDetached, sessionVars

LEMMA StepPreservesDone ==
  ASSUME BaseInv, HoldInv, DoneInv, [Next]_vars
  PROVE  DoneInv'
<1> USE DEF DoneInv
<1>1. DoneOnce' /\ DoneIsOver'
  <2> SUFFICES ASSUME NEW o \in Offer
               PROVE  /\ finished'[o] <= 1
                      /\ finished'[o] > 0 =>
                           step'[o] \in {"leaving", "gone"}
                             /\ current' # Real(o)
    BY DEF DoneOnce, DoneIsOver
  <2>1. CASE finished'[o] = finished[o]
    BY <2>1, HandlerMovesOn DEF DoneOnce, DoneIsOver
  <2>2. CASE finished'[o] # finished[o]
    BY <2>2, DoneLeavesSlot, SessionIds
  <2>3. QED
    BY <2>1, <2>2
<1>2. OnlyMessagesWait'
  BY HandlerMovesOn DEF OnlyMessagesWait
<1>3. ReceivedHasLanded'
  <2> SUFFICES ASSUME NEW o \in Offer, NEW f \in received'[o]
               PROVE  \E u \in landed' : of'[u] = o /\ file'[u] = f
    BY DEF ReceivedHasLanded
  <2>1. PICK u \in landed : of[u] = o /\ file[u] = f
    BY RecordedHasLanded DEF ReceivedHasLanded
  <2>2. QED
    BY <2>1, LandedStays
<1>4. DoneMeansComplete'
  <2> SUFFICES ASSUME NEW o \in Offer \ (Message \cup closed'),
                      finished'[o] > 0, NEW f \in accepted'[o]
               PROVE  f \in received'[o]
    BY <1>3 DEF DoneMeansComplete, ReceivedHasLanded
  <2>1. CASE finished'[o] = finished[o]
    <3>1. step[o] \in {"leaving", "gone"}
      BY <2>1 DEF DoneIsOver
    <3>2. accepted'[o] = accepted[o] /\ o \notin closed
      BY <3>1, HandlerMovesOn
    <3>3. f \in received[o]
      BY <2>1, <3>2 DEF DoneMeansComplete
    <3>4. QED
      BY <3>3, RecordedHasLanded
  <2>2. CASE finished'[o] # finished[o]
    BY <2>2, DoneLeavesSlot
  <2>3. QED
    BY <2>1, <2>2
<1>5. QED
  BY <1>1, <1>2, <1>3, <1>4

LEMMA Done == Spec => []DoneInv
<1>1. BaseInv /\ HoldInv /\ DoneInv /\ [Next]_vars => DoneInv'
  BY StepPreservesDone
<1>2. QED
  BY <1>1, InitDone, Base, Hold, PTL DEF Spec

(* SessionDone is sent at most once for a session, although completion,    *)
(* cancellation and the message path each send it on their own.            *)
THEOREM DoneAtMostOnce == Spec => []DoneOnce
BY Done, PTL DEF DoneInv

(* SessionDone for a session that nobody cancelled and that is no message  *)
(* means every accepted file was recorded and is on disk.                  *)
THEOREM DoneIsComplete == Spec => []DoneMeansComplete
BY Done, PTL DEF DoneInv

-----------------------------------------------------------------------------
(* No withdrawal without a session id, no handler overtaken by             *)
(* session_timeout.                                                        *)

(* The steps at which a prepare-upload handler still works on the slot. *)
Busy == Live \cup {"installed"}

(* A stale session is one whose handler has nothing left to do with it. *)
StaleIsSettled ==
  stale => \A o \in Offer :
             current \in {Placeholder(o), Real(o)} => step[o] \notin Busy

(* A file in flight belongs to the installed session, which accepted it    *)
(* and has not recorded it.                                                *)
FlightsAreCurrent ==
  \A o \in Offer, f \in File :
    slots[o][f] \in {Receiving, Publishing} =>
      /\ current = Real(o)
      /\ o \in issued
      /\ f \in accepted[o] \ received[o]

ReceivedIsPublished ==
  \A o \in Offer : \A f \in received[o] : slots[o][f] = Published

CalmInv ==
  /\ BaseInv
  /\ HandlerOwnsSlot
  /\ StaleIsSettled
  /\ FlightsAreCurrent
  /\ ReceivedIsPublished
  /\ OwnerOnRecord

LEMMA InitCalm == Init => CalmInv
<1> SUFFICES ASSUME Init PROVE CalmInv
  OBVIOUS
<1>1. BaseInv
  BY InitBase
<1>2. HandlerOwnsSlot /\ StaleIsSettled
  BY DEF Init, HandlerOwnsSlot, StaleIsSettled, Live
<1>3. FlightsAreCurrent /\ ReceivedIsPublished
  BY DEF Init, FlightsAreCurrent, ReceivedIsPublished
<1>4. OwnerOnRecord
  BY SessionIds DEF Init, OwnerOnRecord
<1>5. QED
  BY <1>1, <1>2, <1>3, <1>4 DEF CalmInv

(* Cancelling the installed session, when no slot of it is Publishing,     *)
(* leaves nothing in flight anywhere.                                      *)
LEMMA CancelCurrentGrounds ==
  ASSUME TypeOK, FlightsAreCurrent, CurrentCancellable, CancelCurrent
  PROVE  \A o \in Offer, f \in File :
           /\ slots'[o][f] \notin {Receiving, Publishing}
           /\ slots[o][f] = Published => slots'[o][f] = Published
<1> SUFFICES ASSUME NEW o \in Offer, NEW f \in File
             PROVE  /\ slots'[o][f] \notin {Receiving, Publishing}
                    /\ slots[o][f] = Published => slots'[o][f] = Published
  OBVIOUS
<1>1. slots[o] \in [File -> Phase]
  BY DEF TypeOK
<1>2. CASE current = Real(o)
  <2>1. slots'[o] = CancelAll(slots[o])
    BY <1>2 DEF CancelCurrent, CurrentCancellable, TryCancel
  <2>2. slots[o][f] # Publishing
    BY <1>1, <1>2 DEF CurrentCancellable, Cancellable
  <2>3. QED
    BY <1>1, <2>1, <2>2 DEF CancelAll
<1>3. CASE current # Real(o)
  <2>1. slots'[o] = slots[o]
    BY <1>3 DEF CancelCurrent
  <2>2. QED
    BY <1>3, <2>1 DEF FlightsAreCurrent
<1>4. QED
  BY <1>2, <1>3

(* A placeholder can always be cancelled. *)
LEMMA PlaceholderCancellable ==
  ASSUME NEW o \in Offer, current = Placeholder(o)
  PROVE  CurrentCancellable
BY SessionIds DEF CurrentCancellable

(* At most one handler works on the slot. *)
LEMMA OneHandler ==
  ASSUME HandlerOwnsSlot, NEW o \in Offer, NEW q \in Offer,
         current \in {Placeholder(o), Real(o)} \/ step[o] \in Busy,
         step[q] \in Busy
  PROVE  q = o
<1>1. current \in {Placeholder(o), Real(o)}
  BY DEF HandlerOwnsSlot, Busy
<1>2. current \in {Placeholder(q), Real(q)}
  BY DEF HandlerOwnsSlot, Busy
<1>3. QED
  BY <1>1, <1>2, SessionIds

(* ... and none when the slot is empty. *)
LEMMA NoHandler ==
  ASSUME HandlerOwnsSlot, current = None, NEW q \in Offer
  PROVE  step[q] \notin Busy
BY SessionIds DEF HandlerOwnsSlot, Busy

(* The part of CalmInv that the steps of this section preserve, primed. *)
CalmStep ==
  /\ HandlerOwnsSlot'
  /\ StaleIsSettled'
  /\ FlightsAreCurrent'
  /\ ReceivedIsPublished'
  /\ OwnerOnRecord'

(* A step of an offer's handler that leaves the installed session alone:   *)
(* it does not put the handler to work on a slot it was not working on,    *)
(* and changes its decision only while it is at work.                      *)
Quiet(o) ==
  /\ UNCHANGED <<current, from, stale, issued, sessionVars>>
  /\ \E target \in HandlerStep :
       /\ step' = [step EXCEPT ![o] = target]
       /\ \/ target \in {"leaving", "gone"}
          \/ step[o] \in Live /\ target \in Live
  /\ \A q \in Offer : accepted'[q] # accepted[q] => step[q] \in Live

LEMMA HandlerStepsAreQuiet ==
  ASSUME TypeOK, NEW o \in Offer,
         \/ TurnAway(o) \/ Ask(o) \/ AskNobody(o) \/ Answer(o)
         \/ GoUnanswered(o) \/ ClearReservation(o) \/ DropOffer(o)
  PROVE  Quiet(o)
<1> USE DEF Quiet, HandlerStep, Live, slotVars, sessionVars
<1>1. ASSUME NEW files, NEW source \in {"reserved", "asked"},
             Decides(o, source, files)
      PROVE  Quiet(o)
  <2>1. step[o] = source /\ step' = [step EXCEPT ![o] = "decided"]
    BY <1>1 DEF Decides, Advances
  <2>2. accepted' = [accepted EXCEPT ![o] = files]
    BY <1>1 DEF Decides
  <2>3. \A q \in Offer : accepted'[q] # accepted[q] => step[q] \in Live
    BY <2>1, <2>2 DEF TypeOK
  <2>4. UNCHANGED <<current, from, stale, issued, sessionVars>>
    BY <1>1 DEF Decides
  <2>5. QED
    BY <2>1, <2>3, <2>4
<1>2. CASE TurnAway(o)
  BY <1>2 DEF TurnAway, Advances
<1>3. CASE Ask(o)
  BY <1>3 DEF Ask, Advances
<1>4. CASE AskNobody(o)
  BY <1>1, <1>4 DEF AskNobody
<1>5. CASE Answer(o)
  BY <1>1, <1>5 DEF Answer
<1>7. CASE GoUnanswered(o)
  BY <1>1, <1>7 DEF GoUnanswered
<1>8. CASE ClearReservation(o)
  BY <1>8 DEF ClearReservation, Advances
<1>9. CASE DropOffer(o)
  BY <1>9 DEF DropOffer
<1>10. QED
  BY <1>2, <1>3, <1>4, <1>5, <1>7, <1>8, <1>9

LEMMA QuietKeepsCalm ==
  ASSUME CalmInv, NEW o \in Offer, Quiet(o)
  PROVE  CalmStep
<1>1. UNCHANGED <<current, from, stale, issued, slots, received>>
  BY DEF Quiet, sessionVars
<1>2. PICK target \in HandlerStep :
        /\ step' = [step EXCEPT ![o] = target]
        /\ \/ target \in {"leaving", "gone"}
           \/ step[o] \in Live /\ target \in Live
  BY DEF Quiet
<1>3. step \in [Offer -> HandlerStep]
  BY DEF CalmInv, BaseInv, TypeOK
<1>4. \A q \in Offer : q # o => step'[q] = step[q]
  BY <1>2, <1>3
<1>5. step'[o] = target
  BY <1>2, <1>3
<1>6. HandlerOwnsSlot'
  <2> SUFFICES ASSUME NEW q \in Offer
               PROVE  /\ step'[q] \in Live => current' = Placeholder(q)
                      /\ step'[q] = "installed" => current' = Real(q)
    BY DEF HandlerOwnsSlot
  <2>1. /\ step[q] \in Live => current = Placeholder(q)
        /\ step[q] = "installed" => current = Real(q)
    BY DEF CalmInv, HandlerOwnsSlot
  <2>2. CASE q = o
    BY <1>1, <1>2, <1>5, <2>1, <2>2 DEF Live
  <2>3. CASE q # o
    BY <1>1, <1>4, <2>1, <2>3
  <2>4. QED
    BY <2>2, <2>3
<1>7. StaleIsSettled'
  <2> SUFFICES ASSUME stale', NEW q \in Offer,
                      current' \in {Placeholder(q), Real(q)}
               PROVE  step'[q] \notin Busy
    BY DEF StaleIsSettled
  <2>1. step[q] \notin Busy
    BY <1>1 DEF CalmInv, StaleIsSettled
  <2>2. CASE q = o
    BY <1>2, <1>5, <2>1, <2>2 DEF Live, Busy
  <2>3. CASE q # o
    BY <1>4, <2>1, <2>3
  <2>4. QED
    BY <2>2, <2>3
<1>8. FlightsAreCurrent'
  <2>1. \A q \in issued : accepted'[q] = accepted[q]
    BY DEF CalmInv, BaseInv, TypeOK, IssuedIsSettled, Quiet, Live
  <2>2. QED
    BY <1>1, <2>1 DEF CalmInv, FlightsAreCurrent
<1>9. ReceivedIsPublished' /\ OwnerOnRecord'
  BY <1>1 DEF CalmInv, ReceivedIsPublished, OwnerOnRecord
<1>10. QED
  BY <1>6, <1>7, <1>8, <1>9 DEF CalmStep

(* The slots after the installed session has been cancelled. *)
LEMMA CancellingKeepsSlots ==
  ASSUME CalmInv, CurrentCancellable, CancelCurrent, received' = received
  PROVE  FlightsAreCurrent' /\ ReceivedIsPublished'
<1>1. \A o \in Offer, f \in File :
        /\ slots'[o][f] \notin {Receiving, Publishing}
        /\ slots[o][f] = Published => slots'[o][f] = Published
  BY CancelCurrentGrounds DEF CalmInv, BaseInv
<1>2. FlightsAreCurrent'
  BY <1>1 DEF FlightsAreCurrent
<1>3. ReceivedIsPublished'
  BY <1>1 DEF CalmInv, BaseInv, TypeOK, ReceivedIsPublished
<1>4. QED
  BY <1>2, <1>3

(* An empty slot, with no handler at work. *)
LEMMA EmptySlotIsCalm ==
  ASSUME current' = None, \A q \in Offer : step'[q] \notin Busy
  PROVE  HandlerOwnsSlot' /\ StaleIsSettled' /\ OwnerOnRecord'
BY SessionIds
   DEF Busy, HandlerOwnsSlot, StaleIsSettled, OwnerOnRecord

LEMMA ReserveKeepsCalm ==
  ASSUME CalmInv, NEW o \in Offer, Reserve(o)
  PROVE  CalmStep
<1>1. CurrentCancellable
  BY SessionIds DEF Reserve, CurrentCancellable
<1>2. FlightsAreCurrent' /\ ReceivedIsPublished'
  BY <1>1, CancellingKeepsSlots DEF Reserve
<1>3. /\ current' = Placeholder(o)
      /\ from' = Sender[o]
      /\ stale' = FALSE
  BY DEF Reserve
<1>4. \A q \in Offer : step[q] \notin Busy
  <2> TAKE q \in Offer
  <2>1. CASE current = None
    BY <2>1, NoHandler DEF CalmInv
  <2>2. CASE stale
    BY <2>2 DEF CalmInv, StaleIsSettled, HandlerOwnsSlot, Busy, Live
  <2>3. QED
    BY <2>1, <2>2 DEF Reserve
<1>5. \E target \in {"reserved", "decided"} :
        step' = [step EXCEPT ![o] = target]
  BY DEF Reserve, Advances
<1>6. step'[o] \in Live /\ \A q \in Offer : q # o => step'[q] = step[q]
  BY <1>5 DEF Live, CalmInv, BaseInv, TypeOK
<1>7. HandlerOwnsSlot'
  BY <1>3, <1>4, <1>6 DEF HandlerOwnsSlot, Busy, Live
<1>8. StaleIsSettled'
  BY <1>3 DEF StaleIsSettled
<1>9. OwnerOnRecord'
  BY <1>3, SessionIds DEF OwnerOnRecord
<1>10. QED
  BY <1>2, <1>7, <1>8, <1>9 DEF CalmStep

(* Settling: the installed session is the handler's own placeholder. *)
LEMMA SettleKeepsCalm ==
  ASSUME CalmInv, NEW o \in Offer, SettleDeclined(o) \/ SettleAccepted(o)
  PROVE  CalmStep
<1>1. /\ step[o] = "cleared"
      /\ \E target \in {"leaving", "installed"} :
           step' = [step EXCEPT ![o] = target]
      /\ CancelCurrent
      /\ received' = received
      /\ from' = from
      /\ stale' = FALSE
  BY DEF SettleDeclined, SettleAccepted, Advances
<1>2. current = Placeholder(o)
  BY <1>1 DEF CalmInv, HandlerOwnsSlot, Live
<1>3. FlightsAreCurrent' /\ ReceivedIsPublished'
  BY <1>1, <1>2, PlaceholderCancellable, CancellingKeepsSlots
<1>4. \A q \in Offer : q # o => step[q] \notin Busy
  BY <1>2, OneHandler DEF CalmInv
<1>5. \A q \in Offer : q # o => step'[q] \notin Busy
  BY <1>1, <1>4
<1>6. StaleIsSettled'
  BY <1>1 DEF StaleIsSettled
<1>7. CASE SettleDeclined(o)
  <2>1. current' = None
    BY <1>7 DEF SettleDeclined
  <2>2. step'[o] = "leaving"
    BY <1>7 DEF SettleDeclined, Advances, CalmInv, BaseInv, TypeOK
  <2>3. HandlerOwnsSlot' /\ OwnerOnRecord'
    BY <1>5, <2>1, <2>2, EmptySlotIsCalm DEF Busy, Live
  <2>4. QED
    BY <1>3, <1>6, <2>3 DEF CalmStep
<1>8. CASE SettleAccepted(o)
  <2>1. current' = Real(o)
    BY <1>8 DEF SettleAccepted
  <2>2. step'[o] \in {"leaving", "installed"}
    BY <1>1 DEF CalmInv, BaseInv, TypeOK
  <2>3. HandlerOwnsSlot'
    BY <1>5, <2>1, <2>2 DEF HandlerOwnsSlot, Busy, Live
  <2>4. from = Sender[o]
    BY <1>2 DEF CalmInv, OwnerOnRecord
  <2>5. OwnerOnRecord'
    BY <1>1, <2>1, <2>4, SessionIds DEF OwnerOnRecord
  <2>6. QED
    BY <1>3, <1>6, <2>3, <2>5 DEF CalmStep
<1>9. QED
  BY <1>7, <1>8

(* Handing a message over: nothing is ever in flight in its session, whose *)
(* tokens nobody has.                                                      *)
LEMMA DeliverKeepsCalm ==
  ASSUME CalmInv, NEW o \in Offer, DeliverMessage(o)
  PROVE  CalmStep
<1>1. /\ step[o] = "installed"
      /\ step' = [step EXCEPT ![o] = "leaving"]
      /\ current' = None
      /\ UNCHANGED <<slots, received>>
  BY DEF DeliverMessage, Advances
<1>2. current = Real(o)
  BY <1>1 DEF CalmInv, HandlerOwnsSlot
<1>3. o \notin issued
  BY <1>1 DEF CalmInv, BaseInv, IssuedIsSettled
<1>4. \A q \in Offer, f \in File :
        slots[q][f] \notin {Receiving, Publishing}
  BY <1>2, <1>3, SessionIds DEF CalmInv, FlightsAreCurrent
<1>5. FlightsAreCurrent' /\ ReceivedIsPublished'
  BY <1>1, <1>4 DEF CalmInv, FlightsAreCurrent, ReceivedIsPublished
<1>6. \A q \in Offer : q # o => step[q] \notin Busy
  BY <1>2, OneHandler DEF CalmInv
<1>7. \A q \in Offer : step'[q] \notin Busy
  BY <1>1, <1>6 DEF CalmInv, BaseInv, TypeOK, Busy, Live
<1>8. QED
  BY <1>1, <1>5, <1>7, EmptySlotIsCalm DEF CalmStep

LEMMA ReleaseKeepsCalm ==
  ASSUME CalmInv, NEW o \in Offer, ReleaseReservation(o)
  PROVE  CalmStep
<1>1. /\ step[o] = "leaving"
      /\ step' = [step EXCEPT ![o] = "gone"]
      /\ UNCHANGED <<accepted, issued, slots, received>>
  BY DEF ReleaseReservation, Advances, offerVars, sessionVars
<1>2. CASE awaiting = o /\ current = Placeholder(o)
  <2>1. current' = None
    BY <1>2 DEF ReleaseReservation
  <2>2. \A q \in Offer : q # o => step[q] \notin Busy
    BY <1>2, OneHandler DEF CalmInv
  <2>3. \A q \in Offer : step'[q] \notin Busy
    BY <1>1, <2>2 DEF CalmInv, BaseInv, TypeOK, Busy, Live
  <2>4. \A q \in Offer, f \in File :
          slots[q][f] \notin {Receiving, Publishing}
    BY <1>2, SessionIds DEF CalmInv, FlightsAreCurrent
  <2>5. FlightsAreCurrent' /\ ReceivedIsPublished'
    BY <1>1, <2>4 DEF CalmInv, FlightsAreCurrent, ReceivedIsPublished
  <2>6. QED
    BY <2>1, <2>3, <2>5, EmptySlotIsCalm DEF CalmStep
<1>3. CASE ~(awaiting = o /\ current = Placeholder(o))
  <2>1. UNCHANGED <<current, from, stale, issued, sessionVars>>
    BY <1>3 DEF ReleaseReservation
  <2>2. Quiet(o)
    BY <1>1, <2>1 DEF Quiet, HandlerStep
  <2>3. QED
    BY <2>2, QuietKeepsCalm
<1>4. QED
  BY <1>2, <1>3

(* /cancel with an id, and the sweep: the slot is emptied after its        *)
(* session was cancelled, and no handler was working on it.                *)
LEMMA ReclaimKeepsCalm ==
  ASSUME CalmInv, CurrentCancellable, CancelCurrent, current' = None,
         UNCHANGED <<received, step>>,
         stale \/ \E o \in issued : current = Real(o)
  PROVE  CalmStep
<1>1. \A q \in Offer : step[q] \notin Busy
  <2> TAKE q \in Offer
  <2>1. CASE stale
    BY <2>1 DEF CalmInv, StaleIsSettled, HandlerOwnsSlot, Busy, Live
  <2>2. CASE \E o \in issued : current = Real(o)
    <3>1. PICK o \in issued : current = Real(o)
      BY <2>2
    <3>2. o \in Offer /\ step[o] \notin Busy
      BY DEF CalmInv, BaseInv, TypeOK, IssuedIsSettled, Busy, Live
    <3>3. QED
      BY <3>1, <3>2, OneHandler DEF CalmInv
  <2>3. QED
    BY <2>1, <2>2
<1>2. QED
  BY <1>1, CancellingKeepsSlots, EmptySlotIsCalm DEF CalmStep

(* The steps of an upload leave the slot alone until Record. *)
LEMMA UploadTypes ==
  ASSUME CalmInv, NEW u \in Upload, at[u] # "idle"
  PROVE  of[u] \in issued /\ of[u] \in Offer /\ file[u] \in File
BY DEF CalmInv, BaseInv, TypeOK, UploadsBelong

LEMMA SlotUntouched ==
  ASSUME CalmInv, UNCHANGED <<slotVars, offerVars>>
  PROVE  HandlerOwnsSlot' /\ StaleIsSettled' /\ OwnerOnRecord'
BY DEF CalmInv, HandlerOwnsSlot, StaleIsSettled, OwnerOnRecord, slotVars,
       offerVars

LEMMA BeginReceiveKeepsCalm ==
  ASSUME CalmInv, NEW u \in Upload, NEW o \in Offer, NEW f \in File,
         BeginReceive(u, o, f)
  PROVE  CalmStep
<1>1. HandlerOwnsSlot' /\ StaleIsSettled' /\ OwnerOnRecord'
  BY SlotUntouched DEF BeginReceive
<1>2. /\ slots[o][f] = Ready
      /\ slots' = [slots EXCEPT ![o] = [@ EXCEPT ![f] = Receiving]]
      /\ UNCHANGED <<current, accepted, issued, received>>
      /\ current = Real(o) /\ o \in issued /\ f \in accepted[o]
  BY DEF BeginReceive, Claimable, Claim, slotVars, offerVars
<1>3. f \notin received[o]
  BY <1>2 DEF CalmInv, ReceivedIsPublished
<1>4. \A q \in Offer, g \in File :
        <<q, g>> # <<o, f>> => slots'[q][g] = slots[q][g]
  BY <1>2 DEF CalmInv, BaseInv, TypeOK
<1>5. FlightsAreCurrent'
  BY <1>2, <1>3, <1>4 DEF CalmInv, FlightsAreCurrent
<1>6. ReceivedIsPublished'
  BY <1>2, <1>3, <1>4 DEF CalmInv, BaseInv, TypeOK, ReceivedIsPublished
<1>7. QED
  BY <1>1, <1>5, <1>6 DEF CalmStep

(* A slot that is released, or moves from Receiving to Publishing. *)
LEMMA UploadStepKeepsCalm ==
  ASSUME CalmInv, NEW u \in Upload,
         \/ FailReceive(u) \/ BeginPublication(u) \/ FailCommit(u)
         \/ LoseSession(u) \/ DropLanded(u) \/ DropInCommit(u)
  PROVE  CalmStep
<1> DEFINE o == of[u]
           f == file[u]
<1>1. at[u] # "idle"
  BY DEF FailReceive, BeginPublication, FailCommit, LoseSession, DropLanded,
         DropInCommit, Moves
<1>2. o \in Offer /\ f \in File
  BY <1>1, UploadTypes
<1>3. UNCHANGED <<slotVars, offerVars, received>>
  BY DEF FailReceive, BeginPublication, FailCommit, LoseSession, DropLanded,
         DropInCommit
<1>4. HandlerOwnsSlot' /\ StaleIsSettled' /\ OwnerOnRecord'
  BY <1>3, SlotUntouched
<1>5. \/ slots' = [slots EXCEPT ![o] = DropLease(@, f)]
      \/ slots' = [slots EXCEPT ![o] = DropPermit(@, f)]
      \/ /\ slots[o][f] = Receiving
         /\ slots' = [slots EXCEPT ![o] = Publish(@, f)]
  BY DEF FailReceive, BeginPublication, FailCommit, LoseSession, DropLanded,
         DropInCommit, Publishable
<1>6. slots \in [Offer -> [File -> Phase]]
  BY DEF CalmInv, BaseInv, TypeOK
<1>7. \A q \in Offer, g \in File :
        \/ slots'[q][g] = slots[q][g]
        \/ /\ slots[q][g] \in {Receiving, Publishing}
           /\ slots'[q][g] \in {Ready, Publishing}
  BY <1>2, <1>5, <1>6 DEF DropLease, DropPermit, Publish
<1>8. FlightsAreCurrent'
  BY <1>3, <1>7 DEF CalmInv, FlightsAreCurrent, slotVars, offerVars
<1>9. ReceivedIsPublished'
  BY <1>3, <1>7 DEF CalmInv, BaseInv, TypeOK, ReceivedIsPublished
<1>10. QED
  BY <1>4, <1>8, <1>9 DEF CalmStep

LEMMA RecordKeepsCalm ==
  ASSUME CalmInv, NEW u \in Upload, Record(u)
  PROVE  CalmStep
<1> DEFINE o == of[u]
           f == file[u]
           all == received[o] \cup {f} = accepted[o]
<1>1. o \in issued /\ o \in Offer /\ f \in File
  BY UploadTypes DEF Record, Moves
<1>2. /\ current = Real(o)
      /\ received' = [received EXCEPT ![o] = @ \cup {f}]
      /\ slots' = [slots EXCEPT ![o] = [@ EXCEPT ![f] = Published]]
      /\ current' = IF all THEN None ELSE current
      /\ stale' = FALSE
      /\ UNCHANGED <<from, step, accepted, issued>>
  BY DEF Record, FinishPublication, offerVars
<1>3. \A q \in Offer : step[q] \notin Busy
  <2>1. step[o] \notin Busy
    BY <1>1 DEF CalmInv, BaseInv, IssuedIsSettled, Busy, Live
  <2>2. QED
    BY <1>1, <1>2, <2>1, OneHandler DEF CalmInv
<1>4. HandlerOwnsSlot' /\ StaleIsSettled'
  BY <1>2, <1>3 DEF HandlerOwnsSlot, StaleIsSettled, Busy, Live
<1>5. OwnerOnRecord'
  BY <1>2, SessionIds DEF CalmInv, OwnerOnRecord
<1>6. /\ slots'[o][f] = Published
      /\ \A q \in Offer, g \in File :
           <<q, g>> # <<o, f>> => slots'[q][g] = slots[q][g]
  BY <1>1, <1>2 DEF CalmInv, BaseInv, TypeOK
<1>7. /\ received'[o] = received[o] \cup {f}
      /\ \A q \in Offer : q # o => received'[q] = received[q]
  BY <1>1, <1>2 DEF CalmInv, BaseInv, TypeOK
<1>8. FlightsAreCurrent'
  <2> SUFFICES ASSUME NEW q \in Offer, NEW g \in File,
                      slots'[q][g] \in {Receiving, Publishing}
               PROVE  /\ current' = Real(q)
                      /\ q \in issued'
                      /\ g \in accepted'[q] \ received'[q]
    BY DEF FlightsAreCurrent
  <2>1. <<q, g>> # <<o, f>> /\ slots[q][g] \in {Receiving, Publishing}
    BY <1>6
  <2>2. /\ current = Real(q)
        /\ q \in issued
        /\ g \in accepted[q] \ received[q]
    BY <2>1 DEF CalmInv, FlightsAreCurrent
  <2>3. q = o /\ g # f
    BY <1>1, <1>2, <2>1, <2>2, SessionIds
  <2>4. ~all
    BY <2>2, <2>3
  <2>5. QED
    BY <1>2, <1>7, <2>2, <2>3, <2>4
<1>9. ReceivedIsPublished'
  <2> SUFFICES ASSUME NEW q \in Offer, NEW g \in received'[q]
               PROVE  slots'[q][g] = Published
    BY DEF ReceivedIsPublished
  <2>1. CASE q = o /\ g = f
    BY <1>6, <2>1
  <2>2. CASE ~(q = o /\ g = f)
    <3>1. g \in received[q]
      BY <1>7, <2>2
    <3>2. g \in File
      BY <3>1 DEF CalmInv, BaseInv, TypeOK
    <3>3. QED
      BY <1>6, <2>2, <3>1, <3>2 DEF CalmInv, ReceivedIsPublished
  <2>3. QED
    BY <2>1, <2>2
<1>10. QED
  BY <1>4, <1>5, <1>8, <1>9 DEF CalmStep

LEMMA StepPreservesCalm ==
  ASSUME CalmInv, [Next]_vars, Undisturbed'
  PROVE  CalmInv'
<1>1. BaseInv'
  BY StepPreservesBase DEF CalmInv
<1>2. ASSUME NEW o \in Offer, PrepareUpload(o) PROVE CalmStep
  BY <1>2, HandlerStepsAreQuiet, QuietKeepsCalm, ReserveKeepsCalm,
     SettleKeepsCalm, DeliverKeepsCalm, ReleaseKeepsCalm
     DEF PrepareUpload, CalmInv, BaseInv
<1>3. ASSUME NEW o \in Offer, Cancel(o) PROVE CalmStep
  <2>1. ~CancelWithoutId(o)
    BY DEF CancelWithoutId, Undisturbed
  <2>2. PICK p \in Peer : CancelById(p, o)
    BY <1>3, <2>1 DEF Cancel
  <2>3. QED
    BY <2>2, ReclaimKeepsCalm DEF CancelById, offerVars
<1>4. ASSUME NEW u \in Upload, UploadFile(u) PROVE CalmStep
  <2>1. CASE \E o \in Offer, f \in File : BeginReceive(u, o, f)
    BY <2>1, BeginReceiveKeepsCalm
  <2>2. CASE \/ FailReceive(u) \/ BeginPublication(u) \/ FailCommit(u)
             \/ LoseSession(u) \/ DropLanded(u) \/ DropInCommit(u)
    BY <2>2, UploadStepKeepsCalm
  <2>3. CASE Record(u)
    BY <2>3, RecordKeepsCalm
  <2>4. CASE Land(u) \/ LandDetached(u)
    BY <2>4 DEF Land, LandDetached, CalmInv, CalmStep, HandlerOwnsSlot,
       StaleIsSettled, FlightsAreCurrent, ReceivedIsPublished,
       OwnerOnRecord, slotVars, offerVars, sessionVars
  <2>5. QED
    BY <1>4, <2>1, <2>2, <2>3, <2>4 DEF UploadFile
<1>5. ASSUME GrowStale PROVE CalmStep
  <2>1. UNCHANGED <<current, from, step, accepted, issued, slots, received>>
    BY <1>5 DEF GrowStale, sessionVars
  <2>2. (HandlerOwnsSlot /\ FlightsAreCurrent /\ ReceivedIsPublished
          /\ OwnerOnRecord)'
    BY <2>1 DEF CalmInv, HandlerOwnsSlot, FlightsAreCurrent,
       ReceivedIsPublished, OwnerOnRecord
  <2>3. ASSUME NEW o \in Offer, current \in {Placeholder(o), Real(o)}
        PROVE  step[o] \notin Busy
    <3>1. step[o] \notin Busy \ {"reserved", "asked"}
      BY <1>5, <2>3 DEF GrowStale, Busy, Live
    <3>2. ~(current = Placeholder(o) /\ step[o] \in {"reserved", "asked"})
      BY <1>5 DEF GrowStale, Undisturbed
    <3>3. ~(current = Real(o) /\ step[o] \in {"reserved", "asked"})
      BY SessionIds DEF CalmInv, HandlerOwnsSlot, Live
    <3>4. QED
      BY <2>3, <3>1, <3>2, <3>3
  <2>4. StaleIsSettled'
    BY <2>1, <2>3 DEF StaleIsSettled
  <2>5. QED
    BY <2>2, <2>4 DEF CalmStep
<1>6. ASSUME Sweep PROVE CalmStep
  <2>1. /\ CurrentCancellable
        /\ CancelCurrent
        /\ current' = None
        /\ UNCHANGED <<received, step>>
    BY <1>6 DEF Sweep, offerVars
  <2>2. stale
    BY <1>6 DEF Sweep
  <2>3. QED
    BY <2>1, <2>2, ReclaimKeepsCalm
<1>7. ASSUME UNCHANGED vars PROVE CalmStep
  <2>1. UNCHANGED <<slotVars, offerVars, slots, received>>
    BY <1>7 DEF vars, sessionVars
  <2>2. QED
    BY <2>1, SlotUntouched
       DEF CalmInv, CalmStep, FlightsAreCurrent, ReceivedIsPublished,
           slotVars, offerVars
<1>8. CalmStep
  BY <1>2, <1>3, <1>4, <1>5, <1>6, <1>7 DEF Next
<1>9. QED
  BY <1>1, <1>8 DEF CalmInv, CalmStep

(* What disturbed the handlers once is remembered. *)
LEMMA DisturbanceStays ==
  ASSUME BaseInv, [Next]_vars, Undisturbed'
  PROVE  Undisturbed
<1>1. withdrawn \subseteq withdrawn' /\ overran \subseteq overran'
  BY DEF Next, PrepareUpload, Cancel, UploadFile, TurnAway, Reserve, Ask,
     AskNobody, Answer, GoUnanswered, Decides, ClearReservation,
     SettleDeclined, SettleAccepted, DeliverMessage, DropOffer,
     ReleaseReservation, CancelWithoutId, CancelById, BeginReceive,
     FailReceive, BeginPublication, Land, FailCommit, Record, LoseSession,
     DropLanded, DropInCommit, LandDetached, GrowStale, Sweep, vars,
     offerVars
<1>2. QED
  BY <1>1 DEF Undisturbed

LEMMA Calm == Spec => [](Undisturbed => CalmInv)
<1>1. Init => (Undisturbed => CalmInv)
  BY InitCalm
<1>2. BaseInv /\ (Undisturbed => CalmInv) /\ [Next]_vars
        => (Undisturbed => CalmInv)'
  <2> SUFFICES ASSUME BaseInv, Undisturbed => CalmInv, [Next]_vars,
                      Undisturbed'
               PROVE  CalmInv'
    OBVIOUS
  <2>1. Undisturbed
    BY DisturbanceStays
  <2>2. QED
    BY <2>1, StepPreservesCalm
<1>3. QED
  BY <1>1, <1>2, Base, PTL DEF Spec

(* As long as no offer was withdrawn without a session id and no handler   *)
(* was overtaken by session_timeout, the unconditional clears and          *)
(* replacements of a prepare-upload handler hit its own session.           *)
THEOREM HandlersOwnTheSlot == Spec => []UndisturbedOwnsSlot
<1>1. (Undisturbed => CalmInv) => UndisturbedOwnsSlot
  BY DEF CalmInv, UndisturbedOwnsSlot
<1>2. QED
  BY <1>1, Calm, PTL

(* As long as that is so, a session that is publishing a file is never     *)
(* cleared or replaced, even if the upload's client disconnects.           *)
THEOREM PublicationKeepsSession == Spec => []UndisturbedPublishing
<1>1. (Undisturbed => CalmInv) => UndisturbedPublishing
  BY DEF CalmInv, BaseInv, TypeOK, FlightsAreCurrent, UndisturbedPublishing,
         PublishingKeepsSession, Cancellable
<1>2. QED
  BY <1>1, Calm, PTL

(* As long as that is so, the address on record is the one the installed   *)
(* session was offered from, so that it alone can cancel it.               *)
THEOREM CancellerIsTheSender == Spec => []UndisturbedOwner
<1>1. (Undisturbed => CalmInv) => UndisturbedOwner
  BY DEF CalmInv, UndisturbedOwner
<1>2. QED
  BY <1>1, Calm, PTL

(* While that is so, an upload with its permit still in hand finds its     *)
(* session installed.                                                      *)
LEMMA PermitFindsSession ==
  ASSUME CalmInv, HoldInv, NEW u \in Upload, at[u] = "landed"
  PROVE  current = Real(of[u])
<1>1. of[u] \in Offer /\ file[u] \in File
  BY DEF CalmInv, BaseInv, TypeOK, UploadsBelong
<1>2. slots[of[u]][file[u]] = Publishing
  BY DEF HoldInv, SlotIsHeld
<1>3. QED
  BY <1>1, <1>2 DEF CalmInv, FlightsAreCurrent

LEMMA StepPreservesRecorded ==
  ASSUME CalmInv, HoldInv, LandedIsRecorded, [Next]_vars
  PROVE  LandedIsRecorded'
<1> USE DEF CalmInv
<1> SUFFICES ASSUME NEW u \in landed'
             PROVE  \/ at'[u] \in {"landed", "lost"}
                    \/ file'[u] \in received'[of'[u]]
  BY DEF LandedIsRecorded
<1>1. CASE \E v \in Upload : UploadFile(v)
  <2>1. PICK v \in Upload : UploadFile(v)
    BY <1>1
  <2>2. CASE u = v /\ at[u] # "idle"
    <3>1. CASE Record(v)
      BY <2>2, <3>1 DEF Record, Moves, BaseInv, TypeOK, UploadsBelong
    <3>2. CASE Land(v) \/ DropLanded(v) \/ DropInCommit(v)
      BY <2>2, <3>2 DEF Land, DropLanded, DropInCommit, Moves, BaseInv,
         TypeOK
    <3>3. CASE LandDetached(v)
      BY <2>2, <3>3 DEF LandDetached, HoldInv, UploadsArePlaced
    <3>4. CASE FailReceive(v) \/ BeginPublication(v) \/ FailCommit(v)
      BY <2>2, <3>4 DEF FailReceive, BeginPublication, FailCommit, Moves,
         HoldInv, UploadsArePlaced
    <3>5. ~LoseSession(v)
      BY PermitFindsSession DEF LoseSession, Moves
    <3>6. QED
      BY <2>1, <2>2, <3>1, <3>2, <3>3, <3>4, <3>5
         DEF UploadFile, BeginReceive, Moves
  <2>3. CASE u = v /\ at[u] = "idle"
    <3>1. at'[u] = "body"
      BY <2>1, <2>3, UploadMovesOne
    <3>2. HoldInv'
      BY StepPreservesHold
    <3>3. QED
      BY <3>1, <3>2 DEF HoldInv, UploadsArePlaced
  <2>4. CASE u # v
    <3>1. u \in landed
      BY <2>1, <2>4 DEF UploadFile, BeginReceive, FailReceive,
         BeginPublication, Land, FailCommit, Record, LoseSession,
         DropLanded, DropInCommit, LandDetached
    <3>2. u \in Upload /\ at[u] # "idle"
      BY <3>1 DEF BaseInv, TypeOK, HoldInv, UploadsArePlaced
    <3>3. at'[u] = at[u] /\ of'[u] = of[u] /\ file'[u] = file[u]
      BY <2>1, <2>4, <3>2, UploadMovesOne
    <3>4. received[of[u]] \subseteq received'[of[u]]
      BY <3>2, RecordedHasLanded DEF BaseInv, TypeOK, UploadsBelong
    <3>5. QED
      BY <3>1, <3>3, <3>4 DEF LandedIsRecorded
  <2>5. QED
    BY <2>2, <2>3, <2>4
<1>2. CASE ~\E v \in Upload : UploadFile(v)
  <2>1. UNCHANGED <<uploadVars, received>>
    BY <1>2, OthersOnlyCancel DEF Next
  <2>2. QED
    BY <2>1 DEF LandedIsRecorded, uploadVars
<1>3. QED
  BY <1>1, <1>2

(* As long as that is so, what lands is recorded, reported to the host and *)
(* answered with 200, unless the upload's client disconnects.              *)
THEOREM LandedFilesAreRecorded == Spec => []UndisturbedRecorded
<1>1. Init => UndisturbedRecorded
  BY DEF Init, UndisturbedRecorded, LandedIsRecorded
<1>2. /\ BaseInv /\ HoldInv /\ (Undisturbed => CalmInv)
      /\ UndisturbedRecorded /\ [Next]_vars
      => UndisturbedRecorded'
  <2> SUFFICES ASSUME BaseInv, HoldInv, Undisturbed => CalmInv,
                      UndisturbedRecorded, [Next]_vars, Undisturbed'
               PROVE  LandedIsRecorded'
    BY DEF UndisturbedRecorded
  <2>1. Undisturbed
    BY DisturbanceStays
  <2>2. QED
    BY <2>1, StepPreservesRecorded DEF UndisturbedRecorded
<1>3. QED
  BY <1>1, <1>2, Base, Hold, Calm, PTL DEF Spec

-----------------------------------------------------------------------------
(* Each session on its own.                                                *)

LEMMA SessionsBegin ==
  ASSUME Init, NEW o \in Offer
  PROVE  Lifecycle(o)!Init
<1>1. /\ \A u \in Upload : of[u] # o
      /\ slots[o] = [f \in File |-> Ready]
      /\ received[o] = {} /\ detached = {} /\ landed = {} /\ o \notin closed
  BY NoneAssumption DEF Init
<1>2. QED
  BY <1>1 DEF Lifecycle!Init, Lifecycle!Ready, In

(* A step that is no upload's cancels the session or leaves it alone.      *)
LEMMA OthersCancelOrStutter ==
  ASSUME TypeOK, UNCHANGED <<uploadVars, received>>,
         CancelCurrent \/ UNCHANGED <<slots, closed>>, NEW o \in Offer
  PROVE  [Lifecycle(o)!Next]_(Lifecycle(o)!vars)
<1>1. CASE UNCHANGED <<slots, closed>>
  BY <1>1 DEF uploadVars, Lifecycle!vars, In
<1>2. CASE CancelCurrent /\ current = Real(o) /\ Cancellable(slots[o])
  <2>1. slots'[o] = CancelAll(slots[o]) /\ (o \in closed') = TRUE
    BY <1>2 DEF CancelCurrent, TryCancel
  <2>2. Lifecycle(o)!TryCancelReceives
    BY <1>2, <2>1
       DEF Lifecycle!TryCancelReceives, Lifecycle!Cancellable,
           Lifecycle!CancelAll, Lifecycle!Ready, Lifecycle!Receiving,
           Lifecycle!Publishing, Lifecycle!Cancelled, Cancellable, CancelAll,
           uploadVars, In
  <2>3. QED
    BY <2>2 DEF Lifecycle!Next
<1>3. CASE CancelCurrent /\ ~(current = Real(o) /\ Cancellable(slots[o]))
  <2>1. slots'[o] = slots[o] /\ (o \in closed') = (o \in closed)
    BY <1>3 DEF CancelCurrent, TryCancel
  <2>2. QED
    BY <2>1 DEF uploadVars, Lifecycle!vars, In
<1>4. QED
  BY <1>1, <1>2, <1>3

(* An upload leaves every session but its own alone ...                    *)
LEMMA OtherSessionsStutter ==
  ASSUME BaseInv, HoldInv, [Next]_vars, NEW u \in Upload, UploadFile(u),
         NEW o \in Offer, of'[u] # o
  PROVE  UNCHANGED Lifecycle(o)!vars
<1>1. of[u] # o
  BY UploadMovesOne, NoneAssumption DEF HoldInv, UploadsArePlaced
<1>2. slots'[o] = slots[o]
  <2>1. \A f \in File : slots'[o][f] = slots[o][f]
    BY UploadMovesOne
  <2>2. slots[o] \in [File -> Phase] /\ slots'[o] \in [File -> Phase]
    BY StepPreservesBase DEF BaseInv, TypeOK
  <2>3. QED
    BY <2>1, <2>2
<1>3. received'[o] = received[o]
  BY <1>1 DEF UploadFile, BeginReceive, FailReceive, BeginPublication, Land,
     FailCommit, Record, LoseSession, DropLanded, DropInCommit, LandDetached,
     sessionVars, BaseInv, TypeOK
<1>4. detached' \ {u} = detached \ {u} /\ landed' \ {u} = landed \ {u}
  BY DEF UploadFile, BeginReceive, FailReceive, BeginPublication, Land,
     FailCommit, Record, LoseSession, DropLanded, DropInCommit, LandDetached
<1>5. \A v \in Upload \ {u} :
        at'[v] = at[v] /\ of'[v] = of[v] /\ file'[v] = file[v]
  BY UploadMovesOne
<1>6. closed' = closed
  BY UploadMovesOne
<1>7. /\ {v \in detached' : of'[v] = o} = {v \in detached : of[v] = o}
      /\ {v \in landed' : of'[v] = o} = {v \in landed : of[v] = o}
  BY <1>1, <1>4, <1>5, StepPreservesBase DEF BaseInv, TypeOK
<1>8. QED
  BY <1>1, <1>2, <1>3, <1>5, <1>6, <1>7 DEF Lifecycle!vars, In

(* ... in which it moves as in the lifecycle, where a handler that came    *)
(* back to a session no longer installed counts as lost.                   *)
LEMMA OwnSessionMoves ==
  ASSUME TypeOK, NEW u \in Upload, NEW o \in Offer, of[u] = o,
         NEW x \in Place \ {"idle", "orphaned"}, NEW y \in Place,
         at[u] = x, at' = [at EXCEPT ![u] = y], UNCHANGED <<of, file>>
  PROVE  /\ Lifecycle(o)!Moves(u, x, IF y = "orphaned" THEN "lost" ELSE y)
         /\ [v \in Upload |-> IF In(o, v) THEN file[v] ELSE None][u]
              = file[u]
         /\ UNCHANGED [v \in Upload |-> IF In(o, v) THEN file[v] ELSE None]
BY DEF TypeOK, Lifecycle!Moves, In

LEMMA OwnSessionSteps ==
  ASSUME BaseInv, HoldInv, NEW u \in Upload, UploadFile(u),
         NEW o \in Offer, of'[u] = o
  PROVE  Lifecycle(o)!Step(u)
<1>1. file'[u] \in File
  BY UploadMovesOne
<1>2. ASSUME NEW q \in Offer, NEW f \in File, BeginReceive(u, q, f)
      PROVE  Lifecycle(o)!BeginReceive(u, f)
  <2>1. q = o /\ of[u] # o /\ at[u] = "idle" /\ u \notin detached \cup landed
    BY <1>2, NoneAssumption
       DEF BeginReceive, Moves, HoldInv, UploadsArePlaced, BaseInv, TypeOK
  <2>2. Lifecycle(o)!Claimable(slots[o], f)
    BY <1>2, <2>1 DEF BeginReceive, Claimable, Lifecycle!Claimable,
       Lifecycle!Ready
  <2>3. Lifecycle(o)!Moves(u, "idle", "body")
    BY <1>2, <2>1 DEF BeginReceive, Moves, Lifecycle!Moves, In, BaseInv,
       TypeOK
  <2>4. slots'[o] = Lifecycle(o)!Claim(slots[o], f)
    BY <1>2, <2>1 DEF BeginReceive, Claim, Lifecycle!Claim,
       Lifecycle!Receiving, BaseInv, TypeOK
  <2>5. [v \in Upload |-> IF In(o, v) THEN file[v] ELSE None]' =
          [[v \in Upload |-> IF In(o, v) THEN file[v] ELSE None]
             EXCEPT ![u] = f]
    BY <1>2, <2>1 DEF BeginReceive, In, BaseInv, TypeOK
  <2>6. UNCHANGED <<{v \in detached : In(o, v)}, {v \in landed : In(o, v)},
                    received[o], o \in closed>>
    BY <1>2, <2>1 DEF BeginReceive, In, BaseInv, TypeOK
  <2>7. QED
    BY <2>2, <2>3, <2>4, <2>5, <2>6 DEF Lifecycle!BeginReceive
<1>3. CASE ~\E q \in Offer, f \in File : BeginReceive(u, q, f)
  <2> DEFINE name == [v \in Upload |-> IF In(o, v) THEN file[v] ELSE None]
             waits == {v \in detached : In(o, v)}
             lands == {v \in landed : In(o, v)}
  <2>1. UNCHANGED <<of, file, closed>>
    BY <1>3 DEF UploadFile, FailReceive, BeginPublication, Land,
       FailCommit, Record, LoseSession, DropLanded, DropInCommit,
       LandDetached, sessionVars
  <2>2. of[u] = o /\ file[u] \in File /\ In(o, u)
    BY <1>1, <2>1 DEF In
  <2>3. TypeOK
    BY DEF BaseInv
  <2>4. ASSUME FailReceive(u) PROVE Lifecycle(o)!FailReceive(u)
    <3>1. /\ Lifecycle(o)!Moves(u, "body", "done")
          /\ name[u] = file[u]
          /\ UNCHANGED name
      BY <2>1, <2>2, <2>3, <2>4, OwnSessionMoves DEF FailReceive, Moves, Place
    <3>2. slots'[o] = Lifecycle(o)!DropLease(slots[o], file[u])
      BY <2>2, <2>3, <2>4
         DEF TypeOK, FailReceive, DropLease, Lifecycle!DropLease,
           Lifecycle!Receiving, Lifecycle!Ready
    <3>3. UNCHANGED <<waits, lands, received>>
      BY <2>1, <2>2, <2>4 DEF FailReceive, sessionVars, In
    <3>4. QED
      BY <2>1, <3>1, <3>2, <3>3 DEF Lifecycle!FailReceive
  <2>5. ASSUME BeginPublication(u) PROVE Lifecycle(o)!BeginPublication(u)
    <3>1. /\ Lifecycle(o)!Moves(u, "body", "commit")
          /\ name[u] = file[u]
          /\ UNCHANGED name
      BY <2>1, <2>2, <2>3, <2>5, OwnSessionMoves
         DEF BeginPublication, Moves, Place
    <3>2. /\ Lifecycle(o)!Publishable(slots[o], file[u])
          /\ slots'[o] = Lifecycle(o)!Publish(slots[o], file[u])
      BY <2>2, <2>3, <2>5
         DEF TypeOK, BeginPublication, Publishable, Publish,
           Lifecycle!Publishable, Lifecycle!Publish, Lifecycle!Receiving,
           Lifecycle!Publishing
    <3>3. UNCHANGED <<waits, lands, received>>
      BY <2>1, <2>2, <2>5 DEF BeginPublication, sessionVars, In
    <3>4. QED
      BY <2>1, <3>1, <3>2, <3>3 DEF Lifecycle!BeginPublication
  <2>6. ASSUME Land(u) PROVE Lifecycle(o)!Land(u)
    <3>1. /\ Lifecycle(o)!Moves(u, "commit", "landed")
          /\ name[u] = file[u]
          /\ UNCHANGED name
      BY <2>1, <2>2, <2>3, <2>6, OwnSessionMoves DEF Land, Moves, Place
    <3>2. slots' = slots /\ lands' = lands \cup {u}
      BY <2>1, <2>2, <2>6 DEF Land, sessionVars, In
    <3>3. UNCHANGED <<waits, received>>
      BY <2>1, <2>2, <2>6 DEF Land, sessionVars, In
    <3>4. QED
      BY <2>1, <3>1, <3>2, <3>3 DEF Lifecycle!Land
  <2>7. ASSUME FailCommit(u) PROVE Lifecycle(o)!FailCommit(u)
    <3>1. /\ Lifecycle(o)!Moves(u, "commit", "done")
          /\ name[u] = file[u]
          /\ UNCHANGED name
      BY <2>1, <2>2, <2>3, <2>7, OwnSessionMoves DEF FailCommit, Moves, Place
    <3>2. slots'[o] = Lifecycle(o)!DropPermit(slots[o], file[u])
      BY <2>2, <2>3, <2>7
         DEF TypeOK, FailCommit, DropPermit, Lifecycle!DropPermit,
           Lifecycle!Publishing, Lifecycle!Ready
    <3>3. UNCHANGED <<waits, lands, received>>
      BY <2>1, <2>2, <2>7 DEF FailCommit, sessionVars, In
    <3>4. QED
      BY <2>1, <3>1, <3>2, <3>3 DEF Lifecycle!FailCommit
  <2>8. ASSUME Record(u) PROVE Lifecycle(o)!Record(u)
    <3>1. /\ Lifecycle(o)!Moves(u, "landed", "done")
          /\ name[u] = file[u]
          /\ UNCHANGED name
      BY <2>1, <2>2, <2>3, <2>8, OwnSessionMoves DEF Record, Moves, Place
    <3>2. /\ slots'[o] = Lifecycle(o)!FinishPublication(slots[o], file[u])
          /\ received'[o] = received[o] \cup {file[u]}
      BY <2>2, <2>3, <2>8
         DEF TypeOK, Record, FinishPublication,
           Lifecycle!FinishPublication, Lifecycle!Published
    <3>3. UNCHANGED <<waits, lands>>
      BY <2>1, <2>2, <2>8 DEF Record, sessionVars, In
    <3>4. QED
      BY <2>1, <3>1, <3>2, <3>3 DEF Lifecycle!Record
  <2>9. ASSUME LoseSession(u) PROVE Lifecycle(o)!AbandonLanded(u)
    <3>1. /\ Lifecycle(o)!Moves(u, "landed", "lost")
          /\ name[u] = file[u]
          /\ UNCHANGED name
      BY <2>1, <2>2, <2>3, <2>9, OwnSessionMoves DEF LoseSession, Moves, Place
    <3>2. slots'[o] = Lifecycle(o)!DropPermit(slots[o], file[u])
      BY <2>2, <2>3, <2>9
         DEF TypeOK, LoseSession, DropPermit, Lifecycle!DropPermit,
           Lifecycle!Publishing, Lifecycle!Ready
    <3>3. UNCHANGED <<waits, lands, received>>
      BY <2>1, <2>2, <2>9 DEF LoseSession, sessionVars, In
    <3>4. QED
      BY <2>1, <3>1, <3>2, <3>3 DEF Lifecycle!AbandonLanded
  <2>10. ASSUME DropLanded(u) PROVE Lifecycle(o)!AbandonLanded(u)
    <3>1. /\ Lifecycle(o)!Moves(u, "landed", "lost")
          /\ name[u] = file[u]
          /\ UNCHANGED name
      BY <2>1, <2>2, <2>3, <2>10, OwnSessionMoves DEF DropLanded, Moves, Place
    <3>2. slots'[o] = Lifecycle(o)!DropPermit(slots[o], file[u])
      BY <2>2, <2>3, <2>10
         DEF TypeOK, DropLanded, DropPermit, Lifecycle!DropPermit,
           Lifecycle!Publishing, Lifecycle!Ready
    <3>3. UNCHANGED <<waits, lands, received>>
      BY <2>1, <2>2, <2>10 DEF DropLanded, sessionVars, In
    <3>4. QED
      BY <2>1, <3>1, <3>2, <3>3 DEF Lifecycle!AbandonLanded
  <2>11. ASSUME DropInCommit(u) PROVE Lifecycle(o)!DropInCommit(u)
    <3>1. /\ Lifecycle(o)!Moves(u, "commit", "lost")
          /\ name[u] = file[u]
          /\ UNCHANGED name
      BY <2>1, <2>2, <2>3, <2>11, OwnSessionMoves
         DEF DropInCommit, Moves, Place
    <3>2. slots'[o] = Lifecycle(o)!DropPermit(slots[o], file[u])
      BY <2>2, <2>3, <2>11
         DEF TypeOK, DropInCommit, DropPermit, Lifecycle!DropPermit,
           Lifecycle!Publishing, Lifecycle!Ready
    <3>3. waits' = waits \cup {u} /\ UNCHANGED <<lands, received>>
      BY <2>1, <2>2, <2>11 DEF DropInCommit, sessionVars, In
    <3>4. QED
      BY <2>1, <3>1, <3>2, <3>3 DEF Lifecycle!DropInCommit
  <2>12. ASSUME LandDetached(u) PROVE Lifecycle(o)!LandDetached(u)
    <3>1. /\ u \in waits
          /\ waits' = waits \ {u}
          /\ lands' = lands \cup {u}
          /\ UNCHANGED <<slots, at, received>>
      BY <2>1, <2>2, <2>12 DEF LandDetached, sessionVars, In
    <3>2. UNCHANGED name
      BY <2>1 DEF In
    <3>3. QED
      BY <2>1, <3>1, <3>2 DEF Lifecycle!LandDetached, In
  <2>13. QED
    BY <1>3, <2>4, <2>5, <2>6, <2>7, <2>8, <2>9, <2>10, <2>11, <2>12
       DEF UploadFile, Lifecycle!Step
<1>4. QED
  BY <1>2, <1>3 DEF Lifecycle!Step

(* Every step of the server is a step of a session's lifecycle or leaves  *)
(* the session alone.                                                      *)
LEMMA SessionsStep ==
  ASSUME BaseInv, HoldInv, [Next]_vars, NEW o \in Offer
  PROVE  [Lifecycle(o)!Next]_(Lifecycle(o)!vars)
<1>1. CASE \E u \in Upload : UploadFile(u)
  <2>1. PICK u \in Upload : UploadFile(u)
    BY <1>1
  <2>2. CASE of'[u] = o
    BY <2>1, <2>2, OwnSessionSteps DEF Lifecycle!Next
  <2>3. CASE of'[u] # o
    BY <2>1, <2>3, OtherSessionsStutter
  <2>4. QED
    BY <2>2, <2>3
<1>2. CASE ~\E u \in Upload : UploadFile(u)
  BY <1>2, OthersOnlyCancel, OthersCancelOrStutter DEF Next, BaseInv
<1>3. QED
  BY <1>1, <1>2

(* Every session, installed or forgotten, runs the lifecycle of            *)
(* ReceiveLifecycle, although the callers of try_cancel_receives in        *)
(* prepare-upload ignore its answer and clear the slot all the same.       *)
THEOREM SessionsRunTheLifecycle == Spec => ImplementsLifecycle
<1>1. Init => \A o \in Offer : Lifecycle(o)!Init
  BY SessionsBegin
<1>2. BaseInv /\ HoldInv /\ [Next]_vars =>
        \A o \in Offer : [Lifecycle(o)!Next]_(Lifecycle(o)!vars)
  BY SessionsStep
<1>3. QED
  BY <1>1, <1>2, Base, Hold, PTL DEF Spec, ImplementsLifecycle

-----------------------------------------------------------------------------
(* What ReceiveLifecycle_proofs shows of a session thus holds of each      *)
(* session of the server.  Session stands for any one of them: the offer   *)
(* it was opened for.                                                      *)

CONSTANT Session

OneSession ==
  INSTANCE ReceiveLifecycle_proofs WITH
    Handler  <- Upload,
    phase    <- slots[Session],
    at       <- [u \in Upload |-> IF ~In(Session, u) THEN "idle"
                                 ELSE IF at[u] = "orphaned" THEN "lost"
                                 ELSE at[u]],
    file     <- [u \in Upload |-> IF In(Session, u) THEN file[u] ELSE None],
    detached <- {u \in detached : In(Session, u)},
    landed   <- {u \in landed : In(Session, u)},
    recorded <- received[Session],
    closed   <- Session \in closed

(* It is what ReceiveLifecycle has in Lifecycle(Session). *)
LEMMA SessionInit ==
  ASSUME Session \in Offer, Lifecycle(Session)!Init
  PROVE  OneSession!Init
BY DEF OneSession!Init, Lifecycle!Init, OneSession!Ready, Lifecycle!Ready

LEMMA SessionStep ==
  ASSUME [Lifecycle(Session)!Next]_(Lifecycle(Session)!vars)
  PROVE  [OneSession!Next]_(OneSession!vars)
<1>1. CASE UNCHANGED Lifecycle(Session)!vars
  BY <1>1 DEF Lifecycle!vars, OneSession!vars
<1>2. CASE Lifecycle(Session)!TryCancelReceives
  BY <1>2 DEF OneSession!Next, Lifecycle!TryCancelReceives,
              OneSession!TryCancelReceives, Lifecycle!Cancellable,
              OneSession!Cancellable, Lifecycle!CancelAll,
              OneSession!CancelAll, Lifecycle!Ready, OneSession!Ready,
              Lifecycle!Receiving, OneSession!Receiving, Lifecycle!Publishing,
              OneSession!Publishing, Lifecycle!Cancelled, OneSession!Cancelled
<1>3. ASSUME NEW h \in Upload, Lifecycle(Session)!Step(h)
      PROVE  OneSession!Step(h)
  <2> USE DEF Lifecycle!Moves, OneSession!Moves, Lifecycle!Ready,
              OneSession!Ready, Lifecycle!Receiving, OneSession!Receiving,
              Lifecycle!Publishing, OneSession!Publishing, Lifecycle!Published,
              OneSession!Published, Lifecycle!Cancelled, OneSession!Cancelled
  <2>1. ASSUME NEW f \in File, Lifecycle(Session)!BeginReceive(h, f)
        PROVE  OneSession!Step(h)
    BY <2>1 DEF OneSession!Step, Lifecycle!BeginReceive,
                OneSession!BeginReceive, Lifecycle!Claimable,
                OneSession!Claimable, Lifecycle!Claim, OneSession!Claim
  <2>2. ASSUME Lifecycle(Session)!FailReceive(h)
        PROVE  OneSession!Step(h)
    BY <2>2 DEF OneSession!Step, Lifecycle!FailReceive, OneSession!FailReceive,
       Lifecycle!DropLease, OneSession!DropLease
  <2>3. ASSUME Lifecycle(Session)!BeginPublication(h)
        PROVE  OneSession!Step(h)
    BY <2>3 DEF OneSession!Step, Lifecycle!BeginPublication,
                OneSession!BeginPublication, Lifecycle!Publishable,
                OneSession!Publishable, Lifecycle!Publish, OneSession!Publish
  <2>4. ASSUME Lifecycle(Session)!Land(h)
        PROVE  OneSession!Step(h)
    BY <2>4 DEF OneSession!Step, Lifecycle!Land, OneSession!Land
  <2>5. ASSUME Lifecycle(Session)!FailCommit(h)
        PROVE  OneSession!Step(h)
    BY <2>5 DEF OneSession!Step, Lifecycle!FailCommit, OneSession!FailCommit,
       Lifecycle!DropPermit, OneSession!DropPermit
  <2>6. ASSUME Lifecycle(Session)!Record(h)
        PROVE  OneSession!Step(h)
    BY <2>6 DEF OneSession!Step, Lifecycle!Record, OneSession!Record,
       Lifecycle!FinishPublication, OneSession!FinishPublication
  <2>7. ASSUME Lifecycle(Session)!AbandonLanded(h)
        PROVE  OneSession!Step(h)
    BY <2>7 DEF OneSession!Step, Lifecycle!AbandonLanded,
                OneSession!AbandonLanded, Lifecycle!DropPermit,
                OneSession!DropPermit
  <2>8. ASSUME Lifecycle(Session)!DropInCommit(h)
        PROVE  OneSession!Step(h)
    BY <2>8 DEF OneSession!Step, Lifecycle!DropInCommit,
                OneSession!DropInCommit, Lifecycle!DropPermit,
                OneSession!DropPermit
  <2>9. ASSUME Lifecycle(Session)!LandDetached(h)
        PROVE  OneSession!Step(h)
    BY <2>9 DEF OneSession!Step, Lifecycle!LandDetached,
                OneSession!LandDetached
  <2>10. QED
    BY <1>3, <2>1, <2>2, <2>3, <2>4, <2>5, <2>6, <2>7, <2>8, <2>9
       DEF Lifecycle!Step
<1>4. QED
  BY <1>1, <1>2, <1>3 DEF Lifecycle!Next, OneSession!Next

(* The session runs the lifecycle, as a behaviour of its own. *)
LEMMA SessionRuns ==
  ASSUME Session \in Offer
  PROVE  Spec => OneSession!Spec
<1>1. Init => OneSession!Init
  BY SessionsBegin, SessionInit
<1>2. BaseInv /\ HoldInv /\ [Next]_vars => [OneSession!Next]_(OneSession!vars)
  BY SessionsStep, SessionStep
<1>3. QED
  BY <1>1, <1>2, Base, Hold, PTL DEF Spec, OneSession!Spec

(* Every session of the server keeps the promise of SessionDelivery: a     *)
(* file that arrived is acknowledged or given up with its upload, one that *)
(* was acknowledged never arrives again, and nothing arrives after a       *)
(* cancellation was answered true, whatever happens to other sessions and  *)
(* to the slot (mark_received, try_cancel_receives).                       *)
THEOREM SessionsKeepThePromise ==
  ASSUME Session \in Offer
  PROVE  Spec => OneSession!ImplementsDelivery
<1>1. None \notin File
  BY NoneAssumption
<1>2. QED
  BY <1>1, SessionRuns, OneSession!LifecycleImplementsDelivery, PTL

(* Of the uploads into one session that were not lost at most one lands a  *)
(* file, also while other senders replace, cancel and sweep the session.   *)
THEOREM SessionsLandOnce ==
  ASSUME Session \in Offer
  PROVE  Spec => []OneSession!LandsOnce
<1>1. None \notin File
  BY NoneAssumption
<1>2. QED
  BY <1>1, SessionRuns, OneSession!LandsAtMostOnce, PTL

(* What a session of the server has recorded is on disk, and no upload     *)
(* into it will claim that file again (mark_received, begin_receive).      *)
THEOREM SessionsRecordForGood ==
  ASSUME Session \in Offer
  PROVE  Spec => []OneSession!RecordedIsFinal
<1>1. None \notin File
  BY NoneAssumption
<1>2. QED
  BY <1>1, SessionRuns, OneSession!RecordedStays, PTL

(* Once try_cancel_receives has answered true for a session of the server, *)
(* nothing lands in it but renames that outlived their uploads.            *)
THEOREM SessionsCancelForGood ==
  ASSUME Session \in Offer
  PROVE  Spec => OneSession!CancellationIsFinal
<1>1. None \notin File
  BY NoneAssumption
<1>2. QED
  BY <1>1, SessionRuns, OneSession!CancellationFinal, PTL
=============================================================================
