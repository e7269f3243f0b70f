---------------------------- MODULE ReceiveSlots ----------------------------
(***************************************************************************)
(* The slots of one receive session: a phase for every file, behind one    *)
(* mutex (core/session.rs, ReceiveLifecycle).  Every operation of the code *)
(* takes the mutex once, so each is a function from the slots before to    *)
(* the slots after.  The cancellation token of a slot is not kept apart:   *)
(* the code cancels it in the same critical section that moves the slot to *)
(* Cancelled, and nowhere else.                                            *)
(***************************************************************************)

Ready      == "Ready"
Receiving  == "Receiving"
Publishing == "Publishing"
Published  == "Published"
Cancelled  == "Cancelled"

Phase == {Ready, Receiving, Publishing, Published, Cancelled}

(* Mutant: a second body may start while the first is being received. *)
ClaimableTwice(slots, f) == slots[f] \in {Ready, Receiving}

(* begin_receive hands out a lease only for a Ready slot. *)
Claimable(slots, f) == slots[f] = Ready

Claim(slots, f) == [slots EXCEPT ![f] = Receiving]

(* begin_publication trades the lease for a permit unless a cancellation   *)
(* got to the slot first.                                                  *)
Publishable(slots, f) == slots[f] = Receiving

Publish(slots, f) == [slots EXCEPT ![f] = Publishing]

(* Mutant: the permit is dropped unfinished after the file was recorded. *)
FinishAsRetryable(slots, f) == [slots EXCEPT ![f] = Ready]

(* StandardPublicationPermit::finish. *)
FinishPublication(slots, f) == [slots EXCEPT ![f] = Published]

(* Mutant: the slot becomes retryable even if it was cancelled. *)
DropLeaseAlways(slots, f) == [slots EXCEPT ![f] = Ready]

(* Drop of a live lease: retryable, unless the slot was cancelled. *)
DropLease(slots, f) ==
  [slots EXCEPT ![f] = IF @ = Receiving THEN Ready ELSE @]

(* Drop of a live permit. *)
DropPermit(slots, f) ==
  [slots EXCEPT ![f] = IF @ = Publishing THEN Ready ELSE @]

(* try_cancel_receives answers false while any slot is Publishing ... *)
Cancellable(slots) == \A f \in DOMAIN slots : slots[f] # Publishing

(* ... and otherwise closes every slot that is not yet Published. *)
CancelAll(slots) ==
  [f \in DOMAIN slots |->
     IF slots[f] \in {Ready, Receiving} THEN Cancelled ELSE slots[f]]

(* Mutant: the slots around the Publishing one are closed all the same. *)
TryCancelPartly(slots) == CancelAll(slots)

(* What the callers that ignore the answer leave behind. *)
TryCancel(slots) == IF Cancellable(slots) THEN CancelAll(slots) ELSE slots
=============================================================================
