--------------------------- MODULE StandardReceive ---------------------------
(***************************************************************************)
(* The standard LocalSend receive path of the server: the one session slot *)
(* of ServerState and everything that moves it.                            *)
(*                                                                         *)
(*   - prepare-upload handlers (an "offer" each) reserve the slot with a   *)
(*     placeholder session, wait for consent without holding the lock, and *)
(*     come back to it three times: to clear the reservation, to settle    *)
(*     the decision, and, for a text message, to hand the message over;    *)
(*   - the reservation guard of an offer runs as a task of its own after   *)
(*     its handler returned or was dropped with its connection;            *)
(*   - upload handlers claim, write, publish and record one file each;     *)
(*   - cancel handlers, the session sweep and the clock run in between.    *)
(*                                                                         *)
(* One action is one critical section of the server lock or of a session's *)
(* mutex, or one step between two of them that others can observe.         *)
(* Requests that are turned away leave no trace in this state, so only the *)
(* effects of those that are let in are actions, and TurnAway for offers.  *)
(*                                                                         *)
(* overran is not in the code: it remembers the offers whose session was   *)
(* idle for session_timeout while their handler was still at work.         *)
(***************************************************************************)
EXTENDS ReceiveSlots, Naturals

CONSTANTS
  Offer,             (* prepare-upload requests; each has one handler       *)
  Upload,            (* upload requests; each has one handler               *)
  File,              (* file ids                                            *)
  Peer,              (* sender addresses                                    *)
  Sender,            (* the address an offer comes from                     *)
  Offered,           (* the files of an offer                               *)
  Message,           (* the offers that are one text message                *)
  None               (* no session, no offer, no peer, no file              *)

Placeholder(o) == <<"placeholder", o>>
Real(o) == <<"real", o>>

SessionId == {"placeholder", "real"} \X Offer

ASSUME OfferAssumption ==
  /\ Sender \in [Offer -> Peer]
  /\ Offered \in [Offer -> (SUBSET File) \ {{}}]
  /\ Message \subseteq Offer

ASSUME NoneAssumption ==
  None \notin Offer \cup File \cup Peer \cup SessionId

VARIABLES
  current,     (* current_session: the id of the installed session or None  *)
  from,        (* current_session_from                                      *)
  awaiting,    (* awaiting_consent: the offer that reserved, or None        *)
  stale,       (* the installed session has been idle for session_timeout   *)
  step,        (* where the prepare-upload handler of an offer is           *)
  accepted,    (* the files its decision accepts; none when declined        *)
  withdrawn,   (* offers whose withdraw token is cancelled                  *)
  overran,     (* offers whose handler was overtaken by session_timeout     *)
  issued,      (* offers whose session id and tokens went to the sender     *)
  slots,       (* the slots of the real session of an offer                 *)
  received,    (* Session::received of the real session of an offer         *)
  at,          (* where an upload handler is                                *)
  of,          (* the offer whose real session an upload handler is in      *)
  file,        (* the file it claimed                                       *)
  detached,    (* dropped handlers whose rename still runs                  *)
  landed,      (* upload handlers whose rename has happened                 *)
  finished,    (* SessionDone events sent for the session of an offer       *)
  closed       (* offers whose real session some try_cancel_receives closed *)

slotVars == <<current, from, awaiting, stale>>
offerVars == <<step, accepted, withdrawn, overran, issued>>
sessionVars == <<slots, received, finished, closed>>
uploadVars == <<at, of, file, detached, landed>>

vars == <<slotVars, offerVars, sessionVars, uploadVars>>

(* new: not arrived; reserved: the placeholder is installed; asked: the    *)
(* question is with the user; decided: the answer is in, the reservation   *)
(* not yet cleared; cleared: about to settle; installed: a message with    *)
(* its session installed; leaving: returned or dropped with the guard task *)
(* still to run; gone.                                                     *)
HandlerStep ==
  {"new", "reserved", "asked", "decided", "cleared", "installed",
   "leaving", "gone"}

(* idle; with the lease; with the permit; past the commit; finished;       *)
(* orphaned: came back from the commit to a session no longer installed;   *)
(* lost: dropped with the permit in hand.                                  *)
Place == {"idle", "body", "commit", "landed", "done", "orphaned", "lost"}

Init ==
  /\ current = None
  /\ from = None
  /\ awaiting = None
  /\ stale = FALSE
  /\ step = [o \in Offer |-> "new"]
  /\ accepted = [o \in Offer |-> {}]
  /\ withdrawn = {}
  /\ overran = {}
  /\ issued = {}
  /\ slots = [o \in Offer |-> [f \in File |-> Ready]]
  /\ received = [o \in Offer |-> {}]
  /\ at = [u \in Upload |-> "idle"]
  /\ of = [u \in Upload |-> None]
  /\ file = [u \in Upload |-> None]
  /\ detached = {}
  /\ landed = {}
  /\ finished = [o \in Offer |-> 0]
  /\ closed = {}

-----------------------------------------------------------------------------
(* The installed session. *)

(* Nothing is ever uploaded into a placeholder: its ids and tokens are not *)
(* told to anybody, so its slots are all Ready and cancelling it succeeds. *)
CurrentCancellable ==
  \A o \in Offer : current = Real(o) => Cancellable(slots[o])

(* try_cancel_receives on whatever is installed, the answer left to the    *)
(* caller.                                                                 *)
CancelCurrent ==
  /\ slots' = [o \in Offer |->
                 IF current = Real(o) THEN TryCancel(slots[o]) ELSE slots[o]]
  /\ closed' = closed \cup
                 {o \in Offer : current = Real(o) /\ Cancellable(slots[o])}

-----------------------------------------------------------------------------
(* prepare-upload. *)

Advances(o, source, target) ==
  /\ step[o] = source
  /\ step' = [step EXCEPT ![o] = target]

(* 401, 429, 204 for an empty offer, or 409: nothing is reserved. *)
TurnAway(o) ==
  /\ Advances(o, "new", "gone")
  /\ UNCHANGED <<slotVars, accepted, withdrawn, overran, issued, sessionVars,
                 uploadVars>>

(* Mutant: an offer is let in on top of another session. *)
ReserveWhenBusy(o) ==
  /\ CancelCurrent
  /\ current' = Placeholder(o)
  /\ from' = Sender[o]
  /\ awaiting' = o
  /\ stale' = FALSE
  /\ Advances(o, "new", "reserved")
  /\ UNCHANGED <<accepted, withdrawn, overran, issued, received, finished,
                 uploadVars>>

(* The slot is free, or held by a session that has timed out and can be    *)
(* cancelled; the placeholder, the reservation and the sender's address go *)
(* in.  With auto-accept the decision is made without asking.              *)
Reserve(o) ==
  /\ current = None \/ (stale /\ CurrentCancellable)
  /\ CancelCurrent
  /\ current' = Placeholder(o)
  /\ from' = Sender[o]
  /\ awaiting' = o
  /\ stale' = FALSE
  /\ \/ /\ Advances(o, "new", "reserved")
        /\ UNCHANGED accepted
     \/ /\ Advances(o, "new", "decided")
        /\ accepted' = [accepted EXCEPT ![o] = Offered[o]]
  /\ UNCHANGED <<withdrawn, overran, issued, received, finished, uploadVars>>

Decides(o, source, files) ==
  /\ Advances(o, source, "decided")
  /\ accepted' = [accepted EXCEPT ![o] = files]
  /\ UNCHANGED <<slotVars, withdrawn, overran, issued, sessionVars,
                 uploadVars>>

(* The TransferRequest is in the event channel. *)
Ask(o) ==
  /\ Advances(o, "reserved", "asked")
  /\ UNCHANGED <<slotVars, accepted, withdrawn, overran, issued, sessionVars,
                 uploadVars>>

(* The event consumer is gone: a decline. *)
AskNobody(o) == Decides(o, "reserved", {})

(* Accept, AcceptFiles, Decline, or Refuse, which does to the slot what a  *)
(* decline does and is answered 400 instead of 403.  The select is biased, *)
(* so an answer counts only while the offer has not been withdrawn.        *)
Answer(o) ==
  /\ o \notin withdrawn
  /\ \E files \in SUBSET Offered[o] : Decides(o, "asked", files)

(* Mutant: no accept timeout. *)
GoUnansweredIfWithdrawn(o) == o \in withdrawn /\ Decides(o, "asked", {})

(* Withdrawn, accept_timeout ran out, or the PendingRequest was dropped. *)
GoUnanswered(o) == Decides(o, "asked", {})

(* The answer is in: the offer stops being a reservation, if it still is. *)
ClearReservation(o) ==
  /\ Advances(o, "decided", "cleared")
  /\ awaiting' = IF awaiting = o THEN None ELSE awaiting
  /\ UNCHANGED <<current, from, stale, accepted, withdrawn, overran, issued,
                 sessionVars, uploadVars>>

(* Refused or declined.  Whatever session is installed is cancelled if it  *)
(* can be, and cleared in any case.                                        *)
SettleDeclined(o) ==
  /\ accepted[o] = {}
  /\ Advances(o, "cleared", "leaving")
  /\ CancelCurrent
  /\ current' = None
  /\ stale' = FALSE
  /\ UNCHANGED <<from, awaiting, accepted, withdrawn, overran, issued,
                 received, finished, uploadVars>>

(* The session over the accepted files replaces whatever is installed, and *)
(* unless it is a message its id and tokens are answered.                  *)
SettleAccepted(o) ==
  /\ accepted[o] # {}
  /\ IF o \in Message
     THEN Advances(o, "cleared", "installed") /\ UNCHANGED issued
     ELSE Advances(o, "cleared", "leaving") /\ issued' = issued \cup {o}
  /\ CancelCurrent
  /\ current' = Real(o)
  /\ stale' = FALSE
  /\ UNCHANGED <<from, awaiting, accepted, withdrawn, overran, received,
                 finished, uploadVars>>

(* TextReceived and SessionDone, and the slot is cleared. *)
DeliverMessage(o) ==
  /\ Advances(o, "installed", "leaving")
  /\ finished' = [finished EXCEPT ![o] = @ + 1]
  /\ current' = None
  /\ stale' = FALSE
  /\ UNCHANGED <<from, awaiting, accepted, withdrawn, overran, issued, slots,
                 received, closed, uploadVars>>

(* The sender disconnects and the handler is dropped at the await it is    *)
(* parked on: the event channel, the decision, or one of the locks.        *)
DropOffer(o) ==
  /\ step[o] \in {"reserved", "asked", "decided", "cleared", "installed"}
  /\ step' = [step EXCEPT ![o] = "leaving"]
  /\ UNCHANGED <<slotVars, accepted, withdrawn, overran, issued, sessionVars,
                 uploadVars>>

(* Mutant: the guard's task leaves the reservation behind. *)
ReleaseNothing(o) ==
  /\ Advances(o, "leaving", "gone")
  /\ UNCHANGED <<slotVars, accepted, withdrawn, overran, issued, sessionVars,
                 uploadVars>>

(* The task ReservationGuard spawns when it is dropped. *)
ReleaseReservation(o) ==
  /\ Advances(o, "leaving", "gone")
  /\ awaiting' = IF awaiting = o THEN None ELSE awaiting
  /\ IF awaiting = o /\ current = Placeholder(o)
     THEN current' = None /\ from' = None /\ stale' = FALSE
     ELSE UNCHANGED <<current, from, stale>>
  /\ UNCHANGED <<accepted, withdrawn, overran, issued, sessionVars,
                 uploadVars>>

-----------------------------------------------------------------------------
(* cancel, the clock and the sweep. *)

(* /cancel without a session id, from the address that reserved: answered  *)
(* 200.                                                                    *)
CancelWithoutId(o) ==
  /\ awaiting = o
  /\ awaiting' = None
  /\ withdrawn' = withdrawn \cup {o}
  /\ IF current = Placeholder(o)
     THEN current' = None /\ from' = None /\ stale' = FALSE
     ELSE UNCHANGED <<current, from, stale>>
  /\ UNCHANGED <<step, accepted, overran, issued, sessionVars, uploadVars>>

(* Mutant: the cancelled session stays installed. *)
CancelByIdKeepsSession(p, o) ==
  /\ o \in issued
  /\ current = Real(o)
  /\ from \in {None, p}
  /\ CurrentCancellable
  /\ CancelCurrent
  /\ finished' = [finished EXCEPT ![o] = @ + 1]
  /\ finished[o] < 2
  /\ UNCHANGED <<slotVars, offerVars, received, uploadVars>>

(* Mutant: the answer of try_cancel_receives is ignored. *)
CancelByIdAnyway(p, o) ==
  /\ o \in issued
  /\ current = Real(o)
  /\ from \in {None, p}
  /\ CancelCurrent
  /\ finished' = [finished EXCEPT ![o] = @ + 1]
  /\ current' = None
  /\ from' = None
  /\ stale' = FALSE
  /\ UNCHANGED <<awaiting, offerVars, received, uploadVars>>

(* /cancel with the id of the installed session, from the address on       *)
(* record, or from anybody when none is.                                   *)
CancelById(p, o) ==
  /\ o \in issued
  /\ current = Real(o)
  /\ from \in {None, p}
  /\ CurrentCancellable
  /\ CancelCurrent
  /\ finished' = [finished EXCEPT ![o] = @ + 1]
  /\ current' = None
  /\ from' = None
  /\ stale' = FALSE
  /\ UNCHANGED <<awaiting, offerVars, received, uploadVars>>

(* session_timeout passes without activity, be it while the handler waits  *)
(* for room in the event channel or for an answer.  Between two of its     *)
(* critical sections a handler does not wait that long.                    *)
GrowStale ==
  /\ ~stale
  /\ current # None
  /\ \A o \in Offer :
       current \in {Placeholder(o), Real(o)} =>
         step[o] \notin {"decided", "cleared", "installed"}
  /\ stale' = TRUE
  /\ overran' = overran \cup
                  {o \in Offer : /\ current = Placeholder(o)
                                /\ step[o] \in {"reserved", "asked"}}
  /\ UNCHANGED <<current, from, awaiting, step, accepted, withdrawn, issued,
                 sessionVars, uploadVars>>

(* Mutant: only sessions nobody uploads into are swept. *)
SweepPlaceholders ==
  /\ \E o \in Offer : current = Placeholder(o)
  /\ stale
  /\ current' = None
  /\ stale' = FALSE
  /\ UNCHANGED <<from, awaiting, offerVars, sessionVars, uploadVars>>

(* spawn_session_sweep: one tick that finds something to reclaim. *)
Sweep ==
  /\ current # None
  /\ stale
  /\ CurrentCancellable
  /\ CancelCurrent
  /\ current' = None
  /\ stale' = FALSE
  /\ UNCHANGED <<from, awaiting, offerVars, received, finished, uploadVars>>

-----------------------------------------------------------------------------
(* upload. *)

Moves(u, source, target) ==
  /\ at[u] = source
  /\ at' = [at EXCEPT ![u] = target]

(* The session is the installed one, the token is the file's, and the slot *)
(* is Ready.  Anything else is 403, 404 or 409 with nothing changed.       *)
BeginReceive(u, o, f) ==
  /\ o \in issued
  /\ current = Real(o)
  /\ f \in accepted[o]
  /\ Claimable(slots[o], f)
  /\ Moves(u, "idle", "body")
  /\ of' = [of EXCEPT ![u] = o]
  /\ file' = [file EXCEPT ![u] = f]
  /\ slots' = [slots EXCEPT ![o] = Claim(@, f)]
  /\ UNCHANGED <<slotVars, offerVars, received, finished, closed, detached,
                 landed>>

(* The sink refuses, the body fails or does not match its metadata, the    *)
(* slot was cancelled, or the sender disconnects: the lease is dropped.    *)
FailReceive(u) ==
  /\ Moves(u, "body", "done")
  /\ slots' = [slots EXCEPT ![of[u]] = DropLease(@, file[u])]
  /\ UNCHANGED <<slotVars, offerVars, received, finished, closed, of, file,
                 detached, landed>>

BeginPublication(u) ==
  /\ Moves(u, "body", "commit")
  /\ Publishable(slots[of[u]], file[u])
  /\ slots' = [slots EXCEPT ![of[u]] = Publish(@, file[u])]
  /\ UNCHANGED <<slotVars, offerVars, received, finished, closed, of, file,
                 detached, landed>>

(* commit succeeds. *)
Land(u) ==
  /\ Moves(u, "commit", "landed")
  /\ landed' = landed \cup {u}
  /\ UNCHANGED <<slotVars, offerVars, sessionVars, of, file, detached>>

(* commit fails: 500, and the permit is dropped. *)
FailCommit(u) ==
  /\ Moves(u, "commit", "done")
  /\ slots' = [slots EXCEPT ![of[u]] = DropPermit(@, file[u])]
  /\ UNCHANGED <<slotVars, offerVars, received, finished, closed, of, file,
                 detached, landed>>

(* Mutant: the first recorded file ends the session. *)
RecordAsLast(u) ==
  /\ Moves(u, "landed", "done")
  /\ current = Real(of[u])
  /\ received' = [received EXCEPT ![of[u]] = @ \cup {file[u]}]
  /\ slots' = [slots EXCEPT ![of[u]] = FinishPublication(@, file[u])]
  /\ finished' = [finished EXCEPT ![of[u]] = @ + 1]
  /\ current' = None
  /\ stale' = FALSE
  /\ UNCHANGED <<from, awaiting, offerVars, closed, of, file, detached,
                 landed>>

(* The session is still installed: the file is recorded and reported, the  *)
(* permit finished, and after the last file SessionDone goes out and the   *)
(* slot is cleared.                                                        *)
Record(u) ==
  LET o == of[u]
      all == received[o] \cup {file[u]} = accepted[o]
  IN  /\ Moves(u, "landed", "done")
      /\ current = Real(o)
      /\ received' = [received EXCEPT ![o] = @ \cup {file[u]}]
      /\ slots' = [slots EXCEPT ![of[u]] = FinishPublication(@, file[u])]
      /\ finished' = IF all THEN [finished EXCEPT ![o] = @ + 1] ELSE finished
      /\ current' = IF all THEN None ELSE current
      /\ stale' = FALSE
      /\ UNCHANGED <<from, awaiting, offerVars, closed, of, file, detached,
                     landed>>

(* "Receive lifecycle invariant violated after publication": the session   *)
(* is not installed any more.  500, and the permit is dropped.             *)
LoseSession(u) ==
  /\ Moves(u, "landed", "orphaned")
  /\ current # Real(of[u])
  /\ slots' = [slots EXCEPT ![of[u]] = DropPermit(@, file[u])]
  /\ UNCHANGED <<slotVars, offerVars, received, finished, closed, of, file,
                 detached, landed>>

(* The sender disconnects while the handler waits for the lock. *)
DropLanded(u) ==
  /\ Moves(u, "landed", "lost")
  /\ slots' = [slots EXCEPT ![of[u]] = DropPermit(@, file[u])]
  /\ UNCHANGED <<slotVars, offerVars, received, finished, closed, of, file,
                 detached, landed>>

(* The sender disconnects inside commit, with the rename under way. *)
DropInCommit(u) ==
  /\ Moves(u, "commit", "lost")
  /\ slots' = [slots EXCEPT ![of[u]] = DropPermit(@, file[u])]
  /\ detached' = detached \cup {u}
  /\ UNCHANGED <<slotVars, offerVars, received, finished, closed, of, file,
                 landed>>

LandDetached(u) ==
  /\ u \in detached
  /\ detached' = detached \ {u}
  /\ landed' = landed \cup {u}
  /\ UNCHANGED <<slotVars, offerVars, sessionVars, at, of, file>>

-----------------------------------------------------------------------------

PrepareUpload(o) ==
  \/ TurnAway(o)
  \/ Reserve(o)
  \/ Ask(o)
  \/ AskNobody(o)
  \/ Answer(o)
  \/ GoUnanswered(o)
  \/ ClearReservation(o)
  \/ SettleDeclined(o)
  \/ SettleAccepted(o)
  \/ DeliverMessage(o)
  \/ DropOffer(o)
  \/ ReleaseReservation(o)

Cancel(o) ==
  \/ CancelWithoutId(o)
  \/ \E p \in Peer : CancelById(p, o)

UploadFile(u) ==
  \/ \E o \in Offer, f \in File : BeginReceive(u, o, f)
  \/ FailReceive(u)
  \/ BeginPublication(u)
  \/ Land(u)
  \/ FailCommit(u)
  \/ Record(u)
  \/ LoseSession(u)
  \/ DropLanded(u)
  \/ DropInCommit(u)
  \/ LandDetached(u)

Next ==
  \/ \E o \in Offer : PrepareUpload(o) \/ Cancel(o)
  \/ \E u \in Upload : UploadFile(u)
  \/ GrowStale
  \/ Sweep

Spec == Init /\ [][Next]_vars

-----------------------------------------------------------------------------
(* What holds whatever the senders do. *)

(* The variables range over what the code can store in them. *)
TypeOK ==
  /\ current \in SessionId \cup {None}
  /\ from \in Peer \cup {None}
  /\ awaiting \in Offer \cup {None}
  /\ stale \in BOOLEAN
  /\ step \in [Offer -> HandlerStep]
  /\ accepted \in [Offer -> SUBSET File]
  /\ withdrawn \subseteq Offer
  /\ overran \subseteq Offer
  /\ issued \subseteq Offer
  /\ slots \in [Offer -> [File -> Phase]]
  /\ received \in [Offer -> SUBSET File]
  /\ at \in [Upload -> Place]
  /\ of \in [Upload -> Offer \cup {None}]
  /\ file \in [Upload -> File \cup {None}]
  /\ detached \subseteq Upload
  /\ landed \subseteq Upload
  /\ finished \in [Offer -> Nat]
  /\ closed \subseteq Offer

(* A reservation never outlives the handler that made it: whoever is       *)
(* recorded as awaiting consent still has a handler waiting, or the guard  *)
(* task of a dropped handler still to run.                                 *)
ReservationHasHandler ==
  \A o \in Offer :
    awaiting = o => step[o] \in {"reserved", "asked", "decided", "leaving"}

(* SessionDone is sent at most once for a session, although completion,    *)
(* cancellation and the message path each send it on their own.            *)
DoneOnce == \A o \in Offer : finished[o] <= 1

(* SessionDone for a session that nobody cancelled and that is no message  *)
(* means every accepted file was recorded and is on disk.                  *)
DoneMeansComplete ==
  \A o \in Offer \ (Message \cup closed) :
    finished[o] > 0 =>
      \A f \in accepted[o] :
        /\ f \in received[o]
        /\ \E u \in landed : of[u] = o /\ file[u] = f

-----------------------------------------------------------------------------
(* What the code relies on between its critical sections. *)

Live == {"reserved", "asked", "decided", "cleared"}

(* The session an offer's handler is working on is the installed one, so   *)
(* that its unconditional clears and replacements hit its own session.     *)
HandlerOwnsSlot ==
  \A o \in Offer :
    /\ step[o] \in Live => current = Placeholder(o)
    /\ step[o] = "installed" => current = Real(o)

(* "The publication permit prevents cancellation/replacement from clearing *)
(* this exact session between the atomic filesystem commit and its state / *)
(* event transition" (upload handler).                                     *)
PublishingKeepsSession ==
  \A o \in Offer : ~Cancellable(slots[o]) => current = Real(o)

(* The installed session can be cancelled by the address it was offered    *)
(* from, and by no other.                                                  *)
OwnerOnRecord ==
  \A o \in Offer :
    current \in {Placeholder(o), Real(o)} => from = Sender[o]

(* A file on disk was reported to the host and answered with 200, or its   *)
(* handler is about to do so, unless the sender disconnected meanwhile.    *)
LandedIsRecorded ==
  \A u \in landed :
    \/ at[u] \in {"landed", "lost"}
    \/ file[u] \in received[of[u]]

(* The slot has not been taken from under a handler: no offer was          *)
(* withdrawn without a session id, and no handler was overtaken by         *)
(* session_timeout.                                                        *)
Undisturbed == withdrawn = {} /\ overran = {}

(* As long as that is so, each of the four holds: the three visits of a    *)
(* prepare-upload handler to the slot need no check of whose session it    *)
(* is, whatever uploads, cancels by id, the sweep and dropped connections  *)
(* do in between.                                                          *)
UndisturbedOwnsSlot == Undisturbed => HandlerOwnsSlot

UndisturbedPublishing == Undisturbed => PublishingKeepsSession

UndisturbedOwner == Undisturbed => OwnerOnRecord

UndisturbedRecorded == Undisturbed => LandedIsRecorded

-----------------------------------------------------------------------------
(* What a comment promises without that premise.                           *)

(* The same "publication permit" sentence, wherever no handler was         *)
(* overtaken by session_timeout, offers withdrawn without an id included.  *)
PublicationUndisturbed == overran = {} => PublishingKeepsSession

-----------------------------------------------------------------------------
(* Liveness. *)

(* The clock, the sweep, the accept timeout and every step between two     *)
(* awaits of a running handler happen by themselves.  A user need not      *)
(* answer, a sender need not send, and a body need not end.                *)
Fairness ==
  /\ WF_vars(GrowStale)
  /\ WF_vars(Sweep)
  /\ \A o \in Offer :
       /\ WF_vars(Ask(o) \/ AskNobody(o))
       /\ WF_vars(GoUnanswered(o))
       /\ WF_vars(ClearReservation(o))
       /\ WF_vars(SettleDeclined(o) \/ SettleAccepted(o))
       /\ WF_vars(DeliverMessage(o))
       /\ WF_vars(ReleaseReservation(o))
  /\ \A u \in Upload :
       /\ WF_vars(Land(u) \/ FailCommit(u))
       /\ WF_vars(Record(u) \/ LoseSession(u))
       /\ WF_vars(LandDetached(u))

FairSpec == Spec /\ Fairness

(* Every offer that reserved the slot is answered and its guard task runs. *)
OfferIsAnswered ==
  \A o \in Offer : step[o] = "reserved" ~> step[o] = "gone"

(* No session holds the slot for ever, even when its sender vanished with  *)
(* an upload half way and nobody answers (R5).                             *)
SlotIsReclaimed ==
  \A s \in SessionId : current = s ~> current # s
=============================================================================
