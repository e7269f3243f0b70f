---------------------------- MODULE TuiApp_proofs ----------------------------
(***************************************************************************)
(* Proofs about TuiApp, for any number of transfers, devices, messages and *)
(* generations.                                                            *)
(***************************************************************************)
EXTENDS TuiApp, SequenceTheorems, TLAPS

(* A request is in the channel once, and until it is taken from there.     *)
QueuedOnce ==
  /\ \A i \in 1 .. Len(events) : answer[events[i]] = "queued"
  /\ \A i, j \in 1 .. Len(events) : events[i] = events[j] => i = j

(* The request on screen waits for its decision. *)
OnScreenIsShown == popup \in Request => answer[popup] = "shown"

RequestInv == QueuedOnce /\ OnScreenIsShown /\ RequestsAreKept

(* What was cancelled is of an earlier generation. *)
CancelledIsPast == \A g \in cancelled : g < generation

(* The send of generation g is over.                                       *)
Ended(g) == g \in Generation /\ task[g] # None /\ task[g].step = "over"

(* A send is of a generation that has begun.  It ends once, with one       *)
(* update, which is in the channel, or was acted on, or was dropped.       *)
EndsOnce ==
  /\ \A g \in Generation : task[g] # None => g <= generation
  /\ \A i \in 1 .. Len(updates) :
       /\ Ended(updates[i].generation)
       /\ updates[i].generation \notin reported
       /\ updates[i].generation # asker
  /\ \A i, j \in 1 .. Len(updates) :
       updates[i].generation = updates[j].generation => i = j
  /\ \A g \in reported : Ended(g)
  /\ asker # 0 => Ended(asker)
  /\ asker \notin reported

TuiInv ==
  /\ TypeOK
  /\ RequestInv
  /\ CancelledIsPast
  /\ CancelledIsSilent
  /\ EndsOnce

-----------------------------------------------------------------------------
(* What the channels and the spawning of a send do. *)

LEMMA TakesHead ==
  ASSUME NEW S, NEW s \in Seq(S), s # <<>>
  PROVE  /\ Head(s) = s[1] /\ 1 \in 1 .. Len(s)
         /\ s[1] \in S
         /\ Tail(s) \in Seq(S)
         /\ \A i \in 1 .. Len(Tail(s)) :
              i + 1 \in 1 .. Len(s) /\ Tail(s)[i] = s[i + 1] /\ i + 1 # 1
<1>1. Len(s) \in Nat \ {0}
  BY EmptySeq
<1>2. Head(s) = s[1]
  OBVIOUS
<1>3. /\ Head(s) \in S
      /\ Tail(s) \in Seq(S)
      /\ Len(Tail(s)) = Len(s) - 1
      /\ \A i \in 1 .. Len(Tail(s)) : Tail(s)[i] = s[i + 1]
  BY HeadTailProperties
<1>4. QED
  BY <1>1, <1>2, <1>3

LEMMA SpawnTypes ==
  ASSUME TypeOK, NEW k \in Kind, NEW p \in 0 .. MaxGeneration,
         CanSpawn(k), Spawn(k, p)
  PROVE  /\ generation + 1 \in Generation
         /\ generation' = generation + 1
         /\ task' \in [Generation -> Tasks \cup {None}]
         /\ sending' \in [Kind -> BOOLEAN]
<1>1. generation + 1 \in Generation
  BY BoundAssumption DEF TypeOK, Spawn, Generation
<1>2. [kind |-> k, to |-> target[k], what |-> input[k], pinFor |-> p,
       step |-> "preparing"] \in Tasks
  BY DEF TypeOK, CanSpawn, Tasks
<1>3. QED
  BY <1>1, <1>2 DEF TypeOK, Spawn

LEMMA ClearTypes ==
  ASSUME TypeOK, NEW k \in Kind, Clear(k)
  PROVE  /\ stage' \in [Kind -> {"select", "enter"}]
         /\ target' \in [Kind -> Device \cup {None}]
         /\ input' \in [Kind -> Text \cup {Empty}]
         /\ sending' \in [Kind -> BOOLEAN]
BY DEF TypeOK, Clear

LEMMA SupersedeTypes ==
  ASSUME TypeOK, Supersede
  PROVE  /\ generation' \in 0 .. MaxGeneration
         /\ cancelled' \subseteq 0 .. MaxGeneration
<1>1. generation' \in 0 .. MaxGeneration /\ generation \in 0 .. MaxGeneration
  BY BoundAssumption DEF TypeOK, Supersede
<1>2. QED
  BY <1>1 DEF TypeOK, Supersede

(* The update that is taken. *)
LEMMA TakenUpdate ==
  ASSUME TypeOK, TakesUpdate
  PROVE  /\ Head(updates) = updates[1] /\ 1 \in 1 .. Len(updates)
         /\ updates[1] \in Updates
         /\ updates' \in Seq(Updates)
         /\ updates[1].kind \in Kind /\ updates[1].generation \in Generation
<1>1. updates \in Seq(Updates) /\ updates # <<>> /\ updates' = Tail(updates)
  BY DEF TypeOK, TakesUpdate
<1>2. /\ Head(updates) = updates[1] /\ 1 \in 1 .. Len(updates)
      /\ updates[1] \in Updates
      /\ updates' \in Seq(Updates)
  BY <1>1, TakesHead
<1>3. QED
  BY <1>2 DEF Updates

-----------------------------------------------------------------------------

LEMMA InitTui == Init => TuiInv
<1> SUFFICES ASSUME Init PROVE TuiInv
  OBVIOUS
<1>1. events = <<>> /\ updates = <<>> /\ Len(events) = 0 /\ Len(updates) = 0
  BY EmptySeq DEF Init
<1>2. events \in Seq(Request) /\ updates \in Seq(Updates)
  BY <1>1, EmptySeq
<1>3. TypeOK
  BY <1>2, BoundAssumption DEF Init, TypeOK, Kind
<1>4. QueuedOnce /\ EndsOnce
  BY <1>1 DEF Init, QueuedOnce, EndsOnce
<1>5. QED
  BY <1>3, <1>4, ValueAssumption
     DEF Init, TuiInv, RequestInv, OnScreenIsShown, RequestsAreKept,
         CancelledIsPast, CancelledIsSilent

LEMMA StepPreservesTypes == TypeOK /\ [Next]_vars => TypeOK'
<1> SUFFICES ASSUME TypeOK, [Next]_vars PROVE TypeOK'
  OBVIOUS
<1> USE DEF TypeOK, requestVars, screenVars, taskVars, historyVars
<1>1. ASSUME NEW r \in Request, Offer(r) PROVE TypeOK'
  BY <1>1, AppendProperties DEF Offer
<1>2. ASSUME NEW g \in Generation, StartUpload(g) PROVE TypeOK'
  BY ZenonT(40), <1>2 DEF StartUpload, Live, Tasks
<1>3. ASSUME NEW g \in Generation, NEW what \in {"sent", "failed", "pin"},
             EndSend(g, what)
      PROVE  TypeOK'
  <2> DEFINE u == [generation |-> g, kind |-> task[g].kind, what |-> what]
  <2>1. task[g] \in Tasks
    BY <1>3 DEF EndSend, Live
  <2>2. u \in Updates /\ [task[g] EXCEPT !.step = "over"] \in Tasks
    BY <2>1 DEF Updates, Tasks
  <2>3. updates' \in Seq(Updates)
    <3> HIDE DEF u
    <3>1. Append(updates, u) \in Seq(Updates)
      BY <2>2, AppendProperties
    <3>2. QED
      BY <1>3, <3>1 DEF EndSend, u
  <2>4. QED
    BY <1>3, <2>2, <2>3 DEF EndSend
<1>4. ASSUME ShowRequest PROVE TypeOK'
  BY <1>4, TakesHead DEF ShowRequest
<1>5. ASSUME EventsDrained \/ UpdatesDrained \/ NoKey \/ Quit
             \/ MaybeOpenPinPrompt
      PROVE  TypeOK'
  BY <1>5 DEF EventsDrained, UpdatesDrained, NoKey, Quit, Key,
              MaybeOpenPinPrompt
<1>6. ASSUME DropUpdate PROVE TypeOK'
  BY <1>6, TakenUpdate DEF DropUpdate, TakesUpdate
<1>7. ASSUME TakeFinished PROVE TypeOK'
  BY <1>7, TakenUpdate, ClearTypes DEF TakeFinished, TakesUpdate
<1>8. ASSUME TakeNeedsPin PROVE TypeOK'
  BY <1>8, TakenUpdate, BoundAssumption
     DEF TakeNeedsPin, TakesUpdate, Generation
<1>9. ASSUME NEW k \in Kind, SwitchTab(k) PROVE TypeOK'
  BY <1>9 DEF SwitchTab, Key
<1>10. ASSUME NEW k \in Kind, NEW d \in Device, SelectDevice(k, d)
       PROVE  TypeOK'
  BY <1>10 DEF SelectDevice, ScreenKey, Key
<1>11. ASSUME NEW k \in Kind, NEW t \in Text \cup {Empty}, Type(k, t)
       PROVE  TypeOK'
  BY <1>11 DEF Type, ScreenKey, Key
<1>12. ASSUME NEW k \in Kind, Send(k) PROVE TypeOK'
  <2>1. 0 \in 0 .. MaxGeneration
    BY BoundAssumption
  <2>2. CanSpawn(k) /\ Spawn(k, 0)
    BY <1>12 DEF Send
  <2>3. /\ generation' \in 0 .. MaxGeneration
        /\ task' \in [Generation -> Tasks \cup {None}]
        /\ sending' \in [Kind -> BOOLEAN]
    BY <2>1, <2>2, SpawnTypes DEF Generation
  <2>4. QED
    BY <1>12, <2>3 DEF Send, ScreenKey, Key
<1>13. ASSUME NEW k \in Kind, Leave(k) PROVE TypeOK'
  <2>1. /\ generation' \in 0 .. MaxGeneration
        /\ cancelled' \subseteq 0 .. MaxGeneration
    BY <1>13, SupersedeTypes DEF Leave
  <2>2. /\ stage' \in [Kind -> {"select", "enter"}]
        /\ target' \in [Kind -> Device \cup {None}]
        /\ input' \in [Kind -> Text \cup {Empty}]
        /\ sending' \in [Kind -> BOOLEAN]
    BY <1>13, ClearTypes DEF Leave
  <2>3. QED
    BY <1>13, <2>1, <2>2 DEF Leave, ScreenKey, Key
<1>14. ASSUME NEW decision \in {"accepted", "declined"}, Decide(decision)
       PROVE  TypeOK'
  BY <1>14 DEF Decide, Key
<1>15. ASSUME SubmitPin PROVE TypeOK'
  <2>1. /\ generation' \in 0 .. MaxGeneration
        /\ task' \in [Generation -> Tasks \cup {None}]
        /\ sending' \in [Kind -> BOOLEAN]
    BY <1>15, SpawnTypes DEF SubmitPin, Generation
  <2>2. QED
    BY <1>15, <2>1 DEF SubmitPin, Key
<1>16. ASSUME SubmitNothing PROVE TypeOK'
  BY <1>16 DEF SubmitNothing, Key
<1>17. ASSUME CancelPin PROVE TypeOK'
  BY <1>17, SupersedeTypes DEF CancelPin, Key
<1>18. ASSUME UNCHANGED vars PROVE TypeOK'
  BY <1>18 DEF vars
<1>19. QED
  BY <1>1, <1>2, <1>3, <1>4, <1>5, <1>6, <1>7, <1>8, <1>9, <1>10, <1>11,
     <1>12, <1>13, <1>14, <1>15, <1>16, <1>17, <1>18
     DEF Next, Loop, PollServerEvents, PollSendUpdates, HandleKey,
         HandlePopupKey, SendTask

-----------------------------------------------------------------------------
(* Requests. *)

LEMMA StepPreservesRequests ==
  TypeOK /\ RequestInv /\ [Next]_vars => RequestInv'
<1> SUFFICES ASSUME TypeOK, RequestInv, [Next]_vars PROVE RequestInv'
  OBVIOUS
<1> USE DEF RequestInv
<1>1. /\ events \in Seq(Request) /\ Len(events) \in Nat
      /\ \A i \in 1 .. Len(events) : events[i] \in Request
      /\ answer \in [Request -> {"unseen", "queued", "shown", "accepted",
                                "declined", "dropped"}]
      /\ popup \in Request \cup {None, Pin}
      /\ None \notin Request /\ Pin \notin Request
  BY LenProperties, ValueAssumption DEF TypeOK
<1>2. ASSUME NEW r \in Request, Offer(r) PROVE RequestInv'
  <2>1. /\ answer[r] = "unseen"
        /\ answer' = [answer EXCEPT ![r] = "queued"]
        /\ popup' = popup
    BY <1>2 DEF Offer
  <2>2. /\ Len(events') = Len(events) + 1
        /\ \A i \in 1 .. Len(events) : events'[i] = events[i]
        /\ events'[Len(events) + 1] = r
    BY <1>1, <1>2, AppendProperties DEF Offer
  <2>3. \A i \in 1 .. Len(events) : events[i] # r
    BY <2>1 DEF QueuedOnce
  <2>4. QueuedOnce'
    <3>1. ASSUME NEW i \in 1 .. Len(events')
          PROVE  i \in 1 .. Len(events) \/ i = Len(events) + 1
      BY <1>1, <2>2
    <3>2. \A i \in 1 .. Len(events') : answer'[events'[i]] = "queued"
      BY <1>1, <2>1, <2>2, <3>1 DEF QueuedOnce
    <3>3. \A i, j \in 1 .. Len(events') : events'[i] = events'[j] => i = j
      BY <2>2, <2>3, <3>1 DEF QueuedOnce
    <3>4. QED
      BY <3>2, <3>3 DEF QueuedOnce
  <2>5. QED
    BY <1>1, <2>1, <2>4 DEF OnScreenIsShown, RequestsAreKept
<1>3. ASSUME ShowRequest PROVE RequestInv'
  <2>1. /\ Head(events) = events[1] /\ 1 \in 1 .. Len(events)
        /\ events[1] \in Request
        /\ events' = Tail(events)
        /\ \A i \in 1 .. Len(events') :
             i + 1 \in 1 .. Len(events) /\ events'[i] = events[i + 1]
             /\ i + 1 # 1
    BY <1>1, <1>3, TakesHead DEF ShowRequest
  <2>2. answer[events[1]] = "queued"
    BY <2>1 DEF QueuedOnce
  <2>3. \E to \in {"shown", "declined"} :
          answer' = [answer EXCEPT ![events[1]] = to]
    BY <1>3, <2>1 DEF ShowRequest
  <2>4. QueuedOnce'
    <3>1. \A i \in 1 .. Len(events') :
            events'[i] \in Request /\ events'[i] # events[1]
      BY <1>1, <2>1 DEF QueuedOnce
    <3>2. \A i \in 1 .. Len(events') : answer'[events'[i]] = "queued"
      BY <1>1, <2>1, <2>3, <3>1 DEF QueuedOnce
    <3>3. ASSUME NEW i \in 1 .. Len(events'), NEW j \in 1 .. Len(events'),
                 events'[i] = events'[j]
          PROVE  i = j
      <4>1. i + 1 = j + 1
        BY <2>1, <3>3 DEF QueuedOnce
      <4>2. QED
        BY <4>1
    <3>4. QED
      BY <3>2, <3>3 DEF QueuedOnce
  <2>5. CASE popup \in {None, Pin}
    <3>1. \A r \in Request : answer[r] # "shown"
      BY <1>1, <2>5 DEF RequestsAreKept
    <3>2. /\ popup' = events[1]
          /\ answer' = [answer EXCEPT ![events[1]] = "shown"]
      BY <1>3, <2>1, <2>5 DEF ShowRequest
    <3>3. OnScreenIsShown' /\ RequestsAreKept'
      BY <1>1, <2>1, <3>1, <3>2 DEF OnScreenIsShown, RequestsAreKept
    <3>4. QED
      BY <2>4, <3>3
  <2>6. CASE popup \notin {None, Pin}
    <3>1. popup' = popup /\ answer' = [answer EXCEPT ![events[1]] = "declined"]
      BY <1>3, <2>1, <2>6 DEF ShowRequest
    <3>2. popup # events[1]
      BY <1>1, <2>2, <2>6 DEF OnScreenIsShown
    <3>3. OnScreenIsShown' /\ RequestsAreKept'
      BY <1>1, <2>1, <3>1, <3>2 DEF OnScreenIsShown, RequestsAreKept
    <3>4. QED
      BY <2>4, <3>3
  <2>7. QED
    BY <2>5, <2>6
<1>4. ASSUME NEW decision \in {"accepted", "declined"}, Decide(decision)
      PROVE  RequestInv'
  <2>1. /\ popup \in Request /\ popup' = None /\ events' = events
        /\ answer' = [answer EXCEPT ![popup] = decision]
    BY <1>4 DEF Decide
  <2>2. answer[popup] = "shown"
    BY <2>1 DEF OnScreenIsShown
  <2>3. QueuedOnce'
    <3>1. \A i \in 1 .. Len(events) : events[i] # popup
      BY <2>2 DEF QueuedOnce
    <3>2. QED
      BY <1>1, <2>1, <3>1 DEF QueuedOnce
  <2>4. OnScreenIsShown' /\ RequestsAreKept'
    BY <1>1, <2>1 DEF OnScreenIsShown, RequestsAreKept
  <2>5. QED
    BY <2>3, <2>4
<1>5. ASSUME UNCHANGED <<events, answer>>,
             popup' \in Request <=> popup \in Request,
             popup \in Request => popup' = popup
      PROVE  RequestInv'
  <2>1. QueuedOnce'
    BY <1>5 DEF QueuedOnce
  <2>2. OnScreenIsShown' /\ RequestsAreKept'
    BY <1>5 DEF OnScreenIsShown, RequestsAreKept
  <2>3. QED
    BY <2>1, <2>2
<1>6. ASSUME SubmitPin \/ SubmitNothing \/ CancelPin PROVE RequestInv'
  BY <1>1, <1>5, <1>6 DEF SubmitPin, SubmitNothing, CancelPin
<1>7. ASSUME MaybeOpenPinPrompt PROVE RequestInv'
  BY <1>1, <1>5, <1>7 DEF MaybeOpenPinPrompt
<1>8. ASSUME UNCHANGED requestVars PROVE RequestInv'
  BY <1>5, <1>8 DEF requestVars
<1>9. ASSUME EventsDrained \/ PollSendUpdates \/ NoKey \/ HandleKey
             \/ (\E g \in Generation : SendTask(g)) \/ UNCHANGED vars
      PROVE  UNCHANGED requestVars
  <2>1. CASE HandleKey
    BY <2>1 DEF HandleKey, Quit, SwitchTab, SelectDevice, Type, Send, Leave
  <2>2. CASE EventsDrained \/ PollSendUpdates \/ NoKey
    BY <2>2 DEF EventsDrained, PollSendUpdates, NoKey, DropUpdate,
                TakeFinished, TakeNeedsPin, UpdatesDrained, requestVars
  <2>3. CASE \E g \in Generation : SendTask(g)
    BY <2>3 DEF SendTask, StartUpload, EndSend
  <2>4. CASE UNCHANGED vars
    BY <2>4 DEF vars
  <2>5. QED
    BY <1>9, <2>1, <2>2, <2>3, <2>4
<1>10. QED
  BY <1>2, <1>3, <1>4, <1>6, <1>7, <1>8, <1>9
     DEF Next, Loop, PollServerEvents, HandlePopupKey

-----------------------------------------------------------------------------
(* Sends. *)

(* The generation only grows, and grows when something is cancelled.       *)
LEMMA GenerationGrows ==
  ASSUME TypeOK, [Next]_vars
  PROVE  /\ generation \in Nat /\ generation' \in Nat
         /\ generation' >= generation
         /\ \/ cancelled' = cancelled
            \/ /\ generation' = generation + 1
               /\ cancelled' = cancelled \cup ({generation} \ reported)
               /\ reported' = reported
<1>1. generation \in Nat
  BY BoundAssumption DEF TypeOK
<1>2. \/ UNCHANGED <<generation, cancelled>>
      \/ generation' = generation + 1 /\ cancelled' = cancelled
      \/ Supersede /\ reported' = reported
  <2>1. CASE Loop
    <3>1. CASE PollServerEvents \/ NoKey \/ MaybeOpenPinPrompt
      BY <3>1 DEF PollServerEvents, ShowRequest, EventsDrained, NoKey,
                  MaybeOpenPinPrompt, taskVars, historyVars
    <3>2. CASE PollSendUpdates
      BY <3>2 DEF PollSendUpdates, DropUpdate, TakeFinished, TakeNeedsPin,
                  UpdatesDrained, taskVars, historyVars
    <3>3. CASE HandleKey
      BY <3>3 DEF HandleKey, Quit, SwitchTab, SelectDevice, Type, Send,
                  Spawn, Leave, taskVars, historyVars
    <3>4. CASE HandlePopupKey
      BY <3>4 DEF HandlePopupKey, Decide, SubmitPin, Spawn, SubmitNothing,
                  CancelPin, taskVars, historyVars
    <3>5. QED
      BY <2>1, <3>1, <3>2, <3>3, <3>4 DEF Loop
  <2>2. CASE \E r \in Request : Offer(r)
    BY <2>2 DEF Offer, taskVars, historyVars
  <2>3. CASE \E g \in Generation : SendTask(g)
    BY <2>3 DEF SendTask, StartUpload, EndSend, historyVars
  <2>4. CASE UNCHANGED vars
    BY <2>4 DEF vars, taskVars, historyVars
  <2>5. QED
    BY <2>1, <2>2, <2>3, <2>4 DEF Next
<1>3. QED
  BY <1>1, <1>2 DEF Supersede

(* Only the end of the current send is shown. *)
LEMMA ShowsTheCurrent ==
  ASSUME TypeOK, [Next]_vars
  PROVE  \/ reported' = reported
         \/ /\ reported' = reported \cup {generation}
            /\ UNCHANGED <<generation, cancelled>>
<1>1. CASE Loop
  <2>1. CASE PollServerEvents \/ NoKey \/ MaybeOpenPinPrompt
    BY <2>1 DEF PollServerEvents, ShowRequest, EventsDrained, NoKey,
                MaybeOpenPinPrompt, historyVars
  <2>2. CASE PollSendUpdates
    BY <2>2 DEF PollSendUpdates, DropUpdate, TakeFinished, TakeNeedsPin,
                UpdatesDrained, historyVars, IsCurrent
  <2>3. CASE HandleKey
    BY <2>3 DEF HandleKey, Quit, SwitchTab, SelectDevice, Type, Send,
                Leave, historyVars
  <2>4. CASE HandlePopupKey
    BY <2>4 DEF HandlePopupKey, Decide, SubmitPin, SubmitNothing,
                CancelPin, historyVars
  <2>5. QED
    BY <1>1, <2>1, <2>2, <2>3, <2>4 DEF Loop
<1>2. CASE \E r \in Request : Offer(r)
  BY <1>2 DEF Offer, historyVars
<1>3. CASE \E g \in Generation : SendTask(g)
  BY <1>3 DEF SendTask, StartUpload, EndSend, historyVars
<1>4. CASE UNCHANGED vars
  BY <1>4 DEF vars, historyVars
<1>5. QED
  BY <1>1, <1>2, <1>3, <1>4 DEF Next

LEMMA StepPreservesCancelled ==
  TypeOK /\ CancelledIsPast /\ CancelledIsSilent /\ [Next]_vars
    => CancelledIsPast' /\ CancelledIsSilent'
<1> SUFFICES ASSUME TypeOK, CancelledIsPast, CancelledIsSilent, [Next]_vars
             PROVE  CancelledIsPast' /\ CancelledIsSilent'
  OBVIOUS
<1>1. \A g \in cancelled : g \in Nat
  BY BoundAssumption DEF TypeOK
<1>2. CancelledIsPast'
  <2>1. /\ generation \in Nat /\ generation' \in Nat
        /\ generation' >= generation
        /\ \/ cancelled' = cancelled
           \/ /\ generation' = generation + 1
              /\ cancelled' = cancelled \cup ({generation} \ reported)
    BY GenerationGrows
  <2>2. \A g \in cancelled : g < generation'
    BY <1>1, <2>1 DEF CancelledIsPast
  <2>3. QED
    BY <2>1, <2>2 DEF CancelledIsPast
<1>3. CancelledIsSilent'
  <2>1. CASE reported' = reported
    BY <2>1, GenerationGrows DEF CancelledIsSilent
  <2>2. CASE /\ reported' = reported \cup {generation}
             /\ UNCHANGED <<generation, cancelled>>
    <3>1. generation \notin cancelled
      BY BoundAssumption DEF CancelledIsPast, TypeOK
    <3>2. QED
      BY <2>2, <3>1 DEF CancelledIsSilent
  <2>3. QED
    BY <2>1, <2>2, ShowsTheCurrent
<1>4. QED
  BY <1>2, <1>3

(* EndsOnce holds on when sends start but none ends.                       *)
LEMMA NoneEnds ==
  ASSUME TypeOK, EndsOnce, generation' \in Nat, generation' >= generation,
         UNCHANGED <<updates, asker, reported>>,
         \A g \in Generation :
           /\ task'[g] # None => g <= generation'
           /\ Ended(g) => task'[g] = task[g]
  PROVE  EndsOnce'
<1>1. \A g : Ended(g) => Ended(g)'
  BY DEF Ended
<1>2. QED
  BY <1>1 DEF EndsOnce

LEMMA SpawnEndsNone ==
  ASSUME TypeOK, EndsOnce, NEW k \in Kind, NEW p \in 0 .. MaxGeneration,
         CanSpawn(k), Spawn(k, p), UNCHANGED <<updates, asker, reported>>
  PROVE  EndsOnce'
<1>1. generation \in Nat /\ Generation \subseteq Nat
  BY BoundAssumption DEF TypeOK, Generation
<1>2. /\ generation + 1 \in Generation
      /\ generation' = generation + 1
      /\ task' \in [Generation -> Tasks \cup {None}]
  BY SpawnTypes
<1>3. task[generation + 1] = None
  BY <1>1, <1>2 DEF EndsOnce
<1>4. \A g \in Generation : g # generation + 1 => task'[g] = task[g]
  BY DEF TypeOK, Spawn
<1>5. \A g \in Generation : Ended(g) => task'[g] = task[g]
  BY <1>3, <1>4 DEF Ended
<1>6. \A g \in Generation : task'[g] # None => g <= generation'
  BY <1>1, <1>2, <1>4 DEF EndsOnce
<1>7. QED
  BY <1>1, <1>2, <1>5, <1>6, NoneEnds

(* What is left in the channel when its head is taken. *)
LEMMA TakenOnce ==
  ASSUME TypeOK, EndsOnce, TakesUpdate
  PROVE  /\ Head(updates) = updates[1]
         /\ Ended(updates[1].generation)
         /\ updates[1].generation \notin reported
         /\ updates[1].generation # asker
         /\ \A i \in 1 .. Len(updates') :
              /\ Ended(updates'[i].generation)
              /\ updates'[i].generation \notin reported
              /\ updates'[i].generation # asker
              /\ updates'[i].generation # updates[1].generation
         /\ \A i, j \in 1 .. Len(updates') :
              updates'[i].generation = updates'[j].generation => i = j
<1>1. updates \in Seq(Updates) /\ updates # <<>> /\ updates' = Tail(updates)
  BY DEF TypeOK, TakesUpdate
<1>2. /\ Head(updates) = updates[1] /\ 1 \in 1 .. Len(updates)
      /\ \A i \in 1 .. Len(updates') :
           i + 1 \in 1 .. Len(updates) /\ updates'[i] = updates[i + 1]
           /\ i + 1 # 1
  BY <1>1, TakesHead
<1>3. /\ Ended(updates[1].generation)
      /\ updates[1].generation \notin reported
      /\ updates[1].generation # asker
  BY <1>2 DEF EndsOnce
<1>4. ASSUME NEW i \in 1 .. Len(updates')
      PROVE  /\ Ended(updates'[i].generation)
             /\ updates'[i].generation \notin reported
             /\ updates'[i].generation # asker
             /\ updates'[i].generation # updates[1].generation
  BY <1>2 DEF EndsOnce
<1>5. ASSUME NEW i \in 1 .. Len(updates'), NEW j \in 1 .. Len(updates'),
             updates'[i].generation = updates'[j].generation
      PROVE  i = j
  <2>1. i + 1 = j + 1
    BY <1>2, <1>5 DEF EndsOnce
  <2>2. QED
    BY <2>1
<1>6. QED
  BY <1>2, <1>3, <1>4, <1>5

LEMMA StepPreservesEnds == TypeOK /\ EndsOnce /\ [Next]_vars => EndsOnce'
<1> SUFFICES ASSUME TypeOK, EndsOnce, [Next]_vars PROVE EndsOnce'
  OBVIOUS
<1>1. /\ generation \in Nat /\ generation' \in Nat
      /\ generation' >= generation
      /\ Generation \subseteq Nat /\ 0 \notin Generation
  BY GenerationGrows, BoundAssumption DEF Generation
<1>2. ASSUME UNCHANGED <<task, updates, asker, reported>> PROVE EndsOnce'
  <2>1. \A g \in Generation : task[g] # None => g <= generation'
    BY <1>1 DEF EndsOnce
  <2>2. QED
    BY <1>1, <1>2, <2>1, NoneEnds
<1>3. ASSUME NEW g \in Generation, StartUpload(g) PROVE EndsOnce'
  <2>1. /\ UNCHANGED <<generation, updates, asker, reported>>
        /\ task[g].step = "preparing" /\ task[g] # None
        /\ \A h \in Generation : h # g => task'[h] = task[h]
    BY <1>3 DEF StartUpload, historyVars, Live, TypeOK
  <2>2. \A h \in Generation : Ended(h) => task'[h] = task[h]
    BY <2>1 DEF Ended
  <2>3. \A h \in Generation : task'[h] # None => h <= generation'
    BY <2>1 DEF EndsOnce
  <2>4. QED
    BY <1>1, <2>1, <2>2, <2>3, NoneEnds
<1>4. ASSUME NEW g \in Generation, NEW what \in {"sent", "failed", "pin"},
             EndSend(g, what)
      PROVE  EndsOnce'
  <2> DEFINE u == [generation |-> g, kind |-> task[g].kind, what |-> what]
  <2>1. /\ UNCHANGED <<generation, asker, reported>>
        /\ task[g] \in Tasks /\ task[g] # None
        /\ task[g].step # "over"
        /\ task'[g].step = "over"
        /\ task' \in [Generation -> Tasks \cup {None}]
        /\ \A h \in Generation : h # g => task'[h] = task[h]
    <3>1. /\ UNCHANGED <<generation, asker, reported>>
          /\ task[g] \in Tasks /\ task[g] # None
          /\ task[g].step # "over"
          /\ task' = [task EXCEPT ![g].step = "over"]
      BY <1>4 DEF EndSend, historyVars, Live, TypeOK
    <3>2. QED
      BY <3>1 DEF Tasks, TypeOK
  <2>2. task'[g] # None
    <3>1. [task[g] EXCEPT !.step = "over"] \in Tasks
      BY <2>1 DEF Tasks
    <3>2. None \notin Tasks
      BY ValueAssumption
    <3>3. QED
      BY <1>4, <3>1, <3>2 DEF EndSend, TypeOK
  <2>3. /\ Len(updates) \in Nat
        /\ Len(updates') = Len(updates) + 1
        /\ \A i \in 1 .. Len(updates) : updates'[i] = updates[i]
        /\ updates'[Len(updates) + 1] = u
    <3>1. u \in Updates
      BY <2>1 DEF Updates, Tasks
    <3>2. updates \in Seq(Updates) /\ updates' = Append(updates, u)
      BY <1>4 DEF EndSend, TypeOK
    <3> HIDE DEF u
    <3>3. QED
      BY <3>1, <3>2, AppendProperties, LenProperties
  <2>4. ~Ended(g)
    BY <2>1 DEF Ended
  <2>5. g # asker /\ g \notin reported
    BY <1>1, <1>4, <2>4 DEF EndsOnce
  <2>6. \A i \in 1 .. Len(updates') :
          \/ i \in 1 .. Len(updates) /\ updates'[i].generation # g
          \/ i = Len(updates) + 1 /\ updates'[i].generation = g
    BY <2>3, <2>4 DEF EndsOnce
  <2>7. ASSUME NEW i \in 1 .. Len(updates')
        PROVE  /\ Ended(updates[i].generation)'
               /\ updates'[i].generation \notin reported
               /\ updates'[i].generation # asker
    <3>1. CASE i \in 1 .. Len(updates)
      <4>1. /\ updates'[i] = updates[i]
            /\ Ended(updates[i].generation)
            /\ updates[i].generation \notin reported
            /\ updates[i].generation # asker
        BY <2>3, <3>1 DEF EndsOnce
      <4>2. QED
        BY <1>4, <2>1, <2>2, <4>1 DEF Ended
    <3>2. CASE updates'[i].generation = g
      BY <1>4, <2>1, <2>2, <2>5, <3>2 DEF Ended
    <3>3. QED
      BY <2>6, <3>1, <3>2
  <2>8. \A i, j \in 1 .. Len(updates') :
          updates'[i].generation = updates'[j].generation => i = j
    BY <2>3, <2>6 DEF EndsOnce
  <2>9. \A h \in Generation : task'[h] # None => h <= generation'
    BY <2>1 DEF EndsOnce
  <2>10. /\ \A h \in reported' : Ended(h)'
         /\ asker' # 0 => Ended(asker)'
         /\ asker' \notin reported'
    BY <1>4, <2>1, <2>2 DEF EndsOnce, Ended
  <2>11. QED
    BY <2>1, <2>7, <2>8, <2>9, <2>10 DEF EndsOnce
<1>5. ASSUME DropUpdate PROVE EndsOnce'
  <2>1. TakesUpdate /\ UNCHANGED <<generation, task, asker, reported>>
    BY <1>5 DEF DropUpdate, historyVars
  <2>2. QED
    BY <2>1, TakenOnce DEF EndsOnce, Ended
<1>6. ASSUME TakeFinished PROVE EndsOnce'
  <2>1. /\ TakesUpdate /\ UNCHANGED <<generation, task, asker>>
        /\ reported' = reported \cup {Head(updates).generation}
    BY <1>6 DEF TakeFinished
  <2>2. \A g : Ended(g) <=> Ended(g)'
    BY <2>1 DEF Ended
  <2>3. QED
    BY <2>1, <2>2, TakenOnce DEF EndsOnce
<1>7. ASSUME TakeNeedsPin PROVE EndsOnce'
  <2>1. /\ TakesUpdate /\ UNCHANGED <<generation, task, reported>>
        /\ asker' = Head(updates).generation
    BY <1>7 DEF TakeNeedsPin
  <2>2. \A g : Ended(g) <=> Ended(g)'
    BY <2>1 DEF Ended
  <2>3. QED
    BY <2>1, <2>2, TakenOnce DEF EndsOnce
<1>8. ASSUME NEW k \in Kind, Send(k) PROVE EndsOnce'
  <2>1. /\ CanSpawn(k) /\ Spawn(k, 0) /\ 0 \in 0 .. MaxGeneration
        /\ UNCHANGED <<updates, asker, reported>>
    BY <1>8, BoundAssumption DEF Send, historyVars
  <2>2. QED
    BY <2>1, SpawnEndsNone
<1>9. ASSUME SubmitPin PROVE EndsOnce'
  <2>1. UNCHANGED <<updates, asker, reported>>
    BY <1>9 DEF SubmitPin, historyVars
  <2>2. CASE pendingPin # None /\ CanSpawn(pendingPin)
    <3>1. /\ Spawn(pendingPin, asker) /\ pendingPin \in Kind
          /\ asker \in 0 .. MaxGeneration
      BY <1>9, <2>2 DEF SubmitPin, TypeOK
    <3>2. QED
      BY <2>1, <2>2, <3>1, SpawnEndsNone
  <2>3. CASE ~(pendingPin # None /\ CanSpawn(pendingPin))
    BY <1>2, <1>9, <2>1, <2>3 DEF SubmitPin
  <2>4. QED
    BY <2>2, <2>3
<1>10. ASSUME \/ \E r \in Request : Offer(r)
              \/ PollServerEvents \/ UpdatesDrained \/ NoKey
              \/ Quit \/ (\E k \in Kind : SwitchTab(k))
              \/ \E k \in Kind :
                   \/ \E d \in Device : SelectDevice(k, d)
                   \/ \E t \in Text \cup {Empty} : Type(k, t)
                   \/ Leave(k)
              \/ \E decision \in {"accepted", "declined"} : Decide(decision)
              \/ SubmitNothing \/ CancelPin \/ MaybeOpenPinPrompt
              \/ UNCHANGED vars
       PROVE  EndsOnce'
  <2>1. UNCHANGED <<task, updates, asker, reported>>
    BY <1>10 DEF Offer, PollServerEvents, ShowRequest, EventsDrained,
                 UpdatesDrained, NoKey, Quit, SwitchTab, SelectDevice, Type,
                 Leave, Decide, SubmitNothing, CancelPin, MaybeOpenPinPrompt,
                 vars, taskVars, historyVars
  <2>2. QED
    BY <1>2, <2>1
<1>11. QED
  BY <1>3, <1>4, <1>5, <1>6, <1>7, <1>8, <1>9, <1>10
     DEF Next, Loop, PollSendUpdates, HandleKey, HandlePopupKey, SendTask

-----------------------------------------------------------------------------

LEMMA TuiInvariant == Spec => []TuiInv
<1>1. TuiInv /\ [Next]_vars => TuiInv'
  BY StepPreservesTypes, StepPreservesRequests, StepPreservesCancelled,
     StepPreservesEnds DEF TuiInv
<1>2. QED
  BY <1>1, InitTui, PTL DEF Spec

(* Type correctness of the interface: in particular nothing is sent        *)
(* without a device and a message or path.                                 *)
THEOREM TypeCorrect == Spec => []TypeOK
BY TuiInvariant, PTL DEF TuiInv

(* However offers, keys, prompts and the ends of sends are interleaved, a  *)
(* request that was shown stays on screen until the user decides it.       *)
THEOREM RequestsStayOnScreen == Spec => []RequestsAreKept
<1>1. TuiInv => RequestsAreKept
  BY DEF TuiInv, RequestInv
<1>2. QED
  BY <1>1, TuiInvariant, PTL

(* The end of a send the user has left is never shown, whatever was        *)
(* started since.                                                          *)
THEOREM LeftSendsAreSilent == Spec => []CancelledIsSilent
BY TuiInvariant, PTL DEF TuiInv

(* What the server is told about a transfer is told once: a decision, or   *)
(* the refusal of a second transfer next to the one on screen, is never    *)
(* followed by another answer to the same request.                         *)
DecisionsStand ==
  [][\A r \in Request :
       answer[r] \in {"accepted", "declined"} => answer'[r] = answer[r]]_vars

(* No interleaving of keys, events and prompts answers a request twice     *)
(* (handle_popup_key, poll_server_events).                                 *)
THEOREM DecidedOnce == Spec => DecisionsStand
<1>1. ASSUME TuiInv, [Next]_vars, NEW r \in Request,
             answer[r] \in {"accepted", "declined"}
      PROVE  answer'[r] = answer[r]
  <2>1. /\ TypeOK /\ QueuedOnce /\ OnScreenIsShown
        /\ answer \in [Request -> {"unseen", "queued", "shown", "accepted",
                                  "declined", "dropped"}]
    BY <1>1 DEF TuiInv, RequestInv, TypeOK
  <2>2. CASE UNCHANGED answer
    BY <2>2
  <2>3. ASSUME NEW o \in Request, Offer(o) PROVE answer'[r] = answer[r]
    BY <1>1, <2>1, <2>3 DEF Offer
  <2>4. ASSUME ShowRequest PROVE answer'[r] = answer[r]
    <3>1. /\ Head(events) \in Request
          /\ answer[Head(events)] = "queued"
      BY <2>1, <2>4, TakesHead DEF ShowRequest, TypeOK, QueuedOnce
    <3>2. r # Head(events)
      BY <1>1, <3>1
    <3>3. QED
      BY <2>1, <2>4, <3>1, <3>2 DEF ShowRequest
  <2>5. ASSUME NEW decision \in {"accepted", "declined"}, Decide(decision)
        PROVE  answer'[r] = answer[r]
    BY <1>1, <2>1, <2>5 DEF Decide, OnScreenIsShown
  <2>6. CASE HandleKey
    BY <2>2, <2>6 DEF HandleKey, Quit, SwitchTab, SelectDevice, Type, Send,
                      Leave, requestVars
  <2>7. CASE \/ EventsDrained \/ PollSendUpdates \/ NoKey \/ SubmitPin
             \/ SubmitNothing \/ CancelPin \/ MaybeOpenPinPrompt
             \/ UNCHANGED vars
    BY <2>2, <2>7 DEF EventsDrained, PollSendUpdates, DropUpdate,
         TakeFinished, TakeNeedsPin, UpdatesDrained, NoKey, SubmitPin,
         SubmitNothing, CancelPin, MaybeOpenPinPrompt, vars, requestVars
  <2>8. CASE \E g \in Generation : SendTask(g)
    BY <2>2, <2>8 DEF SendTask, StartUpload, EndSend, requestVars
  <2>9. QED
    BY <1>1, <2>3, <2>4, <2>5, <2>6, <2>7, <2>8
       DEF Next, Loop, PollServerEvents, HandlePopupKey
<1>2. TuiInv /\ [Next]_vars =>
        \A r \in Request :
          answer[r] \in {"accepted", "declined"} => answer'[r] = answer[r]
  BY <1>1
<1>3. QED
  BY <1>2, TuiInvariant, PTL DEF Spec, DecisionsStand

(* The end of a send is acted on once: it is shown, or asks for a PIN, and *)
(* no send is shown to have ended twice, or after it asked for a PIN.      *)
EndIsShownOnce ==
  [][TakeFinished \/ TakeNeedsPin =>
       Head(updates).generation \notin reported \cup {asker}]_vars

(* A send has one end in the back-channel, and the loop acts on it once    *)
(* (poll_send_updates).                                                    *)
THEOREM EndsAreShownOnce == Spec => EndIsShownOnce
<1>1. ASSUME TuiInv, TakeFinished \/ TakeNeedsPin
      PROVE  Head(updates).generation \notin reported \cup {asker}
  <2>1. TypeOK /\ EndsOnce /\ TakesUpdate
    BY <1>1 DEF TuiInv, TakeFinished, TakeNeedsPin
  <2>2. QED
    BY <2>1, TakenOnce
<1>2. TuiInv /\ [Next]_vars =>
        (TakeFinished \/ TakeNeedsPin =>
           Head(updates).generation \notin reported \cup {asker})
  BY <1>1
<1>3. QED
  BY <1>2, TuiInvariant, PTL DEF Spec, EndIsShownOnce
=============================================================================
