------------------------------- MODULE TuiApp -------------------------------
(***************************************************************************)
(* The loop of the terminal interface: one thread that in each round       *)
(* drains the server's events, drains the updates of the sends it spawned, *)
(* handles at most one key, and then opens the PIN prompt if a send wants  *)
(* one and nothing else is on screen.  Sends are tasks of their own; each  *)
(* carries the generation it was started in, and updates of any other      *)
(* generation are dropped.                                                 *)
(*                                                                         *)
(* Drawing, the gauge, the lists of devices and received files, the tabs   *)
(* that show them and the wording of the status line are left out.  The    *)
(* client's calls are modelled by their outcomes.                          *)
(*                                                                         *)
(* asker, cancelled and reported are not in the code: the send whose 401   *)
(* the prompt is for, the sends the user left, and those whose end was     *)
(* shown.                                                                  *)
(***************************************************************************)
EXTENDS Naturals, Sequences

CONSTANTS
  Request,        (* incoming transfers that need the host's decision *)
  Device,         (* devices a send can be addressed to               *)
  Text,           (* what can be typed: a message or a path           *)
  Empty,          (* nothing typed                                    *)
  MaxGeneration,  (* bound on send_generation                         *)
  None, Pin       (* no dialog, device or send; the PIN prompt        *)

Kind == {"text", "file"}

Generation == 1 .. MaxGeneration

Tasks == [kind : Kind, to : Device, what : Text, pinFor : 0 .. MaxGeneration,
          step : {"preparing", "uploading", "over"}]

ASSUME BoundAssumption == MaxGeneration \in Nat

ASSUME ValueAssumption ==
  /\ None \notin Request \cup Device \cup Kind \cup Tasks \cup {Pin}
  /\ Pin \notin Request
  /\ Empty \notin Text

VARIABLES
  turn,       (* what the loop does next                            *)
  events,     (* TransferRequests in the server's event channel     *)
  popup,      (* the dialog on screen                               *)
  answer,     (* what became of an incoming request                 *)
  screen,     (* the send screen in front                           *)
  stage, target, input, sending,  (* the two send screens           *)
  pendingPin, (* pending_pin_kind                                   *)
  generation, (* send_generation                                    *)
  task,       (* the send task of a generation, or None             *)
  updates,    (* the back-channel from the tasks                    *)
  asker, cancelled, reported

screenVars == <<screen, stage, target, input>>
requestVars == <<events, popup, answer>>
taskVars == <<generation, task, updates>>
historyVars == <<asker, cancelled, reported>>

vars == <<turn, requestVars, screenVars, sending, pendingPin, taskVars,
          historyVars>>

Init ==
  /\ turn = "events"
  /\ events = <<>>
  /\ popup = None
  /\ answer = [r \in Request |-> "unseen"]
  /\ screen = "text"
  /\ stage = [k \in Kind |-> "select"]
  /\ target = [k \in Kind |-> None]
  /\ input = [k \in Kind |-> Empty]
  /\ sending = [k \in Kind |-> FALSE]
  /\ pendingPin = None
  /\ generation = 0
  /\ task = [g \in Generation |-> None]
  /\ updates = <<>>
  /\ asker = 0
  /\ cancelled = {}
  /\ reported = {}

-----------------------------------------------------------------------------
(* What goes on around the loop, for as long as it runs: the process ends  *)
(* with it.                                                                *)

(* The server asks its host about an incoming transfer. *)
Offer(r) ==
  /\ turn # "over"
  /\ answer[r] = "unseen"
  /\ answer' = [answer EXCEPT ![r] = "queued"]
  /\ events' = Append(events, r)
  /\ UNCHANGED <<turn, popup, screenVars, sending, pendingPin, taskVars,
                 historyVars>>

Live(g) == task[g] # None /\ task[g].step # "over"

(* prepare_upload gave the send a token: it uploads. *)
StartUpload(g) ==
  /\ turn # "over"
  /\ Live(g)
  /\ task[g].step = "preparing"
  /\ task' = [task EXCEPT ![g].step = "uploading"]
  /\ UNCHANGED <<turn, requestVars, screenVars, sending, pendingPin,
                 generation, updates, historyVars>>

(* send_update_from_result: a send ends well (a text at prepare-upload     *)
(* already), with a reason, or with the receiver's 401.                    *)
EndSend(g, what) ==
  /\ turn # "over"
  /\ Live(g)
  /\ what = "pin" => task[g].step = "preparing"
  /\ what = "sent" => task[g].step = "uploading" \/ task[g].kind = "text"
  /\ task' = [task EXCEPT ![g].step = "over"]
  /\ updates' = Append(updates, [generation |-> g, kind |-> task[g].kind,
                                 what |-> what])
  /\ UNCHANGED <<turn, requestVars, screenVars, sending, pendingPin,
                 generation, historyVars>>

-----------------------------------------------------------------------------
(* poll_server_events *)

(* Another dialog takes the place of the one on screen; a request that was *)
(* shown there is dropped, which the server takes for a refusal.           *)
Show(dialog) ==
  /\ popup' = dialog
  /\ answer' = IF popup \in Request
               THEN [answer EXCEPT ![popup] = "dropped"]
               ELSE answer

(* A request takes the screen from nothing or from the PIN prompt; next to *)
(* another request it is declined.                                         *)
ShowRequest ==
  /\ turn = "events"
  /\ events # <<>>
  /\ events' = Tail(events)
  /\ IF popup \in {None, Pin}
     THEN /\ popup' = Head(events)
          /\ answer' = [answer EXCEPT ![Head(events)] = "shown"]
     ELSE /\ answer' = [answer EXCEPT ![Head(events)] = "declined"]
          /\ UNCHANGED popup
  /\ UNCHANGED <<turn, screenVars, sending, pendingPin, taskVars,
                 historyVars>>

EventsDrained ==
  /\ turn = "events"
  /\ events = <<>>
  /\ turn' = "updates"
  /\ UNCHANGED <<requestVars, screenVars, sending, pendingPin, taskVars,
                 historyVars>>

-----------------------------------------------------------------------------
(* poll_send_updates *)

(* clear() of a send screen. *)
Clear(k) ==
  /\ stage' = [stage EXCEPT ![k] = "select"]
  /\ target' = [target EXCEPT ![k] = None]
  /\ input' = [input EXCEPT ![k] = Empty]
  /\ sending' = [sending EXCEPT ![k] = FALSE]

TakesUpdate ==
  /\ turn = "updates"
  /\ updates # <<>>
  /\ updates' = Tail(updates)

IsCurrent(u) == u.generation = generation

(* An update of a send that was cancelled or superseded. *)
DropUpdate ==
  /\ TakesUpdate
  /\ ~IsCurrent(Head(updates))
  /\ UNCHANGED <<turn, requestVars, screenVars, sending, pendingPin,
                 generation, task, historyVars>>

(* Mutant: under a dialog the end of a send is passed over. *)
TakeFinishedUnlessBusy ==
  LET u == Head(updates)
  IN  /\ TakesUpdate
      /\ IsCurrent(u)
      /\ u.what # "pin"
      /\ IF popup = None
         THEN /\ Clear(u.kind)
              /\ reported' = reported \cup {u.generation}
         ELSE UNCHANGED <<stage, target, input, sending, reported>>
      /\ UNCHANGED <<turn, requestVars, screen, pendingPin, generation, task,
                     asker, cancelled>>

(* The send is over: its screen is cleared and its result shown. *)
TakeFinished ==
  LET u == Head(updates)
  IN  /\ TakesUpdate
      /\ IsCurrent(u)
      /\ u.what # "pin"
      /\ Clear(u.kind)
      /\ reported' = reported \cup {u.generation}
      /\ UNCHANGED <<turn, requestVars, screen, pendingPin, generation, task,
                     asker, cancelled>>

(* Mutant: the prompt opens at once. *)
TakeNeedsPinAtOnce ==
  LET u == Head(updates)
  IN  /\ TakesUpdate
      /\ IsCurrent(u)
      /\ u.what = "pin"
      /\ sending' = [sending EXCEPT ![u.kind] = FALSE]
      /\ pendingPin' = u.kind
      /\ asker' = u.generation
      /\ Show(Pin)
      /\ UNCHANGED <<turn, events, screenVars, generation, task, cancelled,
                     reported>>

(* The receiver wants a PIN: the prompt waits until the screen is free. *)
TakeNeedsPin ==
  LET u == Head(updates)
  IN  /\ TakesUpdate
      /\ IsCurrent(u)
      /\ u.what = "pin"
      /\ sending' = [sending EXCEPT ![u.kind] = FALSE]
      /\ pendingPin' = u.kind
      /\ asker' = u.generation
      /\ UNCHANGED <<turn, requestVars, screenVars, generation, task,
                     cancelled, reported>>

UpdatesDrained ==
  /\ turn = "updates"
  /\ updates = <<>>
  /\ turn' = "key"
  /\ UNCHANGED <<requestVars, screenVars, sending, pendingPin, taskVars,
                 historyVars>>

-----------------------------------------------------------------------------
(* handle_key, with no dialog on screen. *)

Key == turn = "key" /\ turn' = "prompt"

ScreenKey(k) == Key /\ popup = None /\ screen = k

NoKey ==
  /\ Key
  /\ UNCHANGED <<requestVars, screenVars, sending, pendingPin, taskVars,
                 historyVars>>

(* 'q', whatever the screen is used for: the loop ends. *)
Quit ==
  /\ turn = "key"
  /\ popup = None
  /\ turn' = "over"
  /\ UNCHANGED <<requestVars, screenVars, sending, pendingPin, taskVars,
                 historyVars>>

(* The tabs can be changed while a device is being chosen. *)
SwitchTab(k) ==
  /\ Key
  /\ popup = None
  /\ stage[screen] = "select"
  /\ screen' = k
  /\ UNCHANGED <<requestVars, stage, target, input, sending, pendingPin,
                 taskVars, historyVars>>

SelectDevice(k, d) ==
  /\ ScreenKey(k)
  /\ stage[k] = "select"
  /\ target' = [target EXCEPT ![k] = d]
  /\ stage' = [stage EXCEPT ![k] = "enter"]
  /\ UNCHANGED <<requestVars, screen, input, sending, pendingPin, taskVars,
                 historyVars>>

(* A path is not changed under a send; a message is. *)
Type(k, t) ==
  /\ ScreenKey(k)
  /\ stage[k] = "enter"
  /\ k = "file" => ~sending[k]
  /\ input' = [input EXCEPT ![k] = t]
  /\ UNCHANGED <<requestVars, screen, stage, target, sending, pendingPin,
                 taskVars, historyVars>>

(* A send of what the screen holds, on behalf of the one that asked for a  *)
(* PIN or of nobody.                                                       *)
Spawn(k, pinFor) ==
  /\ generation < MaxGeneration
  /\ generation' = generation + 1
  /\ task' = [task EXCEPT ![generation + 1] =
                [kind |-> k, to |-> target[k], what |-> input[k],
                 pinFor |-> pinFor, step |-> "preparing"]]
  /\ sending' = [sending EXCEPT ![k] = TRUE]

CanSpawn(k) == target[k] # None /\ input[k] # Empty

Send(k) ==
  /\ ScreenKey(k)
  /\ stage[k] = "enter"
  /\ ~sending[k]
  /\ CanSpawn(k)
  /\ Spawn(k, 0)
  /\ UNCHANGED <<requestVars, screenVars, pendingPin, updates, historyVars>>

(* Whatever is under way, and was not yet shown to be over, is superseded. *)
Supersede ==
  /\ generation < MaxGeneration
  /\ generation' = generation + 1
  /\ cancelled' = cancelled \cup ({generation} \ reported)

(* Mutant: leaving the screen leaves the generation as it is. *)
LeaveQuietly(k) ==
  /\ ScreenKey(k)
  /\ stage[k] = "enter"
  /\ cancelled' = IF sending[k] THEN cancelled \cup ({generation} \ reported)
                                ELSE cancelled
  /\ IF k = "file"
     THEN Clear(k)
     ELSE /\ stage' = [stage EXCEPT ![k] = "select"]
          /\ sending' = [sending EXCEPT ![k] = FALSE]
          /\ UNCHANGED <<target, input>>
  /\ UNCHANGED <<requestVars, screen, pendingPin, taskVars, asker, reported>>

(* Esc leaves the screen and gives up a send that is under way.  A message *)
(* and its device stay on the screen; a path does not.                     *)
Leave(k) ==
  /\ ScreenKey(k)
  /\ stage[k] = "enter"
  /\ IF sending[k] THEN Supersede ELSE UNCHANGED <<generation, cancelled>>
  /\ IF k = "file"
     THEN Clear(k)
     ELSE /\ stage' = [stage EXCEPT ![k] = "select"]
          /\ sending' = [sending EXCEPT ![k] = FALSE]
          /\ UNCHANGED <<target, input>>
  /\ UNCHANGED <<requestVars, screen, pendingPin, task, updates, asker,
                 reported>>

-----------------------------------------------------------------------------
(* handle_popup_key *)

(* Mutant: closing the dialog forgets who waits for a PIN. *)
DecideAndForget(decision) ==
  /\ Key
  /\ popup \in Request
  /\ answer' = [answer EXCEPT ![popup] = decision]
  /\ popup' = None
  /\ pendingPin' = None
  /\ UNCHANGED <<events, screenVars, sending, taskVars, historyVars>>

Decide(decision) ==
  /\ Key
  /\ popup \in Request
  /\ answer' = [answer EXCEPT ![popup] = decision]
  /\ popup' = None
  /\ UNCHANGED <<events, screenVars, sending, pendingPin, taskVars,
                 historyVars>>

(* Mutant: the screen is not looked at again before the retry. *)
SubmitPinUnchecked ==
  /\ Key
  /\ popup = Pin
  /\ popup' = None
  /\ pendingPin' = None
  /\ IF pendingPin # None
     THEN Spawn(pendingPin, asker)
     ELSE UNCHANGED <<generation, task, sending>>
  /\ UNCHANGED <<events, answer, screenVars, updates, historyVars>>

(* retry_pending_send_with_pin, which starts over from what the screen     *)
(* holds now.                                                              *)
SubmitPin ==
  /\ Key
  /\ popup = Pin
  /\ popup' = None
  /\ pendingPin' = None
  /\ IF pendingPin # None /\ CanSpawn(pendingPin)
     THEN Spawn(pendingPin, asker)
     ELSE UNCHANGED <<generation, task, sending>>
  /\ UNCHANGED <<events, answer, screenVars, updates, historyVars>>

(* An empty PIN: the send is over. *)
SubmitNothing ==
  /\ Key
  /\ popup = Pin
  /\ popup' = None
  /\ pendingPin' = None
  /\ UNCHANGED <<events, answer, screenVars, sending, taskVars, historyVars>>

CancelPin ==
  /\ Key
  /\ popup = Pin
  /\ popup' = None
  /\ pendingPin' = None
  /\ Supersede
  /\ UNCHANGED <<events, answer, screenVars, sending, task, updates, asker,
                 reported>>

-----------------------------------------------------------------------------

(* maybe_open_pin_prompt *)
MaybeOpenPinPrompt ==
  /\ turn = "prompt"
  /\ turn' = "events"
  /\ popup' = IF pendingPin # None /\ popup = None THEN Pin ELSE popup
  /\ UNCHANGED <<events, answer, screenVars, sending, pendingPin, taskVars,
                 historyVars>>

-----------------------------------------------------------------------------

PollServerEvents == ShowRequest \/ EventsDrained

PollSendUpdates ==
  DropUpdate \/ TakeFinished \/ TakeNeedsPin \/ UpdatesDrained

HandleKey ==
  \/ Quit
  \/ \E k \in Kind : SwitchTab(k)
  \/ \E k \in Kind :
       \/ \E d \in Device : SelectDevice(k, d)
       \/ \E t \in Text \cup {Empty} : Type(k, t)
       \/ Send(k)
       \/ Leave(k)

HandlePopupKey ==
  \/ \E decision \in {"accepted", "declined"} : Decide(decision)
  \/ SubmitPin
  \/ SubmitNothing
  \/ CancelPin

Loop ==
  \/ PollServerEvents
  \/ PollSendUpdates
  \/ NoKey
  \/ HandleKey
  \/ HandlePopupKey
  \/ MaybeOpenPinPrompt

SendTask(g) ==
  \/ StartUpload(g)
  \/ \E what \in {"sent", "failed", "pin"} : EndSend(g, what)

Next ==
  \/ Loop
  \/ \E r \in Request : Offer(r)
  \/ \E g \in Generation : SendTask(g)

Spec == Init /\ [][Next]_vars

-----------------------------------------------------------------------------

Updates == [generation : Generation, kind : Kind,
            what : {"sent", "failed", "pin"}]

(* The variables range over what the code can store in them. *)
TypeOK ==
  /\ turn \in {"events", "updates", "key", "prompt", "over"}
  /\ events \in Seq(Request)
  /\ popup \in Request \cup {None, Pin}
  /\ answer \in [Request -> {"unseen", "queued", "shown", "accepted",
                             "declined", "dropped"}]
  /\ screen \in Kind
  /\ stage \in [Kind -> {"select", "enter"}]
  /\ target \in [Kind -> Device \cup {None}]
  /\ input \in [Kind -> Text \cup {Empty}]
  /\ sending \in [Kind -> BOOLEAN]
  /\ pendingPin \in Kind \cup {None}
  /\ generation \in 0 .. MaxGeneration
  /\ task \in [Generation -> Tasks \cup {None}]
  /\ updates \in Seq(Updates)
  /\ asker \in 0 .. MaxGeneration
  /\ cancelled \subseteq 0 .. MaxGeneration
  /\ reported \subseteq Generation

(* A request that was shown stays on screen until the user has decided it: *)
(* no other request and no PIN prompt takes its place, which would decline *)
(* a transfer nobody has declined.                                         *)
RequestsAreKept ==
  \A r \in Request :
    /\ answer[r] # "dropped"
    /\ answer[r] = "shown" => popup = r

(* The end of a send the user has left is not shown, not even when another *)
(* send of the same kind is under way.                                     *)
CancelledIsSilent == cancelled \cap reported = {}

(* What a send asked a PIN for is what is sent with it.                    *)
RetriesTheSameSend ==
  \A g \in Generation :
    task[g] # None /\ task[g].pinFor # 0 =>
      LET first == task[task[g].pinFor]
      IN  <<task[g].kind, task[g].to, task[g].what>> =
            <<first.kind, first.to, first.what>>

-----------------------------------------------------------------------------

(* The loop goes round, a user decides about the transfer on screen, and   *)
(* nobody leaves.  Sends need not end: an upload has no timeout.           *)
Fairness ==
  /\ WF_vars(PollServerEvents)
  /\ WF_vars(PollSendUpdates)
  /\ WF_vars(NoKey)
  /\ WF_vars(MaybeOpenPinPrompt)
  /\ SF_vars(\E decision \in {"accepted", "declined"} : Decide(decision))

FairSpec == Spec /\ Fairness

(* A send that waits for a PIN gets its prompt, behind whatever transfers  *)
(* the user is asked about first.                                          *)
PromptAppears == pendingPin # None ~> popup = Pin \/ turn = "over"

(* A send that ends and was not left is shown to have ended, or goes on    *)
(* with a PIN, or is superseded.                                           *)
SendIsReported ==
  \A g \in Generation :
    task[g] # None /\ ~Live(g) ~>
      \/ g \in reported
      \/ asker = g
      \/ generation # g
      \/ turn = "over"
=============================================================================
