------------------------------ MODULE WebShare ------------------------------
(***************************************************************************)
(* The reverse mode of the server: a host shares files, browsers ask for   *)
(* the list and wait for the host's approval, and download files one by    *)
(* one while the host may replace or stop the share.                       *)
(*                                                                         *)
(* Each prepare-download and each download is a handler of its own.  A     *)
(* session lives in the map of the share it was made in and goes with it;  *)
(* with a session goes the sender of the one-shot channel its handler is   *)
(* listening to.  The PIN gate is modelled in PinGate; here it lets a      *)
(* request pass or does not.                                               *)
(*                                                                         *)
(* The wait for the host is a timeout around the channel's receiver.  Its  *)
(* last look at the channel, the timer, and the end of the receiver come   *)
(* one after another, and the host may answer between any two of them.     *)
(*                                                                         *)
(* granted, late, listed and hungUp are not in the code: the requests the  *)
(* host was told it approved, those of them it approved after the last     *)
(* look, the shares whose list a browser was shown, and the requests whose *)
(* handler was dropped with its connection.                                *)
(***************************************************************************)
EXTENDS Naturals, FiniteSets

CONSTANTS
  Share,       (* the shares a host starts; each start makes a new one      *)
  Ask,         (* prepare-download requests that make a session             *)
  Download,    (* download requests                                         *)
  File,        (* file ids                                                  *)
  Files,       (* the files of a share                                      *)
  AutoAccept,  (* the shares that approve without asking                    *)
  None         (* no share, no session, no file                             *)

ASSUME ShareAssumption ==
  /\ Files \in [Share -> SUBSET File]
  /\ \A s \in Share : Files[s] # {} /\ IsFiniteSet(Files[s])
  /\ AutoAccept \subseteq Share

ASSUME NoneAssumption == None \notin Share \cup Ask \cup File

VARIABLES
  share,      (* the running share, or None                                 *)
  used,       (* the shares started so far                                  *)
  download,   (* the device's download flag                                 *)
  call,       (* the host is between the two locks of starting or stopping  *)
  sessions,   (* the sessions of the running share                          *)
  pending,    (* those of them with a response sender                       *)
  approved,   (* those of them that are approved                            *)
  known,      (* the requests whose WebShareRequest is in the event channel *)
  step,       (* where the handler of a prepare-download is                 *)
  made,       (* the share its session was made in                          *)
  answer,     (* what its one-shot channel holds                            *)
  at,         (* where a download is                                        *)
  of,         (* the session it is for                                      *)
  file,       (* the file it reads                                          *)
  source,     (* the share it took the file from                            *)
  got,        (* downloaded_files of a session                              *)
  done,       (* WebShareSessionDone events sent for a session              *)
  granted, late, listed, hungUp

hostVars == <<share, used, download, call>>
sessionVars == <<sessions, pending, approved, known>>
askVars == <<step, made, answer>>
downloadVars == <<at, of, file, source, got, done>>
historyVars == <<granted, late, listed, hungUp>>

vars == <<hostVars, sessionVars, askVars, downloadVars, historyVars>>

Init ==
  /\ share = None
  /\ used = {}
  /\ download = FALSE
  /\ call = FALSE
  /\ sessions = {}
  /\ pending = {}
  /\ approved = {}
  /\ known = {}
  /\ step = [a \in Ask |-> "new"]
  /\ made = [a \in Ask |-> None]
  /\ answer = [a \in Ask |-> "empty"]
  /\ at = [d \in Download |-> "idle"]
  /\ of = [d \in Download |-> None]
  /\ file = [d \in Download |-> None]
  /\ source = [d \in Download |-> None]
  /\ got = [a \in Ask |-> {}]
  /\ done = [a \in Ask |-> 0]
  /\ granted = {}
  /\ late = {}
  /\ listed = [a \in Ask |-> {}]
  /\ hungUp = {}

-----------------------------------------------------------------------------
(* The host. *)

(* The share's state is dropped, and with it every response sender. *)
DropSessions ==
  /\ sessions' = {}
  /\ pending' = {}
  /\ approved' = {}
  /\ answer' = [a \in Ask |-> IF a \in pending THEN "closed" ELSE answer[a]]

(* Mutant: a new share takes over the sessions of the old one. *)
StartShareKeepingSessions(s) ==
  /\ ~call
  /\ s \notin used
  /\ share' = s
  /\ used' = used \cup {s}
  /\ call' = TRUE
  /\ UNCHANGED <<download, sessionVars, askVars, downloadVars, historyVars>>

(* start_web_share, over a running share too. *)
StartShare(s) ==
  /\ ~call
  /\ s \notin used
  /\ share' = s
  /\ used' = used \cup {s}
  /\ call' = TRUE
  /\ DropSessions
  /\ UNCHANGED <<download, known, step, made, downloadVars, historyVars>>

StopShare ==
  /\ ~call
  /\ share' = None
  /\ call' = TRUE
  /\ DropSessions
  /\ UNCHANGED <<used, download, known, step, made, downloadVars,
                 historyVars>>

(* The second lock of either: the announced device says whether it shares. *)
MarkDevice ==
  /\ call
  /\ call' = FALSE
  /\ download' = (share # None)
  /\ UNCHANGED <<share, used, sessionVars, askVars, downloadVars,
                 historyVars>>

(* The receiver of its channel is still there, listened to or not.         *)
HasReceiver(a) == step[a] \in {"asked", "expired"}

(* respond_web_share: the sender is taken, once; a handler that has left   *)
(* or dropped its receiver makes it an error.                              *)
Respond(a, yes) ==
  /\ ~call
  /\ a \in known
  /\ a \in pending
  /\ pending' = pending \ {a}
  /\ IF HasReceiver(a)
     THEN answer' = [answer EXCEPT ![a] = IF yes THEN "yes" ELSE "no"]
     ELSE UNCHANGED answer
  /\ granted' = granted \cup {q \in {a} : yes /\ HasReceiver(a)}
  /\ late' = late \cup {q \in {a} : yes /\ step[a] = "expired"}
  /\ UNCHANGED <<hostVars, sessions, approved, known, step, made,
                 downloadVars, listed, hungUp>>

-----------------------------------------------------------------------------
(* prepare-download. *)

Advances(a, from, to) ==
  /\ step[a] = from
  /\ step' = [step EXCEPT ![a] = to]

(* prepare_response: the files of whatever share is running. *)
List(a) == listed' = [listed EXCEPT ![a] = @ \cup {share}]

(* 403 without a share, 401 or 429 from its PIN gate. *)
TurnAway(a) ==
  /\ Advances(a, "new", "over")
  /\ UNCHANGED <<hostVars, sessionVars, made, answer, downloadVars,
                 historyVars>>

(* A session is made.  A share that accepts by itself answers with the     *)
(* list at once, and tells the host if the channel has room.               *)
MakeSession(a) ==
  /\ share # None
  /\ sessions' = sessions \cup {a}
  /\ made' = [made EXCEPT ![a] = share]
  /\ IF share \in AutoAccept
     THEN /\ Advances(a, "new", "over")
          /\ approved' = approved \cup {a}
          /\ known' \in {known, known \cup {a}}
          /\ List(a)
          /\ UNCHANGED pending
     ELSE /\ Advances(a, "new", "sending")
          /\ pending' = pending \cup {a}
          /\ UNCHANGED <<approved, known, listed>>
  /\ UNCHANGED <<hostVars, answer, downloadVars, granted, late, hungUp>>

(* The request is in the event channel, or nobody reads it any more: 403,  *)
(* with the session left where it is.                                      *)
SendRequest(a) ==
  /\ \/ Advances(a, "sending", "asked") /\ known' = known \cup {a}
     \/ Advances(a, "sending", "over") /\ UNCHANGED known
  /\ UNCHANGED <<hostVars, sessions, pending, approved, made, answer,
                 downloadVars, historyVars>>

(* The channel yields an approval. *)
HearApproval(a) ==
  /\ answer[a] = "yes"
  /\ Advances(a, "asked", "accepted")
  /\ UNCHANGED <<hostVars, sessionVars, made, answer, downloadVars,
                 historyVars>>

(* It yields a refusal, or its sender is gone. *)
HearRefusal(a) ==
  /\ answer[a] \in {"no", "closed"}
  /\ Advances(a, "asked", "refused")
  /\ UNCHANGED <<hostVars, sessionVars, made, answer, downloadVars,
                 historyVars>>

(* Mutant: nothing but the end of its share ends the wait. *)
TimeOutWithShare(a) ==
  /\ answer[a] = "empty"
  /\ made[a] # share
  /\ Advances(a, "asked", "expired")
  /\ UNCHANGED <<hostVars, sessionVars, made, answer, downloadVars,
                 historyVars>>

(* The last look at the channel finds it empty, and accept_timeout has run *)
(* out.                                                                    *)
TimeOut(a) ==
  /\ answer[a] = "empty"
  /\ Advances(a, "asked", "expired")
  /\ UNCHANGED <<hostVars, sessionVars, made, answer, downloadVars,
                 historyVars>>

(* The receiver is dropped, with whatever was put in the channel since. *)
DropReceiver(a) ==
  /\ Advances(a, "expired", "refused")
  /\ UNCHANGED <<hostVars, sessionVars, made, answer, downloadVars,
                 historyVars>>

(* Mutant: the sender is taken out, and the approval forgotten. *)
SettleUnapproved(a) ==
  /\ Advances(a, "accepted", "over")
  /\ IF share = None THEN UNCHANGED <<pending, listed>>
                     ELSE List(a) /\ pending' = pending \ {a}
  /\ UNCHANGED <<hostVars, sessions, approved, known, made, answer,
                 downloadVars, granted, late, hungUp>>

(* The lock is taken again.  Whatever share runs now, its list is the      *)
(* answer; the session is approved if it is still in the map.              *)
SettleAccepted(a) ==
  /\ Advances(a, "accepted", "over")
  /\ IF share = None
     THEN UNCHANGED <<pending, approved, listed>>
     ELSE /\ List(a)
          /\ approved' = approved \cup ({a} \cap sessions)
          /\ pending' = pending \ {a}
  /\ UNCHANGED <<hostVars, sessions, known, made, answer, downloadVars,
                 granted, late, hungUp>>

(* The session is taken out of the map again: 403. *)
SettleRefused(a) ==
  /\ Advances(a, "refused", "over")
  /\ IF share = None
     THEN UNCHANGED <<sessions, pending, approved>>
     ELSE /\ sessions' = sessions \ {a}
          /\ pending' = pending \ {a}
          /\ approved' = approved \ {a}
  /\ UNCHANGED <<hostVars, known, made, answer, downloadVars, historyVars>>

(* The browser goes away while its handler waits; from the last look at    *)
(* the channel to the end of the receiver there is no await.               *)
HangUp(a) ==
  /\ step[a] \in {"sending", "asked", "accepted", "refused"}
  /\ step' = [step EXCEPT ![a] = "over"]
  /\ hungUp' = hungUp \cup {a}
  /\ UNCHANGED <<hostVars, sessionVars, made, answer, downloadVars, granted,
                 late, listed>>

(* prepare-download with the id of an approved session: the list again. *)
ListAgain(a) ==
  /\ a \in sessions \cap approved
  /\ List(a)
  /\ UNCHANGED <<hostVars, sessionVars, askVars, downloadVars, granted,
                 late, hungUp>>

-----------------------------------------------------------------------------
(* download. *)

Moves(d, from, to) ==
  /\ at[d] = from
  /\ at' = [at EXCEPT ![d] = to]

(* The session is approved and the file is the share's; anything else is   *)
(* 403.  The file is opened, and streamed once the lock is free.           *)
BeginDownload(d, a, f) ==
  /\ share # None
  /\ a \in sessions \cap approved
  /\ f \in Files[share]
  /\ Moves(d, "idle", "streaming")
  /\ of' = [of EXCEPT ![d] = a]
  /\ file' = [file EXCEPT ![d] = f]
  /\ source' = [source EXCEPT ![d] = share]
  /\ UNCHANGED <<hostVars, sessionVars, askVars, got, done, historyVars>>

(* The file cannot be opened or read, or the browser goes away before the  *)
(* last byte was taken.                                                    *)
BreakOff(d) ==
  /\ Moves(d, "streaming", "over")
  /\ UNCHANGED <<hostVars, sessionVars, askVars, of, file, source, got,
                 done, historyVars>>

(* The last byte, or the end, is taken: a task of its own records it. *)
FinishFile(d) ==
  /\ Moves(d, "streaming", "finished")
  /\ UNCHANGED <<hostVars, sessionVars, askVars, of, file, source, got,
                 done, historyVars>>

(* Mutant: files are counted before this one is entered. *)
RecordFileLate(d) ==
  LET a == of[d]
  IN  /\ IF share # None /\ a \in sessions
         THEN /\ got' = [got EXCEPT ![a] = @ \cup {file[d]}]
              /\ IF Cardinality(got[a]) = Cardinality(Files[share])
                 THEN Moves(d, "finished", "closing")
                 ELSE Moves(d, "finished", "over")
         ELSE Moves(d, "finished", "over") /\ UNCHANGED got
      /\ UNCHANGED <<hostVars, sessionVars, askVars, of, file, source, done,
                     historyVars>>

(* It is entered in its session, if the running share has it, and after as *)
(* many files as the share has the session is done.                        *)
RecordFile(d) ==
  LET a == of[d]
      all == got[a] \cup {file[d]}
  IN  /\ IF share # None /\ a \in sessions
         THEN /\ got' = [got EXCEPT ![a] = all]
              /\ IF Cardinality(all) = Cardinality(Files[share])
                 THEN Moves(d, "finished", "closing")
                 ELSE Moves(d, "finished", "over")
         ELSE Moves(d, "finished", "over") /\ UNCHANGED got
      /\ UNCHANGED <<hostVars, sessionVars, askVars, of, file, source, done,
                     historyVars>>

(* WebShareSessionDone is in the event channel. *)
ReportDone(d) ==
  /\ Moves(d, "closing", "over")
  /\ done' = [done EXCEPT ![of[d]] = @ + 1]
  /\ UNCHANGED <<hostVars, sessionVars, askVars, of, file, source, got,
                 historyVars>>

-----------------------------------------------------------------------------

Host ==
  \/ \E s \in Share : StartShare(s)
  \/ StopShare
  \/ MarkDevice
  \/ \E a \in Ask, yes \in BOOLEAN : Respond(a, yes)

PrepareDownload(a) ==
  \/ TurnAway(a)
  \/ MakeSession(a)
  \/ SendRequest(a)
  \/ HearApproval(a)
  \/ HearRefusal(a)
  \/ TimeOut(a)
  \/ DropReceiver(a)
  \/ SettleAccepted(a)
  \/ SettleRefused(a)
  \/ HangUp(a)
  \/ ListAgain(a)

DownloadFile(d) ==
  \/ \E a \in Ask, f \in File : BeginDownload(d, a, f)
  \/ BreakOff(d)
  \/ FinishFile(d)
  \/ RecordFile(d)
  \/ ReportDone(d)

Next ==
  \/ Host
  \/ \E a \in Ask : PrepareDownload(a)
  \/ \E d \in Download : DownloadFile(d)

Spec == Init /\ [][Next]_vars

-----------------------------------------------------------------------------

(* The variables range over what the code can store in them. *)
TypeOK ==
  /\ share \in Share \cup {None}
  /\ used \subseteq Share
  /\ download \in BOOLEAN
  /\ call \in BOOLEAN
  /\ sessions \subseteq Ask
  /\ pending \subseteq Ask
  /\ approved \subseteq Ask
  /\ known \subseteq Ask
  /\ step \in [Ask -> {"new", "sending", "asked", "expired", "accepted",
                       "refused", "over"}]
  /\ made \in [Ask -> Share \cup {None}]
  /\ answer \in [Ask -> {"empty", "yes", "no", "closed"}]
  /\ at \in [Download -> {"idle", "streaming", "finished", "closing",
                          "over"}]
  /\ of \in [Download -> Ask \cup {None}]
  /\ file \in [Download -> File \cup {None}]
  /\ source \in [Download -> Share \cup {None}]
  /\ got \in [Ask -> SUBSET File]
  /\ done \in [Ask -> Nat]
  /\ granted \subseteq Ask
  /\ late \subseteq granted
  /\ listed \in [Ask -> SUBSET Share]
  /\ hungUp \subseteq Ask

(* The host, or the share's own setting, let this browser have it. *)
Permitted(a, s) == made[a] = s /\ (a \in granted \/ s \in AutoAccept)

(* An approval counts for the share it was given for: files of a share go  *)
(* to browsers approved in this very share, however often the host         *)
(* replaced the share while the browser was waiting.                       *)
DownloadIsPermitted ==
  \A d \in Download : at[d] # "idle" => Permitted(of[d], source[d])

(* The list is shown to approved browsers only.  It may be the list of a   *)
(* later share, when the host replaced the share after it had approved.    *)
ListIsPermitted ==
  \A a \in Ask : listed[a] # {} => Permitted(a, made[a])

(* What waits for an answer can still be given one, or nobody is waiting:  *)
(* the response sender of a parked handler is in the map, or has been used *)
(* or dropped with its share.                                              *)
ParkedCanBeAnswered ==
  \A a \in Ask :
    step[a] \in {"sending", "asked"} /\ answer[a] = "empty" =>
      a \in pending /\ a \in sessions /\ made[a] = share

(* SessionDone means every file of the session's share was taken. *)
DoneMeansDownloaded ==
  \A a \in Ask :
    /\ got[a] # {} => got[a] \subseteq Files[made[a]]
    /\ done[a] > 0 => got[a] = Files[made[a]]

-----------------------------------------------------------------------------

(* Handlers get from one await to the next, accept_timeout runs out, the   *)
(* spawned tasks run, and the host drains its events and comes back from   *)
(* its own calls.  Nobody need answer or download.                         *)
Fairness ==
  /\ WF_vars(MarkDevice)
  /\ \A a \in Ask :
       /\ WF_vars(SendRequest(a))
       /\ WF_vars(HearApproval(a) \/ HearRefusal(a) \/ TimeOut(a))
       /\ WF_vars(DropReceiver(a))
       /\ WF_vars(SettleAccepted(a) \/ SettleRefused(a))
  /\ \A d \in Download : WF_vars(RecordFile(d) \/ ReportDone(d))

FairSpec == Spec /\ Fairness

(* Every browser that made a session is answered, whatever the host does   *)
(* or does not do with its share.                                          *)
AskIsAnswered == \A a \in Ask : step[a] = "sending" ~> step[a] = "over"

(* What the host was told it approved is approved, unless the browser hung *)
(* up, the share was ended, or accept_timeout had run out: an approval put *)
(* in the channel between the handler's last look and the end of the       *)
(* receiver is reported to the host as delivered, and lost.                *)
GrantTakesEffect ==
  \A a \in Ask :
    a \in granted \ late ~> a \in approved \/ a \in hungUp \/ made[a] # share

(* Once every file was taken the host hears that the session is done. *)
CompletionIsReported ==
  \A a \in Ask :
    made[a] # None /\ got[a] = Files[made[a]] ~> done[a] > 0
=============================================================================
