------------------------------ MODULE HostScan ------------------------------
(***************************************************************************)
(* A sweep of hosts over HTTP: every host is asked who it is, some at a    *)
(* time, over the configured scheme and then over the other one, and the   *)
(* devices that answered are listed without this one and without repeats.  *)
(*                                                                         *)
(* "blind" is a subnet scan and "named" one of hosts the caller chose:     *)
(* both GET /info.  "register" POSTs this device's description instead.    *)
(* "peer" asks one known host.  Addresses, ports and TLS are left out; a   *)
(* request is modelled by how it ends.                                     *)
(*                                                                         *)
(* absent is not in the code: the questions a host answered by having no   *)
(* such route.                                                             *)
(***************************************************************************)
EXTENDS Naturals, Sequences, FiniteSets

CONSTANTS
  Host,        (* addresses that can be asked                       *)
  Device,      (* fingerprints of other devices                     *)
  Own,         (* the fingerprint of this one                       *)
  Nameless,    (* an empty fingerprint                              *)
  Slots        (* SCAN_CONCURRENCY                                  *)

Mode == {"blind", "named", "register", "peer"}
Scheme == {1, 2}     (* protocol_candidates: the configured one is first *)
Name == Device \cup {Own, Nameless}

VARIABLES
  mode, targets, bounded,   (* what was called, and with a deadline?     *)
  asked,                    (* the request a probe waits for             *)
  scheme,                   (* over which scheme                         *)
  posted, absent,           (* <<host, scheme>>: described ourselves to, *)
                            (* and without that route                    *)
  discovered,               (* the answers, in the order they came       *)
  sweep, devices, complete  (* the outcome                               *)

call == <<mode, targets, bounded>>
outcome == <<sweep, devices, complete>>

scanVars == <<call, asked, scheme, posted, absent, discovered, outcome>>

Init ==
  /\ mode \in Mode
  /\ targets \in SUBSET Host
  /\ mode = "peer" => Cardinality(targets) <= 1
  /\ bounded \in BOOLEAN
  /\ mode = "peer" => ~bounded
  /\ asked = [h \in Host |-> "waiting"]
  /\ scheme = [h \in Host |-> 1]
  /\ posted = {}
  /\ absent = {}
  /\ discovered = <<>>
  /\ sweep = "running"
  /\ devices = {}
  /\ complete = TRUE

-----------------------------------------------------------------------------

InFlight == {h \in targets : asked[h] \in {"info", "register"}}

Finished == {h \in targets : asked[h] = "over"}

Ask(h, question, s) ==
  /\ asked' = [asked EXCEPT ![h] = question]
  /\ scheme' = [scheme EXCEPT ![h] = s]
  /\ posted' = IF question = "register" THEN posted \cup {<<h, s>>}
                                        ELSE posted

FirstQuestion == IF mode = "register" THEN "register" ELSE "info"

Begin(h) ==
  /\ sweep = "running"
  /\ h \in targets
  /\ asked[h] = "waiting"
  /\ Cardinality(InFlight) < Slots
  /\ Ask(h, FirstQuestion, 1)
  /\ UNCHANGED <<call, absent, discovered, outcome>>

Probing(h) == sweep = "running" /\ h \in InFlight

Over(h) ==
  /\ asked' = [asked EXCEPT ![h] = "over"]
  /\ UNCHANGED <<scheme, posted>>

(* A LocalSend device answers. *)
Found(h, n) ==
  /\ Probing(h)
  /\ Over(h)
  /\ discovered' = Append(discovered, [host |-> h, name |-> n])
  /\ UNCHANGED <<call, absent, outcome>>

(* Only a timeout says that the other scheme would fare no better. *)
Unreachable(h) ==
  /\ Probing(h)
  /\ Over(h)
  /\ UNCHANGED <<call, absent, discovered, outcome>>

(* Mutant: the schemes are tried in turn. *)
TryInTurn(h) == Ask(h, FirstQuestion, 3 - scheme[h])

TryOther(h) ==
  IF scheme[h] = 1 THEN Ask(h, FirstQuestion, 2) ELSE Over(h)

(* Mutant: a refusal leads to /register as well. *)
MissOrRegister(h) ==
  /\ Probing(h)
  /\ IF asked[h] = "info" /\ mode \in {"named", "peer"}
     THEN Ask(h, "register", scheme[h])
     ELSE TryOther(h)
  /\ UNCHANGED <<call, absent, discovered, outcome>>

(* A refused connection, a refusal, or an answer of something else. *)
Miss(h) ==
  /\ Probing(h)
  /\ TryOther(h)
  /\ UNCHANGED <<call, absent, discovered, outcome>>

(* 404 and 405: the host has no /info.  A host the caller named is asked   *)
(* through /register over the same scheme; a stranger is not.              *)
RegisterFallback(h) ==
  /\ Probing(h)
  /\ asked[h] = "info"
  /\ absent' = absent \cup {<<h, scheme[h]>>}
  /\ IF mode \in {"named", "peer"}
     THEN Ask(h, "register", scheme[h])
     ELSE TryOther(h)
  /\ UNCHANGED <<call, discovered, outcome>>

-----------------------------------------------------------------------------
(* The end of a sweep. *)

(* The first answer of every other device that has a fingerprint. *)
Listed ==
  {discovered[i] : i \in {j \in DOMAIN discovered :
     /\ discovered[j].name \notin {Own, Nameless}
     /\ \A k \in 1 .. j - 1 : discovered[k].name # discovered[j].name}}

Drained ==
  /\ sweep = "running"
  /\ Finished = targets
  /\ sweep' = "over"
  /\ devices' = Listed
  /\ UNCHANGED <<call, asked, scheme, posted, absent, discovered, complete>>

(* Mutant: an abandoned sweep looks like one that got to the end. *)
DeadlineUnsaid ==
  /\ sweep = "running"
  /\ bounded
  /\ Finished # targets
  /\ sweep' = "over"
  /\ devices' = Listed
  /\ UNCHANGED <<call, asked, scheme, posted, absent, discovered, complete>>

(* What has answered is kept; the probes in flight are dropped.  A sweep   *)
(* whose last probe is over is never overtaken: the stream is polled       *)
(* before the clock.                                                       *)
Deadline ==
  /\ sweep = "running"
  /\ bounded
  /\ Finished # targets
  /\ sweep' = "over"
  /\ complete' = FALSE
  /\ devices' = Listed
  /\ UNCHANGED <<call, asked, scheme, posted, absent, discovered>>

-----------------------------------------------------------------------------

Answers(h) ==
  \/ \E n \in Name : Found(h, n)
  \/ Unreachable(h)
  \/ Miss(h)
  \/ RegisterFallback(h)

Next ==
  \/ \E h \in Host : Begin(h) \/ Answers(h)
  \/ Drained
  \/ Deadline

Spec == Init /\ [][Next]_scanVars

-----------------------------------------------------------------------------

Answer == [host : Host, name : Name]

(* The variables range over what the code can store in them. *)
TypeOK ==
  /\ mode \in Mode
  /\ targets \in SUBSET Host
  /\ bounded \in BOOLEAN
  /\ asked \in [Host -> {"waiting", "info", "register", "over"}]
  /\ scheme \in [Host -> Scheme]
  /\ posted \subseteq Host \X Scheme
  /\ absent \subseteq Host \X Scheme
  /\ discovered \in Seq(Answer)
  /\ sweep \in {"running", "over"}
  /\ devices \subseteq Answer
  /\ complete \in BOOLEAN

(* Only /register tells a host about this device, and nothing of it goes   *)
(* to hosts nobody named: a blind sweep posts to none, and any other but   *)
(* the register sweep only where /info turned out to be missing, and over  *)
(* the scheme it was missing on.  A host that refused is told nothing.     *)
NoBlindDisclosure ==
  /\ mode = "blind" => posted = {}
  /\ mode \in {"named", "peer"} => posted \subseteq absent

(* What a sweep returns is what it heard: every other device that answered *)
(* once, at an address it answered on, and nothing else; and it is called  *)
(* complete exactly when every host was asked to the end, so that an empty *)
(* list of a complete sweep means that nobody is there.                    *)
OutcomeIsExact ==
  sweep = "over" =>
    /\ complete <=> Finished = targets
    /\ \A d \in devices : \E i \in DOMAIN discovered : discovered[i] = d
    /\ \A i \in DOMAIN discovered :
         LET n == discovered[i].name
         IN  IF n \in Device
             THEN \E d \in devices : d.name = n
             ELSE \A d \in devices : d.name # n
    /\ \A d, e \in devices : d.name = e.name => d = e

=============================================================================
