-------------------------- MODULE Discovery_proofs --------------------------
(***************************************************************************)
(* Proofs about Discovery, for every set of hosts, devices and interfaces, *)
(* every number of slots and every capacity of the channel.                *)
(*                                                                         *)
(* Two facts carry the argument: every name that was heard was heard for a *)
(* first time, so that a list of first answers has them all; and this      *)
(* machine never asks itself for a confirmation.                           *)
(***************************************************************************)
EXTENDS Discovery, TLAPS

(* Every name that has answered has a first answer. *)
NamesHaveAFirstAnswer ==
  \A i \in DOMAIN discovered :
    \E j \in DOMAIN discovered :
      /\ discovered[j].name = discovered[i].name
      /\ \A k \in 1 .. j - 1 : discovered[k].name # discovered[j].name

ScanInv ==
  /\ Scan!TypeOK
  /\ NamesHaveAFirstAnswer
  /\ sweep = "running" => complete
  /\ NoBlindDisclosure
  /\ OutcomeIsExact

CastInv ==
  /\ Cast!TypeOK
  /\ asking[Own] = 0
  /\ FoundIsConfirmed
  /\ NothingConfirmedIsLost

IInv ==
  /\ TypeOK
  /\ ScanInv
  /\ CastInv

-----------------------------------------------------------------------------
(* The sweep. *)

(* A stranger is asked over one of the two schemes. *)
LEMMA SchemesAreTwo ==
  ASSUME Scan!TypeOK, NEW h \in Host
  PROVE  /\ scheme[h] \in Scan!Scheme
         /\ 1 \in Scan!Scheme
         /\ 2 \in Scan!Scheme
         /\ Scan!FirstQuestion \in {"info", "register"}
  BY DEF Scan!TypeOK, Scan!Scheme, Scan!FirstQuestion

(* An answer that is appended keeps first answers first. *)
LEMMA AppendKeepsFirstAnswers ==
  ASSUME Scan!TypeOK, NamesHaveAFirstAnswer, NEW a \in Scan!Answer,
         discovered' = Append(discovered, a)
  PROVE  NamesHaveAFirstAnswer'
<1> DEFINE n == Len(discovered) + 1
<1>1. /\ discovered \in Seq(Scan!Answer)
      /\ Len(discovered) \in Nat
      /\ DOMAIN discovered = 1 .. Len(discovered)
      /\ DOMAIN discovered' = 1 .. n
      /\ discovered'[n] = a
      /\ \A k \in DOMAIN discovered : discovered'[k] = discovered[k]
  BY DEF Scan!TypeOK
<1> SUFFICES ASSUME NEW i \in DOMAIN discovered'
             PROVE  \E j \in DOMAIN discovered' :
                      /\ discovered'[j].name = discovered'[i].name
                      /\ \A k \in 1 .. j - 1 :
                           discovered'[k].name # discovered'[j].name
  BY DEF NamesHaveAFirstAnswer
<1>2. CASE \E m \in DOMAIN discovered :
             discovered[m].name = discovered'[i].name
  <2>1. PICK m \in DOMAIN discovered :
          discovered[m].name = discovered'[i].name
    BY <1>2
  <2>2. PICK j \in DOMAIN discovered :
          /\ discovered[j].name = discovered[m].name
          /\ \A k \in 1 .. j - 1 : discovered[k].name # discovered[j].name
    BY DEF NamesHaveAFirstAnswer
  <2>3. \A k \in 1 .. j - 1 : k \in DOMAIN discovered
    BY <1>1
  <2> QED
    BY SMTT(30), <1>1, <2>1, <2>2, <2>3
<1>3. CASE \A m \in DOMAIN discovered :
             discovered[m].name # discovered'[i].name
  <2>1. i = n
    BY <1>1, <1>3
  <2>2. \A k \in 1 .. n - 1 : discovered'[k].name # discovered'[n].name
    BY <1>1, <1>3, <2>1
  <2> QED
    BY <1>1, <2>1, <2>2
<1> QED
  BY <1>2, <1>3

(* The list of first answers has every other device that answered, once. *)
LEMMA ListedIsExact ==
  ASSUME Scan!TypeOK, NamesHaveAFirstAnswer
  PROVE
    /\ \A d \in Scan!Listed : \E i \in DOMAIN discovered : discovered[i] = d
    /\ \A i \in DOMAIN discovered :
         IF discovered[i].name \in Device
         THEN \E d \in Scan!Listed : d.name = discovered[i].name
         ELSE \A d \in Scan!Listed : d.name # discovered[i].name
    /\ \A d, e \in Scan!Listed : d.name = e.name => d = e
    /\ Scan!Listed \subseteq Scan!Answer
<1>1. /\ discovered \in Seq(Scan!Answer)
      /\ Len(discovered) \in Nat
      /\ DOMAIN discovered = 1 .. Len(discovered)
      /\ \A i \in DOMAIN discovered : discovered[i] \in Scan!Answer
  BY DEF Scan!TypeOK
<1>2. \A i \in DOMAIN discovered :
        discovered[i].name \in Device \cup {Own, Nameless}
  BY <1>1 DEF Scan!Answer, Scan!Name
<1>3. \A d \in Scan!Listed : \E i \in DOMAIN discovered :
        /\ discovered[i] = d
        /\ d.name \in Device
        /\ \A k \in 1 .. i - 1 : discovered[k].name # d.name
  BY <1>2 DEF Scan!Listed
<1>4. ASSUME NEW i \in DOMAIN discovered, discovered[i].name \in Device
      PROVE  \E d \in Scan!Listed : d.name = discovered[i].name
  <2>1. PICK j \in DOMAIN discovered :
          /\ discovered[j].name = discovered[i].name
          /\ \A k \in 1 .. j - 1 : discovered[k].name # discovered[j].name
    BY DEF NamesHaveAFirstAnswer
  <2>2. discovered[j].name \notin {Own, Nameless}
    BY <1>4, <2>1, DeviceAssumption
  <2>3. discovered[j] \in Scan!Listed
    BY <2>1, <2>2 DEF Scan!Listed
  <2> QED
    BY <2>1, <2>3
<1>5. ASSUME NEW d \in Scan!Listed, NEW e \in Scan!Listed, d.name = e.name
      PROVE  d = e
  <2>1. PICK i \in DOMAIN discovered :
          /\ discovered[i] = d
          /\ \A k \in 1 .. i - 1 : discovered[k].name # d.name
    BY <1>3
  <2>2. PICK j \in DOMAIN discovered :
          /\ discovered[j] = e
          /\ \A k \in 1 .. j - 1 : discovered[k].name # e.name
    BY <1>3
  <2>3. i = j
    BY <1>1, <1>5, <2>1, <2>2
  <2> QED
    BY <2>1, <2>2, <2>3
<1> QED
  BY <1>1, <1>3, <1>4, <1>5

LEMMA InitEstablishesScanInv == Scan!Init => ScanInv
<1> SUFFICES ASSUME Scan!Init PROVE ScanInv
  OBVIOUS
<1>1. /\ discovered = <<>>
      /\ posted = {}
      /\ sweep = "running"
  BY DEF Scan!Init
<1>2. Scan!TypeOK
  <2>1. /\ asked \in [Host -> {"waiting", "info", "register", "over"}]
        /\ scheme \in [Host -> Scan!Scheme]
    BY DEF Scan!Init, Scan!Scheme
  <2>2. discovered \in Seq(Scan!Answer)
    BY <1>1
  <2> QED
    BY <2>1, <2>2 DEF Scan!Init, Scan!TypeOK
<1>3. NamesHaveAFirstAnswer
  BY <1>1 DEF NamesHaveAFirstAnswer
<1>4. NoBlindDisclosure /\ OutcomeIsExact /\ complete
  BY <1>1 DEF Scan!Init, NoBlindDisclosure, OutcomeIsExact,
              Scan!NoBlindDisclosure, Scan!OutcomeIsExact
<1> QED
  BY <1>2, <1>3, <1>4 DEF ScanInv

(* While the sweep runs there is no outcome to get wrong, so that a step   *)
(* owes the types, the disclosure and the first answers.                   *)
LEMMA RunningScanInv ==
  ASSUME Scan!TypeOK', NamesHaveAFirstAnswer', Scan!NoBlindDisclosure',
         sweep' = "running", complete'
  PROVE  ScanInv'
  BY DEF ScanInv, NoBlindDisclosure, OutcomeIsExact, Scan!OutcomeIsExact

(* Asking on: nothing but /info, or what the mode of the sweep permits. *)
LEMMA AskKeepsScanInv ==
  ASSUME ScanInv, sweep = "running",
         NEW h \in Host, NEW q \in {"info", "register"},
         NEW s \in Scan!Scheme,
         Scan!Ask(h, q, s),
         q = "register" => /\ mode # "blind"
                           /\ mode \in {"named", "peer"} =>
                                <<h, s>> \in absent',
         absent \subseteq absent',
         absent' \subseteq Host \X Scan!Scheme,
         UNCHANGED <<mode, targets, bounded, discovered, sweep, devices,
                     complete>>
  PROVE  ScanInv'
<1> USE DEF ScanInv, Scan!Ask
<1>1. Scan!TypeOK'
  BY DEF Scan!TypeOK
<1>2. NamesHaveAFirstAnswer'
  BY DEF NamesHaveAFirstAnswer
<1>3. Scan!NoBlindDisclosure'
  BY DEF NoBlindDisclosure, Scan!NoBlindDisclosure
<1> QED
  BY <1>1, <1>2, <1>3, RunningScanInv

(* A probe that ends posts nothing. *)
LEMMA OverKeepsScanInv ==
  ASSUME ScanInv, sweep = "running",
         NEW h \in Host, Scan!Over(h),
         absent \subseteq absent',
         absent' \subseteq Host \X Scan!Scheme,
         UNCHANGED <<mode, targets, bounded, discovered, sweep, devices,
                     complete>>
  PROVE  ScanInv'
<1> USE DEF ScanInv, Scan!Over
<1>1. Scan!TypeOK'
  BY DEF Scan!TypeOK
<1>2. NamesHaveAFirstAnswer'
  BY DEF NamesHaveAFirstAnswer
<1>3. Scan!NoBlindDisclosure'
  BY DEF NoBlindDisclosure, Scan!NoBlindDisclosure
<1> QED
  BY <1>1, <1>2, <1>3, RunningScanInv

(* What the other scheme is asked is what the first one was. *)
LEMMA TryOtherKeepsScanInv ==
  ASSUME ScanInv, sweep = "running", NEW h \in Host, Scan!TryOther(h),
         absent \subseteq absent',
         absent' \subseteq Host \X Scan!Scheme,
         UNCHANGED <<mode, targets, bounded, discovered, sweep, devices,
                     complete>>
  PROVE  ScanInv'
<1>1. Scan!TypeOK
  BY DEF ScanInv
<1>2. CASE scheme[h] = 1
  <2>1. Scan!Ask(h, Scan!FirstQuestion, 2)
    BY <1>2 DEF Scan!TryOther
  <2>2. Scan!FirstQuestion = "register" => mode = "register"
    BY DEF Scan!FirstQuestion
  <2> QED
    BY <1>1, <2>1, <2>2, SchemesAreTwo, AskKeepsScanInv
<1>3. CASE scheme[h] # 1
  BY <1>3, OverKeepsScanInv DEF Scan!TryOther
<1> QED
  BY <1>2, <1>3

(* The outcome is drawn from the answers when the sweep ends. *)
LEMMA EndKeepsScanInv ==
  ASSUME ScanInv, sweep' = "over", devices' = Scan!Listed,
         complete' <=> Scan!Finished = targets,
         UNCHANGED <<mode, targets, bounded, asked, scheme, posted, absent,
                     discovered>>,
         complete' \in BOOLEAN
  PROVE  ScanInv'
<1>1. Scan!TypeOK /\ NamesHaveAFirstAnswer
  BY DEF ScanInv
<1>2. Scan!TypeOK'
  BY <1>1, ListedIsExact DEF Scan!TypeOK
<1>3. NamesHaveAFirstAnswer'
  BY <1>1 DEF NamesHaveAFirstAnswer
<1>4. NoBlindDisclosure'
  BY DEF ScanInv, NoBlindDisclosure, Scan!NoBlindDisclosure
<1>5. Scan!Finished' = Scan!Finished
  BY DEF Scan!Finished
<1>6. OutcomeIsExact'
  BY <1>1, <1>5, ListedIsExact DEF OutcomeIsExact, Scan!OutcomeIsExact
<1> QED
  BY <1>2, <1>3, <1>4, <1>6 DEF ScanInv

LEMMA StepPreservesScanInv == ScanInv /\ Scan!Next => ScanInv'
<1> SUFFICES ASSUME ScanInv, Scan!Next PROVE ScanInv'
  OBVIOUS
<1>1. Scan!TypeOK
  BY DEF ScanInv
<1> USE DEF Scan!call, Scan!outcome
<1>2. ASSUME NEW h \in Host, Scan!Begin(h) PROVE ScanInv'
  <2>1. Scan!FirstQuestion = "register" => mode = "register"
    BY DEF Scan!FirstQuestion
  <2>2. absent' = absent /\ absent \subseteq Host \X Scan!Scheme
    BY <1>1, <1>2 DEF Scan!Begin, Scan!TypeOK
  <2> QED
    BY <1>1, <1>2, <2>1, <2>2, SchemesAreTwo, AskKeepsScanInv
       DEF Scan!Begin
<1>3. ASSUME NEW h \in Host, Scan!Probing(h), absent' = absent
      PROVE  /\ sweep = "running"
             /\ absent \subseteq absent'
             /\ absent' \subseteq Host \X Scan!Scheme
  BY <1>1, <1>3 DEF Scan!Probing, Scan!TypeOK
<1>4. ASSUME NEW h \in Host, NEW n \in Scan!Name, Scan!Found(h, n)
      PROVE  ScanInv'
  <2>1. [host |-> h, name |-> n] \in Scan!Answer
    BY DEF Scan!Answer
  <2>2. NamesHaveAFirstAnswer'
    BY <1>1, <1>4, <2>1, AppendKeepsFirstAnswers DEF Scan!Found, ScanInv
  <2>3. Scan!TypeOK'
    BY <1>1, <1>4, <2>1 DEF Scan!TypeOK, Scan!Found, Scan!Over
  <2>4. Scan!NoBlindDisclosure'
    BY <1>4 DEF ScanInv, NoBlindDisclosure, Scan!NoBlindDisclosure,
                Scan!Found, Scan!Over
  <2>5. sweep' = "running" /\ complete'
    BY <1>4 DEF ScanInv, Scan!Found, Scan!Probing
  <2> QED
    BY <2>2, <2>3, <2>4, <2>5, RunningScanInv
<1>5. ASSUME NEW h \in Host, Scan!Unreachable(h) PROVE ScanInv'
  BY <1>3, <1>5, OverKeepsScanInv DEF Scan!Unreachable
<1>6. ASSUME NEW h \in Host, Scan!Miss(h) PROVE ScanInv'
  BY <1>3, <1>6, TryOtherKeepsScanInv DEF Scan!Miss
<1>7. ASSUME NEW h \in Host, Scan!RegisterFallback(h) PROVE ScanInv'
  <2>1. /\ sweep = "running"
        /\ absent \subseteq absent'
        /\ absent' \subseteq Host \X Scan!Scheme
        /\ <<h, scheme[h]>> \in absent'
        /\ scheme[h] \in Scan!Scheme
    BY <1>1, <1>7, SchemesAreTwo
       DEF Scan!RegisterFallback, Scan!Probing, Scan!TypeOK
  <2>2. CASE mode \in {"named", "peer"}
    BY <1>7, <2>1, <2>2, AskKeepsScanInv DEF Scan!RegisterFallback
  <2>3. CASE mode \notin {"named", "peer"}
    BY <1>7, <2>1, <2>3, TryOtherKeepsScanInv DEF Scan!RegisterFallback
  <2> QED
    BY <2>2, <2>3
<1>8. ASSUME Scan!Drained PROVE ScanInv'
  <2>1. complete
    BY <1>8 DEF Scan!Drained, ScanInv
  <2> QED
    BY <1>1, <1>8, <2>1, EndKeepsScanInv DEF Scan!Drained, Scan!TypeOK
<1>9. ASSUME Scan!Deadline PROVE ScanInv'
  BY <1>9, EndKeepsScanInv DEF Scan!Deadline
<1> QED
  BY <1>2, <1>4, <1>5, <1>6, <1>7, <1>8, <1>9
     DEF Scan!Next, Scan!Answers

-----------------------------------------------------------------------------
(* Multicast. *)

LEMMA InitEstablishesCastInv == Cast!Init => CastInv
<1> SUFFICES ASSUME Cast!Init PROVE CastInv
  OBVIOUS
<1>1. channel = <<>> /\ channel \in Seq(Device \cup {Own})
  BY DEF Cast!Init
<1>2. Cast!TypeOK
  <2>1. asking \in [Device \cup {Own} -> Nat]
    BY DEF Cast!Init
  <2>2. round \in 0 .. Cast!MaxRounds /\ heard \in 0 .. MaxHeard
    BY BoundAssumption DEF Cast!Init, Cast!MaxRounds
  <2>3. sent \in BOOLEAN
    BY DEF Cast!Init
  <2> QED
    BY <1>1, <2>1, <2>2, <2>3 DEF Cast!Init, Cast!TypeOK
<1>3. asking[Own] = 0
  BY DEF Cast!Init
<1>4. FoundIsConfirmed /\ NothingConfirmedIsLost
  BY <1>1 DEF Cast!Init, FoundIsConfirmed, NothingConfirmedIsLost,
              Cast!FoundIsConfirmed, Cast!NothingConfirmedIsLost
<1> QED
  BY <1>2, <1>3, <1>4 DEF CastInv

(* What the invariant says of the channel, and of what it feeds, holds on  *)
(* while neither they nor the confirmations change.                        *)
LEMMA QuietKeepsCastInv ==
  ASSUME CastInv, Cast!TypeOK', asking'[Own] = 0,
         UNCHANGED <<channel, found, registered, expected>>,
         callback = "lagged" => callback' = "lagged"
  PROVE  CastInv'
  BY DEF CastInv, FoundIsConfirmed, NothingConfirmedIsLost,
         Cast!FoundIsConfirmed, Cast!NothingConfirmedIsLost

(* What has registered is passed on, or the callback ends. *)
LEMMA ConfirmKeepsCastInv ==
  ASSUME CastInv, NEW d \in Device \cup {Own}, Cast!Confirm(d)
  PROVE  CastInv'
<1>1. /\ Cast!TypeOK
      /\ channel \in Seq(Device \cup {Own})
      /\ Len(channel) \in Nat
      /\ DOMAIN channel = 1 .. Len(channel)
      /\ d # Own
      /\ asking[d] \in Nat /\ asking[d] > 0
  BY DEF CastInv, Cast!TypeOK, Cast!Confirm, Cast!Asked
<1>2. /\ UNCHANGED <<sockets, round, sent, heard, found>>
      /\ asking' = [asking EXCEPT ![d] = @ - 1]
      /\ registered' = registered \cup {d}
  BY DEF Cast!Confirm, Cast!Asked, Cast!announcing
<1>3. asking' \in [Device \cup {Own} -> Nat] /\ asking'[Own] = 0
  BY <1>1, <1>2 DEF CastInv, Cast!TypeOK
<1>4. CASE callback # "subscribed"
  <2>1. UNCHANGED <<callback, channel, expected>>
    BY <1>4 DEF Cast!Confirm, Cast!PassOn
  <2>2. Cast!TypeOK'
    BY <1>1, <1>2, <1>3, <2>1 DEF Cast!TypeOK
  <2> QED
    BY <1>1, <1>2, <1>3, <2>1, <2>2
       DEF CastInv, FoundIsConfirmed, NothingConfirmedIsLost,
           Cast!FoundIsConfirmed, Cast!NothingConfirmedIsLost
<1>5. CASE callback = "subscribed" /\ Len(channel) < Capacity
  <2>1. /\ callback' = callback
        /\ channel' = Append(channel, d)
        /\ expected' = expected \cup {d}
    BY <1>5 DEF Cast!Confirm, Cast!PassOn
  <2>2. /\ channel' \in Seq(Device \cup {Own})
        /\ DOMAIN channel' = 1 .. Len(channel) + 1
        /\ channel'[Len(channel) + 1] = d
        /\ \A k \in DOMAIN channel : /\ k \in DOMAIN channel'
                                     /\ channel'[k] = channel[k]
        /\ Len(channel) + 1 \in DOMAIN channel'
    BY <1>1, <2>1
  <2>3. Cast!TypeOK'
    BY <1>1, <1>2, <1>3, <2>1, <2>2 DEF Cast!TypeOK
  <2>4. FoundIsConfirmed'
    BY <1>1, <1>2, <2>2 DEF CastInv, FoundIsConfirmed,
                            Cast!FoundIsConfirmed
  <2>5. NothingConfirmedIsLost'
    BY <1>2, <1>5, <2>1, <2>2 DEF CastInv, NothingConfirmedIsLost,
                                  Cast!NothingConfirmedIsLost
  <2> QED
    BY <1>3, <2>3, <2>4, <2>5 DEF CastInv
<1>6. CASE callback = "subscribed" /\ ~(Len(channel) < Capacity)
  <2>1. /\ callback' = "lagged"
        /\ channel' = <<>>
        /\ expected' = expected \cup {d}
    BY <1>6 DEF Cast!Confirm, Cast!PassOn
  <2>2. channel' \in Seq(Device \cup {Own})
    BY <2>1
  <2>3. Cast!TypeOK'
    BY <1>1, <1>2, <1>3, <2>1, <2>2 DEF Cast!TypeOK
  <2> QED
    BY <1>1, <1>2, <1>3, <2>1, <2>3
       DEF CastInv, FoundIsConfirmed, NothingConfirmedIsLost,
           Cast!FoundIsConfirmed, Cast!NothingConfirmedIsLost
<1> QED
  BY <1>4, <1>5, <1>6

(* What leaves the channel is kept if it is the first that matches. *)
LEMMA DeliverKeepsCastInv == CastInv /\ Cast!Deliver => CastInv'
<1> SUFFICES ASSUME CastInv, Cast!Deliver PROVE CastInv'
  OBVIOUS
<1>1. /\ Cast!TypeOK
      /\ channel \in Seq(Device \cup {Own})
      /\ Len(channel) \in Nat \ {0}
      /\ DOMAIN channel = 1 .. Len(channel)
      /\ Head(channel) = channel[1]
      /\ 1 \in DOMAIN channel
  BY DEF CastInv, Cast!TypeOK, Cast!Deliver
<1>2. /\ UNCHANGED <<sockets, round, sent, heard, asking, callback,
                     registered, expected>>
      /\ channel' = Tail(channel)
      /\ found' = IF found = None /\ channel[1] \in Wanted
                  THEN channel[1] ELSE found
  BY <1>1 DEF Cast!Deliver, Cast!announcing, Cast!listening, Cast!history
<1>3. /\ channel' \in Seq(Device \cup {Own})
      /\ DOMAIN channel' = 1 .. Len(channel) - 1
      /\ \A k \in DOMAIN channel' : /\ k + 1 \in DOMAIN channel
                                    /\ channel'[k] = channel[k + 1]
      /\ \A k \in DOMAIN channel :
           k # 1 => /\ k - 1 \in DOMAIN channel'
                    /\ channel'[k - 1] = channel[k]
  BY <1>1, <1>2
<1>4. Cast!TypeOK'
  BY <1>1, <1>2, <1>3 DEF Cast!TypeOK
<1>5. FoundIsConfirmed'
  BY <1>1, <1>2, <1>3 DEF CastInv, FoundIsConfirmed, Cast!FoundIsConfirmed
<1>6. NothingConfirmedIsLost'
  <2> SUFFICES ASSUME NEW d \in expected \cap Wanted,
                      found' = None, callback # "lagged"
               PROVE  \E k \in DOMAIN channel' : channel'[k] = d
    BY <1>2 DEF NothingConfirmedIsLost, Cast!NothingConfirmedIsLost
  <2>1. found = None
    BY <1>2, DeviceAssumption, WantedAssumption
  <2>2. PICK k \in DOMAIN channel : channel[k] = d
    BY <2>1 DEF CastInv, NothingConfirmedIsLost,
                Cast!NothingConfirmedIsLost
  <2>3. k # 1
    BY <1>2, <2>1, <2>2, DeviceAssumption, WantedAssumption
  <2> QED
    BY <1>3, <2>2, <2>3
<1> QED
  BY <1>2, <1>4, <1>5, <1>6 DEF CastInv

LEMMA BackgroundKeepsCastInv == CastInv /\ Cast!Background => CastInv'
<1> SUFFICES ASSUME CastInv, Cast!Background PROVE CastInv'
  OBVIOUS
<1>1. Cast!TypeOK /\ asking[Own] = 0
  BY DEF CastInv
<1> USE DEF Cast!announcing, Cast!listening, Cast!delivery, Cast!history
<1>2. CASE Cast!Subscribe
  BY <1>1, <1>2, QuietKeepsCastInv DEF Cast!Subscribe, Cast!TypeOK
<1>3. CASE Cast!Deliver
  BY <1>3, DeliverKeepsCastInv
<1>4. ASSUME NEW i \in Interface, NEW d \in Device \cup {Own},
             Cast!Hear(i, d)
      PROVE  CastInv'
  <2>1. /\ heard' \in 0 .. MaxHeard
        /\ asking' \in [Device \cup {Own} -> Nat]
        /\ asking'[Own] = 0
    BY <1>1, <1>4, BoundAssumption DEF Cast!Hear, Cast!TypeOK
  <2> QED
    BY <1>1, <1>4, <2>1, QuietKeepsCastInv DEF Cast!Hear, Cast!TypeOK
<1>5. ASSUME NEW d \in Device \cup {Own}, Cast!Confirm(d) PROVE CastInv'
  BY <1>5, ConfirmKeepsCastInv
<1>6. ASSUME NEW d \in Device \cup {Own}, Cast!Ignore(d) PROVE CastInv'
  <2>1. /\ asking' \in [Device \cup {Own} -> Nat]
        /\ asking'[Own] = 0
    BY <1>1, <1>6 DEF Cast!Ignore, Cast!Asked, Cast!TypeOK
  <2> QED
    BY <1>1, <1>6, <2>1, QuietKeepsCastInv
       DEF Cast!Ignore, Cast!Asked, Cast!TypeOK
<1> QED
  BY <1>2, <1>3, <1>4, <1>5, <1>6 DEF Cast!Background

(* The calls of the search leave the channel and what it feeds alone. *)
LEMMA CallsKeepCastInv ==
  ASSUME CastInv,
         \/ Cast!OnDiscovered
         \/ \E joined \in SUBSET Interface : Cast!Start(joined)
         \/ \E accepted \in SUBSET sockets : Cast!AnnounceRound(accepted)
         \/ Cast!Stop
  PROVE  CastInv'
<1>1. Cast!TypeOK /\ asking[Own] = 0
  BY DEF CastInv
<1> USE DEF Cast!announcing, Cast!listening, Cast!delivery, Cast!history
<1>2. CASE Cast!OnDiscovered
  BY <1>1, <1>2, QuietKeepsCastInv DEF Cast!OnDiscovered, Cast!TypeOK
<1>3. ASSUME NEW joined \in SUBSET Interface, Cast!Start(joined)
      PROVE  CastInv'
  BY <1>1, <1>3, QuietKeepsCastInv DEF Cast!Start, Cast!TypeOK
<1>4. ASSUME NEW accepted \in SUBSET sockets, Cast!AnnounceRound(accepted)
      PROVE  CastInv'
  <2>1. round' \in 0 .. Cast!MaxRounds
    BY <1>1, <1>4 DEF Cast!AnnounceRound, Cast!TypeOK, Cast!MaxRounds,
                      Cast!Rounds
  <2>2. sent' \in BOOLEAN
    BY <1>1, <1>4, Zenon DEF Cast!AnnounceRound, Cast!TypeOK
  <2> QED
    BY <1>1, <1>4, <2>1, <2>2, QuietKeepsCastInv
       DEF Cast!AnnounceRound, Cast!TypeOK
<1>5. CASE Cast!Stop
  BY <1>1, <1>5, QuietKeepsCastInv DEF Cast!Stop, Cast!TypeOK
<1> QED
  BY <1>2, <1>3, <1>4, <1>5

-----------------------------------------------------------------------------
(* The search. *)

LEMMA InitEstablishesIInv == Init => IInv
<1> SUFFICES ASSUME Init PROVE IInv
  OBVIOUS
<1>1. ScanInv /\ CastInv
  BY InitEstablishesScanInv, InitEstablishesCastInv DEF Init
<1>2. TypeOK
  BY <1>1 DEF Init, TypeOK, ScanInv, CastInv
<1> QED
  BY <1>1, <1>2 DEF IInv

(* What the two halves say holds on while their variables do not change. *)
LEMMA ScanStandsStill == ScanInv /\ UNCHANGED scanVars => ScanInv'
<1> SUFFICES ASSUME ScanInv, UNCHANGED scanVars PROVE ScanInv'
  OBVIOUS
<1> USE DEF scanVars, ScanInv
<1>1. Scan!TypeOK' /\ NamesHaveAFirstAnswer'
  BY DEF Scan!TypeOK, NamesHaveAFirstAnswer
<1>2. NoBlindDisclosure'
  BY DEF NoBlindDisclosure, Scan!NoBlindDisclosure
<1>3. Scan!Finished' = Scan!Finished
  BY DEF Scan!Finished
<1>4. OutcomeIsExact'
  BY <1>3 DEF OutcomeIsExact, Scan!OutcomeIsExact
<1>5. (sweep = "running" => complete)'
  OBVIOUS
<1> QED
  BY <1>1, <1>2, <1>4, <1>5

LEMMA CastStandsStill == CastInv /\ UNCHANGED castVars => CastInv'
  BY QuietKeepsCastInv DEF castVars, CastInv, Cast!TypeOK

LEMMA StepPreservesHalves ==
  ASSUME IInv, [Next]_vars
  PROVE  ScanInv' /\ CastInv'
<1>1. ScanInv /\ CastInv
  BY DEF IInv
<1>2. CASE UNCHANGED vars
  BY <1>1, <1>2, ScanStandsStill, CastStandsStill DEF vars
<1>3. CASE Sweep
  BY <1>1, <1>3, StepPreservesScanInv, CastStandsStill DEF Sweep
<1>4. CASE Listen
  BY <1>1, <1>4, BackgroundKeepsCastInv, ScanStandsStill DEF Listen
<1>5. CASE SweepReturns \/ ProbeAnswered \/ StartFails
  BY <1>1, <1>5, ScanStandsStill, CastStandsStill
     DEF SweepReturns, ProbeAnswered, StartFails
<1>6. CASE FallBackToMulticast \/ EndWait
  BY <1>1, <1>6, ScanStandsStill, CallsKeepCastInv
     DEF FallBackToMulticast, EndWait
<1>7. CASE StartMulticast \/ Announce
  BY <1>1, <1>7, ScanStandsStill, CallsKeepCastInv
     DEF StartMulticast, Announce
<1>8. CASE AnnounceReturns
  <2>1. UNCHANGED castVars \/ Cast!Stop
    BY <1>8 DEF AnnounceReturns
  <2> QED
    BY <1>1, <1>8, <2>1, ScanStandsStill, CastStandsStill, CallsKeepCastInv
       DEF AnnounceReturns
<1> QED
  BY <1>2, <1>3, <1>4, <1>5, <1>6, <1>7, <1>8 DEF Next, Resolve

(* The result is a name that answered, or what the callback has found. *)
LEMMA StepPreservesResult ==
  ASSUME IInv, [Next]_vars
  PROVE  /\ result' \in Device \cup {Own, Nameless, None, "error"}
         /\ search' \in {"sweeping", "starting", "announcing", "waiting",
                         "over"}
<1>1. TypeOK /\ Scan!TypeOK /\ Cast!TypeOK
  BY DEF IInv, ScanInv, CastInv
<1>2. CASE ProbeAnswered
  <2>1. Head(discovered) \in Scan!Answer
    BY <1>1, <1>2 DEF ProbeAnswered, Scan!TypeOK
  <2>2. Head(discovered).name \in Device \cup {Own, Nameless}
    BY <2>1 DEF Scan!Answer, Scan!Name
  <2> QED
    BY <1>2, <2>2 DEF ProbeAnswered
<1>3. CASE EndWait
  BY <1>1, <1>3, WantedAssumption DEF EndWait, Cast!TypeOK
<1>4. CASE UNCHANGED vars
  BY <1>1, <1>4 DEF vars, TypeOK
<1>5. CASE Sweep \/ Listen
  BY <1>1, <1>5 DEF Sweep, Listen, TypeOK
<1>6. CASE \/ SweepReturns \/ FallBackToMulticast \/ StartMulticast
           \/ StartFails \/ Announce \/ AnnounceReturns
  BY <1>1, <1>6 DEF SweepReturns, FallBackToMulticast, StartMulticast,
                    StartFails, Announce, AnnounceReturns, TypeOK
<1> QED
  BY <1>2, <1>3, <1>4, <1>5, <1>6 DEF Next, Resolve

LEMMA StepPreservesIInv == IInv /\ [Next]_vars => IInv'
<1> SUFFICES ASSUME IInv, [Next]_vars PROVE IInv'
  OBVIOUS
<1>1. ScanInv' /\ CastInv'
  BY StepPreservesHalves
<1>2. TypeOK'
  BY <1>1, StepPreservesResult DEF TypeOK, ScanInv, CastInv
<1> QED
  BY <1>1, <1>2 DEF IInv

(* The invariant, from which the theorems follow. *)
THEOREM InvariantHolds == Spec => []IInv
  BY InitEstablishesIInv, StepPreservesIInv, PTL DEF Spec

(* The variables stay within what the code can store in them: handles of a *)
(* sweep, the multicast channel and what the callback keeps.               *)
THEOREM TypeCorrect == Spec => []TypeOK
<1>1. IInv => TypeOK
  BY DEF IInv
<1> QED
  BY <1>1, InvariantHolds, PTL

(* A host that nobody named never learns of this device through a sweep,   *)
(* whatever it answers: the /register fallback is for named hosts without  *)
(* an /info.                                                               *)
THEOREM StrangersAreToldNothing == Spec => []NoBlindDisclosure
<1>1. IInv => NoBlindDisclosure
  BY DEF IInv, ScanInv
<1> QED
  BY <1>1, InvariantHolds, PTL

(* A sweep returns the other devices that answered, each once, and calls   *)
(* itself complete exactly when it asked every host to the end.            *)
THEOREM SweepsAreExact == Spec => []OutcomeIsExact
<1>1. IInv => OutcomeIsExact
  BY DEF IInv, ScanInv
<1> QED
  BY <1>1, InvariantHolds, PTL

(* Multicast passes on, and finds, only devices that took our              *)
(* registration, and never this one.                                       *)
THEOREM FoundDevicesAreConfirmed == Spec => []FoundIsConfirmed
<1>1. IInv => FoundIsConfirmed
  BY DEF IInv, CastInv
<1> QED
  BY <1>1, InvariantHolds, PTL

(* What was looked for and confirmed while the callback listened is found, *)
(* or on its way to it, unless the callback has overrun its channel.       *)
THEOREM ConfirmedDevicesAreKept == Spec => []NothingConfirmedIsLost
<1>1. IInv => NothingConfirmedIsLost
  BY DEF IInv, CastInv
<1> QED
  BY <1>1, InvariantHolds, PTL
=============================================================================
