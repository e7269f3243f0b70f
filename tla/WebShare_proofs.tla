--------------------------- MODULE WebShare_proofs ---------------------------
(***************************************************************************)
(* Proofs about WebShare, for every set of shares, requests, downloads and *)
(* finite sets of files.                                                   *)
(*                                                                         *)
(* The argument is that the map of sessions only ever holds sessions made  *)
(* in the running share, so that an approval entered in it is one for the  *)
(* files a download finds beside it.                                       *)
(***************************************************************************)
EXTENDS WebShare, FiniteSetTheorems, TLAPS

(* The map is of the running share, and what it says was permitted. *)
MapIsOfShare ==
  /\ sessions # {} => share # None
  /\ \A a \in sessions : made[a] = share /\ step[a] # "new"
  /\ approved \subseteq sessions
  /\ pending \subseteq sessions
  /\ \A a \in approved : Permitted(a, made[a])

(* What a handler heard was said. *)
AnswersAreGiven ==
  \A a \in Ask :
    /\ a \in pending => answer[a] = "empty"
    /\ answer[a] = "yes" \/ step[a] = "accepted" => a \in granted
    /\ step[a] = "new" =>
         /\ answer[a] = "empty"
         /\ made[a] = None
         /\ got[a] = {}
         /\ done[a] = 0
    /\ step[a] # "new" /\ made[a] = None => step[a] = "over"
    /\ a \in granted => made[a] # None
    /\ a \in known => step[a] \notin {"new", "sending"}

(* What a download reads is of the share its session was made in. *)
DownloadsAreOfShare ==
  \A d \in Download :
    at[d] # "idle" =>
      /\ of[d] \in Ask
      /\ source[d] \in Share
      /\ made[of[d]] = source[d]
      /\ file[d] \in Files[source[d]]

(* A session is reported when it has every file. *)
ClosingIsComplete ==
  \A d \in Download : at[d] = "closing" => got[of[d]] = Files[made[of[d]]]

IInv ==
  /\ TypeOK
  /\ MapIsOfShare
  /\ AnswersAreGiven
  /\ DownloadsAreOfShare
  /\ ClosingIsComplete
  /\ DownloadIsPermitted
  /\ ListIsPermitted
  /\ ParkedCanBeAnswered
  /\ DoneMeansDownloaded

-----------------------------------------------------------------------------

USE NoneAssumption, ShareAssumption

LEMMA InitEstablishesIInv == Init => IInv
<1> SUFFICES ASSUME Init PROVE IInv
  OBVIOUS
<1>1. TypeOK
  BY DEF Init, TypeOK
<1>2. MapIsOfShare /\ AnswersAreGiven
  BY DEF Init, MapIsOfShare, AnswersAreGiven
<1>3. DownloadsAreOfShare /\ ClosingIsComplete /\ DownloadIsPermitted
  BY DEF Init, DownloadsAreOfShare, ClosingIsComplete, DownloadIsPermitted
<1>4. ListIsPermitted /\ ParkedCanBeAnswered /\ DoneMeansDownloaded
  BY DEF Init, ListIsPermitted, ParkedCanBeAnswered, DoneMeansDownloaded
<1> QED
  BY <1>1, <1>2, <1>3, <1>4 DEF IInv

(* As many of the share's files as it has are all of them. *)
LEMMA AllAreTaken ==
  ASSUME NEW s \in Share, NEW S \in SUBSET Files[s],
         Cardinality(S) = Cardinality(Files[s])
  PROVE  S = Files[s]
<1>1. IsFiniteSet(Files[s])
  OBVIOUS
<1> QED
  BY <1>1, FS_Subset

LEMMA StepPreservesIInv == IInv /\ [Next]_vars => IInv'
<1> SUFFICES ASSUME IInv, [Next]_vars PROVE IInv'
  OBVIOUS
<1> USE DEF IInv, TypeOK, MapIsOfShare, AnswersAreGiven, ClosingIsComplete,
            DownloadsAreOfShare, DownloadIsPermitted, ListIsPermitted,
            ParkedCanBeAnswered, DoneMeansDownloaded, Permitted, hostVars,
            sessionVars, askVars, downloadVars, historyVars, Advances,
            Moves, List, DropSessions, HasReceiver
<1>1. ASSUME NEW s \in Share, StartShare(s) PROVE IInv'
  BY <1>1 DEF StartShare
<1>2. ASSUME StopShare PROVE IInv'
  BY <1>2 DEF StopShare
<1>3. ASSUME MarkDevice PROVE IInv'
  BY <1>3 DEF MarkDevice
<1>4. ASSUME NEW a \in Ask, NEW yes \in BOOLEAN, Respond(a, yes) PROVE IInv'
  <2> USE <1>4 DEF Respond
  <2>1. TypeOK'
    OBVIOUS
  <2>2. \A q \in Ask \ {a} : answer'[q] = answer[q]
    OBVIOUS
  <2>3. granted \subseteq granted' /\ made' = made /\ step' = step
    OBVIOUS
  <2>4. MapIsOfShare' /\ ListIsPermitted' /\ DownloadIsPermitted'
    BY <2>3
  <2>5. AnswersAreGiven'
    BY <2>2, <2>3
  <2>6. ParkedCanBeAnswered'
    BY <2>2
  <2>7. DownloadsAreOfShare' /\ ClosingIsComplete' /\ DoneMeansDownloaded'
    OBVIOUS
  <2> QED
    BY <2>1, <2>4, <2>5, <2>6, <2>7
<1>5. ASSUME NEW a \in Ask, TurnAway(a) PROVE IInv'
  BY <1>5 DEF TurnAway
<1>6. ASSUME NEW a \in Ask, MakeSession(a) PROVE IInv'
  <2> USE <1>6 DEF MakeSession
  <2>1. TypeOK'
    BY SMTT(30)
  <2>2. /\ \A q \in Ask \ {a} : /\ made'[q] = made[q]
                               /\ step'[q] = step[q]
                               /\ listed'[q] = listed[q]
        /\ made'[a] = share
        /\ step'[a] # "new"
    OBVIOUS
  <2>3. step[a] = "new" /\ made[a] = None /\ a \notin sessions
    OBVIOUS
  <2>4. MapIsOfShare'
    BY <2>2, <2>3
  <2>5. AnswersAreGiven'
    BY <2>2, <2>3
  <2>6. \A d \in Download : at[d] # "idle" => of[d] # a
    BY <2>3
  <2>7. DownloadsAreOfShare' /\ ClosingIsComplete' /\ DownloadIsPermitted'
    BY <2>2, <2>6
  <2>8. ListIsPermitted'
    BY <2>2, <2>3
  <2>9. ParkedCanBeAnswered'
    BY <2>2, <2>3
  <2>10. DoneMeansDownloaded'
    <3>1. got[a] = {} /\ done[a] = 0
      BY <2>3
    <3> QED
      BY <2>2, <3>1
  <2> QED
    BY <2>1, <2>4, <2>5, <2>7, <2>8, <2>9, <2>10
<1>7. ASSUME NEW a \in Ask, SendRequest(a) PROVE IInv'
  BY <1>7 DEF SendRequest
<1>8. ASSUME NEW a \in Ask, HearApproval(a) PROVE IInv'
  BY <1>8 DEF HearApproval
<1>9. ASSUME NEW a \in Ask, HearRefusal(a) PROVE IInv'
  BY <1>9 DEF HearRefusal
<1>10. ASSUME NEW a \in Ask, TimeOut(a) PROVE IInv'
  BY <1>10 DEF TimeOut
<1>11. ASSUME NEW a \in Ask, DropReceiver(a) PROVE IInv'
  BY <1>11 DEF DropReceiver
<1>12. ASSUME NEW a \in Ask, SettleAccepted(a) PROVE IInv'
  BY <1>12 DEF SettleAccepted
<1>13. ASSUME NEW a \in Ask, SettleRefused(a) PROVE IInv'
  BY <1>13 DEF SettleRefused
<1>14. ASSUME NEW a \in Ask, HangUp(a) PROVE IInv'
  BY <1>14 DEF HangUp
<1>15. ASSUME NEW a \in Ask, ListAgain(a) PROVE IInv'
  BY <1>15 DEF ListAgain
<1>16. ASSUME NEW d \in Download, NEW a \in Ask, NEW f \in File,
              BeginDownload(d, a, f)
       PROVE  IInv'
  BY <1>16 DEF BeginDownload
<1>17. ASSUME NEW d \in Download, BreakOff(d) PROVE IInv'
  BY <1>17 DEF BreakOff
<1>18. ASSUME NEW d \in Download, FinishFile(d) PROVE IInv'
  BY <1>18 DEF FinishFile
<1>19. ASSUME NEW d \in Download, RecordFile(d) PROVE IInv'
  <2> USE <1>19 DEF RecordFile
  <2>1. TypeOK'
    OBVIOUS
  <2>2. MapIsOfShare' /\ AnswersAreGiven' /\ ListIsPermitted'
        /\ ParkedCanBeAnswered' /\ DownloadIsPermitted'
    OBVIOUS
  <2>3. DownloadsAreOfShare'
    OBVIOUS
  <2> DEFINE a == of[d]
             all == got[a] \cup {file[d]}
  <2>4. a \in Ask /\ made[a] \in Share /\ file[d] \in Files[made[a]]
    OBVIOUS
  <2>7. all \subseteq Files[made[a]]
    BY <2>4
  <2>8. got[a] = Files[made[a]] => all = got[a]
    BY <2>4
  <2>5. CASE share # None /\ a \in sessions
    <3>1. made[a] = share
      BY <2>5
    <3>2. got' = [got EXCEPT ![a] = all]
      BY <2>5
    <3>3. done[a] > 0 => all = Files[made[a]]
      BY <2>4, <2>8
    <3>9. \A q \in Ask \ {a} : got'[q] = got[q]
      BY <2>4, <3>2
    <3>10. got'[a] = all
      BY <2>4, <3>2
    <3>11. made' = made /\ done' = done
      BY <2>5
    <3>4. DoneMeansDownloaded'
      <4>1. \A q \in Ask : got[q] # {} => got[q] \subseteq Files[made[q]]
        OBVIOUS
      <4>2. \A q \in Ask : done[q] > 0 => got[q] = Files[made[q]]
        OBVIOUS
      <4> HIDE DEF IInv, a, all
      <4> QED
        BY <2>7, <3>3, <3>9, <3>10, <3>11, <4>1, <4>2
    <3>5. at'[d] = "closing" => all = Files[share]
      BY <2>4, <2>5, <2>7, <3>1, AllAreTaken
    <3>6. \A e \in Download \ {d} : at'[e] = at[e]
      BY <2>5
    <3>7. \A e \in Download \ {d} :
             at[e] = "closing" /\ of[e] = a => all = Files[share]
      BY <2>4, <2>8, <3>1
    <3>12. of' = of /\ \A e \in Download : at[e] # "idle" => of[e] \in Ask
      BY <2>5
    <3>8. ClosingIsComplete'
      <4>1. \A e \in Download :
               at[e] = "closing" => got[of[e]] = Files[made[of[e]]]
        OBVIOUS
      <4>2. a = of[d] /\ a \in Ask
        BY <2>4
      <4> HIDE DEF IInv, a, all
      <4> QED
        BY <3>1, <3>5, <3>6, <3>7, <3>9, <3>10, <3>11, <3>12, <4>1, <4>2
    <3> QED
      BY <2>1, <2>2, <2>3, <3>4, <3>8
  <2>6. CASE ~(share # None /\ a \in sessions)
    BY <2>1, <2>2, <2>3, <2>6
  <2> QED
    BY <2>5, <2>6
<1>20. ASSUME NEW d \in Download, ReportDone(d) PROVE IInv'
  BY <1>20 DEF ReportDone
<1>21. CASE UNCHANGED vars
  BY <1>21 DEF vars
<1> HIDE DEF IInv
<1> QED
  BY <1>1, <1>2, <1>3, <1>4, <1>5, <1>6, <1>7, <1>8, <1>9, <1>10, <1>11,
     <1>12, <1>13, <1>14, <1>15, <1>16, <1>17, <1>18, <1>19, <1>20, <1>21
     DEF Next, Host, PrepareDownload, DownloadFile

LEMMA IInvHolds == Spec => []IInv
BY InitEstablishesIInv, StepPreservesIInv, PTL DEF Spec

-----------------------------------------------------------------------------

(* The variables of the share, its sessions and downloads stay in their    *)
(* types.                                                                  *)
THEOREM TypeCorrect == Spec => []TypeOK
<1>1. IInv => TypeOK
  BY DEF IInv
<1> QED
  BY <1>1, IInvHolds, PTL

(* Files of a share go to browsers approved in this very share. *)
THEOREM DownloadsArePermitted == Spec => []DownloadIsPermitted
<1>1. IInv => DownloadIsPermitted
  BY DEF IInv
<1> QED
  BY <1>1, IInvHolds, PTL

(* Lists are shown to approved browsers only. *)
THEOREM ListsArePermitted == Spec => []ListIsPermitted
<1>1. IInv => ListIsPermitted
  BY DEF IInv
<1> QED
  BY <1>1, IInvHolds, PTL

(* A parked handler can be given an answer, or has one coming. *)
THEOREM ParkedHandlersAreReachable == Spec => []ParkedCanBeAnswered
<1>1. IInv => ParkedCanBeAnswered
  BY DEF IInv
<1> QED
  BY <1>1, IInvHolds, PTL

(* A session is reported done with every file of its share taken. *)
THEOREM DoneIsComplete == Spec => []DoneMeansDownloaded
<1>1. IInv => DoneMeansDownloaded
  BY DEF IInv
<1> QED
  BY <1>1, IInvHolds, PTL
=============================================================================
