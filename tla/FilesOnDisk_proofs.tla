-------------------------- MODULE FilesOnDisk_proofs --------------------------
(***************************************************************************)
(* Proofs about what the program writes to disk: received files            *)
(* (AtomicFileSink), for any number of receives and whatever the names of  *)
(* their series have in common, and the device's identity (TlsIdentity),   *)
(* for every set of processes and identities.  The two share no state.     *)
(***************************************************************************)
EXTENDS AtomicFileSink, TlsIdentity, TLAPS

(***************************************************************************)
(* Received files.                                                         *)
(***************************************************************************)

(* Bytes are on stable storage before they are given a name. *)
SyncedBeforeNamed ==
  /\ \A r \in Receive : at[r] \in {"rename", "syncdir"} => r \in synced
  /\ \A n \in Name : disk[n] \in Receive => disk[n] \in synced
  /\ settled \subseteq synced

SinkInv ==
  /\ TypeOK
  /\ ReservationsHold
  /\ NeverTorn
  /\ SyncedBeforeNamed

-----------------------------------------------------------------------------

LEMMA NameOfType == TypeOK => \A r \in Receive : NameOf(r) \in Name
BY SeriesAssumption DEF TypeOK, NameOf, Attempt

LEMMA InitSink == Init => SinkInv
BY SeriesAssumption, ContentAssumption
   DEF Init, SinkInv, TypeOK, ReservationsHold, NeverTorn,
       SyncedBeforeNamed, Reserves, Call, Attempt

(* A call that changes nothing but where one receive is, and whose receive *)
(* does not get nearer to having a name.                                   *)
LEMMA MovesOn ==
  ASSUME SinkInv, NEW r \in Receive,
         \/ Create(r) \/ CreateFails(r) \/ Commit(r) \/ CommitFails(r)
         \/ Abort(r)
  PROVE  SinkInv'
<1>1. /\ UNCHANGED <<tries, dropped, disk, temps, stable>>
      /\ faulty' \subseteq faulty \cup {r}
      /\ \E to \in {"reserve", "sync", "removetemp", "done"} :
           at' = [at EXCEPT ![r] = to]
      /\ at'[r] \in {"sync", "removetemp"} => at[r] = "writing"
  BY DEF Create, CreateFails, Commit, CommitFails, Abort, GivesUp, Goes,
         SinkInv, TypeOK, Call
<1>2. TypeOK'
  BY <1>1 DEF SinkInv, TypeOK, Call, stable
<1>3. \A s \in Receive : Reserves(s)' => Reserves(s)
  BY <1>1 DEF SinkInv, TypeOK, Reserves
<1>4. \A s \in Receive : NameOf(s)' = NameOf(s)
  BY <1>1 DEF NameOf
<1>5. ReservationsHold'
  BY <1>1, <1>3, <1>4 DEF SinkInv, ReservationsHold
<1>6. NeverTorn' /\ SyncedBeforeNamed'
  BY <1>1 DEF SinkInv, TypeOK, NeverTorn, SyncedBeforeNamed, stable
<1>7. QED
  BY <1>2, <1>5, <1>6 DEF SinkInv

(* The name of a receive under way is given up, kept, or becomes a file.   *)
LEMMA LeavesName ==
  ASSUME SinkInv, NEW r \in Receive, Reserves(r), ~Reserves(r)',
         \A s \in Receive : s # r => at'[s] = at[s],
         at'[r] \in {"syncdir", "done"},
         tries' = tries,
         \/ disk' = disk
         \/ disk' = [disk EXCEPT ![NameOf(r)] = Absent]
         \/ disk' = [disk EXCEPT ![NameOf(r)] = r]
  PROVE  ReservationsHold'
<1>1. \A s \in Receive : NameOf(s)' = NameOf(s)
  BY DEF NameOf
<1>2. \A s \in Receive : Reserves(s)' => s # r /\ Reserves(s)
  BY DEF Reserves
<1>3. \A s \in Receive : Reserves(s)' =>
        NameOf(s) # NameOf(r) /\ disk'[NameOf(s)] = disk[NameOf(s)]
  BY <1>2, NameOfType DEF SinkInv, TypeOK, ReservationsHold
<1>4. QED
  BY <1>1, <1>2, <1>3 DEF SinkInv, ReservationsHold

LEMMA StepPreservesSink == SinkInv /\ [Next]_vars => SinkInv'
<1> SUFFICES ASSUME SinkInv, [Next]_vars PROVE SinkInv'
  OBVIOUS
<1> USE ContentAssumption DEF stable
<1>1. ASSUME NEW r \in Receive, NameTaken(r) PROVE SinkInv'
  <2>1. /\ faulty' \subseteq faulty \cup {r}
        /\ UNCHANGED <<dropped, disk, temps, stable>>
        /\ at[r] = "reserve"
        /\ \E to \in {"reserve", "done"} : at' = [at EXCEPT ![r] = to]
    BY <1>1 DEF NameTaken, Goes
  <2>2. tries' \in [Receive -> Attempt]
    <3>1. tries[r] \in Attempt
      BY DEF SinkInv, TypeOK
    <3>2. tries[r] < MaxCollisionAttempts => tries[r] + 1 \in Attempt
      BY <3>1, SeriesAssumption DEF Attempt
    <3>3. \/ tries' = tries
          \/ /\ tries[r] < MaxCollisionAttempts
             /\ tries' = [tries EXCEPT ![r] = tries[r] + 1]
      BY <1>1 DEF NameTaken
    <3>4. QED
      BY <3>2, <3>3 DEF SinkInv, TypeOK
  <2>3. TypeOK'
    <3>1. at' \in [Receive -> Call]
      BY <2>1 DEF SinkInv, TypeOK, Call
    <3>2. QED
      BY <2>1, <2>2, <3>1 DEF SinkInv, TypeOK
  <2>4. \A s \in Receive : s # r => tries'[s] = tries[s]
    BY <1>1 DEF NameTaken, SinkInv, TypeOK
  <2>5. \A s \in Receive : Reserves(s)' =>
          Reserves(s) /\ NameOf(s)' = NameOf(s)
    BY <2>1, <2>4 DEF SinkInv, TypeOK, Reserves, NameOf
  <2>6. ReservationsHold'
    BY <2>1, <2>5 DEF SinkInv, ReservationsHold
  <2>7. NeverTorn' /\ SyncedBeforeNamed'
    BY <2>1 DEF SinkInv, TypeOK, NeverTorn, SyncedBeforeNamed
  <2>8. QED
    BY <2>3, <2>6, <2>7 DEF SinkInv
<1>2. ASSUME NEW r \in Receive, ReserveName(r) PROVE SinkInv'
  <2>1. /\ faulty' \subseteq faulty \cup {r}
        /\ UNCHANGED <<tries, dropped, temps, stable>>
        /\ disk[NameOf(r)] = Absent
        /\ disk' = [disk EXCEPT ![NameOf(r)] = Reserved]
        /\ at[r] = "reserve"
        /\ \E to \in {"open", "done"} : at' = [at EXCEPT ![r] = to]
    BY <1>2 DEF ReserveName, Goes
  <2>2. TypeOK'
    BY <2>1, NameOfType DEF SinkInv, TypeOK, Call
  <2>3. \A s \in Receive : NameOf(s)' = NameOf(s)
    BY <2>1 DEF NameOf
  <2>4. \A s \in Receive : s # r /\ Reserves(s)' =>
          Reserves(s) /\ disk[NameOf(s)] = Reserved
    BY <2>1 DEF SinkInv, TypeOK, ReservationsHold, Reserves
  <2>5. ReservationsHold'
    BY <2>1, <2>3, <2>4, NameOfType DEF SinkInv, TypeOK, ReservationsHold
  <2>6. NeverTorn' /\ SyncedBeforeNamed'
    BY <2>1 DEF SinkInv, TypeOK, NeverTorn, SyncedBeforeNamed
  <2>7. QED
    BY <2>2, <2>5, <2>6 DEF SinkInv
<1>3. ASSUME NEW r \in Receive,
             OpenTemp(r) \/ SyncTemp(r) \/ RemoveTemp(r)
      PROVE  SinkInv'
  <2>1. /\ faulty' \subseteq faulty \cup {r}
        /\ UNCHANGED <<tries, dropped, disk, settled, published>>
        /\ Reserves(r)
        /\ temps' \subseteq temps \cup {r}
        /\ synced' \in {synced, synced \cup {r}}
        /\ \E to \in {"writing", "rename", "removename", "done"} :
             /\ at' = [at EXCEPT ![r] = to]
             /\ to = "rename" => r \in synced'
    BY <1>3 DEF OpenTemp, SyncTemp, RemoveTemp, Goes, Reserves
  <2>2. TypeOK'
    BY <2>1 DEF SinkInv, TypeOK, Call
  <2>3. \A s \in Receive : NameOf(s)' = NameOf(s)
    BY <2>1 DEF NameOf
  <2>4. \A s \in Receive : Reserves(s)' => Reserves(s)
    BY <2>1 DEF SinkInv, TypeOK, Reserves
  <2>5. ReservationsHold'
    BY <2>1, <2>3, <2>4 DEF SinkInv, ReservationsHold
  <2>6. NeverTorn' /\ SyncedBeforeNamed'
    BY <2>1 DEF SinkInv, TypeOK, NeverTorn, SyncedBeforeNamed
  <2>7. QED
    BY <2>2, <2>5, <2>6 DEF SinkInv
<1>4. ASSUME NEW r \in Receive, Rename(r) PROVE SinkInv'
  <2>1. /\ faulty' \subseteq faulty \cup {r}
        /\ UNCHANGED <<tries, dropped, stable>>
        /\ at[r] = "rename"
        /\ disk' = [disk EXCEPT ![NameOf(r)] = r]
        /\ temps' \subseteq temps
        /\ \E to \in {"syncdir", "done"} : at' = [at EXCEPT ![r] = to]
    BY <1>4 DEF Rename, Goes
  <2>2. TypeOK'
    <3>1. disk' \in [Name -> Receive \cup {Absent, Reserved, Torn}]
      BY <2>1 DEF SinkInv, TypeOK
    <3>2. at' \in [Receive -> Call]
      BY <2>1 DEF SinkInv, TypeOK, Call
    <3>3. QED
      BY <2>1, <3>1, <3>2 DEF SinkInv, TypeOK
  <2>3. r \in synced
    BY <2>1 DEF SinkInv, SyncedBeforeNamed
  <2>4. ReservationsHold'
    BY <2>1, LeavesName DEF SinkInv, TypeOK, Reserves
  <2>5. NeverTorn' /\ SyncedBeforeNamed'
    BY <2>1, <2>3 DEF SinkInv, TypeOK, NeverTorn, SyncedBeforeNamed
  <2>6. QED
    BY <2>2, <2>4, <2>5 DEF SinkInv
<1>5. ASSUME NEW r \in Receive, SyncDirectory(r) PROVE SinkInv'
  <2>1. /\ faulty' \subseteq faulty \cup {r}
        /\ UNCHANGED <<tries, dropped, disk, temps, synced>>
        /\ at[r] = "syncdir"
        /\ at' = [at EXCEPT ![r] = "done"]
        /\ settled' \in {settled, settled \cup {r}}
        /\ published' \subseteq published \cup {r}
    BY <1>5 DEF SyncDirectory, Goes
  <2>2. TypeOK'
    BY <2>1 DEF SinkInv, TypeOK, Call
  <2>3. \A s \in Receive : /\ NameOf(s)' = NameOf(s)
                           /\ Reserves(s)' => Reserves(s)
    BY <2>1 DEF SinkInv, TypeOK, NameOf, Reserves
  <2>4. ReservationsHold'
    BY <2>1, <2>3 DEF SinkInv, ReservationsHold
  <2>5. NeverTorn' /\ SyncedBeforeNamed'
    BY <2>1 DEF SinkInv, TypeOK, NeverTorn, SyncedBeforeNamed
  <2>6. QED
    BY <2>2, <2>4, <2>5 DEF SinkInv
<1>6. ASSUME NEW r \in Receive, RemoveName(r) \/ DropPending(r) PROVE SinkInv'
  <2>1. /\ faulty' \subseteq faulty \cup {r}
        /\ UNCHANGED <<tries, stable>>
        /\ at[r] \in {"removename", "writing"}
        /\ at' = [at EXCEPT ![r] = "done"]
        /\ dropped' \subseteq dropped \cup {r}
        /\ temps' \subseteq temps
        /\ \/ disk' = disk
           \/ disk' = [disk EXCEPT ![NameOf(r)] = Absent]
    BY <1>6 DEF RemoveName, DropPending, Goes
  <2>2. TypeOK'
    BY <2>1, NameOfType DEF SinkInv, TypeOK, Call
  <2>3. ReservationsHold'
    BY <2>1, LeavesName DEF SinkInv, TypeOK, Reserves
  <2>4. NeverTorn' /\ SyncedBeforeNamed'
    BY <2>1, NameOfType DEF SinkInv, TypeOK, NeverTorn, SyncedBeforeNamed
  <2>5. QED
    BY <2>2, <2>3, <2>4 DEF SinkInv
<1>7. ASSUME NEW r \in Receive, DropCaller(r) PROVE SinkInv'
  BY <1>7 DEF DropCaller, SinkInv, TypeOK, ReservationsHold, NeverTorn,
     SyncedBeforeNamed, Reserves, NameOf
<1>8. ASSUME PowerFails PROVE SinkInv'
  <2>1. PICK emptied \in SUBSET Unsettled, gone \in SUBSET Unsettled :
          disk' = [n \in Name |->
                     IF n \in emptied THEN Reserved
                     ELSE IF n \in gone THEN Absent
                     ELSE IF disk[n] \in Receive \ synced THEN Torn
                     ELSE disk[n]]
    BY <1>8 DEF PowerFails
  <2>2. /\ at' = [r \in Receive |-> IF at[r] = "idle" THEN "idle" ELSE "done"]
        /\ temps' \subseteq Receive
        /\ faulty' \subseteq faulty \cup Receive
        /\ UNCHANGED <<tries, dropped, stable>>
    BY <1>8 DEF PowerFails
  <2>3. \A n \in Name : disk'[n] \in {disk[n], Reserved, Absent}
    BY <2>1 DEF SinkInv, SyncedBeforeNamed
  <2>4. TypeOK'
    <3>1. disk' \in [Name -> Receive \cup {Absent, Reserved, Torn}]
      BY <2>1 DEF SinkInv, TypeOK
    <3>2. at' \in [Receive -> Call]
      BY <2>2 DEF Call
    <3>3. QED
      BY <2>2, <3>1, <3>2 DEF SinkInv, TypeOK, stable
  <2>5. ReservationsHold'
    BY <2>2 DEF ReservationsHold, Reserves
  <2>6. NeverTorn' /\ SyncedBeforeNamed'
    BY <2>2, <2>3 DEF SinkInv, TypeOK, NeverTorn, SyncedBeforeNamed, stable
  <2>7. QED
    BY <2>4, <2>5, <2>6 DEF SinkInv
<1>9. ASSUME UNCHANGED vars PROVE SinkInv'
  BY <1>9 DEF vars, SinkInv, TypeOK, ReservationsHold, NeverTorn,
     SyncedBeforeNamed, Reserves, NameOf
<1>10. QED
  BY <1>1, <1>2, <1>3, <1>4, <1>5, <1>6, <1>7, <1>8, <1>9, MovesOn
     DEF Next, Step

LEMMA Sink == Spec => []SinkInv
BY InitSink, StepPreservesSink, PTL DEF Spec

(* Type correctness of the default sink. *)
THEOREM TypeCorrect == Spec => []TypeOK
BY Sink, PTL DEF SinkInv

(* Concurrent receives never share a name, and each finds its reservation  *)
(* as it left it, whatever fails, is dropped or loses power.               *)
THEOREM NamesAreExclusive == Spec => []ReservationsHold
BY Sink, PTL DEF SinkInv

(* No file is ever seen under its name without its bytes, not even after a *)
(* power failure.                                                          *)
THEOREM NoTornFile == Spec => []NeverTorn
BY Sink, PTL DEF SinkInv

(* No call of a receive touches a received file.                           *)
LEMMA CallsKeepFiles ==
  ASSUME SinkInv, NEW r \in Receive, Step(r),
         NEW n \in Name, disk[n] \in Receive
  PROVE  disk'[n] = disk[n]
<1>1. ASSUME Reserves(r) \/ ReserveName(r),
             NEW content, disk' = [disk EXCEPT ![NameOf(r)] = content]
      PROVE  disk'[n] = disk[n]
  <2>1. disk[NameOf(r)] \in {Reserved, Absent}
    <3>1. CASE Reserves(r)
      BY <3>1 DEF SinkInv, ReservationsHold
    <3>2. CASE ReserveName(r)
      BY <3>2 DEF ReserveName
    <3>3. QED
      BY <1>1, <3>1, <3>2
  <2>2. n # NameOf(r)
    BY <2>1, ContentAssumption
  <2>3. QED
    BY <1>1, <2>2 DEF SinkInv, TypeOK
<1>2. CASE ReserveName(r)
  BY <1>1, <1>2 DEF ReserveName
<1>3. CASE Rename(r)
  BY <1>1, <1>3 DEF Rename, Goes, Reserves
<1>4. CASE RemoveName(r) \/ DropPending(r)
  <2>1. Reserves(r)
    BY <1>4 DEF RemoveName, DropPending, Goes, Reserves
  <2>2. \/ disk' = [disk EXCEPT ![NameOf(r)] = Absent]
        \/ disk' = disk
    BY <1>4 DEF RemoveName, DropPending
  <2>3. QED
    BY <1>1, <2>1, <2>2
<1>5. CASE ~(ReserveName(r) \/ Rename(r) \/ RemoveName(r) \/ DropPending(r))
  BY <1>5
     DEF Step, Create, NameTaken, OpenTemp, CreateFails, Commit, SyncTemp,
         SyncDirectory, CommitFails, Abort, RemoveTemp, DropCaller, GivesUp,
         stable
<1>6. QED
  BY <1>2, <1>3, <1>4, <1>5

(* Nor does a power failure, once the rename is settled.                   *)
LEMMA PowerKeepsSettled ==
  ASSUME SinkInv, PowerFails, NEW n \in Name, disk[n] \in settled
  PROVE  disk'[n] = disk[n]
<1>1. PICK emptied \in SUBSET Unsettled, gone \in SUBSET Unsettled :
        disk' = [g \in Name |->
                   IF g \in emptied THEN Reserved
                   ELSE IF g \in gone THEN Absent
                   ELSE IF disk[g] \in Receive \ synced THEN Torn
                   ELSE disk[g]]
  BY DEF PowerFails
<1>2. disk[n] \in synced
  BY DEF SinkInv, SyncedBeforeNamed
<1>3. n \notin emptied \cup gone
  BY DEF Unsettled
<1>4. QED
  BY <1>1, <1>2, <1>3

(* A received file is neither replaced nor removed by any later receive.   *)
THEOREM ReceivedFilesStay == Spec => ReceivedFileStays
<1> DEFINE Kept == \A n \in Name :
                     disk[n] \in Receive =>
                       \/ disk'[n] = disk[n]
                       \/ PowerFails /\ disk[n] \notin settled
<1>1. ASSUME SinkInv, [Next]_vars PROVE Kept
  <2>1. ASSUME UNCHANGED vars PROVE Kept
    BY <2>1 DEF vars
  <2>2. QED
    BY <1>1, <2>1, CallsKeepFiles, PowerKeepsSettled DEF Next
<1>2. QED
  BY <1>1, Sink, PTL DEF Spec, ReceivedFileStays

-----------------------------------------------------------------------------

(* What is renamed is under its name; what is settled or published is over *)
(* and done with; and what was published without a fault is settled.       *)
DurableInv ==
  /\ \A r \in Receive :
       at[r] = "syncdir" \/ r \in settled => disk[NameOf(r)] = r
  /\ \A r \in settled \cup published : at[r] = "done"
  /\ published \ faulty \subseteq settled

(* What one step of a receive may do to its place and its history.         *)
LEMMA CallsMoveOne ==
  ASSUME SinkInv, NEW r \in Receive, Step(r)
  PROVE  /\ at[r] # "done"
         /\ \A s \in Receive : s # r => at'[s] = at[s]
         /\ \A s \in Receive :
              s # r \/ at[r] # "reserve" => NameOf(s)' = NameOf(s)
         /\ at'[r] = "syncdir" => Rename(r) \/ at[r] = "syncdir"
         /\ \/ UNCHANGED <<settled, published>>
            \/ SyncDirectory(r)
         /\ faulty \subseteq faulty'
         /\ dropped \subseteq dropped'
<1> USE DEF SinkInv, TypeOK, Goes, GivesUp, NameOf, stable
<1>1. CASE \/ Create(r) \/ NameTaken(r) \/ ReserveName(r) \/ OpenTemp(r)
           \/ CreateFails(r)
  BY <1>1 DEF Create, NameTaken, ReserveName, OpenTemp, CreateFails
<1>2. CASE \/ Commit(r) \/ SyncTemp(r) \/ Rename(r) \/ SyncDirectory(r)
           \/ CommitFails(r)
  BY <1>2 DEF Commit, SyncTemp, Rename, SyncDirectory, CommitFails
<1>3. CASE \/ Abort(r) \/ RemoveTemp(r) \/ RemoveName(r) \/ DropPending(r)
           \/ DropCaller(r)
  BY <1>3 DEF Abort, RemoveTemp, RemoveName, DropPending, DropCaller, Call
<1>4. QED
  BY <1>1, <1>2, <1>3 DEF Step

LEMMA StepPreservesDurable ==
  SinkInv /\ DurableInv /\ [Next]_vars => DurableInv'
<1> SUFFICES ASSUME SinkInv, DurableInv, [Next]_vars PROVE DurableInv'
  OBVIOUS
<1>1. ASSUME NEW r \in Receive, Step(r) PROVE DurableInv'
  <2>1. \A s \in Receive : disk[NameOf(s)] = s => disk'[NameOf(s)] = s
    BY <1>1, CallsKeepFiles, NameOfType DEF SinkInv
  <2>2. CASE Rename(r)
    <3>1. /\ disk'[NameOf(r)] = r
          /\ UNCHANGED <<tries, faulty, stable>>
          /\ at[r] = "rename"
      BY <2>2, NameOfType DEF Rename, Goes, SinkInv, TypeOK
    <3>2. \A s \in Receive : NameOf(s)' = NameOf(s)
      BY <3>1 DEF NameOf
    <3>3. QED
      BY <1>1, <2>1, <3>1, <3>2, CallsMoveOne
         DEF DurableInv, SinkInv, TypeOK, stable
  <2>3. CASE SyncDirectory(r)
    <3>1. /\ at[r] = "syncdir" /\ at'[r] = "done"
          /\ \/ settled' = settled \cup {r}
             \/ settled' = settled /\ r \in faulty'
          /\ published' \subseteq published \cup {r}
          /\ faulty \subseteq faulty'
      BY <2>3 DEF SyncDirectory, Goes, SinkInv, TypeOK
    <3>2. \A s \in Receive : NameOf(s)' = NameOf(s)
      BY <2>3 DEF SyncDirectory, NameOf
    <3>3. QED
      BY <1>1, <2>1, <3>1, <3>2, CallsMoveOne DEF DurableInv, SinkInv, TypeOK
  <2>4. CASE ~Rename(r) /\ ~SyncDirectory(r)
    <3>1. UNCHANGED <<settled, published>> /\ at[r] # "done"
      BY <1>1, <2>4, CallsMoveOne
    <3>2. \A s \in Receive :
            at'[s] = "syncdir" \/ s \in settled =>
              /\ at[s] = "syncdir" \/ s \in settled
              /\ NameOf(s)' = NameOf(s)
      BY <1>1, <2>4, <3>1, CallsMoveOne DEF DurableInv
    <3>3. QED
      BY <1>1, <2>1, <3>1, <3>2, CallsMoveOne DEF DurableInv, SinkInv, TypeOK
  <2>5. QED
    BY <2>2, <2>3, <2>4
<1>2. ASSUME PowerFails PROVE DurableInv'
  <2>1. /\ UNCHANGED <<tries, settled, published>>
        /\ faulty \subseteq faulty'
        /\ \A s \in Receive : /\ at'[s] # "syncdir"
                              /\ at[s] = "done" => at'[s] = "done"
    BY <1>2 DEF PowerFails, stable
  <2>2. \A s \in settled : disk'[NameOf(s)] = s /\ NameOf(s)' = NameOf(s)
    BY <1>2, <2>1, PowerKeepsSettled, NameOfType
       DEF DurableInv, SinkInv, TypeOK, NameOf
  <2>3. QED
    BY <2>1, <2>2 DEF DurableInv, SinkInv, TypeOK
<1>3. ASSUME UNCHANGED vars PROVE DurableInv'
  BY <1>3 DEF vars, stable, DurableInv, NameOf
<1>4. QED
  BY <1>1, <1>2, <1>3 DEF Next

LEMMA Durable == Spec => []DurableInv
<1>1. Init => DurableInv
  BY DEF Init, DurableInv
<1>2. QED
  BY <1>1, Sink, StepPreservesDurable, PTL DEF Spec

(* What commit answered Ok for is under its name for good, unless the      *)
(* best-effort sync of the directory had failed.                           *)
THEOREM CommitsAreDurable == Spec => []CommittedIsDurable
<1>1. SinkInv /\ DurableInv => CommittedIsDurable
  BY DEF SinkInv, TypeOK, DurableInv, CommittedIsDurable
<1>2. QED
  BY <1>1, Sink, Durable, PTL

-----------------------------------------------------------------------------

Hit == faulty \cup dropped

(* An empty file or a temporary has a receive that made it and has not yet *)
(* finished with it, or never will.  (Before its name is reserved a        *)
(* receive answers for nothing, as its name may still change.)             *)
LeftInv ==
  /\ \A n \in Name :
       disk[n] = Reserved =>
         \E r \in Receive : /\ NameOf(r) = n
                            /\ at[r] \notin {"idle", "reserve"}
                            /\ Reserves(r) \/ r \in Hit
  /\ \A r \in temps : /\ Reserves(r) \/ r \in Hit
                      /\ at[r] = "removename" => r \in Hit

(* A receive does not stop answering for what it leaves behind.            *)
LEMMA CallsCleanUp ==
  ASSUME SinkInv, LeftInv, NEW r \in Receive, Step(r)
  PROVE  /\ Reserves(r) => \/ Reserves(r)' \/ r \in Hit'
                           \/ disk'[NameOf(r)] # Reserved
         /\ at[r] \notin {"idle", "reserve"} =>
              at'[r] \notin {"idle", "reserve"}
         /\ \/ ReserveName(r)
            \/ \A n \in Name : disk'[n] = Reserved => disk[n] = Reserved
         /\ temps' \subseteq temps \cup {r}
         /\ r \in temps' => /\ Reserves(r)' \/ r \in Hit'
                            /\ at'[r] = "removename" => r \in Hit'
<1> USE ContentAssumption, NameOfType
    DEF SinkInv, TypeOK, LeftInv, Goes, GivesUp, Reserves, Hit
<1>1. CASE Create(r) \/ NameTaken(r) \/ ReserveName(r)
  BY <1>1 DEF Create, NameTaken, ReserveName
<1>2. CASE OpenTemp(r) \/ CreateFails(r)
  BY <1>2 DEF OpenTemp, CreateFails
<1>3. CASE Commit(r) \/ SyncTemp(r) \/ CommitFails(r)
  BY <1>3 DEF Commit, SyncTemp, CommitFails
<1>4. CASE Rename(r) \/ SyncDirectory(r)
  BY <1>4 DEF Rename, SyncDirectory
<1>5. CASE Abort(r) \/ RemoveTemp(r) \/ RemoveName(r)
  BY <1>5 DEF Abort, RemoveTemp, RemoveName
<1>6. CASE DropPending(r) \/ DropCaller(r)
  BY <1>6 DEF DropPending, DropCaller, Call
<1>7. QED
  BY <1>1, <1>2, <1>3, <1>4, <1>5, <1>6 DEF Step

LEMMA StepPreservesLeft ==
  SinkInv /\ DurableInv /\ LeftInv /\ [Next]_vars => LeftInv'
<1> SUFFICES ASSUME SinkInv, DurableInv, LeftInv, [Next]_vars PROVE LeftInv'
  OBVIOUS
<1>1. ASSUME NEW r \in Receive, Step(r) PROVE LeftInv'
  <2>1. /\ \A s \in Receive : s # r => /\ at'[s] = at[s]
                                       /\ NameOf(s)' = NameOf(s)
                                       /\ Reserves(s) => Reserves(s)'
        /\ Hit \subseteq Hit'
        /\ at[r] # "reserve" => NameOf(r)' = NameOf(r)
    BY <1>1, CallsMoveOne DEF Hit, Reserves
  <2>2. ASSUME NEW n \in Name, disk'[n] = Reserved
        PROVE  \E s \in Receive : /\ NameOf(s)' = n
                                  /\ at'[s] \notin {"idle", "reserve"}
                                  /\ Reserves(s)' \/ s \in Hit'
    <3>1. CASE disk[n] = Reserved
      <4>1. PICK s \in Receive : /\ NameOf(s) = n
                                 /\ at[s] \notin {"idle", "reserve"}
                                 /\ Reserves(s) \/ s \in Hit
        BY <3>1 DEF LeftInv
      <4>2. QED
        BY <1>1, <2>1, <2>2, <4>1, CallsCleanUp
    <3>2. CASE disk[n] # Reserved
      <4>1. /\ ReserveName(r)
            /\ NameOf(r) = n
        <5>1. ReserveName(r)
          BY <1>1, <2>2, <3>2, CallsCleanUp
        <5>2. QED
          BY <2>2, <3>2, <5>1 DEF ReserveName, SinkInv, TypeOK
      <4>2. /\ NameOf(r)' = n
            /\ at'[r] = IF r \in dropped' THEN "done" ELSE "open"
        BY <4>1 DEF ReserveName, Goes, NameOf, SinkInv, TypeOK
      <4>3. QED
        BY <4>2 DEF Reserves, Hit
    <3>3. QED
      BY <3>1, <3>2
  <2>3. ASSUME NEW s \in temps'
        PROVE  /\ Reserves(s)' \/ s \in Hit'
               /\ at'[s] = "removename" => s \in Hit'
    <3>1. CASE s = r
      BY <1>1, <2>3, <3>1, CallsCleanUp
    <3>2. CASE s # r
      <4>1. s \in temps /\ s \in Receive
        BY <1>1, <2>3, <3>2, CallsCleanUp DEF SinkInv, TypeOK
      <4>2. QED
        BY <2>1, <3>2, <4>1 DEF LeftInv
    <3>3. QED
      BY <3>1, <3>2
  <2>4. QED
    BY <2>2, <2>3 DEF LeftInv
<1>2. ASSUME PowerFails PROVE LeftInv'
  <2>1. /\ UNCHANGED <<tries, dropped, settled, published>>
        /\ faulty' = faulty \cup {r \in Receive \ (settled \cup published) :
                                    at[r] # "idle"}
        /\ at' = [r \in Receive |-> IF at[r] = "idle" THEN "idle" ELSE "done"]
        /\ \A r \in temps' : r \in Receive \ settled /\ at[r] # "idle"
    BY <1>2 DEF PowerFails, stable
  <2>2. \A r \in Receive \ settled : at[r] # "idle" => r \in Hit'
    BY <2>1 DEF DurableInv, Hit
  <2>3. ASSUME NEW n \in Name, disk'[n] = Reserved
        PROVE  \E r \in Receive \ settled : NameOf(r) = n /\ at[r] # "idle"
    <3>1. CASE n \in Unsettled
      <4>1. PICK r \in Receive : at[r] # "idle" /\ NameOf(r) = n
        BY <3>1 DEF Unsettled
      <4>2. r \notin settled
        BY <3>1, <4>1 DEF DurableInv, Unsettled
      <4>3. QED
        BY <4>1, <4>2
    <3>2. CASE n \notin Unsettled
      <4>1. disk[n] = Reserved
        BY <1>2, <2>3, <3>2, ContentAssumption DEF PowerFails
      <4>2. PICK r \in Receive : /\ NameOf(r) = n
                                 /\ at[r] \notin {"idle", "reserve"}
        BY <4>1 DEF LeftInv
      <4>3. r \notin settled
        BY <4>1, <4>2, ContentAssumption DEF DurableInv, SinkInv, TypeOK
      <4>4. QED
        BY <4>2, <4>3
    <3>3. QED
      BY <3>1, <3>2
  <2>4. \A r \in Receive : NameOf(r)' = NameOf(r)
    BY <2>1 DEF NameOf
  <2>5. QED
    BY <2>1, <2>2, <2>3, <2>4 DEF LeftInv, Reserves
<1>3. ASSUME UNCHANGED vars PROVE LeftInv'
  BY <1>3 DEF vars, LeftInv, NameOf, Reserves, Hit
<1>4. QED
  BY <1>1, <1>2, <1>3 DEF Next

(* What a receive leaves in the directory is explained by a fault, a power *)
(* failure or a caller that went away inside create, commit or abort.      *)
THEOREM LeavesNothing == Spec => []NothingLeftBehind
<1>1. Init => LeftInv
  BY ContentAssumption DEF Init, LeftInv
<1>2. LeftInv => NothingLeftBehind
  BY DEF LeftInv, NothingLeftBehind, Hit
<1>3. QED
  BY <1>1, <1>2, Sink, Durable, StepPreservesLeft, PTL DEF Spec

(***************************************************************************)
(* The identity.  Files are only written by the holder of the lock, who    *)
(* found no usable pair after it took it; and what a reader without the    *)
(* lock has seen can only match the key if nothing was written in between. *)
(***************************************************************************)

Holding == Steps \ {"idle", "reading", "comparing", "waiting", "locking"}

Writing == {"staging", "stagingKey", "publishing", "publishingKey",
            "verifying"}

(* Who is past the lock holds it. *)
LockIsHeld == \A p \in Process : step[p] \in Holding <=> lock = p

(* What a writer knows about the files. *)
WriterKnowsFiles ==
  \A p \in Process :
    /\ step[p] \in {"generating", "staging", "stagingKey", "publishing"} =>
         ~Usable(cert, key)
    /\ step[p] \in Writing => new[p] \in used
    /\ step[p] \in {"staging", "stagingKey", "publishing"} =>
         cert # new[p] /\ key # new[p]
    /\ step[p] = "publishingKey" => cert = new[p] /\ key # new[p]
    /\ step[p] = "verifying" => cert = new[p] /\ key = new[p]

(* What is in the files was generated. *)
FilesAreUsed == {cert, key} \cap Identity \subseteq used

(* What a reader without the lock knows about them. *)
ReaderKnowsFiles ==
  \A p \in Process :
    step[p] = "comparing" /\ Usable(seen[p], key) => cert = key

(* Half a pair is one that is being written, or was left behind. *)
HalfIsExplained ==
  Half(cert, key) =>
    broken \/ \E p \in Process : step[p] = "publishingKey"

StagedIsOfWriter ==
  \A i \in Identity :
    <<i, "cert">> \in staged =>
      \/ i \in killed
      \/ \E p \in Process : /\ lock = p
                            /\ new[p] = i
                            /\ step[p] \in {"stagingKey", "publishing"}

IdentityInv ==
  /\ IdentityTypeOK
  /\ LockIsHeld
  /\ WriterKnowsFiles
  /\ FilesAreUsed
  /\ ReaderKnowsFiles
  /\ HalfIsExplained
  /\ StagedIsOfWriter
  /\ ToldIsStored
  /\ ErrorsHaveACause

-----------------------------------------------------------------------------

USE IdentityAssumption

LEMMA InitEstablishesIdentity == IdentityInit => IdentityInv
<1> SUFFICES ASSUME IdentityInit PROVE IdentityInv
  OBVIOUS
<1>1. IdentityTypeOK
  BY DEF IdentityInit, IdentityTypeOK, Content, Part, Steps, Half
<1>2. LockIsHeld /\ WriterKnowsFiles /\ ReaderKnowsFiles
  BY DEF IdentityInit, LockIsHeld, WriterKnowsFiles, ReaderKnowsFiles, Holding,
         Writing, Steps
<1>3. FilesAreUsed /\ HalfIsExplained /\ StagedIsOfWriter
  BY DEF IdentityInit, FilesAreUsed, HalfIsExplained, StagedIsOfWriter
<1>4. ToldIsStored /\ ErrorsHaveACause
  BY DEF IdentityInit, ToldIsStored, ErrorsHaveACause
<1> QED
  BY <1>1, <1>2, <1>3, <1>4 DEF IdentityInv

LEMMA PublishesKey ==
  ASSUME NEW p \in Process, PublishKey(p)
  PROVE  step[p] = "publishingKey"
BY DEF PublishKey, Advances, Fails, Errs

LEMMA StepPreservesIdentity ==
  IdentityInv /\ [IdentityNext]_identityVars => IdentityInv'
<1> SUFFICES ASSUME IdentityInv, [IdentityNext]_identityVars PROVE IdentityInv'
  OBVIOUS
<1> USE DEF IdentityInv, IdentityTypeOK, Content, Part, Steps, Holding,
            Writing, LockIsHeld,
            WriterKnowsFiles, FilesAreUsed, ReaderKnowsFiles,
            HalfIsExplained, StagedIsOfWriter, ToldIsStored,
            ErrorsHaveACause, Usable, Half, fileVars, historyVars,
            Advances, Unlock, Returns, Errs, Fails
<1>1. ASSUME NEW p \in Process, LoadOrGenerate(p) PROVE IdentityInv'
  BY <1>1 DEF LoadOrGenerate
<1>2. ASSUME NEW p \in Process, ReadCert(p) PROVE IdentityInv'
  BY <1>2 DEF ReadCert
<1>3. ASSUME NEW p \in Process, ReadKey(p) PROVE IdentityInv'
  BY <1>3 DEF ReadKey
<1>4. ASSUME NEW p \in Process, OpenLock(p) PROVE IdentityInv'
  BY <1>4 DEF OpenLock
<1>5. ASSUME NEW p \in Process, Lock(p) PROVE IdentityInv'
  BY <1>5 DEF Lock
<1>6. ASSUME NEW p \in Process, LockFails(p) PROVE IdentityInv'
  BY <1>6 DEF LockFails
<1>7. ASSUME NEW p \in Process, LookAgain(p) PROVE IdentityInv'
  BY <1>7 DEF LookAgain
<1>8. ASSUME NEW p \in Process, Generate(p) PROVE IdentityInv'
  BY <1>8 DEF Generate
<1>9. ASSUME NEW p \in Process, StageCert(p) PROVE IdentityInv'
  BY <1>9 DEF StageCert
<1>10. ASSUME NEW p \in Process, StageKey(p) PROVE IdentityInv'
  BY <1>10 DEF StageKey
<1>11. ASSUME NEW p \in Process, PublishCert(p) PROVE IdentityInv'
  BY <1>11 DEF PublishCert
<1>12. ASSUME NEW p \in Process, PublishKey(p) PROVE IdentityInv'
  <2> USE <1>12 DEF PublishKey
  <2>1. IdentityTypeOK'
    <3>1. broken' \in BOOLEAN
      BY <1>12
    <3>2. /\ cert' \in Content /\ key' \in Content /\ staged' \subseteq Part
          /\ lock' \in Process \cup {None}
          /\ failed' \subseteq Process
      BY <1>12
    <3>3. /\ step' \in [Process -> Steps]
          /\ result' \in [Process -> Identity \cup {None, "error"}]
      BY <1>12
    <3>4. /\ used' = used /\ seen' = seen /\ new' = new /\ told' = told
          /\ killed' = killed
      BY <1>12
    <3> QED
      BY <3>1, <3>2, <3>3, <3>4
  <2>12. step[p] = "publishingKey"
    BY <1>12, PublishesKey
  <2>2. lock = p /\ cert = new[p] /\ key # new[p] /\ new[p] \in Identity
    BY <2>12
  <2>3. \A q \in Process \ {p} : step'[q] = step[q] /\ step[q] \notin Holding
    BY <2>2
  <2>4. told = {} /\ told' = told
    BY <2>2
  <2>5. LockIsHeld'
    BY <2>2, <2>3
  <2>6. WriterKnowsFiles'
    BY <2>2, <2>3
  <2>7. FilesAreUsed'
    BY <2>2
  <2>8. ReaderKnowsFiles'
    BY <2>2, <2>3
  <2>9. HalfIsExplained'
    BY <2>2
  <2>10. StagedIsOfWriter'
    BY <2>2
  <2>11. ToldIsStored' /\ ErrorsHaveACause'
    BY <2>4
  <2> QED
    BY <2>1, <2>5, <2>6, <2>7, <2>8, <2>9, <2>10, <2>11
<1>13. ASSUME NEW p \in Process, ReadBack(p) PROVE IdentityInv'
  BY <1>13 DEF ReadBack
<1>14. ASSUME NEW p \in Process, Crash(p) PROVE IdentityInv'
  <2> USE <1>14 DEF Crash
  <2>1. IdentityTypeOK'
    <3>1. broken' \in BOOLEAN
      BY <1>14
    <3>2. /\ lock' \in Process \cup {None}
          /\ failed' \subseteq Process
          /\ killed' \subseteq Identity
          /\ step' \in [Process -> Steps]
      BY <1>14
    <3> QED
      BY <3>1, <3>2
  <2>2. \A q \in Process \ {p} : step'[q] = step[q]
    OBVIOUS
  <2>3. step'[p] = "idle" /\ lock' # p
    OBVIOUS
  <2>4. LockIsHeld'
    BY <2>2, <2>3
  <2>5. WriterKnowsFiles' /\ FilesAreUsed' /\ ReaderKnowsFiles'
    BY <2>2, <2>3
  <2>9. Half(cert, key) /\ ~broken /\ step[p] # "publishingKey" =>
          \E q \in Process \ {p} : step[q] = "publishingKey"
    OBVIOUS
  <2>6. HalfIsExplained'
    <3>1. CASE ~Half(cert, key) \/ broken'
      BY <3>1
    <3>2. CASE Half(cert, key) /\ ~broken'
      BY <2>2, <2>9, <3>2
    <3> QED
      BY <3>1, <3>2
  <2>7. StagedIsOfWriter'
    BY <2>2, <2>3
  <2>8. ToldIsStored' /\ ErrorsHaveACause'
    OBVIOUS
  <2> QED
    BY <2>1, <2>4, <2>5, <2>6, <2>7, <2>8
<1>15. CASE UNCHANGED identityVars
  BY <1>15 DEF identityVars, callVars
<1> HIDE DEF IdentityInv
<1> QED
  BY <1>1, <1>2, <1>3, <1>4, <1>5, <1>6, <1>7, <1>8, <1>9, <1>10, <1>11,
     <1>12, <1>13, <1>14, <1>15 DEF IdentityNext, Load, Write

LEMMA IdentityInvHolds == IdentitySpec => []IdentityInv
BY InitEstablishesIdentity, StepPreservesIdentity, PTL DEF IdentitySpec

-----------------------------------------------------------------------------

(* The files, the lock and the calls stay in their types. *)
THEOREM IdentityTypeCorrect == IdentitySpec => []IdentityTypeOK
<1>1. IdentityInv => IdentityTypeOK
  BY DEF IdentityInv
<1> QED
  BY <1>1, IdentityInvHolds, PTL

(* Every identity a caller was ever told is the one on disk. *)
THEOREM ToldStaysStored == IdentitySpec => []ToldIsStored
<1>1. IdentityInv => ToldIsStored
  BY DEF IdentityInv
<1> QED
  BY <1>1, IdentityInvHolds, PTL

(* A caller fails for a failure of its own or half a pair left behind. *)
THEOREM ErrorsAreCaused == IdentitySpec => []ErrorsHaveACause
<1>1. IdentityInv => ErrorsHaveACause
  BY DEF IdentityInv
<1> QED
  BY <1>1, IdentityInvHolds, PTL

(* A staged certificate has a writer that holds the lock or was killed. *)
THEOREM StagedCertsAreInUse == IdentitySpec => []StagedCertIsInUse
<1>1. IdentityInv => StagedCertIsInUse
  BY DEF IdentityInv, StagedIsOfWriter, StagedCertIsInUse
<1> QED
  BY <1>1, IdentityInvHolds, PTL

(* The two files and the calls that read and write them are one identity   *)
(* that is set once and told to everyone.                                  *)
THEOREM StoreIsOneIdentity == IdentitySpec => ImplementsOneIdentity
<1> DEFINE id == IF Usable(cert, key) THEN cert ELSE None
<1>1. IdentityInit => Store!Init
  BY DEF IdentityInit, Store!Init, Usable
<1>2. IdentityInv /\ IdentityInv' /\ [IdentityNext]_identityVars =>
        [Store!Establish \/ Store!Tell]_<<id, told>>
  <2> SUFFICES ASSUME IdentityInv, IdentityInv', [IdentityNext]_identityVars
               PROVE  [Store!Establish \/ Store!Tell]_<<id, told>>
    OBVIOUS
  <2>1. id \in Identity \cup {None} /\ id' \in Identity \cup {None}
    BY DEF Usable
  <2>2. ASSUME NEW p \in Process, NEW from \in Steps, NEW i \in Identity,
               Returns(p, from, i), id = i, id' = id
        PROVE  Store!Tell
    BY <2>2 DEF Returns, Store!Tell
  <2>3. ASSUME NEW p \in Process, ReadKey(p)
        PROVE  Store!Tell \/ UNCHANGED <<id, told>>
    <3>1. id' = id
      BY <2>3 DEF ReadKey, fileVars, Usable
    <3>2. CASE Usable(seen[p], key) /\ Returns(p, "comparing", seen[p])
      <4>1. seen[p] = id /\ seen[p] \in Identity
        BY <3>2 DEF Usable, Returns, Advances, IdentityInv, ReaderKnowsFiles
      <4> QED
        BY <2>2, <3>1, <3>2, <4>1 DEF Steps
    <3>3. CASE UNCHANGED told
      BY <3>1, <3>3
    <3> QED
      BY <2>3, <3>2, <3>3 DEF ReadKey
  <2>4. ASSUME NEW p \in Process, LookAgain(p)
        PROVE  Store!Tell \/ UNCHANGED <<id, told>>
    <3>1. id' = id
      BY <2>4 DEF LookAgain, fileVars, Usable
    <3>2. CASE Usable(cert, key) /\ Returns(p, "locked", cert)
      BY <2>2, <3>1, <3>2 DEF Usable, Steps
    <3>3. CASE UNCHANGED told
      BY <3>1, <3>3
    <3> QED
      BY <2>4, <3>2, <3>3 DEF LookAgain, Errs, Fails
  <2>5. ASSUME NEW p \in Process, ReadBack(p)
        PROVE  Store!Tell \/ UNCHANGED <<id, told>>
    <3>1. id' = id
      BY <2>5 DEF ReadBack, fileVars, Usable
    <3>2. CASE \E i \in Identity : id = i /\ Returns(p, "verifying", i)
      BY <2>2, <3>1, <3>2 DEF Steps
    <3>3. CASE UNCHANGED told
      BY <3>1, <3>3
    <3>4. step[p] = "verifying"
      BY <2>5 DEF ReadBack, Returns, Errs, Advances
    <3>5. cert = new[p] /\ key = new[p] /\ new[p] \in Identity
      BY <3>4 DEF IdentityInv, WriterKnowsFiles, IdentityTypeOK, Writing
    <3>6. id = new[p] /\ id = cert
      BY <3>5 DEF Usable
    <3> QED
      BY <2>5, <3>2, <3>3, <3>5, <3>6 DEF ReadBack, Errs
  <2>6. ASSUME NEW p \in Process, PublishCert(p)
        PROVE  UNCHANGED <<id, told>>
    BY <2>6 DEF PublishCert, Advances, Fails, Errs, IdentityInv,
               WriterKnowsFiles,
                Usable
  <2>7. ASSUME NEW p \in Process, PublishKey(p)
        PROVE  Store!Establish \/ UNCHANGED <<id, told>>
    <3>1. step[p] = "publishingKey" /\ told' = told
      BY <2>7 DEF PublishKey, Advances, Fails, Errs
    <3>2. cert = new[p] /\ key # new[p]
      BY <3>1 DEF IdentityInv, WriterKnowsFiles
    <3>3. id = None
      BY <3>2 DEF Usable
    <3> QED
      BY <2>1, <3>1, <3>3 DEF Store!Establish
  <2>8. CASE \E p \in Process :
               \/ LoadOrGenerate(p) \/ ReadCert(p) \/ OpenLock(p) \/ Lock(p)
               \/ LockFails(p) \/ Generate(p) \/ StageCert(p) \/ StageKey(p)
               \/ Crash(p)
    <3>1. UNCHANGED <<cert, key, told>>
      BY <2>8 DEF LoadOrGenerate, ReadCert, OpenLock, Lock, LockFails,
                  Generate,
                  StageCert, StageKey, Crash, fileVars, historyVars, Fails,
                  Errs
    <3> QED
      BY <3>1 DEF Usable
  <2>9. CASE UNCHANGED identityVars
    BY <2>9 DEF identityVars, fileVars, historyVars, Usable
  <2> QED
    BY <2>3, <2>4, <2>5, <2>6, <2>7, <2>8, <2>9 DEF IdentityNext, Load, Write
<1> QED
  BY <1>1, <1>2, IdentityInvHolds, PTL
     DEF IdentitySpec, ImplementsOneIdentity, Store!Spec
===============================================================================
