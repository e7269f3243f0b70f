--------------------------- MODULE AtomicFileSink ---------------------------
(***************************************************************************)
(* Where a received file lands (core/sink.rs, AtomicFileSink): a name is   *)
(* reserved by creating an empty file under it, the bytes go to a          *)
(* temporary beside it, and commit renames the temporary over the          *)
(* reservation, while abort and Drop remove both.                          *)
(*                                                                         *)
(* Every file system call is a job of the blocking pool.  A caller that is *)
(* dropped while it awaits one does not take it back: the job runs, and    *)
(* nothing after it does.  So a dropped receive stays where it is until    *)
(* its job has run, and is then done.                                      *)
(*                                                                         *)
(* faulty is not in the code: it remembers the receives that a failing     *)
(* call, or a power failure before commit answered Ok, has hit.            *)
(***************************************************************************)
EXTENDS Integers

CONSTANTS
  Receive,               (* calls of create, one per uploaded file          *)
  Name,                  (* names in the receive directory                  *)
  MaxCollisionAttempts,  (* MAX_COLLISION_ATTEMPTS                          *)
  Series,                (* the names a receive tries: name, name (1), ...  *)
  Absent, Reserved, Torn

Attempt == 0..MaxCollisionAttempts

ASSUME SeriesAssumption ==
  /\ MaxCollisionAttempts \in Nat
  /\ Series \in [Receive -> [Attempt -> Name]]

ASSUME ContentAssumption ==
  /\ {Absent, Reserved, Torn} \cap Receive = {}
  /\ Absent # Reserved /\ Absent # Torn /\ Reserved # Torn

VARIABLES
  at,         (* the call a receive is in                                   *)
  tries,      (* the attempt of reserve_free_name it is at, or took         *)
  dropped,    (* receives whose caller went away inside create, commit or   *)
              (* abort                                                      *)
  faulty,     (* receives hit by a failing call, or by a power failure      *)
              (* before commit answered Ok                                  *)
  disk,       (* what is under a name: Absent, Reserved (the empty file),   *)
              (* Torn, or the receive whose bytes are there                 *)
  temps,      (* receives whose temporary exists                            *)
  synced,     (* receives whose bytes are on stable storage                 *)
  settled,    (* receives whose rename is on stable storage                 *)
  published   (* receives whose commit has answered Ok                      *)

stable == <<synced, settled, published>>

vars == <<at, tries, dropped, faulty, disk, temps, stable>>

(* The await a receive is parked on; writing is the body, between create   *)
(* and commit or abort.                                                    *)
Call ==
  {"idle", "reserve", "open", "writing", "sync", "rename", "syncdir",
   "removetemp", "removename", "done"}

Init ==
  /\ at = [r \in Receive |-> "idle"]
  /\ tries = [r \in Receive |-> 0]
  /\ dropped = {}
  /\ faulty = {}
  /\ disk = [n \in Name |-> Absent]
  /\ temps = {}
  /\ synced = {}
  /\ settled = {}
  /\ published = {}

NameOf(r) == Series[r][tries[r]]

(* The job of a call ends; only a caller that is still there goes on. *)
Goes(r, from, to) ==
  /\ at[r] = from
  /\ at' = [at EXCEPT ![r] = IF r \in dropped THEN "done" ELSE to]

(* The job fails: commit and create give up and clean nothing up. *)
GivesUp(r, from) ==
  /\ Goes(r, from, "done")
  /\ faulty' = faulty \cup {r}
  /\ UNCHANGED <<tries, dropped, disk, temps, stable>>

-----------------------------------------------------------------------------
(* create *)

Create(r) ==
  /\ Goes(r, "idle", "reserve")
  /\ UNCHANGED <<tries, dropped, faulty, disk, temps, stable>>

(* create_new finds the name taken: the next one of the series, if any. *)
NameTaken(r) ==
  /\ disk[NameOf(r)] # Absent
  /\ IF tries[r] < MaxCollisionAttempts
     THEN /\ Goes(r, "reserve", "reserve")
          /\ tries' = [tries EXCEPT ![r] = @ + 1]
     ELSE Goes(r, "reserve", "done") /\ UNCHANGED tries
  /\ UNCHANGED <<dropped, faulty, disk, temps, stable>>

ReserveName(r) ==
  /\ disk[NameOf(r)] = Absent
  /\ disk' = [disk EXCEPT ![NameOf(r)] = Reserved]
  /\ Goes(r, "reserve", "open")
  /\ UNCHANGED <<tries, dropped, faulty, temps, stable>>

(* The temporary has a name of its own, a fresh uuid. *)
OpenTemp(r) ==
  /\ Goes(r, "open", "writing")
  /\ temps' = temps \cup {r}
  /\ UNCHANGED <<tries, dropped, faulty, disk, stable>>

CreateFails(r) == GivesUp(r, "reserve") \/ GivesUp(r, "open")

-----------------------------------------------------------------------------
(* commit *)

Commit(r) ==
  /\ Goes(r, "writing", "sync")
  /\ UNCHANGED <<tries, dropped, faulty, disk, temps, stable>>

(* Mutant: the bytes are left to the page cache. *)
SkipSync(r) ==
  /\ Goes(r, "sync", "rename")
  /\ UNCHANGED <<tries, dropped, faulty, disk, temps, stable>>

(* flush and sync_all *)
SyncTemp(r) ==
  /\ Goes(r, "sync", "rename")
  /\ synced' = synced \cup {r}
  /\ UNCHANGED <<tries, dropped, faulty, disk, temps, settled, published>>

Rename(r) ==
  /\ Goes(r, "rename", "syncdir")
  /\ disk' = [disk EXCEPT ![NameOf(r)] = r]
  /\ temps' = temps \ {r}
  /\ UNCHANGED <<tries, dropped, faulty, stable>>

(* Mutant: commit answers without syncing the directory. *)
SkipSyncDirectory(r) ==
  /\ Goes(r, "syncdir", "done")
  /\ published' = IF r \in dropped THEN published ELSE published \cup {r}
  /\ UNCHANGED <<tries, dropped, faulty, disk, temps, synced, settled>>

(* sync_directory is best effort: commit answers Ok whatever comes of it. *)
SyncDirectory(r) ==
  /\ Goes(r, "syncdir", "done")
  /\ \/ settled' = settled \cup {r} /\ UNCHANGED faulty
     \/ faulty' = faulty \cup {r} /\ UNCHANGED settled
  /\ published' = IF r \in dropped THEN published ELSE published \cup {r}
  /\ UNCHANGED <<tries, dropped, disk, temps, synced>>

CommitFails(r) == GivesUp(r, "sync") \/ GivesUp(r, "rename")

-----------------------------------------------------------------------------
(* abort and Drop *)

Abort(r) ==
  /\ Goes(r, "writing", "removetemp")
  /\ UNCHANGED <<tries, dropped, faulty, disk, temps, stable>>

(* Both removals are tried, whatever the first one answers. *)
RemoveTemp(r) ==
  /\ Goes(r, "removetemp", "removename")
  /\ \/ temps' = temps \ {r} /\ UNCHANGED faulty
     \/ faulty' = faulty \cup {r} /\ UNCHANGED temps
  /\ UNCHANGED <<tries, dropped, disk, stable>>

(* Mutant: abort forgets the reservation. *)
RemoveNoName(r) ==
  /\ Goes(r, "removename", "done")
  /\ UNCHANGED <<tries, dropped, faulty, disk, temps, stable>>

RemoveName(r) ==
  /\ Goes(r, "removename", "done")
  /\ \/ disk' = [disk EXCEPT ![NameOf(r)] = Absent] /\ UNCHANGED faulty
     \/ faulty' = faulty \cup {r} /\ UNCHANGED disk
  /\ UNCHANGED <<tries, dropped, temps, stable>>

(* Drop of a pending receive that still owns its temporary: both go at     *)
(* once, errors ignored.                                                   *)
DropPending(r) ==
  /\ at[r] = "writing"
  /\ at' = [at EXCEPT ![r] = "done"]
  /\ \/ /\ temps' = temps \ {r}
        /\ disk' = [disk EXCEPT ![NameOf(r)] = Absent]
        /\ UNCHANGED faulty
     \/ /\ temps' \in {temps, temps \ {r}}
        /\ disk' \in {disk, [disk EXCEPT ![NameOf(r)] = Absent]}
        /\ faulty' = faulty \cup {r}
  /\ UNCHANGED <<tries, dropped, stable>>

(* Mutant: Drop removes both files without asking who owns them. *)
DropRemovesAll(r) ==
  /\ at[r] \in Call \ {"idle", "writing", "done"}
  /\ dropped' = dropped \cup {r}
  /\ temps' = temps \ {r}
  /\ disk' = [disk EXCEPT ![NameOf(r)] = Absent]
  /\ UNCHANGED <<at, tries, faulty, stable>>

(* The caller goes away inside create, commit or abort. *)
DropCaller(r) ==
  /\ at[r] \in Call \ {"idle", "writing", "done"}
  /\ dropped' = dropped \cup {r}
  /\ UNCHANGED <<at, tries, faulty, disk, temps, stable>>

-----------------------------------------------------------------------------

(* What a receive did under a name may be undone by a power failure unless *)
(* its rename is on stable storage.                                        *)
Unsettled ==
  {n \in Name : /\ disk[n] \notin settled
                /\ \E r \in Receive : at[r] # "idle" /\ NameOf(r) = n}

(* The power fails.  Under unsettled names the empty file may be back and  *)
(* any file may be gone, and a file that was never synced loses its bytes. *)
(* At worst the temporary of every receive that has no settled file is     *)
(* back.  After the restart nothing looks for what is left.                *)
PowerFails ==
  /\ \E emptied, gone \in SUBSET Unsettled :
       disk' = [n \in Name |->
                  IF n \in emptied THEN Reserved
                  ELSE IF n \in gone THEN Absent
                  ELSE IF disk[n] \in Receive \ synced THEN Torn
                  ELSE disk[n]]
  /\ temps' = {r \in Receive \ settled :
                 /\ at[r] \notin {"idle", "reserve"}
                 /\ \A n \in Name : disk'[n] # r}
  /\ at' = [r \in Receive |-> IF at[r] = "idle" THEN "idle" ELSE "done"]
  /\ faulty' = faulty \cup
                 {r \in Receive \ (settled \cup published) : at[r] # "idle"}
  /\ UNCHANGED <<tries, dropped, stable>>

Step(r) ==
  \/ Create(r)
  \/ NameTaken(r)
  \/ ReserveName(r)
  \/ OpenTemp(r)
  \/ CreateFails(r)
  \/ Commit(r)
  \/ SyncTemp(r)
  \/ Rename(r)
  \/ SyncDirectory(r)
  \/ CommitFails(r)
  \/ Abort(r)
  \/ RemoveTemp(r)
  \/ RemoveName(r)
  \/ DropPending(r)
  \/ DropCaller(r)

Next == PowerFails \/ \E r \in Receive : Step(r)

Spec == Init /\ [][Next]_vars

-----------------------------------------------------------------------------

(* The variables range over what the code can store in them. *)
TypeOK ==
  /\ at \in [Receive -> Call]
  /\ tries \in [Receive -> Attempt]
  /\ dropped \subseteq Receive
  /\ faulty \subseteq Receive
  /\ disk \in [Name -> Receive \cup {Absent, Reserved, Torn}]
  /\ temps \subseteq Receive
  /\ synced \subseteq Receive
  /\ settled \subseteq Receive
  /\ published \subseteq Receive

(* The receive has reserved a name and not yet given it a meaning. *)
Reserves(r) ==
  at[r] \in {"open", "writing", "sync", "rename", "removetemp", "removename"}

(* Two receives under way never have the same name, and the name of each   *)
(* is still the empty file it created: "two senders offering `photo.jpg`   *)
(* at the same moment take `photo.jpg` and `photo (1).jpg`", also when a   *)
(* name of one series is a name of another.                                *)
ReservationsHold ==
  \A r \in Receive : Reserves(r) =>
    /\ disk[NameOf(r)] = Reserved
    /\ \A s \in Receive : Reserves(s) /\ NameOf(s) = NameOf(r) => s = r

(* A received file is never replaced by another and never removed, be it   *)
(* by a rename, an abort, a drop or a job whose caller is gone.  (A power  *)
(* failure may undo a rename that is not yet on stable storage.)           *)
ReceivedFileStays ==
  [][\A n \in Name :
       disk[n] \in Receive =>
         \/ disk'[n] = disk[n]
         \/ PowerFails /\ disk[n] \notin settled]_vars

(* "A crash leaves a correctly-named file full of zeroes ... worse than no *)
(* file at all, because nothing looks wrong": never.                       *)
NeverTorn == \A n \in Name : disk[n] # Torn

(* "Make the file visible, durably": what commit has answered Ok for is    *)
(* under its name, also after a power failure, unless the best-effort sync *)
(* of the directory had failed.                                            *)
CommittedIsDurable == \A r \in published \ faulty : disk[NameOf(r)] = r

(* A receive that is committed, aborted, turned away for want of a name,   *)
(* or dropped while its body arrives, leaves nothing behind: every empty   *)
(* file and every temporary belongs to a receive under way, or to one that *)
(* a fault or a drop inside create, commit or abort has hit.               *)
NothingLeftBehind ==
  /\ \A n \in Name :
       disk[n] = Reserved =>
         \E r \in Receive :
           NameOf(r) = n /\ (Reserves(r) \/ r \in faulty \cup dropped)
  /\ \A r \in temps : Reserves(r) \/ r \in faulty \cup dropped
=============================================================================
