------------------------------- MODULE PinGate -------------------------------
(***************************************************************************)
(* The PIN gate in front of prepare-upload and of a Web Share              *)
(* (server/pin.rs).  Time is kept as the age of each peer's last wrong     *)
(* value, counted up to LOCKOUT: the code compares ages with LOCKOUT and,  *)
(* among entries younger than that, with each other.                       *)
(*                                                                         *)
(* guesses is not in the code: it remembers the wrong values of a peer of  *)
(* the last LOCKOUT, for as long as the gate has not forgotten the peer.   *)
(* A guess is its age and how many of the same age came before it.         *)
(***************************************************************************)
EXTENDS Integers, FiniteSets, Functions

CONSTANTS
  Peer,               (* peer addresses                                     *)
  Pin,                (* PIN values                                         *)
  None,               (* no PIN                                             *)
  MAX_FAILURES,
  LOCKOUT,
  MAX_TRACKED_PEERS,
  U32_MAX             (* where wrong_values saturates                       *)

ASSUME GateAssumption ==
  /\ MAX_FAILURES \in Nat \ {0}
  /\ LOCKOUT \in Nat \ {0}
  /\ MAX_TRACKED_PEERS \in Nat \ {0}
  /\ U32_MAX \in Nat
  /\ MAX_FAILURES <= U32_MAX
  /\ None \notin Pin

VARIABLES
  pin,             (* the PIN, or None                                      *)
  failures,        (* count and age of the last wrong value, of some peers  *)
  wrong_values,    (* wrong values since the last correct one               *)
  guesses          (* the recent wrong values of each peer                  *)

vars == <<pin, failures, wrong_values, guesses>>

Age == 0..LOCKOUT
Recent == 0..(LOCKOUT - 1)
Entry == [count : 1..MAX_FAILURES, age : Age]

Init ==
  /\ pin \in Pin \cup {None}
  /\ failures = << >>
  /\ wrong_values = 0
  /\ guesses = [p \in Peer |-> {}]

Tracked == DOMAIN failures

Live(p) == p \in Tracked /\ failures[p].age < LOCKOUT

(* Mutant: one guess more than MAX_FAILURES. *)
LockedOutLate(p) == Live(p) /\ failures[p].count > MAX_FAILURES

LockedOut(p) == Live(p) /\ failures[p].count >= MAX_FAILURES

(* What failures keeps of itself when only the peers of S stay. *)
Keep(table, S) == Restrict(table, S \cap DOMAIN table)

-----------------------------------------------------------------------------
(* check.  Without a PIN it answers Ok and touches nothing. *)

(* The entry of a peer whose lockout is over counts from nothing. *)
Unlocked(p) ==
  IF p \in Tracked /\ failures[p].count >= MAX_FAILURES
  THEN Keep(failures, Tracked \ {p})
  ELSE failures

(* Mutant: the youngest entry makes room. *)
RoomOfYoungest(table) ==
  IF Cardinality(DOMAIN table) < MAX_TRACKED_PEERS
  THEN {table}
  ELSE {Keep(table, DOMAIN table \ {p}) :
          p \in {q \in DOMAIN table :
                   \A r \in DOMAIN table : table[q].age <= table[r].age}}

(* make_room: when the table is full the expired entries go, and if that   *)
(* frees nothing the oldest one does.                                      *)
Roomy(table) ==
  IF Cardinality(DOMAIN table) < MAX_TRACKED_PEERS
  THEN {table}
  ELSE LET live == {p \in DOMAIN table : table[p].age < LOCKOUT}
           oldest == {p \in live :
                        \A q \in live : table[q].age <= table[p].age}
       IN  IF Cardinality(live) < MAX_TRACKED_PEERS
           THEN {Keep(table, live)}
           ELSE {Keep(table, live \ {p}) : p \in oldest}

(* Mutant: asking again starts the lockout again. *)
CheckExtendsLockout(p) ==
  /\ pin # None
  /\ LockedOut(p)
  /\ failures' = [failures EXCEPT ![p].age = 0]
  /\ UNCHANGED <<pin, wrong_values, guesses>>

(* 429, whatever the peer presents. *)
CheckLockedOut(p) ==
  /\ pin # None
  /\ LockedOut(p)
  /\ UNCHANGED vars

(* No PIN presented: 401, and no strike. *)
CheckNothing(p) ==
  /\ pin # None
  /\ ~LockedOut(p)
  /\ failures' = Unlocked(p)
  /\ UNCHANGED <<pin, wrong_values, guesses>>

(* The right PIN: Ok, cleared. *)
CheckRight(p) ==
  /\ pin # None
  /\ ~LockedOut(p)
  /\ failures' = Keep(failures, Tracked \ {p})
  /\ wrong_values' = 0
  /\ guesses' = [guesses EXCEPT ![p] = {}]
  /\ UNCHANGED pin

AtMost(n, bound) == IF n < bound THEN n ELSE bound

Strike(table, p) ==
  [q \in DOMAIN table \cup {p} |->
     IF q # p THEN table[q]
     ELSE [count |-> IF p \in DOMAIN table THEN table[p].count + 1 ELSE 1,
           age   |-> 0]]

JustNow(p) == {g \in guesses[p] : g[1] = 0}

(* A wrong PIN: 401.  Only a peer the table does not know makes room.      *)
CheckWrong(p) ==
  /\ pin # None
  /\ ~LockedOut(p)
  /\ wrong_values' = AtMost(wrong_values + 1, U32_MAX)
  /\ \E table \in IF p \in DOMAIN Unlocked(p) THEN {Unlocked(p)}
                  ELSE Roomy(Unlocked(p)) :
       /\ failures' = Strike(table, p)
       /\ guesses' = [q \in Peer |->
                        IF q = p
                        THEN guesses[p] \cup {<<0, Cardinality(JustNow(p))>>}
                        ELSE IF q \in Tracked \ DOMAIN table THEN {}
                        ELSE guesses[q]]
  /\ UNCHANGED pin

-----------------------------------------------------------------------------

(* PinGate::set *)
Set(value) ==
  /\ pin' = value
  /\ failures' = << >>
  /\ wrong_values' = 0
  /\ guesses' = [p \in Peer |-> {}]

(* The guesses that are not a LOCKOUT old yet, a moment later. *)
Older(past) ==
  {<<g[1] + 1, g[2]>> : g \in {h \in past : h[1] + 1 \in Recent}}

Tick ==
  /\ failures' = [p \in Tracked |->
                    [failures[p] EXCEPT !.age = AtMost(@ + 1, LOCKOUT)]]
  /\ guesses' = [p \in Peer |-> Older(guesses[p])]
  /\ UNCHANGED <<pin, wrong_values>>

Check(p) ==
  \/ CheckLockedOut(p)
  \/ CheckNothing(p)
  \/ CheckRight(p)
  \/ CheckWrong(p)

Next ==
  \/ \E p \in Peer : Check(p)
  \/ \E value \in Pin \cup {None} : Set(value)
  \/ Tick

Spec == Init /\ [][Next]_vars

(* Time passes. *)
FairSpec == Spec /\ WF_vars(Tick)

-----------------------------------------------------------------------------

(* The variables range over what the code can store in them; in particular *)
(* no peer is ever charged with more than MAX_FAILURES wrong values.       *)
TypeOK ==
  /\ pin \in Pin \cup {None}
  /\ Tracked \subseteq Peer
  /\ failures \in [Tracked -> Entry]
  /\ wrong_values \in 0..U32_MAX
  /\ guesses \in [Peer -> SUBSET (Recent \X Nat)]

(* "A bound, because the key is the sender's own address": however many    *)
(* addresses guess, the table stays within MAX_TRACKED_PEERS.              *)
TableBounded == Cardinality(Tracked) <= MAX_TRACKED_PEERS

(* Within any LOCKOUT a peer has at most MAX_FAILURES wrong values checked *)
(* against the PIN, through lockouts, their expiry and other peers'        *)
(* guesses, as long as it was not evicted, presented the right PIN, or saw *)
(* the PIN changed.                                                        *)
GuessBudget ==
  \A p \in Peer : Cardinality(guesses[p]) <= MAX_FAILURES

(* A lockout ends when LOCKOUT has passed or the PIN is changed.  Before   *)
(* that only a full table of entries none of which has expired gives one   *)
(* up, and it is "the entry closest to expiring anyway": a guess of a peer *)
(* already in the table never ends another's lockout.                      *)
LockoutHolds ==
  [][\A p \in Peer :
       LockedOut(p) =>
         \/ LockedOut(p)'
         \/ p \in Tracked' /\ failures'[p].age = LOCKOUT
         \/ \E value \in Pin \cup {None} : Set(value)
         \/ /\ Cardinality({q \in Tracked : Live(q)}) = MAX_TRACKED_PEERS
            /\ \A q \in Tracked : failures[q].age <= failures[p].age
            /\ \E q \in Peer \ Tracked : q \in Tracked']_vars

(* Asking during a lockout does not prolong it: every lockout ends.        *)
LockoutEnds == \A p \in Peer : LockedOut(p) ~> ~LockedOut(p)
=============================================================================
