--------------------------- MODULE PinGate_proofs ---------------------------
(***************************************************************************)
(* Proofs about PinGate, for every number of peers and every value of the  *)
(* gate's constants.                                                       *)
(***************************************************************************)
EXTENDS PinGate, FiniteSetTheorems, TLAPS

Small(table) ==
  /\ IsFiniteSet(DOMAIN table)
  /\ Cardinality(DOMAIN table) <= MAX_TRACKED_PEERS

Sound(table) ==
  /\ DOMAIN table \subseteq Peer
  /\ table \in [DOMAIN table -> Entry]

Past == {past \in SUBSET (Recent \X Nat) : IsFiniteSet(past)}

GateInv ==
  /\ TypeOK
  /\ Small(failures)
  /\ guesses \in [Peer -> Past]

-----------------------------------------------------------------------------
(* What the gate does to its table. *)

LEMMA KeepDomain ==
  ASSUME NEW table, NEW S
  PROVE  /\ DOMAIN Keep(table, S) = S \cap DOMAIN table
         /\ \A p \in S \cap DOMAIN table : Keep(table, S)[p] = table[p]
BY DEF Keep, Restrict

(* Taking peers out leaves a small and sound table. *)
LEMMA KeepIsSmall ==
  ASSUME NEW table, NEW S, Small(table), Sound(table)
  PROVE  Small(Keep(table, S)) /\ Sound(Keep(table, S))
<1>1. DOMAIN Keep(table, S) \subseteq DOMAIN table
  BY DEF Keep, Restrict
<1>2. /\ IsFiniteSet(DOMAIN Keep(table, S))
      /\ Cardinality(DOMAIN Keep(table, S)) <= Cardinality(DOMAIN table)
  BY <1>1, FS_Subset DEF Small
<1>3. /\ Cardinality(DOMAIN Keep(table, S)) \in Nat
      /\ Cardinality(DOMAIN table) \in Nat
  BY <1>2, FS_CardinalityType DEF Small
<1>4. Small(Keep(table, S))
  BY <1>2, <1>3, GateAssumption DEF Small
<1>5. Sound(Keep(table, S))
  BY <1>1, KeepDomain DEF Sound, Keep, Restrict
<1>6. QED
  BY <1>4, <1>5

(* make_room leaves room for one more. *)
LEMMA RoomForOne ==
  ASSUME NEW table, Small(table), Sound(table), NEW roomy \in Roomy(table)
  PROVE  /\ Small(roomy) /\ Sound(roomy)
         /\ Cardinality(DOMAIN roomy) < MAX_TRACKED_PEERS
         /\ DOMAIN roomy \subseteq DOMAIN table
<1> DEFINE live == {p \in DOMAIN table : table[p].age < LOCKOUT}
<1>1. CASE Cardinality(DOMAIN table) < MAX_TRACKED_PEERS
  BY <1>1 DEF Roomy
<1>2. CASE /\ ~(Cardinality(DOMAIN table) < MAX_TRACKED_PEERS)
           /\ Cardinality(live) < MAX_TRACKED_PEERS
  <2>1. roomy = Keep(table, live)
    BY <1>2 DEF Roomy
  <2>2. DOMAIN roomy = live
    <3>1. DOMAIN Keep(table, live) = live \cap DOMAIN table
      BY KeepDomain
    <3>2. live \cap DOMAIN table = live
      OBVIOUS
    <3>3. QED
      BY <2>1, <3>1, <3>2
  <2>3. QED
    BY <1>2, <2>1, <2>2, KeepIsSmall
<1>3. CASE /\ ~(Cardinality(DOMAIN table) < MAX_TRACKED_PEERS)
           /\ ~(Cardinality(live) < MAX_TRACKED_PEERS)
  <2>1. PICK p \in live : roomy = Keep(table, live \ {p})
    BY <1>3 DEF Roomy
  <2>2. DOMAIN roomy = live \ {p}
    <3>1. DOMAIN Keep(table, live \ {p}) = (live \ {p}) \cap DOMAIN table
      BY KeepDomain
    <3>2. (live \ {p}) \cap DOMAIN table = live \ {p}
      OBVIOUS
    <3>3. QED
      BY <2>1, <3>1, <3>2
  <2>3. /\ IsFiniteSet(live)
        /\ Cardinality(live) <= Cardinality(DOMAIN table)
    BY FS_Subset DEF Small
  <2>4. /\ Cardinality(live) \in Nat
        /\ Cardinality(DOMAIN table) \in Nat
    BY <2>3, FS_CardinalityType DEF Small
  <2>5. Cardinality(live \ {p}) = Cardinality(live) - 1
    BY <2>1, <2>3, FS_RemoveElement
  <2>6. Cardinality(DOMAIN roomy) < MAX_TRACKED_PEERS
    BY <2>2, <2>3, <2>4, <2>5, GateAssumption DEF Small
  <2>7. QED
    BY <2>1, <2>2, <2>6, KeepIsSmall
<1>4. QED
  BY <1>1, <1>2, <1>3

(* Charging a peer that is in the table, or for whom there is room. *)
LEMMA StrikeIsSmall ==
  ASSUME NEW table, NEW p \in Peer, Small(table), Sound(table),
         \/ p \in DOMAIN table /\ table[p].count < MAX_FAILURES
         \/ p \notin DOMAIN table
            /\ Cardinality(DOMAIN table) < MAX_TRACKED_PEERS
  PROVE  Small(Strike(table, p)) /\ Sound(Strike(table, p))
<1>1. DOMAIN Strike(table, p) = DOMAIN table \cup {p}
  BY DEF Strike
<1>2. Small(Strike(table, p))
  <2>1. CASE p \in DOMAIN table
    <3>1. DOMAIN Strike(table, p) = DOMAIN table
      BY <1>1, <2>1
    <3>2. QED
      BY <3>1 DEF Small
  <2>2. CASE p \notin DOMAIN table
    <3>1. /\ IsFiniteSet(DOMAIN table \cup {p})
          /\ Cardinality(DOMAIN table \cup {p})
               = Cardinality(DOMAIN table) + 1
      BY <2>2, FS_AddElement DEF Small
    <3>2. Cardinality(DOMAIN table) \in Nat
      BY FS_CardinalityType DEF Small
    <3>3. QED
      BY <1>1, <2>2, <3>1, <3>2, GateAssumption DEF Small
  <2>3. QED
    BY <2>1, <2>2
<1>3. Sound(Strike(table, p))
  <2>1. ASSUME NEW q \in DOMAIN table \cup {p}
        PROVE  Strike(table, p)[q] \in Entry
    <3>1. CASE q # p
      BY <3>1, <2>1 DEF Strike, Sound
    <3>2. CASE q = p /\ p \in DOMAIN table
      <4>1. /\ table[p].count + 1 \in 1..MAX_FAILURES
        BY <3>2, GateAssumption DEF Sound, Entry
      <4>2. QED
        BY <3>2, <4>1, GateAssumption DEF Strike, Entry, Age
    <3>3. CASE q = p /\ p \notin DOMAIN table
      BY <3>3, GateAssumption DEF Strike, Entry, Age
    <3>4. QED
      BY <2>1, <3>1, <3>2, <3>3
  <2>2. QED
    BY <1>1, <2>1 DEF Sound, Strike
<1>4. QED
  BY <1>2, <1>3

-----------------------------------------------------------------------------
(* Guesses. *)

LEMMA NothingGuessed == {} \in Past /\ Cardinality({}) = 0
BY FS_EmptySet DEF Past

LEMMA OneMoreGuess ==
  ASSUME NEW past \in Past, NEW k \in Nat
  PROVE  /\ past \cup {<<0, k>>} \in Past
         /\ Cardinality(past \cup {<<0, k>>}) =
              IF <<0, k>> \in past THEN Cardinality(past)
                                  ELSE Cardinality(past) + 1
         /\ Cardinality(past) \in Nat
<1>1. IsFiniteSet(past) /\ past \subseteq Recent \X Nat
  BY DEF Past
<1>2. <<0, k>> \in Recent \X Nat
  BY GateAssumption DEF Recent
<1>3. /\ IsFiniteSet(past \cup {<<0, k>>})
      /\ Cardinality(past \cup {<<0, k>>}) =
           IF <<0, k>> \in past THEN Cardinality(past)
                               ELSE Cardinality(past) + 1
  BY <1>1, FS_AddElement
<1>4. QED
  BY <1>1, <1>2, <1>3, FS_CardinalityType DEF Past

LEMMA JustNowIsFinite ==
  ASSUME NEW p, guesses[p] \in Past
  PROVE  /\ JustNow(p) \in Past
         /\ Cardinality(JustNow(p)) \in Nat
<1>1. IsFiniteSet(guesses[p]) /\ guesses[p] \subseteq Recent \X Nat
  BY DEF Past
<1>2. JustNow(p) \subseteq guesses[p]
  BY DEF JustNow
<1>3. QED
  BY <1>1, <1>2, FS_Subset, FS_CardinalityType DEF Past

(* Guesses grow old and are forgotten; none are added. *)
LEMMA OlderIsNotMore ==
  ASSUME NEW past \in Past
  PROVE  /\ Older(past) \in Past
         /\ Cardinality(Older(past)) <= Cardinality(past)
         /\ Cardinality(Older(past)) \in Nat /\ Cardinality(past) \in Nat
         /\ \A g \in Older(past) : \E h \in past : g[1] = h[1] + 1
<1> DEFINE kept == {h \in past : h[1] + 1 \in Recent}
           older == [h \in kept |-> <<h[1] + 1, h[2]>>]
<1>1. IsFiniteSet(past) /\ past \subseteq Recent \X Nat
  BY DEF Past
<1>2. /\ IsFiniteSet(kept)
      /\ Cardinality(kept) <= Cardinality(past)
  BY <1>1, FS_Subset
<1>3. Older(past) = {<<h[1] + 1, h[2]>> : h \in kept}
  BY DEF Older
<1>4. older \in Surjection(kept, Older(past))
  BY <1>3 DEF Surjection
<1>5. /\ IsFiniteSet(Older(past))
      /\ Cardinality(Older(past)) <= Cardinality(kept)
  <2> HIDE DEF kept, older
  <2>1. QED
    BY <1>2, <1>4, FS_Surjection
<1>6. /\ Cardinality(past) \in Nat
      /\ Cardinality(kept) \in Nat
      /\ Cardinality(Older(past)) \in Nat
  BY <1>1, <1>2, <1>5, FS_CardinalityType
<1>7. Older(past) \subseteq Recent \X Nat
  BY <1>1, <1>3
<1>8. Cardinality(Older(past)) <= Cardinality(past)
  BY <1>2, <1>5, <1>6
<1>9. QED
  BY <1>3, <1>5, <1>6, <1>7, <1>8 DEF Past

-----------------------------------------------------------------------------

LEMMA InitGate == Init => GateInv
<1> SUFFICES ASSUME Init PROVE GateInv
  OBVIOUS
<1>1. failures = << >> /\ DOMAIN failures = {}
  BY DEF Init
<1>2. Small(failures)
  BY <1>1, FS_EmptySet, GateAssumption DEF Small
<1>3. TypeOK
  BY <1>1, GateAssumption DEF Init, TypeOK, Tracked
<1>4. guesses \in [Peer -> Past]
  BY NothingGuessed DEF Init
<1>5. QED
  BY <1>2, <1>3, <1>4 DEF GateInv

LEMMA StepPreservesGate == GateInv /\ [Next]_vars => GateInv'
<1> SUFFICES ASSUME GateInv, [Next]_vars PROVE GateInv'
  OBVIOUS
<1> USE GateAssumption
<1>1. Small(failures) /\ Sound(failures)
  BY DEF GateInv, TypeOK, Tracked, Sound
<1>2. ASSUME Small(failures'), Sound(failures'), pin' \in Pin \cup {None},
             wrong_values' \in 0..U32_MAX,
             guesses' \in [Peer -> Past]
      PROVE  GateInv'
  BY <1>2 DEF GateInv, TypeOK, Tracked, Small, Sound, Past
<1>3. /\ pin \in Pin \cup {None}
      /\ wrong_values \in 0..U32_MAX
      /\ guesses \in [Peer -> Past]
  BY DEF GateInv, TypeOK
<1>4. {} \in Past
  BY NothingGuessed
<1>5. ASSUME NEW p \in Peer
      PROVE  Small(Unlocked(p)) /\ Sound(Unlocked(p))
  BY <1>1, KeepIsSmall DEF Unlocked
<1>6. ASSUME NEW p \in Peer, CheckLockedOut(p) PROVE GateInv'
  BY <1>1, <1>2, <1>3, <1>6 DEF CheckLockedOut, vars
<1>7. ASSUME NEW p \in Peer, CheckNothing(p) PROVE GateInv'
  BY <1>2, <1>3, <1>5, <1>7 DEF CheckNothing
<1>8. ASSUME NEW p \in Peer, CheckRight(p) PROVE GateInv'
  <2>1. Small(failures') /\ Sound(failures')
    BY <1>1, <1>8, KeepIsSmall DEF CheckRight
  <2>2. QED
    BY <1>2, <1>3, <1>4, <1>8, <2>1 DEF CheckRight
<1>9. ASSUME NEW p \in Peer, CheckWrong(p) PROVE GateInv'
  <2> DEFINE before == Unlocked(p)
  <2>1. PICK table \in IF p \in DOMAIN before THEN {before}
                       ELSE Roomy(before) :
          /\ failures' = Strike(table, p)
          /\ guesses' = [q \in Peer |->
                           IF q = p
                           THEN guesses[p] \cup
                                  {<<0, Cardinality(JustNow(p))>>}
                           ELSE IF q \in Tracked \ DOMAIN table THEN {}
                           ELSE guesses[q]]
    BY <1>9 DEF CheckWrong
  <2>2. Small(failures') /\ Sound(failures')
    <3>1. CASE p \in DOMAIN before
      <4>1. table = before
        BY <2>1, <3>1
      <4>2. before = failures /\ failures[p].count < MAX_FAILURES
        <5>1. ~(p \in Tracked /\ failures[p].count >= MAX_FAILURES)
          <6>1. p \notin DOMAIN Keep(failures, Tracked \ {p})
            <7>1. DOMAIN Keep(failures, Tracked \ {p})
                    = (Tracked \ {p}) \cap DOMAIN failures
              BY KeepDomain
            <7>2. QED
              BY <7>1
          <6>2. QED
            BY <3>1, <6>1 DEF Unlocked
        <5>2. before = failures /\ p \in Tracked
          BY <3>1, <5>1 DEF Unlocked, Tracked
        <5>3. failures[p].count \in 1..MAX_FAILURES
          BY <5>2, <1>1 DEF Sound, Tracked, Entry
        <5>4. QED
          BY <5>1, <5>2, <5>3
      <4>3. QED
        BY <1>1, <2>1, <3>1, <4>1, <4>2, StrikeIsSmall
    <3>2. CASE p \notin DOMAIN before
      <4>1. table \in Roomy(before)
        BY <2>1, <3>2
      <4>2. /\ Small(table) /\ Sound(table)
            /\ Cardinality(DOMAIN table) < MAX_TRACKED_PEERS
            /\ p \notin DOMAIN table
        BY <1>5, <3>2, <4>1, RoomForOne
      <4>3. QED
        BY <2>1, <4>2, StrikeIsSmall
    <3>3. QED
      BY <3>1, <3>2
  <2>3. guesses' \in [Peer -> Past]
    <3>1. Cardinality(JustNow(p)) \in Nat
      BY <1>3, JustNowIsFinite
    <3>2. guesses[p] \cup {<<0, Cardinality(JustNow(p))>>} \in Past
      BY <1>3, <3>1, OneMoreGuess
    <3>3. QED
      BY <1>3, <1>4, <2>1, <3>2
  <2>4. wrong_values' \in 0..U32_MAX /\ pin' = pin
    BY <1>3, <1>9 DEF CheckWrong, AtMost
  <2>5. QED
    BY <1>2, <1>3, <2>2, <2>3, <2>4
<1>10. ASSUME NEW value \in Pin \cup {None}, Set(value) PROVE GateInv'
  <2>1. failures' = << >> /\ DOMAIN failures' = {}
    BY <1>10 DEF Set
  <2>2. Small(failures') /\ Sound(failures')
    BY <2>1, FS_EmptySet DEF Small, Sound
  <2>3. QED
    BY <1>2, <1>4, <1>10, <2>2 DEF Set
<1>11. ASSUME Tick PROVE GateInv'
  <2>1. failures' = [p \in Tracked |->
                       [failures[p] EXCEPT !.age = AtMost(@ + 1, LOCKOUT)]]
    BY <1>11 DEF Tick
  <2>2. \A p \in Tracked : failures'[p] \in Entry
    BY <1>1, <2>1 DEF Sound, Tracked, Entry, Age, AtMost
  <2>3. DOMAIN failures' = DOMAIN failures
    BY <2>1 DEF Tracked
  <2>4. Small(failures') /\ Sound(failures')
    BY <1>1, <2>1, <2>2, <2>3 DEF Small, Sound, Tracked
  <2>5. guesses' \in [Peer -> Past]
    <3>1. \A p \in Peer : Older(guesses[p]) \in Past
      BY <1>3, OlderIsNotMore
    <3>2. QED
      BY <1>11, <3>1 DEF Tick
  <2>6. QED
    BY <1>2, <1>3, <1>11, <2>4, <2>5 DEF Tick
<1>12. ASSUME UNCHANGED vars PROVE GateInv'
  BY <1>1, <1>2, <1>3, <1>12 DEF vars
<1>13. QED
  BY <1>6, <1>7, <1>8, <1>9, <1>10, <1>11, <1>12 DEF Next, Check

LEMMA Gate == Spec => []GateInv
BY InitGate, StepPreservesGate, PTL DEF Spec

(* Type correctness of the gate: no peer is charged with more than         *)
(* MAX_FAILURES wrong values.                                              *)
THEOREM TypeCorrect == Spec => []TypeOK
BY Gate, PTL DEF GateInv

(* The lockout table never outgrows MAX_TRACKED_PEERS, however many        *)
(* addresses there are.                                                    *)
THEOREM TableIsBounded == Spec => []TableBounded
<1>1. GateInv => TableBounded
  BY DEF GateInv, Small, TableBounded, Tracked
<1>2. QED
  BY <1>1, Gate, PTL

-----------------------------------------------------------------------------

(* make_room spares p, or the table is full of live entries and p is the   *)
(* oldest.                                                                 *)
LEMMA RoomySpares ==
  ASSUME NEW table, Small(table), Sound(table), NEW roomy \in Roomy(table),
         NEW p \in DOMAIN table, table[p].age < LOCKOUT
  PROVE  \/ p \in DOMAIN roomy /\ roomy[p] = table[p]
         \/ /\ Cardinality({q \in DOMAIN table : table[q].age < LOCKOUT})
                 >= MAX_TRACKED_PEERS
            /\ \A q \in DOMAIN table :
                 table[q].age < LOCKOUT => table[q].age <= table[p].age
<1> DEFINE live == {q \in DOMAIN table : table[q].age < LOCKOUT}
<1>1. CASE Cardinality(DOMAIN table) < MAX_TRACKED_PEERS
  BY <1>1 DEF Roomy
<1>2. CASE /\ ~(Cardinality(DOMAIN table) < MAX_TRACKED_PEERS)
           /\ Cardinality(live) < MAX_TRACKED_PEERS
  <2>1. roomy = Keep(table, live)
    BY <1>2 DEF Roomy
  <2>2. p \in live \cap DOMAIN table
    OBVIOUS
  <2>3. /\ p \in DOMAIN Keep(table, live)
        /\ Keep(table, live)[p] = table[p]
    <3> HIDE DEF live
    <3>1. QED
      BY <2>2, KeepDomain
  <2>4. QED
    BY <2>1, <2>3
<1>3. CASE /\ ~(Cardinality(DOMAIN table) < MAX_TRACKED_PEERS)
           /\ ~(Cardinality(live) < MAX_TRACKED_PEERS)
  <2>1. PICK o \in {x \in live :
                     \A q \in live : table[q].age <= table[x].age} :
          roomy = Keep(table, live \ {o})
    BY <1>3 DEF Roomy
  <2>2. CASE p = o
    <3>1. Cardinality(live) \in Nat
      BY FS_Subset, FS_CardinalityType DEF Small
    <3>2. QED
      BY <1>3, <2>1, <2>2, <3>1, GateAssumption
  <2>3. CASE p # o
    <3> DEFINE others == live \ {o}
    <3>1. p \in others \cap DOMAIN table
      BY <2>3
    <3>2. /\ p \in DOMAIN Keep(table, others)
          /\ Keep(table, others)[p] = table[p]
      <4> HIDE DEF others
      <4>1. QED
        BY <3>1, KeepDomain
    <3>3. QED
      BY <2>1, <3>2
  <2>4. QED
    BY <2>2, <2>3
<1>4. QED
  BY <1>1, <1>2, <1>3

(* The entry of a peer that is not locked out goes or stays; the others    *)
(* stay.                                                                   *)
LEMMA UnlockedSpares ==
  ASSUME NEW p, NEW q, p \in Tracked, p # q
  PROVE  /\ p \in DOMAIN Unlocked(q) /\ Unlocked(q)[p] = failures[p]
         /\ DOMAIN Unlocked(q) \subseteq Tracked
         /\ \A x \in DOMAIN Unlocked(q) : Unlocked(q)[x] = failures[x]
<1>1. CASE Unlocked(q) = failures
  BY <1>1 DEF Tracked
<1>2. CASE Unlocked(q) = Keep(failures, Tracked \ {q})
  <2>1. /\ DOMAIN Unlocked(q) = (Tracked \ {q}) \cap DOMAIN failures
        /\ \A x \in (Tracked \ {q}) \cap DOMAIN failures :
             Unlocked(q)[x] = failures[x]
    BY <1>2, KeepDomain
  <2>2. QED
    BY <2>1 DEF Tracked
<1>3. QED
  BY <1>1, <1>2 DEF Unlocked

(* Nothing but time, a new PIN, or a table full of other live lockouts     *)
(* ends a lockout.                                                         *)
THEOREM LockoutsHold == Spec => LockoutHolds
<1> DEFINE Held(p) ==
      \/ LockedOut(p)'
      \/ p \in Tracked' /\ failures'[p].age = LOCKOUT
      \/ \E value \in Pin \cup {None} : Set(value)
      \/ /\ Cardinality({q \in Tracked : Live(q)}) = MAX_TRACKED_PEERS
         /\ \A q \in Tracked : failures[q].age <= failures[p].age
         /\ \E q \in Peer \ Tracked : q \in Tracked'
<1>1. ASSUME GateInv, [Next]_vars, NEW p \in Peer, LockedOut(p) PROVE Held(p)
  <2>1. /\ Small(failures) /\ Sound(failures)
        /\ p \in Tracked
        /\ failures[p].age < LOCKOUT
        /\ failures[p].count >= MAX_FAILURES
        /\ failures[p] \in Entry
    BY <1>1 DEF GateInv, TypeOK, Tracked, Sound, LockedOut, Live
  <2>2. p \in DOMAIN failures' /\ failures'[p] = failures[p] => LockedOut(p)'
    BY <2>1 DEF LockedOut, Live, Tracked
  <2>3. ASSUME NEW q \in Peer, CheckLockedOut(q) PROVE Held(p)
    BY <2>1, <2>2, <2>3 DEF CheckLockedOut, vars, Tracked
  <2>4. ASSUME NEW q \in Peer, CheckNothing(q) PROVE Held(p)
    <3>1. p # q
      BY <1>1, <2>4 DEF CheckNothing
    <3>2. QED
      BY <2>1, <2>2, <2>4, <3>1, UnlockedSpares DEF CheckNothing
  <2>5. ASSUME NEW q \in Peer, CheckRight(q) PROVE Held(p)
    <3> DEFINE others == Tracked \ {q}
    <3>1. p \in others \cap DOMAIN failures
      BY <1>1, <2>1, <2>5 DEF CheckRight, Tracked
    <3>2. failures' = Keep(failures, others)
      BY <2>5 DEF CheckRight
    <3>3. /\ p \in DOMAIN Keep(failures, others)
          /\ Keep(failures, others)[p] = failures[p]
      <4> HIDE DEF others
      <4>1. QED
        BY <3>1, KeepDomain
    <3>4. QED
      BY <2>2, <3>2, <3>3
  <2>6. ASSUME NEW q \in Peer, CheckWrong(q) PROVE Held(p)
    <3> DEFINE before == Unlocked(q)
    <3>1. p # q
      BY <1>1, <2>6 DEF CheckWrong
    <3>2. /\ p \in DOMAIN before /\ before[p] = failures[p]
          /\ DOMAIN before \subseteq Tracked
          /\ \A x \in DOMAIN before : before[x] = failures[x]
      BY <2>1, <3>1, UnlockedSpares
    <3>3. PICK table \in IF q \in DOMAIN before THEN {before}
                         ELSE Roomy(before) : failures' = Strike(table, q)
      BY <2>6 DEF CheckWrong
    <3>4. CASE p \in DOMAIN table /\ table[p] = before[p]
      <4>1. p \in DOMAIN failures' /\ failures'[p] = failures[p]
        BY <3>1, <3>2, <3>3, <3>4 DEF Strike
      <4>2. QED
        BY <2>2, <4>1
    <3>5. CASE ~(p \in DOMAIN table /\ table[p] = before[p])
      <4> DEFINE young == {x \in DOMAIN before : before[x].age < LOCKOUT}
      <4>1. q \notin DOMAIN before /\ table \in Roomy(before)
        BY <3>2, <3>3, <3>5
      <4>2. Small(before) /\ Sound(before)
        BY <2>1, KeepIsSmall DEF Unlocked
      <4>3. /\ Cardinality(young) >= MAX_TRACKED_PEERS
            /\ \A x \in young : before[x].age <= before[p].age
        BY <2>1, <3>2, <3>5, <4>1, <4>2, RoomySpares
      <4>4. /\ IsFiniteSet(Tracked)
            /\ Cardinality(Tracked) <= MAX_TRACKED_PEERS
            /\ young \subseteq Tracked
        BY <2>1, <3>2 DEF Small, Tracked
      <4>5. /\ Cardinality(young) \in Nat /\ Cardinality(Tracked) \in Nat
            /\ Cardinality(young) <= Cardinality(Tracked)
        BY <4>4, FS_Subset, FS_CardinalityType
      <4>6. Cardinality(young) = Cardinality(Tracked)
        BY <4>3, <4>4, <4>5, GateAssumption
      <4>7. young = Tracked /\ Cardinality(Tracked) = MAX_TRACKED_PEERS
        BY <4>3, <4>4, <4>5, <4>6, FS_Subset, GateAssumption
      <4>8. {x \in Tracked : Live(x)} = Tracked
        BY <3>2, <4>7 DEF Live
      <4>9. \A x \in Tracked : failures[x].age <= failures[p].age
        BY <3>2, <4>3, <4>7
      <4>10. q \notin Tracked /\ q \in Tracked'
        <5>1. q \notin Tracked
          BY <4>1, <4>7
        <5>2. DOMAIN failures' = DOMAIN table \cup {q}
          BY <3>3 DEF Strike
        <5>3. QED
          BY <5>1, <5>2 DEF Tracked
      <4>11. QED
        BY <4>7, <4>8, <4>9, <4>10
    <3>6. QED
      BY <3>4, <3>5
  <2>7. ASSUME NEW value \in Pin \cup {None}, Set(value) PROVE Held(p)
    BY <2>7
  <2>8. ASSUME Tick PROVE Held(p)
    <3>1. /\ DOMAIN failures' = Tracked
          /\ failures'[p] = [failures[p] EXCEPT !.age = AtMost(@ + 1, LOCKOUT)]
      BY <2>1, <2>8 DEF Tick
    <3>2. /\ failures'[p].count = failures[p].count
          /\ failures'[p].age = failures[p].age + 1
      BY <2>1, <3>1, GateAssumption DEF Entry, Age, AtMost
    <3>3. CASE failures'[p].age = LOCKOUT
      BY <2>1, <3>1, <3>3 DEF Tracked
    <3>4. CASE failures'[p].age # LOCKOUT
      <4>1. failures'[p].age < LOCKOUT
        BY <2>1, <3>2, <3>4, GateAssumption DEF Entry, Age
      <4>2. QED
        BY <2>1, <3>1, <3>2, <4>1 DEF LockedOut, Live, Tracked
    <3>5. QED
      BY <3>3, <3>4
  <2>9. ASSUME UNCHANGED vars PROVE Held(p)
    BY <2>1, <2>2, <2>9 DEF vars, Tracked
  <2>10. QED
    BY <1>1, <2>3, <2>4, <2>5, <2>6, <2>7, <2>8, <2>9 DEF Next, Check
<1>2. GateInv /\ [Next]_vars => \A p \in Peer : LockedOut(p) => Held(p)
  BY <1>1
<1>3. QED
  BY <1>2, Gate, PTL DEF Spec, LockoutHolds

-----------------------------------------------------------------------------
(* The budget.  The table remembers less than the guesses: one count and   *)
(* the age of the last.  What makes that enough is that the count covers   *)
(* every recent guess and that none of them is younger than the entry says. *)

Charged(p) ==
  IF p \in Tracked
  THEN /\ Cardinality(guesses[p]) <= failures[p].count
       /\ \A g \in guesses[p] : g[1] >= failures[p].age
  ELSE guesses[p] = {}

(* Guesses of the same age are told apart. *)
Numbered(p) == \A g \in JustNow(p) : g[2] < Cardinality(JustNow(p))

BudgetInv == \A p \in Peer : Charged(p) /\ Numbered(p)

LEMMA GateTypes ==
  ASSUME GateInv
  PROVE  /\ Small(failures) /\ Sound(failures)
         /\ \A p \in Tracked :
              /\ p \in Peer
              /\ failures[p] \in Entry
              /\ failures[p].count \in 1..MAX_FAILURES
              /\ failures[p].age \in 0..LOCKOUT
         /\ \A p \in Peer :
              /\ guesses[p] \in Past
              /\ guesses[p] \subseteq Recent \X Nat
              /\ IsFiniteSet(guesses[p])
              /\ Cardinality(guesses[p]) \in Nat
<1>1. /\ Small(failures) /\ Sound(failures)
      /\ \A p \in Tracked : p \in Peer /\ failures[p] \in Entry
      /\ guesses \in [Peer -> Past]
  BY DEF GateInv, TypeOK, Tracked, Sound
<1>2. \A past \in Past : /\ past \subseteq Recent \X Nat
                         /\ IsFiniteSet(past)
                         /\ Cardinality(past) \in Nat
  BY FS_CardinalityType DEF Past
<1>3. QED
  BY <1>1, <1>2 DEF Entry, Age

LEMMA KeptEntries ==
  ASSUME NEW table, NEW S, NEW p \in DOMAIN Keep(table, S)
  PROVE  p \in S /\ p \in DOMAIN table /\ Keep(table, S)[p] = table[p]
<1>1. p \in S \cap DOMAIN table
  BY DEF Keep, Restrict
<1>2. Keep(table, S)[p] = table[p]
  BY <1>1 DEF Keep, Restrict
<1>3. QED
  BY <1>1, <1>2

(* make_room changes no entry. *)
LEMMA RoomyEntries ==
  ASSUME NEW table, NEW roomy \in Roomy(table), NEW p \in DOMAIN roomy
  PROVE  p \in DOMAIN table /\ roomy[p] = table[p]
<1>1. roomy = table \/ \E S : roomy = Keep(table, S)
  BY DEF Roomy
<1>2. QED
  BY <1>1, KeptEntries

(* An entry that has run out, and is the only one check takes away by      *)
(* itself, is of a peer without recent guesses.                            *)
LEMMA UnlockedIsCharged ==
  ASSUME GateInv, BudgetInv, NEW q \in Peer, ~LockedOut(q), NEW p \in Peer
  PROVE  IF p \in DOMAIN Unlocked(q)
         THEN p \in Tracked /\ Unlocked(q)[p] = failures[p]
         ELSE guesses[p] = {}
<1>1. Charged(p)
  BY DEF BudgetInv
<1>2. CASE Unlocked(q) = failures
  BY <1>1, <1>2 DEF Charged, Tracked
<1>3. CASE Unlocked(q) # failures
  <2> DEFINE others == Tracked \ {q}
  <2>1. /\ q \in Tracked /\ failures[q].count >= MAX_FAILURES
        /\ Unlocked(q) = Keep(failures, others)
    BY <1>3 DEF Unlocked
  <2>2. /\ DOMAIN Unlocked(q) = others \cap DOMAIN failures
        /\ \A x \in others \cap DOMAIN failures :
             Unlocked(q)[x] = failures[x]
    <3>1. /\ DOMAIN Keep(failures, others) = others \cap DOMAIN failures
          /\ \A x \in others \cap DOMAIN failures :
               Keep(failures, others)[x] = failures[x]
      <4> HIDE DEF others
      <4>1. QED
        BY KeepDomain
    <3>2. QED
      BY <2>1, <3>1
  <2>3. CASE p = q
    <3>1. failures[q].age = LOCKOUT
      BY <2>1, GateTypes, GateAssumption DEF LockedOut, Live
    <3>2. \A g \in guesses[q] : g[1] >= LOCKOUT /\ g[1] \in Recent
      BY <1>1, <2>1, <2>3, <3>1, GateTypes DEF Charged
    <3>3. guesses[q] = {}
      BY <3>2, GateAssumption DEF Recent
    <3>4. QED
      BY <2>2, <2>3, <3>3
  <2>4. CASE p # q
    BY <1>1, <2>2, <2>4 DEF Charged, Tracked
  <2>5. QED
    BY <2>3, <2>4
<1>4. QED
  BY <1>2, <1>3

(* A wrong value is one guess more. *)
LEMMA GuessIsNew ==
  ASSUME GateInv, BudgetInv, NEW p \in Peer
  PROVE  LET k == Cardinality(JustNow(p))
         IN  /\ k \in Nat
             /\ <<0, k>> \notin guesses[p]
             /\ Cardinality(guesses[p] \cup {<<0, k>>})
                  = Cardinality(guesses[p]) + 1
             /\ Cardinality(JustNow(p) \cup {<<0, k>>}) = k + 1
             /\ \A g \in JustNow(p) : g[2] < k
<1> DEFINE k == Cardinality(JustNow(p))
<1>1. JustNow(p) \in Past /\ k \in Nat
  BY JustNowIsFinite, GateTypes
<1>2. \A g \in JustNow(p) : g[2] < k
  BY DEF BudgetInv, Numbered
<1>3. <<0, k>> \notin JustNow(p)
  BY <1>1, <1>2
<1>4. <<0, k>> \notin guesses[p]
  BY <1>3 DEF JustNow
<1>5. guesses[p] \in Past
  BY GateTypes
<1>6. /\ Cardinality(guesses[p] \cup {<<0, k>>})
           = Cardinality(guesses[p]) + 1
      /\ Cardinality(JustNow(p) \cup {<<0, k>>}) = k + 1
  <2> HIDE DEF k
  <2>1. QED
    BY <1>1, <1>3, <1>4, <1>5, OneMoreGuess DEF k
<1>7. QED
  BY <1>1, <1>2, <1>4, <1>6

LEMMA StepPreservesBudget ==
  GateInv /\ BudgetInv /\ [Next]_vars => BudgetInv'
<1> SUFFICES ASSUME GateInv, BudgetInv, [Next]_vars, NEW p \in Peer
             PROVE  Charged(p)' /\ Numbered(p)'
  BY DEF BudgetInv
<1>1. Charged(p) /\ Numbered(p)
  BY DEF BudgetInv
<1>2. ASSUME guesses'[p] = guesses[p] PROVE Numbered(p)'
  BY <1>1, <1>2 DEF Numbered, JustNow
<1>3. ASSUME guesses'[p] = {} PROVE Numbered(p)'
  BY <1>3 DEF Numbered, JustNow
<1>4. ASSUME guesses'[p] = guesses[p],
             IF p \in Tracked' THEN p \in Tracked /\ failures'[p] = failures[p]
                               ELSE guesses[p] = {}
      PROVE  Charged(p)' /\ Numbered(p)'
  BY <1>1, <1>2, <1>4 DEF Charged
<1>5. ASSUME guesses'[p] = {}, p \notin Tracked'
      PROVE  Charged(p)' /\ Numbered(p)'
  BY <1>3, <1>5 DEF Charged
<1>6. ASSUME NEW q \in Peer, CheckLockedOut(q)
      PROVE  Charged(p)' /\ Numbered(p)'
  BY <1>1, <1>4, <1>6 DEF CheckLockedOut, vars, Charged, Tracked
<1>7. ASSUME NEW q \in Peer, CheckNothing(q)
      PROVE  Charged(p)' /\ Numbered(p)'
  <2>1. /\ Tracked' = DOMAIN Unlocked(q) /\ failures' = Unlocked(q)
        /\ guesses'[p] = guesses[p]
    BY <1>7 DEF CheckNothing, Tracked
  <2>2. ~LockedOut(q)
    BY <1>7 DEF CheckNothing
  <2>3. QED
    BY <1>4, <2>1, <2>2, UnlockedIsCharged
<1>8. ASSUME NEW q \in Peer, CheckRight(q)
      PROVE  Charged(p)' /\ Numbered(p)'
  <2> DEFINE others == Tracked \ {q}
  <2>1. failures' = Keep(failures, others) /\ guesses \in [Peer -> Past]
    BY <1>8 DEF CheckRight, GateInv
  <2>2. /\ DOMAIN Keep(failures, others) = others \cap DOMAIN failures
        /\ \A x \in others \cap DOMAIN failures :
             Keep(failures, others)[x] = failures[x]
    <3> HIDE DEF others
    <3>1. QED
      BY KeepDomain
  <2>3. CASE p = q
    BY <1>5, <1>8, <2>1, <2>2, <2>3 DEF CheckRight, Tracked
  <2>4. CASE p # q
    <3>1. guesses'[p] = guesses[p]
      BY <1>8, <2>1, <2>4 DEF CheckRight
    <3>2. IF p \in Tracked' THEN p \in Tracked /\ failures'[p] = failures[p]
                            ELSE guesses[p] = {}
      BY <1>1, <2>1, <2>2, <2>4 DEF Charged, Tracked
    <3>3. QED
      BY <1>4, <3>1, <3>2
  <2>5. QED
    BY <2>3, <2>4
<1>9. ASSUME NEW q \in Peer, CheckWrong(q)
      PROVE  Charged(p)' /\ Numbered(p)'
  <2> DEFINE before == Unlocked(q)
             k == Cardinality(JustNow(q))
  <2>1. PICK table \in IF q \in DOMAIN before THEN {before}
                       ELSE Roomy(before) :
          /\ failures' = Strike(table, q)
          /\ guesses' = [r \in Peer |->
                           IF r = q THEN guesses[q] \cup {<<0, k>>}
                           ELSE IF r \in Tracked \ DOMAIN table THEN {}
                           ELSE guesses[r]]
    BY <1>9 DEF CheckWrong
  <2>2. ~LockedOut(q)
    BY <1>9 DEF CheckWrong
  <2>3. \A x \in DOMAIN table :
          x \in DOMAIN before /\ table[x] = before[x]
    <3> HIDE DEF before
    <3>1. table = before \/ table \in Roomy(before)
      BY <2>1
    <3>2. QED
      BY <3>1, RoomyEntries
  <2>4. p \in DOMAIN table => p \in Tracked /\ table[p] = failures[p]
    BY <2>2, <2>3, UnlockedIsCharged
  <2>5. /\ Tracked' = DOMAIN table \cup {q}
        /\ \A x \in DOMAIN table \ {q} : failures'[x] = table[x]
        /\ failures'[q] =
             [count |-> IF q \in DOMAIN table THEN table[q].count + 1 ELSE 1,
              age |-> 0]
    BY <2>1 DEF Strike, Tracked
  <2>6. CASE p # q
    <3>1. CASE p \in DOMAIN table
      BY <1>4, <2>1, <2>4, <2>5, <2>6, <3>1
    <3>2. CASE p \notin DOMAIN table
      <4>1. guesses'[p] = {}
        BY <1>1, <2>1, <2>6, <3>2 DEF Charged
      <4>2. p \notin Tracked'
        BY <2>5, <2>6, <3>2
      <4>3. QED
        BY <1>5, <4>1, <4>2
    <3>3. QED
      BY <3>1, <3>2
  <2>7. CASE p = q
    <3>1. /\ k \in Nat
          /\ Cardinality(guesses[p] \cup {<<0, k>>})
               = Cardinality(guesses[p]) + 1
          /\ Cardinality(JustNow(p) \cup {<<0, k>>}) = k + 1
          /\ \A g \in JustNow(p) : g[2] < k
      BY <2>7, GuessIsNew
    <3>2. guesses'[p] = guesses[p] \cup {<<0, k>>}
      BY <2>1, <2>7
    <3>3. /\ Cardinality(guesses[p]) \in Nat
          /\ \A g \in guesses[p] : g[1] \in Nat /\ g[2] \in Nat
      BY GateTypes, GateAssumption DEF Recent
    <3>4. Numbered(p)'
      <4>1. JustNow(p)' = JustNow(p) \cup {<<0, k>>}
        BY <3>2 DEF JustNow
      <4>2. \A g \in JustNow(p) : g[2] \in Nat
        BY <3>3 DEF JustNow
      <4>3. \A g \in JustNow(p) \cup {<<0, k>>} : g[2] < k + 1
        BY <3>1, <4>2
      <4>4. QED
        BY <3>1, <4>1, <4>3 DEF Numbered
    <3>5. Cardinality(guesses'[p]) <= failures'[p].count
      <4>1. CASE q \in DOMAIN table
        <5>1. /\ Cardinality(guesses[p]) <= failures[p].count
              /\ failures[p].count \in Nat
              /\ table[q] = failures[p]
          BY <1>1, <2>4, <2>7, <4>1, GateTypes DEF Charged
        <5>2. QED
          BY <2>5, <2>7, <3>1, <3>2, <3>3, <4>1, <5>1
      <4>2. CASE q \notin DOMAIN table
        <5>1. q \notin DOMAIN before
          BY <2>1, <4>2
        <5>2. guesses[p] = {}
          BY <2>2, <2>7, <5>1, UnlockedIsCharged
        <5>3. QED
          BY <2>5, <2>7, <3>1, <3>2, <4>2, <5>2, NothingGuessed
      <4>3. QED
        BY <4>1, <4>2
    <3>6. \A g \in guesses'[p] : g[1] >= failures'[p].age
      BY <2>5, <2>7, <3>2, <3>3
    <3>7. QED
      BY <2>5, <2>7, <3>4, <3>5, <3>6 DEF Charged
  <2>8. QED
    BY <2>6, <2>7
<1>10. ASSUME NEW value \in Pin \cup {None}, Set(value)
       PROVE  Charged(p)' /\ Numbered(p)'
  BY <1>5, <1>10 DEF Set, Tracked
<1>11. ASSUME Tick PROVE Charged(p)' /\ Numbered(p)'
  <2>1. /\ Older(guesses[p]) \in Past
        /\ Cardinality(Older(guesses[p])) <= Cardinality(guesses[p])
        /\ Cardinality(Older(guesses[p])) \in Nat
        /\ Cardinality(guesses[p]) \in Nat
        /\ \A g \in Older(guesses[p]) :
             \E h \in guesses[p] : g[1] = h[1] + 1
    BY GateTypes, OlderIsNotMore
  <2>2. guesses'[p] = Older(guesses[p]) /\ Tracked' = Tracked
    BY <1>11 DEF Tick, Tracked
  <2>3. \A g \in guesses[p] : g[1] \in Nat
    BY GateTypes, GateAssumption DEF Recent
  <2>4. JustNow(p)' = {}
    BY <2>1, <2>2, <2>3 DEF JustNow
  <2>5. CASE p \in Tracked
    <3>1. /\ failures[p].count \in Nat /\ failures[p].age \in 0..LOCKOUT
          /\ failures[p] \in Entry
      BY <2>5, GateTypes
    <3>2. failures'[p] = [failures[p] EXCEPT !.age = AtMost(@ + 1, LOCKOUT)]
      BY <1>11, <2>5 DEF Tick
    <3>3. /\ failures'[p].count = failures[p].count
          /\ failures'[p].age = AtMost(failures[p].age + 1, LOCKOUT)
      BY <3>1, <3>2 DEF Entry
    <3>4. /\ failures'[p].age \in Nat
          /\ failures'[p].age <= failures[p].age + 1
      BY <3>1, <3>3, GateAssumption DEF AtMost
    <3>5. Cardinality(guesses'[p]) <= failures'[p].count
      BY <1>1, <2>1, <2>2, <2>5, <3>1, <3>3 DEF Charged
    <3>6. \A g \in guesses'[p] : g[1] >= failures'[p].age
      BY <1>1, <2>1, <2>2, <2>3, <2>5, <3>1, <3>4 DEF Charged
    <3>7. QED
      BY <2>2, <2>4, <2>5, <3>5, <3>6 DEF Charged, Numbered
  <2>6. CASE p \notin Tracked
    <3>1. guesses'[p] = {}
      BY <1>1, <2>1, <2>2, <2>6 DEF Charged
    <3>2. QED
      BY <1>5, <2>2, <2>6, <3>1
  <2>7. QED
    BY <2>5, <2>6
<1>12. ASSUME UNCHANGED vars PROVE Charged(p)' /\ Numbered(p)'
  BY <1>1, <1>4, <1>12 DEF vars, Charged, Tracked
<1>13. QED
  BY <1>6, <1>7, <1>8, <1>9, <1>10, <1>11, <1>12 DEF Next, Check

LEMMA Budget == Spec => [](GateInv /\ BudgetInv)
<1>1. Init => BudgetInv
  BY DEF Init, BudgetInv, Charged, Numbered, JustNow, Tracked
<1>2. QED
  BY <1>1, InitGate, StepPreservesGate, StepPreservesBudget, PTL DEF Spec

(* In any LOCKOUT a peer has at most MAX_FAILURES guesses, whatever        *)
(* happens to its entry in the table and to those of other peers.          *)
THEOREM GuessesAreLimited == Spec => []GuessBudget
<1>1. GateInv /\ BudgetInv => GuessBudget
  <2> SUFFICES ASSUME GateInv, BudgetInv, NEW p \in Peer
               PROVE  Cardinality(guesses[p]) <= MAX_FAILURES
    BY DEF GuessBudget
  <2>1. Charged(p) /\ Cardinality(guesses[p]) \in Nat
    BY GateTypes DEF BudgetInv
  <2>2. CASE p \in Tracked
    BY <2>1, <2>2, GateTypes, GateAssumption DEF Charged
  <2>3. CASE p \notin Tracked
    BY <2>1, <2>3, NothingGuessed, GateAssumption DEF Charged
  <2>4. QED
    BY <2>2, <2>3
<1>2. QED
  BY <1>1, Budget, PTL

(* What the budget counts is every guess: a wrong value adds one, however  *)
(* many of the same age there are.                                         *)
EachGuessCounts ==
  [][\A p \in Peer :
       CheckWrong(p) =>
         Cardinality(guesses'[p]) = Cardinality(guesses[p]) + 1]_vars

(* A wrong value is charged whoever else guesses, and however the table is *)
(* pruned to make room (check).                                            *)
THEOREM GuessesAreCounted == Spec => EachGuessCounts
<1>1. ASSUME GateInv, BudgetInv, NEW p \in Peer, CheckWrong(p)
      PROVE  Cardinality(guesses'[p]) = Cardinality(guesses[p]) + 1
  <2>1. guesses'[p] = guesses[p] \cup {<<0, Cardinality(JustNow(p))>>}
    BY <1>1 DEF CheckWrong
  <2>2. QED
    BY <1>1, <2>1, GuessIsNew
<1>2. GateInv /\ BudgetInv /\ [Next]_vars =>
        \A p \in Peer :
          CheckWrong(p) =>
            Cardinality(guesses'[p]) = Cardinality(guesses[p]) + 1
  BY <1>1
<1>3. QED
  BY <1>2, Budget, PTL DEF Spec, EachGuessCounts
=============================================================================
