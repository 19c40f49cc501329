--------------------------- MODULE EventBusProofs ---------------------------
(* Theorems about the event log and a consumer of it, for any number of    *)
(* events, replicas, rows in a batch, attempts and faults.                 *)
EXTENDS EventBus, FiniteSetTheorems, TLAPS

(* What is true of the transactions: ids are given out in order, an idle   *)
(* replica holds nothing, at most one holds the cursor's row lock, and the *)
(* events it has read lie after the cursor and stay committed, since they  *)
(* are locked.                                                             *)
TxInv ==
    /\ \A i \in Ids : i >= nextId => event[i] = "unused"
    /\ \A r \in Replicas : pc[r] = "idle" => batch[r] = {}
    /\ \A r, q \in Replicas : pc[r] = "active" /\ pc[q] = "active" => r = q
    /\ \A r \in Replicas : pc[r] = "active" =>
          /\ reached[r] >= cursor /\ letters[r] \subseteq batch[r]
          /\ \A i \in batch[r] : event[i] = "committed" /\ i > cursor

Counted == \A r \in Replicas, i \in Ids : attempts[r][i] <= failed[i]

(* The failures a process counts did happen, and so did those behind the   *)
(* dead letters, committed or not.                                         *)
LetterInv ==
    /\ Counted
    /\ \A r \in Replicas : \A i \in letters[r] : failed[i] >= MaxAttempts
    /\ DeadLettersEarned

-----------------------------------------------------------------------------
(* How transactions end and move on.                                       *)
LEMMA EndTxFacts ==
    ASSUME TypeOK, NEW r \in Replicas, EndTx(r)
    PROVE  /\ pc' \in [Replicas -> {"idle", "active", "severed"}]
           /\ batch' \in [Replicas -> SUBSET Ids] /\ letters' \in [Replicas -> SUBSET Ids]
           /\ reached' \in [Replicas -> 0..MaxEvents]
           /\ pc'[r] = "idle" /\ batch'[r] = {} /\ letters'[r] = {}
           /\ \A q \in Replicas : q # r =>
                 /\ pc'[q] = pc[q] /\ batch'[q] = batch[q]
                 /\ reached'[q] = reached[q] /\ letters'[q] = letters[q]
<1>1. 0 \in 0..MaxEvents
  BY BusAssumption
<1>. QED
  BY <1>1 DEF TypeOK, EndTx

(* What the dispatch of event i makes of the replica's transaction: it     *)
(* rolls back, it moves on past the event, or it commits what was reached. *)
RollsBack(r) == pc[r] # "active" /\ RollBack(r)
Passes(r, i, dl) ==
    /\ pc[r] = "active"
    /\ \/ Todo(r) = {i} /\ CommitTx(r, i, dl)
       \/ /\ reached' = [reached EXCEPT ![r] = i] /\ letters' = [letters EXCEPT ![r] = dl]
          /\ UNCHANGED <<cursor, dead, pc, batch>>
BreaksOff(r) == pc[r] = "active" /\ CommitTx(r, reached[r], letters[r])

(* What it makes of the counters, given that failures are counted rightly. *)
Counts(i) ==
    /\ handled' \in [Ids -> Nat] /\ failed' \in [Ids -> Nat]
    /\ attempts' \in [Replicas -> [Ids -> Nat]] /\ Counted'
    /\ \A k \in Ids : /\ handled'[k] >= handled[k] /\ failed'[k] >= failed[k]
                      /\ handled'[k] <= handled[k] + (IF k = i THEN 1 ELSE 0)

LEMMA HandledCounts ==
    ASSUME TypeOK, Counted, NEW r \in Replicas, NEW i \in Ids,
           handled' = [handled EXCEPT ![i] = @ + 1],
           attempts' = [attempts EXCEPT ![r][i] = 0], failed' = failed
    PROVE  Counts(i) /\ handled'[i] = handled[i] + 1
<1>1. /\ handled' \in [Ids -> Nat]
      /\ \A k \in Ids : handled'[k] = IF k = i THEN handled[k] + 1 ELSE handled[k]
  BY DEF TypeOK
<1>2. /\ attempts' \in [Replicas -> [Ids -> Nat]]
      /\ \A q \in Replicas, k \in Ids :
            attempts'[q][k] = IF q = r /\ k = i THEN 0 ELSE attempts[q][k]
  BY DEF TypeOK
<1>. QED
  BY <1>1, <1>2 DEF Counts, Counted, TypeOK

LEMMA FailedCounts ==
    ASSUME TypeOK, Counted, NEW r \in Replicas, NEW i \in Ids, NEW a \in Nat,
           a = attempts[r][i] + 1 \/ a = 0,
           failed' = [failed EXCEPT ![i] = @ + 1],
           attempts' = [attempts EXCEPT ![r][i] = a], handled' = handled
    PROVE  /\ Counts(i) /\ failed'[i] = failed[i] + 1
           /\ attempts[r][i] + 1 >= MaxAttempts => failed'[i] >= MaxAttempts
<1>1. /\ failed' \in [Ids -> Nat]
      /\ \A k \in Ids : failed'[k] = IF k = i THEN failed[k] + 1 ELSE failed[k]
  BY DEF TypeOK
<1>2. /\ attempts' \in [Replicas -> [Ids -> Nat]]
      /\ \A q \in Replicas, k \in Ids :
            attempts'[q][k] = IF q = r /\ k = i THEN a ELSE attempts[q][k]
  BY DEF TypeOK
<1>3. \A q \in Replicas, k \in Ids : attempts[q][k] \in Nat /\ failed[k] \in Nat
  BY DEF TypeOK
<1>4. Counted'
  BY <1>1, <1>2, <1>3 DEF Counted
<1>5. Counts(i)
  BY <1>1, <1>2, <1>4 DEF Counts, TypeOK
<1>. QED
  BY <1>1, <1>3, <1>5, BusAssumption DEF Counted

LEMMA AdvanceFate ==
    ASSUME NEW r \in Replicas, NEW i, NEW dl, pc[r] # "idle", TypeOK, Advance(r, i, dl)
    PROVE  RollsBack(r) \/ Passes(r, i, dl)
  BY DEF Advance, RollsBack, Passes, TypeOK

(* The three ways to dispatch an event, in one form: only an event that    *)
(* was handled, or has failed often enough for its dead letter, is passed. *)
LEMMA DispatchFate ==
    ASSUME TypeOK, TxInv, Counted, NEW r \in Replicas,
           Handle(r) \/ Retry(r) \/ DeadLetter(r)
    PROVE  /\ UNCHANGED <<log, faults>> /\ pc[r] # "idle"
           /\ \E i \in NextIn(r), dl \in SUBSET Ids :
                 /\ Counts(i) /\ letters[r] \subseteq dl /\ dl \subseteq letters[r] \cup {i}
                 /\ i \in dl \ letters[r] => failed'[i] >= MaxAttempts
                 /\ \/ RollsBack(r)
                    \/ Passes(r, i, dl) /\ (i \in dl \/ handled'[i] > 0)
                    \/ BreaksOff(r) /\ handled' = handled
<1>1. NextIn(r) \subseteq Ids /\ letters[r] \subseteq Ids /\ (NextIn(r) # {} => pc[r] # "idle")
  BY DEF NextIn, Todo, TypeOK, TxInv
<1>2. CASE Handle(r)
  <2>1. PICK i \in NextIn(r) :
          /\ handled' = [handled EXCEPT ![i] = @ + 1] /\ failed' = failed
          /\ attempts' = [attempts EXCEPT ![r][i] = 0] /\ Advance(r, i, letters[r])
          /\ UNCHANGED <<log, faults>>
    BY <1>2 DEF Handle
  <2>2. i \in Ids /\ pc[r] # "idle"
    BY <1>1, <2>1
  <2>3. Counts(i) /\ handled'[i] = handled[i] + 1 /\ handled[i] \in Nat
    BY <2>1, <2>2, HandledCounts DEF TypeOK
  <2>4. RollsBack(r) \/ Passes(r, i, letters[r])
    BY <2>1, <2>2, AdvanceFate
  <2>. QED
    BY <1>1, <2>1, <2>2, <2>3, <2>4
<1>3. CASE Retry(r)
  <2>1. PICK i \in NextIn(r) :
          /\ failed' = [failed EXCEPT ![i] = @ + 1] /\ handled' = handled
          /\ attempts' = [attempts EXCEPT ![r][i] = @ + 1]
          /\ IF pc[r] = "severed" THEN RollBack(r) ELSE CommitTx(r, reached[r], letters[r])
          /\ UNCHANGED <<log, faults>>
    BY <1>3 DEF Retry
  <2>2. i \in Ids /\ pc[r] # "idle"
    BY <1>1, <2>1
  <2>. DEFINE a == attempts[r][i] + 1
  <2>3. a \in Nat /\ attempts' = [attempts EXCEPT ![r][i] = a]
    BY <2>1, <2>2 DEF TypeOK
  <2>. HIDE DEF a
  <2>4. a = attempts[r][i] + 1
    BY DEF a
  <2>5. Counts(i)
    BY <2>1, <2>2, <2>3, <2>4, FailedCounts
  <2>6. RollsBack(r) \/ BreaksOff(r)
    BY <2>1, <2>2 DEF RollsBack, BreaksOff, TypeOK
  <2>. QED
    BY <1>1, <2>1, <2>2, <2>5, <2>6
<1>4. CASE DeadLetter(r)
  <2>1. PICK i \in NextIn(r) :
          /\ failed' = [failed EXCEPT ![i] = @ + 1] /\ handled' = handled
          /\ attempts[r][i] + 1 >= MaxAttempts
          /\ attempts' = [attempts EXCEPT ![r][i] = IF pc[r] = "severed" THEN @ + 1 ELSE 0]
          /\ Advance(r, i, letters[r] \cup {i})
          /\ UNCHANGED <<log, faults>>
    BY <1>4 DEF DeadLetter
  <2>2. i \in Ids /\ pc[r] # "idle"
    BY <1>1, <2>1
  <2>. DEFINE a == IF pc[r] = "severed" THEN attempts[r][i] + 1 ELSE 0
  <2>3. a \in Nat /\ attempts' = [attempts EXCEPT ![r][i] = a]
    BY <2>1, <2>2 DEF TypeOK
  <2>4. a = attempts[r][i] + 1 \/ a = 0
    OBVIOUS
  <2>. HIDE DEF a
  <2>5. Counts(i) /\ failed'[i] >= MaxAttempts
    BY <2>1, <2>2, <2>3, <2>4, FailedCounts
  <2>6. RollsBack(r) \/ Passes(r, i, letters[r] \cup {i})
    BY <2>1, <2>2, AdvanceFate
  <2>. QED
    BY <1>1, <2>1, <2>2, <2>5, <2>6
<1>. QED
  BY <1>2, <1>3, <1>4

(* The same seen from the rows: the other replicas' are left alone, and    *)
(* the replica's own is given up or moved on by one event.                 *)
LEMMA MoveFacts ==
    ASSUME TypeOK, NEW r \in Replicas, NEW i \in Ids, NEW dl \in SUBSET Ids,
           \/ RollsBack(r) \/ Passes(r, i, dl) \/ BreaksOff(r)
    PROVE  /\ pc' \in [Replicas -> {"idle", "active", "severed"}]
           /\ batch' \in [Replicas -> SUBSET Ids] /\ letters' \in [Replicas -> SUBSET Ids]
           /\ reached' \in [Replicas -> 0..MaxEvents]
           /\ cursor' \in 0..MaxEvents /\ dead' \subseteq Ids
           /\ \A q \in Replicas : q # r =>
                 /\ pc'[q] = pc[q] /\ batch'[q] = batch[q]
                 /\ reached'[q] = reached[q] /\ letters'[q] = letters[q]
           /\ \/ pc'[r] = "idle" /\ batch'[r] = {} /\ letters'[r] = {}
              \/ /\ Passes(r, i, dl) /\ pc'[r] = "active" /\ batch'[r] = batch[r]
                 /\ reached'[r] = i /\ letters'[r] = dl
                 /\ UNCHANGED <<cursor, dead>>
           /\ \/ UNCHANGED <<cursor, dead>>
              \/ /\ Passes(r, i, dl) /\ pc'[r] = "idle" /\ Todo(r) = {i}
                 /\ cursor' = i /\ dead' = dead \cup dl
              \/ /\ BreaksOff(r) /\ pc'[r] = "idle"
                 /\ cursor' = reached[r] /\ dead' = dead \cup letters[r]
<1>1. reached[r] \in 0..MaxEvents /\ i \in 0..MaxEvents /\ cursor \in 0..MaxEvents
      /\ dead \subseteq Ids /\ letters[r] \subseteq Ids
  BY DEF TypeOK, Ids
<1>2. CASE RollsBack(r)
  <2>1. EndTx(r) /\ UNCHANGED <<cursor, dead>>
    BY <1>2 DEF RollsBack, RollBack
  <2>. QED
    BY <1>1, <2>1, EndTxFacts
<1>3. CASE Passes(r, i, dl) /\ CommitTx(r, i, dl) /\ Todo(r) = {i}
  <2>1. EndTx(r) /\ cursor' = i /\ dead' = dead \cup dl
    BY <1>3 DEF CommitTx
  <2>. QED
    BY <1>1, <1>3, <2>1, EndTxFacts
<1>4. CASE /\ Passes(r, i, dl)
           /\ reached' = [reached EXCEPT ![r] = i] /\ letters' = [letters EXCEPT ![r] = dl]
           /\ UNCHANGED <<cursor, dead, pc, batch>>
  <2>1. pc[r] = "active"
    BY <1>4 DEF Passes
  <2>2. /\ reached' \in [Replicas -> 0..MaxEvents] /\ letters' \in [Replicas -> SUBSET Ids]
        /\ reached'[r] = i /\ letters'[r] = dl
        /\ \A q \in Replicas : q # r => reached'[q] = reached[q] /\ letters'[q] = letters[q]
    BY <1>1, <1>4 DEF TypeOK
  <2>. QED
    BY <1>1, <1>4, <2>1, <2>2 DEF TypeOK
<1>5. CASE BreaksOff(r)
  <2>1. EndTx(r) /\ cursor' = reached[r] /\ dead' = dead \cup letters[r]
    BY <1>5 DEF CommitTx, BreaksOff
  <2>. QED
    BY <1>1, <1>5, <2>1, EndTxFacts
<1>. QED
  BY <1>2, <1>3, <1>4, <1>5 DEF Passes

-----------------------------------------------------------------------------
(* Types, transactions and counters, kept together.                        *)
BusInv == TypeOK /\ TxInv /\ LetterInv

LEMMA InitGood == ASSUME Init PROVE BusInv
<1>1. TypeOK
  BY BusAssumption DEF Init, TypeOK, Ids
<1>2. TxInv /\ LetterInv
  BY <1>1 DEF Init, TxInv, LetterInv, Counted, DeadLettersEarned
<1>. QED
  BY <1>1, <1>2 DEF BusInv

LEMMA NextInFacts ==
    ASSUME TypeOK, NEW r \in Replicas, NEW i \in NextIn(r)
    PROVE  /\ i \in Ids /\ i \in batch[r] /\ i > reached[r] /\ reached[r] \in 0..MaxEvents
           /\ \A k \in batch[r] : k \in Ids /\ (k <= reached[r] \/ i <= k)
<1>1. batch[r] \subseteq Ids /\ reached[r] \in 0..MaxEvents
  BY DEF TypeOK
<1>2. i \in batch[r] /\ i > reached[r] /\ \A k \in batch[r] : k > reached[r] => i <= k
  BY DEF NextIn, Todo
<1>. QED
  BY <1>1, <1>2 DEF Ids

LEMMA DispatchKeeps ==
    ASSUME BusInv, NEW r \in Replicas, Handle(r) \/ Retry(r) \/ DeadLetter(r)
    PROVE  BusInv'
<1>1. TypeOK /\ TxInv /\ Counted /\ LetterInv
  BY DEF BusInv, LetterInv
<1>2. PICK i \in NextIn(r), dl \in SUBSET Ids :
        /\ Counts(i) /\ letters[r] \subseteq dl /\ dl \subseteq letters[r] \cup {i}
        /\ i \in dl \ letters[r] => failed'[i] >= MaxAttempts
        /\ RollsBack(r) \/ Passes(r, i, dl) \/ BreaksOff(r)
  BY <1>1, DispatchFate
<1>3. UNCHANGED <<log, faults>> /\ pc[r] # "idle"
  BY <1>1, DispatchFate
<1>4. /\ i \in Ids /\ i \in batch[r] /\ i > reached[r]
  BY <1>1, NextInFacts
<1>5. /\ pc' \in [Replicas -> {"idle", "active", "severed"}]
      /\ batch' \in [Replicas -> SUBSET Ids] /\ letters' \in [Replicas -> SUBSET Ids]
      /\ reached' \in [Replicas -> 0..MaxEvents]
      /\ cursor' \in 0..MaxEvents /\ dead' \subseteq Ids
      /\ \A q \in Replicas : q # r =>
            /\ pc'[q] = pc[q] /\ batch'[q] = batch[q]
            /\ reached'[q] = reached[q] /\ letters'[q] = letters[q]
      /\ \/ pc'[r] = "idle" /\ batch'[r] = {} /\ letters'[r] = {}
         \/ /\ Passes(r, i, dl) /\ pc'[r] = "active" /\ batch'[r] = batch[r]
            /\ reached'[r] = i /\ letters'[r] = dl
            /\ UNCHANGED <<cursor, dead>>
      /\ \/ UNCHANGED <<cursor, dead>>
         \/ /\ Passes(r, i, dl) /\ pc'[r] = "idle" /\ Todo(r) = {i}
            /\ cursor' = i /\ dead' = dead \cup dl
         \/ /\ BreaksOff(r) /\ pc'[r] = "idle"
            /\ cursor' = reached[r] /\ dead' = dead \cup letters[r]
  BY <1>1, <1>2, <1>4, MoveFacts
<1>6. TypeOK'
  BY <1>1, <1>2, <1>3, <1>5 DEF TypeOK, Counts, log
<1>7. /\ event' = event /\ nextId' = nextId
      /\ Passes(r, i, dl) \/ BreaksOff(r) => pc[r] = "active"
  BY <1>3 DEF log, Passes, BreaksOff
<1>8. /\ cursor \in Int /\ \A q \in Replicas : reached[q] \in Int
      /\ \A k \in Ids : k \in Int /\ failed[k] \in Nat /\ failed'[k] \in Nat
      /\ \A q \in Replicas : letters[q] \subseteq Ids /\ batch[q] \subseteq Ids
      /\ dead \subseteq Ids
  <2>1. /\ cursor \in Int /\ \A q \in Replicas : reached[q] \in Int
        /\ \A k \in Ids : k \in Int
    BY <1>1 DEF TypeOK, Ids
  <2>2. /\ \A q \in Replicas : letters[q] \subseteq Ids /\ batch[q] \subseteq Ids
        /\ dead \subseteq Ids
    BY <1>1 DEF TypeOK
  <2>3. \A k \in Ids : failed[k] \in Nat /\ failed'[k] \in Nat
    BY <1>1, <1>6 DEF TypeOK
  <2>. QED
    BY <2>1, <2>2, <2>3
<1>9. TxInv'
  <2>1. \A q \in Replicas : pc'[q] = "idle" => batch'[q] = {}
    BY <1>1, <1>5 DEF TxInv
  <2>2. \A q \in Replicas : pc'[q] = "active" => pc[q] = "active"
    BY <1>5, <1>7
  <2>3. ASSUME NEW q \in Replicas, pc'[q] = "active"
        PROVE  /\ reached'[q] >= cursor' /\ letters'[q] \subseteq batch'[q]
               /\ \A k \in batch'[q] : event'[k] = "committed" /\ k > cursor'
    <3>1. CASE q = r
      <4>1. /\ batch'[r] = batch[r] /\ reached'[r] = i /\ letters'[r] = dl
            /\ UNCHANGED <<cursor, dead>> /\ pc[r] = "active"
        BY <1>5, <1>7, <2>3, <3>1
      <4>. QED
        BY <1>1, <1>2, <1>4, <1>7, <1>8, <3>1, <4>1 DEF TxInv
    <3>2. CASE q # r
      <4>1. pc[q] = "active" /\ pc[r] # "active"
        BY <1>1, <1>5, <2>3, <3>2 DEF TxInv
      <4>2. UNCHANGED <<cursor, dead>>
        BY <1>5, <1>7, <4>1
      <4>. QED
        BY <1>1, <1>5, <1>7, <3>2, <4>1, <4>2 DEF TxInv
    <3>. QED
      BY <3>1, <3>2
  <2>. QED
    BY <1>1, <1>7, <2>1, <2>2, <2>3 DEF TxInv
<1>10. LetterInv'
  <2>1. Counted' /\ \A k \in Ids : failed'[k] >= failed[k]
    BY <1>2 DEF Counts
  <2>2. MaxAttempts \in Nat
    BY BusAssumption
  <2>3. \A k \in letters[r] : failed'[k] >= MaxAttempts
    BY <1>1, <1>8, <2>1, <2>2 DEF LetterInv
  <2>4. \A k \in dl : failed'[k] >= MaxAttempts
    BY <1>2, <2>3
  <2>5. ASSUME NEW q \in Replicas, NEW k \in letters'[q] PROVE failed'[k] >= MaxAttempts
    <3>1. CASE q = r
      BY <1>5, <2>4, <2>5, <3>1
    <3>2. CASE q # r
      <4>1. k \in letters[q]
        BY <1>5, <2>5, <3>2
      <4>. QED
        BY <1>1, <1>8, <2>1, <2>2, <4>1 DEF LetterInv
    <3>. QED
      BY <3>1, <3>2
  <2>6. \A k \in dead : failed'[k] >= MaxAttempts /\ event[k] = "committed"
    BY <1>1, <1>8, <2>1, <2>2 DEF LetterInv, DeadLettersEarned
  <2>7. pc[r] = "active" => \A k \in letters[r] \cup {i} : event[k] = "committed"
    BY <1>1, <1>4 DEF TxInv
  <2>8. \A k \in dead' : k \in dead \/ (pc[r] = "active" /\ k \in dl)
    BY <1>2, <1>5, <1>7
  <2>9. DeadLettersEarned'
    BY <1>2, <1>7, <2>4, <2>6, <2>7, <2>8 DEF DeadLettersEarned
  <2>. QED
    BY <2>1, <2>5, <2>9 DEF LetterInv
<1>. QED
  BY <1>6, <1>9, <1>10 DEF BusInv

LEMMA BeginKeeps == ASSUME BusInv, NEW r \in Replicas, Begin(r) PROVE BusInv'
<1>1. TypeOK /\ TxInv /\ LetterInv
  BY DEF BusInv
<1>2. /\ pc[r] = "idle" /\ \A q \in Replicas : pc[q] # "active"
      /\ pc' = [pc EXCEPT ![r] = "active"] /\ reached' = [reached EXCEPT ![r] = cursor]
      /\ letters' = [letters EXCEPT ![r] = {}]
      /\ UNCHANGED <<log, cursor, dead, attempts, handled, failed, faults>>
  BY DEF Begin
<1>3. PICK b \in SUBSET {i \in Committed : i > cursor} : batch' = [batch EXCEPT ![r] = b]
  BY DEF Begin
<1>4. b \subseteq Ids /\ \A i \in b : event[i] = "committed" /\ i > cursor
  BY <1>3 DEF Committed
<1>5. TypeOK'
  BY <1>1, <1>2, <1>3, <1>4 DEF TypeOK, log
<1>6. /\ \A q \in Replicas : pc'[q] = IF q = r THEN "active" ELSE pc[q]
      /\ \A q \in Replicas : batch'[q] = IF q = r THEN b ELSE batch[q]
      /\ \A q \in Replicas : letters'[q] = IF q = r THEN {} ELSE letters[q]
      /\ reached'[r] = cursor /\ cursor' = cursor /\ event' = event /\ nextId' = nextId /\ cursor \in Int
  BY <1>1, <1>2, <1>3 DEF TypeOK, log
<1>7. TxInv'
  BY <1>1, <1>2, <1>4, <1>6 DEF TxInv
<1>8. LetterInv'
  BY <1>1, <1>2, <1>6 DEF LetterInv, Counted, DeadLettersEarned
<1>. QED
  BY <1>5, <1>7, <1>8 DEF BusInv

(* A crash ends the transaction, a lost session leaves it to be found out. *)
LEMMA FaultKeeps ==
    ASSUME BusInv, NEW r \in Replicas, Crash(r) \/ SessionLost(r) PROVE BusInv'
<1>1. TypeOK /\ TxInv /\ LetterInv
  BY DEF BusInv
<1>2. CASE Crash(r)
  <2>1. /\ EndTx(r) /\ UNCHANGED <<cursor, dead, log, handled, failed>>
        /\ attempts' = [attempts EXCEPT ![r] = [i \in Ids |-> 0]] /\ faults' = faults + 1
    BY <1>2 DEF Crash, RollBack
  <2>2. /\ pc' \in [Replicas -> {"idle", "active", "severed"}]
        /\ batch' \in [Replicas -> SUBSET Ids] /\ letters' \in [Replicas -> SUBSET Ids]
        /\ reached' \in [Replicas -> 0..MaxEvents]
        /\ pc'[r] = "idle" /\ batch'[r] = {} /\ letters'[r] = {}
        /\ \A q \in Replicas : q # r =>
              /\ pc'[q] = pc[q] /\ batch'[q] = batch[q]
              /\ reached'[q] = reached[q] /\ letters'[q] = letters[q]
    BY <1>1, <2>1, EndTxFacts
  <2>3. /\ attempts' \in [Replicas -> [Ids -> Nat]]
        /\ \A q \in Replicas, i \in Ids : attempts'[q][i] = 0 \/ attempts'[q][i] = attempts[q][i]
    BY <1>1, <2>1 DEF TypeOK
  <2>4. TypeOK'
    BY <1>1, <2>1, <2>2, <2>3 DEF TypeOK, log
  <2>5. TxInv'
    BY <1>1, <2>1, <2>2 DEF TxInv, log
  <2>6. Counted'
    BY <1>1, <2>1, <2>3 DEF LetterInv, Counted, TypeOK
  <2>7. LetterInv'
    BY <1>1, <2>1, <2>2, <2>6 DEF LetterInv, DeadLettersEarned, log
  <2>. QED
    BY <2>4, <2>5, <2>7 DEF BusInv
<1>3. CASE SessionLost(r)
  <2>1. /\ pc' = [pc EXCEPT ![r] = "severed"] /\ faults' = faults + 1
        /\ UNCHANGED <<log, cursor, dead, batch, reached, letters, attempts, handled, failed>>
    BY <1>3 DEF SessionLost
  <2>2. \A q \in Replicas : pc'[q] = IF q = r THEN "severed" ELSE pc[q]
    BY <1>1, <2>1 DEF TypeOK
  <2>3. TypeOK'
    BY <1>1, <2>1 DEF TypeOK, log
  <2>4. TxInv' /\ LetterInv'
    BY <1>1, <2>1, <2>2 DEF TxInv, LetterInv, Counted, DeadLettersEarned, log
  <2>. QED
    BY <2>3, <2>4 DEF BusInv
<1>. QED
  BY <1>2, <1>3

(* Steps on the log: what is locked stays committed.                       *)
LEMMA LogKeeps ==
    ASSUME BusInv, NEW j \in Ids,
           Publish \/ EndPublish(j) \/ Survey(j) \/ Remove(j)
    PROVE  /\ BusInv' /\ UNCHANGED <<cursor, local, handled, failed, faults>>
<1>1. TypeOK /\ TxInv /\ LetterInv
  BY DEF BusInv
<1>2. UNCHANGED <<cursor, local, handled, failed, faults>>
  BY DEF Publish, EndPublish, Survey, Remove
<1>3. TypeOK'
  <2>1. CASE Publish
    <3>1. nextId \in Ids /\ nextId + 1 \in 1..(MaxEvents + 1)
      BY <1>1, <2>1, BusAssumption DEF Publish, TypeOK, Ids
    <3>. QED
      BY <1>1, <2>1, <3>1 DEF Publish, TypeOK, local
  <2>2. CASE EndPublish(j)
    BY <1>1, <2>2 DEF EndPublish, TypeOK, local
  <2>3. CASE Survey(j)
    BY <1>1, <2>3 DEF Survey, Content, TypeOK, local
  <2>4. CASE Remove(j)
    BY <1>1, <2>4 DEF Remove, TypeOK, local
  <2>. QED
    BY <2>1, <2>2, <2>3, <2>4
<1>4. /\ \A k \in Ids : event[k] = "committed" /\ event'[k] # "committed" =>
            k \notin Locked /\ k \notin dead'
      /\ dead' \subseteq dead
  <2>1. CASE Publish
    <3>1. nextId \in Ids
      BY <1>1, <2>1, BusAssumption DEF Publish, TypeOK, Ids
    <3>2. \A k \in Ids : event'[k] = event[k] \/ (k = nextId /\ event'[k] = "open")
      BY <1>1, <2>1, <3>1 DEF Publish, TypeOK
    <3>3. event[nextId] # "committed"
      BY <1>1, <3>1 DEF TxInv, TypeOK, Ids
    <3>. QED
      BY <1>1, <2>1, <3>2, <3>3 DEF Publish
  <2>2. CASE EndPublish(j)
    BY <1>1, <2>2 DEF EndPublish, TypeOK
  <2>3. CASE Survey(j)
    BY <2>3 DEF Survey
  <2>4. CASE Remove(j)
    BY <1>1, <2>4 DEF Remove, TypeOK
  <2>. QED
    BY <2>1, <2>2, <2>3, <2>4
<1>5. \A k \in Ids : k >= nextId' => event'[k] = "unused"
  <2>1. CASE Publish
    <3>1. nextId \in Ids /\ nextId' = nextId + 1
      BY <1>1, <2>1, BusAssumption DEF Publish, TypeOK, Ids
    <3>2. \A k \in Ids : k # nextId => event'[k] = event[k]
      BY <1>1, <2>1, <3>1 DEF Publish, TypeOK
    <3>3. \A k \in Ids : k >= nextId' => k >= nextId /\ k # nextId
      BY <3>1 DEF Ids
    <3>. QED
      BY <1>1, <3>2, <3>3 DEF TxInv
  <2>2. CASE EndPublish(j)
    BY <1>1, <2>2 DEF EndPublish, TypeOK, TxInv
  <2>3. CASE Survey(j)
    BY <1>1, <2>3 DEF Survey, TxInv
  <2>4. CASE Remove(j)
    BY <1>1, <2>4 DEF Remove, TypeOK, TxInv, Committed
  <2>. QED
    BY <2>1, <2>2, <2>3, <2>4
<1>6. UNCHANGED <<pc, batch, reached, letters, attempts>>
  BY <1>2 DEF local
<1>7. TxInv'
  <2>1. ASSUME NEW q \in Replicas, pc[q] = "active", NEW k \in batch[q]
        PROVE  event'[k] = "committed"
    <3>1. k \in Ids /\ k \in Locked
      BY <1>1, <2>1 DEF TypeOK, Locked
    <3>. QED
      BY <1>1, <1>4, <2>1, <3>1 DEF TxInv
  <2>. QED
    BY <1>1, <1>2, <1>5, <1>6, <2>1 DEF TxInv
<1>8. LetterInv'
  BY <1>1, <1>2, <1>4, <1>6 DEF LetterInv, Counted, DeadLettersEarned, TypeOK
<1>. QED
  BY <1>2, <1>3, <1>7, <1>8 DEF BusInv

LEMMA StepKeeps == ASSUME BusInv, [Next]_vars PROVE BusInv'
<1>1. CASE UNCHANGED vars
  BY <1>1 DEF vars, BusInv, TypeOK, TxInv, LetterInv, Counted, DeadLettersEarned
<1>2. CASE Publish /\ Ids # {}
  BY <1>2, LogKeeps
<1>3. Publish => Ids # {}
  <2>1. Publish => nextId \in Ids
    BY BusAssumption DEF BusInv, TypeOK, Publish, Ids
  <2>. QED
    BY <2>1
<1>4. ASSUME NEW i \in Ids, EndPublish(i) \/ Survey(i) \/ Remove(i) PROVE BusInv'
  BY <1>4, LogKeeps
<1>5. ASSUME NEW r \in Replicas,
             \/ Begin(r) \/ Handle(r) \/ Retry(r) \/ DeadLetter(r)
             \/ Crash(r) \/ SessionLost(r)
      PROVE  BusInv'
  BY <1>5, BeginKeeps, DispatchKeeps, FaultKeeps
<1>. QED
  BY <1>1, <1>2, <1>3, <1>4, <1>5 DEF Next

(* The parts of the invariant hold throughout.                             *)
THEOREM BusIsGood == Spec => []BusInv
  BY InitGood, StepKeeps, PTL DEF Spec

-----------------------------------------------------------------------------
(* The log, the cursor and the transactions keep their types.              *)
THEOREM TypeCorrect == Spec => []TypeOK
<1>1. BusInv => TypeOK
  BY DEF BusInv
<1>. QED
  BY <1>1, BusIsGood, PTL

(* Every dead letter has MaxAttempts failures behind it and an event that  *)
(* is still there, however consumers, crashes and a content removal meet.  *)
THEOREM DeadLettersAreEarned == Spec => []DeadLettersEarned
<1>1. BusInv => DeadLettersEarned
  BY DEF BusInv, LetterInv
<1>. QED
  BY <1>1, BusIsGood, PTL

-----------------------------------------------------------------------------
(* Duplicates.  Every fault pays for one more handling of every event: the *)
(* transaction it ends may have handled the event already, and a replica   *)
(* that has lost its session may still handle the one it is at.            *)
Done(i) ==
    \/ i <= cursor
    \/ \E r \in Replicas : pc[r] = "active" /\ i \in batch[r] /\ i <= reached[r]
AtIt(i) == {r \in Replicas : pc[r] = "severed" /\ i \in NextIn(r)}

PaidFor ==
    \A i \in Ids : handled[i] + Cardinality(AtIt(i)) <= faults + (IF Done(i) THEN 1 ELSE 0)

LEMMA AtItIsFinite ==
    ASSUME NEW i PROVE IsFiniteSet(AtIt(i)) /\ Cardinality(AtIt(i)) \in Nat
  BY BusAssumption, FS_Subset, FS_CardinalityType DEF AtIt

LEMMA AtItIsFinitePrimed ==
    ASSUME NEW i PROVE IsFiniteSet(AtIt(i)') /\ Cardinality(AtIt(i)') \in Nat
  BY BusAssumption, FS_Subset, FS_CardinalityType DEF AtIt

(* The replicas at an event: a step changes one of them.                   *)
LEMMA OthersStayAtIt ==
    ASSUME TypeOK, NEW r \in Replicas, NEW i \in Ids,
           \A q \in Replicas : q # r =>
              pc'[q] = pc[q] /\ batch'[q] = batch[q] /\ reached'[q] = reached[q]
    PROVE  /\ AtIt(i)' \subseteq AtIt(i) \cup {r} /\ AtIt(i) \ {r} \subseteq AtIt(i)'
           /\ r \notin AtIt(i)' => AtIt(i)' = AtIt(i) \ {r}
           /\ r \in AtIt(i)' => AtIt(i)' = AtIt(i) \cup {r}
<1>1. \A q \in Replicas : q # r => NextIn(q)' = NextIn(q)
  BY DEF NextIn, Todo
<1>2. \A q \in Replicas : q # r => (q \in AtIt(i)' <=> q \in AtIt(i))
  BY <1>1 DEF AtIt
<1>3. AtIt(i) \subseteq Replicas /\ AtIt(i)' \subseteq Replicas
  BY DEF AtIt
<1>. QED
  BY <1>2, <1>3

(* The price of one step of a replica, in the cases there are.             *)
LEMMA StepIsPaid ==
    ASSUME TypeOK, TypeOK', NEW r \in Replicas, NEW i \in Ids,
           handled[i] + Cardinality(AtIt(i)) <= faults + (IF Done(i) THEN 1 ELSE 0),
           \A q \in Replicas : q # r =>
              pc'[q] = pc[q] /\ batch'[q] = batch[q] /\ reached'[q] = reached[q],
           \/ /\ faults' = faults /\ handled'[i] <= handled[i]
              /\ (Done(i) => Done(i)') /\ r \notin AtIt(i)'
           \/ /\ faults' = faults /\ handled'[i] <= handled[i] + 1
              /\ ~Done(i) /\ Done(i)' /\ r \notin AtIt(i)'
           \/ /\ faults' = faults /\ handled'[i] <= handled[i] + 1
              /\ (Done(i) => Done(i)') /\ r \in AtIt(i) /\ r \notin AtIt(i)'
           \/ /\ faults' = faults + 1 /\ handled'[i] = handled[i]
              /\ r \notin AtIt(i)'
           \/ /\ faults' = faults + 1 /\ handled'[i] = handled[i]
              /\ ~Done(i)
    PROVE  handled'[i] + Cardinality(AtIt(i)') <= faults' + (IF Done(i)' THEN 1 ELSE 0)
<1>. DEFINE c == Cardinality(AtIt(i))  d == Cardinality(AtIt(i)')
<1>1. c \in Nat /\ d \in Nat /\ IsFiniteSet(AtIt(i))
  BY AtItIsFinite, AtItIsFinitePrimed
<1>2. /\ handled[i] \in Nat /\ handled'[i] \in Nat /\ faults \in Nat /\ faults' \in Nat
  BY DEF TypeOK
<1>3. r \notin AtIt(i)' => d <= c /\ (r \in AtIt(i) => d = c - 1)
  <2>1. r \notin AtIt(i)' => AtIt(i)' = AtIt(i) \ {r}
    BY OthersStayAtIt
  <2>2. Cardinality(AtIt(i) \ {r}) = IF r \in AtIt(i) THEN c - 1 ELSE c
    BY <1>1, FS_RemoveElement
  <2>. QED
    BY <1>1, <2>1, <2>2
<1>4. r \in AtIt(i)' => d <= c + 1
  <2>1. r \in AtIt(i)' => AtIt(i)' = AtIt(i) \cup {r}
    BY OthersStayAtIt
  <2>2. Cardinality(AtIt(i) \cup {r}) = IF r \in AtIt(i) THEN c ELSE c + 1
    BY <1>1, FS_AddElement
  <2>. QED
    BY <1>1, <2>1, <2>2
<1>. HIDE DEF c, d
<1>5. handled[i] + c <= faults + (IF Done(i) THEN 1 ELSE 0)
  BY DEF c
<1>6. handled'[i] + d <= faults' + (IF Done(i)' THEN 1 ELSE 0)
  BY <1>1, <1>2, <1>3, <1>4, <1>5
<1>. QED
  BY <1>6 DEF d

(* No event after the cursor's lock holder is done.                        *)
LEMMA NextIsNotDone ==
    ASSUME TypeOK, TxInv, NEW r \in Replicas, pc[r] = "active", NEW i \in NextIn(r)
    PROVE  ~Done(i)
<1>1. i \in Ids /\ i > reached[r] /\ reached[r] \in 0..MaxEvents
  BY NextInFacts
<1>2. reached[r] >= cursor /\ \A q \in Replicas : pc[q] = "active" => q = r
  BY DEF TxInv
<1>3. cursor \in 0..MaxEvents
  BY DEF TypeOK
<1>. QED
  BY <1>1, <1>2, <1>3 DEF Done, Ids

LEMMA DispatchIsPaid ==
    ASSUME BusInv, BusInv', PaidFor, NEW r \in Replicas, NEW j \in Ids,
           Handle(r) \/ Retry(r) \/ DeadLetter(r)
    PROVE  handled'[j] + Cardinality(AtIt(j)') <= faults' + (IF Done(j)' THEN 1 ELSE 0)
<1>1. TypeOK /\ TypeOK' /\ TxInv /\ Counted
  BY DEF BusInv, LetterInv
<1>2. PICK i \in NextIn(r), dl \in SUBSET Ids :
        /\ Counts(i)
        /\ \/ RollsBack(r) \/ Passes(r, i, dl)
           \/ BreaksOff(r) /\ handled' = handled
  BY <1>1, DispatchFate
<1>3. faults' = faults /\ pc[r] # "idle"
  BY <1>1, DispatchFate
<1>4. /\ i \in Ids /\ i \in batch[r] /\ i > reached[r] /\ reached[r] \in Int
  BY <1>1, NextInFacts
<1>5. /\ \A q \in Replicas : q # r =>
            /\ pc'[q] = pc[q] /\ batch'[q] = batch[q]
            /\ reached'[q] = reached[q] /\ letters'[q] = letters[q]
      /\ \/ pc'[r] = "idle" /\ batch'[r] = {} /\ letters'[r] = {}
         \/ /\ Passes(r, i, dl) /\ pc'[r] = "active" /\ batch'[r] = batch[r]
            /\ reached'[r] = i /\ letters'[r] = dl
            /\ UNCHANGED <<cursor, dead>>
      /\ \/ UNCHANGED <<cursor, dead>>
         \/ /\ Passes(r, i, dl) /\ pc'[r] = "idle" /\ Todo(r) = {i}
            /\ cursor' = i /\ dead' = dead \cup dl
         \/ /\ BreaksOff(r) /\ pc'[r] = "idle"
            /\ cursor' = reached[r] /\ dead' = dead \cup letters[r]
  BY <1>1, <1>2, <1>4, MoveFacts
<1>6. /\ handled'[j] <= handled[j] + 1 /\ (j # i => handled'[j] <= handled[j])
      /\ handled[j] \in Nat /\ handled'[j] \in Nat
  BY <1>1, <1>2 DEF Counts, TypeOK
<1>7. /\ cursor \in Int /\ cursor' \in Int /\ j \in Int /\ i \in Int
      /\ \A q \in Replicas : reached[q] \in Int
  BY <1>1, <1>4 DEF TypeOK, Ids
<1>8. handled[j] + Cardinality(AtIt(j)) <= faults + (IF Done(j) THEN 1 ELSE 0)
  BY DEF PaidFor
<1>9. r \notin AtIt(j)'
  BY <1>5 DEF AtIt
<1>10. CASE RollsBack(r)
  <2>1. pc[r] = "severed" /\ cursor' = cursor
    BY <1>1, <1>3, <1>10 DEF RollsBack, RollBack, TypeOK
  <2>2. Done(j) => Done(j)'
    BY <1>5, <2>1 DEF Done
  <2>3. i = j => r \in AtIt(j)
    BY <2>1 DEF AtIt
  <2>. QED
    BY <1>1, <1>3, <1>5, <1>6, <1>8, <1>9, <2>2, <2>3, StepIsPaid
<1>11. CASE Passes(r, i, dl)
  <2>1. pc[r] = "active" /\ ~RollsBack(r)
    BY <1>11 DEF Passes, RollsBack
  <2>2. ~Done(i) /\ reached[r] >= cursor /\ \A q \in Replicas : pc[q] = "active" => q = r
    BY <1>1, <2>1, NextIsNotDone DEF TxInv
  <2>3. \/ /\ cursor' = i
        \/ /\ cursor' = cursor /\ pc'[r] = "active" /\ batch'[r] = batch[r] /\ reached'[r] = i
    <3>1. CASE Todo(r) = {i} /\ CommitTx(r, i, dl)
      BY <3>1 DEF CommitTx
    <3>2. CASE /\ reached' = [reached EXCEPT ![r] = i]
               /\ UNCHANGED <<cursor, dead, pc, batch>>
      BY <1>1, <2>1, <3>2 DEF TypeOK
    <3>. QED
      BY <1>11, <3>1, <3>2 DEF Passes
  <2>4. Done(i)'
    BY <1>4, <1>7, <2>3 DEF Done
  <2>5. Done(j) => Done(j)'
    BY <1>4, <1>7, <2>2, <2>3 DEF Done
  <2>. QED
    BY <1>1, <1>3, <1>5, <1>6, <1>8, <1>9, <2>2, <2>4, <2>5, StepIsPaid
<1>12. CASE BreaksOff(r) /\ handled' = handled
  <2>1. pc[r] = "active" /\ cursor' = reached[r]
    BY <1>12 DEF BreaksOff, CommitTx
  <2>2. reached[r] >= cursor /\ \A q \in Replicas : pc[q] = "active" => q = r
    BY <1>1, <2>1 DEF TxInv
  <2>3. Done(j) => Done(j)'
    BY <1>7, <2>1, <2>2 DEF Done
  <2>. QED
    BY <1>1, <1>3, <1>5, <1>6, <1>8, <1>9, <1>12, <2>3, StepIsPaid
<1>. QED
  BY <1>2, <1>10, <1>11, <1>12

LEMMA FaultIsPaid ==
    ASSUME BusInv, BusInv', PaidFor, NEW r \in Replicas, NEW j \in Ids,
           Crash(r) \/ SessionLost(r)
    PROVE  handled'[j] + Cardinality(AtIt(j)') <= faults' + (IF Done(j)' THEN 1 ELSE 0)
<1>1. TypeOK /\ TypeOK' /\ TxInv
  BY DEF BusInv
<1>2. handled[j] + Cardinality(AtIt(j)) <= faults + (IF Done(j) THEN 1 ELSE 0)
  BY DEF PaidFor
<1>3. CASE Crash(r)
  <2>1. EndTx(r) /\ handled' = handled /\ faults' = faults + 1
    BY <1>3 DEF Crash, RollBack
  <2>2. /\ pc'[r] = "idle"
        /\ \A q \in Replicas : q # r =>
              pc'[q] = pc[q] /\ batch'[q] = batch[q] /\ reached'[q] = reached[q]
    BY <1>1, <2>1, EndTxFacts
  <2>3. r \notin AtIt(j)'
    BY <2>2 DEF AtIt
  <2>. QED
    BY <1>1, <1>2, <2>1, <2>2, <2>3, StepIsPaid
<1>4. CASE SessionLost(r)
  <2>1. /\ pc[r] = "active" /\ pc' = [pc EXCEPT ![r] = "severed"]
        /\ faults' = faults + 1 /\ UNCHANGED <<batch, reached, handled>>
    BY <1>4 DEF SessionLost
  <2>2. \A q \in Replicas : q # r =>
            pc'[q] = pc[q] /\ batch'[q] = batch[q] /\ reached'[q] = reached[q]
    BY <1>1, <2>1 DEF TypeOK
  <2>3. NextIn(r)' = NextIn(r)
    BY <2>1 DEF NextIn, Todo
  <2>4. j \in NextIn(r) => ~Done(j)
    BY <1>1, <2>1, NextIsNotDone
  <2>5. j \notin NextIn(r) => r \notin AtIt(j)'
    BY <2>3 DEF AtIt
  <2>. QED
    BY <1>1, <1>2, <2>1, <2>2, <2>4, <2>5, StepIsPaid
<1>. QED
  BY <1>3, <1>4

LEMMA StepKeepsPaid ==
    ASSUME BusInv, BusInv', PaidFor, [Next]_vars PROVE PaidFor'
<1>1. TypeOK /\ TypeOK' /\ TxInv
  BY DEF BusInv
<1>2. ASSUME UNCHANGED <<cursor, local, handled, faults>> PROVE PaidFor'
  <2>1. /\ \A r \in Replicas : NextIn(r)' = NextIn(r)
    BY <1>2 DEF NextIn, Todo, local
  <2>2. ASSUME NEW i \in Ids PROVE AtIt(i)' = AtIt(i) /\ (Done(i) => Done(i)')
    BY <1>2, <2>1, <2>2 DEF AtIt, Done, local
  <2>3. ASSUME NEW i \in Ids
        PROVE  handled'[i] + Cardinality(AtIt(i)') <= faults' + (IF Done(i)' THEN 1 ELSE 0)
    <3>1. handled[i] + Cardinality(AtIt(i)) <= faults + (IF Done(i) THEN 1 ELSE 0)
      BY DEF PaidFor
    <3>2. Cardinality(AtIt(i)') = Cardinality(AtIt(i))
      BY <2>2
    <3>3. Cardinality(AtIt(i)) \in Nat /\ handled[i] \in Nat /\ faults \in Nat
      BY <1>1, AtItIsFinite DEF TypeOK
    <3>. QED
      BY <1>2, <2>2, <3>1, <3>2, <3>3
  <2>. QED
    BY <2>3 DEF PaidFor
<1>3. CASE UNCHANGED vars
  BY <1>2, <1>3 DEF vars, local
<1>4. CASE Publish
  BY <1>2, <1>4 DEF Publish
<1>5. ASSUME NEW i \in Ids, EndPublish(i) \/ Survey(i) \/ Remove(i) PROVE PaidFor'
  BY <1>2, <1>5 DEF EndPublish, Survey, Remove
<1>6. ASSUME NEW r \in Replicas, Begin(r) PROVE PaidFor'
  <2>1. /\ pc[r] = "idle" /\ \A q \in Replicas : pc[q] # "active"
        /\ pc' = [pc EXCEPT ![r] = "active"] /\ reached' = [reached EXCEPT ![r] = cursor]
        /\ UNCHANGED <<cursor, handled, faults>>
        /\ \E b : batch' = [batch EXCEPT ![r] = b]
    BY <1>6 DEF Begin
  <2>2. /\ pc'[r] = "active"
        /\ \A q \in Replicas : q # r =>
              pc'[q] = pc[q] /\ batch'[q] = batch[q] /\ reached'[q] = reached[q]
    BY <1>1, <2>1 DEF TypeOK
  <2>3. ASSUME NEW j \in Ids
        PROVE  handled'[j] + Cardinality(AtIt(j)') <= faults' + (IF Done(j)' THEN 1 ELSE 0)
    <3>1. handled[j] + Cardinality(AtIt(j)) <= faults + (IF Done(j) THEN 1 ELSE 0)
      BY DEF PaidFor
    <3>2. r \notin AtIt(j)' /\ (Done(j) => Done(j)')
      BY <2>1, <2>2 DEF AtIt, Done
    <3>3. handled[j] \in Nat
      BY <1>1 DEF TypeOK
    <3>. QED
      BY <1>1, <2>1, <2>2, <3>1, <3>2, <3>3, StepIsPaid
  <2>. QED
    BY <2>3 DEF PaidFor
<1>7. ASSUME NEW r \in Replicas,
             Handle(r) \/ Retry(r) \/ DeadLetter(r) \/ Crash(r) \/ SessionLost(r)
      PROVE  PaidFor'
  BY <1>7, DispatchIsPaid, FaultIsPaid DEF PaidFor
<1>. QED
  BY <1>3, <1>4, <1>5, <1>6, <1>7 DEF Next

(* An event is handled once, and once more for each fault: a retry never   *)
(* repeats what the transaction before it has handled.                     *)
THEOREM DuplicatesAreFaults == Spec => []DuplicatesNeedFaults
<1>1. Init => PaidFor
  <2>1. ASSUME Init, NEW i \in Ids PROVE AtIt(i) = {} /\ handled[i] = 0 /\ faults = 0
    BY <2>1 DEF Init, AtIt
  <2>2. Cardinality({}) = 0
    BY FS_EmptySet
  <2>. QED
    BY <2>1, <2>2 DEF PaidFor
<1>2. BusInv /\ PaidFor => DuplicatesNeedFaults
  <2>1. ASSUME BusInv, PaidFor, NEW i \in Ids PROVE handled[i] <= 1 + faults
    <3>1. handled[i] \in Nat /\ faults \in Nat /\ Cardinality(AtIt(i)) \in Nat
      BY <2>1, AtItIsFinite DEF BusInv, TypeOK
    <3>2. handled[i] + Cardinality(AtIt(i)) <= faults + (IF Done(i) THEN 1 ELSE 0)
      BY <2>1 DEF PaidFor
    <3>. QED
      BY <3>1, <3>2
  <2>. QED
    BY <2>1 DEF DuplicatesNeedFaults
<1>3. BusInv /\ BusInv' /\ PaidFor /\ [Next]_vars => PaidFor'
  BY StepKeepsPaid
<1>. QED
  BY <1>1, <1>2, <1>3, BusIsGood, PTL DEF Spec

-----------------------------------------------------------------------------
(* At least once, where publishing transactions do not overlap: ids then   *)
(* become visible in their order, so that whatever a batch has not read    *)
(* lies after it.                                                          *)
LogInOrder ==
    /\ \A i \in Ids : event[i] = "unused" => i >= nextId
    /\ \A i \in Ids : event[i] = "open" => i = nextId - 1
    /\ \A i \in Ids : i <= cursor => event[i] \notin {"unused", "open"}

BatchIsWhole ==
    \A r \in Replicas : pc[r] = "active" =>
        /\ \A b \in batch[r], i \in Committed : cursor < i /\ i <= b => i \in batch[r]
        /\ reached[r] = cursor \/ reached[r] \in batch[r]
        /\ \A i \in batch[r] : i <= reached[r] => handled[i] > 0 \/ i \in letters[r]

SerialInv == LogInOrder /\ BatchIsWhole /\ NoEventSkipped

(* What the cursor moves to: an event of the batch, up to which all is     *)
(* handled or has a letter.                                                *)
LEMMA CommitSkipsNone ==
    ASSUME BusInv, SerialInv, NEW r \in Replicas, pc[r] = "active",
           NEW c \in batch[r] \cup {cursor}, NEW dl,
           event' = event, cursor' = c, dead' = dead \cup dl,
           \A k \in Ids : handled'[k] >= handled[k], handled' \in [Ids -> Nat],
           \A k \in batch[r] : k <= c => handled'[k] > 0 \/ k \in dl
    PROVE  LogInOrder /\ nextId' = nextId => LogInOrder' /\ NoEventSkipped'
<1>1. /\ batch[r] \subseteq Ids /\ \A k \in Ids : handled[k] \in Nat /\ handled'[k] \in Nat
      /\ \A k \in batch[r] : event[k] = "committed" /\ k > cursor
      /\ \A k \in Ids : k >= nextId => event[k] = "unused"
  BY DEF BusInv, TypeOK, TxInv
<1>2. /\ cursor \in Int /\ nextId \in Int /\ \A k \in Ids : k \in Int
  BY DEF BusInv, TypeOK, Ids
<1>3. \A b \in batch[r], k \in Committed : cursor < k /\ k <= b => k \in batch[r]
  BY DEF SerialInv, BatchIsWhole
<1>4. ASSUME LogInOrder, nextId' = nextId, NEW k \in Ids, k <= c, c \in batch[r]
      PROVE  event[k] \notin {"unused", "open"}
  <2>1. c < nextId /\ event[c] = "committed"
    BY <1>1, <1>2, <1>4
  <2>. QED
    BY <1>2, <1>1, <1>4, <2>1 DEF LogInOrder
<1>5. ASSUME NEW k \in Committed, k <= c PROVE handled'[k] > 0 \/ k \in dead \cup dl
  <2>1. k \in Ids
    BY DEF Committed
  <2>2. CASE k <= cursor
    BY <1>1, <2>1, <2>2 DEF SerialInv, NoEventSkipped
  <2>3. CASE ~(k <= cursor)
    <3>1. c \in batch[r] /\ cursor < k
      BY <1>2, <1>5, <2>1, <2>3
    <3>2. k \in batch[r]
      BY <1>3, <1>5, <3>1
    <3>. QED
      BY <1>5, <3>2
  <2>. QED
    BY <2>2, <2>3
<1>6. NoEventSkipped'
  BY <1>5 DEF NoEventSkipped, Committed
<1>7. LogInOrder /\ nextId' = nextId => LogInOrder'
  BY <1>4 DEF LogInOrder
<1>. QED
  BY <1>6, <1>7

LEMMA DispatchSkipsNone ==
    ASSUME BusInv, SerialInv, NEW r \in Replicas, Handle(r) \/ Retry(r) \/ DeadLetter(r)
    PROVE  SerialInv'
<1>1. TypeOK /\ TxInv /\ Counted
  BY DEF BusInv, LetterInv
<1>2. PICK i \in NextIn(r), dl \in SUBSET Ids :
        /\ Counts(i) /\ letters[r] \subseteq dl
        /\ \/ RollsBack(r)
           \/ Passes(r, i, dl) /\ (i \in dl \/ handled'[i] > 0)
           \/ BreaksOff(r) /\ handled' = handled
  BY <1>1, DispatchFate
<1>3. event' = event /\ nextId' = nextId
  BY <1>1, DispatchFate DEF log
<1>4. /\ i \in Ids /\ i \in batch[r] /\ reached[r] \in 0..MaxEvents
      /\ \A k \in batch[r] : k \in Ids /\ (k <= reached[r] \/ i <= k)
  BY <1>1, NextInFacts
<1>5. /\ \A q \in Replicas : q # r =>
            /\ pc'[q] = pc[q] /\ batch'[q] = batch[q]
            /\ reached'[q] = reached[q] /\ letters'[q] = letters[q]
      /\ \/ pc'[r] = "idle" /\ batch'[r] = {} /\ letters'[r] = {}
         \/ /\ Passes(r, i, dl) /\ pc'[r] = "active" /\ batch'[r] = batch[r]
            /\ reached'[r] = i /\ letters'[r] = dl
            /\ UNCHANGED <<cursor, dead>>
      /\ \/ UNCHANGED <<cursor, dead>>
         \/ /\ Passes(r, i, dl) /\ pc'[r] = "idle" /\ Todo(r) = {i}
            /\ cursor' = i /\ dead' = dead \cup dl
         \/ /\ BreaksOff(r) /\ pc'[r] = "idle"
            /\ cursor' = reached[r] /\ dead' = dead \cup letters[r]
  BY <1>1, <1>2, <1>4, MoveFacts
<1>6. /\ \A k \in Ids : handled'[k] >= handled[k] /\ handled[k] \in Nat
      /\ handled' \in [Ids -> Nat] /\ \A k \in Ids : handled'[k] \in Nat /\ k \in Int
      /\ \A q \in Replicas : batch[q] \subseteq Ids
  <2>1. \A k \in Ids : k \in Int
    BY DEF Ids
  <2>. QED
    BY <1>1, <1>2, <2>1 DEF Counts, TypeOK
<1>7. /\ LogInOrder /\ BatchIsWhole /\ NoEventSkipped
  BY DEF SerialInv
<1>8. \A k \in batch[r] : pc[r] = "active" /\ k <= reached[r] => handled'[k] > 0 \/ k \in letters[r]
  BY <1>4, <1>6, <1>7 DEF BatchIsWhole
<1>9. ASSUME Passes(r, i, dl), i \in dl \/ handled'[i] > 0, NEW k \in batch[r], k <= i
      PROVE  handled'[k] > 0 \/ k \in dl
  <2>1. k <= reached[r] \/ k = i
    BY <1>4, <1>6, <1>9
  <2>. QED
    BY <1>2, <1>8, <1>9, <2>1 DEF Passes
<1>10. LogInOrder' /\ NoEventSkipped'
  <2>1. CASE UNCHANGED <<cursor, dead>>
    <3>1. LogInOrder'
      BY <1>3, <1>7, <2>1 DEF LogInOrder
    <3>2. NoEventSkipped'
      BY <1>3, <1>6, <1>7, <2>1 DEF NoEventSkipped, Committed
    <3>. QED
      BY <3>1, <3>2
  <2>2. CASE Passes(r, i, dl) /\ cursor' = i /\ dead' = dead \cup dl
    <3>1. pc[r] = "active" /\ ~RollsBack(r)
      BY <2>2 DEF Passes, RollsBack
    <3>2. i \in dl \/ handled'[i] > 0 \/ (BreaksOff(r) /\ handled' = handled)
      BY <1>2, <3>1
    <3>3. CASE i \in dl \/ handled'[i] > 0
      <4>1. \A k \in batch[r] : k <= i => handled'[k] > 0 \/ k \in dl
        BY <1>9, <2>2, <3>3
      <4>2. i \in batch[r] \cup {cursor}
        BY <1>4
      <4>. QED
        BY <1>3, <1>6, <1>7, <2>2, <3>1, <4>1, <4>2, CommitSkipsNone
    <3>4. CASE BreaksOff(r)
      <4>1. cursor' = reached[r] /\ dead' = dead \cup letters[r]
        BY <3>4 DEF BreaksOff, CommitTx
      <4>2. reached[r] \in batch[r] \cup {cursor}
        BY <1>7, <3>1 DEF BatchIsWhole
      <4>3. \A k \in batch[r] : k <= reached[r] => handled'[k] > 0 \/ k \in letters[r]
        BY <1>8, <3>1
      <4>. QED
        BY <1>3, <1>6, <1>7, <3>1, <4>1, <4>2, <4>3, CommitSkipsNone
    <3>. QED
      BY <3>2, <3>3, <3>4
  <2>3. CASE BreaksOff(r)
    <3>1. pc[r] = "active" /\ cursor' = reached[r] /\ dead' = dead \cup letters[r]
      BY <2>3 DEF BreaksOff, CommitTx
    <3>2. reached[r] \in batch[r] \cup {cursor}
      BY <1>7, <3>1 DEF BatchIsWhole
    <3>3. \A k \in batch[r] : k <= reached[r] => handled'[k] > 0 \/ k \in letters[r]
      BY <1>8, <3>1
    <3>. QED
      BY <1>3, <1>6, <1>7, <3>1, <3>2, <3>3, CommitSkipsNone
  <2>. QED
    BY <1>5, <2>1, <2>2, <2>3
<1>11. BatchIsWhole'
  <2>1. ASSUME NEW q \in Replicas, pc'[q] = "active"
        PROVE  /\ \A b \in batch'[q], k \in Committed' : cursor' < k /\ k <= b => k \in batch'[q]
               /\ reached'[q] = cursor' \/ reached'[q] \in batch'[q]
               /\ \A k \in batch'[q] : k <= reached'[q] => handled'[k] > 0 \/ k \in letters'[q]
    <3>1. Committed' = Committed
      BY <1>3 DEF Committed
    <3>2. CASE q # r
      <4>1. pc[q] = "active" /\ pc[r] # "active"
        BY <1>1, <1>5, <2>1, <3>2 DEF TxInv, Passes
      <4>2. UNCHANGED <<cursor, dead>>
        BY <1>5, <4>1 DEF Passes, BreaksOff
      <4>. QED
        BY <1>5, <1>6, <1>7, <3>1, <3>2, <4>1, <4>2 DEF BatchIsWhole
    <3>3. CASE q = r
      <4>1. /\ Passes(r, i, dl) /\ batch'[r] = batch[r] /\ reached'[r] = i
            /\ letters'[r] = dl /\ UNCHANGED <<cursor, dead>>
        BY <1>5, <2>1, <3>3
      <4>2. pc[r] = "active" /\ ~RollsBack(r)
        BY <4>1 DEF Passes, RollsBack
      <4>3. ~BreaksOff(r)
        <5>1. BreaksOff(r) => pc'[r] = "idle"
          BY <1>1, EndTxFacts DEF BreaksOff, CommitTx
        <5>. QED
          BY <2>1, <3>3, <5>1
      <4>4. \A k \in batch[r] : k <= i => handled'[k] > 0 \/ k \in dl
        BY <1>2, <1>9, <4>2, <4>3
      <4>. QED
        BY <1>4, <1>7, <3>1, <3>3, <4>1, <4>2, <4>4 DEF BatchIsWhole
    <3>. QED
      BY <3>2, <3>3
  <2>. QED
    BY <2>1 DEF BatchIsWhole
<1>. QED
  BY <1>10, <1>11 DEF SerialInv

(* A batch is read without gaps: of two events after the cursor the lower  *)
(* one has the lower rank.                                                 *)
LEMMA BeginSkipsNone ==
    ASSUME BusInv, SerialInv, NEW r \in Replicas, Begin(r) PROVE SerialInv'
<1>1. TypeOK
  BY DEF BusInv
<1>. DEFINE after == {i \in Committed : i > cursor}
            rank(i) == Cardinality({k \in after : k <= i})
            b == {i \in after : rank(i) <= Batch}
<1>2. /\ \A q \in Replicas : pc[q] # "active"
      /\ pc' = [pc EXCEPT ![r] = "active"] /\ reached' = [reached EXCEPT ![r] = cursor]
      /\ batch' = [batch EXCEPT ![r] = b]
      /\ UNCHANGED <<log, cursor, dead, handled>>
  BY DEF Begin
<1>3. \A q \in Replicas : pc'[q] = "active" => q = r /\ batch'[q] = b /\ reached'[q] = cursor
  BY <1>1, <1>2 DEF TypeOK
<1>4. after \subseteq Ids /\ IsFiniteSet(after) /\ \A i \in Ids : i \in Int
  BY BusAssumption, FS_Interval, FS_Subset DEF Committed, Ids
<1>. HIDE DEF after
<1>5. ASSUME NEW x \in b, NEW i \in after, i <= x PROVE i \in b
  <2>. DEFINE low == {k \in after : k <= i}  high == {k \in after : k <= x}
  <2>1. low \subseteq high /\ high \subseteq after
    BY <1>4, <1>5
  <2>2. IsFiniteSet(high) /\ Cardinality(low) <= Cardinality(high)
    BY <1>4, <2>1, FS_Subset
  <2>3. IsFiniteSet(low) /\ Cardinality(low) \in Nat /\ Cardinality(high) \in Nat
    BY <2>1, <2>2, FS_Subset, FS_CardinalityType
  <2>4. Cardinality(high) <= Batch
    BY <1>5
  <2>. HIDE DEF low, high
  <2>5. Cardinality(low) <= Batch
    BY <2>2, <2>3, <2>4, BusAssumption
  <2>. QED
    BY <1>5, <2>5 DEF low
<1>6. \A i \in b : i \in after
  OBVIOUS
<1>. HIDE DEF b
<1>7. BatchIsWhole'
  <2>1. \A i \in Committed' : cursor' < i => i \in after
    BY <1>1, <1>2 DEF after, Committed, log, TypeOK, Ids
  <2>2. \A i \in b : ~(i <= cursor)
    BY <1>1, <1>4, <1>6 DEF after, TypeOK
  <2>. QED
    BY <1>2, <1>3, <1>5, <2>1, <2>2 DEF BatchIsWhole
<1>8. LogInOrder' /\ NoEventSkipped'
  BY <1>2 DEF SerialInv, LogInOrder, NoEventSkipped, Committed, log
<1>. QED
  BY <1>7, <1>8 DEF SerialInv

LEMMA PublishSkipsNone == ASSUME MaxOpen = 1, BusInv, SerialInv, Publish PROVE SerialInv'
<1>1. TypeOK /\ TxInv
  BY DEF BusInv
<1>2. /\ nextId \in Ids /\ nextId' = nextId + 1 /\ event' = [event EXCEPT ![nextId] = "open"]
      /\ UNCHANGED <<cursor, dead, local, handled>> /\ Cardinality(OpenIds) < 1
  BY <1>1, BusAssumption DEF Publish, TypeOK, Ids
<1>3. OpenIds = {}
  <2>1. IsFiniteSet(OpenIds)
    BY BusAssumption, FS_Interval, FS_Subset DEF OpenIds, Ids
  <2>2. Cardinality(OpenIds) \in Nat
    BY <2>1, FS_CardinalityType
  <2>. QED
    BY <1>2, <2>1, <2>2, FS_EmptySet
<1>4. \A k \in Ids : event'[k] = IF k = nextId THEN "open" ELSE event[k]
  BY <1>1, <1>2 DEF TypeOK
<1>5. event[nextId] = "unused"
  BY <1>1, <1>2 DEF TxInv, Ids
<1>6. cursor \in Int /\ nextId \in Int /\ \A k \in Ids : k \in Int
  BY <1>1 DEF TypeOK, Ids
<1>7. LogInOrder'
  <2>1. \A k \in Ids : event'[k] = "unused" => k >= nextId'
    BY <1>2, <1>4, <1>6 DEF SerialInv, LogInOrder
  <2>2. \A k \in Ids : event'[k] = "open" => k = nextId' - 1
    BY <1>2, <1>3, <1>4, <1>6 DEF OpenIds
  <2>3. \A k \in Ids : k <= cursor' => event'[k] \notin {"unused", "open"}
    BY <1>2, <1>4, <1>5 DEF SerialInv, LogInOrder
  <2>. QED
    BY <2>1, <2>2, <2>3 DEF LogInOrder
<1>8. Committed' = Committed
  BY <1>4, <1>5 DEF Committed
<1>9. NoEventSkipped'
  BY <1>2, <1>8 DEF SerialInv, NoEventSkipped
<1>10. BatchIsWhole'
  BY <1>2, <1>8 DEF SerialInv, BatchIsWhole, local
<1>. QED
  BY <1>7, <1>9, <1>10 DEF SerialInv

(* The end of the publishing transaction that is open: its event is the    *)
(* newest one, after the cursor and after every batch.                     *)
LEMMA EndPublishSkipsNone ==
    ASSUME BusInv, SerialInv, NEW j \in Ids, EndPublish(j) PROVE SerialInv'
<1>1. TypeOK /\ TxInv /\ LogInOrder
  BY DEF BusInv, SerialInv
<1>2. /\ event[j] = "open" /\ nextId' = nextId
      /\ UNCHANGED <<cursor, dead, local, handled>>
  BY DEF EndPublish
<1>3. \A k \in Ids : event'[k] = event[k] \/ (k = j /\ event'[k] \in {"committed", "aborted"})
  BY <1>1 DEF EndPublish, TypeOK
<1>4. cursor \in Int /\ nextId \in Int /\ \A k \in Ids : k \in Int
  BY <1>1 DEF TypeOK, Ids
<1>5. LogInOrder'
  BY <1>1, <1>2, <1>3 DEF LogInOrder
<1>6. ~(j <= cursor) /\ j = nextId - 1
  BY <1>1, <1>2 DEF LogInOrder
<1>7. Committed' \subseteq Committed \cup {j}
  BY <1>3 DEF Committed
<1>8. NoEventSkipped'
  BY <1>2, <1>6, <1>7 DEF SerialInv, NoEventSkipped, Committed
<1>9. ASSUME NEW r \in Replicas, pc[r] = "active", NEW b \in batch[r] PROVE ~(j <= b)
  <2>1. b \in Ids /\ event[b] = "committed"
    BY <1>1, <1>9 DEF TypeOK, TxInv
  <2>2. b < nextId /\ b # j
    BY <1>1, <1>2, <1>4, <2>1 DEF TxInv
  <2>. QED
    BY <1>4, <1>6, <2>1, <2>2
<1>10. BatchIsWhole'
  BY <1>2, <1>7, <1>9 DEF SerialInv, BatchIsWhole, local
<1>. QED
  BY <1>5, <1>8, <1>10 DEF SerialInv

LEMMA ContentSkipsNone ==
    ASSUME BusInv, SerialInv, NEW j \in Ids, Survey(j) \/ Remove(j) PROVE SerialInv'
<1>1. TypeOK /\ LogInOrder
  BY DEF BusInv, SerialInv
<1>2. nextId' = nextId /\ UNCHANGED <<cursor, local, handled>>
  BY DEF Survey, Remove
<1>3. /\ \A k \in Ids : event'[k] = event[k] \/ event'[k] = "removed"
      /\ \A k \in Ids : event'[k] = "committed" => (k \in dead => k \in dead')
  BY <1>1 DEF Survey, Remove, TypeOK
<1>4. Committed' \subseteq Committed
  BY <1>3 DEF Committed
<1>5. LogInOrder'
  BY <1>1, <1>2, <1>3 DEF LogInOrder
<1>6. NoEventSkipped'
  BY <1>2, <1>3, <1>4 DEF SerialInv, NoEventSkipped, Committed
<1>7. BatchIsWhole'
  BY <1>2, <1>4 DEF SerialInv, BatchIsWhole, local
<1>. QED
  BY <1>5, <1>6, <1>7 DEF SerialInv

LEMMA FaultSkipsNone ==
    ASSUME BusInv, SerialInv, NEW r \in Replicas, Crash(r) \/ SessionLost(r) PROVE SerialInv'
<1>1. TypeOK
  BY DEF BusInv
<1>2. UNCHANGED <<event, nextId, cursor, dead, handled>>
  BY DEF Crash, SessionLost, RollBack, log
<1>3. \A q \in Replicas : pc'[q] = "active" =>
        /\ pc[q] = "active" /\ batch'[q] = batch[q]
        /\ reached'[q] = reached[q] /\ letters'[q] = letters[q]
  <2>1. CASE Crash(r)
    BY <1>1, <2>1, EndTxFacts DEF Crash, RollBack
  <2>2. CASE SessionLost(r)
    BY <1>1, <2>2 DEF SessionLost, TypeOK
  <2>. QED
    BY <2>1, <2>2
<1>4. LogInOrder' /\ NoEventSkipped'
  BY <1>2 DEF SerialInv, LogInOrder, NoEventSkipped, Committed
<1>5. BatchIsWhole'
  BY <1>2, <1>3 DEF SerialInv, BatchIsWhole, Committed
<1>. QED
  BY <1>4, <1>5 DEF SerialInv

(* While publishing transactions follow one another, the log stays in      *)
(* order and batches stay whole.                                           *)
THEOREM LogIsSerial == ASSUME MaxOpen = 1 PROVE Spec => []SerialInv
<1>1. Init => SerialInv
  BY BusAssumption DEF Init, SerialInv, LogInOrder, BatchIsWhole, NoEventSkipped, Committed, Ids
<1>2. ASSUME BusInv, SerialInv, [Next]_vars PROVE SerialInv'
  <2>1. CASE UNCHANGED vars
    BY <1>2, <2>1 DEF vars, SerialInv, LogInOrder, BatchIsWhole, NoEventSkipped, Committed
  <2>2. CASE Publish
    BY <1>2, <2>2, PublishSkipsNone
  <2>3. ASSUME NEW i \in Ids, EndPublish(i) \/ Survey(i) \/ Remove(i) PROVE SerialInv'
    BY <1>2, <2>3, EndPublishSkipsNone, ContentSkipsNone
  <2>4. ASSUME NEW r \in Replicas,
               \/ Begin(r) \/ Handle(r) \/ Retry(r) \/ DeadLetter(r)
               \/ Crash(r) \/ SessionLost(r)
        PROVE  SerialInv'
    BY <1>2, <2>4, BeginSkipsNone, DispatchSkipsNone, FaultSkipsNone
  <2>. QED
    BY <1>2, <2>1, <2>2, <2>3, <2>4 DEF Next
<1>. QED
  BY <1>1, <1>2, BusIsGood, PTL DEF Spec

(* With one publishing transaction at a time the cursor passes no event    *)
(* before its handlers ran or its dead letter was kept, whichever handlers *)
(* throw, replicas die or sessions are lost.  (That it may with two is     *)
(* what the run bus_overlap shows.)                                        *)
THEOREM NothingIsSkipped == ASSUME MaxOpen = 1 PROVE Spec => []NoEventSkipped
<1>1. SerialInv => NoEventSkipped
  BY DEF SerialInv
<1>. QED
  BY <1>1, LogIsSerial, PTL

-----------------------------------------------------------------------------
(* The cursor never goes back, whoever commits it and whatever is lost.    *)
CursorAdvances == [][cursor' >= cursor]_vars

LEMMA CommitsMoveOn == ASSUME BusInv, [Next]_vars PROVE cursor' >= cursor
<1>1. TypeOK /\ TxInv /\ Counted /\ cursor \in Int
  BY DEF BusInv, LetterInv, TypeOK
<1>2. CASE UNCHANGED cursor
  BY <1>1, <1>2
<1>3. ASSUME NEW r \in Replicas, Handle(r) \/ Retry(r) \/ DeadLetter(r) PROVE cursor' >= cursor
  <2>1. PICK i \in NextIn(r), dl \in SUBSET Ids :
          RollsBack(r) \/ Passes(r, i, dl) \/ BreaksOff(r)
    BY <1>1, <1>3, DispatchFate
  <2>2. i \in Ids /\ i > reached[r] /\ reached[r] \in 0..MaxEvents
    BY <1>1, NextInFacts
  <2>3. \/ UNCHANGED cursor
        \/ Passes(r, i, dl) /\ cursor' = i
        \/ BreaksOff(r) /\ cursor' = reached[r]
    BY <1>1, <2>1, <2>2, MoveFacts
  <2>4. Passes(r, i, dl) \/ BreaksOff(r) => reached[r] >= cursor
    BY <1>1 DEF Passes, BreaksOff, TxInv
  <2>. QED
    BY <1>1, <2>2, <2>3, <2>4 DEF Ids
<1>4. ASSUME NEW r \in Replicas, Begin(r) \/ Crash(r) \/ SessionLost(r) PROVE UNCHANGED cursor
  BY <1>4 DEF Begin, Crash, SessionLost, RollBack
<1>5. ASSUME NEW i \in Ids, EndPublish(i) \/ Survey(i) \/ Remove(i) PROVE UNCHANGED cursor
  BY <1>5 DEF EndPublish, Survey, Remove
<1>6. Publish \/ UNCHANGED vars => UNCHANGED cursor
  BY DEF Publish, vars
<1>. QED
  BY <1>2, <1>3, <1>4, <1>5, <1>6 DEF Next

(* The cursor is read under its lock, and what is written lies beyond what *)
(* was read: no replica takes back what another has passed.                *)
THEOREM CursorNeverGoesBack == Spec => CursorAdvances
<1>1. BusInv /\ [Next]_vars => [cursor' >= cursor]_vars
  BY CommitsMoveOn
<1>. QED
  BY <1>1, BusIsGood, PTL DEF Spec, CursorAdvances

-----------------------------------------------------------------------------
(* Order.  The handlers of an event run only when every earlier committed  *)
(* event has been handled or has a dead letter, be it one of the batch     *)
(* that is still open.  This also binds a replica that has lost its        *)
(* session and goes on with the rows it read before.                       *)
Settled(k) == handled[k] > 0 \/ k \in dead \/ \E r \in Replicas : k \in letters[r]

HandledInOrder ==
    [][\A i \in Ids : handled'[i] # handled[i] =>
          \A k \in Committed : k < i => Settled(k)]_vars

(* What a replica without its session still knows: its batch was whole,    *)
(* though others may have moved the cursor since.                          *)
SeveredKnows ==
    \A r \in Replicas : pc[r] = "severed" =>
        /\ \A b \in batch[r] : event[b] \notin {"unused", "open"}
        /\ \A b \in batch[r], k \in Committed : cursor < k /\ k <= b => k \in batch[r]
        /\ \A k \in batch[r] : k <= reached[r] => handled[k] > 0 \/ k \in letters[r]

(* A step that leaves the replicas without a session alone, forgets no     *)
(* handling and commits nothing below their batches.                       *)
LEMMA SeveredAreLeft ==
    ASSUME TypeOK, SeveredKnows, cursor' >= cursor, cursor' \in Int,
           \A r \in Replicas : pc'[r] = "severed" =>
              /\ pc[r] = "severed" /\ batch'[r] = batch[r]
              /\ reached'[r] = reached[r] /\ letters'[r] = letters[r],
           \A i \in Ids : handled'[i] >= handled[i] /\ handled'[i] \in Nat,
           \A i \in Ids : event[i] \notin {"unused", "open"}
                            => event'[i] \notin {"unused", "open"},
           \A r \in Replicas, k \in Committed' \ Committed :
              pc[r] = "severed" => \A b \in batch[r] : ~(k <= b)
    PROVE  SeveredKnows'
<1>1. /\ \A r \in Replicas : batch[r] \subseteq Ids
      /\ \A i \in Ids : i \in Int /\ handled[i] \in Nat
      /\ cursor \in Int
  BY DEF TypeOK, Ids
<1>2. Committed \subseteq Ids /\ Committed' \subseteq Ids
  BY DEF Committed
<1>. SUFFICES ASSUME NEW r \in Replicas, pc'[r] = "severed"
              PROVE  /\ \A b \in batch[r] : event'[b] \notin {"unused", "open"}
                     /\ \A b \in batch[r], k \in Committed' :
                           cursor' < k /\ k <= b => k \in batch[r]
                     /\ \A k \in batch[r] :
                           k <= reached[r] => handled'[k] > 0 \/ k \in letters[r]
  BY DEF SeveredKnows
<1>3. /\ \A b \in batch[r] : event[b] \notin {"unused", "open"}
      /\ \A b \in batch[r], k \in Committed : cursor < k /\ k <= b => k \in batch[r]
      /\ \A k \in batch[r] : k <= reached[r] => handled[k] > 0 \/ k \in letters[r]
      /\ pc[r] = "severed"
  BY DEF SeveredKnows
<1>. QED
  BY <1>1, <1>2, <1>3

LEMMA SeveredStep ==
    ASSUME MaxOpen = 1, BusInv, BusInv', SerialInv, SeveredKnows, [Next]_vars
    PROVE  SeveredKnows'
<1>1. /\ TypeOK /\ TxInv /\ Counted /\ LogInOrder /\ BatchIsWhole
      /\ cursor' \in Int /\ cursor' >= cursor
      /\ \A i \in Ids : handled[i] \in Nat /\ handled'[i] \in Nat
  BY CommitsMoveOn DEF BusInv, LetterInv, SerialInv, TypeOK
<1>2. \A i \in Ids : i \in Int
  BY DEF Ids
<1>3. ASSUME UNCHANGED <<local, handled>>, Committed' \subseteq Committed,
             \A i \in Ids : event[i] \notin {"unused", "open"}
                              => event'[i] \notin {"unused", "open"}
      PROVE  SeveredKnows'
  BY <1>1, <1>3, SeveredAreLeft DEF local
<1>4. ASSUME NEW r \in Replicas, Handle(r) \/ Retry(r) \/ DeadLetter(r) PROVE SeveredKnows'
  <2>1. PICK i \in NextIn(r), dl \in SUBSET Ids :
          /\ Counts(i)
          /\ RollsBack(r) \/ Passes(r, i, dl) \/ BreaksOff(r)
    BY <1>1, <1>4, DispatchFate
  <2>2. i \in Ids
    BY <1>1, NextInFacts
  <2>3. /\ \A q \in Replicas : q # r =>
              /\ pc'[q] = pc[q] /\ batch'[q] = batch[q]
              /\ reached'[q] = reached[q] /\ letters'[q] = letters[q]
        /\ pc'[r] \in {"idle", "active"}
    BY <1>1, <2>1, <2>2, MoveFacts
  <2>4. event' = event
    BY <1>1, <1>4, DispatchFate DEF log
  <2>5. \A k \in Ids : handled'[k] >= handled[k]
    BY <2>1 DEF Counts
  <2>. QED
    BY <1>1, <2>3, <2>4, <2>5, SeveredAreLeft DEF Committed
<1>5. ASSUME NEW r \in Replicas, Begin(r) PROVE SeveredKnows'
  <2>1. /\ UNCHANGED <<event, handled>> /\ pc'[r] = "active"
        /\ \A q \in Replicas : q # r =>
              /\ pc'[q] = pc[q] /\ batch'[q] = batch[q]
              /\ reached'[q] = reached[q] /\ letters'[q] = letters[q]
    BY <1>1, <1>5 DEF Begin, log, TypeOK
  <2>. QED
    BY <1>1, <2>1, SeveredAreLeft DEF Committed
<1>6. ASSUME NEW r \in Replicas, Crash(r) PROVE SeveredKnows'
  <2>1. /\ UNCHANGED <<event, handled>> /\ EndTx(r)
    BY <1>6 DEF Crash, RollBack, log
  <2>2. /\ pc'[r] = "idle"
        /\ \A q \in Replicas : q # r =>
              /\ pc'[q] = pc[q] /\ batch'[q] = batch[q]
              /\ reached'[q] = reached[q] /\ letters'[q] = letters[q]
    BY <1>1, <2>1, EndTxFacts
  <2>. QED
    BY <1>1, <2>1, <2>2, SeveredAreLeft DEF Committed
<1>7. ASSUME NEW r \in Replicas, SessionLost(r) PROVE SeveredKnows'
  <2>1. /\ UNCHANGED <<event, cursor, batch, reached, letters, handled>>
        /\ pc[r] = "active" /\ pc' = [pc EXCEPT ![r] = "severed"]
    BY <1>7 DEF SessionLost, log
  <2>2. \A q \in Replicas : pc'[q] = "severed" => q = r \/ pc[q] = "severed"
    BY <1>1, <2>1 DEF TypeOK
  <2>3. Committed' = Committed
    BY <2>1 DEF Committed
  <2>4. /\ \A b \in batch[r] : event[b] \notin {"unused", "open"}
        /\ \A b \in batch[r], k \in Committed : cursor < k /\ k <= b => k \in batch[r]
        /\ \A k \in batch[r] : k <= reached[r] => handled[k] > 0 \/ k \in letters[r]
    BY <1>1, <2>1 DEF TxInv, BatchIsWhole
  <2>. QED
    BY <2>1, <2>2, <2>3, <2>4 DEF SeveredKnows
<1>8. CASE Publish
  <2>1. /\ nextId \in Ids /\ event' = [event EXCEPT ![nextId] = "open"]
        /\ UNCHANGED <<cursor, local, handled>>
    BY <1>1, <1>8, BusAssumption DEF Publish, TypeOK, Ids
  <2>2. event[nextId] = "unused"
    BY <1>1, <2>1 DEF TxInv, Ids
  <2>3. \A i \in Ids : event'[i] = IF i = nextId THEN "open" ELSE event[i]
    BY <1>1, <2>1 DEF TypeOK
  <2>. QED
    BY <1>3, <2>1, <2>2, <2>3 DEF Committed
<1>9. ASSUME NEW j \in Ids, EndPublish(j) PROVE SeveredKnows'
  <2>1. event[j] = "open" /\ UNCHANGED <<cursor, local, handled>>
    BY <1>9 DEF EndPublish
  <2>2. \A k \in Ids : event'[k] = event[k] \/ (k = j /\ event'[k] \in {"committed", "aborted"})
    BY <1>1, <1>9 DEF EndPublish, TypeOK
  <2>3. j = nextId - 1 /\ nextId \in Int
    BY <1>1, <2>1 DEF LogInOrder, TypeOK
  <2>4. ASSUME NEW r \in Replicas, pc[r] = "severed", NEW b \in batch[r] PROVE ~(j <= b)
    <3>1. b \in Ids /\ event[b] \notin {"unused", "open"}
      BY <1>1, <2>4 DEF TypeOK, SeveredKnows
    <3>2. ~(b >= nextId) /\ b # j
      BY <1>1, <2>1, <3>1 DEF TxInv
    <3>. QED
      BY <1>2, <2>3, <3>1, <3>2
  <2>5. Committed' \ Committed \subseteq {j}
    BY <2>2 DEF Committed
  <2>6. \A r \in Replicas, k \in Committed' \ Committed :
          pc[r] = "severed" => \A b \in batch[r] : ~(k <= b)
    BY <2>4, <2>5
  <2>7. \A i \in Ids : event[i] \notin {"unused", "open"} => event'[i] \notin {"unused", "open"}
    BY <2>2
  <2>. QED
    BY <1>1, <2>1, <2>6, <2>7, SeveredAreLeft DEF local
<1>10. ASSUME NEW j \in Ids, Survey(j) \/ Remove(j) PROVE SeveredKnows'
  <2>1. UNCHANGED <<local, handled>>
    BY <1>10 DEF Survey, Remove
  <2>2. \A k \in Ids : event'[k] = event[k] \/ event'[k] = "removed"
    BY <1>1, <1>10 DEF Survey, Remove, TypeOK
  <2>. QED
    BY <1>3, <2>1, <2>2 DEF Committed
<1>11. CASE UNCHANGED vars
  BY <1>3, <1>11 DEF vars, local, Committed
<1>. QED
  BY <1>4, <1>5, <1>6, <1>7, <1>8, <1>9, <1>10, <1>11 DEF Next

(* Handlers run for the next event of a batch without gaps.                *)
LEMMA HandlersFollowOrder ==
    ASSUME BusInv, SerialInv, SeveredKnows, [Next]_vars,
           NEW i \in Ids, handled'[i] # handled[i], NEW k \in Committed, k < i
    PROVE  Settled(k)
<1>1. TypeOK /\ TxInv /\ Counted /\ BatchIsWhole /\ NoEventSkipped
  BY DEF BusInv, LetterInv, SerialInv
<1>2. \E r \in Replicas : Handle(r)
  BY DEF Next, vars, Publish, EndPublish, Survey, Remove, Begin, Retry, DeadLetter, Crash,
         SessionLost
<1>3. PICK r \in Replicas : Handle(r)
  BY <1>2
<1>4. PICK n \in NextIn(r) : handled' = [handled EXCEPT ![n] = @ + 1]
  BY <1>3 DEF Handle
<1>5. n = i
  BY <1>1, <1>4 DEF TypeOK
<1>6. /\ i \in batch[r] /\ i > reached[r] /\ reached[r] \in 0..MaxEvents
      /\ \A b \in batch[r] : b \in Ids /\ (b <= reached[r] \/ i <= b)
  BY <1>1, <1>5, NextInFacts
<1>7. k \in Ids /\ k \in Int /\ i \in Int /\ cursor \in Int
  BY <1>1 DEF Committed, Ids, TypeOK
<1>8. CASE k <= cursor
  BY <1>1, <1>8 DEF NoEventSkipped, Settled
<1>9. CASE ~(k <= cursor)
  <2>1. pc[r] \in {"active", "severed"}
    BY <1>1, <1>6 DEF TypeOK, TxInv
  <2>2. k \in batch[r]
    BY <1>1, <1>6, <1>7, <1>9, <2>1 DEF BatchIsWhole, SeveredKnows
  <2>3. k <= reached[r]
    BY <1>6, <1>7, <2>2
  <2>4. handled[k] > 0 \/ k \in letters[r]
    BY <1>1, <2>1, <2>2, <2>3 DEF BatchIsWhole, SeveredKnows
  <2>. QED
    BY <2>4 DEF Settled
<1>. QED
  BY <1>8, <1>9

(* The other half of the consumer's promise, order, for every number of    *)
(* replicas, retries and faults, as long as publishing transactions follow *)
(* one another.                                                            *)
THEOREM HandlersRunInOrder == ASSUME MaxOpen = 1 PROVE Spec => HandledInOrder
<1>1. Init => SeveredKnows
  BY DEF Init, SeveredKnows
<1>2. BusInv /\ BusInv' /\ SerialInv /\ SeveredKnows /\ [Next]_vars => SeveredKnows'
  BY SeveredStep
<1>3. BusInv /\ SerialInv /\ SeveredKnows /\ [Next]_vars
        => [\A i \in Ids : handled'[i] # handled[i] =>
               \A k \in Committed : k < i => Settled(k)]_vars
  BY HandlersFollowOrder
<1>. QED
  BY <1>1, <1>2, <1>3, BusIsGood, LogIsSerial, PTL DEF Spec, HandledInOrder
=============================================================================
