------------------------- MODULE ReleaseSlotsProofs -------------------------
(* Theorems about the releases and the slots of a service, for any number  *)
(* of releases, workers and faults.                                        *)
EXTENDS ReleaseSlots, FiniteSetTheorems, TLAPS

(* A job that is under way is that of the release in progress, and what it *)
(* has read of the release is still so.                                    *)
JobInv ==
    job.pc # "none" =>
        /\ job.rel \in Release /\ Busy(job.rel)
        /\ job.pc \in {"run", "act"} => job.snap = row[job.rel]
        /\ job.pc = "act" => job.snap.status = "deploying"

(* There is one release in progress, away from traffic and alone.          *)
OwnerInv ==
    /\ \A r \in Release : Busy(r) => row[r].target # active /\ op = NoOp /\ handoff = NoHandoff
    /\ \A r, q \in Release : Busy(r) /\ Busy(q) => r = q
    /\ op = NoOp \/ handoff = NoHandoff

NotYet == {"none", "pending", "building", "migrating"}

(* A release is on one slot at most, as its status says.                   *)
SlotInv ==
    /\ \A p, q \in Slot : slot[p].rel = slot[q].rel /\ slot[p].rel # None => p = q
    /\ \A r \in Release :
          /\ row[r].status = "ready" => OnASlot(r)
          /\ row[r].status = "deploying" => slot[row[r].target].rel = r
          /\ row[r].status \in NotYet \cup {"superseded", "offline"} => ~OnASlot(r)

(* The lease of the handoff is its newest holder's, who has read the stage *)
(* that the handoff is in; before the last stage traffic has not moved.    *)
HandInv ==
    /\ handoff = NoHandoff \/ handoff.stage \in Stage
    /\ leased => /\ handoff # NoHandoff /\ holder \in Worker
                 /\ hand[holder] \in {"none", handoff.stage}
    /\ handoff # NoHandoff /\ handoff.stage # "activating" => handoff.slot # active
    /\ EveryMoveRecorded

ReleaseInv == TypeOK /\ JobInv /\ OwnerInv /\ SlotInv /\ HandInv

(* The types, by the groups of variables that actions leave alone.         *)
RowsTyped == row \in [Release -> Row] /\ late \in BOOLEAN
SlotsTyped ==
    /\ slot \in [Slot -> SlotRow]
    /\ record \in [Slot -> [rel : Release \cup {None}, serving : BOOLEAN]]
    /\ deployed \in [Slot -> [rel : Release \cup {None}, fresh : BOOLEAN,
                            phase : {"absent", "starting", "ready", "stalled"}]]
    /\ synced \in [Slot -> BOOLEAN] /\ report \in [Slot -> BOOLEAN]
OpTyped ==
    /\ op \in [action : {"none", "restart", "delete"}, slot : Slot]
    /\ verdict \in {"none", "ready", "failed", "gone"}
HandTyped ==
    /\ handoff \in Handoff /\ holder \in Worker \cup {None} /\ leased \in BOOLEAN
    /\ hand \in [Worker -> Stage \cup {"none"}] /\ owed \in Int
FaultsTyped == faults \in [Kind -> Nat]

LEMMA TypeParts ==
    TypeOK <=> /\ RowsTyped /\ job \in JobState /\ active \in Slot
               /\ SlotsTyped /\ OpTyped /\ HandTyped /\ FaultsTyped
  BY DEF TypeOK, RowsTyped, SlotsTyped, OpTyped, HandTyped, FaultsTyped

-----------------------------------------------------------------------------
(* Small facts about the operators of the model.                           *)
LEMMA NoneIsNoRelease == None \notin Release
  BY DEF None, Release

LEMMA StandbyIsOther ==
    ASSUME active \in Slot
    PROVE  /\ Standby \in Slot /\ Standby # active
           /\ \A p \in Slot : p # active => p = Standby
  BY DEF Standby, StandbyOf, Slot

LEMMA QuietMeansIdle ==
    ASSUME JobInv, Quiet
    PROVE  job.pc = "none" /\ op = NoOp /\ handoff = NoHandoff /\ \A r \in Release : ~Busy(r)
<1>1. op = NoOp /\ handoff = NoHandoff /\ \A r \in Release : ~Busy(r)
  BY DEF Quiet, FindInProgress
<1>. QED
  BY <1>1 DEF JobInv

LEMMA FaultTyped ==
    ASSUME FaultsTyped, NEW k \in Kind, Fault(k) PROVE FaultsTyped'
  BY DEF FaultsTyped, Fault

LEMMA JobsAreTyped ==
    ASSUME job \in JobState, NEW r \in Release
    PROVE  /\ NoJob \in JobState /\ NoJob.pc = "none"
           /\ NextJob \in JobState /\ NextJob.pc = "queued" /\ NextJob.rel = job.rel
           /\ [NoJob EXCEPT !.pc = "accepted", !.rel = r] \in JobState
           /\ [NoJob EXCEPT !.pc = "accepted", !.rel = r].pc = "accepted"
           /\ [NoJob EXCEPT !.pc = "accepted", !.rel = r].rel = r
<1>1. NoRow \in Row
  BY DEF NoRow, Row, Slot
<1>2. NoJob \in JobState /\ NoJob.pc = "none"
  BY <1>1 DEF NoJob, JobState
<1>3. job.rel \in Release \cup {None}
  BY DEF JobState
<1>4. NextJob \in JobState /\ NextJob.pc = "queued" /\ NextJob.rel = job.rel
  BY <1>2, <1>3 DEF NextJob, JobState
<1>. QED
  BY <1>2, <1>4 DEF JobState

LEMMA SaveIsTyped ==
    ASSUME SlotsTyped, FaultsTyped, NEW s \in [Slot -> SlotRow], NEW ch, SaveSlots(s, ch),
           report' \in [Slot -> BOOLEAN]
    PROVE  slot' = s /\ SlotsTyped' /\ FaultsTyped'
<1>1. slot' = s
  BY DEF SaveSlots
<1>2. CASE UNCHANGED <<record, deployed>> /\ Fault("projection") /\
           synced' = [p \in Slot |-> synced[p] /\ p \notin ch]
  <2>1. synced' \in [Slot -> BOOLEAN]
    BY <1>2
  <2>. QED
    BY <1>1, <1>2, <2>1, FaultTyped DEF SlotsTyped, Kind
<1>3. CASE /\ record' = Projected(s) /\ synced' = [p \in Slot |-> TRUE]
           /\ deployed' = [p \in Slot |-> [deployed[p] EXCEPT
                             !.fresh = @ /\ synced[p] /\ p \notin ch]]
           /\ UNCHANGED faults
  <2>1. record' \in [Slot -> [rel : Release \cup {None}, serving : BOOLEAN]]
    BY <1>3 DEF Projected, SlotRow
  <2>2. deployed' \in [Slot -> [rel : Release \cup {None}, fresh : BOOLEAN,
                            phase : {"absent", "starting", "ready", "stalled"}]]
    BY <1>3 DEF SlotsTyped
  <2>3. synced' \in [Slot -> BOOLEAN]
    BY <1>3
  <2>. QED
    BY <1>1, <1>3, <2>1, <2>2, <2>3 DEF SlotsTyped, FaultsTyped
<1>. QED
  BY <1>2, <1>3 DEF SaveSlots

-----------------------------------------------------------------------------
(* What a step leaves alone, it leaves right.                              *)
RelsKept == \A p \in Slot : slot'[p].rel = slot[p].rel

LEMMA SlotInvKept ==
    ASSUME SlotInv, UNCHANGED row, RelsKept, row \in [Release -> Row]
    PROVE  SlotInv'
<1>1. \A r \in Release : OnASlot(r)' <=> OnASlot(r)
  BY DEF OnASlot, RelsKept
<1>2. \A r \in Release : row[r].target \in Slot
  BY DEF Row
<1>3. \A p, q \in Slot : slot'[p].rel = slot'[q].rel /\ slot'[p].rel # None => p = q
  BY DEF SlotInv, RelsKept
<1>4. ASSUME NEW r \in Release
      PROVE  /\ row'[r].status = "ready" => OnASlot(r)'
             /\ row'[r].status = "deploying" => slot'[row'[r].target].rel = r
             /\ row'[r].status \in NotYet \cup {"superseded", "offline"} => ~OnASlot(r)'
  BY <1>1, <1>2 DEF SlotInv, RelsKept
<1>. QED
  BY <1>3, <1>4 DEF SlotInv

(* Steps of the ledger, the cluster and the observers.                     *)
LEMMA AsideKeeps ==
    ASSUME ReleaseInv, UNCHANGED <<row, job, active, handVars, owed>>,
           op' = op \/ op' = NoOp, RelsKept,
           late' \in BOOLEAN, SlotsTyped', OpTyped', FaultsTyped'
    PROVE  ReleaseInv'
<1>1. TypeOK /\ RowsTyped
  BY TypeParts DEF ReleaseInv
<1>2. TypeOK'
  <2>1. RowsTyped' /\ HandTyped' /\ (job \in JobState)' /\ (active \in Slot)'
    BY <1>1, TypeParts DEF RowsTyped, HandTyped, handVars
  <2>. QED
    BY <2>1 DEF TypeOK, RowsTyped, SlotsTyped, OpTyped, HandTyped, FaultsTyped
<1>3. JobInv'
  BY DEF ReleaseInv, JobInv, Busy
<1>4. OwnerInv'
  BY DEF ReleaseInv, OwnerInv, Busy, handVars
<1>5. SlotInv'
  BY <1>1, SlotInvKept DEF ReleaseInv, RowsTyped
<1>6. HandInv'
  BY DEF ReleaseInv, HandInv, EveryMoveRecorded, handVars
<1>. QED
  BY <1>2, <1>3, <1>4, <1>5, <1>6 DEF ReleaseInv

(* Steps of the pipeline's job that write nothing.                         *)
LEMMA JobStepKeeps ==
    ASSUME ReleaseInv, UNCHANGED <<row, late, active, slot, ledgerVars, opVars, handVars, owed>>,
           job' \in JobState, JobInv', FaultsTyped'
    PROVE  ReleaseInv'
<1>1. TypeOK
  BY DEF ReleaseInv
<1>2. TypeOK'
  BY <1>1 DEF TypeOK, ledgerVars, opVars, handVars, FaultsTyped
<1>3. OwnerInv'
  BY DEF ReleaseInv, OwnerInv, Busy, handVars, opVars
<1>4. RelsKept /\ row \in [Release -> Row]
  BY <1>1 DEF RelsKept, TypeOK
<1>5. SlotInv'
  BY <1>4, SlotInvKept DEF ReleaseInv
<1>6. HandInv'
  BY DEF ReleaseInv, HandInv, EveryMoveRecorded, handVars
<1>. QED
  BY <1>2, <1>3, <1>5, <1>6 DEF ReleaseInv

(* The states in which the pipeline writes a release, from the state it    *)
(* has read.                                                               *)
Advances(from, to) ==
    \/ to = from
    \/ from \in NotYet /\ to \in {"building", "migrating"}
    \/ from = "deploying" /\ to = "ready"
    \/ to = "failed"

LEMMA PipelineKeeps ==
    ASSUME ReleaseInv, job.pc \in {"run", "act"}, NEW x \in Row,
           row' = [row EXCEPT ![job.rel] = x], x.target = job.snap.target,
           Advances(job.snap.status, x.status),
           job' = NoJob \/ (job' = NextJob /\ x.status \in InProgress),
           UNCHANGED <<active, opVars, handVars, owed>>,
           RelsKept, late' \in BOOLEAN, SlotsTyped', FaultsTyped'
    PROVE  ReleaseInv'
<1>1. /\ TypeOK /\ job.rel \in Release /\ Busy(job.rel) /\ job.snap = row[job.rel]
      /\ row \in [Release -> Row] /\ job \in JobState
  BY DEF ReleaseInv, JobInv, TypeOK
<1>2. /\ row' \in [Release -> Row] /\ row'[job.rel] = x
      /\ \A r \in Release : r # job.rel => row'[r] = row[r]
  BY <1>1
<1>3. JobInv' /\ job' \in JobState
  <2>1. CASE job' = NoJob
    BY <1>1, <2>1, JobsAreTyped DEF JobInv
  <2>2. CASE job' = NextJob /\ x.status \in InProgress
    <3>1. job' \in JobState /\ job'.pc = "queued" /\ job'.rel = job.rel
      BY <1>1, <2>2, JobsAreTyped
    <3>. QED
      BY <1>1, <1>2, <2>2, <3>1 DEF JobInv, Busy
  <2>. QED
    BY <2>1, <2>2
<1>4. TypeOK'
  BY <1>1, <1>2, <1>3 DEF TypeOK, SlotsTyped, FaultsTyped, opVars, handVars
<1>5. \A r \in Release : Busy(r)' => Busy(r)
  BY <1>1, <1>2 DEF Busy
<1>6. \A r \in Release : row'[r].target = row[r].target
  BY <1>1, <1>2
<1>7. OwnerInv'
  BY <1>5, <1>6 DEF ReleaseInv, OwnerInv, opVars, handVars
<1>8. SlotInv'
  <2>1. \A r \in Release : OnASlot(r)' <=> OnASlot(r)
    BY DEF OnASlot, RelsKept
  <2>2. \A r \in Release : row[r].target \in Slot
    BY <1>1 DEF Row
  <2>3. \A p, q \in Slot : slot'[p].rel = slot'[q].rel /\ slot'[p].rel # None => p = q
    BY DEF ReleaseInv, SlotInv, RelsKept
  <2>4. ASSUME NEW r \in Release
        PROVE  /\ row'[r].status = "ready" => OnASlot(r)'
               /\ row'[r].status = "deploying" => slot'[row'[r].target].rel = r
               /\ row'[r].status \in NotYet \cup {"superseded", "offline"} => ~OnASlot(r)'
    <3>0. /\ row[r].status = "ready" => OnASlot(r)
          /\ row[r].status = "deploying" => slot[row[r].target].rel = r
          /\ row[r].status \in NotYet \cup {"superseded", "offline"} => ~OnASlot(r)
      BY DEF ReleaseInv, SlotInv
    <3>1. CASE r # job.rel
      BY <1>2, <2>1, <2>2, <3>0, <3>1 DEF RelsKept
    <3>2. CASE r = job.rel
      <4>1. row'[r] = x /\ job.snap = row[r] /\ slot'[x.target].rel = slot[x.target].rel
        BY <1>1, <1>2, <2>2, <3>2 DEF RelsKept
      <4>2. row[r].status = "deploying" => OnASlot(r)
        BY <2>2, <3>0 DEF OnASlot
      <4>. QED
        BY <1>6, <2>1, <3>0, <4>1, <4>2 DEF Advances, NotYet
    <3>. QED
      BY <3>1, <3>2
  <2>. QED
    BY <2>3, <2>4 DEF SlotInv
<1>9. HandInv'
  BY DEF ReleaseInv, HandInv, EveryMoveRecorded, handVars
<1>. QED
  BY <1>3, <1>4, <1>7, <1>8, <1>9 DEF ReleaseInv

-----------------------------------------------------------------------------
(* A release comes to a slot, and the one before leaves it.                *)
LEMMA SupersededRows ==
    ASSUME RowsTyped, NEW t \in Slot, NEW r \in Release, NEW s, s = Superseded(t, r)
    PROVE  /\ s \in [Release -> Row]
           /\ \A q \in Release :
                 /\ \/ s[q] = row[q]
                    \/ /\ q = slot[t].rel /\ q # r
                       /\ row[q].status = "ready" /\ s[q].status = "superseded"
                 /\ q = slot[t].rel /\ q # r => s[q].status # "ready"
<1>1. row \in [Release -> Row]
  BY DEF RowsTyped
<1>2. PICK old : old = slot[t].rel
  OBVIOUS
<1>3. CASE old # None /\ old # r /\ row[old].status = "ready" /\ old \in Release
  <2>1. PICK m : m = [row[old] EXCEPT !.status = "superseded"]
    OBVIOUS
  <2>2. m \in Row /\ m.status = "superseded"
    BY <1>1, <1>3, <2>1 DEF Row, Settled
  <2>3. s = [row EXCEPT ![old] = m]
    BY <1>1, <1>2, <1>3, <2>1 DEF Superseded
  <2>. QED
    BY <1>1, <1>2, <1>3, <2>2, <2>3
<1>4. CASE ~(old # None /\ old # r /\ row[old].status = "ready" /\ old \in Release)
  <2>1. s = row \/ (old \notin Release /\ s = [row EXCEPT ![old].status = "superseded"])
    BY <1>2, <1>4 DEF Superseded
  <2>2. s = row
    BY <1>1, <2>1
  <2>. QED
    BY <1>1, <1>2, <1>4, <2>2, NoneIsNoRelease
<1>. QED
  BY <1>3, <1>4

LEMMA DeployKeeps ==
    ASSUME ReleaseInv, NEW r \in Release, NEW t \in Slot, t # active, ~OnASlot(r),
           NEW x \in Row, x.status = "deploying", x.target = t,
           \A q \in Release : Busy(q) => q = r,
           op = NoOp, handoff = NoHandoff,
           row' = [Superseded(t, r) EXCEPT ![r] = x],
           SaveSlots(DeployedOn(t, r), {t}), report' \in [Slot -> BOOLEAN],
           job' \in JobState, job'.pc \in {"accepted", "queued"}, job'.rel = r,
           UNCHANGED <<active, opVars, handVars, owed>>, late' \in BOOLEAN
    PROVE  ReleaseInv'
<1>1. TypeOK /\ RowsTyped /\ SlotsTyped /\ FaultsTyped
  BY TypeParts DEF ReleaseInv
<1>2. PICK n : n = [rel |-> r, state |-> "deploying", work |-> r, off |-> FALSE]
  OBVIOUS
<1>3. n \in SlotRow /\ n.rel = r
  BY <1>2 DEF SlotRow
<1>4. PICK s : s = [slot EXCEPT ![t] = n]
  OBVIOUS
<1>5. s \in [Slot -> SlotRow] /\ s[t].rel = r /\ \A p \in Slot : p # t => s[p] = slot[p]
  BY <1>1, <1>3, <1>4 DEF SlotsTyped
<1>6. slot' = s /\ SlotsTyped' /\ FaultsTyped'
  <2>1. SaveSlots(s, {t})
    BY <1>2, <1>4 DEF DeployedOn
  <2>. QED
    BY <1>1, <1>5, <2>1, SaveIsTyped
<1>7. PICK u : u = Superseded(t, r)
  OBVIOUS
<1>8. /\ u \in [Release -> Row]
      /\ \A q \in Release :
            /\ \/ u[q] = row[q]
               \/ /\ q = slot[t].rel /\ q # r
                  /\ row[q].status = "ready" /\ u[q].status = "superseded"
            /\ q = slot[t].rel /\ q # r => u[q].status # "ready"
  BY <1>1, <1>7, SupersededRows
<1>9. /\ row' \in [Release -> Row] /\ row'[r] = x
      /\ \A q \in Release : q # r => row'[q] = u[q]
  BY <1>7, <1>8
<1>10. TypeOK'
  BY <1>1, <1>6, <1>9 DEF TypeOK, SlotsTyped, FaultsTyped, opVars, handVars
<1>11. \A q \in Release : Busy(q)' => q = r
  BY <1>8, <1>9 DEF Busy, InProgress
<1>12. JobInv'
  BY <1>9 DEF JobInv, Busy, InProgress
<1>13. OwnerInv'
  BY <1>9, <1>11 DEF OwnerInv, opVars, handVars
<1>14. SlotInv'
  <2>1. /\ \A p \in Slot : slot[p].rel # r
        /\ \A p, q \in Slot : slot[p].rel = slot[q].rel /\ slot[p].rel # None => p = q
    BY DEF OnASlot, ReleaseInv, SlotInv
  <2>2. \A p, q \in Slot : slot'[p].rel = slot'[q].rel /\ slot'[p].rel # None => p = q
    BY <1>5, <1>6, <2>1
  <2>3. row'[r].status = "deploying" /\ slot'[row'[r].target].rel = r
    BY <1>5, <1>6, <1>9
  <2>4. ASSUME NEW q \in Release, q # r
        PROVE  /\ row'[q].status = "ready" => OnASlot(q)'
               /\ row'[q].status # "deploying"
               /\ row'[q].status \in NotYet \cup {"superseded", "offline"} => ~OnASlot(q)'
    <3>1. /\ row[q].status = "ready" => OnASlot(q)
          /\ row[q].status \in NotYet \cup {"superseded", "offline"} => ~OnASlot(q)
      BY DEF ReleaseInv, SlotInv
    <3>2. row'[q] = u[q] /\ (q = slot[t].rel => row'[q].status # "ready")
          /\ (u[q] = row[q] \/ q = slot[t].rel)
      BY <1>8, <1>9, <2>4
    <3>3. row'[q].status # "deploying"
      BY <1>11, <2>4 DEF Busy, InProgress
    <3>4. OnASlot(q)' <=> OnASlot(q) /\ q # slot[t].rel
      <4>1. ASSUME OnASlot(q)' PROVE OnASlot(q) /\ q # slot[t].rel
        <5>1. PICK p \in Slot : slot'[p].rel = q
          BY <4>1 DEF OnASlot
        <5>2. p # t /\ slot[p].rel = q
          BY <1>5, <1>6, <2>4, <5>1
        <5>. QED
          BY <2>1, <5>2, NoneIsNoRelease DEF OnASlot
      <4>2. ASSUME OnASlot(q), q # slot[t].rel PROVE OnASlot(q)'
        <5>1. PICK p \in Slot : slot[p].rel = q
          BY <4>2 DEF OnASlot
        <5>2. slot'[p].rel = q
          BY <1>5, <1>6, <4>2, <5>1
        <5>. QED
          BY <5>2 DEF OnASlot
      <4>. QED
        BY <4>1, <4>2
    <3>5. row'[q].status = "ready" => OnASlot(q)'
      BY <1>8, <3>1, <3>2, <3>4
    <3>. QED
      BY <3>1, <3>2, <3>3, <3>4, <3>5
  <2>. QED
    BY <2>2, <2>3, <2>4 DEF SlotInv, NotYet
<1>15. HandInv'
  BY DEF ReleaseInv, HandInv, EveryMoveRecorded, handVars
<1>. QED
  BY <1>10, <1>12, <1>13, <1>14, <1>15 DEF ReleaseInv

(* The release on a slot goes off it, while nothing works on the service.  *)
LEMMA OfflineKeeps ==
    ASSUME ReleaseInv, handoff = NoHandoff, \A r \in Release : ~Busy(r),
           NEW p \in Slot, slot[p].rel # None, OfflineInScope(p),
           UNCHANGED <<active, report, pipeVars, handVars, owed>>, OpTyped'
    PROVE  ReleaseInv'
<1>1. TypeOK /\ RowsTyped /\ SlotsTyped /\ FaultsTyped
  BY TypeParts DEF ReleaseInv
<1>2. job.pc = "none" /\ handoff = NoHandoff /\ \A r \in Release : ~Busy(r)
  BY DEF ReleaseInv, JobInv
<1>3. PICK r \in Release : r = slot[p].rel
  BY <1>1 DEF SlotsTyped, SlotRow
<1>4. PICK n : n = [slot[p] EXCEPT !.rel = None, !.state = "empty", !.off = TRUE]
  OBVIOUS
<1>5. n \in SlotRow /\ n.rel = None
  <2>1. slot[p] \in SlotRow
    BY <1>1 DEF SlotsTyped
  <2>2. PICK on \in BOOLEAN : on = TRUE
    OBVIOUS
  <2>3. n = [slot[p] EXCEPT !.rel = None, !.state = "empty", !.off = on]
    BY <1>4, <2>2
  <2>. QED
    BY <2>1, <2>3 DEF SlotRow
<1>6. PICK s : s = [slot EXCEPT ![p] = n]
  OBVIOUS
<1>7. s \in [Slot -> SlotRow] /\ s[p].rel = None /\ \A q \in Slot : q # p => s[q] = slot[q]
  BY <1>1, <1>5, <1>6 DEF SlotsTyped
<1>8. slot' = s /\ SlotsTyped' /\ FaultsTyped'
  <2>1. s = Emptied(p)
    BY <1>1, <1>4, <1>6 DEF Emptied, SlotsTyped, SlotRow
  <2>2. SaveSlots(s, {})
    BY <2>1 DEF OfflineInScope
  <2>3. report' \in [Slot -> BOOLEAN]
    BY <1>1 DEF SlotsTyped
  <2>. QED
    BY <1>1, <1>7, <2>2, <2>3, SaveIsTyped
<1>9. PICK m : m = [row[r] EXCEPT !.status = "offline"]
  OBVIOUS
<1>10. m \in Row /\ m.status = "offline"
  BY <1>1, <1>9 DEF RowsTyped, Row, Settled
<1>11. row' = IF row[r].status = "ready" THEN [row EXCEPT ![r] = m] ELSE row
  BY <1>1, <1>3, <1>9 DEF OfflineInScope, RowsTyped
<1>12. /\ row' \in [Release -> Row]
       /\ \A q \in Release : q # r => row'[q] = row[q]
       /\ row'[r].status # "ready"
       /\ row'[r] = row[r] \/ row'[r].status = "offline"
  BY <1>1, <1>10, <1>11 DEF RowsTyped
<1>13. TypeOK'
  BY <1>1, <1>8, <1>12 DEF TypeOK, SlotsTyped, FaultsTyped, OpTyped, pipeVars, handVars
<1>14. \A q \in Release : ~Busy(q)'
  BY <1>2, <1>12 DEF Busy, InProgress
<1>15. JobInv' /\ OwnerInv'
  BY <1>2, <1>14 DEF JobInv, OwnerInv, pipeVars, handVars
<1>16. SlotInv'
  <2>1. \A q, v \in Slot : slot[q].rel = slot[v].rel /\ slot[q].rel # None => q = v
    BY DEF ReleaseInv, SlotInv
  <2>2. \A q, v \in Slot : slot'[q].rel = slot'[v].rel /\ slot'[q].rel # None => q = v
    BY <1>7, <1>8, <2>1
  <2>3. ~OnASlot(r)'
    BY <1>3, <1>7, <1>8, <2>1, NoneIsNoRelease DEF OnASlot
  <2>4. \A q \in Release : q # r => (OnASlot(q)' <=> OnASlot(q))
    BY <1>3, <1>7, <1>8, NoneIsNoRelease DEF OnASlot
  <2>5. \A q \in Release : row'[q].status # "deploying"
    BY <1>14 DEF Busy, InProgress
  <2>6. ASSUME NEW q \in Release
        PROVE  /\ row'[q].status = "ready" => OnASlot(q)'
               /\ row'[q].status = "deploying" => slot'[row'[q].target].rel = q
               /\ row'[q].status \in NotYet \cup {"superseded", "offline"} => ~OnASlot(q)'
    <3>1. /\ row[q].status = "ready" => OnASlot(q)
          /\ row[q].status \in NotYet \cup {"superseded", "offline"} => ~OnASlot(q)
      BY DEF ReleaseInv, SlotInv
    <3>. QED
      BY <1>12, <2>3, <2>4, <2>5, <3>1
  <2>. QED
    BY <2>2, <2>6 DEF SlotInv
<1>17. HandInv'
  BY DEF ReleaseInv, HandInv, EveryMoveRecorded, handVars
<1>. QED
  BY <1>13, <1>15, <1>16, <1>17 DEF ReleaseInv

(* A step on a service that nothing works on.                              *)
LEMMA FreeKeeps ==
    ASSUME ReleaseInv, Quiet, UNCHANGED <<row, pipeVars, handVars, owed>>,
           active' \in Slot, RelsKept, SlotsTyped', FaultsTyped', OpTyped'
    PROVE  ReleaseInv'
<1>1. TypeOK /\ RowsTyped
  BY TypeParts DEF ReleaseInv
<1>2. job.pc = "none" /\ handoff = NoHandoff /\ \A r \in Release : ~Busy(r)
  BY QuietMeansIdle DEF ReleaseInv
<1>3. TypeOK'
  BY <1>1 DEF TypeOK, SlotsTyped, OpTyped, FaultsTyped, pipeVars, handVars
<1>4. JobInv' /\ OwnerInv'
  BY <1>2 DEF JobInv, OwnerInv, Busy, pipeVars, handVars
<1>5. SlotInv'
  BY <1>1, SlotInvKept DEF ReleaseInv, RowsTyped
<1>6. HandInv'
  BY <1>2 DEF ReleaseInv, HandInv, EveryMoveRecorded, handVars
<1>. QED
  BY <1>3, <1>4, <1>5, <1>6 DEF ReleaseInv

(* A step of the handoff or of its lease.                                  *)
LEMMA HandoffKeeps ==
    ASSUME ReleaseInv, UNCHANGED <<row, pipeVars, opVars>>,
           handoff # NoHandoff \/ (handoff' = handoff /\ active' = active),
           active' \in Slot, RelsKept, SlotsTyped', FaultsTyped', HandTyped', HandInv'
    PROVE  ReleaseInv'
<1>1. TypeOK /\ RowsTyped
  BY TypeParts DEF ReleaseInv
<1>2. TypeOK'
  BY <1>1 DEF TypeOK, SlotsTyped, HandTyped, FaultsTyped, pipeVars, opVars
<1>3. JobInv'
  BY DEF ReleaseInv, JobInv, Busy, pipeVars
<1>4. OwnerInv'
  BY DEF ReleaseInv, OwnerInv, Busy, opVars
<1>5. SlotInv'
  BY <1>1, SlotInvKept DEF ReleaseInv, RowsTyped
<1>. QED
  BY <1>2, <1>3, <1>4, <1>5 DEF ReleaseInv

-----------------------------------------------------------------------------
(* The steps of the pipeline.                                              *)
LEMMA PublishKeeps == ASSUME ReleaseInv, Publish PROVE ReleaseInv'
<1>1. /\ TypeOK /\ RowsTyped /\ active \in Slot /\ job \in JobState
      /\ row \in [Release -> Row]
  BY TypeParts DEF ReleaseInv, RowsTyped
<1>2. job.pc = "none" /\ op = NoOp /\ handoff = NoHandoff /\ \A r \in Release : ~Busy(r)
  BY QuietMeansIdle DEF ReleaseInv, Publish
<1>3. PICK r \in Release :
        /\ row[r].status = "none"
        /\ row' = [row EXCEPT ![r] = [status |-> "pending", target |-> Standby, readyAt |-> FALSE]]
        /\ Accept(r)
  BY DEF Publish
<1>4. Standby \in Slot /\ Standby # active
  BY <1>1, StandbyIsOther
<1>5. PICK x : x = [status |-> "pending", target |-> Standby, readyAt |-> FALSE]
  OBVIOUS
<1>6. x \in Row /\ x.status = "pending" /\ x.target # active
  BY <1>4, <1>5 DEF Row, InProgress
<1>7. /\ row' \in [Release -> Row] /\ row'[r] = x
      /\ \A q \in Release : q # r => row'[q] = row[q]
  BY <1>1, <1>3, <1>5, <1>6
<1>8. job' \in JobState /\ job'.pc = "accepted" /\ job'.rel = r
  BY <1>1, <1>3, JobsAreTyped DEF Accept
<1>9. UNCHANGED <<late, active, slot, ledgerVars, opVars, handVars, owed, faults>>
  BY DEF Publish
<1>10. TypeOK'
  BY <1>1, <1>7, <1>8, <1>9 DEF TypeOK, ledgerVars, opVars, handVars
<1>11. \A q \in Release : Busy(q)' => q = r
  BY <1>2, <1>7 DEF Busy
<1>12. JobInv'
  BY <1>6, <1>7, <1>8 DEF JobInv, Busy, InProgress
<1>13. OwnerInv'
  BY <1>2, <1>6, <1>7, <1>9, <1>11 DEF OwnerInv, opVars, handVars
<1>14. SlotInv'
  <2>1. \A q \in Release : OnASlot(q)' <=> OnASlot(q)
    BY <1>9 DEF OnASlot
  <2>2. row'[r].status = "pending" /\ ~OnASlot(r)
    BY <1>3, <1>6, <1>7 DEF ReleaseInv, SlotInv, NotYet
  <2>. QED
    BY <1>7, <1>9, <2>1, <2>2 DEF ReleaseInv, SlotInv
<1>15. HandInv'
  BY <1>9 DEF ReleaseInv, HandInv, EveryMoveRecorded, handVars
<1>. QED
  BY <1>10, <1>12, <1>13, <1>14, <1>15 DEF ReleaseInv

LEMMA JobOnlyKeeps ==
    ASSUME ReleaseInv, Enqueue \/ LoseEnqueue \/ Begin \/ Look \/ Crash PROVE ReleaseInv'
<1>1. TypeOK /\ job \in JobState /\ FaultsTyped /\ JobInv /\ row \in [Release -> Row]
  BY TypeParts DEF ReleaseInv, RowsTyped
<1>2. UNCHANGED <<row, late, active, slot, ledgerVars, opVars, handVars, owed>>
  BY DEF Enqueue, LoseEnqueue, Begin, Look, Crash
<1>3. FaultsTyped'
  <2>1. faults' = faults \/ Fault("crash")
    BY DEF Enqueue, LoseEnqueue, Begin, Look, Crash
  <2>. QED
    BY <1>1, <2>1, FaultTyped DEF Kind, FaultsTyped
<1>4. \A r \in Release : Busy(r)' <=> Busy(r)
  BY <1>2 DEF Busy
<1>5. CASE job.pc # "none" /\ (job' = NextJob \/ job' = NoJob)
  <2>0. job.rel \in Release
    BY <1>1, <1>5 DEF JobInv
  <2>1. /\ job' \in JobState
        /\ job'.pc = "none" \/ (job'.pc = "queued" /\ job'.rel = job.rel)
    <3>1. /\ NoJob \in JobState /\ NoJob.pc = "none"
          /\ NextJob \in JobState /\ NextJob.pc = "queued" /\ NextJob.rel = job.rel
      BY <1>1, <2>0, JobsAreTyped
    <3>. QED
      BY <1>5, <3>1
  <2>2. JobInv'
    BY <1>1, <1>4, <1>5, <2>1 DEF JobInv
  <2>. QED
    BY <1>2, <1>3, <2>1, <2>2, JobStepKeeps
<1>6. CASE Begin
  <2>1. job.rel \in Release /\ Busy(job.rel) /\ job.pc = "queued"
    BY <1>1, <1>6 DEF Begin, JobInv
  <2>2. PICK x \in Row : x = row[job.rel]
    BY <1>1, <2>1
  <2>3. job' = [job EXCEPT !.pc = "run", !.snap = x]
    BY <1>6, <2>1, <2>2 DEF Begin
  <2>4. job' \in JobState /\ job'.pc = "run" /\ job'.rel = job.rel /\ job'.snap = x
    BY <1>1, <2>3 DEF JobState
  <2>5. JobInv'
    BY <1>2, <1>4, <2>1, <2>2, <2>4 DEF JobInv
  <2>. QED
    BY <1>2, <1>3, <2>4, <2>5, JobStepKeeps
<1>7. CASE Look
  <2>1. /\ job.rel \in Release /\ Busy(job.rel) /\ job.pc = "run"
        /\ job.snap = row[job.rel] /\ job.snap.status = "deploying"
    BY <1>1, <1>7 DEF Look, JobInv
  <2>2. PICK v \in {"deploying", "ready", "failed"} : v = Verdict
    BY DEF Verdict, RolloutOf
  <2>3. job' = [job EXCEPT !.pc = "act", !.saw = v]
    BY <1>7, <2>2 DEF Look
  <2>4. job' \in JobState /\ job'.pc = "act" /\ job'.rel = job.rel /\ job'.snap = job.snap
    BY <1>1, <2>3 DEF JobState
  <2>5. JobInv'
    BY <1>2, <1>4, <2>1, <2>4 DEF JobInv
  <2>. QED
    BY <1>2, <1>3, <2>4, <2>5, JobStepKeeps
<1>. QED
  BY <1>5, <1>6, <1>7 DEF Enqueue, LoseEnqueue, Crash, Wait, Done

(* A running job has read a release of the right types.                    *)
LEMMA RunningJob ==
    ASSUME ReleaseInv, job.pc \in {"run", "act"}
    PROVE  /\ TypeOK /\ RowsTyped /\ SlotsTyped /\ FaultsTyped
           /\ job \in JobState /\ job.rel \in Release /\ Busy(job.rel)
           /\ job.snap = row[job.rel] /\ job.snap \in Row /\ job.snap.target \in Slot
           /\ job.snap.target # active /\ job.snap.status \in InProgress
           /\ job.pc = "act" => job.snap.status = "deploying"
           /\ op = NoOp /\ handoff = NoHandoff
           /\ \A q \in Release : Busy(q) => q = job.rel
<1>1. /\ TypeOK /\ RowsTyped /\ SlotsTyped /\ FaultsTyped /\ job \in JobState
      /\ row \in [Release -> Row]
  BY TypeParts DEF ReleaseInv, RowsTyped
<1>2. /\ job.rel \in Release /\ Busy(job.rel) /\ job.snap = row[job.rel]
      /\ job.pc = "act" => job.snap.status = "deploying"
  BY DEF ReleaseInv, JobInv
<1>3. job.snap \in Row /\ job.snap.target \in Slot /\ job.snap.status \in InProgress
  BY <1>1, <1>2 DEF Row, Busy
<1>. QED
  BY <1>1, <1>2, <1>3 DEF ReleaseInv, OwnerInv

LEMMA SnapWithStatus ==
    ASSUME NEW x \in Row, NEW st \in {"none"} \cup InProgress \cup Settled, NEW y,
           y = [x EXCEPT !.status = st]
    PROVE  y \in Row /\ y.status = st /\ y.target = x.target
  BY DEF Row

LEMMA NoSlotChange ==
    ASSUME SlotsTyped, FaultsTyped, UNCHANGED <<slot, ledgerVars, faults>>
    PROVE  RelsKept /\ SlotsTyped' /\ FaultsTyped'
  BY DEF RelsKept, SlotsTyped, FaultsTyped, ledgerVars

LEMMA WaitingStepKeeps ==
    ASSUME ReleaseInv, Poll \/ Advance \/ Bump PROVE ReleaseInv'
<1>1. job.pc \in {"run", "act"} /\ Wait /\ late' \in BOOLEAN
  BY TypeParts DEF Poll, Advance, Bump, Timely, ReleaseInv, RowsTyped
<1>2. UNCHANGED <<active, slot, ledgerVars, opVars, handVars, owed, faults>>
  BY DEF Poll, Advance, Bump
<1>3. PICK st \in InProgress : Write(row, st) /\ Advances(job.snap.status, st)
  <2>1. CASE Poll
    BY <2>1 DEF Poll, Advances, InProgress
  <2>2. CASE Bump
    BY <1>1, <2>2, RunningJob DEF Bump, Advances, InProgress
  <2>3. CASE Advance
    BY <2>3 DEF Advance, Advances, InProgress, NotYet
  <2>. QED
    BY <2>1, <2>2, <2>3
<1>4. PICK y : y = [job.snap EXCEPT !.status = st]
  OBVIOUS
<1>5. y \in Row /\ y.status = st /\ y.target = job.snap.target
  BY <1>1, <1>3, <1>4, RunningJob, SnapWithStatus
<1>6. row' = [row EXCEPT ![job.rel] = y] /\ job' = NextJob
  BY <1>1, <1>3, <1>4 DEF Write, Wait
<1>7. RelsKept /\ SlotsTyped' /\ FaultsTyped'
  BY <1>1, <1>2, RunningJob, NoSlotChange
<1>. QED
  BY <1>1, <1>2, <1>3, <1>5, <1>6, <1>7, PipelineKeeps

LEMMA SaveState ==
    ASSUME SlotsTyped, FaultsTyped, NEW q \in Slot,
           NEW st \in {"empty", "deploying", "ready", "failed"}, NEW ch,
           SaveSlots([slot EXCEPT ![q].state = st], ch), report' \in [Slot -> BOOLEAN]
    PROVE  /\ RelsKept /\ SlotsTyped' /\ FaultsTyped' /\ slot'[q].state = st
           /\ \A p \in Slot : p # q => slot'[p] = slot[p]
<1>1. slot \in [Slot -> SlotRow]
  BY DEF SlotsTyped
<1>2. PICK m : m = [slot[q] EXCEPT !.state = st]
  OBVIOUS
<1>3. m \in SlotRow /\ m.rel = slot[q].rel /\ m.state = st
  BY <1>1, <1>2 DEF SlotRow
<1>4. PICK s : s = [slot EXCEPT ![q] = m]
  OBVIOUS
<1>5. /\ s \in [Slot -> SlotRow] /\ \A p \in Slot : s[p].rel = slot[p].rel
      /\ s[q].state = st /\ \A p \in Slot : p # q => s[p] = slot[p]
  BY <1>1, <1>3, <1>4
<1>6. s = [slot EXCEPT ![q].state = st]
  BY <1>1, <1>2, <1>4
<1>7. SaveSlots(s, ch)
  BY <1>6
<1>8. slot' = s /\ SlotsTyped' /\ FaultsTyped'
  BY <1>5, <1>7, SaveIsTyped
<1>. QED
  BY <1>5, <1>8 DEF RelsKept

LEMMA SaveSame ==
    ASSUME SlotsTyped, FaultsTyped, NEW ch, SaveSlots(slot, ch), report' \in [Slot -> BOOLEAN]
    PROVE  slot' = slot /\ RelsKept /\ SlotsTyped' /\ FaultsTyped'
<1>1. PICK s : s = slot
  OBVIOUS
<1>2. slot' = s /\ SlotsTyped' /\ FaultsTyped'
  BY <1>1, SaveIsTyped DEF SlotsTyped
<1>. QED
  BY <1>1, <1>2 DEF RelsKept

LEMMA RegisterReadyKeeps == ASSUME ReleaseInv, RegisterReady PROVE ReleaseInv'
<1>1. /\ job.pc = "act" /\ job' = NoJob /\ late' \in BOOLEAN
      /\ UNCHANGED <<active, opVars, handVars, owed>> /\ report' = report
  BY DEF RegisterReady, Done, Timely
<1>2. /\ SlotsTyped /\ FaultsTyped /\ job.snap \in Row /\ job.snap.target \in Slot
      /\ job.snap.status = "deploying" /\ report \in [Slot -> BOOLEAN]
  BY <1>1, RunningJob DEF SlotsTyped
<1>3. PICK y : y = [job.snap EXCEPT !.status = "ready", !.readyAt = TRUE]
  OBVIOUS
<1>4. y \in Row /\ y.status = "ready" /\ y.target = job.snap.target
  <2>1. PICK on \in BOOLEAN : on = TRUE
    OBVIOUS
  <2>2. y = [job.snap EXCEPT !.status = "ready", !.readyAt = on]
    BY <1>3, <2>1
  <2>. QED
    BY <1>2, <2>2 DEF Row, Settled
<1>5. row' = [row EXCEPT ![job.rel] = y]
  BY <1>3 DEF RegisterReady
<1>6. RelsKept /\ SlotsTyped' /\ FaultsTyped'
  <2>1. PICK q \in Slot : q = job.snap.target
    BY <1>2
  <2>2. SaveSlots([slot EXCEPT ![q].state = "ready"], {})
    BY <2>1 DEF RegisterReady
  <2>. QED
    BY <1>1, <1>2, <2>2, SaveState
<1>7. Advances(job.snap.status, y.status)
  BY <1>2, <1>4 DEF Advances
<1>8. y \in Row /\ y.target = job.snap.target
  BY <1>4
<1>9. job' = NoJob \/ (job' = NextJob /\ y.status \in InProgress)
  BY <1>1
<1>. QED
  BY <1>1, <1>5, <1>6, <1>7, <1>8, <1>9, PipelineKeeps

LEMMA FailReleaseKeeps == ASSUME ReleaseInv, FailRelease PROVE ReleaseInv'
<1>1. /\ job.pc \in {"run", "act"} /\ job' = NoJob /\ late' \in BOOLEAN
      /\ UNCHANGED <<active, opVars, handVars, owed>> /\ report' = report
  BY DEF FailRelease, Done, Timely
<1>2. /\ SlotsTyped /\ FaultsTyped /\ job.snap \in Row /\ job.snap.target \in Slot
      /\ report \in [Slot -> BOOLEAN]
  BY <1>1, RunningJob DEF SlotsTyped
<1>3. PICK y : y = [job.snap EXCEPT !.status = "failed"]
  OBVIOUS
<1>4. y \in Row /\ y.status = "failed" /\ y.target = job.snap.target
  BY <1>2, <1>3, SnapWithStatus DEF Settled
<1>5. row' = [row EXCEPT ![job.rel] = y]
  BY <1>3 DEF FailRelease, Write
<1>6. RelsKept /\ SlotsTyped' /\ FaultsTyped'
  <2>1. CASE job.snap.status = "deploying"
    <3>1. PICK q \in Slot : q = job.snap.target
      BY <1>2
    <3>2. SaveSlots([slot EXCEPT ![q].state = "failed"], {})
      BY <2>1, <3>1 DEF FailRelease
    <3>. QED
      BY <1>1, <1>2, <3>2, SaveState
  <2>2. CASE job.snap.status # "deploying"
    <3>1. UNCHANGED <<slot, ledgerVars, faults>>
      BY <1>1, <2>2 DEF FailRelease, ledgerVars
    <3>. QED
      BY <1>2, <3>1, NoSlotChange
  <2>. QED
    BY <2>1, <2>2
<1>7. Advances(job.snap.status, y.status)
  BY <1>4 DEF Advances
<1>8. y \in Row /\ y.target = job.snap.target
  BY <1>4
<1>9. job' = NoJob \/ (job' = NextJob /\ y.status \in InProgress)
  BY <1>1
<1>. QED
  BY <1>1, <1>5, <1>6, <1>7, <1>8, <1>9, PipelineKeeps

LEMMA OutdateTyped ==
    ASSUME SlotsTyped, NEW p \in Slot, Outdate(p) PROVE report' \in [Slot -> BOOLEAN]
  BY DEF SlotsTyped, Outdate

LEMMA StartDeployKeeps == ASSUME ReleaseInv, StartDeploy PROVE ReleaseInv'
<1>1. /\ job.pc = "run" /\ job.snap.status \in {"pending", "building", "migrating"}
      /\ job' = NextJob /\ late' \in BOOLEAN /\ UNCHANGED <<active, opVars, handVars, owed>>
  BY DEF StartDeploy, Wait, Timely
<1>2. /\ RowsTyped /\ SlotsTyped /\ FaultsTyped /\ job \in JobState
      /\ job.rel \in Release /\ job.snap = row[job.rel] /\ job.snap \in Row
      /\ job.snap.target \in Slot /\ job.snap.target # active
      /\ op = NoOp /\ handoff = NoHandoff
      /\ \A q \in Release : Busy(q) => q = job.rel
  BY <1>1, RunningJob
<1>3. PICK r \in Release : r = job.rel
  BY <1>2
<1>4. PICK t \in Slot : t = job.snap.target
  BY <1>2
<1>5. PICK x : x = [job.snap EXCEPT !.status = "deploying"]
  OBVIOUS
<1>6. x \in Row /\ x.status = "deploying" /\ x.target = t
  BY <1>2, <1>4, <1>5, SnapWithStatus DEF InProgress
<1>7. /\ row' = [Superseded(t, r) EXCEPT ![r] = x]
      /\ SaveSlots(DeployedOn(t, r), {t}) /\ Outdate(t)
  BY <1>3, <1>4, <1>5 DEF StartDeploy, Write
<1>8. ~OnASlot(r)
  BY <1>1, <1>2, <1>3 DEF ReleaseInv, SlotInv, NotYet
<1>9. job' \in JobState /\ job'.pc \in {"accepted", "queued"} /\ job'.rel = r
  BY <1>1, <1>2, <1>3, JobsAreTyped
<1>10. report' \in [Slot -> BOOLEAN]
  BY <1>2, <1>7, OutdateTyped
<1>11. t # active /\ \A q \in Release : Busy(q) => q = r
  BY <1>2, <1>3, <1>4
<1>. QED
  BY <1>1, <1>2, <1>6, <1>7, <1>8, <1>9, <1>10, <1>11, DeployKeeps

-----------------------------------------------------------------------------
(* What people do with the slots.                                          *)
LEMMA QuietFacts ==
    ASSUME ReleaseInv, Quiet
    PROVE  /\ TypeOK /\ RowsTyped /\ SlotsTyped /\ FaultsTyped /\ OpTyped /\ HandTyped
           /\ active \in Slot /\ Standby \in Slot /\ Standby # active /\ job \in JobState
           /\ job.pc = "none" /\ op = NoOp /\ handoff = NoHandoff
           /\ \A r \in Release : ~Busy(r)
           /\ report \in [Slot -> BOOLEAN]
<1>1. /\ TypeOK /\ RowsTyped /\ SlotsTyped /\ FaultsTyped /\ OpTyped /\ HandTyped
      /\ active \in Slot /\ job \in JobState
  BY TypeParts DEF ReleaseInv
<1>. QED
  BY <1>1, StandbyIsOther, QuietMeansIdle DEF ReleaseInv, SlotsTyped

LEMMA RedeployKeeps ==
    ASSUME ReleaseInv, NEW r \in Release, Redeploy(r) PROVE ReleaseInv'
<1>1. /\ Quiet /\ ~OnASlot(r) /\ UNCHANGED <<late, active, opVars, handVars, owed>>
      /\ Accept(r)
  BY DEF Redeploy, Redeployable
<1>2. PICK t \in Slot : t = Standby
  BY <1>1, QuietFacts
<1>3. PICK u : u = Superseded(t, r)
  OBVIOUS
<1>4. u \in [Release -> Row]
  BY <1>1, <1>3, QuietFacts, SupersededRows
<1>5. PICK x : x = [u[r] EXCEPT !.status = "deploying", !.target = t]
  OBVIOUS
<1>6. x \in Row /\ x.status = "deploying" /\ x.target = t
  <2>1. u[r] \in Row
    BY <1>4
  <2>. QED
    BY <1>5, <2>1 DEF Row, InProgress
<1>7. row' = [Superseded(t, r) EXCEPT ![r] = x]
  <2>1. row' = [u EXCEPT ![r].status = "deploying", ![r].target = t]
    BY <1>2, <1>3 DEF Redeploy
  <2>2. row' = [u EXCEPT ![r] = x]
    BY <1>4, <1>5, <2>1 DEF Row
  <2>. QED
    BY <1>3, <2>2
<1>8. SaveSlots(DeployedOn(t, r), {t}) /\ Outdate(t)
  BY <1>2 DEF Redeploy
<1>9. report' \in [Slot -> BOOLEAN]
  BY <1>1, <1>8, QuietFacts, OutdateTyped
<1>10. job' \in JobState /\ job'.pc \in {"accepted", "queued"} /\ job'.rel = r
  <2>1. job \in JobState
    BY <1>1, QuietFacts
  <2>. QED
    BY <1>1, <2>1, JobsAreTyped DEF Accept
<1>11. /\ t # active /\ op = NoOp /\ handoff = NoHandoff
       /\ \A q \in Release : Busy(q) => q = r
       /\ late' \in BOOLEAN
  BY <1>1, <1>2, QuietFacts DEF RowsTyped
<1>. QED
  BY <1>1, <1>6, <1>7, <1>8, <1>9, <1>10, <1>11, DeployKeeps

LEMMA TakeOfflineKeeps == ASSUME ReleaseInv, TakeOffline PROVE ReleaseInv'
<1>1. /\ Quiet /\ slot[Standby].rel # None /\ OfflineInScope(Standby)
      /\ UNCHANGED <<active, report, pipeVars, opVars, handVars, owed>>
  BY DEF TakeOffline, HasWorkload
<1>2. PICK p \in Slot : p = Standby
  BY <1>1, QuietFacts
<1>3. OpTyped' /\ handoff = NoHandoff /\ \A r \in Release : ~Busy(r)
  BY <1>1, QuietFacts DEF OpTyped, opVars
<1>. QED
  BY <1>1, <1>2, <1>3, OfflineKeeps

LEMMA ExecuteKeeps ==
    ASSUME ReleaseInv, NEW a \in {"restart", "delete"}, NEW p \in Slot, Execute(a, p)
    PROVE  ReleaseInv'
<1>1. /\ Quiet /\ op' = [action |-> a, slot |-> p]
      /\ UNCHANGED <<active, pipeVars, verdict, handVars, owed>>
  BY DEF Execute
<1>2. /\ op' \in [action : {"none", "restart", "delete"}, slot : Slot] /\ OpTyped'
      /\ active' \in Slot
  BY <1>1, QuietFacts DEF OpTyped
<1>3. SlotsTyped /\ FaultsTyped
  BY <1>1, QuietFacts
<1>4. CASE a = "restart"
  <2>1. SaveSlots(slot, {p}) /\ Outdate(p) /\ UNCHANGED row
    BY <1>4 DEF Execute
  <2>2. report' \in [Slot -> BOOLEAN]
    BY <1>3, <2>1, OutdateTyped
  <2>3. RelsKept /\ SlotsTyped' /\ FaultsTyped'
    BY <1>3, <2>1, <2>2, SaveSame
  <2>. QED
    BY <1>1, <1>2, <2>1, <2>3, FreeKeeps
<1>5. CASE a = "delete" /\ HasWorkload(slot[p])
  <2>1. OfflineInScope(p) /\ report' = report /\ slot[p].rel # None
    BY <1>5 DEF Execute, HasWorkload
  <2>2. handoff = NoHandoff /\ \A r \in Release : ~Busy(r)
    BY <1>1, QuietFacts
  <2>. QED
    BY <1>1, <1>2, <2>1, <2>2, OfflineKeeps
<1>6. CASE a = "delete" /\ ~HasWorkload(slot[p])
  <2>1. UNCHANGED <<slot, ledgerVars, faults>> /\ UNCHANGED row
    BY <1>6 DEF Execute, ledgerVars
  <2>2. RelsKept /\ SlotsTyped' /\ FaultsTyped'
    BY <1>3, <2>1, NoSlotChange
  <2>. QED
    BY <1>1, <1>2, <2>1, <2>2, FreeKeeps
<1>. QED
  BY <1>4, <1>5, <1>6

LEMMA SwitchTrafficKeeps == ASSUME ReleaseInv, SwitchTraffic PROVE ReleaseInv'
<1>1. /\ Quiet /\ active' = Standby /\ SaveSlots(slot, {})
      /\ UNCHANGED <<row, report, pipeVars, opVars, handVars, owed>>
  BY DEF SwitchTraffic, CanSwitch
<1>2. SlotsTyped /\ FaultsTyped /\ report' \in [Slot -> BOOLEAN] /\ active' \in Slot
  BY <1>1, QuietFacts
<1>3. RelsKept /\ SlotsTyped' /\ FaultsTyped'
  BY <1>1, <1>2, SaveSame
<1>4. OpTyped'
  BY <1>1, QuietFacts DEF OpTyped, opVars
<1>. QED
  BY <1>1, <1>2, <1>3, <1>4, FreeKeeps

LEMMA BeginHandoffKeeps == ASSUME ReleaseInv, BeginHandoff PROVE ReleaseInv'
<1>1. /\ Quiet
      /\ UNCHANGED <<row, active, slot, ledgerVars, pipeVars, opVars, holder, leased, hand,
                     owed, faults>>
  BY DEF BeginHandoff, CanSwitch
<1>2. PICK h : h = [stage |-> "freezing", target |-> slot[Standby].rel,
                    from |-> slot[active].rel, slot |-> Standby]
  OBVIOUS
<1>3. /\ TypeOK /\ RowsTyped /\ SlotsTyped /\ FaultsTyped /\ OpTyped /\ HandTyped
      /\ active \in Slot /\ Standby \in Slot /\ Standby # active /\ job \in JobState
      /\ job.pc = "none" /\ op = NoOp /\ handoff = NoHandoff
      /\ \A r \in Release : ~Busy(r)
  BY <1>1, QuietFacts
<1>4. slot[Standby].rel \in Release \cup {None} /\ slot[active].rel \in Release \cup {None}
  BY <1>3 DEF SlotsTyped, SlotRow
<1>5. h \in Handoff /\ h.stage = "freezing" /\ h.slot = Standby
  BY <1>2, <1>3, <1>4 DEF Handoff, Stage
<1>6. handoff' = h
  BY <1>2 DEF BeginHandoff
<1>7. TypeOK'
  BY <1>1, <1>3, <1>5, <1>6 DEF TypeOK, ledgerVars, pipeVars, opVars
<1>8. JobInv' /\ OwnerInv'
  BY <1>1, <1>3 DEF JobInv, OwnerInv, Busy, pipeVars, opVars
<1>9. RelsKept /\ row \in [Release -> Row]
  BY <1>1, <1>3 DEF RelsKept, RowsTyped
<1>10. SlotInv'
  BY <1>1, <1>9, SlotInvKept DEF ReleaseInv
<1>11. NoHandoff.stage = "none"
  BY DEF NoHandoff
<1>12. ~leased /\ owed = 0
  BY <1>3, <1>11 DEF ReleaseInv, HandInv, EveryMoveRecorded
<1>13. HandInv'
  BY <1>1, <1>3, <1>5, <1>6, <1>11, <1>12 DEF HandInv, EveryMoveRecorded, Stage
<1>. QED
  BY <1>7, <1>8, <1>10, <1>13 DEF ReleaseInv

-----------------------------------------------------------------------------
(* The ledger, the reconciler and the observers of operations.             *)
LEMMA LedgerKeeps ==
    ASSUME ReleaseInv,
           Resync \/ BecomeLate \/ Observe
           \/ \E p \in Slot : Apply(p) \/ RollOut(p) \/ Remove(p) \/ CannotBuild(p)
    PROVE  ReleaseInv'
<1>1. /\ TypeOK /\ SlotsTyped /\ OpTyped /\ FaultsTyped /\ late \in BOOLEAN
  BY TypeParts DEF ReleaseInv, RowsTyped
<1>2. /\ UNCHANGED <<row, job, active, slot, op, handVars, owed, faults>>
      /\ late' \in BOOLEAN /\ RelsKept
  BY <1>1 DEF Resync, BecomeLate, Observe, Apply, RollOut, Remove, CannotBuild, RelsKept,
     pipeVars, opVars
<1>3. slot' \in [Slot -> SlotRow]
  BY <1>1, <1>2 DEF SlotsTyped
<1>4. SlotsTyped' /\ OpTyped'
  <2>1. CASE Resync
    <3>1. record' \in [Slot -> [rel : Release \cup {None}, serving : BOOLEAN]]
      BY <1>1, <2>1 DEF Resync, Projected, SlotsTyped, SlotRow
    <3>2. deployed' \in [Slot -> [rel : Release \cup {None}, fresh : BOOLEAN,
                            phase : {"absent", "starting", "ready", "stalled"}]]
      BY <1>1, <2>1 DEF Resync, SlotsTyped
    <3>3. synced' \in [Slot -> BOOLEAN]
      BY <2>1 DEF Resync
    <3>. QED
      BY <1>1, <1>3, <2>1, <3>1, <3>2, <3>3 DEF Resync, SlotsTyped, OpTyped, opVars
  <2>2. CASE BecomeLate
    BY <1>1, <2>2 DEF BecomeLate, SlotsTyped, OpTyped, ledgerVars, opVars
  <2>3. CASE Observe
    <3>1. Seen \in {"ready", "failed", "gone", "deploying"}
      BY DEF Seen, RolloutOf
    <3>. QED
      BY <1>1, <2>3, <3>1 DEF Observe, SlotsTyped, OpTyped, ledgerVars
  <2>4. ASSUME NEW p \in Slot, Apply(p) PROVE SlotsTyped' /\ OpTyped'
    <3>1. PICK d : d = [rel |-> record[p].rel, phase |-> "starting", fresh |-> TRUE]
      OBVIOUS
    <3>2. record[p].rel \in Release \cup {None}
      BY <1>1 DEF SlotsTyped
    <3>3. d \in [rel : Release \cup {None}, fresh : BOOLEAN,
                 phase : {"absent", "starting", "ready", "stalled"}]
      BY <3>1, <3>2
    <3>4. deployed' = [deployed EXCEPT ![p] = d]
      BY <2>4, <3>1 DEF Apply
    <3>. QED
      BY <1>1, <2>4, <3>3, <3>4 DEF Apply, SlotsTyped, OpTyped, opVars
  <2>5. ASSUME NEW p \in Slot, RollOut(p) PROVE SlotsTyped' /\ OpTyped'
    <3>1. PICK ph \in {"ready", "stalled"} : deployed' = [deployed EXCEPT ![p].phase = ph]
      BY <2>5 DEF RollOut
    <3>2. deployed' \in [Slot -> [rel : Release \cup {None}, fresh : BOOLEAN,
                            phase : {"absent", "starting", "ready", "stalled"}]]
      BY <1>1, <3>1 DEF SlotsTyped
    <3>. QED
      BY <1>1, <2>5, <3>2 DEF RollOut, SlotsTyped, OpTyped, opVars
  <2>6. ASSUME NEW p \in Slot, Remove(p) PROVE SlotsTyped' /\ OpTyped'
    <3>1. NoDeployment \in [rel : Release \cup {None}, fresh : BOOLEAN,
                            phase : {"absent", "starting", "ready", "stalled"}]
      BY DEF NoDeployment
    <3>. QED
      BY <1>1, <2>6, <3>1 DEF Remove, SlotsTyped, OpTyped, opVars
  <2>7. ASSUME NEW p \in Slot, CannotBuild(p) PROVE SlotsTyped' /\ OpTyped'
    BY <1>1, <2>7 DEF CannotBuild, SlotsTyped, OpTyped, opVars
  <2>. QED
    BY <2>1, <2>2, <2>3, <2>4, <2>5, <2>6, <2>7
<1>5. FaultsTyped'
  BY <1>1, <1>2 DEF FaultsTyped
<1>. QED
  BY <1>2, <1>4, <1>5, AsideKeeps

LEMMA SlotFailedKeeps ==
    ASSUME ReleaseInv, NEW p \in Slot, SlotFailed(p) PROVE ReleaseInv'
<1>1. TypeOK /\ SlotsTyped /\ OpTyped /\ FaultsTyped /\ late \in BOOLEAN
  BY TypeParts DEF ReleaseInv, RowsTyped
<1>2. UNCHANGED <<row, active, pipeVars, opVars, handVars, owed>>
  BY DEF SlotFailed
<1>3. report' \in [Slot -> BOOLEAN]
  BY <1>1 DEF SlotFailed, SlotsTyped
<1>4. RelsKept /\ SlotsTyped' /\ FaultsTyped'
  <2>1. CASE UNCHANGED <<slot, record, synced, deployed, faults>>
    BY <1>1, <1>3, <2>1 DEF RelsKept, SlotsTyped, FaultsTyped
  <2>2. CASE SaveSlots([slot EXCEPT ![p].state = "failed"], {})
    BY <1>1, <1>3, <2>2, SaveState
  <2>. QED
    BY <2>1, <2>2 DEF SlotFailed
<1>5. OpTyped' /\ late' \in BOOLEAN
  BY <1>1, <1>2 DEF OpTyped, opVars, pipeVars
<1>6. UNCHANGED <<row, job, active, handVars, owed>> /\ op' = op
  BY <1>2 DEF pipeVars, opVars
<1>. QED
  BY <1>4, <1>5, <1>6, AsideKeeps

LEMMA ConcludeKeeps == ASSUME ReleaseInv, Conclude PROVE ReleaseInv'
<1>1. TypeOK /\ SlotsTyped /\ OpTyped /\ FaultsTyped /\ late \in BOOLEAN
  BY TypeParts DEF ReleaseInv, RowsTyped
<1>2. /\ UNCHANGED <<active, report, pipeVars, handVars, owed>>
      /\ op # NoOp /\ op' = NoOp /\ verdict' = "none"
  BY DEF Conclude
<1>3. report' \in [Slot -> BOOLEAN]
  BY <1>1, <1>2 DEF SlotsTyped
<1>4. OpTyped' /\ late' \in BOOLEAN
  BY <1>1, <1>2 DEF OpTyped, NoOp, Slot, pipeVars
<1>5. PICK q \in Slot : q = op.slot
  BY <1>1 DEF OpTyped
<1>6. CASE UNCHANGED <<row, slot, record, synced, deployed, faults>>
           \/ (UNCHANGED row /\ SaveSlots([slot EXCEPT ![q].state = "ready"], {}))
  <2>1. RelsKept /\ SlotsTyped' /\ FaultsTyped'
    <3>1. CASE UNCHANGED <<slot, record, synced, deployed, faults>>
      BY <1>1, <1>3, <3>1 DEF RelsKept, SlotsTyped, FaultsTyped
    <3>2. CASE SaveSlots([slot EXCEPT ![q].state = "ready"], {})
      BY <1>1, <1>3, <3>2, SaveState
    <3>. QED
      BY <1>6, <3>1, <3>2
  <2>2. UNCHANGED <<row, job, active, handVars, owed>>
    BY <1>2, <1>6 DEF pipeVars
  <2>. QED
    BY <1>2, <1>4, <2>1, <2>2, AsideKeeps
<1>7. CASE HasWorkload(slot[q]) /\ OfflineInScope(q)
  <2>1. handoff = NoHandoff /\ \A r \in Release : ~Busy(r)
    BY <1>2 DEF ReleaseInv, OwnerInv
  <2>2. slot[q].rel # None
    BY <1>7 DEF HasWorkload
  <2>. QED
    BY <1>2, <1>4, <1>7, <2>1, <2>2, OfflineKeeps
<1>. QED
  BY <1>5, <1>6, <1>7 DEF Conclude

-----------------------------------------------------------------------------
(* The handoff and its lease.                                              *)
LEMMA SettleMoves ==
    ASSUME ReleaseInv, NEW w \in Worker, NEW from \in Stage, NEW to \in Stage \cup {"none"},
           SettleTo(w, from, to)
    PROVE  /\ handoff # NoHandoff /\ handoff.stage = from /\ handoff \in Handoff
           /\ handoff' \in Handoff /\ holder' \in Worker \cup {None} /\ leased' \in BOOLEAN
           /\ hand' \in [Worker -> Stage \cup {"none"}] /\ ~leased'
           /\ handoff'.stage = to
           /\ to = "none" => handoff' = NoHandoff
           /\ to # "none" => handoff'.slot = handoff.slot /\ handoff' # NoHandoff
<1>1. HandTyped /\ HandInv
  BY TypeParts DEF ReleaseInv
<1>2. hand[w] = from /\ holder = w /\ leased
  BY DEF SettleTo, Current
<1>3. handoff # NoHandoff /\ handoff.stage = from
  BY <1>1, <1>2 DEF HandInv, Stage
<1>4. /\ holder' \in Worker \cup {None} /\ leased' \in BOOLEAN /\ ~leased'
      /\ hand' \in [Worker -> Stage \cup {"none"}]
  BY <1>1 DEF SettleTo, HandTyped
<1>5. NoHandoff \in Handoff /\ NoHandoff.stage = "none"
  BY DEF NoHandoff, Handoff, Slot
<1>6. CASE to = "none"
  BY <1>1, <1>3, <1>4, <1>5, <1>6 DEF SettleTo, HandTyped
<1>7. CASE to # "none"
  <2>1. PICK h : h = [handoff EXCEPT !.stage = to]
    OBVIOUS
  <2>2. h \in Handoff /\ h.stage = to /\ h.slot = handoff.slot
    BY <1>1, <2>1 DEF HandTyped, Handoff
  <2>3. handoff' = h
    BY <1>7, <2>1 DEF SettleTo
  <2>. QED
    BY <1>1, <1>3, <1>4, <1>5, <1>7, <2>2, <2>3 DEF HandTyped
<1>. QED
  BY <1>6, <1>7

(* A settled stage in which traffic does not move.                         *)
LEMMA SettleKeeps ==
    ASSUME ReleaseInv, NEW w \in Worker, NEW from \in Stage, NEW to \in Stage \cup {"none"},
           SettleTo(w, from, to), UNCHANGED <<row, active, slot, ledgerVars, pipeVars, opVars>>,
           FaultsTyped',
           from = "activating" <=> to \in {"activating", "none"},
           owed' = IF from = "activating" /\ to = "none" THEN owed - 1 ELSE owed
    PROVE  ReleaseInv'
<1>1. TypeOK /\ HandTyped /\ HandInv /\ SlotsTyped /\ active \in Slot
  BY TypeParts DEF ReleaseInv
<1>2. /\ handoff # NoHandoff /\ handoff.stage = from
      /\ handoff' \in Handoff /\ holder' \in Worker \cup {None} /\ leased' \in BOOLEAN
      /\ hand' \in [Worker -> Stage \cup {"none"}] /\ ~leased'
      /\ handoff'.stage = to
      /\ to = "none" => handoff' = NoHandoff
      /\ to # "none" => handoff'.slot = handoff.slot /\ handoff' # NoHandoff
  BY SettleMoves
<1>3. owed \in Int /\ owed' \in Int
  BY <1>1 DEF HandTyped
<1>4. owed' = IF to = "activating" THEN 1 ELSE 0
  BY <1>1, <1>2, <1>3 DEF HandInv, EveryMoveRecorded, Stage
<1>5. HandInv'
  BY <1>1, <1>2, <1>4 DEF HandInv, EveryMoveRecorded
<1>6. HandTyped'
  BY <1>2, <1>3 DEF HandTyped
<1>7. RelsKept /\ SlotsTyped' /\ active' \in Slot
  BY <1>1 DEF RelsKept, SlotsTyped, ledgerVars
<1>. QED
  BY <1>2, <1>5, <1>6, <1>7, HandoffKeeps

LEMMA ProgressKeeps ==
    ASSUME ReleaseInv, NEW w \in Worker,
           Stay(w) \/ PrepareAgain(w) \/ Freeze(w) \/ Prepare(w) \/ CompleteHandoff(w)
    PROVE  ReleaseInv'
<1>1. UNCHANGED <<row, active, slot, ledgerVars, pipeVars, opVars>>
  BY DEF Stay, PrepareAgain, Freeze, Prepare, CompleteHandoff
<1>2. FaultsTyped'
  <2>1. faults' = faults \/ Fault("crash")
    BY DEF Stay, PrepareAgain, Freeze, Prepare, CompleteHandoff
  <2>2. FaultsTyped
    BY TypeParts DEF ReleaseInv
  <2>. QED
    BY <2>1, <2>2, FaultTyped DEF Kind, FaultsTyped
<1>3. CASE Stay(w)
  <2>1. PICK s \in Stage : SettleTo(w, s, s) /\ owed' = owed
    BY <1>3 DEF Stay
  <2>2. s = "activating" <=> s \in {"activating", "none"}
    BY DEF Stage
  <2>3. owed' = IF s = "activating" /\ s = "none" THEN owed - 1 ELSE owed
    BY <2>1
  <2>. QED
    BY <1>1, <1>2, <2>1, <2>2, <2>3, SettleKeeps
<1>4. CASE PrepareAgain(w)
  BY <1>1, <1>2, <1>4, SettleKeeps DEF PrepareAgain, Stage
<1>5. CASE Freeze(w)
  BY <1>1, <1>2, <1>5, SettleKeeps DEF Freeze, Stage
<1>6. CASE Prepare(w)
  BY <1>1, <1>2, <1>6, SettleKeeps DEF Prepare, Stage
<1>7. CASE CompleteHandoff(w)
  BY <1>1, <1>2, <1>7, SettleKeeps DEF CompleteHandoff, Stage
<1>. QED
  BY <1>3, <1>4, <1>5, <1>6, <1>7

LEMMA CommitRouteKeeps ==
    ASSUME ReleaseInv, NEW w \in Worker, CommitRoute(w) PROVE ReleaseInv'
<1>1. /\ TypeOK /\ HandTyped /\ HandInv /\ SlotsTyped /\ FaultsTyped /\ active \in Slot
      /\ report \in [Slot -> BOOLEAN]
  BY TypeParts DEF ReleaseInv, SlotsTyped
<1>2. SettleTo(w, "routing", "activating") /\ UNCHANGED <<row, report, pipeVars, opVars>>
  BY DEF CommitRoute
<1>3. /\ handoff # NoHandoff /\ handoff.stage = "routing" /\ handoff \in Handoff
      /\ handoff' \in Handoff /\ holder' \in Worker \cup {None} /\ leased' \in BOOLEAN
      /\ hand' \in [Worker -> Stage \cup {"none"}] /\ ~leased'
      /\ handoff'.stage = "activating"
  BY <1>2, SettleMoves DEF Stage
<1>4. active # handoff.slot
  BY <1>1, <1>3 DEF HandInv
<1>5. active' = handoff.slot /\ owed' = owed + 1 /\ SaveSlots(slot, {})
  BY <1>4 DEF CommitRoute
<1>6. owed \in Int /\ owed = 0
  BY <1>1, <1>3 DEF HandTyped, HandInv, EveryMoveRecorded
<1>7. HandInv'
  BY <1>3, <1>5, <1>6 DEF HandInv, EveryMoveRecorded, Stage
<1>8. HandTyped' /\ active' \in Slot
  BY <1>3, <1>5, <1>6 DEF HandTyped, Handoff
<1>9. RelsKept /\ SlotsTyped' /\ FaultsTyped'
  BY <1>1, <1>2, <1>5, SaveSame
<1>. QED
  BY <1>2, <1>3, <1>7, <1>8, <1>9, HandoffKeeps

LEMMA LeaseKeeps ==
    ASSUME ReleaseInv,
           LeaseEnds \/ \E w \in Worker : Claim(w) \/ Fenced(w) \/ HandoffCrash(w)
    PROVE  ReleaseInv'
<1>1. /\ TypeOK /\ HandTyped /\ HandInv /\ SlotsTyped /\ FaultsTyped /\ active \in Slot
  BY TypeParts DEF ReleaseInv
<1>2. UNCHANGED <<row, active, slot, ledgerVars, pipeVars, opVars, handoff, owed>>
  BY DEF LeaseEnds, Claim, Fenced, HandoffCrash
<1>3. FaultsTyped'
  <2>1. faults' = faults \/ Fault("crash")
    BY DEF LeaseEnds, Claim, Fenced, HandoffCrash
  <2>. QED
    BY <1>1, <2>1, FaultTyped DEF Kind, FaultsTyped
<1>4. HandTyped' /\ HandInv'
  <2>1. CASE LeaseEnds
    BY <1>1, <1>2, <2>1 DEF LeaseEnds, HandTyped, HandInv, EveryMoveRecorded
  <2>2. ASSUME NEW w \in Worker, Claim(w) PROVE HandTyped' /\ HandInv'
    <3>1. handoff.stage \in Stage /\ handoff # NoHandoff
      BY <1>1, <2>2 DEF Claim, HandInv
    <3>2. /\ holder' = w /\ leased' = TRUE /\ hand' \in [Worker -> Stage \cup {"none"}]
          /\ hand'[w] = handoff.stage
      BY <1>1, <2>2, <3>1 DEF Claim, HandTyped
    <3>3. leased' \in BOOLEAN
      BY <3>2
    <3>. QED
      BY <1>1, <1>2, <3>1, <3>2, <3>3 DEF HandTyped, HandInv, EveryMoveRecorded
  <2>3. ASSUME NEW w \in Worker, Fenced(w) \/ HandoffCrash(w) PROVE HandTyped' /\ HandInv'
    <3>1. /\ holder' = holder /\ leased' = leased /\ hand' \in [Worker -> Stage \cup {"none"}]
          /\ \A v \in Worker : hand'[v] \in {"none", hand[v]}
      BY <1>1, <2>3 DEF Fenced, HandoffCrash, HandTyped
    <3>. QED
      BY <1>1, <1>2, <3>1 DEF HandTyped, HandInv, EveryMoveRecorded
  <2>. QED
    BY <2>1, <2>2, <2>3
<1>5. RelsKept /\ SlotsTyped' /\ active' \in Slot
  BY <1>1, <1>2 DEF RelsKept, SlotsTyped, ledgerVars
<1>. QED
  BY <1>2, <1>3, <1>4, <1>5, HandoffKeeps

-----------------------------------------------------------------------------
LEMMA InitIsGood == ASSUME Init PROVE ReleaseInv
<1>1. NoRow \in Row /\ NoRow.status = "none"
  BY DEF NoRow, Row, Slot
<1>2. NoJob \in JobState /\ NoJob.pc = "none"
  BY <1>1 DEF NoJob, JobState
<1>3. NoSlot \in SlotRow /\ NoSlot.rel = None
  BY DEF NoSlot, SlotRow
<1>4. RowsTyped /\ job \in JobState /\ active \in Slot
  BY <1>1, <1>2 DEF Init, RowsTyped, Slot
<1>5. SlotsTyped
  <2>1. /\ NoRecord \in [rel : Release \cup {None}, serving : BOOLEAN]
        /\ NoDeployment \in [rel : Release \cup {None}, fresh : BOOLEAN,
                             phase : {"absent", "starting", "ready", "stalled"}]
    BY DEF NoRecord, NoDeployment
  <2>. QED
    BY <1>3, <2>1 DEF Init, SlotsTyped
<1>6. OpTyped
  BY DEF Init, OpTyped, NoOp, Slot
<1>7. HandTyped
  <2>1. NoHandoff \in Handoff
    BY DEF NoHandoff, Handoff, Slot
  <2>2. leased \in BOOLEAN
    BY DEF Init
  <2>3. hand \in [Worker -> Stage \cup {"none"}]
    BY DEF Init
  <2>. QED
    BY <2>1, <2>2, <2>3 DEF Init, HandTyped
<1>8. FaultsTyped
  BY DEF Init, FaultsTyped
<1>9. TypeOK
  BY <1>4, <1>5, <1>6, <1>7, <1>8, TypeParts
<1>10. JobInv /\ OwnerInv
  BY <1>1, <1>2 DEF Init, JobInv, OwnerInv, Busy, InProgress
<1>11. SlotInv
  BY <1>1, <1>3, NoneIsNoRelease DEF Init, SlotInv, OnASlot, Slot
<1>12. HandInv
  BY DEF Init, HandInv, EveryMoveRecorded, NoHandoff
<1>. QED
  BY <1>9, <1>10, <1>11, <1>12 DEF ReleaseInv

LEMMA StepKeeps == ASSUME ReleaseInv, [Next]_vars PROVE ReleaseInv'
<1>1. CASE UNCHANGED vars
  <2>1. UNCHANGED <<row, job, active, handVars, owed>> /\ op' = op /\ RelsKept
    BY <1>1 DEF vars, handVars, RelsKept
  <2>2. SlotsTyped' /\ OpTyped' /\ FaultsTyped' /\ late' \in BOOLEAN
    BY <1>1 DEF vars, ReleaseInv, TypeOK, SlotsTyped, OpTyped, FaultsTyped
  <2>. QED
    BY <2>1, <2>2, AsideKeeps
<1>2. CASE Step
  BY <1>2, JobOnlyKeeps, WaitingStepKeeps, StartDeployKeeps, RegisterReadyKeeps,
     FailReleaseKeeps DEF Step
<1>3. ASSUME NEW w \in Worker,
             Claim(w) \/ Fenced(w) \/ Stay(w) \/ PrepareAgain(w) \/ Progress(w)
             \/ HandoffCrash(w)
      PROVE  ReleaseInv'
  BY <1>3, LeaseKeeps, ProgressKeeps, CommitRouteKeeps DEF Progress
<1>4. ASSUME NEW p \in Slot,
             Apply(p) \/ RollOut(p) \/ Remove(p) \/ CannotBuild(p) \/ SlotFailed(p)
      PROVE  ReleaseInv'
  BY <1>4, LedgerKeeps, SlotFailedKeeps
<1>5. CASE Next
  BY <1>2, <1>3, <1>4, <1>5, PublishKeeps, TakeOfflineKeeps, SwitchTrafficKeeps,
     BeginHandoffKeeps, RedeployKeeps, JobOnlyKeeps, LedgerKeeps, ExecuteKeeps, ConcludeKeeps,
     LeaseKeeps
  DEF Next
<1>. QED
  BY <1>1, <1>5

(* The parts of the invariant hold throughout.                             *)
THEOREM ReleasesAreGood == Spec => []ReleaseInv
<1>1. Init => ReleaseInv
  BY InitIsGood
<1>2. ReleaseInv /\ [Next]_vars => ReleaseInv'
  BY StepKeeps
<1>. QED
  BY <1>1, <1>2, PTL DEF Spec

(* Releases, slots, records, operations and handoffs keep their types.     *)
THEOREM TypeCorrect == Spec => []TypeOK
<1>1. ReleaseInv => TypeOK
  BY DEF ReleaseInv
<1>. QED
  BY <1>1, ReleasesAreGood, PTL

(* At most one of a release, an operation and a handoff works on the       *)
(* service, and a release in progress never on the slot that serves.       *)
THEOREM WorkHasOneOwner == Spec => []OneOwner
<1>1. ReleaseInv => OneOwner
  <2>1. SUFFICES ASSUME ReleaseInv PROVE OneOwner
    OBVIOUS
  <2>2. Cardinality(FindInProgress) <= 1
    <3>1. CASE FindInProgress = {}
      BY <3>1, FS_EmptySet
    <3>2. CASE FindInProgress # {}
      <4>1. PICK r : r \in FindInProgress
        BY <3>2
      <4>2. FindInProgress = {r}
        BY <2>1, <4>1 DEF FindInProgress, ReleaseInv, OwnerInv
      <4>. QED
        BY <4>2, FS_Singleton
    <3>. QED
      BY <3>1, <3>2
  <2>. QED
    BY <2>1, <2>2 DEF ReleaseInv, OwnerInv, OneOwner, FindInProgress
<1>. QED
  BY <1>1, ReleasesAreGood, PTL

(* What a step of the pipeline has read of its release is still so when it *)
(* writes it.                                                              *)
THEOREM SnapshotsAreFresh == Spec => []SnapshotFresh
<1>1. ReleaseInv => SnapshotFresh
  BY DEF ReleaseInv, JobInv, SnapshotFresh
<1>. QED
  BY <1>1, ReleasesAreGood, PTL

(* A ready release is on one slot, a superseded or offline one on none.    *)
THEOREM StatusMatchesSlots == Spec => []ReadyIsOnASlot
<1>1. ReleaseInv => ReadyIsOnASlot
  <2>1. SUFFICES ASSUME ReleaseInv, NEW r \in Release
                 PROVE  /\ row[r].status = "ready"
                           => Cardinality({p \in Slot : slot[p].rel = r}) = 1
                        /\ row[r].status \in {"superseded", "offline"} => ~OnASlot(r)
    BY DEF ReadyIsOnASlot
  <2>2. row[r].status \in {"superseded", "offline"} => ~OnASlot(r)
    BY <2>1 DEF ReleaseInv, SlotInv
  <2>3. ASSUME row[r].status = "ready"
        PROVE  Cardinality({p \in Slot : slot[p].rel = r}) = 1
    <3>1. PICK q \in Slot : slot[q].rel = r
      BY <2>1, <2>3 DEF ReleaseInv, SlotInv, OnASlot
    <3>2. {p \in Slot : slot[p].rel = r} = {q}
      BY <2>1, <3>1, NoneIsNoRelease DEF ReleaseInv, SlotInv
    <3>. QED
      BY <3>2, FS_Singleton
  <2>. QED
    BY <2>2, <2>3
<1>. QED
  BY <1>1, ReleasesAreGood, PTL

(* A handoff that has moved traffic owes one switch record, and no other   *)
(* does.                                                                   *)
THEOREM MovesAreRecorded == Spec => []EveryMoveRecorded
<1>1. ReleaseInv => EveryMoveRecorded
  BY DEF ReleaseInv, HandInv
<1>. QED
  BY <1>1, ReleasesAreGood, PTL

-----------------------------------------------------------------------------
(* The slot that serves stays as it is, unless traffic moves.              *)
LiveKept == slot'[active].state = "ready" /\ slot'[active].rel = slot[active].rel

LEMMA PipelineSparesLive ==
    ASSUME ReleaseInv, StartDeploy \/ RegisterReady \/ FailRelease, slot[active].state = "ready"
    PROVE  LiveKept
<1>1. job.pc \in {"run", "act"}
  BY DEF StartDeploy, RegisterReady, FailRelease
<1>2. PICK t \in Slot : t = job.snap.target
  BY <1>1, RunningJob
<1>3. t # active
  BY <1>1, <1>2, RunningJob
<1>4. slot \in [Slot -> SlotRow] /\ active \in Slot
  BY DEF ReleaseInv, TypeOK
<1>5. \/ slot' = slot
      \/ slot' = [slot EXCEPT ![t] = [rel |-> job.rel, state |-> "deploying",
                                     work |-> job.rel, off |-> FALSE]]
      \/ slot' = [slot EXCEPT ![t].state = "ready"]
      \/ slot' = [slot EXCEPT ![t].state = "failed"]
  BY <1>2 DEF StartDeploy, RegisterReady, FailRelease, SaveSlots, DeployedOn
<1>6. slot'[active] = slot[active]
  BY <1>3, <1>4, <1>5
<1>. QED
  BY <1>6 DEF LiveKept

LEMMA PeopleSpareLive ==
    ASSUME ReleaseInv, slot[active].state = "ready",
           TakeOffline \/ SwitchTraffic \/ (\E r \in Release : Redeploy(r))
           \/ \E a \in {"restart", "delete"}, p \in Slot : Execute(a, p)
    PROVE  LiveKept
<1>1. Quiet
  BY DEF TakeOffline, SwitchTraffic, CanSwitch, Redeploy, Execute
<1>2. Standby # active /\ Standby \in Slot /\ active \in Slot /\ slot \in [Slot -> SlotRow]
  BY <1>1, QuietFacts DEF SlotsTyped
<1>3. slot'[active] = slot[active]
  <2>0. ASSUME NEW p \in Slot, p # active, OfflineInScope(p) PROVE slot'[active] = slot[active]
    <3>1. slot' = Emptied(p)
      BY <2>0 DEF OfflineInScope, SaveSlots
    <3>2. Emptied(p)[active] = slot[active]
      BY <1>2, <2>0 DEF Emptied
    <3>. QED
      BY <3>1, <3>2
  <2>1. CASE TakeOffline
    BY <1>2, <2>0, <2>1 DEF TakeOffline
  <2>2. CASE SwitchTraffic
    BY <2>2 DEF SwitchTraffic, SaveSlots
  <2>3. ASSUME NEW r \in Release, Redeploy(r) PROVE slot'[active] = slot[active]
    BY <1>2, <2>3 DEF Redeploy, SaveSlots, DeployedOn
  <2>4. ASSUME NEW a \in {"restart", "delete"}, NEW p \in Slot, Execute(a, p)
        PROVE  slot'[active] = slot[active]
    <3>1. CASE a = "restart"
      BY <2>4, <3>1 DEF Execute, SaveSlots
    <3>2. CASE a = "delete"
      BY <2>0, <2>4, <3>2 DEF Execute
    <3>. QED
      BY <3>1, <3>2
  <2>. QED
    BY <2>1, <2>2, <2>3, <2>4
<1>. QED
  BY <1>3 DEF LiveKept

LEMMA ReportsSpareLive ==
    ASSUME ReleaseInv, slot[active].state = "ready", Conclude \/ \E p \in Slot : SlotFailed(p)
    PROVE  LiveKept
<1>1. SlotsTyped /\ FaultsTyped /\ OpTyped /\ active \in Slot
  BY TypeParts DEF ReleaseInv
<1>2. CASE Conclude
  <2>1. CASE UNCHANGED slot
    BY <2>1 DEF LiveKept
  <2>2. CASE SaveSlots([slot EXCEPT ![op.slot].state = "ready"], {})
    <3>1. PICK q \in Slot : q = op.slot
      BY <1>1 DEF OpTyped
    <3>2. SaveSlots([slot EXCEPT ![q].state = "ready"], {})
      BY <2>2, <3>1
    <3>3. report' \in [Slot -> BOOLEAN]
      BY <1>1, <1>2 DEF Conclude, SlotsTyped
    <3>4. RelsKept /\ slot'[q].state = "ready" /\ \A p \in Slot : p # q => slot'[p] = slot[p]
      BY <1>1, <3>2, <3>3, SaveState
    <3>. QED
      BY <1>1, <3>4 DEF RelsKept, LiveKept
  <2>3. CASE op.slot # active /\ OfflineInScope(op.slot)
    <3>1. PICK q \in Slot : q = op.slot
      BY <1>1 DEF OpTyped
    <3>2. q # active /\ slot' = Emptied(q)
      BY <2>3, <3>1 DEF OfflineInScope, SaveSlots
    <3>3. Emptied(q)[active] = slot[active]
      BY <1>1, <3>2 DEF Emptied, SlotsTyped
    <3>. QED
      BY <3>2, <3>3 DEF LiveKept
  <2>. QED
    BY <1>2, <2>1, <2>2, <2>3 DEF Conclude
<1>3. ASSUME NEW p \in Slot, SlotFailed(p) PROVE LiveKept
  <2>1. slot \in [Slot -> SlotRow]
    BY <1>1 DEF SlotsTyped
  <2>2. slot' = slot \/ (slot[p].state = "deploying" /\ slot' = [slot EXCEPT ![p].state = "failed"])
    BY <1>3 DEF SlotFailed, SaveSlots
  <2>3. slot'[active] = slot[active]
    BY <1>1, <2>1, <2>2
  <2>. QED
    BY <2>3 DEF LiveKept
<1>. QED
  BY <1>2, <1>3

LEMMA StepSparesLive ==
    ASSUME ReleaseInv, [Next]_vars, active' = active, slot[active].state = "ready"
    PROVE  LiveKept
<1>1. CASE UNCHANGED slot
  BY <1>1 DEF LiveKept
<1>2. CASE UNCHANGED vars
  BY <1>1, <1>2 DEF vars
<1>3. CASE Step
  BY <1>1, <1>3, PipelineSparesLive DEF Step, Enqueue, Begin, Poll, Advance, Look, Bump
<1>4. ASSUME NEW w \in Worker,
             Claim(w) \/ Fenced(w) \/ Stay(w) \/ PrepareAgain(w) \/ Progress(w)
             \/ HandoffCrash(w)
      PROVE  LiveKept
  BY <1>1, <1>4 DEF Claim, Fenced, Stay, PrepareAgain, Progress, Freeze, Prepare, CommitRoute,
     CompleteHandoff, HandoffCrash, SaveSlots
<1>5. ASSUME NEW p \in Slot,
             Apply(p) \/ RollOut(p) \/ Remove(p) \/ CannotBuild(p) \/ SlotFailed(p)
      PROVE  LiveKept
  BY <1>1, <1>5, ReportsSpareLive DEF Apply, RollOut, Remove, CannotBuild
<1>6. ASSUME Publish \/ BeginHandoff \/ LoseEnqueue \/ Crash \/ BecomeLate \/ Resync
             \/ Observe \/ LeaseEnds
      PROVE  LiveKept
  BY <1>1, <1>6 DEF Publish, BeginHandoff, LoseEnqueue, Crash, BecomeLate, Resync, Observe,
     LeaseEnds
<1>7. CASE Next
  BY <1>3, <1>4, <1>5, <1>6, <1>7, PeopleSpareLive, ReportsSpareLive DEF Next
<1>. QED
  BY <1>2, <1>7

(* No deployment, report, sweep or operation disturbs the slot that serves.*)
THEOREM LiveIsSpared == Spec => LiveStays
<1>1. ReleaseInv /\ [Next]_vars =>
        [active' = active /\ slot[active].state = "ready"
         => slot'[active].state = "ready" /\ slot'[active].rel = slot[active].rel]_vars
  BY StepSparesLive DEF LiveKept
<1>. QED
  BY <1>1, ReleasesAreGood, PTL DEF Spec, LiveStays

-----------------------------------------------------------------------------
(* A ready slot runs its release, as long as no projection has been lost.  *)

(* A slot with a release names its workload, and a judgement waits only    *)
(* where there is an operation.                                            *)
WorkInv ==
    /\ \A p \in Slot : slot[p].rel # None => slot[p].work = slot[p].rel /\ ~slot[p].off
    /\ verdict # "none" => op # NoOp

(* The records are those of the slot row, and a Deployment of the recorded *)
(* generation runs the recorded workload.                                  *)
Recorded ==
    \A p \in Slot :
        /\ record[p].rel = slot[p].work
        /\ record[p].serving <=> slot[p].rel # None /\ ~slot[p].off
        /\ synced[p]
        /\ deployed[p].fresh => deployed[p].rel = slot[p].work

Runs(p) == slot[p].rel # None /\ deployed[p].rel = slot[p].rel

(* What is ready runs, and so does what somebody has found ready and not   *)
(* yet acted on.                                                           *)
ReadyRuns == \A p \in Slot : slot[p].state = "ready" => Runs(p)
JudgedRuns ==
    /\ job.pc = "act" /\ job.saw = "ready" => Runs(job.snap.target)
    /\ verdict = "ready" => Runs(op.slot)
    /\ op.action = "restart" /\ deployed[op.slot].fresh => slot[op.slot].rel # None

Lossless == faults["projection"] = 0
Faithful == Lossless => Recorded /\ ReadyRuns /\ JudgedRuns

RolledInv == WorkInv /\ Faithful

(* Faults are never forgotten.                                             *)
LEMMA FaultsGrow ==
    ASSUME FaultsTyped, NEW k \in Kind, Fault(k), Lossless'
    PROVE  Lossless /\ k # "projection"
BY DEF FaultsTyped, Fault, Lossless, Kind

LEMMA SaveRecords ==
    ASSUME SlotsTyped, FaultsTyped, Faithful, Lossless',
           NEW s \in [Slot -> SlotRow], NEW ch, SaveSlots(s, ch),
           \A p \in Slot : p \in ch \/ s[p].work = slot[p].work
    PROVE  /\ Lossless /\ slot' = s /\ Recorded'
           /\ \A p \in Slot : /\ deployed'[p].rel = deployed[p].rel
                              /\ deployed'[p].fresh => deployed[p].fresh /\ p \notin ch
<1>1. slot' = s
  BY DEF SaveSlots
<1>2. /\ record' = Projected(s) /\ synced' = [p \in Slot |-> TRUE]
      /\ deployed' = [p \in Slot |-> [deployed[p] EXCEPT
                        !.fresh = @ /\ synced[p] /\ p \notin ch]]
      /\ UNCHANGED faults
  <2>1. ~Fault("projection")
    BY FaultsGrow DEF Kind
  <2>. QED
    BY Zenon, <2>1 DEF SaveSlots
<1>3. Lossless
  BY <1>2 DEF Lossless
<1>4. ASSUME NEW p \in Slot
      PROVE  /\ deployed'[p].rel = deployed[p].rel
             /\ deployed'[p].fresh => deployed[p].fresh /\ p \notin ch
  BY <1>2 DEF SlotsTyped
<1>5. ASSUME NEW p \in Slot
      PROVE  /\ record'[p].rel = s[p].work
             /\ record'[p].serving <=> s[p].rel # None /\ ~s[p].off
             /\ synced'[p]
  BY <1>2 DEF Projected
<1>6. ASSUME NEW p \in Slot, deployed'[p].fresh PROVE deployed'[p].rel = s[p].work
  BY <1>3, <1>4, <1>6 DEF Faithful, Recorded
<1>. QED
  BY <1>1, <1>3, <1>4, <1>5, <1>6 DEF Recorded

(* Saves that leave the slots their releases, whatever they judge of them. *)
LEMMA SaveStateKeepsRolled ==
    ASSUME SlotsTyped, FaultsTyped, RolledInv, NEW s \in [Slot -> SlotRow], NEW ch, SaveSlots(s, ch),
           \A p \in Slot : /\ s[p].rel = slot[p].rel /\ s[p].work = slot[p].work
                           /\ s[p].off = slot[p].off
                           /\ s[p].state = "ready" =>
                                 slot[p].state = "ready" \/ (Lossless => Runs(p)),
           job' = job \/ job'.pc # "act",
           \/ op' = op /\ verdict' = verdict
           \/ verdict' = "none" /\ (op'.action = "restart" => op'.slot \in ch),
           op.slot \in Slot, op'.slot \in Slot,
           job.pc = "act" => job.snap.target \in Slot
    PROVE  RolledInv'
<1>1. slot' = s
  BY DEF SaveSlots
<1>2. WorkInv'
  BY <1>1 DEF RolledInv, WorkInv
<1>3. ASSUME Lossless' PROVE Recorded' /\ ReadyRuns' /\ JudgedRuns'
  <2>1. /\ Lossless /\ Recorded'
        /\ \A p \in Slot : /\ deployed'[p].rel = deployed[p].rel
                           /\ deployed'[p].fresh => deployed[p].fresh /\ p \notin ch
    BY <1>3, SaveRecords DEF RolledInv
  <2>2. \A p \in Slot : Runs(p) => Runs(p)'
    BY <1>1, <2>1 DEF Runs
  <2>3. ReadyRuns /\ JudgedRuns
    BY <2>1 DEF RolledInv, Faithful
  <2>4. ReadyRuns'
    BY <1>1, <2>1, <2>2, <2>3 DEF ReadyRuns
  <2>5. (job.pc = "act" /\ job.saw = "ready" => Runs(job.snap.target))'
    BY <2>2, <2>3 DEF JudgedRuns
  <2>6. CASE op' = op /\ verdict' = verdict
    <3>1. PICK p \in Slot : p = op.slot
      OBVIOUS
    <3>2. Runs(p) => Runs(p)'
      BY <2>2
    <3>3. (verdict = "ready" => Runs(op.slot))'
      BY <2>3, <2>6, <3>1, <3>2 DEF JudgedRuns
    <3>4. (op.action = "restart" /\ deployed[op.slot].fresh => slot[op.slot].rel # None)'
      BY <1>1, <2>1, <2>3, <2>6, <3>1 DEF JudgedRuns
    <3>. QED
      BY <2>1, <2>4, <2>5, <3>3, <3>4 DEF JudgedRuns
  <2>7. CASE verdict' = "none" /\ (op'.action = "restart" => op'.slot \in ch)
    <3>1. (op.action = "restart" /\ deployed[op.slot].fresh => slot[op.slot].rel # None)'
      BY <2>1, <2>7
    <3>. QED
      BY <2>1, <2>4, <2>5, <2>7, <3>1 DEF JudgedRuns
  <2>. QED
    BY <2>6, <2>7
<1>. QED
  BY <1>2, <1>3 DEF RolledInv, Faithful

(* Saves that put a release on a slot or take it away, when nobody judges. *)
LEMMA SaveMovesKeepsRolled ==
    ASSUME SlotsTyped, FaultsTyped, RolledInv, NEW s \in [Slot -> SlotRow], NEW ch, SaveSlots(s, ch),
           \A p \in Slot : p \in ch \/ s[p].work = slot[p].work,
           \A p \in Slot : s[p].rel # None => s[p].work = s[p].rel /\ ~s[p].off,
           \A p \in Slot : s[p].state = "ready" => s[p] = slot[p],
           job'.pc # "act", verdict' = "none", op'.action # "restart"
    PROVE  RolledInv'
<1>1. slot' = s
  BY DEF SaveSlots
<1>2. WorkInv'
  BY <1>1 DEF WorkInv
<1>3. ASSUME Lossless' PROVE Recorded' /\ ReadyRuns' /\ JudgedRuns'
  <2>1. /\ Lossless /\ Recorded'
        /\ \A p \in Slot : deployed'[p].rel = deployed[p].rel
    BY <1>3, SaveRecords DEF RolledInv
  <2>2. ReadyRuns
    BY <2>1 DEF RolledInv, Faithful
  <2>3. ReadyRuns'
    BY <1>1, <2>1, <2>2 DEF ReadyRuns, Runs
  <2>. QED
    BY <2>1, <2>3 DEF JudgedRuns
<1>. QED
  BY <1>2, <1>3 DEF RolledInv, Faithful

(* Steps that leave slots and cluster alone.                               *)
LEMMA StillKeepsRolled ==
    ASSUME FaultsTyped, RolledInv, UNCHANGED <<slot, record, synced, deployed, op, verdict>>,
           faults' = faults \/ \E k \in Kind : Fault(k),
           job' = job \/ job'.pc # "act"
    PROVE  RolledInv'
<1>1. Lossless' => Lossless
  BY FaultsGrow DEF Lossless
<1>. QED
  BY <1>1 DEF RolledInv, WorkInv, Faithful, Recorded, ReadyRuns, JudgedRuns, Runs

-----------------------------------------------------------------------------
LEMMA JobAsideKeepsRolled ==
    ASSUME ReleaseInv, RolledInv,
           \/ Publish \/ BeginHandoff \/ Enqueue \/ LoseEnqueue \/ Begin \/ Poll \/ Advance
           \/ Bump \/ Crash \/ BecomeLate \/ LeaseEnds
           \/ \E p \in Slot : CannotBuild(p)
           \/ \E w \in Worker :
                 \/ Claim(w) \/ Fenced(w) \/ Stay(w) \/ PrepareAgain(w) \/ HandoffCrash(w)
                 \/ Freeze(w) \/ Prepare(w) \/ CompleteHandoff(w)
    PROVE  RolledInv'
<1>1. FaultsTyped /\ job \in JobState
  BY TypeParts DEF ReleaseInv
<1>2. UNCHANGED <<slot, record, synced, deployed, op, verdict>>
  BY DEF Publish, BeginHandoff, Enqueue, LoseEnqueue, Begin, Poll, Advance, Bump, Crash,
     BecomeLate, LeaseEnds, CannotBuild, Claim, Fenced, Stay, PrepareAgain, HandoffCrash,
     Freeze, Prepare, CompleteHandoff, ledgerVars, opVars
<1>3. faults' = faults \/ Fault("crash")
  BY DEF Publish, BeginHandoff, Enqueue, LoseEnqueue, Begin, Poll, Advance, Bump, Crash,
     BecomeLate, LeaseEnds, CannotBuild, Claim, Fenced, Stay, PrepareAgain, HandoffCrash,
     Freeze, Prepare, CompleteHandoff
<1>4. NoJob.pc # "act" /\ NextJob.pc # "act" /\ \A r \in Release : [NoJob EXCEPT !.pc = "accepted", !.rel = r].pc # "act"
  <2>1. ASSUME NEW r \in Release
        PROVE  /\ NoJob.pc # "act" /\ NextJob.pc # "act"
               /\ [NoJob EXCEPT !.pc = "accepted", !.rel = r].pc # "act"
    BY <1>1, JobsAreTyped
  <2>2. 1 \in Release
    BY ReleaseAssumption DEF Release
  <2>. QED
    BY <2>1, <2>2
<1>5. job' = job \/ job'.pc # "act"
  <2>1. CASE Publish
    BY <1>4, <2>1 DEF Publish, Accept
  <2>2. CASE Enqueue \/ LoseEnqueue \/ Crash \/ Poll \/ Advance \/ Bump
    BY <1>4, <2>2 DEF Enqueue, LoseEnqueue, Crash, Poll, Advance, Bump, Wait, Done
  <2>3. CASE Begin
    <3>1. [job EXCEPT !.pc = "run", !.snap = row[job.rel]].pc # "act"
      BY <1>1 DEF JobState
    <3>. QED
      BY <1>4, <2>3, <3>1 DEF Begin
  <2>. QED
    BY <2>1, <2>2, <2>3 DEF BeginHandoff, BecomeLate, LeaseEnds, CannotBuild, Claim, Fenced, Stay,
       PrepareAgain, HandoffCrash, Freeze, Prepare, CompleteHandoff, pipeVars
<1>. QED
  BY <1>1, <1>2, <1>3, <1>5, StillKeepsRolled DEF Kind

(* What the reconciler and the cluster do.                                 *)
LEMMA ClusterKeepsRolled ==
    ASSUME ReleaseInv, RolledInv, Resync \/ \E p \in Slot : Apply(p) \/ RollOut(p) \/ Remove(p)
    PROVE  RolledInv'
<1>1. /\ SlotsTyped /\ OpTyped
      /\ job.pc = "act" => job.snap.target \in Slot
  BY TypeParts, RunningJob DEF ReleaseInv
<1>2. UNCHANGED <<slot, job, op, verdict, faults>>
  BY DEF Resync, Apply, RollOut, Remove, pipeVars, opVars
<1>3. WorkInv'
  BY <1>2 DEF RolledInv, WorkInv
<1>4. ASSUME Lossless' PROVE Recorded' /\ ReadyRuns' /\ JudgedRuns'
  <2>1. Lossless /\ Recorded /\ ReadyRuns /\ JudgedRuns /\ WorkInv
    BY <1>2, <1>4 DEF Lossless, RolledInv, Faithful
  <2>2. /\ Recorded'
        /\ \A q \in Slot : /\ Runs(q) => deployed'[q].rel = deployed[q].rel
                           /\ deployed'[q].fresh => deployed[q].fresh \/ slot[q].rel # None
    <3>1. CASE Resync
      <4>1. \A q \in Slot : /\ deployed'[q].rel = deployed[q].rel
                            /\ deployed'[q].fresh => deployed[q].fresh
        BY <1>1, <3>1 DEF Resync, SlotsTyped
      <4>2. \A q \in Slot : /\ record'[q].rel = slot[q].work
                            /\ record'[q].serving <=> slot[q].rel # None /\ ~slot[q].off
                            /\ synced'[q]
        BY <3>1 DEF Resync, Projected
      <4>. QED
        BY <1>2, <2>1, <4>1, <4>2 DEF Recorded
    <3>2. ASSUME NEW p \in Slot, Apply(p)
          PROVE  /\ Recorded'
                 /\ \A q \in Slot : /\ Runs(q) => deployed'[q].rel = deployed[q].rel
                                    /\ deployed'[q].fresh => deployed[q].fresh \/ slot[q].rel # None
      <4>1. PICK d : d = [rel |-> record[p].rel, phase |-> "starting", fresh |-> TRUE]
        OBVIOUS
      <4>2. /\ deployed' = [deployed EXCEPT ![p] = d] /\ d.rel = slot[p].work /\ slot[p].rel # None
            /\ slot[p].rel = slot[p].work /\ UNCHANGED <<record, synced>>
        BY <2>1, <3>2, <4>1 DEF Apply, Wants, Recorded
      <4>3. \A q \in Slot : deployed'[q] = IF q = p THEN d ELSE deployed[q]
        BY <1>1, <4>2 DEF SlotsTyped
      <4>. QED
        BY <1>2, <2>1, <4>2, <4>3 DEF Recorded, Runs
    <3>3. ASSUME NEW p \in Slot, RollOut(p)
          PROVE  /\ Recorded'
                 /\ \A q \in Slot : /\ Runs(q) => deployed'[q].rel = deployed[q].rel
                                    /\ deployed'[q].fresh => deployed[q].fresh \/ slot[q].rel # None
      <4>1. PICK ph \in {"ready", "stalled"} : deployed' = [deployed EXCEPT ![p].phase = ph]
        BY <3>3 DEF RollOut
      <4>2. \A q \in Slot : deployed'[q].rel = deployed[q].rel /\ deployed'[q].fresh = deployed[q].fresh
        BY <1>1, <4>1 DEF SlotsTyped
      <4>. QED
        BY <1>2, <2>1, <3>3, <4>2 DEF RollOut, Recorded
    <3>4. ASSUME NEW p \in Slot, Remove(p)
          PROVE  /\ Recorded'
                 /\ \A q \in Slot : /\ Runs(q) => deployed'[q].rel = deployed[q].rel
                                    /\ deployed'[q].fresh => deployed[q].fresh \/ slot[q].rel # None
      <4>1. /\ deployed' = [deployed EXCEPT ![p] = NoDeployment] /\ ~record[p].serving
            /\ UNCHANGED <<record, synced>>
        BY <3>4 DEF Remove
      <4>2. slot[p].rel = None
        BY <2>1, <4>1 DEF Recorded, WorkInv
      <4>3. \A q \in Slot : deployed'[q] = IF q = p THEN NoDeployment ELSE deployed[q]
        BY <1>1, <4>1 DEF SlotsTyped
      <4>4. ~NoDeployment.fresh
        BY DEF NoDeployment
      <4>. QED
        BY <1>2, <2>1, <4>1, <4>2, <4>3, <4>4 DEF Recorded, Runs
    <3>. QED
      BY <3>1, <3>2, <3>3, <3>4
  <2>3. \A q \in Slot : Runs(q) => Runs(q)'
    BY <1>2, <2>2 DEF Runs
  <2>4. ReadyRuns'
    BY <1>2, <2>1, <2>3 DEF ReadyRuns
  <2>5. PICK q \in Slot : q = op.slot
    BY <1>1 DEF OpTyped
  <2>6. JudgedRuns'
    BY <1>1, <1>2, <2>1, <2>2, <2>3, <2>5 DEF JudgedRuns
  <2>. QED
    BY <2>2, <2>4, <2>6
<1>. QED
  BY <1>3, <1>4 DEF RolledInv, Faithful

(* What is found ready runs: only the recorded generation counts, and it   *)
(* is of the release the slot has.                                         *)
LEMMA FoundRuns ==
    ASSUME RolledInv, Lossless, NEW p \in Slot, slot[p].rel # None, RolloutOf(p) = "ready"
    PROVE  Runs(p)
<1>1. deployed[p].fresh
  BY DEF RolloutOf
<1>. QED
  BY <1>1 DEF RolledInv, WorkInv, Faithful, Recorded, Runs

LEMMA LookKeepsRolled == ASSUME ReleaseInv, RolledInv, Look PROVE RolledInv'
<1>1. /\ job.pc = "run" /\ job.snap.status = "deploying"
      /\ job' = [job EXCEPT !.pc = "act", !.saw = Verdict]
      /\ UNCHANGED <<slot, record, synced, deployed, op, verdict, faults>>
  BY DEF Look, ledgerVars, opVars
<1>2. /\ job \in JobState /\ job.rel \in Release /\ job.snap = row[job.rel]
      /\ job.snap.target \in Slot
  BY <1>1, RunningJob
<1>3. PICK t \in Slot : t = job.snap.target
  BY <1>2
<1>4. PICK v : v = Verdict
  OBVIOUS
<1>5. job'.snap = job.snap /\ job'.saw = v
  <2>1. PICK j : j = [job EXCEPT !.pc = "act"]
    OBVIOUS
  <2>2. job' = [j EXCEPT !.saw = v]
    BY Zenon, <1>1, <1>4, <2>1
  <2>. QED
    BY <1>2, <2>1, <2>2 DEF JobState
<1>6. slot[t].rel = job.rel /\ slot[t].rel # None
  BY <1>1, <1>2, <1>3, NoneIsNoRelease DEF ReleaseInv, SlotInv
<1>7. v = "ready" => RolloutOf(t) = "ready"
  BY <1>3, <1>4 DEF Verdict
<1>8. Lossless /\ v = "ready" => Runs(t)
  BY <1>6, <1>7, FoundRuns
<1>9. WorkInv'
  BY <1>1 DEF RolledInv, WorkInv
<1>10. ASSUME Lossless' PROVE Recorded' /\ ReadyRuns' /\ JudgedRuns'
  <2>1. Lossless /\ Recorded /\ ReadyRuns /\ JudgedRuns
    BY <1>1, <1>10 DEF Lossless, RolledInv, Faithful
  <2>. QED
    BY <1>1, <1>3, <1>5, <1>8, <2>1 DEF Recorded, ReadyRuns, JudgedRuns, Runs
<1>. QED
  BY <1>9, <1>10 DEF RolledInv, Faithful

LEMMA ObserveKeepsRolled == ASSUME ReleaseInv, RolledInv, Observe PROVE RolledInv'
<1>1. /\ op # NoOp /\ verdict' = Seen
      /\ UNCHANGED <<slot, record, synced, deployed, job, op, faults>>
  BY DEF Observe, ledgerVars, pipeVars
<1>2. PICK p \in Slot : p = op.slot
  BY TypeParts DEF ReleaseInv, OpTyped
<1>3. Seen = "ready" => op.action = "restart" /\ RolloutOf(p) = "ready"
  BY <1>2 DEF Seen
<1>4. ASSUME Lossless, Seen = "ready" PROVE Runs(p)
  <2>1. deployed[p].fresh /\ op.action = "restart"
    BY <1>3, <1>4 DEF RolloutOf
  <2>2. slot[p].rel # None
    BY <1>2, <1>4, <2>1 DEF RolledInv, Faithful, JudgedRuns
  <2>. QED
    BY <1>3, <1>4, <2>2, FoundRuns
<1>5. WorkInv'
  BY <1>1 DEF RolledInv, WorkInv
<1>6. ASSUME Lossless' PROVE Recorded' /\ ReadyRuns' /\ JudgedRuns'
  <2>1. Lossless /\ Recorded /\ ReadyRuns /\ JudgedRuns
    BY <1>1, <1>6 DEF Lossless, RolledInv, Faithful
  <2>. QED
    BY <1>1, <1>2, <1>4, <2>1 DEF Recorded, ReadyRuns, JudgedRuns, Runs
<1>. QED
  BY <1>5, <1>6 DEF RolledInv, Faithful

-----------------------------------------------------------------------------
(* One slot gets another state, ready only where its release runs.         *)
LEMMA OneStateKeepsRolled ==
    ASSUME ReleaseInv, RolledInv, NEW q \in Slot, NEW st \in {"ready", "failed"},
           SaveSlots([slot EXCEPT ![q].state = st], {}),
           st = "ready" /\ Lossless => Runs(q),
           job' = job \/ job'.pc # "act",
           UNCHANGED <<op, verdict>> \/ (op' = NoOp /\ verdict' = "none")
    PROVE  RolledInv'
<1>1. SlotsTyped /\ FaultsTyped /\ OpTyped
  BY TypeParts DEF ReleaseInv
<1>2. slot \in [Slot -> SlotRow]
  BY <1>1 DEF SlotsTyped
<1>3. PICK m : m = [slot[q] EXCEPT !.state = st]
  OBVIOUS
<1>4. /\ m \in SlotRow /\ m.rel = slot[q].rel /\ m.work = slot[q].work /\ m.off = slot[q].off
      /\ m.state = st
  BY <1>2, <1>3 DEF SlotRow
<1>5. PICK s : s = [slot EXCEPT ![q] = m]
  OBVIOUS
<1>6. s \in [Slot -> SlotRow] /\ s[q] = m /\ \A p \in Slot : p # q => s[p] = slot[p]
  BY <1>2, <1>4, <1>5
<1>7. s = [slot EXCEPT ![q].state = st]
  BY <1>2, <1>3, <1>5
<1>8. SaveSlots(s, {})
  BY <1>7
<1>9. \A p \in Slot : /\ s[p].rel = slot[p].rel /\ s[p].work = slot[p].work
                      /\ s[p].off = slot[p].off
                      /\ s[p].state = "ready" =>
                            slot[p].state = "ready" \/ (Lossless => Runs(p))
  BY <1>4, <1>6
<1>10. /\ op.slot \in Slot /\ op'.slot \in Slot
       /\ \/ op' = op /\ verdict' = verdict
          \/ verdict' = "none" /\ (op'.action = "restart" => op'.slot \in {})
  BY <1>1 DEF OpTyped, NoOp, Slot
<1>11. job.pc = "act" => job.snap.target \in Slot
  BY RunningJob
<1>. QED
  BY <1>1, <1>6, <1>8, <1>9, <1>10, <1>11, SaveStateKeepsRolled

(* The slots are saved as they are.                                        *)
LEMMA SameKeepsRolled ==
    ASSUME ReleaseInv, RolledInv, NEW ch, SaveSlots(slot, ch), UNCHANGED job,
           \/ UNCHANGED <<op, verdict>>
           \/ verdict' = "none" /\ (op'.action = "restart" => op'.slot \in ch),
           op'.slot \in Slot
    PROVE  RolledInv'
<1>1. SlotsTyped /\ FaultsTyped /\ OpTyped
  BY TypeParts DEF ReleaseInv
<1>2. PICK s : s = slot
  OBVIOUS
<1>3. s \in [Slot -> SlotRow] /\ SaveSlots(s, ch)
  BY <1>1, <1>2 DEF SlotsTyped
<1>4. \A p \in Slot : /\ s[p].rel = slot[p].rel /\ s[p].work = slot[p].work
                      /\ s[p].off = slot[p].off
                      /\ s[p].state = "ready" =>
                            slot[p].state = "ready" \/ (Lossless => Runs(p))
  BY <1>2
<1>5. op.slot \in Slot /\ (job.pc = "act" => job.snap.target \in Slot)
  BY <1>1, RunningJob DEF OpTyped
<1>6. \/ op' = op /\ verdict' = verdict
      \/ verdict' = "none" /\ (op'.action = "restart" => op'.slot \in ch)
  OBVIOUS
<1>. QED
  BY <1>1, <1>3, <1>4, <1>5, <1>6, SaveStateKeepsRolled

(* A release is put on a slot, and its job is to come.                     *)
LEMMA DeployKeepsRolled ==
    ASSUME ReleaseInv, RolledInv, NEW t \in Slot, NEW r \in Release,
           SaveSlots(DeployedOn(t, r), {t}), job'.pc # "act",
           op = NoOp, UNCHANGED <<op, verdict>>
    PROVE  RolledInv'
<1>1. SlotsTyped /\ FaultsTyped /\ slot \in [Slot -> SlotRow]
  BY TypeParts DEF ReleaseInv, SlotsTyped
<1>2. PICK m : m = [rel |-> r, state |-> "deploying", work |-> r, off |-> FALSE]
  OBVIOUS
<1>3. PICK s : s = [slot EXCEPT ![t] = m]
  OBVIOUS
<1>4. m \in SlotRow /\ m.rel = r /\ m.work = r /\ m.off = FALSE /\ m.state = "deploying"
  BY <1>2 DEF SlotRow
<1>5. /\ s \in [Slot -> SlotRow] /\ SaveSlots(s, {t})
      /\ s[t] = m /\ \A p \in Slot : p # t => s[p] = slot[p]
  BY <1>1, <1>2, <1>3, <1>4 DEF DeployedOn
<1>6. /\ \A p \in Slot : p \in {t} \/ s[p].work = slot[p].work
      /\ \A p \in Slot : s[p].rel # None => s[p].work = s[p].rel /\ ~s[p].off
      /\ \A p \in Slot : s[p].state = "ready" => s[p] = slot[p]
  BY <1>4, <1>5 DEF RolledInv, WorkInv
<1>7. verdict' = "none" /\ op'.action # "restart"
  BY DEF RolledInv, WorkInv, NoOp
<1>. QED
  BY <1>1, <1>5, <1>6, <1>7, SaveMovesKeepsRolled

(* A slot is emptied.                                                      *)
LEMMA OfflineKeepsRolled ==
    ASSUME ReleaseInv, RolledInv, NEW p \in Slot, SaveSlots(Emptied(p), {}), job'.pc # "act",
           verdict' = "none", op'.action # "restart"
    PROVE  RolledInv'
<1>1. SlotsTyped /\ FaultsTyped /\ slot \in [Slot -> SlotRow]
  BY TypeParts DEF ReleaseInv, SlotsTyped
<1>2. PICK s : s = Emptied(p)
  OBVIOUS
<1>3. /\ s \in [Slot -> SlotRow]
      /\ s[p].rel = None /\ s[p].state = "empty" /\ s[p].work = slot[p].work
      /\ \A q \in Slot : q # p => s[q] = slot[q]
  BY <1>1, <1>2 DEF Emptied, SlotRow
<1>4. /\ \A q \in Slot : q \in {} \/ s[q].work = slot[q].work
      /\ \A q \in Slot : s[q].rel # None => s[q].work = s[q].rel /\ ~s[q].off
      /\ \A q \in Slot : s[q].state = "ready" => s[q] = slot[q]
  BY <1>3 DEF RolledInv, WorkInv
<1>5. SaveSlots(s, {})
  BY <1>2
<1>. QED
  BY <1>1, <1>3, <1>4, <1>5, SaveMovesKeepsRolled

-----------------------------------------------------------------------------
LEMMA PipelineKeepsRolled ==
    ASSUME ReleaseInv, RolledInv, StartDeploy \/ RegisterReady \/ FailRelease
    PROVE  RolledInv'
<1>1. /\ job.pc \in {"run", "act"} /\ UNCHANGED <<op, verdict>>
      /\ job' = NextJob \/ job' = NoJob
  BY DEF StartDeploy, RegisterReady, FailRelease, opVars, Wait, Done
<1>2. /\ job \in JobState /\ job.rel \in Release /\ job.snap.target \in Slot /\ op = NoOp
      /\ FaultsTyped
  BY <1>1, RunningJob
<1>3. job'.pc # "act"
  BY <1>1, <1>2, JobsAreTyped
<1>4. PICK t \in Slot : t = job.snap.target
  BY <1>2
<1>5. CASE StartDeploy
  <2>1. SaveSlots(DeployedOn(t, job.rel), {t})
    BY <1>4, <1>5 DEF StartDeploy
  <2>2. PICK r \in Release : r = job.rel
    BY <1>2
  <2>3. SaveSlots(DeployedOn(t, r), {t})
    BY <2>1, <2>2
  <2>. QED
    BY <1>1, <1>2, <1>3, <2>3, DeployKeepsRolled
<1>6. CASE RegisterReady
  <2>1. SaveSlots([slot EXCEPT ![t].state = "ready"], {}) /\ job.pc = "act" /\ job.saw = "ready"
    BY <1>4, <1>6 DEF RegisterReady
  <2>2. Lossless => Runs(t)
    BY <1>4, <2>1 DEF RolledInv, Faithful, JudgedRuns
  <2>. QED
    BY <1>1, <1>3, <2>1, <2>2, OneStateKeepsRolled
<1>7. CASE FailRelease
  <2>1. CASE SaveSlots([slot EXCEPT ![t].state = "failed"], {})
    <3>1. "failed" \in {"ready", "failed"} /\ "failed" # "ready"
      OBVIOUS
    <3>. QED
      BY <1>1, <1>3, <2>1, <3>1, OneStateKeepsRolled
  <2>2. CASE UNCHANGED <<slot, record, synced, deployed, faults>>
    BY <1>1, <1>2, <1>3, <2>2, StillKeepsRolled
  <2>. QED
    BY <1>4, <1>7, <2>1, <2>2 DEF FailRelease
<1>. QED
  BY <1>5, <1>6, <1>7

LEMMA PeopleKeepRolled ==
    ASSUME ReleaseInv, RolledInv,
           TakeOffline \/ SwitchTraffic \/ (\E r \in Release : Redeploy(r))
           \/ \E a \in {"restart", "delete"}, p \in Slot : Execute(a, p)
    PROVE  RolledInv'
<1>1. Quiet
  BY DEF TakeOffline, SwitchTraffic, CanSwitch, Redeploy, Execute
<1>2. /\ Standby \in Slot /\ job \in JobState /\ job.pc = "none" /\ op = NoOp
      /\ OpTyped /\ FaultsTyped /\ op.slot \in Slot /\ op.action # "restart" /\ verdict = "none"
  BY <1>1, QuietFacts DEF OpTyped, RolledInv, WorkInv, NoOp
<1>3. PICK t \in Slot : t = Standby
  BY <1>2
<1>4. CASE TakeOffline
  <2>1. SaveSlots(Emptied(t), {}) /\ UNCHANGED <<job, op, verdict>>
    BY <1>3, <1>4 DEF TakeOffline, OfflineInScope, pipeVars, opVars
  <2>. QED
    BY <1>2, <2>1, OfflineKeepsRolled
<1>5. CASE SwitchTraffic
  <2>1. SaveSlots(slot, {}) /\ UNCHANGED <<job, op, verdict>>
    BY <1>5 DEF SwitchTraffic, pipeVars, opVars
  <2>. QED
    BY <1>2, <2>1, SameKeepsRolled
<1>6. ASSUME NEW r \in Release, Redeploy(r) PROVE RolledInv'
  <2>1. SaveSlots(DeployedOn(t, r), {t}) /\ UNCHANGED <<op, verdict>> /\ Accept(r)
    BY <1>3, <1>6 DEF Redeploy, opVars
  <2>2. job'.pc # "act"
    BY <1>2, <2>1, JobsAreTyped DEF Accept
  <2>. QED
    BY <1>2, <2>1, <2>2, DeployKeepsRolled
<1>7. ASSUME NEW a \in {"restart", "delete"}, NEW p \in Slot, Execute(a, p) PROVE RolledInv'
  <2>1. /\ op' = [action |-> a, slot |-> p] /\ UNCHANGED <<job, verdict>>
        /\ op'.slot = p /\ op'.action = a
    BY <1>7 DEF Execute, pipeVars
  <2>2. CASE a = "restart"
    <3>1. SaveSlots(slot, {p})
      BY <1>7, <2>2 DEF Execute
    <3>. QED
      BY <1>2, <2>1, <3>1, SameKeepsRolled
  <2>3. CASE a = "delete" /\ HasWorkload(slot[p])
    <3>1. SaveSlots(Emptied(p), {})
      BY <1>7, <2>3 DEF Execute, OfflineInScope
    <3>. QED
      BY <1>2, <2>1, <2>3, <3>1, OfflineKeepsRolled
  <2>4. CASE a = "delete" /\ ~HasWorkload(slot[p])
    <3>1. UNCHANGED <<slot, record, synced, deployed, faults>>
      BY <1>7, <2>4 DEF Execute
    <3>. QED
      BY <1>2, <2>1, <2>4, <3>1
      DEF RolledInv, WorkInv, Faithful, Lossless, Recorded, ReadyRuns, JudgedRuns, Runs
  <2>. QED
    BY <2>2, <2>3, <2>4
<1>. QED
  BY <1>4, <1>5, <1>6, <1>7

LEMMA ReportsKeepRolled ==
    ASSUME ReleaseInv, RolledInv,
           Conclude \/ (\E p \in Slot : SlotFailed(p)) \/ \E w \in Worker : CommitRoute(w)
    PROVE  RolledInv'
<1>1. FaultsTyped /\ OpTyped /\ op.slot \in Slot
  BY TypeParts DEF ReleaseInv, OpTyped
<1>2. CASE Conclude
  <2>1. op' = NoOp /\ verdict' = "none" /\ UNCHANGED job
    BY <1>2 DEF Conclude, pipeVars
  <2>2. CASE verdict = "ready"
    <3>1. PICK q \in Slot : q = op.slot
      BY <1>1
    <3>2. SaveSlots([slot EXCEPT ![q].state = "ready"], {})
      BY <1>2, <2>2, <3>1 DEF Conclude
    <3>3. Lossless => Runs(q)
      BY <2>2, <3>1 DEF RolledInv, Faithful, JudgedRuns
    <3>. QED
      BY <2>1, <3>2, <3>3, OneStateKeepsRolled
  <2>3. NoOp.action # "restart"
    BY DEF NoOp
  <2>4. CASE UNCHANGED <<slot, record, synced, deployed, faults>>
    BY <2>1, <2>3, <2>4
    DEF RolledInv, WorkInv, Faithful, Lossless, Recorded, ReadyRuns, JudgedRuns, Runs
  <2>5. CASE OfflineInScope(op.slot)
    <3>1. PICK q \in Slot : q = op.slot
      BY <1>1
    <3>2. SaveSlots(Emptied(q), {})
      BY <2>5, <3>1 DEF OfflineInScope
    <3>3. job'.pc # "act"
      <4>1. \A r \in Release : ~Busy(r)
        BY <1>2 DEF Conclude, ReleaseInv, OwnerInv
      <4>. QED
        BY <2>1, <4>1 DEF ReleaseInv, JobInv
    <3>. QED
      BY <2>1, <2>3, <3>2, <3>3, OfflineKeepsRolled
  <2>. QED
    BY <1>2, <2>2, <2>4, <2>5 DEF Conclude
<1>3. ASSUME NEW p \in Slot, SlotFailed(p) PROVE RolledInv'
  <2>1. UNCHANGED <<job, op, verdict>>
    BY <1>3 DEF SlotFailed, pipeVars, opVars
  <2>2. CASE SaveSlots([slot EXCEPT ![p].state = "failed"], {})
    <3>1. "failed" \in {"ready", "failed"} /\ "failed" # "ready"
      OBVIOUS
    <3>. QED
      BY <2>1, <2>2, <3>1, OneStateKeepsRolled
  <2>3. CASE UNCHANGED <<slot, record, synced, deployed, faults>>
    BY <1>1, <2>1, <2>3, StillKeepsRolled
  <2>. QED
    BY <1>3, <2>2, <2>3 DEF SlotFailed
<1>4. ASSUME NEW w \in Worker, CommitRoute(w) PROVE RolledInv'
  <2>1. UNCHANGED <<job, op, verdict>>
    BY <1>4 DEF CommitRoute, pipeVars, opVars
  <2>2. CASE SaveSlots(slot, {})
    <3>1. op'.slot \in Slot /\ UNCHANGED <<op, verdict>>
      BY <1>1, <2>1
    <3>2. PICK ch : ch = {}
      OBVIOUS
    <3>3. SaveSlots(slot, ch)
      BY <2>2, <3>2
    <3>. QED
      BY <2>1, <3>1, <3>3, SameKeepsRolled
  <2>3. CASE UNCHANGED <<slot, record, synced, deployed, faults>>
    BY <1>1, <2>1, <2>3, StillKeepsRolled
  <2>. QED
    BY <1>4, <2>2, <2>3 DEF CommitRoute
<1>. QED
  BY <1>2, <1>3, <1>4

LEMMA InitIsRolled == ASSUME Init PROVE RolledInv
<1>1. /\ \A p \in Slot : slot[p] = NoSlot /\ record[p] = NoRecord /\ synced[p]
                         /\ deployed[p] = NoDeployment
      /\ job = NoJob /\ op = NoOp /\ verdict = "none"
  BY DEF Init
<1>2. /\ NoSlot.rel = None /\ NoSlot.state = "empty" /\ NoSlot.work = None
      /\ NoRecord.rel = None /\ NoRecord.serving = FALSE /\ NoDeployment.fresh = FALSE
      /\ NoJob.pc = "none" /\ NoOp.action = "none"
  BY DEF NoSlot, NoRecord, NoDeployment, NoJob, NoOp
<1>. QED
  BY <1>1, <1>2 DEF RolledInv, WorkInv, Faithful, Recorded, ReadyRuns, JudgedRuns

LEMMA StepKeepsRolled == ASSUME ReleaseInv, RolledInv, [Next]_vars PROVE RolledInv'
<1>1. CASE UNCHANGED vars
  BY <1>1 DEF vars, RolledInv, WorkInv, Faithful, Lossless, Recorded, ReadyRuns, JudgedRuns, Runs
<1>2. CASE Step
  BY <1>2, JobAsideKeepsRolled, PipelineKeepsRolled, LookKeepsRolled DEF Step
<1>3. ASSUME NEW w \in Worker,
             Claim(w) \/ Fenced(w) \/ Stay(w) \/ PrepareAgain(w) \/ Progress(w)
             \/ HandoffCrash(w)
      PROVE  RolledInv'
  BY <1>3, JobAsideKeepsRolled, ReportsKeepRolled DEF Progress
<1>4. ASSUME NEW p \in Slot,
             Apply(p) \/ RollOut(p) \/ Remove(p) \/ CannotBuild(p) \/ SlotFailed(p)
      PROVE  RolledInv'
  BY <1>4, ClusterKeepsRolled, ReportsKeepRolled, JobAsideKeepsRolled
<1>5. CASE Next
  BY <1>2, <1>3, <1>4, <1>5, JobAsideKeepsRolled, PeopleKeepRolled, ClusterKeepsRolled,
     ObserveKeepsRolled, ReportsKeepRolled
  DEF Next
<1>. QED
  BY <1>1, <1>5

(* A ready slot runs the release it names, whatever was ready before it    *)
(* and however late somebody acts on what was found, as long as no         *)
(* projection into the ledger has been lost.                               *)
THEOREM ReadyRollsOut == Spec => []ReadyIsRolledOut
<1>1. Init => RolledInv
  BY InitIsRolled
<1>2. ReleaseInv /\ RolledInv /\ [Next]_vars => RolledInv'
  BY StepKeepsRolled
<1>3. RolledInv => ReadyIsRolledOut
  BY DEF RolledInv, Faithful, Lossless, ReadyRuns, Runs, ReadyIsRolledOut
<1>. QED
  BY <1>1, <1>2, <1>3, ReleasesAreGood, PTL DEF Spec

-----------------------------------------------------------------------------
(* The module implements BlueGreen.  What traffic sees of the slots: *)
Live == slot[active].rel
Spare == slot[Standby].rel
Able == Spare # None /\ slot[Standby].state = "ready"
Moving ==
    CASE handoff.stage = "none"       -> "none"
      [] handoff.stage = "activating" -> "moved"
      [] OTHER                        -> "asked"

(* What serves is ready, and so is what has served and comes off in a      *)
(* handoff; one that is asked for still finds both slots as they were.     *)
TrafficInv ==
    /\ Live # None => slot[active].state = "ready"
    /\ handoff # NoHandoff /\ Spare # None => Able
    /\ handoff # NoHandoff /\ handoff.stage # "activating" =>
          handoff.slot = Standby /\ Able /\ ~BlockedBy(Live, Spare)

Promised == TrafficInv' /\ [Promise!ANext]_(Promise!bvars)

LEMMA TrafficSame ==
    ASSUME Live' = Live, Spare' = Spare, Able' = Able, Moving' = Moving
    PROVE  UNCHANGED Promise!bvars
  BY DEF Promise!bvars, Live, Spare, Able, Moving

LEMMA TrafficFree ==
    ASSUME handoff = NoHandoff
    PROVE  Promise!Free /\ Moving = "none"
  BY DEF NoHandoff, Promise!Free, Moving

(* While no handoff is under way the slots move as BlueGreen allows, when  *)
(* the one that serves keeps its release and stays ready.                  *)
LEMMA SlotsMove ==
    ASSUME ReleaseInv, TrafficInv, handoff = NoHandoff, UNCHANGED <<active, handoff>>,
           Live' = Live, Live # None => slot'[active].state = "ready",
           \/ Spare' = Spare
           \/ Spare' = None
           \/ Spare' \in Release /\ Spare' # Live /\ ~Able'
    PROVE  Promised
<1>1. /\ Promise!Free /\ Moving' = Moving /\ Able' \in BOOLEAN
      /\ Spare = None => ~Able
      /\ Spare' = None => ~Able'
  BY TrafficFree DEF Moving, Able
<1>2. TrafficInv'
  BY DEF TrafficInv
<1>3. CASE Spare' = Spare /\ Spare # None
  <2>1. Promise!Judge
    BY <1>1, <1>3 DEF Promise!Judge, Live, Spare, Able, Moving
  <2>. QED
    BY <1>2, <2>1 DEF Promised, Promise!ANext
<1>4. CASE Spare' = Spare /\ Spare = None
  <2>1. Able' = Able
    BY <1>1, <1>4 DEF Able
  <2>. QED
    BY <1>1, <1>2, <1>4, <2>1, TrafficSame DEF Promised
<1>5. CASE Spare' = None
  <2>1. Able' = FALSE
    BY <1>1, <1>5 DEF Able
  <2>2. Promise!Clear
    BY <1>1, <1>5, <2>1 DEF Promise!Clear, Live, Spare, Able, Moving
  <2>. QED
    BY <1>2, <2>2 DEF Promised, Promise!ANext
<1>6. CASE Spare' \in Release /\ Spare' # Live /\ ~Able'
  <2>1. PICK r \in Release : r = Spare'
    BY <1>6
  <2>2. Able' = FALSE
    BY <1>6 DEF Able
  <2>3. Promise!Deploy(r)
    BY <1>1, <1>6, <2>1, <2>2 DEF Promise!Deploy, Live, Spare, Able, Moving
  <2>. QED
    BY <1>2, <2>3 DEF Promised, Promise!ANext
<1>. QED
  BY <1>3, <1>4, <1>5, <1>6

LEMMA SlotsStay ==
    ASSUME TrafficInv, UNCHANGED <<active, slot, handoff>> PROVE Promised
<1>1. Standby' = Standby
  BY DEF Standby
<1>2. Live' = Live /\ Spare' = Spare /\ Able' = Able /\ Moving' = Moving
  BY <1>1 DEF Live, Spare, Able, Moving
<1>3. TrafficInv'
  BY <1>1, <1>2 DEF TrafficInv, BlockedBy
<1>. QED
  BY <1>2, <1>3, TrafficSame DEF Promised

(* The ways in which a slot is written.                                    *)
LEMMA StateMove ==
    ASSUME ReleaseInv, TrafficInv, handoff = NoHandoff, UNCHANGED <<active, handoff>>,
           NEW t \in Slot, NEW st, slot' = [slot EXCEPT ![t].state = st],
           t # active \/ st = "ready" \/ (Live # None => slot[t].state = "deploying")
    PROVE  Promised
<1>1. active \in Slot /\ slot \in [Slot -> SlotRow]
  BY DEF ReleaseInv, TypeOK
<1>2. Standby' = Standby /\ Standby \in Slot
  BY <1>1, StandbyIsOther DEF Standby
<1>3. \A p \in Slot : /\ slot'[p].rel = slot[p].rel
                      /\ p # t => slot'[p] = slot[p]
                      /\ slot'[t].state = st
  BY <1>1 DEF SlotRow
<1>4. Live' = Live /\ Spare' = Spare
  BY <1>1, <1>2, <1>3 DEF Live, Spare
<1>5. Live # None => slot'[active].state = "ready"
  BY <1>1, <1>3 DEF TrafficInv
<1>. QED
  BY <1>4, <1>5, SlotsMove

LEMMA DeployMove ==
    ASSUME ReleaseInv, TrafficInv, handoff = NoHandoff, UNCHANGED <<active, handoff>>,
           NEW t \in Slot, t # active, NEW r \in Release, ~OnASlot(r),
           slot' = DeployedOn(t, r)
    PROVE  Promised
<1>1. active \in Slot /\ slot \in [Slot -> SlotRow]
  BY DEF ReleaseInv, TypeOK
<1>2. Standby' = Standby /\ Standby = t
  BY <1>1, StandbyIsOther DEF Standby
<1>3. slot'[t].rel = r /\ slot'[t].state = "deploying" /\ slot'[active] = slot[active]
  BY <1>1 DEF DeployedOn
<1>4. Live' = Live /\ Spare' = r /\ ~Able'
  BY <1>2, <1>3 DEF Live, Spare, Able
<1>5. r # Live
  BY <1>1 DEF OnASlot, Live
<1>6. Live # None => slot'[active].state = "ready"
  BY <1>3 DEF TrafficInv
<1>. QED
  BY <1>4, <1>5, <1>6, SlotsMove

LEMMA EmptyMove ==
    ASSUME ReleaseInv, TrafficInv, handoff = NoHandoff, UNCHANGED <<active, handoff>>,
           NEW t \in Slot, t # active, slot' = Emptied(t)
    PROVE  Promised
<1>1. active \in Slot /\ slot \in [Slot -> SlotRow]
  BY DEF ReleaseInv, TypeOK
<1>2. Standby' = Standby /\ Standby = t
  BY <1>1, StandbyIsOther DEF Standby
<1>3. slot'[t].rel = None /\ slot'[active] = slot[active]
  BY <1>1 DEF Emptied, SlotRow
<1>4. Live' = Live /\ Spare' = None
  BY <1>2, <1>3 DEF Live, Spare
<1>5. Live # None => slot'[active].state = "ready"
  BY <1>3 DEF TrafficInv
<1>. QED
  BY <1>4, <1>5, SlotsMove

LEMMA PipelinePromised ==
    ASSUME ReleaseInv, TrafficInv, StartDeploy \/ RegisterReady \/ FailRelease
    PROVE  Promised
<1>1. job.pc \in {"run", "act"} /\ UNCHANGED <<active, handoff>>
  BY DEF StartDeploy, RegisterReady, FailRelease, handVars
<1>2. PICK t \in Slot, r \in Release : t = job.snap.target /\ r = job.rel
  BY <1>1, RunningJob
<1>3. t # active /\ handoff = NoHandoff /\ job.snap = row[r]
  BY <1>1, <1>2, RunningJob
<1>4. CASE StartDeploy
  <2>1. slot' = DeployedOn(t, r) /\ row[r].status \in NotYet
    BY <1>2, <1>3, <1>4 DEF StartDeploy, SaveSlots, NotYet
  <2>2. ~OnASlot(r)
    BY <2>1 DEF ReleaseInv, SlotInv
  <2>. QED
    BY <1>1, <1>3, <2>1, <2>2, DeployMove
<1>5. CASE RegisterReady
  <2>1. slot' = [slot EXCEPT ![t].state = "ready"]
    BY <1>2, <1>5 DEF RegisterReady, SaveSlots
  <2>. QED
    BY <1>1, <1>3, <2>1, StateMove
<1>6. CASE FailRelease
  <2>1. slot' = slot \/ slot' = [slot EXCEPT ![t].state = "failed"]
    BY <1>2, <1>6 DEF FailRelease, SaveSlots
  <2>. QED
    BY <1>1, <1>3, <2>1, StateMove, SlotsStay
<1>. QED
  BY <1>4, <1>5, <1>6

LEMMA PeoplePromised ==
    ASSUME ReleaseInv, TrafficInv,
           \/ TakeOffline \/ \E r \in Release : Redeploy(r)
           \/ \E a \in {"restart", "delete"}, p \in Slot : Execute(a, p)
    PROVE  Promised
<1>1. Quiet /\ UNCHANGED <<active, handoff>>
  BY DEF TakeOffline, Redeploy, Execute, handVars
<1>2. handoff = NoHandoff /\ Standby \in Slot /\ Standby # active
  BY <1>1, QuietFacts
<1>3. CASE TakeOffline
  <2>1. slot' = Emptied(Standby)
    BY <1>3 DEF TakeOffline, OfflineInScope, SaveSlots
  <2>. QED
    BY <1>1, <1>2, <2>1, EmptyMove
<1>4. ASSUME NEW r \in Release, Redeploy(r) PROVE Promised
  <2>1. slot' = DeployedOn(Standby, r) /\ ~OnASlot(r)
    BY <1>4 DEF Redeploy, Redeployable, SaveSlots
  <2>. QED
    BY <1>1, <1>2, <2>1, DeployMove
<1>5. ASSUME NEW a \in {"restart", "delete"}, NEW p \in Slot, Execute(a, p) PROVE Promised
  <2>1. slot' = slot \/ (p # active /\ slot' = Emptied(p))
    BY <1>5 DEF Execute, OfflineInScope, SaveSlots
  <2>. QED
    BY <1>1, <1>2, <2>1, EmptyMove, SlotsStay
<1>. QED
  BY <1>3, <1>4, <1>5

(* A report that comes late finds the slots as a handoff needs them.       *)
LEMMA ReportsPromised ==
    ASSUME ReleaseInv, TrafficInv, Conclude \/ \E p \in Slot : SlotFailed(p)
    PROVE  Promised
<1>1. UNCHANGED <<active, handoff>> /\ active \in Slot
  BY DEF Conclude, SlotFailed, handVars, ReleaseInv, TypeOK
<1>2. CASE Conclude
  <2>1. PICK q \in Slot : q = op.slot
    BY DEF ReleaseInv, TypeOK
  <2>2. handoff = NoHandoff
    BY <1>2 DEF Conclude, ReleaseInv, OwnerInv
  <2>3. \/ slot' = slot \/ slot' = [slot EXCEPT ![q].state = "ready"]
        \/ q # active /\ slot' = Emptied(q)
    BY <1>2, <2>1 DEF Conclude, OfflineInScope, SaveSlots
  <2>. QED
    BY <1>1, <2>2, <2>3, StateMove, EmptyMove, SlotsStay
<1>3. ASSUME NEW p \in Slot, SlotFailed(p) PROVE Promised
  <2>1. CASE slot' = slot
    BY <1>1, <2>1, SlotsStay
  <2>2. CASE /\ slot[p].rel # None /\ slot[p].state = "deploying"
             /\ slot' = [slot EXCEPT ![p].state = "failed"]
    <3>1. p # active
      BY <2>2 DEF TrafficInv, Live
    <3>2. CASE handoff = NoHandoff
      BY <1>1, <2>2, <3>1, <3>2, StateMove
    <3>3. CASE handoff # NoHandoff
      <4>1. p = Standby
        BY <1>1, <3>1, StandbyIsOther
      <4>. QED
        BY <2>2, <3>3, <4>1 DEF TrafficInv, Spare, Able
    <3>. QED
      BY <3>2, <3>3
  <2>. QED
    BY <1>3, <2>1, <2>2 DEF SlotFailed, SaveSlots
<1>. QED
  BY <1>2, <1>3

(* The stages of a handoff in which the traffic stays.                     *)
LEMMA SettlePromised ==
    ASSUME ReleaseInv, TrafficInv, NEW w \in Worker, NEW from \in Stage, NEW to \in Stage,
           SettleTo(w, from, to), UNCHANGED <<active, slot>>,
           from = "activating" <=> to = "activating"
    PROVE  Promised
<1>1. handoff # NoHandoff /\ handoff.stage = from /\ handoff'.stage = to
      /\ handoff'.slot = handoff.slot /\ handoff' # NoHandoff
  BY SettleMoves DEF Stage
<1>2. Standby' = Standby
  BY DEF Standby
<1>3. Moving' = Moving
  BY <1>1 DEF Moving, Stage
<1>4. Live' = Live /\ Spare' = Spare /\ Able' = Able
  BY <1>2 DEF Live, Spare, Able
<1>5. TrafficInv'
  BY <1>1, <1>2, <1>4 DEF TrafficInv, BlockedBy
<1>. QED
  BY <1>3, <1>4, <1>5, TrafficSame DEF Promised

(* What the exchange of the slots does to what traffic sees.               *)
LEMMA SlotsExchange ==
    ASSUME ReleaseInv, TrafficInv, active' = Standby, slot' = slot, Able, ~BlockedBy(Live, Spare)
    PROVE  /\ Live' = Spare /\ Spare' = Live /\ Able' = (Live # None)
           /\ slot'[active'].state = "ready"
           /\ Promise!Exchange
<1>1. active \in Slot
  BY DEF ReleaseInv, TypeOK
<1>2. Standby' = active
  BY <1>1 DEF Standby, StandbyOf, Slot
<1>3. Live' = Spare /\ Spare' = Live
  BY <1>2 DEF Live, Spare
<1>4. Able' = (Live # None)
  BY <1>2, <1>3 DEF Able, TrafficInv, Live
<1>5. slot'[active'].state = "ready"
  BY DEF Able
<1>6. Promise!Exchange
  BY <1>3, <1>4 DEF Promise!Exchange, Promise!KeptBack, BlockedBy, Live, Spare, Able
<1>. QED
  BY <1>3, <1>4, <1>5, <1>6

LEMMA SwitchPromised == ASSUME ReleaseInv, TrafficInv, SwitchTraffic PROVE Promised
<1>1. /\ Quiet /\ active' = Standby /\ slot' = slot /\ UNCHANGED handoff /\ ~UnderControl
      /\ Able /\ ~BlockedBy(Live, Spare)
  BY DEF SwitchTraffic, CanSwitch, SaveSlots, handVars, Able, Live, Spare
<1>2. handoff = NoHandoff
  BY <1>1, QuietFacts
<1>3. Promise!Exchange /\ slot'[active'].state = "ready"
  BY <1>1, SlotsExchange
<1>4. Promise!Switch
  BY <1>1, <1>2, <1>3, TrafficFree DEF Promise!Switch, Promise!Fenced, UnderControl
<1>5. TrafficInv'
  BY <1>1, <1>2, <1>3 DEF TrafficInv
<1>. QED
  BY <1>4, <1>5 DEF Promised, Promise!ANext

LEMMA BeginPromised == ASSUME ReleaseInv, TrafficInv, BeginHandoff PROVE Promised
<1>1. /\ Quiet /\ UNCHANGED <<active, slot>> /\ Spare \in Controlled
      /\ Able /\ ~BlockedBy(Live, Spare)
  BY DEF BeginHandoff, CanSwitch, Able, Live, Spare
<1>2. handoff'.stage = "freezing" /\ handoff'.slot = Standby
  BY DEF BeginHandoff
<1>3. Standby' = Standby
  BY <1>1 DEF Standby
<1>4. Live' = Live /\ Spare' = Spare /\ Able' = Able
  BY <1>1, <1>3 DEF Live, Spare, Able
<1>5. handoff = NoHandoff /\ Moving' = "asked"
  BY <1>1, <1>2, QuietFacts DEF Moving
<1>6. Promise!Ask
  BY <1>1, <1>4, <1>5, TrafficFree
     DEF Promise!Ask, Promise!KeptBack, BlockedBy, Live, Spare, Able, Moving
<1>7. TrafficInv'
  BY <1>1, <1>2, <1>3, <1>4 DEF TrafficInv, BlockedBy
<1>. QED
  BY <1>6, <1>7 DEF Promised, Promise!ANext

LEMMA CommitPromised ==
    ASSUME ReleaseInv, TrafficInv, NEW w \in Worker, CommitRoute(w) PROVE Promised
<1>1. SettleTo(w, "routing", "activating")
  BY DEF CommitRoute
<1>2. /\ handoff # NoHandoff /\ handoff.stage = "routing"
      /\ handoff'.stage = "activating" /\ handoff' # NoHandoff
  BY <1>1, SettleMoves DEF Stage
<1>3. active # handoff.slot /\ handoff.slot = Standby /\ Able /\ ~BlockedBy(Live, Spare)
  BY <1>2 DEF ReleaseInv, HandInv, TrafficInv
<1>4. active' = Standby /\ slot' = slot
  BY <1>3 DEF CommitRoute, SaveSlots
<1>5. /\ Promise!Exchange /\ slot'[active'].state = "ready"
      /\ Spare' = Live /\ Able' = (Live # None)
  BY <1>3, <1>4, SlotsExchange
<1>6. Moving = "asked" /\ Moving' = "moved"
  BY <1>2 DEF Moving
<1>7. Promise!Move
  BY <1>5, <1>6 DEF Promise!Move, Moving
<1>8. TrafficInv'
  BY <1>2, <1>5 DEF TrafficInv
<1>. QED
  BY <1>7, <1>8 DEF Promised, Promise!ANext

LEMMA CompletePromised ==
    ASSUME ReleaseInv, TrafficInv, NEW w \in Worker, CompleteHandoff(w) PROVE Promised
<1>1. SettleTo(w, "activating", "none") /\ UNCHANGED <<active, slot>>
  BY DEF CompleteHandoff
<1>2. handoff.stage = "activating" /\ handoff' = NoHandoff /\ handoff'.stage = "none"
  BY <1>1, SettleMoves DEF Stage
<1>3. Standby' = Standby
  BY <1>1 DEF Standby
<1>4. Live' = Live /\ Spare' = Spare /\ Able' = Able
  BY <1>1, <1>3 DEF Live, Spare, Able
<1>5. Moving = "moved" /\ Moving' = "none"
  BY <1>2 DEF Moving
<1>6. Promise!Record
  BY <1>4, <1>5 DEF Promise!Record, Live, Spare, Able, Moving
<1>7. TrafficInv'
  BY <1>1, <1>2, <1>4 DEF TrafficInv
<1>. QED
  BY <1>6, <1>7 DEF Promised, Promise!ANext

LEMMA WorkerPromised ==
    ASSUME ReleaseInv, TrafficInv, NEW w \in Worker,
           Claim(w) \/ Fenced(w) \/ Stay(w) \/ PrepareAgain(w) \/ Progress(w)
           \/ HandoffCrash(w)
    PROVE  Promised
<1>1. CASE Claim(w) \/ Fenced(w) \/ HandoffCrash(w)
  BY <1>1, SlotsStay DEF Claim, Fenced, HandoffCrash
<1>2. CASE Stay(w)
  BY <1>2, SettlePromised DEF Stay
<1>3. CASE PrepareAgain(w) \/ Freeze(w) \/ Prepare(w)
  BY <1>3, SettlePromised DEF PrepareAgain, Freeze, Prepare, Stage
<1>. QED
  BY <1>1, <1>2, <1>3, CommitPromised, CompletePromised DEF Progress

LEMMA StepPromised == ASSUME ReleaseInv, TrafficInv, [Next]_vars PROVE Promised
<1>1. ASSUME UNCHANGED vars
      PROVE  Promised
  BY <1>1, SlotsStay DEF vars
<1>2. CASE Step
  BY <1>2, PipelinePromised, SlotsStay DEF Step, Enqueue, Begin, Poll, Advance, Look, Bump, handVars
<1>3. ASSUME NEW p \in Slot,
             Apply(p) \/ RollOut(p) \/ Remove(p) \/ CannotBuild(p) \/ SlotFailed(p)
      PROVE  Promised
  BY <1>3, ReportsPromised, SlotsStay DEF Apply, RollOut, Remove, CannotBuild, handVars
<1>4. ASSUME Publish \/ LoseEnqueue \/ Crash \/ BecomeLate \/ Resync \/ Observe \/ LeaseEnds
      PROVE  Promised
  BY <1>4, SlotsStay DEF Publish, LoseEnqueue, Crash, BecomeLate, Resync, Observe, LeaseEnds,
     handVars
<1>5. CASE Next
  BY <1>2, <1>3, <1>4, <1>5, PeoplePromised, ReportsPromised, SwitchPromised, BeginPromised,
     WorkerPromised
  DEF Next
<1>. QED
  BY <1>1, <1>5

LEMMA InitIsPromised == ASSUME Init PROVE Promise!AInit /\ TrafficInv
<1>1. \A p \in Slot : slot[p].rel = None
  BY DEF Init, NoSlot
<1>2. active \in Slot /\ Standby \in Slot
  BY DEF Init, Slot, Standby, StandbyOf
<1>3. Live = None /\ Spare = None /\ Able = FALSE /\ Moving = "none"
  BY <1>1, <1>2, TrafficFree DEF Init, Live, Spare, Able
<1>. QED
  BY <1>3 DEF Init, TrafficInv, Promise!AInit, Live, Spare, Able, Moving

(* Every step of the module is one of BlueGreen or leaves what traffic     *)
(* sees as it is: traffic goes to what was made ready beside the serving   *)
(* release, and nothing comes between a fenced move and its record.        *)
THEOREM TrafficKeepsPromise == Spec => KeepsPromise
<1>1. Init => Promise!AInit /\ TrafficInv
  BY InitIsPromised
<1>2. ReleaseInv /\ TrafficInv /\ [Next]_vars => TrafficInv' /\ [Promise!ANext]_(Promise!bvars)
  BY StepPromised DEF Promised
<1>. QED
  BY <1>1, <1>2, ReleasesAreGood, PTL DEF Spec, KeepsPromise, Promise!ASpec

-----------------------------------------------------------------------------
(* What keeps a service from becoming free.  A release in progress has its *)
(* job, as long as there was no crash.                                     *)
Uncrashed == faults["crash"] = 0
AttendedInv == Uncrashed => ~Stranded

LEMMA CrashesCount ==
    ASSUME FaultsTyped, NEW k \in Kind, Fault(k), Uncrashed'
    PROVE  Uncrashed /\ k # "crash"
<1>1. faults["crash"] \in Nat
  BY DEF FaultsTyped, Kind
<1>. QED
  BY <1>1 DEF Fault, FaultsTyped, Uncrashed, Kind

LEMMA SaveIsNoCrash ==
    ASSUME FaultsTyped, NEW s, NEW ch, SaveSlots(s, ch), Uncrashed' PROVE Uncrashed
  BY CrashesCount DEF SaveSlots, Kind, Uncrashed

(* A step that begins no release and gives up no job.                      *)
LEMMA JobAttends ==
    ASSUME AttendedInv, Uncrashed' => Uncrashed,
           \/ job'.pc # "none"
           \/ job' = job /\ \A r \in Release : Busy(r)' => Busy(r)
           \/ \A r \in Release : ~Busy(r)'
    PROVE  AttendedInv'
<1>1. NoJob.pc = "none"
  BY DEF NoJob
<1>. QED
  BY <1>1 DEF AttendedInv, Stranded, FindInProgress

(* The two steps of the pipeline that end its chain end the release.       *)
LEMMA LastStepAttends ==
    ASSUME ReleaseInv, AttendedInv, RegisterReady \/ FailRelease PROVE AttendedInv'
<1>1. job.pc \in {"run", "act"}
  BY DEF RegisterReady, FailRelease
<1>2. /\ FaultsTyped /\ row \in [Release -> Row] /\ job.rel \in Release
      /\ job.snap \in Row /\ \A q \in Release : Busy(q) => q = job.rel
  BY <1>1, RunningJob DEF RowsTyped
<1>3. PICK y : /\ row' = [row EXCEPT ![job.rel] = y]
               /\ \/ y = [job.snap EXCEPT !.status = "ready", !.readyAt = TRUE]
                  \/ y = [job.snap EXCEPT !.status = "failed"]
  BY DEF RegisterReady, FailRelease, Write
<1>4. y.status \notin InProgress
  BY <1>2, <1>3 DEF Row, InProgress
<1>5. \A q \in Release : ~Busy(q)'
  BY <1>2, <1>3, <1>4 DEF Busy
<1>6. Uncrashed' => Uncrashed
  BY <1>2, SaveIsNoCrash DEF RegisterReady, FailRelease, Uncrashed
<1>. QED
  BY <1>5, <1>6, JobAttends

LEMMA StepAttends ==
    ASSUME ReleaseInv, AttendedInv, Step PROVE AttendedInv'
<1>1. FaultsTyped /\ job \in JobState
  BY TypeParts DEF ReleaseInv
<1>2. NextJob.pc = "queued"
  BY DEF NextJob, NoJob
<1>3. CASE Enqueue \/ Poll \/ Advance \/ StartDeploy \/ Bump
  <2>1. job'.pc # "none"
    BY <1>2, <1>3 DEF Enqueue, Poll, Advance, StartDeploy, Bump, Wait
  <2>2. Uncrashed' => Uncrashed
    BY <1>1, <1>3, SaveIsNoCrash DEF Enqueue, Poll, Advance, StartDeploy, Bump, Uncrashed
  <2>. QED
    BY <2>1, <2>2, JobAttends
<1>4. CASE Begin
  <2>1. Busy(job.rel)
    BY <1>4 DEF Begin, ReleaseInv, JobInv
  <2>2. job'.pc = "run"
    BY <1>1, <1>4, <2>1 DEF Begin, JobState
  <2>. QED
    BY <1>4, <2>2, JobAttends DEF Begin, Uncrashed
<1>5. CASE Look
  <2>1. job'.pc = "act"
    BY <1>1, <1>5 DEF Look, JobState
  <2>. QED
    BY <1>5, <2>1, JobAttends DEF Look, Uncrashed
<1>. QED
  BY <1>3, <1>4, <1>5, LastStepAttends DEF Step

(* Who begins a release enqueues its job.                                  *)
LEMMA AcceptAttends ==
    ASSUME ReleaseInv, AttendedInv, Publish \/ \E r \in Release : Redeploy(r)
    PROVE  AttendedInv'
<1>1. FaultsTyped
  BY TypeParts DEF ReleaseInv
<1>2. PICK r \in Release : Accept(r)
  BY DEF Publish, Redeploy
<1>3. job'.pc = "accepted"
  BY <1>2 DEF Accept, NoJob
<1>4. Uncrashed' => Uncrashed
  BY <1>1, SaveIsNoCrash DEF Publish, Redeploy, Uncrashed
<1>. QED
  BY <1>3, <1>4, JobAttends

(* What else writes a release writes one that is not in progress.          *)
LEMMA OfflineAttends ==
    ASSUME ReleaseInv, AttendedInv, NEW p \in Slot, OfflineInScope(p), UNCHANGED job
    PROVE  AttendedInv'
<1>1. FaultsTyped /\ row \in [Release -> Row]
  BY TypeParts DEF ReleaseInv, RowsTyped
<1>2. row' = row \/ row' = [row EXCEPT ![slot[p].rel].status = "offline"]
  BY DEF OfflineInScope
<1>3. \A q \in Release : Busy(q)' => Busy(q)
  BY <1>1, <1>2 DEF Busy, Row, InProgress
<1>4. Uncrashed' => Uncrashed
  BY <1>1, SaveIsNoCrash DEF OfflineInScope
<1>. QED
  BY <1>3, <1>4, JobAttends

LEMMA OthersAttend ==
    ASSUME ReleaseInv, AttendedInv,
           \/ TakeOffline \/ SwitchTraffic \/ Conclude
           \/ \E a \in {"restart", "delete"}, p \in Slot : Execute(a, p)
           \/ \E p \in Slot : SlotFailed(p)
    PROVE  AttendedInv'
<1>1. FaultsTyped /\ active \in Slot /\ op.slot \in Slot
  BY TypeParts DEF ReleaseInv, OpTyped
<1>2. UNCHANGED job /\ Standby \in Slot
  BY <1>1, StandbyIsOther
     DEF TakeOffline, SwitchTraffic, Conclude, Execute, SlotFailed, pipeVars
<1>3. ASSUME UNCHANGED row, Uncrashed' => Uncrashed PROVE AttendedInv'
  BY <1>2, <1>3, JobAttends DEF Busy
<1>4. CASE \E p \in Slot : OfflineInScope(p)
  BY <1>2, <1>4, OfflineAttends
<1>5. CASE ~\E p \in Slot : OfflineInScope(p)
  <2>1. UNCHANGED row
    BY <1>1, <1>2, <1>5 DEF TakeOffline, SwitchTraffic, Conclude, Execute, SlotFailed
  <2>2. UNCHANGED faults \/ \E s, ch : SaveSlots(s, ch)
    BY <1>1, <1>2, <1>5 DEF TakeOffline, SwitchTraffic, Conclude, Execute, SlotFailed
  <2>. QED
    BY <1>1, <1>3, <2>1, <2>2, SaveIsNoCrash DEF Uncrashed
<1>. QED
  BY <1>4, <1>5

LEMMA HandoffAttends ==
    ASSUME ReleaseInv, AttendedInv,
           \/ BeginHandoff \/ LeaseEnds
           \/ \E w \in Worker : \/ Claim(w) \/ Fenced(w) \/ Stay(w) \/ PrepareAgain(w)
                                \/ Progress(w) \/ HandoffCrash(w)
    PROVE  AttendedInv'
<1>1. FaultsTyped
  BY TypeParts DEF ReleaseInv
<1>2. UNCHANGED <<row, job>>
  BY DEF BeginHandoff, LeaseEnds, Claim, Fenced, Stay, PrepareAgain, Progress, HandoffCrash,
     Freeze, Prepare, CommitRoute, CompleteHandoff, pipeVars
<1>3. UNCHANGED faults \/ Fault("crash") \/ \E s, ch : SaveSlots(s, ch)
  BY DEF BeginHandoff, LeaseEnds, Claim, Fenced, Stay, PrepareAgain, Progress, HandoffCrash,
     Freeze, Prepare, CommitRoute, CompleteHandoff
<1>4. Uncrashed' => Uncrashed
  BY <1>1, <1>3, CrashesCount, SaveIsNoCrash DEF Uncrashed, Kind
<1>. QED
  BY <1>2, <1>4, JobAttends DEF Busy

LEMMA NextAttends ==
    ASSUME ReleaseInv, AttendedInv, [Next]_vars PROVE AttendedInv'
<1>1. FaultsTyped
  BY TypeParts DEF ReleaseInv
<1>2. CASE UNCHANGED <<row, job, faults>>
  BY <1>2, JobAttends DEF Busy, Uncrashed
<1>3. CASE LoseEnqueue \/ Crash
  <2>1. ~Uncrashed'
    BY <1>1, <1>3, CrashesCount DEF LoseEnqueue, Crash, Kind
  <2>. QED
    BY <2>1 DEF AttendedInv
<1>4. ASSUME UNCHANGED vars \/ BecomeLate \/ Resync \/ Observe PROVE UNCHANGED <<row, job, faults>>
  BY <1>4 DEF BecomeLate, Resync, Observe, vars, pipeVars
<1>5. ASSUME NEW p \in Slot, Apply(p) \/ RollOut(p) \/ Remove(p) \/ CannotBuild(p)
      PROVE  UNCHANGED <<row, job, faults>>
  BY <1>5 DEF Apply, RollOut, Remove, CannotBuild, pipeVars
<1>. QED
  BY <1>2, <1>3, <1>4, <1>5, StepAttends, AcceptAttends, OthersAttend, HandoffAttends DEF Next

(* A release in progress loses its job only to a crash, of a process or of *)
(* a step: in no order of steps, reports, maintenance and lost projections *)
(* is it left behind otherwise.                                            *)
THEOREM OnlyCrashesStrand == Spec => [](faults["crash"] = 0 => ~Stranded)
<1>1. Init => AttendedInv
  BY DEF Init, AttendedInv, Stranded, FindInProgress, Busy, NoRow, InProgress
<1>2. ReleaseInv /\ AttendedInv /\ [Next]_vars => AttendedInv'
  BY NextAttends
<1>3. AttendedInv => (faults["crash"] = 0 => ~Stranded)
  BY DEF AttendedInv, Uncrashed
<1>. QED
  BY <1>1, <1>2, <1>3, ReleasesAreGood, PTL DEF Spec

-----------------------------------------------------------------------------
(* Until its traffic moves a handoff finds on the slots the two releases   *)
(* it was asked for.                                                       *)
NamesInv ==
    handoff # NoHandoff /\ handoff.stage # "activating" =>
        handoff.target = Spare /\ handoff.from = Live

LEMMA NamesStay ==
    ASSUME NamesInv, UNCHANGED <<active, handoff>>, active \in Slot,
           RelsKept \/ handoff = NoHandoff
    PROVE  NamesInv'
<1>1. CASE handoff = NoHandoff
  BY <1>1 DEF NamesInv
<1>2. CASE RelsKept
  BY <1>2, StandbyIsOther DEF NamesInv, RelsKept, Live, Spare, Standby
<1>. QED
  BY <1>1, <1>2

LEMMA PipelineNames ==
    ASSUME ReleaseInv, NamesInv, Step \/ Crash \/ LoseEnqueue PROVE NamesInv'
<1>1. active \in Slot /\ UNCHANGED <<active, handoff>>
  BY DEF ReleaseInv, TypeOK, Step, Enqueue, Begin, Poll, Advance, StartDeploy, Look, Bump,
     RegisterReady, FailRelease, Crash, LoseEnqueue, handVars
<1>2. job.pc # "none"
  BY DEF Step, Enqueue, Begin, Poll, Advance, StartDeploy, Look, Bump,
     RegisterReady, FailRelease, Crash, LoseEnqueue
<1>3. handoff = NoHandoff
  BY <1>2 DEF ReleaseInv, JobInv, OwnerInv
<1>. QED
  BY <1>1, <1>3, NamesStay

LEMMA OthersName ==
    ASSUME ReleaseInv, NamesInv,
           \/ Publish \/ TakeOffline \/ \E r \in Release : Redeploy(r)
           \/ \E a \in {"restart", "delete"}, p \in Slot : Execute(a, p)
           \/ Conclude \/ \E p \in Slot : SlotFailed(p)
    PROVE  NamesInv'
<1>1. active \in Slot /\ UNCHANGED <<active, handoff>>
  BY DEF ReleaseInv, TypeOK, Publish, TakeOffline, Redeploy, Execute, Conclude, SlotFailed,
     handVars
<1>2. CASE \E p \in Slot : SlotFailed(p)
  <2>1. SlotsTyped /\ FaultsTyped
    BY TypeParts DEF ReleaseInv
  <2>2. RelsKept
    BY <1>2, <2>1 DEF SlotFailed, SaveSlots, RelsKept, SlotsTyped, SlotRow
  <2>. QED
    BY <1>1, <2>2, NamesStay
<1>3. CASE Conclude
  BY <1>1, <1>3, NamesStay DEF Conclude, ReleaseInv, OwnerInv
<1>4. CASE Quiet
  BY <1>1, <1>4, NamesStay DEF Quiet
<1>. QED
  BY <1>2, <1>3, <1>4 DEF Publish, TakeOffline, Redeploy, Execute

LEMMA TrafficNames ==
    ASSUME ReleaseInv, NamesInv, SwitchTraffic \/ BeginHandoff PROVE NamesInv'
<1>1. CASE SwitchTraffic
  BY <1>1, QuietFacts DEF SwitchTraffic, CanSwitch, NamesInv, handVars
<1>2. CASE BeginHandoff
  BY <1>2 DEF BeginHandoff, NamesInv, Live, Spare, Standby
<1>. QED
  BY <1>1, <1>2

LEMMA SettleNames ==
    ASSUME ReleaseInv, NamesInv, NEW w \in Worker, NEW from \in Stage,
           NEW to \in Stage \cup {"none"}, SettleTo(w, from, to),
           \/ to \in {"activating", "none"}
           \/ UNCHANGED <<active, slot>> /\ from # "activating"
    PROVE  NamesInv'
<1>1. /\ handoff # NoHandoff /\ handoff.stage = from /\ handoff \in Handoff
      /\ handoff'.stage = to /\ (to = "none" => handoff' = NoHandoff)
  BY SettleMoves
<1>2. CASE to \in {"activating", "none"}
  BY <1>1, <1>2 DEF NamesInv
<1>3. CASE to # "none" /\ UNCHANGED <<active, slot>> /\ from # "activating"
  <2>1. handoff'.target = handoff.target /\ handoff'.from = handoff.from
    BY <1>1, <1>3 DEF SettleTo, Handoff
  <2>. QED
    BY <1>1, <1>3, <2>1 DEF NamesInv, Live, Spare, Standby
<1>. QED
  BY <1>2, <1>3

LEMMA WorkerNames ==
    ASSUME ReleaseInv, NamesInv, NEW w \in Worker,
           Claim(w) \/ Fenced(w) \/ Stay(w) \/ PrepareAgain(w) \/ Progress(w)
           \/ HandoffCrash(w)
    PROVE  NamesInv'
<1>1. CASE Claim(w) \/ Fenced(w) \/ HandoffCrash(w)
  BY <1>1, NamesStay DEF Claim, Fenced, HandoffCrash, ReleaseInv, TypeOK, RelsKept
<1>2. CASE Stay(w)
  BY <1>2, SettleNames DEF Stay
<1>3. CASE PrepareAgain(w) \/ Freeze(w) \/ Prepare(w)
  BY <1>3, SettleNames DEF PrepareAgain, Freeze, Prepare, Stage
<1>4. CASE CommitRoute(w) \/ CompleteHandoff(w)
  BY <1>4, SettleNames DEF CommitRoute, CompleteHandoff, Stage
<1>. QED
  BY <1>1, <1>2, <1>3, <1>4 DEF Progress

LEMMA NextNames == ASSUME ReleaseInv, NamesInv, [Next]_vars PROVE NamesInv'
<1>1. active \in Slot
  BY DEF ReleaseInv, TypeOK
<1>2. CASE UNCHANGED <<active, handoff, slot>>
  BY <1>1, <1>2, NamesStay DEF RelsKept
<1>3. ASSUME UNCHANGED vars \/ BecomeLate \/ Resync \/ Observe \/ LeaseEnds
      PROVE  UNCHANGED <<active, handoff, slot>>
  BY <1>3 DEF vars, BecomeLate, Resync, Observe, LeaseEnds, handVars
<1>4. ASSUME NEW p \in Slot, Apply(p) \/ RollOut(p) \/ Remove(p) \/ CannotBuild(p)
      PROVE  UNCHANGED <<active, handoff, slot>>
  BY <1>4 DEF Apply, RollOut, Remove, CannotBuild, handVars
<1>. QED
  BY <1>2, <1>3, <1>4, PipelineNames, OthersName, TrafficNames, WorkerNames DEF Next

(* What commitRoute looks for before it moves the traffic.                 *)
RouteIsOpen ==
    handoff.stage = "routing" =>
        /\ handoff.slot # active /\ slot[active].rel = handoff.from
        /\ slot[handoff.slot].rel = handoff.target /\ slot[handoff.slot].state = "ready"

(* A handoff never finds that it cannot move the traffic any more: the     *)
(* slot it leads to stays ready with its release, and the serving one with *)
(* its own, however long its workers take and whatever reports come late.  *)
(* The operation has no step that gives it up.                             *)
THEOREM RoutesStayOpen == Spec => []RouteIsOpen
<1>1. Init => NamesInv
  BY DEF Init, NamesInv
<1>2. ReleaseInv /\ NamesInv /\ [Next]_vars => NamesInv'
  BY NextNames
<1>3. Init => TrafficInv
  BY InitIsPromised
<1>4. ReleaseInv /\ TrafficInv /\ [Next]_vars => TrafficInv'
  BY StepPromised DEF Promised
<1>5. ReleaseInv /\ TrafficInv /\ NamesInv => RouteIsOpen
  BY StandbyIsOther
     DEF ReleaseInv, TypeOK, TrafficInv, NamesInv, RouteIsOpen, NoHandoff, Live, Spare, Able
<1>. QED
  BY <1>1, <1>2, <1>3, <1>4, <1>5, ReleasesAreGood, PTL DEF Spec
=============================================================================
