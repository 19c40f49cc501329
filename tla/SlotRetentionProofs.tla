------------------------- MODULE SlotRetentionProofs -------------------------
(***************************************************************************)
(* Proofs about module SlotRetention for every number of releases,         *)
(* replicas, gateways and policies, and for every bound: a version is not  *)
(* taken offline without notice, nor while somebody looks after it.        *)
(***************************************************************************)
EXTENDS SlotRetention, TLAPS

Retention == [kind : {"none", "pending", "rollback-target"}, since : Int, access : Int,
              until : Int, at : Int, for : Int]
Standby == [rel : Release \cup {None}, state : {"empty", "deploying", "ready", "failed"},
            ret : Retention, off : {"none", "manual", "idle", "rollback-expired"}]
Sweep == [pc : {"idle", "listed"}, now : Int, policy : Policies, side : BOOLEAN,
          rel : Release \cup {None}]

(* The shape of what TypeOK leaves out.                                    *)
Shapes ==
    /\ standby \in Standby
    /\ lastFrom \in Release \cup {None}
    /\ noted \in [Gateway -> Int]
    /\ sweep \in [Sweeper -> Sweep]
    /\ told \in [for : Int, at : Int, visit : Int]

(* A sweep under way began at most MaxLag ago, under an allowed policy.    *)
Recent(w) == w.now \in 0..now /\ now - w.now <= MaxLag /\ Allowed(w.policy)
SweepsAreRecent == \A s \in Sweeper : sweep[s] # Idle => Recent(sweep[s])

(* Only an empty slot has no release, or was taken offline.                *)
SlotsAreFilled == standby.state # "empty" => standby.rel # None /\ standby.off = "none"

(* What counts down has a workload and a kind.                             *)
CountsWorkload ==
    standby.ret # NoRetention =>
        /\ HasWorkload /\ standby.ret.since \in Nat
        /\ standby.ret.kind \in {"pending", "rollback-target"}

(* The reminder a countdown remembers is the one that was sent.            *)
RemindersWereSent ==
    standby.ret.at # Never =>
        told.for = standby.ret.for /\ told.at <= standby.ret.at + MaxLag

(* A visit that a gateway has noted is in the countdown, unless it came    *)
(* before the countdown did.                                               *)
Seen(t) == t <= standby.ret.since + MaxLag \/ t <= standby.ret.access
NotedIsSeen ==
    /\ \A g \in Gateway : noted[g] <= now
    /\ standby.ret # NoRetention => \A g \in Gateway : Seen(noted[g])

(* And the last visit was less than an interval after one that is.         *)
VisitsAreSeen ==
    standby.ret # NoRetention /\ told.visit # Never => Seen(told.visit - Interval + 1)

RetentionInv ==
    /\ TypeOK /\ Shapes
    /\ SweepsAreRecent /\ SlotsAreFilled /\ CountsWorkload
    /\ RemindersWereSent /\ NotedIsSeen /\ VisitsAreSeen

-----------------------------------------------------------------------------
(* Of a few times there is a latest.                                       *)
LEMMA MaxOfTwo ==
    ASSUME NEW a \in Int, NEW b \in Int
    PROVE  Max({a, b}) \in Int /\ Max({a, b}) >= a /\ Max({a, b}) >= b
<1>1. \E x \in {a, b} : \A y \in {a, b} : x >= y
  <2>1. CASE a >= b
    BY <2>1
  <2>2. CASE b >= a
    BY <2>2
  <2>. QED
    BY <2>1, <2>2
<1>. QED
  BY <1>1 DEF Max

LEMMA MaxOfThree ==
    ASSUME NEW a \in Int, NEW b \in Int, NEW c \in Int
    PROVE  /\ Max({a, b, c}) \in Int
           /\ Max({a, b, c}) >= a /\ Max({a, b, c}) >= b /\ Max({a, b, c}) >= c
<1>1. \E x \in {a, b, c} : \A y \in {a, b, c} : x >= y
  <2>1. CASE a >= b /\ a >= c
    BY <2>1
  <2>2. CASE b >= a /\ b >= c
    BY <2>2
  <2>3. CASE c >= a /\ c >= b
    BY <2>3
  <2>. QED
    BY <2>1, <2>2, <2>3
<1>. QED
  BY <1>1 DEF Max

(* A deadline is no earlier than what was promised, nor than a period      *)
(* after what it is counted from.                                          *)
LEMMA DeadlineIsLate ==
    ASSUME NEW ret \in Retention, NEW pol \in Policies
    PROVE  /\ Deadline(ret, pol) \in Int
           /\ Deadline(ret, pol) >= ret.until
           /\ ret.kind = "pending" =>
                 /\ Deadline(ret, pol) >= ret.since + pol.idle
                 /\ Deadline(ret, pol) >= ret.access + pol.idle
<1>. DEFINE period == Period(ret.kind, pol)
<1>1. /\ period \in Int /\ ret.since \in Int /\ ret.access \in Int /\ ret.until \in Int
      /\ ret.kind = "pending" => period = pol.idle
  BY RetentionAssumption DEF Retention, Period
<1>. DEFINE a == ret.since + period
<1>. DEFINE b == ret.access + period
<1>. DEFINE c == ret.until
<1>4. a \in Int /\ b \in Int /\ c \in Int
  BY <1>1
<1>5. ret.kind = "pending" => a = ret.since + pol.idle /\ b = ret.access + pol.idle
  BY <1>1
<1>2. CASE ret.kind = "pending"
  <2>1. {t + period : t \in {ret.since, ret.access}} \cup {ret.until} = {a, b, c}
    OBVIOUS
  <2>2. Deadline(ret, pol) = Max({a, b, c})
    BY <1>2, <2>1 DEF Deadline
  <2>. HIDE DEF a, b, c, period
  <2>3. /\ Max({a, b, c}) \in Int
        /\ Max({a, b, c}) >= a /\ Max({a, b, c}) >= b /\ Max({a, b, c}) >= c
    BY <1>4, MaxOfThree
  <2>. QED
    BY <1>2, <1>5, <2>2, <2>3 DEF c
<1>3. CASE ret.kind # "pending"
  <2>1. {t + period : t \in {ret.since}} \cup {ret.until} = {a, c}
    OBVIOUS
  <2>2. Deadline(ret, pol) = Max({a, c})
    BY <1>3, <2>1 DEF Deadline
  <2>. HIDE DEF a, b, c, period
  <2>3. Max({a, c}) \in Int /\ Max({a, c}) >= c
    BY <1>4, MaxOfTwo
  <2>. QED
    BY <1>3, <2>2, <2>3 DEF c
<1>. QED
  BY <1>2, <1>3

(* What retentionStep takes offline was reminded of its deadline, both are *)
(* over, and the reminder by the lead at least.                            *)
LEMMA OfflineIsDue ==
    ASSUME NEW ret \in Retention, NEW pol \in Policies, NEW at \in Int,
           RetentionStep(ret, pol, at) = "offline"
    PROVE  /\ ret.at # Never /\ ret.for = Deadline(ret, pol)
           /\ at >= Deadline(ret, pol) /\ at >= ret.at + pol.lead
<1>. DEFINE deadline == Deadline(ret, pol)
<1>1. /\ ret.at # Never /\ ret.for = deadline
      /\ at >= Max({deadline, ret.at + pol.lead})
  BY DEF RetentionStep
<1>2. deadline \in Int /\ ret.at + pol.lead \in Int
  BY DeadlineIsLate, RetentionAssumption DEF Retention
<1>. HIDE DEF deadline
<1>3. /\ Max({deadline, ret.at + pol.lead}) \in Int
      /\ Max({deadline, ret.at + pol.lead}) >= deadline
      /\ Max({deadline, ret.at + pol.lead}) >= ret.at + pol.lead
  BY <1>2, MaxOfTwo
<1>. QED
  BY <1>1, <1>2, <1>3 DEF deadline

-----------------------------------------------------------------------------
(* The values things begin with have the right shape.                      *)
LEMMA BeginningsHaveShape ==
    /\ NoRetention \in Retention /\ NoRetention.at = Never
    /\ Idle \in Sweep /\ Untold \in [for : Int, at : Int, visit : Int]
    /\ \A kind \in {"pending", "rollback-target"}, at \in Int : StartRetention(kind, at) \in Retention
<1>1. Default \in Policies
  BY RetentionAssumption
<1>2. NoRetention \in Retention /\ NoRetention.at = Never
  BY DEF NoRetention, Retention, Never
<1>3. Idle \in Sweep
  BY <1>1 DEF Idle, Sweep, Never
<1>4. Untold \in [for : Int, at : Int, visit : Int]
  BY DEF Untold, Never
<1>5. ASSUME NEW kind \in {"pending", "rollback-target"}, NEW at \in Int
      PROVE  StartRetention(kind, at) \in Retention
  <2>1. StartRetention(kind, at) = [kind |-> kind, since |-> at, access |-> Never,
                                    until |-> Never, at |-> Never, for |-> Never]
    <3>1. PICK w : w = [NoRetention EXCEPT !.kind = kind]
      OBVIOUS
    <3>2. w = [kind |-> kind, since |-> Never, access |-> Never,
               until |-> Never, at |-> Never, for |-> Never]
      BY <3>1 DEF NoRetention
    <3>3. StartRetention(kind, at) = [w EXCEPT !.since = at]
      BY Zenon, <3>1 DEF StartRetention
    <3>. QED
      BY <3>2, <3>3
  <2>2. Never \in Int
    BY DEF Never
  <2>. QED
    BY <2>1, <2>2 DEF Retention
<1>. QED
  BY <1>2, <1>3, <1>4, <1>5

LEMMA InitIsGood == Init => RetentionInv
<1>. SUFFICES ASSUME Init PROVE RetentionInv
  OBVIOUS
<1>1. /\ now = 0 /\ policy = Default /\ active = FALSE /\ live = First /\ swept = 0
      /\ acts = 0 /\ lastFrom \in Release \cup {None} /\ noted = [g \in Gateway |-> Never]
      /\ sweep = [s \in Sweeper |-> Idle] /\ told = Untold
  BY Zenon DEF Init
<1>2. standby = Empty \/ \E r \in Release \ {First} :
                            standby = [Empty EXCEPT !.rel = r, !.state = "ready"]
  BY Zenon DEF Init
<1>3. /\ standby \in Standby /\ standby.ret = NoRetention
      /\ standby.rel \in (Release \ {live}) \cup {None}
      /\ SlotsAreFilled
  <2>1. CASE standby = Empty
    BY <2>1, BeginningsHaveShape DEF Standby, Empty, SlotsAreFilled
  <2>2. CASE standby # Empty
    <3>1. PICK r \in Release \ {First} : standby = [Empty EXCEPT !.rel = r, !.state = "ready"]
      BY <1>2, <2>2
    <3>2. standby = [rel |-> r, state |-> "ready", ret |-> NoRetention, off |-> "none"]
      BY <3>1 DEF Empty
    <3>. QED
      BY <1>1, <3>2, BeginningsHaveShape, RetentionAssumption DEF Standby, SlotsAreFilled
  <2>. QED
    BY <2>1, <2>2
<1>4. TypeOK
  <2>1. live \in Release /\ policy \in Policies /\ Allowed(policy)
    BY <1>1, RetentionAssumption
  <2>2. now \in 0..MaxTime /\ swept \in 0..MaxTime /\ acts \in 0..MaxActs
    BY <1>1, RetentionAssumption
  <2>. QED
    BY <1>1, <1>3, <2>1, <2>2 DEF TypeOK
<1>5. Shapes
  BY <1>1, <1>3, BeginningsHaveShape DEF Shapes, Never
<1>6. SweepsAreRecent
  BY <1>1 DEF SweepsAreRecent
<1>7. CountsWorkload /\ RemindersWereSent /\ VisitsAreSeen
  BY <1>3, BeginningsHaveShape DEF CountsWorkload, RemindersWereSent, VisitsAreSeen
<1>8. NotedIsSeen
  BY <1>1, <1>3 DEF NotedIsSeen, Never
<1>. QED
  BY <1>3, <1>4, <1>5, <1>6, <1>7, <1>8 DEF RetentionInv

(* A slot without a countdown satisfies what is said of countdowns.        *)
LEMMA NothingCounts ==
    ASSUME RetentionInv, standby'.ret = NoRetention, UNCHANGED <<now, noted>>
    PROVE  CountsWorkload' /\ RemindersWereSent' /\ NotedIsSeen' /\ VisitsAreSeen'
BY DEF RetentionInv, CountsWorkload, RemindersWereSent, NotedIsSeen, VisitsAreSeen,
   NoRetention, Never

(* So does a countdown that has just begun, be it by the clock of a sweep. *)
LEMMA CountdownBegins ==
    ASSUME RetentionInv, UNCHANGED <<now, noted>>, told' = Untold,
           standby'.rel # None, standby'.state # "empty",
           NEW kind \in {"pending", "rollback-target"}, NEW at \in 0..now, now - at <= MaxLag,
           standby'.ret = StartRetention(kind, at)
    PROVE  CountsWorkload' /\ RemindersWereSent' /\ NotedIsSeen' /\ VisitsAreSeen'
<1>1. /\ standby'.ret.kind = kind /\ standby'.ret.since = at
      /\ standby'.ret.at = Never /\ standby'.ret.access = Never
  BY DEF StartRetention, NoRetention
<1>2. CountsWorkload'
  BY <1>1 DEF CountsWorkload, HasWorkload
<1>3. RemindersWereSent'
  BY <1>1 DEF RemindersWereSent
<1>4. \A g \in Gateway : noted[g] \in Int /\ noted[g] <= now
  BY DEF RetentionInv, Shapes, NotedIsSeen
<1>5. now \in Int /\ MaxLag \in Int
  BY RetentionAssumption DEF RetentionInv, TypeOK
<1>6. \A g \in Gateway : noted[g] <= at + MaxLag
  BY <1>4, <1>5
<1>7. NotedIsSeen'
  BY <1>1, <1>4, <1>6 DEF NotedIsSeen, Seen
<1>8. VisitsAreSeen'
  BY DEF VisitsAreSeen, Untold
<1>. QED
  BY <1>2, <1>3, <1>7, <1>8

(* A slot without a countdown has the shape of one.                        *)
LEMMA WithoutCountdown ==
    ASSUME NEW rel \in Release \cup {None}, NEW state \in {"empty", "deploying"},
           NEW off \in {"none", "manual", "idle", "rollback-expired"}, NEW new,
           new = [rel |-> rel, state |-> state, ret |-> NoRetention, off |-> off]
    PROVE  /\ new \in Standby /\ new.ret = NoRetention
           /\ new.rel = rel /\ new.state = state /\ new.off = off
BY BeginningsHaveShape DEF Standby

LEMMA DeployKeeps ==
    ASSUME RetentionInv, NEW r \in Release, Deploy(r)
    PROVE  RetentionInv'
<1>. USE RetentionAssumption DEF RetentionInv, Deploy, Act, inputs
<1>1. standby' = [rel |-> r, state |-> "deploying", ret |-> NoRetention, off |-> "none"]
  BY DEF Empty
<1>6. r \in Release \ {live}
  BY Zenon
<1>2. /\ standby' \in Standby /\ standby'.ret = NoRetention
      /\ standby'.rel = r /\ r \in Release \ {live} /\ standby'.off = "none"
  <2>1. PICK new : new = standby'
    OBVIOUS
  <2>2. new \in Standby /\ new.ret = NoRetention /\ new.rel = r /\ new.off = "none"
    <3>. HIDE DEF Deploy, RetentionInv
    <3>1. r \in Release \cup {None}
      OBVIOUS
    <3>2. new = [rel |-> r, state |-> "deploying", ret |-> NoRetention, off |-> "none"]
      BY Zenon, <1>1, <2>1
    <3>. QED
      BY <3>1, <3>2, WithoutCountdown
  <2>. QED
    BY Zenon, <1>6, <2>1, <2>2
<1>3. TypeOK'
  BY <1>2 DEF TypeOK
<1>4. Shapes'
  BY <1>2 DEF Shapes, Untold, Never
<1>5. SweepsAreRecent' /\ SlotsAreFilled'
  BY <1>2 DEF SweepsAreRecent, Recent, SlotsAreFilled
<1>. QED
  BY <1>2, <1>3, <1>4, <1>5, NothingCounts

LEMMA TakeOfflineKeeps ==
    ASSUME RetentionInv, TakeOffline
    PROVE  RetentionInv'
<1>. USE RetentionAssumption DEF RetentionInv, TakeOffline, Act, inputs
<1>1. standby' = [rel |-> None, state |-> "empty", ret |-> NoRetention, off |-> "manual"]
  BY DEF Emptied, Empty
<1>2. standby' \in Standby /\ standby'.ret = NoRetention /\ standby'.rel = None
  BY <1>1, BeginningsHaveShape DEF Standby
<1>3. TypeOK'
  BY <1>2 DEF TypeOK
<1>4. Shapes'
  BY <1>2 DEF Shapes, Untold, Never
<1>5. SweepsAreRecent' /\ SlotsAreFilled'
  BY <1>1 DEF SweepsAreRecent, Recent, SlotsAreFilled
<1>. QED
  BY <1>2, <1>3, <1>4, <1>5, NothingCounts

LEMMA RegisterReadyKeeps ==
    ASSUME RetentionInv, RegisterReady
    PROVE  RetentionInv'
<1>. USE RetentionAssumption DEF RetentionInv, RegisterReady, InProgress, inputs
<1>1. now \in 0..now /\ now - now <= MaxLag
  BY DEF TypeOK
<1>2. StartRetention("pending", now) \in Retention
  BY <1>1, BeginningsHaveShape
<1>3. standby.rel # None
  BY DEF SlotsAreFilled
<1>4. /\ standby' \in Standby /\ standby'.ret = StartRetention("pending", now)
      /\ standby'.rel = standby.rel /\ standby'.state = "ready"
  BY <1>2 DEF Shapes, Standby
<1>5. TypeOK'
  BY <1>4 DEF TypeOK
<1>6. Shapes'
  BY <1>4 DEF Shapes, Untold, Never
<1>7. SweepsAreRecent' /\ SlotsAreFilled'
  BY <1>3, <1>4 DEF SweepsAreRecent, Recent, SlotsAreFilled
<1>8. CountsWorkload' /\ RemindersWereSent' /\ NotedIsSeen' /\ VisitsAreSeen'
  BY <1>1, <1>3, <1>4, CountdownBegins
<1>. QED
  BY <1>5, <1>6, <1>7, <1>8

LEMMA DeployFailsKeeps ==
    ASSUME RetentionInv, DeployFails
    PROVE  RetentionInv'
<1>. USE RetentionAssumption DEF RetentionInv, DeployFails, InProgress, inputs
<1>1. /\ standby' \in Standby /\ standby'.ret = standby.ret
      /\ standby'.rel = standby.rel /\ standby'.state = "failed"
  BY DEF Shapes, Standby
<1>2. TypeOK' /\ Shapes'
  BY <1>1 DEF TypeOK, Shapes
<1>3. SweepsAreRecent' /\ SlotsAreFilled'
  BY <1>1 DEF SweepsAreRecent, Recent, SlotsAreFilled
<1>4. CountsWorkload' /\ RemindersWereSent' /\ NotedIsSeen' /\ VisitsAreSeen'
  BY <1>1 DEF CountsWorkload, HasWorkload, RemindersWereSent, NotedIsSeen, VisitsAreSeen, Seen
<1>. QED
  BY <1>2, <1>3, <1>4

LEMMA SwitchTrafficKeeps ==
    ASSUME RetentionInv, SwitchTraffic
    PROVE  RetentionInv'
<1>. USE RetentionAssumption DEF RetentionInv, SwitchTraffic, Act, inputs
<1>1. now \in 0..now /\ now - now <= MaxLag
  BY DEF TypeOK
<1>2. StartRetention("rollback-target", now) \in Retention
  BY <1>1, BeginningsHaveShape
<1>3. live \in Release /\ live # None /\ standby.rel \in Release \ {live}
  BY DEF TypeOK, SlotsAreFilled
<1>4. /\ standby' \in Standby /\ standby'.ret = StartRetention("rollback-target", now)
      /\ standby'.rel = live /\ standby'.state = "ready"
  BY <1>2, <1>3 DEF Standby
<1>5. TypeOK'
  BY <1>3, <1>4 DEF TypeOK
<1>6. Shapes'
  BY <1>3, <1>4 DEF Shapes, Untold, Never
<1>7. SweepsAreRecent' /\ SlotsAreFilled'
  BY <1>3, <1>4 DEF SweepsAreRecent, Recent, SlotsAreFilled
<1>8. CountsWorkload' /\ RemindersWereSent' /\ NotedIsSeen' /\ VisitsAreSeen'
  BY <1>1, <1>3, <1>4, CountdownBegins
<1>. QED
  BY <1>5, <1>6, <1>7, <1>8

-----------------------------------------------------------------------------
(* A countdown that somebody visits at time at.                            *)
Visited(b, at) == [b EXCEPT !.ret.access = at]

LEMMA VisitedFields ==
    ASSUME NEW b \in Standby, NEW at \in Nat, b.ret # NoRetention, NEW new, new = Visited(b, at)
    PROVE  /\ new \in Standby /\ new.rel = b.rel /\ new.state = b.state /\ new.off = b.off
           /\ new.ret # NoRetention /\ new.ret.access = at
           /\ new.ret.kind = b.ret.kind /\ new.ret.since = b.ret.since
           /\ new.ret.at = b.ret.at /\ new.ret.for = b.ret.for
<1>1. PICK q : q = [b.ret EXCEPT !.access = at]
  OBVIOUS
<1>2. /\ q \in Retention /\ q.access = at /\ q.kind = b.ret.kind /\ q.since = b.ret.since
      /\ q.at = b.ret.at /\ q.for = b.ret.for
  BY <1>1 DEF Standby, Retention
<1>3. q # NoRetention
  BY <1>2 DEF NoRetention, Never
<1>4. new = [b EXCEPT !.ret = q]
  BY <1>1 DEF Visited
<1>. QED
  BY <1>2, <1>3, <1>4 DEF Standby

LEMMA VisitKeeps ==
    ASSUME RetentionInv, NEW g \in Gateway, Visit(g)
    PROVE  RetentionInv'
<1>. DEFINE fresh == noted[g] = Never \/ now - noted[g] >= Interval
<1>. DEFINE counts == standby.ret # NoRetention /\ HasWorkload
<1>1. /\ acts < MaxActs /\ acts' = acts + 1
      /\ noted' = IF fresh THEN [noted EXCEPT ![g] = now] ELSE noted
      /\ standby' = IF fresh /\ counts /\ standby.ret.access < now
                    THEN Visited(standby, now) ELSE standby
      /\ told' = IF counts THEN [told EXCEPT !.visit = now] ELSE told
      /\ UNCHANGED <<now, active, live, lastFrom, sweep, swept, policy>>
  BY Zenon DEF Visit, Act, Visited
<1>. HIDE DEF fresh, counts
<1>2. /\ now \in Nat /\ MaxLag \in Nat /\ Interval \in Nat \ {0}
      /\ standby \in Standby /\ standby.ret.access \in Int
      /\ noted \in [Gateway -> Int] /\ noted[g] \in Int
      /\ told \in [for : Int, at : Int, visit : Int] /\ told.visit \in Int
      /\ acts \in Nat /\ MaxActs \in Nat
  BY RetentionAssumption DEF RetentionInv, TypeOK, Shapes, Standby, Retention
<1>3. counts <=> standby.ret # NoRetention
  BY DEF counts, RetentionInv, CountsWorkload
<1>4. standby.ret # NoRetention => standby.ret.since \in Nat
  BY DEF RetentionInv, CountsWorkload
<1>5. /\ standby' \in Standby /\ standby'.rel = standby.rel
      /\ standby'.state = standby.state /\ standby'.off = standby.off
      /\ (standby'.ret # NoRetention <=> standby.ret # NoRetention)
      /\ standby'.ret.kind = standby.ret.kind /\ standby'.ret.since = standby.ret.since
      /\ standby'.ret.at = standby.ret.at /\ standby'.ret.for = standby.ret.for
      /\ standby'.ret.access \in Int /\ standby'.ret.access >= standby.ret.access
      /\ fresh /\ counts => standby'.ret.access >= now
  <2>1. CASE fresh /\ counts /\ standby.ret.access < now
    <3>1. PICK new : new = Visited(standby, now)
      OBVIOUS
    <3>2. standby' = new
      BY <1>1, <2>1, <3>1
    <3>. QED
      BY <1>2, <1>3, <2>1, <3>1, <3>2, VisitedFields
  <2>2. CASE ~(fresh /\ counts /\ standby.ret.access < now)
    BY <1>1, <1>2, <2>2
  <2>. QED
    BY <2>1, <2>2
<1>6. /\ told' \in [for : Int, at : Int, visit : Int]
      /\ told'.for = told.for /\ told'.at = told.at
      /\ told'.visit = IF counts THEN now ELSE told.visit
  BY <1>1, <1>2
<1>7. /\ noted' \in [Gateway -> Int]
      /\ \A h \in Gateway : noted'[h] = noted[h] \/ (fresh /\ noted'[h] = now)
  BY <1>1, <1>2
<1>8. TypeOK'
  BY <1>1, <1>2, <1>5 DEF RetentionInv, TypeOK
<1>9. Shapes'
  BY <1>1, <1>5, <1>6, <1>7 DEF RetentionInv, Shapes
<1>10. SweepsAreRecent' /\ SlotsAreFilled'
  BY <1>1, <1>5 DEF RetentionInv, SweepsAreRecent, Recent, SlotsAreFilled
<1>11. CountsWorkload' /\ RemindersWereSent'
  BY <1>5, <1>6 DEF RetentionInv, CountsWorkload, HasWorkload, RemindersWereSent
<1>12. \A h \in Gateway : noted'[h] <= now
  BY <1>2, <1>7 DEF RetentionInv, NotedIsSeen
<1>13. ASSUME standby'.ret # NoRetention, NEW h \in Gateway PROVE Seen(noted[h])'
  <2>1. counts /\ Seen(noted[h]) /\ noted[h] \in Int
    BY <1>2, <1>3, <1>5, <1>13 DEF RetentionInv, NotedIsSeen
  <2>. QED
    BY <1>2, <1>4, <1>5, <1>7, <2>1, <1>3 DEF Seen
<1>14. NotedIsSeen'
  BY <1>1, <1>12, <1>13 DEF NotedIsSeen
<1>15. VisitsAreSeen'
  <2>. SUFFICES ASSUME standby'.ret # NoRetention PROVE Seen(told.visit - Interval + 1)'
    BY DEF VisitsAreSeen
  <2>1. told'.visit = now /\ counts
    BY <1>3, <1>5, <1>6
  <2>2. CASE fresh
    BY <1>2, <1>5, <2>1, <2>2 DEF Seen
  <2>3. CASE ~fresh
    <3>1. now - noted[g] < Interval
      BY <1>2, <2>3 DEF fresh
    <3>2. Seen(noted[g])
      BY <1>3, <2>1 DEF RetentionInv, NotedIsSeen
    <3>. QED
      BY <1>2, <1>3, <1>4, <1>5, <2>1, <3>1, <3>2 DEF Seen
  <2>. QED
    BY <2>2, <2>3
<1>. QED
  BY <1>8, <1>9, <1>10, <1>11, <1>14, <1>15 DEF RetentionInv

LEMMA PostponeKeeps ==
    ASSUME RetentionInv, Postpone
    PROVE  RetentionInv'
<1>1. /\ acts < MaxActs /\ acts' = acts + 1 /\ standby.ret # NoRetention
      /\ standby' = [standby EXCEPT !.ret = PostponeRetention(standby.ret, policy)]
      /\ told' = [told EXCEPT !.for = Never, !.at = Never]
      /\ UNCHANGED <<now, active, live, lastFrom, sweep, swept, noted, policy>>
  BY Zenon DEF Postpone, Act
<1>2. standby \in Standby /\ standby.ret \in Retention /\ policy \in Policies
  BY DEF RetentionInv, TypeOK, Shapes, Standby
<1>3. PICK q : q = PostponeRetention(standby.ret, policy)
  OBVIOUS
<1>4. PICK u : u = Deadline(standby.ret, policy) + Period(standby.ret.kind, policy)
  OBVIOUS
<1>5. u \in Int
  BY <1>2, <1>4, DeadlineIsLate, RetentionAssumption DEF Period
<1>6. PICK v : v = [standby.ret EXCEPT !.until = u, !.at = Never]
  OBVIOUS
<1>7. q = [v EXCEPT !.for = Never]
  BY Zenon, <1>3, <1>4, <1>6 DEF PostponeRetention
<1>8. PICK w : w = [standby.ret EXCEPT !.until = u]
  OBVIOUS
<1>9. v = [w EXCEPT !.at = Never]
  BY Zenon, <1>6, <1>8
<1>10. Never \in Int
  BY DEF Never
<1>11. /\ w \in Retention /\ w.kind = standby.ret.kind /\ w.since = standby.ret.since
       /\ w.access = standby.ret.access
  BY <1>2, <1>5, <1>8 DEF Retention
<1>12. /\ q \in Retention /\ q.kind = standby.ret.kind /\ q.since = standby.ret.since
       /\ q.access = standby.ret.access /\ q.at = Never
  <2>1. /\ v \in Retention /\ v.kind = standby.ret.kind /\ v.since = standby.ret.since
        /\ v.access = standby.ret.access /\ v.at = Never
    BY <1>9, <1>10, <1>11 DEF Retention
  <2>. QED
    BY <1>7, <1>10, <2>1 DEF Retention
<1>13. /\ standby' \in Standby /\ standby'.rel = standby.rel /\ standby'.state = standby.state
       /\ standby'.ret = q
  <2>1. standby' = [standby EXCEPT !.ret = q]
    BY Zenon, <1>1, <1>3
  <2>. QED
    BY <1>2, <1>12, <2>1 DEF Standby
<1>14. /\ told' \in [for : Int, at : Int, visit : Int] /\ told'.visit = told.visit
  <2>1. PICK t : t = [told EXCEPT !.for = Never]
    OBVIOUS
  <2>2. told' = [t EXCEPT !.at = Never]
    BY Zenon, <1>1, <2>1
  <2>3. t \in [for : Int, at : Int, visit : Int] /\ t.visit = told.visit
    BY <1>10, <2>1 DEF RetentionInv, Shapes
  <2>. QED
    BY <1>10, <2>2, <2>3
<1>15. TypeOK'
  BY <1>1, <1>13, RetentionAssumption DEF RetentionInv, TypeOK
<1>16. Shapes'
  BY <1>1, <1>13, <1>14 DEF RetentionInv, Shapes
<1>17. SweepsAreRecent' /\ SlotsAreFilled' /\ RemindersWereSent'
  BY <1>1, <1>12, <1>13 DEF RetentionInv, SweepsAreRecent, Recent, SlotsAreFilled,
     RemindersWereSent
<1>18. CountsWorkload' /\ NotedIsSeen' /\ VisitsAreSeen'
  BY <1>1, <1>12, <1>13, <1>14 DEF RetentionInv, CountsWorkload, HasWorkload, NotedIsSeen,
     VisitsAreSeen, Seen
<1>. QED
  BY <1>15, <1>16, <1>17, <1>18 DEF RetentionInv

LEMMA SetPolicyKeeps ==
    ASSUME RetentionInv, NEW pol \in Policies, SetPolicy(pol)
    PROVE  RetentionInv'
<1>. USE RetentionAssumption DEF RetentionInv, SetPolicy, Act
<1>1. TypeOK' /\ Shapes'
  BY DEF TypeOK, Shapes
<1>2. SweepsAreRecent' /\ SlotsAreFilled' /\ RemindersWereSent'
  BY DEF SweepsAreRecent, Recent, SlotsAreFilled, RemindersWereSent
<1>3. CountsWorkload' /\ NotedIsSeen' /\ VisitsAreSeen'
  BY DEF CountsWorkload, HasWorkload, NotedIsSeen, VisitsAreSeen, Seen
<1>. QED
  BY <1>1, <1>2, <1>3

LEMMA TickKeeps ==
    ASSUME RetentionInv, Tick
    PROVE  RetentionInv'
<1>. USE RetentionAssumption DEF RetentionInv, Tick, inputs
<1>1. now \in Nat /\ MaxTime \in Nat
  BY DEF TypeOK
<1>2. TypeOK' /\ Shapes'
  BY <1>1 DEF TypeOK, Shapes
<1>3. SweepsAreRecent'
  <2>. SUFFICES ASSUME NEW s \in Sweeper, sweep[s] # Idle PROVE Recent(sweep[s])'
    BY DEF SweepsAreRecent
  <2>1. Recent(sweep[s]) /\ now - sweep[s].now < MaxLag
    BY DEF SweepsAreRecent
  <2>2. sweep[s].now \in Int
    BY DEF Shapes, Sweep
  <2>. QED
    BY <1>1, <2>1, <2>2 DEF Recent
<1>4. SlotsAreFilled' /\ RemindersWereSent' /\ CountsWorkload' /\ VisitsAreSeen'
  BY DEF SlotsAreFilled, RemindersWereSent, CountsWorkload, HasWorkload, VisitsAreSeen, Seen
<1>5. NotedIsSeen'
  BY <1>1 DEF NotedIsSeen, Seen, Shapes
<1>. QED
  BY <1>2, <1>3, <1>4, <1>5

-----------------------------------------------------------------------------
LEMMA SweepReadsKeeps ==
    ASSUME RetentionInv, NEW s \in Sweeper, SweepReads(s)
    PROVE  RetentionInv'
<1>. USE RetentionAssumption DEF RetentionInv, SweepReads, inputs
<1>1. PICK w : w = [pc |-> "listed", now |-> now, policy |-> policy, side |-> active,
                    rel |-> standby.rel]
  OBVIOUS
<1>2. sweep' = [sweep EXCEPT ![s] = w]
  BY Zenon, <1>1
<1>3. w \in Sweep /\ w.now = now /\ Allowed(w.policy)
  BY <1>1 DEF TypeOK, Shapes, Sweep, Standby
<1>4. TypeOK'
  BY DEF TypeOK
<1>5. Shapes'
  BY <1>2, <1>3 DEF Shapes
<1>6. SweepsAreRecent'
  BY <1>2, <1>3 DEF SweepsAreRecent, Recent, TypeOK, Shapes
<1>7. SlotsAreFilled' /\ RemindersWereSent' /\ CountsWorkload' /\ NotedIsSeen' /\ VisitsAreSeen'
  BY DEF SlotsAreFilled, RemindersWereSent, CountsWorkload, HasWorkload, NotedIsSeen,
     VisitsAreSeen, Seen
<1>. QED
  BY <1>4, <1>5, <1>6, <1>7

(* What a step of a sweep leaves alone, and that it ends the sweep.        *)
SweepEnds(s) ==
    /\ sweep' = [sweep EXCEPT ![s] = Idle]
    /\ UNCHANGED <<now, active, live, lastFrom, swept, inputs, acts>>

LEMMA SweepEndsKeeps ==
    ASSUME RetentionInv, NEW s \in Sweeper, SweepEnds(s),
           standby' \in Standby, told' \in [for : Int, at : Int, visit : Int],
           standby'.rel \in {standby.rel, None}, standby'.state # "empty" => standby'.rel # None /\ standby'.off = "none"
    PROVE  TypeOK' /\ Shapes' /\ SweepsAreRecent' /\ SlotsAreFilled'
<1>. USE DEF RetentionInv, SweepEnds, inputs
<1>1. TypeOK'
  BY RetentionAssumption DEF TypeOK
<1>2. Shapes'
  BY BeginningsHaveShape DEF Shapes
<1>3. SweepsAreRecent'
  BY DEF SweepsAreRecent, Recent, Shapes
<1>4. SlotsAreFilled'
  BY DEF SlotsAreFilled
<1>. QED
  BY <1>1, <1>2, <1>3, <1>4

LEMMA InitializeKeeps ==
    ASSUME RetentionInv, NEW s \in Sweeper, sweep[s] # Idle, Matches(s), Initialize(s),
           SweepEnds(s)
    PROVE  RetentionInv'
<1>1. PICK kind \in {"pending", "rollback-target"} :
          standby' = [standby EXCEPT !.ret = StartRetention(kind, sweep[s].now)]
  BY Zenon DEF Initialize
<1>2. PICK at : at = sweep[s].now
  OBVIOUS
<1>3. at \in 0..now /\ now - at <= MaxLag /\ now \in Nat
  BY <1>2 DEF RetentionInv, SweepsAreRecent, Recent, TypeOK
<1>4. StartRetention(kind, at) \in Retention
  BY <1>3, BeginningsHaveShape
<1>5. /\ standby' \in Standby /\ standby'.ret = StartRetention(kind, at)
      /\ standby'.rel = standby.rel /\ standby'.state = standby.state
      /\ standby'.off = standby.off
  BY <1>1, <1>2, <1>4 DEF RetentionInv, Shapes, Standby
<1>6. standby.rel # None /\ standby.state # "empty" /\ standby.off = "none"
  BY DEF Matches, HasWorkload, RetentionInv, SlotsAreFilled
<1>7. told' = Untold /\ UNCHANGED <<now, noted>>
  BY DEF Initialize, SweepEnds, inputs
<1>8. CountsWorkload' /\ RemindersWereSent' /\ NotedIsSeen' /\ VisitsAreSeen'
  BY <1>3, <1>5, <1>6, <1>7, CountdownBegins
<1>9. TypeOK' /\ Shapes' /\ SweepsAreRecent' /\ SlotsAreFilled'
  BY <1>5, <1>6, <1>7, BeginningsHaveShape, SweepEndsKeeps
<1>. QED
  BY <1>8, <1>9 DEF RetentionInv

LEMMA RemindKeeps ==
    ASSUME RetentionInv, NEW s \in Sweeper, sweep[s] # Idle, Matches(s), Remind(s),
           SweepEnds(s)
    PROVE  RetentionInv'
<1>1. PICK deadline : deadline = Deadline(standby.ret, sweep[s].policy)
  OBVIOUS
<1>2. PICK at : at = sweep[s].now
  OBVIOUS
<1>3. /\ standby.ret # NoRetention
      /\ standby' = [standby EXCEPT !.ret = MarkReminded(standby.ret, deadline, at)]
      /\ told' = [told EXCEPT !.for = deadline, !.at = now]
  BY Zenon, <1>1, <1>2 DEF Remind
<1>4. /\ standby \in Standby /\ standby.ret \in Retention /\ sweep[s].policy \in Policies
      /\ told \in [for : Int, at : Int, visit : Int]
  BY DEF RetentionInv, Shapes, Standby, Sweep
<1>5. /\ at \in Int /\ now \in Int /\ MaxLag \in Int /\ deadline \in Int /\ now - at <= MaxLag
  BY <1>1, <1>2, <1>4, DeadlineIsLate, RetentionAssumption
  DEF RetentionInv, SweepsAreRecent, Recent, TypeOK
<1>6. PICK q : q = MarkReminded(standby.ret, deadline, at)
  OBVIOUS
<1>7. PICK v : v = [standby.ret EXCEPT !.at = at]
  OBVIOUS
<1>8. q = [v EXCEPT !.for = deadline]
  BY Zenon, <1>6, <1>7 DEF MarkReminded
<1>9. /\ v \in Retention /\ v.kind = standby.ret.kind /\ v.since = standby.ret.since
      /\ v.access = standby.ret.access /\ v.at = at
  BY <1>4, <1>5, <1>7 DEF Retention
<1>10. /\ q \in Retention /\ q.kind = standby.ret.kind /\ q.since = standby.ret.since
       /\ q.access = standby.ret.access /\ q.at = at /\ q.for = deadline
  BY <1>5, <1>8, <1>9 DEF Retention
<1>11. /\ standby' \in Standby /\ standby'.rel = standby.rel
       /\ standby'.state = standby.state /\ standby'.off = standby.off /\ standby'.ret = q
  <2>1. standby' = [standby EXCEPT !.ret = q]
    BY Zenon, <1>3, <1>6
  <2>. QED
    BY <1>4, <1>10, <2>1 DEF Standby
<1>12. PICK t : t = [told EXCEPT !.for = deadline]
  OBVIOUS
<1>13. told' = [t EXCEPT !.at = now]
  BY Zenon, <1>3, <1>12
<1>14. t \in [for : Int, at : Int, visit : Int] /\ t.visit = told.visit /\ t.for = deadline
  BY <1>4, <1>5, <1>12
<1>15. /\ told' \in [for : Int, at : Int, visit : Int] /\ told'.visit = told.visit
       /\ told'.for = deadline /\ told'.at = now
  BY <1>5, <1>13, <1>14
<1>16. RemindersWereSent'
  BY <1>5, <1>10, <1>11, <1>15 DEF RemindersWereSent
<1>17. UNCHANGED <<now, noted>>
  BY DEF SweepEnds, inputs
<1>18. CountsWorkload' /\ NotedIsSeen' /\ VisitsAreSeen'
  BY <1>3, <1>10, <1>11, <1>15, <1>17 DEF RetentionInv, CountsWorkload, HasWorkload,
     NotedIsSeen, VisitsAreSeen, Seen
<1>19. TypeOK' /\ Shapes' /\ SweepsAreRecent' /\ SlotsAreFilled'
  <2>1. standby'.state # "empty" => standby'.rel # None /\ standby'.off = "none"
    BY <1>11 DEF RetentionInv, SlotsAreFilled
  <2>. QED
    BY <1>11, <1>15, <2>1, SweepEndsKeeps
<1>. QED
  BY <1>16, <1>18, <1>19 DEF RetentionInv

LEMMA ExpireKeeps ==
    ASSUME RetentionInv, NEW s \in Sweeper, Expire(s), SweepEnds(s)
    PROVE  RetentionInv'
<1>1. PICK reason \in {"idle", "rollback-expired"} : standby' = Emptied(reason)
  BY Zenon DEF Expire
<1>2. standby' = [rel |-> None, state |-> "empty", ret |-> NoRetention, off |-> reason]
  BY <1>1 DEF Emptied, Empty
<1>3. /\ standby' \in Standby /\ standby'.ret = NoRetention
      /\ standby'.rel = None /\ standby'.state = "empty"
  <2>1. PICK new : new = standby'
    OBVIOUS
  <2>. QED
    BY <1>2, <2>1, WithoutCountdown
<1>4. told' = Untold /\ UNCHANGED <<now, noted>>
  BY DEF Expire, SweepEnds, inputs
<1>5. TypeOK' /\ Shapes' /\ SweepsAreRecent' /\ SlotsAreFilled'
  BY <1>3, <1>4, BeginningsHaveShape, SweepEndsKeeps
<1>. QED
  BY <1>3, <1>4, <1>5, NothingCounts DEF RetentionInv

LEMMA SweepStepsKeeps ==
    ASSUME RetentionInv, NEW s \in Sweeper, SweepSteps(s)
    PROVE  RetentionInv'
<1>1. SweepEnds(s) /\ sweep[s] # Idle
  BY Zenon DEF SweepSteps, SweepEnds
<1>2. CASE Matches(s) /\ (Initialize(s) \/ Remind(s) \/ Expire(s))
  BY <1>1, <1>2, InitializeKeeps, RemindKeeps, ExpireKeeps
<1>3. CASE UNCHANGED <<standby, told>>
  <2>1. TypeOK' /\ Shapes' /\ SweepsAreRecent' /\ SlotsAreFilled'
    BY <1>1, <1>3, SweepEndsKeeps DEF RetentionInv, TypeOK, Shapes, SlotsAreFilled
  <2>2. CountsWorkload' /\ RemindersWereSent' /\ NotedIsSeen' /\ VisitsAreSeen'
    BY <1>1, <1>3 DEF SweepEnds, inputs, RetentionInv, CountsWorkload, HasWorkload,
       RemindersWereSent, NotedIsSeen, VisitsAreSeen, Seen
  <2>. QED
    BY <2>1, <2>2 DEF RetentionInv
<1>. QED
  BY Zenon, <1>2, <1>3 DEF SweepSteps

LEMMA StepKeeps ==
    ASSUME RetentionInv, [Next]_vars
    PROVE  RetentionInv'
<1>1. CASE UNCHANGED vars
  BY <1>1 DEF vars, RetentionInv, TypeOK, Shapes, SweepsAreRecent, Recent, SlotsAreFilled,
     CountsWorkload, HasWorkload, RemindersWereSent, NotedIsSeen, VisitsAreSeen, Seen
<1>2. CASE Next
  BY Zenon, <1>2, DeployKeeps, RegisterReadyKeeps, DeployFailsKeeps, SwitchTrafficKeeps,
     TakeOfflineKeeps, VisitKeeps, PostponeKeeps, SetPolicyKeeps, SweepReadsKeeps,
     SweepStepsKeeps, TickKeeps DEF Next
<1>. QED
  BY <1>1, <1>2

-----------------------------------------------------------------------------
(* Slots, countdowns, sweeps and what was noted agree throughout.          *)
THEOREM RetentionIsGood == Spec => []RetentionInv
<1>1. Init => RetentionInv
  BY InitIsGood
<1>2. RetentionInv /\ [Next]_vars => RetentionInv'
  BY StepKeeps
<1>. QED
  BY <1>1, <1>2, PTL DEF Spec

(* The service, its slots, the clock and the policy keep their types.      *)
THEOREM TypeCorrect == Spec => []TypeOK
<1>1. RetentionInv => TypeOK
  BY DEF RetentionInv
<1>. QED
  BY <1>1, RetentionIsGood, PTL

(* Of all that can happen only the step that expires the slot leaves it    *)
(* with a reason of the sweep.                                             *)
LEMMA OnlyExpiryExpires ==
    ASSUME RetentionInv, [Next]_vars, NEW s \in Sweeper, Expires(s)
    PROVE  Expire(s) /\ Recent(sweep[s])
<1>1. /\ sweep[s] # Idle /\ sweep'[s] = Idle /\ standby.state # "empty"
      /\ standby'.off \in {"idle", "rollback-expired"}
  BY DEF Expires, HasWorkload
<1>2. Recent(sweep[s])
  BY <1>1 DEF RetentionInv, SweepsAreRecent
<1>3. standby \in Standby /\ standby.off = "none" /\ sweep \in [Sweeper -> Sweep]
  BY <1>1 DEF RetentionInv, Shapes, SlotsAreFilled
<1>4. sweep' # sweep
  BY <1>1
<1>5. PICK t \in Sweeper : SweepReads(t) \/ SweepSteps(t)
  BY <1>4, Zenon DEF Next, vars, Deploy, RegisterReady, DeployFails, SwitchTraffic, TakeOffline,
     Visit, Postpone, SetPolicy, Tick, inputs
<1>6. ~SweepReads(t)
  <2>. SUFFICES ASSUME SweepReads(t) PROVE FALSE
    OBVIOUS
  <2>1. sweep[t] = Idle /\ \E w : sweep' = [sweep EXCEPT ![t] = w]
    BY Zenon DEF SweepReads
  <2>. QED
    BY <1>1, <1>3, <2>1
<1>7. SweepSteps(t)
  BY <1>5, <1>6
<1>8. t = s
  BY <1>1, <1>3, <1>7 DEF SweepSteps
<1>9. standby' # standby
  BY <1>1, <1>3
<1>10. Initialize(s) \/ Remind(s) \/ Expire(s)
  BY Zenon, <1>7, <1>8, <1>9 DEF SweepSteps
<1>11. ~Initialize(s)
  <2>. SUFFICES ASSUME Initialize(s) PROVE FALSE
    OBVIOUS
  <2>1. \E q : standby' = [standby EXCEPT !.ret = q]
    BY Zenon DEF Initialize
  <2>. QED
    BY <1>1, <1>3, <2>1 DEF Standby
<1>12. ~Remind(s)
  <2>. SUFFICES ASSUME Remind(s) PROVE FALSE
    OBVIOUS
  <2>1. \E q : standby' = [standby EXCEPT !.ret = q]
    BY Zenon DEF Remind
  <2>. QED
    BY <1>1, <1>3, <2>1 DEF Standby
<1>. QED
  BY <1>2, <1>10, <1>11, <1>12

(* And that step comes when the countdown it found says so.                *)
LEMMA ExpiryIsDue ==
    ASSUME RetentionInv, [Next]_vars, NEW s \in Sweeper, Expires(s)
    PROVE  LET ret == standby.ret  pol == sweep[s].policy
           IN  /\ ret \in Retention /\ pol \in Policies /\ ret # NoRetention
               /\ sweep[s].now \in Int /\ sweep[s].now <= now /\ now \in Int
               /\ ret.at # Never /\ ret.for = Deadline(ret, pol)
               /\ sweep[s].now >= Deadline(ret, pol) /\ sweep[s].now >= ret.at + pol.lead
<1>1. Expire(s) /\ Recent(sweep[s])
  BY OnlyExpiryExpires
<1>2. /\ standby.ret \in Retention /\ sweep[s].policy \in Policies
      /\ sweep[s].now \in Int /\ now \in Int
  BY DEF RetentionInv, TypeOK, Shapes, Standby, Sweep
<1>3. /\ standby.ret # NoRetention
      /\ RetentionStep(standby.ret, sweep[s].policy, sweep[s].now) = "offline"
  BY <1>1, Zenon DEF Expire
<1>. QED
  BY <1>1, <1>2, <1>3, OfflineIsDue DEF Recent

(* The reminder that named the deadline comes the lead before a version    *)
(* goes offline, in every schedule of sweeps, visits, postponements and    *)
(* policies.                                                               *)
THEOREM NoticeIsGiven == Spec => NoticeGiven
<1>1. ASSUME RetentionInv, [Next]_vars, NEW s \in Sweeper, Expires(s)
      PROVE  /\ told.for = Deadline(standby.ret, sweep[s].policy)
             /\ now - told.at >= sweep[s].policy.lead - MaxLag
  <2>1. /\ standby.ret \in Retention /\ sweep[s].policy \in Policies
        /\ sweep[s].now \in Int /\ sweep[s].now <= now /\ now \in Int
        /\ standby.ret.at # Never /\ standby.ret.for = Deadline(standby.ret, sweep[s].policy)
        /\ sweep[s].now >= standby.ret.at + sweep[s].policy.lead
    BY <1>1, ExpiryIsDue
  <2>2. told.for = standby.ret.for /\ told.at <= standby.ret.at + MaxLag
    BY <1>1, <2>1 DEF RetentionInv, RemindersWereSent
  <2>3. /\ standby.ret.at \in Int /\ told.at \in Int
        /\ sweep[s].policy.lead \in Nat /\ MaxLag \in Nat
    BY <1>1, <2>1, RetentionAssumption DEF Retention, RetentionInv, Shapes
  <2>. QED
    BY <2>1, <2>2, <2>3
<1>2. RetentionInv /\ [Next]_vars =>
      [\A s \in Sweeper : Expires(s) =>
          /\ told.for = Deadline(standby.ret, sweep[s].policy)
          /\ now - told.at >= sweep[s].policy.lead - MaxLag]_vars
  BY <1>1
<1>. QED
  BY <1>2, RetentionIsGood, PTL DEF Spec, NoticeGiven

(* Neither a postponement nor a visit is overtaken by the sweep, whichever *)
(* gateway noted the visit and however long ago the sweep has read.        *)
THEOREM AttendedIsSpared == Spec => AttendedStays
<1>1. ASSUME RetentionInv, [Next]_vars, NEW s \in Sweeper, Expires(s)
      PROVE  /\ now >= standby.ret.until
             /\ standby.ret.kind = "pending" /\ told.visit # Never =>
                   now > told.visit + sweep[s].policy.idle - Interval - MaxLag
  <2>1. /\ standby.ret \in Retention /\ sweep[s].policy \in Policies
        /\ standby.ret # NoRetention
        /\ sweep[s].now \in Int /\ sweep[s].now <= now /\ now \in Int
        /\ sweep[s].now >= Deadline(standby.ret, sweep[s].policy)
    BY <1>1, ExpiryIsDue
  <2>2. /\ standby.ret.until \in Int /\ standby.ret.since \in Int /\ standby.ret.access \in Int
        /\ told.visit \in Int /\ sweep[s].policy.idle \in Nat
        /\ MaxLag \in Nat /\ Interval \in Nat
    BY <1>1, <2>1, RetentionAssumption DEF Retention, RetentionInv, Shapes
  <2>3. /\ Deadline(standby.ret, sweep[s].policy) \in Int
        /\ Deadline(standby.ret, sweep[s].policy) >= standby.ret.until
        /\ standby.ret.kind = "pending" =>
              /\ Deadline(standby.ret, sweep[s].policy) >= standby.ret.since + sweep[s].policy.idle
              /\ Deadline(standby.ret, sweep[s].policy) >= standby.ret.access + sweep[s].policy.idle
    BY <2>1, DeadlineIsLate
  <2>4. told.visit # Never => Seen(told.visit - Interval + 1)
    BY <1>1, <2>1 DEF RetentionInv, VisitsAreSeen
  <2>. QED
    BY <2>1, <2>2, <2>3, <2>4 DEF Seen
<1>2. RetentionInv /\ [Next]_vars =>
      [\A s \in Sweeper : Expires(s) =>
          /\ now >= standby.ret.until
          /\ standby.ret.kind = "pending" /\ told.visit # Never =>
                now > told.visit + sweep[s].policy.idle - Interval - MaxLag]_vars
  BY <1>1
<1>. QED
  BY <1>2, RetentionIsGood, PTL DEF Spec, AttendedStays
=============================================================================
