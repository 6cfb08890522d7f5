------------------------ MODULE RuleCompletenessProofs ------------------------
(* Proofs that the safety properties of RuleCompleteness hold for every set  *)
(* of tenants and groups and every setting of the four intervals that leaves *)
(* room for a renewal (RenewalAssumption).                                   *)
EXTENDS RuleCompleteness, TLAPS

USE DEF Faults, Incomplete, CheckerFailed

\* Every query of a tenant keeps the types: each branch of run_loop stores
\* stamps taken from the clock reading and appends well-formed alerts.
LEMMA CheckType == ASSUME TypeOK, NEW t \in Tenants, Check(t) PROVE TypeOK'
<1> USE ConstantsAssumption
<1> DEFINE F(f, s) == FiringAlert(f, t, s)
           R(f, s) == ResolvedAlert(f, t, s)
<1>1. \A f \in Faults, s \in Nat : F(f, s) \in Alert /\ R(f, s) \in Alert
  BY DEF TypeOK, FiringAlert, ResolvedAlert, Alert, Keys
<1>2. \A s \in Stamp, v \in Nat : SetDefault(s, v) \in Nat
  BY DEF SetDefault, Stamp
<1>3. \A dict \in [Tenants -> Stamp], v \in Nat :
         Store(dict, t, v) \in [Tenants -> Stamp] /\ Pop(dict, t) \in [Tenants -> Stamp]
  BY DEF Store, Pop, Stamp
<1>4. CheckerRecovers(t) \in SUBSET Alert /\ RenewIncomplete(t) \in SUBSET Alert
  BY <1>1 DEF TypeOK, CheckerRecovers, RenewIncomplete, Stamp
<1>5. pc' \in {"check", "send", "sleep", "dead"} /\ todo' \in SUBSET Tenants
  BY DEF Check, TypeOK
<1>6. CASE answer[t] = NoAnswer /\ CheckError(t)
  <2> DEFINE es == SetDefault(error_since[t], current)
             efs == SetDefault(error_firing_since[t], es)
  <2>1. es \in Nat /\ efs \in Nat
    BY <1>2 DEF TypeOK
  <2>2. alerts' \in SUBSET Alert
    BY <1>1, <1>4, <1>6, <2>1 DEF CheckError, Collect, TypeOK
  <2>3. error_since' \in [Tenants -> Stamp] /\ error_firing_since' \in [Tenants -> Stamp]
    BY <1>3, <1>6, <2>1 DEF CheckError, TypeOK
  <2> QED BY <1>5, <1>6, <2>2, <2>3 DEF CheckError, Check, TypeOK, environment
<1>7. CASE answer[t] # NoAnswer
  <2> DEFINE missing == Groups \ answer[t]
             ms == SetDefault(missing_since[t], current)
             fs == SetDefault(firing_since[t], ms)
  <2>1. /\ error_since' \in [Tenants -> Stamp]
        /\ error_firing_since' \in [Tenants -> Stamp]
        /\ last_answer' \in [Tenants -> Stamp]
    <3>1. /\ error_since' = Pop(error_since, t)
          /\ error_firing_since' = Pop(error_firing_since, t)
          /\ last_answer' = [last_answer EXCEPT ![t] = current]
      BY <1>7 DEF Check
    <3> QED BY <1>3, <3>1 DEF TypeOK, Stamp
  <2>2. ms \in Nat /\ fs \in Nat
    BY <1>2 DEF TypeOK
  <2>3. CASE missing # {} /\ FoundMissing(t, missing)
    <3>1. alerts' \in SUBSET Alert
      BY <1>1, <1>4, <2>2, <2>3 DEF FoundMissing, Collect, TypeOK
    <3>2. /\ missing_since' \in [Tenants -> Stamp]
          /\ firing_since' \in [Tenants -> Stamp]
          /\ last_missing' \in [Tenants -> SUBSET Groups]
      BY <1>3, <2>2, <2>3 DEF FoundMissing, TypeOK
    <3> QED BY <1>5, <2>1, <2>3, <3>1, <3>2 DEF FoundMissing, Check, TypeOK, environment
  <2>4. CASE FoundWhole(t)
    <3>1. alerts' \in SUBSET Alert
      BY <1>1, <1>4, <2>4 DEF FoundWhole, Collect, TypeOK, Stamp
    <3>2. /\ missing_since' \in [Tenants -> Stamp]
          /\ firing_since' \in [Tenants -> Stamp]
          /\ last_missing' \in [Tenants -> SUBSET Groups]
          /\ last_whole' \in [Tenants -> Stamp]
      BY <1>3, <2>4 DEF FoundWhole, TypeOK, Stamp
    <3> QED BY <1>5, <2>1, <2>4, <3>1, <3>2 DEF FoundWhole, Check, TypeOK, environment
  <2> QED BY <1>7, <2>3, <2>4 DEF Check
<1> QED BY <1>6, <1>7 DEF Check

LEMMA TypeInit == Init => TypeOK
  BY ConstantsAssumption DEF Init, TypeOK, Stamp, Empty, Alert

LEMMA TypeStep == TypeOK /\ [Next]_vars => TypeOK'
<1> SUFFICES ASSUME TypeOK, [Next]_vars PROVE TypeOK'
  OBVIOUS
<1> USE ConstantsAssumption
<1>1. CASE Tick
  BY <1>1 DEF Tick, TypeOK, dicts, environment, history
<1>2. ASSUME NEW t \in Tenants, RulerChange(t) PROVE TypeOK'
  BY <1>2 DEF RulerChange, TypeOK, dicts, history
<1>3. ASSUME NEW t \in Tenants, Check(t) PROVE TypeOK'
  BY <1>3, CheckType
<1>4. ASSUME NEW delivered \in BOOLEAN, Send(delivered) PROVE TypeOK'
  <2>1. AlertKeys(alerts) \in SUBSET Keys /\ AlertKeys(Renewals) \in SUBSET Keys
    BY DEF TypeOK, AlertKeys, Renewals, Alert
  <2>2. \A k \in AlertKeys(alerts) : (CHOOSE a \in alerts : a.key = k).ends \in Nat
    BY DEF TypeOK, AlertKeys, Alert
  <2>3. am' \in [Keys -> Nat]
    BY <1>4, <2>1, <2>2 DEF Send, TypeOK
  <2>4. posted' \in SUBSET Keys
    BY <1>4, <2>1 DEF Send, TypeOK
  <2> QED BY <1>4, <2>3, <2>4 DEF Send, TypeOK, dicts, environment
<1>5. CASE Wake
  BY <1>5 DEF Wake, BeginCycle, TypeOK, dicts, environment, history
<1>6. CASE Crash
  BY <1>6 DEF Crash, TypeOK, environment, Empty, Stamp
<1>7. CASE Restart
  BY <1>7 DEF Restart, BeginCycle, TypeOK, dicts, environment
<1>8. CASE UNCHANGED vars
  BY <1>8 DEF vars, TypeOK, dicts, environment, history
<1> QED BY <1>1, <1>2, <1>3, <1>4, <1>5, <1>6, <1>7, <1>8 DEF Next

\* TypeOK holds in every state of every instance: no branch of run_loop stores
\* anything but a clock reading in a dictionary or appends a malformed alert.
THEOREM TypeCorrect == Spec => []TypeOK
  BY TypeInit, TypeStep, PTL DEF Spec

-------------------------------------------------------------------------------
(* No false alarm.  Inductive: a stamp is never in the future, a fault that  *)
(* fires has been stamped for the grace period, and its stamp is no older    *)
(* than the last answer that contradicted it.                                *)

\* Why a key may fire, and what the renewal of run_loop's except branch needs.
SoundStamps(t) ==
    /\ missing_since[t] # Absent => missing_since[t] <= current
    /\ error_since[t] # Absent => error_since[t] <= current
    /\ last_whole[t] # Absent => last_whole[t] <= current
    /\ last_answer[t] # Absent => last_answer[t] <= current
    /\ firing_since[t] # Absent =>
          /\ firing_since[t] = missing_since[t]
          /\ firing_since[t] + Grace <= current
          /\ last_missing[t] # {}
    /\ error_firing_since[t] # Absent =>
          /\ error_firing_since[t] = error_since[t]
          /\ error_firing_since[t] + Grace <= current
    /\ missing_since[t] # Absent /\ last_whole[t] # Absent =>
          last_whole[t] <= missing_since[t]
    /\ error_since[t] # Absent /\ last_answer[t] # Absent =>
          last_answer[t] <= error_since[t]

StampInv == current <= clock /\ \A t \in Tenants : SoundStamps(t)

StampVars == <<missing_since, firing_since, last_missing, error_since,
               error_firing_since, last_whole, last_answer>>

\* A step that touches no dictionary keeps the stamps sound if it only reads
\* a later clock.
LEMMA StampFrame ==
    ASSUME TypeOK, TypeOK', NEW t \in Tenants, SoundStamps(t),
           UNCHANGED StampVars, current <= current'
    PROVE  SoundStamps(t)'
  BY ConstantsAssumption DEF SoundStamps, StampVars, TypeOK, Stamp

\* The query of a tenant keeps its own stamps sound, whatever the outcome.
LEMMA StampCheck ==
    ASSUME TypeOK, NEW t \in Tenants, Check(t), SoundStamps(t)
    PROVE  SoundStamps(t)'
<1> USE ConstantsAssumption
<1>1. /\ current \in Nat /\ current' = current
      /\ missing_since \in [Tenants -> Stamp] /\ firing_since \in [Tenants -> Stamp]
      /\ error_since \in [Tenants -> Stamp] /\ error_firing_since \in [Tenants -> Stamp]
      /\ last_whole \in [Tenants -> Stamp] /\ last_answer \in [Tenants -> Stamp]
      /\ last_missing \in [Tenants -> SUBSET Groups]
  BY DEF TypeOK, Check
<1>2. CASE answer[t] = NoAnswer /\ CheckError(t)
  BY <1>1, <1>2 DEF CheckError, SetDefault, Overdue, Store, SoundStamps, Stamp
<1>3. CASE answer[t] # NoAnswer
  <2> DEFINE missing == Groups \ answer[t]
  <2>1. /\ error_since' = Pop(error_since, t)
        /\ error_firing_since' = Pop(error_firing_since, t)
        /\ last_answer' = [last_answer EXCEPT ![t] = current]
        /\ \/ missing # {} /\ FoundMissing(t, missing)
           \/ FoundWhole(t)
    BY <1>3 DEF Check
  <2>2. /\ error_since'[t] = Absent /\ error_firing_since'[t] = Absent
        /\ last_answer'[t] = current
    BY <1>1, <2>1 DEF Pop
  <2>3. CASE missing # {} /\ FoundMissing(t, missing)
    <3>1. last_missing'[t] # {} /\ last_whole' = last_whole
      BY <1>1, <2>3 DEF FoundMissing
    <3> QED BY <1>1, <2>2, <2>3, <3>1
            DEF FoundMissing, SetDefault, Overdue, Store, SoundStamps, Stamp
  <2>4. CASE FoundWhole(t)
    BY <1>1, <2>2, <2>4 DEF FoundWhole, Pop, SoundStamps, Stamp
  <2> QED BY <2>1, <2>3, <2>4
<1> QED BY <1>2, <1>3 DEF Check

\* The query of a tenant leaves the dictionaries of the others alone.
LEMMA CheckLeavesOthers ==
    ASSUME TypeOK, NEW t \in Tenants, Check(t), NEW u \in Tenants, u # t
    PROVE  /\ missing_since'[u] = missing_since[u]
           /\ firing_since'[u] = firing_since[u]
           /\ last_missing'[u] = last_missing[u]
           /\ error_since'[u] = error_since[u]
           /\ error_firing_since'[u] = error_firing_since[u]
           /\ last_whole'[u] = last_whole[u]
           /\ last_answer'[u] = last_answer[u]
<1>1. CASE answer[t] = NoAnswer /\ CheckError(t)
  BY <1>1 DEF CheckError, Store, TypeOK
<1>2. CASE answer[t] # NoAnswer
  <2> DEFINE missing == Groups \ answer[t]
  <2>1. /\ error_since' = Pop(error_since, t)
        /\ error_firing_since' = Pop(error_firing_since, t)
        /\ last_answer' = [last_answer EXCEPT ![t] = current]
        /\ FoundMissing(t, missing) \/ FoundWhole(t)
    BY <1>2 DEF Check
  <2>2. CASE FoundMissing(t, missing)
    BY <2>1, <2>2 DEF FoundMissing, Store, Pop, TypeOK
  <2>3. CASE FoundWhole(t)
    BY <2>1, <2>3 DEF FoundWhole, Pop, TypeOK
  <2> QED BY <2>1, <2>2, <2>3
<1> QED BY <1>1, <1>2 DEF Check

LEMMA StampStep == TypeOK /\ TypeOK' /\ StampInv /\ [Next]_vars => StampInv'
<1> SUFFICES ASSUME TypeOK, TypeOK', StampInv, [Next]_vars PROVE StampInv'
  OBVIOUS
<1> USE ConstantsAssumption
<1>1. clock \in Nat /\ current \in Nat /\ clock' \in Nat /\ current' \in Nat
  BY DEF TypeOK
<1>2. ASSUME UNCHANGED StampVars, current <= current', current' <= clock'
      PROVE  StampInv'
  BY <1>2, StampFrame DEF StampInv
<1>3. ASSUME NEW t \in Tenants, Check(t) PROVE StampInv'
  <2>1. current' = current /\ clock' = clock
    BY <1>3 DEF Check
  <2>2. SoundStamps(t)'
    BY <1>3, StampCheck DEF StampInv
  <2>3. ASSUME NEW u \in Tenants, u # t PROVE SoundStamps(u)'
    BY <1>3, <2>1, <2>3, CheckLeavesOthers DEF StampInv, SoundStamps
  <2> QED BY <2>1, <2>2, <2>3 DEF StampInv
<1>4. CASE Crash
  BY <1>1, <1>4 DEF Crash, StampInv, SoundStamps, Empty
<1>5. CASE Tick
  BY <1>1, <1>2, <1>5 DEF Tick, StampInv, StampVars, dicts, history
<1>6. ASSUME NEW t \in Tenants, RulerChange(t) PROVE StampInv'
  BY <1>1, <1>2, <1>6 DEF RulerChange, StampInv, StampVars, dicts, history
<1>7. ASSUME NEW delivered \in BOOLEAN, Send(delivered) PROVE StampInv'
  BY <1>1, <1>2, <1>7 DEF Send, StampInv, StampVars, dicts
<1>8. CASE Wake
  BY <1>1, <1>2, <1>8 DEF Wake, BeginCycle, StampInv, StampVars, dicts, history
<1>9. CASE Restart
  BY <1>1, <1>2, <1>9 DEF Restart, BeginCycle, StampInv, StampVars, dicts
<1>10. CASE UNCHANGED vars
  BY <1>1, <1>2, <1>10 DEF vars, StampInv, StampVars, dicts, history
<1> QED BY <1>3, <1>4, <1>5, <1>6, <1>7, <1>8, <1>9, <1>10 DEF Next

LEMMA StampInit == Init => StampInv
  BY ConstantsAssumption DEF Init, StampInv, SoundStamps, Empty

LEMMA StampCorrect == Spec => []StampInv
<1>1. Spec => []TypeOK
  BY TypeCorrect
<1> QED BY <1>1, StampInit, StampStep, PTL DEF Spec

\* No fault ever fires in the process before the grace period has run out
\* without an answer that contradicts it, for any number of tenants and any
\* interleaving of outages, comparisons, lost POSTs and restarts.
THEOREM NoFalseAlarmCorrect == Spec => []NoFalseAlarm
<1>1. StampInv => NoFalseAlarm
  BY DEF StampInv, SoundStamps, NoFalseAlarm, FiringSince, LastRefuted, Keys
<1> QED BY <1>1, StampCorrect, PTL

-------------------------------------------------------------------------------
(* No zombie.  Inductive: no end time lies more than a TTL ahead, and one    *)
(* that does lie ahead of a ruler that serves every group was computed from  *)
(* a reading of the clock no later than the ruler's recovery.                *)

ZombieInv ==
    /\ current <= clock
    /\ \A t \in Tenants : since[t] <= clock
    /\ \A k \in Keys :
          /\ am[k] <= clock + Ttl
          /\ Whole(k[2]) => am[k] <= since[k[2]] + Ttl \/ am[k] <= clock
    /\ \A a \in alerts :
          /\ a.ends <= current + Ttl
          /\ Whole(a.key[2]) => a.ends <= since[a.key[2]] + Ttl \/ a.ends <= current

\* A query adds a renewal only when the ruler did not serve every group.
LEMMA CheckAlerts ==
    ASSUME TypeOK, NEW t \in Tenants, Check(t), NEW a \in alerts', a \notin alerts
    PROVE  /\ a.key[2] = t
           /\ a.ends = current \/ a.ends = current + Ttl
           /\ a.ends = current + Ttl /\ Ttl # 0 => ~Whole(t)
<1> USE ConstantsAssumption
<1>1. CheckerRecovers(t) \in SUBSET Alert /\ RenewIncomplete(t) \in SUBSET Alert
  BY DEF TypeOK, CheckerRecovers, RenewIncomplete, Stamp, FiringAlert, ResolvedAlert,
         Alert, Keys
<1>2. /\ \A b \in CheckerRecovers(t) : b.key[2] = t /\ b.ends = current
      /\ \A b \in RenewIncomplete(t) : b.key[2] = t /\ b.ends = current + Ttl
  BY DEF CheckerRecovers, RenewIncomplete, FiringAlert, ResolvedAlert
<1>3. \A f, s :
         /\ FiringAlert(f, t, s).key[2] = t /\ FiringAlert(f, t, s).ends = current + Ttl
         /\ ResolvedAlert(f, t, s).key[2] = t /\ ResolvedAlert(f, t, s).ends = current
  BY DEF FiringAlert, ResolvedAlert
<1>4. current \in Nat /\ Ttl \in Nat
  BY DEF TypeOK
<1>5. CASE answer[t] = NoAnswer /\ CheckError(t)
  <2>1. ~Whole(t)
    BY <1>5 DEF Whole
  <2>2. a.key[2] = t /\ a.ends = current + Ttl
    BY <1>2, <1>3, <1>5 DEF CheckError, Collect
  <2> QED BY <2>1, <2>2
<1>6. CASE answer[t] # NoAnswer
  <2> DEFINE missing == Groups \ answer[t]
  <2>1. \/ missing # {} /\ FoundMissing(t, missing)
        \/ FoundWhole(t)
    BY <1>6 DEF Check
  <2>2. CASE missing # {} /\ FoundMissing(t, missing)
    <3>1. ~Whole(t)
      BY <2>2 DEF Whole
    <3>2. a.key[2] = t /\ (a.ends = current \/ a.ends = current + Ttl)
      BY <1>2, <1>3, <2>2 DEF FoundMissing, Collect
    <3> QED BY <3>1, <3>2
  <2>3. CASE FoundWhole(t)
    <3>1. a.key[2] = t /\ a.ends = current
      BY <1>2, <1>3, <2>3 DEF FoundWhole, Collect
    <3> QED BY <1>4, <3>1
  <2> QED BY <2>1, <2>2, <2>3
<1> QED BY <1>5, <1>6 DEF Check

\* A delivered POST gives a key the end time of one of the batch's alerts.
LEMMA DeliveredEnds ==
    ASSUME TypeOK, NEW delivered \in BOOLEAN, Send(delivered), NEW k \in Keys
    PROVE  \/ am'[k] = am[k]
           \/ /\ delivered
              /\ \E a \in alerts : a.key = k /\ am'[k] = a.ends
                                   /\ a = CHOOSE b \in alerts : b.key = k
  BY DEF Send, AlertKeys, TypeOK

LEMMA ZombieStep == TypeOK /\ TypeOK' /\ ZombieInv /\ [Next]_vars => ZombieInv'
<1> SUFFICES ASSUME TypeOK, TypeOK', ZombieInv, [Next]_vars PROVE ZombieInv'
  OBVIOUS
<1> USE ConstantsAssumption
<1>1. /\ clock \in Nat /\ current \in Nat /\ clock' \in Nat /\ current' \in Nat
      /\ am \in [Keys -> Nat] /\ since \in [Tenants -> Nat]
      /\ am' \in [Keys -> Nat] /\ since' \in [Tenants -> Nat]
      /\ alerts \in SUBSET Alert /\ alerts' \in SUBSET Alert
      /\ Ttl \in Nat
  BY DEF TypeOK
<1>2. /\ \A k \in Keys : k[2] \in Tenants
      /\ \A a \in Alert : a.key[2] \in Tenants /\ a.ends \in Nat /\ a.key \in Keys
  BY DEF Keys, Alert
<1>3. CASE Tick
  BY <1>1, <1>2, <1>3 DEF Tick, ZombieInv, Whole, environment
<1>4. ASSUME NEW t \in Tenants, RulerChange(t) PROVE ZombieInv'
  <2>1. /\ UNCHANGED <<clock, current, alerts, am>>
        /\ since'[t] = clock /\ \A u \in Tenants : u # t => since'[u] = since[u]
        /\ \A u \in Tenants : u # t => answer'[u] = answer[u]
    BY <1>4, <1>1 DEF RulerChange, TypeOK
  <2> QED BY <1>1, <1>2, <2>1 DEF ZombieInv, Whole
<1>5. ASSUME NEW t \in Tenants, Check(t) PROVE ZombieInv'
  <2>1. UNCHANGED <<clock, current, am, answer, since>>
    BY <1>5 DEF Check, environment
  <2>2. ASSUME NEW a \in alerts', a \notin alerts
        PROVE  /\ a.ends <= current + Ttl
               /\ Whole(a.key[2]) => a.ends <= current
    BY <1>1, <1>2, <1>5, <2>2, CheckAlerts
  <2> QED BY <1>1, <1>2, <2>1, <2>2 DEF ZombieInv, Whole
<1>6. ASSUME NEW delivered \in BOOLEAN, Send(delivered) PROVE ZombieInv'
  <2>1. UNCHANGED <<clock, current, answer, since>> /\ alerts' = {}
    BY <1>6 DEF Send, environment
  <2>2. ASSUME NEW k \in Keys
        PROVE  /\ am'[k] <= clock + Ttl
               /\ Whole(k[2]) => am'[k] <= since[k[2]] + Ttl \/ am'[k] <= clock
    BY <1>1, <1>2, <1>6, DeliveredEnds DEF ZombieInv
  <2> QED BY <2>1, <2>2, <1>1 DEF ZombieInv, Whole
<1>7. CASE Wake
  BY <1>1, <1>2, <1>7 DEF Wake, BeginCycle, ZombieInv, Whole, environment
<1>8. CASE Crash
  BY <1>1, <1>2, <1>8 DEF Crash, ZombieInv, Whole, environment
<1>9. CASE Restart
  BY <1>1, <1>2, <1>9 DEF Restart, BeginCycle, ZombieInv, Whole, environment
<1>10. CASE UNCHANGED vars
  BY <1>1, <1>2, <1>10 DEF vars, ZombieInv, Whole, environment
<1> QED BY <1>3, <1>4, <1>5, <1>6, <1>7, <1>8, <1>9, <1>10 DEF Next

LEMMA ZombieInit == Init => ZombieInv
  BY ConstantsAssumption DEF Init, ZombieInv, Keys

\* A TTL after a ruler came back whole no alert about it is active, however
\* many of the one-shot resolve POSTs were lost and however often the process
\* died: the end time each alert carries is the safety net.
THEOREM NoZombieCorrect == Spec => []NoZombie
<1>1. Spec => []TypeOK
  BY TypeCorrect
<1>2. TypeOK /\ ZombieInv => NoZombie
  BY ConstantsAssumption DEF TypeOK, ZombieInv, NoZombie, Active, Keys
<1> QED BY <1>1, <1>2, ZombieInit, ZombieStep, PTL DEF Spec

-------------------------------------------------------------------------------
(* No gap.  Inductive: a cycle lasts at most Work and starts at most Poll    *)
(* after the last one ended; a fault that fires has a renewal in the batch   *)
(* as soon as its tenant was visited, the only alert of the batch for its    *)
(* key; and a key whose alert was delivered still fires, or the batch under  *)
(* way resolves it.                                                          *)

Timing ==
    /\ pc \in {"check", "send"} => clock <= current + Work
    /\ pc = "sleep" => clock <= wake /\ wake <= current + Work + Poll
    /\ pc # "check" => todo = {}

BatchInv ==
    /\ pc \in {"sleep", "dead"} => alerts = {}
    /\ \A a \in alerts : a.key[2] \notin todo
    /\ \A a, b \in alerts : a.key = b.key => a = b
    /\ \A a \in alerts :
          \/ a.ends = current
          \/ a.ends = current + Ttl /\ FiringSince(a.key) # Absent
    /\ pc \in {"check", "send"} =>
          \A k \in Keys : FiringSince(k) # Absent /\ k[2] \notin todo =>
              \E a \in alerts : a.key = k /\ a.ends = current + Ttl

PostedInv ==
    /\ pc = "dead" => posted = {}
    /\ \A k \in posted : FiringSince(k) # Absent =>
          /\ pc = "sleep" => am[k] >= current + Ttl
          /\ pc \in {"check", "send"} => am[k] + Work + Poll >= current + Ttl
    /\ \A k \in posted : FiringSince(k) = Absent =>
          pc \in {"check", "send"} /\ k \in AlertKeys(alerts)

GapInv == Timing /\ BatchInv /\ PostedInv

\* The alerts a step appends for a key.
Fresh(k) == {a \in alerts' : a \notin alerts /\ a.key = k}

LEMMA KeyFacts ==
    /\ \A k \in Keys : k[1] \in Faults /\ k[2] \in Tenants /\ k = <<k[1], k[2]>>
    /\ \A a \in Alert : a.key \in Keys /\ a.ends \in Nat
  BY DEF Keys, Alert

\* What a query of t leaves in the batch for the two keys of t: nothing else
\* than one alert, a renewal exactly if the fault then fires, and a resolved
\* one if the fault fired before and does not fire any more.
LEMMA CheckBatch ==
    ASSUME TypeOK, StampInv, NEW t \in Tenants, Check(t), NEW k \in Keys, k[2] = t
    PROVE  /\ FiringSince(k)' # Absent =>
                  \E a \in alerts' : a.key = k /\ a.ends = current + Ttl
           /\ FiringSince(k) # Absent /\ FiringSince(k)' = Absent =>
                  \E a \in alerts' : a.key = k
           /\ \A a, b \in Fresh(k) : a = b
           /\ \A a \in Fresh(k) :
                 \/ a.ends = current
                 \/ a.ends = current + Ttl /\ FiringSince(k)' # Absent
<1> USE ConstantsAssumption
<1> DEFINE f == k[1]
           new == Fresh(k)
<1>1. /\ current \in Nat /\ current' = current
      /\ missing_since \in [Tenants -> Stamp] /\ firing_since \in [Tenants -> Stamp]
      /\ error_since \in [Tenants -> Stamp] /\ error_firing_since \in [Tenants -> Stamp]
      /\ SoundStamps(t)
      /\ f \in Faults /\ k = <<f, t>>
  BY KeyFacts DEF TypeOK, Check, StampInv
<1>2. \A g, s :
         /\ FiringAlert(g, t, s).key = <<g, t>>
         /\ FiringAlert(g, t, s).ends = current + Ttl
         /\ ResolvedAlert(g, t, s).key = <<g, t>>
         /\ ResolvedAlert(g, t, s).ends = current
  BY DEF FiringAlert, ResolvedAlert
<1>3. CASE answer[t] = NoAnswer /\ CheckError(t)
  <2> DEFINE es == SetDefault(error_since[t], current)
             efs == SetDefault(error_firing_since[t], es)
  <2>1. alerts' = alerts \cup RenewIncomplete(t) \cup
                    (IF Overdue(es) THEN {FiringAlert(CheckerFailed, t, efs)} ELSE {})
    BY <1>3 DEF CheckError, Collect
  <2>2. /\ firing_since'[t] = firing_since[t]
        /\ error_firing_since'[t] = IF Overdue(es) THEN efs ELSE error_firing_since[t]
        /\ es \in Nat /\ efs \in Nat
    BY <1>1, <1>3 DEF CheckError, Store, SetDefault, Stamp
  <2>3. error_firing_since[t] # Absent => Overdue(es)
    BY <1>1 DEF SoundStamps, SetDefault, Overdue, Stamp
  <2>4. RenewIncomplete(t) = IF firing_since[t] # Absent
                             THEN {FiringAlert(Incomplete, t, firing_since[t])} ELSE {}
    BY <1>1 DEF SoundStamps, RenewIncomplete
  <2>5. CASE f = Incomplete
    <3>1. FiringSince(k) = firing_since[t] /\ FiringSince(k)' = firing_since'[t]
      BY <2>5 DEF FiringSince
    <3>2. new \subseteq RenewIncomplete(t)
      BY <1>1, <1>2, <2>1, <2>5 DEF Fresh
    <3> QED BY <1>1, <1>2, <2>1, <2>2, <2>4, <2>5, <3>1, <3>2
  <2>6. CASE f = CheckerFailed
    <3>1. FiringSince(k) = error_firing_since[t]
          /\ FiringSince(k)' = error_firing_since'[t]
      BY <2>6 DEF FiringSince
    <3>2. new \subseteq IF Overdue(es) THEN {FiringAlert(CheckerFailed, t, efs)} ELSE {}
      BY <1>1, <1>2, <2>1, <2>4, <2>6 DEF Fresh
    <3> QED BY <1>1, <1>2, <2>1, <2>2, <2>3, <2>6, <3>1, <3>2
  <2> QED BY <1>1, <2>5, <2>6
<1>4. CASE answer[t] # NoAnswer
  <2> DEFINE missing == Groups \ answer[t]
             ms == SetDefault(missing_since[t], current)
             fs == SetDefault(firing_since[t], ms)
             extra == IF missing # {}
                      THEN IF Overdue(ms) THEN {FiringAlert(Incomplete, t, fs)} ELSE {}
                      ELSE IF firing_since[t] # Absent
                           THEN {ResolvedAlert(Incomplete, t, firing_since[t])} ELSE {}
  <2>1. /\ error_firing_since'[t] = Absent
        /\ \/ missing # {} /\ FoundMissing(t, missing)
           \/ missing = {} /\ FoundWhole(t)
    <3>1. error_firing_since' = Pop(error_firing_since, t)
      BY <1>4 DEF Check
    <3>2. IF missing # {} THEN FoundMissing(t, missing) ELSE FoundWhole(t)
      BY <1>4 DEF Check
    <3> QED BY <1>1, <3>1, <3>2 DEF Pop
  <2>2. alerts' = alerts \cup CheckerRecovers(t) \cup extra
    BY <2>1 DEF FoundMissing, FoundWhole, Collect
  <2>3. firing_since'[t] = IF missing # {}
                           THEN IF Overdue(ms) THEN fs ELSE firing_since[t]
                           ELSE Absent
    BY <1>1, <2>1 DEF FoundMissing, FoundWhole, Store, Pop
  <2>4. /\ ms \in Nat /\ fs \in Nat
        /\ missing # {} /\ firing_since[t] # Absent => Overdue(ms)
    BY <1>1 DEF SoundStamps, SetDefault, Overdue, Stamp
  <2>5. CASE f = Incomplete
    <3>1. FiringSince(k) = firing_since[t] /\ FiringSince(k)' = firing_since'[t]
      BY <2>5 DEF FiringSince
    <3>2. new \subseteq extra
      BY <1>1, <1>2, <2>2, <2>5 DEF CheckerRecovers, Fresh
    <3> QED BY <1>1, <1>2, <2>2, <2>3, <2>4, <2>5, <3>1, <3>2
  <2>6. CASE f = CheckerFailed
    <3>1. FiringSince(k) = error_firing_since[t] /\ FiringSince(k)' = Absent
      BY <2>1, <2>6 DEF FiringSince
    <3>2. new \subseteq CheckerRecovers(t)
      BY <1>1, <1>2, <2>2, <2>6 DEF Fresh
    <3> QED BY <1>1, <1>2, <2>2, <2>6, <3>1, <3>2 DEF CheckerRecovers
  <2> QED BY <1>1, <2>5, <2>6
<1> QED BY <1>3, <1>4 DEF Check

LEMMA TimingStep ==
    TypeOK /\ TypeOK' /\ StampInv /\ Timing /\ [Next]_vars => Timing'
<1> SUFFICES ASSUME TypeOK, TypeOK', StampInv, Timing, [Next]_vars PROVE Timing'
  OBVIOUS
<1> USE ConstantsAssumption
<1>1. CASE Tick
  BY <1>1 DEF Tick, Timing, TypeOK
<1>2. ASSUME NEW t \in Tenants, RulerChange(t) PROVE Timing'
  BY <1>2 DEF RulerChange, Timing
<1>3. ASSUME NEW t \in Tenants, Check(t) PROVE Timing'
  BY <1>3 DEF Check, Timing
<1>4. ASSUME NEW delivered \in BOOLEAN, Send(delivered) PROVE Timing'
  BY <1>4 DEF Send, Timing, TypeOK
<1>5. CASE Wake \/ Restart
  <2>1. pc' = "check" /\ current' = clock /\ clock' = clock
    BY <1>5 DEF Wake, Restart, BeginCycle
  <2> QED BY <2>1 DEF Timing, TypeOK
<1>6. CASE Crash
  BY <1>6 DEF Crash, Timing
<1>7. CASE UNCHANGED vars
  BY <1>7 DEF vars, Timing
<1> QED BY <1>1, <1>2, <1>3, <1>4, <1>5, <1>6, <1>7 DEF Next

\* A query extends the batch by one alert at most per key of its tenant.
LEMMA BatchCheck ==
    ASSUME TypeOK, TypeOK', StampInv, BatchInv, NEW t \in Tenants, Check(t)
    PROVE  BatchInv'
<1>1. /\ pc = "check" /\ t \in todo /\ todo' = todo \ {t} /\ current' = current
      /\ pc' \in {"check", "send"} /\ alerts' \in SUBSET Alert /\ alerts \in SUBSET Alert
  BY DEF Check, TypeOK
<1>2. alerts \subseteq alerts'
  BY DEF Check, CheckError, FoundMissing, FoundWhole, Collect
<1>3. \A a \in alerts' : a \notin alerts => a.key[2] = t
  BY CheckAlerts
<1>4. \A a \in alerts : a.key[2] # t
  BY <1>1 DEF BatchInv
<1>5. \A k \in Keys : k[2] # t => FiringSince(k)' = FiringSince(k)
  BY CheckLeavesOthers, KeyFacts DEF FiringSince
<1>6. \A a \in alerts' : a \notin alerts => a.key \in Keys /\ a \in Fresh(a.key)
                                            /\ a.key[2] = t
  BY <1>1, <1>3, KeyFacts DEF Fresh
<1>7. (\A a \in alerts : a.key[2] \notin todo)'
  BY <1>1, <1>3 DEF BatchInv
<1>8. (\A a, b \in alerts : a.key = b.key => a = b)'
  <2> SUFFICES ASSUME NEW a \in alerts', NEW b \in alerts', a.key = b.key PROVE a = b
    OBVIOUS
  <2>1. CASE a \in alerts /\ b \in alerts
    BY <2>1 DEF BatchInv
  <2>2. CASE a \notin alerts /\ b \notin alerts
    BY <1>6, <2>2, CheckBatch
  <2>3. a \in alerts <=> b \in alerts
    BY <1>3, <1>4
  <2> QED BY <2>1, <2>2, <2>3
<1>9. (\A a \in alerts :
          \/ a.ends = current
          \/ a.ends = current + Ttl /\ FiringSince(a.key) # Absent)'
  <2> SUFFICES ASSUME NEW a \in alerts'
               PROVE  \/ a.ends = current
                      \/ a.ends = current + Ttl /\ FiringSince(a.key)' # Absent
    BY <1>1
  <2>1. CASE a \in alerts
    BY <1>1, <1>4, <1>5, <2>1, KeyFacts DEF BatchInv
  <2>2. CASE a \notin alerts
    BY <1>6, <2>2, CheckBatch
  <2> QED BY <2>1, <2>2
<1>10. (\A k \in Keys : FiringSince(k) # Absent /\ k[2] \notin todo =>
              \E a \in alerts : a.key = k /\ a.ends = current + Ttl)'
  <2> SUFFICES ASSUME NEW k \in Keys, FiringSince(k)' # Absent, k[2] \notin todo'
               PROVE  \E a \in alerts' : a.key = k /\ a.ends = current + Ttl
    BY <1>1
  <2>1. CASE k[2] = t
    BY <2>1, CheckBatch, KeyFacts
  <2>2. CASE k[2] # t
    BY <1>1, <1>2, <1>5, <2>2 DEF BatchInv
  <2> QED BY <2>1, <2>2
<1> QED BY <1>1, <1>7, <1>8, <1>9, <1>10 DEF BatchInv

LEMMA BatchStep ==
    TypeOK /\ TypeOK' /\ StampInv /\ Timing /\ BatchInv /\ [Next]_vars => BatchInv'
<1> SUFFICES ASSUME TypeOK, TypeOK', StampInv, Timing, BatchInv, [Next]_vars
             PROVE  BatchInv'
  OBVIOUS
<1>1. CASE Tick \/ UNCHANGED vars
  BY <1>1 DEF Tick, vars, dicts, BatchInv, FiringSince
<1>2. ASSUME NEW t \in Tenants, RulerChange(t) PROVE BatchInv'
  BY <1>2 DEF RulerChange, dicts, BatchInv, FiringSince
<1>3. ASSUME NEW t \in Tenants, Check(t) PROVE BatchInv'
  BY <1>3, BatchCheck
<1>4. ASSUME NEW delivered \in BOOLEAN, Send(delivered) PROVE BatchInv'
  BY <1>4 DEF Send, BatchInv
<1>5. CASE Wake \/ Restart
  BY <1>5, KeyFacts DEF Wake, Restart, BeginCycle, BatchInv
<1>6. CASE Crash
  BY <1>6 DEF Crash, BatchInv
<1> QED BY <1>1, <1>2, <1>3, <1>4, <1>5, <1>6 DEF Next

LEMMA PostedStep ==
    TypeOK /\ TypeOK' /\ StampInv /\ GapInv /\ [Next]_vars => PostedInv'
<1> SUFFICES ASSUME TypeOK, TypeOK', StampInv, GapInv, [Next]_vars PROVE PostedInv'
  OBVIOUS
<1> USE ConstantsAssumption
<1>1. /\ clock \in Nat /\ current \in Nat /\ wake \in Nat /\ Ttl \in Nat
      /\ Work \in Nat /\ Poll \in Nat /\ am \in [Keys -> Nat] /\ am' \in [Keys -> Nat]
      /\ posted \in SUBSET Keys /\ current <= clock
  BY DEF TypeOK, StampInv
<1>2. CASE Tick \/ UNCHANGED vars
  BY <1>2 DEF Tick, vars, dicts, history, GapInv, PostedInv, FiringSince
<1>3. ASSUME NEW t \in Tenants, RulerChange(t) PROVE PostedInv'
  BY <1>3 DEF RulerChange, dicts, history, GapInv, PostedInv, FiringSince
<1>4. ASSUME NEW t \in Tenants, Check(t) PROVE PostedInv'
  <2>1. /\ pc = "check" /\ t \in todo /\ current' = current /\ am' = am
        /\ posted' = posted /\ pc' \in {"check", "send"}
    BY <1>4 DEF Check
  <2>2. AlertKeys(alerts) \subseteq AlertKeys(alerts')
    BY <1>4 DEF AlertKeys, Check, CheckError, FoundMissing, FoundWhole, Collect
  <2>3. \A k \in Keys : k[2] # t => FiringSince(k)' = FiringSince(k)
    BY <1>4, CheckLeavesOthers, KeyFacts DEF FiringSince
  <2>4. \A k \in posted : k[2] = t => FiringSince(k) # Absent
    BY <2>1 DEF GapInv, PostedInv, BatchInv, AlertKeys
  <2>5. ASSUME NEW k \in posted, FiringSince(k)' # Absent
        PROVE  am[k] + Work + Poll >= current + Ttl
    BY <1>1, <2>1, <2>3, <2>4, <2>5 DEF GapInv, PostedInv
  <2>6. ASSUME NEW k \in posted, FiringSince(k)' = Absent
        PROVE  k \in AlertKeys(alerts')
    <3>1. CASE k[2] # t
      BY <1>1, <2>2, <2>3, <2>6, <3>1 DEF GapInv, PostedInv
    <3>2. CASE k[2] = t
      <4>1. k \in Keys
        BY <1>1
      <4>2. \E a \in alerts' : a.key = k
        BY <1>4, <2>4, <2>6, <3>2, <4>1, CheckBatch
      <4> QED BY <4>2 DEF AlertKeys
    <3> QED BY <3>1, <3>2
  <2> QED BY <2>1, <2>5, <2>6 DEF PostedInv
<1>5. ASSUME NEW delivered \in BOOLEAN, Send(delivered) PROVE PostedInv'
  <2>1. /\ pc = "send" /\ todo = {} /\ pc' = "sleep" /\ current' = current
        /\ posted' = (posted \ AlertKeys(alerts))
                     \cup (IF delivered THEN AlertKeys(Renewals) ELSE {})
        /\ UNCHANGED dicts
    BY <1>5 DEF Send, GapInv, Timing
  <2>2. \A k \in Keys : FiringSince(k)' = FiringSince(k)
    BY <2>1 DEF FiringSince, dicts
  <2>3. AlertKeys(Renewals) \subseteq AlertKeys(alerts)
    BY DEF AlertKeys, Renewals
  <2>4. posted' \in SUBSET Keys
    BY DEF TypeOK
  <2>5. ASSUME NEW k \in posted' PROVE FiringSince(k) # Absent
    <3>1. CASE k \in AlertKeys(Renewals)
      <4>1. PICK a \in alerts : a.key = k /\ a.ends > current
        BY <3>1 DEF AlertKeys, Renewals
      <4> QED BY <1>1, <4>1 DEF GapInv, BatchInv, TypeOK, Alert
    <3>2. CASE k \in posted \ AlertKeys(alerts)
      BY <3>2 DEF GapInv, PostedInv
    <3> QED BY <2>1, <2>5, <3>1, <3>2
  <2>6. ASSUME NEW k \in posted' PROVE am'[k] >= current + Ttl
    <3>1. k \in Keys /\ FiringSince(k) # Absent
      BY <2>4, <2>5, <2>6
    <3>2. PICK a \in alerts : a.key = k /\ a.ends = current + Ttl
      BY <2>1, <3>1, KeyFacts DEF GapInv, BatchInv
    <3>3. k \in AlertKeys(alerts) /\ delivered
      BY <2>1, <2>3, <2>6, <3>2 DEF AlertKeys
    <3>4. am'[k] = (CHOOSE b \in alerts : b.key = k).ends
      BY <1>5, <3>1, <3>3 DEF Send
    <3>5. a = CHOOSE b \in alerts : b.key = k
      BY <3>2 DEF GapInv, BatchInv
    <3> QED BY <1>1, <3>2, <3>4, <3>5
  <2> QED BY <2>1, <2>2, <2>4, <2>5, <2>6 DEF PostedInv
<1>6. CASE Wake
  <2>1. /\ pc = "sleep" /\ clock = wake /\ wake <= current + Work + Poll
        /\ pc' = "check" /\ current' = clock /\ am' = am /\ posted' = posted
        /\ UNCHANGED dicts
    BY <1>6 DEF Wake, BeginCycle, GapInv, Timing, history
  <2>2. \A k \in Keys : FiringSince(k)' = FiringSince(k)
    BY <2>1 DEF FiringSince, dicts
  <2>3. \A k \in posted : FiringSince(k) # Absent /\ am[k] >= current + Ttl
    BY <2>1 DEF GapInv, PostedInv
  <2> QED BY <1>1, <2>1, <2>2, <2>3 DEF PostedInv
<1>7. CASE Crash
  BY <1>7 DEF Crash, PostedInv
<1>8. CASE Restart
  BY <1>8 DEF Restart, BeginCycle, GapInv, PostedInv
<1> QED BY <1>2, <1>3, <1>4, <1>5, <1>6, <1>7, <1>8 DEF Next

LEMMA GapInit == Init => GapInv
  BY ConstantsAssumption, KeyFacts
     DEF Init, GapInv, Timing, BatchInv, PostedInv, Empty, FiringSince

LEMMA GapCorrect == Spec => []GapInv
<1>1. Spec => []TypeOK
  BY TypeCorrect
<1>2. TypeOK /\ TypeOK' /\ StampInv /\ GapInv /\ [Next]_vars => GapInv'
  BY TimingStep, BatchStep, PostedStep DEF GapInv
<1> QED BY <1>1, <1>2, GapInit, StampCorrect, PTL DEF Spec

\* An alert that was delivered once stays active for as long as its fault fires
\* and its POSTs arrive: RenewalAssumption, the room the deployment's intervals
\* leave, is what the proof needs and the only thing it needs of them.
THEOREM NoGapCorrect == Spec => []NoGap
<1>1. Spec => []TypeOK
  BY TypeCorrect
<1>2. TypeOK /\ StampInv /\ GapInv => NoGap
  <2> SUFFICES ASSUME TypeOK, StampInv, GapInv, NEW k \in posted, FiringSince(k) # Absent
               PROVE  clock < am[k]
    BY DEF NoGap, Active
  <2>1. /\ clock \in Nat /\ current \in Nat /\ wake \in Nat /\ am[k] \in Nat
        /\ Ttl \in Nat /\ Work \in Nat /\ Poll \in Nat /\ Work + Poll + Work < Ttl
    BY ConstantsAssumption, RenewalAssumption DEF TypeOK
  <2>2. CASE pc = "sleep"
    BY <2>1, <2>2 DEF GapInv, Timing, PostedInv
  <2>3. CASE pc \in {"check", "send"}
    BY <2>1, <2>3 DEF GapInv, Timing, PostedInv
  <2>4. pc # "dead"
    BY DEF GapInv, PostedInv
  <2> QED BY <2>2, <2>3, <2>4 DEF TypeOK
<1> QED BY <1>1, <1>2, StampCorrect, GapCorrect, PTL

-------------------------------------------------------------------------------
(* Escalation.  Inductive: for a tenant that lacks a group, in a process that *)
(* is up, the first cycle that begins after both has queried it stamps the    *)
(* fault, and the first that begins a grace period after the stamp fires it;  *)
(* so while it does not fire, the reading of the current cycle is no later    *)
(* than one of them, or it is the next and the tenant has still to be queried.*)

Up(t) == Later(since[t], started)
Noticed(t) == Up(t) + Work + Poll

LateFor(t) ==
    /\ missing_since[t] # Absent => missing_since[t] <= Noticed(t)
    /\ firing_since[t] = Absent =>
          \/ current <= Up(t)
          \/ missing_since[t] # Absent /\ current < missing_since[t] + Grace
          \/ t \in todo /\ current <= Noticed(t)
          \/ /\ t \in todo /\ missing_since[t] # Absent
             /\ current <= missing_since[t] + Grace + Work + Poll

EscalateInv == pc # "dead" => \A t \in Tenants : Lacking(t) => LateFor(t)

\* What lacks a group is found to lack it.
LEMMA LackingIsFound ==
    ASSUME TypeOK, NEW t \in Tenants, Lacking(t), Check(t)
    PROVE  FoundMissing(t, Groups \ answer[t])
<1>1. answer[t] \in SUBSET Groups /\ answer[t] # Groups /\ answer[t] # NoAnswer
  BY DEF TypeOK, Answer, Lacking
<1> QED BY <1>1 DEF Check

LEMMA EscalateFrame ==
    ASSUME TypeOK, EscalateInv, pc # "dead",
           UNCHANGED <<current, todo, missing_since, firing_since, environment, started>>
    PROVE  EscalateInv'
BY DEF EscalateInv, LateFor, Lacking, Up, Noticed, Later, environment

\* A query that finds a group missing stamps the fault, or fires it when it is due.
LEMMA EscalateCheck ==
    ASSUME TypeOK, StampInv, EscalateInv, NEW t \in Tenants, Check(t)
    PROVE  EscalateInv'
<1> USE ConstantsAssumption
<1>1. /\ UNCHANGED <<current, answer, since, started>> /\ todo' = todo \ {t}
      /\ pc = "check" /\ t \in todo
  BY DEF Check, environment
<1>2. ASSUME NEW u \in Tenants, u # t, Lacking(u)' PROVE LateFor(u)'
  <2>1. missing_since'[u] = missing_since[u] /\ firing_since'[u] = firing_since[u]
    BY <1>2, CheckLeavesOthers
  <2>2. LateFor(u)
    BY <1>1, <1>2 DEF EscalateInv, Lacking
  <2> QED BY <1>1, <1>2, <2>1, <2>2 DEF LateFor, Up, Noticed, Later
<1>3. ASSUME Lacking(t)' PROVE LateFor(t)'
  <2>1. Lacking(t) /\ LateFor(t)
    BY <1>1, <1>3 DEF EscalateInv, Lacking
  <2> DEFINE ms == SetDefault(missing_since[t], current)
             fs == SetDefault(firing_since[t], ms)
  <2>2. /\ missing_since'[t] = ms
        /\ firing_since'[t] = IF Overdue(ms) THEN fs ELSE firing_since[t]
    BY <2>1, LackingIsFound DEF FoundMissing, Store, TypeOK
  <2>3. /\ current \in Nat /\ since[t] \in Nat /\ started \in Nat
        /\ missing_since[t] \in Stamp /\ firing_since[t] \in Stamp
    BY DEF TypeOK
  <2>4. ms \in Nat /\ fs \in Nat /\ Up(t) \in Nat
    BY <2>3 DEF SetDefault, Stamp, Up, Later
  <2>5. ms <= Noticed(t)
    BY <2>1, <2>3, <2>4, ConstantsAssumption DEF LateFor, SetDefault, Noticed, StampInv, SoundStamps, Stamp
  <2>6. firing_since'[t] = Absent => current < ms + Grace
    BY <2>2, <2>3, <2>4 DEF Overdue
  <2>7. Up(t)' = Up(t) /\ Noticed(t)' = Noticed(t)
    BY <1>1 DEF Up, Noticed, Later
  <2> QED BY <1>1, <2>2, <2>4, <2>5, <2>6, <2>7 DEF LateFor
<1> QED BY <1>2, <1>3 DEF EscalateInv

\* The next cycle reads the clock at most Work + Poll later.
LEMMA EscalateWake ==
    ASSUME TypeOK, TypeOK', StampInv, Timing, EscalateInv, Wake
    PROVE  EscalateInv'
<1>1. /\ UNCHANGED <<missing_since, firing_since, answer, since, started>>
      /\ pc = "sleep" /\ todo = {} /\ todo' = Tenants
      /\ current' = clock /\ clock <= current + Work + Poll
      /\ clock \in Nat /\ current \in Nat /\ {Work, Poll, Grace} \subseteq Nat
  BY ConstantsAssumption DEF Wake, BeginCycle, dicts, environment, history, Timing, TypeOK
<1> SUFFICES ASSUME NEW t \in Tenants, Lacking(t)' PROVE LateFor(t)'
  BY DEF EscalateInv
<1>2. LateFor(t)
  BY <1>1 DEF EscalateInv, Lacking
<1>3. Up(t) \in Nat /\ Up(t)' = Up(t) /\ Noticed(t)' = Noticed(t)
  BY <1>1 DEF Up, Noticed, Later, TypeOK
<1>4. missing_since[t] # Absent => missing_since[t] \in Nat
  BY DEF TypeOK, Stamp
<1> QED BY <1>1, <1>2, <1>3, <1>4 DEF LateFor, Noticed

LEMMA EscalateStep ==
    TypeOK /\ TypeOK' /\ StampInv /\ Timing /\ EscalateInv /\ [Next]_vars => EscalateInv'
<1> SUFFICES ASSUME TypeOK, TypeOK', StampInv, Timing, EscalateInv, [Next]_vars
             PROVE  EscalateInv'
  OBVIOUS
<1> USE ConstantsAssumption
<1>1. CASE UNCHANGED vars \/ Tick
  <2>1. UNCHANGED <<pc, current, todo, missing_since, firing_since, environment, started>>
    BY <1>1 DEF vars, Tick, dicts, environment, history
  <2> QED BY <2>1, EscalateFrame DEF EscalateInv
<1>2. ASSUME NEW u \in Tenants, RulerChange(u) PROVE EscalateInv'
  <2>1. /\ UNCHANGED <<pc, current, todo, missing_since, firing_since, started>>
        /\ since'[u] = clock
        /\ \A t \in Tenants \ {u} : since'[t] = since[t] /\ answer'[t] = answer[t]
    BY <1>2 DEF RulerChange, dicts, history, TypeOK
  <2>2. ASSUME pc # "dead", NEW t \in Tenants \ {u}, Lacking(t)' PROVE LateFor(t)'
    BY <2>1, <2>2 DEF EscalateInv, Lacking, LateFor, Up, Noticed, Later
  <2>3. LateFor(u)'
    <3>1. current <= clock /\ (missing_since[u] # Absent => missing_since[u] <= current)
      BY DEF StampInv, SoundStamps
    <3>2. /\ current \in Nat /\ clock \in Nat /\ started \in Nat
          /\ missing_since[u] # Absent => missing_since[u] \in Nat
      BY DEF TypeOK, Stamp
    <3>3. Up(u)' \in Nat /\ clock <= Up(u)' /\ Noticed(u)' = Up(u)' + Work + Poll
      BY <2>1, <3>2 DEF Up, Noticed, Later
    <3> QED BY <2>1, <3>1, <3>2, <3>3 DEF LateFor
  <2> QED BY <2>1, <2>2, <2>3 DEF EscalateInv
<1>3. ASSUME NEW t \in Tenants, Check(t) PROVE EscalateInv'
  BY <1>3, EscalateCheck
<1>4. ASSUME NEW delivered \in BOOLEAN, Send(delivered) PROVE EscalateInv'
  BY <1>4, EscalateFrame DEF Send, dicts
<1>5. CASE Wake
  BY <1>5, EscalateWake
<1>6. CASE Crash
  BY <1>6 DEF Crash, EscalateInv
<1>7. CASE Restart
  <2>1. /\ started' = clock /\ current' = clock
        /\ UNCHANGED <<missing_since, firing_since, since>>
        /\ clock \in Nat /\ since \in [Tenants -> Nat]
    BY <1>7 DEF Restart, BeginCycle, dicts, environment, TypeOK
  <2>2. ASSUME NEW t \in Tenants PROVE LateFor(t)'
    <3>1. Up(t)' \in Nat /\ clock <= Up(t)' /\ Noticed(t)' = Up(t)' + Work + Poll
      BY <2>1 DEF Up, Noticed, Later
    <3>2. missing_since[t] # Absent => missing_since[t] \in Nat /\ missing_since[t] <= clock
      BY DEF StampInv, SoundStamps, TypeOK, Stamp
    <3> QED BY <2>1, <3>1, <3>2 DEF LateFor
  <2> QED BY <2>2 DEF EscalateInv
<1> QED BY <1>1, <1>2, <1>3, <1>4, <1>5, <1>6, <1>7 DEF Next

LEMMA EscalateInit == Init => EscalateInv
<1> SUFFICES ASSUME Init, NEW t \in Tenants PROVE LateFor(t)
  BY DEF EscalateInv
<1>1. current = 0 /\ Up(t) = 0 /\ missing_since[t] = Absent
  BY DEF Init, Empty, Up, Later
<1> QED BY <1>1 DEF LateFor

\* A tenant that lacks a group fires after at most the grace period, two whole
\* cycles and the requests of a third, for any number of tenants and any lengths of
\* the grace period, the requests and the sleep; outages before it and an older
\* stamp make it no later.
THEOREM EscalatesCorrect == Spec => []Escalates
<1>1. TypeOK /\ Timing /\ EscalateInv => Escalates
  <2> SUFFICES ASSUME TypeOK, Timing, EscalateInv, NEW t \in Tenants, pc # "dead",
                      Lacking(t), firing_since[t] = Absent,
                      clock > Up(t) + Grace + 2 * (Work + Poll) + Work
               PROVE  FALSE
    BY DEF Escalates, Up
  <2>1. /\ clock \in Nat /\ current \in Nat /\ wake \in Nat /\ Up(t) \in Nat
        /\ {Work, Poll, Grace} \subseteq Nat
        /\ missing_since[t] # Absent => missing_since[t] \in Nat
    BY ConstantsAssumption DEF TypeOK, Stamp, Up, Later
  <2>2. LateFor(t)
    BY DEF EscalateInv
  <2>3. /\ clock <= current + Work + Poll
        /\ t \in todo => clock <= current + Work
    BY <2>1 DEF Timing, TypeOK
  <2> QED BY <2>1, <2>2, <2>3 DEF LateFor, Noticed
<1>2. Spec => []TypeOK
  BY TypeCorrect
<1>3. Spec => []Timing
  BY GapCorrect, PTL DEF GapInv
<1> QED BY <1>1, <1>2, <1>3, StampCorrect, EscalateInit, EscalateStep, PTL DEF Spec
===============================================================================
