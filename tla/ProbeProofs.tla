----------------------------- MODULE ProbeProofs -----------------------------
(***************************************************************************)
(* Proofs about the probe of running-workload-image-probe, whose one loop  *)
(* ImageProbe and VeleroScan look at from two sides.  For any images,      *)
(* intervals and outages, an image is called missing only when the         *)
(* registry lacked it during that scan, and its alert fires only after as  *)
(* many such scans as the quarter of an hour holds.  For any pools of      *)
(* claims, pods and Schedules, the verdict on a claim that nobody touched  *)
(* during the scan is the true one, although the four lists were read at   *)
(* four different moments.                                                 *)
(***************************************************************************)
EXTENDS ImageProbe, VeleroScan, Integers, TLAPS

-------------------------------------------------------------------------------
(* The images.                                                             *)

\* The history variable holds at least the images that are gone right now, so
\* the answer to any request of the scan is covered by it.
GoneInv ==
    /\ manifest \in [Internal -> Answers]
    /\ results \in [Images -> Statuses]
    /\ unasked \subseteq Internal /\ refused \subseteq Internal
    /\ \A i \in Images : Gone(i) => i \in gone_seen
    /\ pc = "sleep" => results = Nothing
    /\ MissingIsDefinitive

LEMMA ClassifyMeaning ==
    ASSUME NEW i \in Internal, manifest \in [Internal -> Answers]
    PROVE  /\ Classify(i) \in Statuses
           /\ Classify(i) = "missing" => Gone(i)
<1>1. manifest[i] \in Answers
  OBVIOUS
<1> QED BY <1>1 DEF Classify, Statuses, Answers, Gone

THEOREM MissingIsDefinitiveCorrect == Spec => []MissingIsDefinitive
<1>1. Init => GoneInv
  BY DEF Init, GoneInv, Nothing, Statuses, MissingIsDefinitive
<1>2. GoneInv /\ [Next]_vars => GoneInv'
  <2> SUFFICES ASSUME GoneInv, [Next]_vars PROVE GoneInv'
    OBVIOUS
  <2> USE DEF GoneInv, MissingIsDefinitive, Gone
  <2>1. ASSUME NEW i \in Images, PodChange(i) PROVE GoneInv'
    BY <2>1 DEF PodChange, scan, history
  <2>2. ASSUME NEW i \in Internal, RegistryChange(i) PROVE GoneInv'
    <3>1. \A j \in Internal : j # i => manifest'[j] = manifest[j]
      BY <2>2 DEF RegistryChange
    <3>2. manifest' \in [Internal -> Answers]
      BY <2>2 DEF RegistryChange
    <3>3. gone_seen \subseteq gone_seen' /\ (manifest'[i] = "gone" => i \in gone_seen')
      BY <2>2 DEF RegistryChange
    <3> QED BY <2>2, <3>1, <3>2, <3>3 DEF RegistryChange, scan
  <2>3. CASE Tick
    BY <2>3 DEF Tick, environment, history
  <2>4. CASE ScanFails
    BY <2>4 DEF ScanFails, Rest, Nothing, Statuses, environment
  <2>5. CASE ListPods
    BY <2>5 DEF ListPods, Proceed, Statuses, environment, history
  <2>6. ASSUME NEW i \in Internal, HeadRequest(i) PROVE GoneInv'
    <3>1. CASE RefusesHead /\ manifest[i] # "error"
      BY <2>6, <3>1 DEF HeadRequest, environment, history
    <3>2. CASE ~(RefusesHead /\ manifest[i] # "error")
      BY <2>6, <3>2, ClassifyMeaning DEF HeadRequest, environment, history, Images
    <3> QED BY <3>1, <3>2
  <2>7. ASSUME NEW i \in Internal, GetRequest(i) PROVE GoneInv'
    BY <2>7, ClassifyMeaning DEF GetRequest, environment, history, Images
  <2>8. CASE PoolDone \/ ListPvcs \/ ListPvs
    BY <2>8 DEF PoolDone, ListPvcs, ListPvs, Proceed, environment, history
  <2>9. CASE ListSchedules
    BY <2>9 DEF ListSchedules, Rest, Nothing, Statuses, environment
  <2>10. CASE Wake
    <3>1. results' = results /\ manifest' = manifest
      BY <2>10 DEF Wake, environment
    <3>2. results = Nothing
      BY <2>10 DEF Wake
    <3> QED BY <2>10, <3>1, <3>2 DEF Wake, environment, Nothing
  <2>11. CASE UNCHANGED vars
    BY <2>11 DEF vars, environment, scan, history
  <2> QED
    BY <2>1, <2>2, <2>3, <2>4, <2>5, <2>6, <2>7, <2>8, <2>9, <2>10, <2>11
    DEF Next, Scan
<1>3. GoneInv => MissingIsDefinitive
  BY DEF GoneInv
<1> QED BY <1>1, <1>2, <1>3, PTL DEF Spec
-------------------------------------------------------------------------------
(* Types.                                                                  *)

\* A timer of a rule stays within its cap.
LEMMA AgedType ==
    ASSUME NEW age \in 0 .. For + 1, NEW holds \in BOOLEAN
    PROVE  Aged(age, holds) \in 0 .. For + 1
BY ConstantsAssumption DEF Aged

LEMMA StreakCapType == StreakCap \in Nat \ {0}
<1>1. For \div Interval \in Nat
  BY ConstantsAssumption
<1> QED BY <1>1 DEF StreakCap

\* Every reachable state has the types the program gives its variables.
THEOREM TypeCorrect == Spec => []TypeOK
<1>1. Init => TypeOK
  <2> SUFFICES ASSUME Init PROVE TypeOK
    OBVIOUS
  <2>1. 0 \in 0 .. For + 1 /\ 0 \in 0 .. StreakCap
    BY ConstantsAssumption, StreakCapType
  <2>2. /\ missing_for \in [Images -> 0 .. For + 1]
        /\ unknown_for \in [Images -> 0 .. For + 1]
        /\ unavailable_for \in 0 .. For + 1 /\ streak \in [Images -> 0 .. StreakCap]
    BY <2>1 DEF Init
  <2>3. results \in [Images -> Statuses] /\ statuses \in [Images -> Statuses]
    BY DEF Init, Nothing, Statuses
  <2> QED BY <2>2, <2>3 DEF Init, TypeOK
<1>2. TypeOK /\ [Next]_vars => TypeOK'
  <2> SUFFICES ASSUME TypeOK, [Next]_vars PROVE TypeOK'
    OBVIOUS
  <2> USE DEF TypeOK
  <2>1. ASSUME NEW i \in Images, PodChange(i) PROVE TypeOK'
    BY <2>1 DEF PodChange, scan, page, rules, history
  <2>2. ASSUME NEW i \in Internal, RegistryChange(i) PROVE TypeOK'
    <3>1. manifest' \in [Internal -> Answers]
      BY <2>2 DEF RegistryChange
    <3>2. gone_seen' \subseteq Images
      BY <2>2 DEF RegistryChange, Images
    <3> QED BY <2>2, <3>1, <3>2 DEF RegistryChange, scan, page, rules
  <2>3. CASE Tick
    <3>1. Evaluate /\ spent' \in Nat
      BY <2>3 DEF Tick
    <3>2. /\ missing_for' \in [Images -> 0 .. For + 1]
          /\ unknown_for' \in [Images -> 0 .. For + 1]
          /\ unavailable_for' \in 0 .. For + 1
      BY <3>1, AgedType DEF Evaluate
    <3> QED BY <2>3, <3>1, <3>2 DEF Tick, environment, page, history
  <2>4. CASE ScanFails
    <3>1. 0 \in 0 .. StreakCap
      BY StreakCapType
    <3>2. streak' \in [Images -> 0 .. StreakCap]
      BY <2>4, <3>1 DEF ScanFails
    <3> QED BY <2>4, <3>2
        DEF ScanFails, Rest, BlankPage, Nothing, Statuses, environment, rules
  <2>5. CASE ListPods
    BY <2>5 DEF ListPods, Proceed, Statuses, environment, rules, page, history
  <2>6. ASSUME NEW i \in Internal, HeadRequest(i) PROVE TypeOK'
    <3>1. results' \in [Images -> Statuses] /\ refused' \subseteq Internal
      BY <2>6, ClassifyMeaning DEF HeadRequest
    <3> QED BY <2>6, <3>1 DEF HeadRequest, environment, page, rules, history
  <2>7. ASSUME NEW i \in Internal, GetRequest(i) PROVE TypeOK'
    <3>1. results' \in [Images -> Statuses]
      BY <2>7, ClassifyMeaning DEF GetRequest
    <3> QED BY <2>7, <3>1 DEF GetRequest, environment, page, rules, history
  <2>8. CASE PoolDone \/ ListPvcs \/ ListPvs
    BY <2>8 DEF PoolDone, ListPvcs, ListPvs, Proceed, environment, rules, page, history
  <2>9. CASE ListSchedules
    <3>1. \A i \in Images : Counted(i) \in 0 .. StreakCap
      BY StreakCapType DEF Counted
    <3> QED BY <2>9, <3>1 DEF ListSchedules, Rest, Nothing, Statuses, environment, rules
  <2>10. CASE Wake
    BY <2>10 DEF Wake, environment, page, rules
  <2>11. CASE UNCHANGED vars
    BY <2>11 DEF vars, environment, scan, page, rules, history
  <2> QED
    BY <2>1, <2>2, <2>3, <2>4, <2>5, <2>6, <2>7, <2>8, <2>9, <2>10, <2>11
    DEF Next, Scan
<1> QED BY <1>1, <1>2, PTL DEF Spec

-------------------------------------------------------------------------------
(* The age of an alert and the scans behind it.                            *)

Period == Interval + Work    \* the longest from one page to the next

\* Time since the page was published, if the scan that did so was not the
\* process's first act.
PageAge == IF pc = "sleep" THEN spent ELSE Interval + spent

\* The pace of the scans: the thread sleeps Interval, and a scan takes Work at
\* the most.
Paced == /\ pc = "sleep" => spent <= Interval
         /\ pc # "sleep" => spent <= Work

\* A status other than missing has stopped the timer at the first evaluation
\* after its page appeared.
TimerStopped(i) ==
    statuses[i] # "missing" /\ ~(pc = "sleep" /\ spent = 0) => missing_for[i] = 0

\* Each scan in a row that found the image missing accounts for one period, the
\* last one for the age of its page.
TimerCounted(i) ==
    statuses[i] = "missing" =>
        /\ streak[i] \in Nat \ {0}
        /\ streak[i] < StreakCap => missing_for[i] <= (streak[i] - 1) * Period + PageAge

EvidenceInv == TypeOK /\ Paced /\ \A i \in Images : TimerStopped(i) /\ TimerCounted(i)
LEMMA CapOutlasts == StreakCap * Period >= For
<1>1. ASSUME NEW n \in Nat PROVE (n + 1) * Period >= (n + 1) * Interval
  BY <1>1, ConstantsAssumption DEF Period
<1>2. For \div Interval \in Nat /\ For < (For \div Interval + 1) * Interval
  BY ConstantsAssumption
<1>3. (For \div Interval + 1) * Period \in Nat /\ (For \div Interval + 1) * Interval \in Nat
  BY <1>2, ConstantsAssumption DEF Period
<1> QED BY <1>1, <1>2, <1>3, ConstantsAssumption DEF StreakCap

\* A page is replaced within a period of its publication.
LEMMA PageAgeBound ==
    ASSUME TypeOK, Paced
    PROVE  PageAge \in Nat /\ PageAge <= Period
BY ConstantsAssumption DEF TypeOK, Paced, PageAge, Period

\* An alert for an image the page calls missing rests on as many scans in a row
\* as a quarter of an hour takes: no single answer of the registry makes it fire.
THEOREM FiresOnRepeatedEvidenceCorrect == Spec => []FiresOnRepeatedEvidence
<1>1. Init /\ TypeOK => EvidenceInv
  BY ConstantsAssumption
  DEF Init, EvidenceInv, Paced, TimerStopped, TimerCounted, Nothing
<1>2. EvidenceInv /\ TypeOK' /\ [Next]_vars => EvidenceInv'
  <2> SUFFICES ASSUME EvidenceInv, TypeOK', [Next]_vars
               PROVE  Paced' /\ \A i \in Images : TimerStopped(i)' /\ TimerCounted(i)'
    BY DEF EvidenceInv
  <2>p. Period \in Nat /\ Interval \in Nat \ {0} /\ Work \in Nat /\ Period = Interval + Work
    BY ConstantsAssumption DEF Period
  <2>t. TypeOK /\ Paced /\ \A i \in Images : TimerStopped(i) /\ TimerCounted(i)
    BY DEF EvidenceInv
  <2> DEFINE Same == UNCHANGED <<pc, spent, page, rules, streak>>
  <2>1. CASE Same
    BY <2>1, <2>t DEF Paced, TimerStopped, TimerCounted, PageAge, page, rules
  <2>2. CASE Tick
    <3>1. /\ spent' = spent + 1 /\ UNCHANGED <<pc, statuses, streak>>
          /\ spent < (IF pc = "sleep" THEN Interval ELSE Work)
      BY <2>2 DEF Tick, page, history
    <3>2. spent \in Nat
      BY <2>t DEF TypeOK
    <3>3. Paced'
      BY <3>1, <3>2, <2>p DEF Paced
    <3>4. ASSUME NEW i \in Images PROVE TimerStopped(i)' /\ TimerCounted(i)'
      <4>1. missing_for'[i] = Aged(missing_for[i], statuses[i] = "missing")
        BY <2>2 DEF Tick, Evaluate
      <4>2. CASE statuses[i] # "missing"
        BY <3>1, <4>1, <4>2 DEF TimerStopped, TimerCounted, Aged
      <4>3. CASE statuses[i] = "missing"
        <5>1. missing_for[i] \in Nat /\ missing_for'[i] <= missing_for[i] + 1
          BY <2>t, <4>1, <4>3, ConstantsAssumption DEF TypeOK, Aged
        <5>2. PageAge \in Nat /\ PageAge' = PageAge + 1
          BY <3>1, <3>2, <2>p DEF PageAge
        <5>3. streak[i] \in Nat /\ (streak[i] - 1) * Period \in Int
          BY <2>t, <2>p, StreakCapType DEF TypeOK
        <5>4. missing_for'[i] \in Nat
          BY ConstantsAssumption DEF TypeOK
        <5>5. TimerCounted(i)
          BY <2>t
        <5> QED BY <3>1, <4>3, <5>1, <5>2, <5>3, <5>4, <5>5 DEF TimerStopped, TimerCounted
      <4> QED BY <4>2, <4>3
    <3> QED BY <3>3, <3>4
  <2>3. CASE ScanFails
    BY <2>3, <2>p, ConstantsAssumption
    DEF ScanFails, Rest, BlankPage, Nothing, Paced, TimerStopped, TimerCounted
  <2>4. CASE ListSchedules
    <3>1. /\ pc = "schedules" /\ pc' = "sleep" /\ spent' = 0
          /\ statuses' = results /\ missing_for' = missing_for
          /\ streak' = [i \in Images |-> Counted(i)]
      BY <2>4 DEF ListSchedules, Rest, rules
    <3>2. Paced'
      BY <3>1, <2>p DEF Paced
    <3>3. ASSUME NEW i \in Images PROVE TimerStopped(i)' /\ TimerCounted(i)'
      <4>1. TimerStopped(i)'
        BY <3>1 DEF TimerStopped
      <4>2. ASSUME results[i] = "missing"
            PROVE  TimerCounted(i)'
        <5>1. streak[i] \in 0 .. StreakCap /\ missing_for[i] \in Nat
          BY <2>t, ConstantsAssumption DEF TypeOK
        <5>2. streak'[i] = IF streak[i] < StreakCap THEN streak[i] + 1 ELSE streak[i]
          BY <3>1, <4>2 DEF Counted
        <5>3. PageAge' = 0
          BY <3>1 DEF PageAge
        <5>4. streak'[i] \in Nat \ {0}
          BY <5>1, <5>2, StreakCapType
        <5>5. streak[i] < StreakCap => missing_for[i] <= streak[i] * Period
          <6>1. CASE statuses[i] = "missing"
            <7>1. streak[i] \in Nat \ {0} /\ (streak[i] < StreakCap => missing_for[i] <= (streak[i] - 1) * Period + PageAge)
              BY <2>t, <6>1 DEF TimerCounted
            <7>2. PageAge \in Nat /\ PageAge <= Period
              BY <2>t, PageAgeBound
            <7>3. (streak[i] - 1) * Period + Period = streak[i] * Period /\ (streak[i] - 1) * Period \in Int
              BY <7>1, <2>p
            <7> QED BY <7>1, <7>2, <7>3, <5>1, <2>p
          <6>2. CASE statuses[i] # "missing"
            <7>1. missing_for[i] = 0
              BY <2>t, <6>2, <3>1 DEF TimerStopped
            <7>2. streak[i] * Period \in Nat
              BY <5>1, <2>p, StreakCapType
            <7> QED BY <7>1, <7>2
          <6> QED BY <6>1, <6>2
        <5>6. streak'[i] < StreakCap => streak[i] < StreakCap /\ streak'[i] - 1 = streak[i]
          BY <5>1, <5>2, StreakCapType
        <5>7. streak[i] * Period \in Nat
          BY <5>1, <2>p, StreakCapType
        <5> QED BY <3>1, <5>3, <5>4, <5>5, <5>6, <5>7 DEF TimerCounted
      <4>3. results[i] # "missing" => TimerCounted(i)'
        BY <3>1 DEF TimerCounted
      <4> QED BY <4>1, <4>2, <4>3
    <3> QED BY <3>2, <3>3
  <2>5. CASE Wake
    <3>1. /\ pc = "sleep" /\ pc' = "pods" /\ spent = Interval /\ spent' = 0
          /\ UNCHANGED <<statuses, missing_for, streak>>
      BY <2>5 DEF Wake, page, rules
    <3>2. PageAge' = PageAge
      BY <3>1, <2>p DEF PageAge
    <3>3. ASSUME NEW i \in Images PROVE TimerStopped(i)' /\ TimerCounted(i)'
      <4>1. TimerStopped(i) /\ TimerCounted(i)
        BY <2>t
      <4> QED BY <3>1, <3>2, <4>1, <2>p DEF TimerStopped, TimerCounted
    <3>4. Paced'
      BY <3>1, <2>p DEF Paced
    <3> QED BY <3>3, <3>4
  <2>6. CASE ListPods \/ PoolDone \/ ListPvcs \/ ListPvs
    <3>1. pc \notin {"sleep"} /\ pc' # "sleep" /\ UNCHANGED <<spent, page, rules, streak>>
      BY <2>6 DEF ListPods, PoolDone, ListPvcs, ListPvs, Proceed, history
    <3> QED BY <3>1, <2>t DEF Paced, TimerStopped, TimerCounted, PageAge, page, rules
  <2> QED
    <3>1. ASSUME NEW i \in Images, PodChange(i) PROVE Same
      BY <3>1 DEF PodChange, scan, history
    <3>2. ASSUME NEW i \in Internal, RegistryChange(i) \/ HeadRequest(i) \/ GetRequest(i) PROVE Same
      BY <3>2 DEF RegistryChange, HeadRequest, GetRequest, scan, history
    <3>3. UNCHANGED vars => Same
      BY DEF vars, scan, history
    <3> HIDE DEF Same
    <3> QED BY <2>1, <2>2, <2>3, <2>4, <2>5, <2>6, <3>1, <3>2, <3>3 DEF Next, Scan
<1>3. EvidenceInv => FiresOnRepeatedEvidence
  <2> SUFFICES ASSUME EvidenceInv, NEW i \in Images, MissingFires(i), statuses[i] = "missing"
               PROVE  streak[i] * (Interval + Work) >= For
    BY DEF FiresOnRepeatedEvidence
  <2>1. PageAge \in Nat /\ PageAge <= Period
    BY PageAgeBound DEF EvidenceInv
  <2>2. /\ streak[i] \in Nat \ {0} /\ streak[i] <= StreakCap
        /\ streak[i] < StreakCap => missing_for[i] <= (streak[i] - 1) * Period + PageAge
    BY StreakCapType DEF EvidenceInv, TimerCounted, TypeOK
  <2>3. missing_for[i] \in Nat /\ missing_for[i] > For
    BY ConstantsAssumption DEF MissingFires, EvidenceInv, TypeOK
  <2>4. Period \in Nat /\ Period = Interval + Work
    BY ConstantsAssumption DEF Period
  <2>5. /\ (streak[i] - 1) * Period + Period = streak[i] * Period
        /\ (streak[i] - 1) * Period \in Int
    BY <2>2, <2>4
  <2>6. CASE streak[i] < StreakCap
    BY <2>1, <2>2, <2>3, <2>4, <2>5, <2>6, ConstantsAssumption
  <2>7. CASE streak[i] = StreakCap
    BY <2>7, <2>4, CapOutlasts
  <2> QED BY <2>2, <2>6, <2>7, StreakCapType
<1> QED BY <1>1, <1>2, <1>3, TypeCorrect, PTL DEF Spec

-------------------------------------------------------------------------------
(* The claims.                                                             *)

\* An expression is satisfied as Kubernetes defines its operator.
LEMMA SatisfiesMeaning ==
    ASSUME NEW labels, NEW e
    PROVE  Satisfies(labels, e) <=>
             LET has == labels[e.key] # Unset
                 among == has /\ labels[e.key] \in e.values
             IN  CASE e.op = "In" -> among [] e.op = "NotIn" -> ~among
                   [] e.op = "Exists" -> has [] e.op = "DoesNotExist" -> ~has
                   [] OTHER -> FALSE
<1>1. CASE e.op = "In" BY <1>1 DEF Satisfies
<1>2. CASE e.op = "NotIn" BY <1>2 DEF Satisfies
<1>3. CASE e.op = "Exists" BY <1>3 DEF Satisfies
<1>4. CASE e.op = "DoesNotExist" BY <1>4 DEF Satisfies
<1>5. CASE e.op \notin {"In", "NotIn", "Exists", "DoesNotExist"}
  BY <1>5 DEF Satisfies
<1> QED BY <1>1, <1>2, <1>3, <1>4, <1>5

\* The loops over Schedules and mounts find a data schedule exactly when some
\* live Schedule captures the volume.
LEMMA DataMeansCaptured ==
    ASSUME NEW p \in Pvcs
    PROVE  data_schedules(claims[p], mounts[p], schedules) # {} <=> Captured(p)
<1> DEFINE Takes(s, m) ==
        PodSelected(s, claims[p], m) /\ schedule_selects_volume(s, m)
<1>1. data_schedules(claims[p], mounts[p], schedules) # {}
        <=> \E s \in schedules, m \in mounts[p] : Takes(s, m)
  BY DEF data_schedules
<1>2. ASSUME NEW s \in schedules, NEW m \in mounts[p]
      PROVE  Takes(s, m) <=>
               /\ ~s.paused /\ ~m.opted_out /\ (s.fs_backup \/ m.opted_in)
               /\ s.included = {} \/ s.included \cap {Wildcard, claims[p].namespace} # {}
               /\ ~(s.excluded \cap {Wildcard, claims[p].namespace} # {})
               /\ s.resources = {} \/ s.resources \cap {Wildcard, "pods"} # {}
               /\ s.dropped \cap {Wildcard, "pods"} = {}
               /\ \A e \in s.selector : Satisfies(m.labels, e)
  BY DEF PodSelected, schedule_selects, schedule_selects_volume,
         resource_selector_matches, selector_matches
<1> HIDE DEF Takes
<1> QED
  BY <1>1, <1>2, SatisfiesMeaning DEF Captured

\* A claim whose data is captured matches some Schedule, so the two gaps
\* together say that nothing captures it.
LEMMA JudgedIsTrue ==
    ASSUME NEW p \in Pvcs
    PROVE  Judged(p, claims, hostpath, mounts, schedules) \in Gaps
             <=> Eligible(p) /\ ~Captured(p)
<1> DEFINE D == data_schedules(claims[p], mounts[p], schedules)
           M == matching_schedules(claims[p], mounts[p], schedules)
<1>1. D # {} => M # {}
  BY DEF data_schedules, matching_schedules
<1>2. D # {} <=> Captured(p)
  BY DataMeansCaptured
<1>3. structural_exclusion_reason(claims[p], p \in hostpath)
        \in {"none", "hostpath", "local_path"}
  BY DEF structural_exclusion_reason
<1>4. structural_exclusion_reason(claims[p], p \in hostpath) = "none"
        <=> ~claims[p].local /\ p \notin hostpath
  BY DEF structural_exclusion_reason
<1> HIDE DEF D, M
<1>5. CASE claims[p] = Absent
  BY <1>5 DEF Judged, Eligible, Gaps
<1>6. CASE claims[p] # Absent
  <2>1. Judged(p, claims, hostpath, mounts, schedules)
          = Verdict(claims[p], p \in hostpath, mounts[p], schedules)
    BY <1>6 DEF Judged
  <2>2. CASE ~claims[p].bound
    BY <1>6, <2>1, <2>2 DEF Verdict, Eligible, Gaps
  <2>3. CASE claims[p].bound /\
             structural_exclusion_reason(claims[p], p \in hostpath) # "none"
    BY <1>3, <1>4, <2>1, <2>3 DEF Verdict, Eligible, Gaps
  <2>4. CASE claims[p].bound /\
             structural_exclusion_reason(claims[p], p \in hostpath) = "none"
    <3>1. Verdict(claims[p], p \in hostpath, mounts[p], schedules)
            = IF claims[p].exempt THEN "skipped"
              ELSE IF M = {} THEN "no_schedule"
              ELSE IF D = {} THEN "no_volume_selection" ELSE "covered"
      BY <2>4 DEF Verdict, M, D
    <3> QED BY <1>1, <1>2, <1>4, <1>6, <2>1, <2>4, <3>1 DEF Eligible, Gaps
  <2> QED BY <2>2, <2>3, <2>4
<1> QED BY <1>5, <1>6

-------------------------------------------------------------------------------
(* Types, and the page after a failed scan.                                *)

\* Whatever a claim's record says, its verdict is one of six.
LEMMA JudgedType ==
    ASSUME NEW p, NEW claim, NEW hostpaths, NEW mounted, NEW live
    PROVE  Judged(p, claim, hostpaths, mounted, live) \in Verdicts \cup {"none"}
<1>1. ASSUME NEW pvc, NEW host, NEW ms, NEW ss
      PROVE  Verdict(pvc, host, ms, ss) \in Verdicts
  <2>1. structural_exclusion_reason(pvc, host) \in {"none", "hostpath", "local_path"}
    BY DEF structural_exclusion_reason
  <2>2. CASE ~pvc.bound
    BY <2>2 DEF Verdict, Verdicts
  <2>3. CASE pvc.bound /\ structural_exclusion_reason(pvc, host) # "none"
    BY <2>1, <2>3 DEF Verdict, Verdicts
  <2>4. CASE pvc.bound /\ structural_exclusion_reason(pvc, host) = "none"
    BY <2>4 DEF Verdict, Verdicts, Gaps
  <2> QED BY <2>2, <2>3, <2>4
<1> QED BY <1>1 DEF Judged

\* Every reachable state has the types the program gives its variables.
THEOREM VeleroTypeCorrect == VeleroSpec => []VeleroTypeOK
<1>1. VeleroInit => VeleroTypeOK
  BY DEF VeleroInit, VeleroTypeOK, NoMounts, NoClaims, NoVerdicts
<1>2. VeleroTypeOK /\ [VeleroNext]_velero_vars => VeleroTypeOK'
  <2> SUFFICES ASSUME VeleroTypeOK, [VeleroNext]_velero_vars PROVE VeleroTypeOK'
    OBVIOUS
  <2> USE DEF VeleroTypeOK
  <2>1. ASSUME NEW p \in Pvcs, ClaimChange(p) PROVE VeleroTypeOK'
    <3>1. claims' \in [Pvcs -> ClaimPool \cup {Absent}] /\ hostpath' \subseteq Pvcs
      BY <2>1 DEF ClaimChange
    <3> QED BY <2>1, <3>1 DEF ClaimChange, Touch, lists, selection_page
  <2>2. ASSUME NEW p \in Pvcs, NEW m \in MountPool, MountChange(p, m) PROVE VeleroTypeOK'
    <3>1. mounts' \in [Pvcs -> SUBSET MountPool]
      BY <2>2 DEF MountChange
    <3> QED BY <2>2, <3>1 DEF MountChange, Touch, lists, selection_page
  <2>3. ASSUME NEW s \in SchedulePool, ScheduleChange(s) PROVE VeleroTypeOK'
    BY <2>3 DEF ScheduleChange, Touch, lists, selection_page
  <2>4. CASE ReadPods
    BY <2>4 DEF ReadPods, PodsListed, world, selection_page
  <2>5. CASE ReadPvcs
    BY <2>5 DEF ReadPvcs, world, selection_page
  <2>6. CASE ReadPvs
    BY <2>6 DEF ReadPvs, world, selection_page
  <2>7. CASE ReadSchedules
    BY <2>7, JudgedType DEF ReadSchedules, ClearLists, NoMounts, NoClaims, world
  <2>8. CASE SelectionFails
    BY <2>8 DEF SelectionFails, DropVerdicts, ClearLists, NoMounts,
                NoClaims, NoVerdicts, world
  <2>9. CASE NextScan
    BY <2>9 DEF NextScan, world, lists, selection_page
  <2>10. CASE UNCHANGED velero_vars
    BY <2>10 DEF velero_vars, world, lists, selection_page
  <2> QED
    BY <2>1, <2>2, <2>3, <2>4, <2>5, <2>6, <2>7, <2>8, <2>9, <2>10 DEF VeleroNext, SelectionScan
<1> QED BY <1>1, <1>2, PTL DEF VeleroSpec

\* A page that says its scan failed carries no verdict, whichever of the four
\* lists failed and however long the failures last.
NoStaleVerdict == ~velero_success => verdicts = NoVerdicts

LEMMA NoStaleVerdictCorrect == VeleroSpec => []NoStaleVerdict
<1>1. VeleroInit => NoStaleVerdict
  BY DEF VeleroInit, NoStaleVerdict
<1>2. NoStaleVerdict /\ [VeleroNext]_velero_vars => NoStaleVerdict'
  <2>1. [VeleroNext]_velero_vars => \/ UNCHANGED selection_page
                       \/ velero_success'
                       \/ verdicts' = NoVerdicts
    BY DEF VeleroNext, SelectionScan, ClaimChange, MountChange, ScheduleChange,
           Touch, ReadPods, ReadPvcs, ReadPvs, ReadSchedules,
           SelectionFails, DropVerdicts, NextScan, velero_vars
  <2> QED BY <2>1 DEF NoStaleVerdict, selection_page, NoVerdicts
<1> QED BY <1>1, <1>2, PTL DEF VeleroSpec

-------------------------------------------------------------------------------
(* The scan.  What has been read of an untouched claim is still the case.  *)

ReadIsCurrent(p) ==
    /\ step \in {"pvcs", "pvs", "schedules"} => pods_list[p] = mounts[p]
    /\ step \in {"pvs", "schedules"} => pvcs_list[p] = claims[p]
    /\ step = "schedules" => (p \in pvs_list <=> p \in hostpath)
    /\ step = "sleep" /\ velero_success =>
         verdicts[p] = Judged(p, claims, hostpath, mounts, schedules)
Objects ==
    /\ claims \in [Pvcs -> ClaimPool \cup {Absent}]
    /\ mounts \in [Pvcs -> SUBSET MountPool]
ScanInv == Objects /\ \A p \in Pvcs \ touched : ReadIsCurrent(p)

\* For every claim untouched since the scan began, a gap is reported exactly
\* when the scan succeeded, the claim is eligible and no live Schedule captures its
\* data.
THEOREM SettledVerdictCorrect == VeleroSpec => []SettledVerdictIsTrue
<1>1. VeleroInit => ScanInv
  BY DEF VeleroInit, ScanInv, ReadIsCurrent, Objects, NoMounts
<1>2. ScanInv /\ [VeleroNext]_velero_vars => ScanInv'
  <2>0. ScanInv /\ [VeleroNext]_velero_vars => Objects'
    BY DEF ScanInv, Objects, VeleroNext, SelectionScan, ClaimChange, MountChange, ScheduleChange,
           SelectionFails, ReadPods, ReadPvcs, ReadPvs, ReadSchedules,
           NextScan, Touch, velero_vars, world, lists, selection_page
  <2> SUFFICES ASSUME ScanInv, [VeleroNext]_velero_vars, NEW p \in Pvcs, p \notin touched'
               PROVE  ReadIsCurrent(p)'
    BY <2>0 DEF ScanInv
  <2>1. ASSUME NEW q \in Pvcs, ClaimChange(q) PROVE ReadIsCurrent(p)'
    <3>1. p # q /\ ReadIsCurrent(p) BY <2>1 DEF ClaimChange, Touch, ScanInv
    <3> QED BY <2>1, <3>1
        DEF ClaimChange, Touch, lists, selection_page, ReadIsCurrent, Judged, ScanInv, Objects
  <2>2. ASSUME NEW q \in Pvcs, NEW m \in MountPool, MountChange(q, m)
        PROVE  ReadIsCurrent(p)'
    <3>1. p # q /\ ReadIsCurrent(p) BY <2>2 DEF MountChange, Touch, ScanInv
    <3> QED BY <2>2, <3>1
        DEF MountChange, Touch, lists, selection_page, ReadIsCurrent, Judged, ScanInv, Objects
  <2>3. ASSUME NEW s \in SchedulePool, ScheduleChange(s) PROVE ReadIsCurrent(p)'
    BY <2>3 DEF ScheduleChange, Touch
  <2>4. CASE ReadPods
    BY <2>4 DEF ReadPods, PodsListed, world, selection_page, ScanInv, ReadIsCurrent
  <2>5. CASE ReadPvcs
    BY <2>5 DEF ReadPvcs, world, selection_page, ScanInv, ReadIsCurrent
  <2>6. CASE ReadPvs
    BY <2>6 DEF ReadPvs, world, selection_page, ScanInv, ReadIsCurrent
  <2>7. CASE ReadSchedules
    <3>1. /\ pods_list[p] = mounts[p] /\ pvcs_list[p] = claims[p]
          /\ p \in pvs_list <=> p \in hostpath
      BY <2>7 DEF ReadSchedules, ScanInv, ReadIsCurrent
    <3>2. Judged(p, pvcs_list, pvs_list, pods_list, schedules)
            = Judged(p, claims, hostpath, mounts, schedules)
      BY <3>1 DEF Judged
    <3> QED BY <2>7, <3>2 DEF ReadSchedules, world, ReadIsCurrent, Judged
  <2>8. CASE SelectionFails
    BY <2>8 DEF SelectionFails, ReadIsCurrent
  <2>9. CASE NextScan
    BY <2>9 DEF NextScan, ReadIsCurrent
  <2>10. CASE UNCHANGED velero_vars
    BY <2>10 DEF velero_vars, world, lists, selection_page, ScanInv, ReadIsCurrent, Judged
  <2> QED
    BY <2>1, <2>2, <2>3, <2>4, <2>5, <2>6, <2>7, <2>8, <2>9, <2>10 DEF VeleroNext, SelectionScan
<1>3. ScanInv /\ NoStaleVerdict => SettledVerdictIsTrue
  <2>1. CASE velero_success
    BY <2>1, JudgedIsTrue DEF ScanInv, ReadIsCurrent, SettledVerdictIsTrue
  <2>2. CASE ~velero_success
    BY <2>2 DEF NoStaleVerdict, NoVerdicts, Gaps, SettledVerdictIsTrue
  <2> QED BY <2>1, <2>2
<1> QED BY <1>1, <1>2, <1>3, NoStaleVerdictCorrect, PTL DEF VeleroSpec
===============================================================================
