------------------------ MODULE RbdDeviceObserverProofs ------------------------
(***************************************************************************)
(* Proofs about RbdDeviceObserver: types, the at-least-once order of the   *)
(* loop whatever crashes happen, no unmap record for a mount that stood    *)
(* through the cycle, and, where the process does not die, the agreement   *)
(* of the journal with the state file between two cycles.                  *)
(***************************************************************************)
EXTENDS RbdDeviceObserver, TLAPS

-------------------------------------------------------------------------------
(* Types.                                                                  *)


\* A device contributes lines, whatever stage it is at.
LEMMA LinesOfType ==
    ASSUME NEW d \in Devices, NEW at \in 1 .. 4
    PROVE  Mounts(at) \subseteq Phases
<1>1. Stages[at] \in {"none", "mapped", "staged", "published"}
  BY DEF Stages
<1> QED BY <1>1 DEF Mounts, Phases

THEOREM TypeCorrect == Spec => []TypeOK
<1>1. Init => TypeOK
  <2> SUFFICES ASSUME Init PROVE TypeOK
    OBVIOUS
  <2>1. stage \in [Devices -> 1 .. 4] /\ changes \in 0 .. MaxChanges
    BY ConstantsAssumption DEF Init
  <2>2. crashed \in BOOLEAN
    BY DEF Init
  <2> QED BY <2>1, <2>2 DEF Init, TypeOK
<1>2. TypeOK /\ [Next]_vars => TypeOK'
  <2> SUFFICES ASSUME TypeOK, [Next]_vars PROVE TypeOK'
    OBVIOUS
  <2> USE ConstantsAssumption DEF TypeOK
  <2>a. \A st \in [Devices -> 1 .. 4] : AllMounts(st) \subseteq Devices \X Phases
    BY LinesOfType DEF AllMounts
  <2>c. ASSUME Change, stage' \in [Devices -> 1 .. 4]
        PROVE  changes' \in 0 .. MaxChanges /\ steady' \subseteq Devices \X Phases
    BY <2>c DEF Change
  <2>1. ASSUME NEW d \in Devices, StageUp(d) PROVE TypeOK'
    <3>1. stage' \in [Devices -> 1 .. 4] BY <2>1 DEF StageUp
    <3> QED BY <2>1, <2>c, <3>1 DEF StageUp, files, journal
  <2>2. ASSUME NEW d \in Devices, StageDown(d) PROVE TypeOK'
    <3>1. stage' \in [Devices -> 1 .. 4] BY <2>2 DEF StageDown
    <3> QED BY <2>2, <2>c, <3>1 DEF StageDown, files, journal
  <2>3. ASSUME NEW d \in Devices, PvChange(d) PROVE TypeOK'
    BY <2>3, <2>c DEF PvChange, files, journal
  <2>4. ASSUME NEW d \in Devices, ScanVanishing(d) PROVE TypeOK'
    <3>1. stage' \in [Devices -> 1 .. 4] BY <2>4 DEF ScanVanishing
    <3>2. <<d, "mapped", "vanished">> \in Line BY DEF Line, Phases, Joins
    <3> QED BY <2>4, <2>c, <3>1, <3>2 DEF ScanVanishing, journal
  <2>5. ASSUME NEW d \in Devices, Scan(d) PROVE TypeOK'
    <3>1. LinesOf(d) \subseteq Line
      BY LinesOfType DEF LinesOf, JoinOf, Line, Joins
    <3> QED BY <2>5, <3>1 DEF Scan, AppendDevice, environment, journal
  <2>6. CASE RefreshFails
    BY <2>6 DEF RefreshFails, Goto, environment, files, journal
  <2>7. CASE Refresh
    BY <2>7 DEF Refresh, Goto, environment, journal
  <2>8. CASE Glob
    BY <2>8, <2>a DEF Glob, Goto, environment, journal
  <2>9. CASE ScanDone
    BY <2>9 DEF ScanDone, BeginMaps, Goto, environment, journal
  <2>10. ASSUME NEW line \in Line, EmitMap(line) PROVE TypeOK'
    BY <2>10 DEF EmitMap, environment, journal
  <2>11. CASE MapsDone
    BY <2>11 DEF MapsDone, Goto, environment, journal
  <2>12. ASSUME NEW line \in Line, EmitUnmap(line) PROVE TypeOK'
    BY <2>12 DEF EmitUnmap, Unmapped, environment
  <2>13. CASE UnmapsDone
    BY <2>13 DEF UnmapsDone, Goto, environment, files, journal
  <2>14. CASE Copy
    BY <2>14 DEF Copy, Goto, environment, journal
  <2>15. CASE Sleep
    BY <2>15 DEF Sleep, Goto, environment, files, journal
  <2>16. CASE Crash
    BY <2>16 DEF Crash, Goto, environment, journal
  <2>17. CASE Restart
    BY <2>17 DEF Restart, Goto, environment, files, journal
  <2>18. CASE UNCHANGED vars
    BY <2>18 DEF vars, environment, files, journal
  <2> QED
    BY <2>1, <2>2, <2>3, <2>4, <2>5, <2>6, <2>7, <2>8, <2>9, <2>10, <2>11, <2>12,
       <2>13, <2>14, <2>15, <2>16, <2>17, <2>18 DEF Next, Work
<1> QED BY <1>1, <1>2, PTL DEF Spec

-------------------------------------------------------------------------------
(* The journal.  Both results need to know how far each loop has come: a   *)
(* line no longer unread has been dealt with.                              *)

MapsSoFar == pc = "maps" => current \subseteq unread \cup reported
MapsComplete == pc \in {"unmaps", "copy"} => current \subseteq reported
ReportInv == AtLeastOnce /\ MapsSoFar /\ MapsComplete

\* Whatever the state file holds was reported, across crashes at any point: the
\* copy is the only step that adds to it, and it comes after the map records.
THEOREM AtLeastOnceCorrect == Spec => []AtLeastOnce
<1>1. Init => ReportInv
  BY DEF Init, ReportInv, AtLeastOnce, MapsSoFar, MapsComplete
<1>2. ReportInv /\ [Next]_vars => ReportInv'
  <2> SUFFICES ASSUME ReportInv, [Next]_vars PROVE ReportInv'
    OBVIOUS
  <2> USE DEF ReportInv, AtLeastOnce, MapsSoFar, MapsComplete
  <2>1. ASSUME NEW d \in Devices, StageUp(d) \/ StageDown(d) \/ PvChange(d)
        PROVE  ReportInv'
    BY <2>1 DEF StageUp, StageDown, PvChange, files, journal
  <2>2. ASSUME NEW d \in Devices, ScanVanishing(d) \/ Scan(d) PROVE ReportInv'
    BY <2>2 DEF ScanVanishing, Scan, journal
  <2>3. CASE RefreshFails \/ Refresh \/ Glob
    BY <2>3 DEF RefreshFails, Refresh, Glob, Goto, files, journal
  <2>4. CASE ScanDone
    BY <2>4 DEF ScanDone, BeginMaps, Goto, journal
  <2>5. ASSUME NEW line \in Line, EmitMap(line) PROVE ReportInv'
    BY <2>5 DEF EmitMap, journal
  <2>6. CASE MapsDone
    BY <2>6 DEF MapsDone, Goto, journal
  <2>7. ASSUME NEW line \in Line, EmitUnmap(line) PROVE ReportInv'
    BY <2>7 DEF EmitUnmap
  <2>8. CASE UnmapsDone \/ Copy \/ Sleep
    BY <2>8 DEF UnmapsDone, Copy, Sleep, Goto, files, journal
  <2>9. CASE Crash \/ Restart
    BY <2>9 DEF Crash, Restart, Goto, files, journal
  <2>10. CASE UNCHANGED vars
    BY <2>10 DEF vars, files, journal
  <2> QED
    BY <2>1, <2>2, <2>3, <2>4, <2>5, <2>6, <2>7, <2>8, <2>9, <2>10 DEF Next, Work
<1>3. ReportInv => AtLeastOnce
  BY DEF ReportInv
<1> QED BY <1>1, <1>2, <1>3, PTL DEF Spec

\* During the map loop the journal is the state file and the lines of the new
\* snapshot read so far; during the unmap loop, the snapshot and the lines of
\* the state file not read yet; before the copy, the snapshot.
HistoryInv ==
    ~crashed =>
        /\ pc # "dead"
        /\ JournalIsHistory
        /\ pc = "maps" => unread \subseteq current /\ replay = state \cup (current \ unread)
        /\ pc = "unmaps" => unread \subseteq state /\ replay = current \cup unread
        /\ pc = "copy" => replay = current

\* As long as the process has not died, the journal replays to the state file between
\* any two cycles: no map or unmap record is missing and none is too many.
THEOREM JournalIsHistoryCorrect == Spec => []JournalIsHistory
<1>1. Init => HistoryInv
  BY DEF Init, HistoryInv, JournalIsHistory
<1>2. HistoryInv /\ [Next]_vars => HistoryInv'
  <2> SUFFICES ASSUME HistoryInv, [Next]_vars PROVE HistoryInv'
    OBVIOUS
  <2> USE DEF HistoryInv, JournalIsHistory
  <2>1. ASSUME NEW d \in Devices, StageUp(d) \/ StageDown(d) \/ PvChange(d)
        PROVE  HistoryInv'
    BY <2>1 DEF StageUp, StageDown, PvChange, files, journal
  <2>2. ASSUME NEW d \in Devices, ScanVanishing(d) \/ Scan(d) PROVE HistoryInv'
    BY <2>2 DEF ScanVanishing, Scan, journal
  <2>3. CASE RefreshFails \/ Refresh \/ Glob
    BY <2>3 DEF RefreshFails, Refresh, Glob, Goto, files, journal
  <2>4. CASE ScanDone
    BY <2>4 DEF ScanDone, BeginMaps, Goto, journal
  <2>5. ASSUME NEW line \in Line, EmitMap(line) PROVE HistoryInv'
    BY <2>5 DEF EmitMap, journal
  <2>6. CASE MapsDone
    BY <2>6 DEF MapsDone, Goto, journal
  <2>7. ASSUME NEW line \in Line, EmitUnmap(line) PROVE HistoryInv'
    BY <2>7 DEF EmitUnmap, Unmapped
  <2>8. CASE UnmapsDone \/ Copy \/ Sleep
    BY <2>8 DEF UnmapsDone, Copy, Sleep, Goto, files, journal
  <2>9. CASE Crash \/ Restart
    BY <2>9 DEF Crash, Restart, files, journal
  <2>10. CASE UNCHANGED vars
    BY <2>10 DEF vars, files, journal
  <2> QED
    BY <2>1, <2>2, <2>3, <2>4, <2>5, <2>6, <2>7, <2>8, <2>9, <2>10 DEF Next, Work
<1>3. HistoryInv => JournalIsHistory
  BY DEF HistoryInv, JournalIsHistory
<1> QED BY <1>1, <1>2, <1>3, PTL DEF Spec
-------------------------------------------------------------------------------
(* The snapshot.  The kernel's devices are listed once and read one by one. *)

HasLine(mount) == \E join \in Joins : <<mount[1], mount[2], join>> \in current

\* The mounts that stood since the glob exist, and each of them has its line or
\* its device is still to be read.
SteadyMounts == pc \in {"scan", "maps", "unmaps", "copy"} => steady \subseteq AllMounts(stage)
SteadyRead == pc = "scan" => \A mount \in steady : mount[1] \in globbed \/ HasLine(mount)
SnapshotInv == SteadyMounts /\ SteadyRead /\ NoFalseUnmap

\* What a mount is: a device and one of the phases it shows.
LEMMA MountShape ==
    ASSUME NEW stages, NEW mount \in AllMounts(stages)
    PROVE  /\ mount[1] \in Devices /\ mount = <<mount[1], mount[2]>>
           /\ mount[2] \in Mounts(stages[mount[1]])
BY DEF AllMounts

\* A device that is not mapped has no mounts: the glob misses none.
LEMMA UnmappedHasNone ==
    ASSUME NEW at \in 1 .. 4 PROVE Mounts(at) # {} => at > 1
BY DEF Mounts, Stages

\* However volumes are attached and detached while a cycle reads the devices one
\* by one, and whatever the PV list left out, a mount that stood through the
\* cycle is among the lines the unmap records are computed from.
THEOREM NoFalseUnmapCorrect == Spec => []NoFalseUnmap
<1>1. Init => SnapshotInv
  BY DEF Init, SnapshotInv, SteadyMounts, SteadyRead, NoFalseUnmap
<1>2. TypeOK /\ SnapshotInv /\ [Next]_vars => SnapshotInv'
  <2> SUFFICES ASSUME TypeOK, SnapshotInv, [Next]_vars PROVE SnapshotInv'
    OBVIOUS
  <2> USE DEF SnapshotInv, SteadyMounts, SteadyRead, NoFalseUnmap, HasLine
  <2>1. ASSUME Change, UNCHANGED <<pc, globbed, current>> PROVE SnapshotInv'
    BY <2>1 DEF Change
  <2>2. ASSUME NEW d \in Devices, StageUp(d) \/ StageDown(d) \/ PvChange(d)
        PROVE  SnapshotInv'
    BY <2>1, <2>2 DEF StageUp, StageDown, PvChange, files
  <2>3. ASSUME NEW d \in Devices, Scan(d) PROVE SnapshotInv'
    <3>1. /\ pc = "scan" /\ UNCHANGED <<pc, stage, steady>> /\ globbed' = globbed \ {d}
          /\ current' = current \cup LinesOf(d)
      BY <2>3 DEF Scan, AppendDevice, environment
    <3>2. ASSUME NEW mount \in steady, mount[1] = d PROVE HasLine(mount)'
      <4>1. mount[2] \in Mounts(stage[d])
        BY <3>1, <3>2, MountShape
      <4>2. <<d, mount[2], JoinOf(d)>> \in LinesOf(d) /\ JoinOf(d) \in Joins
        BY <4>1 DEF LinesOf, JoinOf, Joins
      <4> QED BY <3>1, <3>2, <4>2
    <3> QED BY <3>1, <3>2
  <2>4. ASSUME NEW d \in Devices, ScanVanishing(d) PROVE SnapshotInv'
    <3>1. /\ pc = "scan" /\ UNCHANGED pc /\ globbed' = globbed \ {d}
          /\ stage' = [stage EXCEPT ![d] = 1] /\ current \subseteq current'
          /\ steady' = steady \cap AllMounts(stage')
      BY <2>4 DEF ScanVanishing, Change
    <3>2. ASSUME NEW mount \in steady' PROVE mount[1] # d
      <4>1. mount[2] \in Mounts(stage'[mount[1]])
        BY <3>1, MountShape
      <4>2. Mounts(1) = {}
        BY DEF Mounts, Stages
      <4> QED BY <3>1, <4>1, <4>2 DEF TypeOK
    <3> QED BY <3>1, <3>2
  <2>5. CASE Glob
    <3>1. /\ pc' = "scan" /\ globbed' = {d \in Devices : stage[d] > 1}
          /\ steady' = AllMounts(stage) /\ stage' = stage
      BY <2>5 DEF Glob, Goto, environment
    <3>2. AllMounts(stage)' = AllMounts(stage')
      BY <3>1 DEF AllMounts
    <3>3. ASSUME NEW mount \in steady' PROVE mount[1] \in globbed'
      BY <3>1, MountShape, UnmappedHasNone DEF TypeOK
    <3> QED BY <3>1, <3>2, <3>3
  <2>6. CASE ScanDone
    BY <2>6 DEF ScanDone, BeginMaps, Goto, environment
  <2>7. ASSUME NEW line \in Line, EmitMap(line) \/ EmitUnmap(line) PROVE SnapshotInv'
    BY <2>7 DEF EmitMap, EmitUnmap, environment
  <2>8. CASE MapsDone \/ UnmapsDone
    BY <2>8 DEF MapsDone, UnmapsDone, Goto, environment, files
  <2>9. CASE Refresh \/ RefreshFails \/ Copy \/ Sleep \/ Crash \/ Restart
    BY <2>9 DEF Refresh, RefreshFails, Copy, Sleep, Crash, Restart, Goto
  <2>10. CASE UNCHANGED vars
    BY <2>10 DEF vars, environment, files
  <2> QED
    BY <2>2, <2>3, <2>4, <2>5, <2>6, <2>7, <2>8, <2>9, <2>10 DEF Next, Work
<1>3. SnapshotInv => NoFalseUnmap
  BY DEF SnapshotInv
<1> QED BY <1>1, <1>2, <1>3, TypeCorrect, PTL DEF Spec
===============================================================================
