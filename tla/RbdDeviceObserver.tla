--------------------------- MODULE RbdDeviceObserver ---------------------------
(***************************************************************************)
(* observe.sh, the DaemonSet that journals which RBD devices are mapped on  *)
(* a node.  Each cycle joins the PV list of the API server with the kernel's *)
(* devices and the kubelet's mounts into a set of lines, reports the        *)
(* difference to the lines of the last cycle as map and unmap records, and  *)
(* only then copies the new lines over the old ones, in a file that         *)
(* survives the process.                                                   *)
(***************************************************************************)
EXTENDS Naturals, FiniteSets

CONSTANTS
    Devices,     \* devices of the node; the image of each may have a PV
    OtherPv,     \* environment: some other volume of the driver has a PV
    MaxChanges   \* bound of the model: changes of devices, mounts and PVs

ASSUME ConstantsAssumption ==
    /\ IsFiniteSet(Devices) /\ MaxChanges \in Nat
    /\ OtherPv \in BOOLEAN

\* How far kubelet and CSI driver have brought a volume on this node.
Stages == <<"none", "mapped", "staged", "published">>
Phases == {"mapped", "stage", "publish"}
\* "vanished": the device went away between the -d test and the reads.
Joins == {"found", "not_found", "vanished"}
Line == Devices \X Phases \X Joins

VARIABLES
    stage,      \* environment: device -> index in Stages
    pvs,        \* environment: devices whose image has a PV
    changes,
    pc,         \* "refresh", "glob", "scan", "maps", "unmaps", "copy", "sleep", "dead"
    pv_map,     \* PV_MAP: devices whose image the last PV list named
    globbed,    \* devices of the glob still to be read
    current, state,  \* CURRENT_FILE and STATE_FILE
    unread,     \* lines the while loop has still to read
    \* History, read by the properties only.
    replay,     \* lines a reader of the journal takes to be present
    reported,   \* lines whose map was ever reported
    steady,     \* mounts that have been there since the glob
    crashed     \* the process has died before

environment == <<stage, pvs, changes>>
journal == <<replay, reported, crashed>>
files == <<pv_map, globbed, current, state, unread>>
vars == <<environment, pc, files, journal, steady>>

\* What a device shows: one phase per mount, or that it is mapped and no more.
Mounts(at) ==
    CASE Stages[at] = "none" -> {}
      [] Stages[at] = "mapped" -> {"mapped"}
      [] Stages[at] = "staged" -> {"stage"}
      [] Stages[at] = "published" -> {"stage", "publish"}
AllMounts(stages) == UNION {{d} \X Mounts(stages[d]) : d \in Devices}

Init ==
    /\ stage \in [Devices -> {1, 2}] /\ pvs \in SUBSET Devices /\ changes = 0
    /\ pc = "refresh" /\ pv_map = {} /\ globbed = {}
    /\ current = {} /\ state = {} /\ unread = {}
    /\ replay = {} /\ reported = {} /\ steady = {} /\ crashed = FALSE

-------------------------------------------------------------------------------
(* The CSI driver, the kubelet and the PV controller, external.            *)

Change ==
    /\ changes < MaxChanges /\ changes' = changes + 1
    /\ steady' = steady \cap AllMounts(stage')

\* One step of attaching or detaching a volume.
StageUp(d) ==
    /\ stage[d] < 4 /\ stage' = [stage EXCEPT ![d] = @ + 1] /\ Change
    /\ UNCHANGED <<pvs, pc, files, journal>>
StageDown(d) ==
    /\ stage[d] > 1 /\ stage' = [stage EXCEPT ![d] = @ - 1] /\ Change
    /\ UNCHANGED <<pvs, pc, files, journal>>
PvChange(d) ==
    /\ pvs' = (pvs \cup {d}) \ (pvs \cap {d}) /\ UNCHANGED stage /\ Change
    /\ UNCHANGED <<pc, files, journal>>

-------------------------------------------------------------------------------
(* observe.sh.                                                             *)

Goto(label) == pc' = label

\* refresh_pv_map.  The request may fail; jq -e fails too when no PV of the
\* driver is left to print.  Either way the cycle reports an error and no more.
AnyPv == pvs # {} \/ OtherPv
RefreshFails ==
    /\ pc = "refresh" /\ Goto("sleep")
    /\ UNCHANGED <<environment, files, journal, steady>>
Refresh ==
    /\ pc = "refresh" /\ AnyPv /\ Goto("glob")
    /\ pv_map' = pvs
    /\ UNCHANGED <<environment, globbed, current, state, unread, journal, steady>>

\* The shell expands /sys/bus/rbd/devices/* once.
Glob ==
    /\ pc = "glob" /\ Goto("scan")
    /\ globbed' = {d \in Devices : stage[d] > 1} /\ current' = {}
    /\ steady' = AllMounts(stage)
    /\ UNCHANGED <<environment, pv_map, state, unread, journal>>

\* append_device: the mounts of a device, joined to the PV of its image.
JoinOf(d) == IF d \in pv_map THEN "found" ELSE "not_found"
LinesWithoutError(d) == {d} \X Mounts(stage[d])                    \* mutant
LinesOf(d) == {d} \X Mounts(stage[d]) \X {JoinOf(d)}
AppendIfJoined(d) ==                                              \* mutant
    IF d \in pv_map THEN current \cup LinesOf(d) ELSE current
AppendDevice(d) == current \cup LinesOf(d)

Scan(d) ==
    /\ pc = "scan" /\ d \in globbed /\ globbed' = globbed \ {d}
    /\ current' = AppendDevice(d)
    /\ UNCHANGED <<environment, pc, pv_map, state, unread, journal, steady>>

\* The device is unmapped while its attributes are read: they read as "-".
ScanVanishing(d) ==
    /\ pc = "scan" /\ d \in globbed /\ globbed' = globbed \ {d}
    /\ stage[d] = 2 /\ stage' = [stage EXCEPT ![d] = 1] /\ Change
    /\ current' = current \cup {<<d, "mapped", "vanished">>}
    /\ UNCHANGED <<pvs, pc, pv_map, state, unread, journal>>

\* After the scan the two loops read CURRENT_FILE and STATE_FILE line by line.
CopyFirst == Goto("copy") /\ UNCHANGED unread                      \* mutant
BeginMaps == Goto("maps") /\ unread' = current
ScanDone ==
    /\ pc = "scan" /\ globbed = {} /\ BeginMaps
    /\ UNCHANGED <<environment, pv_map, globbed, current, state, journal, steady>>

\* emit_record, for the lines grep does not find in the other file.
EmitMap(line) ==
    /\ pc = "maps" /\ line \in unread /\ unread' = unread \ {line}
    /\ IF line \in state
       THEN UNCHANGED journal
       ELSE replay' = replay \cup {line} /\ reported' = reported \cup {line} /\ UNCHANGED crashed
    /\ UNCHANGED <<environment, pc, pv_map, globbed, current, state, steady>>
MapsDone ==
    /\ pc = "maps" /\ unread = {} /\ Goto("unmaps") /\ unread' = state
    /\ UNCHANGED <<environment, pv_map, globbed, current, state, journal, steady>>

KeepUnmapped(line) == replay                                      \* mutant
Unmapped(line) == IF line \in current THEN replay ELSE replay \ {line}
EmitUnmap(line) ==
    /\ pc = "unmaps" /\ line \in unread /\ unread' = unread \ {line}
    /\ replay' = Unmapped(line)
    /\ UNCHANGED <<environment, pc, pv_map, globbed, current, state, reported, crashed, steady>>
UnmapsDone ==
    /\ pc = "unmaps" /\ unread = {} /\ Goto("copy")
    /\ UNCHANGED <<environment, files, journal, steady>>

Copy ==
    /\ pc = "copy" /\ Goto("sleep") /\ state' = current
    /\ UNCHANGED <<environment, pv_map, globbed, current, unread, journal, steady>>

Sleep ==
    /\ pc = "sleep" /\ Goto("refresh") /\ steady' = {}
    /\ UNCHANGED <<environment, files, journal>>

\* The process dies between any two steps; cp truncates before it writes.  Only
\* the state file is on the host, the others are in the pod's emptyDir or memory.
Crash ==
    /\ pc # "dead" /\ Goto("dead") /\ crashed' = TRUE
    /\ state' \in {state} \cup (IF pc = "copy" THEN {{}} ELSE {})
    /\ pv_map' = {} /\ globbed' = {} /\ current' = {} /\ unread' = {} /\ steady' = {}
    /\ UNCHANGED <<environment, replay, reported>>
Restart ==
    /\ pc = "dead" /\ Goto("refresh")
    /\ UNCHANGED <<environment, files, journal, steady>>

Work ==
    \/ Refresh \/ Glob \/ ScanDone \/ MapsDone \/ UnmapsDone \/ Copy \/ Sleep
    \/ \E d \in Devices : Scan(d)
    \/ \E line \in Line : EmitMap(line) \/ EmitUnmap(line)

Next ==
    \/ \E d \in Devices : StageUp(d) \/ StageDown(d) \/ PvChange(d) \/ ScanVanishing(d)
    \/ RefreshFails \/ Work \/ Crash \/ Restart

Spec == Init /\ [][Next]_vars

\* The loop goes on, and the API server does not fail every time it is asked.
FairSpec == Spec /\ WF_vars(RefreshFails \/ Work) /\ WF_vars(Restart) /\ SF_vars(Refresh)

-------------------------------------------------------------------------------
(* Properties.                                                             *)

\* Every variable has the type the script gives it.
TypeOK ==
    /\ stage \in [Devices -> 1 .. 4] /\ pvs \subseteq Devices
    /\ changes \in 0 .. MaxChanges
    /\ pc \in {"refresh", "glob", "scan", "maps", "unmaps", "copy", "sleep", "dead"}
    /\ pv_map \subseteq Devices /\ globbed \subseteq Devices
    /\ \A lines \in {current, state, unread, replay, reported} : lines \subseteq Line
    /\ steady \subseteq Devices \X Phases /\ crashed \in BOOLEAN

\* The order of the loop, report first and copy afterwards, loses no map record
\* to a crash: whatever the state file holds has been reported, so no later
\* cycle stays silent about a device nobody was told of.
AtLeastOnce == state \subseteq reported

\* The PVs, the devices and their mounts are read one after the other while they
\* change, yet a mount that stood through the whole cycle is among the lines
\* the unmap records are computed from: none of them reports it gone.
NoFalseUnmap ==
    pc \in {"maps", "unmaps", "copy"} =>
        \A mount \in steady : \E join \in Joins : <<mount[1], mount[2], join>> \in current

\* The script's comment: "A new line means a map, a changed device/PVC/phase is
\* represented as an unmap plus map, and a line disappearing is an unmap."
\* Until the process dies, whoever replays the journal between cycles holds
\* what the state file holds.
JournalIsHistory ==
    ~crashed /\ pc \in {"refresh", "glob", "scan", "sleep"} => replay = state

\* The same comment over time: if the process never dies, then when the node has
\* come to rest the journal ends up naming the mounts it has, and none it lost.
JournalCatchesUp ==
    []~crashed => <>[]({<<line[1], line[2]>> : line \in replay} = AllMounts(stage))
===============================================================================
