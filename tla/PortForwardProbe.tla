--------------------------- MODULE PortForwardProbe ---------------------------
(***************************************************************************)
(* The CronJob qbittorrent-portforward-probe: every five minutes a shell   *)
(* script reads the state of the VPN client gluetun over several separate  *)
(* requests, dials the forwarded address from outside the tunnel, and      *)
(* rotates the VPN when the same address fails two rounds.  Gluetun and the *)
(* sidecar that pushes the port into qBittorrent run at the same time and  *)
(* change what the script has just read.                                   *)
(*                                                                         *)
(* Ottawa's script condemns a port that stays 0, Robbinsdale's treats it   *)
(* as nothing to do: CondemnNoPort.  A behaviour is set at one site, in one *)
(* weather.                                                                *)
(***************************************************************************)
EXTENDS Integers, FiniteSets

CONSTANTS
    ROUNDS, ATTEMPTS,
    Settings,       \* the sites and weathers of the model, see below
    Draws           \* bound of the model: the values gluetun draws

\* CondemnNoPort: Ottawa's variant of the script.  Flaky: requests of the script
\* may fail.  CanKill: the pod of a run may be lost.  MaxChanges: bound of the
\* changes gluetun makes during one run.
Setting == [CondemnNoPort : BOOLEAN, Flaky : BOOLEAN, CanKill : BOOLEAN, MaxChanges : Nat]

ASSUME ConstantsAssumption ==
    /\ {ROUNDS, ATTEMPTS} \subseteq Nat \ {0}
    /\ Settings \subseteq Setting
    /\ \A s \in Settings : 1 .. s.MaxChanges + 3 \subseteq Draws

\* What a read that fails leaves in a shell variable: the empty string.
Empty == -1

VARIABLES
    setting,        \* environment: chosen once
    vpn,            \* gluetun: "running" or "stopped"
    exit_ip, exit_port, \* gluetun: the current draw; no address is Empty, no port 0
    open,           \* environment: does the exit address forward to us
    listen_port,    \* qBittorrent: the port it listens on
    drawn,          \* environment: the last value drawn
    changes,        \* environment: changes made since the run began
    pc, round, attempt, ip, port, now_ip, first_ip, first_port, prev_noport,
    result,         \* exit status of the last run
    \* History, read by the properties only.
    refused,        \* dials that failed while gluetun held the address dialled
    forwarded,      \* did gluetun hold a port at some time during the run
    owed            \* the probe stopped the VPN and nobody started it since

gluetun == <<setting, vpn, exit_ip, exit_port, open, drawn>>
reads == <<ip, port, now_ip, first_ip, first_port, prev_noport>>
history == <<refused, forwarded, owed>>
vars == <<gluetun, listen_port, changes, pc, round, attempt, reads,
          result, history>>

CondemnNoPort == setting.CondemnNoPort
Flaky == setting.Flaky
CanKill == setting.CanKill
MaxChanges == setting.MaxChanges

Init ==
    /\ setting \in Settings
    /\ vpn = "running" /\ exit_ip = 1 /\ exit_port = 0 /\ drawn = 1
    /\ open \in BOOLEAN
    /\ listen_port = 0 /\ changes = 0
    /\ pc = "idle" /\ round = 1 /\ attempt = 1
    /\ ip = Empty /\ port = Empty /\ now_ip = Empty
    /\ first_ip = Empty /\ first_port = Empty /\ prev_noport = Empty
    /\ result = "none"
    /\ refused = {} /\ forwarded = FALSE /\ owed = FALSE

-------------------------------------------------------------------------------
(* Gluetun and the port-sync sidecar, external to the repository.          *)

\* Gluetun draws exit addresses and ports at random; one is not drawn again
\* within a run.
NextDraw(d) == IF d < MaxChanges + 3 THEN d + 1 ELSE 1

\* The tunnel comes up: a new exit address, no forwarded port yet.
TunnelUp ==
    /\ drawn' = NextDraw(drawn) /\ exit_ip' = drawn' /\ exit_port' = 0
    /\ open' \in BOOLEAN

Change ==
    /\ changes < MaxChanges /\ changes' = changes + 1
    /\ vpn = "running" /\ UNCHANGED <<setting, vpn>>
    /\ UNCHANGED <<listen_port, pc, round, attempt, reads, result,
                   refused, owed>>

\* Gluetun's own health check restarts the tunnel.
Reconnect == Change /\ TunnelUp /\ UNCHANGED forwarded

\* NAT-PMP grants a port, or the lease changes: another port, same address.
Forward ==
    /\ Change
    /\ drawn' = NextDraw(drawn) /\ exit_port' = drawn' /\ forwarded' = TRUE
    /\ UNCHANGED <<exit_ip, open>>

\* The sidecar pushes the port into qBittorrent once a minute.
Sync ==
    /\ exit_port # 0 /\ listen_port # exit_port
    /\ listen_port' = exit_port
    /\ UNCHANGED <<gluetun, changes, pc, round, attempt, reads, result,
                   history>>

-------------------------------------------------------------------------------
(* The script.  Every curl is a step of its own.                           *)

\* What a read returns: the value, or nothing when curl -sf fails.
Read(value) == {value} \cup (IF Flaky THEN {Empty} ELSE {})

\* A run ends.
ExitWith(status) ==
    /\ pc' = "idle" /\ result' = status
    /\ round' = 1 /\ attempt' = 1
    /\ ip' = Empty /\ port' = Empty /\ now_ip' = Empty
    /\ first_ip' = Empty /\ first_port' = Empty /\ prev_noport' = Empty
    /\ refused' = {} /\ UNCHANGED <<changes, forwarded>>

NothingToDo == ExitWith("ok") /\ UNCHANGED owed

Goto(label) ==
    /\ pc' = label
    /\ UNCHANGED <<changes, result, history>>

\* The schedule starts a run; concurrencyPolicy Forbid: not while one runs.
Start ==
    /\ pc = "idle" /\ pc' = "status"
    /\ changes' = 0 /\ forwarded' = (exit_port # 0)
    /\ UNCHANGED <<gluetun, listen_port, round, attempt, reads, result,
                   refused, owed>>

ReadStatus ==
    /\ pc = "status"
    /\ \E answered \in Read(1) :
          IF answered # Empty /\ vpn = "running"
          THEN Goto("ip") /\ UNCHANGED <<round, attempt, reads>>
          ELSE NothingToDo
    /\ UNCHANGED <<gluetun, listen_port>>

ReadIp ==
    /\ pc = "ip" /\ Goto("port")
    /\ ip' \in Read(exit_ip)
    /\ UNCHANGED <<gluetun, listen_port, round, attempt, port, now_ip, first_ip,
                   first_port, prev_noport>>

\* The checks between the read of the port and the next request.
NoPort(p) == IF p = 0 THEN 1 ELSE 0
UnreadableButZero(p) == ip = Empty \/ p = Empty                    \* mutant
NothingWithoutPort(p) == ip = Empty \/ p = Empty \/ p = 0          \* mutant
Unreadable(p) == ip = Empty \/ p = Empty \/ (~CondemnNoPort /\ p = 0)
PortComparedWithFlag(p) == prev_noport # Empty /\ p # prev_noport   \* mutant
PortStateMoved(p) == prev_noport # Empty /\ NoPort(p) # prev_noport

\* A round that found no port, or whose dials all failed, is over.
AnotherRound == round < ROUNDS
EndRound ==
    IF AnotherRound THEN pc' = "settle" /\ round' = round + 1
                    ELSE pc' = "verdict" /\ UNCHANGED round

ReadPort ==
    /\ pc = "port"
    /\ \E p \in Read(exit_port) :
          IF Unreadable(p) \/ PortStateMoved(p)
          THEN NothingToDo
          ELSE /\ port' = p /\ prev_noport' = NoPort(p)
               /\ IF p = 0 THEN EndRound ELSE pc' = "listen" /\ UNCHANGED round
               /\ UNCHANGED <<attempt, ip, now_ip, first_ip, first_port, changes,
                              result, history>>
    /\ UNCHANGED <<gluetun, listen_port>>

AddressMoved ==
    round > 1 /\ <<ip, port>> # <<first_ip, first_port>>

ReadListen ==
    /\ pc = "listen"
    /\ \E listen \in Read(listen_port) :
          IF listen # port \/ AddressMoved
          THEN NothingToDo
          ELSE /\ Goto("now_ip")
               /\ first_ip' = ip /\ first_port' = port /\ attempt' = 1
               /\ UNCHANGED <<round, ip, port, now_ip, prev_noport>>
    /\ UNCHANGED <<gluetun, listen_port>>

\* Before every attempt gluetun is asked again.
ReadNowIp ==
    /\ pc = "now_ip" /\ Goto("now_port")
    /\ now_ip' \in Read(exit_ip)
    /\ UNCHANGED <<gluetun, listen_port, round, attempt, ip, port, first_ip,
                   first_port, prev_noport>>

MovedNotAsked(now_port) == FALSE                                  \* mutant
MovedMidProbe(now_port) == now_ip # ip \/ now_port # port

ReadNowPort ==
    /\ pc = "now_port"
    /\ \E now_port \in Read(exit_port) :
          IF MovedMidProbe(now_port)
          THEN NothingToDo
          ELSE Goto("dial") /\ UNCHANGED <<round, attempt, reads>>
    /\ UNCHANGED <<gluetun, listen_port>>

Held == <<ip, port>> = <<exit_ip, exit_port>>
Reachable == vpn = "running" /\ Held /\ open /\ listen_port = port

\* A dial that gets through ends the run; one that does not is tried again.
DialRefused ==
    /\ \/ ~Reachable
       \/ Flaky
    /\ refused' = IF Held THEN refused \cup {<<ip, port, round, attempt>>}
                          ELSE refused
    /\ IF attempt < ATTEMPTS
       THEN pc' = "pause" /\ attempt' = attempt + 1 /\ UNCHANGED round
       ELSE EndRound /\ UNCHANGED attempt
    /\ UNCHANGED <<changes, result, reads, forwarded, owed>>

Dial ==
    /\ pc = "dial"
    /\ \/ Reachable /\ ExitWith("ok") /\ UNCHANGED owed
       \/ DialRefused
    /\ UNCHANGED <<gluetun, listen_port>>

Pause ==
    /\ pc = "pause" /\ Goto("now_ip")
    /\ UNCHANGED <<gluetun, listen_port, round, attempt, reads>>

Settle ==
    /\ pc = "settle" /\ Goto("status")
    /\ UNCHANGED <<gluetun, listen_port, round, attempt, reads>>

\* A missing port fails the job and leaves the tunnel alone.
RotateAlways == /\ Goto("stop") /\ UNCHANGED <<round, attempt, reads>>  \* mutant
Decide ==
    IF prev_noport = 1
    THEN ExitWith("failed") /\ UNCHANGED owed
    ELSE Goto("stop") /\ UNCHANGED <<round, attempt, reads>>

Verdict == pc = "verdict" /\ Decide /\ UNCHANGED <<gluetun, listen_port>>

\* The two PUTs.  curl -sS: the script goes on whether or not they succeed.
PutStopped ==
    /\ pc = "stop" /\ pc' = "start"
    /\ \/ /\ vpn' = "stopped" /\ exit_ip' = Empty /\ exit_port' = 0 /\ owed' = TRUE
          /\ UNCHANGED <<setting, open, drawn>>
       \/ Flaky /\ UNCHANGED <<gluetun, owed>>
    /\ UNCHANGED <<listen_port, changes, round, attempt, reads, result, refused,
                   forwarded>>

RestartVpn ==
    /\ vpn' = "running" /\ owed' = FALSE /\ UNCHANGED setting
    /\ IF vpn = "running" THEN UNCHANGED <<exit_ip, exit_port, open, drawn>>
                          ELSE TunnelUp

PutRunning ==
    /\ pc = "start" /\ ExitWith("failed")
    /\ \/ RestartVpn
       \/ Flaky /\ UNCHANGED <<gluetun, owed>>
    /\ UNCHANGED listen_port

\* The pod of the run is lost; backoffLimit 0: the Job has failed.
Kill ==
    /\ CanKill /\ pc # "idle" /\ ExitWith("failed")
    /\ UNCHANGED <<gluetun, listen_port, owed>>

Step ==
    \/ ReadStatus \/ ReadIp \/ ReadPort \/ ReadListen
    \/ ReadNowIp \/ ReadNowPort \/ Dial \/ Pause \/ Settle
    \/ Verdict \/ PutStopped \/ PutRunning

Next == Reconnect \/ Forward \/ Sync \/ Start \/ Step \/ Kill

Spec == Init /\ [][Next]_vars

\* The schedule keeps starting runs, a run does not hang (every request has a
\* timeout) and the sidecar's cron keeps running.  Gluetun owes nothing.
FairSpec == Spec /\ WF_vars(Start) /\ WF_vars(Step) /\ WF_vars(Sync)

-------------------------------------------------------------------------------
(* Properties.                                                             *)

\* ADR 0003: the probe "rotates only after the same address fails two rounds".
\* However gluetun's changes fall between the separate reads of address and
\* port, a run that is about to stop the VPN has seen every attempt of every
\* round fail at one address that gluetun held; only the last dial may have
\* gone to an address that was being discarded under it.
RotatesOnlyCondemned ==
    pc = "stop" =>
        Cardinality({d \in refused : <<d[1], d[2]>> = <<first_ip, first_port>>})
            >= ROUNDS * ATTEMPTS - 1

\* ADR 0003: a port that stays 0 is a refused NAT-PMP request, "identical on
\* every server", so no run stops a tunnel that held no port while it ran.
LeavesUnforwardedAlone == pc \in {"stop", "start"} => forwarded

\* ADR 0003: "Only Ottawa's probe treats a persistent zero as a failure".  If
\* gluetun held no port from the beginning of a run to its end, although it may
\* renew the tunnel under the run, the job, which is what the alert looks at,
\*   - succeeds where a zero is "expected, not a fault", whatever requests are lost;
\*   - fails where a port is wanted, unless requests are lost or an address too was
\*     missing.
UnforwardedIsJudgedBySite ==
    [][~CanKill /\ ~forwarded /\ pc # "idle" /\ pc' = "idle"
       => /\ ~CondemnNoPort => result' = "ok"
          /\ CondemnNoPort /\ ~Flaky /\ ~(pc = "port" /\ ip = Empty)
             => result' = "failed"]_vars

\* A draw that is not reachable does not last: once the port sync has caught
\* up, and gluetun itself stays put, a run rotates it away, if neither requests
\* nor pods are lost.
Unreachable(d) ==
    drawn = d /\ vpn = "running" /\ exit_port # 0 /\ listen_port = exit_port /\ ~open
BadDrawIsReplaced == \A d \in Draws : ~Flaky /\ ~CanKill => []<>~Unreachable(d)

\* ADR 0003: the probe "restarts the VPN": what it stopped runs again.
StoppedIsRestarted == owed ~> ~owed
===============================================================================
