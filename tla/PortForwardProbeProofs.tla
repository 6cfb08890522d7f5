------------------------ MODULE PortForwardProbeProofs ------------------------
(***************************************************************************)
(* Proofs about PortForwardProbe: for any number of rounds, attempts and    *)
(* changes of gluetun within a run, a run that stops the VPN has condemned  *)
(* one address that gluetun held, and where no port is forwarded no run     *)
(* stops the VPN; at Robbinsdale none fails, at Ottawa none ends as if all  *)
(* were well.                                                               *)
(***************************************************************************)
EXTENDS PortForwardProbe, FiniteSetTheorems, TLAPS

InDial == pc \in {"now_ip", "now_port", "dial", "pause"}

-------------------------------------------------------------------------------
(* Control: what the flag prev_noport says of the way a run has taken.      *)

Labels == {"idle", "status", "ip", "port", "listen", "now_ip", "now_port", "dial",
           "pause", "settle", "verdict", "stop", "start"}

Counters ==
    /\ setting \in Settings /\ pc \in Labels
    /\ round \in 1 .. ROUNDS /\ attempt \in 1 .. ATTEMPTS
    /\ prev_noport \in {Empty, 0, 1}

\* Before the first port is read nothing is known; a run that found none can
\* only end in the verdict, and only at Ottawa; one that found a port had one.
Passage ==
    /\ pc = "idle" => prev_noport = Empty
    /\ prev_noport = Empty =>
        /\ round = 1 /\ first_port = Empty /\ refused = {}
        /\ pc \in {"idle", "status", "ip", "port"}
    /\ prev_noport = 1 =>
        /\ CondemnNoPort /\ pc \in {"settle", "status", "ip", "port", "verdict"}
    /\ prev_noport = 0 => forwarded
    /\ exit_port # 0 => forwarded

\* What is dialled is the address the first round found.
Target ==
    /\ pc = "listen" \/ InDial => ip # Empty /\ port \notin {Empty, 0}
    /\ InDial => ip = first_ip /\ port = first_port

ControlInv == Counters /\ Passage /\ Target

LEMMA SettingType ==
    ASSUME setting \in Settings
    PROVE  MaxChanges \in Nat /\ {CondemnNoPort, Flaky, CanKill} \subseteq BOOLEAN
BY ConstantsAssumption DEF Setting, MaxChanges, CondemnNoPort, Flaky, CanKill

\* The end of a run leaves nothing behind but its exit status.
LEMMA ExitResets ==
    ASSUME ControlInv, NEW status, ExitWith(status), setting' = setting,
           exit_port' = exit_port \/ exit_port' = 0
    PROVE  ControlInv'
BY ConstantsAssumption
DEF ControlInv, Counters, Passage, Target, InDial, ExitWith, Labels, Empty

LEMMA ControlInit == Init => ControlInv
BY ConstantsAssumption
DEF Init, ControlInv, Counters, Passage, Target, InDial, Labels, Empty

LEMMA ControlStep == ControlInv /\ [Next]_vars => ControlInv'
<1> SUFFICES ASSUME ControlInv, [Next]_vars PROVE ControlInv'
  OBVIOUS
<1> USE ConstantsAssumption
    DEF ControlInv, Counters, Passage, Target, InDial, Labels, Empty, CondemnNoPort
<1>1. CASE Reconnect \/ Forward
  BY <1>1 DEF Reconnect, Forward, Change, TunnelUp, reads
<1>2. CASE Sync
  BY <1>2 DEF Sync, gluetun, reads, history
<1>3. CASE Start
  <2>1. /\ pc = "idle" /\ pc' = "status" /\ (exit_port' # 0 => forwarded')
        /\ UNCHANGED <<setting, exit_port, round, attempt, ip, port, first_ip,
                       first_port, prev_noport, refused>>
    BY <1>3, Zenon DEF Start, gluetun, reads
  <2>2. prev_noport' = Empty
    BY <2>1
  <2> QED BY <2>1, <2>2
<1>4. CASE ReadStatus
  <2>1. CASE NothingToDo
    BY <1>4, <2>1, ExitResets DEF ReadStatus, NothingToDo, gluetun
  <2>2. CASE Goto("ip") /\ UNCHANGED <<round, attempt, reads>>
    BY <1>4, <2>2 DEF ReadStatus, Goto, gluetun, reads, history
  <2> QED BY <1>4, <2>1, <2>2 DEF ReadStatus
<1>5. CASE ReadIp
  BY <1>5 DEF ReadIp, Goto, gluetun, history
<1>6. CASE ReadPort
  <2>1. PICK p \in Read(exit_port) :
            IF Unreadable(p) \/ PortStateMoved(p)
            THEN NothingToDo
            ELSE /\ port' = p /\ prev_noport' = NoPort(p)
                 /\ IF p = 0 THEN EndRound ELSE pc' = "listen" /\ UNCHANGED round
                 /\ UNCHANGED <<attempt, ip, now_ip, first_ip, first_port, changes,
                                result, history>>
    BY <1>6 DEF ReadPort
  <2>2. UNCHANGED <<gluetun, listen_port>> /\ pc = "port"
    BY <1>6 DEF ReadPort
  <2>3. CASE NothingToDo
    BY <2>2, <2>3, ExitResets DEF NothingToDo, gluetun
  <2>4. CASE ~(Unreadable(p) \/ PortStateMoved(p))
    <3>1. /\ p = exit_port /\ ip # Empty /\ p # Empty /\ (p = 0 => CondemnNoPort)
          /\ prev_noport # Empty => NoPort(p) = prev_noport
      BY <2>1, <2>4 DEF Unreadable, PortStateMoved, Read
    <3>2. CASE p = 0
      BY <2>1, <2>2, <2>4, <3>1, <3>2
      DEF NoPort, EndRound, AnotherRound, gluetun, history
    <3>3. CASE p # 0
      BY <2>1, <2>2, <2>4, <3>1, <3>3 DEF NoPort, gluetun, history
    <3> QED BY <3>2, <3>3
  <2> QED BY <2>1, <2>3, <2>4
<1>7. CASE ReadListen
  <2>1. CASE NothingToDo
    BY <1>7, <2>1, ExitResets DEF ReadListen, NothingToDo, gluetun
  <2>2. CASE /\ Goto("now_ip")
             /\ first_ip' = ip /\ first_port' = port /\ attempt' = 1
             /\ UNCHANGED <<round, ip, port, now_ip, prev_noport>>
    BY <1>7, <2>2 DEF ReadListen, Goto, gluetun, history
  <2> QED BY <1>7, <2>1, <2>2 DEF ReadListen
<1>8. CASE ReadNowIp
  BY <1>8 DEF ReadNowIp, Goto, gluetun, history
<1>9. CASE ReadNowPort
  <2>1. CASE NothingToDo
    BY <1>9, <2>1, ExitResets DEF ReadNowPort, NothingToDo, gluetun
  <2>2. CASE Goto("dial") /\ UNCHANGED <<round, attempt, reads>>
    BY <1>9, <2>2 DEF ReadNowPort, Goto, gluetun, reads, history
  <2> QED BY <1>9, <2>1, <2>2 DEF ReadNowPort
<1>10. CASE Dial
  <2>1. CASE ExitWith("ok")
    BY <1>10, <2>1, ExitResets DEF Dial, gluetun
  <2>2. CASE DialRefused
    <3>1. /\ UNCHANGED <<changes, result, reads, forwarded, owed, setting, exit_port>>
          /\ pc = "dial"
      BY <1>10, <2>2 DEF Dial, DialRefused, gluetun
    <3>2. prev_noport = 0
      BY <3>1
    <3>3. /\ pc' \in {"pause", "settle", "verdict"}
          /\ round' \in 1 .. ROUNDS /\ attempt' \in 1 .. ATTEMPTS
      BY <2>2 DEF DialRefused, EndRound, AnotherRound
    <3> QED BY <3>1, <3>2, <3>3 DEF reads
  <2> QED BY <1>10, <2>1, <2>2 DEF Dial
<1>11. CASE Pause \/ Settle
  BY <1>11 DEF Pause, Settle, Goto, gluetun, reads, history
<1>12. CASE Verdict
  <2>1. CASE ExitWith("failed")
    BY <1>12, <2>1, ExitResets DEF Verdict, gluetun
  <2>2. CASE prev_noport # 1 /\ Goto("stop") /\ UNCHANGED <<round, attempt, reads>>
    BY <1>12, <2>2 DEF Verdict, Goto, gluetun, reads, history
  <2> QED BY <1>12, <2>1, <2>2 DEF Verdict, Decide
<1>13. CASE PutStopped
  BY <1>13 DEF PutStopped, gluetun, reads
<1>14. CASE PutRunning
  <2>1. exit_port' = exit_port \/ exit_port' = 0
    BY <1>14 DEF PutRunning, RestartVpn, TunnelUp, gluetun
  <2>2. ExitWith("failed") /\ setting' = setting
    BY <1>14 DEF PutRunning, RestartVpn, gluetun
  <2> QED BY <2>1, <2>2, ExitResets
<1>15. CASE Kill
  BY <1>15, ExitResets DEF Kill, gluetun
<1>16. CASE UNCHANGED vars
  BY <1>16 DEF vars, gluetun, reads, history
<1> QED
  BY <1>1, <1>2, <1>3, <1>4, <1>5, <1>6, <1>7, <1>8, <1>9, <1>10, <1>11, <1>12, <1>13,
     <1>14, <1>15, <1>16 DEF Next, Step

LEMMA ControlCorrect == Spec => []ControlInv
BY ControlInit, ControlStep, PTL DEF Spec

\* No run stops a tunnel that held no port while the run went on, however the
\* reads of its rounds fell between the changes of gluetun.
THEOREM LeavesUnforwardedAloneCorrect == Spec => []LeavesUnforwardedAlone
<1>1. ControlInv => LeavesUnforwardedAlone
  BY DEF ControlInv, Counters, Passage, LeavesUnforwardedAlone
<1> QED BY <1>1, ControlCorrect, PTL

\* Where a zero port is expected, a run in which gluetun held no port ends well
\* whatever was read when, unless its pod is lost.
LEMMA UnforwardedIsNoFault ==
    ASSUME ControlInv, Next, ~CondemnNoPort, ~CanKill, ~forwarded, pc # "idle", pc' = "idle"
    PROVE  result' = "ok"
<1>1. prev_noport = Empty /\ pc \in {"status", "ip", "port"}
  BY DEF ControlInv, Counters, Passage
<1>2. ReadStatus \/ ReadIp \/ ReadPort
  BY <1>1 DEF Next, Step, Reconnect, Forward, Change, Sync, Start, ReadListen, ReadNowIp,
     ReadNowPort, Dial, Pause, Settle, Verdict, PutStopped, PutRunning, Kill
<1>3. NothingToDo
  BY <1>1, <1>2 DEF ReadStatus, ReadIp, ReadPort, Goto, EndRound
<1> QED BY <1>3 DEF NothingToDo, ExitWith

\* Where no request and no pod is lost, what a run stops it starts again, so the
\* VPN is running whenever the script asks.
CalmInv == ~Flaky /\ ~CanKill => vpn = "running" \/ pc = "start"

LEMMA CalmCorrect == Spec => []CalmInv
<1>1. Init => CalmInv
  BY DEF Init, CalmInv
<1>2. CalmInv /\ [Next]_vars => CalmInv'
  <2> SUFFICES ASSUME CalmInv, [Next]_vars PROVE CalmInv'
    OBVIOUS
  <2>1. CASE PutRunning
    BY <2>1 DEF PutRunning, RestartVpn, CalmInv, Flaky, gluetun
  <2>2. CASE PutStopped
    BY <2>2 DEF PutStopped, CalmInv
  <2>3. CASE Kill
    BY <2>3 DEF Kill, CalmInv, CanKill, gluetun
  <2>4. CASE ReadStatus \/ ReadIp \/ ReadPort \/ ReadListen \/ ReadNowIp \/ ReadNowPort
             \/ Dial \/ Pause \/ Settle \/ Verdict
    <3>1. pc # "start" /\ UNCHANGED <<vpn, setting>>
      BY <2>4 DEF ReadStatus, ReadIp, ReadPort, ReadListen, ReadNowIp, ReadNowPort, Dial,
         Pause, Settle, Verdict, gluetun
    <3> QED BY <3>1 DEF CalmInv, Flaky, CanKill
  <2>5. CASE Reconnect \/ Forward \/ Sync \/ Start \/ UNCHANGED vars
    BY <2>5 DEF Reconnect, Forward, Change, Sync, Start, vars, gluetun, CalmInv, Flaky, CanKill
  <2> QED BY <2>1, <2>2, <2>3, <2>4, <2>5 DEF Next, Step
<1> QED BY <1>1, <1>2, PTL DEF Spec

\* Ottawa's run without a port fails its job: every round reads the zero again and
\* nothing before the verdict lets it go.
LEMMA MissingPortIsReported ==
    ASSUME ControlInv, CalmInv, Next, CondemnNoPort, ~Flaky, ~CanKill,
           ~forwarded, ~(pc = "port" /\ ip = Empty), pc # "idle", pc' = "idle"
    PROVE  result' = "failed"
<1>1. /\ prev_noport \in {Empty, 1} /\ exit_port = 0
      /\ pc \in {"settle", "status", "ip", "port", "verdict"}
  BY DEF ControlInv, Counters, Passage, Labels
<1>2. ReadStatus \/ ReadIp \/ ReadPort \/ Settle \/ Verdict
  BY <1>1 DEF Next, Step, Reconnect, Forward, Change, Sync, Start, ReadListen, ReadNowIp,
     ReadNowPort, Dial, Pause, PutStopped, PutRunning, Kill
<1>3. CASE ReadStatus
  BY <1>1, <1>3 DEF ReadStatus, Read, Goto, Empty, CalmInv
<1>4. CASE ReadPort
  <2>1. ~Unreadable(0) /\ ~PortStateMoved(0)
    BY <1>1, <1>4 DEF ReadPort, Unreadable, PortStateMoved, NoPort, Empty
  <2> QED BY <1>1, <1>4, <2>1 DEF ReadPort, Read, EndRound
<1>5. CASE Verdict
  BY <1>1, <1>5 DEF Verdict, Decide, ExitWith, Goto, ControlInv, Passage
<1> QED BY <1>2, <1>3, <1>4, <1>5 DEF ReadIp, Settle, Goto

\* What a zero port means for the job is decided by the site alone.
THEOREM UnforwardedIsJudgedBySiteCorrect == Spec => UnforwardedIsJudgedBySite
<1> DEFINE Judged ==
      ~CanKill /\ ~forwarded /\ pc # "idle" /\ pc' = "idle"
        => /\ ~CondemnNoPort => result' = "ok"
           /\ CondemnNoPort /\ ~Flaky /\ ~(pc = "port" /\ ip = Empty)
              => result' = "failed"
<1>1. ControlInv /\ CalmInv /\ [Next]_vars => [Judged]_vars
  BY UnforwardedIsNoFault, MissingPortIsReported
<1> QED BY <1>1, ControlCorrect, CalmCorrect, PTL DEF Spec, UnforwardedIsJudgedBySite

-------------------------------------------------------------------------------
(* Draws: gluetun draws no value twice in a run, so a port that is no longer *)
(* held does not come back.                                                  *)

Last == MaxChanges + 3
DrawnAfter(v, k) == IF v + k <= Last THEN v + k ELSE v + k - Last

\* The value was the last one drawn at some time of the run.
Recent(v) == v \in 1 .. Last /\ \E k \in 0 .. changes : drawn = DrawnAfter(v, k)

Drawing ==
    /\ drawn \in 1 .. Last /\ changes \in 0 .. MaxChanges
    /\ exit_port \in {0, drawn}
    /\ pc = "listen" => Recent(port)
    /\ first_port # Empty => Recent(first_port)

\* As long as the first port is the last draw, nothing changed since it was read:
\* the answers read since are what gluetun holds.
AnswersHold ==
    drawn = first_port =>
        /\ pc = "now_port" => now_ip \in {exit_ip, Empty}
        /\ pc = "dial" => Held
DrawInv == Drawing /\ AnswersHold

\* A draw is a new value, and what was recent stays so: a run sees too few draws
\* for the values to come round.
LEMMA DrawIsNew ==
    ASSUME setting \in Settings, setting' = setting,
           drawn \in 1 .. Last, changes \in 0 .. MaxChanges, changes < MaxChanges,
           drawn' = NextDraw(drawn), changes' = changes + 1
    PROVE  /\ drawn' \in 1 .. Last /\ changes' \in 0 .. MaxChanges
           /\ \A v : Recent(v) => drawn' # v /\ Recent(v)'
<1>1. MaxChanges \in Nat /\ MaxChanges' = MaxChanges
  BY SettingType DEF MaxChanges
<1>2. drawn' \in 1 .. Last /\ changes' \in 0 .. MaxChanges
  BY <1>1 DEF NextDraw, Last
<1>3. ASSUME NEW v, Recent(v) PROVE drawn' # v /\ Recent(v)'
  <2>1. PICK k \in 0 .. changes : drawn = DrawnAfter(v, k)
    BY <1>3 DEF Recent
  <2>2. v \in 1 .. Last
    BY <1>3 DEF Recent
  <2>3. drawn' = DrawnAfter(v, k + 1) /\ drawn' # v
    BY <1>1, <2>1, <2>2 DEF NextDraw, DrawnAfter, Last
  <2>4. k + 1 \in 0 .. changes'
    BY <1>1, <2>1
  <2> QED BY <1>1, <2>2, <2>3, <2>4 DEF Recent, DrawnAfter, Last
<1> QED BY <1>2, <1>3

LEMMA NextDrawType ==
    ASSUME setting \in Settings, drawn \in 1 .. Last
    PROVE  NextDraw(drawn) \in 1 .. Last
BY SettingType DEF NextDraw, Last

\* The end of a run: nothing is known of the next one's ports.
LEMMA ExitForgets ==
    ASSUME NEW status, ExitWith(status), setting' = setting, Drawing,
           drawn' \in 1 .. Last, exit_port' \in {0, drawn'}, setting \in Settings
    PROVE  DrawInv'
<1>1. MaxChanges \in Nat /\ MaxChanges' = MaxChanges /\ Last' = Last
  BY SettingType DEF MaxChanges, Last
<1>2. first_port' = Empty /\ pc' = "idle" /\ changes' = changes
  BY DEF ExitWith
<1> QED BY <1>1, <1>2 DEF DrawInv, Drawing, AnswersHold

LEMMA DrawInit == Init => DrawInv
<1> SUFFICES ASSUME Init PROVE DrawInv
  OBVIOUS
<1>1. MaxChanges \in Nat
  BY SettingType DEF Init
<1> QED BY <1>1 DEF Init, DrawInv, Drawing, AnswersHold, Last

LEMMA DrawStep == ControlInv /\ DrawInv /\ [Next]_vars => DrawInv'
<1> SUFFICES ASSUME ControlInv, DrawInv, [Next]_vars PROVE DrawInv'
  OBVIOUS
<1>0. /\ setting \in Settings /\ setting' = setting
      /\ MaxChanges \in Nat /\ MaxChanges' = MaxChanges
      /\ drawn \in 1 .. Last /\ changes \in 0 .. MaxChanges /\ exit_port \in {0, drawn}
  <2>1. setting \in Settings
    BY DEF ControlInv, Counters
  <2>2. setting' = setting
    BY DEF Next, Step, Reconnect, Forward, Change, Sync, Start, ReadStatus, ReadIp, ReadPort,
       ReadListen, ReadNowIp, ReadNowPort, Dial, Pause, Settle, Verdict, PutStopped,
       PutRunning, RestartVpn, Kill, vars, gluetun
  <2> QED BY <2>1, <2>2, SettingType DEF MaxChanges, DrawInv, Drawing
<1>1. CASE Reconnect \/ Forward
  <2>1. /\ drawn' = NextDraw(drawn) /\ changes' = changes + 1 /\ changes < MaxChanges
        /\ exit_port' \in {0, drawn'}
        /\ UNCHANGED <<pc, port, first_port>>
    BY <1>1 DEF Reconnect, Forward, Change, TunnelUp, reads
  <2>2. /\ drawn' \in 1 .. Last /\ changes' \in 0 .. MaxChanges
        /\ \A v : Recent(v) => drawn' # v /\ Recent(v)'
    BY <1>0, <2>1, DrawIsNew
  <2>3. Last' = Last
    BY <1>0 DEF Last
  <2>4. /\ pc' = "listen" => Recent(port)'
        /\ first_port' # Empty => Recent(first_port)' /\ drawn' # first_port'
    BY <2>1, <2>2 DEF DrawInv, Drawing, Recent, DrawnAfter
  <2>5. pc' \in {"now_port", "dial"} => first_port' # Empty
    BY <2>1 DEF ControlInv, Target, InDial
  <2> QED BY <1>0, <2>1, <2>2, <2>3, <2>4, <2>5 DEF DrawInv, Drawing, AnswersHold
<1>2. CASE Start
  <2>1. changes' = 0 /\ pc' = "status" /\ UNCHANGED <<drawn, exit_port, first_port>>
    BY <1>2 DEF Start, gluetun, reads
  <2>2. first_port = Empty
    BY <1>2 DEF Start, ControlInv, Passage
  <2> QED BY <1>0, <2>1, <2>2 DEF DrawInv, Drawing, AnswersHold, Last
<1>3. ASSUME NEW status, ExitWith(status), UNCHANGED <<drawn, exit_port>> PROVE DrawInv'
  BY <1>0, <1>3, ExitForgets DEF DrawInv
<1> DEFINE Quiet == UNCHANGED <<setting, vpn, exit_ip, exit_port, drawn, changes>>
<1>4. Quiet => Last' = Last /\ \A v : Recent(v) => Recent(v)'
  BY <1>0 DEF Last, Recent, DrawnAfter
<1>5. CASE UNCHANGED vars \/ Sync \/ ReadIp \/ Pause \/ Settle
  <2>1. /\ Quiet /\ UNCHANGED <<port, first_port>>
        /\ \/ UNCHANGED <<pc, now_ip, ip>>
           \/ pc' \notin {"now_port", "dial", "listen"}
    BY <1>5 DEF vars, Sync, ReadIp, Pause, Settle, Goto, gluetun, reads, history
  <2> QED BY <1>0, <1>4, <2>1 DEF DrawInv, Drawing, AnswersHold, Held
<1>6. CASE ReadStatus
  BY <1>0, <1>3, <1>4, <1>6
  DEF ReadStatus, NothingToDo, Goto, gluetun, reads, DrawInv, Drawing, AnswersHold
<1>7. CASE ReadPort
  <2>1. PICK p \in Read(exit_port) :
            IF Unreadable(p) \/ PortStateMoved(p)
            THEN NothingToDo
            ELSE /\ port' = p /\ prev_noport' = NoPort(p)
                 /\ IF p = 0 THEN EndRound ELSE pc' = "listen" /\ UNCHANGED round
                 /\ UNCHANGED <<attempt, ip, now_ip, first_ip, first_port, changes,
                                result, history>>
    BY <1>7 DEF ReadPort
  <2>2. CASE NothingToDo
    BY <1>3, <1>7, <2>2 DEF ReadPort, NothingToDo, gluetun
  <2>3. CASE ~(Unreadable(p) \/ PortStateMoved(p))
    <3>1. Quiet /\ port' = p /\ first_port' = first_port
      BY <1>7, <2>1, <2>3 DEF ReadPort, gluetun
    <3>2. pc' \notin {"now_port", "dial"} /\ (pc' = "listen" => p # 0)
      BY <2>1, <2>3 DEF EndRound
    <3>3. p = exit_port
      BY <2>3 DEF Unreadable, Read
    <3>4. p # 0 => Recent(p)
      BY <1>0, <3>3 DEF Recent, DrawnAfter, Last
    <3> QED BY <1>0, <1>4, <3>1, <3>2, <3>4 DEF DrawInv, Drawing, AnswersHold
  <2> QED BY <2>1, <2>2, <2>3
<1>8. CASE ReadListen
  <2>1. CASE NothingToDo
    BY <1>3, <1>8, <2>1 DEF ReadListen, NothingToDo, gluetun
  <2>2. CASE Goto("now_ip") /\ first_port' = port /\ UNCHANGED port
    <3>1. Quiet /\ pc = "listen"
      BY <1>8, <2>2 DEF ReadListen, Goto, gluetun
    <3> QED BY <1>0, <1>4, <2>2, <3>1 DEF DrawInv, Drawing, AnswersHold, Goto
  <2> QED BY <1>8, <2>1, <2>2 DEF ReadListen
<1>9. CASE ReadNowIp
  <2>1. /\ Quiet /\ UNCHANGED <<port, first_port>>
        /\ pc' = "now_port" /\ now_ip' \in {exit_ip, Empty}
    BY <1>9 DEF ReadNowIp, Goto, Read, gluetun
  <2> QED BY <1>0, <1>4, <2>1 DEF DrawInv, Drawing, AnswersHold
<1>10. CASE ReadNowPort
  <2>1. CASE NothingToDo
    BY <1>3, <1>10, <2>1 DEF ReadNowPort, NothingToDo, gluetun
  <2>2. CASE ~NothingToDo
    <3>1. PICK now_port \in Read(exit_port) : ~MovedMidProbe(now_port) /\ Goto("dial")
      BY <1>10, <2>2 DEF ReadNowPort
    <3>2. Quiet /\ UNCHANGED <<ip, port, first_port>> /\ pc = "now_port"
      BY <1>10, <2>2 DEF ReadNowPort, Goto, gluetun, reads
    <3>3. now_ip = ip /\ now_port = port /\ ip # Empty /\ port # Empty
      BY <3>1, <3>2 DEF MovedMidProbe, ControlInv, Target, InDial
    <3>4. port = exit_port /\ (drawn = first_port => ip = exit_ip)
      BY <3>1, <3>2, <3>3 DEF Read, DrawInv, AnswersHold
    <3> QED BY <1>0, <1>4, <3>1, <3>2, <3>4 DEF DrawInv, Drawing, AnswersHold, Held, Goto
  <2> QED BY <2>1, <2>2
<1>11. CASE Dial
  <2>1. CASE ExitWith("ok")
    BY <1>3, <1>11, <2>1 DEF Dial, gluetun
  <2>2. CASE DialRefused
    <3>1. /\ Quiet /\ UNCHANGED <<port, first_port>>
          /\ pc' \in {"pause", "settle", "verdict"}
      BY <1>11, <2>2 DEF Dial, DialRefused, EndRound, gluetun, reads
    <3> QED BY <1>0, <1>4, <3>1 DEF DrawInv, Drawing, AnswersHold
  <2> QED BY <1>11, <2>1, <2>2 DEF Dial
<1>12. CASE Verdict
  <2>1. CASE ExitWith("failed")
    BY <1>3, <1>12, <2>1 DEF Verdict, gluetun
  <2>2. CASE Goto("stop") /\ UNCHANGED reads
    BY <1>0, <1>4, <1>12, <2>2
    DEF Verdict, Goto, gluetun, reads, DrawInv, Drawing, AnswersHold
  <2> QED BY <1>12, <2>1, <2>2 DEF Verdict, Decide
<1>13. CASE PutStopped
  <2>1. /\ pc' = "start" /\ exit_port' \in {0, drawn'}
        /\ UNCHANGED <<drawn, changes, port, first_port>>
    BY <1>0, <1>13 DEF PutStopped, gluetun, reads
  <2> QED BY <1>0, <2>1 DEF DrawInv, Drawing, AnswersHold, Last, Recent, DrawnAfter
<1>14. CASE PutRunning
  <2>1. drawn' \in 1 .. Last /\ exit_port' \in {0, drawn'}
    BY <1>0, <1>14, NextDrawType DEF PutRunning, RestartVpn, TunnelUp, gluetun
  <2>2. ExitWith("failed")
    BY <1>14 DEF PutRunning
  <2> QED BY <1>0, <2>1, <2>2, ExitForgets DEF DrawInv
<1>15. CASE Kill
  BY <1>3, <1>15 DEF Kill, gluetun
<1> QED
  BY <1>1, <1>2, <1>5, <1>6, <1>7, <1>8, <1>9, <1>10, <1>11, <1>12, <1>13, <1>14, <1>15
  DEF Next, Step

LEMMA DrawCorrect == Spec => []DrawInv
BY DrawInit, DrawStep, ControlCorrect, PTL DEF Spec

-------------------------------------------------------------------------------
(* Refused dials.                                                           *)

\* The dials a run has behind it at each label.
Due ==
    CASE pc \in {"verdict", "stop", "start"} -> ROUNDS * ATTEMPTS
      [] InDial -> (round - 1) * ATTEMPTS + (attempt - 1)
      [] OTHER -> (round - 1) * ATTEMPTS
AtTarget == {d \in refused : <<d[1], d[2]>> = <<first_ip, first_port>>}

\* A dial is told from the ones before it by its round and attempt.
Ordered ==
    /\ IsFiniteSet(refused)
    /\ \A d \in refused : d[3] \in 1 .. ROUNDS /\ d[4] \in 1 .. ATTEMPTS
    /\ pc \in {"settle", "status", "ip", "port", "listen"} => \A d \in refused : d[3] < round
    /\ InDial => \A d \in refused : d[3] < round \/ (d[3] = round /\ d[4] < attempt)

\* All of them went to the target while gluetun held it, or all but the last
\* one, after which the target has gone for good and is not dialled again.
Counted ==
    prev_noport # 1 =>
        \/ Cardinality(AtTarget) >= Due
        \/ drawn # first_port /\ pc # "dial" /\ Cardinality(AtTarget) >= Due - 1
CountInv == Ordered /\ Counted

LEMMA AtTargetIsFinite ==
    ASSUME Ordered
    PROVE  IsFiniteSet(AtTarget) /\ Cardinality(AtTarget) \in Nat
<1>1. AtTarget \subseteq refused /\ IsFiniteSet(refused)
  BY DEF AtTarget, Ordered
<1> QED BY <1>1, FS_Subset, FS_CardinalityType

LEMMA DueType == ASSUME Counters PROVE Due \in Int
<1>1. ROUNDS * ATTEMPTS \in Int /\ (round - 1) * ATTEMPTS \in Int /\ attempt - 1 \in Int
  BY ConstantsAssumption DEF Counters
<1> QED BY <1>1 DEF Due

\* A step that adds no refused dial to the count and none to what is due.
LEMMA CountKept ==
    ASSUME CountInv, Ordered', UNCHANGED <<refused, first_ip, first_port>>, Due' = Due,
           prev_noport # 1 \/ prev_noport' = 1,
           drawn # first_port => drawn' # first_port,
           pc' = "dial" => pc = "dial" \/ drawn = first_port
    PROVE  CountInv'
<1>1. AtTarget' = AtTarget
  BY DEF AtTarget
<1> QED BY <1>1 DEF CountInv, Counted

\* Nothing refused and nothing due.
LEMMA CountEmpty ==
    ASSUME refused' = {}, round' = 1, pc' \in {"idle", "status"}
    PROVE  CountInv'
<1>1. Ordered'
  BY FS_EmptySet DEF Ordered, InDial
<1>2. Due' = 0
  BY ConstantsAssumption DEF Due, InDial
<1>3. AtTarget' = {} /\ Cardinality(AtTarget') = 0
  BY FS_EmptySet DEF AtTarget
<1> QED BY <1>1, <1>2, <1>3 DEF CountInv, Counted

LEMMA CountInit == Init => CountInv
<1> SUFFICES ASSUME Init PROVE CountInv
  OBVIOUS
<1>1. Ordered
  BY FS_EmptySet DEF Ordered, InDial, Init
<1>2. Due = 0
  BY ConstantsAssumption DEF Due, InDial, Init
<1>3. AtTarget = {} /\ Cardinality(AtTarget) = 0
  BY FS_EmptySet DEF AtTarget, Init
<1> QED BY <1>1, <1>2, <1>3 DEF CountInv, Counted

\* A dial fails: at the address gluetun holds it adds one to what is due and one
\* to what is counted, anywhere else the target has been discarded.
LEMMA CountDial ==
    ASSUME ControlInv, DrawInv, CountInv, Dial, DialRefused
    PROVE  CountInv'
<1>1. /\ pc = "dial" /\ prev_noport = 0
      /\ ip = first_ip /\ port = first_port
      /\ round \in 1 .. ROUNDS /\ attempt \in 1 .. ATTEMPTS
      /\ {ROUNDS, ATTEMPTS} \subseteq Nat
  BY ConstantsAssumption DEF Dial, ControlInv, Counters, Passage, Target, InDial
<1>2. UNCHANGED <<first_ip, first_port, prev_noport, drawn>>
  BY DEF Dial, DialRefused, gluetun, reads
<1>3. Due = (round - 1) * ATTEMPTS + (attempt - 1)
  BY <1>1 DEF Due, InDial
<1>4. Due' = Due + 1 /\ pc' # "dial"
  <2>1. CASE attempt < ATTEMPTS
    <3>1. pc' = "pause" /\ attempt' = attempt + 1 /\ round' = round
      BY <2>1 DEF DialRefused
    <3>2. Due' = (round - 1) * ATTEMPTS + attempt
      BY <1>1, <3>1 DEF Due, InDial
    <3>3. (round - 1) * ATTEMPTS \in Int
      BY <1>1
    <3> QED BY <1>1, <1>3, <3>1, <3>2, <3>3
  <2>2. CASE ~(attempt < ATTEMPTS)
    <3>1. EndRound /\ attempt = ATTEMPTS
      BY <1>1, <2>2 DEF DialRefused
    <3>2. round * ATTEMPTS = (round - 1) * ATTEMPTS + ATTEMPTS
          /\ (round - 1) * ATTEMPTS \in Int
      BY <1>1
    <3>3. CASE round < ROUNDS
      <4>1. pc' = "settle" /\ round' = round + 1
        BY <3>1, <3>3 DEF EndRound, AnotherRound
      <4>2. Due' = round * ATTEMPTS
        BY <1>1, <4>1 DEF Due, InDial
      <4> QED BY <1>1, <1>3, <3>1, <3>2, <4>1, <4>2
    <3>4. CASE round = ROUNDS
      <4>1. pc' = "verdict"
        BY <1>1, <3>1, <3>4 DEF EndRound, AnotherRound
      <4>2. Due' = round * ATTEMPTS
        BY <3>4, <4>1 DEF Due, InDial
      <4> QED BY <1>1, <1>3, <3>1, <3>2, <4>1, <4>2
    <3> QED BY <1>1, <3>3, <3>4
  <2> QED BY <2>1, <2>2
<1> DEFINE dial == <<ip, port, round, attempt>>
<1>5. Ordered /\ refused' \in {refused, refused \cup {dial}}
  BY DEF CountInv, DialRefused
<1>6. Ordered'
  <2>1. IsFiniteSet(refused')
    BY <1>5, FS_AddElement DEF Ordered
  <2>2. \A d \in refused' :
            /\ d[3] \in 1 .. ROUNDS /\ d[4] \in 1 .. ATTEMPTS
            /\ d[3] < round \/ (d[3] = round /\ d[4] <= attempt)
    <3>1. \A d \in refused :
            /\ d[3] \in 1 .. ROUNDS /\ d[4] \in 1 .. ATTEMPTS
            /\ d[3] < round \/ (d[3] = round /\ d[4] <= attempt)
      BY <1>1, <1>5 DEF Ordered, InDial
    <3>2. dial[3] = round /\ dial[4] = attempt
      OBVIOUS
    <3> QED BY <1>1, <1>5, <3>1, <3>2
  <2>3. \/ pc' = "pause" /\ attempt' = attempt + 1 /\ round' = round
        \/ pc' = "settle" /\ round' = round + 1
        \/ pc' = "verdict"
    BY DEF DialRefused, EndRound
  <2> QED BY <1>1, <2>1, <2>2, <2>3 DEF Ordered, InDial
<1>7. Due \in Int /\ Cardinality(AtTarget) \in Nat /\ IsFiniteSet(AtTarget)
  BY <1>5, DueType, AtTargetIsFinite DEF ControlInv
<1>8. Cardinality(AtTarget) >= Due
  BY <1>1 DEF CountInv, Counted
<1>9. CASE Held
  <2>1. refused' = refused \cup {dial}
    BY <1>9 DEF DialRefused
  <2>2. dial \notin refused
    <3>1. dial[3] = round /\ dial[4] = attempt
      OBVIOUS
    <3> QED BY <1>1, <1>5, <3>1 DEF Ordered, InDial
  <2>3. AtTarget' = AtTarget \cup {dial} /\ dial \notin AtTarget
    BY <1>1, <1>2, <2>1, <2>2 DEF AtTarget
  <2>4. Cardinality(AtTarget') = Cardinality(AtTarget) + 1
    BY <1>7, <2>3, FS_AddElement
  <2>5. Cardinality(AtTarget') >= Due'
    BY <1>4, <1>7, <1>8, <2>4
  <2> QED BY <1>6, <2>5 DEF CountInv, Counted
<1>10. CASE ~Held
  <2>1. AtTarget' = AtTarget /\ drawn' # first_port'
    BY <1>1, <1>2, <1>10 DEF DialRefused, AtTarget, DrawInv, AnswersHold
  <2>2. Cardinality(AtTarget') >= Due' - 1
    BY <1>4, <1>7, <1>8, <2>1
  <2> QED BY <1>4, <1>6, <2>1, <2>2 DEF CountInv, Counted
<1> QED BY <1>9, <1>10

LEMMA CountStep == ControlInv /\ ControlInv' /\ DrawInv /\ CountInv /\ [Next]_vars => CountInv'
<1> SUFFICES ASSUME ControlInv, ControlInv', DrawInv, CountInv, [Next]_vars PROVE CountInv'
  OBVIOUS
<1>0. round \in 1 .. ROUNDS /\ attempt \in 1 .. ATTEMPTS /\ {ROUNDS, ATTEMPTS} \subseteq Nat
  BY ConstantsAssumption DEF ControlInv, Counters
<1>1. ASSUME NEW status, ExitWith(status) PROVE CountInv'
  BY <1>1, CountEmpty DEF ExitWith
<1> DEFINE Known == UNCHANGED <<refused, first_ip, first_port, drawn>>
<1>2. CASE Reconnect \/ Forward
  <2>1. /\ UNCHANGED <<refused, first_ip, first_port, prev_noport, round, attempt, pc>>
        /\ drawn' = NextDraw(drawn) /\ changes' = changes + 1 /\ changes < MaxChanges
        /\ setting' = setting
    BY <1>2 DEF Reconnect, Forward, Change, TunnelUp, reads
  <2>2. drawn' \in 1 .. Last /\ (first_port # Empty => drawn' # first_port)
    BY <2>1, DrawIsNew DEF DrawInv, Drawing, ControlInv, Counters
  <2>3. drawn' # first_port
    BY <2>2, SettingType DEF Empty
  <2>4. Ordered' /\ Due' = Due
    BY <2>1 DEF CountInv, Ordered, Due, InDial
  <2> QED BY <2>1, <2>3, <2>4, CountKept
<1>3. CASE UNCHANGED vars \/ Sync
  <2>1. Known /\ UNCHANGED <<prev_noport, round, attempt, pc>>
    BY <1>3 DEF vars, Sync, gluetun, reads, history
  <2>2. Ordered' /\ Due' = Due
    BY <2>1 DEF CountInv, Ordered, Due, InDial
  <2> QED BY <2>1, <2>2, CountKept
<1>4. CASE Start
  <2>1. refused' = {} /\ round' = 1 /\ pc' = "status"
    BY <1>4 DEF Start, ControlInv, Passage, reads
  <2> QED BY <2>1, CountEmpty
<1>5. ASSUME Known, UNCHANGED <<round, prev_noport>>,
             pc \in {"settle", "status", "ip", "port"}, pc' \in {"status", "ip", "port", "listen"}
      PROVE  CountInv'
  <2>1. Ordered' /\ Due' = Due
    BY <1>5 DEF CountInv, Ordered, Due, InDial
  <2> QED BY <1>5, <2>1, CountKept
<1>6. CASE ReadStatus \/ ReadIp \/ Settle
  <2>1. CASE NothingToDo
    BY <1>1, <2>1 DEF NothingToDo
  <2>2. CASE ~NothingToDo
    <3>1. Known /\ UNCHANGED <<round, prev_noport>> /\ pc \in {"settle", "status", "ip"}
          /\ pc' \in {"status", "ip", "port"}
      BY <1>6, <2>2 DEF ReadStatus, ReadIp, Settle, Goto, gluetun, reads, history
    <3> QED BY <1>5, <3>1
  <2> QED BY <2>1, <2>2
<1>7. CASE ReadPort
  <2>1. PICK p \in Read(exit_port) :
            IF Unreadable(p) \/ PortStateMoved(p)
            THEN NothingToDo
            ELSE /\ port' = p /\ prev_noport' = NoPort(p)
                 /\ IF p = 0 THEN EndRound ELSE pc' = "listen" /\ UNCHANGED round
                 /\ UNCHANGED <<attempt, ip, now_ip, first_ip, first_port, changes,
                                result, history>>
    BY <1>7 DEF ReadPort
  <2>2. CASE NothingToDo
    BY <1>1, <2>2 DEF NothingToDo
  <2>3. CASE ~(Unreadable(p) \/ PortStateMoved(p))
    <3>1. Known /\ pc = "port" /\ prev_noport' = NoPort(p)
      BY <1>7, <2>1, <2>3 DEF ReadPort, gluetun, history
    <3>2. CASE p = 0
      <4>1. prev_noport' = 1
        BY <3>1, <3>2 DEF NoPort
      <4>2. \/ pc' = "settle" /\ round' = round + 1
            \/ pc' = "verdict"
        BY <2>1, <2>3, <3>2 DEF EndRound
      <4>3. Ordered'
        BY <1>0, <3>1, <4>2 DEF CountInv, Ordered, InDial
      <4> QED BY <4>1, <4>3 DEF CountInv, Counted
    <3>3. CASE p # 0
      <4>1. pc' = "listen" /\ round' = round
        BY <2>1, <2>3, <3>3
      <4>2. prev_noport # 1
        BY <2>3, <3>3 DEF PortStateMoved, NoPort, Empty
      <4>3. Ordered' /\ Due' = Due
        BY <3>1, <4>1 DEF CountInv, Ordered, Due, InDial
      <4> QED BY <3>1, <4>1, <4>2, <4>3, CountKept
    <3> QED BY <3>2, <3>3
  <2> QED BY <2>1, <2>2, <2>3
<1>8. CASE ReadListen
  <2>1. CASE NothingToDo
    BY <1>1, <2>1 DEF NothingToDo
  <2>2. CASE ~NothingToDo
    <3>1. /\ pc = "listen" /\ pc' = "now_ip" /\ ~AddressMoved
          /\ first_ip' = ip /\ first_port' = port /\ attempt' = 1
          /\ UNCHANGED <<refused, drawn, round, prev_noport>>
      BY <1>8, <2>2 DEF ReadListen, Goto, gluetun, history
    <3>2. Ordered'
      BY <3>1 DEF CountInv, Ordered, InDial
    <3>3. Due = (round - 1) * ATTEMPTS /\ Due' = (round - 1) * ATTEMPTS + (1 - 1)
      BY <3>1 DEF Due, InDial
    <3>4. Due' = Due
      BY <1>0, <3>3
    <3>5. CASE round > 1
      <4>1. first_ip' = first_ip /\ first_port' = first_port
        BY <3>1, <3>5 DEF AddressMoved
      <4> QED BY <3>1, <3>2, <3>4, <4>1, CountKept
    <3>6. CASE round = 1
      <4>1. Due' = 0
        BY <1>0, <3>3, <3>6
      <4>2. Cardinality(AtTarget') \in Nat
        <5>1. AtTarget' \subseteq refused' /\ IsFiniteSet(refused')
          BY <3>2 DEF AtTarget, Ordered
        <5> QED BY <5>1, FS_Subset, FS_CardinalityType
      <4> QED BY <3>2, <4>1, <4>2 DEF CountInv, Counted
    <3> QED BY <1>0, <3>5, <3>6
  <2> QED BY <2>1, <2>2
<1>9. CASE ReadNowIp \/ Pause
  <2>1. /\ Known /\ UNCHANGED <<round, attempt, prev_noport>>
        /\ InDial /\ InDial' /\ pc' # "dial"
    BY <1>9 DEF ReadNowIp, Pause, Goto, InDial, gluetun, reads, history
  <2>2. Ordered' /\ Due' = Due
    BY <2>1 DEF CountInv, Ordered, Due, InDial
  <2> QED BY <2>1, <2>2, CountKept
<1>10. CASE ReadNowPort
  <2>1. CASE NothingToDo
    BY <1>1, <2>1 DEF NothingToDo
  <2>2. CASE ~NothingToDo
    <3>1. PICK now_port \in Read(exit_port) : ~MovedMidProbe(now_port) /\ Goto("dial")
      BY <1>10, <2>2 DEF ReadNowPort
    <3>2. /\ Known /\ UNCHANGED <<round, attempt, prev_noport>>
          /\ pc = "now_port" /\ pc' = "dial"
      BY <1>10, <2>2 DEF ReadNowPort, Goto, gluetun, reads, history
    <3>3. drawn = first_port
      BY <3>1, <3>2
      DEF MovedMidProbe, Read, ControlInv, Target, InDial, DrawInv, Drawing
    <3>4. Ordered' /\ Due' = Due
      BY <3>2 DEF CountInv, Ordered, Due, InDial
    <3> QED BY <3>2, <3>3, <3>4, CountKept
  <2> QED BY <2>1, <2>2
<1>11. CASE Dial
  BY <1>1, <1>11, CountDial DEF Dial
<1>12. CASE Verdict
  <2>1. CASE ExitWith("failed")
    BY <1>1, <2>1
  <2>2. CASE Goto("stop") /\ UNCHANGED <<round, attempt, reads>>
    <3>1. Known /\ UNCHANGED prev_noport /\ pc = "verdict" /\ pc' = "stop"
      BY <1>12, <2>2 DEF Verdict, Goto, gluetun, reads, history
    <3>2. Ordered' /\ Due' = Due
      BY <3>1 DEF CountInv, Ordered, Due, InDial
    <3> QED BY <3>1, <3>2, CountKept
  <2> QED BY <1>12, <2>1, <2>2 DEF Verdict, Decide
<1>13. CASE PutStopped
  <2>1. Known /\ UNCHANGED prev_noport /\ pc = "stop" /\ pc' = "start"
    BY <1>13 DEF PutStopped, gluetun, reads
  <2>2. Ordered' /\ Due' = Due
    BY <2>1 DEF CountInv, Ordered, Due, InDial
  <2> QED BY <2>1, <2>2, CountKept
<1>14. CASE PutRunning \/ Kill
  BY <1>1, <1>14 DEF PutRunning, Kill
<1> QED
  BY <1>2, <1>3, <1>4, <1>6, <1>7, <1>8, <1>9, <1>10, <1>11, <1>12, <1>13, <1>14
  DEF Next, Step

LEMMA CountCorrect == Spec => []CountInv
BY CountInit, CountStep, ControlCorrect, DrawCorrect, PTL DEF Spec

\* A run that is about to stop the VPN has seen every attempt of every round fail
\* at one address that gluetun held, the last dial at most excepted, for any
\* numbers of rounds and attempts and however gluetun's changes fall between the
\* separate reads of address and port.
THEOREM RotatesOnlyCondemnedCorrect == Spec => []RotatesOnlyCondemned
<1>1. ControlInv /\ CountInv => RotatesOnlyCondemned
  <2> SUFFICES ASSUME ControlInv, CountInv, pc = "stop"
               PROVE  Cardinality(AtTarget) >= ROUNDS * ATTEMPTS - 1
    BY DEF RotatesOnlyCondemned, AtTarget
  <2>1. prev_noport # 1 /\ Due = ROUNDS * ATTEMPTS /\ ROUNDS * ATTEMPTS \in Nat
    BY ConstantsAssumption DEF ControlInv, Passage, Due, InDial
  <2>2. Cardinality(AtTarget) \in Nat
    BY AtTargetIsFinite DEF CountInv
  <2> QED BY <2>1, <2>2 DEF CountInv, Counted
<1> QED BY <1>1, ControlCorrect, CountCorrect, PTL
===============================================================================
