------------------------------- MODULE ArmRelay -------------------------------
(***************************************************************************)
(* The relay between the station and a real SO-101                         *)
(* (scripts/arm-relay.mjs) and the pages that mirror their arm through it  *)
(* (components/station/arm-link.tsx). Frames wait on each page's socket;   *)
(* lines to the follower and back wait on its serial port; a leader may be *)
(* plugged in, and is then the only thing that drives while it streams.    *)
(* The follower's firmware is not in the repository: it takes poses, ARM   *)
(* and STOP, answers ARMED and STOP, and may stop by itself. A relay       *)
(* without --owner is modelled.                                            *)
(***************************************************************************)
EXTENDS Naturals, Sequences, SequencesExt

CONSTANTS
  Pages,           \* open stations that may mirror
  MaxPoses,        \* bound: poses that pages and leader send
  MaxLines         \* bound: lines that wait on one way of the serial port

VARIABLES
  tab,             \* tab[p]: link.phase; "moving" is ease or live
  wire,            \* wire[p]: what p's socket still has to deliver
  clients,         \* the relay's sockets
  follower,        \* what the relay believes of the follower
  stream,          \* whether a page's pose is less than 250 ms old
  leader,          \* port: plugged in; fresh: its pose is less than 300 ms old
  serial,          \* lines to the follower and lines back
  servo,           \* the follower: armed or not, and its target
  relay,           \* up: running; mayArm: --arm; greeted: the first STOP is sent;
                   \* ending: the process is about to exit
  poses            \* poses sent so far

armVars == <<tab, wire, clients, follower, stream, leader, serial, servo, relay, poses>>

ArmAssumption == MaxPoses \in Nat /\ MaxLines \in Nat \ {0}
ASSUME ArmFacts == ArmAssumption

\* Home, elsewhere, and one outside the limits or too close to the table.
Poses == {"home", "away", "bad"}

Disbelief == [armed |-> FALSE, requested |-> FALSE]

ArmInit ==
  /\ tab = [p \in Pages |-> "off"] /\ wire = [p \in Pages |-> <<>>] /\ clients = {}
  /\ follower = Disbelief /\ stream = FALSE
  /\ leader \in [port : BOOLEAN, fresh : {FALSE}]
  /\ serial = [lines |-> <<>>, back |-> <<>>]
  /\ servo = [armed |-> FALSE, target |-> "none"]
  /\ relay \in [up : {TRUE}, mayArm : BOOLEAN, greeted : {FALSE},
              ending : {FALSE}]
  /\ poses = 0

desk == <<stream, leader, relay>>

Connect(p) ==
  /\ tab[p] = "off" /\ wire[p] = <<>> /\ relay.up
  /\ tab' = [tab EXCEPT ![p] = "home"]
  /\ clients' = clients \cup {p}
  /\ UNCHANGED <<wire, follower, desk, serial, servo, poses>>

\* mirrorJoints: home for a while, then on the way to the drawn arm and with it.
Mirror(p) ==
  /\ tab[p] # "off" /\ poses < MaxPoses
  /\ \E q \in IF tab[p] = "home" THEN {"home"} ELSE Poses :
       wire' = [wire EXCEPT ![p] = Append(@, q)]
  /\ \E phase \in {tab[p], "moving"} : tab' = [tab EXCEPT ![p] = phase]
  /\ poses' = poses + 1
  /\ UNCHANGED <<clients, follower, desk, serial, servo>>

Rehome(p) ==
  /\ tab[p] = "moving"
  /\ tab' = [tab EXCEPT ![p] = "home"]
  /\ UNCHANGED <<wire, clients, follower, desk, serial, servo, poses>>

\* "Stop mirroring" says so before it closes; a tab that is closed does not.
Leave(p) ==
  /\ tab[p] # "off"
  /\ tab' = [tab EXCEPT ![p] = "off"]
  /\ \E last \in {<<"stop", "close">>, <<"close">>} :
       wire' = [wire EXCEPT ![p] = @ \o last]
  /\ UNCHANGED <<clients, follower, desk, serial, servo, poses>>

Write(lines) ==
  /\ Len(serial.lines) < MaxLines
  /\ serial' = [serial EXCEPT !.lines = @ \o lines]

FollowerStop == Write(<<"STOP">>) /\ follower' = Disbelief

\* Mutant: any pose may ask the follower to arm.
SendFollower_AnyPose(q) ==
  IF q = "bad" THEN FollowerStop
  ELSE \/ UNCHANGED <<serial, follower>>
       \/ LET arms == relay.mayArm /\ follower = Disbelief
          IN /\ Write(IF arms THEN <<q, "ARM">> ELSE <<q>>)
             /\ follower' = [follower EXCEPT !.requested = @ \/ arms]

\* A pose within 20 ms of the last one is let go.
SendFollower(q) ==
  IF q = "bad" THEN FollowerStop
  ELSE \/ UNCHANGED <<serial, follower>>
       \/ LET arms == relay.mayArm /\ follower = Disbelief /\ q = "home"
          IN /\ Write(IF arms THEN <<q, "ARM">> ELSE <<q>>)
             /\ follower' = [follower EXCEPT !.requested = @ \/ arms]

LeaderDrives == leader.port /\ leader.fresh

Receive(p) ==
  /\ relay.up /\ wire[p] # <<>>
  /\ wire' = [wire EXCEPT ![p] = Tail(@)]
  /\ LET m == Head(wire[p]) IN
     /\ stream' = (stream \/ m \in Poses)
     /\ clients' = IF m = "close" THEN clients \ {p} ELSE clients
     /\ CASE m \in Poses -> IF LeaderDrives THEN UNCHANGED <<serial, follower>>
                            ELSE SendFollower(m)
          [] m = "stop" -> FollowerStop
          [] OTHER -> IF clients' = {} /\ ~leader.port THEN FollowerStop
                      ELSE UNCHANGED <<serial, follower>>
  /\ UNCHANGED <<tab, leader, servo, relay, poses>>

\* A line outside the limits is passed over.
LeaderLine(q) ==
  /\ relay.up /\ leader.port /\ poses < MaxPoses
  /\ leader' = [leader EXCEPT !.fresh = TRUE]
  /\ SendFollower(q)
  /\ poses' = poses + 1
  /\ UNCHANGED <<tab, wire, clients, stream, servo, relay>>

GoesQuiet ==
  /\ \/ stream /\ stream' = FALSE /\ UNCHANGED leader
     \/ leader.fresh /\ leader' = [leader EXCEPT !.fresh = FALSE] /\ UNCHANGED stream
  /\ UNCHANGED <<tab, wire, clients, follower, serial, servo, relay, poses>>

\* Mutant: only a request is watched.
Watch_RequestedOnly ==
  /\ relay.up /\ follower.requested
  /\ ~leader.port /\ ~stream
  /\ FollowerStop
  /\ UNCHANGED <<tab, wire, clients, desk, servo, poses>>

\* Once a second.
Watch ==
  /\ relay.up /\ (follower.armed \/ follower.requested)
  /\ ~leader.port /\ ~stream
  /\ FollowerStop
  /\ UNCHANGED <<tab, wire, clients, desk, servo, poses>>

\* The STOP that follows the opening of the port by 1.5 s, whatever came between.
Greet ==
  /\ relay.up /\ ~relay.greeted
  /\ relay' = [relay EXCEPT !.greeted = TRUE]
  /\ Write(<<"STOP">>)
  /\ UNCHANGED <<tab, wire, clients, follower, stream, leader, servo, poses>>

\* Mutant: ARMED counts only where it was asked for.
ReadLine_IfRequested ==
  /\ relay.up /\ serial.back # <<>>
  /\ serial' = [serial EXCEPT !.back = Tail(@)]
  /\ follower' = IF Head(serial.back) = "ARMED"
                 THEN [follower EXCEPT !.armed = follower.requested] ELSE Disbelief
  /\ UNCHANGED <<tab, wire, clients, desk, servo, poses>>

ReadLine ==
  /\ relay.up /\ serial.back # <<>>
  /\ serial' = [serial EXCEPT !.back = Tail(@)]
  /\ follower' = IF Head(serial.back) = "ARMED" THEN [follower EXCEPT !.armed = TRUE]
                 ELSE Disbelief
  /\ UNCHANGED <<tab, wire, clients, desk, servo, poses>>

\* SIGINT: STOP, and the process ends 100 ms later; until then it goes on as
\* before. Its sockets end with it.
Shutdown ==
  /\ relay.up /\ ~relay.ending
  /\ FollowerStop
  /\ relay' = [relay EXCEPT !.ending = TRUE]
  /\ UNCHANGED <<tab, wire, clients, stream, leader, servo, poses>>

Exit ==
  /\ relay.up /\ relay.ending
  /\ relay' = [relay EXCEPT !.up = FALSE]
  /\ tab' = [p \in Pages |-> "off"] /\ wire' = [p \in Pages |-> <<>>] /\ clients' = {}
  /\ serial' = [serial EXCEPT !.back = <<>>]
  /\ UNCHANGED <<follower, stream, leader, servo, poses>>

\* Nobody reads the answers once the relay is gone.
Answers(line, rest) ==
  serial' = [lines |-> rest,
             back |-> IF relay.up THEN Append(serial.back, line) ELSE <<>>]

\* The firmware reads a line. It may decline to arm, which it says with STOP.
TakeLine ==
  /\ serial.lines # <<>> /\ Len(serial.back) < MaxLines
  /\ LET line == Head(serial.lines)
         rest == Tail(serial.lines)
     IN \/ /\ line \in Poses
           /\ servo' = [servo EXCEPT !.target = line]
           /\ serial' = [serial EXCEPT !.lines = rest]
        \/ /\ line = "ARM"
           /\ servo' = [servo EXCEPT !.armed = TRUE]
           /\ Answers("ARMED", rest)
        \/ /\ line \in {"ARM", "STOP"}
           /\ servo' = [servo EXCEPT !.armed = FALSE]
           /\ Answers("STOP", rest)
  /\ UNCHANGED <<tab, wire, clients, follower, desk, poses>>

\* A target too old, a servo that is stuck.
SelfStop ==
  /\ servo.armed /\ Len(serial.back) < MaxLines
  /\ servo' = [servo EXCEPT !.armed = FALSE]
  /\ Answers("STOP", serial.lines)
  /\ UNCHANGED <<tab, wire, clients, follower, desk, poses>>

ArmNext ==
  \/ \E p \in Pages : Connect(p) \/ Mirror(p) \/ Rehome(p) \/ Leave(p) \/ Receive(p)
  \/ \E q \in Poses : LeaderLine(q)
  \/ GoesQuiet \/ Watch \/ Greet \/ ReadLine \/ Shutdown \/ Exit
  \/ TakeLine \/ SelfStop

ArmSpec == ArmInit /\ [][ArmNext]_armVars

\* The event loop runs, the interval with it, bytes cross the serial port both
\* ways, and time passes. Nobody has to send, and the firmware need not stop.
ArmFairness ==
  /\ \A p \in Pages : WF_armVars(Receive(p))
  /\ WF_armVars(GoesQuiet) /\ WF_armVars(Watch)
  /\ WF_armVars(ReadLine) /\ WF_armVars(TakeLine)
-----------------------------------------------------------------------------
\* An armed follower is one the relay believes armed, or is about to hear of,
\* or has told to stop: answers of earlier stops that cross a new ARM on the
\* serial port never hide it (arm-relay.mjs 205-217).
ArmedIsKnown ==
  relay.up /\ servo.armed =>
                 \/ follower.armed
                 \/ Contains(serial.lines, "STOP") \/ Contains(serial.back, "ARMED")

\* The follower comes to be armed only by a relay that was started with --arm
\* and only where the last target it took is the home pose, whatever poses,
\* stops and answers crossed since the relay asked (arm-relay.mjs 18).
ArmsAtHome ==
  [][~servo.armed /\ servo'.armed => relay.mayArm /\ servo.target = "home"]_armVars

\* With no leader plugged in, a follower whose stream went quiet ends stopped,
\* by the relay alone, unless the stream comes back (arm-relay.mjs 22,
\* arm-link.tsx 16).
QuietEndsInStop ==
  servo.armed /\ ~stream /\ ~leader.port ~> ~servo.armed \/ stream \/ ~relay.up
=============================================================================
