---------------------------- MODULE LinkTimeline ----------------------------
(***************************************************************************)
(* The link failures of sync-eval.cc: the files of losses that some        *)
(* invocations generate and another one reads, the events that main        *)
(* schedules from them or from the hard-coded pattern, the toggling of a   *)
(* link at both its ends, and the recomputation of the routes.             *)
(*                                                                         *)
(* The simulator runs events in the order of their times and those of      *)
(* equal time in the order in which they were scheduled; time jumps from   *)
(* event to event.  Abstraction: events that only print are left out, and  *)
(* the routing tables (external) are the links they were computed with.    *)
(***************************************************************************)
EXTENDS Integers, Sequences

CONSTANTS
  Sizes,      \* how many links a topology may have
  Metrics,    \* what the topology file may say of a link
  Dice,       \* what may be drawn for a link, in percents rounded up
  Losses,     \* values of --loss, in percents
  SimTimes    \* values of --simTime, in seconds

End == {"from", "to"}
Type == {"ccnx", "ipv4"}
Down == 65535   \* numeric_limits<uint16_t>::max ()
Grace == 30     \* from a change of the links to the recomputation
None == -1

ASSUME LinkAssumption ==
  /\ \A n \in Sizes : n \in Nat \ {0}
  /\ \A m \in Metrics : m \in Nat \ {0} /\ m < Down
  /\ \A x \in Dice : x \in Nat \ {0} /\ x <= 100
  /\ \A p \in Losses : p \in Nat /\ p <= 100
  /\ \A t \in SimTimes : t \in Nat \ {0} /\ t % 4 = 0

VARIABLES
  options,     \* the command line: type, loss, manualLoss, simTime
  dice,        \* what is drawn for each link: --run seeds it, so always the same
  files,       \* files[p]: the file for --loss p: is it there, its N, the links it fails
  phase,       \* "start", "run", "ended"; "undefined" after a read past the last link
  face,        \* face[l][e]: is that end of l up, and its metric
  routes,      \* routes[l]: the metric l was routed with, 0 if it was left out
  events,      \* what is scheduled, numbered in the order of scheduling
  now,         \* the time of the last event
  original,    \* history variable: the metrics of the topology file
  scheduled,   \* history variable: the links that main found to fail
  downFor,     \* history variable: how long each link has been down
  staleSince   \* history variable: since when routes and links differ, or None

input == << options, original, dice >>
history == << scheduled, downFor, staleSince >>
vars == << input, files, phase, face, routes, events, now, history >>

Link == DOMAIN original
NLinks == Len(original)

At(time, uid, what, l) == [at |-> time, uid |-> uid, what |-> what, link |-> l]

Usable(l) == \A e \in End : face[l][e].up

Init ==
  /\ options \in [type : Type, loss : Losses, manualLoss : BOOLEAN, simTime : SimTimes]
  /\ \E n \in Sizes : original \in [1 .. n -> Metrics] /\ dice \in [1 .. n -> Dice]
  /\ files = [p \in Losses |-> [present |-> FALSE, N |-> 0, failed |-> {}]]
  /\ phase = "start"
  /\ face = [l \in Link |-> [e \in End |-> [up |-> TRUE, metric |-> original[l]]]]
  /\ routes = original
  /\ events = {}
  /\ now = 0
  /\ scheduled = {}
  /\ downFor = [l \in Link |-> 0]
  /\ staleSince = None

(* An invocation with --generate, for some --loss: the number of links and *)
(* a line for each, which fails if the dice is within the loss.            *)
GenerateLosses ==
  /\ phase = "start"
  /\ \E p \in Losses :
       files' = [files EXCEPT ![p] = [present |-> TRUE, N |-> NLinks,
                                      failed |-> { l \in Link : dice[l] <= p }]]
  /\ UNCHANGED << input, phase, face, routes, events, now, history >>

(* A run looks for the file of messages, which every generator writes: its *)
(* name tells the run and the number of clients, but not the loss.         *)
InputIsThere == \E p \in Losses : files[p].present

-----------------------------------------------------------------------------
(* Scheduling.                                                             *)

failureTime == options.simTime \div 4
recoveryTime == 3 * (options.simTime \div 4)

(* Mutant: the routes are only recomputed when the whole run is long.      *)
FailureOf_LongRunsOnly(l) ==
  { At(failureTime, 4 * l, "toggle", l), At(recoveryTime, 4 * l + 1, "toggle", l) }
  \union IF options.type = "ipv4" /\ options.simTime - recoveryTime > Grace
         THEN { At(failureTime + Grace, 4 * l + 2, "recompute", l),
                At(recoveryTime + Grace, 4 * l + 3, "recompute", l) }
         ELSE {}

(* Mutant: the link is taken down and brought up at once.                  *)
FailureOf_SameTime(l) ==
  { At(failureTime, 4 * l, "toggle", l), At(failureTime, 4 * l + 1, "toggle", l) }

(* What is scheduled for one failed link, after what is for the links      *)
(* before it.                                                              *)
FailureOf(l) ==
  { At(failureTime, 4 * l, "toggle", l), At(recoveryTime, 4 * l + 1, "toggle", l) }
  \union IF options.type = "ipv4" /\ recoveryTime - failureTime > Grace
         THEN { At(failureTime + Grace, 4 * l + 2, "recompute", l) }
              \union IF options.simTime - recoveryTime > Grace
                     THEN { At(recoveryTime + Grace, 4 * l + 3, "recompute", l) }
                     ELSE {}
         ELSE {}

(* The stop is scheduled first.                                            *)
StopAtEnd == At(options.simTime, 0, "stop", 0)

StartRun(scheduledEvents, failed) ==
  /\ events' = scheduledEvents
  /\ scheduled' = failed
  /\ phase' = "run"

(* Without losses nothing is read.                                         *)
ScheduleNothing ==
  /\ phase = "start"
  /\ InputIsThere
  /\ options.loss = 0
  /\ StartRun({ StopAtEnd }, {})
  /\ UNCHANGED << input, files, face, routes, now, downFor, staleSince >>

(* The pattern is about the first and the third link, and for ipv4 it is   *)
(* commented out.                                                          *)
ManualPattern ==
  IF options.type = "ipv4" THEN {}
  ELSE { At(200, 2, "toggle", 1), At(800, 3, "toggle", 1),
         At(400, 4, "toggle", 3), At(1000, 5, "toggle", 3) }

ManualLinks == { e.link : e \in ManualPattern }

ScheduleManual ==
  /\ phase = "start"
  /\ InputIsThere
  /\ options.loss > 0
  /\ options.manualLoss
  /\ IF ManualLinks \subseteq Link
     THEN StartRun({ StopAtEnd, At(1200, 1, "stop", 0) } \union ManualPattern, ManualLinks)
     ELSE phase' = "undefined" /\ UNCHANGED << events, scheduled >>
  /\ UNCHANGED << input, files, face, routes, now, downFor, staleSince >>

(* Mutant: the link is advanced before it is used.                         *)
ScheduleFromFile_NextLink ==
  /\ phase = "start"
  /\ InputIsThere
  /\ options.loss > 0
  /\ ~ options.manualLoss
  /\ \E N \in 0 .. NLinks + 1 : \E lines \in SUBSET (1 .. N) :
       LET file == files[options.loss]
           failed == { l + 1 : l \in lines }
       IN  /\ file.present => N = file.N /\ lines = file.failed
           /\ IF failed \subseteq Link
              THEN StartRun({ StopAtEnd } \union UNION { FailureOf(l) : l \in failed }, failed)
              ELSE phase' = "undefined" /\ UNCHANGED << events, scheduled >>
  /\ UNCHANGED << input, files, face, routes, now, downFor, staleSince >>

(* The k-th line read is for the k-th link of the list, whatever index is  *)
(* written there, and the list is followed for N lines without asking for  *)
(* its end.  Of a file that is not there nothing is read, and N and failed *)
(* keep what they happen to hold: N is cut at one more than there are links.*)
ScheduleFromFile ==
  /\ phase = "start"
  /\ InputIsThere
  /\ options.loss > 0
  /\ ~ options.manualLoss
  /\ \E N \in 0 .. NLinks + 1 : \E failed \in SUBSET (1 .. N) :
       /\ LET file == files[options.loss]
          IN  file.present => N = file.N /\ failed = file.failed
       /\ IF failed \subseteq Link
          THEN StartRun({ StopAtEnd } \union UNION { FailureOf(l) : l \in failed }, failed)
          ELSE phase' = "undefined" /\ UNCHANGED << events, scheduled >>
  /\ UNCHANGED << input, files, face, routes, now, downFor, staleSince >>

-----------------------------------------------------------------------------
(* Running.                                                                *)

(* Both ends are flipped, whatever they are.                               *)
ToggleLinkStatusCcnx(l) ==
  face' = [face EXCEPT ![l] = [e \in End |-> [up |-> ~ @[e].up, metric |-> @[e].metric]]]

(* Mutant: the metric is left when the link comes up.                      *)
ToggleLinkStatusIpv4_KeepsMetric(l) ==
  face' = [face EXCEPT ![l] =
             [e \in End |-> IF @[e].up THEN [up |-> FALSE, metric |-> Down]
                            ELSE [up |-> TRUE, metric |-> @[e].metric]]]

(* Each end is flipped by its own state, with its metric.                  *)
ToggleLinkStatusIpv4(l) ==
  face' = [face EXCEPT ![l] =
             [e \in End |-> IF @[e].up THEN [up |-> FALSE, metric |-> Down]
                            ELSE [up |-> TRUE, metric |-> 1]]]

Toggle(l) ==
  /\ IF options.type = "ipv4" THEN ToggleLinkStatusIpv4(l) ELSE ToggleLinkStatusCcnx(l)
  /\ UNCHANGED << routes, phase >>

(* External: the global routing of ns-3 uses a link whose ends are both up.*)
RecomputeRoutingTables ==
  /\ routes' = [l \in Link |-> IF Usable(l) THEN face[l]["from"].metric ELSE 0]
  /\ UNCHANGED << face, phase >>

Stop ==
  /\ phase' = "ended"
  /\ UNCHANGED << face, routes >>

(* The event that runs next: of the earliest ones the first scheduled.     *)
IsNext(e) ==
  \A d \in events : e.at < d.at \/ (e.at = d.at /\ e.uid <= d.uid)

(* The routing tables of ipv4 use a link that is down, or leave out one    *)
(* that is up.                                                             *)
Stale(f, r) == \E l \in Link : (r[l] # 0) # (\A e \in End : f[l][e].up)

Keep ==
  /\ downFor' = [l \in Link |-> downFor[l] + IF Usable(l) THEN 0 ELSE now' - now]
  /\ staleSince' = IF ~ Stale(face', routes') THEN None
                   ELSE IF staleSince = None THEN now' ELSE staleSince

RunEvent ==
  /\ phase = "run"
  /\ \E e \in events :
       /\ IsNext(e)
       /\ now' = e.at
       /\ events' = events \ {e}
       /\ \/ e.what = "toggle" /\ Toggle(e.link)
          \/ e.what = "recompute" /\ RecomputeRoutingTables
          \/ e.what = "stop" /\ Stop
  /\ Keep
  /\ UNCHANGED << input, files, scheduled >>

Next ==
  \/ GenerateLosses
  \/ ScheduleNothing
  \/ ScheduleManual
  \/ ScheduleFromFile
  \/ RunEvent

Spec == Init /\ [][Next]_vars

-----------------------------------------------------------------------------
(* Properties.                                                             *)

(* The generator and the run are two invocations that agree on a link only *)
(* by its position: the run ignores the index of a line.  If the file was  *)
(* generated for the --loss of the run, the run does not look past the     *)
(* last link, and when it has ended a link has been down for half of it if *)
(* its dice was within the loss, and never if not, whatever else was       *)
(* generated.                                                              *)
FailuresAsDrawn ==
  ~ options.manualLoss /\ (options.loss = 0 \/ files[options.loss].present) =>
    /\ phase # "undefined"
    /\ phase = "ended" =>
         \A l \in Link :
           downFor[l] = IF dice[l] <= options.loss THEN options.simTime \div 2 ELSE 0

(* What is taken down comes up again, at both ends: a run that is driven   *)
(* by the file of losses ends with every link up, each link of the file    *)
(* having been down for half of the simulated time and no other one ever;  *)
(* a run with the hard-coded pattern does, if it lasts longer than the     *)
(* last healing.  Each end is flipped by its own state (line 147), and in  *)
(* an ipv4 run the end with the largest metric is the one that is down.    *)
EveryFailureIsHealed ==
  /\ \A l \in Link :
       /\ face[l]["from"] = face[l]["to"]
       /\ options.type = "ipv4" => (Usable(l) <=> face[l]["from"].metric # Down)
  /\ phase = "ended" /\ ~ options.manualLoss =>
       \A l \in Link : /\ Usable(l)
                       /\ downFor[l] = IF l \in scheduled THEN options.simTime \div 2 ELSE 0
  /\ phase = "ended" /\ options.manualLoss /\ options.simTime > 1000 =>
       \A l \in Link : /\ Usable(l)
                       /\ downFor[l] = IF l \in scheduled THEN 600 ELSE 0

(* Recovery sets the metric to 1 (line 143).  For links whose metric was 1 *)
(* this is a recovery: a run with time for the second recomputation ends   *)
(* with the routes it began with.  The other links that failed have        *)
(* changed, and only they.                                                 *)
RoutesRestored ==
  phase = "ended" /\ options.type = "ipv4" /\ options.simTime > 4 * Grace =>
    \A l \in Link : routes[l] = IF l \in scheduled THEN 1 ELSE original[l]

(* Without the recomputations the routes would lead into failed links for  *)
(* the rest of the run.  The two conditions on the lengths (lines 444 and  *)
(* 447) leave recomputations out, but only where the links change again or *)
(* the run ends within the grace: routes and links of an ipv4 run never    *)
(* disagree for longer than that.                                          *)
RoutesLagBehind ==
  [][options.type = "ipv4" /\ staleSince # None => now' - staleSince <= Grace]_vars
=============================================================================
