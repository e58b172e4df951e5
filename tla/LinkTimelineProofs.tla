------------------------- MODULE LinkTimelineProofs -------------------------
(***************************************************************************)
(* The failures of sync-eval heal, and the routes of its ipv4 runs follow  *)
(* them, for any topology, any set of failing links and any length of the  *)
(* run that is a multiple of four seconds.                                 *)
(*                                                                         *)
(* The invariant follows each link through its two toggles and the routes  *)
(* through their two recomputations.  What has not run is still scheduled, *)
(* and what is scheduled is not before now: so the time tells which of the *)
(* events have run.                                                        *)
(***************************************************************************)
EXTENDS LinkTimeline, TLAPS

ipv4 == options.type = "ipv4"

(* The two toggles of a link, of the hard-coded pattern or of the file.    *)
FailAt(l) == IF ~ options.manualLoss THEN failureTime ELSE IF l = 1 THEN 200 ELSE 400
HealAt(l) == IF ~ options.manualLoss THEN recoveryTime ELSE IF l = 1 THEN 800 ELSE 1000

FailUid(l) == IF ~ options.manualLoss THEN 4 * l ELSE IF l = 1 THEN 2 ELSE 4

Fail(l) == At(FailAt(l), FailUid(l), "toggle", l)
Heal(l) == At(HealAt(l), FailUid(l) + 1, "toggle", l)

(* The recomputations after them, and when there are any.                  *)
cutTime == failureTime + Grace
healedTime == recoveryTime + Grace

AfterFail(l) == At(cutTime, 4 * l + 2, "recompute", l)
AfterHeal(l) == At(healedTime, 4 * l + 3, "recompute", l)

CutComes == recoveryTime - failureTime > Grace
HealedComes == CutComes /\ options.simTime - recoveryTime > Grace

OptionsInv ==
  /\ options \in [type : Type, loss : Losses, manualLoss : BOOLEAN, simTime : SimTimes]
  /\ \E n \in Sizes : original \in [1 .. n -> Metrics]

(* Before the run, and for ever if it never begins.                        *)
AsNew(l) == [e \in End |-> [up |-> TRUE, metric |-> original[l]]]

NotRunning ==
  /\ face = [l \in Link |-> AsNew(l)]
  /\ downFor = [l \in Link |-> 0]
  /\ routes = original
  /\ staleSince = None
  /\ now = 0

(* What is scheduled lies ahead.                                           *)
EventsInv ==
  /\ now \in Nat
  /\ scheduled \subseteq Link
  /\ options.manualLoss => scheduled \subseteq { 1, 3 } /\ (ipv4 => scheduled = {})
  /\ phase = "run" => StopAtEnd \in events
  /\ phase = "ended" => now = options.simTime \/ (options.manualLoss /\ now = 1200)
  /\ \A e \in events :
       /\ e.at \in Nat
       /\ now <= e.at
       /\ \/ /\ e.what = "stop"
             /\ e.at = options.simTime \/ (options.manualLoss /\ e.at = 1200)
          \/ \E l \in scheduled : e = Fail(l) \/ e = Heal(l)
          \/ /\ ipv4
             /\ \E l \in scheduled : \/ CutComes /\ e = AfterFail(l)
                                     \/ HealedComes /\ e = AfterHeal(l)

(* A link before its failure, between the two toggles, and after them.     *)
Cut(l) ==
  [e \in End |-> [up |-> FALSE, metric |-> IF ipv4 THEN Down ELSE original[l]]]
Healed(l) ==
  [e \in End |-> [up |-> TRUE, metric |-> IF ipv4 THEN 1 ELSE original[l]]]

Untouched(l) ==
  /\ l \in scheduled => Fail(l) \in events /\ Heal(l) \in events
  /\ face[l] = AsNew(l)
  /\ downFor[l] = 0

IsCut(l) ==
  /\ l \in scheduled
  /\ Fail(l) \notin events /\ Heal(l) \in events
  /\ face[l] = Cut(l)
  /\ now >= FailAt(l) /\ downFor[l] = now - FailAt(l)

IsHealed(l) ==
  /\ l \in scheduled
  /\ Fail(l) \notin events /\ Heal(l) \notin events
  /\ face[l] = Healed(l)
  /\ now >= HealAt(l) /\ downFor[l] = HealAt(l) - FailAt(l)

LinksInv ==
  /\ DOMAIN face = Link
  /\ DOMAIN downFor = Link
  /\ \A l \in Link : Untouched(l) \/ IsCut(l) \/ IsHealed(l)

(* The routes before, between and after the recomputations, and since when *)
(* they differ from the links.                                             *)
StaleFrom(t) == staleSince = IF Stale(face, routes) THEN t ELSE None

RoutesAsNew ==
  /\ routes = original
  /\ \A l \in scheduled : /\ CutComes => AfterFail(l) \in events
                          /\ HealedComes => AfterHeal(l) \in events
  /\ StaleFrom(failureTime)

RoutesCut ==
  /\ CutComes /\ now >= cutTime /\ scheduled # {}
  /\ routes = [l \in Link |-> IF l \in scheduled THEN 0 ELSE original[l]]
  /\ HealedComes => \A l \in scheduled : AfterHeal(l) \in events
  /\ StaleFrom(recoveryTime)

RoutesHealed ==
  /\ HealedComes /\ now >= healedTime
  /\ routes = [l \in Link |-> IF l \in scheduled THEN 1 ELSE original[l]]
  /\ ~ Stale(face, routes)
  /\ staleSince = None

RoutesInv == ipv4 => RoutesAsNew \/ RoutesCut \/ RoutesHealed

TimelineInv ==
  /\ OptionsInv
  /\ phase \in {"start", "undefined", "run", "ended"}
  /\ phase \in {"start", "undefined"} => NotRunning
  /\ phase \in {"run", "ended"} => EventsInv /\ LinksInv /\ RoutesInv
-----------------------------------------------------------------------------
(* The times: a quarter of the run, three quarters, and the whole.         *)
LEMMA Times ==
  ASSUME OptionsInv
  PROVE  /\ failureTime \in Nat /\ failureTime > 0
         /\ recoveryTime = 3 * failureTime
         /\ options.simTime = 4 * failureTime
<1>1. options.simTime \in Nat \ {0} /\ options.simTime % 4 = 0
  BY LinkAssumption DEF OptionsInv
<1>2. QED
  BY <1>1 DEF failureTime, recoveryTime

LEMMA ToggleTimes ==
  ASSUME OptionsInv, NEW l
  PROVE  /\ FailAt(l) \in Nat /\ HealAt(l) \in Nat
         /\ FailAt(l) < HealAt(l)
         /\ ~ options.manualLoss => FailAt(l) = failureTime /\ HealAt(l) = recoveryTime
  BY Times DEF FailAt, HealAt

(* What the events say.                                                    *)
LEMMA Parts ==
  ASSUME NEW l
  PROVE  /\ Fail(l).at = FailAt(l) /\ Fail(l).what = "toggle" /\ Fail(l).link = l
         /\ Heal(l).at = HealAt(l) /\ Heal(l).what = "toggle" /\ Heal(l).link = l
         /\ AfterFail(l).at = cutTime /\ AfterFail(l).what = "recompute"
         /\ AfterHeal(l).at = healedTime /\ AfterHeal(l).what = "recompute"
         /\ StopAtEnd.at = options.simTime /\ StopAtEnd.what = "stop"
         /\ AfterFail(l).link = l /\ AfterHeal(l).link = l
  BY DEF Fail, Heal, AfterFail, AfterHeal, StopAtEnd, At

(* The links of the topology have metrics that are neither 0 nor that of a *)
(* link that is down.                                                      *)
LEMMA Metric ==
  ASSUME OptionsInv
  PROVE  /\ \A l \in Link : original[l] \in Nat /\ original[l] # 0 /\ original[l] < Down
         /\ Link = 1 .. NLinks /\ NLinks \in Nat /\ NLinks > 0
         /\ original = [l \in Link |-> original[l]]
<1>1. PICK n \in Sizes : original \in [1 .. n -> Metrics]
  BY DEF OptionsInv
<1>2. n \in Nat /\ n > 0
  BY <1>1, LinkAssumption
<1>3. Link = 1 .. n /\ original = [l \in Link |-> original[l]]
  BY <1>1 DEF Link
<1>4. \A l \in Link : original[l] \in Nat /\ original[l] # 0 /\ original[l] < Down
  <2>1. \A l \in Link : original[l] \in Metrics
    BY <1>1, <1>3
  <2>2. QED
    BY <2>1, LinkAssumption DEF Down
<1>5. NLinks = n
  BY <1>1, <1>2 DEF NLinks
<1>6. QED
  BY <1>2, <1>3, <1>4, <1>5

LEMMA InitHolds == Init => TimelineInv
<1> SUFFICES ASSUME Init PROVE TimelineInv
  OBVIOUS
<1>1. OptionsInv /\ phase = "start"
  BY DEF Init, OptionsInv
<1>2. NotRunning
  BY <1>1 DEF Init, NotRunning, AsNew
<1>3. QED
  BY <1>1, <1>2 DEF TimelineInv

LEMMA GenerateStep == TimelineInv /\ GenerateLosses => TimelineInv'
<1> SUFFICES ASSUME TimelineInv, GenerateLosses PROVE TimelineInv'
  OBVIOUS
<1>1. /\ OptionsInv /\ NotRunning /\ phase = "start"
      /\ options' = options /\ original' = original /\ phase' = "start"
  BY DEF TimelineInv, GenerateLosses, input
<1>2. Link' = Link /\ \A l : AsNew(l)' = AsNew(l)
  BY <1>1 DEF Link, AsNew
<1>3. NotRunning'
  BY <1>1, <1>2 DEF NotRunning, GenerateLosses, history
<1>4. OptionsInv'
  BY <1>1 DEF OptionsInv
<1>5. QED
  BY <1>1, <1>3, <1>4 DEF TimelineInv

(* The run begins with links and routes as they are in the topology.       *)
LEMMA BeginRun ==
  ASSUME TimelineInv, phase = "start", phase' = "run",
         UNCHANGED << input, files, face, routes, now, downFor, staleSince >>,
         scheduled' \subseteq Link,
         options.manualLoss => scheduled' \subseteq { 1, 3 } /\ (ipv4 => scheduled' = {}),
         StopAtEnd \in events',
         \A e \in events' :
           \/ e = StopAtEnd
           \/ e.what = "stop" /\ options.manualLoss /\ e.at = 1200
           \/ \E l \in scheduled' : e = Fail(l) \/ e = Heal(l)
           \/ /\ ipv4
              /\ \E l \in scheduled' : \/ CutComes /\ e = AfterFail(l)
                                       \/ HealedComes /\ e = AfterHeal(l),
         \A l \in scheduled' :
           /\ Fail(l) \in events' /\ Heal(l) \in events'
           /\ ipv4 => /\ CutComes => AfterFail(l) \in events'
                      /\ HealedComes => AfterHeal(l) \in events'
  PROVE  TimelineInv'
<1>1. /\ OptionsInv /\ NotRunning /\ options' = options /\ original' = original
      /\ face' = face /\ routes' = routes /\ now' = now /\ downFor' = downFor
      /\ staleSince' = staleSince
  BY DEF TimelineInv, input
<1>2. /\ Link' = Link /\ ipv4' = ipv4 /\ StopAtEnd' = StopAtEnd
      /\ CutComes' = CutComes /\ HealedComes' = HealedComes
      /\ failureTime' = failureTime
  BY <1>1 DEF Link, ipv4, StopAtEnd, CutComes, HealedComes, failureTime, recoveryTime
<1>3. \A l : /\ Fail(l)' = Fail(l) /\ Heal(l)' = Heal(l) /\ AsNew(l)' = AsNew(l)
             /\ AfterFail(l)' = AfterFail(l) /\ AfterHeal(l)' = AfterHeal(l)
  BY <1>1 DEF Fail, Heal, AfterFail, AfterHeal, AsNew, FailAt, HealAt, FailUid,
              cutTime, healedTime, failureTime, recoveryTime
<1>4. OptionsInv'
  BY <1>1 DEF OptionsInv
<1>5. EventsInv'
  <2>1. now' = 0
    BY <1>1 DEF NotRunning
  <2>2. cutTime \in Nat /\ healedTime \in Nat /\ options.simTime \in Nat
    BY <1>1, Times DEF cutTime, healedTime, Grace
  <2>3. ASSUME NEW e \in events'
        PROVE  e.at \in Nat /\ now' <= e.at
    <3>1. e.at \in Nat
      <4>1. CASE e = StopAtEnd
        BY <4>1, <2>2, Parts
      <4>2. CASE e.at = 1200
        BY <4>2
      <4>3. CASE \E l \in scheduled' : e = Fail(l) \/ e = Heal(l)
        <5>1. PICK l \in scheduled' : e = Fail(l) \/ e = Heal(l)
          BY <4>3
        <5>2. e.at = FailAt(l) \/ e.at = HealAt(l)
          BY <5>1, Parts
        <5>3. FailAt(l) \in Nat /\ HealAt(l) \in Nat
          BY <1>1, ToggleTimes
        <5>4. QED
          BY <5>2, <5>3
      <4>4. CASE \E l \in scheduled' : e = AfterFail(l) \/ e = AfterHeal(l)
        BY <4>4, <2>2, Parts
      <4>5. QED
        BY <4>1, <4>2, <4>3, <4>4
    <3>2. QED
      BY <2>1, <3>1
  <2>4. ASSUME NEW e \in events'
        PROVE  \/ /\ e.what = "stop"
                  /\ e.at = options.simTime \/ (options.manualLoss /\ e.at = 1200)
               \/ \E l \in scheduled' : e = Fail(l) \/ e = Heal(l)
               \/ /\ ipv4
                  /\ \E l \in scheduled' : \/ CutComes /\ e = AfterFail(l)
                                           \/ HealedComes /\ e = AfterHeal(l)
    BY Parts
  <2>5. QED
    BY <1>1, <1>2, <1>3, <2>1, <2>3, <2>4 DEF EventsInv
<1>6. LinksInv'
  <2>1. DOMAIN face' = Link /\ DOMAIN downFor' = Link
    BY <1>1 DEF NotRunning
  <2>2. ASSUME NEW l \in Link PROVE Untouched(l)'
    BY <1>1, <1>3 DEF NotRunning, Untouched
  <2>3. QED
    BY <1>2, <2>1, <2>2 DEF LinksInv
<1>7. RoutesInv'
  <2>1. ~ Stale(face', routes')
    <3>1. \A l \in Link : original[l] # 0
      <4>1. \A l \in Link : original[l] \in Nat /\ original[l] # 0 /\ original[l] < Down
        BY <1>1, Metric
      <4>2. QED
        BY <4>1
    <3>2. ASSUME NEW l \in Link
          PROVE  routes'[l] # 0 /\ \A e \in End : face'[l][e].up
      BY <1>1, <3>1 DEF NotRunning, AsNew
    <3>3. ASSUME Stale(face', routes') PROVE FALSE
      <4>1. PICK l \in Link : (routes'[l] # 0) # (\A e \in End : face'[l][e].up)
        BY <3>3, Zenon DEF Stale
      <4>2. (routes'[l] # 0) = TRUE /\ (\A e \in End : face'[l][e].up) = TRUE
        BY <3>2
      <4>3. QED
        BY <4>1, <4>2
    <3>4. QED
      BY <3>3
  <2>2. (Stale(face, routes))' = Stale(face', routes')
    BY <1>2 DEF Stale
  <2>3. StaleFrom(failureTime)'
    BY <1>1, <2>1, <2>2 DEF StaleFrom, NotRunning
  <2>4. ipv4 => RoutesAsNew'
    BY <1>1, <1>2, <1>3, <2>3 DEF RoutesAsNew, NotRunning
  <2>5. QED
    BY <1>2, <2>4 DEF RoutesInv
<1>8. QED
  BY <1>4, <1>5, <1>6, <1>7 DEF TimelineInv

LEMMA NothingStep == TimelineInv /\ ScheduleNothing => TimelineInv'
<1> SUFFICES ASSUME TimelineInv, ScheduleNothing PROVE TimelineInv'
  OBVIOUS
<1>1. /\ phase = "start" /\ phase' = "run" /\ scheduled' = {} /\ events' = { StopAtEnd }
      /\ UNCHANGED << input, files, face, routes, now, downFor, staleSince >>
  BY DEF ScheduleNothing, StartRun
<1>2. QED
  BY <1>1, BeginRun

(* A run that would begin by reading past the last link.                   *)
LEMMA NeverBegins ==
  ASSUME TimelineInv, phase = "start", phase' = "undefined",
         UNCHANGED << input, files, face, routes, now, downFor, staleSince, events, scheduled >>
  PROVE  TimelineInv'
<1>1. /\ OptionsInv /\ NotRunning /\ options' = options /\ original' = original
      /\ face' = face /\ routes' = routes /\ now' = now
      /\ downFor' = downFor /\ staleSince' = staleSince
  BY DEF TimelineInv, input
<1>2. Link' = Link /\ \A l : AsNew(l)' = AsNew(l)
  BY <1>1 DEF Link, AsNew
<1>3. NotRunning'
  BY <1>1, <1>2 DEF NotRunning
<1>4. OptionsInv'
  BY <1>1 DEF OptionsInv
<1>5. QED
  BY <1>3, <1>4 DEF TimelineInv

LEMMA ManualStep == TimelineInv /\ ScheduleManual => TimelineInv'
<1> SUFFICES ASSUME TimelineInv, ScheduleManual PROVE TimelineInv'
  OBVIOUS
<1>1. /\ OptionsInv /\ NotRunning
      /\ phase = "start" /\ options.manualLoss
      /\ UNCHANGED << input, files, face, routes, now, downFor, staleSince >>
  BY DEF TimelineInv, ScheduleManual
<1>2. /\ ManualLinks = IF ipv4 THEN {} ELSE { 1, 3 }
      /\ ManualPattern = IF ipv4 THEN {} ELSE { Fail(1), Heal(1), Fail(3), Heal(3) }
  <2>1. /\ Fail(1) = At(200, 2, "toggle", 1) /\ Heal(1) = At(800, 3, "toggle", 1)
        /\ Fail(3) = At(400, 4, "toggle", 3) /\ Heal(3) = At(1000, 5, "toggle", 3)
    BY <1>1 DEF Fail, Heal, FailAt, HealAt, FailUid
  <2>2. ManualPattern = IF ipv4 THEN {} ELSE { Fail(1), Heal(1), Fail(3), Heal(3) }
    BY <2>1 DEF ManualPattern, ipv4
  <2>3. \A l : Fail(l).link = l /\ Heal(l).link = l
    BY Parts
  <2>4. QED
    BY <2>2, <2>3 DEF ManualLinks
<1>3. CASE ~ (ManualLinks \subseteq Link)
  <2>1. phase' = "undefined" /\ events' = events /\ scheduled' = scheduled
    BY <1>3 DEF ScheduleManual
  <2>2. QED
    BY <1>1, <2>1, NeverBegins
<1>4. CASE ManualLinks \subseteq Link
  <2>1. /\ phase' = "run" /\ scheduled' = ManualLinks
        /\ events' = { StopAtEnd, At(1200, 1, "stop", 0) } \union ManualPattern
    BY <1>4 DEF ScheduleManual, StartRun
  <2>2. scheduled' \subseteq Link /\ scheduled' \subseteq { 1, 3 }
    BY <1>2, <1>4, <2>1
  <2>3. ipv4 => scheduled' = {}
    BY <1>2, <2>1
  <2>4. StopAtEnd \in events'
    BY <2>1
  <2>5. \A l \in scheduled' : Fail(l) \in events' /\ Heal(l) \in events'
    BY <1>2, <2>1
  <2>6. ASSUME NEW e \in events'
        PROVE  \/ e = StopAtEnd
               \/ e.what = "stop" /\ options.manualLoss /\ e.at = 1200
               \/ \E l \in scheduled' : e = Fail(l) \/ e = Heal(l)
    <3>1. CASE e = At(1200, 1, "stop", 0)
      BY <3>1, <1>1 DEF At
    <3>2. CASE e \in ManualPattern
      BY <3>2, <1>2, <2>1
    <3>3. QED
      BY <2>1, <3>1, <3>2
  <2>7. QED
    BY <1>1, <2>1, <2>2, <2>3, <2>4, <2>5, <2>6, BeginRun
<1>5. QED
  BY <1>3, <1>4

LEMMA FileStep == TimelineInv /\ ScheduleFromFile => TimelineInv'
<1> SUFFICES ASSUME TimelineInv, ScheduleFromFile PROVE TimelineInv'
  OBVIOUS
<1>1. /\ OptionsInv /\ NotRunning
      /\ phase = "start" /\ ~ options.manualLoss
      /\ UNCHANGED << input, files, face, routes, now, downFor, staleSince >>
  BY DEF TimelineInv, ScheduleFromFile
<1>2. PICK N \in 0 .. NLinks + 1 : \E failed \in SUBSET (1 .. N) :
        IF failed \subseteq Link
        THEN StartRun({ StopAtEnd } \union UNION { FailureOf(l) : l \in failed }, failed)
        ELSE phase' = "undefined" /\ UNCHANGED << events, scheduled >>
  BY DEF ScheduleFromFile
<1>3. PICK failed \in SUBSET (1 .. N) :
        IF failed \subseteq Link
        THEN StartRun({ StopAtEnd } \union UNION { FailureOf(l) : l \in failed }, failed)
        ELSE phase' = "undefined" /\ UNCHANGED << events, scheduled >>
  BY <1>2
<1>4. CASE ~ (failed \subseteq Link)
  <2>1. phase' = "undefined" /\ events' = events /\ scheduled' = scheduled
    BY <1>3, <1>4
  <2>2. QED
    BY <1>1, <2>1, NeverBegins
<1>5. CASE failed \subseteq Link
  <2>1. /\ phase' = "run" /\ scheduled' = failed
        /\ events' = { StopAtEnd } \union UNION { FailureOf(l) : l \in failed }
    BY <1>3, <1>5 DEF StartRun
  <2>2. \A l : FailureOf(l) =
          { Fail(l), Heal(l) } \union
          (IF ipv4 /\ CutComes
           THEN { AfterFail(l) } \union (IF HealedComes THEN { AfterHeal(l) } ELSE {})
           ELSE {})
    BY <1>1 DEF FailureOf, Fail, Heal, AfterFail, AfterHeal, FailAt, HealAt, FailUid,
                cutTime, healedTime, ipv4, CutComes, HealedComes
  <2>3. HealedComes => CutComes
    BY DEF HealedComes
  <2>4. ASSUME NEW e \in events'
        PROVE  \/ e = StopAtEnd
               \/ \E l \in scheduled' : e = Fail(l) \/ e = Heal(l)
               \/ /\ ipv4
                  /\ \E l \in scheduled' : \/ CutComes /\ e = AfterFail(l)
                                           \/ HealedComes /\ e = AfterHeal(l)
    <3>1. CASE e = StopAtEnd
      BY <3>1
    <3>2. CASE e # StopAtEnd
      <4>1. PICK l \in failed : e \in FailureOf(l)
        BY <2>1, <3>2
      <4>2. QED
        BY <2>1, <2>2, <2>3, <4>1
    <3>3. QED
      BY <3>1, <3>2
  <2>5. ASSUME NEW l \in scheduled'
        PROVE  /\ Fail(l) \in events' /\ Heal(l) \in events'
               /\ ipv4 => /\ CutComes => AfterFail(l) \in events'
                          /\ HealedComes => AfterHeal(l) \in events'
    <3>1. FailureOf(l) \subseteq events'
      BY <2>1
    <3>2. QED
      BY <2>2, <2>3, <3>1
  <2>6. StopAtEnd \in events' /\ scheduled' \subseteq Link
    BY <1>5, <2>1
  <2>7. QED
    BY <1>1, <2>1, <2>4, <2>5, <2>6, BeginRun
<1>6. QED
  BY <1>4, <1>5

-----------------------------------------------------------------------------
(* One event runs: e, which is due and no later than any other.            *)
Runs(e) ==
  /\ phase = "run"
  /\ e \in events
  /\ IsNext(e)
  /\ now' = e.at
  /\ events' = events \ {e}
  /\ Keep
  /\ UNCHANGED << input, files, scheduled >>

LEMMA RunFacts ==
  ASSUME TimelineInv, NEW e, Runs(e)
  PROVE  /\ OptionsInv /\ EventsInv /\ LinksInv /\ RoutesInv
         /\ now \in Nat /\ now' \in Nat /\ now <= now'
         /\ \A d \in events : now' <= d.at
         /\ e \in events /\ now' = e.at /\ events' = events \ {e}
         /\ options' = options /\ original' = original /\ scheduled' = scheduled
<1>1. /\ OptionsInv /\ EventsInv /\ LinksInv /\ RoutesInv
      /\ e \in events /\ now' = e.at /\ events' = events \ {e}
      /\ options' = options /\ original' = original /\ scheduled' = scheduled
  BY DEF TimelineInv, Runs, input
<1>2. now \in Nat /\ now' \in Nat /\ now <= now'
  BY <1>1 DEF EventsInv
<1>3. \A d \in events : now' <= d.at
  <2>1. ASSUME NEW d \in events PROVE now' <= d.at
    <3>1. d.at \in Nat
      BY <1>1 DEF EventsInv
    <3>2. e.at < d.at \/ e.at = d.at
      BY DEF Runs, IsNext
    <3>3. QED
      BY <1>1, <1>2, <3>1, <3>2
  <2>2. QED
    BY <2>1
<1>4. QED
  BY <1>1, <1>2, <1>3

(* Nothing but the state changes: the names of links, events and times.    *)
LEMMA SameNames ==
  ASSUME options' = options, original' = original
  PROVE  /\ Link' = Link /\ ipv4' = ipv4 /\ StopAtEnd' = StopAtEnd
         /\ CutComes' = CutComes /\ HealedComes' = HealedComes
         /\ failureTime' = failureTime /\ recoveryTime' = recoveryTime
         /\ cutTime' = cutTime /\ healedTime' = healedTime
         /\ \A l : /\ Fail(l)' = Fail(l) /\ Heal(l)' = Heal(l)
                  /\ AfterFail(l)' = AfterFail(l) /\ AfterHeal(l)' = AfterHeal(l)
                  /\ AsNew(l)' = AsNew(l) /\ Cut(l)' = Cut(l) /\ Healed(l)' = Healed(l)
                  /\ FailAt(l)' = FailAt(l) /\ HealAt(l)' = HealAt(l)
  BY DEF Link, ipv4, StopAtEnd, CutComes, HealedComes, failureTime, recoveryTime, cutTime,
         healedTime, Fail, Heal, AfterFail, AfterHeal, AsNew, Cut, Healed, FailAt, HealAt,
         FailUid

(* Events are of three kinds.                                              *)
LEMMA Kinds ==
  ASSUME OptionsInv, EventsInv, NEW e \in events
  PROVE  /\ e.what \in { "stop", "toggle", "recompute" }
         /\ e.what = "stop" => e.at = options.simTime \/ (options.manualLoss /\ e.at = 1200)
         /\ e.what = "toggle" => e.link \in scheduled /\ (e = Fail(e.link) \/ e = Heal(e.link))
         /\ e.what = "recompute" =>
              /\ ipv4 /\ ~ options.manualLoss /\ scheduled # {}
              /\ \/ CutComes /\ e.at = cutTime /\ \A l : e # AfterHeal(l)
                 \/ HealedComes /\ e.at = healedTime
<1>1. CASE /\ e.what = "stop"
           /\ e.at = options.simTime \/ (options.manualLoss /\ e.at = 1200)
  BY <1>1
<1>2. CASE \E l \in scheduled : e = Fail(l) \/ e = Heal(l)
  BY <1>2, Parts
<1>3. CASE /\ ipv4
           /\ \E l \in scheduled : \/ CutComes /\ e = AfterFail(l)
                                   \/ HealedComes /\ e = AfterHeal(l)
  <2>1. ~ options.manualLoss
    <3>1. options.manualLoss => scheduled = {}
      BY <1>3 DEF EventsInv
    <3>2. QED
      BY <1>3, <3>1
  <2>2. PICK l \in scheduled : \/ CutComes /\ e = AfterFail(l)
                               \/ HealedComes /\ e = AfterHeal(l)
    BY <1>3
  <2>3. CASE CutComes /\ e = AfterFail(l)
    <3>1. ASSUME NEW m, e = AfterHeal(m) PROVE FALSE
      <4>1. AfterFail(l).at = cutTime
        BY Parts
      <4>2. AfterHeal(m).at = healedTime
        BY Parts
      <4>3. cutTime # healedTime
        BY Times DEF cutTime, healedTime, Grace
      <4>4. QED
        BY <2>3, <3>1, <4>1, <4>2, <4>3
    <3>2. QED
      BY <2>1, <2>3, <1>3, <3>1, Parts
  <2>4. CASE HealedComes /\ e = AfterHeal(l)
    BY <2>1, <2>4, <1>3, Parts
  <2>5. QED
    BY <2>2, <2>3, <2>4
<1>4. QED
  BY <1>1, <1>2, <1>3 DEF EventsInv

LEMMA EventsStep ==
  ASSUME TimelineInv, NEW e, Runs(e),
         phase' = IF e.what = "stop" THEN "ended" ELSE "run"
  PROVE  EventsInv'
<1>1. /\ OptionsInv /\ EventsInv
      /\ now \in Nat /\ now' \in Nat /\ now <= now'
      /\ \A d \in events : now' <= d.at
      /\ e \in events /\ now' = e.at /\ events' = events \ {e}
      /\ options' = options /\ original' = original /\ scheduled' = scheduled
  BY RunFacts
<1>2. phase' = "run" => StopAtEnd \in events'
  <2>1. StopAtEnd \in events /\ StopAtEnd.what = "stop"
    BY <1>1, Parts DEF EventsInv, Runs
  <2>2. QED
    BY <1>1, <2>1
<1>3. phase' = "ended" => now' = options.simTime \/ (options.manualLoss /\ now' = 1200)
  BY <1>1, Kinds
<1>4. QED
  BY <1>1, <1>2, <1>3, SameNames DEF EventsInv

-----------------------------------------------------------------------------
(* Links that are not touched by the event.                                *)
LEMMA UsableLinks ==
  ASSUME LinksInv, NEW l \in Link
  PROVE  /\ Untouched(l) \/ IsHealed(l) => Usable(l)
         /\ IsCut(l) => ~ Usable(l)
  BY DEF Untouched, IsHealed, IsCut, AsNew, Healed, Cut, Usable, End

LEMMA OtherLinks ==
  ASSUME TimelineInv, NEW e, Runs(e), NEW l \in Link,
         e.what # "toggle" \/ e.link # l, face'[l] = face[l]
  PROVE  (Untouched(l) \/ IsCut(l) \/ IsHealed(l))'
<1>1. /\ OptionsInv /\ EventsInv /\ LinksInv
      /\ now \in Nat /\ now' \in Nat /\ now <= now'
      /\ e \in events /\ now' = e.at /\ events' = events \ {e}
      /\ options' = options /\ original' = original /\ scheduled' = scheduled
  BY RunFacts
<1>2. e # Fail(l) /\ e # Heal(l)
  BY Parts
<1>3. Fail(l) \in events' <=> Fail(l) \in events
  BY <1>1, <1>2
<1>4. Heal(l) \in events' <=> Heal(l) \in events
  BY <1>1, <1>2
<1>5. downFor'[l] = downFor[l] + (IF Usable(l) THEN 0 ELSE now' - now)
  BY DEF Runs, Keep
<1>6. /\ Fail(l)' = Fail(l) /\ Heal(l)' = Heal(l)
      /\ AsNew(l)' = AsNew(l) /\ Cut(l)' = Cut(l) /\ Healed(l)' = Healed(l)
      /\ FailAt(l)' = FailAt(l) /\ HealAt(l)' = HealAt(l)
  BY <1>1, SameNames
<1>7. FailAt(l) \in Nat /\ HealAt(l) \in Nat
  BY <1>1, ToggleTimes
<1>8. CASE Untouched(l)
  <2>1. downFor'[l] = 0
    BY <1>1, <1>5, <1>8, UsableLinks DEF Untouched
  <2>2. Untouched(l)'
    BY <1>1, <1>3, <1>4, <1>6, <1>8, <2>1 DEF Untouched
  <2>3. QED
    BY <2>2
<1>9. CASE IsCut(l)
  <2>1. downFor'[l] = now' - FailAt(l) /\ now' >= FailAt(l)
    BY <1>1, <1>5, <1>7, <1>9, UsableLinks DEF IsCut
  <2>2. IsCut(l)'
    BY <1>1, <1>3, <1>4, <1>6, <1>9, <2>1 DEF IsCut
  <2>3. QED
    BY <2>2
<1>10. CASE IsHealed(l)
  <2>1. downFor'[l] = HealAt(l) - FailAt(l) /\ now' >= HealAt(l)
    BY <1>1, <1>5, <1>7, <1>10, UsableLinks DEF IsHealed
  <2>2. IsHealed(l)'
    BY <1>1, <1>3, <1>4, <1>6, <1>10, <2>1 DEF IsHealed
  <2>3. QED
    BY <2>2
<1>11. QED
  BY <1>1, <1>8, <1>9, <1>10 DEF LinksInv

LEMMA LinksRest ==
  ASSUME TimelineInv, NEW e, Runs(e), e.what # "toggle", face' = face
  PROVE  LinksInv'
<1>1. OptionsInv /\ LinksInv /\ options' = options /\ original' = original
  BY RunFacts
<1>2. Link' = Link
  BY <1>1, SameNames
<1>3. DOMAIN face' = Link /\ DOMAIN downFor' = Link
  BY <1>1 DEF LinksInv, Runs, Keep
<1>4. ASSUME NEW l \in Link PROVE (Untouched(l) \/ IsCut(l) \/ IsHealed(l))'
  BY OtherLinks
<1>5. QED
  BY <1>2, <1>3, <1>4 DEF LinksInv

(* A toggle fails a link that is as new, or heals one that is cut.         *)
LEMMA ToggledFace ==
  ASSUME LinksInv, NEW l \in Link, Toggle(l)
  PROVE  /\ DOMAIN face' = Link
         /\ \A k \in Link \ {l} : face'[k] = face[k]
         /\ Untouched(l) => face'[l] = Cut(l)
         /\ IsCut(l) => face'[l] = Healed(l)
<1>1. CASE ipv4
  <2>1. ToggleLinkStatusIpv4(l)
    BY <1>1 DEF Toggle, ipv4
  <2>2. /\ DOMAIN face' = Link
        /\ \A k \in Link \ {l} : face'[k] = face[k]
        /\ face'[l] = [e \in End |-> IF face[l][e].up THEN [up |-> FALSE, metric |-> Down]
                                     ELSE [up |-> TRUE, metric |-> 1]]
    BY <2>1 DEF ToggleLinkStatusIpv4, LinksInv
  <2>3. Untouched(l) => face'[l] = Cut(l)
    BY <1>1, <2>2 DEF Untouched, AsNew, Cut
  <2>4. IsCut(l) => face'[l] = Healed(l)
    BY <1>1, <2>2 DEF IsCut, Healed, Cut
  <2>5. QED
    BY <2>2, <2>3, <2>4
<1>2. CASE ~ ipv4
  <2>1. ToggleLinkStatusCcnx(l)
    BY <1>2 DEF Toggle, ipv4
  <2>2. /\ DOMAIN face' = Link
        /\ \A k \in Link \ {l} : face'[k] = face[k]
        /\ face'[l] = [e \in End |-> [up |-> ~ face[l][e].up, metric |-> face[l][e].metric]]
    BY <2>1 DEF ToggleLinkStatusCcnx, LinksInv
  <2>3. ASSUME Untouched(l) PROVE face'[l] = Cut(l)
    <3>1. \A e \in End : (~ face[l][e].up) = FALSE /\ face[l][e].metric = original[l]
      BY <2>3 DEF Untouched, AsNew
    <3>2. \A e \in End : [up |-> ~ face[l][e].up, metric |-> face[l][e].metric]
                         = [up |-> FALSE, metric |-> original[l]]
      BY <3>1, Zenon
    <3>3. QED
      BY <1>2, <2>2, <3>2 DEF Cut
  <2>4. ASSUME IsCut(l) PROVE face'[l] = Healed(l)
    <3>1. \A e \in End : (~ face[l][e].up) = TRUE /\ face[l][e].metric = original[l]
      BY <1>2, <2>4 DEF IsCut, Cut
    <3>2. \A e \in End : [up |-> ~ face[l][e].up, metric |-> face[l][e].metric]
                         = [up |-> TRUE, metric |-> original[l]]
      BY <3>1, Zenon
    <3>3. QED
      BY <1>2, <2>2, <3>2 DEF Healed
  <2>5. QED
    BY <2>2, <2>3, <2>4
<1>3. QED
  BY <1>1, <1>2

(* Which of the two it is depends on what else is scheduled.               *)
LEMMA ToggleKind ==
  ASSUME TimelineInv, NEW e, Runs(e), e.what = "toggle"
  PROVE  /\ e.link \in scheduled /\ e.link \in Link
         /\ \/ e = Fail(e.link) /\ Untouched(e.link)
            \/ e = Heal(e.link) /\ IsCut(e.link)
<1>1. /\ OptionsInv /\ EventsInv /\ LinksInv
      /\ \A d \in events : now' <= d.at
      /\ e \in events /\ now' = e.at
  BY RunFacts
<1>2. PICK l : l = e.link
  OBVIOUS
<1>3. l \in scheduled /\ l \in Link /\ (e = Fail(l) \/ e = Heal(l))
  BY <1>1, <1>2, Kinds DEF EventsInv
<1>4. Fail(l).at < Heal(l).at /\ Fail(l).at \in Nat /\ Heal(l).at \in Nat
  BY <1>1, ToggleTimes, Parts
<1>5. CASE Untouched(l)
  <2>1. Fail(l) \in events
    BY <1>3, <1>5 DEF Untouched
  <2>2. e # Heal(l)
    BY <1>1, <1>4, <2>1
  <2>3. QED
    BY <1>2, <1>3, <1>5, <2>2
<1>6. CASE IsCut(l)
  BY <1>1, <1>2, <1>3, <1>6 DEF IsCut
<1>7. CASE IsHealed(l)
  BY <1>1, <1>3, <1>7 DEF IsHealed
<1>8. QED
  BY <1>1, <1>3, <1>5, <1>6, <1>7 DEF LinksInv

LEMMA LinksToggle ==
  ASSUME TimelineInv, NEW e, Runs(e), e.what = "toggle", Toggle(e.link)
  PROVE  LinksInv'
<1>1. /\ OptionsInv /\ EventsInv /\ LinksInv
      /\ now \in Nat /\ now' \in Nat /\ now <= now'
      /\ e \in events /\ now' = e.at /\ events' = events \ {e}
      /\ options' = options /\ original' = original /\ scheduled' = scheduled
  BY RunFacts
<1>2. PICK l : l = e.link
  OBVIOUS
<1>3. /\ l \in scheduled /\ l \in Link
      /\ \/ e = Fail(l) /\ Untouched(l)
         \/ e = Heal(l) /\ IsCut(l)
  BY <1>2, ToggleKind
<1>4. /\ DOMAIN face' = Link
      /\ \A k \in Link \ {l} : face'[k] = face[k]
      /\ Untouched(l) => face'[l] = Cut(l)
      /\ IsCut(l) => face'[l] = Healed(l)
  BY <1>1, <1>2, <1>3, ToggledFace
<1>5. /\ Link' = Link
      /\ Fail(l)' = Fail(l) /\ Heal(l)' = Heal(l)
      /\ Cut(l)' = Cut(l) /\ Healed(l)' = Healed(l)
      /\ FailAt(l)' = FailAt(l) /\ HealAt(l)' = HealAt(l)
  BY <1>1, SameNames
<1>6. /\ DOMAIN downFor' = Link
      /\ downFor'[l] = downFor[l] + (IF Usable(l) THEN 0 ELSE now' - now)
  BY <1>3 DEF Runs, Keep
<1>7. /\ FailAt(l) \in Nat /\ HealAt(l) \in Nat /\ FailAt(l) < HealAt(l)
      /\ Fail(l).at = FailAt(l) /\ Heal(l).at = HealAt(l)
  BY <1>1, ToggleTimes, Parts
<1>8. (Untouched(l) \/ IsCut(l) \/ IsHealed(l))'
  <2>1. CASE e = Fail(l) /\ Untouched(l)
    <3>1. Fail(l) \notin events' /\ Heal(l) \in events'
      <4>1. Fail(l) # Heal(l)
        BY <1>7
      <4>2. QED
        BY <1>1, <1>3, <2>1, <4>1 DEF Untouched
    <3>2. now' = FailAt(l) /\ downFor'[l] = now' - FailAt(l)
      BY <1>1, <1>3, <1>6, <1>7, <2>1, UsableLinks DEF Untouched
    <3>3. IsCut(l)'
      BY <1>1, <1>3, <1>4, <1>5, <1>7, <2>1, <3>1, <3>2 DEF IsCut
    <3>4. QED
      BY <3>3
  <2>2. CASE e = Heal(l) /\ IsCut(l)
    <3>1. Fail(l) \notin events' /\ Heal(l) \notin events'
      BY <1>1, <2>2 DEF IsCut
    <3>2. now' = HealAt(l) /\ downFor'[l] = HealAt(l) - FailAt(l)
      BY <1>1, <1>3, <1>6, <1>7, <2>2, UsableLinks DEF IsCut
    <3>3. IsHealed(l)'
      BY <1>1, <1>3, <1>4, <1>5, <1>7, <2>2, <3>1, <3>2 DEF IsHealed
    <3>4. QED
      BY <3>3
  <2>3. QED
    BY <1>3, <2>1, <2>2
<1>9. ASSUME NEW k \in Link PROVE (Untouched(k) \/ IsCut(k) \/ IsHealed(k))'
  <2>1. CASE k = l
    BY <1>8, <2>1
  <2>2. CASE k # l
    BY <1>2, <1>4, <2>2, OtherLinks
  <2>3. QED
    BY <2>1, <2>2
<1>10. QED
  BY <1>4, <1>5, <1>6, <1>9 DEF LinksInv

-----------------------------------------------------------------------------
(* Since when the routes are stale after the event.                        *)
LEMMA StaleAfter ==
  ASSUME TimelineInv, NEW e, Runs(e), NEW t,
         staleSince # None => staleSince = t,
         staleSince = None /\ Stale(face', routes') => now' = t
  PROVE  staleSince' = IF Stale(face', routes') THEN t ELSE None
  BY DEF Runs, Keep

LEMMA StaleNext ==
  ASSUME options' = options, original' = original
  PROVE  (Stale(face, routes))' = Stale(face', routes')
<1>1. Link' = Link
  BY SameNames
<1>2. QED
  BY <1>1 DEF Stale

(* The routes stay, and with them what they are the routes of.             *)
LEMMA RoutesStay ==
  ASSUME TimelineInv, NEW e, Runs(e), e.what # "recompute", routes' = routes, ipv4,
         RoutesAsNew => StaleFrom(failureTime)',
         RoutesCut => StaleFrom(recoveryTime)',
         RoutesHealed => ~ Stale(face', routes') /\ staleSince' = None
  PROVE  RoutesInv'
<1>1. /\ RoutesInv
      /\ now \in Nat /\ now' \in Nat /\ now <= now'
      /\ events' = events \ {e}
      /\ options' = options /\ original' = original /\ scheduled' = scheduled
  BY RunFacts
<1>2. \A l : e # AfterFail(l) /\ e # AfterHeal(l)
  BY Parts
<1>3. /\ Link' = Link /\ ipv4' = ipv4
      /\ CutComes' = CutComes /\ HealedComes' = HealedComes
      /\ cutTime' = cutTime /\ healedTime' = healedTime
      /\ \A l : AfterFail(l)' = AfterFail(l) /\ AfterHeal(l)' = AfterHeal(l)
  BY <1>1, SameNames
<1>4. cutTime \in Nat /\ healedTime \in Nat
  BY RunFacts, Times DEF cutTime, healedTime, Grace
<1>5. CASE RoutesAsNew
  <2>1. RoutesAsNew'
    BY <1>1, <1>2, <1>3, <1>5 DEF RoutesAsNew
  <2>2. QED
    BY <2>1 DEF RoutesInv
<1>6. CASE RoutesCut
  <2>1. now' >= cutTime
    BY <1>1, <1>4, <1>6 DEF RoutesCut
  <2>2. RoutesCut'
    BY <1>1, <1>2, <1>3, <1>6, <2>1 DEF RoutesCut
  <2>3. QED
    BY <2>2 DEF RoutesInv
<1>7. CASE RoutesHealed
  <2>1. now' >= healedTime
    BY <1>1, <1>4, <1>7 DEF RoutesHealed
  <2>2. (Stale(face, routes))' = Stale(face', routes')
    BY <1>1, StaleNext
  <2>3. RoutesHealed'
    BY <1>1, <1>3, <1>7, <2>1, <2>2 DEF RoutesHealed
  <2>4. QED
    BY <2>3 DEF RoutesInv
<1>8. QED
  BY <1>1, <1>5, <1>6, <1>7 DEF RoutesInv

LEMMA RoutesStop ==
  ASSUME TimelineInv, NEW e, Runs(e), e.what = "stop", face' = face, routes' = routes, ipv4
  PROVE  RoutesInv'
<1>1. /\ OptionsInv
      /\ options' = options /\ original' = original /\ scheduled' = scheduled
  BY RunFacts
<1>2. Stale(face', routes') <=> Stale(face, routes)
  OBVIOUS
<1>3. (Stale(face, routes))' = Stale(face', routes')
  BY <1>1, StaleNext
<1>4. failureTime \in Nat /\ recoveryTime \in Nat
  BY <1>1, Times
<1>5. failureTime' = failureTime /\ recoveryTime' = recoveryTime
  BY <1>1, SameNames
<1>6. staleSince' = IF ~ Stale(face', routes') THEN None
                    ELSE IF staleSince = None THEN now' ELSE staleSince
  BY DEF Runs, Keep
<1>7. ASSUME RoutesAsNew PROVE StaleFrom(failureTime)'
  <2>1. PICK t : t = failureTime /\ t \in Nat
    BY <1>4
  <2>2. staleSince = IF Stale(face, routes) THEN t ELSE None
    BY <1>7, <2>1 DEF RoutesAsNew, StaleFrom
  <2>3. staleSince' = IF Stale(face', routes') THEN t ELSE None
    <3>1. CASE Stale(face, routes)
      <4>1. staleSince = t /\ t # None
        BY <2>1, <2>2, <3>1 DEF None
      <4>2. QED
        BY <1>2, <1>6, <3>1, <4>1
    <3>2. CASE ~ Stale(face, routes)
      BY <1>2, <1>6, <3>2
    <3>3. QED
      BY <3>1, <3>2
  <2>4. QED
    BY <1>3, <1>5, <2>1, <2>3 DEF StaleFrom, None
<1>8. ASSUME RoutesCut PROVE StaleFrom(recoveryTime)'
  <2>1. PICK t : t = recoveryTime /\ t \in Nat
    BY <1>4
  <2>2. staleSince = IF Stale(face, routes) THEN t ELSE None
    BY <1>8, <2>1 DEF RoutesCut, StaleFrom
  <2>3. staleSince' = IF Stale(face', routes') THEN t ELSE None
    <3>1. CASE Stale(face, routes)
      <4>1. staleSince = t /\ t # None
        BY <2>1, <2>2, <3>1 DEF None
      <4>2. QED
        BY <1>2, <1>6, <3>1, <4>1
    <3>2. CASE ~ Stale(face, routes)
      BY <1>2, <1>6, <3>2
    <3>3. QED
      BY <3>1, <3>2
  <2>4. QED
    BY <1>3, <1>5, <2>1, <2>3 DEF StaleFrom, None
<1>9. RoutesHealed => ~ Stale(face', routes') /\ staleSince' = None
  BY <1>2, <1>6 DEF RoutesHealed
<1>10. QED
  BY <1>7, <1>8, <1>9, RoutesStay

LEMMA RoutesToggle ==
  ASSUME TimelineInv, NEW e, Runs(e), e.what = "toggle", Toggle(e.link), ipv4
  PROVE  RoutesInv'
<1>1. /\ OptionsInv /\ EventsInv /\ LinksInv
      /\ now \in Nat /\ now' \in Nat /\ now <= now'
      /\ now' = e.at
      /\ options' = options /\ original' = original /\ scheduled' = scheduled
  BY RunFacts
<1>2. PICK l : l = e.link
  OBVIOUS
<1>3. /\ l \in scheduled /\ l \in Link
      /\ \/ e = Fail(l) /\ Untouched(l)
         \/ e = Heal(l) /\ IsCut(l)
  BY <1>2, ToggleKind
<1>4. ~ options.manualLoss
  <2>1. options.manualLoss => scheduled = {}
    BY <1>1 DEF EventsInv
  <2>2. QED
    BY <1>3, <2>1
<1>5. Fail(l).at = failureTime /\ Heal(l).at = recoveryTime
  BY <1>1, <1>4, ToggleTimes, Parts
<1>6. /\ failureTime \in Nat /\ recoveryTime \in Nat
      /\ cutTime > failureTime /\ healedTime > recoveryTime /\ healedTime > failureTime
      /\ cutTime \in Nat /\ healedTime \in Nat
  BY <1>1, Times DEF cutTime, healedTime, Grace
<1>7. routes' = routes
  BY DEF Toggle
<1>8. /\ failureTime' = failureTime /\ recoveryTime' = recoveryTime
      /\ (Stale(face, routes))' = Stale(face', routes')
  BY <1>1, SameNames, StaleNext
<1>9. ASSUME RoutesAsNew PROVE StaleFrom(failureTime)'
  <2>1. PICK t : t = failureTime
    OBVIOUS
  <2>2. staleSince # None => staleSince = t
    BY <1>9, <2>1 DEF RoutesAsNew, StaleFrom
  <2>3. staleSince = None => now' = t
    <3>1. CASE e = Fail(l)
      BY <1>1, <1>5, <2>1, <3>1
    <3>2. CASE e = Heal(l) /\ IsCut(l)
      <4>1. routes[l] # 0
        BY <1>1, <1>3, <1>9, Metric DEF RoutesAsNew
      <4>2. ~ \A d \in End : face[l][d].up
        BY <3>2 DEF IsCut, Cut, End
      <4>3. Stale(face, routes)
        BY <1>3, <4>1, <4>2 DEF Stale
      <4>4. staleSince = failureTime
        BY <1>9, <4>3 DEF RoutesAsNew, StaleFrom
      <4>5. QED
        BY <4>4, <1>6 DEF None
    <3>3. QED
      BY <1>3, <3>1, <3>2
  <2>4. staleSince' = IF Stale(face', routes') THEN t ELSE None
    BY <2>2, <2>3, StaleAfter
  <2>5. QED
    BY <1>8, <2>1, <2>4 DEF StaleFrom, None
<1>10. ASSUME RoutesCut PROVE StaleFrom(recoveryTime)'
  <2>1. PICK t : t = recoveryTime
    OBVIOUS
  <2>2. staleSince # None => staleSince = t
    BY <1>10, <2>1 DEF RoutesCut, StaleFrom
  <2>3. now' = t
    <3>1. now >= cutTime
      BY <1>10 DEF RoutesCut
    <3>2. e # Fail(l)
      BY <1>1, <1>5, <1>6, <3>1
    <3>3. QED
      BY <1>1, <1>3, <1>5, <2>1, <3>2
  <2>4. staleSince' = IF Stale(face', routes') THEN t ELSE None
    BY <2>2, <2>3, StaleAfter
  <2>5. QED
    BY <1>8, <2>1, <2>4 DEF StaleFrom, None
<1>11. ~ RoutesHealed
  <2>1. SUFFICES ASSUME now >= healedTime PROVE FALSE
    BY DEF RoutesHealed
  <2>2. QED
    BY <1>1, <1>3, <1>5, <1>6, <2>1
<1>12. QED
  BY <1>7, <1>9, <1>10, <1>11, RoutesStay

(* A recomputation uses the links that can be used, with their metrics.    *)
LEMMA RoutesRecompute ==
  ASSUME TimelineInv, NEW e, Runs(e), e.what = "recompute", face' = face,
         RecomputeRoutingTables
  PROVE  RoutesInv'
<1>1. /\ OptionsInv /\ EventsInv /\ LinksInv /\ RoutesInv
      /\ now \in Nat /\ now' \in Nat /\ now <= now'
      /\ \A d \in events : now' <= d.at
      /\ e \in events /\ now' = e.at /\ events' = events \ {e}
      /\ options' = options /\ original' = original /\ scheduled' = scheduled
  BY RunFacts
<1>2. /\ ipv4 /\ ~ options.manualLoss /\ scheduled # {}
      /\ \/ CutComes /\ e.at = cutTime /\ \A l : e # AfterHeal(l)
         \/ HealedComes /\ e.at = healedTime
  BY <1>1, Kinds
<1>3. /\ failureTime \in Nat /\ recoveryTime \in Nat
      /\ cutTime \in Nat /\ healedTime \in Nat
      /\ failureTime < recoveryTime /\ cutTime < healedTime
      /\ failureTime < cutTime /\ recoveryTime < healedTime /\ failureTime < healedTime
      /\ CutComes => cutTime < recoveryTime
  BY <1>1, Times DEF cutTime, healedTime, Grace, CutComes
<1>4. ASSUME NEW l \in Link
      PROVE  /\ Fail(l).at = failureTime /\ Heal(l).at = recoveryTime
             /\ FailAt(l) = failureTime /\ HealAt(l) = recoveryTime
  BY <1>1, <1>2, ToggleTimes, Parts
<1>5. routes' = [l \in Link |-> IF Usable(l) THEN face[l]["from"].metric ELSE 0]
  BY DEF RecomputeRoutingTables
<1>6. ASSUME NEW l \in Link
      PROVE  /\ Untouched(l) => routes'[l] = original[l] /\ original[l] # 0
             /\ IsCut(l) => routes'[l] = 0
             /\ IsHealed(l) => routes'[l] = 1
  <2>1. original[l] # 0
    BY <1>1, Metric
  <2>2. Untouched(l) => Usable(l) /\ face[l]["from"].metric = original[l]
    <3>1. Untouched(l) => Usable(l)
      BY <1>1, UsableLinks
    <3>2. Untouched(l) => face[l]["from"].metric = original[l]
      BY DEF Untouched, AsNew, End
    <3>3. QED
      BY <3>1, <3>2
  <2>3. IsHealed(l) => Usable(l) /\ face[l]["from"].metric = 1
    <3>1. IsHealed(l) => Usable(l)
      BY <1>1, UsableLinks
    <3>2. IsHealed(l) => face[l]["from"].metric = 1
      BY <1>2 DEF IsHealed, Healed, End
    <3>3. QED
      BY <3>1, <3>2
  <2>4. IsCut(l) => ~ Usable(l)
    BY <1>1, UsableLinks
  <2>5. QED
    BY <1>5, <2>1, <2>2, <2>3, <2>4
<1>7. ~ Stale(face', routes')
  <2>1. ASSUME NEW l \in Link
        PROVE  (routes'[l] # 0) <=> \A d \in End : face'[l][d].up
    <3>1. Usable(l) <=> \A d \in End : face'[l][d].up
      BY DEF Usable
    <3>2. CASE Untouched(l)
      BY <1>1, <1>6, <3>1, <3>2, UsableLinks
    <3>3. CASE IsCut(l)
      BY <1>1, <1>6, <3>1, <3>3, UsableLinks
    <3>4. CASE IsHealed(l)
      BY <1>1, <1>6, <3>1, <3>4, UsableLinks
    <3>5. QED
      BY <1>1, <3>2, <3>3, <3>4 DEF LinksInv
  <2>2. QED
    BY <2>1 DEF Stale
<1>8. staleSince' = None /\ ~ (Stale(face, routes))'
  BY <1>1, <1>7, StaleNext DEF Runs, Keep
<1>9. /\ Link' = Link /\ ipv4' = ipv4
      /\ CutComes' = CutComes /\ HealedComes' = HealedComes
      /\ cutTime' = cutTime /\ healedTime' = healedTime
      /\ \A l : AfterFail(l)' = AfterFail(l) /\ AfterHeal(l)' = AfterHeal(l)
  BY <1>1, SameNames
<1>10. ASSUME NEW l \in Link PROVE ~ (l \in scheduled /\ Untouched(l))
  <2>1. SUFFICES ASSUME l \in scheduled, Untouched(l) PROVE FALSE
    OBVIOUS
  <2>2. now' <= failureTime
    BY <1>1, <1>4, <2>1 DEF Untouched
  <2>3. QED
    BY <1>1, <1>2, <1>3, <2>2
<1>11. ASSUME NEW l \in Link, l \notin scheduled PROVE Untouched(l)
  BY <1>1, <1>11 DEF LinksInv, IsCut, IsHealed
<1>12. CASE CutComes /\ e.at = cutTime /\ \A l : e # AfterHeal(l)
  <2>1. ASSUME NEW l \in Link, l \in scheduled PROVE IsCut(l)
    <3>1. ASSUME IsHealed(l) PROVE FALSE
      <4>1. now >= recoveryTime
        BY <1>4, <3>1 DEF IsHealed
      <4>2. QED
        BY <1>1, <1>3, <1>12, <4>1
    <3>2. QED
      BY <1>1, <1>10, <2>1, <3>1 DEF LinksInv
  <2>2. routes' = [l \in Link |-> IF l \in scheduled THEN 0 ELSE original[l]]
    BY <1>5, <1>6, <1>11, <2>1
  <2>3. ~ RoutesHealed
    <3>1. SUFFICES ASSUME now >= healedTime PROVE FALSE
      BY DEF RoutesHealed
    <3>2. QED
      BY <1>1, <1>3, <1>12, <3>1
  <2>4. ASSUME HealedComes, NEW l \in scheduled PROVE AfterHeal(l) \in events'
    <3>1. AfterHeal(l) \in events
      BY <1>1, <1>2, <2>3, <2>4 DEF RoutesInv, RoutesAsNew, RoutesCut
    <3>2. QED
      BY <1>1, <1>12, <3>1
  <2>5. StaleFrom(recoveryTime)'
    BY <1>8 DEF StaleFrom
  <2>6. now' >= cutTime
    BY <1>1, <1>3, <1>12
  <2>7. RoutesCut'
    BY <1>1, <1>2, <1>9, <1>12, <2>2, <2>4, <2>5, <2>6 DEF RoutesCut
  <2>8. QED
    BY <2>7 DEF RoutesInv
<1>13. CASE HealedComes /\ e.at = healedTime
  <2>1. ASSUME NEW l \in Link, l \in scheduled PROVE IsHealed(l)
    <3>1. ASSUME IsCut(l) PROVE FALSE
      <4>1. now' <= recoveryTime
        BY <1>1, <1>4, <3>1 DEF IsCut
      <4>2. QED
        BY <1>1, <1>3, <1>13, <4>1
    <3>2. QED
      BY <1>1, <1>10, <2>1, <3>1 DEF LinksInv
  <2>2. routes' = [l \in Link |-> IF l \in scheduled THEN 1 ELSE original[l]]
    BY <1>5, <1>6, <1>11, <2>1
  <2>3. now' >= healedTime
    BY <1>1, <1>3, <1>13
  <2>4. RoutesHealed'
    BY <1>1, <1>8, <1>9, <1>13, <2>2, <2>3 DEF RoutesHealed
  <2>5. QED
    BY <2>4 DEF RoutesInv
<1>14. QED
  BY <1>2, <1>12, <1>13

LEMMA RunStep == TimelineInv /\ RunEvent => TimelineInv'
<1> SUFFICES ASSUME TimelineInv, RunEvent PROVE TimelineInv'
  OBVIOUS
<1>1. PICK e \in events :
        /\ IsNext(e) /\ now' = e.at /\ events' = events \ {e}
        /\ \/ e.what = "toggle" /\ Toggle(e.link)
           \/ e.what = "recompute" /\ RecomputeRoutingTables
           \/ e.what = "stop" /\ Stop
  BY DEF RunEvent
<1>2. Runs(e) /\ phase = "run"
  BY <1>1 DEF RunEvent, Runs
<1>3. /\ OptionsInv /\ RoutesInv
      /\ options' = options /\ original' = original
  BY <1>2, RunFacts
<1>4. OptionsInv'
  BY <1>3 DEF OptionsInv
<1>5. ipv4' = ipv4
  BY <1>3, SameNames
<1>6. CASE e.what = "toggle" /\ Toggle(e.link)
  <2>1. phase' = "run"
    BY <1>2, <1>6 DEF Toggle
  <2>2. EventsInv'
    BY <1>2, <1>6, <2>1, EventsStep
  <2>3. LinksInv'
    BY <1>2, <1>6, LinksToggle
  <2>4. RoutesInv'
    <3>1. CASE ipv4
      BY <1>2, <1>6, <3>1, RoutesToggle
    <3>2. CASE ~ ipv4
      BY <1>5, <3>2 DEF RoutesInv
    <3>3. QED
      BY <3>1, <3>2
  <2>5. QED
    BY <1>4, <2>1, <2>2, <2>3, <2>4 DEF TimelineInv
<1>7. CASE e.what = "recompute" /\ RecomputeRoutingTables
  <2>1. phase' = "run" /\ face' = face
    BY <1>2, <1>7 DEF RecomputeRoutingTables
  <2>2. EventsInv'
    BY <1>2, <1>7, <2>1, EventsStep
  <2>3. LinksInv'
    BY <1>2, <1>7, <2>1, LinksRest
  <2>4. RoutesInv'
    BY <1>2, <1>7, <2>1, RoutesRecompute
  <2>5. QED
    BY <1>4, <2>1, <2>2, <2>3, <2>4 DEF TimelineInv
<1>8. CASE e.what = "stop" /\ Stop
  <2>1. phase' = "ended" /\ face' = face /\ routes' = routes
    BY <1>8 DEF Stop
  <2>2. EventsInv'
    BY <1>2, <1>8, <2>1, EventsStep
  <2>3. LinksInv'
    BY <1>2, <1>8, <2>1, LinksRest
  <2>4. RoutesInv'
    <3>1. CASE ipv4
      BY <1>2, <1>8, <2>1, <3>1, RoutesStop
    <3>2. CASE ~ ipv4
      BY <1>5, <3>2 DEF RoutesInv
    <3>3. QED
      BY <3>1, <3>2
  <2>5. QED
    BY <1>4, <2>1, <2>2, <2>3, <2>4 DEF TimelineInv
<1>9. QED
  BY <1>1, <1>6, <1>7, <1>8

LEMMA StutterStep == TimelineInv /\ UNCHANGED vars => TimelineInv'
<1> SUFFICES ASSUME TimelineInv, UNCHANGED vars PROVE TimelineInv'
  OBVIOUS
<1>1. /\ options' = options /\ original' = original /\ dice' = dice /\ phase' = phase
      /\ face' = face /\ routes' = routes /\ events' = events /\ now' = now
      /\ scheduled' = scheduled /\ downFor' = downFor /\ staleSince' = staleSince
  BY DEF vars, input, history
<1>2. OptionsInv' = OptionsInv
  BY <1>1 DEF OptionsInv
<1>3. /\ Link' = Link /\ ipv4' = ipv4 /\ StopAtEnd' = StopAtEnd
      /\ CutComes' = CutComes /\ HealedComes' = HealedComes
      /\ failureTime' = failureTime /\ recoveryTime' = recoveryTime
      /\ cutTime' = cutTime /\ healedTime' = healedTime
      /\ \A l : /\ Fail(l)' = Fail(l) /\ Heal(l)' = Heal(l)
               /\ AfterFail(l)' = AfterFail(l) /\ AfterHeal(l)' = AfterHeal(l)
               /\ AsNew(l)' = AsNew(l) /\ Cut(l)' = Cut(l) /\ Healed(l)' = Healed(l)
               /\ FailAt(l)' = FailAt(l) /\ HealAt(l)' = HealAt(l)
  BY <1>1, SameNames
<1>4. NotRunning => NotRunning'
  BY <1>1, <1>3 DEF NotRunning
<1>5. EventsInv => EventsInv'
  BY <1>1, <1>3 DEF EventsInv
<1>6. \A l : /\ Untouched(l) => Untouched(l)'
             /\ IsCut(l) => IsCut(l)'
             /\ IsHealed(l) => IsHealed(l)'
  BY <1>1, <1>3 DEF Untouched, IsCut, IsHealed
<1>7. LinksInv => LinksInv'
  BY <1>1, <1>3, <1>6 DEF LinksInv
<1>8. (Stale(face, routes))' = Stale(face, routes)
  BY <1>1, StaleNext
<1>9. RoutesInv => RoutesInv'
  BY <1>1, <1>3, <1>8 DEF RoutesInv, RoutesAsNew, RoutesCut, RoutesHealed, StaleFrom
<1>10. QED
  BY <1>1, <1>2, <1>4, <1>5, <1>7, <1>9 DEF TimelineInv

(* The invariant, of every behaviour.                                      *)
THEOREM TimelineInvariant == Spec => []TimelineInv
<1>1. TimelineInv /\ [Next]_vars => TimelineInv'
  BY GenerateStep, NothingStep, ManualStep, FileStep, RunStep, StutterStep DEF Next
<1>2. QED
  BY InitHolds, <1>1, PTL DEF Spec
-----------------------------------------------------------------------------
(* Properties.                                                             *)

(* What has the time of an event of the past is past.                      *)
LEMMA AtTheEnd ==
  ASSUME TimelineInv, phase = "ended", NEW l \in Link, HealAt(l) < now
  PROVE  IF l \in scheduled THEN IsHealed(l) ELSE Untouched(l)
<1>1. OptionsInv /\ EventsInv /\ LinksInv
  BY DEF TimelineInv
<1>2. /\ FailAt(l) \in Nat /\ HealAt(l) \in Nat /\ FailAt(l) < HealAt(l)
      /\ Fail(l).at = FailAt(l) /\ Heal(l).at = HealAt(l)
  BY <1>1, ToggleTimes, Parts
<1>3. Heal(l) \notin events
  <2>1. \A d \in events : d.at \in Nat /\ now <= d.at
    BY <1>1 DEF EventsInv
  <2>2. QED
    BY <1>1, <1>2, <2>1 DEF EventsInv
<1>4. CASE l \in scheduled
  BY <1>1, <1>3, <1>4 DEF LinksInv, Untouched, IsCut
<1>5. CASE l \notin scheduled
  BY <1>1, <1>5 DEF LinksInv, IsCut, IsHealed
<1>6. QED
  BY <1>4, <1>5

LEMMA HealedAtTheEnd == TimelineInv => EveryFailureIsHealed
<1> SUFFICES ASSUME TimelineInv PROVE EveryFailureIsHealed
  OBVIOUS
<1>1. OptionsInv
  BY DEF TimelineInv
<1>2. ASSUME NEW l \in Link
      PROVE  face[l] = AsNew(l) \/ face[l] = Cut(l) \/ face[l] = Healed(l)
  BY <1>2 DEF TimelineInv, NotRunning, LinksInv, Untouched, IsCut, IsHealed
<1>3. ASSUME NEW l \in Link
      PROVE  /\ face[l]["from"] = face[l]["to"]
             /\ options.type = "ipv4" => (Usable(l) <=> face[l]["from"].metric # Down)
  <2>1. original[l] # Down
    BY <1>1, Metric DEF Down
  <2>2. CASE face[l] = AsNew(l)
    BY <2>1, <2>2 DEF AsNew, End, Usable
  <2>3. CASE face[l] = Cut(l)
    BY <2>3 DEF Cut, End, Usable, ipv4
  <2>4. CASE face[l] = Healed(l)
    BY <2>4 DEF Healed, End, Usable, ipv4, Down
  <2>5. QED
    BY <1>2, <2>2, <2>3, <2>4
<1>4. ASSUME phase = "ended", \A l \in Link : HealAt(l) < now, NEW l \in Link
      PROVE  Usable(l) /\ downFor[l] = IF l \in scheduled THEN HealAt(l) - FailAt(l) ELSE 0
  <2>1. IF l \in scheduled THEN IsHealed(l) ELSE Untouched(l)
    BY <1>4, AtTheEnd
  <2>2. LinksInv
    BY <1>4 DEF TimelineInv
  <2>3. QED
    BY <2>1, <2>2, UsableLinks DEF IsHealed, Untouched
<1>5. ASSUME phase = "ended"
      PROVE  now = options.simTime \/ (options.manualLoss /\ now = 1200)
  BY <1>5 DEF TimelineInv, EventsInv
<1>6. ASSUME phase = "ended", ~ options.manualLoss, NEW l \in Link
      PROVE  Usable(l) /\ downFor[l] = IF l \in scheduled THEN options.simTime \div 2 ELSE 0
  <2>1. now = 4 * failureTime /\ options.simTime \div 2 = 2 * failureTime
    BY <1>1, <1>5, <1>6, Times
  <2>2. ASSUME NEW k \in Link
        PROVE  /\ HealAt(k) < now
               /\ HealAt(k) - FailAt(k) = 2 * failureTime
    BY <1>1, <1>6, <2>1, Times, ToggleTimes
  <2>3. QED
    BY <1>4, <1>6, <2>1, <2>2
<1>7. ASSUME phase = "ended", options.manualLoss, options.simTime > 1000, NEW l \in Link
      PROVE  Usable(l) /\ downFor[l] = IF l \in scheduled THEN 600 ELSE 0
  <2>1. now > 1000 /\ now \in Nat
    BY <1>1, <1>5, <1>7, Times
  <2>2. ASSUME NEW k \in Link
        PROVE  HealAt(k) < now /\ HealAt(k) - FailAt(k) = 600
    BY <1>7, <2>1 DEF HealAt, FailAt
  <2>3. QED
    BY <1>4, <1>7, <2>2
<1>8. QED
  BY <1>3, <1>6, <1>7 DEF EveryFailureIsHealed

LEMMA RestoredAtTheEnd == TimelineInv => RoutesRestored
<1> SUFFICES ASSUME TimelineInv, phase = "ended", ipv4, options.simTime > 4 * Grace
             PROVE  \A l \in Link : routes[l] = IF l \in scheduled THEN 1 ELSE original[l]
  BY DEF RoutesRestored, ipv4
<1>1. OptionsInv /\ EventsInv /\ RoutesInv
  BY DEF TimelineInv
<1>2. CASE scheduled = {}
  <2>1. routes = original \/ routes = [l \in Link |-> original[l]]
    BY <1>1, <1>2 DEF RoutesInv, RoutesAsNew, RoutesCut, RoutesHealed
  <2>2. QED
    BY <1>2, <2>1
<1>3. CASE scheduled # {}
  <2>1. ~ options.manualLoss
    BY <1>1, <1>3 DEF EventsInv
  <2>2. PICK l \in scheduled : TRUE
    BY <1>3
  <2>3. /\ failureTime \in Nat /\ failureTime > Grace /\ recoveryTime = 3 * failureTime
        /\ now = 4 * failureTime
    BY <1>1, <2>1, Times DEF EventsInv, Grace
  <2>4. CutComes /\ HealedComes
    BY <1>1, <2>3, Times DEF CutComes, HealedComes, Grace
  <2>5. \A d \in events : d.at \in Nat /\ now <= d.at
    BY <1>1 DEF EventsInv
  <2>6. AfterFail(l) \notin events
    <3>1. AfterFail(l).at < now
      BY <2>3, Parts DEF cutTime, Grace
    <3>2. QED
      BY <2>3, <2>5, <3>1
  <2>7. AfterHeal(l) \notin events
    <3>1. AfterHeal(l).at < now
      BY <2>3, Parts DEF healedTime, Grace
    <3>2. QED
      BY <2>3, <2>5, <3>1
  <2>8. RoutesHealed
    BY <1>1, <2>2, <2>4, <2>6, <2>7 DEF RoutesInv, RoutesAsNew, RoutesCut
  <2>9. QED
    BY <2>8 DEF RoutesHealed
<1>4. QED
  BY <1>2, <1>3

(* While the routes are stale an event is due that ends the run or brings  *)
(* the links or the routes closer to each other.                           *)
LEMMA SomethingIsDue ==
  ASSUME TimelineInv, phase = "run", ipv4, staleSince # None
  PROVE  staleSince \in Nat /\ \E d \in events : d.at \in Nat /\ d.at <= staleSince + Grace
<1>1. /\ OptionsInv /\ EventsInv /\ LinksInv /\ RoutesInv
      /\ StopAtEnd \in events
  BY DEF TimelineInv, EventsInv
<1>2. /\ failureTime \in Nat /\ recoveryTime = 3 * failureTime
      /\ options.simTime = 4 * failureTime
  BY <1>1, Times
<1>3. ~ RoutesHealed
  BY DEF RoutesHealed
<1>4. CASE RoutesAsNew
  <2>1. staleSince = failureTime /\ Stale(face, routes)
    BY <1>4 DEF RoutesAsNew, StaleFrom
  <2>2. PICK l \in Link : (routes[l] # 0) # (\A d \in End : face[l][d].up)
    BY <2>1 DEF Stale
  <2>3. ~ Usable(l)
    <3>1. routes[l] # 0
      BY <1>1, <1>4, Metric DEF RoutesAsNew
    <3>2. QED
      BY <2>2, <3>1 DEF Usable
  <2>4. IsCut(l)
    BY <1>1, <2>3, UsableLinks DEF LinksInv
  <2>5. l \in scheduled /\ Heal(l) \in events
    BY <2>4 DEF IsCut
  <2>6. CASE CutComes
    <3>1. AfterFail(l) \in events
      BY <1>4, <2>5, <2>6 DEF RoutesAsNew
    <3>2. AfterFail(l).at = failureTime + Grace
      BY Parts DEF cutTime
    <3>3. QED
      BY <1>2, <2>1, <3>1, <3>2 DEF Grace
  <2>7. CASE ~ CutComes
    <3>1. ~ options.manualLoss
      BY <1>1, <2>5 DEF EventsInv
    <3>2. Heal(l).at = recoveryTime
      BY <1>1, <3>1, ToggleTimes, Parts
    <3>3. recoveryTime <= failureTime + Grace
      BY <1>2, <2>7 DEF CutComes, Grace
    <3>4. QED
      BY <1>2, <2>1, <2>5, <3>2, <3>3
  <2>8. QED
    BY <2>6, <2>7
<1>5. CASE RoutesCut
  <2>1. staleSince = recoveryTime /\ CutComes
    BY <1>5 DEF RoutesCut, StaleFrom
  <2>2. PICK l \in scheduled : TRUE
    BY <1>5 DEF RoutesCut
  <2>3. CASE HealedComes
    <3>1. AfterHeal(l) \in events
      BY <1>5, <2>2, <2>3 DEF RoutesCut
    <3>2. AfterHeal(l).at = recoveryTime + Grace
      BY Parts DEF healedTime
    <3>3. QED
      BY <1>2, <2>1, <3>1, <3>2 DEF Grace
  <2>4. CASE ~ HealedComes
    <3>1. options.simTime <= recoveryTime + Grace
      BY <1>2, <2>1, <2>4 DEF HealedComes, Grace
    <3>2. StopAtEnd.at = options.simTime
      BY Parts
    <3>3. QED
      BY <1>1, <1>2, <2>1, <3>1, <3>2
  <2>5. QED
    BY <2>3, <2>4
<1>6. QED
  BY <1>1, <1>3, <1>4, <1>5 DEF RoutesInv

(* The files are those of the dice, and a run for which a file was         *)
(* generated fails the links that the file says.                           *)
DrawnFor(p) == { l \in Link : dice[l] <= p }

FilesInv ==
  /\ DOMAIN files = Losses
  /\ \A p \in Losses : files[p].present =>
       files[p].N = NLinks /\ files[p].failed = DrawnFor(p)

ScheduledAsDrawn ==
  ~ options.manualLoss /\ phase # "start"
    /\ (options.loss = 0 \/ files[options.loss].present) =>
      phase # "undefined" /\ scheduled = DrawnFor(options.loss)

DrawnInv ==
  /\ \A l \in Link : dice[l] \in Nat \ {0}
  /\ FilesInv
  /\ ScheduledAsDrawn

LEMMA DrawnFirst == Init => DrawnInv
<1> SUFFICES ASSUME Init PROVE DrawnInv
  OBVIOUS
<1>1. \A l \in Link : dice[l] \in Nat \ {0}
  <2>1. PICK n \in Sizes : original \in [1 .. n -> Metrics] /\ dice \in [1 .. n -> Dice]
    BY DEF Init
  <2>2. \A l \in Link : dice[l] \in Dice
    BY <2>1 DEF Link
  <2>3. QED
    BY <2>2, LinkAssumption
<1>2. FilesInv
  BY DEF Init, FilesInv
<1>3. ScheduledAsDrawn
  BY DEF Init, ScheduledAsDrawn
<1>4. QED
  BY <1>1, <1>2, <1>3 DEF DrawnInv

(* Generating for one loss leaves the files of the others.                 *)
LEMMA DrawnGenerate == DrawnInv /\ GenerateLosses => DrawnInv'
<1> SUFFICES ASSUME DrawnInv, GenerateLosses PROVE DrawnInv'
  OBVIOUS
<1>1. /\ phase = "start" /\ phase' = "start" /\ original' = original
      /\ dice' = dice
  BY DEF GenerateLosses, input
<1>2. Link' = Link /\ NLinks' = NLinks /\ \A p : DrawnFor(p)' = DrawnFor(p)
  BY <1>1 DEF Link, NLinks, DrawnFor
<1>3. PICK q \in Losses :
        files' = [files EXCEPT ![q] = [present |-> TRUE, N |-> NLinks, failed |-> DrawnFor(q)]]
  BY DEF GenerateLosses, DrawnFor
<1>4. DOMAIN files' = Losses
  BY <1>3 DEF DrawnInv, FilesInv
<1>5. ASSUME NEW p \in Losses, files'[p].present
      PROVE  files'[p].N = NLinks /\ files'[p].failed = DrawnFor(p)
  <2>1. CASE p = q
    <3>1. files'[p] = [present |-> TRUE, N |-> NLinks, failed |-> DrawnFor(p)]
      BY <1>3, <2>1 DEF DrawnInv, FilesInv
    <3>2. QED
      BY <3>1
  <2>2. CASE p # q
    <3>1. files'[p] = files[p]
      BY <1>3, <2>2 DEF DrawnInv, FilesInv
    <3>2. QED
      BY <3>1, <1>5 DEF DrawnInv, FilesInv
  <2>3. QED
    BY <2>1, <2>2
<1>6. FilesInv'
  BY <1>2, <1>4, <1>5 DEF FilesInv
<1>7. ScheduledAsDrawn'
  BY <1>1 DEF ScheduledAsDrawn
<1>8. QED
  BY <1>1, <1>2, <1>6, <1>7 DEF DrawnInv

(* What keeps the files keeps what they say.                               *)
LEMMA FilesKept ==
  ASSUME DrawnInv, UNCHANGED << input, files >>
  PROVE  /\ \A l \in Link' : dice'[l] \in Nat \ {0}
         /\ FilesInv'
         /\ \A p : DrawnFor(p)' = DrawnFor(p)
<1>1. original' = original /\ dice' = dice /\ files' = files
  BY DEF input
<1>2. Link' = Link /\ NLinks' = NLinks /\ \A p : DrawnFor(p)' = DrawnFor(p)
  BY <1>1 DEF Link, NLinks, DrawnFor
<1>3. QED
  BY <1>1, <1>2 DEF DrawnInv, FilesInv

(* Without losses no dice is small enough, and nothing fails.              *)
LEMMA DrawnNothing == DrawnInv /\ ScheduleNothing => DrawnInv'
<1> SUFFICES ASSUME DrawnInv, ScheduleNothing PROVE DrawnInv'
  OBVIOUS
<1>1. /\ options.loss = 0 /\ phase' = "run" /\ scheduled' = {} /\ options' = options
      /\ UNCHANGED << input, files >>
  BY DEF ScheduleNothing, StartRun, input
<1>2. DrawnFor(0) = {}
  BY DEF DrawnInv, DrawnFor
<1>3. DrawnFor(options.loss)' = {}
  <2>1. options.loss' = 0
    BY <1>1
  <2>2. DrawnFor(0)' = {}
    BY <1>1, <1>2, FilesKept
  <2>3. QED
    BY <2>1, <2>2 DEF DrawnFor
<1>4. ScheduledAsDrawn'
  BY <1>1, <1>3 DEF ScheduledAsDrawn
<1>5. QED
  BY <1>1, <1>4, FilesKept DEF DrawnInv

(* The run reads what the generator wrote: as many lines as there are      *)
(* links, so every line is for the link it was drawn for.                  *)
LEMMA DrawnFile ==
  OptionsInv /\ DrawnInv /\ ScheduleFromFile => DrawnInv'
<1> SUFFICES ASSUME OptionsInv, DrawnInv, ScheduleFromFile PROVE DrawnInv'
  OBVIOUS
<1>1. /\ options.loss # 0 /\ options' = options /\ files' = files
      /\ UNCHANGED << input, files >>
      /\ options.loss \in Losses
  BY LinkAssumption DEF ScheduleFromFile, input, OptionsInv
<1>2. ASSUME files[options.loss].present
      PROVE  phase' = "run" /\ scheduled' = DrawnFor(options.loss)
  <2>1. PICK N \in 0 .. NLinks + 1 : \E failed \in SUBSET (1 .. N) :
          /\ N = files[options.loss].N /\ failed = files[options.loss].failed
          /\ IF failed \subseteq Link
             THEN StartRun({ StopAtEnd } \union UNION { FailureOf(l) : l \in failed }, failed)
             ELSE phase' = "undefined" /\ UNCHANGED << events, scheduled >>
    BY <1>2 DEF ScheduleFromFile
  <2>2. PICK failed \in SUBSET (1 .. N) :
          /\ failed = files[options.loss].failed
          /\ IF failed \subseteq Link
             THEN StartRun({ StopAtEnd } \union UNION { FailureOf(l) : l \in failed }, failed)
             ELSE phase' = "undefined" /\ UNCHANGED << events, scheduled >>
    BY <2>1
  <2>3. failed = DrawnFor(options.loss) /\ failed \subseteq Link
    BY <1>1, <1>2, <2>2 DEF DrawnInv, FilesInv, DrawnFor
  <2>4. StartRun({ StopAtEnd } \union UNION { FailureOf(l) : l \in failed }, failed)
    BY <2>2, <2>3
  <2>5. QED
    BY <2>3, <2>4 DEF StartRun
<1>3. DrawnFor(options.loss)' = DrawnFor(options.loss)
  BY <1>1 DEF DrawnFor, Link, input
<1>4. ScheduledAsDrawn'
  BY <1>1, <1>2, <1>3 DEF ScheduledAsDrawn
<1>5. QED
  BY <1>1, <1>4, FilesKept DEF DrawnInv

(* The hard-coded pattern is not drawn, and a run only goes on to its end. *)
LEMMA DrawnElse ==
  ASSUME DrawnInv, ScheduleManual \/ RunEvent \/ UNCHANGED vars
  PROVE  DrawnInv'
<1>1. options' = options /\ files' = files /\ UNCHANGED << input, files >>
  BY DEF ScheduleManual, RunEvent, vars, input
<1>2. DrawnFor(options.loss)' = DrawnFor(options.loss)
  BY <1>1 DEF DrawnFor, Link, input
<1>3. ScheduledAsDrawn'
  <2>1. CASE ScheduleManual
    BY <1>1, <2>1 DEF ScheduleManual, ScheduledAsDrawn
  <2>2. CASE RunEvent
    <3>1. phase = "run" /\ phase' \in {"run", "ended"} /\ scheduled' = scheduled
      BY <2>2 DEF RunEvent, Toggle, RecomputeRoutingTables, Stop
    <3>2. QED
      BY <1>1, <1>2, <3>1 DEF DrawnInv, ScheduledAsDrawn
  <2>3. CASE UNCHANGED vars
    <3>1. phase' = phase /\ scheduled' = scheduled
      BY <2>3 DEF vars, history
    <3>2. QED
      BY <1>1, <1>2, <3>1 DEF DrawnInv, ScheduledAsDrawn
  <2>4. QED
    BY <2>1, <2>2, <2>3
<1>4. QED
  BY <1>1, <1>3, FilesKept DEF DrawnInv

LEMMA DrawnInvariant == Spec => []DrawnInv
<1>1. TimelineInv /\ DrawnInv /\ [Next]_vars => DrawnInv'
  <2>1. TimelineInv => OptionsInv
    BY DEF TimelineInv
  <2>2. QED
    BY <2>1, DrawnGenerate, DrawnNothing, DrawnFile, DrawnElse DEF Next
<1>2. QED
  BY TimelineInvariant, DrawnFirst, <1>1, PTL DEF Spec

(* What was drawn was scheduled, and what was scheduled was down and healed.*)
LEMMA DrawnAtTheEnd == TimelineInv /\ DrawnInv => FailuresAsDrawn
<1> SUFFICES ASSUME TimelineInv, DrawnInv, ~ options.manualLoss,
                    options.loss = 0 \/ files[options.loss].present
             PROVE  /\ phase # "undefined"
                    /\ phase = "ended" =>
                         \A l \in Link :
                           downFor[l] = IF dice[l] <= options.loss
                                        THEN options.simTime \div 2 ELSE 0
  BY DEF FailuresAsDrawn
<1>1. phase # "start" => phase # "undefined" /\ scheduled = DrawnFor(options.loss)
  BY DEF DrawnInv, ScheduledAsDrawn
<1>2. ASSUME phase = "ended", NEW l \in Link
      PROVE  downFor[l] = IF dice[l] <= options.loss THEN options.simTime \div 2 ELSE 0
  <2>1. downFor[l] = IF l \in scheduled THEN options.simTime \div 2 ELSE 0
    BY <1>2, HealedAtTheEnd DEF EveryFailureIsHealed
  <2>2. l \in scheduled <=> dice[l] <= options.loss
    BY <1>1, <1>2 DEF DrawnFor
  <2>3. QED
    BY <2>1, <2>2
<1>3. QED
  BY <1>1, <1>2

Lag == options.type = "ipv4" /\ staleSince # None => now' - staleSince <= Grace

LEMMA LagStep == TimelineInv /\ [Next]_vars => [Lag]_vars
<1> SUFFICES ASSUME TimelineInv, Next PROVE Lag
  OBVIOUS
<1>1. CASE phase = "start"
  BY <1>1 DEF TimelineInv, NotRunning, Lag
<1>2. CASE RunEvent
  <2>1. PICK e : Runs(e)
    BY <1>2 DEF RunEvent, Runs
  <2>2. SUFFICES ASSUME ipv4, staleSince # None PROVE now' - staleSince <= Grace
    BY DEF Lag, ipv4
  <2>3. now' \in Nat /\ \A d \in events : now' <= d.at
    BY <2>1, RunFacts
  <2>4. /\ staleSince \in Nat
        /\ \E d \in events : d.at \in Nat /\ d.at <= staleSince + Grace
    BY <2>1, <2>2, SomethingIsDue DEF Runs
  <2>5. PICK t \in Nat : t <= staleSince + Grace /\ \E d \in events : t = d.at
    BY <2>4
  <2>6. now' <= t /\ now' \in Nat /\ staleSince \in Nat
    BY <2>3, <2>4, <2>5
  <2>7. now' <= staleSince + Grace
    BY <2>5, <2>6 DEF Grace
  <2>8. \A s, n \in Nat : n <= s + Grace => n - s <= Grace
    BY DEF Grace
  <2>9. QED
    BY <2>6, <2>7, <2>8, Zenon
<1>3. QED
  BY <1>1, <1>2
     DEF Next, GenerateLosses, ScheduleNothing, ScheduleManual, ScheduleFromFile

(* A link of any topology is down for half of the run exactly if its dice  *)
(* was within the loss for which the file was generated, whatever else was *)
(* generated, and the run does not look past the last link.                *)
THEOREM FailuresFollowTheDice == Spec => []FailuresAsDrawn
  BY TimelineInvariant, DrawnInvariant, DrawnAtTheEnd, PTL

(* The ends of a link agree, and a link of any topology that fails is up   *)
(* again at the end of the run, having been down for half of it: no order  *)
(* of the toggles leaves one end down.                                     *)
THEOREM FailuresHeal == Spec => []EveryFailureIsHealed
  BY TimelineInvariant, HealedAtTheEnd, PTL

(* A run of more than two minutes ends with routes that use every link:    *)
(* the last recomputation is after the last healing and before the stop.   *)
THEOREM RoutesAreRestored == Spec => []RoutesRestored
  BY TimelineInvariant, RestoredAtTheEnd, PTL

(* Routes and links of an ipv4 run never disagree for longer than the      *)
(* grace, whichever recomputations the length of the run leaves out.       *)
THEOREM RoutesCatchUp == Spec => RoutesLagBehind
<1>1. TimelineInv /\ [Next]_vars =>
        [options.type = "ipv4" /\ staleSince # None => now' - staleSince <= Grace]_vars
  BY LagStep DEF Lag
<1>2. QED
  BY TimelineInvariant, <1>1, PTL DEF Spec, RoutesLagBehind
=============================================================================
